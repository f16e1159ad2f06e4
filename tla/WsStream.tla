------------------------------ MODULE WsStream ------------------------------
(***************************************************************************)
(* What the receiving side promises, without bytes and buffers: in a       *)
(* session that began with nothing left over and lost nothing, the         *)
(* messages are handled in the order sent, each once, and CLOSE takes the  *)
(* session down.  A session that follows one whose messages were all       *)
(* handled begins with nothing left over.                                  *)
(***************************************************************************)
EXTENDS Sequences, Naturals

CONSTANTS Messages, IsClose(_)

VARIABLES
  sent,     \* what the server has sent in this session
  handled,  \* what of it the client has handled
  up,       \* the session is on and not closed
  intact    \* nothing is left over or lost

vars == <<sent, handled, up, intact>>

Init == sent = <<>> /\ handled = <<>> /\ up = FALSE /\ intact = TRUE

Open ==
  /\ sent' = <<>> /\ handled' = <<>> /\ up' = TRUE
  /\ intact' \in BOOLEAN
  /\ intact /\ handled = sent => intact'

Send == (\E m \in Messages : sent' = Append(sent, m)) /\ UNCHANGED <<handled, up, intact>>

Handle ==
  /\ intact /\ Len(handled) < Len(sent)
  /\ LET m == sent[Len(handled) + 1]
     IN  handled' = Append(handled, m) /\ up' = (up /\ ~IsClose(m))
  /\ UNCHANGED <<sent, intact>>

Lose == intact /\ intact' = FALSE /\ UNCHANGED <<sent, handled, up>>

Down == up' = FALSE /\ UNCHANGED <<sent, handled, intact>>

Next == Open \/ Send \/ Handle \/ Lose \/ Down

Spec == Init /\ [][Next]_vars

=============================================================================
