------------------------------ MODULE AudioPath ------------------------------
(***************************************************************************)
(* What audio_driver.h promises of the path of the samples, without buses, *)
(* codecs and handles: both directions open together, as the last act of   *)
(* an init that succeeds; a direction runs only while it is open; a call   *)
(* that fails leaves what it found, or has gone part of its way; and stop  *)
(* and deinit, which cannot fail, end with nothing running, or open.       *)
(***************************************************************************)
CONSTANT Dirs

VARIABLES
  call,     \* the call under way, or "none"
  last,     \* the last call, and its result
  on,       \* the driver is initialized
  open,     \* the directions in which audio_read and audio_write transfer
  running   \* the directions in which samples flow

path == <<on, open, running>>
vars == <<call, last, path>>

Init ==
  /\ call = "none" /\ last = [call |-> "none", ok |-> TRUE]
  /\ on = FALSE /\ open = {} /\ running = {}

Call(c) == call = "none" /\ call' = c /\ ((c = "init") <=> ~on) /\ UNCHANGED <<last, path>>

Return(c, ok) == call = c /\ call' = "none" /\ last' = [call |-> c, ok |-> ok]

InitDone == Return("init", TRUE) /\ on' = TRUE /\ open' = Dirs /\ UNCHANGED running

Fail == (Return("init", FALSE) \/ Return("start", FALSE)) /\ UNCHANGED path

Run(d) ==
  /\ call = "start" /\ d \in open \ running
  /\ running' = running \cup {d}
  /\ UNCHANGED <<call, last, on, open>>

StartDone == Return("start", TRUE) /\ running = Dirs /\ UNCHANGED path

Halt(d) ==
  /\ call \in {"stop", "deinit"} /\ d \in running
  /\ running' = running \ {d}
  /\ UNCHANGED <<call, last, on, open>>

\* What still runs stops with the return.
StopDone == Return("stop", TRUE) /\ running' = {} /\ UNCHANGED <<on, open>>

Release(d) ==
  /\ call = "deinit" /\ d \in open \ running
  /\ open' = open \ {d}
  /\ UNCHANGED <<call, last, on, running>>

DeinitDone ==
  /\ Return("deinit", TRUE)
  /\ open = {} /\ running = {} /\ on' = FALSE
  /\ UNCHANGED <<open, running>>

\* deinit of a driver that is off.
DeinitOff ==
  /\ call = "none" /\ ~on /\ last' = [call |-> "deinit", ok |-> TRUE]
  /\ UNCHANGED <<call, path>>

Next ==
  \/ \E c \in {"init", "start", "stop", "deinit"} : Call(c)
  \/ InitDone \/ Fail \/ StartDone \/ StopDone \/ DeinitDone \/ DeinitOff
  \/ \E d \in Dirs : Run(d) \/ Halt(d) \/ Release(d)

Spec == Init /\ [][Next]_vars

=============================================================================
