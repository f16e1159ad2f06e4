----------------------------- MODULE MCWsFrames -----------------------------
(* WsFrames for TLC.  Escape is scaled to 1, so that both forms of the      *)
(* length occur in a buffer of a few bytes.                                 *)
EXTENDS WsFrames

CONSTANT Sizes

\* Text of several sizes, its bytes such as also begin a frame, and CLOSE.
MCMessages ==
  [opcode : {TEXT}, payload : {[i \in 1..n |-> 128 + TEXT] : n \in Sizes}]
    \cup {[opcode |-> CLOSE, payload |-> <<>>]}

=============================================================================
