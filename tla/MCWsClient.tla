----------------------------- MODULE MCWsClient -----------------------------
(* WsClient for TLC: the memory blocks are interchangeable.                *)
EXTENDS WsClient, TLC

Symmetry == Permutations(Handles)

=============================================================================
