----------------------------- MODULE MCReliable -----------------------------
(* Model-checking instances of ReliableChannel. *)
EXTENDS RingSeq, TLC
=============================================================================
