------------------------------ MODULE MCMedia ------------------------------
(* Model-checking instance of MediaReassembly. *)
EXTENDS MediaReassembly

CONSTANTS t1, t2
=============================================================================
