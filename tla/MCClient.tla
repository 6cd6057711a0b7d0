------------------------------ MODULE MCClient ------------------------------
(* Model-checking instances of ClientSession.  Sessions share nothing but    *)
(* the control thread and the test that no client is left.                   *)
EXTENDS ClientSession

CONSTANT p1
=============================================================================
