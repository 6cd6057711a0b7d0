------------------------------ MODULE MCAudio ------------------------------
EXTENDS AudioControl, TLC

CONSTANT First   \* bound: codecs that a session may start with

(* Sessions that start with one of these codecs, switched on or off. *)
StartInit == Init /\ target.codec \in First
StartSpec == StartInit /\ [][Next]_vars /\ Fairness
=============================================================================
