---------------------------- MODULE FifoChannel ----------------------------
(***************************************************************************)
(* What one direction of the control stream promises to its users: the     *)
(* receiver is handed whole messages, in the order they were accepted,     *)
(* each exactly once.  A message is the run of its fragments 0 .. total-1; *)
(* the two histories are sequences of fragments in which such runs follow  *)
(* each other.                                                             *)
(***************************************************************************)
EXTENDS Naturals, Sequences

CONSTANT Sizes          \* the numbers of fragments a message may have

VARIABLES accepted,     \* fragments of the messages handed to the sender
          delivered     \* fragments of the messages handed to the receiver

vars == <<accepted, delivered>>

(* The fragments of message id with n fragments, numbered after `last`. *)
Fragments(id, n, last) ==
    [i \in 1..n |-> [seq |-> last + i, msg |-> id, frag |-> i - 1, total |-> n]]

(* Messages are numbered from 1 in the order in which they are accepted. *)
NextId == IF accepted = <<>> THEN 1 ELSE accepted[Len(accepted)].msg + 1

(* The first n fragments of h are a whole number of messages. *)
MessageEnd(h, n) == n = 0 \/ h[n].frag + 1 = h[n].total

Init == accepted = <<>> /\ delivered = <<>>

(* The sender accepts one more message. *)
Accept ==
    /\ \E n \in Sizes :
          accepted' = accepted \o Fragments(NextId, n, Len(accepted))
    /\ UNCHANGED delivered

(* The receiver is handed the next messages, possibly several at once. *)
Deliver ==
    /\ \E n \in (Len(delivered) + 1)..Len(accepted) :
          MessageEnd(accepted, n) /\ delivered' = SubSeq(accepted, 1, n)
    /\ UNCHANGED accepted

Next == Accept \/ Deliver

Spec == Init /\ [][Next]_vars
=============================================================================
