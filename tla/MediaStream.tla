---------------------------- MODULE MediaStream ----------------------------
(***************************************************************************)
(* What one media stream promises to the decoder: of the frames that were   *)
(* offered it is shown some, each whole and never an older one behind a     *)
(* newer.  The content of a frame is told by where each fragment is from.   *)
(***************************************************************************)
EXTENDS Naturals, Sequences

CONSTANT Sizes        \* the numbers of fragments a frame may have

VARIABLES offered,    \* frames handed to sendMedia: seq and size
          shown       \* messages that push has returned

vars == <<offered, shown>>

Whole(f) == [seq |-> f.seq, from |-> [i \in 0..(f.size - 1) |-> f.seq]]

Init == offered = {} /\ shown = <<>>

Offer ==
    /\ \E f \in offered' \ offered :
          /\ f.size \in Sizes /\ \A g \in offered : f.seq # g.seq
          /\ offered' = offered \cup {f}
    /\ UNCHANGED shown

Show ==
    /\ \E f \in offered :
          /\ \A i \in 1..Len(shown) : shown[i].seq < f.seq
          /\ shown' = Append(shown, Whole(f))
    /\ UNCHANGED offered

Next == Offer \/ Show

Spec == Init /\ [][Next]_vars
=============================================================================
