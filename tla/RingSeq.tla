------------------------------- MODULE RingSeq -------------------------------
(***************************************************************************)
(* Sequence numbers as they are on the wire and in memory: 32 bits that    *)
(* wrap around, where ReliableChannel counts on.  The channel is looked at *)
(* after Past fragments have been sent, delivered and acknowledged, so a   *)
(* seq n of the model is On(n) in the code.  The code compares in three    *)
(* ways: seq_le in both senders, inWindow in the phone's receiver, and a   *)
(* plain `<` in the PC's.                                                  *)
(***************************************************************************)
EXTENDS ReliableChannel

CONSTANTS Quarter,    \* 2^30, a quarter of the ring
          Past        \* fragments that went through before

ASSUME QuarterAssumption == Quarter \in Nat \ {0}
ASSUME PastAssumption == Past \in Nat

Ring == 4 * Quarter
Half == 2 * Quarter

On(n) == (Past + n) % Ring

WrappingSub(a, b) == (a - b) % Ring

(* Mutant of SeqLe: the plain comparison, as in the PC's receiver. *)
SeqLePlain(a, b) == a <= b

SeqLe(a, b) == a = b \/ WrappingSub(a, b) >= Half

InWindow(seq, base) == WrappingSub(seq, base) < Quarter

(* What on_ack / onAck releases. *)
ReleasedOnRing(a) == {s \in Window : SeqLe(On(s), On(a))}

(* The frames that the phone's receiver drops as too old or too far ahead,  *)
(* and those that the PC's drops as duplicates.                             *)
PhoneDrops(f) == ~InWindow(On(f.seq), On(recvNext))
PcDrops(f)    == On(f.seq) < On(recvNext)
-----------------------------------------------------------------------------
(* Nothing that is still compared is a quarter of the ring old. *)
Recent ==
    \A s \in Window \cup acks \cup {f.seq : f \in net} : Len(wire) - s < Quarter

(* While all is recent, on_ack and the phone's onFrame decide on the ring as *)
(* ReliableChannel does without it, however often the numbers have wrapped.  *)
RingAgrees ==
    Recent => /\ \A a \in acks : Window \ ReleasedOnRing(a) = Kept(a)
              /\ \A f \in net : PhoneDrops(f) <=> f.seq < recvNext

(* on_frame of the PC does so until the numbers wrap for the first time ...  *)
PcAgrees ==
    Past + Len(wire) + 1 < Ring => \A f \in net : PcDrops(f) <=> f.seq < recvNext

(* ... and then it drops what it waits for: every frame behind the boundary, *)
(* up to a whole ring ahead, is taken for a duplicate until those before it  *)
(* are delivered.                                                            *)
PcDeafAtWrap ==
    Past + recvNext < Ring =>
        \A f \in net :
            Past + f.seq \in Ring..(Ring + Past + recvNext - 1) => PcDrops(f)
=============================================================================
