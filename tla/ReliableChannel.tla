-------------------------- MODULE ReliableChannel --------------------------
(***************************************************************************)
(* One direction of the reliable control stream: a sender that numbers     *)
(* fragments and retransmits those not acknowledged, a datagram network    *)
(* that loses, duplicates and reorders, and a receiver that buffers, hands *)
(* over whole messages in order and answers with a cumulative ACK.         *)
(*                                                                         *)
(* The PC runs ReliableSender / ReliableReceiver of                        *)
(* kulua-proto/src/reliable.rs, the phone ReliableControl.Sender/Receiver. *)
(* They differ in three places, selected by Direction:                     *)
(*   "PcToPhone"  a stalled sender closes its session (session.rs, writer  *)
(*                thread); the phone acknowledges every DATA frame at once *)
(*   "PhoneToPc"  a stalled sender stays in place and drops what it is     *)
(*                given; the PC acknowledges on its next 25 ms writer tick *)
(*                                                                         *)
(* Time is abstract: the retransmission timer of an entry may fire at any  *)
(* moment, older entries never later than younger ones.  Sequence numbers  *)
(* do not wrap here (RingSeq treats the wrap).                             *)
(***************************************************************************)
EXTENDS Integers, Sequences, FiniteSets

CONSTANTS Sizes,          \* fragment counts of the messages that are sent
          LossLimit,      \* LOSS_LIMIT: timeouts of one entry before the stall
          MaxRecvBuffer,  \* MAX_RECV_BUFFER: fragments the receiver may hold
          Direction,      \* which implementation runs at which end
          MaxMsgs,        \* bound: messages sent
          MaxLosses,      \* bound: datagrams the network loses
          Patient         \* TRUE: the RTO exceeds the round trip

ASSUME SizesAssumption == Sizes \subseteq Nat \ {0}
ASSUME LimitAssumption == LossLimit \in Nat /\ MaxRecvBuffer \in Nat
ASSUME DirectionAssumption == Direction \in {"PcToPhone", "PhoneToPc"}
ASSUME BoundsAssumption ==
    MaxMsgs \in Nat /\ MaxLosses \in Nat /\ Patient \in BOOLEAN

VARIABLES
    wire,        \* every DATA frame the sender has numbered; wire[s].seq = s
    nextMsg,     \* the id of the next message
    loss,        \* the window: unacknowledged seq -> loss_count
    stalled,     \* the sender has given up
    closed,      \* the PC session that owns the sender is closed
    net,         \* DATA frames in flight
    acks,        \* cumulative ACK values in flight
    lost,        \* how many datagrams the network has lost
    recvNext,    \* next_seq of the receiver
    buf,         \* out-of-order frames held by the receiver: seq -> frame
    dead,        \* the receiver's buffer overran
    ackPending,  \* an acknowledgement is due (PC receiver only)
    delivered    \* fragments handed over so far, message after message

sender   == <<wire, nextMsg, loss, stalled, closed>>
network  == <<net, acks, lost>>
receiver == <<recvNext, buf, dead, ackPending, delivered>>
vars     == <<sender, network, receiver>>

Abstract == INSTANCE FifoChannel WITH accepted <- wire

SeqBound == MaxMsgs * (CHOOSE n \in Sizes : \A m \in Sizes : m <= n)

Window == DOMAIN loss          \* the unacknowledged seqs

Frame == [seq : Nat \ {0}, msg : Nat \ {0}, frag : Nat, total : Nat \ {0}]

Init ==
    /\ wire = <<>> /\ nextMsg = 1 /\ loss = <<>>
    /\ stalled = FALSE /\ closed = FALSE
    /\ net = {} /\ acks = {} /\ lost = 0
    /\ recvNext = 1 /\ buf = <<>> /\ dead = FALSE /\ ackPending = FALSE
    /\ delivered = <<>>
-----------------------------------------------------------------------------
(* The sender.                                                             *)

(* send_ctrl_bytes / sendCtrlBytes: one seq per fragment, every fragment is *)
(* put into the window and on the wire.  The phone's sender returns early   *)
(* once stalled; the PC's forgets the stall.                                *)
Send(n) ==
    LET frames == Abstract!Fragments(nextMsg, n, Len(wire)) IN
    /\ nextMsg <= MaxMsgs
    /\ Direction = "PhoneToPc" => ~stalled
    /\ nextMsg' = nextMsg + 1
    /\ wire' = wire \o frames
    /\ loss' = [s \in Window \cup (Len(wire) + 1)..(Len(wire) + n) |->
                  IF s \in Window THEN loss[s] ELSE 0]
    /\ stalled' = FALSE
    /\ net' = net \cup {frames[i] : i \in 1..n}
    /\ UNCHANGED <<closed, acks, lost, receiver>>

(* Mutant of Kept: any acknowledgement clears the window.                   *)
KeptNone(a) == {}

(* What a cumulative acknowledgement leaves in the window. *)
Kept(a) == {s \in Window : s > a}

(* on_ack / onAck: release everything up to the cumulative value.  On the   *)
(* PC progress that leaves something pending also clears the stall; its     *)
(* reader thread ends with the session.                                     *)
RecvAck(a) ==
    /\ a \in acks
    /\ ~closed
    /\ acks' = acks \ {a}
    /\ loss' = [s \in Kept(a) |-> loss[s]]
    /\ stalled' = (stalled /\ ~(/\ Direction = "PcToPhone"
                                /\ Kept(a) # Window /\ Kept(a) # {}))
    /\ UNCHANGED <<wire, nextMsg, closed, net, lost, receiver>>

(* A set of entries whose timers run out in one pass.  Timers of entries    *)
(* sent earlier have run longer, so an older entry that has been resent no  *)
(* more often than a due one is due as well.                                *)
DueTogether(due) ==
    /\ due # {} /\ due \subseteq Window
    /\ \A s \in due, t \in Window : t < s /\ loss[t] <= loss[s] => t \in due
    /\ Patient =>
          /\ net = {} /\ acks = {} /\ ~ackPending
          /\ \A s \in due, t \in Window : wire[t].msg = wire[s].msg => t \in due

(* Mutant of Exhausted: the count is compared before it is raised.          *)
ExhaustedEarly(due) == {s \in due : loss[s] + 1 >= LossLimit}

Exhausted(due) == {s \in due : loss[s] >= LossLimit}

(* due_timeouts and the check of is_stalled behind it, under one lock: all  *)
(* due entries are counted, those within the limit are resent, and a stall  *)
(* closes the session.                                                      *)
PcTimeout(due) ==
    /\ Direction = "PcToPhone" /\ ~closed
    /\ loss' = [s \in Window |-> IF s \in due THEN loss[s] + 1 ELSE loss[s]]
    /\ net' = net \cup {wire[s] : s \in due \ Exhausted(due)}
    /\ stalled' = (stalled \/ Exhausted(due) # {})
    /\ closed' = stalled'
    /\ UNCHANGED <<wire, nextMsg, acks, lost, receiver>>

(* Sender.retransmit: the pass returns at the first entry over the limit,   *)
(* and the stall is never taken back.                                       *)
PhoneTimeout(due) ==
    LET reached == {s \in due : \A t \in Exhausted(due) : s <= t} IN
    /\ Direction = "PhoneToPc" /\ ~stalled
    /\ loss' = [s \in Window |-> IF s \in reached THEN loss[s] + 1 ELSE loss[s]]
    /\ net' = net \cup {wire[s] : s \in reached \ Exhausted(due)}
    /\ stalled' = (Exhausted(due) # {})
    /\ UNCHANGED <<wire, nextMsg, closed, acks, lost, receiver>>

Timeout ==
    \E due \in SUBSET Window :
        DueTogether(due) /\ (PcTimeout(due) \/ PhoneTimeout(due))
-----------------------------------------------------------------------------
(* The receiver.                                                           *)

(* A whole message starts at seq n of the buffer b: a fragment 0 followed   *)
(* by all the others of the same message, in order (collect_run).           *)
RunAt(b, n) ==
    /\ n \in DOMAIN b
    /\ b[n].frag = 0
    /\ \A i \in 0..(b[n].total - 1) :
          n + i \in DOMAIN b /\ b[n + i].msg = b[n].msg /\ b[n + i].frag = i

(* Mutant of LoopEnds: contiguous fragments are handed over, whole or not.  *)
LoopEndsMidMessage(b, from, to) ==
    (\A s \in from..(to - 1) : s \in DOMAIN b) /\ to \notin DOMAIN b

(* The delivery loop of on_frame takes runs from seq `from` until there is  *)
(* none, which leaves it at `to`: what lies between is whole runs.          *)
LoopEnds(b, from, to) ==
    /\ \A s \in from..(to - 1) : \E n \in from..s :
          RunAt(b, n) /\ s < n + b[n].total /\ n + b[n].total <= to
    /\ ~RunAt(b, to)

(* Mutant of AckSeq: next_seq itself is acknowledged.                       *)
AckSeqExpected(next) == next

(* The cumulative value the receiver acknowledges. *)
AckSeq(next) == next - 1

(* Mutant of Overrun: the limit itself is too many.                         *)
OverrunAtLimit(b) == Cardinality(DOMAIN b) >= MaxRecvBuffer

(* The check of the buffer behind the deliveries. *)
Overrun(b) == Cardinality(DOMAIN b) > MaxRecvBuffer

(* on_frame / onFrame with the code around it: drop duplicates, buffer,     *)
(* deliver, check the buffer.  The phone answers every frame unless its     *)
(* receiver has died; the PC notes that an answer is due.                   *)
RecvData(f, duplicate) ==
    LET held == [s \in DOMAIN buf \cup {f.seq} |->
                    IF s = f.seq THEN f ELSE buf[s]]
        \* the frame is a duplicate of what was delivered: only the ACK
        stale == UNCHANGED <<recvNext, buf, dead, delivered>>
        fresh(to) ==
            /\ recvNext' = to
            /\ delivered' = delivered \o [i \in 1..(to - recvNext) |->
                                             held[recvNext + i - 1]]
            /\ buf' = [s \in DOMAIN held \ recvNext..(to - 1) |-> held[s]]
            /\ dead' = Overrun(buf')
    IN
    /\ f \in net
    /\ net' = IF duplicate THEN net ELSE net \ {f}
    /\ \/ dead /\ UNCHANGED <<acks, receiver>>
       \/ /\ ~dead
          /\ \/ f.seq < recvNext /\ stale
             \/ f.seq >= recvNext /\
                \E to \in recvNext..(recvNext + Cardinality(DOMAIN held)) :
                    LoopEnds(held, recvNext, to) /\ fresh(to)
          /\ IF Direction = "PcToPhone"
             THEN /\ acks' = IF dead' THEN acks ELSE acks \cup {AckSeq(recvNext')}
                  /\ UNCHANGED ackPending
             ELSE ackPending' = TRUE /\ UNCHANGED acks
    /\ UNCHANGED <<sender, lost>>

(* take_ack on the PC's writer tick. *)
FlushAck ==
    /\ ackPending
    /\ ackPending' = FALSE
    /\ acks' = acks \cup {AckSeq(recvNext)}
    /\ UNCHANGED <<sender, net, lost, recvNext, buf, dead, delivered>>
-----------------------------------------------------------------------------
(* The network. *)

Lose ==
    /\ lost < MaxLosses
    /\ lost' = lost + 1
    /\ \/ \E f \in net : net' = net \ {f} /\ UNCHANGED acks
       \/ \E a \in acks : acks' = acks \ {a} /\ UNCHANGED net
    /\ UNCHANGED <<sender, receiver>>

Next ==
    \/ \E n \in Sizes : Send(n)
    \/ \E a \in acks : RecvAck(a)
    \/ Timeout
    \/ \E f \in net, duplicate \in BOOLEAN : RecvData(f, duplicate)
    \/ FlushAck
    \/ Lose

Spec == Init /\ [][Next]_vars

(* The timer threads run (25 ms writer tick, 50 ms retransmit timer) and    *)
(* every datagram that is not lost arrives in the end.                      *)
Fairness ==
    /\ WF_vars(Timeout)
    /\ WF_vars(FlushAck)
    /\ \A s \in 0..SeqBound :
          /\ WF_vars(\E f \in net : f.seq = s /\ RecvData(f, FALSE))
          /\ WF_vars(RecvAck(s))

FairSpec == Spec /\ Fairness
-----------------------------------------------------------------------------
(* Properties.                                                             *)

TypeOK ==
    /\ wire \in Seq(Frame) /\ nextMsg \in Nat \ {0}
    /\ Window \subseteq Nat \ {0} /\ \A s \in Window : loss[s] \in Nat
    /\ stalled \in BOOLEAN /\ closed \in BOOLEAN
    /\ net \subseteq Frame /\ acks \subseteq Nat /\ lost \in Nat
    /\ recvNext \in Nat \ {0} /\ DOMAIN buf \subseteq Nat \ {0}
    /\ \A s \in DOMAIN buf : buf[s] \in Frame
    /\ dead \in BOOLEAN /\ ackPending \in BOOLEAN
    /\ delivered \in Seq(Frame)

(* A fragment leaves the sender's window only after the receiver has handed *)
(* its message over: on_ack never releases what may still need a resend.    *)
NoEarlyRelease == \A s \in 1..Len(wire) : s \in Window \/ s < recvNext

(* The receiver's backlog is part of the sender's window, and at least one  *)
(* fragment is missing from it: it overruns only when the sender has let    *)
(* out a second fragment beyond MAX_RECV_BUFFER (on_frame's check of        *)
(* buf.len()).                                                              *)
OverrunNeedsBacklog ==
    dead => Cardinality(Window) > MaxRecvBuffer + 1

(* The induction behind both: how wire, network, receiver and window hang   *)
(* together.  Every run of fragments on the wire is a whole message.        *)
WireOK ==
    /\ nextMsg = Abstract!NextId
    /\ \A s \in 1..Len(wire) :
          LET w == wire[s] IN
          /\ w.seq = s /\ w.frag < w.total /\ w.frag < s
          /\ s - w.frag + w.total <= Len(wire) + 1
          /\ \A i \in 0..(w.total - 1) :
                /\ wire[s - w.frag + i].msg = w.msg
                /\ wire[s - w.frag + i].total = w.total
                /\ wire[s - w.frag + i].frag = i

(* What travels is what was sent; no ACK runs ahead of the deliveries.      *)
NetworkOK ==
    /\ \A f \in net : f.seq <= Len(wire) /\ f = wire[f.seq]
    /\ \A a \in acks : a < recvNext

(* The receiver stands between two messages, has handed over exactly the    *)
(* fragments before, and holds some of those behind, but no whole message   *)
(* that is next.                                                            *)
ReceiverOK ==
    /\ recvNext <= Len(wire) + 1
    /\ Abstract!MessageEnd(wire, recvNext - 1)
    /\ delivered = SubSeq(wire, 1, recvNext - 1)
    /\ \A s \in DOMAIN buf : s \in recvNext..Len(wire) /\ buf[s] = wire[s]
    /\ ~RunAt(buf, recvNext)
    /\ dead => Cardinality(DOMAIN buf) > MaxRecvBuffer

WindowOK == Window \subseteq 1..Len(wire) /\ NoEarlyRelease

ChannelInv == TypeOK /\ WireOK /\ NetworkOK /\ ReceiverOK /\ WindowOK

(* Every fragment accepted by send_ctrl_bytes is handed over in the end, or *)
(* the sender notices: retransmission never goes quiet on an undelivered    *)
(* message.                                                                 *)
DeliveredOrNoticed ==
    \A k \in 1..SeqBound :
        Len(wire) >= k ~> (Len(delivered) >= k \/ stalled \/ closed \/ dead)

(* While the RTO exceeds the round trip and the receiver's buffer does not  *)
(* overrun, LOSS_LIMIT losses, of data or of acknowledgements, however they  *)
(* fall, do not make the sender give up.                                     *)
ToleratesLosses == Patient /\ ~dead /\ lost <= LossLimit => ~stalled

(* ... and all is delivered and acknowledged.                               *)
AllAcknowledged ==
    \A k \in 1..SeqBound :
        Len(wire) >= k ~> (Len(delivered) >= k /\ k \notin Window)

(* The loop of on_frame as it is written, by the seq it starts at: take the  *)
(* run at next_seq if there is one and go on behind it.  `top` is beyond the *)
(* last seq that b holds.                                                    *)
LoopOver(b, top) ==
    LET stop[n \in 1..top] == IF RunAt(b, n) THEN stop[n + b[n].total] ELSE n
    IN stop

(* LoopEnds, with which RecvData says where the loop of on_frame stops,      *)
(* admits exactly the seq at which the loop as written does, wherever it     *)
(* starts and whichever of the frames in flight and held are in the buffer.  *)
LoopAgrees ==
    \A S \in SUBSET ({f.seq : f \in net} \cup DOMAIN buf) :
        LET b == [s \in S |-> wire[s]]
            stop == LoopOver(b, Len(wire) + 1)
        IN \A from \in 1..(Len(wire) + 1) : \A to \in from..(Len(wire) + 1) :
              LoopEnds(b, from, to) <=> to = stop[from]

(* The whole channel, send_ctrl_bytes to the messages on_frame returns, is   *)
(* a FIFO of whole messages: none is torn, doubled, swapped or invented.    *)
ImplementsFifo == Abstract!Spec
=============================================================================
