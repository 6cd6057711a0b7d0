--------------------------- MODULE ReliableProofs ---------------------------
(***************************************************************************)
(* Proofs about ReliableChannel: the induction on ChannelInv, the safety   *)
(* invariants that follow from it, and that the channel implements         *)
(* FifoChannel, for every choice of sizes, limits, direction and bounds.   *)
(***************************************************************************)
EXTENDS RingSeq, SequenceTheorems, FiniteSetTheorems, WellFoundedInduction,
        TLAPS

USE SizesAssumption, LimitAssumption, BoundsAssumption

(* The wire with the fragments of one more message. *)
Extended(n) == wire \o Abstract!Fragments(nextMsg, n, Len(wire))

LEMMA AppendFragments ==
    ASSUME ChannelInv, NEW n \in Sizes
    PROVE  LET w == Extended(n) IN
           /\ w \in Seq(Frame)
           /\ Len(w) = Len(wire) + n
           /\ \A s \in 1..Len(wire) : w[s] = wire[s]
           /\ \A s \in (Len(wire) + 1)..(Len(wire) + n) :
                 /\ w[s].seq = s /\ w[s].msg = nextMsg
                 /\ w[s].frag = s - Len(wire) - 1 /\ w[s].total = n
<1> DEFINE fs == Abstract!Fragments(nextMsg, n, Len(wire))
           w == Extended(n)
<1>1. n \in Nat \ {0} /\ nextMsg \in Nat \ {0} /\ wire \in Seq(Frame)
      BY DEF ChannelInv, TypeOK
<1>2. Len(wire) \in Nat
      BY <1>1, LenProperties
<1>3. fs = [i \in 1..n |-> [seq |-> Len(wire) + i, msg |-> nextMsg,
                            frag |-> i - 1, total |-> n]]
      BY DEF Abstract!Fragments
<1>4. \A i \in 1..n : fs[i] \in Frame
      BY <1>1, <1>2, <1>3 DEF Frame
<1>5. fs \in Seq(Frame) /\ Len(fs) = n
      <2>1. fs \in [1..n -> Frame]
            BY <1>3, <1>4
      <2>2. QED BY <1>1, <2>1, SeqDef
<1>6. /\ w \in Seq(Frame) /\ Len(w) = Len(wire) + n
      /\ \A i \in 1..(Len(wire) + n) :
            w[i] = IF i <= Len(wire) THEN wire[i] ELSE fs[i - Len(wire)]
      BY <1>1, <1>5, ConcatProperties DEF Extended
<1>7. \A s \in 1..Len(wire) : w[s] = wire[s]
      BY <1>1, <1>2, <1>6
<1>8. ASSUME NEW s \in (Len(wire) + 1)..(Len(wire) + n)
      PROVE  /\ w[s].seq = s /\ w[s].msg = nextMsg
             /\ w[s].frag = s - Len(wire) - 1 /\ w[s].total = n
      <2>1. s - Len(wire) \in 1..n /\ ~(s <= Len(wire))
            BY <1>1, <1>2
      <2>2. w[s] = fs[s - Len(wire)]
            BY <1>1, <1>2, <1>6, <2>1
      <2>3. QED BY <1>1, <1>2, <1>3, <2>1, <2>2
<1>9. QED BY <1>6, <1>7, <1>8
-----------------------------------------------------------------------------
LEMMA InitInv == Init => ChannelInv
<1> SUFFICES ASSUME Init PROVE ChannelInv
    OBVIOUS
<1>1. wire = <<>> /\ loss = <<>> /\ buf = <<>> /\ Len(wire) = 0
      /\ DOMAIN loss = {} /\ DOMAIN buf = {}
      BY DEF Init
<1>2. TypeOK
      <2>1. wire \in Seq(Frame) /\ delivered \in Seq(Frame)
            BY EmptySeq DEF Init
      <2>2. stalled \in BOOLEAN /\ closed \in BOOLEAN
            /\ dead \in BOOLEAN /\ ackPending \in BOOLEAN
            BY Zenon DEF Init
      <2>3. QED BY <1>1, <2>1, <2>2 DEF Init, TypeOK, Window
<1>3. WireOK
      BY <1>1 DEF Init, WireOK, Abstract!NextId
<1>4. NetworkOK
      BY <1>1 DEF Init, NetworkOK
<1>5. ReceiverOK
      <2>1. SubSeq(wire, 1, recvNext - 1) = <<>>
            BY SubSeqEmpty DEF Init
      <2>2. QED BY <1>1, <2>1 DEF Init, ReceiverOK, RunAt, Abstract!MessageEnd
<1>6. WindowOK
      BY <1>1 DEF WindowOK, NoEarlyRelease, Window
<1>7. QED BY <1>2, <1>3, <1>4, <1>5, <1>6 DEF ChannelInv

(* What is sent is the new end of the wire. *)
LEMMA SentFragments ==
    ASSUME ChannelInv, NEW n \in Sizes, Send(n)
    PROVE  LET frames == Abstract!Fragments(nextMsg, n, Len(wire)) IN
           \A i \in 1..n : frames[i] = wire'[Len(wire) + i]
                          /\ frames[i].seq = Len(wire) + i
<1> DEFINE frames == Abstract!Fragments(nextMsg, n, Len(wire))
<1>1. n \in Nat \ {0} /\ Len(wire) \in Nat
      BY LenProperties DEF ChannelInv, TypeOK
<1>2. \A i \in 1..n : frames[i].seq = Len(wire) + i
      BY <1>1 DEF Abstract!Fragments
<1>3. \A i \in 1..n : frames[i] = wire'[Len(wire) + i]
      <2>1. frames \in Seq(Frame) /\ Len(frames) = n
            <3>1. \A i \in 1..n : frames[i] \in Frame
                  BY <1>1 DEF Abstract!Fragments, Frame, ChannelInv, TypeOK
            <3>2. frames \in [1..n -> Frame]
                  BY <3>1 DEF Abstract!Fragments
            <3>3. QED BY <1>1, <3>2, SeqDef
      <2>2. wire \in Seq(Frame) /\ wire' = wire \o frames
            BY DEF ChannelInv, TypeOK, Send
      <2>3. \A i \in 1..(Len(wire) + n) :
               wire'[i] = IF i <= Len(wire) THEN wire[i]
                                            ELSE frames[i - Len(wire)]
            BY <2>1, <2>2, ConcatProperties
      <2>4. ASSUME NEW i \in 1..n PROVE frames[i] = wire'[Len(wire) + i]
            <3>1. Len(wire) + i \in 1..(Len(wire) + n)
                  /\ ~(Len(wire) + i <= Len(wire)) /\ (Len(wire) + i) - Len(wire) = i
                  BY <1>1
            <3>2. QED BY <2>3, <3>1
      <2>5. QED BY <2>4
<1>4. QED BY <1>2, <1>3

LEMMA SendInv ==
    ASSUME ChannelInv, NEW n \in Sizes, Send(n)
    PROVE  ChannelInv'
<1> DEFINE frames == Abstract!Fragments(nextMsg, n, Len(wire))
<1>1. n \in Nat \ {0} /\ Len(wire) \in Nat /\ recvNext \in Nat \ {0}
      BY LenProperties DEF ChannelInv, TypeOK
<1>2. /\ wire' \in Seq(Frame)
      /\ Len(wire') = Len(wire) + n
      /\ \A s \in 1..Len(wire) : wire'[s] = wire[s]
      /\ \A s \in (Len(wire) + 1)..(Len(wire) + n) :
            /\ wire'[s].seq = s /\ wire'[s].msg = nextMsg
            /\ wire'[s].frag = s - Len(wire) - 1 /\ wire'[s].total = n
      <2>1. wire' = Extended(n)
            BY DEF Send, Extended
      <2>2. QED BY <2>1, AppendFragments
<1>3. \A i \in 1..n : frames[i] = wire'[Len(wire) + i]
                      /\ frames[i].seq = Len(wire) + i
      BY SentFragments
<1>4. Window' = Window \cup (Len(wire) + 1)..(Len(wire) + n)
      BY DEF Send, Window
<1>5. TypeOK'
      <2>1. \A s \in Window' : loss'[s] \in Nat
            BY <1>1, <1>4 DEF Send, Window, ChannelInv, TypeOK
      <2>2. net' \subseteq Frame
            <3>1. \A i \in 1..n : frames[i] \in Frame
                  BY <1>1 DEF Abstract!Fragments, Frame, ChannelInv, TypeOK
            <3>2. QED BY <3>1 DEF Send, ChannelInv, TypeOK
      <2>3. Window' \subseteq Nat \ {0}
            <3>1. Window \subseteq Nat \ {0}
                  BY DEF ChannelInv, TypeOK
            <3>2. \A s \in (Len(wire) + 1)..(Len(wire) + n) : s \in Nat \ {0}
                  BY <1>1
            <3>3. QED BY <1>4, <3>1, <3>2
      <2>4. /\ nextMsg' \in Nat \ {0} /\ acks' \subseteq Nat /\ lost' \in Nat
            BY DEF Send, ChannelInv, TypeOK
      <2>5. stalled' \in BOOLEAN /\ closed' \in BOOLEAN
            BY Zenon DEF Send, ChannelInv, TypeOK
      <2>6. /\ recvNext' \in Nat \ {0} /\ DOMAIN buf' \subseteq Nat \ {0}
            /\ \A s \in DOMAIN buf' : buf'[s] \in Frame
            /\ dead' \in BOOLEAN /\ ackPending' \in BOOLEAN
            /\ delivered' \in Seq(Frame)
            BY DEF Send, ChannelInv, TypeOK, receiver
      <2>7. QED BY <1>2, <2>1, <2>2, <2>3, <2>4, <2>5, <2>6 DEF TypeOK
<1>6. WireOK'
      <2>1. nextMsg' = Abstract!NextId'
            <3>1. wire' # <<>> /\ wire'[Len(wire')].msg = nextMsg
                  BY <1>1, <1>2
            <3>2. QED BY <3>1 DEF Abstract!NextId, Send
      <2>2. ASSUME NEW s \in 1..Len(wire')
            PROVE  LET w == wire'[s] IN
                   /\ w.seq = s /\ w.frag < w.total /\ w.frag < s
                   /\ s - w.frag + w.total <= Len(wire') + 1
                   /\ \A i \in 0..(w.total - 1) :
                         /\ wire'[s - w.frag + i].msg = w.msg
                         /\ wire'[s - w.frag + i].total = w.total
                         /\ wire'[s - w.frag + i].frag = i
            <3>1. CASE s \in 1..Len(wire)
                  <4>1. /\ wire[s] \in Frame
                        /\ wire'[s] = wire[s]
                        BY <1>1, <1>2, <3>1, ElementOfSeq DEF ChannelInv, TypeOK
                  <4>2. /\ wire[s].frag \in Nat /\ wire[s].total \in Nat
                        /\ wire[s].seq = s /\ wire[s].frag < wire[s].total
                        /\ wire[s].frag < s
                        /\ s - wire[s].frag + wire[s].total <= Len(wire) + 1
                        /\ \A i \in 0..(wire[s].total - 1) :
                              /\ wire[s - wire[s].frag + i].msg = wire[s].msg
                              /\ wire[s - wire[s].frag + i].total = wire[s].total
                              /\ wire[s - wire[s].frag + i].frag = i
                        BY <3>1, <4>1 DEF ChannelInv, WireOK, Frame
                  <4>3. \A i \in 0..(wire[s].total - 1) :
                           s - wire[s].frag + i \in 1..Len(wire)
                        BY <1>1, <3>1, <4>2
                  <4>4. \A i \in 0..(wire[s].total - 1) :
                           wire'[s - wire[s].frag + i] = wire[s - wire[s].frag + i]
                        BY <1>2, <4>3
                  <4>5. s - wire[s].frag + wire[s].total <= Len(wire') + 1
                        BY <1>1, <1>2, <3>1, <4>2
                  <4>6. \A i \in 0..(wire[s].total - 1) :
                           /\ wire'[s - wire[s].frag + i].msg = wire[s].msg
                           /\ wire'[s - wire[s].frag + i].total = wire[s].total
                           /\ wire'[s - wire[s].frag + i].frag = i
                        BY <4>2, <4>4
                  <4>7. QED BY <4>1, <4>2, <4>5, <4>6
            <3>2. CASE s \in (Len(wire) + 1)..(Len(wire) + n)
                  <4>1. /\ wire'[s].seq = s /\ wire'[s].msg = nextMsg
                        /\ wire'[s].frag = s - Len(wire) - 1
                        /\ wire'[s].total = n
                        BY <1>2, <3>2
                  <4>2. \A i \in 0..(n - 1) :
                           /\ s - (s - Len(wire) - 1) + i = Len(wire) + 1 + i
                           /\ Len(wire) + 1 + i \in (Len(wire) + 1)..(Len(wire) + n)
                        BY <1>1, <3>2
                  <4>3. \A i \in 0..(n - 1) :
                           /\ wire'[Len(wire) + 1 + i].msg = nextMsg
                           /\ wire'[Len(wire) + 1 + i].total = n
                           /\ wire'[Len(wire) + 1 + i].frag = i
                        BY <1>1, <1>2, <4>2
                  <4>4. QED BY <1>1, <1>2, <3>2, <4>1, <4>2, <4>3
            <3>3. QED BY <1>1, <1>2, <3>1, <3>2
      <2>3. QED BY <2>1, <2>2 DEF WireOK
<1>7. NetworkOK'
      <2>1. ASSUME NEW f \in net'
            PROVE  f.seq <= Len(wire') /\ f = wire'[f.seq]
            <3>1. CASE f \in net
                  <4>1. f.seq \in 1..Len(wire) /\ f = wire[f.seq]
                        BY <1>1, <3>1 DEF ChannelInv, TypeOK, NetworkOK, Frame
                  <4>2. QED BY <1>1, <1>2, <4>1
            <3>2. CASE f \in {frames[i] : i \in 1..n}
                  BY <1>1, <1>2, <1>3, <3>2
            <3>3. QED BY <3>1, <3>2 DEF Send
      <2>2. QED BY <2>1 DEF Send, ChannelInv, NetworkOK, receiver
<1>8. ReceiverOK'
      <2>1. recvNext - 1 \in 0..Len(wire) /\ recvNext' = recvNext
            BY <1>1 DEF ChannelInv, ReceiverOK, Send, receiver
      <2>2. recvNext - 1 # 0 => wire'[recvNext - 1] = wire[recvNext - 1]
            BY <1>1, <1>2, <2>1
      <2>3. Abstract!MessageEnd(wire', recvNext - 1)
            BY <2>1, <2>2 DEF ChannelInv, ReceiverOK, Abstract!MessageEnd
      <2>4. SubSeq(wire', 1, recvNext - 1) = SubSeq(wire, 1, recvNext - 1)
            <3>1. \A i \in 1..(recvNext - 1) : wire'[i] \in Frame /\ wire[i] \in Frame
                     /\ wire'[i] = wire[i]
                  BY <1>1, <1>2, <2>1, ElementOfSeq DEF ChannelInv, TypeOK
            <3>2. QED BY <1>1, <2>1, <3>1, SubSeqProperties, SeqEqual
      <2>5. \A s \in DOMAIN buf : s \in recvNext..Len(wire') /\ buf[s] = wire'[s]
            BY <1>1, <1>2 DEF ChannelInv, ReceiverOK
      <2>6. QED BY <1>1, <1>2, <2>1, <2>3, <2>4, <2>5
                DEF ChannelInv, ReceiverOK, Send, receiver
<1>9. WindowOK'
      <2>1. /\ Window \subseteq 1..Len(wire) /\ recvNext' = recvNext
            /\ \A s \in 1..Len(wire) : s \in Window \/ s < recvNext
            BY DEF ChannelInv, WindowOK, NoEarlyRelease, Send, receiver
      <2>2. 1..Len(wire') = 1..Len(wire) \cup (Len(wire) + 1)..(Len(wire) + n)
            BY <1>1, <1>2
      <2>3. QED BY <1>4, <2>1, <2>2 DEF WindowOK, NoEarlyRelease
<1>10. QED BY <1>5, <1>6, <1>7, <1>8, <1>9 DEF ChannelInv

(* Steps that leave wire and receiver alone keep the receiver's part. *)
LEMMA SenderOnly ==
    ASSUME ChannelInv, UNCHANGED <<wire, nextMsg, receiver>>
    PROVE  WireOK' /\ ReceiverOK'
BY DEF ChannelInv, WireOK, ReceiverOK, Abstract!NextId, Abstract!MessageEnd,
       receiver

LEMMA RecvAckInv ==
    ASSUME ChannelInv, NEW a \in acks, RecvAck(a)
    PROVE  ChannelInv'
<1> USE DEF RecvAck, Kept
<1>1. WireOK' /\ ReceiverOK'
      BY SenderOnly
<1>2. /\ a \in Nat /\ a < recvNext /\ recvNext \in Nat
      /\ Window \subseteq Nat /\ Len(wire) \in Nat
      BY LenProperties DEF ChannelInv, TypeOK, NetworkOK
<1>3. Window' = {s \in Window : s > a}
      BY DEF Window
<1>4. TypeOK'
      <2>1. \A s \in Window' : loss'[s] \in Nat
            BY <1>3 DEF Window, ChannelInv, TypeOK
      <2>2. stalled' \in BOOLEAN /\ closed' \in BOOLEAN
            BY Zenon DEF ChannelInv, TypeOK
      <2>3. acks' \subseteq Nat /\ Window' \subseteq Nat \ {0}
            BY <1>3 DEF ChannelInv, TypeOK
      <2>4. QED BY <2>1, <2>2, <2>3 DEF ChannelInv, TypeOK, receiver
<1>5. NetworkOK'
      BY DEF ChannelInv, NetworkOK, receiver
<1>6. WindowOK'
      <2>1. \A s \in 1..Len(wire) : s \in Window' \/ s < recvNext
            BY <1>2, <1>3 DEF ChannelInv, WindowOK, NoEarlyRelease
      <2>2. QED BY <1>3, <2>1
                DEF ChannelInv, WindowOK, NoEarlyRelease, receiver
<1>7. QED BY <1>1, <1>4, <1>5, <1>6 DEF ChannelInv

LEMMA TimeoutInv ==
    ASSUME ChannelInv, Timeout
    PROVE  ChannelInv'
<1>1. PICK due \in SUBSET Window : PcTimeout(due) \/ PhoneTimeout(due)
      BY DEF Timeout
<1>2. /\ UNCHANGED <<wire, nextMsg, acks, lost, receiver>>
      /\ Window' = Window
      BY <1>1 DEF PcTimeout, PhoneTimeout, Window
<1>3. \A s \in Window : loss'[s] \in {loss[s], loss[s] + 1}
      BY <1>1 DEF PcTimeout, PhoneTimeout, Window
<1>4. PICK resent \in SUBSET Window : net' = net \cup {wire[s] : s \in resent}
      <2>1. CASE PcTimeout(due)
            BY <2>1, due \ Exhausted(due) \in SUBSET Window DEF PcTimeout
      <2>2. CASE PhoneTimeout(due)
            <3> DEFINE reached == {s \in due : \A t \in Exhausted(due) : s <= t}
            <3>1. reached \ Exhausted(due) \in SUBSET Window
                  OBVIOUS
            <3>2. net' = net \cup {wire[s] : s \in reached \ Exhausted(due)}
                  BY <2>2 DEF PhoneTimeout
            <3>3. QED BY <3>1, <3>2
      <2>3. QED BY <1>1, <2>1, <2>2
<1>5. \A s \in resent : /\ wire[s] \in Frame /\ wire[s].seq = s
                        /\ s \in 1..Len(wire)
      BY ElementOfSeq DEF ChannelInv, TypeOK, WindowOK, WireOK
<1>6. stalled' \in BOOLEAN /\ closed' \in BOOLEAN
      BY <1>1, Zenon DEF PcTimeout, PhoneTimeout, ChannelInv, TypeOK
<1>7. TypeOK'
      <2>1. \A s \in Window' : loss'[s] \in Nat
            BY <1>2, <1>3 DEF ChannelInv, TypeOK
      <2>2. net' \subseteq Frame
            BY <1>4, <1>5 DEF ChannelInv, TypeOK
      <2>3. QED BY <1>2, <1>6, <2>1, <2>2 DEF ChannelInv, TypeOK, receiver
<1>8. WireOK' /\ ReceiverOK'
      BY <1>2, SenderOnly
<1>9. NetworkOK'
      <2>1. \A f \in net' : f.seq <= Len(wire) /\ f = wire[f.seq]
            BY <1>4, <1>5 DEF ChannelInv, NetworkOK
      <2>2. QED BY <1>2, <2>1 DEF ChannelInv, NetworkOK, receiver
<1>10. WindowOK'
       BY <1>2 DEF ChannelInv, WindowOK, NoEarlyRelease, receiver
<1>11. QED BY <1>7, <1>8, <1>9, <1>10 DEF ChannelInv

LEMMA FlushAckInv ==
    ASSUME ChannelInv, FlushAck
    PROVE  ChannelInv'
<1> USE DEF FlushAck, sender
<1>1. recvNext \in Nat \ {0} /\ AckSeq(recvNext) \in Nat
      /\ AckSeq(recvNext) < recvNext
      BY DEF ChannelInv, TypeOK, AckSeq
<1>2. TypeOK'
      <2>1. ackPending' \in BOOLEAN
            BY Zenon
      <2>2. acks' \subseteq Nat
            BY <1>1 DEF ChannelInv, TypeOK
      <2>3. QED BY <2>1, <2>2 DEF ChannelInv, TypeOK, Window
<1>3. NetworkOK'
      BY <1>1 DEF ChannelInv, NetworkOK
<1>4. WireOK' /\ ReceiverOK' /\ WindowOK'
      BY DEF ChannelInv, WireOK, ReceiverOK, WindowOK, NoEarlyRelease, Window,
             Abstract!NextId, Abstract!MessageEnd
<1>5. QED BY <1>2, <1>3, <1>4 DEF ChannelInv

LEMMA LoseInv ==
    ASSUME ChannelInv, Lose
    PROVE  ChannelInv'
<1> USE DEF Lose, sender, receiver
<1>1. net' \subseteq net /\ acks' \subseteq acks /\ lost' = lost + 1
      OBVIOUS
<1>2. TypeOK'
      BY <1>1 DEF ChannelInv, TypeOK, Window
<1>3. NetworkOK'
      BY <1>1 DEF ChannelInv, NetworkOK
<1>4. WireOK' /\ ReceiverOK' /\ WindowOK'
      BY DEF ChannelInv, WireOK, ReceiverOK, WindowOK, NoEarlyRelease, Window,
             Abstract!NextId, Abstract!MessageEnd
<1>5. QED BY <1>2, <1>3, <1>4 DEF ChannelInv

(* Where the delivery loop stops: behind a whole message, with everything   *)
(* up to there in the buffer.                                               *)
LEMMA LoopStops ==
    ASSUME ChannelInv, NEW b, NEW to \in Int, to >= recvNext,
           \A s \in DOMAIN b : s \in recvNext..Len(wire) /\ b[s] = wire[s],
           LoopEnds(b, recvNext, to)
    PROVE  /\ \A s \in recvNext..(to - 1) : s \in DOMAIN b
           /\ to <= Len(wire) + 1
           /\ Abstract!MessageEnd(wire, to - 1)
<1>1. recvNext \in Nat \ {0} /\ Len(wire) \in Nat /\ recvNext <= Len(wire) + 1
      BY LenProperties DEF ChannelInv, TypeOK, ReceiverOK
<1>2. ASSUME NEW s \in recvNext..(to - 1)
      PROVE  \E n \in recvNext..s :
                /\ wire[n].total \in Nat /\ n \in 1..Len(wire)
                /\ s < n + wire[n].total /\ n + wire[n].total <= to
                /\ wire[n].frag = 0
                /\ \A i \in 0..(wire[n].total - 1) : n + i \in DOMAIN b
      <2>1. PICK n \in recvNext..s : /\ RunAt(b, n) /\ s < n + b[n].total
                                    /\ n + b[n].total <= to
            BY DEF LoopEnds
      <2>2. n \in DOMAIN b /\ b[n] = wire[n] /\ n \in 1..Len(wire)
            BY <1>1, <2>1 DEF RunAt
      <2>3. wire[n] \in Frame
            BY <2>2, ElementOfSeq DEF ChannelInv, TypeOK
      <2>4. wire[n].total \in Nat
            BY <2>3 DEF Frame
      <2>5. wire[n].frag = 0 /\ \A i \in 0..(wire[n].total - 1) : n + i \in DOMAIN b
            BY <2>1, <2>2 DEF RunAt
      <2>6. QED BY <2>1, <2>2, <2>4, <2>5
<1>3. ASSUME NEW s \in recvNext..(to - 1) PROVE s \in DOMAIN b
      <2>1. PICK n \in recvNext..s :
                /\ wire[n].total \in Nat /\ s < n + wire[n].total
                /\ \A i \in 0..(wire[n].total - 1) : n + i \in DOMAIN b
            BY <1>2
      <2>2. s - n \in 0..(wire[n].total - 1) /\ n + (s - n) = s
            BY <1>1, <2>1
      <2>3. QED BY <2>1, <2>2
<1>4. CASE to = recvNext
      BY <1>1, <1>3, <1>4 DEF ChannelInv, ReceiverOK
<1>5. CASE to > recvNext
      <2>1. to - 1 \in recvNext..(to - 1)
            BY <1>1, <1>5
      <2>2. PICK n \in recvNext..(to - 1) :
                /\ wire[n].total \in Nat /\ n \in 1..Len(wire)
                /\ to - 1 < n + wire[n].total /\ n + wire[n].total <= to
                /\ wire[n].frag = 0
            BY <1>2, <2>1
      <2>3. n + wire[n].total = to /\ wire[n].total - 1 \in 0..(wire[n].total - 1)
            BY <1>1, <2>2
      <2>4. /\ n - wire[n].frag + wire[n].total <= Len(wire) + 1
            /\ \A i \in 0..(wire[n].total - 1) :
                  /\ wire[n - wire[n].frag + i].total = wire[n].total
                  /\ wire[n - wire[n].frag + i].frag = i
            BY <2>2 DEF ChannelInv, WireOK
      <2>5. n - wire[n].frag + (wire[n].total - 1) = to - 1
            BY <2>2, <2>3
      <2>6. /\ wire[to - 1].total = wire[n].total
            /\ wire[to - 1].frag = wire[n].total - 1
            BY <2>3, <2>4, <2>5
      <2>7. wire[to - 1].frag + 1 = wire[to - 1].total
            BY <2>2, <2>6
      <2>8. to <= Len(wire) + 1
            BY <2>2, <2>3, <2>4
      <2>9. QED BY <1>3, <2>7, <2>8 DEF Abstract!MessageEnd
<1>6. QED BY <1>1, <1>4, <1>5

(* A set of integers within bounds has a greatest element.                  *)
LEMMA GreatestInBounds ==
    ASSUME NEW lo \in Int, NEW hi \in Int, NEW T \in SUBSET (lo..hi), T # {}
    PROVE  \E m \in T : \A t \in T : t <= m
<1> DEFINE above(t) == {i \in lo..hi : i > t}
           U == {above(t) : t \in T}
           R == StrictSubsetOrdering(lo..hi)
<1>1. IsWellFoundedOn(R, SUBSET (lo..hi))
      BY FS_Interval, FS_StrictSubsetOrderingWellFounded, FS_FiniteSubsetsOfFinite
<1>2. U \subseteq SUBSET (lo..hi) /\ U # {}
      OBVIOUS
<1>3. PICK x \in U : \A y \in U : ~ (<<y, x>> \in R)
      <2> HIDE DEF U, R
      <2>1. QED BY <1>1, <1>2, WFMin
<1>4. PICK m \in T : x = above(m)
      OBVIOUS
<1>5. ASSUME NEW t \in T, t > m PROVE FALSE
      <2>1. above(t) \in U
            OBVIOUS
      <2>2. m \in lo..hi /\ t \in lo..hi
            OBVIOUS
      <2>3. above(t) \subseteq above(m) /\ t \in above(m) /\ t \notin above(t)
            BY <1>5, <2>2
      <2>4. <<above(t), above(m)>> \in R
            BY <2>3 DEF StrictSubsetOrdering
      <2>5. QED BY <1>3, <1>4, <2>1, <2>4
<1>6. QED BY <1>5

(* The delivery loop stops, and at one seq only: LoopEnds leaves RecvData no *)
(* choice, as the loop of on_frame has none, and it is never unmet.  It goes *)
(* no further than the buffer has fragments, the bound RecvData gives `to`.  *)
Covered(b, from, to) ==
    \A s \in from..(to - 1) : \E n \in from..s :
        RunAt(b, n) /\ s < n + b[n].total /\ n + b[n].total <= to

LEMMA LoopEndsOnce ==
    ASSUME NEW b, \A s \in DOMAIN b : b[s].total \in Nat \ {0} /\ b[s].frag \in Nat,
           NEW from \in Nat, NEW x \in Nat, NEW y \in Nat, from <= x, x < y,
           LoopEnds(b, from, x), LoopEnds(b, from, y)
    PROVE  FALSE
<1>1. x \in from..(y - 1)
      OBVIOUS
<1>2. PICK n \in from..x : /\ RunAt(b, n) /\ x < n + b[n].total
                            /\ n + b[n].total <= y
      BY <1>1 DEF LoopEnds
<1>3. b[n].total \in Nat \ {0} /\ n # x
      BY <1>2 DEF LoopEnds, RunAt
<1>4. n \in from..(x - 1)
      BY <1>2, <1>3
<1>5. PICK k \in from..n : /\ RunAt(b, k) /\ n < k + b[k].total
                            /\ k + b[k].total <= x
      BY <1>4 DEF LoopEnds
<1>6. b[k].total \in Nat \ {0} /\ b[n].frag = 0
      BY <1>2, <1>5 DEF RunAt
<1>7. n - k \in 0..(b[k].total - 1) /\ k + (n - k) = n
      BY <1>5, <1>6
<1>8. b[n].frag = n - k
      BY <1>5, <1>7 DEF RunAt
<1>9. n = k
      BY <1>6, <1>8
<1>10. QED BY <1>2, <1>3, <1>5, <1>9

LEMMA LoopReaches ==
    ASSUME NEW b, \A s \in DOMAIN b : b[s].total \in Nat \ {0},
           DOMAIN b \subseteq Nat, IsFiniteSet(DOMAIN b), NEW from \in Nat
    PROVE  \E to \in from..(from + Cardinality(DOMAIN b)) : LoopEnds(b, from, to)
<1> DEFINE hi == from + Cardinality(DOMAIN b)
           T == {t \in from..hi : Covered(b, from, t)}
<1>1. Cardinality(DOMAIN b) \in Nat
      BY FS_CardinalityType
<1>2. ASSUME NEW t \in Nat, t >= from, Covered(b, from, t)
      PROVE  t <= hi
      <2>1. ASSUME NEW s \in from..(t - 1) PROVE s \in DOMAIN b
            <3>1. PICK n \in from..s : RunAt(b, n) /\ s < n + b[n].total
                  BY <1>2 DEF Covered
            <3>2. b[n].total \in Nat
                  BY <3>1 DEF RunAt
            <3>3. s - n \in 0..(b[n].total - 1) /\ n + (s - n) = s
                  BY <3>1, <3>2
            <3>4. QED BY <3>1, <3>3 DEF RunAt
      <2>2. from..(t - 1) \in SUBSET DOMAIN b
            BY <2>1
      <2>3. Cardinality(from..(t - 1)) <= Cardinality(DOMAIN b)
            BY <2>2, FS_Subset
      <2>4. Cardinality(from..(t - 1)) = IF from > t - 1 THEN 0 ELSE t - 1 - from + 1
            BY <1>2, FS_Interval
      <2>5. QED BY <1>1, <1>2, <2>3, <2>4
<1>3. from \in T
      BY <1>1 DEF Covered
<1>4. PICK to \in T : \A t \in T : t <= to
      <2>1. from \in Int /\ hi \in Int /\ T \in SUBSET (from..hi) /\ T # {}
            BY <1>1, <1>3
      <2> HIDE DEF hi, T
      <2>2. QED BY <2>1, GreatestInBounds
<1>5. to \in from..hi /\ Covered(b, from, to) /\ to \in Nat
      BY <1>1
<1>6. ASSUME RunAt(b, to) PROVE FALSE
      <2>1. b[to].total \in Nat \ {0}
            BY <1>6 DEF RunAt
      <2> DEFINE next == to + b[to].total
      <2>2. next \in Nat /\ next > to /\ next >= from
            BY <1>5, <2>1
      <2>3. ASSUME NEW s \in from..(next - 1)
            PROVE  \E n \in from..s :
                      RunAt(b, n) /\ s < n + b[n].total /\ n + b[n].total <= next
            <3>1. CASE s >= to
                  <4>1. to \in from..s /\ s < to + b[to].total
                        BY <1>5, <2>1, <2>2, <3>1
                  <4>2. QED BY <1>6, <2>2, <4>1
            <3>2. CASE s < to
                  <4>1. s \in from..(to - 1)
                        BY <1>5, <3>2
                  <4>2. PICK n \in from..s : /\ RunAt(b, n) /\ s < n + b[n].total
                                            /\ n + b[n].total <= to
                        BY <1>5, <4>1 DEF Covered
                  <4>3. b[n].total \in Nat
                        BY <4>2 DEF RunAt
                  <4>4. n + b[n].total <= next
                        BY <1>5, <2>2, <4>2, <4>3
                  <4>5. QED BY <4>2, <4>4
            <3>3. QED BY <1>5, <3>1, <3>2
      <2>4. Covered(b, from, next)
            BY <2>3 DEF Covered
      <2>5. next \in T
            BY <1>1, <1>2, <2>2, <2>4
      <2>6. QED BY <1>4, <1>5, <2>2, <2>5
<1>7. QED BY <1>5, <1>6 DEF LoopEnds, Covered

THEOREM LoopStopsOnce ==
    ASSUME ChannelInv, NEW f \in net, f.seq >= recvNext,
           NEW held,
           held = [s \in DOMAIN buf \cup {f.seq} |-> IF s = f.seq THEN f ELSE buf[s]]
    PROVE  \E to \in recvNext..(recvNext + Cardinality(DOMAIN held)) :
              /\ LoopEnds(held, recvNext, to)
              /\ \A x \in Nat : x >= recvNext /\ LoopEnds(held, recvNext, x) => x = to
<1>1. /\ recvNext \in Nat /\ f \in Frame /\ Len(wire) \in Nat
      /\ \A s \in DOMAIN buf : buf[s] \in Frame /\ s \in recvNext..Len(wire)
      BY LenProperties DEF ChannelInv, TypeOK, ReceiverOK
<1>2. /\ DOMAIN held = DOMAIN buf \cup {f.seq} /\ DOMAIN held \subseteq Nat
      /\ \A s \in DOMAIN held : held[s] \in Frame
      BY <1>1 DEF Frame
<1>3. IsFiniteSet(DOMAIN held)
      <2>1. DOMAIN buf \in SUBSET (recvNext..Len(wire))
            BY <1>1
      <2>2. IsFiniteSet(recvNext..Len(wire))
            BY <1>1, FS_Interval
      <2>3. IsFiniteSet(DOMAIN buf)
            BY <2>1, <2>2, FS_Subset
      <2>4. QED BY <1>2, <2>3, FS_AddElement
<1>4. Cardinality(DOMAIN held) \in Nat
      BY <1>3, FS_CardinalityType
<1>5. \A s \in DOMAIN held : held[s].total \in Nat \ {0} /\ held[s].frag \in Nat
      BY <1>2 DEF Frame
<1> HIDE DEF Frame
<1>6. PICK to \in recvNext..(recvNext + Cardinality(DOMAIN held)) :
               LoopEnds(held, recvNext, to)
      BY <1>1, <1>2, <1>3, <1>5, LoopReaches
<1>7. ASSUME NEW x \in Nat, x >= recvNext, LoopEnds(held, recvNext, x) PROVE x = to
      <2>1. to \in Nat /\ to >= recvNext
            BY <1>1, <1>4
      <2>2. ~(x < to) /\ ~(to < x)
            BY <1>1, <1>5, <1>6, <1>7, <2>1, LoopEndsOnce
      <2>3. QED BY <2>1, <2>2
<1>8. QED BY <1>6, <1>7

(* Where the loop that starts at seq n ends, in terms of LoopEnds. *)
LoopEnd(b, n) == CHOOSE to \in Nat : to >= n /\ LoopEnds(b, n, to)

LEMMA LoopEndUnique ==
    ASSUME NEW b, \A s \in DOMAIN b : b[s].total \in Nat \ {0} /\ b[s].frag \in Nat,
           DOMAIN b \subseteq Nat, IsFiniteSet(DOMAIN b), NEW n \in Nat
    PROVE  /\ LoopEnd(b, n) \in Nat /\ LoopEnd(b, n) >= n
           /\ LoopEnds(b, n, LoopEnd(b, n))
           /\ \A x \in Nat : x >= n /\ LoopEnds(b, n, x) => x = LoopEnd(b, n)
<1>1. Cardinality(DOMAIN b) \in Nat
      BY FS_CardinalityType
<1>2. \E to \in n..(n + Cardinality(DOMAIN b)) : LoopEnds(b, n, to)
      BY LoopReaches
<1>3. \E to \in Nat : to >= n /\ LoopEnds(b, n, to)
      BY <1>1, <1>2
<1>4. /\ LoopEnd(b, n) \in Nat /\ LoopEnd(b, n) >= n
      /\ LoopEnds(b, n, LoopEnd(b, n))
      BY <1>3, Zenon DEF LoopEnd
<1>5. ASSUME NEW x \in Nat, x >= n, LoopEnds(b, n, x) PROVE x = LoopEnd(b, n)
      <2>1. ~(x < LoopEnd(b, n)) /\ ~(LoopEnd(b, n) < x)
            BY <1>4, <1>5, LoopEndsOnce
      <2>2. QED BY <1>4, <2>1
<1>6. QED BY <1>4, <1>5

(* The end obeys the equation of the loop as written. *)
LEMMA LoopEndStep ==
    ASSUME NEW b, \A s \in DOMAIN b : b[s].total \in Nat \ {0} /\ b[s].frag \in Nat,
           DOMAIN b \subseteq Nat, IsFiniteSet(DOMAIN b), NEW n \in Nat
    PROVE  LoopEnd(b, n) = IF RunAt(b, n) THEN LoopEnd(b, n + b[n].total) ELSE n
<1>1. CASE ~RunAt(b, n)
      <2>1. LoopEnds(b, n, n)
            BY <1>1 DEF LoopEnds
      <2>2. QED BY <1>1, <2>1, LoopEndUnique
<1>2. CASE RunAt(b, n)
      <2> DEFINE m == n + b[n].total
                 to == LoopEnd(b, m)
      <2>1. b[n].total \in Nat \ {0} /\ m \in Nat /\ m > n
            BY <1>2 DEF RunAt
      <2>2. to \in Nat /\ to >= m /\ LoopEnds(b, m, to)
            BY <2>1, LoopEndUnique
      <2>3. ASSUME NEW s \in n..(to - 1)
            PROVE  \E k \in n..s : /\ RunAt(b, k) /\ s < k + b[k].total
                                    /\ k + b[k].total <= to
            <3>1. CASE s < m
                  BY <1>2, <2>1, <2>2, <3>1
            <3>2. CASE s >= m
                  <4>1. s \in m..(to - 1)
                        BY <2>1, <2>2, <3>2
                  <4>2. PICK k \in m..s : /\ RunAt(b, k) /\ s < k + b[k].total
                                          /\ k + b[k].total <= to
                        BY <2>2, <4>1 DEF LoopEnds
                  <4>3. k \in n..s
                        BY <2>1
                  <4>4. QED BY <4>2, <4>3
            <3>3. QED BY <2>1, <3>1, <3>2
      <2>4. LoopEnds(b, n, to)
            BY <2>2, <2>3 DEF LoopEnds
      <2>5. to = LoopEnd(b, n)
            BY <2>1, <2>2, <2>4, LoopEndUnique
      <2>6. QED BY <1>2, <2>5
<1>3. QED BY <1>1, <1>2

(* So the loop as written, a recursive function, is defined and is that end. *)
(* An induction downwards from `top`, by the greatest seq where it fails.    *)
LEMMA LoopOverIsLoopEnd ==
    ASSUME NEW b, NEW top \in Nat,
           \A s \in DOMAIN b : /\ s \in 1..(top - 1)
                               /\ b[s].total \in Nat \ {0} /\ b[s].frag \in Nat,
           NEW from \in 1..top
    PROVE  LoopOver(b, top)[from] = LoopEnd(b, from)
<1> DEFINE Loop(f) == [n \in 1..top |-> IF RunAt(b, n) THEN f[n + b[n].total] ELSE n]
           g == [n \in 1..top |-> LoopEnd(b, n)]
           stop == LoopOver(b, top)
<1>1. DOMAIN b \subseteq Nat /\ IsFiniteSet(DOMAIN b)
      <2>1. DOMAIN b \in SUBSET (1..(top - 1)) /\ IsFiniteSet(1..(top - 1))
            BY FS_Interval
      <2>2. QED BY <2>1, FS_Subset
<1>2. \A n \in 1..top :
         LoopEnd(b, n) = IF RunAt(b, n) THEN LoopEnd(b, n + b[n].total) ELSE n
      BY <1>1, LoopEndStep
<1>3. ASSUME NEW n \in 1..top, RunAt(b, n)
      PROVE  n + b[n].total \in 1..top /\ n + b[n].total > n
      <2>1. b[n].total \in Nat \ {0}
            BY <1>3 DEF RunAt
      <2>2. b[n].total - 1 \in 0..(b[n].total - 1)
            BY <2>1
      <2>3. n + (b[n].total - 1) \in DOMAIN b
            BY <1>3, <2>2 DEF RunAt
      <2>4. QED BY <2>1, <2>3
<1>4. g = Loop(g)
      <2>1. \A n \in 1..top : g[n] = Loop(g)[n]
            BY <1>2, <1>3
      <2>2. QED BY <2>1
<1>5. stop = Loop(stop)
      <2>1. stop = CHOOSE f : f = Loop(f)
            BY DEF LoopOver
      <2> HIDE DEF Loop, stop, g
      <2>2. QED BY <1>4, <2>1, Zenon
<1> HIDE DEF stop
<1>6. \A n \in 1..top : stop[n] = IF RunAt(b, n) THEN stop[n + b[n].total] ELSE n
      BY <1>5
<1> DEFINE Wrong == {n \in 1..top : stop[n] # LoopEnd(b, n)}
<1>7. ASSUME Wrong # {} PROVE FALSE
      <2>1. PICK m \in Wrong : \A n \in Wrong : n <= m
            <3>1. Wrong \in SUBSET (1..top) /\ 1 \in Int /\ top \in Int
                  OBVIOUS
            <3> HIDE DEF Wrong
            <3>2. QED BY <1>7, <3>1, GreatestInBounds
      <2>2. m \in 1..top /\ stop[m] # LoopEnd(b, m)
            OBVIOUS
      <2>3. CASE ~RunAt(b, m)
            BY <1>2, <1>6, <2>2, <2>3
      <2>4. CASE RunAt(b, m)
            <3>1. m + b[m].total \in 1..top /\ m + b[m].total > m
                  BY <1>3, <2>2, <2>4
            <3>2. m + b[m].total \notin Wrong
                  BY <2>1, <2>2, <3>1
            <3>3. stop[m + b[m].total] = LoopEnd(b, m + b[m].total)
                  BY <3>1, <3>2
            <3>4. QED BY <1>2, <1>6, <2>2, <2>4, <3>3
      <2>5. QED BY <2>3, <2>4
<1>8. QED BY <1>7 DEF stop

LEMMA LoopAgreesHere == ChannelInv => LoopAgrees
<1> SUFFICES ASSUME ChannelInv, NEW S \in SUBSET ({f.seq : f \in net} \cup DOMAIN buf),
                    NEW from \in 1..(Len(wire) + 1), NEW to \in from..(Len(wire) + 1)
             PROVE  LET b == [s \in S |-> wire[s]] IN
                    LoopEnds(b, from, to) <=> to = LoopOver(b, Len(wire) + 1)[from]
    BY DEF LoopAgrees
<1> DEFINE b == [s \in S |-> wire[s]]
<1>1. Len(wire) \in Nat /\ wire \in Seq(Frame) /\ recvNext \in Nat \ {0}
      BY LenProperties DEF ChannelInv, TypeOK
<1>2. ASSUME NEW s \in S PROVE s \in 1..Len(wire)
      <2>1. CASE s \in DOMAIN buf
            BY <1>1, <2>1 DEF ChannelInv, ReceiverOK
      <2>2. CASE s \in {f.seq : f \in net}
            BY <1>1, <2>2 DEF ChannelInv, TypeOK, NetworkOK, Frame
      <2>3. QED BY <2>1, <2>2
<1>3. \A s \in DOMAIN b : /\ s \in 1..(Len(wire) + 1 - 1) /\ b[s] \in Frame
      BY <1>1, <1>2, ElementOfSeq
<1>4. \A s \in DOMAIN b : /\ s \in 1..(Len(wire) + 1 - 1)
                          /\ b[s].total \in Nat \ {0} /\ b[s].frag \in Nat
      BY <1>3 DEF Frame
<1>5. DOMAIN b \subseteq Nat /\ IsFiniteSet(DOMAIN b)
      <2>1. DOMAIN b \in SUBSET (1..Len(wire)) /\ IsFiniteSet(1..Len(wire))
            BY <1>1, <1>2, FS_Interval
      <2>2. QED BY <1>1, <2>1, FS_Subset
<1> HIDE DEF b
<1>6. LoopOver(b, Len(wire) + 1)[from] = LoopEnd(b, from)
      BY <1>1, <1>4, LoopOverIsLoopEnd
<1>7. from \in Nat /\ to \in Nat /\ to >= from
      BY <1>1
<1>8. LoopEnds(b, from, to) <=> to = LoopEnd(b, from)
      BY <1>4, <1>5, <1>7, LoopEndUnique
<1>9. QED BY <1>6, <1>8 DEF b

(* What RecvData does to the receiver, in every case. *)
Advanced(f, to) ==
    LET held == [s \in DOMAIN buf \cup {f.seq} |->
                    IF s = f.seq THEN f ELSE buf[s]] IN
    /\ f.seq >= recvNext
    /\ LoopEnds(held, recvNext, to)
    /\ recvNext' = to
    /\ delivered' = delivered \o [i \in 1..(to - recvNext) |->
                                     held[recvNext + i - 1]]
    /\ buf' = [s \in DOMAIN held \ recvNext..(to - 1) |-> held[s]]
    /\ dead' = Overrun(buf')

(* A fresh frame moves the receiver to the end of another whole message.    *)
LEMMA AdvancedOK ==
    ASSUME ChannelInv, NEW f \in net, NEW to \in Int, to >= recvNext,
           Advanced(f, to), UNCHANGED wire
    PROVE  /\ ReceiverOK' /\ to \in Nat \ {0} /\ recvNext' = to
           /\ DOMAIN buf' \subseteq Nat \ {0}
           /\ \A s \in DOMAIN buf' : buf'[s] \in Frame
           /\ dead' \in BOOLEAN
           /\ delivered' \in Seq(Frame)
<1> DEFINE held == [s \in DOMAIN buf \cup {f.seq} |->
                       IF s = f.seq THEN f ELSE buf[s]]
           new == [i \in 1..(to - recvNext) |-> held[recvNext + i - 1]]
<1>1. /\ recvNext \in Nat \ {0} /\ Len(wire) \in Nat /\ recvNext <= Len(wire) + 1
      /\ \A s \in 1..Len(wire) : wire[s] \in Frame
      BY LenProperties, ElementOfSeq DEF ChannelInv, TypeOK, ReceiverOK
<1>2. /\ f.seq \in recvNext..Len(wire) /\ f = wire[f.seq]
      BY <1>1 DEF Advanced, ChannelInv, TypeOK, NetworkOK, Frame
<1>3. /\ DOMAIN held = DOMAIN buf \cup {f.seq}
      /\ \A s \in DOMAIN held : s \in recvNext..Len(wire) /\ held[s] = wire[s]
      BY <1>2 DEF ChannelInv, ReceiverOK
<1>4. LoopEnds(held, recvNext, to)
      BY DEF Advanced
<1> HIDE DEF held
<1>5. /\ \A s \in recvNext..(to - 1) : s \in DOMAIN held
      /\ to <= Len(wire) + 1
      /\ Abstract!MessageEnd(wire, to - 1)
      BY <1>3, <1>4, LoopStops
<1>6. /\ recvNext' = to /\ delivered' = delivered \o new
      /\ buf' = [s \in DOMAIN held \ recvNext..(to - 1) |-> held[s]]
      /\ dead' = (Cardinality(DOMAIN buf') > MaxRecvBuffer)
      BY DEF Advanced, Overrun, held
<1>7. \A s \in DOMAIN buf' : s \in to..Len(wire) /\ buf'[s] = wire[s]
                             /\ buf'[s] \in Frame
      BY <1>1, <1>3, <1>6
<1>8. new \in Seq(Frame) /\ Len(new) = to - recvNext
      /\ \A i \in 1..(to - recvNext) : new[i] = wire[recvNext + i - 1]
      <2>1. ASSUME NEW i \in 1..(to - recvNext)
            PROVE  new[i] = wire[recvNext + i - 1] /\ new[i] \in Frame
            <3>1. recvNext + i - 1 \in recvNext..(to - 1)
                  /\ recvNext + i - 1 \in 1..Len(wire)
                  BY <1>1, <1>5
            <3>2. QED BY <1>1, <1>3, <1>5, <3>1
      <2>2. to - recvNext \in Nat
            BY <1>1
      <2>3. new \in [1..(to - recvNext) -> Frame]
            BY <2>1
      <2>4. QED BY <2>1, <2>2, <2>3, SeqDef
<1> HIDE DEF new
<1>9. /\ delivered \in Seq(Frame) /\ Len(delivered) = recvNext - 1
      /\ \A i \in 1..(recvNext - 1) : delivered[i] = wire[i]
      <2>1. delivered = SubSeq(wire, 1, recvNext - 1)
            BY DEF ChannelInv, ReceiverOK
      <2>2. recvNext - 1 \in Int /\ \A i \in 1..(recvNext - 1) : wire[i] \in Frame
            BY <1>1
      <2>3. QED BY <1>1, <2>1, <2>2, SubSeqProperties
<1>10. /\ delivered' \in Seq(Frame) /\ Len(delivered') = to - 1
       /\ \A i \in 1..(to - 1) : delivered'[i] = wire[i]
       <2>1. /\ delivered' \in Seq(Frame)
             /\ Len(delivered') = (recvNext - 1) + (to - recvNext)
             /\ \A i \in 1..((recvNext - 1) + (to - recvNext)) : delivered'[i] =
                   IF i <= recvNext - 1 THEN delivered[i]
                                        ELSE new[i - (recvNext - 1)]
             <3>1. /\ delivered \o new \in Seq(Frame)
                   /\ Len(delivered \o new) = Len(delivered) + Len(new)
                   /\ \A i \in 1..(Len(delivered) + Len(new)) :
                         (delivered \o new)[i] =
                            IF i <= Len(delivered) THEN delivered[i]
                                                   ELSE new[i - Len(delivered)]
                   BY <1>8, <1>9, ConcatProperties
             <3>2. QED BY <1>6, <1>8, <1>9, <3>1
       <2>2. (recvNext - 1) + (to - recvNext) = to - 1
             BY <1>1
       <2>3. ASSUME NEW i \in 1..(to - 1) PROVE delivered'[i] = wire[i]
             <3>1. CASE i <= recvNext - 1
                   BY <1>1, <1>9, <2>1, <2>2, <3>1
             <3>2. CASE ~(i <= recvNext - 1)
                   <4>1. i - (recvNext - 1) \in 1..(to - recvNext)
                         /\ recvNext + (i - (recvNext - 1)) - 1 = i
                         BY <1>1, <3>2
                   <4>2. QED BY <1>8, <2>1, <2>2, <3>2, <4>1
             <3>3. QED BY <3>1, <3>2
       <2>4. QED BY <2>1, <2>2, <2>3
<1>11. delivered' = SubSeq(wire', 1, recvNext' - 1)
       <2>1. /\ SubSeq(wire, 1, to - 1) \in Seq(Frame)
             /\ Len(SubSeq(wire, 1, to - 1)) = to - 1
             /\ \A i \in 1..(to - 1) : SubSeq(wire, 1, to - 1)[i] = wire[i]
             <3>1. \A i \in 1..(to - 1) : wire[i] \in Frame
                   BY <1>1, <1>5
             <3>2. /\ SubSeq(wire, 1, to - 1) \in Seq(Frame)
                   /\ Len(SubSeq(wire, 1, to - 1)) =
                         IF 1 <= to - 1 THEN (to - 1) - 1 + 1 ELSE 0
                   /\ \A i \in 1..((to - 1) - 1 + 1) :
                         SubSeq(wire, 1, to - 1)[i] = wire[1 + i - 1]
                   BY <3>1, SubSeqProperties
             <3>3. QED BY <1>1, <3>2
       <2>2. delivered' = SubSeq(wire, 1, to - 1)
             BY <1>10, <2>1, SeqEqual
       <2>3. QED BY <1>6, <2>2
<1>12. dead' \in BOOLEAN
       BY <1>6
<1>16. ~RunAt(buf', to)
       <2>1. \A s \in DOMAIN buf' : s \in DOMAIN held /\ buf'[s] = held[s]
             BY <1>6
       <2>2. RunAt(buf', to) => RunAt(held, to)
             BY <2>1 DEF RunAt
       <2>3. QED BY <1>4, <2>2 DEF LoopEnds
<1>13. ReceiverOK'
       <2>1. recvNext' <= Len(wire') + 1 /\ Abstract!MessageEnd(wire, to - 1)'
             BY <1>5, <1>6 DEF Abstract!MessageEnd
       <2>2. Abstract!MessageEnd(wire', recvNext' - 1)
             BY <1>5, <1>6
       <2>3. dead' => Cardinality(DOMAIN buf') > MaxRecvBuffer
             BY <1>6
       <2>4. ~RunAt(buf', recvNext')
             BY <1>6, <1>16
       <2>5. QED BY <1>5, <1>6, <1>7, <1>11, <2>2, <2>3, <2>4 DEF ReceiverOK
<1>14. DOMAIN buf' \subseteq Nat \ {0} /\ to \in Nat \ {0}
       <2>1. \A s \in to..Len(wire) : s \in Nat \ {0}
             BY <1>1
       <2>2. QED BY <1>1, <1>7, <2>1
<1>15. QED BY <1>6, <1>7, <1>10, <1>12, <1>13, <1>14

(* A frame that arrives finds the receiver dead, is a duplicate, or         *)
(* advances the receiver.                                                   *)
LEMMA RecvDataCases ==
    ASSUME ChannelInv, NEW f \in net, NEW duplicate, RecvData(f, duplicate)
    PROVE  /\ UNCHANGED <<sender, lost>>
           /\ net' \subseteq net
           /\ ackPending' \in BOOLEAN
           /\ \/ UNCHANGED <<acks, recvNext, buf, dead, delivered>>
              \/ /\ \/ UNCHANGED <<recvNext, buf, dead, delivered>>
                    \/ \E to \in Int : to >= recvNext /\ Advanced(f, to)
                 /\ acks' \subseteq acks \cup {AckSeq(recvNext')}
<1>1. UNCHANGED <<sender, lost>> /\ net' \subseteq net
      BY DEF RecvData
<1>2. CASE dead /\ UNCHANGED <<acks, receiver>>
      <2>1. ackPending' \in BOOLEAN
            BY <1>2 DEF receiver, ChannelInv, TypeOK
      <2>2. QED BY <1>1, <1>2, <2>1 DEF receiver
<1>3. CASE ~(dead /\ UNCHANGED <<acks, receiver>>)
      <2>1. IF Direction = "PcToPhone"
            THEN /\ acks' = IF dead' THEN acks ELSE acks \cup {AckSeq(recvNext')}
                 /\ UNCHANGED ackPending
            ELSE ackPending' = TRUE /\ UNCHANGED acks
            BY <1>3 DEF RecvData
      <2>2. ackPending' \in BOOLEAN
            BY <2>1, Zenon DEF ChannelInv, TypeOK
      <2>3. acks' \subseteq acks \cup {AckSeq(recvNext')}
            BY <2>1
      <2>4. \/ UNCHANGED <<recvNext, buf, dead, delivered>>
            \/ \E to \in recvNext..(recvNext
                        + Cardinality(DOMAIN buf \cup {f.seq})) : Advanced(f, to)
            BY <1>3, Zenon DEF RecvData, Advanced
      <2>5. \A to : to \in recvNext..(recvNext
                        + Cardinality(DOMAIN buf \cup {f.seq}))
                    => to \in Int /\ to >= recvNext
            BY DEF ChannelInv, TypeOK
      <2>6. QED BY <1>1, <2>2, <2>3, <2>4, <2>5
<1>4. QED BY <1>2, <1>3

(* What is acknowledged is below what is expected. *)
LEMMA AckBelow ==
    ASSUME NEW n \in Nat \ {0}
    PROVE  AckSeq(n) \in Nat /\ AckSeq(n) < n
BY DEF AckSeq

LEMMA AckCovers ==
    ASSUME NEW n \in Nat \ {0}, NEW s \in Nat, s < n
    PROVE  AckSeq(n) >= s
BY DEF AckSeq

LEMMA RecvDataInv ==
    ASSUME ChannelInv, NEW f \in net, NEW duplicate, RecvData(f, duplicate)
    PROVE  ChannelInv'
<1>1. /\ UNCHANGED <<wire, nextMsg, loss, stalled, closed, lost>>
      /\ net' \subseteq net /\ ackPending' \in BOOLEAN
      BY RecvDataCases DEF sender
<1>2. WireOK'
      BY <1>1 DEF ChannelInv, WireOK, Abstract!NextId
<1>3. /\ recvNext \in Nat \ {0} /\ acks \subseteq Nat
      /\ \A a \in acks : a < recvNext
      BY DEF ChannelInv, TypeOK, NetworkOK
<1>4. /\ ReceiverOK' /\ recvNext' \in Nat \ {0} /\ recvNext' >= recvNext
      /\ DOMAIN buf' \subseteq Nat \ {0} /\ dead' \in BOOLEAN
      /\ \A s \in DOMAIN buf' : buf'[s] \in Frame
      /\ delivered' \in Seq(Frame)
      <2>1. CASE UNCHANGED <<recvNext, buf, dead, delivered>>
            BY <1>1, <1>3, <2>1
               DEF ChannelInv, TypeOK, ReceiverOK, Abstract!MessageEnd
      <2>2. CASE \E to \in Int : to >= recvNext /\ Advanced(f, to)
            <3>1. PICK to \in Int : to >= recvNext /\ Advanced(f, to)
                  BY <2>2
            <3>2. QED BY <1>1, <3>1, AdvancedOK
      <2>3. QED BY <2>1, <2>2, RecvDataCases
<1>5. /\ acks' \subseteq Nat /\ \A a \in acks' : a < recvNext'
      <2>1. AckSeq(recvNext') \in Nat /\ AckSeq(recvNext') < recvNext'
            <3>1. recvNext' \in Nat \ {0}
                  BY <1>4, Zenon
            <3>2. QED BY <3>1, AckBelow
      <2>2. acks' \subseteq acks \cup {AckSeq(recvNext')}
            BY RecvDataCases
      <2>3. QED BY <1>3, <1>4, <2>1, <2>2
<1>6. NetworkOK'
      BY <1>1, <1>5 DEF ChannelInv, NetworkOK
<1>7. WindowOK'
      BY <1>1, <1>3, <1>4
         DEF ChannelInv, TypeOK, WindowOK, NoEarlyRelease, Window
<1>8. TypeOK'
      BY <1>1, <1>4, <1>5 DEF ChannelInv, TypeOK, Window
<1>9. QED BY <1>2, <1>4, <1>6, <1>7, <1>8 DEF ChannelInv
-----------------------------------------------------------------------------
(* The invariant is inductive: whatever is lost, duplicated, reordered or   *)
(* resent, what is in flight, buffered and handed over is what was sent.    *)
THEOREM ChannelInvariant == Spec => []ChannelInv
<1>1. Init => ChannelInv
      BY InitInv
<1>2. ChannelInv /\ [Next]_vars => ChannelInv'
      <2> SUFFICES ASSUME ChannelInv, [Next]_vars PROVE ChannelInv'
          OBVIOUS
      <2>1. CASE \E n \in Sizes : Send(n)
            BY <2>1, SendInv
      <2>2. CASE \E a \in acks : RecvAck(a)
            BY <2>2, RecvAckInv
      <2>3. CASE Timeout
            BY <2>3, TimeoutInv
      <2>4. CASE \E f \in net, duplicate \in BOOLEAN : RecvData(f, duplicate)
            BY <2>4, RecvDataInv
      <2>5. CASE FlushAck
            BY <2>5, FlushAckInv
      <2>6. CASE Lose
            BY <2>6, LoseInv
      <2>7. CASE UNCHANGED vars
            BY <2>7 DEF vars, sender, network, receiver, ChannelInv, TypeOK,
               WireOK, NetworkOK, ReceiverOK, WindowOK, NoEarlyRelease, Window,
               Abstract!NextId, Abstract!MessageEnd
      <2>8. QED BY <2>1, <2>2, <2>3, <2>4, <2>5, <2>6, <2>7 DEF Next
<1>3. QED BY <1>1, <1>2, PTL DEF Spec

(* Where RecvData says that the delivery loop of on_frame stops is where the *)
(* loop as it is written stops, on every buffer the channel can hold.        *)
THEOREM LoopSafety == Spec => []LoopAgrees
BY ChannelInvariant, LoopAgreesHere, PTL

(* What the receiver waits for is the first fragment of a message.          *)
LEMMA NextStarts ==
    ASSUME ChannelInv, recvNext \in 1..Len(wire)
    PROVE  wire[recvNext].frag = 0
<1> DEFINE g == wire[recvNext].frag
           n == wire[recvNext].total
<1>1. /\ recvNext \in Nat \ {0} /\ Len(wire) \in Nat
      /\ Abstract!MessageEnd(wire, recvNext - 1)
      BY LenProperties DEF ChannelInv, TypeOK, ReceiverOK
<1>2. wire[recvNext] \in Frame
      BY ElementOfSeq DEF ChannelInv, TypeOK
<1>3. g \in Nat /\ n \in Nat
      BY <1>2 DEF Frame
<1>4. /\ g < n /\ g < recvNext
      /\ \A i \in 0..(n - 1) :
            /\ wire[recvNext - g + i].total = n
            /\ wire[recvNext - g + i].frag = i
      BY DEF ChannelInv, WireOK
<1> HIDE DEF g, n
<1>5. ASSUME g > 0 PROVE FALSE
      <2>1. g - 1 \in 0..(n - 1) /\ recvNext - g + (g - 1) = recvNext - 1
            BY <1>1, <1>3, <1>4, <1>5
      <2>2. wire[recvNext - 1].total = n /\ wire[recvNext - 1].frag = g - 1
            BY <1>4, <2>1
      <2>3. recvNext - 1 # 0
            BY <1>1, <1>3, <1>4, <1>5
      <2>4. g - 1 + 1 = n
            BY <1>1, <2>2, <2>3 DEF Abstract!MessageEnd
      <2>5. QED BY <1>3, <1>4, <2>4
<1>6. g = 0
      BY <1>3, <1>5
<1>7. QED BY <1>6 DEF g

(* The last seq of the message that fragment s belongs to. *)
End(s) == s - wire[s].frag + wire[s].total - 1

LEMMA EndProps ==
    ASSUME ChannelInv, NEW s \in 1..Len(wire)
    PROVE  /\ End(s) \in Int /\ s <= End(s) /\ End(s) <= Len(wire)
           /\ \A t \in s..End(s) : wire[t].msg = wire[s].msg /\ End(t) = End(s)
<1> DEFINE g == wire[s].frag
           n == wire[s].total
<1>1. wire[s] \in Frame /\ Len(wire) \in Nat
      BY ElementOfSeq, LenProperties DEF ChannelInv, TypeOK
<1>2. g \in Nat /\ n \in Nat
      BY <1>1 DEF Frame
<1>3. /\ g < n /\ g < s /\ s - g + n <= Len(wire) + 1
      /\ \A i \in 0..(n - 1) :
            /\ wire[s - g + i].msg = wire[s].msg
            /\ wire[s - g + i].total = n /\ wire[s - g + i].frag = i
      BY DEF ChannelInv, WireOK
<1>4. End(s) = s - g + n - 1
      BY DEF End
<1> HIDE DEF g, n
<1>5. End(s) \in Int /\ s <= End(s) /\ End(s) <= Len(wire)
      BY <1>1, <1>2, <1>3, <1>4
<1>6. ASSUME NEW t \in s..End(s)
      PROVE  wire[t].msg = wire[s].msg /\ End(t) = End(s)
      <2>1. t - s + g \in 0..(n - 1) /\ s - g + (t - s + g) = t
            BY <1>2, <1>3, <1>4, <1>5
      <2>2. /\ wire[t].msg = wire[s].msg
            /\ wire[t].total = n /\ wire[t].frag = t - s + g
            BY <1>3, <2>1
      <2>3. t - (t - s + g) + n - 1 = s - g + n - 1
            BY <1>2
      <2>4. QED BY <1>4, <2>2, <2>3 DEF End
<1>7. QED BY <1>5, <1>6

(* What is to be handed over next lacks a fragment.                          *)
LEMMA NextMissing ==
    ASSUME ChannelInv, NEW s \in 1..Len(wire), s >= recvNext
    PROVE  \E m \in recvNext..End(s) : m \notin DOMAIN buf
<1>1. /\ recvNext \in Nat \ {0} /\ Len(wire) \in Nat
      /\ \A i \in DOMAIN buf : buf[i] = wire[i]
      /\ ~RunAt(buf, recvNext)
      BY LenProperties DEF ChannelInv, TypeOK, ReceiverOK
<1>2. recvNext \in 1..Len(wire)
      BY <1>1
<1>3. wire[recvNext].frag = 0
      BY <1>2, NextStarts
<1>4. /\ wire[recvNext] \in Frame
      /\ \A i \in 0..(wire[recvNext].total - 1) :
            /\ wire[recvNext - wire[recvNext].frag + i].msg = wire[recvNext].msg
            /\ wire[recvNext - wire[recvNext].frag + i].frag = i
      BY <1>2, ElementOfSeq DEF ChannelInv, TypeOK, WireOK
<1> DEFINE n == wire[recvNext].total
<1>5. n \in Nat \ {0} /\ End(recvNext) = recvNext + n - 1
      BY <1>1, <1>3, <1>4 DEF Frame, End
<1>6. End(s) \in Int /\ End(recvNext) <= End(s)
      <2>1. /\ End(s) \in Int /\ s <= End(s) /\ End(recvNext) \in Int
            /\ \A t \in recvNext..End(recvNext) : End(t) = End(recvNext)
            BY <1>2, EndProps
      <2>2. CASE s <= End(recvNext)
            BY <1>1, <2>1, <2>2
      <2>3. CASE s > End(recvNext)
            BY <2>1, <2>3
      <2>4. QED BY <2>1, <2>2, <2>3
<1>7. SUFFICES ASSUME \A m \in recvNext..End(s) : m \in DOMAIN buf
               PROVE  FALSE
      OBVIOUS
<1>8. ASSUME NEW i \in 0..(n - 1)
      PROVE  /\ recvNext + i \in DOMAIN buf
             /\ wire[recvNext + i].msg = wire[recvNext].msg
             /\ wire[recvNext + i].frag = i
      <2>1. recvNext + i \in recvNext..End(s) /\ recvNext - 0 + i = recvNext + i
            BY <1>1, <1>5, <1>6, <1>2, EndProps
      <2>2. QED BY <1>3, <1>4, <1>7, <2>1
<1>9. recvNext \in recvNext..End(s)
      BY <1>1, <1>5, <1>6, <1>2, EndProps
<1>10. QED BY <1>1, <1>3, <1>7, <1>8, <1>9 DEF RunAt

(* A receiver that holds anything waits for a fragment it does not hold.    *)
LEMMA FragmentMissing ==
    ASSUME ChannelInv, Cardinality(DOMAIN buf) > 0
    PROVE  \E m \in recvNext..Len(wire) : m \notin DOMAIN buf
<1>1. PICK s \in DOMAIN buf : TRUE
      <2>1. Cardinality({}) = 0
            BY FS_EmptySet
      <2>2. CASE DOMAIN buf = {}
            BY <2>1, <2>2
      <2>3. QED BY <2>2
<1>2. /\ recvNext \in Nat \ {0} /\ Len(wire) \in Nat
      /\ s \in recvNext..Len(wire)
      BY LenProperties DEF ChannelInv, TypeOK, ReceiverOK
<1>3. /\ \E m \in recvNext..End(s) : m \notin DOMAIN buf
      /\ End(s) \in Int /\ End(s) <= Len(wire)
      BY <1>2, NextMissing, EndProps
<1>4. QED BY <1>2, <1>3

(* The receiver's buffer overruns only while the sender has more than       *)
(* MAX_RECV_BUFFER fragments out.                                           *)
THEOREM OverrunSafety == Spec => []OverrunNeedsBacklog
<1>1. ASSUME ChannelInv PROVE OverrunNeedsBacklog
      <2> SUFFICES ASSUME dead PROVE Cardinality(Window) > MaxRecvBuffer + 1
          BY DEF OverrunNeedsBacklog
      <2>1. /\ Cardinality(DOMAIN buf) > MaxRecvBuffer
            /\ MaxRecvBuffer \in Nat
            BY <1>1, LimitAssumption DEF ChannelInv, ReceiverOK
      <2>2. /\ recvNext \in Nat \ {0} /\ Len(wire) \in Nat
            /\ Window \subseteq 1..Len(wire)
            /\ \A s \in recvNext..Len(wire) : s \in Window
            BY <1>1, LenProperties
               DEF ChannelInv, TypeOK, WindowOK, NoEarlyRelease
      <2>3. DOMAIN buf \subseteq Window
            BY <1>1, <2>2 DEF ChannelInv, ReceiverOK
      <2>4. IsFiniteSet(Window)
            <3>1. IsFiniteSet(1..Len(wire))
                  BY <2>2, FS_Interval
            <3>2. Window \in SUBSET (1..Len(wire))
                  BY <2>2
            <3>3. QED BY <3>1, <3>2, FS_Subset
      <2>5. PICK m \in Window : m \notin DOMAIN buf
            <3>1. DOMAIN buf \in SUBSET Window
                  BY <2>3
            <3>2. Cardinality(DOMAIN buf) \in Nat
                  BY <2>4, <3>1, FS_Subset, FS_CardinalityType
            <3>3. Cardinality(DOMAIN buf) > 0
                  BY <2>1, <3>2
            <3>4. PICK m \in recvNext..Len(wire) : m \notin DOMAIN buf
                  BY <1>1, <3>3, FragmentMissing
            <3>5. QED BY <2>2, <3>4
      <2>6. DOMAIN buf \in SUBSET (Window \ {m})
            BY <2>3, <2>5
      <2>7. /\ IsFiniteSet(Window \ {m})
            /\ Cardinality(Window \ {m}) = Cardinality(Window) - 1
            BY <2>4, <2>5, FS_RemoveElement
      <2>8. /\ Cardinality(DOMAIN buf) <= Cardinality(Window \ {m})
            /\ Cardinality(DOMAIN buf) \in Nat /\ Cardinality(Window) \in Nat
            BY <2>4, <2>6, <2>7, FS_Subset, FS_CardinalityType
      <2>9. QED BY <2>1, <2>7, <2>8
<1>2. QED BY <1>1, ChannelInvariant, PTL

(* The channel implements FifoChannel: whole messages, in order, once.      *)
THEOREM Implements == Spec => ImplementsFifo
<1>1. Init => Abstract!Init
      BY DEF Init, Abstract!Init
<1>2. ChannelInv /\ ChannelInv' /\ [Next]_vars => [Abstract!Next]_(Abstract!vars)
      <2> SUFFICES ASSUME ChannelInv, ChannelInv', [Next]_vars
                   PROVE  Abstract!Next \/ UNCHANGED <<wire, delivered>>
          BY DEF Abstract!vars
      <2>1. CASE \E n \in Sizes : Send(n)
            <3>1. PICK n \in Sizes : Send(n)
                  BY <2>1
            <3>2. nextMsg = Abstract!NextId
                  BY DEF ChannelInv, WireOK
            <3>3. /\ wire' = wire \o Abstract!Fragments(Abstract!NextId, n, Len(wire))
                  /\ UNCHANGED delivered
                  BY <3>1, <3>2 DEF Send, receiver
            <3>4. QED BY <3>3 DEF Abstract!Next, Abstract!Accept
      <2>2. CASE \E f \in net, duplicate \in BOOLEAN : RecvData(f, duplicate)
            <3>1. UNCHANGED wire
                  BY <2>2, RecvDataCases DEF sender
            <3>2. /\ recvNext \in Nat \ {0} /\ recvNext' \in Nat \ {0}
                  /\ wire \in Seq(Frame) /\ Len(wire) \in Nat
                  /\ \A i \in 1..Len(wire) : wire[i] \in Frame
                  BY LenProperties, ElementOfSeq DEF ChannelInv, TypeOK
            <3>3. /\ delivered = SubSeq(wire, 1, recvNext - 1)
                  /\ delivered' = SubSeq(wire, 1, recvNext' - 1)
                  /\ Abstract!MessageEnd(wire, recvNext' - 1)
                  /\ recvNext <= Len(wire) + 1 /\ recvNext' <= Len(wire) + 1
                  BY <3>1 DEF ChannelInv, ReceiverOK, Abstract!MessageEnd
            <3>4. Len(delivered) = recvNext - 1
                  <4>1. recvNext - 1 \in Int
                        /\ \A i \in 1..(recvNext - 1) : wire[i] \in Frame
                        BY <3>2, <3>3
                  <4>2. QED BY <3>2, <3>3, <4>1, SubSeqProperties
            <3>5. recvNext' >= recvNext
                  <4>1. PICK f \in net, duplicate \in BOOLEAN :
                            RecvData(f, duplicate)
                        BY <2>2
                  <4>2. CASE UNCHANGED recvNext
                        BY <3>2, <4>2
                  <4>3. CASE \E to \in Int : to >= recvNext /\ recvNext' = to
                        BY <4>3
                  <4>4. QED BY <4>1, <4>2, <4>3, RecvDataCases DEF Advanced
            <3>6. CASE recvNext' = recvNext
                  BY <3>1, <3>3, <3>6
            <3>7. CASE recvNext' > recvNext
                  <4>1. /\ recvNext' \in Nat /\ recvNext \in Nat
                        /\ Len(wire) \in Nat /\ recvNext' <= Len(wire) + 1
                        BY <3>2, <3>3
                  <4>2. recvNext' - 1 \in (Len(delivered) + 1)..Len(wire)
                        <5>1. ASSUME NEW a \in Nat, NEW b \in Nat, NEW l \in Nat,
                                     a > b, a <= l + 1
                              PROVE  a - 1 \in ((b - 1) + 1)..l
                              BY <5>1
                        <5>2. recvNext' - 1 \in ((recvNext - 1) + 1)..Len(wire)
                              BY <3>7, <4>1, <5>1
                        <5>3. QED BY <3>4, <5>2, Zenon
                  <4>3. QED BY <3>1, <3>3, <4>2
                            DEF Abstract!Next, Abstract!Deliver
            <3>8. QED BY <3>2, <3>5, <3>6, <3>7
      <2>3. CASE \E a \in acks : RecvAck(a)
            BY <2>3 DEF RecvAck, receiver
      <2>4. CASE Timeout
            BY <2>4 DEF Timeout, PcTimeout, PhoneTimeout, receiver
      <2>5. CASE FlushAck \/ Lose \/ UNCHANGED vars
            BY <2>5 DEF FlushAck, Lose, vars, sender, receiver
      <2>6. QED BY <2>1, <2>2, <2>3, <2>4, <2>5 DEF Next
<1>3. QED BY <1>1, <1>2, ChannelInvariant, PTL DEF Spec, Abstract!Spec, ImplementsFifo
-----------------------------------------------------------------------------
(* Losses and the stall.  LossesOK is the induction: an entry's count is     *)
(* below the number of losses, or equal to it while what releases the entry   *)
(* is still under way.                                                       *)

(* Without another loss an acknowledgement for s will come: of what has been  *)
(* handed over, once anything arrives; else once all that is missing up to    *)
(* the end of its message has arrived.                                       *)
Coming(s) ==
    \/ s < recvNext /\ (net # {} \/ ackPending \/ \E a \in acks : a >= s)
    \/ s >= recvNext /\ \A t \in recvNext..End(s) : t \in DOMAIN buf \/ wire[t] \in net

LossesOK == \A s \in Window : loss[s] < lost \/ (loss[s] = lost /\ Coming(s))

ToleranceInv == Patient /\ ~dead /\ lost <= LossLimit => ~stalled /\ LossesOK

(* With nothing under way every entry of the window has suffered a loss more *)
(* than it has been resent.                                                  *)
LEMMA QuietMeansLost ==
    ASSUME ChannelInv, LossesOK, net = {}, acks = {}, ~ackPending, NEW s \in Window
    PROVE  loss[s] < lost
<1>1. s \in 1..Len(wire) /\ recvNext \in Nat /\ Len(wire) \in Nat
      BY LenProperties DEF ChannelInv, TypeOK, WindowOK
<1>2. ~Coming(s)
      <2>1. CASE s < recvNext
            BY <1>1, <2>1 DEF Coming
      <2>2. CASE s >= recvNext
            BY <1>1, <2>2, NextMissing DEF Coming
      <2>3. QED BY <1>1, <2>1, <2>2
<1>3. QED BY <1>2 DEF LossesOK

(* Steps of the sender.  A new entry counts no loss; if there was none yet,  *)
(* all that is missing before it is still under way.                         *)
LEMMA SendTolerates ==
    ASSUME ChannelInv, LossesOK, NEW n \in Sizes, Send(n)
    PROVE  LossesOK'
<1>1. /\ n \in Nat \ {0} /\ Len(wire) \in Nat /\ recvNext \in Nat \ {0}
      /\ recvNext <= Len(wire) + 1 /\ lost \in Nat
      BY LenProperties DEF ChannelInv, TypeOK, ReceiverOK
<1>2. /\ Len(wire') = Len(wire) + n
      /\ \A s \in 1..Len(wire) : wire'[s] = wire[s]
      /\ \A s \in (Len(wire) + 1)..(Len(wire) + n) :
            wire'[s].frag = s - Len(wire) - 1 /\ wire'[s].total = n
      <2>1. wire' = Extended(n)
            BY DEF Send, Extended
      <2>2. QED BY <2>1, AppendFragments
<1>3. /\ UNCHANGED <<lost, acks, recvNext, buf, ackPending>>
      /\ Window' = Window \cup (Len(wire) + 1)..(Len(wire) + n)
      /\ \A s \in Window' : loss'[s] = IF s \in Window THEN loss[s] ELSE 0
      /\ net \subseteq net'
      BY DEF Send, receiver, Window
<1>4. \A t \in (Len(wire) + 1)..(Len(wire) + n) : wire'[t] \in net'
      <2>1. SUFFICES ASSUME NEW t \in (Len(wire) + 1)..(Len(wire) + n)
                     PROVE  wire'[t] \in net'
            OBVIOUS
      <2>2. t - Len(wire) \in 1..n /\ Len(wire) + (t - Len(wire)) = t
            BY <1>1
      <2>3. QED BY <2>2, SentFragments DEF Send
<1>5. ASSUME NEW s \in Window, Coming(s) PROVE Coming(s)'
      <2>1. s \in 1..Len(wire) /\ End(s) \in Int /\ End(s) <= Len(wire)
            BY EndProps DEF ChannelInv, WindowOK
      <2>2. End(s)' = End(s)
            BY <1>2, <2>1 DEF End
      <2>3. CASE s < recvNext
            <3>1. net # {} \/ ackPending \/ \E a \in acks : a >= s
                  BY <1>1, <1>5, <2>1, <2>3 DEF Coming
            <3>2. net' # {} \/ ackPending' \/ \E a \in acks' : a >= s
                  BY <1>3, <3>1
            <3>3. QED BY <1>3, <2>3, <3>2 DEF Coming
      <2>4. CASE s >= recvNext
            <3>1. ASSUME NEW t \in recvNext..End(s)
                  PROVE  t \in DOMAIN buf \/ wire'[t] \in net'
                  <4>1. wire'[t] = wire[t]
                        BY <1>1, <1>2, <2>1
                  <4>2. QED BY <1>1, <1>3, <1>5, <2>1, <2>4, <4>1 DEF Coming
            <3>2. QED BY <1>3, <2>2, <2>4, <3>1 DEF Coming
      <2>5. QED BY <1>1, <2>1, <2>3, <2>4
<1>6. ASSUME NEW s \in (Len(wire) + 1)..(Len(wire) + n), lost = 0
      PROVE  Coming(s)'
      <2>1. End(s)' = Len(wire) + n
            <3>1. wire'[s].frag = s - Len(wire) - 1 /\ wire'[s].total = n
                  BY <1>2
            <3>2. End(s)' = s - (s - Len(wire) - 1) + n - 1
                  BY <3>1 DEF End
            <3>3. QED BY <1>1, <3>2
      <2>2. ASSUME NEW t \in recvNext..(Len(wire) + n)
            PROVE  t \in DOMAIN buf \/ wire'[t] \in net'
            <3>1. CASE t > Len(wire)
                  BY <1>1, <1>4, <3>1
            <3>2. CASE t <= Len(wire)
                  <4>1. t \in 1..Len(wire) /\ t \in Window /\ wire'[t] = wire[t]
                    <5>1. t \in 1..Len(wire) /\ ~(t < recvNext)
                          BY <1>1, <3>2
                    <5>2. NoEarlyRelease
                          BY DEF ChannelInv, WindowOK
                    <5>3. t \in Window
                          BY <5>1, <5>2 DEF NoEarlyRelease
                    <5>4. QED BY <1>2, <5>1, <5>3
                  <4>2. loss[t] \in Nat
                        BY <4>1 DEF ChannelInv, TypeOK
                  <4>3. Coming(t)
                        BY <1>6, <4>1, <4>2 DEF LossesOK
                  <4>4. t \in recvNext..End(t)
                        BY <1>1, <4>1, EndProps
                  <4>5. t \in DOMAIN buf \/ wire[t] \in net
                        BY <1>1, <4>3, <4>4 DEF Coming
                  <4>6. QED BY <1>3, <4>1, <4>5
            <3>3. QED BY <1>1, <3>1, <3>2
      <2>3. s >= recvNext
            BY <1>1
      <2>4. QED BY <1>3, <2>1, <2>2, <2>3 DEF Coming
<1>7. QED BY <1>1, <1>3, <1>5, <1>6 DEF LossesOK

LEMMA RecvAckTolerates ==
    ASSUME ChannelInv, LossesOK, NEW a \in acks, RecvAck(a)
    PROVE  LossesOK'
<1>1. /\ UNCHANGED <<wire, net, lost, recvNext, buf, ackPending>>
      /\ acks' = acks \ {a}
      /\ Window' = {s \in Window : s > a}
      /\ \A s \in Window' : loss'[s] = loss[s]
      BY DEF RecvAck, Kept, receiver, Window
<1>2. a \in Nat /\ Window \subseteq Nat
      BY DEF ChannelInv, TypeOK
<1>3. ASSUME NEW s \in Window', Coming(s) PROVE Coming(s)'
      <2>1. s \in Window /\ s > a /\ s \in Nat
            BY <1>1, <1>2
      <2>2. \A b \in acks : b >= s => b \in acks'
            BY <1>1, <1>2, <2>1
      <2>3. QED BY <1>1, <1>3, <2>2 DEF Coming, End
<1>4. QED BY <1>1, <1>3 DEF LossesOK

(* A pass counts only what has suffered a loss more, and resends, with each   *)
(* entry, all that is missing before it, unless that has been resent more     *)
(* often.                                                                    *)
LEMMA TimeoutTolerates ==
    ASSUME ChannelInv, LossesOK, Patient, ~stalled, lost <= LossLimit, Timeout
    PROVE  ~stalled' /\ LossesOK'
<1>1. PICK due \in SUBSET Window :
          DueTogether(due) /\ (PcTimeout(due) \/ PhoneTimeout(due))
      BY DEF Timeout
<1>2. /\ net = {} /\ acks = {} /\ ~ackPending
      /\ \A s \in due, t \in Window : t < s /\ loss[t] <= loss[s] => t \in due
      /\ \A s \in due, t \in Window : wire[t].msg = wire[s].msg => t \in due
      BY <1>1 DEF DueTogether
<1>3. /\ Window \subseteq 1..Len(wire) /\ Len(wire) \in Nat /\ lost \in Nat
      /\ recvNext \in Nat \ {0} /\ \A s \in Window : loss[s] \in Nat
      BY LenProperties DEF ChannelInv, TypeOK, WindowOK
<1>4. \A s \in Window : loss[s] < lost
      BY <1>2, QuietMeansLost
<1>5. Exhausted(due) = {}
      <2>1. \A s \in due : ~(loss[s] >= LossLimit)
            BY <1>3, <1>4
      <2>2. QED BY <2>1 DEF Exhausted
<1>6. /\ ~stalled' /\ UNCHANGED <<wire, acks, lost, recvNext, buf, ackPending>>
      /\ Window' = Window
      /\ \A s \in Window : loss'[s] = IF s \in due THEN loss[s] + 1 ELSE loss[s]
      /\ net' = {wire[s] : s \in due}
      <2>1. CASE PcTimeout(due)
            BY <1>2, <1>5, <2>1 DEF PcTimeout, receiver, Window
      <2>2. CASE PhoneTimeout(due)
            <3>1. {s \in due : \A t \in Exhausted(due) : s <= t} = due
                  BY <1>5
            <3>2. QED BY <1>2, <1>5, <2>2, <3>1 DEF PhoneTimeout, receiver, Window
      <2>3. QED BY <1>1, <2>1, <2>2
<1>7. ASSUME NEW s \in due, loss[s] + 1 = lost PROVE Coming(s)'
      <2>1. /\ s \in 1..Len(wire) /\ End(s) \in Int /\ End(s) <= Len(wire)
            /\ \A t \in s..End(s) : wire[t].msg = wire[s].msg
            BY <1>3, EndProps
      <2>2. CASE s < recvNext
            <3>1. net' # {}
                  BY <1>6
            <3>2. QED BY <1>6, <2>2, <3>1 DEF Coming
      <2>3. CASE s >= recvNext
            <3>1. ASSUME NEW t \in recvNext..End(s) PROVE t \in due
                  <4>1. t \in Window
                        BY <1>3, <2>1 DEF ChannelInv, WindowOK, NoEarlyRelease
                  <4>2. CASE t >= s
                        BY <1>2, <1>3, <2>1, <4>1, <4>2
                  <4>3. CASE t < s
                        BY <1>2, <1>3, <1>4, <1>7, <4>1, <4>3
                  <4>4. QED BY <1>3, <2>1, <4>2, <4>3
            <3>2. End(s)' = End(s)
                  BY <1>6 DEF End
            <3>3. QED BY <1>6, <2>3, <3>1, <3>2 DEF Coming
      <2>4. QED BY <1>3, <2>1, <2>2, <2>3
<1>8. LossesOK'
      BY <1>3, <1>4, <1>6, <1>7 DEF LossesOK
<1>9. QED BY <1>6, <1>8

LEMMA FlushAckTolerates ==
    ASSUME ChannelInv, LossesOK, FlushAck
    PROVE  LossesOK'
<1>1. /\ UNCHANGED <<wire, net, loss, lost, recvNext, buf>> /\ Window' = Window
      /\ acks' = acks \cup {AckSeq(recvNext)}
      BY DEF FlushAck, sender, Window
<1>2. recvNext \in Nat \ {0} /\ Window \subseteq Nat
      BY DEF ChannelInv, TypeOK
<1>3. ASSUME NEW s \in Window, Coming(s) PROVE Coming(s)'
      <2>1. s < recvNext => AckSeq(recvNext) >= s
            BY <1>2 DEF AckSeq
      <2>2. QED BY <1>1, <1>2, <1>3, <2>1 DEF Coming, End
<1>4. QED BY <1>1, <1>3 DEF LossesOK

LEMMA LoseTolerates ==
    ASSUME ChannelInv, LossesOK, Lose
    PROVE  LossesOK'
<1>1. lost' = lost + 1 /\ UNCHANGED loss /\ Window' = Window
      BY DEF Lose, sender, Window
<1>2. lost \in Nat /\ \A s \in Window : loss[s] \in Nat
      BY DEF ChannelInv, TypeOK
<1>3. QED BY <1>1, <1>2 DEF LossesOK

LEMMA FrameCases ==
    ASSUME ChannelInv, NEW f \in net, NEW duplicate, RecvData(f, duplicate), ~dead
    PROVE  \/ f.seq < recvNext /\ UNCHANGED <<recvNext, buf>>
           \/ \E to \in Int : to >= recvNext /\ Advanced(f, to)
<1>1. \/ f.seq < recvNext /\ UNCHANGED <<recvNext, buf, dead, delivered>>
      \/ /\ f.seq >= recvNext
         /\ \E to \in recvNext..(recvNext + Cardinality(DOMAIN buf \cup {f.seq})) :
               Advanced(f, to)
      BY Zenon DEF RecvData, Advanced
<1>2. \A to : to \in recvNext..(recvNext + Cardinality(DOMAIN buf \cup {f.seq}))
                => to \in Int /\ to >= recvNext
      BY DEF ChannelInv, TypeOK
<1>3. QED BY <1>1, <1>2

(* What arrives is buffered or handed over, and in the latter case an         *)
(* acknowledgement is due for all that has been.                             *)
LEMMA RecvDataTolerates ==
    ASSUME ChannelInv, ChannelInv', LossesOK, NEW f \in net, NEW duplicate \in BOOLEAN,
           RecvData(f, duplicate), ~dead'
    PROVE  LossesOK'
<1>1. /\ UNCHANGED <<wire, loss, lost>> /\ Window' = Window
      /\ net \ {f} \subseteq net'
      BY DEF RecvData, sender, Window
<1>2. /\ recvNext \in Nat \ {0} /\ recvNext' \in Nat \ {0}
      /\ Window \subseteq 1..Len(wire) /\ Len(wire) \in Nat
      /\ f.seq \in 1..Len(wire) /\ f = wire[f.seq]
      /\ \A t \in 1..Len(wire) : wire[t].seq = t
      <2>1. recvNext \in Nat \ {0} /\ recvNext' \in Nat \ {0}
            BY DEF ChannelInv, TypeOK
      <2>2. Len(wire) \in Nat /\ Window \subseteq 1..Len(wire)
            BY LenProperties DEF ChannelInv, TypeOK, WindowOK
      <2>3. f \in Frame /\ f.seq <= Len(wire) /\ f = wire[f.seq]
            BY DEF ChannelInv, TypeOK, NetworkOK
      <2>4. f.seq \in 1..Len(wire)
            BY <2>2, <2>3 DEF Frame
      <2>5. QED BY <2>1, <2>2, <2>3, <2>4 DEF ChannelInv, WireOK
<1>3. ~dead /\ (ackPending' \/ AckSeq(recvNext') \in acks')
      <2>1. ~dead
            BY DEF RecvData, receiver
      <2>2. QED BY <2>1 DEF RecvData
<1>4. \A t \in DOMAIN buf \cup {f.seq} : t \in DOMAIN buf' \/ t < recvNext'
      <2>1. CASE f.seq < recvNext /\ UNCHANGED <<recvNext, buf>>
            BY <1>2, <2>1
      <2>2. CASE \E to \in Int : to >= recvNext /\ Advanced(f, to)
            <3>1. PICK to \in Int : to >= recvNext /\ Advanced(f, to)
                  BY <2>2
            <3>2. recvNext' = to /\ DOMAIN buf' = (DOMAIN buf \cup {f.seq}) \ recvNext..(to - 1)
                  BY <3>1 DEF Advanced
            <3>3. \A t \in recvNext..(to - 1) : t < to
                  BY <1>2, <3>1
            <3>4. QED BY <3>2, <3>3
      <2>3. QED BY <1>2, <1>3, <2>1, <2>2, FrameCases
<1>5. recvNext' >= recvNext
      <2>1. CASE UNCHANGED recvNext
            BY <1>2, <2>1
      <2>2. CASE \E to \in Int : to >= recvNext /\ recvNext' = to
            BY <2>2
      <2>3. QED BY <1>3, <2>1, <2>2, FrameCases DEF Advanced
<1>6. ASSUME NEW s \in Window, Coming(s) PROVE Coming(s)'
      <2>1. s \in 1..Len(wire) /\ End(s) \in Int /\ End(s) <= Len(wire)
            BY <1>2, EndProps
      <2>2. CASE s < recvNext'
            <3>1. AckSeq(recvNext') >= s
                  BY <1>2, <2>1, <2>2, AckCovers
            <3>2. QED BY <1>3, <2>2, <3>1 DEF Coming
      <2>3. CASE s >= recvNext'
            <3>1. s >= recvNext
                  BY <1>2, <1>5, <2>1, <2>3
            <3>2. ASSUME NEW t \in recvNext'..End(s)
                  PROVE  t \in DOMAIN buf' \/ wire[t] \in net'
                  <4>1. t \in recvNext..End(s) /\ t \in 1..Len(wire) /\ ~(t < recvNext')
                        BY <1>2, <1>5, <2>1
                  <4>2. CASE t \in DOMAIN buf \cup {f.seq}
                        BY <1>4, <4>1, <4>2
                  <4>3. CASE t \notin DOMAIN buf \cup {f.seq}
                        <5>1. wire[t] \in net
                              BY <1>2, <1>6, <2>1, <3>1, <4>1, <4>3 DEF Coming
                        <5>2. wire[t] # f
                              BY <1>2, <4>1, <4>3
                        <5>3. QED BY <1>1, <5>1, <5>2
                  <4>4. QED BY <4>2, <4>3
            <3>3. End(s)' = End(s)
                  BY <1>1 DEF End
            <3>4. QED BY <1>1, <2>3, <3>2, <3>3 DEF Coming
      <2>4. QED BY <1>2, <2>1, <2>2, <2>3
<1>7. QED BY <1>1, <1>6 DEF LossesOK

LEMMA ToleranceStep ==
    ASSUME ChannelInv, ChannelInv', ToleranceInv, [Next]_vars
    PROVE  ToleranceInv'
<1> SUFFICES ASSUME Patient, ~dead', lost' <= LossLimit
             PROVE  ~stalled' /\ LossesOK'
    BY DEF ToleranceInv
<1>1. lost \in Nat /\ LossLimit \in Nat /\ Len(wire) \in Nat
      BY LimitAssumption, LenProperties DEF ChannelInv, TypeOK
<1>2. ~dead /\ lost <= LossLimit
      <2>1. UNCHANGED lost \/ lost' = lost + 1
            BY DEF Next, Send, RecvAck, Timeout, PcTimeout, PhoneTimeout, RecvData,
                   FlushAck, Lose, vars, network
      <2>2. dead => dead'
            BY DEF Next, Send, RecvAck, Timeout, PcTimeout, PhoneTimeout, RecvData,
                   FlushAck, Lose, vars, receiver
      <2>3. QED BY <1>1, <2>1, <2>2
<1>3. ~stalled /\ LossesOK
      BY <1>2 DEF ToleranceInv
<1>4. CASE \E n \in Sizes : Send(n)
      BY <1>3, <1>4, SendTolerates DEF Send
<1>5. CASE \E a \in acks : RecvAck(a)
      BY <1>3, <1>5, RecvAckTolerates DEF RecvAck
<1>6. CASE Timeout
      BY <1>2, <1>3, <1>6, TimeoutTolerates
<1>7. CASE \E f \in net, duplicate \in BOOLEAN : RecvData(f, duplicate)
      <2>1. PICK f \in net, duplicate \in BOOLEAN : RecvData(f, duplicate)
            BY <1>7
      <2>2. UNCHANGED stalled
            BY <2>1, RecvDataCases DEF sender
      <2>3. LossesOK'
            BY <1>3, <2>1, RecvDataTolerates
      <2>4. QED BY <1>3, <2>2, <2>3
<1>8. CASE FlushAck
      BY <1>3, <1>8, FlushAckTolerates DEF FlushAck, sender
<1>9. CASE Lose
      BY <1>3, <1>9, LoseTolerates DEF Lose, sender
<1>10. CASE UNCHANGED vars
      BY <1>3, <1>10 DEF vars, sender, network, receiver, LossesOK, Coming, End, Window
<1>11. QED BY <1>4, <1>5, <1>6, <1>7, <1>8, <1>9, <1>10 DEF Next

(* While the RTO exceeds the round trip, the sender gives up only after more  *)
(* than LOSS_LIMIT losses, or when the receiver has died of its backlog:      *)
(* entries that time out because an earlier one is missing do not use up      *)
(* losses of their own (due_timeouts, Sender.retransmit).                     *)
THEOREM Tolerance == Spec => []ToleratesLosses
<1>1. Init => ToleranceInv
      BY DEF Init, ToleranceInv, LossesOK, Window
<1>2. ToleranceInv => ToleratesLosses
      BY DEF ToleranceInv, ToleratesLosses
<1>3. ChannelInv /\ ChannelInv' /\ ToleranceInv /\ [Next]_vars => ToleranceInv'
      BY ToleranceStep
<1>4. QED BY <1>1, <1>2, <1>3, ChannelInvariant, PTL DEF Spec
-----------------------------------------------------------------------------
(* The ring of sequence numbers.                                            *)

LEMMA DivMod ==
    ASSUME NEW R \in Nat \ {0}, NEW x \in Int
    PROVE  x % R \in 0..(R - 1) /\ x \div R \in Int /\ x = R * (x \div R) + (x % R)
OBVIOUS

LEMMA MultipleAtLeast ==
    ASSUME NEW R \in Nat \ {0}, NEW k \in Nat \ {0}
    PROVE  R * k \in Int /\ R * k >= R
OBVIOUS

LEMMA MultiplesApart ==
    ASSUME NEW R \in Nat \ {0}, NEW p \in Int, NEW q \in Int, p > q
    PROVE  R * p >= R * q + R
<1>1. p - q \in Nat \ {0}
      OBVIOUS
<1>2. R * (p - q) >= R
      BY <1>1, MultipleAtLeast
<1>3. R * (p - q) = R * p - R * q
      OBVIOUS
<1>4. R * p \in Int /\ R * q \in Int
      OBVIOUS
<1>5. QED BY <1>2, <1>3, <1>4

(* A remainder is what is left beside a multiple: there is only one. *)
LEMMA RemainderUnique ==
    ASSUME NEW R \in Nat \ {0}, NEW x \in Int, NEW q \in Int, NEW r \in 0..(R - 1),
           x = R * q + r
    PROVE  x % R = r
<1> DEFINE d == x \div R
           m == x % R
<1>1. m \in 0..(R - 1) /\ d \in Int /\ x = R * d + m
      BY DivMod
<1> HIDE DEF d, m
<1>2. R * d \in Int /\ R * q \in Int
      BY <1>1
<1>3. ~(d > q) /\ ~(q > d)
      BY <1>1, <1>2, MultiplesApart
<1>4. d = q
      BY <1>1, <1>3
<1>5. m = r
      BY <1>1, <1>2, <1>4
<1>6. QED BY <1>5 DEF m

(* wrapping_sub of two numbers less than a ring apart is their distance, *)
(* measured forwards.                                                    *)
LEMMA DistanceOnRing ==
    ASSUME NEW x \in Nat, NEW y \in Nat, x - y < Ring, y - x < Ring
    PROVE  /\ On(x) \in 0..(Ring - 1) /\ On(y) \in 0..(Ring - 1)
           /\ WrappingSub(On(x), On(y)) = IF x >= y THEN x - y ELSE x - y + Ring
           /\ On(x) = On(y) <=> x = y
<1> DEFINE px == Past + x
           py == Past + y
           dx == px \div Ring
           dy == py \div Ring
           mx == On(x)
           my == On(y)
<1>1. Ring \in Nat \ {0}
      BY QuarterAssumption DEF Ring
<1>2. /\ mx \in 0..(Ring - 1) /\ dx \in Int /\ px = Ring * dx + mx
      /\ my \in 0..(Ring - 1) /\ dy \in Int /\ py = Ring * dy + my
      <2>1. px \in Int /\ py \in Int
            BY PastAssumption
      <2>2. QED BY <1>1, <2>1, DivMod DEF On
<1>3. px \in Nat /\ py \in Nat /\ px - py = x - y /\ (px >= py <=> x >= y)
      BY PastAssumption
<1> HIDE DEF dx, dy, mx, my, px, py
<1>4. /\ Ring * dx \in Int /\ Ring * dy \in Int
      /\ Ring * (dy - dx) = Ring * dy - Ring * dx
      /\ Ring * (dy - dx + 1) = Ring * dy - Ring * dx + Ring
      BY <1>1, <1>2
<1>5. /\ x >= y => (mx - my) = Ring * (dy - dx) + (x - y)
      /\ x < y => (mx - my) = Ring * (dy - dx - 1) + (x - y + Ring)
      <2>1. Ring * (dy - dx - 1) = Ring * dy - Ring * dx - Ring
            BY <1>1, <1>2
      <2>2. QED BY <1>1, <1>2, <1>3, <1>4, <2>1
<1>6. WrappingSub(mx, my) = IF x >= y THEN x - y ELSE x - y + Ring
      <2>1. CASE x >= y
            <3>1. (mx - my) % Ring = x - y
                  <4>1. mx - my \in Int /\ dy - dx \in Int /\ x - y \in 0..(Ring - 1)
                        BY <1>1, <1>2, <2>1
                  <4>2. QED BY <1>1, <1>5, <2>1, <4>1, RemainderUnique
            <3>2. QED BY <2>1, <3>1 DEF WrappingSub
      <2>2. CASE x < y
            <3>1. (mx - my) % Ring = x - y + Ring
                  <4>1. /\ mx - my \in Int /\ dy - dx - 1 \in Int
                        /\ x - y + Ring \in 0..(Ring - 1)
                        BY <1>1, <1>2, <2>2
                  <4>2. QED BY <1>1, <1>5, <2>2, <4>1, RemainderUnique
            <3>2. QED BY <2>2, <3>1 DEF WrappingSub
      <2>3. QED BY <2>1, <2>2
<1>7. mx = my => x = y
      <2>1. ASSUME mx = my PROVE WrappingSub(mx, my) = 0
            <3>1. mx - my = Ring * 0 + 0 /\ 0 \in 0..(Ring - 1) /\ mx - my \in Int
                  BY <1>1, <1>2, <2>1
            <3>2. QED BY <1>1, <3>1, RemainderUnique DEF WrappingSub
      <2>2. QED BY <1>1, <1>6, <2>1
<1>8. x = y => mx = my
      BY DEF mx, my
<1>9. QED BY <1>2, <1>6, <1>7, <1>8 DEF mx, my

(* seq_le is right while the two are less than half the ring apart. *)
LEMMA SeqLeRight ==
    ASSUME NEW x \in Nat, NEW y \in Nat, x - y < Half, y - x < Half
    PROVE  SeqLe(On(x), On(y)) <=> x <= y
<1>1. Ring \in Nat /\ Half \in Nat /\ Ring = Half + Half
      BY QuarterAssumption DEF Ring, Half
<1>2. /\ WrappingSub(On(x), On(y)) = IF x >= y THEN x - y ELSE x - y + Ring
      /\ On(x) = On(y) <=> x = y
      BY <1>1, DistanceOnRing
<1>3. CASE x > y
      BY <1>1, <1>2, <1>3 DEF SeqLe
<1>4. CASE x <= y
      BY <1>1, <1>2, <1>4 DEF SeqLe
<1>5. QED BY <1>3, <1>4

(* inWindow tells a seq at or ahead of base, by less than a quarter, from one *)
(* behind it by no more than three quarters.                                 *)
LEMMA InWindowRight ==
    ASSUME NEW seq \in Nat, NEW base \in Nat,
           seq - base < Quarter, base - seq <= 3 * Quarter
    PROVE  InWindow(On(seq), On(base)) <=> seq >= base
<1>1. Ring \in Nat /\ Quarter \in Nat \ {0} /\ Ring = 3 * Quarter + Quarter
      BY QuarterAssumption DEF Ring
<1>2. WrappingSub(On(seq), On(base)) =
          IF seq >= base THEN seq - base ELSE seq - base + Ring
      BY <1>1, DistanceOnRing
<1>3. QED BY <1>1, <1>2 DEF InWindow

LEMMA RingAgreesHere == ChannelInv => RingAgrees
<1> SUFFICES ASSUME ChannelInv, Recent
             PROVE  /\ \A a \in acks : Window \ ReleasedOnRing(a) = Kept(a)
                    /\ \A f \in net : PhoneDrops(f) <=> f.seq < recvNext
    BY DEF RingAgrees
<1>1. /\ Quarter \in Nat \ {0} /\ Half = Quarter + Quarter
      /\ Len(wire) \in Nat /\ recvNext \in Nat /\ recvNext <= Len(wire) + 1
      BY QuarterAssumption, LenProperties DEF Half, ChannelInv, TypeOK, ReceiverOK
<1>2. \A s \in Window : s \in 1..Len(wire) /\ Len(wire) - s < Quarter
      BY DEF Recent, ChannelInv, WindowOK
<1>3. \A a \in acks : a \in 0..Len(wire) /\ Len(wire) - a < Quarter
      BY <1>1 DEF Recent, ChannelInv, TypeOK, NetworkOK
<1>4. \A f \in net : f.seq \in 1..Len(wire) /\ Len(wire) - f.seq < Quarter
      BY <1>1 DEF Recent, ChannelInv, TypeOK, NetworkOK, Frame
<1>5. ASSUME NEW a \in acks PROVE Window \ ReleasedOnRing(a) = Kept(a)
      <2>1. ASSUME NEW s \in Window PROVE SeqLe(On(s), On(a)) <=> s <= a
            <3>1. /\ s \in Nat /\ a \in Nat /\ s - a < Half /\ a - s < Half
                  BY <1>1, <1>2, <1>3
            <3>2. QED BY <3>1, SeqLeRight
      <2>2. \A s \in Window : ~(s <= a) <=> s > a
            BY <1>2, <1>3
      <2>3. QED BY <2>1, <2>2 DEF ReleasedOnRing, Kept
<1>6. ASSUME NEW f \in net PROVE PhoneDrops(f) <=> f.seq < recvNext
      \* what the receiver waits for is in the window, or nothing is missing
      <2>1. f.seq - recvNext < Quarter
            <3>1. CASE recvNext \in 1..Len(wire)
                  <4>1. recvNext \in Window
                        BY <1>1, <3>1 DEF ChannelInv, WindowOK, NoEarlyRelease
                  <4>2. QED BY <1>1, <1>2, <1>4, <4>1
            <3>2. CASE recvNext = Len(wire) + 1
                  BY <1>1, <1>4, <3>2
            <3>3. recvNext # 0
                  BY DEF ChannelInv, TypeOK
            <3>4. QED BY <1>1, <3>1, <3>2, <3>3
      <2>2. f.seq \in Nat /\ recvNext - f.seq <= 3 * Quarter
            BY <1>1, <1>4
      <2>3. InWindow(On(f.seq), On(recvNext)) <=> f.seq >= recvNext
            BY <1>1, <2>1, <2>2, InWindowRight
      <2>4. QED BY <1>1, <2>2, <2>3 DEF PhoneDrops
<1>7. QED BY <1>5, <1>6

(* The comparisons of both senders and of the phone's receiver decide on 32  *)
(* bits as the model does on numbers that never wrap, as long as nothing that *)
(* is in flight or unacknowledged is a quarter of the ring old.              *)
THEOREM RingSafety == Spec => []RingAgrees
BY ChannelInvariant, RingAgreesHere, PTL

LEMMA BelowRing ==
    ASSUME NEW n \in Nat, Past + n < Ring
    PROVE  On(n) = Past + n
<1>1. /\ Ring \in Nat \ {0} /\ Past + n \in 0..(Ring - 1)
      /\ Past + n = Ring * 0 + (Past + n)
      BY QuarterAssumption, PastAssumption DEF Ring
<1>2. QED BY <1>1, RemainderUnique DEF On

LEMMA SecondRound ==
    ASSUME NEW n \in Nat, Past + n >= Ring, Past + n < Ring + Ring
    PROVE  On(n) = Past + n - Ring
<1>1. /\ Ring \in Nat \ {0} /\ Past + n - Ring \in 0..(Ring - 1)
      /\ Past + n = Ring * 1 + (Past + n - Ring)
      BY QuarterAssumption, PastAssumption DEF Ring
<1>2. QED BY <1>1, RemainderUnique DEF On

LEMMA PcAgreesHere == ChannelInv => PcAgrees /\ PcDeafAtWrap
<1> SUFFICES ASSUME ChannelInv PROVE PcAgrees /\ PcDeafAtWrap
    OBVIOUS
<1>1. /\ Ring \in Nat /\ Len(wire) \in Nat /\ Past \in Nat
      /\ recvNext \in Nat /\ recvNext <= Len(wire) + 1
      BY QuarterAssumption, PastAssumption, LenProperties DEF Ring, ChannelInv, TypeOK, ReceiverOK
<1>2. \A f \in net : f.seq \in Nat /\ f.seq <= Len(wire)
      BY <1>1 DEF ChannelInv, TypeOK, NetworkOK, Frame
<1>3. PcAgrees
      <2>1. ASSUME Past + Len(wire) + 1 < Ring, NEW f \in net
            PROVE  PcDrops(f) <=> f.seq < recvNext
            <3>1. Past + f.seq < Ring /\ Past + recvNext < Ring
                  BY <1>1, <1>2, <2>1
            <3>2. On(f.seq) = Past + f.seq /\ On(recvNext) = Past + recvNext
                  BY <1>1, <1>2, <3>1, BelowRing
            <3>3. QED BY <1>1, <1>2, <3>2 DEF PcDrops
      <2>2. QED BY <2>1 DEF PcAgrees
<1>4. PcDeafAtWrap
      <2>1. ASSUME Past + recvNext < Ring, NEW f \in net,
                   Past + f.seq \in Ring..(Ring + Past + recvNext - 1)
            PROVE  PcDrops(f)
            <3>1. On(recvNext) = Past + recvNext
                  BY <1>1, <2>1, BelowRing
            <3>2. f.seq \in Nat /\ Past + f.seq >= Ring /\ Past + f.seq < Ring + Ring
                  BY <1>1, <1>2, <2>1
            <3>3. On(f.seq) = Past + f.seq - Ring
                  BY <3>2, SecondRound
            <3>4. Past + f.seq - Ring < Past + recvNext
                  BY <1>1, <1>2, <2>1
            <3>5. QED BY <3>1, <3>3, <3>4 DEF PcDrops
      <2>2. QED BY <2>1 DEF PcDeafAtWrap
<1>5. QED BY <1>3, <1>4

(* The plain comparison of the PC's on_frame is right up to the first wrap   *)
(* and takes everything behind it for a duplicate.                           *)
THEOREM PcUntilWrap == Spec => [](PcAgrees /\ PcDeafAtWrap)
BY ChannelInvariant, PcAgreesHere, PTL
=============================================================================
