---------------------------- MODULE MediaProofs ----------------------------
(***************************************************************************)
(* Theorems about MediaReassembly, for any threads, sizes and bounds: the    *)
(* decoder is shown whole frames in increasing order.                       *)
(***************************************************************************)
EXTENDS MediaReassembly, FiniteSetTheorems, TLAPS

HeadOf(d) == [msg |-> d.msg, seq |-> d.seq, total |-> d.total]
FrameOf(d) == [seq |-> d.seq, size |-> d.total]

(* The hypotheses under which a datagram is pushed, spelt out. *)
LEMMA Arrived ==
    ASSUME MediaInv, NEW d \in net
    PROVE  /\ d.msg \in Nat \ {0} /\ d.seq \in Nat \ {0} /\ d.frag \in Nat
           /\ d.total \in Nat \ {0} /\ d.frag < d.total
           /\ FrameOf(d) \in offered /\ d.total \in Sizes
           /\ \A m \in DOMAIN parts : m = d.msg <=> parts[m].seq = d.seq
           /\ d.msg \in DOMAIN parts => parts[d.msg].total = d.total
<1>1. /\ d.msg \in Nat \ {0} /\ d.seq \in Nat \ {0} /\ d.frag \in Nat
      /\ d.total \in Nat \ {0} /\ d.frag < d.total
      BY DEF MediaInv, TypeOK, HeadsOK, Datagram
<1>2. HeadOf(d) \in Heads
      BY DEF Heads, HeadOf
<1>3. FrameOf(d) \in offered
      BY <1>2 DEF MediaInv, HeadsOK, HeadOf, FrameOf
<1>4. d.total \in Sizes
      BY <1>3 DEF MediaInv, TypeOK, FrameOf
<1>5. ASSUME NEW m \in DOMAIN parts
      PROVE  /\ m = d.msg <=> parts[m].seq = d.seq
             /\ m = d.msg => parts[m].total = d.total
  <2> DEFINE h == [msg |-> m, seq |-> parts[m].seq, total |-> parts[m].total]
  <2>1. h \in Heads
        BY DEF Heads
  <2>2. m = d.msg <=> parts[m].seq = d.seq
        BY <1>2, <2>1 DEF MediaInv, HeadsOK, HeadOf
  <2>3. [seq |-> parts[m].seq, size |-> parts[m].total] \in offered
        BY <2>1 DEF MediaInv, HeadsOK
  <2>4. m = d.msg => parts[m].total = d.total
        BY <2>2, <2>3, <1>3 DEF MediaInv, NumbersOK, FrameOf
  <2>5. QED BY <2>2, <2>4
<1>6. QED BY <1>1, <1>3, <1>4, <1>5

(* What is not stale is newer than all that was shown. *)
LEMMA FreshIsNewer ==
    ASSUME MediaInv, NEW d \in net, ~Stale(d)
    PROVE  last < d.seq
<1>1. last \in Nat /\ d.seq \in Nat \ {0}
      BY Arrived DEF MediaInv, TypeOK
<1>2. d.seq # last
  <2> SUFFICES ASSUME d.seq = last PROVE FALSE
      OBVIOUS
  <2>1. d.msg \in DOMAIN parts
        BY <1>1 DEF Stale
  <2>2. parts[d.msg].seq = last
        BY <2>1, Arrived
  <2>3. QED BY <2>1, <2>2 DEF MediaInv, PartsOK
<1>3. QED BY <1>1, <1>2 DEF Stale

(* Fewer heads, and no new frame: the numbering stays in order. *)
LEMMA FewerHeads ==
    ASSUME MediaInv, net' \subseteq net, Heads' \subseteq Heads, UNCHANGED phone
    PROVE  NumbersOK' /\ HeadsOK'
BY DEF MediaInv, NumbersOK, HeadsOK, phone

(* Filled, field by field. *)
LEMMA FilledFields ==
    ASSUME NEW s, NEW t, NEW from, NEW n, NEW d, d.frag \notin DOMAIN from
    PROVE  Filled([seq |-> s, total |-> t, from |-> from, n |-> n], d)
           = [seq |-> s, total |-> t,
              from |-> [i \in DOMAIN from \cup {d.frag} |->
                            IF i = d.frag THEN d.seq ELSE from[i]],
              n |-> n + 1]
BY DEF Filled

(* What becomes of a frame when d is put in: it has fragments of its own, as many  *)
(* as it counts, and is whole when it counts them all.                           *)
Assembled(p, d) ==
    /\ p = [seq |-> d.seq, total |-> d.total, from |-> p.from, n |-> p.n]
    /\ p.from \in [DOMAIN p.from -> Nat]
    /\ DOMAIN p.from \subseteq 0..(d.total - 1)
    /\ \A i \in DOMAIN p.from : p.from[i] = d.seq
    /\ p.n = Cardinality(DOMAIN p.from) /\ p.n \in Nat /\ p.n <= d.total
    /\ p.n = d.total => p.from = [i \in 0..(d.total - 1) |-> d.seq]

(* A fragment put into its frame. *)
LEMMA FilledOK ==
    ASSUME MediaInv, NEW d \in net,
           NEW old, old = IF d.msg \in DOMAIN parts THEN parts[d.msg] ELSE NewPart(d),
           d.total > 1
    PROVE  Assembled(Filled(old, d), d)
<1> DEFINE p == Filled(old, d)
           all == 0..(d.total - 1)
<1>1. /\ d.seq \in Nat \ {0} /\ d.frag \in Nat /\ d.total \in Nat \ {0}
      /\ d.frag < d.total
      BY Arrived
<1>2. /\ old = [seq |-> d.seq, total |-> d.total, from |-> old.from, n |-> old.n]
      /\ old.from \in [DOMAIN old.from -> Nat]
      /\ DOMAIN old.from \subseteq all
      /\ \A i \in DOMAIN old.from : old.from[i] = d.seq
      /\ old.n = Cardinality(DOMAIN old.from)
  <2>1. CASE d.msg \in DOMAIN parts
    <3>1. old = parts[d.msg] /\ old.seq = d.seq /\ old.total = d.total
          BY <2>1, Arrived
    <3>2. QED BY <2>1, <3>1 DEF MediaInv, TypeOK, PartsOK
  <2>2. CASE d.msg \notin DOMAIN parts
    <3>1. old = [seq |-> d.seq, total |-> d.total, from |-> [i \in {} |-> 0], n |-> 0]
          BY <2>2 DEF NewPart
    <3>2. DOMAIN old.from = {} /\ old.from \in [DOMAIN old.from -> Nat]
      <4> DEFINE e == [i \in {} |-> 0]
      <4>1. DOMAIN e = {} /\ e \in [{} -> Nat]
            OBVIOUS
      <4>2. old.from = e
            BY <3>1
      <4> HIDE DEF e
      <4>3. QED BY <4>1, <4>2
    <3>3. old.n = Cardinality(DOMAIN old.from)
          BY <3>1, <3>2, FS_EmptySet
    <3>4. QED BY <3>1, <3>2, <3>3
  <2>3. QED BY <2>1, <2>2
<1>3. IsFiniteSet(all) /\ Cardinality(all) = d.total
  <2>1. 0 \in Int /\ d.total - 1 \in Int /\ ~(0 > d.total - 1)
        BY <1>1
  <2>2. /\ IsFiniteSet(0..(d.total - 1))
        /\ Cardinality(0..(d.total - 1)) = (d.total - 1) - 0 + 1
        BY ONLY <2>1, FS_Interval
  <2>3. QED BY <1>1, <2>2
<1>4. IsFiniteSet(DOMAIN old.from) /\ Cardinality(DOMAIN old.from) \in Nat
      BY <1>2, <1>3, FS_Subset, FS_CardinalityType
<1>5. /\ p = [seq |-> d.seq, total |-> d.total, from |-> p.from, n |-> p.n]
      /\ p.from \in [DOMAIN p.from -> Nat]
      /\ DOMAIN p.from = DOMAIN old.from \cup {d.frag}
      /\ \A i \in DOMAIN p.from : p.from[i] = d.seq
      /\ p.n = IF d.frag \in DOMAIN old.from THEN old.n ELSE old.n + 1
  <2>1. CASE d.frag \in DOMAIN old.from
        BY <2>1, <1>2 DEF Filled
  <2>2. CASE d.frag \notin DOMAIN old.from
    <3>1. p = [seq |-> d.seq, total |-> d.total,
               from |-> [i \in DOMAIN old.from \cup {d.frag} |->
                            IF i = d.frag THEN d.seq ELSE old.from[i]],
               n |-> old.n + 1]
          BY <2>2, <1>2, FilledFields
    <3>2. QED BY <3>1, <2>2, <1>1, <1>2
  <2>3. QED BY <2>1, <2>2
<1>6. p.n = Cardinality(DOMAIN p.from)
      BY <1>2, <1>4, <1>5, FS_AddElement
<1>7. DOMAIN p.from \subseteq all
      BY <1>1, <1>2, <1>5
<1>8. p.n \in Nat /\ p.n <= d.total
      BY <1>3, <1>6, <1>7, FS_Subset, FS_CardinalityType
<1>9. ASSUME p.n = d.total
      PROVE  p.from = [i \in all |-> d.seq]
  <2>1. DOMAIN p.from = all
        BY <1>9, <1>3, <1>6, <1>7, FS_Subset
  <2>2. QED BY <2>1, <1>5
<1>10. QED BY <1>5, <1>6, <1>7, <1>8, <1>9 DEF Assembled
-----------------------------------------------------------------------------
LEMMA InitInv == Init => MediaInv
<1> SUFFICES ASSUME Init PROVE MediaInv
    OBVIOUS
<1>1. TypeOK
      BY DEF Init, TypeOK
<1>2. Heads = {}
      BY DEF Init, Heads
<1>3. QED BY <1>1, <1>2 DEF Init, MediaInv, NumbersOK, HeadsOK, PartsOK, ShownOK

LEMMA TakeSeqInv ==
    ASSUME MediaInv, NEW t \in Threads, TakeSeq(t)
    PROVE  MediaInv'
<1>1. TypeOK'
      BY DEF MediaInv, TypeOK, TakeSeq, pc
<1>2. NumbersOK'
      BY DEF MediaInv, TypeOK, NumbersOK, TakeSeq
<1>3. HeadsOK'
      BY DEF MediaInv, HeadsOK, Heads, TakeSeq, pc
<1>4. PartsOK' /\ ShownOK'
      BY DEF MediaInv, PartsOK, ShownOK, TakeSeq, pc
<1>5. QED BY <1>1, <1>2, <1>3, <1>4 DEF MediaInv

LEMMA DropMediaInv ==
    ASSUME MediaInv, NEW t \in Threads, DropMedia(t)
    PROVE  MediaInv'
<1>1. TypeOK'
      BY DEF MediaInv, TypeOK, DropMedia, pc
<1>2. NumbersOK'
      BY DEF MediaInv, TypeOK, NumbersOK, DropMedia
<1>3. HeadsOK'
      BY DEF MediaInv, HeadsOK, Heads, DropMedia, pc
<1>4. PartsOK' /\ ShownOK'
      BY DEF MediaInv, PartsOK, ShownOK, DropMedia, pc
<1>5. QED BY <1>1, <1>2, <1>3, <1>4 DEF MediaInv

(* A frame is sent: its number and its message id are both new. *)
LEMMA SendMediaInv ==
    ASSUME MediaInv, NEW t \in Threads, NEW n \in Sizes, SendMedia(t, n)
    PROVE  MediaInv'
<1> DEFINE f == [seq |-> held[t], size |-> n]
           new == [msg |-> nextMsg, seq |-> held[t], total |-> n]
<1>1. /\ n \in Nat \ {0} /\ nextMsg \in Nat \ {0} /\ held[t] \in Nat \ {0}
      /\ held[t] < nextSeq /\ \A g \in offered : g.seq # held[t]
      BY SizesAssumption DEF MediaInv, TypeOK, NumbersOK, SendMedia
<1>2. offered' = offered \cup {f} /\ f \in [seq : Nat \ {0}, size : Sizes]
      BY <1>1 DEF SendMedia
<1>3. \A d \in Fragments(nextMsg, held[t], n) :
          /\ d \in Datagram /\ d.frag < d.total
          /\ [msg |-> d.msg, seq |-> d.seq, total |-> d.total] = new
      BY <1>1 DEF Fragments, Datagram
<1>4. TypeOK'
  <2>1. shown' \in Seq({Abstract!Whole(g) : g \in offered'})
        BY <1>2 DEF MediaInv, TypeOK, SendMedia, pc
  <2>2. held' \in [Threads -> Nat] /\ nextMsg' \in Nat \ {0}
        BY <1>1 DEF MediaInv, TypeOK, SendMedia
  <2>3. net' \subseteq Datagram /\ offered' \subseteq [seq : Nat \ {0}, size : Sizes]
        BY <1>2, <1>3 DEF MediaInv, TypeOK, SendMedia
  <2>4. QED BY <2>1, <2>2, <2>3 DEF MediaInv, TypeOK, SendMedia, pc
<1>5. NumbersOK'
  <2>1. held' = [held EXCEPT ![t] = 0] /\ nextSeq' = nextSeq
        BY DEF SendMedia
  <2>2. \A u \in Threads : held'[u] = IF u = t THEN 0 ELSE held[u]
        BY <2>1 DEF MediaInv, TypeOK
  <2>3. \A u \in Threads : u # t => held[u] # held[t]
        BY <1>1 DEF MediaInv, NumbersOK
  <2>4. QED BY <1>1, <1>2, <2>1, <2>2, <2>3 DEF MediaInv, TypeOK, NumbersOK
<1>6. HeadsOK'
  <2>1. Heads' \subseteq Heads \cup {new}
        BY <1>3 DEF Heads, SendMedia, pc
  <2>2. \A h \in Heads : h.msg < nextMsg /\ h.seq # held[t]
    <3>1. \A h \in Heads : [seq |-> h.seq, size |-> h.total] \in offered
          BY DEF MediaInv, HeadsOK
    <3>2. QED BY <1>1, <3>1 DEF MediaInv, HeadsOK
  <2>3. \A h \in Heads : h.msg \in Nat
        BY DEF MediaInv, TypeOK, Heads, Datagram
  <2>4. nextMsg' = nextMsg + 1
        BY DEF SendMedia
  <2>5. \A h \in Heads' :
            h.msg < nextMsg' /\ [seq |-> h.seq, size |-> h.total] \in offered'
    <3>1. ASSUME NEW h \in Heads
          PROVE  h.msg < nextMsg' /\ [seq |-> h.seq, size |-> h.total] \in offered'
          BY <1>1, <1>2, <2>2, <2>3, <2>4 DEF MediaInv, HeadsOK
    <3>2. new.msg < nextMsg' /\ [seq |-> new.seq, size |-> new.total] \in offered'
          BY <1>1, <1>2, <2>4
    <3> HIDE DEF new
    <3>3. QED BY <2>1, <3>1, <3>2
  <2>6. \A h, g \in Heads' : h.msg = g.msg <=> h.seq = g.seq
        BY <1>1, <2>1, <2>2, <2>3 DEF MediaInv, HeadsOK
  <2>7. \A d \in net' : d.frag < d.total
        BY <1>3 DEF MediaInv, HeadsOK, SendMedia
  <2>8. QED BY <2>5, <2>6, <2>7 DEF HeadsOK
<1>7. PartsOK' /\ ShownOK'
      BY DEF MediaInv, PartsOK, ShownOK, SendMedia, pc
<1>8. QED BY <1>4, <1>5, <1>6, <1>7 DEF MediaInv
-----------------------------------------------------------------------------
(* A whole frame goes to the decoder: it is the newest of all so far, and the   *)
(* part it was put together in, if any, is gone.                             *)
LEMMA EmitInv ==
    ASSUME MediaInv, NEW d \in net, ~Stale(d),
           Emit(d.seq, [i \in 0..(d.total - 1) |-> d.seq]),
           parts' = Without(d.msg), net' \subseteq net,
           UNCHANGED <<phone, damaged, losses>>
    PROVE  MediaInv'
<1> DEFINE w == [seq |-> d.seq, from |-> [i \in 0..(d.total - 1) |-> d.seq]]
<1>1. /\ d.seq \in Nat \ {0} /\ last < d.seq /\ FrameOf(d) \in offered
      /\ \A m \in DOMAIN parts : m # d.msg => parts[m].seq # d.seq
      BY Arrived, FreshIsNewer
<1>2. last' = d.seq /\ shown' = Append(shown, w)
      BY DEF Emit
<1>3. /\ DOMAIN parts' = DOMAIN parts \ {d.msg}
      /\ \A m \in DOMAIN parts' : parts'[m] = parts[m]
      BY DEF Without
<1>4. w = Abstract!Whole(FrameOf(d))
      BY DEF Abstract!Whole, FrameOf
<1>5. TypeOK'
  <2>1. shown' \in Seq({Abstract!Whole(f) : f \in offered'})
        BY <1>1, <1>2, <1>4 DEF MediaInv, TypeOK, phone
  <2>2. QED BY <1>1, <1>2, <1>3, <2>1 DEF MediaInv, TypeOK, phone
<1>6. NumbersOK' /\ HeadsOK'
  <2>1. Heads' \subseteq Heads
        BY <1>3 DEF Heads
  <2>2. QED BY <2>1, FewerHeads
<1>7. PartsOK'
      BY <1>1, <1>2, <1>3 DEF MediaInv, PartsOK
<1>8. ShownOK'
  <2>1. shown \in Seq({Abstract!Whole(f) : f \in offered})
        BY DEF MediaInv, TypeOK
  <2>2. ASSUME NEW i \in 1..Len(shown)
        PROVE  shown[i].seq \in Nat /\ shown[i].seq <= last
        BY <2>1 DEF MediaInv, TypeOK, ShownOK, Abstract!Whole
  <2>3. last \in Nat
        BY DEF MediaInv, TypeOK
  <2>4. QED BY <1>1, <1>2, <2>1, <2>2, <2>3 DEF ShownOK
<1>9. QED BY <1>5, <1>6, <1>7, <1>8 DEF MediaInv

LEMMA PushStaleInv ==
    ASSUME MediaInv, NEW d \in net, PushStale(d), net' \subseteq net,
           UNCHANGED <<phone, damaged, losses>>
    PROVE  MediaInv'
<1>1. TypeOK'
      BY DEF MediaInv, TypeOK, PushStale, pc, phone
<1>2. NumbersOK' /\ HeadsOK'
  <2>1. Heads' \subseteq Heads
        BY DEF Heads, PushStale, pc
  <2>2. QED BY <2>1, FewerHeads
<1>3. PartsOK' /\ ShownOK'
      BY DEF MediaInv, PartsOK, ShownOK, PushStale, pc
<1>4. QED BY <1>1, <1>2, <1>3 DEF MediaInv

LEMMA PushSingleInv ==
    ASSUME MediaInv, NEW d \in net, PushSingle(d), net' \subseteq net,
           UNCHANGED <<phone, damaged, losses>>
    PROVE  MediaInv'
<1>1. {0} = 0..(d.total - 1)
      BY DEF PushSingle
<1>2. Emit(d.seq, [i \in 0..(d.total - 1) |-> d.seq])
      BY <1>1 DEF PushSingle
<1>3. QED BY <1>2, EmitInv DEF PushSingle

(* A fragment is put away, or completes its frame.                            *)
LEMMA PushFragmentInv ==
    ASSUME MediaInv, NEW d \in net, PushFragment(d), net' \subseteq net,
           UNCHANGED <<phone, damaged, losses>>
    PROVE  MediaInv'
<1>0. PICK old : old = IF d.msg \in DOMAIN parts THEN parts[d.msg] ELSE NewPart(d)
      OBVIOUS
<1> DEFINE p == Filled(old, d)
<1>1. ~Stale(d) /\ d.total > 1
      BY DEF PushFragment
<1>2. /\ d.msg \in Nat \ {0} /\ d.seq \in Nat \ {0} /\ d.total \in Nat \ {0}
      /\ last < d.seq
      BY <1>1, Arrived, FreshIsNewer
<1>3. Assembled(p, d)
      BY <1>0, <1>1, FilledOK
<1>4. \/ p.n = p.total /\ Emit(p.seq, p.from) /\ parts' = Without(d.msg)
      \/ /\ p.n # p.total
         /\ parts' = [k \in DOMAIN parts \cup {d.msg} |->
                           IF k = d.msg THEN p ELSE parts[k]]
         /\ UNCHANGED <<last, shown>>
      BY <1>0 DEF PushFragment
<1> HIDE DEF p
<1>5. /\ p.seq = d.seq /\ p.total = d.total
      /\ p = [seq |-> p.seq, total |-> p.total, from |-> p.from, n |-> p.n]
      BY <1>3 DEF Assembled
<1>6. CASE p.n = p.total /\ Emit(p.seq, p.from) /\ parts' = Without(d.msg)
  <2>1. Emit(d.seq, [i \in 0..(d.total - 1) |-> d.seq])
        BY <1>3, <1>5, <1>6 DEF Assembled
  <2>2. QED BY <1>1, <1>6, <2>1, EmitInv
<1>7. CASE /\ p.n # p.total
           /\ parts' = [k \in DOMAIN parts \cup {d.msg} |->
                             IF k = d.msg THEN p ELSE parts[k]]
           /\ UNCHANGED <<last, shown>>
  <2>1. /\ DOMAIN parts' = DOMAIN parts \cup {d.msg} /\ parts'[d.msg] = p
        /\ \A m \in DOMAIN parts' : m # d.msg => m \in DOMAIN parts /\ parts'[m] = parts[m]
        BY <1>7
  <2>2. TypeOK'
        BY <1>2, <1>3, <1>5, <1>7, <2>1 DEF MediaInv, TypeOK, phone, Assembled
  <2>3. NumbersOK' /\ HeadsOK'
    <3>1. [msg |-> d.msg, seq |-> d.seq, total |-> d.total] \in Heads
          BY DEF Heads
    <3>2. Heads' \subseteq Heads
          BY <1>5, <2>1, <3>1 DEF Heads
    <3>3. QED BY <3>2, FewerHeads
  <2>4. PartsOK'
    <3>1. last \in Nat /\ p.n < p.total
          BY <1>2, <1>3, <1>5, <1>7 DEF MediaInv, TypeOK, Assembled
    <3>2. QED BY <1>2, <1>3, <1>5, <1>7, <2>1, <3>1 DEF MediaInv, PartsOK, Assembled
  <2>5. ShownOK'
        BY <1>7 DEF MediaInv, ShownOK
  <2>6. QED BY <2>2, <2>3, <2>4, <2>5 DEF MediaInv
<1>8. QED BY <1>4, <1>6, <1>7

LEMMA SweepInv ==
    ASSUME MediaInv, NEW m \in DOMAIN parts, Sweep(m)
    PROVE  MediaInv'
<1>1. /\ DOMAIN parts' \subseteq DOMAIN parts
      /\ \A k \in DOMAIN parts' : parts'[k] = parts[k]
      BY DEF Sweep, Without
<1>2. TypeOK'
  <2> DEFINE s == parts[m].seq
  <2>0. damaged \subseteq Nat /\ losses \in Nat /\ s \in Nat
        BY DEF MediaInv, TypeOK
  <2>1. damaged' \subseteq Nat /\ losses' \in Nat
    <3>1. damaged' = damaged \cup {s} /\ losses' = losses + 1
          BY DEF Sweep
    <3> HIDE DEF s
    <3>2. QED BY <2>0, <3>1
  <2>2. UNCHANGED <<nextSeq, nextMsg, held, offered, net, last, shown>>
        BY DEF Sweep, phone
  <2>3. QED BY <1>1, <2>1, <2>2 DEF MediaInv, TypeOK
<1>3. NumbersOK' /\ HeadsOK'
  <2>1. Heads' \subseteq Heads
        BY <1>1 DEF Heads, Sweep
  <2>2. QED BY <2>1, FewerHeads DEF Sweep
<1>4. PartsOK' /\ ShownOK'
      BY <1>1 DEF MediaInv, PartsOK, ShownOK, Sweep
<1>5. QED BY <1>2, <1>3, <1>4 DEF MediaInv

LEMMA LoseInv ==
    ASSUME MediaInv, NEW d \in net, Lose(d)
    PROVE  MediaInv'
<1>1. TypeOK'
  <2> DEFINE s == d.seq
  <2>0. damaged \subseteq Nat /\ losses \in Nat /\ s \in Nat /\ net \subseteq Datagram
        BY DEF MediaInv, TypeOK, Datagram
  <2>1. damaged' \subseteq Nat /\ losses' \in Nat /\ net' \subseteq Datagram
    <3>1. damaged' = damaged \cup {s} /\ losses' = losses + 1 /\ net' = net \ {d}
          BY DEF Lose
    <3> HIDE DEF s
    <3>2. QED BY <2>0, <3>1
  <2>2. UNCHANGED <<nextSeq, nextMsg, held, offered, last, parts, shown>>
        BY DEF Lose, phone, pc
  <2>3. QED BY <2>1, <2>2 DEF MediaInv, TypeOK
<1>2. NumbersOK' /\ HeadsOK'
  <2>1. Heads' \subseteq Heads /\ net' \subseteq net
        BY DEF Heads, Lose, pc
  <2>2. QED BY <2>1, FewerHeads DEF Lose
<1>3. PartsOK' /\ ShownOK'
      BY DEF MediaInv, PartsOK, ShownOK, Lose, pc
<1>4. QED BY <1>1, <1>2, <1>3 DEF MediaInv

LEMMA NextInv == MediaInv /\ [Next]_vars => MediaInv'
<1> SUFFICES ASSUME MediaInv, [Next]_vars PROVE MediaInv'
    OBVIOUS
<1>1. CASE \E t \in Threads :
              TakeSeq(t) \/ DropMedia(t) \/ \E n \in Sizes : SendMedia(t, n)
      BY <1>1, TakeSeqInv, DropMediaInv, SendMediaInv
<1>2. CASE \E d \in net : Lose(d)
      BY <1>2, LoseInv
<1>3. CASE \E d \in net : \E duplicate \in BOOLEAN : Push(d, duplicate)
  <2>1. PICK d \in net, duplicate \in BOOLEAN : Push(d, duplicate)
        BY <1>3
  <2>2. net' \subseteq net /\ UNCHANGED <<phone, damaged, losses>>
        BY <2>1 DEF Push
  <2>3. CASE PushStale(d)
        BY <2>2, <2>3, PushStaleInv
  <2>4. CASE PushSingle(d)
        BY <2>2, <2>4, PushSingleInv
  <2>5. CASE PushFragment(d)
        BY <2>2, <2>5, PushFragmentInv
  <2>6. QED BY <2>1, <2>3, <2>4, <2>5 DEF Push
<1>4. CASE \E m \in DOMAIN parts : Sweep(m)
      BY <1>4, SweepInv
<1>5. CASE UNCHANGED vars
  <2>1. Heads' = Heads
        BY <1>5 DEF vars, phone, pc, Heads
  <2>2. QED BY <1>5, <2>1 DEF vars, phone, pc, MediaInv, TypeOK, NumbersOK, HeadsOK,
                              PartsOK, ShownOK
<1>6. QED BY <1>1, <1>2, <1>3, <1>4, <1>5 DEF Next

(* The numbers a stream runs on are used once, and a frame in the reassembler    *)
(* holds fragments of its own only (ClientConnection.sendMedia, codec.rs push). *)
THEOREM MediaInvariant == Spec => []MediaInv
<1>1. Init => MediaInv
      BY InitInv
<1>2. MediaInv /\ [Next]_vars => MediaInv'
      BY NextInv
<1>3. QED BY <1>1, <1>2, PTL DEF Spec
-----------------------------------------------------------------------------
(* A frame shown is a step of the abstract stream.                            *)
LEMMA EmitShows ==
    ASSUME MediaInv, NEW d \in net, ~Stale(d), UNCHANGED phone,
           Emit(d.seq, [i \in 0..(d.total - 1) |-> d.seq])
    PROVE  Abstract!Show
<1> DEFINE f == FrameOf(d)
<1>1. f \in offered /\ last < d.seq /\ d.seq \in Nat /\ last \in Nat
      BY Arrived, FreshIsNewer DEF MediaInv, TypeOK
<1>2. shown' = Append(shown, Abstract!Whole(f))
      BY DEF Emit, Abstract!Whole, FrameOf
<1>3. ASSUME NEW i \in 1..Len(shown)
      PROVE  shown[i].seq < f.seq
  <2>1. shown[i].seq \in Nat /\ shown[i].seq <= last
        BY DEF MediaInv, TypeOK, ShownOK, Abstract!Whole
  <2>2. QED BY <1>1, <2>1 DEF FrameOf
<1>4. QED BY <1>1, <1>2, <1>3 DEF Abstract!Show, phone

(* Of all steps, only a send and an emission concern the abstract stream.       *)
LEMMA StepRefines ==
    MediaInv /\ [Next]_vars => [Abstract!Next]_(Abstract!vars)
<1> SUFFICES ASSUME MediaInv, [Next]_vars
             PROVE  Abstract!Next \/ UNCHANGED Abstract!vars
    OBVIOUS
<1>1. CASE \E t \in Threads : TakeSeq(t) \/ DropMedia(t)
      BY <1>1 DEF TakeSeq, DropMedia, pc, Abstract!vars
<1>2. CASE \E t \in Threads : \E n \in Sizes : SendMedia(t, n)
  <2>1. PICK t \in Threads, n \in Sizes : SendMedia(t, n)
        BY <1>2
  <2> DEFINE f == [seq |-> held[t], size |-> n]
  <2>2. /\ offered' = offered \cup {f} /\ f \notin offered
        /\ \A g \in offered : f.seq # g.seq
        BY <2>1 DEF SendMedia, MediaInv, NumbersOK
  <2>3. shown' = shown
        BY <2>1 DEF SendMedia, pc
  <2>4. Abstract!Offer
        BY <2>2, <2>3 DEF Abstract!Offer
  <2>5. QED BY <2>4 DEF Abstract!Next
<1>3. CASE \E d \in net : Lose(d)
      BY <1>3 DEF Lose, phone, pc, Abstract!vars
<1>4. CASE \E d \in net : \E duplicate \in BOOLEAN : Push(d, duplicate)
  <2>1. PICK d \in net, duplicate \in BOOLEAN : Push(d, duplicate)
        BY <1>4
  <2>2. UNCHANGED phone
        BY <2>1 DEF Push
  <2>3. CASE PushStale(d)
        BY <2>2, <2>3 DEF PushStale, phone, pc, Abstract!vars
  <2>4. CASE PushSingle(d)
    <3>1. {0} = 0..(d.total - 1)
          BY <2>4 DEF PushSingle
    <3>2. ~Stale(d) /\ Emit(d.seq, [i \in 0..(d.total - 1) |-> d.seq])
          BY <2>4, <3>1 DEF PushSingle
    <3>3. QED BY <2>2, <3>2, EmitShows DEF Abstract!Next
  <2>5. CASE PushFragment(d)
    <3>1. PICK old : old = IF d.msg \in DOMAIN parts THEN parts[d.msg] ELSE NewPart(d)
          OBVIOUS
    <3> DEFINE p == Filled(old, d)
    <3>2. ~Stale(d) /\ d.total > 1
          BY <2>5 DEF PushFragment
    <3>3. /\ p.seq = d.seq /\ p.total = d.total
          /\ p.n = d.total => p.from = [i \in 0..(d.total - 1) |-> d.seq]
          BY <3>1, <3>2, FilledOK DEF Assembled
    <3>4. (p.n = p.total /\ Emit(p.seq, p.from)) \/ UNCHANGED shown
          BY <2>5, <3>1 DEF PushFragment
    <3> HIDE DEF p
    <3>5. CASE p.n = p.total /\ Emit(p.seq, p.from)
      <4>1. Emit(d.seq, [i \in 0..(d.total - 1) |-> d.seq])
            BY <3>3, <3>5
      <4>2. QED BY <2>2, <3>2, <4>1, EmitShows DEF Abstract!Next
    <3>6. CASE UNCHANGED shown
          BY <2>2, <3>6 DEF phone, Abstract!vars
    <3>7. QED BY <3>4, <3>5, <3>6
  <2>6. QED BY <2>1, <2>3, <2>4, <2>5 DEF Push
<1>5. CASE \E m \in DOMAIN parts : Sweep(m)
      BY <1>5 DEF Sweep, phone, Abstract!vars
<1>6. CASE UNCHANGED vars
      BY <1>6 DEF vars, phone, pc, Abstract!vars
<1>7. QED BY <1>1, <1>2, <1>3, <1>4, <1>5, <1>6 DEF Next

(* The reassembler shows the decoder whole frames, each newer than those before,  *)
(* whatever the network loses, doubles or reorders (codec.rs push, sweep).       *)
THEOREM MediaImplements == Spec => ImplementsStream
<1>1. Init => Abstract!Init
      BY DEF Init, Abstract!Init
<1>2. MediaInv /\ [Next]_vars => [Abstract!Next]_(Abstract!vars)
      BY StepRefines
<1>3. QED BY <1>1, <1>2, MediaInvariant, PTL DEF Spec, ImplementsStream, Abstract!Spec
=============================================================================
