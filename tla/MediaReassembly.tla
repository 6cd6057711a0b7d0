-------------------------- MODULE MediaReassembly --------------------------
(***************************************************************************)
(* One media stream from the phone's sendMedia to the MediaReassembler of   *)
(* kulua-proto/src/codec.rs.  Several threads of the phone may send at once *)
(* (a capture that outlived its join, and its successor): each takes a      *)
(* sequence number, then a message id, then sends the fragments.            *)
(*                                                                         *)
(* Datagrams are lost, duplicated and reordered.  A datagram carries its    *)
(* frame's numbers; its payload is known by them.  Numbers do not wrap, and  *)
(* the phone sends no datagram with frag >= total, so that a message id      *)
(* never meets two sequence numbers.                                        *)
(***************************************************************************)
EXTENDS Integers, Sequences, FiniteSets

CONSTANTS Threads,     \* the phone's threads that send on the stream
          Sizes,       \* fragment counts of frames
          MaxFrames,   \* bound: frames sent
          MaxLosses    \* bound: datagrams lost and parts swept

ASSUME SizesAssumption == Sizes \subseteq Nat \ {0}
ASSUME BoundsAssumption == MaxFrames \in Nat /\ MaxLosses \in Nat

VARIABLES
    nextSeq,    \* ClientConnection.mediaSeq
    nextMsg,    \* ClientConnection.mediaMsgId
    held,       \* the seq a thread has taken and not yet sent under, or 0
    offered,    \* every frame sent so far
    net,        \* datagrams under way
    last,       \* last_seq of the reassembler
    parts,      \* msg_id -> the frame being put together
    shown,      \* what push has returned
    damaged,    \* seqs of frames that lost a datagram or were swept
    losses      \* how often that has happened

phone  == <<nextSeq, nextMsg, held, offered>>
pc     == <<last, parts, shown>>
vars   == <<phone, net, pc, damaged, losses>>

Abstract == INSTANCE MediaStream

Datagram == [msg : Nat \ {0}, seq : Nat \ {0}, frag : Nat, total : Nat \ {0}]

Init ==
    /\ nextSeq = 1 /\ nextMsg = 1 /\ held = [t \in Threads |-> 0]
    /\ offered = {} /\ net = {}
    /\ last = 0 /\ parts = <<>> /\ shown = <<>>
    /\ damaged = {} /\ losses = 0
-----------------------------------------------------------------------------
(* nextMediaSeq, evaluated before the call of sendMedia. *)
TakeSeq(t) ==
    /\ held[t] = 0 /\ nextSeq <= MaxFrames
    /\ held' = [held EXCEPT ![t] = nextSeq]
    /\ nextSeq' = nextSeq + 1
    /\ UNCHANGED <<nextMsg, offered, net, pc, damaged, losses>>

Fragments(m, s, n) ==
    {[msg |-> m, seq |-> s, frag |-> i, total |-> n] : i \in 0..(n - 1)}

(* sendMedia: one message id for all fragments of the frame. *)
SendMedia(t, n) ==
    /\ held[t] # 0
    /\ nextMsg' = nextMsg + 1
    /\ offered' = offered \cup {[seq |-> held[t], size |-> n]}
    /\ net' = net \cup Fragments(nextMsg, held[t], n)
    /\ held' = [held EXCEPT ![t] = 0]
    /\ UNCHANGED <<nextSeq, pc, damaged, losses>>

(* sendMedia before the viewer's OPEN has come: the frame is dropped.  (So is   *)
(* a number of the shared counter that went to the connection's other stream.) *)
DropMedia(t) ==
    /\ held[t] # 0
    /\ held' = [held EXCEPT ![t] = 0]
    /\ UNCHANGED <<nextSeq, nextMsg, offered, net, pc, damaged, losses>>
-----------------------------------------------------------------------------
(* Mutants of Stale: only what equals the last is; what is older than a frame  *)
(* that has merely begun is, too.                                            *)
StaleEqual(d) == d.seq = last /\ last # 0 /\ d.msg \notin DOMAIN parts
StaleBegun(d) ==
    \/ d.seq < last
    \/ d.seq = last /\ last # 0 /\ d.msg \notin DOMAIN parts
    \/ \E m \in DOMAIN parts : d.seq < parts[m].seq

(* A frame as new as the last one shown, or older. *)
Stale(d) ==
    \/ d.seq < last
    \/ d.seq = last /\ last # 0 /\ d.msg \notin DOMAIN parts

NewPart(d) == [seq |-> d.seq, total |-> d.total, from |-> [i \in {} |-> 0], n |-> 0]

(* Mutant of Filled: a repeated fragment is counted again.                   *)
FilledTwice(p, d) ==
    [p EXCEPT !.from = [i \in DOMAIN @ \cup {d.frag} |-> IF i = d.frag THEN d.seq ELSE @[i]],
              !.n = @ + 1]

(* A fragment is put into its frame, and counted, once. *)
Filled(p, d) ==
    IF d.frag \in DOMAIN p.from THEN p
    ELSE [p EXCEPT !.from = [i \in DOMAIN @ \cup {d.frag} |->
                                 IF i = d.frag THEN d.seq ELSE @[i]],
                   !.n = @ + 1]

Without(m) == [k \in DOMAIN parts \ {m} |-> parts[k]]

Emit(s, from) ==
    /\ last' = s
    /\ shown' = Append(shown, [seq |-> s, from |-> from])

(* push *)
PushStale(d) == Stale(d) /\ UNCHANGED pc

PushSingle(d) ==
    /\ ~Stale(d) /\ d.total = 1
    /\ Emit(d.seq, [i \in {0} |-> d.seq])
    /\ parts' = Without(d.msg)

(* A fragment of a longer frame; a message id never stands for two frames       *)
(* (HeadsOK), so the branch for that case is left out.                       *)
PushFragment(d) ==
    LET old == IF d.msg \in DOMAIN parts THEN parts[d.msg] ELSE NewPart(d)
        p   == Filled(old, d) IN
    /\ ~Stale(d) /\ d.total > 1
    /\ \/ /\ p.n = p.total
          /\ Emit(p.seq, p.from)
          /\ parts' = Without(d.msg)
       \/ /\ p.n # p.total
          /\ parts' = [k \in DOMAIN parts \cup {d.msg} |->
                           IF k = d.msg THEN p ELSE parts[k]]
          /\ UNCHANGED <<last, shown>>

Push(d, duplicate) ==
    /\ d \in net
    /\ net' = IF duplicate THEN net ELSE net \ {d}
    /\ PushStale(d) \/ PushSingle(d) \/ PushFragment(d)
    /\ UNCHANGED <<phone, damaged, losses>>

(* sweep: a frame without progress for MEDIA_SWEEP is dropped. *)
Sweep(m) ==
    /\ m \in DOMAIN parts /\ losses < MaxLosses
    /\ parts' = Without(m)
    /\ damaged' = damaged \cup {parts[m].seq} /\ losses' = losses + 1
    /\ UNCHANGED <<phone, net, last, shown>>

Lose(d) ==
    /\ d \in net /\ losses < MaxLosses
    /\ net' = net \ {d}
    /\ damaged' = damaged \cup {d.seq} /\ losses' = losses + 1
    /\ UNCHANGED <<phone, pc>>
-----------------------------------------------------------------------------
Next ==
    \/ \E t \in Threads : TakeSeq(t) \/ DropMedia(t) \/ \E n \in Sizes : SendMedia(t, n)
    \/ \E d \in net : Lose(d) \/ \E duplicate \in BOOLEAN : Push(d, duplicate)
    \/ \E m \in DOMAIN parts : Sweep(m)

Spec == Init /\ [][Next]_vars

(* A datagram that is not lost arrives. *)
Fairness ==
    \A s \in 1..MaxFrames :
        WF_vars(\E d \in net : d.seq = s /\ Push(d, FALSE))

FairSpec == Spec /\ Fairness
-----------------------------------------------------------------------------
(* The type invariant; parts hold frames, the decoder is shown frames offered.  *)
TypeOK ==
    /\ nextSeq \in Nat \ {0} /\ nextMsg \in Nat \ {0}
    /\ held \in [Threads -> Nat]
    /\ offered \subseteq [seq : Nat \ {0}, size : Sizes]
    /\ net \subseteq Datagram /\ last \in Nat
    /\ DOMAIN parts \subseteq Nat \ {0}
    /\ \A m \in DOMAIN parts :
          /\ parts[m] = [seq |-> parts[m].seq, total |-> parts[m].total,
                         from |-> parts[m].from, n |-> parts[m].n]
          /\ parts[m].seq \in Nat \ {0} /\ parts[m].total \in Nat \ {0}
          /\ parts[m].n \in Nat /\ parts[m].from \in [DOMAIN parts[m].from -> Nat]
    /\ shown \in Seq({Abstract!Whole(f) : f \in offered})
    /\ damaged \subseteq Nat /\ losses \in Nat

(* A sequence number is taken once, and used for one frame.                   *)
NumbersOK ==
    /\ \A t \in Threads :
          /\ held[t] < nextSeq
          /\ \A f \in offered : f.seq # held[t]
          /\ \A u \in Threads : held[t] = held[u] /\ held[t] # 0 => t = u
    /\ \A f \in offered : f.seq < nextSeq
    /\ \A f, g \in offered : f.seq = g.seq => f = g

(* Message ids and sequence numbers stand for each other, on the way and in   *)
(* the reassembler.                                                          *)
Heads ==
    {[msg |-> d.msg, seq |-> d.seq, total |-> d.total] : d \in net}
    \cup {[msg |-> m, seq |-> parts[m].seq, total |-> parts[m].total] : m \in DOMAIN parts}
HeadsOK ==
    /\ \A h \in Heads :
          h.msg < nextMsg /\ [seq |-> h.seq, size |-> h.total] \in offered
    /\ \A h, g \in Heads : h.msg = g.msg <=> h.seq = g.seq
    /\ \A d \in net : d.frag < d.total

(* A frame under way to the decoder holds fragments of its own, as many as it  *)
(* has counted, and not all.                                                 *)
PartsOK ==
    \A m \in DOMAIN parts :
        LET p == parts[m] IN
        /\ DOMAIN p.from \subseteq 0..(p.total - 1)
        /\ \A i \in DOMAIN p.from : p.from[i] = p.seq
        /\ p.n = Cardinality(DOMAIN p.from) /\ p.n < p.total
        /\ p.seq # last

ShownOK == \A i \in 1..Len(shown) : shown[i].seq <= last

(* The inductive invariant of sendMedia, push and sweep together.             *)
MediaInv == TypeOK /\ NumbersOK /\ HeadsOK /\ PartsOK /\ ShownOK

(* What push returns is whole, of one frame, and newer than all it returned     *)
(* before, whatever is lost, doubled or reordered.                           *)
ImplementsStream == Abstract!Spec

(* A frame that loses nothing and is not swept is returned by push, unless a    *)
(* newer one has been.                                                       *)
ShownOrOvertaken ==
    \A s \in 1..MaxFrames :
        (\E f \in offered : f.seq = s) ~> (last >= s \/ s \in damaged)
=============================================================================
