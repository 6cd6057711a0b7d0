------------------------------ MODULE AudioProofs ------------------------------
(***************************************************************************)
(* Theorems about AudioControl, for any codecs, any number of switches, faults  *)
(* and retries: a revision stands for one codec everywhere, no frame meets a    *)
(* decoder made for another, and "on" and "off" are the phone's answers.        *)
(***************************************************************************)
EXTENDS AudioControl, TLAPS

Links    == [applied : Targets, plan : Plans, pending : Int, rescues : Int, state : States]
Events   == [kind : {"config", "frame"}, rev : Nat, codec : Codecs]
Captures == [rev : Nat, codec : Codecs, failed : BOOLEAN, stale : BOOLEAN,
             phase : {"starting", "recording", "flowing", "backoff", "hung"}]
Players  == [codec : Codecs, config : Frames \cup {NoFrame}]

(* The task's configuration and player are those of its plan, and what it is     *)
(* decoding is of its plan.                                                  *)
Made(player) == /\ player.codec = task.plan.codec
                /\ task.plan.codec \in NeedsConfig =>
                      player.config = task.config /\ task.config # NoFrame
TaskOK ==
    /\ task.config \in {NoFrame, RevOf(task.plan)}
    /\ task.player = NoPlayer \/ Made(task.player)
    /\ decoding # NoFrame => decoding = RevOf(task.plan) /\ Made(task.player)

(* Commands are in the order of their revisions; what is for the newest plan is   *)
(* as it says; who has answered "off" to it has nothing left to do.             *)
CommandsOK == \A i, j \in DOMAIN commands : i < j => commands[i].revision < commands[j].revision
EnabledOK ==
    /\ \A i \in DOMAIN commands :
          commands[i].revision = link.plan.revision /\ commands[i].enabled => link.plan.enabled
    /\ capture.rev = link.plan.revision => link.plan.enabled
    /\ \A i \in DOMAIN replies :
          replies[i].kind = "on" /\ replies[i].rev = link.plan.revision => link.plan.enabled
Done == current = link.plan.revision /\ capture = NoCapture /\ commands = <<>>
OffOK == \A i \in DOMAIN replies :
            replies[i].kind = "off" /\ replies[i].rev = link.plan.revision => Done
PhoneInv == CommandsOK /\ EnabledOK /\ OffOK /\ RuntimeHonest /\ current <= link.plan.revision

AudioInv == TypeOK /\ RevisionNamesCodec /\ TaskOK /\ PhoneInv

-----------------------------------------------------------------------------
(* What carries a revision.                                                  *)

Tag(x) == [rev |-> x.rev, codec |-> x.codec]

LEMMA TagTypes ==
    /\ \A p \in Plans : RevOf(p) \in Frames
    /\ \A x \in Events \cup Answers \cup Captures : Tag(x) \in Frames
    /\ NoFrame \notin Frames /\ NoCapture \notin Captures
<1>1. \A p \in Plans : RevOf(p) \in Frames
      BY DEF Plans, RevOf, Frames
<1>2. \A x \in Events \cup Answers \cup Captures : Tag(x) \in Frames
      BY DEF Events, Answers, Captures, Tag, Frames
<1>3. NoFrame \notin Frames /\ NoCapture \notin Captures
      BY DEF NoFrame, NoCapture, None, Frames, Captures
<1>4. QED BY <1>1, <1>2, <1>3

(* Tagged, in parts. *)
PlansIn(S)   == RevOf(link.plan) \in S /\ RevOf(watched) \in S /\ RevOf(task.plan) \in S
QueuesIn(S)  == /\ \A i \in DOMAIN commands : RevOf(commands[i]) \in S
                /\ \A i \in DOMAIN replies : Tag(replies[i]) \in S
                /\ \A i \in DOMAIN events : Tag(events[i]) \in S
SinglesIn(S) == /\ capture = NoCapture \/ Tag(capture) \in S
                /\ decoding = NoFrame \/ decoding \in S
                /\ task.config = NoFrame \/ task.config \in S
                /\ late \subseteq S /\ media \subseteq S
PartsIn(S) == PlansIn(S) /\ QueuesIn(S) /\ SinglesIn(S)

LEMMA QueueTypes ==
    ASSUME TypeOK
    PROVE  /\ commands \in Seq(Plans) /\ \A i \in DOMAIN commands : commands[i] \in Plans
           /\ replies \in Seq(Answers) /\ \A i \in DOMAIN replies : replies[i] \in Answers
           /\ events \in Seq(Events) /\ \A i \in DOMAIN events : events[i] \in Events
<1>1. commands \in Seq(Plans) /\ replies \in Seq(Answers) /\ events \in Seq(Events)
      BY DEF TypeOK, Events
<1>2. QED BY <1>1

LEMMA PartsTagged ==
    ASSUME TypeOK
    PROVE  PartsIn(Tagged)
<1>1. PlansIn(Tagged)
      BY DEF PlansIn, Tagged
<1>2. QueuesIn(Tagged)
      BY DEF QueuesIn, Tagged, Tag
<1>3. capture = NoCapture \/ Tag(capture) \in Tagged
  <2>1. CASE capture # NoCapture
    <3>1. capture \in Captures
          BY <2>1 DEF TypeOK, Captures
    <3>2. Tag(capture) # NoFrame
          BY <3>1, TagTypes
    <3>3. QED BY <3>2 DEF Tagged, Tag
  <2>2. QED BY <2>1
<1>4. /\ decoding = NoFrame \/ decoding \in Tagged
      /\ task.config = NoFrame \/ task.config \in Tagged
      /\ late \subseteq Tagged /\ media \subseteq Tagged
      BY DEF Tagged
<1>5. QED BY <1>1, <1>2, <1>3, <1>4 DEF PartsIn, SinglesIn

LEMMA TaggedParts ==
    ASSUME NEW S, PartsIn(S)
    PROVE  Tagged \subseteq S
<1>1. Tag(NoCapture) = NoFrame
      BY DEF Tag, NoCapture, NoFrame
<1>2. QED BY <1>1 DEF PartsIn, PlansIn, QueuesIn, SinglesIn, Tagged, Tag

LEMMA TaggedType ==
    ASSUME TypeOK
    PROVE  Tagged \subseteq Frames
<1>1. PlansIn(Frames)
      BY TagTypes DEF TypeOK, PlansIn
<1>2. QueuesIn(Frames)
  <2>1. /\ \A i \in DOMAIN commands : commands[i] \in Plans
        /\ \A i \in DOMAIN replies : replies[i] \in Answers
        /\ \A i \in DOMAIN events : events[i] \in Events
        BY QueueTypes
  <2>2. QED BY <2>1, TagTypes DEF QueuesIn
<1>3. SinglesIn(Frames)
      BY TagTypes DEF TypeOK, SinglesIn, Captures
<1>4. QED BY <1>1, <1>2, <1>3, TaggedParts DEF PartsIn

(* A step takes over the tags there are, or issues the next revision. *)
Kept(x) == x \in Tagged \/ x = RevOf(link'.plan)
PartsKept ==
    /\ Kept(RevOf(watched')) /\ Kept(RevOf(task'.plan))
    /\ \A i \in DOMAIN commands' : Kept(RevOf(commands'[i]))
    /\ \A i \in DOMAIN replies' : Kept(Tag(replies'[i]))
    /\ \A i \in DOMAIN events' : Kept(Tag(events'[i]))
    /\ capture' = NoCapture \/ Kept(Tag(capture'))
    /\ decoding' = NoFrame \/ Kept(decoding')
    /\ task'.config = NoFrame \/ Kept(task'.config)
    /\ \A x \in late' \cup media' : Kept(x)

LEMMA RevisionStep ==
    ASSUME AudioInv, PartsKept, link'.plan \in Plans,
           link'.plan = link.plan \/ link'.plan.revision = link.plan.revision + 1
    PROVE  RevisionNamesCodec'
<1>1. ASSUME NEW x \in Tagged'
      PROVE  Kept(x)
  <2>1. Tag(NoCapture) = NoFrame
        BY DEF Tag, NoCapture, NoFrame
  <2>2. \/ x = RevOf(link'.plan) \/ x = RevOf(watched') \/ x = RevOf(task'.plan)
        \/ \E i \in DOMAIN commands' : x = RevOf(commands'[i])
        \/ \E i \in DOMAIN replies' : x = Tag(replies'[i])
        \/ \E i \in DOMAIN events' : x = Tag(events'[i])
        \/ x = Tag(capture') /\ x # NoFrame
        \/ x = decoding' /\ x # NoFrame
        \/ x = task'.config /\ x # NoFrame
        \/ x \in late' \cup media'
        BY <1>1 DEF Tagged, Tag
  <2>3. QED BY <2>1, <2>2 DEF PartsKept, Kept
<1>2. Tagged \subseteq Frames /\ link.plan \in Plans
      BY TaggedType DEF AudioInv, TypeOK
<1>3. \A x \in Tagged : x.rev \in Nat /\ x.rev <= link.plan.revision
      BY <1>2 DEF AudioInv, RevisionNamesCodec, Frames
<1>4. RevOf(link'.plan).rev = link'.plan.revision /\ link.plan.revision \in Nat /\ link'.plan.revision \in Nat
      BY <1>2 DEF RevOf, Plans
<1>5. RevOf(link.plan) \in Tagged
      BY DEF Tagged
<1>6. ASSUME NEW x \in Tagged', NEW y \in Tagged'
      PROVE  x.rev <= link'.plan.revision /\ (x.rev = y.rev => x.codec = y.codec)
  <2>1. Kept(x) /\ Kept(y)
        BY <1>1
  <2>2. CASE link'.plan = link.plan
        BY <1>3, <1>5, <2>1, <2>2 DEF Kept, AudioInv, RevisionNamesCodec
  <2>3. CASE link'.plan.revision = link.plan.revision + 1
    <3>1. x.rev <= link'.plan.revision
          BY <1>3, <1>4, <2>1, <2>3 DEF Kept
    <3>2. CASE x \in Tagged /\ y \in Tagged
          BY <3>1, <3>2 DEF AudioInv, RevisionNamesCodec
    <3>3. CASE x \in Tagged /\ y = RevOf(link'.plan)
          BY <1>3, <1>4, <2>3, <3>1, <3>3
    <3>4. CASE y \in Tagged /\ x = RevOf(link'.plan)
          BY <1>3, <1>4, <2>3, <3>1, <3>4
    <3>5. CASE x = RevOf(link'.plan) /\ y = RevOf(link'.plan)
          BY <3>1, <3>5
    <3>6. QED BY <2>1, <3>2, <3>3, <3>4, <3>5 DEF Kept
  <2>4. QED BY <2>2, <2>3
<1>7. QED BY <1>6 DEF RevisionNamesCodec

(* What stays is kept. *)
LEMMA StayKept ==
    ASSUME TypeOK
    PROVE  /\ Kept(RevOf(link.plan)) /\ Kept(RevOf(watched)) /\ Kept(RevOf(task.plan))
           /\ \A i \in DOMAIN commands : Kept(RevOf(commands[i]))
           /\ \A i \in DOMAIN replies : Kept(Tag(replies[i]))
           /\ \A i \in DOMAIN events : Kept(Tag(events[i]))
           /\ capture = NoCapture \/ Kept(Tag(capture))
           /\ decoding = NoFrame \/ Kept(decoding)
           /\ task.config = NoFrame \/ Kept(task.config)
           /\ \A x \in late \cup media : Kept(x)
BY PartsTagged DEF PartsIn, PlansIn, QueuesIn, SinglesIn, Kept

-----------------------------------------------------------------------------
(* Link.                                                                    *)

(* The plan stays, and nothing turns to "off", or to "on" without cause.       *)
Holds(l, k) == k.plan = l.plan /\ (k.state = l.state \/ k.state = "failed"
                                   \/ (k.state = "on" /\ l.plan.enabled))

LEMMA IssuedOK ==
    ASSUME NEW l \in Links, NEW t \in Targets, NEW tried \in Int, NEW rescues \in Int
    PROVE  /\ Issued(l, t, tried, rescues) \in Links
           /\ Issued(l, t, tried, rescues).plan.revision = l.plan.revision + 1
           /\ Issued(l, t, tried, rescues).state \in {"starting", "stopping"}
           /\ Issued(l, t, tried, rescues).rescues = rescues
<1>1. l.plan.revision + 1 \in Nat /\ t.enabled \in BOOLEAN /\ t.codec \in Codecs
      BY DEF Links, Plans, Targets
<1>2. Plan(l.plan.revision + 1, t) \in Plans
      BY <1>1 DEF Plan, Plans
<1>3. QED BY <1>2 DEF Issued, Links, States, Plan

LEMMA ProgressedOK ==
    ASSUME NEW l \in Links, NEW a \in BOOLEAN, NEW s \in BOOLEAN
    PROVE  Progressed(l, a, s) \in Links /\ Holds(l, Progressed(l, a, s))
<1>1. l.plan.enabled \in BOOLEAN /\ None \in Int
      BY DEF Links, Plans, None
<1>2. CASE a
      BY <1>1, <1>2 DEF Progressed, Links, States, Holds
<1>3. CASE ~a /\ s /\ l.plan.enabled /\ l.state = "on" /\ l.rescues = None
  <2>1. Progressed(l, a, s) = [l EXCEPT !.rescues = 0, !.state = "failed"]
        BY <1>3 DEF Progressed
  <2> DEFINE k == [l EXCEPT !.rescues = 0, !.state = "failed"]
  <2>2. k \in Links
    <3>1. [l EXCEPT !.rescues = 0] \in Links
          BY DEF Links
    <3>2. k = [[l EXCEPT !.rescues = 0] EXCEPT !.state = "failed"]
          BY DEF Links
    <3>3. QED BY <3>1, <3>2 DEF Links, States
  <2>3. k.plan = l.plan /\ k.state = "failed"
        BY DEF Links
  <2>4. QED BY <2>1, <2>2, <2>3 DEF Holds
<1>4. CASE ~a /\ ~(s /\ l.plan.enabled /\ l.state = "on" /\ l.rescues = None)
      BY <1>4 DEF Progressed, Holds
<1>5. QED BY <1>2, <1>3, <1>4

LEMMA DecidedOK ==
    ASSUME NEW l \in Links, NEW t \in Targets, NEW a \in BOOLEAN
    PROVE  LET k == Decided(l, t, a) IN
           /\ k \in Links
           /\ \/ Holds(l, k)
              \/ /\ k.plan.revision = l.plan.revision + 1
                 /\ k.state \in {"starting", "stopping"} /\ k.rescues = None
<1>1. l.applied \in Targets /\ l.pending \in Int /\ None \in Int /\ 0 \in Int
      BY DEF Links, None
<1>2. CASE t # l.applied
  <2>1. Decided(l, t, a) = Issued(l, t, 0, None)
        BY <1>2 DEF Decided
  <2>2. QED BY <1>1, <2>1, IssuedOK
<1>3. CASE t = l.applied /\ l.pending # None /\ a
  <2>1. CASE l.pending >= MaxRetries
        BY <1>1, <1>3, <2>1 DEF Decided, Links, States, Holds
  <2>2. CASE ~(l.pending >= MaxRetries)
    <3>1. Decided(l, t, a) = Issued(l, l.applied, l.pending + 1, None)
          BY <1>3, <2>2 DEF Decided
    <3>2. l.pending + 1 \in Int
          BY <1>1
    <3>3. QED BY <1>1, <3>1, <3>2, IssuedOK
  <2>3. QED BY <2>1, <2>2
<1>4. CASE t = l.applied /\ ~(l.pending # None /\ a)
      BY <1>4 DEF Decided, Holds
<1>5. QED BY <1>2, <1>3, <1>4

LEMMA RescuedOK ==
    ASSUME NEW l \in Links, NEW r \in BOOLEAN
    PROVE  LET k == Rescued(l, r) IN
           /\ k \in Links
           /\ \/ k = l
              \/ /\ l.rescues # None /\ k.plan.revision = l.plan.revision + 1
                 /\ k.state \in {"starting", "stopping"}
<1>1. l.applied \in Targets /\ 0 \in Int /\ l.rescues + 1 \in Int
      BY DEF Links
<1>2. CASE r /\ l.rescues # None /\ l.rescues < MaxRetries
  <2>1. Rescued(l, r) = Issued(l, l.applied, 0, l.rescues + 1)
        BY <1>2 DEF Rescued
  <2>2. /\ Rescued(l, r) \in Links /\ Rescued(l, r).plan.revision = l.plan.revision + 1
        /\ Rescued(l, r).state \in {"starting", "stopping"}
        BY <1>1, <2>1, IssuedOK
  <2>3. QED BY <1>2, <2>2
<1>3. CASE ~(r /\ l.rescues # None /\ l.rescues < MaxRetries)
      BY <1>3 DEF Rescued
<1>4. QED BY <1>2, <1>3

LEMMA HoldsTrans ==
    ASSUME NEW l, NEW k, NEW j, Holds(l, k), Holds(k, j)
    PROVE  Holds(l, j)
BY DEF Holds

(* One beat of the runner issues one plan at most. *)
LEMMA TickLink ==
    ASSUME TypeOK, NEW a \in BOOLEAN, NEW b \in BOOLEAN, NEW r \in BOOLEAN, NEW sent \in BOOLEAN,
           Tick(a, b, r, sent)
    PROVE  /\ link' \in Links
           /\ \/ Holds(link, link') /\ UNCHANGED <<commands, watched>>
              \/ /\ link'.plan.revision = link.plan.revision + 1
                 /\ link'.state \in {"starting", "stopping"}
                 /\ commands' = Append(commands, link'.plan) /\ watched' \in {watched, link'.plan}
<1> DEFINE l1 == Progressed(link, counted # {}, a)
           l2 == Decided(l1, target, b)
           l3 == Rescued(l2, r /\ l2.rescues = link.rescues)
<1>1. link \in Links /\ target \in Targets
      BY DEF TypeOK, Links
<1>2. l1 \in Links /\ Holds(link, l1)
      BY <1>1, ProgressedOK
<1> HIDE DEF l1
<1>3. /\ l2 \in Links
      /\ \/ Holds(l1, l2)
         \/ /\ l2.plan.revision = l1.plan.revision + 1
            /\ l2.state \in {"starting", "stopping"} /\ l2.rescues = None
      BY <1>1, <1>2, DecidedOK
<1> HIDE DEF l2
<1>4. /\ l3 \in Links
      /\ \/ l3 = l2
         \/ /\ l2.rescues # None /\ l3.plan.revision = l2.plan.revision + 1
            /\ l3.state \in {"starting", "stopping"}
      BY <1>3, RescuedOK
<1>5. /\ link' = l3
      /\ commands' = IF l3.plan = link.plan THEN commands ELSE Append(commands, l3.plan)
      /\ watched' = IF l3.plan = link.plan \/ ~sent THEN watched ELSE l3.plan
      BY DEF Tick, l1, l2
<1> HIDE DEF l3
<1>6. l1.plan = link.plan
      BY <1>2 DEF Holds
<1>7. \/ Holds(link, l3)
      \/ l3.plan.revision = link.plan.revision + 1 /\ l3.state \in {"starting", "stopping"}
  <2>1. CASE Holds(l1, l2)
    <3>1. Holds(link, l2) /\ l2.plan = link.plan
          BY <1>2, <1>6, <2>1, HoldsTrans DEF Holds
    <3>2. QED BY <1>4, <3>1
  <2>2. CASE ~Holds(l1, l2)
        BY <1>3, <1>4, <1>6, <2>2
  <2>3. QED BY <2>1, <2>2
<1>8. CASE Holds(link, l3)
      BY <1>4, <1>5, <1>8 DEF Holds
<1>9. CASE l3.plan.revision = link.plan.revision + 1 /\ l3.state \in {"starting", "stopping"}
  <2>1. link.plan.revision \in Nat
        BY <1>1 DEF Links, Plans
  <2>2. l3.plan # link.plan
        BY <1>9, <2>1
  <2>3. QED BY <1>4, <1>5, <1>9, <2>2
<1>10. QED BY <1>7, <1>8, <1>9

-----------------------------------------------------------------------------
(* The runner.                                                              *)

LEMMA RevBounds ==
    ASSUME AudioInv
    PROVE  /\ link.plan \in Plans /\ link.plan.revision \in Nat
           /\ \A i \in DOMAIN commands :
                 commands[i].revision \in Nat /\ commands[i].revision <= link.plan.revision
           /\ \A i \in DOMAIN replies :
                 replies[i].rev \in Nat /\ replies[i].rev <= link.plan.revision
           /\ capture.rev \in Int /\ capture.rev <= link.plan.revision
           /\ current \in Nat /\ current <= link.plan.revision
<1>1. TypeOK /\ link.plan \in Plans /\ current \in Nat /\ current <= link.plan.revision
      BY DEF AudioInv, TypeOK, PhoneInv
<1>2. link.plan.revision \in Nat
      BY <1>1 DEF Plans
<1>3. \A x \in Tagged : x.rev \in Nat /\ x.rev <= link.plan.revision
      BY <1>1, TaggedType DEF AudioInv, RevisionNamesCodec, Frames
<1>4. \A i \in DOMAIN commands : RevOf(commands[i]) \in Tagged
      BY DEF Tagged
<1>5. \A i \in DOMAIN replies : Tag(replies[i]) \in Tagged
      BY DEF Tagged, Tag
<1>6. capture = NoCapture \/ Tag(capture) \in Tagged
      BY <1>1, PartsTagged DEF PartsIn, SinglesIn
<1>7. capture.rev \in Int /\ capture.rev <= link.plan.revision
  <2>1. CASE capture = NoCapture
    <3>1. capture.rev = -1
          BY <2>1 DEF NoCapture, None
    <3>2. QED BY <1>2, <3>1
  <2>2. CASE Tag(capture) \in Tagged
    <3>1. Tag(capture).rev = capture.rev
          BY DEF Tag
    <3>2. QED BY <1>3, <2>2, <3>1
  <2>3. QED BY <1>6, <2>1, <2>2
<1>8. QED BY <1>1, <1>2, <1>3, <1>4, <1>5, <1>7 DEF RevOf, Tag

LEMMA FaultType ==
    ASSUME TypeOK, UNCHANGED faults \/ \E kind \in FaultKinds : Fault(kind)
    PROVE  faults' \in 0..MaxFaults
BY BoundsAssumption DEF TypeOK, Fault

LEMMA SendFault ==
    ASSUME NEW kind, Fault(kind)
    PROVE  kind \in FaultKinds
BY FaultAssumption DEF Fault

(* The session's answers and the phone are as they were. *)
LEMMA IssuePhone ==
    ASSUME AudioInv, UNCHANGED <<replies, capture, current>>, link' \in Links,
           link'.plan.revision = link.plan.revision + 1, link'.state \in {"starting", "stopping"},
           commands' = Append(commands, link'.plan)
    PROVE  PhoneInv'
<1>1. link'.plan \in Plans /\ link'.plan.revision \in Nat
      BY DEF Links, Plans
<1>2. commands \in Seq(Plans)
      BY DEF AudioInv, TypeOK
<1>3. /\ DOMAIN commands' = 1..(Len(commands) + 1) /\ DOMAIN commands = 1..Len(commands)
      /\ Len(commands) \in Nat /\ commands'[Len(commands) + 1] = link'.plan
      /\ \A i \in DOMAIN commands : commands'[i] = commands[i]
      BY <1>1, <1>2
<1>4. CommandsOK'
  <2>1. SUFFICES ASSUME NEW i \in DOMAIN commands', NEW j \in DOMAIN commands', i < j
                 PROVE  commands'[i].revision < commands'[j].revision
        BY DEF CommandsOK
  <2>2. i \in DOMAIN commands
        BY <1>3, <2>1
  <2>3. CASE j \in DOMAIN commands
        BY <1>3, <2>1, <2>2, <2>3 DEF AudioInv, PhoneInv, CommandsOK
  <2>4. CASE j = Len(commands) + 1
    <3>1. commands'[i].revision \in Nat /\ commands'[i].revision <= link.plan.revision
          BY <1>3, <2>2, RevBounds
    <3>2. commands'[j].revision = link.plan.revision + 1
          BY <1>3, <2>4
    <3>3. link.plan.revision \in Nat
          BY RevBounds
    <3>4. QED BY <3>1, <3>2, <3>3
  <2>5. QED BY <1>3, <2>3, <2>4
<1>5. \A i \in DOMAIN commands' : commands'[i] = link'.plan \/ commands'[i].revision # link'.plan.revision
  <2>1. SUFFICES ASSUME NEW i \in DOMAIN commands, commands'[i].revision = link'.plan.revision
                 PROVE  FALSE
        BY <1>3
  <2>2. commands[i].revision \in Nat /\ commands[i].revision <= link.plan.revision /\ link.plan.revision \in Nat
        BY RevBounds
  <2>3. QED BY <1>3, <2>1, <2>2
<1>6. capture.rev # link'.plan.revision /\ \A i \in DOMAIN replies : replies[i].rev # link'.plan.revision
      BY RevBounds
<1>7. EnabledOK' /\ OffOK'
      BY <1>5, <1>6 DEF EnabledOK, OffOK
<1>8. RuntimeHonest' /\ current' <= link'.plan.revision
      BY RevBounds DEF RuntimeHonest
<1>9. QED BY <1>4, <1>7, <1>8 DEF PhoneInv

LEMMA HoldPhone ==
    ASSUME AudioInv, UNCHANGED <<commands, replies, capture, current>>, Holds(link, link')
    PROVE  PhoneInv'
<1>1. CommandsOK' /\ EnabledOK' /\ OffOK' /\ current' <= link'.plan.revision
      BY DEF AudioInv, PhoneInv, CommandsOK, EnabledOK, OffOK, Done, Holds
<1>2. RuntimeHonest'
      BY DEF AudioInv, PhoneInv, RuntimeHonest, Holds
<1>3. QED BY <1>1, <1>2 DEF PhoneInv

LEMMA TickInv ==
    ASSUME AudioInv, NEW a \in BOOLEAN, NEW b \in BOOLEAN, NEW r \in BOOLEAN, NEW sent \in BOOLEAN,
           Tick(a, b, r, sent)
    PROVE  AudioInv'
<1>1. TypeOK
      BY DEF AudioInv
<1>2. /\ link' \in Links
      /\ \/ Holds(link, link') /\ UNCHANGED <<commands, watched>>
         \/ /\ link'.plan.revision = link.plan.revision + 1
            /\ link'.state \in {"starting", "stopping"}
            /\ commands' = Append(commands, link'.plan) /\ watched' \in {watched, link'.plan}
      BY <1>1, TickLink
<1>3. /\ UNCHANGED <<target, events, task, decoding, replies, media, mediaDown, current, capture, late, changes, faults>>
      /\ counted' = {}
      BY DEF Tick, phone
<1>4. slips' \in 0..MaxSlips
  <2>1. PICK n \in {0, 1}, m \in {0, 1} : slips' = slips + n + m /\ slips' <= MaxSlips
        BY DEF Tick
  <2>2. QED BY <1>1, <2>1, BoundsAssumption DEF TypeOK
<1>5. faults' \in 0..MaxFaults
      BY <1>1, <1>3 DEF TypeOK
<1>6. link'.plan \in Plans
      BY <1>2 DEF Links
<1>7. watched' \in Plans /\ commands' \in Seq(Plans)
  <2>1. watched \in Plans /\ commands \in Seq(Plans)
        BY <1>1 DEF TypeOK
  <2>2. commands' = commands \/ commands' = Append(commands, link'.plan)
        BY <1>2
  <2>3. commands' \in Seq(Plans)
        BY <1>6, <2>1, <2>2
  <2>4. QED BY <1>2, <1>6, <2>1, <2>3
<1>8. TypeOK'
      BY <1>1, <1>2, <1>3, <1>4, <1>5, <1>7 DEF TypeOK, Links
<1>9. PartsKept
  <2>1. Kept(RevOf(watched'))
        BY <1>1, <1>2, StayKept DEF Kept
  <2>2. ASSUME NEW i \in DOMAIN commands'
        PROVE  Kept(RevOf(commands'[i]))
    <3>1. commands \in Seq(Plans)
          BY <1>1 DEF TypeOK
    <3>2. CASE commands' = commands
          BY <1>1, <2>2, <3>2, StayKept
    <3>3. CASE commands' = Append(commands, link'.plan)
      <4>1. commands'[i] = link'.plan \/ (i \in DOMAIN commands /\ commands'[i] = commands[i])
            BY <1>6, <2>2, <3>1, <3>3
      <4>2. QED BY <1>1, <4>1, StayKept DEF Kept
    <3>4. QED BY <1>2, <3>2, <3>3
  <2>3. QED BY <1>1, <1>3, <2>1, <2>2, StayKept DEF PartsKept
<1>10. RevisionNamesCodec'
      BY <1>2, <1>6, <1>9, RevisionStep DEF Holds
<1>11. TaskOK'
      BY <1>3 DEF AudioInv, TaskOK, Made, RevOf
<1>12. PhoneInv'
      BY <1>2, <1>3, IssuePhone, HoldPhone
<1>13. QED BY <1>8, <1>10, <1>11, <1>12 DEF AudioInv

LEMMA TaskStays ==
    ASSUME AudioInv, UNCHANGED <<task, decoding>>
    PROVE  TaskOK'
BY DEF AudioInv, TaskOK, Made, RevOf

LEMMA PhoneStays ==
    ASSUME AudioInv, UNCHANGED <<link, commands, replies, capture, current>>
    PROVE  PhoneInv'
BY DEF AudioInv, PhoneInv, CommandsOK, EnabledOK, OffOK, Done, RuntimeHonest

LEMMA ChangeTargetInv ==
    ASSUME AudioInv, NEW t \in Targets, ChangeTarget(t)
    PROVE  AudioInv'
<1>1. /\ UNCHANGED <<link, watched, events, task, decoding, counted, commands, replies, media, mediaDown,
                     current, capture, late, faults, slips>>
      /\ target' = t /\ changes < MaxChanges /\ changes' = changes + 1
      BY DEF ChangeTarget, net, phone
<1>2. TypeOK'
      BY <1>1, BoundsAssumption DEF AudioInv, TypeOK
<1>3. PartsKept
      BY <1>1, StayKept DEF AudioInv, PartsKept
<1>4. RevisionNamesCodec'
      BY <1>1, <1>3, RevBounds, RevisionStep
<1>5. QED BY <1>1, <1>2, <1>4, TaskStays, PhoneStays DEF AudioInv

(* The first answer is taken. *)
LEMMA RepliesTaken ==
    ASSUME AudioInv, replies # <<>>, replies' = Tail(replies)
    PROVE  /\ replies' \in Seq(Answers) /\ Head(replies) \in Answers
           /\ 1 \in DOMAIN replies /\ Head(replies) = replies[1]
           /\ \A i \in DOMAIN replies' : i + 1 \in DOMAIN replies /\ replies'[i] = replies[i + 1]
<1>1. replies \in Seq(Answers)
      BY DEF AudioInv, TypeOK
<1>2. QED BY <1>1

LEMMA TakenPhone ==
    ASSUME AudioInv, replies # <<>>, replies' = Tail(replies), UNCHANGED <<commands, capture, current>>,
           link'.plan = link.plan, RuntimeHonest'
    PROVE  PhoneInv'
<1>1. CommandsOK' /\ current' <= link'.plan.revision
      BY DEF AudioInv, PhoneInv, CommandsOK
<1>2. EnabledOK'
      BY RepliesTaken DEF AudioInv, PhoneInv, EnabledOK
<1>3. OffOK'
      BY RepliesTaken DEF AudioInv, PhoneInv, OffOK, Done
<1>4. QED BY <1>1, <1>2, <1>3 DEF PhoneInv

(* An event for the task: events are typed, and what they carry is kept. *)
LEMMA ToTaskOK ==
    ASSUME AudioInv, NEW kind \in {"config", "frame"}, NEW m, Tag(m) \in Frames, Kept(Tag(m)), ToTask(kind, m)
    PROVE  events' \in Seq(Events) /\ \A i \in DOMAIN events' : Kept(Tag(events'[i]))
<1> DEFINE e == [kind |-> kind, rev |-> m.rev, codec |-> m.codec]
<1>1. events \in Seq(Events) /\ TypeOK
      BY QueueTypes DEF AudioInv
<1>2. m.rev \in Nat /\ m.codec \in Codecs
      BY DEF Tag, Frames
<1>3. e \in Events /\ Tag(e) = Tag(m)
      BY <1>2 DEF Events, Tag
<1>4. events' = Append(events, e)
      BY DEF ToTask
<1> HIDE DEF e
<1>5. events' \in Seq(Events)
      BY <1>1, <1>3, <1>4
<1>6. \A i \in DOMAIN events' : events'[i] = e \/ (i \in DOMAIN events /\ events'[i] = events[i])
      BY <1>1, <1>3, <1>4
<1>7. QED BY <1>1, <1>3, <1>5, <1>6, StayKept

LEMMA OnStateOK ==
    ASSUME AudioInv, NEW m \in Answers, m.kind # "config", NEW i \in DOMAIN replies, m = replies[i]
    PROVE  /\ OnState(link, m) \in Links /\ OnState(link, m).plan = link.plan
           /\ OnState(link, m).state = "off" => Done
           /\ OnState(link, m).state = "on" => link.plan.enabled
<1>1. link \in Links /\ None \in Int
      BY DEF AudioInv, TypeOK, Links, None
<1>2. m.kind \in {"on", "off", "error"}
      BY DEF Answers
<1>3. m.rev \in Nat /\ m.rev <= link.plan.revision /\ link.plan.revision \in Nat
      BY RevBounds
<1>4. CASE m.rev < link.plan.revision
  <2>1. OnState(link, m) = link
        BY <1>4 DEF OnState
  <2>2. QED BY <1>1, <2>1 DEF AudioInv, PhoneInv, RuntimeHonest, Done
<1>5. CASE ~(m.rev < link.plan.revision)
  <2>1. m.rev = link.plan.revision
        BY <1>3, <1>5
  <2> DEFINE x == IF m.kind = "error" THEN "failed" ELSE m.kind
  <2>2. x \in States /\ (x = "off" => m.kind = "off") /\ (x = "on" => m.kind = "on")
        BY <1>2 DEF States
  <2>3. OnState(link, m) = [link EXCEPT !.state = x, !.pending = None]
        BY <1>5, <2>1 DEF OnState
  <2> HIDE DEF x
  <2>4. OnState(link, m) \in Links /\ OnState(link, m).plan = link.plan /\ OnState(link, m).state = x
        BY <1>1, <2>2, <2>3 DEF Links
  <2>5. QED BY <2>1, <2>2, <2>4 DEF AudioInv, PhoneInv, EnabledOK, OffOK
<1>6. QED BY <1>4, <1>5

LEMMA ReceiveAnswerInv ==
    ASSUME AudioInv, ReceiveAnswer
    PROVE  AudioInv'
<1> DEFINE m == Head(replies)
<1>1. TypeOK
      BY DEF AudioInv
<1>2. /\ replies # <<>> /\ replies' = Tail(replies)
      /\ UNCHANGED <<target, watched, task, decoding, counted, commands, media, mediaDown,
                     current, capture, late, changes, faults, slips>>
      BY DEF ReceiveAnswer, phone, bounds
<1>3. \/ m.kind # "config" /\ link' = OnState(link, m) /\ UNCHANGED events
      \/ ToTask("config", m) /\ UNCHANGED link
      \/ UNCHANGED <<link, events>>
      BY DEF ReceiveAnswer
<1>4. /\ replies' \in Seq(Answers) /\ m \in Answers /\ 1 \in DOMAIN replies /\ m = replies[1]
      /\ \A i \in DOMAIN replies' : i + 1 \in DOMAIN replies /\ replies'[i] = replies[i + 1]
      BY <1>2, RepliesTaken
<1> HIDE DEF m
<1>5. Tag(m) \in Frames /\ Kept(Tag(m))
      BY <1>1, <1>4, TagTypes, StayKept
<1>6. /\ events' \in Seq(Events) /\ \A i \in DOMAIN events' : Kept(Tag(events'[i]))
  <2>1. CASE ToTask("config", m)
        BY <1>5, <2>1, ToTaskOK
  <2>2. CASE UNCHANGED events
        BY <1>1, <2>2, StayKept, QueueTypes
  <2>3. QED BY <1>3, <2>1, <2>2
<1>7. /\ link' \in Links /\ link'.plan = link.plan
      /\ (link'.state = "off" => Done) /\ (link'.state = "on" => link.plan.enabled)
  <2>1. CASE m.kind # "config" /\ link' = OnState(link, m)
        BY <1>4, <2>1, OnStateOK
  <2>2. CASE UNCHANGED link
        BY <1>1, <2>2 DEF AudioInv, TypeOK, Links, PhoneInv, RuntimeHonest, Done
  <2>3. QED BY <1>3, <2>1, <2>2
<1>8. TypeOK'
      BY <1>1, <1>2, <1>4, <1>6, <1>7 DEF TypeOK, Links, Events
<1>9. PartsKept
      BY <1>1, <1>2, <1>4, <1>6, StayKept DEF PartsKept
<1>10. RevisionNamesCodec'
      BY <1>7, <1>9, RevBounds, RevisionStep
<1>11. RuntimeHonest'
      BY <1>2, <1>7 DEF RuntimeHonest, Done
<1>12. PhoneInv'
      BY <1>2, <1>7, <1>11, TakenPhone
<1>13. QED BY <1>2, <1>8, <1>10, <1>12, TaskStays DEF AudioInv

LEMMA ReceiveFrameInv ==
    ASSUME AudioInv, ReceiveFrame
    PROVE  AudioInv'
<1>1. TypeOK
      BY DEF AudioInv
<1>2. PICK f \in media : ToTask("frame", f) /\ media' = media \ {f}
      BY DEF ReceiveFrame
<1>3. UNCHANGED <<target, link, watched, task, decoding, counted, commands, replies, mediaDown,
                  current, capture, late, changes, faults, slips>>
      BY DEF ReceiveFrame, phone, bounds
<1>4. f \in Frames /\ Kept(f) /\ Tag(f) = f
      BY <1>1, StayKept DEF TypeOK, Frames, Tag
<1>5. events' \in Seq(Events) /\ \A i \in DOMAIN events' : Kept(Tag(events'[i]))
      BY <1>2, <1>4, ToTaskOK
<1>6. TypeOK'
      BY <1>1, <1>2, <1>3, <1>5 DEF TypeOK, Events
<1>7. PartsKept
      BY <1>1, <1>2, <1>3, <1>5, StayKept DEF PartsKept
<1>8. RevisionNamesCodec'
      BY <1>3, <1>7, RevBounds, RevisionStep
<1>9. QED BY <1>3, <1>6, <1>8, TaskStays, PhoneStays DEF AudioInv

-----------------------------------------------------------------------------
(* The audio task.                                                          *)

TaskTypes == [plan : Plans, config : Frames \cup {NoFrame}, player : Players \cup {NoPlayer}]

(* The task alone moves. *)
LEMMA TaskStep ==
    ASSUME AudioInv, TaskUnchanged, task' \in TaskTypes, decoding' \in Frames \cup {NoFrame},
           events' \in Seq(Events), counted' \subseteq Nat, faults' \in 0..MaxFaults, TaskOK',
           \A i \in DOMAIN events' : Kept(Tag(events'[i])),
           Kept(RevOf(task'.plan))
    PROVE  AudioInv'
<1>1. UNCHANGED <<target, link, watched, commands, replies, media, mediaDown, current, capture, late, changes, slips>>
      BY DEF TaskUnchanged, net, phone
<1>2. TypeOK'
      BY <1>1 DEF AudioInv, TypeOK, TaskTypes, Players, Events
<1>3. decoding' = NoFrame \/ Kept(decoding')
  <2>1. decoding' # NoFrame => decoding' = RevOf(task'.plan)
        BY DEF TaskOK
  <2>2. QED BY <2>1
<1>4. task'.config = NoFrame \/ Kept(task'.config)
  <2>1. task'.config # NoFrame => task'.config = RevOf(task'.plan)
        BY DEF TaskOK
  <2>2. QED BY <2>1
<1>5. PartsKept
      BY <1>1, <1>3, <1>4, StayKept DEF AudioInv, PartsKept
<1>6. RevisionNamesCodec'
      BY <1>1, <1>5, RevBounds, RevisionStep
<1>7. QED BY <1>1, <1>2, <1>6, PhoneStays DEF AudioInv

LEMMA TaskNow ==
    ASSUME AudioInv
    PROVE  /\ task \in TaskTypes /\ decoding \in Frames \cup {NoFrame} /\ events \in Seq(Events)
           /\ counted \subseteq Nat /\ faults \in 0..MaxFaults /\ watched \in Plans
           /\ Kept(RevOf(watched)) /\ Kept(RevOf(task.plan))
           /\ \A i \in DOMAIN events : Kept(Tag(events[i]))
BY StayKept DEF AudioInv, TypeOK, TaskTypes, Players, Events

LEMMA TakePlanInv ==
    ASSUME AudioInv, TakePlan
    PROVE  AudioInv'
<1>1. /\ task' = NewTask(watched) /\ decoding = NoFrame /\ TaskUnchanged
      /\ UNCHANGED <<events, decoding, counted, faults>>
      BY DEF TakePlan
<1>2. task' \in TaskTypes /\ task'.plan = watched /\ task'.config = NoFrame /\ task'.player = NoPlayer
      BY <1>1, TaskNow DEF NewTask, TaskTypes
<1>3. TaskOK'
      BY <1>1, <1>2 DEF TaskOK
<1>4. QED BY <1>1, <1>2, <1>3, TaskNow, TaskStep

(* What the task accepts is of its plan's codec. *)
LEMMA AcceptedOK ==
    ASSUME AudioInv, NEW i \in DOMAIN events, Accepts(task.plan, events[i].rev)
    PROVE  Tag(events[i]) = RevOf(task.plan)
<1>1. Tag(events[i]) \in Tagged /\ RevOf(task.plan) \in Tagged
      BY PartsTagged DEF AudioInv, PartsIn, PlansIn, QueuesIn
<1>2. Tag(events[i]).rev = RevOf(task.plan).rev
      BY DEF Accepts, Tag, RevOf
<1>3. Tag(events[i]).codec = RevOf(task.plan).codec
      BY <1>1, <1>2 DEF AudioInv, RevisionNamesCodec
<1>4. QED BY <1>2, <1>3 DEF Tag, RevOf

LEMMA FedOK ==
    ASSUME AudioInv, decoding = NoFrame, NEW e, Tag(e) = RevOf(task.plan), Fed(e)
    PROVE  task' \in TaskTypes /\ task'.plan = task.plan /\ decoding' \in Frames \cup {NoFrame} /\ TaskOK'
<1> DEFINE player == IF task.player = NoPlayer
                     THEN [codec |-> task.plan.codec, config |-> task.config]
                     ELSE task.player
           playable == task.plan.codec \in NeedsConfig => task.config # NoFrame
<1>1. task \in TaskTypes /\ task.plan \in Plans /\ RevOf(task.plan) \in Frames
      BY TaskNow, TagTypes DEF TaskTypes
<1>2. CASE playable \/ task.player # NoPlayer
  <2>1. task' = [task EXCEPT !.player = player] /\ decoding' = RevOf(task.plan)
        BY <1>2 DEF Fed, Tag
  <2>2. player \in Players \cup {NoPlayer}
        BY <1>1 DEF TaskTypes, Players, Plans
  <2>3. Made(player)
        BY <1>2 DEF AudioInv, TaskOK, Made
  <2> HIDE DEF player
  <2>4. /\ task' \in TaskTypes /\ task'.plan = task.plan /\ task'.config = task.config /\ task'.player = player
        BY <1>1, <2>1, <2>2 DEF TaskTypes
  <2>5. TaskOK'
        BY <2>1, <2>3, <2>4 DEF AudioInv, TaskOK, Made
  <2>6. QED BY <1>1, <2>1, <2>4, <2>5
<1>3. CASE ~(playable \/ task.player # NoPlayer)
  <2>1. UNCHANGED <<task, decoding>>
        BY <1>3 DEF Fed
  <2>2. QED BY <1>1, <2>1, TaskStays
<1>4. QED BY <1>2, <1>3

LEMMA TakeEventInv ==
    ASSUME AudioInv, TakeEvent
    PROVE  AudioInv'
<1> DEFINE e == Head(events)
<1>1. /\ decoding = NoFrame /\ events # <<>> /\ events' = Tail(events) /\ UNCHANGED counted /\ TaskUnchanged
      /\ UNCHANGED faults \/ Fault("preempt")
      BY DEF TakeEvent
<1>2. \/ UNCHANGED <<task, decoding>>
      \/ /\ Accepts(task.plan, e.rev) /\ UNCHANGED decoding
         /\ task' = [task EXCEPT !.player = NoPlayer, !.config = Tag(e)]
      \/ Accepts(task.plan, e.rev) /\ Fed(e)
      BY DEF TakeEvent, Tag
<1>3. events \in Seq(Events)
      BY TaskNow
<1>4. /\ events' \in Seq(Events) /\ 1 \in DOMAIN events /\ e = events[1]
      /\ \A i \in DOMAIN events' : i + 1 \in DOMAIN events /\ events'[i] = events[i + 1]
      BY <1>1, <1>3
<1> HIDE DEF e
<1>5. \A i \in DOMAIN events' : Kept(Tag(events'[i]))
      BY <1>4, TaskNow
<1>6. faults' \in 0..MaxFaults
      BY <1>1, FaultType, SendFault DEF AudioInv
<1>7. Accepts(task.plan, e.rev) => Tag(e) = RevOf(task.plan)
      BY <1>4, AcceptedOK
<1>8. task' \in TaskTypes /\ task'.plan = task.plan /\ decoding' \in Frames \cup {NoFrame} /\ TaskOK'
  <2>1. CASE UNCHANGED <<task, decoding>>
        BY <2>1, TaskNow, TaskStays
  <2>2. CASE /\ Accepts(task.plan, e.rev) /\ UNCHANGED decoding
             /\ task' = [task EXCEPT !.player = NoPlayer, !.config = Tag(e)]
    <3>1. task.plan \in Plans /\ Tag(e) = RevOf(task.plan) /\ Tag(e) \in Frames
          BY <1>7, <2>2, TaskNow, TagTypes DEF TaskTypes
    <3>2. /\ task'.plan = task.plan /\ task'.config = Tag(e) /\ task'.player = NoPlayer
          /\ task' \in TaskTypes
          BY <2>2, <3>1, TaskNow DEF TaskTypes
    <3>3. TaskOK'
          BY <1>1, <2>2, <3>1, <3>2 DEF TaskOK
    <3>4. QED BY <2>2, <3>2, <3>3, TaskNow
  <2>3. CASE Accepts(task.plan, e.rev) /\ Fed(e)
        BY <1>1, <1>7, <2>3, FedOK
  <2>4. QED BY <1>2, <2>1, <2>2, <2>3
<1>9. Kept(RevOf(task'.plan)) /\ counted' \subseteq Nat
      BY <1>1, <1>8, TaskNow
<1>10. QED BY <1>1, <1>4, <1>5, <1>6, <1>8, <1>9, TaskStep

LEMMA CountInv ==
    ASSUME AudioInv, NEW decoded \in BOOLEAN, Count(decoded)
    PROVE  AudioInv'
<1>1. /\ decoding # NoFrame /\ decoding' = NoFrame /\ UNCHANGED <<events, task>> /\ TaskUnchanged
      /\ counted' \subseteq counted \cup {decoding.rev} /\ (UNCHANGED faults \/ Fault("decode"))
      BY DEF Count
<1>2. decoding.rev \in Nat
      BY <1>1, TaskNow DEF Frames
<1>3. faults' \in 0..MaxFaults
      BY <1>1, FaultType, SendFault DEF AudioInv
<1>4. counted' \subseteq Nat
      BY <1>1, <1>2, TaskNow
<1>5. TaskOK'
      BY <1>1 DEF AudioInv, TaskOK, Made, RevOf
<1>6. QED BY <1>1, <1>3, <1>4, <1>5, TaskNow, TaskStep

-----------------------------------------------------------------------------
(* The phone.                                                               *)

(* The phone alone moves. *)
LEMMA PhoneStep ==
    ASSUME AudioInv, PhoneUnchanged,
           commands' \in Seq(Plans), \A i \in DOMAIN commands' : Kept(RevOf(commands'[i])),
           replies' \in Seq(Answers), \A i \in DOMAIN replies' : Kept(Tag(replies'[i])),
           capture' \in Captures \cup {NoCapture}, capture' = NoCapture \/ Kept(Tag(capture')),
           late' \cup media' \subseteq Frames, \A x \in late' \cup media' : Kept(x),
           mediaDown' \in BOOLEAN, current' \in Nat, faults' \in 0..MaxFaults, PhoneInv'
    PROVE  AudioInv'
<1>1. UNCHANGED <<target, link, watched, events, task, decoding, counted, changes, slips>>
      BY DEF PhoneUnchanged, pc
<1>2. TypeOK'
      BY <1>1 DEF AudioInv, TypeOK, Captures
<1>3. PartsKept
      BY <1>1, StayKept DEF AudioInv, PartsKept
<1>4. RevisionNamesCodec'
      BY <1>1, <1>3, RevBounds, RevisionStep
<1>5. QED BY <1>1, <1>2, <1>4, TaskStays DEF AudioInv

LEMMA PhoneNow ==
    ASSUME AudioInv
    PROVE  /\ commands \in Seq(Plans) /\ \A i \in DOMAIN commands : Kept(RevOf(commands[i]))
           /\ replies \in Seq(Answers) /\ \A i \in DOMAIN replies : Kept(Tag(replies[i]))
           /\ capture \in Captures \cup {NoCapture} /\ (capture = NoCapture \/ Kept(Tag(capture)))
           /\ late \cup media \subseteq Frames /\ \A x \in late \cup media : Kept(x)
           /\ mediaDown \in BOOLEAN /\ current \in Nat /\ faults \in 0..MaxFaults
BY StayKept DEF AudioInv, TypeOK, Captures

LEMMA ReplyOK ==
    ASSUME AudioInv, NEW kind \in {"on", "off", "error", "config"}, NEW r \in Nat, NEW c \in Codecs,
           Kept([rev |-> r, codec |-> c]), Reply(kind, r, c)
    PROVE  /\ replies' \in Seq(Answers) /\ \A i \in DOMAIN replies' : Kept(Tag(replies'[i]))
           /\ \A i \in DOMAIN replies' : \/ replies'[i].kind = kind /\ replies'[i].rev = r
                                         \/ i \in DOMAIN replies /\ replies'[i] = replies[i]
<1> DEFINE a == [kind |-> kind, rev |-> r, codec |-> c]
<1>1. replies \in Seq(Answers)
      BY PhoneNow
<1>2. a \in Answers /\ Tag(a) = [rev |-> r, codec |-> c] /\ a.kind = kind /\ a.rev = r
      BY DEF Answers, Tag
<1>3. replies' = Append(replies, a)
      BY DEF Reply
<1> HIDE DEF a
<1>4. replies' \in Seq(Answers)
      BY <1>1, <1>2, <1>3
<1>5. \A i \in DOMAIN replies' : replies'[i] = a \/ (i \in DOMAIN replies /\ replies'[i] = replies[i])
      BY <1>1, <1>2, <1>3
<1>6. QED BY <1>2, <1>4, <1>5, PhoneNow

(* The capture runs on, and says so, or not. *)
LEMMA CaptureStep ==
    ASSUME AudioInv, PhoneUnchanged, UNCHANGED <<commands, mediaDown, current, late>>,
           capture \in Captures, capture' \in Captures, Tag(capture') = Tag(capture),
           media' \subseteq media \cup {Tag(capture)}, UNCHANGED faults \/ \E kind \in FaultKinds : Fault(kind),
           UNCHANGED replies \/ \E kind \in {"on", "error", "config"} : Reply(kind, capture.rev, capture.codec)
    PROVE  AudioInv'
<1>1. capture # NoCapture /\ capture' # NoCapture /\ capture.rev \in Nat /\ capture.codec \in Codecs
      BY TagTypes DEF Captures
<1>2. capture'.rev = capture.rev
      BY DEF Tag
<1>3. Kept(Tag(capture)) /\ Tag(capture) \in Frames
      BY <1>1, PhoneNow, TagTypes
<1>4. faults' \in 0..MaxFaults
      BY FaultType DEF AudioInv
<1>5. /\ replies' \in Seq(Answers) /\ \A i \in DOMAIN replies' : Kept(Tag(replies'[i]))
      /\ \A i \in DOMAIN replies' : \/ replies'[i].kind # "off" /\ replies'[i].rev = capture.rev
                                    \/ i \in DOMAIN replies /\ replies'[i] = replies[i]
  <2>1. CASE UNCHANGED replies
        BY <2>1, PhoneNow
  <2>2. ASSUME NEW kind \in {"on", "error", "config"}, Reply(kind, capture.rev, capture.codec)
        PROVE  /\ replies' \in Seq(Answers) /\ \A i \in DOMAIN replies' : Kept(Tag(replies'[i]))
               /\ \A i \in DOMAIN replies' : \/ replies'[i].kind = kind /\ replies'[i].rev = capture.rev
                                             \/ i \in DOMAIN replies /\ replies'[i] = replies[i]
        BY <1>1, <1>3, <2>2, ReplyOK DEF Tag
  <2>3. QED BY <2>1, <2>2
<1>6. UNCHANGED link
      BY DEF PhoneUnchanged, pc
<1>7. CommandsOK' /\ EnabledOK' /\ OffOK' /\ RuntimeHonest' /\ current' <= link'.plan.revision
  <2>1. CommandsOK' /\ current' <= link'.plan.revision
        BY <1>6 DEF AudioInv, PhoneInv, CommandsOK
  <2>2. EnabledOK'
        BY <1>2, <1>5, <1>6 DEF AudioInv, PhoneInv, EnabledOK
  <2>3. OffOK'
        BY <1>1, <1>5, <1>6 DEF AudioInv, PhoneInv, OffOK, Done
  <2>4. RuntimeHonest'
        BY <1>1, <1>6 DEF AudioInv, PhoneInv, RuntimeHonest
  <2>5. QED BY <2>1, <2>2, <2>3, <2>4
<1>8. late' \cup media' \subseteq Frames /\ \A x \in late' \cup media' : Kept(x)
      BY <1>3, PhoneNow
<1>9. Kept(Tag(capture'))
      BY <1>3
<1>10. QED BY <1>4, <1>5, <1>7, <1>8, <1>9, PhoneNow, PhoneStep DEF PhoneInv

LEMMA Captured ==
    ASSUME AudioInv, capture.phase # "none"
    PROVE  capture \in Captures
<1>1. NoCapture.phase = "none"
      BY DEF NoCapture
<1>2. QED BY <1>1, PhoneNow

LEMMA CaptureInv ==
    ASSUME AudioInv, \/ CaptureStart \/ CaptureConfig \/ CaptureFrame
                     \/ \E stalled \in BOOLEAN : CaptureFail(stalled)
                     \/ CaptureRestart \/ CaptureHang
    PROVE  AudioInv'
<1>1. capture.phase # "none"
      BY DEF CaptureStart, CaptureConfig, CaptureFrame, CaptureFail, CaptureRestart, CaptureHang
<1>2. capture \in Captures
      BY <1>1, Captured
<1>3. CASE CaptureStart
  <2>1. capture' \in Captures /\ Tag(capture') = Tag(capture)
        BY <1>2, <1>3 DEF CaptureStart, Captures, Tag
  <2>2. QED BY <1>2, <1>3, <2>1, CaptureStep DEF CaptureStart
<1>4. CASE CaptureConfig
  <2>1. capture' \in Captures /\ Tag(capture') = Tag(capture)
        BY <1>2, <1>4 DEF CaptureConfig, Captures, Tag
  <2>2. QED BY <1>2, <1>4, <2>1, CaptureStep DEF CaptureConfig
<1>5. CASE CaptureFrame
  <2>1. capture' \in Captures /\ Tag(capture') = Tag(capture)
        BY <1>2, <1>5 DEF CaptureFrame, Captures, Tag
  <2>2. media' \subseteq media \cup {Tag(capture)}
        BY <1>5 DEF CaptureFrame, SendFrame, Tag
  <2>3. QED BY <1>2, <1>5, <2>1, <2>2, CaptureStep DEF CaptureFrame
<1>6. CASE \E stalled \in BOOLEAN : CaptureFail(stalled)
  <2>1. PICK stalled \in BOOLEAN : CaptureFail(stalled)
        BY <1>6
  <2>2. capture' \in Captures /\ Tag(capture') = Tag(capture)
        BY <1>2, <2>1 DEF CaptureFail, Captures, Tag
  <2>3. \E kind \in FaultKinds : Fault(kind)
        BY <2>1, SendFault DEF CaptureFail
  <2>4. QED BY <1>2, <2>1, <2>2, <2>3, CaptureStep DEF CaptureFail
<1>7. CASE CaptureRestart
  <2>1. capture' \in Captures /\ Tag(capture') = Tag(capture)
        BY <1>2, <1>7 DEF CaptureRestart, Captures, Tag
  <2>2. QED BY <1>2, <1>7, <2>1, CaptureStep DEF CaptureRestart, net
<1>8. CASE CaptureHang
  <2>1. capture' \in Captures /\ Tag(capture') = Tag(capture)
        BY <1>2, <1>8 DEF CaptureHang, Captures, Tag
  <2>2. \E kind \in FaultKinds : Fault(kind)
        BY <1>8, SendFault DEF CaptureHang
  <2>3. QED BY <1>2, <1>8, <2>1, <2>2, CaptureStep DEF CaptureHang, net
<1>9. QED BY <1>3, <1>4, <1>5, <1>6, <1>7, <1>8

LEMMA LateSendInv ==
    ASSUME AudioInv, LateSend
    PROVE  AudioInv'
<1>1. PICK c \in late : /\ late' = late \ {c}
                        /\ \/ SendFrame(c.rev, c.codec) /\ UNCHANGED replies
                           \/ Reply("config", c.rev, c.codec) /\ UNCHANGED media
      BY DEF LateSend
<1>2. UNCHANGED <<commands, mediaDown, current, capture, faults, link>> /\ PhoneUnchanged
      BY DEF LateSend, PhoneUnchanged, pc
<1>3. c \in Frames /\ Kept(c) /\ c = [rev |-> c.rev, codec |-> c.codec] /\ c.rev \in Nat /\ c.codec \in Codecs
      BY PhoneNow DEF Frames
<1>4. media' \subseteq media \cup {c}
      BY <1>1, <1>3 DEF SendFrame
<1>5. /\ replies' \in Seq(Answers) /\ \A i \in DOMAIN replies' : Kept(Tag(replies'[i]))
      /\ \A i \in DOMAIN replies' : \/ replies'[i].kind = "config"
                                    \/ i \in DOMAIN replies /\ replies'[i] = replies[i]
  <2>1. CASE UNCHANGED replies
        BY <2>1, PhoneNow
  <2>2. CASE Reply("config", c.rev, c.codec)
        BY <1>3, <2>2, ReplyOK
  <2>3. QED BY <1>1, <2>1, <2>2
<1>6. PhoneInv'
  <2>1. CommandsOK' /\ current' <= link'.plan.revision /\ RuntimeHonest'
        BY <1>2 DEF AudioInv, PhoneInv, CommandsOK, RuntimeHonest
  <2>2. EnabledOK' /\ OffOK'
        BY <1>2, <1>5 DEF AudioInv, PhoneInv, EnabledOK, OffOK, Done
  <2>3. QED BY <2>1, <2>2 DEF PhoneInv
<1>7. late' \cup media' \subseteq Frames /\ \A x \in late' \cup media' : Kept(x)
      BY <1>1, <1>3, <1>4, PhoneNow
<1>8. QED BY <1>2, <1>5, <1>6, <1>7, PhoneNow, PhoneStep

LEMMA MediaFlipInv ==
    ASSUME AudioInv, MediaFlip
    PROVE  AudioInv'
<1>1. /\ UNCHANGED <<commands, replies, current, capture, late, link>> /\ PhoneUnchanged
      /\ media' \subseteq media /\ mediaDown' \in BOOLEAN /\ (UNCHANGED faults \/ Fault("media"))
      BY PhoneNow DEF MediaFlip, PhoneUnchanged, phone, pc
<1>2. faults' \in 0..MaxFaults
      BY <1>1, FaultType, SendFault DEF AudioInv
<1>3. PhoneInv'
      BY <1>1, PhoneStays
<1>4. QED BY <1>1, <1>2, <1>3, PhoneNow, PhoneStep

(* A command is taken: while there was one, no "off" to the newest had been said. *)
LEMMA CommandTaken ==
    ASSUME AudioInv, commands # <<>>, commands' = Tail(commands), UNCHANGED link
    PROVE  /\ commands' \in Seq(Plans) /\ Head(commands) \in Plans /\ Kept(RevOf(Head(commands)))
           /\ \A i \in DOMAIN commands' : Kept(RevOf(commands'[i]))
           /\ CommandsOK'
           /\ Head(commands).revision <= link.plan.revision
           /\ Head(commands).revision = link.plan.revision =>
                 commands' = <<>> /\ (Head(commands).enabled => link.plan.enabled)
           /\ \A i \in DOMAIN commands' :
                 commands'[i].revision = link.plan.revision /\ commands'[i].enabled => link.plan.enabled
           /\ ~Done /\ link.state # "off"
<1> DEFINE c == Head(commands)
<1>1. commands \in Seq(Plans)
      BY PhoneNow
<1>2. /\ commands' \in Seq(Plans) /\ c \in Plans /\ 1 \in DOMAIN commands /\ c = commands[1]
      /\ \A i \in DOMAIN commands' : i \in Nat /\ i # 0 /\ i + 1 \in DOMAIN commands /\ commands'[i] = commands[i + 1]
      BY <1>1
<1> HIDE DEF c
<1>3. CommandsOK'
  <2>1. SUFFICES ASSUME NEW i \in DOMAIN commands', NEW j \in DOMAIN commands', i < j
                 PROVE  commands'[i].revision < commands'[j].revision
        BY DEF CommandsOK
  <2>2. i + 1 < j + 1 /\ i + 1 \in DOMAIN commands /\ j + 1 \in DOMAIN commands
        BY <1>2, <2>1
  <2>3. commands[i + 1].revision < commands[j + 1].revision
        BY <2>2 DEF AudioInv, PhoneInv, CommandsOK
  <2>4. QED BY <1>2, <2>3
<1>4. c.revision = link.plan.revision => commands' = <<>>
  <2>1. SUFFICES ASSUME c.revision = link.plan.revision, commands' # <<>>
                 PROVE  FALSE
        OBVIOUS
  <2>2. 1 \in DOMAIN commands'
        BY <1>2, <2>1
  <2>3. 2 \in DOMAIN commands
        BY <1>2, <2>2
  <2>4. commands[1].revision < commands[2].revision
        BY <1>2, <2>3 DEF AudioInv, PhoneInv, CommandsOK
  <2>5. commands[2].revision <= link.plan.revision /\ commands[2].revision \in Nat /\ link.plan.revision \in Nat
        BY <2>3, RevBounds
  <2>6. QED BY <1>2, <2>1, <2>4, <2>5
<1>5. c.revision <= link.plan.revision
      BY <1>2, RevBounds
<1>6. ~Done /\ link.state # "off"
      BY DEF AudioInv, PhoneInv, RuntimeHonest, Done
<1>7. Kept(RevOf(c)) /\ \A i \in DOMAIN commands' : Kept(RevOf(commands'[i]))
      BY <1>2, PhoneNow
<1>8. /\ c.revision = link.plan.revision => (c.enabled => link.plan.enabled)
      /\ \A i \in DOMAIN commands' :
            commands'[i].revision = link.plan.revision /\ commands'[i].enabled => link.plan.enabled
      BY <1>2 DEF AudioInv, PhoneInv, EnabledOK
<1>9. QED BY <1>2, <1>3, <1>4, <1>5, <1>6, <1>7, <1>8 DEF c

LEMMA ApplyInv ==
    ASSUME AudioInv, NEW joined \in BOOLEAN, Apply(joined)
    PROVE  AudioInv'
<1> DEFINE c == Head(commands)
<1>1. /\ commands # <<>> /\ commands' = Tail(commands) /\ UNCHANGED <<media, mediaDown, link>> /\ PhoneUnchanged
      BY DEF Apply, PhoneUnchanged, pc
<1>2. \/ UNCHANGED <<current, capture, late, replies, faults>>
      \/ /\ \/ UNCHANGED <<late, faults>>
            \/ capture # NoCapture /\ Fault("join") /\ late' = late \cup {Tag(capture)}
         /\ current' = c.revision
         /\ \/ c.enabled /\ capture' = NewCapture(c.revision, c.codec) /\ UNCHANGED replies
            \/ ~c.enabled /\ capture' = NoCapture /\ Reply("off", c.revision, c.codec)
      BY DEF Apply, Tag
<1>3. /\ commands' \in Seq(Plans) /\ c \in Plans /\ Kept(RevOf(c))
      /\ \A i \in DOMAIN commands' : Kept(RevOf(commands'[i]))
      /\ CommandsOK' /\ c.revision <= link.plan.revision
      /\ c.revision = link.plan.revision => commands' = <<>> /\ (c.enabled => link.plan.enabled)
      /\ \A i \in DOMAIN commands' :
            commands'[i].revision = link.plan.revision /\ commands'[i].enabled => link.plan.enabled
      /\ ~Done /\ link.state # "off"
      BY <1>1, CommandTaken
<1> HIDE DEF c
<1>4. RuntimeHonest'
      BY <1>1, <1>3 DEF AudioInv, PhoneInv, RuntimeHonest
<1>5. \A i \in DOMAIN replies : ~(replies[i].kind = "off" /\ replies[i].rev = link.plan.revision)
      BY <1>3 DEF AudioInv, PhoneInv, OffOK
<1>6. CASE UNCHANGED <<current, capture, late, replies, faults>>
  <2>1. EnabledOK' /\ OffOK' /\ current' <= link'.plan.revision
        BY <1>1, <1>3, <1>5, <1>6 DEF AudioInv, PhoneInv, EnabledOK, OffOK
  <2>2. PhoneInv'
        BY <1>3, <1>4, <2>1 DEF PhoneInv
  <2>3. QED BY <1>1, <1>3, <1>6, <2>2, PhoneNow, PhoneStep
<1>7. CASE /\ \/ UNCHANGED <<late, faults>>
              \/ capture # NoCapture /\ Fault("join") /\ late' = late \cup {Tag(capture)}
           /\ current' = c.revision
           /\ \/ c.enabled /\ capture' = NewCapture(c.revision, c.codec) /\ UNCHANGED replies
              \/ ~c.enabled /\ capture' = NoCapture /\ Reply("off", c.revision, c.codec)
  <2>1. c.revision \in Nat /\ c.codec \in Codecs /\ RevOf(c) = [rev |-> c.revision, codec |-> c.codec]
        BY <1>3 DEF Plans, RevOf
  <2>2. faults' \in 0..MaxFaults
        BY <1>7, FaultType, SendFault DEF AudioInv
  <2>3. late' \cup media' \subseteq Frames /\ \A x \in late' \cup media' : Kept(x)
    <3>1. capture # NoCapture => Tag(capture) \in Frames /\ Kept(Tag(capture))
          BY PhoneNow, TagTypes
    <3>2. QED BY <1>1, <1>7, <3>1, PhoneNow
  <2>4. CASE c.enabled /\ capture' = NewCapture(c.revision, c.codec) /\ UNCHANGED replies
    <3>1. capture' \in Captures /\ Tag(capture') = RevOf(c) /\ capture'.rev = c.revision
          BY <2>1, <2>4 DEF NewCapture, Captures, Tag
    <3>2. EnabledOK' /\ OffOK' /\ current' <= link'.plan.revision
          BY <1>1, <1>3, <1>5, <1>7, <2>4, <3>1 DEF AudioInv, PhoneInv, EnabledOK, OffOK
    <3>3. PhoneInv'
          BY <1>3, <1>4, <3>2 DEF PhoneInv
    <3>4. current' \in Nat
          BY <1>7, <2>1
    <3>5. QED BY <1>1, <1>3, <2>2, <2>3, <2>4, <3>1, <3>3, <3>4, PhoneNow, PhoneStep
  <2>5. CASE ~c.enabled /\ capture' = NoCapture /\ Reply("off", c.revision, c.codec)
    <3>1. /\ replies' \in Seq(Answers) /\ \A i \in DOMAIN replies' : Kept(Tag(replies'[i]))
          /\ \A i \in DOMAIN replies' : \/ replies'[i].kind = "off" /\ replies'[i].rev = c.revision
                                        \/ i \in DOMAIN replies /\ replies'[i] = replies[i]
          BY <1>3, <2>1, <2>5, ReplyOK
    <3>2. capture'.rev # link.plan.revision
      <4>1. NoCapture.rev = -1
            BY DEF NoCapture, None
      <4>2. QED BY <2>5, <4>1, RevBounds
    <3>3. EnabledOK'
          BY <1>1, <1>3, <3>1, <3>2 DEF AudioInv, PhoneInv, EnabledOK
    <3>4. OffOK'
          BY <1>1, <1>3, <1>5, <1>7, <2>5, <3>1 DEF OffOK, Done
    <3>5. PhoneInv'
          BY <1>1, <1>3, <1>4, <1>7, <3>3, <3>4 DEF PhoneInv
    <3>6. current' \in Nat
          BY <1>7, <2>1
    <3>7. QED BY <1>1, <1>3, <2>2, <2>3, <2>5, <3>1, <3>5, <3>6, PhoneNow, PhoneStep
  <2>6. QED BY <1>7, <2>4, <2>5
<1>8. QED BY <1>2, <1>6, <1>7

-----------------------------------------------------------------------------
LEMMA InitInv ==
    ASSUME Init
    PROVE  AudioInv
<1>1. PICK t \in Targets :
          /\ target = t /\ link = NewLink(t) /\ watched = Plan(0, t) /\ task = NewTask(Plan(0, t))
          /\ capture = IF t.enabled THEN NewCapture(0, t.codec) ELSE NoCapture
      BY DEF Init
<1>2. /\ events = <<>> /\ decoding = NoFrame /\ counted = {} /\ commands = <<>> /\ replies = <<>>
      /\ media = {} /\ mediaDown = FALSE /\ current = 0 /\ late = {}
      /\ changes = 0 /\ faults = 0 /\ slips = 0
      BY DEF Init
<1>3. t.enabled \in BOOLEAN /\ t.codec \in Codecs /\ None \in Int
      BY DEF Targets, None
<1> DEFINE plan == Plan(0, t)
<1>4. /\ plan \in Plans /\ plan.revision = 0 /\ plan.codec = t.codec /\ plan.enabled = t.enabled
      /\ RevOf(plan) = [rev |-> 0, codec |-> t.codec]
      BY <1>3 DEF Plan, Plans, RevOf
<1> HIDE DEF plan
<1>5. /\ link \in Links /\ link.plan = plan
      /\ link.state = (IF t.enabled THEN "starting" ELSE "off")
      BY <1>1, <1>3, <1>4 DEF NewLink, Links, States, plan
<1>6. /\ task.plan = plan /\ task.config = NoFrame /\ task.player = NoPlayer
      /\ task \in TaskTypes
      BY <1>1, <1>4 DEF NewTask, TaskTypes, plan
<1>7. capture \in Captures \cup {NoCapture} /\ (capture # NoCapture => t.enabled /\ Tag(capture) = RevOf(plan))
      BY <1>1, <1>3, <1>4 DEF NewCapture, Captures, Tag
<1>8. TypeOK
  <2>1. /\ <<>> \in Seq(Plans) /\ <<>> \in Seq(Answers)
        /\ <<>> \in Seq([kind : {"config", "frame"}, rev : Nat, codec : Codecs])
        OBVIOUS
  <2>2. faults \in 0..MaxFaults /\ changes \in 0..MaxChanges /\ slips \in 0..MaxSlips
        BY <1>2, BoundsAssumption
  <2>3. watched \in Plans
        BY <1>1, <1>4 DEF plan
  <2>4. QED BY <1>1, <1>2, <1>4, <1>5, <1>6, <1>7, <2>1, <2>2, <2>3
            DEF TypeOK, Links, TaskTypes, Players, Captures
<1>9. TaskOK
      BY <1>2, <1>6 DEF TaskOK
<1>10. \A x \in Tagged : x = RevOf(plan)
  <2>1. PartsIn({RevOf(plan)})
        BY <1>1, <1>2, <1>5, <1>6, <1>7 DEF PartsIn, PlansIn, QueuesIn, SinglesIn, plan
  <2>2. QED BY <2>1, TaggedParts
<1>11. RevisionNamesCodec
      BY <1>4, <1>5, <1>10 DEF RevisionNamesCodec
<1>12. PhoneInv
  <2>1. CommandsOK /\ OffOK /\ current <= link.plan.revision
        BY <1>2, <1>4, <1>5 DEF CommandsOK, OffOK
  <2>2. NoCapture.rev = -1
        BY DEF NoCapture, None
  <2>3. EnabledOK
        BY <1>2, <1>4, <1>5, <1>7, <2>2 DEF EnabledOK
  <2>4. RuntimeHonest
        BY <1>2, <1>4, <1>5, <1>7 DEF RuntimeHonest
  <2>5. QED BY <2>1, <2>3, <2>4 DEF PhoneInv
<1>13. QED BY <1>8, <1>9, <1>11, <1>12 DEF AudioInv

LEMMA NextInv ==
    ASSUME AudioInv, [Next]_vars
    PROVE  AudioInv'
<1>1. CASE \E t \in Targets : ChangeTarget(t)
      BY <1>1, ChangeTargetInv
<1>2. CASE RunnerTick
      BY <1>2, TickInv DEF RunnerTick
<1>3. CASE ReceiveAnswer \/ ReceiveFrame
      BY <1>3, ReceiveAnswerInv, ReceiveFrameInv
<1>4. CASE TakePlan \/ TakeEvent \/ \E decoded \in BOOLEAN : Count(decoded)
      BY <1>4, TakePlanInv, TakeEventInv, CountInv
<1>5. CASE \E joined \in BOOLEAN : Apply(joined)
      BY <1>5, ApplyInv
<1>6. CASE \/ CaptureStart \/ CaptureConfig \/ CaptureFrame
           \/ \E stalled \in BOOLEAN : CaptureFail(stalled)
           \/ CaptureRestart \/ CaptureHang
      BY <1>6, CaptureInv
<1>7. CASE LateSend \/ MediaFlip
      BY <1>7, LateSendInv, MediaFlipInv
<1>8. CASE UNCHANGED vars
  <2>1. PhoneUnchanged /\ UNCHANGED <<commands, replies, media, mediaDown, current, capture, late, faults, link>>
        BY <1>8 DEF vars, PhoneUnchanged, bounds, net, phone, pc
  <2>2. PhoneInv'
        BY <2>1, PhoneStays
  <2>3. QED BY <2>1, <2>2, PhoneNow, PhoneStep
<1>9. QED BY <1>1, <1>2, <1>3, <1>4, <1>5, <1>6, <1>7, <1>8 DEF Next

(* Plans, commands, answers, frames, player and capture fit together, always.   *)
THEOREM AudioInvariant == Spec => []AudioInv
<1>1. Init => AudioInv
      BY InitInv
<1>2. AudioInv /\ [Next]_vars => AudioInv'
      BY NextInv
<1>3. QED BY <1>1, <1>2, PTL DEF Spec

(* The audio chain's state keeps its types. *)
THEOREM TypeCorrect == Spec => []TypeOK
<1>1. AudioInv => TypeOK
      BY DEF AudioInv
<1>2. QED BY <1>1, AudioInvariant, PTL

(* A revision stands for one codec, on the PC, on the way and on the phone.     *)
THEOREM RevisionsNameCodecs == Spec => []RevisionNamesCodec
<1>1. AudioInv => RevisionNamesCodec
      BY DEF AudioInv
<1>2. QED BY <1>1, AudioInvariant, PTL

(* No frame meets a decoder of another codec, or one configured for another     *)
(* revision, however switches, retries and late captures interleave.          *)
THEOREM FramesMeetTheirDecoder == Spec => []NoForeignAudio
<1>1. AudioInv => NoForeignAudio
  <2>1. SUFFICES ASSUME AudioInv, decoding # NoFrame
                 PROVE  /\ task.player.codec = decoding.codec
                        /\ decoding.codec \in NeedsConfig => task.player.config = decoding
        BY DEF NoForeignAudio
  <2>2. decoding = RevOf(task.plan) /\ Made(task.player) /\ task.config \in {NoFrame, RevOf(task.plan)}
        BY <2>1 DEF AudioInv, TaskOK
  <2>3. decoding.codec = task.plan.codec
        BY <2>2 DEF RevOf
  <2>4. QED BY <2>2, <2>3 DEF Made
<1>2. QED BY <1>1, AudioInvariant, PTL

(* "off" is shown only when the phone has carried out the newest command, "on"   *)
(* only for a plan that is switched on.                                      *)
THEOREM StateIsThePhones == Spec => []RuntimeHonest
<1>1. AudioInv => RuntimeHonest
      BY DEF AudioInv, PhoneInv
<1>2. QED BY <1>1, AudioInvariant, PTL
=============================================================================
