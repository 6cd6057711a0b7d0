---------------------------- MODULE AudioControl ----------------------------
(***************************************************************************)
(* The audio chain of one session.  On the PC: the control plane Link of    *)
(* sync-core/src/session/audio.rs, the runner loop that drives it, and the  *)
(* audio task that decodes and counts frames.  On the phone: AudioLink,     *)
(* which applies SetAudio commands one at a time, and the capture thread.   *)
(*                                                                         *)
(* SetAudio and the answers (AudioState, MediaConfig) travel on the         *)
(* reliable control stream, here the FIFOs `commands` and `replies`         *)
(* (ReliableChannel implements them); audio frames are datagrams.           *)
(*                                                                         *)
(* Time is abstract: a timer may fire as soon as it is armed, but firing    *)
(* while what it waits for is still under way is one of the bounded slips.  *)
(* `frames`, the count of played frames, is kept as the set of revisions    *)
(* counted since the control plane last looked.                             *)
(***************************************************************************)
EXTENDS Integers, Sequences

CONSTANTS Codecs,        \* audio codecs
          NeedsConfig,   \* those whose decoder needs a MediaConfig (AAC, FLAC)
          MaxRetries,    \* MAX_RETRIES
          QueueLen,      \* capacity of the runner's channel to the audio task
          Faults,        \* which kinds of faults may happen
          MaxFaults,     \* bound: faults
          MaxChanges,    \* bound: changes of the user's target
          MaxSlips       \* bound: timers firing early, failed sends of rescues

None == -1

FaultKinds == {"capture",   \* the capture fails or stalls, and restarts itself
               "hang",      \* the capture thread is stuck in a platform call
               "join",      \* a stopped capture outlives the join of its thread
               "media",     \* the media port stops getting through
               "decode",    \* the player rejects a frame
               "preempt"}   \* the audio task loses the CPU inside its select

ASSUME CodecAssumption == NeedsConfig \subseteq Codecs
ASSUME LimitAssumption == MaxRetries \in Nat /\ QueueLen \in Nat
ASSUME FaultAssumption == Faults \subseteq FaultKinds
ASSUME BoundsAssumption ==
    MaxFaults \in Nat /\ MaxChanges \in Nat /\ MaxSlips \in Nat

VARIABLES
    target,     \* what the user wants (watch channel, Core writes)
    link,       \* Link: applied, plan, pending, rescues (stalled), state
    watched,    \* the plan last published to the audio task (watch channel)
    events,     \* the runner's channel to the audio task
    task,       \* audio task: plan, codec config, player
    decoding,   \* the frame the audio task is feeding to its player
    counted,    \* revisions of the frames counted since the last look
    commands,   \* SetAudio on their way to, or queued in, AudioLink
    replies,    \* AudioState and MediaConfig on their way to the PC
    media,      \* audio frames on their way to the PC
    mediaDown,  \* the media port does not get through
    current,    \* AudioLink.currentRevision
    capture,    \* the AudioCapture, or NoCapture
    late,       \* stopped captures whose thread outlived the join
    changes, faults, slips     \* how often each has happened

pc     == <<target, link, watched, events, task, decoding, counted>>
net    == <<commands, replies, media, mediaDown>>
phone  == <<current, capture, late>>
bounds == <<changes, faults, slips>>
vars   == <<pc, net, phone, bounds>>

Targets == [enabled : BOOLEAN, codec : Codecs]
Plans   == [revision : Nat, enabled : BOOLEAN, codec : Codecs]
Frames  == [rev : Nat, codec : Codecs]
Answers == [kind : {"on", "off", "error", "config"}, rev : Nat, codec : Codecs]
States  == {"off", "starting", "on", "stopping", "failed"}

NoCapture == [rev |-> None, codec |-> "", phase |-> "none",
              failed |-> FALSE, stale |-> FALSE]
NoFrame   == [rev |-> None, codec |-> ""]
NoPlayer  == [codec |-> "", config |-> NoFrame]

\* failed: a failure since the last frame; stale: no frame for five seconds,
\* by the clock that start() and a sent frame set (lastFrameNanos)
NewCapture(r, c) == [rev |-> r, codec |-> c, phase |-> "starting",
                     failed |-> FALSE, stale |-> FALSE]
NewTask(plan) == [plan |-> plan, config |-> NoFrame, player |-> NoPlayer]

Plan(r, t) == [revision |-> r, enabled |-> t.enabled, codec |-> t.codec]

(* AudioPlan::accepts *)
Accepts(plan, r) == plan.enabled /\ r = plan.revision

Fault(kind) ==
    kind \in Faults /\ faults < MaxFaults /\ faults' = faults + 1
-----------------------------------------------------------------------------
(* Link, the state machine without clock or network.                       *)

NewLink(t) ==
    [applied |-> t, plan |-> Plan(0, t), pending |-> None, rescues |-> None,
     state |-> IF t.enabled THEN "starting" ELSE "off"]

(* Mutant of Issued: a retry repeats the revision.                           *)
IssuedAgain(l, t, tried, rescues) ==
    [applied |-> t, plan |-> Plan(l.plan.revision, t),
     pending |-> tried, rescues |-> rescues,
     state |-> IF t.enabled THEN "starting" ELSE "stopping"]

(* issue: a new revision, and an answer is awaited. *)
Issued(l, t, tried, rescues) ==
    [applied |-> t, plan |-> Plan(l.plan.revision + 1, t),
     pending |-> tried, rescues |-> rescues,
     state |-> IF t.enabled THEN "starting" ELSE "stopping"]

(* drive, first part: frames have advanced, or none has come for too long.  *)
Progressed(l, advanced, stallDue) ==
    CASE advanced ->
            [l EXCEPT !.rescues = None,
                      !.state = IF l.plan.enabled THEN "on" ELSE @]
      [] ~advanced /\ stallDue /\ l.plan.enabled /\ l.state = "on"
                   /\ l.rescues = None ->
            [l EXCEPT !.rescues = 0, !.state = "failed"]
      [] OTHER -> l

(* Mutant of Decided: the last retry leaves the answer awaited.              *)
DecidedWaits(l, t, ackDue) ==
    IF t # l.applied THEN Issued(l, t, 0, None)
    ELSE IF l.pending \in 0..(MaxRetries - 1) /\ ackDue
         THEN Issued(l, l.applied, l.pending + 1, None)
         ELSE l

(* decide: a changed target first, then the answer that has not come. *)
Decided(l, t, ackDue) ==
    CASE t # l.applied -> Issued(l, t, 0, None)
      [] t = l.applied /\ l.pending # None /\ ackDue ->
            IF l.pending >= MaxRetries
            THEN [l EXCEPT !.pending = None, !.state = "failed"]
            ELSE Issued(l, l.applied, l.pending + 1, None)
      [] OTHER -> l

(* Mutant of Rescued: the interval never passes.                             *)
RescuedNever(l, rescueDue) == l

(* poll_stall_retry *)
Rescued(l, rescueDue) ==
    IF rescueDue /\ l.rescues # None /\ l.rescues < MaxRetries
    THEN Issued(l, l.applied, 0, l.rescues + 1)
    ELSE l

(* Mutants of OnState: stale answers count; the answer is not ticked off.     *)
OnStateStale(l, m) ==
    [l EXCEPT !.state = IF m.kind = "error" THEN "failed" ELSE m.kind,
              !.pending = None]
OnStateWaits(l, m) ==
    IF m.rev < l.plan.revision THEN l
    ELSE [l EXCEPT !.state = IF m.kind = "error" THEN "failed" ELSE m.kind]

(* on_state: an answer of an older revision is ignored. *)
OnState(l, m) ==
    IF m.rev < l.plan.revision THEN l
    ELSE [l EXCEPT !.state = IF m.kind = "error" THEN "failed" ELSE m.kind,
                   !.pending = IF m.rev = l.plan.revision THEN None ELSE @]
-----------------------------------------------------------------------------
Init ==
    \E t \in Targets :
        /\ target = t /\ link = NewLink(t) /\ watched = Plan(0, t)
        /\ events = <<>> /\ decoding = NoFrame /\ counted = {}
        /\ task = NewTask(Plan(0, t))
        /\ commands = <<>> /\ replies = <<>> /\ media = {} /\ mediaDown = FALSE
        /\ current = 0 /\ late = {}
        /\ capture = IF t.enabled THEN NewCapture(0, t.codec) ELSE NoCapture
        /\ changes = 0 /\ faults = 0 /\ slips = 0

(* The user switches audio or its codec. *)
ChangeTarget(t) ==
    /\ changes < MaxChanges /\ t # target
    /\ changes' = changes + 1
    /\ target' = t
    /\ UNCHANGED <<link, watched, events, task, decoding, counted, net, phone,
                   faults, slips>>

(* What would still answer the last command, or still deliver a frame of    *)
(* the current revision, without any timer.                                 *)
AnswerComing ==
    \/ commands # <<>> \/ replies # <<>>
    \/ /\ capture.rev = link.plan.revision
       /\ capture.phase \in {"starting", "backoff"}
ConfigComing ==
    \/ task.plan = link.plan /\ task.config # NoFrame
    \/ \E q \in {events, replies} : \E i \in DOMAIN q :
           q[i].kind = "config" /\ q[i].rev = link.plan.revision
    \/ capture.phase = "recording"
Playable ==
    watched = link.plan /\ (link.plan.codec \in NeedsConfig => ConfigComing)
FramesComing ==
    \/ commands # <<>> \/ decoding # NoFrame \/ counted # {}
    \/ /\ capture.rev = link.plan.revision /\ ~capture.stale
       /\ capture.phase \in {"starting", "backoff"}
    \/ Playable /\ \/ events # <<>>
                   \/ ~mediaDown /\ capture.rev = link.plan.revision
                                 /\ capture.phase \in {"recording", "flowing"}

(* One beat of the runner: drive, then poll_stall_retry.  At most one of    *)
(* them issues a plan.  If the send of a rescue fails the plan is not       *)
(* published to the task, but the sender keeps the fragments and resends    *)
(* them; a failed send of drive's plan ends the session.                    *)
Tick(stallDue, ackDue, rescueDue, sent) ==
    LET l1 == Progressed(link, counted # {}, stallDue)
        l2 == Decided(l1, target, ackDue)
        l3 == Rescued(l2, rescueDue /\ l2.rescues = link.rescues)
        tooEarly == \/ l1.rescues = 0 /\ link.rescues = None /\ FramesComing
                    \/ target = link.applied /\ l2 # l1 /\ AnswerComing
                    \/ l3 # l2 /\ FramesComing
    IN
    /\ link' = l3
    /\ counted' = {}
    /\ commands' = IF l3.plan = link.plan THEN commands
                                          ELSE Append(commands, l3.plan)
    /\ watched' = IF l3.plan = link.plan \/ ~sent THEN watched ELSE l3.plan
    /\ sent \/ l3 # l2
    /\ slips' = slips + (IF tooEarly THEN 1 ELSE 0) + (IF sent THEN 0 ELSE 1)
    /\ slips' <= MaxSlips
    /\ UNCHANGED <<target, events, task, decoding, replies, media, mediaDown,
                   phone, changes, faults>>
-----------------------------------------------------------------------------
(* The runner's other branch: what the session delivers. *)

Room == Len(events) < QueueLen

ToTask(kind, m) ==
    /\ Room
    /\ events' = Append(events, [kind |-> kind, rev |-> m.rev, codec |-> m.codec])

(* AudioState goes to the Link; MediaConfig of the current plan to the task.  *)
(* A full channel makes the runner wait.                                    *)
ReceiveAnswer ==
    /\ replies # <<>>
    /\ replies' = Tail(replies)
    /\ LET m == Head(replies) IN
       \/ m.kind # "config" /\ link' = OnState(link, m) /\ UNCHANGED events
       \/ m.kind = "config" /\ Accepts(link.plan, m.rev)
             /\ ToTask("config", m) /\ UNCHANGED link
       \/ m.kind = "config" /\ ~Accepts(link.plan, m.rev)
             /\ UNCHANGED <<link, events>>
    /\ UNCHANGED <<target, watched, task, decoding, counted, commands, media,
                   mediaDown, phone, bounds>>

ReceiveFrame ==
    /\ \E f \in media : ToTask("frame", f) /\ media' = media \ {f}
    /\ UNCHANGED <<target, link, watched, task, decoding, counted, commands,
                   replies, mediaDown, phone, bounds>>
-----------------------------------------------------------------------------
(* The audio task.  Its select looks for a new plan first and for an event   *)
(* second: only a plan published between the two looks is overtaken.         *)

TaskUnchanged == UNCHANGED <<target, link, watched, net, phone, changes, slips>>

(* Mutant of TakePlan: the decoder survives the change of plan.              *)
TakePlanKeeps ==
    /\ decoding = NoFrame /\ watched # task.plan
    /\ task' = [task EXCEPT !.plan = watched]
    /\ UNCHANGED <<events, decoding, counted, faults>> /\ TaskUnchanged

TakePlan ==
    /\ decoding = NoFrame /\ watched # task.plan
    /\ task' = NewTask(watched)
    /\ UNCHANGED <<events, decoding, counted, faults>> /\ TaskUnchanged

(* A frame is fed to the player, made on demand; a decoder that needs its    *)
(* configuration is not made before that has come.                           *)
Fed(e) ==
    LET playable == task.plan.codec \in NeedsConfig => task.config # NoFrame
        player == IF task.player = NoPlayer
                  THEN [codec |-> task.plan.codec, config |-> task.config]
                  ELSE task.player
    IN
    IF playable \/ task.player # NoPlayer
    THEN /\ task' = [task EXCEPT !.player = player]
         /\ decoding' = [rev |-> e.rev, codec |-> e.codec]
    ELSE UNCHANGED <<task, decoding>>

TakeEvent ==
    /\ decoding = NoFrame /\ events # <<>>
    /\ events' = Tail(events)
    /\ IF watched = task.plan THEN UNCHANGED faults ELSE Fault("preempt")
    /\ LET e == Head(events) IN
       \/ ~Accepts(task.plan, e.rev) /\ UNCHANGED <<task, decoding>>
       \/ Accepts(task.plan, e.rev) /\ e.kind = "config"
             /\ task' = [task EXCEPT !.player = NoPlayer,
                                     !.config = [rev |-> e.rev, codec |-> e.codec]]
             /\ UNCHANGED decoding
       \/ Accepts(task.plan, e.rev) /\ e.kind = "frame" /\ Fed(e)
    /\ UNCHANGED counted /\ TaskUnchanged

(* feed_frame returns: the frame is counted, unless the decoder failed. *)
Count(decoded) ==
    /\ decoding # NoFrame
    /\ decoding' = NoFrame
    /\ IF decoded THEN counted' = counted \cup {decoding.rev} /\ UNCHANGED faults
                  ELSE Fault("decode") /\ UNCHANGED counted
    /\ UNCHANGED <<events, task>> /\ TaskUnchanged
-----------------------------------------------------------------------------
(* The phone. *)

PhoneUnchanged == UNCHANGED <<pc, changes, slips>>

Reply(kind, r, c) ==
    replies' = Append(replies, [kind |-> kind, rev |-> r, codec |-> c])

SendFrame(r, c) ==
    media' = IF mediaDown THEN media ELSE media \cup {[rev |-> r, codec |-> c]}

(* applyAudio, on the lifecycle executor: stop the capture, take over the     *)
(* revision, answer "off" or start the next capture.  The join of the old     *)
(* thread is bounded, so it may live on.                                     *)
Apply(joined) ==
    /\ commands # <<>>
    /\ commands' = Tail(commands)
    /\ LET c == Head(commands) IN
       IF c.revision <= current
       THEN joined /\ UNCHANGED <<current, capture, late, replies, faults>>
       ELSE /\ \/ joined /\ UNCHANGED <<late, faults>>
               \/ /\ ~joined /\ capture # NoCapture /\ Fault("join")
                  /\ late' = late \cup {[rev |-> capture.rev, codec |-> capture.codec]}
            /\ current' = c.revision
            /\ IF c.enabled
               THEN capture' = NewCapture(c.revision, c.codec) /\ UNCHANGED replies
               ELSE capture' = NoCapture /\ Reply("off", c.revision, c.codec)
    /\ UNCHANGED <<media, mediaDown>> /\ PhoneUnchanged

(* captureLoop: recording has begun, and that is reported.  A restarted round  *)
(* whose clock has run out ends at once, at its first checkStall.             *)
CaptureStart ==
    /\ capture.phase = "starting"
    /\ capture' = [capture EXCEPT !.phase =
                       CASE capture.stale -> "backoff"
                         [] ~capture.stale /\ capture.codec \in NeedsConfig -> "recording"
                         [] OTHER -> "flowing"]
    /\ Reply("on", capture.rev, capture.codec)
    /\ UNCHANGED <<commands, media, mediaDown, current, late, faults>>
    /\ PhoneUnchanged

(* The encoder's first packet is its configuration. *)
CaptureConfig ==
    /\ capture.phase = "recording"
    /\ capture' = [capture EXCEPT !.phase = "flowing"]
    /\ Reply("config", capture.rev, capture.codec)
    /\ UNCHANGED <<commands, media, mediaDown, current, late, faults>>
    /\ PhoneUnchanged

(* A frame goes out; the first one after a failure reports the recovery. *)
CaptureFrame ==
    /\ capture.phase = "flowing"
    /\ SendFrame(capture.rev, capture.codec)
    /\ capture' = [capture EXCEPT !.failed = FALSE]
    /\ IF capture.failed THEN Reply("on", capture.rev, capture.codec)
                         ELSE UNCHANGED replies
    /\ UNCHANGED <<commands, mediaDown, current, late, faults>> /\ PhoneUnchanged

(* An exception or the stall watchdog ends a capture round, before or after   *)
(* five seconds without a frame; only the first failure since the last frame  *)
(* is reported.                                                              *)
CaptureFail(stalled) ==
    /\ capture.phase \in {"starting", "recording", "flowing"}
    /\ Fault("capture")
    /\ capture' = [capture EXCEPT !.phase = "backoff", !.failed = TRUE,
                                   !.stale = stalled]
    /\ IF capture.failed THEN UNCHANGED replies
                         ELSE Reply("error", capture.rev, capture.codec)
    /\ UNCHANGED <<commands, media, mediaDown, current, late>> /\ PhoneUnchanged

(* runLoop begins the next round after RESTART_BACKOFF_MS, by which time the    *)
(* runner has taken what a round without a frame has reported.                *)
CaptureRestart ==
    /\ capture.phase = "backoff"
    /\ capture.stale => \A i \in DOMAIN replies : replies[i].rev # capture.rev
    /\ capture' = [capture EXCEPT !.phase = "starting"]
    /\ UNCHANGED <<net, current, late, faults>> /\ PhoneUnchanged

CaptureHang ==
    /\ capture.phase \in {"starting", "recording", "flowing"}
    /\ Fault("hang")
    /\ capture' = [capture EXCEPT !.phase = "hung"]
    /\ UNCHANGED <<net, current, late>> /\ PhoneUnchanged

(* The last frame or configuration of a capture that outlived its join; its   *)
(* state reports no longer pass onAudioCaptureState.                         *)
LateSend ==
    /\ \E c \in late :
          /\ late' = late \ {c}
          /\ \/ SendFrame(c.rev, c.codec) /\ UNCHANGED replies
             \/ Reply("config", c.rev, c.codec) /\ UNCHANGED media
    /\ UNCHANGED <<commands, mediaDown, current, capture, faults>> /\ PhoneUnchanged

(* The media port goes dark, losing what is in flight, or comes back. *)
MediaFlip ==
    /\ IF mediaDown THEN UNCHANGED faults /\ media' = media
                    ELSE Fault("media") /\ media' = {}
    /\ mediaDown' = ~mediaDown
    /\ UNCHANGED <<commands, replies, phone>> /\ PhoneUnchanged
-----------------------------------------------------------------------------
RunnerTick == \E stallDue, ackDue, rescueDue, sent \in BOOLEAN :
                  Tick(stallDue, ackDue, rescueDue, sent)

Next ==
    \/ \E t \in Targets : ChangeTarget(t)
    \/ RunnerTick
    \/ ReceiveAnswer \/ ReceiveFrame
    \/ TakePlan \/ TakeEvent
    \/ \E decoded \in BOOLEAN : Count(decoded)
    \/ \E joined \in BOOLEAN : Apply(joined)
    \/ CaptureStart \/ CaptureConfig \/ CaptureFrame
    \/ \E stalled \in BOOLEAN : CaptureFail(stalled)
    \/ CaptureRestart \/ CaptureHang
    \/ LateSend \/ MediaFlip

Spec == Init /\ [][Next]_vars

(* Threads run, the runner ticks, and a timer fires once nothing that it      *)
(* waits for is under way.                                                   *)
DueTick == Tick(~FramesComing, ~AnswerComing, ~FramesComing, TRUE)

Fairness ==
    /\ WF_vars(DueTick) /\ SF_vars(ReceiveAnswer) /\ SF_vars(ReceiveFrame)
    /\ WF_vars(TakePlan) /\ WF_vars(TakeEvent)
    /\ WF_vars(Count(TRUE)) /\ WF_vars(Apply(TRUE))
    /\ WF_vars(CaptureStart) /\ WF_vars(CaptureConfig)
    /\ WF_vars(CaptureFrame) /\ WF_vars(CaptureRestart)

FairSpec == Spec /\ Fairness
-----------------------------------------------------------------------------
TypeOK ==
    /\ target \in Targets /\ watched \in Plans
    /\ link \in [applied : Targets, plan : Plans, pending : Int, rescues : Int,
                 state : States]
    /\ events \in Seq([kind : {"config", "frame"}, rev : Nat, codec : Codecs])
    /\ task \in [plan : Plans, config : Frames \cup {NoFrame}, 
                 player : [codec : Codecs, config : Frames \cup {NoFrame}]
                          \cup {NoPlayer}]
    /\ decoding \in Frames \cup {NoFrame} /\ counted \subseteq Nat
    /\ commands \in Seq(Plans) /\ replies \in Seq(Answers)
    /\ media \subseteq Frames /\ mediaDown \in BOOLEAN
    /\ current \in Nat /\ late \subseteq Frames
    /\ capture \in [rev : Nat, codec : Codecs,
                    failed : BOOLEAN, stale : BOOLEAN,
                    phase : {"starting", "recording", "flowing", "backoff", "hung"}]
                   \cup {NoCapture}
    /\ changes \in 0..MaxChanges /\ faults \in 0..MaxFaults /\ slips \in 0..MaxSlips

(* Everything that carries a revision, with the codec it was made for. *)
RevOf(plan) == [rev |-> plan.revision, codec |-> plan.codec]
Tagged ==
    {RevOf(p) : p \in {link.plan, watched, task.plan}}
    \cup {RevOf(commands[i]) : i \in DOMAIN commands}
    \cup {[rev |-> replies[i].rev, codec |-> replies[i].codec] : i \in DOMAIN replies}
    \cup {[rev |-> events[i].rev, codec |-> events[i].codec] : i \in DOMAIN events}
    \cup ({[rev |-> capture.rev, codec |-> capture.codec], decoding, task.config}
             \ {NoFrame})
    \cup late \cup media

(* A revision stands for one codec: whatever carries it, on either side or on  *)
(* the way, was made for the same codec, and nothing carries a revision that   *)
(* has not been issued (AudioPlan: "retries change the revision too").         *)
RevisionNamesCodec ==
    \A x, y \in Tagged : x.rev <= link.plan.revision /\ (x.rev = y.rev => x.codec = y.codec)

(* A frame that is being decoded meets a decoder of its own codec, which, if   *)
(* it needs a configuration, was made from the one of the frame's revision.    *)
NoForeignAudio ==
    decoding # NoFrame =>
        /\ task.player.codec = decoding.codec
        /\ decoding.codec \in NeedsConfig => task.player.config = decoding

(* What the UI shows is the phone's state: "off" means that the phone has      *)
(* carried out the newest command and captures nothing, and "on" is never      *)
(* shown for a plan that is switched off.                                      *)
RuntimeHonest ==
    /\ link.state = "off" =>
           current = link.plan.revision /\ capture = NoCapture /\ commands = <<>>
    /\ link.state = "on" => link.plan.enabled

(* Every switch is answered or given up.                                      *)
SwitchSettles == link.pending # None ~> link.pending = None

(* The phone's capture hangs and the PC awaits nothing more: it has given up   *)
(* after MaxRetries retries, or the capture is the session's first, whose      *)
(* answer nobody ever awaits, so that the UI shows "starting" for ever.         *)
Unattended ==
    /\ capture.phase = "hung" /\ link.state \in {"starting", "failed"}
    /\ link.pending = None /\ link.rescues = None

(* The send of the last rescue has failed: nothing ever tells the audio task   *)
(* of the plan that the phone may carry out.                                  *)
Stranded == watched # link.plan /\ link.rescues = MaxRetries

(* Once the user and the faults leave the chain alone and the media port gets  *)
(* through, the UI shows for good what the user wants, and the task follows    *)
(* the newest plan.                                                           *)
Settled ==
    /\ link.applied = target /\ link.pending = None /\ task.plan = link.plan
    /\ link.state = IF target.enabled THEN "on" ELSE "off"
Converges == <>[](~mediaDown /\ ~Unattended /\ ~Stranded) => <>[]Settled

(* ... and audio that is wanted is heard: frames are counted again and again.  *)
Plays ==
    <>[](target.enabled /\ ~mediaDown /\ ~Unattended /\ ~Stranded) => []<>(counted # {})

(* FAILED: ... or the stream broke while running.                              *)
SilenceReported ==
    <>[](mediaDown /\ target.enabled) => []<>(link.state # "on")
=============================================================================
