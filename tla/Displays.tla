------------------------------ MODULE Displays ------------------------------
(***************************************************************************)
(* The virtual displays of one client.  The phone's control thread creates,  *)
(* resizes and destroys them; each has an encoder with a thread of its own,   *)
(* which makes the codec and the display, enters the display in the registry  *)
(* and sends configurations and frames.  Configurations and DisplayReady go   *)
(* through the client's one reliable sender, which drops them without a word  *)
(* once it has stalled or close() has stopped it; frames do not.              *)
(*                                                                         *)
(* The registry's monitor is held while the control thread is in destroy or   *)
(* destroyAll; every other use of it is within one action.  Calls into the    *)
(* codec and the display service return in the end, but may take longer than  *)
(* the two seconds the control thread waits.                                 *)
(***************************************************************************)
EXTENDS Naturals, FiniteSets

CONSTANTS MaxDisplays,  \* bound: displays of one client
          Csds,         \* parts in which a codec yields its configuration
          Slow,         \* whether a call may outlast the control thread's wait
          MaxResizes    \* bound: resizes, and one at a time

ASSUME CsdAssumption   == Csds \in Nat \ {0}
ASSUME BoundAssumption == MaxDisplays \in Nat \ {0} /\ MaxResizes \in Nat /\ Slow \in BOOLEAN

VARIABLES
    registry,   \* displays: the ids of its entries
    attached,   \* entries, also one that is being destroyed, with a virtualDisplay
    control,    \* what the control thread waits for, and for which display
    leaving,    \* close() has come to destroyAll
    ready,      \* the displays announced with DisplayReady
    mute,       \* the reliable sender has stalled or been stopped
    encoder,    \* each DisplayEncoder with its thread
    sent,       \* the last configuration, and the codec of the last frame, sent
    overdue     \* displays whose thread has outlived stop()

vars == <<registry, attached, control, leaving, ready, mute, encoder, sent, overdue>>

Ids     == 1..MaxDisplays
Parts   == [gen : Nat, part : Nat]
NoParts == [gen |-> 0, part |-> 0]
Steps   == {"unborn", "codec", "display", "attach", "throw", "loop", "renew", "ended"}
Encoders ==
    [at : Steps, running : BOOLEAN, latched : BOOLEAN, resize : BOOLEAN,
     codec : {"none", "live", "stopped"}, vd : BOOLEAN,
     gen : Nat, csds : Nat, pending : Parts, cached : Nat]

NewEncoder ==
    [at |-> "unborn", running |-> FALSE, latched |-> FALSE, resize |-> FALSE,
     codec |-> "none", vd |-> FALSE, gen |-> 0, csds |-> 0,
     pending |-> NoParts, cached |-> 0]

Free       == [at |-> "idle", id |-> 1]   \* waiting for nothing, on no display
Idle       == control.at = "idle"
Joining(d) == control.at = "join" /\ control.id = d
Held       == control.at = "join" \/ leaving

Init ==
    /\ registry = {} /\ attached = {} /\ ready = {} /\ overdue = {} /\ leaving = FALSE /\ mute = FALSE
    /\ control = Free
    /\ encoder = [d \in Ids |-> NewEncoder]
    /\ sent = [d \in Ids |-> [config |-> NoParts, frame |-> 0]]
-----------------------------------------------------------------------------
(* The control thread.                                                      *)

(* Mutant of CreateDisplay: the id of a display that has been destroyed is given again. *)
CreateDisplayReusing(d) ==
    /\ Idle /\ ~leaving /\ \A e \in Ids : e < d => e \in registry
    /\ d \notin registry /\ registry' = registry \cup {d}
    /\ encoder' = [encoder EXCEPT ![d] = [NewEncoder EXCEPT !.at = "codec", !.running = TRUE]]
    /\ control' = [at |-> "await", id |-> d]
    /\ UNCHANGED <<attached, leaving, ready, mute, sent, overdue>>

CreateDisplay(d) ==
    /\ Idle /\ ~leaving /\ \A e \in Ids : encoder[e].at = "unborn" <=> e >= d
    /\ registry' = registry \cup {d}
    /\ encoder' = [encoder EXCEPT ![d].at = "codec", ![d].running = TRUE]
    /\ control' = [at |-> "await", id |-> d]
    /\ UNCHANGED <<attached, leaving, ready, mute, sent, overdue>>

(* destroy, up to the join in stopEncoderThread *)
Destroy(d) ==
    /\ registry' = registry \ {d}
    /\ encoder' = [encoder EXCEPT ![d].running = FALSE,
                                  ![d].codec = IF @ = "live" THEN "stopped" ELSE @]
    /\ control' = [at |-> "join", id |-> d]
    /\ UNCHANGED <<attached, leaving, mute, sent, overdue>>

(* createDisplay goes on when the latch is released, or after two seconds *)
Announce(d) ==
    /\ control = [at |-> "await", id |-> d]
    /\ encoder[d].latched \/ Slow
    /\ \/ /\ encoder[d].running
          /\ ready' = IF mute THEN ready ELSE ready \cup {d}
          /\ control' = Free
          /\ UNCHANGED <<registry, attached, leaving, mute, encoder, sent, overdue>>
       \/ ~encoder[d].running /\ Destroy(d) /\ UNCHANGED ready

ResizeDisplay(d) ==
    /\ Idle /\ ~leaving /\ d \in ready \cap registry
    /\ \A e \in Ids : encoder[e].gen <= MaxResizes /\ ~encoder[e].resize
    /\ encoder' = [encoder EXCEPT ![d].resize = TRUE]
    /\ UNCHANGED <<registry, attached, control, leaving, ready, mute, sent, overdue>>

DestroyDisplay(d) ==
    Idle /\ ~leaving /\ d \in ready \cap registry /\ Destroy(d) /\ UNCHANGED ready

(* close() stops the sender, and comes to destroyAll *)
Leave ==
    /\ Idle /\ ~leaving /\ leaving' = TRUE /\ mute' = TRUE
    /\ UNCHANGED <<registry, attached, control, ready, encoder, sent, overdue>>

DestroyNext(d) == Idle /\ leaving /\ d \in registry /\ Destroy(d) /\ UNCHANGED ready

Left ==
    /\ Idle /\ leaving /\ registry = {}
    /\ control' = [control EXCEPT !.at = "closed"] /\ leaving' = FALSE
    /\ UNCHANGED <<registry, attached, ready, mute, encoder, sent, overdue>>

(* Mutant of Joined: stop() waits for the thread without a limit. *)
JoinedAtLast(d) == encoder[d].at = "ended"

(* When stop may go on after codec.stop() *)
Joined(d) == encoder[d].at = "ended" \/ Slow

(* Mutant of Released: destroy releases the virtual display, but not the codec. *)
ReleasedDisplay(e, entered) == [e EXCEPT !.vd = @ /\ ~entered]

(* What the end of destroy releases of an encoder *)
Released(e, entered) == [e EXCEPT !.codec = "none", !.vd = @ /\ ~entered]

(* the thread has ended, or two seconds have passed *)
StopEnds(d) ==
    /\ Joining(d) /\ Joined(d)
    /\ encoder' = [encoder EXCEPT ![d] = Released(@, d \in attached)]
    /\ attached' = attached \ {d}
    /\ overdue' = IF encoder[d].at = "ended" THEN overdue ELSE overdue \cup {d}
    /\ control' = Free
    /\ UNCHANGED <<registry, leaving, ready, mute, sent>>

(* retransmit has sent a fragment too often: the sender is stalled for good, and    *)
(* neither display nor client is closed for it.                                    *)
SenderStalls ==
    /\ ~mute /\ mute' = TRUE
    /\ UNCHANGED <<registry, attached, control, leaving, ready, encoder, sent, overdue>>
-----------------------------------------------------------------------------
(* The encoder's thread.                                                    *)

Stays == UNCHANGED <<registry, control, leaving, ready, mute, overdue>>

(* createCodec up to codec.start(), at the start or in performResize *)
MakeCodec(d) ==
    /\ \/ encoder[d].at = "codec" /\ encoder' = [encoder EXCEPT
                ![d].at = "display", ![d].codec = "live", ![d].gen = @ + 1, ![d].csds = 0]
       \/ encoder[d].at = "renew" /\ encoder' = [encoder EXCEPT
                ![d].at = "loop", ![d].codec = "live", ![d].gen = @ + 1, ![d].csds = 0]
    /\ Stays /\ UNCHANGED <<attached, sent>>

MakeDisplay(d) ==
    /\ encoder[d].at = "display"
    /\ encoder' = [encoder EXCEPT ![d].at = "attach", ![d].vd = TRUE]
    /\ Stays /\ UNCHANGED <<attached, sent>>

AttachVirtualDisplay(d) ==
    /\ encoder[d].at = "attach" /\ ~Held
    /\ attached' = attached \cup ({d} \cap registry)
    /\ encoder' = [encoder EXCEPT ![d].at = "loop", ![d].latched = TRUE]
    /\ Stays /\ UNCHANGED sent

(* createCodec throws: an IOException on its way to encodeLoop's handler, or a     *)
(* RuntimeException, which ends the thread and leaves `running` as it is.          *)
CreateFails(d) ==
    /\ encoder[d].at \in {"codec", "display"}
    /\ \E to \in {"throw", "ended"} :
          encoder' = [encoder EXCEPT ![d].at = to, ![d].codec = "none", ![d].latched = TRUE]
    /\ Stays /\ UNCHANGED <<attached, sent>>

Catch(d) ==
    /\ encoder[d].at = "throw"
    /\ encoder' = [encoder EXCEPT ![d].at = "ended", ![d].running = FALSE]
    /\ Stays /\ UNCHANGED <<attached, sent>>

(* performResize, up to the new codec.  The look at `running` came before.         *)
PerformResize(d) ==
    /\ encoder[d].at = "loop" /\ encoder[d].resize
    /\ encoder' = [encoder EXCEPT ![d].at = "renew", ![d].resize = FALSE,
                                  ![d].codec = "none", ![d].cached = 0]
    /\ Stays /\ UNCHANGED <<attached, sent>>

RenewFails(d) ==
    /\ encoder[d].at = "renew"
    /\ encoder' = [encoder EXCEPT ![d].at = "loop", ![d].codec = "none", ![d].running = FALSE]
    /\ Stays /\ UNCHANGED <<attached, sent>>

Encodes(d) == encoder[d].at = "loop" /\ encoder[d].codec = "live"

(* Mutant of SendConfig: it sends each part at once. *)
SendConfigAtOnce(d) ==
    /\ Encodes(d) /\ encoder[d].csds < Csds
    /\ encoder' = [encoder EXCEPT ![d].csds = @ + 1]
    /\ sent' = [sent EXCEPT ![d].config = [gen |-> encoder[d].gen, part |-> encoder[d].csds + 1]]
    /\ Stays /\ UNCHANGED attached

(* sendConfig: kept until a frame comes *)
SendConfig(d) ==
    /\ Encodes(d) /\ encoder[d].csds < Csds
    /\ encoder' = [encoder EXCEPT
          ![d].csds = @ + 1,
          ![d].pending = [gen |-> encoder[d].gen, part |-> encoder[d].csds + 1]]
    /\ Stays /\ UNCHANGED <<attached, sent>>

(* sendData, with the configuration that has been kept, which a mute sender drops *)
SendData(d) ==
    /\ Encodes(d) /\ encoder[d].csds = Csds
    /\ sent' = [sent EXCEPT ![d] =
          [config |-> IF encoder[d].pending # NoParts /\ ~mute THEN encoder[d].pending ELSE @.config,
           frame  |-> encoder[d].gen]]
    /\ encoder' = [encoder EXCEPT ![d].pending = NoParts, ![d].cached = encoder[d].gen]
    /\ Stays /\ UNCHANGED attached

(* resendLastFrameIfStarved *)
ResendLastFrame(d) ==
    /\ Encodes(d) /\ encoder[d].cached # 0
    /\ sent' = [sent EXCEPT ![d].frame = encoder[d].cached]
    /\ Stays /\ UNCHANGED <<attached, encoder>>

(* not running, the codec stopped under it, gone, failed or at its end; what the   *)
(* thread has kept is read by nobody then                                           *)
LoopEnds(d) ==
    /\ encoder[d].at = "loop"
    /\ encoder' = [encoder EXCEPT ![d].at = "ended", ![d].csds = 0,
                                  ![d].pending = NoParts, ![d].cached = 0]
    /\ Stays /\ UNCHANGED <<attached, sent>>
-----------------------------------------------------------------------------
Requests(d) == CreateDisplay(d) \/ ResizeDisplay(d) \/ DestroyDisplay(d)
GoesOn(d)   == Announce(d) \/ DestroyNext(d) \/ StopEnds(d)
Makes(d)    == MakeCodec(d) \/ MakeDisplay(d) \/ AttachVirtualDisplay(d) \/ CreateFails(d) \/ Catch(d) \/ RenewFails(d)
Streams(d)  == SendConfig(d) \/ SendData(d) \/ ResendLastFrame(d)
Leaves(d)   == encoder[d].at = "loop" /\ ~encoder[d].running /\ (PerformResize(d) \/ LoopEnds(d))

Next ==
    \/ Leave \/ Left \/ SenderStalls
    \/ \E d \in Ids : Requests(d) \/ GoesOn(d) \/ Makes(d) \/ Streams(d) \/ PerformResize(d) \/ LoopEnds(d)

Spec == Init /\ [][Next]_vars

(* Threads run and calls return; a loop that is running need never end. *)
FairSpec ==
    /\ Spec /\ WF_vars(Left \/ \E d \in Ids : GoesOn(d))
    /\ \A d \in Ids : WF_vars(Makes(d) \/ Leaves(d))
-----------------------------------------------------------------------------
TypeOK ==
    /\ registry \subseteq Ids /\ attached \subseteq Ids /\ ready \subseteq Ids /\ overdue \subseteq Ids
    /\ control \in [at : {"idle", "await", "join", "closed"}, id : Ids]
    /\ leaving \in BOOLEAN /\ mute \in BOOLEAN
    /\ encoder \in [Ids -> Encoders]
    /\ sent \in [Ids -> [config : Parts, frame : Nat]]

(* A display that is destroyed keeps neither codec nor virtual display nor thread,  *)
(* unless its thread has outlived the two seconds of stop() (DisplayRegistry.destroy). *)
NothingKept ==
    \A d \in Ids :
        encoder[d].at # "unborn" /\ d \notin registry \cup overdue /\ ~Joining(d) =>
            encoder[d].at = "ended" /\ encoder[d].codec = "none" /\ ~encoder[d].vd

(* encodeLoop has a codec while it runs: it never spins (codec == null).            *)
NeverSpins ==
    \A d \in Ids : encoder[d].at = "loop" /\ encoder[d].running => encoder[d].codec = "live"

(* Input for a display in the registry finds the virtual display of that encoder.   *)
EntriesOK ==
    /\ attached \subseteq registry \cup {d \in Ids : Joining(d)}
    /\ \A d \in attached : encoder[d].vd /\ encoder[d].at \in {"loop", "renew", "ended"}
    /\ registry \subseteq {d \in Ids : encoder[d].at # "unborn"}

DisplaysInv == TypeOK /\ EntriesOK /\ NothingKept /\ NeverSpins

Complete(gen) == [gen |-> gen, part |-> Csds]

(* A frame is behind the complete configuration of the codec that made it, or, its   *)
(* configuration dropped by a mute sender, behind one of an older codec or none, and *)
(* no part of a configuration is ever sent: the decoder is never opened with a part  *)
(* (DisplayEncoder.sendConfig), nor given an older codec's frames.                   *)
FramesDecodable ==
    \A d \in Ids :
        /\ sent[d].config \in {NoParts, Complete(sent[d].config.gen)}
        /\ \/ sent[d].config.gen = sent[d].frame
           \/ mute /\ sent[d].config.gen < sent[d].frame

(* How far a display has come, by what is sent of it.  Destroyed, it is ending until *)
(* its thread has ended, which may be after the two seconds of stop().               *)
Phase(d) ==
    IF d \in registry THEN IF d \in ready THEN "announced" ELSE "made"
    ELSE CASE encoder[d].at = "unborn" -> "none"
           [] encoder[d].at = "ended"  -> "ended"
           [] OTHER                    -> "ending"

Life == INSTANCE DisplayLife WITH Displays <- Ids, Whole <- Csds,
            phase <- [d \in Ids |-> Phase(d)], shown <- sent, cut <- mute

(* From CREATE_DISPLAY to the last frame: announced at most once, while it is in the  *)
(* registry and the sender speaks; no frame of an older codec behind one of a newer,  *)
(* though a codec is replaced on a resize and its last frame is resent; a codec's     *)
(* configuration ahead of its first frame, and kept from the frames after it only if  *)
(* the sender was mute by then; none after the end (DisplayRegistry, DisplayEncoder). *)
ImplementsDisplays == Life!Spec

(* Destroying a display ends, and so does its encoder's thread, although the control *)
(* thread holds the registry's monitor while it waits for that thread.               *)
DestroyEnds ==
    \A d \in Ids : Joining(d) ~> (encoder[d].at = "ended" /\ ~Joining(d))

(* The comment in createDisplay: DisplayReady waits until the virtual display is     *)
(* attached, since input would go to the phone's own screen before.                  *)
ReadyAttached == ready \cap registry \subseteq attached
=============================================================================
