---------------------------- MODULE DisplayProofs ----------------------------
(***************************************************************************)
(* Proofs about Displays: what a display that is destroyed leaves behind, and *)
(* what is sent of it.  LifeInv is the inductive invariant: of each display, it *)
(* relates registry, control thread and encoder (EncoderOK), and its codec to   *)
(* what has been sent (StreamOK).                                             *)
(***************************************************************************)
EXTENDS Displays, TLAPS

(* What registry, control thread and encoder say of one display *)
EncoderOK(d) ==
    /\ d \in attached => /\ d \in registry \/ Joining(d)
                         /\ encoder[d].vd /\ encoder[d].at \in {"loop", "renew", "ended"}
    /\ d \in registry => encoder[d].at # "unborn"
    /\ Joining(d) => d \notin registry /\ ~encoder[d].running /\ encoder[d].at # "unborn"
    /\ control = [at |-> "await", id |-> d] => d \in registry
    /\ encoder[d].at # "unborn" /\ d \notin registry \cup overdue /\ ~Joining(d) =>
          encoder[d].at = "ended" /\ encoder[d].codec = "none" /\ ~encoder[d].vd
    /\ encoder[d].at \in {"display", "attach", "loop"} /\ encoder[d].running => encoder[d].codec = "live"
    /\ encoder[d].at \in {"unborn", "codec", "display", "throw"} => ~encoder[d].vd
    /\ encoder[d].vd /\ d \notin attached \cup overdue => encoder[d].at = "attach"
    /\ encoder[d].at = "attach" => encoder[d].vd

(* What has been sent of it, and what its codec has yielded *)
StreamOK(d) ==
    /\ encoder[d].codec = "live" => encoder[d].gen # 0
    /\ encoder[d].csds # 0 =>
          \/ encoder[d].pending = [gen |-> encoder[d].gen, part |-> encoder[d].csds]
          \/ /\ encoder[d].pending = NoParts
             /\ mute \/ sent[d].config = [gen |-> encoder[d].gen, part |-> encoder[d].csds]
    /\ encoder[d].cached # 0 => sent[d].frame = encoder[d].cached
    /\ sent[d].frame <= encoder[d].gen
    /\ sent[d].config \in {NoParts, Complete(sent[d].config.gen)}
    /\ sent[d].config.gen = sent[d].frame \/ (mute /\ sent[d].config.gen < sent[d].frame)

LifeInv == TypeOK /\ \A d \in Ids : EncoderOK(d) /\ StreamOK(d)

-----------------------------------------------------------------------------
(* What a step of one display leaves as it is.                              *)

LEMMA EncoderFields ==
    ASSUME NEW e \in Encoders
    PROVE  /\ e.at \in Steps /\ e.running \in BOOLEAN /\ e.latched \in BOOLEAN /\ e.resize \in BOOLEAN
           /\ e.codec \in {"none", "live", "stopped"} /\ e.vd \in BOOLEAN
           /\ e.gen \in Nat /\ e.csds \in Nat /\ e.pending \in Parts /\ e.cached \in Nat
BY DEF Encoders

(* The parts of LifeInv about display d *)
LEMMA Here ==
    ASSUME LifeInv, NEW d \in Ids
    PROVE  encoder[d] \in Encoders /\ TypeOK /\ EncoderOK(d) /\ StreamOK(d)
BY DEF LifeInv, TypeOK

LEMMA Becomes ==
    ASSUME TypeOK, NEW d \in Ids, NEW r \in Encoders, encoder' = [encoder EXCEPT ![d] = r]
    PROVE  /\ encoder' \in [Ids -> Encoders] /\ encoder'[d] = r
           /\ \A e \in Ids : e # d => encoder'[e] = encoder[e]
BY DEF TypeOK

LEMMA FirstId == 1 \in Ids
BY BoundAssumption DEF Ids

LEMMA OthersStay ==
    ASSUME LifeInv, NEW d \in Ids, NEW e \in Ids, e # d,
           encoder'[e] = encoder[e], sent'[e] = sent[e], mute => mute',
           e \in registry' <=> e \in registry, e \in attached' <=> e \in attached,
           e \in overdue' <=> e \in overdue,
           Joining(e)' <=> Joining(e),
           control' = [at |-> "await", id |-> e] => control = [at |-> "await", id |-> e]
    PROVE  (EncoderOK(e) /\ StreamOK(e))'
BY DEF LifeInv, EncoderOK, StreamOK

(* A step of an encoder's thread has only its own display to answer for. *)
LEMMA ThreadStep ==
    ASSUME LifeInv, NEW d \in Ids, NEW r \in Encoders, encoder' = [encoder EXCEPT ![d] = r], Stays,
           attached' \subseteq Ids, \A e \in Ids : e # d => (e \in attached' <=> e \in attached),
           sent' \in [Ids -> [config : Parts, frame : Nat]],
           \A e \in Ids : e # d => sent'[e] = sent[e],
           EncoderOK(d)', StreamOK(d)'
    PROVE  LifeInv'
<1>1. /\ encoder' \in [Ids -> Encoders]
      /\ \A e \in Ids : e # d => encoder'[e] = encoder[e]
      BY Here, Becomes
<1>2. TypeOK'
      BY <1>1, Here DEF TypeOK, Stays
<1>3. ASSUME NEW e \in Ids, e # d
      PROVE  (EncoderOK(e) /\ StreamOK(e))'
  <2>1. Joining(e)' <=> Joining(e)
        BY DEF Stays, Joining
  <2>2. QED BY <1>1, <1>3, <2>1, OthersStay DEF Stays
<1>4. QED BY <1>2, <1>3 DEF LifeInv
-----------------------------------------------------------------------------
(* The control thread.                                                      *)

LEMMA CreateDisplayInv ==
    ASSUME LifeInv, NEW d \in Ids, CreateDisplay(d)
    PROVE  LifeInv'
<1> DEFINE r == [encoder[d] EXCEPT !.at = "codec", !.running = TRUE]
<1>1. encoder[d].at = "unborn"
      BY DEF CreateDisplay, Ids
<1>2. r \in Encoders
      BY Here, EncoderFields DEF Encoders, Steps
<1>3. encoder' = [encoder EXCEPT ![d] = r]
      BY Here DEF TypeOK, CreateDisplay
<1>4. /\ encoder' \in [Ids -> Encoders] /\ encoder'[d] = r
      /\ \A e \in Ids : e # d => encoder'[e] = encoder[e]
      BY Here, <1>2, <1>3, Becomes
<1>5. TypeOK'
      BY Here, <1>4 DEF TypeOK, CreateDisplay
<1>6. EncoderOK(d)'
      BY Here, <1>1, <1>4, EncoderFields DEF EncoderOK, Joining, CreateDisplay
<1>7. StreamOK(d)'
      BY Here, <1>4, EncoderFields DEF StreamOK, CreateDisplay
<1>8. ASSUME NEW e \in Ids, e # d
      PROVE  (EncoderOK(e) /\ StreamOK(e))'
  <2>1. Joining(e)' <=> Joining(e)
        BY DEF CreateDisplay, Idle, Joining
  <2>2. QED BY <1>4, <1>8, <2>1, OthersStay DEF CreateDisplay
<1>9. QED BY <1>5, <1>6, <1>7, <1>8 DEF LifeInv

(* destroy takes the entry out, and waits for the thread from then on. *)
LEMMA DestroyInv ==
    ASSUME LifeInv, NEW d \in Ids, Destroy(d), UNCHANGED ready,
           d \in registry, control.at = "idle" \/ control = [at |-> "await", id |-> d]
    PROVE  LifeInv'
<1> DEFINE r == [encoder[d] EXCEPT !.running = FALSE,
                     !.codec = IF encoder[d].codec = "live" THEN "stopped" ELSE encoder[d].codec]
<1>1. encoder[d].at # "unborn"
      BY Here DEF EncoderOK
<1>2. r \in Encoders
      BY Here, EncoderFields DEF Encoders
<1>3. encoder' = [encoder EXCEPT ![d] = r]
      BY Here DEF TypeOK, Destroy
<1>4. /\ encoder' \in [Ids -> Encoders] /\ encoder'[d] = r
      /\ \A e \in Ids : e # d => encoder'[e] = encoder[e]
      BY Here, <1>2, <1>3, Becomes
<1>5. TypeOK'
      BY Here, <1>4 DEF TypeOK, Destroy
<1>6. EncoderOK(d)'
      BY Here, <1>1, <1>4, EncoderFields DEF EncoderOK, Joining, Destroy
<1>7. StreamOK(d)'
      BY Here, <1>4, EncoderFields DEF StreamOK, Destroy
<1>8. ASSUME NEW e \in Ids, e # d
      PROVE  (EncoderOK(e) /\ StreamOK(e))'
  <2>1. ~Joining(e) /\ ~Joining(e)'
        BY <1>8 DEF Destroy, Joining
  <2>2. QED BY <1>4, <1>8, <2>1, OthersStay DEF Destroy
<1>9. QED BY <1>5, <1>6, <1>7, <1>8 DEF LifeInv

LEMMA AnnounceInv ==
    ASSUME LifeInv, NEW d \in Ids, Announce(d)
    PROVE  LifeInv'
<1>1. d \in registry
      BY Here DEF Announce, EncoderOK
<1>2. CASE encoder[d].running
  <2>1. /\ control' = Free /\ ready' \in {ready, ready \cup {d}}
        /\ UNCHANGED <<registry, attached, leaving, mute, encoder, sent, overdue>>
        BY <1>2 DEF Announce
  <2>2. TypeOK'
        BY Here, <2>1, FirstId DEF TypeOK, Free
  <2>3. ASSUME NEW e \in Ids PROVE (EncoderOK(e) /\ StreamOK(e))'
        BY Here, <2>1 DEF EncoderOK, StreamOK, Joining, Announce, Free
  <2>4. QED BY <2>2, <2>3 DEF LifeInv
<1>3. CASE ~encoder[d].running
      BY <1>1, <1>3, DestroyInv DEF Announce
<1>4. QED BY <1>2, <1>3

LEMMA ResizeDisplayInv ==
    ASSUME LifeInv, NEW d \in Ids, ResizeDisplay(d)
    PROVE  LifeInv'
<1> DEFINE r == [encoder[d] EXCEPT !.resize = TRUE]
<1>1. r \in Encoders
      BY Here, EncoderFields DEF Encoders
<1>2. encoder' = [encoder EXCEPT ![d] = r]
      BY Here DEF TypeOK, ResizeDisplay
<1>3. encoder'[d] = r
      BY Here, <1>1, <1>2, Becomes
<1>4. EncoderOK(d)'
      BY Here, <1>3, EncoderFields DEF EncoderOK, Joining, ResizeDisplay
<1>5. StreamOK(d)'
      BY Here, <1>3, EncoderFields DEF StreamOK, ResizeDisplay
<1>6. QED BY Here, <1>1, <1>2, <1>4, <1>5, ThreadStep DEF TypeOK, ResizeDisplay, Stays

LEMMA DestroyDisplayInv ==
    ASSUME LifeInv, NEW d \in Ids, DestroyDisplay(d) \/ DestroyNext(d)
    PROVE  LifeInv'
BY DestroyInv DEF DestroyDisplay, DestroyNext, Idle

(* What the end of destroy leaves is released, or the thread is overdue. *)
LEMMA StopEndsInv ==
    ASSUME LifeInv, NEW d \in Ids, StopEnds(d)
    PROVE  LifeInv'
<1> DEFINE r == Released(encoder[d], d \in attached)
<1>1. r \in Encoders
      BY Here, EncoderFields DEF Encoders, Released
<1>2. encoder' = [encoder EXCEPT ![d] = r]
      BY Here DEF TypeOK, StopEnds
<1>3. /\ encoder' \in [Ids -> Encoders] /\ encoder'[d] = r
      /\ \A e \in Ids : e # d => encoder'[e] = encoder[e]
      BY Here, <1>1, <1>2, Becomes
<1>4. TypeOK'
      BY Here, <1>3, FirstId DEF TypeOK, StopEnds, Free
<1>5. EncoderOK(d)'
      BY Here, <1>3, EncoderFields DEF EncoderOK, Joining, StopEnds, Released, Free
<1>6. StreamOK(d)'
      BY Here, <1>3, EncoderFields DEF StreamOK, StopEnds, Released
<1>7. ASSUME NEW e \in Ids, e # d
      PROVE  (EncoderOK(e) /\ StreamOK(e))'
  <2>1. ~Joining(e) /\ ~Joining(e)'
        BY <1>7 DEF StopEnds, Joining, Free
  <2>2. QED BY <1>3, <1>7, <2>1, OthersStay DEF StopEnds, Free
<1>8. QED BY <1>4, <1>5, <1>6, <1>7 DEF LifeInv

LEMMA LeaveInv ==
    ASSUME LifeInv, Leave \/ Left \/ SenderStalls
    PROVE  LifeInv'
<1>1. TypeOK'
      BY DEF LifeInv, TypeOK, Leave, Left, SenderStalls, Idle
<1>2. ASSUME NEW e \in Ids PROVE (EncoderOK(e) /\ StreamOK(e))'
  <2>1. UNCHANGED <<registry, attached, encoder, sent, overdue>> /\ (mute => mute')
        BY DEF Leave, Left, SenderStalls
  <2>2. Joining(e)' <=> Joining(e)
        BY Here DEF TypeOK, Leave, Left, SenderStalls, Idle, Joining
  <2>3. control' = [at |-> "await", id |-> e] => control = [at |-> "await", id |-> e]
        BY Here DEF TypeOK, Leave, Left, SenderStalls, Idle
  <2>4. QED BY Here, <2>1, <2>2, <2>3 DEF EncoderOK, StreamOK
<1>3. QED BY <1>1, <1>2 DEF LifeInv
-----------------------------------------------------------------------------
(* The encoder's thread.                                                    *)

LEMMA MakeCodecInv ==
    ASSUME LifeInv, NEW d \in Ids, MakeCodec(d)
    PROVE  LifeInv'
<1>0. PICK to \in {"display", "loop"} :
          /\ to = "display" <=> encoder[d].at = "codec"
          /\ encoder' = [encoder EXCEPT ![d].at = to, ![d].codec = "live", ![d].gen = @ + 1, ![d].csds = 0]
      BY DEF MakeCodec
<1> DEFINE r == [encoder[d] EXCEPT !.at = to, !.codec = "live", !.gen = encoder[d].gen + 1, !.csds = 0]
<1>1. /\ encoder[d].at \in {"codec", "renew"}
      /\ UNCHANGED <<registry, control, leaving, ready, mute, overdue, attached, sent>>
      BY DEF MakeCodec, Stays
<1>2. r \in Encoders
  <2>1. encoder[d].gen + 1 \in Nat
        BY Here, EncoderFields
  <2>2. QED BY Here, <2>1 DEF Encoders, Steps
<1>3. encoder' = [encoder EXCEPT ![d] = r]
      BY Here, <1>0 DEF TypeOK, MakeCodec
<1>4. encoder'[d] = r
      BY Here, <1>2, <1>3, Becomes
<1>5. EncoderOK(d)'
  <2>1. /\ encoder'[d].at = to /\ encoder'[d].codec = "live"
        /\ encoder'[d].running = encoder[d].running /\ encoder'[d].vd = encoder[d].vd
        BY Here, <1>4 DEF Encoders
  <2>2. d \in attached => to = "loop"
        BY Here, <1>0, <1>1 DEF EncoderOK
  <2>3. encoder[d].vd => to = "loop" /\ d \in attached \cup overdue
        BY Here, <1>0, <1>1 DEF EncoderOK
  <2>4. QED BY Here, <1>1, <2>1, <2>2, <2>3 DEF EncoderOK, Joining
<1>6. StreamOK(d)'
  <2>1. encoder'[d].csds = 0 /\ encoder'[d].cached = encoder[d].cached
        BY Here, <1>4 DEF Encoders
  <2>2. encoder'[d].gen = encoder[d].gen + 1 /\ encoder[d].gen \in Nat /\ sent[d].frame \in Nat
        BY Here, <1>4 DEF TypeOK, Encoders
  <2>3. encoder[d].gen + 1 # 0 /\ (sent[d].frame <= encoder[d].gen => sent[d].frame <= encoder[d].gen + 1)
        BY <2>2
  <2>4. QED BY Here, <1>1, <2>1, <2>2, <2>3 DEF StreamOK
<1>7. QED BY Here, <1>1, <1>2, <1>3, <1>5, <1>6, ThreadStep DEF TypeOK, Stays

LEMMA MakeDisplayInv ==
    ASSUME LifeInv, NEW d \in Ids, MakeDisplay(d)
    PROVE  LifeInv'
<1> DEFINE r == [encoder[d] EXCEPT !.at = "attach", !.vd = TRUE]
<1>1. /\ encoder[d].at = "display"
      /\ UNCHANGED <<registry, control, leaving, ready, mute, overdue, attached, sent>>
      BY DEF MakeDisplay, Stays
<1>2. r \in Encoders
      BY Here, EncoderFields DEF Encoders, Steps
<1>3. encoder' = [encoder EXCEPT ![d] = r]
      BY Here DEF TypeOK, MakeDisplay
<1>4. encoder'[d] = r
      BY Here, <1>2, <1>3, Becomes
<1>5. EncoderOK(d)'
      BY Here, <1>1, <1>4, EncoderFields DEF EncoderOK, Joining
<1>6. StreamOK(d)'
      BY Here, <1>1, <1>4, EncoderFields DEF StreamOK
<1>7. QED BY Here, <1>1, <1>2, <1>3, <1>5, <1>6, ThreadStep DEF TypeOK, Stays

LEMMA AttachInv ==
    ASSUME LifeInv, NEW d \in Ids, AttachVirtualDisplay(d)
    PROVE  LifeInv'
<1> DEFINE r == [encoder[d] EXCEPT !.at = "loop", !.latched = TRUE]
<1>1. /\ encoder[d].at = "attach" /\ ~Joining(d) /\ d \in registry \cup overdue
      /\ attached' = attached \cup ({d} \cap registry)
      /\ UNCHANGED <<registry, control, leaving, ready, mute, overdue, sent>>
      BY Here DEF AttachVirtualDisplay, Held, Joining, EncoderOK, Stays
<1>2. r \in Encoders
      BY Here, EncoderFields DEF Encoders, Steps
<1>3. encoder' = [encoder EXCEPT ![d] = r]
      BY Here DEF TypeOK, AttachVirtualDisplay, Held, Joining, EncoderOK
<1>4. encoder'[d] = r
      BY Here, <1>2, <1>3, Becomes
<1>5. EncoderOK(d)'
  <2>1. /\ encoder'[d].at = "loop" /\ encoder'[d].codec = encoder[d].codec
        /\ encoder'[d].running = encoder[d].running /\ encoder'[d].vd = encoder[d].vd
        BY Here, <1>4 DEF Encoders
  <2>2. d \in attached' <=> d \in registry
        BY Here, <1>1 DEF EncoderOK
  <2>3. QED BY Here, <1>1, <2>1, <2>2 DEF EncoderOK, Joining
<1>6. StreamOK(d)'
      BY Here, <1>1, <1>4, EncoderFields DEF StreamOK
<1>7. QED BY Here, <1>1, <1>2, <1>3, <1>5, <1>6, ThreadStep DEF TypeOK, Stays

LEMMA CreateFailsInv ==
    ASSUME LifeInv, NEW d \in Ids, CreateFails(d)
    PROVE  LifeInv'
<1>0. PICK to \in {"throw", "ended"} :
          encoder' = [encoder EXCEPT ![d].at = to, ![d].codec = "none", ![d].latched = TRUE]
      BY DEF CreateFails
<1> DEFINE r == [encoder[d] EXCEPT !.at = to, !.codec = "none", !.latched = TRUE]
<1>1. /\ encoder[d].at \in {"codec", "display"}
      /\ UNCHANGED <<registry, control, leaving, ready, mute, overdue, attached, sent>>
      BY DEF CreateFails, Stays
<1>2. r \in Encoders
      BY Here, EncoderFields DEF Encoders, Steps
<1>3. encoder' = [encoder EXCEPT ![d] = r]
      BY Here, <1>0 DEF TypeOK, CreateFails
<1>4. encoder'[d] = r
      BY Here, <1>2, <1>3, Becomes
<1>5. EncoderOK(d)'
  <2>1. /\ encoder'[d].at = to /\ encoder'[d].codec = "none"
        /\ encoder'[d].running = encoder[d].running /\ encoder'[d].vd = encoder[d].vd
        BY Here, <1>4 DEF Encoders
  <2>2. d \notin attached /\ ~encoder[d].vd
        BY Here, <1>1 DEF EncoderOK
  <2>3. QED BY Here, <1>1, <2>1, <2>2 DEF EncoderOK, Joining
<1>6. StreamOK(d)'
      BY Here, <1>1, <1>4, EncoderFields DEF StreamOK
<1>7. QED BY Here, <1>1, <1>2, <1>3, <1>5, <1>6, ThreadStep DEF TypeOK, Stays

LEMMA CatchInv ==
    ASSUME LifeInv, NEW d \in Ids, Catch(d)
    PROVE  LifeInv'
<1> DEFINE r == [encoder[d] EXCEPT !.at = "ended", !.running = FALSE]
<1>1. /\ encoder[d].at = "throw"
      /\ UNCHANGED <<registry, control, leaving, ready, mute, overdue, attached, sent>>
      BY DEF Catch, Stays
<1>2. r \in Encoders
      BY Here, EncoderFields DEF Encoders, Steps
<1>3. encoder' = [encoder EXCEPT ![d] = r]
      BY Here DEF TypeOK, Catch
<1>4. encoder'[d] = r
      BY Here, <1>2, <1>3, Becomes
<1>5. EncoderOK(d)'
      BY Here, <1>1, <1>4, EncoderFields DEF EncoderOK, Joining
<1>6. StreamOK(d)'
      BY Here, <1>1, <1>4, EncoderFields DEF StreamOK
<1>7. QED BY Here, <1>1, <1>2, <1>3, <1>5, <1>6, ThreadStep DEF TypeOK, Stays

LEMMA PerformResizeInv ==
    ASSUME LifeInv, NEW d \in Ids, PerformResize(d)
    PROVE  LifeInv'
<1> DEFINE r == [encoder[d] EXCEPT !.at = "renew", !.resize = FALSE, !.codec = "none", !.cached = 0]
<1>1. /\ encoder[d].at = "loop"
      /\ UNCHANGED <<registry, control, leaving, ready, mute, overdue, attached, sent>>
      BY DEF PerformResize, Stays
<1>2. r \in Encoders
      BY Here, EncoderFields DEF Encoders, Steps
<1>3. encoder' = [encoder EXCEPT ![d] = r]
      BY Here DEF TypeOK, PerformResize
<1>4. encoder'[d] = r
      BY Here, <1>2, <1>3, Becomes
<1>5. EncoderOK(d)'
      BY Here, <1>1, <1>4, EncoderFields DEF EncoderOK, Joining
<1>6. StreamOK(d)'
      BY Here, <1>1, <1>4, EncoderFields DEF StreamOK
<1>7. QED BY Here, <1>1, <1>2, <1>3, <1>5, <1>6, ThreadStep DEF TypeOK, Stays

LEMMA RenewFailsInv ==
    ASSUME LifeInv, NEW d \in Ids, RenewFails(d)
    PROVE  LifeInv'
<1> DEFINE r == [encoder[d] EXCEPT !.at = "loop", !.codec = "none", !.running = FALSE]
<1>1. /\ encoder[d].at = "renew"
      /\ UNCHANGED <<registry, control, leaving, ready, mute, overdue, attached, sent>>
      BY DEF RenewFails, Stays
<1>2. r \in Encoders
      BY Here, EncoderFields DEF Encoders, Steps
<1>3. encoder' = [encoder EXCEPT ![d] = r]
      BY Here DEF TypeOK, RenewFails
<1>4. encoder'[d] = r
      BY Here, <1>2, <1>3, Becomes
<1>5. EncoderOK(d)'
      BY Here, <1>1, <1>4, EncoderFields DEF EncoderOK, Joining
<1>6. StreamOK(d)'
      BY Here, <1>1, <1>4, EncoderFields DEF StreamOK
<1>7. QED BY Here, <1>1, <1>2, <1>3, <1>5, <1>6, ThreadStep DEF TypeOK, Stays

LEMMA SendConfigInv ==
    ASSUME LifeInv, NEW d \in Ids, SendConfig(d)
    PROVE  LifeInv'
<1> DEFINE p == [gen |-> encoder[d].gen, part |-> encoder[d].csds + 1]
           r == [encoder[d] EXCEPT !.csds = encoder[d].csds + 1, !.pending = p]
<1>1. /\ encoder[d].at = "loop" /\ encoder[d].codec = "live"
      /\ UNCHANGED <<registry, control, leaving, ready, mute, overdue, attached, sent>>
      BY DEF SendConfig, Encodes, Stays
<1>2. p \in Parts
      BY Here, EncoderFields DEF Parts
<1>3. r \in Encoders
  <2>1. encoder[d].csds + 1 \in Nat
        BY Here, EncoderFields
  <2>2. QED BY Here, <1>2, <2>1 DEF Encoders
<1>4. encoder' = [encoder EXCEPT ![d] = r]
      BY Here DEF TypeOK, SendConfig
<1>5. encoder'[d] = r
      BY Here, <1>3, <1>4, Becomes
<1>6. r.pending = [gen |-> r.gen, part |-> r.csds]
      BY Here DEF Encoders
<1>7. EncoderOK(d)'
      BY Here, <1>1, <1>5, EncoderFields DEF EncoderOK, Joining
<1>8. StreamOK(d)'
  <2>1. r.cached = encoder[d].cached /\ r.gen = encoder[d].gen
        BY Here DEF Encoders
  <2>2. QED BY Here, <1>1, <1>5, <1>6, <2>1 DEF StreamOK
<1>9. QED BY Here, <1>1, <1>3, <1>4, <1>7, <1>8, ThreadStep DEF TypeOK, Stays

(* What a speaking sender sends with a frame: the configuration kept for it, or the  *)
(* one that has gone before.                                                         *)
LEMMA ConfigKept ==
    ASSUME LifeInv, NEW d \in Ids, encoder[d].csds = Csds
    PROVE  LET c == IF encoder[d].pending # NoParts /\ ~mute THEN encoder[d].pending ELSE sent[d].config
           IN  IF mute THEN c = sent[d].config ELSE c = Complete(encoder[d].gen)
<1>1. encoder[d].csds # 0
      BY CsdAssumption
<1>2. NoParts # Complete(encoder[d].gen)
      BY CsdAssumption DEF NoParts, Complete
<1>3. QED BY Here, <1>1, <1>2 DEF StreamOK, Complete

(* A frame takes the configuration kept for it along, unless the sender is mute. *)
LEMMA SendDataInv ==
    ASSUME LifeInv, NEW d \in Ids, SendData(d)
    PROVE  LifeInv'
<1> DEFINE r == [encoder[d] EXCEPT !.pending = NoParts, !.cached = encoder[d].gen]
           c == IF encoder[d].pending # NoParts /\ ~mute THEN encoder[d].pending ELSE sent[d].config
<1>1. /\ encoder[d].at = "loop" /\ encoder[d].codec = "live" /\ encoder[d].csds = Csds
      /\ UNCHANGED <<registry, control, leaving, ready, mute, overdue, attached>>
      BY DEF SendData, Encodes, Stays
<1>2. r \in Encoders
      BY Here, EncoderFields DEF Encoders, Parts, NoParts
<1>3. encoder' = [encoder EXCEPT ![d] = r]
      BY Here DEF TypeOK, SendData
<1>4. encoder'[d] = r
      BY Here, <1>2, <1>3, Becomes
<1>5. /\ sent' \in [Ids -> [config : Parts, frame : Nat]]
      /\ sent'[d] = [config |-> c, frame |-> encoder[d].gen]
      /\ \A e \in Ids : e # d => sent'[e] = sent[e]
      BY Here, EncoderFields DEF TypeOK, SendData
<1>6. IF mute THEN c = sent[d].config ELSE c = Complete(encoder[d].gen)
      BY Here, <1>1, ConfigKept
<1>7. EncoderOK(d)'
      BY Here, <1>1, <1>4, EncoderFields DEF EncoderOK, Joining
<1>8. StreamOK(d)'
  <2>1. /\ encoder'[d].pending = NoParts /\ encoder'[d].cached = encoder[d].gen
        /\ encoder'[d].gen = encoder[d].gen /\ encoder'[d].csds = Csds
        BY Here, <1>1, <1>4 DEF Encoders
  <2>2. /\ encoder[d].gen \in Nat /\ sent[d].frame \in Nat /\ sent[d].config.gen \in Nat
        /\ sent'[d].config = c /\ sent'[d].frame = encoder[d].gen
        BY Here, <1>5, EncoderFields DEF TypeOK, Parts
  <2>3. /\ encoder[d].gen # 0 /\ sent[d].frame <= encoder[d].gen
        /\ sent[d].config \in {NoParts, Complete(sent[d].config.gen)}
        /\ sent[d].config.gen = sent[d].frame \/ (mute /\ sent[d].config.gen < sent[d].frame)
        BY Here, <1>1 DEF StreamOK
  <2>4. Complete(encoder[d].gen).gen = encoder[d].gen
        BY DEF Complete
  <2>5. CASE mute
    <3>1. sent'[d].config = sent[d].config
          BY <1>6, <2>2, <2>5
    <3>2. sent[d].config.gen <= encoder[d].gen
          BY <2>2, <2>3
    <3>3. sent'[d].config.gen = encoder[d].gen \/ sent'[d].config.gen < encoder[d].gen
          BY <2>2, <3>1, <3>2
    <3>4. sent'[d].config \in {NoParts, Complete(sent'[d].config.gen)}
          BY <2>3, <3>1
    <3>5. sent'[d].frame <= encoder[d].gen /\ mute'
          BY <1>1, <2>2, <2>5
    <3>6. QED BY <2>1, <2>2, <2>3, <3>3, <3>4, <3>5 DEF StreamOK
  <2>6. CASE ~mute
    <3>1. sent'[d].config = Complete(encoder[d].gen)
          BY <1>6, <2>2, <2>6
    <3>2. sent'[d].config = [gen |-> encoder'[d].gen, part |-> encoder'[d].csds]
          BY <2>1, <3>1 DEF Complete
    <3>3. sent'[d].config.gen = encoder[d].gen /\ sent'[d].frame <= encoder[d].gen
          BY <2>2, <2>4, <3>1
    <3>4. sent'[d].config \in {NoParts, Complete(sent'[d].config.gen)}
          BY <3>1, <3>3
    <3>5. QED BY <2>1, <2>2, <2>3, <3>2, <3>3, <3>4 DEF StreamOK
  <2>7. QED BY <2>5, <2>6
<1>9. QED BY Here, <1>1, <1>2, <1>3, <1>5, <1>7, <1>8, ThreadStep DEF TypeOK, Stays

(* The last frame again is the frame sent last. *)
LEMMA ResendLastFrameInv ==
    ASSUME LifeInv, NEW d \in Ids, ResendLastFrame(d)
    PROVE  LifeInv'
<1>1. sent' = sent
      BY Here DEF TypeOK, StreamOK, ResendLastFrame
<1>2. UNCHANGED vars
      BY <1>1 DEF ResendLastFrame, Stays, vars
<1>3. TypeOK'
      BY Here, <1>2 DEF LifeInv, TypeOK, vars
<1>4. ASSUME NEW e \in Ids PROVE (EncoderOK(e) /\ StreamOK(e))'
      BY Here, <1>2 DEF EncoderOK, StreamOK, Joining, vars
<1>5. QED BY <1>3, <1>4 DEF LifeInv

LEMMA LoopEndsInv ==
    ASSUME LifeInv, NEW d \in Ids, LoopEnds(d)
    PROVE  LifeInv'
<1> DEFINE r == [encoder[d] EXCEPT !.at = "ended", !.csds = 0, !.pending = NoParts, !.cached = 0]
<1>1. /\ encoder[d].at = "loop"
      /\ UNCHANGED <<registry, control, leaving, ready, mute, overdue, attached, sent>>
      BY DEF LoopEnds, Stays
<1>2. r \in Encoders
      BY Here, EncoderFields DEF Encoders, Steps, Parts, NoParts
<1>3. encoder' = [encoder EXCEPT ![d] = r]
      BY Here DEF TypeOK, LoopEnds
<1>4. encoder'[d] = r
      BY Here, <1>2, <1>3, Becomes
<1>5. EncoderOK(d)'
      BY Here, <1>1, <1>4, EncoderFields DEF EncoderOK, Joining
<1>6. StreamOK(d)'
  <2>1. /\ encoder'[d].csds = 0 /\ encoder'[d].cached = 0
        /\ encoder'[d].gen = encoder[d].gen /\ encoder'[d].codec = encoder[d].codec
        BY Here, <1>4 DEF Encoders
  <2>2. QED BY Here, <1>1, <2>1 DEF StreamOK
<1>7. QED BY Here, <1>1, <1>2, <1>3, <1>5, <1>6, ThreadStep DEF TypeOK, Stays
-----------------------------------------------------------------------------
LEMMA InitInv == ASSUME Init PROVE LifeInv
<1>1. NewEncoder \in Encoders
      BY DEF NewEncoder, Encoders, Steps, Parts, NoParts
<1>2. TypeOK
  <2>1. 1 \in Ids /\ [config |-> NoParts, frame |-> 0] \in [config : Parts, frame : Nat]
        BY BoundAssumption DEF Ids, Parts, NoParts
  <2>2. control \in [at : {"idle", "await", "join", "closed"}, id : Ids]
        BY <2>1 DEF Init, Free
  <2>3. encoder \in [Ids -> Encoders] /\ sent \in [Ids -> [config : Parts, frame : Nat]]
        BY <1>1, <2>1 DEF Init
  <2>4. QED BY <2>2, <2>3 DEF Init, TypeOK
<1>3. ASSUME NEW d \in Ids PROVE EncoderOK(d) /\ StreamOK(d)
      BY DEF Init, EncoderOK, StreamOK, Joining, NewEncoder, Free, NoParts
<1>4. QED BY <1>2, <1>3 DEF LifeInv

LEMMA NextInv == ASSUME LifeInv, [Next]_vars PROVE LifeInv'
<1>1. CASE Leave \/ Left \/ SenderStalls
      BY <1>1, LeaveInv
<1>2. ASSUME NEW d \in Ids, Requests(d) \/ GoesOn(d)
      PROVE  LifeInv'
      BY <1>2, CreateDisplayInv, ResizeDisplayInv, DestroyDisplayInv, AnnounceInv, StopEndsInv
      DEF Requests, GoesOn
<1>3. ASSUME NEW d \in Ids, Makes(d) \/ Streams(d) \/ PerformResize(d) \/ LoopEnds(d)
      PROVE  LifeInv'
  <2>1. CASE Makes(d)
        BY <2>1, MakeCodecInv, MakeDisplayInv, AttachInv, CreateFailsInv, CatchInv, RenewFailsInv DEF Makes
  <2>2. CASE Streams(d)
        BY <2>2, SendConfigInv, SendDataInv, ResendLastFrameInv DEF Streams
  <2>3. QED BY <1>3, <2>1, <2>2, PerformResizeInv, LoopEndsInv
<1>4. CASE UNCHANGED vars
  <2>1. TypeOK'
        BY <1>4 DEF LifeInv, TypeOK, vars
  <2>2. ASSUME NEW e \in Ids PROVE (EncoderOK(e) /\ StreamOK(e))'
        BY Here, <1>4 DEF EncoderOK, StreamOK, Joining, vars
  <2>3. QED BY <2>1, <2>2 DEF LifeInv
<1>5. QED BY <1>1, <1>2, <1>3, <1>4 DEF Next

(* Registry, control thread, encoders and what is sent agree in every reachable state. *)
THEOREM LifeInvariant == Spec => []LifeInv
<1>1. QED BY InitInv, NextInv, PTL DEF Spec

(* A destroyed display keeps nothing unless its thread is overdue, a running loop has   *)
(* a codec, and the registry's entries have the displays of their encoders, for any      *)
(* number of displays and of resizes (DisplayRegistry.destroy, DisplayEncoder).          *)
THEOREM NothingLeft == Spec => []DisplaysInv
<1>1. ASSUME LifeInv PROVE DisplaysInv
  <2>1. EntriesOK
    <3>1. attached \subseteq registry \cup {d \in Ids : Joining(d)}
          BY <1>1, Here DEF TypeOK, LifeInv, EncoderOK
    <3>2. \A d \in attached : encoder[d].vd /\ encoder[d].at \in {"loop", "renew", "ended"}
          BY <1>1 DEF TypeOK, LifeInv, EncoderOK
    <3>3. registry \subseteq {d \in Ids : encoder[d].at # "unborn"}
          BY <1>1 DEF TypeOK, LifeInv, EncoderOK
    <3>4. QED BY <3>1, <3>2, <3>3 DEF EntriesOK
  <2>2. NothingKept
        BY <1>1 DEF LifeInv, EncoderOK, NothingKept
  <2>3. NeverSpins
        BY <1>1 DEF LifeInv, EncoderOK, NeverSpins
  <2>4. QED BY <1>1, <2>1, <2>2, <2>3 DEF LifeInv, DisplaysInv
<1>2. QED BY <1>1, LifeInvariant, PTL

(* A frame follows the whole configuration of the codec that made it, however many parts *)
(* the codec yields it in, or a mute sender has dropped that; no part of one is ever      *)
(* sent (DisplayEncoder.sendConfig, ReliableControl.Sender).                             *)
THEOREM FramesInOrder == Spec => []FramesDecodable
<1>1. ASSUME LifeInv PROVE FramesDecodable
      BY <1>1 DEF LifeInv, StreamOK, FramesDecodable
<1>2. QED BY <1>1, LifeInvariant, PTL
-----------------------------------------------------------------------------
(* What is sent of a display: DisplaysImplement.  What has been announced is in the  *)
(* registry or has been.                                                             *)

ViewInv == \A d \in Ids : d \in ready => encoder[d].at # "unborn"

LEMMA LooksTheSame ==
    ASSUME NEW e \in Ids, e \in registry' <=> e \in registry, e \in ready' <=> e \in ready,
           encoder'[e].at = "unborn" <=> encoder[e].at = "unborn",
           encoder'[e].at = "ended" <=> encoder[e].at = "ended"
    PROVE  Phase(e)' = Phase(e)
BY DEF Phase

(* A step in which one display goes from one phase to another *)
LEMMA OneMoves ==
    ASSUME NEW d \in Ids, \A e \in Ids : e # d => Phase(e)' = Phase(e), UNCHANGED <<sent, mute>>,
           \/ Phase(d)' = Phase(d)
           \/ Phase(d) = "none" /\ Phase(d)' = "made"
           \/ ~mute /\ Phase(d) = "made" /\ Phase(d)' = "announced"
           \/ Phase(d) \in {"made", "announced"} /\ Phase(d)' = "ending"
           \/ Phase(d) \in {"made", "announced", "ending"} /\ Phase(d)' = "ended"
    PROVE  [Life!Next]_Life!vars
<1> DEFINE look == [e \in Ids |-> Phase(e)]
<1>1. look[d] = Phase(d) /\ look' = [look EXCEPT ![d] = Phase(d)']
      OBVIOUS
<1>2. CASE Phase(d)' = Phase(d)
      BY <1>2 DEF Life!vars
<1>3. CASE Phase(d) = "none" /\ Phase(d)' = "made"
  <2>1. Life!Make(d)
        BY <1>1, <1>3 DEF Life!Make, Life!Moves
  <2>2. QED BY <2>1 DEF Life!Next
<1>4. CASE ~mute /\ Phase(d) = "made" /\ Phase(d)' = "announced"
  <2>1. Life!Announce(d)
        BY <1>1, <1>4 DEF Life!Announce, Life!Moves
  <2>2. QED BY <2>1 DEF Life!Next
<1>5. CASE Phase(d) \in {"made", "announced"} /\ Phase(d)' = "ending"
  <2>1. Life!Destroy(d)
        BY <1>1, <1>5 DEF Life!Destroy, Life!Moves
  <2>2. QED BY <2>1 DEF Life!Next
<1>6. CASE Phase(d) \in {"made", "announced", "ending"} /\ Phase(d)' = "ended"
  <2>1. Life!End(d)
        BY <1>1, <1>6 DEF Life!End, Life!Moves
  <2>2. QED BY <2>1 DEF Life!Next
<1>7. QED BY <1>2, <1>3, <1>4, <1>5, <1>6

(* A step of a display that there is, which only its thread's end makes look different *)
LEMMA ThreadMoves ==
    ASSUME LifeInv, ViewInv, NEW d \in Ids, UNCHANGED <<registry, ready, mute, sent>>,
           \A e \in Ids : e # d => encoder'[e] = encoder[e],
           encoder[d].at # "unborn", encoder'[d].at # "unborn",
           encoder[d].at = "ended" => encoder'[d].at = "ended"
    PROVE  ViewInv' /\ [Life!Next]_Life!vars
<1>1. ViewInv'
      BY DEF ViewInv
<1>2. \A e \in Ids : e # d => Phase(e)' = Phase(e)
      BY LooksTheSame
<1>3. Phase(d)' = Phase(d) \/ (Phase(d) = "ending" /\ Phase(d)' = "ended")
      BY DEF Phase
<1>4. QED BY <1>1, <1>2, <1>3, OneMoves

LEMMA CreateDisplayMoves ==
    ASSUME LifeInv, ViewInv, NEW d \in Ids, CreateDisplay(d)
    PROVE  ViewInv' /\ [Life!Next]_Life!vars
<1>1. /\ encoder[d].at = "unborn"
      /\ registry' = registry \cup {d} /\ UNCHANGED <<ready, mute, sent>>
      /\ encoder' = [encoder EXCEPT ![d].at = "codec", ![d].running = TRUE]
      BY DEF CreateDisplay, Ids
<1>2. /\ \A e \in Ids : e # d => encoder'[e] = encoder[e]
      /\ encoder'[d].at = "codec"
      BY Here, <1>1 DEF TypeOK, Encoders
<1>3. ViewInv'
      BY <1>1, <1>2 DEF ViewInv
<1>4. d \notin registry /\ d \notin ready
      BY Here, <1>1 DEF EncoderOK, ViewInv
<1>5. \A e \in Ids : e # d => Phase(e)' = Phase(e)
      BY <1>1, <1>2, LooksTheSame
<1>6. Phase(d) = "none" /\ Phase(d)' = "made"
      BY <1>1, <1>4 DEF Phase
<1>7. QED BY <1>1, <1>3, <1>5, <1>6, OneMoves

LEMMA DestroyMoves ==
    ASSUME LifeInv, ViewInv, NEW d \in Ids, d \in registry, Destroy(d), UNCHANGED ready
    PROVE  ViewInv' /\ [Life!Next]_Life!vars
<1>1. registry' = registry \ {d} /\ UNCHANGED <<ready, mute, sent>>
      BY DEF Destroy
<1>2. /\ \A e \in Ids : e # d => encoder'[e] = encoder[e]
      /\ encoder'[d].at = encoder[d].at
      BY Here DEF TypeOK, Encoders, Destroy
<1>3. ViewInv'
      BY <1>1, <1>2 DEF ViewInv
<1>4. encoder[d].at # "unborn"
      BY Here DEF EncoderOK
<1>5. \A e \in Ids : e # d => Phase(e)' = Phase(e)
      BY <1>1, <1>2, LooksTheSame
<1>6. Phase(d) \in {"made", "announced"} /\ Phase(d)' \in {"ending", "ended"}
      BY <1>1, <1>2, <1>4 DEF Phase
<1>7. QED BY <1>1, <1>3, <1>5, <1>6, OneMoves

LEMMA AnnounceMoves ==
    ASSUME LifeInv, ViewInv, NEW d \in Ids, Announce(d)
    PROVE  ViewInv' /\ [Life!Next]_Life!vars
<1>1. d \in registry /\ encoder[d].at # "unborn"
      BY Here DEF Announce, EncoderOK
<1>2. CASE encoder[d].running
  <2>1. /\ ready' = IF mute THEN ready ELSE ready \cup {d}
        /\ UNCHANGED <<registry, mute, encoder, sent>>
        BY <1>2 DEF Announce
  <2>2. ViewInv'
        BY <1>1, <2>1 DEF ViewInv
  <2>3. \A e \in Ids : e # d => Phase(e)' = Phase(e)
        BY <2>1, LooksTheSame
  <2>4. Phase(d)' = Phase(d) \/ (~mute /\ Phase(d) = "made" /\ Phase(d)' = "announced")
        BY <1>1, <2>1 DEF Phase
  <2>5. QED BY <2>1, <2>2, <2>3, <2>4, OneMoves
<1>3. CASE ~encoder[d].running
      BY <1>1, <1>3, DestroyMoves DEF Announce
<1>4. QED BY <1>2, <1>3

(* The control thread's other steps leave what is seen of a display as it is. *)
LEMMA ResizeDisplayMoves ==
    ASSUME LifeInv, ViewInv, NEW d \in Ids, ResizeDisplay(d)
    PROVE  ViewInv' /\ [Life!Next]_Life!vars
<1>1. d \in registry /\ UNCHANGED <<registry, ready, mute, sent>>
      BY DEF ResizeDisplay
<1>2. /\ \A e \in Ids : e # d => encoder'[e] = encoder[e]
      /\ encoder'[d].at = encoder[d].at
      BY Here DEF TypeOK, Encoders, ResizeDisplay
<1>3. encoder[d].at # "unborn"
      BY Here, <1>1 DEF EncoderOK
<1>4. QED BY <1>1, <1>2, <1>3, ThreadMoves

LEMMA StopEndsMoves ==
    ASSUME LifeInv, ViewInv, NEW d \in Ids, StopEnds(d)
    PROVE  ViewInv' /\ [Life!Next]_Life!vars
<1>1. Joining(d) /\ UNCHANGED <<registry, ready, mute, sent>>
      BY DEF StopEnds
<1>2. /\ \A e \in Ids : e # d => encoder'[e] = encoder[e]
      /\ encoder'[d].at = encoder[d].at
      BY Here DEF TypeOK, Encoders, StopEnds, Released
<1>3. encoder[d].at # "unborn"
      BY Here, <1>1 DEF EncoderOK
<1>4. QED BY <1>1, <1>2, <1>3, ThreadMoves

(* The encoder's thread, but for its frames *)
LEMMA ThreadStepMoves ==
    ASSUME LifeInv, ViewInv, NEW d \in Ids,
           Makes(d) \/ PerformResize(d) \/ SendConfig(d) \/ LoopEnds(d)
    PROVE  ViewInv' /\ [Life!Next]_Life!vars
<1>0. encoder \in [Ids -> Encoders]
      BY Here DEF TypeOK
<1>1. /\ UNCHANGED <<registry, ready, mute, sent>>
      /\ encoder[d].at \notin {"unborn", "ended"}
      BY DEF Makes, MakeCodec, MakeDisplay, AttachVirtualDisplay, CreateFails, Catch, RenewFails,
             PerformResize, SendConfig, LoopEnds, Encodes, Stays
<1>2. /\ \A e \in Ids : e # d => encoder'[e] = encoder[e]
      /\ encoder'[d].at # "unborn"
  <2>1. CASE MakeCodec(d)
        BY <1>0, <2>1 DEF MakeCodec, Encoders
  <2>2. CASE MakeDisplay(d) \/ AttachVirtualDisplay(d)
        BY <1>0, <2>2 DEF MakeDisplay, AttachVirtualDisplay, Encoders
  <2>3. CASE CreateFails(d)
        BY <1>0, <2>3 DEF CreateFails, Encoders
  <2>4. CASE Catch(d) \/ RenewFails(d)
        BY <1>0, <2>4 DEF Catch, RenewFails, Encoders
  <2>5. CASE PerformResize(d) \/ LoopEnds(d)
        BY <1>0, <2>5 DEF PerformResize, LoopEnds, Encoders
  <2>6. CASE SendConfig(d)
        BY <1>0, <1>1, <2>6 DEF SendConfig, Encoders
  <2>7. QED BY <2>1, <2>2, <2>3, <2>4, <2>5, <2>6 DEF Makes
<1>3. QED BY <1>1, <1>2, ThreadMoves

(* A frame is of the codec there is, which no frame before was ahead of: it is its     *)
(* first, or changes nothing of what has been sent.                                   *)
LEMMA SendDataMoves ==
    ASSUME LifeInv, ViewInv, NEW d \in Ids, SendData(d)
    PROVE  ViewInv' /\ [Life!Next]_Life!vars
<1> DEFINE gen  == encoder[d].gen
           c    == IF encoder[d].pending # NoParts /\ ~mute THEN encoder[d].pending ELSE sent[d].config
           look == [e \in Ids |-> Phase(e)]
<1>1. /\ encoder[d].at = "loop" /\ encoder[d].codec = "live" /\ encoder[d].csds = Csds
      /\ UNCHANGED <<registry, ready, mute>>
      /\ sent' = [sent EXCEPT ![d] = [config |-> c, frame |-> gen]]
      BY Here DEF TypeOK, SendData, Encodes, Stays
<1>2. /\ \A e \in Ids : e # d => encoder'[e] = encoder[e]
      /\ encoder'[d].at = encoder[d].at
      BY Here DEF TypeOK, Encoders, SendData
<1>3. /\ gen \in Nat /\ sent[d].frame \in Nat /\ sent[d].frame <= gen
      /\ sent \in [Ids -> [config : Parts, frame : Nat]]
      BY Here, EncoderFields DEF TypeOK, StreamOK
<1>4. ViewInv'
      BY <1>1, <1>2 DEF ViewInv
<1>5. look' = look
  <2>1. \A e \in Ids : Phase(e)' = Phase(e)
        BY <1>1, <1>2, LooksTheSame
  <2>2. QED BY <2>1
<1>6. look[d] \in {"made", "announced", "ending"}
      BY <1>1 DEF Phase
<1>7. c = IF mute THEN sent[d].config ELSE Complete(gen)
      BY <1>1, ConfigKept
<1>8. CASE sent[d].frame = gen
  <2>1. c = sent[d].config
    <3>1. /\ sent[d].config \in {NoParts, Complete(sent[d].config.gen)}
          /\ gen # 0 /\ (~mute => sent[d].config.gen = gen)
          BY Here, <1>1, <1>8 DEF StreamOK
    <3>2. NoParts.gen = 0
          BY DEF NoParts
    <3>3. ~mute => sent[d].config = Complete(gen)
          BY <3>1, <3>2
    <3>4. QED BY <1>7, <3>3
  <2>2. UNCHANGED sent
        BY <1>1, <1>3, <1>8, <2>1
  <2>3. QED BY <1>1, <1>4, <1>5, <2>2 DEF Life!vars
<1>9. CASE sent[d].frame < gen
  <2>1. /\ sent'[d].frame = gen
        /\ sent' = [sent EXCEPT ![d] =
              [config |-> IF mute THEN sent[d].config ELSE [gen |-> gen, part |-> Csds], frame |-> gen]]
        BY <1>1, <1>3, <1>7 DEF Complete
  <2>2. Life!Frame(d)
        BY <1>1, <1>3, <1>5, <1>6, <1>9, <2>1 DEF Life!Frame
  <2>3. QED BY <1>4, <2>2 DEF Life!Next
<1>10. QED BY <1>3, <1>8, <1>9

(* The last frame again changes nothing. *)
LEMMA ResendMoves ==
    ASSUME LifeInv, ViewInv, NEW d \in Ids, ResendLastFrame(d)
    PROVE  UNCHANGED vars
<1>1. sent' = sent
      BY Here DEF TypeOK, StreamOK, ResendLastFrame
<1>2. QED BY <1>1 DEF ResendLastFrame, Stays, vars

LEMMA NothingMoves ==
    ASSUME LifeInv, ViewInv, UNCHANGED <<registry, ready, encoder, sent>>,
           mute' = mute \/ (~mute /\ mute')
    PROVE  ViewInv' /\ [Life!Next]_Life!vars
<1>1. ViewInv'
      BY DEF ViewInv
<1>2. [e \in Ids |-> Phase(e)]' = [e \in Ids |-> Phase(e)]
  <2>1. \A e \in Ids : Phase(e)' = Phase(e)
        BY LooksTheSame
  <2>2. QED BY <2>1
<1>3. CASE mute' = mute
      BY <1>1, <1>2, <1>3 DEF Life!vars
<1>4. CASE ~mute /\ mute'
  <2>1. Life!CutOff
        BY <1>2, <1>4 DEF Life!CutOff
  <2>2. QED BY <1>1, <2>1 DEF Life!Next
<1>5. QED BY <1>3, <1>4

LEMMA NextMoves ==
    ASSUME LifeInv, ViewInv, [Next]_vars
    PROVE  ViewInv' /\ [Life!Next]_Life!vars
<1>1. CASE Leave \/ Left \/ SenderStalls
      BY <1>1, NothingMoves DEF Leave, Left, SenderStalls
<1>2. ASSUME NEW d \in Ids, Requests(d) \/ GoesOn(d)
      PROVE  ViewInv' /\ [Life!Next]_Life!vars
  <2>1. CASE DestroyDisplay(d) \/ DestroyNext(d)
        BY <2>1, DestroyMoves DEF DestroyDisplay, DestroyNext
  <2>2. QED BY <1>2, <2>1, CreateDisplayMoves, ResizeDisplayMoves, AnnounceMoves, StopEndsMoves
            DEF Requests, GoesOn
<1>3. ASSUME NEW d \in Ids, Makes(d) \/ Streams(d) \/ PerformResize(d) \/ LoopEnds(d)
      PROVE  ViewInv' /\ [Life!Next]_Life!vars
  <2>1. CASE ResendLastFrame(d)
        BY <2>1, ResendMoves, NothingMoves DEF vars
  <2>2. QED BY <1>3, <2>1, ThreadStepMoves, SendDataMoves DEF Streams
<1>4. CASE UNCHANGED vars
      BY <1>4, NothingMoves DEF vars
<1>5. QED BY <1>1, <1>2, <1>3, <1>4 DEF Next

LEMMA InitLife == ASSUME Init PROVE ViewInv /\ Life!Init
<1>1. \A d \in Ids : Phase(d) = "none"
      BY DEF Init, Phase, NewEncoder
<1>2. ViewInv
      BY DEF Init, ViewInv, NewEncoder
<1>3. QED BY <1>1, <1>2 DEF Init, Life!Init, NoParts

(* A display is announced at most once, while it is in the registry, and its frames come *)
(* from one codec after the other, the first of a codec behind its complete configuration *)
(* unless the sender is mute, and none after the end, whatever is slow or fails, for any   *)
(* number of displays and resizes (DisplayRegistry, DisplayEncoder, ReliableControl).     *)
THEOREM DisplaysImplement == Spec => ImplementsDisplays
<1>1. Init => LifeInv /\ ViewInv /\ Life!Init
      BY InitInv, InitLife
<1>2. LifeInv /\ ViewInv /\ [Next]_vars => (LifeInv /\ ViewInv)' /\ [Life!Next]_Life!vars
      BY NextInv, NextMoves
<1>3. QED BY <1>1, <1>2, PTL DEF Spec, ImplementsDisplays, Life!Spec
=============================================================================
