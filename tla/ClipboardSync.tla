---------------------------- MODULE ClipboardSync ----------------------------
(***************************************************************************)
(* The clipboard of the PC and those of the phones in session with it.       *)
(* Core polls the PC's clipboard and broadcasts what is new to the sessions, *)
(* which send it on; the phone sets it and reports it back, and a monitor     *)
(* on the phone reports whatever it finds changed.  Core writes what arrives  *)
(* unless it is the last text it had from a phone or the last it has seen.    *)
(*                                                                         *)
(* The channels between a session and its phone deliver all, in order         *)
(* (ReliableChannel).  Sessions start at any time and then stay.             *)
(*                                                                         *)
(* Texts do get lost for good; `troubles` keeps what has happened of that     *)
(* kind so far: a text was copied "again", the phone's clipboard was "unset"   *)
(* (setting it failed), or a copy on a phone "crossed" the PC's text being set.*)
(***************************************************************************)
EXTENDS Naturals, Sequences, FiniteSets

CONSTANTS Phones,        \* phones in session
          Texts,         \* what users copy
          Empty,         \* nothing copied yet
          Long,          \* those that the phone refuses
          SubLimit,      \* texts the broadcast channel keeps for a session
          MaxCopies,     \* bound: copies by users, before the start or later
          MaxFaults      \* bound: failed writes and switches of clipboard_sync together

ASSUME PhonesAssumption == Phones # {}
ASSUME EmptyAssumption == Empty \notin Texts
ASSUME LimitAssumption ==
    SubLimit \in Nat \ {0} /\ MaxCopies \in Nat /\ MaxFaults \in Nat

VARIABLES
    pc,         \* the PC's clipboard
    lastSeen,   \* Core.clipboard_last_seen
    lastPhone,  \* Core.last_received_from_phone
    inbox,      \* phone_clip_rx
    unwritten,  \* whether a text from a phone could not be written
    link,       \* each session: "none", "starting" (subscribed), "up" (listened to)
    sub,        \* clip_sub of each session
    sentTo,     \* the sessions to which the PC's text was sent when it was last new
    enabled,    \* clipboard_enabled of each session: "on", "off", "again"
    down, up,   \* the control channel to each phone, and from it
    phone,      \* each phone's clipboard
    last,       \* startMonitor's `last`
    read,       \* what the monitor has read and not reported yet
    setting,    \* the text the control thread has set and not broadcast yet
    unheard,    \* the text the monitor reported last when nobody listened
    troubles,   \* what has happened that loses texts
    copied,     \* texts copied so far
    copies, faults

pcVars    == <<pc, lastSeen, lastPhone, inbox, unwritten>>
links     == <<sub, sentTo, down, up>>
phoneVars == <<phone, last, read, setting, unheard, troubles>>
bounds    == <<copied, copies, faults>>
vars      == <<pcVars, links, phoneVars, link, enabled, bounds>>

On(p) == enabled[p] # "off"
Up(p) == link[p] = "up"
-----------------------------------------------------------------------------
(* The users.                                                               *)

Fault == faults < MaxFaults /\ faults' = faults + 1

Copies(t) ==
    /\ copies < MaxCopies
    /\ copies' = copies + 1 /\ copied' = copied \cup {t}

Again(t) == IF t \in copied THEN {"again"} ELSE {}

CopyOnPc(t) ==
    /\ Copies(t) /\ pc' = t /\ troubles' = troubles \cup Again(t)
    /\ UNCHANGED <<lastSeen, lastPhone, inbox, unwritten, links, link, phone, last, read,
                   setting, unheard, enabled, faults>>

CopyOnPhone(p, t) ==
    /\ Copies(t) /\ phone' = [phone EXCEPT ![p] = t]
    /\ troubles' = troubles \cup Again(t)
                   \cup (IF setting[p] # Empty THEN {"crossed"} ELSE {})
    /\ UNCHANGED <<pcVars, links, link, last, read, setting, unheard, enabled, faults>>

(* cmd_update_config writes the flag both directions of the session read. *)
Toggle(p) ==
    /\ Fault
    /\ enabled' = [enabled EXCEPT ![p] = IF On(p) THEN "off" ELSE "again"]
    /\ UNCHANGED <<pcVars, links, link, phoneVars, copied, copies>>

(* start_session subscribes; the server it deploys has its monitor running. *)
StartSession(p) ==
    /\ link[p] = "none" /\ link' = [link EXCEPT ![p] = "starting"]
    /\ UNCHANGED <<pcVars, links, phoneVars, enabled, bounds>>

(* The handshake: the phone's client listens, then the session's loop runs. *)
Listen(p) ==
    /\ link[p] = "starting" /\ link' = [link EXCEPT ![p] = "up"]
    /\ UNCHANGED <<pcVars, links, phoneVars, enabled, bounds>>

-----------------------------------------------------------------------------
(* Core.                                                                    *)

(* Mutants of Sent: nothing is dropped for a slow session; what is new is.     *)
SentUnbounded(q, t) == Append(q, t)
SentToRoom(q, t) == IF Len(q) < SubLimit THEN Append(q, t) ELSE q

(* The broadcast channel drops a slow session's oldest text (Lagged). *)
Sent(q, t) == IF Len(q) < SubLimit THEN Append(q, t) ELSE Append(Tail(q), t)

(* poll_system_clipboard, each tick; reading an empty clipboard is an error to *)
(* the library and changes nothing.                                          *)
Poll ==
    /\ pc \notin {Empty, lastSeen}
    /\ lastSeen' = pc
    /\ IF pc = lastPhone THEN UNCHANGED <<sub, sentTo>>
       ELSE /\ sentTo' = {p \in Phones : link[p] # "none"}
            /\ sub' = [p \in Phones |-> IF p \in sentTo' THEN Sent(sub[p], pc) ELSE sub[p]]
    /\ UNCHANGED <<pc, lastPhone, inbox, unwritten, down, up, phoneVars, link, enabled, bounds>>

(* Mutant of Received: what is written is not remembered.                    *)
ReceivedForgets(t) == pc' = t /\ UNCHANGED <<lastSeen, lastPhone, unwritten, faults>>

(* The text counts as seen even if it cannot be written. *)
Received(t) ==
    /\ lastPhone' = t /\ lastSeen' = t
    /\ \/ pc' = t /\ UNCHANGED <<unwritten, faults>>
       \/ Fault /\ unwritten' = TRUE /\ UNCHANGED pc

(* on_phone_clipboard. *)
OnPhoneClipboard ==
    /\ inbox # <<>> /\ inbox' = Tail(inbox)
    /\ LET t == Head(inbox) IN
       IF t \in {lastPhone, lastSeen}
       THEN UNCHANGED <<pc, lastSeen, lastPhone, unwritten, faults>>
       ELSE Received(t)
    /\ UNCHANGED <<links, phoneVars, link, enabled, copied, copies>>

-----------------------------------------------------------------------------
(* The session's main loop.                                                  *)

SendToPhone(p) ==
    /\ Up(p) /\ sub[p] # <<>> /\ sub' = [sub EXCEPT ![p] = Tail(@)]
    /\ down' = IF On(p) THEN [down EXCEPT ![p] = Append(@, Head(sub[p]))] ELSE down
    /\ UNCHANGED <<pcVars, sentTo, up, phoneVars, link, enabled, bounds>>

FromPhone(p) ==
    /\ up[p] # <<>> /\ up' = [up EXCEPT ![p] = Tail(@)]
    /\ inbox' = IF On(p) THEN Append(inbox, Head(up[p])) ELSE inbox
    /\ UNCHANGED <<pc, lastSeen, lastPhone, unwritten, sub, sentTo, down, phoneVars, link,
                   enabled, bounds>>

-----------------------------------------------------------------------------
(* The phone.                                                               *)

(* Mutant of BroadcastChange: the monitor takes what the PC has set for read. *)
BroadcastChangeQuiet(p) ==
    /\ setting[p] # Empty /\ setting' = [setting EXCEPT ![p] = Empty]
    /\ up' = [up EXCEPT ![p] = Append(@, setting[p])]
    /\ last' = [last EXCEPT ![p] = phone[p]]
    /\ UNCHANGED <<pcVars, sub, sentTo, down, phone, read, unheard, troubles, link, enabled,
                   bounds>>

(* ControlChannel on set_clipboard: a text that is too long is refused; what    *)
(* cannot be set is broadcast all the same.                                   *)
SetClipboard(p) ==
    /\ down[p] # <<>> /\ setting[p] = Empty
    /\ down' = [down EXCEPT ![p] = Tail(@)]
    /\ LET t == Head(down[p]) IN
       IF t \in Long THEN UNCHANGED <<phone, setting, troubles, faults>>
       ELSE /\ setting' = [setting EXCEPT ![p] = t]
            /\ \/ phone' = [phone EXCEPT ![p] = t] /\ UNCHANGED <<troubles, faults>>
               \/ Fault /\ troubles' = troubles \cup {"unset"} /\ UNCHANGED phone
    /\ UNCHANGED <<pcVars, sub, sentTo, up, last, read, unheard, link, enabled, copied, copies>>

BroadcastChange(p) ==
    /\ setting[p] # Empty /\ setting' = [setting EXCEPT ![p] = Empty]
    /\ up' = [up EXCEPT ![p] = Append(@, setting[p])]
    /\ UNCHANGED <<pcVars, sub, sentTo, down, phone, last, read, unheard, troubles, link,
                   enabled, bounds>>

(* startMonitor: every 300 ms it reads, and reports what is new to those who   *)
(* listen.                                                                   *)
MonitorReads(p) ==
    /\ link[p] # "none"
    /\ read[p] = Empty /\ phone[p] \notin {Empty, last[p]}
    /\ read' = [read EXCEPT ![p] = phone[p]] /\ last' = [last EXCEPT ![p] = phone[p]]
    /\ UNCHANGED <<pcVars, links, phone, setting, unheard, troubles, link, enabled, bounds>>

MonitorReports(p) ==
    /\ read[p] # Empty /\ read' = [read EXCEPT ![p] = Empty]
    /\ IF Up(p) THEN up' = [up EXCEPT ![p] = Append(@, read[p])] /\ UNCHANGED unheard
                ELSE unheard' = [unheard EXCEPT ![p] = read[p]] /\ UNCHANGED up
    /\ UNCHANGED <<pcVars, sub, sentTo, down, phone, last, setting, troubles, link, enabled,
                   bounds>>

-----------------------------------------------------------------------------
(* No session has started; a phone may have a text.                           *)
Init ==
    /\ pc = Empty /\ lastSeen = Empty /\ lastPhone = Empty /\ inbox = <<>> /\ unwritten = FALSE
    /\ sub = [p \in Phones |-> <<>>] /\ down = sub /\ up = sub /\ sentTo = {}
    /\ link = [p \in Phones |-> "none"] /\ enabled = [p \in Phones |-> "on"]
    /\ phone \in [Phones -> Texts \cup {Empty}]
    /\ last = [p \in Phones |-> Empty] /\ read = last /\ setting = last /\ unheard = last
    /\ troubles = IF \A p, q \in Phones : p = q \/ phone[p] = Empty \/ phone[p] # phone[q]
                  THEN {} ELSE {"again"}
    /\ copied = {phone[p] : p \in Phones} /\ faults = 0
    /\ copies = Cardinality({p \in Phones : phone[p] # Empty}) /\ copies <= MaxCopies

System ==
    \/ Poll \/ OnPhoneClipboard
    \/ \E p \in Phones : \/ Listen(p) \/ SendToPhone(p) \/ FromPhone(p)
                         \/ SetClipboard(p) \/ BroadcastChange(p)
                         \/ MonitorReads(p) \/ MonitorReports(p)

Users ==
    \/ \E t \in Texts : CopyOnPc(t) \/ \E p \in Phones : CopyOnPhone(p, t)
    \/ \E p \in Phones : Toggle(p) \/ StartSession(p)

Next == System \/ Users

Spec == Init /\ [][Next]_vars

(* Timers fire, tasks and threads run, channels deliver; nobody has to copy or *)
(* to start a session.                                                       *)
FairSpec == Spec /\ WF_vars(System)

-----------------------------------------------------------------------------
(* Properties.                                                              *)

AllTexts == Texts \cup {Empty}

TypeOK ==
    /\ {pc, lastSeen, lastPhone} \subseteq AllTexts /\ inbox \in Seq(Texts) /\ unwritten \in BOOLEAN
    /\ {sub, down, up} \subseteq [Phones -> Seq(Texts)] /\ sentTo \subseteq Phones
    /\ \A p \in Phones : Len(sub[p]) <= SubLimit
    /\ link \in [Phones -> {"none", "starting", "up"}]
    /\ enabled \in [Phones -> {"on", "off", "again"}]
    /\ {phone, last, read, setting, unheard} \subseteq [Phones -> AllTexts]
    /\ troubles \subseteq {"again", "unset", "crossed"}

(* Nothing is under way and no poll or monitor would find anything new. *)
Quiet ==
    /\ pc \in {Empty, lastSeen} /\ inbox = <<>>
    /\ \A p \in Phones :
          IF Up(p) THEN /\ sub[p] = <<>> /\ down[p] = <<>> /\ up[p] = <<>>
                        /\ read[p] = Empty /\ setting[p] = Empty
                        /\ phone[p] \in {Empty, last[p]}
                   ELSE link[p] = "none"

(* All sessions are up and were never switched off, and nothing has happened    *)
(* that loses texts.                                                         *)
Smooth == troubles = {} /\ \A p \in Phones : Up(p) /\ enabled[p] = "on"

(* The PC's text is one that a phone has sent or that could be sent to one; or    *)
(* there is none, and a phone has one that it has told somebody.                *)
Shared ==
    \/ pc # Empty /\ pc = lastPhone
    \/ pc \notin {Empty, lastPhone} \cup Long /\ sentTo # {}
    \/ pc = Empty /\ ~unwritten /\ \E p \in Phones : phone[p] \notin {Empty, unheard[p]}

(* README, "two-way synchronisation": once all is quiet, the PC has the same  *)
(* text as a phone, whatever was copied on both sides at the same time, while    *)
(* sessions started, and in whatever order echoes came back.                   *)
Agreement == Quiet /\ Smooth /\ Shared => \E p \in Phones : pc = phone[p]

(* A text that was copied on the PC, and is still there once all is quiet, is on *)
(* every phone it was sent to, also when that was before the phone's session was *)
(* up: no phone is left with an older text, or with the echo of one.            *)
PcReachesAll ==
    Quiet /\ Smooth /\ pc \notin {Empty, lastPhone} \cup Long =>
        \A p \in sentTo : phone[p] = pc

(* "Without loops" (README): echoes of echoes die out, so that when users      *)
(* stop copying the whole comes to rest.                                     *)
Settles == <>[]Quiet
=============================================================================
