--------------------------- MODULE ClipboardProofs ---------------------------
(***************************************************************************)
(* Proofs about ClipboardSync: the types, and that the clipboards agree once *)
(* all is quiet, for any number of phones, texts, copies and failed writes.  *)
(***************************************************************************)
EXTENDS ClipboardSync, SequenceTheorems, TLAPS

USE PhonesAssumption, EmptyAssumption, LimitAssumption

(* What has been copied, and what may stand where nothing has been.          *)
Known == copied \ {Empty}
KnownOrEmpty == Known \cup {Empty}

TypeInv ==
    /\ pc \in KnownOrEmpty /\ lastSeen \in KnownOrEmpty /\ lastPhone \in KnownOrEmpty
    /\ inbox \in Seq(Known) /\ unwritten \in BOOLEAN
    /\ sub \in [Phones -> Seq(Known)] /\ down \in [Phones -> Seq(Known)]
    /\ up \in [Phones -> Seq(Known)] /\ sentTo \subseteq Phones
    /\ \A p \in Phones : Len(sub[p]) <= SubLimit
    /\ link \in [Phones -> {"none", "starting", "up"}]
    /\ enabled \in [Phones -> {"on", "off", "again"}]
    /\ phone \in [Phones -> KnownOrEmpty] /\ last \in [Phones -> KnownOrEmpty]
    /\ read \in [Phones -> KnownOrEmpty] /\ setting \in [Phones -> KnownOrEmpty]
    /\ unheard \in [Phones -> KnownOrEmpty]
    /\ troubles \subseteq {"again", "unset", "crossed"}
    /\ copied \subseteq AllTexts

(* Before a session is up nothing goes through its control channel.          *)
LinkOK == \A p \in Phones : ~Up(p) => down[p] = <<>> /\ up[p] = <<>> /\ setting[p] = Empty

(* The monitor reports what it has noted.                                    *)
MonitorOK == \A p \in Phones : read[p] # Empty => last[p] = read[p] /\ phone[p] # Empty

(* A text that is in the PC's clipboard and that Core has not seen was not    *)
(* received from a phone: what was is either there and seen, or was never     *)
(* there.                                                                   *)
UnseenOK == pc \notin {Empty, lastSeen} => pc # lastPhone

(* What the control thread has set is still there when it is broadcast.       *)
SettingOK == \A p \in Phones : setting[p] # Empty => setting[p] = phone[p]

AllOn == \A p \in Phones : enabled[p] = "on"

(* The phone will still send its present text, behind place i of up.         *)
ToSend(p, i) ==
    /\ phone[p] # Empty /\ Up(p)
    /\ \/ phone[p] # last[p]
       \/ read[p] = phone[p]
       \/ setting[p] = phone[p]
       \/ \E j \in DOMAIN up[p] : j > i /\ up[p][j] = phone[p]

(* ... and Core will still take it, behind place i of inbox.                 *)
ToCome(p, i) ==
    \/ ToSend(p, 0)
    \/ /\ phone[p] # Empty /\ Up(p)
       /\ \E j \in DOMAIN inbox : j > i /\ inbox[j] = phone[p]

(* A text that is on its way is its phone's present one, or a later text      *)
(* follows it.                                                               *)
UpOK == \A p \in Phones : \A i \in DOMAIN up[p] : phone[p] = up[p][i] \/ ToSend(p, i)
InboxOK == \A i \in DOMAIN inbox :
              \E p \in Phones : Up(p) /\ (phone[p] = inbox[i] \/ ToCome(p, i))

(* The PC's text is the last one on its way to the phone, or has arrived, and *)
(* what the phone has now will be news to Core.                              *)
Arriving(p) ==
    IF sub[p] # <<>> THEN sub[p][Len(sub[p])] = pc
    ELSE IF down[p] # <<>> THEN down[p][Len(down[p])] = pc
    ELSE Up(p) /\ (phone[p] = pc \/ (ToCome(p, 0) /\ phone[p] # lastPhone))

(* A phone's text before its session is up: the monitor will find it, or has   *)
(* told nobody.                                                              *)
Unheard(p) ==
    \/ phone[p] \in {Empty, unheard[p]}
    \/ ~Up(p) /\ (phone[p] # last[p] \/ read[p] = phone[p])

(* Core has seen what the PC has.                                            *)
NothingOK == pc = Empty /\ ~unwritten =>
    /\ lastSeen = Empty /\ lastPhone = Empty
    /\ \A p \in Phones : Unheard(p) \/ ToCome(p, 0)
FromPcOK == pc # Empty /\ pc = lastSeen /\ pc # lastPhone /\ pc \notin Long =>
    \A p \in sentTo : Arriving(p)
FromPhoneOK == pc # Empty /\ pc = lastSeen /\ pc = lastPhone =>
    \E p \in Phones : Up(p) /\ (phone[p] = pc \/ ToCome(p, 0))

AgreementInv ==
    troubles = {} =>
        /\ MonitorOK /\ UnseenOK /\ SettingOK
        /\ AllOn => UpOK /\ InboxOK /\ NothingOK /\ FromPcOK /\ FromPhoneOK
-----------------------------------------------------------------------------
(* The types.                                                                *)

LEMMA QueuesGrow ==
    ASSUME NEW A, NEW B, A \subseteq B, NEW f \in [Phones -> Seq(A)]
    PROVE  f \in [Phones -> Seq(B)]
BY SeqMonotonic

LEMMA AppendOne ==
    ASSUME NEW A, NEW s \in Seq(A), NEW t \in A
    PROVE  /\ Append(s, t) \in Seq(A) /\ Len(Append(s, t)) = Len(s) + 1
           /\ Len(s) \in Nat /\ Append(s, t) # <<>>
           /\ Append(s, t)[Len(s) + 1] = t
           /\ \A i \in DOMAIN s : i \in DOMAIN Append(s, t) /\ Append(s, t)[i] = s[i]
           /\ DOMAIN s = 1..Len(s) /\ DOMAIN Append(s, t) = 1..(Len(s) + 1)
OBVIOUS

LEMMA TailOne ==
    ASSUME NEW A, NEW s \in Seq(A), s # <<>>
    PROVE  /\ Head(s) \in A /\ Tail(s) \in Seq(A) /\ Len(Tail(s)) = Len(s) - 1
           /\ Head(s) = s[1] /\ Len(s) \in Nat \ {0}
           /\ DOMAIN s = 1..Len(s) /\ DOMAIN Tail(s) = 1..(Len(s) - 1)
           /\ \A i \in 1..(Len(s) - 1) : Tail(s)[i] = s[i + 1]
OBVIOUS

(* The last element stays last until it is the one that is taken.            *)
LEMMA LastOfTail ==
    ASSUME NEW A, NEW s \in Seq(A), s # <<>>
    PROVE  IF Tail(s) = <<>> THEN Head(s) = s[Len(s)]
           ELSE Tail(s)[Len(Tail(s))] = s[Len(s)]
<1>1. /\ Head(s) = s[1] /\ Len(s) \in Nat \ {0} /\ Tail(s) \in Seq(A)
      /\ Len(Tail(s)) = Len(s) - 1
      /\ \A i \in 1..(Len(s) - 1) : Tail(s)[i] = s[i + 1]
      BY TailOne
<1>2. CASE Tail(s) = <<>>
      <2>1. Len(<<>>) = 0
            BY EmptySeq
      <2>2. Len(s) = 1
            BY <1>1, <1>2, <2>1
      <2>3. QED BY <1>1, <1>2, <2>2
<1>3. CASE Tail(s) # <<>>
      <2>1. Len(Tail(s)) \in Nat \ {0}
            BY <1>1, <1>3, EmptySeq
      <2>2. Len(s) - 1 \in 1..(Len(s) - 1) /\ (Len(s) - 1) + 1 = Len(s)
            BY <1>1, <2>1
      <2>3. QED BY <1>1, <1>3, <2>2
<1>4. QED BY <1>2, <1>3

(* What a session's subscription holds after one more text.                  *)
LEMMA SentOne ==
    ASSUME NEW A, NEW s \in Seq(A), NEW t \in A, Len(s) <= SubLimit
    PROVE  /\ Sent(s, t) \in Seq(A) /\ Len(Sent(s, t)) <= SubLimit
           /\ Sent(s, t) # <<>> /\ Sent(s, t)[Len(Sent(s, t))] = t
<1>1. CASE Len(s) < SubLimit
      BY <1>1, AppendOne DEF Sent
<1>2. CASE ~(Len(s) < SubLimit)
      <2>1. Len(s) \in Nat /\ Len(s) = SubLimit /\ s # <<>>
            BY <1>2
      <2>2. Tail(s) \in Seq(A) /\ Len(Tail(s)) = SubLimit - 1
            BY <2>1, TailOne
      <2>3. Sent(s, t) = Append(Tail(s), t)
            BY <1>2 DEF Sent
      <2>4. QED BY <2>2, <2>3, AppendOne
<1>3. QED BY <1>1, <1>2

LEMMA InitTypes == Init => TypeInv
<1> SUFFICES ASSUME Init PROVE TypeInv
    OBVIOUS
<1>1. \A p \in Phones : phone[p] \in copied
      BY DEF Init
<1>2. phone \in [Phones -> KnownOrEmpty] /\ copied \subseteq AllTexts
      BY <1>1 DEF Init, Known, KnownOrEmpty, AllTexts
<1>3. <<>> \in Seq(Known) /\ Len(<<>>) = 0 /\ 0 <= SubLimit
      OBVIOUS
<1>4. /\ last \in [Phones -> KnownOrEmpty] /\ read = last /\ setting = last /\ unheard = last
      /\ pc \in KnownOrEmpty /\ lastSeen \in KnownOrEmpty /\ lastPhone \in KnownOrEmpty
      /\ troubles \subseteq {"again", "unset", "crossed"} /\ unwritten \in BOOLEAN
      BY DEF Init, KnownOrEmpty
<1>5. /\ inbox \in Seq(Known) /\ sub \in [Phones -> Seq(Known)] /\ down = sub /\ up = sub
      /\ \A p \in Phones : Len(sub[p]) <= SubLimit
      BY <1>3 DEF Init
<1>6. /\ sentTo \subseteq Phones /\ link \in [Phones -> {"none", "starting", "up"}]
      /\ enabled \in [Phones -> {"on", "off", "again"}]
      BY DEF Init
<1>7. QED BY <1>2, <1>4, <1>5, <1>6 DEF TypeInv

LEMMA CopyTypes ==
    ASSUME TypeInv, NEW t \in Texts, Copies(t),
           \/ CopyOnPc(t) \/ \E p \in Phones : CopyOnPhone(p, t)
    PROVE  TypeInv'
<1>1. /\ Known \subseteq Known' /\ KnownOrEmpty \subseteq KnownOrEmpty'
      /\ t \in KnownOrEmpty' /\ copied' \subseteq AllTexts
      BY DEF Copies, Known, KnownOrEmpty, TypeInv, AllTexts
<1>2. /\ UNCHANGED <<lastSeen, lastPhone, inbox, unwritten, sub, sentTo, down, up, link, last,
                     read, setting, unheard, enabled>>
      /\ troubles' \subseteq {"again", "unset", "crossed"}
      BY DEF CopyOnPc, CopyOnPhone, Again, TypeInv, pcVars, links
<1>3. /\ inbox \in Seq(Known') /\ sub \in [Phones -> Seq(Known')]
      /\ down \in [Phones -> Seq(Known')] /\ up \in [Phones -> Seq(Known')]
      BY <1>1, SeqMonotonic, QueuesGrow DEF TypeInv
<1>4. /\ last \in [Phones -> KnownOrEmpty'] /\ read \in [Phones -> KnownOrEmpty']
      /\ setting \in [Phones -> KnownOrEmpty'] /\ unheard \in [Phones -> KnownOrEmpty']
      /\ lastSeen \in KnownOrEmpty' /\ lastPhone \in KnownOrEmpty'
      BY <1>1 DEF TypeInv
<1>5. pc' \in KnownOrEmpty' /\ phone' \in [Phones -> KnownOrEmpty']
      <2>1. CASE CopyOnPc(t)
            BY <1>1, <2>1 DEF CopyOnPc, TypeInv
      <2>2. CASE \E p \in Phones : CopyOnPhone(p, t)
            BY <1>1, <2>2 DEF CopyOnPhone, pcVars, TypeInv
      <2>3. QED BY <2>1, <2>2
<1>6. QED BY <1>1, <1>2, <1>3, <1>4, <1>5 DEF TypeInv

LEMMA CoreTypes ==
    ASSUME TypeInv, Poll \/ OnPhoneClipboard
    PROVE  TypeInv'
<1>1. /\ UNCHANGED <<down, up, link, phone, last, read, setting, unheard, troubles, enabled,
                     copied>>
      /\ Known' = Known /\ KnownOrEmpty' = KnownOrEmpty
      BY DEF Poll, OnPhoneClipboard, links, phoneVars, bounds, Known, KnownOrEmpty
<1>2. CASE Poll
      <2>1. pc \in Known /\ lastSeen' = pc /\ UNCHANGED <<pc, lastPhone, inbox, unwritten>>
            BY <1>2 DEF Poll, TypeInv, Known, KnownOrEmpty
      <2>2. /\ sub' \in [Phones -> Seq(Known)] /\ \A p \in Phones : Len(sub'[p]) <= SubLimit
            /\ sentTo' \subseteq Phones
            <3>1. CASE UNCHANGED <<sub, sentTo>>
                  BY <3>1 DEF TypeInv
            <3>2. ASSUME NEW P \in SUBSET Phones, sentTo' = P,
                         sub' = [p \in Phones |-> IF p \in P THEN Sent(sub[p], pc) ELSE sub[p]]
                  PROVE  /\ sub' \in [Phones -> Seq(Known)]
                         /\ \A p \in Phones : Len(sub'[p]) <= SubLimit
                  <4>1. ASSUME NEW p \in Phones
                        PROVE  sub'[p] \in Seq(Known) /\ Len(sub'[p]) <= SubLimit
                        <5>1. sub[p] \in Seq(Known) /\ Len(sub[p]) <= SubLimit
                              BY DEF TypeInv
                        <5>2. Sent(sub[p], pc) \in Seq(Known) /\ Len(Sent(sub[p], pc)) <= SubLimit
                              BY <2>1, <5>1, SentOne
                        <5>3. QED BY <3>2, <5>1, <5>2
                  <4>2. sub' = [p \in Phones |-> sub'[p]]
                        BY <3>2
                  <4>3. QED BY <4>1, <4>2
            <3>3. QED BY <1>2, <3>1, <3>2 DEF Poll
      <2>3. QED BY <1>1, <2>1, <2>2 DEF TypeInv, KnownOrEmpty
<1>3. CASE OnPhoneClipboard
      <2>1. Head(inbox) \in Known /\ inbox' \in Seq(Known) /\ UNCHANGED <<sub, sentTo>>
            BY <1>3, TailOne DEF OnPhoneClipboard, TypeInv, links
      <2>2. /\ pc' \in KnownOrEmpty /\ lastSeen' \in KnownOrEmpty
            /\ lastPhone' \in KnownOrEmpty /\ unwritten' \in BOOLEAN
            BY <1>3, <2>1 DEF OnPhoneClipboard, Received, TypeInv, KnownOrEmpty
      <2>3. QED BY <1>1, <2>1, <2>2 DEF TypeInv
<1>4. QED BY <1>2, <1>3

LEMMA ChannelTypes ==
    ASSUME TypeInv, NEW p \in Phones, SendToPhone(p) \/ FromPhone(p)
    PROVE  TypeInv'
<1>1. /\ UNCHANGED <<pc, lastSeen, lastPhone, unwritten, sentTo, phone, last, read, setting,
                     unheard, troubles, link, enabled, copied>>
      /\ Known' = Known /\ KnownOrEmpty' = KnownOrEmpty
      BY DEF SendToPhone, FromPhone, pcVars, phoneVars, bounds, Known, KnownOrEmpty
<1>2. CASE SendToPhone(p)
      <2>1. Head(sub[p]) \in Known /\ Tail(sub[p]) \in Seq(Known)
            /\ Len(Tail(sub[p])) <= SubLimit
            BY <1>2, TailOne DEF SendToPhone, TypeInv
      <2>2. Append(down[p], Head(sub[p])) \in Seq(Known)
            BY <2>1, AppendOne DEF TypeInv
      <2>3. /\ sub' = [sub EXCEPT ![p] = Tail(sub[p])] /\ UNCHANGED <<inbox, up>>
            /\ down' = down \/ down' = [down EXCEPT ![p] = Append(down[p], Head(sub[p]))]
            BY <1>2 DEF SendToPhone, pcVars
      <2>4. /\ sub' \in [Phones -> Seq(Known)] /\ \A q \in Phones : Len(sub'[q]) <= SubLimit
            /\ down' \in [Phones -> Seq(Known)]
            <3>1. sub' \in [Phones -> Seq(Known)] /\ \A q \in Phones : Len(sub'[q]) <= SubLimit
                  BY <2>1, <2>3 DEF TypeInv
            <3>2. CASE down' = down
                  BY <3>1, <3>2 DEF TypeInv
            <3>3. CASE down' = [down EXCEPT ![p] = Append(down[p], Head(sub[p]))]
                  BY <2>2, <3>1, <3>3 DEF TypeInv
            <3>4. QED BY <2>3, <3>1, <3>2, <3>3
      <2>5. QED BY <1>1, <2>3, <2>4 DEF TypeInv
<1>3. CASE FromPhone(p)
      <2>1. Head(up[p]) \in Known /\ Tail(up[p]) \in Seq(Known)
            BY <1>3, TailOne DEF FromPhone, TypeInv
      <2>2. Append(inbox, Head(up[p])) \in Seq(Known)
            BY <2>1, AppendOne DEF TypeInv
      <2>3. /\ up' = [up EXCEPT ![p] = Tail(up[p])] /\ UNCHANGED <<sub, down>>
            /\ inbox' = inbox \/ inbox' = Append(inbox, Head(up[p]))
            BY <1>3 DEF FromPhone
      <2>4. QED BY <1>1, <2>1, <2>2, <2>3 DEF TypeInv
<1>4. QED BY <1>2, <1>3

LEMMA ControlTypes ==
    ASSUME TypeInv, NEW p \in Phones, SetClipboard(p) \/ BroadcastChange(p)
    PROVE  TypeInv'
<1>1. /\ UNCHANGED <<pcVars, sub, sentTo, last, read, unheard, link, enabled, copied>>
      /\ Known' = Known /\ KnownOrEmpty' = KnownOrEmpty
      BY DEF SetClipboard, BroadcastChange, bounds, Known, KnownOrEmpty
<1>2. CASE SetClipboard(p)
      <2>1. Head(down[p]) \in Known /\ Tail(down[p]) \in Seq(Known)
            BY <1>2, TailOne DEF SetClipboard, TypeInv
      <2>2. /\ down' = [down EXCEPT ![p] = Tail(down[p])] /\ UNCHANGED up
            /\ phone' = phone \/ phone' = [phone EXCEPT ![p] = Head(down[p])]
            /\ setting' = setting \/ setting' = [setting EXCEPT ![p] = Head(down[p])]
            /\ troubles' \subseteq troubles \cup {"unset"}
            BY <1>2 DEF SetClipboard
      <2>3. down' \in [Phones -> Seq(Known)] /\ troubles' \subseteq {"again", "unset", "crossed"}
            BY <2>1, <2>2 DEF TypeInv
      <2>4. Head(down[p]) \in KnownOrEmpty
            BY <2>1 DEF KnownOrEmpty
      <2>5. phone' \in [Phones -> KnownOrEmpty]
            BY <2>2, <2>4 DEF TypeInv
      <2>6. setting' \in [Phones -> KnownOrEmpty]
            BY <2>2, <2>4 DEF TypeInv
      <2>7. QED BY <1>1, <2>2, <2>3, <2>5, <2>6 DEF TypeInv, pcVars
<1>3. CASE BroadcastChange(p)
      <2>1. setting[p] \in Known
            BY <1>3 DEF BroadcastChange, TypeInv, KnownOrEmpty
      <2>2. Append(up[p], setting[p]) \in Seq(Known)
            BY <2>1, AppendOne DEF TypeInv
      <2>3. QED BY <1>1, <1>3, <2>2 DEF BroadcastChange, TypeInv, pcVars, KnownOrEmpty
<1>4. QED BY <1>2, <1>3

LEMMA MonitorTypes ==
    ASSUME TypeInv, NEW p \in Phones, MonitorReads(p) \/ MonitorReports(p)
    PROVE  TypeInv'
<1>1. /\ UNCHANGED <<pcVars, sub, sentTo, down, phone, setting, troubles, link, enabled, copied>>
      /\ Known' = Known /\ KnownOrEmpty' = KnownOrEmpty
      BY DEF MonitorReads, MonitorReports, links, bounds, Known, KnownOrEmpty
<1>2. CASE MonitorReads(p)
      BY <1>1, <1>2 DEF MonitorReads, TypeInv, pcVars, links
<1>3. CASE MonitorReports(p)
      <2>1. read[p] \in Known
            BY <1>3 DEF MonitorReports, TypeInv, KnownOrEmpty
      <2>2. Append(up[p], read[p]) \in Seq(Known)
            BY <2>1, AppendOne DEF TypeInv
      <2>3. up' \in [Phones -> Seq(Known)] /\ unheard' \in [Phones -> KnownOrEmpty]
            BY <1>3, <2>1, <2>2 DEF MonitorReports, TypeInv, KnownOrEmpty
      <2>4. read' \in [Phones -> KnownOrEmpty] /\ UNCHANGED last
            BY <1>3 DEF MonitorReports, TypeInv, KnownOrEmpty
      <2>5. QED BY <1>1, <2>3, <2>4 DEF TypeInv, pcVars
<1>4. QED BY <1>2, <1>3

LEMMA TypeStep == TypeInv /\ [Next]_vars => TypeInv'
<1> SUFFICES ASSUME TypeInv, [Next]_vars PROVE TypeInv'
    OBVIOUS
<1>1. CASE Poll \/ OnPhoneClipboard
      BY <1>1, CoreTypes
<1>2. ASSUME NEW p \in Phones,
             \/ SendToPhone(p) \/ FromPhone(p) \/ SetClipboard(p) \/ BroadcastChange(p)
             \/ MonitorReads(p) \/ MonitorReports(p)
      PROVE  TypeInv'
      BY <1>2, ChannelTypes, ControlTypes, MonitorTypes
<1>3. ASSUME NEW t \in Texts, CopyOnPc(t) \/ \E p \in Phones : CopyOnPhone(p, t)
      PROVE  TypeInv'
      <2>1. Copies(t)
            BY <1>3 DEF CopyOnPc, CopyOnPhone
      <2>2. QED BY <1>3, <2>1, CopyTypes
<1>4. ASSUME NEW p \in Phones, Toggle(p) \/ StartSession(p) \/ Listen(p) PROVE TypeInv'
      <2>1. /\ UNCHANGED <<pcVars, links, phoneVars, copied>>
            /\ Known' = Known /\ KnownOrEmpty' = KnownOrEmpty
            BY <1>4 DEF Toggle, StartSession, Listen, bounds, Known, KnownOrEmpty
      <2>2. /\ enabled' \in [Phones -> {"on", "off", "again"}]
            /\ link' \in [Phones -> {"none", "starting", "up"}]
            BY <1>4 DEF Toggle, StartSession, Listen, TypeInv
      <2>3. QED BY <2>1, <2>2 DEF TypeInv, pcVars, links, phoneVars
<1>5. CASE UNCHANGED vars
      BY <1>5 DEF vars, pcVars, links, phoneVars, bounds, TypeInv, Known, KnownOrEmpty
<1>6. QED BY <1>1, <1>2, <1>3, <1>4, <1>5 DEF Next, System, Users

LEMMA LinkStep == TypeInv /\ LinkOK /\ [Next]_vars => LinkOK'
<1> SUFFICES ASSUME TypeInv, LinkOK, [Next]_vars PROVE LinkOK'
    OBVIOUS
<1>1. CASE UNCHANGED <<link, down, up, setting>>
      BY <1>1 DEF LinkOK, Up
<1>2. ASSUME NEW p \in Phones, StartSession(p) \/ Listen(p) PROVE LinkOK'
      <2>1. /\ ~Up(p) /\ UNCHANGED <<down, up, setting>>
            /\ \A q \in Phones : q # p => link'[q] = link[q]
            BY <1>2 DEF StartSession, Listen, Up, links, phoneVars, TypeInv
      <2>2. QED BY <2>1 DEF LinkOK, Up
<1>3. ASSUME NEW p \in Phones,
             \/ SendToPhone(p) \/ FromPhone(p) \/ SetClipboard(p) \/ BroadcastChange(p)
             \/ MonitorReports(p) /\ Up(p)
      PROVE  LinkOK'
      <2>1. Up(p) /\ UNCHANGED link
            BY <1>3 DEF SendToPhone, FromPhone, SetClipboard, BroadcastChange, MonitorReports,
               LinkOK
      <2>2. \A q \in Phones : q # p => /\ down'[q] = down[q] /\ up'[q] = up[q]
                                      /\ setting'[q] = setting[q]
            BY <1>3 DEF SendToPhone, FromPhone, SetClipboard, BroadcastChange, MonitorReports,
               phoneVars, TypeInv
      <2>3. QED BY <2>1, <2>2 DEF LinkOK, Up
<1>4. CASE Poll \/ OnPhoneClipboard
      BY <1>1, <1>4 DEF Poll, OnPhoneClipboard, links, phoneVars
<1>5. CASE Users
      BY <1>1, <1>2, <1>5 DEF Users, CopyOnPc, CopyOnPhone, Toggle, links, phoneVars
<1>6. ASSUME NEW p \in Phones, MonitorReads(p) \/ (MonitorReports(p) /\ ~Up(p))
      PROVE  LinkOK'
      BY <1>1, <1>6 DEF MonitorReads, MonitorReports, links
<1>7. CASE UNCHANGED vars
      BY <1>1, <1>7 DEF vars, links, phoneVars
<1>8. QED BY <1>2, <1>3, <1>4, <1>5, <1>6, <1>7 DEF Next, System

LEMMA TypesHold == Spec => []TypeInv
BY InitTypes, TypeStep, PTL DEF Spec

(* Every variable has its type; no subscription exceeds its limit.           *)
THEOREM TypeCorrect == Spec => []TypeOK
<1>1. ASSUME TypeInv PROVE TypeOK
      <2>1. Known \subseteq Texts /\ KnownOrEmpty \subseteq AllTexts
            BY <1>1 DEF TypeInv, Known, KnownOrEmpty, AllTexts
      <2>2. /\ inbox \in Seq(Texts) /\ sub \in [Phones -> Seq(Texts)]
            /\ down \in [Phones -> Seq(Texts)] /\ up \in [Phones -> Seq(Texts)]
            BY <1>1, <2>1, SeqMonotonic, QueuesGrow DEF TypeInv
      <2>3. /\ phone \in [Phones -> AllTexts] /\ last \in [Phones -> AllTexts]
            /\ read \in [Phones -> AllTexts] /\ setting \in [Phones -> AllTexts]
            /\ unheard \in [Phones -> AllTexts]
            BY <1>1, <2>1 DEF TypeInv
      <2>4. QED BY <1>1, <2>1, <2>2, <2>3 DEF TypeInv, TypeOK
<1>2. QED BY <1>1, TypesHold, PTL
-----------------------------------------------------------------------------
(* Agreement.  First, what a step does to the texts on their way to Core.    *)

(* What is under way stays so, and a phone's new text is under way.          *)
Progress ==
    \A q \in Phones, i \in 0..Len(inbox) :
        /\ ToCome(q, i) => ToCome(q, i)'
        /\ Up(q) => Up(q)' /\ (phone'[q] = phone[q] \/ ToCome(q, i)')

LEMMA MonitorReadsOn ==
    ASSUME TypeInv, MonitorOK, UpOK, NEW p \in Phones, MonitorReads(p)
    PROVE  MonitorOK' /\ UpOK' /\ Progress
<1>1. /\ phone[p] # Empty /\ phone[p] # last[p]
      /\ UNCHANGED <<inbox, up, phone, link, setting>>
      /\ \A q \in Phones : /\ read'[q] = IF q = p THEN phone[p] ELSE read[q]
                          /\ last'[q] = IF q = p THEN phone[p] ELSE last[q]
      BY DEF MonitorReads, TypeInv, pcVars, links
<1>2. \A q \in Phones, i \in Nat : ToSend(q, i) => ToSend(q, i)'
      BY <1>1 DEF ToSend, Up
<1>3. \A q \in Phones, i \in Nat : ToCome(q, i) => ToCome(q, i)'
      BY <1>1, <1>2 DEF ToCome, Up
<1>4. MonitorOK'
      BY <1>1 DEF MonitorOK
<1>5. UpOK'
      BY <1>1, <1>2 DEF UpOK, TypeInv
<1>6. QED BY <1>1, <1>3, <1>4, <1>5 DEF Progress, Up

(* A text goes up: what the monitor has noted, or what has just been set.     *)
LEMMA ReportOn ==
    ASSUME TypeInv, UpOK, NEW p \in Phones, NEW t \in Known, Up(p),
           UNCHANGED <<inbox, phone, last, link>>, phone[p] # Empty,
           up' = [up EXCEPT ![p] = Append(up[p], t)],
           \A q \in Phones : q # p => read'[q] = read[q] /\ setting'[q] = setting[q],
           read[p] # t => read'[p] = read[p],
           setting[p] # t => setting'[p] = setting[p],
           phone[p] = t \/ phone[p] # last[p]
    PROVE  UpOK' /\ Progress
<1> DEFINE n == Len(up[p])
<1>1. \A q \in Phones : up'[q] = IF q = p THEN Append(up[p], t) ELSE up[q]
      BY DEF TypeInv
<1>2. /\ n \in Nat /\ DOMAIN up[p] = 1..n /\ DOMAIN up'[p] = 1..(n + 1)
      /\ up'[p][n + 1] = t /\ \A i \in 1..n : up'[p][i] = up[p][i]
      <2>1. up[p] \in Seq(Known) /\ up'[p] = Append(up[p], t)
            BY <1>1 DEF TypeInv
      <2>2. QED BY <2>1, AppendOne
<1> HIDE DEF n
<1>3. ASSUME NEW i \in 0..n, ToSend(p, i) PROVE ToSend(p, i)'
      <2>1. CASE phone[p] # last[p]
            BY <2>1 DEF ToSend, Up
      <2>2. CASE phone[p] = t
            <3>1. n + 1 \in DOMAIN up'[p] /\ n + 1 > i
                  BY <1>2
            <3>2. QED BY <1>2, <2>2, <3>1 DEF ToSend, Up
      <2>3. CASE \E j \in DOMAIN up[p] : j > i /\ up[p][j] = phone[p]
            <3>1. \E j \in DOMAIN up'[p] : j > i /\ up'[p][j] = phone[p]
                  BY <1>2, <2>3
            <3>2. QED BY <3>1 DEF ToSend, Up
      <2>4. QED BY <1>3, <2>1, <2>2, <2>3 DEF ToSend
<1>4. \A q \in Phones, i \in Nat : q # p /\ ToSend(q, i) => ToSend(q, i)'
      BY <1>1 DEF ToSend, Up
<1>5. \A q \in Phones, i \in 0..Len(inbox) : ToCome(q, i) => ToCome(q, i)'
      <2>1. \A q \in Phones : ToSend(q, 0) => ToSend(q, 0)'
            BY <1>2, <1>3, <1>4
      <2>2. QED BY <2>1 DEF ToCome, Up
<1>6. UpOK'
      <2>1. ASSUME NEW i \in 1..n PROVE phone'[p] = up'[p][i] \/ ToSend(p, i)'
            <3>1. phone[p] = up[p][i] \/ ToSend(p, i)
                  BY <1>2 DEF UpOK
            <3>2. phone'[p] = phone[p] /\ up'[p][i] = up[p][i] /\ i \in 0..n
                  BY <1>2
            <3>3. QED BY <1>3, <3>1, <3>2
      <2>2. ASSUME NEW i, i = n + 1 PROVE phone'[p] = up'[p][i] \/ ToSend(p, i)'
            BY <1>2, <2>2 DEF ToSend, Up
      <2>3. ASSUME NEW i \in DOMAIN up'[p] PROVE phone'[p] = up'[p][i] \/ ToSend(p, i)'
            <3>1. i \in 1..n \/ i = n + 1
                  BY <1>2
            <3>2. QED BY <2>1, <2>2, <3>1
      <2>4. ASSUME NEW q \in Phones, q # p, NEW i \in DOMAIN up'[q]
            PROVE  phone'[q] = up'[q][i] \/ ToSend(q, i)'
            <3>1. i \in DOMAIN up[q] /\ i \in Nat /\ up'[q] = up[q] /\ phone'[q] = phone[q]
                  BY <1>1, <2>4, LenProperties DEF TypeInv
            <3>2. QED BY <1>4, <2>4, <3>1 DEF UpOK
      <2>5. QED BY <2>3, <2>4 DEF UpOK
<1>7. QED BY <1>5, <1>6 DEF Progress, Up

LEMMA MonitorReportsOn ==
    ASSUME TypeInv, LinkOK, MonitorOK, UpOK, NEW p \in Phones, MonitorReports(p)
    PROVE  MonitorOK' /\ UpOK' /\ Progress
<1>1. /\ read[p] # Empty /\ last[p] = read[p] /\ phone[p] # Empty
      /\ UNCHANGED <<inbox, phone, last, link, setting>>
      /\ \A q \in Phones : read'[q] = IF q = p THEN Empty ELSE read[q]
      BY DEF MonitorReports, MonitorOK, TypeInv, pcVars
<1>2. MonitorOK'
      BY <1>1 DEF MonitorOK
<1>3. CASE Up(p)
      <2>1. read[p] \in Known /\ up' = [up EXCEPT ![p] = Append(up[p], read[p])]
            BY <1>1, <1>3 DEF MonitorReports, TypeInv, KnownOrEmpty
      <2>2. QED BY <1>1, <1>2, <1>3, <2>1, ReportOn
<1>4. CASE ~Up(p)
      <2>1. UNCHANGED up
            BY <1>4 DEF MonitorReports
      <2>2. \A q \in Phones, i \in Nat : ToSend(q, i) => ToSend(q, i)'
            BY <1>1, <1>4, <2>1 DEF ToSend, Up
      <2>3. UpOK'
            BY <1>1, <2>1, <2>2 DEF UpOK, TypeInv
      <2>4. Progress
            BY <1>1, <2>2 DEF Progress, ToCome, Up
      <2>5. QED BY <1>2, <2>3, <2>4
<1>5. QED BY <1>3, <1>4

LEMMA BroadcastChangeOn ==
    ASSUME TypeInv, LinkOK, MonitorOK, SettingOK, UpOK, NEW p \in Phones, BroadcastChange(p)
    PROVE  MonitorOK' /\ UpOK' /\ Progress
<1>1. /\ setting[p] # Empty /\ setting[p] = phone[p] /\ setting[p] \in Known /\ Up(p)
      /\ UNCHANGED <<inbox, phone, last, link, read>>
      /\ up' = [up EXCEPT ![p] = Append(up[p], setting[p])]
      /\ \A q \in Phones : q # p => setting'[q] = setting[q]
      BY DEF BroadcastChange, SettingOK, LinkOK, TypeInv, KnownOrEmpty, pcVars
<1>2. UpOK' /\ Progress
      BY <1>1, ReportOn
<1>3. QED BY <1>1, <1>2 DEF MonitorOK

LEMMA SetClipboardOn ==
    ASSUME TypeInv, LinkOK, MonitorOK, UpOK, NEW p \in Phones, SetClipboard(p), troubles' = {}
    PROVE  MonitorOK' /\ UpOK' /\ Progress
<1> DEFINE h == Head(down[p])
<1>1. h \in Known /\ h # Empty /\ Up(p) /\ setting[p] = Empty
      BY TailOne DEF SetClipboard, TypeInv, Known, LinkOK
<1>2. UNCHANGED <<inbox, last, read, up, link>>
      BY DEF SetClipboard, pcVars
<1>3. CASE UNCHANGED <<phone, setting>>
      BY <1>2, <1>3 DEF MonitorOK, UpOK, Progress, ToCome, ToSend, Up
<1>4. CASE ~UNCHANGED <<phone, setting>>
      <2>1. \A q \in Phones : /\ phone'[q] = IF q = p THEN h ELSE phone[q]
                             /\ setting'[q] = IF q = p THEN h ELSE setting[q]
            BY <1>4 DEF SetClipboard, TypeInv
      <2> HIDE DEF h
      <2>2. \A i \in Nat : ToSend(p, i)'
            BY <1>1, <1>2, <2>1 DEF ToSend, Up
      <2>3. \A q \in Phones, i \in Nat : q # p /\ ToSend(q, i) => ToSend(q, i)'
            BY <1>2, <2>1 DEF ToSend, Up
      <2>4. UpOK'
            <3>1. ASSUME NEW q \in Phones, NEW i \in DOMAIN up'[q]
                  PROVE  phone'[q] = up'[q][i] \/ ToSend(q, i)'
                  <4>1. i \in DOMAIN up[q] /\ i \in Nat
                        BY <1>2, LenProperties DEF TypeInv
                  <4>2. QED BY <1>2, <2>1, <2>2, <2>3, <4>1 DEF UpOK
            <3>2. QED BY <3>1 DEF UpOK
      <2>5. Progress
            <3>1. \A q \in Phones, i \in 0..Len(inbox) :
                      /\ q = p => ToCome(q, i)'
                      /\ q # p => (ToCome(q, i) => ToCome(q, i)') /\ phone'[q] = phone[q]
                  BY <1>2, <2>1, <2>2, <2>3 DEF ToCome, Up
            <3>2. QED BY <1>2, <3>1 DEF Progress, Up
      <2>6. MonitorOK'
            BY <1>1, <1>2, <2>1 DEF MonitorOK
      <2>7. QED BY <2>4, <2>5, <2>6
<1>5. QED BY <1>3, <1>4

LEMMA FromPhoneOn ==
    ASSUME TypeInv, LinkOK, MonitorOK, UpOK, NEW p \in Phones, FromPhone(p), On(p)
    PROVE  /\ MonitorOK' /\ UpOK' /\ Progress
           /\ inbox' = Append(inbox, Head(up[p])) /\ Head(up[p]) \in Known
           /\ Up(p)' /\ (phone'[p] = Head(up[p]) \/ ToCome(p, Len(inbox) + 1)')
<1> DEFINE n == Len(up[p])
           h == Head(up[p])
           m == Len(inbox)
<1>1. /\ up[p] # <<>> /\ UNCHANGED <<phone, last, read, link, setting>>
      /\ inbox' = Append(inbox, h)
      /\ \A q \in Phones : up'[q] = IF q = p THEN Tail(up[p]) ELSE up[q]
      BY DEF FromPhone, TypeInv, phoneVars
<1>2. /\ h \in Known /\ h = up[p][1] /\ n \in Nat \ {0}
      /\ DOMAIN up[p] = 1..n /\ DOMAIN up'[p] = 1..(n - 1)
      /\ \A i \in 1..(n - 1) : up'[p][i] = up[p][i + 1]
      <2>1. up[p] \in Seq(Known) /\ up'[p] = Tail(up[p])
            BY <1>1 DEF TypeInv
      <2>2. QED BY <1>1, <2>1, TailOne
<1>3. /\ m \in Nat /\ DOMAIN inbox = 1..m /\ DOMAIN inbox' = 1..(m + 1)
      /\ inbox'[m + 1] = h /\ \A i \in 1..m : inbox'[i] = inbox[i]
      BY <1>1, <1>2, AppendOne DEF TypeInv
<1> HIDE DEF h, n, m
<1>4. ASSUME NEW i \in Nat, ToSend(p, i + 1) PROVE ToSend(p, i)'
      <2>1. CASE phone[p] # last[p] \/ read[p] = phone[p] \/ setting[p] = phone[p]
            BY <1>1, <1>4, <2>1 DEF ToSend, Up
      <2>2. CASE \E j \in DOMAIN up[p] : j > i + 1 /\ up[p][j] = phone[p]
            <3>1. PICK j \in DOMAIN up[p] : j > i + 1 /\ up[p][j] = phone[p]
                  BY <2>2
            <3>2. j - 1 \in 1..(n - 1) /\ j - 1 > i /\ (j - 1) + 1 = j
                  BY <1>2, <3>1
            <3>3. up'[p][j - 1] = phone[p]
                  BY <1>2, <3>1, <3>2
            <3>4. QED BY <1>1, <1>2, <1>4, <3>2, <3>3 DEF ToSend, Up
      <2>3. QED BY <1>4, <2>1, <2>2 DEF ToSend
<1>5. \A q \in Phones, i \in Nat : q # p /\ ToSend(q, i) => ToSend(q, i)'
      BY <1>1 DEF ToSend, Up
<1>6. UpOK'
      <2>1. ASSUME NEW i \in DOMAIN up'[p] PROVE phone'[p] = up'[p][i] \/ ToSend(p, i)'
            <3>1. i \in Nat /\ i + 1 \in 1..n /\ up'[p][i] = up[p][i + 1]
                  BY <1>2
            <3>2. phone[p] = up[p][i + 1] \/ ToSend(p, i + 1)
                  BY <1>2, <3>1 DEF UpOK
            <3>3. QED BY <1>1, <1>4, <3>1, <3>2
      <2>2. ASSUME NEW q \in Phones, q # p, NEW i \in DOMAIN up'[q]
            PROVE  phone'[q] = up'[q][i] \/ ToSend(q, i)'
            BY <1>1, <1>5, <2>2 DEF UpOK, TypeInv
      <2>3. QED BY <2>1, <2>2 DEF UpOK
<1>7. phone'[p] = h \/ ToCome(p, m + 1)'
      <2>1. phone[p] = up[p][1] \/ ToSend(p, 0 + 1)
            BY <1>2 DEF UpOK
      <2>2. QED BY <1>1, <1>2, <1>4, <2>1 DEF ToCome
<1>8. ASSUME NEW q \in Phones, NEW i \in 0..m, ToCome(q, i) PROVE ToCome(q, i)'
      <2>1. CASE /\ phone[q] # Empty /\ Up(q)
                 /\ \E j \in DOMAIN inbox : j > i /\ inbox[j] = phone[q]
            <3>1. \E j \in DOMAIN inbox' : j > i /\ inbox'[j] = phone[q]
                  BY <1>3, <2>1
            <3>2. QED BY <1>1, <2>1, <3>1 DEF ToCome, Up
      <2>2. CASE ToSend(q, 0) /\ q # p
            BY <1>5, <2>2 DEF ToCome
      <2>3. CASE ToSend(p, 0) /\ q = p
            <3>1. CASE ToSend(p, 0 + 1)
                  BY <1>4, <2>3, <3>1 DEF ToCome
            <3>2. CASE ~ToSend(p, 0 + 1)
                  <4>1. phone[p] # Empty /\ phone[p] = h /\ Up(p)
                        BY <1>2, <2>3, <3>2 DEF ToSend
                  <4>2. m + 1 \in DOMAIN inbox' /\ m + 1 > i
                        BY <1>3
                  <4>3. QED BY <1>1, <1>3, <2>3, <4>1, <4>2 DEF ToCome, Up
            <3>3. QED BY <3>1, <3>2
      <2>4. QED BY <1>8, <2>1, <2>2, <2>3 DEF ToCome
<1>9. Progress
      BY <1>1, <1>8 DEF Progress, Up, m
<1>10. MonitorOK'
      BY <1>1 DEF MonitorOK
<1>11. Up(p)'
      BY <1>1 DEF LinkOK, Up
<1>12. QED BY <1>1, <1>2, <1>6, <1>7, <1>9, <1>10, <1>11 DEF h, m

(* A copy that is no trouble is of a fresh text.                              *)
LEMMA FreshText ==
    ASSUME TypeInv, NEW t \in Texts, troubles' = {},
           CopyOnPc(t) \/ \E p \in Phones : CopyOnPhone(p, t)
    PROVE  t \notin KnownOrEmpty /\ t # Empty /\ troubles = {}
<1>1. Again(t) = {} /\ troubles = {}
      BY DEF CopyOnPc, CopyOnPhone
<1>2. QED BY <1>1 DEF Again, KnownOrEmpty, Known

LEMMA CopyOnPhoneOn ==
    ASSUME TypeInv, MonitorOK, UpOK, LinkOK, NEW p \in Phones, NEW t \in Texts,
           CopyOnPhone(p, t), troubles' = {}
    PROVE  MonitorOK' /\ UpOK' /\ Progress /\ t \notin KnownOrEmpty
<1>1. t \notin KnownOrEmpty /\ t # Empty
      BY FreshText
<1>2. /\ UNCHANGED <<inbox, up, last, read, link, setting>>
      /\ \A q \in Phones : phone'[q] = IF q = p THEN t ELSE phone[q]
      BY DEF CopyOnPhone, TypeInv, pcVars, links
<1>3. t # last[p]
      BY <1>1 DEF TypeInv
<1>4. \A q \in Phones, i \in Nat : ((q = p /\ Up(p)) \/ ToSend(q, i)) => ToSend(q, i)'
      BY <1>1, <1>2, <1>3 DEF ToSend, Up
<1>5. ASSUME NEW q \in Phones, NEW i \in Nat, (q = p /\ Up(p)) \/ ToCome(q, i)
      PROVE  ToCome(q, i)' \/ (q = p /\ ~Up(p))
      BY <1>2, <1>4, <1>5 DEF ToCome, ToSend, Up
<1>6. UpOK'
      <2>1. ASSUME NEW q \in Phones, NEW i \in DOMAIN up'[q]
            PROVE  phone'[q] = up'[q][i] \/ ToSend(q, i)'
            <3>1. i \in DOMAIN up[q] /\ i \in Nat
                  BY <1>2, LenProperties DEF TypeInv
            <3>2. Up(q)
                  BY <3>1 DEF LinkOK
            <3>3. QED BY <1>2, <1>4, <3>1, <3>2 DEF UpOK
      <2>2. QED BY <2>1 DEF UpOK
<1>7. MonitorOK'
      BY <1>1, <1>2 DEF MonitorOK
<1>8. Progress
      <2>1. \A i \in Nat : ToCome(p, i) => Up(p)
            BY DEF ToCome, ToSend
      <2>2. QED BY <1>2, <1>5, <2>1 DEF Progress, Up
<1>9. QED BY <1>1, <1>6, <1>7, <1>8

(* A step with which all stays under way, and what it adds to inbox is some   *)
(* phone's present text or one that another will follow.                     *)
LEMMA Carried ==
    ASSUME TypeInv, InboxOK, Progress, UNCHANGED <<pc, lastSeen, lastPhone, unwritten>>,
           \/ UNCHANGED inbox
           \/ \E h \in Known : /\ inbox' = Append(inbox, h)
                              /\ \E p \in Phones :
                                    Up(p)' /\ (\/ phone'[p] = h
                                               \/ ToCome(p, Len(inbox) + 1)'),
           \A q \in Phones : Unheard(q) => Unheard(q)' \/ ToCome(q, 0)'
    PROVE  InboxOK' /\ (NothingOK => NothingOK') /\ (FromPhoneOK => FromPhoneOK')
<1>1. Len(inbox) \in Nat /\ DOMAIN inbox = 1..Len(inbox) /\ 0 \in 0..Len(inbox)
      BY LenProperties DEF TypeInv
<1>2. ASSUME NEW i \in DOMAIN inbox
      PROVE  \E q \in Phones : Up(q)' /\ (phone'[q] = inbox[i] \/ ToCome(q, i)')
      <2>1. PICK q \in Phones : Up(q) /\ (phone[q] = inbox[i] \/ ToCome(q, i))
            BY DEF InboxOK
      <2>2. i \in 0..Len(inbox)
            BY <1>1
      <2>3. Up(q)' /\ (phone'[q] = inbox[i] \/ ToCome(q, i)')
            BY <2>1, <2>2 DEF Progress
      <2>4. QED BY <2>3
<1>3. InboxOK'
      <2>1. CASE UNCHANGED inbox
            BY <1>2, <2>1 DEF InboxOK
      <2>2. ASSUME NEW h \in Known, inbox' = Append(inbox, h),
                   \E p \in Phones : Up(p)' /\ (phone'[p] = h \/ ToCome(p, Len(inbox) + 1)')
            PROVE  InboxOK'
            <3>1. /\ DOMAIN inbox' = 1..(Len(inbox) + 1) /\ inbox'[Len(inbox) + 1] = h
                  /\ \A i \in DOMAIN inbox : inbox'[i] = inbox[i]
                  BY <2>2, AppendOne DEF TypeInv
            <3>2. ASSUME NEW i \in DOMAIN inbox'
                  PROVE  \E q \in Phones : Up(q)' /\ (phone'[q] = inbox'[i] \/ ToCome(q, i)')
                  <4>1. CASE i \in DOMAIN inbox
                        BY <1>2, <3>1, <4>1
                  <4>2. CASE i = Len(inbox) + 1
                        BY <2>2, <3>1, <4>2 DEF ToCome
                  <4>3. QED BY <1>1, <3>1, <4>1, <4>2
            <3>3. QED BY <3>2 DEF InboxOK
      <2>3. QED BY <2>1, <2>2
<1>4. \A q \in Phones : /\ ToCome(q, 0) => ToCome(q, 0)'
                        /\ Up(q) => Up(q)' /\ (phone'[q] = phone[q] \/ ToCome(q, 0)')
      BY <1>1 DEF Progress
<1>5. NothingOK => NothingOK'
      BY <1>4 DEF NothingOK
<1>6. FromPhoneOK => FromPhoneOK'
      <2> SUFFICES ASSUME FromPhoneOK, pc # Empty, pc = lastSeen, pc = lastPhone
                   PROVE  \E q \in Phones : Up(q)' /\ (phone'[q] = pc \/ ToCome(q, 0)')
          BY DEF FromPhoneOK
      <2>1. PICK q \in Phones : Up(q) /\ (phone[q] = pc \/ ToCome(q, 0))
            BY DEF FromPhoneOK
      <2>2. Up(q)' /\ (phone'[q] = pc \/ ToCome(q, 0)')
            BY <1>4, <2>1
      <2>3. QED BY <2>2
<1>7. QED BY <1>3, <1>5, <1>6

(* Nothing changes in what is on its way to a phone, and its text stays or is *)
(* fresh.                                                                    *)
LEMMA StillArriving ==
    ASSUME TypeInv, Progress, NEW q \in Phones, UNCHANGED <<pc, lastPhone>>,
           sub'[q] = sub[q], down'[q] = down[q],
           Up(q) => phone'[q] = phone[q] \/ phone'[q] # lastPhone, Arriving(q)
    PROVE  Arriving(q)'
<1>1. /\ ToCome(q, 0) => ToCome(q, 0)'
      /\ Up(q) => Up(q)' /\ (phone'[q] = phone[q] \/ ToCome(q, 0)')
      BY LenProperties DEF Progress, TypeInv
<1>2. QED BY <1>1 DEF Arriving

-----------------------------------------------------------------------------
(* The induction step, action by action.                                     *)

LEMMA CopyOnPcStep ==
    ASSUME TypeInv, AgreementInv, NEW t \in Texts, CopyOnPc(t)
    PROVE  AgreementInv'
<1> SUFFICES ASSUME troubles' = {} PROVE AgreementInv'
    BY DEF AgreementInv
<1>1. t \notin KnownOrEmpty /\ t # Empty /\ pc' = t /\ troubles = {}
      BY FreshText DEF CopyOnPc
<1>2. UNCHANGED <<lastSeen, lastPhone, inbox, unwritten, up, link, phone, last, read, setting,
                  enabled>>
      BY DEF CopyOnPc, links
<1>3. t # lastSeen /\ t # lastPhone
      BY <1>1 DEF TypeInv
<1>4. MonitorOK' /\ UnseenOK' /\ SettingOK'
      BY <1>1, <1>2, <1>3 DEF AgreementInv, MonitorOK, UnseenOK, SettingOK
<1>5. NothingOK' /\ FromPcOK' /\ FromPhoneOK'
      BY <1>1, <1>2, <1>3 DEF NothingOK, FromPcOK, FromPhoneOK
<1>6. (UpOK => UpOK') /\ (InboxOK => InboxOK') /\ AllOn' = AllOn
      BY <1>2 DEF UpOK, InboxOK, ToCome, ToSend, AllOn, Up
<1>7. QED BY <1>1, <1>4, <1>5, <1>6 DEF AgreementInv

LEMMA PollStep ==
    ASSUME TypeInv, AgreementInv, Poll
    PROVE  AgreementInv'
<1> SUFFICES ASSUME troubles' = {} PROVE AgreementInv'
    BY DEF AgreementInv
<1>1. /\ pc # Empty /\ pc # lastSeen /\ lastSeen' = pc
      /\ UNCHANGED <<pc, lastPhone, inbox, unwritten, up, link, phone, last, read, setting,
                     enabled>>
      /\ troubles = {}
      BY DEF Poll, phoneVars
<1>2. pc # lastPhone /\ pc \in Known
      BY <1>1 DEF AgreementInv, UnseenOK, TypeInv, KnownOrEmpty
<1>3. MonitorOK' /\ UnseenOK' /\ SettingOK'
      BY <1>1 DEF AgreementInv, MonitorOK, UnseenOK, SettingOK
<1>4. NothingOK' /\ FromPhoneOK'
      BY <1>1, <1>2 DEF NothingOK, FromPhoneOK
<1>5. FromPcOK'
      <2>1. ASSUME NEW p \in sentTo' PROVE Arriving(p)'
            <3>1. p \in Phones /\ sub'[p] = Sent(sub[p], pc)
                  BY <1>2 DEF Poll
            <3>2. sub[p] \in Seq(Known) /\ Len(sub[p]) <= SubLimit
                  BY <3>1 DEF TypeInv
            <3>3. Sent(sub[p], pc) # <<>> /\ Sent(sub[p], pc)[Len(Sent(sub[p], pc))] = pc
                  <4>1. ASSUME NEW s \in Seq(Known), Len(s) <= SubLimit
                        PROVE  Sent(s, pc) # <<>> /\ Sent(s, pc)[Len(Sent(s, pc))] = pc
                        BY <1>2, <4>1, SentOne
                  <4>2. QED BY <3>2, <4>1
            <3>4. QED BY <1>1, <3>1, <3>3 DEF Arriving
      <2>2. QED BY <2>1 DEF FromPcOK
<1>6. (UpOK => UpOK') /\ (InboxOK => InboxOK') /\ AllOn' = AllOn
      BY <1>1 DEF UpOK, InboxOK, ToCome, ToSend, AllOn, Up
<1>7. QED BY <1>1, <1>3, <1>4, <1>5, <1>6 DEF AgreementInv

LEMMA OnPhoneClipboardStep ==
    ASSUME TypeInv, AgreementInv, OnPhoneClipboard
    PROVE  AgreementInv'
<1> SUFFICES ASSUME troubles' = {} PROVE AgreementInv'
    BY DEF AgreementInv
<1> DEFINE t == Head(inbox)
           m == Len(inbox)
<1>1. /\ inbox # <<>> /\ inbox' = Tail(inbox) /\ troubles = {}
      /\ UNCHANGED <<sub, sentTo, down, up, link, phone, last, read, setting, unheard, enabled>>
      /\ IF t \in {lastPhone, lastSeen} THEN UNCHANGED <<pc, lastSeen, lastPhone, unwritten>>
         ELSE Received(t)
      BY DEF OnPhoneClipboard, links, phoneVars
<1>2. /\ t \in Known /\ t = inbox[1] /\ m \in Nat \ {0}
      /\ DOMAIN inbox = 1..m /\ DOMAIN inbox' = 1..(m - 1)
      /\ \A i \in 1..(m - 1) : inbox'[i] = inbox[i + 1]
      BY <1>1, TailOne DEF TypeInv
<1>3. t # Empty
      BY <1>2 DEF Known
<1> HIDE DEF t, m
<1>4. MonitorOK' /\ SettingOK' /\ (UpOK => UpOK') /\ AllOn' = AllOn
      BY <1>1 DEF AgreementInv, MonitorOK, SettingOK, UpOK, ToSend, AllOn, Up
<1>5. \A q \in Phones, i \in Nat : ToSend(q, i) => ToSend(q, i)'
      BY <1>1 DEF ToSend, Up
<1>6. ASSUME NEW q \in Phones, NEW i \in Nat, ToCome(q, i + 1) PROVE ToCome(q, i)'
      <2>1. CASE ToSend(q, 0)
            BY <1>5, <2>1 DEF ToCome
      <2>2. CASE /\ phone[q] # Empty /\ Up(q)
                 /\ \E j \in DOMAIN inbox : j > i + 1 /\ inbox[j] = phone[q]
            <3>1. PICK j \in 1..m : j > i + 1 /\ inbox[j] = phone[q]
                  BY <1>2, <2>2
            <3>2. j - 1 \in 1..(m - 1) /\ j - 1 > i /\ (j - 1) + 1 = j
                  BY <1>2, <3>1
            <3>3. inbox'[j - 1] = phone[q]
                  BY <1>2, <3>1, <3>2
            <3>4. QED BY <1>1, <1>2, <2>2, <3>2, <3>3 DEF ToCome, Up
      <2>3. QED BY <1>6, <2>1, <2>2 DEF ToCome
<1>7. ASSUME NEW q \in Phones, ToCome(q, 0) PROVE ToCome(q, 0)' \/ phone[q] = t
      <2>1. CASE ToCome(q, 0 + 1)
            BY <1>6, <2>1
      <2>2. CASE ~ToCome(q, 0 + 1)
            BY <1>2, <1>7, <2>2 DEF ToCome
      <2>3. QED BY <2>1, <2>2
<1>8. InboxOK => InboxOK'
      <2> SUFFICES ASSUME InboxOK, NEW i \in DOMAIN inbox'
                   PROVE  \E q \in Phones : Up(q)' /\ (phone'[q] = inbox'[i] \/ ToCome(q, i)')
          BY DEF InboxOK
      <2>1. i \in Nat /\ i + 1 \in DOMAIN inbox /\ inbox'[i] = inbox[i + 1]
            BY <1>2
      <2>2. PICK q \in Phones : Up(q) /\ (phone[q] = inbox[i + 1] \/ ToCome(q, i + 1))
            BY <2>1 DEF InboxOK
      <2>3. Up(q)' /\ (phone'[q] = inbox'[i] \/ ToCome(q, i)')
            BY <1>1, <1>6, <2>1, <2>2 DEF Up
      <2>4. QED BY <2>3
(* The head is some phone's present text, or that one's will follow.         *)
<1>9. InboxOK => \E q \in Phones : Up(q)' /\ (phone'[q] = t \/ ToCome(q, 0)')
      <2> SUFFICES ASSUME InboxOK
                   PROVE  \E q \in Phones : Up(q)' /\ (phone'[q] = t \/ ToCome(q, 0)')
          OBVIOUS
      <2>1. PICK q \in Phones : Up(q) /\ (phone[q] = inbox[1] \/ ToCome(q, 0 + 1))
            BY <1>2 DEF InboxOK
      <2>2. Up(q)' /\ (phone'[q] = t \/ ToCome(q, 0)')
            BY <1>1, <1>2, <1>6, <2>1 DEF Up
      <2>3. QED BY <2>2
<1>10. CASE t \in {lastPhone, lastSeen}
      <2>1. UNCHANGED <<pc, lastSeen, lastPhone, unwritten>>
            BY <1>1, <1>10
      <2>2. UnseenOK'
            BY <1>1, <2>1 DEF AgreementInv, UnseenOK
      <2>3. NothingOK => NothingOK'
            <3> SUFFICES ASSUME NothingOK, pc = Empty, ~unwritten, NEW q \in Phones
                         PROVE  Unheard(q)' \/ ToCome(q, 0)'
                BY <2>1 DEF NothingOK
            <3>1. FALSE
                  BY <1>3, <1>10 DEF NothingOK
            <3>2. QED BY <3>1
      <2>4. FromPcOK => FromPcOK'
            <3> SUFFICES ASSUME FromPcOK, pc # Empty, pc = lastSeen, pc # lastPhone,
                                pc \notin Long, NEW p \in sentTo
                         PROVE  Arriving(p)'
                BY <1>1, <2>1 DEF FromPcOK
            <3>1. Arriving(p) /\ p \in Phones
                  BY DEF FromPcOK, TypeInv
            <3>2. ToCome(p, 0) /\ phone[p] # lastPhone => ToCome(p, 0)' \/ phone[p] = pc
                  BY <1>7, <1>10, <3>1
            <3>3. QED BY <1>1, <2>1, <3>1, <3>2 DEF Arriving, Up
      <2>5. FromPhoneOK => FromPhoneOK'
            <3> SUFFICES ASSUME FromPhoneOK, pc # Empty, pc = lastSeen, pc = lastPhone
                         PROVE  \E q \in Phones : Up(q)' /\ (phone'[q] = pc \/ ToCome(q, 0)')
                BY <2>1 DEF FromPhoneOK
            <3>1. PICK q \in Phones : Up(q) /\ (phone[q] = pc \/ ToCome(q, 0))
                  BY DEF FromPhoneOK
            <3>2. Up(q)' /\ (phone'[q] = pc \/ ToCome(q, 0)')
                  BY <1>1, <1>7, <1>10, <3>1 DEF Up
            <3>3. QED BY <3>2
      <2>6. QED BY <1>4, <1>8, <2>2, <2>3, <2>4, <2>5, <1>1 DEF AgreementInv
<1>11. CASE t \notin {lastPhone, lastSeen}
      <2>1. /\ lastPhone' = t /\ lastSeen' = t
            /\ pc' = t \/ (unwritten' /\ pc' = pc)
            BY <1>1, <1>11 DEF Received
      <2>2. UnseenOK' /\ NothingOK' /\ FromPcOK'
            BY <1>3, <2>1 DEF UnseenOK, NothingOK, FromPcOK
      <2>3. InboxOK => FromPhoneOK'
            BY <1>9, <2>1 DEF FromPhoneOK
      <2>4. QED BY <1>1, <1>4, <1>8, <2>2, <2>3 DEF AgreementInv
<1>12. QED BY <1>10, <1>11

(* Steps that leave Core's two remembered texts and the PC's clipboard alone. *)
LEMMA OtherStep ==
    ASSUME TypeInv, AgreementInv, troubles = {}, MonitorOK', SettingOK',
           UNCHANGED <<pc, lastSeen, lastPhone, unwritten, sentTo>>,
           AllOn' => /\ AllOn /\ UpOK' /\ InboxOK'
                     /\ (NothingOK => NothingOK')
                     /\ (FromPhoneOK => FromPhoneOK')
                     /\ \A q \in Phones : pc \notin {lastPhone} \cup Long /\ Arriving(q)
                                              => Arriving(q)'
    PROVE  AgreementInv'
<1>1. UnseenOK'
      BY DEF AgreementInv, UnseenOK
<1>2. AllOn' => (FromPcOK => FromPcOK')
      BY DEF FromPcOK, TypeInv
<1>3. QED BY <1>1, <1>2 DEF AgreementInv

LEMMA SendToPhoneStep ==
    ASSUME TypeInv, AgreementInv, NEW p \in Phones, SendToPhone(p)
    PROVE  AgreementInv'
<1> SUFFICES ASSUME troubles' = {} PROVE AgreementInv'
    BY DEF AgreementInv
<1> DEFINE h == Head(sub[p])
<1>1. /\ sub[p] # <<>> /\ troubles = {}
      /\ \A q \in Phones : sub'[q] = IF q = p THEN Tail(sub[p]) ELSE sub[q]
      /\ UNCHANGED <<pc, lastSeen, lastPhone, inbox, unwritten, sentTo, up, link, phone, last,
                     read, setting, unheard, enabled>>
      /\ On(p) => \A q \in Phones : down'[q] = IF q = p THEN Append(down[p], h) ELSE down[q]
      BY DEF SendToPhone, TypeInv, pcVars, phoneVars
<1>2. MonitorOK' /\ SettingOK' /\ AllOn' = AllOn
      BY <1>1 DEF AgreementInv, MonitorOK, SettingOK, AllOn
<1>3. /\ (UpOK => UpOK') /\ (InboxOK => InboxOK') /\ (NothingOK => NothingOK')
      /\ (FromPhoneOK => FromPhoneOK')
      /\ \A q \in Phones : ToCome(q, 0) => ToCome(q, 0)'
      BY <1>1 DEF UpOK, InboxOK, NothingOK, Unheard, FromPhoneOK, ToCome, ToSend, Up
<1>4. ASSUME AllOn, NEW q \in Phones, Arriving(q) PROVE Arriving(q)'
      <2>1. CASE q # p
            BY <1>1, <1>3, <1>4, <2>1 DEF Arriving, AllOn, On, Up
      <2>2. CASE q = p
            <3>1. sub[p][Len(sub[p])] = pc
                  BY <1>1, <1>4, <2>2 DEF Arriving
            <3>2. sub'[p] = Tail(sub[p]) /\ down'[p] = Append(down[p], h)
                  BY <1>1, <1>4 DEF AllOn, On
            <3>3. sub[p] \in Seq(Known) /\ down[p] \in Seq(Known)
                  BY DEF TypeInv
            <3>4. /\ h \in Known
                  /\ IF Tail(sub[p]) = <<>> THEN h = pc
                     ELSE Tail(sub[p])[Len(Tail(sub[p]))] = pc
                  BY <1>1, <3>1, <3>3, TailOne, LastOfTail
            <3>5. CASE Tail(sub[p]) # <<>>
                  BY <1>1, <2>2, <3>2, <3>4, <3>5 DEF Arriving
            <3>6. CASE Tail(sub[p]) = <<>>
                  <4>1. /\ Append(down[p], h) # <<>>
                        /\ Append(down[p], h)[Len(Append(down[p], h))] = h
                        BY <3>4, <3>3, AppendOne
                  <4>2. QED BY <1>1, <2>2, <3>2, <3>4, <3>6, <4>1 DEF Arriving
            <3>7. QED BY <3>5, <3>6
      <2>3. QED BY <2>1, <2>2
<1>5. AllOn' => UpOK' /\ InboxOK'
      BY <1>1, <1>2, <1>3 DEF AgreementInv
<1>6. QED BY <1>1, <1>2, <1>3, <1>4, <1>5, OtherStep

(* A phone whose text is found or was told to nobody before its session was up. *)
LEMMA UnheardOn ==
    ASSUME TypeInv, LinkOK, MonitorOK, NEW p \in Phones, Progress, NEW q \in Phones, Unheard(q),
           \/ MonitorReads(p) \/ MonitorReports(p) \/ SetClipboard(p) \/ BroadcastChange(p)
           \/ FromPhone(p) \/ \E t \in Texts : CopyOnPhone(p, t) /\ t \notin KnownOrEmpty
    PROVE  Unheard(q)' \/ ToCome(q, 0)'
<1>1. UNCHANGED link /\ (phone'[q] = phone[q] \/ ~Up(q) \/ ToCome(q, 0)')
      BY LenProperties DEF MonitorReads, MonitorReports, SetClipboard, BroadcastChange,
         FromPhone, CopyOnPhone, Progress, TypeInv
<1>2. CASE q # p
      BY <1>1, <1>2 DEF MonitorReads, MonitorReports, SetClipboard, BroadcastChange, FromPhone,
         CopyOnPhone, phoneVars, Unheard, Up, TypeInv
<1>3. CASE q = p /\ (FromPhone(p) \/ BroadcastChange(p))
      BY <1>3 DEF FromPhone, BroadcastChange, phoneVars, Unheard, Up
<1>4. CASE q = p /\ SetClipboard(p)
      <2>1. Up(p) /\ UNCHANGED unheard
            BY <1>4 DEF SetClipboard, LinkOK
      <2>2. phone'[p] = phone[p] \/ ToCome(p, 0)'
            BY <1>1, <1>4, <2>1
      <2>3. phone[p] \in {Empty, unheard[p]}
            BY <1>4, <2>1 DEF Unheard
      <2>4. QED BY <1>4, <2>1, <2>2, <2>3 DEF Unheard
<1>5. CASE q = p /\ MonitorReads(p)
      BY <1>5 DEF MonitorReads, Unheard, Up, TypeInv
<1>6. CASE q = p /\ MonitorReports(p)
      <2>1. last[p] = read[p] /\ UNCHANGED <<phone, last, link>>
            BY <1>6 DEF MonitorReports, MonitorOK
      <2>2. CASE Up(p)
            BY <1>6, <2>1, <2>2 DEF MonitorReports, Unheard, Up
      <2>3. CASE ~Up(p)
            <3>1. unheard'[p] = read[p]
                  BY <1>6, <2>3 DEF MonitorReports, TypeInv
            <3>2. CASE phone[p] = Empty \/ phone[p] = read[p] \/ phone[p] # last[p]
                  BY <1>6, <2>1, <2>3, <3>1, <3>2 DEF Unheard, Up
            <3>3. QED BY <2>1, <3>2
      <2>4. QED BY <2>2, <2>3
<1>7. ASSUME q = p, NEW t \in Texts, CopyOnPhone(p, t), t \notin KnownOrEmpty
      PROVE  Unheard(q)' \/ ToCome(q, 0)'
      <2>1. phone'[p] = t /\ UNCHANGED <<last, link>> /\ last[p] # t
            BY <1>7 DEF CopyOnPhone, TypeInv
      <2>2. CASE ~Up(p)
            BY <1>7, <2>1, <2>2 DEF Unheard, Up
      <2>3. CASE Up(p)
            <3>1. phone'[p] # phone[p]
                  BY <1>7, <2>1 DEF TypeInv
            <3>2. QED BY <1>1, <1>7, <2>3, <3>1
      <2>4. QED BY <2>2, <2>3
<1>8. QED BY <1>2, <1>3, <1>4, <1>5, <1>6, <1>7

(* The steps of the phones, and what arrives from them.                      *)
LEMMA PhoneStep ==
    ASSUME TypeInv, LinkOK, AgreementInv, NEW p \in Phones,
           \/ MonitorReads(p) \/ MonitorReports(p) \/ SetClipboard(p) \/ BroadcastChange(p)
           \/ FromPhone(p) \/ \E t \in Texts : CopyOnPhone(p, t)
    PROVE  AgreementInv'
<1> SUFFICES ASSUME troubles' = {} PROVE AgreementInv'
    BY DEF AgreementInv
<1>1. /\ UNCHANGED <<pc, lastSeen, lastPhone, unwritten, sub, sentTo, link, enabled>>
      /\ troubles = {}
      BY DEF MonitorReads, MonitorReports, SetClipboard, BroadcastChange, FromPhone, CopyOnPhone,
         pcVars, links, phoneVars
<1>2. MonitorOK' /\ SettingOK' /\ AllOn' = AllOn
      <2>1. MonitorOK /\ SettingOK /\ AllOn' = AllOn
            BY <1>1 DEF AgreementInv, AllOn
      <2>2. CASE FromPhone(p)
            BY <2>1, <2>2 DEF FromPhone, phoneVars, MonitorOK, SettingOK
      <2>3. CASE MonitorReads(p)
            BY <2>1, <2>3 DEF MonitorReads, MonitorOK, SettingOK, TypeInv
      <2>4. CASE MonitorReports(p)
            BY <2>1, <2>4 DEF MonitorReports, MonitorOK, SettingOK, TypeInv
      <2>5. CASE SetClipboard(p)
            <3>1. Head(down[p]) # Empty
                  BY <2>5, TailOne DEF SetClipboard, TypeInv, Known
            <3>2. CASE UNCHANGED <<phone, setting>>
                  BY <2>1, <2>5, <3>2 DEF SetClipboard, MonitorOK, SettingOK
            <3>3. CASE /\ phone' = [phone EXCEPT ![p] = Head(down[p])]
                       /\ setting' = [setting EXCEPT ![p] = Head(down[p])]
                  BY <2>1, <2>5, <3>1, <3>3 DEF SetClipboard, MonitorOK, SettingOK, TypeInv
            <3>4. QED BY <2>5, <3>2, <3>3 DEF SetClipboard
      <2>6. CASE BroadcastChange(p)
            BY <2>1, <2>6 DEF BroadcastChange, MonitorOK, SettingOK, TypeInv
      <2>7. ASSUME NEW t \in Texts, CopyOnPhone(p, t) PROVE MonitorOK' /\ SettingOK'
            <3>1. t # Empty /\ setting[p] = Empty
                  BY <2>7 DEF CopyOnPhone
            <3>2. UNCHANGED <<last, read, setting>> /\ phone' = [phone EXCEPT ![p] = t]
                  BY <2>7 DEF CopyOnPhone
            <3>3. QED BY <2>1, <3>1, <3>2 DEF MonitorOK, SettingOK, TypeInv
      <2>8. QED BY <2>1, <2>2, <2>3, <2>4, <2>5, <2>6, <2>7
<1>3. ASSUME NEW t \in Texts, CopyOnPhone(p, t) PROVE t \notin KnownOrEmpty
      BY <1>3, FreshText
<1>4. ASSUME AllOn
      PROVE  /\ UpOK' /\ Progress /\ InboxOK' /\ (NothingOK => NothingOK')
             /\ (FromPhoneOK => FromPhoneOK')
      <2>1. MonitorOK /\ SettingOK /\ UpOK /\ InboxOK /\ On(p)
            BY <1>1, <1>4 DEF AgreementInv, AllOn, On
      <2>2. CASE FromPhone(p)
            <3>1. /\ UpOK' /\ Progress
                  /\ inbox' = Append(inbox, Head(up[p])) /\ Head(up[p]) \in Known
                  /\ Up(p)' /\ (phone'[p] = Head(up[p]) \/ ToCome(p, Len(inbox) + 1)')
                  BY <2>1, <2>2, FromPhoneOn
            <3>2. \A q \in Phones : Unheard(q) => Unheard(q)' \/ ToCome(q, 0)'
                  BY <2>1, <2>2, <3>1, UnheardOn
            <3>3. QED BY <1>1, <2>1, <3>1, <3>2, Carried
      <2>3. CASE ~FromPhone(p)
            <3>1. UpOK' /\ Progress
                  BY <2>1, <2>3, MonitorReadsOn, MonitorReportsOn, SetClipboardOn,
                     BroadcastChangeOn, CopyOnPhoneOn
            <3>2. UNCHANGED inbox
                  BY <2>3 DEF MonitorReads, MonitorReports, SetClipboard, BroadcastChange,
                     CopyOnPhone, pcVars
            <3>3. \A q \in Phones : Unheard(q) => Unheard(q)' \/ ToCome(q, 0)'
                  BY <1>3, <2>1, <3>1, UnheardOn
            <3>4. QED BY <1>1, <2>1, <3>1, <3>2, <3>3, Carried
      <2>4. QED BY <2>2, <2>3
<1>5. ASSUME AllOn, NEW q \in Phones, pc \notin {lastPhone} \cup Long, Arriving(q)
      PROVE  Arriving(q)'
      <2>1. CASE SetClipboard(p) /\ q = p
            <3>1. /\ down[p] # <<>> /\ down'[p] = Tail(down[p]) /\ Up(p)'
                  /\ Head(down[p]) \notin Long => phone'[p] = Head(down[p])
                  BY <1>1, <2>1 DEF SetClipboard, TypeInv, LinkOK, Up
            <3>2. CASE sub[p] # <<>>
                  BY <1>1, <1>5, <2>1, <3>2 DEF Arriving
            <3>3. CASE sub[p] = <<>>
                  <4>1. down[p][Len(down[p])] = pc
                        BY <1>5, <2>1, <3>1, <3>3 DEF Arriving
                  <4>2. IF Tail(down[p]) = <<>> THEN Head(down[p]) = pc
                        ELSE Tail(down[p])[Len(Tail(down[p]))] = pc
                        BY <3>1, <4>1, LastOfTail DEF TypeInv
                  <4>3. CASE Tail(down[p]) = <<>>
                        BY <1>1, <1>5, <2>1, <3>1, <3>3, <4>2, <4>3 DEF Arriving
                  <4>4. CASE Tail(down[p]) # <<>>
                        BY <1>1, <2>1, <3>1, <3>3, <4>2, <4>4 DEF Arriving
                  <4>5. QED BY <4>3, <4>4
            <3>4. QED BY <3>2, <3>3
      <2>2. CASE ~(SetClipboard(p) /\ q = p)
            <3>1. sub'[q] = sub[q] /\ down'[q] = down[q]
                  BY <1>1, <2>2 DEF MonitorReads, MonitorReports, SetClipboard, BroadcastChange,
                     FromPhone, CopyOnPhone, links, TypeInv
            <3>2. phone'[q] = phone[q] \/ phone'[q] # lastPhone
                  <4>1. ASSUME NEW t \in Texts, CopyOnPhone(p, t)
                        PROVE  phone'[q] = phone[q] \/ phone'[q] # lastPhone
                        <5>1. t # lastPhone
                              BY <1>3, <4>1 DEF TypeInv
                        <5>2. QED BY <4>1, <5>1 DEF CopyOnPhone, TypeInv
                  <4>2. CASE \/ MonitorReads(p) \/ MonitorReports(p) \/ FromPhone(p)
                             \/ BroadcastChange(p)
                        BY <4>2 DEF MonitorReads, MonitorReports, FromPhone, BroadcastChange,
                           phoneVars
                  <4>3. CASE SetClipboard(p)
                        BY <2>2, <4>3 DEF SetClipboard, TypeInv
                  <4>4. QED BY <4>1, <4>2, <4>3
            <3>3. QED BY <1>1, <1>4, <1>5, <3>1, <3>2, StillArriving
      <2>3. QED BY <2>1, <2>2
<1>6. QED BY <1>1, <1>2, <1>4, <1>5, OtherStep

(* A session starts, or gets through its handshake.                          *)
LEMMA LinkedStep ==
    ASSUME TypeInv, LinkOK, AgreementInv, NEW p \in Phones, StartSession(p) \/ Listen(p)
    PROVE  AgreementInv'
<1> SUFFICES ASSUME troubles' = {} PROVE AgreementInv'
    BY DEF AgreementInv
<1>1. /\ UNCHANGED <<pcVars, links, phoneVars, enabled>> /\ ~Up(p)
      /\ \A q \in Phones : Up(q) => Up(q)'
      /\ \A q \in Phones : q # p => Up(q)' = Up(q)
      BY DEF StartSession, Listen, Up, TypeInv
<1>2. troubles = {} /\ MonitorOK' /\ SettingOK' /\ AllOn' = AllOn
      BY <1>1 DEF AgreementInv, MonitorOK, SettingOK, AllOn, phoneVars
<1>3. \A q \in Phones, i \in Nat : ToSend(q, i) => ToSend(q, i)'
      BY <1>1 DEF ToSend, phoneVars, links
<1>4. \A q \in Phones, i \in Nat : ToCome(q, i) => ToCome(q, i)'
      BY <1>1, <1>3 DEF ToCome, phoneVars, pcVars
<1>5. UpOK => UpOK'
      BY <1>1, <1>3 DEF UpOK, phoneVars, links, TypeInv
<1>6. Progress
      BY <1>1, <1>4 DEF Progress, phoneVars
<1>7. \A q \in Phones : Unheard(q) => Unheard(q)' \/ ToCome(q, 0)'
      <2>1. ASSUME NEW q \in Phones, Unheard(q) PROVE Unheard(q)' \/ ToCome(q, 0)'
            <3>1. CASE phone[q] \in {Empty, unheard[q]}
                  BY <1>1, <3>1 DEF Unheard, phoneVars
            <3>2. CASE phone[q] # Empty /\ (phone[q] # last[q] \/ read[q] = phone[q])
                  BY <1>1, <3>2 DEF Unheard, ToCome, ToSend, phoneVars
            <3>3. QED BY <2>1, <3>1, <3>2 DEF Unheard
      <2>2. QED BY <2>1
<1>8. ASSUME AllOn
      PROVE  InboxOK' /\ (NothingOK => NothingOK') /\ (FromPhoneOK => FromPhoneOK')
      <2>1. InboxOK
            BY <1>2, <1>8 DEF AgreementInv
      <2>2. UNCHANGED <<pc, lastSeen, lastPhone, unwritten, inbox>>
            BY <1>1 DEF pcVars
      <2>3. QED BY <1>6, <1>7, <2>1, <2>2, Carried
<1>9. \A q \in Phones : Arriving(q) => Arriving(q)'
      BY <1>1, <1>4 DEF Arriving, phoneVars, pcVars, links
<1>10. AllOn => UpOK'
       BY <1>2, <1>5 DEF AgreementInv
<1>11. UNCHANGED <<pc, lastSeen, lastPhone, unwritten, sentTo>>
       BY <1>1 DEF pcVars, links
<1>12. QED BY <1>2, <1>8, <1>9, <1>10, <1>11, OtherStep

LEMMA InitAgreement == Init => LinkOK /\ AgreementInv
<1> SUFFICES ASSUME Init PROVE LinkOK /\ AgreementInv
    OBVIOUS
<1>1. /\ inbox = <<>>
      /\ \A p \in Phones : /\ down[p] = <<>> /\ up[p] = <<>> /\ last[p] = Empty
                           /\ read[p] = Empty /\ setting[p] = Empty /\ ~Up(p)
      /\ pc = Empty /\ lastSeen = Empty /\ lastPhone = Empty
      BY DEF Init, Up
<1>2. MonitorOK /\ UnseenOK /\ SettingOK /\ UpOK /\ InboxOK /\ LinkOK
      BY <1>1 DEF MonitorOK, UnseenOK, SettingOK, UpOK, InboxOK, LinkOK
<1>3. NothingOK /\ FromPcOK /\ FromPhoneOK
      BY <1>1 DEF NothingOK, FromPcOK, FromPhoneOK, Unheard
<1>4. QED BY <1>2, <1>3 DEF AgreementInv

LEMMA AgreementStep ==
    ASSUME TypeInv, LinkOK, AgreementInv, [Next]_vars
    PROVE  AgreementInv'
<1>1. CASE Poll \/ OnPhoneClipboard
      BY <1>1, PollStep, OnPhoneClipboardStep
<1>2. ASSUME NEW p \in Phones,
             \/ SendToPhone(p) \/ FromPhone(p) \/ SetClipboard(p) \/ BroadcastChange(p)
             \/ MonitorReads(p) \/ MonitorReports(p)
      PROVE  AgreementInv'
      BY <1>2, SendToPhoneStep, PhoneStep
<1>3. ASSUME NEW t \in Texts, CopyOnPc(t) PROVE AgreementInv'
      BY <1>3, CopyOnPcStep
<1>4. ASSUME NEW t \in Texts, NEW p \in Phones, CopyOnPhone(p, t) PROVE AgreementInv'
      BY <1>4, PhoneStep
<1>5. ASSUME NEW p \in Phones, StartSession(p) \/ Listen(p) PROVE AgreementInv'
      BY <1>5, LinkedStep
<1>6. ASSUME NEW p \in Phones, Toggle(p) PROVE AgreementInv'
      <2>1. enabled'[p] # "on"
            BY <1>6 DEF Toggle, TypeInv
      <2>2. ~AllOn'
            BY <2>1 DEF AllOn
      <2>3. UNCHANGED <<pc, lastSeen, lastPhone, phone, last, read, setting, troubles>>
            BY <1>6 DEF Toggle, pcVars, phoneVars
      <2>4. troubles' = {} => MonitorOK' /\ UnseenOK' /\ SettingOK'
            BY <2>3 DEF AgreementInv, MonitorOK, UnseenOK, SettingOK
      <2>5. QED BY <2>2, <2>4 DEF AgreementInv
<1>7. CASE UNCHANGED vars
      <2>1. UNCHANGED <<pc, lastSeen, lastPhone, inbox, unwritten, sub, sentTo, down, up, link,
                        phone, last, read, setting, unheard, troubles, enabled>>
            BY <1>7 DEF vars, pcVars, links, phoneVars
      <2>2. QED BY <2>1 DEF AgreementInv, MonitorOK, UnseenOK, SettingOK, AllOn, UpOK, InboxOK,
                   NothingOK, Unheard, FromPcOK, FromPhoneOK, Arriving, ToCome, ToSend, Up
<1>8. QED BY <1>1, <1>2, <1>3, <1>4, <1>5, <1>6, <1>7 DEF Next, System, Users

THEOREM ClipboardInvariant == Spec => [](TypeInv /\ LinkOK /\ AgreementInv)
<1>1. Init => TypeInv /\ LinkOK /\ AgreementInv
      BY InitTypes, InitAgreement
<1>2. TypeInv /\ LinkOK /\ AgreementInv /\ [Next]_vars => (TypeInv /\ LinkOK /\ AgreementInv)'
      BY TypeStep, LinkStep, AgreementStep
<1>3. QED BY <1>1, <1>2, PTL DEF Spec

LEMMA NothingToCome ==
    ASSUME Quiet, Smooth, NEW p \in Phones
    PROVE  ~ToCome(p, 0)
<1>1. /\ DOMAIN up[p] = {} /\ DOMAIN inbox = {} /\ read[p] = Empty /\ setting[p] = Empty
      /\ phone[p] \in {Empty, last[p]}
      BY DEF Quiet, Smooth
<1>2. QED BY <1>1 DEF ToCome, ToSend

(* What the PC has copied and sent has arrived.                              *)
LEMMA Arrived ==
    ASSUME AgreementInv, Quiet, Smooth, pc \notin {Empty, lastPhone} \cup Long,
           NEW p \in sentTo, p \in Phones
    PROVE  phone[p] = pc
<1>1. pc = lastSeen /\ sub[p] = <<>> /\ down[p] = <<>>
      BY DEF Quiet, Smooth
<1>2. Arriving(p)
      BY <1>1 DEF AgreementInv, FromPcOK, Smooth, AllOn
<1>3. QED BY <1>1, <1>2, NothingToCome DEF Arriving

(* A text that was copied on the PC, and is still there once all is quiet, is on *)
(* every phone it was sent to.                                                *)
THEOREM PcTextReachesAll == Spec => []PcReachesAll
<1>1. TypeInv /\ AgreementInv => PcReachesAll
      BY Arrived DEF PcReachesAll, TypeInv
<1>2. QED BY <1>1, ClipboardInvariant, PTL

(* Whatever was copied on either side at the same time, and in whatever order *)
(* the echoes came back: once all is quiet the PC has a phone's text, if no    *)
(* synchronisation was ever off and nothing has happened that loses texts.    *)
THEOREM ClipboardsAgree == Spec => []Agreement
<1>1. ASSUME TypeInv, AgreementInv, Quiet, Smooth, Shared
      PROVE  \E p \in Phones : pc = phone[p]
      <2>1. \A p \in Phones : ~ToCome(p, 0) /\ Up(p)
            BY <1>1, NothingToCome DEF Smooth
      <2>2. NothingOK /\ FromPhoneOK
            BY <1>1 DEF AgreementInv, Smooth, AllOn
      <2>3. CASE pc = Empty /\ ~unwritten /\ \E p \in Phones : phone[p] \notin {Empty, unheard[p]}
            BY <2>1, <2>2, <2>3 DEF NothingOK, Unheard
      <2>4. CASE pc \notin {Empty, lastPhone} \cup Long /\ sentTo # {}
            <3>1. PICK p \in sentTo : TRUE
                  BY <2>4
            <3>2. p \in Phones
                  BY <1>1, <3>1 DEF TypeInv
            <3>3. phone[p] = pc
                  BY <1>1, <2>4, <3>1, <3>2, Arrived
            <3>4. QED BY <3>2, <3>3
      <2>5. CASE pc # Empty /\ pc = lastPhone
            BY <1>1, <2>1, <2>2, <2>5 DEF FromPhoneOK, Quiet
      <2>6. QED BY <1>1, <2>3, <2>4, <2>5 DEF Shared
<1>2. TypeInv /\ AgreementInv => Agreement
      BY <1>1 DEF Agreement
<1>3. QED BY <1>2, ClipboardInvariant, PTL
=============================================================================
