----------------------------- MODULE ClientProofs -----------------------------
(***************************************************************************)
(* Theorems about ClientSession, for any number of PC sessions, clients and    *)
(* outages: a client that is not closed stays reachable, and the server does   *)
(* not leave a session whose network has never failed.                        *)
(***************************************************************************)
EXTENDS ClientSession, TLAPS

(* The phone has no reason to give the session up. *)
Live(p) == pc[p] \in {"hello", "up"} /\ p \notin Overran

(* The maps lead to every client that is not closed, and only to its own. *)
Reached == \A c \in Ids \ closed : c # accepting => c \in byId /\ byAddr[owner[c]] = c
Owned   == \A p \in Peers : byAddr[p] # 0 => owner[byAddr[p]] = p

(* What the phone knows of a PC session has been sent by it. *)
Begun ==
    /\ \A c \in Ids : pc[owner[c]] # "idle"
    /\ \A m \in net : m.type \in {"HELLO", "HELLO_ACK"} => pc[m.peer] # "idle"
    /\ \A p \in pending : pc[p] = "up"

(* Nobody takes the address of a client while a close() of it is under way: the  *)
(* control thread accepts nobody meanwhile, and to a watchdog's client no HELLO   *)
(* can come any more.                                                        *)
ClosingOK ==
    \A k \in closing :
        /\ byAddr[owner[k.client]] \in {0, k.client}
        /\ k.at = "set" => k.client \in closed
        /\ k.by = "watchdog" =>
              /\ pc[owner[k.client]] \in {"up", "closed"}
              /\ Msg("HELLO", owner[k.client], 0) \notin net

(* A client that acceptSrc is about to put into the maps: its address is free, and *)
(* no close() under way is about to remove what is there.                      *)
AcceptOK ==
    accepting # 0 =>
        /\ accepting \in Ids /\ accepting \notin closed \cup byId \cup dead
        /\ byAddr[owner[accepting]] = 0 /\ ~exited
        /\ \A k \in closing : k.by = "watchdog" /\ owner[k.client] # owner[accepting]

(* The client of a peer that its HELLOs have made. *)
Current(p) == IF byAddr[p] # 0 THEN byAddr[p]
              ELSE IF accepting # 0 /\ owner[accepting] = p THEN accepting ELSE 0

(* Without an outage nobody closes a client whose PC session lives. *)
Untroubled ==
    /\ out = {}
    /\ \A c \in Ids : Live(owner[c]) =>
          c \notin closed /\ misses[c] = 0 /\ \A k \in closing : k.client # c
    /\ \A p \in Peers : pc[p] = "up" /\ Live(p) => Current(p) # 0
    /\ \A m \in net : /\ m.type = "HELLO_ACK" /\ Live(m.peer) => Current(m.peer) # 0
                      /\ m.type = "BYE" => pc[m.peer] = "closed"
ExitOK == exited => \A p \in Peers : byAddr[p] = 0

ClientInv ==
    /\ TypeOK /\ Reached /\ Owned /\ Begun /\ ClosingOK /\ AcceptOK
    /\ (outages = 0 => Untroubled) /\ ExitOK

-----------------------------------------------------------------------------
LEMMA FunctionSeq ==
    ASSUME NEW S, NEW n \in Nat, NEW f \in [1..n -> S]
    PROVE  f \in Seq(S) /\ Len(f) = n
OBVIOUS

LEMMA SeqFunction ==
    ASSUME NEW S, NEW f \in Seq(S), NEW n, Len(f) = n
    PROVE  f \in [1..n -> S]
OBVIOUS

LEMMA MsgTypes ==
    ASSUME NEW p \in Peers
    PROVE  /\ Msg("HELLO", p, 0) \in Message /\ Msg("BYE", p, 0) \in Message
           /\ \A id \in 1..MaxClients :
                 Msg("HELLO_ACK", p, id) \in Message /\ Msg("OPEN", p, id) \in Message
BY DEF Msg, Message

LEMMA OwnerType ==
    ASSUME TypeOK, NEW c \in Ids
    PROVE  owner[c] \in Peers /\ c \in Nat /\ c # 0 /\ c <= Len(owner)
BY DEF TypeOK, Ids

LEMMA AddressType ==
    ASSUME TypeOK, NEW p \in Peers
    PROVE  byAddr[p] # 0 => byAddr[p] \in Ids
BY DEF TypeOK, Ids

(* The phone's maps stay, no close() begins, and nothing but sessions move on. *)
LEMMA PcStepInv ==
    ASSUME ClientInv, PhoneUnchanged, TypeOK', \A p \in pending' : pc'[p] = "up",
           \A p \in Peers : /\ pc[p] # "idle" => pc'[p] # "idle"
                            /\ pc[p] = "closed" => pc'[p] = "closed"
                            /\ pc[p] \in {"up", "closed"} => pc'[p] \in {"up", "closed"}
                            /\ pc'[p] = "hello" => pc[p] \in {"idle", "hello"}
                            /\ pc'[p] = "up" => \/ pc[p] = "up"
                                               \/ /\ pc[p] = "hello"
                                                  /\ outages = 0 /\ Live(p) => Current(p) # 0,
           \A m \in net' : \/ m \in net
                           \/ /\ m \in Message /\ m.type \in {"HELLO", "OPEN", "BYE"}
                              /\ m.type = "HELLO" => pc'[m.peer] = "hello"
                              /\ m.type = "BYE" => pc'[m.peer] = "closed"
    PROVE  ClientInv'
<1>1. /\ UNCHANGED <<owner, byAddr, byId, accepting, endpoint>>
      /\ UNCHANGED <<closed, dead, misses, closing, exited, out, outages>>
      BY DEF PhoneUnchanged, maps, ends
<1>2. Reached' /\ Owned' /\ ExitOK' /\ AcceptOK' /\ UNCHANGED Overran /\ \A p : UNCHANGED Current(p)
      BY <1>1 DEF ClientInv, Reached, Owned, ExitOK, AcceptOK, Overran, Current, Ids
<1>a. \A p \in Peers : Live(p)' => Live(p) \/ pc[p] = "idle"
      BY <1>2 DEF Live
<1>3. net \subseteq Message /\ \A m \in Message : m.peer \in Peers
      BY DEF ClientInv, TypeOK, Message
<1>4. \A c \in Ids : owner[c] \in Peers
      BY OwnerType DEF ClientInv
<1>5. Begun'
      BY <1>1, <1>3, <1>4 DEF ClientInv, Begun, Ids
<1>6. ClosingOK'
  <2>1. SUFFICES ASSUME NEW k \in closing
                 PROVE  /\ byAddr[owner[k.client]] \in {0, k.client}
                        /\ k.at = "set" => k.client \in closed
                        /\ k.by = "watchdog" =>
                              /\ pc'[owner[k.client]] \in {"up", "closed"}
                              /\ Msg("HELLO", owner[k.client], 0) \notin net'
        BY <1>1 DEF ClosingOK, Msg
  <2>2. k.client \in Ids
        BY DEF ClientInv, TypeOK
  <2>3. owner[k.client] \in Peers
        BY <1>4, <2>2
  <2>4. ASSUME k.by = "watchdog"
        PROVE  /\ pc'[owner[k.client]] \in {"up", "closed"}
               /\ Msg("HELLO", owner[k.client], 0) \notin net'
    <3>1. pc[owner[k.client]] \in {"up", "closed"} /\ Msg("HELLO", owner[k.client], 0) \notin net
          BY <2>4 DEF ClientInv, ClosingOK
    <3>2. pc'[owner[k.client]] \in {"up", "closed"}
          BY <2>3, <3>1
    <3>3. QED BY <3>1, <3>2 DEF Msg
  <2>5. QED BY <2>4 DEF ClientInv, ClosingOK
<1>7. ASSUME outages = 0
      PROVE  Untroubled'
  <2>1. Untroubled
        BY <1>7 DEF ClientInv
  <2>2. \A c \in Ids : Live(owner[c])' => Live(owner[c])
        BY <1>1, <1>4, <1>a DEF ClientInv, Begun
  <2>3. \A c \in Ids : Live(owner[c])' =>
            c \notin closed /\ misses[c] = 0 /\ \A k \in closing : k.client # c
        BY <2>1, <2>2 DEF Untroubled
  <2>4. \A p \in Peers : pc'[p] = "up" /\ Live(p)' => Current(p) # 0
        BY <1>2, <1>7, <1>a, <2>1 DEF Untroubled, Live
  <2>5. \A m \in net' : /\ m.type = "HELLO_ACK" /\ Live(m.peer)' => Current(m.peer) # 0
                        /\ m.type = "BYE" => pc'[m.peer] = "closed"
        BY <1>1, <1>2, <1>3, <1>a, <2>1 DEF Untroubled, ClientInv, Begun
  <2>6. QED BY <1>1, <1>2, <2>1, <2>3, <2>4, <2>5 DEF Untroubled, Ids
<1>8. QED BY <1>1, <1>2, <1>5, <1>6, <1>7 DEF ClientInv

-----------------------------------------------------------------------------
(* The PC.                                                                  *)

(* One session moves on, and one message is sent or taken. *)
LEMMA PcType ==
    ASSUME TypeOK, PhoneUnchanged,
           pc' \in [Peers -> {"idle", "hello", "up", "closed"}], cid' \in [Peers -> 0..MaxClients],
           flowing' \subseteq Peers, pending' \subseteq Peers, net' \subseteq Message,
           heardBy' \in [Peers -> 0..MaxClients]
    PROVE  TypeOK'
BY DEF TypeOK, PhoneUnchanged, maps, ends, Ids

LEMMA SendHelloInv ==
    ASSUME ClientInv, NEW p \in Peers, SendHello(p)
    PROVE  ClientInv'
<1>1. TypeOK
      BY DEF ClientInv
<1>2. /\ pc' = [pc EXCEPT ![p] = "hello"] /\ pc[p] \in {"idle", "hello"} /\ PhoneUnchanged
      /\ net' = net \cup {Msg("HELLO", p, 0)} /\ UNCHANGED <<cid, flowing, pending, heardBy>>
      BY DEF SendHello
<1>3. \A q \in Peers : pc'[q] = IF q = p THEN "hello" ELSE pc[q]
      BY <1>1, <1>2 DEF TypeOK
<1>4. pc' \in [Peers -> {"idle", "hello", "up", "closed"}]
      BY <1>1, <1>2 DEF TypeOK
<1>5. net' \subseteq Message
      BY <1>1, <1>2, MsgTypes DEF TypeOK
<1>6. TypeOK'
      BY <1>1, <1>2, <1>4, <1>5, PcType DEF TypeOK
<1>7. \A m \in net' : m \in net \/ (m \in Message /\ m.type = "HELLO" /\ pc'[m.peer] = "hello")
      BY <1>2, <1>3, <1>5 DEF Msg
<1>8. \A q \in pending' : pc'[q] = "up"
      BY <1>1, <1>2, <1>3 DEF ClientInv, Begun, TypeOK
<1>9. QED BY <1>2, <1>3, <1>6, <1>7, <1>8, PcStepInv

LEMMA RecvHelloAckInv ==
    ASSUME ClientInv, NEW m \in net, RecvHelloAck(m)
    PROVE  ClientInv'
<1>1. TypeOK
      BY DEF ClientInv
<1>2. m \in Message /\ m.peer \in Peers /\ m.id \in 0..MaxClients
  <2>1. m \in Message
        BY <1>1 DEF TypeOK
  <2>2. QED BY <2>1, BoundsAssumption DEF Message
<1>3. /\ m.type = "HELLO_ACK" /\ net' = net \ {m} /\ PhoneUnchanged /\ UNCHANGED <<flowing, pending, heardBy>>
      /\ \/ /\ pc[m.peer] \in {"hello", "up"}
            /\ cid' = [cid EXCEPT ![m.peer] = m.id] /\ pc' = [pc EXCEPT ![m.peer] = "up"]
         \/ UNCHANGED <<cid, pc>>
      BY DEF RecvHelloAck
<1>4. TypeOK'
      BY <1>1, <1>2, <1>3, PcType DEF TypeOK
<1>5. \A q \in Peers : pc'[q] = pc[q] \/ (q = m.peer /\ pc[q] \in {"hello", "up"} /\ pc'[q] = "up")
      BY <1>1, <1>3 DEF TypeOK
<1>6. Live(m.peer) /\ outages = 0 => Current(m.peer) # 0
      BY <1>3 DEF ClientInv, Untroubled
<1>7. \A q \in pending' : pc'[q] = "up"
      BY <1>1, <1>3, <1>5 DEF ClientInv, Begun, TypeOK
<1>8. QED BY <1>3, <1>4, <1>5, <1>6, <1>7, PcStepInv

LEMMA SendOpenInv ==
    ASSUME ClientInv, NEW p \in Peers, SendOpen(p)
    PROVE  ClientInv'
<1>1. TypeOK
      BY DEF ClientInv
<1>2. /\ net' = net \cup {Msg("OPEN", p, cid[p])} /\ cid[p] # 0 /\ PhoneUnchanged
      /\ UNCHANGED <<pc, cid, flowing, pending, heardBy>>
      BY DEF SendOpen, session
<1>3. cid[p] \in 1..MaxClients
      BY <1>1, <1>2, BoundsAssumption DEF TypeOK
<1>4. net' \subseteq Message
      BY <1>1, <1>2, <1>3, MsgTypes DEF TypeOK
<1>5. TypeOK'
      BY <1>1, <1>2, <1>4, PcType DEF TypeOK
<1>6. \A m \in net' : m \in net \/ (m \in Message /\ m.type = "OPEN")
      BY <1>2, <1>4 DEF Msg
<1>7. \A q \in pending' : pc'[q] = "up"
      BY <1>2 DEF ClientInv, Begun
<1>8. QED BY <1>2, <1>5, <1>6, <1>7, PcStepInv

LEMMA QuietStepInv ==
    ASSUME ClientInv, NEW p \in Peers, RecvMedia(p) \/ SendCtrl(p) \/ CtrlAcked(p)
    PROVE  ClientInv'
<1>1. TypeOK
      BY DEF ClientInv
<1>2. /\ PhoneUnchanged /\ UNCHANGED <<pc, cid, net>>
      /\ flowing' \subseteq flowing \cup {p} /\ pending' \subseteq pending \cup {p}
      /\ heardBy' = heardBy \/ heardBy' = [heardBy EXCEPT ![p] = byAddr[p]]
      BY DEF RecvMedia, SendCtrl, CtrlAcked, At
<1> DEFINE c == byAddr[p]
<1>a. c \in 0..MaxClients
      BY <1>1, BoundsAssumption DEF TypeOK
<1> HIDE DEF c
<1>b. heardBy' \in [Peers -> 0..MaxClients]
      BY <1>1, <1>2, <1>a DEF TypeOK, c
<1>3. TypeOK'
      BY <1>1, <1>2, <1>b, PcType DEF TypeOK
<1>4. \A q \in pending' : pc'[q] = "up"
      BY DEF ClientInv, Begun, RecvMedia, SendCtrl, CtrlAcked
<1>5. QED BY <1>2, <1>3, <1>4, PcStepInv

LEMMA ClosesInv ==
    ASSUME ClientInv, NEW p \in Peers, Closes(p), pc[p] # "idle"
    PROVE  ClientInv'
<1>1. TypeOK
      BY DEF ClientInv
<1>2. /\ pc' = [pc EXCEPT ![p] = "closed"] /\ PhoneUnchanged
      /\ pending' = pending \ {p} /\ net' = net \cup {Msg("BYE", p, 0)} /\ UNCHANGED <<cid, flowing>>
      /\ heardBy' = [heardBy EXCEPT ![p] = 0]
      BY DEF Closes
<1>3. \A q \in Peers : pc'[q] = IF q = p THEN "closed" ELSE pc[q]
      BY <1>1, <1>2 DEF TypeOK
<1>4. pc' \in [Peers -> {"idle", "hello", "up", "closed"}]
      BY <1>1, <1>2 DEF TypeOK
<1>5. net' \subseteq Message
      BY <1>1, <1>2, MsgTypes DEF TypeOK
<1>a. heardBy' \in [Peers -> 0..MaxClients]
      BY <1>1, <1>2, BoundsAssumption DEF TypeOK
<1>6. TypeOK'
      BY <1>1, <1>2, <1>4, <1>5, <1>a, PcType DEF TypeOK
<1>7. \A m \in net' : m \in net \/ (m \in Message /\ m.type = "BYE" /\ pc'[m.peer] = "closed")
      BY <1>2, <1>3, <1>5 DEF Msg
<1>8. QED
  <2>1. ASSUME NEW q \in Peers
        PROVE  /\ pc[q] # "idle" => pc'[q] # "idle"
               /\ pc[q] = "closed" => pc'[q] = "closed"
               /\ pc[q] \in {"up", "closed"} => pc'[q] \in {"up", "closed"}
               /\ pc'[q] # "hello" \/ pc[q] = "hello"
               /\ pc'[q] = "up" => pc[q] = "up"
        BY <1>3
  <2>2. \A q \in pending' : pc'[q] = "up"
        BY <1>1, <1>2, <1>3 DEF ClientInv, Begun, TypeOK
  <2>3. QED BY <1>2, <1>6, <1>7, <2>1, <2>2, PcStepInv

LEMMA PcInv ==
    ASSUME ClientInv, NEW p \in Peers, PcStep(p)
    PROVE  ClientInv'
<1>1. CASE SendHello(p) \/ SendOpen(p)
      BY <1>1, SendHelloInv, SendOpenInv
<1>2. CASE RecvMedia(p) \/ SendCtrl(p) \/ CtrlAcked(p)
      BY <1>2, QuietStepInv
<1>3. CASE HandshakeTimeout(p) \/ Stop(p)
      BY <1>3, ClosesInv DEF HandshakeTimeout, Stop
<1>4. CASE Stalled(p)
      BY <1>4, ClosesInv DEF Stalled, ClientInv, Begun
<1>5. QED BY <1>1, <1>2, <1>3, <1>4 DEF PcStep

-----------------------------------------------------------------------------
(* The phone: close() begins, for clients whose session is not alive.         *)

MayClose(k) ==
    /\ k.client \in Ids /\ k.at # "set" /\ byAddr[owner[k.client]] \in {0, k.client}
    /\ outages = 0 => ~Live(owner[k.client])'
    /\ k.by = "watchdog" => /\ pc[owner[k.client]] \in {"up", "closed"}
                            /\ Msg("HELLO", owner[k.client], 0) \notin net
    /\ accepting # 0 => k.by = "watchdog" /\ owner[k.client] # owner[accepting]

LEMMA CloseBeginsInv ==
    ASSUME ClientInv, UNCHANGED <<session, out, outages, maps, closed>>, net' \subseteq net, TypeOK',
           dead' = dead \/ (accepting = 0 /\ dead \subseteq dead'),
           \A k \in closing' : k \in closing \/ MayClose(k),
           \A c \in Ids : outages = 0 /\ Live(owner[c]) => misses'[c] \in {0, misses[c]},
           exited' => exited \/ (accepting = 0 /\ \A p \in Peers : byAddr[p] = 0)
    PROVE  ClientInv'
<1>1. UNCHANGED <<pc, cid, flowing, pending, heardBy, owner, byAddr, byId, accepting, endpoint>>
      BY DEF session, maps
<1>2. Reached' /\ Owned' /\ Begun' /\ ExitOK'
      BY <1>1 DEF ClientInv, Reached, Owned, Begun, ExitOK, Ids
<1>3. ClosingOK'
      BY <1>1 DEF ClientInv, ClosingOK, MayClose, Msg
<1>a. \A p \in Peers : /\ Live(p)' => Live(p)
                       /\ Current(p)' = Current(p)
      BY <1>1 DEF Live, Overran, Current
<1>b. AcceptOK'
      BY <1>1 DEF ClientInv, AcceptOK, MayClose, Ids
<1>4. ASSUME outages = 0
      PROVE  Untroubled'
  <2>1. Untroubled
        BY <1>4 DEF ClientInv
  <2>2. ASSUME NEW c \in Ids, Live(owner[c])'
        PROVE  c \notin closed /\ misses'[c] = 0 /\ \A k \in closing' : k.client # c
    <3>0. Live(owner[c]) /\ UNCHANGED owner
          BY <1>1, <1>a, <2>2, OwnerType DEF ClientInv
    <3>1. c \notin closed /\ misses[c] = 0 /\ \A k \in closing : k.client # c
          BY <2>1, <3>0 DEF Untroubled
    <3>2. misses'[c] = 0
          BY <1>4, <3>0, <3>1
    <3>3. \A k \in closing' : k.client # c
          BY <1>4, <2>2, <3>0, <3>1 DEF MayClose
    <3>4. QED BY <3>1, <3>2, <3>3
  <2>3. \A p \in Peers : pc[p] = "up" /\ Live(p)' => Current(p)' # 0
        BY <1>a, <2>1 DEF Untroubled
  <2>4. \A m \in net' : /\ m.type = "HELLO_ACK" /\ Live(m.peer)' => Current(m.peer)' # 0
                        /\ m.type = "BYE" => pc[m.peer] = "closed"
    <3>1. \A m \in net' : m.peer \in Peers
          BY DEF ClientInv, TypeOK, Message
    <3>2. QED BY <1>a, <2>1, <3>1 DEF Untroubled
  <2>5. QED BY <1>1, <2>1, <2>2, <2>3, <2>4 DEF Untroubled, Ids
<1>5. QED BY <1>2, <1>3, <1>b, <1>4 DEF ClientInv

(* What stays of the types when only the control thread's own state moves. *)
LEMMA PhoneType ==
    ASSUME TypeOK, UNCHANGED <<session, out, outages, maps, closed>>, net' \subseteq net, dead' \subseteq Ids,
           misses' \in [Ids -> 0..(MaxMiss + 1)], exited' \in BOOLEAN,
           closing' \subseteq [client : Ids, by : {"ctrl", "watchdog"}, at : {"called", "open", "set"}]
    PROVE  TypeOK'
BY DEF TypeOK, session, maps, Ids

LEMMA AtOwner ==
    ASSUME ClientInv, NEW p \in Peers, byAddr[p] # 0
    PROVE  byAddr[p] \in Ids /\ owner[byAddr[p]] = p
BY AddressType DEF ClientInv, Owned

LEMMA RecvByeInv ==
    ASSUME ClientInv, NEW m \in net, RecvBye(m)
    PROVE  ClientInv'
<1>1. TypeOK
      BY DEF ClientInv
<1>2. m \in Message
      BY <1>1 DEF TypeOK
<1>3. m.peer \in Peers
      BY <1>2 DEF Message
<1>4. /\ m.type = "BYE" /\ net' = net \ {m} /\ UNCHANGED <<session, out, outages, maps, closed, dead, misses, exited>>
      /\ accepting = 0
      /\ \/ closing' = closing
         \/ byAddr[m.peer] # 0 /\ closing' = closing \cup {Call(byAddr[m.peer], "ctrl")}
      BY DEF RecvBye, PcUnchanged, At, CtrlFree
<1>5. CASE closing' = closing
  <2>1. TypeOK'
        BY <1>1, <1>4, <1>5, PhoneType DEF TypeOK
  <2>2. QED BY <1>4, <1>5, <2>1, CloseBeginsInv
<1>6. CASE byAddr[m.peer] # 0 /\ closing' = closing \cup {Call(byAddr[m.peer], "ctrl")}
  <2> DEFINE k == Call(byAddr[m.peer], "ctrl")
  <2>1. byAddr[m.peer] \in Ids /\ owner[byAddr[m.peer]] = m.peer
        BY <1>3, <1>6, AtOwner
  <2>2. outages = 0 => pc[m.peer] = "closed"
        BY <1>4 DEF ClientInv, Untroubled
  <2>3. k.client = byAddr[m.peer] /\ k.by = "ctrl" /\ k.at = "called"
        BY DEF Call
  <2>4. MayClose(k)
        BY <1>4, <2>1, <2>2, <2>3 DEF MayClose, Live, session, maps
  <2>5. k \in [client : Ids, by : {"ctrl", "watchdog"}, at : {"called", "open", "set"}]
        BY <2>1 DEF Call
  <2> HIDE DEF k
  <2>6. TypeOK'
        BY <1>1, <1>4, <1>6, <2>5, PhoneType DEF TypeOK, k
  <2>7. \A j \in closing' : j \in closing \/ MayClose(j)
        BY <1>6, <2>4 DEF k
  <2>8. QED BY <1>4, <2>6, <2>7, CloseBeginsInv
<1>7. QED BY <1>4, <1>5, <1>6

LEMMA ClientsType ==
    ASSUME ClientInv, NEW c \in Clients
    PROVE  c \in Ids /\ byAddr[owner[c]] = c
<1>1. PICK p \in Peers : c = byAddr[p] /\ c # 0
      BY DEF Clients, At
<1>2. QED BY <1>1, AtOwner

LEMMA MissedType ==
    ASSUME TypeOK, NEW c \in Ids
    PROVE  Missed(c) \in 0..(MaxMiss + 1)
<1>1. misses[c] \in 0..(MaxMiss + 1)
      BY DEF TypeOK
<1>2. QED BY <1>1, MissAssumption DEF Missed

LEMMA TickInv ==
    ASSUME ClientInv, NEW b \in BOOLEAN, Tick(b)
    PROVE  ClientInv'
<1>1. TypeOK
      BY DEF ClientInv
<1> DEFINE calls == {Call(c, "ctrl") : c \in {d \in Clients : Missed(d) > MaxMiss}}
<1>2. /\ misses' = [c \in Ids |-> Missed(c)] /\ closing' = closing \cup calls
      /\ UNCHANGED <<session, out, outages, maps, closed, dead, net>> /\ accepting = 0
      /\ exited' = (Clients = {} /\ (owner # <<>> \/ b))
      BY DEF Tick, PcUnchanged, CtrlFree
<1>3. misses' \in [Ids -> 0..(MaxMiss + 1)]
      BY <1>1, <1>2, MissedType
<1>4. \A c \in Ids : outages = 0 /\ Live(owner[c]) => Missed(c) \in {0, misses[c]}
      BY DEF ClientInv, Untroubled, Missed, Alive, Live
<1>5. ASSUME NEW k \in calls
      PROVE  MayClose(k) /\ k \in [client : Ids, by : {"ctrl", "watchdog"}, at : {"called", "open", "set"}]
  <2>1. PICK c \in Clients : k = Call(c, "ctrl") /\ Missed(c) > MaxMiss
        BY <1>5
  <2>2. c \in Ids /\ byAddr[owner[c]] = c
        BY ClientsType
  <2>3. outages = 0 => ~Live(owner[c])
    <3>1. SUFFICES ASSUME outages = 0, Live(owner[c])
                   PROVE  FALSE
          OBVIOUS
    <3>2. Missed(c) = 0
          BY <2>2, <3>1, <1>4 DEF ClientInv, Untroubled
    <3>3. QED BY <2>1, <3>2, MissAssumption
  <2>4. ~Live(owner[c]) => ~Live(owner[c])'
        BY <1>2 DEF Live, Overran, session, maps
  <2>5. QED BY <1>2, <2>1, <2>2, <2>3, <2>4 DEF MayClose, Call
<1>6. closing' \subseteq [client : Ids, by : {"ctrl", "watchdog"}, at : {"called", "open", "set"}]
      BY <1>1, <1>2, <1>5 DEF TypeOK
<1> HIDE DEF calls
<1>7. exited' \in BOOLEAN /\ (exited' => \A p \in Peers : byAddr[p] = 0)
      BY <1>2 DEF Clients, At
<1>8. TypeOK'
      BY <1>1, <1>2, <1>3, <1>6, <1>7, PhoneType DEF TypeOK
<1>9. QED BY <1>2, <1>4, <1>5, <1>7, <1>8, CloseBeginsInv

LEMMA OverrunInv ==
    ASSUME ClientInv, NEW p \in Peers, Overrun(p)
    PROVE  ClientInv'
<1> DEFINE k == Call(byAddr[p], "ctrl")
<1>1. TypeOK
      BY DEF ClientInv
<1>2. /\ dead' = dead \cup {byAddr[p]} /\ closing' = closing \cup {k} /\ byAddr[p] # 0
      /\ UNCHANGED <<session, out, outages, maps, closed, misses, exited, net>> /\ accepting = 0
      BY DEF Overrun, At, PcUnchanged, CtrlFree
<1>3. byAddr[p] \in Ids /\ owner[byAddr[p]] = p
      BY <1>2, AtOwner
<1>4. k.client = byAddr[p] /\ k.by = "ctrl" /\ k.at = "called"
      BY DEF Call
<1>5. p \in Overran'
      BY <1>2, <1>3 DEF Overran, maps
<1>6. MayClose(k)
      BY <1>2, <1>3, <1>4, <1>5 DEF MayClose, Live, maps
<1>7. k \in [client : Ids, by : {"ctrl", "watchdog"}, at : {"called", "open", "set"}]
      BY <1>3 DEF Call
<1> HIDE DEF k
<1>8. TypeOK'
      BY <1>1, <1>2, <1>3, <1>7, PhoneType DEF TypeOK
<1>9. \A j \in closing' : j \in closing \/ MayClose(j)
      BY <1>2, <1>6
<1>10. QED BY <1>2, <1>8, <1>9, CloseBeginsInv

(* Whom nothing has been heard of, nobody will hear a HELLO of again. *)
LEMMA SilentEnds ==
    ASSUME ClientInv, NEW c \in Ids, Silent(c)
    PROVE  /\ pc[owner[c]] \in {"up", "closed"} /\ Msg("HELLO", owner[c], 0) \notin net
           /\ outages = 0 => ~Live(owner[c])
<1>1. owner[c] \in Peers /\ pc[owner[c]] # "idle"
      BY OwnerType DEF ClientInv, Begun
<1>2. pc[owner[c]] \in {"idle", "hello", "up", "closed"}
      BY <1>1 DEF ClientInv, TypeOK
<1>3. QED BY <1>1, <1>2 DEF Silent, Alive, Live, ClientInv, Untroubled

LEMMA SilentInv ==
    ASSUME ClientInv, NEW c \in Ids, SweepIdle(c) \/ Watchdog(c)
    PROVE  ClientInv'
<1>1. TypeOK
      BY DEF ClientInv
<1>2. PICK thread \in {"ctrl", "watchdog"} : closing' = closing \cup {Call(c, thread)}
      BY DEF SweepIdle, Watchdog
<1>3. UNCHANGED <<session, out, outages, maps, closed, dead, misses, exited, net>> /\ Silent(c)
      BY DEF SweepIdle, Watchdog, PcUnchanged
<1>4. byAddr[owner[c]] = c
  <2>1. CASE SweepIdle(c)
        BY <2>1, ClientsType DEF SweepIdle
  <2>2. CASE Watchdog(c)
        BY <2>2 DEF Watchdog, ClientInv, Reached
  <2>3. QED BY <2>1, <2>2
<1>a. accepting # 0 => thread = "watchdog" /\ owner[c] # owner[accepting]
  <2>1. accepting # 0 => Watchdog(c) /\ thread = "watchdog"
    <3>1. SweepIdle(c) => accepting = 0
          BY DEF SweepIdle, CtrlFree
    <3>2. ASSUME Watchdog(c), accepting # 0
          PROVE  thread = "watchdog"
      <4>1. Call(c, "watchdog") \in closing \cup {Call(c, thread)}
            BY <1>2, <3>2 DEF Watchdog
      <4>2. \A k \in closing : k.client # c
            BY <1>4, <3>2, OwnerType DEF ClientInv, AcceptOK, Watchdog
      <4>3. QED BY <4>1, <4>2 DEF Call
    <3>3. QED BY <3>1, <3>2
  <2>2. QED BY <1>4, <2>1, OwnerType DEF ClientInv, AcceptOK, Watchdog
<1>b. ~Live(owner[c]) => ~Live(owner[c])'
      BY <1>3 DEF Live, Overran, session, maps
<1>5. MayClose(Call(c, thread))
      BY <1>3, <1>4, <1>a, <1>b, SilentEnds DEF MayClose, Call
<1>6. Call(c, thread) \in [client : Ids, by : {"ctrl", "watchdog"}, at : {"called", "open", "set"}]
      BY DEF Call
<1>7. TypeOK'
      BY <1>1, <1>2, <1>3, <1>6, PhoneType DEF TypeOK
<1>8. \A k \in closing' : k \in closing \/ MayClose(k)
      BY <1>2, <1>5
<1>9. QED BY <1>3, <1>7, <1>8, CloseBeginsInv

LEMMA TestClosedInv ==
    ASSUME ClientInv, NEW k \in closing, TestClosed(k)
    PROVE  ClientInv'
<1>1. TypeOK
      BY DEF ClientInv
<1>2. k \in [client : Ids, by : {"ctrl", "watchdog"}, at : {"called", "open", "set"}]
      BY <1>1 DEF TypeOK
<1> DEFINE j == [k EXCEPT !.at = "open"]
<1>3. UNCHANGED <<session, out, outages, maps, closed, dead, misses, exited, net>> /\ closing' \subseteq closing \cup {j}
      BY DEF TestClosed, PcUnchanged
<1>4. /\ j \in [client : Ids, by : {"ctrl", "watchdog"}, at : {"called", "open", "set"}]
      /\ j.client = k.client /\ j.by = k.by /\ j.at = "open"
      BY <1>2
<1> HIDE DEF j
<1>5. outages = 0 => ~Live(owner[k.client])'
  <2>1. outages = 0 => ~Live(owner[k.client])
        BY <1>2 DEF ClientInv, Untroubled
  <2>2. QED BY <1>3, <2>1 DEF Live, Overran, session, maps
<1>6. MayClose(j)
      BY <1>2, <1>4, <1>5 DEF MayClose, ClientInv, ClosingOK, AcceptOK
<1>7. TypeOK'
      BY <1>1, <1>3, <1>4, PhoneType DEF TypeOK
<1>8. QED BY <1>3, <1>6, <1>7, CloseBeginsInv

-----------------------------------------------------------------------------
(* The phone: close() goes on.                                               *)

LEMMA SetClosedInv ==
    ASSUME ClientInv, NEW k \in closing, SetClosed(k)
    PROVE  ClientInv'
<1>1. TypeOK
      BY DEF ClientInv
<1>2. k \in [client : Ids, by : {"ctrl", "watchdog"}, at : {"called", "open", "set"}]
      BY <1>1 DEF TypeOK
<1> DEFINE j == [k EXCEPT !.at = "set"]
<1>3. /\ UNCHANGED <<pc, cid, flowing, pending, heardBy, net, out, outages, dead, misses, exited>>
      /\ UNCHANGED <<owner, byAddr, byId, accepting, endpoint>>
      /\ closed' = closed \cup {k.client} /\ closing' = (closing \ {k}) \cup {j}
      BY DEF SetClosed, PcUnchanged, session, maps
<1>4. /\ j \in [client : Ids, by : {"ctrl", "watchdog"}, at : {"called", "open", "set"}]
      /\ j.client = k.client /\ j.by = k.by
      BY <1>2
<1> HIDE DEF j
<1>5. TypeOK'
      BY <1>1, <1>2, <1>3, <1>4 DEF TypeOK, Ids
<1>6. /\ Reached' /\ Owned' /\ Begun' /\ ExitOK' /\ UNCHANGED Overran
      /\ \A p : UNCHANGED <<Current(p), Live(p)>>
      BY <1>3 DEF ClientInv, Reached, Owned, Begun, ExitOK, Ids, Overran, Current, Live
<1>7. ClosingOK'
      BY <1>3, <1>4 DEF ClientInv, ClosingOK, Msg
<1>a. AcceptOK'
      BY <1>3, <1>4 DEF ClientInv, AcceptOK, Ids
<1>8. ASSUME outages = 0
      PROVE  Untroubled'
  <2>1. Untroubled
        BY <1>8 DEF ClientInv
  <2>2. ~Live(owner[k.client])
        BY <1>2, <2>1 DEF Untroubled
  <2>3. ASSUME NEW c \in Ids, Live(owner[c])
        PROVE  c \notin closed' /\ misses[c] = 0 /\ \A i \in closing' : i.client # c
        BY <1>3, <1>4, <2>1, <2>2, <2>3 DEF Untroubled
  <2>4. QED BY <1>3, <1>6, <2>1, <2>3 DEF Untroubled, Ids
<1>9. QED BY <1>3, <1>5, <1>6, <1>7, <1>8, <1>a DEF ClientInv

LEMMA RemoveClientInv ==
    ASSUME ClientInv, NEW k \in closing, RemoveClient(k)
    PROVE  ClientInv'
<1>1. TypeOK
      BY DEF ClientInv
<1>2. k.client \in Ids
      BY <1>1 DEF TypeOK
<1> DEFINE p == owner[k.client]
<1>3. p \in Peers
      BY <1>1, <1>2, OwnerType
<1>4. /\ UNCHANGED <<pc, cid, flowing, pending, heardBy, net, out, outages, owner, accepting>>
      /\ UNCHANGED <<closed, dead, endpoint, misses, exited>>
      /\ byAddr' = [byAddr EXCEPT ![p] = 0] /\ byId' = byId \ {k.client} /\ closing' = closing \ {k}
      BY DEF RemoveClient, PcUnchanged, session
<1>5. k.client \in closed /\ byAddr[p] \in {0, k.client}
      BY DEF RemoveClient, ClientInv, ClosingOK
<1> HIDE DEF p
<1>6. \A q \in Peers : byAddr'[q] = IF q = p THEN 0 ELSE byAddr[q]
      BY <1>1, <1>4 DEF TypeOK
<1>7. byAddr' \in [Peers -> 0..Len(owner)]
  <2>1. Len(owner) \in Nat
        BY <1>1 DEF TypeOK
  <2>2. 0 \in 0..Len(owner) /\ byAddr \in [Peers -> 0..Len(owner)]
        BY <1>1, <2>1 DEF TypeOK
  <2>3. QED BY <1>4, <2>2
<1>8. TypeOK'
      BY <1>1, <1>4, <1>7 DEF TypeOK, Ids
<1>9. Reached'
  <2>1. SUFFICES ASSUME NEW c \in Ids, c \notin closed, c # accepting
                 PROVE  c \in byId' /\ byAddr'[owner[c]] = c
        BY <1>4 DEF Reached, Ids
  <2>2. c \in byId /\ byAddr[owner[c]] = c /\ owner[c] \in Peers /\ c # 0
        BY <1>1, <2>1, OwnerType DEF ClientInv, Reached
  <2>3. c # k.client /\ owner[c] # p
        BY <1>5, <2>1, <2>2
  <2>4. QED BY <1>4, <1>6, <2>2, <2>3
<1>10. Owned' /\ Begun' /\ ExitOK'
      BY <1>4, <1>6 DEF ClientInv, Owned, Begun, ExitOK, Ids
<1>11. ClosingOK'
  <2>1. \A i \in closing : owner[i.client] \in Peers
        BY <1>1, OwnerType DEF TypeOK
  <2>2. QED BY <1>4, <1>6, <2>1 DEF ClientInv, ClosingOK, Msg
<1>12. ASSUME outages = 0
      PROVE  Untroubled'
  <2>1. Untroubled
        BY <1>12 DEF ClientInv
  <2>2. ~Live(p)
        BY <1>2, <2>1 DEF Untroubled, p
  <2>3. \A m \in net : m.peer \in Peers
        BY <1>1 DEF TypeOK, Message
  <2>4. \A q \in Peers : Live(q)' => Live(q) /\ Current(q)' = Current(q)
        BY <1>4, <1>6, <2>2 DEF Live, Overran, Current
  <2>5. \A c \in Ids : owner[c] \in Peers
        BY <1>1, OwnerType
  <2>6. \A c \in Ids : Live(owner[c])' =>
            c \notin closed /\ misses[c] = 0 /\ \A i \in closing' : i.client # c
        BY <1>4, <2>1, <2>4, <2>5 DEF Untroubled
  <2>7. \A q \in Peers : pc[q] = "up" /\ Live(q)' => Current(q)' # 0
        BY <2>1, <2>4 DEF Untroubled
  <2>8. \A m \in net : m.type = "HELLO_ACK" /\ Live(m.peer)' => Current(m.peer)' # 0
        BY <2>1, <2>3, <2>4 DEF Untroubled
  <2>9. QED BY <1>4, <2>1, <2>6, <2>7, <2>8 DEF Untroubled, Ids
<1>14. AcceptOK'
  <2>1. ASSUME accepting # 0
        PROVE  owner[accepting] \in Peers
        BY <1>1, <2>1, OwnerType DEF ClientInv, AcceptOK
  <2>2. QED BY <1>4, <1>6, <2>1 DEF ClientInv, AcceptOK, Ids
<1>13. QED BY <1>4, <1>8, <1>9, <1>10, <1>11, <1>12, <1>14 DEF ClientInv

LEMMA RecvOpenInv ==
    ASSUME ClientInv, NEW m \in net, RecvOpen(m)
    PROVE  ClientInv'
<1>1. /\ UNCHANGED <<pc, cid, flowing, pending, heardBy, out, outages, owner, byAddr, byId, accepting>>
      /\ UNCHANGED <<closed, dead, misses, closing, exited>>
      /\ net' = net \ {m} /\ endpoint' = endpoint \cup ({m.id} \cap byId)
      BY DEF RecvOpen, PcUnchanged, session, ends
<1>2. TypeOK'
      BY <1>1 DEF ClientInv, TypeOK, Ids
<1>3. /\ Reached' /\ Owned' /\ Begun' /\ ExitOK' /\ ClosingOK' /\ AcceptOK'
      /\ \A p : UNCHANGED <<Current(p), Live(p)>>
      BY <1>1 DEF ClientInv, Reached, Owned, Begun, ExitOK, ClosingOK, AcceptOK, Ids, Msg,
                  Current, Live, Overran
<1>4. ASSUME outages = 0
      PROVE  Untroubled'
      BY <1>1, <1>3, <1>4 DEF ClientInv, Untroubled, Ids
<1>5. QED BY <1>1, <1>2, <1>3, <1>4 DEF ClientInv

LEMMA PathInv ==
    ASSUME ClientInv, NEW p \in Peers, NEW m, Lose(m) \/ Outage(p) \/ PathBack(p)
    PROVE  ClientInv'
<1>1. /\ UNCHANGED <<pc, cid, flowing, pending, heardBy, owner, byAddr, byId, accepting, endpoint>>
      /\ UNCHANGED <<closed, dead, misses, closing, exited>>
      /\ net' \subseteq net
      BY DEF Lose, Outage, PathBack, session, maps, ends
<1>2. out' \subseteq Peers /\ outages' \in 0..MaxOutages
      BY BoundsAssumption DEF Lose, Outage, PathBack, ClientInv, TypeOK
<1>3. TypeOK'
      BY <1>1, <1>2 DEF ClientInv, TypeOK, Ids
<1>4. /\ Reached' /\ Owned' /\ Begun' /\ ExitOK' /\ ClosingOK' /\ AcceptOK'
      /\ \A q : UNCHANGED <<Current(q), Live(q)>>
      BY <1>1 DEF ClientInv, Reached, Owned, Begun, ExitOK, ClosingOK, AcceptOK, Ids, Msg,
                  Current, Live, Overran
<1>5. ASSUME outages' = 0
      PROVE  outages = 0 /\ out' = {}
  <2>1. outages \in Nat
        BY BoundsAssumption DEF ClientInv, TypeOK
  <2>2. QED BY <1>5, <2>1 DEF Lose, Outage, PathBack, ClientInv, Untroubled
<1>6. ASSUME outages' = 0
      PROVE  Untroubled'
      BY <1>1, <1>4, <1>5, <1>6 DEF ClientInv, Untroubled, Ids
<1>7. QED BY <1>3, <1>4, <1>6 DEF ClientInv

-----------------------------------------------------------------------------
(* The phone: a HELLO.                                                       *)

LEMMA AcceptType ==
    ASSUME TypeOK, NEW m \in net, m.peer \in Peers, Accept(m),
           UNCHANGED <<session, out, outages, byAddr, byId, endpoint, closed, dead, closing, exited>>
    PROVE  TypeOK'
<1> DEFINE c == Len(owner) + 1
<1>1. /\ owner \in Seq(Peers) /\ Len(owner) \in Nat /\ c \in 1..MaxClients
      /\ owner' = Append(owner, m.peer) /\ misses' = Append(misses, 0) /\ accepting' = c
      /\ net' = (net \ {m}) \cup {Msg("HELLO_ACK", m.peer, c)}
      BY BoundsAssumption DEF Accept, TypeOK
<1> HIDE DEF c
<1>2. owner' \in Seq(Peers) /\ Len(owner') = Len(owner) + 1 /\ Ids' = 1..(Len(owner) + 1) /\ Ids = 1..Len(owner)
      BY <1>1 DEF Ids
<1>3. Ids \subseteq Ids' /\ c \in Ids' /\ Len(owner') <= MaxClients
      BY <1>1, <1>2, BoundsAssumption DEF c
<1>4. net' \subseteq Message
      BY <1>1, MsgTypes DEF TypeOK
<1>5. byAddr' \in [Peers -> 0..Len(owner')] /\ accepting' \in 0..Len(owner')
      BY <1>1, <1>2 DEF TypeOK, c
<1>6. misses' \in [Ids' -> 0..(MaxMiss + 1)]
  <2>1. misses \in [1..Len(owner) -> 0..(MaxMiss + 1)]
        BY <1>2 DEF TypeOK
  <2>2. misses \in Seq(0..(MaxMiss + 1)) /\ Len(misses) = Len(owner)
        BY <1>1, <2>1, FunctionSeq
  <2>3. 0 \in 0..(MaxMiss + 1)
        BY MissAssumption
  <2>4. misses' \in Seq(0..(MaxMiss + 1)) /\ Len(misses') = Len(owner) + 1
        BY <1>1, <2>2, <2>3
  <2>5. QED BY <1>2, <2>4, SeqFunction
<1>7. UNCHANGED <<pc, cid, flowing, pending, heardBy>>
      BY DEF session
<1>8. closing' \subseteq [client : Ids', by : {"ctrl", "watchdog"}, at : {"called", "open", "set"}]
      BY <1>3 DEF TypeOK
<1>9. endpoint' \subseteq Ids' /\ closed' \subseteq Ids' /\ dead' \subseteq Ids' /\ byId' \subseteq Ids'
      BY <1>1, <1>3 DEF TypeOK
<1>10. QED BY <1>2, <1>3, <1>4, <1>5, <1>6, <1>7, <1>8, <1>9 DEF TypeOK

LEMMA AcceptInv ==
    ASSUME ClientInv, NEW m \in net, m.type = "HELLO", CtrlFree, Accept(m),
           UNCHANGED <<session, out, outages, byAddr, byId, endpoint, closed, dead, closing, exited>>
    PROVE  ClientInv'
<1> DEFINE c == Len(owner) + 1
<1> DEFINE p == m.peer
<1>1. TypeOK
      BY DEF ClientInv
<1>2. m \in Message
      BY <1>1 DEF TypeOK
<1>3. p \in Peers /\ m = Msg("HELLO", p, 0)
      BY <1>2 DEF Message, Msg
<1>4. /\ owner' = Append(owner, p) /\ misses' = Append(misses, 0)
      /\ accepting = 0 /\ accepting' = c /\ byAddr[p] = 0
      /\ net' = (net \ {m}) \cup {Msg("HELLO_ACK", p, c)}
      BY DEF Accept, At, CtrlFree
<1>5. TypeOK'
      BY <1>1, <1>3, AcceptType
<1>6. UNCHANGED <<pc, cid, flowing, pending>>
      BY DEF session
<1>7. owner \in Seq(Peers) /\ Len(owner) \in Nat /\ Ids = 1..Len(owner) /\ Ids' = 1..c
      BY <1>1, <1>4 DEF TypeOK, Ids
<1>8. /\ c \notin Ids /\ c # 0 /\ Ids' = Ids \cup {c}
      /\ owner'[c] = p /\ \A d \in Ids : owner'[d] = owner[d] /\ owner[d] \in Peers
      BY <1>3, <1>4, <1>7
<1>9. misses'[c] = 0 /\ \A d \in Ids : misses'[d] = misses[d]
  <2>1. misses \in [1..Len(owner) -> 0..(MaxMiss + 1)]
        BY <1>1, <1>7 DEF TypeOK
  <2>2. misses \in Seq(0..(MaxMiss + 1)) /\ Len(misses) = Len(owner)
        BY <1>7, <2>1, FunctionSeq
  <2>3. QED BY <1>4, <1>7, <2>2
<1>10. \A k \in closing : k.client \in Ids
      BY <1>1 DEF TypeOK
<1>11. closed \subseteq Ids /\ dead \subseteq Ids /\ byId \subseteq Ids
      BY <1>1 DEF TypeOK
<1> HIDE DEF c, p
<1>12. \A q \in Peers : /\ Live(q)' = Live(q)
                        /\ Current(q)' = IF q = p THEN c ELSE Current(q)
  <2>1. Overran' = Overran
        BY <1>8, <1>11 DEF Overran
  <2>2. QED BY <1>4, <1>6, <1>8, <2>1 DEF Live, Current
<1>13. pc[p] # "idle"
      BY DEF ClientInv, Begun, p
<1>14. Reached'
      BY <1>4, <1>7, <1>8 DEF ClientInv, Reached
<1>15. Owned'
      BY <1>8, AtOwner DEF Owned
<1>16. Begun'
  <2>1. \A d \in Ids' : pc[owner'[d]] # "idle"
        BY <1>8, <1>13 DEF ClientInv, Begun
  <2>2. \A n \in net' : n \in net \/ n.peer = p
        BY <1>4 DEF Msg
  <2>3. \A n \in net' : n.type \in {"HELLO", "HELLO_ACK"} => pc[n.peer] # "idle"
        BY <1>13, <2>2 DEF ClientInv, Begun
  <2>4. QED BY <1>6, <2>1, <2>3 DEF ClientInv, Begun
<1>17. ASSUME NEW k \in closing
       PROVE  k.by = "watchdog" /\ owner[k.client] # p
  <2>1. k.by = "watchdog"
        BY <1>1 DEF CtrlFree, TypeOK
  <2>2. QED BY <1>3, <2>1 DEF ClientInv, ClosingOK
<1>18. ClosingOK'
  <2>1. SUFFICES ASSUME NEW k \in closing
                 PROVE  /\ byAddr[owner[k.client]] \in {0, k.client}
                        /\ k.at = "set" => k.client \in closed
                        /\ k.by = "watchdog" =>
                              /\ pc[owner[k.client]] \in {"up", "closed"}
                              /\ Msg("HELLO", owner[k.client], 0) \notin net'
        BY <1>6, <1>8, <1>10 DEF ClosingOK, Msg
  <2>3. \A q : Msg("HELLO", q, 0) \notin net => Msg("HELLO", q, 0) \notin net'
        BY <1>4 DEF Msg
  <2>4. QED BY <2>3 DEF ClientInv, ClosingOK
<1>19. ASSUME outages = 0
       PROVE  Untroubled'
  <2>1. Untroubled
        BY <1>19 DEF ClientInv
  <2>2. ASSUME NEW d \in Ids \cup {c}, Live(owner[d])'
        PROVE  d \notin closed /\ misses'[d] = 0 /\ \A k \in closing : k.client # d
    <3>1. CASE d = c
          BY <1>8, <1>9, <1>10, <1>11, <3>1
    <3>2. CASE d \in Ids
          BY <1>8, <1>9, <1>12, <2>1, <2>2, <3>2 DEF Untroubled
    <3>3. QED BY <3>1, <3>2
  <2>3. \A q \in Peers : pc[q] = "up" /\ Live(q)' => Current(q)' # 0
        BY <1>8, <1>12, <2>1 DEF Untroubled
  <2>4. ASSUME NEW n \in net'
        PROVE  /\ n.type = "HELLO_ACK" /\ Live(n.peer)' => Current(n.peer)' # 0
               /\ n.type = "BYE" => pc[n.peer] = "closed"
    <3>1. CASE n = Msg("HELLO_ACK", p, c)
          BY <1>3, <1>8, <1>12, <3>1 DEF Msg
    <3>2. CASE n \in net
      <4>1. n.peer \in Peers
            BY <1>1, <3>2 DEF TypeOK, Message
      <4>2. QED BY <1>8, <1>12, <2>1, <3>2, <4>1 DEF Untroubled
    <3>3. QED BY <1>4, <3>1, <3>2
  <2>5. QED BY <1>6, <1>8, <2>1, <2>2, <2>3, <2>4 DEF Untroubled
<1>20. ExitOK'
      BY DEF ExitOK, CtrlFree
<1>a. AcceptOK'
      BY <1>4, <1>8, <1>10, <1>11, <1>17 DEF AcceptOK, CtrlFree
<1>21. QED BY <1>a, <1>5, <1>14, <1>15, <1>16, <1>18, <1>19, <1>20 DEF ClientInv

LEMMA AckAgainInv ==
    ASSUME ClientInv, NEW m \in net, AckAgain(m),
           UNCHANGED <<session, out, outages, byAddr, byId, endpoint, closed, dead, closing, exited>>
    PROVE  ClientInv'
<1> DEFINE n == Msg("HELLO_ACK", m.peer, byAddr[m.peer])
<1>1. TypeOK
      BY DEF ClientInv
<1>2. m.peer \in Peers
      BY <1>1 DEF TypeOK, Message
<1>3. /\ UNCHANGED <<pc, cid, flowing, pending, heardBy, owner, misses, accepting>> /\ byAddr[m.peer] # 0
      /\ net' \subseteq net \cup {n}
      BY DEF AckAgain, At, session
<1>4. byAddr[m.peer] \in 1..MaxClients /\ owner[byAddr[m.peer]] = m.peer /\ byAddr[m.peer] \in Ids
  <2>1. byAddr[m.peer] \in Ids /\ owner[byAddr[m.peer]] = m.peer
        BY <1>2, <1>3, AtOwner
  <2>2. QED BY <1>1, <2>1, BoundsAssumption DEF TypeOK, Ids
<1>5. n \in Message /\ n.type = "HELLO_ACK" /\ n.peer = m.peer
      BY <1>2, <1>4, MsgTypes DEF Msg
<1> HIDE DEF n
<1>6. TypeOK'
      BY <1>1, <1>3, <1>5 DEF TypeOK, Ids
<1>7. /\ Reached' /\ Owned' /\ ExitOK' /\ AcceptOK' /\ \A q : UNCHANGED <<Current(q), Live(q)>>
      BY <1>3 DEF ClientInv, Reached, Owned, ExitOK, AcceptOK, Ids, Current, Live, Overran
<1>8. Begun'
      BY <1>3, <1>4, <1>5 DEF ClientInv, Begun, Ids
<1>9. ClosingOK'
      BY <1>3, <1>5 DEF ClientInv, ClosingOK, Msg
<1>10. ASSUME outages = 0
       PROVE  Untroubled'
  <2>1. Current(m.peer) # 0
        BY <1>3 DEF Current
  <2>2. QED BY <1>3, <1>5, <1>7, <1>10, <2>1 DEF ClientInv, Untroubled, Ids
<1>11. QED BY <1>6, <1>7, <1>8, <1>9, <1>10 DEF ClientInv

LEMMA RecvHelloInv ==
    ASSUME ClientInv, NEW m \in net, RecvHello(m)
    PROVE  ClientInv'
BY AcceptInv, AckAgainInv DEF RecvHello, PcUnchanged

LEMMA AdmitInv ==
    ASSUME ClientInv, Admit
    PROVE  ClientInv'
<1> DEFINE c == accepting
           p == owner[c]
           n == Msg("HELLO_ACK", p, c)
<1>1. TypeOK
      BY DEF ClientInv
<1>2. /\ byAddr' = [byAddr EXCEPT ![p] = c] /\ byId' = byId \cup {c} /\ c # 0
      /\ net' = net \cup {n} /\ accepting' = 0
      /\ UNCHANGED <<pc, cid, flowing, pending, heardBy, owner, endpoint, out, outages>>
      /\ UNCHANGED <<closed, dead, misses, closing, exited>>
      BY DEF Admit, PcUnchanged, session, ends
<1>3. /\ c \in Ids /\ p \in Peers /\ byAddr[p] = 0 /\ ~exited /\ c \in 1..Len(owner)
      /\ \A k \in closing : owner[k.client] # p
      BY <1>1, <1>2, OwnerType DEF ClientInv, AcceptOK, Ids
<1>4. c \in 1..MaxClients
      BY <1>1, <1>3, BoundsAssumption DEF TypeOK
<1>5. n \in Message /\ n.type = "HELLO_ACK" /\ n.peer = p
      BY <1>3, <1>4, MsgTypes DEF Msg
<1> HIDE DEF n
<1>6. \A q \in Peers : /\ byAddr'[q] = IF q = p THEN c ELSE byAddr[q]
                       /\ Current(q)' = Current(q)
  <2>1. \A q \in Peers : byAddr'[q] = IF q = p THEN c ELSE byAddr[q]
        BY <1>1, <1>2 DEF TypeOK
  <2>2. QED BY <1>2, <1>3, <2>1 DEF Current
<1>7. UNCHANGED Overran /\ \A q : Live(q)' = Live(q)
      BY <1>2 DEF Overran, Live
<1> HIDE DEF c, p
<1>8. TypeOK'
  <2>1. byAddr' \in [Peers -> 0..Len(owner)]
        BY <1>1, <1>2, <1>3 DEF TypeOK
  <2>2. 0 \in 0..Len(owner)
        BY <1>1 DEF TypeOK
  <2>3. QED BY <1>1, <1>2, <1>3, <1>5, <2>1, <2>2 DEF TypeOK, Ids
<1>9. Reached'
  <2>1. SUFFICES ASSUME NEW d \in Ids, d \notin closed
                 PROVE  d \in byId' /\ byAddr'[owner[d]] = d
        BY <1>2 DEF Reached, Ids
  <2>2. CASE d = c
        BY <1>2, <1>3, <1>6, <2>2 DEF p
  <2>3. CASE d # c
    <3>1. d \in byId /\ byAddr[owner[d]] = d /\ owner[d] \in Peers /\ d # 0
          BY <1>1, <2>1, <2>3, OwnerType DEF ClientInv, Reached, c
    <3>2. QED BY <1>2, <1>3, <1>6, <3>1
  <2>4. QED BY <2>2, <2>3
<1>10. Owned'
  <2>1. \A q \in Peers : q # p /\ byAddr[q] # 0 => owner[byAddr[q]] = q
        BY DEF ClientInv, Owned
  <2>2. QED BY <1>2, <1>6, <2>1 DEF Owned, p
<1>11. Begun'
      BY <1>2, <1>3, <1>5 DEF ClientInv, Begun, Ids, p
<1>12. ClosingOK'
  <2>1. \A k \in closing : owner[k.client] \in Peers
        BY <1>1, OwnerType DEF TypeOK
  <2>2. QED BY <1>2, <1>3, <1>5, <1>6, <2>1 DEF ClientInv, ClosingOK, Msg
<1>13. ASSUME outages = 0
       PROVE  Untroubled'
  <2>1. Untroubled
        BY <1>13 DEF ClientInv
  <2>2. Current(p) # 0
        BY <1>2, <1>3 DEF Current, p, c
  <2>3. \A m \in net : m.peer \in Peers
        BY <1>1 DEF TypeOK, Message
  <2>4. QED BY <1>2, <1>3, <1>5, <1>6, <1>7, <2>1, <2>2, <2>3 DEF Untroubled, Ids
<1>14. ExitOK' /\ AcceptOK'
      BY <1>2, <1>3 DEF ExitOK, AcceptOK
<1>15. QED BY <1>2, <1>8, <1>9, <1>10, <1>11, <1>12, <1>13, <1>14 DEF ClientInv

-----------------------------------------------------------------------------
LEMMA InitInv ==
    ASSUME Init
    PROVE  ClientInv
<1>1. owner = <<>> /\ misses = <<>> /\ Ids = {} /\ Len(owner) = 0
      BY DEF Init, Ids
<1>2. misses \in [Ids -> 0..(MaxMiss + 1)]
      BY <1>1
<1>3. /\ owner \in Seq(Peers) /\ Len(owner) <= MaxClients /\ byAddr \in [Peers -> 0..Len(owner)]
      /\ accepting \in 0..Len(owner)
      BY <1>1, BoundsAssumption DEF Init
<1>4. cid \in [Peers -> 0..MaxClients] /\ heardBy \in [Peers -> 0..MaxClients] /\ outages \in 0..MaxOutages
      BY BoundsAssumption DEF Init
<1>5. TypeOK
      BY <1>2, <1>3, <1>4 DEF Init, TypeOK
<1>6. Reached /\ Owned /\ Begun /\ ClosingOK /\ AcceptOK /\ ExitOK /\ Untroubled
      BY <1>1 DEF Init, Reached, Owned, Begun, ClosingOK, AcceptOK, ExitOK, Untroubled
<1>7. QED BY <1>5, <1>6 DEF ClientInv

LEMMA NextInv ==
    ASSUME ClientInv, [Next]_vars
    PROVE  ClientInv'
<1>1. CASE \E p \in Peers : PcStep(p)
      BY <1>1, PcInv
<1>2. CASE \E p \in Peers : Outage(p) \/ PathBack(p)
      BY <1>2, PathInv
<1>3. CASE \E m \in net : RecvHelloAck(m) \/ RecvHello(m) \/ RecvBye(m) \/ RecvOpen(m)
      BY <1>3, RecvHelloAckInv, RecvHelloInv, RecvByeInv, RecvOpenInv
<1>4. CASE \E m \in net : Lose(m)
  <2>1. PICK m \in net : Lose(m)
        BY <1>4
  <2>2. m.peer \in Peers
        BY DEF ClientInv, TypeOK, Message
  <2>3. QED BY <2>1, <2>2, PathInv
<1>5. CASE \E b \in BOOLEAN : Tick(b)
      BY <1>5, TickInv
<1>6. CASE \E c \in Ids : SweepIdle(c) \/ Watchdog(c)
      BY <1>6, SilentInv
<1>a. CASE Admit \/ \E p \in Peers : Overrun(p)
      BY <1>a, AdmitInv, OverrunInv
<1>7. CASE \E k \in closing : CloseStep(k)
      BY <1>7, TestClosedInv, SetClosedInv, RemoveClientInv DEF CloseStep
<1>8. CASE UNCHANGED vars
  <2>1. UNCHANGED <<session, out, outages, maps, closed, dead, misses, closing, exited, net>>
        BY <1>8 DEF vars, path, ends
  <2>2. TypeOK'
        BY <2>1, PhoneType DEF ClientInv, TypeOK
  <2>3. QED BY <2>1, <2>2, CloseBeginsInv
<1>9. QED BY <1>a, <1>1, <1>2, <1>3, <1>4, <1>5, <1>6, <1>7, <1>8 DEF Next

(* Maps, closes under way and messages on the path fit together, always.       *)
THEOREM ClientInvariant == Spec => []ClientInv
<1>1. Init => ClientInv
      BY InitInv
<1>2. ClientInv /\ [Next]_vars => ClientInv'
      BY NextInv
<1>3. QED BY <1>1, <1>2, PTL DEF Spec

(* A client that is not closed is found by its address, although close() may run *)
(* on two threads and removes by address.                                    *)
THEOREM NobodyLost == Spec => []NoZombie
<1>1. ClientInv => NoZombie
      BY DEF ClientInv, TypeOK, Reached, AcceptOK, NoZombie, Ids
<1>2. QED BY <1>1, ClientInvariant, PTL

(* The server ends by itself only when no session is up whose network has never   *)
(* failed and whose messages it could hold.                                   *)
THEOREM NobodyLeft == Spec => []NoEarlyExit
<1>1. ClientInv => NoEarlyExit
      BY DEF ClientInv, ExitOK, Untroubled, AcceptOK, Current, Live, NoEarlyExit
<1>2. QED BY <1>1, ClientInvariant, PTL

(* The session's and the server's state keep their types. *)
THEOREM TypeCorrect == Spec => []TypeOK
<1>1. ClientInv => TypeOK
      BY DEF ClientInv
<1>2. QED BY <1>1, ClientInvariant, PTL

-----------------------------------------------------------------------------
(* Whom an id belongs to.                                                    *)

(* What a HELLO_ACK on its way to a live session says is what it will keep. *)
Same ==
    /\ \A p \in Peers : pc[p] = "up" /\ Live(p) => cid[p] = Current(p)
    /\ \A m \in net : m.type = "HELLO_ACK" /\ Live(m.peer) => m.id = Current(m.peer)

IdInv == OwnClient /\ (outages = 0 => Same)

(* Steps that make no client, remove none and tell no session its id.          *)
LEMMA SameMaps ==
    ASSUME ClientInv, IdInv, UNCHANGED <<owner, cid>>,
           outages' = 0 => outages = 0, dead \subseteq dead',
           \A p \in Peers : /\ pc'[p] = "hello" => pc[p] \in {"idle", "hello"}
                            /\ pc'[p] = "up" => pc[p] = "up"
                            /\ outages = 0 /\ Live(p) => Current(p)' = Current(p),
           \A m \in net' : m.type \in {"HELLO_ACK", "OPEN"} =>
               \/ m \in net
               \/ /\ m.id \in Ids /\ owner[m.id] = m.peer
                  /\ m.type = "HELLO_ACK" => m.id = Current(m.peer)',
           net' \subseteq Message
    PROVE  IdInv'
<1>1. OwnClient'
      BY DEF IdInv, OwnClient, Ids
<1>a. \A p \in Peers : Live(p)' => Live(p) \/ pc[p] = "idle"
      BY DEF Live, Overran
<1>2. ASSUME outages' = 0
      PROVE  Same'
  <2>1. Same
        BY <1>2 DEF IdInv
  <2>2. \A m \in net' : m.peer \in Peers
        BY DEF Message
  <2>3. ASSUME NEW m \in net', m.type = "HELLO_ACK", Live(m.peer)'
        PROVE  m.id = Current(m.peer)'
    <3>1. CASE m \in net
      <4>1. Live(m.peer)
            BY <1>a, <2>2, <2>3, <3>1 DEF ClientInv, Begun
      <4>2. QED BY <1>2, <2>1, <2>2, <2>3, <3>1, <4>1 DEF Same
    <3>2. CASE m \notin net
          BY <2>3, <3>2
    <3>3. QED BY <3>1, <3>2
  <2>4. \A p \in Peers : pc'[p] = "up" /\ Live(p)' => cid[p] = Current(p)'
        BY <1>2, <1>a, <2>1 DEF Same
  <2>5. QED BY <2>3, <2>4 DEF Same
<1>3. QED BY <1>1, <1>2 DEF IdInv

LEMMA PcIds ==
    ASSUME ClientInv, IdInv, ClientInv', NEW p \in Peers, PcStep(p)
    PROVE  IdInv'
<1>1. UNCHANGED <<owner, byAddr, accepting, dead, outages>> /\ UNCHANGED cid
      BY DEF PcStep, SendHello, SendOpen, RecvMedia, SendCtrl, CtrlAcked, HandshakeTimeout,
             Stop, Stalled, Closes, PhoneUnchanged, maps, ends, session
<1>2. \A q \in Peers : /\ pc'[q] = "hello" => pc[q] \in {"idle", "hello"}
                       /\ pc'[q] = "up" => pc[q] = "up"
                       /\ Current(q)' = Current(q)
  <2>1. \/ UNCHANGED pc
        \/ pc[p] \in {"idle", "hello"} /\ pc' = [pc EXCEPT ![p] = "hello"]
        \/ pc' = [pc EXCEPT ![p] = "closed"]
        BY DEF PcStep, SendHello, SendOpen, RecvMedia, SendCtrl, CtrlAcked, HandshakeTimeout,
               Stop, Stalled, Closes, session
  <2>2. QED BY <1>1, <2>1 DEF Current, ClientInv, TypeOK
<1>3. ASSUME NEW m \in net', m.type \in {"HELLO_ACK", "OPEN"}, m \notin net
      PROVE  m.id \in Ids /\ owner[m.id] = m.peer /\ m.type # "HELLO_ACK"
  <2>1. m = Msg("OPEN", p, cid[p]) /\ cid[p] # 0
        BY <1>3 DEF PcStep, SendHello, SendOpen, RecvMedia, SendCtrl, CtrlAcked,
                    HandshakeTimeout, Stop, Stalled, Closes, Msg
  <2>2. QED BY <2>1 DEF IdInv, OwnClient, Msg
<1>4. net' \subseteq Message /\ (outages' = 0 => outages = 0)
      BY <1>1 DEF ClientInv, TypeOK
<1>5. \A m \in net' : m.type \in {"HELLO_ACK", "OPEN"} =>
         \/ m \in net
         \/ /\ m.id \in Ids /\ owner[m.id] = m.peer
            /\ m.type = "HELLO_ACK" => m.id = Current(m.peer)'
      BY <1>3
<1>6. QED BY <1>1, <1>2, <1>4, <1>5, SameMaps

LEMMA RecvHelloAckIds ==
    ASSUME ClientInv, IdInv, NEW m \in net, RecvHelloAck(m)
    PROVE  IdInv'
<1>1. TypeOK /\ m \in Message
      BY DEF ClientInv, TypeOK
<1>2. m.peer \in Peers
      BY <1>1 DEF Message
<1>3. /\ m.type = "HELLO_ACK" /\ net' = net \ {m} /\ UNCHANGED <<owner, byAddr, accepting, dead, outages>>
      /\ \/ /\ pc[m.peer] \in {"hello", "up"}
            /\ cid' = [cid EXCEPT ![m.peer] = m.id] /\ pc' = [pc EXCEPT ![m.peer] = "up"]
         \/ UNCHANGED <<cid, pc>>
      BY DEF RecvHelloAck, PhoneUnchanged, maps, ends
<1>4. m.id \in Ids /\ owner[m.id] = m.peer
      BY <1>3 DEF IdInv, OwnClient
<1>5. OwnClient'
  <2>1. \A q \in Peers : cid'[q] = cid[q] \/ (q = m.peer /\ cid'[q] = m.id)
        BY <1>1, <1>3 DEF TypeOK
  <2>2. QED BY <1>3, <1>4, <2>1 DEF IdInv, OwnClient, Ids
<1>6. ASSUME outages = 0
      PROVE  Same'
  <2>1. Same
        BY <1>6 DEF IdInv
  <2>2. \A q \in Peers : \/ pc'[q] = pc[q] /\ cid'[q] = cid[q]
                         \/ /\ q = m.peer /\ pc[q] \in {"hello", "up"}
                            /\ pc'[q] = "up" /\ cid'[q] = m.id
        BY <1>1, <1>3 DEF TypeOK
  <2>3. Live(m.peer) => m.id = Current(m.peer)
        BY <1>3, <2>1 DEF Same
  <2>a. \A q \in Peers : (Live(q)' => Live(q)) /\ Current(q)' = Current(q)
        BY <1>3, <2>2 DEF Live, Overran, Current
  <2>4. \A n \in net : n.peer \in Peers
        BY <1>1 DEF TypeOK, Message
  <2>5. QED BY <1>3, <2>1, <2>2, <2>3, <2>4, <2>a DEF Same
<1>7. QED BY <1>3, <1>5, <1>6 DEF IdInv

LEMMA AcceptIds ==
    ASSUME ClientInv, IdInv, NEW m \in net, CtrlFree, Accept(m),
           UNCHANGED <<session, out, outages, byAddr, dead>>
    PROVE  IdInv'
<1> DEFINE c == Len(owner) + 1
           p == m.peer
<1>1. TypeOK
      BY DEF ClientInv
<1>2. p \in Peers
      BY <1>1 DEF TypeOK, Message
<1>3. /\ owner' = Append(owner, p) /\ accepting = 0 /\ accepting' = c /\ byAddr[p] = 0
      /\ net' = (net \ {m}) \cup {Msg("HELLO_ACK", p, c)} /\ UNCHANGED <<pc, cid, outages>>
      BY DEF Accept, At, session, CtrlFree
<1>4. owner \in Seq(Peers) /\ Len(owner) \in Nat /\ Ids = 1..Len(owner) /\ Ids' = 1..c
      BY <1>1, <1>3 DEF TypeOK, Ids
<1>5. /\ c \in Ids' /\ Ids \subseteq Ids'
      /\ owner'[c] = p /\ \A d \in Ids : owner'[d] = owner[d]
      BY <1>2, <1>3, <1>4
<1> HIDE DEF c, p
<1>6. \A q \in Peers : /\ Current(q)' = IF q = p THEN c ELSE Current(q)
                       /\ Live(q)' = Live(q)
  <2>1. dead \subseteq Ids /\ 0 \notin Ids
        BY <1>1, <1>4 DEF TypeOK
  <2>2. Overran' = Overran
        BY <1>5, <2>1 DEF Overran
  <2>3. c # 0
        BY <1>4 DEF c
  <2>4. QED BY <1>3, <1>5, <2>2, <2>3 DEF Current, Live
<1>a. Current(p) = 0
      BY <1>3 DEF Current
<1>7. OwnClient'
  <2>1. \A q \in Peers : cid[q] # 0 => cid[q] \in Ids /\ owner[cid[q]] = q
        BY DEF IdInv, OwnClient
  <2>2. \A n \in net : n.type \in {"HELLO_ACK", "OPEN"} => n.id \in Ids /\ owner[n.id] = n.peer
        BY DEF IdInv, OwnClient
  <2>3. \A n \in net' : n \in net \/ (n.id = c /\ n.peer = p)
        BY <1>3 DEF Msg
  <2>4. QED BY <1>3, <1>5, <2>1, <2>2, <2>3 DEF OwnClient
<1>8. ASSUME outages = 0
      PROVE  Same'
  <2>1. Same /\ Untroubled
        BY <1>8 DEF IdInv, ClientInv
  <2>2. ~(pc[p] = "up" /\ Live(p))
        BY <1>2, <1>a, <2>1 DEF Untroubled
  <2>3. ASSUME NEW n \in net', n.type = "HELLO_ACK", Live(n.peer)'
        PROVE  n.id = Current(n.peer)'
    <3>1. CASE n = Msg("HELLO_ACK", p, c)
          BY <1>2, <1>6, <3>1 DEF Msg
    <3>2. CASE n \in net
      <4>1. n.peer \in Peers
            BY <1>1, <3>2 DEF TypeOK, Message
      <4>2. n.id = Current(n.peer) /\ Current(n.peer) # 0
            BY <1>6, <2>1, <2>3, <3>2, <4>1 DEF Same, Untroubled
      <4>3. QED BY <1>6, <1>a, <4>1, <4>2
    <3>3. QED BY <1>3, <3>1, <3>2
  <2>4. \A q \in Peers : pc[q] = "up" /\ Live(q)' => cid[q] = Current(q)'
        BY <1>6, <2>1, <2>2 DEF Same
  <2>5. QED BY <1>3, <2>3, <2>4 DEF Same
<1>9. QED BY <1>3, <1>7, <1>8 DEF IdInv

LEMMA AckAgainIds ==
    ASSUME ClientInv, IdInv, ClientInv', NEW m \in net, AckAgain(m),
           UNCHANGED <<session, out, outages, byAddr, dead>>
    PROVE  IdInv'
<1>1. m.peer \in Peers
      BY DEF ClientInv, TypeOK, Message
<1>2. /\ UNCHANGED <<pc, cid, owner, byAddr, accepting, dead, outages>> /\ byAddr[m.peer] # 0
      /\ \A n \in net' : n \in net \/ n = Msg("HELLO_ACK", m.peer, byAddr[m.peer])
      BY DEF AckAgain, At, session
<1>3. byAddr[m.peer] \in Ids /\ owner[byAddr[m.peer]] = m.peer
      BY <1>1, <1>2, AtOwner
<1>4. net' \subseteq Message
      BY DEF ClientInv, TypeOK
<1>5. /\ \A q : Current(q)' = Current(q)
      /\ Current(m.peer) = byAddr[m.peer]
      BY <1>2 DEF Current
<1>6. QED BY <1>2, <1>3, <1>4, <1>5, SameMaps DEF Msg

LEMMA AdmitIds ==
    ASSUME ClientInv, IdInv, ClientInv', Admit
    PROVE  IdInv'
<1> DEFINE c == accepting
           p == owner[c]
           n == Msg("HELLO_ACK", p, c)
<1>1. /\ byAddr' = [byAddr EXCEPT ![p] = c] /\ c # 0 /\ accepting' = 0
      /\ net' = net \cup {n} /\ UNCHANGED <<pc, cid, owner, outages, dead>>
      BY DEF Admit, PcUnchanged, session, ends
<1>2. c \in Ids /\ p \in Peers /\ byAddr[p] = 0
      BY <1>1, OwnerType DEF ClientInv, AcceptOK
<1>3. n.id = c /\ n.peer = p
      BY DEF Msg
<1> HIDE DEF n
<1>4. \A q \in Peers : byAddr'[q] = IF q = p THEN c ELSE byAddr[q]
      BY <1>1 DEF ClientInv, TypeOK
<1>5. \A q \in Peers : Current(q)' = Current(q)
      BY <1>1, <1>2, <1>4 DEF Current
<1>6. \A q \in Peers : q = p => Current(q)' = c
      BY <1>1, <1>2, <1>4 DEF Current
<1>7. net' \subseteq Message
      BY DEF ClientInv, TypeOK
<1>8. \A m \in net' : m \in net \/ (m.id = c /\ m.peer = p /\ m.id = Current(m.peer)')
  <2>1. \A q \in Peers : \A m : m = n /\ q = p => m.id = c /\ m.peer = q /\ m.id = Current(m.peer)'
        BY <1>3, <1>6
  <2>2. QED BY <1>1, <1>2, <2>1, <1>3
<1> HIDE DEF c, p
<1>9. \A q \in Peers : /\ pc'[q] = "hello" => pc[q] \in {"idle", "hello"}
                       /\ pc'[q] = "up" => pc[q] = "up"
                       /\ outages = 0 /\ Live(q) => Current(q)' = Current(q)
      BY <1>1, <1>5
<1>10. owner[c] = p
      BY DEF p
<1>11. QED BY <1>1, <1>2, <1>7, <1>8, <1>9, <1>10, SameMaps

LEMMA RemoveClientIds ==
    ASSUME ClientInv, IdInv, ClientInv', NEW k \in closing, RemoveClient(k)
    PROVE  IdInv'
<1>1. TypeOK /\ k.client \in Ids
      BY DEF ClientInv, TypeOK
<1> DEFINE p == owner[k.client]
<1>2. /\ UNCHANGED <<pc, cid, net, outages, owner, accepting, dead>>
      /\ byAddr' = [byAddr EXCEPT ![p] = 0]
      BY DEF RemoveClient, PcUnchanged, session
<1>3. outages = 0 => ~Live(p)
      BY <1>1 DEF ClientInv, Untroubled
<1> HIDE DEF p
<1>4. \A q \in Peers : q # p => Current(q)' = Current(q)
      BY <1>1, <1>2 DEF TypeOK, Current
<1>5. net' \subseteq Message
      BY DEF ClientInv, TypeOK
<1>6. QED BY <1>2, <1>3, <1>4, <1>5, SameMaps

(* The phone's other steps, and the path's. *)
LEMMA OtherIds ==
    ASSUME ClientInv, IdInv, ClientInv', UNCHANGED <<session, owner, byAddr, accepting>>,
           outages' = 0 => outages = 0, net' \subseteq net, dead \subseteq dead'
    PROVE  IdInv'
<1>1. net' \subseteq Message /\ UNCHANGED <<pc, cid>>
      BY DEF ClientInv, TypeOK, session
<1>2. \A q \in Peers : Current(q)' = Current(q)
      BY DEF Current
<1>3. QED BY <1>1, <1>2, SameMaps

LEMMA IdStep ==
    ASSUME ClientInv, IdInv, [Next]_vars
    PROVE  IdInv'
<1>0. ClientInv'
      BY NextInv
<1>1. CASE \E p \in Peers : PcStep(p)
      BY <1>0, <1>1, PcIds
<1>2. CASE \E p \in Peers : Outage(p) \/ PathBack(p)
  <2>1. outages \in Nat
        BY BoundsAssumption DEF ClientInv, TypeOK
  <2>2. /\ UNCHANGED <<session, owner, byAddr, accepting, dead, net>>
        /\ outages' = outages \/ outages' = outages + 1
        BY <1>2 DEF Outage, PathBack, maps, ends
  <2>3. QED BY <1>0, <2>1, <2>2, OtherIds
<1>3. CASE \E m \in net : RecvHelloAck(m)
      BY <1>3, RecvHelloAckIds
<1>4. CASE \E m \in net : RecvHello(m)
      BY <1>0, <1>4, AcceptIds, AckAgainIds DEF RecvHello, PcUnchanged
<1>5. CASE \E m \in net : RecvBye(m) \/ RecvOpen(m) \/ Lose(m)
  <2>1. UNCHANGED <<session, owner, byAddr, accepting, dead, outages>> /\ net' \subseteq net
        BY <1>5 DEF RecvBye, RecvOpen, Lose, PcUnchanged, maps, ends
  <2>2. QED BY <1>0, <2>1, OtherIds
<1>6. CASE \/ \E b \in BOOLEAN : Tick(b)
           \/ \E c \in Ids : SweepIdle(c) \/ Watchdog(c)
           \/ \E p \in Peers : Overrun(p)
  <2>1. UNCHANGED <<session, owner, byAddr, accepting, outages, net>> /\ dead \subseteq dead'
        BY <1>6 DEF Tick, SweepIdle, Watchdog, Overrun, PcUnchanged, maps
  <2>2. QED BY <1>0, <2>1, OtherIds
<1>7. CASE \E k \in closing : CloseStep(k)
  <2>1. PICK k \in closing : TestClosed(k) \/ SetClosed(k) \/ RemoveClient(k)
        BY <1>7 DEF CloseStep
  <2>2. CASE RemoveClient(k)
        BY <1>0, <2>2, RemoveClientIds
  <2>3. CASE TestClosed(k) \/ SetClosed(k)
    <3>1. UNCHANGED <<session, owner, byAddr, accepting, outages, net>> /\ dead \subseteq dead'
          BY <2>3 DEF TestClosed, SetClosed, PcUnchanged, maps
    <3>2. QED BY <1>0, <3>1, OtherIds
  <2>4. QED BY <2>1, <2>2, <2>3
<1>8. CASE UNCHANGED vars
  <2>1. UNCHANGED <<session, owner, byAddr, accepting, outages, net>> /\ dead \subseteq dead'
        BY <1>8 DEF vars, maps, path, ends
  <2>2. QED BY <1>0, <2>1, OtherIds
<1>a. CASE Admit
      BY <1>0, <1>a, AdmitIds
<1>9. QED BY <1>a, <1>1, <1>2, <1>3, <1>4, <1>5, <1>6, <1>7, <1>8 DEF Next

LEMMA IdInit == Init => IdInv
BY DEF Init, IdInv, OwnClient, Same, Live

LEMMA IdInvariant == Spec => [](ClientInv /\ IdInv)
<1>1. Init => ClientInv /\ IdInv
      BY InitInv, IdInit
<1>2. (ClientInv /\ IdInv) /\ [Next]_vars => (ClientInv /\ IdInv)'
      BY NextInv, IdStep
<1>3. QED BY <1>1, <1>2, PTL DEF Spec

(* No session is told, and none registers, the client of another one. *)
THEOREM OwnIds == Spec => []OwnClient
<1>1. IdInv => OwnClient
      BY DEF IdInv
<1>2. QED BY <1>1, IdInvariant, PTL

(* While the network has not failed and no receive buffer has overrun, PC and phone *)
(* mean the same open client.                                                 *)
THEOREM SameAtBothEnds == Spec => []SameClient
<1>1. ASSUME ClientInv, IdInv PROVE SameClient
  <2>1. SUFFICES ASSUME outages = 0, NEW p \in Peers, p \notin Overran, pc[p] = "up"
                 PROVE  /\ cid[p] \notin closed
                        /\ (cid[p] = byAddr[p] /\ cid[p] \in byId) \/ cid[p] = accepting
        BY DEF SameClient
  <2>2. Live(p) /\ cid[p] = Current(p) /\ Current(p) # 0
        BY <1>1, <2>1 DEF IdInv, Same, ClientInv, Untroubled, Live
  <2>3. CASE byAddr[p] # 0
    <3>1. cid[p] = byAddr[p] /\ byAddr[p] \in Ids /\ owner[byAddr[p]] = p
          BY <1>1, <2>2, <2>3, AtOwner DEF Current
    <3>2. byAddr[p] \notin closed
          BY <1>1, <2>1, <2>2, <3>1 DEF ClientInv, Untroubled
    <3>3. QED BY <1>1, <3>1, <3>2 DEF ClientInv, Reached
  <2>4. CASE byAddr[p] = 0
        BY <1>1, <2>2, <2>4 DEF Current, ClientInv, AcceptOK
  <2>5. QED BY <2>3, <2>4
<1>2. QED BY <1>1, IdInvariant, PTL

(* Of all steps only those of close() take a client from the map by address, and *)
(* what they take is the client that is being closed.                         *)
LEMMA RemovalStep ==
    ASSUME ClientInv, [Next]_vars, NEW p \in Peers, byAddr[p] # 0, byAddr'[p] # byAddr[p]
    PROVE  byAddr'[p] = 0 /\ byAddr[p] \in closed /\ byAddr[p] \notin byId'
<1>1. TypeOK
      BY DEF ClientInv
<1>2. CASE \E k \in closing : RemoveClient(k)
  <2>1. PICK k \in closing : RemoveClient(k)
        BY <1>2
  <2>2. /\ byAddr' = [byAddr EXCEPT ![owner[k.client]] = 0] /\ byId' = byId \ {k.client}
        /\ k.at = "set"
        BY <2>1 DEF RemoveClient
  <2>3. p = owner[k.client] /\ byAddr'[p] = 0
        BY <1>1, <2>2 DEF TypeOK
  <2>4. byAddr[p] = k.client /\ k.client \in closed
        BY <2>2, <2>3 DEF ClientInv, ClosingOK
  <2>5. QED BY <2>2, <2>3, <2>4
<1>3. CASE \E m \in net : RecvHello(m)
      BY <1>3 DEF RecvHello
<1>5. CASE Admit
      BY <1>1, <1>5, OwnerType DEF Admit, TypeOK, ClientInv, AcceptOK
<1>4. CASE ~(\E k \in closing : RemoveClient(k)) /\ ~(\E m \in net : RecvHello(m)) /\ ~Admit
  <2>1. \/ \E q \in Peers : PcStep(q) \/ Overrun(q) \/ Outage(q) \/ PathBack(q)
        \/ \E m \in net : RecvHelloAck(m) \/ RecvBye(m) \/ RecvOpen(m) \/ Lose(m)
        \/ \E b \in BOOLEAN : Tick(b)
        \/ \E c \in Ids : SweepIdle(c) \/ Watchdog(c)
        \/ \E k \in closing : TestClosed(k) \/ SetClosed(k)
        \/ UNCHANGED vars
        BY <1>4 DEF Next, CloseStep
  <2>2. UNCHANGED byAddr
    <3>1. CASE \E q \in Peers : PcStep(q) \/ Overrun(q) \/ Outage(q) \/ PathBack(q)
          BY <3>1 DEF PcStep, SendHello, SendOpen, RecvMedia, SendCtrl, CtrlAcked,
                      HandshakeTimeout, Stop, Stalled, Closes, PhoneUnchanged, Overrun, Outage,
                      PathBack, maps
    <3>2. CASE \E m \in net : RecvHelloAck(m) \/ RecvBye(m) \/ RecvOpen(m) \/ Lose(m)
          BY <3>2 DEF RecvHelloAck, RecvBye, RecvOpen, Lose, PhoneUnchanged, maps
    <3>3. CASE \/ \E b \in BOOLEAN : Tick(b)
               \/ \E c \in Ids : SweepIdle(c) \/ Watchdog(c)
               \/ \E k \in closing : TestClosed(k) \/ SetClosed(k)
          BY <3>3 DEF Tick, SweepIdle, Watchdog, TestClosed, SetClosed, maps
    <3>4. CASE UNCHANGED vars
          BY <3>4 DEF vars, maps
    <3>5. QED BY <2>1, <3>1, <3>2, <3>3, <3>4
  <2>3. QED BY <2>2
<1>6. QED BY <1>2, <1>3, <1>4, <1>5

(* removeClient never removes a client that a later HELLO has made. *)
THEOREM RemovesItsOwn == Spec => OwnRemoval
<1>1. ClientInv /\ [Next]_vars =>
          [\A p \in Peers : byAddr[p] # 0 /\ byAddr'[p] # byAddr[p] =>
              byAddr'[p] = 0 /\ byAddr[p] \in closed /\ byAddr[p] \notin byId']_vars
      BY RemovalStep
<1>2. QED BY <1>1, ClientInvariant, PTL DEF Spec, OwnRemoval
=============================================================================
