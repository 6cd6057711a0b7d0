----------------------------- MODULE CoreProofs -----------------------------
(***************************************************************************)
(* Theorems about Core, for any addresses, phones, serial numbers and        *)
(* bounds: its state has its types, the entries of the registry stay          *)
(* distinct, no session's task runs that nobody holds, no entry has two that   *)
(* go on, and the end of one is final.                                       *)
(***************************************************************************)
EXTENDS Core, SequenceTheorems, TLAPS

(* RegistryInv, of any sequence of entries. *)
Distinct(ds) ==
    \A u, v \in DOMAIN ds : u # v =>
        /\ ds[u].id # ds[v].id
        /\ \A a \in Addrs : ~(Contains(ds[u], a) /\ Contains(ds[v], a))

(* Every session has an entry, and what an entry holds is a session. *)
Linked ==
    /\ \A n \in DOMAIN sess : sess[n].uuid \in DOMAIN devices
    /\ \A u \in DOMAIN devices : devices[u].session \in 0..Len(sess)

(* What the handler under way has to remember: whom it waits for, and, when     *)
(* the core stops, all that is still held.                                     *)
HandlerOK ==
    /\ core.at # "stop" => core.victim = 0
    /\ core.at = "insert" => core.why = "tick"
    /\ core.at = "stop" /\ core.why = "quit" =>
         /\ core.starts = {}
         /\ \A u \in DOMAIN devices : devices[u].session # 0 => u \in core.stops

CoreInv == TypeOK /\ RegistryInv /\ Linked /\ HandlerOK /\ NoStray

-----------------------------------------------------------------------------
(* The registry.                                                            *)

(* What merging an address leaves of an entry. *)
LEMMA MergedFields ==
    ASSUME NEW e \in Entry, NEW a \in Addrs
    PROVE  /\ Merged(e, a) \in Entry
           /\ Merged(e, a).id = e.id /\ Merged(e, a).session = e.session
           /\ Merged(e, a).addr = [e.addr EXCEPT ![KindOf[a]] = a]
<1>1. KindOf[a] \in Kinds
      BY AddrAssumption
<1> DEFINE s == IF Priority[KindOf[a]] > Priority[KindOf[e.serial]] /\ a \notin ServiceNames
                THEN a ELSE e.serial
<1>2. s \in Addrs
      BY DEF Entry
<1>3. Merged(e, a) = [id |-> e.id, serial |-> s, addr |-> [e.addr EXCEPT ![KindOf[a]] = a],
                      session |-> e.session]
  <2>1. Merged(e, a) = [e EXCEPT !.addr[KindOf[a]] = a, !.serial = s]
        BY DEF Merged
  <2> HIDE DEF s
  <2>2. e = [id |-> e.id, serial |-> e.serial, addr |-> e.addr, session |-> e.session]
        BY DEF Entry
  <2>3. QED BY <2>1, <2>2
<1> HIDE DEF s
<1>4. [e.addr EXCEPT ![KindOf[a]] = a] \in [Kinds -> Addrs \cup {None}]
      BY <1>1 DEF Entry
<1>5. QED BY <1>2, <1>3, <1>4 DEF Entry

(* Merging brings no address but the merged one. *)
LEMMA MergedAddresses ==
    ASSUME NEW e \in Entry, NEW a \in Addrs, NEW b, Contains(Merged(e, a), b)
    PROVE  b = a \/ Contains(e, b)
<1>1. KindOf[a] \in Kinds /\ e.addr \in [Kinds -> Addrs \cup {None}]
      BY AddrAssumption DEF Entry
<1>2. QED BY <1>1, MergedFields DEF Contains

(* A new entry has its address, and no other. *)
LEMMA NewEntryFields ==
    ASSUME NEW a \in Addrs, NEW id \in Ids
    PROVE  /\ NewEntry(a, id) \in Entry
           /\ NewEntry(a, id).id = id /\ NewEntry(a, id).session = 0
           /\ \A b \in Addrs : Contains(NewEntry(a, id), b) => b = a
<1>1. KindOf[a] \in Kinds /\ None \notin Addrs
      BY AddrAssumption
<1>2. QED BY <1>1 DEF NewEntry, Entry, Contains

(* An address that is merged into an entry which no other one contends for. *)
LEMMA MergeKeeps ==
    ASSUME NEW ds \in Seq(Entry), NEW a \in Addrs, NEW u \in DOMAIN ds,
           \A v \in DOMAIN ds : Contains(ds[v], a) => v = u \/ Contains(ds[u], a)
    PROVE  LET new == [ds EXCEPT ![u] = Merged(ds[u], a)] IN
           /\ new \in Seq(Entry) /\ DOMAIN new = DOMAIN ds
           /\ \A v \in DOMAIN ds : new[v].session = ds[v].session
           /\ Distinct(ds) => Distinct(new)
<1> DEFINE new == [ds EXCEPT ![u] = Merged(ds[u], a)]
<1>1. ds[u] \in Entry
      OBVIOUS
<1>2. /\ Merged(ds[u], a) \in Entry
      /\ Merged(ds[u], a).id = ds[u].id /\ Merged(ds[u], a).session = ds[u].session
      BY <1>1, MergedFields
<1>3. new \in Seq(Entry) /\ DOMAIN new = DOMAIN ds
      BY <1>2
<1>4. /\ new[u] = Merged(ds[u], a)
      /\ \A v \in DOMAIN ds : v # u => new[v] = ds[v]
      OBVIOUS
<1> HIDE DEF new
<1>5. \A v \in DOMAIN ds : new[v].session = ds[v].session /\ new[v].id = ds[v].id
      BY <1>2, <1>4
<1>6. \A v \in DOMAIN ds, b \in Addrs :
          Contains(new[v], b) => Contains(ds[v], b) \/ (v = u /\ b = a)
      BY <1>1, <1>4, MergedAddresses
<1>7. Distinct(ds) => Distinct(new)
  <2> SUFFICES ASSUME Distinct(ds), NEW v \in DOMAIN ds, NEW w \in DOMAIN ds, v # w
               PROVE  /\ new[v].id # new[w].id
                      /\ \A b \in Addrs : ~(Contains(new[v], b) /\ Contains(new[w], b))
      BY <1>3 DEF Distinct
  <2>1. new[v].id # new[w].id
        BY <1>5 DEF Distinct
  <2>2. ASSUME NEW b \in Addrs, Contains(new[v], b), Contains(new[w], b)
        PROVE  FALSE
    <3>1. \A x, y \in DOMAIN ds : x # y => ~(Contains(ds[x], b) /\ Contains(ds[y], b))
          BY DEF Distinct
    <3>2. QED BY <1>6, <2>2, <3>1
  <2>3. QED BY <2>1, <2>2
<1>8. QED BY <1>3, <1>5, <1>7 DEF new

(* What insert_device does to the entries: none is lost or given a session, and  *)
(* they stay distinct.                                                         *)
Grown(ds, new) ==
    /\ new \in Seq(Entry) /\ Len(ds) <= Len(new)
    /\ \A u \in 1..Len(ds) : new[u].session = ds[u].session
    /\ \A u \in 1..Len(new) : u > Len(ds) => new[u].session = 0
    /\ Distinct(ds) => Distinct(new)

LEMMA InsertedGrows ==
    ASSUME NEW ds \in Seq(Entry), NEW a \in Addrs, NEW id \in Ids
    PROVE  Grown(ds, Inserted(ds, a, id))
<1> DEFINE merged(u) == [ds EXCEPT ![u] = Merged(ds[u], a)]
<1>0. DOMAIN ds = 1..Len(ds)
      OBVIOUS
<1>1. CASE Known(ds, a) # {}
  <2>1. PICK u \in Known(ds, a) : Inserted(ds, a, id) = merged(u)
        BY <1>1 DEF Inserted
  <2>2. u \in DOMAIN ds /\ Contains(ds[u], a)
        BY DEF Known
  <2>3. /\ merged(u) \in Seq(Entry) /\ DOMAIN merged(u) = DOMAIN ds
        /\ \A v \in DOMAIN ds : merged(u)[v].session = ds[v].session
        /\ Distinct(ds) => Distinct(merged(u))
        BY <2>2, MergeKeeps
  <2> HIDE DEF merged
  <2>4. QED BY <1>0, <2>1, <2>3 DEF Grown
<1>2. CASE Known(ds, a) = {} /\ SameId(ds, id) # {}
  <2>1. PICK u \in SameId(ds, id) : Inserted(ds, a, id) = merged(u)
        BY <1>2 DEF Inserted
  <2>2. u \in DOMAIN ds /\ \A v \in DOMAIN ds : ~Contains(ds[v], a)
        BY <1>2 DEF Known, SameId
  <2>3. /\ merged(u) \in Seq(Entry) /\ DOMAIN merged(u) = DOMAIN ds
        /\ \A v \in DOMAIN ds : merged(u)[v].session = ds[v].session
        /\ Distinct(ds) => Distinct(merged(u))
        BY <2>2, MergeKeeps
  <2> HIDE DEF merged
  <2>4. QED BY <1>0, <2>1, <2>3 DEF Grown
<1>3. CASE Known(ds, a) = {} /\ SameId(ds, id) = {}
  <2> DEFINE e == NewEntry(a, id)
             new == Append(ds, e)
  <2>1. Inserted(ds, a, id) = new
        BY <1>3 DEF Inserted
  <2>2. \A v \in DOMAIN ds : ~Contains(ds[v], a) /\ ds[v].id # id
        BY <1>3 DEF Known, SameId
  <2>3. e \in Entry /\ e.id = id /\ e.session = 0 /\ \A b \in Addrs : Contains(e, b) => b = a
        BY NewEntryFields
  <2> HIDE DEF e
  <2>4. /\ new \in Seq(Entry) /\ Len(new) = Len(ds) + 1 /\ DOMAIN new = 1..(Len(ds) + 1)
        /\ new[Len(ds) + 1] = e /\ \A v \in 1..Len(ds) : new[v] = ds[v]
        BY <2>3
  <2> HIDE DEF new
  <2>5. ASSUME Distinct(ds), NEW v \in DOMAIN new, NEW w \in DOMAIN new, v # w
        PROVE  /\ new[v].id # new[w].id
               /\ \A b \in Addrs : ~(Contains(new[v], b) /\ Contains(new[w], b))
    <3>1. CASE v \in DOMAIN ds /\ w \in DOMAIN ds
          BY <1>0, <2>4, <2>5, <3>1 DEF Distinct
    <3>2. CASE v = Len(ds) + 1 /\ w \in DOMAIN ds
      <4>1. new[v] = e /\ new[w] = ds[w]
            BY <1>0, <2>4, <3>2
      <4>2. QED BY <2>2, <2>3, <3>2, <4>1
    <3>3. CASE w = Len(ds) + 1 /\ v \in DOMAIN ds
      <4>1. new[w] = e /\ new[v] = ds[v]
            BY <1>0, <2>4, <3>3
      <4>2. QED BY <2>2, <2>3, <3>3, <4>1
    <3>4. QED BY <1>0, <2>4, <2>5, <3>1, <3>2, <3>3
  <2>6. Distinct(ds) => Distinct(new)
        BY <2>5 DEF Distinct
  <2>7. Len(ds) \in Nat
        OBVIOUS
  <2>8. QED BY <2>1, <2>3, <2>4, <2>6, <2>7 DEF Grown
<1>4. QED BY <1>1, <1>2, <1>3

(* What is asked for a device's serial number is an id. *)
LEMMA AskedIdsType ==
    ASSUME TypeOK, NEW a \in Addrs
    PROVE  AskedIds(a) \subseteq Ids
BY IdAssumption DEF TypeOK, AskedIds

-----------------------------------------------------------------------------
(* The sessions.                                                            *)

(* What any step may do to the sessions there are: no task comes back to life,   *)
(* and each stays with its entry.                                              *)
SessionsKept ==
    /\ sess' \in Seq(Session) /\ DOMAIN sess' = DOMAIN sess
    /\ \A n \in DOMAIN sess :
         /\ sess'[n].uuid = sess[n].uuid
         /\ sess'[n].task # "done" => sess[n].task # "done"

LEMMA BecomeKeeps ==
    ASSUME TypeOK, NEW n \in DOMAIN sess, NEW r \in Session, Become(n, r),
           r.uuid = sess[n].uuid, r.task # "done" => sess[n].task # "done"
    PROVE  SessionsKept
BY DEF SessionsKept, Become, TypeOK

(* While nobody lets go of a handle, every task that runs stays held. *)
LEMMA HeldStays ==
    ASSUME CoreInv, SessionsKept, UNCHANGED <<devices, core>>
    PROVE  Linked' /\ HandlerOK' /\ NoStray'
<1>1. Len(sess') = Len(sess)
      BY DEF SessionsKept, CoreInv, TypeOK
<1>2. Linked'
      BY <1>1 DEF SessionsKept, CoreInv, Linked
<1>3. HandlerOK'
      BY DEF CoreInv, HandlerOK
<1>4. Held'
      BY DEF CoreInv, NoStray, Held, SessionsKept
<1>5. OneHolder' /\ QuitStops'
      BY DEF CoreInv, NoStray, OneHolder, QuitStops, Off
<1>6. QED BY <1>2, <1>3, <1>4, <1>5 DEF NoStray

LEMMA KilledType ==
    ASSUME NEW s \in Session
    PROVE  Killed(s) \in Session /\ Killed(s).uuid = s.uuid /\ Killed(s).task = s.task
BY DEF Killed, Session

LEMMA GiveUpType ==
    ASSUME NEW s \in Session
    PROVE  GiveUp(s) \in Session /\ GiveUp(s).uuid = s.uuid /\ GiveUp(s).task = "done"
<1> DEFINE t == [s EXCEPT !.thread = "idle", !.task = "done", !.state = "failed"]
<1>1. t \in Session /\ t.uuid = s.uuid /\ t.task = "done"
      BY DEF Session
<1> HIDE DEF t
<1>2. QED BY <1>1, KilledType DEF GiveUp, t

LEMMA SessionStep ==
    ASSUME CoreInv, NEW n \in DOMAIN sess, NEW r \in Session, Become(n, r), SessionUnchanged,
           r.uuid = sess[n].uuid, r.task # "done" => sess[n].task # "done"
    PROVE  CoreInv'
<1>1. SessionsKept
      BY BecomeKeeps DEF CoreInv
<1>2. UNCHANGED <<world, registry, core>>
      BY DEF SessionUnchanged
<1>3. Linked' /\ HandlerOK' /\ NoStray'
      BY <1>1, <1>2, HeldStays DEF registry
<1>4. TypeOK'
      BY <1>1, <1>2 DEF SessionsKept, CoreInv, TypeOK, world, registry
<1>5. RegistryInv'
      BY <1>2 DEF CoreInv, RegistryInv, registry, Contains
<1>6. QED BY <1>3, <1>4, <1>5 DEF CoreInv

LEMMA SessionStepsInv ==
    ASSUME CoreInv, SessionSteps
    PROVE  CoreInv'
<1> PICK n \in DOMAIN sess :
        \/ \E server \in {"up", "down"} : Deploys(n, server)
        \/ DeployFails(n) \/ Resolve(n) \/ Connects(n) \/ ConnectFails(n) \/ RunEnds(n)
        \/ ServerExits(n)
    BY DEF SessionSteps
<1> DEFINE s == sess[n]
<1>0. s \in Session /\ s.serial \in Addrs /\ owner[s.serial] \in Phones
  <2>1. s \in Session
        BY DEF CoreInv, TypeOK
  <2>2. owner \in [Addrs -> Phones]
        BY DEF CoreInv, TypeOK
  <2>3. s.serial \in Addrs
        BY <2>1 DEF Session
  <2>4. QED BY <2>1, <2>2, <2>3
<1>1. ASSUME NEW server \in {"up", "down"}, Deploys(n, server)
      PROVE  CoreInv'
  <2> DEFINE r == [s EXCEPT !.server = server, !.phone = owner[s.serial], !.thread = "idle",
                            !.task = IF @ = "deploy" THEN "resolve" ELSE @]
  <2>1. r \in Session /\ r.uuid = s.uuid /\ (r.task # "done" => s.task # "done")
        BY <1>0 DEF Session
  <2>2. Become(n, r) /\ SessionUnchanged
        BY <1>1 DEF Deploys
  <2> HIDE DEF r
  <2>3. QED BY <2>1, <2>2, SessionStep
<1>2. CASE DeployFails(n)
  <2> DEFINE r == IF s.task = "done" THEN [s EXCEPT !.thread = "idle"]
                  ELSE [s EXCEPT !.thread = "idle", !.task = "done", !.state = "failed"]
  <2>1. r \in Session /\ r.uuid = s.uuid /\ r.task = "done"
        BY <1>0 DEF Session
  <2>2. Become(n, r) /\ SessionUnchanged
        BY <1>2 DEF DeployFails
  <2> HIDE DEF r
  <2>3. QED BY <2>1, <2>2, SessionStep
<1>3. CASE Resolve(n)
  <2> DEFINE r == [s EXCEPT !.task = "connect", !.thread = "connect"]
  <2>1. r \in Session /\ r.uuid = s.uuid /\ s.task # "done"
        BY <1>0, <1>3 DEF Session, Resolve
  <2>2. (Become(n, r) \/ Become(n, GiveUp(s))) /\ SessionUnchanged
        BY <1>3 DEF Resolve
  <2> HIDE DEF r
  <2>3. QED BY <1>0, <2>1, <2>2, GiveUpType, SessionStep
<1>4. CASE Connects(n)
  <2> DEFINE r == IF s.task = "done" THEN [s EXCEPT !.thread = "idle"]
                  ELSE [s EXCEPT !.thread = "idle", !.task = "run", !.state = "running"]
  <2>1. r \in Session /\ r.uuid = s.uuid /\ (r.task # "done" => s.task # "done")
        BY <1>0 DEF Session
  <2>2. Become(n, r) /\ SessionUnchanged
        BY <1>4 DEF Connects
  <2> HIDE DEF r
  <2>3. QED BY <2>1, <2>2, SessionStep
<1>5. CASE ConnectFails(n)
  <2> DEFINE r == IF s.task = "done" THEN [s EXCEPT !.thread = "idle"] ELSE GiveUp(s)
  <2>1. r \in Session /\ r.uuid = s.uuid /\ r.task = "done"
    <3>1. CASE s.task = "done"
          BY <1>0, <3>1 DEF Session
    <3>2. CASE s.task # "done"
          BY <1>0, <3>2, GiveUpType
    <3>3. QED BY <3>1, <3>2
  <2>2. Become(n, r) /\ SessionUnchanged
        BY <1>5 DEF ConnectFails
  <2> HIDE DEF r
  <2>3. QED BY <2>1, <2>2, SessionStep
<1>6. CASE RunEnds(n)
  <2> DEFINE r == [s EXCEPT !.task = "done"]
  <2>1. r \in Session /\ r.uuid = s.uuid /\ r.task = "done"
        BY <1>0 DEF Session
  <2>2. Become(n, r) /\ SessionUnchanged
        BY <1>6 DEF RunEnds
  <2> HIDE DEF r
  <2>3. QED BY <2>1, <2>2, SessionStep
<1>7. CASE ServerExits(n)
  <2> DEFINE r == [s EXCEPT !.server = "down"]
  <2>1. r \in Session /\ r.uuid = s.uuid /\ r.task = s.task
        BY <1>0 DEF Session
  <2>2. Become(n, r) /\ SessionUnchanged
        BY <1>7 DEF ServerExits
  <2> HIDE DEF r
  <2>3. QED BY <2>1, <2>2, SessionStep
<1>8. QED BY <1>1, <1>2, <1>3, <1>4, <1>5, <1>6, <1>7

-----------------------------------------------------------------------------
(* What the handler remembers.                                              *)

(* The type of `core`, for a given number of entries. *)
CoreRec(uuids) ==
    [at : {"idle", "insert", "stop", "off"}, why : {"command", "tick", "quit"},
     online : SUBSET Addrs, todo : SUBSET Addrs, stops : SUBSET uuids, victim : Nat,
     starts : SUBSET [uuid : uuids, serial : Addrs, recheck : BOOLEAN]]

LEMMA CoreFields ==
    ASSUME CoreInv
    PROVE  /\ core \in CoreRec(DOMAIN devices) /\ core.victim \in Nat
           /\ core.online \subseteq Addrs /\ core.todo \subseteq Addrs
           /\ core.stops \subseteq DOMAIN devices
           /\ core.starts \subseteq [uuid : DOMAIN devices, serial : Addrs, recheck : BOOLEAN]
           /\ core = [at |-> core.at, why |-> core.why, online |-> core.online, todo |-> core.todo,
                      stops |-> core.stops, victim |-> core.victim, starts |-> core.starts]
           /\ core.at \in {"idle", "insert", "stop", "off"} /\ core.why \in {"command", "tick", "quit"}
BY DEF CoreInv, TypeOK, CoreRec

(* An entry's fields. *)
LEMMA EntryFields ==
    ASSUME CoreInv, NEW u \in DOMAIN devices
    PROVE  /\ devices[u] \in Entry /\ devices[u].serial \in Addrs
           /\ devices[u].session \in Nat /\ devices[u].session <= Len(sess)
           /\ u \in Nat
<1>1. devices[u] \in Entry
      BY DEF CoreInv, TypeOK
<1>2. devices[u].session \in 0..Len(sess)
      BY DEF CoreInv, Linked
<1>3. u \in Nat
      BY DEF CoreInv, TypeOK
<1>4. QED BY <1>1, <1>2, <1>3 DEF Entry

(* Only the world around the core moves, or its queue of addresses. *)
LEMMA OutsideStep ==
    ASSUME CoreInv, UNCHANGED <<devices, core, sess>>,
           wired' \in [Addrs -> AdbStates], tracked' \in [Addrs -> AdbStates],
           owner' \in [Addrs -> Phones], pending' \in Seq([addr : Addrs, attempts : Nat])
    PROVE  CoreInv'
<1>1. SessionsKept
      BY DEF SessionsKept, CoreInv, TypeOK
<1>2. Linked' /\ HandlerOK' /\ NoStray'
      BY <1>1, HeldStays
<1>3. TypeOK'
      BY DEF CoreInv, TypeOK
<1>4. RegistryInv'
      BY DEF CoreInv, RegistryInv, Contains
<1>5. QED BY <1>2, <1>3, <1>4 DEF CoreInv

LEMMA EnvironmentInv ==
    ASSUME CoreInv, Environment
    PROVE  CoreInv'
<1>0. /\ wired \in [Addrs -> AdbStates] /\ tracked \in [Addrs -> AdbStates]
      /\ owner \in [Addrs -> Phones] /\ pending \in Seq([addr : Addrs, attempts : Nat])
      BY DEF CoreInv, TypeOK
<1>1. ASSUME NEW a \in Addrs, NEW s \in AdbStates, Rewire(a, s)
      PROVE  CoreInv'
  <2>1. UNCHANGED <<devices, core, sess, tracked, owner, pending>>
        BY <1>1 DEF Rewire, registry
  <2>2. wired' \in [Addrs -> AdbStates]
        BY <1>0, <1>1 DEF Rewire
  <2>3. QED BY <1>0, <2>1, <2>2, OutsideStep
<1>2. ASSUME NEW a \in Addrs, NEW p \in Phones, MoveAddress(a, p)
      PROVE  CoreInv'
  <2>1. UNCHANGED <<devices, core, sess, tracked, wired, pending>>
        BY <1>2 DEF MoveAddress, registry
  <2>2. owner' \in [Addrs -> Phones]
        BY <1>0, <1>2 DEF MoveAddress
  <2>3. QED BY <1>0, <2>1, <2>2, OutsideStep
<1>3. CASE TrackFrame
  <2>1. UNCHANGED <<devices, core, sess, owner, wired, pending>> /\ tracked' = wired
        BY <1>3 DEF TrackFrame, registry
  <2>2. QED BY <1>0, <2>1, OutsideStep
<1>4. QED BY <1>1, <1>2, <1>3 DEF Environment

LEMMA EnqueueInv ==
    ASSUME CoreInv, NEW a \in Addrs, Enqueue(a)
    PROVE  CoreInv'
<1>1. UNCHANGED <<devices, core, sess, wired, tracked, owner>>
      BY DEF Enqueue, world
<1>2. pending' \in Seq([addr : Addrs, attempts : Nat])
      BY DEF Enqueue, CoreInv, TypeOK
<1>3. QED BY <1>1, <1>2, OutsideStep DEF CoreInv, TypeOK

-----------------------------------------------------------------------------
(* Stopping and starting sessions.                                          *)

LEMMA TakeHandleInv ==
    ASSUME CoreInv, NEW u \in DOMAIN devices, TakeHandle(u)
    PROVE  CoreInv'
<1> DEFINE n == devices[u].session
           e == [devices[u] EXCEPT !.session = 0]
<1>1. /\ core.at = "stop" /\ core.victim = 0 /\ u \in core.stops
      /\ devices' = [devices EXCEPT ![u] = e]
      /\ core' = [core EXCEPT !.stops = @ \ {u}, !.victim = n]
      /\ UNCHANGED <<wired, tracked, owner, pending, sess>>
      BY DEF TakeHandle, world
<1>2. devices[u] \in Entry /\ n \in Nat
      BY EntryFields
<1>3. e \in Entry /\ e.id = devices[u].id /\ e.addr = devices[u].addr /\ e.session = 0
      BY <1>2 DEF Entry
<1>4. devices \in Seq(Entry)
      BY DEF CoreInv, TypeOK
<1> HIDE DEF e
<1>5. /\ devices' \in Seq(Entry) /\ DOMAIN devices' = DOMAIN devices
      /\ devices'[u] = e /\ \A v \in DOMAIN devices : v # u => devices'[v] = devices[v]
      BY <1>1, <1>3, <1>4
<1> HIDE DEF n
<1>6. /\ core'.at = "stop" /\ core'.victim = n /\ core'.stops = core.stops \ {u}
      /\ core'.why = core.why /\ core'.starts = core.starts
      /\ core' \in CoreRec(DOMAIN devices)
      BY <1>1, <1>2, CoreFields DEF CoreRec
<1>7. TypeOK'
      BY <1>1, <1>5, <1>6 DEF CoreInv, TypeOK, CoreRec
<1>8. RegistryInv'
  <2>1. \A v \in DOMAIN devices : devices'[v].id = devices[v].id /\ devices'[v].addr = devices[v].addr
        BY <1>3, <1>5
  <2>2. QED BY <1>5, <2>1 DEF CoreInv, RegistryInv, Contains
<1>9. Linked'
  <2>1. \A v \in DOMAIN devices : devices'[v].session \in {0, devices[v].session}
        BY <1>3, <1>5
  <2>2. Len(sess) \in Nat
        BY DEF CoreInv, TypeOK
  <2>3. QED BY <1>1, <1>5, <2>1, <2>2 DEF CoreInv, Linked
<1>10. HandlerOK'
  <2>1. \A v \in DOMAIN devices : devices'[v].session # 0 => v # u /\ devices[v].session # 0
        BY <1>3, <1>5
  <2>2. QED BY <1>1, <1>5, <1>6, <2>1 DEF CoreInv, HandlerOK
<1>11. Held'
  <2> SUFFICES ASSUME NEW m \in DOMAIN sess, sess[m].task # "done"
               PROVE  m = n \/ devices'[sess[m].uuid].session = m
      BY <1>1, <1>6 DEF Held
  <2>1. m \in Nat /\ m # 0
        BY DEF CoreInv, TypeOK
  <2>2. devices[sess[m].uuid].session = m /\ sess[m].uuid \in DOMAIN devices
        BY <1>1, <2>1 DEF CoreInv, NoStray, Held, Linked
  <2>3. QED BY <1>5, <2>2 DEF n
<1>12. OneHolder'
  <2>1. \A v \in DOMAIN devices : devices'[v].session # 0 => devices'[v] = devices[v]
        BY <1>3, <1>5
  <2>2. QED BY <1>5, <2>1 DEF CoreInv, NoStray, OneHolder
<1>13. QuitStops'
      BY <1>6 DEF QuitStops, Off
<1>14. QED BY <1>7, <1>8, <1>9, <1>10, <1>11, <1>12, <1>13 DEF CoreInv, NoStray

LEMMA StopDoneInv ==
    ASSUME CoreInv, StopDone
    PROVE  CoreInv'
<1>1. /\ core.victim # 0 /\ sess[core.victim].task = "done"
      /\ core' = [core EXCEPT !.victim = 0]
      /\ UNCHANGED <<wired, tracked, owner, pending, devices, sess>>
      BY DEF StopDone, world, registry
<1>2. /\ core'.victim = 0 /\ core'.at = core.at /\ core'.why = core.why
      /\ core'.stops = core.stops /\ core'.starts = core.starts
      /\ core' \in CoreRec(DOMAIN devices)
      BY <1>1, CoreFields DEF CoreRec
<1>3. TypeOK'
      BY <1>1, <1>2 DEF CoreInv, TypeOK, CoreRec
<1>4. RegistryInv'
      BY <1>1 DEF CoreInv, RegistryInv, Contains
<1>5. Linked' /\ OneHolder'
      BY <1>1 DEF CoreInv, Linked, NoStray, OneHolder
<1>6. HandlerOK' /\ QuitStops'
      BY <1>1, <1>2 DEF CoreInv, HandlerOK, NoStray, QuitStops, Off
<1>7. Held'
      BY <1>1, <1>2 DEF CoreInv, NoStray, Held
<1>8. QED BY <1>3, <1>4, <1>5, <1>6, <1>7 DEF CoreInv, NoStray

LEMMA StopTimeoutInv ==
    ASSUME CoreInv, StopTimeout
    PROVE  CoreInv'
<1> DEFINE n == core.victim
           t == [sess[n] EXCEPT !.task = "done"]
<1>1. /\ n # 0 /\ core' = [core EXCEPT !.victim = 0] /\ Become(n, Aborted(sess[n]))
      /\ UNCHANGED <<wired, tracked, owner, pending, devices>>
      BY DEF StopTimeout, world, registry
<1>2. /\ core'.victim = 0 /\ core'.at = core.at /\ core'.why = core.why
      /\ core'.stops = core.stops /\ core'.starts = core.starts
      /\ core' \in CoreRec(DOMAIN devices)
      BY <1>1, CoreFields DEF CoreRec
<1>3. SessionsKept /\ (n \in DOMAIN sess => sess'[n].task = "done")
  <2>1. CASE n \notin DOMAIN sess
    <3>1. sess \in Seq(Session)
          BY DEF CoreInv, TypeOK
    <3>2. sess' = sess
          BY <1>1, <2>1, <3>1 DEF Become
    <3>3. QED BY <2>1, <3>1, <3>2 DEF SessionsKept
  <2>2. CASE n \in DOMAIN sess
    <3>1. sess[n] \in Session
          BY <2>2 DEF CoreInv, TypeOK
    <3>2. t \in Session /\ t.uuid = sess[n].uuid /\ t.task = "done"
          BY <3>1 DEF Session
    <3> HIDE DEF t
    <3>3. /\ Aborted(sess[n]) \in Session /\ Aborted(sess[n]).uuid = sess[n].uuid
          /\ Aborted(sess[n]).task = "done"
          BY <3>2, KilledType DEF Aborted, t
    <3>4. SessionsKept
          BY <1>1, <2>2, <3>3, BecomeKeeps DEF CoreInv
    <3>5. sess'[n] = Aborted(sess[n])
          BY <1>1, <2>2 DEF Become, CoreInv, TypeOK
    <3>6. QED BY <3>3, <3>4, <3>5
  <2>3. QED BY <2>1, <2>2
<1> HIDE DEF n, t
<1>4. TypeOK'
      BY <1>1, <1>2, <1>3 DEF CoreInv, TypeOK, CoreRec, SessionsKept
<1>5. RegistryInv' /\ OneHolder'
      BY <1>1 DEF CoreInv, RegistryInv, Contains, NoStray, OneHolder
<1>6. Linked'
  <2>1. Len(sess') = Len(sess)
        BY <1>3 DEF CoreInv, TypeOK, SessionsKept
  <2>2. QED BY <1>1, <1>3, <2>1 DEF CoreInv, Linked, SessionsKept
<1>7. HandlerOK' /\ QuitStops'
      BY <1>1, <1>2 DEF CoreInv, HandlerOK, NoStray, QuitStops, Off
<1>8. Held'
      BY <1>1, <1>2, <1>3 DEF CoreInv, NoStray, Held, SessionsKept, n
<1>9. QED BY <1>4, <1>5, <1>6, <1>7, <1>8 DEF CoreInv, NoStray

LEMMA StartInv ==
    ASSUME CoreInv, NEW w \in core.starts, Start(w)
    PROVE  CoreInv'
<1> DEFINE u == w.uuid
           r == [uuid |-> u, serial |-> w.serial, phone |-> owner[w.serial],
                 task |-> "deploy", thread |-> "deploy", state |-> "connecting", server |-> "down"]
           m == Len(sess) + 1
           e == [devices[u] EXCEPT !.session = m]
<1>1. u \in DOMAIN devices /\ w.serial \in Addrs /\ core.at = "stop" /\ core.victim = 0
      BY CoreFields DEF Start, Stopped
<1>2. /\ core' = [core EXCEPT !.starts = @ \ {w}]
      /\ UNCHANGED <<wired, tracked, owner, pending>>
      BY DEF Start, world
<1>3. /\ core'.victim = 0 /\ core'.at = core.at /\ core'.why = core.why
      /\ core'.stops = core.stops /\ core'.starts \subseteq core.starts
      /\ core' \in CoreRec(DOMAIN devices)
      BY <1>1, <1>2, CoreFields DEF CoreRec
<1>4. core.why # "quit"
      BY <1>1 DEF CoreInv, HandlerOK
<1>5. \/ UNCHANGED <<sess, devices>>
      \/ /\ devices[u].session = 0
         /\ sess' = Append(sess, r) /\ devices' = [devices EXCEPT ![u] = e]
      BY <1>1 DEF Start
<1>6. devices \in Seq(Entry) /\ sess \in Seq(Session) /\ owner \in [Addrs -> Phones]
      BY DEF CoreInv, TypeOK
<1>7. r \in Session
  <2>1. owner[w.serial] \in Phones /\ u \in Nat
        BY <1>1, <1>6
  <2>2. QED BY <1>1, <2>1 DEF Session
<1>8. HandlerOK' /\ QuitStops'
      BY <1>1, <1>3, <1>4 DEF HandlerOK, QuitStops, Off
<1>9. CASE UNCHANGED <<sess, devices>>
  <2>1. TypeOK'
        BY <1>2, <1>3, <1>9 DEF CoreInv, TypeOK, CoreRec
  <2>2. RegistryInv' /\ Linked' /\ OneHolder'
        BY <1>9 DEF CoreInv, RegistryInv, Contains, Linked, NoStray, OneHolder
  <2>3. Held'
        BY <1>1, <1>3, <1>9 DEF CoreInv, NoStray, Held
  <2>4. QED BY <1>8, <2>1, <2>2, <2>3 DEF CoreInv, NoStray
<1>10. CASE /\ devices[u].session = 0
            /\ sess' = Append(sess, r) /\ devices' = [devices EXCEPT ![u] = e]
  <2>1. devices[u] \in Entry /\ Len(sess) \in Nat
        BY <1>1, <1>6
  <2>2. e \in Entry /\ e.id = devices[u].id /\ e.addr = devices[u].addr /\ e.session = m
        BY <2>1 DEF Entry
  <2> HIDE DEF e
  <2>3. /\ devices' \in Seq(Entry) /\ DOMAIN devices' = DOMAIN devices
        /\ devices'[u] = e /\ \A v \in DOMAIN devices : v # u => devices'[v] = devices[v]
        BY <1>1, <1>6, <1>10, <2>2
  <2>4. r.uuid = u
        OBVIOUS
  <2> HIDE DEF r
  <2>5. /\ sess' \in Seq(Session) /\ DOMAIN sess' = 1..m /\ Len(sess') = m /\ DOMAIN sess = 1..Len(sess)
        /\ sess'[m] = r /\ \A n \in 1..Len(sess) : sess'[n] = sess[n]
        BY <1>6, <1>7, <1>10
  <2>6. TypeOK'
        BY <1>2, <1>3, <2>3, <2>5 DEF CoreInv, TypeOK, CoreRec
  <2>7. RegistryInv'
    <3>1. \A v \in DOMAIN devices : devices'[v].id = devices[v].id /\ devices'[v].addr = devices[v].addr
          BY <2>2, <2>3
    <3>2. QED BY <2>3, <3>1 DEF CoreInv, RegistryInv, Contains
  <2>8. \A v \in DOMAIN devices : devices[v].session \in 0..Len(sess)
        BY DEF CoreInv, Linked
  <2>9. Linked'
    <3>1. \A v \in DOMAIN devices' : devices'[v].session \in 0..Len(sess')
          BY <2>1, <2>2, <2>3, <2>5, <2>8
    <3>2. ASSUME NEW n \in DOMAIN sess'
          PROVE  sess'[n].uuid \in DOMAIN devices'
      <4>1. CASE n = m
            BY <1>1, <2>3, <2>4, <2>5, <4>1
      <4>2. CASE n # m
        <5>1. n \in DOMAIN sess
              BY <2>1, <2>5, <4>2
        <5>2. QED BY <2>3, <2>5, <5>1 DEF CoreInv, Linked
      <4>3. QED BY <4>1, <4>2
    <3>3. QED BY <3>1, <3>2 DEF Linked
  <2>10. OneHolder'
    <3>1. \A v \in DOMAIN devices : v # u => devices'[v].session # m
          BY <2>1, <2>3, <2>8
    <3>2. devices'[u].session = m
          BY <2>2, <2>3
    <3>3. QED BY <2>3, <3>1, <3>2 DEF CoreInv, NoStray, OneHolder
  <2>11. Held'
    <3> SUFFICES ASSUME NEW n \in DOMAIN sess', sess'[n].task # "done"
                 PROVE  devices'[sess'[n].uuid].session = n
        BY DEF Held
    <3>1. CASE n = m
          BY <2>2, <2>3, <2>4, <2>5, <3>1
    <3>2. CASE n # m
      <4>1. n \in DOMAIN sess /\ sess'[n] = sess[n] /\ n # 0
            BY <2>1, <2>5, <3>2
      <4>2. devices[sess[n].uuid].session = n /\ sess[n].uuid \in DOMAIN devices
            BY <1>1, <4>1 DEF CoreInv, NoStray, Held, Linked
      <4>3. sess[n].uuid # u
            BY <1>10, <4>1, <4>2
      <4>4. QED BY <2>3, <4>1, <4>2, <4>3
    <3>3. QED BY <3>1, <3>2
  <2>12. QED BY <1>8, <2>6, <2>7, <2>9, <2>10, <2>11 DEF CoreInv, NoStray
<1>11. QED BY <1>5, <1>9, <1>10

(* A handler that does not touch the entries begins. *)
LEMMA HandlerBegins ==
    ASSUME CoreInv, Idle, UNCHANGED <<devices, sess, wired, tracked, owner>>,
           pending' \in Seq([addr : Addrs, attempts : Nat]),
           core' \in CoreRec(DOMAIN devices), core'.victim = 0, core'.at # "off",
           core'.at = "insert" => core'.why = "tick",
           core'.why = "quit" => core'.starts = {} /\ AllHeld \subseteq core'.stops
    PROVE  CoreInv'
<1>1. core.victim = 0
      BY DEF CoreInv, HandlerOK, Idle
<1>2. TypeOK'
      BY DEF CoreInv, TypeOK, CoreRec
<1>3. RegistryInv' /\ Linked' /\ OneHolder'
      BY DEF CoreInv, RegistryInv, Contains, Linked, NoStray, OneHolder
<1>4. HandlerOK' /\ QuitStops'
      BY DEF HandlerOK, QuitStops, Off, AllHeld
<1>5. Held'
      BY <1>1 DEF CoreInv, NoStray, Held
<1>6. QED BY <1>2, <1>3, <1>4, <1>5 DEF CoreInv, NoStray

(* What stops and starts, for Stopping. *)
LEMMA StoppingFields ==
    ASSUME NEW uuids, NEW stops \in SUBSET uuids,
           NEW starts \in SUBSET [uuid : uuids, serial : Addrs, recheck : BOOLEAN],
           Stopping(stops, starts)
    PROVE  /\ core' \in CoreRec(uuids) /\ core'.victim = 0
           /\ core'.at = "stop" /\ core'.why = "command"
BY DEF Stopping, Rest, CoreRec

-----------------------------------------------------------------------------
(* The ring.                                                                *)

Waiting == [addr : Addrs, attempts : Nat]

(* No address is in the ring twice. *)
Once(q) == \A i, j \in DOMAIN q : q[i].addr = q[j].addr => i = j

(* Without is what retain leaves: the others, in their order. *)
LEMMA WithoutKeeps ==
    ASSUME pending \in Seq(Waiting), Once(pending), NEW a \in Addrs
    PROVE  /\ Without(a) \in Seq(Waiting) /\ Once(Without(a))
           /\ \A i \in DOMAIN Without(a) : Without(a)[i].addr # a
<1>1. CASE Unqueued(a)
      BY <1>1 DEF Without, Unqueued
<1>2. CASE ~Unqueued(a)
  <2> DEFINE q == Without(a)
             n == Len(pending)
  <2>1. PICK k \in DOMAIN pending :
            /\ pending[k].addr = a
            /\ q = SubSeq(pending, 1, k - 1) \o SubSeq(pending, k + 1, n)
        BY <1>2 DEF Without, Unqueued
  <2>2. n \in Nat /\ k \in 1..n /\ DOMAIN pending = 1..n
        OBVIOUS
  <2> DEFINE l == SubSeq(pending, 1, k - 1)
             r == SubSeq(pending, k + 1, n)
  <2>3. l \in Seq(Waiting) /\ Len(l) = k - 1 /\ \A i \in 1..(k - 1) : l[i] = pending[i]
        BY <2>2
  <2>4. r \in Seq(Waiting) /\ Len(r) = n - k /\ \A i \in 1..(n - k) : r[i] = pending[k + i]
        BY <2>2
  <2> HIDE DEF l, r, n, q
  <2>5. q \in Seq(Waiting) /\ Len(q) = n - 1 /\ DOMAIN q = 1..(n - 1)
    <3>1. q = l \o r
          BY <2>1 DEF l, r
    <3>2. q \in Seq(Waiting) /\ Len(q) = Len(l) + Len(r)
          BY <2>3, <2>4, <3>1
    <3>3. QED BY <2>2, <2>3, <2>4, <3>2
  <2> DEFINE at(i) == IF i < k THEN i ELSE i + 1
  <2>6. ASSUME NEW i \in 1..(n - 1)
        PROVE  at(i) \in 1..n /\ at(i) # k /\ q[i] = pending[at(i)]
    <3>1. q = l \o r
          BY <2>1 DEF l, r
    <3>2. CASE i < k
      <4>1. i \in 1..(k - 1)
            BY <2>2, <3>2
      <4>2. q[i] = l[i]
            BY <2>2, <2>3, <2>4, <3>1, <4>1
      <4>3. QED BY <2>2, <2>3, <3>2, <4>1, <4>2
    <3>3. CASE ~(i < k)
      <4>1. i - (k - 1) \in 1..(n - k) /\ i > k - 1 /\ i <= (k - 1) + (n - k)
            BY <2>2, <3>3
      <4>2. q[i] = r[i - (k - 1)]
        <5>1. \A m \in 1..(Len(l) + Len(r)) :
                  (l \o r)[m] = IF m <= Len(l) THEN l[m] ELSE r[m - Len(l)]
              BY <2>3, <2>4, ConcatProperties
        <5>2. i \in 1..(Len(l) + Len(r)) /\ ~(i <= Len(l))
              BY <2>2, <2>3, <2>4, <4>1
        <5>3. (l \o r)[i] = r[i - Len(l)]
              BY <5>1, <5>2
        <5>4. QED BY <2>3, <3>1, <5>3
      <4>3. k + (i - (k - 1)) = i + 1
            BY <2>2
      <4>4. q[i] = pending[i + 1]
            BY <2>4, <4>1, <4>2, <4>3
      <4>5. QED BY <2>2, <3>3, <4>4
    <3>4. QED BY <3>2, <3>3
  <2>7. \A i \in DOMAIN q : q[i].addr # a
    <3> SUFFICES ASSUME NEW i \in 1..(n - 1), q[i].addr = a PROVE FALSE
        BY <2>5
    <3>1. at(i) \in DOMAIN pending /\ at(i) # k /\ pending[at(i)].addr = a
          BY <2>2, <2>6
    <3> HIDE DEF at
    <3>2. QED BY <2>1, <3>1 DEF Once
  <2>8. Once(q)
    <3> SUFFICES ASSUME NEW i \in 1..(n - 1), NEW j \in 1..(n - 1), q[i].addr = q[j].addr
                 PROVE  i = j
        BY <2>5 DEF Once
    <3>1. at(i) = at(j)
      <4>1. /\ at(i) \in DOMAIN pending /\ at(j) \in DOMAIN pending
            /\ pending[at(i)].addr = pending[at(j)].addr
            BY <2>2, <2>6
      <4> HIDE DEF at
      <4>2. QED BY <4>1 DEF Once
    <3>2. QED BY <2>2, <3>1
  <2>9. QED BY <2>5, <2>7, <2>8 DEF q
<1>3. QED BY <1>1, <1>2

(* try_connect_pending leaves a ring without repetitions, and adb's list typed.  *)
LEMMA TryConnectKeeps ==
    ASSUME TypeOK, Once(pending), TryConnect
    PROVE  /\ pending' \in Seq(Waiting) /\ Once(pending')
           /\ wired' \in [Addrs -> AdbStates]
<1>0. pending \in Seq(Waiting) /\ wired \in [Addrs -> AdbStates]
      BY DEF TypeOK, Waiting
<1>1. CASE pending = <<>>
      BY <1>0, <1>1 DEF TryConnect
<1>2. CASE pending # <<>>
  <2> DEFINE e == Head(pending)
             t == Tail(pending)
             b == [e EXCEPT !.attempts = @ + 1]
             n == Len(pending)
  <2>1. e \in Waiting /\ e = pending[1] /\ n \in Nat \ {0} /\ DOMAIN pending = 1..n
        BY <1>0, <1>2
  <2>2. t \in Seq(Waiting) /\ Len(t) = n - 1 /\ \A i \in 1..(n - 1) : t[i] = pending[i + 1]
        BY <1>0, <1>2
  <2>3. b \in Waiting /\ b.addr = e.addr
        BY <2>1 DEF Waiting
  <2>4. /\ pending' = t \/ pending' = Append(t, b)
        /\ wired' = wired \/ wired' = AdbConnected(e.addr)
        BY <1>2 DEF TryConnect, Tried
  <2>5. wired' \in [Addrs -> AdbStates]
        BY <1>0, <2>4 DEF AdbConnected, AdbStates
  <2> HIDE DEF e, b, t, n
  <2>6. Once(t)
    <3> SUFFICES ASSUME NEW i \in 1..(n - 1), NEW j \in 1..(n - 1), t[i].addr = t[j].addr
                 PROVE  i = j
        BY <2>1, <2>2 DEF Once
    <3>1. /\ i + 1 \in DOMAIN pending /\ j + 1 \in DOMAIN pending
          /\ pending[i + 1].addr = pending[j + 1].addr
          BY <2>1, <2>2
    <3>2. i + 1 = j + 1
          BY <3>1 DEF Once
    <3>3. QED BY <2>1, <3>2
  <2>7. \A i \in DOMAIN t : t[i].addr # e.addr
    <3> SUFFICES ASSUME NEW i \in 1..(n - 1), t[i].addr = e.addr PROVE FALSE
        BY <2>1, <2>2
    <3>1. i + 1 \in DOMAIN pending /\ 1 \in DOMAIN pending /\ pending[i + 1].addr = pending[1].addr
          BY <2>1, <2>2
    <3>2. i + 1 = 1
          BY <3>1 DEF Once
    <3>3. QED BY <2>1, <3>2
  <2>8. Append(t, b) \in Seq(Waiting) /\ Once(Append(t, b))
    <3> DEFINE q == Append(t, b)
    <3>1. /\ q \in Seq(Waiting) /\ DOMAIN q = 1..n /\ q[n] = b
          /\ \A i \in 1..(n - 1) : i \in DOMAIN t /\ q[i] = t[i]
          BY <2>1, <2>2, <2>3
    <3> HIDE DEF q
    <3>2. ASSUME NEW i \in 1..n, NEW j \in 1..n, q[i].addr = q[j].addr
          PROVE  i = j
      <4>1. CASE i = n /\ j = n
            BY <4>1
      <4>2. CASE i = n /\ j # n
            BY <2>1, <2>3, <2>7, <3>1, <3>2, <4>2
      <4>3. CASE i # n /\ j = n
            BY <2>1, <2>3, <2>7, <3>1, <3>2, <4>3
      <4>4. CASE i # n /\ j # n
            BY <2>1, <2>6, <3>1, <3>2, <4>4 DEF Once
      <4>5. QED BY <4>1, <4>2, <4>3, <4>4
    <3>3. QED BY <3>1, <3>2 DEF Once, q
  <2>9. QED BY <2>2, <2>4, <2>5, <2>6, <2>8
<1>3. QED BY <1>1, <1>2

LEMMA EnqueueOnce ==
    ASSUME TypeOK, Once(pending), NEW a \in Addrs, Enqueue(a)
    PROVE  Once(pending')
<1> DEFINE b == [addr |-> a, attempts |-> 0]
           n == Len(pending)
<1>1. pending \in Seq(Waiting) /\ b \in Waiting /\ b.addr = a /\ n \in Nat
      BY DEF TypeOK, Waiting
<1>2. pending' = Append(pending, b) /\ \A i \in DOMAIN pending : pending[i].addr # a
      BY DEF Enqueue, Unqueued
<1> HIDE DEF b
<1>3. /\ DOMAIN pending' = 1..(n + 1) /\ pending'[n + 1] = b
      /\ \A i \in 1..n : i \in DOMAIN pending /\ pending'[i] = pending[i]
      BY <1>1, <1>2
<1> HIDE DEF n
<1>4. ASSUME NEW i \in 1..(n + 1), NEW j \in 1..(n + 1), pending'[i].addr = pending'[j].addr
      PROVE  i = j
  <2>1. CASE i = n + 1 /\ j = n + 1
        BY <2>1
  <2>2. CASE i = n + 1 /\ j # n + 1
        BY <1>1, <1>2, <1>3, <1>4, <2>2
  <2>3. CASE i # n + 1 /\ j = n + 1
        BY <1>1, <1>2, <1>3, <1>4, <2>3
  <2>4. CASE i # n + 1 /\ j # n + 1
        BY <1>1, <1>3, <1>4, <2>4 DEF Once
  <2>5. QED BY <2>1, <2>2, <2>3, <2>4
<1>5. QED BY <1>3, <1>4 DEF Once

(* No step puts an address into the ring that is there. *)
LEMMA RingOnce ==
    ASSUME TypeOK, Once(pending), [Next]_vars
    PROVE  Once(pending)'
<1>0. pending \in Seq(Waiting)
      BY DEF TypeOK, Waiting
<1>1. CASE UNCHANGED pending
      BY <1>1 DEF Once
<1>2. CASE \E a \in Addrs : Enqueue(a)
      BY <1>2, EnqueueOnce
<1>3. CASE \E a \in Addrs : pending' = Without(a)
      BY <1>0, <1>3, WithoutKeeps
<1>4. CASE TryConnect
      BY <1>4, TryConnectKeeps
<1>5. CASE Environment
      BY <1>1, <1>5 DEF Environment, Rewire, MoveAddress, TrackFrame, registry
<1>6. CASE SessionSteps
      BY <1>1, <1>6 DEF SessionSteps, Deploys, DeployFails, Resolve, Connects, ConnectFails,
         RunEnds, ServerExits, SessionUnchanged, registry
<1>7. CASE Commands
  <2>1. ASSUME NEW a \in Addrs, CmdConnect(a) \/ MdnsConnect(a)
        PROVE  Once(pending)'
        BY <1>2, <2>1 DEF CmdConnect, MdnsConnect
  <2>2. ASSUME NEW a \in Addrs, CmdDisconnect(a)
        PROVE  Once(pending)'
        BY <1>3, <2>2 DEF CmdDisconnect
  <2>3. ASSUME NEW a \in Addrs, CmdStart(a)
        PROVE  Once(pending)'
        BY <1>1, <2>3 DEF CmdStart
  <2>4. ASSUME NEW u \in DOMAIN devices, CmdRetry(u)
        PROVE  Once(pending)'
        BY <1>1, <2>4 DEF CmdRetry, registry
  <2>5. CASE CmdRestartAll \/ Quit
        BY <1>1, <2>5 DEF CmdRestartAll, Quit, registry
  <2>6. QED BY <1>7, <2>1, <2>2, <2>3, <2>4, <2>5 DEF Commands
<1>8. CASE TickBegin
      BY <1>1, <1>8 DEF TickBegin, registry
<1>9. CASE HandlerSteps
  <2>1. ASSUME NEW a \in Addrs, TickInsert(a)
        PROVE  Once(pending)'
        BY <1>3, <2>1 DEF TickInsert
  <2>2. CASE TickRing
        BY <1>4, <2>2 DEF TickRing
  <2>3. ASSUME NEW u \in DOMAIN devices, TakeHandle(u)
        PROVE  Once(pending)'
        BY <1>1, <2>3 DEF TakeHandle
  <2>4. CASE StopDone \/ StopTimeout \/ HandlerEnds
        BY <1>1, <2>4 DEF StopDone, StopTimeout, HandlerEnds, registry
  <2>5. ASSUME NEW w \in core.starts, Start(w)
        PROVE  Once(pending)'
        BY <1>1, <2>5 DEF Start
  <2>6. QED BY <1>9, <2>1, <2>2, <2>3, <2>4, <2>5 DEF HandlerSteps
<1>10. CASE UNCHANGED vars
      BY <1>1, <1>10 DEF vars, registry
<1>11. QED BY <1>5, <1>6, <1>7, <1>8, <1>9, <1>10 DEF Next

-----------------------------------------------------------------------------
(* The commands and the tick.                                                *)

(* What is asked of an entry, of the entries there are. *)
LEMMA WantType ==
    ASSUME CoreInv, NEW u \in DOMAIN devices, NEW recheck \in BOOLEAN
    PROVE  Want(u, recheck) \in [uuid : DOMAIN devices, serial : Addrs, recheck : BOOLEAN]
BY EntryFields DEF Want

LEMMA CommandBegins ==
    ASSUME CoreInv, Idle, UNCHANGED <<devices, sess, world>>,
           pending' \in Seq(Waiting),
           NEW stops \in SUBSET DOMAIN devices,
           NEW starts \in SUBSET [uuid : DOMAIN devices, serial : Addrs, recheck : BOOLEAN],
           Stopping(stops, starts)
    PROVE  CoreInv'
<1>1. /\ core' \in CoreRec(DOMAIN devices) /\ core'.victim = 0
      /\ core'.at = "stop" /\ core'.why = "command"
      BY StoppingFields
<1>2. QED BY <1>1, HandlerBegins DEF world, Waiting

(* A command that names an address: the entries may grow first. *)
LEMMA CmdStartInv ==
    ASSUME CoreInv, NEW a \in Addrs, CmdStart(a)
    PROVE  CoreInv'
<1>1. /\ core.at = "idle" /\ core.victim = 0 /\ UNCHANGED <<wired, tracked, owner, pending, sess>>
      BY DEF CmdStart, Called, Idle, CoreInv, HandlerOK, world
<1>2. devices \in Seq(Entry) /\ sess \in Seq(Session)
      BY DEF CoreInv, TypeOK
<1>3. Grown(devices, devices')
  <2>1. CASE UNCHANGED devices
        BY <1>2, <2>1 DEF Grown
  <2>2. CASE \E id \in AskedIds(a) : devices' = Inserted(devices, a, id)
    <3>1. PICK id \in Ids : devices' = Inserted(devices, a, id)
          BY <2>2, AskedIdsType DEF CoreInv
    <3>2. QED BY <1>2, <3>1, InsertedGrows
  <2>3. QED BY <2>1, <2>2 DEF CmdStart
<1>4. /\ devices' \in Seq(Entry) /\ DOMAIN devices \subseteq DOMAIN devices'
      /\ \A v \in DOMAIN devices : devices'[v].session = devices[v].session
      /\ \A v \in DOMAIN devices' : v \notin DOMAIN devices => devices'[v].session = 0
      /\ Distinct(devices) => Distinct(devices')
      BY <1>2, <1>3 DEF Grown
<1>5. PICK u \in DOMAIN devices' :
          \/ UNCHANGED core
          \/ \E stops \in {{}, {u}} :
                Stopping(stops, {[uuid |-> u, serial |-> devices'[u].serial, recheck |-> FALSE]})
      BY DEF CmdStart
<1>6. /\ core' \in CoreRec(DOMAIN devices') /\ core'.victim = 0
      /\ core'.at \in {"idle", "stop"} /\ (core'.at = "stop" => core'.why = "command")
  <2>1. CASE UNCHANGED core
    <3>1. core' = core /\ core \in CoreRec(DOMAIN devices)
          BY <2>1, CoreFields
    <3>2. CoreRec(DOMAIN devices) \subseteq CoreRec(DOMAIN devices')
          BY <1>4 DEF CoreRec
    <3>3. QED BY <1>1, <3>1, <3>2
  <2>2. ASSUME NEW stops \in {{}, {u}},
               Stopping(stops, {[uuid |-> u, serial |-> devices'[u].serial, recheck |-> FALSE]})
        PROVE  /\ core' \in CoreRec(DOMAIN devices') /\ core'.victim = 0
               /\ core'.at = "stop" /\ core'.why = "command"
    <3>1. devices'[u] \in Entry
          BY <1>4
    <3>2. devices'[u].serial \in Addrs
          BY <3>1 DEF Entry
    <3>3. {[uuid |-> u, serial |-> devices'[u].serial, recheck |-> FALSE]}
            \in SUBSET [uuid : DOMAIN devices', serial : Addrs, recheck : BOOLEAN]
          BY <3>2
    <3>4. stops \in SUBSET DOMAIN devices'
          BY <2>2
    <3>5. QED BY <2>2, <3>3, <3>4, StoppingFields
  <2>3. QED BY <1>5, <2>1, <2>2
<1>7. TypeOK'
      BY <1>1, <1>4, <1>6 DEF CoreInv, TypeOK, CoreRec
<1>8. RegistryInv'
      BY <1>4 DEF CoreInv, RegistryInv, Distinct, Contains
<1>9. Linked'
  <2>1. \A v \in DOMAIN devices : devices[v].session \in 0..Len(sess)
        BY DEF CoreInv, Linked
  <2>2. Len(sess) \in Nat
        BY <1>2
  <2>3. QED BY <1>1, <1>4, <2>1, <2>2 DEF CoreInv, Linked
<1>10. HandlerOK' /\ QuitStops'
      BY <1>6 DEF HandlerOK, QuitStops, Off
<1>11. OneHolder'
      BY <1>4 DEF CoreInv, NoStray, OneHolder
<1>12. Held'
  <2> SUFFICES ASSUME NEW n \in DOMAIN sess, sess[n].task # "done"
               PROVE  devices'[sess[n].uuid].session = n
      BY <1>1 DEF Held
  <2>1. n # 0 /\ sess[n].uuid \in DOMAIN devices
        BY <1>2 DEF CoreInv, Linked
  <2>2. devices[sess[n].uuid].session = n
        BY <1>1, <2>1 DEF CoreInv, NoStray, Held
  <2>3. QED BY <1>4, <2>1, <2>2
<1>13. QED BY <1>7, <1>8, <1>9, <1>10, <1>11, <1>12 DEF CoreInv, NoStray

LEMMA CommandsInv ==
    ASSUME CoreInv, Once(pending), Commands
    PROVE  CoreInv'
<1>0. pending \in Seq(Waiting) /\ (\A a \in Addrs : Without(a) \in Seq(Waiting))
  <2>1. pending \in Seq(Waiting)
        BY DEF CoreInv, TypeOK, Waiting
  <2>2. QED BY <2>1, WithoutKeeps
<1>1. ASSUME NEW a \in Addrs, CmdConnect(a) \/ MdnsConnect(a)
      PROVE  CoreInv'
      BY <1>1, EnqueueInv DEF CmdConnect, MdnsConnect
<1>2. ASSUME NEW a \in Addrs, CmdDisconnect(a)
      PROVE  CoreInv'
  <2>1. /\ Idle /\ UNCHANGED <<devices, sess, world>> /\ pending' \in Seq(Waiting)
        BY <1>0, <1>2 DEF CmdDisconnect, Called
  <2>2. \/ UNCHANGED core
        \/ \E u \in DOMAIN devices : Stopping({u}, {})
        BY <1>2 DEF CmdDisconnect
  <2>3. CASE UNCHANGED core
        BY <2>1, <2>3, OutsideStep DEF world, Waiting, CoreInv, TypeOK
  <2>4. ASSUME NEW u \in DOMAIN devices, Stopping({u}, {})
        PROVE  CoreInv'
        BY <2>1, <2>4, CommandBegins
  <2>5. QED BY <2>2, <2>3, <2>4
<1>3. ASSUME NEW u \in DOMAIN devices, CmdRetry(u)
      PROVE  CoreInv'
  <2>1. /\ Idle /\ UNCHANGED <<devices, sess, world, pending>> /\ Stopping({u}, {Want(u, TRUE)})
        BY <1>3 DEF CmdRetry, Called, registry
  <2>2. {Want(u, TRUE)} \in SUBSET [uuid : DOMAIN devices, serial : Addrs, recheck : BOOLEAN]
        BY WantType
  <2>3. {u} \in SUBSET DOMAIN devices /\ pending' \in Seq(Waiting)
        BY <1>0, <2>1
  <2>4. QED BY <2>1, <2>2, <2>3, CommandBegins
<1>4. CASE CmdRestartAll
  <2> DEFINE needs == {u \in DOMAIN devices :
                         devices[u].session # 0 /\ sess[devices[u].session].state # "running"}
             starts == {Want(u, FALSE) : u \in needs}
  <2>1. /\ Idle /\ UNCHANGED <<devices, sess, world, pending>> /\ Stopping(needs, starts)
        BY <1>4 DEF CmdRestartAll, Called, registry
  <2>2. starts \in SUBSET [uuid : DOMAIN devices, serial : Addrs, recheck : BOOLEAN]
        BY WantType
  <2>3. needs \in SUBSET DOMAIN devices /\ pending' \in Seq(Waiting)
        BY <1>0, <2>1
  <2> HIDE DEF needs, starts
  <2>4. QED BY <2>1, <2>2, <2>3, CommandBegins
<1>5. CASE Quit
  <2>1. /\ Idle /\ UNCHANGED <<devices, sess, wired, tracked, owner, pending>>
        /\ core' = [at |-> "stop", why |-> "quit", online |-> {}, todo |-> {},
                    stops |-> AllHeld, victim |-> 0, starts |-> {}]
        BY <1>5 DEF Quit, Rest, registry, world
  <2>2. AllHeld \subseteq DOMAIN devices
        BY DEF AllHeld
  <2>3. core' \in CoreRec(DOMAIN devices)
        BY <2>1, <2>2 DEF CoreRec
  <2>4. core'.victim = 0 /\ core'.at = "stop" /\ core'.starts = {} /\ core'.stops = AllHeld
        BY <2>1
  <2>5. QED BY <1>0, <2>1, <2>3, <2>4, HandlerBegins DEF Waiting
<1>6. QED BY <1>1, <1>2, <1>3, <1>4, <1>5, CmdStartInv DEF Commands

LEMMA TickBeginInv ==
    ASSUME CoreInv, TickBegin
    PROVE  CoreInv'
<1> DEFINE online == {a \in Addrs : tracked[a] = "device"}
<1>1. /\ Idle /\ UNCHANGED <<devices, sess, wired, tracked, owner, pending>>
      /\ core' = [at |-> "insert", why |-> "tick", online |-> online, todo |-> online,
                  stops |-> {}, victim |-> 0, starts |-> {}]
      BY DEF TickBegin, Rest, registry, world
<1>2. core' \in CoreRec(DOMAIN devices)
      BY <1>1 DEF CoreRec
<1>3. core'.victim = 0 /\ core'.at = "insert" /\ core'.why = "tick"
      BY <1>1
<1>4. pending' \in Seq([addr : Addrs, attempts : Nat])
      BY <1>1 DEF CoreInv, TypeOK
<1>5. QED BY <1>1, <1>2, <1>3, <1>4, HandlerBegins

LEMMA TickInsertInv ==
    ASSUME CoreInv, Once(pending), NEW a \in Addrs, TickInsert(a)
    PROVE  CoreInv'
<1>1. /\ core.at = "insert" /\ core.victim = 0 /\ UNCHANGED <<wired, tracked, owner, sess>>
      /\ core' = [core EXCEPT !.todo = @ \ {a}] /\ pending' = Without(a)
      BY DEF TickInsert, CoreInv, HandlerOK, world
<1>2. devices \in Seq(Entry) /\ sess \in Seq(Session)
      BY DEF CoreInv, TypeOK
<1>3. pending' \in Seq([addr : Addrs, attempts : Nat])
      BY <1>1, WithoutKeeps DEF CoreInv, TypeOK, Waiting
<1>4. Grown(devices, devices')
  <2>1. PICK id \in Ids : devices' = Inserted(devices, a, id)
        BY AskedIdsType DEF TickInsert, CoreInv
  <2>2. QED BY <1>2, <2>1, InsertedGrows
<1>5. /\ devices' \in Seq(Entry) /\ DOMAIN devices \subseteq DOMAIN devices'
      /\ \A v \in DOMAIN devices : devices'[v].session = devices[v].session
      /\ \A v \in DOMAIN devices' : v \notin DOMAIN devices => devices'[v].session = 0
      /\ Distinct(devices) => Distinct(devices')
      BY <1>2, <1>4 DEF Grown
<1>6. /\ core' \in CoreRec(DOMAIN devices') /\ core'.victim = 0
      /\ core'.at = "insert" /\ core'.why = core.why
  <2>1. CoreRec(DOMAIN devices) \subseteq CoreRec(DOMAIN devices')
        BY <1>5 DEF CoreRec
  <2>2. core' \in CoreRec(DOMAIN devices)
        BY <1>1, CoreFields DEF CoreRec
  <2>3. QED BY <1>1, <2>1, <2>2, CoreFields
<1>7. TypeOK'
      BY <1>1, <1>3, <1>5, <1>6 DEF CoreInv, TypeOK, CoreRec
<1>8. RegistryInv'
      BY <1>5 DEF CoreInv, RegistryInv, Distinct, Contains
<1>9. Linked'
  <2>1. \A v \in DOMAIN devices : devices[v].session \in 0..Len(sess)
        BY DEF CoreInv, Linked
  <2>2. Len(sess) \in Nat
        BY <1>2
  <2>3. QED BY <1>1, <1>5, <2>1, <2>2 DEF CoreInv, Linked
<1>10. HandlerOK' /\ QuitStops'
      BY <1>1, <1>6 DEF CoreInv, HandlerOK, QuitStops, Off
<1>11. OneHolder'
      BY <1>5 DEF CoreInv, NoStray, OneHolder
<1>12. Held'
  <2> SUFFICES ASSUME NEW n \in DOMAIN sess, sess[n].task # "done"
               PROVE  devices'[sess[n].uuid].session = n
      BY <1>1 DEF Held
  <2>1. n # 0 /\ sess[n].uuid \in DOMAIN devices
        BY <1>2 DEF CoreInv, Linked
  <2>2. devices[sess[n].uuid].session = n
        BY <1>1, <2>1 DEF CoreInv, NoStray, Held
  <2>3. QED BY <1>5, <2>1, <2>2
<1>13. QED BY <1>7, <1>8, <1>9, <1>10, <1>11, <1>12 DEF CoreInv, NoStray

LEMMA TickRingInv ==
    ASSUME CoreInv, Once(pending), TickRing
    PROVE  CoreInv'
<1>1. /\ core.at = "insert" /\ core.victim = 0 /\ core.why = "tick"
      /\ UNCHANGED <<owner, tracked, devices>>
      /\ sess' = [n \in DOMAIN sess |-> Marked(n)]
      /\ core' = [core EXCEPT !.at = "stop", !.online = {}, !.stops = Disconnected]
      BY DEF TickRing, CoreInv, HandlerOK
<1>2. pending' \in Seq([addr : Addrs, attempts : Nat]) /\ wired' \in [Addrs -> AdbStates]
      BY TryConnectKeeps DEF TickRing, CoreInv, Waiting
<1>3. SessionsKept
  <2>1. sess \in Seq(Session)
        BY DEF CoreInv, TypeOK
  <2>2. ASSUME NEW n \in DOMAIN sess
        PROVE  Marked(n) \in Session /\ Marked(n).uuid = sess[n].uuid /\ Marked(n).task = sess[n].task
    <3>1. sess[n] \in Session
          BY <2>1
    <3>2. QED BY <3>1 DEF Marked, Session
  <2>3. sess' \in Seq(Session) /\ DOMAIN sess' = DOMAIN sess
    <3>1. DOMAIN sess = 1..Len(sess) /\ Len(sess) \in Nat
          BY <2>1
    <3>2. sess' \in [1..Len(sess) -> Session]
          BY <1>1, <2>2, <3>1
    <3>3. QED BY <3>1, <3>2, IsASeq
  <2>4. \A n \in DOMAIN sess : sess'[n] = Marked(n)
        BY <1>1
  <2>5. QED BY <2>2, <2>3, <2>4 DEF SessionsKept
<1>4. Disconnected \subseteq DOMAIN devices
      BY DEF Disconnected
<1>5. /\ core' \in CoreRec(DOMAIN devices) /\ core'.victim = 0
      /\ core'.at = "stop" /\ core'.why = "tick"
      BY <1>1, <1>4, CoreFields DEF CoreRec
<1>6. TypeOK'
      BY <1>1, <1>2, <1>3, <1>5 DEF CoreInv, TypeOK, CoreRec, SessionsKept
<1>7. RegistryInv' /\ OneHolder'
      BY <1>1 DEF CoreInv, RegistryInv, Contains, NoStray, OneHolder
<1>8. Linked'
  <2>1. Len(sess') = Len(sess)
        BY <1>3 DEF CoreInv, TypeOK, SessionsKept
  <2>2. QED BY <1>1, <1>3, <2>1 DEF CoreInv, Linked, SessionsKept
<1>9. HandlerOK' /\ QuitStops'
      BY <1>5 DEF HandlerOK, QuitStops, Off
<1>10. Held'
      BY <1>1, <1>3, <1>5 DEF CoreInv, NoStray, Held, SessionsKept
<1>11. QED BY <1>6, <1>7, <1>8, <1>9, <1>10 DEF CoreInv, NoStray

LEMMA HandlerEndsInv ==
    ASSUME CoreInv, HandlerEnds
    PROVE  CoreInv'
<1>1. /\ core.at = "stop" /\ core.victim = 0 /\ core.stops = {}
      /\ UNCHANGED <<wired, tracked, owner, pending, devices, sess>>
      /\ core' = IF core.why = "quit" THEN [Rest EXCEPT !.at = "off"] ELSE Rest
      BY DEF HandlerEnds, Stopped, world, registry
<1>2. /\ core' \in CoreRec(DOMAIN devices) /\ core'.victim = 0
      /\ core'.at \in {"idle", "off"} /\ (core'.at = "off" => core.why = "quit")
      BY <1>1 DEF Rest, CoreRec
<1>3. TypeOK'
      BY <1>1, <1>2 DEF CoreInv, TypeOK, CoreRec
<1>4. RegistryInv' /\ Linked' /\ OneHolder'
      BY <1>1 DEF CoreInv, RegistryInv, Contains, Linked, NoStray, OneHolder
<1>5. HandlerOK'
      BY <1>2 DEF HandlerOK
<1>6. QuitStops'
      BY <1>1, <1>2 DEF CoreInv, HandlerOK, QuitStops, Off
<1>7. Held'
      BY <1>1, <1>2 DEF CoreInv, NoStray, Held
<1>8. QED BY <1>3, <1>4, <1>5, <1>6, <1>7 DEF CoreInv, NoStray

-----------------------------------------------------------------------------
(* What becomes of a session, and whose it is.                              *)

(* A failed session's task has ended. *)
FailedEnded == \A n \in DOMAIN sess : sess[n].state = "failed" => sess[n].task = "done"

(* What a step may make of a session: no end is taken back. *)
Fate(s, t) ==
    /\ t.uuid = s.uuid
    /\ s.task = "done" => t.task = "done"
    /\ s.state = "failed" => t.state = "failed"
    /\ t.state = "failed" => t.task = "done"

Fated ==
    /\ \A n \in DOMAIN sess : n \in DOMAIN sess' /\ Fate(sess[n], sess'[n])
    /\ \A n \in DOMAIN sess' : n \notin DOMAIN sess => sess'[n].state # "failed"

(* An entry holds sessions of its own alone, and while the end of one is waited   *)
(* for, its entry holds none.                                                  *)
Owned ==
    /\ \A u \in DOMAIN devices :
         devices[u].session # 0 => sess[devices[u].session].uuid = u
    /\ core.victim # 0 =>
         core.victim \in DOMAIN sess /\ devices[sess[core.victim].uuid].session = 0

(* What most steps do to the handles: nothing, but a wait may end. *)
HandlesKept ==
    /\ DOMAIN devices \subseteq DOMAIN devices'
    /\ \A u \in DOMAIN devices : devices'[u].session = devices[u].session
    /\ \A u \in DOMAIN devices' : u \notin DOMAIN devices => devices'[u].session = 0
    /\ core'.victim \in {0, core.victim}

LEMMA BecomeFated ==
    ASSUME CoreInv, FailedEnded, NEW n \in DOMAIN sess, NEW r, Become(n, r), Fate(sess[n], r)
    PROVE  Fated
<1>1. DOMAIN sess' = DOMAIN sess /\ sess'[n] = r
      BY DEF Become
<1>2. \A m \in DOMAIN sess : m # n => sess'[m] = sess[m]
      BY DEF Become
<1>3. \A m \in DOMAIN sess : m # n => Fate(sess[m], sess'[m])
      BY <1>2 DEF Fate, FailedEnded
<1>4. QED BY <1>1, <1>3 DEF Fated

LEMMA KilledFate ==
    ASSUME NEW s \in Session
    PROVE  Killed(s).state = s.state /\ Killed(s).task = s.task /\ Killed(s).uuid = s.uuid
BY DEF Killed, Session

LEMMA GiveUpFate ==
    ASSUME NEW s \in Session
    PROVE  Fate(s, GiveUp(s))
<1> DEFINE t == [s EXCEPT !.thread = "idle", !.task = "done", !.state = "failed"]
<1>1. t \in Session /\ t.state = "failed" /\ t.task = "done" /\ t.uuid = s.uuid
      BY DEF Session
<1> HIDE DEF t
<1>2. QED BY <1>1, KilledFate DEF Fate, GiveUp, t

(* The steps of a session's task, of its thread and of its server. *)
LEMMA SessionStepsFated ==
    ASSUME CoreInv, FailedEnded, SessionSteps
    PROVE  Fated /\ UNCHANGED <<devices, core>>
<1> PICK n \in DOMAIN sess :
        \/ \E server \in {"up", "down"} : Deploys(n, server)
        \/ DeployFails(n) \/ Resolve(n) \/ Connects(n) \/ ConnectFails(n) \/ RunEnds(n)
        \/ ServerExits(n)
    BY DEF SessionSteps
<1> DEFINE s == sess[n]
<1>0. s \in Session /\ (s.state = "failed" => s.task = "done")
      BY DEF CoreInv, TypeOK, FailedEnded
<1>1. UNCHANGED <<devices, core>>
      BY DEF Deploys, DeployFails, Resolve, Connects, ConnectFails, RunEnds, ServerExits,
             SessionUnchanged, registry
<1>2. PICK r : Become(n, r) /\ Fate(s, r)
  <2>1. ASSUME NEW server \in {"up", "down"}, Deploys(n, server)
        PROVE  \E r : Become(n, r) /\ Fate(s, r)
    <3> DEFINE r == [s EXCEPT !.server = server, !.phone = owner[s.serial], !.thread = "idle",
                              !.task = IF @ = "deploy" THEN "resolve" ELSE @]
    <3>1. Fate(s, r)
          BY <1>0 DEF Session, Fate
    <3>2. Become(n, r)
          BY <2>1 DEF Deploys
    <3>3. QED BY <3>1, <3>2
  <2>2. CASE DeployFails(n)
    <3> DEFINE r == IF s.task = "done" THEN [s EXCEPT !.thread = "idle"]
                    ELSE [s EXCEPT !.thread = "idle", !.task = "done", !.state = "failed"]
    <3>1. Fate(s, r)
          BY <1>0 DEF Session, Fate
    <3>2. Become(n, r)
          BY <2>2 DEF DeployFails
    <3>3. QED BY <3>1, <3>2
  <2>3. CASE Resolve(n)
    <3> DEFINE r == [s EXCEPT !.task = "connect", !.thread = "connect"]
    <3>1. s.task = "resolve" /\ (Become(n, r) \/ Become(n, GiveUp(s)))
          BY <2>3 DEF Resolve
    <3>2. Fate(s, r)
          BY <1>0, <3>1 DEF Session, Fate
    <3>3. QED BY <1>0, <3>1, <3>2, GiveUpFate
  <2>4. CASE Connects(n)
    <3> DEFINE r == IF s.task = "done" THEN [s EXCEPT !.thread = "idle"]
                    ELSE [s EXCEPT !.thread = "idle", !.task = "run", !.state = "running"]
    <3>1. Fate(s, r)
          BY <1>0 DEF Session, Fate
    <3>2. Become(n, r)
          BY <2>4 DEF Connects
    <3>3. QED BY <3>1, <3>2
  <2>5. CASE ConnectFails(n)
    <3>1. CASE s.task = "done"
      <4>1. Fate(s, [s EXCEPT !.thread = "idle"])
            BY <1>0 DEF Session, Fate
      <4>2. Become(n, [s EXCEPT !.thread = "idle"])
            BY <2>5, <3>1 DEF ConnectFails
      <4>3. QED BY <4>1, <4>2
    <3>2. CASE s.task # "done"
      <4>1. Become(n, GiveUp(s))
            BY <2>5, <3>2 DEF ConnectFails
      <4>2. QED BY <1>0, <4>1, GiveUpFate
    <3>3. QED BY <3>1, <3>2
  <2>6. CASE RunEnds(n)
    <3>1. Fate(s, [s EXCEPT !.task = "done"])
          BY <1>0 DEF Session, Fate
    <3>2. Become(n, [s EXCEPT !.task = "done"])
          BY <2>6 DEF RunEnds
    <3>3. QED BY <3>1, <3>2
  <2>7. CASE ServerExits(n)
    <3>1. Fate(s, [s EXCEPT !.server = "down"])
          BY <1>0 DEF Session, Fate
    <3>2. Become(n, [s EXCEPT !.server = "down"])
          BY <2>7 DEF ServerExits
    <3>3. QED BY <3>1, <3>2
  <2>8. QED BY <2>1, <2>2, <2>3, <2>4, <2>5, <2>6, <2>7
<1>3. QED BY <1>1, <1>2, BecomeFated

LEMMA UnchangedFated ==
    ASSUME FailedEnded, UNCHANGED sess
    PROVE  Fated
BY DEF Fated, Fate, FailedEnded

(* The core's own steps: an abort ends a task, a tick marks what has ended. *)
LEMMA TimeoutFated ==
    ASSUME CoreInv, FailedEnded, Owned, StopTimeout
    PROVE  Fated
<1> DEFINE n == core.victim
           t == [sess[n] EXCEPT !.task = "done"]
<1>1. n \in DOMAIN sess /\ Become(n, Aborted(sess[n]))
      BY DEF StopTimeout, Owned
<1>2. sess[n] \in Session /\ (sess[n].state = "failed" => sess[n].task = "done")
      BY <1>1 DEF CoreInv, TypeOK, FailedEnded
<1>3. t \in Session /\ t.uuid = sess[n].uuid /\ t.task = "done" /\ t.state = sess[n].state
      BY <1>2 DEF Session
<1> HIDE DEF t, n
<1>4. Fate(sess[n], Aborted(sess[n]))
      BY <1>2, <1>3, KilledFate DEF Fate, Aborted, t
<1>5. QED BY <1>1, <1>4, BecomeFated

LEMMA RingFated ==
    ASSUME CoreInv, FailedEnded, TickRing
    PROVE  Fated
<1>1. sess' = [n \in DOMAIN sess |-> Marked(n)]
      BY DEF TickRing
<1>2. ASSUME NEW n \in DOMAIN sess
      PROVE  Fate(sess[n], Marked(n))
  <2>1. sess[n] \in Session /\ (sess[n].state = "failed" => sess[n].task = "done")
        BY DEF CoreInv, TypeOK, FailedEnded
  <2>2. QED BY <2>1 DEF Marked, Session, Fate
<1>3. QED BY <1>1, <1>2 DEF Fated

LEMMA StartFated ==
    ASSUME CoreInv, FailedEnded, NEW w \in core.starts, Start(w)
    PROVE  Fated
<1> DEFINE r == [uuid |-> w.uuid, serial |-> w.serial, phone |-> owner[w.serial],
                 task |-> "deploy", thread |-> "deploy", state |-> "connecting", server |-> "down"]
<1>1. UNCHANGED sess \/ sess' = Append(sess, r)
      BY DEF Start
<1>2. CASE sess' = Append(sess, r)
  <2>1. sess \in Seq(Session) /\ r.state # "failed"
        BY DEF CoreInv, TypeOK
  <2> HIDE DEF r
  <2>2. /\ DOMAIN sess' = 1..(Len(sess) + 1) /\ DOMAIN sess = 1..Len(sess)
        /\ sess'[Len(sess) + 1] = r /\ \A n \in 1..Len(sess) : sess'[n] = sess[n]
        BY <1>2, <2>1
  <2>3. Len(sess) \in Nat
        BY <2>1
  <2>4. \A n \in DOMAIN sess : n \in DOMAIN sess' /\ sess'[n] = sess[n]
        BY <2>2, <2>3
  <2>5. \A n \in DOMAIN sess' : n \notin DOMAIN sess => sess'[n] = r
        BY <2>2, <2>3
  <2>6. QED BY <2>1, <2>4, <2>5 DEF Fated, Fate, FailedEnded
<1>3. QED BY <1>1, <1>2, UnchangedFated

LEMMA StepsFated ==
    ASSUME CoreInv, FailedEnded, Owned, [Next]_vars
    PROVE  Fated
<1>1. CASE HandlerSteps
  <2>1. ASSUME NEW a \in Addrs, TickInsert(a) PROVE UNCHANGED sess
        BY <2>1 DEF TickInsert
  <2>2. ASSUME NEW u \in DOMAIN devices, TakeHandle(u) PROVE UNCHANGED sess
        BY <2>2 DEF TakeHandle
  <2>3. StopDone \/ HandlerEnds => UNCHANGED sess
        BY DEF StopDone, HandlerEnds
  <2>4. QED BY <1>1, <2>1, <2>2, <2>3, UnchangedFated, TimeoutFated, RingFated, StartFated
            DEF HandlerSteps
<1>2. CASE Commands
  <2>1. UNCHANGED sess
        BY <1>2 DEF Commands, CmdConnect, MdnsConnect, Enqueue, CmdDisconnect, CmdStart,
                    CmdRetry, CmdRestartAll, Quit
  <2>2. QED BY <2>1, UnchangedFated
<1>3. CASE Environment \/ TickBegin \/ UNCHANGED vars
  <2>1. UNCHANGED sess
        BY <1>3 DEF Environment, Rewire, MoveAddress, TrackFrame, TickBegin, vars
  <2>2. QED BY <2>1, UnchangedFated
<1>4. QED BY <1>1, <1>2, <1>3, SessionStepsFated DEF Next

(* The handles: most steps leave them alone. *)
LEMMA CommandsKeepHandles ==
    ASSUME CoreInv, Commands
    PROVE  HandlesKept
<1>1. core.victim = 0 /\ DOMAIN devices \subseteq Nat
  <2>1. Idle
        BY DEF Commands, CmdConnect, MdnsConnect, CmdDisconnect, CmdStart, CmdRetry,
               CmdRestartAll, Quit, Called
  <2>2. QED BY <2>1 DEF Idle, CoreInv, HandlerOK, TypeOK
<1>2. ASSUME NEW a \in Addrs, CmdStart(a)
      PROVE  HandlesKept
  <2>1. devices \in Seq(Entry)
        BY DEF CoreInv, TypeOK
  <2>2. Grown(devices, devices')
    <3>1. CASE UNCHANGED devices
          BY <2>1, <3>1 DEF Grown
    <3>2. CASE \E id \in AskedIds(a) : devices' = Inserted(devices, a, id)
      <4>1. PICK id \in Ids : devices' = Inserted(devices, a, id)
            BY <3>2, AskedIdsType DEF CoreInv
      <4>2. QED BY <2>1, <4>1, InsertedGrows
    <3>3. QED BY <1>2, <3>1, <3>2 DEF CmdStart
  <2>3. /\ DOMAIN devices \subseteq DOMAIN devices'
        /\ \A u \in DOMAIN devices : devices'[u].session = devices[u].session
        /\ \A u \in DOMAIN devices' : u \notin DOMAIN devices => devices'[u].session = 0
        BY <2>1, <2>2 DEF Grown
  <2>4. core'.victim = 0
        BY <1>1, <1>2 DEF CmdStart, Stopping, Rest
  <2>5. QED BY <2>3, <2>4 DEF HandlesKept
<1>3. CASE \/ \E a \in Addrs : CmdConnect(a) \/ MdnsConnect(a) \/ CmdDisconnect(a)
           \/ \E u \in DOMAIN devices : CmdRetry(u)
           \/ CmdRestartAll \/ Quit
  <2>1. UNCHANGED devices
        BY <1>3 DEF CmdConnect, MdnsConnect, Enqueue, CmdDisconnect, CmdRetry, CmdRestartAll,
                    Quit, registry
  <2>2. core'.victim = 0
        BY <1>1, <1>3 DEF CmdConnect, MdnsConnect, Enqueue, CmdDisconnect, CmdRetry,
                          CmdRestartAll, Quit, Stopping, Rest
  <2>3. QED BY <2>1, <2>2 DEF HandlesKept
<1>4. QED BY <1>2, <1>3 DEF Commands

LEMMA StepsKeepHandles ==
    ASSUME CoreInv, FailedEnded, [Next]_vars,
           ~ \E u \in DOMAIN devices : TakeHandle(u),
           ~ \E w \in core.starts : Start(w)
    PROVE  HandlesKept
<1>0. core.victim \in Nat /\ core = [at |-> core.at, why |-> core.why, online |-> core.online,
                                     todo |-> core.todo, stops |-> core.stops,
                                     victim |-> core.victim, starts |-> core.starts]
      BY CoreFields
<1>1. CASE HandlerSteps
  <2>1. ASSUME NEW a \in Addrs, TickInsert(a)
        PROVE  HandlesKept
    <3>1. devices \in Seq(Entry)
          BY DEF CoreInv, TypeOK
    <3>2. PICK id \in Ids : devices' = Inserted(devices, a, id)
          BY <2>1, AskedIdsType DEF TickInsert, CoreInv
    <3>3. Grown(devices, devices')
          BY <3>1, <3>2, InsertedGrows
    <3>4. core'.victim = core.victim
          BY <1>0, <2>1 DEF TickInsert
    <3>5. QED BY <3>1, <3>3, <3>4 DEF Grown, HandlesKept
  <2>2. CASE TickRing \/ StopDone \/ StopTimeout \/ HandlerEnds
    <3>1. UNCHANGED devices
          BY <2>2 DEF TickRing, StopDone, StopTimeout, HandlerEnds, registry
    <3>2. core'.victim \in {0, core.victim}
      <4>1. \/ core' = [core EXCEPT !.at = "stop", !.online = {}, !.stops = Disconnected]
            \/ core' = [core EXCEPT !.victim = 0]
            \/ core' = [Rest EXCEPT !.at = "off"]
            \/ core' = Rest
            BY <2>2 DEF TickRing, StopDone, StopTimeout, HandlerEnds
      <4>2. CASE core' = [core EXCEPT !.at = "stop", !.online = {}, !.stops = Disconnected]
            BY <1>0, <4>2
      <4>3. CASE core' = [core EXCEPT !.victim = 0]
            BY <1>0, <4>3
      <4>4. CASE core' = [Rest EXCEPT !.at = "off"] \/ core' = Rest
            BY <4>4 DEF Rest
      <4>5. QED BY <4>1, <4>2, <4>3, <4>4
    <3>3. QED BY <3>1, <3>2 DEF HandlesKept
  <2>3. QED BY <1>1, <2>1, <2>2 DEF HandlerSteps
<1>2. CASE SessionSteps
      BY <1>2, SessionStepsFated DEF HandlesKept
<1>3. CASE Environment \/ TickBegin \/ UNCHANGED vars
  <2>1. UNCHANGED devices /\ core'.victim \in {0, core.victim}
        BY <1>3 DEF Environment, Rewire, MoveAddress, TrackFrame, TickBegin, Rest, registry, vars
  <2>2. QED BY <2>1 DEF HandlesKept
<1>4. QED BY <1>1, <1>2, <1>3, CommandsKeepHandles DEF Next

LEMMA OwnedInv ==
    ASSUME CoreInv, FailedEnded, Owned, [Next]_vars
    PROVE  Owned'
<1>1. Fated
      BY StepsFated
<1>2. /\ \A n \in DOMAIN sess : sess[n].uuid \in DOMAIN devices
      /\ \A u \in DOMAIN devices : devices[u].session # 0 => devices[u].session \in DOMAIN sess
  <2>1. DOMAIN sess = 1..Len(sess) /\ Len(sess) \in Nat
        BY DEF CoreInv, TypeOK
  <2>2. QED BY <2>1 DEF CoreInv, Linked
<1>3. CASE HandlesKept
  <2>1. \A u \in DOMAIN devices' :
          devices'[u].session # 0 => u \in DOMAIN devices /\ devices'[u].session = devices[u].session
        BY <1>3 DEF HandlesKept
  <2>2. \A u \in DOMAIN devices' :
          devices'[u].session # 0 => sess'[devices'[u].session].uuid = u
        BY <1>1, <1>2, <2>1 DEF Fated, Fate, Owned
  <2>3. ASSUME core'.victim # 0
        PROVE  /\ core'.victim \in DOMAIN sess'
               /\ devices'[sess'[core'.victim].uuid].session = 0
    <3>1. core'.victim = core.victim /\ core.victim \in DOMAIN sess
          BY <1>3, <2>3 DEF HandlesKept, Owned
    <3>2. devices[sess[core.victim].uuid].session = 0
          BY <2>3, <3>1 DEF Owned
    <3>3. core.victim \in DOMAIN sess' /\ sess'[core.victim].uuid = sess[core.victim].uuid
          BY <1>1, <3>1 DEF Fated, Fate
    <3>4. QED BY <1>2, <1>3, <3>1, <3>2, <3>3 DEF HandlesKept
  <2>4. QED BY <2>2, <2>3 DEF Owned
<1>4. ASSUME NEW u \in DOMAIN devices, TakeHandle(u)
      PROVE  Owned'
  <2> DEFINE e == [devices[u] EXCEPT !.session = 0]
  <2>1. devices[u] \in Entry /\ devices \in Seq(Entry)
        BY DEF CoreInv, TypeOK
  <2>2. e.session = 0 /\ devices' = [devices EXCEPT ![u] = e]
        BY <1>4, <2>1 DEF TakeHandle, Entry
  <2> HIDE DEF e
  <2>3. DOMAIN devices' = DOMAIN devices /\ devices'[u].session = 0
        BY <2>2
  <2>4. \A v \in DOMAIN devices : v # u => devices'[v] = devices[v]
        BY <2>2
  <2>5. core'.victim = devices[u].session /\ UNCHANGED sess
        BY <1>4, CoreFields DEF TakeHandle
  <2>6. \A v \in DOMAIN devices' : devices'[v].session # 0 => sess'[devices'[v].session].uuid = v
        BY <2>3, <2>4, <2>5 DEF Owned
  <2>7. core'.victim # 0 => core'.victim \in DOMAIN sess' /\ sess'[core'.victim].uuid = u
        BY <1>2, <2>5 DEF Owned
  <2>8. QED BY <2>3, <2>6, <2>7 DEF Owned
<1>5. ASSUME NEW w \in core.starts, Start(w)
      PROVE  Owned'
  <2> DEFINE r == [uuid |-> w.uuid, serial |-> w.serial, phone |-> owner[w.serial],
                   task |-> "deploy", thread |-> "deploy", state |-> "connecting", server |-> "down"]
             m == Len(sess) + 1
             e == [devices[w.uuid] EXCEPT !.session = m]
  <2>1. core'.victim = 0
        BY <1>5, CoreFields DEF Start, Stopped
  <2>2. CASE UNCHANGED <<sess, devices>>
        BY <2>1, <2>2 DEF Owned
  <2>3. CASE sess' = Append(sess, r) /\ devices' = [devices EXCEPT ![w.uuid] = e]
    <3>1. /\ w.uuid \in DOMAIN devices /\ devices[w.uuid] \in Entry /\ Len(sess) \in Nat
          /\ sess \in Seq(Session)
          BY CoreFields DEF CoreInv, TypeOK
    <3>2. e.session = m /\ r.uuid = w.uuid
          BY <3>1 DEF Entry
    <3> HIDE DEF e, r
    <3>3. sess'[m] = r
          BY <2>3, <3>1
    <3>4. /\ DOMAIN devices' = DOMAIN devices /\ devices'[w.uuid].session = m
          /\ \A v \in DOMAIN devices : v # w.uuid => devices'[v] = devices[v]
          BY <2>3, <3>1, <3>2
    <3>5. \A v \in DOMAIN devices' : devices'[v].session # 0 => sess'[devices'[v].session].uuid = v
      <4> SUFFICES ASSUME NEW v \in DOMAIN devices', devices'[v].session # 0
                   PROVE  sess'[devices'[v].session].uuid = v
          OBVIOUS
      <4>1. CASE v = w.uuid
            BY <3>2, <3>3, <3>4, <4>1
      <4>2. CASE v # w.uuid
        <5>1. v \in DOMAIN devices /\ devices'[v].session = devices[v].session
              BY <3>4, <4>2
        <5>2. devices[v].session \in DOMAIN sess /\ sess[devices[v].session].uuid = v
              BY <1>2, <5>1 DEF Owned
        <5>3. QED BY <1>1, <5>1, <5>2 DEF Fated, Fate
      <4>3. QED BY <4>1, <4>2
    <3>6. QED BY <2>1, <3>5 DEF Owned
  <2>4. QED BY <1>5, <2>2, <2>3 DEF Start
<1>6. QED BY <1>3, <1>4, <1>5, StepsKeepHandles

-----------------------------------------------------------------------------
(* The theorems.                                                            *)

LEMMA InitInv ==
    ASSUME Init
    PROVE  CoreInv /\ Once(pending)
<1>1. TypeOK
      BY DEF Init, TypeOK, Rest, AdbStates
<1>2. RegistryInv /\ Linked /\ HandlerOK /\ NoStray /\ Once(pending)
      BY DEF Init, RegistryInv, Linked, HandlerOK, NoStray, Held, OneHolder, QuitStops, Off, Rest, Once
<1>3. QED BY <1>1, <1>2 DEF CoreInv

LEMMA NextInv ==
    ASSUME CoreInv, Once(pending), [Next]_vars
    PROVE  CoreInv'
<1>1. CASE TickBegin
      BY <1>1, TickBeginInv
<1>2. CASE HandlerSteps
      BY <1>2, TickInsertInv, TickRingInv, TakeHandleInv, StopDoneInv, StopTimeoutInv, StartInv,
         HandlerEndsInv DEF HandlerSteps
<1>3. CASE UNCHANGED vars
  <2>1. UNCHANGED <<devices, core, sess, wired, tracked, owner, pending>>
        BY <1>3 DEF vars, world, registry
  <2>2. QED BY <2>1, OutsideStep DEF CoreInv, TypeOK
<1>4. QED BY <1>1, <1>2, <1>3, EnvironmentInv, SessionStepsInv, CommandsInv DEF Next

(* The inductive invariant, and that no address is queued twice: whatever adb    *)
(* lists, whoever calls, and whichever session crashes or hangs.                *)
THEOREM CoreSafe == Spec => [](CoreInv /\ Once(pending))
<1>1. Init => CoreInv /\ Once(pending)
      BY InitInv
<1>2. CoreInv /\ Once(pending) /\ [Next]_vars => CoreInv' /\ Once(pending)'
  <2> SUFFICES ASSUME CoreInv, Once(pending), [Next]_vars PROVE CoreInv' /\ Once(pending)'
      OBVIOUS
  <2>1. QED BY NextInv, RingOnce DEF CoreInv
<1>3. QED BY <1>1, <1>2, PTL DEF Spec

(* The core's state has its types, whatever is plugged in and called. *)
THEOREM TypeCorrect == Spec => []TypeOK
<1>1. CoreInv => TypeOK
      BY DEF CoreInv
<1>2. QED BY <1>1, CoreSafe, PTL

(* Entries stay distinct: an address and an id belong to one entry each, for any  *)
(* phones, any serial numbers (even equal ones) and any failures of getprop.      *)
THEOREM EntriesDistinct == Spec => []RegistryInv
<1>1. CoreInv => RegistryInv
      BY DEF CoreInv
<1>2. QED BY <1>1, CoreSafe, PTL

(* No task of a session runs that nobody holds, no session is held twice, and     *)
(* nothing is held when the core has ended.                                     *)
THEOREM NoStraySession == Spec => []NoStray
<1>1. CoreInv => NoStray
      BY DEF CoreInv
<1>2. QED BY <1>1, CoreSafe, PTL
(* What a session is to its entry, beside what CoreSafe says. *)
THEOREM OwnSessions == Spec => [](Owned /\ FailedEnded)
<1>1. Init => Owned /\ FailedEnded
      BY DEF Init, Owned, FailedEnded, Rest
<1>2. CoreInv /\ Owned /\ FailedEnded /\ [Next]_vars => Owned' /\ FailedEnded'
  <2> SUFFICES ASSUME CoreInv, Owned, FailedEnded, [Next]_vars PROVE Owned' /\ FailedEnded'
      OBVIOUS
  <2>1. FailedEnded'
        BY StepsFated DEF Fated, Fate, FailedEnded
  <2>2. QED BY <2>1, OwnedInv
<1>3. QED BY <1>1, <1>2, CoreSafe, PTL DEF Spec

(* One device, one session: no entry has two tasks that go on, whichever ends      *)
(* first: the wait for the old one, the abort, or a crash.                       *)
THEOREM OneTaskEach == Spec => []OneAtATime
<1>1. CoreInv /\ Owned => OneAtATime
  <2> SUFFICES ASSUME CoreInv, Owned, NEW m \in DOMAIN sess, NEW n \in DOMAIN sess, m # n,
                      sess[m].uuid = sess[n].uuid, sess[m].task # "done", sess[n].task # "done"
               PROVE  FALSE
      BY DEF OneAtATime
  <2>1. m # 0 /\ n # 0
        BY DEF CoreInv, TypeOK
  <2>2. m = core.victim \/ devices[sess[m].uuid].session = m
        BY DEF CoreInv, NoStray, Held
  <2>3. n = core.victim \/ devices[sess[n].uuid].session = n
        BY DEF CoreInv, NoStray, Held
  <2>4. QED BY <2>1, <2>2, <2>3 DEF Owned
<1>2. QED BY <1>1, CoreSafe, OwnSessions, PTL

(* The end of a session, and its failure, are for good. *)
THEOREM EndsAreFinal == Spec => EndIsFinal
<1> DEFINE Keeps == \A n \in DOMAIN sess :
                      /\ sess[n].task = "done" => sess'[n].task = "done"
                      /\ sess[n].state = "failed" => sess'[n].state = "failed"
<1>1. CoreInv /\ Owned /\ FailedEnded /\ [Next]_vars => [Keeps]_vars
      BY StepsFated DEF Fated, Fate
<1>2. QED BY <1>1, CoreSafe, OwnSessions, PTL DEF Spec, EndIsFinal
=============================================================================
