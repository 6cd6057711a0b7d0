-------------------------------- MODULE Core --------------------------------
(***************************************************************************)
(* The daemon's core: the registry of devices that it builds from the adb    *)
(* list, the ring of addresses still to be connected, and the sessions it    *)
(* starts and stops, with what becomes of each session's task, of the        *)
(* blocking thread it waits for and of its server on the phone.              *)
(*                                                                         *)
(* Core is one task: a handler runs to its end before the next begins, but   *)
(* its adb calls and its waits let the rest of the world move.  The tick and *)
(* every command that stops a session are therefore several steps here,      *)
(* with what the handler remembers between them in `core`.                   *)
(*                                                                         *)
(* The connection state of an entry is not kept: it is written by            *)
(* insert_device alone, which is called with Device alone.                   *)
(***************************************************************************)
EXTENDS Naturals, Sequences, FiniteSets

CONSTANTS Addrs,         \* addresses adb may list: USB serials, ip:port, mDNS names
          Phones,        \* the devices behind them
          Ids,           \* what an entry may have as its id
          SerialNo,      \* ro.serialno of each phone
          KindOf,        \* DeviceAddrKind::classify
          ServiceNames,  \* the addresses that contain "._tcp"
          Homes,         \* the phones that may answer at an address
          None,          \* no address
          MaxAttempts,   \* attempts an address of the ring has
          MayFail,       \* whether adb calls to a listed device may fail
          MaxChanges,    \* bound: changes of the adb list
          MaxCalls,      \* bound: commands and mDNS events
          MaxSessions    \* bound: sessions started

Kinds == {"usb", "mdns", "ip"}
Priority == [usb |-> 3, mdns |-> 2, ip |-> 1]

ASSUME AddrAssumption ==
    /\ KindOf \in [Addrs -> Kinds] /\ ServiceNames \subseteq Addrs
    /\ Homes \in [Addrs -> SUBSET Phones] /\ None \notin Addrs
ASSUME IdAssumption == Addrs \subseteq Ids /\ SerialNo \in [Phones -> Ids]
ASSUME BoundAssumption ==
    /\ MaxAttempts \in Nat /\ MaxChanges \in Nat /\ MaxCalls \in Nat
    /\ MaxSessions \in Nat /\ MayFail \in BOOLEAN

VARIABLES
    wired,     \* the adb server's list: state of each address
    owner,     \* the phone that answers at each address
    tracked,   \* device_watch: the last list device_refresh has sent
    devices,   \* Core.devices: the entries, by uuid
    pending,   \* Core.pending_serials
    core,      \* where Core's task is, and what its handler remembers
    sess,      \* the sessions started, by port
    shown,     \* session_tx: state of each entry's session as last pushed
    changes, calls

world    == <<wired, owner, tracked, changes>>
registry == <<devices, pending>>
vars     == <<world, registry, core, sess, shown, calls>>

-----------------------------------------------------------------------------
(* The registry.                                                            *)

Contains(e, a) == \E k \in Kinds : e.addr[k] = a
Matches(e, a) == e.serial = a \/ e.id = a \/ Contains(e, a)

(* merge, and the choice of `serial`: it only ever rises in priority. *)
Merged(e, a) ==
    [e EXCEPT !.addr[KindOf[a]] = a,
              !.serial = IF Priority[KindOf[a]] > Priority[KindOf[e.serial]]
                            /\ a \notin ServiceNames
                         THEN a ELSE @]

NewEntry(a, id) ==
    [id |-> id, serial |-> a, session |-> 0,
     addr |-> [k \in Kinds |-> IF k = KindOf[a] THEN a ELSE None]]

Known(ds, a) == {u \in DOMAIN ds : Contains(ds[u], a)}
SameId(ds, id) == {u \in DOMAIN ds : ds[u].id = id}

(* Mutant of Inserted: the serial number is not looked for.                  *)
InsertedByAddress(ds, a, id) ==
    IF Known(ds, a) # {}
    THEN LET u == CHOOSE u \in Known(ds, a) : TRUE
         IN  [ds EXCEPT ![u] = Merged(ds[u], a)]
    ELSE Append(ds, NewEntry(a, id))

(* insert_device: by address, then by serial number, else a new entry. *)
Inserted(ds, a, id) ==
    IF Known(ds, a) # {}
    THEN LET u == CHOOSE u \in Known(ds, a) : TRUE
         IN  [ds EXCEPT ![u] = Merged(ds[u], a)]
    ELSE IF SameId(ds, id) # {}
    THEN LET u == CHOOSE u \in SameId(ds, id) : TRUE
         IN  [ds EXCEPT ![u] = Merged(ds[u], a)]
    ELSE Append(ds, NewEntry(a, id))

(* getprop ro.serialno: the address itself stands in when it fails. *)
AskedIds(a) == (IF wired[a] = "device" THEN {SerialNo[owner[a]]} ELSE {a})
               \cup (IF MayFail THEN {a} ELSE {})

-----------------------------------------------------------------------------
(* adb and its tracking.                                                    *)

AdbStates == {"none", "device", "offline"}

(* A device comes, goes, or changes its state. *)
Rewire(a, s) ==
    /\ changes < MaxChanges /\ wired[a] # s
    /\ wired' = [wired EXCEPT ![a] = s]
    /\ changes' = changes + 1
    /\ UNCHANGED <<owner, tracked, registry, core, sess, shown, calls>>

(* An address is given to another phone while nothing is connected there. *)
MoveAddress(a, p) ==
    /\ changes < MaxChanges /\ wired[a] = "none" /\ p \in Homes[a] \ {owner[a]}
    /\ owner' = [owner EXCEPT ![a] = p]
    /\ changes' = changes + 1
    /\ UNCHANGED <<wired, tracked, registry, core, sess, shown, calls>>

(* A frame of track-devices: an empty one is skipped, an equal one not sent. *)
TrackFrame ==
    /\ \E a \in Addrs : wired[a] # "none"
    /\ wired # tracked
    /\ tracked' = wired
    /\ UNCHANGED <<wired, owner, changes, registry, core, sess, shown, calls>>

-----------------------------------------------------------------------------
(* Sessions: the task, the blocking thread it waits for, the phone's server. *)

Holders(n) == {u \in DOMAIN devices : devices[u].session = n}
SessionUnchanged == UNCHANGED <<world, registry, core, shown, calls>>
Become(n, r) == sess' = [sess EXCEPT ![n] = r]

(* adb reaches the phone this session's server runs on. *)
Reaches(s) == wired[s.serial] = "device" /\ owner[s.serial] = s.phone
Killed(s) == IF Reaches(s) THEN [s EXCEPT !.server = "down"] ELSE s

(* deploy_scrcpy has started adb's shell; whether the server comes up is not  *)
(* known yet.  An aborted task no longer waits for its thread, which goes on   *)
(* all the same.                                                             *)
Deploys(n, server) ==
    LET s == sess[n] IN
    /\ s.thread = "deploy" /\ wired[s.serial] = "device" /\ (server = "down" => MayFail)
    /\ Become(n, [s EXCEPT !.server = server, !.phone = owner[s.serial], !.thread = "idle",
                           !.task = IF @ = "deploy" THEN "resolve" ELSE @])
    /\ SessionUnchanged

(* Deployment fails. *)
DeployFails(n) ==
    LET s == sess[n] IN
    /\ s.thread = "deploy" /\ (MayFail \/ wired[s.serial] # "device")
    /\ Become(n, IF s.task = "done" THEN [s EXCEPT !.thread = "idle"]
                 ELSE [s EXCEPT !.thread = "idle", !.task = "done", !.state = "failed"])
    /\ SessionUnchanged

(* The address of the phone is part of the serial, or asked for over adb. *)
Resolves(s) == KindOf[s.serial] = "ip" \/ wired[s.serial] = "device"

(* FAILED is written first, then the server is stopped. *)
GiveUp(s) == Killed([s EXCEPT !.thread = "idle", !.task = "done", !.state = "failed"])

Resolve(n) ==
    LET s == sess[n] IN
    /\ s.task = "resolve"
    /\ \/ Resolves(s) /\ Become(n, [s EXCEPT !.task = "connect", !.thread = "connect"])
       \/ (~Resolves(s) \/ MayFail) /\ Become(n, GiveUp(s))
    /\ SessionUnchanged

(* The handshake succeeds: running.  With nobody waiting the session is       *)
(* dropped, which closes it.                                                 *)
Connects(n) ==
    LET s == sess[n] IN
    /\ s.thread = "connect" /\ s.server = "up"
    /\ Become(n, IF s.task = "done" THEN [s EXCEPT !.thread = "idle"]
                 ELSE [s EXCEPT !.thread = "idle", !.task = "run", !.state = "running"])
    /\ SessionUnchanged

(* The handshake times out. *)
ConnectFails(n) ==
    LET s == sess[n] IN
    /\ s.thread = "connect"
    /\ Become(n, IF s.task = "done" THEN [s EXCEPT !.thread = "idle"] ELSE GiveUp(s))
    /\ SessionUnchanged

(* The main loop ends, on the stop signal or on any error; close and detach   *)
(* follow, the state stays RUNNING.                                          *)
RunEnds(n) ==
    /\ sess[n].task = "run"
    /\ Become(n, [sess[n] EXCEPT !.task = "done"])
    /\ SessionUnchanged

(* The phone's server exits when its last client has left, or when none has   *)
(* come in the time it allows (ClientSession).                               *)
ServerExits(n) ==
    /\ sess[n].server = "up" /\ sess[n].task \notin {"resolve", "run"}
    /\ sess[n].thread # "connect"
    /\ Become(n, [sess[n] EXCEPT !.server = "down"])
    /\ SessionUnchanged

-----------------------------------------------------------------------------
(* Core: handlers that only queue an address.                                *)

Idle == core.at = "idle"
Off == core.at = "off"
Called == Idle /\ calls < MaxCalls /\ calls' = calls + 1

Unqueued(a) == \A i \in DOMAIN pending : pending[i].addr # a

(* retain(|e| e.addr != a): an address is in the ring once at most. *)
Without(a) ==
    IF Unqueued(a) THEN pending
    ELSE LET i == CHOOSE i \in DOMAIN pending : pending[i].addr = a
         IN  SubSeq(pending, 1, i - 1) \o SubSeq(pending, i + 1, Len(pending))

Enqueue(a) ==
    /\ Unqueued(a)
    /\ pending' = Append(pending, [addr |-> a, attempts |-> 0])
    /\ UNCHANGED <<world, devices, core, sess, shown>>

CmdConnect(a) == Called /\ KindOf[a] # "usb" /\ Enqueue(a)

(* What mDNS resolves is an IPv4 address and a port. *)
Announced == {a \in Addrs : KindOf[a] = "ip"}

MdnsConnect(a) == Called /\ a \in Announced /\ Enqueue(a)

-----------------------------------------------------------------------------
(* Core: stopping and starting sessions, the common part of the handlers.     *)

Rest == [at |-> "idle", why |-> "command", online |-> {}, todo |-> {},
         stops |-> {}, victim |-> 0, starts |-> {}]

(* What start_session needs of an entry: its device as it was when read. *)
Want(u, recheck) == [uuid |-> u, serial |-> devices[u].serial, recheck |-> recheck]

(* The handle is taken out of its entry and told to stop; the signal is seen   *)
(* in the main loop alone, which may end at any time anyway (RunEnds).        *)
TakeHandle(u) ==
    /\ core.at = "stop" /\ core.victim = 0 /\ u \in core.stops
    /\ LET n == devices[u].session IN
       /\ devices' = [devices EXCEPT ![u].session = 0]
       /\ core' = [core EXCEPT !.stops = @ \ {u}, !.victim = n]
    /\ UNCHANGED <<world, pending, sess, shown, calls>>

(* Handle::stop: the task has ended. *)
StopDone ==
    /\ core.victim # 0 /\ sess[core.victim].task = "done"
    /\ core' = [core EXCEPT !.victim = 0]
    /\ UNCHANGED <<world, registry, sess, shown, calls>>

(* Mutant of Aborted: the server is killed, the task goes on.                *)
AbortedNot(s) == Killed(s)

Aborted(s) == Killed([s EXCEPT !.task = "done"])

(* Mutant of Overdue: the end of the task is waited for.                     *)
OverdueNever == FALSE

Overdue == sess[core.victim].task # "done"

(* Handle::stop: two seconds are over: abort, and kill the server by scid. *)
StopTimeout ==
    /\ core.victim # 0 /\ Overdue
    /\ Become(core.victim, Aborted(sess[core.victim]))
    /\ core' = [core EXCEPT !.victim = 0]
    /\ UNCHANGED <<world, registry, shown, calls>>

Stopped == core.at = "stop" /\ core.victim = 0 /\ core.stops = {}

(* start_session: no session held; cmd_retry looks at the adb list first. *)
Start(w) ==
    /\ Stopped /\ w \in core.starts
    /\ core' = [core EXCEPT !.starts = @ \ {w}]
    /\ IF devices[w.uuid].session = 0 /\ (w.recheck => tracked[w.serial] = "device")
       THEN /\ Len(sess) < MaxSessions
            /\ sess' = Append(sess, [uuid |-> w.uuid, serial |-> w.serial, phone |-> owner[w.serial],
                                     task |-> "deploy", thread |-> "deploy",
                                     state |-> "connecting", server |-> "down"])
            /\ devices' = [devices EXCEPT ![w.uuid].session = Len(sess) + 1]
       ELSE UNCHANGED <<sess, devices>>
    /\ UNCHANGED <<world, pending, shown, calls>>

Stopping(stops, starts) == core' = [Rest EXCEPT !.at = "stop", !.stops = stops, !.starts = starts]

-----------------------------------------------------------------------------
(* Core: the commands.                                                       *)

Failed(u) == devices[u].session # 0 /\ sess[devices[u].session].state = "failed"

(* cmd_disconnect: one entry that matches and has a session. *)
CmdDisconnect(a) ==
    LET found == {u \in DOMAIN devices : Matches(devices[u], a) /\ devices[u].session # 0} IN
    /\ Called
    /\ pending' = Without(a)
    /\ IF found = {} THEN UNCHANGED core ELSE \E u \in found : Stopping({u}, {})
    /\ UNCHANGED <<world, devices, sess, shown>>

(* cmd_retry: of a failed session only. *)
CmdRetry(u) ==
    /\ Called /\ Failed(u)
    /\ Stopping({u}, {Want(u, TRUE)})
    /\ UNCHANGED <<world, registry, sess, shown>>

(* cmd_restart_all_sessions: what is not running is stopped and started       *)
(* again (what is running gets a new audio target).                          *)
CmdRestartAll ==
    LET needs == {u \in DOMAIN devices :
                    devices[u].session # 0 /\ sess[devices[u].session].state # "running"} IN
    /\ Called /\ needs # {}
    /\ Stopping(needs, {Want(u, FALSE) : u \in needs})
    /\ UNCHANGED <<world, registry, sess, shown>>

(* cmd_start_session: an unknown address that adb lists is inserted first; an *)
(* entry with a session that has not failed is left alone.                   *)
CmdStart(a) ==
    /\ Called
    /\ IF \E u \in DOMAIN devices : Matches(devices[u], a)
       THEN UNCHANGED devices
       ELSE /\ tracked[a] = "device"
            /\ \E id \in AskedIds(a) : devices' = Inserted(devices, a, id)
    /\ \E u \in {v \in DOMAIN devices' : Matches(devices'[v], a)} :
         LET n == devices'[u].session IN
         IF n # 0 /\ sess[n].state # "failed" THEN UNCHANGED core
         ELSE Stopping(IF n = 0 THEN {} ELSE {u},
                       {[uuid |-> u, serial |-> devices'[u].serial, recheck |-> FALSE]})
    /\ UNCHANGED <<world, pending, sess, shown>>

AllHeld == {u \in DOMAIN devices : devices[u].session # 0}

(* The token is cancelled: stop_all ends the loop. *)
Quit ==
    /\ Idle
    /\ core' = [Rest EXCEPT !.at = "stop", !.why = "quit", !.stops = AllHeld]
    /\ UNCHANGED <<world, registry, sess, shown, calls>>

-----------------------------------------------------------------------------
(* Core: on_tick.                                                            *)

(* The last list received; its devices are inserted in any order. *)
TickBegin ==
    LET online == {a \in Addrs : tracked[a] = "device"} IN
    /\ Idle
    /\ core' = [Rest EXCEPT !.at = "insert", !.why = "tick", !.online = online, !.todo = online]
    /\ UNCHANGED <<world, registry, sess, shown, calls>>

TickInsert(a) ==
    /\ core.at = "insert" /\ a \in core.todo
    /\ \E id \in AskedIds(a) : devices' = Inserted(devices, a, id)
    /\ pending' = Without(a)
    /\ core' = [core EXCEPT !.todo = @ \ {a}]
    /\ UNCHANGED <<world, sess, shown, calls>>

(* adb connect, which calls an address it has already connected a success. *)
AdbConnected(a) == [wired EXCEPT ![a] = IF @ = "none" THEN "device" ELSE @]

(* Mutant of Tried: attempts are not counted.                                *)
TriedUncounted(e) == Append(Tail(pending), e)

(* An address that could not be connected goes to the back, until its last try. *)
Tried(e) ==
    IF e.attempts + 1 >= MaxAttempts THEN Tail(pending)
    ELSE Append(Tail(pending), [e EXCEPT !.attempts = @ + 1])

(* try_connect_pending: one address is taken from the front of the ring. *)
TryConnect ==
    IF pending = <<>> THEN UNCHANGED <<pending, wired>>
    ELSE LET e == Head(pending) IN
         \/ /\ pending' = Tail(pending)
            /\ wired' = IF e.addr \in core.online THEN wired ELSE AdbConnected(e.addr)
         \/ /\ e.addr \notin core.online
            /\ pending' = Tried(e)
            /\ UNCHANGED wired

(* Mutant of Marked: only a session that never ran is found dead.            *)
MarkedEarly(n) == IF sess[n].task = "done" /\ Holders(n) # {} /\ sess[n].state = "connecting"
                  THEN [sess[n] EXCEPT !.state = "failed"] ELSE sess[n]

(* check_dead_sessions: a task that has ended under a handle has failed. *)
Marked(n) == IF sess[n].task = "done" /\ Holders(n) # {}
             THEN [sess[n] EXCEPT !.state = "failed"] ELSE sess[n]

(* Mutant of Disconnected: any address of the device will do.                *)
DisconnectedAll ==
    {u \in DOMAIN devices :
        devices[u].session # 0 /\ \A k \in Kinds : devices[u].addr[k] \notin core.online}

(* stop_disconnected_sessions: those whose serial the tick's list lacks. *)
Disconnected ==
    {u \in DOMAIN devices : devices[u].session # 0 /\ devices[u].serial \notin core.online}

(* Once all are inserted: the ring, the tombstones, and what to stop. *)
TickRing ==
    /\ core.at = "insert" /\ core.todo = {}
    /\ TryConnect
    /\ sess' = [n \in DOMAIN sess |-> Marked(n)]
    /\ core' = [core EXCEPT !.at = "stop", !.online = {}, !.stops = Disconnected]
    /\ UNCHANGED <<owner, tracked, changes, devices, shown, calls>>

(* A handler ends; the tick pushes the session list first. *)
HandlerEnds ==
    /\ Stopped /\ core.starts = {}
    /\ core' = IF core.why = "quit" THEN [Rest EXCEPT !.at = "off"] ELSE Rest
    /\ shown' = IF core.why # "tick" THEN shown
                ELSE [u \in DOMAIN devices |->
                        IF devices[u].session = 0 THEN "none" ELSE sess[devices[u].session].state]
    /\ UNCHANGED <<world, registry, sess, calls>>

-----------------------------------------------------------------------------
Init ==
    /\ wired = [a \in Addrs |-> "none"] /\ tracked = wired /\ changes = 0
    /\ owner \in [Addrs -> Phones] /\ \A a \in Addrs : owner[a] \in Homes[a]
    /\ devices = <<>> /\ pending = <<>> /\ core = Rest /\ sess = <<>>
    /\ shown = <<>> /\ calls = 0

Environment ==
    \/ \E a \in Addrs : \/ \E s \in AdbStates : Rewire(a, s)
                       \/ \E p \in Phones : MoveAddress(a, p)
    \/ TrackFrame

SessionSteps ==
    \E n \in DOMAIN sess :
        \/ \E server \in {"up", "down"} : Deploys(n, server)
        \/ DeployFails(n) \/ Resolve(n) \/ Connects(n) \/ ConnectFails(n) \/ RunEnds(n) \/ ServerExits(n)

Commands ==
    \/ \E a \in Addrs : CmdConnect(a) \/ MdnsConnect(a) \/ CmdDisconnect(a) \/ CmdStart(a)
    \/ \E u \in DOMAIN devices : CmdRetry(u)
    \/ CmdRestartAll \/ Quit

(* The handler under way goes on. *)
HandlerSteps ==
    \/ \E a \in Addrs : TickInsert(a)
    \/ TickRing
    \/ \E u \in DOMAIN devices : TakeHandle(u)
    \/ StopDone \/ StopTimeout
    \/ \E w \in core.starts : Start(w)
    \/ HandlerEnds

Next == Environment \/ SessionSteps \/ Commands \/ TickBegin \/ HandlerSteps

Spec == Init /\ [][Next]_vars

(* adb's list is read, Core's task goes on and the tick's timer fires.  The    *)
(* steps of a session have no fairness: nothing bounds a deployment, and a      *)
(* task that is told to stop may hang.                                       *)
FairSpec == Spec /\ WF_vars(TrackFrame) /\ WF_vars(TickBegin) /\ WF_vars(HandlerSteps)

-----------------------------------------------------------------------------
(* Properties.                                                              *)

Entry == [id : Ids, serial : Addrs, addr : [Kinds -> Addrs \cup {None}], session : Nat]
Session == [uuid : Nat, serial : Addrs, phone : Phones, task : {"deploy", "resolve", "connect", "run", "done"},
            thread : {"deploy", "connect", "idle"}, state : {"connecting", "running", "failed"},
            server : {"up", "down"}]

(* The types of the core's state. *)
TypeOK ==
    /\ wired \in [Addrs -> AdbStates] /\ tracked \in [Addrs -> AdbStates]
    /\ owner \in [Addrs -> Phones]
    /\ devices \in Seq(Entry)
    /\ pending \in Seq([addr : Addrs, attempts : Nat])
    /\ sess \in Seq(Session)
    /\ core \in [at : {"idle", "insert", "stop", "off"}, why : {"command", "tick", "quit"},
                 online : SUBSET Addrs, todo : SUBSET Addrs, stops : SUBSET (DOMAIN devices),
                 victim : Nat,
                 starts : SUBSET [uuid : DOMAIN devices, serial : Addrs, recheck : BOOLEAN]]

(* insert_device matches by address and then by serial number, so an address  *)
(* belongs to one entry and an id to one entry, whatever adb lists and         *)
(* however often getprop fails: each command that names an address has one     *)
(* entry to act on.                                                           *)
RegistryInv ==
    \A u, v \in DOMAIN devices : u # v =>
        /\ devices[u].id # devices[v].id
        /\ \A a \in Addrs : ~(Contains(devices[u], a) /\ Contains(devices[v], a))

(* A task that has not ended belongs to the entry that holds its handle, or is  *)
(* the one whose end Core waits for.                                          *)
Held == \A n \in DOMAIN sess : sess[n].task # "done" =>
            n = core.victim \/ devices[sess[n].uuid].session = n

(* No session is held by two entries. *)
OneHolder == \A u, v \in DOMAIN devices :
                devices[u].session # 0 /\ devices[u].session = devices[v].session => u = v

(* stop_all: when the core has ended, nothing is held. *)
QuitStops == Off => core.victim = 0 /\ \A u \in DOMAIN devices : devices[u].session = 0

(* One device, one session (cmd_start_session): in whatever order devices come  *)
(* and go, sessions crash and time out and commands arrive, no task runs that    *)
(* nobody holds, and none outlives the core.                                   *)
NoStray == Held /\ OneHolder /\ QuitStops

(* Start goes by the entry's handle, which is taken out before its session has   *)
(* ended; all the same no entry ever has two tasks that go on: what is started    *)
(* again has ended, or was aborted, first.                                     *)
OneAtATime == \A m, n \in DOMAIN sess :
    m # n /\ sess[m].uuid = sess[n].uuid => sess[m].task = "done" \/ sess[n].task = "done"

(* A session that has ended stays ended, and a failed one failed: what the        *)
(* blocking thread of an aborted task brings later changes neither, and a retry    *)
(* is another session.                                                         *)
EndIsFinal == [][\A n \in DOMAIN sess :
                    /\ sess[n].task = "done" => sess'[n].task = "done"
                    /\ sess[n].state = "failed" => sess'[n].state = "failed"]_vars

(* A session whose task has ended, whatever its cause, becomes a failed          *)
(* tombstone in the pushed list, or leaves it, without anybody's command.        *)
DeadUnseen(n) ==
    /\ n \in DOMAIN sess /\ sess[n].task = "done"
    /\ \E u \in Holders(n) : u \notin DOMAIN shown \/ shown[u] # "failed"
DeadNoticed == \A n \in 1..MaxSessions : DeadUnseen(n) ~> (Off \/ ~DeadUnseen(n))

(* A session whose device is no longer in the list received is stopped. *)
Stranded(n, list, states) == \E u \in Holders(n) : list[devices[u].serial] \in states
GoneStopped ==
    \A n \in 1..MaxSessions :
        Stranded(n, tracked, {"none", "offline"}) ~> (Off \/ ~Stranded(n, tracked, {"none", "offline"}))

(* However long a deployment hangs, no handler waits for it for ever. *)
CoreReturns == []<>(core.at \in {"idle", "off"})

(* An address of the ring is connected, dropped or removed. *)
RingMoves == \A a \in Announced :
    (\E i \in DOMAIN pending : pending[i].addr = a)
        ~> (Off \/ \A i \in DOMAIN pending : pending[i].addr # a)

(* app.rs on stop_disconnected_sessions: the session of a device that has left  *)
(* the adb list is ended.                                                      *)
VanishedStopped ==
    \A n \in 1..MaxSessions : Stranded(n, wired, {"none"}) ~> (Off \/ ~Stranded(n, wired, {"none"}))
=============================================================================
