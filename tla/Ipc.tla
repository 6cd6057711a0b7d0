--------------------------------- MODULE Ipc ---------------------------------
(***************************************************************************)
(* The desktop UI and the daemon: the UI's calls, its one connection to the   *)
(* daemon, the task that serves it there, and Core as that task meets it: a    *)
(* bounded queue of commands, one reply channel per waiting call, and two      *)
(* watched values, the merged devices and the session list.                   *)
(*                                                                         *)
(* A call is of a kind: "query" (answered from what the task can read),        *)
(* "update" (queued to Core and answered at once), "list" and "open" (queued,   *)
(* Core's reply awaited).  Parameters that do not parse are refused at once,    *)
(* like a query.  The wires are TCP: in order, and what was sent before an end  *)
(* is read, unless the daemon dies.  A frame for which there is no room in the    *)
(* sockets' buffers is the last of its wire and still being sent: its sender      *)
(* waits in that send, and reads nothing.  The daemon's accept loop serves any    *)
(* number of connections; README: the GUI is used as the only client.            *)
(***************************************************************************)
EXTENDS Naturals, Sequences, FiniteSets

CONSTANTS Options,      \* the settings of a session that the UI's page switches
          QueueLimit,   \* commands that fit into Core's queue
          MaxCalls,     \* bound: calls the UI makes
          WireLimit,    \* frames that the sockets' buffers hold, each way
          MaxChanges    \* bound: changes of devices and sessions

ASSUME IpcAssumption ==
    /\ QueueLimit \in Nat \ {0} /\ MaxCalls \in Nat /\ MaxChanges \in Nat /\ WireLimit \in Nat \ {0}

VARIABLES
    link,      \* the UI's connection: "none", "up", "down"
    asked,     \* AppState.ipc_tx: calls the connection's task has not taken yet
    waiting,   \* `pending`: the ids whose answer is awaited
    calls,     \* the calls made, in the order of their ids
    cache,     \* AppState.devices
    page,      \* what the page shows of a session: its state and its settings
    toDaemon, toUi,
    conn,      \* handle_ipc_connection: [at, req]
    queue,     \* Core's commands
    reply,     \* the oneshot of the call that waits for Core
    core,      \* "run", "listing", "off"
    listed,    \* the call that Core lists applications for
    devices,   \* Core's merged devices, as a count of their changes
    session,   \* Core's session: a count of changes of its state, and its settings
    watched,   \* merged_watch and session_watch: value, and whether it is unseen
    nextWindow, \* Core.next_window_id
    changes

ui     == <<link, asked, waiting, calls, cache, page>>
wires  == <<toDaemon, toUi>>
daemon == <<conn, queue, reply, core, listed, devices, session, watched, nextWindow>>
vars   == <<ui, wires, daemon, changes>>

(* The ids 1 and 2 are the handshake's; the second call, pairing.info, is left   *)
(* out.                                                                      *)
Handshake == <<[id |-> 1, kind |-> "query"]>>
FirstId == 3
Ids == FirstId..(FirstId + MaxCalls - 1)
Off == core = "off"

(* The task at either end is waiting in no send. *)
UiFree     == Len(toDaemon) <= WireLimit \/ conn.at = "closed"
DaemonFree == Len(toUi) <= WireLimit

(* What the calls promise. *)
Service == INSTANCE CallService

-----------------------------------------------------------------------------
(* The UI: calls.                                                           *)

Waits == [state |-> "waits", of |-> 0, window |-> 0]
Error == [state |-> "error", of |-> 0, window |-> 0]
Answer(id, window) == [state |-> "ok", of |-> id, window |-> window]

Fresh == FirstId + Len(calls)
Call(id) == calls[id - FirstId + 1]

(* ipc_request: an id of its own and a channel for its answer; without a        *)
(* connection it fails at once.                                              *)
Invoke(req) ==
    /\ Len(calls) < MaxCalls
    /\ IF link = "up"
       THEN asked' = Append(asked, req) /\ calls' = Append(calls, Waits)
       ELSE UNCHANGED asked /\ calls' = Append(calls, Error)
    /\ UNCHANGED <<link, waiting, cache, wires, daemon, changes>>

Asks(kind) ==
    /\ Invoke([id |-> Fresh, kind |-> kind])
    /\ UNCHANGED page

(* update_session_config: the page switches one option and sends all. *)
Switches(o) ==
    LET cfg == [page.cfg EXCEPT ![o] = ~@] IN
    /\ page' = [page EXCEPT !.cfg = cfg]
    /\ Invoke([id |-> Fresh, kind |-> "update", cfg |-> cfg])

-----------------------------------------------------------------------------
(* The UI: connect_daemon.                                                   *)

(* The port is read, the connection made, and two calls are sent ahead. *)
Connect ==
    /\ link = "none" /\ conn.at # "closed"
    /\ link' = "up" /\ toDaemon' = Handshake
    /\ UNCHANGED <<asked, waiting, calls, cache, page, toUi, daemon, changes>>

(* No port within ten seconds, or nobody listens there: there is no retry. *)
CannotConnect ==
    /\ link = "none" /\ link' = "down"
    /\ UNCHANGED <<asked, waiting, calls, cache, page, wires, daemon, changes>>

(* Mutant of Awaited: the answer is not looked for.                          *)
NotAwaited(ids, id) == ids

Awaited(ids, id) == ids \cup {id}

(* A call goes out, and its id is awaited; if the wire has ended, sending may   *)
(* fail, and the call with it.  The send is awaited inside the loop, so that     *)
(* nothing is read until it is over; one that the wire's end cuts short fails    *)
(* when that end is read.                                                    *)
UiSends ==
    /\ link = "up" /\ UiFree /\ asked # <<>> /\ asked' = Tail(asked)
    /\ LET id == Head(asked).id IN
       \/ /\ waiting' = Awaited(waiting, id)
          /\ toDaemon' = IF conn.at = "closed" THEN toDaemon ELSE Append(toDaemon, Head(asked))
          /\ UNCHANGED calls
       \/ /\ conn.at = "closed"
          /\ calls' = [calls EXCEPT ![id - FirstId + 1] = Error]
          /\ UNCHANGED <<waiting, toDaemon>>
    /\ UNCHANGED <<link, cache, page, toUi, daemon, changes>>

(* A frame: an answer that is awaited goes to its call, that to the first       *)
(* handshake call and the device list fill the cache, the session list goes to  *)
(* the page.                                                                *)
UiReads ==
    /\ link = "up" /\ UiFree /\ toUi # <<>> /\ toUi' = Tail(toUi)
    /\ LET f == Head(toUi) IN
       CASE f.type = "answer" /\ f.id \in waiting ->
              /\ waiting' = waiting \ {f.id}
              /\ calls' = [calls EXCEPT ![f.id - FirstId + 1] = f.result]
              /\ UNCHANGED <<cache, page>>
         [] f.type = "answer" /\ f.id \notin waiting ->
              /\ cache' = IF f.id = 1 THEN f.devices ELSE cache
              /\ UNCHANGED <<waiting, calls, page>>
         [] f.type = "devices" ->
              cache' = f.value /\ UNCHANGED <<waiting, calls, page>>
         [] f.type = "sessions" ->
              page' = f.value /\ UNCHANGED <<waiting, calls, cache>>
    /\ UNCHANGED <<link, asked, toDaemon, daemon, changes>>

(* Mutant of Ended: the end is not looked for while answers are awaited.       *)
EndedUnlessWaiting == toUi = <<>> /\ conn.at = "closed" /\ waiting = {}

Ended == toUi = <<>> /\ conn.at = "closed"

(* The wire has ended: the channels of all calls under way are dropped.        *)
UiLoses ==
    /\ link = "up" /\ Ended
    /\ link' = "down" /\ asked' = <<>> /\ waiting' = {}
    /\ calls' = [c \in DOMAIN calls |->
                   IF calls[c] = Waits /\ c + FirstId - 1 \in waiting \cup {asked[i].id : i \in DOMAIN asked}
                   THEN Error ELSE calls[c]]
    /\ UNCHANGED <<cache, page, wires, daemon, changes>>

-----------------------------------------------------------------------------
(* The daemon's task for the connection.                                     *)

AtRest == [at |-> "idle", req |-> Handshake[1]]
Respond(id, result) == [type |-> "answer", id |-> id, result |-> result, devices |-> watched.devices.value]
Says(id, result) ==
    /\ toUi' = Append(toUi, Respond(id, result)) /\ conn' = AtRest

(* Mutant of Unread: the connection's receivers begin with what is there.     *)
AllRead == [watched EXCEPT !.devices.unseen = FALSE, !.sessions.unseen = FALSE]

(* The accept loop's receivers are cloned, and they have never read: what has   *)
(* changed since the daemon's start is new to the connection.                 *)
Unread == watched

Accept ==
    /\ conn.at = "none" /\ link = "up"
    /\ conn' = AtRest /\ watched' = Unread
    /\ UNCHANGED <<ui, wires, queue, reply, core, listed, devices, session, nextWindow, changes>>

(* A request is read, and nothing else until it has been answered. *)
TakeRequest ==
    /\ conn.at = "idle" /\ DaemonFree /\ toDaemon # <<>> /\ toDaemon' = Tail(toDaemon)
    /\ LET r == Head(toDaemon) IN
       IF r.kind = "query" THEN Says(r.id, Answer(r.id, 0))
       ELSE conn' = [at |-> "queue", req |-> r] /\ UNCHANGED toUi
    /\ UNCHANGED <<ui, queue, reply, core, listed, devices, session, watched, nextWindow, changes>>

Fits == Len(queue) < QueueLimit

(* cmd_tx.send waits for room, and fails once Core has ended; an update is        *)
(* answered without Core.                                                    *)
Enqueue ==
    /\ conn.at = "queue"
    /\ \/ Off /\ Says(conn.req.id, Error) /\ UNCHANGED <<queue, reply>>
       \/ /\ ~Off /\ Fits /\ queue' = Append(queue, conn.req)
          /\ conn' = [conn EXCEPT !.at = "wait"]
          /\ reply' = IF conn.req.kind = "update" THEN Answer(conn.req.id, 0) ELSE reply
          /\ UNCHANGED toUi
    /\ UNCHANGED <<ui, toDaemon, core, listed, devices, session, watched, nextWindow, changes>>

Relay ==
    /\ conn.at = "wait" /\ reply # Waits
    /\ Says(conn.req.id, reply) /\ reply' = Waits
    /\ UNCHANGED <<ui, toDaemon, queue, core, listed, devices, session, watched, nextWindow, changes>>

(* 30 s for a list, 10 s for a window; Core's reply comes to nobody then. *)
TimesOut ==
    /\ conn.at = "wait" /\ reply = Waits
    /\ Says(conn.req.id, Error)
    /\ UNCHANGED <<ui, toDaemon, queue, reply, core, listed, devices, session, watched, nextWindow, changes>>

(* changed() also returns, each time, when the watch's sender is gone. *)
SendEvent(w) ==
    /\ conn.at = "idle" /\ DaemonFree
    /\ watched[w].unseen \/ Off
    /\ toUi' = Append(toUi, [type |-> w, value |-> watched[w].value])
    /\ watched' = [watched EXCEPT ![w].unseen = FALSE]
    /\ UNCHANGED <<ui, toDaemon, conn, queue, reply, core, listed, devices, session, nextWindow, changes>>

(* The connection ends at the daemon: what the sockets have of its frames, or   *)
(* less, is still read.                                                      *)
Ends ==
    /\ conn.at # "closed" /\ conn' = [conn EXCEPT !.at = "closed"]
    /\ toDaemon' = <<>>
    /\ \E n \in 0..Len(toUi) : n <= WireLimit /\ toUi' = SubSeq(toUi, 1, n)

(* The process ends after Core: the task goes, whatever it waits for. *)
Closes ==
    /\ Off /\ Ends
    /\ UNCHANGED <<ui, queue, reply, core, listed, devices, session, watched, nextWindow, changes>>

-----------------------------------------------------------------------------
(* Core.                                                                    *)

(* Mutant of Replied: one channel for all calls.                             *)
RepliedToAny(id, result) == reply' = IF conn.at = "wait" THEN result ELSE reply

(* The receiver of a call that has timed out is gone, and so is its reply. *)
Replied(id, result) ==
    reply' = IF conn.at = "wait" /\ conn.req.id = id THEN result ELSE reply

(* A command is handled; to list applications, Core itself waits for adb.      *)
Handle ==
    /\ core = "run" /\ queue # <<>> /\ queue' = Tail(queue)
    /\ LET r == Head(queue) IN
       \/ /\ r.kind = "update" /\ session' = [session EXCEPT !.cfg = r.cfg]
          /\ UNCHANGED <<reply, core, listed, nextWindow>>
       \/ /\ r.kind = "list" /\ core' = "listing" /\ listed' = r.id
          /\ UNCHANGED <<reply, session, nextWindow>>
       \/ /\ r.kind = "list" /\ \E x \in {Error, Answer(r.id, 0)} : Replied(r.id, x)
          /\ UNCHANGED <<core, listed, session, nextWindow>>
       \/ /\ r.kind = "open" /\ Replied(r.id, Answer(r.id, nextWindow)) /\ nextWindow' = nextWindow + 1
          /\ UNCHANGED <<core, listed, session>>
       \/ /\ r.kind = "open" /\ Replied(r.id, Error)
          /\ UNCHANGED <<core, listed, session, nextWindow>>
    /\ UNCHANGED <<ui, wires, conn, devices, watched, changes>>

(* handle_list_apps: adb has answered, or its twenty seconds are over. *)
Listed ==
    /\ core = "listing" /\ core' = "run" /\ listed' = 0
    /\ \E x \in {Error, Answer(listed, 0)} : Replied(listed, x)
    /\ UNCHANGED <<ui, wires, conn, queue, devices, session, watched, nextWindow, changes>>

(* Devices or sessions change. *)
Changes ==
    /\ core = "run" /\ changes < MaxChanges /\ changes' = changes + 1
    /\ \/ devices' = devices + 1 /\ UNCHANGED session
       \/ session' = [session EXCEPT !.n = @ + 1] /\ UNCHANGED devices
    /\ UNCHANGED <<ui, wires, conn, queue, reply, core, listed, watched, nextWindow>>

Pushed(w, value) == IF w.value = value THEN w ELSE [value |-> value, unseen |-> TRUE]

(* The tick pushes both lists, each if it differs from the last. *)
Push ==
    /\ core = "run"
    /\ watched' = [devices |-> Pushed(watched.devices, devices),
                   sessions |-> Pushed(watched.sessions, session)]
    /\ watched' # watched
    /\ UNCHANGED <<ui, wires, conn, queue, reply, core, listed, devices, session, nextWindow, changes>>

(* The token is cancelled: the queue goes, with the reply channels in it, and    *)
(* so does the accept loop.                                                  *)
Quit ==
    /\ core = "run" /\ core' = "off" /\ queue' = <<>>
    /\ reply' = IF reply = Waits /\ \E i \in DOMAIN queue : queue[i].id = conn.req.id THEN Error ELSE reply
    /\ conn' = IF conn.at = "none" THEN [conn EXCEPT !.at = "closed"] ELSE conn
    /\ UNCHANGED <<ui, wires, listed, devices, session, watched, nextWindow, changes>>

(* The daemon's process dies, with all it has not sent. *)
Dies ==
    /\ Ends /\ core' = "off" /\ queue' = <<>>
    /\ UNCHANGED <<ui, reply, listed, devices, session, watched, nextWindow, changes>>

-----------------------------------------------------------------------------
(* The daemon has run for a while and found devices; the page shows none yet. *)
Settings == [Options -> BOOLEAN]
Defaults == [o \in Options |-> TRUE]

Init ==
    /\ link = "none" /\ asked = <<>> /\ waiting = {} /\ calls = <<>> /\ cache = 0
    /\ session = [n |-> 1, cfg |-> Defaults] /\ page = [n |-> 0, cfg |-> Defaults]
    /\ toDaemon = <<>> /\ toUi = <<>>
    /\ conn = [AtRest EXCEPT !.at = "none"] /\ queue = <<>> /\ reply = Waits
    /\ core = "run" /\ listed = 0 /\ devices = 1
    /\ watched = [devices |-> [value |-> devices, unseen |-> TRUE],
                  sessions |-> [value |-> session, unseen |-> TRUE]]
    /\ nextWindow = 1 /\ changes = 0

UiSteps == Connect \/ UiSends \/ UiReads \/ UiLoses
ConnSteps ==
    \/ Accept \/ TakeRequest \/ Enqueue \/ Relay \/ TimesOut
    \/ \E w \in {"devices", "sessions"} : SendEvent(w)
CoreSteps == Handle \/ Listed \/ Push

Next ==
    \/ UiSteps \/ ConnSteps \/ CoreSteps \/ Closes
    \/ \E kind \in {"query", "list", "open"} : Asks(kind)
    \/ \E o \in Options : Switches(o)
    \/ CannotConnect \/ Changes \/ Quit \/ Dies

Spec == Init /\ [][Next]_vars

(* Every task goes on; select! picks fairly among what is ready. *)
FairSpec ==
    /\ Spec /\ WF_vars(UiSteps) /\ WF_vars(ConnSteps) /\ WF_vars(CoreSteps) /\ WF_vars(Closes)

-----------------------------------------------------------------------------
(* Properties.                                                              *)

Result == [state : {"waits", "ok", "error"}, of : {0} \cup Ids \cup {1, 2}, window : Nat]
Kinds == {"query", "update", "list", "open"}

(* The types; and what is queued never exceeds the channel.                   *)
TypeOK ==
    /\ link \in {"none", "up", "down"} /\ waiting \subseteq Ids
    /\ calls \in Seq(Result) /\ Len(calls) <= MaxCalls
    /\ conn.at \in {"none", "idle", "queue", "wait", "closed"} /\ conn.req.kind \in Kinds
    /\ Len(queue) <= QueueLimit /\ reply \in Result
    /\ core \in {"run", "listing", "off"} /\ listed \in {0} \cup Ids
    /\ page.cfg \in Settings /\ session.cfg \in Settings

(* However calls overlap, time out and are answered late (ipc_request, the reply  *)
(* channels of Core), the UI's calls are those of CallService: each has one        *)
(* outcome, which nothing takes back, and it is its own.                       *)
ImplementsCalls == Service!Spec

(* In particular, a call gets its own answer, and no window is opened twice.      *)
OwnAnswer ==
    \A c, d \in DOMAIN calls :
        /\ calls[c].state = "ok" => calls[c].of = c + FirstId - 1
        /\ calls[c].window # 0 /\ calls[c].window = calls[d].window => c = d

(* Both ends wait in a send, each for the other to read: nothing in the code      *)
(* resolves it but the daemon's end.                                          *)
Jammed == link = "up" /\ ~UiFree /\ ~DaemonFree

(* No call of the UI waits for ever: not while Core lists applications, not if    *)
(* the queue is full, not if Core quits or the daemon dies under it, nor behind    *)
(* a send that waits at one end; only if both ends wait in one.                  *)
Answered ==
    \A c \in 1..MaxCalls :
        (c \in DOMAIN calls) ~> (c \in DOMAIN calls /\ calls[c] # Waits) \/ Jammed

(* Whenever the UI connects and however its own switches cross the pushes, in     *)
(* the end it shows what Core has.                                            *)
Current == cache = devices /\ page = session
UiCurrent == <>[](Current \/ Off \/ link = "down" \/ Jammed)

(* The daemon's end is seen: the UI does not stay "connected".                  *)
EndSeen == Off ~> (link # "up")
=============================================================================
