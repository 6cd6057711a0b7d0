--------------------------- MODULE ClientSession ---------------------------
(***************************************************************************)
(* One phone server and the PC sessions that use it: the handshake, the     *)
(* registration of media endpoints, the ways a client is closed on either   *)
(* side (BYE, silence, missed heartbeats, an overrun receive buffer), and    *)
(* the exit of the server.                                                 *)
(*                                                                         *)
(* Every PC session has a socket, and so an address, of its own: a peer.     *)
(* On the phone, the control thread serves all clients; a watchdog thread    *)
(* per client may close it too.  close() is three steps (the test of        *)
(* `closed`, its setting, the removal from the maps), which threads may     *)
(* interleave.                                                              *)
(*                                                                         *)
(* Heartbeats are not messages here: a tick hears every client whose PC      *)
(* session lives and whose path is not out.  One lost heartbeat never        *)
(* matters, an outage is one of MaxOutages.                                 *)
(***************************************************************************)
EXTENDS Integers, Sequences

CONSTANTS Peers,         \* the PC sessions
          MaxMiss,       \* MAX_HEARTBEAT_MISS
          MaxClients,    \* bound: clients the server accepts
          MaxOutages     \* bound: outages of a path

ASSUME MissAssumption == MaxMiss \in Nat
ASSUME BoundsAssumption == MaxClients \in Nat /\ MaxOutages \in Nat

VARIABLES
    pc,          \* PC session of each peer: "idle", "hello", "up", "closed"
    cid,         \* its client_id, 0 before HELLO_ACK
    flowing,     \* peers whose session has received media
    pending,     \* peers with a reliable message not yet acknowledged
    heardBy,     \* the client that has acknowledged their messages so far, or 0
    net,         \* datagrams under way
    out,         \* peers whose path is out
    outages,     \* how many outages there have been
    owner,       \* peer of each client accepted so far, by client_id
    byAddr,      \* UdpServer.clients: the client_id at an address, or 0
    byId,        \* UdpServer.clientById
    accepting,   \* the client made by acceptSrc that is in no map yet, or 0
    closed,      \* clients whose `closed` is set
    dead,        \* clients whose ctrlReceiver is dead
    endpoint,    \* clients whose media endpoint is registered
    misses,      \* heartbeatMisses of each client
    closing,     \* calls of close() under way: client, thread, progress
    exited       \* the server process has ended

session == <<pc, cid, flowing, pending, heardBy>>
path    == <<net, out, outages>>
maps    == <<owner, byAddr, byId, accepting, endpoint>>
ends    == <<closed, dead, misses, closing, exited>>
vars    == <<session, path, maps, ends>>

Ids == DOMAIN owner

Message ==
    [type : {"HELLO", "BYE"}, peer : Peers, id : {0}]
    \cup [type : {"HELLO_ACK", "OPEN"}, peer : Peers, id : 1..MaxClients]
Msg(type, p, id) == [type |-> type, peer |-> p, id |-> id]

Init ==
    /\ pc = [p \in Peers |-> "idle"] /\ cid = [p \in Peers |-> 0]
    /\ flowing = {} /\ pending = {} /\ heardBy = [p \in Peers |-> 0]
    /\ net = {} /\ out = {} /\ outages = 0
    /\ owner = <<>> /\ byAddr = [p \in Peers |-> 0] /\ byId = {} /\ endpoint = {}
    /\ accepting = 0
    /\ closed = {} /\ dead = {} /\ misses = <<>> /\ closing = {} /\ exited = FALSE

(* A datagram arrives unless its path is out. *)
Arrives(m) == m \in net /\ m.peer \notin out
-----------------------------------------------------------------------------
(* The PC: UdpSession.                                                      *)

PhoneUnchanged == UNCHANGED <<maps, ends, out, outages>>

(* connect: HELLO every 100 ms until HELLO_ACK has been seen. *)
SendHello(p) ==
    /\ pc[p] \in {"idle", "hello"}
    /\ pc' = [pc EXCEPT ![p] = "hello"]
    /\ net' = net \cup {Msg("HELLO", p, 0)}
    /\ UNCHANGED <<cid, flowing, pending, heardBy>> /\ PhoneUnchanged

(* dispatch of HELLO_ACK: any of them sets the client_id. *)
RecvHelloAck(m) ==
    /\ m.type = "HELLO_ACK" /\ Arrives(m)
    /\ net' = net \ {m}
    /\ IF pc[m.peer] \in {"hello", "up"}
       THEN /\ cid' = [cid EXCEPT ![m.peer] = m.id]
            /\ pc' = [pc EXCEPT ![m.peer] = "up"]
       ELSE UNCHANGED <<cid, pc>>
    /\ UNCHANGED <<flowing, pending, heardBy>> /\ PhoneUnchanged

(* Mutant of SendOpen: the flag is inverted.                                 *)
SendOpenFlowing(p) ==
    /\ pc[p] # "closed" /\ cid[p] # 0 /\ p \in flowing
    /\ net' = net \cup {Msg("OPEN", p, cid[p])}
    /\ UNCHANGED session /\ PhoneUnchanged

(* Writer thread: OPEN until media has been received. *)
SendOpen(p) ==
    /\ pc[p] # "closed" /\ cid[p] # 0 /\ p \notin flowing
    /\ net' = net \cup {Msg("OPEN", p, cid[p])}
    /\ UNCHANGED session /\ PhoneUnchanged

(* A media datagram of the session's client_id, which may be a late one. *)
RecvMedia(p) ==
    /\ pc[p] = "up" /\ p \notin out /\ p \notin flowing
    /\ cid[p] \in endpoint
    /\ flowing' = flowing \cup {p}
    /\ UNCHANGED <<pc, cid, pending, heardBy, net>> /\ PhoneUnchanged

(* A reliable message goes out; the phone acknowledges it if it knows the     *)
(* address and has had all that went before.                                 *)
SendCtrl(p) ==
    /\ pc[p] = "up" /\ p \notin pending
    /\ pending' = pending \cup {p}
    /\ UNCHANGED <<pc, cid, flowing, heardBy, net>> /\ PhoneUnchanged

At(p) == byAddr[p]

Served(p) == /\ At(p) # 0 /\ At(p) \notin closed \cup dead /\ p \notin out /\ ~exited
             /\ heardBy[p] \in {0, At(p)}

(* The control thread is in no close() and in no acceptSrc, and the process runs. *)
CtrlFree == ~exited /\ accepting = 0 /\ \A k \in closing : k.by # "ctrl"

CtrlAcked(p) ==
    /\ p \in pending /\ Served(p) /\ CtrlFree
    /\ pending' = pending \ {p}
    /\ heardBy' = [heardBy EXCEPT ![p] = At(p)]
    /\ UNCHANGED <<pc, cid, flowing, net>> /\ PhoneUnchanged

(* close: BYE, once, and the threads end; the sender's state is gone. *)
Closes(p) ==
    /\ pc' = [pc EXCEPT ![p] = "closed"]
    /\ pending' = pending \ {p}
    /\ heardBy' = [heardBy EXCEPT ![p] = 0]
    /\ net' = net \cup {Msg("BYE", p, 0)}
    /\ UNCHANGED <<cid, flowing>> /\ PhoneUnchanged

HandshakeTimeout(p) == pc[p] = "hello" /\ Closes(p)
Stop(p)             == pc[p] = "up" /\ Closes(p)
Stalled(p)          == p \in pending /\ ~Served(p) /\ Closes(p)
-----------------------------------------------------------------------------
(* The phone: UdpServer and ClientConnection.                              *)

PcUnchanged == UNCHANGED <<session, out, outages>>

Call(c, thread) == [client |-> c, by |-> thread, at |-> "called"]

(* Mutant of Accept: a HELLO that is repeated makes a client again.          *)
AcceptAgain(m) ==
    LET c == Len(owner) + 1 IN
    /\ c <= MaxClients
    /\ owner' = Append(owner, m.peer) /\ misses' = Append(misses, 0)
    /\ accepting' = c
    /\ net' = (net \ {m}) \cup {Msg("HELLO_ACK", m.peer, c)}

(* acceptSrc: a HELLO from an unknown address makes a client, which answers    *)
(* before it is in the maps.                                                 *)
Accept(m) ==
    LET c == Len(owner) + 1 IN
    /\ At(m.peer) = 0 /\ c <= MaxClients
    /\ owner' = Append(owner, m.peer) /\ misses' = Append(misses, 0)
    /\ accepting' = c
    /\ net' = (net \ {m}) \cup {Msg("HELLO_ACK", m.peer, c)}

(* onFrame of a known one: acknowledged again, or ignored if it is closing.   *)
AckAgain(m) ==
    LET c == At(m.peer) IN
    /\ c # 0
    /\ net' = IF c \in closed THEN net \ {m}
                              ELSE (net \ {m}) \cup {Msg("HELLO_ACK", m.peer, c)}
    /\ UNCHANGED <<owner, misses, accepting>>

RecvHello(m) ==
    /\ m.type = "HELLO" /\ Arrives(m) /\ CtrlFree
    /\ Accept(m) \/ AckAgain(m)
    /\ UNCHANGED <<byAddr, byId, endpoint, closed, dead, closing, exited>> /\ PcUnchanged

(* The end of acceptSrc, and onFrame of the HELLO that has made the client.     *)
Admit ==
    /\ accepting # 0
    /\ LET c == accepting
           p == owner[c]
       IN  /\ byAddr' = [byAddr EXCEPT ![p] = c] /\ byId' = byId \cup {c}
           /\ net' = net \cup {Msg("HELLO_ACK", p, c)}
    /\ accepting' = 0
    /\ UNCHANGED <<owner, endpoint, ends>> /\ PcUnchanged

(* onData with more than the receive buffer holds: the client is closed, and    *)
(* nothing is acknowledged.                                                  *)
Overrun(p) ==
    /\ p \in pending \ out /\ CtrlFree
    /\ At(p) # 0 /\ At(p) \notin closed \cup dead
    /\ dead' = dead \cup {At(p)}
    /\ closing' = closing \cup {Call(At(p), "ctrl")}
    /\ UNCHANGED <<maps, closed, misses, exited, net>> /\ PcUnchanged

RecvBye(m) ==
    /\ m.type = "BYE" /\ Arrives(m) /\ CtrlFree
    /\ net' = net \ {m}
    /\ closing' = IF At(m.peer) = 0 \/ At(m.peer) \in closed THEN closing
                  ELSE closing \cup {Call(At(m.peer), "ctrl")}
    /\ UNCHANGED <<maps, closed, dead, misses, exited>> /\ PcUnchanged

(* Media thread: any datagram of a known client_id registers the endpoint. *)
RecvOpen(m) ==
    /\ m.type = "OPEN" /\ Arrives(m) /\ ~exited
    /\ net' = net \ {m}
    /\ endpoint' = endpoint \cup ({m.id} \cap byId)
    /\ UNCHANGED <<owner, byAddr, byId, accepting, ends>> /\ PcUnchanged

Alive(c) == pc[owner[c]] \in {"hello", "up"} /\ owner[c] \notin out

(* Mutant of Silent: the limit is shorter than a handshake.                  *)
SilentBriefly(c) == ~Alive(c)

(* Nothing heard of the client for 60 s.  The handshake is given up after     *)
(* 10 s, so its PC is past it, and no HELLO is a minute late.                  *)
Silent(c) ==
    /\ ~Alive(c) /\ pc[owner[c]] # "hello"
    /\ Msg("HELLO", owner[c], 0) \notin net

(* tick: heartbeats are counted for the clients at hand, those that missed     *)
(* too many are closed; a tick that finds no client ends the server, if it     *)
(* has had one or its start is long ago.                                     *)
Clients == {At(p) : p \in Peers} \ {0}
(* Mutants of Missed: no count is kept; a heartbeat does not reset it.         *)
MissedOnce(c) == IF Alive(c) THEN 0 ELSE 1
MissedAlways(c) == IF c \notin Clients \/ misses[c] > MaxMiss THEN misses[c]
                   ELSE misses[c] + 1

Missed(c) == IF c \notin Clients THEN misses[c]
             ELSE IF Alive(c) THEN 0
             ELSE IF misses[c] > MaxMiss THEN misses[c] ELSE misses[c] + 1

Tick(startIsLongAgo) ==
    /\ CtrlFree
    /\ misses' = [c \in Ids |-> Missed(c)]
    /\ closing' = closing \cup {Call(c, "ctrl") : c \in {d \in Clients : Missed(d) > MaxMiss}}
    /\ exited' = (Clients = {} /\ (owner # <<>> \/ startIsLongAgo))
    /\ UNCHANGED <<maps, closed, dead, net>> /\ PcUnchanged

(* sweepIdle on the control thread and the client's watchdog. *)
SweepIdle(c) ==
    /\ CtrlFree /\ c \in Clients /\ Silent(c)
    /\ closing' = closing \cup {Call(c, "ctrl")}
    /\ UNCHANGED <<maps, closed, dead, misses, exited, net>> /\ PcUnchanged

Watchdog(c) ==
    /\ ~exited /\ c \notin closed /\ c # accepting /\ Silent(c)
    /\ \A k \in closing : k.client # c \/ k.by # "watchdog"
    /\ closing' = closing \cup {Call(c, "watchdog")}
    /\ UNCHANGED <<maps, closed, dead, misses, exited, net>> /\ PcUnchanged

(* close(): the test of `closed`, ... *)
TestClosed(k) ==
    /\ k.at = "called"
    /\ closing' = (closing \ {k}) \cup
                  IF k.client \in closed THEN {} ELSE {[k EXCEPT !.at = "open"]}
    /\ UNCHANGED <<maps, closed, dead, misses, exited, net>> /\ PcUnchanged

(* ... its setting, ... *)
SetClosed(k) ==
    /\ k.at = "open"
    /\ closed' = closed \cup {k.client}
    /\ closing' = (closing \ {k}) \cup {[k EXCEPT !.at = "set"]}
    /\ UNCHANGED <<maps, dead, misses, exited, net>> /\ PcUnchanged

(* ... and, last of the cleaning up, removeClient: by address and by id. *)
RemoveClient(k) ==
    /\ k.at = "set"
    /\ byAddr' = [byAddr EXCEPT ![owner[k.client]] = 0]
    /\ byId' = byId \ {k.client}
    /\ closing' = closing \ {k}
    /\ UNCHANGED <<owner, accepting, endpoint, closed, dead, misses, exited, net>> /\ PcUnchanged
-----------------------------------------------------------------------------
(* The path. *)

Lose(m) ==
    /\ net' = net \ {m}
    /\ UNCHANGED <<session, out, outages, maps, ends>>

Outage(p) ==
    /\ p \notin out /\ outages < MaxOutages
    /\ out' = out \cup {p} /\ outages' = outages + 1
    /\ UNCHANGED <<session, net, maps, ends>>

PathBack(p) ==
    /\ p \in out
    /\ out' = out \ {p}
    /\ UNCHANGED <<session, net, outages, maps, ends>>
-----------------------------------------------------------------------------
PcStep(p) ==
    \/ SendHello(p) \/ SendOpen(p) \/ RecvMedia(p)
    \/ SendCtrl(p) \/ CtrlAcked(p)
    \/ HandshakeTimeout(p) \/ Stop(p) \/ Stalled(p)
CloseStep(k) == ~exited /\ (TestClosed(k) \/ SetClosed(k) \/ RemoveClient(k))

Next ==
    \/ \E p \in Peers : PcStep(p) \/ Overrun(p) \/ Outage(p) \/ PathBack(p)
    \/ Admit
    \/ \E m \in net : RecvHelloAck(m) \/ RecvHello(m) \/ RecvBye(m) \/ RecvOpen(m)
                      \/ Lose(m)
    \/ \E b \in BOOLEAN : Tick(b)
    \/ \E c \in Ids : SweepIdle(c) \/ Watchdog(c)
    \/ \E k \in closing : CloseStep(k)

Spec == Init /\ [][Next]_vars

(* Threads run and retransmissions get through in the end.  A reliable message *)
(* is acknowledged or its sender stalls.                                      *)
Fairness ==
    /\ WF_vars(Tick(TRUE)) /\ WF_vars(Admit)
    /\ \A c \in 1..MaxClients, thread \in {"ctrl", "watchdog"} :
          WF_vars(\E k \in closing : k.client = c /\ k.by = thread /\ CloseStep(k))
    /\ \A p \in Peers :
          /\ WF_vars(SendOpen(p))
          /\ WF_vars(Stalled(p))
          /\ SF_vars(\E m \in net : m.peer = p /\ RecvOpen(m))

FairSpec == Spec /\ Fairness
-----------------------------------------------------------------------------
TypeOK ==
    /\ pc \in [Peers -> {"idle", "hello", "up", "closed"}]
    /\ cid \in [Peers -> 0..MaxClients]
    /\ flowing \subseteq Peers /\ pending \subseteq Peers
    /\ heardBy \in [Peers -> 0..MaxClients]
    /\ net \subseteq Message /\ out \subseteq Peers /\ outages \in 0..MaxOutages
    /\ owner \in Seq(Peers) /\ Len(owner) <= MaxClients
    /\ byAddr \in [Peers -> 0..Len(owner)] /\ byId \subseteq Ids
    /\ accepting \in 0..Len(owner)
    /\ endpoint \subseteq Ids /\ closed \subseteq Ids /\ dead \subseteq Ids
    /\ misses \in [Ids -> 0..(MaxMiss + 1)]
    /\ closing \subseteq [client : Ids, by : {"ctrl", "watchdog"},
                          at : {"called", "open", "set"}]
    /\ exited \in BOOLEAN

(* A client that is not closed is reachable: the map by address leads to it,    *)
(* so that its heartbeats count and its BYE closes it (UdpServer: "close() may  *)
(* come from the watchdog thread, must be safe under concurrency").             *)
NoZombie == \A c \in byId \ closed : byAddr[owner[c]] = c

(* The peers of whom a client was closed because its receive buffer overran:    *)
(* the phone gives such a session up although its network has not failed.       *)
Overran == {owner[c] : c \in dead}

(* The server does not leave a session that its network has never failed and    *)
(* whose messages it could hold: a tick may come between any two steps of a       *)
(* handshake or a close.                                                     *)
NoEarlyExit == exited /\ outages = 0 => \A p \in Peers \ Overran : pc[p] # "up"

(* A client id is nobody else's: what HELLO_ACK tells a session, and what its   *)
(* OPEN registers, is a client that was made for its own address, however late   *)
(* the datagrams come.                                                       *)
OwnClient ==
    /\ \A p \in Peers : cid[p] # 0 => cid[p] \in Ids /\ owner[cid[p]] = p
    /\ \A m \in net : m.type \in {"HELLO_ACK", "OPEN"} =>
                         m.id \in Ids /\ owner[m.id] = m.peer

(* Both ends mean the same client while the network has never failed and no      *)
(* receive buffer has overrun: the id of a session that is up is that of the open  *)
(* client at its address, or of the one about to be put there, whichever of the    *)
(* repeated HELLOs and HELLO_ACKs it has been answered with.                    *)
SameClient ==
    outages = 0 =>
        \A p \in Peers \ Overran :
            pc[p] = "up" => /\ cid[p] \notin closed
                            /\ \/ cid[p] = byAddr[p] /\ cid[p] \in byId
                               \/ cid[p] = accepting

(* removeClient, which removes by address whatever it finds there, takes away    *)
(* the client of its own close() only, and from both maps.                      *)
OwnRemoval ==
    [][\A p \in Peers : byAddr[p] # 0 /\ byAddr'[p] # byAddr[p] =>
           byAddr'[p] = 0 /\ byAddr[p] \in closed /\ byAddr[p] \notin byId']_vars

(* When every PC session has gone, the phone's server ends by itself, whatever  *)
(* was lost, late or closed twice.                                            *)
ServerExits == <>[](\A p \in Peers : pc[p] \in {"idle", "closed"}) => <>exited

(* A session that stays up, and of whom no client has overrun, gets its media     *)
(* endpoint registered.                                                      *)
EndpointRegistered ==
    \A p \in Peers :
        <>[](pc[p] = "up" /\ outages = 0 /\ p \notin Overran) => <>(cid[p] \in endpoint)
=============================================================================
