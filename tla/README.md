# A TLA+ model of Kulua

Kulua couples a PC with Android phones: clipboard, notifications, audio and
"fusion" windows (single phone apps mirrored into PC windows).  A Rust daemon
on the PC (`sync-core`, `daemon`) pushes a small Java server
(`kulua-server`) to the phone over adb and talks to it over UDP
(`kulua-proto`).  This directory holds the TLA+ modules that model the system,
the TLC configurations that check them, and the TLAPS proofs about them.

## 1. The system and its parts

| Part | Source | State it keeps | Operations | What makes it hard |
|---|---|---|---|---|
| Control stream | `kulua-proto/src/reliable.rs`, `ReliableControl.java` | window of unacknowledged fragments, stall flag; expected seq, out-of-order buffer, dead flag | send a message, ACK, retransmit, receive a fragment, flush an ACK | loss, duplication, reordering; two implementations that differ |
| PC session | `kulua-proto/src/session.rs` | connected, client id, closed flag, media sockets | HELLO with retry, heartbeat, OPEN, BYE, dispatch | reader, writer and media threads against `close` |
| Media datagrams | `kulua-proto/src/codec.rs`, `MediaDatagram.java` | partial frames, last completed frame | split, reassemble, sweep | loss, reordering, interleaved frames |
| Phone server | `Server.java`, `UdpServer.java`, `ClientConnection.java` | clients by id and by address, accepted peers, last iteration | HELLO, heartbeat, BYE, sweep of idle clients, watchdog, exit | one control thread, a media thread, timers per client |
| Phone audio | `AudioLink.java`, `AudioCapture.java` | requested revision and state, capture run, frame counter | apply a request, start, stop, report | capture thread against control thread |
| PC audio | `sync-core/src/session/audio.rs` | link state, revision, deadlines, retries | desired on or off, acknowledgement, frame, tick, retry | timeouts against late answers |
| Displays | `DisplayRegistry.java`, `DisplayEncoder.java`, `ClientConnection.createDisplay` | registry of displays, an encoder with its thread for each | create, destroy, resize, configuration, frame, resend | the control thread waits for encoder threads with the registry's monitor held |
| Clipboard | `app.rs`, `runner.rs`, `clipboard.rs`, `Clipboard.java` | the clipboards, the texts last seen and last received | poll, broadcast, set, echo, monitor | echoes that cross newer copies |
| Sessions | `session/{handle,runner,deploy}.rs`, `scrcpy.rs` | handle state, stop flag, blocking deployment, the server on the phone | deploy, connect, run, stop, fail, clean up | a stop while another thread deploys; ends that race with the wait for them |
| Core | `app.rs` | devices, sessions by serial, ring of pending addresses | commands, tick, adb's list, mDNS events | stale lists, one phone under several addresses, crashed sessions that look alive |
| Device discovery | `device_refresh.rs`, `wireless_pair.rs`, `types.rs` | the list last read, kinds and priority of addresses | read, merge, pair | empty lists, addresses that move to another phone |
| IPC | `sync-core/src/ipc/` | connection task, queue to Core, reply channels | requests by kind, pushes, end of the daemon | bounded queues in a circle, calls that time out and are answered late |
| Desktop UI | `ui/src-tauri/src/lib.rs`, `App.vue` | windows by call number, connection, the page's copy | calls, pushes, reconnection to the port | the daemon ends with calls under way |

What makes each part correct, in one line:

* **Control stream**: whole messages, in order, once; nothing is released before
  it has arrived; what cannot be delivered is noticed.
* **PC session and phone server**: both ends mean the same client; a client that lives
  can be reached; the server ends when all have left and not before; media finds its target.
* **Media datagrams**: a frame is never mixed of two, an older one never follows
  a newer.
* **Audio**: no frame meets a foreign decoder; the state shown is the phone's; a
  switch is answered or given up; wanted audio is heard again after a fault.
* **Displays**: a display is announced at most once and while it is in the registry
  (that the display itself is there by then is what the code means and does not keep:
  run `displays_ready`); destroying one ends and leaves nothing behind; the decoder never
  gets a part of a configuration, nor frames of an older codec behind a newer one's.
* **Clipboard**: echoes die out, and then PC and phone agree.
* **Sessions and Core**: one entry per phone; no session runs that nobody holds; a
  session that has ended or whose device has gone is noticed; no handler waits for ever.
* **IPC and UI**: each call gets its own answer or an error; the UI ends with what
  Core has, and sees the daemon's end.

What is left out, and why, is in section 6.

## 2. Modules

| Module | Stands for | State |
|---|---|---|
| `FifoChannel` | what one direction of the control stream promises | the fragments accepted and those delivered |
| `ReliableChannel` | `ReliableSender`/`ReliableReceiver` (Rust) and `ReliableControl` (Java), with the network between | window with loss counts, frames and ACKs in flight, receive buffer, stall, death |
| `RingSeq` | `seq_le`, `inWindow` and the PC's `<`, beside `ReliableChannel` | |
| `MCReliable` | instances of both | |
| `ReliableProofs` | theorems about both | |
| `AudioControl` | `Link`, the runner's loop, the audio task; `AudioLink`, `AudioCapture` | target, plan, awaited answer, rescues; watch and event channels; player; capture; commands, replies, frames on the way |
| `MCAudio` | instances of it | |
| `AudioProofs` | theorems about it | |
| `ClientSession` | `UdpSession`; `UdpServer`, `ClientConnection` | session state and client id; client maps, endpoints, missed heartbeats, `closed`, closes under way, exit |
| `MCClient` | instances of it | |
| `ClientProofs` | theorems about it | |
| `MediaStream` | what one media stream promises the decoder | the frames offered and those shown |
| `MediaReassembly` | `sendMedia`, `MediaDatagram`; `MediaReassembler` | the two counters, numbers taken, datagrams under way, last frame, parts |
| `MCMedia` | instances of it | |
| `MediaProofs` | theorems about `MediaReassembly` | |
| `Core` | `Core`'s devices, ring and sessions; `Handle`, `Session::run`, `deploy`, `scrcpy` | entries and their addresses, pending addresses, the list last read; each session's task, blocking thread and server; the handler Core is in |
| `MCCore` | phones, addresses and identities | |
| `CoreProofs` | theorems about `Core` | |
| `ClipboardSync` | clipboard part of `Core` and of the runner; `Clipboard.java` | the clipboards, last text seen and received, texts on the way, the monitors |
| `MCClipboard` | instances of it | |
| `ClipboardProofs` | theorems about `ClipboardSync` | |
| `CallService` | what the UI's calls promise | the calls and their outcomes |
| `Ipc` | `connect_daemon` and the page; `server.rs`, `handlers.rs`; Core's side of a call | calls and their outcomes, the wires, the connection's task, the queue, Core's reply |
| `MCIpc` | instances of it | |
| `IpcProofs` | theorems about `Ipc` | |
| `DisplayLife` | what the phone promises of a display | how far each display has come, what was sent of it last |
| `Displays` | `DisplayRegistry`, `DisplayEncoder`, `createDisplay` | registry, what the control thread waits for, each encoder and its thread, what was sent |
| `MCDisplays` | instances of it | |
| `DisplayProofs` | theorems about it | |

Every operation is one action with the name of its function where it has one;
`PROJECT.json` maps each definition to its lines.

**`ReliableChannel`.**  One module for both directions: `Direction` says which
implementation sends.  They differ in three places: the PC's stalled sender closes
its session, the phone's stays and drops what it is given; the PC takes a stall back
when it is sent something or an ACK makes progress; the PC acknowledges on its 25 ms
tick, the phone at once.  `Send` is `send_ctrl_bytes` with the first transmission,
`Timeout` one pass of the retransmission timer, `RecvData` is `on_frame` with its
delivery loop, buffer check and acknowledgement.  `loss` is the window: sequence
number to loss count.  Timers are abstract (any entry may be due, an older one no
later than a younger one that was resent as often).  A datagram may be taken from
the network in any order, or stay in it after it has been received (duplicate), or
be lost.  The delivery loop is written without recursion (`LoopEnds`), so that it
can be proved about; `LoopAgrees` compares it with the loop as the code has it
(`LoopOver`).

**`RingSeq`.**  The channel counts on where the code's numbers are 32 bits wide and wrap.
`RingSeq` adds no state: the channel is looked at after `Past` fragments that have gone
through, so a number n of it is `On(n)` in the code; the ring has four times `Quarter`
numbers, and the three comparisons are those of the code: `seq_le`
in both senders, `inWindow` in the phone's receiver, a plain `<` in the PC's.
`RingAgrees` says that the first two decide as the channel does as long as nothing that
is compared is a quarter of the ring old (`Recent`).

**`AudioControl`.**  `Tick` is one beat of the runner: `drive`, the send, then
`poll_stall_retry`.  Commands and replies ride the control stream and are FIFOs
here, which `ImplementsFifo` justifies.  Frames are a set: the media port loses and
reorders.  The audio task takes an event in two steps (`TakeEvent`, `Count`), since
`feed_frame` runs while the runner goes on.  Faults are named by kind: a capture that
fails or hangs, a join that times out, a dark media port, a frame that does not
decode, the task preempted inside its select.  A timer that fires early and a failed send
of a rescue are counted apart, as `slips`, so that they may come on top of a fault.  A
capture that has had no frame for five seconds is `stale`: its clock (`lastFrameNanos`) is
set by `start()` and by a frame that is sent, and by nothing else, so each round that
`runLoop` begins again ends at its first `checkStall`.  Such a capture never recovers by
itself; only a new command, that of a rescue, replaces it.

**`ClientSession`.**  A peer is a PC session with its own socket.  The phone's control
thread, the media thread and a watchdog per client act in turn; `close()` is three
steps (`TestClosed`, `SetClosed`, `RemoveClient`) and may be under way on the control
thread and on a watchdog at the same time.  `Accept` makes the client and its
HELLO_ACK, `Admit` puts it into the maps: a session may be up before the server knows its
address.  `Overrun` is `onData` with a receiver that is dead: the control thread closes
the client, and the session hears no more ACKs.  `heardBy` is the client that has had the
session's messages so far: another one waits for those before, so it acknowledges none.
Heartbeats are not messages: a tick hears
every client whose session lives and whose path is not out.  The two media endpoints
of a client are one here.

**`MediaReassembly`.**  One media stream.  A phone thread takes a sequence number and
calls `sendMedia`, which takes a message id: two steps, so that with two threads ids
and numbers may cross.  `DropMedia` is a send before the viewer's OPEN, or a number of
the shared counter that went to the other stream.  `Push` has the three ways through
`push`: refused as stale, a frame in one datagram, a fragment.  The branch of `push`
for a message id that meets two sequence numbers is not there: `HeadsOK` shows that
the phone never sends such a pair.  `Sweep` may drop a part at any time, which is what
its timer comes to.  The content of a frame is told by where each fragment is from.

**`Core`.**  An address is of a kind (USB serial, host and port, mDNS name) and leads to
one phone at a time; it may move.  Core handles one thing at a time: a command, a beat
of the tick, a frame of adb's list, an mDNS event.  A handler that waits is several
actions (`HandlerSteps`): asking an address for its serial number, waiting for a
session to end.  A session's task goes through deployment (on a blocking thread that
an abort does not reach), connection, running and cleanup; any adb call may fail and
any step may find the session's stop flag set.  `Entry` and `Inserted` are
`insert_device`, by serial number or by the address itself; `Without` is removal from
the ring.

**`ClipboardSync`.**  `Poll` is one look at the PC's clipboard with the broadcast to
every session, `SendToPhone` and `FromPhone` the runner's two branches,
`OnPhoneClipboard` the handler in Core.  On the phone `SetClipboard` and `BroadcastChange`
are two steps of the control thread, `MonitorReads` and `MonitorReports` two of the
monitor's; a copy may come between any of them.  A set may fail, and is broadcast all
the same; a text of `Long` is refused.  Sessions start at any time (`StartSession`,
`Listen`), so a text may be copied on the PC when nobody is subscribed, or reported by a
monitor to which nobody listens (`unheard`).  A switched-off session takes texts from its
channel and drops them.  Texts get lost for good in three ways, which `troubles` names: a
text was copied a second time ("again"), setting one failed ("unset"), or a copy on the
phone came between a set and its broadcast ("crossed").

**`Ipc`.**  One UI connection.  A call has a number in its window; `Invoke` sends it,
the connection's task takes it, answers a query itself, queues an update for Core, or
waits for Core's reply with a timeout.  Core serves one request at a time and may list
applications for long.  `WireLimit` frames fit into the sockets' buffers, each way; a
frame beyond them is one that is still being sent, and its sender, the UI's loop
(`UiFree`) or the daemon's task (`DaemonFree`), reads nothing until there is room.  If both
wait so, each for the other to read, they do so until the daemon ends (`Jammed`).  `Quit`
is the orderly end, after which the process goes and the task with it wherever it is
(`Closes`), `Dies` the process killed; of what was on the wire, any first part is still
read (`Ends`).

**`Displays`.**  The control thread is in one of `idle`, `await` (in `createDisplay`) and
`join` (in `destroy`); `Held` says when it has the registry's monitor.  An encoder's
record has the step its thread is at and the fields both threads use.  A failed
creation releases the latch and clears `running` in two steps, or never clears it, as
the handlers do.  Two seconds of waiting may end at any time if `Slow`, and only when
what is waited for has happened if not.  Configurations and DisplayReady ride the client's
reliable sender, frames do not.  Once the sender has stalled (`SenderStalls`) or close()
has stopped it, it is `mute`: it drops what it is given, nobody is told, and frames go on.
close() comes between two requests of its client: on the control thread it does, and the
watchdog that also calls it does so a minute after the client was last heard; the
overlap of that call with a request that comes in just then is not there.
`DisplayLife` is the same by what is sent: `Phase` says how far a display has come, `sent`
what went out for it last, `mute` whether the reliable stream is cut off.  A display that
has been destroyed may still be sent frames of, until its thread has ended.

## 3. What is checked

| Run | What it shows | Bounds |
|---|---|---|
| `channel_pc` | `ChannelInv`, `OverrunNeedsBacklog`, `RingAgrees`; the channel implements `FifoChannel`; `DeliveredOrNoticed` | PC to phone, 2 messages of 1 or 2 fragments, buffer of 1, `LossLimit` 1, 3 losses, RTO perhaps too short; a ring of 32 numbers, 30 of them used up before |
| `channel_phone` | `ToleratesLosses`, `AllAcknowledged`, `LoopAgrees` | phone to PC, 2 messages, `LossLimit` 2, 2 losses, RTO above the round trip |
| `audio_play` | `RevisionNamesCodec`, `NoForeignAudio`, `RuntimeHonest`; `SwitchSettles`, `Converges`, `Plays` | a session that starts with one of 2 codecs (the other needs a configuration), one switch, one retry, one slip (a timer that fires early, a failed send of a rescue), one fault of any kind |
| `client_session` | `SameClient`, `NoZombie`, `NoEarlyExit`, `ServerExits`, `EndpointRegistered` | one peer, two clients, one outage, any number of overruns, removed after 2 missed beats |
| `media` | `MediaInv`; the reassembler implements `MediaStream`; `ShownOrOvertaken` | 2 threads, 3 frames of 1 or 2 fragments, one datagram lost or part swept |
| `core` | `RegistryInv`, `NoStray`; `DeadNoticed`, `GoneStopped`, `CoreReturns`, `RingMoves` | one phone with a USB serial and an address that another phone may get; 2 changes of adb's list, 2 commands, 2 sessions, 2 attempts, any call may fail |
| `clipboard` | `TypeOK`, `Agreement`, `PcReachesAll`; `Settles` | 2 phones whose sessions start at any time, 3 texts of which phones refuse one, 2 copies anywhere (before the start or later), one failed write on either side or one switch of a session, a session's channel of 1 |
| `ipc` | the UI's calls implement `CallService`; `Answered`, `UiCurrent`, `EndSeen` | 2 calls, one change in Core, queue of 1, 1 frame in the sockets' buffers each way and one more being sent |
| `displays` | `DisplaysInv`, `FramesDecodable`; the displays implement `DisplayLife`; `DestroyEnds` | 2 displays, one resize, configurations in 2 parts, any wait may be too short, the reliable sender may stall at any time |

Runs that end in a violation, each a statement of the documentation or of a comment
that the code does not keep:

| Run | The statement | What happens |
|---|---|---|
| `audio_silence` | a stream that breaks while running shows FAILED | after `MAX_RETRIES` rescues the phone's "on" stands for good |
| `core_vanished` | what has left adb's list is cleaned up | when the last device leaves, the empty list is skipped and its session kept |
| `displays_ready` | DisplayReady waits for the virtual display; a failure is told apart by `isRunning` | the latch of a failed creation is released before `running` is cleared, or it is not cleared at all: the display is announced, and its input goes to the phone's own screen |

**Bounds and why they are enough.**  The channel compares sequence numbers and message
boundaries only, so two sizes (single and split) and two messages give every position of a
gap against a boundary: before, inside and behind a message, with a buffer small enough to
overrun.  In `channel_pc` the second fragment is number 0 on the ring of 32: what is
compared lies on both sides of the wrap, less than a quarter of the ring apart, so `seq_le`
and `inWindow` have to decide across it (their plain form fails).  The proofs remove the
bounds, for both directions, for everything that is safety. In the audio chain a hazard
needs an old and a new revision and one overlapping answer or frame; a switch and a retry
give three revisions, and the safety part is proved without bounds.  In `client_session`
peers share nothing but the control thread and the test that no client is left, and one
outage is over or lasts, so one peer with two clients (a client and one that a late HELLO
makes) shows each interleaving of a handshake with a close; `MaxMiss` stands for 10 and is
2.  In `media` a mix-up needs two frames that are split and a third that overtakes; one loss
leaves a part behind for ever.  In `core` a phone with two addresses, one of which may come
to belong to another phone, gives every way of merging and of moving; two sessions allow one
to be started while the other is ending (fewer would forbid a start, which the code does
not).  mDNS names take part in the proofs only.  In `clipboard` two copies are what it takes
to have an echo cross a newer text or a copy come between two steps.  In `ipc` the queue of
one is full with one request, two calls are what a mixed-up answer needs, and with one frame
in the buffers both ends come to wait in a send.  In `displays` displays share the monitor
and the control thread, so two show what one does to another; a resize gives an old and a
new codec.  Each `MaxX` constant is named as a bound at its declaration.

**Fairness.**  Channel: the timer threads run, and a datagram that is not lost arrives.
Audio: threads run; a timer fires when nothing it waits for is under way; strong
fairness only where the runner waits for room in its channel.  It is fair to each
of its select branches: the biased order prefers the tick, which is due once in a
while only.  A fault is never forced and neither is the end of an outage.
Session: the control thread ticks, a close that has begun goes on, OPEN is resent
until one arrives (strong fairness: a lossy path delivers in the end), an
unacknowledged message stalls its sender.  The user, Stop and the application's
messages have no fairness, and the watchdog and the idle sweep need none for
`ServerExits`: the heartbeat count alone suffices.  Media: a datagram that is not lost
arrives; sending threads, sweeps and losses have no fairness.  Core: its loop takes
frames of adb's list and ticks, and a handler that has begun goes on; the steps of a
session have none, it may hang where it is.  Clipboard: the system's threads run, users
need not copy.  IPC: the UI's loop, the connection's task and Core run, and an ended
connection is seen; nobody has to call.  Displays: threads run, calls into the codec
and display services return in the end, and waits end; a loop that runs may do so for
ever, the control thread is forced on only where it is in the middle of an operation.

**Premises worth knowing.**  `Converges` and `Plays` leave out three states, each by name:
`Unattended`, a capture that hangs when the PC awaits nothing more (nobody awaits the
answer of the capture that HELLO starts); `Stranded`, in which the send of the last rescue
has failed, so that the audio task never learns of the plan the phone carries out; and a
media port that stays dark.  `SameClient`, `NoEarlyExit` and `EndpointRegistered` are about
sessions whose network has not failed and for whom no receive buffer of the phone has
overrun (`Overran`): the phone closes such a client while its session lives, and the PC
notices when its messages stay unacknowledged.  The PC's own receiver may overrun too;
then the session reports an error and ends (`session.rs:481`), which is `Closes`.
`ClientSession` assumes that no HELLO is received a minute after it was sent (`Silent`).
`NoZombie` rests on it, as the mutant of `Silent` shows: `close()` may run twice, and
`removeClient`, which removes by address, would take away a client that a HELLO has
made in between.  `Agreement` and `PcReachesAll` compare the clipboards when nothing is on
the way, all sessions are up and were never switched off, and none of the three `troubles`
has happened.  `Agreement` speaks of a text that somebody else could have got to know
(`Shared`): not of one that the PC copied when no session was subscribed, that phones
refuse, or that a monitor reported to nobody.  `PcReachesAll` is about the sessions that
were subscribed when the PC's text was new.  `Settles` needs that writes fail finitely
often.  `Answered` and `UiCurrent` leave out `Jammed`, which the run reaches: both ends of
the UI's connection wait in a send.  `FramesDecodable` lets a frame be behind an older
codec's configuration once the sender is `mute`.  `NothingKept` in `DisplaysInv` leaves
out a thread that has outlived the two seconds of the join (`overdue`); what it makes
afterwards, a codec or a display, is released by nobody.  `Ipc` has one UI window
process that does not reconnect, and a page that listens before it connects.

## 4. What is proved

`ReliableProofs`, for every set of message sizes, limits and bounds and for both
directions:

* `ChannelInvariant`: `Spec => []ChannelInv`
* `OverrunSafety`: `Spec => []OverrunNeedsBacklog`
* `Implements`: `Spec => ImplementsFifo`, the channel is a FIFO of whole messages
* `Tolerance`: `Spec => []ToleratesLosses`, no stall before `LossLimit` is exceeded
* `LoopStopsOnce`: the delivery loop has exactly one end
* `LoopSafety`: `Spec => []LoopAgrees`, which is the end of the loop as written
* `RingSafety`: `Spec => []RingAgrees`, the comparisons on the ring
* `PcUntilWrap`: `Spec => [](PcAgrees /\ PcDeafAtWrap)`, the PC's plain comparison

The assumptions are those of `ReliableChannel`: sizes are positive, limits natural numbers,
`Direction` one of two, and for the last two that `Quarter` is positive and `Past` a number.
That nothing is released before it has arrived (`NoEarlyRelease`, part of `ChannelInv`) is
not inductive by itself.  An ACK is safe only if it does not run ahead of the deliveries
(`NetworkOK`); that deliveries are a prefix of the wire needs the buffer to hold what was
sent (`ReceiverOK`), which needs frames in flight to be those of the wire (`NetworkOK`
again); that the loop stops between two messages needs the wire to consist of whole messages
(`WireOK`).  `ChannelInv` is the conjunction, and there is one lemma per action that keeps
it.  The delivery loop is the hard one: `LoopStops` shows that any point at which the loop
may stop is the end of a message and that what lies before is the wire's.
`OverrunNeedsBacklog` counts: the buffer is part of the window, and because no whole message
is next, at least one fragment of the window is missing from it.

`ToleratesLosses` compares a count in the sender with one in the network.  `LossesOK`
makes it inductive: an entry's count stays below the number of lost datagrams, or has
reached it and then its acknowledgement is `Coming`: what is missing up to the end of its
message is in flight or buffered, or, if it has been handed over, anything that is under
way will bring an ACK.  So an entry that times out while the timer is patient has
suffered a loss that no other resend of it has been charged with.  `Patient` is the
premise of the property as of the run: the RTO exceeds the round trip.
`LoopStopsOnce` takes the least sequence number that is missing (there is one, for the
buffer is finite) and the last end of a message before it; it takes the place of an
induction over the loop, which the prover does not have.  For `LoopSafety` the end so
described is shown to obey the equation by which `LoopOver` is defined (`LoopEndStep`);
so that function exists, and it is this one, since the greatest number at which two
solutions differed would be followed by one at which they agree (`LoopOverIsLoopEnd`).
`RingSafety` needs of the channel only that what is compared lies between the oldest
number still looked at and the end of the wire; then both sides of a comparison are
less than a quarter of the ring apart, and so are their remainders.

`MediaProofs`, for every set of threads, frame sizes and bounds (assumed: sizes are
positive):

* `MediaInvariant`: `Spec => []MediaInv`
* `MediaImplements`: `Spec => ImplementsStream`, the decoder is shown whole frames in order

That a frame is never mixed of two rests on message ids and sequence numbers standing
for each other (`HeadsOK`), which needs a number to be taken by one thread and used for
one frame (`NumbersOK`).  That the order holds rests on `FreshIsNewer`: what `push` does
not refuse is newer than the last frame shown, because that frame's part is gone
(`PartsOK`).  `FilledOK` counts: a part that has as many fragments as the frame has all
of them.

`CoreProofs`, for every set of phones, addresses and bounds (assumed: the kinds of
addresses and who may have them, `AddrAssumption`, `IdAssumption`; bounds are numbers):

* `CoreSafe`: `Spec => [](CoreInv /\ Once(pending))`
* `TypeCorrect`: `Spec => []TypeOK`
* `EntriesDistinct`: `Spec => []RegistryInv`, no two entries share a serial number or an address
* `NoStraySession`: `Spec => []NoStray`, no task runs that no entry holds
* `OneTaskEach`: `Spec => []OneAtATime`, no entry has two tasks that go on
* `EndsAreFinal`: `Spec => EndIsFinal`, no end and no failure of a session is taken back

`NoStray` needs to know which session a handler is waiting for while the entry is on its
way out (`HandlerOK`), and that what entries, tasks, threads and servers say of a session
fits together (`Linked`).  An address is in the ring once (`Once`), which is what makes
removal from it well-typed.

`OneAtATime` does not follow from `CoreInv`: the entry's handle is taken out before the
wait for its session begins, and by the entry alone a second session could be started
then.  That nothing is rests on `Owned`: an entry holds sessions of its own alone, and
while the end of one is waited for, its entry holds none, so the session waited for and a
held one are never of the same entry; `Start` needs the wait to be over.  `EndIsFinal` rests
on `FailedEnded` (a failed session's task has ended) and on what every step makes of every
session (`Fate`, `StepsFated`): the thread that an aborted task has left behind brings its
result to a session that is over.  Both are stated in `Core` and hold on the instance of
run `core`; they are listed as theorems, not among the properties of that run.

`ClipboardProofs`, for any phones (at least one), texts and bounds:

* `TypeCorrect`: `Spec => []TypeOK`
* `ClipboardInvariant`: `Spec => [](TypeInv /\ LinkOK /\ AgreementInv)`
* `ClipboardsAgree`: `Spec => []Agreement`
* `PcTextReachesAll`: `Spec => []PcReachesAll`, a text copied on the PC that is still there
  once all is quiet is on every phone it was sent to

`Agreement` speaks of quiet states only, so the invariant has to say where a text can be
while it is on its way.  `ToSend`: the phone's present text is still to be reported, because
the monitor has not looked, has noted it, the control thread is about to broadcast it, or it
is on the channel behind what is there.  `ToCome`: the same up to Core's queue.  A text on
its way is its phone's present one or is followed by it (`UpOK`, `InboxOK`); that is what
makes a late echo harmless.  If the PC's text came from the PC, every phone it was sent to
has it, or it is the last one on the way there, or the phone has something newer that Core
will take (`FromPcOK`, `Arriving`); if it came from a phone, that phone has it still or
something newer is to come (`FromPhoneOK`).  Before a session is up nothing goes through its
channel (`LinkOK`), and what its phone has the monitor will find or has told nobody
(`Unheard`).  The absence of `troubles` is a premise of `AgreementInv` itself: where a text
is copied twice Core drops it as the last one received, and where a set fails or is crossed
what is broadcast is not what the phone has (`SettingOK`); each makes the statement false.

`IpcProofs`, for any number of calls and any limits:

* `IpcInvariant`: `Spec => []IpcInv`; `TypeCorrect`: `Spec => []TypeOK`
* `IpcImplements`: `Spec => ImplementsCalls`, the UI's calls are those of `CallService`
* `AnswersMatch`: `Spec => []OwnAnswer`, the same said of states
* `AnsweredOnce`: `Spec => OutcomeIsFinal`; `NoneLeftWaiting`: `Spec => []NoneForgotten`

An answer that comes after its call has timed out must not be taken for that of the
next one.  `ReplyOK`: what Core answers is for the call it was given the channel of, and
a task that has given up no longer holds the other end.  `WindowsOK`: windows are
numbered below `nextWindow` and each is given to one call.  The second invariant, `IdInv`,
is about ids: the calls that wait are exactly those still to be sent and those whose
answer is looked for, no call being both (`Tracked`), and only ids of the UI's calls reach
Core (`DaemonOK`).  From `Tracked` an outcome is written to a waiting call only, which
is the step of `CallService`, and the end of the connection leaves none waiting.

`ClientProofs`, for any peers, clients and outages:

* `ClientInvariant`: `Spec => []ClientInv`
* `NobodyLost`: `Spec => []NoZombie`; `NobodyLeft`: `Spec => []NoEarlyExit`
* `OwnIds`: `Spec => []OwnClient`, an id is that of a client made for one's own address
* `SameAtBothEnds`: `Spec => []SameClient`; `RemovesItsOwn`: `Spec => OwnRemoval`
* `TypeCorrect`: `Spec => []TypeOK`

`NoZombie` rests on nobody taking an address while a close of its client is under way
(`ClosingOK`, and `AcceptOK` for the client that is on its way into the maps): the control
thread accepts nobody while it closes, and the client that a watchdog closes is silent, so
its peer sends no HELLO.  `NoEarlyExit` needs that a session whose network has never failed
and for which nothing has overrun is in the server's maps from its first answer on, or about
to be put there while the control thread tests nothing (`Untroubled`, `Current`).
`SameClient` adds what the answers on their way say: a HELLO_ACK under way to such a session
that is starting or up has the id of the client that is at its address or about to be
(`Same`): nobody closes the client of such a session, so the address has one client only.
`OwnRemoval` is an action property: `ClosingOK` says that the client whose close has come to
`removeClient` is the one at its address, or that nobody is there.

`AudioProofs`, for any codecs, faults, retries and switches:

* `AudioInvariant`: `Spec => []AudioInv`; `TypeCorrect`: `Spec => []TypeOK`
* `RevisionsNameCodecs`, `FramesMeetTheirDecoder`, `StateIsThePhones`:
  `RevisionNamesCodec`, `NoForeignAudio` and `RuntimeHonest`

Every revision in the system, wherever it is, is one that was there before or the next
one issued, so a revision never gets a second codec.  `TaskOK` ties the player and what
is being decoded to the task's plan.  For honesty of the shown state `CommandsOK` keeps
commands in the order of their revisions, and `Done` says when the phone has carried out
the last of them.

`DisplayProofs`, for any number of displays, resizes and parts of a configuration:

* `LifeInvariant`: `Spec => []LifeInv`
* `NothingLeft` and `FramesInOrder`: `DisplaysInv` and `FramesDecodable`
* `DisplaysImplement`: `Spec => ImplementsDisplays`, what is sent of every display is what
  `DisplayLife` promises

`LifeInv` speaks of one display at a time.  `EncoderOK` relates the registry, what the
control thread waits for and the encoder; the part that makes it inductive says that a
virtual display outside the registry and not overdue belongs to a thread that is about to
attach it.  `StreamOK` says that the configuration of the current codec is either kept whole
for the next frame, or has been sent, or has been dropped by a mute sender; and that the
frame sent last is of no codec newer than the present one.  So what a renewed codec sends is
behind its own configuration, or behind an older one for want of a sender.  The refinement
needs one fact more (`ViewInv`): what has been announced has been made.  A step moves at
most one display from one phase to another (`OneMoves`), and `ThreadMoves` says once for all
steps of an encoder's thread that only its end can be seen; the last frame sent again
changes nothing, since it is the last one sent.

Only model-checked: everything about liveness (`DeliveredOrNoticed`, `AllAcknowledged`,
`ShownOrOvertaken`, `Settles`, `Answered` and the others of section 3 that say what
must happen in the end), which is out of the prover's reach.
Every safety property of a passing run has a theorem.  `ReliableChannel.TypeOK` and
`MediaReassembly.TypeOK` are conjuncts of the proved invariants.

## 5. What the code does besides

Disagreements met while modelling that have no run of their own.

Audio: progress is counted for a new plan as soon as any frame has been played
(`audio.rs:238`); the answer of the capture that HELLO starts is awaited by nobody
(`audio.rs:206`, `direct-udp-protocol.md:122` says it fails); a capture that
has stalled is begun again every so often and each time ends at its first `checkStall`
(`AudioCapture.java:125`), until the PC's rescue replaces it.
Session: the PC does not notice a server that is silent (`direct-udp-protocol.md:133` says
it does), only an unacknowledged message is; OPEN stops for good at the first media datagram
(`session.rs:360`); `WINDOW` (`reliable.rs:20`) is read by nobody;
a first transmission that fails (`session.rs:510`) is reported to the caller as an error
although the fragments stay in the window, are resent and arrive.
Channel: the PC's receiver compares with a plain `<` (`reliable.rs:192`) where everything
else compares on the ring.  `PcUntilWrap` says what that comes to, after 2^32 fragments in
one session: until all before the boundary is delivered, what is behind it is taken for a
duplicate, so a message that lies across the boundary is never whole.
Core: `docs/session-state-design.md` promises automatic recovery, the code never restarts a
session by itself; `cmd_start` drops a start while a crashed session is not marked yet;
`restart_all` hands new settings to a session that is dead but RUNNING; a stop during a
deployment may leave the server on the phone until the next deployment; Core waits for a
listing of applications for up to twenty seconds, whatever the comment at `app.rs:716` says;
an entry's best address only rises in priority and goes stale (`types.rs:87`, `app.rs:318`).
Clipboard: a text that a phone copies again after the PC has copied another one is dropped
(`app.rs:414`).  A failed write counts as seen, on the PC; on the phone a failed set is
broadcast as if it had been done (`ControlChannel.java:75`), and Core then takes the text
for one the phone has.  A copy on the phone between the set and that broadcast is taken back
on the PC if the monitor reports it before the broadcast.  What is copied on the PC before a
session is subscribed, or on the phone before its client listens, is not synchronised until
somebody copies something else.  A late echo of the monitor may take back a newer copy.
Displays: besides `displays_ready`, a display that takes more than two seconds to create is
announced all the same; destroying it then waits for a thread that waits for the registry's
monitor, gives up after two seconds and leaves the display behind
(`DisplayRegistry.java:90`); a codec that fails while it runs ends its thread and nobody
tells the viewer.  A client whose reliable sender has stalled is not closed: its frames go
on, and after a resize the viewer gets those of a codec whose configuration was dropped.
IPC: a UI and a daemon that both wait in a send, with both sockets full, wait for ever
(`lib.rs:620`, `server.rs`), since neither reads while it sends.
UI: `sessions-updated` that comes before the page listens is lost; `showError` in `App.vue`
sets `connected` to false whatever the error; a fusion window closed during its handshake
leaves its session (`fusion.rs:175`), and the pump's last removal may take away the session
of a window opened again (`fusion.rs:84`).

## 6. Not modelled

* **Control dispatch, injection, applications, icons, notifications**: stateless calls
  into the platform, or parsers of its output.  What the dispatch hands on is in
  `ClipboardSync`, `AudioControl` and `Displays`.
* **adb and text protocols**: process calls and parsers; `Core` keeps whether a call
  succeeds and what it does.
* **Settings, autostart, command line, daemon start-up and tray, phone start-up**: I/O
  and parsing that decides no transition.
* **Audio player**: a decoder and a ring buffer on a library's callback; `AudioControl`
  keeps whether a frame is accepted.
* **Fusion windows**: the viewer's session is that of `ClientSession`, its media those of
  `MediaReassembly`, its display that of `Displays`; the map from windows to sessions is
  not modelled.
* **IPC messages, generated code**: types without behaviour.
* **Pages of the UI**: drawing; of their state only the switches of a session are in `Ipc`.

## 7. What could follow

In this order: an abstract last-writer register that `ClipboardSync` implements while no
text is lost; the watchdog's close against a request that comes in just then; the windows of
`fusion.rs` composed with `Displays` and `ClientSession`; the audio player's ring buffer.
