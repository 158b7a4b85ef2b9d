# A verification development for gsocketio

gsocketio is a Socket.IO server for Go.  `src/transport/transport.go` carries bytes (Engine.IO: WebSocket and long polling),
`src/packet/packet.go` encodes packets, `src/server/server.go` keeps sessions, connections, events and acknowledgements, and
`src/rooms/rooms.go` groups connections for broadcasts.  The code is concurrent throughout: one goroutine per session, one per
heartbeat, one per HTTP request, one per event handler, and whatever goroutines the application calls from.  Its tables are kept
under five kinds of mutexes and a few atomics, and most operations take several critical sections one after the other.  What is
modelled here is what happens between those.

## Inventory

| component | state | operations | talks to |
|---|---|---|---|
| Session and connection life cycle (`server.go`) | `sessions` (session → namespace → conn), `conns`, `connCount`, `closed`; per session `closed`; per conn `closeOnce`, `joined` | `Serve`, `handleSession`, `connectNamespace`, `disconnectNamespace`, `removeConn`, `conn.Close`, `teardownSession`, `Server.Close` | reads packets from a transport session, calls the application's OnConnect/OnDisconnect, leaves rooms |
| Rooms (`rooms.go`, conn.Join ... in `server.go`) | `Manager.rooms`, a member map per room object, `conn.joined` | Join, Leave, LeaveAll, Clear, Send, SendAll | calls Emit of members |
| Admission and registry (`transport.go`) | `active`, `ipCount`, `pollSess`, `connCh`, `closed`; per session `closed` | `acquireConnSlot`, `releaseConnSlot`, session opening of `serveWebSocket` and `servePoll`, `Accept`, `Remove`, `Close` | hands sessions to `Serve` |
| Upgrade (`transport.go`) | `sessionConn.current`, `closed`, `pollSess` | the probe loop of `serveWebSocket`, `upgrade`, `sessionConn.ReadMessage`, `sessionConn.Close` | replaces the polling transport under a live session |
| Heartbeat (`transport.go`) | `pongCh`, the `heartbeat` flag | `heartbeatLoop`, `signalPong` | closes the transport |
| Long polling (`transport.go`) | `sendCh`, `recvCh`, in-flight gates | GET, POST, `PollConn.WriteText`, `ReadMessage` | closes the transport |
| Events and acknowledgements (`server.go`) | `eventSem`, two ack tables, `ackSeq` | `dispatchEvent`, `EmitWithAck`, `fireAck`, `dispatchAck` | runs handlers |
| Binary assembly (`server.go`) | the pending packet of a loop | `handleSession`, `engineSession.send` | decodes what the transport reads, dispatches whole packets |
| Framing (`transport.go`) | none across frames but the fragment buffer | `readFrame`, `WSConn.ReadMessage`, `handleEIO`, `writeFrame` | gives messages to the session's loop |
| Packet codec (`packet.go`) | none | `Encode`, `Decode`, `Validate`, `deconstruct`, `Reconstruct` | called by every sender and by the loop |
| Logger, facade, examples | none that matters | | |

What is hard, and what would make each component correct:

- **Life cycle.**  A connection may be ended by its peer (DISCONNECT), by its loop (the transport is gone, the CONNECT reply
  failed, OnConnect refused it), by the application (`Close`) and by `Server.Close`, all at the same time.  Correct means: one
  of them wins the table entry, OnDisconnect runs, counters and tables come back to what is connected, nobody is forgotten, an
  old connection's Close does not take a new one's entry, and everything ends.
- **Rooms.**  `Manager.Join` spans two locks, `conn.Join` three.  Correct means: the per-connection limit holds, empty rooms go,
  a broadcast reaches steady members once, and the three records of who is where agree.
- **Admission.**  A slot is taken in one critical section and recorded in another; `Remove` may run several times for a session.
  Correct means: slots are given back exactly once, limits hold, a queued session is still open, sessions leave no trace.
- **Upgrade and heartbeat.**  The loop reads from a transport that another goroutine replaces and closes.  Correct means: that does
  not end the session, the loop changes over, all transports but one are closed, and a dead peer is found out on whichever is left.
- **Events and acknowledgements.**  A loop that runs callbacks waits for handlers that may wait for callbacks; callbacks are there
  before the packet that asks for them.  Correct means: handlers are counted exactly, a callback runs once however the peer answers,
  a failed call leaves none behind, packets of several frames are not mixed.
- **Long polling.**  Two bounded queues between HTTP handlers that come and go, writers and the loop.  Correct means: a flag in
  flight is set exactly while a request holds it, messages are answered in order and posted packets arrive whole, nobody blocks for
  ever on a client that has gone, and a client that takes turns gets everything and is never cut off.
- **What a peer sends.**  Bytes become frames, messages, packets and packets with attachments, in four layers that each keep a little
  state.  Correct means: what was sent comes out as it went in, however it is cut, and attachments never join the wrong header.

Every hazard is listed at its line, with the properties that are about it, in `PROJECT.json`.

## Modules

| module | what it is |
|---|---|
| `Sessions` | life cycle: state, actions, fairness, properties |
| `Lifecycle` | the abstract promise of `server.Server`: a connection is new, connected or gone, with a place of its own and calls it accounts for; `Sessions` implements it |
| `SessionsInv` | the inductive invariants behind the theorems |
| `SessionsProofs`, `SessionsTableProofs` | theorems and proofs about `Sessions`, with the refinement of `Lifecycle` |
| `Rooms` | rooms and broadcasting; implements `Membership` for one caller |
| `Membership` | the abstract promise of `rooms.Manager`: membership is a relation, changed by a call for its own connection only |
| `Admission` | slots, registry, delivery and `Server.Close` of the transport server |
| `Events` | event handlers, acknowledgements and the writing of packets on one connection |
| `Upgrade` | the transports of one polling session: upgrade, heartbeats, close |
| `Polling` | the queues of one polling session between GETs, POSTs, writers and the loop |
| `PollingProofs` | theorems and proofs about `Polling` |
| `AdmissionProofs`, `EventsProofs`, `UpgradeProofs` | theorems and proofs about `Admission`, `Events`, `Upgrade`, with their invariants |
| `RoomsProofs` | theorems and proofs about `Rooms`: whoever calls, and when calls take turns, with the refinement of `Membership` |
| `Packet` | the packet codec as operators: namespaces, `Encode`, `Validate`, `Decode` |
| `Values` | the values of packets as operators: how binaries are taken out and put back (recursive, for TLC only) |
| `Inbound` | what a WebSocket peer sends, through frames, messages and packets, to what the session dispatches |
| `Delivery` | what `Inbound` is for: a peer that builds its packets with `Values` is understood |
| `InboundProofs` | theorems and proofs about `Inbound`, for peers that send whatever they like |
| `MCSessions`, `MCRooms`, `MCAdmission`, `MCEvents`, `MCUpgrade`, `MCPolling`, `MCInbound` | what TLC checks: instances, loads, symmetry and views where they are used |

### Sessions and the code

An actor is a goroutine that changes the tables: a session `s` stands for its `handleSession`, a connection `c` for the goroutine
in which the application calls `c.Close()`, `Shutdown` for `Server.Close`.  A step is one critical section of `sessionMu`,
`connsMu`, `roomMu` or the rooms lock, or one atomic operation; `pc[a]` says which is next.  The finale of `disconnectNamespace`,
`removeConn` and `teardownSession` is the same sequence, so it is one set of actions: `LeaveRooms`, `Unjoin`, `Drop`, `CountDown`,
`Notify`.  `After(a)` is where the three differ: a teardown takes the next connection, a loop reads on, a closer is done.

| code | actions |
|---|---|
| `Serve` / `Accept` | `Accept`, `ServeReturns` |
| `handleSession` | `Register`, then `Connect`, `Disconnect`, `ConnectUnknown`, or `LoopReturns` into the deferred teardown |
| `connectNamespace` | `Connect` (sessionMu), `Publish` (connsMu), `CountUp` (atomic), `Reply` (send), `OnConnect` (handler) |
| `disconnectNamespace` | `Disconnect` (sessionMu), then the finale |
| `conn.Close` | `CloseCall` (closeOnce), `LeaveRooms`, `Unjoin`, then `removeConn` |
| `removeConn` | `Unclaim` (sessionMu: its entry, if it is still there), then the finale whether it was or not |
| `teardownSession` | `Claim` (sessionMu), `Sweep` with the finale per connection, `Mark` (closed.Swap), `Shut` |
| `Server.Close` | `CloseServer`, `NextVictim` with a teardown each, `StopTransports` |
| `conn.Join` by the application | `JoinStart`, `JoinAdd` |

`conn.closeOnce` is `once`.  A second caller of `Once.Do` waits for the first: that is `Reply` waiting for `At(c, "done")`.  A nil
map write panics and the deferred teardown then waits for the mutex its own goroutine holds: that is `wedged`, and every action
that takes `sessionMu` has `~wedged` in its guard.  Events, acks and binary frames change none of this state and appear only as
reasons for `LoopReturns`.  `disc` and `rejected` are history variables.

`Lifecycle` is what all this is to the application.  A connection is `new` until its entry is made, `connected` while it is in the
table, `gone` after; `place` is its session and namespace; `closed`, `refused` and `calls` are `once`, `rejected` and `disc`.  `Open` is
`Connect`, `End` is `Disconnect` or `Unclaim`, `EndAll` is `Claim` (a teardown takes the whole row at once), `Close` is `closeOnce`, `Refuse`
is OnConnect's error, `OnDisconnect` is `Notify`; every other step stutters.  What it adds to the properties by name is that a
connection never comes back, that no two have one place, and that no call is made for a connection that is still in the table.

Handlers are assumed to return and not to call `Close`
from inside themselves; a handler that does is a hazard on the list (`closeOnce` waits for itself).

### Rooms and the code

A room is an object (`Obj`) found through `index` (`Manager.rooms`); a thread that fetched one keeps it in `arg[t].o` even when the
map has dropped it, as the pointer in `Manager.Join` does.  `Leave` and `LeaveAll` keep `mg.mu` from `Lock` to the end of `Sweep`,
`Check` and `Delete`, since the room's own lock is taken and released inside; `mgMu` records who has it.  `Send` and `SendAll` list
rooms under `mg.mu` and members under the room's lock, and call Emit outside both.  `got`, `stay` and `stale` are history.

`mode` says how the application calls: with `solo`, the calls that change rooms (Join, Leave, LeaveAll, Clear) take turns, while
broadcasts go on at the same time; with `each`, the calls for one connection do (one goroutine sees to it), and those for others,
and ClearRoom, race them; with neither, everything races.  What is promised in each case differs, and one run checks all three.
`stale` holds the pairs that `ClearRoom` has parted: `conn.joined` keeps the room, the manager does not.

### Admission and the code

A request stands for the session it opens.  Its HTTP handler, the loop that `Accept` gave it to and `Server.Close` are the three
goroutines (`Role`) that may close it.  `acquireConnSlot` is `Acquire`/`Refuse`, `releaseConnSlot` `Abort`, the two table inserts
`InsertPoll` and `InsertActive`, the select on `connCh` and `closed` `Deliver`.  `sessionConn.Close` is `CloseSession` (closed.Swap)
followed by the `onClose` callback, `Remove` (s.mu) and `Unpoll` (s.pollMu); a handler whose select chose `closed` calls `Remove`
once more, hence the stages `removeAgain`, `unpollAgain`.  `raced` is history: requests that got a slot while another was between
its slot and `active`.

### Events and the code

One connection, with its session's loop.  `dispatchEvent` is `ReadEvent` (the lookup under sessionMu), `Acquire` (the select on
`eventSem` and `Done`) and the goroutine: `Return` (the handler), `SendAck`, `Release` (the deferred receive).  Events without a
handler or with a packet that does not parse take no place and are left out.  `EmitWithAck` and `EmitWithBinaryAck` are `Register`,
`SendText`, `SendPart` and, after an error, `Undo`; `engineSession.mu` is `mu`, which only a binary packet keeps over two writes.
`dispatchAck` and `fireAck` are `ReadAnswer` and `Callback`, both in the loop.  The life of the connection is cut down to what this
needs (`Disconnect`, `TransportFails`, `Mark`, `Shut`); `Sessions` has the rest.  The peer may answer before the attachment has come
(`"hasty"`), as often as it likes and with either kind of ACK.  `garbled`, `answered` and `fired` are history.

### Upgrade and the code

`Look`, `ReadFails` and `Recheck` are the three parts of `sessionConn.ReadMessage`; `Message` stands for a packet, after which
the session loop calls it again or gives up.  A WebSocket request with a sid is `FindActive` (s.mu), `FindPolled` (pollMu, then
hijack and `newProbeWSConn`), `ProbeFails` or `Swap`, `ShutOld` (`sessionConn.upgrade`, with s.mu held) and `Forget` (pollMu).
`sessionConn.Close` is `Take`, `Shut`, `MarkClosed` and, by `onClose`, `Remove` and `Unpoll`.  `Tick`, `TickFails`, `Answered` and
`Timeout` are `heartbeatLoop` of both kinds of transport, which differ in one thing: a PING that cannot be queued closes a `PollConn`
and leaves a `WSConn` open.  There is no clock: a timer may fire at any time after its PING.  `newProbeWSConn` starts the heartbeat
and clears its flag afterwards without a lock; that data race is the choice in `FindPolled`, open to the requests in `Racy`.

### Polling and the code

A GET or a POST is an HTTP connection of the client.  A GET is `EnterGet` (the CompareAndSwap of `getInFlight`, which closes the
session if it fails), `TakeMessage` or `EndGet` (the select on `sendCh`, `c.closed` and the request's context) and `Answer`; a POST is
`EnterPost`, `ReadBody` or `DropBody`, `HandOver` for each packet (the select on `recvCh` and `c.closed`) and `EndPost`.  The deferred
store of the flag is part of the step in which the handler returns.  `PollConn.WriteText` is `Write`, `Block` and `WriteTimeout`.
`Read` is `PollConn.ReadMessage` for one packet, whose outcome (a message; a PING, answered through `WriteText` by the loop itself; an
error) is a choice, since packets have no contents here; `ReadClosed` its other case.  `TearDown` is `sessionConn.Close` and `Remove`;
`Upgrade` and `Forget` are what the WebSocket request does to this transport, with all that its queues hold.  `Expire` is the heartbeat.
`civil` is a choice at the start: such a client has one GET and one POST under way at most, and never gives up.
`closed` keeps the reason, for the properties.  `answered`, `lost`, `posted`, `written` and `heard` are history.

### Packet, Values, Inbound, Delivery and the code

A text is a sequence of tokens, so that Encode and Decode read and write every character that matters (types, counts, dashes,
slashes, commas, digits of ids) and a JSON text is one token that stands for the value it parses to.  A value of the caller's is a Go
value as far as the two encodings tell such apart (nil slices and maps, keys that are integers, tags, embedded structs).  `JsonOf` is
what `json.Marshal` makes of it; `Marshal` takes that for a value with no binary anywhere (`ContainsBinary`), and for any other
`Deconstruct`, which gives all results Go's map order allows.  `Delivered` compares what arrives with `JsonOf` of the arguments on
either way, for the values that `ValueArrives` names.  `Encode`, `Decode`, `Valid` (`Packet`) and `Reconstruct` (`Values`) are the functions of `packet.go`; `PutLength` and `GetLength`
the length forms of `writeFrame` and `readFrame`.

A step of `Inbound` is one frame: the peer sends it (`BeginPacket`, `BeginBinary`, `BeginAny`, `Continue`, `Control`, `BreakRules`) and
the session takes it through `ReadData` (`readFrame` and the loop of `WSConn.ReadMessage`), `OnEIO` (`handleEIO`) and `OnText` or
`OnBinary` (`handleSession` up to `dispatchPacket`).  There is one goroutine on each side and a stream between them, so reading a frame
as soon as it is sent loses no behaviour.  `WithoutPongs` and `Handed` are `handleEIO` for a text: the PONGs before a packet, which it
takes off one by one, and then what each first byte does; so a text is a header (`IsHeader`) exactly if `Decode` finds one in what is
handed on.  A civil peer sends packets as `BuildEventPacket` and `BuildAckPacket` build them, CONNECT
first, in fragments of any kind; any other sends what it likes.  `said`, `due` and `dispatched` are history: `at` and `till` of a packet
are the messages it began and ended with, and `AttachmentsOwn` compares it with all that was said between the two.

## Runs

| run | expected | instance | shows |
|---|---|---|---|
| `sessions` | pass | 1 session, 1 namespace, 2 connections; close, joinInConnect, reject, shutdown | `DisconnectBound`, `NeverForgotten`, `ConnectedIsListed`, `BooksBalance`, `NoGhostMembers`, `NoConnectAfterDisconnect`, and `Sessions` implements `Lifecycle` |
| `sessions_live` | pass | 1 session, 2 connections; close, reject | `CloseReturns`, `LostIsReaped` under `Fairness` |
| `sessions_s03` | violation | 1 connection; close | OnDisconnect may run twice |
| `sessions_wedge` | violation | 2 sessions, 1 connection; shutdown | `Server.Close` may hang |
| `rooms` | pass | 2 threads, 2 rooms, 2 connections, all operations: at once, and with turns for each connection, with limit 1; taking turns with limit 2 | `NoEmptyRoomLingers`, `BroadcastExact`; with turns, of either kind, `TurnsInSync`; when all take turns, `Rooms` implements `Membership` |
| `rooms_lost` | violation | 2 threads, 1 room, 2 connections with turns for each; join, leave | `JoinedIsMember` fails: a Leave of another connection undoes a Join |
| `admission` | pass | 2 requests, 2 addresses, limits 1 and 1, channel of 1, Close at any time | `SlotsExact`, `LimitsKept`, `RegistryExact`, `AdmittedIsServed`, `ClosedFreesSlot` |
| `events` | pass | 3 events (2 with ids, 1 whose handler waits), 2 calls (one binary), 2 places, a hasty peer | `PlacesExact`, `AnswersFireOnce`, `PacketsWhole`, `FailedStaysQuiet`, `LoopGoesOn` |
| `upgrade` | pass | 2 WebSocket requests, one of them with the race lost; teardown at any time | `OneTransport`, `NothingLeft`, `UpgradeKeepsSession`, `TakesOver`, `SilentPollingReaped` |
| `upgrade_silent` | violation | 1 WebSocket request | a dead peer is not found out after an upgrade |
| `polling` | pass | 2 GETs, 2 POSTs, 1 writer and the loop, queues of 1; 2 POSTs of up to 2 packets, or 2 messages and a POST; any client and a civil one | `PostsWhole`, `TurnsAreSafe`, `AnsweredInOrder`, `NobodyWaits`, `Fetched` |
| `inbound` | pass | the five loads of `MCInbound`, see below | `Delivered`, `AttachmentsOwn` |

`TypeOK` is checked in every passing run but `sessions_live`, `inbound` (which takes texts of any shape) and `events` (there it is
proved, and says nothing that `PlacesExact` and the rest do not show sooner); that of `Rooms` says
besides that no connection lists more rooms than its limit, that of `Polling` that the flags in flight are exact.

Why these bounds are enough to be interesting.  Two connections on one session and one namespace are what it takes for a Close of
an old connection to meet its successor's entry; with a closer each, the loop and `Server.Close` that makes four actors on
the same row of the table.  Sessions share only `conns`, `connCount` and `sessionMu`, and the first two are sets and sums over
connections; the theorems below hold for any number of them.  Two threads and two rooms are what it takes to delete a room under
a Join and to move a member under a broadcast; the limit of 1 is reached at once, and 2 lets a connection be in both rooms a
broadcast addresses.  Six room objects are enough for two names and two
threads that each hold or list old ones.  The channel of one place and two requests make a handler wait.
Three events for two places make the loop wait for one, while one handler waits for an answer that this same loop would read.  Two
requests are what it takes for an upgrade to replace another.  Two GETs, or two POSTs, are what it takes to meet a flag in flight; a
queue of one place is full at once, and a POST of two packets does not fit in it, nor do two messages.  The real queues hold 256, and
what a full one does is the same.  The two loads of `polling` take the directions of traffic in turn, each with as much of the other
as the interplay needs (a PING that is posted is answered through `sendCh`); the first of them sends nothing down.

`inbound`: some 2900 packets (all types but the plain CONNECT_ERROR without data, five ids, four namespaces, values with none to three
binaries in arrays, maps and structs, values that the two encodings treat differently, by themselves and beside a binary) two at a time
in one frame each; four of them, up to three in a row, in up to three fragments;
the same at the frame lengths around 126, 256 and 65536, where the length changes form; and peers that keep to no rule with five
messages whole or two in three fragments.  `MaxHeld` 4 stands for 64, `MaxAttachments` 12 (two digits) for 1024, `MaxPayload` is 70000
so that two frames together pass it and one with a length of eight bytes does not, `MaxId` 20 is more than an id of two digits needs.
`CHECK_DEADLOCK FALSE`
is given where the bounded system comes to rest: all connections used up, all requests answered.

Bounds, by name: `Conn` (connections created in a behaviour), `Obj` (room objects in use at once; one is
reused once nothing refers to it, and `Lookup` waits for `Unused # {}`, for which it never has to wait in the run),
`Req` and `WS` (requests in a behaviour), `Event` and `Call` (events and acknowledged calls in a behaviour), `Load` (messages written,
POSTs sent and packets of a POST), `Loads` (packets or messages sent, fragments of each, sizes of frames).  Nothing else is capped; `disc`, `count` and `ipCount` are finite because of these.

Every property of a passing run has a mutant, an operator next to the definition it replaces (`NothingFreed` beside `EntryFreed`,
and so on) with the change a plausible bug would make; TLC finds the property violated under each.

## Fairness

`Sessions!Fairness`: goroutines that can run are scheduled and handlers return (weak fairness of the loop's own steps, of `Shared`
for each actor and of `Server.Close`).  What peers and the application start has none: a packet, a lost transport, a Join, a Close.
`LoopReturns` of a session whose transport is down is strongly fair: ReadMessage returns an error once the finite buffered input is
used up, and the loop leaves `read` for every packet before that.

`Admission!Fairness`: handlers and closers run; the goroutine of `Serve` accepts as long as the server is not closed (`connCh` is
first in, first out).  `Deliver` is strongly fair: a sender blocked on a Go channel is queued and not passed over for ever.

`Events!Fairness`: handlers return, except those in `Waiting` while calls are unanswered; callbacks return; writes end (they have a
deadline).  The peer need not answer or send.  `Upgrade!Fairness`: the loop and the upgrade's own steps run and ping timers fire.

`Polling!Fairness`: each handler, each call of WriteText (whose timer fires), the loop and the upgrade's request run on.  A POST
whose body does not end has no fairness: nothing in the code limits the time to read one, and `NobodyWaits` speaks of POSTs that
have theirs.  A civil client sends its next GET, which is what such a client is; no other client is bound to anything, and none is bound
to post, to leave or to upgrade.

`Inbound` has no fairness: what it promises, it promises of every state.

## What was found

1. **OnDisconnect may run twice, and `Count()` drifts** (`sessions_s03`).  `removeConn` (server.go:677) goes on to `leaveAll`, the
   counter and OnDisconnect whether it found its entry in the table or not.  `conn.Close` racing a DISCONNECT packet or a teardown
   runs both finales.  `tests/server_integration_test.go:919` says once.  What does hold, and is proved, is `DisconnectBound`.
2. **`Server.Close` may hang for ever** (`sessions_wedge`).  A CONNECT that is dispatched after `Server.Close` has deleted the
   session writes to a nil map (server.go:535) with `sessionMu` held; the deferred `teardownSession` waits for that mutex.
3. **A joined connection may be missing from its room** (`rooms_lost`): `Manager.Join` adds to an object outside `mg.mu` (rooms.go:109),
   and a concurrent `Leave` of another connection, which need not even be a member, finds the room empty and deletes it from the
   map.  `rooms/rooms.go:86` says all methods are safe for concurrent use.  Nobody but the connection's own goroutine has called for it.
4. **A peer that dies after an upgrade is never disconnected** (`upgrade_silent`).  `newProbeWSConn` clears `heartbeat`
   (transport.go:111) and `upgrade` starts none, so no PING is sent on the new transport.  `HOW_TO_USE.md:224` says of `PingTimeout`
   "disconnect if no pong within this".

Seen while modelling, and contradicted by no text of the repository: `Server.Close` between the two critical sections of
`connectNamespace` leaves a dead connection in `conns` and lets OnConnect begin after OnDisconnect (hence the last conjunct of
`NoConnectAfterDisconnect`); a Join that is half done when `leaveAll` runs, or made on a dead connection, leaves a ghost in the room
(hence the premises of `NoGhostMembers`); `ClearRoom` leaves `conn.joined` of the members alone; a session delivered to `connCh`
after `Close` is accepted by nobody and stays open until its peer leaves; an upgrade whose session has been closed meanwhile leaves its
WebSocket open; `WriteBinary` may refuse an attachment for its size after the text part was sent, and the peer waits for it
(`"oversize"`, the premise of `PacketsWhole`); handlers that wait for answers and take all places stop the loop that would read
them (the premise of `LoopGoesOn`); `MaxConnections` may be exceeded by requests that race each other, for it is compared with the
sessions already active (transport.go:657; hence `raced` in `LimitsKept`, which says that by no others); what the queues hold when a
session is upgraded, and a message taken for a GET whose client has gone, is lost (hence the premise of `Fetched`, and `lost` in
`AnsweredInOrder`); two concurrent POSTs of one client may change places, which ends no session if the first is done by then; a
namespace with a comma in it does not come back from Decode as it went in; and a binary anywhere in the arguments changes how all the
rest is encoded: `deconstruct` drops the entries of maps whose keys are no strings (packet.go:388, binaries among them), makes `[]` and `{}`
of nil slices and maps, ignores `omitempty` and nests embedded structs, where `json.Marshal` alone does not (hence `EncodedAlike` in
`Delivered`; a value that is not in it arrives as something else beside a binary, and as itself without).

Two more disagreements between the repository's text and its code, which have no run of their own.  The ACK of an event that asks for
one is built of no arguments (server.go:627), and `BuildAckPacket` hands a nil slice to `json.Marshal` (packet.go:307): the payload is `null`,
where `Validate` says "ACK payload must be an array" (packet.go:207, and yet accepts it), `BuildAckData` makes `[]` (packet/packet_test.go:335)
and `README.md:161` has such events "acknowledged with the event arguments".  So the value of an empty ACK does not arrive, and `ValueArrives`
leaves it out of `Delivered`.  And transport.go:806 says the pending GET is woken by the NOOP of the probe, which it is only if one is
waiting.

## Proofs

Theorems are for every choice of the constants that the module's assumption allows.  The assumptions say that things of different
kinds are different and that `NONE` is none of them, that a choice of operations (`UserOps`, `Ops`) names known ones, that limits and
loads are numbers, that queues and `eventSem` have a place (as `setDefaults` sees to), that a limit of rooms is positive, and that what
is counted is finite: `Req` in `AdmissionAssumption`, `Event` in `EventsAssumption`, `Conn` in `SessionsAssumption`, `Writer` in
`PollingAssumption`.  `InboundAssumption` says that limits and sizes are numbers and that peers send texts, be it what they like or what
`Encode` gives them; there may be any number of loads, packets and fragments.  `RoomsAssumption` and `UpgradeAssumption` need nothing to be finite: there may be any number of connections,
threads and WebSocket requests.

| module | theorem | statement |
|---|---|---|
| `SessionsProofs` | `TypeCorrect` | `Spec => []TypeOK` |
| | `DisconnectBounded` | `Spec => []DisconnectBound` |
| `SessionsTableProofs` | `ConnectedListed` | `Spec => []ConnectedIsListed` |
| | `NobodyForgotten` | `Spec => []NeverForgotten` |
| | `ConnectFirst` | `Spec => NoConnectAfterDisconnect` |
| | `NoGhosts` | `Spec => []NoGhostMembers` |
| | `BooksBalanced` | `Spec => []BooksBalance` |
| | `ImplementsLifecycle` | `Spec => RefinesLifecycle` |
| `RoomsProofs` | `TypeCorrect` | `Spec => []TypeOK` |
| | `NoRoomLeftEmpty` | `Spec => []NoEmptyRoomLingers` |
| | `BroadcastsExact` | `Spec => BroadcastExact` |
| | `TurnsKeepSync` | `Spec => []TurnsInSync` |
| | `ImplementsMembership` | `Spec => RefinesMembership` |
| `AdmissionProofs` | `TypeCorrect` | `Spec => []TypeOK` |
| | `SlotsCounted` | `Spec => []SlotsExact` |
| | `LimitsHold` | `Spec => []LimitsKept` |
| | `RegistryTrue` | `Spec => []RegistryExact` |
| `UpgradeProofs` | `TypeCorrect` | `Spec => []TypeOK` |
| | `LoopSurvivesUpgrades` | `Spec => UpgradeKeepsSession` |
| | `OneStaysOpen` | `Spec => []OneTransport` |
| | `ClosedLeavesNothing` | `Spec => []NothingLeft` |
| `PollingProofs` | `TypeCorrect` | `Spec => []TypeOK` |
| | `TurnsSafe` | `Spec => []TurnsAreSafe` |
| | `InOrderAnswered` | `Spec => AnsweredInOrder` |
| | `PostsComeWhole` | `Spec => []PostsWhole` |
| `EventsProofs` | `TypeCorrect` | `Spec => []TypeOK` |
| | `PlacesCounted` | `Spec => []PlacesExact` |
| | `PacketsComeWhole` | `Spec => []PacketsWhole` |
| | `CallbackOnce` | `Spec => []AnswersFireOnce` |
| | `FailureIsFinal` | `Spec => FailedStaysQuiet` |
| `InboundProofs` | `AttachmentsAreOwn` | `Spec => []AttachmentsOwn` |
| | `InvariantHolds` | `Spec => []IInv`, on which it rests |
| | `LengthRoundTrip` | a length below 2^32 comes out of a frame as it was put in |

So every safety property the passing runs check is a theorem but for `Delivered`.

### Sessions

`DisconnectBound` speaks of calls that have been made and is not inductive: a call on its way must be counted too.  `IInv` of
`SessionsInv` says that calls are *prepaid* (`CallsPrepaid`): the calls made, plus one for each of the table entry, the loop, the
connection's own closer and `Server.Close` that holds a claim on the connection, are at most 1, plus 1 if Close was called, plus 1 if
OnConnect refused it.  Every action moves a claim (`Disconnect`, `Claim`, `Sweep`), spends it (`Notify`), or creates one that `once`
or `rejected` pays for (`CloseCall`, `Reply`, `OnConnect`).  This needs that nobody else can hold a claim (`WorkFits`: a loop works for
its own session, a closer for itself), that table entries stand where they belong (`EntriesFit`), that a new connection has no
history (`FreshIsBlank`), that it is refused once (`NotYetRefused`), and that a teardown never has the connection it is
finishing on its list too (`SweepFits`).  TLC checked `IInv` on the instance of run `sessions` before it was proved.

`ConnectedIsListed` needs that whoever finishes a connection has taken it out of the table (`TakenOut`), which for `removeConn` needs
that an unregistered session has no entries (`RowsFit`).  `NeverForgotten` is proved with its witnesses named (`Remembered`): only
the loop, `Shutdown` and the closer can be the actor that the existential asks for.

`NoConnectAfterDisconnect` needs that until the loop has answered a CONNECT nothing can have happened to its connection (`Unheard`):
the application has not heard of it, so its closer has not started, and the table entry is the loop's.  `Server.Close` alone can
come between, which is why the property ends when it begins.

`BooksBalance` has two halves.  The inequality comes from an equation, `Ledger`: the counter, the calls made and the calls about to be
made (`Notifying`, the actors between `CountDown` and `Notify`) are together exactly what was counted.  It holds whoever closes what, and
is the reason why the counter is right even though OnDisconnect may run twice: each call has counted down before it.  The other half,
and `NoGhostMembers`, are about loops that are left to their peers (`Quiet`), and their invariant says nothing otherwise (`QuietFits`).
In that case (`LoopsAlone`) nobody is in a closer's part of the code, a connection the loop is opening stays in the table, a connection
is in the table or its one finale is ahead (`CalledOnce`: hence one call each), and one that is in a room has its `leaveAll` ahead, with
no Join able to come after it (`JoinsInConnect`, `LeaveAhead`).  At rest no finale is ahead, and what remains is the table.

That `Sessions` implements `Lifecycle` follows from the two invariants together.  A step that opens meets an empty place, so nobody else
has it (`EntriesFit`: each entry stands where its connection belongs).  `Notify` is the step to look at.  `TakenOut` says that its
connection is no longer in the table; and that there is a call left for it is `CallsPrepaid`, in which the caller itself counts for
one.  So the second call of OnDisconnect that a run finds is not against `Lifecycle`, which says what it takes: a Close or a refusal.

### Rooms

`TypeOK` needs to know what each thread has in hand at each place (`InHand`): the connection, the room or the object that the next
critical section uses, and that the rooms a sweep is yet to visit are names in the map.  That the limit is kept is in `TypeOK` and
takes one step: `Join` checks and adds under one lock.  `NoEmptyRoomLingers` is inductive with it, since a sweep that empties
a room keeps `mg.mu` until it has deleted it.

`BroadcastExact` is an action property.  `Emitted` says of every connection that has stayed in a room since the broadcast began that
it has had its Emit or that the room's *object* is still to be visited; so it also needs that a name does not change its object
without losing its members (`OneObjectAtATime`), for a room that is deleted and made again is a new one.

When calls take turns, there is one thread at most in the middle of a call (`OneAtATime`), names do not share an object (`OwnObject`),
and everything but what this thread is changing is in sync (`Settled`).  What it is changing, `Joining` and `Leaving` spell out: a Join
has entered its room in `conn.joined` and not yet in the manager; a Leave has left `conn.joined`, and the rooms the connection is still in
are those the sweep has before it.  The first part of `TurnsInSync` is what remains when nobody is in a call.

The second part is about calls that race those for other connections.  `EachListed` says that a connection is in no room that it does
not list but, in the course of a Leave, the one it leaves, and that the sweep has before it every room it is to be taken out of
(`Underway`).  No step of another thread disturbs that, for none makes the connection a member of anything (`OthersKeep`): its own Join adds
to an object that has no name but its own (`HeldObject`), and what is deleted is never found again.  The converse is what
`rooms_lost` refutes.

The refinement maps `in` to the members of the objects that names stand for, and `who` to the connection of the call under way.  Each
step of `Rooms` is one of `MembershipStep`: a call begins or ends, `Add` puts one pair in and ends one, a step of `Sweep` takes one out, a step of
Clear all of a room, and the others change nothing.  `Delete` and `Lookup` are the steps to look at: they change `index`, so that `in`
stays as it is only because the object deleted or made has no members.

### Admission

`SlotsExact` is inductive with the types, given that a request is not active before its handler makes it so (`NotYetActive`): each action
adds one holder of one address, takes one away, or leaves them alone (`Remove` the second time).  `LimitsKept` is about `active`, but a
slot is taken before it shows there; `WithinLimits` counts the requests on their way too.  For addresses that is `ipCount`.  For
`MaxConnections`, of the requests on their way one at most has not raced another, and there is still room for it.

`RegistryExact` needs the whole way of a session: it passes from its handler to the queue to its loop, one after the other
(`OneAfterAnother`); until the server is down nobody but its loop closes it (`StopFits`, `ClosedFits`); and while it is served it is
in both tables (`Found`).

### Upgrade

Two invariants carry it.  `InTurn`: upgrades follow one another.  From the change of `current` to the close of the transport that was
there, no other request changes it (`Swap` and `ShutOld` are under one `s.mu`), a transport is upgraded to once, and those that upgrades
have closed (`cut`) are among those that were current once and are not any more.  `UpgradeKeepsSession` is an action property that follows
from it: a loop whose read failed on a transport in `cut` finds another one at its second look.  `Left` says who sees to what
remains: whoever has taken the session out of `pollSess` has closed its PollConn, or is the upgrade that is about to (`Ending`); `Remove`
comes before `Unpoll`.

### Events

`PlacesExact` is inductive with the types and one fact, that the event the loop wants a place for has no handler yet.  `PacketsWhole`
says that history is clean; what keeps it so is that the peer waits for an attachment only while somebody has `mu` (`OwedHeld`).
`AnswersFireOnce` and `FailedStaysQuiet` need that a callback is in one place at a time: not registered, in the table of its kind, with
the loop, or run (`OnePlace`, `RightTable`).

### Polling

`TypeOK` has the exactness of the flags in it (`FlagsExact`), and that is inductive with the types.  The proof does not go action by
action but by what an action may do to the holders of a flag: none of them moves, one enters and sets it, which it does only if it was
clear, or one leaves and clears it (`GetMoves`, `PostMoves`).  `GetsMove` and `PostsMove` show that every action is one of these.

`TurnsAreSafe` needs that a civil client has one request of a kind under way (`InTurn`): then whoever meets a flag that is set would
be its holder, by `FlagsExact`.

`AnsweredInOrder` is an action property.  Its invariant `InOrder` says where every message is: of those that have left the queue, the
first `Left`, all after the last one answered are lost, but for the last, which a GET may have in hand; and no other has one, by
`FlagsExact`.  So the flag is what keeps answers in order, and two GETs at once would not be.

`PostsWhole` is about `recvCh`, and needs to know of the packets that are not in it yet.  `Whole` says that what a POST has left
to hand over is consecutive and goes on where its last packet in the queue (or in the loop's hands) stopped (`Bodies`), and that a POST
whose last packet has not come is still being read, or the session is closed (`Complete`).  That no second POST comes between
is `FlagsExact` again: only the holder of the flag has begun.

### Inbound

The invariant has a part for each of the two loops.  `ReaderFits` is about `WSConn.ReadMessage`: while a message is under way, what it
has and what the peer has yet to send are the message (`Halfway`, `Parts`), so that the last fragment makes it whole (`SendKeeps`, by
`FirstPart`, `NextPart` and `LastPart`); a control frame changes nothing of it.  `SInv` is about `handleSession`: `PendingFits` says that the
packet it waits to complete is what its header said, has all the binaries said since and lacks some, and is no packet dispatched
before; `Owned` says what `AttachmentsOwn` does of each packet dispatched; `Greeted` that the first is the CONNECT that let the others in.

What a message does to the session is one of six things (`Hears`: it ends it, passes, arrives whole, announces, collects or completes),
which `TextCases` and `BinaryCases` show from the code's conditions; one lemma for each says that it keeps `SInv`.  The counting is in three lemmas
about `IsOwn`: a text that is no header adds nothing (`IsOwnBesides`), a binary is the next in order (`IsOwnBinary`), a header has none yet
(`IsOwnFresh`).  Of `Decode` the proof uses only that a header it accepts announces something and that nothing is in an empty text;
it holds for any packets peers make up.  TLC checked the invariant on the instance of run `inbound` before it was proved.

### Only model-checked

Liveness (`CloseReturns`, `LostIsReaped`, `AdmittedIsServed`, `ClosedFreesSlot`, `LoopGoesOn`, `TakesOver`, `SilentPollingReaped`,
`NobodyWaits`, `Fetched`) and everything that rests on ENABLED, which the provers cannot do.  `Delivered`: it says that `Decode` undoes
`Encode` and `Reconstruct` undoes `Deconstruct` (for `EncodedAlike` values), which is induction over numerals and values, out of the provers' reach.  How such a
packet gets from the peer to `Decode`, and its binaries to it, is in `InboundProofs` all the same.

## Not modelled

Logging, the facade (it forwards) and the examples.  `Server.RemoveConn` (called by nobody), events without a handler and packets of
events that do not parse (they end in `reportError`), and Emit without an acknowledgement, which keeps no state.  Of framing: the
masking of bytes, UTF-8 validation, and what the answers to PING and CLOSE look like.  Of the codec: `EventName`, `EventArgs`,
`BuildEventData` and `BuildAckData`, which read and write JSON text, the 1 MiB limit, control characters in namespaces, errors of
`json.Marshal`, and of values: those with a `MarshalJSON` of their own (`deconstruct` walks into them when a sibling is binary, and a
`json.RawMessage` is taken for binary), fields that are not exported (an embedded struct of such a type, which `json.Marshal` alone
takes apart, among them), and tag options but `omitempty`.

Of hazards, two have no property: Close called inside OnDisconnect waits for itself (closeOnce), and a session queued after
`Server.Close` stays open until its peer leaves; no text of the repository says otherwise of either.

## Plan

Done: the life cycle, rooms, admission, events, upgrade and heartbeat, long polling and everything a peer may send, each with theorems for
the safety properties its runs check; the refinements of `Membership` and `Lifecycle`, checked and proved.  What could come next:

1. `Decode(Encode(p)) = p` by hand for bounded numerals, which would leave only values to TLC in `Delivered`.
2. A specification of a transport that never changes, which `Upgrade` would implement for the loop.  It would say again what
   `UpgradeKeepsSession` and `OneTransport` say, and so would one of `Admission` as a counter of slots (`SlotsExact`): neither has been worth a module.
