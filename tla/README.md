# T2D in TLA+

T2D carries UDP datagrams (typically WireGuard) over TCP. A client listens on UDP, a server talks UDP to a
backend, and between them run two independent sets of TCP connections, four *lanes* up and four lanes down.
This directory holds TLA+ models of its concurrent core and of its frame layer, TLC runs on small instances and
TLAPS proofs for all instances.

## 1. Inventory

| Component | State | Operations | Hard behaviour |
|---|---|---|---|
| Upstream lane connection, `client.go` | `lane.conn`, `lane.mu`, one-slot `lane.reconnect` | `manageUpstreamConnection`, `watchUpstreamConn`, `writeUpstreamBatch`, `Stop` | four goroutines replace and close one connection; wake-ups may be lost; a mutex is held across a blocking write |
| Upstream data path, `client.go`, `upstream_ring.go` | a lock-free single-producer single-consumer ring per lane, the writer's batch | `handleUDP`, `sendToUpstream`, `acquire/submit/pop/tryPop/release/close`, `handleUpstreamWrites` | slot reuse at capacity, partial writes, closing while both sides work, spinning |
| Downstream lane, `client.go`, `handlers.go`, `server.go` | client: `lane.conn`, `registerCh`, one control loop per connection; server: the lane in each connection's context, `downWriters[lane].conn`, `sessionLaneMap` | `manageDownstreamConnection`, `handleDownstream`, `downstreamControlLoop`, `sendLaneControl`; `OnOpen`, `OnTraffic`, `OnClose` | callbacks of an old connection after those of a new one, server restart, full registration queue |
| Backend sessions, `server.go`, `session.go` | the `sessions` map, a UDP socket and a reader goroutine per session, `ActiveSessions` | `handleUpstreamPacket`, `handleBackendData`, `cleanupSessions`, `closeSessions` | several event loops and goroutines create and remove the same entry; only single map operations are atomic |
| Upstream reordering, `server.go` | `expected`, `pending` per session | `writeUpstreamToBackend`, `forceDrainReorderLocked` | racing, lossy lanes; failing writes; 32-bit sequence numbers |
| Downstream writer, `server.go` | a bounded queue and a batch per lane | `enqueue`, `run` | drops, batching, a connection read just before it is replaced |
| Client sessions, `client.go`, `session.go` | `sessions`, `sessionsByID`, `sessionCounter`, `ActiveSessions` | `getOrCreateSession`, `handleDownstreamPacket`, `cleanupSessions` | expiry against use; ids restart with the process |
| Frame layer, `protocol/`, `handlers.go` | `StreamBuffer`, gnet's inbound buffer | `Write`, `NextRef`, `Reset`, the `OnTraffic` parsers | arbitrary cuts of a byte stream, refused headers, references into a buffer that is reused |
| Configuration, encryption, statistics, TCP options, start-up | - | - | sequential code and library calls |

Interactions: `handleUDP` fills the rings of all lanes; each lane's writer takes from its ring and writes to
`lane.conn`, which the lane's manager and watcher maintain. The server's event loops create backend sessions and
put datagrams in order; the sessions' readers hand answers to the lane writers, whose connection the control
frames of the client determine.

What makes each part correct is stated by the properties of section 3; what can go wrong in it is listed, line by
line, under `hazards` in `PROJECT.json`.

## 2. Modules

Each module models one component; its header says what it leaves out. Actions carry the names of the functions
they stand for, prefixed by the goroutine (`Mgr`, `Watch`, `Write`, `Loop`, `Reader`, `Clean`, `Stop`). A step is
what no other goroutine can observe in parts: a critical section, one atomic operation on a counter, channel or
`sync.Map`. Program counters (`mgr`, `writer`, `prod`, `cons`, `reader`, ...) say where a goroutine is.
Operators commented *Mutant* are faulty variants of the definition that follows them; they are not part of any
specification and serve to show that the properties can fail.

* **UpstreamConn** - one upstream lane's connection. `lane.mu` is held over a blocking call only by the writer, so
  `writer # "idle"` is the mutex. TCP connections are identities reused once nothing refers to them; `Break` ends
  one at any time. Back-off lengths (`reconnectDelay`) are abstracted to "the timer fires or a token arrives".
* **UpstreamPath** - from `ReadFromUDPAddrPort` to the write of a batch, for L lanes. `acquire`, `submit`, `pop`
  are split where the code reads a second atomic variable. `tail`, `freeHead`, `readHead` are unbounded counters as
  in the code (64 bit). `sub` and `wire` are history variables. Whether `lane.conn` is nil, and where a write fails,
  is chosen freely (UpstreamConn decides it in detail). Encryption errors (a dropped datagram before any shared
  state is touched) and the size check of `sendToUpstream` (slots are allocated for the largest packet) are left
  out. `handleUDPZeroCopy` is never enabled and not modelled. `StopListener` stands for Stop's way through the locks
  of the downstream lanes to the listener: a control frame that a downstream connection does not take could hold it
  up there just as an upstream write does, which is not followed here.
* **DownstreamLane** - client and server side of one downstream lane, with the frames in flight between them. A
  control frame is the set of session ids in it. `MarshalIds` (65,535) ids are what `Marshal` encodes: with more,
  `sendLaneControl` returns without sending. `FrameIds` (16,382) ids are what fits into 64 KiB: with more, `OnTraffic`
  refuses the frame and discards what is buffered, any number of frames and perhaps only the beginning of the last;
  the connection is then `skewed`, and what follows is discarded too until a discard happens to end with a frame.
  (That bytes from the middle of a frame pass for a header is FrameParser's subject and left out here.)
  A write that finds `MaxFrames` frames in flight waits; the server reads, so it does not wait for ever, and what
  `lane.mu` delays meanwhile is not tracked.
* **ServerSessions** - the server's map of backend sessions. `lastActive` is abstracted to *idle or not*. The `Range`
  of `cleanupSessions` is one step, and no tick is taken after the cancel, although `select` may still choose one: both
  only decide which expired sessions are on the list, and each is looked up again when it is removed.
* **Reorder** - one session's reordering. A packet is its number in sending order, its sequence number that number
  modulo `Modulus`. Whether the hold time is over is chosen freely. `Forget` deletes the state with its session;
  `written` is the history of one state.
* **DownstreamWriter** - one downstream lane as the path of the answers: queue, batch, the connection read by
  `flush`, frames on the connections, the client's reading. Connections are numbered; which control frame makes which
  of them the lane's is DownstreamLane's subject and chosen freely here.
* **LossyFifo** - what a lane promises, up or down: items may be lost, the others arrive once and in order. Each lane
  of UpstreamPath (from `submit` to the connection) and DownstreamWriter (from `enqueue` to the client's read)
  implements it (`FifoLane`).
* **ClientSessions** - the client's two maps and its counter under `handleUDP`, the receivers and `cleanupSessions`,
  together with the server's sessions by id and with restarts of the client process. `lastActive` is *idle or not*; a
  session being created does not expire, while one whose datagram waits for a slot of the ring may. What becomes of a datagram between `sendToUpstream` and the server is
  UpstreamPath's; here it arrives or is lost.
* **FrameParser** - the server's `OnTraffic` loops over a plain queue of bytes, with the sender and a stream that is
  cut anywhere. A header has three bytes: one for what `Validate` tests, one for the ids, one for the length.
  `sent`, `ends` (where each frame ends in the stream), `got` and `base` are history variables.
* **StreamBuffer** - the client's receiver: array, length, offset, compaction, growth, and payloads that are
  references into the array. The rounding of `append` to Go's size classes, which only adds room, is left out, and
  the bound on the array in `BufferSound` is up to it. StreamBuffer implements FrameParser (`ParsesFrames`), with the unread bytes as the queue and the
  frame behind a reference counted as handed over.
* **...Proofs** - the theorems about each of them; **MC...** - the modules TLC runs.

Striping, reordering and the batch delay are compiled in but switched off by `setDefaults`
(`UpstreamStripeEnabled = false`, `UpstreamBatchMaxDelayMs = 0`); the models cover the code for both settings.

## 3. Runs

| Run | Instance | Shows |
|---|---|---|
| `upstream_conn` | 3 connections, `FlowSpec` | `NoLostWakeup`, `NoSocketLeak`, `LaneConnWatched`, `HealthyConnKept`, `LaneReconnects`, `StopReturns` |
| `upstream_conn_stop` | 2 connections, `FairSpec` | **violation** of `StopReturns` when the peer stops reading |
| `upstream_path` | 2 lanes, 2 sessions, rings of 2, 3 datagrams, batches of 2 packets / 3 bytes, batch delay on, lane 0 may stall | `SlotExclusive`, `BatchIntact`, `SessionOrder`, `FifoLane`, `Drained`, `ProducerResumes`, `GoroutinesEnd` |
| `downstream_lane` | 2 connections, 1 session whose register frames are refused, a break, Stop | `WriterConnLive`, `LaneConnRead`, `NoSocketLeak`, `LaneHeals` |
| `downstream_register` | 2 connections, 3 sessions, queue of 1, 1 id per accepted frame, 2 per encoded one, a server restart | `LaneReconnects`, `ReconnectRegisters` |
| `downstream_queue_full` | 1 connection, 2 sessions, queue of 1, no limit on frames, no failures | **violation** of `HeartbeatRegisters` |
| `server_sessions` | 2 session objects, 2 event loops, `FairSpec` | `NoDeadEntry`, `CountCovers`, `IdleEntryRemoved` |
| `server_sessions_orphan` | 2 objects, 1 event loop, `FairSpec` | **violation** of `IdleSessionClosed` |
| `reorder` | 3 lanes, window 3, 12 packets, no wrap-around | `InOrder`, `PendingInWindow` |
| `downstream_writer` | 2 sessions, queue of 2, batches of 2, 4 answers, 2 connections | `FifoLane`, `NoSilentLoss`, `Delivered` |
| `client_sessions` | 2 addresses, 2 ids, 2 runs of the client process, 1 receiver | `MapsAgree`, `AnswerToOwner`, `IdleRemoved` |
| `frames` | 3 frames with payloads of 0 to 2 bytes, limit 1, reads of 1 to 6 bytes, payloads that may look like a header | `BufferSound`, `FramesIntact` (`Synced` and `Genuine`), `ParsesFrames` |

Every module also has a type invariant (in StreamBuffer a part of `BufferSound`), which says in addition where a nil value may stand.

The violations are disagreements between code and comments, described under `findings` in `PROJECT.json`:

* `Stop` waits for `lane.mu` while the writer holds it in a write without deadline; with a peer that no longer reads
  it never returns (`client.go:192`, `client.go:648`).
* A registration dropped by a full `registerCh` is not repeated by heartbeats, as the comment at `client.go:535`
  has it, but only by the next reconnect.
* The deferred `LoadAndDelete` of a session's reader (`server.go:517`) goes by id: after an expiry it may remove the
  *new* session of that id, which then stays open outside the map and never expires.

Bounds. Three connections let a watcher of the first be late while the second is lost and a third is installed;
two suffice on the downstream side, where only the old and the current connection matter. There the control loop of
the old connection outlives it and still takes registrations and sends on the new one, and old frames and closes reach
the server late. `Once` names the failures that happen at most once, which keeps the runs small; for any number of
failures the invariants are theorems. In `downstream_register` one session fits into a frame, two make a frame that
the server refuses, and three one that `Marshal` does not encode, while `downstream_lane` has a lane of which the
server refuses every registration, so that it gets out of step and back. In `upstream_path` a ring of two is full
after two datagrams, and the third reuses a slot and makes the goroutine wait; each session's lane can be the one that stalls. `MaxDrift` bounds
how far the server's session counter moves: the map holds at most the one session of the instance, so two leaves
room for a session that both event loops count. Twelve packets in a window of three pass through each branch of
`writeUpstreamToBackend` several times. In `downstream_writer` four answers overflow the queue and make two batches,
with the first connection, the second or none. In `client_sessions` two ids per run suffice for an address to lose
its session and get another while the second address has or wants one; the invariants have also been checked with
three ids (12.5 million states). In `frames` a read of six bytes brings parts of three frames, a payload of two
exceeds the limit of one, and three frames leave one behind a refused one to get in step with.
The server's parser is not run by itself: `ParsesFrames` maps StreamBuffer's states onto FrameParser's, all of which
are met that way, so `Synced` and `Genuine` hold of both.
Where runs say `CHECK_DEADLOCK FALSE`, the system may really stop: all goroutines have ended after Stop, or no
datagram is left within the bound.

Some consequences of the design are visible in the models without being violations. A single goroutine feeds all
lanes, so a lane whose peer stops reading stops the *input* of all sessions once its ring is full; `Drained` holds
only for what the other lanes already had. And two event loops may both create the session of one id
(`server.go:366`, `server.go:395`, as after a reconnect of its lane): both count it, the map keeps one, and
`ActiveSessions` stays too high from then on; that is why `CountCovers` is an inequality. A frame above the
receiver's limit puts the connection out of step: all that is buffered is discarded, and what follows is cut at the
wrong places until a read happens to begin with a frame (`Synced` says when it is in step, `Genuine` that nothing is
made up meanwhile unless some id, length or payload byte passes for the begin of a header, `Unmistakable`). With the
shipped configurations, `max_packet_size` 1500 at the client and 65536 at the server, an answer above 3.5 kB has this
effect, and so has the register frame that a client with more than 16,382 sessions on a lane sends at each reconnect;
those sessions are not registered (`ReconnectRegisters` states the limit). After a restart of the client its ids start again at 1, and the server's old
session of an id serves whichever address gets that id: `AnswerToOwner` is therefore about backend sessions made by
the current run. And with striping on, sequence numbers that start again at 1 would all be older than what the
server's reordering state expects.

## 4. Fairness

* Weak fairness for goroutines and event loops: the Go scheduler and gnet run whatever can run; timers fire and
  tickers tick.
* Strong fairness for steps that take `lane.mu` against a writer that keeps retaking it (`sync.Mutex` has a
  starvation mode), and for the cases of a `select` (chosen at random among the ready ones): in DownstreamLane for
  the end of a control loop, and for the receipt of a registration by one of the loops.
* Strong fairness of a successful dial: liveness of a lane is claimed only if the server is reachable again and
  again. After a cancelled context no dial succeeds.
* A write to a connection that has ended fails. A write to a healthy connection returns only in `FlowSpec`, and in
  UpstreamPath only for lanes outside `Stalled`; `GoroutinesEnd` excuses only a write that hangs for ever.
* In DownstreamWriter the client reads its connection; in ClientSessions only `cleanupSessions` has to run.
* Nothing is assumed of users: nobody has to send datagrams, break connections, or call Stop.

## 5. Proofs

All theorems hold for every value of the constants under the `ASSUME`s of the modules: nil is not a connection,
session or frame, bounds are natural numbers, capacities are positive, and addresses (client) and session
identifiers, session objects and event loops (server) are finitely many. Each proof is an inductive invariant,
implied by `Init` and preserved by every action. Every safety invariant, every action property and every refinement
that a run checks is also a theorem.

* **UpstreamConnProofs**: `TypeCorrect`, `WakeupSafe`, `SocketSafe`, `WatchSafe`, `TeardownSafe`. The properties are
  not inductive by themselves: one needs that the lane's connection is open, that a dialed connection is nobody
  else's, that a watcher past its read has seen the connection end (otherwise a late watcher could tear down a
  healthy connection), that a writer inside a write has a connection, and that Stop cancels before it closes.
* **UpstreamPathProofs**: `TypeCorrect`, `SlotSafe`, `BatchSafe`, `Refines` (`FifoLane`), `SessionSafe`
  (`SessionOrder`). The invariant `IInv` ties the three counters together
  (`freeHead + Len(batch) = readHead <= tail <= freeHead + Capacity`), says that the batch is the run of slots from
  `freeHead`, that these and the published slots hold what was submitted under their numbers, and that the
  producer's slot is free. The arithmetic fact behind it: numbers less than `Capacity` apart have different slots.
  For the refinement, `IInv` gives `Shape`: what is pending, read from the slots, is the end of what was submitted;
  a step then adds the producer's datagram at its end, or moves a first part of it to the wire and drops some more
  (`Moved`), or changes neither. `SessionSafe` adds `OInv`: wire and pending datagrams together are in order
  (`Sorted`), on their session's lane, and numbered before the one the producer has in hand (`Known`).
* **DownstreamLaneProofs**: `TypeCorrect`, `WriterConnSafe`, `ReaderSafe`, `SocketSafe`. The writer's connection is
  one whose context names the lane, and such connections are open in the server. This holds for any limits on
  control frames, in step or not.
* **ServerSessionsProofs**: `TypeCorrect`; `EntrySafe` (`NoDeadEntry`) for any number of event loops: an object is in
  the map only under its own id, an object being created has no reader, and no two loops create the same object;
  `CountSafe` (`CountCovers`), which with the types is inductive by itself: the proof follows the cardinality of the
  three sets it mentions through each step, one element in or out at a time.
* **ReorderProofs**: `TypeCorrect` and `WindowSafe` (`PendingInWindow`) unconditionally, wrap-around included: what a
  drain or a jump leaves behind is ahead of the new `expected`, and the forced drain keeps the set below the window.
  `ReorderSafe` (`InOrder`) as long as the numbers stay below the modulus:
  everything written is behind `expected`, everything held is ahead of it, and a drain writes a run of consecutive
  numbers. The hypothesis is needed: sequence numbers are compared without regard to wrap-around (`server.go:426`),
  and an instance with `Modulus = 16` and packets 13 to 18 violates `InOrder`.
* **DownstreamWriterProofs**: `TypeCorrect`, `LossExcused` (`NoSilentLoss`), `Refines` (`FifoLane`). The invariant adds
  to the types that an empty batch has no bytes, that the server has the connection the client has until that
  breaks, and that nothing is on its way on a connection not yet dialed. Both results then follow from one
  classification of the steps by what they do to the queue of pending frames (on the client's connection, in the
  batch, in the channel): it stays (`Keeps`), grows (`Accepts`), is delivered from (`Delivers`), or loses the batch
  (`DropsBatch`) or the connection's frames (`BreaksOff`).
* **ClientSessionsProofs**: `TypeCorrect`, `MapsSafe`, `AnswerSafe`, for any finite set of addresses and any number
  of sessions, receivers and restarts. Behind both: an id is given out once in a run (`Counted`, `Unique`: every
  session that occurs anywhere, in a map, in a goroutine's hands, at the server or in a packet, is known by its run
  and id, and `sessionCounter` is ahead of all of this run). `Placed` says that sessions stand under their own
  address and id, `Apart` that `cleanupSessions` never lists or removes the session `handleUDP` is storing, which
  rests on the timeout being longer than that takes (`Age`). A restart keeps the invariant because what survives
  it belongs to an earlier run.
* **StreamBufferProofs**: `BufferSafe` (`BufferSound`), `Refines` (`ParsesFrames`), `FramesSafe` (`FramesIntact`).
  `SInv` adds to `BufferSound` that a read begins only when the unread bytes are no whole frame, which bounds the
  array, and that a reference in use lies inside it. The refinement rests on what `Write` does to the unread bytes
  in each of its cases (moved or not, grown or not): they are the old ones followed by those read. `FInv` relates
  the bytes to the frames sent: the frames lie end to end and cover the stream (`Layout`); every byte still to be
  parsed is the byte of the frame at its place (`Content`); if the last discard ended with a frame, the frames
  handed over since are the next ones and the parser stands at the end of the last (`Steps`); and, when nothing
  passes for the begin of a header, all frames handed over were sent and end before the parser's place (`Real`).

Only model-checked: the liveness properties (`LaneReconnects`, `StopReturns`, `Drained`, `ProducerResumes`,
`GoroutinesEnd`, `LaneHeals`, `ReconnectRegisters`, `IdleEntryRemoved`, `Delivered`, `IdleRemoved`), because TLAPS has
no support for fairness and `ENABLED` here. `FramesSafe` is about the client's receiver; for the server's parser,
which has no theorem of its own, `Synced` and `Genuine` are model-checked through the refinement (section 3).

## 6. Not modelled

Encryption, statistics other than `ActiveSessions`, TCP options, start-up and log output: library calls or
write-only state. Configuration is fixed at start-up and appears as the runs' constants. The byte encoding of lane
control frames (`control.go`) is a pure function whose result DownstreamLane carries as a set of ids, with
its limits. In ServerSessions
the entries of `sessionLaneMap` and `upstreamReorderStates` that go with a session are left out: the first always
equals the fallback of `laneForSession`, the second is Reorder's. gnet, the Go runtime and TCP appear through what the code relies on: callbacks of one connection
come in order, streams keep order, a closed socket makes reads fail.

## 7. Plan

1. *(done)* UpstreamConn, UpstreamPath, DownstreamLane, ServerSessions, Reorder and their first theorems.
2. *(done)* DownstreamWriter, ClientSessions, FrameParser and StreamBuffer; LossyFifo and its two implementations.
3. *(done)* `MapsAgree` and `AnswerToOwner` of ClientSessions proved.
4. *(done)* Proofs: the refinements `FifoLane` of UpstreamPath and DownstreamWriter and `ParsesFrames`;
   `SessionOrder`, `NoSilentLoss`, `CountCovers`, `PendingInWindow`, `BufferSound`, `FramesIntact`; the remaining type
   invariants.
5. Proofs: `FramesIntact` of FrameParser as a theorem of its own, for the server's parser.
