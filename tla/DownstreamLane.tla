-------------------------- MODULE DownstreamLane --------------------------
(***************************************************************************)
(* One downstream lane, client and server: how the client keeps a TCP      *)
(* connection for the lane, and how the lane's writer in the server learns *)
(* which connection that is.                                               *)
(*                                                                         *)
(* In the client, manageDownstreamConnection dials, registers all sessions *)
(* of the lane and reads (handleDownstream) until the connection ends; a   *)
(* downstreamControlLoop per connection sends hello, new registrations and *)
(* heartbeats on whatever lane.conn then is.  In the server, gnet calls    *)
(* OnOpen, OnTraffic and OnClose of a connection in this order, and those  *)
(* of different connections in any order.  Frames on one connection stay   *)
(* in order.                                                               *)
(*                                                                         *)
(* Lanes share no state but the maps of sessions, and a client sends only  *)
(* its own lane's number on a lane's connection, so one lane is modelled,  *)
(* with the sessions that map to it; the checks of LaneCount and LaneID    *)
(* pass because both sides fix the lane count at 4.  Sessions are not      *)
(* removed here, and BackendSession.downstreamConn, which nothing reads,   *)
(* is left out.  Data frames do not change any of this state.              *)
(*                                                                         *)
(* A control frame has limits: Marshal encodes at most 65,535 session      *)
(* identifiers, and the server refuses a frame with more than 64 KiB of    *)
(* payload, which is 16,382 of them.  It then discards what it has         *)
(* buffered, and the next bytes it reads need not begin a frame: it is out *)
(* of step.  FrameParser goes into the bytes; here, bytes from the middle  *)
(* of a frame never look like a header.                                    *)
(***************************************************************************)
EXTENDS Naturals, Sequences, FiniteSets

CONSTANTS
  Conns,      \* identities of TCP connections; reused once nothing refers to one
  NoConn,     \* nil
  Sids,       \* sessions that map to this lane
  RegCap,     \* capacity of lane.registerCh
  MarshalIds, \* most session identifiers that Marshal encodes in a frame
  FrameIds,   \* most of them that maxDownstreamControlPayload lets in
  MaxFrames,  \* bound: frames in flight on a connection; a further Write blocks
  Events,     \* bound: which of "break", "restart" and "stop" happen
  Once        \* bound: which of "break" and "restart" happen at most once

ASSUME NoConnAssumption == NoConn \notin Conns
ASSUME LimitsAssumption == FrameIds \in Nat /\ MarshalIds \in Nat /\ FrameIds <= MarshalIds
ASSUME BoundsAssumption == RegCap \in Nat \ {0} /\ MaxFrames \in Nat \ {0}

VARIABLES
  conn,       \* lane.conn
  open,       \* connections the client has not closed
  broken,     \* connections that the network or the server has ended
  reconnect,  \* does lane.reconnect hold its token?
  mgr,        \* where manageDownstreamConnection is
  hconn,      \* the connection it has dialed and reads from
  mine,       \* the lane's sessions in sessionsByID
  regCh,      \* lane.registerCh
  loop,       \* where the downstreamControlLoop of each connection is
  pending,    \* its pending set
  done,       \* connections whose done channel is closed
  ctxDone,    \* the client's c.cancel() has been called
  stop,       \* where the client's Stop is
  srv,        \* each connection in the server: "none", "new" or "open"
  ident,      \* connections whose context has the lane's number
  c2s,        \* the frames in flight on each connection
  skewed,     \* connections on which the server has read into the middle of a frame
  wconn,      \* downWriters[lane].conn
  laneMap,    \* the sessions in sessionLaneMap
  past        \* those of Once that have happened

laneVars   == <<conn, open, reconnect>>
netVars    == <<broken, past>>
mgrVars    == <<mgr, hconn>>
loopVars   == <<loop, pending, done>>
stopVars   == <<ctxDone, stop>>
serverVars == <<srv, ident, skewed, wconn, laneMap>>
vars == <<laneVars, netVars, mgrVars, mine, regCh, loopVars, stopVars, serverVars, c2s>>

(* A control frame, by the session identifiers in it.  handleLaneControl   *)
(* treats hello and heartbeat alike for a connection of one lane.          *)
Frame == SUBSET Sids
Hello == {}
Register(ids) == ids
Heartbeat == {}

MgrStates == {"loop", "check", "wait", "dial", "backoff", "install", "drain", "register",
              "spawn", "read", "close", "clear", "notify", "exit"}

Init ==
  /\ conn = NoConn /\ open = {} /\ broken = {} /\ reconnect = FALSE
  /\ mgr = "loop" /\ hconn = NoConn
  /\ mine = {} /\ regCh = <<>>
  /\ loop = [c \in Conns |-> "none"] /\ pending = [c \in Conns |-> {}] /\ done = {}
  /\ ctxDone = FALSE /\ stop = "no"
  /\ srv = [c \in Conns |-> "none"] /\ ident = {} /\ wconn = NoConn /\ laneMap = {}
  /\ c2s = [c \in Conns |-> <<>>] /\ skewed = {} /\ past = {}

Marshals(frame) == Cardinality(frame) <= MarshalIds

(* conn.Write: the frame is written (and lost if the connection has ended  *)
(* unnoticed) or the write fails, which closes the connection and wakes    *)
(* the manager.                                                            *)
WriteControl(frame) ==
  \/ /\ conn \in open \ broken /\ Len(c2s[conn]) < MaxFrames
     /\ c2s' = [c2s EXCEPT ![conn] = Append(@, frame)]
     /\ UNCHANGED laneVars
  \/ /\ conn \in open \cap broken
     /\ UNCHANGED <<laneVars, c2s>>
  \/ /\ conn \in broken \/ conn \notin open
     /\ open' = open \ {conn} /\ conn' = NoConn /\ reconnect' = TRUE
     /\ UNCHANGED c2s

(* sendLaneControl: nothing without a connection, nor if Marshal fails.    *)
SendLaneControl(frame) ==
  \/ /\ conn = NoConn
     /\ UNCHANGED <<laneVars, c2s>>
  \/ /\ conn # NoConn /\ ~Marshals(frame)
     /\ UNCHANGED <<laneVars, c2s>>
  \/ /\ conn # NoConn /\ Marshals(frame)
     /\ WriteControl(frame)
-----------------------------------------------------------------------------
(* manageDownstreamConnection.                                             *)

MgrLoop ==
  /\ mgr = "loop"
  /\ mgr' = IF ctxDone THEN "exit" ELSE "check"
  /\ UNCHANGED <<laneVars, netVars, hconn, mine, regCh, loopVars, stopVars, serverVars, c2s>>

MgrCheck ==
  /\ mgr = "check"
  /\ mgr' = IF conn # NoConn THEN "wait" ELSE "dial"
  /\ UNCHANGED <<laneVars, netVars, hconn, mine, regCh, loopVars, stopVars, serverVars, c2s>>

MgrWake ==
  /\ mgr \in {"wait", "backoff"} /\ reconnect
  /\ reconnect' = FALSE /\ mgr' = "loop"
  /\ UNCHANGED <<conn, open, netVars, hconn, mine, regCh, loopVars, stopVars, serverVars, c2s>>

MgrCancelled ==
  /\ mgr \in {"wait", "backoff"} /\ ctxDone
  /\ mgr' = "exit"
  /\ UNCHANGED <<laneVars, netVars, hconn, mine, regCh, loopVars, stopVars, serverVars, c2s>>

MgrTimer ==
  /\ mgr = "backoff"
  /\ mgr' = "loop"
  /\ UNCHANGED <<laneVars, netVars, hconn, mine, regCh, loopVars, stopVars, serverVars, c2s>>

(* Mutants: the error of dialTCP is ignored; it ends the goroutine.        *)
DialFailIgnored ==
  /\ mgr = "dial"
  /\ mgr' = "install"
  /\ UNCHANGED <<laneVars, netVars, hconn, mine, regCh, loopVars, stopVars, serverVars, c2s>>

DialFailReturns ==
  /\ mgr = "dial"
  /\ mgr' = "exit"
  /\ UNCHANGED <<laneVars, netVars, hconn, mine, regCh, loopVars, stopVars, serverVars, c2s>>

DialFail ==
  /\ mgr = "dial"
  /\ mgr' = "backoff"
  /\ UNCHANGED <<laneVars, netVars, hconn, mine, regCh, loopVars, stopVars, serverVars, c2s>>

DialOk(c) ==
  /\ mgr = "dial" /\ ~ctxDone
  /\ c \notin open /\ loop[c] = "none" /\ srv[c] = "none"
  /\ hconn' = c /\ open' = open \cup {c} /\ broken' = broken \ {c} /\ mgr' = "install"
  /\ srv' = [srv EXCEPT ![c] = "new"] /\ c2s' = [c2s EXCEPT ![c] = <<>>]
  /\ UNCHANGED <<conn, reconnect, mine, regCh, loopVars, stopVars, ident, skewed, wconn, laneMap, past>>

MgrInstall ==
  /\ mgr = "install"
  /\ conn' = hconn /\ mgr' = "drain"
  /\ UNCHANGED <<open, reconnect, netVars, hconn, mine, regCh, loopVars, stopVars, serverVars, c2s>>

MgrDrain ==
  /\ mgr = "drain"
  /\ reconnect' = FALSE /\ mgr' = "register"
  /\ UNCHANGED <<conn, open, netVars, hconn, mine, regCh, loopVars, stopVars, serverVars, c2s>>

(* Mutant: a new connection registers nothing.                             *)
MgrRegisterSkipped ==
  /\ mgr = "register"
  /\ mgr' = "spawn"
  /\ UNCHANGED <<laneVars, netVars, hconn, mine, regCh, loopVars, stopVars, serverVars, c2s>>

(* registerAllSessionsForLane.                                             *)
MgrRegister ==
  /\ mgr = "register"
  /\ mgr' = "spawn"
  /\ IF mine = {} THEN UNCHANGED <<laneVars, c2s>> ELSE SendLaneControl(Register(mine))
  /\ UNCHANGED <<netVars, hconn, mine, regCh, loopVars, stopVars, serverVars>>

(* handleDownstream: start the control loop, read until the end, ...       *)
MgrSpawn ==
  /\ mgr = "spawn"
  /\ loop' = [loop EXCEPT ![hconn] = "hello"] /\ mgr' = "read"
  /\ UNCHANGED <<laneVars, netVars, hconn, mine, regCh, pending, done, stopVars, serverVars, c2s>>

ReadEnds ==
  /\ mgr = "read" /\ (hconn \in broken \/ hconn \notin open \/ ctxDone)
  /\ mgr' = "close"
  /\ UNCHANGED <<laneVars, netVars, hconn, mine, regCh, loopVars, stopVars, serverVars, c2s>>

(* Mutant: handleDownstream returns without closing its connection.        *)
MgrCloseForgotten ==
  /\ mgr = "close"
  /\ done' = done \cup {hconn} /\ mgr' = "clear"
  /\ UNCHANGED <<laneVars, netVars, hconn, mine, regCh, loop, pending, stopVars, serverVars, c2s>>

(* ... then the deferred calls: close(done) and conn.Close(), clear        *)
(* lane.conn if it is still this connection, notifyReconnect.              *)
MgrClose ==
  /\ mgr = "close"
  /\ done' = done \cup {hconn} /\ open' = open \ {hconn} /\ mgr' = "clear"
  /\ UNCHANGED <<conn, reconnect, netVars, hconn, mine, regCh, loop, pending, stopVars, serverVars, c2s>>

(* Mutant: lane.conn keeps the closed connection.                          *)
MgrClearForgotten ==
  /\ mgr = "clear"
  /\ mgr' = "notify" /\ hconn' = NoConn
  /\ UNCHANGED <<laneVars, netVars, mine, regCh, loopVars, stopVars, serverVars, c2s>>

MgrClear ==
  /\ mgr = "clear"
  /\ conn' = IF conn = hconn THEN NoConn ELSE conn
  /\ mgr' = "notify" /\ hconn' = NoConn
  /\ UNCHANGED <<open, reconnect, netVars, mine, regCh, loopVars, stopVars, serverVars, c2s>>

MgrNotify ==
  /\ mgr = "notify"
  /\ reconnect' = TRUE /\ mgr' = "loop"
  /\ UNCHANGED <<conn, open, netVars, hconn, mine, regCh, loopVars, stopVars, serverVars, c2s>>
-----------------------------------------------------------------------------
(* A full queue drops the registration.                                    *)
RegisterSessionOnLane(s) ==
  regCh' = IF Len(regCh) < RegCap THEN Append(regCh, s) ELSE regCh

(* getOrCreateSession, for a new address.                                  *)
NewSession(s) ==
  /\ s \notin mine /\ ~ctxDone
  /\ mine' = mine \cup {s} /\ RegisterSessionOnLane(s)
  /\ UNCHANGED <<laneVars, netVars, mgrVars, loopVars, stopVars, serverVars, c2s>>
-----------------------------------------------------------------------------
(* downstreamControlLoop of connection c.                                  *)

LoopHello(c) ==
  /\ loop[c] = "hello"
  /\ SendLaneControl(Hello) /\ loop' = [loop EXCEPT ![c] = "select"]
  /\ UNCHANGED <<netVars, mgrVars, mine, regCh, pending, done, stopVars, serverVars>>

(* The loop ends, and its pending set and done channel with it.            *)
LoopExit(c) ==
  /\ loop[c] = "select" /\ (c \in done \/ ctxDone)
  /\ loop' = [loop EXCEPT ![c] = "none"] /\ pending' = [pending EXCEPT ![c] = {}]
  /\ done' = done \ {c}
  /\ UNCHANGED <<laneVars, netVars, mgrVars, mine, regCh, stopVars, serverVars, c2s>>

LoopTake(c) ==
  /\ loop[c] = "select" /\ regCh # <<>>
  /\ pending' = [pending EXCEPT ![c] = @ \cup {Head(regCh)}] /\ regCh' = Tail(regCh)
  /\ UNCHANGED <<laneVars, netVars, mgrVars, mine, loop, done, stopVars, serverVars, c2s>>

(* flushPending forgets the pending sessions whether or not they are sent. *)
FlushPending(c) ==
  /\ pending' = [pending EXCEPT ![c] = {}]
  /\ IF pending[c] = {} THEN UNCHANGED <<laneVars, c2s>>
                        ELSE SendLaneControl(Register(pending[c]))

LoopFlush(c) ==
  /\ loop[c] = "select" /\ pending[c] # {}
  /\ FlushPending(c)
  /\ UNCHANGED <<netVars, mgrVars, mine, regCh, loop, done, stopVars, serverVars>>

LoopTick(c) ==
  /\ loop[c] = "select"
  /\ FlushPending(c) /\ loop' = [loop EXCEPT ![c] = "beat"]
  /\ UNCHANGED <<netVars, mgrVars, mine, regCh, done, stopVars, serverVars>>

(* Mutant: no heartbeat is sent.                                           *)
LoopBeatSilent(c) ==
  /\ loop[c] = "beat"
  /\ loop' = [loop EXCEPT ![c] = "select"]
  /\ UNCHANGED <<laneVars, netVars, mgrVars, mine, regCh, pending, done, stopVars, serverVars, c2s>>

LoopBeat(c) ==
  /\ loop[c] = "beat"
  /\ SendLaneControl(Heartbeat) /\ loop' = [loop EXCEPT ![c] = "select"]
  /\ UNCHANGED <<netVars, mgrVars, mine, regCh, pending, done, stopVars, serverVars>>
-----------------------------------------------------------------------------
(* The client's Stop, for this lane.                                       *)

StopCancel ==
  /\ "stop" \in Events /\ stop = "no"
  /\ ctxDone' = TRUE /\ stop' = "lock"
  /\ UNCHANGED <<laneVars, netVars, mgrVars, mine, regCh, loopVars, serverVars, c2s>>

StopClose ==
  /\ stop = "lock"
  /\ stop' = "done" /\ conn' = NoConn /\ open' = open \ {conn}
  /\ UNCHANGED <<reconnect, netVars, mgrVars, mine, regCh, loopVars, ctxDone, serverVars, c2s>>
-----------------------------------------------------------------------------
(* The server's DownstreamHandler.                                         *)

OnOpen(c) ==
  /\ srv[c] = "new"
  /\ srv' = [srv EXCEPT ![c] = "open"] /\ ident' = ident \ {c}
  /\ UNCHANGED <<laneVars, netVars, mgrVars, mine, regCh, loopVars, stopVars, skewed, wconn,
                 laneMap, c2s>>

Accepted(frame) == Cardinality(frame) <= FrameIds

(* The next frame is taken and handleLaneControl called: every kind of     *)
(* control frame makes c the lane's connection.                            *)
HandleFrame(c) ==
  /\ c \notin skewed /\ c2s[c] # <<>> /\ Accepted(Head(c2s[c]))
  /\ c2s' = [c2s EXCEPT ![c] = Tail(@)]
  /\ ident' = ident \cup {c} /\ wconn' = c
  /\ laneMap' = laneMap \cup Head(c2s[c])
  /\ UNCHANGED skewed

(* Discard(InboundBuffered()): n frames are gone, the last one up to its   *)
(* end or only its beginning.                                              *)
DiscardBuffered(c, n, whole) ==
  /\ c2s' = [c2s EXCEPT ![c] = SubSeq(@, n + 1, Len(@))]
  /\ skewed' = IF whole THEN skewed \ {c} ELSE skewed \cup {c}
  /\ UNCHANGED <<ident, wconn, laneMap>>

(* The payload is too large: the frame goes, and what came along with it.  *)
RefuseFrame(c) ==
  /\ c \notin skewed /\ c2s[c] # <<>> /\ ~Accepted(Head(c2s[c]))
  /\ \E n \in 1 .. Len(c2s[c]), whole \in BOOLEAN : DiscardBuffered(c, n, whole)

(* No magic number: the rest of the frame goes, and what came with it.     *)
DiscardRest(c) ==
  /\ c \in skewed
  /\ \E n \in 0 .. Len(c2s[c]), whole \in BOOLEAN : DiscardBuffered(c, n, whole)

OnTraffic(c) ==
  /\ srv[c] = "open"
  /\ HandleFrame(c) \/ RefuseFrame(c) \/ DiscardRest(c)
  /\ UNCHANGED <<laneVars, netVars, mgrVars, mine, regCh, loopVars, stopVars, srv>>

(* Mutant: OnClose leaves the writer's connection alone.                   *)
OnCloseKeepsWriter(c) ==
  /\ srv[c] = "open"
  /\ c \in broken \/ (c \notin open /\ c2s[c] = <<>>)
  /\ srv' = [srv EXCEPT ![c] = "none"]
  /\ ident' = ident \ {c} /\ skewed' = skewed \ {c} /\ c2s' = [c2s EXCEPT ![c] = <<>>]
  /\ UNCHANGED <<laneVars, netVars, mgrVars, mine, regCh, loopVars, stopVars, wconn, laneMap>>

(* The end of a stream that the client closed comes after its last frame;  *)
(* a broken connection loses what is in flight.                            *)
OnClose(c) ==
  /\ srv[c] = "open"
  /\ c \in broken \/ (c \notin open /\ c2s[c] = <<>>)
  /\ srv' = [srv EXCEPT ![c] = "none"]
  /\ wconn' = IF c \in ident /\ wconn = c THEN NoConn ELSE wconn
  /\ ident' = ident \ {c} /\ skewed' = skewed \ {c} /\ c2s' = [c2s EXCEPT ![c] = <<>>]
  /\ UNCHANGED <<laneVars, netVars, mgrVars, mine, regCh, loopVars, stopVars, laneMap>>
-----------------------------------------------------------------------------
(* A connection ends, or the server process restarts and forgets all.      *)

Happens(event) ==
  /\ event \in Events \ past
  /\ past' = past \cup ({event} \cap Once)

Break(c) ==
  /\ Happens("break") /\ srv[c] # "none" /\ c \notin broken
  /\ broken' = broken \cup {c}
  /\ UNCHANGED <<laneVars, mgrVars, mine, regCh, loopVars, stopVars, serverVars, c2s>>

ServerRestart ==
  /\ Happens("restart")
  /\ broken' = broken \cup {c \in Conns : srv[c] # "none"}
  /\ srv' = [c \in Conns |-> "none"] /\ ident' = {} /\ wconn' = NoConn /\ laneMap' = {}
  /\ c2s' = [c \in Conns |-> <<>>] /\ skewed' = {}
  /\ UNCHANGED <<laneVars, mgrVars, mine, regCh, loopVars, stopVars>>
-----------------------------------------------------------------------------
Manager == MgrLoop \/ MgrCheck \/ MgrWake \/ MgrCancelled \/ MgrTimer \/ MgrInstall
             \/ MgrDrain \/ MgrRegister \/ MgrSpawn \/ ReadEnds \/ MgrClose \/ MgrClear
             \/ MgrNotify

ControlLoop(c) == LoopHello(c) \/ LoopExit(c) \/ LoopTake(c) \/ LoopFlush(c)
                    \/ LoopTick(c) \/ LoopBeat(c)

Server(c) == OnOpen(c) \/ OnTraffic(c) \/ OnClose(c)

Next ==
  \/ Manager \/ DialFail \/ StopCancel \/ StopClose \/ ServerRestart
  \/ \E s \in Sids : NewSession(s)
  \/ \E c \in Conns : DialOk(c) \/ ControlLoop(c) \/ Server(c) \/ Break(c)

Spec == Init /\ [][Next]_vars

(* The Go scheduler and gnet run what can run, tickers tick for ever, and  *)
(* Go's select chooses at random among the ready cases, so a case that is  *)
(* ready again and again is taken (SF).  Dials that are retried for ever   *)
(* do not fail for ever.  Connections may break at any time but need not.  *)
Fairness ==
  /\ WF_vars(Manager) /\ WF_vars(DialFail \/ \E c \in Conns : DialOk(c))
  /\ SF_vars(\E c \in Conns : DialOk(c))
  /\ SF_vars(\E c \in Conns : LoopTake(c))
  /\ WF_vars(StopClose)
  /\ \A c \in Conns :
       /\ WF_vars(LoopHello(c) \/ LoopTick(c) \/ LoopBeat(c)) /\ SF_vars(LoopExit(c))
       /\ WF_vars(Server(c))

FairSpec == Spec /\ Fairness
-----------------------------------------------------------------------------
(* Every variable has a value of its kind.                                 *)
TypeOK ==
  /\ conn \in Conns \cup {NoConn} /\ open \subseteq Conns /\ broken \subseteq Conns
  /\ reconnect \in BOOLEAN /\ mgr \in MgrStates /\ hconn \in Conns \cup {NoConn}
  /\ mine \subseteq Sids /\ regCh \in Seq(Sids) /\ Len(regCh) <= RegCap
  /\ loop \in [Conns -> {"none", "hello", "select", "beat"}]
  /\ pending \in [Conns -> SUBSET Sids] /\ done \subseteq Conns
  /\ ctxDone \in BOOLEAN /\ stop \in {"no", "lock", "done"}
  /\ srv \in [Conns -> {"none", "new", "open"}] /\ ident \subseteq Conns
  /\ skewed \subseteq Conns
  /\ c2s \in [Conns -> Seq(Frame)] /\ wconn \in Conns \cup {NoConn} /\ laneMap \subseteq Sids
  /\ past \subseteq Once

(* The lane's writer never keeps a connection that the server has closed,  *)
(* although frames of an old connection may be handled after those of the  *)
(* new one: OnClose finds the lane in the connection's context and clears  *)
(* it there.                                                               *)
WriterConnLive == wconn # NoConn => srv[wconn] = "open"

(* The lane's connection is always being read, or is about to be, by the   *)
(* manager: it cannot be left to itself, where nobody would notice its     *)
(* end.                                                                    *)
LaneConnRead ==
  conn # NoConn =>
    hconn = conn /\ mgr \in {"drain", "register", "spawn", "read", "close", "clear"}

(* No socket leaks: one that is open is the lane's connection, or has just *)
(* been dialed.                                                            *)
NoSocketLeak ==
  \A c \in open : c = conn \/ (mgr = "install" /\ c = hconn)

(* A lane that has lost its connection gets another one, until Stop.       *)
LaneReconnects == conn = NoConn ~> conn # NoConn \/ ctxDone

(* The server follows the client: once the client keeps one working        *)
(* connection for the lane and the server reads it in step, the lane's     *)
(* writer ends up with it for good, whatever late frames and closes of     *)
(* older connections still do.                                             *)
LaneHeals ==
  <>[](conn # NoConn /\ conn \notin broken /\ conn \notin skewed) => <>[](wconn = conn)

(* A reconnect registers every session that the client knew when it was    *)
(* made, unless that connection is lost as well or the sessions are more   *)
(* than one control frame may carry when the frame is made.  The control   *)
(* loop of the connection before may still send on the new one.            *)
ReconnectRegisters ==
  \A s \in Sids :
    mgr = "register" /\ s \in mine
      ~> \/ s \in laneMap \/ conn = NoConn \/ conn \in broken
         \/ mgr = "register" /\ Cardinality(mine) > FrameIds

(* The comment in registerSessionOnLane: "when the queue is full, the      *)
(* heartbeat re-registers everything".  A session of the client gets into  *)
(* the server's map, unless the connection is lost.                        *)
HeartbeatRegisters ==
  \A s \in Sids :
    s \in mine ~> s \in laneMap \/ conn = NoConn \/ conn \in broken
=============================================================================
