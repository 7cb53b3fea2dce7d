--------------------------- MODULE UpstreamConn ---------------------------
(***************************************************************************)
(* The TCP connection of one upstream lane, as the client keeps it.        *)
(*                                                                         *)
(* Four kinds of goroutine share lane.conn, the mutex lane.mu and the      *)
(* one-slot channel lane.reconnect:                                        *)
(*   - manageUpstreamConnection dials and installs connections (mgr);      *)
(*   - one watchUpstreamConn per installed connection (watch);             *)
(*   - handleUpstreamWrites, which writes batches (writer);                *)
(*   - Stop (stop).                                                        *)
(* Lanes do not share any of this state, so one lane is modelled.          *)
(*                                                                         *)
(* lane.mu is held across a blocking call only by writeUpstreamBatch; the  *)
(* other critical sections are single steps that wait for MuFree.  A       *)
(* batch written while lane.conn is nil is dropped without touching any of *)
(* this state.  How long a back-off lasts is left out (reconnectDelay): it *)
(* ends when its timer fires or when a reconnect token wakes it.           *)
(***************************************************************************)

CONSTANTS
  Conns,   \* identities of TCP connections; reused once nothing refers to one
  NoConn   \* a nil net.Conn

ASSUME NoConnAssumption == NoConn \notin Conns

VARIABLES
  conn,       \* lane.conn
  open,       \* connections this process has not closed
  broken,     \* connections that the peer or the network has ended
  reconnect,  \* does lane.reconnect hold its one token?
  mgr,        \* where manageUpstreamConnection is
  dialed,     \* the connection dialTCP returned, until its watcher is started
  watch,      \* where each connection's watchUpstreamConn is
  writer,     \* where writeUpstreamBatch is; not "idle" = it holds lane.mu
  ctxDone,    \* c.cancel() has been called
  stop        \* where Stop is

vars == <<conn, open, broken, reconnect, mgr, dialed, watch, writer, ctxDone, stop>>

MgrStates   == {"loop", "check", "wait", "dial", "backoff", "install", "spawn",
                "drain", "exit"}
WatchStates == {"none", "read", "lock", "notify"}

MuFree == writer = "idle"

(* A connection identity that a new dial may use.                          *)
Unused(c) == c \notin open /\ watch[c] = "none" /\ c # dialed

Init ==
  /\ conn = NoConn /\ open = {} /\ broken = {} /\ reconnect = FALSE
  /\ mgr = "loop" /\ dialed = NoConn
  /\ watch = [c \in Conns |-> "none"]
  /\ writer = "idle" /\ ctxDone = FALSE /\ stop = "no"

(* lane.conn.Close(); lane.conn = nil, under lane.mu.                      *)
CloseLaneConn == conn' = NoConn /\ open' = open \ {conn}
-----------------------------------------------------------------------------
(* manageUpstreamConnection.                                               *)

MgrLoop ==
  /\ mgr = "loop"
  /\ mgr' = IF ctxDone THEN "exit" ELSE "check"
  /\ UNCHANGED <<conn, open, broken, reconnect, dialed, watch, writer, ctxDone, stop>>

MgrCheck ==
  /\ mgr = "check" /\ MuFree
  /\ mgr' = IF conn # NoConn THEN "wait" ELSE "dial"
  /\ UNCHANGED <<conn, open, broken, reconnect, dialed, watch, writer, ctxDone, stop>>

(* A token ends the wait for work and cuts a back-off short alike.         *)
MgrWake ==
  /\ mgr \in {"wait", "backoff"} /\ reconnect
  /\ reconnect' = FALSE /\ mgr' = "loop"
  /\ UNCHANGED <<conn, open, broken, dialed, watch, writer, ctxDone, stop>>

MgrCancelled ==
  /\ mgr \in {"wait", "backoff"} /\ ctxDone
  /\ mgr' = "exit"
  /\ UNCHANGED <<conn, open, broken, reconnect, dialed, watch, writer, ctxDone, stop>>

MgrTimer ==
  /\ mgr = "backoff"
  /\ mgr' = "loop"
  /\ UNCHANGED <<conn, open, broken, reconnect, dialed, watch, writer, ctxDone, stop>>

(* Mutant: the error of dialTCP is ignored.                                *)
DialFailIgnored ==
  /\ mgr = "dial"
  /\ mgr' = "install"
  /\ UNCHANGED <<conn, open, broken, reconnect, dialed, watch, writer, ctxDone, stop>>

DialFail ==
  /\ mgr = "dial"
  /\ mgr' = "backoff"
  /\ UNCHANGED <<conn, open, broken, reconnect, dialed, watch, writer, ctxDone, stop>>

(* DialContext does not succeed once its context is cancelled.             *)
DialOk(c) ==
  /\ mgr = "dial" /\ ~ctxDone /\ Unused(c)
  /\ dialed' = c /\ open' = open \cup {c} /\ broken' = broken \ {c}
  /\ mgr' = "install"
  /\ UNCHANGED <<conn, reconnect, watch, writer, ctxDone, stop>>

MgrInstall ==
  /\ mgr = "install" /\ MuFree
  /\ conn' = dialed /\ mgr' = "spawn"
  /\ UNCHANGED <<open, broken, reconnect, dialed, watch, writer, ctxDone, stop>>

(* Mutant: no watcher is started.                                          *)
MgrSpawnNoWatcher ==
  /\ mgr = "spawn"
  /\ dialed' = NoConn /\ mgr' = "drain"
  /\ UNCHANGED <<conn, open, broken, reconnect, watch, writer, ctxDone, stop>>

MgrSpawn ==
  /\ mgr = "spawn"
  /\ watch' = [watch EXCEPT ![dialed] = "read"]
  /\ dialed' = NoConn /\ mgr' = "drain"
  /\ UNCHANGED <<conn, open, broken, reconnect, writer, ctxDone, stop>>

MgrDrain ==
  /\ mgr = "drain"
  /\ reconnect' = FALSE /\ mgr' = "loop"
  /\ UNCHANGED <<conn, open, broken, dialed, watch, writer, ctxDone, stop>>
-----------------------------------------------------------------------------
(* watchUpstreamConn(c): the server never writes on an upstream            *)
(* connection, so its Read returns only when the connection has ended.     *)

WatchRead(c) ==
  /\ watch[c] = "read" /\ (c \in broken \/ c \notin open)
  /\ watch' = [watch EXCEPT ![c] = IF ctxDone THEN "none" ELSE "lock"]
  /\ UNCHANGED <<conn, open, broken, reconnect, mgr, dialed, writer, ctxDone, stop>>

(* Mutant: a watcher clears whatever connection the lane has.              *)
WatchClearAny(c) ==
  /\ watch[c] = "lock" /\ MuFree
  /\ watch' = [watch EXCEPT ![c] = "notify"] /\ CloseLaneConn
  /\ UNCHANGED <<broken, reconnect, mgr, dialed, writer, ctxDone, stop>>

WatchClear(c) ==
  /\ watch[c] = "lock" /\ MuFree
  /\ watch' = [watch EXCEPT ![c] = "notify"]
  /\ IF conn = c THEN CloseLaneConn ELSE UNCHANGED <<conn, open>>
  /\ UNCHANGED <<broken, reconnect, mgr, dialed, writer, ctxDone, stop>>

(* Mutant: the watcher does not wake the manager.                          *)
WatchNotifySilent(c) ==
  /\ watch[c] = "notify"
  /\ watch' = [watch EXCEPT ![c] = "none"]
  /\ UNCHANGED <<conn, open, broken, reconnect, mgr, dialed, writer, ctxDone, stop>>

(* notifyReconnect does not block: a token already there is enough.        *)
WatchNotify(c) ==
  /\ watch[c] = "notify"
  /\ watch' = [watch EXCEPT ![c] = "none"] /\ reconnect' = TRUE
  /\ UNCHANGED <<conn, open, broken, mgr, dialed, writer, ctxDone, stop>>
-----------------------------------------------------------------------------
(* writeUpstreamBatch, from the lock to the deferred unlock.               *)

WriteBegin ==
  /\ MuFree /\ conn # NoConn
  /\ writer' = "write"
  /\ UNCHANGED <<conn, open, broken, reconnect, mgr, dialed, watch, ctxDone, stop>>

WriteOk ==
  /\ writer = "write"
  /\ writer' = "idle"
  /\ UNCHANGED <<conn, open, broken, reconnect, mgr, dialed, watch, ctxDone, stop>>

(* Mutant: the failed connection is forgotten without being closed.        *)
WriteErrNoClose ==
  /\ writer = "write" /\ conn \in broken
  /\ conn' = NoConn /\ writer' = "notify"
  /\ UNCHANGED <<open, broken, reconnect, mgr, dialed, watch, ctxDone, stop>>

WriteErr ==
  /\ writer = "write" /\ conn \in broken
  /\ CloseLaneConn /\ writer' = "notify"
  /\ UNCHANGED <<broken, reconnect, mgr, dialed, watch, ctxDone, stop>>

(* Mutant: notifyReconnect blocks while the channel is full.               *)
WriteNotifyBlocks ==
  /\ writer = "notify" /\ ~reconnect
  /\ reconnect' = TRUE /\ writer' = "idle"
  /\ UNCHANGED <<conn, open, broken, mgr, dialed, watch, ctxDone, stop>>

WriteNotify ==
  /\ writer = "notify"
  /\ reconnect' = TRUE /\ writer' = "idle"
  /\ UNCHANGED <<conn, open, broken, mgr, dialed, watch, ctxDone, stop>>
-----------------------------------------------------------------------------
(* Stop, for this lane: cancel, then close what the lane holds.            *)

StopCancel ==
  /\ stop = "no"
  /\ ctxDone' = TRUE /\ stop' = "lock"
  /\ UNCHANGED <<conn, open, broken, reconnect, mgr, dialed, watch, writer>>

StopClose ==
  /\ stop = "lock" /\ MuFree
  /\ CloseLaneConn /\ stop' = "done"
  /\ UNCHANGED <<broken, reconnect, mgr, dialed, watch, writer, ctxDone>>

(* The peer closes or resets the connection, or keepalive gives it up.     *)
Break(c) ==
  /\ c \in open \ broken
  /\ broken' = broken \cup {c}
  /\ UNCHANGED <<conn, open, reconnect, mgr, dialed, watch, writer, ctxDone, stop>>
-----------------------------------------------------------------------------
Manager == MgrLoop \/ MgrCheck \/ MgrWake \/ MgrCancelled \/ MgrTimer
             \/ MgrInstall \/ MgrSpawn \/ MgrDrain

Watcher(c) == WatchRead(c) \/ WatchClear(c) \/ WatchNotify(c)

Next ==
  \/ Manager \/ DialFail
  \/ WriteBegin \/ WriteOk \/ WriteErr \/ WriteNotify
  \/ StopCancel \/ StopClose
  \/ \E c \in Conns : DialOk(c) \/ Watcher(c) \/ Break(c)

Spec == Init /\ [][Next]_vars

(* The Go scheduler runs every goroutine that can run (WF), and            *)
(* sync.Mutex hands lane.mu to a goroutine that waits for it even while    *)
(* the writer keeps retaking it (SF on the steps that lock).  A dial       *)
(* returns, and dials that are retried for ever do not fail for ever.  A   *)
(* write to a connection that has ended fails.  Nothing is assumed of a    *)
(* write to a healthy connection: the peer may stop reading.               *)
Fairness ==
  /\ WF_vars(Manager) /\ SF_vars(MgrCheck)
  /\ WF_vars(DialFail \/ \E c \in Conns : DialOk(c))
  /\ SF_vars(\E c \in Conns : DialOk(c))
  /\ \A c \in Conns : SF_vars(WatchClear(c)) /\ WF_vars(WatchRead(c) \/ WatchNotify(c))
  /\ WF_vars(WriteErr) /\ WF_vars(WriteNotify)
  /\ SF_vars(StopClose)

FairSpec == Spec /\ Fairness

(* The same with a peer that keeps reading, so that every write returns.   *)
FlowSpec == FairSpec /\ WF_vars(WriteOk)
-----------------------------------------------------------------------------
(* Every variable has a value of its kind, and dialTCP's result is held    *)
(* exactly between the dial and the start of its watcher.                  *)
TypeOK ==
  /\ conn \in Conns \cup {NoConn} /\ open \subseteq Conns /\ broken \subseteq Conns
  /\ reconnect \in BOOLEAN /\ ctxDone \in BOOLEAN
  /\ mgr \in MgrStates
  /\ dialed \in IF mgr \in {"install", "spawn"} THEN Conns ELSE {NoConn}
  /\ watch \in [Conns -> WatchStates]
  /\ writer \in {"idle", "write", "notify"} /\ stop \in {"no", "lock", "done"}

(* No wake-up is lost: while manageUpstreamConnection sleeps on            *)
(* lane.reconnect and the lane has lost its connection, a token is in the  *)
(* channel or the goroutine that cleared lane.conn is about to send it,    *)
(* whatever drainReconnect threw away before.                              *)
NoLostWakeup ==
  mgr = "wait" /\ conn = NoConn /\ ~ctxDone =>
    reconnect \/ writer = "notify" \/ \E c \in Conns : watch[c] = "notify"

(* No socket leaks: a connection that is still open is the lane's          *)
(* connection, or has just been dialed and not been stored yet.  (It holds *)
(* through every way the three goroutines and Stop can close one.)         *)
NoSocketLeak ==
  \A c \in open : c = conn \/ (mgr = "install" /\ c = dialed)

(* The lane's connection is always watched: a goroutine that will notice   *)
(* its end is reading from it or is about to clear it.                     *)
LaneConnWatched ==
  conn # NoConn /\ ~ctxDone =>
    watch[conn] \in {"read", "lock"} \/ (mgr = "spawn" /\ dialed = conn)

(* A healthy connection is never torn down before Stop: neither the late   *)
(* watcher of an older connection nor a write error of the writer clears   *)
(* lane.conn while the connection in it still works.                       *)
HealthyConnKept ==
  [][conn # NoConn /\ conn' = NoConn /\ ~ctxDone => conn \in broken]_vars

(* The end of the lane's connection is noticed even if nothing is written, *)
(* and a lane without connection gets another one, until Stop.             *)
LaneReconnects ==
  /\ \A c \in Conns : conn = c /\ c \in broken ~> conn # c \/ ctxDone
  /\ conn = NoConn ~> conn # NoConn \/ ctxDone

(* Stop returns: Run "blocks until a signal is received", and no longer.   *)
StopReturns == stop = "lock" ~> stop = "done"
=============================================================================
