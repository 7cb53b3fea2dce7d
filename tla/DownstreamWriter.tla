------------------------- MODULE DownstreamWriter -------------------------
(***************************************************************************)
(* One downstream lane as the path of the backend's answers: the readers   *)
(* of the backend sessions put frames into the lane's bounded queue        *)
(* (sendToDownstream, enqueue), the lane's goroutine (run) takes them out  *)
(* in batches and hands each batch to the lane's connection of that        *)
(* moment, and the client reads the connection it has.                     *)
(*                                                                         *)
(* Connections are numbered in the order in which the client dials them;   *)
(* the client has one at a time and never reads an older one again.  When  *)
(* the server takes a connection for the lane's, and when it hears of the  *)
(* end of one, is DownstreamLane's subject: here any control frame of any  *)
(* connection that the server still has may be the next (SetConn).  The    *)
(* adaptive delay is kept as whether it is positive.                       *)
(***************************************************************************)
EXTENDS Naturals, Sequences, FiniteSetsExt

CONSTANTS
  Sessions,      \* backend sessions whose answers take this lane
  Lens,          \* lengths a frame may have
  QueueCap,      \* capacity of downstreamWriter.ch
  MaxPackets,    \* batchMaxPackets
  MaxBytes,      \* batchMaxBytes
  BatchDelay,    \* is batchMaxDelay positive?
  MaxConns,      \* bound: connections dialed
  MaxFrames      \* bound: datagrams of the backend in all

ASSUME SizeAssumption ==
  /\ Lens \subseteq Nat \ {0} /\ QueueCap \in Nat /\ BatchDelay \in BOOLEAN
  /\ MaxPackets \in Nat \ {0} /\ MaxBytes \in Nat \ {0}
  /\ MaxConns \in Nat /\ MaxFrames \in Nat

VARIABLES
  seqs,     \* BackendSession.sequenceID of each session
  ch,       \* downstreamWriter.ch
  conn,     \* downstreamWriter.conn; 0 is nil
  run,      \* where the goroutine run is
  batch,    \* its batch and, below, its batchBytes
  bytes,
  got,      \* the connection that flush has read
  quit,     \* it has seen ctx.Done and flushes for the last time
  ctxDone,  \* Stop has called cancel
  live,     \* connections the server has not been told the end of
  dialed,   \* connections the client has dialed
  broken,   \* the client no longer has its last connection
  net,      \* frames on their way on each connection
  out       \* history: frames the client has read

runVars  == <<run, batch, bytes, got, quit>>
connVars == <<live, dialed, broken>>
vars == <<seqs, ch, conn, runVars, ctxDone, connVars, net, out>>

Conns == 1 .. MaxConns
Frame == [sid : Sessions, seq : Nat, len : Lens]

Full == Len(batch) >= MaxPackets \/ bytes >= MaxBytes

Init ==
  /\ seqs = [s \in Sessions |-> 0] /\ ch = <<>> /\ conn = 0
  /\ run = "select" /\ batch = <<>> /\ bytes = 0 /\ got = 0 /\ quit = FALSE
  /\ ctxDone = FALSE /\ live = {} /\ dialed = 0 /\ broken = TRUE
  /\ net = [c \in Conns |-> <<>>] /\ out = <<>>
-----------------------------------------------------------------------------
(* sendToDownstream for a datagram of session s: the frame gets the next   *)
(* sequence number and is dropped if the queue is full.  Each session has  *)
(* one reader, so that number and queue are one step.                      *)
SendToDownstream(s, n) ==
  /\ MapThenSumSet(LAMBDA r : seqs[r], Sessions) < MaxFrames
  /\ seqs' = [seqs EXCEPT ![s] = @ + 1]
  /\ ch' = IF Len(ch) < QueueCap
             THEN Append(ch, [sid |-> s, seq |-> seqs[s] + 1, len |-> n]) ELSE ch
  /\ UNCHANGED <<conn, runVars, ctxDone, connVars, net, out>>
-----------------------------------------------------------------------------
(* run: one frame, perhaps a delay, what else is there, flush.             *)

Take == batch' = Append(batch, Head(ch)) /\ bytes' = bytes + Head(ch).len /\ ch' = Tail(ch)

RunExit ==
  /\ run = "select" /\ ctxDone
  /\ run' = "exit"
  /\ UNCHANGED <<seqs, ch, conn, batch, bytes, got, quit, ctxDone, connVars, net, out>>

RunTake ==
  /\ run = "select" /\ ch # <<>>
  /\ Take /\ run' = "delay"
  /\ UNCHANGED <<seqs, conn, got, quit, ctxDone, connVars, net, out>>

(* adaptiveDelay is zero if delays are off or MaxPackets are queued.       *)
AdaptiveDelay ==
  /\ run = "delay"
  /\ run' = IF ~Full /\ BatchDelay /\ Len(ch) < MaxPackets THEN "timer" ELSE "more"
  /\ UNCHANGED <<seqs, ch, conn, batch, bytes, got, quit, ctxDone, connVars, net, out>>

Timer ==
  /\ run = "timer"
  /\ run' = "more"
  /\ UNCHANGED <<seqs, ch, conn, batch, bytes, got, quit, ctxDone, connVars, net, out>>

(* Mutant: the goroutine returns without its last flush.                   *)
TimerCancelledDrops ==
  /\ run = "timer" /\ ctxDone
  /\ run' = "exit" /\ batch' = <<>> /\ UNCHANGED <<bytes, quit>>
  /\ UNCHANGED <<seqs, ch, conn, got, ctxDone, connVars, net, out>>

TimerCancelled ==
  /\ run = "timer" /\ ctxDone
  /\ run' = "flush" /\ quit' = TRUE
  /\ UNCHANGED <<seqs, ch, conn, batch, bytes, got, ctxDone, connVars, net, out>>

(* Mutant: the goroutine waits until its batch is full.                    *)
MoreWaits ==
  /\ run = "more"
  /\ IF ~Full
       THEN ch # <<>> /\ Take /\ UNCHANGED run
       ELSE run' = "flush" /\ UNCHANGED <<batch, bytes, ch>>
  /\ UNCHANGED <<seqs, conn, got, quit, ctxDone, connVars, net, out>>

More ==
  /\ run = "more"
  /\ IF ~Full /\ ch # <<>>
       THEN Take /\ UNCHANGED run
       ELSE run' = "flush" /\ UNCHANGED <<batch, bytes, ch>>
  /\ UNCHANGED <<seqs, conn, got, quit, ctxDone, connVars, net, out>>

AfterFlush == IF quit THEN "exit" ELSE "select"

(* flush: getConn; without a connection the batch is dropped, ...          *)
GetConn ==
  /\ run = "flush"
  /\ IF conn = 0
       THEN run' = AfterFlush /\ batch' = <<>> /\ bytes' = 0 /\ UNCHANGED got
       ELSE run' = "write" /\ got' = conn /\ UNCHANGED <<batch, bytes>>
  /\ UNCHANGED <<seqs, ch, conn, quit, ctxDone, connVars, net, out>>

(* Mutant: batch[:0] is forgotten after the write.                         *)
AsyncWritevKeepsBatch ==
  /\ run = "write"
  /\ net' = IF got \in live THEN [net EXCEPT ![got] = @ \o batch] ELSE net
  /\ run' = AfterFlush /\ got' = 0 /\ UNCHANGED <<batch, bytes>>
  /\ UNCHANGED <<seqs, ch, conn, quit, ctxDone, connVars, out>>

(* ... with one it goes to that connection, which may have been replaced   *)
(* or closed since: AsyncWritev fails on a closed one.                     *)
AsyncWritev ==
  /\ run = "write"
  /\ net' = IF got \in live THEN [net EXCEPT ![got] = @ \o batch] ELSE net
  /\ run' = AfterFlush /\ batch' = <<>> /\ bytes' = 0 /\ got' = 0
  /\ UNCHANGED <<seqs, ch, conn, quit, ctxDone, connVars, out>>
-----------------------------------------------------------------------------
(* The connections, as the server sees them.                               *)

(* handleLaneControl: hello, register or heartbeat of connection c.        *)
SetConn(c) ==
  /\ c \in live /\ conn # c
  /\ conn' = c
  /\ UNCHANGED <<seqs, ch, runVars, ctxDone, connVars, net, out>>

(* OnClose: clearConn, if it still is the lane's connection.               *)
OnClose(c) ==
  /\ c \in live /\ (c < dialed \/ broken)
  /\ live' = live \ {c} /\ conn' = IF conn = c THEN 0 ELSE conn
  /\ UNCHANGED <<seqs, ch, runVars, ctxDone, dialed, broken, net, out>>

(* The client and the network: one connection after the other; what is on  *)
(* its way on a lost one is lost.                                          *)
Dial ==
  /\ broken /\ dialed < MaxConns
  /\ dialed' = dialed + 1 /\ broken' = FALSE /\ live' = live \cup {dialed + 1}
  /\ UNCHANGED <<seqs, ch, conn, runVars, ctxDone, net, out>>

Break ==
  /\ ~broken
  /\ broken' = TRUE
  /\ UNCHANGED <<seqs, ch, conn, runVars, ctxDone, live, dialed, net, out>>

(* Mutant: a late answer of an older connection is still read.             *)
ReceiveAny(c) ==
  /\ net[c] # <<>>
  /\ out' = Append(out, Head(net[c])) /\ net' = [net EXCEPT ![c] = Tail(@)]
  /\ UNCHANGED <<seqs, ch, conn, runVars, ctxDone, connVars>>

(* handleDownstream reads the next frame of the client's connection.       *)
Receive(c) ==
  /\ c = dialed /\ ~broken /\ net[c] # <<>>
  /\ out' = Append(out, Head(net[c])) /\ net' = [net EXCEPT ![c] = Tail(@)]
  /\ UNCHANGED <<seqs, ch, conn, runVars, ctxDone, connVars>>

StopCancel ==
  /\ ~ctxDone
  /\ ctxDone' = TRUE
  /\ UNCHANGED <<seqs, ch, conn, runVars, connVars, net, out>>
-----------------------------------------------------------------------------
Run == RunExit \/ RunTake \/ AdaptiveDelay \/ Timer \/ TimerCancelled \/ More \/ GetConn
         \/ AsyncWritev

Next ==
  \/ \E s \in Sessions, n \in Lens : SendToDownstream(s, n)
  \/ Run
  \/ \E c \in Conns : SetConn(c) \/ OnClose(c) \/ Receive(c)
  \/ Dial \/ Break \/ StopCancel

Spec == Init /\ [][Next]_vars

(* The goroutine runs and timers fire; the client reads.  Nobody has to    *)
(* send, to dial or to stop.                                               *)
Fairness == WF_vars(Run) /\ \A c \in Conns : WF_vars(Receive(c))

FairSpec == Spec /\ Fairness
-----------------------------------------------------------------------------
(* Every variable has a value of its kind; outside a round of the          *)
(* goroutine its batch is empty, and a batch exceeds the limits by less    *)
(* than the frame that filled it.                                          *)
TypeOK ==
  /\ seqs \in [Sessions -> Nat] /\ ch \in Seq(Frame) /\ Len(ch) <= QueueCap
  /\ conn \in live \cup {0} /\ live \subseteq 1 .. dialed /\ dialed \in 0 .. MaxConns
  /\ run \in {"select", "delay", "timer", "more", "flush", "write", "exit"}
  /\ batch \in Seq(Frame) /\ Len(batch) <= MaxPackets
  /\ batch = <<>> <=> run \in {"select", "exit"}
  /\ bytes \in Nat /\ (batch # <<>> => bytes - batch[Len(batch)].len < MaxBytes)
  /\ got \in 0 .. dialed /\ quit \in BOOLEAN /\ ctxDone \in BOOLEAN /\ broken \in BOOLEAN
  /\ net \in [Conns -> Seq(Frame)] /\ out \in Seq(Frame)

(* The frames that can still reach the client.                             *)
Arriving == IF broken THEN <<>> ELSE net[dialed]
Pending  == Arriving \o batch \o ch

Fifo == INSTANCE LossyFifo WITH Items <- Frame, q <- Pending, out <- out

(* The lane implements LossyFifo: whichever connections the batches went   *)
(* to, the client reads frames in the order in which they were queued, and *)
(* none twice.                                                             *)
FifoLane == Fifo!Spec

(* A queued frame is lost only for want of a connection: the lane has      *)
(* none, its connection is not the one the client has, or the client loses *)
(* it.  (Stop leaves frames in the queue; it does not lose them midway.)   *)
NoSilentLoss ==
  [][ Len(Pending') + Len(out') < Len(Pending) + Len(out) =>
        \/ run = "flush" /\ conn = 0
        \/ run = "write" /\ (got # dialed \/ broken)
        \/ broken' ]_vars

(* Once the server's and the client's connection of the lane are the same  *)
(* for good, everything queued is delivered, however busy the lane is.     *)
Delivered ==
  <>[](conn = dialed /\ ~broken /\ ~ctxDone) => []<>(Pending = <<>>)
=============================================================================
