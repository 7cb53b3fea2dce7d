--------------------------- MODULE UpstreamPath ---------------------------
(***************************************************************************)
(* The client's upstream data path: one goroutine reads UDP datagrams      *)
(* (handleUDP, sendToUpstream) and hands each to the ring of its lane; one *)
(* goroutine per lane (handleUpstreamWrites) pops packets in batches,      *)
(* writes them to the lane's TCP connection and releases their slots.      *)
(*                                                                         *)
(* A ring (upstream_ring.go) is lock-free with one producer and one        *)
(* consumer.  tail counts the packets submitted, readHead those popped and *)
(* freeHead those released; they are uint64 counters that start at 0 and   *)
(* cannot wrap in the lifetime of a process.  Every atomic load or store   *)
(* is a step of its own.                                                   *)
(*                                                                         *)
(* The state of lane.conn is that of UpstreamConn: here a batch is written *)
(* in whole, in part or not at all.  A datagram whose encryption fails is  *)
(* dropped before it gets a sequence number; a packet larger than a slot   *)
(* (client.go:555) cannot occur, because slots are sized for MaxPacketSize *)
(* and the read truncates to it.  handleUDPZeroCopy is never used.         *)
(***************************************************************************)
EXTENDS Naturals, Sequences, FiniteSetsExt

CONSTANTS
  L,             \* number of upstream lanes
  Sessions,      \* session identifiers
  Lens,          \* lengths a framed datagram may have
  Capacity,      \* slots of a ring: nextPowerOfTwo(UpstreamQueueSize)
  MaxPackets,    \* upstreamBatchMaxPackets
  MaxBytes,      \* upstreamBatchMaxBytes
  BatchDelay,    \* is upstreamBatchMaxDelay positive?
  Stripe,        \* upstreamStripeEnabled
  Stalled,       \* lanes whose peer may stop reading
  MaxDatagrams,  \* bound: datagrams received in all
  NoDatagram

ASSUME LanesAssumption ==
  /\ L \in Nat \ {0} /\ Stalled \subseteq 0 .. (L - 1)
ASSUME DataAssumption ==
  /\ Sessions \subseteq Nat /\ Lens \subseteq Nat
  /\ NoDatagram \notin [sid : Nat, seq : Nat, len : Nat]
ASSUME CapacityAssumption == Capacity \in Nat \ {0}
ASSUME BatchAssumption ==
  /\ MaxPackets \in Nat \ {0} /\ MaxBytes \in Nat \ {0}
  /\ BatchDelay \in BOOLEAN /\ Stripe \in BOOLEAN /\ MaxDatagrams \in Nat

VARIABLES
  seqs,      \* UDPSession.sequenceID of each session
  prod,      \* where handleUDP is
  cur,       \* the datagram it is sending
  tail, freeHead, readHead, closed,   \* each lane's ring
  slots,     \* what the buffer of each slot of a ring holds
  cons,      \* where each lane's handleUpstreamWrites is
  batch,     \* its batch, as slot indices
  bytes,     \* its batchBytes
  quit,      \* it has seen ctx.Done and flushes for the last time
  ctxDone,   \* Stop has called cancel
  stopAt,    \* the lane whose ring Stop is closing; L when it has passed all,
             \* L + 1 when it has closed the UDP listener
  sub,       \* history: the datagrams submitted to each ring
  wire       \* history: the datagrams written whole by each lane

ringVars == <<tail, freeHead, readHead, closed, slots>>
prodVars == <<seqs, prod, cur>>
consVars == <<cons, batch, bytes, quit>>
stopVars == <<ctxDone, stopAt>>
vars == <<ringVars, prodVars, consVars, stopVars, sub, wire>>

Lanes    == 0 .. (L - 1)
Index    == 0 .. (Capacity - 1)
Datagram == [sid : Sessions, seq : Nat, len : Lens]

ProdStates == {"loop", "read", "acquire", "room", "fill", "submit", "publish", "exit"}
ConsStates == {"pop", "closed", "delay", "timer", "more", "flush", "write", "release",
               "exit"}

(* Mutant: striping although it is off.                                    *)
LaneOfStriped(d) == d.seq % L

(* selectUpstreamLane.                                                     *)
LaneOf(d) == (IF Stripe THEN d.seq ELSE d.sid) % L

(* ring.inflight(): never more than the capacity.                          *)
Inflight(l) ==
  IF tail[l] - freeHead[l] > Capacity THEN Capacity ELSE tail[l] - freeHead[l]

Full(l) == Len(batch[l]) >= MaxPackets \/ bytes[l] >= MaxBytes

(* The packets that writev points at, as they are when they are read.      *)
Writev(l) == [i \in 1 .. Len(batch[l]) |-> slots[l][batch[l][i]]]

Init ==
  /\ seqs = [s \in Sessions |-> 0] /\ prod = "loop" /\ cur = NoDatagram
  /\ tail = [l \in Lanes |-> 0] /\ freeHead = [l \in Lanes |-> 0]
  /\ readHead = [l \in Lanes |-> 0] /\ closed = [l \in Lanes |-> FALSE]
  /\ slots = [l \in Lanes |-> [i \in Index |-> NoDatagram]]
  /\ cons = [l \in Lanes |-> "pop"] /\ batch = [l \in Lanes |-> <<>>]
  /\ bytes = [l \in Lanes |-> 0] /\ quit = [l \in Lanes |-> FALSE]
  /\ ctxDone = FALSE /\ stopAt = 0
  /\ sub = [l \in Lanes |-> <<>>] /\ wire = [l \in Lanes |-> <<>>]
-----------------------------------------------------------------------------
(* handleUDP and sendToUpstream.                                           *)

ProdLoop ==
  /\ prod = "loop"
  /\ prod' = IF ctxDone THEN "exit" ELSE "read"
  /\ UNCHANGED <<seqs, cur, ringVars, consVars, stopVars, sub, wire>>

(* sendToUpstream gives a datagram the next sequence number of its session *)
(* and a header.                                                           *)
NextPacket(s, n) == [sid |-> s, seq |-> seqs[s] + 1, len |-> n]

(* A datagram arrives.                                                     *)
Read(s, n) ==
  /\ prod = "read"
  /\ MapThenSumSet(LAMBDA r : seqs[r], Sessions) < MaxDatagrams
  /\ cur' = NextPacket(s, n) /\ seqs' = [seqs EXCEPT ![s] = @ + 1]
  /\ prod' = "acquire"
  /\ UNCHANGED <<ringVars, consVars, stopVars, sub, wire>>

(* Mutant: the error of the read is ignored and its empty result sent.     *)
ReadErrIgnored ==
  /\ prod = "read" /\ stopAt = L + 1
  /\ prod' = "acquire"
  /\ UNCHANGED <<seqs, cur, ringVars, consVars, stopVars, sub, wire>>

(* Stop has closed the listener.                                           *)
ReadErr ==
  /\ prod = "read" /\ stopAt = L + 1
  /\ prod' = "loop"
  /\ UNCHANGED <<seqs, cur, ringVars, consVars, stopVars, sub, wire>>

(* Mutant: acquire does not look whether the ring is closed.               *)
AcquireIgnoresClosed ==
  /\ prod = "acquire"
  /\ prod' = "room"
  /\ UNCHANGED <<seqs, cur, ringVars, consVars, stopVars, sub, wire>>

(* ring.acquire: the test of closed, ...                                   *)
Acquire ==
  /\ prod = "acquire"
  /\ IF closed[LaneOf(cur)]
       THEN prod' = "loop" /\ cur' = NoDatagram
       ELSE prod' = "room" /\ UNCHANGED cur
  /\ UNCHANGED <<seqs, ringVars, consVars, stopVars, sub, wire>>

(* Mutant: one slot too many.                                              *)
RoomOneMore ==
  /\ prod = "room"
  /\ LET l == LaneOf(cur)
     IN  prod' = IF tail[l] - freeHead[l] <= Capacity THEN "fill" ELSE "acquire"
  /\ UNCHANGED <<seqs, cur, ringVars, consVars, stopVars, sub, wire>>

(* ... and the test for a free slot; without one the loop starts again.    *)
Room ==
  /\ prod = "room"
  /\ LET l == LaneOf(cur)
     IN  prod' = IF tail[l] - freeHead[l] < Capacity THEN "fill" ELSE "acquire"
  /\ UNCHANGED <<seqs, cur, ringVars, consVars, stopVars, sub, wire>>

Fill ==
  /\ prod = "fill"
  /\ LET l == LaneOf(cur)
     IN  slots' = [slots EXCEPT ![l][tail[l] % Capacity] = cur]
  /\ prod' = "submit"
  /\ UNCHANGED <<seqs, cur, tail, freeHead, readHead, closed, consVars, stopVars, sub, wire>>

(* ring.submit: the test of closed (then discard), ...                     *)
Submit ==
  /\ prod = "submit"
  /\ LET l == LaneOf(cur)
     IN  IF closed[l]
           THEN /\ slots' = [slots EXCEPT ![l][tail[l] % Capacity] = NoDatagram]
                /\ prod' = "loop" /\ cur' = NoDatagram
           ELSE prod' = "publish" /\ UNCHANGED <<slots, cur>>
  /\ UNCHANGED <<seqs, tail, freeHead, readHead, closed, consVars, stopVars, sub, wire>>

(* ... and the store that makes the packet visible to the consumer.        *)
Publish ==
  /\ prod = "publish"
  /\ LET l == LaneOf(cur)
     IN  /\ tail' = [tail EXCEPT ![l] = @ + 1]
         /\ sub' = [sub EXCEPT ![l] = Append(@, cur)]
  /\ prod' = "loop" /\ cur' = NoDatagram
  /\ UNCHANGED <<seqs, freeHead, readHead, closed, slots, consVars, stopVars, wire>>
-----------------------------------------------------------------------------
(* handleUpstreamWrites(l).                                                *)

(* Append the packet at readHead to the batch.                             *)
Take(l) ==
  LET i == readHead[l] % Capacity
  IN  /\ batch' = [batch EXCEPT ![l] = Append(@, i)]
      /\ bytes' = [bytes EXCEPT ![l] = @ + slots[l][i].len]
      /\ readHead' = [readHead EXCEPT ![l] = @ + 1]

Goto(l, state) == cons' = [cons EXCEPT ![l] = state]

(* ring.pop looks for a packet first and only then whether the ring is     *)
(* closed.                                                                 *)
Pop(l) ==
  /\ cons[l] = "pop"
  /\ IF readHead[l] # tail[l]
       THEN Take(l) /\ Goto(l, "delay")
       ELSE Goto(l, "closed") /\ UNCHANGED <<batch, bytes, readHead>>
  /\ UNCHANGED <<prodVars, tail, freeHead, closed, slots, quit, stopVars, sub, wire>>

(* Mutants: an empty ring ends the writer; a closed one does not.          *)
PopClosedWhenEmpty(l) ==
  /\ cons[l] = "closed"
  /\ Goto(l, "exit")
  /\ UNCHANGED <<prodVars, ringVars, batch, bytes, quit, stopVars, sub, wire>>

PopClosedIgnored(l) ==
  /\ cons[l] = "closed"
  /\ Goto(l, "pop")
  /\ UNCHANGED <<prodVars, ringVars, batch, bytes, quit, stopVars, sub, wire>>

PopClosed(l) ==
  /\ cons[l] = "closed"
  /\ Goto(l, IF closed[l] THEN "exit" ELSE "pop")
  /\ UNCHANGED <<prodVars, ringVars, batch, bytes, quit, stopVars, sub, wire>>

(* adaptiveUpstreamDelay: positive unless delays are off or MaxPackets are *)
(* in flight.                                                              *)
Delay(l) ==
  /\ cons[l] = "delay"
  /\ Goto(l, IF BatchDelay /\ ~Full(l) /\ Inflight(l) < MaxPackets THEN "timer" ELSE "more")
  /\ UNCHANGED <<prodVars, ringVars, batch, bytes, quit, stopVars, sub, wire>>

Timer(l) ==
  /\ cons[l] = "timer"
  /\ Goto(l, "more")
  /\ UNCHANGED <<prodVars, ringVars, batch, bytes, quit, stopVars, sub, wire>>

TimerCancelled(l) ==
  /\ cons[l] = "timer" /\ ctxDone
  /\ Goto(l, "flush") /\ quit' = [quit EXCEPT ![l] = TRUE]
  /\ UNCHANGED <<prodVars, ringVars, batch, bytes, stopVars, sub, wire>>

(* ring.tryPop, until the batch is full or the ring is empty.              *)
More(l) ==
  /\ cons[l] = "more"
  /\ IF ~Full(l) /\ readHead[l] # tail[l]
       THEN Take(l) /\ UNCHANGED cons
       ELSE Goto(l, "flush") /\ UNCHANGED <<batch, bytes, readHead>>
  /\ UNCHANGED <<prodVars, tail, freeHead, closed, slots, quit, stopVars, sub, wire>>

(* writeUpstreamBatch takes lane.mu: lane.conn is nil and the batch is     *)
(* dropped, or the write starts.                                           *)
WriteLock(l) ==
  /\ cons[l] = "flush"
  /\ \E state \in {"release", "write"} : Goto(l, state)
  /\ UNCHANGED <<prodVars, ringVars, batch, bytes, quit, stopVars, sub, wire>>

WriteOk(l) ==
  /\ cons[l] = "write"
  /\ wire' = [wire EXCEPT ![l] = @ \o Writev(l)]
  /\ Goto(l, "release")
  /\ UNCHANGED <<prodVars, ringVars, batch, bytes, quit, stopVars, sub>>

(* Mutant: a failed batch is written again, from its start.                *)
WriteErrRetries(l, n) ==
  /\ cons[l] = "write" /\ n < Len(batch[l])
  /\ wire' = [wire EXCEPT ![l] = @ \o SubSeq(Writev(l), 1, n)]
  /\ Goto(l, "flush")
  /\ UNCHANGED <<prodVars, ringVars, batch, bytes, quit, stopVars, sub>>

(* The write fails after n whole packets; the rest is not retried.         *)
WriteErr(l, n) ==
  /\ cons[l] = "write" /\ n < Len(batch[l])
  /\ wire' = [wire EXCEPT ![l] = @ \o SubSeq(Writev(l), 1, n)]
  /\ Goto(l, "release")
  /\ UNCHANGED <<prodVars, ringVars, batch, bytes, quit, stopVars, sub>>

(* Mutant: the batch is released from its end.                             *)
ReleaseBackwards(l) ==
  /\ cons[l] = "release"
  /\ LET n == Len(batch[l])
     IN  IF n > 0
           THEN /\ slots' = [slots EXCEPT ![l][batch[l][n]] = NoDatagram]
                /\ freeHead' = [freeHead EXCEPT ![l] = @ + 1]
                /\ batch' = [batch EXCEPT ![l] = SubSeq(@, 1, n - 1)]
                /\ UNCHANGED <<cons, bytes>>
           ELSE /\ Goto(l, IF quit[l] THEN "exit" ELSE "pop")
                /\ bytes' = [bytes EXCEPT ![l] = 0]
                /\ UNCHANGED <<slots, freeHead, batch>>
  /\ UNCHANGED <<prodVars, tail, readHead, closed, quit, stopVars, sub, wire>>

(* ring.release of the batch's next packet, until the batch is empty.      *)
Release(l) ==
  /\ cons[l] = "release"
  /\ IF batch[l] # <<>>
       THEN /\ slots' = [slots EXCEPT ![l][Head(batch[l])] = NoDatagram]
            /\ freeHead' = [freeHead EXCEPT ![l] = @ + 1]
            /\ batch' = [batch EXCEPT ![l] = Tail(@)]
            /\ UNCHANGED <<cons, bytes>>
       ELSE /\ Goto(l, IF quit[l] THEN "exit" ELSE "pop")
            /\ bytes' = [bytes EXCEPT ![l] = 0]
            /\ UNCHANGED <<slots, freeHead, batch>>
  /\ UNCHANGED <<prodVars, tail, readHead, closed, quit, stopVars, sub, wire>>
-----------------------------------------------------------------------------
(* Stop: cancel, then lane by lane close the ring and take lane.mu, which  *)
(* a write holds; then take lane.mu of the downstream lanes in turn and    *)
(* close the UDP listener.                                                 *)

StopCancel ==
  /\ ~ctxDone
  /\ ctxDone' = TRUE
  /\ UNCHANGED <<prodVars, ringVars, consVars, stopAt, sub, wire>>

StopRing ==
  /\ ctxDone /\ stopAt \in Lanes /\ ~closed[stopAt]
  /\ closed' = [closed EXCEPT ![stopAt] = TRUE]
  /\ UNCHANGED <<prodVars, tail, freeHead, readHead, slots, consVars, stopVars, sub, wire>>

StopLane ==
  /\ ctxDone /\ stopAt \in Lanes /\ closed[stopAt] /\ cons[stopAt] # "write"
  /\ stopAt' = stopAt + 1
  /\ UNCHANGED <<prodVars, ringVars, consVars, ctxDone, sub, wire>>

StopListener ==
  /\ stopAt = L
  /\ stopAt' = L + 1
  /\ UNCHANGED <<prodVars, ringVars, consVars, ctxDone, sub, wire>>
-----------------------------------------------------------------------------
Producer == ProdLoop \/ ReadErr \/ Acquire \/ Room \/ Fill \/ Submit \/ Publish

Batching(l) == Pop(l) \/ PopClosed(l) \/ Delay(l) \/ Timer(l) \/ TimerCancelled(l)
                 \/ More(l) \/ WriteLock(l) \/ Release(l)

WriteEnds(l) == WriteOk(l) \/ \E n \in 0 .. MaxPackets : WriteErr(l, n)

Stop == StopCancel \/ StopRing \/ StopLane \/ StopListener

Next ==
  \/ Producer \/ \E s \in Sessions, n \in Lens : Read(s, n)
  \/ \E l \in Lanes : Batching(l) \/ WriteEnds(l)
  \/ Stop

Spec == Init /\ [][Next]_vars

(* The Go scheduler runs every goroutine that can run; a timer fires.      *)
(* sync.Mutex does not starve Stop (SF).  A write returns if the peer      *)
(* keeps reading, and so does every write of a downstream control frame,   *)
(* for which Stop waits before it closes the listener.  Nobody has to send *)
(* datagrams or to call Stop.                                              *)
Fairness ==
  /\ WF_vars(Producer)
  /\ WF_vars(StopRing) /\ SF_vars(StopLane) /\ WF_vars(StopListener)
  /\ \A l \in Lanes : WF_vars(Batching(l))
  /\ \A l \in Lanes \ Stalled : WF_vars(WriteEnds(l))

FairSpec == Spec /\ Fairness
-----------------------------------------------------------------------------
(* Every variable has a value of its kind.                                 *)
TypeOK ==
  /\ seqs \in [Sessions -> Nat] /\ prod \in ProdStates
  /\ cur \in IF prod \in {"loop", "read", "exit"} THEN {NoDatagram} ELSE Datagram
  /\ tail \in [Lanes -> Nat] /\ freeHead \in [Lanes -> Nat] /\ readHead \in [Lanes -> Nat]
  /\ closed \in [Lanes -> BOOLEAN]
  /\ slots \in [Lanes -> [Index -> Datagram \cup {NoDatagram}]]
  /\ cons \in [Lanes -> ConsStates] /\ batch \in [Lanes -> Seq(Index)]
  /\ bytes \in [Lanes -> Nat] /\ quit \in [Lanes -> BOOLEAN]
  /\ ctxDone \in BOOLEAN /\ stopAt \in 0 .. (L + 1)
  /\ sub \in [Lanes -> Seq(Datagram)] /\ wire \in [Lanes -> Seq(Datagram)]

(* The goroutine that reads UDP never owns a slot that the writer still    *)
(* has in its batch, however full the ring is: acquire hands out a slot    *)
(* only after release has given it back.                                   *)
SlotExclusive ==
  prod \in {"fill", "submit", "publish"} =>
    LET l == LaneOf(cur)
    IN  \A i \in 1 .. Len(batch[l]) : batch[l][i] # tail[l] % Capacity

(* What the writer reads out of the slots of its batch, at any moment from *)
(* pop to release, is what was submitted, in the order of submission.      *)
BatchIntact ==
  \A l \in Lanes : \A i \in 1 .. Len(batch[l]) :
    slots[l][batch[l][i]] = sub[l][freeHead[l] + i]

(* The datagrams that a lane has accepted and neither written nor dropped: *)
(* the packets from the batch, unless it has just been written, to tail.   *)
Pending(l) ==
  LET base == IF cons[l] = "release" THEN readHead[l] ELSE freeHead[l]
  IN  [i \in 1 .. (tail[l] - base) |-> slots[l][(base + i - 1) % Capacity]]

Fifo(l) == INSTANCE LossyFifo WITH Items <- Datagram, q <- Pending(l), out <- wire[l]

(* Every lane implements LossyFifo: what it puts on its connections is     *)
(* what was submitted to its ring, nothing reordered, repeated or made up, *)
(* also when slots are reused and batches dropped or written in part.      *)
FifoLane ==
  /\ \A l \in Lanes : Fifo(l)!Init
  /\ [][\A l \in Lanes : [Fifo(l)!Next]_(Fifo(l)!vars)]_vars

(* Without striping, the datagrams of a session leave on one lane only and *)
(* in the order of their sequence numbers.                                 *)
SessionOrder ==
  Stripe \/
  \A l, m \in Lanes : \A i \in 1 .. Len(wire[l]), j \in 1 .. Len(wire[m]) :
    wire[l][i].sid = wire[m][j].sid /\ wire[l][i].seq <= wire[m][j].seq => l = m /\ i <= j

(* A datagram submitted to a lane whose peer keeps reading is handed to    *)
(* writeUpstreamBatch and its slot comes back, whatever the other lanes    *)
(* do, unless Stop is called.                                              *)
Drained ==
  \A l \in Lanes \ Stalled : \A n \in 1 .. MaxDatagrams :
    tail[l] >= n ~> freeHead[l] >= n \/ ctxDone

(* The UDP goroutine never waits for ever for a slot of a lane whose peer  *)
(* keeps reading.                                                          *)
ProducerResumes == prod = "acquire" /\ LaneOf(cur) \notin Stalled ~> prod = "loop"

(* After Stop the UDP goroutine and the writers of all lanes end, unless a *)
(* peer has stopped reading and a write to it hangs for ever.              *)
GoroutinesEnd ==
  ctxDone ~> \/ prod = "exit" /\ \A l \in Lanes : cons[l] = "exit"
             \/ \E l \in Stalled : [](cons[l] = "write")
=============================================================================
