------------------------------ MODULE Reorder ------------------------------
(***************************************************************************)
(* The server puts the packets of a session back in order when the client  *)
(* stripes them over the lanes (writeUpstreamToBackend and                 *)
(* forceDrainReorderLocked).  One session is modelled: states of different *)
(* sessions are separate, and a session's mutex makes the handling of one  *)
(* packet one step.                                                        *)
(*                                                                         *)
(* A packet is its number in the order of sending; its sequence number is  *)
(* that number modulo 2^32 (Modulus).  A lane keeps order and may lose     *)
(* packets (a dropped batch, a lost connection).  Writes to the backend    *)
(* may fail.  Whether the hold time has passed since lastDrain is chosen   *)
(* freely.                                                                 *)
(***************************************************************************)
EXTENDS Naturals, Sequences, FiniteSets

CONSTANTS
  L,         \* number of upstream lanes
  Modulus,   \* sequence numbers are counted modulo this (2^32)
  Window,    \* upstreamReorderWindow
  First,     \* number of the first packet this server may see
  Last       \* bound: number of the last packet sent

ASSUME LanesAssumption == L \in Nat \ {0}
ASSUME SeqAssumption ==
  Modulus \in Nat \ {0} /\ Window \in Nat /\ First \in Nat /\ Last \in Nat

VARIABLES
  next,         \* number of the next packet the client sends
  lane,         \* the packets in flight on each lane
  initialized, expected, pending,   \* upstreamReorderState
  written       \* history: the packets written to the backend with this state

vars == <<next, lane, initialized, expected, pending, written>>

Lanes   == 0 .. (L - 1)
Seqno(n) == n % Modulus
Seqnos(P) == {Seqno(n) : n \in P}
W == IF Window < 1 THEN 1 ELSE Window

(* The packet that pending maps sequence number q to.                      *)
Payload(P, q) == CHOOSE n \in P : Seqno(n) = q

Init ==
  /\ next = First /\ lane = [l \in Lanes |-> <<>>]
  /\ initialized = FALSE /\ expected = 0 /\ pending = {} /\ written = <<>>

(* NextSequenceID and selectUpstreamLane with striping.                    *)
Send ==
  /\ next <= Last
  /\ next' = next + 1
  /\ lane' = [lane EXCEPT ![Seqno(next) % L] = Append(@, next)]
  /\ UNCHANGED <<initialized, expected, pending, written>>

Lose(l) ==
  /\ lane[l] # <<>>
  /\ lane' = [lane EXCEPT ![l] = Tail(@)]
  /\ UNCHANGED <<next, initialized, expected, pending, written>>

(* Write the run of packets P that starts at sequence number e, after the  *)
(* packets w: it ends at e + j because that packet is not there, or        *)
(* because its write fails and it is lost.                                 *)
Drain(w, P, e) ==
  \E j \in 0 .. Cardinality(P) :
    /\ \A i \in 0 .. (j - 1) : Seqno(e + i) \in Seqnos(P)
    /\ written' = w \o [i \in 1 .. j |-> Payload(P, Seqno(e + i - 1))]
    /\ expected' = Seqno(e + j)
    /\ pending' = {n \in P : \A i \in 0 .. j : Seqno(n) # Seqno(e + i)}

(* writeUpstreamToBackend of packet n, with state.expected = e.            *)

(* Mutant: an old packet is written as well.                               *)
OldWritten(n, e) ==
  /\ Seqno(n) < e
  /\ written' = Append(written, n)
  /\ expected' = e /\ UNCHANGED pending

Old(n, e) ==
  /\ Seqno(n) < e
  /\ expected' = e /\ UNCHANGED <<pending, written>>

InTurn(n, e) ==
  /\ Seqno(n) = e
  /\ \/ Drain(Append(written, n), pending, e + 1)
     \/ expected' = e /\ UNCHANGED <<pending, written>>   \* the write fails

(* uint32 subtraction; the comparison with e has excluded Seqno(n) < e.    *)
Ahead(n, e) == Seqno(n) - e

(* Mutant: the held packets are not cleared.                               *)
BeyondWindowKeeps(n, e) ==
  /\ Seqno(n) > e /\ Ahead(n, e) > W
  /\ pending' = pending
  /\ \/ written' = Append(written, n) /\ expected' = Seqno(Seqno(n) + 1)
     \/ written' = written /\ expected' = e

BeyondWindow(n, e) ==
  /\ Seqno(n) > e /\ Ahead(n, e) > W
  /\ pending' = {}
  /\ \/ written' = Append(written, n) /\ expected' = Seqno(Seqno(n) + 1)
     \/ written' = written /\ expected' = e               \* the write fails

(* A packet already held under this sequence number stays.                 *)
Held(n) == IF Seqno(n) \in Seqnos(pending) THEN pending ELSE pending \cup {n}

Hold(n, e) ==
  /\ Seqno(n) > e /\ Ahead(n, e) <= W
  /\ Cardinality(Held(n)) < W
  /\ pending' = Held(n) /\ expected' = e /\ UNCHANGED written

(* forceDrainReorderLocked, when the window is full or the hold time over. *)
ForceDrain(n, e) ==
  /\ Seqno(n) > e /\ Ahead(n, e) <= W
  /\ \E q \in Seqnos(Held(n)) :
       /\ \A r \in Seqnos(Held(n)) : q <= r
       /\ Drain(written, Held(n), q)

(* Mutant: initialized is never set.                                       *)
ArriveUninitialized(l) ==
  /\ lane[l] # <<>>
  /\ lane' = [lane EXCEPT ![l] = Tail(@)]
  /\ LET n == Head(lane[l])
         e == IF initialized THEN expected ELSE Seqno(n)
     IN  Old(n, e) \/ InTurn(n, e) \/ BeyondWindow(n, e) \/ Hold(n, e) \/ ForceDrain(n, e)
  /\ UNCHANGED <<next, initialized>>

Arrive(l) ==
  /\ lane[l] # <<>>
  /\ lane' = [lane EXCEPT ![l] = Tail(@)] /\ initialized' = TRUE
  /\ LET n == Head(lane[l])
         e == IF initialized THEN expected ELSE Seqno(n)
     IN  Old(n, e) \/ InTurn(n, e) \/ BeyondWindow(n, e) \/ Hold(n, e) \/ ForceDrain(n, e)
  /\ UNCHANGED next

(* The session ends (cleanupSessions, or the reader's deferred function)   *)
(* and its state is deleted; the next packet makes another state.  written *)
(* is the history of one state.                                            *)
Forget ==
  /\ initialized
  /\ initialized' = FALSE /\ expected' = 0 /\ pending' = {} /\ written' = <<>>
  /\ UNCHANGED <<next, lane>>

Next == Send \/ Forget \/ \E l \in Lanes : Lose(l) \/ Arrive(l)

Spec == Init /\ [][Next]_vars
-----------------------------------------------------------------------------
(* Every variable has a value of its kind, and before the first packet the *)
(* state is empty.                                                         *)
TypeOK ==
  /\ next \in Nat /\ lane \in [Lanes -> Seq(Nat)]
  /\ initialized \in BOOLEAN /\ expected \in Nat /\ pending \subseteq Nat
  /\ written \in Seq(Nat)
  /\ ~initialized => expected = 0 /\ pending = {} /\ written = <<>>

(* As long as a session's state lives, the backend gets its packets in the *)
(* order in which they were sent, and none twice ("old sequence numbers    *)
(* are dropped, to avoid injecting a packet again"), however lanes race    *)
(* and writes fail.                                                        *)
InOrder == \A i, j \in 1 .. Len(written) : i < j => written[i] < written[j]

(* What is held back lies ahead of what is expected and inside the window, *)
(* and there is always room for one more: nothing is stuck behind, where   *)
(* no drain would find it.                                                 *)
PendingInWindow ==
  /\ \A n \in pending : expected < Seqno(n) /\ Seqno(n) <= expected + W
  /\ Cardinality(pending) < W
=============================================================================
