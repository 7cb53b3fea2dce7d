------------------------ MODULE UpstreamPathProofs ------------------------
(***************************************************************************)
(* The ring of every lane is safe for any number of lanes, any capacity    *)
(* and any batch limits.                                                   *)
(***************************************************************************)
EXTENDS UpstreamPath, SequenceTheorems, TLAPS

(* Two positions less than a lap apart are different slots.                *)
LEMMA DistinctSlots ==
  ASSUME NEW a \in Nat, NEW b \in Nat, a < b, b < a + Capacity
  PROVE  a % Capacity # b % Capacity
<1> USE CapacityAssumption
<1> SUFFICES ASSUME a % Capacity = b % Capacity PROVE FALSE
  OBVIOUS
<1> DEFINE p == a \div Capacity
           q == b \div Capacity
<1>1. p \in Nat /\ q \in Nat /\ a = Capacity * p + (a % Capacity)
      /\ b = Capacity * q + (b % Capacity)
  OBVIOUS
<1> HIDE DEF p, q
<1>2. Capacity * q - Capacity * p \in 1 .. (Capacity - 1)
  BY <1>1
<1>3. Capacity * q - Capacity * p = Capacity * (q - p)
  BY <1>1
<1>4. CASE q - p >= 1
  <2>1. Capacity * (q - p) >= Capacity
    BY <1>1, <1>4
  <2> QED BY <2>1, <1>2, <1>3
<1>5. CASE q - p <= 0
  <2>1. Capacity * (q - p) <= 0
    BY <1>1, <1>5
  <2> QED BY <2>1, <1>2, <1>3
<1> QED BY <1>1, <1>4, <1>5
(* What Append and Tail do to a sequence.                                  *)
LEMMA AppendFacts ==
  ASSUME NEW S, NEW s \in Seq(S), NEW e \in S
  PROVE  /\ Append(s, e) \in Seq(S) /\ Len(Append(s, e)) = Len(s) + 1
         /\ \A i \in 1 .. Len(s) : Append(s, e)[i] = s[i]
         /\ Append(s, e)[Len(s) + 1] = e
  OBVIOUS

LEMMA TailFacts ==
  ASSUME NEW S, NEW s \in Seq(S), s # <<>>
  PROVE  /\ Tail(s) \in Seq(S) /\ Len(s) \in Nat \ {0} /\ Len(Tail(s)) = Len(s) - 1
         /\ \A i \in 1 .. (Len(s) - 1) : Tail(s)[i] = s[i + 1]
         /\ Head(s) = s[1]
  OBVIOUS

(* A lane number and a slot index are always in range.                     *)
LEMMA LaneInRange ==
  ASSUME NEW d \in Datagram PROVE LaneOf(d) \in Lanes
<1> DEFINE n == IF Stripe THEN d.seq ELSE d.sid
<1>1. n \in Nat
  BY DataAssumption DEF Datagram
<1> HIDE DEF n
<1>2. n % L \in 0 .. (L - 1)
  BY <1>1, LanesAssumption
<1> QED BY <1>2 DEF LaneOf, Lanes, n

LEMMA IndexInRange ==
  ASSUME NEW n \in Nat PROVE n % Capacity \in Index
  BY CapacityAssumption DEF Index

(* The counters of a ring are ordered and at most one lap apart.           *)
Counters ==
  \A l \in Lanes :
    /\ freeHead[l] <= readHead[l] /\ readHead[l] <= tail[l]
    /\ tail[l] <= freeHead[l] + Capacity

(* The batch is the slots from freeHead up to readHead.                    *)
BatchSlots ==
  \A l \in Lanes :
    /\ Len(batch[l]) = readHead[l] - freeHead[l]
    /\ \A i \in 1 .. Len(batch[l]) : batch[l][i] = (freeHead[l] + i - 1) % Capacity

(* Every slot between freeHead and tail holds what was submitted there.    *)
SlotsHold ==
  \A l \in Lanes :
    /\ Len(sub[l]) = tail[l]
    /\ \A k \in Nat : freeHead[l] <= k /\ k < tail[l] =>
         slots[l][k % Capacity] = sub[l][k + 1]

(* The producer has room, and its slot holds its datagram once filled.     *)
ProducerSlot ==
  LET l == LaneOf(cur)
  IN  /\ prod \in {"fill", "submit", "publish"} => tail[l] < freeHead[l] + Capacity
      /\ prod \in {"submit", "publish"} => slots[l][tail[l] % Capacity] = cur

IInv == TypeOK /\ Counters /\ BatchSlots /\ SlotsHold /\ ProducerSlot

(* New starts every ring empty.                                            *)
LEMMA InitIInv == Init => IInv
  BY LanesAssumption, CapacityAssumption
  DEF Init, IInv, TypeOK, Counters, BatchSlots, SlotsHold, ProducerSlot, ProdStates,
      ConsStates, Lanes

(* The batch holds what was submitted: the heart of BatchIntact.           *)
LEMMA BatchHolds ==
  ASSUME IInv, NEW l \in Lanes, NEW i \in 1 .. Len(batch[l])
  PROVE  /\ slots[l][batch[l][i]] = sub[l][freeHead[l] + i]
         /\ slots[l][batch[l][i]] \in Datagram
<1>1. /\ Len(batch[l]) = readHead[l] - freeHead[l] /\ Len(sub[l]) = tail[l]
      /\ batch[l][i] = (freeHead[l] + i - 1) % Capacity
      /\ readHead[l] <= tail[l]
      /\ \A k \in Nat : freeHead[l] <= k /\ k < tail[l] =>
           slots[l][k % Capacity] = sub[l][k + 1]
  BY DEF IInv, BatchSlots, SlotsHold, Counters
<1>2. freeHead[l] \in Nat /\ readHead[l] \in Nat /\ tail[l] \in Nat
      /\ sub[l] \in Seq(Datagram)
  BY DEF IInv, TypeOK
<1> DEFINE k == freeHead[l] + i - 1
<1>3. k \in Nat /\ freeHead[l] <= k /\ k < tail[l] /\ k + 1 = freeHead[l] + i
  <2> DEFINE f == freeHead[l]
             r == readHead[l]
             t == tail[l]
  <2>1. f \in Nat /\ r \in Nat /\ t \in Nat /\ r <= t /\ i \in 1 .. (r - f) /\ k = f + i - 1
    BY <1>1, <1>2
  <2> HIDE DEF f, r, t, k
  <2>2. k \in Nat /\ f <= k /\ k < t /\ k + 1 = f + i
    BY <2>1
  <2> QED
    BY <2>2 DEF f, t
<1>4. slots[l][k % Capacity] = sub[l][k + 1]
  BY <1>1, <1>3
<1>5. sub[l][freeHead[l] + i] \in Datagram
  BY <1>1, <1>2, <1>3
<1> QED BY <1>1, <1>3, <1>4, <1>5

(* Take keeps the invariant, in pop and in tryPop.                         *)
LEMMA TakeIInv ==
  ASSUME IInv, NEW l \in Lanes, readHead[l] # tail[l], Take(l), cons' \in [Lanes -> ConsStates],
         UNCHANGED <<prodVars, tail, freeHead, closed, slots, quit, stopVars, sub, wire>>
  PROVE  IInv'
<1> USE CapacityAssumption DEF IInv, prodVars, stopVars
<1>0. slots[l][readHead[l] % Capacity] \in Datagram
  <2>1. readHead[l] \in Nat /\ tail[l] \in Nat /\ sub[l] \in Seq(Datagram)
    BY DEF TypeOK
  <2>2. freeHead[l] <= readHead[l] /\ readHead[l] < tail[l]
    BY <2>1 DEF Counters
  <2>3. /\ Len(sub[l]) = tail[l]
        /\ \A k \in Nat : freeHead[l] <= k /\ k < tail[l] =>
             slots[l][k % Capacity] = sub[l][k + 1]
    BY DEF SlotsHold
  <2>4. slots[l][readHead[l] % Capacity] = sub[l][readHead[l] + 1]
    BY <2>1, <2>2, <2>3
  <2>5. sub[l][readHead[l] + 1] \in Datagram
    BY <2>1, <2>2, <2>3
  <2> QED BY <2>4, <2>5
<1>1. TypeOK'
  <2>1. slots[l][readHead[l] % Capacity].len \in Nat
    BY <1>0, DataAssumption DEF Datagram
  <2>2. readHead[l] % Capacity \in Index
    BY IndexInRange DEF TypeOK
  <2>3. batch[l] \in Seq(Index) /\ bytes[l] \in Nat /\ readHead[l] \in Nat
    BY DEF TypeOK
  <2>4. Append(batch[l], readHead[l] % Capacity) \in Seq(Index)
    BY <2>2, <2>3
  <2>5. bytes[l] + slots[l][readHead[l] % Capacity].len \in Nat
    BY <2>1, <2>3
  <2>6. batch' \in [Lanes -> Seq(Index)]
    BY <2>4 DEF TypeOK, Take
  <2>7. bytes' \in [Lanes -> Nat]
    BY <2>5 DEF TypeOK, Take
  <2>8. readHead' \in [Lanes -> Nat]
    BY DEF TypeOK, Take
  <2> QED BY <2>6, <2>7, <2>8 DEF TypeOK
<1>2. Counters'
  BY DEF TypeOK, Counters, Take
<1>3. BatchSlots'
  <2> SUFFICES ASSUME NEW m \in Lanes
               PROVE  /\ Len(batch'[m]) = readHead'[m] - freeHead'[m]
                      /\ \A i \in 1 .. Len(batch'[m]) :
                            batch'[m][i] = (freeHead'[m] + i - 1) % Capacity
    BY DEF BatchSlots
  <2>1. CASE m # l
    BY <2>1 DEF TypeOK, BatchSlots, Take
  <2>2. CASE m = l
    <3>1. /\ batch'[l] = Append(batch[l], readHead[l] % Capacity)
          /\ readHead'[l] = readHead[l] + 1 /\ freeHead'[l] = freeHead[l]
      BY DEF TypeOK, Take
    <3>2. /\ Len(batch[l]) = readHead[l] - freeHead[l]
          /\ \A i \in 1 .. Len(batch[l]) : batch[l][i] = (freeHead[l] + i - 1) % Capacity
      BY DEF BatchSlots
    <3>3. batch[l] \in Seq(Index) /\ readHead[l] \in Nat /\ freeHead[l] \in Nat
          /\ readHead[l] % Capacity \in Index
      BY IndexInRange DEF TypeOK
    <3>a. /\ Len(batch'[l]) = Len(batch[l]) + 1
          /\ \A i \in 1 .. Len(batch[l]) : batch'[l][i] = batch[l][i]
          /\ batch'[l][Len(batch[l]) + 1] = readHead[l] % Capacity
      BY <3>1, <3>3, AppendFacts
    <3>4. Len(batch'[l]) = readHead'[l] - freeHead'[l]
      BY <3>1, <3>2, <3>3, <3>a
    <3>5. ASSUME NEW i \in 1 .. Len(batch'[l])
          PROVE  batch'[l][i] = (freeHead'[l] + i - 1) % Capacity
      <4>1. CASE i <= Len(batch[l])
        BY <4>1, <3>1, <3>2, <3>a
      <4>2. CASE i = Len(batch[l]) + 1
        <5>1. batch'[l][i] = readHead[l] % Capacity
          BY <4>2, <3>a
        <5>2. freeHead'[l] + i - 1 = readHead[l]
          BY <4>2, <3>1, <3>2, <3>3
        <5> QED BY <5>1, <5>2
      <4> QED BY <4>1, <4>2, <3>3, <3>a
    <3> QED BY <2>2, <3>4, <3>5
  <2> QED BY <2>1, <2>2
<1>4. SlotsHold' /\ ProducerSlot'
  BY DEF SlotsHold, ProducerSlot, LaneOf
<1> QED BY <1>1, <1>2, <1>3, <1>4

(* A step that leaves the rings, the batches and the producer alone.       *)
LEMMA RingUntouched ==
  ASSUME IInv, TypeOK',
         UNCHANGED <<prod, cur, tail, freeHead, readHead, slots, batch, sub>>
  PROVE  IInv'
  BY DEF IInv, Counters, BatchSlots, SlotsHold, ProducerSlot, LaneOf

(* While the producer owns a slot it is not one of the occupied ones.      *)
LEMMA OwnSlotFree ==
  ASSUME IInv, prod \in {"fill", "submit", "publish"},
         NEW k \in Nat, freeHead[LaneOf(cur)] <= k, k < tail[LaneOf(cur)]
  PROVE  k % Capacity # tail[LaneOf(cur)] % Capacity
<1>1. LaneOf(cur) \in Lanes
  BY LaneInRange DEF IInv, TypeOK
<1>2. tail[LaneOf(cur)] \in Nat /\ freeHead[LaneOf(cur)] \in Nat
      /\ tail[LaneOf(cur)] < freeHead[LaneOf(cur)] + Capacity
  BY <1>1 DEF IInv, TypeOK, ProducerSlot
<1>3. tail[LaneOf(cur)] < k + Capacity
  BY <1>2, CapacityAssumption
<1> QED BY <1>2, <1>3, DistinctSlots

(* Writing the producer's own slot keeps the invariant.                    *)
LEMMA OwnSlotWrite ==
  ASSUME IInv, prod \in {"fill", "submit"}, TypeOK',
         NEW d, slots' = [slots EXCEPT ![LaneOf(cur)][tail[LaneOf(cur)] % Capacity] = d],
         UNCHANGED <<tail, freeHead, readHead, batch, sub>>,
         \/ d = cur /\ cur' = cur /\ prod' \in {"submit"}
         \/ prod' = "loop"
  PROVE  IInv'
<1> DEFINE l == LaneOf(cur)
<1>1. l \in Lanes /\ tail[l] \in Nat /\ tail[l] % Capacity \in Index
  BY LaneInRange, IndexInRange DEF IInv, TypeOK
<1>2. /\ \A m \in Lanes : m # l => slots'[m] = slots[m]
      /\ slots'[l][tail[l] % Capacity] = d
      /\ \A i \in Index : i # tail[l] % Capacity => slots'[l][i] = slots[l][i]
  BY <1>1 DEF IInv, TypeOK
<1>3. Counters' /\ BatchSlots'
  BY DEF IInv, Counters, BatchSlots
<1>4. SlotsHold'
  <2> SUFFICES ASSUME NEW m \in Lanes, NEW k \in Nat, freeHead[m] <= k, k < tail[m]
               PROVE  slots'[m][k % Capacity] = sub[m][k + 1]
    BY DEF SlotsHold, IInv
  <2>1. slots[m][k % Capacity] = sub[m][k + 1]
    BY DEF IInv, SlotsHold
  <2>2. CASE m # l
    BY <2>1, <2>2, <1>2
  <2>3. CASE m = l
    <3>1. k % Capacity # tail[l] % Capacity
      BY <2>3, OwnSlotFree
    <3>2. k % Capacity \in Index
      BY IndexInRange
    <3> QED BY <2>1, <2>3, <3>1, <3>2, <1>2
  <2> QED BY <2>2, <2>3
<1>5. ProducerSlot'
  <2>1. CASE d = cur /\ cur' = cur /\ prod' \in {"submit"}
    <3>1. LaneOf(cur)' = l
      BY <2>1 DEF LaneOf
    <3>2. tail[l] < freeHead[l] + Capacity
      BY DEF IInv, ProducerSlot
    <3> QED BY <2>1, <3>1, <3>2, <1>2 DEF ProducerSlot
  <2>2. CASE prod' = "loop"
    BY <2>2 DEF ProducerSlot
  <2> QED BY <2>1, <2>2
<1> QED BY <1>3, <1>4, <1>5 DEF IInv

(* Publishing the filled slot keeps the invariant.                         *)
LEMMA PublishIInv == ASSUME IInv, Publish PROVE IInv'
<1> DEFINE l == LaneOf(cur)
<1>1. l \in Lanes /\ cur \in Datagram
  BY LaneInRange DEF IInv, TypeOK, Publish
<1>2. /\ tail' = [tail EXCEPT ![l] = @ + 1] /\ sub' = [sub EXCEPT ![l] = Append(@, cur)]
      /\ prod = "publish" /\ prod' = "loop" /\ cur' = NoDatagram
      /\ UNCHANGED <<seqs, freeHead, readHead, closed, slots, cons, batch, bytes, quit,
                     ctxDone, stopAt, wire>>
  BY DEF Publish, consVars, stopVars
<1>3. tail[l] \in Nat /\ freeHead[l] \in Nat /\ sub[l] \in Seq(Datagram)
  BY <1>1 DEF IInv, TypeOK
<1>4. tail'[l] = tail[l] + 1 /\ sub'[l] = Append(sub[l], cur)
      /\ \A m \in Lanes : m # l => tail'[m] = tail[m] /\ sub'[m] = sub[m]
  BY <1>1, <1>2 DEF IInv, TypeOK
<1>5. /\ sub'[l] \in Seq(Datagram) /\ Len(sub'[l]) = Len(sub[l]) + 1
      /\ \A i \in 1 .. Len(sub[l]) : sub'[l][i] = sub[l][i]
      /\ sub'[l][Len(sub[l]) + 1] = cur
  BY <1>1, <1>3, <1>4, AppendFacts
<1>6. TypeOK'
  <2>1. tail' \in [Lanes -> Nat]
    <3>1. tail \in [Lanes -> Nat] /\ tail[l] + 1 \in Nat
      BY <1>3 DEF IInv, TypeOK
    <3> QED BY <3>1, <1>2
  <2>2. sub' \in [Lanes -> Seq(Datagram)]
    BY <1>1, <1>2, <1>4, <1>5 DEF IInv, TypeOK
  <2> QED BY <1>2, <2>1, <2>2 DEF IInv, TypeOK, ProdStates
<1>7. tail[l] < freeHead[l] + Capacity /\ slots[l][tail[l] % Capacity] = cur
  BY <1>2 DEF IInv, ProducerSlot
<1>8. Counters'
  <2> SUFFICES ASSUME NEW m \in Lanes
               PROVE  /\ freeHead'[m] <= readHead'[m] /\ readHead'[m] <= tail'[m]
                      /\ tail'[m] <= freeHead'[m] + Capacity
    BY DEF Counters
  <2>1. /\ freeHead[m] <= readHead[m] /\ readHead[m] <= tail[m]
        /\ tail[m] <= freeHead[m] + Capacity
        /\ freeHead[m] \in Nat /\ readHead[m] \in Nat /\ tail[m] \in Nat
    BY DEF IInv, Counters, TypeOK
  <2>2. CASE m # l BY <2>1, <2>2, <1>2, <1>4
  <2>3. CASE m = l BY <2>1, <2>3, <1>2, <1>4, <1>7, CapacityAssumption
  <2> QED BY <2>2, <2>3
<1>9. BatchSlots'
  BY <1>2 DEF IInv, BatchSlots
<1>10. SlotsHold'
  <2> SUFFICES ASSUME NEW m \in Lanes
               PROVE  /\ Len(sub'[m]) = tail'[m]
                      /\ \A k \in Nat : freeHead[m] <= k /\ k < tail'[m] =>
                           slots[m][k % Capacity] = sub'[m][k + 1]
    BY <1>2 DEF SlotsHold
  <2>1. /\ Len(sub[m]) = tail[m]
        /\ \A k \in Nat : freeHead[m] <= k /\ k < tail[m] =>
             slots[m][k % Capacity] = sub[m][k + 1]
    BY DEF IInv, SlotsHold
  <2>2. CASE m # l BY <2>1, <2>2, <1>4
  <2>3. CASE m = l
    <3>1. Len(sub'[l]) = tail'[l]
      BY <2>1, <2>3, <1>4, <1>5
    <3>2. ASSUME NEW k \in Nat, freeHead[l] <= k, k < tail[l] + 1
          PROVE  slots[l][k % Capacity] = sub'[l][k + 1]
      <4>1. CASE k < tail[l]
        <5>1. k + 1 \in 1 .. Len(sub[l])
          BY <4>1, <2>1, <2>3, <1>3
        <5> QED BY <5>1, <4>1, <3>2, <2>1, <2>3, <1>5
      <4>2. CASE k = tail[l]
        BY <4>2, <2>1, <2>3, <1>5, <1>7
      <4> QED BY <4>1, <4>2, <3>2, <1>3
    <3> QED BY <2>3, <3>1, <3>2, <1>4
  <2> QED BY <2>2, <2>3
<1>11. ProducerSlot'
  BY <1>2 DEF ProducerSlot
<1> QED BY <1>6, <1>8, <1>9, <1>10, <1>11 DEF IInv

(* Giving the first slot of the batch back keeps the invariant.            *)
LEMMA ReleaseIInv ==
  ASSUME IInv, NEW l \in Lanes, batch[l] # <<>>, Release(l)
  PROVE  IInv'
<1>1. /\ slots' = [slots EXCEPT ![l][Head(batch[l])] = NoDatagram]
      /\ freeHead' = [freeHead EXCEPT ![l] = @ + 1]
      /\ batch' = [batch EXCEPT ![l] = Tail(@)]
      /\ UNCHANGED <<seqs, prod, cur, tail, readHead, closed, cons, bytes, quit, ctxDone,
                     stopAt, sub, wire>>
  BY DEF Release, prodVars, stopVars
<1>2. /\ batch[l] \in Seq(Index) /\ freeHead[l] \in Nat /\ readHead[l] \in Nat
      /\ tail[l] \in Nat
  BY DEF IInv, TypeOK
<1>3. /\ Tail(batch[l]) \in Seq(Index) /\ Len(batch[l]) \in Nat \ {0}
      /\ Len(Tail(batch[l])) = Len(batch[l]) - 1
      /\ \A i \in 1 .. (Len(batch[l]) - 1) : Tail(batch[l])[i] = batch[l][i + 1]
      /\ Head(batch[l]) = batch[l][1]
  BY <1>2, TailFacts
<1>4. /\ Len(batch[l]) = readHead[l] - freeHead[l]
      /\ \A i \in 1 .. Len(batch[l]) : batch[l][i] = (freeHead[l] + i - 1) % Capacity
      /\ freeHead[l] <= readHead[l] /\ readHead[l] <= tail[l]
      /\ tail[l] <= freeHead[l] + Capacity
  BY DEF IInv, BatchSlots, Counters
<1>5. Head(batch[l]) = freeHead[l] % Capacity /\ Head(batch[l]) \in Index
  <2>1. batch[l][1] = (freeHead[l] + 1 - 1) % Capacity
    BY <1>3, <1>4
  <2>2. freeHead[l] + 1 - 1 = freeHead[l]
    BY <1>2
  <2> QED BY <2>1, <2>2, <1>2, <1>3, IndexInRange
<1>6. /\ \A m \in Lanes : m # l => slots'[m] = slots[m] /\ freeHead'[m] = freeHead[m]
                                   /\ batch'[m] = batch[m]
      /\ freeHead'[l] = freeHead[l] + 1 /\ batch'[l] = Tail(batch[l])
      /\ \A i \in Index : i # freeHead[l] % Capacity => slots'[l][i] = slots[l][i]
  BY <1>1, <1>5 DEF IInv, TypeOK
<1>7. TypeOK'
  <2>1. freeHead' \in [Lanes -> Nat]
    <3>1. freeHead \in [Lanes -> Nat] /\ freeHead[l] + 1 \in Nat
      BY <1>2 DEF IInv, TypeOK
    <3> QED BY <3>1, <1>1
  <2>2. batch' \in [Lanes -> Seq(Index)]
    BY <1>1, <1>3 DEF IInv, TypeOK
  <2>3. slots' \in [Lanes -> [Index -> Datagram \cup {NoDatagram}]]
    BY <1>1, <1>5 DEF IInv, TypeOK
  <2> QED BY <1>1, <2>1, <2>2, <2>3 DEF IInv, TypeOK
<1>8. Counters'
  <2> SUFFICES ASSUME NEW m \in Lanes
               PROVE  /\ freeHead'[m] <= readHead'[m] /\ readHead'[m] <= tail'[m]
                      /\ tail'[m] <= freeHead'[m] + Capacity
    BY DEF Counters
  <2>1. CASE m # l
    BY <2>1, <1>1, <1>6 DEF IInv, Counters
  <2>2. CASE m = l
    BY <2>2, <1>1, <1>2, <1>3, <1>4, <1>6, CapacityAssumption
  <2> QED BY <2>1, <2>2
<1>9. BatchSlots'
  <2> SUFFICES ASSUME NEW m \in Lanes
               PROVE  /\ Len(batch'[m]) = readHead[m] - freeHead'[m]
                      /\ \A i \in 1 .. Len(batch'[m]) :
                            batch'[m][i] = (freeHead'[m] + i - 1) % Capacity
    BY <1>1 DEF BatchSlots
  <2>1. CASE m # l
    BY <2>1, <1>6 DEF IInv, BatchSlots
  <2>2. CASE m = l
    <3>1. Len(batch'[l]) = readHead[l] - freeHead'[l]
      BY <1>2, <1>3, <1>4, <1>6
    <3>2. ASSUME NEW i \in 1 .. Len(batch'[l])
          PROVE  batch'[l][i] = (freeHead'[l] + i - 1) % Capacity
      <4>1. i \in 1 .. (Len(batch[l]) - 1) /\ i + 1 \in 1 .. Len(batch[l])
        BY <1>3, <1>6
      <4>2. batch'[l][i] = (freeHead[l] + (i + 1) - 1) % Capacity
        BY <4>1, <1>3, <1>4, <1>6
      <4>3. freeHead[l] + (i + 1) - 1 = freeHead'[l] + i - 1
        BY <1>2, <1>6
      <4> QED BY <4>2, <4>3
    <3> QED BY <2>2, <3>1, <3>2
  <2> QED BY <2>1, <2>2
<1>10. SlotsHold'
  <2> SUFFICES ASSUME NEW m \in Lanes, NEW k \in Nat, freeHead'[m] <= k, k < tail[m]
               PROVE  slots'[m][k % Capacity] = sub[m][k + 1]
    BY <1>1 DEF IInv, SlotsHold
  <2>1. freeHead[m] <= k
    BY <1>2, <1>6
  <2>2. slots[m][k % Capacity] = sub[m][k + 1]
    BY <2>1 DEF IInv, SlotsHold
  <2>3. CASE m # l
    BY <2>2, <2>3, <1>6
  <2>4. CASE m = l
    <3>1. freeHead[l] < k /\ k < freeHead[l] + Capacity
      BY <2>4, <1>2, <1>4, <1>6, CapacityAssumption
    <3>2. k % Capacity # freeHead[l] % Capacity /\ k % Capacity \in Index
      BY <3>1, <1>2, DistinctSlots, IndexInRange
    <3> QED BY <2>2, <2>4, <3>2, <1>6
  <2> QED BY <2>3, <2>4
<1>11. ProducerSlot'
  <2>1. LaneOf(cur)' = LaneOf(cur)
    BY <1>1 DEF LaneOf
  <2> DEFINE p == LaneOf(cur)
  <2> SUFFICES ASSUME prod \in {"fill", "submit", "publish"}
               PROVE  /\ tail[p] < freeHead'[p] + Capacity
                      /\ prod \in {"submit", "publish"} => slots'[p][tail[p] % Capacity] = cur
    BY <1>1, <2>1 DEF ProducerSlot
  <2>2. p \in Lanes /\ freeHead[p] \in Nat /\ tail[p] \in Nat
        /\ tail[p] % Capacity \in Index
    BY LaneInRange, IndexInRange DEF IInv, TypeOK
  <2>3. /\ tail[p] < freeHead[p] + Capacity
        /\ prod \in {"submit", "publish"} => slots[p][tail[p] % Capacity] = cur
    BY DEF IInv, ProducerSlot
  <2>4. CASE p # l
    BY <2>2, <2>3, <2>4, <1>6
  <2>5. CASE p = l
    <3>1. freeHead[l] < tail[l]
      BY <1>2, <1>3, <1>4
    <3>2. freeHead[l] % Capacity # tail[l] % Capacity
      BY <3>1, <2>3, <2>5, <1>2, DistinctSlots
    <3> QED BY <2>2, <2>3, <2>5, <3>2, <1>6, CapacityAssumption
  <2> QED BY <2>4, <2>5
<1> QED BY <1>7, <1>8, <1>9, <1>10, <1>11 DEF IInv

(* What writev points at is a sequence of datagrams.                       *)
LEMMA WritevType ==
  ASSUME IInv, NEW l \in Lanes
  PROVE  Writev(l) \in Seq(Datagram) /\ Len(Writev(l)) = Len(batch[l])
<1>1. Len(batch[l]) \in Nat
  BY DEF IInv, TypeOK
<1>2. \A i \in 1 .. Len(batch[l]) : slots[l][batch[l][i]] \in Datagram
  BY BatchHolds
<1> QED BY <1>1, <1>2 DEF Writev

(* Every step of every goroutine keeps the invariant.                      *)
LEMMA NextIInv == IInv /\ [Next]_vars => IInv'
<1> SUFFICES ASSUME IInv, [Next]_vars PROVE IInv'
  OBVIOUS
<1> USE DEF prodVars, ringVars, consVars, stopVars
<1>1. CASE ProdLoop
  <2>1. TypeOK' BY <1>1 DEF ProdLoop, IInv, TypeOK, ProdStates
  <2> QED BY <1>1, <2>1 DEF ProdLoop, IInv, Counters, BatchSlots, SlotsHold, ProducerSlot
<1>2. CASE ReadErr
  <2>1. TypeOK' BY <1>2 DEF ReadErr, IInv, TypeOK, ProdStates
  <2> QED BY <1>2, <2>1 DEF ReadErr, IInv, Counters, BatchSlots, SlotsHold, ProducerSlot
<1>3. ASSUME NEW s \in Sessions, NEW n \in Lens, Read(s, n) PROVE IInv'
  <2>1. seqs[s] + 1 \in Nat
    BY DEF IInv, TypeOK
  <2>2. cur' \in Datagram /\ seqs' \in [Sessions -> Nat] /\ prod' = "acquire"
    BY <1>3, <2>1 DEF Read, NextPacket, Datagram, IInv, TypeOK
  <2>3. TypeOK'
    BY <1>3, <2>2 DEF Read, NextPacket, IInv, TypeOK, ProdStates
  <2> QED
    BY <1>3, <2>2, <2>3 DEF Read, NextPacket, IInv, Counters, BatchSlots, SlotsHold, ProducerSlot
<1>4. CASE Acquire
  <2>1. TypeOK' BY <1>4 DEF Acquire, IInv, TypeOK, ProdStates
  <2> QED BY <1>4, <2>1 DEF Acquire, IInv, Counters, BatchSlots, SlotsHold, ProducerSlot
<1>5. CASE Room
  <2>1. TypeOK' BY <1>5 DEF Room, IInv, TypeOK, ProdStates
  <2>2. Counters' /\ BatchSlots' /\ SlotsHold'
    BY <1>5 DEF Room, IInv, Counters, BatchSlots, SlotsHold
  <2>3. ProducerSlot'
    <3>1. LaneOf(cur) \in Lanes
      BY <1>5, LaneInRange DEF Room, IInv, TypeOK
    <3>2. tail[LaneOf(cur)] \in Nat /\ freeHead[LaneOf(cur)] \in Nat
      BY <3>1 DEF IInv, TypeOK
    <3>3. prod' = "fill" => tail[LaneOf(cur)] < freeHead[LaneOf(cur)] + Capacity
      BY <1>5, <3>2, CapacityAssumption DEF Room
    <3> QED BY <1>5, <3>3 DEF Room, ProducerSlot, LaneOf
  <2> QED BY <2>1, <2>2, <2>3 DEF IInv
<1>6. CASE Fill
  <2>1. LaneOf(cur) \in Lanes /\ cur \in Datagram
    BY <1>6, LaneInRange DEF Fill, IInv, TypeOK
  <2>2. tail[LaneOf(cur)] % Capacity \in Index
    BY <2>1, IndexInRange DEF IInv, TypeOK
  <2>3. slots' \in [Lanes -> [Index -> Datagram \cup {NoDatagram}]]
    BY <1>6, <2>1, <2>2 DEF Fill, IInv, TypeOK
  <2>4. TypeOK' BY <1>6, <2>3 DEF Fill, IInv, TypeOK, ProdStates
  <2> QED BY <1>6, <2>4, OwnSlotWrite DEF Fill
<1>7. CASE Submit
  <2>1. LaneOf(cur) \in Lanes
    BY <1>7, LaneInRange DEF Submit, IInv, TypeOK
  <2>2. tail[LaneOf(cur)] % Capacity \in Index
    BY <2>1, IndexInRange DEF IInv, TypeOK
  <2>3. CASE closed[LaneOf(cur)]
    <3>a. slots' = [slots EXCEPT ![LaneOf(cur)][tail[LaneOf(cur)] % Capacity] = NoDatagram]
      BY <1>7, <2>3 DEF Submit
    <3>1. slots' \in [Lanes -> [Index -> Datagram \cup {NoDatagram}]]
      BY <3>a, <2>1, <2>2 DEF IInv, TypeOK
    <3>2. TypeOK' BY <1>7, <2>3, <3>1 DEF Submit, IInv, TypeOK, ProdStates
    <3> QED BY <1>7, <2>3, <3>2, OwnSlotWrite DEF Submit
  <2>4. CASE ~closed[LaneOf(cur)]
    <3>1. TypeOK' BY <1>7, <2>4 DEF Submit, IInv, TypeOK, ProdStates
    <3> QED
      BY <1>7, <2>4, <3>1
      DEF Submit, IInv, Counters, BatchSlots, SlotsHold, ProducerSlot, LaneOf
  <2> QED BY <2>3, <2>4
<1>8. CASE Publish
  BY <1>8, PublishIInv
<1>9. ASSUME NEW l \in Lanes, Pop(l) \/ More(l) PROVE IInv'
  <2>1. cons' \in [Lanes -> ConsStates]
    BY <1>9 DEF Pop, More, Goto, IInv, TypeOK, ConsStates
  <2>2. CASE readHead[l] # tail[l] /\ Take(l)
    BY <1>9, <2>1, <2>2, TakeIInv DEF Pop, More
  <2>3. CASE UNCHANGED <<batch, bytes, readHead>>
    <3>1. TypeOK' BY <1>9, <2>1, <2>3 DEF Pop, More, IInv, TypeOK
    <3> QED BY <1>9, <2>3, <3>1, RingUntouched DEF Pop, More
  <2> QED BY <1>9, <2>2, <2>3 DEF Pop, More
<1>10. ASSUME NEW l \in Lanes,
              PopClosed(l) \/ Delay(l) \/ Timer(l) \/ TimerCancelled(l) \/ WriteLock(l)
       PROVE  IInv'
  <2>1. cons' \in [Lanes -> ConsStates] /\ quit' \in [Lanes -> BOOLEAN]
    BY <1>10 DEF PopClosed, Delay, Timer, TimerCancelled, WriteLock, Goto, IInv,
                 TypeOK, ConsStates
  <2>2. UNCHANGED <<seqs, prod, cur, tail, freeHead, readHead, closed, slots, batch, bytes,
                    ctxDone, stopAt, sub, wire>>
    BY <1>10 DEF PopClosed, Delay, Timer, TimerCancelled, WriteLock
  <2>3. TypeOK' BY <2>1, <2>2 DEF IInv, TypeOK
  <2> QED BY <2>2, <2>3, RingUntouched
<1>11. ASSUME NEW l \in Lanes, WriteEnds(l) PROVE IInv'
  <2>1. PICK w \in Seq(Datagram) : wire' = [wire EXCEPT ![l] = @ \o w]
    <3>1. CASE WriteOk(l)
      BY <3>1, WritevType DEF WriteOk
    <3>2. ASSUME NEW n \in 0 .. MaxPackets, WriteErr(l, n)
          PROVE  \E w \in Seq(Datagram) : wire' = [wire EXCEPT ![l] = @ \o w]
      <4>1. n \in Nat /\ n < Len(batch[l])
        BY <3>2, BatchAssumption DEF WriteErr
      <4>2. SubSeq(Writev(l), 1, n) \in Seq(Datagram)
        BY <4>1, WritevType
      <4> QED BY <3>2, <4>2 DEF WriteErr
    <3> QED BY <1>11, <3>1, <3>2 DEF WriteEnds
  <2>2. wire[l] \o w \in Seq(Datagram)
    BY DEF IInv, TypeOK
  <2>3. wire' \in [Lanes -> Seq(Datagram)]
    BY <2>1, <2>2 DEF IInv, TypeOK
  <2>4. cons' \in [Lanes -> ConsStates]
        /\ UNCHANGED <<seqs, prod, cur, tail, freeHead, readHead, closed, slots, batch,
                       bytes, quit, ctxDone, stopAt, sub>>
    BY <1>11 DEF WriteEnds, WriteOk, WriteErr, Goto, IInv, TypeOK, ConsStates
  <2>5. TypeOK' BY <2>3, <2>4 DEF IInv, TypeOK
  <2> QED BY <2>4, <2>5, RingUntouched
<1>12. ASSUME NEW l \in Lanes, Release(l) PROVE IInv'
  <2>1. CASE batch[l] # <<>>
    BY <1>12, <2>1, ReleaseIInv
  <2>2. CASE batch[l] = <<>>
    <3>1. cons' \in [Lanes -> ConsStates] /\ bytes' \in [Lanes -> Nat]
      <4>1. /\ cons' = [cons EXCEPT ![l] = IF quit[l] THEN "exit" ELSE "pop"]
            /\ bytes' = [bytes EXCEPT ![l] = 0]
        BY <1>12, <2>2 DEF Release, Goto
      <4>2. cons \in [Lanes -> ConsStates] /\ bytes \in [Lanes -> Nat]
        BY DEF IInv, TypeOK
      <4> QED BY <4>1, <4>2 DEF ConsStates
    <3>2. UNCHANGED <<seqs, prod, cur, tail, freeHead, readHead, closed, slots, batch, quit,
                      ctxDone, stopAt, sub, wire>>
      BY <1>12, <2>2 DEF Release
    <3>3. TypeOK' BY <3>1, <3>2 DEF IInv, TypeOK
    <3> QED BY <3>2, <3>3, RingUntouched
  <2> QED BY <2>1, <2>2
<1>13. CASE Stop
  <2>1. UNCHANGED <<seqs, prod, cur, tail, freeHead, readHead, slots, cons, batch, bytes,
                    quit, sub, wire>>
    BY <1>13 DEF Stop, StopCancel, StopRing, StopLane, StopListener
  <2>2. closed' \in [Lanes -> BOOLEAN] /\ ctxDone' \in BOOLEAN
    BY <1>13 DEF Stop, StopCancel, StopRing, StopLane, StopListener, IInv, TypeOK
  <2>a. stopAt' \in 0 .. (L + 1)
    <3>1. stopAt \in 0 .. (L + 1)
      BY DEF IInv, TypeOK
    <3>2. stopAt' = stopAt \/ (stopAt \in 0 .. L /\ stopAt' = stopAt + 1)
      <4>1. CASE StopLane BY <4>1, LanesAssumption DEF StopLane, Lanes
      <4>2. CASE StopListener BY <4>2, LanesAssumption DEF StopListener
      <4>3. CASE StopCancel \/ StopRing BY <4>3 DEF StopCancel, StopRing
      <4> QED BY <1>13, <4>1, <4>2, <4>3 DEF Stop
    <3> QED BY <3>1, <3>2, LanesAssumption
  <2>3. TypeOK' BY <2>1, <2>2, <2>a DEF IInv, TypeOK
  <2> QED BY <2>1, <2>3, RingUntouched
<1>14. CASE UNCHANGED vars
  <2>1. TypeOK' BY <1>14 DEF vars, IInv, TypeOK
  <2> QED BY <1>14, <2>1, RingUntouched DEF vars
<1> QED
  BY <1>1, <1>2, <1>3, <1>4, <1>5, <1>6, <1>7, <1>8, <1>9, <1>10, <1>11, <1>12, <1>13, <1>14
  DEF Next, Producer, Batching

LEMMA Invariance == Spec => []IInv
<1> QED BY InitIInv, NextIInv, PTL DEF Spec

(* The state of the upstream path is well-formed.                          *)
THEOREM TypeCorrect == Spec => []TypeOK
<1>1. IInv => TypeOK BY DEF IInv
<1> QED BY <1>1, Invariance, PTL

(* The producer and the writer of a lane never own the same slot.          *)
THEOREM SlotSafe == Spec => []SlotExclusive
<1>1. IInv => SlotExclusive
  <2> SUFFICES ASSUME IInv, prod \in {"fill", "submit", "publish"},
                      NEW i \in 1 .. Len(batch[LaneOf(cur)])
               PROVE  batch[LaneOf(cur)][i] # tail[LaneOf(cur)] % Capacity
    BY DEF SlotExclusive
  <2> DEFINE l == LaneOf(cur)
  <2>1. l \in Lanes
    BY LaneInRange DEF IInv, TypeOK
  <2>2. /\ batch[l][i] = (freeHead[l] + i - 1) % Capacity
        /\ Len(batch[l]) = readHead[l] - freeHead[l] /\ readHead[l] <= tail[l]
        /\ freeHead[l] \in Nat /\ readHead[l] \in Nat /\ tail[l] \in Nat
    BY <2>1 DEF IInv, TypeOK, BatchSlots, Counters
  <2>3. freeHead[l] + i - 1 \in Nat /\ freeHead[l] <= freeHead[l] + i - 1
        /\ freeHead[l] + i - 1 < tail[l]
    BY <2>2
  <2> QED BY <2>2, <2>3, OwnSlotFree
<1> QED BY <1>1, Invariance, PTL

(* What the writer reads is what was submitted, in order.                  *)
THEOREM BatchSafe == Spec => []BatchIntact
<1>1. IInv => BatchIntact
  BY BatchHolds DEF BatchIntact
<1> QED BY <1>1, Invariance, PTL
-----------------------------------------------------------------------------
(* What a lane has accepted and neither written nor dropped.               *)

(* The packets from here on are pending.                                   *)
Base(l) == IF cons[l] = "release" THEN readHead[l] ELSE freeHead[l]

(* They are the last ones submitted.                                       *)
Shape ==
  \A l \in Lanes :
    /\ Base(l) \in Nat /\ tail[l] \in Nat /\ Base(l) <= tail[l]
    /\ sub[l] \in Seq(Datagram) /\ Len(sub[l]) = tail[l] /\ wire[l] \in Seq(Datagram)
    /\ Pending(l) \in Seq(Datagram) /\ Len(Pending(l)) = tail[l] - Base(l)
    /\ \A i \in 1 .. (tail[l] - Base(l)) : Pending(l)[i] = sub[l][Base(l) + i]

LEMMA ShapeHolds == IInv => Shape
<1> SUFFICES ASSUME IInv, NEW l \in Lanes
             PROVE  /\ Base(l) \in Nat /\ tail[l] \in Nat /\ Base(l) <= tail[l]
                    /\ sub[l] \in Seq(Datagram) /\ Len(sub[l]) = tail[l]
                    /\ wire[l] \in Seq(Datagram)
                    /\ Pending(l) \in Seq(Datagram) /\ Len(Pending(l)) = tail[l] - Base(l)
                    /\ \A i \in 1 .. (tail[l] - Base(l)) : Pending(l)[i] = sub[l][Base(l) + i]
  BY DEF Shape
<1>1. /\ freeHead[l] \in Nat /\ readHead[l] \in Nat /\ tail[l] \in Nat
      /\ sub[l] \in Seq(Datagram) /\ wire[l] \in Seq(Datagram)
  BY DEF IInv, TypeOK
<1>2. /\ freeHead[l] <= readHead[l] /\ readHead[l] <= tail[l] /\ Len(sub[l]) = tail[l]
      /\ \A k \in Nat : freeHead[l] <= k /\ k < tail[l] =>
           slots[l][k % Capacity] = sub[l][k + 1]
  BY DEF IInv, Counters, SlotsHold
<1>3. Base(l) \in Nat /\ freeHead[l] <= Base(l) /\ Base(l) <= tail[l]
  BY <1>1, <1>2 DEF Base
<1> DEFINE b == Base(l)
           n == tail[l] - b
<1>4. n \in Nat
  BY <1>1, <1>3
<1>5. Pending(l) = [i \in 1 .. n |-> slots[l][(b + i - 1) % Capacity]]
  BY DEF Pending, Base
<1> HIDE DEF b
<1>6. ASSUME NEW i \in 1 .. n
      PROVE  slots[l][(b + i - 1) % Capacity] = sub[l][b + i] /\ sub[l][b + i] \in Datagram
  <2>1. b + i - 1 \in Nat /\ freeHead[l] <= b + i - 1 /\ b + i - 1 < tail[l]
        /\ (b + i - 1) + 1 = b + i /\ b + i \in 1 .. tail[l]
    BY <1>1, <1>3, <1>6 DEF b
  <2>2. slots[l][(b + i - 1) % Capacity] = sub[l][(b + i - 1) + 1]
    BY <1>2, <2>1
  <2> QED
    BY <1>1, <1>2, <2>1, <2>2
<1> HIDE DEF n
<1>7. Pending(l) \in [1 .. n -> Datagram] /\ \A i \in 1 .. n : Pending(l)[i] = sub[l][b + i]
  BY <1>5, <1>6
<1>8. Pending(l) \in Seq(Datagram) /\ Len(Pending(l)) = n
  BY <1>4, <1>7
<1> QED
  BY <1>1, <1>2, <1>3, <1>7, <1>8 DEF b, n

LEMMA ShapeNext == IInv' => Shape'
BY ShapeHolds, PTL

(* When the base moves up by m, the first m of them leave.                 *)
LEMMA BaseMoves ==
  ASSUME Shape, Shape', NEW l \in Lanes, NEW m \in Nat,
         tail'[l] = tail[l], sub'[l] = sub[l], Base(l)' = Base(l) + m
  PROVE  /\ m \in 0 .. Len(Pending(l))
         /\ Pending(l)' = SubSeq(Pending(l), m + 1, Len(Pending(l)))
         /\ m = 0 => Pending(l)' = Pending(l)
<1> DEFINE b == Base(l)
           p == Pending(l)
           r == Pending(l)'
           n == tail[l] - b
           s == SubSeq(p, m + 1, n)
<1>1. /\ b \in Nat /\ tail[l] \in Nat /\ p \in Seq(Datagram) /\ Len(p) = n
      /\ \A i \in 1 .. n : p[i] = sub[l][b + i]
  BY DEF Shape
<1>a. /\ Base(l)' <= tail'[l] /\ r \in Seq(Datagram) /\ Len(r) = tail'[l] - Base(l)'
      /\ \A i \in 1 .. (tail'[l] - Base(l)') : r[i] = sub'[l][Base(l)' + i]
  BY Zenon DEF Shape
<1> HIDE DEF p, r
<1>2. /\ b + m <= tail[l] /\ r \in Seq(Datagram) /\ Len(r) = tail[l] - (b + m)
      /\ \A i \in 1 .. (tail[l] - (b + m)) : r[i] = sub[l][(b + m) + i]
  BY <1>a, Zenon
<1> HIDE DEF b
<1>3. m \in 0 .. n /\ n \in Nat /\ Len(r) = n - m
  BY <1>1, <1>2
<1>4. \A i \in (m + 1) .. n : p[i] \in Datagram
  BY <1>1, <1>3, ElementOfSeq
<1>5. /\ s \in Seq(Datagram) /\ Len(s) = n - m
      /\ \A i \in 1 .. (n - m) : s[i] = p[m + i]
  <2>1. /\ s \in Seq(Datagram) /\ Len(s) = IF m + 1 <= n THEN n - (m + 1) + 1 ELSE 0
        /\ \A i \in 1 .. (n - (m + 1) + 1) : s[i] = p[(m + 1) + i - 1]
    BY <1>3, <1>4, SubSeqProperties
  <2>2. Len(s) = n - m
    BY <2>1, <1>3
  <2>3. ASSUME NEW i \in 1 .. (n - m) PROVE s[i] = p[m + i]
    <3>1. i \in 1 .. (n - (m + 1) + 1) /\ (m + 1) + i - 1 = m + i
      BY <1>3, <2>3
    <3> QED
      BY <2>1, <3>1, Zenon
  <2> QED
    BY <2>1, <2>2, <2>3
<1>6. ASSUME NEW i \in 1 .. (n - m) PROVE r[i] = s[i]
  <2>1. m + i \in 1 .. n /\ b + (m + i) = (b + m) + i /\ i \in 1 .. (tail[l] - (b + m))
    BY <1>1, <1>3
  <2>2. s[i] = p[m + i]
    BY <1>5
  <2>3. p[m + i] = sub[l][(b + m) + i]
    BY <1>1, <2>1
  <2>4. r[i] = sub[l][(b + m) + i]
    BY <1>2, <2>1
  <2> QED
    BY <2>2, <2>3, <2>4, Zenon
<1> HIDE DEF s
<1>7. r = s
  BY <1>2, <1>3, <1>5, <1>6, SeqEqual
<1>8. ASSUME m = 0 PROVE r = p
  <2>1. s = SubSeq(p, 1, Len(p))
    BY <1>1, <1>8 DEF s
  <2> QED
    BY <1>1, <1>7, <2>1, SubSeqFull, Zenon
<1> QED
  BY <1>1, <1>3, <1>7, <1>8 DEF p, r, s

Stays(l)  == Pending(l)' = Pending(l) /\ wire'[l] = wire[l]
Enters(l) == /\ prod = "publish" /\ l = LaneOf(cur) /\ cur \in Datagram /\ prod' = "loop"
             /\ Pending(l)' = Append(Pending(l), cur) /\ wire'[l] = wire[l]
Leaves(l) ==
  \E n, m \in 0 .. Len(Pending(l)) :
    /\ n <= m /\ wire'[l] = wire[l] \o SubSeq(Pending(l), 1, n)
    /\ Pending(l)' = SubSeq(Pending(l), m + 1, Len(Pending(l)))
    /\ UNCHANGED <<seqs, cur>>

(* A lane whose base, ring and wire do not move keeps what it has.         *)
LEMMA BaseStays ==
  ASSUME Shape, Shape', NEW l \in Lanes,
         tail'[l] = tail[l], sub'[l] = sub[l], wire'[l] = wire[l], Base(l)' = Base(l)
  PROVE  Stays(l)
<1>1. Base(l)' = Base(l) + 0 /\ 0 \in Nat
  BY DEF Shape
<1>2. Pending(l)' = Pending(l)
  BY <1>1, BaseMoves
<1> QED
  BY <1>2 DEF Stays

(* submit: the datagram comes last.                                        *)
LEMMA PublishEnters ==
  ASSUME IInv, IInv', Publish, NEW l \in Lanes PROVE Stays(l) \/ Enters(l)
<1>1. Shape /\ Shape'
  BY ShapeHolds, ShapeNext
<1>2. cur \in Datagram /\ LaneOf(cur) \in Lanes /\ prod = "publish" /\ prod' = "loop"
  BY LaneInRange DEF Publish, IInv, TypeOK
<1>3. /\ tail' = [tail EXCEPT ![LaneOf(cur)] = @ + 1]
      /\ sub' = [sub EXCEPT ![LaneOf(cur)] = Append(@, cur)]
      /\ wire' = wire /\ Base(l)' = Base(l)
  BY DEF Publish, consVars, Base
<1>4. tail \in [Lanes -> Nat] /\ sub \in [Lanes -> Seq(Datagram)]
  BY DEF IInv, TypeOK
<1>5. CASE l # LaneOf(cur)
  <2>1. tail'[l] = tail[l] /\ sub'[l] = sub[l]
    BY <1>3, <1>4, <1>5
  <2> QED
    BY <1>1, <1>3, <2>1, BaseStays
<1>6. CASE l = LaneOf(cur)
  <2> DEFINE b == Base(l)
             p == Pending(l)
             r == Pending(l)'
             n == tail[l] - b
             a == Append(p, cur)
  <2>1. sub'[l] = Append(sub[l], cur)
    BY <1>2, <1>3, <1>4, <1>6
  <2>b. tail'[l] = tail[l] + 1 /\ Base(l)' = b /\ b \in Nat /\ tail[l] \in Nat
    BY <1>1, <1>2, <1>3, <1>4, <1>6 DEF Shape
  <2>2. /\ b \in Nat /\ tail[l] \in Nat /\ b <= tail[l] /\ p \in Seq(Datagram) /\ Len(p) = n
        /\ \A i \in 1 .. n : p[i] = sub[l][b + i]
        /\ sub[l] \in Seq(Datagram) /\ Len(sub[l]) = tail[l]
    BY <1>1 DEF Shape
  <2>a. /\ r \in Seq(Datagram) /\ Len(r) = tail'[l] - Base(l)'
        /\ \A i \in 1 .. (tail'[l] - Base(l)') : r[i] = sub'[l][Base(l)' + i]
    BY <1>1, Zenon DEF Shape
  <2> HIDE DEF b, p, r
  <2>3. /\ r \in Seq(Datagram) /\ Len(r) = tail[l] + 1 - b
        /\ \A i \in 1 .. (tail[l] + 1 - b) : r[i] = sub'[l][b + i]
    BY <2>a, <2>b
  <2>4. /\ a \in Seq(Datagram) /\ Len(a) = n + 1 /\ a[n + 1] = cur
        /\ \A i \in 1 .. n : a[i] = p[i]
    BY <1>2, <2>2, AppendProperties
  <2>5. (\A i \in 1 .. tail[l] : sub'[l][i] = sub[l][i]) /\ sub'[l][tail[l] + 1] = cur
    <3> DEFINE c == Append(sub[l], cur)
    <3>1. (\A i \in 1 .. Len(sub[l]) : c[i] = sub[l][i]) /\ c[Len(sub[l]) + 1] = cur
      BY <1>2, <2>2, AppendProperties
    <3> HIDE DEF c
    <3>2. (\A i \in 1 .. tail[l] : c[i] = sub[l][i]) /\ c[tail[l] + 1] = cur
      BY <2>2, <3>1
    <3>3. sub'[l] = c
      BY <2>1 DEF c
    <3> QED
      BY <3>2, <3>3
  <2> HIDE DEF a
  <2>6. n \in Nat /\ Len(r) = n + 1
    <3> DEFINE t == tail[l]
               c == Len(r)
    <3>1. b \in Nat /\ t \in Nat /\ b <= t /\ c = t + 1 - b /\ n = t - b
      BY <2>2, <2>3
    <3> HIDE DEF t, c, n
    <3>2. n \in Nat /\ c = n + 1
      BY <3>1
    <3> QED
      BY <3>2 DEF c
  <2>7. ASSUME NEW i \in 1 .. (n + 1) PROVE r[i] = a[i]
    <3>1. r[i] = sub'[l][b + i]
      <4>1. n + 1 = tail[l] + 1 - b
        BY <2>b
      <4> QED
        BY <2>3, <2>7, <4>1, Zenon
    <3>2. CASE i = n + 1
      <4>1. b + i = tail[l] + 1
        BY <2>2, <3>2
      <4> QED
        BY <2>4, <2>5, <3>1, <3>2, <4>1
    <3>3. CASE i # n + 1
      <4>1. i \in 1 .. n /\ b + i \in 1 .. tail[l]
        BY <2>2, <2>6, <3>3
      <4> QED
        BY <2>2, <2>4, <2>5, <3>1, <4>1
    <3> QED
      BY <3>2, <3>3
  <2>8. r = a
    BY <2>3, <2>4, <2>6, <2>7, SeqEqual
  <2> QED
    BY <1>2, <1>3, <1>6, <2>8 DEF Enters, a, r, p
<1> QED
  BY <1>5, <1>6

(* The batch leaves: n of its packets are written, the others dropped.     *)
LEMMA BatchLeaves ==
  ASSUME IInv, IInv', NEW l \in Lanes, cons[l] \in {"flush", "write"}, cons'[l] = "release",
         UNCHANGED <<tail, sub, freeHead, readHead, seqs, cur>>,
         NEW n \in 0 .. Len(batch[l]), wire'[l] = wire[l] \o SubSeq(Writev(l), 1, n)
  PROVE  Leaves(l)
<1> DEFINE m == Len(batch[l])
           p == Pending(l)
           w == Writev(l)
<1>1. Shape /\ Shape'
  BY ShapeHolds, ShapeNext
<1>2. /\ freeHead[l] \in Nat /\ readHead[l] \in Nat /\ m = readHead[l] - freeHead[l]
      /\ m \in Nat /\ Base(l) = freeHead[l] /\ Base(l)' = readHead[l]
  BY LenProperties DEF IInv, TypeOK, BatchSlots, Base
<1>3. tail'[l] = tail[l] /\ sub'[l] = sub[l] /\ Base(l)' = Base(l) + m
  BY <1>2
<1>4. m \in 0 .. Len(p) /\ Pending(l)' = SubSeq(p, m + 1, Len(p))
  BY <1>1, <1>2, <1>3, BaseMoves
<1>5. /\ p \in Seq(Datagram) /\ Len(p) = tail[l] - freeHead[l]
      /\ \A i \in 1 .. Len(p) : p[i] = sub[l][freeHead[l] + i]
  BY <1>1, <1>2, Zenon DEF Shape
<1>6. w \in Seq(Datagram) /\ Len(w) = m
  BY WritevType
<1>7. ASSUME NEW i \in 1 .. m PROVE w[i] = p[i]
  <2>1. w[i] = slots[l][batch[l][i]]
    BY <1>7 DEF Writev
  <2>2. slots[l][batch[l][i]] = sub[l][freeHead[l] + i]
    BY <1>7, BatchHolds
  <2>3. i \in 1 .. Len(p)
    BY <1>2, <1>4, <1>7
  <2> QED
    BY <1>5, <2>1, <2>2, <2>3, Zenon
<1> HIDE DEF m, p, w
<1>8. Len(p) \in Nat /\ n \in 0 .. m /\ n \in 0 .. Len(p) /\ n <= m
  BY <1>2, <1>4, <1>5, LenProperties DEF m
<1>9. SubSeq(w, 1, n) = SubSeq(p, 1, n)
  <2> DEFINE x == SubSeq(w, 1, n)
             y == SubSeq(p, 1, n)
  <2>1. \A i \in 1 .. n : w[i] \in Datagram /\ p[i] \in Datagram /\ w[i] = p[i]
    BY <1>2, <1>4, <1>5, <1>6, <1>7, <1>8, ElementOfSeq
  <2>2. x \in Seq(Datagram) /\ Len(x) = n /\ \A i \in 1 .. n : x[i] = w[i]
    BY <1>2, <1>8, <2>1, SubSeqProperties
  <2>3. y \in Seq(Datagram) /\ Len(y) = n /\ \A i \in 1 .. n : y[i] = p[i]
    BY <1>2, <1>8, <2>1, SubSeqProperties
  <2> HIDE DEF x, y
  <2>4. x = y
    BY <2>1, <2>2, <2>3, SeqEqual
  <2> QED
    BY <2>4 DEF x, y
<1>10. wire'[l] = wire[l] \o SubSeq(p, 1, n)
  BY <1>9, Zenon DEF w
<1> QED
  BY <1>4, <1>8, <1>10 DEF Leaves, p

(* Every step leaves a lane alone, brings it a datagram, or takes its      *)
(* batch away.                                                             *)
LEMMA StepEffect ==
  ASSUME IInv, [Next]_vars, NEW l \in Lanes
  PROVE  Stays(l) \/ Enters(l) \/ Leaves(l)
<1>0. IInv' /\ Shape /\ Shape'
  BY NextIInv, ShapeHolds, ShapeNext
<1>s. ASSUME UNCHANGED <<tail[l], sub[l], wire[l]>>, Base(l)' = Base(l) PROVE Stays(l)
  BY <1>0, <1>s, BaseStays
<1> USE DEF prodVars, ringVars, consVars, stopVars
<1>t. cons \in [Lanes -> ConsStates] /\ wire \in [Lanes -> Seq(Datagram)]
  BY DEF IInv, TypeOK
<1>1. ASSUME UNCHANGED <<tail, freeHead, readHead, cons, sub, wire>> PROVE Stays(l)
  BY <1>s, <1>1 DEF Base
<1>2. CASE ProdLoop \/ ReadErr \/ Acquire \/ Room \/ Fill \/ Submit
  BY <1>1, <1>2 DEF ProdLoop, ReadErr, Acquire, Room, Fill, Submit
<1>3. ASSUME NEW s \in Sessions, NEW n \in Lens, Read(s, n) PROVE Stays(l)
  BY <1>1, <1>3 DEF Read, NextPacket
<1>4. CASE Stop \/ UNCHANGED vars
  BY <1>1, <1>4 DEF Stop, StopCancel, StopRing, StopLane, StopListener, vars
<1>5. CASE Publish
  BY <1>0, <1>5, PublishEnters
<1>6. ASSUME NEW k \in Lanes,
             Pop(k) \/ More(k) \/ PopClosed(k) \/ Delay(k) \/ Timer(k) \/ TimerCancelled(k)
      PROVE  Stays(l)
  <2>1. /\ UNCHANGED <<tail, sub, wire, freeHead>> /\ cons[k] # "release"
        /\ \A j \in Lanes : cons'[j] = "release" <=> cons[j] = "release"
    BY <1>6, <1>t DEF Pop, More, PopClosed, Delay, Timer, TimerCancelled, Goto
  <2>2. l # k => readHead'[l] = readHead[l]
    BY <1>6 DEF Pop, More, PopClosed, Delay, Timer, TimerCancelled, Take, IInv, TypeOK
  <2> QED
    BY <1>s, <2>1, <2>2 DEF Base
<1>7. ASSUME NEW k \in Lanes, WriteLock(k) \/ WriteEnds(k) PROVE Stays(l) \/ Leaves(l)
  <2>1. UNCHANGED <<tail, sub, freeHead, readHead, seqs, cur>>
    BY <1>7 DEF WriteLock, WriteEnds, WriteOk, WriteErr
  <2>2. CASE l # k
    <3>1. cons'[l] = cons[l] /\ wire'[l] = wire[l]
      BY <1>7, <1>t, <2>2 DEF WriteLock, WriteEnds, WriteOk, WriteErr, Goto
    <3> QED
      BY <1>s, <2>1, <3>1 DEF Base
  <2>3. CASE l = k /\ cons'[l] # "release"
    <3>1. cons[l] # "release" /\ wire'[l] = wire[l]
      BY <1>7, <1>t, <2>3 DEF WriteLock, WriteEnds, WriteOk, WriteErr, Goto
    <3> QED
      BY <1>s, <2>1, <2>3, <3>1 DEF Base
  <2>4. CASE l = k /\ cons'[l] = "release"
    <3>1. cons[l] \in {"flush", "write"}
      BY <1>7, <2>4 DEF WriteLock, WriteEnds, WriteOk, WriteErr
    <3>2. wire[l] \in Seq(Datagram) /\ Writev(l) \in Seq(Datagram)
          /\ Len(Writev(l)) = Len(batch[l]) /\ Len(batch[l]) \in Nat
      BY <1>t, WritevType, LenProperties
    <3>3. \E n \in 0 .. Len(batch[l]) : wire'[l] = wire[l] \o SubSeq(Writev(l), 1, n)
      <4>1. CASE WriteLock(k)
        <5>1. SubSeq(Writev(l), 1, 0) = <<>>
          BY SubSeqEmpty
        <5>2. wire[l] \o <<>> = wire[l]
          BY <3>2, ConcatEmptySeq
        <5>3. wire'[l] = wire[l] \o SubSeq(Writev(l), 1, 0)
          <6>1. wire' = wire
            BY <4>1 DEF WriteLock
          <6> QED
            BY <6>1, <5>1, <5>2, Zenon
        <5>4. 0 \in 0 .. Len(batch[l])
          BY <3>2
        <5> QED
          BY <5>3, <5>4, Zenon
      <4>2. CASE WriteOk(k)
        <5>1. SubSeq(Writev(l), 1, Len(batch[l])) = Writev(l)
          <6>1. SubSeq(Writev(l), 1, Len(Writev(l))) = Writev(l)
            BY <3>2, SubSeqFull
          <6> QED
            BY <3>2, <6>1, Zenon
        <5>2. wire'[l] = wire[l] \o Writev(l)
          BY <1>t, <2>4, <4>2 DEF WriteOk
        <5>3. wire'[l] = wire[l] \o SubSeq(Writev(l), 1, Len(batch[l]))
          BY <5>1, <5>2, Zenon
        <5>4. Len(batch[l]) \in 0 .. Len(batch[l])
          BY <3>2
        <5> QED
          BY <5>3, <5>4, Zenon
      <4>3. ASSUME NEW n \in 0 .. MaxPackets, WriteErr(k, n)
            PROVE  \E j \in 0 .. Len(batch[l]) : wire'[l] = wire[l] \o SubSeq(Writev(l), 1, j)
        <5>1. n \in 0 .. Len(batch[l])
          BY <2>4, <3>2, <4>3, BatchAssumption DEF WriteErr
        <5>2. wire'[l] = wire[l] \o SubSeq(Writev(l), 1, n)
          BY <1>t, <2>4, <4>3 DEF WriteErr
        <5> QED
          BY <5>1, <5>2
      <4> QED
        BY <1>7, <4>1, <4>2, <4>3 DEF WriteEnds
    <3> QED
      BY <1>0, <2>1, <2>4, <3>1, <3>3, BatchLeaves
  <2> QED
    BY <2>2, <2>3, <2>4
<1>8. ASSUME NEW k \in Lanes, Release(k) PROVE Stays(l)
  <2>1. UNCHANGED <<tail, sub, wire, readHead>> /\ cons[k] = "release"
    BY <1>8 DEF Release
  <2>2. CASE l # k
    <3>1. cons'[l] = cons[l] /\ freeHead'[l] = freeHead[l]
      BY <1>8, <1>t, <2>2 DEF Release, Goto, IInv, TypeOK
    <3> QED
      BY <1>s, <2>1, <3>1 DEF Base
  <2>3. CASE l = k /\ batch[k] # <<>>
    BY <1>8, <1>s, <2>1, <2>3 DEF Release, Base
  <2>4. CASE l = k /\ batch[k] = <<>>
    <3>1. cons'[l] # "release" /\ freeHead' = freeHead
      BY <1>8, <1>t, <2>4 DEF Release, Goto
    <3>2. Len(batch[l]) = 0 /\ Len(batch[l]) = readHead[l] - freeHead[l]
      BY <2>4 DEF IInv, BatchSlots
    <3>3. freeHead[l] = readHead[l]
      <4>1. freeHead[l] \in Nat /\ readHead[l] \in Nat
        BY DEF IInv, TypeOK
      <4> QED
        BY <3>2, <4>1
    <3>4. Base(l)' = Base(l)
      BY <2>1, <2>4, <3>1, <3>3 DEF Base
    <3> QED
      BY <1>s, <2>1, <3>4
  <2> QED
    BY <2>2, <2>3, <2>4
<1> QED
  BY <1>2, <1>3, <1>4, <1>5, <1>6, <1>7, <1>8 DEF Next, Producer, Batching

(* A step of the client is, for every lane, a step of LossyFifo, or none.  *)
LEMMA StepRefines ==
  ASSUME IInv, [Next]_vars, NEW l \in Lanes
  PROVE  [Fifo(l)!Next]_(Fifo(l)!vars)
<1>1. Pending(l) \in Seq(Datagram)
  BY ShapeHolds DEF Shape
<1>2. CASE Stays(l)
  BY <1>2 DEF Stays, Fifo!vars
<1>3. CASE Enters(l)
  <2> DEFINE p == Pending(l)
             a == Append(p, cur)
  <2>1. cur \in Datagram /\ Pending(l)' = a /\ wire'[l] = wire[l]
    BY <1>3 DEF Enters
  <2>2. /\ a \in Seq(Datagram) /\ Len(a) = Len(p) + 1 /\ a[Len(p) + 1] = cur
        /\ \A i \in 1 .. Len(p) : a[i] = p[i]
    BY <1>1, <2>1, AppendProperties
  <2>3. SubSeq(a, 1, Len(p)) = p
    <3> DEFINE s == SubSeq(a, 1, Len(p))
    <3>1. Len(p) \in Nat /\ \A i \in 1 .. Len(p) : a[i] \in Datagram
      BY <1>1, <2>2, ElementOfSeq, LenProperties
    <3> HIDE DEF a
    <3>2. s \in Seq(Datagram) /\ Len(s) = Len(p) /\ \A i \in 1 .. Len(p) : s[i] = a[i]
      BY <3>1, SubSeqProperties
    <3> HIDE DEF s, p
    <3>3. s = p
      BY <1>1, <2>2, <3>2, SeqEqual DEF p
    <3> QED
      BY <3>3 DEF s
  <2>4. Len(a) = Len(p) + 1 /\ a[Len(a)] \in Datagram
    BY <2>1, <2>2
  <2> HIDE DEF a
  <2>5. Fifo(l)!Accept
    BY <2>1, <2>3, <2>4, Zenon DEF Fifo!Accept
  <2> QED
    BY <2>5 DEF Fifo!Next
<1>4. CASE Leaves(l)
  <2>1. PICK n, m \in 0 .. Len(Pending(l)) :
          /\ n <= m /\ wire'[l] = wire[l] \o SubSeq(Pending(l), 1, n)
          /\ Pending(l)' = SubSeq(Pending(l), m + 1, Len(Pending(l)))
    BY <1>4 DEF Leaves
  <2>2. Fifo(l)!Deliver(n, m)
    BY <2>1, Zenon DEF Fifo!Deliver
  <2> QED
    BY <2>2, Zenon DEF Fifo!Next
<1> QED
  BY <1>2, <1>3, <1>4, StepEffect

(* Every lane implements LossyFifo: what handleUpstreamWrites puts on the  *)
(* lane's connections is what sendToUpstream submitted to its ring, in     *)
(* that order and nothing twice, although slots are reused and batches     *)
(* dropped or written in part.                                             *)
THEOREM Refines == Spec => FifoLane
<1>1. Init => \A l \in Lanes : Fifo(l)!Init
  <2> SUFFICES ASSUME Init, NEW l \in Lanes PROVE Fifo(l)!Init
    OBVIOUS
  <2>1. Shape /\ tail[l] = 0 /\ Base(l) = 0
    BY InitIInv, ShapeHolds DEF Init, Base
  <2>2. Pending(l) \in Seq(Datagram) /\ Len(Pending(l)) = 0
    BY <2>1 DEF Shape
  <2>3. Pending(l) = <<>>
    BY <2>2
  <2> QED
    BY <2>3 DEF Init, Fifo!Init
<1>2. IInv /\ [Next]_vars => [\A l \in Lanes : [Fifo(l)!Next]_(Fifo(l)!vars)]_vars
  BY StepRefines
<1> QED
  BY <1>1, <1>2, Invariance, PTL DEF Spec, FifoLane
-----------------------------------------------------------------------------
(* The order of a session's datagrams.                                     *)

(* d was numbered before e, if they are of one session.                    *)
Before(d, e) == d.sid = e.sid => d.seq < e.seq

(* What is written (w), and then what is pending (p), is in order.         *)
Sorted(w, p) ==
  /\ \A i, j \in 1 .. Len(w) : i < j => Before(w[i], w[j])
  /\ \A i, j \in 1 .. Len(p) : i < j => Before(p[i], p[j])
  /\ \A i \in 1 .. Len(w), j \in 1 .. Len(p) : Before(w[i], p[j])

(* d is on its lane l, and got its number before the datagram c that the   *)
(* producer has, from the counters q.                                      *)
Known(d, l, q, c) ==
  /\ LaneOf(d) = l /\ d.seq <= q[d.sid]
  /\ c # NoDatagram => Before(d, c)

AllKnown(w, p, l, q, c) ==
  /\ \A i \in 1 .. Len(w) : Known(w[i], l, q, c)
  /\ \A i \in 1 .. Len(p) : Known(p[i], l, q, c)

OInv ==
  /\ \A l \in Lanes :
       Sorted(wire[l], Pending(l)) /\ AllKnown(wire[l], Pending(l), l, seqs, cur)
  /\ cur # NoDatagram => cur.seq <= seqs[cur.sid]

(* A delivery: n of the pending items are written, m of them are gone.     *)
Moved(w, p, n, m, v, r) ==
  n <= m /\ v = w \o SubSeq(p, 1, n) /\ r = SubSeq(p, m + 1, Len(p))

(* Where the items are after a delivery.                                   *)
Items(w, p, n, m, v, r) ==
  /\ Len(w) \in Nat /\ Len(p) \in Nat
  /\ Len(v) = Len(w) + n /\ Len(r) = Len(p) - m
  /\ \A i \in 1 .. Len(w) : v[i] = w[i]
  /\ \A i \in (Len(w) + 1) .. (Len(w) + n) : v[i] = p[i - Len(w)]
  /\ \A i \in 1 .. (Len(p) - m) : r[i] = p[m + i]

LEMMA ItemsMoved ==
  ASSUME NEW S, NEW w \in Seq(S), NEW p \in Seq(S),
         NEW n \in 0 .. Len(p), NEW m \in 0 .. Len(p),
         NEW v, NEW r, Moved(w, p, n, m, v, r)
  PROVE  Items(w, p, n, m, v, r)
<1>0. v = w \o SubSeq(p, 1, n) /\ r = SubSeq(p, m + 1, Len(p))
  BY DEF Moved
<1>1. Len(w) \in Nat /\ Len(p) \in Nat /\ n \in Nat /\ m \in Nat /\ n <= Len(p) /\ m <= Len(p)
  BY LenProperties
<1> DEFINE x == SubSeq(p, 1, n)
<1>2. x \in Seq(S) /\ Len(x) = n /\ \A i \in 1 .. n : x[i] = p[i]
  <2>1. \A i \in 1 .. n : p[i] \in S
    BY <1>1, ElementOfSeq
  <2> QED
    BY <1>1, <2>1, SubSeqProperties
<1>3. v = w \o x
  BY <1>0, Zenon
<1> HIDE DEF x
<1>4. /\ Len(v) = Len(w) + n
      /\ \A i \in 1 .. (Len(w) + n) : v[i] = IF i <= Len(w) THEN w[i] ELSE x[i - Len(w)]
  BY <1>1, <1>2, <1>3, ConcatProperties
<1>5. \A i \in 1 .. Len(w) : v[i] = w[i]
  BY <1>1, <1>4
<1>6. \A i \in (Len(w) + 1) .. (Len(w) + n) : v[i] = p[i - Len(w)]
  BY <1>1, <1>2, <1>4
<1>7. Len(r) = Len(p) - m /\ \A i \in 1 .. (Len(p) - m) : r[i] = p[m + i]
  <2>1. \A i \in (m + 1) .. Len(p) : p[i] \in S
    BY <1>1, ElementOfSeq
  <2>2. /\ Len(r) = IF m + 1 <= Len(p) THEN Len(p) - (m + 1) + 1 ELSE 0
        /\ \A i \in 1 .. (Len(p) - (m + 1) + 1) : r[i] = p[(m + 1) + i - 1]
    BY <1>0, <1>1, <2>1, SubSeqProperties
  <2>3. Len(p) - (m + 1) + 1 = Len(p) - m
    BY <1>1
  <2>4. ASSUME NEW i \in 1 .. (Len(p) - m) PROVE r[i] = p[m + i]
    <3>1. (m + 1) + i - 1 = m + i
      BY <1>1
    <3> QED
      BY <2>2, <2>3, <3>1, Zenon
  <2>5. Len(r) = Len(p) - m
    BY <1>1, <2>2
  <2> QED
    BY <2>4, <2>5
<1> QED
  BY <1>1, <1>4, <1>5, <1>6, <1>7, Zenon DEF Items

(* Order and numbers survive a delivery, ...                               *)
LEMMA SortedMoved ==
  ASSUME NEW S, NEW w \in Seq(S), NEW p \in Seq(S),
         NEW n \in 0 .. Len(p), NEW m \in 0 .. Len(p),
         NEW v, NEW r, Moved(w, p, n, m, v, r),
         Sorted(w, p)
  PROVE  Sorted(v, r)
<1>1. /\ Len(w) \in Nat /\ Len(p) \in Nat
      /\ Len(v) = Len(w) + n /\ Len(r) = Len(p) - m
      /\ \A i \in 1 .. Len(w) : v[i] = w[i]
      /\ \A i \in (Len(w) + 1) .. (Len(w) + n) : v[i] = p[i - Len(w)]
      /\ \A i \in 1 .. (Len(p) - m) : r[i] = p[m + i]
  <2>1. Items(w, p, n, m, v, r)
    BY ItemsMoved
  <2> QED
    BY <2>1, Zenon DEF Items
<1>2. /\ \A i, j \in 1 .. Len(w) : i < j => Before(w[i], w[j])
      /\ \A i, j \in 1 .. Len(p) : i < j => Before(p[i], p[j])
      /\ \A i \in 1 .. Len(w), j \in 1 .. Len(p) : Before(w[i], p[j])
  BY DEF Sorted
<1> DEFINE a == Len(w)
           b == Len(p)
<1> HIDE DEF a, b
<1>3. ASSUME NEW i \in 1 .. (a + n)
      PROVE  \/ i \in 1 .. a /\ v[i] = w[i]
             \/ i > a /\ i - a \in 1 .. n /\ v[i] = p[i - a]
  BY <1>1, <1>3 DEF a
<1>4. ASSUME NEW i \in 1 .. (a + n), NEW j \in 1 .. (a + n), i < j
      PROVE  Before(v[i], v[j])
  <2>1. a \in Nat /\ n \in Nat /\ n <= b /\ b \in Nat
    BY <1>1 DEF a, b
  <2>2. CASE j \in 1 .. a
    <3>1. i \in 1 .. a
      BY <1>4, <2>1, <2>2
    <3> QED
      BY <1>1, <1>2, <1>4, <2>2, <3>1 DEF a
  <2>3. CASE j > a /\ j - a \in 1 .. n /\ v[j] = p[j - a]
    <3>1. j - a \in 1 .. b
      BY <2>1, <2>3
    <3>2. CASE i \in 1 .. a /\ v[i] = w[i]
      BY <1>2, <2>3, <3>1, <3>2 DEF a, b
    <3>3. CASE i > a /\ i - a \in 1 .. n /\ v[i] = p[i - a]
      <4>1. i - a \in 1 .. b /\ i - a < j - a
        BY <1>4, <2>1, <3>3
      <4> QED
        BY <1>2, <2>3, <3>1, <3>3, <4>1 DEF b
    <3> QED
      BY <1>3, <1>4, <3>2, <3>3
  <2> QED
    BY <1>3, <1>4, <2>2, <2>3
<1>5. ASSUME NEW i \in 1 .. Len(r), NEW j \in 1 .. Len(r), i < j PROVE Before(r[i], r[j])
  <2>1. m + i \in 1 .. Len(p) /\ m + j \in 1 .. Len(p) /\ m + i < m + j
        /\ i \in 1 .. (Len(p) - m) /\ j \in 1 .. (Len(p) - m)
    BY <1>1, <1>5
  <2>2. r[i] = p[m + i] /\ r[j] = p[m + j]
    BY <1>1, <2>1
  <2> QED
    BY <1>2, <2>1, <2>2
<1>6. ASSUME NEW i \in 1 .. (a + n), NEW j \in 1 .. Len(r) PROVE Before(v[i], r[j])
  <2>1. m + j \in 1 .. Len(p) /\ j \in 1 .. (Len(p) - m)
    BY <1>1, <1>6
  <2>2. r[j] = p[m + j]
    BY <1>1, <2>1
  <2>3. CASE i \in 1 .. a /\ v[i] = w[i]
    BY <1>2, <2>1, <2>2, <2>3 DEF a
  <2>4. CASE i > a /\ i - a \in 1 .. n /\ v[i] = p[i - a]
    <3>1. i - a \in 1 .. Len(p) /\ i - a < m + j
      <4>0. n <= m
        BY DEF Moved
      <4>1. a \in Nat /\ n \in Nat /\ m \in Nat /\ n <= m /\ n <= Len(p) /\ Len(p) \in Nat
        BY <1>1, <4>0 DEF a
      <4> QED
        BY <1>6, <2>1, <2>4, <4>1
    <3> QED
      BY <1>2, <2>1, <2>2, <2>4, <3>1
  <2> QED
    BY <1>3, <1>6, <2>3, <2>4
<1> QED
  BY <1>1, <1>4, <1>5, <1>6 DEF Sorted, a

LEMMA KnownMoved ==
  ASSUME NEW S, NEW w \in Seq(S), NEW p \in Seq(S),
         NEW n \in 0 .. Len(p), NEW m \in 0 .. Len(p),
         NEW v, NEW r, Moved(w, p, n, m, v, r),
         NEW l, NEW q, NEW c, AllKnown(w, p, l, q, c)
  PROVE  AllKnown(v, r, l, q, c)
<1>1. /\ Len(w) \in Nat /\ Len(p) \in Nat
      /\ Len(v) = Len(w) + n /\ Len(r) = Len(p) - m
      /\ \A i \in 1 .. Len(w) : v[i] = w[i]
      /\ \A i \in (Len(w) + 1) .. (Len(w) + n) : v[i] = p[i - Len(w)]
      /\ \A i \in 1 .. (Len(p) - m) : r[i] = p[m + i]
  <2>1. Items(w, p, n, m, v, r)
    BY ItemsMoved
  <2> QED
    BY <2>1, Zenon DEF Items
<1>2. /\ \A i \in 1 .. Len(w) : Known(w[i], l, q, c)
      /\ \A i \in 1 .. Len(p) : Known(p[i], l, q, c)
  BY DEF AllKnown
<1>3. ASSUME NEW i \in 1 .. Len(v) PROVE Known(v[i], l, q, c)
  <2>1. CASE i <= Len(w)
    BY <1>1, <1>2, <2>1
  <2>2. CASE i > Len(w)
    <3>1. i \in (Len(w) + 1) .. (Len(w) + n) /\ i - Len(w) \in 1 .. Len(p)
      BY <1>1, <1>3, <2>2
    <3> QED
      BY <1>1, <1>2, <3>1
  <2> QED
    BY <1>1, <2>1, <2>2
<1>4. ASSUME NEW i \in 1 .. Len(r) PROVE Known(r[i], l, q, c)
  <2>1. i \in 1 .. (Len(p) - m) /\ m + i \in 1 .. Len(p)
    BY <1>1, <1>4
  <2> QED
    BY <1>1, <1>2, <2>1
<1> QED
  BY <1>3, <1>4 DEF AllKnown

(* ... and the arrival of a datagram that comes after all the others.      *)
LEMMA SortedAppended ==
  ASSUME NEW S, NEW w \in Seq(S), NEW p \in Seq(S), NEW e \in S,
         Sorted(w, p), \A i \in 1 .. Len(w) : Before(w[i], e),
         \A i \in 1 .. Len(p) : Before(p[i], e)
  PROVE  Sorted(w, Append(p, e))
<1> DEFINE a == Append(p, e)
<1>1. Len(p) \in Nat /\ Len(w) \in Nat
  BY LenProperties
<1>2. Len(a) = Len(p) + 1 /\ a[Len(p) + 1] = e /\ \A i \in 1 .. Len(p) : a[i] = p[i]
  BY AppendProperties
<1> HIDE DEF a
<1>3. ASSUME NEW i \in 1 .. Len(a), NEW j \in 1 .. Len(a), i < j PROVE Before(a[i], a[j])
  <2>1. i \in 1 .. Len(p) /\ a[i] = p[i]
    BY <1>1, <1>2, <1>3
  <2>2. CASE j = Len(p) + 1
    BY <1>2, <2>1, <2>2
  <2>3. CASE j \in 1 .. Len(p)
    BY <1>2, <1>3, <2>1, <2>3 DEF Sorted
  <2> QED
    BY <1>1, <1>2, <2>2, <2>3
<1>4. ASSUME NEW i \in 1 .. Len(w), NEW j \in 1 .. Len(a) PROVE Before(w[i], a[j])
  <2>1. CASE j = Len(p) + 1
    BY <1>2, <2>1
  <2>2. CASE j \in 1 .. Len(p)
    BY <1>2, <2>2 DEF Sorted
  <2> QED
    BY <1>1, <1>2, <2>1, <2>2
<1> QED
  BY <1>3, <1>4 DEF Sorted, a

(* The producer keeps its datagram, lets go of it, or numbers a new one.   *)
LEMMA CurStep ==
  ASSUME [Next]_vars
  PROVE  \/ seqs' = seqs /\ cur' \in {cur, NoDatagram}
         \/ /\ prod = "read"
            /\ \E s \in Sessions, n \in Lens :
                 /\ cur' = [sid |-> s, seq |-> seqs[s] + 1, len |-> n]
                 /\ seqs' = [seqs EXCEPT ![s] = @ + 1]
<1> USE DEF prodVars, ringVars, consVars, stopVars
<1>1. CASE Producer
  BY <1>1 DEF Producer, ProdLoop, ReadErr, Acquire, Room, Fill, Submit, Publish
<1>2. CASE \E s \in Sessions, n \in Lens : Read(s, n)
  BY <1>2 DEF Read, NextPacket
<1>3. ASSUME NEW l \in Lanes, Batching(l) \/ WriteEnds(l) PROVE seqs' = seqs /\ cur' = cur
  <2>1. CASE Batching(l)
    BY <2>1 DEF Batching, Pop, PopClosed, Delay, Timer, TimerCancelled, More, WriteLock, Release
  <2>2. CASE WriteEnds(l)
    BY <2>2 DEF WriteEnds, WriteOk, WriteErr
  <2> QED
    BY <1>3, <2>1, <2>2
<1>4. CASE Stop \/ UNCHANGED vars
  BY <1>4 DEF Stop, StopCancel, StopRing, StopLane, StopListener, vars
<1> QED
  BY <1>1, <1>2, <1>3, <1>4 DEF Next

(* What got its number before stays before.                                *)
LEMMA KnownStep ==
  ASSUME IInv, [Next]_vars, NEW d \in Datagram, NEW l, Known(d, l, seqs, cur)
  PROVE  Known(d, l, seqs', cur')
<1>1. seqs \in [Sessions -> Nat] /\ d.sid \in Sessions /\ d.seq \in Nat
  BY DEF IInv, TypeOK, Datagram
<1>2. LaneOf(d) = l /\ d.seq <= seqs[d.sid] /\ (cur # NoDatagram => Before(d, cur))
  BY DEF Known
<1>3. CASE seqs' = seqs /\ cur' \in {cur, NoDatagram}
  BY <1>2, <1>3 DEF Known
<1>4. ASSUME NEW s \in Sessions, NEW n \in Lens,
             cur' = [sid |-> s, seq |-> seqs[s] + 1, len |-> n],
             seqs' = [seqs EXCEPT ![s] = @ + 1]
      PROVE  Known(d, l, seqs', cur')
  <2>1. cur'.sid = s /\ cur'.seq = seqs[s] + 1 /\ seqs[s] \in Nat /\ seqs[d.sid] \in Nat
    BY <1>1, <1>4
  <2>2. Before(d, cur')
    BY <1>1, <1>2, <2>1 DEF Before
  <2>3. d.seq <= seqs'[d.sid]
    BY <1>1, <1>2, <1>4
  <2> QED
    BY <1>2, <2>2, <2>3 DEF Known
<1> QED
  BY <1>3, <1>4, CurStep

(* The counter of a session is never behind the datagram that is being     *)
(* sent.                                                                   *)
LEMMA CurNumbered ==
  ASSUME IInv, [Next]_vars, cur # NoDatagram => cur.seq <= seqs[cur.sid]
  PROVE  (cur # NoDatagram => cur.seq <= seqs[cur.sid])'
<1>1. CASE seqs' = seqs /\ cur' \in {cur, NoDatagram}
  BY <1>1
<1>2. ASSUME NEW s \in Sessions, NEW n \in Lens,
             cur' = [sid |-> s, seq |-> seqs[s] + 1, len |-> n],
             seqs' = [seqs EXCEPT ![s] = @ + 1]
      PROVE  cur'.seq <= seqs'[cur'.sid]
  BY <1>2 DEF IInv, TypeOK
<1> QED
  BY <1>1, <1>2, CurStep

LEMMA InitOInv == Init => OInv
<1> SUFFICES ASSUME Init PROVE OInv
  OBVIOUS
<1>1. cur = NoDatagram
  BY DEF Init
<1>2. ASSUME NEW l \in Lanes
      PROVE  Sorted(wire[l], Pending(l)) /\ AllKnown(wire[l], Pending(l), l, seqs, cur)
  <2>1. Shape /\ tail[l] = 0 /\ Base(l) = 0 /\ wire[l] = <<>>
    BY InitIInv, ShapeHolds DEF Init, Base
  <2>2. Len(Pending(l)) = 0 /\ Len(wire[l]) = 0
    BY <2>1 DEF Shape
  <2> QED
    BY <2>2 DEF Sorted, AllKnown
<1> QED
  BY <1>1, <1>2 DEF OInv

(* Every step keeps what is on a lane in the order of its numbers: only    *)
(* the newest datagram enters, and a batch leaves from the front.          *)
LEMMA NextOInv == ASSUME IInv, OInv, [Next]_vars PROVE OInv'
<1>1. IInv' /\ Shape /\ Shape'
  BY NextIInv, ShapeHolds, ShapeNext
<1>2. (cur # NoDatagram => cur.seq <= seqs[cur.sid])'
  BY CurNumbered DEF OInv
<1>3. ASSUME NEW l \in Lanes
      PROVE  Sorted(wire[l], Pending(l))' /\ AllKnown(wire'[l], Pending(l)', l, seqs', cur')
  <2> DEFINE w == wire[l]
             p == Pending(l)
             v == wire'[l]
             r == Pending(l)'
  <2>1. w \in Seq(Datagram) /\ p \in Seq(Datagram)
    BY <1>1 DEF IInv, TypeOK, Shape
  <2>2. v \in Seq(Datagram) /\ r \in Seq(Datagram)
    <3>1. r \in Seq(Datagram)
      BY <1>1, Zenon DEF Shape
    <3> QED
      BY <1>1, <3>1 DEF IInv, TypeOK
  <2>3. Sorted(w, p) /\ AllKnown(w, p, l, seqs, cur)
    BY DEF OInv
  <2> SUFFICES Sorted(v, r) /\ AllKnown(v, r, l, seqs', cur')
    BY DEF Sorted, Before
  <2> HIDE DEF w, p, v, r
  <2>4. ASSUME NEW d \in Datagram, Known(d, l, seqs, cur) PROVE Known(d, l, seqs', cur')
    BY <2>4, KnownStep
  <2>5. /\ \A i \in 1 .. Len(w) : w[i] \in Datagram /\ Known(w[i], l, seqs', cur')
        /\ \A i \in 1 .. Len(p) : p[i] \in Datagram /\ Known(p[i], l, seqs', cur')
    BY <2>1, <2>3, <2>4, ElementOfSeq DEF AllKnown
  <2>6. AllKnown(w, p, l, seqs', cur')
    BY <2>5 DEF AllKnown
  <2>7. CASE Stays(l)
    BY <2>3, <2>6, <2>7 DEF Stays, w, p, v, r
  <2>8. CASE Leaves(l)
    <3>1. PICK n, m \in 0 .. Len(p) : Moved(w, p, n, m, v, r)
      BY <2>8, Zenon DEF Leaves, Moved, w, p, v, r
    <3>2. Sorted(v, r)
      BY <2>1, <2>3, <3>1, SortedMoved
    <3>3. AllKnown(v, r, l, seqs', cur')
      BY <2>1, <2>6, <3>1, KnownMoved
    <3> QED
      BY <3>2, <3>3
  <2>9. CASE Enters(l)
    <3>1. cur \in Datagram /\ LaneOf(cur) = l /\ v = w /\ r = Append(p, cur)
      BY <2>9 DEF Enters, w, p, v, r
    <3>2. cur # NoDatagram /\ cur' = NoDatagram /\ seqs' = seqs
      <4>1. prod = "publish" /\ prod' = "loop"
        BY <2>9 DEF Enters
      <4>2. cur # NoDatagram
        BY <3>1, DataAssumption DEF Datagram
      <4>3. cur' = NoDatagram
        BY <1>1, <4>1 DEF IInv, TypeOK
      <4>4. seqs' = seqs
        BY <4>1, CurStep
      <4> QED
        BY <4>2, <4>3, <4>4
    <3>3. /\ \A i \in 1 .. Len(w) : Before(w[i], cur)
          /\ \A i \in 1 .. Len(p) : Before(p[i], cur)
      BY <2>3, <3>2 DEF AllKnown, Known
    <3>4. Sorted(w, Append(p, cur))
      BY <2>1, <2>3, <3>1, <3>3, SortedAppended
    <3>5. Known(cur, l, seqs', cur')
      BY <3>1, <3>2 DEF OInv, Known
    <3>6. /\ Len(r) = Len(p) + 1 /\ r[Len(p) + 1] = cur /\ \A i \in 1 .. Len(p) : r[i] = p[i]
          /\ Len(p) \in Nat
      BY <2>1, <3>1, AppendProperties, LenProperties
    <3>7. ASSUME NEW i \in 1 .. Len(r) PROVE Known(r[i], l, seqs', cur')
      <4>1. CASE i = Len(p) + 1
        BY <3>5, <3>6, <4>1
      <4>2. CASE i \in 1 .. Len(p)
        BY <2>5, <3>6, <4>2
      <4> QED
        BY <3>6, <4>1, <4>2
    <3>8. AllKnown(w, r, l, seqs', cur')
      BY <2>5, <3>7 DEF AllKnown
    <3> QED
      BY <3>1, <3>4, <3>8, Zenon
  <2> QED
    BY <2>7, <2>8, <2>9, StepEffect
<1>4. \A l \in Lanes :
        Sorted(wire[l], Pending(l))' /\ AllKnown(wire[l], Pending(l), l, seqs, cur)'
  BY <1>3 DEF AllKnown, Known, Before, LaneOf
<1> QED
  BY <1>2, <1>4 DEF OInv

LEMMA OrderedImplies == ASSUME IInv, OInv PROVE SessionOrder
<1> SUFFICES ASSUME ~Stripe, NEW l \in Lanes, NEW m \in Lanes,
                    NEW i \in 1 .. Len(wire[l]), NEW j \in 1 .. Len(wire[m]),
                    wire[l][i].sid = wire[m][j].sid, wire[l][i].seq <= wire[m][j].seq
             PROVE  l = m /\ i <= j
  BY DEF SessionOrder
<1>1. wire[l] \in Seq(Datagram) /\ wire[m] \in Seq(Datagram)
  BY DEF IInv, TypeOK
<1>2. wire[l][i] \in Datagram /\ wire[m][j] \in Datagram
  BY <1>1, ElementOfSeq
<1>3. LaneOf(wire[l][i]) = l /\ LaneOf(wire[m][j]) = m
  BY DEF OInv, AllKnown, Known
<1>4. l = m
  BY <1>3 DEF LaneOf
<1>5. i \in Nat /\ j \in Nat
  BY <1>1, LenProperties
<1>6. ASSUME j < i PROVE FALSE
  <2>1. Before(wire[l][j], wire[l][i])
    BY <1>4, <1>6 DEF OInv, Sorted
  <2> QED
    BY <1>2, <1>4, <2>1 DEF Before, Datagram
<1> QED
  BY <1>4, <1>5, <1>6

(* Without striping, for any number of lanes and sessions and any ring and *)
(* batch sizes, handleUpstreamWrites puts the datagrams of a session on    *)
(* one lane only, in the order in which handleUDP numbered them, although  *)
(* slots are reused and batches dropped or written in part.                *)
THEOREM SessionSafe == Spec => []SessionOrder
<1>1. Init => OInv
  BY InitOInv
<1>2. IInv /\ OInv /\ [Next]_vars => OInv'
  BY NextOInv
<1>3. IInv /\ OInv => SessionOrder
  BY OrderedImplies
<1> QED
  BY <1>1, <1>2, <1>3, Invariance, PTL DEF Spec
=============================================================================
