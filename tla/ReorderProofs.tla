--------------------------- MODULE ReorderProofs ---------------------------
(***************************************************************************)
(* While the sequence numbers of a session do not wrap, the backend gets   *)
(* its packets in the order of sending and none twice, for any number of   *)
(* lanes, any window and any losses.                                       *)
(***************************************************************************)
EXTENDS Reorder, SequenceTheorems, FiniteSetTheorems, TLAPS

(* Everything written lies behind what is expected, everything held ahead  *)
(* of it; numbers and sequence numbers agree, since no number exceeds      *)
(* Last.                                                                   *)
InFlight == \A l \in Lanes : \A i \in 1 .. Len(lane[l]) : lane[l][i] <= Last

Behind == \A i \in 1 .. Len(written) : written[i] < expected

AheadOf == \A n \in pending : expected < n /\ n <= Last

Fresh == ~initialized => written = <<>> /\ pending = {}

IInv == TypeOK /\ InFlight /\ Behind /\ AheadOf /\ Fresh /\ expected <= Last + 1 /\ InOrder

(* A number below the modulus is its own sequence number.                  *)
LEMMA SeqnoId ==
  ASSUME NEW n \in Nat, n < Modulus PROVE Seqno(n) = n
BY SeqAssumption DEF Seqno

(* A new state has its types.                                              *)
LEMMA TypeInit == Init => TypeOK
<1> SUFFICES ASSUME Init PROVE TypeOK
  OBVIOUS
<1>1. <<>> \in Seq(Nat)
  BY EmptySeq
<1>2. lane \in [Lanes -> Seq(Nat)] /\ written \in Seq(Nat)
  BY <1>1, Zenon DEF Init
<1>3. next \in Nat /\ initialized \in BOOLEAN /\ expected \in Nat /\ pending \subseteq Nat
  BY SeqAssumption DEF Init
<1>4. ~initialized => expected = 0 /\ pending = {} /\ written = <<>>
  BY DEF Init
<1> QED
  BY <1>2, <1>3, <1>4 DEF TypeOK

(* A drain writes a run of consecutive numbers, all at or above e and all  *)
(* taken from P, and leaves in P only numbers above the new expected.      *)
LEMMA DrainInOrder ==
  ASSUME NEW w \in Seq(Nat), NEW P \in SUBSET Nat, NEW e \in Nat,
         Last + 1 < Modulus, e <= Last + 1,
         \A n \in P : e <= n /\ n <= Last,
         \A i \in 1 .. Len(w) : w[i] < e,
         \A i, j \in 1 .. Len(w) : i < j => w[i] < w[j],
         Drain(w, P, e)
  PROVE  /\ expected' \in Nat /\ expected' <= Last + 1
         /\ written' \in Seq(Nat) /\ pending' \in SUBSET Nat
         /\ Behind' /\ AheadOf' /\ InOrder'
<1> USE SeqAssumption
<1>1. PICK j \in 0 .. Cardinality(P) :
        /\ \A i \in 0 .. (j - 1) : Seqno(e + i) \in Seqnos(P)
        /\ written' = w \o [i \in 1 .. j |-> Payload(P, Seqno(e + i - 1))]
        /\ expected' = Seqno(e + j)
        /\ pending' = {n \in P : \A i \in 0 .. j : Seqno(n) # Seqno(e + i)}
  BY DEF Drain
<1>2. j \in Nat
  OBVIOUS
<1>3. \A n \in P : n \in Nat /\ Seqno(n) = n
  BY SeqnoId
<1>4. \A q \in Seqnos(P) : q \in P
  BY <1>3 DEF Seqnos
<1>5. e + j <= Last + 1
  <2>1. SUFFICES ASSUME e + j > Last + 1 PROVE FALSE
    BY <1>2
  <2>2. (Last + 1 - e) \in 0 .. (j - 1) /\ e + (Last + 1 - e) = Last + 1
    BY <2>1, <1>2
  <2>3. Seqno(Last + 1) \in Seqnos(P)
    BY <2>2, <1>1
  <2>4. Seqno(Last + 1) = Last + 1
    BY SeqnoId
  <2>5. Last + 1 \in P
    BY <2>3, <2>4, <1>4
  <2> QED
    BY <2>5
<1>6. \A i \in 0 .. j : e + i \in Nat /\ Seqno(e + i) = e + i
  <2>1. SUFFICES ASSUME NEW i \in 0 .. j PROVE e + i \in Nat /\ Seqno(e + i) = e + i
    OBVIOUS
  <2>2. e + i \in Nat /\ e + i < Modulus
    BY <1>2, <1>5
  <2> QED
    BY <2>2, SeqnoId
<1>7. \A i \in 1 .. j : Payload(P, Seqno(e + i - 1)) = e + i - 1
  <2>1. SUFFICES ASSUME NEW i \in 1 .. j PROVE Payload(P, Seqno(e + i - 1)) = e + i - 1
    OBVIOUS
  <2>2. (i - 1) \in 0 .. (j - 1) /\ (i - 1) \in 0 .. j /\ e + (i - 1) = e + i - 1
    BY <1>2
  <2>3. Seqno(e + i - 1) = e + i - 1 /\ e + i - 1 \in P
    BY <2>2, <1>1, <1>4, <1>6
  <2>4. \E n \in P : Seqno(n) = e + i - 1
    BY <2>3, <1>3
  <2>5. PICK n \in P : n = Payload(P, e + i - 1) /\ Seqno(n) = e + i - 1
    BY <2>4 DEF Payload
  <2> QED
    BY <2>5, <2>3, <1>3
<1> DEFINE t == [i \in 1 .. j |-> Payload(P, Seqno(e + i - 1))]
<1>8. t \in Seq(Nat) /\ Len(t) = j /\ \A i \in 1 .. j : t[i] = e + i - 1
  <2>1. \A i \in 1 .. j : e + i - 1 \in Nat
    BY <1>2
  <2>2. t = [i \in 1 .. j |-> e + i - 1]
    BY <1>7
  <2> HIDE DEF t
  <2>3. t \in [1 .. j -> Nat]
    BY <2>1, <2>2
  <2>4. t \in Seq(Nat)
    BY <2>3, <1>2
  <2>5. DOMAIN t = 1 .. j
    BY <2>3
  <2> QED
    BY <2>2, <2>4, <2>5, <1>2
<1>9. written' = w \o t
  BY <1>1
<1> HIDE DEF t
<1>10. expected' = e + j
  <2>1. j \in 0 .. j
    BY <1>2
  <2> QED
    BY <2>1, <1>1, <1>6
<1>w. Len(w) \in Nat /\ \A i \in 1 .. Len(w) : w[i] \in Nat
  OBVIOUS
<1>11. /\ written' \in Seq(Nat) /\ Len(written') = Len(w) + j
       /\ \A i \in 1 .. Len(w) : written'[i] = w[i]
       /\ \A i \in 1 .. j : written'[Len(w) + i] = e + i - 1
  <2>1. /\ w \o t \in Seq(Nat) /\ Len(w \o t) = Len(w) + Len(t)
        /\ \A i \in 1 .. Len(w) + Len(t) :
             (w \o t)[i] = IF i <= Len(w) THEN w[i] ELSE t[i - Len(w)]
    BY <1>8, ConcatProperties
  <2>2. \A i \in 1 .. Len(w) : i \in 1 .. Len(w) + j /\ i <= Len(w)
    BY <1>2, <1>w
  <2>3. \A i \in 1 .. j : Len(w) + i \in 1 .. Len(w) + j /\ ~(Len(w) + i <= Len(w))
                          /\ (Len(w) + i) - Len(w) = i
    BY <1>2, <1>w
  <2> QED
    BY <1>8, <1>9, <2>1, <2>2, <2>3
<1>12. \A i \in 1 .. Len(written') :
         \/ i \in 1 .. Len(w) /\ written'[i] = w[i]
         \/ i > Len(w) /\ written'[i] = e + (i - Len(w)) - 1
  <2> SUFFICES ASSUME NEW i \in 1 .. Len(written')
               PROVE  \/ i \in 1 .. Len(w) /\ written'[i] = w[i]
                      \/ i > Len(w) /\ written'[i] = e + (i - Len(w)) - 1
    OBVIOUS
  <2>a. CASE i <= Len(w)
    <3>1. i \in 1 .. Len(w)
      BY <2>a, <1>w
    <3> QED
      BY <3>1, <1>11
  <2>b. CASE i > Len(w)
    <3>1. (i - Len(w)) \in 1 .. j /\ Len(w) + (i - Len(w)) = i
      BY <2>b, <1>w, <1>11, <1>2
    <3> QED
      BY <3>1, <1>11, <2>b
  <2> QED
    BY <2>a, <2>b, <1>w
<1>13. Behind'
  <2>1. SUFFICES ASSUME NEW i \in 1 .. Len(written') PROVE written'[i] < expected'
    BY DEF Behind
  <2>2. CASE i \in 1 .. Len(w) /\ written'[i] = w[i]
    BY <2>2, <1>10, <1>2, <1>w
  <2>3. CASE i > Len(w) /\ written'[i] = e + (i - Len(w)) - 1
    BY <2>3, <1>10, <1>11, <1>2, <1>w
  <2> QED
    BY <2>2, <2>3, <1>12
<1>14. InOrder'
  <2>1. SUFFICES ASSUME NEW a \in 1 .. Len(written'), NEW b \in 1 .. Len(written'), a < b
                 PROVE  written'[a] < written'[b]
    BY DEF InOrder
  <2>2. CASE b \in 1 .. Len(w) /\ written'[b] = w[b]
    <3>0. a \in 1 .. Len(w)
      BY <2>2, <2>1, <1>w
    <3>1. a \in 1 .. Len(w) /\ written'[a] = w[a]
      BY <3>0, <1>11
    <3> QED
      BY <3>1, <2>2, <2>1
  <2>3. CASE b > Len(w) /\ written'[b] = e + (b - Len(w)) - 1
    <3>1. CASE a \in 1 .. Len(w) /\ written'[a] = w[a]
      <4>1. w[a] < e /\ w[a] \in Nat
        BY <3>1, <1>w
      <4> QED
        BY <4>1, <3>1, <2>3, <1>w
    <3>2. CASE a > Len(w) /\ written'[a] = e + (a - Len(w)) - 1
      BY <3>2, <2>3, <2>1, <1>w
    <3> QED
      BY <3>1, <3>2, <1>12
  <2> QED
    BY <2>2, <2>3, <1>12
<1>15. AheadOf' /\ pending' \in SUBSET Nat
  <2>1. SUFFICES ASSUME NEW n \in pending' PROVE n \in Nat /\ e + j < n /\ n <= Last
    BY <1>10 DEF AheadOf
  <2>2. n \in P /\ \A i \in 0 .. j : n # e + i
    BY <1>1, <1>3, <1>6
  <2>3. n \in Nat /\ e <= n
    BY <2>2
  <2>4. ~(n <= e + j)
    <3>1. SUFFICES ASSUME n <= e + j PROVE FALSE
      OBVIOUS
    <3>2. (n - e) \in 0 .. j /\ e + (n - e) = n
      BY <3>1, <2>3, <1>2
    <3> QED
      BY <3>2, <2>2
  <2> QED
    BY <2>2, <2>3, <2>4, <1>2
<1> QED
  BY <1>2, <1>5, <1>10, <1>11, <1>13, <1>14, <1>15

(* One more packet at or above expected keeps what is written in order.    *)
LEMMA AppendInOrder ==
  ASSUME NEW w \in Seq(Nat), NEW n \in Nat, NEW e \in Nat, e <= n,
         \A i \in 1 .. Len(w) : w[i] < e,
         \A i, j \in 1 .. Len(w) : i < j => w[i] < w[j]
  PROVE  /\ Append(w, n) \in Seq(Nat)
         /\ \A i \in 1 .. Len(Append(w, n)) : Append(w, n)[i] < n + 1
         /\ \A i, j \in 1 .. Len(Append(w, n)) : i < j => Append(w, n)[i] < Append(w, n)[j]
<1> DEFINE u == Append(w, n)
<1>1. Len(w) \in Nat /\ \A i \in 1 .. Len(w) : w[i] \in Nat
  OBVIOUS
<1>2. /\ u \in Seq(Nat) /\ Len(u) = Len(w) + 1
      /\ \A i \in 1 .. Len(w) : u[i] = w[i]
      /\ u[Len(w) + 1] = n
  BY AppendProperties
<1> HIDE DEF u
<1>3. \A i \in 1 .. Len(u) : i \in 1 .. Len(w) \/ i = Len(w) + 1
  BY <1>1, <1>2
<1>4. ASSUME NEW i \in 1 .. Len(u) PROVE u[i] < n + 1
  <2>1. CASE i \in 1 .. Len(w)
    <3>1. u[i] = w[i] /\ w[i] < e /\ w[i] \in Nat
      BY <2>1, <1>1, <1>2
    <3> QED
      BY <3>1
  <2>2. CASE i = Len(w) + 1
    BY <2>2, <1>2
  <2> QED
    BY <2>1, <2>2, <1>3
<1>5. ASSUME NEW a \in 1 .. Len(u), NEW b \in 1 .. Len(u), a < b PROVE u[a] < u[b]
  <2>1. CASE b \in 1 .. Len(w)
    <3>1. a \in 1 .. Len(w)
      BY <2>1, <1>5, <1>1
    <3> QED
      BY <3>1, <2>1, <1>5, <1>2
  <2>2. CASE b = Len(w) + 1
    <3>1. a \in 1 .. Len(w)
      BY <2>2, <1>5, <1>1
    <3>2. u[a] = w[a] /\ w[a] < e /\ w[a] \in Nat /\ u[b] = n
      BY <3>1, <2>2, <1>2, <1>1
    <3> QED
      BY <3>2
  <2> QED
    BY <2>1, <2>2, <1>3
<1> QED
  BY <1>2, <1>4, <1>5 DEF u

(* Taking the head of a lane leaves its other packets in flight.           *)
LEMMA TakeHead ==
  ASSUME NEW l \in Lanes, IInv, lane[l] # <<>>, lane' = [lane EXCEPT ![l] = Tail(@)]
  PROVE  /\ lane' \in [Lanes -> Seq(Nat)] /\ InFlight'
         /\ Head(lane[l]) \in Nat /\ Head(lane[l]) <= Last
<1>1. lane[l] \in Seq(Nat)
  BY DEF IInv, TypeOK
<1>2. /\ Len(lane[l]) \in Nat \ {0} /\ Head(lane[l]) \in Nat /\ Head(lane[l]) = lane[l][1]
      /\ Tail(lane[l]) \in Seq(Nat) /\ Len(Tail(lane[l])) = Len(lane[l]) - 1
      /\ \A i \in 1 .. Len(Tail(lane[l])) : Tail(lane[l])[i] = lane[l][i + 1]
  BY <1>1, HeadTailProperties
<1>3. 1 \in 1 .. Len(lane[l]) /\ \A i \in 1 .. Len(Tail(lane[l])) : i + 1 \in 1 .. Len(lane[l])
  BY <1>2
<1>4. lane' \in [Lanes -> Seq(Nat)]
  BY <1>2 DEF IInv, TypeOK
<1>5. Head(lane[l]) <= Last /\ \A i \in 1 .. Len(Tail(lane[l])) : Tail(lane[l])[i] <= Last
  BY <1>2, <1>3 DEF IInv, InFlight
<1>6. InFlight'
  BY <1>5 DEF IInv, TypeOK, InFlight
<1> QED
  BY <1>2, <1>4, <1>5, <1>6

(* The handling of one packet preserves the invariant.                     *)
LEMMA ArriveStep ==
  ASSUME Last + 1 < Modulus, IInv, NEW l \in Lanes, Arrive(l)
  PROVE  IInv'
<1> USE SeqAssumption
<1>1. /\ lane[l] # <<>> /\ lane' = [lane EXCEPT ![l] = Tail(@)]
      /\ initialized' = TRUE /\ next' = next
  BY DEF Arrive
<1>2. /\ lane' \in [Lanes -> Seq(Nat)] /\ InFlight'
      /\ Head(lane[l]) \in Nat /\ Head(lane[l]) <= Last
  BY <1>1, TakeHead
<1>3. PICK n \in Nat : n = Head(lane[l]) /\ n <= Last
  BY <1>2
<1>4. Seqno(n) = n
  BY <1>3, SeqnoId
<1>5. PICK e \in Nat : e = IF initialized THEN expected ELSE Seqno(n)
  BY <1>4 DEF IInv, TypeOK
<1>6. PICK w \in Seq(Nat) : w = written
  BY DEF IInv, TypeOK
<1>7. PICK P \in SUBSET Nat : P = pending
  BY DEF IInv, TypeOK
<1>8. /\ e <= Last + 1
      /\ \A i \in 1 .. Len(w) : w[i] < e
      /\ \A i, j \in 1 .. Len(w) : i < j => w[i] < w[j]
      /\ \A m \in P : e < m /\ m <= Last
  BY <1>3, <1>4, <1>5, <1>6, <1>7 DEF IInv, Behind, AheadOf, Fresh, InOrder
<1>9. Old(n, e) \/ InTurn(n, e) \/ BeyondWindow(n, e) \/ Hold(n, e) \/ ForceDrain(n, e)
  BY <1>3, <1>5 DEF Arrive
<1> DEFINE Kept == /\ expected' \in Nat /\ expected' <= Last + 1
                   /\ written' \in Seq(Nat) /\ pending' \in SUBSET Nat
                   /\ Behind' /\ AheadOf' /\ InOrder'
<1>10. Kept
  <2> HIDE DEF Kept
  <2>s. CASE expected' = e /\ written' = w /\ pending' = P
    BY <2>s, <1>8 DEF Kept, Behind, AheadOf, InOrder
  <2>1. CASE Old(n, e)
    BY <2>1, <2>s, <1>6, <1>7 DEF Old
  <2>2. CASE InTurn(n, e)
    <3>1. n = e
      BY <2>2, <1>4 DEF InTurn
    <3>2. CASE expected' = e /\ UNCHANGED <<pending, written>>
      BY <3>2, <2>s, <1>6, <1>7
    <3>3. CASE Drain(Append(written, n), pending, e + 1)
      <4>1. PICK u \in Seq(Nat) : u = Append(w, n)
        BY AppendProperties
      <4>2. PICK f \in Nat : f = e + 1
        OBVIOUS
      <4>3. Drain(u, P, f)
        BY <3>3, <4>1, <4>2, <1>6, <1>7
      <4>4. /\ \A i \in 1 .. Len(u) : u[i] < f
            /\ \A i, j \in 1 .. Len(u) : i < j => u[i] < u[j]
        BY <4>1, <4>2, <3>1, <1>8, AppendInOrder
      <4>5. f <= Last + 1 /\ \A m \in P : f <= m /\ m <= Last
        BY <4>2, <3>1, <1>3, <1>8
      <4> QED
        BY <4>3, <4>4, <4>5, DrainInOrder DEF Kept
    <3> QED
      BY <2>2, <3>2, <3>3 DEF InTurn
  <2>3. CASE BeyondWindow(n, e)
    <3>1. n > e /\ pending' = {}
      BY <2>3, <1>4 DEF BeyondWindow
    <3>2. CASE written' = written /\ expected' = e
      BY <3>1, <3>2, <1>6, <1>8 DEF Kept, Behind, AheadOf, InOrder
    <3>3. CASE written' = Append(written, n) /\ expected' = Seqno(Seqno(n) + 1)
      <4>1. expected' = n + 1
        <5>1. n + 1 \in Nat /\ n + 1 < Modulus
          BY <1>3
        <5>2. Seqno(n + 1) = n + 1
          BY <5>1, SeqnoId
        <5> QED
          BY <3>3, <1>4, <5>2
      <4>2. /\ Append(w, n) \in Seq(Nat)
            /\ \A i \in 1 .. Len(Append(w, n)) : Append(w, n)[i] < n + 1
            /\ \A i, j \in 1 .. Len(Append(w, n)) : i < j => Append(w, n)[i] < Append(w, n)[j]
        <5>1. e <= n
          BY <3>1
        <5> QED
          BY <5>1, <1>8, AppendInOrder
      <4>3. PICK u \in Seq(Nat) : u = Append(w, n)
        BY <4>2
      <4> QED
        BY <4>1, <4>2, <4>3, <3>1, <3>3, <1>3, <1>6 DEF Kept, Behind, AheadOf, InOrder
    <3> QED
      BY <2>3, <3>2, <3>3 DEF BeyondWindow
  <2>h. /\ Held(n) \in SUBSET Nat
        /\ n > e => \A m \in Held(n) : e < m /\ m <= Last
    BY <1>3, <1>7, <1>8 DEF Held
  <2>4. CASE Hold(n, e)
    <3>1. n > e /\ pending' = Held(n) /\ expected' = e /\ written' = w
      BY <2>4, <1>4, <1>6 DEF Hold
    <3> QED
      BY <3>1, <2>h, <1>8 DEF Kept, Behind, AheadOf, InOrder
  <2>5. CASE ForceDrain(n, e)
    <3>1. n > e
      BY <2>5, <1>4 DEF ForceDrain
    <3>2. PICK H \in SUBSET Nat : H = Held(n)
      BY <2>h
    <3>3. \A m \in H : e < m /\ m <= Last /\ Seqno(m) = m
      BY <3>1, <3>2, <2>h, SeqnoId
    <3>4. PICK q \in Seqnos(H) : (\A r \in Seqnos(H) : q <= r) /\ Drain(w, H, q)
      BY <2>5, <3>2, <1>6 DEF ForceDrain
    <3>5. Seqnos(H) = H
      BY <3>3 DEF Seqnos
    <3>6. q \in Nat /\ e < q /\ q <= Last + 1 /\ \A m \in H : q <= m /\ m <= Last
      <4>1. q \in H /\ \A m \in H : q <= m
        BY <3>4, <3>5
      <4>2. q \in Nat /\ e < q /\ q <= Last
        BY <4>1, <3>3
      <4>3. q <= Last + 1
        BY <4>2
      <4> QED
        BY <4>1, <4>2, <4>3, <3>3
    <3>7. ASSUME NEW i \in 1 .. Len(w) PROVE w[i] < q
      <4>1. w[i] \in Nat /\ w[i] < e
        BY <1>8
      <4> QED
        BY <4>1, <3>6
    <3> QED
      BY <3>4, <3>6, <3>7, <1>8, DrainInOrder DEF Kept
  <2> QED
    BY <1>9, <2>1, <2>2, <2>3, <2>4, <2>5
<1> QED
  BY <1>1, <1>2, <1>10 DEF IInv, TypeOK, Fresh

(* Every step preserves the invariant.                                     *)
LEMMA Preserved ==
  ASSUME Last + 1 < Modulus, IInv, [Next]_vars
  PROVE  IInv'
<1> USE SeqAssumption
<1>1. CASE Send
  <2>1. next \in Nat /\ next <= Last /\ Seqno(next) \in Nat /\ Seqno(next) % L \in Lanes
    BY <1>1, LanesAssumption DEF Send, IInv, TypeOK, Seqno, Lanes
  <2>2. PICK l \in Lanes : lane' = [lane EXCEPT ![l] = Append(@, next)]
    BY <1>1, <2>1 DEF Send
  <2>3. lane[l] \in Seq(Nat)
    BY DEF IInv, TypeOK
  <2>4. /\ Append(lane[l], next) \in Seq(Nat)
        /\ \A i \in 1 .. Len(Append(lane[l], next)) : Append(lane[l], next)[i] <= Last
    <3>1. \A i \in 1 .. Len(lane[l]) : lane[l][i] <= Last
      BY DEF IInv, InFlight
    <3> QED
      BY <2>1, <2>3, <3>1, AppendProperties
  <2>5. lane' \in [Lanes -> Seq(Nat)] /\ InFlight'
    BY <2>2, <2>4 DEF IInv, TypeOK, InFlight
  <2> QED
    BY <1>1, <2>1, <2>5 DEF Send, IInv, TypeOK, Behind, AheadOf, Fresh, InOrder
<1>2. ASSUME NEW l \in Lanes, Lose(l) PROVE IInv'
  <2>1. lane' \in [Lanes -> Seq(Nat)] /\ InFlight'
    BY <1>2, TakeHead DEF Lose
  <2> QED
    BY <1>2, <2>1 DEF Lose, IInv, TypeOK, Behind, AheadOf, Fresh, InOrder
<1>3. CASE UNCHANGED vars
  BY <1>3 DEF vars, IInv, TypeOK, InFlight, Behind, AheadOf, Fresh, InOrder
<1>4. CASE Forget
  <2>1. <<>> \in Seq(Nat) /\ 1 .. Len(<<>>) = {}
    BY EmptySeq
  <2>2. TypeOK'
    BY <1>4, <2>1 DEF Forget, IInv, TypeOK
  <2>3. InFlight' /\ expected' <= Last + 1
    BY <1>4 DEF Forget, IInv, InFlight
  <2>4. Behind' /\ AheadOf' /\ Fresh' /\ InOrder'
    BY <1>4, <2>1 DEF Forget, Behind, AheadOf, Fresh, InOrder
  <2> QED
    BY <2>2, <2>3, <2>4 DEF IInv
<1> QED
  BY <1>1, <1>2, <1>3, <1>4, ArriveStep DEF Next

(* The invariant holds throughout.                                         *)
LEMMA Invariant ==
  ASSUME Last + 1 < Modulus
  PROVE  Spec => []IInv
<1>1. Init => IInv
  <2>1. SUFFICES ASSUME Init PROVE IInv
    OBVIOUS
  <2>2. <<>> \in Seq(Nat) /\ 1 .. Len(<<>>) = {}
    BY EmptySeq
  <2>3. TypeOK
    BY <2>1, TypeInit
  <2>5. expected <= Last + 1
    BY <2>1, SeqAssumption DEF Init
  <2>4. InFlight /\ Behind /\ AheadOf /\ Fresh /\ InOrder
    BY <2>1, <2>2 DEF Init, InFlight, Behind, AheadOf, Fresh, InOrder
  <2> QED
    BY <2>3, <2>4, <2>5 DEF IInv
<1>2. IInv /\ [Next]_vars => IInv'
  BY Preserved
<1> QED
  BY <1>1, <1>2, PTL DEF Spec

(* In order and never twice: writeUpstreamToBackend hands the backend the  *)
(* packets of a session in the order of sending as long as the session's   *)
(* sequence numbers do not wrap, whatever the lanes lose or delay, whether *)
(* the window overflows or the hold time ends, and whichever writes fail.  *)
THEOREM ReorderSafe ==
  ASSUME Last + 1 < Modulus
  PROVE  Spec => []InOrder
<1>1. IInv => InOrder
  BY DEF IInv
<1> QED
  BY <1>1, Invariant, PTL
-----------------------------------------------------------------------------
(* Types and window.  Nothing here depends on the numbers staying below    *)
(* the modulus.                                                            *)
LEMMA SeqnoType ==
  ASSUME NEW n \in Nat PROVE Seqno(n) \in Nat /\ Seqno(n) < Modulus
BY SeqAssumption DEF Seqno

(* Everything that is written was held or has just arrived.                *)
LEMMA DrainTypes ==
  ASSUME NEW w \in Seq(Nat), NEW P \in SUBSET Nat, NEW e \in Nat, Drain(w, P, e)
  PROVE  written' \in Seq(Nat) /\ expected' \in Nat /\ pending' \subseteq Nat
<1>1. PICK j \in 0 .. Cardinality(P) :
        /\ \A i \in 0 .. (j - 1) : Seqno(e + i) \in Seqnos(P)
        /\ written' = w \o [i \in 1 .. j |-> Payload(P, Seqno(e + i - 1))]
        /\ expected' = Seqno(e + j)
        /\ pending' = {n \in P : \A i \in 0 .. j : Seqno(n) # Seqno(e + i)}
  BY DEF Drain
<1>2. j \in Nat
  OBVIOUS
<1>3. ASSUME NEW i \in 1 .. j PROVE Payload(P, Seqno(e + i - 1)) \in Nat
  <2>1. (i - 1) \in 0 .. (j - 1) /\ e + (i - 1) = e + i - 1
    BY <1>2
  <2>2. Seqno(e + i - 1) \in Seqnos(P)
    BY <1>1, <2>1
  <2>3. \E n \in P : Seqno(n) = Seqno(e + i - 1)
    BY <2>2 DEF Seqnos
  <2> QED
    BY <2>3 DEF Payload
<1> DEFINE t == [i \in 1 .. j |-> Payload(P, Seqno(e + i - 1))]
<1>4. t \in Seq(Nat)
  <2>1. t \in [1 .. j -> Nat]
    BY <1>3
  <2> HIDE DEF t
  <2> QED
    BY <2>1, <1>2
<1> HIDE DEF t
<1>5. written' \in Seq(Nat)
  <2>1. written' = w \o t
    BY <1>1 DEF t
  <2> QED
    BY <2>1, <1>4
<1>6. expected' \in Nat
  <2>1. e + j \in Nat
    BY <1>2
  <2> QED
    BY <1>1, <2>1, SeqnoType
<1> QED
  BY <1>1, <1>5, <1>6

LEMMA TypeStep ==
  ASSUME TypeOK, [Next]_vars
  PROVE  TypeOK'
<1> USE SeqAssumption
<1>1. CASE Send
  <2>0. next \in Nat /\ next + 1 \in Nat /\ Seqno(next) \in Nat
    <3>1. next \in Nat
      BY DEF TypeOK
    <3> QED
      BY <3>1, SeqnoType
  <2>1. Seqno(next) % L \in Lanes
    BY <2>0, LanesAssumption DEF Lanes
  <2>2. Append(lane[Seqno(next) % L], next) \in Seq(Nat)
    BY <2>0, <2>1 DEF TypeOK
  <2> QED
    BY <1>1, <2>0, <2>1, <2>2 DEF Send, TypeOK
<1>2. ASSUME NEW l \in Lanes, lane[l] # <<>>
      PROVE  Head(lane[l]) \in Nat /\ [lane EXCEPT ![l] = Tail(@)] \in [Lanes -> Seq(Nat)]
  BY <1>2 DEF TypeOK
<1>3. ASSUME NEW l \in Lanes, Lose(l) PROVE TypeOK'
  BY <1>2, <1>3 DEF Lose, TypeOK
<1>4. ASSUME NEW l \in Lanes, Arrive(l) PROVE TypeOK'
  <2>1. PICK n \in Nat : n = Head(lane[l])
    BY <1>2, <1>4 DEF Arrive
  <2>2. Seqno(n) \in Nat /\ Seqno(Seqno(n) + 1) \in Nat
    BY SeqnoType
  <2>3. PICK e \in Nat : e = IF initialized THEN expected ELSE Seqno(n)
    BY <2>2 DEF TypeOK
  <2>4. Old(n, e) \/ InTurn(n, e) \/ BeyondWindow(n, e) \/ Hold(n, e) \/ ForceDrain(n, e)
    BY <1>4, <2>1, <2>3 DEF Arrive
  <2>5. written \in Seq(Nat) /\ pending \in SUBSET Nat /\ Held(n) \in SUBSET Nat
        /\ Append(written, n) \in Seq(Nat)
    BY DEF TypeOK, Held
  <2>6. written' \in Seq(Nat) /\ expected' \in Nat /\ pending' \subseteq Nat
    <3>1. CASE Old(n, e)
      BY <2>5, <3>1 DEF Old
    <3>2. CASE InTurn(n, e)
      <4>1. e + 1 \in Nat
        OBVIOUS
      <4>2. CASE Drain(Append(written, n), pending, e + 1)
        BY <4>1, <4>2, <2>5, DrainTypes
      <4>3. CASE expected' = e /\ UNCHANGED <<pending, written>>
        BY <4>3, <2>5
      <4> QED
        BY <3>2, <4>2, <4>3 DEF InTurn
    <3>3. CASE BeyondWindow(n, e)
      BY <2>2, <2>5, <3>3 DEF BeyondWindow
    <3>4. CASE Hold(n, e)
      BY <2>5, <3>4 DEF Hold
    <3>5. CASE ForceDrain(n, e)
      <4>1. PICK q \in Seqnos(Held(n)) : Drain(written, Held(n), q)
        BY <3>5 DEF ForceDrain
      <4>2. q \in Nat
        BY <2>5, SeqnoType DEF Seqnos
      <4> QED
        BY <4>1, <4>2, <2>5, DrainTypes
    <3> QED
      BY <2>4, <3>1, <3>2, <3>3, <3>4, <3>5
  <2>7. initialized' = TRUE /\ next' = next /\ lane' \in [Lanes -> Seq(Nat)]
    BY <1>2, <1>4 DEF Arrive
  <2> QED
    BY <2>6, <2>7 DEF TypeOK
<1>5. CASE Forget
  <2>1. <<>> \in Seq(Nat)
    BY EmptySeq
  <2> QED
    BY <1>5, <2>1 DEF Forget, TypeOK
<1>6. CASE UNCHANGED vars
  BY <1>6 DEF vars, TypeOK
<1> QED
  BY <1>1, <1>3, <1>4, <1>5, <1>6 DEF Next

(* The reordering state keeps its types and is empty before the first      *)
(* packet of a session and after upstreamReorderStates.Delete, also when   *)
(* sequence numbers wrap around.                                           *)
THEOREM TypeCorrect == Spec => []TypeOK
BY TypeInit, TypeStep, PTL DEF Spec

(* A drain that starts at e leaves only packets above the new expected,    *)
(* and takes out any packet at e.  If it passes the modulus it takes all.  *)
LEMMA DrainWindow ==
  ASSUME NEW w, NEW P \in SUBSET Nat, IsFiniteSet(P), NEW e \in Nat, NEW top \in Nat,
         \A n \in P : e <= Seqno(n) /\ Seqno(n) <= top,
         Drain(w, P, e)
  PROVE  /\ IsFiniteSet(pending') /\ pending' \subseteq P
         /\ \A n \in pending' : expected' < Seqno(n) /\ Seqno(n) <= top /\ e <= expected'
         /\ e \in Seqnos(P) => pending' # P
<1>1. PICK j \in 0 .. Cardinality(P) :
        /\ expected' = Seqno(e + j)
        /\ pending' = {n \in P : \A i \in 0 .. j : Seqno(n) # Seqno(e + i)}
  BY DEF Drain
<1>2. j \in Nat
  OBVIOUS
<1>3. IsFiniteSet(pending') /\ pending' \subseteq P
  BY <1>1, FS_Subset
<1>4. ASSUME NEW n \in pending'
      PROVE  expected' < Seqno(n) /\ Seqno(n) <= top /\ e <= expected'
  <2>1. n \in P /\ n \in Nat /\ \A i \in 0 .. j : Seqno(n) # Seqno(e + i)
    BY <1>1, <1>4
  <2>2. Seqno(n) \in Nat /\ Seqno(n) < Modulus /\ e <= Seqno(n) /\ Seqno(n) <= top
    BY <2>1, SeqnoType
  <2>3. e + j < Seqno(n)
    <3>1. SUFFICES ASSUME Seqno(n) <= e + j PROVE FALSE
      BY <1>2, <2>2
    <3>2. (Seqno(n) - e) \in 0 .. j /\ e + (Seqno(n) - e) = Seqno(n)
      BY <3>1, <1>2, <2>2
    <3>3. Seqno(n) # Seqno(Seqno(n))
      BY <3>2, <2>1
    <3> QED
      BY <3>3, <2>2, SeqnoId
  <2>4. Seqno(e + j) = e + j
    <3>1. e + j \in Nat /\ e + j < Modulus
      BY <1>2, <2>2, <2>3, SeqAssumption
    <3> QED
      BY <3>1, SeqnoId
  <2> QED
    BY <1>1, <1>2, <2>2, <2>3, <2>4
<1>5. ASSUME e \in Seqnos(P) PROVE pending' # P
  <2>1. PICK n \in P : Seqno(n) = e
    BY <1>5 DEF Seqnos
  <2>2. 0 \in 0 .. j /\ e + 0 = e
    BY <1>2
  <2>3. Seqno(e) = e
    BY <2>1, SeqnoType, SeqnoId
  <2> QED
    BY <1>1, <2>1, <2>2, <2>3
<1> QED
  BY <1>3, <1>4, <1>5

WInv == TypeOK /\ IsFiniteSet(pending) /\ PendingInWindow

(* The handling of one packet keeps the window.                            *)
LEMMA ArriveWindow ==
  ASSUME WInv, NEW l \in Lanes, Arrive(l)
  PROVE  IsFiniteSet(pending') /\ PendingInWindow'
<1> USE SeqAssumption
<1>0. expected' \in Nat
  <2>1. TypeOK /\ Next
    BY DEF WInv, Next
  <2>2. TypeOK'
    BY <2>1, TypeStep
  <2> QED
    BY <2>2 DEF TypeOK
<1>1. PICK n \in Nat : n = Head(lane[l])
  BY DEF Arrive, WInv, TypeOK
<1>2. Seqno(n) \in Nat /\ Seqno(n) < Modulus
  BY SeqnoType
<1>3. PICK e \in Nat : e = IF initialized THEN expected ELSE Seqno(n)
  BY <1>2 DEF WInv, TypeOK
<1>4. Old(n, e) \/ InTurn(n, e) \/ BeyondWindow(n, e) \/ Hold(n, e) \/ ForceDrain(n, e)
  BY <1>1, <1>3 DEF Arrive
<1>5. /\ pending \in SUBSET Nat /\ IsFiniteSet(pending) /\ Cardinality(pending) < W
      /\ \A m \in pending : e < Seqno(m) /\ Seqno(m) <= e + W
  BY <1>3 DEF WInv, TypeOK, PendingInWindow
<1>6. W \in Nat \ {0} /\ Cardinality(pending) \in Nat
  BY <1>5, FS_CardinalityType DEF W
<1> HIDE DEF W
<1>s. ASSUME expected' = e, pending' = pending PROVE IsFiniteSet(pending') /\ PendingInWindow'
  BY <1>5, <1>s DEF PendingInWindow, W
<1>7. CASE Old(n, e)
  BY <1>7, <1>s DEF Old
<1>8. CASE InTurn(n, e)
  <2>1. CASE expected' = e /\ UNCHANGED <<pending, written>>
    BY <2>1, <1>s
  <2>2. CASE Drain(Append(written, n), pending, e + 1)
    <3>1. e + 1 \in Nat /\ e + W \in Nat
      BY <1>6
    <3>2. \A m \in pending : e + 1 <= Seqno(m) /\ Seqno(m) <= e + W
      BY <1>5, SeqnoType
    <3>3. /\ IsFiniteSet(pending') /\ pending' \subseteq pending
          /\ \A m \in pending' :
               expected' < Seqno(m) /\ Seqno(m) <= e + W /\ e + 1 <= expected'
      BY <2>2, <3>1, <3>2, <1>5, DrainWindow
    <3>4. expected' \in Nat
      BY <1>0
    <3>5. \A m \in pending' : expected' < Seqno(m) /\ Seqno(m) <= expected' + W
      BY <3>3, <3>4, <1>5, <1>6, SeqnoType
    <3>6. Cardinality(pending') < W
      <4>1. Cardinality(pending') <= Cardinality(pending) /\ Cardinality(pending') \in Nat
        BY <3>3, <1>5, FS_Subset, FS_CardinalityType
      <4> QED
        BY <4>1, <1>5, <1>6
    <3> QED
      BY <3>3, <3>5, <3>6 DEF PendingInWindow, W
  <2> QED
    BY <1>8, <2>1, <2>2 DEF InTurn
<1>9. CASE BeyondWindow(n, e)
  <2>1. pending' = {}
    BY <1>9 DEF BeyondWindow
  <2>2. IsFiniteSet(pending') /\ Cardinality(pending') < W
    BY <2>1, <1>6, FS_EmptySet
  <2> QED
    BY <2>1, <2>2 DEF PendingInWindow, W
<1>h. ASSUME Seqno(n) > e, Ahead(n, e) <= W
      PROVE  /\ Held(n) \in SUBSET Nat /\ IsFiniteSet(Held(n))
             /\ Cardinality(Held(n)) \in Nat /\ Cardinality(Held(n)) <= W
             /\ \A m \in Held(n) : e < Seqno(m) /\ Seqno(m) <= e + W
  <2>1. Seqno(n) <= e + W
    BY <1>h, <1>2, <1>6 DEF Ahead
  <2>2. Held(n) = pending \/ Held(n) = pending \cup {n}
    BY DEF Held
  <2>3. IsFiniteSet(Held(n)) /\ (\/ Cardinality(Held(n)) = Cardinality(pending)
                                \/ Cardinality(Held(n)) = Cardinality(pending) + 1)
    BY <2>2, <1>5, FS_AddElement
  <2>4. Cardinality(Held(n)) \in Nat /\ Cardinality(Held(n)) <= W
    <3>1. ASSUME NEW k, k = Cardinality(pending) \/ k = Cardinality(pending) + 1
          PROVE  k \in Nat /\ k <= W
      BY <3>1, <1>5, <1>6
    <3> QED
      BY <3>1, <2>3
  <2>5. \A m \in Held(n) : m \in Nat /\ (m \in pending \/ m = n)
    BY <2>2, <1>5
  <2>6. \A m \in Held(n) : e < Seqno(m) /\ Seqno(m) <= e + W
    BY <2>1, <2>5, <1>h, <1>2, <1>5
  <2> QED
    BY <2>3, <2>4, <2>5, <2>6
<1>10. CASE Hold(n, e)
  BY <1>10, <1>h DEF Hold, PendingInWindow, W
<1>11. CASE ForceDrain(n, e)
  <2>1. /\ Held(n) \in SUBSET Nat /\ IsFiniteSet(Held(n))
        /\ Cardinality(Held(n)) \in Nat /\ Cardinality(Held(n)) <= W
        /\ \A m \in Held(n) : e < Seqno(m) /\ Seqno(m) <= e + W
    BY <1>11, <1>h DEF ForceDrain
  <2>2. PICK q \in Seqnos(Held(n)) :
          (\A r \in Seqnos(Held(n)) : q <= r) /\ Drain(written, Held(n), q)
    BY <1>11 DEF ForceDrain
  <2>3. q \in Nat /\ e < q /\ e + W \in Nat
    BY <2>1, <1>6, SeqnoType DEF Seqnos
  <2>4. \A m \in Held(n) : q <= Seqno(m) /\ Seqno(m) <= e + W
    BY <2>1, <2>2 DEF Seqnos
  <2>5. /\ IsFiniteSet(pending') /\ pending' \subseteq Held(n) /\ pending' # Held(n)
        /\ \A m \in pending' : expected' < Seqno(m) /\ Seqno(m) <= e + W /\ q <= expected'
    BY <2>1, <2>2, <2>3, <2>4, DrainWindow
  <2>6. expected' \in Nat
    BY <1>0
  <2>7. \A m \in pending' : expected' < Seqno(m) /\ Seqno(m) <= expected' + W
    BY <2>1, <2>3, <2>5, <2>6, <1>6, SeqnoType
  <2>8. Cardinality(pending') < W
    <3>1. /\ Cardinality(pending') <= Cardinality(Held(n)) /\ Cardinality(pending') \in Nat
          /\ Cardinality(pending') # Cardinality(Held(n))
      BY <2>1, <2>5, FS_Subset, FS_CardinalityType
    <3> QED
      BY <3>1, <2>1, <1>6
  <2> QED
    BY <2>5, <2>7, <2>8 DEF PendingInWindow, W
<1> QED
  BY <1>4, <1>7, <1>8, <1>9, <1>10, <1>11

(* The packets held back stay inside the window of upstreamReorderWindow   *)
(* ahead of the expected one and are fewer than it, whatever wraps around, *)
(* so that every packet held can still be drained.                         *)
THEOREM WindowSafe == Spec => []PendingInWindow
<1>1. Init => WInv
  <2> SUFFICES ASSUME Init PROVE IsFiniteSet(pending) /\ PendingInWindow
    BY TypeInit DEF WInv
  <2>1. IsFiniteSet(pending) /\ Cardinality(pending) = 0 /\ W \in Nat \ {0}
    BY FS_EmptySet, SeqAssumption DEF Init, W
  <2> QED
    BY <2>1 DEF Init, PendingInWindow
<1>2. WInv /\ [Next]_vars => WInv'
  <2> SUFFICES ASSUME WInv, [Next]_vars PROVE IsFiniteSet(pending') /\ PendingInWindow'
    BY TypeStep DEF WInv
  <2>1. ASSUME UNCHANGED <<expected, pending>> PROVE IsFiniteSet(pending') /\ PendingInWindow'
    BY <2>1 DEF WInv, PendingInWindow, W
  <2>2. CASE Send \/ (\E l \in Lanes : Lose(l)) \/ UNCHANGED vars
    BY <2>1, <2>2 DEF Send, Lose, vars
  <2>3. CASE Forget
    <3>1. pending' = {} /\ W \in Nat \ {0}
      BY <2>3, SeqAssumption DEF Forget, W
    <3>2. IsFiniteSet(pending') /\ Cardinality(pending') < W
      BY <3>1, FS_EmptySet
    <3> QED
      BY <3>1, <3>2 DEF PendingInWindow, W
  <2>4. ASSUME NEW l \in Lanes, Arrive(l) PROVE IsFiniteSet(pending') /\ PendingInWindow'
    BY <2>4, ArriveWindow
  <2> QED
    BY <2>2, <2>3, <2>4 DEF Next
<1>3. WInv => PendingInWindow
  BY DEF WInv
<1> QED
  BY <1>1, <1>2, <1>3, PTL DEF Spec
=============================================================================
