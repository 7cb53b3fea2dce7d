------------------------ MODULE StreamBufferProofs ------------------------
(***************************************************************************)
(* The client's StreamBuffer is sound, implements FrameParser and loses no *)
(* frame, for every cut of the stream and any limits and sizes.            *)
(***************************************************************************)
EXTENDS StreamBuffer, SequenceTheorems, TLAPS

H == Parser!HeaderSize
Frames == [id : Nat, payload : Seq(Nat)]

(* What FrameParser sees of the receiver.                                  *)
Pc  == IF pc = "handle" THEN "parse" ELSE pc
Got == IF ref = NoFrame THEN got ELSE Append(got, Deref(ref))

(* The buffer: a read starts only when the rest is no whole frame, which   *)
(* bounds what Write may need.                                             *)
Buffer ==
  /\ pc = "read" => ~Parser!Refused(Unread) /\ ~Parser!Complete(Unread)
  /\ pc = "handle" => ref \in [id : Nat, from : Nat \ {0}, to : Nat]
  /\ got \in Seq(Frames)

(* What has been sent and not received: never more than was sent.          *)
Sending == Len(ends) = Len(sent) /\ Len(wire) <= Parser!End(Len(sent))

SInv == BufferSound /\ Buffer /\ Sending
-----------------------------------------------------------------------------
(* The bytes that are still to be parsed, and where they start.            *)
Rest(x) == IF x <= Len(Unread) THEN Unread[x] ELSE wire[x - Len(Unread)]
Begin   == Parser!End(Len(sent)) - (Len(Unread) + Len(wire))

(* The frames lie one behind the other and cover the stream.               *)
Layout ==
  /\ \A k \in 1 .. Len(sent) : Parser!End(k) = Parser!End(k - 1) + H + Len(sent[k])
  /\ \A j, k \in 0 .. Len(sent) : j < k => Parser!End(j) < Parser!End(k)
  /\ \A x \in 1 .. Parser!End(Len(sent)) :
       \E k \in 1 .. Len(sent) : Parser!End(k - 1) < x /\ x <= Parser!End(k)

(* What is left of the stream are bytes of these frames.                   *)
Content ==
  /\ Begin >= 0
  /\ \A k \in 1 .. Len(sent) : \A j \in 1 .. (H + Len(sent[k])) :
       \A x \in 1 .. (Len(Unread) + Len(wire)) :
         Begin + x = Parser!End(k - 1) + j => Rest(x) = Parser!Marshal(k, sent[k])[j]

(* In step: the frames since the last discard, and the parser stands at    *)
(* the end of the last one.                                                *)
InStep(k, n) ==
  /\ k + n <= Len(sent) /\ Begin = Parser!End(k + n)
  /\ \A i \in 1 .. n : Got[base.frames + i] = Parser!Frame(k + i)

Steps ==
  /\ base.bytes <= Parser!End(Len(sent)) /\ base.frames <= Len(Got)
  /\ \A k \in 0 .. Len(sent), n \in Nat :
       Parser!End(k) = base.bytes /\ base.frames + n = Len(Got) => InStep(k, n)

(* Out of step: frames that were sent, and end before the parser's place.  *)
Real ==
  Parser!Unmistakable =>
    /\ \A i \in 1 .. Len(Got) :
         /\ Got[i].id \in 1 .. Len(sent) /\ Got[i] = Parser!Frame(Got[i].id)
         /\ Parser!End(Got[i].id) <= Begin
    /\ \A i, j \in 1 .. Len(Got) : i < j => Got[i].id < Got[j].id

FInv == Layout /\ Content /\ Steps /\ Real
-----------------------------------------------------------------------------
(* p is the piece of s from a to b.                                        *)
PieceOf(p, s, a, b) ==
  /\ p \in Seq(Nat) /\ Len(p) = b - a + 1
  /\ \A i \in 1 .. (b - a + 1) : p[i] = s[a + i - 1]

LEMMA Piece ==
  ASSUME NEW s \in Seq(Nat), NEW a \in Nat \ {0}, NEW b \in Nat, a <= b + 1, b <= Len(s)
  PROVE  PieceOf(SubSeq(s, a, b), s, a, b)
<1>1. Len(s) \in Nat /\ \A i \in a .. b : s[i] \in Nat
  BY ElementOfSeq, LenProperties
<1> DEFINE p == SubSeq(s, a, b)
<1>2. /\ p \in Seq(Nat) /\ Len(p) = IF a <= b THEN b - a + 1 ELSE 0
      /\ \A i \in 1 .. (b - a + 1) : p[i] = s[a + i - 1]
  BY <1>1, SubSeqProperties
<1> HIDE DEF p
<1>3. Len(p) = b - a + 1
  BY <1>2
<1> QED
  BY <1>2, <1>3, Zenon DEF p, PieceOf

(* Two byte strings, one behind the other.                                 *)
LEMMA Joined ==
  ASSUME NEW a \in Seq(Nat), NEW b \in Seq(Nat), NEW h, h = a \o b
  PROVE  /\ h \in Seq(Nat) /\ Len(h) = Len(a) + Len(b)
         /\ \A i \in 1 .. (Len(a) + Len(b)) : h[i] = IF i <= Len(a) THEN a[i] ELSE b[i - Len(a)]
  BY ConcatProperties

(* copy.                                                                   *)
LEMMA CopyFacts ==
  ASSUME NEW m \in Seq(Nat), NEW n \in Nat, NEW s \in Seq(Nat)
  PROVE  /\ Copy(m, n, s) \in Seq(Nat) /\ Len(Copy(m, n, s)) = Len(m)
         /\ \A j \in 1 .. Len(m) : Copy(m, n, s)[j] = IF j - n \in 1 .. Len(s) THEN s[j - n] ELSE m[j]
<1>1. Len(m) \in Nat /\ Len(s) \in Nat
  BY LenProperties
<1>2. \A j \in 1 .. Len(m) : m[j] \in Nat
  BY ElementOfSeq
<1>3. \A j \in 1 .. Len(s) : s[j] \in Nat
  BY ElementOfSeq
<1>4. \A j \in 1 .. Len(m) : (IF j - n \in 1 .. Len(s) THEN s[j - n] ELSE m[j]) \in Nat
  BY <1>2, <1>3
<1> QED
  BY <1>1, <1>4 DEF Copy

(* append's array: the old bytes come first, and it is at most twice as    *)
(* large as needed.                                                        *)
LEMMA GrowFacts ==
  ASSUME NEW m \in Seq(Nat), NEW need \in Nat, NEW g \in Grow(m, need)
  PROVE  /\ g \in Seq(Nat) /\ Len(g) \in Nat /\ Len(g) >= need /\ Len(g) >= Len(m)
         /\ \A i \in 1 .. Len(m) : g[i] = m[i]
         /\ Len(g) = Len(m) \/ Len(g) <= 2 * need
<1>1. Len(m) \in Nat
  BY LenProperties
<1>2. CASE need <= Len(m)
  BY <1>1, <1>2 DEF Grow
<1>3. CASE need > Len(m)
  <2>0. ~(need <= Len(m))
    BY <1>1, <1>3
  <2>1. PICK c \in {need} \cup (need .. 2 * Len(m)) :
          g = m \o [i \in 1 .. (c - Len(m)) |-> 0]
    BY <2>0, Zenon DEF Grow
  <2> DEFINE z == [i \in 1 .. (c - Len(m)) |-> 0]
  <2>2. c \in Nat /\ c >= need /\ c > Len(m) /\ c <= 2 * need
    BY <1>1, <1>3, <2>1
  <2>3. z \in Seq(Nat) /\ Len(z) = c - Len(m)
    BY <1>1, <2>2
  <2> HIDE DEF z
  <2>4. g = m \o z
    BY <2>1 DEF z
  <2>5. /\ g \in Seq(Nat) /\ Len(g) = Len(m) + Len(z)
        /\ \A i \in 1 .. (Len(m) + Len(z)) : g[i] = IF i <= Len(m) THEN m[i] ELSE z[i - Len(m)]
    BY <2>3, <2>4, Joined
  <2>6. ASSUME NEW i \in 1 .. Len(m) PROVE g[i] = m[i]
    <3>1. i \in 1 .. (Len(m) + Len(z)) /\ i <= Len(m)
      BY <1>1, <2>2, <2>3
    <3> QED
      BY <2>5, <3>1, Zenon
  <2>7. Len(g) = c
    BY <1>1, <2>2, <2>3, <2>5
  <2> QED
    BY <2>2, <2>5, <2>6, <2>7, <1>3
<1> QED
  BY <1>1, <1>2, <1>3

(* What is unread, when off and len lie in the array.                      *)
Placed == mem \in Seq(Nat) /\ off \in 0 .. len /\ len \in 0 .. Len(mem)
UnreadIs ==
  /\ Unread \in Seq(Nat) /\ Len(Unread) = len - off /\ len \in Nat /\ off \in Nat
  /\ \A i \in 1 .. (len - off) : Unread[i] = mem[off + i]

LEMMA UnreadFacts == Placed => UnreadIs
<1> SUFFICES ASSUME Placed PROVE UnreadIs
  OBVIOUS
<1>1. mem \in Seq(Nat) /\ Len(mem) \in Nat /\ off \in Nat /\ len \in Nat /\ off <= len
      /\ len <= Len(mem)
  BY LenProperties DEF Placed
<1>2. /\ Unread \in Seq(Nat) /\ Len(Unread) = len - (off + 1) + 1
      /\ \A i \in 1 .. (len - (off + 1) + 1) : Unread[i] = mem[(off + 1) + i - 1]
  <2>1. PieceOf(SubSeq(mem, off + 1, len), mem, off + 1, len)
    BY <1>1, Piece
  <2> QED
    BY <2>1, Zenon DEF Unread, PieceOf
<1>3. len - (off + 1) + 1 = len - off /\ \A i \in Nat : (off + 1) + i - 1 = off + i
  BY <1>1
<1>4. ASSUME NEW i \in 1 .. (len - off) PROVE Unread[i] = mem[off + i]
  <2>1. (off + 1) + i - 1 = off + i
    BY <1>1
  <2> QED
    BY <1>2, <1>3, <1>4, <2>1, Zenon
<1> QED
  BY <1>1, <1>2, <1>3, <1>4 DEF UnreadIs

LEMMA UnreadNext == Placed' => UnreadIs'
  BY UnreadFacts, PTL

(* The array m holds u from position o + 1 on, and s behind it.            *)
Holds(m, o, u) == \A i \in 1 .. Len(u) : m[o + i] = u[i]
Behind(c, o, u, s) == SubSeq(c, o + 1, o + Len(u) + Len(s)) = u \o s

(* Bytes copied behind the unread ones are read after them.                *)
LEMMA CopiedBehind ==
  ASSUME NEW m \in Seq(Nat), NEW o \in Nat, NEW u \in Seq(Nat), NEW s \in Seq(Nat),
         o + Len(u) + Len(s) <= Len(m), Holds(m, o, u),
         NEW c, c = Copy(m, o + Len(u), s)
  PROVE  c \in Seq(Nat) /\ Len(c) = Len(m) /\ Behind(c, o, u, s)
<1>1. Len(u) \in Nat /\ Len(s) \in Nat /\ Len(m) \in Nat
  BY LenProperties
<1> DEFINE n == o + Len(u)
           e == o + Len(u) + Len(s)
           p == SubSeq(c, o + 1, e)
           j == u \o s
<1>2. n \in Nat /\ e \in Nat
  BY <1>1
<1>3. /\ c \in Seq(Nat) /\ Len(c) = Len(m)
      /\ \A i \in 1 .. Len(m) : c[i] = IF i - n \in 1 .. Len(s) THEN s[i - n] ELSE m[i]
  <2>1. c = Copy(m, n, s)
    OBVIOUS
  <2> HIDE DEF n
  <2> QED
    BY <1>2, <2>1, CopyFacts
<1>4. /\ p \in Seq(Nat) /\ Len(p) = e - (o + 1) + 1
      /\ \A i \in 1 .. (e - (o + 1) + 1) : p[i] = c[(o + 1) + i - 1]
  <2> DEFINE x == o + 1
  <2>1. x \in Nat \ {0} /\ x <= e + 1 /\ e <= Len(c) /\ e \in Nat /\ c \in Seq(Nat)
    BY <1>1, <1>2, <1>3
  <2> HIDE DEF e, x
  <2>2. PieceOf(SubSeq(c, x, e), c, x, e)
    BY <2>1, Piece
  <2> QED
    BY <2>2, Zenon DEF x, PieceOf
<1>5. /\ j \in Seq(Nat) /\ Len(j) = Len(u) + Len(s)
      /\ \A i \in 1 .. (Len(u) + Len(s)) : j[i] = IF i <= Len(u) THEN u[i] ELSE s[i - Len(u)]
  <2>1. j = u \o s
    OBVIOUS
  <2> HIDE DEF j
  <2> QED
    BY <2>1, Joined
<1> HIDE DEF p, j
<1>6. e - (o + 1) + 1 = Len(u) + Len(s)
  BY <1>1
<1>7. ASSUME NEW i \in 1 .. (Len(u) + Len(s)) PROVE p[i] = j[i]
  <2>1. (o + 1) + i - 1 = o + i /\ o + i \in 1 .. Len(m)
    BY <1>1
  <2>2. p[i] = c[o + i]
    BY <1>4, <1>6, <2>1
  <2>3. c[o + i] = IF (o + i) - n \in 1 .. Len(s) THEN s[(o + i) - n] ELSE m[o + i]
    BY <1>3, <2>1
  <2>4. CASE i <= Len(u)
    <3>1. i \in 1 .. Len(u) /\ (o + i) - n \notin 1 .. Len(s)
      BY <1>1, <2>4
    <3> HIDE DEF n
    <3>2. c[o + i] = m[o + i]
      BY <2>3, <3>1
    <3>3. j[i] = u[i]
      BY <1>5, <2>4
    <3> QED
      BY <2>2, <3>1, <3>2, <3>3 DEF Holds
  <2>5. CASE i > Len(u)
    <3>1. (o + i) - n = i - Len(u) /\ i - Len(u) \in 1 .. Len(s) /\ ~(i <= Len(u))
      BY <1>1, <2>5
    <3> HIDE DEF n
    <3> QED
      BY <1>5, <2>2, <2>3, <3>1
  <2> QED
    BY <1>1, <2>4, <2>5
<1>8. p = j
  BY <1>4, <1>5, <1>6, <1>7, SeqEqual
<1> QED
  BY <1>3, <1>8, Zenon DEF Behind, p, j

(* Write appends to what is unread, moved to the front or not, and takes   *)
(* no more room than twice what it needs.                                  *)
LEMMA WriteFacts ==
  ASSUME Placed, NEW s \in Seq(Nat), Write(s)
  PROVE  /\ Placed' /\ Unread' = Unread \o s
         /\ Len(mem') = Len(mem) \/ Len(mem') <= 2 * (len - off + Len(s))
<1>1. /\ mem \in Seq(Nat) /\ Len(mem) \in Nat /\ off \in Nat /\ len \in Nat /\ off <= len
      /\ len <= Len(mem) /\ Len(s) \in Nat
  BY LenProperties DEF Placed
<1>2. /\ Unread \in Seq(Nat) /\ Len(Unread) = len - off
      /\ \A i \in 1 .. (len - off) : Unread[i] = mem[off + i]
  BY UnreadFacts DEF UnreadIs
<1>3. CASE off > 0 /\ len + Len(s) > Len(mem)
  <2> DEFINE k == Copy(mem, 0, Unread)
             need == len - off + Len(s)
  <2>1. PICK m \in Grow(k, need) : mem' = Copy(m, len - off, s)
    BY <1>3 DEF Write
  <2>2. len' = need /\ off' = 0
    BY <1>3 DEF Write
  <2>3. /\ k \in Seq(Nat) /\ Len(k) = Len(mem)
        /\ \A j \in 1 .. Len(mem) : k[j] = IF j - 0 \in 1 .. Len(Unread) THEN Unread[j - 0] ELSE mem[j]
    BY <1>1, <1>2, CopyFacts
  <2> HIDE DEF k
  <2>4. ASSUME NEW i \in 1 .. Len(Unread) PROVE k[i] = Unread[i]
    <3>1. i \in 1 .. Len(mem) /\ i - 0 = i
      BY <1>1, <1>2
    <3> QED
      BY <2>3, <3>1
  <2>5. need \in Nat
    BY <1>1
  <2>6. /\ m \in Seq(Nat) /\ Len(m) \in Nat /\ Len(m) >= need
        /\ \A i \in 1 .. Len(k) : m[i] = k[i]
        /\ Len(m) = Len(k) \/ Len(m) <= 2 * need
    <3> HIDE DEF need
    <3> QED
      BY <2>1, <2>3, <2>5, GrowFacts
  <2>7. Holds(m, 0, Unread)
    BY <1>1, <1>2, <2>3, <2>4, <2>6 DEF Holds
  <2>8. 0 + Len(Unread) + Len(s) <= Len(m) /\ len - off = 0 + Len(Unread)
        /\ need = 0 + Len(Unread) + Len(s)
    BY <1>1, <1>2, <2>6
  <2>9. mem' = Copy(m, 0 + Len(Unread), s)
    BY <2>1, <2>8
  <2>10. /\ mem' \in Seq(Nat) /\ Len(mem') = Len(m)
         /\ Behind(mem', 0, Unread, s)
    BY <1>2, <2>6, <2>7, <2>8, <2>9, CopiedBehind
  <2>11. Unread' = Unread \o s
    BY <2>2, <2>8, <2>10, Zenon DEF Unread, Behind
  <2>12. Placed'
    BY <2>2, <2>5, <2>6, <2>10 DEF Placed
  <2> QED
    BY <2>3, <2>6, <2>10, <2>11, <2>12
<1>4. CASE ~(off > 0 /\ len + Len(s) > Len(mem))
  <2> DEFINE need == len + Len(s)
  <2>1. PICK m \in Grow(mem, need) : mem' = Copy(m, len, s)
    BY <1>4 DEF Write
  <2>2. len' = need /\ off' = off
    BY <1>4 DEF Write
  <2>3. need \in Nat
    BY <1>1
  <2>4. /\ m \in Seq(Nat) /\ Len(m) \in Nat /\ Len(m) >= need /\ Len(m) >= Len(mem)
        /\ \A i \in 1 .. Len(mem) : m[i] = mem[i]
        /\ Len(m) = Len(mem) \/ Len(m) <= 2 * need
    <3> HIDE DEF need
    <3> QED
      BY <1>1, <2>1, <2>3, GrowFacts
  <2>5. Holds(m, off, Unread)
    <3> SUFFICES ASSUME NEW i \in 1 .. Len(Unread) PROVE m[off + i] = Unread[i]
      BY DEF Holds
    <3>1. off + i \in 1 .. Len(mem) /\ i \in 1 .. (len - off)
      BY <1>1, <1>2
    <3> QED
      BY <1>2, <2>4, <3>1
  <2>6. off + Len(Unread) + Len(s) <= Len(m) /\ len = off + Len(Unread)
        /\ need = off + Len(Unread) + Len(s)
    BY <1>1, <1>2, <2>4
  <2>7. mem' = Copy(m, off + Len(Unread), s)
    BY <2>1, <2>6
  <2>8. /\ mem' \in Seq(Nat) /\ Len(mem') = Len(m)
        /\ Behind(mem', off, Unread, s)
    BY <1>1, <1>2, <2>4, <2>5, <2>6, <2>7, CopiedBehind
  <2>9. Unread' = Unread \o s
    BY <2>2, <2>6, <2>8, Zenon DEF Unread, Behind
  <2>10. Placed'
    BY <1>1, <2>2, <2>3, <2>4, <2>8 DEF Placed
  <2>11. Len(mem') = Len(mem) \/ Len(mem') <= 2 * (len - off + Len(s))
    <3>1. CASE off > 0
      <4>1. len + Len(s) <= Len(mem)
        BY <1>1, <1>4, <3>1
      <4>2. Grow(mem, need) = {mem}
        BY <4>1, Zenon DEF Grow
      <4> QED
        BY <2>1, <2>8, <4>2
    <3>2. CASE off = 0
      BY <1>1, <2>4, <2>8, <3>2
    <3> QED
      BY <1>1, <3>1, <3>2
  <2> QED
    BY <2>9, <2>10, <2>11
<1> QED
  BY <1>3, <1>4
-----------------------------------------------------------------------------
(* The parts of a frame on the wire.                                       *)
LEMMA MarshalFacts ==
  ASSUME NEW p \in Parser!Payloads, NEW id \in Nat
  PROVE  /\ p \in Seq(Nat) /\ Len(p) \in Nat
         /\ Parser!Marshal(id, p) \in Seq(Nat) /\ Len(Parser!Marshal(id, p)) = H + Len(p)
         /\ Parser!Marshal(id, p)[1] = Magic /\ Parser!Marshal(id, p)[2] = id
         /\ Parser!Marshal(id, p)[3] = Len(p)
         /\ \A i \in 1 .. Len(p) : Parser!Marshal(id, p)[H + i] = p[i]
<1>1. PICK n \in 0 .. MaxLen : p \in [1 .. n -> Bytes]
  BY DEF Parser!Payloads
<1>2. n \in Nat /\ p \in [1 .. n -> Nat] /\ Magic \in Nat
  <2>1. n \in Nat /\ Magic \in Nat /\ Bytes \subseteq Nat
    BY FrameAssumption
  <2> QED
    BY <1>1, <2>1
<1>3. p \in Seq(Nat) /\ Len(p) \in Nat
  BY <1>2
<1> DEFINE h == <<Magic, id, Len(p)>>
           m == h \o p
<1>4. h \in Seq(Nat) /\ Len(h) = 3 /\ h[1] = Magic /\ h[2] = id /\ h[3] = Len(p)
  BY <1>2, <1>3
<1> HIDE DEF h
<1>5. /\ m \in Seq(Nat) /\ Len(m) = Len(h) + Len(p)
      /\ \A i \in 1 .. (Len(h) + Len(p)) : m[i] = IF i <= Len(h) THEN h[i] ELSE p[i - Len(h)]
  BY <1>3, <1>4, ConcatProperties
<1>6. Parser!Marshal(id, p) = m
  BY Zenon DEF Parser!Marshal, m, h
<1> HIDE DEF m
<1>7. m[1] = Magic /\ m[2] = id /\ m[3] = Len(p)
  BY <1>3, <1>4, <1>5
<1>8. ASSUME NEW i \in 1 .. Len(p) PROVE m[3 + i] = p[i]
  <2>1. 3 + i \in 1 .. (Len(h) + Len(p)) /\ ~(3 + i <= Len(h)) /\ (3 + i) - Len(h) = i
    BY <1>3, <1>4
  <2> QED
    BY <1>5, <2>1
<1> QED
  BY <1>3, <1>4, <1>5, <1>6, <1>7, <1>8 DEF H, Parser!HeaderSize

(* What a complete frame at the front of b is.                             *)
LEMMA CompleteFacts ==
  ASSUME NEW b \in Seq(Nat), Parser!Complete(b)
  PROVE  /\ Len(b) \in Nat /\ b[1] = Magic /\ b[2] \in Nat /\ b[3] \in Nat
         /\ Parser!Total(b) = H + b[3] /\ Parser!Total(b) <= Len(b) /\ H = 3
<1>1. Len(b) \in Nat
  BY LenProperties
<1>2. Len(b) >= 3 /\ b[1] = Magic /\ Len(b) >= 3 + b[3]
  BY DEF Parser!Complete, Parser!Refused, Parser!HasHeader, Parser!Total, Parser!Length,
         Parser!HeaderSize
<1>3. b[2] \in Nat /\ b[3] \in Nat
  <2>1. 2 \in 1 .. Len(b) /\ 3 \in 1 .. Len(b)
    BY <1>1, <1>2
  <2> QED
    BY <2>1, ElementOfSeq
<1> QED
  BY <1>1, <1>2, <1>3 DEF H, Parser!Total, Parser!Length, Parser!HeaderSize

(* A rest without a frame is shorter than the longest frame.               *)
LEMMA ShortFacts ==
  ASSUME NEW b \in Seq(Nat), ~Parser!Refused(b), ~Parser!Complete(b)
  PROVE  Len(b) <= Parser!HeaderSize + MaxPayload - 1
<1>1. Len(b) \in Nat /\ MaxPayload \in Nat
  BY LenProperties, FrameAssumption
<1>2. CASE Len(b) < 3
  BY <1>1, <1>2 DEF Parser!HeaderSize
<1>3. CASE Len(b) >= 3
  <2>1. b[3] \in Nat
    <3>1. 3 \in 1 .. Len(b)
      BY <1>1, <1>3
    <3> QED
      BY <3>1, ElementOfSeq
  <2>2. ~(b[3] > MaxPayload) /\ ~(Len(b) >= 3 + b[3])
    BY <1>3 DEF Parser!Complete, Parser!Refused, Parser!HasHeader, Parser!Total, Parser!Length,
                Parser!HeaderSize
  <2> QED
    BY <1>1, <2>1, <2>2 DEF Parser!HeaderSize
<1> QED
  BY <1>1, <1>2, <1>3

LEMMA InvPlaced == SInv => Placed
  BY DEF SInv, BufferSound, Placed

(* The end of what has been sent.                                          *)
LEMMA EndInNat ==
  ASSUME SInv, NEW k \in 0 .. Len(sent)
  PROVE  Parser!End(k) \in Nat /\ Len(sent) \in Nat /\ Len(wire) \in Nat
<1>1. sent \in Seq(Parser!Payloads) /\ ends \in Seq(Nat) /\ wire \in Seq(Nat)
      /\ Len(ends) = Len(sent)
  BY DEF SInv, BufferSound, Sending
<1>2. Len(sent) \in Nat /\ Len(wire) \in Nat
  BY <1>1, LenProperties
<1>3. CASE k = 0
  BY <1>2, <1>3 DEF Parser!End
<1>4. CASE k # 0
  <2>1. k \in 1 .. Len(ends)
    BY <1>1, <1>2, <1>4
  <2>2. ends[k] \in Nat
    BY <1>1, <2>1, ElementOfSeq
  <2> QED
    BY <1>2, <1>4, <2>2 DEF Parser!End
<1> QED
  BY <1>3, <1>4

(* A step that leaves the sender alone, or the receiver.                   *)
LEMMA SendingStays == ASSUME Sending, UNCHANGED stream PROVE Sending'
  BY DEF Sending, stream, Parser!End

LEMMA UnreadStays == ASSUME UNCHANGED <<mem, len, off>> PROVE Unread' = Unread
  BY DEF Unread

LEMMA InitSInv == Init => SInv
<1> SUFFICES ASSUME Init PROVE SInv
  OBVIOUS
<1>1. ReadSize \in Nat \ {0} /\ MaxPayload \in Nat
  BY FrameAssumption
<1> DEFINE c == IF ReadSize < Parser!HeaderSize THEN Parser!HeaderSize ELSE ReadSize
<1>2. c \in Nat /\ c <= 2 * (Parser!HeaderSize + MaxPayload - 1 + ReadSize)
  BY <1>1 DEF Parser!HeaderSize
<1>3. mem = [i \in 1 .. c |-> 0]
  BY DEF Init
<1> HIDE DEF c
<1>4. mem \in Seq(Nat) /\ Len(mem) = c
  BY <1>2, <1>3
<1>5. Placed
  <2>1. len = 0 /\ off = 0
    BY DEF Init
  <2> QED
    BY <1>2, <1>4, <2>1 DEF Placed
<1>6. Len(Unread) = 0
  BY <1>5, UnreadFacts DEF UnreadIs, Init
<1>7. Buffer
  BY <1>6 DEF Init, Buffer, Parser!Refused, Parser!Complete, Parser!HasHeader, Parser!HeaderSize
<1>8. BufferSound
  <2>1. sent \in Seq(Parser!Payloads) /\ ends \in Seq(Nat) /\ wire \in Seq(Nat)
    BY DEF Init
  <2>2. base \in [bytes : Nat, frames : Nat]
    BY DEF Init
  <2> QED
    BY <1>2, <1>4, <1>5, <2>1, <2>2 DEF Init, BufferSound, Placed
<1>9. Sending
  BY DEF Init, Sending, Parser!End
<1> QED
  BY <1>7, <1>8, <1>9 DEF SInv

(* A frame is sent.                                                        *)
LEMMA SendSInv == ASSUME SInv, NEW p \in Parser!Payloads, Send(p) PROVE SInv'
<1> DEFINE n == Len(sent)
           m == Parser!Marshal(n + 1, p)
           e == Parser!End(n) + Parser!HeaderSize + Len(p)
<1>1. sent \in Seq(Parser!Payloads) /\ ends \in Seq(Nat) /\ wire \in Seq(Nat)
      /\ Len(ends) = n /\ Len(wire) <= Parser!End(n)
  BY DEF SInv, BufferSound, Sending
<1>2. n \in Nat /\ Parser!End(n) \in Nat /\ Len(wire) \in Nat
  <2>1. n \in Nat
    BY <1>1, LenProperties
  <2> QED
    BY <2>1, EndInNat
<1>3. Len(p) \in Nat /\ m \in Seq(Nat) /\ Len(m) = 3 + Len(p)
  <2>1. n + 1 \in Nat /\ H = 3
    BY <1>2 DEF H, Parser!HeaderSize
  <2> QED
    BY <2>1, MarshalFacts
<1>4. e \in Nat /\ e = Parser!End(n) + 3 + Len(p)
  BY <1>2, <1>3 DEF Parser!HeaderSize
<1>5. /\ sent' = Append(sent, p) /\ ends' = Append(ends, e) /\ wire' = wire \o m
      /\ UNCHANGED <<pc, got, base, mem, len, off, ref>>
  BY DEF Send
<1> HIDE DEF m, e
<1>6. sent' \in Seq(Parser!Payloads) /\ Len(sent') = n + 1
  BY <1>1, <1>5, AppendProperties
<1>7. ends' \in Seq(Nat) /\ Len(ends') = n + 1 /\ ends'[n + 1] = e
  BY <1>1, <1>4, <1>5, AppendProperties
<1>8. wire' \in Seq(Nat) /\ Len(wire') = Len(wire) + Len(m)
  BY <1>1, <1>3, <1>5, ConcatProperties
<1>9. BufferSound'
  BY <1>5, <1>6, <1>7, <1>8 DEF SInv, BufferSound
<1>10. Buffer'
  BY <1>5, UnreadStays DEF SInv, Buffer, Parser!Refused, Parser!Complete, Parser!HasHeader,
     Parser!Length, Parser!Total
<1>11. Sending'
  <2>1. Parser!End(Len(sent))' = e
    BY <1>2, <1>6, <1>7 DEF Parser!End
  <2> QED
    BY <1>1, <1>2, <1>3, <1>4, <1>6, <1>7, <1>8, <2>1 DEF Sending
<1> QED
  BY <1>9, <1>10, <1>11 DEF SInv

(* A read: what is unread is no whole frame, so Write stays in the bound.  *)
LEMMA ReadSInv == ASSUME SInv, NEW n \in 1 .. ReadSize, Read(n) PROVE SInv'
<1> DEFINE s == SubSeq(wire, 1, n)
           r == SubSeq(wire, n + 1, Len(wire))
<1>1. /\ pc = "read" /\ n <= Len(wire) /\ Write(s) /\ wire' = r /\ pc' = "parse"
      /\ UNCHANGED <<sent, ends, got, base, ref>>
  BY DEF Read
<1>2. wire \in Seq(Nat) /\ Len(wire) \in Nat /\ n \in Nat /\ n >= 1 /\ ReadSize \in Nat
      /\ n <= ReadSize /\ MaxPayload \in Nat
  BY LenProperties, FrameAssumption DEF SInv, BufferSound
<1>3. s \in Seq(Nat) /\ Len(s) = n
  <2>1. PieceOf(s, wire, 1, n)
    BY <1>1, <1>2, Piece
  <2> HIDE DEF s
  <2> QED
    BY <1>2, <2>1 DEF PieceOf
<1>4. r \in Seq(Nat) /\ Len(r) = Len(wire) - n
  <2>1. PieceOf(r, wire, n + 1, Len(wire))
    BY <1>1, <1>2, Piece
  <2> HIDE DEF r
  <2> QED
    BY <1>2, <2>1 DEF PieceOf
<1> HIDE DEF s, r
<1>5. Placed /\ UnreadIs
  BY InvPlaced, UnreadFacts
<1>6. Placed' /\ (Len(mem') = Len(mem) \/ Len(mem') <= 2 * (len - off + n))
  BY <1>1, <1>3, <1>5, WriteFacts
<1>7. len - off <= Parser!HeaderSize + MaxPayload - 1
  <2>1. Unread \in Seq(Nat) /\ Len(Unread) = len - off
    BY <1>5 DEF UnreadIs
  <2>2. Len(Unread) <= Parser!HeaderSize + MaxPayload - 1
    BY <1>1, <2>1, ShortFacts DEF SInv, Buffer
  <2> QED
    BY <2>1, <2>2
<1>8. Len(mem') <= 2 * (Parser!HeaderSize + MaxPayload - 1 + ReadSize)
  <2>1. len \in Nat /\ off \in Nat
    BY <1>5 DEF UnreadIs
  <2>2. CASE Len(mem') = Len(mem)
    BY <2>2 DEF SInv, BufferSound
  <2>3. CASE Len(mem') <= 2 * (len - off + n)
    <3>1. Len(mem') \in Nat
      BY <1>6, LenProperties DEF Placed
    <3> QED
      BY <1>2, <1>7, <2>1, <2>3, <3>1 DEF Parser!HeaderSize
  <2> QED
    BY <1>6, <2>2, <2>3
<1>9. ref = NoFrame
  BY <1>1 DEF SInv, BufferSound
<1>10. BufferSound'
  BY <1>1, <1>4, <1>6, <1>8, <1>9 DEF SInv, BufferSound, Placed
<1>11. Buffer'
  BY <1>1 DEF SInv, Buffer
<1>12. Sending'
  <2>1. Parser!End(Len(sent))' = Parser!End(Len(sent)) /\ Parser!End(Len(sent)) \in Nat
    <3>1. Len(sent) \in 0 .. Len(sent)
      BY LenProperties DEF SInv, BufferSound
    <3>2. Parser!End(Len(sent)) \in Nat
      BY <3>1, EndInNat
    <3> QED
      BY <1>1, <3>2 DEF Parser!End
  <2> QED
    BY <1>1, <1>2, <1>4, <2>1 DEF SInv, Sending
<1> QED
  BY <1>10, <1>11, <1>12 DEF SInv

LEMMA ShortSInv == ASSUME SInv, NextShort PROVE SInv'
<1>1. pc = "parse" /\ pc' = "read" /\ UNCHANGED <<stream, got, base, mem, len, off, ref>>
  BY DEF NextShort
<1>2. Unread' = Unread
  BY <1>1, UnreadStays
<1>3. BufferSound'
  BY <1>1 DEF SInv, BufferSound, stream
<1>4. Buffer'
  BY <1>1, <1>2 DEF SInv, Buffer, NextShort, Parser!Refused, Parser!Complete, Parser!HasHeader,
     Parser!Length, Parser!Total
<1>5. Sending'
  BY <1>1, SendingStays DEF SInv
<1> QED
  BY <1>3, <1>4, <1>5 DEF SInv

LEMMA ErrorSInv == ASSUME SInv, NextError PROVE SInv'
<1>1. /\ pc = "parse" /\ pc' = "read" /\ len' = 0 /\ off' = 0
      /\ base' = [bytes |-> Parser!Received, frames |-> Len(got)]
      /\ UNCHANGED <<stream, got, mem, ref>>
  BY DEF NextError
<1>2. Placed'
  <2>1. mem \in Seq(Nat) /\ Len(mem) \in Nat
    BY LenProperties DEF SInv, BufferSound
  <2> QED
    BY <1>1, <2>1 DEF Placed
<1>3. Len(Unread') = 0
  BY <1>1, <1>2, UnreadNext DEF UnreadIs
<1>4. Parser!Received \in Nat /\ Len(got) \in Nat
  <2>1. Len(sent) \in 0 .. Len(sent)
    BY LenProperties DEF SInv, BufferSound
  <2>2. Parser!End(Len(sent)) \in Nat /\ Len(wire) \in Nat
    BY <2>1, EndInNat
  <2>3. Len(got) \in Nat
    BY LenProperties DEF SInv, Buffer
  <2> QED
    BY <2>2, <2>3 DEF Parser!Received, SInv, Sending
<1>5. BufferSound'
  BY <1>1, <1>2, <1>4 DEF SInv, BufferSound, Placed, stream
<1>6. Buffer'
  BY <1>1, <1>3 DEF SInv, Buffer, Parser!Refused, Parser!Complete, Parser!HasHeader,
     Parser!HeaderSize
<1>7. Sending'
  BY <1>1, SendingStays DEF SInv
<1> QED
  BY <1>5, <1>6, <1>7 DEF SInv

LEMMA NextRefSInv == ASSUME SInv, NextRef PROVE SInv'
<1> DEFINE t == Parser!Total(Unread)
<1>1. /\ pc = "parse" /\ pc' = "handle"
      /\ ref' = [id |-> Unread[2], from |-> off + Parser!HeaderSize + 1, to |-> off + t]
      /\ (len' = 0 /\ off' = 0) \/ (off' = off + t /\ len' = len)
      /\ UNCHANGED <<stream, got, base, mem>>
  BY DEF NextRef, Parser!FirstFrame
<1>2. Placed /\ UnreadIs
  BY InvPlaced, UnreadFacts
<1>3. Unread \in Seq(Nat) /\ Len(Unread) = len - off /\ len \in Nat /\ off \in Nat
  BY <1>2 DEF UnreadIs
<1>4. Unread[2] \in Nat /\ t \in Nat /\ t <= len - off
  <2>1. Parser!Complete(Unread)
    BY DEF NextRef
  <2>2. Unread[2] \in Nat /\ Unread[3] \in Nat /\ t = 3 + Unread[3] /\ t <= Len(Unread)
    BY <1>3, <2>1, CompleteFacts
  <2> QED
    BY <1>3, <2>2
<1> HIDE DEF t
<1>5. Len(mem) \in Nat /\ len <= Len(mem)
  BY <1>2, LenProperties DEF Placed
<1>6. ref' \in [id : Nat, from : Nat \ {0}, to : Nat] /\ ref'.to <= Len(mem)
  BY <1>1, <1>3, <1>4, <1>5 DEF Parser!HeaderSize
<1>7. Placed'
  <2>1. mem' = mem /\ mem \in Seq(Nat)
    BY <1>1, <1>2 DEF Placed
  <2>2. CASE len' = 0 /\ off' = 0
    BY <1>5, <2>1, <2>2 DEF Placed
  <2>3. CASE off' = off + t /\ len' = len
    <3>1. off + t \in 0 .. len
      BY <1>3, <1>4
    <3>2. len \in 0 .. Len(mem)
      BY <1>3, <1>5
    <3> QED
      BY <2>1, <2>3, <3>1, <3>2, Zenon DEF Placed
  <2> QED
    BY <1>1, <2>2, <2>3, Zenon
<1>8. BufferSound'
  <2>1. UNCHANGED <<sent, ends, wire, base, mem>> /\ pc' = "handle" /\ ref'.to <= Len(mem')
    BY <1>1, <1>6 DEF stream
  <2>2. mem' \in Seq(Nat) /\ off' \in 0 .. len' /\ len' \in 0 .. Len(mem')
    BY <1>7 DEF Placed
  <2>3. /\ sent \in Seq(Parser!Payloads) /\ ends \in Seq(Nat) /\ wire \in Seq(Nat)
        /\ base \in [bytes : Nat, frames : Nat]
        /\ Len(mem) <= 2 * (Parser!HeaderSize + MaxPayload - 1 + ReadSize)
    BY DEF SInv, BufferSound
  <2>4. /\ sent' \in Seq(Parser!Payloads) /\ ends' \in Seq(Nat) /\ wire' \in Seq(Nat)
        /\ base' \in [bytes : Nat, frames : Nat]
        /\ Len(mem') <= 2 * (Parser!HeaderSize + MaxPayload - 1 + ReadSize)
    BY <2>1, <2>3, Zenon
  <2> QED
    BY <2>1, <2>2, <2>4 DEF BufferSound, Parser!Payloads, Parser!HeaderSize
<1>9. Buffer'
  BY <1>1, <1>6 DEF SInv, Buffer
<1>10. Sending'
  BY <1>1, SendingStays DEF SInv
<1> QED
  BY <1>8, <1>9, <1>10 DEF SInv

(* What the handler reads is a piece of the array.                         *)
LEMMA DerefType == ASSUME SInv, pc = "handle" PROVE Deref(ref) \in Frames
<1>1. ref \in [id : Nat, from : Nat \ {0}, to : Nat] /\ ref.to <= Len(mem) /\ mem \in Seq(Nat)
  BY DEF SInv, Buffer, BufferSound
<1>2. Len(mem) \in Nat /\ ref.from \in Nat \ {0} /\ ref.to \in Nat /\ ref.id \in Nat
  BY <1>1, LenProperties
<1>3. \A i \in ref.from .. ref.to : mem[i] \in Nat
  BY <1>1, <1>2, ElementOfSeq
<1>4. SubSeq(mem, ref.from, ref.to) \in Seq(Nat)
  BY <1>2, <1>3, SubSeqProperties
<1> QED
  BY <1>2, <1>4 DEF Deref, Frames

LEMMA HandleSInv == ASSUME SInv, Handle PROVE SInv'
<1>1. /\ pc = "handle" /\ pc' = "parse" /\ got' = Append(got, Deref(ref)) /\ ref' = NoFrame
      /\ UNCHANGED <<stream, base, mem, len, off>>
  BY DEF Handle
<1>2. BufferSound'
  BY <1>1 DEF SInv, BufferSound, stream
<1>3. got' \in Seq(Frames)
  <2>1. Deref(ref) \in Frames /\ got \in Seq(Frames)
    BY <1>1, DerefType DEF SInv, Buffer
  <2> QED
    BY <1>1, <2>1, AppendProperties
<1>4. Buffer'
  BY <1>1, <1>3 DEF Buffer
<1>5. Sending'
  BY <1>1, SendingStays DEF SInv
<1> QED
  BY <1>2, <1>4, <1>5 DEF SInv

LEMMA NextSInv == ASSUME SInv, [Next]_vars PROVE SInv'
<1>1. CASE UNCHANGED vars
  <2>1. Unread' = Unread
    BY <1>1, UnreadStays DEF vars
  <2>2. BufferSound'
    BY <1>1 DEF vars, SInv, BufferSound, stream
  <2>3. Buffer'
    BY <1>1, <2>1 DEF vars, SInv, Buffer, Parser!Refused, Parser!Complete, Parser!HasHeader,
       Parser!Length, Parser!Total
  <2>4. Sending'
    BY <1>1, SendingStays DEF SInv, vars
  <2> QED
    BY <2>2, <2>3, <2>4 DEF SInv
<1> QED
  BY <1>1, SendSInv, ReadSInv, ShortSInv, ErrorSInv, NextRefSInv, HandleSInv DEF Next

LEMMA Invariance == Spec => []SInv
<1>1. SInv /\ [Next]_vars => SInv'
  BY NextSInv
<1> QED
  BY <1>1, InitSInv, PTL DEF Spec

(* Whatever the stream and its cuts, Write keeps buf inside the array, a   *)
(* reference that NextRef hands out stays inside it, and the array never   *)
(* grows beyond twice a frame and a read.                                  *)
THEOREM BufferSafe == Spec => []BufferSound
<1>1. SInv => BufferSound
  BY DEF SInv
<1> QED
  BY <1>1, Invariance, PTL
-----------------------------------------------------------------------------
(* What FrameParser sees, and when it sees no change.                      *)
GotIs ==
  /\ Got \in Seq(Frames)
  /\ pc # "handle" => Got = got /\ Pc = pc
  /\ pc = "handle" => Got = Append(got, Deref(ref)) /\ Pc = "parse"

LEMMA GotFacts == SInv => GotIs
<1> SUFFICES ASSUME SInv PROVE GotIs
  OBVIOUS
<1>1. got \in Seq(Frames)
  BY DEF SInv, Buffer
<1>2. CASE pc = "handle"
  <2>1. ref # NoFrame
    BY <1>2, FrameAssumption DEF SInv, Buffer
  <2>2. Got = Append(got, Deref(ref)) /\ Pc = "parse"
    BY <1>2, <2>1, Zenon DEF Got, Pc
  <2>3. Append(got, Deref(ref)) \in Seq(Frames)
    BY <1>1, <1>2, DerefType, AppendProperties
  <2> QED
    BY <1>2, <2>2, <2>3 DEF GotIs
<1>3. CASE pc # "handle"
  <2>1. ref = NoFrame
    BY <1>3 DEF SInv, BufferSound
  <2>2. Got = got /\ Pc = pc
    BY <1>3, <2>1, Zenon DEF Got, Pc
  <2> QED
    BY <1>1, <1>3, <2>2 DEF GotIs
<1> QED
  BY <1>2, <1>3

LEMMA GotNext == SInv' => GotIs'
  BY GotFacts, PTL

(* FrameParser's variables are these.                                      *)
LEMMA View ==
  /\ Parser!vars = <<sent, ends, wire, Unread, Pc, Got, base>>
  /\ Parser!vars' = <<sent', ends', wire', Unread', Pc', Got', base'>>
  BY DEF Parser!vars, Pc, Got

(* A piece of what is unread, as a piece of the array.                     *)
LEMMA UnreadPiece ==
  ASSUME Placed, NEW a \in Nat \ {0}, NEW b \in Nat, a <= b + 1, b <= len - off
  PROVE  SubSeq(Unread, a, b) = SubSeq(mem, off + a, off + b)
<1>1. Unread \in Seq(Nat) /\ Len(Unread) = len - off /\ len \in Nat /\ off \in Nat
      /\ \A i \in 1 .. (len - off) : Unread[i] = mem[off + i]
  BY UnreadFacts DEF UnreadIs
<1>2. mem \in Seq(Nat) /\ Len(mem) \in Nat /\ len <= Len(mem) /\ off <= len
  BY LenProperties DEF Placed
<1> DEFINE p == SubSeq(Unread, a, b)
           q == SubSeq(mem, off + a, off + b)
<1>3. /\ p \in Seq(Nat) /\ Len(p) = b - a + 1
      /\ \A i \in 1 .. (b - a + 1) : p[i] = Unread[a + i - 1]
  <2>1. PICK u : u = Unread
    OBVIOUS
  <2>2. u \in Seq(Nat) /\ b <= Len(u)
    BY <1>1, <2>1
  <2>3. PieceOf(SubSeq(u, a, b), u, a, b)
    BY <2>2, Piece
  <2> QED
    BY <2>1, <2>3, Zenon DEF PieceOf
<1>4. /\ q \in Seq(Nat) /\ Len(q) = (off + b) - (off + a) + 1
      /\ \A i \in 1 .. ((off + b) - (off + a) + 1) : q[i] = mem[(off + a) + i - 1]
  <2> DEFINE x == off + a
             y == off + b
  <2>1. x \in Nat \ {0} /\ y \in Nat /\ x <= y + 1 /\ y <= Len(mem)
    BY <1>1, <1>2
  <2> HIDE DEF x, y
  <2>2. PieceOf(SubSeq(mem, x, y), mem, x, y)
    BY <1>2, <2>1, Piece
  <2> QED
    BY <2>2, Zenon DEF x, y, PieceOf
<1> HIDE DEF p, q
<1>5. (off + b) - (off + a) + 1 = b - a + 1
  BY <1>1
<1>6. ASSUME NEW i \in 1 .. (b - a + 1) PROVE p[i] = q[i]
  <2>1. a + i - 1 \in 1 .. (len - off) /\ off + (a + i - 1) = (off + a) + i - 1
    BY <1>1
  <2> QED
    BY <1>1, <1>3, <1>4, <1>5, <2>1
<1>7. p = q
  BY <1>3, <1>4, <1>5, <1>6, SeqEqual
<1> QED
  BY <1>7 DEF p, q

(* NextRef, to FrameParser, hands the first frame over.                    *)
LEMMA NextRefView ==
  ASSUME SInv, NextRef
  PROVE  /\ Got' = Append(Got, Parser!FirstFrame(Unread)) /\ Pc = "parse" /\ Pc' = "parse"
         /\ Unread' = SubSeq(Unread, Parser!Total(Unread) + 1, Len(Unread))
<1> DEFINE t == Parser!Total(Unread)
<1>1. /\ pc = "parse" /\ pc' = "handle" /\ got' = got /\ mem' = mem
      /\ ref' = [id |-> Unread[2], from |-> off + Parser!HeaderSize + 1, to |-> off + t]
      /\ IF off + t = len THEN len' = 0 /\ off' = 0 ELSE off' = off + t /\ len' = len
  BY DEF NextRef, Parser!FirstFrame
<1>2. SInv' /\ Placed /\ UnreadIs
  BY NextRefSInv, InvPlaced, UnreadFacts
<1>3. Unread \in Seq(Nat) /\ Len(Unread) = len - off /\ len \in Nat /\ off \in Nat
  BY <1>2 DEF UnreadIs
<1>4. t \in Nat /\ 3 <= t /\ t <= len - off
  <2>1. Parser!Complete(Unread)
    BY DEF NextRef
  <2>2. Unread[3] \in Nat /\ t = 3 + Unread[3] /\ t <= Len(Unread)
    BY <1>3, <2>1, CompleteFacts
  <2> QED
    BY <1>3, <2>2
<1> HIDE DEF t
<1>5. SubSeq(Unread, Parser!HeaderSize + 1, t) = SubSeq(mem, off + Parser!HeaderSize + 1, off + t)
  <2>1. SubSeq(Unread, 4, t) = SubSeq(mem, off + 4, off + t)
    <3>1. 4 \in Nat \ {0} /\ 4 <= t + 1
      BY <1>4
    <3> QED
      BY <1>2, <1>4, <3>1, UnreadPiece, Zenon
  <2>2. Parser!HeaderSize + 1 = 4 /\ off + Parser!HeaderSize + 1 = off + 4
    BY <1>3 DEF Parser!HeaderSize
  <2> QED
    BY <2>1, <2>2, Zenon
<1>6. Deref(ref)' = Parser!FirstFrame(Unread)
  <2> DEFINE x == SubSeq(mem, off + Parser!HeaderSize + 1, off + t)
  <2>1. ref'.id = Unread[2] /\ ref'.from = off + Parser!HeaderSize + 1 /\ ref'.to = off + t
    BY <1>1
  <2>2. Deref(ref)' = [id |-> Unread[2], payload |-> x]
    BY <1>1, <2>1, Zenon DEF Deref
  <2>3. Parser!FirstFrame(Unread) = [id |-> Unread[2], payload |-> x]
    BY <1>5, Zenon DEF Parser!FirstFrame, t
  <2> QED
    BY <2>2, <2>3, Zenon
<1>7. Got' = Append(Got, Parser!FirstFrame(Unread)) /\ Pc = "parse" /\ Pc' = "parse"
  <2>1. Got = got /\ Pc = "parse"
    BY <1>1, GotFacts DEF GotIs
  <2>2. Got' = Append(got, Deref(ref))' /\ Pc' = "parse"
    BY <1>1, <1>2, GotNext, Zenon DEF GotIs
  <2>3. Append(got, Deref(ref))' = Append(got', Deref(ref)')
    OBVIOUS
  <2> QED
    BY <1>1, <1>6, <2>1, <2>2, <2>3, Zenon
<1>8. SubSeq(Unread, t + 1, len - off) = SubSeq(mem, off + (t + 1), off + (len - off))
  <2>1. t + 1 \in Nat \ {0} /\ len - off \in Nat /\ t + 1 <= (len - off) + 1
        /\ len - off <= len - off
    BY <1>3, <1>4
  <2> QED
    BY <1>2, <2>1, UnreadPiece, Zenon
<1>9. off + (t + 1) = off + t + 1 /\ off + (len - off) = len
  BY <1>3, <1>4
<1>10. Unread' = SubSeq(mem, off + t + 1, len)
  <2>1. CASE off + t = len
    <3>1. len' = 0 /\ off' = 0
      BY <1>1, <2>1
    <3>2. SubSeq(mem, off + t + 1, len) = <<>>
      <4>1. len < off + t + 1 /\ off + t + 1 \in Int /\ len \in Int
        BY <1>3, <1>4, <2>1
      <4> QED
        BY <4>1, SubSeqEmpty
    <3>3. SubSeq(mem', 0 + 1, 0) = <<>>
      BY SubSeqEmpty
    <3> QED
      BY <3>1, <3>2, <3>3, Zenon DEF Unread
  <2>2. CASE off + t # len
    <3>1. off' = off + t /\ len' = len
      BY <1>1, <2>2
    <3> QED
      BY <1>1, <3>1, Zenon DEF Unread
  <2> QED
    BY <2>1, <2>2
<1>11. Unread' = SubSeq(Unread, t + 1, Len(Unread))
  BY <1>3, <1>8, <1>9, <1>10, Zenon
<1> QED
  BY <1>7, <1>11 DEF t

(* Every step is a step of FrameParser, or none.                           *)
LEMMA StepRefines == ASSUME SInv, [Next]_vars PROVE [Parser!Next]_(Parser!vars)
<1>0. SInv'
  BY NextSInv
<1>1. ASSUME NEW p \in Parser!Payloads, Send(p) PROVE Parser!Send(p)
  <2>1. UNCHANGED <<pc, got, base, mem, len, off, ref>>
    BY <1>1 DEF Send
  <2>2. UNCHANGED <<Unread, Pc, Got>>
    BY <2>1 DEF Unread, Pc, Got, Deref
  <2> QED
    BY <1>1, <2>1, <2>2, Zenon DEF Send, Parser!Send, Pc, Got
<1>2. ASSUME NEW n \in 1 .. ReadSize, Read(n) PROVE Parser!Read(n)
  <2>1. wire \in Seq(Nat) /\ Len(wire) \in Nat /\ n \in Nat /\ n >= 1 /\ n <= Len(wire)
    BY <1>2, LenProperties DEF SInv, BufferSound, Read
  <2>2. SubSeq(wire, 1, n) \in Seq(Nat)
    <3>1. PieceOf(SubSeq(wire, 1, n), wire, 1, n)
      BY <2>1, Piece
    <3> QED
      BY <3>1, Zenon DEF PieceOf
  <2>3. Unread' = Unread \o SubSeq(wire, 1, n)
    <3> DEFINE s == SubSeq(wire, 1, n)
    <3>1. Write(s)
      BY <1>2 DEF Read
    <3> HIDE DEF s
    <3>2. Unread' = Unread \o s
      BY <2>2, <3>1, InvPlaced, WriteFacts DEF s
    <3> QED
      BY <3>2 DEF s
  <2>4. pc = "read" /\ pc' = "parse" /\ got' = got
    BY <1>2 DEF Read
  <2>5. Got' = Got /\ Pc = "read" /\ Pc' = "parse"
    BY <1>0, <2>4, GotFacts, GotNext DEF GotIs
  <2> QED
    BY <1>2, <2>3, <2>5, Zenon DEF Read, Parser!Read, Pc, Got
<1>3. CASE NextShort
  <2>1. pc = "parse" /\ pc' = "read" /\ got' = got
    BY <1>3 DEF NextShort
  <2>2. Got' = Got /\ Pc = "parse" /\ Pc' = "read"
    BY <1>0, <2>1, GotFacts, GotNext DEF GotIs
  <2>3. UNCHANGED <<sent, ends, wire, Unread, Got, base>>
    BY <1>3, <2>2, UnreadStays DEF NextShort, stream
  <2>4. ~Parser!Refused(Unread) /\ ~Parser!Complete(Unread)
    BY <1>3 DEF NextShort
  <2>5. Parser!Short
    BY <2>2, <2>3, <2>4, Zenon DEF Parser!Short, Pc, Got
  <2> QED
    BY <2>5 DEF Parser!Next
<1>4. CASE NextError
  <2>1. pc = "parse" /\ pc' = "read" /\ got' = got /\ len' = 0 /\ off' = 0
    BY <1>4 DEF NextError
  <2>2. Got = got /\ Got' = Got /\ Pc = "parse" /\ Pc' = "read"
    BY <1>0, <2>1, GotFacts, GotNext DEF GotIs
  <2>3. Unread' = <<>>
    <3>1. SubSeq(mem', 0 + 1, 0) = <<>>
      BY SubSeqEmpty
    <3> QED
      BY <2>1, <3>1, Zenon DEF Unread
  <2>4. /\ UNCHANGED <<sent, ends, wire, Got>>
        /\ base' = [bytes |-> Parser!Received, frames |-> Len(Got)]
    BY <1>4, <2>2 DEF NextError, stream
  <2>5. Parser!Refused(Unread)
    BY <1>4 DEF NextError
  <2>6. Parser!Discard
    BY <2>2, <2>3, <2>4, <2>5, Zenon DEF Parser!Discard, Pc, Got
  <2> QED
    BY <2>6 DEF Parser!Next
<1>5. CASE NextRef
  <2>1. /\ Got' = Append(Got, Parser!FirstFrame(Unread)) /\ Pc = "parse" /\ Pc' = "parse"
        /\ Unread' = SubSeq(Unread, Parser!Total(Unread) + 1, Len(Unread))
    BY <1>5, NextRefView
  <2>2. UNCHANGED <<sent, ends, wire, base>> /\ Parser!Complete(Unread)
    BY <1>5 DEF NextRef, stream
  <2>3. Parser!Handle
    BY <2>1, <2>2, Zenon DEF Parser!Handle, Pc, Got
  <2> QED
    BY <2>3 DEF Parser!Next
<1>6. CASE Handle
  <2>1. /\ pc = "handle" /\ pc' = "parse" /\ got' = Append(got, Deref(ref))
        /\ UNCHANGED <<stream, base, mem, len, off>>
    BY <1>6 DEF Handle
  <2>2. Got' = Got /\ Pc = "parse" /\ Pc' = "parse"
    BY <1>0, <2>1, GotFacts, GotNext DEF GotIs
  <2>3. UNCHANGED <<sent, ends, wire, Unread, Pc, Got, base>>
    BY <2>1, <2>2, UnreadStays DEF stream
  <2> QED
    BY <2>3, View, Zenon
<1>7. CASE UNCHANGED vars
  <2>1. UNCHANGED <<sent, ends, wire, Unread, Pc, Got, base>>
    BY <1>7 DEF vars, stream, Unread, Pc, Got, Deref
  <2> QED
    BY <2>1, View, Zenon
<1> QED
  BY <1>1, <1>2, <1>3, <1>4, <1>5, <1>6, <1>7 DEF Next, Parser!Next

(* The client's StreamBuffer does what the server's parsers do on a plain  *)
(* queue of bytes: the frames it hands out by reference, from an array     *)
(* that is reused, moved and grown, are the frames of the queue, for every *)
(* cut of the stream and all sizes.                                        *)
THEOREM Refines == Spec => ParsesFrames
<1>1. Init => Parser!Init
  <2> SUFFICES ASSUME Init PROVE Parser!Init
    OBVIOUS
  <2>1. len = 0 /\ off = 0 /\ pc = "read" /\ ref = NoFrame
    BY DEF Init
  <2>2. SubSeq(mem, 0 + 1, 0) = <<>>
    BY SubSeqEmpty
  <2>3. Unread = <<>>
    BY <2>1, <2>2, Zenon DEF Unread
  <2> QED
    BY <2>1, <2>3 DEF Init, Parser!Init
<1>2. SInv /\ [Next]_vars => [Parser!Next]_(Parser!vars)
  BY StepRefines
<1> QED
  BY <1>1, <1>2, Invariance, PTL DEF Spec, ParsesFrames, Parser!Spec
-----------------------------------------------------------------------------
(* No frame is lost, cut or made up.                                       *)

Sizes ==
  /\ Len(sent) \in Nat /\ Len(wire) \in Nat /\ Len(Unread) \in Nat /\ Begin \in Int
  /\ \A k \in 0 .. Len(sent) : Parser!End(k) \in Nat
  /\ \A k \in 1 .. Len(sent) : sent[k] \in Parser!Payloads /\ Len(sent[k]) \in Nat

LEMMA SizesFacts == SInv => Sizes
<1> SUFFICES ASSUME SInv PROVE Sizes
  OBVIOUS
<1>1. sent \in Seq(Parser!Payloads)
  BY DEF SInv, BufferSound
<1>2. Len(sent) \in Nat
  BY <1>1, LenProperties
<1>3. Len(sent) \in 0 .. Len(sent)
  BY <1>2
<1>4. Len(wire) \in Nat /\ \A k \in 0 .. Len(sent) : Parser!End(k) \in Nat
  BY <1>3, EndInNat
<1>5. Len(Unread) \in Nat
  BY InvPlaced, UnreadFacts, LenProperties DEF UnreadIs
<1>6. \A k \in 1 .. Len(sent) : sent[k] \in Parser!Payloads
  BY <1>1, ElementOfSeq
<1>7. \A k \in 1 .. Len(sent) : Len(sent[k]) \in Nat
  <2>1. 0 \in Nat
    OBVIOUS
  <2> QED
    BY <1>6, <2>1, MarshalFacts
<1>8. Begin \in Int
  BY <1>2, <1>3, <1>4, <1>5 DEF Begin
<1> QED
  BY <1>2, <1>4, <1>5, <1>6, <1>7, <1>8 DEF Sizes

LEMMA SizesNext == SInv' => Sizes'
  BY SizesFacts, PTL

(* The frames of the stream end in its order.                              *)
LEMMA EndsOrdered ==
  ASSUME SInv, Layout, NEW j \in 0 .. Len(sent), NEW k \in 0 .. Len(sent)
  PROVE  /\ j <= k => Parser!End(j) <= Parser!End(k)
         /\ Parser!End(j) <= Parser!End(k) => j <= k
<1>1. Parser!End(j) \in Nat /\ Parser!End(k) \in Nat /\ Len(sent) \in Nat
  BY SizesFacts DEF Sizes
<1>2. (j < k => Parser!End(j) < Parser!End(k)) /\ (k < j => Parser!End(k) < Parser!End(j))
  BY DEF Layout
<1> QED
  BY <1>1, <1>2

(* The bytes of a frame, if the parser has not passed them.                *)
LEMMA ByteAt ==
  ASSUME Content, NEW k \in 1 .. Len(sent), NEW j \in 1 .. (H + Len(sent[k])),
         NEW x \in 1 .. (Len(Unread) + Len(wire)), Begin + x = Parser!End(k - 1) + j
  PROVE  Rest(x) = Parser!Marshal(k, sent[k])[j]
  BY DEF Content

(* Where the parser stands at the end of a frame, the header it sees is    *)
(* that of the next one, ...                                               *)
LEMMA HeaderAt ==
  ASSUME SInv, Layout, Content, NEW k \in 0 .. Len(sent), k < Len(sent),
         Begin = Parser!End(k), Len(Unread) >= 3
  PROVE  Unread[1] = Magic /\ Unread[2] = k + 1 /\ Unread[3] = Len(sent[k + 1])
<1>1. Len(sent) \in Nat /\ k + 1 \in 1 .. Len(sent) /\ (k + 1) - 1 = k /\ k + 1 \in Nat
      /\ Len(Unread) \in Nat /\ H = 3 /\ Len(wire) \in Nat
  BY SizesFacts DEF Sizes, H, Parser!HeaderSize
<1>2. Parser!End(k) \in Nat /\ sent[k + 1] \in Parser!Payloads /\ Len(sent[k + 1]) \in Nat
  BY <1>1, SizesFacts DEF Sizes
<1>3. ASSUME NEW j \in 1 .. 3 PROVE Unread[j] = Parser!Marshal(k + 1, sent[k + 1])[j]
  <2>1. j \in 1 .. (H + Len(sent[k + 1])) /\ j \in 1 .. (Len(Unread) + Len(wire))
        /\ j <= Len(Unread)
    BY <1>1, <1>2
  <2>2. Rest(j) = Parser!Marshal(k + 1, sent[k + 1])[j]
    BY <1>1, <2>1, ByteAt
  <2> QED
    BY <2>1, <2>2 DEF Rest
<1>4. /\ Parser!Marshal(k + 1, sent[k + 1])[1] = Magic
      /\ Parser!Marshal(k + 1, sent[k + 1])[2] = k + 1
      /\ Parser!Marshal(k + 1, sent[k + 1])[3] = Len(sent[k + 1])
  BY <1>1, <1>2, MarshalFacts
<1> QED
  BY <1>3, <1>4

(* ... and what it takes for the frame is the frame.                       *)
LEMMA FrameAt ==
  ASSUME SInv, Layout, Content, NEW k \in 0 .. Len(sent), k < Len(sent),
         Begin = Parser!End(k), Parser!Complete(Unread)
  PROVE  /\ Parser!FirstFrame(Unread) = Parser!Frame(k + 1)
         /\ Begin + Parser!Total(Unread) = Parser!End(k + 1)
<1>1. Unread \in Seq(Nat)
  BY InvPlaced, UnreadFacts DEF UnreadIs
<1>2. /\ Len(Unread) \in Nat /\ Unread[3] \in Nat /\ Parser!Total(Unread) = 3 + Unread[3]
      /\ Parser!Total(Unread) <= Len(Unread)
  BY <1>1, CompleteFacts
<1>3. Unread[2] = k + 1 /\ Unread[3] = Len(sent[k + 1])
  BY <1>2, HeaderAt
<1>4. Len(sent) \in Nat /\ k + 1 \in 1 .. Len(sent) /\ (k + 1) - 1 = k /\ k + 1 \in Nat /\ H = 3
      /\ Parser!End(k) \in Nat /\ Len(wire) \in Nat
  BY SizesFacts DEF Sizes, H, Parser!HeaderSize
<1>5. sent[k + 1] \in Parser!Payloads /\ sent[k + 1] \in Seq(Nat) /\ Len(sent[k + 1]) \in Nat
      /\ \A i \in 1 .. Len(sent[k + 1]) :
           Parser!Marshal(k + 1, sent[k + 1])[3 + i] = sent[k + 1][i]
  BY <1>4, SizesFacts, MarshalFacts DEF Sizes
<1> DEFINE q == sent[k + 1]
           t == Parser!Total(Unread)
           s == SubSeq(Unread, 4, t)
<1>6. t \in Nat /\ t = 3 + Len(q) /\ t <= Len(Unread)
  BY <1>2, <1>3, <1>5
<1>7. s \in Seq(Nat) /\ Len(s) = t - 4 + 1 /\ \A i \in 1 .. (t - 4 + 1) : s[i] = Unread[4 + i - 1]
  <2>1. 4 \in Nat \ {0} /\ 4 <= t + 1
    BY <1>5, <1>6
  <2> HIDE DEF t
  <2>2. PieceOf(s, Unread, 4, t)
    BY <1>1, <1>6, <2>1, Piece
  <2> QED
    BY <2>2, Zenon DEF PieceOf
<1> HIDE DEF s, t
<1>8. ASSUME NEW i \in 1 .. Len(q) PROVE s[i] = q[i]
  <2>1. i \in 1 .. (t - 4 + 1) /\ 4 + i - 1 = 3 + i
    BY <1>5, <1>6
  <2>2. s[i] = Unread[3 + i]
    BY <1>7, <2>1
  <2>3. 3 + i \in 1 .. (H + Len(q)) /\ 3 + i \in 1 .. (Len(Unread) + Len(wire))
        /\ 3 + i <= Len(Unread)
    <3>1. i \in Nat /\ 1 <= i /\ i <= Len(q)
      BY <1>5
    <3> HIDE DEF q
    <3>2. 3 + i <= 3 + Len(q) /\ Len(q) \in Nat
      BY <1>5, <3>1 DEF q
    <3>3. 3 + i <= Len(Unread)
      BY <1>2, <1>6, <3>1, <3>2
    <3> QED
      BY <1>2, <1>4, <3>1, <3>2, <3>3
  <2>4. Rest(3 + i) = Parser!Marshal(k + 1, q)[3 + i]
    BY <1>4, <2>3, ByteAt
  <2> QED
    BY <1>5, <2>2, <2>3, <2>4 DEF Rest
<1>9. s = q
  <2>1. Len(s) = Len(q)
    BY <1>5, <1>6, <1>7
  <2> QED
    BY <1>5, <1>7, <1>8, <2>1, SeqEqual
<1>10. Parser!FirstFrame(Unread) = [id |-> k + 1, payload |-> s]
  <2>1. Parser!HeaderSize + 1 = 4
    BY DEF Parser!HeaderSize
  <2> QED
    BY <1>3, <2>1, Zenon DEF Parser!FirstFrame, s, t
<1>11. Parser!Frame(k + 1) = [id |-> k + 1, payload |-> q]
  BY DEF Parser!Frame
<1>12. Parser!End(k + 1) = Parser!End((k + 1) - 1) + H + Len(q)
  BY <1>4 DEF Layout
<1>13. Begin + t = Parser!End(k + 1)
  <2>1. Parser!End(k + 1) = Parser!End(k) + H + Len(q)
    BY <1>4, <1>12, Zenon
  <2> DEFINE e == Parser!End(k)
             z == Parser!End(k + 1)
             n == Len(q)
  <2>2. n \in Nat /\ e \in Nat /\ z = e + 3 + n /\ t = 3 + n /\ Begin = e
    BY <1>4, <1>5, <1>6, <2>1
  <2> HIDE DEF e, z, n
  <2>3. e + t = z
    BY <2>2
  <2> QED
    BY <2>2, <2>3, Zenon DEF z
<1> QED
  BY <1>9, <1>10, <1>11, <1>13, Zenon DEF t

(* The sender rests.                                                       *)
LEMMA EndStays == ASSUME sent' = sent, ends' = ends, NEW k PROVE Parser!End(k)' = Parser!End(k)
  BY DEF Parser!End

(* d bytes are gone, and the others are where they were behind them.       *)
LEMMA Moves ==
  ASSUME SInv, SInv', Layout, Content, sent' = sent, ends' = ends, NEW d \in Nat,
         Len(Unread) + Len(wire) = Len(Unread') + Len(wire') + d,
         \A x \in 1 .. (Len(Unread') + Len(wire')) : Rest(x)' = Rest(x + d)
  PROVE  Layout' /\ Content' /\ Begin' = Begin + d
<1>1. /\ Len(sent) \in Nat /\ Len(wire) \in Nat /\ Len(Unread) \in Nat /\ Begin \in Int
      /\ Len(wire') \in Nat /\ Len(Unread') \in Nat /\ H = 3
      /\ \A k \in 0 .. Len(sent) : Parser!End(k) \in Nat
      /\ \A k \in 1 .. Len(sent) : sent[k] \in Parser!Payloads /\ Len(sent[k]) \in Nat
  BY SizesFacts, SizesNext DEF Sizes, H, Parser!HeaderSize
<1>2. Len(sent) \in 0 .. Len(sent)
  BY <1>1
<1>3. Parser!End(Len(sent)) \in Nat
  BY <1>1, <1>2
<1>4. Begin' = Begin + d
  <2>1. Parser!End(Len(sent))' = Parser!End(Len(sent))
    BY DEF Parser!End
  <2> QED
    BY <1>1, <1>3, <2>1 DEF Begin
<1>5. Layout'
  BY DEF Layout, Parser!End, H, Parser!HeaderSize
<1>6. ASSUME NEW k \in 1 .. Len(sent), NEW j \in 1 .. (H + Len(sent[k])),
             NEW x \in 1 .. (Len(Unread') + Len(wire')), Begin' + x = Parser!End(k - 1) + j
      PROVE  Rest(x)' = Parser!Marshal(k, sent[k])[j]
  <2>1. x + d \in 1 .. (Len(Unread) + Len(wire)) /\ Begin + (x + d) = Parser!End(k - 1) + j
    BY <1>1, <1>4, <1>6
  <2>2. Rest(x + d) = Parser!Marshal(k, sent[k])[j]
    BY <2>1, ByteAt
  <2> QED
    BY <2>2
<1>7. Content'
  <2>1. Begin' >= 0
    BY <1>1, <1>4 DEF Content
  <2>2. \A k : Parser!End(k)' = Parser!End(k)
    BY EndStays
  <2>3. \A k : Parser!Marshal(k, sent[k])' = Parser!Marshal(k, sent[k])
    BY DEF Parser!Marshal
  <2>4. H' = H
    BY DEF H, Parser!HeaderSize
  <2>5. ASSUME NEW k \in 1 .. Len(sent'), NEW j \in 1 .. (H' + Len(sent'[k])),
               NEW x \in 1 .. (Len(Unread') + Len(wire')), Begin' + x = Parser!End(k - 1)' + j
        PROVE  Rest(x)' = Parser!Marshal(k, sent[k])'[j]
    <3>1. k \in 1 .. Len(sent) /\ j \in 1 .. (H + Len(sent[k]))
          /\ Begin' + x = Parser!End(k - 1) + j
      BY <2>2, <2>4, <2>5
    <3> QED
      BY <1>6, <2>3, <3>1
  <2> QED
    BY <2>1, <2>5 DEF Content
<1> QED
  BY <1>4, <1>5, <1>7

(* Without a new frame, a discard or a frame taken, nothing changes.       *)
LEMMA StepsStay ==
  ASSUME Steps, Real, sent' = sent, ends' = ends, UNCHANGED <<Got, base, Begin>>
  PROVE  Steps' /\ Real'
<1>1. \A k : Parser!End(k)' = Parser!End(k)
  BY EndStays
<1> QED
  BY <1>1 DEF Steps, Real, InStep, Parser!Frame, Parser!Unmistakable

(* Bytes arrive.                                                           *)
LEMMA ReadFInv ==
  ASSUME SInv, SInv', FInv, NEW n \in 1 .. ReadSize, Parser!Read(n) PROVE FInv'
<1> DEFINE s == SubSeq(wire, 1, n)
           r == SubSeq(wire, n + 1, Len(wire))
<1>1. /\ n <= Len(wire) /\ Unread' = Unread \o s /\ wire' = r
      /\ UNCHANGED <<sent, ends, Got, base>>
  BY Zenon DEF Parser!Read, Got
<1>2. wire \in Seq(Nat) /\ Unread \in Seq(Nat) /\ n \in Nat /\ n >= 1
      /\ Len(wire) \in Nat /\ Len(Unread) \in Nat
  BY InvPlaced, UnreadFacts, LenProperties DEF UnreadIs, SInv, BufferSound
<1>3. s \in Seq(Nat) /\ Len(s) = n - 1 + 1 /\ \A i \in 1 .. (n - 1 + 1) : s[i] = wire[1 + i - 1]
  <2>1. PieceOf(s, wire, 1, n)
    BY <1>1, <1>2, Piece
  <2> QED
    BY <2>1, Zenon DEF PieceOf
<1>4. /\ r \in Seq(Nat) /\ Len(r) = Len(wire) - (n + 1) + 1
      /\ \A i \in 1 .. (Len(wire) - (n + 1) + 1) : r[i] = wire[(n + 1) + i - 1]
  <2>1. PieceOf(r, wire, n + 1, Len(wire))
    BY <1>1, <1>2, Piece
  <2> QED
    BY <2>1, Zenon DEF PieceOf
<1> HIDE DEF s, r
<1>5. /\ Len(Unread') = Len(Unread) + Len(s)
      /\ \A i \in 1 .. (Len(Unread) + Len(s)) :
           Unread'[i] = IF i <= Len(Unread) THEN Unread[i] ELSE s[i - Len(Unread)]
  BY <1>1, <1>2, <1>3, ConcatProperties
<1>6. Len(s) = n /\ Len(r) = Len(wire) - n
  BY <1>2, <1>3, <1>4
<1>7. ASSUME NEW x \in 1 .. (Len(Unread') + Len(wire')) PROVE Rest(x)' = Rest(x + 0)
  <2>1. x \in Nat /\ x >= 1 /\ x <= Len(Unread) + Len(wire) /\ x + 0 = x
    BY <1>1, <1>2, <1>5, <1>6
  <2>2. Rest(x)' = IF x <= Len(Unread') THEN Unread'[x] ELSE wire'[x - Len(Unread')]
    BY DEF Rest
  <2>3. CASE x <= Len(Unread)
    <3>1. x <= Len(Unread') /\ x \in 1 .. (Len(Unread) + Len(s))
      BY <1>2, <1>5, <1>6, <2>1, <2>3
    <3> QED
      BY <1>5, <2>1, <2>2, <2>3, <3>1 DEF Rest
  <2>4. CASE ~(x <= Len(Unread)) /\ x <= Len(Unread) + n
    <3>1. x <= Len(Unread') /\ x \in 1 .. (Len(Unread) + Len(s))
          /\ x - Len(Unread) \in 1 .. (n - 1 + 1) /\ 1 + (x - Len(Unread)) - 1 = x - Len(Unread)
      BY <1>2, <1>5, <1>6, <2>1, <2>4
    <3>2. Rest(x)' = s[x - Len(Unread)]
      BY <1>5, <2>2, <2>4, <3>1
    <3>3. s[x - Len(Unread)] = wire[x - Len(Unread)]
      BY <1>3, <3>1
    <3> QED
      BY <2>1, <2>4, <3>2, <3>3 DEF Rest
  <2>5. CASE x > Len(Unread) + n
    <3> DEFINE i == x - Len(Unread')
    <3>1. ~(x <= Len(Unread')) /\ i \in 1 .. (Len(wire) - (n + 1) + 1)
          /\ (n + 1) + i - 1 = x - Len(Unread) /\ ~(x <= Len(Unread))
      BY <1>2, <1>5, <1>6, <2>1, <2>5
    <3>2. Rest(x)' = r[i]
      BY <1>1, <2>2, <3>1
    <3>3. r[i] = wire[x - Len(Unread)]
      BY <1>4, <3>1
    <3> QED
      BY <2>1, <3>1, <3>2, <3>3 DEF Rest
  <2> QED
    BY <1>2, <2>1, <2>3, <2>4, <2>5
<1>8. Len(Unread) + Len(wire) = Len(Unread') + Len(wire') + 0
  BY <1>1, <1>2, <1>5, <1>6
<1>9. Layout' /\ Content' /\ Begin' = Begin + 0
  BY <1>1, <1>7, <1>8, Moves DEF FInv
<1>10. Begin' = Begin
  BY <1>9, SizesFacts DEF Sizes
<1>11. Steps' /\ Real'
  BY <1>1, <1>10, StepsStay DEF FInv
<1> QED
  BY <1>9, <1>11 DEF FInv

(* Only Pc changes.                                                        *)
LEMMA SameFInv ==
  ASSUME SInv, SInv', FInv, UNCHANGED <<sent, ends, wire, Unread, Got, base>> PROVE FInv'
<1>1. Len(Unread) + Len(wire) = Len(Unread') + Len(wire') + 0 /\ Begin \in Int
  BY SizesFacts DEF Sizes
<1>2. ASSUME NEW x \in 1 .. (Len(Unread') + Len(wire')) PROVE Rest(x)' = Rest(x + 0)
  <2>1. x + 0 = x
    OBVIOUS
  <2> QED
    BY <2>1 DEF Rest
<1>3. Layout' /\ Content' /\ Begin' = Begin + 0
  BY <1>1, <1>2, Moves DEF FInv
<1>4. Begin' = Begin
  BY <1>1, <1>3
<1>5. Steps' /\ Real'
  BY <1>4, StepsStay DEF FInv
<1> QED
  BY <1>3, <1>5 DEF FInv

(* What was received is thrown away.                                       *)
LEMMA DiscardFInv == ASSUME SInv, SInv', FInv, Parser!Discard PROVE FInv'
<1>1. /\ Unread' = <<>> /\ base' = [bytes |-> Parser!Received, frames |-> Len(Got)]
      /\ UNCHANGED <<sent, ends, wire, Got>>
  BY Zenon DEF Parser!Discard, Got
<1> DEFINE d == Len(Unread)
<1>2. d \in Nat /\ Len(wire) \in Nat /\ Begin \in Int /\ Len(sent) \in Nat
      /\ \A k \in 0 .. Len(sent) : Parser!End(k) \in Nat
  BY SizesFacts DEF Sizes
<1>3. Len(Unread') = 0
  BY <1>1
<1>4. d + Len(wire) = Len(Unread') + Len(wire') + d
  BY <1>1, <1>2, <1>3
<1>5. ASSUME NEW x \in 1 .. (Len(Unread') + Len(wire')) PROVE Rest(x)' = Rest(x + d)
  <2>1. x \in Nat /\ ~(x <= 0) /\ x - 0 = x /\ ~(x + d <= Len(Unread)) /\ (x + d) - Len(Unread) = x
    BY <1>1, <1>2, <1>3
  <2> HIDE DEF d
  <2>2. Rest(x)' = wire[x]
    BY <1>1, <1>3, <2>1 DEF Rest
  <2>3. Rest(x + d) = wire[x]
    BY <2>1 DEF Rest
  <2> QED
    BY <2>2, <2>3
<1>6. Layout' /\ Content' /\ Begin' = Begin + d
  BY <1>1, <1>2, <1>4, <1>5, Moves DEF FInv
<1>7. \A k : Parser!End(k)' = Parser!End(k)
  BY <1>1, EndStays
<1>8. Len(sent) \in 0 .. Len(sent) /\ Parser!End(Len(sent)) \in Nat
  BY <1>2
<1>9. Begin' = Parser!Received /\ Parser!Received <= Parser!End(Len(sent))
  BY <1>2, <1>6, <1>8 DEF Begin, Parser!Received
<1>10. Len(Got) \in Nat
  BY GotFacts, LenProperties DEF GotIs
<1>11. Steps'
  <2>1. base'.bytes = Parser!Received /\ base'.frames = Len(Got)
    BY <1>1
  <2>2. ASSUME NEW k \in 0 .. Len(sent), Parser!End(k) = Parser!Received PROVE InStep(k, 0)'
    <3>1. k + 0 = k /\ k <= Len(sent) /\ 1 .. 0 = {}
      BY <1>2
    <3>2. Begin' = Parser!End(k + 0)'
      BY <1>7, <1>9, <2>2, <3>1
    <3> QED
      BY <1>1, <3>1, <3>2 DEF InStep
  <2>3. \A k \in 0 .. Len(sent') : Parser!End(k)' = base'.bytes => InStep(k, 0)'
    BY <1>1, <1>7, <2>1, <2>2
  <2>4. base'.bytes <= Parser!End(Len(sent))' /\ base'.frames <= Len(Got')
    <3>1. Parser!End(Len(sent))' = Parser!End(Len(sent))
      BY <1>1 DEF Parser!End
    <3> QED
      BY <1>1, <1>9, <1>10, <2>1, <3>1
  <2>5. ASSUME NEW k \in 0 .. Len(sent'), NEW n \in Nat,
               Parser!End(k)' = base'.bytes, base'.frames + n = Len(Got')
        PROVE  InStep(k, n)'
    <3>1. n = 0
      BY <1>1, <1>10, <2>1, <2>5
    <3> QED
      BY <2>3, <2>5, <3>1
  <2> QED
    BY <2>4, <2>5 DEF Steps
<1>12. Real'
  <2> SUFFICES ASSUME Parser!Unmistakable' PROVE
          /\ \A i \in 1 .. Len(Got) :
               /\ Got[i].id \in 1 .. Len(sent) /\ Got[i] = Parser!Frame(Got[i].id)
               /\ Parser!End(Got[i].id) <= Begin'
          /\ \A i, j \in 1 .. Len(Got) : i < j => Got[i].id < Got[j].id
    BY <1>1, <1>7 DEF Real, Parser!Frame
  <2>1. Parser!Unmistakable
    BY <1>1 DEF Parser!Unmistakable
  <2>2. /\ \A i \in 1 .. Len(Got) :
             /\ Got[i].id \in 1 .. Len(sent) /\ Got[i] = Parser!Frame(Got[i].id)
             /\ Parser!End(Got[i].id) <= Begin
        /\ \A i, j \in 1 .. Len(Got) : i < j => Got[i].id < Got[j].id
    BY <2>1 DEF FInv, Real
  <2>3. ASSUME NEW i \in 1 .. Len(Got) PROVE Parser!End(Got[i].id) <= Begin'
    <3>1. Got[i].id \in 0 .. Len(sent)
      BY <1>2, <2>2
    <3> QED
      BY <1>2, <1>6, <2>2, <3>1
  <2> QED
    BY <2>2, <2>3
<1> QED
  BY <1>6, <1>11, <1>12 DEF FInv

LEMMA FirstFrameType ==
  ASSUME NEW b \in Seq(Nat), Parser!Complete(b) PROVE Parser!FirstFrame(b) \in Frames
<1>1. Len(b) \in Nat /\ b[2] \in Nat /\ b[3] \in Nat /\ Parser!Total(b) = 3 + b[3]
      /\ Parser!Total(b) <= Len(b)
  BY CompleteFacts
<1> DEFINE t == Parser!Total(b)
<1>2. 4 \in Nat \ {0} /\ t \in Nat /\ 4 <= t + 1 /\ t <= Len(b)
  BY <1>1
<1> HIDE DEF t
<1>3. SubSeq(b, 4, t) \in Seq(Nat)
  <2>1. PieceOf(SubSeq(b, 4, t), b, 4, t)
    BY <1>2, Piece
  <2> QED
    BY <2>1, Zenon DEF PieceOf
<1>4. Parser!HeaderSize + 1 = 4
  BY DEF Parser!HeaderSize
<1>5. Parser!FirstFrame(b) = [id |-> b[2], payload |-> SubSeq(b, 4, t)]
  BY <1>4, Zenon DEF Parser!FirstFrame, t
<1> QED
  BY <1>1, <1>3, <1>5 DEF Frames

(* A header that was received belongs to a frame that was sent.            *)
LEMMA FrameThere ==
  ASSUME SInv, Layout, NEW k \in 0 .. Len(sent), Begin = Parser!End(k), Len(Unread) >= 3
  PROVE  k < Len(sent)
<1>1. Len(sent) \in Nat /\ Len(wire) \in Nat /\ Len(Unread) \in Nat /\ Parser!End(k) \in Nat
  BY SizesFacts DEF Sizes
<1>2. Len(sent) \in 0 .. Len(sent)
  BY <1>1
<1>3. Parser!End(Len(sent)) \in Nat
  BY <1>2, SizesFacts DEF Sizes
<1>4. Parser!End(Len(sent)) > Parser!End(k)
  BY <1>1, <1>3 DEF Begin
<1>5. ASSUME k = Len(sent) PROVE FALSE
  BY <1>1, <1>4, <1>5
<1> QED
  BY <1>1, <1>5

(* In a stream without bytes that look like headers, the parser stands at  *)
(* the end of a frame whenever it sees a header.                           *)
LEMMA FrameFound ==
  ASSUME SInv, Layout, Content, Parser!Unmistakable, Len(Unread) >= 3, Unread[1] = Magic
  PROVE  \E k \in 0 .. Len(sent) : Begin = Parser!End(k)
<1>1. Len(sent) \in Nat /\ Len(wire) \in Nat /\ Len(Unread) \in Nat /\ Begin \in Int /\ H = 3
  BY SizesFacts DEF Sizes, H, Parser!HeaderSize
<1>2. Len(sent) \in 0 .. Len(sent)
  BY <1>1
<1>3. Parser!End(Len(sent)) \in Nat
  BY <1>2, SizesFacts DEF Sizes
<1>4. Begin >= 0 /\ Begin = Parser!End(Len(sent)) - (Len(Unread) + Len(wire))
  BY DEF Content, Begin
<1>5. Begin + 1 \in 1 .. Parser!End(Len(sent))
  BY <1>1, <1>3, <1>4
<1>6. PICK f \in 1 .. Len(sent) : Parser!End(f - 1) < Begin + 1 /\ Begin + 1 <= Parser!End(f)
  BY <1>5 DEF Layout
<1>7. f - 1 \in 0 .. Len(sent) /\ f \in 0 .. Len(sent) /\ f \in Nat
  BY <1>1
<1>8. Parser!End(f - 1) \in Nat /\ sent[f] \in Parser!Payloads /\ Len(sent[f]) \in Nat
  BY <1>7, SizesFacts DEF Sizes
<1>9. Parser!End(f) = Parser!End(f - 1) + 3 + Len(sent[f])
  BY <1>1 DEF Layout
<1> DEFINE j == Begin + 1 - Parser!End(f - 1)
<1>10. j \in 1 .. (3 + Len(sent[f])) /\ Begin + 1 = Parser!End(f - 1) + j
  <2> DEFINE e == Parser!End(f - 1)
             n == Len(sent[f])
             o == Begin
  <2>1. e \in Nat /\ n \in Nat /\ o \in Int /\ e < o + 1 /\ o + 1 <= e + 3 + n
    BY <1>1, <1>6, <1>8, <1>9
  <2> HIDE DEF e, n, o
  <2>2. o + 1 - e \in 1 .. (3 + n) /\ o + 1 = e + (o + 1 - e)
    BY <2>1
  <2> QED
    BY <2>2 DEF e, n, o
<1> HIDE DEF j
<1>11. Rest(1) = Parser!Marshal(f, sent[f])[j]
  <2>1. 1 \in 1 .. (Len(Unread) + Len(wire)) /\ j \in 1 .. (H + Len(sent[f]))
    BY <1>1, <1>10
  <2> QED
    BY <1>10, <2>1, ByteAt
<1>12. Rest(1) = Magic
  BY <1>1 DEF Rest
<1>13. /\ Parser!Marshal(f, sent[f])[2] = f /\ Parser!Marshal(f, sent[f])[3] = Len(sent[f])
       /\ \A i \in 1 .. Len(sent[f]) : Parser!Marshal(f, sent[f])[3 + i] = sent[f][i]
  BY <1>1, <1>7, <1>8, MarshalFacts
<1>14. f # Magic /\ Len(sent[f]) # Magic /\ \A i \in 1 .. Len(sent[f]) : sent[f][i] # Magic
  BY DEF Parser!Unmistakable
<1>15. ASSUME j # 1 PROVE FALSE
  <2>1. CASE j = 2
    BY <1>11, <1>12, <1>13, <1>14, <2>1
  <2>2. CASE j = 3
    BY <1>11, <1>12, <1>13, <1>14, <2>2
  <2>3. CASE j > 3
    <3>1. j - 3 \in 1 .. Len(sent[f]) /\ 3 + (j - 3) = j
      BY <1>8, <1>10, <2>3
    <3> QED
      BY <1>11, <1>12, <1>13, <1>14, <3>1
  <2> QED
    BY <1>8, <1>10, <1>15, <2>1, <2>2, <2>3
<1>16. Begin = Parser!End(f - 1)
  BY <1>1, <1>8, <1>10, <1>15
<1> QED
  BY <1>7, <1>16

(* A frame is taken.                                                       *)
LEMMA HandleFInv == ASSUME SInv, SInv', FInv, Parser!Handle PROVE FInv'
<1> DEFINE t == Parser!Total(Unread)
           g == Parser!FirstFrame(Unread)
<1>1. /\ Parser!Complete(Unread) /\ Got' = Append(Got, g)
      /\ Unread' = SubSeq(Unread, t + 1, Len(Unread))
      /\ UNCHANGED <<sent, ends, wire, base>>
  BY Zenon DEF Parser!Handle, Got
<1>2. Unread \in Seq(Nat)
  BY InvPlaced, UnreadFacts DEF UnreadIs
<1>3. t \in Nat /\ t <= Len(Unread) /\ Len(Unread) >= 3 /\ Unread[1] = Magic
  <2>1. Len(Unread) \in Nat /\ Unread[1] = Magic /\ Unread[3] \in Nat /\ t = 3 + Unread[3]
        /\ t <= Len(Unread)
    BY <1>1, <1>2, CompleteFacts
  <2> QED
    BY <2>1
<1>4. g \in Frames
  BY <1>1, <1>2, FirstFrameType
<1> HIDE DEF t, g
<1>5. Len(Unread) \in Nat /\ Len(wire) \in Nat /\ Begin \in Int /\ Len(sent) \in Nat
      /\ \A k \in 0 .. Len(sent) : Parser!End(k) \in Nat
  BY SizesFacts DEF Sizes
<1>6. /\ Len(Unread') = Len(Unread) - t
      /\ \A i \in 1 .. (Len(Unread) - t) : Unread'[i] = Unread[t + i]
  <2> DEFINE s == SubSeq(Unread, t + 1, Len(Unread))
  <2>1. /\ Len(s) = Len(Unread) - (t + 1) + 1
        /\ \A i \in 1 .. (Len(Unread) - (t + 1) + 1) : s[i] = Unread[(t + 1) + i - 1]
    <3>1. t + 1 \in Nat \ {0} /\ t + 1 <= Len(Unread) + 1 /\ Len(Unread) <= Len(Unread)
      BY <1>3, <1>5
    <3>2. PieceOf(s, Unread, t + 1, Len(Unread))
      BY <1>2, <1>5, <3>1, Piece
    <3> QED
      BY <3>2, Zenon DEF PieceOf
  <2>2. Unread' = s
    BY <1>1
  <2> HIDE DEF s
  <2>3. Len(s) = Len(Unread) - t
    BY <1>3, <1>5, <2>1
  <2>4. ASSUME NEW i \in 1 .. (Len(Unread) - t) PROVE s[i] = Unread[t + i]
    <3>1. i \in 1 .. (Len(Unread) - (t + 1) + 1) /\ (t + 1) + i - 1 = t + i
      BY <1>3, <1>5
    <3> QED
      BY <2>1, <3>1
  <2> QED
    BY <2>2, <2>3, <2>4
<1>7. ASSUME NEW x \in 1 .. (Len(Unread') + Len(wire')) PROVE Rest(x)' = Rest(x + t)
  <2>1. x \in Nat /\ x >= 1
    BY <1>1, <1>5, <1>6
  <2>2. Rest(x)' = IF x <= Len(Unread') THEN Unread'[x] ELSE wire[x - Len(Unread')]
    BY <1>1 DEF Rest
  <2>3. CASE x <= Len(Unread')
    <3>1. x \in 1 .. (Len(Unread) - t) /\ x + t <= Len(Unread) /\ t + x = x + t
      BY <1>3, <1>5, <1>6, <2>1, <2>3
    <3> QED
      BY <1>6, <2>2, <2>3, <3>1 DEF Rest
  <2>4. CASE ~(x <= Len(Unread'))
    <3>1. ~(x + t <= Len(Unread)) /\ x - Len(Unread') = (x + t) - Len(Unread)
      BY <1>3, <1>5, <1>6, <2>1, <2>4
    <3> QED
      BY <2>2, <2>4, <3>1 DEF Rest
  <2> QED
    BY <2>3, <2>4
<1>8. Len(Unread) + Len(wire) = Len(Unread') + Len(wire') + t
  <2> DEFINE u == Len(Unread)
             v == Len(Unread')
             w == Len(wire)
  <2>1. u \in Nat /\ w \in Nat /\ v = u - t /\ wire' = wire
    BY <1>1, <1>5, <1>6
  <2> HIDE DEF u, v
  <2>2. u + w = v + w + t
    BY <1>3, <2>1
  <2> QED
    BY <2>1, <2>2 DEF u, v
<1>9. Layout' /\ Content' /\ Begin' = Begin + t
  <2>1. sent' = sent /\ ends' = ends
    BY <1>1
  <2> QED
    BY <1>3, <1>7, <1>8, <2>1, Moves DEF FInv
<1>10. \A k : Parser!End(k)' = Parser!End(k) /\ Parser!Frame(k)' = Parser!Frame(k)
  BY <1>1, EndStays DEF Parser!Frame
<1>11. /\ Got \in Seq(Frames) /\ Len(Got) \in Nat /\ Len(Got') = Len(Got) + 1
       /\ Got'[Len(Got) + 1] = g /\ \A i \in 1 .. Len(Got) : Got'[i] = Got[i]
  <2>1. Got \in Seq(Frames)
    BY GotFacts DEF GotIs
  <2> QED
    BY <1>1, <1>4, <2>1, AppendProperties, LenProperties
<1>12. ASSUME NEW k \in 0 .. Len(sent), Begin = Parser!End(k)
       PROVE  k + 1 \in 1 .. Len(sent) /\ g = Parser!Frame(k + 1) /\ Begin' = Parser!End(k + 1)
  <2>1. k < Len(sent)
    BY <1>3, <1>12, FrameThere DEF FInv
  <2>2. g = Parser!Frame(k + 1) /\ Begin + t = Parser!End(k + 1)
    BY <1>1, <1>12, <2>1, FrameAt DEF FInv, g, t
  <2> QED
    BY <1>5, <1>9, <2>1, <2>2
<1>13. Steps'
  <2>1. base \in [bytes : Nat, frames : Nat] /\ base' = base
    BY <1>1 DEF SInv, BufferSound
  <2>2. base.bytes <= Parser!End(Len(sent)) /\ base.frames <= Len(Got) /\ base.frames \in Nat
    BY <2>1 DEF FInv, Steps
  <2>3. ASSUME NEW k \in 0 .. Len(sent), NEW n \in Nat,
               Parser!End(k) = base.bytes, base.frames + n = Len(Got)
        PROVE  InStep(k, n + 1)'
    <3>1. n \in Nat /\ base.frames + n = Len(Got)
      BY <2>3
    <3>2. InStep(k, n)
      BY <2>3 DEF FInv, Steps
    <3>3. /\ k + n <= Len(sent) /\ Begin = Parser!End(k + n)
          /\ \A i \in 1 .. n : Got[base.frames + i] = Parser!Frame(k + i)
      BY <3>2 DEF InStep
    <3>4. k + n \in 0 .. Len(sent)
      BY <1>5, <3>1, <3>3
    <3>5. (k + n) + 1 \in 1 .. Len(sent) /\ g = Parser!Frame((k + n) + 1)
          /\ Begin' = Parser!End((k + n) + 1)
      BY <1>12, <3>3, <3>4
    <3>6. (k + n) + 1 = k + (n + 1)
      BY <3>1
    <3>7. ASSUME NEW i \in 1 .. (n + 1) PROVE Got'[base.frames + i] = Parser!Frame(k + i)'
      <4>1. CASE i = n + 1
        <5>1. base.frames + i = Len(Got) + 1 /\ k + i = (k + n) + 1
          BY <2>2, <3>1, <4>1
        <5> QED
          BY <1>10, <1>11, <3>5, <5>1
      <4>2. CASE i \in 1 .. n
        <5>1. base.frames + i \in 1 .. Len(Got)
          BY <1>11, <2>2, <3>1, <4>2
        <5> QED
          BY <1>10, <1>11, <3>3, <4>2, <5>1
      <4> QED
        BY <3>1, <4>1, <4>2
    <3>8. k + (n + 1) <= Len(sent')
      BY <1>1, <1>5, <3>5, <3>6
    <3>9. Begin' = Parser!End(k + (n + 1))'
      BY <1>10, <3>5, <3>6
    <3>10. \A i \in 1 .. (n + 1) : Got'[base'.frames + i] = Parser!Frame(k + i)'
      BY <2>1, <3>7
    <3> QED
      BY <3>8, <3>9, <3>10 DEF InStep
  <2>4. ASSUME NEW k \in 0 .. Len(sent), NEW m \in Nat,
               Parser!End(k) = base.bytes, base.frames + m = Len(Got) + 1
        PROVE  InStep(k, m)'
    <3>1. m - 1 \in Nat /\ base.frames + (m - 1) = Len(Got) /\ (m - 1) + 1 = m
      BY <1>11, <2>2, <2>4
    <3>2. InStep(k, (m - 1) + 1)'
      BY <2>3, <2>4, <3>1
    <3> QED
      BY <3>1, <3>2
  <2>5. Parser!End(Len(sent))' = Parser!End(Len(sent))
    BY <1>1 DEF Parser!End
  <2>6. base'.bytes <= Parser!End(Len(sent))' /\ base'.frames <= Len(Got')
    BY <1>11, <2>1, <2>2, <2>5
  <2>7. ASSUME NEW k \in 0 .. Len(sent'), NEW m \in Nat,
               Parser!End(k)' = base'.bytes, base'.frames + m = Len(Got')
        PROVE  InStep(k, m)'
    BY <1>1, <1>10, <1>11, <2>1, <2>4, <2>7
  <2> QED
    BY <2>6, <2>7 DEF Steps
<1>14. Real'
  <2> SUFFICES ASSUME Parser!Unmistakable' PROVE
          /\ \A i \in 1 .. Len(Got') :
               /\ Got'[i].id \in 1 .. Len(sent) /\ Got'[i] = Parser!Frame(Got'[i].id)
               /\ Parser!End(Got'[i].id) <= Begin'
          /\ \A i, j \in 1 .. Len(Got') : i < j => Got'[i].id < Got'[j].id
    BY <1>1, <1>10 DEF Real, Parser!Frame
  <2>1. Parser!Unmistakable
    BY <1>1 DEF Parser!Unmistakable
  <2>2. /\ \A i \in 1 .. Len(Got) :
             /\ Got[i].id \in 1 .. Len(sent) /\ Got[i] = Parser!Frame(Got[i].id)
             /\ Parser!End(Got[i].id) <= Begin
        /\ \A i, j \in 1 .. Len(Got) : i < j => Got[i].id < Got[j].id
    BY <2>1 DEF FInv, Real
  <2>3. PICK k \in 0 .. Len(sent) : Begin = Parser!End(k)
    BY <1>3, <2>1, FrameFound DEF FInv
  <2>4. k + 1 \in 1 .. Len(sent) /\ g = Parser!Frame(k + 1) /\ Begin' = Parser!End(k + 1)
    BY <1>12, <2>3
  <2>5. g.id = k + 1
    BY <2>4 DEF Parser!Frame
  <2>6. ASSUME NEW i \in 1 .. Len(Got')
        PROVE  \/ i \in 1 .. Len(Got) /\ Got'[i] = Got[i]
               \/ i = Len(Got) + 1 /\ Got'[i] = g
    BY <1>11
  <2>7. ASSUME NEW i \in 1 .. Len(Got) PROVE Got[i].id <= k
    <3>1. Got[i].id \in 0 .. Len(sent) /\ Parser!End(Got[i].id) <= Parser!End(k)
      BY <1>5, <2>2, <2>3
    <3> QED
      BY <3>1, EndsOrdered DEF FInv
  <2>8. ASSUME NEW i \in 1 .. Len(Got')
        PROVE  /\ Got'[i].id \in 1 .. Len(sent) /\ Got'[i] = Parser!Frame(Got'[i].id)
               /\ Parser!End(Got'[i].id) <= Begin'
    <3>1. CASE i \in 1 .. Len(Got) /\ Got'[i] = Got[i]
      <4>1. Got[i].id \in 0 .. Len(sent) /\ Parser!End(Got[i].id) <= Begin
        BY <1>5, <2>2, <3>1
      <4>2. Parser!End(Got[i].id) <= Begin'
        BY <1>3, <1>5, <1>9, <4>1
      <4> QED
        BY <2>2, <3>1, <4>2
    <3>2. CASE i = Len(Got) + 1 /\ Got'[i] = g
      <4>1. k + 1 \in 0 .. Len(sent)
        BY <1>5, <2>4
      <4>2. Parser!End(k + 1) \in Nat
        BY <1>5, <4>1
      <4>3. Parser!End(k + 1) <= Begin'
        BY <2>4, <4>2
      <4> QED
        BY <2>4, <2>5, <3>2, <4>3
    <3> QED
      BY <2>6, <3>1, <3>2
  <2>9. ASSUME NEW i \in 1 .. Len(Got'), NEW j \in 1 .. Len(Got'), i < j
        PROVE  Got'[i].id < Got'[j].id
    <3>1. i \in 1 .. Len(Got) /\ Got'[i] = Got[i]
      BY <1>11, <2>9
    <3>2. CASE j \in 1 .. Len(Got) /\ Got'[j] = Got[j]
      BY <2>2, <2>9, <3>1, <3>2
    <3>3. CASE j = Len(Got) + 1 /\ Got'[j] = g
      <4>1. Got[i].id <= k /\ Got[i].id \in 1 .. Len(sent)
        BY <2>2, <2>7, <3>1
      <4>2. Got[i].id < k + 1
        BY <1>5, <4>1
      <4> QED
        BY <2>5, <3>1, <3>3, <4>2
    <3> QED
      BY <2>6, <3>2, <3>3
  <2> QED
    BY <2>8, <2>9
<1> QED
  BY <1>9, <1>13, <1>14 DEF FInv

(* A frame is sent.                                                        *)
LEMMA SendFInv ==
  ASSUME SInv, SInv', FInv, NEW p \in Parser!Payloads, Parser!Send(p) PROVE FInv'
<1>0. PICK n \in Nat : n = Len(sent)
  BY SizesFacts DEF Sizes
<1> DEFINE m == Parser!Marshal(n + 1, p)
           e == Parser!End(n)
           z == e + Parser!HeaderSize + Len(p)
           left == Len(Unread) + Len(wire)
<1>1. /\ sent' = Append(sent, p) /\ ends' = Append(ends, z) /\ wire' = wire \o m
      /\ UNCHANGED <<Unread, Got, base>>
  BY <1>0, Zenon DEF Parser!Send, Got
<1>2. Len(wire) \in Nat /\ Len(Unread) \in Nat /\ Begin \in Int
      /\ (\A k \in 0 .. n : Parser!End(k) \in Nat)
      /\ (\A k \in 1 .. n : Len(sent[k]) \in Nat) /\ H = 3 /\ Parser!HeaderSize = 3
  BY <1>0, SizesFacts DEF Sizes, H, Parser!HeaderSize
<1>3. n \in 0 .. n
  OBVIOUS
<1>4. e \in Nat
  BY <1>2, <1>3
<1>5. Len(p) \in Nat /\ m \in Seq(Nat) /\ Len(m) = 3 + Len(p)
  <2>1. n + 1 \in Nat
    OBVIOUS
  <2> QED
    BY <1>2, <2>1, MarshalFacts
<1>6. sent \in Seq(Parser!Payloads) /\ ends \in Seq(Nat) /\ wire \in Seq(Nat) /\ Len(ends) = n
  BY <1>0 DEF SInv, BufferSound, Sending
<1>7. z \in Nat /\ z = e + 3 + Len(p)
  BY <1>2, <1>4, <1>5
<1> HIDE DEF m, z
<1>8. Len(sent') = n + 1 /\ sent'[n + 1] = p /\ \A k \in 1 .. n : sent'[k] = sent[k]
  BY <1>0, <1>1, <1>6, AppendProperties
<1>9. Len(ends') = n + 1 /\ ends'[n + 1] = z /\ \A k \in 1 .. n : ends'[k] = ends[k]
  <2>1. Len(ends') = Len(ends) + 1 /\ ends'[Len(ends) + 1] = z
        /\ \A k \in 1 .. Len(ends) : ends'[k] = ends[k]
    <3>1. ends' = Append(ends, z) /\ ends \in Seq(Nat) /\ z \in Nat
      BY <1>1, <1>6, <1>7
    <3> QED
      BY <3>1, AppendProperties
  <2>2. Len(ends) = n
    BY <1>6
  <2> QED
    BY <2>1, <2>2
<1>10. /\ Len(wire') = Len(wire) + Len(m)
       /\ \A i \in 1 .. (Len(wire) + Len(m)) :
            wire'[i] = IF i <= Len(wire) THEN wire[i] ELSE m[i - Len(wire)]
  <2>1. PICK h : h = wire' /\ h = wire \o m
    BY <1>1
  <2>2. /\ Len(h) = Len(wire) + Len(m)
        /\ \A i \in 1 .. (Len(wire) + Len(m)) :
             h[i] = IF i <= Len(wire) THEN wire[i] ELSE m[i - Len(wire)]
    <3>1. m \in Seq(Nat) /\ wire \in Seq(Nat) /\ h = wire \o m
      BY <1>5, <1>6, <2>1
    <3> QED
      BY <3>1, Joined
  <2>3. h = wire'
    BY <2>1
  <2> QED
    BY <2>2, <2>3, Zenon
<1>11. Parser!End(n + 1)' = z /\ \A k \in 0 .. n : Parser!End(k)' = Parser!End(k)
  <2>1. ASSUME NEW k \in 0 .. n PROVE Parser!End(k)' = Parser!End(k)
    <3>1. CASE k = 0
      BY <3>1 DEF Parser!End
    <3>2. CASE k # 0
      <4>1. k \in 1 .. n
        BY <3>2
      <4> QED
        BY <1>9, <3>2, <4>1 DEF Parser!End
    <3> QED
      BY <3>1, <3>2
  <2>2. Parser!End(n + 1)' = z
    BY <1>9 DEF Parser!End
  <2> QED
    BY <2>1, <2>2
<1>12. Parser!End(Len(sent))' = z
  <2>1. Parser!End(Len(sent))' = ends'[Len(sent')]
    BY <1>8 DEF Parser!End
  <2> QED
    BY <1>8, <1>9, <2>1
<1>13. Begin' = Begin /\ Begin = e - left /\ left \in Nat
  <2>1. Begin = e - left
    BY <1>0 DEF Begin
  <2>2. Begin' = z - (Len(Unread') + Len(wire'))
    BY <1>12 DEF Begin
  <2>3. Len(Unread') = Len(Unread) /\ Len(wire') = Len(wire) + (3 + Len(p))
    BY <1>1, <1>5, <1>10
  <2> DEFINE a == Len(Unread)
             b == Len(wire)
             c == Len(p)
             b1 == Len(wire')
  <2>4. Begin' = z - (a + b1) /\ b1 = b + (3 + c) /\ z = e + 3 + c /\ left = a + b
    BY <1>7, <2>2, <2>3
  <2>5. a \in Nat /\ b \in Nat /\ c \in Nat /\ e \in Nat
    BY <1>2, <1>4, <1>5
  <2> HIDE DEF a, b, c, b1, e, left
  <2>6. z - (a + b1) = e - left /\ left \in Nat
    BY <2>4, <2>5
  <2> QED
    BY <2>1, <2>4, <2>6, Zenon
<1>14. \A k \in 0 .. n : Parser!End(k) <= e
  BY <1>0, <1>3, EndsOrdered DEF FInv
<1>15. Layout'
  <2>1. ASSUME NEW k \in 1 .. (n + 1)
        PROVE  Parser!End(k)' = Parser!End(k - 1)' + 3 + Len(sent'[k])
    <3>1. CASE k \in 1 .. n
      <4>1. k - 1 \in 0 .. n /\ k \in 0 .. n
        BY <3>1
      <4>2. Parser!End(k) = Parser!End(k - 1) + 3 + Len(sent[k])
        BY <1>0, <1>2, <3>1 DEF FInv, Layout
      <4> QED
        BY <1>8, <1>11, <3>1, <4>1, <4>2
    <3>2. CASE k = n + 1
      <4>1. k - 1 = n
        BY <3>2
      <4> QED
        BY <1>3, <1>7, <1>8, <1>11, <3>2, <4>1
    <3> QED
      BY <3>1, <3>2
  <2>2. ASSUME NEW j \in 0 .. (n + 1), NEW k \in 0 .. (n + 1), j < k
        PROVE  Parser!End(j)' < Parser!End(k)'
    <3>1. j \in 0 .. n
      BY <2>2
    <3>2. CASE k = n + 1
      <4>1. Parser!End(j) <= e /\ Parser!End(j) \in Nat
        BY <1>2, <1>14, <3>1
      <4>2. Parser!End(j) < z
        BY <1>4, <1>5, <1>7, <4>1
      <4> QED
        BY <1>11, <3>1, <3>2, <4>2
    <3>3. CASE k \in 0 .. n
      <4>1. Parser!End(j) < Parser!End(k)
        BY <1>0, <2>2, <3>1, <3>3 DEF FInv, Layout
      <4> QED
        BY <1>11, <3>1, <3>3, <4>1
    <3> QED
      BY <3>2, <3>3
  <2>3. ASSUME NEW x \in 1 .. z
        PROVE  \E k \in 1 .. (n + 1) : Parser!End(k - 1)' < x /\ x <= Parser!End(k)'
    <3>1. CASE x <= e
      <4>1. x \in 1 .. e
        BY <1>4, <1>7, <3>1
      <4>2. PICK k \in 1 .. n : Parser!End(k - 1) < x /\ x <= Parser!End(k)
        BY <1>0, <4>1 DEF FInv, Layout
      <4>3. k - 1 \in 0 .. n /\ k \in 0 .. n /\ k \in 1 .. (n + 1)
        OBVIOUS
      <4> QED
        BY <1>11, <4>2, <4>3
    <3>2. CASE x > e
      <4>1. n + 1 \in 1 .. (n + 1) /\ (n + 1) - 1 = n /\ x <= z
        BY <1>7
      <4>2. Parser!End((n + 1) - 1)' = e /\ Parser!End(n + 1)' = z
        BY <1>3, <1>11, <4>1
      <4> QED
        BY <3>2, <4>1, <4>2
    <3> QED
      BY <1>4, <1>7, <3>1, <3>2
  <2>4. H' = 3
    BY DEF H, Parser!HeaderSize
  <2> QED
    BY <1>8, <1>12, <2>1, <2>2, <2>3, <2>4 DEF Layout
<1>16. Content'
  <2>1. Begin' >= 0
    BY <1>13 DEF FInv, Content
  <2>2. ASSUME NEW k \in 1 .. (n + 1), NEW j \in 1 .. (3 + Len(sent'[k])),
               NEW x \in 1 .. (Len(Unread') + Len(wire')), Begin' + x = Parser!End(k - 1)' + j
        PROVE  Rest(x)' = Parser!Marshal(k, sent'[k])[j]
    <3>1. x \in Nat /\ x >= 1 /\ x <= left + Len(m)
      BY <1>1, <1>2, <1>5, <1>10
    <3>2. Rest(x)' = IF x <= Len(Unread) THEN Unread[x] ELSE wire'[x - Len(Unread)]
      BY <1>1 DEF Rest
    <3>3. k - 1 \in 0 .. n
      OBVIOUS
    <3>4. Begin + x = Parser!End(k - 1) + j /\ Parser!End(k - 1) \in Nat
      BY <1>2, <1>11, <1>13, <2>2, <3>3
    <3>5. CASE k \in 1 .. n
      <4>1. sent'[k] = sent[k] /\ Len(sent[k]) \in Nat /\ k \in 0 .. n
        BY <1>2, <1>8, <3>5
      <4>2. j \in 1 .. (3 + Len(sent[k])) /\ j \in Nat /\ j <= 3 + Len(sent[k])
        BY <2>2, <4>1
      <4>3. Parser!End(k) = Parser!End(k - 1) + 3 + Len(sent[k]) /\ Parser!End(k) <= e
            /\ Parser!End(k) \in Nat
        BY <1>0, <1>2, <1>14, <3>5, <4>1 DEF FInv, Layout
      <4>4. x \in 1 .. left
        <5> DEFINE o == Begin
                   c == Len(sent[k])
                   f == Parser!End(k - 1)
                   g == Parser!End(k)
        <5>1. /\ o = e - left /\ o + x = f + j /\ g = f + 3 + c /\ g <= e /\ j <= 3 + c
              /\ o \in Int /\ c \in Nat /\ f \in Nat /\ g \in Nat /\ j \in Nat
              /\ e \in Nat /\ left \in Nat /\ x \in Nat /\ x >= 1
          BY <1>2, <1>4, <1>13, <3>1, <3>4, <4>1, <4>2, <4>3
        <5> HIDE DEF o, c, f, g, e, left
        <5> QED
          BY <5>1
      <4>5. Rest(x) = Parser!Marshal(k, sent[k])[j]
        BY <1>0, <1>2, <3>4, <3>5, <4>2, <4>4, ByteAt DEF FInv
      <4>6. Rest(x)' = Rest(x)
        <5>1. CASE x <= Len(Unread)
          BY <3>2, <5>1 DEF Rest
        <5>2. CASE ~(x <= Len(Unread))
          <6>1. x - Len(Unread) \in 1 .. (Len(wire) + Len(m)) /\ x - Len(Unread) <= Len(wire)
            BY <1>2, <1>5, <3>1, <4>4, <5>2
          <6> QED
            BY <1>10, <3>2, <5>2, <6>1 DEF Rest
        <5> QED
          BY <5>1, <5>2
      <4> QED
        BY <4>1, <4>5, <4>6
    <3>6. CASE k = n + 1
      <4>1. sent'[k] = p /\ k - 1 = n /\ j \in 1 .. (3 + Len(p)) /\ j \in Nat
        BY <1>5, <1>8, <2>2, <3>6
      <4>2. x = left + j
        <5> DEFINE o == Begin
        <5>1. o \in Int /\ o = e - left /\ o + x = e + j
          BY <1>2, <1>13, <3>4, <4>1
        <5> HIDE DEF o, e, left
        <5> QED
          BY <1>4, <1>13, <3>1, <4>1, <5>1
      <4>3. ~(x <= Len(Unread)) /\ x - Len(Unread) = Len(wire) + j
        BY <1>2, <4>1, <4>2
      <4>4. Len(wire) + j \in 1 .. (Len(wire) + Len(m)) /\ ~(Len(wire) + j <= Len(wire))
            /\ (Len(wire) + j) - Len(wire) = j
        BY <1>2, <1>5, <4>1
      <4>5. wire'[Len(wire) + j] = m[j]
        BY <1>10, <4>4
      <4>6. Rest(x)' = m[j]
        BY <3>2, <4>3, <4>5
      <4> QED
        BY <3>6, <4>1, <4>6 DEF m
    <3> QED
      BY <3>5, <3>6
  <2>3. H' = 3 /\ Len(sent') = n + 1
    BY <1>8 DEF H, Parser!HeaderSize
  <2>4. \A k : Parser!Marshal(k, sent[k])' = Parser!Marshal(k, sent'[k])
    BY DEF Parser!Marshal
  <2> QED
    BY <2>1, <2>2, <2>3, <2>4 DEF Content
<1>17. \A k \in 1 .. n : Parser!Frame(k)' = Parser!Frame(k)
  BY <1>8 DEF Parser!Frame
<1>18. Steps'
  <2>1. base.bytes <= e /\ base.frames <= Len(Got) /\ base.bytes \in Nat
    BY <1>0 DEF FInv, Steps, SInv, BufferSound
  <2>2. base.bytes < z
    BY <1>4, <1>5, <1>7, <2>1
  <2>3. ASSUME NEW k \in 0 .. (n + 1), NEW l \in Nat,
               Parser!End(k)' = base.bytes, base.frames + l = Len(Got)
        PROVE  InStep(k, l)'
    <3>1. k \in 0 .. n
      <4>1. ASSUME k = n + 1 PROVE FALSE
        BY <1>7, <1>11, <2>1, <2>2, <2>3, <4>1
      <4> QED
        BY <4>1
    <3>2. InStep(k, l)
      BY <1>0, <1>11, <2>3, <3>1 DEF FInv, Steps
    <3>3. /\ k + l <= n /\ Begin = Parser!End(k + l)
          /\ \A i \in 1 .. l : Got[base.frames + i] = Parser!Frame(k + i)
      BY <1>0, <3>2 DEF InStep
    <3>4. k + l \in 0 .. n /\ k + l <= n + 1
      BY <3>3
    <3>5. ASSUME NEW i \in 1 .. l PROVE Got'[base'.frames + i] = Parser!Frame(k + i)'
      <4>1. k + i \in 1 .. n
        BY <3>3
      <4> QED
        BY <1>1, <1>17, <3>3, <4>1
    <3> QED
      BY <1>8, <1>11, <1>13, <3>3, <3>4, <3>5 DEF InStep
  <2>4. base'.bytes <= Parser!End(Len(sent))' /\ base'.frames <= Len(Got')
    BY <1>1, <1>7, <1>12, <2>1, <2>2
  <2> QED
    BY <1>1, <1>8, <2>3, <2>4 DEF Steps
<1>19. Real'
  <2>1. Parser!Unmistakable' => Parser!Unmistakable
    BY <1>0, <1>8 DEF Parser!Unmistakable
  <2>2. ASSUME Parser!Unmistakable', NEW i \in 1 .. Len(Got)
        PROVE  /\ Got[i].id \in 1 .. n /\ Got[i] = Parser!Frame(Got[i].id)
               /\ Parser!End(Got[i].id) <= Begin
               /\ \A j \in 1 .. Len(Got) : i < j => Got[i].id < Got[j].id
    BY <1>0, <2>1, <2>2 DEF FInv, Real
  <2>3. ASSUME NEW d \in 1 .. n PROVE Parser!End(d)' = Parser!End(d)
    BY <1>11
  <2>4. Got' = Got /\ Len(sent') = n + 1
    BY <1>1, <1>8
  <2>5. ASSUME Parser!Unmistakable', NEW i \in 1 .. Len(Got)
        PROVE  /\ Got'[i].id \in 1 .. Len(sent') /\ Got'[i] = Parser!Frame(Got[i].id)'
               /\ Parser!End(Got[i].id)' <= Begin'
    <3>1. PICK d : d = Got[i].id
      OBVIOUS
    <3>2. PICK r : r = Got'[i]
      OBVIOUS
    <3>3. r = Got[i] /\ r.id = d
      BY <2>4, <3>1, <3>2, Zenon
    <3>4. d \in 1 .. n /\ r = Parser!Frame(d) /\ Parser!End(d) <= Begin
      BY <2>2, <2>5, <3>1, <3>3
    <3>5. Parser!Frame(d)' = Parser!Frame(d) /\ Parser!End(d)' = Parser!End(d)
      BY <1>17, <2>3, <3>4
    <3>6. d = (Got[i].id)'
      BY <3>2, <3>3
    <3> QED
      BY <1>13, <2>4, <3>2, <3>3, <3>4, <3>5, <3>6
  <2>6. ASSUME Parser!Unmistakable', NEW i \in 1 .. Len(Got), NEW j \in 1 .. Len(Got), i < j
        PROVE  Got'[i].id < Got'[j].id
    BY <2>2, <2>4, <2>6
  <2> QED
    BY <2>4, <2>5, <2>6 DEF Real
<1> QED
  BY <1>15, <1>16, <1>18, <1>19 DEF FInv

LEMMA InitFInv == Init => FInv
<1> SUFFICES ASSUME Init PROVE FInv
  OBVIOUS
<1>1. /\ sent = <<>> /\ ends = <<>> /\ wire = <<>> /\ got = <<>> /\ ref = NoFrame
      /\ base = [bytes |-> 0, frames |-> 0] /\ len = 0 /\ off = 0
  BY DEF Init
<1>2. Unread = <<>>
  <2>1. SubSeq(mem, 0 + 1, 0) = <<>>
    BY SubSeqEmpty
  <2> QED
    BY <1>1, <2>1, Zenon DEF Unread
<1>3. Len(sent) = 0 /\ Len(wire) = 0 /\ Len(Unread) = 0 /\ Got = <<>> /\ Len(Got) = 0
  BY <1>1, <1>2 DEF Got
<1>4. Parser!End(0) = 0 /\ Parser!End(Len(sent)) = 0
  BY <1>3 DEF Parser!End
<1>5. Begin = 0
  BY <1>3, <1>4 DEF Begin
<1>6. Layout
  BY <1>3, <1>4 DEF Layout
<1>7. Content
  BY <1>3, <1>5 DEF Content
<1>8. Steps
  <2>1. base.bytes = 0 /\ base.frames = 0
    BY <1>1
  <2>2. ASSUME NEW k \in 0 .. Len(sent), NEW n \in Nat, base.frames + n = Len(Got)
        PROVE  InStep(k, n)
    <3>1. k = 0 /\ n = 0 /\ k + n = 0
      BY <1>3, <2>1, <2>2
    <3> QED
      BY <1>3, <1>4, <1>5, <3>1 DEF InStep
  <2> QED
    BY <1>3, <1>4, <2>1, <2>2 DEF Steps
<1>9. Real
  BY <1>3 DEF Real
<1> QED
  BY <1>6, <1>7, <1>8, <1>9 DEF FInv

LEMMA NextFInv == ASSUME SInv, FInv, [Next]_vars PROVE FInv'
<1>1. SInv'
  BY NextSInv
<1>2. CASE UNCHANGED Parser!vars
  <2>1. UNCHANGED <<sent, ends, wire, Unread, Got, base>>
    BY <1>2, Zenon DEF Parser!vars, Got
  <2> QED
    BY <1>1, <2>1, SameFInv
<1>3. CASE Parser!Short
  <2>1. UNCHANGED <<sent, ends, wire, Unread, Got, base>>
    BY <1>3, Zenon DEF Parser!Short, Got
  <2> QED
    BY <1>1, <2>1, SameFInv
<1>4. CASE Parser!Discard
  BY <1>1, <1>4, DiscardFInv
<1>5. CASE Parser!Handle
  BY <1>1, <1>5, HandleFInv
<1>6. ASSUME NEW n \in 1 .. ReadSize, Parser!Read(n) PROVE FInv'
  BY <1>1, <1>6, ReadFInv
<1>7. ASSUME NEW p \in Parser!Payloads, Parser!Send(p) PROVE FInv'
  BY <1>1, <1>7, SendFInv
<1>8. Parser!Next \/ UNCHANGED Parser!vars
  BY StepRefines
<1> QED
  BY <1>2, <1>3, <1>4, <1>5, <1>6, <1>7, <1>8, Zenon DEF Parser!Next

(* Between two reads, the frame the parser stands at has not arrived.      *)
LEMMA NotArrived ==
  ASSUME SInv, FInv, Pc = "read", NEW k \in 0 .. Len(sent), k < Len(sent), Begin = Parser!End(k)
  PROVE  Parser!Received < Parser!End(k + 1)
<1>1. /\ Len(sent) \in Nat /\ Len(wire) \in Nat /\ Len(Unread) \in Nat /\ H = 3
      /\ k + 1 \in 1 .. Len(sent) /\ (k + 1) - 1 = k /\ Len(sent) \in 0 .. Len(sent)
  BY SizesFacts DEF Sizes, H, Parser!HeaderSize
<1>2. Parser!End(k) \in Nat /\ Len(sent[k + 1]) \in Nat /\ Parser!End(Len(sent)) \in Nat
  BY <1>1, SizesFacts DEF Sizes
<1>3. Parser!End(k + 1) = Parser!End(k) + 3 + Len(sent[k + 1])
  <2>1. Parser!End(k + 1) = Parser!End((k + 1) - 1) + H + Len(sent[k + 1])
    BY <1>1 DEF FInv, Layout
  <2> QED
    BY <1>1, <2>1, Zenon
<1>4. ~Parser!Refused(Unread) /\ ~Parser!Complete(Unread)
  BY DEF Pc, SInv, Buffer
<1>5. Len(Unread) < 3 + Len(sent[k + 1])
  <2>1. CASE Len(Unread) < 3
    BY <1>1, <1>2, <2>1
  <2>2. CASE Len(Unread) >= 3
    <3>1. Unread[3] = Len(sent[k + 1])
      BY <2>2, HeaderAt DEF FInv
    <3>2. ~(Len(Unread) >= 3 + Unread[3])
      BY <1>4, <2>2 DEF Parser!Complete, Parser!HasHeader, Parser!Total, Parser!Length,
         Parser!HeaderSize
    <3> QED
      BY <1>1, <1>2, <3>1, <3>2
  <2> QED
    BY <1>1, <2>1, <2>2
<1> DEFINE e == Parser!End(k)
           f == Parser!End(k + 1)
           z == Parser!End(Len(sent))
           u == Len(Unread)
           w == Len(wire)
           c == Len(sent[k + 1])
<1>6. e = z - (u + w) /\ f = e + 3 + c /\ u < 3 + c
  BY <1>3, <1>5 DEF Begin
<1>7. e \in Nat /\ z \in Nat /\ u \in Nat /\ w \in Nat /\ c \in Nat
  BY <1>1, <1>2
<1>8. Parser!Received = z - w
  BY DEF Parser!Received
<1> HIDE DEF e, f, z, u, w, c
<1>9. z - w < f
  BY <1>6, <1>7
<1> QED
  BY <1>8, <1>9, Zenon DEF f

(* Synced, of what FrameParser sees.                                       *)
InSync(frames, state) ==
  \A k \in 0 .. Len(sent) :
    Parser!End(k) = base.bytes =>
      LET n == Len(frames) - base.frames IN
        /\ k + n <= Len(sent)
        /\ \A i \in 1 .. n : frames[base.frames + i] = Parser!Frame(k + i)
        /\ state = "read" /\ k + n < Len(sent) => Parser!Received < Parser!End(k + n + 1)

AllReal(frames) ==
  Parser!Unmistakable =>
    /\ \A i \in 1 .. Len(frames) :
         frames[i].id \in 1 .. Len(sent) /\ frames[i] = Parser!Frame(frames[i].id)
    /\ \A i, j \in 1 .. Len(frames) : i < j => frames[i].id < frames[j].id

LEMMA SeenByParser == InSync(Got, Pc) /\ AllReal(Got) => FramesIntact
  BY Zenon DEF FramesIntact, Parser!FramesIntact, Parser!Synced, Parser!Genuine, InSync,
     AllReal, Got, Pc

LEMMA FramesAreIntact == SInv /\ FInv => FramesIntact
<1> SUFFICES ASSUME SInv, FInv PROVE InSync(Got, Pc) /\ AllReal(Got)
  BY SeenByParser
<1>1. ASSUME NEW k \in 0 .. Len(sent), Parser!End(k) = base.bytes
      PROVE  LET n == Len(Got) - base.frames IN
               /\ k + n <= Len(sent)
               /\ \A i \in 1 .. n : Got[base.frames + i] = Parser!Frame(k + i)
               /\ Pc = "read" /\ k + n < Len(sent) => Parser!Received < Parser!End(k + n + 1)
  <2> DEFINE n == Len(Got) - base.frames
  <2>1. Got \in Seq(Frames)
    BY GotFacts DEF GotIs
  <2>2. Len(Got) \in Nat /\ base.frames \in Nat /\ base.frames <= Len(Got) /\ Len(sent) \in Nat
    BY <2>1, LenProperties, SizesFacts DEF SInv, BufferSound, FInv, Steps, Sizes
  <2>3. n \in Nat /\ base.frames + n = Len(Got)
    BY <2>2
  <2> HIDE DEF n
  <2>4. InStep(k, n)
    BY <1>1, <2>3 DEF FInv, Steps
  <2>5. /\ k + n <= Len(sent) /\ Begin = Parser!End(k + n)
        /\ \A i \in 1 .. n : Got[base.frames + i] = Parser!Frame(k + i)
    BY <2>4 DEF InStep
  <2>6. k + n \in 0 .. Len(sent)
    BY <2>2, <2>3, <2>5
  <2>7. ASSUME Pc = "read", k + n < Len(sent) PROVE Parser!Received < Parser!End(k + n + 1)
    BY <2>5, <2>6, <2>7, NotArrived
  <2> QED
    BY <2>5, <2>7, Zenon DEF n
<1>2. AllReal(Got)
  BY DEF FInv, Real, AllReal
<1> QED
  BY <1>1, <1>2, Zenon DEF InSync

(* However TCP cuts the stream, whatever the payloads contain and whatever *)
(* the sizes, the client's handler gets every frame sent since the last    *)
(* discard that ended with a frame, whole, once and in order, and after    *)
(* any other discard nothing that was not sent as a frame, as long as      *)
(* nothing within a frame looks like the begin of a header.                *)
THEOREM FramesSafe == Spec => []FramesIntact
<1>1. Init => FInv
  BY InitFInv
<1>2. SInv /\ FInv /\ [Next]_vars => FInv'
  BY NextFInv
<1>3. SInv /\ FInv => FramesIntact
  BY FramesAreIntact
<1> QED
  BY <1>1, <1>2, <1>3, Invariance, PTL DEF Spec
=============================================================================
