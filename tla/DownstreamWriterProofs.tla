---------------------- MODULE DownstreamWriterProofs ----------------------
(***************************************************************************)
(* The lane of the backend's answers keeps its types, implements LossyFifo *)
(* and loses nothing silently, for any number of sessions, connections and *)
(* frames and any limits of queue and batch.                               *)
(***************************************************************************)
EXTENDS DownstreamWriter, SequenceTheorems, TLAPS

-----------------------------------------------------------------------------
(* Sequences made of parts.                                                *)

(* A sequence of two parts is cut where the parts meet.                    *)
LEMMA CutConcat ==
  ASSUME NEW S, NEW a \in Seq(S), NEW b \in Seq(S)
  PROVE  /\ SubSeq(a \o b, 1, Len(a)) = a
         /\ SubSeq(a \o b, Len(a) + 1, Len(a \o b)) = b
<1>1. /\ a \o b \in Seq(S) /\ Len(a \o b) = Len(a) + Len(b)
      /\ Len(a) \in Nat /\ Len(b) \in Nat
      /\ \A i \in 1 .. (Len(a) + Len(b)) :
           (a \o b)[i] = IF i <= Len(a) THEN a[i] ELSE b[i - Len(a)]
  BY ConcatProperties, LenProperties
<1>2. \A i \in 1 .. Len(a \o b) : (a \o b)[i] \in S
  BY <1>1, ElementOfSeq
<1>3. SubSeq(a \o b, 1, Len(a)) = a
  <2>1. \A i \in 1 .. Len(a) : (a \o b)[i] \in S
    BY <1>1, <1>2
  <2>2. /\ SubSeq(a \o b, 1, Len(a)) \in Seq(S) /\ Len(SubSeq(a \o b, 1, Len(a))) = Len(a)
        /\ \A i \in 1 .. Len(a) : SubSeq(a \o b, 1, Len(a))[i] = (a \o b)[i]
    BY <1>1, <2>1, SubSeqProperties
  <2>3. \A i \in 1 .. Len(a) : SubSeq(a \o b, 1, Len(a))[i] = a[i]
    BY <1>1, <2>2
  <2> QED
    BY <2>2, <2>3, SeqEqual
<1>4. SubSeq(a \o b, Len(a) + 1, Len(a \o b)) = b
  <2> DEFINE t == SubSeq(a \o b, Len(a) + 1, Len(a) + Len(b))
  <2>1. \A i \in (Len(a) + 1) .. (Len(a) + Len(b)) : (a \o b)[i] \in S
    BY <1>1, <1>2
  <2>2. /\ t \in Seq(S) /\ Len(t) = Len(b)
        /\ \A i \in 1 .. Len(b) : t[i] = (a \o b)[Len(a) + i]
    BY <1>1, <2>1, SubSeqProperties
  <2>3. \A i \in 1 .. Len(b) : t[i] = b[i]
    BY <1>1, <2>2
  <2> HIDE DEF t
  <2>4. t = b
    BY <2>2, <2>3, SeqEqual
  <2> QED
    BY <2>4, <1>1 DEF t
<1> QED
  BY <1>3, <1>4

(* The first item of one part moves to the end of the part before it.      *)
LEMMA MoveOne ==
  ASSUME NEW S, NEW b \in Seq(S), NEW c \in Seq(S), c # <<>>
  PROVE  /\ Append(b, Head(c)) \in Seq(S) /\ Tail(c) \in Seq(S)
         /\ Append(b, Head(c)) \o Tail(c) = b \o c
<1> DEFINE h == Head(c)
           t == Tail(c)
           u == Append(b, h)
<1>1. h \in S /\ t \in Seq(S) /\ u \in Seq(S) /\ <<h>> \in Seq(S)
  BY HeadTailProperties, AppendProperties
<1>2. c = <<h>> \o t
  BY <1>1
<1>3. u = b \o <<h>>
  BY <1>1, AppendIsConcat
<1> HIDE DEF h, t, u
<1>4. (b \o <<h>>) \o t = b \o (<<h>> \o t)
  BY <1>1, ConcatAssociative
<1>5. u \o t = b \o c
  BY <1>2, <1>3, <1>4
<1> QED
  BY <1>1, <1>5 DEF h, t, u

(* Of three parts, the first ...                                           *)
LEMMA WithoutFirst ==
  ASSUME NEW S, NEW a \in Seq(S), NEW b \in Seq(S), NEW c \in Seq(S),
         NEW q, q = (a \o b) \o c
  PROVE  /\ q \in Seq(S) /\ Len(q) = Len(a) + Len(b) + Len(c)
         /\ Len(a) \in 0 .. Len(q) /\ SubSeq(q, Len(a) + 1, Len(q)) = b \o c
<1>1. q = a \o (b \o c) /\ b \o c \in Seq(S) /\ a \o b \in Seq(S)
  BY ConcatAssociative, ConcatProperties
<1>2. /\ q \in Seq(S) /\ Len(q) = Len(a) + Len(b) + Len(c)
      /\ Len(a) \in Nat /\ Len(b) \in Nat /\ Len(c) \in Nat
  <2>1. Len(a) \in Nat /\ Len(b) \in Nat /\ Len(c) \in Nat
    BY LenProperties
  <2>2. Len(a \o b) = Len(a) + Len(b)
    BY ConcatProperties
  <2>3. q \in Seq(S) /\ Len(q) = Len(a \o b) + Len(c)
    BY <1>1, ConcatProperties
  <2> QED
    BY <2>1, <2>2, <2>3
<1>3. SubSeq(q, Len(a) + 1, Len(q)) = b \o c
  <2> DEFINE t == b \o c
  <2>1. t \in Seq(S) /\ q = a \o t
    BY <1>1
  <2> HIDE DEF t
  <2>2. SubSeq(a \o t, Len(a) + 1, Len(a \o t)) = t
    BY <2>1, CutConcat
  <2>3. SubSeq(q, Len(a) + 1, Len(q)) = t
    BY <2>1, <2>2, Zenon
  <2> QED
    BY <2>3 DEF t
<1> QED
  BY <1>2, <1>3

(* ... or the second can be cut out.                                       *)
LEMMA WithoutSecond ==
  ASSUME NEW S, NEW a \in Seq(S), NEW b \in Seq(S), NEW c \in Seq(S),
         NEW q, q = (a \o b) \o c
  PROVE  SubSeq(q, 1, Len(a)) = a /\ SubSeq(q, Len(a) + Len(b) + 1, Len(q)) = c
<1>1. q = a \o (b \o c) /\ b \o c \in Seq(S) /\ a \o b \in Seq(S)
      /\ Len(a \o b) = Len(a) + Len(b)
  BY ConcatAssociative, ConcatProperties
<1>2. SubSeq(q, 1, Len(a)) = a
  BY <1>1, CutConcat
<1>3. SubSeq(q, Len(a) + Len(b) + 1, Len(q)) = c
  BY <1>1, CutConcat
<1> QED
  BY <1>2, <1>3

-----------------------------------------------------------------------------
(* The inductive invariant.                                                *)

(* batchBytes belongs to the batch, the server has the connection that the *)
(* client has, and nothing is on its way on one not yet dialed.            *)
Rest ==
  /\ batch = <<>> => bytes = 0
  /\ ~broken => dialed \in live
  /\ \A c \in Conns : c > dialed => net[c] = <<>>

IInv == TypeOK /\ Rest

LEMMA InitIInv == Init => IInv
<1> SUFFICES ASSUME Init PROVE IInv
  OBVIOUS
<1>1. <<>> \in Seq(Frame) /\ Len(<<>>) = 0
  BY EmptySeq
<1> QED
  <2>1. net \in [Conns -> Seq(Frame)] /\ \A c \in Conns : net[c] = <<>>
    BY <1>1 DEF Init
  <2>2. seqs \in [Sessions -> Nat] /\ dialed \in 0 .. MaxConns /\ live \subseteq 1 .. dialed
        /\ got \in 0 .. dialed
    BY SizeAssumption DEF Init
  <2>3. Len(ch) <= QueueCap /\ Len(batch) <= MaxPackets
    BY <1>1, SizeAssumption DEF Init
  <2>4. TypeOK
    BY <1>1, <2>1, <2>2, <2>3 DEF Init, TypeOK
  <2> QED
    BY <2>1, <2>4 DEF Init, IInv, Rest

(* Take moves a frame from the queue to a batch that is not full.          *)
LEMMA TakeTypes ==
  ASSUME IInv, ch # <<>>, Take, ~Full
  PROVE  /\ ch' \in Seq(Frame) /\ Len(ch') <= QueueCap
         /\ batch' \in Seq(Frame) /\ Len(batch') <= MaxPackets /\ batch' # <<>>
         /\ bytes' \in Nat /\ bytes' - batch'[Len(batch')].len < MaxBytes
<1> DEFINE f == Head(ch)
<1>1. /\ ch \in Seq(Frame) /\ batch \in Seq(Frame) /\ bytes \in Nat
      /\ Len(ch) <= QueueCap /\ Len(batch) \in Nat /\ Len(ch) \in Nat
  BY LenProperties DEF IInv, TypeOK
<1>2. f \in Frame /\ Tail(ch) \in Seq(Frame) /\ Len(Tail(ch)) = Len(ch) - 1
  BY <1>1, HeadTailProperties
<1>3. f.len \in Nat
  BY <1>2, SizeAssumption DEF Frame
<1>4. /\ batch' = Append(batch, f) /\ bytes' = bytes + f.len /\ ch' = Tail(ch)
      /\ Len(batch) < MaxPackets /\ bytes < MaxBytes
  BY <1>1, SizeAssumption DEF Take, Full
<1>5. /\ batch' \in Seq(Frame) /\ batch' # <<>> /\ Len(batch') = Len(batch) + 1
      /\ batch'[Len(batch) + 1] = f
  BY <1>1, <1>2, <1>4, AppendProperties
<1> HIDE DEF f
<1>6. Len(ch') <= QueueCap /\ Len(batch') <= MaxPackets
  BY <1>1, <1>2, <1>4, <1>5, SizeAssumption
<1>7. bytes' \in Nat /\ bytes' - batch'[Len(batch')].len < MaxBytes
  <2>1. batch'[Len(batch')] = f
    BY <1>5
  <2> QED
    BY <2>1, <1>1, <1>3, <1>4, SizeAssumption
<1> QED
  BY <1>2, <1>4, <1>5, <1>6, <1>7

LEMMA SendIInv ==
  ASSUME IInv, NEW s \in Sessions, NEW n \in Lens, SendToDownstream(s, n)
  PROVE  IInv' /\ ch' \in {ch, Append(ch, [sid |-> s, seq |-> seqs[s] + 1, len |-> n])}
<1> DEFINE f == [sid |-> s, seq |-> seqs[s] + 1, len |-> n]
<1>1. seqs \in [Sessions -> Nat] /\ ch \in Seq(Frame) /\ Len(ch) <= QueueCap
      /\ Len(ch) \in Nat
  BY LenProperties DEF IInv, TypeOK
<1>2. f \in Frame
  BY <1>1 DEF Frame
<1> HIDE DEF f
<1>3. /\ seqs' = [seqs EXCEPT ![s] = @ + 1]
      /\ ch' = IF Len(ch) < QueueCap THEN Append(ch, f) ELSE ch
      /\ UNCHANGED <<conn, run, batch, bytes, got, quit, ctxDone, live, dialed, broken, net, out>>
  BY DEF SendToDownstream, runVars, connVars, f
<1>4. seqs' \in [Sessions -> Nat]
  BY <1>1, <1>3
<1>5. Append(ch, f) \in Seq(Frame) /\ Len(Append(ch, f)) = Len(ch) + 1
  BY <1>1, <1>2, AppendProperties
<1>6. ch' \in Seq(Frame) /\ Len(ch') <= QueueCap
  BY <1>1, <1>3, <1>5, SizeAssumption
<1>7. IInv'
  BY <1>3, <1>4, <1>6 DEF IInv, TypeOK, Rest
<1> QED
  BY <1>3, <1>7 DEF f

(* The steps of run that leave the batch and the queue alone.              *)
LEMMA WaitIInv ==
  ASSUME IInv, RunExit \/ AdaptiveDelay \/ Timer \/ TimerCancelled
  PROVE  IInv' /\ UNCHANGED <<ch, batch, connVars, net, out>>
<1> USE DEF IInv, TypeOK, Rest, connVars
<1>1. CASE RunExit
  BY <1>1 DEF RunExit
<1>2. CASE AdaptiveDelay
  BY <1>2 DEF AdaptiveDelay
<1>3. CASE Timer
  BY <1>3 DEF Timer
<1>4. CASE TimerCancelled
  BY <1>4 DEF TimerCancelled
<1> QED
  BY <1>1, <1>2, <1>3, <1>4

(* ... that take a frame, ...                                              *)
LEMMA TakeIInv ==
  ASSUME IInv, ch # <<>>, ~Full, Take, run' \in {"delay", "more"},
         UNCHANGED <<seqs, conn, got, quit, ctxDone, connVars, net, out>>
  PROVE  IInv'
<1>1. /\ ch' \in Seq(Frame) /\ Len(ch') <= QueueCap
      /\ batch' \in Seq(Frame) /\ Len(batch') <= MaxPackets /\ batch' # <<>>
      /\ bytes' \in Nat /\ bytes' - batch'[Len(batch')].len < MaxBytes
  BY TakeTypes
<1> QED
  BY <1>1 DEF IInv, TypeOK, Rest, connVars

(* An empty batch is not full.                                             *)
LEMMA EmptyNotFull ==
  ASSUME IInv, run = "select" PROVE ~Full
<1>1. batch = <<>> /\ bytes = 0
  BY DEF IInv, TypeOK, Rest
<1>2. Len(batch) = 0
  BY <1>1
<1> QED
  BY <1>1, <1>2, SizeAssumption DEF Full

(* ... and that end a round.                                               *)
LEMMA FlushIInv ==
  ASSUME IInv, run' \in {"select", "exit"}, batch' = <<>>, bytes' = 0, got' \in 0 .. dialed,
         net' \in [Conns -> Seq(Frame)], \A c \in Conns : c > dialed => net'[c] = net[c],
         UNCHANGED <<seqs, ch, conn, quit, ctxDone, connVars, out>>
  PROVE  IInv'
<1>1. batch' \in Seq(Frame) /\ Len(batch') <= MaxPackets
  BY EmptySeq, SizeAssumption
<1>2. TypeOK'
  BY <1>1 DEF IInv, TypeOK, connVars
<1> QED
  BY <1>2 DEF IInv, Rest, connVars

LEMMA WritevIInv ==
  ASSUME IInv, AsyncWritev
  PROVE  /\ IInv'
         /\ IF got = dialed /\ got \in live
              THEN net'[dialed] = net[dialed] \o batch
              ELSE dialed \in Conns => net'[dialed] = net[dialed]
<1>1. /\ net \in [Conns -> Seq(Frame)] /\ batch \in Seq(Frame) /\ live \subseteq 1 .. dialed
      /\ dialed \in 0 .. MaxConns
  BY DEF IInv, TypeOK
<1>2. net' = IF got \in live THEN [net EXCEPT ![got] = @ \o batch] ELSE net
  BY DEF AsyncWritev
<1>3. CASE got \in live
  <2>1. got \in Conns /\ got <= dialed
    BY <1>1, <1>3, SizeAssumption DEF Conns
  <2>2. net[got] \o batch \in Seq(Frame)
    BY <1>1, <2>1, ConcatProperties
  <2>3. net' = [net EXCEPT ![got] = net[got] \o batch]
    BY <1>2, <1>3
  <2>4. /\ net' \in [Conns -> Seq(Frame)] /\ net'[got] = net[got] \o batch
        /\ \A c \in Conns : c # got => net'[c] = net[c]
    BY <1>1, <2>1, <2>2, <2>3
  <2>5. \A c \in Conns : c > dialed => net'[c] = net[c]
    BY <1>1, <2>1, <2>4 DEF Conns
  <2>6. IInv'
    BY <2>4, <2>5, <1>1, FlushIInv DEF AsyncWritev, AfterFlush
  <2> QED
    BY <1>3, <2>4, <2>6
<1>4. CASE got \notin live
  <2>1. net' = net
    BY <1>2, <1>4
  <2>2. net' \in [Conns -> Seq(Frame)] /\ \A c \in Conns : c > dialed => net'[c] = net[c]
    BY <2>1, <1>1
  <2>3. IInv'
    BY <2>2, <1>1, FlushIInv DEF AsyncWritev, AfterFlush
  <2> QED
    BY <1>4, <2>1, <2>3
<1> QED
  BY <1>3, <1>4

LEMMA GetConnIInv == ASSUME IInv, GetConn PROVE IInv'
<1>1. CASE conn = 0
  <2>1. net \in [Conns -> Seq(Frame)] /\ got \in 0 .. dialed
    BY DEF IInv, TypeOK
  <2> QED
    BY <1>1, <2>1, FlushIInv DEF GetConn, AfterFlush
<1>2. CASE conn # 0
  <2>1. conn \in 0 .. dialed
    BY SizeAssumption DEF IInv, TypeOK
  <2> QED
    BY <1>2, <2>1 DEF GetConn, IInv, TypeOK, Rest, connVars
<1> QED
  BY <1>1, <1>2

(* The steps of connections.                                               *)
LEMMA ConnIInv ==
  ASSUME IInv, Dial \/ Break \/ StopCancel \/ \E c \in Conns : SetConn(c) \/ OnClose(c)
  PROVE  IInv'
<1> USE SizeAssumption DEF IInv, TypeOK, Rest, runVars, connVars, Conns
<1>1. CASE Dial
  <2>1. dialed' = dialed + 1 /\ dialed' \in 0 .. MaxConns /\ dialed \in 0 .. MaxConns
    BY <1>1 DEF Dial
  <2>2. live' \subseteq 1 .. dialed' /\ conn' \in live' \cup {0} /\ got' \in 0 .. dialed'
    BY <1>1, <2>1 DEF Dial
  <2>3. TypeOK'
    BY <1>1, <2>1, <2>2 DEF Dial
  <2>4. Rest'
    BY <1>1, <2>1 DEF Dial
  <2> QED
    BY <2>3, <2>4
<1>2. CASE Break
  BY <1>2 DEF Break
<1>3. CASE StopCancel
  BY <1>3 DEF StopCancel
<1>4. ASSUME NEW c \in Conns, SetConn(c) PROVE IInv'
  BY <1>4 DEF SetConn
<1>5. ASSUME NEW c \in Conns, OnClose(c) PROVE IInv'
  <2>1. live' \subseteq live /\ conn' \in live' \cup {0}
    BY <1>5 DEF OnClose
  <2>2. ~broken => dialed \in live'
    BY <1>5 DEF OnClose
  <2>3. TypeOK'
    BY <1>5, <2>1 DEF OnClose
  <2> QED
    BY <1>5, <2>2, <2>3 DEF OnClose
<1> QED
  BY <1>1, <1>2, <1>3, <1>4, <1>5

LEMMA ReceiveIInv ==
  ASSUME IInv, NEW c \in Conns, Receive(c)
  PROVE  IInv' /\ net'[c] = Tail(net[c])
<1>1. net \in [Conns -> Seq(Frame)] /\ out \in Seq(Frame) /\ net[c] # <<>>
      /\ c = dialed /\ dialed \in Nat
  BY DEF IInv, TypeOK, Receive, Conns
<1>2. Head(net[c]) \in Frame /\ Tail(net[c]) \in Seq(Frame)
  BY <1>1, HeadTailProperties
<1>3. /\ net' \in [Conns -> Seq(Frame)] /\ net'[c] = Tail(net[c])
      /\ \A d \in Conns : d # c => net'[d] = net[d]
  BY <1>1, <1>2 DEF Receive
<1>4. out' \in Seq(Frame)
  BY <1>1, <1>2, AppendProperties DEF Receive
<1>5. \A d \in Conns : d > dialed => net'[d] = <<>>
  BY <1>1, <1>3 DEF IInv, Rest, Conns
<1> QED
  BY <1>3, <1>4, <1>5 DEF Receive, IInv, TypeOK, Rest, runVars, connVars

LEMMA NextIInv == ASSUME IInv, [Next]_vars PROVE IInv'
<1>1. ASSUME NEW s \in Sessions, NEW n \in Lens, SendToDownstream(s, n) PROVE IInv'
  BY <1>1, SendIInv
<1>2. CASE RunTake
  BY <1>2, TakeIInv, EmptyNotFull DEF RunTake
<1>3. CASE More
  <2>1. CASE ~Full /\ ch # <<>>
    BY <1>3, <2>1, TakeIInv DEF More
  <2>2. CASE Full \/ ch = <<>>
    BY <1>3, <2>2 DEF More, IInv, TypeOK, Rest, connVars
  <2> QED
    BY <2>1, <2>2
<1>4. CASE Run
  BY <1>2, <1>3, <1>4, WaitIInv, GetConnIInv, WritevIInv DEF Run
<1>5. CASE UNCHANGED vars
  BY <1>5 DEF vars, IInv, TypeOK, Rest, runVars, connVars
<1> QED
  BY <1>1, <1>4, <1>5, ConnIInv, ReceiveIInv DEF Next

LEMMA Invariance == Spec => []IInv
BY InitIInv, NextIInv, PTL DEF Spec

(* The writer keeps its types: its queue and its batch stay within         *)
(* MaxPackets and batchMaxBytes but for the last frame, the batch is empty *)
(* between rounds, and its connection is one the server still has.         *)
THEOREM TypeCorrect == Spec => []TypeOK
BY Invariance, PTL DEF IInv
-----------------------------------------------------------------------------
(* What a step does to the frames that can still reach the client.         *)

LEMMA PendingTypes ==
  ASSUME IInv
  PROVE  /\ Arriving \in Seq(Frame) /\ batch \in Seq(Frame) /\ ch \in Seq(Frame)
         /\ out \in Seq(Frame) /\ (~broken => dialed \in Conns)
<1>1. ~broken => dialed \in Conns
  BY SizeAssumption DEF IInv, TypeOK, Rest, Conns
<1>2. Arriving \in Seq(Frame)
  BY <1>1, EmptySeq DEF IInv, TypeOK, Arriving
<1> QED
  BY <1>1, <1>2 DEF IInv, TypeOK

(* The batch is lost because the lane has no connection, or not the one    *)
(* that the client has.                                                    *)
Excused == \/ run = "flush" /\ conn = 0
           \/ run = "write" /\ (got # dialed \/ broken)

Keeps     == Pending' = Pending /\ out' = out
Accepts   == (\E f \in Frame : Pending' = Append(Pending, f)) /\ out' = out
DropsBatch == batch # <<>> /\ Excused /\ Pending' = Arriving \o ch /\ out' = out
BreaksOff == broken' /\ Pending' = batch \o ch /\ out' = out
Delivers  == /\ Arriving # <<>> /\ out' = Append(out, Head(Arriving))
             /\ Pending' = (Tail(Arriving) \o batch) \o ch

LEMMA SameParts ==
  ASSUME UNCHANGED <<ch, batch, net, broken, dialed, out>> PROVE Keeps
BY DEF Keeps, Pending, Arriving

LEMMA TakeKeeps ==
  ASSUME IInv, ch # <<>>, Take, UNCHANGED <<connVars, net, out>> PROVE Keeps
<1>1. Arriving' = Arriving
  BY DEF Arriving, connVars
<1>2. Arriving \in Seq(Frame) /\ batch \in Seq(Frame) /\ ch \in Seq(Frame)
  BY PendingTypes
<1>3. (Arriving \o batch') \o ch' = (Arriving \o batch) \o ch
  <2>1. batch' \in Seq(Frame) /\ ch' \in Seq(Frame)
    BY <1>2, MoveOne DEF Take
  <2>2. batch' \o ch' = batch \o ch
    BY <1>2, MoveOne DEF Take
  <2>3. (Arriving \o batch') \o ch' = Arriving \o (batch' \o ch')
    BY <1>2, <2>1, ConcatAssociative, SMTT(30)
  <2>4. (Arriving \o batch) \o ch = Arriving \o (batch \o ch)
    BY <1>2, ConcatAssociative, SMTT(30)
  <2> QED
    BY <2>2, <2>3, <2>4, Zenon
<1> QED
  BY <1>1, <1>3 DEF Keeps, Pending

LEMMA GetConnEffect == ASSUME IInv, GetConn PROVE Keeps \/ DropsBatch
<1>1. CASE conn = 0
  <2>1. batch # <<>> /\ Excused
    BY <1>1 DEF GetConn, IInv, TypeOK, Excused
  <2>2. Arriving' = Arriving /\ batch' = <<>> /\ ch' = ch /\ out' = out
    BY <1>1 DEF GetConn, Arriving, connVars
  <2>3. Pending' = (Arriving \o <<>>) \o ch
    BY <2>2 DEF Pending
  <2>4. Arriving \o <<>> = Arriving
    BY PendingTypes, ConcatEmptySeq
  <2> QED
    BY <2>1, <2>2, <2>3, <2>4 DEF DropsBatch
<1>2. CASE conn # 0
  BY <1>2, SameParts DEF GetConn, connVars
<1> QED
  BY <1>1, <1>2

LEMMA WritevEffect == ASSUME IInv, AsyncWritev PROVE Keeps \/ DropsBatch
<1>1. /\ batch' = <<>> /\ ch' = ch /\ out' = out /\ run = "write" /\ batch # <<>>
      /\ dialed' = dialed /\ broken' = broken
  BY DEF AsyncWritev, connVars, IInv, TypeOK
<1>2. CASE got = dialed /\ ~broken
  <2>1. got \in live
    BY <1>2 DEF IInv, Rest
  <2>2. Arriving' = Arriving \o batch
    BY <1>1, <1>2, <2>1, WritevIInv DEF Arriving
  <2>3. Pending' = ((Arriving \o batch) \o <<>>) \o ch
    BY <1>1, <2>2 DEF Pending
  <2>4. (Arriving \o batch) \o <<>> = Arriving \o batch
    <3>1. Arriving \o batch \in Seq(Frame)
      BY PendingTypes, ConcatProperties
    <3> QED
      BY <3>1, ConcatEmptySeq
  <2> QED
    BY <1>1, <2>3, <2>4 DEF Keeps, Pending
<1>3. CASE got # dialed \/ broken
  <2>1. Excused
    BY <1>1, <1>3 DEF Excused
  <2>2. Arriving' = Arriving
    BY <1>1, <1>3, WritevIInv, PendingTypes DEF Arriving
  <2>3. Pending' = (Arriving \o <<>>) \o ch
    BY <1>1, <2>2 DEF Pending
  <2>4. Arriving \o <<>> = Arriving
    BY PendingTypes, ConcatEmptySeq
  <2> QED
    BY <1>1, <2>1, <2>3, <2>4 DEF DropsBatch
<1> QED
  BY <1>2, <1>3

LEMMA SendEffect ==
  ASSUME IInv, NEW s \in Sessions, NEW n \in Lens, SendToDownstream(s, n)
  PROVE  Keeps \/ Accepts
<1> DEFINE f == [sid |-> s, seq |-> seqs[s] + 1, len |-> n]
           p == Arriving \o batch
<1>1. f \in Frame
  BY DEF IInv, TypeOK, Frame
<1>2. UNCHANGED <<batch, net, broken, dialed, out>> /\ ch' \in {ch, Append(ch, f)}
  BY SendIInv DEF SendToDownstream, runVars, connVars
<1> HIDE DEF f
<1>3. CASE ch' = ch
  BY <1>2, <1>3, SameParts
<1>4. CASE ch' = Append(ch, f)
  <2>1. Pending' = p \o Append(ch, f)
    BY <1>2, <1>4 DEF Pending, Arriving
  <2>2. p \in Seq(Frame) /\ ch \in Seq(Frame) /\ <<f>> \in Seq(Frame)
    BY <1>1, PendingTypes, ConcatProperties
  <2> HIDE DEF p
  <2>3. Append(ch, f) = ch \o <<f>> /\ p \o ch \in Seq(Frame)
    BY <1>1, <2>2, AppendIsConcat, ConcatProperties
  <2>4. p \o Append(ch, f) = (p \o ch) \o <<f>>
    BY <2>2, <2>3, ConcatAssociative
  <2>5. Append(p \o ch, f) = (p \o ch) \o <<f>>
    BY <1>1, <2>3, AppendIsConcat
  <2>6. Pending' = Append(Pending, f)
    BY <2>1, <2>4, <2>5 DEF p, Pending
  <2> QED
    BY <1>1, <1>2, <2>6 DEF Accepts
<1> QED
  BY <1>2, <1>3, <1>4

LEMMA DialKeeps == ASSUME IInv, Dial PROVE Keeps
<1>1. /\ broken /\ ~broken' /\ dialed' = dialed + 1 /\ dialed < MaxConns
      /\ UNCHANGED <<ch, batch, net, out>>
  BY DEF Dial, runVars
<1>2. dialed \in Nat /\ dialed + 1 \in Conns /\ dialed + 1 > dialed
  BY <1>1, SizeAssumption DEF IInv, TypeOK, Conns
<1>3. net[dialed + 1] = <<>>
  BY <1>2 DEF IInv, Rest
<1>4. Arriving' = Arriving
  BY <1>1, <1>3 DEF Arriving
<1> QED
  BY <1>1, <1>4 DEF Keeps, Pending

LEMMA BreakEffect == ASSUME IInv, Break PROVE BreaksOff
<1>1. broken' /\ UNCHANGED <<ch, batch, out>>
  BY DEF Break, runVars
<1>2. Pending' = (<<>> \o batch) \o ch
  BY <1>1 DEF Pending, Arriving
<1>3. <<>> \o batch = batch
  BY PendingTypes, ConcatEmptySeq
<1> QED
  BY <1>1, <1>2, <1>3 DEF BreaksOff

LEMMA ReceiveDelivers == ASSUME IInv, NEW c \in Conns, Receive(c) PROVE Delivers
<1>1. /\ c = dialed /\ ~broken /\ net[c] # <<>> /\ out' = Append(out, Head(net[c]))
      /\ UNCHANGED <<ch, batch, dialed, broken>>
  BY DEF Receive, runVars, connVars
<1>2. Arriving = net[c] /\ Arriving' = Tail(net[c])
  BY <1>1, ReceiveIInv DEF Arriving
<1> QED
  BY <1>1, <1>2 DEF Delivers, Pending

(* Every step does one of these.                                           *)
LEMMA StepEffect ==
  ASSUME IInv, [Next]_vars
  PROVE  Keeps \/ Accepts \/ DropsBatch \/ BreaksOff \/ Delivers
<1>1. CASE RunTake
  BY <1>1, TakeKeeps DEF RunTake
<1>2. CASE More
  <2>1. CASE ~Full /\ ch # <<>>
    BY <1>2, <2>1, TakeKeeps DEF More
  <2>2. CASE Full \/ ch = <<>>
    BY <1>2, <2>2, SameParts DEF More, connVars
  <2> QED
    BY <2>1, <2>2
<1>3. CASE RunExit \/ AdaptiveDelay \/ Timer \/ TimerCancelled
  BY <1>3, WaitIInv, SameParts DEF connVars
<1>4. CASE Run
  BY <1>1, <1>2, <1>3, <1>4, GetConnEffect, WritevEffect DEF Run
<1>5. ASSUME NEW c \in Conns, SetConn(c) \/ OnClose(c) PROVE Keeps
  BY <1>5, SameParts DEF SetConn, OnClose, runVars, connVars
<1>6. CASE StopCancel \/ UNCHANGED vars
  BY <1>6, SameParts DEF StopCancel, vars, runVars, connVars
<1> QED
  BY <1>4, <1>5, <1>6, SendEffect, ReceiveDelivers, DialKeeps, BreakEffect DEF Next
-----------------------------------------------------------------------------
(* The theorems.                                                           *)

LEMMA PendingLen ==
  ASSUME IInv
  PROVE  /\ Pending \in Seq(Frame) /\ Len(Pending) = Len(Arriving) + Len(batch) + Len(ch)
         /\ Len(Arriving) \in Nat /\ Len(batch) \in Nat /\ Len(ch) \in Nat /\ Len(out) \in Nat
<1>1. Pending \in Seq(Frame) /\ Len(Pending) = Len(Arriving) + Len(batch) + Len(ch)
  BY PendingTypes, WithoutFirst DEF Pending
<1> QED
  BY <1>1, PendingTypes, LenProperties

(* An answer put into the lane's queue leaves it unread only for want of a *)
(* connection: flush finds none (getConn), the batch goes to a connection  *)
(* that the client no longer has, or the client's connection breaks.       *)
THEOREM LossExcused == Spec => NoSilentLoss
<1>1. ASSUME IInv, [Next]_vars, Len(Pending') + Len(out') < Len(Pending) + Len(out)
      PROVE  Excused \/ broken'
  <2>1. /\ Pending \in Seq(Frame) /\ Len(Pending) = Len(Arriving) + Len(batch) + Len(ch)
        /\ Len(Arriving) \in Nat /\ Len(batch) \in Nat /\ Len(ch) \in Nat /\ Len(out) \in Nat
    BY <1>1, PendingLen
  <2>2. CASE Keeps
    BY <1>1, <2>1, <2>2 DEF Keeps
  <2>3. CASE Accepts
    <3>1. PICK f \in Frame : Pending' = Append(Pending, f)
      BY <2>3 DEF Accepts
    <3>2. Len(Pending') = Len(Pending) + 1
      BY <2>1, <3>1, AppendProperties
    <3> QED
      BY <1>1, <2>1, <2>3, <3>2 DEF Accepts
  <2>4. CASE DropsBatch \/ BreaksOff
    BY <2>4 DEF DropsBatch, BreaksOff
  <2>5. CASE Delivers
    <3>1. /\ Arriving \in Seq(Frame) /\ batch \in Seq(Frame) /\ ch \in Seq(Frame)
          /\ out \in Seq(Frame) /\ Arriving # <<>>
      BY <1>1, <2>5, PendingTypes DEF Delivers
    <3>2. /\ Head(Arriving) \in Frame /\ Tail(Arriving) \in Seq(Frame)
          /\ Len(Tail(Arriving)) = Len(Arriving) - 1
      BY <3>1, HeadTailProperties
    <3>3. Len(out') = Len(out) + 1
      BY <3>1, <3>2, <2>5, AppendProperties DEF Delivers
    <3>4. Len(Pending') = Len(Tail(Arriving)) + Len(batch) + Len(ch)
      BY <3>1, <3>2, <2>5, WithoutFirst DEF Delivers
    <3> QED
      BY <1>1, <2>1, <3>2, <3>3, <3>4
  <2> QED
    BY <1>1, <2>2, <2>3, <2>4, <2>5, StepEffect
<1>2. IInv /\ [Next]_vars => [Len(Pending') + Len(out') < Len(Pending) + Len(out) =>
        \/ run = "flush" /\ conn = 0
        \/ run = "write" /\ (got # dialed \/ broken)
        \/ broken' ]_vars
  BY <1>1 DEF Excused
<1> QED
  BY <1>2, Invariance, PTL DEF Spec, NoSilentLoss

(* The first frame that can reach the client comes from its connection.    *)
LEMMA FirstPending ==
  ASSUME IInv, Arriving # <<>>
  PROVE  /\ SubSeq(Pending, 1, 1) = <<Head(Arriving)>>
         /\ SubSeq(Pending, 2, Len(Pending)) = (Tail(Arriving) \o batch) \o ch
<1> DEFINE h == Head(Arriving)
           t == Tail(Arriving)
           x == <<h>>
           r == (t \o batch) \o ch
<1>1. Arriving \in Seq(Frame) /\ batch \in Seq(Frame) /\ ch \in Seq(Frame)
  BY PendingTypes
<1>2. h \in Frame /\ t \in Seq(Frame)
  BY <1>1, HeadTailProperties
<1>3. Arriving = <<h>> \o t
  BY <1>1, <1>2
<1> HIDE DEF h, t
<1>4. x \in Seq(Frame) /\ Len(x) = 1 /\ Len(x) + 1 = 2
  BY <1>2
<1>5. t \o batch \in Seq(Frame) /\ r \in Seq(Frame)
  BY <1>1, <1>2, ConcatProperties
<1>6. (x \o t) \o batch = x \o (t \o batch)
  BY <1>1, <1>2, <1>4, ConcatAssociative
<1>7. (x \o (t \o batch)) \o ch = x \o r
  BY <1>1, <1>4, <1>5, ConcatAssociative
<1>8. Pending = x \o r
  BY <1>3, <1>6, <1>7, Zenon DEF Pending
<1> HIDE DEF x, r
<1>9. SubSeq(x \o r, 1, Len(x)) = x /\ SubSeq(x \o r, Len(x) + 1, Len(x \o r)) = r
  BY <1>4, <1>5, CutConcat
<1>10. SubSeq(Pending, 1, 1) = x /\ SubSeq(Pending, 2, Len(Pending)) = r
  BY <1>4, <1>8, <1>9, Zenon
<1> QED
  BY <1>10 DEF x, r, h, t

(* A step of the lane is a step of LossyFifo, or none.                     *)
LEMMA StepRefines ==
  ASSUME IInv, [Next]_vars PROVE [Fifo!Next]_Fifo!vars
<1>1. /\ Pending \in Seq(Frame) /\ Len(Pending) = Len(Arriving) + Len(batch) + Len(ch)
      /\ Len(Arriving) \in Nat /\ Len(batch) \in Nat /\ Len(ch) \in Nat /\ Len(out) \in Nat
  BY PendingLen
<1>2. /\ Arriving \in Seq(Frame) /\ batch \in Seq(Frame) /\ ch \in Seq(Frame)
      /\ out \in Seq(Frame)
  BY PendingTypes
<1>3. CASE Keeps
  BY <1>3 DEF Keeps, Fifo!vars
<1>4. CASE Accepts
  <2>1. PICK f \in Frame : Pending' = Append(Pending, f)
    BY <1>4 DEF Accepts
  <2>2. Len(Pending') = Len(Pending) + 1 /\ Pending'[Len(Pending')] = f
    BY <1>1, <2>1, AppendProperties
  <2>3. SubSeq(Pending', 1, Len(Pending)) = Pending
    <3>1. Pending' = Pending \o <<f>> /\ <<f>> \in Seq(Frame)
      BY <1>1, <2>1, AppendIsConcat
    <3> QED
      BY <1>1, <3>1, CutConcat
  <2>4. Fifo!Accept
    BY <1>4, <2>2, <2>3 DEF Accepts, Fifo!Accept
  <2> QED
    BY <2>4 DEF Fifo!Next
<1>5. CASE DropsBatch
  <2> DEFINE i == Len(Arriving) + 1
             j == Len(Arriving) + Len(batch)
  <2>1. Len(batch) > 0
    BY <1>2, <1>5, EmptySeq DEF DropsBatch
  <2>2. i \in 1 .. Len(Pending) /\ j \in 1 .. Len(Pending) /\ i <= j /\ i - 1 = Len(Arriving)
    BY <1>1, <2>1
  <2>3. SubSeq(Pending, 1, Len(Arriving)) = Arriving
        /\ SubSeq(Pending, j + 1, Len(Pending)) = ch
    BY <1>2, WithoutSecond DEF Pending
  <2> HIDE DEF i, j
  <2>4. Fifo!Lose(i, j)
    BY <1>5, <2>2, <2>3 DEF DropsBatch, Fifo!Lose
  <2> QED
    BY <2>2, <2>4 DEF Fifo!Next
<1>6. CASE BreaksOff
  <2> DEFINE m == Len(Arriving)
  <2>1. 0 \in 0 .. Len(Pending) /\ m \in 0 .. Len(Pending) /\ 0 <= m
    BY <1>1
  <2>2. SubSeq(Pending, m + 1, Len(Pending)) = batch \o ch
    BY <1>2, WithoutFirst DEF Pending
  <2>3. out \o SubSeq(Pending, 1, 0) = out
    <3>1. SubSeq(Pending, 1, 0) = <<>>
      BY SubSeqEmpty
    <3> QED
      BY <3>1, <1>2, ConcatEmptySeq
  <2> HIDE DEF m
  <2>4. Fifo!Deliver(0, m)
    BY <1>6, <2>1, <2>2, <2>3 DEF BreaksOff, Fifo!Deliver
  <2> QED
    BY <2>1, <2>4 DEF Fifo!Next
<1>7. CASE Delivers
  <2>0. Arriving # <<>> /\ Pending = (Arriving \o batch) \o ch
        /\ Pending' = (Tail(Arriving) \o batch) \o ch
    BY <1>7 DEF Delivers, Pending
  <2>1. SubSeq(Pending, 1, 1) = <<Head(Arriving)>>
        /\ SubSeq(Pending, 2, Len(Pending)) = Pending'
    BY <2>0, FirstPending, Zenon
  <2>2. 1 \in 0 .. Len(Pending) /\ 1 <= 1 /\ 1 + 1 = 2
    <3>1. Len(Arriving) > 0
      BY <1>2, <1>7, EmptySeq DEF Delivers
    <3> QED
      BY <3>1, <1>1
  <2>3. Head(Arriving) \in Frame
    BY <1>2, <1>7, HeadTailProperties DEF Delivers
  <2>4. out' = out \o <<Head(Arriving)>>
    BY <1>2, <1>7, <2>3, AppendIsConcat DEF Delivers
  <2>5. Fifo!Deliver(1, 1)
    BY <1>7, <2>1, <2>2, <2>4, Zenon DEF Delivers, Fifo!Deliver
  <2> QED
    BY <2>2, <2>5 DEF Fifo!Next
<1> QED
  BY <1>3, <1>4, <1>5, <1>6, <1>7, StepEffect

(* The lane implements LossyFifo: whatever connections come and go and     *)
(* whichever of them a batch is written to, the client reads the answers   *)
(* in the order in which enqueue accepted them, and none twice.            *)
THEOREM Refines == Spec => FifoLane
<1>1. Init => Fifo!Init
  <2> SUFFICES ASSUME Init PROVE Fifo!Init
    OBVIOUS
  <2>1. Pending = (<<>> \o <<>>) \o <<>> /\ out = <<>>
    BY DEF Init, Pending, Arriving
  <2>2. <<>> \o <<>> = <<>>
    BY EmptySeq, ConcatEmptySeq
  <2> QED
    BY <2>1, <2>2 DEF Fifo!Init
<1>2. IInv /\ [Next]_vars => [Fifo!Next]_Fifo!vars
  BY StepRefines
<1> QED
  BY <1>1, <1>2, Invariance, PTL DEF Spec, FifoLane, Fifo!Spec
=============================================================================
