----------------------- MODULE DownstreamLaneProofs -----------------------
(***************************************************************************)
(* The safety properties of a downstream lane hold for any set of          *)
(* connections and sessions, any queue capacity and any number of frames   *)
(* in flight.                                                              *)
(***************************************************************************)
EXTENDS DownstreamLane, TLAPS

(* The types that the argument needs.                                      *)
ConnTypes ==
  /\ conn \in Conns \cup {NoConn} /\ open \subseteq Conns /\ mgr \in MgrStates
  /\ hconn \in IF mgr \in {"install", "drain", "register", "spawn", "read", "close", "clear"}
                 THEN Conns ELSE {NoConn}
  /\ srv \in [Conns -> {"none", "new", "open"}] /\ ident \subseteq Conns
  /\ wconn \in Conns \cup {NoConn}

(* handleDownstream closes its connection before it clears lane.conn.      *)
ClosedBeforeClear == mgr = "clear" => hconn \notin open

(* OnClose will find the lane in the context of the writer's connection.   *)
WriterConnIdent == wconn # NoConn => wconn \in ident

IInv == ConnTypes /\ WriterConnLive /\ WriterConnIdent /\ LaneConnRead /\ NoSocketLeak
          /\ ClosedBeforeClear

LEMMA InitIInv == Init => IInv
  BY DEF Init, IInv, ConnTypes, WriterConnLive, WriterConnIdent, LaneConnRead, NoSocketLeak,
         ClosedBeforeClear, MgrStates

(* The steps of the client touch lane.conn and its sockets only in the     *)
(* ways that sendLaneControl and Stop do, ...                              *)
LEMMA SendKeeps ==
  ASSUME IInv, NEW frame, SendLaneControl(frame),
         UNCHANGED <<mgr, hconn, srv, ident, wconn>>
  PROVE  IInv'
  BY NoConnAssumption
  DEF SendLaneControl, WriteControl, laneVars, IInv, ConnTypes, WriterConnLive,
      WriterConnIdent, LaneConnRead, NoSocketLeak, ClosedBeforeClear, MgrStates

LEMMA IdleKeeps ==
  ASSUME IInv, UNCHANGED <<conn, open, mgr, hconn, srv, ident, wconn>>
  PROVE  IInv'
  BY DEF IInv, ConnTypes, WriterConnLive, WriterConnIdent, LaneConnRead, NoSocketLeak,
         ClosedBeforeClear

(* ... and every step keeps the invariant.                                 *)
LEMMA NextIInv == IInv /\ [Next]_vars => IInv'
<1> SUFFICES ASSUME IInv, [Next]_vars PROVE IInv'
  OBVIOUS
<1> USE NoConnAssumption
    DEF laneVars, netVars, mgrVars, loopVars, stopVars, serverVars
<1>1. CASE Manager
  <2> USE DEF IInv, ConnTypes, WriterConnLive, WriterConnIdent, LaneConnRead, NoSocketLeak,
              ClosedBeforeClear, MgrStates
  <2>1. CASE MgrLoop BY <2>1 DEF MgrLoop
  <2>2. CASE MgrCheck BY <2>2 DEF MgrCheck
  <2>3. CASE MgrWake BY <2>3 DEF MgrWake
  <2>4. CASE MgrCancelled BY <2>4 DEF MgrCancelled
  <2>5. CASE MgrTimer BY <2>5 DEF MgrTimer
  <2>6. CASE MgrInstall BY <2>6 DEF MgrInstall
  <2>7. CASE MgrDrain BY <2>7 DEF MgrDrain
  <2>8. CASE MgrRegister BY <2>8 DEF MgrRegister, SendLaneControl, WriteControl
  <2>9. CASE MgrSpawn BY <2>9 DEF MgrSpawn
  <2>10. CASE ReadEnds BY <2>10 DEF ReadEnds
  <2>11. CASE MgrClose BY <2>11 DEF MgrClose
  <2>12. CASE MgrClear BY <2>12 DEF MgrClear
  <2>13. CASE MgrNotify BY <2>13 DEF MgrNotify
  <2> QED
    BY <1>1, <2>1, <2>2, <2>3, <2>4, <2>5, <2>6, <2>7, <2>8, <2>9, <2>10, <2>11, <2>12, <2>13
    DEF Manager
<1>2. CASE DialFail
  BY <1>2 DEF DialFail, IInv, ConnTypes, WriterConnLive, WriterConnIdent, LaneConnRead,
              NoSocketLeak, ClosedBeforeClear, MgrStates
<1>3. ASSUME NEW c \in Conns, DialOk(c) PROVE IInv'
  BY <1>3 DEF DialOk, IInv, ConnTypes, WriterConnLive, WriterConnIdent, LaneConnRead,
              NoSocketLeak, ClosedBeforeClear, MgrStates
<1>4. CASE StopCancel
  BY <1>4, IdleKeeps DEF StopCancel
<1>5. CASE StopClose
  BY <1>5 DEF StopClose, IInv, ConnTypes, WriterConnLive, WriterConnIdent, LaneConnRead,
              NoSocketLeak, ClosedBeforeClear
<1>6. CASE ServerRestart
  BY <1>6 DEF ServerRestart, IInv, ConnTypes, WriterConnLive, WriterConnIdent, LaneConnRead,
              NoSocketLeak, ClosedBeforeClear
<1>7. ASSUME NEW s \in Sids, NewSession(s) PROVE IInv'
  BY <1>7, IdleKeeps DEF NewSession
<1>8. ASSUME NEW c \in Conns, LoopHello(c) PROVE IInv'
  BY <1>8, SendKeeps DEF LoopHello
<1>9. ASSUME NEW c \in Conns, LoopBeat(c) PROVE IInv'
  BY <1>9, SendKeeps DEF LoopBeat
<1>10. ASSUME NEW c \in Conns, LoopFlush(c) \/ LoopTick(c) PROVE IInv'
  <2>1. UNCHANGED <<mgr, hconn, srv, ident, wconn>>
    BY <1>10 DEF LoopFlush, LoopTick
  <2>2. CASE pending[c] = {}
    BY <1>10, <2>1, <2>2, IdleKeeps DEF LoopFlush, LoopTick, FlushPending
  <2>3. CASE SendLaneControl(Register(pending[c]))
    BY <2>1, <2>3, SendKeeps
  <2> QED BY <1>10, <2>2, <2>3 DEF LoopFlush, LoopTick, FlushPending
<1>11. ASSUME NEW c \in Conns, LoopExit(c) \/ LoopTake(c) PROVE IInv'
  BY <1>11, IdleKeeps DEF LoopExit, LoopTake
<1>12. ASSUME NEW c \in Conns, OnOpen(c) PROVE IInv'
  BY <1>12 DEF OnOpen, IInv, ConnTypes, WriterConnLive, WriterConnIdent, LaneConnRead,
               NoSocketLeak, ClosedBeforeClear
<1>13. ASSUME NEW c \in Conns, OnTraffic(c) PROVE IInv'
  <2>1. CASE HandleFrame(c)
    BY <1>13, <2>1 DEF OnTraffic, HandleFrame, IInv, ConnTypes, WriterConnLive,
                       WriterConnIdent, LaneConnRead, NoSocketLeak, ClosedBeforeClear
  <2>2. CASE RefuseFrame(c) \/ DiscardRest(c)
    BY <1>13, <2>2, IdleKeeps DEF OnTraffic, RefuseFrame, DiscardRest, DiscardBuffered
  <2> QED BY <1>13, <2>1, <2>2 DEF OnTraffic
<1>14. ASSUME NEW c \in Conns, OnClose(c) PROVE IInv'
  BY <1>14 DEF OnClose, IInv, ConnTypes, WriterConnLive, WriterConnIdent, LaneConnRead,
               NoSocketLeak, ClosedBeforeClear
<1>15. ASSUME NEW c \in Conns, Break(c) PROVE IInv'
  BY <1>15, IdleKeeps DEF Break
<1>16. CASE UNCHANGED vars
  BY <1>16, IdleKeeps DEF vars
<1> QED
  BY <1>1, <1>2, <1>3, <1>4, <1>5, <1>6, <1>7, <1>8, <1>9, <1>10, <1>11, <1>12, <1>13,
     <1>14, <1>15, <1>16
  DEF Next, ControlLoop, Server

LEMMA Invariance == Spec => []IInv
<1> QED BY InitIInv, NextIInv, PTL DEF Spec

(* The lane's writer never holds a connection that the server has closed.  *)
THEOREM WriterConnSafe == Spec => []WriterConnLive
<1>1. IInv => WriterConnLive BY DEF IInv
<1> QED BY <1>1, Invariance, PTL

(* The client's lane connection always has its reader.                     *)
THEOREM ReaderSafe == Spec => []LaneConnRead
<1>1. IInv => LaneConnRead BY DEF IInv
<1> QED BY <1>1, Invariance, PTL

(* The client forgets no open downstream socket.                           *)
THEOREM SocketSafe == Spec => []NoSocketLeak
<1>1. IInv => NoSocketLeak BY DEF IInv
<1> QED BY <1>1, Invariance, PTL
-----------------------------------------------------------------------------
(* Type correctness.  sendLaneControl adds a frame to one connection or    *)
(* takes the lane's connection away.                                       *)
LEMMA SendTypes ==
  ASSUME TypeOK, NEW frame \in Frame, SendLaneControl(frame)
  PROVE  /\ conn' \in Conns \cup {NoConn} /\ open' \subseteq Conns /\ reconnect' \in BOOLEAN
         /\ c2s' \in [Conns -> Seq(Frame)]
<1>1. conn' \in Conns \cup {NoConn} /\ open' \subseteq Conns
  BY DEF SendLaneControl, WriteControl, laneVars, TypeOK
<1>2. reconnect' \in BOOLEAN
  BY DEF SendLaneControl, WriteControl, laneVars, TypeOK
<1>3. c2s' \in [Conns -> Seq(Frame)]
  <2>1. CASE c2s' = [c2s EXCEPT ![conn] = Append(@, frame)] /\ conn \in Conns
    <3>1. Append(c2s[conn], frame) \in Seq(Frame)
      BY <2>1 DEF TypeOK
    <3> QED
      BY <2>1, <3>1 DEF TypeOK
  <2>2. CASE UNCHANGED c2s
    BY <2>2 DEF TypeOK
  <2> QED
    BY <2>1, <2>2 DEF SendLaneControl, WriteControl, TypeOK
<1> QED
  BY <1>1, <1>2, <1>3

LEMMA TypeStep ==
  ASSUME TypeOK, IInv, [Next]_vars
  PROVE  TypeOK'
<1> USE NoConnAssumption, BoundsAssumption
    DEF laneVars, netVars, mgrVars, loopVars, stopVars, serverVars
<1>f. Hello \in Frame /\ Heartbeat \in Frame /\ \A ids \in SUBSET Sids : Register(ids) \in Frame
  BY DEF Hello, Heartbeat, Register, Frame
<1>e. <<>> \in Seq(Frame) /\ <<>> \in Seq(Sids)
  OBVIOUS
<1>1. CASE Manager
  <2> USE DEF TypeOK, MgrStates
  <2>1. CASE MgrLoop \/ MgrCheck \/ MgrCancelled \/ MgrTimer
    BY <2>1 DEF MgrLoop, MgrCheck, MgrCancelled, MgrTimer
  <2>2. CASE MgrWake \/ MgrDrain \/ MgrNotify
    BY <2>2 DEF MgrWake, MgrDrain, MgrNotify
  <2>3. CASE MgrInstall \/ MgrClear
    BY <2>3 DEF MgrInstall, MgrClear
  <2>4. CASE MgrRegister
    BY <2>4, <1>f, SendTypes DEF MgrRegister
  <2>5. CASE MgrSpawn
    BY <2>5 DEF MgrSpawn
  <2>6. CASE ReadEnds
    BY <2>6 DEF ReadEnds
  <2>7. CASE MgrClose
    <3>1. hconn \in Conns
      BY <2>7 DEF MgrClose, IInv, ConnTypes
    <3> QED
      BY <2>7, <3>1 DEF MgrClose
  <2> QED
    BY <1>1, <2>1, <2>2, <2>3, <2>4, <2>5, <2>6, <2>7 DEF Manager
<1>2. CASE DialFail
  BY <1>2 DEF DialFail, TypeOK, MgrStates
<1>3. ASSUME NEW c \in Conns, DialOk(c) PROVE TypeOK'
  BY <1>3, <1>e DEF DialOk, TypeOK, MgrStates
<1>4. CASE StopCancel
  BY <1>4 DEF StopCancel, TypeOK
<1>5. CASE StopClose
  BY <1>5 DEF StopClose, TypeOK
<1>6. CASE ServerRestart
  BY <1>6, <1>e DEF ServerRestart, Happens, TypeOK
<1>7. ASSUME NEW s \in Sids, NewSession(s) PROVE TypeOK'
  <2>1. regCh' \in Seq(Sids) /\ Len(regCh') <= RegCap
    BY <1>7 DEF NewSession, RegisterSessionOnLane, TypeOK
  <2> QED
    BY <1>7, <2>1 DEF NewSession, TypeOK
<1>8. ASSUME NEW c \in Conns, LoopHello(c) \/ LoopBeat(c) PROVE TypeOK'
  <2>1. SendLaneControl(Hello) \/ SendLaneControl(Heartbeat)
    BY <1>8 DEF LoopHello, LoopBeat
  <2>2. /\ conn' \in Conns \cup {NoConn} /\ open' \subseteq Conns /\ reconnect' \in BOOLEAN
        /\ c2s' \in [Conns -> Seq(Frame)]
    BY <2>1, <1>f, SendTypes
  <2> QED
    BY <1>8, <2>2 DEF LoopHello, LoopBeat, TypeOK
<1>9. ASSUME NEW c \in Conns, LoopFlush(c) \/ LoopTick(c) PROVE TypeOK'
  <2>1. pending[c] \in SUBSET Sids
    BY DEF TypeOK
  <2>2. /\ conn' \in Conns \cup {NoConn} /\ open' \subseteq Conns /\ reconnect' \in BOOLEAN
        /\ c2s' \in [Conns -> Seq(Frame)]
    <3>1. CASE SendLaneControl(Register(pending[c]))
      BY <2>1, <3>1, <1>f, SendTypes
    <3>2. CASE UNCHANGED <<conn, open, reconnect, c2s>>
      BY <3>2 DEF TypeOK
    <3> QED
      BY <1>9, <3>1, <3>2 DEF LoopFlush, LoopTick, FlushPending
  <2> QED
    BY <1>9, <2>2 DEF LoopFlush, LoopTick, FlushPending, TypeOK
<1>10. ASSUME NEW c \in Conns, LoopExit(c) PROVE TypeOK'
  BY <1>10 DEF LoopExit, TypeOK
<1>11. ASSUME NEW c \in Conns, LoopTake(c) PROVE TypeOK'
  <2>1. Head(regCh) \in Sids /\ Tail(regCh) \in Seq(Sids) /\ Len(Tail(regCh)) <= RegCap
    BY <1>11 DEF LoopTake, TypeOK
  <2> QED
    BY <1>11, <2>1 DEF LoopTake, TypeOK
<1>12. ASSUME NEW c \in Conns, OnOpen(c) PROVE TypeOK'
  BY <1>12 DEF OnOpen, TypeOK
<1>13. ASSUME NEW c \in Conns, OnTraffic(c) PROVE TypeOK'
  <2>1. CASE HandleFrame(c)
    <3>1. Head(c2s[c]) \in Frame /\ Tail(c2s[c]) \in Seq(Frame)
      BY <2>1 DEF HandleFrame, TypeOK
    <3>2. Head(c2s[c]) \subseteq Sids
      BY <3>1 DEF Frame
    <3> QED
      BY <1>13, <2>1, <3>1, <3>2 DEF OnTraffic, HandleFrame, TypeOK
  <2>2. CASE RefuseFrame(c) \/ DiscardRest(c)
    <3>1. PICK n \in 0 .. Len(c2s[c]), whole \in BOOLEAN : DiscardBuffered(c, n, whole)
      BY <2>2 DEF RefuseFrame, DiscardRest, TypeOK
    <3>2. SubSeq(c2s[c], n + 1, Len(c2s[c])) \in Seq(Frame)
      BY DEF TypeOK
    <3> QED
      BY <1>13, <3>1, <3>2 DEF OnTraffic, DiscardBuffered, TypeOK
  <2> QED BY <1>13, <2>1, <2>2 DEF OnTraffic
<1>14. ASSUME NEW c \in Conns, OnClose(c) PROVE TypeOK'
  BY <1>14, <1>e DEF OnClose, TypeOK
<1>15. ASSUME NEW c \in Conns, Break(c) PROVE TypeOK'
  BY <1>15 DEF Break, Happens, TypeOK
<1>16. CASE UNCHANGED vars
  BY <1>16 DEF vars, TypeOK
<1> QED
  BY <1>1, <1>2, <1>3, <1>4, <1>5, <1>6, <1>7, <1>8, <1>9, <1>10, <1>11, <1>12, <1>13,
     <1>14, <1>15, <1>16
  DEF Next, ControlLoop, Server

(* Client and server keep their types, whatever sendLaneControl finds in   *)
(* lane.conn: registerCh stays within its capacity and every connection    *)
(* carries well-formed control frames.                                     *)
THEOREM TypeCorrect == Spec => []TypeOK
<1>1. Init => TypeOK
  <2> SUFFICES ASSUME Init PROVE TypeOK
    OBVIOUS
  <2>1. reconnect \in BOOLEAN /\ ctxDone \in BOOLEAN
    BY DEF Init
  <2>2. /\ loop \in [Conns -> {"none", "hello", "select", "beat"}]
        /\ pending \in [Conns -> SUBSET Sids]
        /\ srv \in [Conns -> {"none", "new", "open"}]
    BY DEF Init
  <2>3. regCh \in Seq(Sids) /\ Len(regCh) <= RegCap /\ c2s \in [Conns -> Seq(Frame)]
    BY BoundsAssumption DEF Init
  <2> QED
    BY <2>1, <2>2, <2>3 DEF Init, TypeOK, MgrStates
<1> QED
  BY <1>1, TypeStep, Invariance, PTL DEF Spec
=============================================================================
