------------------------ MODULE UpstreamConnProofs ------------------------
(***************************************************************************)
(* The safety properties of UpstreamConn hold for any set of connection    *)
(* identities.  None of them is inductive alone; IInv adds what ties the   *)
(* four goroutines together.                                               *)
(***************************************************************************)
EXTENDS UpstreamConn, TLAPS

(* The lane's connection is never one that this process has closed.        *)
LaneConnOpen == conn # NoConn => conn \in open

(* Only the manager stores connections, so a connection that is dialed     *)
(* while lane.conn is nil never overwrites another one; nobody watches it  *)
(* yet.                                                                    *)
DialedAlone ==
  /\ mgr \in {"dial", "install"} => conn = NoConn
  /\ mgr = "install" => dialed \in open
  /\ mgr \in {"install", "spawn"} => watch[dialed] = "none"
  /\ mgr = "spawn" => conn \in {dialed, NoConn}

(* A watcher that wants the lock has seen the end of its connection.       *)
WatcherSawEnd ==
  \A c \in Conns : watch[c] = "lock" => c \in broken \/ c \notin open

(* A write is under way only on the lane's connection.                     *)
WriterHasConn == writer = "write" => conn # NoConn

(* Stop cancels before it closes anything.                                 *)
CancelFirst == stop # "no" => ctxDone

IInv ==
  /\ TypeOK /\ NoLostWakeup /\ NoSocketLeak /\ LaneConnWatched
  /\ LaneConnOpen /\ DialedAlone /\ WatcherSawEnd /\ WriterHasConn /\ CancelFirst

(* The invariant holds when New has built the lane and Start has started   *)
(* its goroutines.                                                         *)
LEMMA InitIInv == Init => IInv
  BY NoConnAssumption
  DEF Init, IInv, TypeOK, MgrStates, WatchStates, NoLostWakeup, NoSocketLeak,
      LaneConnWatched, LaneConnOpen, DialedAlone, WatcherSawEnd, WriterHasConn,
      CancelFirst

(* Every step of every goroutine keeps the invariant.                      *)
LEMMA NextIInv == IInv /\ [Next]_vars => IInv'
<1> SUFFICES ASSUME IInv, [Next]_vars PROVE IInv'
  OBVIOUS
<1> USE NoConnAssumption
    DEF IInv, TypeOK, MgrStates, WatchStates, NoLostWakeup, NoSocketLeak,
        LaneConnWatched, LaneConnOpen, DialedAlone, WatcherSawEnd, WriterHasConn,
        CancelFirst, MuFree, CloseLaneConn
<1>1. CASE MgrLoop      BY <1>1 DEF MgrLoop
<1>2. CASE MgrCheck     BY <1>2 DEF MgrCheck
<1>3. CASE MgrWake      BY <1>3 DEF MgrWake
<1>4. CASE MgrCancelled BY <1>4 DEF MgrCancelled
<1>5. CASE MgrTimer     BY <1>5 DEF MgrTimer
<1>6. CASE DialFail     BY <1>6 DEF DialFail
<1>7. ASSUME NEW c \in Conns, DialOk(c) PROVE IInv'
  BY <1>7 DEF DialOk, Unused
<1>8. CASE MgrInstall   BY <1>8 DEF MgrInstall
<1>9. CASE MgrSpawn     BY <1>9 DEF MgrSpawn
<1>10. CASE MgrDrain    BY <1>10 DEF MgrDrain
<1>11. ASSUME NEW c \in Conns, WatchRead(c) PROVE IInv'
  BY <1>11 DEF WatchRead
<1>12. ASSUME NEW c \in Conns, WatchClear(c) PROVE IInv'
  BY <1>12 DEF WatchClear
<1>13. ASSUME NEW c \in Conns, WatchNotify(c) PROVE IInv'
  BY <1>13 DEF WatchNotify
<1>14. CASE WriteBegin  BY <1>14 DEF WriteBegin
<1>15. CASE WriteOk     BY <1>15 DEF WriteOk
<1>16. CASE WriteErr    BY <1>16 DEF WriteErr
<1>17. CASE WriteNotify BY <1>17 DEF WriteNotify
<1>18. CASE StopCancel  BY <1>18 DEF StopCancel
<1>19. CASE StopClose   BY <1>19 DEF StopClose
<1>20. ASSUME NEW c \in Conns, Break(c) PROVE IInv'
  BY <1>20 DEF Break
<1>21. CASE UNCHANGED vars BY <1>21 DEF vars
<1>22. QED
  BY <1>1, <1>2, <1>3, <1>4, <1>5, <1>6, <1>7, <1>8, <1>9, <1>10, <1>11, <1>12,
     <1>13, <1>14, <1>15, <1>16, <1>17, <1>18, <1>19, <1>20, <1>21
  DEF Next, Manager, Watcher

LEMMA Invariance == Spec => []IInv
<1>1. QED BY InitIInv, NextIInv, PTL DEF Spec

(* The state of a lane is well-formed in every reachable state.            *)
THEOREM TypeCorrect == Spec => []TypeOK
<1>1. IInv => TypeOK BY DEF IInv
<1>2. QED BY <1>1, Invariance, PTL

(* The reconnect channel never loses the wake-up that the sleeping manager *)
(* needs.                                                                  *)
THEOREM WakeupSafe == Spec => []NoLostWakeup
<1>1. IInv => NoLostWakeup BY DEF IInv
<1>2. QED BY <1>1, Invariance, PTL

(* No goroutine forgets a socket that is still open.                       *)
THEOREM SocketSafe == Spec => []NoSocketLeak
<1>1. IInv => NoSocketLeak BY DEF IInv
<1>2. QED BY <1>1, Invariance, PTL

(* The lane's connection is watched until Stop.                            *)
THEOREM WatchSafe == Spec => []LaneConnWatched
<1>1. IInv => LaneConnWatched BY DEF IInv
<1>2. QED BY <1>1, Invariance, PTL

(* Late watchers and write errors spare a healthy connection.              *)
THEOREM TeardownSafe == Spec => HealthyConnKept
<1> DEFINE Kept == conn # NoConn /\ conn' = NoConn /\ ~ctxDone => conn \in broken
<1>1. ASSUME IInv, [Next]_vars PROVE [Kept]_vars
  <2> USE NoConnAssumption, <1>1
      DEF IInv, TypeOK, DialedAlone, LaneConnOpen, WatcherSawEnd, CancelFirst,
          CloseLaneConn
  <2>1. ASSUME NEW c \in Conns, WatchClear(c) PROVE Kept
    BY <2>1 DEF WatchClear
  <2>2. ASSUME NEW c \in Conns, DialOk(c) \/ WatchRead(c) \/ WatchNotify(c) \/ Break(c)
        PROVE  Kept
    BY <2>2 DEF DialOk, WatchRead, WatchNotify, Break
  <2>3. CASE WriteErr BY <2>3 DEF WriteErr
  <2>4. CASE MgrInstall BY <2>4 DEF MgrInstall
  <2>5. CASE StopClose BY <2>5 DEF StopClose
  <2>6. QED
    BY <2>1, <2>2, <2>3, <2>4, <2>5
    DEF Next, Manager, Watcher, vars, MgrLoop, MgrCheck, MgrWake, MgrCancelled,
        MgrTimer, MgrSpawn, MgrDrain, DialFail, WriteBegin, WriteOk, WriteNotify,
        StopCancel
<1>2. QED BY <1>1, Invariance, PTL DEF Spec, HealthyConnKept
=============================================================================
