----------------------- MODULE ServerSessionsProofs -----------------------
(***************************************************************************)
(* Every session in the server's map has a goroutine that will remove it,  *)
(* for any number of session identifiers, session objects and event loops. *)
(***************************************************************************)
EXTENDS ServerSessions, FiniteSetTheorems, TLAPS

Creating == {"store", "count", "spawn"}

(* The variables the argument is about.                                    *)
Typed ==
  /\ sessions \in [Sids -> Objs \cup {None}] /\ sidOf \in [Objs -> Sids]
  /\ reader \in [Objs -> ReaderStates]
  /\ loop \in [Loops -> LoopStates] /\ hand \in [Loops -> Objs \cup {None}]

(* An object is in the map only under its own session identifier.          *)
FiledUnderOwnId == \A s \in Sids : sessions[s] # None => sidOf[sessions[s]] = s

(* An object that an event loop is creating has no reader yet, and before  *)
(* Store it is not in the map.                                             *)
HandedOver ==
  \A e \in Loops : loop[e] \in Creating =>
    /\ hand[e] \in Objs /\ reader[hand[e]] = "none"
    /\ loop[e] = "store" => \A s \in Sids : sessions[s] # hand[e]

(* No two event loops create the same object.                              *)
CreatedOnce ==
  \A e, f \in Loops :
    loop[e] \in Creating /\ loop[f] \in Creating /\ hand[e] = hand[f] => e = f

IInv == Typed /\ FiledUnderOwnId /\ HandedOver /\ CreatedOnce /\ NoDeadEntry

LEMMA InitIInv == Init => IInv
BY NoneAssumption DEF Init, IInv, Typed, FiledUnderOwnId, HandedOver, CreatedOnce, NoDeadEntry,
   InMap, Creating, LoopStates, ReaderStates

(* The steps of handleUpstreamPacket.                                      *)
LEMMA HandlerStep ==
  ASSUME IInv, NEW e \in Loops, Handler(e) \/ \E s \in Sids : Load(e, s)
  PROVE  IInv'
<1> USE NoneAssumption DEF IInv, Typed, FiledUnderOwnId, HandedOver, CreatedOnce,
        NoDeadEntry, InMap, Creating, LoopStates, ReaderStates
<1>1. ASSUME NEW s \in Sids, Load(e, s), sessions[s] # None PROVE IInv'
  BY <1>1 DEF Load
<1>2. ASSUME NEW s \in Sids, Load(e, s), sessions[s] = None PROVE IInv'
  <2>1. PICK o \in Objs :
          /\ Unused(o) /\ sidOf' = [sidOf EXCEPT ![o] = s]
          /\ loop' = [loop EXCEPT ![e] = "store"] /\ hand' = [hand EXCEPT ![e] = o]
    BY <1>2 DEF Load
  <2>2. loop[e] = "idle" /\ UNCHANGED <<sessions, reader>>
    BY <1>2 DEF Load
  <2>3. /\ reader[o] = "none" /\ (\A r \in Sids : sessions[r] # o)
        /\ \A f \in Loops : hand[f] # o
    BY <2>1 DEF Unused
  <2>4. Typed'
    BY <2>1, <2>2
  <2>5. FiledUnderOwnId'
    BY <2>1, <2>2, <2>3
  <2>6. HandedOver'
    BY <2>1, <2>2, <2>3
  <2>7. CreatedOnce'
    BY <2>1, <2>2, <2>3
  <2>8. NoDeadEntry'
    BY <2>1, <2>2, <2>3
  <2> QED
    BY <2>4, <2>5, <2>6, <2>7, <2>8
<1>3. CASE Touch(e)
  BY <1>3 DEF Touch
<1>4. CASE Store(e)
  <2>1. /\ loop[e] = "store" /\ hand[e] \in Objs /\ reader[hand[e]] = "none"
        /\ sessions' = [sessions EXCEPT ![sidOf[hand[e]]] = hand[e]]
        /\ loop' = [loop EXCEPT ![e] = "count"]
        /\ UNCHANGED <<sidOf, reader, hand>>
    BY <1>4 DEF Store
  <2>2. Typed' /\ FiledUnderOwnId'
    BY <2>1
  <2>3. HandedOver' /\ CreatedOnce'
    BY <2>1
  <2>4. NoDeadEntry'
    BY <2>1
  <2> QED
    BY <2>2, <2>3, <2>4
<1>5. CASE Count(e)
  BY <1>5 DEF Count
<1>6. CASE Spawn(e)
  <2>1. /\ loop[e] = "spawn" /\ hand[e] \in Objs
        /\ reader' = [reader EXCEPT ![hand[e]] = "loop"]
        /\ loop' = [loop EXCEPT ![e] = "write"]
        /\ UNCHANGED <<sessions, sidOf, hand>>
    BY <1>6 DEF Spawn
  <2>2. Typed' /\ FiledUnderOwnId' /\ CreatedOnce'
    BY <2>1
  <2>3. HandedOver'
    BY <2>1
  <2>4. NoDeadEntry'
    BY <2>1
  <2> QED
    BY <2>2, <2>3, <2>4
<1>7. CASE Write(e)
  BY <1>7 DEF Write
<1> QED
  BY <1>1, <1>2, <1>3, <1>4, <1>5, <1>6, <1>7 DEF Handler

(* The steps of a reader, except the removal of its entry, move it from a  *)
(* running state to a running state, or end it after the removal.          *)
LEMMA ReaderStep ==
  ASSUME IInv, NEW o \in Objs, Reader(o) \/ ReadOk(o) \/ ReadErr(o)
  PROVE  IInv'
<1> USE NoneAssumption DEF IInv, Typed, FiledUnderOwnId, HandedOver, CreatedOnce,
        NoDeadEntry, InMap, Creating, LoopStates, ReaderStates
<1>1. CASE ReaderLoop(o)
  BY <1>1 DEF ReaderLoop, loopVars
<1>2. CASE ReadClosed(o)
  BY <1>2 DEF ReadClosed, loopVars
<1>3. CASE ReaderClose(o)
  BY <1>3 DEF ReaderClose, loopVars
<1>4. CASE ReaderDelete(o)
  <2>1. /\ reader[o] = "delete" /\ sessions' = [sessions EXCEPT ![sidOf[o]] = None]
        /\ \A p \in Objs : p # o => reader'[p] = reader[p]
        /\ reader'[o] \in {"uncount", "none"} /\ reader' \in [Objs -> ReaderStates]
        /\ UNCHANGED <<sidOf, loop, hand>>
    BY <1>4 DEF ReaderDelete, loopVars
  <2>2. \A s \in Sids : sessions'[s] # None => sessions'[s] = sessions[s] /\ sessions[s] # o
    BY <2>1
  <2>3. \A e \in Loops : loop[e] \in Creating => hand[e] # o
    BY <2>1
  <2>4. Typed' /\ FiledUnderOwnId' /\ CreatedOnce'
    BY <2>1, <2>2
  <2>5. HandedOver'
    BY <2>1, <2>2, <2>3
  <2>6. NoDeadEntry'
    BY <2>1, <2>2
  <2> QED
    BY <2>4, <2>5, <2>6
<1>5. CASE ReaderUncount(o)
  <2>1. \A s \in Sids : sessions[s] # o
    BY <1>5 DEF ReaderUncount
  <2> QED
    BY <1>5, <2>1 DEF ReaderUncount, loopVars
<1>6. CASE ReadOk(o)
  BY <1>6 DEF ReadOk, loopVars
<1>7. CASE ReadErr(o)
  BY <1>7 DEF ReadErr, loopVars
<1> QED
  BY <1>1, <1>2, <1>3, <1>4, <1>5, <1>6, <1>7 DEF Reader

(* cleanupSessions and Stop only take sessions out of the map.             *)
LEMMA OtherStep ==
  ASSUME IInv, \/ Cleanup \/ StopCancel \/ StopClose
               \/ (\E o \in Objs : Age(o)) \/ UNCHANGED vars
  PROVE  IInv'
<1> USE NoneAssumption DEF IInv, Typed, FiledUnderOwnId, HandedOver, CreatedOnce,
        NoDeadEntry, InMap, Creating, LoopStates, ReaderStates
<1>1. ASSUME UNCHANGED <<sessions, sidOf, reader, loop, hand>> PROVE IInv'
  BY <1>1
<1>2. ASSUME NEW s \in Sids, CleanDelete(s) PROVE IInv'
  BY <1>2 DEF CleanDelete, loopVars
<1> QED
  BY <1>1, <1>2 DEF Cleanup, CleanTick, CleanClose, CleanUncount, CleanEnd, StopCancel,
     StopClose, Age, vars, loopVars

(* No dead entries: whatever event loops, readers, the cleanup and Stop do *)
(* to each other's sessions, an entry of Server.sessions has a reader that *)
(* will remove it, or is about to get one.                                 *)
THEOREM EntrySafe == Spec => []NoDeadEntry
<1>1. IInv /\ [Next]_vars => IInv'
  BY HandlerStep, ReaderStep, OtherStep DEF Next
<1>2. IInv => NoDeadEntry
  BY DEF IInv
<1> QED
  BY InitIInv, <1>1, <1>2, PTL DEF Spec
-----------------------------------------------------------------------------
(* Type correctness.  The last conjuncts but two of TypeOK say that        *)
(* handlers and cleanupSessions have a session where the code uses one.    *)
LEMMA TypeStep ==
  ASSUME TypeOK, [Next]_vars
  PROVE  TypeOK'
<1> USE NoneAssumption DEF TypeOK, LoopStates, ReaderStates, loopVars, cleanVars, stopVars
<1>1. ASSUME NEW e \in Loops, NEW s \in Sids, Load(e, s) PROVE TypeOK'
  <2>1. CASE sessions[s] # None
    BY <1>1, <2>1 DEF Load
  <2>2. CASE sessions[s] = None
    BY <1>1, <2>2 DEF Load
  <2> QED
    BY <2>1, <2>2
<1>2. ASSUME NEW e \in Loops, Handler(e) PROVE TypeOK'
  <2>1. CASE Touch(e)
    BY <2>1 DEF Touch
  <2>2. CASE Store(e)
    BY <2>2 DEF Store
  <2>3. CASE Count(e)
    BY <2>3 DEF Count
  <2>4. CASE Spawn(e)
    BY <2>4 DEF Spawn
  <2>5. CASE Write(e)
    BY <2>5 DEF Write
  <2> QED
    BY <1>2, <2>1, <2>2, <2>3, <2>4, <2>5 DEF Handler
<1>3. ASSUME NEW o \in Objs, Reader(o) \/ ReadOk(o) \/ ReadErr(o) \/ Age(o) PROVE TypeOK'
  <2>1. CASE ReaderLoop(o)
    BY <2>1 DEF ReaderLoop
  <2>2. CASE ReadClosed(o) \/ ReadErr(o) \/ ReadOk(o)
    BY <2>2 DEF ReadClosed, ReadErr, ReadOk
  <2>3. CASE ReaderClose(o)
    BY <2>3 DEF ReaderClose
  <2>4. CASE ReaderDelete(o)
    BY <2>4 DEF ReaderDelete
  <2>5. CASE ReaderUncount(o)
    BY <2>5 DEF ReaderUncount
  <2>6. CASE Age(o)
    BY <2>6 DEF Age
  <2> QED
    BY <1>3, <2>1, <2>2, <2>3, <2>4, <2>5, <2>6 DEF Reader
<1>4. CASE Cleanup
  <2>1. CASE CleanTick
    BY <2>1 DEF CleanTick, InMap
  <2>2. ASSUME NEW s \in Sids, CleanDelete(s) PROVE TypeOK'
    BY <2>2 DEF CleanDelete
  <2>3. CASE CleanClose
    BY <2>3 DEF CleanClose
  <2>4. CASE CleanUncount
    BY <2>4 DEF CleanUncount
  <2>5. CASE CleanEnd
    BY <2>5 DEF CleanEnd
  <2> QED
    BY <1>4, <2>1, <2>2, <2>3, <2>4, <2>5 DEF Cleanup
<1>5. CASE StopCancel \/ StopClose
  BY <1>5 DEF StopCancel, StopClose
<1>6. CASE UNCHANGED vars
  BY <1>6 DEF vars
<1> QED
  BY <1>1, <1>2, <1>3, <1>4, <1>5, <1>6 DEF Next

(* Server.sessions, the counter and every goroutine keep their types; in   *)
(* particular no handler works without a session, and cleanupSessions      *)
(* closes only a session that LoadAndDelete has given it.                  *)
THEOREM TypeCorrect == Spec => []TypeOK
<1>1. Init => TypeOK
  <2> SUFFICES ASSUME Init PROVE TypeOK
    OBVIOUS
  <2>1. \A e \in Loops : hand[e] = None /\ loop[e] = "idle"
    BY DEF Init
  <2>2. loop \in [Loops -> LoopStates] /\ hand \in [Loops -> Objs \cup {None}]
    BY DEF Init, LoopStates
  <2>3. sessions \in [Sids -> Objs \cup {None}] /\ reader \in [Objs -> ReaderStates]
    BY DEF Init, ReaderStates
  <2>4. active \in Int /\ clean = "tick" /\ victim \in IF clean = "close" THEN Objs ELSE {None}
    BY DEF Init
  <2>5. ctxDone \in BOOLEAN
    BY DEF Init
  <2> QED
    BY <2>1, <2>2, <2>3, <2>4, <2>5 DEF Init, TypeOK
<1> QED
  BY <1>1, TypeStep, PTL DEF Spec
-----------------------------------------------------------------------------
(* The counter.  CountCovers compares ActiveSessions with three numbers:   *)
(* loops that have stored and not counted, entries, readers that have      *)
(* deleted and not uncounted.                                              *)
Counting   == {e \in Loops : loop[e] = "count"}
Uncounting == {o \in Objs : reader[o] = "uncount"}
CleanDue   == IF clean \in {"close", "uncount"} THEN 1 ELSE 0

LEMMA FiniteCounts ==
  /\ IsFiniteSet(Counting) /\ Cardinality(Counting) \in Nat
  /\ IsFiniteSet(InMap) /\ Cardinality(InMap) \in Nat
  /\ IsFiniteSet(Uncounting) /\ Cardinality(Uncounting) \in Nat
<1>1. IsFiniteSet(Counting) /\ IsFiniteSet(InMap) /\ IsFiniteSet(Uncounting)
  BY FiniteAssumption, FS_Subset DEF Counting, InMap, Uncounting
<1> QED
  BY <1>1, FS_CardinalityType

(* A step that leaves the three sets and the two counters alone.           *)
LEMMA CountKept ==
  ASSUME CountCovers, active' = active, clean' = clean,
         Counting' = Counting, InMap' = InMap, Uncounting' = Uncounting
  PROVE  CountCovers'
BY DEF CountCovers, Counting, Uncounting

LEMMA CountStep ==
  ASSUME TypeOK, CountCovers, [Next]_vars
  PROVE  CountCovers'
<1> USE NoneAssumption DEF TypeOK, loopVars, cleanVars, stopVars
<1> DEFINE Covers == active + Cardinality(Counting)
                       >= Cardinality(InMap) + Cardinality(Uncounting) + CleanDue
<1>c. Covers /\ (Covers' => CountCovers')
  BY DEF CountCovers, Counting, Uncounting, CleanDue
<1>d. active \in Int /\ active' \in Int
  BY TypeStep
<1>1. ASSUME NEW e \in Loops, NEW s \in Sids, Load(e, s) PROVE CountCovers'
  <2>1. Counting' = Counting
    BY <1>1 DEF Load, Counting, LoopStates
  <2> QED
    BY <1>1, <2>1, CountKept DEF Load, InMap, Uncounting
<1>2. ASSUME NEW e \in Loops, Handler(e) PROVE CountCovers'
  <2>1. CASE Touch(e)
    BY <2>1, CountKept DEF Touch, Counting, InMap, Uncounting
  <2>2. CASE Store(e)
    <3>1. hand[e] \in Objs /\ sidOf[hand[e]] \in Sids
      BY <2>2 DEF Store
    <3>2. Counting' = Counting \cup {e} /\ e \notin Counting
      BY <2>2 DEF Store, Counting
    <3>3. InMap' = InMap \cup {sidOf[hand[e]]}
      BY <2>2, <3>1 DEF Store, InMap
    <3>4. Cardinality(Counting') = Cardinality(Counting) + 1
      BY <3>2, FiniteCounts, FS_AddElement
    <3>5. Cardinality(InMap') <= Cardinality(InMap) + 1
      <4>1. \/ Cardinality(InMap') = Cardinality(InMap)
            \/ Cardinality(InMap') = Cardinality(InMap) + 1
        BY <3>3, FiniteCounts, FS_AddElement
      <4> QED
        BY <4>1, FiniteCounts
    <3>6. Uncounting' = Uncounting /\ active' = active /\ CleanDue' = CleanDue
      BY <2>2 DEF Store, Uncounting, CleanDue
    <3>7. Cardinality(InMap') \in Nat
      BY FiniteAssumption, FS_Subset, FS_CardinalityType DEF InMap
    <3> QED
      BY <1>c, <1>d, <3>4, <3>5, <3>6, <3>7, FiniteCounts DEF CleanDue
  <2>3. CASE Count(e)
    <3>1. Counting' = Counting \ {e} /\ e \in Counting
      BY <2>3 DEF Count, Counting
    <3>2. Cardinality(Counting') = Cardinality(Counting) - 1
      BY <3>1, FiniteCounts, FS_RemoveElement
    <3>3. InMap' = InMap /\ Uncounting' = Uncounting /\ active' = active + 1 /\ CleanDue' = CleanDue
      BY <2>3 DEF Count, InMap, Uncounting, CleanDue
    <3> QED
      BY <1>c, <1>d, <3>2, <3>3, FiniteCounts DEF CleanDue
  <2>4. CASE Spawn(e)
    <3>1. Counting' = Counting /\ InMap' = InMap /\ active' = active /\ CleanDue' = CleanDue
      BY <2>4 DEF Spawn, Counting, InMap, CleanDue
    <3>2. Uncounting' \subseteq Uncounting
      BY <2>4 DEF Spawn, Uncounting
    <3>3. Cardinality(Uncounting') <= Cardinality(Uncounting) /\ Cardinality(Uncounting') \in Nat
      BY <3>2, FiniteCounts, FS_Subset, FS_CardinalityType
    <3> QED
      BY <1>c, <1>d, <3>1, <3>3, FiniteCounts DEF CleanDue
  <2>5. CASE Write(e)
    BY <2>5, CountKept DEF Write, Counting, InMap, Uncounting
  <2> QED
    BY <1>2, <2>1, <2>2, <2>3, <2>4, <2>5 DEF Handler
<1>3. ASSUME NEW o \in Objs, Reader(o) \/ ReadOk(o) \/ ReadErr(o) \/ Age(o) PROVE CountCovers'
  <2>1. CASE ReaderLoop(o)
    BY <2>1, CountKept DEF ReaderLoop, Counting, InMap, Uncounting
  <2>2. CASE ReadClosed(o) \/ ReadErr(o) \/ ReadOk(o)
    BY <2>2, CountKept DEF ReadClosed, ReadErr, ReadOk, Counting, InMap, Uncounting
  <2>3. CASE ReaderClose(o)
    BY <2>3, CountKept DEF ReaderClose, Counting, InMap, Uncounting
  <2>4. CASE ReaderDelete(o)
    <3>1. /\ Counting' = Counting /\ active' = active /\ CleanDue' = CleanDue
          /\ InMap' = InMap \ {sidOf[o]}
      BY <2>4 DEF ReaderDelete, Counting, InMap, CleanDue
    <3>2. CASE sessions[sidOf[o]] # None
      <4>1. sidOf[o] \in InMap /\ Uncounting' = Uncounting \cup {o} /\ o \notin Uncounting
        BY <2>4, <3>2 DEF ReaderDelete, InMap, Uncounting
      <4>2. Cardinality(InMap') = Cardinality(InMap) - 1
        BY <3>1, <4>1, FiniteCounts, FS_RemoveElement
      <4>3. Cardinality(Uncounting') = Cardinality(Uncounting) + 1
        BY <4>1, FiniteCounts, FS_AddElement
      <4> QED
        BY <1>c, <1>d, <3>1, <4>2, <4>3, FiniteCounts DEF CleanDue
    <3>3. CASE sessions[sidOf[o]] = None
      <4>1. InMap' = InMap /\ Uncounting' = Uncounting
        BY <2>4, <3>1, <3>3 DEF ReaderDelete, InMap, Uncounting
      <4> QED
        BY <2>4, <3>1, <4>1, CountKept DEF ReaderDelete
    <3> QED
      BY <3>2, <3>3
  <2>5. CASE ReaderUncount(o)
    <3>1. Counting' = Counting /\ InMap' = InMap /\ active' = active - 1 /\ CleanDue' = CleanDue
      BY <2>5 DEF ReaderUncount, Counting, InMap, CleanDue
    <3>2. Uncounting' = Uncounting \ {o} /\ o \in Uncounting
      BY <2>5 DEF ReaderUncount, Uncounting
    <3>3. Cardinality(Uncounting') = Cardinality(Uncounting) - 1
      BY <3>2, FiniteCounts, FS_RemoveElement
    <3> QED
      BY <1>c, <1>d, <3>1, <3>3, FiniteCounts DEF CleanDue
  <2>6. CASE Age(o)
    BY <2>6, CountKept DEF Age, Counting, InMap, Uncounting
  <2> QED
    BY <1>3, <2>1, <2>2, <2>3, <2>4, <2>5, <2>6 DEF Reader
<1>4. CASE Cleanup
  <2>0. ASSUME Counting' = Counting, InMap' = InMap, Uncounting' = Uncounting,
               active' = active, CleanDue' = CleanDue
        PROVE  CountCovers'
    BY <1>c, <2>0
  <2>1. CASE CleanTick \/ CleanClose \/ CleanEnd
    BY <2>0, <2>1 DEF CleanTick, CleanClose, CleanEnd, Counting, InMap, Uncounting, CleanDue
  <2>2. ASSUME NEW s \in Sids, CleanDelete(s) PROVE CountCovers'
    <3>1. Counting' = Counting /\ Uncounting' = Uncounting /\ active' = active
          /\ InMap' = InMap \ {s} /\ CleanDue = 0
      BY <2>2 DEF CleanDelete, Counting, InMap, Uncounting, CleanDue
    <3>2. CASE sessions[s] # None
      <4>1. s \in InMap /\ CleanDue' = 1
        BY <2>2, <3>2 DEF CleanDelete, InMap, CleanDue
      <4>2. Cardinality(InMap') = Cardinality(InMap) - 1
        BY <3>1, <4>1, FiniteCounts, FS_RemoveElement
      <4> QED
        BY <1>c, <1>d, <3>1, <4>1, <4>2, FiniteCounts
    <3>3. CASE sessions[s] = None
      <4>1. InMap' = InMap /\ CleanDue' = CleanDue
        BY <2>2, <3>1, <3>3 DEF CleanDelete, InMap, CleanDue
      <4> QED
        BY <2>0, <3>1, <4>1
    <3> QED
      BY <3>2, <3>3
  <2>3. CASE CleanUncount
    <3>1. Counting' = Counting /\ Uncounting' = Uncounting /\ InMap' = InMap
          /\ active' = active - 1 /\ CleanDue = 1 /\ CleanDue' = 0
      BY <2>3 DEF CleanUncount, Counting, InMap, Uncounting, CleanDue
    <3> QED
      BY <1>c, <1>d, <3>1, FiniteCounts
  <2> QED
    BY <1>4, <2>1, <2>2, <2>3 DEF Cleanup
<1>5. CASE StopCancel \/ StopClose
  BY <1>5, CountKept DEF StopCancel, StopClose, Counting, InMap, Uncounting
<1>6. CASE UNCHANGED vars
  BY <1>6, CountKept DEF vars, Counting, InMap, Uncounting
<1> QED
  BY <1>1, <1>2, <1>3, <1>4, <1>5, <1>6 DEF Next

(* stats.ActiveSessions never falls behind the map: every removal of an    *)
(* entry is paid for by one LoadAndDelete that found it, however readers   *)
(* and cleanupSessions race for the entry.                                 *)
THEOREM CountSafe == Spec => []CountCovers
<1>1. Init => CountCovers
  <2> SUFFICES ASSUME Init PROVE CountCovers
    OBVIOUS
  <2>1. Counting = {} /\ InMap = {} /\ Uncounting = {} /\ CleanDue = 0 /\ active = 0
    BY DEF Init, Counting, InMap, Uncounting, CleanDue
  <2>2. active + Cardinality(Counting)
          >= Cardinality(InMap) + Cardinality(Uncounting) + CleanDue
    BY <2>1, FS_EmptySet
  <2> QED
    BY <2>2 DEF CountCovers, Counting, Uncounting, CleanDue
<1> QED
  BY <1>1, CountStep, TypeCorrect, PTL DEF Spec
=============================================================================
