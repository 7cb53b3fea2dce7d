-------------------------- MODULE ServerSessions --------------------------
(***************************************************************************)
(* The server's backend sessions: the map Server.sessions, the UDP socket  *)
(* and the reader goroutine (handleBackendData) of each session, the       *)
(* counter stats.ActiveSessions, and who changes them:                     *)
(*   - gnet's event loops, which run handleUpstreamPacket; packets of one  *)
(*     session reach two loops when its lane has just been reconnected, or *)
(*     when they are striped over lanes;                                   *)
(*   - the readers;                                                        *)
(*   - the goroutine cleanupSessions, every 30 seconds;                    *)
(*   - Stop (closeSessions).                                               *)
(* Every operation on the sync.Map is atomic, and nothing else is: each is *)
(* a step of its own.  lastActive is kept as whether it is older than the  *)
(* session timeout.  sessionLaneMap and upstreamReorderStates, whose       *)
(* entries go with a session's, are left out.                              *)
(***************************************************************************)
EXTENDS Integers, FiniteSets

CONSTANTS
  Sids,     \* session identifiers
  Objs,     \* identities of BackendSession objects; reused once garbage
  Loops,    \* event loops of the upstream engine
  None,     \* no session
  MaxDrift  \* bound: how far ActiveSessions gets from zero

ASSUME NoneAssumption == None \notin Objs
ASSUME FiniteAssumption == IsFiniteSet(Sids) /\ IsFiniteSet(Objs) /\ IsFiniteSet(Loops)
ASSUME DriftAssumption == MaxDrift \in Nat

VARIABLES
  sessions,  \* Server.sessions
  sidOf,     \* sessionID of each object
  open,      \* objects whose UDP socket is open
  idle,      \* objects whose lastActive is older than the timeout
  reader,    \* where each object's handleBackendData is
  active,    \* stats.ActiveSessions
  loop,      \* where each event loop is in handleUpstreamPacket
  hand,      \* the session object it works with
  clean,     \* where cleanupSessions is
  expired,   \* its list of expired sessions
  victim,    \* the session object it has removed from the map
  ctxDone,   \* s.cancel() has been called
  stop       \* where Stop is

loopVars  == <<loop, hand>>
cleanVars == <<clean, expired, victim>>
stopVars  == <<ctxDone, stop>>
vars == <<sessions, sidOf, open, idle, reader, active, loopVars, cleanVars, stopVars>>

LoopStates   == {"idle", "touch", "store", "count", "spawn", "write"}
ReaderStates == {"none", "loop", "read", "close", "delete", "uncount"}
InMap        == {s \in Sids : sessions[s] # None}

(* An object that nothing refers to any more.                              *)
Unused(o) ==
  /\ reader[o] = "none" /\ o \notin open /\ o # victim
  /\ \A s \in Sids : sessions[s] # o
  /\ \A e \in Loops : hand[e] # o

Init ==
  /\ sessions = [s \in Sids |-> None] /\ sidOf \in [Objs -> Sids]
  /\ open = {} /\ idle = {} /\ reader = [o \in Objs |-> "none"] /\ active = 0
  /\ loop = [e \in Loops |-> "idle"] /\ hand = [e \in Loops |-> None]
  /\ clean = "tick" /\ expired = {} /\ victim = None
  /\ ctxDone = FALSE /\ stop = "no"
-----------------------------------------------------------------------------
(* handleUpstreamPacket on event loop e, for a packet of session s that    *)
(* could be decrypted.                                                     *)

Load(e, s) ==
  /\ loop[e] = "idle" /\ stop # "done"
  /\ IF sessions[s] # None
       THEN /\ loop' = [loop EXCEPT ![e] = "touch"]
            /\ hand' = [hand EXCEPT ![e] = sessions[s]]
            /\ UNCHANGED <<sidOf, open, idle>>
       ELSE \* DialUDP succeeds; if it fails the packet is dropped
            \E o \in Objs :
              /\ Unused(o)
              /\ sidOf' = [sidOf EXCEPT ![o] = s] /\ open' = open \cup {o}
              /\ idle' = idle \ {o}
              /\ loop' = [loop EXCEPT ![e] = "store"] /\ hand' = [hand EXCEPT ![e] = o]
  /\ UNCHANGED <<sessions, reader, active, cleanVars, stopVars>>

Touch(e) ==
  /\ loop[e] = "touch"
  /\ idle' = idle \ {hand[e]} /\ loop' = [loop EXCEPT ![e] = "write"]
  /\ UNCHANGED <<sessions, sidOf, open, reader, active, hand, cleanVars, stopVars>>

Store(e) ==
  /\ loop[e] = "store"
  /\ sessions' = [sessions EXCEPT ![sidOf[hand[e]]] = hand[e]]
  /\ loop' = [loop EXCEPT ![e] = "count"]
  /\ UNCHANGED <<sidOf, open, idle, reader, active, hand, cleanVars, stopVars>>

Count(e) ==
  /\ loop[e] = "count" /\ active < MaxDrift
  /\ active' = active + 1 /\ loop' = [loop EXCEPT ![e] = "spawn"]
  /\ UNCHANGED <<sessions, sidOf, open, idle, reader, hand, cleanVars, stopVars>>

Spawn(e) ==
  /\ loop[e] = "spawn"
  /\ reader' = [reader EXCEPT ![hand[e]] = "loop"] /\ loop' = [loop EXCEPT ![e] = "write"]
  /\ UNCHANGED <<sessions, sidOf, open, idle, active, hand, cleanVars, stopVars>>

(* writeBackendPacket: an error, also of a closed socket, changes nothing. *)
Write(e) ==
  /\ loop[e] = "write"
  /\ loop' = [loop EXCEPT ![e] = "idle"] /\ hand' = [hand EXCEPT ![e] = None]
  /\ UNCHANGED <<sessions, sidOf, open, idle, reader, active, cleanVars, stopVars>>
-----------------------------------------------------------------------------
(* handleBackendData(o).                                                   *)

ReaderLoop(o) ==
  /\ reader[o] = "loop"
  /\ reader' = [reader EXCEPT ![o] = IF ctxDone THEN "close" ELSE "read"]
  /\ UNCHANGED <<sessions, sidOf, open, idle, active, loopVars, cleanVars, stopVars>>

(* A datagram comes from the backend and is sent on.                       *)
ReadOk(o) ==
  /\ reader[o] = "read" /\ o \in open
  /\ reader' = [reader EXCEPT ![o] = "loop"] /\ idle' = idle \ {o}
  /\ UNCHANGED <<sessions, sidOf, open, active, loopVars, cleanVars, stopVars>>

(* The backend is unreachable, or ...                                      *)
ReadErr(o) ==
  /\ reader[o] = "read" /\ o \in open
  /\ reader' = [reader EXCEPT ![o] = "close"]
  /\ UNCHANGED <<sessions, sidOf, open, idle, active, loopVars, cleanVars, stopVars>>

(* ... the socket has been closed.                                         *)
ReadClosed(o) ==
  /\ reader[o] = "read" /\ o \notin open
  /\ reader' = [reader EXCEPT ![o] = "close"]
  /\ UNCHANGED <<sessions, sidOf, open, idle, active, loopVars, cleanVars, stopVars>>

ReaderClose(o) ==
  /\ reader[o] = "close"
  /\ open' = open \ {o} /\ reader' = [reader EXCEPT ![o] = "delete"]
  /\ UNCHANGED <<sessions, sidOf, idle, active, loopVars, cleanVars, stopVars>>

(* Mutants: the counter goes down whether or not an entry was removed; the *)
(* entry stays.                                                            *)
ReaderDeleteUnchecked(o) ==
  /\ reader[o] = "delete"
  /\ reader' = [reader EXCEPT ![o] = "uncount"]
  /\ sessions' = [sessions EXCEPT ![sidOf[o]] = None]
  /\ UNCHANGED <<sidOf, open, idle, active, loopVars, cleanVars, stopVars>>

ReaderDeleteForgotten(o) ==
  /\ reader[o] = "delete"
  /\ reader' = [reader EXCEPT ![o] = "none"]
  /\ UNCHANGED <<sessions, sidOf, open, idle, active, loopVars, cleanVars, stopVars>>

(* LoadAndDelete(sessionID), whichever object the map holds for it.        *)
ReaderDelete(o) ==
  /\ reader[o] = "delete"
  /\ reader' = [reader EXCEPT ![o] = IF sessions[sidOf[o]] # None THEN "uncount" ELSE "none"]
  /\ sessions' = [sessions EXCEPT ![sidOf[o]] = None]
  /\ UNCHANGED <<sidOf, open, idle, active, loopVars, cleanVars, stopVars>>

ReaderUncount(o) ==
  /\ reader[o] = "uncount" /\ active > -MaxDrift
  /\ active' = active - 1 /\ reader' = [reader EXCEPT ![o] = "none"]
  /\ UNCHANGED <<sessions, sidOf, open, idle, loopVars, cleanVars, stopVars>>
-----------------------------------------------------------------------------
(* cleanupSessions: list the expired sessions, then remove one by one.     *)

(* Mutant: the test of IsExpired is inverted.                              *)
CleanTickInverted ==
  /\ clean = "tick" /\ ~ctxDone
  /\ expired' = {s \in InMap : sessions[s] \notin idle} /\ clean' = "delete"
  /\ UNCHANGED <<sessions, sidOf, open, idle, reader, active, loopVars, victim, stopVars>>

CleanTick ==
  /\ clean = "tick" /\ ~ctxDone
  /\ expired' = {s \in InMap : sessions[s] \in idle} /\ clean' = "delete"
  /\ UNCHANGED <<sessions, sidOf, open, idle, reader, active, loopVars, victim, stopVars>>

(* Mutant: LoadAndDelete's second result is not looked at.                 *)
CleanDeleteUnchecked(s) ==
  /\ clean = "delete" /\ s \in expired
  /\ expired' = expired \ {s}
  /\ victim' = sessions[s] /\ sessions' = [sessions EXCEPT ![s] = None]
  /\ clean' = "close"
  /\ UNCHANGED <<sidOf, open, idle, reader, active, loopVars, stopVars>>

CleanDelete(s) ==
  /\ clean = "delete" /\ s \in expired
  /\ expired' = expired \ {s}
  /\ victim' = sessions[s] /\ sessions' = [sessions EXCEPT ![s] = None]
  /\ clean' = IF sessions[s] # None THEN "close" ELSE "delete"
  /\ UNCHANGED <<sidOf, open, idle, reader, active, loopVars, stopVars>>

CleanClose ==
  /\ clean = "close"
  /\ open' = open \ {victim} /\ victim' = None /\ clean' = "uncount"
  /\ UNCHANGED <<sessions, sidOf, idle, reader, active, loopVars, expired, stopVars>>

CleanUncount ==
  /\ clean = "uncount" /\ active > -MaxDrift
  /\ active' = active - 1 /\ clean' = "delete"
  /\ UNCHANGED <<sessions, sidOf, open, idle, reader, loopVars, expired, victim, stopVars>>

CleanEnd ==
  /\ clean = "delete" /\ expired = {}
  /\ clean' = "tick"
  /\ UNCHANGED <<sessions, sidOf, open, idle, reader, active, loopVars, expired, victim, stopVars>>
-----------------------------------------------------------------------------
(* Stop: cancel; the engines stop or five seconds pass; closeSessions.     *)

StopCancel ==
  /\ stop = "no"
  /\ ctxDone' = TRUE /\ stop' = "close"
  /\ UNCHANGED <<sessions, sidOf, open, idle, reader, active, loopVars, cleanVars>>

StopClose ==
  /\ stop = "close"
  /\ open' = open \ {sessions[s] : s \in InMap} /\ stop' = "done"
  /\ UNCHANGED <<sessions, sidOf, idle, reader, active, loopVars, cleanVars, ctxDone>>

(* Nothing has used the session for as long as the timeout.                *)
Age(o) ==
  /\ o \in open \ idle
  /\ idle' = idle \cup {o}
  /\ UNCHANGED <<sessions, sidOf, open, reader, active, loopVars, cleanVars, stopVars>>
-----------------------------------------------------------------------------
Handler(e) == Touch(e) \/ Store(e) \/ Count(e) \/ Spawn(e) \/ Write(e)

Reader(o) == ReaderLoop(o) \/ ReadClosed(o) \/ ReaderClose(o) \/ ReaderDelete(o)
               \/ ReaderUncount(o)

Cleanup == CleanTick \/ (\E s \in Sids : CleanDelete(s)) \/ CleanClose \/ CleanUncount
             \/ CleanEnd

Next ==
  \/ \E e \in Loops : Handler(e) \/ \E s \in Sids : Load(e, s)
  \/ \E o \in Objs : Reader(o) \/ ReadOk(o) \/ ReadErr(o) \/ Age(o)
  \/ Cleanup \/ StopCancel \/ StopClose

Spec == Init /\ [][Next]_vars

(* The Go scheduler and gnet run what can run, and the cleanup ticker      *)
(* ticks.  Neither clients nor the backend have to send anything.          *)
Fairness ==
  /\ WF_vars(Cleanup)
  /\ \A e \in Loops : WF_vars(Handler(e))
  /\ \A o \in Objs : WF_vars(Reader(o))

FairSpec == Spec /\ Fairness
-----------------------------------------------------------------------------
(* Every variable has a value of its kind; handlers and cleanupSessions    *)
(* work with a session exactly where the code uses one.                    *)
TypeOK ==
  /\ sessions \in [Sids -> Objs \cup {None}] /\ sidOf \in [Objs -> Sids]
  /\ open \subseteq Objs /\ idle \subseteq Objs /\ reader \in [Objs -> ReaderStates]
  /\ active \in Int
  /\ loop \in [Loops -> LoopStates] /\ hand \in [Loops -> Objs \cup {None}]
  /\ clean \in {"tick", "delete", "close", "uncount"} /\ expired \subseteq Sids
  /\ victim \in IF clean = "close" THEN Objs ELSE {None}
  /\ \A e \in Loops : hand[e] = None <=> loop[e] = "idle"
  /\ ctxDone \in BOOLEAN /\ stop \in {"no", "close", "done"}

(* The map never keeps a session for good whose reader has ended (its      *)
(* packets would go to a closed socket for ever, its answers nowhere):     *)
(* the reader of every session in the map still has its deferred           *)
(* LoadAndDelete to run, or the event loop that created the session is     *)
(* about to start it.                                                      *)
NoDeadEntry ==
  \A s \in InMap :
    LET o == sessions[s]
    IN  \/ reader[o] \notin {"none", "uncount"}
        \/ \E e \in Loops : hand[e] = o /\ loop[e] \in {"count", "spawn"}

(* stats.ActiveSessions never falls behind the number of sessions in the   *)
(* map, give or take the goroutines between their change of the map and of *)
(* the counter.  It may run ahead: of two event loops that create the      *)
(* session of one id at a time both count, and the map keeps one.          *)
CountCovers ==
  active + Cardinality({e \in Loops : loop[e] = "count"}) >=
    Cardinality(InMap) + Cardinality({o \in Objs : reader[o] = "uncount"})
      + (IF clean \in {"close", "uncount"} THEN 1 ELSE 0)

(* A session in the map that stays unused is removed from it.              *)
IdleEntryRemoved ==
  \A s \in Sids, o \in Objs :
    sessions[s] = o /\ o \in idle ~> sessions[s] # o \/ o \notin idle \/ ctxDone

(* config.go: session_timeout is the "UDP session timeout".  A session     *)
(* that stays unused is closed.                                            *)
IdleSessionClosed ==
  \A o \in Objs : o \in open \cap idle ~> o \notin open \/ o \notin idle \/ ctxDone
=============================================================================
