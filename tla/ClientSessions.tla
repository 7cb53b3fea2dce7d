--------------------------- MODULE ClientSessions ---------------------------
(***************************************************************************)
(* The client's UDP sessions: handleUDP finds or creates the session of a  *)
(* datagram's address (getOrCreateSession) and sends the datagram under    *)
(* the session's id, each lane's receiver finds the session of an answer   *)
(* by that id (handleDownstreamPacket), and cleanupSessions removes idle   *)
(* sessions.  They share two maps and a counter without a common lock.     *)
(*                                                                         *)
(* The other end is what these steps see of the server: a backend session  *)
(* per id, made by the first packet with that id and forgotten after some  *)
(* time, whose answers carry the id.  The client process may be restarted  *)
(* at any moment; its ids then start again at 1 while the server keeps its *)
(* sessions.  A session is [run, id, addr]: the run of the process that    *)
(* created it, its id and its address.  Messages may be lost.              *)
(***************************************************************************)
EXTENDS Integers, FiniteSets

CONSTANTS
  Addrs,        \* UDP addresses that use the tunnel
  Receivers,    \* downstream lanes, each with a goroutine
  MaxSessions,  \* bound: sessions a run of the process creates
  MaxRuns,      \* bound: runs of the client process
  MaxFlight,    \* bound: packets on their way
  NoSession

ASSUME AddrsAssumption == IsFiniteSet(Addrs)
ASSUME BoundsAssumption == MaxSessions \in Nat /\ MaxRuns \in Nat \ {0} /\ MaxFlight \in Nat

Ids     == 1 .. MaxSessions
Session == [run : 1 .. MaxRuns, id : Ids, addr : Addrs]
Packet  == [id : Ids, for : Session]    \* for: whose backend session, or whose datagram

ASSUME NoSessionAssumption == NoSession \notin Session

VARIABLES
  run,        \* the current run of the client process
  counter,    \* sessionCounter
  sessions,   \* sessions, by address
  byID,       \* sessionsByID
  active,     \* stats.ActiveSessions
  idle,       \* sessions in the map for which IsExpired holds
  udp, cur,   \* handleUDP: where it is, the session it works for
  clean, keys, gone,   \* cleanupSessions: where it is, expiredKeys, the one deleted
  rcv,        \* each receiver: [sess, for] once it has found a session, or NoSession
  backend,    \* the server's session of each id: the client session that made it
  up, down    \* packets on their way

udpVars   == <<udp, cur>>
cleanVars == <<clean, keys, gone>>
client == <<counter, sessions, byID, active, idle, udpVars, cleanVars, rcv>>
server == <<backend, up, down>>
vars   == <<run, client, server>>

None(D) == [d \in D |-> NoSession]

Init ==
  /\ run = 1
  /\ counter = 0 /\ sessions = None(Addrs) /\ byID = None(Ids) /\ active = 0 /\ idle = {}
  /\ udp = "read" /\ cur = NoSession /\ clean = "wait" /\ keys = {} /\ gone = NoSession
  /\ rcv = None(Receivers)
  /\ backend = None(Ids) /\ up = {} /\ down = {}
-----------------------------------------------------------------------------
(* handleUDP, with getOrCreateSession.                                     *)

UdpFound(a) ==
  /\ udp = "read" /\ sessions[a] # NoSession
  /\ cur' = sessions[a] /\ udp' = "touch"
  /\ UNCHANGED <<run, counter, sessions, byID, active, idle, cleanVars, rcv, server>>

UdpTouch ==
  /\ udp = "touch"
  /\ idle' = idle \ {cur} /\ udp' = "send"
  /\ UNCHANGED <<run, counter, sessions, byID, active, cur, cleanVars, rcv, server>>

(* Mutant: the number of sessions serves as the next id.                   *)
UdpNewCounted(a) ==
  /\ udp = "read" /\ sessions[a] = NoSession /\ active < MaxSessions
  /\ counter' = active + 1 /\ cur' = [run |-> run, id |-> active + 1, addr |-> a]
  /\ udp' = "store"
  /\ UNCHANGED <<run, sessions, byID, active, idle, cleanVars, rcv, server>>

UdpNew(a) ==
  /\ udp = "read" /\ sessions[a] = NoSession /\ counter < MaxSessions
  /\ counter' = counter + 1 /\ cur' = [run |-> run, id |-> counter + 1, addr |-> a]
  /\ udp' = "store"
  /\ UNCHANGED <<run, sessions, byID, active, idle, cleanVars, rcv, server>>

UdpStore ==
  /\ udp = "store"
  /\ sessions' = [sessions EXCEPT ![cur.addr] = cur] /\ udp' = "storeID"
  /\ UNCHANGED <<run, counter, byID, active, idle, cur, cleanVars, rcv, server>>

UdpStoreID ==
  /\ udp = "storeID"
  /\ byID' = [byID EXCEPT ![cur.id] = cur] /\ udp' = "count"
  /\ UNCHANGED <<run, counter, sessions, active, idle, cur, cleanVars, rcv, server>>

UdpCount ==
  /\ udp = "count"
  /\ active' = active + 1 /\ udp' = "send"
  /\ UNCHANGED <<run, counter, sessions, byID, idle, cur, cleanVars, rcv, server>>

(* sendToUpstream, as far as it matters here.                              *)
UdpSend ==
  /\ udp = "send" /\ Cardinality(up) + Cardinality(down) < MaxFlight
  /\ up' = up \cup {[id |-> cur.id, for |-> cur]} /\ udp' = "read" /\ cur' = NoSession
  /\ UNCHANGED <<run, counter, sessions, byID, active, idle, cleanVars, rcv, backend, down>>
-----------------------------------------------------------------------------
(* cleanupSessions.                                                        *)

(* Mutant: the callback of Range returns IsExpired, which ends the walk at *)
(* a session in use.                                                       *)
CleanTickStops ==
  /\ clean = "wait"
  /\ keys' = {a \in Addrs : sessions[a] \in idle}
  /\ keys' # {} /\ \A a \in Addrs : sessions[a] \in idle \cup {NoSession}
  /\ clean' = "delete"
  /\ UNCHANGED <<run, counter, sessions, byID, active, idle, udpVars, gone, rcv, server>>

CleanTick ==
  /\ clean = "wait"
  /\ keys' = {a \in Addrs : sessions[a] \in idle}
  /\ keys' # {}
  /\ clean' = "delete"
  /\ UNCHANGED <<run, counter, sessions, byID, active, idle, udpVars, gone, rcv, server>>

CleanDelete(a) ==
  /\ clean = "delete" /\ a \in keys
  /\ keys' = keys \ {a}
  /\ gone' = sessions[a] /\ sessions' = [sessions EXCEPT ![a] = NoSession]
  /\ idle' = idle \ {sessions[a]}
  /\ clean' = IF sessions[a] # NoSession THEN "deleteID" ELSE clean
  /\ UNCHANGED <<run, counter, byID, active, udpVars, rcv, server>>

(* Mutant: the id stays in sessionsByID.                                   *)
CleanDeleteIDForgotten ==
  /\ clean = "deleteID"
  /\ clean' = "uncount"
  /\ UNCHANGED <<run, counter, sessions, byID, active, idle, udpVars, keys, gone, rcv, server>>

CleanDeleteID ==
  /\ clean = "deleteID"
  /\ byID' = [byID EXCEPT ![gone.id] = NoSession] /\ clean' = "uncount"
  /\ UNCHANGED <<run, counter, sessions, active, idle, udpVars, keys, gone, rcv, server>>

CleanUncount ==
  /\ clean = "uncount"
  /\ active' = active - 1 /\ gone' = NoSession /\ clean' = "delete"
  /\ UNCHANGED <<run, counter, sessions, byID, idle, udpVars, keys, rcv, server>>

CleanEnd ==
  /\ clean = "delete" /\ keys = {}
  /\ clean' = "wait"
  /\ UNCHANGED <<run, counter, sessions, byID, active, idle, udpVars, keys, gone, rcv, server>>

(* The timeout passes for session s.  A session being created does not     *)
(* expire: the timeout is longer than those few instructions take.  It may *)
(* expire while its datagram waits for a slot of the ring.                 *)
Age(s) ==
  /\ s \notin idle /\ ~(s = cur /\ udp \in {"storeID", "count"})
  /\ idle' = idle \cup {s}
  /\ UNCHANGED <<run, counter, sessions, byID, active, udpVars, cleanVars, rcv, server>>
-----------------------------------------------------------------------------
(* handleDownstreamPacket in the receiver r of a lane.                     *)

(* Mutant: the result of Load is used without looking at ok.               *)
ReceiveLoadUnchecked(r, p) ==
  /\ rcv[r] = NoSession /\ p \in down
  /\ down' = down \ {p}
  /\ rcv' = [rcv EXCEPT ![r] = [sess |-> byID[p.id], for |-> p.for, done |-> FALSE]]
  /\ UNCHANGED <<run, counter, sessions, byID, active, idle, udpVars, cleanVars, backend, up>>

ReceiveLoad(r, p) ==
  /\ rcv[r] = NoSession /\ p \in down
  /\ down' = down \ {p}
  /\ rcv' = [rcv EXCEPT ![r] = IF byID[p.id] = NoSession THEN NoSession
                               ELSE [sess |-> byID[p.id], for |-> p.for, done |-> FALSE]]
  /\ UNCHANGED <<run, counter, sessions, byID, active, idle, udpVars, cleanVars, backend, up>>

(* WriteToUDPAddrPort succeeds or fails.                                   *)
ReceiveWrite(r) ==
  /\ rcv[r] # NoSession /\ ~rcv[r].done
  /\ \/ rcv' = [rcv EXCEPT ![r].done = TRUE]
     \/ rcv' = [rcv EXCEPT ![r] = NoSession]
  /\ UNCHANGED <<run, counter, sessions, byID, active, idle, udpVars, cleanVars, server>>

ReceiveTouch(r) ==
  /\ rcv[r] # NoSession /\ rcv[r].done
  /\ idle' = idle \ {rcv[r].sess} /\ rcv' = [rcv EXCEPT ![r] = NoSession]
  /\ UNCHANGED <<run, counter, sessions, byID, active, udpVars, cleanVars, server>>
-----------------------------------------------------------------------------
(* The server, the network and the process.                                *)

ServerReceive(p) ==
  /\ p \in up
  /\ up' = up \ {p}
  /\ backend' = IF backend[p.id] = NoSession THEN [backend EXCEPT ![p.id] = p.for] ELSE backend
  /\ UNCHANGED <<run, client, down>>

ServerAnswer(i) ==
  /\ backend[i] # NoSession /\ Cardinality(up) + Cardinality(down) < MaxFlight
  /\ down' = down \cup {[id |-> i, for |-> backend[i]]}
  /\ UNCHANGED <<run, client, backend, up>>

ServerExpire(i) ==
  /\ backend[i] # NoSession
  /\ backend' = [backend EXCEPT ![i] = NoSession]
  /\ UNCHANGED <<run, client, up, down>>

Lose ==
  /\ \/ \E p \in up : up' = up \ {p} /\ UNCHANGED down
     \/ \E p \in down : down' = down \ {p} /\ UNCHANGED up
  /\ UNCHANGED <<run, client, backend>>

(* The connections of the old process are gone with it.                    *)
Restart ==
  /\ run < MaxRuns
  /\ run' = run + 1
  /\ counter' = 0 /\ sessions' = None(Addrs) /\ byID' = None(Ids) /\ active' = 0 /\ idle' = {}
  /\ udp' = "read" /\ cur' = NoSession /\ clean' = "wait" /\ keys' = {} /\ gone' = NoSession
  /\ rcv' = None(Receivers)
  /\ down' = {} /\ UNCHANGED <<backend, up>>
-----------------------------------------------------------------------------
Clean == CleanTick \/ (\E a \in Addrs : CleanDelete(a)) \/ CleanDeleteID \/ CleanUncount \/ CleanEnd

Receive(r) == (\E p \in down : ReceiveLoad(r, p)) \/ ReceiveWrite(r) \/ ReceiveTouch(r)

Next ==
  \/ \E a \in Addrs : UdpFound(a) \/ UdpNew(a)
  \/ UdpTouch \/ UdpStore \/ UdpStoreID \/ UdpCount \/ UdpSend
  \/ Clean \/ \E r \in Receivers : Receive(r)
  \/ \E a \in Addrs : sessions[a] # NoSession /\ Age(sessions[a])
  \/ \E p \in up : ServerReceive(p)
  \/ \E i \in Ids : ServerAnswer(i) \/ ServerExpire(i)
  \/ Lose \/ Restart

Spec == Init /\ [][Next]_vars

(* The ticker fires and the goroutine runs.                                *)
FairSpec == Spec /\ WF_vars(Clean)
-----------------------------------------------------------------------------
(* Every variable has a value of its kind, and the two goroutines have a   *)
(* session in hand exactly while they work on one.                         *)
TypeOK ==
  /\ run \in 1 .. MaxRuns /\ counter \in 0 .. MaxSessions /\ active \in Int
  /\ sessions \in [Addrs -> Session \cup {NoSession}] /\ byID \in [Ids -> Session \cup {NoSession}]
  /\ idle \subseteq Session /\ keys \subseteq Addrs
  /\ udp \in {"read", "touch", "store", "storeID", "count", "send"}
  /\ cur \in IF udp = "read" THEN {NoSession} ELSE Session
  /\ clean \in {"wait", "delete", "deleteID", "uncount"}
  /\ gone \in IF clean \in {"deleteID", "uncount"} THEN Session ELSE {NoSession}
  /\ rcv \in [Receivers -> [sess : Session, for : Session, done : BOOLEAN] \cup {NoSession}]
  /\ backend \in [Ids -> Session \cup {NoSession}] /\ up \subseteq Packet /\ down \subseteq Packet

(* The two maps hold the same sessions, apart from the one that handleUDP  *)
(* is storing and the one that cleanupSessions is removing: an answer for  *)
(* a session in use finds it, and no id stays behind for good.             *)
IDsAgree ==
  /\ \A i \in Ids : byID[i] # NoSession => byID[i] \in {sessions[byID[i].addr], gone}
  /\ \A a \in Addrs : sessions[a] # NoSession =>
       byID[sessions[a].id] = sessions[a] \/ (udp = "storeID" /\ cur = sessions[a])

(* ActiveSessions is the number of sessions, give or take these two.       *)
CountExact ==
  active + (IF udp \in {"storeID", "count"} THEN 1 ELSE 0)
    = Cardinality({a \in Addrs : sessions[a] # NoSession})
        + (IF clean \in {"deleteID", "uncount"} THEN 1 ELSE 0)

(* sessions, sessionsByID and ActiveSessions agree, although nothing ties  *)
(* their updates together.                                                 *)
MapsAgree == IDsAgree /\ CountExact

(* What a backend session made for a session of this process answers is    *)
(* written to that session's address, however sessions come and go and     *)
(* however late the answer is.  (Not so for backend sessions that the      *)
(* server keeps from an earlier run of the client.)                        *)
AnswerToOwner ==
  \A r \in Receivers : rcv[r] # NoSession /\ rcv[r].for.run = run => rcv[r].sess = rcv[r].for

(* A session that nobody uses leaves the map, and then the other one: with *)
(* MapsAgree, gone is the only one that may be left there.                 *)
IdleRemoved ==
  /\ \A a \in Addrs : sessions[a] \in idle ~> sessions[a] \notin idle
  /\ gone # NoSession ~> gone = NoSession
=============================================================================
