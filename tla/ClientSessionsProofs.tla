----------------------- MODULE ClientSessionsProofs -----------------------
(***************************************************************************)
(* The client's two maps hold the same sessions, and answers reach the     *)
(* address they are for, for any number of addresses, sessions, receivers  *)
(* and restarts.                                                           *)
(***************************************************************************)
EXTENDS ClientSessions, FiniteSetTheorems, TLAPS

(* Session s occurs somewhere: in a map, in a goroutine's hands, at the    *)
(* server or in a packet.                                                  *)
Here(s) ==
  \/ \E a \in Addrs : sessions[a] = s
  \/ \E i \in Ids : byID[i] = s \/ backend[i] = s
  \/ cur = s \/ gone = s
  \/ \E r \in Receivers : rcv[r] # NoSession /\ (rcv[r].sess = s \/ rcv[r].for = s)
  \/ \E p \in up \cup down : p.for = s

(* An id is given out once in a run of the process: sessionCounter is      *)
(* ahead of all of them.                                                   *)
Counted ==
  \A s \in Session : Here(s) => s.run <= run /\ (s.run = run => s.id <= counter)
Unique ==
  \A s, t \in Session :
    Here(s) /\ Here(t) /\ s.run = run /\ t.run = run /\ s.id = t.id => s = t

(* Sessions stand where their address and id say, packets and backend      *)
(* sessions carry the id of the session they are for, and what the client  *)
(* holds is of its own run.                                                *)
Placed ==
  /\ \A a \in Addrs : sessions[a] # NoSession => sessions[a].addr = a /\ sessions[a].run = run
  /\ \A i \in Ids : byID[i] # NoSession => byID[i].id = i /\ byID[i].run = run
  /\ cur # NoSession => cur.run = run
  /\ gone # NoSession => gone.run = run
  /\ \A i \in Ids : backend[i] # NoSession => backend[i].id = i
  /\ \A p \in up \cup down : p.for.id = p.id

(* handleUDP and cleanupSessions stay out of each other's way: what one is *)
(* storing the other neither lists nor removes.                            *)
Apart ==
  /\ \A s \in idle : sessions[s.addr] = s
  /\ \A a \in keys : sessions[a] # NoSession
  /\ udp \in {"store", "storeID"} => byID[cur.id] = NoSession /\ cur # gone
  /\ udp = "store" => sessions[cur.addr] = NoSession
  /\ udp = "storeID" => sessions[cur.addr] = cur /\ cur \notin idle /\ cur.addr \notin keys
  /\ gone # NoSession => \A a \in Addrs : sessions[a] # gone
  /\ clean = "uncount" => \A i \in Ids : byID[i] # gone

IInv == TypeOK /\ Counted /\ Unique /\ Placed /\ Apart /\ MapsAgree /\ AnswerToOwner

USE NoSessionAssumption, BoundsAssumption DEF IInv, udpVars, cleanVars, client, server
-----------------------------------------------------------------------------
(* A step that brings no new session keeps the ids in order.               *)
LEMMA NoNewSession ==
  ASSUME Counted, Unique, run' = run, counter' = counter,
         \A s \in Session : Here(s)' => Here(s)
  PROVE  Counted' /\ Unique'
BY DEF Counted, Unique

(* The addresses with a session are finitely many, so that they can be     *)
(* counted.                                                                *)
Held == {a \in Addrs : sessions[a] # NoSession}

LEMMA HeldFinite == IsFiniteSet(Held) /\ Cardinality(Held) \in Nat
BY AddrsAssumption, FS_Subset, FS_CardinalityType DEF Held

LEMMA UdpFoundStep ==
  ASSUME IInv, NEW a \in Addrs, UdpFound(a)
  PROVE  IInv'
<1>1. TypeOK'
  BY DEF UdpFound, TypeOK, Session, Packet, Ids
<1>2. Counted' /\ Unique'
  <2>1. \A s \in Session : Here(s)' => Here(s)
    BY DEF UdpFound, TypeOK, Here, Packet
  <2> QED
    BY <2>1, NoNewSession DEF UdpFound
<1>3. Placed'
  BY DEF UdpFound, TypeOK, Placed
<1>4. Apart'
  BY DEF UdpFound, TypeOK, Apart
<1>5. MapsAgree'
  BY DEF UdpFound, TypeOK, MapsAgree, IDsAgree, CountExact
<1>6. AnswerToOwner'
  BY DEF UdpFound, AnswerToOwner
<1> QED
  BY <1>1, <1>2, <1>3, <1>4, <1>5, <1>6

LEMMA UdpTouchStep ==
  ASSUME IInv, UdpTouch
  PROVE  IInv'
<1>1. TypeOK'
  BY DEF UdpTouch, TypeOK, Session, Packet, Ids
<1>2. Counted' /\ Unique'
  <2>1. \A s \in Session : Here(s)' => Here(s)
    BY DEF UdpTouch, TypeOK, Here, Packet
  <2> QED
    BY <2>1, NoNewSession DEF UdpTouch
<1>3. Apart'
  BY DEF UdpTouch, TypeOK, Apart
<1>4. MapsAgree'
  BY DEF UdpTouch, TypeOK, MapsAgree, IDsAgree, CountExact
<1>5. Placed' /\ AnswerToOwner'
  BY DEF UdpTouch, Placed, AnswerToOwner
<1> QED
  BY <1>1, <1>2, <1>3, <1>4, <1>5

(* The new session has the next id, which no session of this run has.      *)
LEMMA UdpNewStep ==
  ASSUME IInv, NEW a \in Addrs, UdpNew(a)
  PROVE  IInv'
<1>1. cur' \in Session /\ cur'.id = counter + 1 /\ cur'.run = run /\ cur'.addr = a
  BY DEF UdpNew, TypeOK, Session, Ids
<1>2. TypeOK'
  BY <1>1 DEF UdpNew, TypeOK
<1>3. \A s \in Session : Here(s)' => Here(s) \/ s = cur'
  BY DEF UdpNew, Here
<1>4. Counted'
  <2> SUFFICES ASSUME NEW s \in Session, Here(s)'
               PROVE  s.run <= run /\ (s.run = run => s.id <= counter + 1)
    BY DEF UdpNew, Counted
  <2>1. s.run \in Int /\ s.id \in Int /\ run \in Int /\ counter \in Int
    BY DEF TypeOK, Session, Ids
  <2> QED
    BY <1>1, <1>3, <2>1 DEF Counted
<1>5. Unique'
  <2> SUFFICES ASSUME NEW s \in Session, NEW t \in Session, Here(s)', Here(t)',
                      s.run = run, t.run = run, s.id = t.id
               PROVE  s = t
    BY DEF UdpNew, Unique
  <2>1. s.id \in Int /\ counter \in Int
    BY DEF TypeOK, Session, Ids
  <2> QED
    BY <1>1, <1>3, <2>1 DEF Counted, Unique
<1>6. Placed'
  BY <1>1 DEF UdpNew, TypeOK, Placed
<1>7. byID[cur'.id] = NoSession /\ cur' # gone
  <2>1. \A s \in Session : Here(s) /\ s.run = run => s.id # counter + 1
    BY DEF Counted, TypeOK, Session, Ids
  <2>2. byID[cur'.id] # NoSession => byID[cur'.id] \in Session /\ Here(byID[cur'.id])
    BY <1>1 DEF TypeOK, Here, Session
  <2>3. gone # NoSession => gone \in Session /\ Here(gone)
    BY DEF TypeOK, Here
  <2>4. cur'.id \in Ids
    BY <1>1 DEF Session
  <2> QED
    BY <1>1, <2>1, <2>2, <2>3, <2>4 DEF Placed
<1>8. Apart'
  BY <1>1, <1>7 DEF UdpNew, TypeOK, Apart
<1>9. MapsAgree' /\ AnswerToOwner'
  BY DEF UdpNew, TypeOK, MapsAgree, IDsAgree, CountExact, AnswerToOwner
<1> QED
  BY <1>2, <1>4, <1>5, <1>6, <1>8, <1>9

LEMMA UdpStoreStep ==
  ASSUME IInv, UdpStore
  PROVE  IInv'
<1>1. TypeOK'
  BY DEF UdpStore, TypeOK, Session, Packet, Ids
<1>2. Counted' /\ Unique'
  <2>1. \A s \in Session : Here(s)' => Here(s)
    BY DEF UdpStore, TypeOK, Here, Packet
  <2> QED
    BY <2>1, NoNewSession DEF UdpStore
<1>3. Placed'
  BY DEF UdpStore, TypeOK, Placed, Session
<1>4. Apart'
  <2>1. cur \in Session /\ cur.addr \in Addrs /\ udp' = "storeID" /\ sessions'[cur.addr] = cur
    BY DEF UdpStore, TypeOK, Session
  <2>2. cur \notin idle /\ cur.addr \notin keys /\ cur # gone
    BY <2>1 DEF UdpStore, Apart
  <2>3. \A s \in idle : s.addr # cur.addr
    BY <2>1 DEF UdpStore, TypeOK, Apart
  <2>4. \A s \in idle : s.addr \in Addrs
    BY DEF TypeOK, Session
  <2> QED
    BY <2>1, <2>2, <2>3, <2>4 DEF UdpStore, TypeOK, Apart
<1>5. MapsAgree'
  <2>1. cur \in Session /\ cur.addr \in Addrs /\ sessions[cur.addr] = NoSession
    BY DEF UdpStore, TypeOK, Session, Apart
  <2>2. IDsAgree'
    BY <2>1 DEF UdpStore, TypeOK, MapsAgree, IDsAgree, Session
  <2>3. Held' = Held \cup {cur.addr} /\ cur.addr \notin Held
    BY <2>1 DEF UdpStore, TypeOK, Held
  <2>4. Cardinality(Held') = Cardinality(Held) + 1
    BY <2>3, HeldFinite, FS_AddElement
  <2> QED
    BY <2>2, <2>4, HeldFinite DEF UdpStore, TypeOK, MapsAgree, CountExact, Held
<1>6. AnswerToOwner'
  BY DEF UdpStore, AnswerToOwner
<1> QED
  BY <1>1, <1>2, <1>3, <1>4, <1>5, <1>6

LEMMA UdpStoreIDStep ==
  ASSUME IInv, UdpStoreID
  PROVE  IInv'
<1>1. TypeOK'
  BY DEF UdpStoreID, TypeOK, Session, Packet, Ids
<1>2. Counted' /\ Unique'
  <2>1. \A s \in Session : Here(s)' => Here(s)
    BY DEF UdpStoreID, TypeOK, Here, Packet
  <2> QED
    BY <2>1, NoNewSession DEF UdpStoreID
<1>3. Placed'
  BY DEF UdpStoreID, TypeOK, Placed
<1>4. Apart'
  BY DEF UdpStoreID, TypeOK, Apart, Placed
<1>5. MapsAgree'
  <2>1. cur \in Session /\ cur.id \in Ids /\ cur.addr \in Addrs
    BY DEF UdpStoreID, TypeOK, Session
  <2>2. sessions[cur.addr] = cur
    BY DEF UdpStoreID, Apart
  <2>3. ASSUME NEW a \in Addrs, sessions[a] # NoSession, sessions[a].id = cur.id
        PROVE  sessions[a] = cur
    <3>1. sessions[a] \in Session /\ Here(sessions[a]) /\ Here(cur)
      BY <2>3 DEF TypeOK, Here
    <3> QED
      BY <2>1, <2>3, <3>1 DEF Unique, Placed
  <2>4. \A a \in Addrs : sessions[a] # NoSession => sessions[a].id \in Ids
    BY DEF TypeOK, Session
  <2>5. IDsAgree'
    BY <2>1, <2>2, <2>3, <2>4 DEF UdpStoreID, TypeOK, MapsAgree, IDsAgree
  <2> QED
    BY <2>5 DEF UdpStoreID, MapsAgree, CountExact
<1>6. AnswerToOwner'
  BY DEF UdpStoreID, AnswerToOwner
<1> QED
  BY <1>1, <1>2, <1>3, <1>4, <1>5, <1>6

LEMMA UdpCountStep ==
  ASSUME IInv, UdpCount
  PROVE  IInv'
<1>1. TypeOK'
  BY DEF UdpCount, TypeOK, Session, Packet, Ids
<1>2. Counted' /\ Unique'
  <2>1. \A s \in Session : Here(s)' => Here(s)
    BY DEF UdpCount, TypeOK, Here, Packet
  <2> QED
    BY <2>1, NoNewSession DEF UdpCount
<1>3. Apart'
  BY DEF UdpCount, TypeOK, Apart
<1>4. MapsAgree'
  BY HeldFinite DEF UdpCount, TypeOK, MapsAgree, IDsAgree, CountExact, Held
<1>5. Placed' /\ AnswerToOwner'
  BY DEF UdpCount, Placed, AnswerToOwner
<1> QED
  BY <1>1, <1>2, <1>3, <1>4, <1>5

LEMMA UdpSendStep ==
  ASSUME IInv, UdpSend
  PROVE  IInv'
<1>1. TypeOK'
  BY DEF UdpSend, TypeOK, Session, Packet, Ids
<1>2. Counted' /\ Unique'
  <2>1. \A s \in Session : Here(s)' => Here(s)
    BY DEF UdpSend, TypeOK, Here, Packet
  <2> QED
    BY <2>1, NoNewSession DEF UdpSend
<1>3. Placed'
  BY DEF UdpSend, TypeOK, Placed
<1>4. Apart'
  BY DEF UdpSend, TypeOK, Apart
<1>5. MapsAgree'
  BY DEF UdpSend, TypeOK, MapsAgree, IDsAgree, CountExact
<1>6. AnswerToOwner'
  BY DEF UdpSend, AnswerToOwner
<1> QED
  BY <1>1, <1>2, <1>3, <1>4, <1>5, <1>6

LEMMA CleanTickStep ==
  ASSUME IInv, CleanTick
  PROVE  IInv'
<1>1. TypeOK'
  BY DEF CleanTick, TypeOK, Session, Packet, Ids
<1>2. Counted' /\ Unique'
  <2>1. \A s \in Session : Here(s)' => Here(s)
    BY DEF CleanTick, TypeOK, Here, Packet
  <2> QED
    BY <2>1, NoNewSession DEF CleanTick
<1>3. Apart'
  BY DEF CleanTick, TypeOK, Apart
<1>4. MapsAgree'
  BY DEF CleanTick, TypeOK, MapsAgree, IDsAgree, CountExact
<1>5. Placed' /\ AnswerToOwner'
  BY DEF CleanTick, Placed, AnswerToOwner
<1> QED
  BY <1>1, <1>2, <1>3, <1>4, <1>5

LEMMA CleanDeleteStep ==
  ASSUME IInv, NEW a \in Addrs, CleanDelete(a)
  PROVE  IInv'
<1>1. TypeOK'
  BY DEF CleanDelete, TypeOK, Session, Packet, Ids
<1>2. Counted' /\ Unique'
  <2>1. \A s \in Session : Here(s)' => Here(s)
    BY DEF CleanDelete, TypeOK, Here, Packet
  <2> QED
    BY <2>1, NoNewSession DEF CleanDelete
<1>3. Placed'
  BY DEF CleanDelete, TypeOK, Placed
<1>4. Apart'
  BY DEF CleanDelete, TypeOK, Apart, Placed
<1>5. MapsAgree'
  <2>1. sessions[a] # NoSession
    BY DEF CleanDelete, Apart
  <2>2. IDsAgree'
    BY <2>1 DEF CleanDelete, TypeOK, MapsAgree, IDsAgree, Apart, Placed
  <2>3. Held' = Held \ {a} /\ a \in Held
    BY <2>1 DEF CleanDelete, TypeOK, Held
  <2>4. Cardinality(Held') = Cardinality(Held) - 1
    BY <2>3, HeldFinite, FS_RemoveElement
  <2> QED
    BY <2>1, <2>2, <2>4, HeldFinite DEF CleanDelete, TypeOK, MapsAgree, CountExact, Held
<1>6. AnswerToOwner'
  BY DEF CleanDelete, AnswerToOwner
<1> QED
  BY <1>1, <1>2, <1>3, <1>4, <1>5, <1>6

LEMMA CleanDeleteIDStep ==
  ASSUME IInv, CleanDeleteID
  PROVE  IInv'
<1>1. TypeOK'
  BY DEF CleanDeleteID, TypeOK, Session, Packet, Ids
<1>2. Counted' /\ Unique'
  <2>1. \A s \in Session : Here(s)' => Here(s)
    BY DEF CleanDeleteID, TypeOK, Here, Packet
  <2> QED
    BY <2>1, NoNewSession DEF CleanDeleteID
<1>3. Placed'
  BY DEF CleanDeleteID, TypeOK, Placed
<1>4. Apart'
  BY DEF CleanDeleteID, TypeOK, Apart, Placed
<1>5. MapsAgree'
  <2>1. gone \in Session /\ gone.id \in Ids
    BY DEF CleanDeleteID, TypeOK, Session
  <2>2. ASSUME NEW a \in Addrs, sessions[a] # NoSession
        PROVE  sessions[a].id # gone.id
    <3>1. sessions[a] \in Session /\ Here(sessions[a]) /\ Here(gone)
      BY <2>2 DEF TypeOK, Here
    <3>2. sessions[a] # gone
      BY <2>1 DEF Apart
    <3> QED
      BY <2>1, <2>2, <3>1, <3>2 DEF Unique, Placed
  <2>3. \A a \in Addrs : sessions[a] # NoSession => sessions[a].id \in Ids
    BY DEF TypeOK, Session
  <2>4. IDsAgree'
    BY <2>1, <2>2, <2>3 DEF CleanDeleteID, TypeOK, MapsAgree, IDsAgree
  <2> QED
    BY <2>4 DEF CleanDeleteID, MapsAgree, CountExact
<1>6. AnswerToOwner'
  BY DEF CleanDeleteID, AnswerToOwner
<1> QED
  BY <1>1, <1>2, <1>3, <1>4, <1>5, <1>6

LEMMA CleanUncountStep ==
  ASSUME IInv, CleanUncount
  PROVE  IInv'
<1>1. TypeOK'
  BY DEF CleanUncount, TypeOK, Session, Packet, Ids
<1>2. Counted' /\ Unique'
  <2>1. \A s \in Session : Here(s)' => Here(s)
    BY DEF CleanUncount, TypeOK, Here, Packet
  <2> QED
    BY <2>1, NoNewSession DEF CleanUncount
<1>3. Placed'
  BY DEF CleanUncount, TypeOK, Placed
<1>4. Apart'
  BY DEF CleanUncount, TypeOK, Apart
<1>5. MapsAgree'
  BY HeldFinite DEF CleanUncount, TypeOK, MapsAgree, IDsAgree, CountExact, Apart, Held
<1>6. AnswerToOwner'
  BY DEF CleanUncount, AnswerToOwner
<1> QED
  BY <1>1, <1>2, <1>3, <1>4, <1>5, <1>6

LEMMA CleanEndStep ==
  ASSUME IInv, CleanEnd
  PROVE  IInv'
<1>1. TypeOK'
  BY DEF CleanEnd, TypeOK, Session, Packet, Ids
<1>2. Counted' /\ Unique'
  <2>1. \A s \in Session : Here(s)' => Here(s)
    BY DEF CleanEnd, TypeOK, Here, Packet
  <2> QED
    BY <2>1, NoNewSession DEF CleanEnd
<1>3. Apart'
  BY DEF CleanEnd, TypeOK, Apart
<1>4. MapsAgree'
  BY DEF CleanEnd, TypeOK, MapsAgree, IDsAgree, CountExact
<1>5. Placed' /\ AnswerToOwner'
  BY DEF CleanEnd, Placed, AnswerToOwner
<1> QED
  BY <1>1, <1>2, <1>3, <1>4, <1>5

LEMMA AgeStep ==
  ASSUME IInv, NEW a \in Addrs, sessions[a] # NoSession, Age(sessions[a])
  PROVE  IInv'
<1>1. TypeOK'
  BY DEF Age, TypeOK, Session, Packet, Ids
<1>2. Counted' /\ Unique'
  <2>1. \A s \in Session : Here(s)' => Here(s)
    BY DEF Age, TypeOK, Here, Packet
  <2> QED
    BY <2>1, NoNewSession DEF Age
<1>3. Apart'
  BY DEF Age, TypeOK, Apart, Placed
<1>4. Placed' /\ MapsAgree' /\ AnswerToOwner'
  BY DEF Age, Placed, MapsAgree, IDsAgree, CountExact, AnswerToOwner
<1> QED
  BY <1>1, <1>2, <1>3, <1>4

LEMMA ReceiveLoadStep ==
  ASSUME IInv, NEW r \in Receivers, NEW p \in down, ReceiveLoad(r, p)
  PROVE  IInv'
<1>1. TypeOK'
  BY DEF ReceiveLoad, TypeOK, Session, Packet, Ids
<1>2. Counted' /\ Unique'
  <2>1. \A s \in Session : Here(s)' => Here(s)
    BY DEF ReceiveLoad, TypeOK, Here, Packet
  <2> QED
    BY <2>1, NoNewSession DEF ReceiveLoad
<1>3. Placed'
  BY DEF ReceiveLoad, TypeOK, Placed
<1>4. AnswerToOwner'
  <2>1. p.id \in Ids /\ p.for \in Session /\ p.for.id = p.id /\ Here(p.for)
    BY DEF TypeOK, Packet, Placed, Here
  <2>2. byID[p.id] # NoSession /\ p.for.run = run => byID[p.id] = p.for
    <3>1. byID[p.id] # NoSession => byID[p.id] \in Session /\ Here(byID[p.id])
      BY <2>1 DEF TypeOK, Here
    <3> QED
      BY <2>1, <3>1 DEF Unique, Placed
  <2> QED
    BY <2>1, <2>2 DEF ReceiveLoad, TypeOK, AnswerToOwner
<1>5. Apart' /\ MapsAgree'
  BY DEF ReceiveLoad, Apart, MapsAgree, IDsAgree, CountExact
<1> QED
  BY <1>1, <1>2, <1>3, <1>4, <1>5

LEMMA ReceiveWriteStep ==
  ASSUME IInv, NEW r \in Receivers, ReceiveWrite(r)
  PROVE  IInv'
<1>1. TypeOK'
  <2>1. rcv[r] \in [sess : Session, for : Session, done : BOOLEAN]
    BY DEF ReceiveWrite, TypeOK
  <2>2. [rcv[r] EXCEPT !.done = TRUE] \in [sess : Session, for : Session, done : BOOLEAN]
    BY <2>1
  <2>3. rcv' \in [Receivers -> [sess : Session, for : Session, done : BOOLEAN] \cup {NoSession}]
    BY <2>2 DEF ReceiveWrite, TypeOK
  <2> QED
    BY <2>3 DEF ReceiveWrite, TypeOK
<1>2. Counted' /\ Unique'
  <2>1. \A s \in Session : Here(s)' => Here(s)
    BY DEF ReceiveWrite, TypeOK, Here, Packet
  <2> QED
    BY <2>1, NoNewSession DEF ReceiveWrite
<1>3. AnswerToOwner'
  BY DEF ReceiveWrite, TypeOK, AnswerToOwner
<1>4. Placed' /\ Apart' /\ MapsAgree'
  BY DEF ReceiveWrite, Placed, Apart, MapsAgree, IDsAgree, CountExact
<1> QED
  BY <1>1, <1>2, <1>3, <1>4

LEMMA ReceiveTouchStep ==
  ASSUME IInv, NEW r \in Receivers, ReceiveTouch(r)
  PROVE  IInv'
<1>1. TypeOK'
  BY DEF ReceiveTouch, TypeOK, Session, Packet, Ids
<1>2. Counted' /\ Unique'
  <2>1. \A s \in Session : Here(s)' => Here(s)
    BY DEF ReceiveTouch, TypeOK, Here, Packet
  <2> QED
    BY <2>1, NoNewSession DEF ReceiveTouch
<1>3. Apart'
  BY DEF ReceiveTouch, TypeOK, Apart
<1>4. AnswerToOwner'
  BY DEF ReceiveTouch, TypeOK, AnswerToOwner
<1>5. Placed' /\ MapsAgree'
  BY DEF ReceiveTouch, Placed, MapsAgree, IDsAgree, CountExact
<1> QED
  BY <1>1, <1>2, <1>3, <1>4, <1>5

LEMMA ServerReceiveStep ==
  ASSUME IInv, NEW p \in up, ServerReceive(p)
  PROVE  IInv'
<1>1. TypeOK'
  BY DEF ServerReceive, TypeOK, Session, Packet, Ids
<1>2. Counted' /\ Unique'
  <2>1. \A s \in Session : Here(s)' => Here(s)
    BY DEF ServerReceive, TypeOK, Here, Packet
  <2> QED
    BY <2>1, NoNewSession DEF ServerReceive
<1>3. Placed'
  BY DEF ServerReceive, TypeOK, Placed, Packet
<1>4. Apart' /\ MapsAgree' /\ AnswerToOwner'
  BY DEF ServerReceive, Apart, MapsAgree, IDsAgree, CountExact, AnswerToOwner
<1> QED
  BY <1>1, <1>2, <1>3, <1>4

LEMMA ServerAnswerStep ==
  ASSUME IInv, NEW i \in Ids, ServerAnswer(i)
  PROVE  IInv'
<1>1. TypeOK'
  BY DEF ServerAnswer, TypeOK, Session, Packet, Ids
<1>2. Counted' /\ Unique'
  <2>1. \A s \in Session : Here(s)' => Here(s)
    BY DEF ServerAnswer, TypeOK, Here, Packet
  <2> QED
    BY <2>1, NoNewSession DEF ServerAnswer
<1>3. Placed'
  BY DEF ServerAnswer, TypeOK, Placed, Packet
<1>4. Apart' /\ MapsAgree' /\ AnswerToOwner'
  BY DEF ServerAnswer, Apart, MapsAgree, IDsAgree, CountExact, AnswerToOwner
<1> QED
  BY <1>1, <1>2, <1>3, <1>4

LEMMA ServerExpireStep ==
  ASSUME IInv, NEW i \in Ids, ServerExpire(i)
  PROVE  IInv'
<1>1. TypeOK'
  BY DEF ServerExpire, TypeOK, Session, Packet, Ids
<1>2. Counted' /\ Unique'
  <2>1. \A s \in Session : Here(s)' => Here(s)
    BY DEF ServerExpire, TypeOK, Here, Packet
  <2> QED
    BY <2>1, NoNewSession DEF ServerExpire
<1>3. Placed'
  BY DEF ServerExpire, TypeOK, Placed
<1>4. Apart' /\ MapsAgree' /\ AnswerToOwner'
  BY DEF ServerExpire, Apart, MapsAgree, IDsAgree, CountExact, AnswerToOwner
<1> QED
  BY <1>1, <1>2, <1>3, <1>4

LEMMA LoseStep ==
  ASSUME IInv, Lose
  PROVE  IInv'
<1>1. TypeOK'
  BY DEF Lose, TypeOK, Session, Packet, Ids
<1>2. Counted' /\ Unique'
  <2>1. \A s \in Session : Here(s)' => Here(s)
    BY DEF Lose, TypeOK, Here, Packet
  <2> QED
    BY <2>1, NoNewSession DEF Lose
<1>3. Placed'
  BY DEF Lose, TypeOK, Placed
<1>4. Apart' /\ MapsAgree' /\ AnswerToOwner'
  BY DEF Lose, Apart, MapsAgree, IDsAgree, CountExact, AnswerToOwner
<1> QED
  BY <1>1, <1>2, <1>3, <1>4

(* What outlives the process belongs to an earlier run, so that the ids    *)
(* may start again.                                                        *)
LEMMA RestartStep ==
  ASSUME IInv, Restart
  PROVE  IInv'
<1>1. TypeOK'
  BY DEF Restart, TypeOK, None
<1>2. \A s \in Session : Here(s)' => s.run < run'
  <2>1. \A s \in Session : Here(s)' => Here(s)
    BY DEF Restart, None, Here
  <2>2. \A s \in Session : s.run \in Int
    BY DEF Session
  <2> QED
    BY <2>1, <2>2 DEF Restart, TypeOK, Counted
<1>3. Counted' /\ Unique'
  <2>1. \A s \in Session : s.run \in Int
    BY DEF Session
  <2> QED
    BY <1>1, <1>2, <2>1 DEF TypeOK, Counted, Unique
<1>4. Placed' /\ Apart' /\ IDsAgree' /\ AnswerToOwner'
  BY DEF Restart, TypeOK, None, Placed, Apart, IDsAgree, AnswerToOwner
<1>5. CountExact'
  <2>1. Held' = {}
    BY DEF Restart, None, Held
  <2> QED
    BY <2>1, FS_EmptySet DEF Restart, CountExact, Held
<1> QED
  BY <1>1, <1>3, <1>4, <1>5 DEF MapsAgree

LEMMA InitIInv == Init => IInv
<1> SUFFICES ASSUME Init PROVE IInv
  OBVIOUS
<1>1. TypeOK
  BY DEF Init, TypeOK, None
<1>2. \A s \in Session : ~Here(s)
  BY DEF Init, None, Here
<1>3. Counted /\ Unique
  BY <1>2 DEF Counted, Unique
<1>4. Placed /\ Apart /\ IDsAgree /\ AnswerToOwner
  BY DEF Init, None, Placed, Apart, IDsAgree, AnswerToOwner
<1>5. CountExact
  <2>1. Held = {}
    BY DEF Init, None, Held
  <2> QED
    BY <2>1, FS_EmptySet DEF Init, CountExact, Held
<1> QED
  BY <1>1, <1>3, <1>4, <1>5 DEF MapsAgree
-----------------------------------------------------------------------------
LEMMA StutterStep ==
  ASSUME IInv, UNCHANGED vars
  PROVE  IInv'
BY DEF vars, TypeOK, Counted, Unique, Here, Placed, Apart, MapsAgree, IDsAgree, CountExact, AnswerToOwner

(* The invariant is inductive: one lemma above for each action.            *)
LEMMA Inductive == Spec => []IInv
<1>1. IInv /\ [Next]_vars => IInv'
  <2> SUFFICES ASSUME IInv, [Next]_vars PROVE IInv'
    OBVIOUS
  <2> USE DEF Next
  <2>1. CASE \E a \in Addrs : UdpFound(a) \/ UdpNew(a)
    BY <2>1, UdpFoundStep, UdpNewStep
  <2>2. CASE UdpTouch \/ UdpStore \/ UdpStoreID \/ UdpCount \/ UdpSend
    BY <2>2, UdpTouchStep, UdpStoreStep, UdpStoreIDStep, UdpCountStep, UdpSendStep
  <2>3. CASE Clean
    BY <2>3, CleanTickStep, CleanDeleteStep, CleanDeleteIDStep, CleanUncountStep, CleanEndStep DEF Clean
  <2>4. CASE \E r \in Receivers : Receive(r)
    BY <2>4, ReceiveLoadStep, ReceiveWriteStep, ReceiveTouchStep DEF Receive
  <2>5. CASE \E a \in Addrs : sessions[a] # NoSession /\ Age(sessions[a])
    BY <2>5, AgeStep
  <2>6. CASE \E p \in up : ServerReceive(p)
    BY <2>6, ServerReceiveStep
  <2>7. CASE \E i \in Ids : ServerAnswer(i) \/ ServerExpire(i)
    BY <2>7, ServerAnswerStep, ServerExpireStep
  <2>8. CASE Lose \/ Restart
    BY <2>8, LoseStep, RestartStep
  <2>9. CASE UNCHANGED vars
    BY <2>9, StutterStep
  <2> QED
    BY <2>1, <2>2, <2>3, <2>4, <2>5, <2>6, <2>7, <2>8, <2>9
<1> QED
  BY InitIInv, <1>1, PTL DEF Spec

(* TypeOK holds: in particular handleUDP and cleanupSessions always have a *)
(* session in hand when they use one.                                      *)
THEOREM TypeCorrect == Spec => []TypeOK
BY Inductive, PTL

(* The steps of getOrCreateSession and cleanupSessions, interleaved in any *)
(* way, leave sessions, sessionsByID and ActiveSessions in agreement.      *)
THEOREM MapsSafe == Spec => []MapsAgree
BY Inductive, PTL

(* handleDownstreamPacket gives an answer to the session it is for: an id  *)
(* is given out once in a run, and lookups by id find that session or none.*)
THEOREM AnswerSafe == Spec => []AnswerToOwner
BY Inductive, PTL
=============================================================================
