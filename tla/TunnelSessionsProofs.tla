----------------------- MODULE TunnelSessionsProofs -----------------------
(* Theorems about TunnelSessions, for any connections, spokes and ports.   *)
EXTENDS TunnelSessions, FiniteSetTheorems, TLAPS

-----------------------------------------------------------------------------
(* Types                                                                   *)

(* An accept_loop between its accept and the send of the Open frame has    *)
(* allocated the sid it opens.  Without it neither the type of `streams`   *)
(* nor that of `up` is preserved.                                          *)
OpeningHasSid ==
  \A c \in Conns, p \in Ports :
    lis[c][p] \in {"insert", "counting", "opening"} => cursid[c][p] # 0

(* A connection past the handshake, and any listener or stream it left     *)
(* behind, belongs to a configured spoke.                                  *)
Authenticated ==
  \A c \in Conns :
    \/ pc[c] \notin {"idle", "first", "done"}
    \/ \E p \in Ports : lis[c][p] # "none"
    \/ up[c] # {}
    => spoke[c] \in Spokes

TypeInv == TypeOK /\ OpeningHasSid /\ Authenticated

USE ConnsAssumption, SpokesAssumption, PortsAssumption, MaxSidAssumption

(* tunnel-server starts with no connection, listener or stream.            *)
LEMMA TypeInvInit == Init => TypeInv
  BY DEF Init, TypeInv, TypeOK, OpeningHasSid, Authenticated, PCs, ListenerStates, Sids

(* Every step of tunnel-server keeps the types of its state.               *)
LEMMA TypeInvStep == TypeInv /\ [Next]_vars => TypeInv'
<1> SUFFICES ASSUME TypeInv, [Next]_vars PROVE TypeInv'
  OBVIOUS
<1> USE DEF TypeInv, TypeOK, OpeningHasSid, Authenticated, PCs, ListenerStates, Sids
<1>1. CASE UNCHANGED vars
  BY <1>1 DEF vars, session, listener
<1>2. ASSUME NEW c \in Conns, Transport(c) PROVE TypeInv'
  BY <1>2 DEF Transport, Connect, ClientGone, session, listener
<1>3. ASSUME NEW c \in Conns, HandleConnection(c) PROVE TypeInv'
  <2>0. pc[c] \notin {"idle", "first", "done"} => spoke[c] \in Spokes
    OBVIOUS
  <2>1. ASSUME NEW s \in Spokes, Handshake(c, s) PROVE TypeInv'
    BY <2>1 DEF Handshake, session, listener
  <2>2. CASE HandshakeFail(c)
    BY <2>2 DEF HandshakeFail, session, listener
  <2>3. CASE Register(c)
    <3>1. registered' \in [Spokes -> Conns \cup {NoConn}]
      BY <2>0, <2>3 DEF Register, InsertSession
    <3>2. /\ pc' = [pc EXCEPT ![c] = "count"]
          /\ UNCHANGED <<spoke, old, bound, alive, session, listener, rsid, up,
                         next_sid, connected, streams_open>>
          /\ spoke[c] \in Spokes
      BY <2>0, <2>3 DEF Register, InsertSession
    <3> QED
      BY <3>1, <3>2 DEF session, listener
  <2>4. CASE FindOld(c)
    BY <2>4 DEF FindOld, session, listener
  <2>5. CASE Displace(c)
    BY <2>5 DEF Displace, CloseSession, session, listener
  <2>6. CASE Replace(c)
    <3>1. registered' \in [Spokes -> Conns \cup {NoConn}]
      BY <2>0, <2>6 DEF Replace, InsertSession
    <3>2. /\ pc' = [pc EXCEPT ![c] = "count"]
          /\ UNCHANGED <<spoke, old, bound, alive, session, listener, rsid, up,
                         next_sid, connected, streams_open>>
          /\ spoke[c] \in Spokes
      BY <2>0, <2>6 DEF Replace, InsertSession
    <3> QED
      BY <3>1, <3>2 DEF session, listener
  <2>14. CASE CountConnected(c)
    BY <2>14 DEF CountConnected, session, listener
  <2>7. CASE Bind(c)
    <3>0. NextPort(c) \in Ports
      BY <2>0, <2>7 DEF Bind, MorePorts, NextPort
    <3>1. /\ lis' \in [Conns -> [Ports -> ListenerStates]]
          /\ bound' \in [Conns -> Nat]
      BY <2>7, <3>0 DEF Bind
    <3>4. OpeningHasSid'
      BY <2>7, <3>0 DEF Bind
    <3>2. spoke[c] \in Spokes /\ \A d \in Conns \ {c} : lis'[d] = lis[d]
      BY <2>0, <2>7 DEF Bind
    <3>3. UNCHANGED <<pc, spoke, old, alive, session, registered, cursid, rsid, up,
                     next_sid, connected, streams_open>>
      BY <2>7 DEF Bind
    <3> QED
      BY <3>1, <3>2, <3>3, <3>4 DEF session
  <2>8. CASE BindFail(c)
    BY <2>8 DEF BindFail, session, listener
  <2>9. CASE BindDone(c)
    BY <2>9 DEF BindDone, session, listener
  <2>10. CASE RecvEnd(c)
    BY <2>10 DEF RecvEnd, session, listener
  <2>11. CASE Close(c)
    BY <2>11 DEF Close, CloseSession, session, listener
  <2>12. CASE Cleanup(c)
    <3>1. /\ registered' \in [Spokes -> Conns \cup {NoConn}]
          /\ connected' \in Int
      BY <2>12 DEF Cleanup, RemoveEntry
    <3>2. pc' \in [Conns -> PCs] /\ \A d \in Conns \ {c} : pc'[d] = pc[d]
      BY <2>12 DEF Cleanup
    <3>3. spoke[c] \in Spokes
      BY <2>0, <2>12 DEF Cleanup
    <3>4. UNCHANGED <<spoke, old, bound, alive, session, listener, rsid, up,
                     next_sid, streams_open>>
      BY <2>12 DEF Cleanup
    <3> QED
      BY <3>1, <3>2, <3>3, <3>4 DEF session, listener
  <2>13. CASE Abort(c)
    BY <2>13 DEF Abort, session, listener
  <2> QED
    BY <1>3, <2>1, <2>2, <2>3, <2>4, <2>5, <2>6, <2>7, <2>8, <2>9, <2>10,
       <2>11, <2>12, <2>13, <2>14 DEF HandleConnection
<1>4. ASSUME NEW c \in Conns, NEW p \in Ports, AcceptLoop(c, p) PROVE TypeInv'
  <2>1. CASE ListenerCheck(c, p)
    BY <2>1 DEF ListenerCheck, session, listener
  <2>2. CASE Accept(c, p)
    BY <2>2 DEF Accept, session, listener
  <2>6. CASE InsertWriter(c, p)
    BY <2>6 DEF InsertWriter, listener
  <2>7. CASE CountStream(c, p)
    BY <2>7 DEF CountStream, session
  <2>8. CASE Cancelled(c, p)
    BY <2>8 DEF Cancelled, session
  <2>3. CASE AcceptError(c, p)
    BY <2>3 DEF AcceptError, session, listener
  <2>4. CASE OpenSent(c, p)
    BY <2>4 DEF OpenSent, session, listener
  <2>5. CASE OpenFailed(c, p)
    BY <2>5 DEF OpenFailed, session, listener
  <2> QED
    BY <1>4, <2>1, <2>2, <2>3, <2>4, <2>5, <2>6, <2>7, <2>8 DEF AcceptLoop
<1>5. ASSUME NEW c \in Conns, NEW sid \in Sids, Stream(c, sid) PROVE TypeInv'
  <2>s. spoke[c] \in Spokes
    BY <1>5 DEF Stream, UpstreamEnd, SpokeClose, RecvData
  <2>1. RemoveStream(c, sid) => /\ streams' \in [Conns -> SUBSET Sids]
                                /\ streams_open' \in [Spokes -> Int]
    BY <2>s DEF RemoveStream
  <2>2. CASE UpstreamEnd(c, sid)
    BY <2>1, <2>2 DEF UpstreamEnd, session, listener
  <2>3. CASE SpokeClose(c, sid)
    BY <2>1, <2>3 DEF SpokeClose, session, listener
  <2>4. CASE RecvData(c, sid)
    BY <2>s, <2>4 DEF RecvData, session, listener
  <2> QED
    BY <1>5, <2>2, <2>3, <2>4 DEF Stream
<1>6. ASSUME NEW c \in Conns, Deliver(c) PROVE TypeInv'
  <2>s. spoke[c] \in Spokes
    BY <1>6 DEF Deliver, Delivered, DeliverFailed
  <2>1. CASE Delivered(c)
    BY <2>1, <2>s DEF Delivered, session, listener
  <2>2. CASE DeliverFailed(c)
    <3>1. /\ streams' \in [Conns -> SUBSET Sids]
          /\ streams_open' \in [Spokes -> Int]
      BY <2>2, <2>s DEF DeliverFailed, RemoveStream
    <3> QED
      BY <2>2, <2>s, <3>1 DEF DeliverFailed, session, listener
  <2> QED
    BY <1>6, <2>1, <2>2 DEF Deliver
<1> QED
  BY <1>1, <1>2, <1>3, <1>4, <1>5, <1>6 DEF Next

(* The strengthened type invariant holds throughout.                       *)
LEMMA TypeInvariant == Spec => []TypeInv
<1>1. Init => TypeInv
  BY TypeInvInit
<1>2. TypeInv /\ [Next]_vars => TypeInv'
  BY TypeInvStep
<1> QED
  BY <1>1, <1>2, PTL DEF Spec

(* The state of tunnel-server always has its types, for every set of       *)
(* connections, spokes and ports and every number of accepted sockets.     *)
THEOREM TypeCorrect == Spec => []TypeOK
<1>1. TypeInv => TypeOK
  BY DEF TypeInv
<1> QED
  BY <1>1, TypeInvariant, PTL

-----------------------------------------------------------------------------
(* The session map                                                         *)

(* A connection that has not registered: nobody can have seen its session, *)
(* so nobody has closed it or is displacing it.                            *)
Early == {"idle", "first", "register", "displace", "replace"}

EarlyIsPrivate ==
  \A c \in Conns : pc[c] \in Early =>
    /\ ~closed[c]
    /\ \A d \in Conns : old[d] # c

(* The map holds, under a spoke, a session of that spoke whose             *)
(* handle_connection has registered and has not run cleanup_session.       *)
EntryOwner ==
  \A s \in Spokes, c \in Conns : registered[s] = c =>
    /\ spoke[c] = s
    /\ pc[c] \in {"count", "bind", "recv", "deliver", "close", "cleanup",
                  "failclose", "failcleanup"}

(* A displacing connection displaces a session of its own spoke.           *)
OldSameSpoke ==
  \A d \in Conns : pc[d] \in {"displace", "replace"} =>
    old[d] \in Conns /\ spoke[old[d]] = spoke[d]

(* cleanup_session always runs after the session's own close().            *)
ClosedBeforeCleanup ==
  \A c \in Conns : pc[c] \in {"cleanup", "failcleanup"} => closed[c]

MapInv ==
  /\ EarlyIsPrivate
  /\ EntryOwner
  /\ OldSameSpoke
  /\ ClosedBeforeCleanup
  /\ StaleEntryIsTransient

(* The map is empty before the first handshake.                            *)
LEMMA MapInvInit == Init => MapInv
  BY DEF Init, MapInv, EarlyIsPrivate, EntryOwner, OldSameSpoke,
         ClosedBeforeCleanup, StaleEntryIsTransient, Early

(* Steps of the transport, of the accept_loops and of the streams do not   *)
(* touch what the map invariant talks about.                               *)
LEMMA MapInvFrame ==
  MapInv /\ UNCHANGED <<pc, spoke, old, closed, registered>> => MapInv'
  BY DEF MapInv, EarlyIsPrivate, EntryOwner, OldSameSpoke,
         ClosedBeforeCleanup, StaleEntryIsTransient

(* recv_loop going into a delivery and out of it is the same to the map.   *)
LEMMA MapInvRecv ==
  ASSUME TypeInv, MapInv, NEW c \in Conns, NEW x \in {"recv", "deliver"},
         pc[c] \in {"recv", "deliver"}, pc' = [pc EXCEPT ![c] = x],
         UNCHANGED <<spoke, old, closed, registered>>
  PROVE  MapInv'
  BY DEF MapInv, EarlyIsPrivate, EntryOwner, OldSameSpoke, Early,
         ClosedBeforeCleanup, StaleEntryIsTransient, TypeInv, TypeOK

(* Every step of handle_connection keeps the map invariant; the delicate   *)
(* ones are Displace and Replace, between which the map is unlocked, and   *)
(* Cleanup, which may remove the session of another connection.            *)
LEMMA MapInvConnection ==
  ASSUME TypeInv, MapInv, NEW c \in Conns, HandleConnection(c)
  PROVE  MapInv'
<1> USE DEF MapInv, EarlyIsPrivate, EntryOwner, OldSameSpoke,
            ClosedBeforeCleanup, StaleEntryIsTransient, Early
<1>t. /\ pc \in [Conns -> PCs]
      /\ spoke \in [Conns -> Spokes \cup {NoSpoke}]
      /\ old \in [Conns -> Conns \cup {NoConn}]
      /\ closed \in [Conns -> BOOLEAN]
      /\ registered \in [Spokes -> Conns \cup {NoConn}]
  BY DEF TypeInv, TypeOK
<1>a. pc[c] \notin {"idle", "first", "done"} => spoke[c] \in Spokes
  BY DEF TypeInv, Authenticated
<1>1. ASSUME NEW s \in Spokes, Handshake(c, s) PROVE MapInv'
  BY <1>1, <1>t DEF Handshake, session, listener
<1>2. CASE HandshakeFail(c)
  BY <1>2, <1>t DEF HandshakeFail, session, listener
<1>3. CASE Register(c)
  BY <1>3, <1>t, <1>a DEF Register, InsertSession, session, listener
<1>4. CASE FindOld(c)
  <2>1. PICK d \in Conns : d = registered[spoke[c]]
    BY <1>4, <1>t, <1>a DEF FindOld
  <2>2. spoke[d] = spoke[c] /\ pc[d] \notin Early /\ d # c
    BY <1>4, <1>a, <2>1 DEF FindOld
  <2>3. /\ old' = [old EXCEPT ![c] = d]
        /\ pc' = [pc EXCEPT ![c] = "displace"]
        /\ UNCHANGED <<spoke, closed, registered>>
    BY <1>4, <2>1 DEF FindOld, session
  <2>4. EarlyIsPrivate'
    BY <1>4, <1>t, <2>2, <2>3 DEF FindOld
  <2>5. OldSameSpoke'
    BY <1>t, <2>2, <2>3
  <2>6. EntryOwner' /\ ClosedBeforeCleanup' /\ StaleEntryIsTransient'
    BY <1>4, <1>t, <2>3 DEF FindOld
  <2> QED
    BY <2>4, <2>5, <2>6
<1>5. CASE Displace(c)
  <2>1. old[c] \in Conns /\ spoke[old[c]] = spoke[c]
    BY <1>5 DEF Displace
  <2>2. EarlyIsPrivate' /\ EntryOwner' /\ OldSameSpoke' /\ ClosedBeforeCleanup'
    BY <1>5, <1>t, <2>1 DEF Displace, CloseSession
  <2>3. StaleEntryIsTransient'
    BY <1>5, <1>t, <2>1 DEF Displace, CloseSession
  <2> QED
    BY <2>2, <2>3
<1>6. CASE Replace(c)
  BY <1>6, <1>t, <1>a DEF Replace, InsertSession, session, listener
<1>14. CASE CountConnected(c)
  BY <1>14, <1>t DEF CountConnected, session
<1>7. CASE Bind(c)
  BY <1>7, MapInvFrame DEF Bind, session
<1>8. CASE BindFail(c)
  BY <1>8, <1>t DEF BindFail, session
<1>9. CASE BindDone(c)
  BY <1>9, <1>t DEF BindDone, session
<1>10. CASE RecvEnd(c)
  BY <1>10, <1>t DEF RecvEnd, session
<1>11. CASE Abort(c)
  BY <1>11, <1>t DEF Abort, session
<1>12. CASE Close(c)
  BY <1>12, <1>t DEF Close, CloseSession
<1>13. CASE Cleanup(c)
  <2>1. spoke[c] \in Spokes /\ closed[c]
    BY <1>13, <1>a DEF Cleanup
  <2>2. \A s \in Spokes : registered'[s] \in {registered[s], NoConn}
    BY <1>13, <1>t, <2>1 DEF Cleanup, RemoveEntry
  <2>3. registered'[spoke[c]] # c
    BY <1>13, <1>t, <2>1 DEF Cleanup, RemoveEntry
  <2>4. pc'[c] \in {"abort", "done"} /\ \A d \in Conns \ {c} : pc'[d] = pc[d]
    BY <1>13, <1>t DEF Cleanup
  <2>5. UNCHANGED <<spoke, old, closed>> /\ pc[c] \in {"cleanup", "failcleanup"}
    BY <1>13 DEF Cleanup, session
  <2>6. EarlyIsPrivate' /\ OldSameSpoke' /\ ClosedBeforeCleanup'
    BY <2>4, <2>5
  <2>7. EntryOwner'
    BY <2>2, <2>3, <2>4, <2>5
  <2>8. StaleEntryIsTransient'
    BY <2>2, <2>3, <2>4, <2>5
  <2> QED
    BY <2>6, <2>7, <2>8
<1> QED
  BY <1>1, <1>2, <1>3, <1>4, <1>5, <1>6, <1>7, <1>8, <1>9, <1>10, <1>11,
     <1>12, <1>13, <1>14 DEF HandleConnection

(* Registering, displacing, closing and cleaning up keep the map           *)
(* invariant.                                                              *)
LEMMA MapInvStep == TypeInv /\ MapInv /\ [Next]_vars => MapInv'
<1> SUFFICES ASSUME TypeInv, MapInv, [Next]_vars PROVE MapInv'
  OBVIOUS
<1>1. CASE UNCHANGED vars
  BY <1>1, MapInvFrame DEF vars, session, listener
<1>2. ASSUME NEW c \in Conns, Transport(c) PROVE MapInv'
  <2>1. CASE Connect(c)
    BY <2>1 DEF Connect, session, TypeInv, TypeOK, MapInv, EarlyIsPrivate,
                EntryOwner, OldSameSpoke, ClosedBeforeCleanup,
                StaleEntryIsTransient, Early
  <2>2. CASE ClientGone(c)
    BY <2>2, MapInvFrame DEF ClientGone, session
  <2> QED
    BY <1>2, <2>1, <2>2 DEF Transport
<1>3. ASSUME NEW c \in Conns, HandleConnection(c) PROVE MapInv'
  BY <1>3, MapInvConnection
<1>4. ASSUME NEW c \in Conns, NEW p \in Ports, AcceptLoop(c, p) PROVE MapInv'
  BY <1>4, MapInvFrame DEF AcceptLoop, ListenerCheck, Accept, AcceptError,
                           InsertWriter, CountStream, OpenSent, OpenFailed,
                           Cancelled, session, listener
<1>5. ASSUME NEW c \in Conns, NEW sid \in Sids, Stream(c, sid) PROVE MapInv'
  <2>1. CASE UpstreamEnd(c, sid) \/ SpokeClose(c, sid)
    BY <2>1, MapInvFrame DEF UpstreamEnd, SpokeClose
  <2>2. CASE RecvData(c, sid)
    BY <2>2, MapInvRecv DEF RecvData, session
  <2> QED
    BY <1>5, <2>1, <2>2 DEF Stream
<1>6. ASSUME NEW c \in Conns, Deliver(c) PROVE MapInv'
  BY <1>6, MapInvRecv DEF Deliver, Delivered, DeliverFailed, session
<1> QED
  BY <1>1, <1>2, <1>3, <1>4, <1>5, <1>6 DEF Next

(* The map invariant holds throughout.                                     *)
LEMMA MapInvariant == Spec => []MapInv
<1>1. Init => MapInv
  BY MapInvInit
<1>2. TypeInv /\ MapInv /\ [Next]_vars => MapInv'
  BY MapInvStep
<1> QED
  BY <1>1, <1>2, TypeInvariant, PTL DEF Spec

(* cleanup_session leaves no entry of a connection that has returned, for  *)
(* any number of connections displacing each other.                        *)
THEOREM NoZombieEntryHolds == Spec => []NoZombieEntry
<1>1. MapInv => NoZombieEntry
  BY DEF MapInv, EntryOwner, NoZombieEntry, Returned
<1> QED
  BY <1>1, MapInvariant, PTL

(* A closed session is in the map only while its cleanup or its            *)
(* replacement is pending, although the lock is dropped in between.        *)
THEOREM StaleEntryHolds == Spec => []StaleEntryIsTransient
<1>1. MapInv => StaleEntryIsTransient
  BY DEF MapInv
<1> QED
  BY <1>1, MapInvariant, PTL

-----------------------------------------------------------------------------
(* The connected gauge                                                     *)

(* The map has finitely many entries and there are finitely many           *)
(* connections, so both can be counted.                                    *)
LEMMA CountsAreNumbers ==
  /\ IsFiniteSet(RegisteredSpokes) /\ Cardinality(RegisteredSpokes) \in Nat
  /\ IsFiniteSet(AboutToCount) /\ Cardinality(AboutToCount) \in Nat
<1>1. RegisteredSpokes \subseteq Spokes /\ AboutToCount \subseteq Conns
  BY DEF RegisteredSpokes, AboutToCount
<1> QED
  BY <1>1, FS_Subset, FS_CardinalityType

(* An insert adds at most one spoke to the map, and its connection to      *)
(* those that are about to count themselves.                               *)
LEMMA GaugeInsert ==
  ASSUME TypeInv, ConnectedCoversMap, NEW c \in Conns, pc[c] # "count",
         spoke[c] \in Spokes, InsertSession(c), UNCHANGED connected
  PROVE  ConnectedCoversMap'
<1>1. /\ RegisteredSpokes' = RegisteredSpokes \cup {spoke[c]}
      /\ AboutToCount' = AboutToCount \cup {c} /\ c \notin AboutToCount
  BY DEF InsertSession, RegisteredSpokes, AboutToCount, TypeInv, TypeOK, PCs
<1>2. Cardinality(RegisteredSpokes') =
        IF spoke[c] \in RegisteredSpokes
        THEN Cardinality(RegisteredSpokes)
        ELSE Cardinality(RegisteredSpokes) + 1
  BY <1>1, CountsAreNumbers, FS_AddElement
<1>3. Cardinality(AboutToCount') = Cardinality(AboutToCount) + 1
  BY <1>1, CountsAreNumbers, FS_AddElement
<1> QED
  BY <1>2, <1>3, CountsAreNumbers DEF ConnectedCoversMap, TypeInv, TypeOK

(* The increment counts one connection that was about to.                  *)
LEMMA GaugeCount ==
  ASSUME TypeInv, ConnectedCoversMap, NEW c \in Conns, CountConnected(c)
  PROVE  ConnectedCoversMap'
<1>1. AboutToCount' = AboutToCount \ {c} /\ c \in AboutToCount
  BY DEF CountConnected, AboutToCount, TypeInv, TypeOK, PCs
<1>2. Cardinality(AboutToCount') = Cardinality(AboutToCount) - 1
  BY <1>1, CountsAreNumbers, FS_RemoveElement
<1>3. RegisteredSpokes' = RegisteredSpokes /\ connected' = connected + 1
  BY DEF CountConnected, RegisteredSpokes
<1> QED
  BY <1>2, <1>3, CountsAreNumbers DEF ConnectedCoversMap, TypeInv, TypeOK

(* cleanup_session removes one entry with each decrement.                  *)
LEMMA GaugeRemove ==
  ASSUME TypeInv, ConnectedCoversMap, NEW s \in Spokes, RemoveEntry(s),
         AboutToCount' = AboutToCount
  PROVE  ConnectedCoversMap'
<1>1. CASE registered[s] # NoConn /\ closed[registered[s]]
  <2>1. RegisteredSpokes' = RegisteredSpokes \ {s} /\ s \in RegisteredSpokes
    BY <1>1 DEF RemoveEntry, RegisteredSpokes, TypeInv, TypeOK
  <2>2. Cardinality(RegisteredSpokes') = Cardinality(RegisteredSpokes) - 1
    BY <2>1, CountsAreNumbers, FS_RemoveElement
  <2>3. connected' = connected - 1
    BY <1>1 DEF RemoveEntry
  <2> QED
    BY <2>2, <2>3, CountsAreNumbers DEF ConnectedCoversMap, TypeInv, TypeOK
<1>2. CASE ~(registered[s] # NoConn /\ closed[registered[s]])
  <2>1. RegisteredSpokes' = RegisteredSpokes /\ connected' = connected
    BY <1>2 DEF RemoveEntry, RegisteredSpokes
  <2> QED
    BY <2>1 DEF ConnectedCoversMap
<1> QED
  BY <1>1, <1>2

(* The gauge and the connections about to count themselves together cover  *)
(* the map: an insert adds to the second, the increment moves one over,    *)
(* and cleanup_session takes one off only with the entry it removes.       *)
LEMMA GaugeStep ==
  TypeInv /\ ConnectedCoversMap /\ [Next]_vars => ConnectedCoversMap'
<1> SUFFICES ASSUME TypeInv, ConnectedCoversMap, [Next]_vars
             PROVE  ConnectedCoversMap'
  OBVIOUS
<1>f. ASSUME UNCHANGED <<registered, connected>>, AboutToCount' = AboutToCount
      PROVE  ConnectedCoversMap'
  <2>1. RegisteredSpokes' = RegisteredSpokes
    BY <1>f DEF RegisteredSpokes
  <2> QED
    BY <1>f, <2>1 DEF ConnectedCoversMap
<1>g. ASSUME NEW c \in Conns, NEW x, pc' = [pc EXCEPT ![c] = x],
             pc[c] # "count", x # "count"
      PROVE  AboutToCount' = AboutToCount
  BY <1>g DEF AboutToCount, TypeInv, TypeOK
<1>h. UNCHANGED pc => AboutToCount' = AboutToCount
  BY DEF AboutToCount
<1>1. CASE UNCHANGED vars
  BY <1>1, <1>f, <1>h DEF vars
<1>2. ASSUME NEW c \in Conns, Transport(c) PROVE ConnectedCoversMap'
  BY <1>2, <1>f, <1>g, <1>h DEF Transport, Connect, ClientGone
<1>3. ASSUME NEW c \in Conns, HandleConnection(c) PROVE ConnectedCoversMap'
  <2>a. pc[c] \notin {"idle", "first", "done"} => spoke[c] \in Spokes
    BY DEF TypeInv, Authenticated
  <2>1. CASE Register(c) \/ Replace(c)
    BY <2>1, <2>a, GaugeInsert DEF Register, Replace
  <2>2. CASE CountConnected(c)
    BY <2>2, GaugeCount
  <2>3. CASE Cleanup(c)
    <3>1. AboutToCount' = AboutToCount
      BY <2>3, <1>g DEF Cleanup
    <3> QED
      BY <2>3, <2>a, <3>1, GaugeRemove DEF Cleanup
  <2>4. CASE Bind(c)
    BY <2>4, <1>f, <1>h DEF Bind
  <2>5. CASE Close(c)
    <3>1. AboutToCount' = AboutToCount
      BY <2>5, <1>g DEF Close
    <3> QED
      BY <2>5, <3>1, <1>f DEF Close
  <2>6. CASE \/ \E s \in Spokes : Handshake(c, s)
             \/ HandshakeFail(c) \/ FindOld(c) \/ Displace(c)
             \/ BindFail(c) \/ BindDone(c) \/ RecvEnd(c) \/ Abort(c)
    <3>1. AboutToCount' = AboutToCount
      BY <2>6, <1>g DEF Handshake, HandshakeFail, FindOld, Displace, BindFail,
                        BindDone, RecvEnd, Abort
    <3> QED
      BY <2>6, <3>1, <1>f DEF Handshake, HandshakeFail, FindOld, Displace,
                              BindFail, BindDone, RecvEnd, Abort
  <2> QED
    BY <1>3, <2>1, <2>2, <2>3, <2>4, <2>5, <2>6 DEF HandleConnection
<1>4. ASSUME NEW c \in Conns, NEW p \in Ports, AcceptLoop(c, p)
      PROVE  ConnectedCoversMap'
  BY <1>4, <1>f, <1>h DEF AcceptLoop, ListenerCheck, Accept, AcceptError,
                          InsertWriter, CountStream, OpenSent, OpenFailed, Cancelled
<1>5. ASSUME NEW c \in Conns, NEW sid \in Sids, Stream(c, sid)
      PROVE  ConnectedCoversMap'
  BY <1>5, <1>f, <1>g, <1>h DEF Stream, UpstreamEnd, SpokeClose, RecvData
<1>6. ASSUME NEW c \in Conns, Deliver(c) PROVE ConnectedCoversMap'
  BY <1>6, <1>f, <1>g DEF Deliver, Delivered, DeliverFailed
<1> QED
  BY <1>1, <1>2, <1>3, <1>4, <1>5, <1>6 DEF Next

(* The connected gauge falls short of the session map by no more than the  *)
(* connections between their insert and their increment.  It may read      *)
(* more: a displaced session stays counted.                                *)
THEOREM ConnectedCoversMapHolds == Spec => []ConnectedCoversMap
<1>1. Init => ConnectedCoversMap
  <2> SUFFICES ASSUME Init PROVE ConnectedCoversMap
    OBVIOUS
  <2>1. RegisteredSpokes = {} /\ AboutToCount = {}
    BY DEF Init, RegisteredSpokes, AboutToCount
  <2> QED
    BY <2>1, FS_EmptySet DEF Init, ConnectedCoversMap
<1>2. TypeInv /\ ConnectedCoversMap /\ [Next]_vars => ConnectedCoversMap'
  BY GaugeStep
<1> QED
  BY <1>1, <1>2, TypeInvariant, PTL DEF Spec

-----------------------------------------------------------------------------
(* Stream ids                                                              *)

(* Every id in use was allocated by next_sid, and only once.               *)
SidInv ==
  /\ SidsNotShared
  /\ \A c \in Conns : SidsInUse(c) \subseteq 1..next_sid

(* A step that only forgets ids keeps the invariant.                       *)
LEMMA SidInvShrinks ==
  ASSUME SidInv, UNCHANGED next_sid,
         \A d \in Conns : SidsInUse(d)' \subseteq SidsInUse(d)
  PROVE  SidInv'
  BY DEF SidInv, SidsNotShared

(* accept_loop takes a sid that no session has seen.                       *)
LEMMA SidInvAccept ==
  ASSUME TypeInv, SidInv, NEW c \in Conns, NEW p \in Ports, Accept(c, p)
  PROVE  SidInv'
<1>1. SidsInUse(c)' \subseteq SidsInUse(c) \cup {next_sid + 1}
  BY DEF Accept, SidsInUse, session, TypeInv, TypeOK
<1>2. \A d \in Conns \ {c} : SidsInUse(d)' = SidsInUse(d)
  BY DEF Accept, SidsInUse, session, TypeInv, TypeOK
<1>3. next_sid \in Nat /\ next_sid' = next_sid + 1
  BY DEF Accept, TypeInv, TypeOK
<1>4. next_sid + 1 \notin 1..next_sid /\ 1..next_sid \subseteq 1..next_sid'
      /\ next_sid + 1 \in 1..next_sid'
  BY <1>3
<1> QED
  BY <1>1, <1>2, <1>4 DEF SidInv, SidsNotShared

(* Opening, rolling back and closing streams keep the sid invariant.       *)
LEMMA SidInvStep == TypeInv /\ SidInv /\ [Next]_vars => SidInv'
<1> SUFFICES ASSUME TypeInv, SidInv, [Next]_vars PROVE SidInv'
  OBVIOUS
<1>f. UNCHANGED <<streams, up, cursid, rsid, next_sid>> => SidInv'
  BY SidInvShrinks DEF SidsInUse
<1>1. CASE UNCHANGED vars
  BY <1>1, <1>f DEF vars, session, listener
<1>2. ASSUME NEW c \in Conns, Transport(c) PROVE SidInv'
  BY <1>2, <1>f
     DEF Transport, Connect, ClientGone, session, listener
<1>3. ASSUME NEW c \in Conns, HandleConnection(c) PROVE SidInv'
  <2>1. ASSUME NEW d \in Conns, CloseSession(d),
               UNCHANGED <<up, cursid, rsid, next_sid>>
        PROVE  SidInv'
    BY <2>1, SidInvShrinks DEF CloseSession, SidsInUse, TypeInv, TypeOK
  <2>2. CASE Displace(c)
    <3>1. CASE old[c] \in Conns
      BY <2>1, <2>2, <3>1 DEF Displace, listener
    <3>2. CASE old[c] \notin Conns
      BY <2>2, <3>2, SidInvShrinks
         DEF Displace, CloseSession, SidsInUse, listener, TypeInv, TypeOK
    <3> QED
      BY <3>1, <3>2
  <2>3. CASE Close(c)
    BY <2>1, <2>3 DEF Close, listener
  <2>4. CASE UNCHANGED <<streams, up, cursid, rsid, next_sid>>
    BY <2>4, <1>f
  <2> QED
    BY <1>3, <2>2, <2>3, <2>4
       DEF HandleConnection, Handshake, HandshakeFail, Register, FindOld,
           Replace, CountConnected, Bind, BindFail, BindDone, RecvEnd, Cleanup,
           Abort, session, listener
<1>4. ASSUME NEW c \in Conns, NEW p \in Ports, AcceptLoop(c, p) PROVE SidInv'
  <2>1. CASE Accept(c, p)
    BY <2>1, SidInvAccept
  <2>2. CASE ListenerCheck(c, p) \/ AcceptError(c, p) \/ CountStream(c, p)
    BY <2>2, <1>f DEF ListenerCheck, AcceptError, CountStream, session
  <2>5. CASE InsertWriter(c, p)
    <3>1. cursid[c][p] \in SidsInUse(c)
      BY <2>5 DEF InsertWriter, SidsInUse, TypeInv, OpeningHasSid
    <3>2. \A d \in Conns : SidsInUse(d)' \subseteq SidsInUse(d)
      BY <2>5, <3>1 DEF InsertWriter, SidsInUse, TypeInv, TypeOK
    <3> QED
      BY <2>5, <3>2, SidInvShrinks DEF InsertWriter
  <2>3. CASE OpenSent(c, p)
    <3>1. cursid[c][p] \in SidsInUse(c)
      BY <2>3 DEF OpenSent, SidsInUse, TypeInv, OpeningHasSid
    <3>2. \A d \in Conns : SidsInUse(d)' \subseteq SidsInUse(d)
      BY <2>3, <3>1 DEF OpenSent, SidsInUse, session, TypeInv, TypeOK
    <3> QED
      BY <2>3, <3>2, SidInvShrinks DEF OpenSent
  <2>4. CASE OpenFailed(c, p) \/ Cancelled(c, p)
    <3>1. /\ UNCHANGED <<up, rsid, next_sid>>
          /\ \A d \in Conns : streams'[d] \subseteq streams[d]
          /\ \A d \in Conns, q \in Ports : cursid'[d][q] \in {cursid[d][q], 0}
      <4>1. CASE OpenFailed(c, p)
        BY <4>1 DEF OpenFailed, TypeInv, TypeOK
      <4>2. CASE Cancelled(c, p)
        BY <4>2 DEF Cancelled, session, TypeInv, TypeOK
      <4> QED
        BY <2>4, <4>1, <4>2
    <3>2. \A d \in Conns : SidsInUse(d)' \subseteq SidsInUse(d)
      BY <3>1 DEF SidsInUse
    <3> QED
      BY <3>1, <3>2, SidInvShrinks
  <2> QED
    BY <1>4, <2>1, <2>2, <2>3, <2>4, <2>5 DEF AcceptLoop
<1>5. ASSUME NEW c \in Conns, NEW sid \in Sids, Stream(c, sid) PROVE SidInv'
  <2>1. CASE UpstreamEnd(c, sid) \/ SpokeClose(c, sid)
    <3>1. /\ streams' = [streams EXCEPT ![c] = @ \ {sid}]
          /\ UNCHANGED <<cursid, rsid, next_sid>>
          /\ up' = [up EXCEPT ![c] = @ \ {sid}] \/ UNCHANGED up
      BY <2>1 DEF UpstreamEnd, SpokeClose, RemoveStream, listener
    <3>2. \A d \in Conns : streams'[d] \subseteq streams[d] /\ up'[d] \subseteq up[d]
      BY <3>1 DEF TypeInv, TypeOK
    <3>3. \A d \in Conns : SidsInUse(d)' \subseteq SidsInUse(d)
      BY <3>1, <3>2, Zenon DEF SidsInUse
    <3> QED
      BY <3>1, <3>3, SidInvShrinks
  <2>2. CASE RecvData(c, sid)
    <3>1. /\ UNCHANGED <<streams, cursid, up, next_sid>>
          /\ sid \in streams[c]
          /\ \A d \in Conns : rsid'[d] = IF d = c THEN sid ELSE rsid[d]
      BY <2>2 DEF RecvData, Opened, session, listener, TypeInv, TypeOK
    <3>2. \A d \in Conns : SidsInUse(d)' \subseteq SidsInUse(d)
      BY <3>1 DEF SidsInUse
    <3> QED
      BY <3>1, <3>2, SidInvShrinks
  <2> QED
    BY <1>5, <2>1, <2>2 DEF Stream
<1>6. ASSUME NEW c \in Conns, Deliver(c) PROVE SidInv'
  <2>1. /\ UNCHANGED <<cursid, up, next_sid>>
        /\ rsid' = [rsid EXCEPT ![c] = 0]
        /\ streams' = [streams EXCEPT ![c] = @ \ {rsid[c]}] \/ UNCHANGED streams
    BY <1>6 DEF Deliver, Delivered, DeliverFailed, RemoveStream, session, listener
  <2>2. \A d \in Conns : streams'[d] \subseteq streams[d] /\ rsid'[d] \in {rsid[d], 0}
    <3>1. CASE streams' = [streams EXCEPT ![c] = @ \ {rsid[c]}]
      BY <2>1, <3>1 DEF TypeInv, TypeOK
    <3>2. CASE UNCHANGED streams
      BY <2>1, <3>2 DEF TypeInv, TypeOK
    <3> QED
      BY <2>1, <3>1, <3>2
  <2>3. \A d \in Conns : SidsInUse(d)' \subseteq SidsInUse(d)
    BY <2>1, <2>2 DEF SidsInUse
  <2> QED
    BY <2>1, <2>3, SidInvShrinks
<1> QED
  BY <1>1, <1>2, <1>3, <1>4, <1>5, <1>6 DEF Next

(* No two sessions ever use the same virtual stream id.                    *)
THEOREM SidsNotSharedHolds == Spec => []SidsNotShared
<1>1. Init => SidInv
  BY DEF Init, SidInv, SidsNotShared, SidsInUse
<1>2. TypeInv /\ SidInv /\ [Next]_vars => SidInv'
  BY SidInvStep
<1>3. SidInv => SidsNotShared
  BY DEF SidInv
<1> QED
  BY <1>1, <1>2, <1>3, TypeInvariant, PTL DEF Spec
-----------------------------------------------------------------------------
(* The streams_open gauge                                                  *)

(* The sids whose Open frame an accept_loop of the connection is sending,  *)
(* and with them the sids the gauge has to count: the rollback of a failed *)
(* Open takes one off although close() may have dropped the writer before. *)
Opening(c) == {cursid[c][p] : p \in {q \in Ports : lis[c][q] = "opening"}}

Counted(c) == (streams[c] \ Uncounted(c)) \cup Opening(c)

CountedOf(s) == {sid \in Sids : \E c \in Conns : spoke[c] = s /\ sid \in Counted(c)}

GaugeCovers == \A s \in Spokes : streams_open[s] >= Cardinality(CountedOf(s))

(* A sid that is being opened is at one accept_loop, has no upstream task  *)
(* and no delivery yet, so it is taken off the gauge by one rollback only. *)
OpenedOnce ==
  \A c \in Conns, p \in Ports : cursid[c][p] # 0 =>
    /\ cursid[c][p] \notin up[c] \cup {rsid[c]}
    /\ \A q \in Ports : cursid[c][q] = cursid[c][p] => q = p

(* A connection has no listener and no stream before its handshake gave it *)
(* the spoke whose gauge counts them.                                      *)
NothingEarly ==
  \A c \in Conns : pc[c] \in {"idle", "first"} =>
    /\ streams[c] = {}
    /\ \A p \in Ports : lis[c][p] = "none" /\ cursid[c][p] = 0

StreamGaugeInv == GaugeCovers /\ OpenedOnce /\ NothingEarly

(* Sids are finitely many, so the counted ones have a cardinality.         *)
LEMMA CountedFinite ==
  ASSUME NEW s PROVE IsFiniteSet(CountedOf(s)) /\ Cardinality(CountedOf(s)) \in Nat
<1>1. IsFiniteSet(Sids)
  BY FS_Interval DEF Sids
<1>2. CountedOf(s) \subseteq Sids
  BY DEF CountedOf
<1> QED
  BY <1>1, <1>2, FS_Subset, FS_CardinalityType

(* Forgetting sids without touching the gauge keeps it above them.         *)
LEMMA CountedShrinks ==
  ASSUME TypeInv, GaugeCovers, UNCHANGED streams_open,
         \A s \in Spokes : CountedOf(s)' \subseteq CountedOf(s)
  PROVE  GaugeCovers'
<1> SUFFICES ASSUME NEW s \in Spokes
             PROVE  streams_open'[s] >= Cardinality(CountedOf(s)')
  BY DEF GaugeCovers
<1>1. /\ Cardinality(CountedOf(s)') <= Cardinality(CountedOf(s))
      /\ Cardinality(CountedOf(s)') \in Nat
      /\ Cardinality(CountedOf(s)) \in Nat
  BY CountedFinite, FS_Subset, FS_CardinalityType
<1> QED
  BY <1>1 DEF GaugeCovers, TypeInv, TypeOK

(* The gauge goes up with the sid that CountStream counts.                 *)
LEMMA CountedGrows ==
  ASSUME TypeInv, GaugeCovers, NEW r \in Spokes, NEW sid,
         streams_open' = [streams_open EXCEPT ![r] = @ + 1],
         CountedOf(r)' \subseteq CountedOf(r) \cup {sid},
         \A s \in Spokes \ {r} : CountedOf(s)' \subseteq CountedOf(s)
  PROVE  GaugeCovers'
<1> SUFFICES ASSUME NEW s \in Spokes
             PROVE  streams_open'[s] >= Cardinality(CountedOf(s)')
  BY DEF GaugeCovers
<1>1. CASE s = r
  <2>1. /\ IsFiniteSet(CountedOf(r) \cup {sid})
        /\ Cardinality(CountedOf(r) \cup {sid}) <= Cardinality(CountedOf(r)) + 1
        /\ Cardinality(CountedOf(r) \cup {sid}) \in Nat
    <3>1. IsFiniteSet(CountedOf(r)) /\ Cardinality(CountedOf(r)) \in Nat
      BY CountedFinite
    <3>2. /\ IsFiniteSet(CountedOf(r) \cup {sid})
          /\ Cardinality(CountedOf(r) \cup {sid}) =
               IF sid \in CountedOf(r) THEN Cardinality(CountedOf(r))
               ELSE Cardinality(CountedOf(r)) + 1
      BY <3>1, FS_AddElement
    <3> QED
      BY <3>1, <3>2
  <2>2. /\ Cardinality(CountedOf(r)') \in Nat
        /\ Cardinality(CountedOf(r)') <= Cardinality(CountedOf(r) \cup {sid})
    BY <2>1, FS_Subset, FS_CardinalityType
  <2> QED
    BY <1>1, <2>1, <2>2, CountedFinite DEF GaugeCovers, TypeInv, TypeOK
<1>2. CASE s # r
  <2>1. /\ Cardinality(CountedOf(s)') <= Cardinality(CountedOf(s))
        /\ Cardinality(CountedOf(s)') \in Nat
        /\ Cardinality(CountedOf(s)) \in Nat
    BY <1>2, CountedFinite, FS_Subset, FS_CardinalityType
  <2> QED
    BY <1>2, <2>1 DEF GaugeCovers, TypeInv, TypeOK
<1> QED
  BY <1>1, <1>2

(* The gauge goes down only with a sid that is no longer counted.          *)
LEMMA CountedFalls ==
  ASSUME TypeInv, GaugeCovers, NEW r \in Spokes, NEW sid \in CountedOf(r),
         streams_open' = [streams_open EXCEPT ![r] = @ - 1],
         CountedOf(r)' \subseteq CountedOf(r) \ {sid},
         \A s \in Spokes \ {r} : CountedOf(s)' \subseteq CountedOf(s)
  PROVE  GaugeCovers'
<1> SUFFICES ASSUME NEW s \in Spokes
             PROVE  streams_open'[s] >= Cardinality(CountedOf(s)')
  BY DEF GaugeCovers
<1>1. CASE s = r
  <2>1. /\ IsFiniteSet(CountedOf(r) \ {sid})
        /\ Cardinality(CountedOf(r) \ {sid}) = Cardinality(CountedOf(r)) - 1
        /\ Cardinality(CountedOf(r) \ {sid}) \in Nat
    BY CountedFinite, FS_RemoveElement, FS_CardinalityType
  <2>2. /\ Cardinality(CountedOf(r)') \in Nat
        /\ Cardinality(CountedOf(r)') <= Cardinality(CountedOf(r) \ {sid})
    BY <2>1, FS_Subset, FS_CardinalityType
  <2> QED
    BY <1>1, <2>1, <2>2, CountedFinite DEF GaugeCovers, TypeInv, TypeOK
<1>2. CASE s # r
  <2>1. /\ Cardinality(CountedOf(s)') <= Cardinality(CountedOf(s))
        /\ Cardinality(CountedOf(s)') \in Nat
        /\ Cardinality(CountedOf(s)) \in Nat
    BY <1>2, CountedFinite, FS_Subset, FS_CardinalityType
  <2> QED
    BY <1>2, <2>1 DEF GaugeCovers, TypeInv, TypeOK
<1> QED
  BY <1>1, <1>2

(* A step that changes the sids of one connection changes the counted sids *)
(* of its spoke only.                                                      *)
LEMMA CountedElsewhere ==
  ASSUME UNCHANGED spoke, NEW c \in Conns,
         \A d \in Conns \ {c} : Counted(d)' = Counted(d)
  PROVE  /\ \A s \in Spokes \ {spoke[c]} : CountedOf(s)' = CountedOf(s)
         /\ \A sid : Counted(c)' \subseteq Counted(c) \cup {sid}
                     => CountedOf(spoke[c])' \subseteq CountedOf(spoke[c]) \cup {sid}
  BY DEF CountedOf

(* What one connection no longer counts, its spoke no longer counts:       *)
(* another session never holds the same sid.                               *)
LEMMA UncountedBySpoke ==
  ASSUME TypeInv, SidInv, UNCHANGED spoke, NEW c \in Conns, NEW sid \in Sids,
         sid \in Counted(c), Counted(c)' \subseteq Counted(c) \ {sid},
         \A d \in Conns \ {c} : Counted(d)' = Counted(d)
  PROVE  /\ sid \in CountedOf(spoke[c])
         /\ CountedOf(spoke[c])' \subseteq CountedOf(spoke[c]) \ {sid}
<1>1. \A d \in Conns : Counted(d) \subseteq SidsInUse(d)
  BY DEF Counted, Opening, SidsInUse, TypeInv, TypeOK, OpeningHasSid, Sids
<1>2. \A d \in Conns \ {c} : sid \notin Counted(d)
  BY <1>1 DEF SidInv, SidsNotShared
<1> QED
  BY <1>2 DEF CountedOf

(* accept_loop takes a sid nobody has: nothing is counted yet.             *)
LEMMA StreamGaugeAccept ==
  ASSUME TypeInv, SidInv, StreamGaugeInv, NEW c \in Conns, NEW p \in Ports,
         Accept(c, p)
  PROVE  StreamGaugeInv'
<1> USE DEF StreamGaugeInv
<1>n. next_sid \in Nat /\ next_sid + 1 # 0
  BY DEF Accept, TypeInv, TypeOK
<1>o. /\ \A d \in Conns \ {c} : cursid'[d] = cursid[d] /\ lis'[d] = lis[d]
      /\ \A q \in Ports : cursid'[c][q] = IF q = p THEN next_sid + 1 ELSE cursid[c][q]
      /\ \A q \in Ports : lis'[c][q] = IF q = p THEN "insert" ELSE lis[c][q]
      /\ UNCHANGED <<streams, streams_open, spoke, up, rsid>>
      /\ lis[c][p] = "accept"
  BY DEF Accept, TypeInv, TypeOK, session
<1>1. \A d \in Conns : Opening(d)' = Opening(d) /\ Uncounted(d)' = Uncounted(d)
  BY <1>o DEF Opening, Uncounted
<1>2. GaugeCovers'
  <2>1. \A s \in Spokes : CountedOf(s)' \subseteq CountedOf(s)
    BY <1>1, <1>o DEF CountedOf, Counted
  <2> QED
    BY <2>1, <1>o, CountedShrinks
<1>3. OpenedOnce'
  <2>1. next_sid + 1 \notin SidsInUse(c)
    BY <1>n DEF SidInv
  <2>2. /\ next_sid + 1 \notin up[c] \cup {rsid[c]}
        /\ \A q \in Ports : cursid[c][q] # next_sid + 1
    BY <2>1, <1>n DEF SidsInUse
  <2> QED
    BY <1>o, <2>2 DEF OpenedOnce
<1>4. NothingEarly'
  BY DEF NothingEarly, Accept, session, TypeInv, TypeOK
<1> QED
  BY <1>2, <1>3, <1>4

(* The writer enters the map as one that is still to be counted.           *)
LEMMA StreamGaugeInsert ==
  ASSUME TypeInv, StreamGaugeInv, NEW c \in Conns, NEW p \in Ports,
         InsertWriter(c, p)
  PROVE  StreamGaugeInv'
<1> USE DEF StreamGaugeInv
<1>o. /\ \A d \in Conns \ {c} : lis'[d] = lis[d] /\ streams'[d] = streams[d]
      /\ \A q \in Ports : lis'[c][q] = IF q = p THEN "counting" ELSE lis[c][q]
      /\ streams'[c] = streams[c] \cup {cursid[c][p]}
      /\ UNCHANGED <<cursid, streams_open, spoke, up, rsid>>
      /\ lis[c][p] = "insert"
  BY DEF InsertWriter, TypeInv, TypeOK
<1>1. \A d \in Conns : Counted(d)' \subseteq Counted(d)
  BY <1>o DEF Counted, Opening, Uncounted
<1>2. GaugeCovers'
  <2>1. \A s \in Spokes : CountedOf(s)' \subseteq CountedOf(s)
    BY <1>1, <1>o DEF CountedOf
  <2> QED
    BY <2>1, <1>o, CountedShrinks
<1>3. OpenedOnce'
  BY <1>o DEF OpenedOnce
<1>4. NothingEarly'
  BY DEF NothingEarly, InsertWriter, TypeInv, TypeOK
<1> QED
  BY <1>2, <1>3, <1>4

(* The increment counts the one sid of its accept_loop.                    *)
LEMMA StreamGaugeCount ==
  ASSUME TypeInv, StreamGaugeInv, NEW c \in Conns, NEW p \in Ports,
         CountStream(c, p)
  PROVE  StreamGaugeInv'
<1> USE DEF StreamGaugeInv
<1>s. spoke[c] \in Spokes /\ UNCHANGED spoke
  BY DEF CountStream, TypeInv, Authenticated
<1>o. /\ \A d \in Conns \ {c} : lis'[d] = lis[d]
      /\ \A q \in Ports : lis'[c][q] = IF q = p THEN "opening" ELSE lis[c][q]
      /\ UNCHANGED <<streams, cursid, up, rsid>>
      /\ lis[c][p] = "counting"
  BY DEF CountStream, session, TypeInv, TypeOK
<1>1. /\ \A d \in Conns \ {c} : Counted(d)' = Counted(d)
      /\ Counted(c)' \subseteq Counted(c) \cup {cursid[c][p]}
  <2>1. Uncounted(c) \subseteq Uncounted(c)' \cup {cursid[c][p]}
    BY <1>o DEF Uncounted
  <2>2. Opening(c)' \subseteq Opening(c) \cup {cursid[c][p]}
    BY <1>o DEF Opening
  <2>3. \A d \in Conns \ {c} : Opening(d)' = Opening(d) /\ Uncounted(d)' = Uncounted(d)
    BY <1>o DEF Opening, Uncounted
  <2> QED
    BY <1>o, <2>1, <2>2, <2>3 DEF Counted
<1>2. GaugeCovers'
  <2>1. CountedOf(spoke[c])' \subseteq CountedOf(spoke[c]) \cup {cursid[c][p]}
    BY <1>1, <1>s, CountedElsewhere
  <2>2. \A s \in Spokes \ {spoke[c]} : CountedOf(s)' \subseteq CountedOf(s)
    BY <1>1, <1>s, CountedElsewhere
  <2>3. streams_open' = [streams_open EXCEPT ![spoke[c]] = @ + 1]
    BY DEF CountStream
  <2> QED
    BY <2>1, <2>2, <2>3, <1>s, CountedGrows
<1>3. OpenedOnce'
  BY <1>o DEF OpenedOnce
<1>4. NothingEarly'
  BY DEF NothingEarly, CountStream, session, TypeInv, TypeOK
<1> QED
  BY <1>2, <1>3, <1>4

(* The rollback of a failed Open takes off the sid it had counted, whether *)
(* or not close() dropped the writer in between.                           *)
LEMMA StreamGaugeRollback ==
  ASSUME TypeInv, SidInv, StreamGaugeInv, NEW c \in Conns, NEW p \in Ports,
         OpenFailed(c, p)
  PROVE  StreamGaugeInv'
<1> USE DEF StreamGaugeInv
<1>s. spoke[c] \in Spokes /\ UNCHANGED spoke
  BY DEF OpenFailed, TypeInv, Authenticated
<1>n. cursid[c][p] \in Sids /\ cursid[c][p] # 0
  BY DEF OpenFailed, TypeInv, TypeOK, OpeningHasSid
<1>o. /\ \A d \in Conns \ {c} : /\ cursid'[d] = cursid[d] /\ streams'[d] = streams[d]
                                /\ lis'[d] = lis[d]
      /\ \A q \in Ports : cursid'[c][q] = IF q = p THEN 0 ELSE cursid[c][q]
      /\ \A q \in Ports : lis'[c][q] = IF q = p THEN "check" ELSE lis[c][q]
      /\ streams'[c] = streams[c] \ {cursid[c][p]}
      /\ lis[c][p] = "opening"
  BY DEF OpenFailed, TypeInv, TypeOK
<1>1. /\ \A d \in Conns \ {c} : Counted(d)' = Counted(d)
      /\ cursid[c][p] \in Counted(c)
      /\ Counted(c)' \subseteq Counted(c) \ {cursid[c][p]}
  <2>1. \A q \in Ports \ {p} : cursid[c][q] # cursid[c][p]
    BY <1>n DEF OpenedOnce
  <2>2. /\ Opening(c)' \subseteq Opening(c) \ {cursid[c][p]}
        /\ cursid[c][p] \in Opening(c)
    BY <1>o, <2>1 DEF Opening
  <2>3. Uncounted(c)' = Uncounted(c)
    BY <1>o DEF Uncounted
  <2>4. \A d \in Conns \ {c} : Opening(d)' = Opening(d) /\ Uncounted(d)' = Uncounted(d)
    BY <1>o DEF Opening, Uncounted
  <2> QED
    BY <1>o, <2>2, <2>3, <2>4 DEF Counted
<1>2. GaugeCovers'
  <2>1. /\ cursid[c][p] \in CountedOf(spoke[c])
        /\ CountedOf(spoke[c])' \subseteq CountedOf(spoke[c]) \ {cursid[c][p]}
    BY <1>1, <1>s, <1>n, UncountedBySpoke
  <2>2. \A s \in Spokes \ {spoke[c]} : CountedOf(s)' \subseteq CountedOf(s)
    BY <1>1, <1>s, CountedElsewhere
  <2> QED
    BY <2>1, <2>2, <1>s, CountedFalls DEF OpenFailed
<1>3. OpenedOnce'
  BY <1>o DEF OpenedOnce, OpenFailed
<1>4. NothingEarly'
  BY DEF NothingEarly, OpenFailed, TypeInv, TypeOK
<1> QED
  BY <1>2, <1>3, <1>4

(* streams.remove takes one off the gauge exactly if the writer was still  *)
(* there, and the sid is not one that a rollback will take off as well.    *)
LEMMA StreamGaugeRemove ==
  ASSUME TypeInv, SidInv, StreamGaugeInv, NEW c \in Conns, NEW sid \in Sids \cup {0},
         spoke[c] \in Spokes, RemoveStream(c, sid),
         sid = 0 \/ \A p \in Ports : cursid[c][p] # sid,
         UNCHANGED <<spoke, lis, cursid>>
  PROVE  GaugeCovers'
<1> USE DEF StreamGaugeInv
<1>n. sid \in streams[c] => sid \in Counted(c) /\ sid \in Sids
  BY DEF Counted, Uncounted, TypeInv, TypeOK, Sids
<1>o. /\ \A d \in Conns \ {c} : streams'[d] = streams[d]
      /\ streams'[c] = streams[c] \ {sid}
  BY DEF RemoveStream, TypeInv, TypeOK
<1>m. sid \notin Opening(c)
  BY DEF Opening, TypeInv, OpeningHasSid
<1>1. /\ \A d \in Conns \ {c} : Counted(d)' = Counted(d)
      /\ Counted(c)' = Counted(c) \ {sid}
  <2>1. \A d \in Conns : Opening(d)' = Opening(d) /\ Uncounted(d)' = Uncounted(d)
    BY DEF Opening, Uncounted
  <2> QED
    BY <1>o, <1>m, <2>1 DEF Counted
<1>2. CASE sid \in streams[c]
  <2>1. /\ sid \in CountedOf(spoke[c])
        /\ CountedOf(spoke[c])' \subseteq CountedOf(spoke[c]) \ {sid}
    BY <1>2, <1>n, <1>1, UncountedBySpoke
  <2>2. \A s \in Spokes \ {spoke[c]} : CountedOf(s)' \subseteq CountedOf(s)
    BY <1>1, CountedElsewhere
  <2>3. streams_open' = [streams_open EXCEPT ![spoke[c]] = @ - 1]
    BY <1>2 DEF RemoveStream
  <2> QED
    BY <2>1, <2>2, <2>3, CountedFalls
<1>3. CASE sid \notin streams[c]
  <2>1. UNCHANGED streams_open
    BY <1>3 DEF RemoveStream, TypeInv, TypeOK
  <2>2. \A s \in Spokes : CountedOf(s)' \subseteq CountedOf(s)
    BY <1>1 DEF CountedOf
  <2> QED
    BY <2>1, <2>2, CountedShrinks
<1> QED
  BY <1>2, <1>3

(* The end of an upstream task, a Close frame and the start of a delivery. *)
LEMMA StreamGaugeStream ==
  ASSUME TypeInv, SidInv, StreamGaugeInv, NEW c \in Conns, NEW sid \in Sids,
         Stream(c, sid)
  PROVE  StreamGaugeInv'
<1> USE DEF StreamGaugeInv
<1>s. spoke[c] \in Spokes /\ UNCHANGED <<spoke, lis, cursid>>
  BY DEF Stream, UpstreamEnd, SpokeClose, RecvData, TypeInv, Authenticated, listener
<1>n. \A p \in Ports : cursid[c][p] # sid
  BY DEF Stream, UpstreamEnd, SpokeClose, RecvData, Opened, OpenedOnce, Sids
<1>1. GaugeCovers'
  <2>1. CASE UpstreamEnd(c, sid) \/ SpokeClose(c, sid)
    BY <2>1, <1>s, <1>n, StreamGaugeRemove DEF UpstreamEnd, SpokeClose
  <2>2. CASE RecvData(c, sid)
    <3>1. UNCHANGED <<streams, streams_open>>
      BY <2>2 DEF RecvData, session
    <3>2. \A s \in Spokes : CountedOf(s)' \subseteq CountedOf(s)
      BY <3>1, <1>s DEF CountedOf, Counted, Opening, Uncounted
    <3> QED
      BY <3>1, <3>2, CountedShrinks
  <2> QED
    BY <2>1, <2>2 DEF Stream
<1>2. OpenedOnce'
  <2>1. CASE UpstreamEnd(c, sid) \/ SpokeClose(c, sid)
    <3>1. UNCHANGED rsid
      BY <2>1 DEF UpstreamEnd, SpokeClose
    <3>2. up' = [up EXCEPT ![c] = @ \ {sid}] \/ UNCHANGED up
      BY <2>1 DEF UpstreamEnd, SpokeClose
    <3>3. \A d \in Conns : up'[d] \subseteq up[d]
      <4>1. CASE up' = [up EXCEPT ![c] = @ \ {sid}]
        BY <4>1 DEF TypeInv, TypeOK
      <4> QED
        BY <3>2, <4>1
    <3> QED
      BY <3>1, <3>3, <1>s DEF OpenedOnce
  <2>2. CASE RecvData(c, sid)
    <3>1. /\ UNCHANGED up
          /\ \A d \in Conns : rsid'[d] = IF d = c THEN sid ELSE rsid[d]
      BY <2>2 DEF RecvData, TypeInv, TypeOK
    <3> QED
      BY <3>1, <1>s, <1>n DEF OpenedOnce
  <2> QED
    BY <2>1, <2>2 DEF Stream
<1>3. NothingEarly'
  <2>1. \A d \in Conns : /\ streams'[d] \subseteq streams[d]
                         /\ pc'[d] \in {"idle", "first"} => pc'[d] = pc[d]
    BY DEF Stream, UpstreamEnd, SpokeClose, RecvData, RemoveStream, session,
           TypeInv, TypeOK
  <2> QED
    BY <2>1, <1>s DEF NothingEarly
<1> QED
  BY <1>1, <1>2, <1>3

(* The end of a delivery: the sid was opened when the delivery began, so   *)
(* no accept_loop is opening it.                                           *)
LEMMA StreamGaugeDeliver ==
  ASSUME TypeInv, SidInv, StreamGaugeInv, NEW c \in Conns, Deliver(c)
  PROVE  StreamGaugeInv'
<1> USE DEF StreamGaugeInv
<1>s. spoke[c] \in Spokes /\ UNCHANGED <<spoke, lis, cursid, up>>
  BY DEF Deliver, Delivered, DeliverFailed, TypeInv, Authenticated, listener
<1>n. /\ rsid[c] \in Sids \cup {0}
      /\ rsid[c] = 0 \/ \A p \in Ports : cursid[c][p] # rsid[c]
  BY DEF OpenedOnce, TypeInv, TypeOK
<1>1. GaugeCovers'
  <2>1. CASE Delivered(c)
    <3>1. UNCHANGED <<streams, streams_open>>
      BY <2>1 DEF Delivered, session
    <3>2. \A s \in Spokes : CountedOf(s)' \subseteq CountedOf(s)
      BY <3>1, <1>s DEF CountedOf, Counted, Opening, Uncounted
    <3> QED
      BY <3>1, <3>2, CountedShrinks
  <2>2. CASE DeliverFailed(c)
    BY <2>2, <1>s, <1>n, StreamGaugeRemove DEF DeliverFailed
  <2> QED
    BY <2>1, <2>2 DEF Deliver
<1>2. OpenedOnce'
  <2>1. \A d \in Conns : rsid'[d] = IF d = c THEN 0 ELSE rsid[d]
    BY DEF Deliver, Delivered, DeliverFailed, TypeInv, TypeOK
  <2> QED
    BY <2>1, <1>s DEF OpenedOnce
<1>3. NothingEarly'
  <2>1. \A d \in Conns : /\ streams'[d] \subseteq streams[d]
                         /\ pc'[d] \in {"idle", "first"} => pc'[d] = pc[d]
    BY DEF Deliver, Delivered, DeliverFailed, RemoveStream, session, TypeInv, TypeOK
  <2> QED
    BY <2>1, <1>s DEF NothingEarly
<1> QED
  BY <1>1, <1>2, <1>3

(* A step that forgets sids, and gives no connection a spoke while it has  *)
(* any, keeps the gauge.                                                   *)
LEMMA StreamGaugeForgets ==
  ASSUME TypeInv, StreamGaugeInv, UNCHANGED <<streams_open, cursid, up, rsid>>,
         \A d \in Conns :
           /\ streams'[d] \subseteq streams[d]
           /\ Opening(d)' = Opening(d) /\ Uncounted(d)' = Uncounted(d)
           /\ \/ spoke'[d] = spoke[d]
              \/ pc[d] = "first"
  PROVE  GaugeCovers' /\ OpenedOnce'
<1> USE DEF StreamGaugeInv
<1>1. \A d \in Conns : Counted(d)' \subseteq Counted(d)
  BY DEF Counted
<1>2. \A d \in Conns : pc[d] = "first" => Counted(d) = {}
  BY DEF NothingEarly, Counted, Opening
<1>3. \A s \in Spokes : CountedOf(s)' \subseteq CountedOf(s)
  BY <1>1, <1>2 DEF CountedOf
<1>4. OpenedOnce'
  BY DEF OpenedOnce
<1> QED
  BY <1>3, <1>4, CountedShrinks

(* Every step of tunnel-server keeps the gauge above what it counts.       *)
LEMMA StreamGaugeStep ==
  TypeInv /\ SidInv /\ StreamGaugeInv /\ [Next]_vars => StreamGaugeInv'
<1> SUFFICES ASSUME TypeInv, SidInv, StreamGaugeInv, [Next]_vars
             PROVE  StreamGaugeInv'
  OBVIOUS
<1> USE DEF StreamGaugeInv
<1>u. ASSUME UNCHANGED <<lis, cursid>>
      PROVE  \A d \in Conns : Opening(d)' = Opening(d) /\ Uncounted(d)' = Uncounted(d)
  BY <1>u DEF Opening, Uncounted
<1>1. CASE UNCHANGED vars
  BY <1>1, <1>u, StreamGaugeForgets DEF vars, session, listener, NothingEarly
<1>2. ASSUME NEW c \in Conns, Transport(c) PROVE StreamGaugeInv'
  <2>1. UNCHANGED <<streams, lis, cursid, spoke, streams_open, up, rsid>>
    BY <1>2 DEF Transport, Connect, ClientGone, session, listener
  <2>2. NothingEarly'
    BY <1>2, <2>1 DEF NothingEarly, Transport, Connect, ClientGone, TypeInv, TypeOK
  <2> QED
    BY <2>1, <2>2, <1>u, StreamGaugeForgets
<1>3. ASSUME NEW c \in Conns, HandleConnection(c) PROVE StreamGaugeInv'
  <2>d. \A d \in Conns : streams'[d] \subseteq streams[d]
    BY <1>3 DEF HandleConnection, Handshake, HandshakeFail, Register, FindOld,
                Displace, Replace, CountConnected, Bind, BindFail, BindDone,
                RecvEnd, Close, Cleanup, Abort, CloseSession, session, TypeInv, TypeOK
  <2>1. NothingEarly'
    <3>1. \A d \in Conns : pc'[d] \in {"idle", "first"} => pc[d] = pc'[d] /\ d # c
      BY <1>3 DEF HandleConnection, Handshake, HandshakeFail, Register, FindOld,
                  Displace, Replace, InsertSession, CountConnected, Bind, BindFail,
                  BindDone, RecvEnd, Close, Cleanup, Abort, TypeInv, TypeOK
    <3>2. \A d \in Conns \ {c} : lis'[d] = lis[d] /\ cursid'[d] = cursid[d]
      BY <1>3 DEF HandleConnection, Handshake, HandshakeFail, Register, FindOld,
                  Displace, Replace, CountConnected, Bind, BindFail, BindDone,
                  RecvEnd, Close, Cleanup, Abort, listener, TypeInv, TypeOK
    <3> QED
      BY <2>d, <3>1, <3>2 DEF NothingEarly
  <2>2. CASE Bind(c)
    <3>1. /\ UNCHANGED <<streams, cursid, spoke, streams_open, up, rsid>>
          /\ \A d \in Conns, q \in Ports :
               lis'[d][q] # lis[d][q] => lis[d][q] = "none" /\ lis'[d][q] = "check"
      BY <2>2 DEF Bind, PortFree, MorePorts, NextPort, session, TypeInv, TypeOK
    <3>2. \A d \in Conns : Opening(d)' = Opening(d) /\ Uncounted(d)' = Uncounted(d)
      BY <3>1 DEF Opening, Uncounted
    <3> QED
      BY <2>1, <3>1, <3>2, StreamGaugeForgets
  <2>3. CASE ~Bind(c)
    <3>1. /\ UNCHANGED <<lis, cursid, streams_open, up, rsid>>
          /\ \A d \in Conns : spoke'[d] = spoke[d] \/ pc[d] = "first"
      BY <1>3, <2>3 DEF HandleConnection, Handshake, HandshakeFail, Register,
                  FindOld, Displace, Replace, CountConnected, BindFail, BindDone,
                  RecvEnd, Close, Cleanup, Abort, listener, TypeInv, TypeOK
    <3> QED
      BY <2>d, <2>1, <3>1, <1>u, StreamGaugeForgets
  <2> QED
    BY <2>2, <2>3
<1>4. ASSUME NEW c \in Conns, NEW p \in Ports, AcceptLoop(c, p)
      PROVE  StreamGaugeInv'
  <2>1. CASE Accept(c, p)
    BY <2>1, StreamGaugeAccept
  <2>2. CASE InsertWriter(c, p)
    BY <2>2, StreamGaugeInsert
  <2>3. CASE CountStream(c, p)
    BY <2>3, StreamGaugeCount
  <2>4. CASE OpenFailed(c, p)
    BY <2>4, StreamGaugeRollback
  <2>5. CASE \/ ListenerCheck(c, p) \/ AcceptError(c, p)
             \/ OpenSent(c, p) \/ Cancelled(c, p)
    <3>o. /\ UNCHANGED <<pc, streams, spoke, streams_open, rsid>>
          /\ \A d \in Conns \ {c} : /\ cursid'[d] = cursid[d] /\ up'[d] = up[d]
                                    /\ lis'[d] = lis[d]
          /\ \A q \in Ports : cursid'[c][q] \in {0, cursid[c][q]}
          /\ \A q \in Ports \ {p} : lis'[c][q] = lis[c][q] /\ cursid'[c][q] = cursid[c][q]
          /\ lis[c][p] \in {"check", "accept", "insert", "opening"}
          /\ lis'[c][p] \in {"none", "accept", "check"}
          /\ \/ up'[c] = up[c]
             \/ up'[c] = up[c] \cup {cursid[c][p]} /\ cursid'[c][p] = 0
      BY <2>5 DEF ListenerCheck, AcceptError, OpenSent, Cancelled, session,
                  TypeInv, TypeOK
    <3>1. \A d \in Conns : Opening(d)' \subseteq Opening(d) /\ Uncounted(d)' = Uncounted(d)
      BY <3>o DEF Opening, Uncounted
    <3>2. \A s \in Spokes : CountedOf(s)' \subseteq CountedOf(s)
      BY <3>1, <3>o DEF CountedOf, Counted
    <3>3. GaugeCovers'
      BY <3>2, <3>o, CountedShrinks
    <3>4. OpenedOnce'
      BY <3>o DEF OpenedOnce
    <3>5. NothingEarly'
      <4>1. pc[c] \notin {"idle", "first"}
        BY <3>o DEF NothingEarly
      <4> QED
        BY <3>o, <4>1 DEF NothingEarly
    <3> QED
      BY <3>3, <3>4, <3>5
  <2> QED
    BY <1>4, <2>1, <2>2, <2>3, <2>4, <2>5 DEF AcceptLoop
<1>5. ASSUME NEW c \in Conns, NEW sid \in Sids, Stream(c, sid)
      PROVE  StreamGaugeInv'
  BY <1>5, StreamGaugeStream
<1>6. ASSUME NEW c \in Conns, Deliver(c) PROVE StreamGaugeInv'
  BY <1>6, StreamGaugeDeliver
<1> QED
  BY <1>1, <1>2, <1>3, <1>4, <1>5, <1>6 DEF Next

(* The streams_open gauge of a spoke covers the writers its sessions hold, *)
(* but for those about to be counted, although a failed Open decrements it *)
(* without asking whether close() had dropped the writer already.          *)
THEOREM StreamsOpenCoversHolds == Spec => []StreamsOpenCovers
<1>1. Init => StreamGaugeInv
  <2> SUFFICES ASSUME Init PROVE StreamGaugeInv
    OBVIOUS
  <2>1. \A s \in Spokes : CountedOf(s) = {}
    BY DEF Init, CountedOf, Counted, Opening
  <2>2. \A s \in Spokes : Cardinality(CountedOf(s)) = 0
    BY <2>1, FS_EmptySet
  <2>3. \A s \in Spokes : streams_open[s] = 0
    BY DEF Init
  <2>4. GaugeCovers
    BY <2>2, <2>3 DEF GaugeCovers
  <2> QED
    BY <2>4 DEF Init, StreamGaugeInv, OpenedOnce, NothingEarly
<1>2. TypeInv /\ SidInv /\ StreamGaugeInv /\ [Next]_vars => StreamGaugeInv'
  BY StreamGaugeStep
<1>3. TypeInv /\ StreamGaugeInv => StreamsOpenCovers
  <2> SUFFICES ASSUME TypeInv, StreamGaugeInv, NEW s \in Spokes
               PROVE  streams_open[s] >= Cardinality(StreamsOf(s))
    BY DEF StreamsOpenCovers
  <2>1. StreamsOf(s) \subseteq CountedOf(s)
    BY DEF StreamsOf, CountedOf, Counted, TypeInv, TypeOK
  <2>2. /\ Cardinality(StreamsOf(s)) \in Nat
        /\ Cardinality(StreamsOf(s)) <= Cardinality(CountedOf(s))
        /\ Cardinality(CountedOf(s)) \in Nat
    BY <2>1, CountedFinite, FS_Subset, FS_CardinalityType
  <2> QED
    BY <2>2 DEF StreamGaugeInv, GaugeCovers, TypeInv, TypeOK
<1>4. Init => SidInv
  BY DEF Init, SidInv, SidsNotShared, SidsInUse
<1>5. TypeInv /\ SidInv /\ [Next]_vars => SidInv'
  BY SidInvStep
<1> QED
  BY <1>1, <1>2, <1>3, <1>4, <1>5, TypeInvariant, PTL DEF Spec
=============================================================================
