--------------------------- MODULE TunnelSessions ---------------------------
(***************************************************************************)
(* Hub side of the reverse tunnel: the life of a gRPC connection inside    *)
(* tunnel-server, from Connect to the abort of its listeners.              *)
(*                                                                         *)
(* A connection c is one call of `connect`.  The task handle_connection    *)
(* is a process with program counter pc[c]; each TcpListener it spawned is *)
(* an accept_loop process with state lis[c][p]; each accepted TCP          *)
(* connection leaves an upstream task, a member of up[c].  Tasks run on    *)
(* several threads: an await is a place where others run, and so is the    *)
(* gap between the release of a mutex and the next shared access, a gauge. *)
(*                                                                         *)
(* Abstracted: frame contents (module VirtualStream), HTTP requests        *)
(* (module HttpProxy), logs, byte counters and the failure labels.         *)
(***************************************************************************)
EXTENDS Integers, Sequences, FiniteSets

CONSTANTS
  Conns,      \* gRPC connections, each used once
  Spokes,     \* the keys of cfg.spokes
  Ports,      \* TCP ports of the hub pod
  PortsOf,    \* cfg.spokes[s].ports: the ports of a spoke, in order
  NoConn,     \* no entry in the `sessions` map
  NoSpoke,    \* a connection that has not authenticated
  MaxSid      \* bound: TCP connections accepted in a behaviour

ASSUME ConnsAssumption == NoConn \notin Conns /\ IsFiniteSet(Conns)
ASSUME SpokesAssumption == NoSpoke \notin Spokes /\ IsFiniteSet(Spokes)
ASSUME PortsAssumption == PortsOf \in [Spokes -> Seq(Ports)]
ASSUME MaxSidAssumption == MaxSid \in Nat

VARIABLES
  pc,           \* handle_connection's program counter
  spoke,        \* hs.spoke_id after a successful handshake
  old,          \* old_clone: the session this connection is displacing
  bound,        \* number of ports of sc.ports already bound
  alive,        \* the gRPC transport of the connection is up
  closed,       \* SpokeSession.closed
  streams,      \* SpokeSession.streams: the sids that have a writer
  registered,   \* TunnelSvc.sessions
  lis,          \* state of the accept_loop on a port
  cursid,       \* the sid an accept_loop is opening (0: none)
  rsid,         \* the sid whose writer recv_loop awaits (0: none)
  up,           \* sids whose upstream task still runs
  next_sid,     \* TunnelSvc.next_sid
  connected,    \* gauge Metrics.connected
  streams_open  \* gauge Metrics.streams_open, by spoke label

session == <<closed, streams>>
listener == <<lis, cursid>>
vars == <<pc, spoke, old, bound, alive, session, registered, listener, rsid,
          up, next_sid, connected, streams_open>>

(* "count": in the map, not yet in the gauge; "deliver": recv_loop awaits  *)
(* room in a writer channel; "aborted": returned after it had aborted its  *)
(* listeners, "done": returned on an error, without doing so.              *)
PCs == {"idle", "first", "register", "displace", "replace", "count", "bind",
        "recv", "deliver", "close", "cleanup", "abort", "aborted",
        "failclose", "failcleanup", "done"}

Returned == {"done", "aborted"}

(* "check": about to read session.closed; "accept": awaiting ln.accept();  *)
(* "insert": has a sid, awaiting the lock on streams; "counting": writer   *)
(* in the map, not yet in the gauge; "opening": awaiting the send of Open. *)
ListenerStates == {"none", "check", "accept", "insert", "counting", "opening"}

Sids == 1..MaxSid

TypeOK ==
  /\ pc \in [Conns -> PCs]
  /\ spoke \in [Conns -> Spokes \cup {NoSpoke}]
  /\ old \in [Conns -> Conns \cup {NoConn}]
  /\ bound \in [Conns -> Nat]
  /\ alive \in [Conns -> BOOLEAN]
  /\ closed \in [Conns -> BOOLEAN]
  /\ streams \in [Conns -> SUBSET Sids]
  /\ registered \in [Spokes -> Conns \cup {NoConn}]
  /\ lis \in [Conns -> [Ports -> ListenerStates]]
  /\ cursid \in [Conns -> [Ports -> Sids \cup {0}]]
  /\ rsid \in [Conns -> Sids \cup {0}]
  /\ up \in [Conns -> SUBSET Sids]
  /\ next_sid \in 0..MaxSid
  /\ connected \in Int
  /\ streams_open \in [Spokes -> Int]

Init ==
  /\ pc = [c \in Conns |-> "idle"]
  /\ spoke = [c \in Conns |-> NoSpoke]
  /\ old = [c \in Conns |-> NoConn]
  /\ bound = [c \in Conns |-> 0]
  /\ alive = [c \in Conns |-> FALSE]
  /\ closed = [c \in Conns |-> FALSE]
  /\ streams = [c \in Conns |-> {}]
  /\ registered = [s \in Spokes |-> NoConn]
  /\ lis = [c \in Conns |-> [p \in Ports |-> "none"]]
  /\ cursid = [c \in Conns |-> [p \in Ports |-> 0]]
  /\ rsid = [c \in Conns |-> 0]
  /\ up = [c \in Conns |-> {}]
  /\ next_sid = 0
  /\ connected = 0
  /\ streams_open = [s \in Spokes |-> 0]

-----------------------------------------------------------------------------
(* connect and the handshake                                               *)

(* connect: the Challenge is queued and handle_connection is spawned.      *)
Connect(c) ==
  /\ pc[c] = "idle"
  /\ pc' = [pc EXCEPT ![c] = "first"]
  /\ alive' = [alive EXCEPT ![c] = TRUE]
  /\ UNCHANGED <<spoke, old, bound, session, registered, listener, rsid, up,
                 next_sid, connected, streams_open>>

(* The first frame is a HandshakeResponse with a known id and its token.   *)
Handshake(c, s) ==
  /\ pc[c] = "first" /\ alive[c]
  /\ spoke' = [spoke EXCEPT ![c] = s]
  /\ pc' = [pc EXCEPT ![c] = "register"]
  /\ UNCHANGED <<old, bound, alive, session, registered, listener, rsid, up,
                 next_sid, connected, streams_open>>

(* recv_first, no_handshake, unknown_spoke and bad_token: nothing was      *)
(* registered, the task returns and only handshake_fail counts it.         *)
HandshakeFail(c) ==
  /\ pc[c] = "first"
  /\ pc' = [pc EXCEPT ![c] = "done"]
  /\ UNCHANGED <<spoke, old, bound, alive, session, registered, listener,
                 rsid, up, next_sid, connected, streams_open>>

-----------------------------------------------------------------------------
(* Registration                                                            *)

InsertSession(c) ==
  /\ registered' = [registered EXCEPT ![spoke[c]] = c]
  /\ pc' = [pc EXCEPT ![c] = "count"]

(* The spoke has no entry in the map: insert under the lock.               *)
Register(c) ==
  /\ pc[c] = "register"
  /\ registered[spoke[c]] = NoConn
  /\ InsertSession(c)
  /\ UNCHANGED <<spoke, old, bound, alive, session, listener, rsid, up,
                 next_sid, connected, streams_open>>

(* The spoke has an entry: clone it and drop the lock before closing it.   *)
FindOld(c) ==
  /\ pc[c] = "register"
  /\ registered[spoke[c]] # NoConn
  /\ old' = [old EXCEPT ![c] = registered[spoke[c]]]
  /\ pc' = [pc EXCEPT ![c] = "displace"]
  /\ UNCHANGED <<spoke, bound, alive, session, registered, listener, rsid, up,
                 next_sid, connected, streams_open>>

(* Mutant: close() drops the writers and forgets the flag.                 *)
CloseSession_NoFlag(c) ==
  /\ streams' = [streams EXCEPT ![c] = {}]
  /\ UNCHANGED closed

(* SpokeSession::close.  The gauge of the writers it drops is not touched. *)
CloseSession(c) ==
  /\ closed' = [closed EXCEPT ![c] = TRUE]
  /\ streams' = [streams EXCEPT ![c] = {}]

(* Mutant: wait for the old connection to finish before going on.          *)
Displace_Waits(c) ==
  /\ pc[c] = "displace"
  /\ pc[old[c]] = "done"
  /\ CloseSession(old[c])
  /\ pc' = [pc EXCEPT ![c] = "replace"]
  /\ UNCHANGED <<spoke, old, bound, alive, registered, listener, rsid, up,
                 next_sid, connected, streams_open>>

Displace(c) ==
  /\ pc[c] = "displace"
  /\ CloseSession(old[c])
  /\ pc' = [pc EXCEPT ![c] = "replace"]
  /\ UNCHANGED <<spoke, old, bound, alive, registered, listener, rsid, up,
                 next_sid, connected, streams_open>>

(* Mutant: the displaced session keeps its entry.                          *)
Replace_KeepsOld(c) ==
  /\ pc[c] = "replace"
  /\ pc' = [pc EXCEPT ![c] = "count"]
  /\ UNCHANGED <<spoke, old, bound, alive, session, registered, listener,
                 rsid, up, next_sid, connected, streams_open>>

(* Mutant: a replacing session takes over the count of the old one.        *)
Replace_NotCounted(c) ==
  /\ pc[c] = "replace"
  /\ registered' = [registered EXCEPT ![spoke[c]] = c]
  /\ pc' = [pc EXCEPT ![c] = "bind"]
  /\ UNCHANGED <<spoke, old, bound, alive, session, listener, rsid, up,
                 next_sid, connected, streams_open>>

(* The second lock: insert over whatever the map holds by now.             *)
Replace(c) ==
  /\ pc[c] = "replace"
  /\ InsertSession(c)
  /\ UNCHANGED <<spoke, old, bound, alive, session, listener, rsid, up,
                 next_sid, connected, streams_open>>

(* metrics.connected.inc(), after the lock was released: by now another    *)
(* connection may have displaced the session or removed its entry.         *)
CountConnected(c) ==
  /\ pc[c] = "count"
  /\ connected' = connected + 1
  /\ pc' = [pc EXCEPT ![c] = "bind"]
  /\ UNCHANGED <<spoke, old, bound, alive, session, registered, listener,
                 rsid, up, next_sid, streams_open>>

-----------------------------------------------------------------------------
(* Listeners of the session                                                *)

NextPort(c) == PortsOf[spoke[c]][bound[c] + 1]
MorePorts(c) == bound[c] < Len(PortsOf[spoke[c]])
PortFree(p) == \A d \in Conns : lis[d][p] = "none"

(* TcpListener::bind succeeds and its accept_loop is spawned.              *)
Bind(c) ==
  /\ pc[c] = "bind" /\ MorePorts(c)
  /\ PortFree(NextPort(c))
  /\ lis' = [lis EXCEPT ![c][NextPort(c)] = "check"]
  /\ bound' = [bound EXCEPT ![c] = @ + 1]
  /\ UNCHANGED <<pc, spoke, old, alive, session, registered, cursid, rsid, up,
                 next_sid, connected, streams_open>>

(* EADDRINUSE: another listener, of this or another session, holds it.     *)
BindFail(c) ==
  /\ pc[c] = "bind" /\ MorePorts(c)
  /\ ~PortFree(NextPort(c))
  /\ pc' = [pc EXCEPT ![c] = "failclose"]
  /\ UNCHANGED <<spoke, old, bound, alive, session, registered, listener,
                 rsid, up, next_sid, connected, streams_open>>

BindDone(c) ==
  /\ pc[c] = "bind" /\ ~MorePorts(c)
  /\ pc' = [pc EXCEPT ![c] = "recv"]
  /\ UNCHANGED <<spoke, old, bound, alive, session, registered, listener,
                 rsid, up, next_sid, connected, streams_open>>

-----------------------------------------------------------------------------
(* The end of a connection                                                 *)

(* recv_loop returns when the client stream ends or fails.  While it waits *)
(* in "deliver" it does not poll the client stream and notices nothing.    *)
RecvEnd(c) ==
  /\ pc[c] = "recv" /\ ~alive[c]
  /\ pc' = [pc EXCEPT ![c] = "close"]
  /\ UNCHANGED <<spoke, old, bound, alive, session, registered, listener,
                 rsid, up, next_sid, connected, streams_open>>

(* session.close() after recv_loop, or after a bind error.                 *)
Close(c) ==
  /\ pc[c] \in {"close", "failclose"}
  /\ CloseSession(c)
  /\ pc' = [pc EXCEPT ![c] = IF @ = "close" THEN "cleanup" ELSE "failcleanup"]
  /\ UNCHANGED <<spoke, old, bound, alive, registered, listener, rsid, up,
                 next_sid, connected, streams_open>>

(* cleanup_session: the entry is removed when the session in it is closed, *)
(* whichever session that is.                                              *)
RemoveEntry(s) ==
  LET cur == registered[s] IN
  IF cur # NoConn /\ closed[cur]
  THEN /\ registered' = [registered EXCEPT ![s] = NoConn]
       /\ connected' = connected - 1
  ELSE UNCHANGED <<registered, connected>>

(* After a bind error the function returns here: the listeners it had      *)
(* already spawned are not aborted.                                        *)
Cleanup(c) ==
  /\ pc[c] \in {"cleanup", "failcleanup"}
  /\ RemoveEntry(spoke[c])
  /\ pc' = [pc EXCEPT ![c] = IF @ = "cleanup" THEN "abort" ELSE "done"]
  /\ UNCHANGED <<spoke, old, bound, alive, session, listener, rsid, up,
                 next_sid, streams_open>>

(* Mutant: trust the accept_loops to see the flag, as after a bind error.  *)
Abort_Trusting(c) ==
  /\ pc[c] = "abort"
  /\ pc' = [pc EXCEPT ![c] = "done"]
  /\ UNCHANGED <<spoke, old, bound, alive, session, registered, listener,
                 rsid, up, next_sid, connected, streams_open>>

(* JoinHandle::abort on every accept_loop.  It takes effect at an await of *)
(* the loop (Cancelled), so a loop in the middle of a step goes on to one. *)
Abort(c) ==
  /\ pc[c] = "abort"
  /\ pc' = [pc EXCEPT ![c] = "aborted"]
  /\ UNCHANGED <<spoke, old, bound, alive, session, registered, listener,
                 rsid, up, next_sid, connected, streams_open>>

-----------------------------------------------------------------------------
(* accept_loop                                                             *)

(* The runtime drops an aborted accept_loop at the await it has reached,   *)
(* and with it the listener; what the loop had registered stays behind.    *)
Cancelled(c, p) ==
  /\ pc[c] = "aborted"
  /\ lis[c][p] \in {"accept", "insert", "opening"}
  /\ lis' = [lis EXCEPT ![c][p] = "none"]
  /\ cursid' = [cursid EXCEPT ![c][p] = 0]
  /\ UNCHANGED <<pc, spoke, old, bound, alive, session, registered, rsid, up,
                 next_sid, connected, streams_open>>

(* The top of the loop: return, dropping the listener, if the flag is set. *)
ListenerCheck(c, p) ==
  /\ lis[c][p] = "check"
  /\ lis' = [lis EXCEPT ![c][p] = IF closed[c] THEN "none" ELSE "accept"]
  /\ UNCHANGED <<pc, spoke, old, bound, alive, session, registered, cursid,
                 rsid, up, next_sid, connected, streams_open>>

(* Mutant: ids are counted per session, not globally.                      *)
Accept_SessionIds(c, p) ==
  /\ lis[c][p] = "accept"
  /\ LET n == Cardinality(streams[c] \cup up[c] \cup {rsid[c]}
                            \cup {cursid[c][q] : q \in Ports})
     IN  n <= MaxSid /\ cursid' = [cursid EXCEPT ![c][p] = n]
  /\ lis' = [lis EXCEPT ![c][p] = "insert"]
  /\ UNCHANGED <<pc, spoke, old, bound, alive, session, registered, rsid, up,
                 next_sid, connected, streams_open>>

(* A TCP connection arrives and gets a sid.                                *)
Accept(c, p) ==
  /\ lis[c][p] = "accept"
  /\ next_sid < MaxSid
  /\ next_sid' = next_sid + 1
  /\ cursid' = [cursid EXCEPT ![c][p] = next_sid + 1]
  /\ lis' = [lis EXCEPT ![c][p] = "insert"]
  /\ UNCHANGED <<pc, spoke, old, bound, alive, session, registered, rsid, up,
                 connected, streams_open>>

(* accept fails: the loop returns and the port is released for good.       *)
AcceptError(c, p) ==
  /\ lis[c][p] = "accept"
  /\ lis' = [lis EXCEPT ![c][p] = "none"]
  /\ UNCHANGED <<pc, spoke, old, bound, alive, session, registered, cursid,
                 rsid, up, next_sid, connected, streams_open>>

(* The writer of the sid is registered, under the lock.  The flag is not   *)
(* read again, so this happens on a closed session too.                    *)
InsertWriter(c, p) ==
  /\ lis[c][p] = "insert"
  /\ streams' = [streams EXCEPT ![c] = @ \cup {cursid[c][p]}]
  /\ lis' = [lis EXCEPT ![c][p] = "counting"]
  /\ UNCHANGED <<pc, spoke, old, bound, alive, closed, registered, cursid,
                 rsid, up, next_sid, connected, streams_open>>

(* streams_open.inc(), after the lock was released.                        *)
CountStream(c, p) ==
  /\ lis[c][p] = "counting"
  /\ streams_open' = [streams_open EXCEPT ![spoke[c]] = @ + 1]
  /\ lis' = [lis EXCEPT ![c][p] = "opening"]
  /\ UNCHANGED <<pc, spoke, old, bound, alive, session, registered, cursid,
                 rsid, up, next_sid, connected>>

(* Mutant: the id is reset before the task that needs it is spawned.       *)
OpenSent_ResetFirst(c, p) ==
  /\ lis[c][p] = "opening" /\ alive[c]
  /\ cursid' = [cursid EXCEPT ![c][p] = 0]
  /\ up' = [up EXCEPT ![c] = @ \cup {cursid'[c][p]}]
  /\ lis' = [lis EXCEPT ![c][p] = "check"]
  /\ UNCHANGED <<pc, spoke, old, bound, alive, session, registered, rsid,
                 next_sid, connected, streams_open>>

(* The Open frame is queued; upstream and downstream tasks are spawned.    *)
OpenSent(c, p) ==
  /\ lis[c][p] = "opening" /\ alive[c]
  /\ up' = [up EXCEPT ![c] = @ \cup {cursid[c][p]}]
  /\ cursid' = [cursid EXCEPT ![c][p] = 0]
  /\ lis' = [lis EXCEPT ![c][p] = "check"]
  /\ UNCHANGED <<pc, spoke, old, bound, alive, session, registered, rsid,
                 next_sid, connected, streams_open>>

(* The transport is gone: roll the registration back.  The gauge is        *)
(* decremented whether or not the entry was still there.                   *)
OpenFailed(c, p) ==
  /\ lis[c][p] = "opening" /\ ~alive[c]
  /\ streams' = [streams EXCEPT ![c] = @ \ {cursid[c][p]}]
  /\ streams_open' = [streams_open EXCEPT ![spoke[c]] = @ - 1]
  /\ cursid' = [cursid EXCEPT ![c][p] = 0]
  /\ lis' = [lis EXCEPT ![c][p] = "check"]
  /\ UNCHANGED <<pc, spoke, old, bound, alive, closed, registered, rsid, up,
                 next_sid, connected>>

-----------------------------------------------------------------------------
(* The ends of a virtual stream                                            *)

(* Mutant: decrement without asking whether the entry was there.           *)
RemoveStream_AlwaysDec(c, sid) ==
  /\ streams' = [streams EXCEPT ![c] = @ \ {sid}]
  /\ streams_open' = [streams_open EXCEPT ![spoke[c]] = @ - 1]

(* streams.remove(&sid), decrementing the gauge if the entry existed.      *)
RemoveStream(c, sid) ==
  /\ streams' = [streams EXCEPT ![c] = @ \ {sid}]
  /\ streams_open' = [streams_open EXCEPT ![spoke[c]] =
                        IF sid \in streams[c] THEN @ - 1 ELSE @]

(* The upstream task ends: EOF, read error, or its send failed.            *)
UpstreamEnd(c, sid) ==
  /\ sid \in up[c]
  /\ up' = [up EXCEPT ![c] = @ \ {sid}]
  /\ RemoveStream(c, sid)
  /\ UNCHANGED <<pc, spoke, old, bound, alive, closed, registered, listener,
                 rsid, next_sid, connected>>

(* recv_loop gets a Close frame for a sid the client knows.                *)
Opened(c, sid) == sid \in streams[c] /\ \A p \in Ports : cursid[c][p] # sid

SpokeClose(c, sid) ==
  /\ pc[c] = "recv" /\ alive[c]
  /\ Opened(c, sid)
  /\ RemoveStream(c, sid)
  /\ UNCHANGED <<pc, spoke, old, bound, alive, closed, registered, listener,
                 rsid, up, next_sid, connected>>

(* recv_loop gets a Data frame, clones the writer under the lock and       *)
(* awaits w.send(payload): the writer outlives its entry in the map.       *)
RecvData(c, sid) ==
  /\ pc[c] = "recv" /\ alive[c]
  /\ Opened(c, sid)
  /\ rsid' = [rsid EXCEPT ![c] = sid]
  /\ pc' = [pc EXCEPT ![c] = "deliver"]
  /\ UNCHANGED <<spoke, old, bound, alive, session, registered, listener, up,
                 next_sid, connected, streams_open>>

(* The channel has room, or the peer reads and makes some.                 *)
Delivered(c) ==
  /\ pc[c] = "deliver"
  /\ rsid' = [rsid EXCEPT ![c] = 0]
  /\ pc' = [pc EXCEPT ![c] = "recv"]
  /\ UNCHANGED <<spoke, old, bound, alive, session, registered, listener, up,
                 next_sid, connected, streams_open>>

(* The write to the peer failed and the channel is closed.                 *)
DeliverFailed(c) ==
  /\ pc[c] = "deliver"
  /\ RemoveStream(c, rsid[c])
  /\ rsid' = [rsid EXCEPT ![c] = 0]
  /\ pc' = [pc EXCEPT ![c] = "recv"]
  /\ UNCHANGED <<spoke, old, bound, alive, closed, registered, listener, up,
                 next_sid, connected>>

-----------------------------------------------------------------------------
(* The transport                                                           *)

(* Disconnect, spoke crash, the HTTP/2 keepalive giving up, or the end of  *)
(* the response stream when the last holder of a server_tx has ended.      *)
ClientGone(c) ==
  /\ alive[c]
  /\ alive' = [alive EXCEPT ![c] = FALSE]
  /\ UNCHANGED <<pc, spoke, old, bound, session, registered, listener, rsid,
                 up, next_sid, connected, streams_open>>

-----------------------------------------------------------------------------
HandleConnection(c) ==
  \/ \E s \in Spokes : Handshake(c, s)
  \/ HandshakeFail(c) \/ Register(c) \/ FindOld(c) \/ Displace(c)
  \/ Replace(c) \/ CountConnected(c) \/ Bind(c) \/ BindFail(c)
  \/ BindDone(c) \/ RecvEnd(c) \/ Close(c) \/ Cleanup(c) \/ Abort(c)

AcceptLoop(c, p) ==
  \/ ListenerCheck(c, p) \/ Accept(c, p) \/ AcceptError(c, p)
  \/ InsertWriter(c, p) \/ CountStream(c, p)
  \/ OpenSent(c, p) \/ OpenFailed(c, p) \/ Cancelled(c, p)

Stream(c, sid) ==
  UpstreamEnd(c, sid) \/ SpokeClose(c, sid) \/ RecvData(c, sid)

Deliver(c) == Delivered(c) \/ DeliverFailed(c)

Transport(c) == Connect(c) \/ ClientGone(c)

Next ==
  \E c \in Conns :
    \/ Transport(c)
    \/ HandleConnection(c)
    \/ Deliver(c)
    \/ \E p \in Ports : AcceptLoop(c, p)
    \/ \E sid \in Sids : Stream(c, sid)

Spec == Init /\ [][Next]_vars

(* The tokio runtime polls a task that can proceed, an awaited lock is     *)
(* granted, and an aborted loop that keeps coming to an await is dropped   *)
(* at one of them: its cooperative budget makes it yield.  Nobody promises *)
(* that a client speaks or reads, that a TCP connection arrives, that its  *)
(* peer reads, that a stream ends or that a transport fails.               *)
Progress(c) ==
  \/ ~alive[c] /\ HandshakeFail(c)
  \/ Register(c) \/ FindOld(c) \/ Displace(c) \/ Replace(c)
  \/ CountConnected(c) \/ Bind(c) \/ BindFail(c) \/ BindDone(c)
  \/ RecvEnd(c) \/ Close(c) \/ Cleanup(c) \/ Abort(c)

ListenerProgress(c, p) ==
  \/ ListenerCheck(c, p) \/ InsertWriter(c, p) \/ CountStream(c, p)
  \/ OpenFailed(c, p)

Fairness ==
  \A c \in Conns :
    /\ WF_vars(Progress(c))
    /\ \A p \in Ports : /\ WF_vars(ListenerProgress(c, p))
                        /\ SF_vars(Cancelled(c, p))

FairSpec == Spec /\ Fairness

-----------------------------------------------------------------------------
(* Properties                                                              *)

(* A connection whose handle_connection has returned is not in the map,    *)
(* whatever displacements and late cleanups of other connections ran.      *)
NoZombieEntry ==
  \A c \in Conns, s \in Spokes : pc[c] \in Returned => registered[s] # c

(* A closed session stays in the map only while its own cleanup_session is *)
(* still to come or a displacing connection is about to overwrite it: the  *)
(* lock dropped between the two never leaves a dead entry behind.          *)
StaleEntryIsTransient ==
  \A s \in Spokes, c \in Conns :
    registered[s] = c /\ closed[c] =>
      \/ pc[c] \in {"cleanup", "failcleanup"}
      \/ \E d \in Conns : pc[d] = "replace" /\ old[d] = c /\ spoke[d] = s

(* The global next_sid gives every accepted connection an id of its own:   *)
(* no sid has a writer, a task, a pending Open or a delivery in two        *)
(* sessions.                                                               *)
SidsInUse(c) ==
  (streams[c] \cup up[c] \cup {cursid[c][p] : p \in Ports} \cup {rsid[c]}) \ {0}

SidsNotShared ==
  \A c, d \in Conns : c # d => SidsInUse(c) \cap SidsInUse(d) = {}

(* The connected gauge falls short of the map by no more than the          *)
(* connections that are between their insert and their increment, although *)
(* a cleanup may take off the entry of one that has not counted itself.    *)
RegisteredSpokes == {s \in Spokes : registered[s] # NoConn}

AboutToCount == {c \in Conns : pc[c] = "count"}

ConnectedCoversMap ==
  connected + Cardinality(AboutToCount) >= Cardinality(RegisteredSpokes)

(* The streams_open gauge of a spoke covers every writer of its sessions   *)
(* but those whose accept_loop is about to count them, in spite of the     *)
(* unconditional decrement of the rollback.                                *)
Uncounted(c) == {cursid[c][p] : p \in {q \in Ports : lis[c][q] = "counting"}}

StreamsOf(s) ==
  UNION {streams[c] \ Uncounted(c) : c \in {d \in Conns : spoke[d] = s}}

StreamsOpenCovers ==
  \A s \in Spokes : streams_open[s] >= Cardinality(StreamsOf(s))

(* recv_loop waits for ever for the peer of one stream to read.            *)
StuckDelivery(c) == [](pc[c] = "deliver")

(* A connection whose transport is gone runs to its end and gives its      *)
(* entry back: displacing, binding and cleanup wait on nobody.  The one    *)
(* exception is a recv_loop stuck on a peer that does not read.            *)
DeadConnectionSettles ==
  \A c \in Conns :
    (pc[c] # "idle" /\ ~alive[c]) ~> (pc[c] \in Returned \/ StuckDelivery(c))

(* A session that reached recv_loop gives its ports back when its client   *)
(* is gone, with the same exception.                                       *)
PortsReleased ==
  \A c \in Conns :
    (pc[c] = "recv" /\ ~alive[c]) ~>
      ((\A p \in Ports : lis[c][p] = "none") \/ StuckDelivery(c))

-----------------------------------------------------------------------------
(* What the code's own comments claim, and the code does not keep.         *)

(* Registration: "an older connection with the same spoke_id is            *)
(* displaced".  No two connections of a spoke serve with an open session.  *)
OneOpenSession ==
  \A c, d \in Conns :
    (/\ pc[c] = "recv" /\ pc[d] = "recv"
     /\ spoke[c] = spoke[d]
     /\ ~closed[c] /\ ~closed[d]) => c = d

(* After a bind error: "Any listeners already opened will terminate on     *)
(* their own once session.closed flips."                                   *)
ListenersTerminate ==
  \A c \in Conns :
    (pc[c] = "failcleanup") ~> (\A p \in Ports : lis[c][p] = "none")
=============================================================================
