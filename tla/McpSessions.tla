----------------------------- MODULE McpSessions -----------------------------
(***************************************************************************)
(* ResumableSessionManager of the MCP server: sessions of the Streamable   *)
(* HTTP transport live in a map of the process, their ids also in Valkey,  *)
(* and a request with an id the process does not know rebuilds the session *)
(* ("rehydrates" it) when Valkey does.  One asyncio process: a step runs   *)
(* from one await to the next.                                             *)
(***************************************************************************)
EXTENDS Naturals

CONSTANTS
  Requests,      \* HTTP requests in progress at a time
  NoRequest,
  Sids,          \* session ids
  NoSid,
  MaxMcpEvents   \* bound: requests, failures and restarts

ASSUME McpAssumption ==
  NoRequest \notin Requests /\ NoSid \notin Sids /\ MaxMcpEvents \in Nat

VARIABLES
  inst,       \* ids in _server_instances, by origin of their transport
  alive,      \* alive[s]: transports of s that are running
  known,      \* ids with a session key in Valkey
  given,      \* ids a client was told
  used,       \* ids handed out
  lock,       \* holder of _session_creation_lock
  req,        \* req[r]: where request r is
  excused,    \* ids whose registration was lost, late or has expired
  mcpEvents

mcpVars == <<inst, alive, known, given, used, lock, req, excused, mcpEvents>>

Methods == {"initialize", "post", "get", "delete"}

Ended == {"done", "notfound", "dropped"}

Request == [method : Methods, sid : Sids \cup {NoSid}, todo : SUBSET Sids,
            pc : Ended \cup {"lookup", "lock", "inside", "outside", "register"}]

McpTypeOK ==
  /\ inst \in [Sids -> {"none", "created", "rehydrated"}]
  /\ alive \in [Sids -> Nat]
  /\ known \subseteq Sids /\ given \subseteq Sids /\ used \subseteq Sids
  /\ lock \in Requests \cup {NoRequest}
  /\ req \in [Requests -> Request]
  /\ excused \subseteq Sids
  /\ mcpEvents \in 0..MaxMcpEvents

NoReq == [method |-> "post", sid |-> NoSid, todo |-> {}, pc |-> "done"]

McpInit ==
  /\ inst = [s \in Sids |-> "none"]
  /\ alive = [s \in Sids |-> 0]
  /\ known = {} /\ given = {} /\ used = {}
  /\ lock = NoRequest
  /\ req = [r \in Requests |-> NoReq]
  /\ excused = {}
  /\ mcpEvents = 0

McpEvent == mcpEvents < MaxMcpEvents /\ mcpEvents' = mcpEvents + 1

Live(s) == inst[s] # "none"

-----------------------------------------------------------------------------
(* _handle_stateful_request                                                *)

(* A request without an id creates a session, under the lock (s is the id  *)
(* it is going to get); one of a session in the map goes to its transport. *)
Arrive(r, m, s) ==
  /\ req[r].pc \in Ended /\ McpEvent
  /\ s \in IF m = "initialize" THEN Sids \ used ELSE given
  /\ used' = used \cup {s}
  /\ req' = [req EXCEPT ![r] =
       [method |-> m, sid |-> s, todo |-> {},
        pc |-> IF m = "initialize" THEN "lock"
               ELSE IF Live(s) THEN "outside" ELSE "lookup"]]
  /\ UNCHANGED <<inst, alive, known, given, lock, excused>>

(* The base class answers 404 for an id that is not in its map.            *)
Unknown(s) == IF Live(s) THEN "outside" ELSE "notfound"

(* session_known decides between the lock and the base class.              *)
AfterLookup(r, found) ==
  LET s == req[r].sid IN
  /\ req[r].pc = "lookup"
  /\ req' = [req EXCEPT ![r].pc = IF found THEN "lock" ELSE Unknown(s)]

Lookup(r) ==
  /\ AfterLookup(r, req[r].sid \in known)
  /\ UNCHANGED <<inst, alive, known, given, used, lock, excused, mcpEvents>>

(* Valkey does not answer: no exception, the id counts as unknown.         *)
LookupFails(r) ==
  /\ AfterLookup(r, FALSE) /\ McpEvent
  /\ excused' = excused \cup {req[r].sid}
  /\ UNCHANGED <<inst, alive, known, given, used, lock>>

Start(s, origin) ==
  /\ inst' = [inst EXCEPT ![s] = origin]
  /\ alive' = [alive EXCEPT ![s] = @ + 1]

(* Mutant: the map is not read again.                                      *)
Rebuild_Always(s) == Start(s, "rehydrated")

Rebuild(s) ==
  IF Live(s) THEN UNCHANGED <<inst, alive>> ELSE Start(s, "rehydrated")

(* Inside the lock the map is read again: another request of the session   *)
(* may have rebuilt it meanwhile.                                          *)
Rehydrate(r) ==
  /\ req[r].pc = "lock" /\ req[r].method # "initialize" /\ lock = NoRequest
  /\ lock' = r
  /\ req' = [req EXCEPT ![r].pc = "inside"]
  /\ Rebuild(req[r].sid)
  /\ UNCHANGED <<known, given, used, excused, mcpEvents>>

(* The base class creates a session under the same lock.                   *)
CreateSession(r) ==
  /\ req[r].pc = "lock" /\ req[r].method = "initialize" /\ lock = NoRequest
  /\ lock' = r
  /\ req' = [req EXCEPT ![r].pc = "inside"]
  /\ Start(req[r].sid, "created")
  /\ UNCHANGED <<known, given, used, excused, mcpEvents>>

(* The transport of s ends and its run_server takes s out of the map.      *)
Stop(s) ==
  /\ inst' = [inst EXCEPT ![s] = "none"]
  /\ alive' = [alive EXCEPT ![s] = @ - 1]
  /\ excused' = IF s \in known THEN excused ELSE excused \cup {s}

(* Mutant: the lock is not given back.                                     *)
Released_Never(r) == lock

Released(r) == IF lock = r THEN NoRequest ELSE lock

(* Mutant: sessions that were rehydrated only are registered.              *)
ToRegister_Rehydrated == {q \in Sids : inst[q] = "rehydrated"}

ToRegister == {q \in Sids : Live(q)}

(* transport.handle_request returns; a handler in the lock releases it.    *)
(* Once initialize is answered, every id of the map is to be registered.   *)
Handled(r) ==
  LET s == req[r].sid m == req[r].method IN
  /\ req[r].pc \in {"inside", "outside"}
  /\ lock' = Released(r)
  /\ IF m = "initialize"
     THEN /\ req' = [req EXCEPT ![r].pc = "register",
                                ![r].todo = ToRegister]
          /\ given' = given \cup {s}
     ELSE /\ req' = [req EXCEPT ![r].pc = "done"]
          /\ UNCHANGED given
  /\ IF m = "delete" /\ Live(s) THEN Stop(s)
     ELSE UNCHANGED <<inst, alive, excused>>
  /\ UNCHANGED <<known, used, mcpEvents>>

(* register_session, one id after the other.                               *)
Register(r, s) ==
  /\ req[r].pc = "register" /\ s \in req[r].todo
  /\ known' = known \cup {s}
  /\ req' = [req EXCEPT ![r].todo = @ \ {s}]
  /\ UNCHANGED <<inst, alive, given, used, lock, excused, mcpEvents>>

RegisterFails(r, s) ==
  /\ req[r].pc = "register" /\ s \in req[r].todo /\ McpEvent
  /\ excused' = excused \cup {s}
  /\ req' = [req EXCEPT ![r].todo = @ \ {s}]
  /\ UNCHANGED <<inst, alive, known, given, used, lock>>

Registered(r) ==
  /\ req[r].pc = "register" /\ req[r].todo = {}
  /\ req' = [req EXCEPT ![r].pc = "done"]
  /\ UNCHANGED <<inst, alive, known, given, used, lock, excused, mcpEvents>>

-----------------------------------------------------------------------------
(* The server of a session crashes, or a created one was idle for 30       *)
(* minutes (rehydrated ones have no idle timeout).                         *)
SessionEnds(s) ==
  /\ Live(s) /\ McpEvent
  /\ Stop(s)
  /\ UNCHANGED <<known, given, used, lock, req>>

(* SESSION_TTL passed since the last registration.                         *)
KeyExpires(s) ==
  /\ s \in known /\ McpEvent
  /\ known' = known \ {s}
  /\ excused' = excused \cup {s}
  /\ UNCHANGED <<inst, alive, given, used, lock, req>>

(* The Pod restarts: only Valkey remembers, and only what is registered.   *)
Restart ==
  /\ McpEvent
  /\ inst' = [s \in Sids |-> "none"]
  /\ alive' = [s \in Sids |-> 0]
  /\ lock' = NoRequest
  /\ req' = [r \in Requests |->
       IF req[r].pc \in Ended THEN req[r] ELSE [req[r] EXCEPT !.pc = "dropped"]]
  /\ excused' = excused \cup
       {s \in Sids \ known : \E r \in Requests : s \in req[r].todo}
  /\ UNCHANGED <<known, given, used>>

-----------------------------------------------------------------------------
(* Requests end; an SSE stream (GET) lasts as long as its client likes.    *)
RequestStep(r) ==
  \/ Lookup(r) \/ Rehydrate(r) \/ CreateSession(r)
  \/ (req[r].method # "get" /\ Handled(r))
  \/ (\E s \in Sids : Register(r, s)) \/ Registered(r)

McpNext ==
  \/ \E r \in Requests :
       \/ RequestStep(r) \/ Handled(r) \/ LookupFails(r)
       \/ \E m \in Methods, s \in Sids : Arrive(r, m, s)
       \/ \E s \in Sids : RegisterFails(r, s)
  \/ \E s \in Sids : SessionEnds(s) \/ KeyExpires(s)
  \/ Restart

McpFairness == \A r \in Requests : WF_mcpVars(RequestStep(r))

McpSpec == McpInit /\ [][McpNext]_mcpVars
McpFairSpec == McpSpec /\ McpFairness

-----------------------------------------------------------------------------
(* Properties                                                              *)

(* Two requests that find their session gone at the same time rebuild it   *)
(* once: a session never has two transports, and the map has the one.      *)
OneTransport ==
  \A s \in Sids : alive[s] = IF Live(s) THEN 1 ELSE 0

(* "avoids 404 Session not found": a client is told its session is unknown *)
(* only if Valkey failed or forgot it, or the session ended or the Pod     *)
(* restarted before the session was registered.                            *)
NotFoundIsExcused ==
  \A r \in Requests : req[r].pc = "notfound" => req[r].sid \in excused

(* A request that needs the creation lock gets it, unless an SSE stream    *)
(* that rebuilt or joined its session inside the lock keeps it.            *)
LockIsPassedOn ==
  \A r \in Requests :
    req[r].pc = "lock" ~>
      \/ req[r].pc # "lock"
      \/ lock # NoRequest /\ req[lock].method = "get"
=============================================================================
