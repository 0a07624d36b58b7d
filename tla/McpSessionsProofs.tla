-------------------------- MODULE McpSessionsProofs --------------------------
(***************************************************************************)
(* Theorems about McpSessions: the state stays in its types, a session has *)
(* at most one transport, and a 404 has an excuse, for any number of       *)
(* requests and sessions.                                                  *)
(***************************************************************************)
EXTENDS McpSessions, TLAPS

(* Every request in progress has a session id; that of a client's request  *)
(* is one the client was told, and every live session has one.             *)
RequestsNamed ==
  /\ given \subseteq used /\ {s \in Sids : Live(s)} \subseteq used
  /\ \A r \in Requests : req[r].pc \notin Ended =>
       /\ req[r].sid \in used
       /\ req[r].method = "initialize" => req[r].pc \notin {"lookup", "outside"}
       /\ req[r].method # "initialize" =>
            req[r].sid \in given /\ req[r].pc # "register"

Creating(r) == req[r].method = "initialize" /\ req[r].pc \in {"lock", "inside"}

(* The id of a session to be created is nobody else's and not yet in use.  *)
NewIdsUnshared ==
  \A r \in Requests : Creating(r) =>
    /\ req[r].sid \notin given
    /\ req[r].pc = "lock" => ~Live(req[r].sid)
    /\ \A q \in Requests : Creating(q) /\ req[q].sid = req[r].sid => q = r

Remembered(s) == s \in known \/ s \in excused

(* A session that was told to a client is registered, has an excuse, or    *)
(* lives and is going to be registered.                                    *)
ToldIsRemembered ==
  /\ \A s \in given : Remembered(s) \/
       /\ Live(s)
       /\ \E r \in Requests : req[r].pc = "register" /\ s \in req[r].todo
  /\ \A r \in Requests : Creating(r) /\ req[r].pc = "inside" =>
       Live(req[r].sid) \/ Remembered(req[r].sid)

McpInv ==
  /\ McpTypeOK /\ RequestsNamed /\ NewIdsUnshared /\ OneTransport
  /\ ToldIsRemembered /\ NotFoundIsExcused

(* The map, the lock and the requests start empty.                         *)
LEMMA McpInitInv == McpInit => McpInv
<1> SUFFICES ASSUME McpInit PROVE McpInv
  OBVIOUS
<1>1. McpTypeOK
  <2>1. req \in [Requests -> Request]
    BY DEF McpInit, NoReq, Request, Methods, Ended
  <2> QED
    BY <2>1, McpAssumption DEF McpInit, McpTypeOK
<1>2. \A r \in Requests : req[r].pc = "done"
  BY DEF McpInit, NoReq
<1>3. RequestsNamed /\ NewIdsUnshared /\ ToldIsRemembered /\ NotFoundIsExcused
  BY <1>2 DEF McpInit, Live, RequestsNamed, NewIdsUnshared, ToldIsRemembered,
              NotFoundIsExcused, Creating, Ended
<1>4. OneTransport
  BY DEF McpInit, OneTransport, Live
<1> QED
  BY <1>1, <1>3, <1>4 DEF McpInv

(* Every step keeps the types; a transport that ends was running.          *)
LEMMA McpTypesKept == McpInv /\ [McpNext]_mcpVars => McpTypeOK'
<1> SUFFICES ASSUME McpInv, [McpNext]_mcpVars PROVE McpTypeOK'
  OBVIOUS
<1> USE McpAssumption DEF McpInv
<1>1. ASSUME NEW r \in Requests, NEW m \in Methods, NEW s \in Sids,
             Arrive(r, m, s)
      PROVE McpTypeOK'
  <2>1. req' \in [Requests -> Request]
    BY <1>1 DEF Arrive, McpTypeOK, Request, Methods, Ended
  <2> QED
    BY <1>1, <2>1 DEF Arrive, McpTypeOK, McpEvent
<1>2. ASSUME NEW r \in Requests, Lookup(r) PROVE McpTypeOK'
  <2>1. req' \in [Requests -> Request]
    BY <1>2 DEF Lookup, AfterLookup, Unknown, McpTypeOK, Request, Methods, Ended
  <2> QED
    BY <1>2, <2>1 DEF Lookup, AfterLookup, Unknown, McpTypeOK
<1>3. ASSUME NEW r \in Requests, LookupFails(r) PROVE McpTypeOK'
  <2>1. req' \in [Requests -> Request]
    BY <1>3 DEF LookupFails, AfterLookup, Unknown, McpTypeOK, Request, Methods, Ended
  <2> QED
    BY <1>3, <2>1 DEF LookupFails, AfterLookup, Unknown, McpTypeOK, McpEvent, RequestsNamed, Ended
<1>4. ASSUME NEW r \in Requests, Rehydrate(r) PROVE McpTypeOK'
  <2>1. req' \in [Requests -> Request]
    BY <1>4 DEF Rehydrate, Rebuild, Start, McpTypeOK, Request, Methods, Ended
  <2> QED
    BY <1>4, <2>1 DEF Rehydrate, Rebuild, Start, McpTypeOK, RequestsNamed, Ended
<1>5. ASSUME NEW r \in Requests, CreateSession(r) PROVE McpTypeOK'
  <2>1. req' \in [Requests -> Request]
    BY <1>5 DEF CreateSession, Start, McpTypeOK, Request, Methods, Ended
  <2> QED
    BY <1>5, <2>1 DEF CreateSession, Start, McpTypeOK, RequestsNamed, Ended
<1>6. ASSUME NEW r \in Requests, Handled(r) PROVE McpTypeOK'
  <2>1. req' \in [Requests -> Request]
    BY <1>6 DEF Handled, Stop, Released, ToRegister, McpTypeOK, Request, Methods, Ended
  <2>2. alive' \in [Sids -> Nat]
    <3>1. CASE req[r].method = "delete" /\ Live(req[r].sid)
      <4>1. req[r].sid \in Sids /\ alive[req[r].sid] = 1
        BY <1>6, <3>1 DEF OneTransport, RequestsNamed, Ended, Handled, McpTypeOK
      <4> QED
        BY <1>6, <3>1, <4>1 DEF Handled, Stop, Released, ToRegister, McpTypeOK
    <3>2. CASE ~(req[r].method = "delete" /\ Live(req[r].sid))
      BY <1>6, <3>2 DEF Handled, Stop, Released, ToRegister, McpTypeOK
    <3> QED
      BY <3>1, <3>2
  <2> QED
    BY <1>6, <2>1, <2>2 DEF Handled, Stop, Released, ToRegister, McpTypeOK, RequestsNamed, Ended
<1>7. ASSUME NEW r \in Requests, NEW s \in Sids, Register(r, s)
      PROVE McpTypeOK'
  <2>1. req' \in [Requests -> Request]
    BY <1>7 DEF Register, McpTypeOK, Request, Methods, Ended
  <2> QED
    BY <1>7, <2>1 DEF Register, McpTypeOK
<1>8. ASSUME NEW r \in Requests, NEW s \in Sids, RegisterFails(r, s)
      PROVE McpTypeOK'
  <2>1. req' \in [Requests -> Request]
    BY <1>8 DEF RegisterFails, McpTypeOK, Request, Methods, Ended
  <2> QED
    BY <1>8, <2>1 DEF RegisterFails, McpTypeOK, McpEvent
<1>9. ASSUME NEW r \in Requests, Registered(r) PROVE McpTypeOK'
  <2>1. req' \in [Requests -> Request]
    BY <1>9 DEF Registered, McpTypeOK, Request, Methods, Ended
  <2> QED
    BY <1>9, <2>1 DEF Registered, McpTypeOK
<1>10. ASSUME NEW s \in Sids, SessionEnds(s) PROVE McpTypeOK'
  BY <1>10 DEF SessionEnds, Stop, McpTypeOK, McpEvent, OneTransport, Live
<1>11. ASSUME NEW s \in Sids, KeyExpires(s) PROVE McpTypeOK'
  BY <1>11 DEF KeyExpires, McpTypeOK, McpEvent
<1>12. ASSUME Restart PROVE McpTypeOK'
  <2>1. req' \in [Requests -> Request]
    <3>1. \A q \in Requests : [req[q] EXCEPT !.pc = "dropped"] \in Request
      BY DEF McpTypeOK, Request, Ended
    <3> QED
      BY <1>12, <3>1 DEF Restart, McpTypeOK
  <2> QED
    BY <1>12, <2>1 DEF Restart, McpTypeOK, McpEvent
<1>13. CASE UNCHANGED mcpVars
  BY <1>13 DEF mcpVars, McpTypeOK, RequestsNamed, NewIdsUnshared, OneTransport,
    ToldIsRemembered, NotFoundIsExcused, Creating, Live, Remembered
<1> QED
  BY <1>1, <1>2, <1>3, <1>4, <1>5, <1>6, <1>7, <1>8,
     <1>9, <1>10, <1>11, <1>12, <1>13 DEF McpNext, RequestStep

(* Ids of clients' requests stay ones they were told.                      *)
LEMMA NamesKept == McpInv /\ [McpNext]_mcpVars => RequestsNamed'
<1> SUFFICES ASSUME McpInv, [McpNext]_mcpVars PROVE RequestsNamed'
  OBVIOUS
<1> USE McpAssumption DEF McpInv
<1>1. ASSUME NEW r \in Requests, NEW m \in Methods, NEW s \in Sids,
             Arrive(r, m, s)
      PROVE RequestsNamed'
  BY <1>1 DEF Arrive, RequestsNamed, Live, McpTypeOK, Request, Ended
<1>2. ASSUME NEW r \in Requests, Lookup(r) PROVE RequestsNamed'
  BY <1>2 DEF Lookup, AfterLookup, Unknown, RequestsNamed, Live, McpTypeOK, Request, Ended
<1>3. ASSUME NEW r \in Requests, LookupFails(r) PROVE RequestsNamed'
  BY <1>3 DEF LookupFails, AfterLookup, Unknown, RequestsNamed, Live, McpTypeOK, Request, Ended
<1>4. ASSUME NEW r \in Requests, Rehydrate(r) PROVE RequestsNamed'
  BY <1>4 DEF Rehydrate, Rebuild, Start, RequestsNamed, Live, McpTypeOK, Request, Ended
<1>5. ASSUME NEW r \in Requests, CreateSession(r) PROVE RequestsNamed'
  BY <1>5 DEF CreateSession, Start, RequestsNamed, Live, McpTypeOK, Request, Ended
<1>6. ASSUME NEW r \in Requests, Handled(r) PROVE RequestsNamed'
  BY <1>6 DEF Handled, Stop, Released, ToRegister, RequestsNamed, Live, McpTypeOK, Request, Ended
<1>7. ASSUME NEW r \in Requests, NEW s \in Sids, Register(r, s)
      PROVE RequestsNamed'
  BY <1>7 DEF Register, RequestsNamed, Live, McpTypeOK, Request, Ended
<1>8. ASSUME NEW r \in Requests, NEW s \in Sids, RegisterFails(r, s)
      PROVE RequestsNamed'
  BY <1>8 DEF RegisterFails, RequestsNamed, Live, McpTypeOK, Request, Ended
<1>9. ASSUME NEW r \in Requests, Registered(r) PROVE RequestsNamed'
  BY <1>9 DEF Registered, RequestsNamed, Live, McpTypeOK, Request, Ended
<1>10. ASSUME NEW s \in Sids, SessionEnds(s) PROVE RequestsNamed'
  BY <1>10 DEF SessionEnds, Stop, RequestsNamed, Live, McpTypeOK, Request, Ended
<1>11. ASSUME NEW s \in Sids, KeyExpires(s) PROVE RequestsNamed'
  BY <1>11 DEF KeyExpires, RequestsNamed, Live, McpTypeOK, Request, Ended
<1>12. ASSUME Restart PROVE RequestsNamed'
  BY <1>12 DEF Restart, RequestsNamed, Live, McpTypeOK, Request, Ended
<1>13. CASE UNCHANGED mcpVars
  BY <1>13 DEF mcpVars, McpTypeOK, RequestsNamed, NewIdsUnshared, OneTransport,
    ToldIsRemembered, NotFoundIsExcused, Creating, Live, Remembered
<1> QED
  BY <1>1, <1>2, <1>3, <1>4, <1>5, <1>6, <1>7, <1>8,
     <1>9, <1>10, <1>11, <1>12, <1>13 DEF McpNext, RequestStep

(* A new id is taken by one request, and no other makes it live.           *)
LEMMA NewIdsKept == McpInv /\ [McpNext]_mcpVars => NewIdsUnshared'
<1> SUFFICES ASSUME McpInv, [McpNext]_mcpVars PROVE NewIdsUnshared'
  OBVIOUS
<1> USE McpAssumption DEF McpInv
<1>1. ASSUME NEW r \in Requests, NEW m \in Methods, NEW s \in Sids,
             Arrive(r, m, s)
      PROVE NewIdsUnshared'
  BY <1>1 DEF Arrive, NewIdsUnshared, Creating, Live, RequestsNamed, McpTypeOK,
    Request, Ended
<1>2. ASSUME NEW r \in Requests, Lookup(r) PROVE NewIdsUnshared'
  BY <1>2 DEF Lookup, AfterLookup, Unknown, NewIdsUnshared, Creating, Live, RequestsNamed, McpTypeOK,
    Request, Ended
<1>3. ASSUME NEW r \in Requests, LookupFails(r) PROVE NewIdsUnshared'
  BY <1>3 DEF LookupFails, AfterLookup, Unknown, NewIdsUnshared, Creating, Live, RequestsNamed, McpTypeOK,
    Request, Ended
<1>4. ASSUME NEW r \in Requests, Rehydrate(r) PROVE NewIdsUnshared'
  BY <1>4 DEF Rehydrate, Rebuild, Start, NewIdsUnshared, Creating, Live, RequestsNamed, McpTypeOK,
    Request, Ended
<1>5. ASSUME NEW r \in Requests, CreateSession(r) PROVE NewIdsUnshared'
  BY <1>5 DEF CreateSession, Start, NewIdsUnshared, Creating, Live, RequestsNamed, McpTypeOK,
    Request, Ended
<1>6. ASSUME NEW r \in Requests, Handled(r) PROVE NewIdsUnshared'
  BY <1>6 DEF Handled, Stop, Released, ToRegister, NewIdsUnshared, Creating, Live, RequestsNamed, McpTypeOK,
    Request, Ended
<1>7. ASSUME NEW r \in Requests, NEW s \in Sids, Register(r, s)
      PROVE NewIdsUnshared'
  BY <1>7 DEF Register, NewIdsUnshared, Creating, Live, RequestsNamed, McpTypeOK,
    Request, Ended
<1>8. ASSUME NEW r \in Requests, NEW s \in Sids, RegisterFails(r, s)
      PROVE NewIdsUnshared'
  BY <1>8 DEF RegisterFails, NewIdsUnshared, Creating, Live, RequestsNamed, McpTypeOK,
    Request, Ended
<1>9. ASSUME NEW r \in Requests, Registered(r) PROVE NewIdsUnshared'
  BY <1>9 DEF Registered, NewIdsUnshared, Creating, Live, RequestsNamed, McpTypeOK,
    Request, Ended
<1>10. ASSUME NEW s \in Sids, SessionEnds(s) PROVE NewIdsUnshared'
  BY <1>10 DEF SessionEnds, Stop, NewIdsUnshared, Creating, Live, RequestsNamed, McpTypeOK,
    Request, Ended
<1>11. ASSUME NEW s \in Sids, KeyExpires(s) PROVE NewIdsUnshared'
  BY <1>11 DEF KeyExpires, NewIdsUnshared, Creating, Live, RequestsNamed, McpTypeOK,
    Request, Ended
<1>12. ASSUME Restart PROVE NewIdsUnshared'
  BY <1>12 DEF Restart, NewIdsUnshared, Creating, Live, RequestsNamed, McpTypeOK,
    Request, Ended
<1>13. CASE UNCHANGED mcpVars
  BY <1>13 DEF mcpVars, McpTypeOK, RequestsNamed, NewIdsUnshared, OneTransport,
    ToldIsRemembered, NotFoundIsExcused, Creating, Live, Remembered
<1> QED
  BY <1>1, <1>2, <1>3, <1>4, <1>5, <1>6, <1>7, <1>8,
     <1>9, <1>10, <1>11, <1>12, <1>13 DEF McpNext, RequestStep

(* A transport is started only where none is.                              *)
LEMMA TransportsKept == McpInv /\ [McpNext]_mcpVars => OneTransport'
<1> SUFFICES ASSUME McpInv, [McpNext]_mcpVars PROVE OneTransport'
  OBVIOUS
<1> USE McpAssumption DEF McpInv
<1>1. ASSUME NEW r \in Requests, NEW m \in Methods, NEW s \in Sids,
             Arrive(r, m, s)
      PROVE OneTransport'
  BY <1>1 DEF Arrive, OneTransport, NewIdsUnshared, Creating, Live, RequestsNamed,
    McpTypeOK, Request, Ended
<1>2. ASSUME NEW r \in Requests, Lookup(r) PROVE OneTransport'
  BY <1>2 DEF Lookup, AfterLookup, Unknown, OneTransport, NewIdsUnshared, Creating, Live, RequestsNamed,
    McpTypeOK, Request, Ended
<1>3. ASSUME NEW r \in Requests, LookupFails(r) PROVE OneTransport'
  BY <1>3 DEF LookupFails, AfterLookup, Unknown, OneTransport, NewIdsUnshared, Creating, Live, RequestsNamed,
    McpTypeOK, Request, Ended
<1>4. ASSUME NEW r \in Requests, Rehydrate(r) PROVE OneTransport'
  BY <1>4 DEF Rehydrate, Rebuild, Start, OneTransport, NewIdsUnshared, Creating, Live, RequestsNamed,
    McpTypeOK, Request, Ended
<1>5. ASSUME NEW r \in Requests, CreateSession(r) PROVE OneTransport'
  BY <1>5 DEF CreateSession, Start, OneTransport, NewIdsUnshared, Creating, Live, RequestsNamed,
    McpTypeOK, Request, Ended
<1>6. ASSUME NEW r \in Requests, Handled(r) PROVE OneTransport'
  BY <1>6 DEF Handled, Stop, Released, ToRegister, OneTransport, NewIdsUnshared, Creating, Live, RequestsNamed,
    McpTypeOK, Request, Ended
<1>7. ASSUME NEW r \in Requests, NEW s \in Sids, Register(r, s)
      PROVE OneTransport'
  BY <1>7 DEF Register, OneTransport, NewIdsUnshared, Creating, Live, RequestsNamed,
    McpTypeOK, Request, Ended
<1>8. ASSUME NEW r \in Requests, NEW s \in Sids, RegisterFails(r, s)
      PROVE OneTransport'
  BY <1>8 DEF RegisterFails, OneTransport, NewIdsUnshared, Creating, Live, RequestsNamed,
    McpTypeOK, Request, Ended
<1>9. ASSUME NEW r \in Requests, Registered(r) PROVE OneTransport'
  BY <1>9 DEF Registered, OneTransport, NewIdsUnshared, Creating, Live, RequestsNamed,
    McpTypeOK, Request, Ended
<1>10. ASSUME NEW s \in Sids, SessionEnds(s) PROVE OneTransport'
  BY <1>10 DEF SessionEnds, Stop, OneTransport, NewIdsUnshared, Creating, Live, RequestsNamed,
    McpTypeOK, Request, Ended
<1>11. ASSUME NEW s \in Sids, KeyExpires(s) PROVE OneTransport'
  BY <1>11 DEF KeyExpires, OneTransport, NewIdsUnshared, Creating, Live, RequestsNamed,
    McpTypeOK, Request, Ended
<1>12. ASSUME Restart PROVE OneTransport'
  BY <1>12 DEF Restart, OneTransport, NewIdsUnshared, Creating, Live, RequestsNamed,
    McpTypeOK, Request, Ended
<1>13. CASE UNCHANGED mcpVars
  BY <1>13 DEF mcpVars, McpTypeOK, RequestsNamed, NewIdsUnshared, OneTransport,
    ToldIsRemembered, NotFoundIsExcused, Creating, Live, Remembered
<1> QED
  BY <1>1, <1>2, <1>3, <1>4, <1>5, <1>6, <1>7, <1>8,
     <1>9, <1>10, <1>11, <1>12, <1>13 DEF McpNext, RequestStep

(* What a client was told is registered or excused.                        *)
LEMMA RemembranceKept == McpInv /\ [McpNext]_mcpVars => ToldIsRemembered'
<1> SUFFICES ASSUME McpInv, [McpNext]_mcpVars PROVE ToldIsRemembered'
  OBVIOUS
<1> USE McpAssumption DEF McpInv
<1>1. ASSUME NEW r \in Requests, NEW m \in Methods, NEW s \in Sids,
             Arrive(r, m, s)
      PROVE ToldIsRemembered'
  BY <1>1 DEF Arrive, ToldIsRemembered, Remembered, Creating, Live, RequestsNamed,
    NewIdsUnshared, McpTypeOK, Request, Ended
<1>2. ASSUME NEW r \in Requests, Lookup(r) PROVE ToldIsRemembered'
  BY <1>2 DEF Lookup, AfterLookup, Unknown, ToldIsRemembered, Remembered, Creating, Live, RequestsNamed,
    NewIdsUnshared, McpTypeOK, Request, Ended
<1>3. ASSUME NEW r \in Requests, LookupFails(r) PROVE ToldIsRemembered'
  BY <1>3 DEF LookupFails, AfterLookup, Unknown, ToldIsRemembered, Remembered, Creating, Live, RequestsNamed,
    NewIdsUnshared, McpTypeOK, Request, Ended
<1>4. ASSUME NEW r \in Requests, Rehydrate(r) PROVE ToldIsRemembered'
  BY <1>4 DEF Rehydrate, Rebuild, Start, ToldIsRemembered, Remembered, Creating, Live, RequestsNamed,
    NewIdsUnshared, McpTypeOK, Request, Ended
<1>5. ASSUME NEW r \in Requests, CreateSession(r) PROVE ToldIsRemembered'
  BY <1>5 DEF CreateSession, Start, ToldIsRemembered, Remembered, Creating, Live, RequestsNamed,
    NewIdsUnshared, McpTypeOK, Request, Ended
<1>6. ASSUME NEW r \in Requests, Handled(r) PROVE ToldIsRemembered'
  BY <1>6 DEF Handled, Stop, Released, ToRegister, ToldIsRemembered, Remembered, Creating, Live, RequestsNamed,
    NewIdsUnshared, McpTypeOK, Request, Ended
<1>7. ASSUME NEW r \in Requests, NEW s \in Sids, Register(r, s)
      PROVE ToldIsRemembered'
  BY <1>7 DEF Register, ToldIsRemembered, Remembered, Creating, Live, RequestsNamed,
    NewIdsUnshared, McpTypeOK, Request, Ended
<1>8. ASSUME NEW r \in Requests, NEW s \in Sids, RegisterFails(r, s)
      PROVE ToldIsRemembered'
  BY <1>8 DEF RegisterFails, ToldIsRemembered, Remembered, Creating, Live, RequestsNamed,
    NewIdsUnshared, McpTypeOK, Request, Ended
<1>9. ASSUME NEW r \in Requests, Registered(r) PROVE ToldIsRemembered'
  BY <1>9 DEF Registered, ToldIsRemembered, Remembered, Creating, Live, RequestsNamed,
    NewIdsUnshared, McpTypeOK, Request, Ended
<1>10. ASSUME NEW s \in Sids, SessionEnds(s) PROVE ToldIsRemembered'
  BY <1>10 DEF SessionEnds, Stop, ToldIsRemembered, Remembered, Creating, Live, RequestsNamed,
    NewIdsUnshared, McpTypeOK, Request, Ended
<1>11. ASSUME NEW s \in Sids, KeyExpires(s) PROVE ToldIsRemembered'
  BY <1>11 DEF KeyExpires, ToldIsRemembered, Remembered, Creating, Live, RequestsNamed,
    NewIdsUnshared, McpTypeOK, Request, Ended
<1>12. ASSUME Restart PROVE ToldIsRemembered'
  BY <1>12 DEF Restart, ToldIsRemembered, Remembered, Creating, Live, RequestsNamed,
    NewIdsUnshared, McpTypeOK, Request, Ended
<1>13. CASE UNCHANGED mcpVars
  BY <1>13 DEF mcpVars, McpTypeOK, RequestsNamed, NewIdsUnshared, OneTransport,
    ToldIsRemembered, NotFoundIsExcused, Creating, Live, Remembered
<1> QED
  BY <1>1, <1>2, <1>3, <1>4, <1>5, <1>6, <1>7, <1>8,
     <1>9, <1>10, <1>11, <1>12, <1>13 DEF McpNext, RequestStep

(* Only a session that is excused is answered 404.                         *)
LEMMA ExcusesKept == McpInv /\ [McpNext]_mcpVars => NotFoundIsExcused'
<1> SUFFICES ASSUME McpInv, [McpNext]_mcpVars PROVE NotFoundIsExcused'
  OBVIOUS
<1> USE McpAssumption DEF McpInv
<1>1. ASSUME NEW r \in Requests, NEW m \in Methods, NEW s \in Sids,
             Arrive(r, m, s)
      PROVE NotFoundIsExcused'
  BY <1>1 DEF Arrive, NotFoundIsExcused, ToldIsRemembered, Remembered, Live,
    RequestsNamed, McpTypeOK, Request, Ended
<1>2. ASSUME NEW r \in Requests, Lookup(r) PROVE NotFoundIsExcused'
  BY <1>2 DEF Lookup, AfterLookup, Unknown, NotFoundIsExcused, ToldIsRemembered, Remembered, Live,
    RequestsNamed, McpTypeOK, Request, Ended
<1>3. ASSUME NEW r \in Requests, LookupFails(r) PROVE NotFoundIsExcused'
  BY <1>3 DEF LookupFails, AfterLookup, Unknown, NotFoundIsExcused, ToldIsRemembered, Remembered, Live,
    RequestsNamed, McpTypeOK, Request, Ended
<1>4. ASSUME NEW r \in Requests, Rehydrate(r) PROVE NotFoundIsExcused'
  BY <1>4 DEF Rehydrate, Rebuild, Start, NotFoundIsExcused, ToldIsRemembered, Remembered, Live,
    RequestsNamed, McpTypeOK, Request, Ended
<1>5. ASSUME NEW r \in Requests, CreateSession(r) PROVE NotFoundIsExcused'
  BY <1>5 DEF CreateSession, Start, NotFoundIsExcused, ToldIsRemembered, Remembered, Live,
    RequestsNamed, McpTypeOK, Request, Ended
<1>6. ASSUME NEW r \in Requests, Handled(r) PROVE NotFoundIsExcused'
  BY <1>6 DEF Handled, Stop, Released, ToRegister, NotFoundIsExcused, ToldIsRemembered, Remembered, Live,
    RequestsNamed, McpTypeOK, Request, Ended
<1>7. ASSUME NEW r \in Requests, NEW s \in Sids, Register(r, s)
      PROVE NotFoundIsExcused'
  BY <1>7 DEF Register, NotFoundIsExcused, ToldIsRemembered, Remembered, Live,
    RequestsNamed, McpTypeOK, Request, Ended
<1>8. ASSUME NEW r \in Requests, NEW s \in Sids, RegisterFails(r, s)
      PROVE NotFoundIsExcused'
  BY <1>8 DEF RegisterFails, NotFoundIsExcused, ToldIsRemembered, Remembered, Live,
    RequestsNamed, McpTypeOK, Request, Ended
<1>9. ASSUME NEW r \in Requests, Registered(r) PROVE NotFoundIsExcused'
  BY <1>9 DEF Registered, NotFoundIsExcused, ToldIsRemembered, Remembered, Live,
    RequestsNamed, McpTypeOK, Request, Ended
<1>10. ASSUME NEW s \in Sids, SessionEnds(s) PROVE NotFoundIsExcused'
  BY <1>10 DEF SessionEnds, Stop, NotFoundIsExcused, ToldIsRemembered, Remembered, Live,
    RequestsNamed, McpTypeOK, Request, Ended
<1>11. ASSUME NEW s \in Sids, KeyExpires(s) PROVE NotFoundIsExcused'
  BY <1>11 DEF KeyExpires, NotFoundIsExcused, ToldIsRemembered, Remembered, Live,
    RequestsNamed, McpTypeOK, Request, Ended
<1>12. ASSUME Restart PROVE NotFoundIsExcused'
  BY <1>12 DEF Restart, NotFoundIsExcused, ToldIsRemembered, Remembered, Live,
    RequestsNamed, McpTypeOK, Request, Ended
<1>13. CASE UNCHANGED mcpVars
  BY <1>13 DEF mcpVars, McpTypeOK, RequestsNamed, NewIdsUnshared, OneTransport,
    ToldIsRemembered, NotFoundIsExcused, Creating, Live, Remembered
<1> QED
  BY <1>1, <1>2, <1>3, <1>4, <1>5, <1>6, <1>7, <1>8,
     <1>9, <1>10, <1>11, <1>12, <1>13 DEF McpNext, RequestStep

(* Together: the invariant is inductive.                                   *)
LEMMA McpInvKept == McpInv /\ [McpNext]_mcpVars => McpInv'
  BY McpTypesKept, NamesKept, NewIdsKept, TransportsKept, RemembranceKept,
     ExcusesKept DEF McpInv

(* The state stays in its types.                                           *)
THEOREM McpTypeCorrect == McpSpec => []McpTypeOK
<1>1. McpInv => McpTypeOK
  BY DEF McpInv
<1> QED
  BY <1>1, McpInitInv, McpInvKept, PTL DEF McpSpec

(* However many requests find their session gone at the same time, it is   *)
(* rebuilt once: the second look at the map inside the lock is enough.     *)
THEOREM SessionsHaveOneTransport == McpSpec => []OneTransport
<1>1. McpInv => OneTransport
  BY DEF McpInv
<1> QED
  BY <1>1, McpInitInv, McpInvKept, PTL DEF McpSpec

(* A client is answered 404 only where Valkey failed or forgot, or the     *)
(* session was gone before it was registered.                              *)
THEOREM NotFoundHasExcuse == McpSpec => []NotFoundIsExcused
<1>1. McpInv => NotFoundIsExcused
  BY DEF McpInv
<1> QED
  BY <1>1, McpInitInv, McpInvKept, PTL DEF McpSpec
=============================================================================
