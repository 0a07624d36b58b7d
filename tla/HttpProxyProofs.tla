-------------------------- MODULE HttpProxyProofs --------------------------
(* Theorems about HttpProxy, for any requests, sessions, channel capacity  *)
(* and bounds.                                                             *)
EXTENDS HttpProxy, TLAPS

-----------------------------------------------------------------------------
(* Queues                                                                  *)

Elems(q) == {q[i] : i \in DOMAIN q}

(* An Append adds one frame to a queue.                                    *)
LEMMA ElemsAppend ==
  ASSUME NEW S, NEW q \in Seq(S), NEW e \in S
  PROVE  /\ Append(q, e) \in Seq(S)
         /\ Elems(Append(q, e)) = Elems(q) \cup {e}
<1>1. Append(q, e) \in Seq(S) /\ DOMAIN Append(q, e) = 1..(Len(q) + 1)
  OBVIOUS
<1>2. DOMAIN q = 1..Len(q) /\ Len(q) \in Nat
  OBVIOUS
<1>3. \A i \in 1..Len(q) : Append(q, e)[i] = q[i]
  OBVIOUS
<1>4. Append(q, e)[Len(q) + 1] = e
  OBVIOUS
<1> QED
  BY <1>1, <1>2, <1>3, <1>4 DEF Elems

(* Head and Tail invent no frame.                                          *)
LEMMA ElemsTail ==
  ASSUME NEW S, NEW q \in Seq(S), q # << >>
  PROVE  /\ Tail(q) \in Seq(S)
         /\ Elems(Tail(q)) \subseteq Elems(q)
         /\ Head(q) \in Elems(q) /\ Head(q) \in S
<1>1. Len(q) \in Nat \ {0} /\ DOMAIN q = 1..Len(q)
  OBVIOUS
<1>2. Tail(q) \in Seq(S) /\ DOMAIN Tail(q) = 1..(Len(q) - 1)
  OBVIOUS
<1>3. \A i \in 1..(Len(q) - 1) : Tail(q)[i] = q[i + 1] /\ i + 1 \in 1..Len(q)
  BY <1>1
<1>4. Head(q) = q[1] /\ 1 \in DOMAIN q
  BY <1>1
<1> QED
  BY <1>1, <1>2, <1>3, <1>4 DEF Elems

(* A half of a stream that is dropped takes its unread frames along.       *)
LEMMA ElemsEmptied ==
  ASSUME NEW S, NEW K, NEW q \in [K -> Seq(S)], NEW k \in K
  PROVE  /\ [q EXCEPT ![k] = << >>] \in [K -> Seq(S)]
         /\ Elems(<< >>) = {}
         /\ \A l \in K : \/ [q EXCEPT ![k] = << >>][l] = q[l]
                        \/ [q EXCEPT ![k] = << >>][l] = << >>
BY DEF Elems

-----------------------------------------------------------------------------
(* Types                                                                   *)

(* Request frames carry an allocated id and a request: what recv_loop      *)
(* hands to a task is well typed only for this reason.                     *)
RequestFramesTyped ==
  \A k \in Sessions : \A f \in Elems(toHub[k]) :
    f.kind = "http_request" => f.sid \in Sids /\ f.req \in Reqs

(* A handler that is about to send has allocated its id.                   *)
SendersHaveSid ==
  \A r \in Reqs : pc[r] \in {"send", "wait", "timedout"} => sid[r] # 0

(* The session task reads frames only of a session it has opened.          *)
RunningHasSession == phase \in {"connected", "run"} => sess # 0

TypeInv == TypeOK /\ RequestFramesTyped /\ SendersHaveSid /\ RunningHasSession

USE ReqsAssumption, BoundsAssumption

(* The frames and responses that the two programs build are well typed.    *)
LEMMA Typed ==
  /\ Empty \in Responses /\ Dropped \in Responses
  /\ Challenge \in SpokeFrames /\ Handshake \in HubFrames
  /\ \A st \in Statuses, e \in BOOLEAN, r \in Reqs \cup {NoReq} :
       Response(st, e, r) \in Responses
  /\ \A n \in Sids, r \in Reqs : HttpRequest(n, r) \in HubFrames
  /\ \A n \in Sids, v \in Responses : HttpResponse(n, v) \in SpokeFrames
<1>1. Empty \in Responses /\ Dropped \in Responses
  BY DEF Empty, Dropped, Response, Responses, Statuses
<1>2. Challenge \in SpokeFrames /\ Handshake \in HubFrames
  BY <1>1 DEF Challenge, Handshake, SpokeFrames, HubFrames
<1>3. \A st \in Statuses, e \in BOOLEAN, r \in Reqs \cup {NoReq} :
        Response(st, e, r) \in Responses
  BY DEF Response, Responses
<1>4. \A n \in Sids, r \in Reqs : HttpRequest(n, r) \in HubFrames
  BY DEF HttpRequest, HubFrames
<1>5. \A n \in Sids, v \in Responses : HttpResponse(n, v) \in SpokeFrames
  BY DEF HttpResponse, SpokeFrames
<1> QED
  BY <1>1, <1>2, <1>3, <1>4, <1>5

(* Before the first session there is no frame, task or handler.            *)
LEMMA TypeInvInit == Init => TypeInv
<1> SUFFICES ASSUME Init PROVE TypeInv
  OBVIOUS
<1>1. \A k \in Sessions : Elems(toHub[k]) = {}
  BY DEF Init, Elems
<1>2. RequestFramesTyped
  BY <1>1 DEF RequestFramesTyped
<1>3. SendersHaveSid
  BY DEF Init, SendersHaveSid
<1>4. /\ pending \in [Sids -> Reqs \cup {NoReq}]
      /\ rx \in [Sessions -> BOOLEAN] /\ link \in [Sessions -> BOOLEAN]
      /\ toHub \in [Sessions -> Seq(HubFrames)]
      /\ toSpoke \in [Sessions -> Seq(SpokeFrames)]
  BY DEF Init
<1>5. /\ server \in [Sessions -> {"none", "first", "up", "refused", "gone"}]
      /\ kernel \in [Reqs -> Nat]
      /\ pc \in [Reqs -> {"idle", "body", "gettx", "insert", "send", "wait",
                          "timedout", "done", "gone"}]
      /\ tx \in [Reqs -> 0..MaxSessions]
      /\ sid \in [Reqs -> Sids \cup {0}]
  BY DEF Init
<1>6. oneshot \in [Reqs -> Responses] /\ answer \in [Reqs -> Answers \cup {NoAnswer}]
  BY Typed DEF Init
<1>7. /\ phase \in {"down", "connected", "run", "ended", "flush"}
      /\ sess \in 0..MaxSessions /\ hub_tx \in 0..MaxSessions
      /\ stream_id_counter \in 1..(MaxSid + 1)
      /\ kind \in {"application", "cluster"} /\ jobs \subseteq Jobs
  BY DEF Init
<1>8. RunningHasSession
  BY DEF Init, RunningHasSession
<1> QED
  BY <1>2, <1>3, <1>4, <1>5, <1>6, <1>7, <1>8 DEF TypeInv, TypeOK

(* The status shown to a caller is one of those the handler can give.      *)
LEMMA AnswerTyped ==
  ASSUME NEW v \in Responses
  PROVE  OneshotAnswer(v) \in Answers
<1>1. v.status \in {-2, -1, 0, 200, 403, 503} /\ v.req \in Reqs \cup {NoReq}
  BY DEF Responses, Statuses
<1>2. StatusOf(v) \in {200, 403, 502, 503}
  BY <1>1 DEF StatusOf
<1> QED
  BY <1>1, <1>2 DEF OneshotAnswer, Local, Answers

(* So are the answers that handle_http_proxy makes up.                     *)
LEMMA LocalTyped ==
  /\ Local(400, "bad_body") \in Answers
  /\ Local(503, "not_connected") \in Answers
  /\ Local(503, "send_failed") \in Answers
  /\ Local(504, "timeout") \in Answers
BY DEF Local, Answers

(* A frame sent to a spoke is queued or lost.                              *)
LEMMA SendTyped ==
  ASSUME TypeOK, NEW k \in Sessions, NEW f \in SpokeFrames, SendToSpoke(k, f)
  PROVE  /\ toSpoke' \in [Sessions -> Seq(SpokeFrames)]
         /\ \A l \in Sessions : Elems(toSpoke'[l]) \subseteq Elems(toSpoke[l]) \cup {f}
<1>1. toSpoke \in [Sessions -> Seq(SpokeFrames)]
  BY DEF TypeOK
<1>2. CASE link[k]
  <2>1. toSpoke' = [toSpoke EXCEPT ![k] = Append(@, f)]
    BY <1>2 DEF SendToSpoke
  <2>2. \A l \in Sessions : toSpoke'[l] = toSpoke[l] \/ toSpoke'[l] = Append(toSpoke[l], f)
    BY <1>1, <2>1
  <2> QED
    BY <1>1, <2>1, <2>2, ElemsAppend
<1>3. CASE ~link[k]
  BY <1>1, <1>3 DEF SendToSpoke
<1> QED
  BY <1>2, <1>3

(* Steps of the HTTP handlers keep the types.                              *)
LEMMA TypeInvHandler ==
  ASSUME TypeInv, NEW r \in Reqs, Handler(r)
  PROVE  TypeInv'
<1> USE DEF TypeInv, TypeOK, RequestFramesTyped, SendersHaveSid, RunningHasSession, client, transport, hub, handler
<1>1. CASE Start(r)
  BY <1>1 DEF Start
<1>2. CASE ReadBody(r)
  <2>1. CASE pc' = [pc EXCEPT ![r] = "gettx"] /\ UNCHANGED answer
    BY <1>2, <2>1 DEF ReadBody
  <2>2. CASE Reply(r, Local(400, "bad_body"))
    BY <1>2, <2>2, LocalTyped DEF ReadBody, Reply
  <2> QED
    BY <1>2, <2>1, <2>2 DEF ReadBody
<1>3. CASE GetTx(r)
  <2>1. CASE /\ tx' = [tx EXCEPT ![r] = hub_tx]
             /\ pc' = [pc EXCEPT ![r] = "insert"]
             /\ UNCHANGED answer
    BY <1>3, <2>1 DEF GetTx
  <2>2. CASE Reply(r, Local(503, "not_connected")) /\ UNCHANGED tx
    BY <1>3, <2>2, LocalTyped DEF GetTx, Reply
  <2> QED
    BY <1>3, <2>1, <2>2 DEF GetTx
<1>4. CASE InsertPending(r)
  <2>1. stream_id_counter \in Sids
    BY <1>4 DEF InsertPending, Sids
  <2>2. Dropped \in Responses
    BY DEF Dropped, Response, Responses, Statuses
  <2> QED
    BY <1>4, <2>1, <2>2 DEF InsertPending, next_stream_id, Sids
<1>5. CASE SendRequest(r)
  <2>1. HttpRequest(sid[r], r) \in HubFrames
    BY DEF HttpRequest, HubFrames
  <2>2. sid[r] \in Sids
    BY <1>5 DEF SendRequest
  <2>3. \A k \in Sessions : toHub[k] \in Seq(HubFrames)
    BY DEF HubFrames
  <2>4. \A k \in Sessions : toHub'[k] \in Seq(HubFrames)
    BY <1>5, <2>1, <2>3, ElemsAppend DEF SendRequest
  <2>5. toHub' \in [Sessions -> Seq(HubFrames)]
    BY <1>5, <2>4 DEF SendRequest
  <2>6. RequestFramesTyped'
    <3> SUFFICES ASSUME NEW k \in Sessions, NEW f \in Elems(toHub'[k]),
                        f.kind = "http_request"
                 PROVE  f.sid \in Sids /\ f.req \in Reqs
      OBVIOUS
    <3>1. toHub'[k] = toHub[k] \/ toHub'[k] = Append(toHub[k], HttpRequest(sid[r], r))
      BY <1>5 DEF SendRequest
    <3>2. Elems(Append(toHub[k], HttpRequest(sid[r], r)))
            = Elems(toHub[k]) \cup {HttpRequest(sid[r], r)}
      BY <2>1, <2>3, ElemsAppend
    <3>3. f \in Elems(toHub[k]) \/ f = HttpRequest(sid[r], r)
      BY <3>1, <3>2
    <3> QED
      BY <3>3, <2>2 DEF HttpRequest
  <2> QED
    BY <1>5, <2>5, <2>6 DEF SendRequest, HubFrames
<1>6. CASE SendFailed(r)
  BY <1>6, LocalTyped DEF SendFailed, Reply
<1>7. CASE ReceiveResponse(r)
  BY <1>7, AnswerTyped DEF ReceiveResponse, Reply
<1>8. CASE Timeout(r)
  BY <1>8 DEF Timeout
<1>9. CASE TimeoutRemove(r)
  BY <1>9, LocalTyped DEF TimeoutRemove, Reply
<1> QED
  BY <1>1, <1>2, <1>3, <1>4, <1>5, <1>6, <1>7, <1>8, <1>9 DEF Handler

(* Steps of the client's session task keep the types.                      *)
LEMMA TypeInvSession ==
  ASSUME TypeInv, SessionTask
  PROVE  TypeInv'
<1> USE DEF TypeInv, TypeOK, SendersHaveSid, RunningHasSession, client, transport, hub, handler
<1>1. CASE OpenSession
  <2>1. sess + 1 \in Sessions /\ sess' \in 0..MaxSessions
    BY <1>1 DEF OpenSession, Sessions
  <2>2. toSpoke' \in [Sessions -> Seq(SpokeFrames)]
    BY <1>1, <2>1, Typed DEF OpenSession
  <2>3. RequestFramesTyped'
    BY <1>1 DEF OpenSession, RequestFramesTyped
  <2> QED
    BY <1>1, <2>1, <2>2, <2>3 DEF OpenSession
<1>2. CASE OpenFailed
  BY <1>2 DEF OpenFailed, RequestFramesTyped
<1>3. CASE AttachHub
  BY <1>3 DEF AttachHub, RequestFramesTyped
<1>4. CASE RecvChallenge
  <2>2. toSpoke' \in [Sessions -> Seq(SpokeFrames)]
    BY <1>4, ElemsTail DEF RecvChallenge
  <2>3. toHub' \in [Sessions -> Seq(HubFrames)]
    BY <1>4, ElemsAppend, Typed DEF RecvChallenge
  <2>4. RequestFramesTyped'
    <3> SUFFICES ASSUME NEW k \in Sessions, NEW f \in Elems(toHub'[k]),
                        f.kind = "http_request"
                 PROVE  f.sid \in Sids /\ f.req \in Reqs
      BY DEF RequestFramesTyped
    <3>1. toHub'[k] = toHub[k] \/ toHub'[k] = Append(toHub[k], Handshake)
      BY <1>4 DEF RecvChallenge
    <3>2. Elems(Append(toHub[k], Handshake)) = Elems(toHub[k]) \cup {Handshake}
      BY ElemsAppend, Typed
    <3>3. Handshake.kind # "http_request"
      BY DEF Handshake
    <3> QED
      BY <3>1, <3>2, <3>3 DEF RequestFramesTyped
  <2> QED
    BY <1>4, <2>2, <2>3, <2>4 DEF RecvChallenge
<1>5. CASE RecvHttpResponse
  <2>1. sess \in Sessions
    BY <1>5 DEF RecvHttpResponse, Sessions
  <2>2. toSpoke' \in [Sessions -> Seq(SpokeFrames)] /\ Head(toSpoke[sess]) \in SpokeFrames
    BY <1>5, <2>1, ElemsTail DEF RecvHttpResponse
  <2>3. oneshot' \in [Reqs -> Responses]
    BY <1>5, <2>2 DEF RecvHttpResponse, Deliver, SpokeFrames
  <2>4. pending' \in [Sids -> Reqs \cup {NoReq}]
    BY <1>5 DEF RecvHttpResponse, Deliver
  <2> QED
    BY <1>5, <2>2, <2>3, <2>4 DEF RecvHttpResponse, RequestFramesTyped
<1>6. CASE SessionEnds
  <2>1. sess \in Sessions
    BY <1>6 DEF SessionEnds, Sessions
  <2>2. toSpoke' \in [Sessions -> Seq(SpokeFrames)]
    BY <1>6, <2>1, ElemsEmptied DEF SessionEnds
  <2> QED
    BY <1>6, <2>2 DEF SessionEnds, RequestFramesTyped
<1>7. CASE DetachHub
  BY <1>7 DEF DetachHub, RequestFramesTyped
<1>8. CASE FlushPending
  <2>1. Response(503, TRUE, NoReq) \in Responses
    BY DEF Response, Responses, Statuses
  <2>2. oneshot' \in [Reqs -> Responses] /\ pending' \in [Sids -> Reqs \cup {NoReq}]
    BY <1>8, <2>1 DEF FlushPending
  <2> QED
    BY <1>8, <2>2 DEF FlushPending, RequestFramesTyped
<1> QED
  BY <1>1, <1>2, <1>3, <1>4, <1>5, <1>6, <1>7, <1>8 DEF SessionTask

(* Steps of tunnel-server and of the transport keep the types.             *)
LEMMA TypeInvServer ==
  ASSUME TypeInv, NEW k \in Sessions, Server(k) \/ NetFail(k) \/ DropReceiver(k)
  PROVE  TypeInv'
<1> USE DEF TypeInv, TypeOK, SendersHaveSid, RunningHasSession, client, transport, hub, handler
<1>0. ASSUME toHub[k] # << >>, toHub' = [toHub EXCEPT ![k] = Tail(@)]
      PROVE  /\ toHub' \in [Sessions -> Seq(HubFrames)]
             /\ RequestFramesTyped'
             /\ Head(toHub[k]) \in Elems(toHub[k])
  <2>1. \A l \in Sessions : toHub'[l] \in Seq(HubFrames) /\ Elems(toHub'[l]) \subseteq Elems(toHub[l])
    BY <1>0, ElemsTail
  <2> QED
    BY <1>0, <2>1, ElemsTail DEF RequestFramesTyped
<1>1. CASE RecvFirst(k)
  BY <1>0, <1>1 DEF RecvFirst
<1>2. CASE RecvRequest(k)
  <2> DEFINE f == Head(toHub[k])
  <2>1. f.sid \in Sids /\ f.req \in Reqs
    BY <1>0, <1>2 DEF RecvRequest, RequestFramesTyped
  <2>2. CASE /\ jobs' = jobs \cup {[sess |-> k, sid |-> f.sid, req |-> f.req, stage |-> "new"]}
             /\ UNCHANGED toSpoke
    <3>1. jobs' \subseteq Jobs
      BY <2>1, <2>2 DEF Jobs
    <3> QED
      BY <1>0, <1>2, <2>2, <3>1 DEF RecvRequest
  <2>3. CASE /\ SendToSpoke(k, HttpResponse(f.sid, Response(403, TRUE, f.req)))
             /\ UNCHANGED jobs
    <3>1. Response(403, TRUE, f.req) \in Responses
      BY <2>1 DEF Response, Responses, Statuses
    <3>2. HttpResponse(f.sid, Response(403, TRUE, f.req)) \in SpokeFrames
      BY <2>1, <3>1, Typed
    <3>3. toSpoke' \in [Sessions -> Seq(SpokeFrames)]
      BY <2>3, <3>2, SendTyped
    <3> QED
      BY <1>0, <1>2, <2>3, <3>3 DEF RecvRequest
  <2> QED
    BY <1>2, <2>2, <2>3 DEF RecvRequest
<1>3. CASE ServerEnds(k)
  <2>1. toHub' = [toHub EXCEPT ![k] = << >>]
    BY <1>3 DEF ServerEnds
  <2>2. /\ toHub' \in [Sessions -> Seq(HubFrames)] /\ Elems(<< >>) = {}
        /\ \A l \in Sessions : toHub'[l] = toHub[l] \/ toHub'[l] = << >>
    <3>1. toHub \in [Sessions -> Seq(HubFrames)]
      OBVIOUS
    <3> HIDE DEF TypeInv, TypeOK, SendersHaveSid, RunningHasSession
    <3> QED
      BY <2>1, <3>1, ElemsEmptied
  <2>3. RequestFramesTyped'
    BY <2>2 DEF RequestFramesTyped
  <2> QED
    BY <1>3, <2>2, <2>3 DEF ServerEnds
<1>4. CASE NetFail(k)
  BY <1>4 DEF NetFail, RequestFramesTyped
<1>5. CASE DropReceiver(k)
  BY <1>5 DEF DropReceiver, RequestFramesTyped
<1> QED
  BY <1>1, <1>2, <1>3, <1>4, <1>5 DEF Server

(* Steps of a handle_http_request task keep the types.                     *)
LEMMA TypeInvJob ==
  ASSUME TypeInv, NEW j \in jobs, Job(j)
  PROVE  TypeInv'
<1> USE DEF TypeInv, TypeOK, SendersHaveSid, RunningHasSession, client, transport, hub, handler
<1>0. j \in Jobs /\ j.sess \in Sessions /\ j.sid \in Sids /\ j.req \in Reqs
  BY DEF Jobs
<1>1. ASSUME NEW st \in {0, 200, 403}, NEW e \in BOOLEAN, JobReply(j, st, e)
      PROVE  TypeInv'
  <2>1. Response(st, e, j.req) \in Responses
    BY <1>0 DEF Response, Responses, Statuses
  <2>2. HttpResponse(j.sid, Response(st, e, j.req)) \in SpokeFrames
    BY <1>0, <2>1, Typed
  <2>3. toSpoke' \in [Sessions -> Seq(SpokeFrames)]
    BY <1>0, <1>1, <2>2, SendTyped DEF JobReply
  <2> QED
    BY <1>1, <2>3 DEF JobReply, RequestFramesTyped
<1>2. ASSUME NEW st \in {"forward", "executed"}, JobTo(j, st)
      PROVE  jobs' \subseteq Jobs
  BY <1>0, <1>2 DEF JobTo, Jobs
<1>3. CASE JobReject(j)
  BY <1>1, <1>3 DEF JobReject
<1>4. CASE JobForward(j)
  BY <1>2, <1>4 DEF JobForward, RequestFramesTyped
<1>5. CASE KernelExecutes(j)
  <2>1. kernel' \in [Reqs -> Nat]
    BY <1>0, <1>5 DEF KernelExecutes
  <2> QED
    BY <1>2, <1>5, <2>1 DEF KernelExecutes, RequestFramesTyped
<1>6. CASE JobUpstreamError(j)
  BY <1>1, <1>6 DEF JobUpstreamError
<1>7. CASE JobOk(j)
  BY <1>1, <1>7 DEF JobOk
<1> QED
  BY <1>3, <1>4, <1>5, <1>6, <1>7 DEF Job

(* So does a handler that is dropped.                                      *)
LEMMA TypeInvCallerGone ==
  ASSUME TypeInv, NEW r \in Reqs, CallerGone(r)
  PROVE  TypeInv'
BY DEF CallerGone, TypeInv, TypeOK, RequestFramesTyped, SendersHaveSid,
       RunningHasSession, client, transport, hub, handler

(* Every step keeps the types.                                             *)
LEMMA TypeInvStep == TypeInv /\ [Next]_vars => TypeInv'
<1> SUFFICES ASSUME TypeInv, [Next]_vars PROVE TypeInv'
  OBVIOUS
<1>1. CASE UNCHANGED vars
  BY <1>1 DEF vars, client, transport, hub, handler, TypeInv, TypeOK,
              RequestFramesTyped, SendersHaveSid, RunningHasSession
<1>2. CASE Next
  BY <1>2, TypeInvHandler, TypeInvCallerGone, TypeInvSession,
     TypeInvServer, TypeInvJob DEF Next
<1> QED
  BY <1>1, <1>2

(* Every variable of the HTTP proxy keeps its type, whatever requests,     *)
(* sessions and failures there are.                                        *)
THEOREM HttpTypeCorrect == Spec => []TypeOK
<1>1. TypeInv => TypeOK
  BY DEF TypeInv
<1> QED
  BY <1>1, TypeInvInit, TypeInvStep, PTL DEF Spec

-----------------------------------------------------------------------------
(* A request admitted                                                      *)

(* Only requests of application spokes become tasks, and only allowlisted  *)
(* ones go on to the kernel.                                               *)
JobsAdmitted ==
  \A j \in jobs : /\ kind = "application"
                  /\ j.stage # "new" => j.req \in AllowedReqs

AdmissionInv == JobsAdmitted /\ OnlyAdmittedExecuted

(* Nothing is executed before the first request.                           *)
LEMMA AdmissionInit == Init => AdmissionInv
BY DEF Init, AdmissionInv, JobsAdmitted, OnlyAdmittedExecuted

(* recv_loop looks at the kind of the spoke and the task at the allowlist  *)
(* before the kernel is called.                                            *)
LEMMA AdmissionStep == TypeInv /\ AdmissionInv /\ [Next]_vars => AdmissionInv'
<1> SUFFICES ASSUME TypeInv, AdmissionInv, [Next]_vars PROVE AdmissionInv'
  OBVIOUS
<1> USE DEF AdmissionInv, JobsAdmitted, OnlyAdmittedExecuted, client, transport, hub, handler
<1>0. ASSUME UNCHANGED <<kind, jobs, kernel>> PROVE AdmissionInv'
  BY <1>0
<1>1. CASE UNCHANGED vars
  BY <1>0, <1>1 DEF vars
<1>2. ASSUME NEW r \in Reqs, Handler(r) \/ CallerGone(r) PROVE AdmissionInv'
  BY <1>0, <1>2 DEF Handler, Start, ReadBody, GetTx, InsertPending, SendRequest,
       SendFailed, ReceiveResponse, Timeout, TimeoutRemove, CallerGone
<1>3. CASE SessionTask
  BY <1>0, <1>3 DEF SessionTask, OpenSession, OpenFailed, AttachHub, RecvChallenge,
       RecvHttpResponse, SessionEnds, DetachHub, FlushPending
<1>4. ASSUME NEW k \in Sessions, Server(k) \/ NetFail(k) \/ DropReceiver(k)
      PROVE  AdmissionInv'
  <2>1. CASE RecvRequest(k)
    <3>1. UNCHANGED <<kind, kernel>>
      BY <2>1 DEF RecvRequest
    <3>2. \/ UNCHANGED jobs
          \/ /\ kind = "application"
             /\ \E n, q : jobs' = jobs \cup {[sess |-> k, sid |-> n, req |-> q, stage |-> "new"]}
      BY <2>1 DEF RecvRequest
    <3> QED
      BY <3>1, <3>2
  <2> QED
    BY <1>0, <1>4, <2>1 DEF Server, RecvFirst, ServerEnds, NetFail, DropReceiver
<1>5. ASSUME NEW j \in jobs, Job(j) PROVE AdmissionInv'
  <2>0. j.req \in Reqs /\ kernel \in [Reqs -> Nat] /\ j \in Jobs
    BY DEF TypeInv, TypeOK, Jobs
  <2>1. ASSUME NEW st, NEW e, JobReply(j, st, e) PROVE AdmissionInv'
    BY <2>1 DEF JobReply
  <2>2. CASE JobForward(j)
    BY <2>0, <2>2 DEF JobForward, JobTo, Jobs
  <2>3. CASE KernelExecutes(j)
    <3>1. j.req \in AllowedReqs /\ kind = "application"
      BY <2>3 DEF KernelExecutes
    <3>2. JobsAdmitted'
      BY <2>0, <2>3, <3>1 DEF KernelExecutes, JobTo, Jobs
    <3>3. \A r \in Reqs : r # j.req => kernel'[r] = kernel[r]
      BY <2>0, <2>3 DEF KernelExecutes
    <3>4. UNCHANGED kind
      BY <2>3 DEF KernelExecutes
    <3> QED
      BY <3>1, <3>2, <3>3, <3>4
  <2> QED
    BY <1>5, <2>1, <2>2, <2>3 DEF Job, JobReject, JobUpstreamError, JobOk
<1> QED
  BY <1>1, <1>2, <1>3, <1>4, <1>5 DEF Next

(* The kernel executes only what tunnel-server admits, for every history   *)
(* of sessions and every allowlist.                                        *)
THEOREM OnlyAdmittedExecutedHolds == Spec => []OnlyAdmittedExecuted
<1>1. AdmissionInv => OnlyAdmittedExecuted
  BY DEF AdmissionInv
<1> QED
  BY <1>1, TypeInvInit, TypeInvStep, AdmissionInit, AdmissionStep, PTL DEF Spec

-----------------------------------------------------------------------------
(* Whose stream id, whose response                                         *)

(* Frames and tasks carry the stream id that their request allocated.      *)
FramesOwn ==
  \A k \in Sessions : \A f \in Elems(toHub[k]) :
    f.kind = "http_request" => sid[f.req] = f.sid

JobsOwn == \A j \in jobs : sid[j.req] = j.sid

(* A response frame answers the request that allocated its id, and its     *)
(* status is one that tunnel-server gives.                                 *)
ResponsesOwn ==
  \A k \in Sessions : \A f \in Elems(toSpoke[k]) :
    f.kind = "http_response" =>
      /\ f.resp.req \in Reqs /\ sid[f.resp.req] = f.sid
      /\ f.sid \in Sids /\ f.resp.status \in {0, 200, 403}

Traffic == FramesOwn /\ JobsOwn /\ ResponsesOwn

(* Ids are below the counter, and no two requests have the same.           *)
SidsFresh == \A r \in Reqs : sid[r] < stream_id_counter
SidsUnique == \A q, r \in Reqs : q # r /\ sid[q] = sid[r] => sid[q] = 0

(* Before the handler registers, it has no id and nothing to receive.      *)
NotYetRegistered ==
  \A r \in Reqs : pc[r] \in {"idle", "body", "gettx", "insert"} =>
    sid[r] = 0 /\ oneshot[r] = Empty

(* The oneshot of an entry in the map is not resolved yet.                 *)
PendingUnresolved ==
  \A n \in Sids : pending[n] # NoReq => oneshot[pending[n]] = Empty

(* No sender is dropped, and what arrives is for this request.             *)
OneshotOwn ==
  \A r \in Reqs : oneshot[r] # Dropped /\ oneshot[r].req \in {r, NoReq}

Registry ==
  /\ SidsFresh /\ SidsUnique /\ NotYetRegistered /\ LeakOnlyOnDisconnect
  /\ PendingUnresolved /\ NoSenderDropped /\ OneshotOwn /\ AnswerIsOwn

(* An empty and a dropped oneshot are told apart, and hold no response.    *)
LEMMA ConstantsDiffer ==
  /\ Empty # Dropped /\ Empty.req = NoReq
  /\ Empty.status = -1 /\ Dropped.status = -2
BY DEF Empty, Dropped, Response

(* No id is allocated and no frame is under way at the start.              *)
LEMMA OwnInit == Init => Traffic /\ Registry
<1> SUFFICES ASSUME Init PROVE Traffic /\ Registry
  OBVIOUS
<1>1. \A k \in Sessions : Elems(toHub[k]) = {} /\ Elems(toSpoke[k]) = {}
  BY DEF Init, Elems
<1>2. Traffic
  BY <1>1 DEF Init, Traffic, FramesOwn, JobsOwn, ResponsesOwn
<1>3. SidsFresh /\ SidsUnique /\ NotYetRegistered
  BY DEF Init, SidsFresh, SidsUnique, NotYetRegistered
<1>4. LeakOnlyOnDisconnect /\ PendingUnresolved /\ NoSenderDropped
  BY DEF Init, LeakOnlyOnDisconnect, PendingUnresolved, NoSenderDropped
<1>5. OneshotOwn
  BY ConstantsDiffer DEF Init, OneshotOwn
<1>6. AnswerIsOwn
  BY DEF Init, AnswerIsOwn, NoAnswer
<1> QED
  BY <1>2, <1>3, <1>4, <1>5, <1>6 DEF Registry

(* The steps that leave the client's registry alone.                       *)
LEMMA RegistryUnchanged ==
  ASSUME Registry, UNCHANGED <<pending, stream_id_counter, pc, sid, oneshot, answer>>
  PROVE  Registry'
BY DEF Registry, SidsFresh, SidsUnique, NotYetRegistered, LeakOnlyOnDisconnect,
       PendingUnresolved, NoSenderDropped, OneshotOwn, AnswerIsOwn

(* A task or a refusal answers with the id and the request it was given.   *)
LEMMA ResponsesOwnSend ==
  ASSUME TypeInv, ResponsesOwn, UNCHANGED sid,
         NEW k \in Sessions, NEW n \in Sids, NEW r \in Reqs, sid[r] = n,
         NEW st \in {0, 200, 403}, NEW e \in BOOLEAN,
         SendToSpoke(k, HttpResponse(n, Response(st, e, r)))
  PROVE  ResponsesOwn'
<1> DEFINE g == HttpResponse(n, Response(st, e, r))
<1>1. g \in SpokeFrames
  <2>1. Response(st, e, r) \in Responses
    BY DEF Response, Responses, Statuses
  <2> QED
    BY <2>1, Typed
<1>2. g.sid = n /\ g.resp.req = r /\ g.resp.status = st
  BY DEF HttpResponse, Response
<1>3. SendToSpoke(k, g)
  OBVIOUS
<1> HIDE DEF g
<1>4. \A l \in Sessions : Elems(toSpoke'[l]) \subseteq Elems(toSpoke[l]) \cup {g}
  <2>1. TypeOK
    BY DEF TypeInv
  <2> QED
    BY <1>1, <1>3, <2>1, SendTyped, SMTT(30)
<1> QED
  BY <1>2, <1>4 DEF ResponsesOwn

(* tunnel-server passes ids and requests on as it got them.                *)
LEMMA OwnServer ==
  ASSUME TypeInv, Traffic, Registry, NEW k \in Sessions,
         Server(k) \/ NetFail(k) \/ DropReceiver(k)
  PROVE  Traffic' /\ Registry'
<1> USE DEF Traffic, FramesOwn, client, transport, hub, handler
<1>0. Registry' /\ UNCHANGED sid
  BY RegistryUnchanged DEF Server, RecvFirst, RecvRequest, ServerEnds, NetFail, DropReceiver
<1>1. ASSUME toHub[k] # << >>, toHub' = [toHub EXCEPT ![k] = Tail(@)]
      PROVE  FramesOwn' /\ Head(toHub[k]) \in Elems(toHub[k])
  <2>1. toHub \in [Sessions -> Seq(HubFrames)]
    BY DEF TypeInv, TypeOK
  <2>2. \A l \in Sessions : Elems(toHub'[l]) \subseteq Elems(toHub[l])
    BY <1>1, <2>1, ElemsTail
  <2> QED
    BY <1>0, <1>1, <2>1, <2>2, ElemsTail
<1>2. CASE RecvFirst(k)
  BY <1>0, <1>1, <1>2 DEF RecvFirst, JobsOwn, ResponsesOwn
<1>3. CASE RecvRequest(k)
  <2> DEFINE f == Head(toHub[k])
  <2>1. f.sid \in Sids /\ f.req \in Reqs /\ sid[f.req] = f.sid
    BY <1>1, <1>3 DEF RecvRequest, TypeInv, RequestFramesTyped
  <2>2. FramesOwn'
    BY <1>1, <1>3 DEF RecvRequest
  <2>3. CASE /\ jobs' = jobs \cup {[sess |-> k, sid |-> f.sid, req |-> f.req, stage |-> "new"]}
             /\ UNCHANGED toSpoke
    BY <1>0, <2>1, <2>2, <2>3 DEF JobsOwn, ResponsesOwn
  <2>4. CASE /\ SendToSpoke(k, HttpResponse(f.sid, Response(403, TRUE, f.req)))
             /\ UNCHANGED jobs
    <3> HIDE DEF f
    <3>0. PICK e \in BOOLEAN, st \in {0, 200, 403} :
            SendToSpoke(k, HttpResponse(f.sid, Response(st, e, f.req)))
      BY <2>4, Zenon
    <3>1. ResponsesOwn'
      BY <1>0, <2>1, <3>0, ResponsesOwnSend
    <3> QED
      BY <1>0, <2>2, <2>4, <3>1 DEF JobsOwn
  <2> QED
    BY <1>3, <2>3, <2>4 DEF RecvRequest
<1>4. CASE ServerEnds(k)
  <2>1. toHub \in [Sessions -> Seq(HubFrames)]
    BY DEF TypeInv, TypeOK
  <2>2. \A l \in Sessions : Elems(toHub'[l]) \subseteq Elems(toHub[l])
    BY <1>4, <2>1, ElemsEmptied DEF ServerEnds
  <2> QED
    BY <1>0, <1>4, <2>2 DEF ServerEnds, JobsOwn, ResponsesOwn
<1>5. CASE NetFail(k) \/ DropReceiver(k)
  BY <1>0, <1>5 DEF NetFail, DropReceiver, JobsOwn, ResponsesOwn
<1> QED
  BY <1>2, <1>3, <1>4, <1>5 DEF Server

(* A task answers with the id it was spawned with.                         *)
LEMMA OwnJob ==
  ASSUME TypeInv, Traffic, Registry, NEW j \in jobs, Job(j)
  PROVE  Traffic' /\ Registry'
<1> USE DEF Traffic, client, transport, hub, handler
<1>0. j \in Jobs /\ j.sess \in Sessions /\ j.sid \in Sids /\ j.req \in Reqs
  BY DEF Jobs, TypeInv, TypeOK
<1>1. Registry' /\ UNCHANGED <<sid, toHub>>
  BY RegistryUnchanged DEF Job, JobReject, JobForward, KernelExecutes, JobUpstreamError, JobOk, JobReply
<1>2. FramesOwn'
  BY <1>1 DEF FramesOwn
<1>3. ASSUME NEW st \in {0, 200, 403}, NEW e \in BOOLEAN, JobReply(j, st, e)
      PROVE  Traffic'
  <2>1. ResponsesOwn'
    BY <1>0, <1>1, <1>3, ResponsesOwnSend DEF JobReply, JobsOwn
  <2> QED
    BY <1>1, <1>2, <1>3, <2>1 DEF JobReply, JobsOwn
<1>4. ASSUME NEW st, JobTo(j, st) PROVE JobsOwn'
  BY <1>0, <1>1, <1>4 DEF JobTo, JobsOwn, Jobs
<1>5. CASE JobForward(j) \/ KernelExecutes(j)
  BY <1>1, <1>2, <1>4, <1>5 DEF JobForward, KernelExecutes, ResponsesOwn
<1>6. CASE JobReject(j) \/ JobUpstreamError(j) \/ JobOk(j)
  <2>0. JobReply(j, 403, TRUE) \/ JobReply(j, 0, TRUE) \/ JobReply(j, 200, FALSE)
    BY <1>6, Zenon DEF JobReject, JobUpstreamError, JobOk
  <2>1. PICK st \in {0, 200, 403}, e \in BOOLEAN : JobReply(j, st, e)
    <3>1. CASE JobReply(j, 403, TRUE)
      BY <3>1, Zenon
    <3>2. CASE JobReply(j, 0, TRUE)
      BY <3>2, Zenon
    <3>3. CASE JobReply(j, 200, FALSE)
      BY <3>3, Zenon
    <3> QED
      BY <2>0, <3>1, <3>2, <3>3, Zenon
  <2>2. Traffic'
    BY <1>3, <2>1
  <2> QED
    BY <1>1, <2>2
<1> QED
  BY <1>5, <1>6, Zenon DEF Job

(* The session task resolves a oneshot with the response to its own        *)
(* request, or at the end of the session with a 503.                       *)
LEMMA OwnSession ==
  ASSUME TypeInv, Traffic, Registry, SessionTask
  PROVE  Traffic' /\ Registry'
<1> USE DEF Traffic, client, transport, hub, handler
<1>0. /\ toHub \in [Sessions -> Seq(HubFrames)]
      /\ toSpoke \in [Sessions -> Seq(SpokeFrames)]
      /\ sess \in 0..MaxSessions
  BY DEF TypeInv, TypeOK
<1>1. CASE OpenFailed \/ AttachHub \/ DetachHub
  <2>1. UNCHANGED <<pending, stream_id_counter, pc, sid, oneshot, answer, toHub, toSpoke, jobs>>
    BY <1>1 DEF OpenFailed, AttachHub, DetachHub
  <2> QED
    BY <2>1, RegistryUnchanged DEF FramesOwn, JobsOwn, ResponsesOwn
<1>6. CASE SessionEnds
  <2>1. UNCHANGED <<pending, stream_id_counter, pc, sid, oneshot, answer, toHub, jobs>>
    BY <1>6 DEF SessionEnds
  <2>2. sess \in Sessions
    BY <1>6 DEF SessionEnds, TypeInv, RunningHasSession, Sessions, TypeOK
  <2>3. \A k \in Sessions : Elems(toSpoke'[k]) \subseteq Elems(toSpoke[k])
    BY <1>0, <1>6, <2>2, ElemsEmptied DEF SessionEnds
  <2> QED
    BY <2>1, <2>3, RegistryUnchanged DEF FramesOwn, JobsOwn, ResponsesOwn
<1>2. CASE OpenSession
  <2>1. UNCHANGED <<pending, stream_id_counter, pc, sid, oneshot, answer, toHub, jobs>>
    BY <1>2 DEF OpenSession
  <2>2. Elems(<<Challenge>>) = {Challenge} /\ Challenge.kind # "http_response"
    BY DEF Elems, Challenge
  <2>3. \A k \in Sessions : toSpoke'[k] = toSpoke[k] \/ toSpoke'[k] = <<Challenge>>
    BY <1>0, <1>2 DEF OpenSession
  <2>4. ResponsesOwn'
    BY <2>1, <2>2, <2>3 DEF ResponsesOwn
  <2> QED
    BY <2>1, <2>4, RegistryUnchanged DEF FramesOwn, JobsOwn
<1>3. CASE RecvChallenge
  <2>1. UNCHANGED <<pending, stream_id_counter, pc, sid, oneshot, answer, jobs>>
    BY <1>3 DEF RecvChallenge
  <2>2. sess \in Sessions
    BY <1>0, <1>3 DEF RecvChallenge, TypeInv, RunningHasSession, Sessions
  <2>3. \A k \in Sessions : Elems(toSpoke'[k]) \subseteq Elems(toSpoke[k])
    BY <1>0, <1>3, <2>2, ElemsTail DEF RecvChallenge
  <2>4. \A k \in Sessions : Elems(toHub'[k]) \subseteq Elems(toHub[k]) \cup {Handshake}
    <3>1. \A k \in Sessions : toHub'[k] = toHub[k] \/ toHub'[k] = Append(toHub[k], Handshake)
      BY <1>0, <1>3 DEF RecvChallenge
    <3>2. \A k \in Sessions :
            Elems(Append(toHub[k], Handshake)) = Elems(toHub[k]) \cup {Handshake}
      BY <1>0, ElemsAppend, Typed
    <3> QED
      BY <3>1, <3>2
  <2>5. Handshake.kind # "http_request"
    BY DEF Handshake
  <2>6. FramesOwn'
    BY <2>1, <2>4, <2>5 DEF FramesOwn
  <2>7. ResponsesOwn'
    BY <2>1, <2>3 DEF ResponsesOwn
  <2> QED
    BY <2>1, <2>6, <2>7, RegistryUnchanged DEF JobsOwn
<1>4. CASE RecvHttpResponse
  <2> DEFINE f == Head(toSpoke[sess])
  <2>1. UNCHANGED <<stream_id_counter, pc, sid, answer, jobs, toHub>>
    BY <1>4 DEF RecvHttpResponse
  <2>2. sess \in Sessions
    BY <1>0, <1>4 DEF RecvHttpResponse, TypeInv, RunningHasSession, Sessions
  <2>3. /\ \A k \in Sessions : Elems(toSpoke'[k]) \subseteq Elems(toSpoke[k])
        /\ f \in Elems(toSpoke[sess])
    BY <1>0, <1>4, <2>2, ElemsTail DEF RecvHttpResponse
  <2>4. /\ f.resp.req \in Reqs /\ sid[f.resp.req] = f.sid
        /\ f.sid \in Sids /\ f.resp.status \in {0, 200, 403}
    BY <1>4, <2>2, <2>3 DEF RecvHttpResponse, ResponsesOwn
  <2>5. f.resp # Empty /\ f.resp # Dropped
    BY <2>4, ConstantsDiffer
  <2>6. ResponsesOwn' /\ FramesOwn' /\ JobsOwn'
    BY <2>1, <2>3 DEF ResponsesOwn, FramesOwn, JobsOwn
  <2>7. /\ pending' = [pending EXCEPT ![f.sid] = NoReq]
        /\ oneshot' = [q \in Reqs |-> IF q = pending[f.sid] THEN f.resp ELSE oneshot[q]]
    BY <1>4 DEF RecvHttpResponse, Deliver
  <2> HIDE DEF f
  <2> QED
    <3>0. /\ pending \in [Sids -> Reqs \cup {NoReq}]
          /\ sid \in [Reqs -> Sids \cup {0}] /\ 0 \notin Sids
      BY DEF TypeInv, TypeOK, Sids
    <3>1. \A q \in Reqs : q = pending[f.sid] => q = f.resp.req
      BY <2>4, <3>0 DEF Registry, LeakOnlyOnDisconnect, SidsUnique
    <3>2. SidsFresh' /\ SidsUnique' /\ AnswerIsOwn'
      BY <2>1 DEF Registry, SidsFresh, SidsUnique, AnswerIsOwn
    <3>3. LeakOnlyOnDisconnect'
      BY <2>1, <2>7, <3>0 DEF Registry, LeakOnlyOnDisconnect
    <3>4. NotYetRegistered'
      BY <2>1, <2>4, <2>7, <3>0 DEF Registry, NotYetRegistered, LeakOnlyOnDisconnect
    <3>5. PendingUnresolved'
      <4> SUFFICES ASSUME NEW n \in Sids, pending'[n] # NoReq
                   PROVE  oneshot'[pending'[n]] = Empty
        BY DEF PendingUnresolved
      <4>1. n # f.sid /\ pending'[n] = pending[n] /\ pending[n] \in Reqs
        BY <2>4, <2>7, <3>0
      <4>2. sid[pending[n]] = n /\ oneshot[pending[n]] = Empty
        BY <4>1, <3>0 DEF Registry, LeakOnlyOnDisconnect, PendingUnresolved
      <4>3. pending[n] # pending[f.sid]
        BY <2>4, <3>0, <4>1, <4>2 DEF Registry, LeakOnlyOnDisconnect
      <4> QED
        BY <2>7, <4>1, <4>2, <4>3
    <3>6. NoSenderDropped'
      BY <2>1, <2>4, <2>5, <2>7, <3>0 DEF Registry, NoSenderDropped, LeakOnlyOnDisconnect, TypeInv, SendersHaveSid
    <3>7. OneshotOwn'
      BY <2>5, <2>7, <3>1 DEF Registry, OneshotOwn
    <3> QED
      BY <2>6, <3>2, <3>3, <3>4, <3>5, <3>6, <3>7 DEF Registry
<1>5. CASE FlushPending
  <2> DEFINE v == Response(503, TRUE, NoReq)
  <2>1. UNCHANGED <<stream_id_counter, pc, sid, answer, jobs, toHub, toSpoke>>
    BY <1>5 DEF FlushPending
  <2>2. v # Empty /\ v # Dropped /\ v.req = NoReq
    BY DEF Response, Empty, Dropped
  <2>3. /\ pending' = [n \in Sids |-> NoReq]
        /\ oneshot' = [q \in Reqs |-> IF \E n \in Sids : pending[n] = q THEN v ELSE oneshot[q]]
    BY <1>5 DEF FlushPending
  <2> HIDE DEF v
  <2>4. /\ pending \in [Sids -> Reqs \cup {NoReq}]
        /\ sid \in [Reqs -> Sids \cup {0}]
    BY DEF TypeInv, TypeOK
  <2>5. ResponsesOwn' /\ FramesOwn' /\ JobsOwn'
    BY <2>1 DEF ResponsesOwn, FramesOwn, JobsOwn
  <2>6. SidsFresh' /\ SidsUnique' /\ AnswerIsOwn'
    BY <2>1 DEF Registry, SidsFresh, SidsUnique, AnswerIsOwn
  <2>7. LeakOnlyOnDisconnect' /\ PendingUnresolved'
    BY <2>3 DEF LeakOnlyOnDisconnect, PendingUnresolved
  <2>8. NotYetRegistered'
    BY <2>1, <2>3, <2>4 DEF Registry, NotYetRegistered, LeakOnlyOnDisconnect
  <2>9. NoSenderDropped'
    BY <2>1, <2>2, <2>3, <2>4 DEF Registry, NoSenderDropped, TypeInv, SendersHaveSid
  <2>10. OneshotOwn'
    BY <2>2, <2>3 DEF Registry, OneshotOwn
  <2> QED
    BY <2>5, <2>6, <2>7, <2>8, <2>9, <2>10 DEF Registry
<1> QED
  BY <1>1, <1>2, <1>3, <1>4, <1>5, <1>6 DEF SessionTask

(* handle_http_proxy allocates a fresh id, and leaves the map on every     *)
(* exit.                                                                   *)
LEMMA OwnHandler ==
  ASSUME TypeInv, Traffic, Registry, NEW r \in Reqs, Handler(r)
  PROVE  Traffic' /\ Registry'
<1> USE DEF client, transport, hub, handler
<1>0. /\ pc \in [Reqs -> {"idle", "body", "gettx", "insert", "send", "wait", "timedout", "done", "gone"}]
      /\ answer \in [Reqs -> Answers \cup {NoAnswer}]
      /\ pending \in [Sids -> Reqs \cup {NoReq}]
      /\ sid \in [Reqs -> Sids \cup {0}] /\ 0 \notin Sids
      /\ toHub \in [Sessions -> Seq(HubFrames)]
      /\ stream_id_counter \in Nat
  BY DEF TypeInv, TypeOK, Sids
<1>1. ASSUME UNCHANGED <<sid, toHub, toSpoke, jobs>> PROVE Traffic'
  BY <1>1 DEF Traffic, FramesOwn, JobsOwn, ResponsesOwn
(* Moves of the program counter that neither register nor leave.           *)
<1>2. ASSUME NEW to \in {"body", "gettx", "insert", "wait", "timedout"},
             pc[r] \in {"idle", "body", "gettx"} => to \in {"body", "gettx", "insert"},
             pc[r] \in {"send", "wait"} => to \in {"wait", "timedout"},
             pc[r] \in {"idle", "body", "gettx", "send", "wait"},
             pc' = [pc EXCEPT ![r] = to],
             UNCHANGED <<pending, stream_id_counter, sid, oneshot, answer>>
      PROVE  Registry'
  <2>1. SidsFresh' /\ SidsUnique' /\ PendingUnresolved' /\ OneshotOwn' /\ AnswerIsOwn'
    BY <1>2 DEF Registry, SidsFresh, SidsUnique, PendingUnresolved, OneshotOwn, AnswerIsOwn
  <2>2. NotYetRegistered' /\ NoSenderDropped'
    BY <1>0, <1>2 DEF Registry, NotYetRegistered, NoSenderDropped
  <2>3. LeakOnlyOnDisconnect'
    BY <1>0, <1>2 DEF Registry, LeakOnlyOnDisconnect
  <2> QED
    BY <2>1, <2>2, <2>3 DEF Registry
(* An answer to r, which is in no entry of the map afterwards.             *)
<1>3. ASSUME NEW a, Reply(r, a), a.req \in {r, NoReq},
             UNCHANGED <<stream_id_counter, sid, oneshot>>,
             \/ UNCHANGED pending /\ pc[r] \notin {"send", "timedout", "gone"}
                /\ (pc[r] = "wait" => oneshot[r] # Empty)
             \/ pc[r] \in {"send", "timedout"} /\ pending' = [pending EXCEPT ![sid[r]] = NoReq]
      PROVE  Registry'
  <2>0. /\ pc' = [pc EXCEPT ![r] = "done"]
        /\ answer' = [answer EXCEPT ![r] = a]
    BY <1>3 DEF Reply
  <2>1. SidsFresh' /\ SidsUnique' /\ OneshotOwn'
    BY <1>3 DEF Registry, SidsFresh, SidsUnique, OneshotOwn
  <2>2. AnswerIsOwn'
    BY <1>0, <1>3, <2>0 DEF Registry, AnswerIsOwn
  <2>3. NotYetRegistered'
    BY <1>0, <1>3, <2>0 DEF Registry, NotYetRegistered
  <2>4. \A n \in Sids : pending'[n] # NoReq => pending'[n] = pending[n] /\ pending[n] # r
    <3>1. CASE UNCHANGED pending /\ pc[r] \notin {"send", "timedout", "gone"}
               /\ (pc[r] = "wait" => oneshot[r] # Empty)
      BY <1>0, <3>1 DEF Registry, LeakOnlyOnDisconnect, PendingUnresolved
    <3>2. CASE pc[r] \in {"send", "timedout"} /\ pending' = [pending EXCEPT ![sid[r]] = NoReq]
      BY <1>0, <3>2 DEF Registry, LeakOnlyOnDisconnect
    <3> QED
      BY <1>3, <3>1, <3>2
  <2>5. LeakOnlyOnDisconnect' /\ PendingUnresolved'
    BY <1>0, <1>3, <2>0, <2>4 DEF Registry, LeakOnlyOnDisconnect, PendingUnresolved
  <2>6. NoSenderDropped'
    <3> SUFFICES ASSUME NEW q \in Reqs, pc'[q] \in {"send", "wait"}
                 PROVE  /\ oneshot[q] # Dropped
                        /\ oneshot[q] = Empty => pending'[sid[q]] = q
      BY <1>3 DEF NoSenderDropped
    <3>1. q # r /\ pc[q] \in {"send", "wait"}
      BY <1>0, <2>0
    <3>2. /\ oneshot[q] # Dropped
          /\ oneshot[q] = Empty => pending[sid[q]] = q
      BY <3>1 DEF Registry, NoSenderDropped
    <3>3. sid[q] # 0 /\ sid[q] # sid[r] /\ sid[q] \in Sids
      BY <1>0, <3>1 DEF Registry, SidsUnique, TypeInv, SendersHaveSid
    <3>4. pending'[sid[q]] = pending[sid[q]]
      BY <1>0, <1>3, <3>3
    <3> QED
      BY <3>2, <3>4
  <2> QED
    BY <2>1, <2>2, <2>3, <2>5, <2>6 DEF Registry
<1>4. CASE Start(r)
  BY <1>1, <1>2, <1>4 DEF Start
<1>5. CASE ReadBody(r)
  <2>1. Local(400, "bad_body").req = NoReq
    BY DEF Local
  <2>2. CASE pc' = [pc EXCEPT ![r] = "gettx"] /\ UNCHANGED answer
    BY <1>1, <1>2, <1>5, <2>2 DEF ReadBody
  <2>3. CASE Reply(r, Local(400, "bad_body"))
    BY <1>1, <1>3, <1>5, <2>1, <2>3 DEF ReadBody
  <2> QED
    BY <1>5, <2>2, <2>3 DEF ReadBody
<1>6. CASE GetTx(r)
  <2>1. Local(503, "not_connected").req = NoReq
    BY DEF Local
  <2>2. CASE pc' = [pc EXCEPT ![r] = "insert"] /\ UNCHANGED answer
    BY <1>1, <1>2, <1>6, <2>2 DEF GetTx
  <2>3. CASE Reply(r, Local(503, "not_connected"))
    BY <1>1, <1>3, <1>6, <2>1, <2>3 DEF GetTx
  <2> QED
    BY <1>6, <2>2, <2>3 DEF GetTx
<1>7. CASE SendRequest(r)
  <2> DEFINE f == HttpRequest(sid[r], r)
  <2>1. Registry' /\ UNCHANGED <<sid, jobs, toSpoke>>
    BY <1>2, <1>7 DEF SendRequest
  <2>2. f \in HubFrames /\ f.sid = sid[r] /\ f.req = r
    <3>1. sid[r] \in Sids
      BY <1>0, <1>7 DEF SendRequest, TypeInv, SendersHaveSid
    <3> QED
      BY <3>1, Typed DEF HttpRequest
  <2>3. \A k \in Sessions : toHub'[k] = toHub[k] \/ toHub'[k] = Append(toHub[k], f)
    BY <1>0, <1>7 DEF SendRequest
  <2> HIDE DEF f
  <2>4. \A k \in Sessions : Elems(Append(toHub[k], f)) = Elems(toHub[k]) \cup {f}
    BY <1>0, <2>2, ElemsAppend
  <2>5. FramesOwn'
    BY <2>1, <2>2, <2>3, <2>4 DEF Traffic, FramesOwn
  <2> QED
    BY <2>1, <2>5 DEF Traffic, JobsOwn, ResponsesOwn
<1>8. CASE SendFailed(r)
  <2>1. Local(503, "send_failed").req = NoReq
    BY DEF Local
  <2> QED
    BY <1>1, <1>3, <1>8, <2>1 DEF SendFailed
<1>9. CASE ReceiveResponse(r)
  <2>1. OneshotAnswer(oneshot[r]).req \in {r, NoReq}
    BY DEF OneshotAnswer, Registry, OneshotOwn
  <2> QED
    BY <1>1, <1>3, <1>9, <2>1 DEF ReceiveResponse
<1>10. CASE Timeout(r)
  BY <1>1, <1>2, <1>10 DEF Timeout
<1>11. CASE TimeoutRemove(r)
  <2>1. Local(504, "timeout").req = NoReq
    BY DEF Local
  <2> QED
    BY <1>1, <1>3, <1>11, <2>1 DEF TimeoutRemove
(* The id is new, so no entry is overwritten and no frame carries it.      *)
<1>12. CASE InsertPending(r)
  <2> DEFINE n == stream_id_counter
  <2>1. /\ n \in Sids /\ n \in Nat /\ n' = n + 1
        /\ sid' = [sid EXCEPT ![r] = n]
        /\ pending' = [pending EXCEPT ![n] = r]
        /\ pc[r] = "insert" /\ pc' = [pc EXCEPT ![r] = "send"]
        /\ UNCHANGED <<answer, toHub, toSpoke, jobs>>
    BY <1>12 DEF InsertPending, next_stream_id, Sids, TypeInv, TypeOK
  <2>2. sid[r] = 0 /\ oneshot[r] = Empty
    BY <2>1 DEF Registry, NotYetRegistered
  <2>3. pending[n] = NoReq
    BY <1>0, <2>1 DEF Registry, LeakOnlyOnDisconnect, SidsFresh
  <2>4. \A q \in Reqs : oneshot'[q] = oneshot[q]
    BY <1>12, <2>3 DEF InsertPending, next_stream_id
  <2>5. \A q \in Reqs : q # r => sid'[q] = sid[q] /\ pc'[q] = pc[q] /\ sid[q] # n
    BY <1>0, <2>1 DEF Registry, SidsFresh
  <2>6. sid'[r] = n /\ pc'[r] = "send" /\ n # 0
    BY <1>0, <2>1
  <2>7. Traffic'
    <3>1. FramesOwn'
      BY <1>0, <2>1, <2>2, <2>5 DEF Traffic, FramesOwn, TypeInv, RequestFramesTyped
    <3>2. JobsOwn'
      <4>1. \A j \in jobs : j.sid \in Sids /\ j.req \in Reqs
        BY DEF TypeInv, TypeOK, Jobs
      <4> QED
        BY <1>0, <2>1, <2>2, <2>5, <4>1 DEF Traffic, JobsOwn
    <3>3. ResponsesOwn'
      BY <1>0, <2>1, <2>2, <2>5 DEF Traffic, ResponsesOwn
    <3> QED
      BY <3>1, <3>2, <3>3 DEF Traffic
  <2>8. SidsFresh'
    BY <1>0, <2>1, <2>5, <2>6 DEF Registry, SidsFresh, Sids
  <2>9. SidsUnique'
    BY <2>5, <2>6 DEF Registry, SidsUnique
  <2>10. NotYetRegistered' /\ OneshotOwn' /\ AnswerIsOwn'
    BY <2>1, <2>4, <2>5, <2>6 DEF Registry, NotYetRegistered, OneshotOwn, AnswerIsOwn
  <2>11. \A m \in Sids : m # n => pending'[m] = pending[m] /\ pending[m] # r
    BY <1>0, <2>1, <2>2 DEF Registry, LeakOnlyOnDisconnect
  <2>12. pending'[n] = r
    BY <1>0, <2>1
  <2>13. LeakOnlyOnDisconnect'
    BY <1>0, <2>5, <2>6, <2>11, <2>12 DEF Registry, LeakOnlyOnDisconnect
  <2>14. PendingUnresolved'
    BY <1>0, <2>2, <2>4, <2>11, <2>12 DEF Registry, PendingUnresolved
  <2>15. NoSenderDropped'
    <3> SUFFICES ASSUME NEW q \in Reqs, pc'[q] \in {"send", "wait"}
                 PROVE  /\ oneshot'[q] # Dropped
                        /\ oneshot'[q] = Empty => pending'[sid'[q]] = q
      BY DEF NoSenderDropped
    <3>1. CASE q = r
      BY <2>2, <2>4, <2>6, <2>12, <3>1, ConstantsDiffer
    <3>2. CASE q # r
      <4>1. sid[q] \in Sids /\ sid[q] # n /\ pc[q] \in {"send", "wait"}
        BY <1>0, <2>5, <3>2 DEF TypeInv, SendersHaveSid
      <4> QED
        BY <2>4, <2>5, <2>11, <3>2, <4>1 DEF Registry, NoSenderDropped
    <3> QED
      BY <3>1, <3>2
  <2> QED
    BY <2>7, <2>8, <2>9, <2>10, <2>13, <2>14, <2>15 DEF Registry
<1> QED
  BY <1>4, <1>5, <1>6, <1>7, <1>8, <1>9, <1>10, <1>11, <1>12 DEF Handler

(* A handler that is dropped leaves its entry, which no one else may take. *)
LEMMA OwnCallerGone ==
  ASSUME TypeInv, Traffic, Registry, NEW r \in Reqs, CallerGone(r)
  PROVE  Traffic' /\ Registry'
<1>1. /\ pc \in [Reqs -> {"idle", "body", "gettx", "insert", "send", "wait",
                         "timedout", "done", "gone"}]
      /\ pc' = [pc EXCEPT ![r] = "gone"]
      /\ UNCHANGED <<pending, stream_id_counter, sid, oneshot, answer,
                     toHub, toSpoke, jobs>>
  BY DEF CallerGone, TypeInv, TypeOK, transport, hub
<1>2. \A q \in Reqs : pc'[q] = pc[q] \/ pc'[q] = "gone"
  BY <1>1
<1>3. SidsFresh' /\ SidsUnique' /\ PendingUnresolved' /\ OneshotOwn' /\ AnswerIsOwn'
  BY <1>1 DEF Registry, SidsFresh, SidsUnique, PendingUnresolved, OneshotOwn, AnswerIsOwn
<1>4. NotYetRegistered' /\ NoSenderDropped'
  BY <1>1, <1>2 DEF Registry, NotYetRegistered, NoSenderDropped
<1>5. LeakOnlyOnDisconnect'
  BY <1>1, <1>2 DEF Registry, LeakOnlyOnDisconnect, TypeInv, TypeOK
<1> QED
  BY <1>1, <1>3, <1>4, <1>5 DEF Registry, Traffic, FramesOwn, JobsOwn, ResponsesOwn

(* Every step keeps the ids, the frames and the registry consistent.       *)
LEMMA OwnStep == TypeInv /\ Traffic /\ Registry /\ [Next]_vars => Traffic' /\ Registry'
<1> SUFFICES ASSUME TypeInv, Traffic, Registry, [Next]_vars
             PROVE  Traffic' /\ Registry'
  OBVIOUS
<1>1. CASE UNCHANGED vars
  BY <1>1, RegistryUnchanged DEF vars, client, transport, hub, handler,
       Traffic, FramesOwn, JobsOwn, ResponsesOwn
<1>2. CASE Next
  BY <1>2, OwnHandler, OwnCallerGone, OwnSession, OwnServer, OwnJob DEF Next
<1> QED
  BY <1>1, <1>2

(* No caller of the proxy gets the response to another request: whatever   *)
(* the number of sessions, the timeouts and the late responses.            *)
THEOREM AnswerIsOwnHolds == Spec => []AnswerIsOwn
<1>1. Registry => AnswerIsOwn
  BY DEF Registry
<1> QED
  BY <1>1, TypeInvInit, TypeInvStep, OwnInit, OwnStep, PTL DEF Spec

(* An entry of SharedProxyState.pending belongs to a handler that is still *)
(* going to remove it or be answered, or to one whose caller hung up.      *)
THEOREM LeakOnlyOnDisconnectHolds == Spec => []LeakOnlyOnDisconnect
<1>1. Registry => LeakOnlyOnDisconnect
  BY DEF Registry
<1> QED
  BY <1>1, TypeInvInit, TypeInvStep, OwnInit, OwnStep, PTL DEF Spec

(* A waiting handler's oneshot sender is in the map or has been used: the  *)
(* "response channel closed" arm of handle_http_proxy is dead code.        *)
THEOREM NoSenderDroppedHolds == Spec => []NoSenderDropped
<1>1. Registry => NoSenderDropped
  BY DEF Registry
<1> QED
  BY <1>1, TypeInvInit, TypeInvStep, OwnInit, OwnStep, PTL DEF Spec

-----------------------------------------------------------------------------
(* The fate of a request                                                   *)

(* The requests that the frames of a queue carry, each in one frame.       *)
Carried(q) == {f.req : f \in {g \in Elems(q) : g.kind = "http_request"}}

Distinct(q) ==
  \A i, j \in DOMAIN q :
    (/\ q[i].kind = "http_request" /\ q[j].kind = "http_request"
     /\ q[i].req = q[j].req) => i = j

(* No request is twice on its way to tunnel-server, over all sessions.     *)
SentOnce ==
  /\ \A k \in Sessions : Distinct(toHub[k])
  /\ \A k, l \in Sessions : k # l => Carried(toHub[k]) \cap Carried(toHub[l]) = {}

(* Where a request may still be: in a queue, in a task, in a response.     *)
Framed(r) == \E k \in Sessions : r \in Carried(toHub[k])
JobsOf(r) == {j \in jobs : j.req = r}
RepliesTo(r) ==
  {v \in Responses : \E k \in Sessions : \E f \in Elems(toSpoke[k]) :
     f.kind = "http_response" /\ f.resp = v /\ v.req = r}

(* The kernel has not executed the request, and nothing is left that could *)
(* make it.                                                                *)
NeverRuns(r) == kernel[r] = 0 /\ ~Framed(r) /\ JobsOf(r) = {}

(* A 200 tells of an execution, a 403 rules it out.                        *)
Truthful(v, r) ==
  /\ v.status = 200 => kernel[r] = 1
  /\ v.status = 403 => NeverRuns(r)

(* A frame or a task is the only trace of its request, and the kernel has  *)
(* been called exactly if the task is past that point.                     *)
OneTrace(r) ==
  /\ Framed(r) => kernel[r] = 0 /\ JobsOf(r) = {}
  /\ \A j \in JobsOf(r) :
       /\ JobsOf(r) = {j}
       /\ kernel[r] = IF j.stage = "executed" THEN 1 ELSE 0

Unsent == {"idle", "body", "gettx", "insert", "send"}

(* Until the frame is sent nobody has seen the request.                    *)
UnsentUnseen(r) ==
  pc[r] \in Unsent =>
    NeverRuns(r) /\ RepliesTo(r) = {} /\ oneshot[r].status \notin {200, 403}

RepliesTruthful(r) == \A v \in RepliesTo(r) \cup {oneshot[r]} : Truthful(v, r)

AnswerTruthful(r) ==
  /\ pc[r] # "done" => answer[r] = NoAnswer
  /\ Verdict(answer[r]) = "refused" => NeverRuns(r)

Fate(r) == OneTrace(r) /\ UnsentUnseen(r) /\ RepliesTruthful(r) /\ AnswerTruthful(r)

Fates == \A r \in Reqs : Fate(r)

(* A frame joins the end of a queue: a request that was not in it is there *)
(* once, and any other frame changes nothing.                              *)
LEMMA CarriedAppend ==
  ASSUME NEW q \in Seq(HubFrames), NEW e \in HubFrames, Distinct(q),
         e.kind = "http_request" => e.req \notin Carried(q)
  PROVE  /\ Distinct(Append(q, e))
         /\ Carried(Append(q, e)) =
              Carried(q) \cup (IF e.kind = "http_request" THEN {e.req} ELSE {})
<1>1. Elems(Append(q, e)) = Elems(q) \cup {e}
  BY ElemsAppend
<1>2. Carried(Append(q, e)) =
        Carried(q) \cup (IF e.kind = "http_request" THEN {e.req} ELSE {})
  BY <1>1 DEF Carried
<1>3. /\ DOMAIN Append(q, e) = 1..(Len(q) + 1) /\ Len(q) \in Nat
      /\ DOMAIN q = 1..Len(q)
      /\ \A i \in 1..Len(q) : Append(q, e)[i] = q[i]
      /\ Append(q, e)[Len(q) + 1] = e
  OBVIOUS
<1>4. \A i \in 1..Len(q) : q[i].kind = "http_request" => q[i].req \in Carried(q)
  BY <1>3 DEF Carried, Elems
<1>5. Distinct(Append(q, e))
  <2> SUFFICES ASSUME NEW i \in 1..(Len(q) + 1), NEW j \in 1..(Len(q) + 1),
                      Append(q, e)[i].kind = "http_request",
                      Append(q, e)[j].kind = "http_request",
                      Append(q, e)[i].req = Append(q, e)[j].req
               PROVE  i = j
    BY <1>3 DEF Distinct
  <2>1. CASE i \in 1..Len(q) /\ j \in 1..Len(q)
    BY <1>3, <2>1 DEF Distinct
  <2>2. CASE i = Len(q) + 1 /\ j \in 1..Len(q)
    BY <1>3, <1>4, <2>2
  <2>3. CASE j = Len(q) + 1 /\ i \in 1..Len(q)
    BY <1>3, <1>4, <2>3
  <2> QED
    BY <1>3, <2>1, <2>2, <2>3
<1> QED
  BY <1>2, <1>5

(* A request whose frame is read is no longer in the queue.                *)
LEMMA CarriedTail ==
  ASSUME NEW q \in Seq(HubFrames), q # << >>, Distinct(q)
  PROVE  /\ Distinct(Tail(q))
         /\ Carried(Tail(q)) \subseteq Carried(q)
         /\ Head(q).kind = "http_request" =>
              Head(q).req \in Carried(q) /\ Head(q).req \notin Carried(Tail(q))
<1>1. Len(q) \in Nat \ {0} /\ DOMAIN q = 1..Len(q)
  OBVIOUS
<1>2. DOMAIN Tail(q) = 1..(Len(q) - 1)
  OBVIOUS
<1>3. \A i \in 1..(Len(q) - 1) : Tail(q)[i] = q[i + 1] /\ i + 1 \in 1..Len(q) /\ i + 1 # 1
  BY <1>1
<1>4. Head(q) = q[1] /\ 1 \in 1..Len(q)
  BY <1>1
<1>5. Distinct(Tail(q))
  <2> SUFFICES ASSUME NEW i \in 1..(Len(q) - 1), NEW j \in 1..(Len(q) - 1),
                      Tail(q)[i].kind = "http_request",
                      Tail(q)[j].kind = "http_request",
                      Tail(q)[i].req = Tail(q)[j].req
               PROVE  i = j
    BY <1>2 DEF Distinct
  <2>1. i + 1 = j + 1
    BY <1>1, <1>3 DEF Distinct
  <2> QED
    BY <2>1, <1>1
<1>6. Carried(Tail(q)) \subseteq Carried(q)
  BY ElemsTail DEF Carried
<1>7. ASSUME Head(q).kind = "http_request", Head(q).req \in Carried(Tail(q))
      PROVE  FALSE
  <2>1. PICK i \in 1..(Len(q) - 1) :
          Tail(q)[i].kind = "http_request" /\ Tail(q)[i].req = Head(q).req
    BY <1>2, <1>7 DEF Carried, Elems
  <2>2. q[i + 1].kind = "http_request" /\ q[i + 1].req = q[1].req
    BY <2>1, <1>3, <1>4
  <2> QED
    BY <2>2, <1>1, <1>3, <1>4, <1>7 DEF Distinct
<1>8. Head(q).kind = "http_request" => Head(q).req \in Carried(q)
  BY <1>1, <1>4 DEF Carried, Elems
<1> QED
  BY <1>5, <1>6, <1>7, <1>8

(* tunnel-server reads a frame: its request is in no queue any more.       *)
LEMMA HubReads ==
  ASSUME TypeInv, SentOnce, NEW k \in Sessions, toHub[k] # << >>,
         toHub' = [toHub EXCEPT ![k] = Tail(@)]
  PROVE  /\ SentOnce'
         /\ \A r \in Reqs : Framed(r)' => Framed(r)
         /\ \A r \in Reqs :
              Head(toHub[k]).kind = "http_request" /\ Head(toHub[k]).req = r
                => Framed(r) /\ ~Framed(r)'
<1>0. toHub \in [Sessions -> Seq(HubFrames)]
  BY DEF TypeInv, TypeOK
<1>1. \A l \in Sessions : toHub'[l] = IF l = k THEN Tail(toHub[k]) ELSE toHub[l]
  BY <1>0
<1>2. /\ Distinct(Tail(toHub[k]))
      /\ Carried(Tail(toHub[k])) \subseteq Carried(toHub[k])
      /\ Head(toHub[k]).kind = "http_request" =>
           /\ Head(toHub[k]).req \in Carried(toHub[k])
           /\ Head(toHub[k]).req \notin Carried(Tail(toHub[k]))
  BY <1>0, CarriedTail DEF SentOnce
<1>3. \A l \in Sessions : Carried(toHub'[l]) \subseteq Carried(toHub[l])
  BY <1>1, <1>2
<1>4. SentOnce'
  <2>1. \A l \in Sessions : Distinct(toHub'[l])
    BY <1>1, <1>2 DEF SentOnce
  <2>2. \A l, m \in Sessions : l # m => Carried(toHub'[l]) \cap Carried(toHub'[m]) = {}
    BY <1>3 DEF SentOnce
  <2> QED
    BY <2>1, <2>2 DEF SentOnce
<1>5. \A r \in Reqs : Framed(r)' => Framed(r)
  BY <1>3 DEF Framed
<1>6. ASSUME NEW r \in Reqs, Head(toHub[k]).kind = "http_request",
             Head(toHub[k]).req = r
      PROVE  Framed(r) /\ ~Framed(r)'
  <2>1. r \in Carried(toHub[k]) /\ r \notin Carried(toHub'[k])
    BY <1>1, <1>2, <1>6
  <2>2. \A l \in Sessions \ {k} : r \notin Carried(toHub'[l])
    BY <1>1, <2>1 DEF SentOnce
  <2> QED
    BY <2>1, <2>2 DEF Framed
<1> QED
  BY <1>4, <1>5, <1>6

(* A frame enters a queue: a request that was in none is now in one.       *)
LEMMA HubQueues ==
  ASSUME TypeInv, SentOnce, NEW k \in Sessions, NEW e \in HubFrames,
         e.kind = "http_request" => ~Framed(e.req),
         toHub' = [toHub EXCEPT ![k] = Append(@, e)]
  PROVE  /\ SentOnce'
         /\ \A r \in Reqs : Framed(r)' =>
              Framed(r) \/ (e.kind = "http_request" /\ r = e.req)
<1>0. toHub \in [Sessions -> Seq(HubFrames)]
  BY DEF TypeInv, TypeOK
<1>1. \A l \in Sessions : toHub'[l] = IF l = k THEN Append(toHub[k], e) ELSE toHub[l]
  BY <1>0
<1>2. e.kind = "http_request" => \A l \in Sessions : e.req \notin Carried(toHub[l])
  BY DEF Framed
<1>3. /\ Distinct(Append(toHub[k], e))
      /\ Carried(Append(toHub[k], e)) =
           Carried(toHub[k]) \cup (IF e.kind = "http_request" THEN {e.req} ELSE {})
  BY <1>0, <1>2, CarriedAppend DEF SentOnce
<1>4. SentOnce'
  <2>1. \A l \in Sessions : Distinct(toHub'[l])
    BY <1>1, <1>3 DEF SentOnce
  <2>2. \A l, m \in Sessions : l # m => Carried(toHub'[l]) \cap Carried(toHub'[m]) = {}
    BY <1>1, <1>2, <1>3 DEF SentOnce
  <2> QED
    BY <2>1, <2>2 DEF SentOnce
<1>5. \A r \in Reqs : Framed(r)' =>
        Framed(r) \/ (e.kind = "http_request" /\ r = e.req)
  BY <1>1, <1>3 DEF Framed
<1> QED
  BY <1>4, <1>5

(* A frame sent to the spoke adds at most its response to what is on the   *)
(* way to its request.                                                     *)
LEMMA RepliesSent ==
  ASSUME TypeInv, NEW k \in Sessions, NEW n \in Sids, NEW v \in Responses,
         SendToSpoke(k, HttpResponse(n, v))
  PROVE  \A r \in Reqs : RepliesTo(r)' \subseteq
           RepliesTo(r) \cup (IF v.req = r THEN {v} ELSE {})
<1> DEFINE g == HttpResponse(n, v)
<1>1. g \in SpokeFrames /\ g.resp = v
  BY Typed DEF HttpResponse
<1>2. SendToSpoke(k, g)
  OBVIOUS
<1> HIDE DEF g
<1>3. \A l \in Sessions : Elems(toSpoke'[l]) \subseteq Elems(toSpoke[l]) \cup {g}
  <2>1. TypeOK
    BY DEF TypeInv
  <2> QED
    BY <1>1, <1>2, <2>1, SendTyped, Zenon
<1> QED
  BY <1>1, <1>3 DEF RepliesTo

(* A step that makes no new trace of a request, calls no kernel for it and *)
(* leaves its handler alone does not change its fate.                      *)
LEMMA FateKept ==
  ASSUME NEW r \in Reqs, Fate(r),
         kernel'[r] = kernel[r], pc'[r] = pc[r], oneshot'[r] = oneshot[r],
         answer'[r] = answer[r],
         Framed(r)' => Framed(r),
         JobsOf(r)' \subseteq JobsOf(r),
         RepliesTo(r)' \subseteq RepliesTo(r)
  PROVE  Fate(r)'
<1> USE DEF Fate
<1>1. NeverRuns(r) => NeverRuns(r)'
  BY DEF NeverRuns
<1>2. OneTrace(r)'
  BY DEF OneTrace
<1>3. UnsentUnseen(r)'
  BY <1>1 DEF UnsentUnseen
<1>4. RepliesTruthful(r)'
  BY <1>1 DEF RepliesTruthful, Truthful
<1>5. AnswerTruthful(r)'
  BY <1>1 DEF AnswerTruthful
<1> QED
  BY <1>2, <1>3, <1>4, <1>5

(* A request that has a trace moves on: only what the step adds has to be  *)
(* true, for nothing said so far has ruled out its execution.              *)
LEMMA FateMoves ==
  ASSUME NEW r \in Reqs, Fate(r), ~NeverRuns(r),
         pc'[r] = pc[r], oneshot'[r] = oneshot[r], answer'[r] = answer[r],
         kernel[r] = 1 => kernel'[r] = 1,
         OneTrace(r)',
         \A v \in RepliesTo(r)' : v \in RepliesTo(r) \/ Truthful(v, r)'
  PROVE  Fate(r)'
<1> USE DEF Fate
<1>1. UnsentUnseen(r)'
  BY DEF UnsentUnseen
<1>2. RepliesTruthful(r)'
  BY DEF RepliesTruthful, Truthful
<1>3. AnswerTruthful(r)'
  BY DEF AnswerTruthful
<1> QED
  BY <1>1, <1>2, <1>3

(* tunnel-server turns the one frame of a request into one task or a 403.  *)
LEMMA FateServer ==
  ASSUME TypeInv, SentOnce, Fates, NEW k \in Sessions,
         Server(k) \/ NetFail(k) \/ DropReceiver(k)
  PROVE  SentOnce' /\ Fates'
<1> USE DEF client, transport, hub, handler
<1>0. UNCHANGED <<kernel, pc, oneshot, answer>>
  BY DEF Server, RecvFirst, RecvRequest, ServerEnds, NetFail, DropReceiver
<1>1. CASE RecvFirst(k)
  <2>1. UNCHANGED <<jobs, toSpoke>> /\ toHub[k] # << >>
        /\ toHub' = [toHub EXCEPT ![k] = Tail(@)]
    BY <1>1 DEF RecvFirst
  <2>2. SentOnce' /\ \A r \in Reqs : Framed(r)' => Framed(r)
    BY <2>1, HubReads
  <2>3. \A r \in Reqs : JobsOf(r)' = JobsOf(r) /\ RepliesTo(r)' = RepliesTo(r)
    BY <2>1 DEF JobsOf, RepliesTo
  <2> QED
    BY <1>0, <2>2, <2>3, FateKept DEF Fates
<1>2. CASE RecvRequest(k)
  <2>0. /\ toHub[k] # << >> /\ Head(toHub[k]).kind = "http_request"
        /\ toHub' = [toHub EXCEPT ![k] = Tail(@)]
    BY <1>2 DEF RecvRequest
  <2>1. Head(toHub[k]).req \in Reqs /\ Head(toHub[k]).sid \in Sids
    <3>1. Head(toHub[k]) \in Elems(toHub[k])
      BY <2>0, ElemsTail DEF TypeInv, TypeOK
    <3> QED
      BY <2>0, <3>1 DEF TypeInv, RequestFramesTyped
  <2>2. PICK r \in Reqs, n \in Sids : Head(toHub[k]).req = r /\ Head(toHub[k]).sid = n
    BY <2>1
  <2>3. /\ SentOnce' /\ Framed(r) /\ ~Framed(r)'
        /\ \A q \in Reqs : Framed(q)' => Framed(q)
    BY <2>0, <2>2, HubReads
  <2>4. Fate(r) /\ ~NeverRuns(r) /\ kernel[r] = 0 /\ JobsOf(r) = {}
    BY <2>3 DEF Fates, Fate, OneTrace, NeverRuns
  <2>5. CASE /\ jobs' = jobs \cup {[sess |-> k, sid |-> n, req |-> r, stage |-> "new"]}
             /\ UNCHANGED toSpoke
    <3>1. \A q \in Reqs : RepliesTo(q)' = RepliesTo(q)
      BY <2>5 DEF RepliesTo
    <3>2. \A q \in Reqs \ {r} : JobsOf(q)' = JobsOf(q)
      BY <2>5 DEF JobsOf
    <3>3. JobsOf(r)' = {[sess |-> k, sid |-> n, req |-> r, stage |-> "new"]}
      BY <2>4, <2>5 DEF JobsOf
    <3>4. OneTrace(r)'
      BY <1>0, <2>3, <2>4, <3>3 DEF OneTrace
    <3>5. Fate(r)'
      BY <1>0, <2>4, <3>1, <3>4, FateMoves
    <3>6. \A q \in Reqs \ {r} : Fate(q)'
      BY <1>0, <2>3, <3>1, <3>2, FateKept DEF Fates
    <3> QED
      BY <2>3, <3>5, <3>6 DEF Fates
  <2>6. CASE /\ SendToSpoke(k, HttpResponse(n, Response(403, TRUE, r)))
             /\ UNCHANGED jobs
    <3>1. /\ Response(403, TRUE, r) \in Responses
          /\ Response(403, TRUE, r).req = r /\ Response(403, TRUE, r).status = 403
      BY DEF Response, Responses, Statuses
    <3>2. PICK v \in Responses : /\ v.req = r /\ v.status = 403
                                 /\ SendToSpoke(k, HttpResponse(n, v))
      BY <2>6, <3>1
    <3>3. \A q \in Reqs : RepliesTo(q)' \subseteq
            RepliesTo(q) \cup (IF v.req = q THEN {v} ELSE {})
      BY <3>2, RepliesSent
    <3>4. \A q \in Reqs : JobsOf(q)' = JobsOf(q)
      BY <2>6 DEF JobsOf
    <3>5. NeverRuns(r)'
      BY <1>0, <2>3, <2>4, <3>4 DEF NeverRuns
    <3>6. OneTrace(r)'
      BY <2>3, <2>4, <3>4 DEF OneTrace
    <3>7. Truthful(v, r)'
      BY <3>2, <3>5 DEF Truthful
    <3>8. Fate(r)'
      BY <1>0, <2>4, <3>3, <3>6, <3>7, FateMoves
    <3>9. \A q \in Reqs \ {r} : Fate(q)'
      BY <1>0, <2>3, <3>2, <3>3, <3>4, FateKept DEF Fates
    <3> QED
      BY <2>3, <3>8, <3>9 DEF Fates
  <2> QED
    BY <1>2, <2>2, <2>5, <2>6 DEF RecvRequest
<1>4. CASE ServerEnds(k)
  <2>0. toHub \in [Sessions -> Seq(HubFrames)]
    BY DEF TypeInv, TypeOK
  <2>1. UNCHANGED <<jobs, toSpoke>> /\ toHub' = [toHub EXCEPT ![k] = << >>]
    BY <1>4 DEF ServerEnds
  <2>2. \A l \in Sessions : toHub'[l] = toHub[l] \/ toHub'[l] = << >>
    BY <2>0, <2>1, ElemsEmptied
  <2>3. Carried(<< >>) = {} /\ Distinct(<< >>)
    BY DEF Carried, Elems, Distinct
  <2>4. SentOnce' /\ \A r \in Reqs : Framed(r)' => Framed(r)
    BY <2>2, <2>3 DEF SentOnce, Framed
  <2>5. \A r \in Reqs : JobsOf(r)' = JobsOf(r) /\ RepliesTo(r)' = RepliesTo(r)
    BY <2>1 DEF JobsOf, RepliesTo
  <2> QED
    BY <1>0, <2>4, <2>5, FateKept DEF Fates
<1>3. CASE NetFail(k) \/ DropReceiver(k)
  <2>1. UNCHANGED <<jobs, toSpoke, toHub>>
    BY <1>3 DEF NetFail, DropReceiver
  <2>2. \A r \in Reqs : /\ JobsOf(r)' = JobsOf(r) /\ RepliesTo(r)' = RepliesTo(r)
                        /\ Framed(r)' = Framed(r)
    BY <2>1 DEF JobsOf, RepliesTo, Framed
  <2>3. SentOnce'
    BY <2>1 DEF SentOnce
  <2> QED
    BY <1>0, <2>2, <2>3, FateKept DEF Fates
<1> QED
  BY <1>1, <1>2, <1>3, <1>4 DEF Server

(* A task calls the kernel once, answers 200 only after that and 403 only  *)
(* instead of it.                                                          *)
LEMMA FateJob ==
  ASSUME TypeInv, SentOnce, Fates, NEW j \in jobs, Job(j)
  PROVE  SentOnce' /\ Fates'
<1> USE DEF client, transport, hub, handler
<1>0. j \in Jobs /\ j.sess \in Sessions /\ j.sid \in Sids /\ j.req \in Reqs
      /\ kernel \in [Reqs -> Nat]
  BY DEF Jobs, TypeInv, TypeOK
<1>1. UNCHANGED <<pc, oneshot, answer, toHub>>
  BY DEF Job, JobReject, JobForward, KernelExecutes, JobUpstreamError, JobOk, JobReply
<1>2. SentOnce' /\ \A q \in Reqs : Framed(q)' = Framed(q)
  BY <1>1 DEF SentOnce, Framed
<1>3. PICK r \in Reqs : j.req = r
  BY <1>0
<1>4. /\ Fate(r) /\ JobsOf(r) = {j} /\ ~NeverRuns(r) /\ ~Framed(r)
      /\ kernel[r] = IF j.stage = "executed" THEN 1 ELSE 0
  <2>1. j \in JobsOf(r)
    BY <1>3 DEF JobsOf
  <2> QED
    BY <2>1 DEF Fates, Fate, OneTrace, NeverRuns
(* The task ends with a response.                                          *)
<1>5. ASSUME NEW st \in {0, 200, 403}, NEW e \in BOOLEAN, JobReply(j, st, e),
             st = 200 => j.stage = "executed",
             st = 403 => j.stage = "new"
      PROVE  Fates'
  <2>1. jobs' = jobs \ {j} /\ UNCHANGED kernel
    BY <1>5 DEF JobReply
  <2>2. \A q \in Reqs \ {r} : JobsOf(q)' \subseteq JobsOf(q)
    BY <2>1 DEF JobsOf
  <2>3. JobsOf(r)' = {}
    BY <1>4, <2>1 DEF JobsOf
  <2>4. /\ Response(st, e, j.req) \in Responses
        /\ Response(st, e, j.req).req = r /\ Response(st, e, j.req).status = st
    BY <1>0, <1>3 DEF Response, Responses, Statuses
  <2>5. PICK v \in Responses : /\ v.req = r /\ v.status = st
                               /\ SendToSpoke(j.sess, HttpResponse(j.sid, v))
    BY <1>5, <2>4 DEF JobReply
  <2>6. \A q \in Reqs : RepliesTo(q)' \subseteq
          RepliesTo(q) \cup (IF v.req = q THEN {v} ELSE {})
    BY <1>0, <2>5, RepliesSent
  <2>7. OneTrace(r)'
    BY <1>2, <1>4, <2>3 DEF OneTrace
  <2>8. Truthful(v, r)'
    BY <1>2, <1>4, <1>5, <2>1, <2>3, <2>5 DEF Truthful, NeverRuns
  <2>9. Fate(r)'
    BY <1>1, <1>4, <2>1, <2>6, <2>7, <2>8, FateMoves
  <2>10. \A q \in Reqs \ {r} : Fate(q)'
    BY <1>1, <1>2, <2>1, <2>2, <2>5, <2>6, FateKept DEF Fates
  <2> QED
    BY <2>9, <2>10 DEF Fates
(* The task goes on to its next stage.                                     *)
<1>6. ASSUME NEW st \in {"forward", "executed"}, JobTo(j, st), UNCHANGED toSpoke,
             kernel' = IF st = "executed" THEN [kernel EXCEPT ![r] = @ + 1] ELSE kernel,
             j.stage # "executed"
      PROVE  Fates'
  <2>1. \A q \in Reqs : RepliesTo(q)' = RepliesTo(q)
    BY <1>6 DEF RepliesTo
  <2>2. PICK i \in Jobs : i.req = r /\ i.stage = st /\ jobs' = (jobs \ {j}) \cup {i}
    BY <1>0, <1>3, <1>6 DEF JobTo, Jobs
  <2>3. \A q \in Reqs \ {r} : JobsOf(q)' \subseteq JobsOf(q)
    BY <2>2 DEF JobsOf
  <2>4. JobsOf(r)' = {i}
    BY <1>4, <2>2 DEF JobsOf
  <2>5. /\ kernel'[r] = IF st = "executed" THEN 1 ELSE 0
        /\ \A q \in Reqs \ {r} : kernel'[q] = kernel[q]
    BY <1>0, <1>4, <1>6
  <2>6. OneTrace(r)'
    BY <1>2, <1>4, <2>2, <2>4, <2>5 DEF OneTrace
  <2>7. Fate(r)'
    BY <1>1, <1>4, <1>6, <2>1, <2>5, <2>6, FateMoves
  <2>8. \A q \in Reqs \ {r} : Fate(q)'
    BY <1>1, <1>2, <2>1, <2>3, <2>5, FateKept DEF Fates
  <2> QED
    BY <2>7, <2>8 DEF Fates
<1>7. CASE JobReject(j)
  <2>1. PICK st \in {0, 200, 403}, e \in BOOLEAN :
          JobReply(j, st, e) /\ st = 403
    BY <1>7, Zenon DEF JobReject
  <2>2. j.stage = "new"
    BY <1>7 DEF JobReject
  <2> QED
    BY <1>2, <1>5, <2>1, <2>2
<1>8. CASE JobForward(j)
  BY <1>2, <1>6, <1>8 DEF JobForward
<1>9. CASE KernelExecutes(j)
  BY <1>2, <1>3, <1>6, <1>9 DEF KernelExecutes
<1>10. CASE JobUpstreamError(j)
  <2>1. PICK st \in {0, 200, 403}, e \in BOOLEAN :
          JobReply(j, st, e) /\ st = 0
    BY <1>10, Zenon DEF JobUpstreamError
  <2> QED
    BY <1>2, <1>5, <2>1
<1>11. CASE JobOk(j)
  <2>1. PICK st \in {0, 200, 403}, e \in BOOLEAN :
          JobReply(j, st, e) /\ st = 200
    BY <1>11, Zenon DEF JobOk
  <2>2. j.stage = "executed"
    BY <1>11 DEF JobOk
  <2> QED
    BY <1>2, <1>5, <2>1, <2>2
<1> QED
  BY <1>7, <1>8, <1>9, <1>10, <1>11 DEF Job

(* The session task hands out responses that are already true, and 503.    *)
LEMMA FateSession ==
  ASSUME TypeInv, Traffic, Registry, SentOnce, Fates, SessionTask
  PROVE  SentOnce' /\ Fates'
<1> USE DEF client, transport, hub, handler
<1>0. /\ toHub \in [Sessions -> Seq(HubFrames)]
      /\ toSpoke \in [Sessions -> Seq(SpokeFrames)]
      /\ sess \in 0..MaxSessions
      /\ phase \in {"connected", "run"} => sess \in Sessions
  BY DEF TypeInv, TypeOK, RunningHasSession, Sessions
<1>1. /\ UNCHANGED <<kernel, pc, answer, jobs>>
      /\ \A r \in Reqs : JobsOf(r)' = JobsOf(r)
  BY DEF SessionTask, OpenSession, OpenFailed, AttachHub, RecvChallenge,
         RecvHttpResponse, SessionEnds, DetachHub, FlushPending, JobsOf
<1>2. ASSUME UNCHANGED toHub
      PROVE  SentOnce' /\ \A r \in Reqs : Framed(r)' = Framed(r)
  BY <1>2 DEF SentOnce, Framed
<1>3. ASSUME \A k \in Sessions : Elems(toSpoke'[k]) \subseteq Elems(toSpoke[k])
      PROVE  \A r \in Reqs : RepliesTo(r)' \subseteq RepliesTo(r)
  BY <1>3 DEF RepliesTo
<1>4. CASE OpenFailed \/ AttachHub \/ DetachHub
  <2>1. UNCHANGED <<toHub, toSpoke, oneshot>>
    BY <1>4 DEF OpenFailed, AttachHub, DetachHub
  <2> QED
    BY <1>1, <1>2, <1>3, <2>1, FateKept DEF Fates
<1>9. CASE SessionEnds
  <2>1. UNCHANGED <<toHub, oneshot>>
    BY <1>9 DEF SessionEnds
  <2>2. \A k \in Sessions : Elems(toSpoke'[k]) \subseteq Elems(toSpoke[k])
    BY <1>0, <1>9, ElemsEmptied DEF SessionEnds
  <2> QED
    BY <1>1, <1>2, <1>3, <2>1, <2>2, FateKept DEF Fates
<1>5. CASE OpenSession
  <2>1. UNCHANGED <<toHub, oneshot>>
    BY <1>5 DEF OpenSession
  <2>2. Elems(<<Challenge>>) = {Challenge} /\ Challenge.kind # "http_response"
    BY DEF Elems, Challenge
  <2>3. \A k \in Sessions : toSpoke'[k] = toSpoke[k] \/ toSpoke'[k] = <<Challenge>>
    BY <1>0, <1>5 DEF OpenSession
  <2>4. \A r \in Reqs : RepliesTo(r)' \subseteq RepliesTo(r)
    BY <2>2, <2>3 DEF RepliesTo
  <2> QED
    BY <1>1, <1>2, <2>1, <2>4, FateKept DEF Fates
<1>6. CASE RecvChallenge
  <2>1. UNCHANGED oneshot /\ sess \in Sessions
        /\ toHub' = [toHub EXCEPT ![sess] = Append(@, Handshake)]
    BY <1>0, <1>6 DEF RecvChallenge
  <2>2. \A k \in Sessions : Elems(toSpoke'[k]) \subseteq Elems(toSpoke[k])
    BY <1>0, <1>6, ElemsTail DEF RecvChallenge
  <2>3. Handshake \in HubFrames /\ Handshake.kind # "http_request"
    BY Typed DEF Handshake
  <2>4. SentOnce' /\ \A r \in Reqs : Framed(r)' => Framed(r)
    BY <2>1, <2>3, HubQueues
  <2> QED
    BY <1>1, <1>3, <2>1, <2>2, <2>4, FateKept DEF Fates
<1>7. CASE RecvHttpResponse
  <2> DEFINE f == Head(toSpoke[sess])
  <2>1. /\ UNCHANGED toHub /\ sess \in Sessions /\ f.kind = "http_response"
        /\ oneshot' = [q \in Reqs |-> IF q = pending[f.sid] THEN f.resp ELSE oneshot[q]]
    BY <1>0, <1>7 DEF RecvHttpResponse, Deliver
  <2>2. /\ \A k \in Sessions : Elems(toSpoke'[k]) \subseteq Elems(toSpoke[k])
        /\ f \in Elems(toSpoke[sess]) /\ f \in SpokeFrames
    BY <1>0, <1>7, <2>1, ElemsTail DEF RecvHttpResponse
  <2>3. f.resp.req \in Reqs /\ sid[f.resp.req] = f.sid /\ f.sid \in Sids
    BY <2>1, <2>2 DEF Traffic, ResponsesOwn
  <2>4. \A q \in Reqs : q = pending[f.sid] => q = f.resp.req /\ pc[q] # "done"
    BY <2>3 DEF Registry, LeakOnlyOnDisconnect, SidsUnique, Sids
  <2>5. f.resp \in RepliesTo(f.resp.req)
    BY <2>1, <2>2 DEF RepliesTo, SpokeFrames
  <2>6. ASSUME NEW q \in Reqs PROVE Fate(q)'
    <3>0. /\ Fate(q) /\ Framed(q)' = Framed(q)
          /\ RepliesTo(q)' \subseteq RepliesTo(q)
      BY <1>2, <1>3, <2>1, <2>2 DEF Fates
    <3>1. CASE q # pending[f.sid]
      <4>1. oneshot'[q] = oneshot[q]
        BY <2>1, <3>1
      <4> QED
        BY <1>1, <3>0, <4>1, FateKept
    <3>2. CASE q = pending[f.sid]
      <4>1. oneshot'[q] \in RepliesTo(q)
        BY <2>1, <2>4, <2>5, <3>2
      <4>2. NeverRuns(q)' = NeverRuns(q) /\ kernel'[q] = kernel[q]
        BY <1>1, <3>0 DEF NeverRuns
      <4>3. RepliesTruthful(q)'
        BY <3>0, <4>1, <4>2 DEF Fate, RepliesTruthful, Truthful
      <4>4. pc[q] \notin Unsent
        BY <3>0, <4>1 DEF Fate, UnsentUnseen
      <4>5. UnsentUnseen(q)' /\ OneTrace(q)' /\ AnswerTruthful(q)'
        BY <1>1, <3>0, <4>2, <4>4 DEF Fate, UnsentUnseen, OneTrace, AnswerTruthful
      <4> QED
        BY <4>3, <4>5 DEF Fate
    <3> QED
      BY <3>1, <3>2
  <2> QED
    BY <1>2, <2>1, <2>6 DEF Fates
<1>8. CASE FlushPending
  <2>1. UNCHANGED <<toHub, toSpoke>>
    BY <1>8 DEF FlushPending
  <2>2. \A q \in Reqs : oneshot'[q] = oneshot[q] \/ oneshot'[q].status = 503
    BY <1>8 DEF FlushPending, Response
  <2>3. ASSUME NEW q \in Reqs PROVE Fate(q)'
    <3>0. /\ Fate(q) /\ Framed(q)' = Framed(q)
          /\ RepliesTo(q)' \subseteq RepliesTo(q)
      BY <1>2, <1>3, <2>1 DEF Fates
    <3>1. CASE oneshot'[q] = oneshot[q]
      BY <1>1, <3>0, <3>1, FateKept
    <3>2. CASE oneshot'[q].status = 503
      <4>1. NeverRuns(q)' = NeverRuns(q) /\ kernel'[q] = kernel[q]
        BY <1>1, <3>0 DEF NeverRuns
      <4>2. RepliesTruthful(q)'
        BY <3>0, <3>2, <4>1 DEF Fate, RepliesTruthful, Truthful
      <4>3. UnsentUnseen(q)' /\ OneTrace(q)' /\ AnswerTruthful(q)'
        BY <1>1, <3>0, <3>2, <4>1 DEF Fate, UnsentUnseen, OneTrace, AnswerTruthful
      <4> QED
        BY <4>2, <4>3 DEF Fate
    <3> QED
      BY <2>2, <3>1, <3>2
  <2> QED
    BY <1>2, <2>1, <2>3 DEF Fates
<1> QED
  BY <1>4, <1>5, <1>6, <1>7, <1>8, <1>9 DEF SessionTask

(* The answer made from a response is as good as the response: the caller  *)
(* reads "served" only from a 200 and "refused" only from a 403.           *)
LEMMA VerdictOfResponse ==
  ASSUME NEW v \in Responses
  PROVE  /\ Verdict(OneshotAnswer(v)) \in {"served", "refused", "unknown"}
         /\ Verdict(OneshotAnswer(v)) = "served" => v.status = 200
         /\ Verdict(OneshotAnswer(v)) = "refused" => v.status = 403
<1>1. v.status \in {-2, -1, 0, 200, 403, 503}
  BY DEF Responses, Statuses
<1>2. /\ StatusOf(v) = 200 => v.status = 200
      /\ StatusOf(v) = 403 => v.status = 403
  BY <1>1 DEF StatusOf
<1>3. CASE v = Dropped
  <2>1. OneshotAnswer(v).why = "channel_closed"
    BY <1>3 DEF OneshotAnswer, Local
  <2> QED
    BY <2>1 DEF Verdict
<1>4. CASE v # Dropped
  <2>1. OneshotAnswer(v).why = "response" /\ OneshotAnswer(v).code = StatusOf(v)
    BY <1>4 DEF OneshotAnswer
  <2> QED
    BY <1>2, <2>1 DEF Verdict
<1> QED
  BY <1>3, <1>4

(* What the answers that the client makes up tell the caller.              *)
LEMMA VerdictOfLocal ==
  /\ Verdict(Local(400, "bad_body")) = "refused"
  /\ Verdict(Local(503, "not_connected")) = "refused"
  /\ Verdict(Local(503, "send_failed")) = "refused"
  /\ Verdict(Local(504, "timeout")) = "unknown"
  /\ Verdict(NoAnswer) = "none"
BY DEF Verdict, Local, NoAnswer

(* A handler lets its request out once, and says "refused" only while it   *)
(* has not or after a 403.                                                 *)
LEMMA FateHandler ==
  ASSUME TypeInv, Registry, SentOnce, Fates, NEW r \in Reqs, Handler(r)
  PROVE  SentOnce' /\ Fates'
<1> USE DEF client, transport, hub, handler
<1>0. /\ pc \in [Reqs -> {"idle", "body", "gettx", "insert", "send", "wait", "timedout", "done", "gone"}]
      /\ answer \in [Reqs -> Answers \cup {NoAnswer}]
      /\ oneshot \in [Reqs -> Responses]
      /\ sid \in [Reqs -> Sids \cup {0}] /\ tx \in [Reqs -> 0..MaxSessions]
      /\ toHub \in [Sessions -> Seq(HubFrames)]
      /\ Fate(r)
  BY DEF TypeInv, TypeOK, Fates
<1>1. UNCHANGED <<kernel, jobs, toSpoke>>
      /\ \A q \in Reqs : JobsOf(q)' = JobsOf(q) /\ RepliesTo(q)' = RepliesTo(q)
  <2>1. UNCHANGED <<kernel, jobs, toSpoke>>
    BY DEF Handler, Start, ReadBody, GetTx, InsertPending, SendRequest, SendFailed,
           ReceiveResponse, Timeout, TimeoutRemove
  <2> QED
    BY <2>1 DEF JobsOf, RepliesTo
<1>2. ASSUME UNCHANGED toHub
      PROVE  /\ SentOnce' /\ \A q \in Reqs : Framed(q)' = Framed(q)
             /\ NeverRuns(r)' = NeverRuns(r)
  BY <1>1, <1>2 DEF SentOnce, Framed, NeverRuns
(* The handler goes on without an answer and without sending.              *)
<1>3. ASSUME NEW to, to # "done", to \in Unsent => pc[r] \in Unsent,
             pc[r] # "done", pc' = [pc EXCEPT ![r] = to],
             \A q \in Reqs : oneshot'[q] = oneshot[q],
             UNCHANGED <<answer, toHub>>
      PROVE  SentOnce' /\ Fates'
  <2>1. Fate(r)'
    <3>1. OneTrace(r)' /\ RepliesTruthful(r)'
      BY <1>0, <1>1, <1>2, <1>3 DEF Fate, OneTrace, RepliesTruthful, Truthful
    <3>2. UnsentUnseen(r)' /\ AnswerTruthful(r)'
      BY <1>0, <1>1, <1>2, <1>3 DEF Fate, UnsentUnseen, AnswerTruthful
    <3> QED
      BY <3>1, <3>2 DEF Fate
  <2>2. \A q \in Reqs \ {r} : Fate(q)'
    BY <1>0, <1>1, <1>2, <1>3, FateKept DEF Fates
  <2> QED
    BY <1>2, <1>3, <2>1, <2>2 DEF Fates
(* The handler answers.                                                    *)
<1>4. ASSUME NEW a, Reply(r, a), Verdict(a) = "refused" => NeverRuns(r),
             UNCHANGED <<oneshot, toHub>>
      PROVE  SentOnce' /\ Fates'
  <2>0. pc' = [pc EXCEPT ![r] = "done"] /\ answer' = [answer EXCEPT ![r] = a]
    BY <1>4 DEF Reply
  <2>1. Fate(r)'
    <3>1. OneTrace(r)' /\ RepliesTruthful(r)'
      BY <1>0, <1>1, <1>2, <1>4 DEF Fate, OneTrace, RepliesTruthful, Truthful
    <3>2. pc'[r] = "done" /\ answer'[r] = a
      BY <1>0, <2>0
    <3>3. UnsentUnseen(r)' /\ AnswerTruthful(r)'
      BY <1>2, <1>4, <3>2 DEF UnsentUnseen, AnswerTruthful, Unsent
    <3> QED
      BY <3>1, <3>3 DEF Fate
  <2>2. \A q \in Reqs \ {r} : Fate(q)'
    BY <1>0, <1>1, <1>2, <1>4, <2>0, FateKept DEF Fates
  <2> QED
    BY <1>2, <1>4, <2>1, <2>2 DEF Fates
<1>5. pc[r] \in Unsent => NeverRuns(r)
  BY <1>0 DEF Fate, UnsentUnseen
<1>6. CASE Start(r) \/ Timeout(r)
  BY <1>3, <1>6 DEF Start, Timeout, Unsent
<1>7. CASE ReadBody(r)
  <2>1. CASE pc' = [pc EXCEPT ![r] = "gettx"] /\ UNCHANGED answer
    BY <1>3, <1>7, <2>1 DEF ReadBody, Unsent
  <2>2. CASE Reply(r, Local(400, "bad_body"))
    BY <1>4, <1>5, <1>7, <2>2 DEF ReadBody, Unsent
  <2> QED
    BY <1>7, <2>1, <2>2 DEF ReadBody
<1>8. CASE GetTx(r)
  <2>1. CASE pc' = [pc EXCEPT ![r] = "insert"] /\ UNCHANGED answer
    BY <1>3, <1>8, <2>1 DEF GetTx, Unsent
  <2>2. CASE Reply(r, Local(503, "not_connected"))
    BY <1>4, <1>5, <1>8, <2>2 DEF GetTx, Unsent
  <2> QED
    BY <1>8, <2>1, <2>2 DEF GetTx
<1>9. CASE InsertPending(r)
  <2>1. pending[stream_id_counter] = NoReq
    BY <1>9 DEF InsertPending, Registry, LeakOnlyOnDisconnect, SidsFresh, TypeInv, TypeOK, Sids
  <2>2. \A q \in Reqs : oneshot'[q] = oneshot[q]
    BY <1>9, <2>1 DEF InsertPending, next_stream_id
  <2> QED
    BY <1>3, <1>9, <2>2 DEF InsertPending, Unsent
<1>10. CASE SendFailed(r)
  BY <1>4, <1>5, <1>10 DEF SendFailed, Unsent
<1>11. CASE ReceiveResponse(r)
  <2>1. Verdict(OneshotAnswer(oneshot[r])) = "refused" => NeverRuns(r)
    BY <1>0, VerdictOfResponse DEF Fate, RepliesTruthful, Truthful
  <2> QED
    BY <1>4, <1>11, <2>1 DEF ReceiveResponse
<1>12. CASE TimeoutRemove(r)
  BY <1>4, <1>12, VerdictOfLocal DEF TimeoutRemove
(* The frame leaves: from here on the kernel may execute the request.      *)
<1>13. CASE SendRequest(r)
  <2>0. /\ pc[r] = "send" /\ pc' = [pc EXCEPT ![r] = "wait"]
        /\ UNCHANGED <<oneshot, answer>>
    BY <1>13 DEF SendRequest
  <2>1. CASE UNCHANGED toHub
    BY <1>3, <2>0, <2>1 DEF Unsent
  <2>2. CASE toHub' # toHub
    <3>1. PICK e \in HubFrames, k \in Sessions :
            /\ e.kind = "http_request" /\ e.req = r
            /\ toHub' = [toHub EXCEPT ![k] = Append(@, e)]
      <4>1. toHub' = [toHub EXCEPT ![tx[r]] = Append(@, HttpRequest(sid[r], r))]
        BY <1>13, <2>2 DEF SendRequest
      <4>2. tx[r] \in Sessions
        BY <1>0, <2>2, <4>1 DEF Sessions
      <4>3. HttpRequest(sid[r], r) \in HubFrames
        BY <1>0 DEF HttpRequest, HubFrames
      <4>4. HttpRequest(sid[r], r).kind = "http_request" /\ HttpRequest(sid[r], r).req = r
        BY DEF HttpRequest
      <4> QED
        BY <4>1, <4>2, <4>3, <4>4
    <3>2. /\ NeverRuns(r) /\ RepliesTo(r) = {} /\ oneshot[r].status \notin {200, 403}
          /\ answer[r] = NoAnswer
      BY <1>0, <2>0 DEF Fate, UnsentUnseen, AnswerTruthful, Unsent
    <3>3. SentOnce' /\ \A q \in Reqs : Framed(q)' => Framed(q) \/ q = r
      <4>1. ~Framed(e.req)
        BY <3>1, <3>2 DEF NeverRuns
      <4> QED
        BY <3>1, <4>1, HubQueues
    <3>4. OneTrace(r)'
      BY <1>1, <3>2 DEF OneTrace, NeverRuns
    <3>5. RepliesTruthful(r)' /\ UnsentUnseen(r)'
      BY <1>0, <1>1, <2>0, <3>2 DEF RepliesTruthful, Truthful, UnsentUnseen, Unsent
    <3>6. AnswerTruthful(r)'
      BY <2>0, <3>2, VerdictOfLocal DEF AnswerTruthful
    <3>7. \A q \in Reqs \ {r} : Fate(q)'
      BY <1>0, <1>1, <2>0, <3>3, FateKept DEF Fates
    <3> QED
      BY <3>3, <3>4, <3>5, <3>6, <3>7 DEF Fates, Fate
  <2> QED
    BY <2>1, <2>2
<1> QED
  BY <1>6, <1>7, <1>8, <1>9, <1>10, <1>11, <1>12, <1>13 DEF Handler

(* No request has left a trace before the first session.                   *)
LEMMA FatesInit == Init => SentOnce /\ Fates
<1> SUFFICES ASSUME Init PROVE SentOnce /\ Fates
  OBVIOUS
<1>1. \A k \in Sessions : toHub[k] = << >> /\ toSpoke[k] = << >>
  BY DEF Init
<1>2. Elems(<< >>) = {} /\ Carried(<< >>) = {} /\ Distinct(<< >>)
  BY DEF Elems, Carried, Distinct
<1>3. SentOnce
  BY <1>1, <1>2 DEF SentOnce
<1>4. ASSUME NEW r \in Reqs PROVE Fate(r)
  <2>1. ~Framed(r) /\ JobsOf(r) = {} /\ RepliesTo(r) = {} /\ kernel[r] = 0
    BY <1>1, <1>2 DEF Framed, JobsOf, RepliesTo, Init
  <2>2. oneshot[r].status = -1 /\ answer[r] = NoAnswer
    BY ConstantsDiffer DEF Init
  <2>3. OneTrace(r) /\ UnsentUnseen(r)
    BY <2>1, <2>2 DEF OneTrace, UnsentUnseen, NeverRuns
  <2>4. RepliesTruthful(r) /\ AnswerTruthful(r)
    BY <2>1, <2>2, VerdictOfLocal DEF RepliesTruthful, Truthful, AnswerTruthful
  <2> QED
    BY <2>3, <2>4 DEF Fate
<1> QED
  BY <1>3, <1>4 DEF Fates

(* A request whose caller hung up keeps its traces, and has no answer.     *)
LEMMA FateCallerGone ==
  ASSUME TypeInv, SentOnce, Fates, NEW r \in Reqs, CallerGone(r)
  PROVE  SentOnce' /\ Fates'
<1>1. /\ pc \in [Reqs -> {"idle", "body", "gettx", "insert", "send", "wait",
                         "timedout", "done", "gone"}]
      /\ pc' = [pc EXCEPT ![r] = "gone"] /\ pc[r] # "done"
      /\ UNCHANGED <<kernel, jobs, toHub, toSpoke, oneshot, answer>>
  BY DEF CallerGone, TypeInv, TypeOK, transport, hub
<1>2. SentOnce' /\ \A q \in Reqs : /\ Framed(q)' = Framed(q) /\ JobsOf(q)' = JobsOf(q)
                                   /\ RepliesTo(q)' = RepliesTo(q)
                                   /\ NeverRuns(q)' = NeverRuns(q)
  BY <1>1 DEF SentOnce, Framed, JobsOf, RepliesTo, NeverRuns
<1>3. Fate(r)'
  <2>1. OneTrace(r)' /\ RepliesTruthful(r)'
    BY <1>1, <1>2 DEF Fates, Fate, OneTrace, RepliesTruthful, Truthful
  <2>2. UnsentUnseen(r)' /\ AnswerTruthful(r)'
    BY <1>1, <1>2 DEF Fates, Fate, UnsentUnseen, AnswerTruthful, Unsent
  <2> QED
    BY <2>1, <2>2 DEF Fate
<1>4. \A q \in Reqs \ {r} : Fate(q)'
  BY <1>1, <1>2, FateKept DEF Fates
<1> QED
  BY <1>2, <1>3, <1>4 DEF Fates

ExchangeInv == TypeInv /\ Traffic /\ Registry /\ SentOnce /\ Fates

(* Every step keeps what is known of every request.                        *)
LEMMA ExchangeInvStep == ExchangeInv /\ [Next]_vars => ExchangeInv'
<1> SUFFICES ASSUME ExchangeInv, [Next]_vars PROVE ExchangeInv'
  OBVIOUS
<1> USE DEF ExchangeInv
<1>1. TypeInv' /\ Traffic' /\ Registry'
  BY TypeInvStep, OwnStep
<1>2. CASE UNCHANGED vars
  <2>1. UNCHANGED <<kernel, pc, oneshot, answer, toHub, toSpoke, jobs>>
    BY <1>2 DEF vars, client, transport, hub, handler
  <2>2. SentOnce' /\ \A r \in Reqs : Framed(r)' = Framed(r) /\ JobsOf(r)' = JobsOf(r)
                                     /\ RepliesTo(r)' = RepliesTo(r)
    BY <2>1 DEF SentOnce, Framed, JobsOf, RepliesTo
  <2>3. Fates'
    BY <2>1, <2>2, FateKept DEF Fates
  <2> QED
    BY <1>1, <2>2, <2>3
<1>3. CASE Next
  BY <1>1, <1>3, FateHandler, FateCallerGone, FateSession, FateServer, FateJob DEF Next
<1> QED
  BY <1>2, <1>3

-----------------------------------------------------------------------------
(* The refinement of HttpExchange                                          *)

(* A handler that gives no answer moves its request at most from "new" to  *)
(* "open".                                                                 *)
LEMMA HandlerImplements ==
  ASSUME ExchangeInv, NEW r \in Reqs, Handler(r)
  PROVE  Exchange!Next \/ UNCHANGED Exchange!vars
<1> USE DEF client, transport, hub, handler, ExchangeInv
<1>0. /\ pc \in [Reqs -> {"idle", "body", "gettx", "insert", "send", "wait", "timedout", "done", "gone"}]
      /\ answer \in [Reqs -> Answers \cup {NoAnswer}]
      /\ oneshot \in [Reqs -> Responses]
      /\ Fate(r)
  BY DEF TypeInv, TypeOK, Fates
<1>k. UNCHANGED kernel
  BY DEF Handler, Start, ReadBody, GetTx, InsertPending, SendRequest, SendFailed,
         ReceiveResponse, Timeout, TimeoutRemove
<1>n. pc[r] \in Unsent => kernel[r] = 0
  BY <1>0 DEF Fate, UnsentUnseen, NeverRuns
(* An answer is an Answer.                                                 *)
<1>1. ASSUME NEW a, Reply(r, a), pc[r] \notin {"idle", "done", "gone"},
             Verdict(a) \in {"served", "refused", "unknown"},
             Verdict(a) = "served" => kernel[r] = 1,
             Verdict(a) = "refused" => kernel[r] = 0
      PROVE  Exchange!Next
  <2>1. /\ pc' = [pc EXCEPT ![r] = "done"]
        /\ answer' = [answer EXCEPT ![r] = a]
    BY <1>1 DEF Reply
  <2>2. Stages[r] = "open" /\ Stages' = [Stages EXCEPT ![r] = "answered"]
    BY <1>0, <1>1, <2>1 DEF Stages, StageOf
  <2>3. VerdictsGiven' = [VerdictsGiven EXCEPT ![r] = Verdict(a)]
    BY <1>0, <2>1 DEF VerdictsGiven
  <2>4. Exchange!Answer(r, Verdict(a))
    BY <1>1, <1>k, <2>2, <2>3 DEF Exchange!Answer
  <2> QED
    BY <1>1, <2>4 DEF Exchange!Next, Exchange!Verdicts
(* A move between two steps of the handler is invisible.                   *)
<1>2. ASSUME NEW to \in {"gettx", "insert", "send", "wait", "timedout"},
             pc[r] \in {"body", "gettx", "insert", "send", "wait"},
             pc' = [pc EXCEPT ![r] = to], UNCHANGED answer
      PROVE  UNCHANGED Exchange!vars
  <2>1. Stages' = Stages
    BY <1>0, <1>2 DEF Stages, StageOf
  <2>2. VerdictsGiven' = VerdictsGiven
    BY <1>2 DEF VerdictsGiven
  <2> QED
    BY <1>k, <2>1, <2>2 DEF Exchange!vars
<1>3. CASE Start(r)
  <2>1. pc[r] = "idle" /\ pc' = [pc EXCEPT ![r] = "body"] /\ UNCHANGED answer
    BY <1>3 DEF Start
  <2>2. Stages[r] = "new" /\ Stages' = [Stages EXCEPT ![r] = "open"]
    BY <1>0, <2>1 DEF Stages, StageOf
  <2>3. VerdictsGiven' = VerdictsGiven
    BY <2>1 DEF VerdictsGiven
  <2>4. Exchange!Submit(r)
    BY <1>k, <2>2, <2>3 DEF Exchange!Submit
  <2> QED
    BY <2>4 DEF Exchange!Next
<1>4. CASE ReadBody(r)
  <2>1. CASE pc' = [pc EXCEPT ![r] = "gettx"] /\ UNCHANGED answer
    BY <1>2, <1>4, <2>1 DEF ReadBody
  <2>2. CASE Reply(r, Local(400, "bad_body"))
    BY <1>1, <1>4, <1>n, <2>2, VerdictOfLocal DEF ReadBody, Unsent
  <2> QED
    BY <1>4, <2>1, <2>2 DEF ReadBody
<1>5. CASE GetTx(r)
  <2>1. CASE pc' = [pc EXCEPT ![r] = "insert"] /\ UNCHANGED answer
    BY <1>2, <1>5, <2>1 DEF GetTx
  <2>2. CASE Reply(r, Local(503, "not_connected"))
    BY <1>1, <1>5, <1>n, <2>2, VerdictOfLocal DEF GetTx, Unsent
  <2> QED
    BY <1>5, <2>1, <2>2 DEF GetTx
<1>6. CASE InsertPending(r) \/ SendRequest(r) \/ Timeout(r)
  BY <1>2, <1>6 DEF InsertPending, SendRequest, Timeout
<1>7. CASE SendFailed(r)
  BY <1>1, <1>7, <1>n, VerdictOfLocal DEF SendFailed, Unsent
<1>8. CASE ReceiveResponse(r)
  <2> DEFINE v == oneshot[r]
  <2>1. v \in Responses /\ Truthful(v, r)
    BY <1>0 DEF Fate, RepliesTruthful
  <2>2. /\ Verdict(OneshotAnswer(v)) \in {"served", "refused", "unknown"}
        /\ Verdict(OneshotAnswer(v)) = "served" => kernel[r] = 1
        /\ Verdict(OneshotAnswer(v)) = "refused" => kernel[r] = 0
    BY <2>1, VerdictOfResponse DEF Truthful, NeverRuns
  <2>3. Reply(r, OneshotAnswer(v)) /\ pc[r] = "wait"
    BY <1>8 DEF ReceiveResponse
  <2> QED
    BY <1>1, <2>2, <2>3
<1>9. CASE TimeoutRemove(r)
  BY <1>1, <1>9, VerdictOfLocal DEF TimeoutRemove
<1> QED
  BY <1>3, <1>4, <1>5, <1>6, <1>7, <1>8, <1>9 DEF Handler

(* The kernel's execution of a request is an Execute.                      *)
LEMMA ExecutionImplements ==
  ASSUME ExchangeInv, NEW j \in jobs, KernelExecutes(j)
  PROVE  Exchange!Next
<1>0. j.req \in Reqs /\ kernel \in [Reqs -> Nat]
  BY DEF ExchangeInv, TypeInv, TypeOK, Jobs
<1>1. PICK r \in Reqs : j.req = r
  BY <1>0
<1>2. Fate(r) /\ j \in JobsOf(r)
  BY <1>1 DEF ExchangeInv, Fates, JobsOf
<1>3. kernel[r] = 0 /\ ~NeverRuns(r)
  BY <1>2 DEF KernelExecutes, Fate, OneTrace, NeverRuns
<1>4. pc[r] # "idle" /\ Verdict(answer[r]) # "refused"
  BY <1>2, <1>3 DEF Fate, UnsentUnseen, AnswerTruthful, Unsent
<1>5. Stages[r] # "new" /\ VerdictsGiven[r] # "refused"
  BY <1>4 DEF Stages, StageOf, VerdictsGiven
<1>6. kernel' = [kernel EXCEPT ![r] = 1] /\ UNCHANGED <<Stages, VerdictsGiven>>
  BY <1>0, <1>1, <1>3 DEF KernelExecutes, handler, Stages, VerdictsGiven
<1>7. Exchange!Execute(r)
  BY <1>3, <1>5, <1>6 DEF Exchange!Execute
<1> QED
  BY <1>7 DEF Exchange!Next

(* Every step of the proxy is a step of HttpExchange or invisible in it.   *)
LEMMA StepImplements ==
  ExchangeInv /\ [Next]_vars => [Exchange!Next]_Exchange!vars
<1> SUFFICES ASSUME ExchangeInv, [Next]_vars
             PROVE  Exchange!Next \/ UNCHANGED Exchange!vars
  OBVIOUS
<1>0. UNCHANGED <<pc, answer, kernel>> => UNCHANGED Exchange!vars
  BY DEF Exchange!vars, Stages, VerdictsGiven
<1> USE DEF client, transport, hub, handler
<1>1. CASE UNCHANGED vars
  BY <1>0, <1>1 DEF vars
<1>2. ASSUME NEW r \in Reqs, Handler(r)
      PROVE  Exchange!Next \/ UNCHANGED Exchange!vars
  BY <1>2, HandlerImplements
<1>3. CASE SessionTask
  BY <1>0, <1>3 DEF SessionTask, OpenSession, OpenFailed, AttachHub, RecvChallenge,
       RecvHttpResponse, SessionEnds, DetachHub, FlushPending
<1>4. ASSUME NEW k \in Sessions, Server(k) \/ NetFail(k) \/ DropReceiver(k)
      PROVE  Exchange!Next \/ UNCHANGED Exchange!vars
  BY <1>0, <1>4 DEF Server, RecvFirst, RecvRequest, ServerEnds, NetFail, DropReceiver
<1>5. ASSUME NEW j \in jobs, Job(j)
      PROVE  Exchange!Next \/ UNCHANGED Exchange!vars
  <2>1. CASE KernelExecutes(j)
    BY <2>1, ExecutionImplements
  <2>2. CASE UNCHANGED <<pc, answer, kernel>>
    BY <1>0, <2>2
  <2> QED
    BY <1>5, <2>1, <2>2 DEF Job, JobReject, JobForward, JobUpstreamError, JobOk, JobReply
<1>6. ASSUME NEW r \in Reqs, CallerGone(r) PROVE Exchange!Next
  <2>1. /\ pc \in [Reqs -> {"idle", "body", "gettx", "insert", "send", "wait",
                           "timedout", "done", "gone"}]
        /\ pc[r] \notin {"idle", "done", "gone"}
        /\ pc' = [pc EXCEPT ![r] = "gone"] /\ UNCHANGED <<answer, kernel>>
    BY <1>6 DEF CallerGone, ExchangeInv, TypeInv, TypeOK
  <2>2. Stages[r] = "open" /\ Stages' = [Stages EXCEPT ![r] = "abandoned"]
    BY <2>1 DEF Stages, StageOf
  <2>3. VerdictsGiven' = VerdictsGiven
    BY <2>1 DEF VerdictsGiven
  <2>4. Exchange!Abandon(r)
    BY <2>1, <2>2, <2>3 DEF Exchange!Abandon
  <2> QED
    BY <2>4 DEF Exchange!Next
<1> QED
  BY <1>1, <1>2, <1>3, <1>4, <1>5, <1>6 DEF Next

(* The proxy, with its sessions, queues, tasks, timeouts and reconnects,   *)
(* implements HttpExchange: a request is executed at most once, a caller   *)
(* told "served" was served, and one told "refused" may try again.         *)
THEOREM ProxyImplementsExchange == Spec => ImplementsExchange
<1>1. Init => ExchangeInv
  BY TypeInvInit, OwnInit, FatesInit DEF ExchangeInv
<1>2. Init => Exchange!Init
  <2> SUFFICES ASSUME Init PROVE Exchange!Init
    OBVIOUS
  <2>1. Stages = [r \in Reqs |-> "new"]
    BY DEF Init, Stages, StageOf
  <2>2. VerdictsGiven = [r \in Reqs |-> "none"]
    BY VerdictOfLocal DEF Init, VerdictsGiven
  <2> QED
    BY <2>1, <2>2 DEF Init, Exchange!Init
<1>3. ExchangeInv /\ [Next]_vars => ExchangeInv'
  BY ExchangeInvStep
<1>4. ExchangeInv /\ [Next]_vars => [Exchange!Next]_Exchange!vars
  BY StepImplements
<1> QED
  BY <1>1, <1>2, <1>3, <1>4, PTL DEF Spec, ImplementsExchange, Exchange!Spec
=============================================================================
