----------------------------- MODULE HttpProxy -----------------------------
(***************************************************************************)
(* The HTTP proxy of an application spoke: handle_http_proxy and           *)
(* SharedProxyState in tunnel-client, recv_loop's HttpRequest arm and      *)
(* handle_http_request in tunnel-server.                                   *)
(*                                                                         *)
(* The processes are the HTTP handlers (one per request r, used once), the *)
(* session task of the client, the connection task of the server and the   *)
(* task the server spawns per request.  Session k is the k-th gRPC stream  *)
(* the client opens.  toHub[k] is the client's outbound mpsc channel with  *)
(* the transport behind it, toSpoke[k] the way back.                       *)
(*                                                                         *)
(* A response carries the request it was computed for (field `req`), which *)
(* stands for its headers and body.  Sid n stands for 2^63 + n - 1.        *)
(***************************************************************************)
EXTENDS Integers, Sequences, FiniteSets

CONSTANTS
  Reqs,          \* HTTP requests that reach the proxy
  NoReq,         \* no request
  AllowedReqs,   \* requests whose path is in cfg.allowed_paths
  ChanCap,       \* capacity of the outbound channel (256 in the code)
  MaxSessions,   \* bound: sessions the client opens
  MaxSid         \* bound: stream ids allocated

ASSUME ReqsAssumption == NoReq \notin Reqs /\ AllowedReqs \subseteq Reqs
ASSUME BoundsAssumption ==
  MaxSessions \in Nat /\ MaxSid \in Nat /\ ChanCap \in Nat \ {0}

VARIABLES
  phase,       \* the client's session task
  sess,        \* number of the current session (0 before the first)
  hub_tx,      \* SharedProxyState.hub_tx: a session, or 0 for None
  pending,     \* SharedProxyState.pending: the request waiting on a sid
  stream_id_counter,
  rx,          \* the receiver of session k's outbound channel exists
  link,        \* the transport of session k is up
  toHub, toSpoke,
  kind,        \* SpokeKind of the spoke, from cfg.spokes
  server,      \* the server's task for session k
  jobs,        \* handle_http_request tasks
  kernel,      \* how often the hub kernel executed a request (external)
  pc,          \* the handler of a request
  tx,          \* the sender the handler cloned: a session, or 0
  sid,         \* the stream id the handler allocated (0: none)
  oneshot,     \* the handler's oneshot channel
  answer       \* the answer given to the HTTP caller

client == <<phase, sess, hub_tx>>
transport == <<rx, link, toHub, toSpoke>>
hub == <<kind, server, jobs, kernel>>
handler == <<pc, tx, sid, answer>>
vars == <<client, pending, stream_id_counter, transport, hub, handler, oneshot>>

Sessions == 1..MaxSessions
Sids == 1..MaxSid

(* Frames and responses.                                                   *)
Handshake == [kind |-> "handshake", sid |-> 0, req |-> NoReq]
HttpRequest(n, r) == [kind |-> "http_request", sid |-> n, req |-> r]
Response(st, err, r) == [status |-> st, error |-> err, req |-> r]
HttpResponse(n, resp) == [kind |-> "http_response", sid |-> n, resp |-> resp]

(* Contents of a oneshot channel that hold no response.                    *)
Empty == Response(-1, FALSE, NoReq)
Dropped == Response(-2, FALSE, NoReq)

Challenge == [kind |-> "challenge", sid |-> 0, resp |-> Empty]

(* HTTP statuses the kernel may give; 200 stands for them all.             *)
Statuses == {-2, -1, 0, 200, 403, 503}
Responses == [status : Statuses, error : BOOLEAN, req : Reqs \cup {NoReq}]

(* Answers: the status, what produced it and the request it belongs to.    *)
NoAnswer == [code |-> 0, why |-> "none", req |-> NoReq]
Local(code, why) == [code |-> code, why |-> why, req |-> NoReq]
Answers == [code : {200, 400, 403, 502, 503, 504},
            why : {"bad_body", "not_connected", "send_failed", "timeout",
                   "channel_closed", "response"},
            req : Reqs \cup {NoReq}]

HubFrames == [kind : {"handshake", "http_request"}, sid : Sids \cup {0},
              req : Reqs \cup {NoReq}]
SpokeFrames == [kind : {"challenge", "http_response"}, sid : Sids \cup {0},
                resp : Responses]
Jobs == [sess : Sessions, sid : Sids, req : Reqs,
         stage : {"new", "forward", "executed"}]

TypeOK ==
  /\ phase \in {"down", "connected", "run", "ended", "flush"}
  /\ sess \in 0..MaxSessions
  /\ hub_tx \in 0..MaxSessions
  /\ pending \in [Sids -> Reqs \cup {NoReq}]
  /\ stream_id_counter \in 1..(MaxSid + 1)
  /\ rx \in [Sessions -> BOOLEAN]
  /\ link \in [Sessions -> BOOLEAN]
  /\ toHub \in [Sessions -> Seq(HubFrames)]
  /\ toSpoke \in [Sessions -> Seq(SpokeFrames)]
  /\ kind \in {"application", "cluster"}
  /\ server \in [Sessions -> {"none", "first", "up", "refused", "gone"}]
  /\ jobs \subseteq Jobs
  /\ kernel \in [Reqs -> Nat]
  /\ pc \in [Reqs -> {"idle", "body", "gettx", "insert", "send", "wait",
                      "timedout", "done", "gone"}]
  /\ tx \in [Reqs -> 0..MaxSessions]
  /\ sid \in [Reqs -> Sids \cup {0}]
  /\ oneshot \in [Reqs -> Responses]
  /\ answer \in [Reqs -> Answers \cup {NoAnswer}]

Init ==
  /\ phase = "down" /\ sess = 0 /\ hub_tx = 0
  /\ pending = [n \in Sids |-> NoReq]
  /\ stream_id_counter = 1
  /\ rx = [k \in Sessions |-> FALSE]
  /\ link = [k \in Sessions |-> FALSE]
  /\ toHub = [k \in Sessions |-> << >>]
  /\ toSpoke = [k \in Sessions |-> << >>]
  /\ kind \in {"application", "cluster"}
  /\ server = [k \in Sessions |-> "none"]
  /\ jobs = {}
  /\ kernel = [r \in Reqs |-> 0]
  /\ pc = [r \in Reqs |-> "idle"]
  /\ tx = [r \in Reqs |-> 0]
  /\ sid = [r \in Reqs |-> 0]
  /\ oneshot = [r \in Reqs |-> Empty]
  /\ answer = [r \in Reqs |-> NoAnswer]

-----------------------------------------------------------------------------
(* handle_http_proxy                                                       *)

Reply(r, a) ==
  /\ answer' = [answer EXCEPT ![r] = a]
  /\ pc' = [pc EXCEPT ![r] = "done"]

(* axum hands the request to a handler of its own.                         *)
Start(r) ==
  /\ pc[r] = "idle"
  /\ pc' = [pc EXCEPT ![r] = "body"]
  /\ UNCHANGED <<client, pending, stream_id_counter, transport, hub, tx, sid,
                 oneshot, answer>>

(* The body is read; a failed read or one over 32 MiB is answered 400.     *)
ReadBody(r) ==
  /\ pc[r] = "body"
  /\ \/ pc' = [pc EXCEPT ![r] = "gettx"] /\ UNCHANGED answer
     \/ Reply(r, Local(400, "bad_body"))
  /\ UNCHANGED <<client, pending, stream_id_counter, transport, hub, tx, sid,
                 oneshot>>

(* Clone the sender of the current session, or fail fast.                  *)
GetTx(r) ==
  /\ pc[r] = "gettx"
  /\ \/ /\ hub_tx # 0
        /\ tx' = [tx EXCEPT ![r] = hub_tx]
        /\ pc' = [pc EXCEPT ![r] = "insert"]
        /\ UNCHANGED answer
     \/ /\ hub_tx = 0
        /\ Reply(r, Local(503, "not_connected"))
        /\ UNCHANGED tx
  /\ UNCHANGED <<client, pending, stream_id_counter, transport, hub, sid,
                 oneshot>>

next_stream_id == stream_id_counter

(* Mutant: the counter is read and not advanced.                           *)
InsertPending_SameId(r) ==
  /\ pc[r] = "insert"
  /\ stream_id_counter <= MaxSid
  /\ sid' = [sid EXCEPT ![r] = next_stream_id]
  /\ pending' = [pending EXCEPT ![next_stream_id] = r]
  /\ oneshot' = [q \in Reqs |-> IF q = pending[next_stream_id] THEN Dropped
                                ELSE oneshot[q]]
  /\ pc' = [pc EXCEPT ![r] = "send"]
  /\ UNCHANGED <<client, stream_id_counter, transport, hub, tx, answer>>

(* Allocate an id and register the oneshot.  An entry that was there is    *)
(* overwritten, and its handler's sender dropped.                          *)
InsertPending(r) ==
  /\ pc[r] = "insert"
  /\ stream_id_counter <= MaxSid
  /\ stream_id_counter' = stream_id_counter + 1
  /\ sid' = [sid EXCEPT ![r] = next_stream_id]
  /\ pending' = [pending EXCEPT ![next_stream_id] = r]
  /\ oneshot' = [q \in Reqs |-> IF q = pending[next_stream_id] THEN Dropped
                                ELSE oneshot[q]]
  /\ pc' = [pc EXCEPT ![r] = "send"]
  /\ UNCHANGED <<client, transport, hub, tx, answer>>

(* The frame enters the channel of the session whose sender was cloned,    *)
(* even if that session is over, as long as its receiver exists; once the  *)
(* transport is down it goes no further.                                   *)
SendRequest(r) ==
  /\ pc[r] = "send"
  /\ rx[tx[r]] /\ Len(toHub[tx[r]]) < ChanCap
  /\ toHub' = IF link[tx[r]]
              THEN [toHub EXCEPT ![tx[r]] = Append(@, HttpRequest(sid[r], r))]
              ELSE toHub
  /\ pc' = [pc EXCEPT ![r] = "wait"]
  /\ UNCHANGED <<client, pending, stream_id_counter, rx, link, toSpoke, hub,
                 tx, sid, oneshot, answer>>

SendFailed(r) ==
  /\ pc[r] = "send"
  /\ ~rx[tx[r]]
  /\ pending' = [pending EXCEPT ![sid[r]] = NoReq]
  /\ Reply(r, Local(503, "send_failed"))
  /\ UNCHANGED <<client, stream_id_counter, transport, hub, tx, sid, oneshot>>

(* Mutant: the status is passed on as it is.                               *)
StatusOf_Raw(resp) == resp.status

(* The status shown to the caller: a response with an error and status 0   *)
(* is a 502, and so is a status outside 100..999.                          *)
StatusOf(resp) ==
  IF resp.error /\ resp.status <= 0 THEN 502
  ELSE IF resp.status % 65536 \in 100..999 THEN resp.status % 65536 ELSE 502

(* The oneshot resolves: with a response, or ("response channel closed")   *)
(* because its sender was dropped without one.                             *)
OneshotAnswer(v) ==
  IF v = Dropped THEN Local(502, "channel_closed")
  ELSE [code |-> StatusOf(v), why |-> "response", req |-> v.req]

ReceiveResponse(r) ==
  /\ pc[r] = "wait"
  /\ oneshot[r] # Empty
  /\ Reply(r, OneshotAnswer(oneshot[r]))
  /\ UNCHANGED <<client, pending, stream_id_counter, transport, hub, tx, sid,
                 oneshot>>

(* Mutant: the timer is armed only between sessions.                       *)
Timeout_WhenDetached(r) ==
  /\ pc[r] = "wait"
  /\ oneshot[r] = Empty /\ hub_tx = 0
  /\ pc' = [pc EXCEPT ![r] = "timedout"]
  /\ UNCHANGED <<client, pending, stream_id_counter, transport, hub, tx, sid,
                 oneshot, answer>>

(* The 60 s timer fires first; the entry is removed under the lock later.  *)
Timeout(r) ==
  /\ pc[r] = "wait"
  /\ oneshot[r] = Empty
  /\ pc' = [pc EXCEPT ![r] = "timedout"]
  /\ UNCHANGED <<client, pending, stream_id_counter, transport, hub, tx, sid,
                 oneshot, answer>>

(* Mutant: the entry of a timed-out request is left in the map.            *)
TimeoutRemove_Leaks(r) ==
  /\ pc[r] = "timedout"
  /\ Reply(r, Local(504, "timeout"))
  /\ UNCHANGED <<client, pending, stream_id_counter, transport, hub, tx, sid,
                 oneshot>>

TimeoutRemove(r) ==
  /\ pc[r] = "timedout"
  /\ pending' = [pending EXCEPT ![sid[r]] = NoReq]
  /\ Reply(r, Local(504, "timeout"))
  /\ UNCHANGED <<client, stream_id_counter, transport, hub, tx, sid, oneshot>>

(* The caller disconnects and hyper drops the handler at the await it is   *)
(* at: its sender and oneshot receiver go, its entry in the map stays.     *)
CallerGone(r) ==
  /\ pc[r] \notin {"idle", "done", "gone"}
  /\ pc' = [pc EXCEPT ![r] = "gone"]
  /\ tx' = [tx EXCEPT ![r] = 0]
  /\ UNCHANGED <<client, pending, stream_id_counter, transport, hub, sid,
                 oneshot, answer>>

-----------------------------------------------------------------------------
(* The client's session task: run_session                                  *)

(* endpoint.connect and the Connect call succeed: the channel exists and   *)
(* the server has queued its Challenge.                                    *)
OpenSession ==
  /\ phase = "down" /\ sess < MaxSessions
  /\ sess' = sess + 1
  /\ phase' = "connected"
  /\ rx' = [rx EXCEPT ![sess + 1] = TRUE]
  /\ link' = [link EXCEPT ![sess + 1] = TRUE]
  /\ toSpoke' = [toSpoke EXCEPT ![sess + 1] = <<Challenge>>]
  /\ server' = [server EXCEPT ![sess + 1] = "first"]
  /\ UNCHANGED <<hub_tx, pending, stream_id_counter, toHub, kind, jobs,
                 kernel, handler, oneshot>>

(* A failed connect attempt returns early, and still detaches and flushes. *)
OpenFailed ==
  /\ phase = "down"
  /\ phase' = "ended"
  /\ UNCHANGED <<sess, hub_tx, pending, stream_id_counter, transport, hub,
                 handler, oneshot>>

(* attach_hub, before the first server frame is read.                      *)
AttachHub ==
  /\ phase = "connected"
  /\ hub_tx' = sess
  /\ phase' = "run"
  /\ UNCHANGED <<sess, pending, stream_id_counter, transport, hub, handler,
                 oneshot>>

(* The handshake goes out through the same channel as the requests.        *)
RecvChallenge ==
  /\ phase = "run" /\ toSpoke[sess] # << >>
  /\ Head(toSpoke[sess]).kind = "challenge"
  /\ rx[sess] /\ Len(toHub[sess]) < ChanCap
  /\ toHub' = [toHub EXCEPT ![sess] = Append(@, Handshake)]
  /\ toSpoke' = [toSpoke EXCEPT ![sess] = Tail(@)]
  /\ UNCHANGED <<client, pending, stream_id_counter, rx, link, hub, handler,
                 oneshot>>

(* Give a response to the request that waits on the sid, if any.           *)
Deliver(n, resp) ==
  /\ pending' = [pending EXCEPT ![n] = NoReq]
  /\ oneshot' = [q \in Reqs |-> IF q = pending[n] THEN resp ELSE oneshot[q]]

RecvHttpResponse ==
  /\ phase = "run" /\ toSpoke[sess] # << >>
  /\ Head(toSpoke[sess]).kind = "http_response"
  /\ Deliver(Head(toSpoke[sess]).sid, Head(toSpoke[sess]).resp)
  /\ toSpoke' = [toSpoke EXCEPT ![sess] = Tail(@)]
  /\ UNCHANGED <<client, stream_id_counter, rx, link, toHub, hub, handler>>

(* run_session_impl returns: the transport failed, the response stream     *)
(* ended (no server task holds its sender any more), or the handshake could *)
(* not be sent.  The client's half of the stream is dropped, unread frames *)
(* included.                                                               *)
SessionEnds ==
  /\ phase = "run"
  /\ \/ ~link[sess]
     \/ /\ server[sess] \in {"refused", "gone"}
        /\ toSpoke[sess] = << >>
        /\ \A j \in jobs : j.sess # sess
     \/ ~rx[sess] /\ toSpoke[sess] # << >>
                  /\ Head(toSpoke[sess]).kind = "challenge"
  /\ phase' = "ended"
  /\ link' = [link EXCEPT ![sess] = FALSE]
  /\ toSpoke' = [toSpoke EXCEPT ![sess] = << >>]
  /\ UNCHANGED <<sess, hub_tx, pending, stream_id_counter, rx, toHub, hub,
                 handler, oneshot>>

(* detach_hub_and_flush: the sender first, then the drain of the map.      *)
DetachHub ==
  /\ phase = "ended"
  /\ hub_tx' = 0
  /\ phase' = "flush"
  /\ UNCHANGED <<sess, pending, stream_id_counter, transport, hub, handler,
                 oneshot>>

(* Mutant: the map is cleared without answering.                           *)
FlushPending_Silent ==
  /\ phase = "flush"
  /\ pending' = [n \in Sids |-> NoReq]
  /\ phase' = "down"
  /\ UNCHANGED <<sess, hub_tx, stream_id_counter, transport, hub, handler,
                 oneshot>>

FlushPending ==
  /\ phase = "flush"
  /\ pending' = [n \in Sids |-> NoReq]
  /\ oneshot' = [q \in Reqs |-> IF \E n \in Sids : pending[n] = q
                                THEN Response(503, TRUE, NoReq)
                                ELSE oneshot[q]]
  /\ phase' = "down"
  /\ UNCHANGED <<sess, hub_tx, stream_id_counter, transport, hub, handler>>

-----------------------------------------------------------------------------
(* The transport                                                           *)

NetFail(k) ==
  /\ link[k]
  /\ link' = [link EXCEPT ![k] = FALSE]
  /\ UNCHANGED <<client, pending, stream_id_counter, rx, toHub, toSpoke, hub,
                 handler, oneshot>>

(* The HTTP/2 task notices that the call is over and drops the receiver of *)
(* the outbound channel, some time after the session task has left it.     *)
DropReceiver(k) ==
  /\ rx[k]
  /\ ~link[k] \/ server[k] \in {"refused", "gone"}
  /\ rx' = [rx EXCEPT ![k] = FALSE]
  /\ UNCHANGED <<client, pending, stream_id_counter, link, toHub, toSpoke, hub,
                 handler, oneshot>>

-----------------------------------------------------------------------------
(* tunnel-server                                                           *)

(* session.send: the frame is lost when the transport is gone.             *)
SendToSpoke(k, f) ==
  toSpoke' = IF link[k] THEN [toSpoke EXCEPT ![k] = Append(@, f)] ELSE toSpoke

(* handle_connection wants a HandshakeResponse as the first frame.  What   *)
(* crossed the transport before it failed may still be read.               *)
RecvFirst(k) ==
  /\ server[k] = "first" /\ toHub[k] # << >>
  /\ toHub' = [toHub EXCEPT ![k] = Tail(@)]
  /\ server' = [server EXCEPT ![k] = IF Head(toHub[k]).kind = "handshake"
                                     THEN "up" ELSE "refused"]
  /\ UNCHANGED <<client, pending, stream_id_counter, rx, link, toSpoke, kind,
                 jobs, kernel, handler, oneshot>>

(* Mutant: the kind of the spoke is not looked at.                         *)
RecvRequest_AnyKind(k) ==
  /\ server[k] = "up" /\ toHub[k] # << >>
  /\ Head(toHub[k]).kind = "http_request"
  /\ toHub' = [toHub EXCEPT ![k] = Tail(@)]
  /\ jobs' = jobs \cup {[sess |-> k, sid |-> Head(toHub[k]).sid,
                         req |-> Head(toHub[k]).req, stage |-> "new"]}
  /\ UNCHANGED <<client, pending, stream_id_counter, rx, link, toSpoke, kind,
                 server, kernel, handler, oneshot>>

(* recv_loop: a cluster spoke is refused at once, for an application spoke *)
(* a task is spawned.                                                      *)
RecvRequest(k) ==
  /\ server[k] = "up" /\ toHub[k] # << >>
  /\ Head(toHub[k]).kind = "http_request"
  /\ toHub' = [toHub EXCEPT ![k] = Tail(@)]
  /\ LET f == Head(toHub[k]) IN
     \/ /\ kind = "application"
        /\ jobs' = jobs \cup {[sess |-> k, sid |-> f.sid, req |-> f.req,
                               stage |-> "new"]}
        /\ UNCHANGED toSpoke
     \/ /\ kind # "application"
        /\ SendToSpoke(k, HttpResponse(f.sid, Response(403, TRUE, f.req)))
        /\ UNCHANGED jobs
  /\ UNCHANGED <<client, pending, stream_id_counter, rx, link, kind, server,
                 kernel, handler, oneshot>>

(* The transport ended, or handle_connection gave up on a bind error; the  *)
(* inbound stream goes, unread frames included.                            *)
ServerEnds(k) ==
  /\ server[k] \in {"first", "up"}
  /\ ~link[k] \/ server[k] = "up"
  /\ server' = [server EXCEPT ![k] = "gone"]
  /\ toHub' = [toHub EXCEPT ![k] = << >>]
  /\ UNCHANGED <<client, pending, stream_id_counter, rx, link, toSpoke, kind,
                 jobs, kernel, handler, oneshot>>

JobReply(j, st, err) ==
  /\ jobs' = jobs \ {j}
  /\ SendToSpoke(j.sess, HttpResponse(j.sid, Response(st, err, j.req)))
  /\ UNCHANGED <<client, pending, stream_id_counter, rx, link, toHub, kind,
                 server, kernel, handler, oneshot>>

JobTo(j, st) == jobs' = (jobs \ {j}) \cup {[j EXCEPT !.stage = st]}

(* handle_http_request: the allowlist, then the call to the kernel.        *)
JobReject(j) ==
  /\ j.stage = "new" /\ j.req \notin AllowedReqs
  /\ JobReply(j, 403, TRUE)

JobForward(j) ==
  /\ j.stage = "new" /\ j.req \in AllowedReqs
  /\ JobTo(j, "forward")
  /\ UNCHANGED <<client, pending, stream_id_counter, transport, kind, server,
                 kernel, handler, oneshot>>

KernelExecutes(j) ==
  /\ j.stage = "forward"
  /\ kernel' = [kernel EXCEPT ![j.req] = @ + 1]
  /\ JobTo(j, "executed")
  /\ UNCHANGED <<client, pending, stream_id_counter, transport, kind, server,
                 handler, oneshot>>

(* Mutant: try the kernel again after an error.                            *)
JobUpstreamError_Retries(j) ==
  /\ j.stage \in {"forward", "executed"}
  /\ JobTo(j, "forward")
  /\ UNCHANGED <<client, pending, stream_id_counter, transport, kind, server,
                 kernel, handler, oneshot>>

(* Upstream error: the kernel was not reached, or its answer was lost.     *)
JobUpstreamError(j) ==
  /\ j.stage \in {"forward", "executed"}
  /\ JobReply(j, 0, TRUE)

JobOk(j) ==
  /\ j.stage = "executed"
  /\ JobReply(j, 200, FALSE)

-----------------------------------------------------------------------------
Handler(r) ==
  \/ Start(r) \/ ReadBody(r) \/ GetTx(r) \/ InsertPending(r)
  \/ SendRequest(r) \/ SendFailed(r) \/ ReceiveResponse(r)
  \/ Timeout(r) \/ TimeoutRemove(r)

SessionTask ==
  \/ OpenSession \/ OpenFailed \/ AttachHub \/ RecvChallenge
  \/ RecvHttpResponse \/ SessionEnds \/ DetachHub \/ FlushPending

Server(k) == RecvFirst(k) \/ RecvRequest(k) \/ ServerEnds(k)

Job(j) ==
  \/ JobReject(j) \/ JobForward(j) \/ KernelExecutes(j)
  \/ JobUpstreamError(j) \/ JobOk(j)

Next ==
  \/ \E r \in Reqs : Handler(r) \/ CallerGone(r)
  \/ SessionTask
  \/ \E k \in Sessions : Server(k) \/ NetFail(k) \/ DropReceiver(k)
  \/ \E j \in jobs : Job(j)

Spec == Init /\ [][Next]_vars

(* The tokio runtime runs a task that can proceed, the 60 s timer fires,   *)
(* the reconnect loop tries again, tunnel-server reads its stream and the  *)
(* HTTP/2 task notices a dead call.  The kernel need not answer, the       *)
(* network need not fail, a caller need not send its body or disconnect.   *)
Fairness ==
  /\ \A r \in Reqs : WF_vars(Handler(r) /\ pc[r] \notin {"idle", "body"})
  /\ WF_vars(SessionTask)
  /\ \A k \in Sessions :
       /\ WF_vars(RecvFirst(k) \/ RecvRequest(k))
       /\ WF_vars(DropReceiver(k))

FairSpec == Spec /\ Fairness

-----------------------------------------------------------------------------
(* Properties                                                              *)

(* A caller is answered with the response to its own request or with one   *)
(* the client made up; never with that of another, whatever reconnects,    *)
(* timeouts and late responses happen.                                     *)
AnswerIsOwn == \A r \in Reqs : answer[r].req \in {r, NoReq}

(* The pending map holds only requests whose handler is still going to     *)
(* remove them or be answered, and those of callers who hung up: neither a *)
(* reply, a failed send nor a timeout of the handler leaks its entry, and  *)
(* no entry is filed under an id that is not its request's.                *)
LeakOnlyOnDisconnect ==
  \A n \in Sids : pending[n] # NoReq =>
    /\ sid[pending[n]] = n
    /\ pc[pending[n]] \in {"send", "wait", "timedout", "gone"}

(* "Not reachable in practice: detach_hub_and_flush would have replied 503 *)
(* before dropping the sender."  No handler that waits loses its sender:   *)
(* its entry is in the map, or its oneshot holds a response.               *)
NoSenderDropped ==
  \A r \in Reqs : pc[r] \in {"send", "wait"} =>
    /\ oneshot[r] # Dropped
    /\ oneshot[r] = Empty => pending[sid[r]] = r

(* The kernel executes only requests that tunnel-server admits: from an    *)
(* application spoke and with an allowlisted path.                         *)
OnlyAdmittedExecuted ==
  \A r \in Reqs : kernel[r] > 0 => kind = "application" /\ r \in AllowedReqs

(* Every request whose body was read is answered, unless its caller hangs  *)
(* up: by the hub, by the flush at the end of the session or by the timer. *)
EveryRequestAnswered ==
  \A r \in Reqs : (pc[r] = "gettx") ~> (pc[r] \in {"done", "gone"})

(* What an answer tells the caller: see HttpExchange.  200 stands for any  *)
(* status of the kernel, a 403 of its own included, and 403 for            *)
(* tunnel-server's refusal alone.                                          *)
Verdict(a) ==
  CASE a.why = "none" -> "none"
    [] a.why = "response" /\ a.code = 200 -> "served"
    [] a.why = "response" /\ a.code = 403 -> "refused"
    [] a.why \in {"bad_body", "not_connected", "send_failed"} -> "refused"
    [] OTHER -> "unknown"

StageOf(c) ==
  CASE c = "idle" -> "new" [] c = "done" -> "answered"
    [] c = "gone" -> "abandoned" [] OTHER -> "open"

Stages == [r \in Reqs |-> StageOf(pc[r])]
VerdictsGiven == [r \in Reqs |-> Verdict(answer[r])]

Exchange == INSTANCE HttpExchange WITH
  stage <- Stages, verdict <- VerdictsGiven, executed <- kernel

(* The proxy implements HttpExchange: one answer per request, at most one  *)
(* execution, "served" only after it, and none after "refused".            *)
ImplementsExchange == Exchange!Spec

-----------------------------------------------------------------------------
(* What the client's comments claim, and the code does not keep.           *)

(* attach_hub: "The handshake is sent internally on the first challenge,   *)
(* so attaching here is fine."  The server never finds another first frame.*)
HandshakeComesFirst == \A k \in Sessions : server[k] # "refused"
=============================================================================
