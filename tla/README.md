# OpenSpoke: TLA+ models of the reverse tunnel and of the hub's coordination

OpenSpoke runs a *hub* cluster (an LLM kernel, MCP servers, workers, CI) and
any number of *spokes*: customer clusters or applications that cannot be
dialled from outside. A spoke opens one gRPC stream to the hub; everything
between hub and spoke travels on it. This project models that tunnel, written
in Rust, and the parts of the hub in which replicas, workers, users and
restarts meet: spawned agents, the scheduler, the knowledge base with its
validator, and the resumption of MCP sessions.

## 1. Inventory

### The reverse tunnel

| Part | Code | State | Operations |
|---|---|---|---|
| Session registry | `hub/images/tunnel-server/src/main.rs` `connect`, `handle_connection`, `cleanup_session`, `SpokeSession` | `sessions` map, per-session `closed` and `streams`, gauges `connected`, `streams_open` | connect, handshake, register, displace, close, clean up |
| Listeners | `accept_loop` | one TCP listener per configured port, the counter `next_sid` | check, accept, open, roll back, abort |
| Hub data path | upstream and downstream tasks of `accept_loop`, `recv_loop` | per-stream writer channels (64 slots), outbound channel (256) | read, write, deliver, close |
| Spoke data path | `spoke/images/tunnel-client/src/main.rs` `run_session_impl`, `run_stream` | `StreamMap`, per-stream inbound channels (64), `hub_tx` (256) | open, dial, deliver, pump, close |
| HTTP proxy, spoke side | `handle_http_proxy`, `SharedProxyState` | `hub_tx`, `pending`, `stream_id_counter` | take a request, send, wait, time out, attach, detach and flush |
| HTTP proxy, hub side | `recv_loop` (HttpRequest arm), `handle_http_request` | one task per request | admit, forward, answer |
| Reconnect loop | `tunnel-client` `main` | `backoff` | run a session, sleep, double or reset |
| Configuration | `load_config` of both binaries | the maps of spokes and of targets | one entry after the other, defaults, errors |

Every arrow between these parts is either a bounded `mpsc` channel, a `tokio`
mutex or the HTTP/2 transport, and the tasks run on several threads, so the hard
behaviours are interleavings at `.await` points and after the release of a lock:

* a spoke reconnects before the hub has noticed that the old connection died:
  two connections of one spoke displace each other (registry lock dropped in
  between), bind the same ports, and clean up late;
* a session dies while streams are being accepted, opened, read and written,
  and the gauges are counted in five places;
* bounded channels fill up in both directions, and a loop blocked on one
  stream serves no other;
* a close races data, a half-close races the response;
* an HTTP handler reads the sender, then the session ends, flushes and is
  replaced, then the handler registers and sends; a timeout races a late
  response;
* the first frame of a session must be the handshake, though handlers share
  the channel.

### The hub

| Part | Code | State | Operations |
|---|---|---|---|
| Spawned agents | `hub/manifests/kernel/ConfigMaps/rag-backend-kernel.yaml` `/core/spawn/*`; `task-worker/ConfigMaps/rag-task-worker.yaml` | one document per spawn and a counter in OpenSearch; each worker's job | submit, pickup, update_state, pop_answer, cancel, answer, force_state; the worker's turns, questions and waits |
| Scheduler | same kernel file, `_scheduler_*`, `/core/scheduler/*` | one document per task; each replica's hits and runs | search, claim, call the handlers, record; create, update, delete, run now |
| Knowledge base | `kernel2/ConfigMaps/rag-backend-kernel-backends.yaml` `enforce_sysml_policy`, `topic_upsert`, `topic_delete`; `hub/images/sysml-validator` (Rust) | topic nodes in the graph; each replica's upsert | look up, validate, write, delete, migrate |
| MCP session resume | `mcp/Configmaps/mcp-valkey-resume.yaml` | the process's session map and creation lock, session keys in Valkey | create, register, look up, rehydrate, end, restart |

The kernel runs as several replicas without any shared memory: whatever two
requests of one handler assume of each other can be undone by another replica
in between. What is hard here:

* read, decide, write: pickup, pop and claim are conditional on `_seq_no`, but
  cancel, answer, force, update and record are not;
* a call that times out at the worker goes on in the kernel, and the worker
  repeats it or moves on;
* a worker or replica that dies keeps its claim in the document;
* a lease of one minute against handlers that take as long as they like;
* an exemption decided before the write it is for;
* a map that a restart empties, a lock held across a request.

### The rest of the repository

| Part | Code | Status |
|---|---|---|
| Fleet UI backend | `fleet/ui/backend/main.go` | not modelled: authenticates and forwards single requests; state is in Kubernetes |
| Native spoke | `spoke/native` (Go) | not modelled: a skeleton that parses a config and exits |
| Kernel: chat jobs, projects, RAG, model proxies | `rag-backend-kernel.yaml` | not modelled: CRUD and calls of external models |
| CI dispatcher | `hub/manifests/builder/ConfigMaps/ci-dispatcher-config.yaml` | not modelled yet: one pass at a time (`concurrencyPolicy: Forbid`) |
| Kernel frontend | `hub/images/kernel-frontend` (Nuxt/Vue) | not modelled: presentation |
| MCP server, PDF converter | `hub/images/mcp`, `hub/images/pdf-converter` (Python) | not modelled: one call, one external tool |
| Caches, mirrors, probes, scanners, backups, guardrails | ConfigMaps under `hub/manifests`, `spoke/manifests` | not modelled: scripts around external tools |

### What makes each part correct

* Registry: the map holds no dead session; a new connection takes over from an
  old one; a dead connection always finishes and gives its ports back; stream
  ids are not shared; the gauges lag behind the maps by no more than what is
  being counted at that moment.
* Data path: what one end reads is a gapless prefix of what the other end
  wrote, and all of it when the stream ended in order; a Close takes effect in
  spite of full channels.
* HTTP proxy: a caller gets its own response; the answer tells the truth about
  execution; no pending entry leaks while its caller stays and no waiting handler
  is forgotten; every request is answered; the kernel sees only what is admitted.
* Reconnect loop: the delay is exponential in the length of the chain of
  failures, capped, and reset when it should be.
* Configuration: the last entry for a spoke or a target decides; old and new
  forms on the two sides mean the same.
* Spawned agents: one worker per spawn; no answer lost or doubled in silence; no
  spawn abandoned without a fault; finished means finished; nobody waits for
  ever.
* Scheduler: a task runs when it is due and enabled, on one replica at a time,
  and goes on running as long as its schedule can be computed; a once runs once;
  within limits the code sets itself.
* Knowledge base: no new topic holds a body the validator did not accept.
* MCP sessions: one transport per session; "session not found" has a reason;
  the lock is passed on.

The hazards behind these sentences are listed, each with its line, under
`hazards` in `PROJECT.json`.

## 2. Modules

    HttpExchange          what the proxy promises its callers
         ^ implements
    HttpProxy             proxy handlers, session task, recv_loop, request tasks
         ^ extends                          ^ extends
    MCHttpProxy           HttpProxyProofs

    TunnelSessions        registry, listeners, stream bookkeeping of tunnel-server
         ^ MCTunnelSessions, TunnelSessionsProofs
    VirtualStream         data path of one session, both ends
         ^ MCVirtualStream, VirtualStreamProofs
    Reconnect             the client's loop around sessions
         ^ MCReconnect, MCPlatform, MainProofs

    KernelReplicas        the replicas of the kernel
         ^ Spawn          spawn API and task workers        ^ MCSpawn, SpawnProofs
         ^ Scheduler      loop and API of the scheduler     ^ SchedulerProofs
         ^ KnowledgeBase  topics, SysML policy, validator   ^ KnowledgeBaseProofs
    McpSessions           session map, lock and Valkey      ^ McpSessionsProofs
    TunnelConfig          load_config of both binaries      ^ MainProofs
    MCPlatform            Scheduler, KnowledgeBase, McpSessions, TunnelConfig
                          and Reconnect side by side

The modules cut the tunnel along its interfaces. `TunnelSessions` sees a stream
only as an id with bookkeeping; `VirtualStream` takes one session and looks
inside its streams; `HttpProxy` spans several sessions of one spoke and sees
the registry only as a server task that is reading or gone; `Reconnect` sees a
session only by how it ended. What one module leaves open (`ClientGone`,
`SessionDown`, `NetFail`, `Failed`) is an action another explains.

Throughout, a *step* runs from one `.await` that can block to the next: an
await of a `tokio` mutex, of room in a bounded channel, of a socket or of a
timer is where other tasks run. A critical section with no await inside is one
action, and what follows the release of its lock is another: the runtime is
multi-threaded. In the kernel a step is one request to a store: its handlers call the
stores with blocking requests, so a replica is inside one handler at a time and
two replicas interleave between any two requests.

### TunnelSessions (`hub/images/tunnel-server/src/main.rs`)

A connection `c` is one call of `connect`. `pc[c]` is where its
`handle_connection` stands, in the order of the function: handshake, the two
halves of the registration with the lock dropped between them (`FindOld`,
`Displace`, `Replace`), the increment of `connected` after the lock is released
(`CountConnected`), the binds, `recv_loop`, `close`, `cleanup_session`, the
aborts; a bind error takes the shorter way `failclose`, `failcleanup`, `done`,
which aborts nothing. `lis[c][p]` is the `accept_loop` on a port; `check` and
`accept` are separate because `closed` is read only at the top of the loop, and
`Accept`, `InsertWriter` and `CountStream` because the id, the entry and the
gauge are three accesses with a lock taken and released in between. `recv_loop`
is in `deliver` while it awaits room in the writer channel of `rsid[c]`; it then
polls nothing else, and `RecvEnd` is not enabled. `Abort` only requests what
`Cancelled` does: an aborted task is dropped at an await it has reached.
`registered`, `closed`, `streams`, `next_sid`, `connected` and `streams_open`
are the fields of that name, and each `fetch_add`/`fetch_sub` of the code is in
the action that contains it. `cleanup_session` (`RemoveEntry`) looks at the
closed flag of whichever session the map holds, as the code does. Frames are
not in this module.

### HttpProxy (both `main.rs`)

A handler `r` runs `handle_http_proxy` once: `Start`, `ReadBody`, `GetTx`,
`InsertPending`, `SendRequest` or `SendFailed`, then `ReceiveResponse` or
`Timeout` and `TimeoutRemove`. `CallerGone` may end it at any of its awaits: hyper
drops the handler of a caller that disconnects, and an entry it had inserted
stays in `pending`. The session task runs `run_session`:
`OpenSession`, `AttachHub`, the frame loop (`RecvChallenge`,
`RecvHttpResponse`), `SessionEnds`, and `detach_hub_and_flush` in its two halves
(`DetachHub`, `FlushPending`). `Server(k)` is the server's task of session `k`
and a record of `jobs` a spawned `handle_http_request`. `rx[k]` is separate from
`link[k]`: a handler that cloned the sender of a dead session can still send
into its channel until the HTTP/2 task drops the receiver. The kernel is
external: it may execute a request and then answer, fail or never answer. A
response carries the request it was computed from, in place of headers and
body; an int32 status is cast to u16 as in the code. `kind` is the
`SpokeKind` of the spoke in the server's configuration.

`HttpExchange` is the contract in the caller's terms: one answer per request;
at most one execution; "served" only if the kernel executed it; "refused" only
if it did not and never will, so that a retry is safe. A response of the kernel
is "served" whatever its status: a 403 the kernel itself issues counts there,
since the kernel was called; a 403 in the model is tunnel-server's refusal. The
refinement mapping is `Exchange` in `HttpProxy`.

### VirtualStream (both `main.rs`)

Peer, upstream task, downstream task, `recv_loop`, the two frame queues, the
client's frame loop, the `run_stream` pump and the target. `hubW` and `cliW` hold
the frame that a loop is delivering while it awaits room in a per-stream
channel; while one is set, its loop takes no other frame. `pump = "sending"` is
the `select!` arm that awaits room in `hub_tx` and does not drain its inbound
channel; `closed` and `broken` are the two ways a pump ends, with a Close frame
sent and without. A chunk is the payload of one Data frame; peer and target number their
chunks.

### Reconnect (`spoke/images/tunnel-client/src/main.rs`, `main`)

`Failed(long)` and `EndedCleanly` are the two arms of the `match` on
`run_session`, `long` the test that the session lasted 10 s.

### TunnelConfig (`load_config` of both `main.rs`)

`setting` is the environment of the two programs; an entry is the record of its
parts, with a form for what does not parse. `SpokeStep` and `TargetStep` are the
iterations of the two loops, `SpokesLoaded` and `TargetsLoaded` what follows
them. `Accepted` and `Reaches` are the lookups that use the maps later: the
handshake's, and the client's on an Open.

### Spawn (kernel spawn API and task worker)

`spawn[i]` is the document of a spawn, `call[k]` the handler replica `k` is in
with what it has read, `job[w]` where worker `w` is in `process_job`. The
`_seq_no` of a read is kept as membership in `call[k].fresh`: a write takes the
document out of everybody's `fresh`, and a conditional update needs it there.
An unconditional update that changes nothing is a noop for OpenSearch and
leaves `_seq_no` alone (`Merge`). `job[w].at` is the replica whose answer the
worker awaits: `GiveUp` ends the wait and not the handler, so the late handler
still writes. `KernelFails` drops the rest of a handler, `PickupRefused` a
single update, `Crash` a worker's memory. `fate[i]` records what became of every
accepted answer and `after` which spawns had been stored when a submit began;
both are history for the properties. What Claude and gemma2 say is one of three
outcomes of a turn; the usage figures that follow a job
(`finalize_gemma_usage`) are left out.

### Scheduler (kernel)

Time is relative: `task[t].due` counts down to `next_run_at`. `hits[k]` and
`fresh[k]` are the rest of replica `k`'s search, `run[k][t]` a run from its
claim to its record with the schedule of the hit. `visible` is what a search
can see: writes of the loop do not wait for a refresh. Claims are made one
after the other and `Gather` starts the handlers only after the last, as the
code does, so waiting claims age. `Finish` writes unconditionally over what is
there. A task's `kind` is what its definition amounts to: `interval` and `once`;
`halting` for a cron and for whatever `_scheduler_compute_next_run` cannot
compute (validation looks only for the presence of `interval_sec`, an update is
not validated at all), which gets the far future after its first run; and
`broken` for a handler that cannot be called, whose record leaves `next_run_at`
at the end of the lease. `wish`, `fired`, `spoiled` and `lost` are history: what the operator
wanted, how often a handler was called, which tasks overran the lease or were
redefined under a run, and which lost a run.

### KnowledgeBase (`topic_upsert` and sysml-validator)

An upsert passes `look` (the query for `created_at`), `check` (the call of the
validator) and `write` (the MERGE); a body is a model value and the sets
`SyntaxOk`, `SemanticOk` and `TooBig` say what the tools make of it. The
validator handles one request at a time but keeps nothing between them, so its
answer is one step. Topics of before the cutoff may hold anything. `NewBodiesPass` is
about these operations: a write that does not pass the policy at all, by
`/core/graph/run` or by a Memgraph migration (`migrate_pull`), can store any node,
and neither is modelled.

### McpSessions (`ResumableSessionManager`)

A request passes `lookup` (Valkey), `lock` (the creation lock), `inside` or
`outside` (`handle_request` in or out of the lock) and, after an initialize,
`register`. `inst` is `_server_instances`, `alive` the transports that really
run, `known` the keys in Valkey. The base class (create, 404, idle timeout) is
external, and the repository does not pin its version. `Stop` takes a deleted
session out of the map whatever its origin; an SDK that keeps the terminated
transport of a session it created in the map, and answers 404 from there, gives
the client the same answers and keeps an entry that no longer runs.

## 3. Runs

| Run | Instance | Distinct states | Shows |
|---|---|---|---|
| `sessions` | 2 connections, 2 ports, 1 accepted stream, fair | 105 000 | types; no zombie entries; stale entries only while a cleanup or a replacement is due; gauges short by no more than what is being counted; ids not shared; a dead connection settles; its ports are released |
| `http_safety` | 2 requests (one path refused), 2 sessions, channel of 2 | 5.4 million | types; own answers; no leaked entry but of a caller who hung up; no lost sender; only admitted requests executed |
| `http_exchange` | 2 requests, 1 session, channel of 1, fair | 125 000 | refinement of `HttpExchange`; every request answered |
| `stream_safety` | 2 streams (2 and 1 chunks each way, one with no target), channels of 1 | 1.4 million | order; completeness in both directions |
| `stream_liveness` | 2 streams (one with 2 chunks each way, one with no target), channels of 1, fair | 760 000 | a Close takes effect |
| `spawns` | 2 replicas, 2 workers, 2 spawns (one an orchestrator's and the other's child), 2 turns, 3 events, fair | 185 000 | types; one runner; answers conserved; orphans need faults; serials move on; finished is final; every spawn is let go of |
| `platform` | one load at a time: 2 replicas and 1 task with 3 events; 2 replicas, an old and a new topic, 4 bodies, 3 events; 2 MCP sessions and 2 requests with 4 events; 10 x 6 x 27 settings; 12 reconnects; fair | 187 000 | the properties of the five modules, with their liveness; their type invariants are theorems |
| `sessions_one_open`, `sessions_listeners`, `http_handshake_first`, `stream_half_close`, `reconnect_refused` | the smallest that show it | - | the five divergences of section 6 |

`platform` puts five unrelated modules side by side. A behaviour picks one and
leaves the others in their initial states, where no action that fairness
speaks of is enabled, so each module is checked as if alone.

Deadlock is not checked: every instance bounds its environment (connections
used once, requests answered once), so a finished behaviour is a state with no
successor, and the liveness properties say what must not be left waiting.

**Why the bounds are enough.** Two connections are what a displacement needs and
two ports make a bind fail after one succeeded; the conflict of two connections
that displace the same third is the subject of `sessions_one_open`, and the
theorems hold for any number. One accepted stream is what the two liveness
properties of `sessions` allow in the time of a run; it can be accepted by
either connection on either port, before and after the session was closed (with
two, the safety properties were checked on 720 000 states). Two requests and two sessions let a handler carry the
sender of one session over a flush into the next, and let a response of one
session be matched in another; ids and sessions in the proofs are unbounded.
With channels of one place every send can block; two chunks per direction fill
a per-stream channel and still have one to wait with. In `stream_liveness` that
is enough for the two waits the property is about, both of which are reached: the
pump awaiting `hub_tx`, the hub's loop a peer and the client's loop the pump, all
at once; and the Open or Close of one stream behind a frame of the other that
its loop cannot deliver. Twelve sessions pass the
cap of 30 s (five doublings) with room to reset and grow again. Two replicas
and two workers are what a race for one document needs; a third could only lose
it too. An *event* is a user's request, a failed call or a crash; three let a
submit meet a cancel, an answer or a second submit and a fault (with four, the
safety properties of `Spawn` were checked on 1.5 million states). A lease of two
ticks is long enough for a run to end within it and to outlive it. The bodies of
the knowledge base are one that passes, one that fails each check and one that
is too large; a legacy topic and a new one show both sides of the policy. Four
events let a client open a session, lose it in a restart and come back with two
requests.

**Fairness.** Weak fairness is stated per task, for steps the runtime takes on
its own: a `tokio` task that can proceed is polled; `tokio` mutexes are FIFO,
so a waiter gets the lock; timers fire (60 s in the handler, 5 s for a dial); the
HTTP/2 layer notices a dead call (keepalive every 30 s with a timeout of 20 s,
on both sides). One step has strong fairness: the drop of an aborted
`accept_loop` (`Cancelled`), which passes its awaits again and again; the
cooperative budget of the runtime makes it yield at one of them. Nothing is
assumed of clients, peers, targets, the kernel or the
network, with one exception that `CloseTakesEffect` needs: peer and target read
what is written to them, because a stream whose reader stops stalls the shared
loop by design of the code. In `sessions` not even that is assumed, and
`DeadConnectionSettles` and `PortsReleased` name the consequence
(`StuckDelivery`): a `recv_loop` that waits for ever for a peer to read notices
neither the end of its client nor its own displacement. `CloseTakesEffect` asks
that again and again no Close is outstanding, in either direction and for any
stream, which with finitely many Closes means that each takes effect; the
upstream tasks need no fairness for it. In the hub, a replica goes on with its handler and
a worker with its job (each request has a timeout, and the wait for an answer
ends after 30 minutes), the scheduler's loops run, a handler answers or times
out, the index refreshes itself and time passes; MCP requests end, but for GET
streams, of which nothing is assumed. That last one is an assumption on what is
called inside the lock and not a guarantee of the code: `ValkeyClient` sets no
timeout, and the tool call of a rehydrating request runs inside it. Users, operators and faults are never
forced.

## 4. Theorems

All are checked by TLAPS, for any sets of requests, replicas, workers, tasks,
topics and sessions, any finite sets of connections and spokes, settings of any
length and any bounds; the assumptions are the named `ASSUME`s of the modules,
which only say that the "none" values are not members and that sets and numbers
are of their kind.

`TunnelSessionsProofs`:

* `TypeCorrect`. `TypeOK` is not inductive: the type of `up` depends on an
  `accept_loop` that is opening a stream having an id (`OpeningHasSid`), and the type of the
  map on connections past the handshake having a configured spoke
  (`Authenticated`). `TypeInv` adds both.
* `NoZombieEntryHolds`, `StaleEntryHolds`. Their common invariant `MapInv` says
  what the dropped lock makes hard: an entry belongs to a connection of that
  spoke that has registered and not finished its cleanup; nobody closes or
  displaces a session that has not registered; a connection displaces only
  sessions of its own spoke; a closed entry is about to be removed or
  overwritten.
* `ConnectedCoversMapHolds`, by counting: an insert adds at most one spoke and
  exactly one connection that is about to count itself, which the increment
  moves over to the gauge; a removal takes one of each, even when the entry it
  takes is of a connection that has not been counted yet.
* `SidsNotSharedHolds`, with `SidInv`: all ids in use are at most `next_sid`.
* `StreamsOpenCoversHolds`. The rollback of a failed Open decrements the
  gauge whether or not `close()` dropped the writer before, so the property is
  not inductive. `GaugeCovers` counts the ids that are being opened as well:
  `close()` may take their writers, but only their own rollback takes them off
  the gauge. `OpenedOnce` says that such an id is at one `accept_loop` and has no
  upstream task yet, so that nobody else takes it off; `NothingEarly` that a
  connection gets its spoke, and with it the gauge, before its first stream.

`VirtualStreamProofs`: `StreamTypeCorrect`, `InOrderHolds`,
`DrainedCompleteHolds`, `ResponseCompleteHolds`, for any number of streams that
share a session. The queues are never filtered: predicates on positions say what
a queue holds of one stream (`Ordered` and `Complete` of its chunks in a range,
`OpenFirst`, `CloseLast`), and lemmas say what an Append and a Tail do to each.
The invariant of one stream, `StreamInv`, has three parts. `Life`: the Open comes
first, nothing follows a Close, and the map entries match the tasks. `ToTarget`:
what the target has, the inbound channel, the frame the loop is blocked on and
the queued frames are the peer's chunks in order, with none missing while the
session is up; a pump whose senders are gone has all of them, which is what the
half-close must not overtake. `ToPeer` is the same the other way, where the writer
leaves the map of an open peer only after the last chunk. `Elsewhere` says what a
step of another stream leaves alone, head-of-line blocking included, so that
each action is looked at for its own stream only.

`HttpProxyProofs`:

* `HttpTypeCorrect`. `TypeInv` adds that request frames carry an id and a
  request (or `recv_loop` would spawn an ill-typed task), that a sending handler
  has an id, and that the session task reads only sessions it opened.
* `OnlyAdmittedExecutedHolds`, with `JobsAdmitted`: tasks exist only for
  application spokes, and leave the first stage only with an allowlisted path.
* `AnswerIsOwnHolds`, `LeakOnlyOnDisconnectHolds`, `NoSenderDroppedHolds` share an
  invariant in two halves. `Traffic`: every frame and task carries the id its
  request allocated, and every response frame the request of its id. `Registry`:
  ids are below the counter and unique; a handler that has not registered has
  neither id nor response; the oneshot of an entry in the map is unresolved; no
  sender is dropped. The argument turns on `InsertPending`: the id is fresh, so
  no entry is overwritten, and on `RecvHttpResponse`: the entry under an id can
  only be the request that the frame answers.
* `ProxyImplementsExchange`, the refinement of `HttpExchange`. `SentOnce`: no
  request is in two frames, of one queue or of two sessions. `Fate` says of each
  request that a frame or a task is its only trace and the kernel was called
  exactly if the task is past that point; that nobody has seen it before its
  frame is sent; that a 200 on its way tells of an execution and a 403 means that
  nothing is left that could still make one; and the same of the answer given.
  Every step then is a `Submit`, an `Execute`, an `Answer` or invisible.

`SchedulerProofs`: `SchedTypeCorrect`, `NoOverlap`, `OnceIsOnce`,
`StaysOnSchedule` and the action property `ClaimsAreCurrent`, from one
invariant. `FreshIsDue`: what a replica has read and nobody wrote is due now,
which makes a claim current. `LeaseHolds` is the heart: the age of a run and
what is left of the lease add up to at least the lease, so that a task cannot
come due under a run that is not spoiled; every write by an operator, a late
record and a tick has to keep the sum. `KindMatches` and `OnceIsSpent` tie a run
to the schedule it will be recorded under; the latter speaks of every kind that
has no second run, so that the far future which stops a schedule that cannot be
computed is part of what is proved.

`SpawnProofs`: six theorems on any number of replicas, workers, spawns and
answers.

* `SpawnTypeCorrect` and `OneRunnerHolds`, from `SpawnInv`. `PutsApart`: no two
  submits store under one id; `CallFits`, `JobFits` and `WaitFits` tie what a
  request in the kernel, a job and a worker waiting for a reply say of one
  spawn, so that the reply of a pickup reaches the worker the document names.
* `FinishedStaysFinal`, an action property, from the same invariant: every write
  of a state is made by a request or a worker that has the spawn in hand.
* `AnswersAreConserved`, one queue at a time (`Conserved`): a pop reads the head
  and removes it only if nobody wrote in between, so that the queue and the
  recorded fates stay two views of one sequence. An answer that leaves the queue
  is delivered, cleared, or lost because the worker no longer waits for the pop.
* `OrphansAreOwedToFaults`, with `Faultless`: while nothing was lost, every
  worker waits for a request that serves it (`Served`), the last write of a job
  is a final state (`LastIsFinal`), and a spawn under way has its runner
  (`HasRunner`). None of these survives the first fault.
* `SerialsAlwaysMoveOn`, with `NumbersGrow`: what was stored before a submit
  incremented the counter has a smaller number; two numbers less than a cycle
  apart have different serials (`SerialsDiffer`).

`KnowledgeBaseProofs`: `KbTypeCorrect`, `PolicyHolds`. `WritersMay` says that
whoever is about to write content had it validated, or the topic is still
exempt, or was deleted in the gap; `VerdictsApply` that a positive answer is
about the body its upsert still carries.

`McpSessionsProofs`: `McpTypeCorrect`, `SessionsHaveOneTransport`,
`NotFoundHasExcuse`. `NewIdsUnshared` keeps a session in creation apart from
every other; `ToldIsRemembered` says that an id a client was told is in Valkey,
has lost its registration for a recorded reason, or lives and is about to be
registered.

`MainProofs`, on what the two `main.rs` do around the sessions:

* `DelaysInBounds`, that no sleep leaves the interval from `backoff_min` to
  `backoff_max`, whatever the two are and however sessions end.
* `DelayLaw`: the sleep after the n-th failure of a chain is
  `backoff_min * 2^(n-1)`, capped. `ChainDelay` ties the delay in hand to the
  length of the chain, and `LawDoubles` shows that doubling and capping
  takes the law one failure further. What the recursive function `PowerOfTwo`
  computes is shown without an induction rule, by the least length for which no
  table of powers exists (`LeastElement`).
* `AcceptedCorrect`, `RoutesCorrect`. `SpokesSoFar` and `TargetsSoFar` are loop
  invariants: the maps hold the last entry read so far of each name.

## 5. What is only model-checked

Liveness: `DeadConnectionSettles`, `PortsReleased`, `EveryRequestAnswered`,
`CloseTakesEffect`, `SpawnSettles`, `RecurringRuns`, `UpsertEnds` and
`LockIsPassedOn`. They need fairness and ENABLED, which are out of the reach of
the proof system. Every invariant, every action property and the refinement that
a passing run checks is also a theorem. The theorems are about `Spec`, which the
runs with fairness strengthen; safety needs no fairness.

## 6. Findings

Each is a property stating a sentence of the repository, and a run in which
TLC violates it.

1. `OneOpenSession`. Two connections of a spoke can find the same old session
   (tunnel-server `main.rs:500`), both close it and both insert; the first is
   overwritten in the map without being closed, and both serve.
2. `ListenersTerminate`. After a bind error (`main.rs:547-549`) an `accept_loop`
   parked in `accept()` does not see `closed` and keeps its port.
3. `HandshakeComesFirst`. A proxy request between `attach_hub`
   (tunnel-client `main.rs:552`) and the Challenge overtakes the handshake, and
   the server refuses the session.
4. `HalfCloseKeepsResponse`. At the peer's EOF the upstream task removes the
   stream's writer (`main.rs:722`) and the client treats half as full: the rest
   of the response is lost.
5. `RefusalBacksOff`. A refusal ends the stream without an error, so the client
   reconnects with no delay (tunnel-client `main.rs:716`).

Observations the models show that have no run of their own:

* `connected` is incremented at every registration and decremented only by a
  cleanup that finds a closed entry, so displacements make it drift upwards
  (`main.rs:508` against the help text at 258). Between the insert and the
  increment it is too small for an instant. `ConnectedCoversMap` is the half
  that holds.
* `close()` drops writers without decrementing `streams_open` (`main.rs:341`
  against 264), and an entry is in the map an instant before it is counted
  (640-643). `StreamsOpenCovers` is the half that holds.
* While `recv_loop` awaits room in the writer channel of a peer that does not
  read (`main.rs:791`) it does not poll the client stream: a session whose client
  is gone keeps its map entry, its ports and its listeners.
* A caller that disconnects while its request is under way leaves its entry in
  `pending` (tunnel-client `main.rs:382`) until the response comes or the session
  ends; nothing else removes it. `LeakOnlyOnDisconnect` says that this is the
  only leak.
* A handler that cloned the sender before the flush and inserts after it
  waits for the 60 s timer, or for the next session's flush, instead of failing
  fast (tunnel-client `main.rs:382` against the comment at 92-94).
* Refusals carry status 403 (`main.rs:905`), where `tunnel.proto:99-102` speaks
  of status 0 with an error.
* When a write to the target fails, the pump ends and the hub is not told
  (tunnel-client `main.rs:307`).
* A pump of a dead session keeps an `Arc` of the `StreamMap` that holds its own
  sender, so it ends only when its target does (tunnel-client `main.rs:563`).
* An answer given in the last turn is taken from the queue and never used
  (`rag-task-worker.yaml:308`).
* An MCP session rebuilt from Valkey has no idle timeout
  (`mcp-valkey-resume.yaml:302`), and `store_event` returns "0-0" when Valkey
  fails, so a client that resumes from there gets the whole stream again
  (`mcp-valkey-resume.yaml:196`).
* A once task fires again after its replica crashed, its result could not be
  recorded or its handler outlived the lease, though the comment at
  `rag-backend-kernel.yaml:11225` says that disabling it prevents a second
  execution. `OnceFiresOnce` names the exceptions.
* The lease starts with the claim, but the handlers only after all claims of
  the round (`rag-backend-kernel.yaml:11499-11519`), and the record is
  unconditional: a task an operator redefined under a run gets the fields of the
  old schedule.
* A task created with an `interval_sec` that is no number or too large is
  accepted (`rag-backend-kernel.yaml:11272`), fires once and is then stopped by
  the far future (11253-11255) with `enabled` still true. One with a handler that
  cannot be called is tried again after every lease, for ever (11436-11442), a
  once included.
* cancel of a running spawn takes effect only while the worker waits for an
  answer; a `cancel_requested` set during a turn is overwritten by the next
  update (`rag-backend-kernel.yaml:12633`).
* Nobody reads `pickup_lease_at`: a spawn whose worker died, or whose pickup
  reply was lost, stays running until somebody calls force_state.
* Two overlapping submits can get the same serial
  (`rag-backend-kernel.yaml:12186` against "atomic INCR" at 12165).
  `SerialsMoveOn` is the half that holds.
* A legacy topic deleted between the policy's query and the MERGE is created
  anew without a check (`rag-backend-kernel-backends.yaml:510`).
* A GET that rehydrates an MCP session streams inside the creation lock
  (`mcp-valkey-resume.yaml:331`) and keeps every other session from being created
  or rebuilt; `LockIsPassedOn` names it as the exception.

## 7. Not modelled, and why

* Bytes, headers, paths and tokens: no property tells them apart. Header
  filtering is a pure map; the path allowlist is the set `AllowedReqs`.
* TLS, the health and metrics endpoints, logging and byte counters.
* The overflow of stream ids: 2^63 ids on each side are not exhausted.
* A transport that stalls without failing: HTTP/2 keepalive turns it into a
  failure, which is modelled.
* The usage figures of spawns, references to spawns by serial or alias, the
  older task API over Valkey, tags and links of topics: no property tells them
  apart.
* The MCP event store: it stores and returns bytes; the replay protocol is the
  SDK's.
* A fetch limit of 50 hits in the scheduler's search, and hits older than their
  document, which can only lose their conditional update.
* Failures of OpenSearch itself (lost writes, split brains).
* The parts of section 1 marked "not modelled": presentation, CRUD and scripts
  around external tools.

## 8. Plan

Done: the modules of section 2 and the theorems of section 4. Next, in this
order:

1. An abstract pair of pipes that `VirtualStream` implements, as `HttpExchange`
   is for `HttpProxy`; `StreamInv` already relates the queues to it.
2. A composition of `TunnelSessions` with reconnecting clients, so that the end
   of a session at one side and its notice at the other are one system.
3. The CI dispatcher's de-duplication of builds.

The small questions of a module share a run where their instances agree, so
that the whole project can be rechecked in one go.
