-------------------------------- MODULE Spawn --------------------------------
(***************************************************************************)
(* Spawned agents: the kernel's /core/spawn handlers over the OpenSearch   *)
(* index of spawns, the task-worker Pods that pick spawns up and run them, *)
(* and the users who submit, answer, cancel and force them.                *)
(*                                                                         *)
(* A handler is one action per request it makes to OpenSearch.  The        *)
(* _seq_no a replica read with a document is abstracted to membership in   *)
(* the call's fresh: the documents nobody wrote since the replica read     *)
(* them, on which a conditional update succeeds.                           *)
(***************************************************************************)
EXTENDS KernelReplicas, Naturals, Sequences, FiniteSets

CONSTANTS
  Ids,          \* spawns, numbered in the order of submitted_epoch
  NoId,
  Workers,      \* task-worker Pods
  NoWorker,
  NoKernel,
  Priority,     \* Priority[i]: 0 high, 1 normal, 2 low
  Parent,       \* Parent[i]: parent_supervisor of i, or NoId
  Orchestrated, \* the spawns submitted with mode orchestrator
  SerialCycle,  \* serials run from 1 to SerialCycle (99)
  PickupSize,   \* documents a pickup asks the search for (5)
  MaxTurns,     \* MAX_TURNS of process_job
  MaxEvents     \* bound: requests of users, failed calls and crashes

ASSUME SpawnAssumption ==
  /\ Ids \subseteq Nat \ {0} /\ IsFiniteSet(Ids) /\ NoId \notin Ids
  /\ NoWorker \notin Workers /\ NoKernel \notin Kernels
  /\ Priority \in [Ids -> 0..2] /\ Parent \in [Ids -> Ids \cup {NoId}]
  /\ Orchestrated \subseteq Ids
  /\ SerialCycle \in Nat \ {0} /\ PickupSize \in Nat \ {0}
  /\ MaxTurns \in Nat \ {0} /\ MaxEvents \in Nat

VARIABLES
  spawn,    \* spawn[i]: the document of i in the spawns index
  counter,  \* the document of spawn_counter
  call,     \* call[k]: the handler replica k is in
  job,      \* job[w]: where worker w is in worker_loop and process_job
  fate,     \* fate[i]: what became of each answer accepted for i
  asks,     \* requests of users so far
  faults    \* failed calls and crashes so far

spawnVars == <<spawn, counter, call, job, fate, asks, faults>>

Final == {"done", "failed", "cancelled"}

States == Final \cup
  {"absent", "queued", "running", "waiting_user", "cancel_requested"}

Doc == [state : States, worker : Workers \cup {NoWorker},
        question : 0..MaxTurns, answers : Seq(Nat), managed : SUBSET Ids,
        num : Nat, after : SUBSET Ids]

Ops == {"none", "serial", "put", "link", "pickup", "update", "pop",
        "cancel", "force", "answer"}

Call == [op : Ops, id : Ids \cup {NoId}, by : Workers \cup {NoWorker},
         ids : SUBSET Ids, fresh : SUBSET Ids,
         arg : States \cup {"none"}, num : Nat]

Steps == {"poll", "pickup", "triage", "turn", "saving", "waiting",
          "popping", "answered", "stopped", "gemma"}

Job == [pc : Steps, id : Ids \cup {NoId}, turn : 0..MaxTurns, next : Steps,
        at : Kernels \cup {NoKernel}]

Fates == {"queued", "delivered", "lost", "cleared"}

SpawnTypeOK ==
  /\ spawn \in [Ids -> Doc]
  /\ counter \in Nat
  /\ call \in [Kernels -> Call]
  /\ job \in [Workers -> Job]
  /\ fate \in [Ids -> Seq(Fates)]
  /\ asks \in Nat /\ faults \in Nat
  /\ asks + faults <= MaxEvents

Idle == [op |-> "none", id |-> NoId, by |-> NoWorker, ids |-> {},
         fresh |-> {}, arg |-> "none", num |-> 0]

Polling == [pc |-> "poll", id |-> NoId, turn |-> 0, next |-> "poll",
            at |-> NoKernel]

Absent == [state |-> "absent", worker |-> NoWorker, question |-> 0,
           answers |-> << >>, managed |-> {}, num |-> 0, after |-> {}]

SpawnInit ==
  /\ spawn = [i \in Ids |-> Absent]
  /\ counter = 0
  /\ call = [k \in Kernels |-> Idle]
  /\ job = [w \in Workers |-> Polling]
  /\ fate = [i \in Ids |-> << >>]
  /\ asks = 0 /\ faults = 0

(* A request of a user, and a failure.                                     *)
Ask == asks + faults < MaxEvents /\ asks' = asks + 1 /\ UNCHANGED faults
Fault == asks + faults < MaxEvents /\ faults' = faults + 1 /\ UNCHANGED asks

Begin(k, c) == call[k] = Idle /\ call' = [call EXCEPT ![k] = c]
End(k) == call' = [call EXCEPT ![k] = Idle]

(* Replica k writes document i and goes on with call c; every _seq_no of i *)
(* another replica has read is old now.                                    *)
Put(k, i, d, c) ==
  /\ spawn' = [spawn EXCEPT ![i] = d]
  /\ call' = [q \in Kernels |->
       IF q = k THEN c ELSE [call[q] EXCEPT !.fresh = @ \ {i}]]

(* An update OpenSearch drops as a noop when nothing in it is new.         *)
Merge(k, i, d) ==
  IF d = spawn[i] THEN End(k) /\ UNCHANGED spawn ELSE Put(k, i, d, Idle)

(* Mutant: an update that is not conditional.                              *)
Unwritten_Always(k, i) == TRUE

(* if_seq_no: replica k's read of i is still current.                      *)
Unwritten(k, i) == i \in call[k].fresh

-----------------------------------------------------------------------------
(* core_spawn_submit                                                       *)

Spawned == {i \in Ids : spawn[i].state # "absent"}

Submitting == {k \in Kernels : call[k].op \in {"serial", "put"}}

(* Mutant: the script leaves the counter as it is.                         *)
Incremented_Not(n) == n

(* _spawn_next_serial increments the counter by a script ...               *)
Incremented(n) == n + 1

SubmitIncr(k) ==
  /\ Cardinality(Spawned) + Cardinality(Submitting) < Cardinality(Ids)
  /\ Ask
  /\ Begin(k, [Idle EXCEPT !.op = "serial", !.ids = Spawned])
  /\ counter' = Incremented(counter)
  /\ UNCHANGED <<spawn, job, fate>>

(* ... and reads it back with a second request.                            *)
SubmitGet(k) ==
  LET open == Ids \ (Spawned \cup {call[q].id : q \in Kernels}) IN
  \E i \in open :
    /\ call[k].op = "serial"
    /\ \A j \in open : i <= j
    /\ call' = [call EXCEPT ![k].op = "put", ![k].id = i, ![k].num = counter]
    /\ UNCHANGED <<spawn, counter, job, fate, asks, faults>>

SubmitPut(k) ==
  LET i == call[k].id IN
  /\ call[k].op = "put"
  /\ Put(k, i, [Absent EXCEPT !.state = "queued", !.num = call[k].num,
                              !.after = call[k].ids],
         IF Parent[i] = NoId THEN Idle ELSE [call[k] EXCEPT !.op = "link"])
  /\ UNCHANGED <<counter, job, fate, asks, faults>>

(* The script that adds the child to its supervisor, where there is one.   *)
SubmitLink(k) ==
  LET p == Parent[call[k].id] IN
  /\ call[k].op = "link"
  /\ IF p \in Spawned
     THEN Merge(k, p, [spawn[p] EXCEPT !.managed = @ \cup {call[k].id}])
     ELSE End(k) /\ UNCHANGED spawn
  /\ UNCHANGED <<counter, job, fate, asks, faults>>

SerialOf(n) == ((n - 1) % SerialCycle) + 1

-----------------------------------------------------------------------------
(* core_spawn_pickup                                                       *)

Before(i, j) ==
  Priority[i] < Priority[j] \/ (Priority[i] = Priority[j] /\ i < j)

Queued == {i \in Ids : spawn[i].state = "queued"}

(* The search: the first PickupSize queued documents, by priority and age. *)
Hits == {i \in Queued : Cardinality({j \in Queued : Before(j, i)}) < PickupSize}

PickupSearch(w, k) ==
  /\ job[w].pc = "poll" /\ Hits # {}
  /\ Begin(k, [Idle EXCEPT !.op = "pickup", !.by = w, !.ids = Hits,
                           !.fresh = Hits])
  /\ job' = [job EXCEPT ![w].pc = "pickup", ![w].at = k]
  /\ UNCHANGED <<spawn, counter, fate, asks, faults>>

(* The answer of replica k, which reaches w unless w has given the call up.*)
Answer(w, k, j) ==
  job' = IF w \in Workers /\ job[w].at = k
         THEN [job EXCEPT ![w] = [j EXCEPT !.at = NoKernel]] ELSE job

FirstStep(i) == IF i \in Orchestrated THEN "triage" ELSE "turn"

(* The conditional update of the next hit: the spawn is the worker's.      *)
PickupTake(k, i) ==
  LET c == call[k] IN
  /\ Unwritten(k, i)
  /\ Put(k, i, [spawn[i] EXCEPT !.state = "running", !.worker = c.by], Idle)
  /\ Answer(c.by, k, [Polling EXCEPT !.pc = FirstStep(i), !.id = i])

(* The update was not made: try the next hit, if there is one.             *)
NextHit(k, i) ==
  LET c == call[k] IN
  /\ IF c.ids = {i}
     THEN Answer(c.by, k, Polling) /\ End(k)
     ELSE call' = [call EXCEPT ![k].ids = @ \ {i}] /\ UNCHANGED job
  /\ UNCHANGED spawn

(* 409: somebody wrote the document since the search.                      *)
PickupConflict(k, i) == ~Unwritten(k, i) /\ NextHit(k, i)

PickupTry(k) ==
  \E i \in call[k].ids :
    /\ call[k].op = "pickup"
    /\ \A j \in call[k].ids \ {i} : Before(i, j)
    /\ PickupTake(k, i) \/ PickupConflict(k, i)
    /\ UNCHANGED <<counter, fate, asks, faults>>

-----------------------------------------------------------------------------
(* process_job, and the handlers it calls                                  *)

(* _update_spawn: w asks replica k to merge state st into its spawn, and   *)
(* carries on with step next, whether or not the update succeeds.          *)
UpdateCall(w, k, st, turn, next) ==
  /\ Begin(k, [Idle EXCEPT !.op = "update", !.id = job[w].id, !.by = w,
                           !.arg = st, !.num = turn])
  /\ job' = [job EXCEPT ![w].pc = "saving", ![w].turn = turn,
                        ![w].next = next, ![w].at = k]
  /\ UNCHANGED <<spawn, counter, fate, asks, faults>>

(* After the last update of a job the worker polls again.                  *)
Resume(w) == IF job[w].next = "poll" THEN Polling
             ELSE [job[w] EXCEPT !.pc = job[w].next, !.next = "poll"]

(* core_spawn_update_state: the state is merged over whatever is there.    *)
UpdateWrite(k) ==
  LET c == call[k] d == spawn[c.id] IN
  /\ c.op = "update"
  /\ CASE c.arg = "none" -> Put(k, c.id, d, Idle)
       [] c.arg = "waiting_user" ->
            Merge(k, c.id, [d EXCEPT !.state = c.arg, !.question = c.num])
       [] c.arg = "running" ->
            Merge(k, c.id, [d EXCEPT !.state = c.arg, !.question = 0])
       [] c.arg \in Final -> Put(k, c.id, [d EXCEPT !.state = c.arg], Idle)
  /\ Answer(c.by, k, Resume(c.by))
  /\ UNCHANGED <<counter, fate, asks, faults>>

(* Orchestrator mode: the verdict is recorded; then gemma2 answers alone,  *)
(* or the turns begin.                                                     *)
Triage(w, k) ==
  /\ job[w].pc = "triage"
  /\ \E next \in {"turn", "gemma"} : UpdateCall(w, k, "none", 0, next)

(* gemma2's answer is the result; if it fails, Claude's turns follow.      *)
GemmaAnswer(w, k) ==
  /\ job[w].pc = "gemma"
  /\ \/ UpdateCall(w, k, "done", 0, "poll")
     \/ /\ job' = [job EXCEPT ![w].pc = "turn"]
        /\ UNCHANGED <<spawn, counter, call, fate, asks, faults>>

(* Mutant: the bound lets one turn more through.                           *)
TurnsLeft_OneMore(w) == job[w].turn <= MaxTurns

TurnsLeft(w) == job[w].turn < MaxTurns

(* One turn of the stream call, while turn_num < MAX_TURNS: it fails, it   *)
(* ends the work, or its text asks a blocking question.                    *)
Turn(w, k) ==
  LET t == job[w].turn + 1 IN
  /\ job[w].pc = "turn" /\ TurnsLeft(w)
  /\ \/ UpdateCall(w, k, "failed", t, "poll")
     \/ UpdateCall(w, k, "done", t, "poll")
     \/ UpdateCall(w, k, "waiting_user", t, "waiting")

(* The turns are used up: what there is, is the result.                    *)
OutOfTurns(w, k) ==
  /\ job[w].pc = "turn" /\ ~TurnsLeft(w)
  /\ UpdateCall(w, k, "done", job[w].turn, "poll")

(* core_spawn_pop_answer reads the document.  With no answer queued, it    *)
(* returns the state, in which the worker looks for cancel_requested; any  *)
(* other state makes it ask again.                                         *)
PopRead(w, k) ==
  LET i == job[w].id d == spawn[i] IN
  /\ job[w].pc = "waiting" /\ call[k] = Idle
  /\ \/ /\ d.answers = << >> /\ d.state = "cancel_requested"
        /\ job' = [job EXCEPT ![w].pc = "stopped"]
        /\ UNCHANGED call
     \/ /\ d.answers # << >>
        /\ Begin(k, [Idle EXCEPT !.op = "pop", !.id = i, !.by = w,
                                 !.arg = d.state, !.num = Head(d.answers),
                                 !.fresh = {i}])
        /\ job' = [job EXCEPT ![w].pc = "popping", ![w].at = k]
  /\ UNCHANGED <<spawn, counter, fate, asks, faults>>

(* The conditional removal of the first answer: the worker has it.         *)
PopTake(k) ==
  LET c == call[k] IN
  /\ c.op = "pop" /\ Unwritten(k, c.id)
  /\ Put(k, c.id, [spawn[c.id] EXCEPT !.answers = Tail(@)], Idle)
  /\ fate' = [fate EXCEPT ![c.id][c.num] =
                IF job[c.by].at = k THEN "delivered" ELSE "lost"]
  /\ Answer(c.by, k, [job[c.by] EXCEPT !.pc = "answered"])
  /\ UNCHANGED <<counter, asks, faults>>

(* On 409 the worker sees no answer and the state that was read.           *)
PopConflict(k) ==
  LET c == call[k] IN
  /\ c.op = "pop" /\ ~Unwritten(k, c.id)
  /\ End(k)
  /\ Answer(c.by, k, [job[c.by] EXCEPT !.pc =
               IF c.arg = "cancel_requested" THEN "stopped" ELSE "waiting"])
  /\ UNCHANGED <<spawn, counter, fate, asks, faults>>

(* The answer becomes the next message of the conversation.                *)
Answered(w, k) ==
  /\ job[w].pc = "answered"
  /\ UpdateCall(w, k, "running", job[w].turn, "turn")

Stopped(w, k) ==
  /\ job[w].pc = "stopped"
  /\ UpdateCall(w, k, "cancelled", job[w].turn, "poll")

(* Mutant: the wait has no deadline.                                       *)
WaitTimeout_Never(w, k) == FALSE

(* Mutant: the job is given up without a last update.                      *)
WaitTimeout_Silent(w, k) ==
  /\ job[w].pc = "waiting"
  /\ job' = [job EXCEPT ![w] = Polling]
  /\ UNCHANGED <<spawn, counter, call, fate, asks, faults>>

(* ANSWER_WAIT_MAX_SEC passed between two polls.                           *)
WaitTimeout(w, k) ==
  /\ job[w].pc = "waiting"
  /\ UpdateCall(w, k, "failed", job[w].turn, "poll")

-----------------------------------------------------------------------------
(* The users' handlers                                                     *)

(* Mutant: a finished spawn can be cancelled and forced as well.           *)
Unfinished_Any(i) == spawn[i].state # "absent"

Unfinished(i) == spawn[i].state \notin Final \cup {"absent"}

(* core_spawn_cancel reads the state; a finished spawn is left alone.      *)
CancelRead(k, i) ==
  LET st == spawn[i].state IN
  /\ Unfinished(i) /\ Ask
  /\ Begin(k, [Idle EXCEPT !.op = "cancel", !.id = i,
       !.arg = IF st = "queued" THEN "cancelled" ELSE "cancel_requested"])
  /\ UNCHANGED <<spawn, counter, job, fate>>

CancelWrite(k) ==
  LET c == call[k] IN
  /\ c.op = "cancel"
  /\ IF c.arg = "cancelled"
     THEN Put(k, c.id, [spawn[c.id] EXCEPT !.state = c.arg], Idle)
     ELSE Merge(k, c.id, [spawn[c.id] EXCEPT !.state = c.arg])
  /\ UNCHANGED <<counter, job, fate, asks, faults>>

(* core_spawn_force_state, for spawns whose worker is gone.                *)
ForceRead(k, i, st) ==
  /\ st \in {"cancelled", "failed"}
  /\ Unfinished(i) /\ Ask
  /\ Begin(k, [Idle EXCEPT !.op = "force", !.id = i, !.arg = st])
  /\ UNCHANGED <<spawn, counter, job, fate>>

ForceWrite(k) ==
  LET c == call[k] IN
  /\ c.op = "force"
  /\ Put(k, c.id, [spawn[c.id] EXCEPT !.state = c.arg, !.question = 0,
                                      !.answers = << >>], Idle)
  /\ fate' = [fate EXCEPT ![c.id] = [n \in DOMAIN @ |->
                IF @[n] = "queued" THEN "cleared" ELSE @[n]]]
  /\ UNCHANGED <<counter, job, asks, faults>>

(* core_spawn_answer: only a waiting spawn takes an answer.                *)
AnswerRead(k, i) ==
  /\ spawn[i].state = "waiting_user" /\ Ask
  /\ Begin(k, [Idle EXCEPT !.op = "answer", !.id = i])
  /\ UNCHANGED <<spawn, counter, job, fate>>

(* Mutant: the list of answers is written from an older read.              *)
WithAnswer_Stale(answers, n) == <<n>>

WithAnswer(answers, n) == Append(answers, n)

AnswerAppend(k) ==
  LET i == call[k].id IN
  /\ call[k].op = "answer"
  /\ Put(k, i, [spawn[i] EXCEPT !.answers = WithAnswer(@, Len(fate[i]) + 1)], Idle)
  /\ fate' = [fate EXCEPT ![i] = Append(@, "queued")]
  /\ UNCHANGED <<counter, job, asks, faults>>

-----------------------------------------------------------------------------
(* Faults                                                                  *)

(* Where a worker goes on when a call fails: a failed update is only       *)
(* printed, a failed pop counts as no answer, a failed pickup is repeated. *)
AfterFailure(w) ==
  LET j == [job[w] EXCEPT !.at = NoKernel] IN
  CASE j.pc = "saving" -> [Resume(w) EXCEPT !.at = NoKernel]
    [] j.pc = "popping" -> [j EXCEPT !.pc = "waiting"]
    [] j.pc = "pickup" -> Polling

(* A worker's call times out; the replica goes on with the handler.        *)
GiveUp(w) ==
  /\ job[w].at # NoKernel /\ Fault
  /\ job' = [job EXCEPT ![w] = AfterFailure(w)]
  /\ UNCHANGED <<spawn, counter, call, fate>>

(* A request to OpenSearch fails, or the replica dies: no further request. *)
KernelFails(k) ==
  LET w == call[k].by IN
  /\ call[k] # Idle /\ Fault
  /\ job' = IF w \in Workers /\ job[w].at = k
            THEN [job EXCEPT ![w] = AfterFailure(w)] ELSE job
  /\ End(k)
  /\ UNCHANGED <<spawn, counter, fate>>

(* OpenSearch refuses the update of a hit with an unexpected status.       *)
PickupRefused(k) ==
  \E i \in call[k].ids :
    /\ call[k].op = "pickup" /\ Fault
    /\ \A j \in call[k].ids \ {i} : Before(i, j)
    /\ NextHit(k, i)
    /\ UNCHANGED <<counter, fate>>

(* A worker Pod is killed and starts again: nothing remembers its job.     *)
Crash(w) ==
  /\ job[w].pc # "poll" /\ Fault
  /\ job' = [job EXCEPT ![w] = Polling]
  /\ UNCHANGED <<spawn, counter, call, fate>>

-----------------------------------------------------------------------------
KernelStep(k) ==
  \/ SubmitGet(k) \/ SubmitPut(k) \/ SubmitLink(k)
  \/ PickupTry(k) \/ UpdateWrite(k) \/ PopTake(k) \/ PopConflict(k)
  \/ CancelWrite(k) \/ ForceWrite(k) \/ AnswerAppend(k)

WorkerStep(w, k) ==
  \/ PickupSearch(w, k) \/ Triage(w, k) \/ GemmaAnswer(w, k)
  \/ Turn(w, k) \/ OutOfTurns(w, k) \/ PopRead(w, k)
  \/ Answered(w, k) \/ Stopped(w, k) \/ WaitTimeout(w, k)

UserStep(k) ==
  \/ SubmitIncr(k)
  \/ \E i \in Ids :
       \/ CancelRead(k, i) \/ AnswerRead(k, i)
       \/ \E st \in {"cancelled", "failed"} : ForceRead(k, i, st)

FaultStep ==
  \/ \E w \in Workers : GiveUp(w) \/ Crash(w)
  \/ \E k \in Kernels : KernelFails(k) \/ PickupRefused(k)

SpawnNext ==
  \/ \E k \in Kernels : KernelStep(k) \/ UserStep(k)
  \/ \E w \in Workers, k \in Kernels : WorkerStep(w, k)
  \/ FaultStep

(* A replica goes on with its handler and a worker with its job; nothing   *)
(* makes users ask or things fail.                                         *)
SpawnFairness ==
  /\ \A k \in Kernels : WF_spawnVars(KernelStep(k))
  /\ \A w \in Workers : WF_spawnVars(\E k \in Kernels : WorkerStep(w, k))

SpawnSpec == SpawnInit /\ [][SpawnNext]_spawnVars
SpawnFairSpec == SpawnSpec /\ SpawnFairness

-----------------------------------------------------------------------------
(* Properties                                                              *)

(* "Two-pickup races are prevented": whoever works on a spawn is the       *)
(* worker its document names, so no two workers ever run the same spawn.   *)
OneRunner ==
  \A w \in Workers : job[w].id # NoId => spawn[job[w].id].worker = w

(* Every accepted answer is waiting in its queue, in order and once, or    *)
(* was handed out once, or was cleared with the queue: a pop that is       *)
(* repeated after a timeout neither skips nor repeats one.                 *)
AnswersConserved ==
  \A i \in Ids :
    /\ {spawn[i].answers[n] : n \in DOMAIN spawn[i].answers}
         = {n \in DOMAIN fate[i] : fate[i][n] = "queued"}
    /\ \A m, n \in DOMAIN spawn[i].answers :
         m < n => spawn[i].answers[m] < spawn[i].answers[n]

NotInHand(i) ==
  /\ \A w \in Workers : job[w].id # i
  /\ \A k \in Kernels : call[k].id # i

Settled(i) == spawn[i].state \in Final /\ NotInHand(i)

(* A finished spawn that no worker and no request is busy with keeps its   *)
(* state for good: no later request, and no pickup that saw it queued,     *)
(* takes it up again.                                                      *)
FinishedIsFinal ==
  [][\A i \in Ids : Settled(i) =>
       Settled(i)' /\ spawn'[i].state = spawn[i].state]_spawnVars

(* Without a fault no spawn is left running or waiting with nobody working *)
(* on it: every orphan is owed to a lost call or a crash.                  *)
OrphansNeedFaults ==
  faults = 0 => \A i \in Ids :
    NotInHand(i) => spawn[i].state \notin {"running", "waiting_user"}

(* "atomic INCR": a spawn submitted after another one was stored never     *)
(* gets the same serial (submits that overlap may).                        *)
SerialsMoveOn ==
  \A i \in Ids : \A j \in spawn[i].after :
    spawn[i].num - spawn[j].num < SerialCycle =>
      SerialOf(spawn[i].num) # SerialOf(spawn[j].num)

(* Every submitted spawn is picked up and let go of again, or is finished  *)
(* in the queue: no worker waits for ever, no spawn stays queued.          *)
SpawnSettles ==
  \A i \in Ids :
    spawn[i].state = "queued" ~> (spawn[i].state # "queued" /\ NotInHand(i))
=============================================================================
