----------------------------- MODULE SpawnProofs -----------------------------
(***************************************************************************)
(* Theorems about Spawn, for any number of replicas, workers and spawns:   *)
(* types, one runner per spawn, finished spawns, answers, orphans and      *)
(* serials.  SpawnInv is the common invariant; the last three properties   *)
(* add one of their own to it.                                             *)
(***************************************************************************)
EXTENDS Spawn, Integers, TLAPS

-----------------------------------------------------------------------------
(* The inductive invariant                                                 *)

Busy == {"saving", "popping", "pickup"}

OnSpawn == {"link", "update", "pop", "cancel", "force", "answer"}

(* What a replica is doing fits what it has read, as far as nobody wrote   *)
(* the document since.                                                     *)
CallFits(k) ==
  LET c == call[k] IN
  /\ c.op \in OnSpawn => c.id \in Ids /\ spawn[c.id].state # "absent"
  /\ c.op = "put" => c.id \in Ids /\ spawn[c.id].state = "absent"
  /\ c.op \in {"pickup", "update", "pop"} => c.by \in Workers
  /\ c.op = "update" =>
       c.arg \in Final \cup {"none", "waiting_user", "running"} /\ c.num <= MaxTurns
  /\ c.op = "cancel" => c.arg \in {"cancelled", "cancel_requested"}
  /\ c.op = "force" => c.arg \in {"cancelled", "failed"}
  /\ c.op \notin {"pickup", "pop"} => c.fresh = {}
  /\ c.op = "pickup" => \A i \in c.fresh : spawn[i].state = "queued"
  /\ c.op = "pop" /\ c.id \in c.fresh =>
       spawn[c.id].answers # << >> /\ c.num = Head(spawn[c.id].answers)

(* A worker waits for a replica exactly in a call, and has a spawn         *)
(* exactly between pickup and poll; that spawn has left the queue.         *)
JobFits(w) ==
  LET j == job[w] IN
  /\ j.at # NoKernel <=> j.pc \in Busy
  /\ j.id = NoId <=> j.pc \in {"poll", "pickup"}
  /\ j.next \notin Busy
  /\ j.next # "poll" => j.id # NoId
  /\ j.id # NoId => spawn[j.id].state \notin {"queued", "absent"}

(* The call a worker waits for is its own, and is the one its step makes.  *)
WaitFits(w, k) ==
  job[w].at = k =>
    /\ call[k].by = w
    /\ job[w].pc = "saving" => call[k].op = "update"
    /\ job[w].pc = "popping" => call[k].op = "pop"
    /\ job[w].pc = "pickup" => call[k].op = "pickup"

(* No two submits are about to store the same spawn.                       *)
PutsApart ==
  \A k, q \in Kernels :
    call[k].op = "put" /\ call[q].op = "put" /\ call[k].id = call[q].id => k = q

SpawnInv ==
  /\ SpawnTypeOK /\ PutsApart /\ OneRunner
  /\ \A k \in Kernels : CallFits(k)
  /\ \A w \in Workers : JobFits(w) /\ \A k \in Kernels : WaitFits(w, k)
  /\ \A i \in Ids : spawn[i].state = "absent" => spawn[i] = Absent

-----------------------------------------------------------------------------
(* The records under the changes made to them                              *)

(* A document keeps its type under every update of its fields.             *)
LEMMA DocEdits ==
  ASSUME NEW d \in Doc
  PROVE  /\ \A st \in States : [d EXCEPT !.state = st] \in Doc
         /\ \A st \in States, w \in Workers :
              [d EXCEPT !.state = st, !.worker = w] \in Doc
         /\ \A st \in States, n \in 0..MaxTurns :
              [d EXCEPT !.state = st, !.question = n] \in Doc
         /\ \A st \in States :
              [d EXCEPT !.state = st, !.question = 0, !.answers = << >>] \in Doc
         /\ \A s \in Seq(Nat) : [d EXCEPT !.answers = s] \in Doc
         /\ \A i \in Ids : [d EXCEPT !.managed = @ \cup {i}] \in Doc
         /\ \A n \in Nat, S \in SUBSET Ids :
              [d EXCEPT !.state = "queued", !.num = n, !.after = S] \in Doc
<1>1. /\ d = [state |-> d.state, worker |-> d.worker, question |-> d.question,
              answers |-> d.answers, managed |-> d.managed, num |-> d.num,
              after |-> d.after]
      /\ d.state \in States /\ d.worker \in Workers \cup {NoWorker}
      /\ d.question \in 0..MaxTurns /\ d.answers \in Seq(Nat)
      /\ d.managed \in SUBSET Ids /\ d.num \in Nat /\ d.after \in SUBSET Ids
  BY DEF Doc
<1>2. << >> \in Seq(Nat) /\ 0 \in 0..MaxTurns /\ "queued" \in States
  BY SpawnAssumption DEF States
<1> QED
  BY <1>1, <1>2 DEF Doc

(* The document of a spawn that was not submitted yet.                     *)
LEMMA AbsentDoc == Absent \in Doc
  BY SpawnAssumption DEF Absent, Doc, States

(* A call keeps its type when a document it has read is written.           *)
LEMMA CallEdits ==
  ASSUME NEW c \in Call, NEW i
  PROVE  /\ [c EXCEPT !.fresh = @ \ {i}] \in Call
         /\ [c EXCEPT !.ids = @ \ {i}] \in Call
         /\ [c EXCEPT !.op = "link"] \in Call
  BY DEF Call, Ops

(* The first of the queued answers, and the others.                        *)
LEMMA HeadAndTail ==
  ASSUME NEW s \in Seq(Nat), s # << >>
  PROVE  Head(s) \in Nat /\ Tail(s) \in Seq(Nat)
  OBVIOUS

(* A sequence with one place overwritten.                                  *)
LEMMA ReplacedOne ==
  ASSUME NEW S, NEW s \in Seq(S), NEW n, NEW e \in S
  PROVE  [s EXCEPT ![n] = e] \in Seq(S)
<1>1. s \in [1..Len(s) -> S] /\ Len(s) \in Nat
  OBVIOUS
<1>2. [s EXCEPT ![n] = e] \in [1..Len(s) -> S]
  BY <1>1
<1> QED
  BY <1>1, <1>2 DEF Seq

(* A replica that does nothing.                                            *)
LEMMA IdleCall == Idle \in Call
  BY DEF Idle, Call, Ops

(* A worker between two jobs.                                              *)
LEMMA PollingJob == Polling \in Job
  BY SpawnAssumption DEF Polling, Job, Steps

(* What Put and Merge leave of the documents and the calls.                *)
LEMMA PutEffect ==
  ASSUME SpawnTypeOK, NEW k \in Kernels, NEW i \in Ids, NEW d \in Doc,
         NEW c \in Call, Put(k, i, d, c)
  PROVE  /\ spawn' \in [Ids -> Doc] /\ call' \in [Kernels -> Call]
         /\ spawn'[i] = d /\ \A j \in Ids \ {i} : spawn'[j] = spawn[j]
         /\ call'[k] = c
         /\ \A q \in Kernels \ {k} : call'[q] = [call[q] EXCEPT !.fresh = @ \ {i}]
<1>1. \A q \in Kernels : [call[q] EXCEPT !.fresh = @ \ {i}] \in Call
  BY CallEdits DEF SpawnTypeOK
<1> QED
  BY <1>1 DEF Put, SpawnTypeOK

(* The spawn worker w has at hand is still its own after the step, and not *)
(* back in the queue.                                                      *)
Retains(w) ==
  job[w].id # NoId => /\ spawn'[job[w].id].state \notin {"queued", "absent"}
                      /\ spawn'[job[w].id].worker = w

(* Replica q goes on with what it is doing.                                *)
SameCall(q) ==
  /\ call'[q].op = call[q].op /\ call'[q].id = call[q].id
  /\ call'[q].by = call[q].by /\ call'[q].arg = call[q].arg
  /\ call'[q].num = call[q].num

(* A write of document i by replica k, in place of what is there.          *)
LEMMA WriteKeeps ==
  ASSUME SpawnInv, NEW k \in Kernels, NEW i \in Ids, NEW d \in Doc, NEW c \in Call,
         Put(k, i, d, c) \/ (c = Idle /\ Merge(k, i, d)),
         d.state # "absent",
         spawn[i].state = "absent" => call[k].op = "put" /\ call[k].id = i,
         d.state = "queued" => spawn[i].state \in {"queued", "absent"},
         d.worker = spawn[i].worker \/ spawn[i].state \in {"queued", "absent"}
  PROVE  /\ spawn' \in [Ids -> Doc] /\ call' \in [Kernels -> Call]
         /\ spawn'[i] = d /\ \A j \in Ids \ {i} : spawn'[j] = spawn[j]
         /\ call'[k] = c
         /\ \A q \in Kernels \ {k} : CallFits(q)' /\ SameCall(q)
         /\ \A w \in Workers : Retains(w)
         /\ c.op # "put" => PutsApart'
         /\ \A j \in Ids : spawn'[j].state = "absent" => spawn'[j] = Absent
<1>1. CASE Put(k, i, d, c)
  <2>1. /\ spawn' \in [Ids -> Doc] /\ call' \in [Kernels -> Call]
        /\ spawn'[i] = d /\ \A j \in Ids \ {i} : spawn'[j] = spawn[j]
        /\ call'[k] = c
        /\ \A q \in Kernels \ {k} : call'[q] = [call[q] EXCEPT !.fresh = @ \ {i}]
    BY <1>1, PutEffect DEF SpawnInv
  <2>2. ASSUME NEW q \in Kernels \ {k}
        PROVE  SameCall(q) /\ call'[q].fresh = call[q].fresh \ {i}
    <3>1. call[q] \in Call
      BY DEF SpawnInv, SpawnTypeOK
    <3> QED
      BY <2>1, <3>1 DEF SameCall, Call
  <2>3. ASSUME NEW q \in Kernels \ {k} PROVE CallFits(q)'
    <3>1. call[q].fresh \subseteq Ids /\ CallFits(q)
      BY DEF SpawnInv, SpawnTypeOK, Call
    <3>2. ~(call[q].op = "put" /\ call[q].id = i /\ spawn[i].state # "absent")
      BY <3>1 DEF CallFits
    <3>3. ~(call[q].op = "put" /\ call[q].id = i /\ spawn[i].state = "absent")
      BY DEF SpawnInv, PutsApart
    <3> QED
      BY <2>1, <2>2, <3>1, <3>2, <3>3 DEF CallFits, SameCall, OnSpawn
  <2>4. ASSUME NEW w \in Workers PROVE Retains(w)
    <3>1. JobFits(w) /\ job[w].id \in Ids \cup {NoId}
          /\ (job[w].id # NoId => spawn[job[w].id].worker = w)
      BY DEF SpawnInv, SpawnTypeOK, Job, OneRunner
    <3> QED
      BY <2>1, <3>1 DEF Retains, JobFits
  <2>5. c.op # "put" => PutsApart'
    BY <2>1, <2>2 DEF PutsApart, SpawnInv, SameCall
  <2> QED
    BY <2>1, <2>2, <2>3, <2>4, <2>5 DEF SpawnInv
<1>2. CASE c = Idle /\ d = spawn[i] /\ End(k) /\ UNCHANGED spawn
  <2>1. /\ spawn' \in [Ids -> Doc] /\ call' \in [Kernels -> Call]
        /\ spawn'[i] = d /\ \A j \in Ids \ {i} : spawn'[j] = spawn[j]
        /\ call'[k] = c /\ \A q \in Kernels \ {k} : call'[q] = call[q]
    BY <1>2, IdleCall DEF End, SpawnInv, SpawnTypeOK
  <2>2. \A q \in Kernels \ {k} : CallFits(q)' /\ SameCall(q)
    BY <1>2, <2>1 DEF SameCall, SpawnInv, CallFits
  <2>3. \A w \in Workers : Retains(w)
    BY <1>2 DEF Retains, JobFits, SpawnInv, OneRunner
  <2>4. c.op # "put" => PutsApart'
    BY <2>1 DEF PutsApart, SpawnInv
  <2> QED
    BY <1>2, <2>1, <2>2, <2>3, <2>4 DEF SpawnInv
<1> QED
  BY <1>1, <1>2 DEF Merge

(* A step of replica k from one call to another that writes nothing.       *)
LEMMA CallKeeps ==
  ASSUME SpawnInv, NEW k \in Kernels, NEW c \in Call,
         call' = [call EXCEPT ![k] = c], UNCHANGED spawn
  PROVE  /\ spawn' \in [Ids -> Doc] /\ call' \in [Kernels -> Call]
         /\ call'[k] = c
         /\ \A q \in Kernels \ {k} : CallFits(q)' /\ SameCall(q)
         /\ \A w \in Workers : Retains(w)
         /\ c.op # "put" => PutsApart'
         /\ \A j \in Ids : spawn'[j].state = "absent" => spawn'[j] = Absent
<1>1. /\ spawn' \in [Ids -> Doc] /\ call' \in [Kernels -> Call]
      /\ call'[k] = c /\ \A q \in Kernels \ {k} : call'[q] = call[q]
  BY DEF SpawnInv, SpawnTypeOK
<1>2. \A q \in Kernels \ {k} : CallFits(q)' /\ SameCall(q)
  BY <1>1 DEF SameCall, SpawnInv, CallFits
<1>3. \A w \in Workers : Retains(w)
  BY DEF Retains, JobFits, SpawnInv, OneRunner
<1>4. c.op # "put" => PutsApart'
  BY <1>1 DEF PutsApart, SpawnInv
<1> QED
  BY <1>1, <1>2, <1>3, <1>4 DEF SpawnInv

(* What the invariant says of the workers.                                 *)
JobsFit ==
  /\ job \in [Workers -> Job] /\ OneRunner
  /\ \A w \in Workers : JobFits(w) /\ \A k \in Kernels : WaitFits(w, k)

(* No worker waits for replica k in a call that is not a worker's.         *)
LEMMA NoWaiter ==
  ASSUME SpawnInv, NEW k \in Kernels, NEW w \in Workers, job[w].at = k
  PROVE  call[k].op \in {"update", "pop", "pickup"} /\ call[k].by = w
<1>1. k # NoKernel
  BY SpawnAssumption
<1> QED
  BY <1>1 DEF SpawnInv, JobFits, WaitFits, Busy

(* The workers are not touched by a step of a handler nobody waits for.    *)
LEMMA WorkersStay ==
  ASSUME SpawnInv, NEW k \in Kernels, UNCHANGED job,
         \A q \in Kernels \ {k} : SameCall(q),
         \A v \in Workers : Retains(v) /\ (job[v].at = k => SameCall(k))
  PROVE  JobsFit'
<1>1. OneRunner'
  BY DEF Retains, OneRunner
<1>2. \A w \in Workers : JobFits(w)'
  BY DEF Retains, JobFits, SpawnInv
<1>3. \A w \in Workers, q \in Kernels : WaitFits(w, q)'
  BY DEF WaitFits, SameCall, SpawnInv
<1> QED
  BY <1>1, <1>2, <1>3 DEF JobsFit, SpawnInv, SpawnTypeOK

(* A worker outside any call, with a spawn of its own or none.             *)
GoodJob(w, j) ==
  /\ j \in Job /\ j.at = NoKernel /\ j.pc \notin Busy /\ j.next \notin Busy
  /\ j.id = NoId <=> j.pc = "poll"
  /\ j.next # "poll" => j.id # NoId
  /\ j.id # NoId => /\ spawn'[j.id].state \notin {"queued", "absent"}
                    /\ spawn'[j.id].worker = w

(* One worker goes on, and nobody else waits for the replica that moved.   *)
LEMMA WorkerMoves ==
  ASSUME SpawnInv, NEW k, NEW w \in Workers, NEW j, GoodJob(w, j),
         job' = [job EXCEPT ![w] = j],
         \A q \in Kernels \ {k} : SameCall(q),
         \A v \in Workers : Retains(v) /\ (job[v].at = k => v = w \/ SameCall(k))
  PROVE  JobsFit'
<1>1. job' \in [Workers -> Job] /\ job'[w] = j
      /\ \A v \in Workers \ {w} : job'[v] = job[v]
  BY DEF SpawnInv, SpawnTypeOK, GoodJob
<1>2. OneRunner'
  BY <1>1 DEF Retains, OneRunner, GoodJob
<1>3. \A v \in Workers : JobFits(v)'
  <2>1. JobFits(w)'
    BY <1>1 DEF JobFits, GoodJob, Busy
  <2> QED
    BY <1>1, <2>1 DEF Retains, JobFits, SpawnInv
<1>4. ASSUME NEW v \in Workers, NEW q \in Kernels PROVE WaitFits(v, q)'
  <2>1. CASE v = w
    <3>1. q # NoKernel
      BY SpawnAssumption
    <3> QED
      BY <1>1, <2>1, <3>1 DEF WaitFits, GoodJob
  <2>2. CASE v # w
    <3>1. WaitFits(v, q) /\ job'[v] = job[v]
      BY <1>1, <2>2 DEF SpawnInv
    <3>2. job[v].at = q => SameCall(q)
      BY <2>2
    <3> QED
      BY <3>1, <3>2 DEF WaitFits, SameCall
  <2> QED
    BY <2>1, <2>2
<1> QED
  BY <1>1, <1>2, <1>3, <1>4 DEF JobsFit

(* The answer to a worker's call, which the worker may have given up.      *)
LEMMA AnswerMoves ==
  ASSUME SpawnInv, NEW k \in Kernels, NEW w \in Workers, NEW j,
         call[k].by = w, Answer(w, k, j),
         job[w].at = k => GoodJob(w, [j EXCEPT !.at = NoKernel]),
         \A q \in Kernels \ {k} : SameCall(q),
         \A v \in Workers : Retains(v)
  PROVE  JobsFit'
<1>1. \A v \in Workers : job[v].at = k => v = w
  BY NoWaiter
<1>2. CASE job[w].at = k
  <2> DEFINE told == [j EXCEPT !.at = NoKernel]
  <2>1. GoodJob(w, told) /\ job' = [job EXCEPT ![w] = told]
    BY <1>2 DEF Answer
  <2> HIDE DEF told
  <2> QED
    BY <1>1, <2>1, WorkerMoves
<1>3. CASE job[w].at # k
  BY <1>1, <1>3, WorkersStay DEF Answer
<1> QED
  BY <1>2, <1>3

(* A worker begins a call at an idle replica.                              *)
LEMMA WorkerCalls ==
  ASSUME SpawnInv, NEW k \in Kernels, NEW w \in Workers, NEW j \in Job,
         call[k] = Idle, call'[k].by = w,
         job' = [job EXCEPT ![w] = j], UNCHANGED spawn,
         j.at = k, j.pc \in Busy, j.id = job[w].id, j.next \notin Busy,
         j.id = NoId <=> j.pc = "pickup",
         j.next # "poll" => j.id # NoId,
         j.pc = "saving" => call'[k].op = "update",
         j.pc = "popping" => call'[k].op = "pop",
         j.pc = "pickup" => call'[k].op = "pickup",
         \A q \in Kernels \ {k} : SameCall(q),
         \A v \in Workers : Retains(v)
  PROVE  JobsFit'
<1>1. job' \in [Workers -> Job] /\ job'[w] = j
      /\ \A v \in Workers \ {w} : job'[v] = job[v]
  BY DEF SpawnInv, SpawnTypeOK
<1>2. OneRunner'
  BY <1>1 DEF Retains, OneRunner, SpawnInv
<1>3. \A v \in Workers : JobFits(v)'
  <2>1. JobFits(w) /\ k # NoKernel
    BY SpawnAssumption DEF SpawnInv
  <2>2. JobFits(w)'
    BY <1>1, <2>1 DEF JobFits, Busy
  <2> QED
    BY <1>1, <2>2 DEF Retains, JobFits, SpawnInv
<1>4. ASSUME NEW v \in Workers, NEW q \in Kernels PROVE WaitFits(v, q)'
  <2>1. CASE v = w
    BY <1>1, <2>1 DEF WaitFits
  <2>2. CASE v # w
    <3>1. WaitFits(v, q) /\ job'[v] = job[v]
      BY <1>1, <2>2 DEF SpawnInv
    <3>2. job[v].at # k
      BY NoWaiter, SpawnAssumption DEF Idle
    <3> QED
      BY <3>1, <3>2 DEF WaitFits, SameCall
  <2> QED
    BY <2>1, <2>2
<1> QED
  BY <1>1, <1>2, <1>3, <1>4 DEF JobsFit

-----------------------------------------------------------------------------
(* Every step keeps the invariant                                          *)

(* Nothing is submitted, nobody is busy.                                   *)
LEMMA SpawnInitInv == SpawnInit => SpawnInv
<1> SUFFICES ASSUME SpawnInit PROVE SpawnInv
  OBVIOUS
<1>1. Absent \in Doc
  BY AbsentDoc
<1>2. SpawnTypeOK
  BY <1>1, IdleCall, PollingJob, SpawnAssumption DEF SpawnInit, SpawnTypeOK
<1>3. OneRunner /\ PutsApart
  BY DEF SpawnInit, OneRunner, PutsApart, Polling, Idle
<1>4. \A k \in Kernels : CallFits(k)
  BY DEF SpawnInit, CallFits, Idle, OnSpawn
<1>5. \A w \in Workers : JobFits(w) /\ \A k \in Kernels : WaitFits(w, k)
  BY SpawnAssumption DEF SpawnInit, JobFits, WaitFits, Polling, Busy
<1> QED
  BY <1>2, <1>3, <1>4, <1>5 DEF SpawnInv, SpawnInit

(* A user's handler begins at an idle replica.                             *)
LEMMA UserBegins ==
  ASSUME SpawnInv, NEW k \in Kernels, NEW c \in Call, Begin(k, c), Ask,
         UNCHANGED <<spawn, job, fate>>, counter' \in Nat, c.op # "put",
         call'[k] = c => CallFits(k)'
  PROVE  SpawnInv'
<1>1. call[k] = Idle /\ call' = [call EXCEPT ![k] = c]
  BY DEF Begin
<1>2. /\ spawn' \in [Ids -> Doc] /\ call' \in [Kernels -> Call]
      /\ call'[k] = c
      /\ \A q \in Kernels \ {k} : CallFits(q)' /\ SameCall(q)
      /\ \A w \in Workers : Retains(w)
      /\ PutsApart'
      /\ \A j \in Ids : spawn'[j].state = "absent" => spawn'[j] = Absent
  BY <1>1, CallKeeps
<1>3. \A v \in Workers : job[v].at # k
  BY <1>1, NoWaiter, SpawnAssumption DEF Idle
<1>4. JobsFit'
  BY <1>2, <1>3, WorkersStay
<1>5. SpawnTypeOK'
  BY <1>2, <1>4, SpawnAssumption DEF SpawnInv, SpawnTypeOK, JobsFit, Ask
<1> QED
  BY <1>2, <1>4, <1>5 DEF SpawnInv, JobsFit

(* Users submit, cancel, answer and force.                                 *)
LEMMA UserKeeps ==
  ASSUME SpawnInv, NEW k \in Kernels, UserStep(k)
  PROVE  SpawnInv'
<1>1. CASE SubmitIncr(k)
  <2> DEFINE c == [Idle EXCEPT !.op = "serial", !.ids = Spawned]
  <2>1. c \in Call /\ c.op = "serial" /\ c.fresh = {}
    BY IdleCall DEF Idle, Call, Ops, Spawned
  <2>2. call'[k] = c => CallFits(k)'
    BY <2>1 DEF CallFits, OnSpawn
  <2>3. counter' \in Nat
    BY <1>1 DEF SubmitIncr, Incremented, SpawnInv, SpawnTypeOK
  <2>4. Begin(k, c) /\ Ask /\ UNCHANGED <<spawn, job, fate>>
    BY <1>1 DEF SubmitIncr
  <2> HIDE DEF c
  <2> QED
    BY <2>1, <2>2, <2>3, <2>4, UserBegins
<1>2. ASSUME NEW i \in Ids, CancelRead(k, i) PROVE SpawnInv'
  <2> DEFINE a == IF spawn[i].state = "queued" THEN "cancelled" ELSE "cancel_requested"
             c == [Idle EXCEPT !.op = "cancel", !.id = i, !.arg = a]
  <2>1. a \in {"cancelled", "cancel_requested"}
    OBVIOUS
  <2>2. Begin(k, c) /\ Ask /\ UNCHANGED <<spawn, job, fate, counter>>
        /\ spawn[i].state # "absent"
    BY <1>2 DEF CancelRead, Unfinished
  <2> HIDE DEF a
  <2>3. /\ c \in Call /\ c.op = "cancel" /\ c.id = i /\ c.arg = a
        /\ c.fresh = {}
    BY <2>1, IdleCall DEF Idle, Call, Ops, States, Final
  <2> HIDE DEF c
  <2>4. call'[k] = c => CallFits(k)'
    BY <2>1, <2>2, <2>3 DEF CallFits, OnSpawn
  <2>5. counter' \in Nat
    BY <2>2 DEF SpawnInv, SpawnTypeOK
  <2> QED
    BY <2>2, <2>3, <2>4, <2>5, UserBegins
<1>3. ASSUME NEW i \in Ids, AnswerRead(k, i) PROVE SpawnInv'
  <2> DEFINE c == [Idle EXCEPT !.op = "answer", !.id = i]
  <2>1. Begin(k, c) /\ Ask /\ UNCHANGED <<spawn, job, fate, counter>>
        /\ spawn[i].state # "absent"
    BY <1>3 DEF AnswerRead
  <2>2. c \in Call /\ c.op = "answer" /\ c.id = i /\ c.fresh = {}
    BY IdleCall DEF Idle, Call, Ops
  <2> HIDE DEF c
  <2>3. call'[k] = c => CallFits(k)'
    BY <2>1, <2>2 DEF CallFits, OnSpawn
  <2>4. counter' \in Nat
    BY <2>1 DEF SpawnInv, SpawnTypeOK
  <2> QED
    BY <2>1, <2>2, <2>3, <2>4, UserBegins
<1>4. ASSUME NEW i \in Ids, NEW st \in {"cancelled", "failed"}, ForceRead(k, i, st)
      PROVE  SpawnInv'
  <2> DEFINE c == [Idle EXCEPT !.op = "force", !.id = i, !.arg = st]
  <2>1. Begin(k, c) /\ Ask /\ UNCHANGED <<spawn, job, fate, counter>>
        /\ spawn[i].state # "absent"
    BY <1>4 DEF ForceRead, Unfinished
  <2>2. /\ c \in Call /\ c.op = "force" /\ c.id = i /\ c.arg = st
        /\ c.fresh = {}
    BY IdleCall DEF Idle, Call, Ops, States, Final
  <2> HIDE DEF c
  <2>3. call'[k] = c => CallFits(k)'
    BY <2>1, <2>2 DEF CallFits, OnSpawn
  <2>4. counter' \in Nat
    BY <2>1 DEF SpawnInv, SpawnTypeOK
  <2> QED
    BY <2>1, <2>2, <2>3, <2>4, UserBegins
<1> QED
  BY <1>1, <1>2, <1>3, <1>4 DEF UserStep

(* _update_spawn, in whatever step of a job.                               *)
LEMMA UpdateCallKeeps ==
  ASSUME SpawnInv, NEW k \in Kernels, NEW w \in Workers,
         NEW st \in Final \cup {"none", "waiting_user", "running"},
         NEW turn \in 0..MaxTurns, NEW next \in Steps \ Busy,
         job[w].id # NoId, UpdateCall(w, k, st, turn, next)
  PROVE  SpawnInv'
<1> DEFINE c == [Idle EXCEPT !.op = "update", !.id = job[w].id, !.by = w,
                             !.arg = st, !.num = turn]
           j == [job[w] EXCEPT !.pc = "saving", !.turn = turn, !.next = next, !.at = k]
<1>1. job[w] \in Job /\ job[w].id \in Ids /\ turn \in Nat /\ turn <= MaxTurns
      /\ k # NoKernel
  BY SpawnAssumption DEF SpawnInv, SpawnTypeOK, Job
<1>2. spawn[job[w].id].state # "absent"
  BY <1>1 DEF SpawnInv, JobFits
<1>3. /\ c \in Call /\ c.op = "update" /\ c.id = job[w].id /\ c.by = w
      /\ c.arg = st /\ c.num = turn /\ c.fresh = {}
  BY <1>1, IdleCall DEF Idle, Call, Ops, States, Final
<1>4. /\ j \in Job /\ j.pc = "saving" /\ j.next = next /\ j.at = k
      /\ j.id = job[w].id
  BY <1>1 DEF Job, Steps
<1>5. call[k] = Idle /\ call' = [call EXCEPT ![k] = c] /\ job' = [job EXCEPT ![w] = j]
      /\ UNCHANGED <<spawn, counter, fate, asks, faults>>
  BY <1>1 DEF UpdateCall, Begin
<1> HIDE DEF c, j
<1>6. /\ spawn' \in [Ids -> Doc] /\ call' \in [Kernels -> Call]
      /\ call'[k] = c
      /\ \A q \in Kernels \ {k} : CallFits(q)' /\ SameCall(q)
      /\ \A v \in Workers : Retains(v)
      /\ PutsApart'
      /\ \A i \in Ids : spawn'[i].state = "absent" => spawn'[i] = Absent
  BY <1>3, <1>5, CallKeeps
<1>7. CallFits(k)'
  BY <1>1, <1>2, <1>3, <1>5, <1>6 DEF CallFits, OnSpawn
<1>8. JobsFit'
  <2>1. j.pc \in Busy /\ (j.id = NoId <=> j.pc = "pickup") /\ j.next \notin Busy
        /\ (j.next # "poll" => j.id # NoId)
    BY <1>4 DEF Busy
  <2> QED
    BY <1>3, <1>4, <1>5, <1>6, <2>1, WorkerCalls
<1> QED
  BY <1>5, <1>6, <1>7, <1>8 DEF SpawnInv, SpawnTypeOK, JobsFit

(* A worker goes on by itself; if that is a fault, it is counted.          *)
LEMMA LocalStep ==
  ASSUME SpawnInv, NEW w \in Workers, NEW j, GoodJob(w, j),
         job' = [job EXCEPT ![w] = j], UNCHANGED <<spawn, counter, call, fate>>,
         UNCHANGED <<asks, faults>> \/ Fault
  PROVE  SpawnInv'
<1>1. \A q \in Kernels : SameCall(q) /\ CallFits(q)'
  BY DEF SameCall, SpawnInv, CallFits
<1>2. \A v \in Workers : Retains(v)
  BY DEF Retains, JobFits, SpawnInv, OneRunner
<1>3. JobsFit'
  <2>1. PICK k : k \notin Kernels
    BY SpawnAssumption
  <2>2. \A v \in Workers : job[v].at = k => v = w \/ SameCall(k)
    BY <2>1, <1>1, SpawnAssumption DEF SameCall
  <2> QED
    BY <1>1, <1>2, <2>2, WorkerMoves
<1>4. SpawnTypeOK'
  BY <1>3, SpawnAssumption DEF SpawnInv, SpawnTypeOK, JobsFit, Fault
<1> QED
  BY <1>1, <1>3, <1>4 DEF SpawnInv, JobsFit, PutsApart

(* Where a worker goes on after an update, with or without an answer.      *)
LEMMA ResumeGood ==
  ASSUME SpawnInv, NEW w \in Workers, Retains(w), job[w].pc = "saving"
  PROVE  GoodJob(w, [Resume(w) EXCEPT !.at = NoKernel])
<1>1. job[w] \in Job /\ JobFits(w)
  BY DEF SpawnInv, SpawnTypeOK
<1>2. CASE job[w].next = "poll"
  <2>1. [Resume(w) EXCEPT !.at = NoKernel] = Polling
    BY <1>2 DEF Resume, Polling
  <2> QED
    BY <2>1, PollingJob DEF GoodJob, Polling, Busy
<1>3. CASE job[w].next # "poll"
  <2> DEFINE j == [Resume(w) EXCEPT !.at = NoKernel]
  <2>1. /\ j \in Job /\ j.pc = job[w].next /\ j.next = "poll" /\ j.at = NoKernel
        /\ j.id = job[w].id
    BY <1>1, <1>3 DEF Resume, Job, Steps
  <2> HIDE DEF j
  <2>2. GoodJob(w, j)
    BY <1>1, <1>3, <2>1 DEF GoodJob, JobFits, Retains, Busy
  <2> QED
    BY <2>2 DEF j
<1> QED
  BY <1>2, <1>3

(* A worker that has its spawn keeps it when only the step changes.        *)
LEMMA StepGood ==
  ASSUME SpawnInv, NEW w \in Workers, Retains(w), job[w].id # NoId,
         NEW pc \in Steps \ (Busy \cup {"poll"})
  PROVE  GoodJob(w, [job[w] EXCEPT !.pc = pc, !.at = NoKernel])
<1> DEFINE j == [job[w] EXCEPT !.pc = pc, !.at = NoKernel]
<1>1. job[w] \in Job /\ JobFits(w)
  BY DEF SpawnInv, SpawnTypeOK
<1>2. /\ j \in Job /\ j.pc = pc /\ j.next = job[w].next /\ j.at = NoKernel
      /\ j.id = job[w].id
  BY <1>1 DEF Job
<1> HIDE DEF j
<1>3. GoodJob(w, j)
  BY <1>1, <1>2 DEF GoodJob, JobFits, Retains, Busy
<1> QED
  BY <1>3 DEF j

(* Where a worker goes on when its call failed.                            *)
LEMMA FailureGood ==
  ASSUME SpawnInv, NEW w \in Workers, Retains(w), job[w].at # NoKernel
  PROVE  GoodJob(w, AfterFailure(w))
<1>1. job[w] \in Job /\ JobFits(w)
  BY DEF SpawnInv, SpawnTypeOK
<1>2. CASE job[w].pc = "saving"
  <2>1. AfterFailure(w) = [Resume(w) EXCEPT !.at = NoKernel]
    BY <1>1, <1>2 DEF AfterFailure, Job
  <2> QED
    BY <1>2, <2>1, ResumeGood
<1>3. CASE job[w].pc = "popping"
  <2>1. AfterFailure(w) = [job[w] EXCEPT !.pc = "waiting", !.at = NoKernel]
    BY <1>1, <1>3 DEF AfterFailure, Job
  <2>2. job[w].id # NoId /\ "waiting" \in Steps \ (Busy \cup {"poll"})
    BY <1>1, <1>3 DEF JobFits, Steps, Busy
  <2>3. GoodJob(w, [job[w] EXCEPT !.pc = "waiting", !.at = NoKernel])
    BY <2>2, StepGood
  <2> QED
    BY <2>1, <2>3
<1>4. CASE job[w].pc = "pickup"
  <2>1. AfterFailure(w) = Polling
    BY <1>1, <1>4 DEF AfterFailure, Job
  <2> QED
    BY <2>1, PollingJob DEF GoodJob, Polling, Busy
<1> QED
  BY <1>1, <1>2, <1>3, <1>4 DEF JobFits, Busy

(* A worker's own steps: search, turns, waits.                             *)
LEMMA WorkerKeeps ==
  ASSUME SpawnInv, NEW w \in Workers, NEW k \in Kernels, WorkerStep(w, k)
  PROVE  SpawnInv'
<1>1. /\ job[w] \in Job /\ JobFits(w) /\ k # NoKernel
      /\ job[w].turn \in 0..MaxTurns /\ 0 \in 0..MaxTurns
      /\ job[w].id \in Ids \cup {NoId}
  BY SpawnAssumption DEF SpawnInv, SpawnTypeOK, Job
<1>2. {"poll", "turn", "gemma", "waiting"} \subseteq Steps \ Busy
  BY DEF Steps, Busy
<1>3. {"done", "failed", "cancelled", "none", "waiting_user", "running"}
        \subseteq Final \cup {"none", "waiting_user", "running"}
  BY DEF Final
<1>4. job[w].pc \notin {"poll", "pickup"} => job[w].id # NoId
  BY <1>1 DEF JobFits
<1>5. UNCHANGED spawn => Retains(w)
  BY DEF Retains, JobFits, SpawnInv, OneRunner
<1>6. CASE PickupSearch(w, k)
  <2> DEFINE c == [Idle EXCEPT !.op = "pickup", !.by = w, !.ids = Hits, !.fresh = Hits]
             j == [job[w] EXCEPT !.pc = "pickup", !.at = k]
  <2>1. Hits \subseteq Ids /\ \A i \in Hits : spawn[i].state = "queued"
    BY DEF Hits, Queued
  <2>2. job[w].id = NoId /\ job[w].next = "poll"
    BY <1>1, <1>6 DEF PickupSearch, JobFits
  <2>3. /\ c \in Call /\ c.op = "pickup" /\ c.by = w /\ c.fresh = Hits
    BY <2>1, IdleCall DEF Idle, Call, Ops
  <2>4. /\ j \in Job /\ j.pc = "pickup" /\ j.at = k /\ j.id = job[w].id
        /\ j.next = job[w].next
    BY <1>1 DEF Job, Steps
  <2>5. call[k] = Idle /\ call' = [call EXCEPT ![k] = c]
        /\ job' = [job EXCEPT ![w] = j]
        /\ UNCHANGED <<spawn, counter, fate, asks, faults>>
    BY <1>6 DEF PickupSearch, Begin
  <2> HIDE DEF c, j
  <2>6. /\ spawn' \in [Ids -> Doc] /\ call' \in [Kernels -> Call]
        /\ call'[k] = c
        /\ \A q \in Kernels \ {k} : CallFits(q)' /\ SameCall(q)
        /\ \A v \in Workers : Retains(v)
        /\ PutsApart'
        /\ \A i \in Ids : spawn'[i].state = "absent" => spawn'[i] = Absent
    BY <2>3, <2>5, CallKeeps
  <2>7. CallFits(k)'
    BY <2>1, <2>3, <2>5, <2>6 DEF CallFits, OnSpawn
  <2>8. JobsFit'
    <3>1. /\ j.pc \in Busy /\ (j.id = NoId <=> j.pc = "pickup")
          /\ j.next \notin Busy /\ (j.next # "poll" => j.id # NoId)
      BY <2>2, <2>4 DEF Busy
    <3> QED
      BY <2>3, <2>4, <2>5, <2>6, <3>1, WorkerCalls
  <2> QED
    BY <2>5, <2>6, <2>7, <2>8 DEF SpawnInv, SpawnTypeOK, JobsFit
<1>7. CASE Triage(w, k)
  BY <1>1, <1>2, <1>3, <1>4, <1>7, UpdateCallKeeps DEF Triage
<1>8. CASE GemmaAnswer(w, k)
  <2>1. CASE UpdateCall(w, k, "done", 0, "poll")
    BY <1>1, <1>2, <1>3, <1>4, <1>8, <2>1, UpdateCallKeeps DEF GemmaAnswer
  <2>2. CASE /\ job' = [job EXCEPT ![w].pc = "turn"]
             /\ UNCHANGED <<spawn, counter, call, fate, asks, faults>>
    <3> DEFINE j == [job[w] EXCEPT !.pc = "turn", !.at = NoKernel]
    <3>1. job[w].id # NoId /\ job[w].at = NoKernel
          /\ "turn" \in Steps \ (Busy \cup {"poll"})
      BY <1>1, <1>8 DEF GemmaAnswer, JobFits, Busy, Steps
    <3>2. GoodJob(w, j)
      BY <1>5, <2>2, <3>1, StepGood
    <3>3. job' = [job EXCEPT ![w] = j]
      BY <1>1, <2>2, <3>1 DEF Job, SpawnInv, SpawnTypeOK
    <3> HIDE DEF j
    <3> QED
      BY <2>2, <3>2, <3>3, LocalStep
  <2> QED
    BY <1>8, <2>1, <2>2 DEF GemmaAnswer
<1>9. CASE Turn(w, k)
  <2>1. job[w].turn + 1 \in 0..MaxTurns /\ job[w].id # NoId
    BY <1>1, <1>4, <1>9, SpawnAssumption DEF Turn, TurnsLeft
  <2> QED
    BY <1>2, <1>3, <1>9, <2>1, UpdateCallKeeps DEF Turn
<1>10. CASE OutOfTurns(w, k)
  BY <1>1, <1>2, <1>3, <1>4, <1>10, UpdateCallKeeps DEF OutOfTurns
<1>11. CASE PopRead(w, k)
  <2> DEFINE i == job[w].id
  <2>1. /\ i \in Ids /\ i # NoId /\ job[w].at = NoKernel
        /\ "stopped" \in Steps \ (Busy \cup {"poll"})
        /\ UNCHANGED <<spawn, counter, fate, asks, faults>>
    BY <1>1, <1>11 DEF PopRead, JobFits, Busy, Steps
  <2>2. CASE job' = [job EXCEPT ![w].pc = "stopped"] /\ UNCHANGED call
    <3> DEFINE j == [job[w] EXCEPT !.pc = "stopped", !.at = NoKernel]
    <3>1. GoodJob(w, j)
      BY <1>5, <2>1, StepGood
    <3>2. job' = [job EXCEPT ![w] = j]
      BY <1>1, <2>1, <2>2 DEF Job, SpawnInv, SpawnTypeOK
    <3> HIDE DEF j
    <3> QED
      BY <2>1, <2>2, <3>1, <3>2, LocalStep
  <2>3. CASE /\ spawn[i].answers # << >>
             /\ Begin(k, [Idle EXCEPT !.op = "pop", !.id = i, !.by = w,
                            !.arg = spawn[i].state, !.num = Head(spawn[i].answers),
                            !.fresh = {i}])
             /\ job' = [job EXCEPT ![w].pc = "popping", ![w].at = k]
    <3> DEFINE c == [Idle EXCEPT !.op = "pop", !.id = i, !.by = w,
                                 !.arg = spawn[i].state,
                                 !.num = Head(spawn[i].answers), !.fresh = {i}]
               j == [job[w] EXCEPT !.pc = "popping", !.at = k]
    <3>1. /\ spawn[i].state \in States /\ spawn[i].state # "absent"
          /\ spawn[i].answers \in Seq(Nat)
      BY <1>1, <2>1 DEF SpawnInv, SpawnTypeOK, Doc, JobFits
    <3>2. Head(spawn[i].answers) \in Nat
      BY <2>3, <3>1, HeadAndTail
    <3>3. /\ c \in Call /\ c.op = "pop" /\ c.by = w /\ c.fresh = {i} /\ c.id = i
          /\ c.num = Head(spawn[i].answers)
      BY <2>1, <3>1, <3>2, IdleCall DEF Idle, Call, Ops
    <3>4. /\ j \in Job /\ j.pc = "popping" /\ j.at = k /\ j.id = job[w].id
          /\ j.next = job[w].next
      BY <1>1 DEF Job, Steps
    <3>5. call[k] = Idle /\ call' = [call EXCEPT ![k] = c]
          /\ job' = [job EXCEPT ![w] = j]
      BY <2>3 DEF Begin
    <3> HIDE DEF c, j
    <3>6. /\ spawn' \in [Ids -> Doc] /\ call' \in [Kernels -> Call]
          /\ call'[k] = c
          /\ \A q \in Kernels \ {k} : CallFits(q)' /\ SameCall(q)
          /\ \A v \in Workers : Retains(v)
          /\ PutsApart'
          /\ \A x \in Ids : spawn'[x].state = "absent" => spawn'[x] = Absent
      BY <2>1, <3>3, <3>5, CallKeeps
    <3>7. CallFits(k)'
      BY <2>1, <2>3, <3>1, <3>3, <3>6 DEF CallFits, OnSpawn
    <3>8. JobsFit'
      <4>1. /\ j.pc \in Busy /\ (j.id = NoId <=> j.pc = "pickup")
            /\ j.next \notin Busy /\ (j.next # "poll" => j.id # NoId)
        BY <1>1, <2>1, <3>4 DEF Busy, JobFits
      <4> QED
        BY <2>1, <3>3, <3>4, <3>5, <3>6, <4>1, WorkerCalls
    <3> QED
      BY <2>1, <3>6, <3>7, <3>8 DEF SpawnInv, SpawnTypeOK, JobsFit
  <2> QED
    BY <1>11, <2>2, <2>3 DEF PopRead
<1>12. CASE Answered(w, k)
  BY <1>1, <1>2, <1>3, <1>4, <1>12, UpdateCallKeeps DEF Answered
<1>13. CASE Stopped(w, k)
  BY <1>1, <1>2, <1>3, <1>4, <1>13, UpdateCallKeeps DEF Stopped
<1>14. CASE WaitTimeout(w, k)
  BY <1>1, <1>2, <1>3, <1>4, <1>14, UpdateCallKeeps DEF WaitTimeout
<1> QED
  BY <1>6, <1>7, <1>8, <1>9, <1>10, <1>11, <1>12, <1>13, <1>14 DEF WorkerStep

(* A handler of a user or of a submit goes on without touching workers.    *)
LEMMA HandlerWrites ==
  ASSUME SpawnInv, NEW k \in Kernels, NEW i \in Ids, NEW d \in Doc, NEW c \in Call,
         Put(k, i, d, c) \/ (c = Idle /\ Merge(k, i, d)),
         d.state # "absent",
         spawn[i].state = "absent" => call[k].op = "put" /\ call[k].id = i,
         d.state = "queued" => spawn[i].state \in {"queued", "absent"},
         d.worker = spawn[i].worker \/ spawn[i].state \in {"queued", "absent"},
         call[k].op \notin {"update", "pop", "pickup"}, c.op # "put",
         call'[k] = c /\ spawn'[i] = d => CallFits(k)',
         fate' \in [Ids -> Seq(Fates)], UNCHANGED <<job, counter, asks, faults>>
  PROVE  SpawnInv'
<1>1. /\ spawn' \in [Ids -> Doc] /\ call' \in [Kernels -> Call]
      /\ spawn'[i] = d /\ call'[k] = c
      /\ \A q \in Kernels \ {k} : CallFits(q)' /\ SameCall(q)
      /\ \A w \in Workers : Retains(w)
      /\ PutsApart'
      /\ \A j \in Ids : spawn'[j].state = "absent" => spawn'[j] = Absent
  BY WriteKeeps
<1>2. \A v \in Workers : job[v].at # k
  BY NoWaiter
<1>3. JobsFit'
  BY <1>1, <1>2, WorkersStay
<1>4. SpawnTypeOK'
  BY <1>1, <1>3 DEF SpawnInv, SpawnTypeOK, JobsFit
<1> QED
  BY <1>1, <1>3, <1>4 DEF SpawnInv, JobsFit

(* A replica with nothing left to do fits anything.                        *)
LEMMA IdleFits ==
  ASSUME NEW k, call'[k] = Idle
  PROVE  CallFits(k)'
  BY DEF CallFits, Idle, OnSpawn

(* A submit reads the counter and takes an id nobody has.                  *)
LEMMA SubmitGetKeeps ==
  ASSUME SpawnInv, NEW k \in Kernels, SubmitGet(k)
  PROVE  SpawnInv'
<1>1. PICK i \in Ids \ (Spawned \cup {call[q].id : q \in Kernels}) :
        /\ call[k].op = "serial"
        /\ call' = [call EXCEPT ![k].op = "put", ![k].id = i, ![k].num = counter]
        /\ UNCHANGED <<spawn, counter, job, fate, asks, faults>>
  BY DEF SubmitGet
<1> DEFINE c == [call[k] EXCEPT !.op = "put", !.id = i, !.num = counter]
<1>2. call[k] \in Call /\ CallFits(k) /\ counter \in Nat
  BY DEF SpawnInv, SpawnTypeOK
<1>3. /\ c \in Call /\ c.op = "put" /\ c.id = i /\ c.fresh = call[k].fresh
  BY <1>2 DEF Call, Ops
<1>4. call' = [call EXCEPT ![k] = c]
  BY <1>1, <1>2 DEF Call, SpawnInv, SpawnTypeOK
<1> HIDE DEF c
<1>5. /\ spawn' \in [Ids -> Doc] /\ call' \in [Kernels -> Call]
      /\ call'[k] = c
      /\ \A q \in Kernels \ {k} : CallFits(q)' /\ SameCall(q)
      /\ \A w \in Workers : Retains(w)
      /\ \A j \in Ids : spawn'[j].state = "absent" => spawn'[j] = Absent
  BY <1>1, <1>3, <1>4, CallKeeps
<1>6. CallFits(k)'
  <2>1. call[k].fresh = {} /\ spawn[i].state = "absent"
    BY <1>1, <1>2 DEF CallFits, Spawned
  <2> QED
    BY <1>1, <1>3, <1>5, <2>1 DEF CallFits, OnSpawn
<1>7. PutsApart'
  <2>1. \A q \in Kernels : call[q].id # i
    BY <1>1
  <2> QED
    BY <1>3, <1>5, <2>1 DEF PutsApart, SameCall, SpawnInv
<1>8. JobsFit'
  <2>1. \A v \in Workers : job[v].at # k
    BY <1>1, NoWaiter
  <2> QED
    BY <1>1, <1>5, <2>1, WorkersStay
<1> QED
  BY <1>1, <1>5, <1>6, <1>7, <1>8 DEF SpawnInv, SpawnTypeOK, JobsFit

(* A submit stores the document.                                           *)
LEMMA SubmitPutKeeps ==
  ASSUME SpawnInv, NEW k \in Kernels, SubmitPut(k)
  PROVE  SpawnInv'
<1> DEFINE i == call[k].id
           d == [Absent EXCEPT !.state = "queued", !.num = call[k].num,
                               !.after = call[k].ids]
           c == IF Parent[i] = NoId THEN Idle ELSE [call[k] EXCEPT !.op = "link"]
<1>1. call[k] \in Call /\ CallFits(k) /\ call[k].op = "put" /\ Put(k, i, d, c)
      /\ UNCHANGED <<counter, job, fate, asks, faults>>
  BY DEF SubmitPut, SpawnInv, SpawnTypeOK
<1>2. i \in Ids /\ spawn[i].state = "absent" /\ call[k].fresh = {}
  BY <1>1 DEF CallFits
<1>3. d \in Doc /\ d.state = "queued"
  <2>1. call[k].num \in Nat /\ call[k].ids \in SUBSET Ids
    BY <1>1 DEF Call
  <2>2. d \in Doc
    BY <2>1, AbsentDoc, DocEdits
  <2> QED
    BY <2>2, AbsentDoc DEF Doc
<1>4. c \in Call /\ (c = Idle \/ (c.op = "link" /\ c.id = i /\ c.fresh = {}))
  BY <1>1, <1>2, IdleCall, CallEdits DEF Call
<1> HIDE DEF d, c
<1>5. call'[k] = c /\ spawn'[i] = d => CallFits(k)'
  BY <1>2, <1>3, <1>4, IdleFits DEF CallFits, OnSpawn
<1>6. c.op # "put"
  BY <1>4 DEF Idle
<1>7. fate' \in [Ids -> Seq(Fates)]
  BY <1>1 DEF SpawnInv, SpawnTypeOK
<1> HIDE DEF i
<1> QED
  BY <1>1, <1>2, <1>3, <1>4, <1>5, <1>6, <1>7, HandlerWrites DEF i

(* A submit adds the child to its supervisor.                              *)
LEMMA SubmitLinkKeeps ==
  ASSUME SpawnInv, NEW k \in Kernels, SubmitLink(k)
  PROVE  SpawnInv'
<1> DEFINE p == Parent[call[k].id]
           d == [spawn[p] EXCEPT !.managed = @ \cup {call[k].id}]
<1>1. /\ call[k] \in Call /\ CallFits(k) /\ call[k].op = "link"
      /\ UNCHANGED <<counter, job, fate, asks, faults>>
      /\ fate \in [Ids -> Seq(Fates)]
  BY DEF SubmitLink, SpawnInv, SpawnTypeOK
<1>2. call[k].id \in Ids
  BY <1>1 DEF CallFits, OnSpawn
<1>3. CASE p \in Spawned
  <2>1. p \in Ids /\ spawn[p] \in Doc /\ spawn[p].state # "absent"
    BY <1>3 DEF Spawned, SpawnInv, SpawnTypeOK
  <2>2. d \in Doc /\ d.state = spawn[p].state /\ d.worker = spawn[p].worker
    BY <1>2, <2>1, DocEdits DEF Doc
  <2>3. Merge(k, p, d)
    BY <1>3 DEF SubmitLink
  <2>4. Idle.op # "put"
    BY DEF Idle
  <2> HIDE DEF p, d
  <2> QED
    BY <1>1, <2>1, <2>2, <2>3, <2>4, IdleCall, IdleFits, HandlerWrites
<1>4. CASE p \notin Spawned
  <2>1. call' = [call EXCEPT ![k] = Idle] /\ UNCHANGED spawn
    BY <1>4 DEF SubmitLink, End
  <2>2. Idle.op # "put"
    BY DEF Idle
  <2>3. /\ spawn' \in [Ids -> Doc] /\ call' \in [Kernels -> Call]
        /\ call'[k] = Idle
        /\ \A q \in Kernels \ {k} : CallFits(q)' /\ SameCall(q)
        /\ \A w \in Workers : Retains(w)
        /\ PutsApart'
        /\ \A j \in Ids : spawn'[j].state = "absent" => spawn'[j] = Absent
    BY <2>1, <2>2, IdleCall, CallKeeps
  <2>4. JobsFit'
    <3>1. \A v \in Workers : job[v].at # k
      BY <1>1, NoWaiter
    <3> QED
      BY <1>1, <2>3, <3>1, WorkersStay
  <2>5. CallFits(k)'
    BY <2>3, IdleFits
  <2> QED
    BY <1>1, <2>3, <2>4, <2>5 DEF SpawnInv, SpawnTypeOK, JobsFit
<1> QED
  BY <1>3, <1>4

(* cancel writes over whatever is there.                                   *)
LEMMA CancelWriteKeeps ==
  ASSUME SpawnInv, NEW k \in Kernels, CancelWrite(k)
  PROVE  SpawnInv'
<1> DEFINE i == call[k].id
           d == [spawn[i] EXCEPT !.state = call[k].arg]
<1>1. /\ CallFits(k) /\ call[k].op = "cancel"
      /\ UNCHANGED <<counter, job, fate, asks, faults>>
      /\ fate \in [Ids -> Seq(Fates)]
  BY DEF CancelWrite, SpawnInv, SpawnTypeOK
<1>2. i \in Ids /\ spawn[i].state # "absent"
      /\ call[k].arg \in {"cancelled", "cancel_requested"}
  BY <1>1 DEF CallFits, OnSpawn
<1>3. spawn[i] \in Doc /\ call[k].arg \in States
  BY <1>2 DEF SpawnInv, SpawnTypeOK, States, Final
<1>4. d \in Doc /\ d.state = call[k].arg /\ d.worker = spawn[i].worker
  BY <1>3, DocEdits DEF Doc
<1>5. Put(k, i, d, Idle) \/ Merge(k, i, d)
  BY DEF CancelWrite
<1>6. Idle.op # "put"
  BY DEF Idle
<1>7. call'[k] = Idle => CallFits(k)'
  BY IdleFits
<1> HIDE DEF i, d
<1> QED
  BY <1>1, <1>2, <1>4, <1>5, <1>6, <1>7, IdleCall, HandlerWrites

(* force_state writes over whatever is there.                              *)
LEMMA ForceWriteKeeps ==
  ASSUME SpawnInv, NEW k \in Kernels, ForceWrite(k)
  PROVE  SpawnInv'
<1> DEFINE i == call[k].id
           d == [spawn[i] EXCEPT !.state = call[k].arg, !.question = 0,
                                 !.answers = << >>]
           f == [n \in DOMAIN fate[i] |->
                   IF fate[i][n] = "queued" THEN "cleared" ELSE fate[i][n]]
<1>1. /\ CallFits(k) /\ call[k].op = "force" /\ Put(k, i, d, Idle)
      /\ UNCHANGED <<job, counter, asks, faults>>
      /\ fate \in [Ids -> Seq(Fates)]
  BY DEF ForceWrite, SpawnInv, SpawnTypeOK
<1>2. i \in Ids /\ spawn[i].state # "absent"
      /\ call[k].arg \in {"cancelled", "failed"}
  BY <1>1 DEF CallFits, OnSpawn
<1>3. spawn[i] \in Doc /\ call[k].arg \in States
  BY <1>2 DEF SpawnInv, SpawnTypeOK, States, Final
<1>4. d \in Doc /\ d.state = call[k].arg /\ d.worker = spawn[i].worker
  <2>1. d \in Doc
    BY <1>3, DocEdits
  <2> QED
    BY <1>3, <2>1 DEF Doc
<1>5. fate' \in [Ids -> Seq(Fates)]
  <2>1. f \in Seq(Fates)
    BY <1>1, <1>2 DEF Fates
  <2>2. fate' = [fate EXCEPT ![i] = f]
    BY <1>2 DEF ForceWrite, SpawnInv, SpawnTypeOK
  <2> HIDE DEF f
  <2> QED
    BY <1>1, <2>1, <2>2
<1>6. Idle.op # "put"
  BY DEF Idle
<1>7. call'[k] = Idle => CallFits(k)'
  BY IdleFits
<1>8. /\ d.state # "absent"
      /\ spawn[i].state = "absent" => call[k].op = "put" /\ call[k].id = i
      /\ d.state = "queued" => spawn[i].state \in {"queued", "absent"}
      /\ d.worker = spawn[i].worker \/ spawn[i].state \in {"queued", "absent"}
      /\ call[k].op \notin {"update", "pop", "pickup"}
      /\ call'[k] = Idle /\ spawn'[i] = d => CallFits(k)'
  BY <1>1, <1>2, <1>4, <1>7
<1> HIDE DEF i, d
<1> QED
  BY <1>1, <1>2, <1>4, <1>5, <1>6, <1>8, IdleCall, HandlerWrites

(* An answer is queued.                                                    *)
LEMMA AnswerAppendKeeps ==
  ASSUME SpawnInv, NEW k \in Kernels, AnswerAppend(k)
  PROVE  SpawnInv'
<1> DEFINE i == call[k].id
           s == Append(spawn[i].answers, Len(fate[i]) + 1)
           d == [spawn[i] EXCEPT !.answers = s]
<1>1. /\ CallFits(k) /\ call[k].op = "answer" /\ Put(k, i, d, Idle)
      /\ UNCHANGED <<job, counter, asks, faults>>
      /\ fate \in [Ids -> Seq(Fates)]
  BY DEF AnswerAppend, WithAnswer, SpawnInv, SpawnTypeOK
<1>2. i \in Ids /\ spawn[i].state # "absent"
  BY <1>1 DEF CallFits, OnSpawn
<1>3. spawn[i] \in Doc /\ spawn[i].answers \in Seq(Nat) /\ Len(fate[i]) + 1 \in Nat
  BY <1>1, <1>2 DEF SpawnInv, SpawnTypeOK, Doc
<1>4. s \in Seq(Nat)
  BY <1>3
<1> HIDE DEF s
<1>5. d \in Doc /\ d.state = spawn[i].state /\ d.worker = spawn[i].worker
  BY <1>3, <1>4, DocEdits DEF Doc
<1>6. fate' \in [Ids -> Seq(Fates)]
  <2>1. Append(fate[i], "queued") \in Seq(Fates)
    BY <1>1, <1>2 DEF Fates
  <2> QED
    BY <1>1, <2>1 DEF AnswerAppend
<1>7. Idle.op # "put"
  BY DEF Idle
<1>8. call'[k] = Idle => CallFits(k)'
  BY IdleFits
<1>9. /\ d.state # "absent"
      /\ spawn[i].state = "absent" => call[k].op = "put" /\ call[k].id = i
      /\ d.state = "queued" => spawn[i].state \in {"queued", "absent"}
      /\ d.worker = spawn[i].worker \/ spawn[i].state \in {"queued", "absent"}
      /\ call[k].op \notin {"update", "pop", "pickup"}
      /\ call'[k] = Idle /\ spawn'[i] = d => CallFits(k)'
  BY <1>1, <1>2, <1>5, <1>8
<1> HIDE DEF i, d
<1> QED
  BY <1>1, <1>2, <1>5, <1>6, <1>7, <1>9, IdleCall, HandlerWrites

(* A handler writes document i and answers the worker that called it.      *)
LEMMA AnswerWrites ==
  ASSUME SpawnInv, NEW k \in Kernels, NEW i \in Ids, NEW d \in Doc,
         NEW w \in Workers, NEW j, call[k].by = w, Answer(w, k, j),
         Put(k, i, d, Idle) \/ Merge(k, i, d),
         d.state # "absent", spawn[i].state # "absent",
         d.state = "queued" => spawn[i].state = "queued",
         d.worker = spawn[i].worker \/ spawn[i].state = "queued",
         job[w].at = k /\ Retains(w) /\ spawn'[i] = d =>
           GoodJob(w, [j EXCEPT !.at = NoKernel]),
         fate' \in [Ids -> Seq(Fates)], UNCHANGED <<counter, asks, faults>>
  PROVE  SpawnInv'
<1>1. Idle.op # "put"
  BY DEF Idle
<1>2. /\ spawn' \in [Ids -> Doc] /\ call' \in [Kernels -> Call]
      /\ spawn'[i] = d /\ call'[k] = Idle
      /\ \A q \in Kernels \ {k} : CallFits(q)' /\ SameCall(q)
      /\ \A v \in Workers : Retains(v)
      /\ PutsApart'
      /\ \A x \in Ids : spawn'[x].state = "absent" => spawn'[x] = Absent
  BY <1>1, IdleCall, WriteKeeps
<1>3. JobsFit'
  BY <1>2, AnswerMoves
<1>4. CallFits(k)'
  BY <1>2, IdleFits
<1>5. SpawnTypeOK'
  BY <1>2, <1>3 DEF SpawnInv, SpawnTypeOK, JobsFit
<1> QED
  BY <1>2, <1>3, <1>4, <1>5 DEF SpawnInv, JobsFit

(* A worker that waits for an update is saving, for a pop, is popping.     *)
LEMMA WaitsFor ==
  ASSUME SpawnInv, NEW k \in Kernels, NEW w \in Workers, job[w].at = k
  PROVE  /\ call[k].op = "update" => job[w].pc = "saving"
         /\ call[k].op = "pop" => job[w].pc = "popping" /\ job[w].id # NoId
<1>1. k # NoKernel
  BY SpawnAssumption
<1> QED
  BY <1>1 DEF SpawnInv, JobFits, WaitFits, Busy

(* update_state merges the state a worker sent, however late.              *)
LEMMA UpdateWriteKeeps ==
  ASSUME SpawnInv, NEW k \in Kernels, UpdateWrite(k)
  PROVE  SpawnInv'
<1> DEFINE c == call[k]
           i == call[k].id
           w == call[k].by
<1>1. /\ call[k] \in Call /\ CallFits(k) /\ c.op = "update"
      /\ Answer(w, k, Resume(w)) /\ UNCHANGED <<counter, asks, faults>>
      /\ fate' \in [Ids -> Seq(Fates)]
  BY DEF UpdateWrite, SpawnInv, SpawnTypeOK
<1>2. /\ i \in Ids /\ spawn[i].state # "absent" /\ w \in Workers
      /\ c.arg \in Final \cup {"none", "waiting_user", "running"}
      /\ c.num \in 0..MaxTurns
  BY <1>1, SpawnAssumption DEF CallFits, OnSpawn, Call
<1>3. PICK d \in Doc : /\ d.state \in {spawn[i].state, "waiting_user", "running"} \cup Final
                       /\ d.worker = spawn[i].worker
                       /\ Put(k, i, d, Idle) \/ Merge(k, i, d)
  <2>1. spawn[i] \in Doc /\ 0 \in 0..MaxTurns /\ Final \subseteq States
        /\ "waiting_user" \in States /\ "running" \in States
    <3>1. spawn[i] \in Doc
      BY <1>2 DEF SpawnInv, SpawnTypeOK
    <3>2. 0 \in 0..MaxTurns
      BY SpawnAssumption
    <3>3. Final \subseteq States /\ "waiting_user" \in States /\ "running" \in States
      BY DEF States
    <3> QED
      BY <3>1, <3>2, <3>3
  <2>2. CASE c.arg = "none"
    BY <2>1, <2>2 DEF UpdateWrite, Final
  <2>3. CASE c.arg = "waiting_user"
    <3> DEFINE d == [spawn[i] EXCEPT !.state = c.arg, !.question = c.num]
    <3>1. d \in Doc /\ Merge(k, i, d)
      BY <1>2, <2>1, <2>3, DocEdits DEF UpdateWrite, Final
    <3>2. d.state = "waiting_user" /\ d.worker = spawn[i].worker
      BY <2>1, <2>3 DEF Doc
    <3> QED
      BY <3>1, <3>2
  <2>4. CASE c.arg = "running"
    <3> DEFINE d == [spawn[i] EXCEPT !.state = c.arg, !.question = 0]
    <3>1. d \in Doc /\ Merge(k, i, d)
      BY <1>2, <2>1, <2>4, DocEdits DEF UpdateWrite, Final
    <3>2. d.state = "running" /\ d.worker = spawn[i].worker
      BY <2>1, <2>4 DEF Doc
    <3> QED
      BY <3>1, <3>2
  <2>5. CASE c.arg \in Final
    <3> DEFINE d == [spawn[i] EXCEPT !.state = c.arg]
    <3>1. d \in Doc /\ Put(k, i, d, Idle)
      BY <1>2, <2>1, <2>5, DocEdits DEF UpdateWrite, Final
    <3>2. d.state = c.arg /\ d.worker = spawn[i].worker
      BY <2>1 DEF Doc
    <3> QED
      BY <2>5, <3>1, <3>2
  <2> QED
    BY <1>2, <2>2, <2>3, <2>4, <2>5
<1>4. d.state # "absent" /\ (d.state = "queued" => spawn[i].state = "queued")
  BY <1>2, <1>3 DEF Final
<1>5. job[w].at = k /\ Retains(w) => GoodJob(w, [Resume(w) EXCEPT !.at = NoKernel])
  BY <1>1, <1>2, WaitsFor, ResumeGood
<1> DEFINE j == Resume(w)
<1>6. /\ Answer(w, k, j)
      /\ job[w].at = k /\ Retains(w) => GoodJob(w, [j EXCEPT !.at = NoKernel])
  BY <1>1, <1>5
<1>7. call[k].by = w
  OBVIOUS
<1> HIDE DEF c, i, w, j
<1> QED
  BY <1>1, <1>2, <1>3, <1>4, <1>6, <1>7, AnswerWrites

(* pop_answer takes the first answer.                                      *)
LEMMA PopTakeKeeps ==
  ASSUME SpawnInv, NEW k \in Kernels, PopTake(k)
  PROVE  SpawnInv'
<1> DEFINE i == call[k].id
           w == call[k].by
           n == call[k].num
           d == [spawn[i] EXCEPT !.answers = Tail(@)]
           j == [job[w] EXCEPT !.pc = "answered"]
           out == IF job[w].at = k THEN "delivered" ELSE "lost"
<1>1. /\ call[k] \in Call /\ CallFits(k) /\ call[k].op = "pop"
      /\ i \in call[k].fresh /\ Put(k, i, d, Idle)
      /\ Answer(w, k, j) /\ UNCHANGED <<counter, asks, faults>>
      /\ fate \in [Ids -> Seq(Fates)] /\ fate' = [fate EXCEPT ![i][n] = out]
  BY DEF PopTake, Unwritten, SpawnInv, SpawnTypeOK
<1>2. /\ i \in Ids /\ spawn[i].state # "absent" /\ w \in Workers
      /\ spawn[i].answers # << >>
  BY <1>1 DEF CallFits, OnSpawn
<1>3. spawn[i] \in Doc /\ spawn[i].answers \in Seq(Nat)
  BY <1>2 DEF SpawnInv, SpawnTypeOK, Doc
<1>4. d \in Doc /\ d.state = spawn[i].state /\ d.worker = spawn[i].worker
  <2>1. Tail(spawn[i].answers) \in Seq(Nat)
    BY <1>2, <1>3, HeadAndTail
  <2>2. d \in Doc
    BY <1>3, <2>1, DocEdits
  <2> QED
    BY <1>3, <2>2 DEF Doc
<1>5. fate' \in [Ids -> Seq(Fates)]
  <2> DEFINE f == [fate[i] EXCEPT ![n] = out]
  <2>1. out \in Fates /\ fate[i] \in Seq(Fates)
    BY <1>1, <1>2 DEF Fates
  <2> HIDE DEF out
  <2>2. f \in Seq(Fates)
    BY <2>1, ReplacedOne
  <2>3. fate' = [fate EXCEPT ![i] = f]
    BY <1>1, <1>2
  <2> HIDE DEF f
  <2> QED
    BY <1>1, <2>2, <2>3
<1>6. job[w].at = k /\ Retains(w) => GoodJob(w, [j EXCEPT !.at = NoKernel])
  <2> SUFFICES ASSUME job[w].at = k, Retains(w)
               PROVE  GoodJob(w, [j EXCEPT !.at = NoKernel])
    OBVIOUS
  <2>1. job[w].id # NoId /\ "answered" \in Steps \ (Busy \cup {"poll"})
    BY <1>1, <1>2, WaitsFor DEF Steps, Busy
  <2>2. GoodJob(w, [job[w] EXCEPT !.pc = "answered", !.at = NoKernel])
    BY <1>2, <2>1, StepGood
  <2>3. [j EXCEPT !.at = NoKernel] = [job[w] EXCEPT !.pc = "answered", !.at = NoKernel]
    BY <1>2 DEF SpawnInv, SpawnTypeOK, Job
  <2> QED
    BY <2>2, <2>3
<1>7. call[k].by = w
  OBVIOUS
<1> HIDE DEF i, w, n, d, j, out
<1> QED
  BY <1>1, <1>2, <1>4, <1>5, <1>6, <1>7, AnswerWrites

(* A handler ends without a write and the worker is told j, if it listens. *)
LEMMA AnswerEnds ==
  ASSUME SpawnInv, NEW k \in Kernels, NEW w \in Workers, NEW j,
         call[k].by = w, Answer(w, k, j), End(k), UNCHANGED <<spawn, counter, fate>>,
         job[w].at = k /\ Retains(w) => GoodJob(w, [j EXCEPT !.at = NoKernel]),
         UNCHANGED <<asks, faults>> \/ Fault
  PROVE  SpawnInv'
<1>1. Idle.op # "put" /\ call' = [call EXCEPT ![k] = Idle]
  BY DEF Idle, End
<1>2. /\ spawn' \in [Ids -> Doc] /\ call' \in [Kernels -> Call]
      /\ call'[k] = Idle
      /\ \A q \in Kernels \ {k} : CallFits(q)' /\ SameCall(q)
      /\ \A v \in Workers : Retains(v)
      /\ PutsApart'
      /\ \A x \in Ids : spawn'[x].state = "absent" => spawn'[x] = Absent
  BY <1>1, IdleCall, CallKeeps
<1>3. JobsFit'
  BY <1>2, AnswerMoves
<1>4. CallFits(k)'
  BY <1>2, IdleFits
<1>5. SpawnTypeOK'
  BY <1>2, <1>3, SpawnAssumption DEF SpawnInv, SpawnTypeOK, JobsFit, Fault
<1> QED
  BY <1>2, <1>3, <1>4, <1>5 DEF SpawnInv, JobsFit

(* pop_answer meets a conflict.                                            *)
LEMMA PopConflictKeeps ==
  ASSUME SpawnInv, NEW k \in Kernels, PopConflict(k)
  PROVE  SpawnInv'
<1> DEFINE w == call[k].by
           pc == IF call[k].arg = "cancel_requested" THEN "stopped" ELSE "waiting"
           j == [job[w] EXCEPT !.pc = pc]
<1>1. /\ CallFits(k) /\ call[k].op = "pop" /\ End(k) /\ Answer(w, k, j)
      /\ UNCHANGED <<spawn, counter, fate>> /\ UNCHANGED <<asks, faults>>
  BY DEF PopConflict, SpawnInv
<1>2. w \in Workers
  BY <1>1 DEF CallFits
<1>3. pc \in Steps \ (Busy \cup {"poll"})
  BY DEF Steps, Busy
<1> HIDE DEF pc
<1>4. job[w].at = k /\ Retains(w) => GoodJob(w, [j EXCEPT !.at = NoKernel])
  <2> SUFFICES ASSUME job[w].at = k, Retains(w)
               PROVE  GoodJob(w, [j EXCEPT !.at = NoKernel])
    OBVIOUS
  <2>1. job[w].id # NoId
    BY <1>1, <1>2, WaitsFor
  <2>2. GoodJob(w, [job[w] EXCEPT !.pc = pc, !.at = NoKernel])
    BY <1>2, <1>3, <2>1, StepGood
  <2>3. [j EXCEPT !.at = NoKernel] = [job[w] EXCEPT !.pc = pc, !.at = NoKernel]
    BY <1>2 DEF SpawnInv, SpawnTypeOK, Job
  <2> QED
    BY <2>2, <2>3
<1>5. call[k].by = w
  OBVIOUS
<1> HIDE DEF w, j
<1> QED
  BY <1>1, <1>2, <1>4, <1>5, AnswerEnds

(* A worker that is told to poll again.                                    *)
LEMMA PollingGood ==
  ASSUME NEW w
  PROVE  GoodJob(w, Polling) /\ [Polling EXCEPT !.at = NoKernel] = Polling
<1>1. [Polling EXCEPT !.at = NoKernel] = Polling
  BY DEF Polling
<1> QED
  BY <1>1, PollingJob DEF GoodJob, Polling, Busy

(* A pickup gives up a hit.                                                *)
LEMMA NextHitKeeps ==
  ASSUME SpawnInv, NEW k \in Kernels, NEW i, call[k].op = "pickup",
         NextHit(k, i), UNCHANGED <<counter, fate>>,
         UNCHANGED <<asks, faults>> \/ Fault
  PROVE  SpawnInv'
<1> DEFINE w == call[k].by
<1>1. CallFits(k) /\ w \in Workers /\ call[k] \in Call
  BY DEF CallFits, SpawnInv, SpawnTypeOK
<1>2. CASE call[k].ids = {i}
  <2>1. Answer(w, k, Polling) /\ End(k) /\ UNCHANGED <<spawn, counter, fate>>
    BY <1>2 DEF NextHit
  <2>2. GoodJob(w, [Polling EXCEPT !.at = NoKernel]) /\ call[k].by = w
    BY PollingGood
  <2> HIDE DEF w
  <2> QED
    BY <1>1, <2>1, <2>2, AnswerEnds
<1>3. CASE call[k].ids # {i}
  <2> DEFINE c == [call[k] EXCEPT !.ids = @ \ {i}]
  <2>1. call' = [call EXCEPT ![k] = c] /\ UNCHANGED <<spawn, job>>
    BY <1>3 DEF NextHit
  <2>2. /\ c \in Call /\ c.op = call[k].op /\ c.id = call[k].id
        /\ c.by = call[k].by /\ c.arg = call[k].arg /\ c.num = call[k].num
        /\ c.fresh = call[k].fresh
    BY <1>1, CallEdits DEF Call
  <2> HIDE DEF c
  <2>3. /\ spawn' \in [Ids -> Doc] /\ call' \in [Kernels -> Call]
        /\ call'[k] = c
        /\ \A q \in Kernels \ {k} : CallFits(q)' /\ SameCall(q)
        /\ \A v \in Workers : Retains(v)
        /\ PutsApart'
        /\ \A x \in Ids : spawn'[x].state = "absent" => spawn'[x] = Absent
    BY <2>1, <2>2, CallKeeps
  <2>4. CallFits(k)' /\ SameCall(k)
    BY <1>1, <2>1, <2>2, <2>3 DEF CallFits, SameCall
  <2>5. JobsFit'
    BY <2>1, <2>3, <2>4, WorkersStay
  <2>6. SpawnTypeOK'
    BY <2>3, <2>5, SpawnAssumption DEF SpawnInv, SpawnTypeOK, JobsFit, Fault
  <2> QED
    BY <2>3, <2>4, <2>5, <2>6 DEF SpawnInv, JobsFit
<1> QED
  BY <1>2, <1>3

(* A pickup succeeds: the spawn was queued, so it was nobody's.            *)
LEMMA PickupTakeKeeps ==
  ASSUME SpawnInv, NEW k \in Kernels, NEW i, call[k].op = "pickup",
         PickupTake(k, i), UNCHANGED <<counter, fate, asks, faults>>
  PROVE  SpawnInv'
<1> DEFINE w == call[k].by
           d == [spawn[i] EXCEPT !.state = "running", !.worker = w]
           j == [Polling EXCEPT !.pc = FirstStep(i), !.id = i]
<1>1. CallFits(k) /\ w \in Workers /\ call[k] \in Call /\ i \in call[k].fresh
      /\ Put(k, i, d, Idle) /\ Answer(w, k, j)
  BY DEF CallFits, SpawnInv, SpawnTypeOK, PickupTake, Unwritten
<1>2. i \in Ids /\ spawn[i].state = "queued"
  BY <1>1 DEF CallFits, Call
<1>3. spawn[i] \in Doc /\ "running" \in States
  BY <1>2 DEF SpawnInv, SpawnTypeOK, States
<1>4. d \in Doc /\ d.state = "running" /\ d.worker = w
  <2>1. d \in Doc
    BY <1>1, <1>3, DocEdits
  <2> QED
    BY <1>3, <2>1 DEF Doc
<1>5. spawn'[i] = d => GoodJob(w, [j EXCEPT !.at = NoKernel])
  <2> DEFINE f == FirstStep(i)
             g == [Polling EXCEPT !.pc = f, !.id = i]
             h == [g EXCEPT !.at = NoKernel]
  <2>1. f \in {"triage", "turn"}
    BY DEF FirstStep
  <2> HIDE DEF f
  <2>2. h \in Job /\ h.pc = f /\ h.id = i /\ h.next = "poll" /\ h.at = NoKernel
    <3>1. Polling \in Job /\ Polling.next = "poll" /\ f \in Steps /\ i \in Ids
      BY <1>2, <2>1, PollingJob DEF Polling, Steps
    <3> QED
      BY <3>1 DEF Job
  <2> HIDE DEF h
  <2>3. spawn'[i] = d => GoodJob(w, h)
    BY <1>2, <1>4, <2>1, <2>2, SpawnAssumption DEF GoodJob, Busy
  <2> QED
    BY <2>3 DEF h, f
<1>6. call[k].by = w /\ fate' \in [Ids -> Seq(Fates)]
  BY DEF SpawnInv, SpawnTypeOK
<1> HIDE DEF w, d, j
<1> QED
  BY <1>1, <1>2, <1>4, <1>5, <1>6, AnswerWrites

(* Every step of a handler.                                                *)
LEMMA KernelKeeps ==
  ASSUME SpawnInv, NEW k \in Kernels, KernelStep(k)
  PROVE  SpawnInv'
<1>1. CASE PickupTry(k)
  BY <1>1, PickupTakeKeeps, NextHitKeeps DEF PickupTry, PickupConflict
<1> QED
  BY <1>1, SubmitGetKeeps, SubmitPutKeeps, SubmitLinkKeeps, UpdateWriteKeeps,
     PopTakeKeeps, PopConflictKeeps, CancelWriteKeeps, ForceWriteKeeps,
     AnswerAppendKeeps DEF KernelStep

(* Lost calls, failed handlers, refused updates and crashes.               *)
LEMMA FaultKeeps ==
  ASSUME SpawnInv, FaultStep
  PROVE  SpawnInv'
<1>1. ASSUME NEW w \in Workers, GiveUp(w) PROVE SpawnInv'
  <2>1. Retains(w)
    BY <1>1 DEF GiveUp, Retains, SpawnInv, JobFits, OneRunner
  <2>2. GoodJob(w, AfterFailure(w))
    BY <1>1, <2>1, FailureGood DEF GiveUp
  <2> QED
    BY <1>1, <2>2, LocalStep DEF GiveUp
<1>2. ASSUME NEW w \in Workers, Crash(w) PROVE SpawnInv'
  BY <1>2, PollingGood, LocalStep DEF Crash
<1>3. ASSUME NEW k \in Kernels, PickupRefused(k) PROVE SpawnInv'
  BY <1>3, NextHitKeeps DEF PickupRefused
<1>4. ASSUME NEW k \in Kernels, KernelFails(k) PROVE SpawnInv'
  <2> DEFINE w == call[k].by
  <2>1. End(k) /\ Fault /\ UNCHANGED <<spawn, counter, fate>>
    BY <1>4 DEF KernelFails
  <2>2. Idle.op # "put" /\ call' = [call EXCEPT ![k] = Idle]
    BY <2>1 DEF Idle, End
  <2>3. /\ spawn' \in [Ids -> Doc] /\ call' \in [Kernels -> Call]
        /\ call'[k] = Idle
        /\ \A q \in Kernels \ {k} : CallFits(q)' /\ SameCall(q)
        /\ \A v \in Workers : Retains(v)
        /\ PutsApart'
        /\ \A x \in Ids : spawn'[x].state = "absent" => spawn'[x] = Absent
    BY <2>1, <2>2, IdleCall, CallKeeps
  <2>4. JobsFit'
    <3>1. CASE w \in Workers /\ job[w].at = k
      <4>1. job' = [job EXCEPT ![w] = AfterFailure(w)]
        BY <1>4, <3>1 DEF KernelFails
      <4>2. job[w].at # NoKernel
        BY <3>1, SpawnAssumption
      <4>3. GoodJob(w, AfterFailure(w))
        BY <2>3, <3>1, <4>2, FailureGood
      <4>4. \A v \in Workers : job[v].at = k => v = w
        BY NoWaiter
      <4> DEFINE j == AfterFailure(w)
      <4>5. GoodJob(w, j) /\ job' = [job EXCEPT ![w] = j] /\ w \in Workers
        BY <3>1, <4>1, <4>3
      <4> HIDE DEF w, j
      <4> QED
        BY <2>3, <4>4, <4>5, WorkerMoves
    <3>2. CASE ~(w \in Workers /\ job[w].at = k)
      <4>1. job' = job
        BY <1>4, <3>2 DEF KernelFails
      <4>2. \A v \in Workers : job[v].at # k
        BY <3>2, NoWaiter
      <4> QED
        BY <2>3, <4>1, <4>2, WorkersStay
    <3> QED
      BY <3>1, <3>2
  <2>5. CallFits(k)'
    BY <2>3, IdleFits
  <2>6. SpawnTypeOK'
    BY <2>1, <2>3, <2>4, SpawnAssumption DEF SpawnInv, SpawnTypeOK, JobsFit, Fault
  <2> QED
    BY <2>3, <2>4, <2>5, <2>6 DEF SpawnInv, JobsFit
<1> QED
  BY <1>1, <1>2, <1>3, <1>4 DEF FaultStep

(* Nothing happens.                                                        *)
LEMMA SpawnStutters == SpawnInv /\ UNCHANGED spawnVars => SpawnInv'
  BY DEF SpawnInv, spawnVars, SpawnTypeOK, PutsApart, OneRunner, CallFits, JobFits,
         WaitFits

(* The invariant holds of every behaviour.                                 *)
LEMMA SpawnInvariant == SpawnSpec => []SpawnInv
<1>1. SpawnInv /\ [SpawnNext]_spawnVars => SpawnInv'
  BY KernelKeeps, UserKeeps, WorkerKeeps, FaultKeeps, SpawnStutters DEF SpawnNext
<1> QED
  BY <1>1, SpawnInitInv, PTL DEF SpawnSpec

-----------------------------------------------------------------------------
(* The documents, the calls and the jobs keep their types, whatever order  *)
(* the requests of replicas, workers and users come in.                    *)
THEOREM SpawnTypeCorrect == SpawnSpec => []SpawnTypeOK
<1>1. SpawnInv => SpawnTypeOK
  BY DEF SpawnInv
<1> QED
  BY <1>1, SpawnInvariant, PTL

(* No two workers run one spawn: a worker that has a spawn at hand is the  *)
(* one its document names, through lost calls, crashes and late handlers.  *)
THEOREM OneRunnerHolds == SpawnSpec => []OneRunner
<1>1. SpawnInv => OneRunner
  BY DEF SpawnInv
<1> QED
  BY <1>1, SpawnInvariant, PTL

-----------------------------------------------------------------------------
(* A finished spawn nobody is busy with                                    *)

(* What has to be shown of a step, for the documents and for the calls ... *)
DocStays(i) ==
  /\ spawn'[i].state = spawn[i].state
  /\ \A q \in Kernels : call'[q].id # i

(* ... and for the workers.                                                *)
NoJobTakes(i) == \A v \in Workers : job'[v].id # i

(* A write of another document, or one that leaves the state alone.        *)
LEMMA WriteElsewhere ==
  ASSUME SpawnInv, NEW i \in Ids, NotInHand(i), NEW k \in Kernels, NEW x, NEW d,
         NEW c, c.id # i, x # i \/ d.state = spawn[i].state,
         Put(k, x, d, c) \/ (c = Idle /\ Merge(k, x, d))
  PROVE  DocStays(i)
<1>1. call \in [Kernels -> Call] /\ spawn \in [Ids -> Doc]
  BY DEF SpawnInv, SpawnTypeOK
<1>2. CASE Put(k, x, d, c)
  <2>1. spawn'[i].state = spawn[i].state
    BY <1>1, <1>2 DEF Put
  <2>2. \A q \in Kernels \ {k} : call'[q].id = call[q].id
    BY <1>1, <1>2 DEF Put, Call
  <2>3. call'[k] = c
    BY <1>2 DEF Put
  <2> QED
    BY <2>1, <2>2, <2>3 DEF DocStays, NotInHand
<1>3. CASE c = Idle /\ End(k) /\ UNCHANGED spawn
  BY <1>1, <1>3 DEF End, DocStays, NotInHand
<1> QED
  BY <1>2, <1>3 DEF Merge

(* A step from one call to another that is not about i.                    *)
LEMMA CallElsewhere ==
  ASSUME SpawnInv, NEW i \in Ids, NotInHand(i), NEW k \in Kernels, NEW c, c.id # i,
         call' = [call EXCEPT ![k] = c], UNCHANGED spawn
  PROVE  DocStays(i)
  BY DEF SpawnInv, SpawnTypeOK, DocStays, NotInHand

(* An answer that sends its worker to something other than i.              *)
LEMMA AnswerElsewhere ==
  ASSUME SpawnInv, NEW i \in Ids, NotInHand(i), NEW w, NEW k, NEW j \in Job, j.id # i,
         Answer(w, k, j)
  PROVE  NoJobTakes(i)
<1>1. [j EXCEPT !.at = NoKernel].id = j.id
  BY DEF Job
<1> QED
  BY <1>1 DEF Answer, SpawnInv, SpawnTypeOK, NoJobTakes, NotInHand

(* Where a worker resumes, it is busy with the same spawn or with none.    *)
LEMMA SameOrNone ==
  ASSUME SpawnInv, NEW w \in Workers
  PROVE  /\ Resume(w) \in Job /\ Resume(w).id \in {NoId, job[w].id}
         /\ Polling \in Job /\ Polling.id = NoId
         /\ job[w].at # NoKernel =>
              AfterFailure(w) \in Job /\ AfterFailure(w).id \in {NoId, job[w].id}
<1>1. job[w] \in Job /\ JobFits(w)
  BY DEF SpawnInv, SpawnTypeOK
<1>2. Polling \in Job /\ Polling.id = NoId /\ Polling.pc = "poll"
  BY PollingJob DEF Polling
<1>3. Resume(w) \in Job /\ Resume(w).id \in {NoId, job[w].id}
  <2>1. CASE job[w].next = "poll"
    BY <1>2, <2>1 DEF Resume
  <2>2. CASE job[w].next # "poll"
    BY <1>1, <2>2 DEF Resume, Job, Steps
  <2> QED
    BY <2>1, <2>2
<1>4. ASSUME job[w].at # NoKernel
      PROVE  AfterFailure(w) \in Job /\ AfterFailure(w).id \in {NoId, job[w].id}
  <2>1. CASE job[w].pc = "saving"
    <3>1. AfterFailure(w) = [Resume(w) EXCEPT !.at = NoKernel]
      BY <1>1, <2>1 DEF AfterFailure, Job
    <3> QED
      BY <1>3, <3>1 DEF Job
  <2>2. CASE job[w].pc = "popping"
    <3>1. AfterFailure(w) = [job[w] EXCEPT !.pc = "waiting", !.at = NoKernel]
      BY <1>1, <2>2 DEF AfterFailure, Job
    <3> QED
      BY <1>1, <3>1 DEF Job, Steps
  <2>3. CASE job[w].pc = "pickup"
    <3>1. AfterFailure(w) = Polling
      BY <1>1, <2>3 DEF AfterFailure, Job
    <3> QED
      BY <1>2, <3>1
  <2> QED
    BY <1>1, <1>4, <2>1, <2>2, <2>3 DEF JobFits, Busy
<1> QED
  BY <1>2, <1>3, <1>4

(* A hit that is given up.                                                 *)
LEMMA NextHitElsewhere ==
  ASSUME SpawnInv, NEW i \in Ids, NotInHand(i), NEW k \in Kernels, NEW x, NextHit(k, x)
  PROVE  DocStays(i) /\ NoJobTakes(i)
<1>1. Idle.id # i /\ Polling.id # i
  BY SpawnAssumption DEF Idle, Polling
<1>2. CASE call[k].ids = {x}
  <2>1. Answer(call[k].by, k, Polling) /\ call' = [call EXCEPT ![k] = Idle]
        /\ UNCHANGED spawn
    BY <1>2 DEF NextHit, End
  <2> QED
    BY <1>1, <2>1, PollingJob, CallElsewhere, AnswerElsewhere
<1>3. CASE call[k].ids # {x}
  <2> DEFINE c == [call[k] EXCEPT !.ids = @ \ {x}]
  <2>1. call' = [call EXCEPT ![k] = c] /\ UNCHANGED spawn /\ UNCHANGED job
    BY <1>3 DEF NextHit
  <2>2. c.id # i
    BY DEF SpawnInv, SpawnTypeOK, NotInHand, Call
  <2> HIDE DEF c
  <2> QED
    BY <2>1, <2>2, CallElsewhere DEF NoJobTakes, NotInHand
<1> QED
  BY <1>2, <1>3

(* No handler touches a settled spawn.                                     *)
LEMMA KernelLeavesSettled ==
  ASSUME SpawnInv, NEW i \in Ids, Settled(i), NEW k \in Kernels, KernelStep(k)
  PROVE  DocStays(i) /\ NoJobTakes(i)
<1>1. /\ NotInHand(i) /\ spawn[i].state \in Final /\ call[k].id # i
      /\ call[k] \in Call /\ spawn \in [Ids -> Doc] /\ CallFits(k)
      /\ call \in [Kernels -> Call]
  BY DEF Settled, NotInHand, SpawnInv, SpawnTypeOK
<1>2. UNCHANGED job => NoJobTakes(i)
  BY <1>1 DEF NoJobTakes, NotInHand
<1>3. Idle.id = NoId /\ Idle.id # i
  BY SpawnAssumption DEF Idle
<1>4. CASE SubmitGet(k)
  <2>1. PICK x \in Ids \ (Spawned \cup {call[q].id : q \in Kernels}) :
          call' = [call EXCEPT ![k].op = "put", ![k].id = x, ![k].num = counter]
    BY <1>4 DEF SubmitGet
  <2> DEFINE c == [call[k] EXCEPT !.op = "put", !.id = x, !.num = counter]
  <2>2. call' = [call EXCEPT ![k] = c] /\ c.id = x
    BY <1>1, <2>1 DEF Call
  <2>3. x # i
    BY <1>1, <2>1 DEF Spawned, Final
  <2>4. UNCHANGED spawn /\ UNCHANGED job
    BY <1>4 DEF SubmitGet
  <2> HIDE DEF c
  <2> QED
    BY <1>1, <1>2, <2>2, <2>3, <2>4, CallElsewhere
<1>5. CASE SubmitPut(k)
  <2> DEFINE x == call[k].id
             d == [Absent EXCEPT !.state = "queued", !.num = call[k].num,
                                 !.after = call[k].ids]
             c == IF Parent[x] = NoId THEN Idle ELSE [call[k] EXCEPT !.op = "link"]
  <2>1. Put(k, x, d, c) /\ UNCHANGED job
    BY <1>5 DEF SubmitPut
  <2>2. c.id # i
    BY <1>1, <1>3 DEF Call
  <2> HIDE DEF d, c
  <2> QED
    BY <1>1, <1>2, <2>1, <2>2, WriteElsewhere
<1>6. CASE SubmitLink(k)
  <2> DEFINE p == Parent[call[k].id]
             d == [spawn[p] EXCEPT !.managed = @ \cup {call[k].id}]
  <2>1. CASE p \in Spawned
    <3>1. Merge(k, p, d) /\ UNCHANGED job
      BY <1>6, <2>1 DEF SubmitLink
    <3>2. d.state = spawn[p].state
      BY <1>1, <2>1 DEF Spawned, Doc
    <3> HIDE DEF p, d
    <3> QED
      BY <1>1, <1>2, <1>3, <3>1, <3>2, WriteElsewhere
  <2>2. CASE p \notin Spawned
    BY <1>1, <1>2, <1>3, <1>6, <2>2, CallElsewhere DEF SubmitLink, End
  <2> QED
    BY <2>1, <2>2
<1>7. CASE PickupTry(k)
  <2>1. PICK x \in call[k].ids : PickupTake(k, x) \/ NextHit(k, x)
    BY <1>7 DEF PickupTry, PickupConflict
  <2>2. CASE PickupTake(k, x)
    <3> DEFINE w == call[k].by
               d == [spawn[x] EXCEPT !.state = "running", !.worker = w]
               j == [Polling EXCEPT !.pc = FirstStep(x), !.id = x]
    <3>1. Put(k, x, d, Idle) /\ Answer(w, k, j) /\ x \in call[k].fresh
      BY <2>2 DEF PickupTake, Unwritten
    <3>2. x \in Ids /\ x # i
      BY <1>1, <1>7, <3>1 DEF CallFits, Call, PickupTry, Final
    <3>3. j \in Job /\ j.id = x
      <4>1. FirstStep(x) \in Steps
        BY DEF FirstStep, Steps
      <4> QED
        BY <3>2, <4>1, PollingJob DEF Job
    <3> HIDE DEF d, j
    <3>4. DocStays(i)
      BY <1>1, <1>3, <3>1, <3>2, WriteElsewhere
    <3> QED
      BY <1>1, <3>1, <3>2, <3>3, <3>4, AnswerElsewhere
  <2> QED
    BY <1>1, <2>1, <2>2, NextHitElsewhere
<1>8. CASE UpdateWrite(k)
  <2>1. \E d : Put(k, call[k].id, d, Idle) \/ Merge(k, call[k].id, d)
    <3>1. call[k].arg \in Final \cup {"none", "waiting_user", "running"}
      BY <1>1, <1>8 DEF CallFits, UpdateWrite
    <3> QED
      BY <1>8, <3>1 DEF UpdateWrite, Final
  <2>2. DocStays(i)
    BY <1>1, <1>3, <2>1, WriteElsewhere
  <2>3. call[k].by \in Workers /\ Answer(call[k].by, k, Resume(call[k].by))
    BY <1>1, <1>8 DEF UpdateWrite, CallFits
  <2>4. Resume(call[k].by) \in Job /\ Resume(call[k].by).id # i
    BY <1>1, <2>3, SameOrNone, SpawnAssumption DEF NotInHand
  <2> QED
    BY <1>1, <2>2, <2>3, <2>4, AnswerElsewhere
<1>9. CASE PopTake(k) \/ PopConflict(k)
  <2> DEFINE w == call[k].by
  <2>1. DocStays(i)
    <3>1. CASE PopTake(k)
      <4>1. \E d : Put(k, call[k].id, d, Idle)
        BY <3>1 DEF PopTake
      <4> QED
        BY <1>1, <1>3, <4>1, WriteElsewhere
    <3>2. CASE PopConflict(k)
      BY <1>1, <1>3, <3>2, CallElsewhere DEF PopConflict, End
    <3> QED
      BY <1>9, <3>1, <3>2
  <2>2. PICK pc \in Steps : Answer(w, k, [job[w] EXCEPT !.pc = pc])
    <3>1. "answered" \in Steps /\ "stopped" \in Steps /\ "waiting" \in Steps
      BY DEF Steps
    <3> QED
      BY <1>9, <3>1 DEF PopTake, PopConflict
  <2> DEFINE j == [job[w] EXCEPT !.pc = pc]
  <2>3. w \in Workers
    BY <1>1, <1>9 DEF CallFits, PopTake, PopConflict
  <2>4. j \in Job /\ j.id # i
    BY <1>1, <2>3 DEF SpawnInv, SpawnTypeOK, Job, NotInHand
  <2>5. Answer(w, k, j)
    BY <2>2
  <2> HIDE DEF j
  <2> QED
    BY <1>1, <2>1, <2>4, <2>5, AnswerElsewhere
<1>10. CASE CancelWrite(k) \/ ForceWrite(k) \/ AnswerAppend(k)
  <2>1. \E d : Put(k, call[k].id, d, Idle) \/ Merge(k, call[k].id, d)
    BY <1>10 DEF CancelWrite, ForceWrite, AnswerAppend
  <2>2. UNCHANGED job
    BY <1>10 DEF CancelWrite, ForceWrite, AnswerAppend
  <2> QED
    BY <1>1, <1>2, <1>3, <2>1, <2>2, WriteElsewhere
<1> QED
  BY <1>4, <1>5, <1>6, <1>7, <1>8, <1>9, <1>10 DEF KernelStep

(* No user's request is taken for one.                                     *)
LEMMA UserLeavesSettled ==
  ASSUME SpawnInv, NEW i \in Ids, Settled(i), NEW k \in Kernels, UserStep(k)
  PROVE  DocStays(i) /\ NoJobTakes(i)
<1>1. NotInHand(i) /\ spawn[i].state \in Final
  BY DEF Settled
<1>2. UNCHANGED job /\ UNCHANGED spawn
  BY DEF UserStep, SubmitIncr, CancelRead, ForceRead, AnswerRead
<1>3. NoJobTakes(i)
  BY <1>1, <1>2 DEF NoJobTakes, NotInHand
<1>4. PICK c : call' = [call EXCEPT ![k] = c] /\ c.id # i
  <2>1. CASE SubmitIncr(k)
    <3> DEFINE c == [Idle EXCEPT !.op = "serial", !.ids = Spawned]
    <3>1. call' = [call EXCEPT ![k] = c] /\ c.id # i
      BY <2>1, SpawnAssumption DEF SubmitIncr, Begin, Idle
    <3> QED
      BY <3>1
  <2>2. ASSUME NEW x \in Ids, CancelRead(k, x)
        PROVE  \E c : call' = [call EXCEPT ![k] = c] /\ c.id # i
    <3> DEFINE c == [Idle EXCEPT !.op = "cancel", !.id = x,
                 !.arg = IF spawn[x].state = "queued" THEN "cancelled"
                         ELSE "cancel_requested"]
    <3>1. x # i
      BY <1>1, <2>2 DEF CancelRead, Unfinished
    <3>2. call' = [call EXCEPT ![k] = c] /\ c.id # i
      BY <2>2, <3>1 DEF CancelRead, Begin, Idle
    <3> QED
      BY <3>2
  <2>3. ASSUME NEW x \in Ids, AnswerRead(k, x)
        PROVE  \E c : call' = [call EXCEPT ![k] = c] /\ c.id # i
    <3> DEFINE c == [Idle EXCEPT !.op = "answer", !.id = x]
    <3>1. x # i
      BY <1>1, <2>3 DEF AnswerRead, Final
    <3>2. call' = [call EXCEPT ![k] = c] /\ c.id # i
      BY <2>3, <3>1 DEF AnswerRead, Begin, Idle
    <3> QED
      BY <3>2
  <2>4. ASSUME NEW x \in Ids, NEW st, ForceRead(k, x, st)
        PROVE  \E c : call' = [call EXCEPT ![k] = c] /\ c.id # i
    <3> DEFINE c == [Idle EXCEPT !.op = "force", !.id = x, !.arg = st]
    <3>1. x # i
      BY <1>1, <2>4 DEF ForceRead, Unfinished
    <3>2. call' = [call EXCEPT ![k] = c] /\ c.id # i
      BY <2>4, <3>1 DEF ForceRead, Begin, Idle
    <3> QED
      BY <3>2
  <2> QED
    BY <2>1, <2>2, <2>3, <2>4 DEF UserStep
<1> QED
  BY <1>1, <1>2, <1>3, <1>4, CallElsewhere

(* No worker asks about one.                                               *)
LEMMA WorkerLeavesSettled ==
  ASSUME SpawnInv, NEW i \in Ids, Settled(i), NEW w \in Workers, NEW k \in Kernels,
         WorkerStep(w, k)
  PROVE  DocStays(i) /\ NoJobTakes(i)
<1>1. NotInHand(i) /\ job[w].id # i /\ job \in [Workers -> Job]
      /\ call \in [Kernels -> Call]
  BY DEF Settled, NotInHand, SpawnInv, SpawnTypeOK
<1>2. ASSUME NEW st, NEW t, NEW next, UpdateCall(w, k, st, t, next)
      PROVE  DocStays(i) /\ NoJobTakes(i)
  <2> DEFINE c == [Idle EXCEPT !.op = "update", !.id = job[w].id, !.by = w,
                               !.arg = st, !.num = t]
  <2>1. call' = [call EXCEPT ![k] = c] /\ c.id # i /\ UNCHANGED spawn
    BY <1>1, <1>2 DEF UpdateCall, Begin, Idle
  <2> HIDE DEF c
  <2>2. NoJobTakes(i)
    BY <1>1, <1>2 DEF UpdateCall, NoJobTakes, NotInHand, Job
  <2> QED
    BY <1>1, <2>1, <2>2, CallElsewhere
<1>3. CASE PickupSearch(w, k)
  <2> DEFINE c == [Idle EXCEPT !.op = "pickup", !.by = w, !.ids = Hits, !.fresh = Hits]
  <2>1. call' = [call EXCEPT ![k] = c] /\ c.id # i /\ UNCHANGED spawn
    BY <1>3, SpawnAssumption DEF PickupSearch, Begin, Idle
  <2> HIDE DEF c
  <2>2. NoJobTakes(i)
    BY <1>1, <1>3 DEF PickupSearch, NoJobTakes, NotInHand, Job
  <2> QED
    BY <1>1, <2>1, <2>2, CallElsewhere
<1>4. CASE GemmaAnswer(w, k)
  <2>1. CASE /\ job' = [job EXCEPT ![w].pc = "turn"]
             /\ UNCHANGED <<spawn, counter, call, fate, asks, faults>>
    BY <1>1, <2>1 DEF DocStays, NoJobTakes, NotInHand, Job
  <2> QED
    BY <1>2, <1>4, <2>1 DEF GemmaAnswer
<1>5. CASE PopRead(w, k)
  <2> DEFINE x == job[w].id
  <2>1. CASE job' = [job EXCEPT ![w].pc = "stopped"] /\ UNCHANGED call
    BY <1>1, <1>5, <2>1 DEF PopRead, DocStays, NoJobTakes, NotInHand, Job
  <2>2. CASE /\ Begin(k, [Idle EXCEPT !.op = "pop", !.id = x, !.by = w,
                            !.arg = spawn[x].state, !.num = Head(spawn[x].answers),
                            !.fresh = {x}])
             /\ job' = [job EXCEPT ![w].pc = "popping", ![w].at = k]
    <3> DEFINE c == [Idle EXCEPT !.op = "pop", !.id = x, !.by = w,
                       !.arg = spawn[x].state, !.num = Head(spawn[x].answers),
                       !.fresh = {x}]
    <3>1. call' = [call EXCEPT ![k] = c] /\ c.id # i /\ UNCHANGED spawn
      BY <1>1, <1>5, <2>2 DEF PopRead, Begin, Idle
    <3> HIDE DEF c
    <3>2. NoJobTakes(i)
      BY <1>1, <2>2 DEF NoJobTakes, NotInHand, Job
    <3> QED
      BY <1>1, <3>1, <3>2, CallElsewhere
  <2> QED
    BY <1>5, <2>1, <2>2 DEF PopRead
<1> QED
  BY <1>2, <1>3, <1>4, <1>5 DEF WorkerStep, Triage, Turn, OutOfTurns, Answered,
                                Stopped, WaitTimeout

(* No fault revives one.                                                   *)
LEMMA FaultLeavesSettled ==
  ASSUME SpawnInv, NEW i \in Ids, Settled(i), FaultStep
  PROVE  DocStays(i) /\ NoJobTakes(i)
<1>1. NotInHand(i) /\ job \in [Workers -> Job] /\ call \in [Kernels -> Call]
  BY DEF Settled, SpawnInv, SpawnTypeOK
<1>2. ASSUME NEW w \in Workers, GiveUp(w) PROVE DocStays(i) /\ NoJobTakes(i)
  <2>1. AfterFailure(w).id # i
    BY <1>1, <1>2, SameOrNone, SpawnAssumption DEF GiveUp, NotInHand
  <2> QED
    BY <1>1, <1>2, <2>1 DEF GiveUp, DocStays, NoJobTakes, NotInHand
<1>3. ASSUME NEW w \in Workers, Crash(w) PROVE DocStays(i) /\ NoJobTakes(i)
  <2>1. Polling.id # i
    BY SpawnAssumption DEF Polling
  <2> QED
    BY <1>1, <1>3, <2>1 DEF Crash, DocStays, NoJobTakes, NotInHand
<1>4. ASSUME NEW k \in Kernels, KernelFails(k) PROVE DocStays(i) /\ NoJobTakes(i)
  <2>1. DocStays(i)
    <3>1. Idle.id # i
      BY SpawnAssumption DEF Idle
    <3> QED
      BY <1>1, <1>4, <3>1, CallElsewhere DEF KernelFails, End
  <2>2. CASE call[k].by \in Workers /\ job[call[k].by].at = k
    <3>1. AfterFailure(call[k].by).id # i
      BY <1>1, <2>2, SameOrNone, SpawnAssumption DEF NotInHand
    <3> QED
      BY <1>1, <1>4, <2>1, <2>2, <3>1 DEF KernelFails, NoJobTakes, NotInHand
  <2>3. CASE ~(call[k].by \in Workers /\ job[call[k].by].at = k)
    BY <1>1, <1>4, <2>1, <2>3 DEF KernelFails, NoJobTakes, NotInHand
  <2> QED
    BY <2>2, <2>3
<1>5. ASSUME NEW k \in Kernels, PickupRefused(k) PROVE DocStays(i) /\ NoJobTakes(i)
  BY <1>1, <1>5, NextHitElsewhere DEF PickupRefused
<1> QED
  BY <1>2, <1>3, <1>4, <1>5 DEF FaultStep

(* A finished spawn that nobody is busy with keeps its state and stays out *)
(* of everybody's hands: no late handler, no stale search and no user's    *)
(* request brings it back.                                                 *)
THEOREM FinishedStaysFinal == SpawnSpec => FinishedIsFinal
<1>1. ASSUME SpawnInv, SpawnNext, NEW i \in Ids, Settled(i)
      PROVE  Settled(i)' /\ spawn'[i].state = spawn[i].state
  <2>1. DocStays(i) /\ NoJobTakes(i)
    BY <1>1, KernelLeavesSettled, UserLeavesSettled, WorkerLeavesSettled,
       FaultLeavesSettled DEF SpawnNext
  <2> QED
    BY <1>1, <2>1 DEF Settled, NotInHand, DocStays, NoJobTakes
<1>2. SpawnInv /\ [SpawnNext]_spawnVars =>
        [\A i \in Ids : Settled(i) =>
           Settled(i)' /\ spawn'[i].state = spawn[i].state]_spawnVars
  BY <1>1
<1> QED
  BY <1>2, SpawnInvariant, PTL DEF SpawnSpec, FinishedIsFinal

-----------------------------------------------------------------------------
(* The answers                                                             *)

(* AnswersConserved, for one queue of answers and its history.             *)
Conserved(s, f) ==
  /\ {s[n] : n \in DOMAIN s} = {n \in DOMAIN f : f[n] = "queued"}
  /\ \A m, n \in DOMAIN s : m < n => s[m] < s[n]

(* The first answer leaves the queue, and its record says where to.        *)
LEMMA PopConserves ==
  ASSUME NEW s \in Seq(Nat), s # << >>, NEW f \in Seq(Fates), Conserved(s, f),
         NEW out, out # "queued"
  PROVE  Conserved(Tail(s), [f EXCEPT ![Head(s)] = out])
<1> DEFINE g == [f EXCEPT ![Head(s)] = out]
           t == Tail(s)
<1>1. /\ Len(s) \in Nat /\ Len(s) > 0 /\ DOMAIN s = 1..Len(s) /\ Head(s) = s[1]
      /\ Len(t) = Len(s) - 1 /\ DOMAIN t = 1..Len(t)
      /\ \A n \in 1..Len(t) : t[n] = s[n + 1]
      /\ \A n \in 1..Len(s) : s[n] \in Nat
  OBVIOUS
<1>2. DOMAIN g = DOMAIN f /\ \A n \in DOMAIN f : g[n] = IF n = s[1] THEN out ELSE f[n]
  BY <1>1
<1> HIDE DEF g, t
<1>3. {t[n] : n \in DOMAIN t} = {s[n] : n \in DOMAIN s} \ {s[1]}
  <2>1. ASSUME NEW n \in DOMAIN t PROVE t[n] \in {s[m] : m \in DOMAIN s} \ {s[1]}
    <3>1. n + 1 \in DOMAIN s /\ t[n] = s[n + 1] /\ 1 \in DOMAIN s /\ 1 < n + 1
      BY <1>1
    <3>2. s[1] < s[n + 1] /\ s[1] \in Nat /\ s[n + 1] \in Nat
      BY <1>1, <3>1 DEF Conserved
    <3> QED
      BY <3>1, <3>2
  <2>2. ASSUME NEW m \in DOMAIN s, s[m] # s[1] PROVE s[m] \in {t[n] : n \in DOMAIN t}
    <3>1. m \in Nat /\ m # 1 /\ m - 1 \in DOMAIN t /\ t[m - 1] = s[m]
      BY <1>1, <2>2
    <3> QED
      BY <3>1
  <2> QED
    BY <2>1, <2>2
<1>4. {n \in DOMAIN g : g[n] = "queued"} = {n \in DOMAIN f : f[n] = "queued"} \ {s[1]}
  BY <1>2
<1>5. ASSUME NEW m \in DOMAIN t, NEW n \in DOMAIN t, m < n PROVE t[m] < t[n]
  <2>1. /\ m + 1 \in DOMAIN s /\ n + 1 \in DOMAIN s /\ m + 1 < n + 1
        /\ t[m] = s[m + 1] /\ t[n] = s[n + 1]
    BY <1>1, <1>5
  <2> QED
    BY <2>1 DEF Conserved
<1>6. Conserved(t, g)
  BY <1>3, <1>4, <1>5 DEF Conserved
<1> QED
  BY <1>1, <1>6 DEF t, g

(* A new answer is the youngest.                                           *)
LEMMA AppendConserves ==
  ASSUME NEW s \in Seq(Nat), NEW f \in Seq(Fates), Conserved(s, f)
  PROVE  Conserved(Append(s, Len(f) + 1), Append(f, "queued"))
<1> DEFINE t == Append(s, Len(f) + 1)
           g == Append(f, "queued")
<1>1. /\ Len(s) \in Nat /\ DOMAIN s = 1..Len(s) /\ DOMAIN t = 1..(Len(s) + 1)
      /\ \A n \in 1..Len(s) : t[n] = s[n]
      /\ t[Len(s) + 1] = Len(f) + 1
  OBVIOUS
<1>2. /\ Len(f) \in Nat /\ DOMAIN f = 1..Len(f) /\ DOMAIN g = 1..(Len(f) + 1)
      /\ \A n \in 1..Len(f) : g[n] = f[n]
      /\ g[Len(f) + 1] = "queued"
  OBVIOUS
<1> HIDE DEF t, g
<1>3. {t[n] : n \in DOMAIN t} = {s[n] : n \in DOMAIN s} \cup {Len(f) + 1}
  <2>1. \A n \in DOMAIN t : n \in DOMAIN s \/ n = Len(s) + 1
    BY <1>1
  <2>2. \A n \in DOMAIN s : n \in DOMAIN t
    BY <1>1
  <2>3. Len(s) + 1 \in DOMAIN t
    BY <1>1
  <2> QED
    BY <1>1, <2>1, <2>2, <2>3
<1>4. {n \in DOMAIN g : g[n] = "queued"}
        = {n \in DOMAIN f : f[n] = "queued"} \cup {Len(f) + 1}
  BY <1>2
<1>5. \A n \in DOMAIN s : s[n] \in DOMAIN f
  BY DEF Conserved
<1>6. ASSUME NEW m \in DOMAIN t, NEW n \in DOMAIN t, m < n PROVE t[m] < t[n]
  <2>1. m \in DOMAIN s /\ t[m] = s[m]
    BY <1>1, <1>6
  <2>2. CASE n \in DOMAIN s
    BY <1>1, <1>6, <2>1, <2>2 DEF Conserved
  <2>3. CASE n = Len(s) + 1
    <3>1. s[m] \in 1..Len(f) /\ t[n] = Len(f) + 1
      BY <1>1, <1>2, <1>5, <2>1, <2>3
    <3> QED
      BY <1>2, <2>1, <3>1
  <2> QED
    BY <1>1, <2>2, <2>3
<1>7. Conserved(t, g)
  BY <1>3, <1>4, <1>6 DEF Conserved
<1> QED
  BY <1>7 DEF t, g

(* force_state empties the queue.                                          *)
LEMMA ClearConserves ==
  ASSUME NEW f
  PROVE  Conserved(<< >>, [n \in DOMAIN f |->
                             IF f[n] = "queued" THEN "cleared" ELSE f[n]])
  BY DEF Conserved

(* The queues after a write of document x.                                 *)
LEMMA WrittenAnswers ==
  ASSUME SpawnInv, NEW k \in Kernels, NEW x \in Ids, NEW d,
         (\E c : Put(k, x, d, c)) \/ Merge(k, x, d)
  PROVE  spawn'[x] = d /\ \A j \in Ids \ {x} : spawn'[j] = spawn[j]
  BY DEF Put, Merge, SpawnInv, SpawnTypeOK

QueuesStay == fate' = fate /\ \A j \in Ids : spawn'[j].answers = spawn[j].answers

(* Nothing but a pop, an answer and force_state touches a queue.           *)
LEMMA QueuesUntouched ==
  ASSUME SpawnInv, NEW k \in Kernels, KernelStep(k),
         ~PopTake(k), ~ForceWrite(k), ~AnswerAppend(k)
  PROVE  QueuesStay
<1>1. call[k] \in Call /\ CallFits(k) /\ spawn \in [Ids -> Doc]
  BY DEF SpawnInv, SpawnTypeOK
<1>2. fate' = fate
  BY DEF KernelStep, SubmitGet, SubmitPut, SubmitLink, PickupTry, UpdateWrite,
         PopConflict, CancelWrite
<1>3. ASSUME NEW x \in Ids, NEW d, d.answers = spawn[x].answers,
             (\E c : Put(k, x, d, c)) \/ Merge(k, x, d)
      PROVE  QueuesStay
  <2>1. spawn'[x] = d /\ \A j \in Ids \ {x} : spawn'[j] = spawn[j]
    BY <1>3, WrittenAnswers
  <2> QED
    BY <1>2, <1>3, <2>1 DEF QueuesStay
<1>4. UNCHANGED spawn => QueuesStay
  BY <1>2 DEF QueuesStay
<1>5. CASE SubmitGet(k) \/ PopConflict(k)
  BY <1>4, <1>5 DEF SubmitGet, PopConflict
<1>6. CASE SubmitPut(k)
  <2> DEFINE x == call[k].id
             d == [Absent EXCEPT !.state = "queued", !.num = call[k].num,
                                 !.after = call[k].ids]
  <2>1. x \in Ids /\ spawn[x] = Absent
    BY <1>1, <1>6 DEF CallFits, SubmitPut, SpawnInv
  <2>2. d.answers = Absent.answers
    BY DEF Absent
  <2>3. \E c : Put(k, x, d, c)
    BY <1>6 DEF SubmitPut
  <2> HIDE DEF x, d
  <2> QED
    BY <1>3, <2>1, <2>2, <2>3
<1>7. CASE SubmitLink(k)
  <2> DEFINE p == Parent[call[k].id]
             d == [spawn[p] EXCEPT !.managed = @ \cup {call[k].id}]
  <2>1. CASE p \in Spawned
    <3>1. p \in Ids /\ Merge(k, p, d)
      BY <1>7, <2>1 DEF SubmitLink, Spawned
    <3>2. d.answers = spawn[p].answers
      BY <1>1, <3>1 DEF Doc
    <3> HIDE DEF p, d
    <3> QED
      BY <1>3, <3>1, <3>2
  <2>2. CASE p \notin Spawned
    BY <1>4, <1>7, <2>2 DEF SubmitLink
  <2> QED
    BY <2>1, <2>2
<1>8. CASE PickupTry(k)
  <2>1. PICK x \in call[k].ids : PickupTake(k, x) \/ NextHit(k, x)
    BY <1>8 DEF PickupTry, PickupConflict
  <2>2. CASE PickupTake(k, x)
    <3> DEFINE d == [spawn[x] EXCEPT !.state = "running", !.worker = call[k].by]
    <3>1. x \in Ids /\ Put(k, x, d, Idle)
      BY <1>1, <2>1, <2>2 DEF PickupTake, Call
    <3>2. d.answers = spawn[x].answers
      BY <1>1, <3>1 DEF Doc
    <3> HIDE DEF d
    <3> QED
      BY <1>3, <3>1, <3>2
  <2> QED
    BY <1>4, <2>1, <2>2 DEF NextHit
<1>9. CASE UpdateWrite(k)
  <2> DEFINE x == call[k].id
             a == call[k].arg
  <2>1. x \in Ids /\ a \in Final \cup {"none", "waiting_user", "running"}
    BY <1>1, <1>9 DEF CallFits, UpdateWrite, OnSpawn
  <2>2. PICK d : /\ d.answers = spawn[x].answers
                 /\ (\E c : Put(k, x, d, c)) \/ Merge(k, x, d)
    <3>1. CASE a = "none"
      <4>1. Put(k, x, spawn[x], Idle)
        BY <1>9, <3>1 DEF UpdateWrite, Final
      <4> QED
        BY <4>1
    <3>2. CASE a = "waiting_user"
      <4> DEFINE d == [spawn[x] EXCEPT !.state = a, !.question = call[k].num]
      <4>1. Merge(k, x, d)
        BY <1>9, <3>2 DEF UpdateWrite, Final
      <4>2. d.answers = spawn[x].answers
        BY <1>1, <2>1 DEF Doc
      <4> QED
        BY <4>1, <4>2
    <3>3. CASE a = "running"
      <4> DEFINE d == [spawn[x] EXCEPT !.state = a, !.question = 0]
      <4>1. Merge(k, x, d)
        BY <1>9, <3>3 DEF UpdateWrite, Final
      <4>2. d.answers = spawn[x].answers
        BY <1>1, <2>1 DEF Doc
      <4> QED
        BY <4>1, <4>2
    <3>4. CASE a \in Final
      <4> DEFINE d == [spawn[x] EXCEPT !.state = a]
      <4>1. Put(k, x, d, Idle)
        BY <1>9, <3>4 DEF UpdateWrite, Final
      <4>2. d.answers = spawn[x].answers
        BY <1>1, <2>1 DEF Doc
      <4> QED
        BY <4>1, <4>2
    <3> QED
      BY <2>1, <3>1, <3>2, <3>3, <3>4
  <2> HIDE DEF x, a
  <2> QED
    BY <1>3, <2>1, <2>2
<1>10. CASE CancelWrite(k)
  <2> DEFINE x == call[k].id
             d == [spawn[x] EXCEPT !.state = call[k].arg]
  <2>1. x \in Ids
    BY <1>1, <1>10 DEF CallFits, CancelWrite, OnSpawn
  <2>2. Put(k, x, d, Idle) \/ Merge(k, x, d)
    BY <1>10 DEF CancelWrite
  <2>3. d.answers = spawn[x].answers
    BY <1>1, <2>1 DEF Doc
  <2> HIDE DEF x, d
  <2> QED
    BY <1>3, <2>1, <2>2, <2>3
<1> QED
  BY <1>5, <1>6, <1>7, <1>8, <1>9, <1>10 DEF KernelStep

(* The three steps that do, for the document they are about.               *)
LEMMA QueueChanges ==
  ASSUME SpawnInv, AnswersConserved, NEW k \in Kernels,
         PopTake(k) \/ ForceWrite(k) \/ AnswerAppend(k)
  PROVE  AnswersConserved'
<1> DEFINE x == call[k].id
<1>1. /\ x \in Ids /\ CallFits(k) /\ spawn[x] \in Doc /\ spawn[x].answers \in Seq(Nat)
      /\ fate \in [Ids -> Seq(Fates)] /\ fate[x] \in Seq(Fates)
  <2>1. CallFits(k) /\ x \in Ids
    BY DEF SpawnInv, CallFits, OnSpawn, PopTake, ForceWrite, AnswerAppend
  <2> QED
    BY <2>1 DEF SpawnInv, SpawnTypeOK, Doc
<1>2. \A j \in Ids : Conserved(spawn[j].answers, fate[j])
  BY DEF AnswersConserved, Conserved
<1>3. ASSUME NEW d, NEW f, Put(k, x, d, Idle), fate' = [fate EXCEPT ![x] = f],
             Conserved(d.answers, f)
      PROVE  AnswersConserved'
  <2>1. spawn'[x] = d /\ \A j \in Ids \ {x} : spawn'[j] = spawn[j]
    BY <1>1, <1>3, WrittenAnswers
  <2>2. fate'[x] = f /\ \A j \in Ids \ {x} : fate'[j] = fate[j]
    BY <1>1, <1>3
  <2>3. \A j \in Ids : Conserved(spawn'[j].answers, fate'[j])
    BY <1>2, <1>3, <2>1, <2>2
  <2> QED
    BY <2>3 DEF AnswersConserved, Conserved
<1>4. CASE PopTake(k)
  <2> DEFINE out == IF job[call[k].by].at = k THEN "delivered" ELSE "lost"
             s == spawn[x].answers
             d == [spawn[x] EXCEPT !.answers = Tail(@)]
             f == [fate[x] EXCEPT ![Head(s)] = out]
  <2>1. s # << >> /\ call[k].num = Head(s)
    BY <1>1, <1>4 DEF PopTake, Unwritten, CallFits
  <2>2. Put(k, x, d, Idle) /\ fate' = [fate EXCEPT ![x] = f]
    BY <1>1, <1>4, <2>1 DEF PopTake
  <2>3. out # "queued"
    OBVIOUS
  <2> HIDE DEF out
  <2>4. d.answers = Tail(s)
    BY <1>1 DEF Doc
  <2>5. Conserved(Tail(s), f)
    BY <1>1, <1>2, <2>1, <2>3, PopConserves
  <2> HIDE DEF x, s, d, f
  <2> QED
    BY <1>3, <2>2, <2>4, <2>5
<1>5. CASE ForceWrite(k)
  <2> DEFINE d == [spawn[x] EXCEPT !.state = call[k].arg, !.question = 0,
                                   !.answers = << >>]
             f == [n \in DOMAIN fate[x] |->
                     IF fate[x][n] = "queued" THEN "cleared" ELSE fate[x][n]]
  <2>1. Put(k, x, d, Idle) /\ fate' = [fate EXCEPT ![x] = f]
    BY <1>1, <1>5 DEF ForceWrite
  <2>2. d.answers = << >>
    BY <1>1 DEF Doc
  <2>3. Conserved(<< >>, f)
    BY ClearConserves
  <2> HIDE DEF x, d, f
  <2> QED
    BY <1>3, <2>1, <2>2, <2>3
<1>6. CASE AnswerAppend(k)
  <2> DEFINE s == Append(spawn[x].answers, Len(fate[x]) + 1)
             d == [spawn[x] EXCEPT !.answers = s]
             f == Append(fate[x], "queued")
  <2>1. Put(k, x, d, Idle) /\ fate' = [fate EXCEPT ![x] = f]
    BY <1>1, <1>6 DEF AnswerAppend, WithAnswer
  <2>2. Conserved(s, f)
    BY <1>1, <1>2, AppendConserves
  <2> HIDE DEF s
  <2>3. d.answers = s
    BY <1>1 DEF Doc
  <2> HIDE DEF x, d, f
  <2> QED
    BY <1>3, <2>1, <2>2, <2>3
<1> QED
  BY <1>4, <1>5, <1>6

(* Every accepted answer is in its queue, in order, or left it once: taken *)
(* by a pop, whose worker may have stopped waiting, or cleared with the    *)
(* queue.                                                                  *)
THEOREM AnswersAreConserved == SpawnSpec => []AnswersConserved
<1>1. SpawnInit => AnswersConserved
  BY DEF SpawnInit, AnswersConserved, Absent
<1>2. SpawnInv /\ AnswersConserved /\ QueuesStay => AnswersConserved'
  BY DEF AnswersConserved, QueuesStay
<1>3. SpawnInv /\ AnswersConserved /\ [SpawnNext]_spawnVars => AnswersConserved'
  <2> SUFFICES ASSUME SpawnInv, AnswersConserved, [SpawnNext]_spawnVars
               PROVE  AnswersConserved'
    OBVIOUS
  <2>1. ASSUME NEW k \in Kernels, KernelStep(k) PROVE AnswersConserved'
    BY <1>2, <2>1, QueuesUntouched, QueueChanges
  <2>2. UNCHANGED <<spawn, fate>> => AnswersConserved'
    BY DEF AnswersConserved
  <2>3. ASSUME NEW k \in Kernels, UserStep(k) PROVE AnswersConserved'
    BY <2>2, <2>3 DEF UserStep, SubmitIncr, CancelRead, AnswerRead, ForceRead
  <2>4. ASSUME NEW w \in Workers, NEW k \in Kernels, WorkerStep(w, k)
        PROVE  AnswersConserved'
    BY <2>2, <2>4 DEF WorkerStep, PickupSearch, Triage, GemmaAnswer, Turn, OutOfTurns,
       PopRead, Answered, Stopped, WaitTimeout, UpdateCall
  <2>5. CASE FaultStep
    BY <2>2, <2>5 DEF FaultStep, GiveUp, Crash, KernelFails, PickupRefused, NextHit
  <2>6. CASE UNCHANGED spawnVars
    BY <2>2, <2>6 DEF spawnVars
  <2> QED
    BY <2>1, <2>3, <2>4, <2>5, <2>6 DEF SpawnNext
<1> QED
  BY <1>1, <1>3, SpawnInvariant, PTL DEF SpawnSpec

-----------------------------------------------------------------------------
(* Orphans                                                                 *)

WorkerOps == {"pickup", "update", "pop"}

Active == {"running", "waiting_user"}

(* Without faults every worker's call is still awaited, ...                *)
Served ==
  \A k \in Kernels : call[k].op \in WorkerOps => job[call[k].by].at = k

(* ... the update a worker sends is about its spawn, and the last one of a *)
(* job, and only that, carries a final state, ...                          *)
LastIsFinal ==
  \A w \in Workers, k \in Kernels :
    job[w].at = k /\ job[w].pc = "saving" =>
      /\ call[k].id = job[w].id
      /\ call[k].arg \in Final <=> job[w].next = "poll"

(* ... so that an active spawn is some worker's.                           *)
HasRunner ==
  \A i \in Ids : spawn[i].state \in Active => \E w \in Workers : job[w].id = i

Faultless == Served /\ LastIsFinal /\ HasRunner

(* A write leaves the other replicas at what they do.                      *)
LEMMA OthersGoOn ==
  ASSUME SpawnInv, NEW k \in Kernels, NEW x, NEW d, NEW c,
         Put(k, x, d, c) \/ (c = Idle /\ Merge(k, x, d))
  PROVE  call'[k] = c /\ \A q \in Kernels \ {k} : SameCall(q)
<1>1. call \in [Kernels -> Call]
  BY DEF SpawnInv, SpawnTypeOK
<1>2. CASE Put(k, x, d, c)
  BY <1>1, <1>2 DEF Put, SameCall, Call
<1>3. CASE c = Idle /\ End(k)
  BY <1>1, <1>3 DEF End, SameCall
<1> QED
  BY <1>2, <1>3 DEF Merge

(* A handler that is not a worker's goes on.                               *)
LEMMA NoWorkerInvolved ==
  ASSUME SpawnInv, Faultless, NEW k \in Kernels, UNCHANGED job,
         \A q \in Kernels \ {k} : SameCall(q),
         call[k].op \notin WorkerOps, call'[k].op \notin WorkerOps
  PROVE  Served' /\ LastIsFinal'
<1>1. \A v \in Workers : job[v].at # k
  BY NoWaiter DEF WorkerOps
<1>2. Served'
  BY DEF Faultless, Served, SameCall
<1> QED
  BY <1>1, <1>2 DEF Faultless, LastIsFinal, SameCall

(* A worker's call is over, and the worker knows.                          *)
LEMMA WorkerAnswered ==
  ASSUME SpawnInv, Faultless, NEW k \in Kernels, NEW w \in Workers, NEW j,
         job[w].at = k, job' = [job EXCEPT ![w] = j], j.at = NoKernel,
         \A q \in Kernels \ {k} : SameCall(q), call'[k].op \notin WorkerOps
  PROVE  Served' /\ LastIsFinal'
<1>1. /\ job'[w] = j /\ \A v \in Workers \ {w} : job'[v] = job[v]
      /\ \A q \in Kernels : q # NoKernel
  BY SpawnAssumption DEF SpawnInv, SpawnTypeOK
<1>2. \A v \in Workers : job[v].at = k => v = w
  BY NoWaiter
<1>3. ASSUME NEW q \in Kernels, call'[q].op \in WorkerOps
      PROVE  job'[call'[q].by].at = q
  <2>1. q # k /\ SameCall(q)
    BY <1>3
  <2>2. job[call[q].by].at = q /\ CallFits(q)
    BY <1>3, <2>1 DEF Faultless, Served, SameCall, SpawnInv
  <2>3. call[q].by \in Workers \ {w}
    BY <1>3, <2>1, <2>2 DEF CallFits, SameCall, WorkerOps
  <2> QED
    BY <1>1, <2>1, <2>2, <2>3 DEF SameCall
<1>4. LastIsFinal'
  BY <1>1, <1>2 DEF Faultless, LastIsFinal, SameCall
<1> QED
  BY <1>3, <1>4 DEF Served

(* A worker that waits for nobody begins a call, or goes on by itself.     *)
LEMMA WorkerGoesOn ==
  ASSUME SpawnInv, Faultless, NEW k \in Kernels, NEW w \in Workers, NEW j,
         job[w].at = NoKernel, job' = [job EXCEPT ![w] = j],
         \A q \in Kernels \ {k} : SameCall(q),
         \/ j.at = NoKernel /\ SameCall(k)
         \/ /\ call[k] = Idle /\ j.at = k /\ call'[k].by = w
            /\ j.pc = "saving" => /\ call'[k].id = j.id
                                  /\ call'[k].arg \in Final <=> j.next = "poll"
  PROVE  Served' /\ LastIsFinal'
<1>1. /\ job'[w] = j /\ \A v \in Workers \ {w} : job'[v] = job[v]
      /\ \A q \in Kernels : q # NoKernel
  BY SpawnAssumption DEF SpawnInv, SpawnTypeOK
<1>2. ASSUME NEW q \in Kernels, SameCall(q), call'[q].op \in WorkerOps
      PROVE  job'[call'[q].by].at = q
  <2>1. job[call[q].by].at = q /\ CallFits(q)
    BY <1>2 DEF Faultless, Served, SameCall, SpawnInv
  <2>2. call[q].by \in Workers \ {w}
    BY <1>1, <1>2, <2>1 DEF CallFits, SameCall, WorkerOps
  <2> QED
    BY <1>1, <1>2, <2>1, <2>2 DEF SameCall
<1>3. Served'
  BY <1>1, <1>2 DEF Served
<1>4. ASSUME NEW v \in Workers, NEW q \in Kernels, job'[v].at = q, job'[v].pc = "saving"
      PROVE  /\ call'[q].id = job'[v].id
             /\ call'[q].arg \in Final <=> job'[v].next = "poll"
  <2>1. CASE v = w
    BY <1>1, <1>4, <2>1
  <2>2. CASE v # w
    <3>1. job'[v] = job[v]
      BY <1>1, <2>2
    <3>2. SameCall(q)
      <4>1. call[k] = Idle => job[v].at # k
        BY NoWaiter DEF Idle
      <4> QED
        BY <1>4, <3>1, <4>1
    <3> QED
      BY <1>4, <3>1, <3>2 DEF Faultless, LastIsFinal, SameCall
  <2> QED
    BY <2>1, <2>2
<1> QED
  BY <1>3, <1>4 DEF LastIsFinal

(* No spawn becomes active and no worker lets go of an active one.         *)
LEMMA RunnersStay ==
  ASSUME Faultless,
         \A i \in Ids : spawn'[i].state \in Active => spawn[i].state \in Active,
         \A v \in Workers : job'[v].id = job[v].id
                            \/ job[v].id = NoId
                            \/ (job[v].id \in Ids => spawn'[job[v].id].state \notin Active)
  PROVE  HasRunner'
<1>1. NoId \notin Ids
  BY SpawnAssumption
<1> QED
  BY <1>1 DEF Faultless, HasRunner

(* A user's request involves no worker.                                    *)
LEMMA UserFaultless ==
  ASSUME SpawnInv, Faultless, NEW k \in Kernels, UserStep(k)
  PROVE  Faultless'
<1>1. /\ UNCHANGED job /\ UNCHANGED spawn /\ call[k] = Idle
      /\ call \in [Kernels -> Call]
  BY DEF UserStep, SubmitIncr, CancelRead, ForceRead, AnswerRead, Begin, SpawnInv,
         SpawnTypeOK
<1>2. PICK c : call' = [call EXCEPT ![k] = c] /\ c.op \notin WorkerOps
  <2>1. CASE SubmitIncr(k)
    <3> DEFINE c == [Idle EXCEPT !.op = "serial", !.ids = Spawned]
    <3>1. call' = [call EXCEPT ![k] = c] /\ c.op \notin WorkerOps
      BY <2>1 DEF SubmitIncr, Begin, Idle, WorkerOps
    <3> QED
      BY <3>1
  <2>2. ASSUME NEW x \in Ids, CancelRead(k, x)
        PROVE  \E c : call' = [call EXCEPT ![k] = c] /\ c.op \notin WorkerOps
    <3> DEFINE c == [Idle EXCEPT !.op = "cancel", !.id = x,
                 !.arg = IF spawn[x].state = "queued" THEN "cancelled"
                         ELSE "cancel_requested"]
    <3>1. call' = [call EXCEPT ![k] = c] /\ c.op \notin WorkerOps
      BY <2>2 DEF CancelRead, Begin, Idle, WorkerOps
    <3> QED
      BY <3>1
  <2>3. ASSUME NEW x \in Ids, AnswerRead(k, x)
        PROVE  \E c : call' = [call EXCEPT ![k] = c] /\ c.op \notin WorkerOps
    <3> DEFINE c == [Idle EXCEPT !.op = "answer", !.id = x]
    <3>1. call' = [call EXCEPT ![k] = c] /\ c.op \notin WorkerOps
      BY <2>3 DEF AnswerRead, Begin, Idle, WorkerOps
    <3> QED
      BY <3>1
  <2>4. ASSUME NEW x \in Ids, NEW st, ForceRead(k, x, st)
        PROVE  \E c : call' = [call EXCEPT ![k] = c] /\ c.op \notin WorkerOps
    <3> DEFINE c == [Idle EXCEPT !.op = "force", !.id = x, !.arg = st]
    <3>1. call' = [call EXCEPT ![k] = c] /\ c.op \notin WorkerOps
      BY <2>4 DEF ForceRead, Begin, Idle, WorkerOps
    <3> QED
      BY <3>1
  <2> QED
    BY <2>1, <2>2, <2>3, <2>4 DEF UserStep
<1>3. call'[k] = c /\ \A q \in Kernels \ {k} : SameCall(q)
  BY <1>1, <1>2 DEF SameCall
<1>4. Idle.op \notin WorkerOps
  BY DEF Idle, WorkerOps
<1>5. Served' /\ LastIsFinal'
  BY <1>1, <1>2, <1>3, <1>4, NoWorkerInvolved
<1>6. HasRunner'
  BY <1>1, RunnersStay
<1> QED
  BY <1>5, <1>6 DEF Faultless

(* A worker sends its final state last.                                    *)
LEMMA WorkerFaultless ==
  ASSUME SpawnInv, Faultless, NEW w \in Workers, NEW k \in Kernels, WorkerStep(w, k)
  PROVE  Faultless'
<1>1. /\ job[w] \in Job /\ JobFits(w) /\ job \in [Workers -> Job]
      /\ call \in [Kernels -> Call]
  BY DEF SpawnInv, SpawnTypeOK
<1>2. ASSUME NEW j, job' = [job EXCEPT ![w] = j], j.id = job[w].id, UNCHANGED spawn,
             Served', LastIsFinal'
      PROVE  Faultless'
  <2>1. \A v \in Workers : job'[v].id = job[v].id
    BY <1>1, <1>2
  <2>2. HasRunner'
    BY <1>2, <2>1, RunnersStay
  <2> QED
    BY <1>2, <2>2 DEF Faultless
<1>3. ASSUME NEW j, job' = [job EXCEPT ![w] = j], j.id = job[w].id, UNCHANGED spawn,
             NEW c, call[k] = Idle, call' = [call EXCEPT ![k] = c],
             c.by = w, j.at = k, job[w].pc \notin Busy,
             j.pc = "saving" => c.id = j.id /\ (c.arg \in Final <=> j.next = "poll")
      PROVE  Faultless'
  <2>1. call'[k] = c /\ \A q \in Kernels \ {k} : SameCall(q)
    BY <1>1, <1>3 DEF SameCall
  <2>2. job[w].at = NoKernel
    BY <1>1, <1>3 DEF JobFits
  <2>3. Served' /\ LastIsFinal'
    BY <1>3, <2>1, <2>2, WorkerGoesOn
  <2> QED
    BY <1>2, <1>3, <2>3
<1>4. ASSUME NEW j, job' = [job EXCEPT ![w] = j], j.id = job[w].id,
             UNCHANGED <<spawn, call>>, j.at = NoKernel, job[w].pc \notin Busy
      PROVE  Faultless'
  <2>1. \A q \in Kernels : SameCall(q)
    BY <1>4 DEF SameCall
  <2>2. job[w].at = NoKernel
    BY <1>1, <1>4 DEF JobFits
  <2>3. Served' /\ LastIsFinal'
    BY <1>4, <2>1, <2>2, WorkerGoesOn
  <2> QED
    BY <1>2, <1>4, <2>3
<1>5. ASSUME NEW st, NEW t, NEW next, UpdateCall(w, k, st, t, next),
             st \in Final <=> next = "poll", job[w].pc \notin Busy
      PROVE  Faultless'
  <2> DEFINE c == [Idle EXCEPT !.op = "update", !.id = job[w].id, !.by = w,
                               !.arg = st, !.num = t]
             j == [job[w] EXCEPT !.pc = "saving", !.turn = t, !.next = next, !.at = k]
  <2>1. call[k] = Idle /\ call' = [call EXCEPT ![k] = c] /\ UNCHANGED spawn
        /\ job' = [job EXCEPT ![w] = j]
    BY <1>1, <1>5 DEF UpdateCall, Begin
  <2>2. c.id = job[w].id /\ c.by = w /\ c.arg = st
    BY DEF Idle
  <2>3. j.id = job[w].id /\ j.next = next /\ j.at = k
    BY <1>1 DEF Job
  <2> HIDE DEF c, j
  <2> QED
    BY <1>3, <1>5, <2>1, <2>2, <2>3
<1>6. job[w].pc \in {"triage", "gemma", "turn", "waiting", "answered", "stopped", "poll"}
        => job[w].pc \notin Busy
  BY DEF Busy
<1>7. "done" \in Final /\ "failed" \in Final /\ "cancelled" \in Final
      /\ "none" \notin Final /\ "running" \notin Final /\ "waiting_user" \notin Final
  BY DEF Final
<1>8. CASE Triage(w, k)
  BY <1>5, <1>6, <1>7, <1>8 DEF Triage
<1>9. CASE GemmaAnswer(w, k)
  <2>1. CASE UpdateCall(w, k, "done", 0, "poll")
    BY <1>5, <1>6, <1>7, <1>9, <2>1 DEF GemmaAnswer
  <2>2. CASE /\ job' = [job EXCEPT ![w].pc = "turn"]
             /\ UNCHANGED <<spawn, counter, call, fate, asks, faults>>
    <3> DEFINE j == [job[w] EXCEPT !.pc = "turn"]
    <3>1. job[w].at = NoKernel /\ job[w].pc \notin Busy
      BY <1>1, <1>6, <1>9 DEF GemmaAnswer, JobFits
    <3>2. job' = [job EXCEPT ![w] = j] /\ j.id = job[w].id /\ j.at = NoKernel
      BY <1>1, <2>2, <3>1 DEF Job
    <3> HIDE DEF j
    <3> QED
      BY <1>4, <2>2, <3>1, <3>2
  <2> QED
    BY <1>9, <2>1, <2>2 DEF GemmaAnswer
<1>10. CASE Turn(w, k) \/ OutOfTurns(w, k)
  BY <1>5, <1>6, <1>7, <1>10 DEF Turn, OutOfTurns
<1>11. CASE Answered(w, k) \/ Stopped(w, k) \/ WaitTimeout(w, k)
  BY <1>5, <1>6, <1>7, <1>11 DEF Answered, Stopped, WaitTimeout
<1>12. CASE PickupSearch(w, k)
  <2> DEFINE c == [Idle EXCEPT !.op = "pickup", !.by = w, !.ids = Hits, !.fresh = Hits]
             j == [job[w] EXCEPT !.pc = "pickup", !.at = k]
  <2>1. call[k] = Idle /\ call' = [call EXCEPT ![k] = c] /\ UNCHANGED spawn
        /\ job' = [job EXCEPT ![w] = j] /\ job[w].pc \notin Busy
    BY <1>1, <1>6, <1>12 DEF PickupSearch, Begin
  <2>2. c.by = w
    BY DEF Idle
  <2>3. j.id = job[w].id /\ j.pc = "pickup" /\ j.at = k
    BY <1>1 DEF Job
  <2> HIDE DEF c, j
  <2> QED
    BY <1>3, <2>1, <2>2, <2>3
<1>13. CASE PopRead(w, k)
  <2> DEFINE x == job[w].id
  <2>1. CASE job' = [job EXCEPT ![w].pc = "stopped"] /\ UNCHANGED call
    <3> DEFINE j == [job[w] EXCEPT !.pc = "stopped"]
    <3>1. job[w].at = NoKernel /\ job[w].pc \notin Busy /\ UNCHANGED spawn
      BY <1>1, <1>6, <1>13 DEF PopRead, JobFits
    <3>2. job' = [job EXCEPT ![w] = j] /\ j.id = job[w].id /\ j.at = NoKernel
      BY <1>1, <2>1, <3>1 DEF Job
    <3> HIDE DEF j
    <3> QED
      BY <1>4, <2>1, <3>1, <3>2
  <2>2. CASE /\ Begin(k, [Idle EXCEPT !.op = "pop", !.id = x, !.by = w,
                            !.arg = spawn[x].state, !.num = Head(spawn[x].answers),
                            !.fresh = {x}])
             /\ job' = [job EXCEPT ![w].pc = "popping", ![w].at = k]
    <3> DEFINE c == [Idle EXCEPT !.op = "pop", !.id = x, !.by = w,
                       !.arg = spawn[x].state, !.num = Head(spawn[x].answers),
                       !.fresh = {x}]
               j == [job[w] EXCEPT !.pc = "popping", !.at = k]
    <3>1. call[k] = Idle /\ call' = [call EXCEPT ![k] = c] /\ UNCHANGED spawn
          /\ job' = [job EXCEPT ![w] = j] /\ job[w].pc \notin Busy
      BY <1>1, <1>6, <1>13, <2>2 DEF PopRead, Begin
    <3>2. c.by = w
      BY DEF Idle
    <3>3. j.id = job[w].id /\ j.pc = "popping" /\ j.at = k
      BY <1>1 DEF Job
    <3> HIDE DEF c, j
    <3> QED
      BY <1>3, <3>1, <3>2, <3>3
  <2> QED
    BY <1>13, <2>1, <2>2 DEF PopRead
<1> QED
  BY <1>8, <1>9, <1>10, <1>11, <1>12, <1>13 DEF WorkerStep

(* A handler tells its worker, who keeps or ends the spawn with it.        *)
LEMMA KernelFaultless ==
  ASSUME SpawnInv, Faultless, NEW k \in Kernels, KernelStep(k)
  PROVE  Faultless'
<1>1. /\ call[k] \in Call /\ CallFits(k) /\ spawn \in [Ids -> Doc]
      /\ job \in [Workers -> Job] /\ call \in [Kernels -> Call] /\ k # NoKernel
  BY SpawnAssumption DEF SpawnInv, SpawnTypeOK
<1>2. Idle.op \notin WorkerOps
  BY DEF Idle, WorkerOps
(* A handler of a user or of a submit writes a document.                   *)
<1>3. ASSUME NEW x \in Ids, NEW d, NEW c, c.op \notin WorkerOps, UNCHANGED job,
             call[k].op \notin WorkerOps,
             Put(k, x, d, c) \/ (c = Idle /\ Merge(k, x, d)),
             d.state \in Active => spawn[x].state \in Active
      PROVE  Faultless'
  <2>1. call'[k] = c /\ \A q \in Kernels \ {k} : SameCall(q)
    BY <1>3, OthersGoOn
  <2>2. spawn'[x] = d /\ \A j \in Ids \ {x} : spawn'[j] = spawn[j]
    BY <1>3, WrittenAnswers
  <2>3. Served' /\ LastIsFinal'
    BY <1>3, <2>1, NoWorkerInvolved
  <2>4. HasRunner'
    BY <1>3, <2>2, RunnersStay
  <2> QED
    BY <2>3, <2>4 DEF Faultless
<1>4. ASSUME NEW c, c.op \notin WorkerOps, UNCHANGED <<spawn, job>>,
             call[k].op \notin WorkerOps, call' = [call EXCEPT ![k] = c]
      PROVE  Faultless'
  <2>1. call'[k] = c /\ \A q \in Kernels \ {k} : SameCall(q)
    BY <1>1, <1>4 DEF SameCall
  <2>2. Served' /\ LastIsFinal'
    BY <1>4, <2>1, NoWorkerInvolved
  <2>3. HasRunner'
    BY <1>4, RunnersStay
  <2> QED
    BY <2>2, <2>3 DEF Faultless
<1>5. CASE SubmitGet(k)
  <2>1. PICK x : call' = [call EXCEPT ![k].op = "put", ![k].id = x, ![k].num = counter]
    BY <1>5 DEF SubmitGet
  <2> DEFINE c == [call[k] EXCEPT !.op = "put", !.id = x, !.num = counter]
  <2>2. call' = [call EXCEPT ![k] = c] /\ c.op = "put"
    BY <1>1, <2>1 DEF Call
  <2>3. UNCHANGED <<spawn, job>> /\ call[k].op = "serial"
    BY <1>5 DEF SubmitGet
  <2> HIDE DEF c
  <2>4. c.op \notin WorkerOps /\ call[k].op \notin WorkerOps
    BY <2>2, <2>3 DEF WorkerOps
  <2> QED
    BY <1>4, <2>2, <2>3, <2>4
<1>6. CASE SubmitPut(k)
  <2> DEFINE x == call[k].id
             d == [Absent EXCEPT !.state = "queued", !.num = call[k].num,
                                 !.after = call[k].ids]
             c == IF Parent[x] = NoId THEN Idle ELSE [call[k] EXCEPT !.op = "link"]
  <2>1. x \in Ids /\ Put(k, x, d, c) /\ UNCHANGED job /\ call[k].op = "put"
    BY <1>1, <1>6 DEF SubmitPut, CallFits
  <2>2. d.state = "queued"
    BY DEF Absent
  <2>3. c.op \notin WorkerOps
    BY <1>1, <1>2 DEF WorkerOps, Call
  <2> HIDE DEF x, d, c
  <2>4. call[k].op \notin WorkerOps /\ d.state \notin Active
    BY <2>1, <2>2 DEF WorkerOps, Active
  <2> QED
    BY <1>3, <2>1, <2>3, <2>4
<1>7. CASE SubmitLink(k)
  <2> DEFINE p == Parent[call[k].id]
             d == [spawn[p] EXCEPT !.managed = @ \cup {call[k].id}]
  <2>1. UNCHANGED job /\ call[k].op \notin WorkerOps
    BY <1>7 DEF SubmitLink, WorkerOps
  <2>2. CASE p \in Spawned
    <3>1. p \in Ids /\ Merge(k, p, d)
      BY <1>7, <2>2 DEF SubmitLink, Spawned
    <3>2. d.state = spawn[p].state
      BY <1>1, <3>1 DEF Doc
    <3> HIDE DEF p, d
    <3> QED
      BY <1>2, <1>3, <2>1, <3>1, <3>2
  <2>3. CASE p \notin Spawned
    BY <1>2, <1>4, <1>7, <2>1, <2>3 DEF SubmitLink, End
  <2> QED
    BY <2>2, <2>3
<1>8. CASE CancelWrite(k)
  <2> DEFINE x == call[k].id
             d == [spawn[x] EXCEPT !.state = call[k].arg]
  <2>1. x \in Ids /\ UNCHANGED job /\ call[k].op \notin WorkerOps
        /\ call[k].arg \notin Active
    BY <1>1, <1>8 DEF CallFits, CancelWrite, OnSpawn, WorkerOps, Active
  <2>2. Put(k, x, d, Idle) \/ Merge(k, x, d)
    BY <1>8 DEF CancelWrite
  <2>3. d.state = call[k].arg
    BY <1>1, <2>1 DEF Doc
  <2> HIDE DEF x, d
  <2> QED
    BY <1>2, <1>3, <2>1, <2>2, <2>3
<1>9. CASE ForceWrite(k)
  <2> DEFINE x == call[k].id
             d == [spawn[x] EXCEPT !.state = call[k].arg, !.question = 0,
                                   !.answers = << >>]
  <2>1. x \in Ids /\ UNCHANGED job /\ call[k].op \notin WorkerOps
        /\ call[k].arg \notin Active
    BY <1>1, <1>9 DEF CallFits, ForceWrite, OnSpawn, WorkerOps, Active
  <2>2. Put(k, x, d, Idle)
    BY <1>9 DEF ForceWrite
  <2>3. d.state = call[k].arg
    BY <1>1, <2>1 DEF Doc
  <2> HIDE DEF x, d
  <2> QED
    BY <1>2, <1>3, <2>1, <2>2, <2>3
<1>10. CASE AnswerAppend(k)
  <2> DEFINE x == call[k].id
             s == Append(spawn[x].answers, Len(fate[x]) + 1)
             d == [spawn[x] EXCEPT !.answers = s]
  <2>1. x \in Ids /\ UNCHANGED job /\ call[k].op \notin WorkerOps
    BY <1>1, <1>10 DEF CallFits, AnswerAppend, OnSpawn, WorkerOps
  <2>2. Put(k, x, d, Idle)
    BY <1>10 DEF AnswerAppend, WithAnswer
  <2> HIDE DEF s
  <2>3. d.state = spawn[x].state
    BY <1>1, <2>1 DEF Doc
  <2> HIDE DEF x, d
  <2> QED
    BY <1>2, <1>3, <2>1, <2>2, <2>3
(* A worker's handler ends: without faults the worker hears of it.         *)
<1>11. ASSUME call[k].op \in WorkerOps
       PROVE  /\ call[k].by \in Workers /\ job[call[k].by].at = k
              /\ job[call[k].by] \in Job /\ JobFits(call[k].by)
              /\ call[k].op = "pickup" => job[call[k].by].id = NoId
              /\ call[k].op = "update" => job[call[k].by].pc = "saving"
  <2>1. call[k].by \in Workers /\ job[call[k].by].at = k
    BY <1>1, <1>11 DEF CallFits, WorkerOps, Faultless, Served
  <2>2. JobFits(call[k].by) /\ WaitFits(call[k].by, k)
    BY <2>1 DEF SpawnInv
  <2> QED
    BY <1>1, <2>1, <2>2 DEF JobFits, WaitFits, Busy
<1>12. ASSUME NEW w \in Workers, w = call[k].by, job[w].at = k, NEW j \in Job,
              Answer(w, k, j), call'[k] = Idle,
              \A q \in Kernels \ {k} : SameCall(q)
       PROVE  /\ Served' /\ LastIsFinal' /\ job'[w].id = j.id
              /\ \A v \in Workers \ {w} : job'[v] = job[v]
  <2> DEFINE g == [j EXCEPT !.at = NoKernel]
  <2>1. job' = [job EXCEPT ![w] = g] /\ g.at = NoKernel /\ g.id = j.id
    BY <1>12 DEF Answer, Job
  <2> HIDE DEF g
  <2>2. Served' /\ LastIsFinal'
    BY <1>2, <1>12, <2>1, WorkerAnswered
  <2> QED
    BY <1>1, <2>1, <2>2
<1>13. CASE PickupTry(k)
  <2> DEFINE w == call[k].by
  <2>1. PICK x \in call[k].ids : PickupTake(k, x) \/ NextHit(k, x)
    BY <1>13 DEF PickupTry, PickupConflict
  <2>2. call[k].op = "pickup" /\ call[k].op \in WorkerOps
    BY <1>13 DEF PickupTry, WorkerOps
  <2>3. w \in Workers /\ job[w].at = k /\ job[w].id = NoId
    BY <1>11, <2>2
  <2>4. CASE PickupTake(k, x)
    <3> DEFINE d == [spawn[x] EXCEPT !.state = "running", !.worker = w]
               j == [Polling EXCEPT !.pc = FirstStep(x), !.id = x]
    <3>1. x \in Ids /\ Put(k, x, d, Idle) /\ Answer(w, k, j)
      BY <1>1, <2>1, <2>4 DEF PickupTake, Call
    <3>2. j \in Job /\ j.id = x
      <4>1. FirstStep(x) \in Steps
        BY DEF FirstStep, Steps
      <4> QED
        BY <3>1, <4>1, PollingJob DEF Job
    <3> HIDE DEF d, j
    <3>3. call'[k] = Idle /\ \A q \in Kernels \ {k} : SameCall(q)
      BY <3>1, OthersGoOn
    <3>4. \A i \in Ids \ {x} : spawn'[i] = spawn[i]
      BY <3>1, WrittenAnswers
    <3>5. /\ Served' /\ LastIsFinal' /\ job'[w].id = x
          /\ \A v \in Workers \ {w} : job'[v] = job[v]
      BY <1>12, <2>3, <3>1, <3>2, <3>3
    <3>6. HasRunner'
      BY <2>3, <3>4, <3>5, SpawnAssumption DEF Faultless, HasRunner
    <3> QED
      BY <3>5, <3>6 DEF Faultless
  <2>5. CASE NextHit(k, x) /\ call[k].ids = {x}
    <3>1. Answer(w, k, Polling) /\ call' = [call EXCEPT ![k] = Idle] /\ UNCHANGED spawn
      BY <2>5 DEF NextHit, End
    <3>2. call'[k] = Idle /\ \A q \in Kernels \ {k} : SameCall(q)
      BY <1>1, <3>1 DEF SameCall
    <3>3. /\ Served' /\ LastIsFinal' /\ \A v \in Workers \ {w} : job'[v] = job[v]
      BY <1>12, <2>3, <3>1, <3>2, PollingJob
    <3>4. HasRunner'
      BY <2>3, <3>1, <3>3, RunnersStay
    <3> QED
      BY <3>3, <3>4 DEF Faultless
  <2>6. CASE NextHit(k, x) /\ call[k].ids # {x}
    <3> DEFINE c == [call[k] EXCEPT !.ids = @ \ {x}]
    <3>1. call' = [call EXCEPT ![k] = c] /\ UNCHANGED spawn /\ UNCHANGED job
      BY <2>6 DEF NextHit
    <3>2. \A q \in Kernels : SameCall(q)
      BY <1>1, <3>1 DEF SameCall, Call
    <3>3. Served' /\ LastIsFinal'
      BY <3>1, <3>2 DEF Served, LastIsFinal, SameCall, Faultless
    <3>4. HasRunner'
      BY <3>1, RunnersStay
    <3> QED
      BY <3>3, <3>4 DEF Faultless
  <2> QED
    BY <2>1, <2>4, <2>5, <2>6
<1>14. CASE UpdateWrite(k)
  <2> DEFINE w == call[k].by
             x == call[k].id
             a == call[k].arg
  <2>1. call[k].op = "update" /\ call[k].op \in WorkerOps /\ x \in Ids
        /\ a \in Final \cup {"none", "waiting_user", "running"}
    BY <1>1, <1>14 DEF UpdateWrite, WorkerOps, CallFits, OnSpawn
  <2>2. w \in Workers /\ job[w].at = k /\ job[w].pc = "saving" /\ job[w] \in Job
    BY <1>11, <2>1
  <2>3. x = job[w].id /\ (a \in Final <=> job[w].next = "poll")
    BY <2>2 DEF Faultless, LastIsFinal
  <2>4. PICK d : /\ a \in Final => d.state \in Final
                 /\ Put(k, x, d, Idle) \/ Merge(k, x, d)
    <3>1. CASE a \in Final
      <4> DEFINE d == [spawn[x] EXCEPT !.state = a]
      <4>1. Put(k, x, d, Idle)
        BY <1>14, <3>1 DEF UpdateWrite, Final
      <4>2. d.state = a
        BY <1>1, <2>1 DEF Doc
      <4> QED
        BY <3>1, <4>1, <4>2
    <3>2. CASE a \notin Final
      BY <1>14, <2>1, <3>2 DEF UpdateWrite
    <3> QED
      BY <3>1, <3>2
  <2>5. call'[k] = Idle /\ \A q \in Kernels \ {k} : SameCall(q)
    BY <2>4, OthersGoOn
  <2>6. spawn'[x] = d /\ \A i \in Ids \ {x} : spawn'[i] = spawn[i]
    BY <2>1, <2>4, WrittenAnswers
  <2>7. Answer(w, k, Resume(w)) /\ Resume(w) \in Job
    BY <1>14, <2>2, SameOrNone DEF UpdateWrite
  <2>8. /\ Served' /\ LastIsFinal' /\ job'[w].id = Resume(w).id
        /\ \A v \in Workers \ {w} : job'[v] = job[v]
    <3> DEFINE j == Resume(w)
    <3>1. Answer(w, k, j) /\ j \in Job
      BY <2>7
    <3> HIDE DEF j
    <3>2. /\ Served' /\ LastIsFinal' /\ job'[w].id = j.id
          /\ \A v \in Workers \ {w} : job'[v] = job[v]
      BY <1>12, <2>2, <2>5, <3>1
    <3> QED
      BY <3>2 DEF j
  <2>9. a \notin Final => Resume(w).id = x
    BY <2>2, <2>3 DEF Resume, Job
  <2>10. a \in Final => spawn'[x].state \notin Active
    BY <2>4, <2>6 DEF Final, Active
  <2> HIDE DEF w, x, a
  <2>11. HasRunner'
    <3>1. ASSUME NEW i \in Ids, spawn'[i].state \in Active
          PROVE  \E v \in Workers : job'[v].id = i
      <4>1. CASE i = x
        BY <2>2, <2>8, <2>9, <2>10, <3>1, <4>1
      <4>2. CASE i # x
        <5>1. PICK v \in Workers : job[v].id = i
          BY <2>6, <3>1, <4>2 DEF Faultless, HasRunner
        <5>2. v # w
          BY <2>3, <4>2, <5>1
        <5> QED
          BY <2>8, <5>1, <5>2
      <4> QED
        BY <4>1, <4>2
    <3> QED
      BY <3>1 DEF HasRunner
  <2> QED
    BY <2>8, <2>11 DEF Faultless
<1>15. CASE PopTake(k) \/ PopConflict(k)
  <2> DEFINE w == call[k].by
             x == call[k].id
  <2>1. call[k].op = "pop" /\ call[k].op \in WorkerOps /\ x \in Ids
    BY <1>1, <1>15 DEF PopTake, PopConflict, WorkerOps, CallFits, OnSpawn
  <2>2. w \in Workers /\ job[w].at = k /\ job[w] \in Job
    BY <1>11, <2>1
  <2>3. PICK pc \in Steps : Answer(w, k, [job[w] EXCEPT !.pc = pc])
    <3>1. "answered" \in Steps /\ "stopped" \in Steps /\ "waiting" \in Steps
      BY DEF Steps
    <3> QED
      BY <1>15, <3>1 DEF PopTake, PopConflict
  <2> DEFINE j == [job[w] EXCEPT !.pc = pc]
  <2>4. j \in Job /\ j.id = job[w].id /\ Answer(w, k, j)
    BY <2>2, <2>3 DEF Job
  <2>5. /\ call'[k] = Idle /\ \A q \in Kernels \ {k} : SameCall(q)
        /\ \A i \in Ids : spawn'[i].state = spawn[i].state
    <3>1. CASE PopTake(k)
      <4> DEFINE d == [spawn[x] EXCEPT !.answers = Tail(@)]
      <4>1. Put(k, x, d, Idle)
        BY <3>1 DEF PopTake
      <4>2. d.state = spawn[x].state
        BY <1>1, <2>1 DEF Doc
      <4> HIDE DEF d
      <4>3. call'[k] = Idle /\ \A q \in Kernels \ {k} : SameCall(q)
        BY <4>1, OthersGoOn
      <4>4. spawn'[x] = d /\ \A i \in Ids \ {x} : spawn'[i] = spawn[i]
        BY <2>1, <4>1, WrittenAnswers
      <4> QED
        BY <4>2, <4>3, <4>4
    <3>2. CASE PopConflict(k)
      BY <1>1, <3>2 DEF PopConflict, End, SameCall
    <3> QED
      BY <1>15, <3>1, <3>2
  <2> HIDE DEF j
  <2>6. /\ Served' /\ LastIsFinal' /\ job'[w].id = j.id
        /\ \A v \in Workers \ {w} : job'[v] = job[v]
    BY <1>12, <2>2, <2>4, <2>5
  <2>7. HasRunner'
    BY <2>4, <2>5, <2>6, RunnersStay
  <2> QED
    BY <2>6, <2>7 DEF Faultless
<1> QED
  BY <1>5, <1>6, <1>7, <1>8, <1>9, <1>10, <1>13, <1>14, <1>15 DEF KernelStep

(* As long as no call was lost and nobody crashed, every running or        *)
(* waiting spawn is in somebody's hands.                                   *)
THEOREM OrphansAreOwedToFaults == SpawnSpec => []OrphansNeedFaults
<1> DEFINE Inv == faults = 0 => Faultless
<1>1. SpawnInit => Inv
  BY DEF SpawnInit, Faultless, Served, LastIsFinal, HasRunner, WorkerOps, Active, Idle,
         Polling, Absent
<1>2. SpawnInv /\ Inv /\ [SpawnNext]_spawnVars => Inv'
  <2> SUFFICES ASSUME SpawnInv, Inv, [SpawnNext]_spawnVars, faults' = 0
               PROVE  Faultless'
    OBVIOUS
  <2>1. CASE FaultStep
    BY <2>1 DEF FaultStep, GiveUp, Crash, KernelFails, PickupRefused, Fault, SpawnInv,
                SpawnTypeOK
  <2>2. ASSUME NEW k \in Kernels, KernelStep(k) PROVE Faultless'
    <3>1. faults = 0
      BY <2>2 DEF KernelStep, SubmitGet, SubmitPut, SubmitLink, PickupTry, UpdateWrite,
                  PopTake, PopConflict, CancelWrite, ForceWrite, AnswerAppend
    <3> QED
      BY <2>2, <3>1, KernelFaultless
  <2>3. ASSUME NEW k \in Kernels, UserStep(k) PROVE Faultless'
    <3>1. faults = 0
      BY <2>3 DEF UserStep, SubmitIncr, CancelRead, AnswerRead, ForceRead, Ask
    <3> QED
      BY <2>3, <3>1, UserFaultless
  <2>4. ASSUME NEW w \in Workers, NEW k \in Kernels, WorkerStep(w, k) PROVE Faultless'
    <3>1. faults = 0
      BY <2>4 DEF WorkerStep, PickupSearch, Triage, GemmaAnswer, Turn, OutOfTurns,
                  PopRead, Answered, Stopped, WaitTimeout, UpdateCall
    <3> QED
      BY <2>4, <3>1, WorkerFaultless
  <2>5. CASE UNCHANGED spawnVars
    BY <2>5 DEF spawnVars, Faultless, Served, LastIsFinal, HasRunner
  <2> QED
    BY <2>1, <2>2, <2>3, <2>4, <2>5 DEF SpawnNext
<1>3. SpawnInv /\ Inv => OrphansNeedFaults
  BY DEF OrphansNeedFaults, Faultless, HasRunner, NotInHand, Active
<1> HIDE DEF Inv
<1> QED
  BY <1>1, <1>2, <1>3, SpawnInvariant, PTL DEF SpawnSpec

-----------------------------------------------------------------------------
(* Serials                                                                 *)

(* Everything in S was stored before, with a smaller number than n.        *)
AllBelow(S, n) == \A j \in S : spawn[j].state # "absent" /\ spawn[j].num < n

(* A submit that reads the counter has incremented it after the spawns it  *)
(* had seen got their numbers.                                             *)
NumbersGrow ==
  /\ \A i \in Ids : spawn[i].num <= counter /\ AllBelow(spawn[i].after, spawn[i].num)
  /\ \A k \in Kernels :
       /\ call[k].op = "serial" => AllBelow(call[k].ids, counter)
       /\ call[k].op = "put" =>
            call[k].num <= counter /\ AllBelow(call[k].ids, call[k].num)

(* Numbers less than a cycle apart have different serials.                 *)
LEMMA SerialsDiffer ==
  ASSUME NEW m \in Nat, NEW n \in Nat, m < n, n - m < SerialCycle
  PROVE  SerialOf(n) # SerialOf(m)
<1> DEFINE C == SerialCycle
           a == (n - 1) \div C
           b == (m - 1) \div C
<1>1. C \in Nat /\ C > 0
  BY SpawnAssumption
<1> HIDE DEF C
<1>2. a \in Int /\ n - 1 = C * a + ((n - 1) % C)
  BY <1>1
<1>3. b \in Int /\ m - 1 = C * b + ((m - 1) % C)
  BY <1>1
<1>4. (n - 1) % C \in Int /\ (m - 1) % C \in Int
  BY <1>1
<1> HIDE DEF a, b
<1>5. SUFFICES ASSUME (n - 1) % C = (m - 1) % C PROVE FALSE
  BY <1>4 DEF SerialOf, C
<1>6. n - m = C * (a - b)
  BY <1>1, <1>2, <1>3, <1>4, <1>5
<1>7. CASE a - b <= 0
  BY <1>1, <1>2, <1>3, <1>6, <1>7
<1>8. CASE a - b >= 1
  <2>1. C * (a - b) >= C
    BY <1>1, <1>2, <1>3, <1>8
  <2> QED
    BY <1>1, <1>6, <2>1 DEF C
<1> QED
  BY <1>2, <1>3, <1>7, <1>8

(* The numbers of a document survive every later write of it.              *)
SameNumbers(x, d) ==
  d.num = spawn[x].num /\ d.after = spawn[x].after /\ d.state # "absent"

NumbersStay ==
  \A j \in Ids : /\ spawn'[j].num = spawn[j].num /\ spawn'[j].after = spawn[j].after
                 /\ spawn[j].state # "absent" => spawn'[j].state # "absent"

(* A call that is part of a submit is where it was before.                 *)
SubmitsStay ==
  \A q \in Kernels : call'[q].op \in {"serial", "put"} =>
    call'[q].op = call[q].op /\ call'[q].ids = call[q].ids /\ call'[q].num = call[q].num

(* What was below stays below when the numbers stay.                       *)
LEMMA NumbersKept ==
  ASSUME SpawnInv, NumbersGrow, UNCHANGED counter, NumbersStay, SubmitsStay
  PROVE  NumbersGrow'
<1>1. ASSUME NEW S \in SUBSET Ids, NEW n, AllBelow(S, n)
      PROVE  \A j \in S : spawn'[j].state # "absent" /\ spawn'[j].num < n
  BY <1>1 DEF AllBelow, NumbersStay
<1>2. /\ \A i \in Ids : spawn[i].after \in SUBSET Ids
      /\ \A k \in Kernels : call[k].ids \in SUBSET Ids
  BY DEF SpawnInv, SpawnTypeOK, Doc, Call
<1>3. \A i \in Ids : spawn'[i].num <= counter' /\ AllBelow(spawn[i].after, spawn[i].num)'
  BY <1>1, <1>2 DEF NumbersGrow, NumbersStay, AllBelow
<1>4. ASSUME NEW k \in Kernels
      PROVE  /\ call'[k].op = "serial" => AllBelow(call[k].ids, counter)'
             /\ call'[k].op = "put" =>
                  call'[k].num <= counter' /\ AllBelow(call[k].ids, call[k].num)'
  <2>1. CASE call'[k].op = "serial"
    <3>1. call[k].op = "serial" /\ call'[k].ids = call[k].ids
      BY <2>1 DEF SubmitsStay
    <3>2. AllBelow(call[k].ids, counter)
      BY <3>1 DEF NumbersGrow
    <3>3. \A j \in call[k].ids : spawn'[j].state # "absent" /\ spawn'[j].num < counter
      BY <1>1, <1>2, <3>2
    <3> QED
      BY <2>1, <3>1, <3>3 DEF AllBelow
  <2>2. CASE call'[k].op = "put"
    <3>1. call[k].op = "put" /\ call'[k].ids = call[k].ids /\ call'[k].num = call[k].num
      BY <2>2 DEF SubmitsStay
    <3>2. call[k].num <= counter /\ AllBelow(call[k].ids, call[k].num)
      BY <3>1 DEF NumbersGrow
    <3>3. \A j \in call[k].ids : spawn'[j].state # "absent" /\ spawn'[j].num < call[k].num
      BY <1>1, <1>2, <3>2
    <3> QED
      BY <2>2, <3>1, <3>2, <3>3 DEF AllBelow
  <2> QED
    BY <2>1, <2>2
<1> QED
  BY <1>3, <1>4 DEF NumbersGrow

(* A write outside of a submit.                                            *)
LEMMA WriteKeepsNumbers ==
  ASSUME SpawnInv, NEW k \in Kernels, NEW x \in Ids, NEW d, SameNumbers(x, d),
         Put(k, x, d, Idle) \/ Merge(k, x, d)
  PROVE  NumbersStay /\ SubmitsStay
<1>1. spawn'[x] = d /\ \A j \in Ids \ {x} : spawn'[j] = spawn[j]
  BY WrittenAnswers
<1>2. NumbersStay
  BY <1>1 DEF NumbersStay, SameNumbers
<1>3. call'[k] = Idle /\ \A q \in Kernels \ {k} :
        call'[q].op = call[q].op /\ call'[q].ids = call[q].ids /\ call'[q].num = call[q].num
  <2>1. call \in [Kernels -> Call]
    BY DEF SpawnInv, SpawnTypeOK
  <2>2. CASE Put(k, x, d, Idle)
    BY <2>1, <2>2 DEF Put, Call
  <2>3. CASE End(k)
    BY <2>1, <2>3 DEF End
  <2> QED
    BY <2>2, <2>3 DEF Merge
<1> QED
  BY <1>2, <1>3 DEF SubmitsStay, Idle

(* A step of replica k that writes nothing and is not part of a submit.    *)
LEMMA CallKeepsNumbers ==
  ASSUME SpawnInv, NEW k, NEW c, call' = [call EXCEPT ![k] = c] \/ UNCHANGED call,
         c.op \notin {"serial", "put"}, UNCHANGED spawn
  PROVE  NumbersStay /\ SubmitsStay
  BY DEF NumbersStay, SubmitsStay, SpawnInv, SpawnTypeOK

(* A hit that is given up.                                                 *)
LEMMA NextHitKeepsNumbers ==
  ASSUME SpawnInv, NEW k \in Kernels, NEW x, call[k].op = "pickup", NextHit(k, x)
  PROVE  NumbersStay /\ SubmitsStay
<1>1. CASE call[k].ids = {x}
  <2>1. call' = [call EXCEPT ![k] = Idle] /\ UNCHANGED spawn
    BY <1>1 DEF NextHit, End
  <2>2. Idle.op \notin {"serial", "put"}
    BY DEF Idle
  <2> QED
    BY <2>1, <2>2, CallKeepsNumbers
<1>2. CASE call[k].ids # {x}
  <2> DEFINE c == [call[k] EXCEPT !.ids = @ \ {x}]
  <2>1. call' = [call EXCEPT ![k] = c] /\ UNCHANGED spawn
    BY <1>2 DEF NextHit
  <2>2. c.op \notin {"serial", "put"}
    BY DEF SpawnInv, SpawnTypeOK, Call
  <2> HIDE DEF c
  <2> QED
    BY <2>1, <2>2, CallKeepsNumbers
<1> QED
  BY <1>1, <1>2

(* No handler but a submit writes a number.                                *)
LEMMA KernelKeepsNumbers ==
  ASSUME SpawnInv, NEW k \in Kernels, KernelStep(k), ~SubmitGet(k), ~SubmitPut(k)
  PROVE  NumbersStay /\ SubmitsStay
<1>1. /\ call[k] \in Call /\ CallFits(k) /\ spawn \in [Ids -> Doc]
      /\ call \in [Kernels -> Call]
  BY DEF SpawnInv, SpawnTypeOK
<1>2. Idle.op \notin {"serial", "put"}
  BY DEF Idle
<1>3. call[k].op \in OnSpawn => call[k].id \in Ids /\ spawn[call[k].id].state # "absent"
  BY <1>1 DEF CallFits
<1>4. CASE SubmitLink(k)
  <2> DEFINE p == Parent[call[k].id]
             d == [spawn[p] EXCEPT !.managed = @ \cup {call[k].id}]
  <2>1. CASE p \in Spawned
    <3>1. p \in Ids /\ Merge(k, p, d) /\ spawn[p].state # "absent"
      BY <1>4, <2>1 DEF SubmitLink, Spawned
    <3>2. SameNumbers(p, d)
      BY <1>1, <3>1 DEF Doc, SameNumbers
    <3> HIDE DEF p, d
    <3> QED
      BY <3>1, <3>2, WriteKeepsNumbers
  <2>2. CASE p \notin Spawned
    BY <1>2, <1>4, <2>2, CallKeepsNumbers DEF SubmitLink, End
  <2> QED
    BY <2>1, <2>2
<1>5. CASE PickupTry(k)
  <2>1. PICK x \in call[k].ids : PickupTake(k, x) \/ NextHit(k, x)
    BY <1>5 DEF PickupTry, PickupConflict
  <2>2. CASE PickupTake(k, x)
    <3> DEFINE d == [spawn[x] EXCEPT !.state = "running", !.worker = call[k].by]
    <3>1. x \in Ids /\ Put(k, x, d, Idle)
      BY <1>1, <2>1, <2>2 DEF PickupTake, Call
    <3>2. SameNumbers(x, d)
      BY <1>1, <3>1 DEF Doc, SameNumbers
    <3> HIDE DEF d
    <3> QED
      BY <3>1, <3>2, WriteKeepsNumbers
  <2> QED
    BY <1>5, <2>1, <2>2, NextHitKeepsNumbers DEF PickupTry
<1>6. CASE UpdateWrite(k)
  <2> DEFINE x == call[k].id
             a == call[k].arg
  <2>1. x \in Ids /\ a \in Final \cup {"none", "waiting_user", "running"}
        /\ spawn[x].state # "absent"
    BY <1>1, <1>6 DEF CallFits, UpdateWrite, OnSpawn
  <2>2. PICK d : SameNumbers(x, d) /\ (Put(k, x, d, Idle) \/ Merge(k, x, d))
    <3>1. CASE a = "none"
      <4>1. Put(k, x, spawn[x], Idle) /\ SameNumbers(x, spawn[x])
        BY <1>6, <2>1, <3>1 DEF UpdateWrite, Final, SameNumbers
      <4> QED
        BY <4>1
    <3>2. CASE a = "waiting_user"
      <4> DEFINE d == [spawn[x] EXCEPT !.state = a, !.question = call[k].num]
      <4>1. Merge(k, x, d)
        BY <1>6, <3>2 DEF UpdateWrite, Final
      <4>2. SameNumbers(x, d)
        BY <1>1, <2>1, <3>2 DEF Doc, SameNumbers
      <4> QED
        BY <4>1, <4>2
    <3>3. CASE a = "running"
      <4> DEFINE d == [spawn[x] EXCEPT !.state = a, !.question = 0]
      <4>1. Merge(k, x, d)
        BY <1>6, <3>3 DEF UpdateWrite, Final
      <4>2. SameNumbers(x, d)
        BY <1>1, <2>1, <3>3 DEF Doc, SameNumbers
      <4> QED
        BY <4>1, <4>2
    <3>4. CASE a \in Final
      <4> DEFINE d == [spawn[x] EXCEPT !.state = a]
      <4>1. Put(k, x, d, Idle)
        BY <1>6, <3>4 DEF UpdateWrite, Final
      <4>2. SameNumbers(x, d)
        BY <1>1, <2>1, <3>4 DEF Doc, SameNumbers, Final
      <4> QED
        BY <4>1, <4>2
    <3> QED
      BY <2>1, <3>1, <3>2, <3>3, <3>4
  <2> HIDE DEF x, a
  <2> QED
    BY <2>1, <2>2, WriteKeepsNumbers
<1>7. CASE PopTake(k)
  <2> DEFINE x == call[k].id
             d == [spawn[x] EXCEPT !.answers = Tail(@)]
  <2>1. x \in Ids /\ Put(k, x, d, Idle) /\ spawn[x].state # "absent"
    BY <1>3, <1>7 DEF PopTake, OnSpawn
  <2>2. SameNumbers(x, d)
    BY <1>1, <2>1 DEF Doc, SameNumbers
  <2> HIDE DEF x, d
  <2> QED
    BY <2>1, <2>2, WriteKeepsNumbers
<1>8. CASE PopConflict(k)
  BY <1>2, <1>8, CallKeepsNumbers DEF PopConflict, End
<1>9. CASE CancelWrite(k)
  <2> DEFINE x == call[k].id
             d == [spawn[x] EXCEPT !.state = call[k].arg]
  <2>1. x \in Ids /\ call[k].arg # "absent"
    BY <1>1, <1>3, <1>9 DEF CancelWrite, OnSpawn, CallFits
  <2>2. Put(k, x, d, Idle) \/ Merge(k, x, d)
    BY <1>9 DEF CancelWrite
  <2>3. SameNumbers(x, d)
    BY <1>1, <2>1 DEF Doc, SameNumbers
  <2> HIDE DEF x, d
  <2> QED
    BY <2>1, <2>2, <2>3, WriteKeepsNumbers
<1>10. CASE ForceWrite(k)
  <2> DEFINE x == call[k].id
             d == [spawn[x] EXCEPT !.state = call[k].arg, !.question = 0,
                                   !.answers = << >>]
  <2>1. x \in Ids /\ call[k].arg # "absent" /\ Put(k, x, d, Idle)
    BY <1>1, <1>3, <1>10 DEF ForceWrite, OnSpawn, CallFits
  <2>2. SameNumbers(x, d)
    BY <1>1, <2>1 DEF Doc, SameNumbers
  <2> HIDE DEF x, d
  <2> QED
    BY <2>1, <2>2, WriteKeepsNumbers
<1>11. CASE AnswerAppend(k)
  <2> DEFINE x == call[k].id
             s == Append(spawn[x].answers, Len(fate[x]) + 1)
             d == [spawn[x] EXCEPT !.answers = s]
  <2>1. x \in Ids /\ Put(k, x, d, Idle) /\ spawn[x].state # "absent"
    BY <1>3, <1>11 DEF AnswerAppend, OnSpawn, WithAnswer
  <2> HIDE DEF s
  <2>2. SameNumbers(x, d)
    BY <1>1, <2>1 DEF Doc, SameNumbers
  <2> HIDE DEF x, d
  <2> QED
    BY <2>1, <2>2, WriteKeepsNumbers
<1> QED
  BY <1>4, <1>5, <1>6, <1>7, <1>8, <1>9, <1>10, <1>11 DEF KernelStep

(* The three steps of a submit.                                            *)
LEMMA SubmitGrowsNumbers ==
  ASSUME SpawnInv, NumbersGrow, NEW k \in Kernels,
         SubmitIncr(k) \/ SubmitGet(k) \/ SubmitPut(k)
  PROVE  NumbersGrow'
<1>1. /\ call \in [Kernels -> Call] /\ spawn \in [Ids -> Doc] /\ counter \in Nat
      /\ call[k] \in Call /\ CallFits(k)
      /\ \A i \in Ids : spawn[i].num \in Nat
  BY DEF SpawnInv, SpawnTypeOK, Doc
<1>2. CASE SubmitIncr(k)
  <2> DEFINE c == [Idle EXCEPT !.op = "serial", !.ids = Spawned]
  <2>1. call' = [call EXCEPT ![k] = c] /\ counter' = counter + 1 /\ UNCHANGED spawn
    BY <1>2 DEF SubmitIncr, Begin, Incremented
  <2>2. c.op = "serial" /\ c.ids = Spawned
    BY DEF Idle
  <2> HIDE DEF c
  <2>3. call'[k] = c /\ \A q \in Kernels \ {k} : call'[q] = call[q]
    BY <1>1, <2>1
  <2>4. \A i \in Ids : spawn'[i].num <= counter' /\ AllBelow(spawn[i].after, spawn[i].num)'
    BY <1>1, <2>1 DEF NumbersGrow, AllBelow
  <2>5. AllBelow(call[k].ids, counter)'
    BY <1>1, <2>1, <2>2, <2>3 DEF NumbersGrow, AllBelow, Spawned
  <2>6. ASSUME NEW q \in Kernels \ {k}
        PROVE  /\ call'[q].op = "serial" => AllBelow(call[q].ids, counter)'
               /\ call'[q].op = "put" =>
                    call'[q].num <= counter' /\ AllBelow(call[q].ids, call[q].num)'
    <3>1. call'[q] = call[q] /\ call[q].ids \subseteq Ids /\ call[q].num \in Nat
      BY <1>1, <2>3 DEF Call
    <3>2. call[q].op = "serial" => AllBelow(call[q].ids, counter)'
      BY <1>1, <2>1, <3>1 DEF NumbersGrow, AllBelow
    <3>3. call[q].op = "put" => call[q].num <= counter'
                                /\ AllBelow(call[q].ids, call[q].num)'
      BY <1>1, <2>1, <3>1 DEF NumbersGrow, AllBelow
    <3> QED
      BY <3>1, <3>2, <3>3
  <2> QED
    BY <2>2, <2>3, <2>4, <2>5, <2>6 DEF NumbersGrow
<1>3. CASE SubmitGet(k)
  <2>1. PICK x : call' = [call EXCEPT ![k].op = "put", ![k].id = x, ![k].num = counter]
    BY <1>3 DEF SubmitGet
  <2> DEFINE c == [call[k] EXCEPT !.op = "put", !.id = x, !.num = counter]
  <2>2. UNCHANGED <<spawn, counter>> /\ call[k].op = "serial"
    BY <1>3 DEF SubmitGet
  <2>3. call' = [call EXCEPT ![k] = c] /\ c.op = "put" /\ c.num = counter
        /\ c.ids = call[k].ids
    BY <1>1, <2>1 DEF Call
  <2> HIDE DEF c
  <2>4. call'[k] = c /\ \A q \in Kernels \ {k} : call'[q] = call[q]
    BY <1>1, <2>3
  <2>5. AllBelow(call[k].ids, counter)
    BY <2>2 DEF NumbersGrow
  <2>6. call'[k].num <= counter' /\ AllBelow(call[k].ids, call[k].num)'
    BY <1>1, <2>2, <2>3, <2>4, <2>5 DEF AllBelow
  <2>7. \A i \in Ids : spawn'[i].num <= counter' /\ AllBelow(spawn[i].after, spawn[i].num)'
    BY <2>2 DEF NumbersGrow, AllBelow
  <2>8. \A q \in Kernels \ {k} :
          /\ call'[q].op = "serial" => AllBelow(call[q].ids, counter)'
          /\ call'[q].op = "put" =>
               call'[q].num <= counter' /\ AllBelow(call[q].ids, call[q].num)'
    BY <2>2, <2>4 DEF NumbersGrow, AllBelow
  <2> QED
    BY <2>3, <2>4, <2>6, <2>7, <2>8 DEF NumbersGrow
<1>4. CASE SubmitPut(k)
  <2> DEFINE x == call[k].id
             d == [Absent EXCEPT !.state = "queued", !.num = call[k].num,
                                 !.after = call[k].ids]
             c == IF Parent[x] = NoId THEN Idle ELSE [call[k] EXCEPT !.op = "link"]
  <2>1. Put(k, x, d, c) /\ UNCHANGED counter /\ call[k].op = "put"
    BY <1>4 DEF SubmitPut
  <2>2. x \in Ids /\ spawn[x].state = "absent"
    BY <1>1, <2>1 DEF CallFits
  <2>3. d.state = "queued" /\ d.num = call[k].num /\ d.after = call[k].ids
    BY DEF Absent
  <2>4. c.op \notin {"serial", "put"}
    BY <1>1 DEF Idle, Call
  <2>5. call[k].num <= counter /\ AllBelow(call[k].ids, call[k].num)
    BY <2>1 DEF NumbersGrow
  <2> HIDE DEF d, c
  <2>6. spawn'[x] = d /\ \A j \in Ids \ {x} : spawn'[j] = spawn[j]
    BY <2>1, <2>2, WrittenAnswers
  <2>7. call'[k] = c /\ \A q \in Kernels \ {k} : call'[q].op = call[q].op
          /\ call'[q].ids = call[q].ids /\ call'[q].num = call[q].num
    BY <1>1, <2>1 DEF Put, Call
  <2>8. ASSUME NEW S \in SUBSET Ids, NEW n, AllBelow(S, n)
        PROVE  \A j \in S : spawn'[j].state # "absent" /\ spawn'[j].num < n
    BY <2>2, <2>6, <2>8 DEF AllBelow
  <2>9. /\ \A i \in Ids : spawn[i].after \in SUBSET Ids
        /\ \A q \in Kernels : call[q].ids \in SUBSET Ids
    BY <1>1 DEF Doc, Call
  <2>10. ASSUME NEW i \in Ids
         PROVE  spawn'[i].num <= counter' /\ AllBelow(spawn[i].after, spawn[i].num)'
    <3>1. CASE i = x
      <4>1. \A j \in call[k].ids : spawn'[j].state # "absent"
                                  /\ spawn'[j].num < call[k].num
        BY <2>5, <2>8, <2>9
      <4>2. spawn'[i].num = call[k].num /\ spawn'[i].after = call[k].ids
        BY <2>3, <2>6, <3>1
      <4> QED
        BY <2>1, <2>5, <4>1, <4>2 DEF AllBelow
    <3>2. CASE i # x
      <4>1. spawn'[i] = spawn[i] /\ spawn[i].num <= counter
            /\ AllBelow(spawn[i].after, spawn[i].num)
        BY <2>6, <3>2 DEF NumbersGrow
      <4> QED
        BY <2>1, <2>8, <2>9, <4>1 DEF AllBelow
    <3> QED
      BY <3>1, <3>2
  <2>11. ASSUME NEW q \in Kernels \ {k}
         PROVE  /\ call'[q].op = "serial" => AllBelow(call[q].ids, counter)'
                /\ call'[q].op = "put" =>
                     call'[q].num <= counter' /\ AllBelow(call[q].ids, call[q].num)'
    <3>1. call[q].op = "serial" => \A j \in call[q].ids :
            spawn'[j].state # "absent" /\ spawn'[j].num < counter
      BY <2>8, <2>9 DEF NumbersGrow
    <3>2. call[q].op = "put" => /\ call[q].num <= counter
                                /\ \A j \in call[q].ids :
                                     spawn'[j].state # "absent" /\ spawn'[j].num < call[q].num
      BY <2>8, <2>9 DEF NumbersGrow
    <3> QED
      BY <2>1, <2>7, <3>1, <3>2 DEF AllBelow
  <2> QED
    BY <2>4, <2>7, <2>10, <2>11 DEF NumbersGrow
<1> QED
  BY <1>2, <1>3, <1>4

(* Nor does another request of a user begin one.                           *)
LEMMA UserKeepsNumbers ==
  ASSUME SpawnInv, NEW k \in Kernels, UserStep(k), ~SubmitIncr(k)
  PROVE  NumbersStay /\ SubmitsStay
<1>1. ASSUME NEW x \in Ids, CancelRead(k, x) PROVE NumbersStay /\ SubmitsStay
  <2> DEFINE c == [Idle EXCEPT !.op = "cancel", !.id = x,
               !.arg = IF spawn[x].state = "queued" THEN "cancelled"
                       ELSE "cancel_requested"]
  <2>1. call' = [call EXCEPT ![k] = c] /\ UNCHANGED spawn
    BY <1>1 DEF CancelRead, Begin
  <2>2. c.op \notin {"serial", "put"}
    BY DEF Idle
  <2> HIDE DEF c
  <2> QED
    BY <2>1, <2>2, CallKeepsNumbers
<1>2. ASSUME NEW x \in Ids, AnswerRead(k, x) PROVE NumbersStay /\ SubmitsStay
  <2> DEFINE c == [Idle EXCEPT !.op = "answer", !.id = x]
  <2>1. call' = [call EXCEPT ![k] = c] /\ UNCHANGED spawn
    BY <1>2 DEF AnswerRead, Begin
  <2>2. c.op \notin {"serial", "put"}
    BY DEF Idle
  <2> HIDE DEF c
  <2> QED
    BY <2>1, <2>2, CallKeepsNumbers
<1>3. ASSUME NEW x \in Ids, NEW st, ForceRead(k, x, st)
      PROVE  NumbersStay /\ SubmitsStay
  <2> DEFINE c == [Idle EXCEPT !.op = "force", !.id = x, !.arg = st]
  <2>1. call' = [call EXCEPT ![k] = c] /\ UNCHANGED spawn
    BY <1>3 DEF ForceRead, Begin
  <2>2. c.op \notin {"serial", "put"}
    BY DEF Idle
  <2> HIDE DEF c
  <2> QED
    BY <2>1, <2>2, CallKeepsNumbers
<1> QED
  BY <1>1, <1>2, <1>3 DEF UserStep

(* Nor does a worker.                                                      *)
LEMMA WorkerKeepsNumbers ==
  ASSUME SpawnInv, NEW w \in Workers, NEW k \in Kernels, WorkerStep(w, k)
  PROVE  NumbersStay /\ SubmitsStay
<1>1. UNCHANGED <<spawn, call>> => NumbersStay /\ SubmitsStay
  BY DEF NumbersStay, SubmitsStay
<1>2. ASSUME NEW st, NEW t, NEW next, UpdateCall(w, k, st, t, next)
      PROVE  NumbersStay /\ SubmitsStay
  <2> DEFINE c == [Idle EXCEPT !.op = "update", !.id = job[w].id, !.by = w,
                               !.arg = st, !.num = t]
  <2>1. call' = [call EXCEPT ![k] = c] /\ UNCHANGED spawn
    BY <1>2 DEF UpdateCall, Begin
  <2>2. c.op \notin {"serial", "put"}
    BY DEF Idle
  <2> HIDE DEF c
  <2> QED
    BY <2>1, <2>2, CallKeepsNumbers
<1>3. CASE PickupSearch(w, k)
  <2> DEFINE c == [Idle EXCEPT !.op = "pickup", !.by = w, !.ids = Hits, !.fresh = Hits]
  <2>1. call' = [call EXCEPT ![k] = c] /\ UNCHANGED spawn
    BY <1>3 DEF PickupSearch, Begin
  <2>2. c.op \notin {"serial", "put"}
    BY DEF Idle
  <2> HIDE DEF c
  <2> QED
    BY <2>1, <2>2, CallKeepsNumbers
<1>4. CASE PopRead(w, k)
  <2> DEFINE x == job[w].id
             c == [Idle EXCEPT !.op = "pop", !.id = x, !.by = w,
                     !.arg = spawn[x].state, !.num = Head(spawn[x].answers),
                     !.fresh = {x}]
  <2>1. UNCHANGED spawn /\ (UNCHANGED call \/ call' = [call EXCEPT ![k] = c])
    BY <1>4 DEF PopRead, Begin
  <2>2. c.op \notin {"serial", "put"}
    BY DEF Idle
  <2> HIDE DEF c
  <2> QED
    BY <2>1, <2>2, CallKeepsNumbers
<1> QED
  BY <1>1, <1>2, <1>3, <1>4 DEF WorkerStep, Triage, GemmaAnswer, Turn, OutOfTurns,
                                Answered, Stopped, WaitTimeout

(* Nor does a fault.                                                       *)
LEMMA FaultKeepsNumbers ==
  ASSUME SpawnInv, FaultStep
  PROVE  NumbersStay /\ SubmitsStay
<1>1. UNCHANGED <<spawn, call>> => NumbersStay /\ SubmitsStay
  BY DEF NumbersStay, SubmitsStay
<1>2. ASSUME NEW k \in Kernels, KernelFails(k) PROVE NumbersStay /\ SubmitsStay
  <2>1. Idle.op \notin {"serial", "put"}
    BY DEF Idle
  <2> QED
    BY <1>2, <2>1, CallKeepsNumbers DEF KernelFails, End
<1> QED
  BY <1>1, <1>2, NextHitKeepsNumbers DEF FaultStep, GiveUp, Crash, PickupRefused

(* A spawn submitted after another one was stored never gets the serial of *)
(* that one, as long as the counter has not gone round.                    *)
THEOREM SerialsAlwaysMoveOn == SpawnSpec => []SerialsMoveOn
<1>1. SpawnInit => NumbersGrow
  BY DEF SpawnInit, NumbersGrow, AllBelow, Absent, Idle
<1>2. SpawnInv /\ NumbersGrow /\ [SpawnNext]_spawnVars => NumbersGrow'
  <2> SUFFICES ASSUME SpawnInv, NumbersGrow, [SpawnNext]_spawnVars
               PROVE  NumbersGrow'
    OBVIOUS
  <2>1. ASSUME NEW k \in Kernels, KernelStep(k) PROVE NumbersGrow'
    <3>1. UNCHANGED counter
      BY <2>1 DEF KernelStep, SubmitGet, SubmitPut, SubmitLink, PickupTry, UpdateWrite,
                  PopTake, PopConflict, CancelWrite, ForceWrite, AnswerAppend
    <3> QED
      BY <2>1, <3>1, SubmitGrowsNumbers, KernelKeepsNumbers, NumbersKept
  <2>2. ASSUME NEW k \in Kernels, UserStep(k) PROVE NumbersGrow'
    <3>1. SubmitIncr(k) \/ UNCHANGED counter
      BY <2>2 DEF UserStep, CancelRead, AnswerRead, ForceRead
    <3> QED
      BY <2>2, <3>1, SubmitGrowsNumbers, UserKeepsNumbers, NumbersKept
  <2>3. ASSUME NEW w \in Workers, NEW k \in Kernels, WorkerStep(w, k)
        PROVE  NumbersGrow'
    <3>1. UNCHANGED counter
      BY <2>3 DEF WorkerStep, PickupSearch, Triage, GemmaAnswer, Turn, OutOfTurns,
                  PopRead, Answered, Stopped, WaitTimeout, UpdateCall
    <3> QED
      BY <2>3, <3>1, WorkerKeepsNumbers, NumbersKept
  <2>4. CASE FaultStep
    <3>1. UNCHANGED counter
      BY <2>4 DEF FaultStep, GiveUp, Crash, KernelFails, PickupRefused
    <3> QED
      BY <2>4, <3>1, FaultKeepsNumbers, NumbersKept
  <2>5. CASE UNCHANGED spawnVars
    BY <2>5 DEF spawnVars, NumbersGrow, AllBelow
  <2> QED
    BY <2>1, <2>2, <2>3, <2>4, <2>5 DEF SpawnNext
<1>3. SpawnInv /\ NumbersGrow => SerialsMoveOn
  <2> SUFFICES ASSUME SpawnInv, NumbersGrow, NEW i \in Ids, NEW j \in spawn[i].after,
                      spawn[i].num - spawn[j].num < SerialCycle
               PROVE  SerialOf(spawn[i].num) # SerialOf(spawn[j].num)
    BY DEF SerialsMoveOn
  <2>1. j \in Ids /\ spawn[i].num \in Nat /\ spawn[j].num \in Nat
    BY DEF SpawnInv, SpawnTypeOK, Doc
  <2>2. spawn[j].num < spawn[i].num
    BY DEF NumbersGrow, AllBelow
  <2> QED
    BY <2>1, <2>2, SerialsDiffer
<1> QED
  BY <1>1, <1>2, <1>3, SpawnInvariant, PTL DEF SpawnSpec
=============================================================================
