-------------------------- MODULE SchedulerProofs --------------------------
(***************************************************************************)
(* Theorems about Scheduler: the state stays in its types, a claim is made *)
(* only of a task that is due, and runs within the lease do not overlap,   *)
(* for any number of replicas and tasks and any lease and interval.        *)
(***************************************************************************)
EXTENDS Scheduler, TLAPS

(* What a replica read and nobody wrote since is due, as it was then.      *)
FreshIsDue == \A k \in Kernels : \A t \in fresh[k] : Due(t)

(* A run that did not outlive the lease is younger than what is left of    *)
(* it: the task comes due again no sooner than the lease ends.             *)
LeaseHolds ==
  \A t \in Tasks \ spoiled : \A k \in Kernels : Active(k, t) =>
    /\ run[k][t].age < Lease
    /\ task[t].due # Never => task[t].due + run[k][t].age >= Lease

(* A run has the schedule its task has, unless it changed under the run.   *)
KindMatches ==
  \A t \in Tasks \ spoiled : \A k \in Kernels : Active(k, t) =>
    task[t].here /\ run[k][t].kind = task[t].kind

(* A once or a halting task that fired is still being run or is put off    *)
(* for good, and one that is about to fire has not fired before.           *)
OnceIsSpent ==
  \A t \in Tasks \ (spoiled \cup lost) :
    task[t].here /\ task[t].kind \in {"once", "halting"} =>
      /\ \A k \in Kernels : run[k][t].pc = "claimed" => fired[t] = 0
      /\ fired[t] > 0 =>
           task[t].due = Never \/ \E k \in Kernels : run[k][t].pc = "called"

SchedInv ==
  /\ SchedTypeOK /\ FreshIsDue /\ LeaseHolds /\ RunsDoNotOverlap
  /\ KindMatches /\ StaysScheduled /\ OnceIsSpent /\ OnceFiresOnce

(* Nothing runs and nothing is known at the start.                         *)
LEMMA SchedInitInv == SchedInit => SchedInv
<1> SUFFICES ASSUME SchedInit PROVE SchedInv
  OBVIOUS
<1>1. NoRun \in Run
  BY SchedAssumption DEF NoRun, Run, Kinds
<1>2. SchedTypeOK
  BY <1>1, SchedAssumption DEF SchedInit, SchedTypeOK, NoTask, Task, Kinds
<1>3. \A k \in Kernels : fresh[k] = {} /\
        \A t \in Tasks : run[k][t].pc = "none"
  BY DEF SchedInit, NoRun
<1> QED
  BY <1>2, <1>3 DEF SchedInit, SchedInv, FreshIsDue, LeaseHolds, RunsDoNotOverlap,
    Active, KindMatches, StaysScheduled, OnceIsSpent, OnceFiresOnce, NoTask

(* Tasks and runs stay what they are under the changes made to them.       *)
LEMMA TaskEdits ==
  ASSUME NEW d \in Task
  PROVE  /\ \A x \in Nat \cup {Never} : [d EXCEPT !.due = x] \in Task
         /\ \A on \in BOOLEAN : [d EXCEPT !.enabled = on] \in Task
         /\ \A on \in BOOLEAN, x \in Nat \cup {Never} :
              [d EXCEPT !.enabled = on, !.due = x] \in Task
         /\ \A kind \in Kinds : [d EXCEPT !.kind = kind] \in Task
         /\ \A kind \in Kinds, x \in Nat \cup {Never} :
              [d EXCEPT !.kind = kind, !.due = x] \in Task
<1>1. d = [here |-> d.here, enabled |-> d.enabled, kind |-> d.kind, due |-> d.due]
      /\ d.here \in BOOLEAN /\ d.enabled \in BOOLEAN /\ d.kind \in Kinds
      /\ d.due \in Nat \cup {Never}
  BY DEF Task
<1> QED
  BY <1>1 DEF Task

(* A run that is called, grows older or is claimed anew is still a run.    *)
LEMMA RunEdits ==
  ASSUME NEW r \in Run
  PROVE  /\ [r EXCEPT !.pc = "called"] \in Run /\ Older(r) \in Run
         /\ \A kind \in Kinds :
              [r EXCEPT !.pc = "claimed", !.kind = kind] \in Run
<1>1. r = [pc |-> r.pc, kind |-> r.kind, age |-> r.age]
      /\ r.kind \in Kinds /\ r.age \in 0..Lease
      /\ r.pc \in {"none", "claimed", "called"}
  BY DEF Run
<1>2. /\ [r EXCEPT !.pc = "called"] \in Run
      /\ \A kind \in Kinds :
           [r EXCEPT !.pc = "claimed", !.kind = kind] \in Run
  BY <1>1 DEF Run
<1>3. Older(r) \in Run
  BY <1>1, SchedAssumption DEF Run, Older
<1> QED
  BY <1>2, <1>3

(* Every step keeps the types.                                             *)
LEMMA SchedTypesKept == SchedInv /\ [SchedNext]_schedVars => SchedTypeOK'
<1> SUFFICES ASSUME SchedInv, [SchedNext]_schedVars PROVE SchedTypeOK'
  OBVIOUS
<1> USE SchedAssumption DEF SchedInv
<1>1. ASSUME NEW k \in Kernels, Search(k) PROVE SchedTypeOK'
  BY <1>1 DEF Search, SchedTypeOK
<1>2. ASSUME NEW k \in Kernels, NEW t \in Tasks, Claim(k, t)
      PROVE SchedTypeOK'
  <2>1. Claimed(t) \in Run
    <3>1. task[t].kind \in Kinds /\ NoRun \in Run
      BY DEF SchedTypeOK, Task, NoRun, Run, Kinds
    <3> QED
      BY <3>1, RunEdits DEF Claimed
  <2>2. run' \in [Kernels -> [Tasks -> Run]]
    <3>1. CASE Unwritten(k, t)
      <4>1. run' = [run EXCEPT ![k][t] = Claimed(t)]
        BY <1>2, <3>1 DEF Claim
      <4> QED
        BY <2>1, <4>1 DEF SchedTypeOK
    <3>2. CASE ~Unwritten(k, t)
      BY <1>2, <3>2 DEF Claim, SchedTypeOK
    <3> QED
      BY <3>1, <3>2
  <2>3. Advanced(t) \in Task
    BY <1>2, TaskEdits DEF SchedTypeOK, Advanced
  <2>4. task' \in [Tasks -> Task]
    BY <1>2, <2>3 DEF Claim, Unwritten, Left, Write, SchedTypeOK
  <2>5. hits' \in [Kernels -> SUBSET Tasks] /\ fresh' \in [Kernels -> SUBSET Tasks]
    BY <1>2 DEF Claim, Left, Write, SchedTypeOK
  <2>6. visible' \subseteq Tasks
    BY <1>2 DEF Claim, Write, SchedTypeOK
  <2> QED
    BY <1>2, <2>2, <2>4, <2>5, <2>6 DEF Claim, SchedTypeOK
<1>3. ASSUME NEW k \in Kernels, NEW t \in Tasks, ClaimUnanswered(k, t)
      PROVE SchedTypeOK'
  <2>3. Advanced(t) \in Task
    BY <1>3, TaskEdits DEF SchedTypeOK, Advanced
  <2>4. task' \in [Tasks -> Task]
    BY <1>3, <2>3 DEF ClaimUnanswered, Left, Write, SchedTypeOK
  <2> QED
    BY <1>3, <2>4 DEF ClaimUnanswered, Left, Write, SchedTypeOK, SchedEvent
<1>4. ASSUME NEW k \in Kernels, Gather(k) PROVE SchedTypeOK'
  <2>1. \A u \in Tasks : [run[k][u] EXCEPT !.pc = "called"] \in Run
    <3>1. \A u \in Tasks : run[k][u] \in Run
      BY DEF SchedTypeOK
    <3> QED
      BY <3>1, RunEdits
  <2>2. run' \in [Kernels -> [Tasks -> Run]]
    BY <1>4, <2>1 DEF Gather, Started, SchedTypeOK
  <2> QED
    BY <1>4, <2>2 DEF Gather, Started, SchedTypeOK
<1>5. ASSUME NEW k \in Kernels, NEW t \in Tasks, Finish(k, t)
      PROVE SchedTypeOK'
  <2>1. NoRun \in Run
    BY DEF NoRun, Run, Kinds
  <2>2. run' \in [Kernels -> [Tasks -> Run]]
    BY <1>5, <2>1 DEF Finish, SchedTypeOK
  <2>3. Recorded(task[t], run[k][t].kind) \in Task
    <3>1. run[k][t].kind \in Kinds /\ task[t] \in Task
      BY DEF SchedTypeOK, Run
    <3>2. /\ [task[t] EXCEPT !.enabled = FALSE, !.due = Never] \in Task
          /\ [task[t] EXCEPT !.due = Interval] \in Task
          /\ [task[t] EXCEPT !.due = Never] \in Task
      BY <3>1, TaskEdits
    <3> QED
      BY <3>1, <3>2 DEF Recorded, Kinds
  <2>4. task' \in [Tasks -> Task]
    BY <1>5, <2>3 DEF Finish, Write, SchedTypeOK
  <2> QED
    BY <1>5, <2>2, <2>4 DEF Finish, Write, SchedTypeOK
<1>6. ASSUME NEW k \in Kernels, NEW t \in Tasks, FinishUnrecorded(k, t)
      PROVE SchedTypeOK'
  <2>1. NoRun \in Run
    BY DEF NoRun, Run, Kinds
  <2>2. run' \in [Kernels -> [Tasks -> Run]]
    BY <1>6, <2>1 DEF FinishUnrecorded, SchedTypeOK
  <2> QED
    BY <1>6, <2>2 DEF FinishUnrecorded, SchedTypeOK, SchedEvent
<1>7. ASSUME NEW k \in Kernels, CrashReplica(k) PROVE SchedTypeOK'
  <2>1. NoRun \in Run
    BY DEF NoRun, Run, Kinds
  <2>2. run' \in [Kernels -> [Tasks -> Run]]
    BY <1>7, <2>1 DEF CrashReplica, SchedTypeOK
  <2> QED
    BY <1>7, <2>2 DEF CrashReplica, SchedTypeOK, SchedEvent
<1>8. ASSUME NEW t \in Tasks, NEW kind \in Kinds, NEW on \in BOOLEAN,
             CreateTask(t, kind, on)
      PROVE SchedTypeOK'
  <2>4. task' \in [Tasks -> Task]
    BY <1>8 DEF CreateTask, Redefine, InRun, Write, SchedTypeOK, Task, FirstDue
  <2> QED
    BY <1>8, <2>4 DEF CreateTask, Redefine, InRun, Write, SchedTypeOK, SchedEvent
<1>9. ASSUME NEW t \in Tasks, NEW kind \in Kinds, UpdateSchedule(t, kind)
      PROVE SchedTypeOK'
  <2>3. \A x \in FirstDue(kind) : [task[t] EXCEPT !.kind = kind, !.due = x] \in Task
    BY <1>9, TaskEdits DEF SchedTypeOK, FirstDue
  <2>4. task' \in [Tasks -> Task]
    <3>1. PICK x \in FirstDue(kind) :
            task' = [task EXCEPT ![t] = [task[t] EXCEPT !.kind = kind, !.due = x]]
      BY <1>9 DEF UpdateSchedule, Redefine, Write
    <3> QED
      BY <2>3, <3>1 DEF SchedTypeOK
  <2>5. wish' \in [Tasks -> BOOLEAN]
    BY <1>9 DEF UpdateSchedule, SchedTypeOK, Task
  <2> QED
    BY <1>9, <2>4, <2>5 DEF UpdateSchedule, Redefine, InRun, Write, SchedTypeOK, SchedEvent
<1>10. ASSUME NEW t \in Tasks, NEW on \in BOOLEAN, UpdateEnabled(t, on)
      PROVE SchedTypeOK'
  <2>3. [task[t] EXCEPT !.enabled = on] \in Task
    BY <1>10, TaskEdits DEF SchedTypeOK
  <2>4. task' \in [Tasks -> Task]
    BY <1>10, <2>3 DEF UpdateEnabled, Write, SchedTypeOK
  <2> QED
    BY <1>10, <2>4 DEF UpdateEnabled, Write, SchedTypeOK, SchedEvent
<1>11. ASSUME NEW t \in Tasks, DeleteTask(t) PROVE SchedTypeOK'
  <2>3. NoTask \in Task
    BY DEF NoTask, Task, Kinds
  <2>4. task' \in [Tasks -> Task]
    BY <1>11, <2>3 DEF DeleteTask, Redefine, InRun, Write, SchedTypeOK
  <2> QED
    BY <1>11, <2>4 DEF DeleteTask, Redefine, InRun, Write, SchedTypeOK, SchedEvent
<1>12. ASSUME NEW t \in Tasks, RunNow(t) PROVE SchedTypeOK'
  BY <1>12 DEF RunNow, SchedTypeOK, SchedEvent
<1>13. ASSUME NEW t \in Tasks, RunNowDone(t) PROVE SchedTypeOK'
  <2>3. task[t] \in Task
    BY <1>13 DEF SchedTypeOK
  <2>4. task' \in [Tasks -> Task]
    BY <1>13, <2>3 DEF RunNowDone, Write, SchedTypeOK
  <2> QED
    BY <1>13, <2>4 DEF RunNowDone, Write, SchedTypeOK
<1>14. ASSUME Refresh PROVE SchedTypeOK'
  BY <1>14 DEF Refresh, SchedTypeOK
<1>15. ASSUME Tick PROVE SchedTypeOK'
  <2>1. \A k \in Kernels, t \in Tasks : Older(run[k][t]) \in Run
    <3>1. \A k \in Kernels, t \in Tasks : run[k][t] \in Run
      BY DEF SchedTypeOK
    <3> QED
      BY <3>1, RunEdits
  <2>2. run' \in [Kernels -> [Tasks -> Run]]
    BY <1>15, <2>1 DEF Tick, SchedTypeOK
  <2>3. \A t \in Tasks : task[t].due \notin {0, Never} =>
          [task[t] EXCEPT !.due = @ - 1] \in Task
    <3> SUFFICES ASSUME NEW t \in Tasks, task[t].due \notin {0, Never}
                 PROVE [task[t] EXCEPT !.due = @ - 1] \in Task
      OBVIOUS
    <3>1. task[t] \in Task /\ task[t].due - 1 \in Nat
      BY DEF SchedTypeOK, Task
    <3> QED
      BY <3>1, TaskEdits
  <2>4. task' \in [Tasks -> Task]
    BY <1>15, <2>3 DEF Tick, SchedTypeOK
  <2> QED
    BY <1>15, <2>2, <2>4 DEF Tick, SchedTypeOK
<1>16. ASSUME NEW t \in Tasks, UpdateHandler(t) PROVE SchedTypeOK'
  <2>1. [task[t] EXCEPT !.kind = "broken"] \in Task
    BY TaskEdits DEF SchedTypeOK, Kinds
  <2>2. task' \in [Tasks -> Task]
    BY <1>16, <2>1 DEF UpdateHandler, Redefine, Write, SchedTypeOK
  <2>3. wish' \in [Tasks -> BOOLEAN]
    BY <1>16 DEF UpdateHandler, SchedTypeOK, Task
  <2> QED
    BY <1>16, <2>2, <2>3 DEF UpdateHandler, Redefine, InRun, Write, SchedTypeOK, SchedEvent
<1>17. CASE UNCHANGED schedVars
  BY <1>17 DEF schedVars, SchedTypeOK, FreshIsDue, LeaseHolds, RunsDoNotOverlap,
    KindMatches, StaysScheduled, OnceIsSpent, OnceFiresOnce, Due, Active
<1> QED
  BY <1>1, <1>2, <1>3, <1>4, <1>5, <1>6, <1>7, <1>8,
     <1>9, <1>10, <1>11, <1>12, <1>13, <1>14, <1>15, <1>16, <1>17
  DEF SchedNext, LoopStep, OperatorStep

(* A write takes its document from what is fresh; time keeps it due.       *)
LEMMA FreshKept == SchedInv /\ [SchedNext]_schedVars => FreshIsDue'
<1> SUFFICES ASSUME SchedInv, [SchedNext]_schedVars PROVE FreshIsDue'
  OBVIOUS
<1> USE SchedAssumption DEF SchedInv
<1>1. ASSUME NEW k \in Kernels, Search(k) PROVE FreshIsDue'
  BY <1>1 DEF Search, Asleep, FreshIsDue, Due, SchedTypeOK, Task
<1>2. ASSUME NEW k \in Kernels, NEW t \in Tasks, Claim(k, t)
      PROVE FreshIsDue'
  BY <1>2 DEF Claim, Write, Unwritten, Left, Claimed, Advanced, NoRun, FreshIsDue, Due, SchedTypeOK, Task
<1>3. ASSUME NEW k \in Kernels, NEW t \in Tasks, ClaimUnanswered(k, t)
      PROVE FreshIsDue'
  BY <1>3 DEF ClaimUnanswered, Write, Left, Advanced, FreshIsDue, Due, SchedTypeOK, Task
<1>4. ASSUME NEW k \in Kernels, Gather(k) PROVE FreshIsDue'
  BY <1>4 DEF Gather, Started, FreshIsDue, Due, SchedTypeOK, Task
<1>5. ASSUME NEW k \in Kernels, NEW t \in Tasks, Finish(k, t)
      PROVE FreshIsDue'
  BY <1>5 DEF Finish, Write, NoRun, Recorded, FreshIsDue, Due, SchedTypeOK, Task
<1>6. ASSUME NEW k \in Kernels, NEW t \in Tasks, FinishUnrecorded(k, t)
      PROVE FreshIsDue'
  BY <1>6 DEF FinishUnrecorded, NoRun, FreshIsDue, Due, SchedTypeOK, Task
<1>7. ASSUME NEW k \in Kernels, CrashReplica(k) PROVE FreshIsDue'
  BY <1>7 DEF CrashReplica, NoRun, FreshIsDue, Due, SchedTypeOK, Task
<1>8. ASSUME NEW t \in Tasks, NEW kind \in Kinds, NEW on \in BOOLEAN,
             CreateTask(t, kind, on)
      PROVE FreshIsDue'
  BY <1>8 DEF CreateTask, Redefine, Write, InRun, FirstDue, FreshIsDue, Due, SchedTypeOK, Task
<1>9. ASSUME NEW t \in Tasks, NEW kind \in Kinds, UpdateSchedule(t, kind)
      PROVE FreshIsDue'
  BY <1>9 DEF UpdateSchedule, Redefine, Write, InRun, FirstDue, FreshIsDue, Due, SchedTypeOK, Task
<1>10. ASSUME NEW t \in Tasks, NEW on \in BOOLEAN, UpdateEnabled(t, on)
      PROVE FreshIsDue'
  BY <1>10 DEF UpdateEnabled, Write, FreshIsDue, Due, SchedTypeOK, Task
<1>11. ASSUME NEW t \in Tasks, DeleteTask(t) PROVE FreshIsDue'
  BY <1>11 DEF DeleteTask, Redefine, Write, InRun, NoTask, FreshIsDue, Due, SchedTypeOK, Task
<1>12. ASSUME NEW t \in Tasks, RunNow(t) PROVE FreshIsDue'
  BY <1>12 DEF RunNow, FreshIsDue, Due, SchedTypeOK, Task
<1>13. ASSUME NEW t \in Tasks, RunNowDone(t) PROVE FreshIsDue'
  BY <1>13 DEF RunNowDone, Write, FreshIsDue, Due, SchedTypeOK, Task
<1>14. ASSUME Refresh PROVE FreshIsDue'
  BY <1>14 DEF Refresh, FreshIsDue, Due, SchedTypeOK, Task
<1>15. ASSUME Tick PROVE FreshIsDue'
  BY <1>15 DEF Tick, Older, FreshIsDue, Due, SchedTypeOK, Task
<1>16. ASSUME NEW t \in Tasks, UpdateHandler(t) PROVE FreshIsDue'
  BY <1>16 DEF UpdateHandler, Redefine, Write, InRun, FreshIsDue, Due, SchedTypeOK, Task
<1>17. CASE UNCHANGED schedVars
  BY <1>17 DEF schedVars, SchedTypeOK, FreshIsDue, LeaseHolds, RunsDoNotOverlap,
    KindMatches, StaysScheduled, OnceIsSpent, OnceFiresOnce, Due, Active
<1> QED
  BY <1>1, <1>2, <1>3, <1>4, <1>5, <1>6, <1>7, <1>8,
     <1>9, <1>10, <1>11, <1>12, <1>13, <1>14, <1>15, <1>16, <1>17
  DEF SchedNext, LoopStep, OperatorStep

(* The lease and the run age together.                                     *)
LEMMA LeasesKept == SchedInv /\ [SchedNext]_schedVars => LeaseHolds'
<1> SUFFICES ASSUME SchedInv, [SchedNext]_schedVars PROVE LeaseHolds'
  OBVIOUS
<1> USE SchedAssumption DEF SchedInv
<1>1. ASSUME NEW k \in Kernels, Search(k) PROVE LeaseHolds'
  BY <1>1 DEF Search, Asleep, LeaseHolds, RunsDoNotOverlap, FreshIsDue, Due, Active,
    SchedTypeOK, Run, Task, NoRun
<1>2. ASSUME NEW k \in Kernels, NEW t \in Tasks, Claim(k, t)
      PROVE LeaseHolds'
  <2>1. CASE ~Unwritten(k, t)
    BY <1>2, <2>1 DEF Claim, LeaseHolds, Active
  <2>2. CASE Unwritten(k, t)
    <3>1. task'[t].due = Lease /\ \A u \in Tasks \ {t} : task'[u] = task[u]
      BY <1>2, <2>2 DEF Claim, Write, Advanced, SchedTypeOK, Task
    <3>2. run'[k][t].age = 0 /\ \A q \in Kernels, u \in Tasks :
            q # k \/ u # t => run'[q][u] = run[q][u]
      <4>1. run' = [run EXCEPT ![k][t] = Claimed(t)] /\ Claimed(t).age = 0
        BY <1>2, <2>2 DEF Claim, Claimed, NoRun
      <4> QED
        BY <4>1 DEF SchedTypeOK
    <3>3. \A q \in Kernels : q # k /\ Active(q, t) => t \in spoiled
      <4>1. task[t].due = 0
        BY <1>2, <2>2 DEF Unwritten, FreshIsDue, Due
      <4>2. \A q \in Kernels : run[q][t].age \in 0..Lease
        BY DEF SchedTypeOK, Run
      <4> QED
        BY <4>1, <4>2 DEF LeaseHolds
    <3>4. UNCHANGED spoiled
      BY <1>2 DEF Claim
    <3> QED
      BY <3>1, <3>2, <3>3, <3>4 DEF LeaseHolds, Active
  <2> QED
    BY <2>1, <2>2
<1>3. ASSUME NEW k \in Kernels, NEW t \in Tasks, ClaimUnanswered(k, t)
      PROVE LeaseHolds'
  BY <1>3 DEF ClaimUnanswered, Write, Left, Advanced, LeaseHolds, RunsDoNotOverlap, FreshIsDue, Due, Active,
    SchedTypeOK, Run, Task, NoRun
<1>4. ASSUME NEW k \in Kernels, Gather(k) PROVE LeaseHolds'
  BY <1>4 DEF Gather, Started, LeaseHolds, RunsDoNotOverlap, FreshIsDue, Due, Active,
    SchedTypeOK, Run, Task, NoRun
<1>5. ASSUME NEW k \in Kernels, NEW t \in Tasks, Finish(k, t)
      PROVE LeaseHolds'
  BY <1>5 DEF Finish, Write, NoRun, Recorded, LeaseHolds, RunsDoNotOverlap, FreshIsDue, Due, Active,
    SchedTypeOK, Run, Task, NoRun
<1>6. ASSUME NEW k \in Kernels, NEW t \in Tasks, FinishUnrecorded(k, t)
      PROVE LeaseHolds'
  BY <1>6 DEF FinishUnrecorded, NoRun, LeaseHolds, RunsDoNotOverlap, FreshIsDue, Due, Active,
    SchedTypeOK, Run, Task, NoRun
<1>7. ASSUME NEW k \in Kernels, CrashReplica(k) PROVE LeaseHolds'
  BY <1>7 DEF CrashReplica, NoRun, LeaseHolds, RunsDoNotOverlap, FreshIsDue, Due, Active,
    SchedTypeOK, Run, Task, NoRun
<1>8. ASSUME NEW t \in Tasks, NEW kind \in Kinds, NEW on \in BOOLEAN,
             CreateTask(t, kind, on)
      PROVE LeaseHolds'
  BY <1>8 DEF CreateTask, Redefine, Write, InRun, FirstDue, LeaseHolds, RunsDoNotOverlap, FreshIsDue, Due, Active,
    SchedTypeOK, Run, Task, NoRun
<1>9. ASSUME NEW t \in Tasks, NEW kind \in Kinds, UpdateSchedule(t, kind)
      PROVE LeaseHolds'
  BY <1>9 DEF UpdateSchedule, Redefine, Write, InRun, FirstDue, LeaseHolds, RunsDoNotOverlap, FreshIsDue, Due, Active,
    SchedTypeOK, Run, Task, NoRun
<1>10. ASSUME NEW t \in Tasks, NEW on \in BOOLEAN, UpdateEnabled(t, on)
      PROVE LeaseHolds'
  BY <1>10 DEF UpdateEnabled, Write, LeaseHolds, RunsDoNotOverlap, FreshIsDue, Due, Active,
    SchedTypeOK, Run, Task, NoRun
<1>11. ASSUME NEW t \in Tasks, DeleteTask(t) PROVE LeaseHolds'
  BY <1>11 DEF DeleteTask, Redefine, Write, InRun, NoTask, LeaseHolds, RunsDoNotOverlap, FreshIsDue, Due, Active,
    SchedTypeOK, Run, Task, NoRun
<1>12. ASSUME NEW t \in Tasks, RunNow(t) PROVE LeaseHolds'
  BY <1>12 DEF RunNow, LeaseHolds, RunsDoNotOverlap, FreshIsDue, Due, Active,
    SchedTypeOK, Run, Task, NoRun
<1>13. ASSUME NEW t \in Tasks, RunNowDone(t) PROVE LeaseHolds'
  BY <1>13 DEF RunNowDone, Write, LeaseHolds, RunsDoNotOverlap, FreshIsDue, Due, Active,
    SchedTypeOK, Run, Task, NoRun
<1>14. ASSUME Refresh PROVE LeaseHolds'
  BY <1>14 DEF Refresh, LeaseHolds, RunsDoNotOverlap, FreshIsDue, Due, Active,
    SchedTypeOK, Run, Task, NoRun
<1>15. ASSUME Tick PROVE LeaseHolds'
  <2> SUFFICES ASSUME NEW t \in Tasks \ spoiled', NEW k \in Kernels, Active(k, t)'
               PROVE /\ run'[k][t].age < Lease
                     /\ task'[t].due # Never => task'[t].due + run'[k][t].age >= Lease
    BY DEF LeaseHolds
  <2>1. run'[k][t] = Older(run[k][t]) /\ run'[k][t].age # Lease /\ t \notin spoiled
    BY <1>15 DEF Tick
  <2>2. run[k][t] \in Run /\ task[t] \in Task
    BY DEF SchedTypeOK
  <2>3. Active(k, t) /\ run[k][t].age \in 0..Lease /\ run'[k][t].age = run[k][t].age + 1
    BY <2>1, <2>2 DEF Older, Active, Run
  <2>4. run[k][t].age < Lease /\ (task[t].due # Never => task[t].due + run[k][t].age >= Lease)
    BY <2>1, <2>3 DEF LeaseHolds
  <2>5. task'[t].due = IF task[t].due \in {0, Never} THEN task[t].due ELSE task[t].due - 1
    BY <1>15, <2>2 DEF Tick, Task
  <2> QED
    BY <2>1, <2>2, <2>3, <2>4, <2>5 DEF Task
<1>16. ASSUME NEW t \in Tasks, UpdateHandler(t) PROVE LeaseHolds'
  BY <1>16 DEF UpdateHandler, Redefine, Write, InRun, LeaseHolds, RunsDoNotOverlap, FreshIsDue, Due, Active,
    SchedTypeOK, Run, Task, NoRun
<1>17. CASE UNCHANGED schedVars
  BY <1>17 DEF schedVars, SchedTypeOK, FreshIsDue, LeaseHolds, RunsDoNotOverlap,
    KindMatches, StaysScheduled, OnceIsSpent, OnceFiresOnce, Due, Active
<1> QED
  BY <1>1, <1>2, <1>3, <1>4, <1>5, <1>6, <1>7, <1>8,
     <1>9, <1>10, <1>11, <1>12, <1>13, <1>14, <1>15, <1>16, <1>17
  DEF SchedNext, LoopStep, OperatorStep

(* Nobody can claim a task as long as a run holds its lease.               *)
LEMMA OverlapKept == SchedInv /\ [SchedNext]_schedVars => RunsDoNotOverlap'
<1> SUFFICES ASSUME SchedInv, [SchedNext]_schedVars PROVE RunsDoNotOverlap'
  OBVIOUS
<1> USE SchedAssumption DEF SchedInv
<1>1. ASSUME NEW k \in Kernels, Search(k) PROVE RunsDoNotOverlap'
  BY <1>1 DEF Search, Asleep, RunsDoNotOverlap, Active, SchedTypeOK, Run, NoRun
<1>2. ASSUME NEW k \in Kernels, NEW t \in Tasks, Claim(k, t)
      PROVE RunsDoNotOverlap'
  <2>1. CASE ~Unwritten(k, t)
    BY <1>2, <2>1 DEF Claim, RunsDoNotOverlap, Active
  <2>2. CASE Unwritten(k, t)
    <3>1. \A q \in Kernels : Active(q, t) => t \in spoiled
      <4>1. task[t].due = 0
        BY <1>2, <2>2 DEF Unwritten, FreshIsDue, Due
      <4>2. \A q \in Kernels : run[q][t].age \in 0..Lease
        BY DEF SchedTypeOK, Run
      <4> QED
        BY <4>1, <4>2 DEF LeaseHolds
    <3>2. \A q \in Kernels, u \in Tasks : q # k \/ u # t => run'[q][u] = run[q][u]
      BY <1>2, <2>2 DEF Claim, SchedTypeOK
    <3>3. UNCHANGED spoiled
      BY <1>2 DEF Claim
    <3> QED
      BY <3>1, <3>2, <3>3 DEF RunsDoNotOverlap, Active
  <2> QED
    BY <2>1, <2>2
<1>3. ASSUME NEW k \in Kernels, NEW t \in Tasks, ClaimUnanswered(k, t)
      PROVE RunsDoNotOverlap'
  BY <1>3 DEF ClaimUnanswered, Write, Left, Advanced, RunsDoNotOverlap, Active, SchedTypeOK, Run, NoRun
<1>4. ASSUME NEW k \in Kernels, Gather(k) PROVE RunsDoNotOverlap'
  BY <1>4 DEF Gather, Started, RunsDoNotOverlap, Active, SchedTypeOK, Run, NoRun
<1>5. ASSUME NEW k \in Kernels, NEW t \in Tasks, Finish(k, t)
      PROVE RunsDoNotOverlap'
  BY <1>5 DEF Finish, Write, NoRun, Recorded, RunsDoNotOverlap, Active, SchedTypeOK, Run, NoRun
<1>6. ASSUME NEW k \in Kernels, NEW t \in Tasks, FinishUnrecorded(k, t)
      PROVE RunsDoNotOverlap'
  BY <1>6 DEF FinishUnrecorded, NoRun, RunsDoNotOverlap, Active, SchedTypeOK, Run, NoRun
<1>7. ASSUME NEW k \in Kernels, CrashReplica(k) PROVE RunsDoNotOverlap'
  BY <1>7 DEF CrashReplica, NoRun, RunsDoNotOverlap, Active, SchedTypeOK, Run, NoRun
<1>8. ASSUME NEW t \in Tasks, NEW kind \in Kinds, NEW on \in BOOLEAN,
             CreateTask(t, kind, on)
      PROVE RunsDoNotOverlap'
  BY <1>8 DEF CreateTask, Redefine, Write, InRun, FirstDue, RunsDoNotOverlap, Active, SchedTypeOK, Run, NoRun
<1>9. ASSUME NEW t \in Tasks, NEW kind \in Kinds, UpdateSchedule(t, kind)
      PROVE RunsDoNotOverlap'
  BY <1>9 DEF UpdateSchedule, Redefine, Write, InRun, FirstDue, RunsDoNotOverlap, Active, SchedTypeOK, Run, NoRun
<1>10. ASSUME NEW t \in Tasks, NEW on \in BOOLEAN, UpdateEnabled(t, on)
      PROVE RunsDoNotOverlap'
  BY <1>10 DEF UpdateEnabled, Write, RunsDoNotOverlap, Active, SchedTypeOK, Run, NoRun
<1>11. ASSUME NEW t \in Tasks, DeleteTask(t) PROVE RunsDoNotOverlap'
  BY <1>11 DEF DeleteTask, Redefine, Write, InRun, NoTask, RunsDoNotOverlap, Active, SchedTypeOK, Run, NoRun
<1>12. ASSUME NEW t \in Tasks, RunNow(t) PROVE RunsDoNotOverlap'
  BY <1>12 DEF RunNow, RunsDoNotOverlap, Active, SchedTypeOK, Run, NoRun
<1>13. ASSUME NEW t \in Tasks, RunNowDone(t) PROVE RunsDoNotOverlap'
  BY <1>13 DEF RunNowDone, Write, RunsDoNotOverlap, Active, SchedTypeOK, Run, NoRun
<1>14. ASSUME Refresh PROVE RunsDoNotOverlap'
  BY <1>14 DEF Refresh, RunsDoNotOverlap, Active, SchedTypeOK, Run, NoRun
<1>15. ASSUME Tick PROVE RunsDoNotOverlap'
  BY <1>15 DEF Tick, Older, RunsDoNotOverlap, Active, SchedTypeOK, Run, NoRun
<1>16. ASSUME NEW t \in Tasks, UpdateHandler(t) PROVE RunsDoNotOverlap'
  BY <1>16 DEF UpdateHandler, Redefine, Write, InRun, RunsDoNotOverlap, Active, SchedTypeOK, Run, NoRun
<1>17. CASE UNCHANGED schedVars
  BY <1>17 DEF schedVars, SchedTypeOK, FreshIsDue, LeaseHolds, RunsDoNotOverlap,
    KindMatches, StaysScheduled, OnceIsSpent, OnceFiresOnce, Due, Active
<1> QED
  BY <1>1, <1>2, <1>3, <1>4, <1>5, <1>6, <1>7, <1>8,
     <1>9, <1>10, <1>11, <1>12, <1>13, <1>14, <1>15, <1>16, <1>17
  DEF SchedNext, LoopStep, OperatorStep

(* What a claim changes ...                                                *)
LEMMA ClaimEffect ==
  ASSUME SchedTypeOK, NEW k \in Kernels, NEW t \in Tasks, Claim(k, t)
  PROVE  /\ UNCHANGED <<fired, wish, spoiled, lost>>
         /\ \A q \in Kernels, u \in Tasks :
              q # k \/ u # t => run'[q][u] = run[q][u]
         /\ \A u \in Tasks \ {t} : task'[u] = task[u]
         /\ task'[t].here = task[t].here /\ task'[t].kind = task[t].kind
         /\ task'[t].enabled = task[t].enabled
         /\ \/ task'[t] = task[t] /\ run'[k][t] = run[k][t]
            \/ /\ t \in fresh[k] /\ task'[t].due = Lease
               /\ run'[k][t].pc = "claimed" /\ run'[k][t].kind = task[t].kind
<1>1. CASE ~Unwritten(k, t)
  BY <1>1 DEF Claim
<1>2. CASE Unwritten(k, t)
  <2>1. /\ task' = [task EXCEPT ![t] = [task[t] EXCEPT !.due = Lease]]
        /\ run' = [run EXCEPT ![k][t] = Claimed(t)]
        /\ UNCHANGED <<fired, wish, spoiled, lost>>
    BY <1>2 DEF Claim, Write, Advanced
  <2>2. Claimed(t).pc = "claimed" /\ Claimed(t).kind = task[t].kind
    BY DEF Claimed, NoRun
  <2>3. task[t] \in Task /\ t \in fresh[k]
    BY <1>2 DEF SchedTypeOK, Unwritten
  <2>4. /\ task'[t].here = task[t].here /\ task'[t].kind = task[t].kind
        /\ task'[t].enabled = task[t].enabled /\ task'[t].due = Lease
    BY <2>1, <2>3 DEF SchedTypeOK, Task
  <2> QED
    BY <2>1, <2>2, <2>3, <2>4 DEF SchedTypeOK
<1> QED
  BY <1>1, <1>2

(* ... and what the end of a run does.                                     *)
LEMMA FinishEffect ==
  ASSUME SchedTypeOK, NEW k \in Kernels, NEW t \in Tasks, Finish(k, t)
  PROVE  /\ UNCHANGED <<fired, wish, spoiled, lost>>
         /\ run[k][t].pc = "called" /\ run'[k][t].pc = "none"
         /\ \A q \in Kernels, u \in Tasks :
              q # k \/ u # t => run'[q][u] = run[q][u]
         /\ \A u \in Tasks \ {t} : task'[u] = task[u]
         /\ task'[t].here = task[t].here /\ task'[t].kind = task[t].kind
         /\ task[t].here /\ run[k][t].kind = "interval" =>
              task'[t].due = Interval /\ task'[t].enabled = task[t].enabled
         /\ task[t].here /\ run[k][t].kind \in {"once", "halting"} =>
              task'[t].due = Never
<1>1. /\ run' = [run EXCEPT ![k][t] = NoRun] /\ NoRun.pc = "none"
      /\ run[k][t].pc = "called" /\ UNCHANGED <<fired, wish, spoiled, lost>>
  BY DEF Finish, NoRun
<1>2. task[t] \in Task /\ run[k][t].kind \in Kinds
  BY DEF SchedTypeOK, Run
<1>3. CASE ~task[t].here
  <2>1. task' = task
    BY <1>3 DEF Finish
  <2> QED
    BY <1>1, <1>3, <2>1 DEF SchedTypeOK
<1>4. CASE task[t].here
  <2>1. task' = [task EXCEPT ![t] = Recorded(task[t], run[k][t].kind)]
    BY <1>4 DEF Finish, Write
  <2>2. CASE run[k][t].kind = "once"
    BY <1>1, <1>2, <1>4, <2>1, <2>2 DEF Recorded, SchedTypeOK, Task
  <2>3. CASE run[k][t].kind = "interval"
    BY <1>1, <1>2, <1>4, <2>1, <2>3 DEF Recorded, SchedTypeOK, Task
  <2>4. CASE run[k][t].kind = "halting"
    BY <1>1, <1>2, <1>4, <2>1, <2>4 DEF Recorded, SchedTypeOK, Task
  <2>5. CASE run[k][t].kind = "broken"
    BY <1>1, <1>2, <1>4, <2>1, <2>5 DEF Recorded, SchedTypeOK, Task
  <2> QED
    BY <1>2, <2>2, <2>3, <2>4, <2>5 DEF Kinds
<1> QED
  BY <1>3, <1>4

(* A claim takes the schedule along, and a new schedule spoils the run.    *)
LEMMA KindsKept == SchedInv /\ [SchedNext]_schedVars => KindMatches'
<1> SUFFICES ASSUME SchedInv, [SchedNext]_schedVars PROVE KindMatches'
  OBVIOUS
<1> USE SchedAssumption DEF SchedInv
<1>1. ASSUME NEW k \in Kernels, Search(k) PROVE KindMatches'
  BY <1>1 DEF Search, Asleep, KindMatches, FreshIsDue, Due, Active, SchedTypeOK, Run,
    Task, NoRun
<1>2. ASSUME NEW k \in Kernels, NEW t \in Tasks, Claim(k, t)
      PROVE KindMatches'
  BY <1>2, ClaimEffect DEF KindMatches, FreshIsDue, Due, Active, SchedTypeOK
<1>3. ASSUME NEW k \in Kernels, NEW t \in Tasks, ClaimUnanswered(k, t)
      PROVE KindMatches'
  BY <1>3 DEF ClaimUnanswered, Write, Left, Advanced, KindMatches, FreshIsDue, Due, Active, SchedTypeOK, Run,
    Task, NoRun
<1>4. ASSUME NEW k \in Kernels, Gather(k) PROVE KindMatches'
  BY <1>4 DEF Gather, Started, KindMatches, FreshIsDue, Due, Active, SchedTypeOK, Run,
    Task, NoRun
<1>5. ASSUME NEW k \in Kernels, NEW t \in Tasks, Finish(k, t)
      PROVE KindMatches'
  BY <1>5, FinishEffect DEF KindMatches, FreshIsDue, Due, Active, SchedTypeOK
<1>6. ASSUME NEW k \in Kernels, NEW t \in Tasks, FinishUnrecorded(k, t)
      PROVE KindMatches'
  BY <1>6 DEF FinishUnrecorded, NoRun, KindMatches, FreshIsDue, Due, Active, SchedTypeOK, Run,
    Task, NoRun
<1>7. ASSUME NEW k \in Kernels, CrashReplica(k) PROVE KindMatches'
  BY <1>7 DEF CrashReplica, NoRun, KindMatches, FreshIsDue, Due, Active, SchedTypeOK, Run,
    Task, NoRun
<1>8. ASSUME NEW t \in Tasks, NEW kind \in Kinds, NEW on \in BOOLEAN,
             CreateTask(t, kind, on)
      PROVE KindMatches'
  BY <1>8 DEF CreateTask, Redefine, Write, InRun, FirstDue, KindMatches, FreshIsDue, Due, Active, SchedTypeOK, Run,
    Task, NoRun
<1>9. ASSUME NEW t \in Tasks, NEW kind \in Kinds, UpdateSchedule(t, kind)
      PROVE KindMatches'
  BY <1>9 DEF UpdateSchedule, Redefine, Write, InRun, FirstDue, KindMatches, FreshIsDue, Due, Active, SchedTypeOK, Run,
    Task, NoRun
<1>10. ASSUME NEW t \in Tasks, NEW on \in BOOLEAN, UpdateEnabled(t, on)
      PROVE KindMatches'
  BY <1>10 DEF UpdateEnabled, Write, KindMatches, FreshIsDue, Due, Active, SchedTypeOK, Run,
    Task, NoRun
<1>11. ASSUME NEW t \in Tasks, DeleteTask(t) PROVE KindMatches'
  BY <1>11 DEF DeleteTask, Redefine, Write, InRun, NoTask, KindMatches, FreshIsDue, Due, Active, SchedTypeOK, Run,
    Task, NoRun
<1>12. ASSUME NEW t \in Tasks, RunNow(t) PROVE KindMatches'
  BY <1>12 DEF RunNow, KindMatches, FreshIsDue, Due, Active, SchedTypeOK, Run,
    Task, NoRun
<1>13. ASSUME NEW t \in Tasks, RunNowDone(t) PROVE KindMatches'
  BY <1>13 DEF RunNowDone, Write, KindMatches, FreshIsDue, Due, Active, SchedTypeOK, Run,
    Task, NoRun
<1>14. ASSUME Refresh PROVE KindMatches'
  BY <1>14 DEF Refresh, KindMatches, FreshIsDue, Due, Active, SchedTypeOK, Run,
    Task, NoRun
<1>15. ASSUME Tick PROVE KindMatches'
  BY <1>15 DEF Tick, Older, KindMatches, FreshIsDue, Due, Active, SchedTypeOK, Run,
    Task, NoRun
<1>16. ASSUME NEW t \in Tasks, UpdateHandler(t) PROVE KindMatches'
  BY <1>16 DEF UpdateHandler, Redefine, Write, InRun, KindMatches, FreshIsDue, Due, Active, SchedTypeOK, Run,
    Task, NoRun
<1>17. CASE UNCHANGED schedVars
  BY <1>17 DEF schedVars, SchedTypeOK, FreshIsDue, LeaseHolds, RunsDoNotOverlap,
    KindMatches, StaysScheduled, OnceIsSpent, OnceFiresOnce, Due, Active
<1> QED
  BY <1>1, <1>2, <1>3, <1>4, <1>5, <1>6, <1>7, <1>8,
     <1>9, <1>10, <1>11, <1>12, <1>13, <1>14, <1>15, <1>16, <1>17
  DEF SchedNext, LoopStep, OperatorStep

(* A run of an interval reschedules it and leaves it enabled.              *)
LEMMA SchedulesKept == SchedInv /\ [SchedNext]_schedVars => StaysScheduled'
<1> SUFFICES ASSUME SchedInv, [SchedNext]_schedVars PROVE StaysScheduled'
  OBVIOUS
<1> USE SchedAssumption DEF SchedInv
<1>1. ASSUME NEW k \in Kernels, Search(k) PROVE StaysScheduled'
  BY <1>1 DEF Search, Asleep, StaysScheduled, KindMatches, Active, SchedTypeOK, Run,
    Task, Kinds
<1>2. ASSUME NEW k \in Kernels, NEW t \in Tasks, Claim(k, t)
      PROVE StaysScheduled'
  BY <1>2, ClaimEffect DEF StaysScheduled, KindMatches, Active
<1>3. ASSUME NEW k \in Kernels, NEW t \in Tasks, ClaimUnanswered(k, t)
      PROVE StaysScheduled'
  BY <1>3 DEF ClaimUnanswered, Write, Left, Advanced, StaysScheduled, KindMatches, Active, SchedTypeOK, Run,
    Task, Kinds
<1>4. ASSUME NEW k \in Kernels, Gather(k) PROVE StaysScheduled'
  BY <1>4 DEF Gather, Started, StaysScheduled, KindMatches, Active, SchedTypeOK, Run,
    Task, Kinds
<1>5. ASSUME NEW k \in Kernels, NEW t \in Tasks, Finish(k, t)
      PROVE StaysScheduled'
  BY <1>5, FinishEffect DEF StaysScheduled, KindMatches, Active
<1>6. ASSUME NEW k \in Kernels, NEW t \in Tasks, FinishUnrecorded(k, t)
      PROVE StaysScheduled'
  BY <1>6 DEF FinishUnrecorded, NoRun, StaysScheduled, KindMatches, Active, SchedTypeOK, Run,
    Task, Kinds
<1>7. ASSUME NEW k \in Kernels, CrashReplica(k) PROVE StaysScheduled'
  BY <1>7 DEF CrashReplica, NoRun, StaysScheduled, KindMatches, Active, SchedTypeOK, Run,
    Task, Kinds
<1>8. ASSUME NEW t \in Tasks, NEW kind \in Kinds, NEW on \in BOOLEAN,
             CreateTask(t, kind, on)
      PROVE StaysScheduled'
  BY <1>8 DEF CreateTask, Redefine, Write, InRun, FirstDue, StaysScheduled, KindMatches, Active, SchedTypeOK, Run,
    Task, Kinds
<1>9. ASSUME NEW t \in Tasks, NEW kind \in Kinds, UpdateSchedule(t, kind)
      PROVE StaysScheduled'
  BY <1>9 DEF UpdateSchedule, Redefine, Write, InRun, FirstDue, StaysScheduled, KindMatches, Active, SchedTypeOK, Run,
    Task, Kinds
<1>10. ASSUME NEW t \in Tasks, NEW on \in BOOLEAN, UpdateEnabled(t, on)
      PROVE StaysScheduled'
  BY <1>10 DEF UpdateEnabled, Write, StaysScheduled, KindMatches, Active, SchedTypeOK, Run,
    Task, Kinds
<1>11. ASSUME NEW t \in Tasks, DeleteTask(t) PROVE StaysScheduled'
  BY <1>11 DEF DeleteTask, Redefine, Write, InRun, NoTask, StaysScheduled, KindMatches, Active, SchedTypeOK, Run,
    Task, Kinds
<1>12. ASSUME NEW t \in Tasks, RunNow(t) PROVE StaysScheduled'
  BY <1>12 DEF RunNow, StaysScheduled, KindMatches, Active, SchedTypeOK, Run,
    Task, Kinds
<1>13. ASSUME NEW t \in Tasks, RunNowDone(t) PROVE StaysScheduled'
  BY <1>13 DEF RunNowDone, Write, StaysScheduled, KindMatches, Active, SchedTypeOK, Run,
    Task, Kinds
<1>14. ASSUME Refresh PROVE StaysScheduled'
  BY <1>14 DEF Refresh, StaysScheduled, KindMatches, Active, SchedTypeOK, Run,
    Task, Kinds
<1>15. ASSUME Tick PROVE StaysScheduled'
  <2>1. ASSUME NEW t \in Tasks
        PROVE /\ task'[t].here = task[t].here /\ task'[t].kind = task[t].kind
              /\ task'[t].enabled = task[t].enabled
    <3>1. task[t] \in Task
      BY DEF SchedTypeOK
    <3>2. task'[t] = task[t] \/ task'[t] = [task[t] EXCEPT !.due = @ - 1]
      BY <1>15 DEF Tick
    <3> QED
      BY <3>1, <3>2 DEF Task
  <2>2. ASSUME NEW t \in Tasks, task[t].due # Never
        PROVE task'[t].due # Never
    <3>1. task[t].due \in Nat /\ task[t] \in Task
      BY <2>2 DEF SchedTypeOK, Task
    <3>2. CASE task[t].due = 0
      BY <1>15, <2>2, <3>2 DEF Tick
    <3>3. CASE task[t].due # 0
      <4>1. task'[t] = [task[t] EXCEPT !.due = @ - 1]
        BY <1>15, <2>2, <3>3 DEF Tick
      <4>2. task'[t].due = task[t].due - 1 /\ task[t].due - 1 \in Nat
        BY <3>1, <3>3, <4>1 DEF Task
      <4> QED
        BY <4>2
    <3> QED
      BY <3>2, <3>3
  <2>3. UNCHANGED wish /\ spoiled \subseteq spoiled'
    BY <1>15 DEF Tick
  <2>4. ASSUME NEW t \in Tasks \ spoiled', task'[t].here, task'[t].kind = "interval"
        PROVE task'[t].enabled = wish'[t] /\ task'[t].due # Never
    <3>1. t \in Tasks \ spoiled /\ task[t].here /\ task[t].kind = "interval"
      BY <2>1, <2>3, <2>4
    <3>2. task[t].enabled = wish[t] /\ task[t].due # Never
      BY <3>1 DEF StaysScheduled
    <3> QED
      BY <2>1, <2>2, <2>3, <3>1, <3>2
  <2> QED
    BY <2>4 DEF StaysScheduled
<1>16. ASSUME NEW t \in Tasks, UpdateHandler(t) PROVE StaysScheduled'
  BY <1>16 DEF UpdateHandler, Redefine, Write, InRun, StaysScheduled, KindMatches, Active, SchedTypeOK, Run,
    Task, Kinds
<1>17. CASE UNCHANGED schedVars
  BY <1>17 DEF schedVars, SchedTypeOK, FreshIsDue, LeaseHolds, RunsDoNotOverlap,
    KindMatches, StaysScheduled, OnceIsSpent, OnceFiresOnce, Due, Active
<1> QED
  BY <1>1, <1>2, <1>3, <1>4, <1>5, <1>6, <1>7, <1>8,
     <1>9, <1>10, <1>11, <1>12, <1>13, <1>14, <1>15, <1>16, <1>17
  DEF SchedNext, LoopStep, OperatorStep

(* A once that fired does not come due again.                              *)
LEMMA SpentKept == SchedInv /\ [SchedNext]_schedVars => OnceIsSpent'
<1> SUFFICES ASSUME SchedInv, [SchedNext]_schedVars PROVE OnceIsSpent'
  OBVIOUS
<1> USE SchedAssumption DEF SchedInv
<1>1. ASSUME NEW k \in Kernels, Search(k) PROVE OnceIsSpent'
  BY <1>1 DEF Search, Asleep, OnceIsSpent, KindMatches, LeaseHolds, FreshIsDue, Due,
    Active, SchedTypeOK, Run, Task, NoRun
<1>2. ASSUME NEW k \in Kernels, NEW t \in Tasks, Claim(k, t)
      PROVE OnceIsSpent'
  <2> SUFFICES ASSUME NEW u \in Tasks \ (spoiled \cup lost),
                      task[u].here, task[u].kind \in {"once", "halting"}
               PROVE /\ \A q \in Kernels : run'[q][u].pc = "claimed" => fired[u] = 0
                     /\ fired[u] > 0 => \/ task'[u].due = Never
                                       \/ \E q \in Kernels : run'[q][u].pc = "called"
    BY <1>2, ClaimEffect DEF OnceIsSpent
  <2>1. CASE u # t \/ (task'[t] = task[t] /\ run'[k][t] = run[k][t])
    BY <1>2, <2>1, ClaimEffect DEF OnceIsSpent
  <2>2. CASE u = t /\ t \in fresh[k]
    <3>1. task[t].due = 0
      BY <2>2 DEF FreshIsDue, Due
    <3>2. \A q \in Kernels : ~Active(q, t)
      <4>1. \A q \in Kernels : run[q][t].age \in 0..Lease
        BY DEF SchedTypeOK, Run
      <4> QED
        BY <2>2, <3>1, <4>1 DEF LeaseHolds
    <3>3. ~(fired[t] > 0)
      BY <2>2, <3>1, <3>2 DEF OnceIsSpent, Active
    <3>4. fired[t] = 0
      BY <3>3 DEF SchedTypeOK
    <3> QED
      BY <2>2, <3>4
  <2>3. (task'[t] = task[t] /\ run'[k][t] = run[k][t]) \/ t \in fresh[k]
    BY <1>2, ClaimEffect
  <2> QED
    BY <2>1, <2>2, <2>3
<1>3. ASSUME NEW k \in Kernels, NEW t \in Tasks, ClaimUnanswered(k, t)
      PROVE OnceIsSpent'
  BY <1>3 DEF ClaimUnanswered, Write, Left, Advanced, OnceIsSpent, KindMatches, LeaseHolds, FreshIsDue, Due,
    Active, SchedTypeOK, Run, Task, NoRun
<1>4. ASSUME NEW k \in Kernels, Gather(k) PROVE OnceIsSpent'
  <2>1. \A q \in Kernels, u \in Tasks :
          run'[q][u].pc = IF q = k /\ u \in Started(k) THEN "called" ELSE run[q][u].pc
    BY <1>4 DEF Gather, SchedTypeOK, Run
  <2>2. UNCHANGED <<task, spoiled, lost>>
    BY <1>4 DEF Gather
  <2>3. \A u \in Tasks : u \notin Started(k) => fired'[u] = fired[u]
    BY <1>4 DEF Gather
  <2>4. ASSUME NEW u \in Tasks \ (spoiled \cup lost), u \in Started(k)
        PROVE \A q \in Kernels : run'[q][u].pc # "claimed"
    BY <2>1, <2>4 DEF RunsDoNotOverlap, Active, Started
  <2> QED
    BY <2>1, <2>2, <2>3, <2>4 DEF OnceIsSpent
<1>5. ASSUME NEW k \in Kernels, NEW t \in Tasks, Finish(k, t)
      PROVE OnceIsSpent'
  <2>1. \A q \in Kernels : Active(q, t) /\ t \notin spoiled => q = k
    BY <1>5, FinishEffect DEF RunsDoNotOverlap, Active
  <2>2. \A u \in Tasks : task'[u].here = task[u].here /\ task'[u].kind = task[u].kind
    BY <1>5, FinishEffect
  <2>3. t \notin spoiled /\ task[t].here /\ task[t].kind \in {"once", "halting"} => task'[t].due = Never
    BY <1>5, FinishEffect DEF KindMatches, Active
  <2> QED
    BY <1>5, <2>2, <2>3, FinishEffect DEF OnceIsSpent
<1>6. ASSUME NEW k \in Kernels, NEW t \in Tasks, FinishUnrecorded(k, t)
      PROVE OnceIsSpent'
  BY <1>6 DEF FinishUnrecorded, NoRun, OnceIsSpent, KindMatches, LeaseHolds, FreshIsDue, Due,
    Active, SchedTypeOK, Run, Task, NoRun
<1>7. ASSUME NEW k \in Kernels, CrashReplica(k) PROVE OnceIsSpent'
  BY <1>7 DEF CrashReplica, NoRun, OnceIsSpent, KindMatches, LeaseHolds, FreshIsDue, Due,
    Active, SchedTypeOK, Run, Task, NoRun
<1>8. ASSUME NEW t \in Tasks, NEW kind \in Kinds, NEW on \in BOOLEAN,
             CreateTask(t, kind, on)
      PROVE OnceIsSpent'
  BY <1>8 DEF CreateTask, Redefine, Write, InRun, FirstDue, OnceIsSpent, KindMatches, LeaseHolds, FreshIsDue, Due,
    Active, SchedTypeOK, Run, Task, NoRun
<1>9. ASSUME NEW t \in Tasks, NEW kind \in Kinds, UpdateSchedule(t, kind)
      PROVE OnceIsSpent'
  BY <1>9 DEF UpdateSchedule, Redefine, Write, InRun, FirstDue, OnceIsSpent, KindMatches, LeaseHolds, FreshIsDue, Due,
    Active, SchedTypeOK, Run, Task, NoRun
<1>10. ASSUME NEW t \in Tasks, NEW on \in BOOLEAN, UpdateEnabled(t, on)
      PROVE OnceIsSpent'
  BY <1>10 DEF UpdateEnabled, Write, OnceIsSpent, KindMatches, LeaseHolds, FreshIsDue, Due,
    Active, SchedTypeOK, Run, Task, NoRun
<1>11. ASSUME NEW t \in Tasks, DeleteTask(t) PROVE OnceIsSpent'
  BY <1>11 DEF DeleteTask, Redefine, Write, InRun, NoTask, OnceIsSpent, KindMatches, LeaseHolds, FreshIsDue, Due,
    Active, SchedTypeOK, Run, Task, NoRun
<1>12. ASSUME NEW t \in Tasks, RunNow(t) PROVE OnceIsSpent'
  BY <1>12 DEF RunNow, OnceIsSpent, KindMatches, LeaseHolds, FreshIsDue, Due,
    Active, SchedTypeOK, Run, Task, NoRun
<1>13. ASSUME NEW t \in Tasks, RunNowDone(t) PROVE OnceIsSpent'
  BY <1>13 DEF RunNowDone, Write, OnceIsSpent, KindMatches, LeaseHolds, FreshIsDue, Due,
    Active, SchedTypeOK, Run, Task, NoRun
<1>14. ASSUME Refresh PROVE OnceIsSpent'
  BY <1>14 DEF Refresh, OnceIsSpent, KindMatches, LeaseHolds, FreshIsDue, Due,
    Active, SchedTypeOK, Run, Task, NoRun
<1>15. ASSUME Tick PROVE OnceIsSpent'
  <2>1. \A k \in Kernels, t \in Tasks : run'[k][t].pc = run[k][t].pc
    <3>1. \A k \in Kernels, t \in Tasks : run[k][t] \in Run
      BY DEF SchedTypeOK
    <3> QED
      BY <1>15, <3>1 DEF Tick, Older, Run
  <2>2. ASSUME NEW t \in Tasks
        PROVE /\ task'[t].here = task[t].here
              /\ task'[t].kind = task[t].kind
              /\ task[t].due = Never => task'[t].due = Never
    BY <1>15 DEF Tick, SchedTypeOK, Task
  <2>3. fired' = fired /\ lost' = lost /\ spoiled \subseteq spoiled'
    BY <1>15 DEF Tick
  <2>4. ASSUME NEW t \in Tasks \ (spoiled' \cup lost'),
               task'[t].here, task'[t].kind \in {"once", "halting"}
        PROVE /\ \A k \in Kernels : run'[k][t].pc = "claimed" => fired'[t] = 0
              /\ fired'[t] > 0 => \/ task'[t].due = Never
                                 \/ \E k \in Kernels : run'[k][t].pc = "called"
    <3>1. t \in Tasks \ (spoiled \cup lost) /\ task[t].here /\ task[t].kind \in {"once", "halting"}
      BY <2>2, <2>3, <2>4
    <3>2. /\ \A k \in Kernels : run[k][t].pc = "claimed" => fired[t] = 0
          /\ fired[t] > 0 => \/ task[t].due = Never
                            \/ \E k \in Kernels : run[k][t].pc = "called"
      BY <3>1 DEF OnceIsSpent
    <3> QED
      BY <2>1, <2>2, <2>3, <3>2
  <2> QED
    BY <2>4 DEF OnceIsSpent
<1>16. ASSUME NEW t \in Tasks, UpdateHandler(t) PROVE OnceIsSpent'
  BY <1>16 DEF UpdateHandler, Redefine, Write, InRun, OnceIsSpent, KindMatches, LeaseHolds, FreshIsDue, Due,
    Active, SchedTypeOK, Run, Task, NoRun
<1>17. CASE UNCHANGED schedVars
  BY <1>17 DEF schedVars, SchedTypeOK, FreshIsDue, LeaseHolds, RunsDoNotOverlap,
    KindMatches, StaysScheduled, OnceIsSpent, OnceFiresOnce, Due, Active
<1> QED
  BY <1>1, <1>2, <1>3, <1>4, <1>5, <1>6, <1>7, <1>8,
     <1>9, <1>10, <1>11, <1>12, <1>13, <1>14, <1>15, <1>16, <1>17
  DEF SchedNext, LoopStep, OperatorStep

(* Only a once that has not fired is called.                               *)
LEMMA OncesKept == SchedInv /\ [SchedNext]_schedVars => OnceFiresOnce'
<1> SUFFICES ASSUME SchedInv, [SchedNext]_schedVars PROVE OnceFiresOnce'
  OBVIOUS
<1> USE SchedAssumption DEF SchedInv
<1>1. ASSUME NEW k \in Kernels, Search(k) PROVE OnceFiresOnce'
  BY <1>1 DEF Search, Asleep, OnceFiresOnce, OnceIsSpent, SchedTypeOK, Task, NoTask
<1>2. ASSUME NEW k \in Kernels, NEW t \in Tasks, Claim(k, t)
      PROVE OnceFiresOnce'
  BY <1>2, ClaimEffect DEF OnceFiresOnce
<1>3. ASSUME NEW k \in Kernels, NEW t \in Tasks, ClaimUnanswered(k, t)
      PROVE OnceFiresOnce'
  BY <1>3 DEF ClaimUnanswered, Write, Left, Advanced, OnceFiresOnce, OnceIsSpent, SchedTypeOK, Task, NoTask
<1>4. ASSUME NEW k \in Kernels, Gather(k) PROVE OnceFiresOnce'
  BY <1>4 DEF Gather, Started, OnceFiresOnce, OnceIsSpent, SchedTypeOK, Task, NoTask
<1>5. ASSUME NEW k \in Kernels, NEW t \in Tasks, Finish(k, t)
      PROVE OnceFiresOnce'
  BY <1>5, FinishEffect DEF OnceFiresOnce
<1>6. ASSUME NEW k \in Kernels, NEW t \in Tasks, FinishUnrecorded(k, t)
      PROVE OnceFiresOnce'
  BY <1>6 DEF FinishUnrecorded, NoRun, OnceFiresOnce, OnceIsSpent, SchedTypeOK, Task, NoTask
<1>7. ASSUME NEW k \in Kernels, CrashReplica(k) PROVE OnceFiresOnce'
  BY <1>7 DEF CrashReplica, NoRun, OnceFiresOnce, OnceIsSpent, SchedTypeOK, Task, NoTask
<1>8. ASSUME NEW t \in Tasks, NEW kind \in Kinds, NEW on \in BOOLEAN,
             CreateTask(t, kind, on)
      PROVE OnceFiresOnce'
  BY <1>8 DEF CreateTask, Redefine, Write, InRun, FirstDue, OnceFiresOnce, OnceIsSpent, SchedTypeOK, Task, NoTask
<1>9. ASSUME NEW t \in Tasks, NEW kind \in Kinds, UpdateSchedule(t, kind)
      PROVE OnceFiresOnce'
  BY <1>9 DEF UpdateSchedule, Redefine, Write, InRun, FirstDue, OnceFiresOnce, OnceIsSpent, SchedTypeOK, Task, NoTask
<1>10. ASSUME NEW t \in Tasks, NEW on \in BOOLEAN, UpdateEnabled(t, on)
      PROVE OnceFiresOnce'
  BY <1>10 DEF UpdateEnabled, Write, OnceFiresOnce, OnceIsSpent, SchedTypeOK, Task, NoTask
<1>11. ASSUME NEW t \in Tasks, DeleteTask(t) PROVE OnceFiresOnce'
  BY <1>11 DEF DeleteTask, Redefine, Write, InRun, NoTask, OnceFiresOnce, OnceIsSpent, SchedTypeOK, Task, NoTask
<1>12. ASSUME NEW t \in Tasks, RunNow(t) PROVE OnceFiresOnce'
  BY <1>12 DEF RunNow, OnceFiresOnce, OnceIsSpent, SchedTypeOK, Task, NoTask
<1>13. ASSUME NEW t \in Tasks, RunNowDone(t) PROVE OnceFiresOnce'
  BY <1>13 DEF RunNowDone, Write, OnceFiresOnce, OnceIsSpent, SchedTypeOK, Task, NoTask
<1>14. ASSUME Refresh PROVE OnceFiresOnce'
  BY <1>14 DEF Refresh, OnceFiresOnce, OnceIsSpent, SchedTypeOK, Task, NoTask
<1>15. ASSUME Tick PROVE OnceFiresOnce'
  BY <1>15 DEF Tick, Older, OnceFiresOnce, OnceIsSpent, SchedTypeOK, Task, NoTask
<1>16. ASSUME NEW t \in Tasks, UpdateHandler(t) PROVE OnceFiresOnce'
  BY <1>16 DEF UpdateHandler, Redefine, Write, InRun, OnceFiresOnce, OnceIsSpent, SchedTypeOK, Task, NoTask
<1>17. CASE UNCHANGED schedVars
  BY <1>17 DEF schedVars, SchedTypeOK, FreshIsDue, LeaseHolds, RunsDoNotOverlap,
    KindMatches, StaysScheduled, OnceIsSpent, OnceFiresOnce, Due, Active
<1> QED
  BY <1>1, <1>2, <1>3, <1>4, <1>5, <1>6, <1>7, <1>8,
     <1>9, <1>10, <1>11, <1>12, <1>13, <1>14, <1>15, <1>16, <1>17
  DEF SchedNext, LoopStep, OperatorStep

ClaimsDue ==
  \A k \in Kernels, t \in Tasks : ~Active(k, t) /\ Active(k, t)' => Due(t)

(* A run begins with a claim, and a claim that succeeds is of a due task.  *)
LEMMA ClaimsCurrent == SchedInv /\ [SchedNext]_schedVars => ClaimsDue
<1> SUFFICES ASSUME SchedInv, [SchedNext]_schedVars PROVE ClaimsDue
  OBVIOUS
<1> USE SchedAssumption DEF SchedInv, ClaimsDue
<1>1. ASSUME NEW k \in Kernels, Search(k) PROVE ClaimsDue
  BY <1>1 DEF Search, Active
<1>2. ASSUME NEW k \in Kernels, NEW t \in Tasks, Claim(k, t)
      PROVE ClaimsDue
  <2>1. CASE ~Unwritten(k, t)
    BY <1>2, <2>1 DEF Claim, Active
  <2>2. CASE Unwritten(k, t)
    <3>1. Due(t)
      BY <1>2, <2>2 DEF Unwritten, FreshIsDue
    <3>2. \A q \in Kernels, u \in Tasks : q # k \/ u # t => run'[q][u] = run[q][u]
      BY <1>2, <2>2 DEF Claim, SchedTypeOK
    <3> QED
      BY <3>1, <3>2 DEF Active
  <2> QED
    BY <2>1, <2>2
<1>3. ASSUME NEW k \in Kernels, NEW t \in Tasks, ClaimUnanswered(k, t)
      PROVE ClaimsDue
  BY <1>3 DEF ClaimUnanswered, Active
<1>4. ASSUME NEW k \in Kernels, Gather(k) PROVE ClaimsDue
  BY <1>4 DEF Gather, Active, Started, SchedTypeOK, Run
<1>5. ASSUME NEW k \in Kernels, NEW t \in Tasks, Finish(k, t)
      PROVE ClaimsDue
  BY <1>5 DEF Finish, Active, NoRun, SchedTypeOK
<1>6. ASSUME NEW k \in Kernels, NEW t \in Tasks, FinishUnrecorded(k, t)
      PROVE ClaimsDue
  BY <1>6 DEF FinishUnrecorded, Active, NoRun, SchedTypeOK
<1>7. ASSUME NEW k \in Kernels, CrashReplica(k) PROVE ClaimsDue
  BY <1>7 DEF CrashReplica, Active, NoRun, SchedTypeOK
<1>8. ASSUME NEW t \in Tasks, NEW kind \in Kinds, NEW on \in BOOLEAN,
             CreateTask(t, kind, on)
      PROVE ClaimsDue
  BY <1>8 DEF CreateTask, Active, Redefine
<1>9. ASSUME NEW t \in Tasks, NEW kind \in Kinds, UpdateSchedule(t, kind)
      PROVE ClaimsDue
  BY <1>9 DEF UpdateSchedule, Active, Redefine
<1>10. ASSUME NEW t \in Tasks, NEW on \in BOOLEAN, UpdateEnabled(t, on)
      PROVE ClaimsDue
  BY <1>10 DEF UpdateEnabled, Active
<1>11. ASSUME NEW t \in Tasks, DeleteTask(t) PROVE ClaimsDue
  BY <1>11 DEF DeleteTask, Active, Redefine
<1>12. ASSUME NEW t \in Tasks, RunNow(t) PROVE ClaimsDue
  BY <1>12 DEF RunNow, Active
<1>13. ASSUME NEW t \in Tasks, RunNowDone(t) PROVE ClaimsDue
  BY <1>13 DEF RunNowDone, Active
<1>14. ASSUME Refresh PROVE ClaimsDue
  BY <1>14 DEF Refresh, Active
<1>15. ASSUME Tick PROVE ClaimsDue
  BY <1>15 DEF Tick, Active, Older, SchedTypeOK, Run
<1>16. ASSUME NEW t \in Tasks, UpdateHandler(t) PROVE ClaimsDue
  BY <1>16 DEF UpdateHandler, Active, Redefine
<1>17. CASE UNCHANGED schedVars
  BY <1>17 DEF schedVars, SchedTypeOK, FreshIsDue, LeaseHolds, RunsDoNotOverlap,
    KindMatches, StaysScheduled, OnceIsSpent, OnceFiresOnce, Due, Active
<1> QED
  BY <1>1, <1>2, <1>3, <1>4, <1>5, <1>6, <1>7, <1>8,
     <1>9, <1>10, <1>11, <1>12, <1>13, <1>14, <1>15, <1>16, <1>17
  DEF SchedNext, LoopStep, OperatorStep

(* Together: the invariant is inductive.                                   *)
LEMMA SchedInvKept == SchedInv /\ [SchedNext]_schedVars => SchedInv'
  BY SchedTypesKept, FreshKept, LeasesKept, OverlapKept, KindsKept,
     SchedulesKept, SpentKept, OncesKept DEF SchedInv

(* The state stays in its types.                                           *)
THEOREM SchedTypeCorrect == SchedSpec => []SchedTypeOK
<1>1. SchedInv => SchedTypeOK
  BY DEF SchedInv
<1> QED
  BY <1>1, SchedInitInv, SchedInvKept, PTL DEF SchedSpec

(* Advancing next_run_at keeps the other replicas out for the lease, with  *)
(* any number of replicas, crashes and lost replies.                       *)
THEOREM NoOverlap == SchedSpec => []RunsDoNotOverlap
<1>1. SchedInv => RunsDoNotOverlap
  BY DEF SchedInv
<1> QED
  BY <1>1, SchedInitInv, SchedInvKept, PTL DEF SchedSpec

(* No claim, crash or result written over it takes a recurring task whose  *)
(* interval can be computed off the schedule or disables it.               *)
THEOREM StaysOnSchedule == SchedSpec => []StaysScheduled
<1>1. SchedInv => StaysScheduled
  BY DEF SchedInv
<1> QED
  BY <1>1, SchedInitInv, SchedInvKept, PTL DEF SchedSpec

(* The handler of a once, of a cron and of a schedule that cannot be       *)
(* computed is called once, but for overruns, crashes and results that     *)
(* could not be recorded.                                                  *)
THEOREM OnceIsOnce == SchedSpec => []OnceFiresOnce
<1>1. SchedInv => OnceFiresOnce
  BY DEF SchedInv
<1> QED
  BY <1>1, SchedInitInv, SchedInvKept, PTL DEF SchedSpec

(* However old the search of a replica is, the task it claims is due and   *)
(* enabled at that moment.                                                 *)
THEOREM ClaimsAreCurrent == SchedSpec => ClaimIsCurrent
<1>1. SchedInv /\ [SchedNext]_schedVars => [ClaimsDue]_schedVars
  BY ClaimsCurrent
<1>2. SchedSpec => [][ClaimsDue]_schedVars
  BY <1>1, SchedInitInv, SchedInvKept, PTL DEF SchedSpec
<1> QED
  BY <1>2 DEF ClaimIsCurrent, ClaimsDue
=============================================================================
