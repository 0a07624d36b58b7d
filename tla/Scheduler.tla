------------------------------ MODULE Scheduler ------------------------------
(***************************************************************************)
(* The kernel's scheduler: every replica runs _scheduler_loop over the     *)
(* scheduled_tasks index, claims due tasks by advancing next_run_at with a *)
(* conditional update, calls their handlers and records the results; and   *)
(* operators create, change, delete and run tasks through the API.         *)
(*                                                                         *)
(* Time is relative: due counts the ticks down to next_run_at.  A search   *)
(* sees what the last refresh of the index made visible; a hit that is     *)
(* older than the document can only lose its conditional update, so such   *)
(* hits are left out.  A search returns at most SCHEDULER_FETCH_LIMIT (50) *)
(* hits; fewer tasks are modelled.                                         *)
(***************************************************************************)
EXTENDS KernelReplicas, Naturals

CONSTANTS
  Tasks,
  Lease,           \* ticks a claim advances next_run_at by (one minute)
  Interval,        \* ticks of interval_sec
  Never,           \* next_run_at of year 9999
  MaxSchedEvents   \* bound: requests of operators, failures and crashes

ASSUME SchedAssumption ==
  /\ Lease \in Nat \ {0} /\ Interval \in Nat \ {0}
  /\ Never \notin Nat /\ MaxSchedEvents \in Nat

VARIABLES
  task,      \* task[t]: the document of t
  visible,   \* tasks whose last write a search can see
  hits,      \* hits[k]: hits of k's search it has not tried to claim
  fresh,     \* fresh[k]: those nobody wrote since the search
  run,       \* run[k][t]: k's run of t, from its claim to its record
  manual,    \* tasks with a run-now in progress
  wish,      \* wish[t]: enabled as operators last set or left it
  fired,     \* fired[t]: handler calls since t got its schedule, up to 2
  spoiled,   \* tasks that overran the lease, or changed under a run
  lost,      \* tasks a run of which was never recorded
  schedEvents

schedVars ==
  <<task, visible, hits, fresh, run, manual, wish, fired, spoiled, lost,
    schedEvents>>

(* What a task definition amounts to.  "halting" is what a first run stops *)
(* for good: a cron, and what _scheduler_compute_next_run cannot compute,  *)
(* as an interval_sec that is no number or is too large, or a type that    *)
(* only update_task lets in.  "broken" makes _scheduler_execute_one raise: *)
(* a handler that cannot be called.                                        *)
Kinds == {"interval", "once", "halting", "broken"}

Task == [here : BOOLEAN, enabled : BOOLEAN, kind : Kinds, due : Nat \cup {Never}]

Run == [pc : {"none", "claimed", "called"}, kind : Kinds, age : 0..Lease]

SchedTypeOK ==
  /\ task \in [Tasks -> Task]
  /\ visible \subseteq Tasks
  /\ hits \in [Kernels -> SUBSET Tasks] /\ fresh \in [Kernels -> SUBSET Tasks]
  /\ run \in [Kernels -> [Tasks -> Run]]
  /\ manual \subseteq Tasks
  /\ wish \in [Tasks -> BOOLEAN]
  /\ fired \in [Tasks -> 0..2]
  /\ spoiled \subseteq Tasks /\ lost \subseteq Tasks
  /\ schedEvents \in 0..MaxSchedEvents

NoTask == [here |-> FALSE, enabled |-> FALSE, kind |-> "once", due |-> Never]

NoRun == [pc |-> "none", kind |-> "once", age |-> 0]

SchedInit ==
  /\ task = [t \in Tasks |-> NoTask]
  /\ visible = Tasks
  /\ hits = [k \in Kernels |-> {}] /\ fresh = [k \in Kernels |-> {}]
  /\ run = [k \in Kernels |-> [t \in Tasks |-> NoRun]]
  /\ manual = {}
  /\ wish = [t \in Tasks |-> FALSE]
  /\ fired = [t \in Tasks |-> 0]
  /\ spoiled = {} /\ lost = {}
  /\ schedEvents = 0

SchedEvent == schedEvents < MaxSchedEvents /\ schedEvents' = schedEvents + 1

Active(k, t) == run[k][t].pc # "none"

InRun(t) == \E k \in Kernels : Active(k, t)

(* Document t is written: what the replicas read of it is old.             *)
Write(t, d) ==
  /\ task' = [task EXCEPT ![t] = d]
  /\ visible' = visible \ {t}
  /\ fresh' = [k \in Kernels |-> fresh[k] \ {t}]

-----------------------------------------------------------------------------
(* _scheduler_loop                                                         *)

Due(t) == task[t].here /\ task[t].enabled /\ task[t].due = 0

(* Between two rounds a replica sleeps.                                    *)
Asleep(k) == hits[k] = {} /\ \A t \in Tasks : ~Active(k, t)

Search(k) ==
  LET found == {t \in visible : Due(t)} IN
  /\ Asleep(k) /\ found # {}
  /\ hits' = [hits EXCEPT ![k] = found]
  /\ fresh' = [fresh EXCEPT ![k] = found]
  /\ UNCHANGED <<task, visible, run, manual, wish, fired, spoiled, lost,
                 schedEvents>>

(* Mutant: the update is not conditional.                                  *)
Unwritten_Always(k, t) == TRUE

(* if_seq_no and if_primary_term of the hit still match.                   *)
Unwritten(k, t) == t \in fresh[k]

(* Mutant: the claim leaves next_run_at in the past.                       *)
Advanced_Not(t) == task[t]

(* What the successful conditional update writes, and the run it entitles  *)
(* the replica to, with the schedule of the hit.                           *)
Advanced(t) == [task[t] EXCEPT !.due = Lease]
Claimed(t) == [NoRun EXCEPT !.pc = "claimed", !.kind = task[t].kind]

(* Mutant: a lost claim is tried again and again.                          *)
Left_Retries(k, t) == hits[k]

(* The hits after t was tried.                                             *)
Left(k, t) == hits[k] \ {t}

(* _scheduler_optimistic_advance of one hit.                               *)
Claim(k, t) ==
  /\ t \in hits[k]
  /\ hits' = [hits EXCEPT ![k] = Left(k, t)]
  /\ \/ /\ Unwritten(k, t)
        /\ Write(t, Advanced(t))
        /\ run' = [run EXCEPT ![k][t] = Claimed(t)]
     \/ /\ ~Unwritten(k, t)
        /\ UNCHANGED <<task, visible, fresh, run>>
  /\ UNCHANGED <<manual, wish, fired, spoiled, lost, schedEvents>>

(* The update was made but its reply was lost: counted as not claimed.     *)
ClaimUnanswered(k, t) ==
  /\ t \in hits[k] \cap fresh[k] /\ SchedEvent
  /\ hits' = [hits EXCEPT ![k] = Left(k, t)]
  /\ Write(t, Advanced(t))
  /\ UNCHANGED <<run, manual, wish, fired, spoiled, lost>>

Started(k) == {t \in Tasks : run[k][t].pc = "claimed"}

(* All hits were tried: gather calls the handlers of all claimed tasks.    *)
Gather(k) ==
  /\ hits[k] = {} /\ Started(k) # {}
  /\ run' = [run EXCEPT ![k] = [t \in Tasks |->
       IF t \in Started(k) THEN [@[t] EXCEPT !.pc = "called"] ELSE @[t]]]
  /\ fired' = [t \in Tasks |->
       IF t \in Started(k) /\ fired[t] < 2 THEN fired[t] + 1 ELSE fired[t]]
  /\ UNCHANGED <<task, visible, hits, fresh, manual, wish, spoiled, lost,
                 schedEvents>>

(* Mutant: a once is rescheduled as an interval is.                        *)
Recorded_OnceAgain(d, kind) == [d EXCEPT !.due = Interval]

(* Mutant: every kind is disabled after a run.                             *)
Recorded_Disables(d, kind) == [d EXCEPT !.enabled = FALSE, !.due = Interval]

(* _scheduler_record_run after a run of schedule kind: once is disabled,   *)
(* what has no next run gets the far future, and an exception leaves       *)
(* next_run_at where the claim put it.                                     *)
Recorded(d, kind) ==
  CASE kind = "once" -> [d EXCEPT !.enabled = FALSE, !.due = Never]
    [] kind = "interval" -> [d EXCEPT !.due = Interval]
    [] kind = "halting" -> [d EXCEPT !.due = Never]
    [] kind = "broken" -> d

(* The handler answered, failed or timed out; the unconditional update of  *)
(* a deleted task does nothing.                                            *)
Finish(k, t) ==
  /\ run[k][t].pc = "called"
  /\ IF task[t].here THEN Write(t, Recorded(task[t], run[k][t].kind))
     ELSE UNCHANGED <<task, visible, fresh>>
  /\ run' = [run EXCEPT ![k][t] = NoRun]
  /\ UNCHANGED <<hits, manual, wish, fired, spoiled, lost, schedEvents>>

(* The update with the result fails; the loop goes on without it.          *)
FinishUnrecorded(k, t) ==
  /\ run[k][t].pc = "called" /\ SchedEvent
  /\ run' = [run EXCEPT ![k][t] = NoRun]
  /\ lost' = lost \cup {t}
  /\ UNCHANGED <<task, visible, hits, fresh, manual, wish, fired, spoiled>>

(* The replica is killed and starts again.                                 *)
CrashReplica(k) ==
  /\ ~Asleep(k) /\ SchedEvent
  /\ hits' = [hits EXCEPT ![k] = {}] /\ fresh' = [fresh EXCEPT ![k] = {}]
  /\ run' = [run EXCEPT ![k] = [t \in Tasks |-> NoRun]]
  /\ lost' = lost \cup {t \in Tasks : Active(k, t)}
  /\ UNCHANGED <<task, visible, manual, wish, fired, spoiled>>

-----------------------------------------------------------------------------
(* The API                                                                 *)

(* Operators (re)define what t is; a run in progress knows the old task.   *)
Redefine(t, d) ==
  /\ Write(t, d)
  /\ fired' = [fired EXCEPT ![t] = 0]
  /\ spoiled' = IF InRun(t) THEN spoiled \cup {t} ELSE spoiled \ {t}
  /\ lost' = lost \ {t}
  /\ UNCHANGED <<hits, run, manual>>

(* next_run_at of a new schedule: now, but run_at of a once.               *)
FirstDue(kind) == IF kind = "once" THEN {0, 1} ELSE {0}

(* core_scheduler_create_task: a PUT, which also replaces a task.          *)
(* _scheduler_validate_task looks at the type and for an interval_sec, not *)
(* at its value or at the handler's timeout_sec.                           *)
CreateTask(t, kind, on) ==
  /\ SchedEvent
  /\ \E d \in FirstDue(kind) :
       Redefine(t, [here |-> TRUE, enabled |-> on, kind |-> kind, due |-> d])
  /\ wish' = [wish EXCEPT ![t] = on]

(* core_scheduler_update_task, which validates nothing, with a schedule .. *)
UpdateSchedule(t, kind) ==
  /\ task[t].here /\ SchedEvent
  /\ \E d \in FirstDue(kind) :
       Redefine(t, [task[t] EXCEPT !.kind = kind, !.due = d])
  /\ wish' = [wish EXCEPT ![t] = task[t].enabled]

(* ... with a handler that cannot be called ...                            *)
UpdateHandler(t) ==
  /\ task[t].here /\ SchedEvent
  /\ Redefine(t, [task[t] EXCEPT !.kind = "broken"])
  /\ wish' = [wish EXCEPT ![t] = task[t].enabled]

(* ... and with enabled.                                                   *)
UpdateEnabled(t, on) ==
  /\ task[t].here /\ SchedEvent
  /\ Write(t, [task[t] EXCEPT !.enabled = on])
  /\ wish' = [wish EXCEPT ![t] = on]
  /\ UNCHANGED <<hits, run, manual, fired, spoiled, lost>>

DeleteTask(t) ==
  /\ task[t].here /\ SchedEvent
  /\ Redefine(t, NoTask)
  /\ wish' = [wish EXCEPT ![t] = FALSE]

(* core_scheduler_run_now calls the handler, whoever else does, and then   *)
(* records only last_run_*.                                                *)
RunNow(t) ==
  /\ task[t].here /\ t \notin manual /\ SchedEvent
  /\ manual' = manual \cup {t}
  /\ UNCHANGED <<task, visible, hits, fresh, run, wish, fired, spoiled, lost>>

RunNowDone(t) ==
  /\ t \in manual
  /\ manual' = manual \ {t}
  /\ IF task[t].here THEN Write(t, task[t])
     ELSE UNCHANGED <<task, visible, fresh>>
  /\ UNCHANGED <<hits, run, wish, fired, spoiled, lost, schedEvents>>

-----------------------------------------------------------------------------
(* The index is refreshed: searches see every write.                       *)
Refresh ==
  /\ visible # Tasks
  /\ visible' = Tasks
  /\ UNCHANGED <<task, hits, fresh, run, manual, wish, fired, spoiled, lost,
                 schedEvents>>

Older(r) == IF r.pc = "none" \/ r.age = Lease THEN r ELSE [r EXCEPT !.age = @ + 1]

(* Time passes, as long as it matters to a task or a run.                  *)
Tick ==
  /\ \/ \E t \in Tasks : task[t].due \notin {0, Never}
     \/ \E k \in Kernels, t \in Tasks :
          Active(k, t) /\ run[k][t].age < Lease
  /\ task' = [t \in Tasks |->
       IF task[t].due \in {0, Never} THEN task[t]
       ELSE [task[t] EXCEPT !.due = @ - 1]]
  /\ run' = [k \in Kernels |-> [t \in Tasks |-> Older(run[k][t])]]
  /\ spoiled' = spoiled \cup
       {t \in Tasks : \E k \in Kernels : run'[k][t].age = Lease}
  /\ UNCHANGED <<visible, hits, fresh, manual, wish, fired, lost, schedEvents>>

LoopStep(k) == Search(k) \/ (\E t \in Tasks : Claim(k, t)) \/ Gather(k)

OperatorStep(t) ==
  \/ \E kind \in Kinds, on \in BOOLEAN : CreateTask(t, kind, on)
  \/ \E kind \in Kinds : UpdateSchedule(t, kind)
  \/ \E on \in BOOLEAN : UpdateEnabled(t, on)
  \/ UpdateHandler(t) \/ DeleteTask(t) \/ RunNow(t) \/ RunNowDone(t)

SchedNext ==
  \/ \E k \in Kernels : LoopStep(k) \/ CrashReplica(k)
  \/ \E k \in Kernels, t \in Tasks :
       ClaimUnanswered(k, t) \/ Finish(k, t) \/ FinishUnrecorded(k, t)
  \/ \E t \in Tasks : OperatorStep(t)
  \/ Refresh \/ Tick

(* The loops run, handlers answer or time out, the index refreshes itself  *)
(* and time passes; operators need not do anything.                        *)
SchedFairness ==
  /\ \A k \in Kernels : WF_schedVars(LoopStep(k))
  /\ \A k \in Kernels, t \in Tasks : WF_schedVars(Finish(k, t))
  /\ WF_schedVars(Refresh) /\ WF_schedVars(Tick)

SchedSpec == SchedInit /\ [][SchedNext]_schedVars
SchedFairSpec == SchedSpec /\ SchedFairness

-----------------------------------------------------------------------------
(* Properties                                                              *)

(* A replica that wins the right to run a task wins it for a task that is  *)
(* enabled and due at that moment, however old the search behind it is: an *)
(* operator who disabled or moved the task in between is heeded.           *)
ClaimIsCurrent ==
  [][\A k \in Kernels, t \in Tasks : ~Active(k, t) /\ Active(k, t)' =>
       Due(t)]_schedVars

(* "advance next_run_at to keep other instances out": as long as no run of *)
(* a task outlives the lease and no operator redefines it under a run, no  *)
(* two replicas run it at the same time.                                   *)
RunsDoNotOverlap ==
  \A t \in Tasks \ spoiled : \A k, q \in Kernels :
    Active(k, t) /\ Active(q, t) => k = q

(* The handler of a once, of a cron and of a schedule that cannot be       *)
(* computed (which the far future is to stop) is called again only after a *)
(* run that outlived the lease, was lost in a crash or was not recorded.   *)
OnceFiresOnce ==
  \A t \in Tasks \ (spoiled \cup lost) :
    task[t].here /\ task[t].kind \in {"once", "halting"} => fired[t] <= 1

(* A recurring task whose interval can be computed and whose handler can   *)
(* be called keeps a next run and stays enabled as its operator left it,   *)
(* whatever claims, crashes and results are written over it.               *)
StaysScheduled ==
  \A t \in Tasks \ spoiled : task[t].here /\ task[t].kind = "interval" =>
    task[t].enabled = wish[t] /\ task[t].due # Never

Recurring(t) ==
  task[t].here /\ task[t].kind = "interval" /\ wish[t] /\ t \notin spoiled

(* Such a task is run again and again: a replica that dies with the claim, *)
(* or a lost reply, only delays it.                                        *)
RecurringRuns ==
  \A t \in Tasks :
    []<>(~Recurring(t) \/ \E k \in Kernels : run[k][t].pc = "called")
=============================================================================
