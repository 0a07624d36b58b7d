---------------------------- MODULE HttpExchange ----------------------------
(***************************************************************************)
(* What the application-spoke HTTP proxy promises a caller, with no tunnel *)
(* in sight.  A request is submitted, may be executed once by the hub      *)
(* kernel, and is answered once or abandoned by its caller.  The answer    *)
(* tells the caller what happened: "served" means the kernel executed this *)
(* request, "refused" means it did not and never will, so a retry is safe, *)
(* and "unknown" (timeout, session loss, upstream error) promises nothing. *)
(***************************************************************************)
EXTENDS Naturals

CONSTANT Reqs

VARIABLES
  stage,     \* "new", "open", "answered" or "abandoned"
  verdict,   \* what the answer said
  executed   \* how often the hub kernel executed the request

vars == <<stage, verdict, executed>>

Verdicts == {"served", "refused", "unknown"}

Init ==
  /\ stage = [r \in Reqs |-> "new"]
  /\ verdict = [r \in Reqs |-> "none"]
  /\ executed = [r \in Reqs |-> 0]

Submit(r) ==
  /\ stage[r] = "new"
  /\ stage' = [stage EXCEPT ![r] = "open"]
  /\ UNCHANGED <<verdict, executed>>

(* The kernel may execute a request whose caller has given up, but never   *)
(* twice, and never one that was refused.                                  *)
Execute(r) ==
  /\ stage[r] # "new"
  /\ executed[r] = 0
  /\ verdict[r] # "refused"
  /\ executed' = [executed EXCEPT ![r] = 1]
  /\ UNCHANGED <<stage, verdict>>

Answer(r, v) ==
  /\ stage[r] = "open"
  /\ v = "served" => executed[r] = 1
  /\ v = "refused" => executed[r] = 0
  /\ stage' = [stage EXCEPT ![r] = "answered"]
  /\ verdict' = [verdict EXCEPT ![r] = v]
  /\ UNCHANGED executed

(* The caller hangs up and hears nothing.                                  *)
Abandon(r) ==
  /\ stage[r] = "open"
  /\ stage' = [stage EXCEPT ![r] = "abandoned"]
  /\ UNCHANGED <<verdict, executed>>

Next ==
  \E r \in Reqs :
    Submit(r) \/ Execute(r) \/ Abandon(r) \/ \E v \in Verdicts : Answer(r, v)

Spec == Init /\ [][Next]_vars
=============================================================================
