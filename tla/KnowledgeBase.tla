---------------------------- MODULE KnowledgeBase ----------------------------
(***************************************************************************)
(* Knowledge topics: topic_upsert with the SysML policy, topic_delete, the *)
(* migration of the old handoff entries, and sysml-validator, which the    *)
(* policy asks.  A replica of the kernel is in one upsert at a time; the   *)
(* graph runs each query as one transaction.                               *)
(***************************************************************************)
EXTENDS KernelReplicas, Naturals

CONSTANTS
  Topics,        \* topic ids
  LegacyTopics,  \* those that exist since before SYSML_KB_CUTOFF
  Bodies,        \* contents, and what the tools say of them:
  SyntaxOk,      \*   sysml2 finds no error
  SemanticOk,    \*   mercurio-sysml compiles it
  TooBig,        \*   larger than MAX_BODY_BYTES
  NoBody,        \* content = None
  NoTopic,
  Enforce,       \* SYSML_KB_ENFORCE is not off
  MaxKbEvents    \* bound: requests and validator failures

ASSUME KbAssumption ==
  /\ LegacyTopics \subseteq Topics /\ NoTopic \notin Topics
  /\ SyntaxOk \subseteq Bodies /\ SemanticOk \subseteq Bodies
  /\ TooBig \subseteq Bodies /\ NoBody \notin Bodies
  /\ Enforce \in BOOLEAN /\ MaxKbEvents \in Nat

VARIABLES
  topic,     \* topic[i]: the node of i: does it exist, is it legacy, content
  upsert,    \* upsert[k]: the topic_upsert replica k is in
  reply,     \* reply[k]: the validator's answer to k
  raced,     \* topics deleted under an upsert that is exempt from the check
  kbEvents

kbVars == <<topic, upsert, reply, raced, kbEvents>>

Node == [here : BOOLEAN, legacy : BOOLEAN, body : Bodies \cup {NoBody}]

Upsert == [pc : {"idle", "look", "check", "write", "refused", "written"},
           id : Topics \cup {NoTopic}, body : Bodies \cup {NoBody}]

KbTypeOK ==
  /\ topic \in [Topics -> Node]
  /\ upsert \in [Kernels -> Upsert]
  /\ reply \in [Kernels -> {"none", "ok", "bad", "error"}]
  /\ raced \subseteq Topics
  /\ kbEvents \in 0..MaxKbEvents

NoNode == [here |-> FALSE, legacy |-> FALSE, body |-> NoBody]

NoUpsert == [pc |-> "idle", id |-> NoTopic, body |-> NoBody]

(* Topics of before the cutoff may hold anything.                          *)
KbInit ==
  /\ \E b \in [LegacyTopics -> Bodies \cup {NoBody}] :
       topic = [i \in Topics |->
         IF i \in LegacyTopics
         THEN [here |-> TRUE, legacy |-> TRUE, body |-> b[i]] ELSE NoNode]
  /\ upsert = [k \in Kernels |-> NoUpsert]
  /\ reply = [k \in Kernels |-> "none"]
  /\ raced = {}
  /\ kbEvents = 0

KbEvent == kbEvents < MaxKbEvents /\ kbEvents' = kbEvents + 1

-----------------------------------------------------------------------------
(* enforce_sysml_policy and topic_upsert                                   *)

(* Without content, or with the policy off, nothing is checked.            *)
UpsertCall(k, i, b) ==
  /\ upsert[k].pc \in {"idle", "refused", "written"} /\ KbEvent
  /\ upsert' = [upsert EXCEPT ![k] =
       [pc |-> IF b = NoBody \/ ~Enforce THEN "write" ELSE "look",
        id |-> i, body |-> b]]
  /\ UNCHANGED <<topic, reply, raced>>

(* The first query: a topic that exists and is of before the cutoff (or    *)
(* has no readable created_at) is exempt.                                  *)
Exempt(i) == topic[i].here /\ topic[i].legacy

UpsertLook(k) ==
  /\ upsert[k].pc = "look"
  /\ upsert' = [upsert EXCEPT ![k].pc =
                  IF Exempt(upsert[k].id) THEN "write" ELSE "check"]
  /\ UNCHANGED <<topic, reply, raced, kbEvents>>

(* Mutant: an exception is not taken for an answer.                        *)
Answered_NotErrors(k) == reply[k] \in {"ok", "bad"}

Answered(k) == reply[k] # "none"

(* sysml_validate: any exception, a status other than 200 or ok = false    *)
(* refuses the upsert.                                                     *)
UpsertVerdict(k) ==
  /\ upsert[k].pc = "check" /\ Answered(k)
  /\ upsert' = [upsert EXCEPT ![k].pc =
                  IF reply[k] = "ok" THEN "write" ELSE "refused"]
  /\ reply' = [reply EXCEPT ![k] = "none"]
  /\ UNCHANGED <<topic, raced, kbEvents>>

(* MERGE: creates the topic, with the time of now, or changes it.          *)
Merged(n, b) ==
  [here |-> TRUE, legacy |-> n.here /\ n.legacy,
   body |-> IF b = NoBody THEN n.body ELSE b]

UpsertWrite(k) ==
  LET u == upsert[k] IN
  /\ u.pc = "write"
  /\ topic' = [topic EXCEPT ![u.id] = Merged(@, u.body)]
  /\ upsert' = [upsert EXCEPT ![k].pc = "written"]
  /\ UNCHANGED <<reply, raced, kbEvents>>

TopicDelete(i) ==
  /\ topic[i].here /\ KbEvent
  /\ topic' = [topic EXCEPT ![i] = NoNode]
  /\ raced' = IF Exempt(i) /\ \E k \in Kernels :
                   upsert[k].id = i /\ upsert[k].pc = "write"
                   /\ upsert[k].body # NoBody
              THEN raced \cup {i} ELSE raced
  /\ UNCHANGED <<upsert, reply>>

(* The migration writes old handoff entries, with their old created_at or  *)
(* an empty one, over what is there and without the policy.                *)
Migrate(i, b) ==
  /\ KbEvent
  /\ topic' = [topic EXCEPT ![i] = [here |-> TRUE, legacy |-> TRUE, body |-> b]]
  /\ UNCHANGED <<upsert, reply, raced>>

-----------------------------------------------------------------------------
(* sysml-validator                                                         *)

CheckSyntax(b) == b \in SyntaxOk
CheckSemantic(b) == b \in SemanticOk

(* Mutant: one of the two checks will do.                                  *)
Validated_Either(b) ==
  IF b \in TooBig THEN "error"
  ELSE IF CheckSyntax(b) \/ CheckSemantic(b) THEN "ok" ELSE "bad"

(* POST /validate: 400 for a body it cannot take, else both checks.        *)
Validated(b) ==
  IF b \in TooBig THEN "error"
  ELSE IF CheckSyntax(b) /\ CheckSemantic(b) THEN "ok" ELSE "bad"

Pending(k) == upsert[k].pc = "check" /\ reply[k] = "none"

Validate(k) ==
  /\ Pending(k)
  /\ reply' = [reply EXCEPT ![k] = Validated(upsert[k].body)]
  /\ UNCHANGED <<topic, upsert, raced, kbEvents>>

(* The validator is down, is too slow for the 15 s, or cannot write the    *)
(* file that the syntax checker reads.                                     *)
ValidateFails(k) ==
  /\ Pending(k) /\ KbEvent
  /\ \E v \in {"error", "bad"} : reply' = [reply EXCEPT ![k] = v]
  /\ UNCHANGED <<topic, upsert, raced>>

-----------------------------------------------------------------------------
UpsertStep(k) ==
  UpsertLook(k) \/ UpsertVerdict(k) \/ UpsertWrite(k) \/ Validate(k)

KbNext ==
  \/ \E k \in Kernels :
       \/ UpsertStep(k) \/ ValidateFails(k)
       \/ \E i \in Topics, b \in Bodies \cup {NoBody} : UpsertCall(k, i, b)
  \/ \E i \in Topics : TopicDelete(i) \/ \E b \in Bodies \cup {NoBody} : Migrate(i, b)

KbFairness == \A k \in Kernels : WF_kbVars(UpsertStep(k))

KbSpec == KbInit /\ [][KbNext]_kbVars
KbFairSpec == KbSpec /\ KbFairness

-----------------------------------------------------------------------------
(* Properties                                                              *)

Valid(b) == b \in (SyntaxOk \cap SemanticOk) \ TooBig

(* "A body that does not pass is not written": a topic created after the   *)
(* cutoff holds a body that both tools accept, whatever the validator did; *)
(* among the operations of this module, the one way around is a legacy     *)
(* topic deleted under an upsert that had already been found exempt.       *)
NewBodiesPass ==
  Enforce => \A i \in Topics \ raced :
    topic[i].here /\ ~topic[i].legacy /\ topic[i].body # NoBody =>
      Valid(topic[i].body)

(* Every upsert is written or refused, also when the validator fails.      *)
UpsertEnds ==
  \A k \in Kernels :
    upsert[k].pc = "look" ~> upsert[k].pc \in {"written", "refused"}
=============================================================================
