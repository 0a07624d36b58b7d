------------------------ MODULE KnowledgeBaseProofs ------------------------
(***************************************************************************)
(* Theorems about KnowledgeBase: the state stays in its types, and the     *)
(* SysML policy keeps its promise, for any number of replicas, topics and  *)
(* bodies.                                                                 *)
(***************************************************************************)
EXTENDS KnowledgeBase, TLAPS

(* A positive verdict was given on the body the upsert is still waiting    *)
(* with.                                                                   *)
VerdictsApply ==
  \A k \in Kernels : reply[k] = "ok" =>
    upsert[k].pc = "check" /\ Valid(upsert[k].body)

(* Whoever is about to write content had it checked, or found the topic    *)
(* exempt, which it is unless it was deleted meanwhile.                    *)
WritersMay ==
  Enforce => \A k \in Kernels :
    upsert[k].pc = "write" /\ upsert[k].body # NoBody =>
      \/ Valid(upsert[k].body)
      \/ Exempt(upsert[k].id)
      \/ upsert[k].id \in raced

GoneIsEmpty == \A i \in Topics : ~topic[i].here => topic[i].body = NoBody

Busy == \A k \in Kernels : upsert[k].pc # "idle" => upsert[k].id \in Topics

KbInv ==
  KbTypeOK /\ Busy /\ VerdictsApply /\ WritersMay /\ GoneIsEmpty /\ NewBodiesPass

(* The state starts in its types.                                          *)
LEMMA KbInitTypes == KbInit => KbTypeOK
<1>1. SUFFICES ASSUME KbInit PROVE KbTypeOK
  OBVIOUS
<1>2. PICK b \in [LegacyTopics -> Bodies \cup {NoBody}] :
        topic = [i \in Topics |->
          IF i \in LegacyTopics
          THEN [here |-> TRUE, legacy |-> TRUE, body |-> b[i]] ELSE NoNode]
  BY <1>1 DEF KbInit
<1>3. topic \in [Topics -> Node]
  BY <1>2 DEF Node, NoNode
<1>4. upsert \in [Kernels -> Upsert]
  BY <1>1 DEF KbInit, NoUpsert, Upsert
<1> QED
  BY <1>1, <1>3, <1>4, KbAssumption DEF KbInit, KbTypeOK

(* Initially nobody writes and every topic there is, is a legacy one.      *)
LEMMA KbInitInv == KbInit => KbInv
<1>1. SUFFICES ASSUME KbInit PROVE KbInv
  OBVIOUS
<1>2. \A i \in Topics : topic[i].here => topic[i].legacy
  BY <1>1 DEF KbInit, NoNode
<1>3. \A i \in Topics : ~topic[i].here => topic[i].body = NoBody
  BY <1>1 DEF KbInit, NoNode
<1>4. \A k \in Kernels : upsert[k].pc = "idle" /\ reply[k] = "none"
  BY <1>1 DEF KbInit, NoUpsert
<1> QED
  BY <1>1, <1>2, <1>3, <1>4, KbInitTypes
  DEF KbInv, VerdictsApply, WritersMay, GoneIsEmpty, NewBodiesPass, Busy

(* Every step keeps the types.                                             *)
LEMMA KbTypesKept == KbTypeOK /\ Busy /\ [KbNext]_kbVars => KbTypeOK'
<1> SUFFICES ASSUME KbTypeOK, Busy, [KbNext]_kbVars PROVE KbTypeOK'
  OBVIOUS
<1> USE KbAssumption
<1>1. ASSUME NEW k \in Kernels, NEW i \in Topics, NEW b \in Bodies \cup {NoBody},
             UpsertCall(k, i, b)
      PROVE KbTypeOK'
  <2>1. upsert' \in [Kernels -> Upsert]
    BY <1>1 DEF UpsertCall, KbTypeOK, Upsert
  <2> QED
    BY <1>1, <2>1 DEF UpsertCall, KbTypeOK, KbEvent
<1>2. ASSUME NEW k \in Kernels, UpsertLook(k) PROVE KbTypeOK'
  <2>1. upsert' \in [Kernels -> Upsert]
    BY <1>2 DEF UpsertLook, KbTypeOK, Upsert
  <2> QED
    BY <1>2, <2>1 DEF UpsertLook, KbTypeOK
<1>3. ASSUME NEW k \in Kernels, UpsertVerdict(k) PROVE KbTypeOK'
  <2>1. upsert' \in [Kernels -> Upsert]
    BY <1>3 DEF UpsertVerdict, KbTypeOK, Upsert
  <2> QED
    BY <1>3, <2>1 DEF UpsertVerdict, KbTypeOK
<1>4. ASSUME NEW k \in Kernels, UpsertWrite(k) PROVE KbTypeOK'
  <2>1. upsert' \in [Kernels -> Upsert]
    BY <1>4 DEF UpsertWrite, KbTypeOK, Upsert
  <2>2. upsert[k].id \in Topics /\ upsert[k].body \in Bodies \cup {NoBody}
    BY <1>4 DEF UpsertWrite, KbTypeOK, Upsert, Busy
  <2>3. Merged(topic[upsert[k].id], upsert[k].body) \in Node
    BY <2>2 DEF Merged, Node, KbTypeOK
  <2>4. topic' \in [Topics -> Node]
    BY <1>4, <2>2, <2>3 DEF UpsertWrite, KbTypeOK
  <2> QED
    BY <1>4, <2>1, <2>4 DEF UpsertWrite, KbTypeOK
<1>5. ASSUME NEW k \in Kernels, Validate(k) \/ ValidateFails(k) PROVE KbTypeOK'
  BY <1>5 DEF Validate, ValidateFails, Validated, KbTypeOK, KbEvent
<1>6. ASSUME NEW i \in Topics, TopicDelete(i) PROVE KbTypeOK'
  <2>1. topic' \in [Topics -> Node]
    BY <1>6 DEF TopicDelete, KbTypeOK, Node, NoNode
  <2> QED
    BY <1>6, <2>1 DEF TopicDelete, KbTypeOK, KbEvent
<1>7. ASSUME NEW i \in Topics, NEW b \in Bodies \cup {NoBody}, Migrate(i, b)
      PROVE KbTypeOK'
  <2>1. topic' \in [Topics -> Node]
    BY <1>7 DEF Migrate, KbTypeOK, Node
  <2> QED
    BY <1>7, <2>1 DEF Migrate, KbTypeOK, KbEvent
<1>8. CASE UNCHANGED kbVars
  BY <1>8 DEF kbVars, KbTypeOK
<1> QED
  BY <1>1, <1>2, <1>3, <1>4, <1>5, <1>6, <1>7, <1>8 DEF KbNext, UpsertStep
(* Every step keeps the rest of the invariant.                             *)
LEMMA KbInvKept == KbInv /\ [KbNext]_kbVars => KbInv'
<1> SUFFICES ASSUME KbInv, [KbNext]_kbVars PROVE KbInv'
  OBVIOUS
<1>0. KbTypeOK /\ KbTypeOK'
  BY KbTypesKept DEF KbInv
<1> DEFINE Rest == Busy /\ VerdictsApply /\ WritersMay /\ GoneIsEmpty /\ NewBodiesPass
<1> USE KbAssumption
<1>1. ASSUME NEW k \in Kernels, NEW i \in Topics, NEW b \in Bodies \cup {NoBody},
             UpsertCall(k, i, b)
      PROVE Rest'
  <2>1. Busy'
    BY <1>0, <1>1 DEF KbInv, Busy, KbTypeOK, Upsert, UpsertCall
  <2>2. VerdictsApply'
    BY <1>0, <1>1 DEF KbInv, VerdictsApply, KbTypeOK, Upsert, UpsertCall
  <2>3. WritersMay'
    BY <1>0, <1>1
      DEF KbInv, WritersMay, VerdictsApply, Busy, KbTypeOK, Upsert, Node,
          Exempt, UpsertCall
  <2>4. GoneIsEmpty'
    BY <1>0, <1>1
      DEF KbInv, GoneIsEmpty, Busy, KbTypeOK, Node, Upsert, UpsertCall
  <2>5. NewBodiesPass'
    BY <1>0, <1>1
      DEF KbInv, NewBodiesPass, GoneIsEmpty, WritersMay, Busy, Exempt,
          KbTypeOK, Node, Upsert, UpsertCall
  <2> QED
    BY <2>1, <2>2, <2>3, <2>4, <2>5
<1>2. ASSUME NEW k \in Kernels, UpsertLook(k)
      PROVE Rest'
  <2>1. Busy'
    BY <1>0, <1>2 DEF KbInv, Busy, KbTypeOK, Upsert, UpsertLook
  <2>2. VerdictsApply'
    BY <1>0, <1>2 DEF KbInv, VerdictsApply, KbTypeOK, Upsert, UpsertLook
  <2>3. WritersMay'
    BY <1>0, <1>2
      DEF KbInv, WritersMay, VerdictsApply, Busy, KbTypeOK, Upsert, Node,
          Exempt, UpsertLook
  <2>4. GoneIsEmpty'
    BY <1>0, <1>2
      DEF KbInv, GoneIsEmpty, Busy, KbTypeOK, Node, Upsert, UpsertLook
  <2>5. NewBodiesPass'
    BY <1>0, <1>2
      DEF KbInv, NewBodiesPass, GoneIsEmpty, WritersMay, Busy, Exempt,
          KbTypeOK, Node, Upsert, UpsertLook
  <2> QED
    BY <2>1, <2>2, <2>3, <2>4, <2>5
<1>3. ASSUME NEW k \in Kernels, UpsertVerdict(k)
      PROVE Rest'
  <2>1. Busy'
    BY <1>0, <1>3 DEF KbInv, Busy, KbTypeOK, Upsert, UpsertVerdict, Answered
  <2>2. VerdictsApply'
    BY <1>0, <1>3
      DEF KbInv, VerdictsApply, KbTypeOK, Upsert, UpsertVerdict, Answered
  <2>3. WritersMay'
    BY <1>0, <1>3
      DEF KbInv, WritersMay, VerdictsApply, Busy, KbTypeOK, Upsert, Node,
          Exempt, UpsertVerdict, Answered
  <2>4. GoneIsEmpty'
    BY <1>0, <1>3
      DEF KbInv, GoneIsEmpty, Busy, KbTypeOK, Node, Upsert, UpsertVerdict,
          Answered
  <2>5. NewBodiesPass'
    BY <1>0, <1>3
      DEF KbInv, NewBodiesPass, GoneIsEmpty, WritersMay, Busy, Exempt,
          KbTypeOK, Node, Upsert, UpsertVerdict, Answered
  <2> QED
    BY <2>1, <2>2, <2>3, <2>4, <2>5
<1>4. ASSUME NEW k \in Kernels, UpsertWrite(k)
      PROVE Rest'
  <2>1. Busy'
    BY <1>0, <1>4 DEF KbInv, Busy, KbTypeOK, Upsert, UpsertWrite
  <2>2. VerdictsApply'
    BY <1>0, <1>4 DEF KbInv, VerdictsApply, KbTypeOK, Upsert, UpsertWrite
  <2>3. WritersMay'
    BY <1>0, <1>4
      DEF KbInv, WritersMay, VerdictsApply, Busy, KbTypeOK, Upsert, Node,
          Exempt, UpsertWrite, Merged
  <2>4. GoneIsEmpty'
    BY <1>0, <1>4
      DEF KbInv, GoneIsEmpty, Busy, KbTypeOK, Node, Upsert, UpsertWrite,
          Merged
  <2>5. NewBodiesPass'
    BY <1>0, <1>4
      DEF KbInv, NewBodiesPass, GoneIsEmpty, WritersMay, Busy, Exempt,
          KbTypeOK, Node, Upsert, UpsertWrite, Merged
  <2> QED
    BY <2>1, <2>2, <2>3, <2>4, <2>5
<1>5. ASSUME NEW k \in Kernels, Validate(k) \/ ValidateFails(k)
      PROVE Rest'
  <2>1. Busy'
    BY <1>0, <1>5
      DEF KbInv, Busy, KbTypeOK, Upsert, Validate, ValidateFails, Validated,
          CheckSyntax, CheckSemantic, Pending, Valid
  <2>2. VerdictsApply'
    BY <1>0, <1>5
      DEF KbInv, VerdictsApply, KbTypeOK, Upsert, Validate, ValidateFails,
          Validated, CheckSyntax, CheckSemantic, Pending, Valid
  <2>3. WritersMay'
    BY <1>0, <1>5
      DEF KbInv, WritersMay, VerdictsApply, Busy, KbTypeOK, Upsert, Node,
          Exempt, Validate, ValidateFails, Validated, CheckSyntax,
          CheckSemantic, Pending, Valid
  <2>4. GoneIsEmpty'
    BY <1>0, <1>5
      DEF KbInv, GoneIsEmpty, Busy, KbTypeOK, Node, Upsert, Validate,
          ValidateFails, Validated, CheckSyntax, CheckSemantic, Pending, Valid
  <2>5. NewBodiesPass'
    BY <1>0, <1>5
      DEF KbInv, NewBodiesPass, GoneIsEmpty, WritersMay, Busy, Exempt,
          KbTypeOK, Node, Upsert, Validate, ValidateFails, Validated,
          CheckSyntax, CheckSemantic, Pending, Valid
  <2> QED
    BY <2>1, <2>2, <2>3, <2>4, <2>5
<1>6. ASSUME NEW i \in Topics, TopicDelete(i)
      PROVE Rest'
  <2>1. Busy'
    BY <1>0, <1>6 DEF KbInv, Busy, KbTypeOK, Upsert, TopicDelete, NoNode
  <2>2. VerdictsApply'
    BY <1>0, <1>6
      DEF KbInv, VerdictsApply, KbTypeOK, Upsert, TopicDelete, NoNode
  <2>3. WritersMay'
    BY <1>0, <1>6
      DEF KbInv, WritersMay, VerdictsApply, Busy, KbTypeOK, Upsert, Node,
          Exempt, TopicDelete, NoNode
  <2>4. GoneIsEmpty'
    BY <1>0, <1>6
      DEF KbInv, GoneIsEmpty, Busy, KbTypeOK, Node, Upsert, TopicDelete,
          NoNode
  <2>5. NewBodiesPass'
    BY <1>0, <1>6
      DEF KbInv, NewBodiesPass, GoneIsEmpty, WritersMay, Busy, Exempt,
          KbTypeOK, Node, Upsert, TopicDelete, NoNode
  <2> QED
    BY <2>1, <2>2, <2>3, <2>4, <2>5
<1>7. ASSUME NEW i \in Topics, NEW b \in Bodies \cup {NoBody}, Migrate(i, b)
      PROVE Rest'
  <2>1. Busy'
    BY <1>0, <1>7 DEF KbInv, Busy, KbTypeOK, Upsert, Migrate
  <2>2. VerdictsApply'
    BY <1>0, <1>7 DEF KbInv, VerdictsApply, KbTypeOK, Upsert, Migrate
  <2>3. WritersMay'
    BY <1>0, <1>7
      DEF KbInv, WritersMay, VerdictsApply, Busy, KbTypeOK, Upsert, Node,
          Exempt, Migrate
  <2>4. GoneIsEmpty'
    BY <1>0, <1>7
      DEF KbInv, GoneIsEmpty, Busy, KbTypeOK, Node, Upsert, Migrate
  <2>5. NewBodiesPass'
    BY <1>0, <1>7
      DEF KbInv, NewBodiesPass, GoneIsEmpty, WritersMay, Busy, Exempt,
          KbTypeOK, Node, Upsert, Migrate
  <2> QED
    BY <2>1, <2>2, <2>3, <2>4, <2>5
<1>8. CASE UNCHANGED kbVars
  BY <1>0, <1>8
  DEF kbVars, KbInv, Busy, VerdictsApply, WritersMay, GoneIsEmpty,
      NewBodiesPass,
      Exempt
<1>9. Rest'
  BY <1>1, <1>2, <1>3, <1>4, <1>5, <1>6, <1>7, <1>8
    DEF KbNext, UpsertStep, KbInv
<1> QED
  BY <1>0, <1>9 DEF KbInv

(* The state stays in its types, whatever the validator answers and        *)
(* whoever deletes, migrates and upserts topics at the same time.          *)
THEOREM KbTypeCorrect == KbSpec => []KbTypeOK
<1>1. KbInv => KbTypeOK
  BY DEF KbInv
<1> QED
  BY <1>1, KbInitInv, KbInvKept, PTL DEF KbSpec

(* "A body that does not pass is not written": the policy holds however    *)
(* the look at the topic, the validation and the write of an upsert        *)
(* interleave with other upserts, migrations and deletions.                *)
THEOREM PolicyHolds == KbSpec => []NewBodiesPass
<1>1. KbInv => NewBodiesPass
  BY DEF KbInv
<1> QED
  BY <1>1, KbInitInv, KbInvKept, PTL DEF KbSpec
=============================================================================
