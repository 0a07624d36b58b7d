------------------------------ MODULE MCSpawn ------------------------------
(***************************************************************************)
(* Spawned agents for TLC: the second spawn outranks the first, which is   *)
(* its supervisor, so that a pickup can overtake and a submit can link.    *)
(***************************************************************************)
EXTENDS Spawn, TLC

Prio == (1 :> 1) @@ (2 :> 0)
Par == (1 :> NoId) @@ (2 :> 1)
=============================================================================
