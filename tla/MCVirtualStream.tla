------------------------- MODULE MCVirtualStream -------------------------
(* Instances of VirtualStream for TLC.                                     *)
EXTENDS VirtualStream, TLC

(* A single stream with one chunk each way.                                *)
One == (1 :> 1)

(* Stream 1 carries two chunks each way, stream 2 one.                     *)
TwoAndOne == (1 :> 2) @@ (2 :> 1)

(* Stream 1 carries two chunks each way, stream 2 is only opened and       *)
(* closed.                                                                 *)
TwoAndNone == (1 :> 2) @@ (2 :> 0)
=============================================================================
