--------------------------- MODULE KernelReplicas ---------------------------
(***************************************************************************)
(* The replicas of rag-backend-kernel.  Each runs one uvicorn worker, and  *)
(* its handlers call their stores with blocking requests, so a replica is  *)
(* inside at most one blocking handler at a time; two replicas interleave  *)
(* between any two requests to a store.                                    *)
(***************************************************************************)
CONSTANT Kernels   \* the replicas of the kernel Deployment
=============================================================================
