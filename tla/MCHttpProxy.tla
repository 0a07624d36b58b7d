--------------------------- MODULE MCHttpProxy ---------------------------
(* Instances of HttpProxy for TLC.                                         *)
EXTENDS HttpProxy, TLC

CONSTANTS r1, r2
=============================================================================
