------------------------- MODULE MCTunnelSessions -------------------------
(* Instances of TunnelSessions for TLC.                                    *)
EXTENDS TunnelSessions, TLC

CONSTANTS c1, c2, c3, s1, p1, p2

(* A cluster spoke with two ports.                                         *)
TwoPorts == (s1 :> <<p1, p2>>)

OnePort == (s1 :> <<p1>>)

(* An application spoke has no port.                                       *)
NoPorts == (s1 :> << >>)

Symmetry == Permutations(Conns)
=============================================================================
