--------------------------- MODULE MCConnLimiter ---------------------------
(* Instances of ConnLimiter for TLC. *)
EXTENDS ConnLimiter, TLC

CONSTANTS k1, k2, k3, k4, k5, i1, i2

Symmetry == Permutations(Conn) \cup Permutations(IP)
=============================================================================
