----------------------------- MODULE MCVlessNode -----------------------------
(* Instances of VlessNode for TLC. *)
EXTENDS VlessNode, TLC

CONSTANTS n1, n2, u1, u2, bot, shell

(* A bound on what is remembered of vpn-vless link, on which nothing depends: one
   credential is followed from when it is printed until it leaves the list. *)
FollowPrinted == (\A a, b \in printed : a = b) /\ printed \subseteq IdsOf(list)

Symmetry == Permutations(Name) \cup Permutations(Uuid)
=============================================================================
