---------------------------- MODULE MCVpnServer ----------------------------
(* Instances of VpnServer for TLC. *)
EXTENDS VpnServer, TLC

CONSTANTS c1, c2, c3, n1, n2, n3

Symmetry == Permutations(Conn) \cup Permutations(Name)

(* A server that is neither cancelled nor loses its listener: admission,
   reconnects and teardown of three connections, without shutdown. *)
Running == run = "accepting" /\ ~ctxDone /\ tunReader = "running"
=============================================================================
