--------------------------- MODULE MCHelperDaemon ---------------------------
(* Instances of HelperDaemon for TLC. *)
EXTENDS HelperDaemon

CONSTANTS h1, h2, h3, s1, s2
=============================================================================
