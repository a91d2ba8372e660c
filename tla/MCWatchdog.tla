------------------------------ MODULE MCWatchdog ------------------------------
(* Instances of Watchdog for TLC. *)
EXTENDS Watchdog

CONSTANTS s1, s2
=============================================================================
