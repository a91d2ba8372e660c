-------------------------- MODULE MCClientSession --------------------------
(* Instances of ClientSession for TLC: its two constants are all there is. *)
EXTENDS ClientSession
=============================================================================
