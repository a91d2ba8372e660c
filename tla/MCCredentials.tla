---------------------------- MODULE MCCredentials ----------------------------
(* Instances of Credentials for TLC: a bot and a shell, two names, of which the
   first has a certificate from before the ledger. *)
EXTENDS Credentials, TLC

CONSTANTS n1, n2, s0, s1, s2, t1, t2, bot, cli

FirstPredates == n1 :> s0 @@ n2 :> None

(* Bounds.  Invites are for the first name only; the shell issues for both.
   Behind issuing commands that cross, tokens do not expire. *)
FirstInvited ==
    /\ \A p \in Proc : op[p] = "invite" => nm[p] = n1
    /\ crossed => expired = {}

Symmetry == Permutations(Serial \ {s0}) \cup Permutations(Token)
=============================================================================
