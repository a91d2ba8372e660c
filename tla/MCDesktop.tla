------------------------------ MODULE MCDesktop ------------------------------
(* Instances of ProfileDraft, HostResolver and ClientPath for TLC.  The app's
   draft, the helper's resolver and the client's routes and guard share no state,
   so that interleaving them shows nothing: each moves while the others are as they
   were at first. *)
EXTENDS ProfileDraft, HostResolver, ClientPath, TLC

CONSTANTS p, q, a1, a2, c1, c2, s1, s2, v1, v2, g1, g2

\* Two nodes' lists that overlap: one address has been moved.
MCListOf == p :> {a1, a2} @@ q :> {a2}

Symmetry == Permutations(Call) \cup Permutations(Service)

\* Any platform, setting and gateway, or one of them when something else moves.
OneResolver == ResolverInit /\ platform = "file"
OnePath == Init /\ AllowInsecureLeak /\ gwNow = g1

MCInit == DraftInit /\ ResolverInit /\ Init

MCNext ==
    \/ OneResolver /\ OnePath /\ DraftNext /\ UNCHANGED <<resolverVars, vars>>
    \/ DraftInit /\ OnePath /\ ResolverNext /\ UNCHANGED <<draftVars, vars>>
    \/ DraftInit /\ OneResolver /\ Next /\ UNCHANGED <<draftVars, resolverVars>>

MCSpec == MCInit /\ [][MCNext]_<<draftVars, resolverVars, vars>>
=============================================================================
