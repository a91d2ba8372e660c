------------------------------ MODULE OneTunnel ------------------------------
(***************************************************************************)
(* What the helper daemon promises its clients about tunnels, without the  *)
(* goroutines, locks and channels it keeps the promise with.  There is at  *)
(* most one tunnel.  A stop names the tunnel it found; it is answered when *)
(* that tunnel is down, and never before.  A tunnel that ends was either   *)
(* asked to, and is reported as disconnected, or was not, and is reported  *)
(* as failed, with an error, until the next one starts.                    *)
(***************************************************************************)
CONSTANTS
    Client,      \* who may ask for a tunnel or for its end
    Tunnel,      \* the tunnels that can be had
    None         \* no tunnel

VARIABLES
    up,          \* the tunnel there is, as a set
    down,        \* the tunnels that are over
    stops,       \* the tunnel each client is waiting to see the end of
    status,      \* what a client is told
    error        \* it is told of an error

Going == {"connecting", "connected", "reconnecting"}

Init ==
    /\ up = {} /\ down = {}
    /\ stops = [p \in Client |-> None]
    /\ status = "disconnected" /\ error = FALSE

Begin(t) ==
    /\ up = {} /\ t \notin down
    /\ up' = {t}
    /\ status' = "connecting" /\ error' = FALSE
    /\ UNCHANGED <<down, stops>>

Report(st) ==
    /\ up # {}
    /\ status' = st
    /\ UNCHANGED <<up, down, stops, error>>

AskStop(p, t) ==
    /\ stops[p] = None
    /\ t \in up \cup down
    /\ stops' = [stops EXCEPT ![p] = t]
    /\ UNCHANGED <<up, down, status, error>>

End(t) ==
    /\ up = {t}
    /\ up' = {} /\ down' = down \cup {t}
    /\ status' = IF \E p \in Client : stops[p] = t THEN "disconnected" ELSE "failed"
    /\ error' = (status' = "failed")
    /\ UNCHANGED stops

Answer(p) ==
    /\ stops[p] \in down
    /\ stops' = [stops EXCEPT ![p] = None]
    /\ UNCHANGED <<up, down, status, error>>

Next ==
    \/ \E t \in Tunnel : Begin(t) \/ End(t)
    \/ \E st \in Going : Report(st)
    \/ \E p \in Client : Answer(p) \/ \E t \in Tunnel : AskStop(p, t)

Spec == Init /\ [][Next]_<<up, down, stops, status, error>>
=============================================================================
