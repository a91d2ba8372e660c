------------------------------- MODULE Watchdog -------------------------------
(***************************************************************************)
(* The bot's watchdog (internal/watchdog) beside the server of NodeHealth. *)
(* Each poll asks the health endpoint, whose report looks at the deny list *)
(* like any handshake, and folds the answer into the alerting state.  The  *)
(* answer is of the moment when it was made, not of the one when it is     *)
(* observed, and a message to the owner may be lost: Notify is the bot's   *)
(* reply, which only logs an error.  The bot may die and start anew.       *)
(***************************************************************************)
EXTENDS NodeHealth

CONSTANTS
    FailuresBeforeAlert  \* bad polls in a row before an alert

ASSUME AlertAssumption == FailuresBeforeAlert \in Nat \ {0}

VARIABLES
    obs,         \* the poll's outcome: "none" yet, "error", "notReady", "ready", "warning"
    failures, alerted,
    warned,      \* lastWarning is what the report still says, and was sent lately
    heard,       \* what the owner last heard: "fine" or "outage"
    lost,        \* the last change of that was sent and did not arrive
    forgot       \* the bot died after an alert, and has not changed its mind since

watcher == <<obs, failures, alerted, warned>>
owner == <<heard, lost, forgot>>
watchVars == <<nodeVars, watcher, owner>>

WatchInit ==
    /\ NodeInit
    /\ obs = "none" /\ failures = 0 /\ alerted = FALSE /\ warned = FALSE
    /\ heard = "fine" /\ lost = FALSE /\ forgot = FALSE

-----------------------------------------------------------------------------
(* poll: the server answers with a report, ... *)
PollAnswered ==
    /\ obs = "none" /\ Answers
    /\ obs' = IF ~Ready THEN "notReady" ELSE IF Warns THEN "warning" ELSE "ready"
    /\ LookUp
    /\ UNCHANGED <<fileVars, node, cert, failures, alerted, warned, owner>>

(* ... or nothing comes back that is one, or nothing in time. *)
PollFails ==
    /\ obs = "none"
    /\ obs' = "error"
    /\ UNCHANGED <<nodeVars, failures, alerted, warned, owner>>

(* A message about the state of the node, which may get lost. *)
Tell(what) ==
    /\ \/ heard' = what /\ lost' = FALSE
       \/ heard' = heard /\ lost' = TRUE
    /\ forgot' = FALSE

\* Plausible bugs, to test the run against: each stands for the definition that its
\* name starts with.
BadWhenUnready == obs = "notReady"
ObserveGoodQuietly ==
    /\ obs \in {"ready", "warning"} /\ obs' = "none"
    /\ alerted' = FALSE /\ failures' = 0
    /\ warned' = (obs = "warning")
    /\ UNCHANGED <<nodeVars, owner>>

(* classify: an endpoint that cannot be understood is as bad as one that says it
   is not ready. *)
Bad == obs \in {"error", "notReady"}

\* The count stops where it no longer matters.
CountUp(n) == IF n < FailuresBeforeAlert THEN n + 1 ELSE n

(* Observe: a bad poll; enough of them in a row are an alert, once. *)
ObserveBad ==
    /\ Bad /\ obs' = "none"
    /\ failures' = CountUp(failures)
    /\ IF ~alerted /\ failures' >= FailuresBeforeAlert
         THEN alerted' = TRUE /\ Tell("outage")
         ELSE UNCHANGED <<alerted, owner>>
    /\ UNCHANGED <<nodeVars, warned>>

(* A good one ends the run, and an outage that was announced; then maybeWarn. *)
ObserveGood ==
    /\ obs \in {"ready", "warning"} /\ obs' = "none"
    /\ IF alerted THEN alerted' = FALSE /\ Tell("fine") ELSE UNCHANGED <<alerted, owner>>
    /\ failures' = 0
    /\ warned' = (obs = "warning")
    /\ UNCHANGED nodeVars

(* The text of a warning changes with the days, and one that lasts is repeated. *)
WarningIsDue ==
    /\ warned /\ warned' = FALSE
    /\ UNCHANGED <<nodeVars, obs, failures, alerted, owner>>

Restart ==
    /\ obs' = "none" /\ failures' = 0 /\ alerted' = FALSE /\ warned' = FALSE
    /\ forgot' = (forgot \/ alerted)
    /\ UNCHANGED <<nodeVars, heard, lost>>

-----------------------------------------------------------------------------
NodeActs == NodeStep /\ UNCHANGED <<watcher, owner>>

WatchNext ==
    \/ NodeActs
    \/ PollAnswered \/ PollFails \/ ObserveBad \/ ObserveGood
    \/ WarningIsDue \/ Restart

(* Run polls and observes for as long as the bot lives; a poll that is answered
   again and again is not timed out every time.  Nobody owes a restart. *)
WatchSpec ==
    /\ WatchInit /\ [][WatchNext]_watchVars
    /\ WF_watchVars(PollAnswered \/ PollFails) /\ SF_watchVars(PollAnswered)
    /\ WF_watchVars(ObserveBad \/ ObserveGood)

-----------------------------------------------------------------------------
WatchTypeOK ==
    /\ NodeTypeOK
    /\ obs \in {"none", "error", "notReady", "ready", "warning"}
    /\ failures \in 0..FailuresBeforeAlert
    /\ alerted \in BOOLEAN /\ warned \in BOOLEAN
    /\ heard \in {"fine", "outage"} /\ lost \in BOOLEAN /\ forgot \in BOOLEAN

(* The owner's last news is what the watchdog thinks, unless the message that
   changed it was lost or the bot has restarted since (watchdog.go:164). *)
OwnerKnows == (alerted <=> heard = "outage") \/ lost \/ forgot

(* An outage that does not end by itself is alerted, if the bot lives. *)
OutageIsAlerted == <>[](~Ready) /\ <>[][~Restart]_watchVars => <>[]alerted
=============================================================================
