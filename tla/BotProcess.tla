------------------------------ MODULE BotProcess ------------------------------
(***************************************************************************)
(* The process of vpn-bot serve (cmd/vpn-bot/main.go): the goroutine that  *)
(* polls Telegram for updates, the main loop that handles them, the        *)
(* uploads of installers, the watchdog's goroutine, and the ways out.      *)
(*                                                                         *)
(* Telegram (external) keeps the updates of a bot in order.  A request for *)
(* the updates from an offset on drops everything below it: that is the    *)
(* only acknowledgement.  The process may be stopped by a signal, give up  *)
(* after too many failed polls, or die at any point; a supervisor starts   *)
(* it again, with an offset of zero.                                       *)
(***************************************************************************)
EXTENDS Naturals, FiniteSets

CONSTANTS
    MaxUpdate,        \* updates are numbered 1..MaxUpdate
    Taps,             \* those that are button taps; the others are messages
    MaxPollFailures,  \* polls that may fail in a row
    MaxUploads,       \* installers uploaded at once
    MaxStarts         \* bound: how often the process is started

Update == 1..MaxUpdate

ASSUME BotAssumption ==
    /\ MaxUpdate \in Nat /\ Taps \subseteq Update
    /\ MaxPollFailures \in Nat \ {0} /\ MaxUploads \in Nat \ {0} /\ MaxStarts \in Nat \ {0}

VARIABLES
    arrived,     \* updates 1..arrived have been sent to the bot
    dropped,     \* Telegram has dropped those below this number
    poller,      \* "head" of its loop, "ask", "offer", "backoff", "fatal" or "gone"
    batch,       \* the last update of the poller's batch
    offset,      \* the next update to ask for
    failures,    \* failed polls in a row
    main,        \* "select", "handle", "slot", "shutdown", "giveUp", "exited" or "failed"
    current,     \* the update that main holds, or 0
    uploads,     \* taps whose installer is being uploaded
    watchdog,    \* the watchdog's goroutine runs (it was asked for with -watch)
    cancelled,   \* the signal has arrived
    starts,
    handled,     \* updates that were handled
    crashed,     \* updates that were in hand when the process died
    refused      \* taps that a shutdown turned away

telegram == <<arrived, dropped>>
pollVars == <<poller, batch, offset, failures>>
mainVars == <<main, current, uploads, watchdog>>
botGhosts == <<handled, crashed, refused>>
botVars == <<telegram, pollVars, mainVars, cancelled, starts, botGhosts>>

Fresh(watched) ==
    /\ poller = "head" /\ batch = 0 /\ offset = 0 /\ failures = 0
    /\ main = "select" /\ current = 0 /\ uploads = {} /\ watchdog = watched
    /\ cancelled = FALSE

BotInit ==
    /\ arrived = 0 /\ dropped = 1 /\ starts = 1
    /\ \E watched \in BOOLEAN : Fresh(watched)
    /\ handled = {} /\ crashed = {} /\ refused = {}

Running == main \notin {"exited", "failed"}

-----------------------------------------------------------------------------
(* Plausible bugs, to test the runs against: each stands for the definition that its
   name starts with. *)
GetUpdatesConfirmed ==
    /\ Running /\ poller = "ask"
    /\ failures' = 0
    /\ \E last \in dropped..arrived :
          poller' = "offer" /\ batch' = last /\ offset' = dropped /\ dropped' = last + 1
    /\ UNCHANGED <<arrived, mainVars, cancelled, starts, botGhosts>>
WatchdogStopsNever == FALSE
LeaveOnSignalOnly ==
    /\ main = "shutdown" /\ uploads = {} /\ ~watchdog
    /\ main' = "exited"
    /\ UNCHANGED <<telegram, pollVars, current, uploads, watchdog, cancelled, starts, botGhosts>>

-----------------------------------------------------------------------------
(* pollUpdates. *)

Ask ==
    /\ Running /\ poller = "head" /\ ~cancelled
    /\ poller' = "ask"
    /\ UNCHANGED <<telegram, batch, offset, failures, mainVars, cancelled, starts, botGhosts>>

(* GetUpdates: Telegram drops what is below the offset and returns the rest, or
   nothing in the end.  The offset of a new process is zero, which drops nothing.
   The request knows nothing of the context. *)
GetUpdates ==
    /\ Running /\ poller = "ask"
    /\ dropped' = IF offset > dropped THEN offset ELSE dropped
    /\ failures' = 0
    /\ \/ \E last \in dropped'..arrived :
            poller' = "offer" /\ batch' = last /\ offset' = dropped'
       \/ poller' = "head" /\ UNCHANGED <<batch, offset>>
    /\ UNCHANGED <<arrived, mainVars, cancelled, starts, botGhosts>>

(* The request may have reached Telegram all the same, and only its answer been lost.
   The last of too many failures in a row goes into a channel that has room. *)
PollFails ==
    /\ Running /\ poller = "ask"
    /\ dropped' \in {dropped, IF offset > dropped THEN offset ELSE dropped}
    /\ failures' = failures + 1
    /\ poller' = IF failures' >= MaxPollFailures THEN "fatal" ELSE "backoff"
    /\ UNCHANGED <<arrived, batch, offset, mainVars, cancelled, starts, botGhosts>>

BackoffEnds ==
    /\ Running /\ poller = "backoff"
    /\ poller' = "head"
    /\ UNCHANGED <<telegram, batch, offset, failures, mainVars, cancelled, starts, botGhosts>>

(* Every select of the poller, and the head of its loop, sees the cancellation. *)
PollerStops ==
    /\ Running /\ cancelled
    /\ poller \in {"head", "offer", "backoff", "fatal"}
    /\ poller' = "gone"
    /\ UNCHANGED <<telegram, batch, offset, failures, mainVars, cancelled, starts, botGhosts>>

-----------------------------------------------------------------------------
(* The main loop. *)

(* The unbuffered channel: the poller goes on when main has taken the update. *)
TakeUpdate ==
    /\ main = "select" /\ poller = "offer"
    /\ offset' = offset + 1 /\ current' = offset
    /\ poller' = IF offset' > batch THEN "head" ELSE "offer"
    /\ main' = IF offset \in Taps THEN "slot" ELSE "handle"
    /\ UNCHANGED <<telegram, batch, failures, uploads, watchdog, cancelled, starts, botGhosts>>

(* A message is handled in line, whatever happens meanwhile. *)
HandleUpdate ==
    /\ main = "handle" /\ main' = "select"
    /\ handled' = handled \cup {current} /\ current' = 0
    /\ UNCHANGED <<telegram, pollVars, uploads, watchdog, cancelled, starts, crashed, refused>>

(* A tap needs an upload slot, ... *)
StartUpload ==
    /\ main = "slot" /\ Cardinality(uploads) < MaxUploads
    /\ main' = "select" /\ current' = 0
    /\ uploads' = uploads \cup {current}
    /\ UNCHANGED <<telegram, pollVars, watchdog, cancelled, starts, botGhosts>>

(* ... and is given up when the signal comes first. *)
RefuseTap ==
    /\ main = "slot" /\ cancelled
    /\ main' = "shutdown" /\ current' = 0
    /\ refused' = refused \cup {current}
    /\ UNCHANGED <<telegram, pollVars, uploads, watchdog, cancelled, starts, handled, crashed>>

UploadEnds(u) ==
    /\ u \in uploads /\ uploads' = uploads \ {u}
    /\ handled' = handled \cup {u}
    /\ UNCHANGED <<telegram, pollVars, main, current, watchdog, cancelled, starts, crashed, refused>>

SeeSignal ==
    /\ main = "select" /\ cancelled
    /\ main' = "shutdown"
    /\ UNCHANGED <<telegram, pollVars, current, uploads, watchdog, cancelled, starts, botGhosts>>

TakeFatal ==
    /\ main = "select" /\ poller = "fatal"
    /\ main' = "giveUp" /\ poller' = "gone"
    /\ UNCHANGED <<telegram, batch, offset, failures, current, uploads, watchdog, cancelled,
                   starts, botGhosts>>

(* wg.Wait: for the uploads and for the watchdog. *)
Drained == uploads = {} /\ ~watchdog

Leave ==
    /\ main \in {"shutdown", "giveUp"} /\ Drained
    /\ main' = IF main = "shutdown" THEN "exited" ELSE "failed"
    /\ UNCHANGED <<telegram, pollVars, current, uploads, watchdog, cancelled, starts, botGhosts>>

(* The watchdog runs until the context is done. *)
WatchdogStops ==
    /\ Running /\ watchdog /\ cancelled
    /\ watchdog' = FALSE
    /\ UNCHANGED <<telegram, pollVars, main, current, uploads, cancelled, starts, botGhosts>>

-----------------------------------------------------------------------------
(* The world. *)
Arrive ==
    /\ arrived < MaxUpdate /\ arrived' = arrived + 1
    /\ UNCHANGED <<dropped, pollVars, mainVars, cancelled, starts, botGhosts>>

Signal ==
    /\ Running /\ ~cancelled /\ cancelled' = TRUE
    /\ UNCHANGED <<telegram, pollVars, mainVars, starts, botGhosts>>

(* The process is started again, after an exit or where it died. *)
InHand == (IF current = 0 THEN {} ELSE {current}) \cup uploads
Restart ==
    /\ starts < MaxStarts /\ starts' = starts + 1
    /\ crashed' = crashed \cup (IF Running THEN InHand ELSE {})
    /\ poller' = "head" /\ batch' = 0 /\ offset' = 0 /\ failures' = 0
    /\ main' = "select" /\ current' = 0 /\ uploads' = {} /\ cancelled' = FALSE
    /\ watchdog' \in BOOLEAN
    /\ UNCHANGED <<telegram, handled, refused>>

-----------------------------------------------------------------------------
Poller == Ask \/ GetUpdates \/ PollFails \/ BackoffEnds \/ PollerStops

Main ==
    \/ TakeUpdate \/ HandleUpdate \/ StartUpload \/ RefuseTap
    \/ SeeSignal \/ TakeFatal \/ Leave

BotNext ==
    \/ Poller \/ Main \/ WatchdogStops
    \/ \E u \in Taps : UploadEnds(u)
    \/ Arrive \/ Signal \/ Restart

(* Goroutines run; a request to Telegram ends, one way or the other; select takes
   a case that stays ready sooner or later. *)
BotFairness ==
    /\ WF_botVars(Poller) /\ WF_botVars(Main) /\ SF_botVars(SeeSignal) /\ WF_botVars(WatchdogStops)
    /\ \A u \in Taps : WF_botVars(UploadEnds(u))

BotSpec == BotInit /\ [][BotNext]_botVars /\ BotFairness

-----------------------------------------------------------------------------
BotTypeOK ==
    /\ arrived \in 0..MaxUpdate /\ dropped \in 1..MaxUpdate + 1
    /\ poller \in {"head", "ask", "offer", "backoff", "fatal", "gone"}
    /\ batch \in 0..MaxUpdate /\ offset \in 0..MaxUpdate + 1
    /\ failures \in 0..MaxPollFailures
    /\ main \in {"select", "handle", "slot", "shutdown", "giveUp", "exited", "failed"}
    /\ current \in 0..MaxUpdate /\ uploads \subseteq Taps
    /\ watchdog \in BOOLEAN /\ cancelled \in BOOLEAN /\ starts \in 0..MaxStarts
    /\ handled \subseteq Update /\ crashed \subseteq Update /\ refused \subseteq Taps

(* What Telegram has dropped is handled or in hand: no order of polls, taps, signals,
   exits and restarts loses an update, but for what the process died with and a tap
   that a shutdown turned away; the process that exits by itself has finished what
   it was doing (main.go:262). *)
NothingIsLost ==
    \A u \in Update : u < dropped =>
        u \in handled \cup crashed \cup refused \/ (Running /\ u \in InHand)

(* A stop ends the process, whatever it is doing: a poll, an upload, a message. *)
StopEnds == cancelled ~> ~Running \/ ~cancelled

(* "Exit non-zero so the supervisor notices" (main.go:314): the process that has
   given up polling ends; but for one that watches the node, as nothing ends the
   watchdog's goroutine that it waits for. *)
GivingUpEnds == main = "giveUp" ~> main # "giveUp" \/ watchdog
=============================================================================
