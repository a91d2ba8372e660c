---------------------------- MODULE MCRetryLoops ----------------------------
(* Instances of ReconnectLoop and BotProcess for TLC: the client's loop, which
   dials until it gives up, and the bot's, which polls until it gives up.  They
   share no state and so never run together here: at first one of them has come to
   its end, which leaves its fairness nothing to ask for. *)
EXTENDS ReconnectLoop, BotProcess

\* The loop was cancelled before it had dialled.
LoopOver ==
    /\ pc = "exited" /\ exit = "nil" /\ ctx = TRUE /\ dev = "alive"
    /\ attempt = 0 /\ suspected = 0 /\ idx = Preferred /\ tried = 0 /\ cycled = FALSE
    /\ err = "nil" /\ long = FALSE /\ failed = {} /\ alerts = 0

\* The last of the bot's lives handled every update and was stopped.
BotOver ==
    /\ arrived = MaxUpdate /\ dropped = MaxUpdate + 1 /\ starts = MaxStarts
    /\ poller = "gone" /\ batch = MaxUpdate /\ offset = MaxUpdate + 1 /\ failures = 0
    /\ main = "exited" /\ current = 0 /\ uploads = {} /\ watchdog = FALSE
    /\ cancelled = TRUE
    /\ handled = Update /\ crashed = {} /\ refused = {}

MCInit == (Init /\ BotOver) \/ (LoopOver /\ BotInit)

MCNext == (Next /\ UNCHANGED botVars) \/ (BotNext /\ UNCHANGED vars)

MCSpec == MCInit /\ [][MCNext]_<<vars, botVars>> /\ Fairness /\ BotFairness
=============================================================================
