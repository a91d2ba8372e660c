---------------------------- MODULE ReconnectLoop ----------------------------
(***************************************************************************)
(* The client's reconnect loop and its endpoint ring                       *)
(* (internal/tunnel/client: reconnect.go, endpoints.go, the phases of      *)
(* connectOnce in client.go and the TUN poller's report).                  *)
(*                                                                         *)
(* One goroutine runs the loop; the user's cancellation, the death of the  *)
(* TUN device and everything the server does happen around it at any step. *)
(* connectOnce is reduced to its phases and outcomes: an error is          *)
(* retryable, a suspected certificate rejection, or fatal; an attempt is   *)
(* long when it held for reconnectResetAfter.  What a session does inside  *)
(* is ClientSession; how long a wait is, is left out.                      *)
(***************************************************************************)
EXTENDS Naturals, FiniteSets

CONSTANTS
    N,                  \* number of endpoints in the profile
    Preferred,          \* index of the one that worked last time
    suspectedAuthLimit, \* alerts in a row that end the loop
    MaxAttempt          \* attempt saturates here, as the backoff does

ASSUME LoopAssumption ==
    /\ N \in Nat \ {0}
    /\ Preferred \in 0..(N - 1)
    /\ suspectedAuthLimit \in Nat \ {0}
    /\ MaxAttempt \in Nat

VARIABLES
    pc,          \* where the loop is
    attempt,     \* the backoff exponent
    suspected,   \* suspectedAuth: certificate alerts in a row
    idx, tried,  \* endpointRing
    cycled,      \* what advance answered
    err, long,   \* how the last attempt ended, and whether it held
    ctx,         \* the context is cancelled
    dev,         \* devDead: "alive", "reported" (buffered) or "taken"
    exit,        \* how the loop ended
    failed,      \* endpoints that failed since the last success or wait
    alerts       \* attempts in a row that ended with a certificate alert

vars == <<pc, attempt, suspected, idx, tried, cycled, err, long, ctx, dev, exit,
          failed, alerts>>
ring == <<idx, tried>>
ghosts == <<failed, alerts>>
outcome == <<err, long>>
env == <<ctx, dev>>

Endpoints == 0..(N - 1)
Errors == {"nil", "retry", "suspect", "fatal", "fatalDevice"}
isFatal(e) == e \in {"fatal", "fatalDevice"}

\* Attempts that connectOnce has under way.
Dialing == {"connect", "handshake", "firstFrame"}

Init ==
    /\ pc = "top"
    /\ attempt = 0 /\ suspected = 0
    /\ idx = Preferred /\ tried = 0 /\ cycled = FALSE
    /\ err = "nil" /\ long = FALSE
    /\ ctx = FALSE /\ dev = "alive"
    /\ exit = "running"
    /\ failed = {} /\ alerts = 0

-----------------------------------------------------------------------------
\* (idx + 1) % len(eps)
Successor(i) == IF i + 1 < N THEN i + 1 ELSE 0

Exit(e) == pc' = "exited" /\ exit' = e

\* Plausible bugs, to test the runs against: each stands for the definition
\* its name starts with.
advanceInPlace ==
    /\ idx' = idx
    /\ cycled' = (tried + 1 >= N)
    /\ tried' = IF tried + 1 >= N THEN 0 ELSE tried + 1

StartConnectBlind ==
    /\ pc = "top"
    /\ pc' = "connect"
    /\ UNCHANGED <<attempt, suspected, ring, cycled, outcome, env, exit, ghosts>>

HandshakeFailsDeaf(e, l) ==
    /\ pc = "handshake" /\ ~ctx
    /\ e \in {"retry", "suspect", "fatal"}
    /\ pc' = "failed"
    /\ err' = e /\ long' = l
    /\ failed' = failed \cup {idx}
    /\ alerts' \in 0..suspectedAuthLimit
    /\ UNCHANGED <<attempt, suspected, ring, cycled, env, exit>>

advance ==
    /\ idx' = Successor(idx)
    /\ cycled' = (tried + 1 >= N)
    /\ tried' = IF tried + 1 >= N THEN 0 ELSE tried + 1

succeeded ==
    /\ tried' = 0
    /\ UNCHANGED idx

(* suspectedAuthExit: the new streak; any other error resets it. *)
SuspectedAuth == IF err = "suspect" THEN suspected + 1 ELSE 0

-----------------------------------------------------------------------------
(* The top of the loop: a device that died meanwhile ends it. *)
DeviceDied ==
    /\ pc = "top"
    /\ dev = "reported"
    /\ dev' = "taken"
    /\ Exit("fatalDevice")
    /\ UNCHANGED <<attempt, suspected, ring, cycled, outcome, ctx, ghosts>>

StartConnect ==
    /\ pc = "top"
    /\ dev # "reported"
    /\ pc' = "connect"
    /\ UNCHANGED <<attempt, suspected, ring, cycled, outcome, env, exit, ghosts>>

(* connectOnce.  An attempt ends with an error; the endpoint it was for has
   failed, for the ghosts that judge the ring. *)
AttemptEnds(e, l) ==
    /\ pc' = "failed"
    /\ err' = e /\ long' = l
    /\ failed' = failed \cup {idx}
    /\ alerts' = IF e # "suspect" THEN 0
                 ELSE IF alerts < suspectedAuthLimit THEN alerts + 1 ELSE alerts

DialFails(e, l) ==
    /\ AttemptEnds(e, l)
    /\ UNCHANGED <<attempt, suspected, ring, cycled, env, exit>>

(* Resolving and the TCP connect: the operating system gives up in the end. *)
Connected ==
    /\ pc = "connect"
    /\ ~ctx
    /\ pc' = "handshake"
    /\ UNCHANGED <<attempt, suspected, ring, cycled, outcome, env, exit, ghosts>>

ConnectFails(l) ==
    /\ pc = "connect"
    /\ DialFails("retry", l)

(* The TLS handshake, in DialContext: nothing bounds it but the context. *)
HandshakeOK ==
    /\ pc = "handshake"
    /\ pc' = "firstFrame"
    /\ UNCHANGED <<attempt, suspected, ring, cycled, outcome, env, exit, ghosts>>

HandshakeFails(e, l) ==
    /\ pc = "handshake"
    /\ e \in {"retry", "suspect", "fatal"}
    /\ DialFails(e, l)

(* The first frame, within HandshakeTimeout: an error of any kind, or AssignIP,
   upon which the ring and the caller learn that the endpoint works. *)
FirstFrameFails(e, l) ==
    /\ pc = "firstFrame"
    /\ e \in {"retry", "suspect", "fatal"}
    /\ DialFails(e, l)

Assigned ==
    /\ pc = "firstFrame"
    /\ pc' = "assigned"
    /\ succeeded
    /\ failed' = {}
    /\ UNCHANGED <<attempt, suspected, cycled, outcome, env, exit, alerts>>

(* ensureConfigured, ensureLeakProtection, ensureRoutes, ensureDNS. *)
SetUpFails(l) ==
    /\ pc = "assigned"
    /\ AttemptEnds("fatal", l)
    /\ UNCHANGED <<attempt, suspected, ring, cycled, env, exit>>

SetUpOK ==
    /\ pc = "assigned"
    /\ pc' = "session"
    /\ UNCHANGED <<attempt, suspected, ring, cycled, outcome, env, exit, ghosts>>

(* runSession's select: an error of one of its goroutines, the device, or the
   context.  What comes first is what the session will return ... *)
Verdict(e) ==
    /\ pc = "session" /\ pc' = "teardown"
    /\ err' = e
    /\ UNCHANGED <<attempt, suspected, ring, cycled, long, ctx, exit, ghosts>>

SessionFails(e) ==
    /\ Verdict(e)
    /\ e \in {"retry", "fatal"}
    /\ UNCHANGED dev

SessionLosesDevice ==
    /\ Verdict("fatalDevice")
    /\ dev = "reported" /\ dev' = "taken"

SessionCancelled ==
    /\ Verdict("nil")
    /\ ctx
    /\ UNCHANGED dev

(* ... once its goroutines have ended and the connection is closed. *)
SessionReturns(l) ==
    /\ pc = "teardown"
    /\ AttemptEnds(err, l)
    /\ UNCHANGED <<attempt, suspected, ring, cycled, env, exit>>

-----------------------------------------------------------------------------
(* After the attempt: nil, cancellation, fatal errors, repeated alerts. *)
FailEndsClean ==
    /\ pc = "failed"
    /\ err = "nil" \/ ctx
    /\ Exit("nil")
    /\ UNCHANGED <<attempt, suspected, ring, cycled, outcome, env, ghosts>>

FailEndsFatal ==
    /\ pc = "failed"
    /\ ~ctx /\ isFatal(err)
    /\ Exit(err)
    /\ UNCHANGED <<attempt, suspected, ring, cycled, outcome, env, ghosts>>

FailEndsSuspected ==
    /\ pc = "failed"
    /\ ~ctx /\ err = "suspect" /\ SuspectedAuth >= suspectedAuthLimit
    /\ suspected' = SuspectedAuth
    /\ Exit("suspect")
    /\ UNCHANGED <<attempt, ring, cycled, outcome, env, ghosts>>

(* ... or on to the next endpoint. *)
Advance ==
    /\ pc = "failed"
    /\ ~ctx
    /\ \/ err = "retry"
       \/ err = "suspect" /\ SuspectedAuth < suspectedAuthLimit
    /\ suspected' = SuspectedAuth
    /\ attempt' = IF long THEN 0 ELSE attempt
    /\ advance
    /\ pc' = "advanced"
    /\ UNCHANGED <<outcome, env, exit, ghosts>>

AdvancedEndsClean ==
    /\ pc = "advanced"
    /\ ctx
    /\ Exit("nil")
    /\ UNCHANGED <<attempt, suspected, ring, cycled, outcome, env, ghosts>>

TryNext ==
    /\ pc = "advanced"
    /\ ~ctx /\ ~cycled
    /\ pc' = "top"
    /\ UNCHANGED <<attempt, suspected, ring, cycled, outcome, env, exit, ghosts>>

Schedule ==
    /\ pc = "advanced"
    /\ ~ctx /\ cycled
    /\ pc' = "wait"
    /\ UNCHANGED <<attempt, suspected, ring, cycled, outcome, env, exit, ghosts>>

(* The select of the backoff wait: any ready case. *)
WaitOver ==
    /\ pc = "wait"
    /\ pc' = "top"
    /\ attempt' = IF attempt < MaxAttempt THEN attempt + 1 ELSE attempt
    /\ failed' = {}
    /\ UNCHANGED <<suspected, ring, cycled, outcome, env, exit, alerts>>

WaitCancelled ==
    /\ pc = "wait"
    /\ ctx
    /\ Exit("nil")
    /\ UNCHANGED <<attempt, suspected, ring, cycled, outcome, env, ghosts>>

WaitLosesDevice ==
    /\ pc = "wait"
    /\ dev = "reported"
    /\ dev' = "taken"
    /\ Exit("fatalDevice")
    /\ UNCHANGED <<attempt, suspected, ring, cycled, outcome, ctx, ghosts>>

-----------------------------------------------------------------------------
Cancel ==
    /\ ~ctx
    /\ ctx' = TRUE
    /\ UNCHANGED <<pc, attempt, suspected, ring, cycled, outcome, dev, exit, ghosts>>

(* runDevicePoller: it reports unless the context is cancelled. *)
DeviceDies ==
    /\ dev = "alive" /\ ~ctx
    /\ dev' = "reported"
    /\ UNCHANGED <<pc, attempt, suspected, ring, cycled, outcome, ctx, exit, ghosts>>

Attempt ==
    \/ Connected \/ HandshakeOK \/ Assigned \/ SetUpOK
    \/ \E l \in BOOLEAN :
          \/ ConnectFails(l)
          \/ \E e \in Errors : HandshakeFails(e, l) \/ FirstFrameFails(e, l)
          \/ SetUpFails(l) \/ SessionReturns(l)
    \/ \E e \in Errors : SessionFails(e)
    \/ SessionLosesDevice \/ SessionCancelled

Loop ==
    \/ DeviceDied \/ StartConnect
    \/ FailEndsClean \/ FailEndsFatal \/ FailEndsSuspected
    \/ Advance \/ AdvancedEndsClean \/ TryNext \/ Schedule
    \/ WaitOver \/ WaitCancelled \/ WaitLosesDevice

Next == Loop \/ Attempt \/ Cancel \/ DeviceDies

Spec == Init /\ [][Next]_vars

(* The loop's own code and its timers run.  connectOnce moves by itself where
   something bounds it: the system's connect timeout, HandshakeTimeout for the
   first frame, its own set-up code, and the context up to there.  A session looks
   at the context and the device.  Neither the handshake nor a session ends by
   itself, and a teardown need not end at all: its reader renews the deadline that
   was to stop it, and goes on for as long as the server sends (client.go:881). *)
ConnectEnds == Connected \/ \E l \in BOOLEAN : ConnectFails(l)
FirstFrameEnds ==
    Assigned \/ \E l \in BOOLEAN, e \in Errors : FirstFrameFails(e, l)
SetUpEnds == SetUpOK \/ \E l \in BOOLEAN : SetUpFails(l)
HandshakeAborts == ctx /\ \E l \in BOOLEAN : HandshakeFails("retry", l)
SessionLooks == SessionLosesDevice \/ SessionCancelled

Fairness ==
    /\ WF_vars(Loop) /\ WF_vars(ConnectEnds) /\ WF_vars(FirstFrameEnds)
    /\ WF_vars(SetUpEnds) /\ WF_vars(HandshakeAborts) /\ WF_vars(SessionLooks)

FairSpec == Spec /\ Fairness

-----------------------------------------------------------------------------
(* Types. *)
TypeOK ==
    /\ pc \in Dialing \cup {"top", "assigned", "session", "teardown", "failed",
                       "advanced", "wait", "exited"}
    /\ attempt \in 0..MaxAttempt
    /\ suspected \in 0..suspectedAuthLimit
    /\ idx \in Endpoints /\ tried \in 0..(N - 1) /\ cycled \in BOOLEAN
    /\ err \in Errors /\ long \in BOOLEAN
    /\ ctx \in BOOLEAN /\ dev \in {"alive", "reported", "taken"}
    /\ exit \in {"running", "nil", "suspect", "fatal", "fatalDevice"}
    /\ failed \subseteq Endpoints /\ alerts \in 0..suspectedAuthLimit

(* "Every endpoint has now failed once since the last success: waiting is
   earned" (reconnect.go:96): the loop does not wait before the whole list was
   tried, wherever the list was entered and whatever succeeded in between. *)
WaitIsEarned == pc = "wait" => failed = Endpoints

(* ... and does wait before it dials an endpoint a second time, unless an
   endpoint has worked since. *)
NoRetryWithoutWait == pc \in Dialing => idx \notin failed

(* Both: between two waits every endpoint is tried, and none twice. *)
RoundsArePaced == WaitIsEarned /\ NoRetryWithoutWait

(* The loop ends without an error only when its context was cancelled: an
   ended client that reports nothing is one the user stopped. *)
NilExitMeansCancelled == exit = "nil" => ctx

(* A dead TUN device that was taken out of devDead ends the loop and is its
   error, unless the user cancelled: nobody swallows the only report. *)
DeathEndsLoop == dev = "taken" /\ pc = "exited" => exit = "fatalDevice" \/ ctx

(* Both: what the loop returns tells the helper why it ended. *)
ExitsHaveCauses == NilExitMeansCancelled /\ DeathEndsLoop

(* A forged certificate alert must not end the client (reconnect.go:268): the
   loop gives up only after suspectedAuthLimit attempts in a row ended so. *)
GivesUpOnlyOnRun == exit = "suspect" => alerts >= suspectedAuthLimit

(* The loop is the engine that HelperDaemon runs as its one session: the session's
   context is the loop's, and it has returned when the loop has. *)
Helper == INSTANCE HelperDaemon WITH
    Handler <- {}, Session <- {"engine"}, NoSession <- "none", maxAcceptFailures <- 1,
    srv <- "accept", listener <- TRUE, fails <- 0, ctx <- FALSE,
    pc <- [p \in {"main"} |-> "idle"], target <- [p \in {"main"} |-> "none"],
    sess <- [s \in {"engine"} |-> IF pc = "exited" THEN "returned" ELSE "running"],
    cancelled <- [s \in {"engine"} |-> ctx],
    failed <- [s \in {"engine"} |-> pc = "exited" /\ exit # "nil"],
    cur <- "engine", active <- TRUE, state <- "connecting", lastErr <- FALSE
EngineOfHelper == Helper!EngineKeepsTerms

(* A teardown that never ends: ClientSession says when it does (TeardownEndsOnceQuiet). *)
HeldInTeardown == [](pc = "teardown")

(* Cancellation ends the loop from wherever it is, unless the teardown of its session
   never ends. *)
CancelEndsLoop == ctx ~> (pc = "exited" \/ HeldInTeardown)

(* What stands behind that "wherever": a cancelled loop only ever comes closer to its
   end, by at most six steps, whatever the servers answer and the device does.  It
   neither goes round again nor begins a second attempt. *)
StepsToGo ==
    [exited |-> 0, failed |-> 1, advanced |-> 1, teardown |-> 2, connect |-> 2, session |-> 3,
     assigned |-> 4, firstFrame |-> 5, handshake |-> 6, top |-> 3, wait |-> 4][pc]
CancelledLoopWindsUp == [][ctx => pc' = pc \/ StepsToGo' < StepsToGo]_vars

(* A dead device ends the loop unless an attempt is on its way, which then decides, or
   a teardown never ends. *)
DeadDeviceEndsLoop ==
    dev = "reported" /\ pc \notin Dialing ~> (pc = "exited" \/ HeldInTeardown)

=============================================================================
