---------------------------- MODULE HelperDaemon ----------------------------
(***************************************************************************)
(* The privileged helper daemon (cmd/vpn-helper runDaemon, internal/ipc    *)
(* Server, internal/helper Controller).                                    *)
(*                                                                         *)
(* The accept loop spawns a handler per control connection; handlers and,  *)
(* at shutdown, runDaemon itself drive one Controller, which runs at most  *)
(* one session: a goroutine that owns the TUN device and the engine.       *)
(* Connect, onEngineState and the end of run() hold the controller's mutex *)
(* throughout and are one step each.  Disconnect holds it only for its     *)
(* snapshot: it cancels and waits outside.  The engine is external: it may *)
(* fail at any time, and return once it is cancelled.                      *)
(***************************************************************************)
EXTENDS Naturals, FiniteSets

CONSTANTS
    Handler,             \* control connections
    Session,             \* sessions the daemon may start in one life
    NoSession,           \* a nil cancel / done
    maxAcceptFailures

ASSUME DaemonAssumption ==
    /\ NoSession \notin Session
    /\ "main" \notin Handler
    /\ maxAcceptFailures \in Nat \ {0}

VARIABLES
    srv,         \* Serve: "accept", "backoff", "drain" (wg.Wait) or "returned"
    listener,    \* the listener is open
    fails,       \* acceptFails
    ctx,         \* the daemon's context is cancelled
    pc,          \* what each handler, and runDaemon after Serve, is doing
    target,      \* the session a Disconnect took its snapshot of
    sess,        \* life of each session goroutine
    cancelled,   \* its context is cancelled
    failed,      \* its engine returned an error
    cur,         \* Controller.cancel and done: the session they belong to
    active, state, lastErr   \* the other fields of the Controller

vars == <<srv, listener, fails, ctx, pc, target, sess, cancelled, failed, cur,
          active, state, lastErr>>
serve == <<srv, listener, fails>>
ctrl == <<cur, active, state, lastErr>>
sessions == <<sess, cancelled, failed>>

Caller == Handler \cup {"main"}
Live == {"connecting", "connected", "reconnecting"}

\* The device is open from Connect until run() closes it.
DeviceOpen(s) == sess[s] \in {"running", "returned"}
Finished(s) == sess[s] = "over"

Init ==
    /\ srv = "accept" /\ listener = TRUE /\ fails = 0 /\ ctx = FALSE
    /\ pc = [p \in Caller |-> "idle"]
    /\ target = [p \in Caller |-> NoSession]
    /\ sess = [s \in Session |-> "unused"]
    /\ cancelled = [s \in Session |-> FALSE]
    /\ failed = [s \in Session |-> FALSE]
    /\ cur = NoSession
    /\ active = FALSE /\ state = "disconnected" /\ lastErr = FALSE

Goto(p, from, to) == pc[p] = from /\ pc' = [pc EXCEPT ![p] = to]

-----------------------------------------------------------------------------
\* Plausible bugs, to test the runs against: each stands for the definition
\* its name starts with.
CloseListenerAfterServe ==
    /\ ctx /\ listener /\ srv = "returned"
    /\ listener' = FALSE
    /\ UNCHANGED <<srv, fails, ctx, pc, target, sessions, ctrl>>

FinishBlamesCancel(s) ==
    /\ sess[s] = "closed"
    /\ sess' = [sess EXCEPT ![s] = "over"]
    /\ active' = FALSE /\ cur' = NoSession
    /\ IF failed[s]
       THEN state' = "failed" /\ lastErr' = TRUE
       ELSE state' = "disconnected" /\ UNCHANGED lastErr
    /\ UNCHANGED <<serve, ctx, pc, target, cancelled, failed>>

HandlersDoneUnasked == pc["main"] = "idle"

-----------------------------------------------------------------------------
(* Serve. *)
Accept(h) ==
    /\ srv = "accept" /\ listener
    /\ Goto(h, "idle", "read")
    /\ fails' = 0
    /\ UNCHANGED <<srv, listener, ctx, target, sessions, ctrl>>

(* Accept fails: because the listener was closed, or for a transient reason. *)
AcceptError ==
    /\ srv = "accept"
    /\ IF ctx
       THEN srv' = "drain" /\ UNCHANGED fails
       ELSE /\ fails' = fails + 1
            /\ srv' = IF fails' >= maxAcceptFailures THEN "drain" ELSE "backoff"
    /\ UNCHANGED <<listener, ctx, pc, target, sessions, ctrl>>

BackoffOver ==
    /\ srv = "backoff"
    /\ srv' \in IF ctx THEN {"accept", "drain"} ELSE {"accept"}
    /\ UNCHANGED <<listener, fails, ctx, pc, target, sessions, ctrl>>

(* The watcher goroutine; it ends when Serve returns. *)
CloseListener ==
    /\ ctx /\ listener /\ srv # "returned"
    /\ listener' = FALSE
    /\ UNCHANGED <<srv, fails, ctx, pc, target, sessions, ctrl>>

(* wg.Wait: every handler that was accepted has returned. *)
HandlersDone == \A h \in Handler : pc[h] \in {"idle", "gone"}

ServeReturns ==
    /\ srv = "drain"
    /\ HandlersDone
    /\ srv' = "returned"
    /\ UNCHANGED <<listener, fails, ctx, pc, target, sessions, ctrl>>

-----------------------------------------------------------------------------
(* One handler: a request within requestTimeout or none, an unauthorised
   caller, Status, or one of the two commands that change something. *)
ReadEnds(h) ==
    /\ Goto(h, "read", "gone")
    /\ UNCHANGED <<serve, ctx, target, sessions, ctrl>>

Dispatch(h) ==
    /\ pc[h] = "read"
    /\ \E cmd \in {"connect", "disconnect"} : Goto(h, "read", cmd)
    /\ UNCHANGED <<serve, ctx, target, sessions, ctrl>>

(* Connect: already active, a bad request, no device, no engine. *)
Rejected(h) ==
    /\ Goto(h, "connect", "reply")
    /\ UNCHANGED <<serve, ctx, target, sessions, ctrl>>

Connect(h, s) ==
    /\ Goto(h, "connect", "reply")
    /\ ~active
    /\ sess[s] = "unused"
    /\ sess' = [sess EXCEPT ![s] = "running"]
    /\ cur' = s /\ active' = TRUE /\ state' = "connecting" /\ lastErr' = FALSE
    /\ UNCHANGED <<serve, ctx, target, cancelled, failed>>

(* Disconnect, in its three steps; runDaemon calls it after Serve. *)
Snapshot(p) ==
    /\ pc[p] = "disconnect"
    /\ target' = [target EXCEPT ![p] = cur]
    /\ pc' = [pc EXCEPT ![p] = IF cur = NoSession THEN "reply" ELSE "cancel"]
    /\ UNCHANGED <<serve, ctx, sessions, ctrl>>

CancelTarget(p) ==
    /\ Goto(p, "cancel", "wait")
    /\ cancelled' = [cancelled EXCEPT ![target[p]] = TRUE]
    /\ UNCHANGED <<serve, ctx, target, sess, failed, ctrl>>

AwaitDone(p) ==
    /\ Goto(p, "wait", "reply")
    /\ Finished(target[p])
    /\ UNCHANGED <<serve, ctx, target, sessions, ctrl>>

(* WriteResponse, and the handler is gone. *)
Reply(h) ==
    /\ Goto(h, "reply", "gone")
    /\ UNCHANGED <<serve, ctx, target, sessions, ctrl>>

ShutDown ==
    /\ srv = "returned"
    /\ Goto("main", "idle", "disconnect")
    /\ UNCHANGED <<serve, ctx, target, sessions, ctrl>>

(* os.Remove(socket), and the process exits. *)
ExitDaemon ==
    /\ Goto("main", "reply", "gone")
    /\ UNCHANGED <<serve, ctx, target, sessions, ctrl>>

-----------------------------------------------------------------------------
(* The session goroutine.  The engine reports its states and returns an error,
   or nil to a cancelled context. *)
onEngineState(s, st) ==
    /\ sess[s] = "running" /\ active
    /\ state' = st
    /\ UNCHANGED <<serve, ctx, pc, target, sessions, cur, active, lastErr>>

EngineReturns(s, e) ==
    /\ sess[s] = "running"
    /\ e \/ cancelled[s]
    /\ sess' = [sess EXCEPT ![s] = "returned"]
    /\ failed' = [failed EXCEPT ![s] = e]
    /\ UNCHANGED <<serve, ctx, pc, target, cancelled, ctrl>>

CloseDevice(s) ==
    /\ sess[s] = "returned"
    /\ sess' = [sess EXCEPT ![s] = "closed"]
    /\ UNCHANGED <<serve, ctx, pc, target, cancelled, failed, ctrl>>

(* The end of run(), under the lock: the fields are reset and done is closed. *)
Finish(s) ==
    /\ sess[s] = "closed"
    /\ sess' = [sess EXCEPT ![s] = "over"]
    /\ active' = FALSE /\ cur' = NoSession
    /\ IF failed[s] /\ ~cancelled[s]
       THEN state' = "failed" /\ lastErr' = TRUE
       ELSE state' = "disconnected" /\ UNCHANGED lastErr
    /\ UNCHANGED <<serve, ctx, pc, target, cancelled, failed>>

-----------------------------------------------------------------------------
(* SIGTERM, or a stop from the service manager. *)
Stop ==
    /\ ~ctx
    /\ ctx' = TRUE
    /\ UNCHANGED <<serve, pc, target, sessions, ctrl>>

ServeStep == BackoffOver \/ ServeReturns \/ (~listener /\ AcceptError)
HandlerStep(h) ==
    \/ ReadEnds(h) \/ Rejected(h) \/ Reply(h)
    \/ \E s \in Session : Connect(h, s)
DisconnectStep(p) == Snapshot(p) \/ CancelTarget(p) \/ AwaitDone(p)
MainStep == ShutDown \/ ExitDaemon
Closing(s) == CloseDevice(s) \/ Finish(s)

Next ==
    \/ ServeStep \/ AcceptError \/ CloseListener \/ MainStep \/ Stop
    \/ \E h \in Handler : Accept(h) \/ Dispatch(h) \/ HandlerStep(h)
    \/ \E p \in Caller : DisconnectStep(p)
    \/ \E s \in Session :
          \/ Closing(s)
          \/ \E st \in Live : onEngineState(s, st)
          \/ \E e \in BOOLEAN : EngineReturns(s, e)

Spec == Init /\ [][Next]_vars

(* The daemon's goroutines run; a request is read or given up within
   requestTimeout.  Nobody owes a connection or a command, and a cancelled engine
   need not return (ReconnectLoop, HeldInTeardown). *)
Fairness ==
    /\ WF_vars(ServeStep) /\ WF_vars(CloseListener) /\ WF_vars(MainStep)
    /\ \A h \in Handler : WF_vars(HandlerStep(h))
    /\ \A p \in Caller : WF_vars(DisconnectStep(p))
    /\ \A s \in Session : WF_vars(Closing(s))

FairSpec == Spec /\ Fairness

-----------------------------------------------------------------------------
(* Types. *)
TypeOK ==
    /\ srv \in {"accept", "backoff", "drain", "returned"}
    /\ listener \in BOOLEAN /\ ctx \in BOOLEAN
    /\ fails \in 0..maxAcceptFailures
    /\ pc \in [Caller -> {"idle", "read", "connect", "disconnect", "cancel", "wait",
                          "reply", "gone"}]
    /\ target \in [Caller -> Session \cup {NoSession}]
    /\ sess \in [Session -> {"unused", "running", "returned", "closed", "over"}]
    /\ cancelled \in [Session -> BOOLEAN] /\ failed \in [Session -> BOOLEAN]
    /\ cur \in Session \cup {NoSession}
    /\ active \in BOOLEAN /\ lastErr \in BOOLEAN
    /\ state \in Live \cup {"disconnected", "failed"}

(* "A single tunnel session at a time": between opening its device and the end
   of run() a session excludes every other, and the controller's fields are
   about that one. *)
OneSession ==
    \A s \in Session : sess[s] \in {"running", "returned", "closed"} => active /\ cur = s

(* What Status tells the user agrees with what runs: a live state exactly while
   there is a session, and an idle one only after its device is closed. *)
StateFollowsSession ==
    state \in Live <=> \E s \in Session : sess[s] \in {"running", "returned", "closed"}

(* Both: the controller's fields tell the truth about the sessions. *)
ControllerAgrees == OneSession /\ StateFollowsSession

(* Disconnect returns only after the session it found has closed its device and
   left the controller, however commands and session ends interleave. *)
DisconnectMeansDown ==
    \A p \in Caller :
        pc[p] \in {"reply", "gone"} /\ target[p] # NoSession => Finished(target[p])

(* The daemon implements OneTunnel.  A tunnel is up from Connect until run() has
   closed its device and reset the controller, a stop is asked for when Disconnect
   cancels, and Status reads the controller's own fields: whatever the handlers and
   the session do between Disconnect's snapshot, its cancel and its answer, a tunnel
   that was stopped never looks failed, nor one that failed stopped. *)
Tunnels == INSTANCE OneTunnel WITH
    Client <- Caller, Tunnel <- Session, None <- NoSession,
    up <- {s \in Session : sess[s] \in {"running", "returned", "closed"}},
    down <- {s \in Session : sess[s] = "over"},
    stops <- [p \in Caller |-> IF pc[p] = "wait" THEN target[p] ELSE NoSession],
    status <- state,
    error <- lastErr
ImplementsOneTunnel == Tunnels!Spec

(* What the daemon takes for granted of an engine: it returns when it likes with an
   error, without one only when its context is cancelled, and once. *)
EngineStep(s) ==
    \/ \E e \in BOOLEAN : EngineReturns(s, e)
    \/ cancelled' = [cancelled EXCEPT ![s] = TRUE] /\ UNCHANGED <<sess, failed>>
EngineKeepsTerms == [][\E s \in Session : EngineStep(s)]_sessions

(* The order Serve documents: the process exits with no session and no handler
   left that could have started one. *)
ExitLeavesNothing ==
    pc["main"] = "gone" =>
        /\ \A s \in Session : sess[s] \in {"unused", "over"}
        /\ \A h \in Handler : pc[h] \in {"idle", "gone"}

(* A session whose engine was cancelled and never returns. *)
HeldByEngine == \E s \in Session : [](cancelled[s] /\ sess[s] = "running")

(* A stop request ends the daemon from wherever it is, unless an engine holds it: the
   final Disconnect waits for its session for as long as that takes. *)
StopEndsDaemon == ctx ~> (pc["main"] = "gone" \/ HeldByEngine)
=============================================================================
