---------------------------- MODULE ClientSession ----------------------------
(***************************************************************************)
(* One live session of the VPN client: runSession and the goroutines it    *)
(* starts (internal/tunnel/client/client.go: connReader, outboundPump,     *)
(* keepalive, connWriter).                                                 *)
(*                                                                         *)
(* runSession waits for the first of: a goroutine's result, the death of   *)
(* the TUN poller, the cancellation of the caller's context.  It then      *)
(* cancels the session context, puts a past deadline on the connection to  *)
(* unpark blocked reads and writes, waits for the goroutines and closes    *)
(* the connection.  What is at stake is that this teardown ends, that the  *)
(* goroutines cannot block it on the error channel, and that the           *)
(* connection is not used after it is closed.                              *)
(*                                                                         *)
(* A deadline of the connection is "none", "future" or "past".  A read or  *)
(* write with a past deadline fails; with a future one it may fail, by     *)
(* running out of time.  Packets have no contents, only a kind.            *)
(***************************************************************************)
EXTENDS Naturals, Sequences

CONSTANTS
    Idle,        \* the read-idle timeout is not 0 (readIdleTimeout)
    Keepalive    \* the client sends keepalives (Config.Keepalive > 0)

ASSUME SessionAssumption == Idle \in BOOLEAN /\ Keepalive \in BOOLEAN

VARIABLES
    parent,      \* the caller's context is cancelled
    main,        \* where runSession is
    verdict,     \* firstErr
    st,          \* where each goroutine is; a result: about to send it
    errCh,       \* the buffered error channel
    armed,       \* connReader's armed
    rdl, wdl,    \* the connection's read and write deadlines
    wmu,         \* connWriter.mu: its holder, or "free"
    dev,         \* the TUN poller: alive, its death in devDead, or taken
    link,        \* the TCP connection is intact
    sends, reads \* the server process still sends, still reads

vars == <<parent, main, verdict, st, errCh, armed, rdl, wdl, wmu, dev, link, sends, reads>>
peerVars == <<link, sends, reads>>
mainVars == <<parent, main, verdict, dev>>

G == {"reader", "pump", "keepalive"}
Writers == {"pump", "keepalive"}
Results == {"nil", "retry", "fatalServer", "fatalDevice"}
Deadlines == {"none", "future", "past"}

\* sessionCtx is done: cancelled by runSession, or with its parent.
SessionDone == parent \/ main # "select"
connClosed == main = "returned"

Init ==
    /\ parent \in BOOLEAN
    /\ main = "select"
    /\ verdict = "unset"
    /\ st = [g \in G |-> CASE g = "reader" -> "arm"
                            [] g = "pump" -> "select"
                            [] OTHER -> IF Keepalive THEN "select" ELSE "done"]
    /\ errCh = <<>>
    /\ armed = FALSE
    /\ rdl = "none" /\ wdl = "none"
    /\ wmu = "free"
    /\ dev \in {"alive", "reported"}
    /\ link = TRUE /\ sends = TRUE /\ reads = TRUE

-----------------------------------------------------------------------------
At(g, s) == st[g] = s
Go(g, s) == st' = [st EXCEPT ![g] = s]

\* A goroutine has returned r, which it sends on errCh next.
Returned(g) == st[g] \in Results

ErrCap == 3      \* make(chan error, 3)

\* Plausible bugs, to test the runs against: each stands for the definition
\* its name starts with.
LockWithoutDeadline(w) ==
    /\ At(w, "lock")
    /\ wmu = "free"
    /\ wmu' = w
    /\ Go(w, "write")
    /\ UNCHANGED <<mainVars, peerVars, errCh, armed, rdl, wdl>>

UnparkWritersOnly ==
    /\ main = "cancelled"
    /\ main' = "joining"
    /\ wdl' = "past"
    /\ UNCHANGED <<parent, verdict, dev, peerVars, st, errCh, armed, rdl, wmu>>

TakeDeviceDeathAsRetry ==
    /\ main = "select"
    /\ dev = "reported"
    /\ dev' = "taken"
    /\ verdict' = "retry"
    /\ main' = "cancelled"
    /\ UNCHANGED <<parent, peerVars, st, errCh, armed, rdl, wdl, wmu>>

JoinReaderOnly ==
    /\ main = "joining"
    /\ At("reader", "done")
    /\ main' = "closing"
    /\ UNCHANGED <<parent, verdict, dev, peerVars, st, errCh, armed, rdl, wdl, wmu>>

-----------------------------------------------------------------------------
(* connReader: the deadline is renewed before every read once the server has
   proved that it sends keepalives. *)
Arm ==
    /\ At("reader", "arm")
    /\ rdl' = IF armed THEN "future" ELSE rdl
    /\ Go("reader", "read")
    /\ UNCHANGED <<mainVars, peerVars, errCh, armed, wdl, wmu>>

Receive ==
    /\ At("reader", "read")
    /\ rdl # "past" /\ link /\ sends

ReadData ==
    /\ Receive
    /\ Go("reader", "tun")
    /\ UNCHANGED <<mainVars, peerVars, errCh, armed, rdl, wdl, wmu>>

ReadKeepalive ==
    /\ Receive
    /\ armed' = (armed \/ Idle)
    /\ Go("reader", "arm")
    /\ UNCHANGED <<mainVars, peerVars, errCh, rdl, wdl, wmu>>

ReadError ==
    /\ Receive
    /\ Go("reader", "fatalServer")
    /\ UNCHANGED <<mainVars, peerVars, errCh, armed, rdl, wdl, wmu>>

(* A broken connection, a past deadline, or a future one that ran out: nil
   when the session context is done, a retryable error otherwise. *)
ReadFails ==
    /\ At("reader", "read")
    /\ rdl # "none" \/ ~link
    /\ Go("reader", IF SessionDone THEN "nil" ELSE "retry")
    /\ UNCHANGED <<mainVars, peerVars, errCh, armed, rdl, wdl, wmu>>

TunWriteOK ==
    /\ At("reader", "tun")
    /\ Go("reader", "arm")
    /\ UNCHANGED <<mainVars, peerVars, errCh, armed, rdl, wdl, wmu>>

TunWriteFails ==
    /\ At("reader", "tun")
    /\ Go("reader", "retry")
    /\ UNCHANGED <<mainVars, peerVars, errCh, armed, rdl, wdl, wmu>>

Reader ==
    \/ Arm \/ ReadData \/ ReadKeepalive \/ ReadError \/ ReadFails
    \/ TunWriteOK \/ TunWriteFails

-----------------------------------------------------------------------------
(* outboundPump and keepalive: select on the context and on a packet or tick
   (any of the ready cases), then write one frame under the writer's lock. *)
Wake(w) ==
    /\ At(w, "select")
    /\ Go(w, "lock")
    /\ UNCHANGED <<mainVars, peerVars, errCh, armed, rdl, wdl, wmu>>

StopWriter(w) ==
    /\ At(w, "select")
    /\ SessionDone
    /\ Go(w, "nil")
    /\ UNCHANGED <<mainVars, peerVars, errCh, armed, rdl, wdl, wmu>>

(* connWriter.write: take the lock, set this write's own deadline. *)
Lock(w) ==
    /\ At(w, "lock")
    /\ wmu = "free"
    /\ wmu' = w
    /\ wdl' = "future"
    /\ Go(w, "write")
    /\ UNCHANGED <<mainVars, peerVars, errCh, armed, rdl>>

WriteOK(w) ==
    /\ At(w, "write")
    /\ link /\ reads /\ wdl # "past"
    /\ wmu' = "free"
    /\ Go(w, "select")
    /\ UNCHANGED <<mainVars, peerVars, errCh, armed, rdl, wdl>>

WriteFails(w) ==
    /\ At(w, "write")
    /\ wdl # "none" \/ ~link
    /\ wmu' = "free"
    /\ Go(w, "retry")
    /\ UNCHANGED <<mainVars, peerVars, errCh, armed, rdl, wdl>>

Writer(w) == Wake(w) \/ StopWriter(w) \/ Lock(w) \/ WriteOK(w) \/ WriteFails(w)

(* errCh <- result, then wg.Done. *)
Send(g) ==
    /\ Returned(g)
    /\ Len(errCh) < ErrCap
    /\ errCh' = Append(errCh, st[g])
    /\ Go(g, "done")
    /\ UNCHANGED <<mainVars, peerVars, armed, rdl, wdl, wmu>>

-----------------------------------------------------------------------------
(* runSession: the first event (the select takes any ready case), cancel. *)
TakeResult ==
    /\ main = "select"
    /\ errCh # <<>>
    /\ verdict' = Head(errCh)
    /\ errCh' = Tail(errCh)
    /\ main' = "cancelled"
    /\ UNCHANGED <<parent, dev, peerVars, st, armed, rdl, wdl, wmu>>

TakeDeviceDeath ==
    /\ main = "select"
    /\ dev = "reported"
    /\ dev' = "taken"
    /\ verdict' = "fatalDevice"
    /\ main' = "cancelled"
    /\ UNCHANGED <<parent, peerVars, st, errCh, armed, rdl, wdl, wmu>>

TakeCancel ==
    /\ main = "select"
    /\ parent
    /\ verdict' = "nil"
    /\ main' = "cancelled"
    /\ UNCHANGED <<parent, dev, peerVars, st, errCh, armed, rdl, wdl, wmu>>

(* conn.SetDeadline(time.Now()). *)
Unpark ==
    /\ main = "cancelled"
    /\ main' = "joining"
    /\ rdl' = "past" /\ wdl' = "past"
    /\ UNCHANGED <<parent, verdict, dev, peerVars, st, errCh, armed, wmu>>

(* wg.Wait and close(errCh), then the deferred Close of the connection. *)
Join ==
    /\ main = "joining"
    /\ \A g \in G : At(g, "done")
    /\ main' = "closing"
    /\ UNCHANGED <<parent, verdict, dev, peerVars, st, errCh, armed, rdl, wdl, wmu>>

CloseConn ==
    /\ main = "closing"
    /\ main' = "returned"
    /\ UNCHANGED <<parent, verdict, dev, peerVars, st, errCh, armed, rdl, wdl, wmu>>

Main == TakeResult \/ TakeDeviceDeath \/ TakeCancel \/ Unpark \/ Join \/ CloseConn

-----------------------------------------------------------------------------
(* The surroundings: the user disconnects, the TUN poller dies (it keeps
   quiet once the context is cancelled), the server stops sending or
   reading, the connection breaks. *)
Cancel ==
    /\ ~parent
    /\ parent' = TRUE
    /\ UNCHANGED <<main, verdict, dev, peerVars, st, errCh, armed, rdl, wdl, wmu>>

DeviceDies ==
    /\ dev = "alive" /\ ~parent
    /\ dev' = "reported"
    /\ UNCHANGED <<parent, main, verdict, peerVars, st, errCh, armed, rdl, wdl, wmu>>

PeerChanges ==
    /\ \/ sends /\ sends' = FALSE /\ UNCHANGED <<link, reads>>
       \/ reads /\ reads' = FALSE /\ UNCHANGED <<link, sends>>
       \/ link /\ link' = FALSE /\ UNCHANGED <<sends, reads>>
    /\ UNCHANGED <<mainVars, st, errCh, armed, rdl, wdl, wmu>>

Next ==
    \/ Reader
    \/ \E w \in Writers : Writer(w)
    \/ \E g \in G : Send(g)
    \/ Main
    \/ Cancel \/ DeviceDies \/ PeerChanges

Spec == Init /\ [][Next]_vars

(* Every goroutine runs, a deadline that is set passes if nothing happens
   before it does, the TUN device finishes a write, a contended mutex and a
   ready select case get their turn.  The server owes nothing. *)
Fairness ==
    /\ WF_vars(Arm) /\ WF_vars(ReadFails) /\ WF_vars(TunWriteOK \/ TunWriteFails)
    /\ \A w \in Writers : /\ SF_vars(StopWriter(w)) /\ SF_vars(Lock(w))
                          /\ WF_vars(WriteOK(w) \/ WriteFails(w))
    /\ \A g \in G : WF_vars(Send(g))
    /\ WF_vars(Main)

FairSpec == Spec /\ Fairness

-----------------------------------------------------------------------------
(* Types; runSession has its verdict from the moment it leaves the select. *)
TypeOK ==
    /\ parent \in BOOLEAN
    /\ main \in {"select", "cancelled", "joining", "closing", "returned"}
    /\ verdict \in Results \cup {"unset"}
    /\ verdict = "unset" <=> main = "select"
    /\ st \in [G -> {"arm", "read", "tun", "select", "lock", "write", "done"} \cup Results]
    /\ errCh \in Seq(Results)
    /\ armed \in BOOLEAN
    /\ rdl \in Deadlines /\ wdl \in Deadlines
    /\ wmu \in Writers \cup {"free"}
    /\ dev \in {"alive", "reported", "taken"}
    /\ link \in BOOLEAN /\ sends \in BOOLEAN /\ reads \in BOOLEAN

(* connectOnce "returned cleanly - only happens via ctx cancel"
   (reconnect.go:51): runSession answers nil only to a cancelled caller,
   although all three goroutines also return nil, and the reconnect loop
   takes nil for the user's own disconnect and ends. *)
NilMeansCancelled == verdict = "nil" => parent

(* The frames of two writers never interleave on the connection: only the
   holder of the writer's lock is inside a write. *)
OneWriterAtATime ==
    /\ ~(At("pump", "write") /\ At("keepalive", "write"))
    /\ \A w \in Writers : At(w, "write") => wmu = w

(* No goroutine can block on its result or send on the closed channel, so
   the wait for them cannot be held up by errCh. *)
SendNeverBlocks ==
    \A g \in G : Returned(g) => Len(errCh) < ErrCap /\ main \notin {"closing", "returned"}

(* The connection is closed once, after its last user is gone (the
   use-after-close race runSession's comment is about). *)
ConnNotUsedAfterClose == connClosed => \A g \in G : At(g, "done")

(* Both: the connection has one writer at a time and no user after its close. *)
ConnUsedSafely == OneWriterAtATime /\ ConnNotUsedAfterClose

(* A dead TUN device is not lost: until somebody takes it, it stays in devDead
   for the reconnect loop, and a session that takes it says so. *)
DeviceDeathIsKept == dev = "taken" <=> verdict = "fatalDevice"

(* What the reconnect loop (ReconnectLoop) sees of a session: that it is under way,
   its verdict, that it winds up and that it has returned.  The session leaves the
   ring of endpoints alone, so a ring of one stands for all. *)
Told(v) == IF v = "fatalServer" THEN "fatal" ELSE v
Phase ==
    IF main = "select" THEN "session" ELSE IF connClosed THEN "failed" ELSE "teardown"
Loop == INSTANCE ReconnectLoop WITH
    N <- 1, Preferred <- 0, suspectedAuthLimit <- 1, MaxAttempt <- 0,
    pc <- Phase,
    err <- IF main = "select" THEN "nil" ELSE Told(verdict),
    failed <- IF connClosed THEN {0} ELSE {},
    ctx <- parent, exit <- "running", long <- FALSE, alerts <- 0,
    attempt <- 0, suspected <- 0, idx <- 0, tried <- 0, cycled <- FALSE

(* A session implements the session phase of the loop's attempt: it is decided once,
   with an error of its own, with the device's death and then the only report of it is
   spent, or with nil and then the user has cancelled; and that is what it returns.
   The loop ends the client on the last two, so a session that confused them would end
   it without cause or never. *)
SessionPhase ==
    \/ \E e \in Loop!Errors : Loop!SessionFails(e)
    \/ Loop!SessionLosesDevice \/ Loop!SessionCancelled \/ Loop!SessionReturns(FALSE)
    \/ Loop!Cancel \/ Loop!DeviceDies
SessionOfLoop == [][SessionPhase]_(Loop!vars)

(* It does once the server is quiet: reads have no frame to return and the
   past deadline, or a renewed one, ends them. *)
TeardownEndsOnceQuiet == main = "cancelled" /\ ~(sends /\ link) ~> main = "returned"

(* "A past deadline on BOTH directions makes a parked Read (connReader) and a parked
   Write ... return promptly.  The one spot it can't cover is connReader sitting in
   dev.Write" (client.go:840): every teardown ends.  It does not when the reader puts a
   future deadline in the place of the past one, which it does without a look at the
   context (client.go:881), and the server goes on sending. *)
TeardownEnds == main = "cancelled" ~> main = "returned"

(* A server whose process hangs is noticed: by a write that cannot finish,
   which does not depend on what the server sent before ... *)
StalledWriteEndsSession ==
    (\E w \in Writers : At(w, "write")) /\ ~reads /\ ~sends ~> main = "returned"

(* ... and, if it has sent a keepalive, by its silence. *)
SilentServerEndsSession == armed /\ ~sends ~> main = "returned"

(* Either way the session of a hung server ends and the client reconnects. *)
HungServerIsNoticed == StalledWriteEndsSession /\ SilentServerEndsSession
=============================================================================
