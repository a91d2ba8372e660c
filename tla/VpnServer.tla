------------------------------ MODULE VpnServer ------------------------------
(***************************************************************************)
(* Admission, session life cycle and shutdown of the tunnel server         *)
(* (internal/tunnel/server: server.go, session.go, router.go; and the      *)
(* address pool internal/ipalloc).                                         *)
(*                                                                         *)
(* One member of Conn is one accepted TCP connection together with the     *)
(* goroutine that runs handleConn for it; it is used once.  A session's    *)
(* writer goroutine, the TUN reader, the accept loop (Run) and shutdown    *)
(* are processes of their own.  Every step below is one critical section   *)
(* of the code (the registry's, the pool's, a channel operation) or one    *)
(* blocking call, so any two goroutines interleave between them.           *)
(*                                                                         *)
(* Left out here: the connection limiter (it only adds a reason to refuse, *)
(* kept as LimiterRefuses; see ConnLimiter) and the contents of packets.   *)
(***************************************************************************)
EXTENDS Naturals, FiniteSets

CONSTANTS
    Conn,        \* accepted connections (and their handler goroutines)
    Name,        \* certificate common names
    NoConn,      \* "no session": a nil *Session
    NoName,      \* the CN of a connection that has not been identified
    Base,        \* network address of the subnet
    Size,        \* number of addresses of the subnet
    Gateway      \* the reserved address: the server's own TUN address

(* ipalloc.New refuses /31 and /32 and a pool with nothing left. *)
Candidates == {u \in (Base + 1)..(Base + Size - 2) : u # Gateway}

ASSUME ConstAssumption ==
    /\ NoConn \notin Conn
    /\ NoName \notin Name
    /\ Base \in Nat
    /\ Size \in Nat \ 0..3
    /\ Gateway \in Nat
    /\ Candidates # {}

NoAddr == 0      \* the network address is never a candidate

VARIABLES
    pc,          \* where each handler is
    cn,          \* Session.CN, read from the certificate
    prev,        \* the session a handler found under its own name
    verdict,     \* what became of the admission (what the log lines say)
    addr,        \* Session.IP
    link,        \* whether reads and writes on the connection can succeed
    closed,      \* Session.closeCh is closed
    done,        \* Session.doneCh is closed
    reject,      \* Session.reject holds a message
    writer,      \* the session's writer goroutine
    byCN,        \* Registry.byCN
    byIPv4,      \* Registry.byIPv4
    free,        \* Pool.free
    byClient,    \* Pool.byClient
    run,         \* Server.Run: accept loop, then waiting, then returned
    ctxDone,     \* connCtx is cancelled
    sd,          \* shutdown's progress; closeCh is closed once it is not "idle"
    targets,     \* sessions of the snapshot that shutdown has yet to close
    tunReader    \* the TUN reader goroutine

handlerVars == <<pc, cn, prev, verdict, addr>>
sessionVars == <<link, closed, done, reject, writer>>
registryVars == <<byCN, byIPv4>>
poolVars == <<free, byClient>>
serverVars == <<run, ctxDone, sd, targets, tunReader>>
vars == <<handlerVars, sessionVars, registryVars, poolVars, serverVars>>

PC == {"idle", "handshake", "lookup", "kick", "join", "allocate", "register",
       "assign", "serve", "rejecting", "close", "drain", "unregister",
       "release", "signal", "exit"}

TypeOK ==
    /\ pc \in [Conn -> PC]
    /\ cn \in [Conn -> Name \cup {NoName}]
    /\ prev \in [Conn -> Conn \cup {NoConn}]
    /\ verdict \in [Conn -> {"pending", "refused", "held", "exhausted", "admitted"}]
    /\ addr \in [Conn -> Candidates \cup {NoAddr}]
    /\ link \in [Conn -> BOOLEAN]
    /\ closed \in [Conn -> BOOLEAN]
    /\ done \in [Conn -> BOOLEAN]
    /\ reject \in [Conn -> BOOLEAN]
    /\ writer \in [Conn -> {"none", "ready", "writing", "exited"}]
    /\ byCN \in [Name -> Conn \cup {NoConn}]
    /\ byIPv4 \in [Candidates -> Conn \cup {NoConn}]
    /\ free \in SUBSET Candidates
    /\ byClient \in [Name -> Candidates \cup {NoAddr}]
    /\ run \in {"accepting", "stopping", "returned"}
    /\ ctxDone \in BOOLEAN
    /\ sd \in {"idle", "closing", "sweeping", "done"}
    /\ targets \in SUBSET Conn
    /\ tunReader \in {"running", "exited"}

Init ==
    /\ pc = [c \in Conn |-> "idle"]
    /\ cn = [c \in Conn |-> NoName]
    /\ prev = [c \in Conn |-> NoConn]
    /\ verdict = [c \in Conn |-> "pending"]
    /\ addr = [c \in Conn |-> NoAddr]
    /\ link = [c \in Conn |-> TRUE]
    /\ closed = [c \in Conn |-> FALSE]
    /\ done = [c \in Conn |-> FALSE]
    /\ reject = [c \in Conn |-> FALSE]
    /\ writer = [c \in Conn |-> "none"]
    /\ byCN = [n \in Name |-> NoConn]
    /\ byIPv4 = [a \in Candidates |-> NoConn]
    /\ free = Candidates
    /\ byClient = [n \in Name |-> NoAddr]
    /\ run = "accepting"
    /\ ctxDone = FALSE
    /\ sd = "idle"
    /\ targets = {}
    /\ tunReader = "running"

-----------------------------------------------------------------------------
(* Steps of one handler goroutine. *)

Goto(c, from, to) == pc[c] = from /\ pc' = [pc EXCEPT ![c] = to]

(* Fault: closeCh is closed but the connection keeps its deadline. *)
CloseWithoutDeadline(c) == closed' = [closed EXCEPT ![c] = TRUE] /\ UNCHANGED link

(* Session.close: closeCh, then a deadline in the past, then Conn.Close. *)
CloseSession(c) ==
    /\ closed' = [closed EXCEPT ![c] = TRUE]
    /\ link' = [link EXCEPT ![c] = FALSE]

CloseConn(c) == link' = [link EXCEPT ![c] = FALSE]

(* The listener hands over a connection and handleConn starts. *)
Accept(c) ==
    /\ run = "accepting" /\ sd = "idle"
    /\ Goto(c, "idle", "handshake")
    /\ UNCHANGED <<cn, prev, verdict, addr, sessionVars, registryVars, poolVars, serverVars>>

(* limiter.acquire fails: the connection is closed before any handshake. *)
LimiterRefuses(c) ==
    /\ run = "accepting" /\ sd = "idle"
    /\ Goto(c, "idle", "exit")
    /\ CloseConn(c)
    /\ verdict' = [verdict EXCEPT ![c] = "refused"]
    /\ UNCHANGED <<cn, prev, addr, closed, done, reject, writer,
                   registryVars, poolVars, serverVars>>

(* Handshake error, timeout or cancellation; no certificate; an empty CN. *)
HandshakeFails(c) ==
    /\ Goto(c, "handshake", "exit")
    /\ CloseConn(c)
    /\ verdict' = [verdict EXCEPT ![c] = "refused"]
    /\ UNCHANGED <<cn, prev, addr, closed, done, reject, writer,
                   registryVars, poolVars, serverVars>>

HandshakeOK(c, n) ==
    /\ Goto(c, "handshake", "lookup")
    /\ link[c]
    /\ cn' = [cn EXCEPT ![c] = n]
    /\ UNCHANGED <<prev, verdict, addr, sessionVars, registryVars, poolVars, serverVars>>

(* prev := registry.ByCN(cn) *)
Lookup(c) ==
    /\ Goto(c, "lookup", IF byCN[cn[c]] = NoConn THEN "allocate" ELSE "kick")
    /\ prev' = [prev EXCEPT ![c] = byCN[cn[c]]]
    /\ UNCHANGED <<cn, verdict, addr, sessionVars, registryVars, poolVars, serverVars>>

Kick(c) ==
    /\ Goto(c, "kick", "join")
    /\ CloseSession(prev[c])
    /\ UNCHANGED <<cn, prev, verdict, addr, done, reject, writer,
                   registryVars, poolVars, serverVars>>

(* case <-prev.Done() *)
Joined(c) ==
    /\ Goto(c, "join", "allocate")
    /\ done[prev[c]]
    /\ UNCHANGED <<cn, prev, verdict, addr, sessionVars, registryVars, poolVars, serverVars>>

(* case <-time.After(kickJoinTimeout) *)
JoinTimeout(c) ==
    /\ Goto(c, "join", "allocate")
    /\ UNCHANGED <<cn, prev, verdict, addr, sessionVars, registryVars, poolVars, serverVars>>

(* Fault: the pool does not ask whether the name already holds an address. *)
AllocateUnchecked(c) ==
    /\ Goto(c, "allocate", "register")
    /\ \E a \in free :
        /\ \A b \in free : a <= b
        /\ free' = free \ {a}
        /\ byClient' = [byClient EXCEPT ![cn[c]] = a]
        /\ addr' = [addr EXCEPT ![c] = a]
    /\ UNCHANGED <<cn, prev, verdict, sessionVars, registryVars, serverVars>>

(* Pool.Allocate: the lowest free address, unless the name holds one. *)
Allocate(c) ==
    /\ Goto(c, "allocate", "register")
    /\ byClient[cn[c]] = NoAddr
    /\ \E a \in free :
        /\ \A b \in free : a <= b
        /\ free' = free \ {a}
        /\ byClient' = [byClient EXCEPT ![cn[c]] = a]
        /\ addr' = [addr EXCEPT ![c] = a]
    /\ UNCHANGED <<cn, prev, verdict, sessionVars, registryVars, serverVars>>

(* ErrAlreadyAllocated or ErrPoolExhausted: a "no_ip" error, and goodbye. *)
AllocateFails(c) ==
    /\ Goto(c, "allocate", "exit")
    /\ byClient[cn[c]] # NoAddr \/ free = {}
    /\ verdict' = [verdict EXCEPT ![c] =
            IF byClient[cn[c]] # NoAddr THEN "held" ELSE "exhausted"]
    /\ CloseConn(c)
    /\ UNCHANGED <<cn, prev, addr, closed, done, reject, writer,
                   registryVars, poolVars, serverVars>>

(* newSession and registry.Add: both indexes are written unconditionally. *)
Register(c) ==
    /\ Goto(c, "register", "assign")
    /\ byCN' = [byCN EXCEPT ![cn[c]] = c]
    /\ byIPv4' = [byIPv4 EXCEPT ![addr[c]] = c]
    /\ verdict' = [verdict EXCEPT ![c] = "admitted"]
    /\ UNCHANGED <<cn, prev, addr, sessionVars, poolVars, serverVars>>

(* AssignIP is written; the writer goroutine starts; the reader loop runs. *)
AssignOK(c) ==
    /\ Goto(c, "assign", "serve")
    /\ link[c]
    /\ writer' = [writer EXCEPT ![c] = "ready"]
    /\ UNCHANGED <<cn, prev, verdict, addr, link, closed, done, reject,
                   registryVars, poolVars, serverVars>>

AssignFails(c) ==
    /\ Goto(c, "assign", "unregister")
    /\ CloseConn(c)
    /\ UNCHANGED <<cn, prev, verdict, addr, closed, done, reject, writer,
                   registryVars, poolVars, serverVars>>

(* sessionReader: ReadPacket fails. *)
ReadFails(c) ==
    /\ Goto(c, "serve", "close")
    /\ ~link[c]
    /\ UNCHANGED <<cn, prev, verdict, addr, sessionVars, registryVars, poolVars, serverVars>>

(* sessionReader: writing a client's packet to the TUN device fails. *)
TunWriteFails(c) ==
    /\ Goto(c, "serve", "close")
    /\ link[c]
    /\ UNCHANGED <<cn, prev, verdict, addr, sessionVars, registryVars, poolVars, serverVars>>

(* admitHello: an outdated client; hand the writer an Error, await closeCh. *)
RejectHello(c) ==
    /\ Goto(c, "serve", "rejecting")
    /\ link[c]
    /\ reject' = [reject EXCEPT ![c] = TRUE]
    /\ UNCHANGED <<cn, prev, verdict, addr, link, closed, done, writer,
                   registryVars, poolVars, serverVars>>

RejectSeen(c) ==
    /\ Goto(c, "rejecting", "close")
    /\ closed[c]
    /\ UNCHANGED <<cn, prev, verdict, addr, sessionVars, registryVars, poolVars, serverVars>>

(* The handler's own sess.close() after the reader returned. *)
EndSession(c) ==
    /\ Goto(c, "close", "drain")
    /\ CloseSession(c)
    /\ UNCHANGED <<cn, prev, verdict, addr, done, reject, writer,
                   registryVars, poolVars, serverVars>>

(* Fault: the handler does not wait for its writer. *)
DrainedEarly(c) ==
    /\ Goto(c, "drain", "unregister")
    /\ UNCHANGED <<cn, prev, verdict, addr, sessionVars, registryVars, poolVars, serverVars>>

(* sessWG.Wait() *)
Drained(c) ==
    /\ Goto(c, "drain", "unregister")
    /\ writer[c] = "exited"
    /\ UNCHANGED <<cn, prev, verdict, addr, sessionVars, registryVars, poolVars, serverVars>>

(* registry.Remove: only if the name still points to this session. *)
Unregister(c) ==
    /\ Goto(c, "unregister", "release")
    /\ IF byCN[cn[c]] = c
       THEN /\ byCN' = [byCN EXCEPT ![cn[c]] = NoConn]
            /\ byIPv4' = [byIPv4 EXCEPT ![addr[c]] = NoConn]
       ELSE UNCHANGED registryVars
    /\ UNCHANGED <<cn, prev, verdict, addr, sessionVars, poolVars, serverVars>>

(* pool.Release(cn): whatever address the name holds becomes free. *)
Release(c) ==
    /\ Goto(c, "release", "signal")
    /\ free' = free \cup ({byClient[cn[c]]} \ {NoAddr})
    /\ byClient' = [byClient EXCEPT ![cn[c]] = NoAddr]
    /\ UNCHANGED <<cn, prev, verdict, addr, sessionVars, registryVars, serverVars>>

(* close(sess.doneCh), then wg.Done(). *)
Signal(c) ==
    /\ Goto(c, "signal", "exit")
    /\ done' = [done EXCEPT ![c] = TRUE]
    /\ UNCHANGED <<cn, prev, verdict, addr, link, closed, reject, writer,
                   registryVars, poolVars, serverVars>>

-----------------------------------------------------------------------------
(* Steps of a session's writer goroutine. *)

WriterUnchanged == UNCHANGED <<handlerVars, done, registryVars, poolVars, serverVars>>

(* A packet or a keepalive tick is taken up; the write may block for long. *)
WriteStarts(c) ==
    /\ writer[c] = "ready"
    /\ writer' = [writer EXCEPT ![c] = "writing"]
    /\ UNCHANGED <<link, closed, reject>> /\ WriterUnchanged

WriteOK(c) ==
    /\ writer[c] = "writing" /\ link[c]
    /\ writer' = [writer EXCEPT ![c] = "ready"]
    /\ UNCHANGED <<link, closed, reject>> /\ WriterUnchanged

(* A write on a dead, closed or past-deadline connection returns an error. *)
WriteFails(c) ==
    /\ writer[c] = "writing" /\ ~link[c]
    /\ writer' = [writer EXCEPT ![c] = "exited"]
    /\ CloseSession(c)
    /\ UNCHANGED reject /\ WriterUnchanged

(* case msg := <-sess.reject: best-effort Error, then the session ends. *)
WriterRejects(c) ==
    /\ writer[c] = "ready" /\ reject[c]
    /\ writer' = [writer EXCEPT ![c] = "exited"]
    /\ reject' = [reject EXCEPT ![c] = FALSE]
    /\ CloseSession(c)
    /\ WriterUnchanged

(* case <-sess.closeCh *)
WriterCloses(c) ==
    /\ writer[c] = "ready" /\ closed[c]
    /\ writer' = [writer EXCEPT ![c] = "exited"]
    /\ UNCHANGED <<link, closed, reject>> /\ WriterUnchanged

-----------------------------------------------------------------------------
(* The peer, the accept loop, the TUN reader and shutdown. *)

(* The client closes, or its network fails in a way the kernel reports. *)
PeerGone(c) ==
    /\ pc[c] \notin {"idle", "exit"} /\ link[c]
    /\ CloseConn(c)
    /\ UNCHANGED <<handlerVars, closed, done, reject, writer, registryVars, poolVars, serverVars>>

ServerUnchanged == UNCHANGED <<handlerVars, registryVars, poolVars>>

(* The parent context is cancelled (a signal). *)
Cancel ==
    /\ ~ctxDone
    /\ ctxDone' = TRUE
    /\ UNCHANGED <<run, sd, targets, tunReader, sessionVars>> /\ ServerUnchanged

(* listener.Accept returns an error: shutdown closed it, or it broke. *)
AcceptFails ==
    /\ run = "accepting"
    /\ run' = "stopping"
    /\ UNCHANGED <<ctxDone, sd, targets, tunReader, sessionVars>> /\ ServerUnchanged

(* Fault: the snapshot is empty. *)
ShutdownForgets ==
    /\ sd = "closing"
    /\ sd' = "sweeping"
    /\ UNCHANGED <<run, ctxDone, targets, tunReader, sessionVars>> /\ ServerUnchanged

(* closeOne: close closeCh, the listener and the TUN, cancel connCtx. *)
ShutdownBegins ==
    /\ sd = "idle" /\ (ctxDone \/ run = "stopping")
    /\ sd' = "closing"
    /\ ctxDone' = TRUE
    /\ UNCHANGED <<run, targets, tunReader, sessionVars>> /\ ServerUnchanged

ShutdownSnapshot ==
    /\ sd = "closing"
    /\ sd' = "sweeping"
    /\ targets' = {byCN[n] : n \in Name} \ {NoConn}
    /\ UNCHANGED <<run, ctxDone, tunReader, sessionVars>> /\ ServerUnchanged

ShutdownCloses(c) ==
    /\ sd = "sweeping" /\ c \in targets
    /\ targets' = targets \ {c}
    /\ CloseSession(c)
    /\ UNCHANGED <<run, ctxDone, sd, tunReader, done, reject, writer>> /\ ServerUnchanged

ShutdownEnds ==
    /\ sd = "sweeping" /\ targets = {}
    /\ sd' = "done"
    /\ UNCHANGED <<run, ctxDone, targets, tunReader, sessionVars>> /\ ServerUnchanged

(* runTUNReader returns: closeCh is closed, the device is closed or fails. *)
TunReaderExits ==
    /\ tunReader = "running"
    /\ tunReader' = "exited"
    /\ UNCHANGED <<run, ctxDone, sd, targets, sessionVars>> /\ ServerUnchanged

(* wg.Wait(): the handlers, the TUN reader and the context watcher ended. *)
RunReturns ==
    /\ run = "stopping" /\ sd = "done" /\ tunReader = "exited"
    /\ \A c \in Conn : pc[c] \in {"idle", "exit"}
    /\ run' = "returned"
    /\ UNCHANGED <<ctxDone, sd, targets, tunReader, sessionVars>> /\ ServerUnchanged

Terminated == run = "returned" /\ UNCHANGED vars

-----------------------------------------------------------------------------

Identify(c) == HandshakeFails(c) \/ \E n \in Name : HandshakeOK(c, n)
Admit(c) == Lookup(c) \/ Kick(c) \/ Joined(c) \/ JoinTimeout(c)
            \/ Allocate(c) \/ AllocateFails(c) \/ Register(c) \/ AssignOK(c) \/ AssignFails(c)
Serve(c) == ReadFails(c) \/ TunWriteFails(c) \/ RejectHello(c) \/ RejectSeen(c)
TearDown(c) == EndSession(c) \/ Drained(c) \/ Unregister(c) \/ Release(c) \/ Signal(c)
Writer(c) == WriteStarts(c) \/ WriteOK(c) \/ WriteFails(c) \/ WriterRejects(c) \/ WriterCloses(c)
Shutdown == ShutdownBegins \/ ShutdownSnapshot \/ ShutdownEnds \/ \E c \in Conn : ShutdownCloses(c)

Next ==
    \/ \E c \in Conn :
        \/ Accept(c) \/ LimiterRefuses(c) \/ PeerGone(c)
        \/ Identify(c) \/ Admit(c) \/ Serve(c) \/ TearDown(c) \/ Writer(c)
    \/ Cancel \/ AcceptFails \/ Shutdown \/ TunReaderExits \/ RunReturns \/ Terminated

(***************************************************************************)
(* Goroutines are scheduled fairly, the handshake and the kick-wait have   *)
(* timers, and a blocked call returns once its connection is closed.  The  *)
(* writer's select picks among its ready cases at random, so a queued      *)
(* rejection is not passed over for ever (the one strong fairness).  What  *)
(* the peer, the operator and the TUN device do is not fair: an idle       *)
(* client may stay connected, and a peer that stops reading may block a    *)
(* write, for ever.                                                        *)
(***************************************************************************)
Fairness ==
    /\ \A c \in Conn :
        /\ WF_vars(HandshakeFails(c))
        /\ WF_vars(Admit(c))
        /\ WF_vars(ReadFails(c) \/ RejectSeen(c))
        /\ WF_vars(TearDown(c))
        /\ WF_vars(WriteFails(c) \/ WriterCloses(c))
        /\ SF_vars(WriterRejects(c))
    /\ WF_vars(sd # "idle" /\ AcceptFails)
    /\ WF_vars(sd # "idle" /\ TunReaderExits)
    /\ WF_vars(Shutdown)
    /\ WF_vars(RunReturns)

Spec == Init /\ [][Next]_vars /\ Fairness

-----------------------------------------------------------------------------
(* Safety. *)

(* From Allocate to Release a handler holds its name's address. *)
Holding(c) == pc[c] \in {"register", "assign", "serve", "rejecting", "close",
                         "drain", "unregister", "release"}

(* From registry.Add to registry.Remove its session is in the registry. *)
Registered(c) == pc[c] \in {"assign", "serve", "rejecting", "close", "drain", "unregister"}

(* Past the handshake a handler knows the name it admits. *)
Named == \A c \in Conn : pc[c] \notin {"idle", "handshake", "exit"} => cn[c] \in Name

(* The two indexes of the registry always name the same sessions, each under
   its own name and its own address, and exactly the ones that handleConn has
   added and not yet removed: neither a reconnect nor a teardown can leave a
   stale entry behind (session.go Add, Remove). *)
IndexesAgree ==
    /\ \A c \in Conn : Registered(c) => byCN[cn[c]] = c /\ byIPv4[addr[c]] = c
    /\ \A n \in Name : byCN[n] # NoConn => Registered(byCN[n]) /\ cn[byCN[n]] = n
    /\ \A a \in Candidates : byIPv4[a] # NoConn => Registered(byIPv4[a]) /\ addr[byIPv4[a]] = a

(* The pool's bookkeeping is exact: an address is either free or held by
   exactly one name, so none leaks and none is handed out twice (ipalloc). *)
PoolExact ==
    /\ free = Candidates \ {byClient[n] : n \in Name}
    /\ \A m, n \in Name : byClient[m] = byClient[n] /\ m # n => byClient[m] = NoAddr

(* Registry and pool hold exactly what the handlers have put and not yet taken. *)
TablesExact == IndexesAgree /\ PoolExact

(* An address belongs to one handler at a time: the pool's entry for a name
   is the Session.IP of the single handler between Allocate and Release under
   that name, so Release(cn), which is given only the name, never frees the
   address of another session of the same client (server.go handleConn). *)
LeaseHasOneOwner ==
    /\ \A c \in Conn : Holding(c) => byClient[cn[c]] = addr[c] /\ addr[c] # NoAddr
    /\ \A c, d \in Conn : Holding(c) /\ Holding(d) /\ cn[c] = cn[d] => c = d
    /\ \A n \in Name : byClient[n] # NoAddr => \E c \in Conn : Holding(c) /\ cn[c] = n

(* Done() means what session.go says of it: registry entry removed, IP
   released, goroutines exited.  A joined reconnect builds on that. *)
DoneMeansGone ==
    \A c \in Conn : done[c] =>
        /\ \A n \in Name : byCN[n] # c
        /\ \A a \in Candidates : byIPv4[a] # c
        /\ writer[c] \in {"none", "exited"}
        /\ ~Holding(c)
        /\ ~link[c]

(* What a handler's position tells of its verdict, its writer and its socket. *)
TeardownOrdered ==
    \A c \in Conn :
        /\ done[c] = (pc[c] = "exit" /\ verdict[c] = "admitted")
        /\ Registered(c) \/ pc[c] \in {"release", "signal"} => verdict[c] = "admitted"
        /\ ~Registered(c) /\ pc[c] \notin {"release", "signal", "exit"} =>
                verdict[c] = "pending" /\ writer[c] = "none"
        /\ pc[c] = "assign" => writer[c] = "none"
        /\ pc[c] \in {"unregister", "release", "signal", "exit"} => writer[c] \in {"none", "exited"}
        /\ pc[c] \in {"drain", "unregister", "release", "signal", "exit"} => ~link[c]

(* A handler that returned left no open socket and no live writer, and signalled
   Done() if it had made a session, whichever path it left by. *)
ExitHoldsNothing ==
    \A c \in Conn : pc[c] = "exit" =>
        /\ ~link[c]
        /\ writer[c] \in {"none", "exited"}
        /\ done[c] = (verdict[c] = "admitted")

(* No path out of handleConn leaves anything behind, and a reconnect that waits
   for Done() finds the name and the address free. *)
HandlerLeavesNothing == DoneMeansGone /\ ExitHoldsNothing

(* Registry.Add is only called for a name and an address that are absent from
   both indexes, the obligation its comment puts on the accept path. *)
AddIsFresh ==
    [][\A c \in Conn : pc[c] = "register" /\ pc'[c] = "assign" =>
            byCN[cn[c]] = NoConn /\ byIPv4[addr[c]] = NoConn]_vars

(* What keeps a reconnect from waiting for ever, state by state: the session it
   waits for is done, or its handler or its writer can take a step that leads there
   without the peer, the clock or another handler.  In particular it never waits
   for a session that is itself still being admitted, so waits form no cycle. *)
LeavesAlone(d) ==
    \/ pc[d] \in {"assign", "close", "unregister", "release", "signal"}
    \/ pc[d] = "serve" /\ ~link[d]
    \/ pc[d] = "rejecting" /\ closed[d]
    \/ /\ pc[d] = "drain"
       /\ \/ writer[d] = "exited"
          \/ writer[d] = "ready" /\ closed[d]
          \/ writer[d] = "writing" /\ ~link[d]

KickedIsLeaving ==
    \A c \in Conn : pc[c] = "join" => prev[c] \in Conn /\ (done[prev[c]] \/ LeavesAlone(prev[c]))

(* Liveness. *)

(* A reconnect never waits in vain: a session that a handler kicks is torn
   down to the end, even if its writer was blocked on a peer that does not read. *)
KickedSessionEnds == \A c, d \in Conn : (pc[c] = "join" /\ prev[c] = d) ~> done[d]

(* Once its context is cancelled, Run returns, provided that no handler is on its
   way into the registry when shutdown takes its snapshot of it, or later: then the
   sweep leaves no session behind that it has not closed and that can linger. *)
NoLateAdmission == [](sd \in {"sweeping", "done"} => \A c \in Conn : pc[c] # "register")
SweepReachesAll ==
    NoLateAdmission =>
        [](sd = "done" => \A c \in Conn : Registered(c) => closed[c] /\ LeavesAlone(c))
ShutdownTerminatesUnlessLate == NoLateAdmission => (ctxDone ~> run = "returned")

(* Refinement: the registry and the pool implement a table of sessions with
   unique names and addresses (SessionTable).  A row is an entry of byCN; a
   connection's row is over once handleConn has removed it. *)
LiveRows == {[conn |-> byCN[n], name |-> n, addr |-> addr[byCN[n]]]
                : n \in {m \in Name : byCN[m] # NoConn}}
EndedConns == {c \in Conn : verdict[c] = "admitted" /\ pc[c] \in {"release", "signal", "exit"}}
Table == INSTANCE SessionTable WITH
    Addr <- Candidates, table <- LiveRows, ended <- EndedConns
ImplementsSessionTable == Table!Spec
=============================================================================
