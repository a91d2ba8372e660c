----------------------------- MODULE ConnLimiter -----------------------------
(***************************************************************************)
(* The connection limiter of the tunnel server (internal/tunnel/server:    *)
(* limiter.go, and its use by handleConn in server.go).                    *)
(*                                                                         *)
(* A member of Conn is one accepted connection.  Its handler acquires a    *)
(* slot, runs the handshake and the session, and releases the slot in a    *)
(* deferred call; a failed handshake hands the slot to a timer that frees  *)
(* it failPenalty later.  acquire, the immediate release and the timer     *)
(* callback are critical sections of l.mu, one step each.                  *)
(*                                                                         *)
(* Time is counted in ticks, and only as far as the code compares it: how  *)
(* long ago a handshake failed and how long a penalty has been running,    *)
(* both up to Penalty.                                                     *)
(***************************************************************************)
EXTENDS Naturals, FiniteSets

CONSTANTS
    Conn,        \* accepted connections
    IP,          \* source addresses
    MaxPerIP,    \* maxPerIP; 0 = no per-IP cap
    MaxTotal,    \* maxTotal; 0 = no global cap
    Penalty      \* failPenalty in ticks; 0 = no penalty window

ASSUME LimiterAssumption ==
    /\ IsFiniteSet(Conn)
    /\ MaxPerIP \in Nat
    /\ MaxTotal \in Nat
    /\ Penalty \in Nat

VARIABLES
    phase,       \* where each connection is
    ip,          \* host(RemoteAddr) of each connection
    age,         \* ticks since its handshake failed; Penalty if it did not,
                 \* or as long ago as that
    held,        \* ticks since its penalty timer was started, up to Penalty
    total,       \* connLimiter.total
    perIP,       \* connLimiter.perIP: a map from its keys to counts
    ctxDone      \* the server context is cancelled

vars == <<phase, ip, age, held, total, perIP, ctxDone>>

Phases == {"new", "refused", "handshake", "session", "ended",
           "failed", "penalty", "gone"}

\* Connections that occupy a slot: acquired and not yet given back.
Holding == {"handshake", "session", "ended", "failed", "penalty"}
Holders == {c \in Conn : phase[c] \in Holding}
HoldersOf(i) == {c \in Holders : ip[c] = i}

Init ==
    /\ phase = [c \in Conn |-> "new"]
    /\ ip \in [Conn -> IP]
    /\ age = [c \in Conn |-> Penalty]
    /\ held = [c \in Conn |-> 0]
    /\ total = 0
    /\ perIP = [i \in {} |-> 0]
    /\ ctxDone = FALSE

-----------------------------------------------------------------------------
\* l.perIP[i]: a missing key reads as zero.
Count(i) == IF i \in DOMAIN perIP THEN perIP[i] ELSE 0

PutCount(i, n) == [j \in DOMAIN perIP \cup {i} |-> IF j = i THEN n ELSE perIP[j]]
DropCount(i) == [j \in DOMAIN perIP \ {i} |-> perIP[j]]

throttleActive == MaxPerIP > 0 /\ MaxTotal > 0 /\ Penalty > 0

Goto(c, from, to) ==
    /\ phase[c] = from
    /\ phase' = [phase EXCEPT ![c] = to]

AtLimit(i) ==
    \/ MaxTotal > 0 /\ total >= MaxTotal
    \/ MaxPerIP > 0 /\ Count(i) >= MaxPerIP

\* Plausible bugs of the limiter, to test the run against: each definition
\* stands for the one its name starts with.
decSkipsTotal(i) ==
    /\ UNCHANGED total
    /\ perIP' = IF Count(i) <= 1 THEN DropCount(i) ELSE PutCount(i, Count(i) - 1)

(* dec, the body of release: it runs under l.mu, in the handler or in the
   timer's callback. *)
dec(i) ==
    /\ total' = total - 1
    /\ perIP' = IF Count(i) - 1 <= 0 THEN DropCount(i)
                ELSE PutCount(i, Count(i) - 1)

TimerFiresAtOnce(c) ==
    /\ Goto(c, "penalty", "gone")
    /\ dec(ip[c])
    /\ UNCHANGED <<ip, age, held, ctxDone>>

TimerFiresUntilCancel(c) ==
    /\ ~ctxDone
    /\ held[c] >= Penalty
    /\ TimerFiresAtOnce(c)

-----------------------------------------------------------------------------
(* acquire: refuse at a limit, otherwise count the connection twice. *)
Refuse(c) ==
    /\ Goto(c, "new", "refused")
    /\ AtLimit(ip[c])
    /\ UNCHANGED <<ip, age, held, total, perIP, ctxDone>>

Acquire(c) ==
    /\ Goto(c, "new", "handshake")
    /\ ~AtLimit(ip[c])
    /\ total' = total + 1
    /\ perIP' = PutCount(ip[c], Count(ip[c]) + 1)
    /\ UNCHANGED <<ip, age, held, ctxDone>>

HandshakeOK(c) ==
    /\ Goto(c, "handshake", "session")
    /\ UNCHANGED <<ip, age, held, total, perIP, ctxDone>>

(* An error, the handshake deadline, or the cancelled context. *)
HandshakeFails(c) ==
    /\ Goto(c, "handshake", "failed")
    /\ age' = [age EXCEPT ![c] = 0]
    /\ UNCHANGED <<ip, held, total, perIP, ctxDone>>

SessionEnds(c) ==
    /\ Goto(c, "session", "ended")
    /\ UNCHANGED <<ip, age, held, total, perIP, ctxDone>>

(* The deferred release: penalize is !handshakeOK && ctx.Err() == nil, read
   when the deferred call runs. *)
Penalize(c) == phase[c] = "failed" /\ ~ctxDone

ReleaseNow(c) ==
    /\ phase[c] \in {"ended", "failed"}
    /\ ~(Penalize(c) /\ throttleActive)
    /\ phase' = [phase EXCEPT ![c] = "gone"]
    /\ dec(ip[c])
    /\ UNCHANGED <<ip, age, held, ctxDone>>

ReleaseLater(c) ==
    /\ Goto(c, "failed", "penalty")
    /\ Penalize(c) /\ throttleActive
    /\ held' = [held EXCEPT ![c] = 0]
    /\ UNCHANGED <<ip, age, total, perIP, ctxDone>>

(* time.AfterFunc(failPenalty, dec): never early, possibly late. *)
TimerFires(c) ==
    /\ Goto(c, "penalty", "gone")
    /\ held[c] >= Penalty
    /\ dec(ip[c])
    /\ UNCHANGED <<ip, age, held, ctxDone>>

Cancel ==
    /\ ~ctxDone
    /\ ctxDone' = TRUE
    /\ UNCHANGED <<phase, ip, age, held, total, perIP>>

(* The clock: it moves the two stopwatches, which stop at Penalty. *)
Later(t) == IF t < Penalty THEN t + 1 ELSE t

Tick ==
    /\ age' = [c \in Conn |-> Later(age[c])]
    /\ held' = [c \in Conn |-> IF phase[c] = "penalty" THEN Later(held[c]) ELSE held[c]]
    /\ UNCHANGED <<phase, ip, total, perIP, ctxDone>>

Handler(c) ==
    \/ Refuse(c)
    \/ Acquire(c)
    \/ HandshakeOK(c)
    \/ HandshakeFails(c)
    \/ SessionEnds(c)
    \/ ReleaseNow(c)
    \/ ReleaseLater(c)

Next ==
    \/ \E c \in Conn : Handler(c) \/ TimerFires(c)
    \/ Cancel
    \/ Tick

Spec == Init /\ [][Next]_vars

(* The deferred release is code that runs by itself and a timer fires once
   its time has come; time passes.  How long a session lasts is up to its
   peer and nothing makes a connection arrive. *)
Fairness ==
    /\ \A c \in Conn : WF_vars(ReleaseNow(c)) /\ WF_vars(ReleaseLater(c))
                         /\ WF_vars(TimerFires(c))
    /\ WF_vars(Tick)

FairSpec == Spec /\ Fairness

-----------------------------------------------------------------------------
(* Types: the two stopwatches never pass the penalty, and the map only has
   keys that are source addresses. *)
TypeOK ==
    /\ phase \in [Conn -> Phases]
    /\ ip \in [Conn -> IP]
    /\ age \in [Conn -> 0..Penalty]
    /\ held \in [Conn -> 0..Penalty]
    /\ total \in Nat
    /\ DOMAIN perIP \subseteq IP
    /\ perIP \in [DOMAIN perIP -> Nat]
    /\ ctxDone \in BOOLEAN

(* limiter.go's two counters are exact: total counts the slots that are out,
   including those a penalty timer still holds, and each key of perIP counts
   the slots of its address.  Nothing is counted twice or lost on any path
   through handleConn, the deferred release and the timer. *)
SlotsExact ==
    /\ total = Cardinality(Holders)
    /\ \A i \in IP : Count(i) = Cardinality(HoldersOf(i))

(* The perIP map holds no key without a slot ("sum of its values == total"):
   it does not grow with the addresses ever seen. *)
MapHasNoDeadKeys == DOMAIN perIP = {ip[c] : c \in Holders}

(* Both: the limiter's books are exact. *)
CountsExact == SlotsExact /\ MapHasNoDeadKeys

(* Connections in flight, by address and over all, never exceed the caps the
   operator configured. *)
CapsHold ==
    /\ MaxTotal > 0 => Cardinality(Holders) <= MaxTotal
    /\ MaxPerIP > 0 => \A i \in IP : Cardinality(HoldersOf(i)) <= MaxPerIP

(* The throttle the limiter's comment promises: as long as the server is not
   shutting down, no address gets more than maxPerIP failed handshakes into
   any window of failPenalty. *)
FailedRecently(i) == {c \in Conn : ip[c] = i /\ age[c] < Penalty}

FailuresThrottled ==
    throttleActive /\ ~ctxDone
        => \A i \in IP : Cardinality(FailedRecently(i)) <= MaxPerIP

(* The limiter implements Slots: every path through acquire, release and the penalty
   timer leaves the two counters such that whoever comes next is admitted exactly if
   there is room.  A slot is out from acquire until its release or its timer. *)
LimiterSlots == INSTANCE Slots WITH
    out <- {<<c, ip[c]>> : c \in Holders},
    answered <- {c \in Conn : phase[c] # "new"}
ImplementsSlots == LimiterSlots!Spec

(* A slot whose handshake failed comes back: neither the deferred release nor
   the timer can be lost. *)
PenalizedSlotReturns ==
    \A c \in Conn : phase[c] \in {"failed", "penalty"} ~> phase[c] = "gone"
=============================================================================
