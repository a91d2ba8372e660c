-------------------------------- MODULE Slots --------------------------------
(***************************************************************************)
(* What the connection limiter promises, without counters or timers: a     *)
(* connection that arrives gets a slot if there is room and is turned away *)
(* only if there is none, over all or for its address; a slot is given     *)
(* back at most once, and is then free for others.                         *)
(***************************************************************************)
EXTENDS Naturals, FiniteSets

CONSTANTS
    Conn, IP,
    MaxPerIP, MaxTotal    \* the caps; 0 = none

VARIABLES
    out,       \* the slots that are out: a connection and its address
    answered   \* the connections that were given a slot, or none

Room(i) ==
    /\ MaxTotal > 0 => Cardinality(out) < MaxTotal
    /\ MaxPerIP > 0 => Cardinality({s \in out : s[2] = i}) < MaxPerIP

Init == out = {} /\ answered = {}

Answer(c) == c \notin answered /\ answered' = answered \cup {c}

Give(c, i) ==
    /\ Room(i)
    /\ Answer(c)
    /\ out' = out \cup {<<c, i>>}

TurnAway(c, i) ==
    /\ ~Room(i)
    /\ Answer(c)
    /\ UNCHANGED out

TakeBack(c, i) ==
    /\ <<c, i>> \in out
    /\ out' = out \ {<<c, i>>}
    /\ UNCHANGED answered

Next == \E c \in Conn, i \in IP : Give(c, i) \/ TurnAway(c, i) \/ TakeBack(c, i)

Spec == Init /\ [][Next]_<<out, answered>>
=============================================================================
