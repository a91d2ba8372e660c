----------------------- MODULE ReconnectLoop_proofs -----------------------
(***************************************************************************)
(* Theorems about ReconnectLoop, for any number of endpoints, any preferred *)
(* one and any limit.  The round the ring is in is described by the        *)
(* endpoint s it started from: after k failures the ring stands at         *)
(* Walk(s, k), and the endpoints that have failed are the k before it.     *)
(***************************************************************************)
EXTENDS ReconnectLoop, TLAPS

Walk(s, k) == IF s + k < N THEN s + k ELSE s + k - N
Passed(s, k) == {Walk(s, j) : j \in 0..(k - 1)}

\* Places of the loop where an attempt is due or on its way.
Moving == Dialing \cup {"top", "assigned", "session", "teardown"}

\* The ring stands k endpoints after the start of the round.
StandsAt(s, k) == idx = Walk(s, k) /\ failed = Passed(s, k)

Round ==
    /\ pc \in Moving => \E s \in Endpoints : StandsAt(s, tried)
    /\ pc = "failed" =>
           \E s \in Endpoints : idx = Walk(s, tried) /\ failed = Passed(s, tried + 1)
    /\ pc = "advanced" /\ ~cycled => \E s \in Endpoints : StandsAt(s, tried)
    /\ pc = "advanced" /\ cycled => tried = 0 /\ failed = Endpoints
    /\ pc = "wait" => tried = 0 /\ failed = Endpoints

LEMMA WalkFacts ==
    ASSUME NEW s \in Endpoints
    PROVE  /\ \A k \in 0..N : Walk(s, k) \in Endpoints
           /\ \A k \in 0..(N - 1) : Successor(Walk(s, k)) = Walk(s, k + 1)
           /\ Walk(s, N) = s /\ Walk(s, 0) = s
           /\ \A k \in 0..(N - 1) : Walk(s, k) \notin Passed(s, k)
           /\ \A k \in 0..(N - 1) : Passed(s, k + 1) = Passed(s, k) \cup {Walk(s, k)}
           /\ Passed(s, N) = Endpoints /\ Passed(s, 0) = {}
<1> N \in Nat \ {0} /\ s \in 0..(N - 1)
  BY LoopAssumption DEF LoopAssumption, Endpoints
<1>1. \A k \in 0..N : Walk(s, k) \in Endpoints
  BY DEF Walk, Endpoints
<1>2. \A k \in 0..(N - 1) : Successor(Walk(s, k)) = Walk(s, k + 1)
  BY DEF Walk, Successor
<1>3. Walk(s, N) = s /\ Walk(s, 0) = s
  BY DEF Walk
<1>4. \A k \in 0..(N - 1) : Walk(s, k) \notin Passed(s, k)
  BY DEF Walk, Passed
<1>5. ASSUME NEW k \in 0..(N - 1) PROVE Passed(s, k + 1) = Passed(s, k) \cup {Walk(s, k)}
  <2>1. 0..(k + 1 - 1) = (0..(k - 1)) \cup {k}
    OBVIOUS
  <2> QED BY <2>1 DEF Passed
<1>6. Passed(s, N) = Endpoints
  <2>1. Passed(s, N) \subseteq Endpoints
    BY <1>1 DEF Passed
  <2>2. ASSUME NEW e \in Endpoints PROVE e \in Passed(s, N)
    <3>1. e \in 0..(N - 1)
      BY DEF Endpoints
    <3>2. CASE e >= s
      <4>1. e - s \in 0..(N - 1) /\ Walk(s, e - s) = e
        BY <3>1, <3>2 DEF Walk
      <4> QED BY <4>1 DEF Passed
    <3>3. CASE e < s
      <4>1. e + N - s \in 0..(N - 1) /\ Walk(s, e + N - s) = e
        BY <3>1, <3>3 DEF Walk
      <4> QED BY <4>1 DEF Passed
    <3> QED BY <3>1, <3>2, <3>3
  <2> QED BY <2>1, <2>2
<1>7. Passed(s, 0) = {}
  BY DEF Passed
<1> QED BY <1>1, <1>2, <1>3, <1>4, <1>5, <1>6, <1>7

-----------------------------------------------------------------------------
\* TypeOK, in the parts a step disturbs together.
TypeRing == idx \in Endpoints /\ tried \in 0..(N - 1)
TypeCounts ==
    attempt \in 0..MaxAttempt /\ suspected \in 0..suspectedAuthLimit /\ alerts \in 0..suspectedAuthLimit
TypeGhosts == failed \subseteq Endpoints
TypePlace ==
    /\ pc \in {"connect", "handshake", "firstFrame", "top", "assigned", "session",
                "teardown", "failed", "advanced", "wait", "exited"}
    /\ err \in Errors
    /\ dev \in {"alive", "reported", "taken"}
    /\ exit \in {"running", "nil", "suspect", "fatal", "fatalDevice"}
TypeFlags == cycled \in BOOLEAN /\ long \in BOOLEAN /\ ctx \in BOOLEAN

LEMMA TypeParts ==
    TypeOK <=> TypeRing /\ TypeCounts /\ TypeGhosts /\ TypePlace /\ TypeFlags
BY DEF TypeOK, TypeRing, TypeCounts, TypeGhosts, TypePlace, TypeFlags, Dialing

LEMMA TypePartsNext ==
    TypeOK' <=> TypeRing' /\ TypeCounts' /\ TypeGhosts' /\ TypePlace' /\ TypeFlags'
BY DEF TypeOK, TypeRing, TypeCounts, TypeGhosts, TypePlace, TypeFlags, Dialing, Endpoints

LEMMA TypeInit == Init => TypeOK
<1> SUFFICES ASSUME Init PROVE TypeOK
  OBVIOUS
<1> USE LoopAssumption DEF LoopAssumption, Init
<1>1. TypeRing
  BY DEF TypeRing, Endpoints
<1>2. TypeCounts
  BY DEF TypeCounts
<1>3. TypeGhosts
  BY DEF TypeGhosts
<1>4. TypePlace
  BY DEF TypePlace, Errors
<1>5. TypeFlags
  BY DEF TypeFlags
<1> QED BY <1>1, <1>2, <1>3, <1>4, <1>5, TypeParts

-----------------------------------------------------------------------------
\* What ends an attempt, with the failure counted.
Ended ==
    \E l \in BOOLEAN, e \in Errors : AttemptEnds(e, l)

\* Steps that only move the loop: they leave the ring, the counts and the
\* ghosts as they are.
Quiet ==
    /\ UNCHANGED <<attempt, suspected, idx, tried, cycled, err, long, failed, alerts>>

LEMMA EndingSteps ==
    ASSUME NEW l \in BOOLEAN, NEW e \in Errors, err \in Errors,
           \/ ConnectFails(l) \/ HandshakeFails(e, l) \/ FirstFrameFails(e, l)
           \/ SetUpFails(l) \/ SessionReturns(l)
    PROVE  /\ Ended
           /\ UNCHANGED <<attempt, suspected, idx, tried, cycled, exit, ctx, dev>>
           /\ pc \in Moving \ {"top"}
<1> USE DEF ring, env, Moving, Dialing, Errors
<1>1. CASE ConnectFails(l)
  BY <1>1 DEF ConnectFails, DialFails, Ended, AttemptEnds
<1>2. CASE HandshakeFails(e, l)
  BY <1>2 DEF HandshakeFails, DialFails, Ended, AttemptEnds
<1>3. CASE FirstFrameFails(e, l)
  BY <1>3 DEF FirstFrameFails, DialFails, Ended, AttemptEnds
<1>4. CASE SetUpFails(l)
  BY <1>4 DEF SetUpFails, Ended, AttemptEnds
<1>5. CASE SessionReturns(l)
  BY <1>5 DEF SessionReturns, Ended, AttemptEnds
<1> QED BY <1>1, <1>2, <1>3, <1>4, <1>5

(* The select of a session: what it will return is known, and nothing else is. *)
DecidingStep ==
    (\E e \in Errors : SessionFails(e)) \/ SessionLosesDevice \/ SessionCancelled

LEMMA DecidingSteps ==
    ASSUME DecidingStep
    PROVE  /\ pc = "session" /\ pc' = "teardown"
           /\ UNCHANGED <<attempt, suspected, idx, tried, cycled, long, ctx, exit, failed, alerts>>
           /\ \/ err' \in {"retry", "fatal"} /\ dev' = dev
              \/ err' = "fatalDevice" /\ dev = "reported" /\ dev' = "taken"
              \/ err' = "nil" /\ ctx /\ dev' = dev
BY DEF DecidingStep, SessionFails, SessionLosesDevice, SessionCancelled, Verdict, ring, ghosts

QuietStep ==
    \/ DeviceDied \/ StartConnect \/ FailEndsClean \/ FailEndsFatal
    \/ AdvancedEndsClean \/ TryNext \/ Schedule \/ WaitCancelled \/ WaitLosesDevice
    \/ Connected \/ HandshakeOK \/ SetUpOK \/ Cancel \/ DeviceDies
    \/ UNCHANGED vars

\* Where a quiet step may lead.
QuietMove ==
    \/ pc' = pc /\ exit' = exit
    \/ pc \in Moving \ {"teardown"} /\ pc' \in Moving \ {"teardown"} /\ exit' = exit
    \/ pc = "advanced" /\ ~cycled /\ pc' = "top" /\ exit' = exit
    \/ pc = "advanced" /\ cycled /\ pc' = "wait" /\ exit' = exit
    \/ pc' = "exited" /\ exit' = "nil" /\ (ctx \/ (pc = "failed" /\ err = "nil"))
    \/ pc' = "exited" /\ exit' = "fatalDevice" /\ (pc = "failed" => err = "fatalDevice")
    \/ pc' = "exited" /\ exit' = "fatal" /\ pc = "failed" /\ err = "fatal"

QuietEnv ==
    \/ dev' = dev /\ ctx' = ctx
    \/ dev' = dev /\ ctx' = TRUE
    \/ dev = "alive" /\ dev' = "reported" /\ ctx' = ctx
    \/ dev' = "taken" /\ ctx' = ctx /\ pc' = "exited" /\ exit' = "fatalDevice"

LEMMA QuietSteps == QuietStep => Quiet /\ QuietMove /\ QuietEnv
<1> SUFFICES ASSUME QuietStep PROVE Quiet /\ QuietMove /\ QuietEnv
  OBVIOUS
<1> USE DEF Quiet, QuietMove, QuietEnv, ring, ghosts, outcome, env, Exit
<1>1. CASE DeviceDied
  BY <1>1 DEF DeviceDied
<1>2. CASE StartConnect \/ Connected \/ HandshakeOK \/ SetUpOK
  BY <1>2 DEF StartConnect, Connected, HandshakeOK, SetUpOK, Moving, Dialing
<1>3. CASE FailEndsClean
  BY <1>3 DEF FailEndsClean
<1>4. CASE FailEndsFatal
  BY <1>4 DEF FailEndsFatal, isFatal
<1>5. CASE AdvancedEndsClean \/ TryNext \/ Schedule
  BY <1>5 DEF AdvancedEndsClean, TryNext, Schedule
<1>6. CASE WaitCancelled \/ WaitLosesDevice
  BY <1>6 DEF WaitCancelled, WaitLosesDevice
<1>7. CASE Cancel \/ DeviceDies
  BY <1>7 DEF Cancel, DeviceDies
<1>8. CASE UNCHANGED vars
  BY <1>8 DEF vars
<1> QED BY <1>1, <1>2, <1>3, <1>4, <1>5, <1>6, <1>7, <1>8 DEF QuietStep

EndingStep ==
    \E l \in BOOLEAN, e \in Errors :
        \/ ConnectFails(l) \/ HandshakeFails(e, l) \/ FirstFrameFails(e, l)
        \/ SetUpFails(l) \/ SessionReturns(l)

LEMMA StepKinds ==
    [Next]_vars =>
        \/ QuietStep \/ EndingStep \/ DecidingStep
        \/ Assigned \/ Advance \/ FailEndsSuspected \/ WaitOver
<1> SUFFICES ASSUME [Next]_vars
             PROVE  \/ QuietStep \/ EndingStep \/ DecidingStep
                    \/ Assigned \/ Advance \/ FailEndsSuspected \/ WaitOver
  OBVIOUS
<1>1. CASE Loop
  BY <1>1 DEF Loop, QuietStep
<1>2. CASE Attempt
  <2>1. "retry" \in Errors
    BY DEF Errors
  <2> QED BY <1>2, <2>1 DEF Attempt, QuietStep, EndingStep, DecidingStep
<1>3. CASE Cancel \/ DeviceDies \/ UNCHANGED vars
  BY <1>3 DEF QuietStep
<1> QED BY <1>1, <1>2, <1>3 DEF Next

-----------------------------------------------------------------------------
\* The streak is below the limit as long as the loop runs.
StreakBelow == pc # "exited" => suspected < suspectedAuthLimit
IType == TypeOK /\ StreakBelow

LEMMA TypeStep == IType /\ [Next]_vars => IType'
<1> SUFFICES ASSUME IType, [Next]_vars PROVE IType'
  OBVIOUS
<1>0. N \in Nat \ {0} /\ suspectedAuthLimit \in Nat \ {0} /\ MaxAttempt \in Nat
  BY LoopAssumption DEF LoopAssumption
<1>t. TypeRing /\ TypeCounts /\ TypeGhosts /\ TypePlace /\ TypeFlags /\ StreakBelow
  BY TypeParts DEF IType
<1>p. ASSUME TypeRing' /\ TypeCounts' /\ TypeGhosts' /\ TypePlace' /\ TypeFlags' /\ StreakBelow'
      PROVE  IType'
  BY <1>p, TypePartsNext DEF IType
<1>1. CASE QuietStep
  <2>1. Quiet /\ QuietMove /\ QuietEnv
    BY <1>1, QuietSteps
  <2>2. TypeRing' /\ TypeCounts' /\ TypeGhosts'
    BY <2>1, <1>t DEF Quiet, TypeRing, TypeCounts, TypeGhosts, Endpoints
  <2>3. TypePlace'
    BY <2>1, <1>t DEF Quiet, QuietMove, QuietEnv, TypePlace, Moving, Dialing
  <2>4. TypeFlags'
    BY <2>1, <1>t DEF Quiet, QuietEnv, TypeFlags
  <2>5. StreakBelow'
    BY <2>1, <1>t DEF Quiet, QuietMove, StreakBelow, Moving, Dialing
  <2> QED BY <1>p, <2>2, <2>3, <2>4, <2>5
<1>2. CASE EndingStep
  <2>1. /\ Ended
        /\ UNCHANGED <<attempt, suspected, idx, tried, cycled, exit, ctx, dev>>
        /\ pc \in Moving \ {"top"}
    BY <1>2, <1>t, EndingSteps DEF EndingStep, TypePlace
  <2>2. PICK l \in BOOLEAN, e \in Errors : AttemptEnds(e, l)
    BY <2>1 DEF Ended
  <2>3. TypeRing' /\ TypeCounts'
    BY <2>1, <2>2, <1>t, <1>0 DEF AttemptEnds, TypeRing, TypeCounts, Endpoints
  <2>4. TypeGhosts'
    BY <2>1, <2>2, <1>t, <1>0 DEF AttemptEnds, TypeGhosts, TypeRing, Endpoints
  <2>5. TypePlace'
    BY <2>1, <2>2, <1>t DEF AttemptEnds, TypePlace, Errors
  <2>6. TypeFlags'
    BY <2>1, <2>2, <1>t DEF AttemptEnds, TypeFlags
  <2>7. StreakBelow'
    BY <2>1, <1>t DEF StreakBelow, Moving, Dialing
  <2> QED BY <1>p, <2>3, <2>4, <2>5, <2>6, <2>7
<1>3. CASE Assigned
  <2>1. /\ pc = "firstFrame" /\ pc' = "assigned" /\ tried' = 0 /\ failed' = {}
        /\ UNCHANGED <<idx, attempt, suspected, cycled, err, long, ctx, dev, exit, alerts>>
    BY <1>3 DEF Assigned, succeeded, outcome, env
  <2>2. TypeRing' /\ TypeCounts' /\ TypeGhosts'
    BY <2>1, <1>t, <1>0 DEF TypeRing, TypeCounts, TypeGhosts, Endpoints
  <2>3. TypePlace' /\ TypeFlags' /\ StreakBelow'
    BY <2>1, <1>t DEF TypePlace, TypeFlags, StreakBelow
  <2> QED BY <1>p, <2>2, <2>3
<1>4. CASE Advance
  <2>1. /\ pc = "failed" /\ pc' = "advanced"
        /\ suspected' = SuspectedAuth /\ advance /\ attempt' = (IF long THEN 0 ELSE attempt)
        /\ UNCHANGED <<err, long, ctx, dev, exit, failed, alerts>>
    BY <1>4 DEF Advance, outcome, env, ghosts
  <2>2. TypeRing' /\ cycled' \in BOOLEAN
    BY <2>1, <1>t, <1>0 DEF advance, Successor, TypeRing, Endpoints
  <2>3. suspected' \in 0..suspectedAuthLimit /\ suspected' < suspectedAuthLimit
    <3>1. CASE err = "suspect"
      <4>1. SuspectedAuth < suspectedAuthLimit /\ SuspectedAuth = suspected + 1
        BY <1>4, <3>1 DEF Advance, SuspectedAuth
      <4> QED BY <4>1, <2>1, <1>t, <1>0 DEF TypeCounts
    <3>2. CASE err # "suspect"
      BY <3>2, <2>1, <1>0 DEF SuspectedAuth
    <3> QED BY <3>1, <3>2
  <2>4. TypeCounts' /\ TypeGhosts' /\ StreakBelow'
    BY <2>1, <2>3, <1>t, <1>0 DEF TypeCounts, TypeGhosts, StreakBelow, Endpoints
  <2>5. TypePlace' /\ TypeFlags'
    BY <2>1, <2>2, <1>t DEF TypePlace, TypeFlags
  <2> QED BY <1>p, <2>2, <2>4, <2>5
<1>5. CASE FailEndsSuspected
  <2>1. /\ pc = "failed" /\ pc' = "exited" /\ exit' = "suspect" /\ err = "suspect"
        /\ suspected' = SuspectedAuth
        /\ UNCHANGED <<attempt, idx, tried, cycled, err, long, ctx, dev, failed, alerts>>
    BY <1>5 DEF FailEndsSuspected, Exit, ring, outcome, env, ghosts
  <2>2. suspected' \in 0..suspectedAuthLimit
    BY <2>1, <1>t, <1>0 DEF SuspectedAuth, StreakBelow, TypeCounts
  <2>3. TypeRing' /\ TypeCounts' /\ TypeGhosts'
    BY <2>1, <2>2, <1>t DEF TypeRing, TypeCounts, TypeGhosts, Endpoints
  <2>4. TypePlace' /\ TypeFlags' /\ StreakBelow'
    BY <2>1, <1>t DEF TypePlace, TypeFlags, StreakBelow
  <2> QED BY <1>p, <2>3, <2>4
<1>6. CASE WaitOver
  <2>1. /\ pc = "wait" /\ pc' = "top" /\ failed' = {}
        /\ attempt' = (IF attempt < MaxAttempt THEN attempt + 1 ELSE attempt)
        /\ UNCHANGED <<suspected, idx, tried, cycled, err, long, ctx, dev, exit, alerts>>
    BY <1>6 DEF WaitOver, ring, outcome, env
  <2>2. TypeRing' /\ TypeCounts' /\ TypeGhosts'
    BY <2>1, <1>t, <1>0 DEF TypeRing, TypeCounts, TypeGhosts, Endpoints
  <2>3. TypePlace' /\ TypeFlags' /\ StreakBelow'
    BY <2>1, <1>t DEF TypePlace, TypeFlags, StreakBelow
  <2> QED BY <1>p, <2>2, <2>3
<1>7. CASE DecidingStep
  <2>1. /\ pc = "session" /\ pc' = "teardown"
        /\ UNCHANGED <<attempt, suspected, idx, tried, cycled, long, ctx, exit, failed, alerts>>
        /\ err' \in {"retry", "fatal", "fatalDevice", "nil"} /\ dev' \in {dev, "taken"}
    BY <1>7, DecidingSteps
  <2>2. TypeRing' /\ TypeCounts' /\ TypeGhosts'
    BY <2>1, <1>t DEF TypeRing, TypeCounts, TypeGhosts, Endpoints
  <2>3. TypePlace' /\ TypeFlags' /\ StreakBelow'
    BY <2>1, <1>t DEF TypePlace, TypeFlags, StreakBelow, Errors
  <2> QED BY <1>p, <2>2, <2>3
<1> QED BY <1>1, <1>2, <1>3, <1>4, <1>5, <1>6, <1>7, StepKinds

LEMMA ITypeAlways == Spec => []IType
<1>1. Init => IType
  BY TypeInit, LoopAssumption DEF Init, IType, StreakBelow, LoopAssumption
<1> QED BY <1>1, TypeStep, PTL DEF Spec

(* Every reachable state is of the type the variables claim. *)
THEOREM LoopTypeCorrect == Spec => []TypeOK
<1>1. IType => TypeOK
  BY DEF IType
<1> QED BY <1>1, ITypeAlways, PTL

-----------------------------------------------------------------------------
(* The ring. *)
LEMMA RoundStep == IType /\ Round /\ [Next]_vars => Round'
<1> SUFFICES ASSUME IType, Round, [Next]_vars PROVE Round'
  OBVIOUS
<1>0. N \in Nat \ {0}
  BY LoopAssumption DEF LoopAssumption
<1>t. idx \in Endpoints /\ tried \in 0..(N - 1) /\ err \in Errors
  BY DEF IType, TypeOK
<1>c. Endpoints' = Endpoints
  OBVIOUS
<1> USE DEF StandsAt
<1>1. CASE QuietStep
  <2>1. Quiet /\ QuietMove
    BY <1>1, QuietSteps
  <2>2. UNCHANGED <<idx, tried, cycled, failed>>
    BY <2>1 DEF Quiet
  <2>3. CASE pc' \in Moving
    <3>1. pc \in Moving \/ (pc = "advanced" /\ ~cycled)
      BY <2>1, <2>3 DEF QuietMove, Moving, Dialing
    <3>2. PICK s \in Endpoints : StandsAt(s, tried)
      BY <3>1 DEF Round
    <3> QED BY <2>2, <2>3, <3>2 DEF Round, Moving, Dialing, Walk, Passed
  <2>4. CASE pc' \notin Moving /\ pc' = pc
    BY <2>4, <2>2 DEF Round, Walk, Passed, Moving
  <2>5. CASE pc' \notin Moving /\ pc' # pc
    <3>1. pc' = "exited" \/ (pc' = "wait" /\ pc = "advanced" /\ cycled)
      BY <2>1, <2>5 DEF QuietMove, Moving, Dialing
    <3> QED BY <3>1, <2>2, <2>5 DEF Round, Moving
  <2> QED BY <2>3, <2>4, <2>5
<1>2. CASE EndingStep
  <2>1. Ended /\ UNCHANGED <<idx, tried>> /\ pc \in Moving
    BY <1>2, <1>t, EndingSteps DEF EndingStep
  <2>2. pc' = "failed" /\ failed' = failed \cup {idx}
    BY <2>1 DEF Ended, AttemptEnds
  <2>3. PICK s \in Endpoints : StandsAt(s, tried)
    BY <2>1 DEF Round
  <2>4. idx' = Walk(s, tried') /\ failed' = Passed(s, tried' + 1)
    BY <2>1, <2>2, <2>3, <1>t, WalkFacts
  <2> QED BY <2>2, <2>4 DEF Round, Moving, Dialing, Walk, Passed
<1>3. CASE Assigned
  <2>1. pc' = "assigned" /\ tried' = 0 /\ idx' = idx /\ failed' = {}
    BY <1>3 DEF Assigned, succeeded
  <2>2. StandsAt(idx, 0)'
    BY <2>1, <1>t, WalkFacts DEF Walk, Passed
  <2> QED BY <2>1, <2>2, <1>t DEF Round, Moving, Dialing, Walk, Passed
<1>4. CASE Advance
  <2>1. pc = "failed" /\ pc' = "advanced" /\ advance /\ UNCHANGED failed
    BY <1>4 DEF Advance, ghosts
  <2>2. PICK s \in Endpoints : idx = Walk(s, tried) /\ failed = Passed(s, tried + 1)
    BY <2>1 DEF Round
  <2>3. idx' = Walk(s, tried + 1)
    BY <2>1, <2>2, <1>t, WalkFacts DEF advance
  <2>4. CASE tried + 1 >= N
    <3>1. tried + 1 = N /\ tried' = 0
      BY <2>1, <2>4, <1>t, <1>0 DEF advance
    <3>3. cycled'
      BY <2>1, <2>4, Zenon DEF advance
    <3>2. failed' = Endpoints
      BY <3>1, <2>1, <2>2, WalkFacts
    <3> QED BY <3>1, <3>2, <3>3, <2>1, <1>c DEF Round, Moving, Dialing
  <2>5. CASE ~(tried + 1 >= N)
    <3>1. ~cycled' /\ tried' = tried + 1
      BY <2>1, <2>5, Zenon DEF advance
    <3>2. idx' = Walk(s, tried') /\ failed' = Passed(s, tried')
      BY <3>1, <2>1, <2>2, <2>3
    <3> QED BY <3>1, <3>2, <2>1 DEF Round, Moving, Dialing, Walk, Passed
  <2> QED BY <2>4, <2>5
<1>5. CASE FailEndsSuspected
  BY <1>5 DEF FailEndsSuspected, Exit, Round, Moving, Dialing
<1>6. CASE WaitOver
  <2>1. pc = "wait" /\ pc' = "top" /\ failed' = {} /\ UNCHANGED <<idx, tried>>
    BY <1>6 DEF WaitOver, ring
  <2>2. tried = 0
    BY <2>1 DEF Round
  <2>3. StandsAt(idx, 0)'
    BY <2>1, <1>t, WalkFacts DEF Walk, Passed
  <2> QED BY <2>1, <2>2, <2>3, <1>t DEF Round, Moving, Dialing, Walk, Passed
<1>7. CASE DecidingStep
  <2>1. pc \in Moving /\ pc' = "teardown" /\ UNCHANGED <<idx, tried, failed>>
    BY <1>7, DecidingSteps DEF Moving
  <2>2. PICK s \in Endpoints : StandsAt(s, tried)
    BY <2>1 DEF Round
  <2> QED BY <2>1, <2>2 DEF Round, Moving, Dialing, Walk, Passed
<1> QED BY <1>1, <1>2, <1>3, <1>4, <1>5, <1>6, <1>7, StepKinds

LEMMA RoundInit == Init => Round
<1> SUFFICES ASSUME Init PROVE Round
  OBVIOUS
<1>1. pc = "top" /\ idx = Preferred /\ Preferred \in Endpoints /\ tried = 0 /\ failed = {}
  BY LoopAssumption DEF Init, LoopAssumption, Endpoints
<1>2. StandsAt(idx, 0)
  BY <1>1, WalkFacts DEF StandsAt
<1> QED BY <1>1, <1>2 DEF Round, Moving, Dialing

LEMMA RoundAlways == Spec => []Round
BY RoundInit, RoundStep, ITypeAlways, PTL DEF Spec

(* The ring keeps its pace, wherever in the list it started: the loop waits
   only when every endpoint has failed once since the last success or wait, and
   between two waits no endpoint that failed is dialled again, unless one has
   worked since. *)
THEOREM LoopRoundsArePaced == Spec => []RoundsArePaced
<1>1. Round => WaitIsEarned
  BY DEF Round, WaitIsEarned
<1>2. IType /\ Round => NoRetryWithoutWait
  <2> SUFFICES ASSUME IType, Round, pc \in Dialing PROVE idx \notin failed
    BY DEF NoRetryWithoutWait
  <2>1. tried \in 0..(N - 1)
    BY DEF IType, TypeOK
  <2>2. PICK s \in Endpoints : StandsAt(s, tried)
    BY DEF Round, Moving
  <2> QED BY <2>1, <2>2, WalkFacts DEF StandsAt
<1>3. IType /\ Round => RoundsArePaced
  BY <1>1, <1>2 DEF RoundsArePaced
<1> QED BY <1>3, RoundAlways, ITypeAlways, PTL

-----------------------------------------------------------------------------
(* How the loop ends. *)
Causes ==
    /\ pc \in {"teardown", "failed"} /\ err = "nil" => ctx
    /\ NilExitMeansCancelled
    /\ dev = "taken" =>
           \/ ctx
           \/ pc \in {"teardown", "failed"} /\ err = "fatalDevice"
           \/ pc = "exited" /\ exit = "fatalDevice"

\* suspected trails the alerts: by one while the last one is being judged.
Streak ==
    /\ pc \notin {"failed", "exited"} => suspected <= alerts
    /\ pc = "failed" /\ err = "suspect" => suspected < alerts
    /\ GivesUpOnlyOnRun
    /\ exit = "suspect" => pc = "exited"

LEMMA CausesStep == IType /\ Causes /\ [Next]_vars => Causes'
<1> SUFFICES ASSUME IType, Causes, [Next]_vars PROVE Causes'
  OBVIOUS
<1> USE DEF Causes, NilExitMeansCancelled
<1>t. ctx \in BOOLEAN
  BY DEF IType, TypeOK
<1>1. CASE QuietStep
  <2>1. Quiet /\ QuietMove /\ QuietEnv
    BY <1>1, QuietSteps
  <2>2. (pc' \in {"teardown", "failed"} /\ err' = "nil" => ctx') /\ NilExitMeansCancelled'
    BY <2>1, <1>t DEF Quiet, QuietMove, QuietEnv, Moving, Dialing
  <2>3. ASSUME dev' = "taken", ~ctx'
        PROVE  \/ pc' \in {"teardown", "failed"} /\ err' = "fatalDevice"
               \/ pc' = "exited" /\ exit' = "fatalDevice"
    BY <2>1, <2>3, <1>t DEF Quiet, QuietMove, QuietEnv, Moving, Dialing
  <2> QED BY <2>2, <2>3
<1>2. CASE EndingStep
  BY <1>2 DEF EndingStep, ConnectFails, HandshakeFails, FirstFrameFails, SetUpFails,
     SessionReturns, DialFails, AttemptEnds, env, Dialing
<1>3. CASE Assigned
  BY <1>3 DEF Assigned, env, outcome
<1>4. CASE Advance
  BY <1>4 DEF Advance, env, outcome
<1>5. CASE FailEndsSuspected
  BY <1>5 DEF FailEndsSuspected, Exit, env, outcome
<1>6. CASE WaitOver
  BY <1>6 DEF WaitOver, env, outcome
<1>7. CASE DecidingStep
  BY <1>7, DecidingSteps
<1> QED BY <1>1, <1>2, <1>3, <1>4, <1>5, <1>6, <1>7, StepKinds

LEMMA StreakStep == IType /\ Streak /\ [Next]_vars => Streak'
<1> SUFFICES ASSUME IType, Streak, [Next]_vars PROVE Streak'
  OBVIOUS
<1>0. suspectedAuthLimit \in Nat \ {0}
  BY LoopAssumption DEF LoopAssumption
<1>t. /\ suspected \in 0..suspectedAuthLimit /\ alerts \in 0..suspectedAuthLimit
      /\ StreakBelow /\ err \in Errors
  BY DEF IType, TypeOK
<1> USE DEF Streak, GivesUpOnlyOnRun
<1>1. CASE QuietStep
  BY <1>1, QuietSteps DEF Quiet, QuietMove, Moving, Dialing
<1>2. CASE EndingStep
  <2>1. Ended /\ UNCHANGED <<suspected, exit>> /\ pc \in Moving
    BY <1>2, <1>t, EndingSteps DEF EndingStep
  <2>2. PICK l \in BOOLEAN, e \in Errors : AttemptEnds(e, l)
    BY <2>1 DEF Ended
  <2>3. pc' = "failed" /\ suspected <= alerts /\ suspected < suspectedAuthLimit /\ exit' # "suspect"
    BY <2>1, <2>2, <1>t DEF AttemptEnds, Moving, Dialing, StreakBelow
  <2>4. err' = "suspect" => suspected' < alerts'
    BY <2>1, <2>2, <2>3, <1>t, <1>0 DEF AttemptEnds
  <2> QED BY <2>3, <2>4
<1>3. CASE Assigned
  BY <1>3 DEF Assigned, env, outcome
<1>4. CASE Advance
  BY <1>4, <1>t, <1>0 DEF Advance, SuspectedAuth, ghosts, outcome
<1>5. CASE FailEndsSuspected
  BY <1>5, <1>t, <1>0 DEF FailEndsSuspected, SuspectedAuth, Exit, ghosts
<1>6. CASE WaitOver
  BY <1>6, <1>t, <1>0 DEF WaitOver
<1>7. CASE DecidingStep
  BY <1>7, DecidingSteps
<1> QED BY <1>1, <1>2, <1>3, <1>4, <1>5, <1>6, <1>7, StepKinds

LEMMA EndsInit == Init => Causes /\ Streak
BY DEF Init, Causes, Streak, NilExitMeansCancelled, GivesUpOnlyOnRun

LEMMA EndsAlways == Spec => [](Causes /\ Streak)
BY EndsInit, CausesStep, StreakStep, ITypeAlways, PTL DEF Spec

(* The loop returns nil only to a caller that cancelled it, and the only report
   of a dead device is never swallowed. *)
THEOREM LoopExitsHaveCauses == Spec => []ExitsHaveCauses
<1>1. Causes => ExitsHaveCauses
  BY DEF Causes, ExitsHaveCauses, NilExitMeansCancelled, DeathEndsLoop
<1> QED BY <1>1, EndsAlways, PTL

(* Scattered certificate alerts never end the client. *)
THEOREM LoopGivesUp == Spec => []GivesUpOnlyOnRun
<1>1. Streak => GivesUpOnlyOnRun
  BY DEF Streak
<1> QED BY <1>1, EndsAlways, PTL

(* A cancelled loop comes closer to its end with every step it takes: at most six
   are left to it, whatever the servers answer and the device does. *)
THEOREM LoopWindsUp == Spec => CancelledLoopWindsUp
<1>1. TypeOK /\ [Next]_vars => (ctx => pc' = pc \/ StepsToGo' < StepsToGo)
  <2> SUFFICES ASSUME TypeOK, [Next]_vars, ctx PROVE pc' = pc \/ StepsToGo' < StepsToGo
    OBVIOUS
  <2>1. CASE Loop
    <3>1. \/ pc = "top" /\ pc' \in {"connect", "exited"}
          \/ pc \in {"failed", "advanced"} /\ pc' = "exited"
          \/ pc = "wait" /\ pc' \in {"top", "exited"}
      BY <2>1 DEF Loop, DeviceDied, StartConnect, FailEndsClean, FailEndsFatal, FailEndsSuspected,
                  Advance, AdvancedEndsClean, TryNext, Schedule, WaitOver, WaitCancelled,
                  WaitLosesDevice, Exit
    <3> QED BY <3>1 DEF StepsToGo
  <2>2. CASE Connected \/ HandshakeOK \/ Assigned \/ SetUpOK
    <3>1. \/ pc = "handshake" /\ pc' = "firstFrame"
          \/ pc = "firstFrame" /\ pc' = "assigned"
          \/ pc = "assigned" /\ pc' = "session"
      BY <2>2 DEF Connected, HandshakeOK, Assigned, SetUpOK
    <3> QED BY <3>1 DEF StepsToGo
  <2>3. CASE EndingStep
    <3>1. pc \in Moving /\ Ended
      BY <2>3, EndingSteps DEF EndingStep, TypeOK
    <3>2. pc' = "failed"
      BY <3>1 DEF Ended, AttemptEnds
    <3> QED BY <3>1, <3>2 DEF Moving, Dialing, StepsToGo
  <2>6. CASE DecidingStep
    BY <2>6, DecidingSteps DEF StepsToGo
  <2>4. CASE Cancel \/ DeviceDies \/ UNCHANGED vars
    BY <2>4 DEF Cancel, DeviceDies, vars
  <2>5. "retry" \in Errors
    BY DEF Errors
  <2> QED BY <2>1, <2>2, <2>3, <2>4, <2>5, <2>6 DEF Next, Attempt, EndingStep, DecidingStep
<1> QED BY <1>1, LoopTypeCorrect, PTL DEF CancelledLoopWindsUp, Spec

-----------------------------------------------------------------------------
(* The loop as the engine of the helper daemon, which sees of a step only whether the
   loop returns and whether its context is cancelled: either may happen, not both. *)
SeenByDaemon ==
    \/ /\ pc' = "exited" <=> pc = "exited"
       /\ pc = "exited" => exit' = exit
       /\ ctx' = ctx \/ ctx' = TRUE
    \/ pc # "exited" /\ pc' = "exited" /\ ctx' = ctx /\ (exit' # "nil" \/ ctx)

LEMMA ReturnStep == IType /\ Causes /\ [Next]_vars => SeenByDaemon
<1> SUFFICES ASSUME IType, Causes, [Next]_vars PROVE SeenByDaemon
  OBVIOUS
<1> USE DEF SeenByDaemon
<1>1. CASE QuietStep
  <2>1. CASE Cancel \/ DeviceDies \/ UNCHANGED vars
    BY <2>1 DEF Cancel, DeviceDies, vars
  <2>2. CASE Connected \/ HandshakeOK \/ SetUpOK \/ StartConnect \/ TryNext \/ Schedule
    BY <2>2 DEF Connected, HandshakeOK, SetUpOK, StartConnect, TryNext, Schedule, env
  <2>3. CASE DeviceDied \/ FailEndsClean \/ FailEndsFatal
    BY <2>3 DEF DeviceDied, FailEndsClean, FailEndsFatal, isFatal, Exit, Causes, env
  <2>4. CASE AdvancedEndsClean \/ WaitCancelled \/ WaitLosesDevice
    BY <2>4 DEF AdvancedEndsClean, WaitCancelled, WaitLosesDevice, Exit, env
  <2> QED BY <1>1, <2>1, <2>2, <2>3, <2>4 DEF QuietStep
<1>2. CASE EndingStep
  <2>1. Ended /\ pc \in Moving /\ ctx' = ctx
    BY <1>2, EndingSteps DEF EndingStep, IType, TypeOK
  <2>2. pc' = "failed"
    BY <2>1 DEF Ended, AttemptEnds
  <2> QED BY <2>1, <2>2 DEF Moving, Dialing
<1>3. CASE Assigned \/ Advance \/ WaitOver
  BY <1>3 DEF Assigned, Advance, WaitOver, env
<1>4. CASE FailEndsSuspected
  BY <1>4 DEF FailEndsSuspected, Exit, env
<1>5. CASE DecidingStep
  BY <1>5, DecidingSteps
<1> QED BY <1>1, <1>2, <1>3, <1>4, <1>5, StepKinds

(* The loop keeps the terms on which the daemon runs a session: it returns once, and
   without an error only when the daemon cancelled its context. *)
THEOREM LoopIsTheEngine == Spec => EngineOfHelper
<1>1. IType /\ Causes /\ [Next]_vars => [\E s \in {"engine"} : Helper!EngineStep(s)]_(Helper!sessions)
  <2> SUFFICES ASSUME IType, Causes, [Next]_vars,
                      ~ UNCHANGED Helper!sessions
               PROVE  Helper!EngineStep("engine")
    OBVIOUS
  <2> USE DEF Helper!sessions, Helper!EngineStep, Helper!EngineReturns, Helper!serve, Helper!ctrl
  <2>1. CASE pc # "exited" /\ pc' = "exited" /\ ctx' = ctx /\ (exit' # "nil" \/ ctx)
    <3>1. Helper!EngineReturns("engine", exit' # "nil")
      BY <2>1
    <3> QED BY <3>1
  <2>2. CASE (pc' = "exited" <=> pc = "exited") /\ (pc = "exited" => exit' = exit) /\ ctx' = TRUE
    BY <2>2
  <2>3. CASE (pc' = "exited" <=> pc = "exited") /\ (pc = "exited" => exit' = exit) /\ ctx' = ctx
    BY <2>3
  <2> QED BY <2>1, <2>2, <2>3, ReturnStep DEF SeenByDaemon
<1> QED BY <1>1, ITypeAlways, EndsAlways, PTL DEF EngineOfHelper, Helper!EngineKeepsTerms, Spec
=============================================================================
