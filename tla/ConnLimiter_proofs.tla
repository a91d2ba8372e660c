------------------------ MODULE ConnLimiter_proofs ------------------------
(***************************************************************************)
(* Theorems about ConnLimiter, for any caps, penalty and set of            *)
(* connections.  The inductive invariant is Counted (the counters and the  *)
(* map agree with the slots that are out) together with the caps, and, for *)
(* the throttle, Throttling: a recent failure still holds its slot.        *)
(***************************************************************************)
EXTENDS ConnLimiter, FunctionTheorems, FiniteSetTheorems, TLAPS

Counted == TypeOK /\ SlotsExact /\ MapHasNoDeadKeys /\ CapsHold

(* A connection whose handshake failed within the window has not given its
   slot back, and its penalty cannot have run longer than the failure is old. *)
KeepsSlot(c) ==
    /\ age[c] < Penalty => phase[c] \in {"failed", "penalty"}
    /\ phase[c] = "penalty" => held[c] <= age[c]

Throttling == throttleActive /\ ~ctxDone => \A c \in Conn : KeepsSlot(c)

LEMMA HoldersFinite ==
    /\ IsFiniteSet(Holders)
    /\ Cardinality(Holders) \in Nat
    /\ \A i : /\ IsFiniteSet(HoldersOf(i))
              /\ Cardinality(HoldersOf(i)) \in Nat
              /\ HoldersOf(i) = {} <=> Cardinality(HoldersOf(i)) = 0
<1>1. Holders \subseteq Conn /\ \A i : HoldersOf(i) \subseteq Conn
  BY DEF Holders, HoldersOf
<1>2. IsFiniteSet(Holders) /\ \A i : IsFiniteSet(HoldersOf(i))
  BY <1>1, FS_Subset, LimiterAssumption DEF LimiterAssumption
<1> QED BY <1>2, FS_CardinalityType, FS_EmptySet

(* A step that takes a slot: one more holder, counted under its address. *)
LEMMA SlotTaken ==
    ASSUME NEW c \in Conn, NEW p \in Holding, Counted,
           phase[c] \notin Holding, ~AtLimit(ip[c]),
           phase' = [phase EXCEPT ![c] = p], ip' = ip,
           total' = total + 1, perIP' = PutCount(ip[c], Count(ip[c]) + 1)
    PROVE  SlotsExact' /\ MapHasNoDeadKeys' /\ CapsHold'
<1> DEFINE i == ip[c]
<1>0. i \in IP /\ p \in Phases
  BY DEF Counted, TypeOK, Holding, Phases
<1>1. Holders' = Holders \cup {c} /\ c \notin Holders
  BY DEF Holders, Counted, TypeOK
<1>2. \A j : HoldersOf(j)' = IF j = i THEN HoldersOf(j) \cup {c} ELSE HoldersOf(j)
  BY <1>1 DEF HoldersOf
<1>3. \A j : c \notin HoldersOf(j)
  BY <1>1 DEF HoldersOf
<1>4. Cardinality(Holders') = Cardinality(Holders) + 1
  BY <1>1, HoldersFinite, FS_AddElement
<1>5. \A j : Cardinality(HoldersOf(j)') = IF j = i THEN Cardinality(HoldersOf(j)) + 1
                                          ELSE Cardinality(HoldersOf(j))
  BY <1>2, <1>3, HoldersFinite, FS_AddElement
<1>6. \A j : Count(j)' = IF j = i THEN Count(i) + 1 ELSE Count(j)
  BY DEF Count, PutCount
<1>7. SlotsExact'
  BY <1>4, <1>5, <1>6, <1>0 DEF SlotsExact, Counted
<1>8. MapHasNoDeadKeys'
  <2>1. DOMAIN perIP' = DOMAIN perIP \cup {i}
    BY DEF PutCount
  <2>2. {ip'[d] : d \in Holders'} = {ip[d] : d \in Holders} \cup {i}
    BY <1>1
  <2> QED BY <2>1, <2>2 DEF MapHasNoDeadKeys, Counted
<1>9. CapsHold'
  <2>1. MaxTotal > 0 => Cardinality(Holders') <= MaxTotal
    BY <1>4, HoldersFinite, LimiterAssumption
       DEF AtLimit, Counted, SlotsExact, LimiterAssumption
  <2>2. ASSUME MaxPerIP > 0, NEW j \in IP PROVE Cardinality(HoldersOf(j)') <= MaxPerIP
    BY <2>2, <1>0, <1>5, HoldersFinite, LimiterAssumption
       DEF AtLimit, Counted, SlotsExact, CapsHold, LimiterAssumption
  <2> QED BY <2>1, <2>2 DEF CapsHold
<1> QED BY <1>7, <1>8, <1>9

(* A step that gives a slot back, at once or from the timer. *)
LEMMA SlotReturned ==
    ASSUME NEW c \in Conn, NEW p, p \notin Holding, Counted,
           phase[c] \in Holding,
           phase' = [phase EXCEPT ![c] = p], ip' = ip, dec(ip[c])
    PROVE  /\ SlotsExact' /\ MapHasNoDeadKeys' /\ CapsHold'
           /\ total' \in Nat /\ DOMAIN perIP' \subseteq IP /\ perIP' \in [DOMAIN perIP' -> Nat]
<1> DEFINE i == ip[c]
<1>0. i \in IP
  BY DEF Counted, TypeOK
<1>1. Holders' = Holders \ {c} /\ c \in Holders
  BY DEF Holders, Counted, TypeOK
<1>2. \A j : HoldersOf(j)' = IF j = i THEN HoldersOf(j) \ {c} ELSE HoldersOf(j)
  BY <1>1 DEF HoldersOf
<1>3. c \in HoldersOf(i)
  BY <1>1 DEF HoldersOf
<1>4. Cardinality(Holders') = Cardinality(Holders) - 1 /\ Cardinality(Holders') \in Nat
  <2>1. IsFiniteSet(Holders')
    BY <1>1, HoldersFinite, FS_RemoveElement
  <2> QED BY <2>1, <1>1, HoldersFinite, FS_RemoveElement, FS_CardinalityType
<1>5. \A j : Cardinality(HoldersOf(j)') = IF j = i THEN Cardinality(HoldersOf(j)) - 1
                                          ELSE Cardinality(HoldersOf(j))
  BY <1>2, <1>3, HoldersFinite, FS_RemoveElement
<1>6. Count(i) = Cardinality(HoldersOf(i)) /\ Count(i) \in Nat /\ Count(i) >= 1
  BY <1>0, <1>3, HoldersFinite DEF Counted, SlotsExact
<1>7. \A j : Count(j)' = IF j = i THEN Count(i) - 1 ELSE Count(j)
  BY <1>6 DEF Count, PutCount, DropCount, dec
<1>8. SlotsExact'
  BY <1>4, <1>5, <1>6, <1>7, <1>0 DEF SlotsExact, Counted, dec
<1>9. DOMAIN perIP' = IF HoldersOf(i)' = {} THEN DOMAIN perIP \ {i} ELSE DOMAIN perIP \cup {i}
  <2>1. HoldersOf(i)' = {} <=> Count(i) - 1 <= 0
    <3>1. IsFiniteSet(HoldersOf(i)')
      BY <1>2, HoldersFinite, FS_RemoveElement
    <3> QED BY <3>1, <1>5, <1>6, FS_EmptySet, FS_CardinalityType
  <2> QED BY <2>1 DEF dec, PutCount, DropCount
<1>10. MapHasNoDeadKeys'
  <2>1. CASE HoldersOf(i)' = {}
    <3>1. {ip'[d] : d \in Holders'} = {ip[d] : d \in Holders} \ {i}
      BY <2>1, <1>1 DEF HoldersOf
    <3> QED BY <3>1, <2>1, <1>9 DEF MapHasNoDeadKeys, Counted
  <2>2. CASE HoldersOf(i)' # {}
    <3>1. {ip'[d] : d \in Holders'} = {ip[d] : d \in Holders} \cup {i}
      BY <2>2, <1>1 DEF HoldersOf
    <3> QED BY <3>1, <2>2, <1>9 DEF MapHasNoDeadKeys, Counted
  <2> QED BY <2>1, <2>2
<1>11. CapsHold'
  BY <1>0, <1>4, <1>5, HoldersFinite, LimiterAssumption DEF CapsHold, Counted, LimiterAssumption
<1>12. total' \in Nat
  BY <1>4 DEF dec, Counted, SlotsExact
<1>13. DOMAIN perIP' \subseteq IP
  BY <1>0, <1>9 DEF Counted, TypeOK
<1>14. perIP' \in [DOMAIN perIP' -> Nat]
  BY <1>6 DEF dec, PutCount, DropCount, Counted, TypeOK
<1> QED BY <1>8, <1>10, <1>11, <1>12, <1>13, <1>14

(* A step that changes no holder and no counter. *)
LEMMA SlotsKept ==
    ASSUME Counted, Holders' = Holders, ip' = ip, total' = total, perIP' = perIP
    PROVE  SlotsExact' /\ MapHasNoDeadKeys' /\ CapsHold'
BY DEF Counted, SlotsExact, MapHasNoDeadKeys, CapsHold, HoldersOf, Count

LEMMA TypeKept ==
    ASSUME Counted, phase' \in [Conn -> Phases], ip' = ip,
           age' \in [Conn -> 0..Penalty], held' \in [Conn -> 0..Penalty],
           total' \in Nat, DOMAIN perIP' \subseteq IP,
           perIP' \in [DOMAIN perIP' -> Nat], ctxDone' \in BOOLEAN
    PROVE  TypeOK'
BY DEF Counted, TypeOK

LEMMA CountedStep == Counted /\ [Next]_vars => Counted'
<1> SUFFICES ASSUME Counted, [Next]_vars PROVE Counted'
  OBVIOUS
<1> USE DEF Goto
<1>t. TypeOK
  BY DEF Counted
<1>p. Penalty \in Nat
  BY LimiterAssumption DEF LimiterAssumption
<1>1. ASSUME NEW c \in Conn, Acquire(c) PROVE Counted'
  <2>1. SlotsExact' /\ MapHasNoDeadKeys' /\ CapsHold'
    BY <1>1, SlotTaken DEF Acquire, Holding
  <2>2. total' \in Nat /\ DOMAIN perIP' \subseteq IP /\ perIP' \in [DOMAIN perIP' -> Nat]
    BY <1>1, <1>t DEF Acquire, PutCount, Count, TypeOK
  <2>3. TypeOK'
    BY <1>1, <1>t, <2>2, TypeKept DEF Acquire, TypeOK, Phases
  <2> QED BY <2>1, <2>3 DEF Counted
<1>2. ASSUME NEW c \in Conn, ReleaseNow(c) \/ TimerFires(c) PROVE Counted'
  <2>1. phase[c] \in Holding /\ "gone" \notin Holding
    BY <1>2 DEF ReleaseNow, TimerFires, Holding
  <2>2. /\ phase' = [phase EXCEPT ![c] = "gone"] /\ dec(ip[c])
        /\ UNCHANGED <<ip, age, held, ctxDone>>
    BY <1>2 DEF ReleaseNow, TimerFires
  <2>3. /\ SlotsExact' /\ MapHasNoDeadKeys' /\ CapsHold'
        /\ total' \in Nat /\ DOMAIN perIP' \subseteq IP /\ perIP' \in [DOMAIN perIP' -> Nat]
    BY <2>1, <2>2, SlotReturned
  <2>4. TypeOK'
    BY <1>t, <2>2, <2>3, TypeKept DEF TypeOK, Phases
  <2> QED BY <2>3, <2>4 DEF Counted
<1>3. ASSUME NEW c \in Conn,
             \/ Refuse(c) \/ HandshakeOK(c) \/ HandshakeFails(c)
             \/ SessionEnds(c) \/ ReleaseLater(c)
      PROVE  Counted'
  <2>1. Holders' = Holders /\ phase' \in [Conn -> Phases]
    BY <1>3, <1>t DEF Refuse, HandshakeOK, HandshakeFails, SessionEnds, ReleaseLater,
                     Holders, Holding, TypeOK, Phases
  <2>2. UNCHANGED <<ip, total, perIP, ctxDone>>
    BY <1>3 DEF Refuse, HandshakeOK, HandshakeFails, SessionEnds, ReleaseLater
  <2>3. age' \in [Conn -> 0..Penalty] /\ held' \in [Conn -> 0..Penalty]
    BY <1>3, <1>t, <1>p DEF Refuse, HandshakeOK, HandshakeFails, SessionEnds, ReleaseLater, TypeOK
  <2>4. TypeOK'
    BY <1>t, <2>1, <2>2, <2>3, TypeKept DEF TypeOK
  <2> QED BY <2>1, <2>2, <2>4, SlotsKept DEF Counted
<1>4. CASE Cancel \/ Tick \/ UNCHANGED vars
  <2>1. phase' = phase /\ UNCHANGED <<ip, total, perIP>> /\ ctxDone' \in BOOLEAN
    BY <1>4, <1>t DEF Cancel, Tick, vars, TypeOK
  <2>2. age' \in [Conn -> 0..Penalty] /\ held' \in [Conn -> 0..Penalty]
    BY <1>4, <1>t, <1>p DEF Cancel, Tick, Later, vars, TypeOK
  <2>3. TypeOK'
    BY <1>t, <2>1, <2>2, TypeKept DEF TypeOK
  <2>4. Holders' = Holders
    BY <2>1 DEF Holders
  <2> QED BY <2>1, <2>3, <2>4, SlotsKept DEF Counted
<1> QED BY <1>1, <1>2, <1>3, <1>4 DEF Next, Handler

LEMMA CountedInit == Init => Counted
<1> SUFFICES ASSUME Init PROVE Counted
  OBVIOUS
<1>1. Holders = {} /\ \A i : HoldersOf(i) = {}
  BY DEF Init, Holders, HoldersOf, Holding
<1>2. DOMAIN perIP = {} /\ DOMAIN perIP \subseteq IP /\ perIP \in [DOMAIN perIP -> Nat]
  BY DEF Init
<1>3. TypeOK
  <2>1. phase \in [Conn -> Phases] /\ ip \in [Conn -> IP] /\ total \in Nat /\ ctxDone \in BOOLEAN
    BY DEF Init, Phases
  <2>2. age \in [Conn -> 0..Penalty] /\ held \in [Conn -> 0..Penalty]
    BY LimiterAssumption DEF Init, LimiterAssumption
  <2> QED BY <1>2, <2>1, <2>2 DEF TypeOK
<1>4. Cardinality(Holders) = 0 /\ \A i : Cardinality(HoldersOf(i)) = 0
  BY <1>1, FS_EmptySet
<1>5. SlotsExact
  BY <1>2, <1>4 DEF SlotsExact, Count, Init
<1>6. MapHasNoDeadKeys
  BY <1>1, <1>2 DEF MapHasNoDeadKeys
<1>7. CapsHold
  BY <1>4, LimiterAssumption DEF CapsHold, LimiterAssumption
<1> QED BY <1>3, <1>5, <1>6, <1>7 DEF Counted

(* A failed handshake keeps its slot for the window: the timer is started
   after the failure and fires no earlier than the penalty. *)
LEMMA ThrottlingStep == Counted /\ Throttling /\ [Next]_vars => Throttling'
<1>a. throttleActive' <=> throttleActive
  BY DEF throttleActive
<1> SUFFICES ASSUME Counted, Throttling, [Next]_vars, throttleActive, ~ctxDone', NEW c \in Conn
             PROVE  KeepsSlot(c)'
  BY <1>a DEF Throttling
<1> USE DEF Goto, KeepsSlot
<1>t. TypeOK
  BY DEF Counted
<1>p. Penalty \in Nat
  BY LimiterAssumption DEF LimiterAssumption
<1>0. ~ctxDone
  BY <1>t DEF Next, Handler, Refuse, Acquire, HandshakeOK, HandshakeFails, SessionEnds,
              ReleaseNow, ReleaseLater, TimerFires, Cancel, Tick, vars, TypeOK
<1>1. KeepsSlot(c)
  BY <1>0 DEF Throttling
<1>2. age[c] \in 0..Penalty /\ held[c] \in 0..Penalty
  BY <1>t DEF TypeOK
<1>3. ASSUME NEW d \in Conn, Handler(d) \/ TimerFires(d), d # c
      PROVE  phase'[c] = phase[c] /\ age'[c] = age[c] /\ held'[c] = held[c]
  BY <1>3, <1>t DEF Handler, Refuse, Acquire, HandshakeOK, HandshakeFails, SessionEnds,
                   ReleaseNow, ReleaseLater, TimerFires, TypeOK
<1>4. ASSUME Refuse(c) \/ Acquire(c) \/ HandshakeOK(c) \/ SessionEnds(c)
      PROVE  age'[c] = age[c] /\ phase[c] \notin {"failed", "penalty"} /\ phase'[c] # "penalty"
  BY <1>4, <1>t DEF Refuse, Acquire, HandshakeOK, SessionEnds, TypeOK
<1>5. ASSUME HandshakeFails(c) PROVE phase'[c] = "failed"
  BY <1>5, <1>t DEF HandshakeFails, TypeOK
<1>6. ASSUME ReleaseNow(c)
      PROVE  age'[c] = age[c] /\ phase[c] = "ended" /\ phase'[c] = "gone"
  BY <1>6, <1>t, <1>0 DEF ReleaseNow, Penalize, TypeOK
<1>7. ASSUME ReleaseLater(c) PROVE phase'[c] = "penalty" /\ held'[c] = 0 /\ age'[c] = age[c]
  BY <1>7, <1>t DEF ReleaseLater, TypeOK
<1>8. ASSUME TimerFires(c) PROVE age'[c] = age[c] /\ age[c] >= Penalty /\ phase'[c] = "gone"
  BY <1>8, <1>t, <1>p, <1>1, <1>2 DEF TimerFires, TypeOK
<1>9. CASE Tick
  <2>1. /\ phase'[c] = phase[c] /\ age'[c] = Later(age[c])
        /\ phase[c] = "penalty" => held'[c] = Later(held[c])
    BY <1>9 DEF Tick
  <2> QED BY <2>1, <1>1, <1>2, <1>p DEF Later
<1>10. CASE UNCHANGED vars
  BY <1>10, <1>1 DEF vars
<1> QED BY <1>0, <1>1, <1>2, <1>3, <1>4, <1>5, <1>6, <1>7, <1>8, <1>9, <1>10, <1>p
        DEF Next, Handler, Cancel

LEMMA ThrottlingInit == Init => Throttling
BY LimiterAssumption DEF Init, Throttling, KeepsSlot, LimiterAssumption

(* With both invariants the failures of a window are slots still out, and the
   per-address cap bounds those. *)
LEMMA ThrottlingSuffices == Counted /\ Throttling => FailuresThrottled
<1> SUFFICES ASSUME Counted, Throttling, throttleActive, ~ctxDone, NEW i \in IP
             PROVE  Cardinality(FailedRecently(i)) <= MaxPerIP
  BY DEF FailuresThrottled
<1>1. FailedRecently(i) \subseteq HoldersOf(i)
  BY DEF Throttling, KeepsSlot, FailedRecently, HoldersOf, Holders, Holding
<1>2. Cardinality(FailedRecently(i)) <= Cardinality(HoldersOf(i))
  BY <1>1, HoldersFinite, FS_Subset
<1>3. Cardinality(HoldersOf(i)) <= MaxPerIP
  BY DEF Counted, CapsHold, throttleActive
<1>4. Cardinality(FailedRecently(i)) \in Nat
  BY <1>1, HoldersFinite, FS_Subset, FS_CardinalityType
<1> QED BY <1>2, <1>3, <1>4, HoldersFinite, LimiterAssumption DEF LimiterAssumption

(* limiter.go keeps its counters, its map and its stopwatches in their ranges:
   in particular no path drives a counter below zero. *)
THEOREM LimiterTypeCorrect == Spec => []TypeOK
<1>1. Counted => TypeOK
  BY DEF Counted
<1> QED BY <1>1, CountedInit, CountedStep, PTL DEF Spec

(* total and perIP count exactly the slots that are out, on every path through
   handleConn, release and the penalty timer, and dead keys are dropped. *)
THEOREM CountersExact == Spec => []CountsExact
<1>1. Counted => CountsExact
  BY DEF Counted, CountsExact
<1> QED BY <1>1, CountedInit, CountedStep, PTL DEF Spec

(* The operator's caps bound the connections in flight, whatever they are. *)
THEOREM CapsNeverExceeded == Spec => []CapsHold
<1>1. Counted => CapsHold
  BY DEF Counted
<1> QED BY <1>1, CountedInit, CountedStep, PTL DEF Spec

(* No address fails more than maxPerIP handshakes within one penalty window. *)
THEOREM FailureRateBounded == Spec => []FailuresThrottled
<1>1. Init => Counted /\ Throttling
  BY CountedInit, ThrottlingInit
<1>2. (Counted /\ Throttling) /\ [Next]_vars => (Counted /\ Throttling)'
  BY CountedStep, ThrottlingStep
<1> QED BY <1>1, <1>2, ThrottlingSuffices, PTL DEF Spec

-----------------------------------------------------------------------------
(* Refinement: the limiter implements Slots. *)

SlotOf(c) == <<c, ip[c]>>
SlotsOut == {SlotOf(c) : c \in Holders}
Answered == {c \in Conn : phase[c] # "new"}

(* A slot for each holder, no more and no less. *)
LEMMA OneSlotEach ==
    ASSUME NEW S \in SUBSET Conn
    PROVE  Cardinality({SlotOf(c) : c \in S}) = Cardinality(S)
<1> DEFINE T == {SlotOf(c) : c \in S}
           f == [c \in S |-> SlotOf(c)]
<1>1. IsFiniteSet(S)
  BY FS_Subset, LimiterAssumption DEF LimiterAssumption
<1>2. f \in [S -> T]
  OBVIOUS
<1>3. \A a, b \in S : f[a] = f[b] => a = b
  BY DEF SlotOf
<1>4. \A t \in T : \E c \in S : f[c] = t
  OBVIOUS
<1>5. f \in Bijection(S, T)
  <2> HIDE DEF f, T
  <2> QED BY <1>2, <1>3, <1>4, Fun_IsBij
<1>6. ExistsBijection(S, T)
  BY <1>5, Fun_ExistsBij
<1> QED BY <1>1, <1>6, FS_Bijection

(* The code's comparison of two counters is the abstract question for room. *)
LEMMA RoomIsRoom ==
    ASSUME Counted, NEW i \in IP
    PROVE  LimiterSlots!Room(i) <=> ~AtLimit(i)
<1>1. Holders \in SUBSET Conn /\ HoldersOf(i) \in SUBSET Conn
  BY DEF Holders, HoldersOf
<1>2. {s \in SlotsOut : s[2] = i} = {SlotOf(c) : c \in HoldersOf(i)}
  BY DEF SlotsOut, SlotOf, HoldersOf
<1>3. Cardinality(SlotsOut) = total /\ Cardinality({s \in SlotsOut : s[2] = i}) = Count(i)
  BY <1>1, <1>2, OneSlotEach DEF SlotsOut, Counted, SlotsExact
<1>4. total \in Nat /\ Count(i) \in Nat
  BY HoldersFinite DEF Counted, SlotsExact
<1>5. LimiterSlots!Room(i) <=>
         /\ MaxTotal > 0 => Cardinality(SlotsOut) < MaxTotal
         /\ MaxPerIP > 0 => Cardinality({s \in SlotsOut : s[2] = i}) < MaxPerIP
  BY DEF LimiterSlots!Room, LimiterSlots!Cardinality, Cardinality, SlotsOut, SlotOf
<1> QED BY <1>3, <1>4, <1>5, LimiterAssumption DEF AtLimit, LimiterAssumption

LEMMA SlotsStep ==
    Counted /\ [Next]_vars => [LimiterSlots!Next]_<<SlotsOut, Answered>>
<1> SUFFICES ASSUME Counted, [Next]_vars PROVE [LimiterSlots!Next]_<<SlotsOut, Answered>>
  OBVIOUS
<1> USE DEF Goto
<1>t. phase \in [Conn -> Phases] /\ ip \in [Conn -> IP]
  BY DEF Counted, TypeOK
<1>i. \A c \in Conn : ip[c] \in IP
  BY <1>t
<1>1. ASSUME NEW c \in Conn, Acquire(c) PROVE LimiterSlots!Next
  <2>1. /\ phase[c] = "new" /\ phase' = [phase EXCEPT ![c] = "handshake"]
        /\ ip' = ip /\ ~AtLimit(ip[c])
    BY <1>1 DEF Acquire
  <2>2. Holders' = Holders \cup {c} /\ Answered' = Answered \cup {c} /\ c \notin Answered
    BY <1>t, <2>1 DEF Holders, Holding, Answered
  <2>3. SlotsOut' = SlotsOut \cup {SlotOf(c)}
    BY <2>1, <2>2 DEF SlotsOut, SlotOf
  <2>4. LimiterSlots!Room(ip[c])
    BY <1>t, <2>1, RoomIsRoom
  <2>5. PICK i \in IP : i = ip[c]
    BY <1>i
  <2>6. LimiterSlots!Give(c, i)
    BY <2>2, <2>3, <2>4, <2>5
       DEF LimiterSlots!Give, LimiterSlots!Answer, SlotsOut, SlotOf, Answered
  <2> QED BY <2>6 DEF LimiterSlots!Next
<1>2. ASSUME NEW c \in Conn, Refuse(c) PROVE LimiterSlots!Next
  <2>1. /\ phase[c] = "new" /\ phase' = [phase EXCEPT ![c] = "refused"]
        /\ ip' = ip /\ AtLimit(ip[c])
    BY <1>2 DEF Refuse
  <2>2. Holders' = Holders /\ Answered' = Answered \cup {c} /\ c \notin Answered
    BY <1>t, <2>1 DEF Holders, Holding, Answered
  <2>3. SlotsOut' = SlotsOut
    BY <2>1, <2>2 DEF SlotsOut, SlotOf
  <2>4. ~LimiterSlots!Room(ip[c])
    BY <1>t, <2>1, RoomIsRoom
  <2>5. PICK i \in IP : i = ip[c]
    BY <1>i
  <2>6. LimiterSlots!TurnAway(c, i)
    BY <2>2, <2>3, <2>4, <2>5
       DEF LimiterSlots!TurnAway, LimiterSlots!Answer, SlotsOut, SlotOf, Answered
  <2> QED BY <2>6 DEF LimiterSlots!Next
<1>3. ASSUME NEW c \in Conn, ReleaseNow(c) \/ TimerFires(c) PROVE LimiterSlots!Next
  <2>1. phase[c] \in Holding /\ phase' = [phase EXCEPT ![c] = "gone"] /\ ip' = ip
    BY <1>3 DEF ReleaseNow, TimerFires, Holding
  <2>2. Holders' = Holders \ {c} /\ c \in Holders /\ Answered' = Answered
    BY <1>t, <2>1 DEF Holders, Holding, Answered
  <2>3. SlotsOut' = SlotsOut \ {SlotOf(c)} /\ SlotOf(c) \in SlotsOut
    BY <2>1, <2>2 DEF SlotsOut, SlotOf
  <2>4. PICK i \in IP : i = ip[c]
    BY <1>i
  <2>5. LimiterSlots!TakeBack(c, i)
    BY <2>2, <2>3, <2>4 DEF LimiterSlots!TakeBack, SlotsOut, SlotOf, Answered
  <2> QED BY <2>5 DEF LimiterSlots!Next
<1>4. ASSUME NEW c \in Conn,
             HandshakeOK(c) \/ HandshakeFails(c) \/ SessionEnds(c) \/ ReleaseLater(c)
      PROVE  UNCHANGED <<SlotsOut, Answered>>
  <2>1. /\ phase[c] \in Holding /\ ip' = ip
        /\ \E p \in Holding : phase' = [phase EXCEPT ![c] = p]
    BY <1>4 DEF HandshakeOK, HandshakeFails, SessionEnds, ReleaseLater, Holding
  <2>2. Holders' = Holders /\ Answered' = Answered
    BY <1>t, <2>1 DEF Holders, Holding, Answered
  <2> QED BY <2>1, <2>2 DEF SlotsOut, SlotOf
<1>5. CASE Cancel \/ Tick \/ UNCHANGED vars
  <2>1. UNCHANGED <<phase, ip>>
    BY <1>5 DEF Cancel, Tick, vars
  <2> QED BY <2>1 DEF SlotsOut, SlotOf, Holders, Answered
<1> QED BY <1>1, <1>2, <1>3, <1>4, <1>5 DEF Next, Handler

(* The limiter implements Slots: a connection is turned away only when a cap is
   really reached, and admitted only when none is, on every path through acquire,
   the two releases and the penalty timer. *)
THEOREM LimiterImplementsSlots == Spec => ImplementsSlots
<1>1. Init => LimiterSlots!Init
  BY DEF Init, LimiterSlots!Init, Holders, Holding
<1>2. Counted /\ [Next]_vars
        => [LimiterSlots!Next]_<<{<<c, ip[c]>> : c \in Holders}, {c \in Conn : phase[c] # "new"}>>
  BY SlotsStep DEF SlotsOut, SlotOf, Answered
<1> QED BY <1>1, <1>2, CountedInit, CountedStep, PTL DEF Spec, ImplementsSlots, LimiterSlots!Spec
=============================================================================
