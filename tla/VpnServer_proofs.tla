-------------------------- MODULE VpnServer_proofs --------------------------
(***************************************************************************)
(* Theorems about VpnServer, for any number of connections and names and   *)
(* any subnet.                                                             *)
(***************************************************************************)
EXTENDS VpnServer, TLAPS

LEMMA CandidatesNat == Candidates \subseteq Nat /\ NoAddr \notin Candidates
BY ConstAssumption DEF Candidates, NoAddr, ConstAssumption

(* Every step keeps every variable in its set, and handlers named. *)
LEMMA TypeStep == TypeOK /\ Named /\ [Next]_vars => TypeOK' /\ Named'
<1> DEFINE Typed == TypeOK /\ Named
<1> SUFFICES ASSUME Typed, [Next]_vars PROVE Typed'
  OBVIOUS
<1> USE DEF TypeOK, Named, Goto, CloseConn, CloseSession, PC, handlerVars, sessionVars,
            registryVars, poolVars, serverVars
<1>1. ASSUME NEW c \in Conn, Accept(c) \/ LimiterRefuses(c) \/ PeerGone(c) PROVE Typed'
  <2>1. CASE Accept(c)          BY <2>1 DEF Accept
  <2>2. CASE LimiterRefuses(c)  BY <2>2 DEF LimiterRefuses
  <2>3. CASE PeerGone(c)        BY <2>3 DEF PeerGone
  <2> QED BY <1>1, <2>1, <2>2, <2>3
<1>2. ASSUME NEW c \in Conn, Identify(c) PROVE Typed'
  <2>1. CASE HandshakeFails(c)  BY <2>1 DEF HandshakeFails
  <2>2. ASSUME NEW n \in Name, HandshakeOK(c, n) PROVE Typed'
    BY <2>2 DEF HandshakeOK
  <2> QED BY <1>2, <2>1, <2>2 DEF Identify
<1>3. ASSUME NEW c \in Conn, Admit(c) PROVE Typed'
  <2>1. CASE Lookup(c)          BY <2>1 DEF Lookup
  <2>2. CASE Kick(c)            BY <2>2 DEF Kick
  <2>3. CASE Joined(c)          BY <2>3 DEF Joined
  <2>4. CASE JoinTimeout(c)     BY <2>4 DEF JoinTimeout
  <2>5. CASE Allocate(c)        BY <2>5 DEF Allocate
  <2>6. CASE AllocateFails(c)   BY <2>6 DEF AllocateFails
  <2>7. CASE Register(c)        BY <2>7 DEF Register
  <2>8. CASE AssignOK(c)        BY <2>8 DEF AssignOK
  <2>9. CASE AssignFails(c)     BY <2>9 DEF AssignFails
  <2> QED BY <1>3, <2>1, <2>2, <2>3, <2>4, <2>5, <2>6, <2>7, <2>8, <2>9 DEF Admit
<1>4. ASSUME NEW c \in Conn, Serve(c) PROVE Typed'
  <2>1. CASE ReadFails(c)       BY <2>1 DEF ReadFails
  <2>2. CASE TunWriteFails(c)   BY <2>2 DEF TunWriteFails
  <2>3. CASE RejectHello(c)     BY <2>3 DEF RejectHello
  <2>4. CASE RejectSeen(c)      BY <2>4 DEF RejectSeen
  <2> QED BY <1>4, <2>1, <2>2, <2>3, <2>4 DEF Serve
<1>5. ASSUME NEW c \in Conn, TearDown(c) PROVE Typed'
  <2>1. CASE EndSession(c)      BY <2>1 DEF EndSession
  <2>2. CASE Drained(c)         BY <2>2 DEF Drained
  <2>3. CASE Unregister(c)      BY <2>3 DEF Unregister
  <2>4. CASE Release(c)         BY <2>4 DEF Release
  <2>5. CASE Signal(c)          BY <2>5 DEF Signal
  <2> QED BY <1>5, <2>1, <2>2, <2>3, <2>4, <2>5 DEF TearDown
<1>6. ASSUME NEW c \in Conn, Writer(c) PROVE Typed'
  <2> USE DEF WriterUnchanged
  <2>1. CASE WriteStarts(c)     BY <2>1 DEF WriteStarts
  <2>2. CASE WriteOK(c)         BY <2>2 DEF WriteOK
  <2>3. CASE WriteFails(c)      BY <2>3 DEF WriteFails
  <2>4. CASE WriterRejects(c)   BY <2>4 DEF WriterRejects
  <2>5. CASE WriterCloses(c)    BY <2>5 DEF WriterCloses
  <2> QED BY <1>6, <2>1, <2>2, <2>3, <2>4, <2>5 DEF Writer
<1>7. CASE Cancel \/ AcceptFails \/ TunReaderExits \/ RunReturns \/ Terminated
  <2>1. CASE Cancel \/ AcceptFails
    BY <2>1 DEF ServerUnchanged, Cancel, AcceptFails
  <2>2. CASE TunReaderExits \/ RunReturns \/ Terminated
    BY <2>2 DEF ServerUnchanged, TunReaderExits, RunReturns, Terminated, vars
  <2> QED BY <1>7, <2>1, <2>2
<1>8. CASE Shutdown
  <2>1. CASE ShutdownBegins \/ ShutdownEnds
    BY <2>1 DEF ServerUnchanged, ShutdownBegins, ShutdownEnds
  <2>2. CASE ShutdownSnapshot
    BY <2>2 DEF ServerUnchanged, ShutdownSnapshot
  <2>3. ASSUME NEW c \in Conn, ShutdownCloses(c) PROVE Typed'
    BY <2>3 DEF ServerUnchanged, ShutdownCloses
  <2> QED BY <1>8, <2>1, <2>2, <2>3 DEF Shutdown
<1>9. CASE UNCHANGED vars
  BY <1>9 DEF vars
<1> QED
  BY <1>1, <1>2, <1>3, <1>4, <1>5, <1>6, <1>7, <1>8, <1>9 DEF Next

LEMMA TypedInit == Init => TypeOK /\ Named
<1> SUFFICES ASSUME Init PROVE TypeOK /\ Named
  OBVIOUS
<1>1. pc \in [Conn -> PC] /\ Named
  BY DEF Init, Named, PC
<1>2. byCN \in [Name -> Conn \cup {NoConn}] /\ byIPv4 \in [Candidates -> Conn \cup {NoConn}]
  BY DEF Init
<1>3. free \in SUBSET Candidates /\ byClient \in [Name -> Candidates \cup {NoAddr}]
  BY DEF Init
<1>4. sd \in {"idle", "closing", "sweeping", "done"} /\ targets \in SUBSET Conn
  BY DEF Init
<1> QED
  BY <1>1, <1>2, <1>3, <1>4 DEF Init, TypeOK

(* Every variable keeps to its type in every reachable state. *)
THEOREM TypeCorrect == Spec => []TypeOK
BY TypedInit, TypeStep, PTL DEF Spec

-----------------------------------------------------------------------------
(* The registry and the pool.  Only four steps touch them; every other step
   also leaves alone which handlers hold an address and which are registered,
   and what those handlers know of themselves. *)

Consistent == IndexesAgree /\ PoolExact /\ LeaseHasOneOwner

Untouched ==
    /\ UNCHANGED <<byCN, byIPv4, free, byClient, addr>>
    /\ \A c \in Conn : Holding(c)' = Holding(c) /\ Registered(c)' = Registered(c)
    /\ \A c \in Conn : Holding(c) \/ Registered(c) => cn'[c] = cn[c]
    /\ EndedConns' = EndedConns

LEMMA UntouchedStep ==
  ASSUME TypeOK, Consistent, Untouched
  PROVE  Consistent'
<1>1. IndexesAgree'
  <2>1. ASSUME NEW c \in Conn, Registered(c)' PROVE byCN'[cn'[c]] = c /\ byIPv4'[addr'[c]] = c
    BY <2>1 DEF Consistent, IndexesAgree, Untouched
  <2>2. ASSUME NEW n \in Name, byCN'[n] # NoConn PROVE Registered(byCN[n])' /\ cn'[byCN'[n]] = n
    BY <2>2 DEF TypeOK, Consistent, IndexesAgree, Untouched, Registered
  <2>3. ASSUME NEW a \in Candidates, byIPv4'[a] # NoConn
        PROVE  Registered(byIPv4[a])' /\ addr'[byIPv4'[a]] = a
    BY <2>3 DEF TypeOK, Consistent, IndexesAgree, Untouched, Registered
  <2> QED BY <2>1, <2>2, <2>3 DEF IndexesAgree
<1>2. PoolExact'
  BY DEF Consistent, PoolExact, Untouched
<1>3. LeaseHasOneOwner'
  BY DEF Consistent, LeaseHasOneOwner, Untouched
<1> QED BY <1>1, <1>2, <1>3 DEF Consistent

LEMMA AllocateStep ==
  ASSUME TypeOK, Named, Consistent, NEW c \in Conn, Allocate(c)
  PROVE  Consistent'
<1> USE DEF TypeOK, Named, Consistent, Holding, Registered
<1>1. PICK a \in free : /\ free' = free \ {a}
                        /\ byClient' = [byClient EXCEPT ![cn[c]] = a]
                        /\ addr' = [addr EXCEPT ![c] = a]
  BY DEF Allocate
<1>2. /\ pc[c] = "allocate" /\ pc' = [pc EXCEPT ![c] = "register"]
      /\ byClient[cn[c]] = NoAddr
      /\ UNCHANGED <<cn, byCN, byIPv4>>
      /\ cn[c] \in Name /\ a \in Candidates /\ a # NoAddr
  BY CandidatesNat DEF Allocate, Goto, registryVars
<1>3. IndexesAgree'
  BY <1>1, <1>2 DEF IndexesAgree
<1>4. PoolExact'
  <2>1. free = Candidates \ {byClient[n] : n \in Name} /\ \A n \in Name : byClient[n] # a
    BY <1>1 DEF PoolExact
  <2>2. /\ byClient'[cn[c]] = a
        /\ \A n \in Name : n # cn[c] => byClient'[n] = byClient[n]
    BY <1>1, <1>2
  <2>3. free' = Candidates \ {byClient'[n] : n \in Name}
    <3>1. ASSUME NEW x, x \in free' PROVE x \in Candidates /\ \A n \in Name : x # byClient'[n]
      BY <1>1, <1>2, <2>1, <2>2, <3>1
    <3>2. ASSUME NEW x \in Candidates, \A n \in Name : x # byClient'[n] PROVE x \in free'
      <4>1. x # a
        BY <1>2, <2>2, <3>2
      <4>2. \A n \in Name : x # byClient[n]
        BY <1>2, <2>2, <3>2, CandidatesNat
      <4> QED BY <1>1, <2>1, <4>1, <4>2
    <3> QED BY <3>1, <3>2
  <2>4. \A m, n \in Name : byClient'[m] = byClient'[n] /\ m # n => byClient'[m] = NoAddr
    BY <1>2, <2>1, <2>2 DEF PoolExact
  <2> QED BY <2>3, <2>4 DEF PoolExact
<1>5. LeaseHasOneOwner'
  BY <1>1, <1>2 DEF LeaseHasOneOwner
<1> QED BY <1>3, <1>4, <1>5

(* The name and the address that Add writes are in neither index. *)
LEMMA FreshAtRegister ==
  ASSUME TypeOK, Named, Consistent, NEW c \in Conn, pc[c] = "register"
  PROVE  byCN[cn[c]] = NoConn /\ byIPv4[addr[c]] = NoConn
<1> USE DEF TypeOK, Named, Consistent, Holding, Registered
<1>1. Holding(c) /\ ~Registered(c) /\ cn[c] \in Name /\ addr[c] \in Candidates
  BY DEF LeaseHasOneOwner
<1>2. byCN[cn[c]] = NoConn
  BY <1>1 DEF IndexesAgree, LeaseHasOneOwner
<1>3. ASSUME byIPv4[addr[c]] # NoConn PROVE FALSE
  <2> DEFINE d == byIPv4[addr[c]]
  <2>1. d \in Conn /\ Registered(d) /\ addr[d] = addr[c] /\ cn[d] \in Name
    BY <1>1, <1>3 DEF IndexesAgree
  <2>2. byClient[cn[d]] = byClient[cn[c]] /\ byClient[cn[d]] # NoAddr
    BY <1>1, <2>1 DEF LeaseHasOneOwner
  <2>3. cn[d] = cn[c]
    BY <1>1, <2>1, <2>2 DEF PoolExact
  <2> QED BY <1>1, <2>1, <2>3 DEF LeaseHasOneOwner
<1> QED BY <1>2, <1>3

LEMMA RegisterStep ==
  ASSUME TypeOK, Named, Consistent, NEW c \in Conn, Register(c)
  PROVE  Consistent'
<1> USE DEF TypeOK, Named, Consistent, Holding, Registered
<1>1. /\ pc[c] = "register" /\ pc' = [pc EXCEPT ![c] = "assign"]
      /\ byCN' = [byCN EXCEPT ![cn[c]] = c]
      /\ byIPv4' = [byIPv4 EXCEPT ![addr[c]] = c]
      /\ UNCHANGED <<cn, addr, free, byClient>>
      /\ cn[c] \in Name /\ addr[c] \in Candidates
  BY DEF Register, Goto, poolVars, LeaseHasOneOwner
<1>2. byCN[cn[c]] = NoConn /\ byIPv4[addr[c]] = NoConn
  BY <1>1, FreshAtRegister
<1>3. IndexesAgree'
  <2>1. ASSUME NEW d \in Conn, Registered(d)' PROVE byCN'[cn'[d]] = d /\ byIPv4'[addr'[d]] = d
    <3>1. CASE d = c
      BY <1>1, <3>1
    <3>2. CASE d # c
      <4>1. Registered(d) /\ byCN[cn[d]] = d /\ byIPv4[addr[d]] = d /\ d # NoConn
        BY <1>1, <2>1, <3>2, ConstAssumption DEF IndexesAgree, ConstAssumption
      <4>2. cn[d] # cn[c] /\ addr[d] # addr[c]
        BY <1>2, <4>1
      <4> QED BY <1>1, <4>1, <4>2
    <3> QED BY <3>1, <3>2
  <2>2. ASSUME NEW n \in Name, byCN'[n] # NoConn PROVE Registered(byCN[n])' /\ cn'[byCN'[n]] = n
    BY <1>1, <1>2, <2>2 DEF IndexesAgree
  <2>3. ASSUME NEW a \in Candidates, byIPv4'[a] # NoConn
        PROVE  Registered(byIPv4[a])' /\ addr'[byIPv4'[a]] = a
    BY <1>1, <1>2, <2>3 DEF IndexesAgree
  <2> QED BY <2>1, <2>2, <2>3 DEF IndexesAgree
<1>4. PoolExact'
  BY <1>1 DEF PoolExact
<1>5. LeaseHasOneOwner'
  BY <1>1 DEF LeaseHasOneOwner
<1> QED BY <1>3, <1>4, <1>5

LEMMA UnregisterStep ==
  ASSUME TypeOK, Named, Consistent, NEW c \in Conn, Unregister(c)
  PROVE  Consistent'
<1> USE DEF TypeOK, Named, Consistent, Holding, Registered
<1>1. /\ pc[c] = "unregister" /\ pc' = [pc EXCEPT ![c] = "release"]
      /\ UNCHANGED <<cn, addr, free, byClient>>
      /\ cn[c] \in Name /\ addr[c] \in Candidates
      /\ byCN[cn[c]] = c /\ byIPv4[addr[c]] = c
  BY DEF Unregister, Goto, poolVars, LeaseHasOneOwner, IndexesAgree
<1>2. /\ byCN' = [byCN EXCEPT ![cn[c]] = NoConn]
      /\ byIPv4' = [byIPv4 EXCEPT ![addr[c]] = NoConn]
  BY <1>1 DEF Unregister
<1>3. IndexesAgree'
  BY <1>1, <1>2 DEF IndexesAgree
<1>4. PoolExact'
  BY <1>1 DEF PoolExact
<1>5. LeaseHasOneOwner'
  BY <1>1 DEF LeaseHasOneOwner
<1> QED BY <1>3, <1>4, <1>5

LEMMA ReleaseStep ==
  ASSUME TypeOK, Named, Consistent, NEW c \in Conn, Release(c)
  PROVE  Consistent'
<1> USE DEF TypeOK, Named, Consistent, Holding, Registered
<1>1. /\ pc[c] = "release" /\ pc' = [pc EXCEPT ![c] = "signal"]
      /\ free' = free \cup ({byClient[cn[c]]} \ {NoAddr})
      /\ byClient' = [byClient EXCEPT ![cn[c]] = NoAddr]
      /\ UNCHANGED <<cn, addr, byCN, byIPv4>>
      /\ cn[c] \in Name
  BY DEF Release, Goto, registryVars
<1>3. IndexesAgree'
  BY <1>1 DEF IndexesAgree
<1>4. PoolExact'
  BY <1>1, CandidatesNat DEF PoolExact
<1>5. LeaseHasOneOwner'
  BY <1>1 DEF LeaseHasOneOwner
<1> QED BY <1>3, <1>4, <1>5

(* The steps that neither lease, register, unregister nor release. *)
Other(c) ==
    \/ Accept(c) \/ LimiterRefuses(c) \/ PeerGone(c) \/ Identify(c) \/ Serve(c) \/ Writer(c)
    \/ Lookup(c) \/ Kick(c) \/ Joined(c) \/ JoinTimeout(c) \/ AllocateFails(c)
    \/ AssignOK(c) \/ AssignFails(c) \/ EndSession(c) \/ Drained(c) \/ Signal(c)

LEMMA OtherStep ==
  ASSUME TypeOK, NEW c \in Conn, Other(c)
  PROVE  Untouched
<1> USE DEF TypeOK, Untouched, Holding, Registered, EndedConns, Goto, registryVars, poolVars
<1>1. CASE Accept(c)          BY <1>1 DEF Accept
<1>2. CASE LimiterRefuses(c)  BY <1>2 DEF LimiterRefuses
<1>3. CASE PeerGone(c)        BY <1>3 DEF PeerGone, handlerVars
<1>4. CASE HandshakeFails(c)  BY <1>4 DEF HandshakeFails
<1>5. ASSUME NEW n \in Name, HandshakeOK(c, n) PROVE Untouched
  BY <1>5 DEF HandshakeOK
<1>6. CASE Serve(c)
  BY <1>6 DEF Serve, ReadFails, TunWriteFails, RejectHello, RejectSeen
<1>7. CASE Writer(c)
  BY <1>7 DEF Writer, WriterUnchanged, handlerVars, WriteStarts, WriteOK, WriteFails,
              WriterRejects, WriterCloses
<1>8. CASE Lookup(c)          BY <1>8 DEF Lookup
<1>9. CASE Kick(c)            BY <1>9 DEF Kick
<1>10. CASE Joined(c)         BY <1>10 DEF Joined
<1>11. CASE JoinTimeout(c)    BY <1>11 DEF JoinTimeout
<1>12. CASE AllocateFails(c)  BY <1>12 DEF AllocateFails
<1>13. CASE AssignOK(c)       BY <1>13 DEF AssignOK
<1>14. CASE AssignFails(c)    BY <1>14 DEF AssignFails
<1>15. CASE EndSession(c)     BY <1>15 DEF EndSession
<1>16. CASE Drained(c)        BY <1>16 DEF Drained
<1>17. CASE Signal(c)         BY <1>17 DEF Signal
<1> QED
  BY <1>1, <1>2, <1>3, <1>4, <1>5, <1>6, <1>7, <1>8, <1>9, <1>10, <1>11, <1>12,
     <1>13, <1>14, <1>15, <1>16, <1>17 DEF Other, Identify

LEMMA ServerStep ==
  ASSUME \/ Cancel \/ AcceptFails \/ Shutdown \/ TunReaderExits \/ RunReturns
         \/ UNCHANGED vars
  PROVE  Untouched
<1> USE DEF Untouched, Holding, Registered, EndedConns, ServerUnchanged, handlerVars, registryVars, poolVars
<1>1. CASE Cancel          BY <1>1 DEF Cancel
<1>2. CASE AcceptFails     BY <1>2 DEF AcceptFails
<1>3. CASE Shutdown
  BY <1>3 DEF Shutdown, ShutdownBegins, ShutdownSnapshot, ShutdownCloses, ShutdownEnds
<1>4. CASE TunReaderExits  BY <1>4 DEF TunReaderExits
<1>5. CASE RunReturns      BY <1>5 DEF RunReturns
<1>6. CASE UNCHANGED vars  BY <1>6 DEF vars
<1> QED BY <1>1, <1>2, <1>3, <1>4, <1>5, <1>6

(* Every step is one of the above. *)
LEMMA StepKinds ==
  ASSUME TypeOK, [Next]_vars
  PROVE  \/ Untouched
         \/ \E c \in Conn : Allocate(c) \/ Register(c) \/ Unregister(c) \/ Release(c)
<1>1. ASSUME NEW c \in Conn,
             \/ Accept(c) \/ LimiterRefuses(c) \/ PeerGone(c)
             \/ Identify(c) \/ Admit(c) \/ Serve(c) \/ TearDown(c) \/ Writer(c)
      PROVE  Other(c) \/ Allocate(c) \/ Register(c) \/ Unregister(c) \/ Release(c)
  BY <1>1 DEF Admit, TearDown, Other
<1> QED
  BY <1>1, OtherStep, ServerStep DEF Next, Terminated

LEMMA ConsistentStep == TypeOK /\ Named /\ Consistent /\ [Next]_vars => Consistent'
<1> SUFFICES ASSUME TypeOK, Named, Consistent, [Next]_vars PROVE Consistent'
  OBVIOUS
<1> QED
  BY StepKinds, UntouchedStep, AllocateStep, RegisterStep, UnregisterStep, ReleaseStep

LEMMA ConsistentInit == Init => Consistent
<1> SUFFICES ASSUME Init PROVE Consistent
  OBVIOUS
<1>1. IndexesAgree
  BY DEF Init, IndexesAgree, Registered
<1>2. PoolExact
  BY CandidatesNat DEF Init, PoolExact
<1>3. LeaseHasOneOwner
  BY DEF Init, LeaseHasOneOwner, Holding
<1> QED BY <1>1, <1>2, <1>3 DEF Consistent

LEMMA AlwaysConsistent == Spec => [](TypeOK /\ Named /\ Consistent)
BY TypedInit, TypeStep, ConsistentInit, ConsistentStep, PTL DEF Spec

(* The registry's two indexes always agree, and the pool never leaks an address
   nor hands one out twice. *)
THEOREM TablesCorrect == Spec => []TablesExact
<1>1. Consistent => TablesExact
  BY DEF Consistent, TablesExact
<1>2. QED
  BY <1>1, AlwaysConsistent, PTL

(* At most one handler per name holds an address, and it is the pool's. *)
THEOREM LeaseExclusive == Spec => []LeaseHasOneOwner
<1>1. Consistent => LeaseHasOneOwner
  BY DEF Consistent
<1>2. QED
  BY <1>1, AlwaysConsistent, PTL

(* Registry.Add never overwrites an entry of either index. *)
THEOREM AddNeverOverwrites == Spec => AddIsFresh
<1>1. TypeOK /\ Named /\ Consistent =>
        [\A c \in Conn : pc[c] = "register" /\ pc'[c] = "assign" =>
            byCN[cn[c]] = NoConn /\ byIPv4[addr[c]] = NoConn]_vars
  BY FreshAtRegister
<1>2. QED
  BY <1>1, AlwaysConsistent, PTL DEF AddIsFresh

-----------------------------------------------------------------------------
(* Teardown. *)

LEMMA TeardownStep == TypeOK /\ TeardownOrdered /\ [Next]_vars => TeardownOrdered'
<1> SUFFICES ASSUME TypeOK, TeardownOrdered, [Next]_vars PROVE TeardownOrdered'
  OBVIOUS
<1> USE DEF TypeOK, TeardownOrdered, Registered, Goto, CloseConn, CloseSession, handlerVars,
            sessionVars
<1>1. ASSUME NEW c \in Conn, Accept(c) \/ LimiterRefuses(c) \/ PeerGone(c)
      PROVE  TeardownOrdered'
  <2>1. CASE Accept(c)          BY <2>1 DEF Accept
  <2>2. CASE LimiterRefuses(c)  BY <2>2 DEF LimiterRefuses
  <2>3. CASE PeerGone(c)        BY <2>3 DEF PeerGone
  <2> QED BY <1>1, <2>1, <2>2, <2>3
<1>2. ASSUME NEW c \in Conn, Identify(c) PROVE TeardownOrdered'
  <2>1. CASE HandshakeFails(c)  BY <2>1 DEF HandshakeFails
  <2>2. ASSUME NEW n \in Name, HandshakeOK(c, n) PROVE TeardownOrdered'
    BY <2>2 DEF HandshakeOK
  <2> QED BY <1>2, <2>1, <2>2 DEF Identify
<1>3. ASSUME NEW c \in Conn, Admit(c) PROVE TeardownOrdered'
  <2>1. CASE Lookup(c)          BY <2>1 DEF Lookup
  <2>2. CASE Kick(c)            BY <2>2 DEF Kick
  <2>3. CASE Joined(c)          BY <2>3 DEF Joined
  <2>4. CASE JoinTimeout(c)     BY <2>4 DEF JoinTimeout
  <2>5. CASE Allocate(c)        BY <2>5 DEF Allocate
  <2>6. CASE AllocateFails(c)   BY <2>6 DEF AllocateFails
  <2>7. CASE Register(c)        BY <2>7 DEF Register
  <2>8. CASE AssignOK(c)        BY <2>8 DEF AssignOK
  <2>9. CASE AssignFails(c)     BY <2>9 DEF AssignFails
  <2> QED BY <1>3, <2>1, <2>2, <2>3, <2>4, <2>5, <2>6, <2>7, <2>8, <2>9 DEF Admit
<1>4. ASSUME NEW c \in Conn, Serve(c) PROVE TeardownOrdered'
  <2>1. CASE ReadFails(c)       BY <2>1 DEF ReadFails
  <2>2. CASE TunWriteFails(c)   BY <2>2 DEF TunWriteFails
  <2>3. CASE RejectHello(c)     BY <2>3 DEF RejectHello
  <2>4. CASE RejectSeen(c)      BY <2>4 DEF RejectSeen
  <2> QED BY <1>4, <2>1, <2>2, <2>3, <2>4 DEF Serve
<1>5. ASSUME NEW c \in Conn, TearDown(c) PROVE TeardownOrdered'
  <2>1. CASE EndSession(c)      BY <2>1 DEF EndSession
  <2>2. CASE Drained(c)         BY <2>2 DEF Drained
  <2>3. CASE Unregister(c)      BY <2>3 DEF Unregister
  <2>4. CASE Release(c)         BY <2>4 DEF Release
  <2>5. CASE Signal(c)          BY <2>5 DEF Signal
  <2> QED BY <1>5, <2>1, <2>2, <2>3, <2>4, <2>5 DEF TearDown
<1>6. ASSUME NEW c \in Conn, Writer(c) PROVE TeardownOrdered'
  <2> USE DEF WriterUnchanged
  <2>1. CASE WriteStarts(c)     BY <2>1 DEF WriteStarts
  <2>2. CASE WriteOK(c)         BY <2>2 DEF WriteOK
  <2>3. CASE WriteFails(c)      BY <2>3 DEF WriteFails
  <2>4. CASE WriterRejects(c)   BY <2>4 DEF WriterRejects
  <2>5. CASE WriterCloses(c)    BY <2>5 DEF WriterCloses
  <2> QED BY <1>6, <2>1, <2>2, <2>3, <2>4, <2>5 DEF Writer
<1>7. CASE Cancel \/ AcceptFails \/ TunReaderExits \/ RunReturns \/ Terminated
  <2>1. CASE Cancel \/ AcceptFails
    BY <2>1 DEF ServerUnchanged, Cancel, AcceptFails
  <2>2. CASE TunReaderExits \/ RunReturns \/ Terminated
    BY <2>2 DEF ServerUnchanged, TunReaderExits, RunReturns, Terminated, vars
  <2> QED BY <1>7, <2>1, <2>2
<1>8. CASE Shutdown
  BY <1>8 DEF Shutdown, ServerUnchanged, ShutdownBegins, ShutdownSnapshot, ShutdownCloses,
              ShutdownEnds
<1>9. CASE UNCHANGED vars
  BY <1>9 DEF vars
<1> QED
  BY <1>1, <1>2, <1>3, <1>4, <1>5, <1>6, <1>7, <1>8, <1>9 DEF Next

LEMMA TeardownInit == Init => TeardownOrdered
BY DEF Init, TeardownOrdered, Registered

LEMMA AlwaysOrdered == Spec => [](TypeOK /\ Named /\ Consistent /\ TeardownOrdered)
BY TypedInit, TypeStep, ConsistentInit, ConsistentStep, TeardownInit, TeardownStep, PTL DEF Spec

(* No path out of handleConn leaves a socket, a live writer or an unsignalled
   session, and a closed Done() channel means that nothing of it is left. *)
THEOREM HandlersLeaveNothing == Spec => []HandlerLeavesNothing
<1>1. TypeOK /\ Consistent /\ TeardownOrdered => DoneMeansGone
  <2> SUFFICES ASSUME TypeOK, Consistent, TeardownOrdered, NEW c \in Conn, done[c]
               PROVE  /\ \A n \in Name : byCN[n] # c
                      /\ \A a \in Candidates : byIPv4[a] # c
                      /\ writer[c] \in {"none", "exited"}
                      /\ ~Holding(c)
                      /\ ~link[c]
    BY DEF DoneMeansGone
  <2>1. pc[c] = "exit" /\ writer[c] \in {"none", "exited"} /\ ~link[c]
    BY DEF TeardownOrdered
  <2>2. ~Holding(c) /\ ~Registered(c) /\ c # NoConn
    BY <2>1, ConstAssumption DEF Holding, Registered, ConstAssumption
  <2> QED
    BY <2>1, <2>2 DEF Consistent, IndexesAgree
<1>2. TeardownOrdered => ExitHoldsNothing
  BY DEF TeardownOrdered, ExitHoldsNothing
<1>3. TypeOK /\ Consistent /\ TeardownOrdered => HandlerLeavesNothing
  BY <1>1, <1>2 DEF HandlerLeavesNothing
<1>4. QED
  BY <1>3, AlwaysOrdered, PTL

-----------------------------------------------------------------------------
(* A reconnect waits only for a session on its way out: whoever it found in the
   registry had been admitted, and has been told to go. *)
DoomedOf(c) ==
    /\ closed[c] => ~link[c]
    /\ pc[c] \in {"kick", "join"} => prev[c] \in Conn /\ verdict[prev[c]] = "admitted"
    /\ pc[c] = "join" => closed[prev[c]]
    /\ pc[c] \in {"serve", "rejecting", "close", "drain"} => writer[c] # "none"
    /\ pc[c] = "drain" => closed[c]
Doomed == \A c \in Conn : DoomedOf(c)

LEMMA DoomedInit == Init => Doomed
BY DEF Init, Doomed, DoomedOf

LEMMA DoomedStep ==
    TypeOK /\ Named /\ Consistent /\ TeardownOrdered /\ Doomed /\ [Next]_vars => Doomed'
<1> SUFFICES ASSUME TypeOK, Named, Consistent, TeardownOrdered, Doomed, [Next]_vars
             PROVE  Doomed'
  OBVIOUS
<1>t. TypeOK /\ TeardownOrdered /\ Doomed
  OBVIOUS
<1> USE <1>t DEF TypeOK, Doomed, DoomedOf, Goto, CloseConn, CloseSession, handlerVars, sessionVars
<1>a. \A c \in Conn : verdict[c] = "admitted" =>
          pc[c] \in {"assign", "serve", "rejecting", "close", "drain", "unregister",
                     "release", "signal", "exit"}
  BY DEF TeardownOrdered, Registered
<1>1. ASSUME NEW c \in Conn, Accept(c) \/ LimiterRefuses(c) \/ PeerGone(c) PROVE Doomed'
  <2>1. CASE Accept(c)          BY <2>1 DEF Accept
  <2>2. CASE LimiterRefuses(c)  BY <2>2, <1>a DEF LimiterRefuses
  <2>3. CASE PeerGone(c)        BY <2>3 DEF PeerGone
  <2> QED BY <1>1, <2>1, <2>2, <2>3
<1>2. ASSUME NEW c \in Conn, Identify(c) PROVE Doomed'
  <2>1. CASE HandshakeFails(c)  BY <2>1, <1>a DEF HandshakeFails
  <2>2. ASSUME NEW n \in Name, HandshakeOK(c, n) PROVE Doomed'
    BY <2>2 DEF HandshakeOK
  <2> QED BY <1>2, <2>1, <2>2 DEF Identify
<1>3. ASSUME NEW c \in Conn, Admit(c) PROVE Doomed'
  <2>1. CASE Lookup(c)
    <3>1. /\ pc[c] = "lookup" /\ prev' = [prev EXCEPT ![c] = byCN[cn[c]]]
          /\ pc' = [pc EXCEPT ![c] = IF byCN[cn[c]] = NoConn THEN "allocate" ELSE "kick"]
          /\ UNCHANGED <<verdict, link, closed, writer>>
      BY <2>1 DEF Lookup
    <3>2. byCN[cn[c]] # NoConn => byCN[cn[c]] \in Conn /\ verdict[byCN[cn[c]]] = "admitted"
      BY <3>1 DEF Named, Consistent, IndexesAgree, TeardownOrdered
    <3> QED BY <3>1, <3>2
  <2>2. CASE Kick(c)            BY <2>2 DEF Kick
  <2>3. CASE Joined(c)          BY <2>3 DEF Joined
  <2>4. CASE JoinTimeout(c)     BY <2>4 DEF JoinTimeout
  <2>5. CASE Allocate(c)        BY <2>5 DEF Allocate
  <2>6. CASE AllocateFails(c)   BY <2>6, <1>a DEF AllocateFails
  <2>7. CASE Register(c)        BY <2>7 DEF Register
  <2>8. CASE AssignOK(c)        BY <2>8 DEF AssignOK
  <2>9. CASE AssignFails(c)     BY <2>9 DEF AssignFails
  <2> QED BY <1>3, <2>1, <2>2, <2>3, <2>4, <2>5, <2>6, <2>7, <2>8, <2>9 DEF Admit
<1>4. ASSUME NEW c \in Conn, Serve(c) PROVE Doomed'
  <2>1. CASE ReadFails(c)       BY <2>1 DEF ReadFails
  <2>2. CASE TunWriteFails(c)   BY <2>2 DEF TunWriteFails
  <2>3. CASE RejectHello(c)     BY <2>3 DEF RejectHello
  <2>4. CASE RejectSeen(c)      BY <2>4 DEF RejectSeen
  <2> QED BY <1>4, <2>1, <2>2, <2>3, <2>4 DEF Serve
<1>5. ASSUME NEW c \in Conn, TearDown(c) PROVE Doomed'
  <2>1. CASE EndSession(c)      BY <2>1 DEF EndSession
  <2>2. CASE Drained(c)         BY <2>2 DEF Drained
  <2>3. CASE Unregister(c)      BY <2>3 DEF Unregister
  <2>4. CASE Release(c)         BY <2>4 DEF Release
  <2>5. CASE Signal(c)          BY <2>5 DEF Signal
  <2> QED BY <1>5, <2>1, <2>2, <2>3, <2>4, <2>5 DEF TearDown
<1>6. ASSUME NEW c \in Conn, Writer(c) PROVE Doomed'
  <2> USE DEF WriterUnchanged
  <2>1. CASE WriteStarts(c)     BY <2>1 DEF WriteStarts
  <2>2. CASE WriteOK(c)         BY <2>2 DEF WriteOK
  <2>3. CASE WriteFails(c)      BY <2>3 DEF WriteFails
  <2>4. CASE WriterRejects(c)   BY <2>4 DEF WriterRejects
  <2>5. CASE WriterCloses(c)    BY <2>5 DEF WriterCloses
  <2> QED BY <1>6, <2>1, <2>2, <2>3, <2>4, <2>5 DEF Writer
<1>7. CASE Cancel \/ AcceptFails \/ TunReaderExits \/ RunReturns \/ Terminated \/ UNCHANGED vars
  <2>1. UNCHANGED <<pc, prev, verdict, link, closed, writer>>
    BY <1>7 DEF ServerUnchanged, Cancel, AcceptFails, TunReaderExits, RunReturns, Terminated, vars
  <2> QED BY <2>1
<1>8. CASE Shutdown
  <2>1. CASE ShutdownBegins \/ ShutdownSnapshot \/ ShutdownEnds
    BY <2>1 DEF ServerUnchanged, ShutdownBegins, ShutdownSnapshot, ShutdownEnds
  <2>2. ASSUME NEW c \in Conn, ShutdownCloses(c) PROVE Doomed'
    BY <2>2 DEF ServerUnchanged, ShutdownCloses
  <2> QED BY <1>8, <2>1, <2>2 DEF Shutdown
<1> QED BY <1>1, <1>2, <1>3, <1>4, <1>5, <1>6, <1>7, <1>8 DEF Next

LEMMA DoomedAlways == Spec => [](TypeOK /\ Named /\ Consistent /\ TeardownOrdered /\ Doomed)
BY DoomedInit, DoomedStep, AlwaysOrdered, PTL DEF Spec

(* A session that was told to go needs nobody else to do so. *)
LEMMA ToldToGo ==
    ASSUME TypeOK, TeardownOrdered, Doomed,
           NEW d \in Conn, closed[d], verdict[d] = "admitted"
    PROVE  done[d] \/ (LeavesAlone(d) /\ (Registered(d) \/ pc[d] \in {"release", "signal"}))
<1>1. ~link[d] /\ (pc[d] = "exit" => done[d])
  BY DEF Doomed, DoomedOf, TeardownOrdered
<1>2. pc[d] = "drain" => writer[d] \in {"ready", "writing", "exited"}
  BY DEF Doomed, DoomedOf, TypeOK
<1>3. pc[d] \in {"assign", "serve", "rejecting", "close", "drain", "unregister",
                 "release", "signal", "exit"}
  BY DEF TeardownOrdered, Registered
<1> QED BY <1>1, <1>2, <1>3 DEF LeavesAlone, Registered

(* A reconnect never waits for a session that cannot end by itself: the one it kicked
   is done, or its own goroutines can go on without peer, clock or other handler. *)
THEOREM KickedSessionIsLeaving == Spec => []KickedIsLeaving
<1>1. TypeOK /\ TeardownOrdered /\ Doomed => KickedIsLeaving
  <2> SUFFICES ASSUME TypeOK, TeardownOrdered, Doomed, NEW c \in Conn, pc[c] = "join"
               PROVE  prev[c] \in Conn /\ (done[prev[c]] \/ LeavesAlone(prev[c]))
    BY DEF KickedIsLeaving
  <2>1. prev[c] \in Conn /\ verdict[prev[c]] = "admitted" /\ closed[prev[c]]
    BY DEF Doomed, DoomedOf
  <2> QED BY <2>1, ToldToGo
<1> QED BY <1>1, DoomedAlways, PTL

-----------------------------------------------------------------------------
(* The sweep of shutdown.  From the snapshot on, a session in the registry is closed
   or still on shutdown's list, as long as no handler is about to add another. *)
OnTime == sd \in {"sweeping", "done"} => \A c \in Conn : pc[c] # "register"
Swept ==
    /\ sd \in {"sweeping", "done"} => \A c \in Conn : Registered(c) => closed[c] \/ c \in targets
    /\ sd = "done" => targets = {}

LEMMA SweptStep ==
    TypeOK /\ Named /\ Consistent /\ OnTime /\ Swept /\ [Next]_vars => Swept'
<1> SUFFICES ASSUME TypeOK, Named, Consistent, OnTime, Swept, [Next]_vars PROVE Swept'
  OBVIOUS
<1>1. ASSUME UNCHANGED <<sd, targets>>, \A c \in Conn : closed[c] => closed'[c],
             sd \in {"sweeping", "done"} => \A c \in Conn : Registered(c)' => Registered(c)
      PROVE  Swept'
  BY <1>1 DEF Swept
<1>2. ASSUME NEW c \in Conn,
             \/ Accept(c) \/ LimiterRefuses(c) \/ PeerGone(c)
             \/ Identify(c) \/ Admit(c) \/ Serve(c) \/ TearDown(c) \/ Writer(c)
      PROVE  Swept'
  <2>1. UNCHANGED <<sd, targets>> /\ \A d \in Conn : closed[d] => closed'[d]
    <3>1. CASE Kick(c) \/ EndSession(c) \/ WriteFails(c) \/ WriterRejects(c)
      BY <3>1 DEF Kick, EndSession, WriteFails, WriterRejects, WriterUnchanged, CloseSession,
                  serverVars, TypeOK
    <3>2. CASE ~(Kick(c) \/ EndSession(c) \/ WriteFails(c) \/ WriterRejects(c))
      <4>1. UNCHANGED <<sd, targets, closed>>
        BY <1>2, <3>2
           DEF Accept, LimiterRefuses, PeerGone, Identify, HandshakeFails, HandshakeOK, Admit,
               Lookup, Joined, JoinTimeout, Allocate, AllocateFails, Register, AssignOK,
               AssignFails, Serve, ReadFails, TunWriteFails, RejectHello, RejectSeen, TearDown,
               Drained, Unregister, Release, Signal, Writer, WriteStarts, WriteOK, WriterCloses,
               WriterUnchanged, sessionVars, serverVars
      <4> QED BY <4>1
    <3> QED BY <3>1, <3>2
  <2>2. CASE Register(c)
    <3>1. sd \notin {"sweeping", "done"}
      BY <2>2 DEF Register, Goto, OnTime
    <3> QED BY <2>1, <3>1 DEF Swept
  <2>3. CASE ~Register(c)
    <3>1. \A d \in Conn : Registered(d)' => Registered(d)
      <4>1. CASE Other(c)
        BY <4>1, OtherStep DEF Untouched
      <4>2. CASE Allocate(c) \/ Unregister(c) \/ Release(c)
        BY <4>2 DEF Allocate, Unregister, Release, Goto, Registered, TypeOK
      <4> QED BY <1>2, <2>3, <4>1, <4>2 DEF Other, Admit, TearDown
    <3> QED BY <1>1, <2>1, <3>1
  <2> QED BY <2>2, <2>3
<1>3. CASE Cancel \/ AcceptFails \/ TunReaderExits \/ RunReturns \/ Terminated \/ UNCHANGED vars
  <2>1. UNCHANGED <<sd, targets, closed, pc>>
    BY <1>3 DEF Cancel, AcceptFails, TunReaderExits, RunReturns, Terminated, ServerUnchanged,
                sessionVars, handlerVars, serverVars, vars
  <2> QED BY <1>1, <2>1 DEF Registered
<1>4. CASE ShutdownBegins
  BY <1>4 DEF ShutdownBegins, Swept
<1>5. CASE ShutdownSnapshot
  <2>1. sd' = "sweeping" /\ targets' = {byCN[n] : n \in Name} \ {NoConn} /\ pc' = pc
    BY <1>5 DEF ShutdownSnapshot, ServerUnchanged, handlerVars
  <2>2. ASSUME NEW c \in Conn, Registered(c) PROVE c \in {byCN[n] : n \in Name} \ {NoConn}
    <3>1. cn[c] \in Name /\ byCN[cn[c]] = c /\ c # NoConn
      BY <2>2, ConstAssumption DEF Named, Registered, Consistent, IndexesAgree, ConstAssumption
    <3> QED BY <3>1
  <2> QED BY <2>1, <2>2 DEF Swept, Registered
<1>6. ASSUME NEW c \in Conn, ShutdownCloses(c) PROVE Swept'
  <2>1. /\ sd = "sweeping" /\ sd' = sd /\ pc' = pc /\ targets' = targets \ {c}
        /\ closed' = [closed EXCEPT ![c] = TRUE]
    BY <1>6 DEF ShutdownCloses, CloseSession, ServerUnchanged, handlerVars
  <2> QED BY <2>1 DEF Swept, Registered, TypeOK
<1>7. CASE ShutdownEnds
  <2>1. sd = "sweeping" /\ sd' = "done" /\ targets = {} /\ UNCHANGED <<targets, closed, pc>>
    BY <1>7 DEF ShutdownEnds, ServerUnchanged, handlerVars, sessionVars
  <2> QED BY <2>1 DEF Swept, Registered
<1> QED BY <1>2, <1>3, <1>4, <1>5, <1>6, <1>7 DEF Next, Shutdown

(* Shutdown's sweep reaches every session: when it is over, each one still in the
   registry is closed and can end by itself, unless a handler was on its way in when
   the snapshot was taken or came later. *)
THEOREM ShutdownReachesAll == Spec => SweepReachesAll
<1>1. Init => Swept
  BY DEF Init, Swept
<1>2. TypeOK /\ TeardownOrdered /\ Doomed /\ Swept =>
        (sd = "done" => \A c \in Conn : Registered(c) => closed[c] /\ LeavesAlone(c))
  <2> SUFFICES ASSUME TypeOK, TeardownOrdered, Doomed, Swept, sd = "done",
                      NEW c \in Conn, Registered(c)
               PROVE  closed[c] /\ LeavesAlone(c)
    OBVIOUS
  <2>1. closed[c] /\ verdict[c] = "admitted" /\ ~done[c]
    BY DEF Swept, TeardownOrdered, Registered
  <2> QED BY <2>1, ToldToGo
<1>3. TypeOK /\ Named /\ Consistent /\ OnTime /\ Swept /\ [Next]_vars => Swept'
  BY SweptStep
<1>4. NoLateAdmission <=> []OnTime
  BY DEF NoLateAdmission, OnTime
<1> QED BY <1>1, <1>2, <1>3, <1>4, DoomedAlways, PTL DEF Spec, SweepReachesAll

-----------------------------------------------------------------------------
(* Refinement: the registry and the pool implement SessionTable. *)

RowOf(c) == [conn |-> c, name |-> cn[c], addr |-> addr[c]]

(* The rows are those of the registered handlers. *)
RegisteredRows == {RowOf(c) : c \in {d \in Conn : Registered(d)}}

LEMMA RowsAreRegistered == TypeOK /\ Named /\ Consistent => LiveRows = RegisteredRows
<1> SUFFICES ASSUME TypeOK, Named, Consistent PROVE LiveRows = RegisteredRows
  OBVIOUS
<1>1. ASSUME NEW n \in Name, byCN[n] # NoConn
      PROVE  \E c \in Conn : Registered(c) /\ RowOf(c) = [conn |-> byCN[n], name |-> n, addr |-> addr[byCN[n]]]
  BY <1>1 DEF TypeOK, Consistent, IndexesAgree, RowOf
<1>2. ASSUME NEW c \in Conn, Registered(c)
      PROVE  /\ cn[c] \in Name /\ byCN[cn[c]] # NoConn
             /\ RowOf(c) = [conn |-> byCN[cn[c]], name |-> cn[c], addr |-> addr[byCN[cn[c]]]]
  BY <1>2, ConstAssumption
     DEF TypeOK, Named, Registered, Consistent, IndexesAgree, RowOf, ConstAssumption
<1> QED
  BY <1>1, <1>2 DEF LiveRows, RegisteredRows

(* Registering adds the handler's row, with a fresh name and address. *)
LEMMA RegisterOpens ==
  ASSUME TypeOK, Named, Consistent, TeardownOrdered, NEW c \in Conn, Register(c)
  PROVE  Table!Open(RowOf(c)) /\ RowOf(c) \in Table!Row
<1>1. /\ pc[c] = "register" /\ pc' = [pc EXCEPT ![c] = "assign"]
      /\ byCN' = [byCN EXCEPT ![cn[c]] = c]
      /\ verdict' = [verdict EXCEPT ![c] = "admitted"]
      /\ UNCHANGED <<cn, addr>>
      /\ cn[c] \in Name /\ addr[c] \in Candidates
  BY DEF TypeOK, Named, Consistent, Register, Goto, LeaseHasOneOwner, Holding
<1>2. byCN[cn[c]] = NoConn /\ byIPv4[addr[c]] = NoConn
  BY <1>1, FreshAtRegister
<1>3. RowOf(c) \in Table!Row
  BY <1>1 DEF RowOf, Table!Row
<1>4. c \notin EndedConns
  BY <1>1 DEF EndedConns
<1>5. ASSUME NEW d \in Conn, Registered(d)
      PROVE  d # c /\ cn[d] # cn[c] /\ addr[d] # addr[c]
  <2>1. byCN[cn[d]] = d /\ byIPv4[addr[d]] = d /\ d # NoConn
    BY <1>5, ConstAssumption DEF Consistent, IndexesAgree, ConstAssumption
  <2> QED BY <1>1, <1>2, <1>5, <2>1 DEF Registered
<1>6. \A r \in LiveRows : r.conn # c /\ r.name # cn[c] /\ r.addr # addr[c]
  BY <1>5, RowsAreRegistered DEF RowOf, RegisteredRows
<1>7. LiveRows' = LiveRows \cup {RowOf(c)}
  <2>1. (TypeOK /\ Named /\ Consistent)'
    BY RegisterStep, TypeStep DEF Next, Admit
  <2>2. (LiveRows = RegisteredRows)'
    BY <2>1, RowsAreRegistered, PTL
  <2>3. \A d \in Conn : RowOf(d)' = RowOf(d) /\ (Registered(d)' <=> Registered(d) \/ d = c)
    BY <1>1 DEF RowOf, Registered, TypeOK
  <2> QED
    BY <2>2, <2>3, RowsAreRegistered DEF RegisteredRows
<1>8. EndedConns' = EndedConns
  BY <1>1 DEF EndedConns, TypeOK
<1> QED
  BY <1>3, <1>4, <1>6, <1>7, <1>8 DEF Table!Open, RowOf

(* Unregistering takes the handler's row out and ends its connection. *)
LEMMA UnregisterCloses ==
  ASSUME TypeOK, Named, Consistent, TeardownOrdered, NEW c \in Conn, Unregister(c)
  PROVE  Table!Close(RowOf(c)) /\ RowOf(c) \in Table!Row
<1>1. /\ pc[c] = "unregister" /\ pc' = [pc EXCEPT ![c] = "release"]
      /\ UNCHANGED <<cn, addr, verdict>>
      /\ cn[c] \in Name /\ addr[c] \in Candidates
      /\ Registered(c) /\ verdict[c] = "admitted"
  BY DEF TypeOK, Named, Consistent, TeardownOrdered, Unregister, Goto, LeaseHasOneOwner,
         Holding, Registered
<1>2. RowOf(c) \in Table!Row /\ RowOf(c) \in LiveRows
  BY <1>1, RowsAreRegistered DEF RowOf, RegisteredRows, Table!Row
<1>3. \A d \in Conn : Registered(d) /\ d # c => RowOf(d) # RowOf(c)
  BY DEF RowOf
<1>4. LiveRows' = LiveRows \ {RowOf(c)}
  <2>1. (TypeOK /\ Named /\ Consistent)'
    BY UnregisterStep, TypeStep DEF Next, TearDown
  <2>2. (LiveRows = RegisteredRows)'
    BY <2>1, RowsAreRegistered, PTL
  <2>3. \A d \in Conn : RowOf(d)' = RowOf(d) /\ (Registered(d)' <=> Registered(d) /\ d # c)
    BY <1>1 DEF RowOf, Registered, TypeOK
  <2> QED
    BY <1>3, <2>2, <2>3, RowsAreRegistered DEF RegisteredRows
<1>5. EndedConns' = EndedConns \cup {c}
  BY <1>1 DEF EndedConns, TypeOK
<1> QED
  BY <1>2, <1>4, <1>5 DEF Table!Close, RowOf

(* Every other step leaves the abstract table as it is. *)
LEMMA TableStutters ==
  ASSUME TypeOK, Named, Consistent, TeardownOrdered,
         Untouched \/ \E c \in Conn : Allocate(c) \/ Release(c)
  PROVE  UNCHANGED <<LiveRows, EndedConns>>
<1>1. CASE Untouched
  BY <1>1 DEF Untouched, LiveRows
<1>2. ASSUME NEW c \in Conn, Allocate(c) PROVE UNCHANGED <<LiveRows, EndedConns>>
  <2>1. \A n \in Name : byCN[n] # NoConn => byCN[n] # c
    BY <1>2 DEF Consistent, IndexesAgree, Registered, Allocate, Goto
  <2>2. byCN' = byCN /\ \A n \in Name : byCN[n] # NoConn => addr'[byCN[n]] = addr[byCN[n]]
    BY <1>2, <2>1 DEF TypeOK, Allocate, registryVars
  <2> QED
    BY <1>2, <2>2 DEF LiveRows, EndedConns, Allocate, Goto, TypeOK
<1>3. ASSUME NEW c \in Conn, Release(c) PROVE UNCHANGED <<LiveRows, EndedConns>>
  BY <1>3 DEF LiveRows, EndedConns, Release, Goto, TypeOK, registryVars
<1> QED BY <1>1, <1>2, <1>3

(* The registry and the pool together implement the table of sessions: every
   step of the server is a step of SessionTable or leaves the table alone. *)
THEOREM RegistryImplementsTable == Spec => ImplementsSessionTable
<1>1. Init => Table!Init
  BY DEF Init, Table!Init, LiveRows, EndedConns
<1>2. TypeOK /\ Named /\ Consistent /\ TeardownOrdered /\ [Next]_vars
        => [Table!Next]_<<LiveRows, EndedConns>>
  <2> SUFFICES ASSUME TypeOK, Named, Consistent, TeardownOrdered, [Next]_vars
               PROVE  [Table!Next]_<<LiveRows, EndedConns>>
    OBVIOUS
  <2>1. ASSUME NEW c \in Conn, Register(c) PROVE Table!Next
    BY <2>1, RegisterOpens DEF Table!Next
  <2>2. ASSUME NEW c \in Conn, Unregister(c) PROVE Table!Next
    BY <2>2, UnregisterCloses DEF Table!Next
  <2> QED
    BY <2>1, <2>2, TableStutters, StepKinds
<1>3. QED
  BY <1>1, <1>2, AlwaysOrdered, PTL DEF Spec, ImplementsSessionTable, Table!Spec
=============================================================================
