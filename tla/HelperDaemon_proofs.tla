------------------------ MODULE HelperDaemon_proofs ------------------------
(***************************************************************************)
(* Theorems about HelperDaemon, for every number of control connections    *)
(* and sessions.  The inductive invariant has three parts: the             *)
(* controller's fields describe the one session there is (Owner), a        *)
(* Disconnect keeps the session it found until that is over (Kept), and    *)
(* runDaemon disconnects when no handler is left to connect again          *)
(* (Leaving).  The types rest on Counting, the accept loop's own bound.    *)
(* The second part is about ProfileDraft, the helper's desktop client.     *)
(***************************************************************************)
EXTENDS HelperDaemon, ProfileDraft, TLAPS

Alive == {"running", "returned", "closed"}

Owner ==
    /\ active <=> cur # NoSession
    /\ cur # NoSession => sess[cur] \in Alive
    /\ OneSession
    /\ state \in Live <=> active

Kept ==
    \A p \in Caller :
        /\ pc[p] \in {"idle", "read", "connect", "disconnect"} => target[p] = NoSession
        /\ pc[p] \in {"cancel", "wait"} => target[p] \in Session
        /\ pc[p] \in {"reply", "gone"} /\ target[p] # NoSession => Finished(target[p])

Leaving ==
    /\ pc["main"] \in {"idle", "disconnect", "cancel", "wait", "reply", "gone"}
    /\ pc["main"] # "idle" => srv = "returned"
    /\ srv = "returned" => HandlersDone
    /\ pc["main"] \in {"cancel", "wait"} => cur \in {target["main"], NoSession}
    /\ pc["main"] \in {"reply", "gone"} => cur = NoSession

-----------------------------------------------------------------------------
(* The steps fall into three groups: those of the accept loop and of the
   surroundings, those of one caller, and those of one session. *)
LoopStep == ServeStep \/ AcceptError \/ CloseListener \/ Stop
CallerStep(p) ==
    \/ DisconnectStep(p)
    \/ p \in Handler /\ (Accept(p) \/ Dispatch(p) \/ ReadEnds(p) \/ Rejected(p) \/ Reply(p))
    \/ p = "main" /\ MainStep
SessionStep(s) ==
    \/ Closing(s)
    \/ \E st \in Live : onEngineState(s, st)
    \/ \E e \in BOOLEAN : EngineReturns(s, e)

LEMMA StepKinds ==
    Next => \/ LoopStep
            \/ \E p \in Caller : CallerStep(p)
            \/ \E h \in Handler, s \in Session : Connect(h, s)
            \/ \E s \in Session : SessionStep(s)
BY DEF Next, LoopStep, CallerStep, SessionStep, HandlerStep, Caller

LEMMA LoopFrame ==
    LoopStep => UNCHANGED <<pc, target, sess, cancelled, failed, cur, active, state, lastErr>>
BY DEF LoopStep, ServeStep, BackoffOver, ServeReturns, AcceptError, CloseListener, Stop,
       sessions, ctrl, serve

LEMMA CallerFrame ==
    ASSUME NEW p \in Caller, CallerStep(p)
    PROVE  UNCHANGED <<srv, listener, ctx, sess, failed, cur, active, state, lastErr>>
BY DEF CallerStep, DisconnectStep, Snapshot, CancelTarget, AwaitDone, Accept, Dispatch,
       ReadEnds, Rejected, Reply, MainStep, ShutDown, ExitDaemon, sessions, ctrl, serve

LEMMA SessionFrame ==
    ASSUME NEW s \in Session, SessionStep(s)
    PROVE  UNCHANGED <<srv, listener, fails, ctx, pc, target, cancelled>>
BY DEF SessionStep, Closing, CloseDevice, Finish, onEngineState, EngineReturns,
       sessions, ctrl, serve

-----------------------------------------------------------------------------
(* The loop goes on only below the limit of accept failures. *)
Counting == srv \in {"accept", "backoff"} => fails < maxAcceptFailures

LEMMA TypeInit == Init => TypeOK /\ Counting
<1> SUFFICES ASSUME Init PROVE TypeOK /\ Counting
  OBVIOUS
<1>1. fails = 0 /\ 0 \in 0..maxAcceptFailures /\ 0 < maxAcceptFailures
  BY DaemonAssumption DEF Init, DaemonAssumption
<1>2. /\ cancelled \in [Session -> BOOLEAN] /\ failed \in [Session -> BOOLEAN]
      /\ listener \in BOOLEAN /\ ctx \in BOOLEAN /\ active \in BOOLEAN /\ lastErr \in BOOLEAN
  BY Zenon DEF Init
<1>3. /\ pc \in [Caller -> {"idle", "read", "connect", "disconnect", "cancel", "wait",
                            "reply", "gone"}]
      /\ target \in [Caller -> Session \cup {NoSession}]
      /\ sess \in [Session -> {"unused", "running", "returned", "closed", "over"}]
      /\ cur \in Session \cup {NoSession}
      /\ state \in Live \cup {"disconnected", "failed"}
      /\ srv \in {"accept", "backoff", "drain", "returned"}
  BY DEF Init
<1> QED BY <1>1, <1>2, <1>3 DEF TypeOK, Counting

LEMMA CountingStep == TypeOK /\ Counting /\ [Next]_vars => Counting'
<1> SUFFICES ASSUME TypeOK, Counting, [Next]_vars PROVE Counting'
  OBVIOUS
<1>t. /\ fails \in 0..maxAcceptFailures /\ maxAcceptFailures \in Nat \ {0}
      /\ srv \in {"accept", "backoff", "drain", "returned"}
  BY DaemonAssumption DEF TypeOK, DaemonAssumption
<1>1. CASE LoopStep
  <2>1. CASE AcceptError
    <3>1. CASE ctx
      BY <2>1, <3>1 DEF AcceptError, Counting
    <3>2. CASE ~ctx
      <4>1. fails' = fails + 1
            /\ srv' = IF fails' >= maxAcceptFailures THEN "drain" ELSE "backoff"
        BY <2>1, <3>2 DEF AcceptError
      <4> QED BY <4>1, <1>t DEF Counting
    <3> QED BY <3>1, <3>2
  <2>2. CASE BackoffOver \/ ServeReturns \/ CloseListener \/ Stop
    <3>1. fails' = fails /\ (srv' \in {"accept", "backoff"} => srv \in {"accept", "backoff"})
      BY <2>2 DEF BackoffOver, ServeReturns, CloseListener, Stop, serve
    <3> QED BY <3>1 DEF Counting
  <2> QED BY <1>1, <2>1, <2>2 DEF LoopStep, ServeStep
<1>2. ASSUME NEW p \in Caller, CallerStep(p) PROVE Counting'
  <2>1. srv' = srv /\ (fails' = fails \/ fails' = 0)
    BY <1>2 DEF CallerStep, DisconnectStep, Snapshot, CancelTarget, AwaitDone, Accept, Dispatch,
       ReadEnds, Rejected, Reply, MainStep, ShutDown, ExitDaemon, serve
  <2> QED BY <2>1, <1>t DEF Counting
<1>3. ASSUME NEW h \in Handler, NEW s \in Session, Connect(h, s) PROVE Counting'
  BY <1>3 DEF Connect, serve, Counting
<1>4. ASSUME NEW s \in Session, SessionStep(s) PROVE Counting'
  BY <1>4, SessionFrame DEF Counting
<1>5. CASE UNCHANGED vars
  BY <1>5 DEF vars, Counting
<1> QED BY <1>1, <1>2, <1>3, <1>4, <1>5, StepKinds

LEMMA TypeStep == TypeOK /\ Counting /\ [Next]_vars => TypeOK'
<1> SUFFICES ASSUME TypeOK, Counting, [Next]_vars PROVE TypeOK'
  OBVIOUS
<1> USE DEF TypeOK
<1>1. CASE LoopStep
  <2>1. UNCHANGED <<pc, target, sess, cancelled, failed, cur, active, state, lastErr>>
    BY <1>1, LoopFrame
  <2>2. /\ srv' \in {"accept", "backoff", "drain", "returned"}
        /\ fails' \in 0..maxAcceptFailures
    <3>1. CASE AcceptError
      <4>1. fails < maxAcceptFailures /\ maxAcceptFailures \in Nat
        BY <3>1, DaemonAssumption DEF AcceptError, Counting, DaemonAssumption
      <4>2. fails' = fails \/ fails' = fails + 1
        BY <3>1 DEF AcceptError
      <4>3. srv' \in {"drain", "backoff"}
        BY <3>1 DEF AcceptError
      <4> QED BY <4>1, <4>2, <4>3
    <3>2. CASE BackoffOver \/ ServeReturns \/ CloseListener \/ Stop
      BY <3>2 DEF BackoffOver, ServeReturns, CloseListener, Stop, serve
    <3> QED BY <1>1, <3>1, <3>2 DEF LoopStep, ServeStep
  <2>3. listener' \in BOOLEAN /\ ctx' \in BOOLEAN
    BY <1>1, Zenon DEF LoopStep, ServeStep, BackoffOver, ServeReturns, AcceptError, CloseListener,
                Stop, serve
  <2> QED BY <2>1, <2>2, <2>3
<1>2. ASSUME NEW p \in Caller, CallerStep(p) PROVE TypeOK'
  <2>1. UNCHANGED <<srv, listener, ctx, sess, failed, cur, active, state, lastErr>>
    BY <1>2, CallerFrame
  <2>2. /\ pc' \in [Caller -> {"idle", "read", "connect", "disconnect", "cancel", "wait",
                               "reply", "gone"}]
        /\ target' \in [Caller -> Session \cup {NoSession}]
        /\ fails' \in 0..maxAcceptFailures
    BY <1>2, DaemonAssumption
       DEF CallerStep, DisconnectStep, Snapshot, CancelTarget, AwaitDone, Accept, Dispatch,
           ReadEnds, Rejected, Reply, MainStep, ShutDown, ExitDaemon, serve, Goto,
           DaemonAssumption
  <2>3. \/ cancelled' = cancelled
        \/ cancelled' = [cancelled EXCEPT ![target[p]] = TRUE]
    BY <1>2 DEF CallerStep, DisconnectStep, Snapshot, CancelTarget, AwaitDone, Accept, Dispatch,
       ReadEnds, Rejected, Reply, MainStep, ShutDown, ExitDaemon, sessions
  <2>4. cancelled' \in [Session -> BOOLEAN]
    BY <2>3
  <2> QED BY <2>1, <2>2, <2>4
<1>3. ASSUME NEW h \in Handler, NEW s \in Session, Connect(h, s) PROVE TypeOK'
  BY <1>3 DEF Connect, Goto, serve, Live
<1>4. ASSUME NEW s \in Session, SessionStep(s) PROVE TypeOK'
  <2>1. UNCHANGED <<srv, listener, fails, ctx, pc, target, cancelled>>
    BY <1>4, SessionFrame
  <2>2. CASE Closing(s)
    BY <2>2, <2>1 DEF Closing, CloseDevice, Finish, ctrl
  <2>3. ASSUME NEW st \in Live, onEngineState(s, st) PROVE TypeOK'
    <3>1. UNCHANGED <<sess, failed, cur, active, lastErr>> /\ state' = st
      BY <2>3 DEF onEngineState, sessions
    <3> QED BY <2>1, <3>1
  <2>4. ASSUME NEW e \in BOOLEAN, EngineReturns(s, e) PROVE TypeOK'
    <3>1. UNCHANGED <<cur, active, state, lastErr>>
      BY <2>4 DEF EngineReturns, ctrl
    <3>2. /\ sess' \in [Session -> {"unused", "running", "returned", "closed", "over"}]
          /\ failed' \in [Session -> BOOLEAN]
      BY <2>4 DEF EngineReturns
    <3> QED BY <2>1, <3>1, <3>2
  <2> QED BY <1>4, <2>2, <2>3, <2>4 DEF SessionStep
<1>5. CASE UNCHANGED vars
  BY <1>5 DEF vars
<1> QED BY <1>1, <1>2, <1>3, <1>4, <1>5, StepKinds

(* Every field of the controller and every program counter keeps to its range;
   the count of accept failures never passes its limit. *)
THEOREM DaemonTypeCorrect == Spec => []TypeOK
BY TypeInit, TypeStep, CountingStep, PTL DEF Spec

-----------------------------------------------------------------------------
LEMMA OwnerInit == Init => Owner
BY DEF Init, Owner, OneSession, Live

LEMMA OwnerStep == TypeOK /\ Owner /\ [Next]_vars => Owner'
<1> SUFFICES ASSUME TypeOK, Owner, [Next]_vars PROVE Owner'
  OBVIOUS
<1> USE DEF Owner, OneSession, Alive, Live
<1>1. CASE LoopStep
  BY <1>1, LoopFrame
<1>2. ASSUME NEW p \in Caller, CallerStep(p) PROVE Owner'
  BY <1>2, CallerFrame
<1>3. ASSUME NEW h \in Handler, NEW s \in Session, Connect(h, s) PROVE Owner'
  <2>1. /\ sess' = [sess EXCEPT ![s] = "running"] /\ cur' = s /\ active' = TRUE
        /\ state' = "connecting" /\ ~active
    BY <1>3 DEF Connect
  <2>2. s # NoSession /\ sess \in [Session -> {"unused", "running", "returned", "closed", "over"}]
    BY DaemonAssumption DEF DaemonAssumption, TypeOK
  <2> QED BY <2>1, <2>2
<1>4. ASSUME NEW s \in Session, SessionStep(s) PROVE Owner'
  <2>t. /\ sess \in [Session -> {"unused", "running", "returned", "closed", "over"}]
        /\ s # NoSession /\ cur \in Session \cup {NoSession}
    BY DaemonAssumption DEF DaemonAssumption, TypeOK
  <2>1. CASE CloseDevice(s) \/ \E e \in BOOLEAN : EngineReturns(s, e)
    <3>1. /\ UNCHANGED <<cur, active, state>> /\ sess[s] \in Alive
          /\ \E a \in Alive : sess' = [sess EXCEPT ![s] = a]
      BY <2>1 DEF CloseDevice, EngineReturns, ctrl
    <3> QED BY <3>1, <2>t
  <2>2. CASE Finish(s)
    <3>1. /\ sess[s] \in Alive /\ sess' = [sess EXCEPT ![s] = "over"]
          /\ active' = FALSE /\ cur' = NoSession /\ state' \in {"failed", "disconnected"}
      BY <2>2 DEF Finish
    <3> QED BY <3>1, <2>t
  <2>3. CASE \E st \in Live : onEngineState(s, st)
    <3>1. UNCHANGED <<sess, cur, active>> /\ active /\ state' \in Live
      BY <2>3 DEF onEngineState, sessions
    <3> QED BY <3>1
  <2> QED BY <1>4, <2>1, <2>2, <2>3 DEF SessionStep, Closing
<1>5. CASE UNCHANGED vars
  BY <1>5 DEF vars
<1> QED BY <1>1, <1>2, <1>3, <1>4, <1>5, StepKinds

LEMMA OwnerMeans == TypeOK /\ Owner => OneSession /\ StateFollowsSession
<1> SUFFICES ASSUME TypeOK, Owner PROVE StateFollowsSession
  BY DEF Owner
<1>1. ASSUME state \in Live PROVE \E s \in Session : sess[s] \in {"running", "returned", "closed"}
  BY <1>1 DEF Owner, Alive, TypeOK
<1>2. ASSUME NEW s \in Session, sess[s] \in {"running", "returned", "closed"} PROVE state \in Live
  BY <1>2 DEF Owner, OneSession
<1> QED BY <1>1, <1>2 DEF StateFollowsSession

LEMMA OwnerAlways == Spec => []Owner
BY OwnerInit, OwnerStep, DaemonTypeCorrect, PTL DEF Spec

(* A session that may hold the device is the controller's current one, so there
   are never two, and the state Status reports is a live one exactly while there
   is one. *)
THEOREM DaemonControllerAgrees == Spec => []ControllerAgrees
<1>1. TypeOK /\ Owner => ControllerAgrees
  BY OwnerMeans DEF ControllerAgrees
<1> QED BY <1>1, OwnerAlways, DaemonTypeCorrect, PTL

-----------------------------------------------------------------------------
LEMMA KeptInit == Init => Kept
BY DEF Init, Kept

LEMMA KeptStep == TypeOK /\ Kept /\ [Next]_vars => Kept'
<1> SUFFICES ASSUME TypeOK, Kept, [Next]_vars, NEW q \in Caller
             PROVE  /\ pc'[q] \in {"idle", "read", "connect", "disconnect"}
                          => target'[q] = NoSession
                    /\ pc'[q] \in {"cancel", "wait"} => target'[q] \in Session
                    /\ pc'[q] \in {"reply", "gone"} /\ target'[q] # NoSession
                          => sess'[target'[q]] = "over"
  BY DEF Kept, Finished
<1> USE DEF Kept, Finished
<1>t. /\ pc \in [Caller -> {"idle", "read", "connect", "disconnect", "cancel", "wait",
                            "reply", "gone"}]
      /\ target \in [Caller -> Session \cup {NoSession}]
      /\ sess \in [Session -> {"unused", "running", "returned", "closed", "over"}]
      /\ cur \in Session \cup {NoSession}
  BY DEF TypeOK
<1>1. CASE LoopStep
  <2>1. UNCHANGED <<pc, target, sess>>
    BY <1>1, LoopFrame
  <2> QED BY <2>1
<1>2. ASSUME NEW p \in Caller, CallerStep(p)
      PROVE  /\ pc'[q] \in {"idle", "read", "connect", "disconnect"} => target'[q] = NoSession
             /\ pc'[q] \in {"cancel", "wait"} => target'[q] \in Session
             /\ pc'[q] \in {"reply", "gone"} /\ target'[q] # NoSession
                   => sess'[target'[q]] = "over"
  <2>0. sess' = sess
    BY <1>2, CallerFrame
  <2>1. CASE Snapshot(p)
    BY <2>0, <2>1, <1>t DEF Snapshot
  <2>2. CASE CancelTarget(p)
    BY <2>0, <2>2, <1>t DEF CancelTarget, Goto
  <2>3. CASE AwaitDone(p)
    BY <2>0, <2>3, <1>t DEF AwaitDone, Goto
  <2>4. ASSUME p \in Handler, Accept(p) \/ Dispatch(p) \/ ReadEnds(p) \/ Rejected(p) \/ Reply(p)
        PROVE  /\ target' = target
               /\ \E to \in {"read", "connect", "disconnect", "reply", "gone"} :
                     pc' = [pc EXCEPT ![p] = to]
               /\ pc[p] \in {"idle", "read", "connect", "reply"}
               /\ pc[p] = "reply" => pc'[p] = "gone"
    BY <2>4, <1>t DEF Accept, Dispatch, ReadEnds, Rejected, Reply, Goto
  <2>5. ASSUME p = "main", MainStep
        PROVE  /\ target' = target
               /\ \/ pc[p] = "idle" /\ pc' = [pc EXCEPT ![p] = "disconnect"]
                  \/ pc[p] = "reply" /\ pc' = [pc EXCEPT ![p] = "gone"]
    BY <2>5 DEF MainStep, ShutDown, ExitDaemon, Goto
  <2> QED BY <2>0, <1>2, <2>1, <2>2, <2>3, <2>4, <2>5, <1>t DEF CallerStep, DisconnectStep
<1>3. ASSUME NEW h \in Handler, NEW s \in Session, Connect(h, s)
      PROVE  /\ pc'[q] \in {"idle", "read", "connect", "disconnect"} => target'[q] = NoSession
             /\ pc'[q] \in {"cancel", "wait"} => target'[q] \in Session
             /\ pc'[q] \in {"reply", "gone"} /\ target'[q] # NoSession
                   => sess'[target'[q]] = "over"
  <2>1. /\ pc[h] = "connect" /\ pc' = [pc EXCEPT ![h] = "reply"] /\ target' = target
        /\ sess[s] = "unused" /\ sess' = [sess EXCEPT ![s] = "running"] /\ h \in Caller
    BY <1>3 DEF Connect, Goto, Caller
  <2> QED BY <2>1, <1>t
<1>4. ASSUME NEW s \in Session, SessionStep(s)
      PROVE  /\ pc'[q] \in {"idle", "read", "connect", "disconnect"} => target'[q] = NoSession
             /\ pc'[q] \in {"cancel", "wait"} => target'[q] \in Session
             /\ pc'[q] \in {"reply", "gone"} /\ target'[q] # NoSession
                   => sess'[target'[q]] = "over"
  <2>1. UNCHANGED <<pc, target>>
    BY <1>4, SessionFrame
  <2>2. \/ sess' = sess
        \/ /\ sess[s] # "over"
           /\ \E to \in {"returned", "closed", "over"} : sess' = [sess EXCEPT ![s] = to]
    BY <1>4 DEF SessionStep, Closing, CloseDevice, Finish, onEngineState, EngineReturns, sessions
  <2> QED BY <2>1, <2>2, <1>t
<1>5. CASE UNCHANGED vars
  BY <1>5 DEF vars
<1> QED BY <1>1, <1>2, <1>3, <1>4, <1>5, StepKinds

LEMMA KeptAlways == Spec => []Kept
BY KeptInit, KeptStep, DaemonTypeCorrect, PTL DEF Spec

(* A Disconnect that found a session answers only once that session's device is
   closed and the controller has let it go. *)
THEOREM DaemonDisconnectMeansDown == Spec => []DisconnectMeansDown
<1>1. Kept => DisconnectMeansDown
  BY DEF Kept, DisconnectMeansDown
<1> QED BY <1>1, KeptAlways, PTL

-----------------------------------------------------------------------------
LEMMA LeavingInit == Init => Leaving
BY DEF Init, Leaving, Caller

LEMMA LeavingStep == TypeOK /\ Owner /\ Kept /\ Leaving /\ [Next]_vars => Leaving'
<1> SUFFICES ASSUME TypeOK, Owner, Kept, Leaving, [Next]_vars PROVE Leaving'
  OBVIOUS
<1> USE DEF Leaving, HandlersDone
<1>t. /\ pc \in [Caller -> {"idle", "read", "connect", "disconnect", "cancel", "wait",
                            "reply", "gone"}]
      /\ target \in [Caller -> Session \cup {NoSession}]
      /\ cur \in Session \cup {NoSession}
      /\ "main" \in Caller /\ "main" \notin Handler /\ \A h \in Handler : h \in Caller
      /\ NoSession \notin Session
  BY DaemonAssumption DEF TypeOK, Caller, DaemonAssumption
<1>1. CASE LoopStep
  <2>1. UNCHANGED <<pc, target, cur>>
    BY <1>1, LoopFrame
  <2>2. \/ srv' = "returned" /\ HandlersDone
        \/ srv' # "returned" /\ srv # "returned"
        \/ srv' = srv
    BY <1>1, DaemonAssumption DEF LoopStep, ServeStep, BackoffOver, ServeReturns, AcceptError, CloseListener,
                Stop, serve
  <2> QED BY <2>1, <2>2
<1>2. ASSUME NEW p \in Caller, CallerStep(p) PROVE Leaving'
  <2>0. UNCHANGED <<srv, cur, sess>>
    BY <1>2, CallerFrame
  <2>1. CASE p \in Handler
    <3>1. /\ pc[p] # "gone"
          /\ \E to : pc' = [pc EXCEPT ![p] = to]
          /\ target' = target \/ \E x : target' = [target EXCEPT ![p] = x]
          /\ pc[p] = "idle" => srv = "accept"
      BY <1>2, <2>1, <1>t DEF CallerStep, DisconnectStep, Snapshot, CancelTarget, AwaitDone,
         Accept, Dispatch, ReadEnds, Rejected, Reply, Goto
    <3>2. pc'["main"] = pc["main"] /\ target'["main"] = target["main"]
      BY <3>1, <2>1, <1>t
    <3>3. srv # "returned"
      BY <3>1, <2>1, <1>t
    <3> QED BY <2>0, <3>2, <3>3
  <2>2. CASE p = "main"
    <3>1. /\ \A h \in Handler : pc'[h] = pc[h]
          /\ \E to : pc' = [pc EXCEPT ![p] = to]
      BY <1>2, <2>2, <1>t DEF CallerStep, DisconnectStep, Snapshot, CancelTarget, AwaitDone,
         MainStep, ShutDown, ExitDaemon, Goto
    <3>2. CASE Snapshot(p)
      BY <2>0, <2>2, <3>1, <3>2, <1>t DEF Snapshot
    <3>3. CASE CancelTarget(p)
      BY <2>0, <2>2, <3>1, <3>3, <1>t DEF CancelTarget, Goto
    <3>4. CASE AwaitDone(p)
      <4>1. pc[p] = "wait" /\ pc' = [pc EXCEPT ![p] = "reply"] /\ sess[target[p]] = "over"
        BY <3>4 DEF AwaitDone, Goto, Finished
      <4>2. cur = NoSession
        BY <2>2, <4>1 DEF Owner, Alive
      <4> QED BY <2>0, <2>2, <3>1, <4>1, <4>2, <1>t
    <3>5. CASE MainStep
      BY <2>0, <2>2, <3>1, <3>5, <1>t DEF MainStep, ShutDown, ExitDaemon, Goto
    <3> QED BY <1>2, <2>2, <3>2, <3>3, <3>4, <3>5, <1>t DEF CallerStep, DisconnectStep
  <2> QED BY <2>1, <2>2 DEF Caller
<1>3. ASSUME NEW h \in Handler, NEW s \in Session, Connect(h, s) PROVE Leaving'
  <2>1. /\ pc[h] = "connect" /\ pc' = [pc EXCEPT ![h] = "reply"] /\ srv' = srv
    BY <1>3 DEF Connect, Goto, serve
  <2>2. srv # "returned" /\ pc["main"] = "idle"
    BY <2>1
  <2> QED BY <2>1, <2>2, <1>t
<1>4. ASSUME NEW s \in Session, SessionStep(s) PROVE Leaving'
  <2>1. UNCHANGED <<srv, pc, target>>
    BY <1>4, SessionFrame
  <2>2. cur' = cur \/ cur' = NoSession
    BY <1>4 DEF SessionStep, Closing, CloseDevice, Finish, onEngineState, EngineReturns, ctrl
  <2> QED BY <2>1, <2>2
<1>5. CASE UNCHANGED vars
  BY <1>5 DEF vars
<1> QED BY <1>1, <1>2, <1>3, <1>4, <1>5, StepKinds

LEMMA LeavingAlways == Spec => []Leaving
BY LeavingInit, LeavingStep, DaemonTypeCorrect, OwnerAlways, KeptAlways, PTL DEF Spec

(* The process exits with every session over and no handler under way: the last
   Disconnect runs when nobody is left to connect again. *)
THEOREM DaemonExitLeavesNothing == Spec => []ExitLeavesNothing
<1>1. TypeOK /\ Owner /\ Leaving => ExitLeavesNothing
  <2> SUFFICES ASSUME TypeOK, Owner, Leaving, pc["main"] = "gone"
               PROVE  /\ \A s \in Session : sess[s] \in {"unused", "over"}
                      /\ \A h \in Handler : pc[h] \in {"idle", "gone"}
    BY DEF ExitLeavesNothing
  <2>1. cur = NoSession /\ ~active /\ HandlersDone
    BY DEF Leaving, Owner
  <2>2. \A s \in Session : sess[s] \in {"unused", "over"}
    BY <2>1 DEF Owner, OneSession, TypeOK
  <2> QED BY <2>1, <2>2 DEF HandlersDone
<1> QED BY <1>1, LeavingAlways, OwnerAlways, DaemonTypeCorrect, PTL

-----------------------------------------------------------------------------
(* The refinement of OneTunnel.  A session that was cancelled and is not over yet
   still has the Disconnect that cancelled it waiting: that is how the end of run()
   can tell an end that was asked for from a failure. *)
ToldOf == lastErr <=> state = "failed"
AskedOf(s) ==
    /\ sess[s] = "unused" => ~cancelled[s]
    /\ sess[s] \in {"returned", "closed"} => failed[s] \/ cancelled[s]
    /\ sess[s] \in Alive /\ cancelled[s] => \E p \in Caller : pc[p] = "wait" /\ target[p] = s
AskOf(p) ==
    /\ pc[p] = "wait" => cancelled[target[p]]
    /\ pc[p] \in {"cancel", "wait"} => sess[target[p]] # "unused"
Asked == ToldOf /\ (\A s \in Session : AskedOf(s)) /\ \A p \in Caller : AskOf(p)

LEMMA AskedInit == Init => Asked
BY DEF Init, Asked, ToldOf, AskedOf, AskOf, Alive

LEMMA ToldStep == ToldOf /\ Owner /\ [Next]_vars => ToldOf'
<1> SUFFICES ASSUME ToldOf, Owner, [Next]_vars PROVE ToldOf'
  OBVIOUS
<1>1. CASE LoopStep \/ \E p \in Caller : CallerStep(p)
  <2>1. lastErr' = lastErr /\ state' = state
    BY <1>1, LoopFrame, CallerFrame
  <2> QED BY <2>1 DEF ToldOf
<1>2. ASSUME NEW h \in Handler, NEW s \in Session, Connect(h, s) PROVE ToldOf'
  BY <1>2 DEF Connect, ToldOf
<1>3. ASSUME NEW s \in Session, SessionStep(s) PROVE ToldOf'
  <2>1. CASE CloseDevice(s) \/ \E e \in BOOLEAN : EngineReturns(s, e)
    BY <2>1 DEF CloseDevice, EngineReturns, ctrl, ToldOf
  <2>2. CASE Finish(s) /\ failed[s] /\ ~cancelled[s]
    BY <2>2 DEF Finish, ToldOf
  <2>3. CASE Finish(s) /\ ~(failed[s] /\ ~cancelled[s])
    <3>1. sess[s] \in Alive /\ state' = "disconnected" /\ lastErr' = lastErr
      BY <2>3 DEF Finish, Alive
    <3>2. state \in Live
      BY <3>1 DEF Owner, OneSession, Alive
    <3> QED BY <3>1, <3>2 DEF ToldOf, Live
  <2>4. ASSUME NEW st \in Live, onEngineState(s, st) PROVE ToldOf'
    <3>1. state \in Live /\ state' \in Live /\ lastErr' = lastErr
      BY <2>4 DEF onEngineState, Owner
    <3> QED BY <3>1 DEF ToldOf, Live
  <2> QED BY <1>3, <2>1, <2>2, <2>3, <2>4 DEF SessionStep, Closing
<1>4. CASE UNCHANGED vars
  BY <1>4 DEF vars, ToldOf
<1> QED BY <1>1, <1>2, <1>3, <1>4, StepKinds

(* What a caller's step does to its own request, and to no other's. *)
LEMMA CallerMoves ==
    ASSUME TypeOK, Owner, Kept, Asked, NEW p \in Caller, CallerStep(p)
    PROVE  /\ \A q \in Caller \ {p} : pc'[q] = pc[q] /\ target'[q] = target[q]
           /\ \/ /\ pc[p] # "wait" /\ pc'[p] \notin {"cancel", "wait"}
                 /\ UNCHANGED cancelled
              \/ /\ pc[p] # "wait" /\ pc'[p] = "cancel"
                 /\ target'[p] \in Session /\ sess[target'[p]] \in Alive
                 /\ UNCHANGED cancelled
              \/ /\ pc[p] = "cancel" /\ pc'[p] = "wait"
                 /\ target'[p] = target[p] /\ target[p] \in Session
                 /\ cancelled' = [cancelled EXCEPT ![target[p]] = TRUE]
              \/ /\ pc[p] = "wait" /\ pc'[p] = "reply"
                 /\ target'[p] = target[p] /\ sess[target[p]] = "over"
                 /\ UNCHANGED cancelled
<1>t. /\ pc \in [Caller -> {"idle", "read", "connect", "disconnect", "cancel", "wait",
                            "reply", "gone"}]
      /\ target \in [Caller -> Session \cup {NoSession}]
      /\ cur \in Session \cup {NoSession}
  BY DEF TypeOK
<1>1. CASE Snapshot(p)
  <2>1. /\ pc[p] = "disconnect" /\ target' = [target EXCEPT ![p] = cur]
        /\ pc' = [pc EXCEPT ![p] = IF cur = NoSession THEN "reply" ELSE "cancel"]
        /\ UNCHANGED cancelled
    BY <1>1 DEF Snapshot, sessions
  <2>2. cur # NoSession => cur \in Session /\ sess[cur] \in Alive
    BY <1>t DEF Owner
  <2> QED BY <1>t, <2>1, <2>2
<1>2. CASE CancelTarget(p)
  <2>1. /\ pc[p] = "cancel" /\ pc' = [pc EXCEPT ![p] = "wait"] /\ target' = target
        /\ cancelled' = [cancelled EXCEPT ![target[p]] = TRUE]
    BY <1>2 DEF CancelTarget, Goto
  <2> QED BY <1>t, <2>1 DEF Kept
<1>3. CASE AwaitDone(p)
  <2>1. /\ pc[p] = "wait" /\ pc' = [pc EXCEPT ![p] = "reply"] /\ target' = target
        /\ sess[target[p]] = "over" /\ UNCHANGED cancelled
    BY <1>3 DEF AwaitDone, Goto, Finished, sessions
  <2> QED BY <1>t, <2>1
<1>4. CASE ~DisconnectStep(p)
  <2>1. /\ target' = target /\ UNCHANGED cancelled
        /\ pc[p] \in {"idle", "read", "connect", "reply"}
        /\ \E to \in {"read", "connect", "disconnect", "reply", "gone"} :
              pc' = [pc EXCEPT ![p] = to]
    BY <1>4, CallerStep(p)
       DEF CallerStep, Accept, Dispatch, ReadEnds, Rejected, Reply, MainStep, ShutDown,
           ExitDaemon, Goto, sessions
  <2> QED BY <1>t, <2>1
<1> QED BY <1>1, <1>2, <1>3, <1>4 DEF DisconnectStep

LEMMA AskedStep == TypeOK /\ Owner /\ Kept /\ Asked /\ [Next]_vars => Asked'
<1> SUFFICES ASSUME TypeOK, Owner, Kept, Asked, [Next]_vars
             PROVE  (\A s \in Session : AskedOf(s)') /\ \A p \in Caller : AskOf(p)'
  BY ToldStep DEF Asked
<1>t. /\ target \in [Caller -> Session \cup {NoSession}]
      /\ pc \in [Caller -> {"idle", "read", "connect", "disconnect", "cancel", "wait",
                            "reply", "gone"}]
      /\ sess \in [Session -> {"unused", "running", "returned", "closed", "over"}]
      /\ cancelled \in [Session -> BOOLEAN] /\ failed \in [Session -> BOOLEAN]
  BY DEF TypeOK
<1>k. \A p \in Caller : pc[p] \in {"cancel", "wait"} => target[p] \in Session
  BY DEF Kept
<1>a. /\ \A s \in Session : AskedOf(s)
      /\ \A p \in Caller : AskOf(p)
  BY DEF Asked
<1>1. ASSUME UNCHANGED <<pc, target, sess, cancelled, failed>>
      PROVE  (\A s \in Session : AskedOf(s)') /\ \A p \in Caller : AskOf(p)'
  BY <1>1, <1>a DEF AskedOf, AskOf
<1>2. ASSUME NEW p \in Caller, CallerStep(p)
      PROVE  (\A s \in Session : AskedOf(s)') /\ \A q \in Caller : AskOf(q)'
  <2>1. UNCHANGED <<sess, failed>>
    BY <1>2, CallerFrame
  <2>2. \A q \in Caller \ {p} : pc'[q] = pc[q] /\ target'[q] = target[q]
    BY <1>2, CallerMoves
  <2>3. CASE /\ pc[p] # "wait" /\ pc'[p] \notin {"cancel", "wait"} /\ UNCHANGED cancelled
    BY <1>a, <2>1, <2>2, <2>3 DEF AskedOf, AskOf
  <2>4. CASE /\ pc[p] # "wait" /\ pc'[p] = "cancel" /\ UNCHANGED cancelled
             /\ target'[p] \in Session /\ sess[target'[p]] \in Alive
    BY <1>a, <2>1, <2>2, <2>4 DEF AskedOf, AskOf, Alive
  <2>5. CASE /\ pc[p] = "cancel" /\ pc'[p] = "wait"
             /\ target'[p] = target[p] /\ target[p] \in Session
             /\ cancelled' = [cancelled EXCEPT ![target[p]] = TRUE]
    <3>1. sess[target[p]] # "unused"
      BY <1>a, <2>5 DEF AskOf
    <3>2. cancelled'[target[p]] /\ \A s \in Session \ {target[p]} : cancelled'[s] <=> cancelled[s]
      BY <1>t, <2>5
    <3>3. ASSUME NEW q \in Caller PROVE AskOf(q)'
      <4>1. CASE q = p
        BY <2>1, <2>5, <3>1, <3>2, <4>1 DEF AskOf
      <4>2. CASE q # p
        BY <1>a, <1>k, <2>1, <2>2, <3>2, <4>2 DEF AskOf
      <4> QED BY <4>1, <4>2
    <3>4. ASSUME NEW s \in Session PROVE AskedOf(s)'
      <4>1. CASE s = target[p]
        BY <1>a, <2>1, <2>5, <3>1, <3>2, <4>1 DEF AskedOf
      <4>2. CASE s # target[p]
        <5>1. AskedOf(s) /\ sess'[s] = sess[s] /\ failed'[s] = failed[s]
              /\ (cancelled'[s] <=> cancelled[s])
          BY <1>a, <2>1, <3>2, <4>2
        <5>2. \A q \in Caller : pc[q] = "wait" /\ target[q] = s
                                  => pc'[q] = "wait" /\ target'[q] = s
          BY <2>2, <2>5
        <5> QED BY <5>1, <5>2 DEF AskedOf
      <4> QED BY <4>1, <4>2
    <3> QED BY <3>3, <3>4
  <2>6. CASE /\ pc[p] = "wait" /\ pc'[p] = "reply" /\ UNCHANGED cancelled
             /\ target'[p] = target[p] /\ sess[target[p]] = "over"
    <3>1. \A q \in Caller : AskOf(q)'
      BY <1>a, <2>1, <2>2, <2>6 DEF AskOf
    <3>2. ASSUME NEW s \in Session PROVE AskedOf(s)'
      <4>1. \A q \in Caller : pc[q] = "wait" /\ target[q] = s /\ sess[s] \in Alive
                                => pc'[q] = "wait" /\ target'[q] = s
        BY <2>2, <2>6 DEF Alive
      <4> QED BY <1>a, <2>1, <2>6, <4>1 DEF AskedOf
    <3> QED BY <3>1, <3>2
  <2> QED BY <1>2, <2>3, <2>4, <2>5, <2>6, CallerMoves
<1>3. ASSUME NEW h \in Handler, NEW s \in Session, Connect(h, s)
      PROVE  (\A d \in Session : AskedOf(d)') /\ \A q \in Caller : AskOf(q)'
  <2>1. /\ pc[h] = "connect" /\ pc' = [pc EXCEPT ![h] = "reply"] /\ h \in Caller
        /\ sess[s] = "unused" /\ sess' = [sess EXCEPT ![s] = "running"]
        /\ UNCHANGED <<target, cancelled, failed>>
    BY <1>3 DEF Connect, Goto, Caller
  <2>2. /\ sess'[s] = "running" /\ ~cancelled[s]
        /\ \A d \in Session \ {s} : sess'[d] = sess[d]
        /\ \A q \in Caller : pc'[q] \in {"cancel", "wait"} => pc'[q] = pc[q]
        /\ \A q \in Caller : pc[q] = "wait" => pc'[q] = "wait"
    BY <1>a, <1>t, <2>1 DEF AskedOf
  <2>3. ASSUME NEW q \in Caller PROVE AskOf(q)'
    BY <1>a, <1>k, <2>1, <2>2 DEF AskOf
  <2>4. ASSUME NEW d \in Session PROVE AskedOf(d)'
    <3>1. CASE d = s
      BY <2>1, <2>2, <3>1 DEF AskedOf
    <3>2. CASE d # s
      BY <1>a, <2>1, <2>2, <3>2 DEF AskedOf
    <3> QED BY <3>1, <3>2
  <2> QED BY <2>3, <2>4
<1>4. ASSUME NEW s \in Session, SessionStep(s)
      PROVE  (\A d \in Session : AskedOf(d)') /\ \A q \in Caller : AskOf(q)'
  <2>1. UNCHANGED <<pc, target, cancelled>>
    BY <1>4, SessionFrame
  <2>2. \/ UNCHANGED <<sess, failed>>
        \/ /\ sess[s] = "running" /\ sess' = [sess EXCEPT ![s] = "returned"]
           /\ \E e \in BOOLEAN : (e \/ cancelled[s]) /\ failed' = [failed EXCEPT ![s] = e]
        \/ /\ sess[s] = "returned" /\ sess' = [sess EXCEPT ![s] = "closed"] /\ failed' = failed
        \/ /\ sess[s] = "closed" /\ sess' = [sess EXCEPT ![s] = "over"] /\ failed' = failed
    BY <1>4 DEF SessionStep, Closing, CloseDevice, Finish, onEngineState, EngineReturns, sessions
  <2>3. /\ \A d \in Session \ {s} : sess'[d] = sess[d] /\ failed'[d] = failed[d]
        /\ sess'[s] = "unused" => sess[s] = "unused"
        /\ sess[s] # "unused" => sess'[s] # "unused"
        /\ sess'[s] \in Alive => sess[s] \in Alive
        /\ sess'[s] \in {"returned", "closed"} =>
              \/ sess[s] \in {"returned", "closed"} /\ failed'[s] = failed[s]
              \/ failed'[s] \/ cancelled[s]
    BY <1>t, <2>2 DEF Alive
  <2>4. ASSUME NEW q \in Caller PROVE AskOf(q)'
    BY <1>a, <1>k, <2>1, <2>3 DEF AskOf
  <2>5. ASSUME NEW d \in Session PROVE AskedOf(d)'
    <3>1. CASE d = s
      BY <1>a, <2>1, <2>3, <3>1 DEF AskedOf
    <3>2. CASE d # s
      BY <1>a, <2>1, <2>3, <3>2 DEF AskedOf
    <3> QED BY <3>1, <3>2
  <2> QED BY <2>4, <2>5
<1>5. CASE LoopStep \/ UNCHANGED vars
  BY <1>1, <1>5, LoopFrame DEF vars
<1> QED BY <1>2, <1>3, <1>4, <1>5, StepKinds

(* The variables of OneTunnel, read off the daemon's. *)
Up == {s \in Session : sess[s] \in Alive}
Down == {s \in Session : sess[s] = "over"}
Stops == [p \in Caller |-> IF pc[p] = "wait" THEN target[p] ELSE NoSession]

LEMMA UpIsCurrent ==
    ASSUME TypeOK, Owner, NEW s \in Session, sess[s] \in Alive
    PROVE  Up = {s}
BY DEF Up, Owner, OneSession, Alive

LEMMA TunnelCallerStep ==
    ASSUME TypeOK, Owner, Kept, Asked, NEW p \in Caller, CallerStep(p)
    PROVE  [Tunnels!Next]_<<Up, Down, Stops, state, lastErr>>
<1>1. UNCHANGED <<sess, failed, state, lastErr>>
  BY CallerFrame
<1>2. Up' = Up /\ Down' = Down
  BY <1>1 DEF Up, Down
<1>3. \A q \in Caller \ {p} : pc'[q] = pc[q] /\ target'[q] = target[q]
  BY CallerMoves
<1>4. CASE (pc[p] = "wait") = (pc'[p] = "wait")
  <2>1. pc[p] # "wait" /\ pc'[p] # "wait"
    BY <1>4, CallerMoves
  <2>2. Stops' = Stops
    BY <1>3, <2>1 DEF Stops
  <2> QED BY <1>1, <1>2, <2>2
<1>5. CASE pc[p] # "wait" /\ pc'[p] = "wait"
  <2>1. pc[p] = "cancel" /\ target'[p] = target[p] /\ target[p] \in Session
    BY <1>5, CallerMoves
  <2>2. PICK t \in Session : t = target[p]
    BY <2>1
  <2>3. sess[t] # "unused"
    BY <2>1, <2>2 DEF Asked, AskOf
  <2>4. t \in Up \cup Down
    BY <2>3 DEF Up, Down, Alive, TypeOK
  <2>5. Stops' = [Stops EXCEPT ![p] = t] /\ Stops[p] = NoSession
    BY <1>3, <1>5, <2>1, <2>2 DEF Stops
  <2>6. Tunnels!AskStop(p, t)
    BY <1>1, <1>2, <2>4, <2>5 DEF Tunnels!AskStop, Up, Down, Stops, Alive
  <2> QED BY <2>6 DEF Tunnels!Next
<1>6. CASE pc[p] = "wait" /\ pc'[p] # "wait"
  <2>1. sess[target[p]] = "over"
    BY <1>6, CallerMoves
  <2>2. Stops[p] \in Down
    BY <1>6, <2>1 DEF Stops, Down, Kept
  <2>3. Stops' = [Stops EXCEPT ![p] = NoSession]
    BY <1>3, <1>6 DEF Stops
  <2>4. Tunnels!Answer(p)
    BY <1>1, <1>2, <2>2, <2>3 DEF Tunnels!Answer, Up, Down, Stops, Alive
  <2> QED BY <2>4 DEF Tunnels!Next
<1> QED BY <1>4, <1>5, <1>6

LEMMA TunnelStep ==
    TypeOK /\ Owner /\ Kept /\ Asked /\ [Next]_vars
        => [Tunnels!Next]_<<Up, Down, Stops, state, lastErr>>
<1> SUFFICES ASSUME TypeOK, Owner, Kept, Asked, [Next]_vars
             PROVE  [Tunnels!Next]_<<Up, Down, Stops, state, lastErr>>
  OBVIOUS
<1>t. sess \in [Session -> {"unused", "running", "returned", "closed", "over"}]
      /\ NoSession \notin Session
  BY DaemonAssumption DEF TypeOK, DaemonAssumption
<1>1. CASE LoopStep \/ UNCHANGED vars
  <2>1. UNCHANGED <<pc, target, sess, state, lastErr>>
    BY <1>1, LoopFrame DEF vars
  <2> QED BY <2>1 DEF Up, Down, Stops
<1>2. ASSUME NEW p \in Caller, CallerStep(p)
      PROVE  [Tunnels!Next]_<<Up, Down, Stops, state, lastErr>>
  BY <1>2, TunnelCallerStep
<1>3. ASSUME NEW h \in Handler, NEW s \in Session, Connect(h, s) PROVE Tunnels!Next
  <2>1. /\ pc[h] = "connect" /\ pc' = [pc EXCEPT ![h] = "reply"] /\ target' = target
        /\ ~active /\ sess[s] = "unused" /\ sess' = [sess EXCEPT ![s] = "running"]
        /\ state' = "connecting" /\ lastErr' = FALSE
    BY <1>3 DEF Connect, Goto
  <2>2. Up = {} /\ Up' = {s}
    BY <1>t, <2>1 DEF Up, Owner, OneSession, Alive
  <2>3. Down' = Down /\ s \notin Down
    BY <1>t, <2>1 DEF Down
  <2>4. \A q \in Caller : pc'[q] = "wait" <=> pc[q] = "wait"
    BY <2>1 DEF TypeOK
  <2>5. Stops' = Stops
    BY <2>1, <2>4 DEF Stops
  <2>6. Tunnels!Begin(s)
    BY <2>1, <2>2, <2>3, <2>5 DEF Tunnels!Begin, Up, Down, Stops, Alive
  <2> QED BY <2>6 DEF Tunnels!Next
<1>4. ASSUME NEW s \in Session, SessionStep(s)
      PROVE  [Tunnels!Next]_<<Up, Down, Stops, state, lastErr>>
  <2>1. UNCHANGED <<pc, target, cancelled>>
    BY <1>4, SessionFrame
  <2>2. Stops' = Stops
    BY <2>1 DEF Stops
  <2>3. CASE CloseDevice(s) \/ \E e \in BOOLEAN : EngineReturns(s, e)
    <3>1. /\ sess[s] \in Alive /\ UNCHANGED <<state, lastErr>>
          /\ \E a \in Alive : sess' = [sess EXCEPT ![s] = a]
      BY <2>3 DEF CloseDevice, EngineReturns, ctrl, Alive
    <3>2. Up' = Up
      BY <1>t, <3>1 DEF Up, Alive
    <3>3. Down' = Down
      BY <1>t, <3>1 DEF Down, Alive
    <3> QED BY <2>2, <3>1, <3>2, <3>3
  <2>4. ASSUME NEW st \in Live, onEngineState(s, st) PROVE Tunnels!Next
    <3>1. /\ sess[s] \in Alive /\ sess' = sess
          /\ state' = st /\ lastErr' = lastErr
      BY <2>4 DEF onEngineState, sessions, Alive
    <3>2. Up # {} /\ Up' = Up /\ Down' = Down
      BY <3>1 DEF Up, Down
    <3>3. Tunnels!Report(st)
      BY <2>2, <3>1, <3>2 DEF Tunnels!Report, Up, Down, Stops, Alive
    <3> QED BY <3>3 DEF Tunnels!Next, Tunnels!Going, Live
  <2>5. CASE Finish(s)
    <3>1. /\ sess[s] = "closed" /\ sess' = [sess EXCEPT ![s] = "over"]
          /\ IF failed[s] /\ ~cancelled[s]
             THEN state' = "failed" /\ lastErr' = TRUE
             ELSE state' = "disconnected" /\ lastErr' = lastErr
      BY <2>5 DEF Finish
    <3>2. Up = {s}
      BY <3>1, UpIsCurrent DEF Alive
    <3>3. Up' = {}
      BY <1>t, <3>1, <3>2 DEF Up, Alive
    <3>4. Down' = Down \cup {s}
      BY <1>t, <3>1 DEF Down
    <3>5. cancelled[s] <=> \E p \in Caller : Stops[p] = s
      <4>1. ASSUME cancelled[s] PROVE \E p \in Caller : Stops[p] = s
        BY <3>1, <4>1 DEF Asked, AskedOf, Alive, Stops
      <4>2. ASSUME NEW p \in Caller, Stops[p] = s PROVE cancelled[s]
        BY <1>t, <4>2 DEF Asked, AskOf, Stops
      <4> QED BY <4>1, <4>2
    <3>6. ~lastErr /\ lastErr \in BOOLEAN
      BY <3>1 DEF Owner, OneSession, Asked, ToldOf, TypeOK, Live
    <3>7. CASE cancelled[s]
      <4>1. state' = "disconnected" /\ lastErr' = FALSE
        BY <3>1, <3>6, <3>7
      <4>2. Tunnels!End(s)
        BY <2>2, <3>2, <3>3, <3>4, <3>5, <3>7, <4>1
           DEF Tunnels!End, Up, Down, Stops, Alive
      <4> QED BY <4>2 DEF Tunnels!Next
    <3>8. CASE ~cancelled[s]
      <4>1. failed[s]
        BY <3>1, <3>8 DEF Asked, AskedOf
      <4>2. state' = "failed" /\ lastErr' = TRUE
        BY <3>1, <3>8, <4>1
      <4>3. Tunnels!End(s)
        BY <2>2, <3>2, <3>3, <3>4, <3>5, <3>8, <4>2
           DEF Tunnels!End, Up, Down, Stops, Alive
      <4> QED BY <4>3 DEF Tunnels!Next
    <3> QED BY <3>7, <3>8
  <2> QED BY <1>4, <2>3, <2>4, <2>5 DEF SessionStep, Closing
<1> QED BY <1>1, <1>2, <1>3, <1>4, StepKinds

(* The daemon implements OneTunnel: its clients see one tunnel at a time, an answer
   to a stop only when the tunnel it found is down, and the truth about why it ended. *)
THEOREM DaemonImplementsOneTunnel == Spec => ImplementsOneTunnel
<1>1. Init => Tunnels!Init
  BY DEF Init, Tunnels!Init
<1>2. TypeOK /\ Owner /\ Kept /\ Asked /\ [Next]_vars
        => [Tunnels!Next]_<<{s \in Session : sess[s] \in {"running", "returned", "closed"}},
                            {s \in Session : sess[s] = "over"},
                            [p \in Caller |-> IF pc[p] = "wait" THEN target[p] ELSE NoSession],
                            state, lastErr>>
  BY TunnelStep DEF Up, Down, Stops, Alive
<1>3. Spec => []Asked
  BY AskedInit, AskedStep, DaemonTypeCorrect, OwnerAlways, KeptAlways, PTL DEF Spec
<1> QED BY <1>1, <1>2, <1>3, DaemonTypeCorrect, OwnerAlways, KeptAlways, PTL
        DEF Spec, ImplementsOneTunnel, Tunnels!Spec

-----------------------------------------------------------------------------
LEMMA RoundTrip ==
    ASSUME NEW p \in Profile
    PROVE  /\ ParseBundle(MarshalBundle(p)).files = p
           /\ ParseBundle(MarshalBundle(p)).endpoints = ListOf[p]
<1>1. CASE Single(ListOf[p])
  <2>1. PICK a \in Address : ListOf[p] = {a}
    BY <1>1 DEF Single
  <2>2. (CHOOSE b \in ListOf[p] : TRUE) = a
    BY <2>1
  <2>3. MarshalBundle(p).version = 1 /\ MarshalBundle(p).files = p
        /\ MarshalBundle(p).server = a
    BY <1>1, <2>2 DEF MarshalBundle
  <2> QED BY <2>1, <2>3 DEF ParseBundle
<1>2. CASE ~Single(ListOf[p])
  BY <1>2 DEF MarshalBundle, ParseBundle
<1> QED BY <1>1, <1>2

Home(n) == n.files \in Profile /\ n.endpoints # {} => n.endpoints = ListOf[n.files]

(* Who is alone in saving has the draft in its snapshot, as far as that goes. *)
Alone == \A c, d \in Call : Saving(c) /\ Saving(d) => c = d
Held(c) ==
    /\ doing[c] \in {"commit", "save", "write"} => note[c].files = files \/ picked
    /\ doing[c] \in {"save", "write"} => note[c].server = server
    /\ doing[c] = "write" => note[c].endpoints = endpoints /\ note[c].last = last

SavedParts ==
    /\ ~spoiled => Alone /\ \A c \in Call : Held(c)
    /\ SavedIsDraft

HomeCopy(c) ==
    /\ doing[c] \in {"commit", "save"} =>
          Home(Copy(note[c].files, note[c].server, endpoints, last))
    /\ doing[c] = "write" => Home(note[c])

HomeParts ==
    /\ ~foreign =>
          /\ Alone /\ Home(Draft) /\ Home(disk)
          /\ \A c \in Call : HomeCopy(c)
    /\ KeyStaysHome

ListedParts ==
    /\ RememberedIsListed
    /\ \A c \in Call : doing[c] = "write" => note[c].last \in note[c].endpoints \cup {Nothing}

Fields(f, s, e, l) ==
    /\ f \in Profile \cup {Mixed, Nothing} /\ s \in Address \cup {Nothing}
    /\ e \in SUBSET Address /\ l \in Address \cup {Nothing}

LEMMA CopyIn ==
    ASSUME NEW f, NEW s, NEW e, NEW l PROVE Copy(f, s, e, l) \in Copies <=> Fields(f, s, e, l)
BY DEF Copy, Copies, Fields

LEMMA FieldsIn ==
    ASSUME NEW n \in Copies PROVE Fields(n.files, n.server, n.endpoints, n.last)
BY DEF Copies, Fields

LEMMA CopyOf ==
    ASSUME NEW n \in Copies PROVE n = Copy(n.files, n.server, n.endpoints, n.last)
BY DEF Copies, Copy

Types ==
    /\ Fields(files, server, endpoints, last) /\ disk \in Copies
    /\ doing \in [Call -> {"idle", "commit", "save", "write", "remember", "dial"}]
    /\ op \in [Call -> {"none", "import", "connect", "reconnect", "status"}]
    /\ note \in [Call -> Copies]
    /\ picked \in BOOLEAN /\ spoiled \in BOOLEAN /\ foreign \in BOOLEAN

LEMMA TypesAre == DraftTypeOK <=> Types
BY CopyIn DEF DraftTypeOK, Types, Draft

LEMMA BlankIn == Blank \in Copies
BY DEF Blank, Copy, Copies

LEMMA TypesStep == Types /\ [DraftNext]_draftVars => Types'
<1> SUFFICES ASSUME Types, [DraftNext]_draftVars PROVE Types'
  OBVIOUS
<1> USE DraftAssumption DEF Types, Put, Moves, Over, BeginsToSave, draft, calls, reasons
<1>1. ASSUME NEW f \in Profile \cup {Mixed}, PickCredential(f) PROVE Types'
  BY <1>1 DEF PickCredential, Fields
<1>2. ASSUME NEW c \in Call, NEW p \in Profile, ImportProfileBundle(c, p) PROVE Types'
  <2>1. files' = p /\ endpoints' = ListOf[p] /\ server' \in ListOf[p] /\ last' = Nothing
    BY <1>2, RoundTrip DEF ImportProfileBundle
  <2>2. Fields(files', server', {}, Nothing) /\ Fields(files', server', endpoints', last')
    BY <2>1 DEF Fields
  <2> QED BY <1>2, <2>2, CopyIn DEF ImportProfileBundle
<1>3. ASSUME NEW c \in Call, NEW a \in Address, ConnectForm(c, a) \/ Status(c, a)
      PROVE  Types'
  <2>1. Fields(files, a, {}, Nothing) /\ Fields(Nothing, a, {}, Nothing)
    BY DEF Fields
  <2>2. CASE ConnectForm(c, a)
    BY <2>2, <2>1, CopyIn DEF ConnectForm
  <2>3. CASE Status(c, a)
    BY <2>3, <2>1, CopyIn DEF Status
  <2> QED BY <1>3, <2>2, <2>3
<1>4. ASSUME NEW c \in Call, Commit(c) PROVE Types'
  <2>1. Fields(files, note[c].server, endpoints, last)
    BY FieldsIn DEF Fields
  <2> QED BY <1>4, <2>1 DEF Commit
<1>5. ASSUME NEW c \in Call, Reconnect(c) PROVE Types'
  BY <1>5, CopyIn DEF Reconnect, Draft
<1>6. ASSUME NEW c \in Call, RememberEndpoint(c) PROVE Types'
  <2>1. Fields(files, server, {}, Nothing)
    BY DEF Fields
  <2>2. CASE note[c].server = last \/ ~Listed(note[c].server)
    <3>1. note' = Put(note, c, Blank) /\ doing' = Put(doing, c, "idle") /\ op' = Put(op, c, "none")
      BY <1>6, <2>2 DEF RememberEndpoint
    <3>2. UNCHANGED <<draft, disk, reasons>>
      BY <1>6, <2>2 DEF RememberEndpoint
    <3>3. note' \in [Call -> Copies] /\ Fields(files, server, endpoints, last)'
      BY <3>1, <3>2, BlankIn
    <3> QED BY <3>1, <3>2, <3>3
  <2>3. CASE ~(note[c].server = last \/ ~Listed(note[c].server))
    <3>1. Fields(files, server, endpoints, note[c].server)
      BY <2>3 DEF Listed, Fields
    <3> QED BY <1>6, <2>1, <2>3, <3>1, CopyIn DEF RememberEndpoint
  <2> QED BY <2>2, <2>3
<1>7. ASSUME NEW c \in Call, ReadEndpoints(c) PROVE Types'
  <2>1. Fields(note[c].files, note[c].server, endpoints, last)
    BY FieldsIn DEF Fields
  <2> QED BY <1>7, <2>1, CopyIn DEF ReadEndpoints
<1>8. ASSUME NEW c \in Call, Save(c) PROVE Types'
  <2>1. Fields(note[c].files, note[c].server, {}, Nothing)
    BY FieldsIn DEF Fields
  <2>2. note' \in [Call -> Copies] /\ disk' \in Copies
    BY <1>8, <2>1, CopyIn, BlankIn DEF Save
  <2> QED BY <1>8, <2>2 DEF Save
<1>9. ASSUME NEW c \in Call, Dial(c) PROVE Types'
  BY <1>9, BlankIn DEF Dial
<1>10. CASE NewApp
  <2>1. Fields(disk.files, disk.server, disk.endpoints, disk.last)
    BY FieldsIn
  <2> QED BY <1>10, <2>1, BlankIn DEF NewApp
<1>11. CASE UNCHANGED draftVars
  BY <1>11 DEF draftVars
<1> QED BY <1>1, <1>2, <1>3, <1>4, <1>5, <1>6, <1>7, <1>8, <1>9, <1>10, <1>11 DEF DraftNext

LEMMA PutAt ==
    ASSUME NEW S, NEW f \in [Call -> S], NEW c \in Call, NEW x, NEW d \in Call
    PROVE  Put(f, c, x)[d] = IF d = c THEN x ELSE f[d]
BY DEF Put

LEMMA ListedStep == Types /\ ListedParts /\ [DraftNext]_draftVars => ListedParts'
<1> SUFFICES ASSUME Types, ListedParts, [DraftNext]_draftVars PROVE ListedParts'
  OBVIOUS
<1> USE DEF Types, ListedParts, RememberedIsListed, Put, Moves, Over, draft, calls
<1>1. ASSUME NEW f \in Profile \cup {Mixed}, PickCredential(f) PROVE ListedParts'
  BY <1>1 DEF PickCredential
<1>2. ASSUME NEW c \in Call, NEW p \in Profile, ImportProfileBundle(c, p) PROVE ListedParts'
  BY <1>2 DEF ImportProfileBundle
<1>3. ASSUME NEW c \in Call, NEW a \in Address, ConnectForm(c, a) \/ Status(c, a)
      PROVE  ListedParts'
  BY <1>3 DEF ConnectForm, Status
<1>4. ASSUME NEW c \in Call, Commit(c) \/ Reconnect(c) \/ Dial(c) PROVE ListedParts'
  BY <1>4 DEF Commit, Reconnect, Dial
<1>6. ASSUME NEW c \in Call, RememberEndpoint(c) PROVE ListedParts'
  BY <1>6 DEF RememberEndpoint, Listed
<1>7. ASSUME NEW c \in Call, ReadEndpoints(c) PROVE ListedParts'
  BY <1>7 DEF ReadEndpoints, Copy
<1>8. ASSUME NEW c \in Call, Save(c) PROVE ListedParts'
  BY <1>8 DEF Save
<1>10. CASE NewApp
  BY <1>10 DEF NewApp, Blank, Copy
<1>11. CASE UNCHANGED draftVars
  BY <1>11 DEF draftVars
<1> QED BY <1>1, <1>2, <1>3, <1>4, <1>6, <1>7, <1>8, <1>10, <1>11 DEF DraftNext

LEMMA SavedStep == Types /\ SavedParts /\ [DraftNext]_draftVars => SavedParts'
<1> SUFFICES ASSUME Types, SavedParts, [DraftNext]_draftVars PROVE SavedParts'
  OBVIOUS
<1> USE DEF Types, SavedParts, SavedIsDraft, Draft, Alone, Held, Saving, BeginsToSave, Put, Moves, Over,
            draft, calls, reasons
<1>1. ASSUME NEW f \in Profile \cup {Mixed}, PickCredential(f) PROVE SavedParts'
  BY <1>1 DEF PickCredential
<1>2. ASSUME NEW c \in Call, NEW p \in Profile, ImportProfileBundle(c, p) PROVE SavedParts'
  BY <1>2 DEF ImportProfileBundle, Copy
<1>3. ASSUME NEW c \in Call, NEW a \in Address, ConnectForm(c, a) PROVE SavedParts'
  BY <1>3 DEF ConnectForm, Copy
<1>3a. ASSUME NEW c \in Call, NEW a \in Address, Status(c, a) PROVE SavedParts'
  BY <1>3a DEF Status, Copy
<1>4. ASSUME NEW c \in Call, Commit(c) PROVE SavedParts'
  BY <1>4 DEF Commit
<1>5. ASSUME NEW c \in Call, Reconnect(c) \/ Dial(c) PROVE SavedParts'
  BY <1>5 DEF Reconnect, Dial
<1>6. ASSUME NEW c \in Call, RememberEndpoint(c) PROVE SavedParts'
  <2>1. CASE note[c].server = last \/ ~Listed(note[c].server)
    <3>1. \A d \in Call : doing'[d] = (IF d = c THEN "idle" ELSE doing[d])
                       /\ (d # c => note'[d] = note[d])
      BY <1>6, <2>1 DEF RememberEndpoint
    <3>2. UNCHANGED <<draft, disk, reasons>>
      BY <1>6, <2>1 DEF RememberEndpoint
    <3> QED BY <1>6, <3>1, <3>2 DEF RememberEndpoint
  <2>2. CASE ~(note[c].server = last \/ ~Listed(note[c].server))
    <3>1. \A d \in Call : doing'[d] = (IF d = c THEN "save" ELSE doing[d])
                       /\ (d # c => note'[d] = note[d])
      BY <1>6, <2>2 DEF RememberEndpoint
    <3>2. note'[c].files = files /\ note'[c].server = server
      BY <1>6, <2>2 DEF RememberEndpoint, Copy
    <3>3. /\ UNCHANGED <<files, server, endpoints, disk>>
          /\ spoiled' = (\E d \in Call \ {c} : Saving(d)) /\ picked' = FALSE
      BY <1>6, <2>2 DEF RememberEndpoint
    <3> QED BY <3>1, <3>2, <3>3
  <2> QED BY <2>1, <2>2
<1>7. ASSUME NEW c \in Call, ReadEndpoints(c) PROVE SavedParts'
  BY <1>7 DEF ReadEndpoints, Copy
<1>8. ASSUME NEW c \in Call, Save(c) PROVE SavedParts'
  <2>1. \A d \in Call : d # c => doing'[d] = doing[d] /\ note'[d] = note[d]
    BY <1>8 DEF Save
  <2>2. doing'[c] \in {"dial", "idle"} /\ UNCHANGED <<draft, picked>>
    BY <1>8 DEF Save
  <2>3. CASE disk' = note[c] /\ UNCHANGED spoiled
    <3>1. ~spoiled /\ ~picked => disk' = Draft
      BY <1>8, <2>3, CopyOf DEF Save
    <3> QED BY <2>1, <2>2, <2>3, <3>1
  <2>4. CASE UNCHANGED disk /\ spoiled' = TRUE
    BY <2>4
  <2> QED BY <1>8, <2>3, <2>4 DEF Save
<1>10. CASE NewApp
  BY <1>10, CopyOf DEF NewApp
<1>11. CASE UNCHANGED draftVars
  BY <1>11 DEF draftVars
<1> QED BY <1>1, <1>2, <1>3, <1>3a, <1>4, <1>5, <1>6, <1>7, <1>8, <1>10, <1>11 DEF DraftNext

LEMMA HomeStep == Types /\ HomeParts /\ [DraftNext]_draftVars => HomeParts'
<1> SUFFICES ASSUME Types, HomeParts, [DraftNext]_draftVars PROVE HomeParts'
  OBVIOUS
<1> USE DEF Types, HomeParts, HomeCopy, KeyStaysHome, Home, Dialled, Draft, Alone, Saving,
            BeginsToSave, Put, Moves, Over, draft, calls, reasons
<1>1. ASSUME NEW f \in Profile \cup {Mixed}, PickCredential(f) PROVE HomeParts'
  BY <1>1, DraftAssumption DEF PickCredential, Copy
<1>2. ASSUME NEW c \in Call, NEW p \in Profile, ImportProfileBundle(c, p) PROVE HomeParts'
  <2>1. files' = p /\ endpoints' = ListOf[p] /\ last' = Nothing /\ UNCHANGED disk
    BY <1>2, RoundTrip DEF ImportProfileBundle
  <2>2. \A d \in Call : doing'[d] = (IF d = c THEN "save" ELSE doing[d])
                     /\ (d # c => note'[d] = note[d])
    BY <1>2 DEF ImportProfileBundle
  <2>3. /\ note'[c].files = p
        /\ foreign' = (foreign \/ \E d \in Call \ {c} : Saving(d))
    BY <1>2, <2>1 DEF ImportProfileBundle, Copy
  <2>4. ~foreign' => ~foreign /\ \A d \in Call \ {c} : ~Saving(d)
    BY <2>3
  <2>5. ~foreign' => Alone' /\ Home(Draft)' /\ Home(disk)'
    BY <2>1, <2>2, <2>4 DEF Copy
  <2>6. ~foreign' => \A d \in Call : HomeCopy(d)'
    BY <2>1, <2>2, <2>3, <2>4 DEF Copy
  <2>7. KeyStaysHome'
    BY <2>1, <2>2, <2>4
  <2> QED BY <2>5, <2>6, <2>7
<1>3. ASSUME NEW c \in Call, NEW a \in Address, ConnectForm(c, a) PROVE HomeParts'
  <2>1. \A d \in Call : doing'[d] = (IF d = c THEN "commit" ELSE doing[d])
                     /\ (d # c => note'[d] = note[d])
    BY <1>3 DEF ConnectForm
  <2>2. /\ note'[c].files = files /\ note'[c].endpoints = {}
        /\ foreign' = (foreign \/ \E d \in Call \ {c} : Saving(d))
        /\ UNCHANGED <<draft, disk>>
    BY <1>3 DEF ConnectForm, Copy
  <2>3. ~foreign' => ~foreign /\ \A d \in Call \ {c} : ~Saving(d)
    BY <2>2
  <2>4. ~foreign' => Alone' /\ Home(Draft)' /\ Home(disk)'
    BY <2>1, <2>2, <2>3 DEF Copy
  <2>5. ~foreign' => \A d \in Call : HomeCopy(d)'
    BY <2>1, <2>2, <2>3 DEF Copy
  <2>6. KeyStaysHome'
    BY <2>1, <2>2, <2>3
  <2> QED BY <2>4, <2>5, <2>6
<1>3a. ASSUME NEW c \in Call, NEW a \in Address, Status(c, a) PROVE HomeParts'
  <2>1. \A d \in Call : doing'[d] = (IF d = c THEN "remember" ELSE doing[d])
                     /\ (d # c => note'[d] = note[d])
    BY <1>3a DEF Status
  <2>2. doing[c] = "idle" /\ UNCHANGED <<draft, disk, reasons>>
    BY <1>3a DEF Status
  <2>3. ~foreign => Alone' /\ Home(Draft)' /\ Home(disk)'
    BY <2>1, <2>2 DEF Copy
  <2>4. ~foreign => \A d \in Call : HomeCopy(d)'
    BY <2>1, <2>2 DEF Copy
  <2>5. KeyStaysHome'
    BY <2>1, <2>2
  <2> QED BY <2>2, <2>3, <2>4, <2>5
<1>4. ASSUME NEW c \in Call, Commit(c) PROVE HomeParts'
  <2>1. doing[c] = "commit" /\ UNCHANGED <<files, endpoints, last, disk, op, note, reasons>>
    BY <1>4 DEF Commit
  <2>2. \A d \in Call : doing'[d] = (IF d = c THEN "save" ELSE doing[d])
    BY <1>4 DEF Commit
  <2>3. \A d \in Call : Saving(d)' <=> Saving(d)
    BY <2>1, <2>2
  <2>4. ~foreign => Alone' /\ Home(Draft)' /\ Home(disk)'
    BY <2>1, <2>3 DEF Copy
  <2>5. ~foreign => \A d \in Call : HomeCopy(d)'
    BY <2>1, <2>2 DEF Copy
  <2>6. KeyStaysHome'
    BY <2>1, <2>2
  <2> QED BY <2>1, <2>4, <2>5, <2>6
<1>5. ASSUME NEW c \in Call, Reconnect(c) \/ Dial(c) PROVE HomeParts'
  <2>1. CASE Reconnect(c)
    <3>1. \A d \in Call : doing'[d] = (IF d = c THEN "dial" ELSE doing[d])
                       /\ note'[d] = (IF d = c THEN Draft ELSE note[d])
      BY <2>1 DEF Reconnect
    <3>2. Valid(files) /\ UNCHANGED <<draft, disk, reasons>>
      BY <2>1 DEF Reconnect
    <3>3. \A d \in Call : Saving(d)' <=> Saving(d)
      BY <2>1, <3>1 DEF Reconnect
    <3>4. ~foreign => Alone' /\ Home(Draft)' /\ Home(disk)'
      BY <3>2, <3>3 DEF Copy
    <3>5. ~foreign => \A d \in Call : HomeCopy(d)'
      BY <3>1, <3>2 DEF Copy
    <3>6. KeyStaysHome'
      <4>1. foreign \/ endpoints = {} \/ endpoints = ListOf[files]
        BY <3>2 DEF Copy, Valid
      <4>2. foreign \/ Draft.endpoints = {} \/ Dialled(Draft) = ListOf[Draft.files]
        BY <4>1 DEF Copy
      <4>3. ASSUME NEW d \in Call, doing'[d] = "dial", ~foreign
            PROVE  \/ Dialled(note'[d]) = ListOf[note'[d].files]
                   \/ note'[d].endpoints = {}
        <5>1. CASE d = c
          <6>1. note'[d] = Draft
            BY <3>1, <5>1
          <6> HIDE DEF Draft, Dialled
          <6> QED BY <6>1, <4>2, <4>3
        <5>2. CASE d # c
          <6>1. doing[d] = "dial" /\ note'[d] = note[d]
            BY <3>1, <4>3, <5>2
          <6> HIDE DEF Dialled
          <6> QED BY <6>1, <4>3
        <5> QED BY <5>1, <5>2
      <4>4. foreign' = foreign
        BY <3>2
      <4> HIDE DEF Dialled, Draft
      <4>5. ASSUME NEW d \in Call, doing'[d] = "dial"
            PROVE  \/ Dialled(note[d])' = ListOf[note'[d].files]
                   \/ note'[d].endpoints = {}
                   \/ foreign'
        <5>1. Dialled(note[d])' = Dialled(note'[d])
          BY DEF Dialled
        <5> QED BY <4>3, <4>4, <4>5, <5>1
      <4> QED BY <4>5
    <3> QED BY <3>2, <3>4, <3>5, <3>6
  <2>2. CASE Dial(c)
    <3>1. \A d \in Call : doing'[d] = (IF d = c THEN "idle" ELSE doing[d])
                       /\ (d # c => note'[d] = note[d])
      BY <2>2 DEF Dial
    <3>2. doing[c] = "dial" /\ UNCHANGED <<draft, disk, reasons>>
      BY <2>2 DEF Dial
    <3>3. ~foreign => Alone' /\ Home(Draft)' /\ Home(disk)'
      BY <3>1, <3>2 DEF Copy
    <3>4. ~foreign => \A d \in Call : HomeCopy(d)'
      BY <3>1, <3>2 DEF Copy
    <3>5. KeyStaysHome'
      <4>1. \A d \in Call : doing'[d] = "dial" => doing[d] = "dial" /\ note'[d] = note[d]
        BY <3>1
      <4>2. foreign' = foreign
        BY <3>2
      <4> QED BY <4>1, <4>2
    <3> QED BY <3>2, <3>3, <3>4, <3>5
  <2> QED BY <1>5, <2>1, <2>2
<1>6. ASSUME NEW c \in Call, RememberEndpoint(c) PROVE HomeParts'
  <2>1. CASE note[c].server = last \/ ~Listed(note[c].server)
    <3>1. \A d \in Call : doing'[d] = (IF d = c THEN "idle" ELSE doing[d])
                       /\ (d # c => note'[d] = note[d])
      BY <1>6, <2>1 DEF RememberEndpoint
    <3>2. UNCHANGED <<draft, disk, reasons>>
      BY <1>6, <2>1 DEF RememberEndpoint
    <3>3. ~foreign => Alone' /\ Home(Draft)' /\ Home(disk)'
      BY <3>1, <3>2 DEF Copy
    <3>4. ~foreign => \A d \in Call : HomeCopy(d)'
      BY <3>1, <3>2 DEF Copy
    <3>5. KeyStaysHome'
      BY <3>1, <3>2
    <3> QED BY <3>2, <3>3, <3>4, <3>5
  <2>2. CASE ~(note[c].server = last \/ ~Listed(note[c].server))
    <3>1. \A d \in Call : doing'[d] = (IF d = c THEN "save" ELSE doing[d])
                       /\ (d # c => note'[d] = note[d])
      BY <1>6, <2>2 DEF RememberEndpoint
    <3>2. note'[c].files = files
      BY <1>6, <2>2 DEF RememberEndpoint, Copy
    <3>3. /\ UNCHANGED <<files, server, endpoints, disk>>
          /\ foreign' = (foreign \/ \E d \in Call \ {c} : Saving(d))
      BY <1>6, <2>2 DEF RememberEndpoint
    <3>4. ~foreign' => ~foreign /\ \A d \in Call \ {c} : ~Saving(d)
      BY <3>3
    <3>5. ~foreign' => Alone' /\ Home(Draft)' /\ Home(disk)'
      BY <3>1, <3>3, <3>4 DEF Copy
    <3>6. ~foreign' => \A d \in Call : HomeCopy(d)'
      BY <3>1, <3>2, <3>3, <3>4 DEF Copy
    <3>7. KeyStaysHome'
      BY <3>1, <3>3, <3>4
    <3> QED BY <3>5, <3>6, <3>7
  <2> QED BY <2>1, <2>2
<1>7. ASSUME NEW c \in Call, ReadEndpoints(c) PROVE HomeParts'
  BY <1>7 DEF ReadEndpoints, Copy
<1>8. ASSUME NEW c \in Call, Save(c) PROVE HomeParts'
  <2>1. \A d \in Call : d # c => doing'[d] = doing[d] /\ note'[d] = note[d]
    BY <1>8 DEF Save
  <2>2. /\ doing'[c] \in {"dial", "idle"} /\ UNCHANGED <<draft, foreign>>
        /\ doing'[c] = "dial" => note'[c].endpoints = {}
    BY <1>8 DEF Save, Copy
  <2>3. disk' = disk \/ disk' = note[c]
    BY <1>8 DEF Save
  <2>4. doing[c] = "write" /\ (~foreign => Home(note[c]))
    BY <1>8 DEF Save
  <2>5. ~foreign => Alone' /\ Home(Draft)' /\ Home(disk)'
    BY <2>1, <2>2, <2>3, <2>4 DEF Copy
  <2>6. KeyStaysHome'
    BY <2>1, <2>2
  <2>7. ~foreign => \A d \in Call :
                /\ doing'[d] \in {"commit", "save"} =>
                      Home(Copy(note[d].files, note[d].server, endpoints, last))'
                /\ doing'[d] = "write" => Home(note'[d])
    BY <2>1, <2>2 DEF Copy
  <2> QED BY <2>2, <2>5, <2>6, <2>7
<1>10. CASE NewApp
  BY <1>10 DEF NewApp, Blank, Copy
<1>11. CASE UNCHANGED draftVars
  BY <1>11 DEF draftVars
<1> QED BY <1>1, <1>2, <1>3, <1>3a, <1>4, <1>5, <1>6, <1>7, <1>8, <1>10, <1>11 DEF DraftNext

DraftInv == Types /\ SavedParts /\ HomeParts /\ ListedParts

LEMMA DraftInvAlways == DraftSpec => []DraftInv
<1>1. DraftInit => DraftInv
  <2> SUFFICES ASSUME DraftInit PROVE DraftInv
    OBVIOUS
  <2>1. Types
    BY BlankIn DEF DraftInit, Types, Fields
  <2> QED BY <2>1 DEF DraftInit, DraftInv, SavedParts, HomeParts, ListedParts, Alone, Held, Saving,
                      SavedIsDraft, KeyStaysHome, RememberedIsListed, Home, HomeCopy, Draft,
                      Copy, Blank
<1>2. DraftInv /\ [DraftNext]_draftVars => DraftInv'
  BY TypesStep, SavedStep, HomeStep, ListedStep DEF DraftInv
<1> QED BY <1>1, <1>2, PTL DEF DraftSpec

(* The backend's draft, its snapshots and the saved profile keep their types
   (app.go:118). *)
THEOREM DraftTypeCorrect == DraftSpec => []DraftTypeOK
<1>1. DraftInv => DraftTypeOK
  BY TypesAre DEF DraftInv
<1> QED BY <1>1, DraftInvAlways, PTL

(* When nobody is saving, what NewApp would load is the draft (app.go:171), for any
   number of profiles, addresses and concurrent calls. *)
THEOREM SavedProfileIsDraft == DraftSpec => []SavedIsDraft
<1>1. DraftInv => SavedIsDraft
  BY DEF DraftInv, SavedParts
<1> QED BY <1>1, DraftInvAlways, PTL

(* Reconnect (app.go:440) dials a profile's own list with the key of that profile. *)
THEOREM KeyGoesHome == DraftSpec => []KeyStaysHome
<1>1. DraftInv => KeyStaysHome
  BY DEF DraftInv, HomeParts
<1> QED BY <1>1, DraftInvAlways, PTL

(* rememberEndpoint (app.go:209) and ImportProfileBundle (app.go:361) leave only an
   address that the profile lists. *)
THEOREM RememberedEndpointIsListed == DraftSpec => []RememberedIsListed
<1>1. DraftInv => RememberedIsListed
  BY DEF DraftInv, ListedParts
<1> QED BY <1>1, DraftInvAlways, PTL
=============================================================================
