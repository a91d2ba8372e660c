----------------------- MODULE ClientSession_proofs -----------------------
(***************************************************************************)
(* Theorems about ClientSession, for every setting of its constants.  The  *)
(* inductive invariant says where each goroutine can be (Places), that a   *)
(* nil on its way to runSession was caused by the caller (NilsCaused),     *)
(* that the writer's lock is exactly the place "write" (LockIsWrite) and   *)
(* that the error channel holds at most one result per finished goroutine  *)
(* (Room).                                                                 *)
(***************************************************************************)
EXTENDS ClientSession, SequenceTheorems, TLAPS

Places ==
    /\ st["reader"] \in {"arm", "read", "tun", "done"} \cup Results
    /\ \A w \in Writers : st[w] \in {"select", "lock", "write", "done"} \cup Results
    /\ main \in {"closing", "returned"} => \A g \in G : st[g] = "done"

(* Only TakeDeviceDeath makes a device death: no goroutine reports one. *)
NoFalseDeath ==
    /\ \A g \in G : st[g] # "fatalDevice"
    /\ \A i \in 1..Len(errCh) : errCh[i] # "fatalDevice"

NilsCaused ==
    main = "select" /\ ~parent =>
        /\ \A g \in G : st[g] # "nil"
        /\ \A i \in 1..Len(errCh) : errCh[i] # "nil"

LockIsWrite == \A w \in Writers : At(w, "write") <=> wmu = w

Finished(g) == IF st[g] = "done" THEN 1 ELSE 0
Room == Len(errCh) <= Finished("reader") + Finished("pump") + Finished("keepalive")

\* Every step that belongs to one goroutine alone, or to the surroundings,
\* leaves runSession's own variables and the channel as they are.
GoroutineStep == Reader \/ \E w \in Writers : Writer(w)

LEMMA GoroutineFrame ==
    GoroutineStep => UNCHANGED <<parent, main, verdict, dev, link, sends, reads, errCh>>
<1> SUFFICES ASSUME GoroutineStep
             PROVE  UNCHANGED <<parent, main, verdict, dev, link, sends, reads, errCh>>
  OBVIOUS
<1> USE DEF mainVars, peerVars
<1>1. CASE Reader
  BY <1>1 DEF Reader, Arm, ReadData, ReadKeepalive, ReadError, ReadFails, TunWriteOK, TunWriteFails
<1>2. ASSUME NEW w \in Writers, Writer(w)
      PROVE  UNCHANGED <<parent, main, verdict, dev, link, sends, reads, errCh>>
  BY <1>2 DEF Writer, Wake, StopWriter, Lock, WriteOK, WriteFails
<1> QED BY <1>1, <1>2 DEF GoroutineStep

LEMMA TypeStep == TypeOK /\ [Next]_vars => TypeOK'
<1> SUFFICES ASSUME TypeOK, [Next]_vars PROVE TypeOK'
  OBVIOUS
<1> USE DEF TypeOK, At, Go, G, Writers, Results, Deadlines, mainVars, peerVars
<1>1. CASE Reader
  BY <1>1 DEF Reader, Receive, Arm, ReadData, ReadKeepalive, ReadError, ReadFails, TunWriteOK, TunWriteFails
<1>2. ASSUME NEW w \in Writers, Writer(w) PROVE TypeOK'
  BY <1>2 DEF Writer, Wake, StopWriter, Lock, WriteOK, WriteFails
<1>3. ASSUME NEW g \in G, Send(g) PROVE TypeOK'
  BY <1>3 DEF Send, Returned
<1>4. CASE TakeResult
  <2>0. errCh \in Seq(Results) /\ errCh # <<>>
    BY <1>4 DEF TakeResult
  <2>1. Head(errCh) \in Results /\ Tail(errCh) \in Seq(Results)
    BY <2>0, HeadTailProperties
  <2>2. verdict' \in Results /\ errCh' \in Seq(Results)
    BY <1>4, <2>1 DEF TakeResult
  <2>3. /\ main' = "cancelled"
        /\ UNCHANGED <<parent, dev, link, sends, reads, st, armed, rdl, wdl, wmu>>
    BY <1>4 DEF TakeResult
  <2> QED BY <2>2, <2>3
<1>5. CASE TakeDeviceDeath \/ TakeCancel \/ Unpark \/ Join \/ CloseConn
  BY <1>5 DEF TakeDeviceDeath, TakeCancel, Unpark, Join, CloseConn
<1>6. CASE Cancel \/ DeviceDies
  <2>1. UNCHANGED <<main, verdict, link, sends, reads, st, errCh, armed, rdl, wdl, wmu>>
    BY <1>6 DEF Cancel, DeviceDies
  <2>2. parent' \in BOOLEAN /\ dev' \in {"alive", "reported", "taken"}
    BY <1>6 DEF Cancel, DeviceDies
  <2> QED BY <2>1, <2>2
<1>8. CASE PeerChanges
  <2>1. UNCHANGED <<parent, main, verdict, dev, st, errCh, armed, rdl, wdl, wmu>>
    BY <1>8 DEF PeerChanges
  <2>2. link' \in BOOLEAN /\ sends' \in BOOLEAN /\ reads' \in BOOLEAN
    BY <1>8 DEF PeerChanges
  <2> QED BY <2>1, <2>2
<1>7. CASE UNCHANGED vars
  BY <1>7 DEF vars
<1> QED BY <1>1, <1>2, <1>3, <1>4, <1>5, <1>6, <1>7, <1>8 DEF Next, Main

LEMMA TypeInit == Init => TypeOK
<1> SUFFICES ASSUME Init PROVE TypeOK
  OBVIOUS
<1>1. st \in [G -> {"arm", "read", "tun", "select", "lock", "write", "done"} \cup Results]
  BY SessionAssumption DEF Init, G, SessionAssumption
<1>2. errCh \in Seq(Results)
  BY DEF Init
<1> QED BY <1>1, <1>2 DEF Init, TypeOK, Results, Deadlines, Writers

(* runSession always holds its verdict once it has left the select, and every
   other variable keeps to its range. *)
THEOREM SessionTypeCorrect == Spec => []TypeOK
BY TypeInit, TypeStep, PTL DEF Spec

-----------------------------------------------------------------------------
(* The results that travel: what a goroutine has returned and what the channel
   holds.  A step adds a nil only when the session context is done. *)
LEMMA AppendedResult ==
    ASSUME NEW q \in Seq(Results), NEW r \in Results, NEW bad, r # bad,
           \A i \in 1..Len(q) : q[i] # bad
    PROVE  \A i \in 1..Len(Append(q, r)) : Append(q, r)[i] # bad
<1>1. Len(Append(q, r)) = Len(q) + 1 /\ Len(q) \in Nat
  BY AppendProperties
<1> SUFFICES ASSUME NEW i \in 1..(Len(q) + 1) PROVE Append(q, r)[i] # bad
  BY <1>1
<1>2. CASE i \in 1..Len(q)
  BY <1>2, AppendProperties
<1>3. CASE i = Len(q) + 1
  BY <1>3, AppendProperties
<1> QED BY <1>1, <1>2, <1>3

LEMMA TakenResult ==
    ASSUME NEW q \in Seq(Results), q # <<>>, NEW bad,
           \A i \in 1..Len(q) : q[i] # bad
    PROVE  /\ Head(q) # bad
           /\ \A i \in 1..Len(Tail(q)) : Tail(q)[i] # bad
           /\ Len(Tail(q)) = Len(q) - 1 /\ Len(q) >= 1
<1>1. Len(q) \in Nat /\ Len(q) >= 1 /\ Head(q) = q[1]
  OBVIOUS
<1>2. Len(Tail(q)) = Len(q) - 1 /\ \A i \in 1..Len(Tail(q)) : Tail(q)[i] = q[i + 1]
  BY HeadTailProperties
<1>3. \A i \in 1..Len(Tail(q)) : i + 1 \in 1..Len(q)
  BY <1>1, <1>2
<1> QED BY <1>1, <1>2, <1>3

LEMMA PlacesStep == TypeOK /\ Places /\ [Next]_vars => Places'
<1> SUFFICES ASSUME TypeOK, Places, [Next]_vars PROVE Places'
  OBVIOUS
<1> USE DEF TypeOK, Places, At, Go, G, Writers, Results
<1>0. "done" \notin {"arm", "read", "tun", "select", "lock", "write"} \cup Results
  OBVIOUS
<1>1. CASE Reader
  BY <1>1 DEF Reader, Receive, Arm, ReadData, ReadKeepalive, ReadError, ReadFails,
             TunWriteOK, TunWriteFails, mainVars
<1>2. ASSUME NEW w \in Writers, Writer(w) PROVE Places'
  BY <1>2 DEF Writer, Wake, StopWriter, Lock, WriteOK, WriteFails, mainVars
<1>3. ASSUME NEW g \in G, Send(g) PROVE Places'
  BY <1>3 DEF Send, Returned, mainVars
<1>4. CASE Main
  BY <1>4 DEF Main, TakeResult, TakeDeviceDeath, TakeCancel, Unpark, Join, CloseConn
<1>5. CASE Cancel \/ DeviceDies \/ PeerChanges
  BY <1>5 DEF Cancel, DeviceDies, PeerChanges, mainVars
<1>6. CASE UNCHANGED vars
  BY <1>6 DEF vars
<1> QED BY <1>1, <1>2, <1>3, <1>4, <1>5, <1>6 DEF Next

LEMMA LockStep == TypeOK /\ Places /\ LockIsWrite /\ [Next]_vars => LockIsWrite'
<1> SUFFICES ASSUME TypeOK, Places, LockIsWrite, [Next]_vars PROVE LockIsWrite'
  OBVIOUS
<1> USE DEF TypeOK, LockIsWrite, At, Go, G, Writers, Results
<1>1. CASE Reader
  BY <1>1 DEF Reader, Receive, Arm, ReadData, ReadKeepalive, ReadError, ReadFails,
             TunWriteOK, TunWriteFails
<1>2. ASSUME NEW w \in Writers, Writer(w) PROVE LockIsWrite'
  BY <1>2 DEF Writer, Wake, StopWriter, Lock, WriteOK, WriteFails
<1>3. ASSUME NEW g \in G, Send(g) PROVE LockIsWrite'
  BY <1>3 DEF Send, Returned
<1>4. CASE Main \/ Cancel \/ DeviceDies \/ PeerChanges \/ UNCHANGED vars
  <2>1. UNCHANGED <<st, wmu>>
    BY <1>4 DEF Main, TakeResult, TakeDeviceDeath, TakeCancel, Unpark, Join, CloseConn,
               Cancel, DeviceDies, PeerChanges, vars
  <2> QED BY <2>1
<1> QED BY <1>1, <1>2, <1>3, <1>4 DEF Next

(* Each finished goroutine has put at most one result into the channel. *)
LEMMA RoomStep == TypeOK /\ Places /\ Room /\ [Next]_vars => Room'
<1> SUFFICES ASSUME TypeOK, Places, Room, [Next]_vars PROVE Room'
  OBVIOUS
<1> USE DEF Finished, At, Go
<1>t. st \in [G -> {"arm", "read", "tun", "select", "lock", "write", "done"} \cup Results]
      /\ Len(errCh) \in Nat
  BY DEF TypeOK
<1>1. ASSUME GoroutineStep PROVE Room'
  <2>1. errCh' = errCh
    BY <1>1, GoroutineFrame
  <2>2. \A g \in G : st[g] = "done" => st'[g] = "done"
    BY <1>1, <1>t DEF GoroutineStep, Reader, Receive, Arm, ReadData, ReadKeepalive, ReadError,
         ReadFails, TunWriteOK, TunWriteFails, Writer, Wake, StopWriter, Lock, WriteOK,
         WriteFails, G, Writers
  <2> QED BY <2>1, <2>2, <1>t DEF Room, G
<1>2. ASSUME NEW g \in G, Send(g) PROVE Room'
  <2>1. st[g] \in Results /\ st[g] # "done"
    BY <1>2 DEF Send, Returned, Results
  <2>2. st' = [st EXCEPT ![g] = "done"]
    BY <1>2 DEF Send
  <2>3. Len(errCh') = Len(errCh) + 1
    BY <1>2, <2>1, AppendProperties DEF Send, TypeOK
  <2> QED BY <2>1, <2>2, <2>3, <1>t DEF Room, G
<1>3. CASE TakeResult
  <2>1. errCh \in Seq(Results) /\ errCh # <<>> /\ errCh' = Tail(errCh) /\ st' = st
    BY <1>3 DEF TakeResult, TypeOK
  <2>2. Len(errCh') = Len(errCh) - 1
    BY <2>1, HeadTailProperties
  <2> QED BY <2>1, <2>2, <1>t DEF Room, G
<1>4. CASE \/ TakeDeviceDeath \/ TakeCancel \/ Unpark \/ Join \/ CloseConn
           \/ Cancel \/ DeviceDies \/ PeerChanges \/ UNCHANGED vars
  <2>1. UNCHANGED <<st, errCh>>
    BY <1>4 DEF TakeDeviceDeath, TakeCancel, Unpark, Join, CloseConn,
               Cancel, DeviceDies, PeerChanges, vars
  <2> QED BY <2>1 DEF Room
<1> QED BY <1>1, <1>2, <1>3, <1>4 DEF Next, Main, GoroutineStep

LEMMA NoFalseDeathStep == TypeOK /\ NoFalseDeath /\ [Next]_vars => NoFalseDeath'
<1> SUFFICES ASSUME TypeOK, NoFalseDeath, [Next]_vars PROVE NoFalseDeath'
  OBVIOUS
<1> USE DEF At, Go
<1>t. /\ st \in [G -> {"arm", "read", "tun", "select", "lock", "write", "done"} \cup Results]
      /\ errCh \in Seq(Results)
  BY DEF TypeOK
<1>1. ASSUME GoroutineStep PROVE NoFalseDeath'
  <2>1. errCh' = errCh
    BY <1>1, GoroutineFrame
  <2>2. \A g \in G : st'[g] # "fatalDevice"
    BY <1>1, <1>t DEF NoFalseDeath, GoroutineStep, Reader, Receive, Arm, ReadData, ReadKeepalive,
         ReadError, ReadFails, TunWriteOK, TunWriteFails, Writer, Wake, StopWriter, Lock,
         WriteOK, WriteFails, G, Writers
  <2> QED BY <2>1, <2>2 DEF NoFalseDeath
<1>2. ASSUME NEW g \in G, Send(g) PROVE NoFalseDeath'
  <2>1. st[g] \in Results /\ st[g] # "fatalDevice"
    BY <1>2 DEF Send, Returned, NoFalseDeath
  <2>2. st' = [st EXCEPT ![g] = "done"] /\ errCh' = Append(errCh, st[g])
    BY <1>2 DEF Send
  <2>3. \A i \in 1..Len(errCh') : errCh'[i] # "fatalDevice"
    BY <2>1, <2>2, <1>t, AppendedResult DEF NoFalseDeath
  <2> QED BY <2>2, <2>3, <1>t DEF NoFalseDeath, G
<1>3. CASE TakeResult
  <2>1. errCh # <<>> /\ errCh' = Tail(errCh) /\ st' = st
    BY <1>3 DEF TakeResult
  <2>2. \A i \in 1..Len(errCh') : errCh'[i] # "fatalDevice"
    BY <2>1, <1>t, TakenResult DEF NoFalseDeath
  <2> QED BY <2>1, <2>2 DEF NoFalseDeath
<1>4. CASE \/ TakeDeviceDeath \/ TakeCancel \/ Unpark \/ Join \/ CloseConn
           \/ Cancel \/ DeviceDies \/ PeerChanges \/ UNCHANGED vars
  <2>1. UNCHANGED <<st, errCh>>
    BY <1>4 DEF TakeDeviceDeath, TakeCancel, Unpark, Join, CloseConn,
               Cancel, DeviceDies, PeerChanges, vars
  <2> QED BY <2>1 DEF NoFalseDeath
<1> QED BY <1>1, <1>2, <1>3, <1>4 DEF Next, Main, GoroutineStep

LEMMA DeathKeptStep ==
    TypeOK /\ NoFalseDeath /\ DeviceDeathIsKept /\ [Next]_vars => DeviceDeathIsKept'
<1> SUFFICES ASSUME TypeOK, NoFalseDeath, DeviceDeathIsKept, [Next]_vars PROVE DeviceDeathIsKept'
  OBVIOUS
<1>1. ASSUME GoroutineStep PROVE DeviceDeathIsKept'
  BY <1>1, GoroutineFrame DEF DeviceDeathIsKept
<1>2. CASE TakeResult
  <2>1. errCh \in Seq(Results) /\ errCh # <<>>
    BY <1>2 DEF TakeResult, TypeOK
  <2>2. Head(errCh) # "fatalDevice"
    BY <2>1, TakenResult DEF NoFalseDeath
  <2>3. verdict' = Head(errCh) /\ dev' = dev /\ verdict = "unset"
    BY <1>2 DEF TakeResult, TypeOK
  <2> QED BY <2>2, <2>3 DEF DeviceDeathIsKept
<1>3. CASE TakeDeviceDeath
  BY <1>3 DEF TakeDeviceDeath, DeviceDeathIsKept
<1>4. CASE TakeCancel
  BY <1>4 DEF TakeCancel, DeviceDeathIsKept, TypeOK
<1>5. CASE \/ (\E g \in G : Send(g)) \/ Unpark \/ Join \/ CloseConn \/ Cancel
           \/ PeerChanges \/ UNCHANGED vars
  <2>1. UNCHANGED <<verdict, dev>>
    BY <1>5 DEF Send, Unpark, Join, CloseConn, Cancel, PeerChanges, mainVars, vars
  <2> QED BY <2>1 DEF DeviceDeathIsKept
<1>6. CASE DeviceDies
  BY <1>6 DEF DeviceDies, DeviceDeathIsKept
<1> QED BY <1>1, <1>2, <1>3, <1>4, <1>5, <1>6 DEF Next, Main, GoroutineStep

LEMMA NilsCausedStep == TypeOK /\ NilsCaused /\ [Next]_vars => NilsCaused'
<1> SUFFICES ASSUME TypeOK, NilsCaused, [Next]_vars, main' = "select", ~parent'
             PROVE  /\ \A g \in G : st'[g] # "nil"
                    /\ \A i \in 1..Len(errCh') : errCh'[i] # "nil"
  BY DEF NilsCaused
<1> USE DEF At, Go
<1>t. /\ st \in [G -> {"arm", "read", "tun", "select", "lock", "write", "done"} \cup Results]
      /\ errCh \in Seq(Results)
  BY DEF TypeOK
<1>0. ~Main /\ ~Cancel
  BY DEF Main, TakeResult, TakeDeviceDeath, TakeCancel, Unpark, Join, CloseConn, Cancel
<1>1. ASSUME GoroutineStep
      PROVE  (\A g \in G : st'[g] # "nil") /\ errCh' = errCh /\ main = "select" /\ ~parent
  <2>1. errCh' = errCh /\ main = "select" /\ ~parent
    BY <1>1, GoroutineFrame
  <2>2. \A g \in G : st'[g] # "nil"
    BY <1>1, <2>1, <1>t DEF NilsCaused, SessionDone, GoroutineStep, Reader, Receive, Arm, ReadData,
         ReadKeepalive, ReadError, ReadFails, TunWriteOK, TunWriteFails, Writer, Wake, StopWriter,
         Lock, WriteOK, WriteFails, G, Writers
  <2> QED BY <2>1, <2>2
<1>2. ASSUME NEW h \in G, Send(h)
      PROVE  /\ \A g \in G : st'[g] # "nil"
             /\ \A i \in 1..Len(errCh') : errCh'[i] # "nil"
  <2>1. main = "select" /\ ~parent
    BY <1>2 DEF Send, mainVars
  <2>2. st[h] \in Results /\ st[h] # "nil"
    BY <1>2, <2>1 DEF Send, Returned, NilsCaused
  <2>3. st' = [st EXCEPT ![h] = "done"] /\ errCh' = Append(errCh, st[h])
    BY <1>2 DEF Send
  <2>4. \A i \in 1..Len(errCh') : errCh'[i] # "nil"
    BY <2>1, <2>2, <2>3, <1>t, AppendedResult DEF NilsCaused
  <2> QED BY <2>1, <2>3, <2>4, <1>t DEF NilsCaused, G
<1>3. CASE DeviceDies \/ PeerChanges \/ UNCHANGED vars
  <2>1. UNCHANGED <<parent, main, st, errCh>>
    BY <1>3 DEF DeviceDies, PeerChanges, mainVars, vars
  <2> QED BY <2>1 DEF NilsCaused
<1> QED BY <1>0, <1>1, <1>2, <1>3 DEF Next, GoroutineStep, NilsCaused

LEMMA VerdictStep ==
    TypeOK /\ NilsCaused /\ NilMeansCancelled /\ [Next]_vars => NilMeansCancelled'
<1> SUFFICES ASSUME TypeOK, NilsCaused, NilMeansCancelled, [Next]_vars PROVE NilMeansCancelled'
  OBVIOUS
<1>1. ASSUME GoroutineStep PROVE NilMeansCancelled'
  BY <1>1, GoroutineFrame DEF NilMeansCancelled
<1>2. CASE TakeResult
  <2>1. main = "select" /\ errCh \in Seq(Results) /\ errCh # <<>>
    BY <1>2 DEF TakeResult, TypeOK
  <2>2. ~parent => Head(errCh) # "nil"
    BY <2>1, TakenResult DEF NilsCaused
  <2>3. verdict' = Head(errCh) /\ parent' = parent
    BY <1>2 DEF TakeResult
  <2> QED BY <2>2, <2>3 DEF NilMeansCancelled
<1>3. CASE TakeDeviceDeath \/ TakeCancel \/ Cancel
  BY <1>3 DEF TakeDeviceDeath, TakeCancel, Cancel, NilMeansCancelled
<1>4. CASE \/ (\E g \in G : Send(g)) \/ Unpark \/ Join \/ CloseConn \/ DeviceDies
           \/ PeerChanges \/ UNCHANGED vars
  <2>1. UNCHANGED <<verdict, parent>>
    BY <1>4 DEF Send, Unpark, Join, CloseConn, DeviceDies, PeerChanges, mainVars, vars
  <2> QED BY <2>1 DEF NilMeansCancelled
<1> QED BY <1>1, <1>2, <1>3, <1>4 DEF Next, Main, GoroutineStep

-----------------------------------------------------------------------------
Safe == /\ TypeOK /\ Places /\ LockIsWrite /\ Room
        /\ NoFalseDeath /\ DeviceDeathIsKept /\ NilsCaused /\ NilMeansCancelled

LEMMA SafeInit == Init => Safe
<1> SUFFICES ASSUME Init PROVE Safe
  OBVIOUS
<1>1. errCh = <<>> /\ Len(errCh) = 0
  BY DEF Init
<1>2. /\ st["reader"] = "arm" /\ st["pump"] = "select"
      /\ st["keepalive"] \in {"select", "done"}
  BY SessionAssumption DEF Init, G, SessionAssumption
<1>3. main = "select" /\ verdict = "unset" /\ wmu = "free" /\ dev \in {"alive", "reported"}
  BY DEF Init
<1>4. TypeOK
  BY TypeInit
<1>5. Places /\ LockIsWrite
  BY <1>2, <1>3 DEF Places, LockIsWrite, At, G, Writers
<1>6. Room
  BY <1>1, <1>2 DEF Room, Finished
<1>7. NoFalseDeath /\ NilsCaused
  BY <1>1, <1>2 DEF NoFalseDeath, NilsCaused, G
<1>8. DeviceDeathIsKept /\ NilMeansCancelled
  BY <1>3 DEF DeviceDeathIsKept, NilMeansCancelled
<1> QED BY <1>4, <1>5, <1>6, <1>7, <1>8 DEF Safe

LEMMA SafeStep == Safe /\ [Next]_vars => Safe'
BY TypeStep, PlacesStep, LockStep, RoomStep, NoFalseDeathStep, DeathKeptStep,
   NilsCausedStep, VerdictStep DEF Safe

LEMMA SafeSuffices ==
    Safe => /\ NilMeansCancelled /\ OneWriterAtATime /\ SendNeverBlocks
            /\ ConnNotUsedAfterClose /\ DeviceDeathIsKept
<1> SUFFICES ASSUME Safe PROVE /\ NilMeansCancelled /\ OneWriterAtATime /\ SendNeverBlocks
                               /\ ConnNotUsedAfterClose /\ DeviceDeathIsKept
  OBVIOUS
<1>1. NilMeansCancelled /\ DeviceDeathIsKept
  BY DEF Safe
<1>2. OneWriterAtATime
  BY DEF Safe, LockIsWrite, OneWriterAtATime, Writers
<1>3. ConnNotUsedAfterClose
  BY DEF Safe, Places, ConnNotUsedAfterClose, connClosed, At
<1>4. ASSUME NEW g \in G, Returned(g) PROVE Len(errCh) < ErrCap /\ main \notin {"closing", "returned"}
  <2>1. st[g] # "done"
    BY <1>4 DEF Returned, Results
  <2>2. main \notin {"closing", "returned"}
    BY <2>1 DEF Safe, Places
  <2>3. Len(errCh) <= 2
    BY <2>1 DEF Safe, TypeOK, Room, Finished, G
  <2> QED BY <2>2, <2>3 DEF ErrCap, Safe, TypeOK
<1> QED BY <1>1, <1>2, <1>3, <1>4 DEF SendNeverBlocks

(* runSession answers nil only when its caller cancelled, whatever the order in
   which goroutines, the device and the cancellation report. *)
THEOREM NilOnlyOnCancel == Spec => []NilMeansCancelled
<1>1. Safe => NilMeansCancelled
  BY DEF Safe
<1> QED BY <1>1, SafeInit, SafeStep, PTL DEF Spec

(* The error channel never blocks a goroutine and is never sent on after it is
   closed: its capacity is enough for every order of events. *)
THEOREM ResultsNeverBlock == Spec => []SendNeverBlocks
<1>1. Safe => SendNeverBlocks
  BY SafeSuffices
<1> QED BY <1>1, SafeInit, SafeStep, PTL DEF Spec

(* Frames do not interleave, and the connection outlives its users. *)
THEOREM ConnectionUsedSafely == Spec => []ConnUsedSafely
<1>1. Safe => ConnUsedSafely
  BY SafeSuffices DEF ConnUsedSafely
<1> QED BY <1>1, SafeInit, SafeStep, PTL DEF Spec

(* The death of the TUN device is either still in devDead or the verdict. *)
THEOREM DeathReported == Spec => []DeviceDeathIsKept
<1>1. Safe => DeviceDeathIsKept
  BY DEF Safe
<1> QED BY <1>1, SafeInit, SafeStep, PTL DEF Spec

-----------------------------------------------------------------------------
(* Refinement: a session is the session phase of the reconnect loop. *)

(* What the loop sees changes only when the session is decided, when the connection is
   closed, and with the surroundings. *)
LEMMA LoopFrame ==
    ASSUME main' = "select" <=> main = "select", connClosed' <=> connClosed,
           UNCHANGED <<parent, dev>>,
           main # "select" => UNCHANGED verdict
    PROVE  UNCHANGED Loop!vars
<1>1. Phase' = Phase /\ (IF connClosed THEN {0} ELSE {})' = IF connClosed THEN {0} ELSE {}
  BY DEF Phase
<1>2. (IF main = "select" THEN "nil" ELSE Told(verdict))'
          = IF main = "select" THEN "nil" ELSE Told(verdict)
  BY DEF Told
<1> QED BY <1>1, <1>2 DEF Loop!vars

(* The select is the loop's: for one of its reasons. *)
LEMMA SelectDecides == Safe /\ (TakeResult \/ TakeDeviceDeath \/ TakeCancel) => SessionPhase
<1> SUFFICES ASSUME Safe, TakeResult \/ TakeDeviceDeath \/ TakeCancel PROVE SessionPhase
  OBVIOUS
<1> USE DEF Told, Phase, connClosed, Loop!Verdict, Loop!vars, Loop!ring, Loop!ghosts
<1>1. main = "select" /\ main' = "cancelled" /\ UNCHANGED parent
  BY DEF TakeResult, TakeDeviceDeath, TakeCancel
<1>2. CASE TakeResult
  <2>1. errCh \in Seq(Results) /\ errCh # <<>> /\ verdict' = Head(errCh) /\ UNCHANGED dev
    BY <1>2 DEF Safe, TypeOK, TakeResult
  <2>2. Head(errCh) \in Results /\ Head(errCh) # "fatalDevice"
    BY <2>1, HeadTailProperties, TakenResult DEF Safe, NoFalseDeath
  <2>3. CASE verdict' = "nil"
    <3>1. parent
      BY <1>1, <2>1, <2>3, TakenResult DEF Safe, NilsCaused, TypeOK
    <3>2. Loop!SessionCancelled
      BY <1>1, <2>1, <2>3, <3>1 DEF Loop!SessionCancelled
    <3> QED BY <3>2 DEF SessionPhase
  <2>4. CASE verdict' # "nil"
    <3>1. Told(verdict') \in {"retry", "fatal"}
      BY <2>1, <2>2, <2>4 DEF Results
    <3>2. Loop!SessionFails(Told(verdict'))
      BY <1>1, <2>1, <3>1 DEF Loop!SessionFails
    <3>3. PICK e \in {"retry", "fatal"} : Loop!SessionFails(e)
      BY <3>1, <3>2
    <3> QED BY <3>3 DEF SessionPhase, Loop!Errors
  <2> QED BY <2>3, <2>4
<1>3. CASE TakeDeviceDeath
  <2>1. Loop!SessionLosesDevice
    BY <1>1, <1>3 DEF Loop!SessionLosesDevice, TakeDeviceDeath
  <2> QED BY <2>1 DEF SessionPhase
<1>4. CASE TakeCancel
  <2>1. Loop!SessionCancelled
    BY <1>1, <1>4 DEF Loop!SessionCancelled, TakeCancel
  <2> QED BY <2>1 DEF SessionPhase
<1> QED BY <1>2, <1>3, <1>4

(* Closing the connection is the end of the attempt, with what was decided. *)
LEMMA CloseEndsPhase == Safe /\ CloseConn => SessionPhase
<1> SUFFICES ASSUME Safe, CloseConn PROVE SessionPhase
  OBVIOUS
<1>1. main = "closing" /\ main' = "returned" /\ UNCHANGED <<parent, verdict, dev>>
  BY DEF CloseConn
<1>2. verdict \in Results
  BY <1>1 DEF Safe, TypeOK
<1>3. Told(verdict) # "suspect"
  BY <1>2 DEF Told, Results
<1>4. Loop!SessionReturns(FALSE)
  BY <1>1, <1>3 DEF Loop!SessionReturns, Loop!AttemptEnds, Loop!ring, Loop!env, Phase, connClosed,
                    Told
<1> QED BY <1>4 DEF SessionPhase

LEMMA PhaseStep == Safe /\ [Next]_vars => [SessionPhase]_(Loop!vars)
<1> SUFFICES ASSUME Safe, [Next]_vars PROVE [SessionPhase]_(Loop!vars)
  OBVIOUS
<1>1. CASE CloseConn
  BY <1>1, CloseEndsPhase
<1>2. CASE Cancel
  <2>1. ~parent /\ parent' /\ UNCHANGED <<main, verdict, dev>>
    BY <1>2 DEF Cancel
  <2>2. Loop!Cancel
    BY <2>1 DEF Loop!Cancel, Phase, connClosed, Told, Loop!ring, Loop!ghosts, Loop!outcome
  <2> QED BY <2>2 DEF SessionPhase
<1>3. CASE DeviceDies
  <2>1. dev = "alive" /\ dev' = "reported" /\ ~parent /\ UNCHANGED <<parent, main, verdict>>
    BY <1>3 DEF DeviceDies
  <2>2. Loop!DeviceDies
    BY <2>1 DEF Loop!DeviceDies, Phase, connClosed, Told, Loop!ring, Loop!ghosts, Loop!outcome
  <2> QED BY <2>2 DEF SessionPhase
<1>4. CASE TakeResult \/ TakeDeviceDeath \/ TakeCancel
  BY <1>4, SelectDecides
<1>5. CASE Unpark \/ Join
  <2>1. /\ main # "select" /\ main' # "select" /\ ~connClosed /\ ~connClosed'
        /\ UNCHANGED <<parent, verdict, dev>>
    BY <1>5 DEF Unpark, Join, connClosed
  <2> QED BY <2>1, LoopFrame
<1>6. CASE GoroutineStep \/ (\E g \in G : Send(g)) \/ PeerChanges \/ UNCHANGED vars
  <2>1. UNCHANGED <<main, verdict, parent, dev>>
    BY <1>6, GoroutineFrame DEF Send, PeerChanges, mainVars, vars
  <2> QED BY <2>1, LoopFrame DEF connClosed
<1> QED BY <1>1, <1>2, <1>3, <1>4, <1>5, <1>6 DEF Next, Main, GoroutineStep

(* The outcomes that ReconnectLoop gives a session are those that a session has: what
   is proved of the loop holds with ClientSession in the place of its session phase. *)
THEOREM SessionImplementsPhase == Spec => SessionOfLoop
BY SafeInit, SafeStep, PhaseStep, PTL DEF Spec, SessionOfLoop
=============================================================================
