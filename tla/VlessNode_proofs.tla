--------------------------- MODULE VlessNode_proofs ---------------------------
(***************************************************************************)
(* Theorems about VlessNode, for any names and credentials, and about      *)
(* BotProcess, for any number of updates, uploads and restarts.            *)
(***************************************************************************)
EXTENDS VlessNode, BotProcess, TLAPS

-----------------------------------------------------------------------------
(* VlessNode: types. *)

LEMMA IdsTyped ==
    ASSUME NEW S \in SUBSET (Name \X Uuid) PROVE IdsOf(S) \subseteq Uuid
BY DEF IdsOf

(* What an addition is for is a name. *)
Named == \A p \in Proc : Adding(p) => who[p] \in Name

LEMMA NamedStep == TypeOK /\ Named /\ [Next]_vars => Named'
<1> SUFFICES ASSUME TypeOK, Named, [Next]_vars PROVE Named'
  OBVIOUS
<1> USE VlessAssumption DEF TypeOK, Named, Adding, Proc, Put, Goto, Over, Begin, command, work
<1>1. CASE Command
  BY <1>1 DEF Command, ShellCommand, HandleMessage, HandleRevoke, CmdLink, Render, CmdInit
<1>2. CASE BotStep \/ Blank \/ PrintLink
  BY <1>2 DEF BotStep, IssueProfile, SendLink, Applied, NotApplied, Blank, PrintLink
<1>3. ASSUME NEW p \in Proc, Step(p) \/ Fail(p) PROVE Named'
  BY <1>3 DEF Step, Fail, Acquire, LoadToRemove, LoadToRender, Refuse, LoadToAdd, SaveList,
              SaveConfig
<1>4. CASE Script \/ Service
  BY <1>4 DEF Script, Service, ScriptStats, ScriptCompares, ScriptRestarts, ScriptEnds,
              PathFiresAgain, XrayStarts, XrayFails, XrayRestarts
<1>5. CASE UNCHANGED vars
  BY <1>5 DEF vars
<1> QED BY <1>1, <1>2, <1>3, <1>4, <1>5 DEF Next

LEMMA TypeStep == TypeOK /\ Named /\ [Next]_vars => TypeOK'
<1> SUFFICES ASSUME TypeOK, Named, [Next]_vars PROVE TypeOK'
  OBVIOUS
<1> USE VlessAssumption DEF TypeOK, Proc, Put, Goto, Over, Freed, Begin, files, command, work,
            service, ghosts
<1>1. CASE Command
  <2>1. ASSUME NEW n \in Name, NEW what \in {"add", "remove"}, ShellCommand(what, n) PROVE TypeOK'
    BY <2>1 DEF ShellCommand
  <2>2. ASSUME NEW n \in Name, NEW grant \in {"profile", "vless", "both"}, HandleMessage(grant, n)
        PROVE  TypeOK'
    BY <2>2 DEF HandleMessage
  <2>3. ASSUME NEW n \in Name, HandleRevoke(n) PROVE TypeOK'
    BY <2>3 DEF HandleRevoke
  <2>4. CASE Render
    BY <2>4 DEF Render
  <2>5. CASE CmdInit
    BY <2>5 DEF CmdInit
  <2>6. ASSUME NEW client \in list, CmdLink(client) PROVE TypeOK'
    <3>1. client[2] \in Uuid
      OBVIOUS
    <3> QED BY <2>6, <3>1 DEF CmdLink
  <2> QED BY <1>1, <2>1, <2>2, <2>3, <2>4, <2>5, <2>6 DEF Command
<1>1a. CASE PrintLink
  BY <1>1a DEF PrintLink
<1>2. CASE BotStep
  <2>1. CASE NotApplied
    BY <2>1 DEF NotApplied
  <2>1a. CASE IssueProfile
    <3>1. CASE Over(Bot)
      BY <2>1a, <3>1 DEF IssueProfile
    <3>2. CASE pc' = Put(pc, Bot, "lock") /\ UNCHANGED work
      BY <2>1a, <3>2 DEF IssueProfile
    <3> QED BY <2>1a, <3>1, <3>2 DEF IssueProfile
  <2>2. CASE SendLink
    BY <2>2 DEF SendLink
  <2>3. CASE Applied
    <3>1. dead' \subseteq Uuid
      BY <2>3 DEF Applied
    <3> QED BY <2>3, <3>1 DEF Applied
  <2> QED BY <1>2, <2>1, <2>1a, <2>2, <2>3 DEF BotStep
<1>3. CASE Blank
  <2>1. late' \in BOOLEAN /\ wiped' \in BOOLEAN
    BY <1>3, Zenon DEF Blank, Write
  <2> QED BY <1>3, <2>1 DEF Blank, Write
<1>4. ASSUME NEW p \in Proc, Fail(p) PROVE TypeOK'
  <2>1. /\ pc' \in [Proc -> {"idle", "profile", "blank", "lock", "load", "list", "config",
                            "send", "confirm", "print"}]
        /\ op' \in [Proc -> {"none", "add", "remove", "link", "render", "init", "profile", "vless",
                            "both", "revoke"}]
        /\ who' \in [Proc -> Name \cup {None}] /\ padded' \in [Proc -> BOOLEAN]
        /\ copy' \in [Proc -> SUBSET (Name \X Uuid)] /\ ids' \in [Proc -> SUBSET Uuid]
    BY <1>4 DEF Fail
  <2>2. cut' \subseteq Uuid /\ unwritten' \subseteq Uuid /\ lock' \in Proc \cup {None}
    BY <1>4 DEF Fail
  <2> QED BY <1>4, <2>1, <2>2 DEF Fail
<1>5. ASSUME NEW p \in Proc, Step(p) PROVE TypeOK'
  <2>1. CASE Acquire(p)
    BY <2>1 DEF Acquire
  <2>2. CASE LoadToRemove(p)
    <3>1. Matching(p) \subseteq list /\ IdsOf(Matching(p)) \subseteq Uuid
      BY IdsTyped DEF Matching
    <3> QED BY <2>2, <3>1 DEF LoadToRemove
  <2>3. CASE LoadToRender(p)
    BY <2>3 DEF LoadToRender
  <2>3a. CASE Refuse(p)
    BY <2>3a DEF Refuse
  <2>4. ASSUME NEW id \in Uuid, LoadToAdd(p, id) PROVE TypeOK'
    <3>1. who[p] \in Name /\ <<who[p], id>> \in Name \X Uuid
      BY <2>4 DEF LoadToAdd, Named
    <3>2. list \cup {<<who[p], id>>} \subseteq Name \X Uuid
      BY <3>1
    <3>3. /\ copy' \in [Proc -> SUBSET (Name \X Uuid)] /\ ids' \in [Proc -> SUBSET Uuid]
          /\ pc' \in [Proc -> {"idle", "profile", "blank", "lock", "load", "list", "config",
                              "send", "confirm", "print"}]
          /\ minted' \subseteq Uuid
      BY <2>4, <3>2 DEF LoadToAdd
    <3> QED BY <2>4, <3>3 DEF LoadToAdd
  <2>5. CASE SaveList(p)
    BY <2>5 DEF SaveList
  <2>6. CASE SaveConfig(p)
    <3>1. IdsOf(copy[p]) \subseteq Uuid
      BY IdsTyped
    <3>2. lock' \in Proc \cup {None} /\ config' \in {None} \cup SUBSET Uuid /\ script' \in {"asleep", script}
      BY <2>6, <3>1 DEF SaveConfig, Write
    <3>3. CASE Over(p) /\ sent' = sent \cup (IF Adding(p) THEN ids[p] ELSE {})
      BY <2>6, <3>2, <3>3 DEF SaveConfig, Write
    <3>4. CASE UNCHANGED <<work, sent>> /\ pc' = Put(pc, p, IF Adding(p) THEN "send" ELSE "confirm")
      BY <2>6, <3>2, <3>4 DEF SaveConfig, Write
    <3> QED BY <2>6, <3>3, <3>4 DEF SaveConfig
  <2> QED BY <1>5, <2>1, <2>2, <2>3, <2>3a, <2>4, <2>5, <2>6 DEF Step
<1>6. CASE Script
  <2>1. CASE ScriptStats
    <3>1. script' \in {"older", "newer"} /\ late' \in BOOLEAN
      BY <2>1 DEF ScriptStats
    <3> QED BY <2>1, <3>1 DEF ScriptStats
  <2>2. CASE ScriptCompares \/ ScriptRestarts \/ ScriptEnds
    BY <2>2 DEF ScriptCompares, ScriptRestarts, ScriptEnds
  <2> QED BY <1>6, <2>1, <2>2 DEF Script
<1>6a. CASE Service
  <2>1. CASE XrayStarts
    <3>1. script' \in {script, "newer"} /\ xray' = "active" /\ loaded' \subseteq Uuid
      BY <2>1 DEF XrayStarts, Granted
    <3>2. newer' \in BOOLEAN /\ late' \in BOOLEAN
      BY <2>1 DEF XrayStarts
    <3> QED BY <2>1, <3>1, <3>2 DEF XrayStarts
  <2>2. CASE PathFiresAgain \/ XrayFails \/ XrayRestarts
    BY <2>2 DEF PathFiresAgain, XrayFails, XrayRestarts
  <2> QED BY <1>6a, <2>1, <2>2 DEF Service
<1>7. CASE UNCHANGED vars
  BY <1>7 DEF vars
<1> QED BY <1>6a, <1>1, <1>1a, <1>2, <1>3, <1>4, <1>5, <1>6, <1>7 DEF Next

(* A service that honours something else than the file says did not start after the
   file changed; so whoever looks at the file now has it restarted. *)
Behind == xray = "active" /\ loaded # Granted => ~newer

LEMMA NoChangeLostStep == Behind /\ NoChangeLost /\ [Next]_vars => Behind' /\ NoChangeLost'
<1> SUFFICES ASSUME Behind, NoChangeLost, [Next]_vars PROVE Behind' /\ NoChangeLost'
  OBVIOUS
<1> USE DEF Behind, NoChangeLost, Granted, files, service
<1>1. CASE Command \/ PrintLink
  <2>1. UNCHANGED <<config, service>>
    BY <1>1 DEF Command, PrintLink, ShellCommand, HandleMessage, HandleRevoke, CmdLink, Render, CmdInit,
                Begin
  <2> QED BY <2>1
<1>2. CASE BotStep
  BY <1>2 DEF BotStep, IssueProfile, SendLink, Applied, NotApplied
<1>3. ASSUME NEW granted, Write(granted) PROVE Behind' /\ NoChangeLost'
  <2>1. ~newer' /\ (script \notin {"off", "asleep"} => late')
    BY <1>3, Zenon DEF Write
  <2>2. script' = (IF script = "off" /\ xray = "active" THEN "asleep" ELSE script) /\ xray' = xray
    BY <1>3 DEF Write
  <2> QED BY <2>1, <2>2
<1>4. ASSUME NEW p \in Proc, Step(p) \/ Fail(p) PROVE Behind' /\ NoChangeLost'
  <2>1. CASE SaveConfig(p)
    <3>1. PICK granted : granted = IdsOf(copy[p])
      OBVIOUS
    <3>2. Write(granted)
      BY <2>1, <3>1 DEF SaveConfig, Write
    <3> QED BY <1>3, <3>2
  <2>2. CASE Acquire(p) \/ LoadToRemove(p) \/ LoadToRender(p) \/ Refuse(p) \/ SaveList(p)
             \/ Fail(p) \/ \E id \in Uuid : LoadToAdd(p, id)
    <3>1. UNCHANGED <<config, service>>
      BY <2>2 DEF Fail, Acquire, LoadToRemove, LoadToRender, Refuse, LoadToAdd, SaveList
    <3> QED BY <3>1
  <2> QED BY <1>4, <2>1, <2>2 DEF Step
<1>5. CASE Script
  <2>1. CASE ScriptStats
    BY <2>1 DEF ScriptStats
  <2>2. CASE ScriptCompares \/ ScriptRestarts \/ ScriptEnds
    BY <2>2 DEF ScriptCompares, ScriptRestarts, ScriptEnds
  <2> QED BY <1>5, <2>1, <2>2 DEF Script
<1>6. CASE Service
  BY <1>6 DEF Service, PathFiresAgain, XrayStarts, XrayFails, XrayRestarts
<1>7. CASE Blank
  BY <1>3, <1>7 DEF Blank
<1>8. CASE UNCHANGED vars
  BY <1>8 DEF vars
<1> QED BY <1>1, <1>2, <1>4, <1>5, <1>6, <1>7, <1>8 DEF Next

-----------------------------------------------------------------------------
(* VlessNode: who has access.  A store operation holds the lock from its load to
   its last write, so that the list is what it loaded (Copied) and credentials on
   the list are distinct (Distinct); a credential is handed out, or said to be
   dead, after the configuration was written (Out, Gone).  vpn-vless link prints
   what is on the list, and Listed says how far that is granted. *)

Inside(p) == pc[p] \in {"load", "list", "config"}
Exclusive == \A p \in Proc : Inside(p) => lock = p

Distinct(clients) == \A c, d \in clients : c[2] = d[2] => c = d

Out == sent \cup (IF pc[Bot] = "send" THEN ids[Bot] ELSE {})
Gone == dead \cup (IF pc[Bot] = "confirm" /\ Removing(Bot) THEN ids[Bot] ELSE {})

Copied(p) ==
    /\ pc[p] = "list" =>
          /\ Distinct(copy[p])
          /\ \/ Removing(p) /\ IdsOf(list) = IdsOf(copy[p]) \cup ids[p]
                            /\ ids[p] \cap IdsOf(copy[p]) = {}
             \/ Adding(p) /\ IdsOf(copy[p]) = IdsOf(list) \cup ids[p]
                          /\ ids[p] \cap (Out \cup Gone) = {}
    /\ pc[p] = "config" =>
          /\ copy[p] = list
          /\ Removing(p) => ids[p] \cap IdsOf(list) = {}
          /\ Adding(p) => ids[p] \cap (Out \cup Gone) = {}
    /\ pc[p] \in {"list", "config", "send", "confirm"} /\ (Adding(p) \/ Removing(p)) =>
          ids[p] \subseteq minted
    /\ pc[p] = "send" => Adding(p)

Listed == wiped \/ IdsOf(list) \subseteq Granted \cup BeingAdded \cup unwritten

Minted == IdsOf(list) \cup Out \cup Gone \subseteq minted

AccessParts ==
    /\ Exclusive /\ Distinct(list) /\ Minted /\ \A p \in Proc : Copied(p)
    /\ NoInvisibleAccess /\ Listed
    /\ wiped \/ Out \cap IdsOf(list) \subseteq Granted
    /\ Gone \cap (IdsOf(list) \cup Granted) = {}

LEMMA BeingRemovedIs ==
    ASSUME NEW x
    PROVE  x \in BeingRemoved <=> \E p \in Proc : pc[p] = "config" /\ Removing(p) /\ x \in ids[p]
BY DEF BeingRemoved

LEMMA BeingAddedIs ==
    ASSUME NEW x
    PROVE  x \in BeingAdded <=> \E p \in Proc : pc[p] = "config" /\ Adding(p) /\ x \in ids[p]
BY DEF BeingAdded

LEMMA MatchingIds ==
    ASSUME TypeOK, Distinct(list), NEW p \in Proc
    PROVE  /\ Distinct(list \ Matching(p))
           /\ IdsOf(list) = IdsOf(list \ Matching(p)) \cup IdsOf(Matching(p))
           /\ IdsOf(Matching(p)) \cap IdsOf(list \ Matching(p)) = {}
           /\ IdsOf(Matching(p)) \subseteq IdsOf(list)
<1> DEFINE M == Matching(p)
<1>1. M \subseteq list
  BY DEF Matching
<1> HIDE DEF M
<1>2. Distinct(list \ M)
  BY DEF Distinct
<1>3. IdsOf(list) = IdsOf(list \ M) \cup IdsOf(M) /\ IdsOf(M) \subseteq IdsOf(list)
  BY <1>1 DEF IdsOf
<1>4. IdsOf(M) \cap IdsOf(list \ M) = {}
  BY <1>1 DEF IdsOf, Distinct
<1> QED BY <1>2, <1>3, <1>4 DEF M

LEMMA AddedIds ==
    ASSUME TypeOK, Distinct(list), NEW n, NEW id, id \notin IdsOf(list)
    PROVE  /\ Distinct(list \cup {<<n, id>>})
           /\ IdsOf(list \cup {<<n, id>>}) = IdsOf(list) \cup {id}
<1>1. <<n, id>>[2] = id
  OBVIOUS
<1>2. IdsOf(list \cup {<<n, id>>}) = IdsOf(list) \cup {id}
  BY <1>1 DEF IdsOf
<1>3. Distinct(list \cup {<<n, id>>})
  BY <1>1 DEF Distinct, IdsOf
<1> QED BY <1>2, <1>3

(* Steps that leave the files, the ghosts and every process but p alone, p being
   outside the store and having nothing to say before or after. *)
LEMMA AccessQuiet ==
    ASSUME TypeOK, AccessParts, NEW p \in Proc,
           UNCHANGED <<list, config, lock, minted, sent, dead, cut, unwritten, wiped>>,
           \A q \in Proc \ {p} : pc'[q] = pc[q] /\ op'[q] = op[q] /\ ids'[q] = ids[q] /\ copy'[q] = copy[q],
           pc[p] \notin {"load", "list", "config"},
           pc'[p] \notin {"load", "list", "config", "send", "confirm"}
    PROVE  AccessParts'
<1> USE DEF AccessParts, Exclusive, Inside, Minted, Copied, Out, Gone, Removing, Adding, Granted, Proc
<1>1. BeingRemoved' = BeingRemoved
  BY BeingRemovedIs DEF BeingRemoved
<1>1a. BeingAdded' = BeingAdded
  BY BeingAddedIs DEF BeingAdded
<1>2. Out' \subseteq Out /\ Gone' \subseteq Gone
  OBVIOUS
<1>3. Exclusive' /\ Minted' /\ Distinct(list)'
  BY <1>2 DEF Distinct, IdsOf
<1>4. NoInvisibleAccess' /\ Listed'
  <2>1. IdsOf(list)' = IdsOf(list)
    BY DEF IdsOf
  <2> QED BY <1>1, <1>1a, <2>1 DEF NoInvisibleAccess, Listed
<1>5. (wiped \/ Out \cap IdsOf(list) \subseteq Granted)' /\ (Gone \cap (IdsOf(list) \cup Granted) = {})'
  BY <1>2 DEF IdsOf
<1>6. ASSUME NEW q \in Proc PROVE Copied(q)'
  <2>1. CASE q = p
    BY <2>1
  <2>2. CASE q # p
    <3>1. /\ pc'[q] = pc[q] /\ op'[q] = op[q] /\ ids'[q] = ids[q] /\ copy'[q] = copy[q]
          /\ list' = list /\ minted' = minted
      BY <2>2
    <3>2. /\ IdsOf(copy[q])' = IdsOf(copy[q]) /\ IdsOf(list)' = IdsOf(list)
          /\ Distinct(copy[q])' <=> Distinct(copy[q])
      BY <3>1 DEF IdsOf, Distinct
    <3> HIDE DEF Out, Gone
    <3> QED BY <1>2, <3>1, <3>2
  <2> QED BY <2>1, <2>2
<1> QED BY <1>3, <1>4, <1>5, <1>6

LEMMA AccessSame ==
    ASSUME AccessParts, UNCHANGED <<list, config, lock, pc, op, copy, ids, ghosts>> PROVE AccessParts'
BY DEF AccessParts, Exclusive, Inside, Minted, Copied, Out, Gone, Removing, Adding, Granted, ghosts,
       NoInvisibleAccess, Listed, BeingRemoved, BeingAdded, Distinct, IdsOf

(* Nobody else is in the store. *)
LEMMA Alone ==
    ASSUME AccessParts, NEW p \in Proc, Inside(p), NEW q \in Proc, q # p
    PROVE  pc[q] \notin {"load", "list", "config"}
BY DEF AccessParts, Exclusive, Inside

LEMMA NoneRemoved ==
    ASSUME AccessParts, NEW p \in Proc, Inside(p), pc[p] # "config" PROVE BeingRemoved = {}
BY Alone, BeingRemovedIs

LEMMA NoneAdded ==
    ASSUME AccessParts, NEW p \in Proc, Inside(p), pc[p] # "config" PROVE BeingAdded = {}
BY Alone, BeingAddedIs

LEMMA AccessLoad ==
    ASSUME TypeOK, AccessParts, NEW p \in Proc,
           LoadToRemove(p) \/ LoadToRender(p) \/ \E id \in Uuid : LoadToAdd(p, id)
    PROVE  AccessParts'
<1> USE DEF TypeOK, AccessParts, Exclusive, Inside, Minted, Out, Gone, Removing, Adding, Granted,
            files, command, ghosts, Goto, Put
<1>1. /\ pc[p] = "load" /\ pc'[p] \in {"list", "config"} /\ UNCHANGED <<files, op, sent, dead, cut, unwritten, wiped>>
      /\ minted \subseteq minted'
  BY DEF LoadToRemove, LoadToRender, LoadToAdd
<1>2. \A q \in Proc \ {p} : pc'[q] = pc[q] /\ copy'[q] = copy[q] /\ ids'[q] = ids[q]
  BY DEF LoadToRemove, LoadToRender, LoadToAdd
<1>3. \A q \in Proc \ {p} : pc[q] \notin {"load", "list", "config"}
  BY <1>1, Alone
<1>4. Out' = Out /\ Gone' = Gone
  BY <1>1, <1>2, <1>3 DEF Proc
<1>5. BeingRemoved = {} /\ BeingAdded = {} /\ IdsOf(list)' = IdsOf(list)
  BY <1>1, NoneRemoved, NoneAdded DEF IdsOf
<1>6. Exclusive' /\ Distinct(list)' /\ Minted'
  BY <1>1, <1>2, <1>3, <1>4, <1>5 DEF Distinct
<1>7. NoInvisibleAccess' /\ (wiped \/ Out \cap IdsOf(list) \subseteq Granted)'
      /\ (Gone \cap (IdsOf(list) \cup Granted) = {})'
  BY <1>1, <1>4, <1>5 DEF NoInvisibleAccess
<1>7a. Listed'
  BY <1>1, <1>5 DEF Listed
<1>8. Copied(p)'
  <2>1. CASE LoadToRemove(p)
    <3>1. /\ copy'[p] = list \ Matching(p) /\ ids'[p] = IdsOf(Matching(p)) /\ pc'[p] = "list"
          /\ Removing(p)'
      BY <2>1 DEF LoadToRemove
    <3>2. Distinct(copy'[p]) /\ IdsOf(Matching(p)) \subseteq IdsOf(list)
      <4> HIDE DEF TypeOK, Distinct, IdsOf, Out, Gone, Minted, Exclusive, Removing, Adding
      <4>1. TypeOK /\ Distinct(list)
        BY DEF AccessParts
      <4> QED BY <3>1, <4>1, MatchingIds
    <3>2a. ids'[p] \subseteq minted
      BY <3>1, <3>2 DEF AccessParts, Minted
    <3>3. IdsOf(list) = IdsOf(copy'[p]) \cup ids'[p] /\ ids'[p] \cap IdsOf(copy'[p]) = {}
      BY <3>1, MatchingIds
    <3> QED BY <1>1, <1>5, <3>1, <3>2, <3>2a, <3>3 DEF Copied, Distinct, IdsOf
  <2>2. CASE LoadToRender(p)
    <3>1. copy'[p] = list /\ pc'[p] = "config" /\ op'[p] = "render"
      BY <2>2 DEF LoadToRender
    <3>2. ids'[p] = ids[p] /\ list' = list
      BY <2>2 DEF LoadToRender
    <3>3. ~Removing(p)' /\ ~Adding(p)'
      BY <3>1
    <3> QED BY <1>1, <3>1, <3>2, <3>3 DEF Copied
  <2>3. ASSUME NEW id \in Uuid, LoadToAdd(p, id) PROVE Copied(p)'
    <3>1. /\ copy'[p] = list \cup {<<who[p], id>>} /\ ids'[p] = {id} /\ pc'[p] = "list"
          /\ Adding(p)' /\ id \notin minted /\ id \in minted'
      BY <2>3 DEF LoadToAdd
    <3>2. Distinct(copy'[p]) /\ IdsOf(copy'[p]) = IdsOf(list) \cup ids'[p]
      <4>1. id \notin IdsOf(list)
        <5> HIDE DEF Out, Gone, TypeOK, Removing, Adding, Granted
        <5> QED BY <3>1
      <4>2. Distinct(list) /\ TypeOK
        OBVIOUS
      <4> HIDE DEF TypeOK, AccessParts
      <4>3. /\ Distinct(list \cup {<<who[p], id>>})
            /\ IdsOf(list \cup {<<who[p], id>>}) = IdsOf(list) \cup {id}
        BY <4>1, <4>2, AddedIds
      <4> QED BY <3>1, <4>3
    <3>3. ids'[p] \cap (Out \cup Gone)' = {}
      <4>1. id \notin Out \cup Gone
        <5> HIDE DEF Out, Gone
        <5> QED BY <3>1
      <4> HIDE DEF Out, Gone
      <4> QED BY <1>4, <3>1, <4>1
    <3>4. IdsOf(copy[p])' = IdsOf(list)' \cup ids'[p] /\ Distinct(copy[p])'
      BY <1>1, <3>2 DEF Distinct, IdsOf
    <3>5. pc'[p] = "list" /\ ids'[p] \subseteq minted'
      BY <3>1
    <3> QED BY <3>1, <3>3, <3>4, <3>5 DEF Copied
  <2> QED BY <2>1, <2>2, <2>3
<1>9. ASSUME NEW q \in Proc, q # p PROVE Copied(q)'
  BY <1>9, <1>1, <1>2, <1>3 DEF Copied
<1> QED BY <1>6, <1>7, <1>7a, <1>8, <1>9

LEMMA AccessSaveList ==
    ASSUME TypeOK, AccessParts, NEW p \in Proc, SaveList(p) PROVE AccessParts'
<1> USE DEF TypeOK, AccessParts, Exclusive, Inside, Minted, Out, Gone, Removing, Adding, Granted,
            work, command, ghosts, Goto, Put
<1>1. /\ pc[p] = "list" /\ pc'[p] = "config" /\ list' = copy[p]
      /\ UNCHANGED <<config, lock, op, copy, ids, ghosts>>
  BY DEF SaveList
<1>2. \A q \in Proc \ {p} : pc'[q] = pc[q] /\ pc[q] \notin {"load", "list", "config"}
  BY <1>1, Alone DEF SaveList
<1>3. Out' = Out /\ Gone' = Gone
  BY <1>1, <1>2 DEF Proc
<1>4. Copied(p)
  OBVIOUS
<1>5. BeingRemoved = {} /\ BeingAdded = {} /\ (IdsOf(list))' = IdsOf(copy[p])
  BY <1>1, NoneRemoved, NoneAdded DEF IdsOf
<1>6. Removing(p) => ids[p] \subseteq BeingRemoved'
  BY <1>1, BeingRemovedIs DEF BeingRemoved
<1>6a. Adding(p) => ids[p] \subseteq BeingAdded'
  BY <1>1, BeingAddedIs DEF BeingAdded
<1>7. Exclusive' /\ Distinct(list)' /\ Minted'
  BY <1>1, <1>2, <1>3, <1>4, <1>5 DEF Distinct, Copied
<1>8. NoInvisibleAccess'
  BY <1>1, <1>4, <1>5, <1>6 DEF NoInvisibleAccess, Copied
<1>8a. Listed'
  <2>1. IdsOf(copy[p]) \subseteq IdsOf(list) \/ (Adding(p) /\ IdsOf(copy[p]) = IdsOf(list) \cup ids[p])
    BY <1>1, <1>4 DEF Copied
  <2>2. wiped \/ IdsOf(list) \subseteq Granted \cup unwritten
    BY <1>5 DEF Listed
  <2>3. Granted' = Granted /\ unwritten' = unwritten /\ wiped' = wiped
    BY <1>1
  <2> HIDE DEF Adding, Granted
  <2> QED BY <1>5, <1>6a, <2>1, <2>2, <2>3 DEF Listed
<1>9. (wiped \/ Out \cap IdsOf(list) \subseteq Granted)'
      /\ (Gone \cap (IdsOf(list) \cup Granted) = {})'
  BY <1>1, <1>3, <1>4, <1>5 DEF Copied
<1>10. Copied(p)'
  BY <1>1, <1>3, <1>4, <1>5 DEF Copied, Distinct
<1>11. ASSUME NEW q \in Proc, q # p PROVE Copied(q)'
  BY <1>11, <1>1, <1>2 DEF Copied
<1> QED BY <1>7, <1>8, <1>8a, <1>9, <1>10, <1>11

LEMMA AccessSaveConfig ==
    ASSUME TypeOK, AccessParts, NEW p \in Proc, SaveConfig(p) PROVE AccessParts'
<1> USE VlessAssumption DEF TypeOK, Put
<1>1. /\ pc[p] = "config" /\ config' = IdsOf(list) /\ UNCHANGED <<list, minted, dead>>
      /\ pc'[p] \in {"idle", "send", "confirm"} /\ wiped' = FALSE /\ Copied(p)
  BY DEF SaveConfig, Write, AccessParts, Copied, Over
<1>2. \A q \in Proc \ {p} : /\ pc'[q] = pc[q] /\ pc[q] \notin {"load", "list", "config"}
                         /\ op'[q] = op[q] /\ copy'[q] = copy[q] /\ ids'[q] = ids[q]
  BY <1>1, Alone DEF SaveConfig, Inside, Over, work, command
<1>3. Granted' = IdsOf(list) /\ IdsOf(list)' = IdsOf(list)
  <2>1. IdsOf(list) \subseteq Uuid
    BY IdsTyped
  <2> QED BY <1>1, <2>1 DEF Granted, IdsOf
<1>4. /\ Adding(p) => Out' \subseteq Out \cup ids[p] /\ Gone' \subseteq Gone
      /\ ~Adding(p) => Out' \subseteq Out
      /\ Removing(p) => Gone' \subseteq Gone \cup ids[p]
      /\ ~Removing(p) => Gone' \subseteq Gone
  BY <1>1, <1>2 DEF SaveConfig, Out, Gone, Over, Adding, Removing, Proc, work, command
<1>5. (Adding(p) \/ Removing(p)) => ids[p] \subseteq minted
  BY <1>1 DEF Copied
<1>6. Exclusive' /\ Distinct(list)'
  BY <1>1, <1>2 DEF AccessParts, Exclusive, Inside, Distinct
<1>7. Minted'
  BY <1>1, <1>3, <1>4, <1>5 DEF AccessParts, Minted
<1>8. NoInvisibleAccess' /\ (wiped \/ Out \cap IdsOf(list) \subseteq Granted)'
  BY <1>3 DEF NoInvisibleAccess
<1>8a. Listed'
  BY <1>3 DEF Listed
<1>9. (Gone \cap (IdsOf(list) \cup Granted) = {})'
  BY <1>1, <1>3, <1>4 DEF AccessParts, Copied
<1>10. Copied(p)'
  <2>1. CASE pc'[p] = "idle"
    BY <2>1 DEF Copied
  <2>2. CASE pc'[p] # "idle"
    <3>1. pc'[p] = (IF Adding(p) THEN "send" ELSE "confirm") /\ UNCHANGED work
      BY <2>2 DEF SaveConfig, Over
    <3>2. op'[p] = op[p] /\ ids'[p] = ids[p]
      BY <3>1 DEF work, command
    <3>3. (Adding(p)' <=> Adding(p)) /\ (Removing(p)' <=> Removing(p))
      BY <3>2 DEF Adding, Removing
    <3> QED BY <1>1, <1>5, <3>1, <3>2, <3>3 DEF Copied
  <2> QED BY <2>1, <2>2
<1>11. ASSUME NEW q \in Proc, q # p PROVE Copied(q)'
  <2>1. /\ pc'[q] = pc[q] /\ pc[q] \notin {"load", "list", "config"}
        /\ op'[q] = op[q] /\ ids'[q] = ids[q] /\ minted' = minted
    BY <1>1, <1>2, <1>11
  <2>2. (Adding(q)' <=> Adding(q)) /\ (Removing(q)' <=> Removing(q))
    BY <2>1 DEF Adding, Removing
  <2> QED BY <2>1, <2>2 DEF AccessParts, Copied
<1> QED BY <1>6, <1>7, <1>8, <1>8a, <1>9, <1>10, <1>11 DEF AccessParts

LEMMA AccessFail ==
    ASSUME TypeOK, AccessParts, NEW p \in Proc, Fail(p) \/ Refuse(p) PROVE AccessParts'
<1> USE VlessAssumption DEF TypeOK, Put, Over
<1>1. /\ pc'[p] = "idle" /\ UNCHANGED <<list, config, minted, sent, dead, wiped>>
      /\ lock' = Freed(p) /\ cut \subseteq cut'
      /\ pc[p] = "config" /\ Removing(p) => ids[p] \cap Granted \subseteq cut'
      /\ unwritten \subseteq unwritten'
      /\ pc[p] = "config" /\ Adding(p) => ids[p] \subseteq unwritten'
  BY DEF Fail, Refuse, ghosts
<1>2. \A q \in Proc \ {p} : /\ pc'[q] = pc[q] /\ op'[q] = op[q]
                         /\ copy'[q] = copy[q] /\ ids'[q] = ids[q]
  BY DEF Fail, Refuse
<1>3. Out' \subseteq Out /\ Gone' \subseteq Gone
  BY <1>1, <1>2 DEF Out, Gone, Removing, Proc
<1>4. Granted' = Granted /\ IdsOf(list)' = IdsOf(list)
  BY <1>1 DEF Granted, IdsOf
<1>5. Exclusive' /\ Distinct(list)' /\ Minted'
  BY <1>1, <1>2, <1>3, <1>4 DEF AccessParts, Exclusive, Inside, Distinct, Minted, Freed
<1>6. NoInvisibleAccess'
  <2> SUFFICES ASSUME NEW x \in Granted PROVE x \in IdsOf(list) \/ x \in BeingRemoved' \/ x \in cut'
    BY <1>4 DEF NoInvisibleAccess
  <2>1. CASE x \in BeingRemoved
    <3>1. PICK q \in Proc : pc[q] = "config" /\ Removing(q) /\ x \in ids[q]
      BY <2>1 DEF BeingRemoved
    <3>2. CASE q = p
      BY <1>1, <3>1, <3>2
    <3>3. CASE q # p
      BY <1>2, <3>1, <3>3 DEF BeingRemoved, Removing
    <3> QED BY <3>2, <3>3
  <2>2. CASE x \in IdsOf(list) \cup cut
    BY <2>2, <1>1
  <2> QED BY <2>1, <2>2 DEF AccessParts, NoInvisibleAccess
<1>6a. Listed'
  <2> SUFFICES ASSUME ~wiped, NEW x \in IdsOf(list)
               PROVE  x \in Granted \/ x \in BeingAdded' \/ x \in unwritten'
    BY <1>1, <1>4 DEF Listed
  <2>1. CASE x \in BeingAdded
    <3>1. PICK q \in Proc : pc[q] = "config" /\ Adding(q) /\ x \in ids[q]
      BY <2>1 DEF BeingAdded
    <3>2. CASE q = p
      BY <1>1, <3>1, <3>2
    <3>3. CASE q # p
      BY <1>2, <3>1, <3>3 DEF BeingAdded, Adding
    <3> QED BY <3>2, <3>3
  <2>2. CASE x \in Granted \cup unwritten
    BY <2>2, <1>1
  <2> QED BY <2>1, <2>2 DEF AccessParts, Listed
<1>7. (wiped \/ Out \cap IdsOf(list) \subseteq Granted)' /\ (Gone \cap (IdsOf(list) \cup Granted) = {})'
  BY <1>1, <1>3, <1>4 DEF AccessParts
<1>8. Copied(p)'
  BY <1>1 DEF Copied
<1>9. ASSUME NEW q \in Proc, q # p PROVE Copied(q)'
  <2>1. /\ pc'[q] = pc[q] /\ op'[q] = op[q] /\ ids'[q] = ids[q] /\ copy'[q] = copy[q]
        /\ list' = list /\ minted' = minted
    BY <1>1, <1>2, <1>9
  <2>2. /\ IdsOf(copy[q])' = IdsOf(copy[q]) /\ IdsOf(list)' = IdsOf(list)
        /\ Distinct(copy[q])' <=> Distinct(copy[q])
        /\ (Adding(q)' <=> Adding(q)) /\ (Removing(q)' <=> Removing(q))
    BY <2>1 DEF IdsOf, Distinct, Adding, Removing
  <2> QED BY <1>3, <2>1, <2>2 DEF AccessParts, Copied
<1> QED BY <1>5, <1>6, <1>6a, <1>7, <1>8, <1>9 DEF AccessParts

LEMMA AccessAcquire ==
    ASSUME TypeOK, AccessParts, NEW p \in Proc, Acquire(p) PROVE AccessParts'
<1> USE VlessAssumption DEF TypeOK, Put, Goto
<1>1. /\ pc[p] = "lock" /\ pc'[p] = "load" /\ lock = None /\ lock' = p
      /\ UNCHANGED <<list, config, op, copy, ids, minted, sent, dead, cut, unwritten, wiped>>
  BY DEF Acquire, work, command, ghosts
<1>2. \A q \in Proc : pc[q] \notin {"load", "list", "config"} /\ (q # p => pc'[q] = pc[q])
  BY <1>1 DEF Acquire, AccessParts, Exclusive, Inside
<1>3. Out' = Out /\ Gone' = Gone
  BY <1>1, <1>2 DEF Out, Gone, Removing, Proc
<1>4. /\ BeingRemoved' = BeingRemoved /\ BeingAdded' = BeingAdded
      /\ Granted' = Granted /\ IdsOf(list)' = IdsOf(list)
  BY <1>1, <1>2 DEF BeingRemoved, BeingAdded, Granted, IdsOf, Removing, Adding
<1>5. Exclusive'
  BY <1>1, <1>2 DEF Exclusive, Inside
<1>6. ASSUME NEW q \in Proc PROVE Copied(q)'
  <2>1. /\ pc'[q] = pc[q] \/ pc'[q] = "load"
        /\ op'[q] = op[q] /\ ids'[q] = ids[q] /\ minted' = minted
    BY <1>1, <1>2
  <2>2. (Adding(q)' <=> Adding(q)) /\ (Removing(q)' <=> Removing(q))
    BY <2>1 DEF Adding, Removing
  <2> QED BY <1>2, <2>1, <2>2 DEF AccessParts, Copied
<1> QED BY <1>1, <1>3, <1>4, <1>5, <1>6 DEF AccessParts, Minted, NoInvisibleAccess, Listed, Distinct

LEMMA AccessBlank ==
    ASSUME TypeOK, AccessParts, Blank PROVE AccessParts'
<1> USE VlessAssumption DEF TypeOK, Put, Over, Proc
<1>1. /\ pc[Shell] = "blank" /\ pc'[Shell] = "idle" /\ Granted' = {} /\ wiped' = (list # {})
      /\ UNCHANGED <<list, lock, minted, sent, dead>>
      /\ pc'[Bot] = pc[Bot] /\ op'[Bot] = op[Bot] /\ copy'[Bot] = copy[Bot] /\ ids'[Bot] = ids[Bot]
  BY DEF Blank, Write, Granted
<1>2. Out' = Out /\ Gone' = Gone
  BY <1>1 DEF Out, Gone, Removing
<1>3. IdsOf(list)' = IdsOf(list) /\ (list = {} => IdsOf(list) = {})
  BY <1>1 DEF IdsOf
<1>4. Exclusive' /\ Distinct(list)' /\ Minted'
  BY <1>1, <1>2, <1>3 DEF AccessParts, Exclusive, Inside, Distinct, Minted
<1>5. NoInvisibleAccess' /\ (wiped \/ Out \cap IdsOf(list) \subseteq Granted)'
      /\ (Gone \cap (IdsOf(list) \cup Granted) = {})'
  BY <1>1, <1>2, <1>3 DEF AccessParts, NoInvisibleAccess
<1>5a. Listed'
  BY <1>1, <1>3 DEF Listed
<1>6. Copied(Shell)'
  BY <1>1 DEF Copied
<1>7. Copied(Bot)'
  <2>1. (Adding(Bot)' <=> Adding(Bot)) /\ (Removing(Bot)' <=> Removing(Bot))
    BY <1>1 DEF Adding, Removing
  <2>2. IdsOf(copy[Bot])' = IdsOf(copy[Bot]) /\ (Distinct(copy[Bot])' <=> Distinct(copy[Bot]))
    BY <1>1 DEF IdsOf, Distinct
  <2>3. Copied(Bot)
    BY DEF AccessParts
  <2> QED BY <1>1, <1>2, <1>3, <2>1, <2>2, <2>3 DEF Copied
<1> QED BY <1>4, <1>5, <1>5a, <1>6, <1>7 DEF AccessParts

LEMMA AccessBot ==
    ASSUME TypeOK, AccessParts, SendLink \/ Applied PROVE AccessParts'
<1> USE VlessAssumption DEF TypeOK, Put, Proc
<1>1. /\ pc[Bot] \in {"send", "confirm"} /\ pc'[Bot] \in {"confirm", "idle"}
      /\ UNCHANGED <<list, config, lock, minted, cut, unwritten, wiped>>
      /\ pc'[Shell] = pc[Shell] /\ op'[Shell] = op[Shell]
      /\ copy'[Shell] = copy[Shell] /\ ids'[Shell] = ids[Shell]
  BY DEF SendLink, Applied, Goto, Over, files, work, command
<1>2. Out' = Out /\ Gone' = Gone
  <2>1. Copied(Bot)
    BY DEF AccessParts
  <2>2. CASE SendLink
    BY <2>1, <2>2 DEF Copied, SendLink, Out, Gone, Adding, Removing, Goto, work, command
  <2>3. CASE Applied
    BY <2>3 DEF Applied, Out, Gone, Removing, Over
  <2> QED BY <2>2, <2>3
<1>3. /\ Granted' = Granted /\ IdsOf(list)' = IdsOf(list)
      /\ BeingRemoved' = BeingRemoved /\ BeingAdded' = BeingAdded
  BY <1>1 DEF Granted, IdsOf, BeingRemoved, BeingAdded, Removing, Adding
<1>4. Exclusive' /\ Distinct(list)' /\ Minted'
  BY <1>1, <1>2, <1>3 DEF AccessParts, Exclusive, Inside, Distinct, Minted
<1>5. NoInvisibleAccess' /\ (wiped \/ Out \cap IdsOf(list) \subseteq Granted)'
      /\ (Gone \cap (IdsOf(list) \cup Granted) = {})'
  BY <1>1, <1>2, <1>3 DEF AccessParts, NoInvisibleAccess
<1>5a. Listed'
  BY <1>1, <1>3 DEF AccessParts, Listed
<1>6. Copied(Bot)'
  <2>1. Copied(Bot)
    BY DEF AccessParts
  <2>2. CASE SendLink
    BY <2>1, <2>2, <1>1 DEF SendLink, Copied, Adding, Removing, Goto, work, command
  <2>3. CASE Applied
    BY <2>3, <1>1 DEF Applied, Over, Copied
  <2> QED BY <2>2, <2>3
<1>7. Copied(Shell)'
  <2>1. (Adding(Shell)' <=> Adding(Shell)) /\ (Removing(Shell)' <=> Removing(Shell))
    BY <1>1 DEF Adding, Removing
  <2>2. IdsOf(copy[Shell])' = IdsOf(copy[Shell]) /\ (Distinct(copy[Shell])' <=> Distinct(copy[Shell]))
    BY <1>1 DEF IdsOf, Distinct
  <2>3. Copied(Shell)
    BY DEF AccessParts
  <2> QED BY <1>1, <1>2, <1>3, <2>1, <2>2, <2>3 DEF Copied
<1> QED BY <1>4, <1>5, <1>5a, <1>6, <1>7 DEF AccessParts

LEMMA AccessCommand ==
    ASSUME TypeOK, AccessParts, Command \/ PrintLink \/ IssueProfile \/ NotApplied PROVE AccessParts'
<1> USE DEF TypeOK, Put, Goto, Begin, Over, files, work, command, ghosts, Proc
<1>1. CASE Render \/ CmdInit \/ \E n \in Name, what \in {"add", "remove"} : ShellCommand(what, n)
  BY <1>1, AccessQuiet DEF Render, CmdInit, ShellCommand
<1>2. CASE \E n \in Name : HandleRevoke(n) \/ \E grant \in {"profile", "vless", "both"} : HandleMessage(grant, n)
  BY <1>2, AccessQuiet DEF HandleRevoke, HandleMessage
<1>3. CASE IssueProfile \/ NotApplied
  BY <1>3, AccessQuiet DEF IssueProfile, NotApplied
<1>4. CASE PrintLink \/ \E client \in list : CmdLink(client)
  BY <1>4, AccessQuiet DEF PrintLink, CmdLink
<1> QED BY <1>1, <1>2, <1>3, <1>4 DEF Command

LEMMA AccessStep == TypeOK /\ AccessParts /\ [Next]_vars => AccessParts'
<1> SUFFICES ASSUME TypeOK, AccessParts, [Next]_vars PROVE AccessParts'
  OBVIOUS
<1>1. CASE Command \/ PrintLink \/ BotStep \/ Blank
  BY <1>1, AccessCommand, AccessBot, AccessBlank DEF BotStep
<1>2. ASSUME NEW p \in Proc, Step(p) \/ Fail(p) PROVE AccessParts'
  BY <1>2, AccessAcquire, AccessLoad, AccessSaveList, AccessSaveConfig, AccessFail DEF Step
<1>3. CASE UNCHANGED vars \/ Script \/ Service
  BY <1>3, AccessSame DEF vars, files, work, command, Script, Service, ScriptStats, ScriptCompares,
         ScriptRestarts, ScriptEnds, PathFiresAgain, XrayStarts, XrayFails, XrayRestarts
<1> QED BY <1>1, <1>2, <1>3 DEF Next

VlessInv == TypeOK /\ Named /\ AccessParts /\ Behind /\ NoChangeLost

LEMMA VlessInvAlways == Spec => []VlessInv
<1>1. Init => VlessInv
  <2> SUFFICES ASSUME Init PROVE VlessInv
    OBVIOUS
  <2> USE VlessAssumption DEF Init, Proc
  <2>1. TypeOK
    BY DEF TypeOK
  <2>2. Named /\ Behind /\ NoChangeLost
    BY DEF Named, Adding, Behind, NoChangeLost
  <2>3. Out = {} /\ Gone = {} /\ Granted = {} /\ IdsOf(list) = {}
    BY DEF Out, Gone, Granted, IdsOf
  <2>4. \A p \in Proc : Copied(p)
    BY DEF Copied
  <2> QED BY <2>1, <2>2, <2>3, <2>4 DEF VlessInv, AccessParts, Exclusive, Inside, Distinct, Minted,
                                      NoInvisibleAccess, Listed
<1>2. VlessInv /\ [Next]_vars => VlessInv'
  BY TypeStep, NamedStep, AccessStep, NoChangeLostStep DEF VlessInv
<1> QED BY <1>1, <1>2, PTL DEF Spec

(* The files, the commands and the service keep their types (store.go:40). *)
THEOREM VlessTypeCorrect == Spec => []TypeOK
<1>1. VlessInv => TypeOK
  BY DEF VlessInv
<1> QED BY <1>1, VlessInvAlways, PTL

(* No step of two processes, no failure between the two writes of saveClients
   (store.go:332) and no crash makes a credential that the list does not record,
   but for a removal that was cut short. *)
THEOREM VlessNoInvisibleAccess == Spec => []NoInvisibleAccess
<1>1. VlessInv => NoInvisibleAccess
  BY DEF VlessInv, AccessParts
<1> QED BY <1>1, VlessInvAlways, PTL

(* A link that the bot sent (main.go:591) or vpn-vless add printed is granted while its
   client is listed, but for an init under way; one that vpn-vless link printed, unless
   its client's addition is between its two writes or was cut short there. *)
THEOREM VlessSentLinksWork == Spec => []SentLinksWork
<1>1. VlessInv => SentLinksWork
  BY DEF VlessInv, AccessParts, Out, Listed, SentLinksWork
<1> QED BY <1>1, VlessInvAlways, PTL

(* What the owner was told is dead (main.go:917) stays off the list and out of the
   configuration. *)
THEOREM VlessDeadStaysOut == Spec => []DeadStaysOut
<1>1. VlessInv => DeadStaysOut
  BY DEF VlessInv, AccessParts, Gone, DeadStaysOut
<1> QED BY <1>1, VlessInvAlways, PTL

(* apply-config.sh (packaging/server/apply-config.sh:24) misses no change of the file
   that it can see: a service that honours another configuration is about to be
   restarted, unless the file changed after the running script had looked at it. *)
THEOREM VlessNoChangeLost == Spec => []NoChangeLost
<1>1. VlessInv => NoChangeLost
  BY DEF VlessInv
<1> QED BY <1>1, VlessInvAlways, PTL

-----------------------------------------------------------------------------
(* BotProcess: an update that the poller has asked past is safe, for whatever it
   asks next is the acknowledgement. *)

Safe(u) == u \in handled \cup crashed \cup refused \/ (Running /\ u \in InHand)

Placed ==
    /\ poller = "offer" => offset \in 1..batch
    /\ poller \in {"head", "ask", "offer", "backoff"} => failures < MaxPollFailures
    /\ IF main \in {"handle", "slot"} THEN current \in Update ELSE current = 0
    /\ main = "slot" => current \in Taps

Acknowledged ==
    \A u \in Update : u < dropped \/ (Running /\ u < offset) => Safe(u)

BotInv == BotTypeOK /\ Placed /\ Acknowledged

LEMMA BotTypesStep == BotTypeOK /\ Placed /\ [BotNext]_botVars => BotTypeOK' /\ Placed'
<1> SUFFICES ASSUME BotTypeOK, Placed, [BotNext]_botVars PROVE BotTypeOK' /\ Placed'
  OBVIOUS
<1> USE BotAssumption DEF BotTypeOK, Placed, Update, telegram, pollVars, mainVars, botGhosts
<1>1. CASE Ask \/ BackoffEnds \/ PollerStops
  BY <1>1 DEF Ask, BackoffEnds, PollerStops
<1>2. CASE GetUpdates
  BY <1>2 DEF GetUpdates
<1>3. CASE PollFails
  BY <1>3 DEF PollFails
<1>4. CASE TakeUpdate
  BY <1>4 DEF TakeUpdate
<1>5. CASE HandleUpdate
  BY <1>5 DEF HandleUpdate
<1>5a. CASE StartUpload
  BY <1>5a DEF StartUpload
<1>5b. CASE RefuseTap
  BY <1>5b DEF RefuseTap
<1>6. CASE SeeSignal \/ TakeFatal
  BY <1>6 DEF SeeSignal, TakeFatal
<1>6a. CASE Leave
  BY <1>6a DEF Leave
<1>6b. CASE WatchdogStops
  BY <1>6b DEF WatchdogStops
<1>6c. CASE Arrive
  BY <1>6c DEF Arrive
<1>6d. CASE Signal
  BY <1>6d DEF Signal
<1>7. ASSUME NEW u \in Taps, UploadEnds(u) PROVE BotTypeOK' /\ Placed'
  BY <1>7 DEF UploadEnds
<1>8. CASE Restart
  <2>1. crashed' \subseteq Update
    BY <1>8 DEF Restart, InHand
  <2>2. watchdog' \in BOOLEAN /\ cancelled' \in BOOLEAN
    BY <1>8, Zenon DEF Restart
  <2>3. starts' \in 0..MaxStarts
    BY <1>8 DEF Restart
  <2> QED BY <1>8, <2>1, <2>2, <2>3 DEF Restart
<1>9. CASE UNCHANGED botVars
  BY <1>9 DEF botVars
<1> QED BY <1>1, <1>2, <1>3, <1>4, <1>5, <1>5a, <1>5b, <1>6, <1>6a, <1>6b, <1>6c, <1>6d, <1>7, <1>8, <1>9
       DEF BotNext, Poller, Main

LEMMA AcknowledgedStep == BotInv /\ [BotNext]_botVars => Acknowledged'
<1> SUFFICES ASSUME BotInv, [BotNext]_botVars, NEW u \in Update,
                    u < dropped' \/ (Running' /\ u < offset')
             PROVE  Safe(u)'
  BY DEF Acknowledged
<1> USE BotAssumption DEF BotInv, BotTypeOK, Placed, Acknowledged, Safe, Running, InHand, Update,
            telegram, pollVars, mainVars, botGhosts
<1>1. CASE Ask \/ BackoffEnds \/ PollerStops \/ PollFails
  BY <1>1 DEF Ask, BackoffEnds, PollerStops, PollFails
<1>2. CASE GetUpdates
  BY <1>2 DEF GetUpdates
<1>4. CASE TakeUpdate
  BY <1>4 DEF TakeUpdate
<1>5. CASE HandleUpdate \/ StartUpload \/ RefuseTap
  BY <1>5 DEF HandleUpdate, StartUpload, RefuseTap
<1>6. CASE SeeSignal \/ TakeFatal \/ WatchdogStops \/ Arrive \/ Signal
  BY <1>6 DEF SeeSignal, TakeFatal, WatchdogStops, Arrive, Signal
<1>6a. CASE Leave
  BY <1>6a DEF Leave, Drained
<1>7. ASSUME NEW t \in Taps, UploadEnds(t) PROVE Safe(u)'
  BY <1>7 DEF UploadEnds
<1>8. CASE Restart
  BY <1>8 DEF Restart
<1>9. CASE UNCHANGED botVars
  BY <1>9 DEF botVars
<1> QED BY <1>1, <1>2, <1>4, <1>5, <1>6, <1>6a, <1>7, <1>8, <1>9 DEF BotNext, Poller, Main

LEMMA BotInvAlways == BotSpec => []BotInv
<1>1. BotInit => BotInv
  <2> SUFFICES ASSUME BotInit PROVE BotInv
    OBVIOUS
  <2>1. BotTypeOK
    <3>1. watchdog \in BOOLEAN /\ cancelled \in BOOLEAN
      BY Zenon DEF BotInit, Fresh
    <3>2. /\ arrived = 0 /\ dropped = 1 /\ starts = 1 /\ handled = {} /\ crashed = {} /\ refused = {}
          /\ poller = "head" /\ batch = 0 /\ offset = 0 /\ failures = 0
          /\ main = "select" /\ current = 0 /\ uploads = {}
      BY DEF BotInit, Fresh
    <3> QED BY <3>1, <3>2, BotAssumption DEF BotTypeOK
  <2>2. Placed
    BY BotAssumption DEF BotInit, Fresh, Placed
  <2>3. Acknowledged
    BY DEF BotInit, Fresh, Acknowledged, Update
  <2> QED BY <2>1, <2>2, <2>3 DEF BotInv
<1>2. BotInv /\ [BotNext]_botVars => BotInv'
  BY BotTypesStep, AcknowledgedStep DEF BotInv
<1> QED BY <1>1, <1>2, PTL DEF BotSpec

(* The goroutines and what they hold keep their types (cmd/vpn-bot/main.go:245). *)
THEOREM BotTypeCorrect == BotSpec => []BotTypeOK
<1>1. BotInv => BotTypeOK
  BY DEF BotInv
<1> QED BY <1>1, BotInvAlways, PTL

(* What Telegram drops was handled, is in hand, or fell with the process
   (cmd/vpn-bot/main.go:388), for any number of updates, uploads and restarts. *)
THEOREM BotNothingIsLost == BotSpec => []NothingIsLost
<1>1. BotInv => NothingIsLost
  BY DEF BotInv, Acknowledged, Safe, NothingIsLost
<1> QED BY <1>1, BotInvAlways, PTL
=============================================================================
