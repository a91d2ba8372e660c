-------------------------- MODULE Credentials_proofs --------------------------
(***************************************************************************)
(* Proofs about Credentials, for any names, serials, tokens and processes. *)
(* The properties of the certificates hold until two issuing commands      *)
(* cross; those of the two locked files hold whatever runs at a time.      *)
(* The second part follows the deny list to the server that enforces it    *)
(* (NodeHealth) and to the watchdog that reads its report.                 *)
(***************************************************************************)
EXTENDS Credentials, Watchdog, FiniteSetTheorems, TLAPS

(* What a process is at tells which command it runs, and on what. *)
Calls ==
    \A p \in Proc :
        /\ pc[p] = "idle" <=> op[p] = "none"
        /\ pc[p] \in {"invites", "tokens"} => op[p] \in {"invite", "redeem"}
        /\ pc[p] = "serials" => op[p] \in {"issue", "revoke"}
        /\ pc[p] \in {"current", "deny", "amend"} => op[p] \in {"issue", "revoke", "unrevoke"}
        /\ pc[p] \in {"append", "record", "write"} => op[p] = "issue"
        /\ op[p] \in {"issue", "revoke", "unrevoke", "invite"} => nm[p] \in Name
        /\ op[p] = "issue" => new[p] \in Serial
        /\ op[p] = "redeem" => token[p] \in Token

(* A process inside a critical section holds the lock, and what it has loaded is
   what the file still holds. *)
Locked ==
    \A p \in Proc :
        /\ pc[p] = "amend" => denyLock = p /\ denyCopy[p] = denied
        /\ pc[p] = "tokens" => inviteLock = p /\ inviteCopy[p] = invites

(* The variables that no command but some of its steps changes. *)
Commands == (\E p \in Proc : Command(p)) \/ \E t \in Token : StartRedeem(t)

LEMMA StepCases ==
    ASSUME Next
    PROVE  \/ Commands
           \/ \E p \in Proc :
                \/ LoadInvites(p) \/ ReadLedger(p) \/ ReadCurrent(p) \/ LoadDenied(p)
                \/ LoadLedger(p) \/ SaveLedger(p) \/ WriteCert(p) \/ Return(p)
                \/ \E t \in Token : Generate(p, t)
                \/ \E s \in Serial : Redeem(p, s) \/ Add(p, s) \/ RemoveSerial(p, s)
           \/ \E t \in Token : Expire(t)
  BY DEF Next, Step, Commands

LEMMA CommandsFrame ==
    ASSUME Commands
    PROVE  UNCHANGED <<files, expired, locks, copies, certs, restored, redeemed, todo>>
  BY DEF Commands, Command, StartIssue, StartRevoke, StartUnrevoke, StartInvite, StartRedeem,
         files, locks, copies, ghosts

(* Commands that have crossed remain so, and it shows in the commands there are. *)
LEMMA CrossedStep ==
    ASSUME crossed \in BOOLEAN, [Next]_vars
    PROVE  crossed' \in BOOLEAN /\ (crossed => crossed')
<1>1. ASSUME NEW p \in Proc, Crosses(p)
      PROVE  crossed' \in BOOLEAN /\ (crossed => crossed')
  BY <1>1, Zenon DEF Crosses
<1>2. CASE UNCHANGED crossed
  BY <1>2
<1>3. Commands => UNCHANGED crossed \/ \E p \in Proc : Crosses(p)
  BY Zenon DEF Commands, Command, StartIssue, StartRevoke, StartUnrevoke, StartInvite, StartRedeem,
               ghosts
<1>4. ASSUME NEW p \in Proc, NEW s \in Serial, Redeem(p, s)
      PROVE  Crosses(p)
  BY <1>4 DEF Redeem
<1>5. ASSUME NEW p \in Proc,
             \/ LoadInvites(p) \/ ReadLedger(p) \/ ReadCurrent(p) \/ LoadDenied(p)
             \/ LoadLedger(p) \/ SaveLedger(p) \/ WriteCert(p) \/ Return(p)
             \/ (\E t \in Token : Generate(p, t))
             \/ \E s \in Serial : Add(p, s) \/ RemoveSerial(p, s)
      PROVE  UNCHANGED crossed
  BY <1>5 DEF LoadInvites, ReadLedger, ReadCurrent, LoadDenied, LoadLedger, SaveLedger, WriteCert,
              Return, Generate, Add, RemoveSerial, SaveDenied, ghosts
<1>6. (\E t \in Token : Expire(t)) \/ UNCHANGED vars => UNCHANGED crossed
  BY DEF Expire, vars, ghosts
<1>7. QED
  BY <1>1, <1>2, <1>3, <1>4, <1>5, <1>6, StepCases

LEMMA Uncrossed ==
    ASSUME NEW p, Crosses(p), ~crossed'
    PROVE  \A q \in Proc \ {p} : op[q] \notin {"issue", "unrevoke"}
  BY Zenon DEF Crosses, Issuing

(* Types. *)
FileTypes ==
    /\ ledger \subseteq Name \X Serial /\ certs \subseteq Name \X Serial
    /\ crt \in [Name -> Serial \cup {None}]
    /\ denied \subseteq Serial /\ restored \subseteq Serial /\ drawn \subseteq Serial
    /\ invites \in [Token -> Name \cup {"none", "spent"}] /\ expired \subseteq Token
    /\ redeemed \in [Token -> SUBSET Serial]

LockTypes == denyLock \in Proc \cup {NoProc} /\ inviteLock \in Proc \cup {NoProc}

CallTypes ==
    /\ pc \in [Proc -> {"idle", "invites", "tokens", "serials", "current", "deny", "amend",
                        "append", "record", "write", "told"}]
    /\ op \in [Proc -> {"none", "issue", "revoke", "unrevoke", "invite", "redeem"}]
    /\ nm \in [Proc -> Name \cup {None}] /\ token \in [Proc -> Token \cup {None}]
    /\ new \in [Proc -> Serial \cup {None}]

WorkTypes ==
    /\ todo \in [Proc -> SUBSET Serial]
    /\ ledgerCopy \in [Proc -> SUBSET (Name \X Serial)]
    /\ denyCopy \in [Proc -> SUBSET Serial]
    /\ inviteCopy \in [Proc -> [Token -> Name \cup {"none", "spent"}]]
    /\ due \in [Proc -> SUBSET Serial]

LEMMA TypeParts == TypeOK <=> FileTypes /\ LockTypes /\ CallTypes /\ WorkTypes /\ crossed \in BOOLEAN
  BY DEF TypeOK, FileTypes, LockTypes, CallTypes, WorkTypes

LEMMA TypePartsNext ==
    TypeOK' <=> FileTypes' /\ LockTypes' /\ CallTypes' /\ WorkTypes' /\ (crossed \in BOOLEAN)'
  BY DEF TypeOK, FileTypes, LockTypes, CallTypes, WorkTypes

LEMMA CallsStep ==
    ASSUME CallTypes, Calls, FileTypes, WorkTypes, [Next]_vars
    PROVE  CallTypes' /\ Calls'
<1>1. CASE UNCHANGED vars
  BY <1>1 DEF vars, call, CallTypes, Calls
<1>2. ASSUME NEW p \in Proc, Command(p)
      PROVE  CallTypes' /\ Calls'
  BY <1>2 DEF Command, StartIssue, StartRevoke, StartUnrevoke, StartInvite, Begin, Goto, Put,
              CallTypes, Calls
<1>3. ASSUME NEW t \in Token, StartRedeem(t)
      PROVE  CallTypes' /\ Calls'
  BY <1>3, CredentialAssumption DEF StartRedeem, Begin, Goto, Put, CallTypes, Calls
<1>4. ASSUME NEW p \in Proc, LoadInvites(p) \/ LoadDenied(p) \/ LoadLedger(p) \/ SaveLedger(p)
                              \/ WriteCert(p)
      PROVE  CallTypes' /\ Calls'
  BY <1>4 DEF LoadInvites, LoadDenied, LoadLedger, SaveLedger, WriteCert, Goto, call, CallTypes, Calls
<1>5. ASSUME NEW p \in Proc, ReadLedger(p) \/ ReadCurrent(p)
      PROVE  CallTypes' /\ Calls'
  BY <1>5 DEF ReadLedger, ReadCurrent, Put, call, CallTypes, Calls
<1>6. ASSUME NEW p \in Proc, Return(p)
      PROVE  CallTypes' /\ Calls'
  BY <1>6 DEF Return, Put, CallTypes, Calls
<1>7. ASSUME NEW p \in Proc, NEW t \in Token, Generate(p, t)
      PROVE  CallTypes' /\ Calls'
  BY <1>7 DEF Generate, Goto, call, CallTypes, Calls
<1>8. ASSUME NEW p \in Proc, NEW s \in Serial, Redeem(p, s)
      PROVE  CallTypes' /\ Calls'
  BY <1>8 DEF Redeem, Goto, Put, CallTypes, Calls
<1>9. ASSUME NEW p \in Proc, NEW s \in Serial, Add(p, s) \/ RemoveSerial(p, s)
      PROVE  CallTypes' /\ Calls'
  BY <1>9 DEF Add, RemoveSerial, SaveDenied, Goto, Put, call, CallTypes, Calls
<1>10. ASSUME NEW t \in Token, Expire(t)
       PROVE  CallTypes' /\ Calls'
  BY <1>10 DEF Expire, call, CallTypes, Calls
<1>11. QED
  BY <1>1, <1>2, <1>3, <1>4, <1>5, <1>6, <1>7, <1>8, <1>9, <1>10, StepCases DEF Commands

LEMMA RestStep ==
    ASSUME TypeOK, Calls, [Next]_vars
    PROVE  FileTypes' /\ LockTypes' /\ WorkTypes'
<1> USE TypeParts
<1>1. CASE UNCHANGED vars
  BY <1>1 DEF vars, files, locks, copies, ghosts, FileTypes, LockTypes, WorkTypes
<1>2. ASSUME NEW p \in Proc, Command(p)
      PROVE  FileTypes' /\ LockTypes' /\ WorkTypes'
  <2>1. UNCHANGED <<files, expired, locks, copies, certs, restored, redeemed, todo>>
    BY <1>2, CommandsFrame DEF Commands
  <2>2. drawn' \subseteq Serial
    BY <1>2 DEF Command, StartIssue, StartRevoke, StartUnrevoke, StartInvite, FileTypes
  <2>3. due' \in [Proc -> SUBSET Serial]
    <3>1. \A n : SerialsOf(certs, n) \in SUBSET Serial
      BY DEF SerialsOf
    <3>2. QED
      BY <1>2, <3>1 DEF Command, StartIssue, StartRevoke, StartUnrevoke, StartInvite, Put, WorkTypes
  <2>4. QED
    BY <2>1, <2>2, <2>3 DEF files, locks, copies, FileTypes, LockTypes, WorkTypes
<1>3. ASSUME NEW t \in Token, StartRedeem(t) \/ Expire(t)
      PROVE  FileTypes' /\ LockTypes' /\ WorkTypes'
  BY <1>3 DEF StartRedeem, Expire, files, locks, copies, ghosts, FileTypes, LockTypes, WorkTypes
<1>4. ASSUME NEW p \in Proc, LoadInvites(p) \/ LoadDenied(p) \/ LoadLedger(p) \/ SaveLedger(p)
                              \/ WriteCert(p)
      PROVE  FileTypes' /\ LockTypes' /\ WorkTypes'
  <2>1. CASE SaveLedger(p) \/ WriteCert(p)
    <3>1. op[p] = "issue" /\ nm[p] \in Name /\ new[p] \in Serial
      BY <2>1 DEF SaveLedger, WriteCert, Goto, Calls
    <3>2. CASE SaveLedger(p)
      BY <3>1, <3>2 DEF SaveLedger, Put, locks, ghosts, FileTypes, LockTypes, WorkTypes
    <3>3. CASE WriteCert(p)
      BY <3>1, <3>3 DEF WriteCert, locks, copies, FileTypes, LockTypes, WorkTypes
    <3>4. QED
      BY <2>1, <3>2, <3>3
  <2>2. CASE LoadInvites(p) \/ LoadDenied(p) \/ LoadLedger(p)
    BY <2>2 DEF LoadInvites, LoadDenied, LoadLedger, Put, files, locks, copies, ghosts,
                FileTypes, LockTypes, WorkTypes
  <2>3. QED
    BY <1>4, <2>1, <2>2
<1>5. ASSUME NEW p \in Proc, ReadLedger(p) \/ ReadCurrent(p)
      PROVE  FileTypes' /\ LockTypes' /\ WorkTypes'
  <2>1. UNCHANGED <<files, expired, locks, copies, ghosts, drawn, due>>
    BY <1>5 DEF ReadLedger, ReadCurrent
  <2>2. todo' \in [Proc -> SUBSET Serial]
    <3>1. CASE ReadLedger(p)
      BY <3>1 DEF ReadLedger, Put, SerialsOf, WorkTypes
    <3>2. CASE ReadCurrent(p)
      BY <3>2 DEF ReadCurrent, Put, WorkTypes, FileTypes, Calls
    <3>3. QED
      BY <1>5, <3>1, <3>2
  <2>3. QED
    BY <2>1, <2>2 DEF files, locks, copies, ghosts, FileTypes, LockTypes, WorkTypes
<1>6. ASSUME NEW p \in Proc, Return(p)
      PROVE  FileTypes' /\ LockTypes' /\ WorkTypes'
  BY <1>6 DEF Return, Put, FreedOf, files, ghosts, FileTypes, LockTypes, WorkTypes
<1>7. ASSUME NEW p \in Proc, NEW t \in Token, Generate(p, t)
      PROVE  FileTypes' /\ LockTypes' /\ WorkTypes'
  BY <1>7 DEF Generate, Goto, SaveInvites, pruneExpired, Put, Calls, FileTypes, LockTypes, WorkTypes
<1>8. ASSUME NEW p \in Proc, NEW s \in Serial, Redeem(p, s)
      PROVE  FileTypes' /\ LockTypes' /\ WorkTypes'
  BY <1>8 DEF Redeem, SaveInvites, Put, FileTypes, LockTypes, WorkTypes
<1>9. ASSUME NEW p \in Proc, NEW s \in Serial, Add(p, s) \/ RemoveSerial(p, s)
      PROVE  FileTypes' /\ LockTypes' /\ WorkTypes'
  <2>1. denyCopy[p] \subseteq Serial /\ todo[p] \subseteq Serial
    BY DEF WorkTypes
  <2>2. UNCHANGED <<ledger, certs, crt, invites, expired, drawn, redeemed, inviteLock, ledgerCopy,
                    inviteCopy>>
    BY <1>9 DEF Add, RemoveSerial, SaveDenied
  <2>3. denied' \subseteq Serial /\ denyLock' = NoProc
    BY <1>9, <2>1 DEF Add, RemoveSerial, SaveDenied
  <2>4. denyCopy' \in [Proc -> SUBSET Serial] /\ todo' \in [Proc -> SUBSET Serial]
    BY <1>9, <2>1 DEF Add, RemoveSerial, SaveDenied, Put, WorkTypes
  <2>5. restored' \subseteq Serial /\ due' \in [Proc -> SUBSET Serial]
    BY <1>9 DEF Add, RemoveSerial, FileTypes, WorkTypes
  <2>6. QED
    BY <2>2, <2>3, <2>4, <2>5 DEF FileTypes, LockTypes, WorkTypes
<1>10. QED
  BY <1>1, <1>2, <1>3, <1>4, <1>5, <1>6, <1>7, <1>8, <1>9, StepCases DEF Commands

(* Un-revoking names one serial. *)
OneToRestore ==
    \A p \in Proc : op[p] = "unrevoke" /\ pc[p] \in {"deny", "amend"} =>
        \E s \in Serial : todo[p] = {s}

LEMMA LockedStep ==
    ASSUME TypeOK, Calls, Locked, [Next]_vars
    PROVE  Locked'
<1> USE TypeParts, CredentialAssumption
<1>1. CASE UNCHANGED vars
  BY <1>1 DEF vars, files, locks, copies, Locked
<1>2. ASSUME NEW p \in Proc, Command(p)
      PROVE  Locked'
  BY <1>2 DEF Command, StartIssue, StartRevoke, StartUnrevoke, StartInvite, Begin, Goto,
              files, locks, copies, Locked, CallTypes
<1>3. ASSUME NEW t \in Token, StartRedeem(t) \/ Expire(t)
      PROVE  Locked'
  BY <1>3 DEF StartRedeem, Expire, Begin, Goto, files, locks, copies, Locked, CallTypes
<1>4. ASSUME NEW p \in Proc, LoadInvites(p) \/ LoadDenied(p)
      PROVE  Locked'
  BY <1>4 DEF LoadInvites, LoadDenied, Goto, Put, files, Locked, CallTypes, WorkTypes
<1>5. ASSUME NEW p \in Proc, LoadLedger(p) \/ SaveLedger(p) \/ WriteCert(p)
                              \/ ReadLedger(p) \/ ReadCurrent(p)
      PROVE  Locked'
  BY <1>5 DEF LoadLedger, SaveLedger, WriteCert, ReadLedger, ReadCurrent, Goto, Put, files, locks,
              copies, Locked, CallTypes
<1>6. ASSUME NEW p \in Proc, Return(p)
      PROVE  Locked'
  BY <1>6 DEF Return, Put, FreedOf, files, Locked, CallTypes, WorkTypes
<1>7. ASSUME NEW p \in Proc, NEW t \in Token, Generate(p, t)
      PROVE  Locked'
  BY <1>7 DEF Generate, Goto, SaveInvites, Put, Locked, CallTypes, WorkTypes
<1>8. ASSUME NEW p \in Proc, NEW s \in Serial, Redeem(p, s)
      PROVE  Locked'
  BY <1>8 DEF Redeem, Goto, SaveInvites, Put, Locked, CallTypes, WorkTypes
<1>9. ASSUME NEW p \in Proc, NEW s \in Serial, Add(p, s) \/ RemoveSerial(p, s)
      PROVE  Locked'
  BY <1>9 DEF Add, RemoveSerial, SaveDenied, Goto, Put, Locked, CallTypes, WorkTypes
<1>10. QED
  BY <1>1, <1>2, <1>3, <1>4, <1>5, <1>6, <1>7, <1>8, <1>9, StepCases DEF Commands

LEMMA OneToRestoreStep ==
    ASSUME TypeOK, Calls, OneToRestore, [Next]_vars
    PROVE  OneToRestore'
<1> USE TypeParts
<1>1. CASE UNCHANGED vars
  BY <1>1 DEF vars, call, OneToRestore
<1>2. ASSUME NEW p \in Proc, Command(p)
      PROVE  OneToRestore'
  BY <1>2 DEF Command, StartIssue, StartRevoke, StartUnrevoke, StartInvite, Begin, Goto, Put,
              OneToRestore, CallTypes
<1>3. ASSUME NEW t \in Token, StartRedeem(t) \/ Expire(t)
      PROVE  OneToRestore'
  BY <1>3, CredentialAssumption DEF StartRedeem, Expire, Begin, Goto, Put, call, OneToRestore, CallTypes
<1>4. ASSUME NEW p \in Proc, LoadInvites(p) \/ LoadDenied(p) \/ LoadLedger(p) \/ SaveLedger(p)
                              \/ WriteCert(p)
      PROVE  OneToRestore'
  BY <1>4 DEF LoadInvites, LoadDenied, LoadLedger, SaveLedger, WriteCert, Goto, call, OneToRestore,
              CallTypes
<1>5. ASSUME NEW p \in Proc, ReadLedger(p) \/ ReadCurrent(p)
      PROVE  OneToRestore'
  <2>1. CASE ReadLedger(p)
    BY <2>1 DEF ReadLedger, Put, call, OneToRestore, Calls, CallTypes, WorkTypes
  <2>2. CASE ReadCurrent(p)
    <3>1. UNCHANGED op /\ pc[p] = "current"
      BY <2>2 DEF ReadCurrent, call
    <3>2. CASE crt[nm[p]] # None
      <4>1. crt[nm[p]] \in Serial
        BY <3>1, <3>2 DEF Calls, FileTypes
      <4>2. pc' = [pc EXCEPT ![p] = "deny"] /\ todo' = [todo EXCEPT ![p] = {crt[nm[p]]}]
        BY <2>2, <3>2 DEF ReadCurrent, Put
      <4>3. QED
        BY <3>1, <4>1, <4>2 DEF OneToRestore, CallTypes, WorkTypes
    <3>3. CASE crt[nm[p]] = None
      BY <2>2, <3>1, <3>3 DEF ReadCurrent, Put, OneToRestore, CallTypes
    <3>4. QED
      BY <3>2, <3>3
  <2>3. QED
    BY <1>5, <2>1, <2>2
<1>6. ASSUME NEW p \in Proc, Return(p)
      PROVE  OneToRestore'
  BY <1>6 DEF Return, Put, OneToRestore, CallTypes, WorkTypes
<1>7. ASSUME NEW p \in Proc, NEW t \in Token, Generate(p, t)
      PROVE  OneToRestore'
  BY <1>7 DEF Generate, Goto, SaveInvites, call, OneToRestore, CallTypes
<1>8. ASSUME NEW p \in Proc, NEW s \in Serial, Redeem(p, s)
      PROVE  OneToRestore'
  BY <1>8 DEF Redeem, Goto, SaveInvites, Put, OneToRestore, CallTypes
<1>9. ASSUME NEW p \in Proc, NEW s \in Serial, Add(p, s) \/ RemoveSerial(p, s)
      PROVE  OneToRestore'
  <2>1. CASE Add(p, s)
    <3>1. op[p] # "unrevoke" /\ UNCHANGED op
      BY <2>1 DEF Add, SaveDenied, call
    <3>2. \A q \in Proc \ {p} : pc'[q] = pc[q] /\ todo'[q] = todo[q]
      BY <2>1 DEF Add, Put, CallTypes, WorkTypes
    <3>3. QED
      BY <3>1, <3>2 DEF OneToRestore
  <2>2. CASE RemoveSerial(p, s)
    <3>1. pc'[p] = "told" /\ UNCHANGED op
      BY <2>2 DEF RemoveSerial, SaveDenied, Goto, call, CallTypes
    <3>2. \A q \in Proc \ {p} : pc'[q] = pc[q] /\ todo'[q] = todo[q]
      BY <2>2 DEF RemoveSerial, Goto, Put, CallTypes, WorkTypes
    <3>3. QED
      BY <3>1, <3>2 DEF OneToRestore
  <2>3. QED
    BY <1>9, <2>1, <2>2
<1>10. QED
  BY <1>1, <1>2, <1>3, <1>4, <1>5, <1>6, <1>7, <1>8, <1>9, StepCases DEF Commands

(* A token that was redeemed stays spent. *)
Spent == \A t \in Token : redeemed[t] # {} => invites[t] = "spent"

LEMMA SpentStep ==
    ASSUME TypeOK, Locked, Spent, TokenIssuesOnce, [Next]_vars
    PROVE  Spent' /\ TokenIssuesOnce'
<1> USE TypeParts, CredentialAssumption
<1>1. CASE UNCHANGED <<invites, redeemed>>
  BY <1>1 DEF Spent, TokenIssuesOnce
<1>2. ASSUME NEW p \in Proc, NEW t \in Token, Generate(p, t)
      PROVE  Spent' /\ TokenIssuesOnce'
  <2>1. inviteCopy[p] = invites /\ invites[t] = "none"
    BY <1>2 DEF Generate, Goto, Locked
  <2>2. UNCHANGED redeemed
    BY <1>2 DEF Generate
  <2>3. ASSUME NEW u \in Token, invites[u] = "spent"
        PROVE  invites'[u] = "spent"
    BY <1>2, <2>1, <2>3 DEF Generate, SaveInvites, pruneExpired, FileTypes
  <2>4. QED
    BY <2>2, <2>3 DEF Spent, TokenIssuesOnce
<1>3. ASSUME NEW p \in Proc, NEW s \in Serial, Redeem(p, s)
      PROVE  Spent' /\ TokenIssuesOnce'
  <2>1. inviteCopy[p] = invites /\ invites[token[p]] \in Name
    BY <1>3 DEF Redeem, Goto, Locked
  <2>2. token[p] \in Token => redeemed[token[p]] = {}
    BY <2>1 DEF Spent
  <2>3. invites' = [invites EXCEPT ![token[p]] = "spent"]
        /\ redeemed' = [redeemed EXCEPT ![token[p]] = @ \cup {s}]
    BY <1>3, <2>1 DEF Redeem, SaveInvites
  <2>4. QED
    BY <2>2, <2>3 DEF Spent, TokenIssuesOnce, FileTypes
<1>4. QED
  <2>1. Commands => UNCHANGED <<invites, redeemed>>
    BY CommandsFrame DEF files
  <2>2. ASSUME NEW p \in Proc,
               \/ LoadInvites(p) \/ ReadLedger(p) \/ ReadCurrent(p) \/ LoadDenied(p)
               \/ LoadLedger(p) \/ SaveLedger(p) \/ WriteCert(p) \/ Return(p)
               \/ \E s \in Serial : Add(p, s) \/ RemoveSerial(p, s)
        PROVE  UNCHANGED <<invites, redeemed>>
    BY <2>2 DEF LoadInvites, ReadLedger, ReadCurrent, LoadDenied, LoadLedger, SaveLedger, WriteCert,
                Return, Add, RemoveSerial, SaveDenied, files, ghosts
  <2>3. (\E t \in Token : Expire(t)) \/ UNCHANGED vars => UNCHANGED <<invites, redeemed>>
    BY DEF Expire, vars, files, ghosts
  <2>4. QED
    BY <1>1, <1>2, <1>3, <2>1, <2>2, <2>3, StepCases

-----------------------------------------------------------------------------
(* The certificates, as long as issuing commands have not crossed: then one issuing
   command is under way at a time, and the properties hold outright. *)
Safe == denied \cup LostSight

OneLiveNow == \A n \in Name : SerialsOf(certs, n) \ {crt[n]} \subseteq Safe

One ==
    \A p, q \in Proc :
        op[p] \in {"issue", "unrevoke"} /\ op[q] \in {"issue", "unrevoke"} => p = q

(* A drawn serial number is no certificate's until its command writes it. *)
Fresh ==
    /\ \A n \in Name, s \in Serial : <<n, s>> \in certs => s \in drawn
    /\ \A p \in Proc : op[p] = "issue" =>
        /\ new[p] \in drawn
        /\ pc[p] # "told" => \A n \in Name : <<n, new[p]>> \notin certs

(* A certificate is one name's, and a name with certificates has one on disk. *)
Owned ==
    /\ \A m, n \in Name, s \in Serial : <<m, s>> \in certs /\ <<n, s>> \in certs => m = n
    /\ \A n \in Name : crt[n] # None => <<n, crt[n]>> \in certs
    /\ \A n \in Name, s \in Serial : <<n, s>> \in certs => crt[n] # None

Target ==
    \A p \in Proc : op[p] = "unrevoke" /\ pc[p] \in {"deny", "amend"} => todo[p] = {crt[nm[p]]}

Recorded ==
    \A p \in Proc :
        /\ pc[p] = "record" => ledgerCopy[p] = ledger
        /\ pc[p] = "write" => <<nm[p], new[p]>> \in ledger

(* A name is in the ledger only when its older certificate was superseded. *)
FirstSuperseded ==
    \A n \in Name, s \in Serial : <<n, s>> \in ledger /\ Before[n] # None => Before[n] \in Safe

(* How far an issuing command has come with denying what it replaces. *)
Superseded ==
    \A p \in Proc : op[p] = "issue" =>
        /\ pc[p] = "current" => SerialsOf(ledger, nm[p]) = {}
        /\ pc[p] \in {"deny", "amend"} => SerialsOf(certs, nm[p]) \subseteq todo[p] \cup Safe
        /\ pc[p] \in {"append", "record", "write"} => SerialsOf(certs, nm[p]) \subseteq Safe

(* How far a revoke has come with denying what there was. *)
CuttingOff ==
    \A p \in Proc : op[p] = "revoke" =>
        /\ due[p] \subseteq SerialsOf(certs, nm[p])
        /\ pc[p] = "current" => due[p] \subseteq {Before[nm[p]]}
        /\ pc[p] \in {"deny", "amend"} => due[p] \subseteq todo[p] \cup Safe
        /\ pc[p] = "told" => due[p] \subseteq Safe

(* What a step does to the files and to the certificates there are. *)
LEMMA Effects ==
    ASSUME TypeOK, Calls, Locked, [Next]_vars
    PROVE  \/ UNCHANGED <<ledger, certs, crt, denied, restored>>
           \/ \E p \in Proc, s \in Serial :
                /\ Add(p, s) /\ denied' = denied \cup {s}
                /\ UNCHANGED <<ledger, certs, crt, restored>>
           \/ \E p \in Proc, s \in Serial :
                /\ RemoveSerial(p, s) /\ todo[p] = todo[p] \cup {s}
                /\ denied' = denied \ {s} /\ restored' = restored \cup ({s} \cap denied)
                /\ UNCHANGED <<ledger, certs, crt>>
           \/ \E p \in Proc :
                SaveLedger(p) /\ UNCHANGED <<certs, crt, denied, restored>>
           \/ \E p \in Proc :
                WriteCert(p) /\ UNCHANGED <<ledger, denied, restored>>
<1>1. Commands => UNCHANGED <<ledger, certs, crt, denied, restored>>
  BY CommandsFrame DEF files
<1>2. ASSUME NEW p \in Proc,
             \/ LoadInvites(p) \/ ReadLedger(p) \/ ReadCurrent(p) \/ LoadDenied(p)
             \/ LoadLedger(p) \/ Return(p) \/ (\E t \in Token : Generate(p, t))
             \/ \E s \in Serial : Redeem(p, s)
      PROVE  UNCHANGED <<ledger, certs, crt, denied, restored>>
  BY <1>2 DEF LoadInvites, ReadLedger, ReadCurrent, LoadDenied, LoadLedger, Return, Generate,
              Redeem, SaveInvites, files, ghosts
<1>3. (\E t \in Token : Expire(t)) \/ UNCHANGED vars
      => UNCHANGED <<ledger, certs, crt, denied, restored>>
  BY DEF Expire, vars, files, ghosts
<1>4. ASSUME NEW p \in Proc, NEW s \in Serial, Add(p, s)
      PROVE  denied' = denied \cup {s} /\ UNCHANGED <<ledger, certs, crt, restored>>
  BY <1>4 DEF Add, SaveDenied, Locked
<1>5. ASSUME NEW p \in Proc, NEW s \in Serial, RemoveSerial(p, s)
      PROVE  /\ todo[p] = todo[p] \cup {s}
             /\ denied' = denied \ {s} /\ restored' = restored \cup ({s} \cap denied)
             /\ UNCHANGED <<ledger, certs, crt>>
  BY <1>5 DEF RemoveSerial, SaveDenied, Goto, Locked
<1>6. ASSUME NEW p \in Proc, SaveLedger(p)
      PROVE  UNCHANGED <<certs, crt, denied, restored>>
  BY <1>6 DEF SaveLedger, ghosts
<1>7. ASSUME NEW p \in Proc, WriteCert(p)
      PROVE  UNCHANGED <<ledger, denied, restored>>
  BY <1>7 DEF WriteCert
<1>8. QED
  BY <1>1, <1>2, <1>3, <1>4, <1>5, <1>6, <1>7, StepCases

(* What is denied, or lost sight of, stays so, but for what is un-revoked. *)
LEMMA SafeStep ==
    ASSUME TypeOK, Calls, Locked, [Next]_vars, NEW r \in Safe, r \notin Safe'
    PROVE  (\E p \in Proc : RemoveSerial(p, r)) /\ \A n \in Name : Before[n] # r
  BY Effects DEF Safe, LostSight, TypeOK

LEMMA SafeKept ==
    ASSUME TypeOK, Calls, Locked, [Next]_vars, ~ \E p \in Proc, s \in Serial : RemoveSerial(p, s)
    PROVE  Safe \subseteq Safe'
  BY SafeStep DEF Safe, LostSight, TypeOK

LEMMA OneStep ==
    ASSUME ~crossed', TypeOK, One, [Next]_vars
    PROVE  One'
<1> USE TypeParts
<1>1. CASE UNCHANGED op
  BY <1>1 DEF One
<1>2. ASSUME NEW p \in Proc, Command(p)
      PROVE  One'
  <2>1. CASE (\E n \in Name, s \in Serial : StartIssue(p, n, s)) \/ \E n \in Name : StartUnrevoke(p, n)
    <3>1. \A q \in Proc \ {p} : op[q] \notin {"issue", "unrevoke"}
      BY <2>1, Uncrossed DEF StartIssue, StartUnrevoke
    <3>2. \A q \in Proc \ {p} : op'[q] = op[q]
      BY <2>1 DEF StartIssue, StartUnrevoke, Begin, Put, CallTypes
    <3> QED BY <3>1, <3>2 DEF One
  <2>2. CASE \E n \in Name : StartRevoke(p, n) \/ StartInvite(p, n)
    BY <2>2 DEF StartRevoke, StartInvite, Begin, Put, One, CallTypes
  <2> QED BY <1>2, <2>1, <2>2 DEF Command
<1>3. ASSUME NEW t \in Token, StartRedeem(t)
      PROVE  One'
  BY <1>3, CredentialAssumption DEF StartRedeem, Begin, Put, One, CallTypes
<1>4. ASSUME NEW p \in Proc, Return(p)
      PROVE  One'
  BY <1>4 DEF Return, Put, One, CallTypes
<1>5. ASSUME NEW p \in Proc, NEW s \in Serial, Redeem(p, s)
      PROVE  One'
  <2>1. \A q \in Proc \ {p} : op[q] \notin {"issue", "unrevoke"}
    BY <1>5, Uncrossed DEF Redeem
  <2>2. \A q \in Proc \ {p} : op'[q] = op[q]
    BY <1>5 DEF Redeem, Put, CallTypes
  <2> QED BY <2>1, <2>2 DEF One
<1>6. ASSUME NEW p \in Proc,
             \/ LoadInvites(p) \/ ReadLedger(p) \/ ReadCurrent(p) \/ LoadDenied(p)
             \/ LoadLedger(p) \/ SaveLedger(p) \/ WriteCert(p)
             \/ (\E t \in Token : Generate(p, t))
             \/ \E s \in Serial : Add(p, s) \/ RemoveSerial(p, s)
      PROVE  UNCHANGED op
  BY <1>6 DEF LoadInvites, ReadLedger, ReadCurrent, LoadDenied, LoadLedger, SaveLedger, WriteCert,
              Generate, Add, RemoveSerial, SaveDenied, call
<1>7. (\E t \in Token : Expire(t)) \/ UNCHANGED vars => UNCHANGED op
  BY DEF Expire, vars, call
<1>8. QED
  BY <1>1, <1>2, <1>3, <1>4, <1>5, <1>6, <1>7, StepCases DEF Commands

LEMMA OwnedStep ==
    ASSUME TypeOK, Calls, Locked, Fresh, Owned, [Next]_vars
    PROVE  Owned'
<1>1. CASE UNCHANGED <<certs, crt>>
  BY <1>1 DEF Owned
<1>2. ASSUME NEW p \in Proc, WriteCert(p)
      PROVE  Owned'
  <2>1. op[p] = "issue" /\ nm[p] \in Name /\ new[p] \in Serial /\ pc[p] = "write"
    BY <1>2 DEF WriteCert, Goto, Calls
  <2>2. certs' = certs \cup {<<nm[p], new[p]>>} /\ crt' = [crt EXCEPT ![nm[p]] = new[p]]
    BY <1>2 DEF WriteCert
  <2>3. \A n \in Name : <<n, new[p]>> \notin certs
    BY <2>1 DEF Fresh
  <2>4. QED
    BY <2>1, <2>2, <2>3, CredentialAssumption DEF Owned, TypeOK
<1>3. QED
  BY <1>1, <1>2, Effects

LEMMA CoversStep ==
    ASSUME TypeOK, Calls, Locked, Recorded, LedgerCoversCerts, [Next]_vars
    PROVE  LedgerCoversCerts'
<1>1. ASSUME NEW p \in Proc, SaveLedger(p)
      PROVE  ledger \subseteq ledger'
  BY <1>1 DEF SaveLedger, Goto, Recorded
<1>2. ASSUME NEW p \in Proc, WriteCert(p)
      PROVE  certs' \subseteq certs \cup ledger
  BY <1>2 DEF WriteCert, Goto, Recorded
<1>3. QED
  BY <1>1, <1>2, Effects DEF LedgerCoversCerts, Predating

LEMMA FirstSupersededStep ==
    ASSUME TypeOK, Calls, Locked, Recorded, Superseded, FirstSuperseded, Predating \subseteq certs,
           [Next]_vars
    PROVE  FirstSuperseded'
<1> SUFFICES ASSUME NEW n \in Name, NEW s \in Serial, <<n, s>> \in ledger', Before[n] # None
             PROVE  Before[n] \in Safe'
  BY DEF FirstSuperseded
<1>1. Before[n] \in Safe => Before[n] \in Safe'
  BY SafeStep
<1>2. CASE <<n, s>> \in ledger
  BY <1>1, <1>2 DEF FirstSuperseded
<1>3. ASSUME NEW p \in Proc, SaveLedger(p), <<n, s>> \notin ledger
      PROVE  Before[n] \in Safe
  <2>1. pc[p] = "record" /\ op[p] = "issue" /\ n = nm[p]
    BY <1>3 DEF SaveLedger, Goto, Recorded, Calls
  <2>2. Before[n] \in SerialsOf(certs, n)
    BY CredentialAssumption DEF Predating, SerialsOf
  <2>3. QED
    BY <2>1, <2>2 DEF Superseded
<1>4. QED
  BY <1>1, <1>2, <1>3, Effects DEF FirstSuperseded

LEMMA OneLiveStep ==
    ASSUME TypeOK, Calls, Locked, Owned, Target, Superseded, OneLiveNow, [Next]_vars
    PROVE  OneLiveNow'
<1> SUFFICES ASSUME NEW n \in Name, NEW r \in Serial, <<n, r>> \in certs', r # crt'[n]
             PROVE  r \in Safe'
  BY DEF OneLiveNow, SerialsOf
<1>1. ASSUME NEW p \in Proc, WriteCert(p)
      PROVE  r \in Safe'
  <2>1. pc[p] = "write" /\ op[p] = "issue" /\ nm[p] \in Name /\ new[p] \in Serial
    BY <1>1 DEF WriteCert, Goto, Calls
  <2>2. certs' = certs \cup {<<nm[p], new[p]>>} /\ crt' = [crt EXCEPT ![nm[p]] = new[p]]
    BY <1>1 DEF WriteCert
  <2>3. r \in Safe
    <3>1. <<n, r>> \in certs
      BY <2>1, <2>2 DEF TypeOK
    <3>2. CASE n = nm[p]
      BY <2>1, <3>1, <3>2 DEF Superseded, SerialsOf
    <3>3. CASE n # nm[p]
      BY <2>2, <3>1, <3>3 DEF OneLiveNow, SerialsOf, TypeOK
    <3>4. QED
      BY <3>2, <3>3
  <2>4. QED
    BY <1>1, <2>3, Effects DEF Safe, LostSight, WriteCert
<1>2. ASSUME UNCHANGED <<certs, crt>>
      PROVE  r \in Safe'
  <2>1. r \in Safe
    BY <1>2 DEF OneLiveNow, SerialsOf
  <2>2. ASSUME NEW p \in Proc, RemoveSerial(p, r)
        PROVE  FALSE
    <3>1. op[p] = "unrevoke" /\ pc[p] = "amend" /\ r \in todo[p] /\ nm[p] \in Name
      BY <2>2 DEF RemoveSerial, Goto, Calls
    <3>2. r = crt[nm[p]]
      BY <3>1 DEF Target
    <3>3. <<nm[p], r>> \in certs
      BY <3>1, <3>2, CredentialAssumption DEF Owned
    <3>4. n = nm[p]
      BY <1>2, <3>1, <3>3 DEF Owned
    <3>5. QED
      BY <1>2, <3>2, <3>4
  <2>3. QED
    BY <2>1, <2>2, SafeStep
<1>3. QED
  BY <1>1, <1>2, Effects

LEMMA FreshStep ==
    ASSUME TypeOK, Calls, One, Fresh, [Next]_vars
    PROVE  Fresh'
<1> USE TypeParts
<1>1. CASE UNCHANGED <<pc, op, new, drawn, certs>>
  BY <1>1 DEF Fresh
<1>2. ASSUME NEW p \in Proc, Command(p)
      PROVE  Fresh'
  BY <1>2 DEF Command, StartIssue, StartRevoke, StartUnrevoke, StartInvite, Begin, Goto, Put,
              ghosts, Fresh, Calls, CallTypes
<1>3. ASSUME NEW t \in Token, StartRedeem(t)
      PROVE  Fresh'
  BY <1>3, CredentialAssumption DEF StartRedeem, Begin, Goto, Put, ghosts, Fresh, Calls, CallTypes
<1>4. ASSUME NEW p \in Proc,
             \/ LoadInvites(p) \/ ReadLedger(p) \/ ReadCurrent(p) \/ LoadDenied(p)
             \/ LoadLedger(p) \/ SaveLedger(p) \/ (\E t \in Token : Generate(p, t))
             \/ \E s \in Serial : Add(p, s) \/ RemoveSerial(p, s)
      PROVE  Fresh'
  <2>1. UNCHANGED <<op, new, drawn, certs>>
    BY <1>4 DEF LoadInvites, ReadLedger, ReadCurrent, LoadDenied, LoadLedger, SaveLedger, Generate,
                SaveInvites, Add, RemoveSerial, SaveDenied, call, ghosts
  <2>2. \A q \in Proc : pc[q] = "told" => pc'[q] = "told"
    BY <1>4 DEF LoadInvites, ReadLedger, ReadCurrent, LoadDenied, LoadLedger, SaveLedger, Generate,
                Add, RemoveSerial, Goto, Put, CallTypes
  <2>3. QED
    BY <2>1, <2>2 DEF Fresh
<1>5. ASSUME NEW p \in Proc, WriteCert(p)
      PROVE  Fresh'
  <2>1. pc[p] = "write" /\ op[p] = "issue" /\ new[p] \in drawn
    BY <1>5 DEF WriteCert, Goto, Calls, Fresh
  <2>2. UNCHANGED <<op, new, drawn>> /\ certs' = certs \cup {<<nm[p], new[p]>>}
        /\ pc'[p] = "told"
    BY <1>5 DEF WriteCert, Goto, call, CallTypes
  <2>3. \A q \in Proc : op[q] = "issue" => q = p
    BY <2>1 DEF One
  <2>4. QED
    BY <2>1, <2>2, <2>3 DEF Fresh
<1>6. ASSUME NEW p \in Proc, Return(p)
      PROVE  Fresh'
  BY <1>6 DEF Return, Put, ghosts, Fresh, CallTypes
<1>7. ASSUME NEW p \in Proc, NEW s \in Serial, Redeem(p, s)
      PROVE  Fresh'
  BY <1>7 DEF Redeem, SaveInvites, Goto, Put, Fresh, CallTypes
<1>8. (\E t \in Token : Expire(t)) \/ UNCHANGED vars => UNCHANGED <<pc, op, new, drawn, certs>>
  BY DEF Expire, vars, call, ghosts
<1>9. QED
  BY <1>1, <1>2, <1>3, <1>4, <1>5, <1>6, <1>7, <1>8, StepCases DEF Commands

LEMMA TargetStep ==
    ASSUME TypeOK, Calls, One, Target, [Next]_vars
    PROVE  Target'
<1> USE TypeParts
<1>1. CASE UNCHANGED vars
  BY <1>1 DEF vars, files, call, Target
<1>2. ASSUME NEW p \in Proc, Command(p) \/ Return(p)
      PROVE  Target'
  <2>1. CASE Command(p)
    <3>1. UNCHANGED <<crt, todo>> /\ pc'[p] \notin {"deny", "amend"}
      BY <2>1 DEF Command, StartIssue, StartRevoke, StartUnrevoke, StartInvite, Begin, Goto,
                  files, CallTypes
    <3>2. \A q \in Proc \ {p} : pc'[q] = pc[q] /\ op'[q] = op[q] /\ nm'[q] = nm[q]
      BY <2>1 DEF Command, StartIssue, StartRevoke, StartUnrevoke, StartInvite, Begin, Goto,
                  Put, CallTypes
    <3> QED BY <3>1, <3>2 DEF Target
  <2>2. CASE Return(p)
    BY <2>2 DEF Return, Put, files, Target, CallTypes, WorkTypes
  <2> QED BY <1>2, <2>1, <2>2
<1>3. ASSUME NEW t \in Token, StartRedeem(t) \/ Expire(t)
      PROVE  Target'
  BY <1>3, CredentialAssumption DEF StartRedeem, Expire, Begin, Goto, Put, files, call, Target,
              CallTypes
<1>4. ASSUME NEW p \in Proc, LoadInvites(p) \/ LoadDenied(p) \/ LoadLedger(p) \/ SaveLedger(p)
                              \/ \E t \in Token : Generate(p, t)
      PROVE  Target'
  BY <1>4 DEF LoadInvites, LoadDenied, LoadLedger, SaveLedger, Generate, SaveInvites, Goto, files,
              call, Target, CallTypes
<1>5. ASSUME NEW p \in Proc, ReadLedger(p)
      PROVE  Target'
  BY <1>5 DEF ReadLedger, Put, files, call, Calls, Target, CallTypes, WorkTypes
<1>6. ASSUME NEW p \in Proc, ReadCurrent(p)
      PROVE  Target'
  <2>1. UNCHANGED <<op, nm, crt>> /\ pc[p] = "current"
    BY <1>6 DEF ReadCurrent, files, call
  <2>2. \A q \in Proc \ {p} : pc'[q] = pc[q] /\ todo'[q] = todo[q]
    BY <1>6 DEF ReadCurrent, Put, CallTypes, WorkTypes
  <2>3. op[p] = "unrevoke" => todo'[p] = {crt[nm[p]]}
    BY <1>6 DEF ReadCurrent, Put, WorkTypes
  <2>4. QED
    BY <2>1, <2>2, <2>3 DEF Target
<1>7. ASSUME NEW p \in Proc, WriteCert(p)
      PROVE  Target'
  <2>1. op[p] = "issue" /\ UNCHANGED op
    BY <1>7 DEF WriteCert, Goto, Calls, call
  <2>2. \A q \in Proc : op[q] # "unrevoke"
    BY <2>1 DEF One
  <2>3. QED
    BY <2>1, <2>2 DEF Target
<1>8. ASSUME NEW p \in Proc, NEW s \in Serial, Add(p, s) \/ RemoveSerial(p, s)
      PROVE  Target'
  <2>1. UNCHANGED <<op, nm, crt>> /\ (op[p] = "unrevoke" => pc'[p] = "told")
    BY <1>8 DEF Add, RemoveSerial, SaveDenied, Goto, call, CallTypes
  <2>2. \A q \in Proc \ {p} : pc'[q] = pc[q] /\ todo'[q] = todo[q]
    BY <1>8 DEF Add, RemoveSerial, Goto, Put, CallTypes, WorkTypes
  <2>3. QED
    BY <2>1, <2>2 DEF Target
<1>9. ASSUME NEW p \in Proc, NEW s \in Serial, Redeem(p, s)
      PROVE  Target'
  BY <1>9 DEF Redeem, SaveInvites, Goto, Put, Target, CallTypes
<1>10. QED
  BY <1>1, <1>2, <1>3, <1>4, <1>5, <1>6, <1>7, <1>8, <1>9, StepCases DEF Commands

LEMMA RecordedStep ==
    ASSUME TypeOK, Calls, One, Recorded, [Next]_vars
    PROVE  Recorded'
<1> USE TypeParts
<1>1. CASE UNCHANGED vars
  BY <1>1 DEF vars, files, copies, call, Recorded
<1>2. ASSUME NEW p \in Proc, Command(p) \/ Return(p)
      PROVE  Recorded'
  <2>1. UNCHANGED ledger /\ pc'[p] \notin {"record", "write"}
    BY <1>2 DEF Command, StartIssue, StartRevoke, StartUnrevoke, StartInvite, Return, Begin, Goto,
                Put, files, CallTypes
  <2>2. \A q \in Proc \ {p} : pc'[q] = pc[q] /\ nm'[q] = nm[q] /\ new'[q] = new[q]
    BY <1>2 DEF Command, StartIssue, StartRevoke, StartUnrevoke, StartInvite, Return, Begin, Goto,
                Put, CallTypes, WorkTypes
  <2>2a. \A q \in Proc \ {p} : ledgerCopy'[q] = ledgerCopy[q]
    BY <1>2 DEF Command, StartIssue, StartRevoke, StartUnrevoke, StartInvite, Return,
                Put, copies, CallTypes, WorkTypes
  <2>3. QED
    BY <2>1, <2>2, <2>2a DEF Recorded
<1>3. ASSUME NEW t \in Token, StartRedeem(t) \/ Expire(t)
      PROVE  Recorded'
  BY <1>3, CredentialAssumption DEF StartRedeem, Expire, Begin, Goto, Put, files, copies, call,
              Recorded, CallTypes
<1>4. ASSUME NEW p \in Proc,
             \/ LoadInvites(p) \/ ReadLedger(p) \/ ReadCurrent(p) \/ LoadDenied(p) \/ WriteCert(p)
             \/ (\E t \in Token : Generate(p, t))
             \/ \E s \in Serial : Add(p, s) \/ RemoveSerial(p, s)
      PROVE  Recorded'
  <2>1. UNCHANGED <<nm, new, ledger, ledgerCopy>>
    BY <1>4 DEF LoadInvites, ReadLedger, ReadCurrent, LoadDenied, WriteCert, Generate,
                SaveInvites, Add, RemoveSerial, SaveDenied, files, copies, call
  <2>2. \A q \in Proc : pc'[q] = pc[q] \/ pc'[q] \notin {"record", "write"}
    BY <1>4 DEF LoadInvites, ReadLedger, ReadCurrent, LoadDenied, WriteCert, Generate,
                Add, RemoveSerial, Goto, Put, CallTypes
  <2>3. QED
    BY <2>1, <2>2 DEF Recorded
<1>5. ASSUME NEW p \in Proc, LoadLedger(p)
      PROVE  Recorded'
  BY <1>5 DEF LoadLedger, Goto, Put, files, call, Recorded, CallTypes, WorkTypes
<1>6. ASSUME NEW p \in Proc, SaveLedger(p)
      PROVE  Recorded'
  <2>1. op[p] = "issue" /\ pc[p] = "record" /\ UNCHANGED <<nm, new>>
    BY <1>6 DEF SaveLedger, Goto, Calls, call
  <2>2. \A q \in Proc \ {p} : pc'[q] \notin {"record", "write"}
    BY <1>6, <2>1 DEF SaveLedger, Goto, One, Calls, CallTypes
  <2>3. pc'[p] = "write" /\ <<nm[p], new[p]>> \in ledger'
    BY <1>6 DEF SaveLedger, Goto, CallTypes
  <2>4. QED
    BY <2>1, <2>2, <2>3 DEF Recorded
<1>7. ASSUME NEW p \in Proc, NEW s \in Serial, Redeem(p, s)
      PROVE  Recorded'
  BY <1>7 DEF Redeem, SaveInvites, Goto, Put, Recorded, CallTypes
<1>8. QED
  BY <1>1, <1>2, <1>3, <1>4, <1>5, <1>6, <1>7, StepCases DEF Commands

(* A step is some process's, or a token's expiry, and leaves the other processes
   where they were. *)
Actor(p) == Command(p) \/ Step(p) \/ Return(p) \/ (p = Bot /\ \E t \in Token : StartRedeem(t))

LEMMA ActorCases ==
    ASSUME Next
    PROVE  (\E p \in Proc : Actor(p)) \/ \E t \in Token : Expire(t)
  BY CredentialAssumption DEF Next, Actor

LEMMA OthersKept ==
    ASSUME TypeOK, NEW p \in Proc, Actor(p), NEW q \in Proc \ {p}
    PROVE  /\ pc'[q] = pc[q] /\ op'[q] = op[q] /\ nm'[q] = nm[q] /\ todo'[q] = todo[q]
           /\ \/ due'[q] = due[q]
              \/ \E s \in Serial : RemoveSerial(p, s) /\ due'[q] = due[q] \ {s}
<1> USE TypeParts
<1>1. CASE Command(p) \/ (p = Bot /\ \E t \in Token : StartRedeem(t))
  BY <1>1 DEF Command, StartIssue, StartRevoke, StartUnrevoke, StartInvite, StartRedeem, Begin,
              Goto, Put, CallTypes, WorkTypes
<1>2. CASE Return(p)
  BY <1>2 DEF Return, Put, CallTypes, WorkTypes
<1>3. CASE \/ LoadInvites(p) \/ ReadLedger(p) \/ LoadDenied(p) \/ LoadLedger(p) \/ SaveLedger(p)
           \/ WriteCert(p) \/ \E t \in Token : Generate(p, t)
  BY <1>3 DEF LoadInvites, ReadLedger, LoadDenied, LoadLedger, SaveLedger, WriteCert, Generate,
              SaveInvites, Goto, Put, call, CallTypes, WorkTypes
<1>4. CASE ReadCurrent(p)
  BY <1>4 DEF ReadCurrent, Put, call, CallTypes, WorkTypes
<1>5. ASSUME NEW s \in Serial, Redeem(p, s) \/ Add(p, s)
      PROVE  /\ pc'[q] = pc[q] /\ op'[q] = op[q] /\ nm'[q] = nm[q] /\ todo'[q] = todo[q]
             /\ due'[q] = due[q]
  BY <1>5 DEF Redeem, SaveInvites, Add, SaveDenied, Goto, Put, call, CallTypes, WorkTypes
<1>6. ASSUME NEW s \in Serial, RemoveSerial(p, s)
      PROVE  /\ pc'[q] = pc[q] /\ op'[q] = op[q] /\ nm'[q] = nm[q] /\ todo'[q] = todo[q]
             /\ due'[q] = due[q] \ {s}
  BY <1>6 DEF RemoveSerial, SaveDenied, Goto, Put, call, CallTypes, WorkTypes
<1>7. QED
  BY <1>1, <1>2, <1>3, <1>4, <1>5, <1>6 DEF Actor, Step

(* The ledger has every certificate of a name but the older one, which is denied
   once the ledger has any. *)
LEMMA Known ==
    ASSUME LedgerCoversCerts, FirstSuperseded, NEW n \in Name, NEW s \in Serial, <<n, s>> \in certs
    PROVE  \/ <<n, s>> \in ledger
           \/ s = Before[n] /\ (SerialsOf(ledger, n) # {} => s \in Safe)
<1>1. CASE <<n, s>> \in Predating
  <2>1. s = Before[n] /\ Before[n] # None
    BY <1>1, CredentialAssumption DEF Predating
  <2>2. QED
    BY <2>1 DEF FirstSuperseded, SerialsOf
<1>2. CASE <<n, s>> \notin Predating
  BY <1>2 DEF LedgerCoversCerts
<1>3. QED
  BY <1>1, <1>2

LEMMA SupersededStep ==
    ASSUME TypeOK, Calls, Locked, One, Owned, LedgerCoversCerts, FirstSuperseded, Superseded,
           [Next]_vars
    PROVE  Superseded'
<1> USE TypeParts
<1>1. ASSUME UNCHANGED vars \/ \E t \in Token : Expire(t)
      PROVE  Superseded'
  BY <1>1 DEF vars, Expire, files, call, ghosts, Superseded, SerialsOf, Safe, LostSight
<1>2. ASSUME NEW p \in Proc, Actor(p), NEW q \in Proc \ {p}, op'[q] = "issue"
      PROVE  /\ pc'[q] = "current" => SerialsOf(ledger', nm'[q]) = {}
             /\ pc'[q] \in {"deny", "amend"} => SerialsOf(certs', nm'[q]) \subseteq todo'[q] \cup Safe'
             /\ pc'[q] \in {"append", "record", "write"} => SerialsOf(certs', nm'[q]) \subseteq Safe'
  <2>1. pc'[q] = pc[q] /\ op[q] = "issue" /\ nm'[q] = nm[q] /\ todo'[q] = todo[q]
    BY <1>2, OthersKept
  <2>2. \A r \in Proc \ {q} : op[r] \notin {"issue", "unrevoke"}
    BY <2>1 DEF One
  <2>3. ~ \E r \in Proc, s \in Serial : RemoveSerial(r, s)
    BY <2>1, <2>2 DEF RemoveSerial
  <2>4. \A r \in Proc : SaveLedger(r) \/ WriteCert(r) => r = q /\ pc'[q] # pc[q]
    BY <2>1, <2>2 DEF SaveLedger, WriteCert, Goto, Calls, CallTypes
  <2>5. UNCHANGED <<ledger, certs>> /\ Safe \subseteq Safe'
    BY <2>1, <2>3, <2>4, Effects, SafeKept
  <2>6. QED
    BY <2>1, <2>5 DEF Superseded, SerialsOf
<1>3. ASSUME NEW p \in Proc, Actor(p), op'[p] = "issue"
      PROVE  /\ pc'[p] = "current" => SerialsOf(ledger', nm'[p]) = {}
             /\ pc'[p] \in {"deny", "amend"} => SerialsOf(certs', nm'[p]) \subseteq todo'[p] \cup Safe'
             /\ pc'[p] \in {"append", "record", "write"} => SerialsOf(certs', nm'[p]) \subseteq Safe'
  <2>1. CASE \/ Command(p) \/ Return(p) \/ (p = Bot /\ \E t \in Token : StartRedeem(t))
             \/ LoadInvites(p) \/ WriteCert(p) \/ (\E t \in Token : Generate(p, t))
             \/ \E s \in Serial : Redeem(p, s) \/ RemoveSerial(p, s)
    <3>1. pc'[p] \in {"idle", "invites", "tokens", "serials", "told"} \/ op'[p] = "unrevoke"
      BY <2>1 DEF Command, StartIssue, StartRevoke, StartUnrevoke, StartInvite, StartRedeem, Return,
                  LoadInvites, WriteCert, Generate, Redeem, RemoveSerial, Begin, Goto, Put, CallTypes
    <3>2. QED
      BY <1>3, <3>1
  <2>2. CASE ReadLedger(p)
    <3>1. op[p] = "issue" /\ nm[p] \in Name /\ UNCHANGED <<ledger, certs, denied, restored, nm>>
      BY <1>3, <2>2 DEF ReadLedger, Calls, call, files, ghosts
    <3>2. todo'[p] = SerialsOf(ledger, nm[p])
          /\ pc'[p] = IF todo'[p] = {} THEN "current" ELSE "deny"
      BY <2>2 DEF ReadLedger, Put, CallTypes, WorkTypes
    <3>3. Safe' = Safe
      BY <3>1 DEF Safe, LostSight
    <3>4. QED
      BY <3>1, <3>2, <3>3, Known DEF SerialsOf
  <2>3. CASE ReadCurrent(p)
    <3>1. /\ op[p] = "issue" /\ pc[p] = "current" /\ nm[p] \in Name
          /\ UNCHANGED <<ledger, certs, crt, denied, restored, nm>>
      BY <1>3, <2>3 DEF ReadCurrent, Calls, call, files, ghosts
    <3>2. SerialsOf(ledger, nm[p]) = {}
      BY <3>1 DEF Superseded
    <3>3. \A s \in SerialsOf(certs, nm[p]) : s = Before[nm[p]]
      BY <3>1, <3>2, Known DEF SerialsOf
    <3>4. CASE crt[nm[p]] # None
      <4>1. pc'[p] = "deny" /\ todo'[p] = {crt[nm[p]]}
        BY <2>3, <3>4 DEF ReadCurrent, Put, CallTypes, WorkTypes
      <4>2. crt[nm[p]] = Before[nm[p]]
        BY <3>1, <3>3, <3>4 DEF Owned, SerialsOf, FileTypes
      <4>3. QED
        BY <3>1, <3>3, <4>1, <4>2 DEF SerialsOf
    <3>5. CASE crt[nm[p]] = None
      <4>1. pc'[p] = "append"
        BY <2>3, <3>5 DEF ReadCurrent, Put, CallTypes
      <4>2. SerialsOf(certs, nm[p]) = {}
        BY <3>1, <3>5 DEF Owned, SerialsOf
      <4>3. QED
        BY <3>1, <4>1, <4>2 DEF SerialsOf
    <3>6. QED
      BY <3>4, <3>5
  <2>4. CASE LoadDenied(p) \/ LoadLedger(p) \/ SaveLedger(p)
    <3>1. op[p] = "issue" /\ UNCHANGED <<certs, nm, todo, denied, restored>>
      BY <1>3, <2>4 DEF LoadDenied, LoadLedger, SaveLedger, call, files, ghosts
    <3>2. \/ pc[p] = "deny" /\ pc'[p] = "amend"
          \/ pc[p] \in {"append", "record"} /\ pc'[p] \in {"record", "write"}
      BY <2>4 DEF LoadDenied, LoadLedger, SaveLedger, Goto, CallTypes
    <3>3. QED
      BY <3>1, <3>2 DEF Superseded, SerialsOf, Safe, LostSight
  <2>5. ASSUME NEW s \in Serial, Add(p, s)
        PROVE  /\ pc'[p] \in {"deny", "append"}
               /\ SerialsOf(certs', nm'[p]) \subseteq todo'[p] \cup Safe'
               /\ pc'[p] = "append" => todo'[p] = {}
    <3>1. op[p] = "issue" /\ pc[p] = "amend" /\ UNCHANGED <<certs, nm, restored>>
      BY <1>3, <2>5 DEF Add, SaveDenied, call
    <3>2. todo'[p] = todo[p] \ {s} /\ denied' = denied \cup {s}
      BY <2>5 DEF Add, SaveDenied, Put, Locked, WorkTypes
    <3>3. pc'[p] \in {"deny", "append"} /\ (pc'[p] = "append" => todo'[p] = {})
      BY <2>5, <3>1 DEF Add, Put, CallTypes
    <3>4. QED
      BY <3>1, <3>2, <3>3 DEF Superseded, SerialsOf, Safe, LostSight
  <2>6. QED
    BY <1>3, <2>1, <2>2, <2>3, <2>4, <2>5 DEF Actor, Step
<1>4. QED
  BY <1>1, <1>2, <1>3, ActorCases DEF Superseded

LEMMA CuttingOffStep ==
    ASSUME TypeOK, Calls, Locked, LedgerCoversCerts, FirstSuperseded, OneLiveNow, CuttingOff,
           [Next]_vars
    PROVE  CuttingOff'
<1> USE TypeParts
<1> DEFINE Stage(p) ==
        /\ due[p] \subseteq SerialsOf(certs, nm[p])
        /\ pc[p] = "current" => due[p] \subseteq {Before[nm[p]]}
        /\ pc[p] \in {"deny", "amend"} => due[p] \subseteq todo[p] \cup Safe
        /\ pc[p] = "told" => due[p] \subseteq Safe
<1>0. certs \subseteq certs'
  <2>1. \A p : WriteCert(p) => certs \subseteq certs'
    BY DEF WriteCert
  <2>2. QED
    BY <2>1, Effects
<1>1. ASSUME UNCHANGED vars \/ \E t \in Token : Expire(t)
      PROVE  CuttingOff'
  BY <1>1 DEF vars, Expire, files, call, ghosts, CuttingOff, SerialsOf, Safe, LostSight
<1>2. ASSUME NEW p \in Proc, Actor(p), NEW q \in Proc \ {p}, op'[q] = "revoke"
      PROVE  Stage(q)'
  <2>1. pc'[q] = pc[q] /\ op[q] = "revoke" /\ nm'[q] = nm[q] /\ todo'[q] = todo[q]
    BY <1>2, OthersKept
  <2>2. Stage(q)
    BY <2>1 DEF CuttingOff
  <2>3. due'[q] \subseteq due[q] /\ \A s \in due'[q] : s \in Safe => s \in Safe'
    <3>1. CASE due'[q] = due[q] /\ ~ \E r \in Proc, s \in Serial : RemoveSerial(r, s)
      BY <3>1, SafeKept
    <3>2. ASSUME NEW s \in Serial, NEW r \in Proc, RemoveSerial(r, s)
          PROVE  due'[q] = due[q] \ {s} /\ Safe \ {s} \subseteq Safe'
      <4>1. due' = [i \in Proc |-> due[i] \ {s}] /\ denied' = denied \ {s} /\ restored \subseteq restored'
        BY <3>2 DEF RemoveSerial, SaveDenied, Goto, Locked
      <4>2. QED
        BY <4>1 DEF Safe, LostSight
    <3>3. QED
      BY <1>2, <3>1, <3>2, OthersKept
  <2>4. QED
    BY <1>0, <2>1, <2>2, <2>3 DEF SerialsOf
<1>3. ASSUME NEW p \in Proc, Actor(p), op'[p] = "revoke"
      PROVE  Stage(p)'
  <2>1. CASE Command(p)
    <3>1. op'[p] = "revoke" /\ pc'[p] = "serials" /\ certs' = certs /\ due'[p] = SerialsOf(certs, nm'[p])
      BY <1>3, <2>1 DEF Command, StartIssue, StartRevoke, StartUnrevoke, StartInvite, Begin, Goto,
                        Put, ghosts, CallTypes, WorkTypes
    <3>2. QED
      BY <3>1 DEF SerialsOf
  <2>2. CASE \/ Return(p) \/ (p = Bot /\ \E t \in Token : StartRedeem(t)) \/ LoadInvites(p)
             \/ LoadLedger(p) \/ SaveLedger(p) \/ WriteCert(p) \/ (\E t \in Token : Generate(p, t))
             \/ \E s \in Serial : Redeem(p, s) \/ RemoveSerial(p, s)
    <3>1. op'[p] # "revoke"
      BY <2>2, CredentialAssumption
         DEF Return, StartRedeem, LoadInvites, LoadLedger, SaveLedger, WriteCert, Generate, Redeem,
             RemoveSerial, SaveDenied, Begin, Goto, Put, call, Calls, CallTypes
    <3>2. QED
      BY <1>3, <3>1
  <2>3. CASE ReadLedger(p)
    <3>1. /\ op[p] = "revoke" /\ pc[p] = "serials" /\ nm[p] \in Name
          /\ UNCHANGED <<ledger, certs, denied, restored, nm, due>>
      BY <1>3, <2>3 DEF ReadLedger, Calls, call, files, ghosts
    <3>2. todo'[p] = SerialsOf(ledger, nm[p])
          /\ pc'[p] = IF todo'[p] = {} THEN "current" ELSE "deny"
      BY <2>3 DEF ReadLedger, Put, CallTypes, WorkTypes
    <3>3. Safe' = Safe /\ Stage(p)
      BY <3>1 DEF Safe, LostSight, CuttingOff
    <3>4. QED
      BY <3>1, <3>2, <3>3, Known DEF SerialsOf
  <2>4. CASE ReadCurrent(p)
    <3>1. /\ op[p] = "revoke" /\ pc[p] = "current" /\ nm[p] \in Name
          /\ UNCHANGED <<certs, crt, denied, restored, nm, due>>
      BY <1>3, <2>4 DEF ReadCurrent, Calls, call, files, ghosts
    <3>2. pc'[p] = "deny" /\ todo'[p] = {crt[nm[p]]}
      BY <2>4, <3>1 DEF ReadCurrent, Put, CallTypes, WorkTypes
    <3>3. Safe' = Safe /\ Stage(p)
      BY <3>1 DEF Safe, LostSight, CuttingOff
    <3>4. \A s \in SerialsOf(certs, nm[p]) : s = crt[nm[p]] \/ s \in Safe
      BY <3>1 DEF OneLiveNow, SerialsOf
    <3>5. QED
      BY <3>1, <3>2, <3>3, <3>4 DEF SerialsOf
  <2>5. CASE LoadDenied(p)
    <3>1. /\ op[p] = "revoke" /\ pc[p] = "deny" /\ pc'[p] = "amend"
          /\ UNCHANGED <<certs, denied, restored, nm, todo, due>>
      BY <1>3, <2>5 DEF LoadDenied, Goto, call, files, ghosts, CallTypes
    <3>2. Safe' = Safe /\ Stage(p)
      BY <3>1 DEF Safe, LostSight, CuttingOff
    <3>3. QED
      BY <3>1, <3>2 DEF SerialsOf
  <2>6. ASSUME NEW s \in Serial, Add(p, s)
        PROVE  Stage(p)'
    <3>1. op[p] = "revoke" /\ pc[p] = "amend" /\ UNCHANGED <<certs, nm, restored, due>>
      BY <1>3, <2>6 DEF Add, SaveDenied, call
    <3>2. todo'[p] = todo[p] \ {s} /\ denied' = denied \cup {s}
      BY <2>6 DEF Add, SaveDenied, Put, Locked, WorkTypes
    <3>3. pc'[p] = IF todo'[p] # {} THEN "deny" ELSE "told"
      BY <2>6, <3>1 DEF Add, Put, CallTypes
    <3>4. Stage(p) /\ LostSight' = LostSight
      BY <3>1 DEF CuttingOff, LostSight
    <3>5. QED
      BY <3>1, <3>2, <3>3, <3>4 DEF SerialsOf, Safe
  <2>7. QED
    BY <1>3, <2>1, <2>2, <2>3, <2>4, <2>5, <2>6 DEF Actor, Step
<1>4. QED
  BY <1>1, <1>2, <1>3, ActorCases DEF CuttingOff

-----------------------------------------------------------------------------
(* The inductive invariant: of the locked files, and of the certificates. *)
StoreInv == TypeOK /\ Calls /\ Locked /\ OneToRestore /\ Spent /\ TokenIssuesOnce

CertInv ==
    /\ One /\ Fresh /\ Owned /\ Predating \subseteq certs /\ Target /\ Recorded
    /\ LedgerCoversCerts /\ FirstSuperseded /\ OneLiveNow /\ Superseded /\ CuttingOff

LEMMA InitInv == Init => StoreInv /\ CertInv
<1> SUFFICES ASSUME Init
             PROVE  StoreInv /\ CertInv
  OBVIOUS
<1> USE CredentialAssumption
<1>1. TypeOK
  BY DEF Init, TypeOK, Predating
<1>2. Calls /\ Locked /\ OneToRestore /\ Spent /\ TokenIssuesOnce
  BY DEF Init, Calls, Locked, OneToRestore, Spent, TokenIssuesOnce
<1>3. One /\ Target /\ Recorded /\ FirstSuperseded /\ Superseded /\ CuttingOff
  BY DEF Init, One, Target, Recorded, FirstSuperseded, Superseded, CuttingOff
<1>4. Fresh /\ Owned /\ Predating \subseteq certs /\ LedgerCoversCerts
  BY DEF Init, Fresh, Owned, Predating, LedgerCoversCerts
<1>5. OneLiveNow
  BY DEF Init, OneLiveNow, SerialsOf, Predating
<1>6. QED
  BY <1>1, <1>2, <1>3, <1>4, <1>5 DEF StoreInv, CertInv

LEMMA StoreStep == StoreInv /\ [Next]_vars => StoreInv'
<1> SUFFICES ASSUME StoreInv, [Next]_vars
             PROVE  StoreInv'
  OBVIOUS
<1>1. TypeOK' /\ Calls'
  BY CallsStep, RestStep, CrossedStep, TypeParts, TypePartsNext DEF StoreInv
<1>2. QED
  BY <1>1, LockedStep, OneToRestoreStep, SpentStep DEF StoreInv

LEMMA CertStep == ~crossed' /\ StoreInv /\ CertInv /\ [Next]_vars => CertInv'
<1> SUFFICES ASSUME ~crossed', StoreInv, CertInv, [Next]_vars
             PROVE  CertInv'
  OBVIOUS
<1>1. Predating \subseteq certs'
  <2>1. \A p : WriteCert(p) => certs \subseteq certs'
    BY DEF WriteCert
  <2>2. QED
    BY <2>1, Effects DEF StoreInv, CertInv
<1>2. One' /\ Fresh' /\ Owned' /\ Target' /\ Recorded'
  BY OneStep, FreshStep, OwnedStep, TargetStep, RecordedStep DEF StoreInv, CertInv
<1>3. LedgerCoversCerts' /\ FirstSuperseded' /\ OneLiveNow'
  BY CoversStep, FirstSupersededStep, OneLiveStep DEF StoreInv, CertInv
<1>4. Superseded' /\ CuttingOff'
  BY SupersededStep, CuttingOffStep DEF StoreInv, CertInv
<1>5. QED
  BY <1>1, <1>2, <1>3, <1>4 DEF CertInv, Predating

LEMMA Inductive == Spec => [](StoreInv /\ (~crossed => CertInv))
<1>1. Init => StoreInv /\ (~crossed => CertInv)
  BY InitInv
<1>2. StoreInv /\ (~crossed => CertInv) /\ [Next]_vars => (StoreInv /\ (~crossed => CertInv))'
  <2> SUFFICES ASSUME StoreInv, ~crossed => CertInv, [Next]_vars
               PROVE  (StoreInv /\ (~crossed => CertInv))'
    OBVIOUS
  <2>1. StoreInv'
    BY StoreStep
  <2>2. crossed => crossed'
    BY CrossedStep DEF StoreInv, TypeOK
  <2>3. ASSUME ~crossed' PROVE CertInv'
    BY <2>2, <2>3, CertStep
  <2>4. QED
    BY <2>1, <2>3
<1>3. QED
  BY <1>1, <1>2, PTL DEF Spec

(* The variables have their types. *)
THEOREM TypeCorrect == Spec => []TypeOK
<1>1. StoreInv => TypeOK
  BY DEF StoreInv
<1>2. QED
  BY <1>1, Inductive, PTL

(* Redeem spends a token under the store's lock, so it issues one certificate. *)
THEOREM IssuesOnce == Spec => []TokenIssuesOnce
<1>1. StoreInv => TokenIssuesOnce
  BY DEF StoreInv
<1>2. QED
  BY <1>1, Inductive, PTL

(* Store.Add and RemoveSerial change the deny list under its lock, so a revocation
   disappears only when somebody un-revokes it. *)
THEOREM RevocationsKept == Spec => NoRevocationLost
<1> DEFINE Kept == \A s \in denied \ denied' :
                       \E p \in Proc : op[p] = "unrevoke" /\ todo[p] = {s} /\ pc'[p] = "told"
<1>1. StoreInv /\ [Next]_vars => [Kept]_vars
  <2> SUFFICES ASSUME StoreInv, [Next]_vars, NEW s \in denied \ denied'
               PROVE  \E p \in Proc : op[p] = "unrevoke" /\ todo[p] = {s} /\ pc'[p] = "told"
    OBVIOUS
  <2>1. \A p \in Proc : SaveLedger(p) \/ WriteCert(p) => denied' = denied
    BY DEF SaveLedger, WriteCert
  <2>2. PICK p \in Proc, r \in Serial : RemoveSerial(p, r) /\ denied' = denied \ {r}
    BY <2>1, Effects DEF StoreInv
  <2>3. op[p] = "unrevoke" /\ pc[p] = "amend" /\ r \in todo[p] /\ pc'[p] = "told" /\ s = r
    BY <2>2 DEF RemoveSerial, Goto, StoreInv, TypeOK
  <2>4. todo[p] = {s}
    BY <2>3 DEF StoreInv, OneToRestore
  <2>5. QED
    BY <2>3, <2>4
<1>2. QED
  BY <1>1, Inductive, PTL DEF Spec, NoRevocationLost

(* revokeSuperseded comes before the new certificate, so every certificate of a
   name but the one on disk is denied, whatever fails half-way, until two commands
   that issue or un-revoke have crossed. *)
THEOREM OneLive == Spec => []OneLiveProfile
<1>1. (StoreInv /\ (~crossed => CertInv)) => OneLiveProfile
  BY DEF CertInv, OneLiveNow, OneLiveProfile, Safe
<1>2. QED
  BY <1>1, Inductive, PTL

(* A revoke that reports success has denied all there was when it began, until two
   commands that issue or un-revoke have crossed. *)
THEOREM RevokedOut == Spec => []RevokeCutsOff
<1>1. (StoreInv /\ (~crossed => CertInv)) => RevokeCutsOff
  BY DEF CertInv, CuttingOff, RevokeCutsOff, Safe
<1>2. QED
  BY <1>1, Inductive, PTL

-----------------------------------------------------------------------------
(* NodeHealth and Watchdog: a cache that the checker trusts is the list on disk, or
   one that a later save looks like. *)

Trusted == loaded /\ stamped /\ size = Cardinality(deny) => cache = deny \/ masked

WatchInv == WatchTypeOK /\ Trusted /\ OwnerKnows

LEMMA CardinalityTyped ==
    ASSUME NEW S, S \subseteq CertSerial PROVE Cardinality(S) \in Nat
BY SerialsFinite, FS_Subset, FS_CardinalityType

LEMMA LookUpKeeps ==
    ASSUME NodeTypeOK, Trusted, LookUp, UNCHANGED <<deny, disk, fresh, node, cert>>
    PROVE  NodeTypeOK' /\ Trusted'
<1> USE DEF NodeTypeOK, Trusted, LookUp, checker
<1>1. CASE disk = "gone"
  <2>1. stamped' = FALSE /\ size' = 0 /\ masked' = FALSE /\ UNCHANGED <<cache, loaded>>
    BY <1>1, Zenon
  <2> QED BY <2>1
<1>2. CASE disk = "ok" /\ Reloads
  BY <1>2, CardinalityTyped
<1>3. CASE ~(disk = "gone") /\ ~(disk = "ok" /\ Reloads)
  BY <1>3
<1> QED BY <1>1, <1>2, <1>3

LEMMA NodeStepKeeps ==
    ASSUME NodeTypeOK, Trusted, NodeStep PROVE NodeTypeOK' /\ Trusted'
<1> USE DEF NodeTypeOK, fileVars, checker
<1>1. ASSUME NEW entries \in SUBSET CertSerial, Save(entries) PROVE NodeTypeOK' /\ Trusted'
  <2>1. stamped' \in BOOLEAN /\ masked' \in BOOLEAN
    BY <1>1, Zenon DEF Save
  <2>2. deny' = entries /\ UNCHANGED <<cache, loaded, size, node, cert>> /\ disk' = "ok" /\ fresh' = TRUE
    BY <1>1 DEF Save
  <2>3. stamped' /\ size = Cardinality(entries) /\ cache # entries => masked'
    BY <1>1 DEF Save
  <2> QED BY <2>1, <2>2, <2>3 DEF Trusted
<1>2. ASSUME NEW how \in {"gone", "bad", "hidden"}, Spoil(how) PROVE NodeTypeOK' /\ Trusted'
  BY <1>2 DEF Spoil, Trusted
<1>3. CASE Tick
  BY <1>3 DEF Tick, Trusted
<1>4. CASE Handshake
  BY <1>4, LookUpKeeps DEF Handshake
<1>5. CASE Start
  BY <1>5 DEF Start, Trusted
<1>6. CASE Close \/ Stop
  BY <1>6 DEF Close, Stop, Trusted
<1>7. CASE Age \/ Renew
  BY <1>7 DEF Age, Renew, Trusted
<1>8. CASE Garble
  BY <1>8 DEF Garble, Trusted
<1> QED BY <1>1, <1>2, <1>3, <1>4, <1>5, <1>6, <1>7, <1>8 DEF NodeStep

LEMMA WatchStep == WatchInv /\ [WatchNext]_watchVars => WatchInv'
<1> SUFFICES ASSUME WatchInv, [WatchNext]_watchVars PROVE WatchInv'
  OBVIOUS
<1> USE AlertAssumption DEF WatchInv, WatchTypeOK, OwnerKnows, watcher, owner, fileVars
<1>1. CASE NodeActs
  <2>1. NodeTypeOK' /\ Trusted'
    BY <1>1, NodeStepKeeps DEF NodeActs
  <2> QED BY <1>1, <2>1 DEF NodeActs
<1>2. CASE PollAnswered
  <2>1. NodeTypeOK' /\ Trusted'
    BY <1>2, LookUpKeeps DEF PollAnswered
  <2> QED BY <1>2, <2>1 DEF PollAnswered
<1>3. ASSUME UNCHANGED nodeVars PROVE NodeTypeOK' /\ Trusted'
  BY <1>3 DEF nodeVars, NodeTypeOK, Trusted, checker
<1>4. CASE PollFails
  BY <1>3, <1>4 DEF PollFails
<1>5. CASE ObserveBad
  <2>1. failures' \in 0..FailuresBeforeAlert /\ NodeTypeOK' /\ Trusted' /\ obs' = "none" /\ warned' = warned
    BY <1>3, <1>5 DEF ObserveBad, CountUp
  <2>2. CASE alerted' = TRUE /\ Tell("outage")
    BY <2>1, <2>2 DEF Tell
  <2>3. CASE UNCHANGED <<alerted, owner>>
    BY <2>1, <2>3
  <2> QED BY <1>5, <2>2, <2>3 DEF ObserveBad
<1>6. CASE ObserveGood
  <2>1. failures' = 0 /\ NodeTypeOK' /\ Trusted' /\ obs' = "none"
    BY <1>3, <1>6 DEF ObserveGood
  <2>2. warned' \in BOOLEAN
    BY <1>6 DEF ObserveGood
  <2>3. CASE alerted' = FALSE /\ Tell("fine")
    <3>1. alerted' \in BOOLEAN /\ forgot' \in BOOLEAN /\ ~alerted'
      BY <2>3, Zenon DEF Tell
    <3>2. heard' \in {"fine", "outage"} /\ lost' \in BOOLEAN
      BY <2>3 DEF Tell
    <3>3. heard' = "fine" \/ lost'
      BY <2>3 DEF Tell
    <3> QED BY <2>1, <2>2, <3>1, <3>2, <3>3
  <2>4. CASE UNCHANGED <<alerted, owner>>
    BY <2>1, <2>2, <2>4
  <2> QED BY <1>6, <2>3, <2>4 DEF ObserveGood
<1>7. CASE WarningIsDue
  BY <1>3, <1>7 DEF WarningIsDue
<1>8. CASE Restart
  <2>1. forgot' \in BOOLEAN
    BY <1>8, Zenon DEF Restart
  <2>2. NodeTypeOK' /\ Trusted' /\ obs' = "none" /\ failures' = 0 /\ alerted' = FALSE /\ warned' = FALSE
        /\ UNCHANGED <<heard, lost>> /\ (forgot \/ alerted => forgot')
    BY <1>3, <1>8 DEF Restart
  <2>3. alerted' \in BOOLEAN /\ warned' \in BOOLEAN /\ ~alerted'
    BY <1>8, Zenon DEF Restart
  <2>4. (alerted <=> heard = "outage")' \/ lost' \/ forgot'
    BY <2>2, <2>3
  <2> QED BY <2>1, <2>2, <2>3, <2>4
<1>9. CASE UNCHANGED watchVars
  BY <1>3, <1>9 DEF watchVars
<1> QED BY <1>1, <1>2, <1>4, <1>5, <1>6, <1>7, <1>8, <1>9 DEF WatchNext

LEMMA WatchInvAlways == WatchSpec => []WatchInv
<1>1. WatchInit => WatchInv
  <2> SUFFICES ASSUME WatchInit PROVE WatchInv
    OBVIOUS
  <2>1. NodeTypeOK /\ Trusted
    BY DEF WatchInit, NodeInit, NodeTypeOK, Trusted
  <2>2. OwnerKnows
    BY DEF WatchInit, OwnerKnows
  <2>3. /\ alerted \in BOOLEAN /\ warned \in BOOLEAN /\ lost \in BOOLEAN /\ forgot \in BOOLEAN
        /\ obs = "none" /\ failures = 0 /\ heard = "fine"
    BY Zenon DEF WatchInit
  <2> QED BY <2>1, <2>2, <2>3, AlertAssumption DEF WatchInv, WatchTypeOK
<1> QED BY <1>1, WatchStep, PTL DEF WatchSpec

(* The server's checker, its report and the watchdog keep their types
   (watchdog.go:100). *)
THEOREM WatchTypeCorrect == WatchSpec => []WatchTypeOK
<1>1. WatchInv => WatchTypeOK
  BY DEF WatchInv
<1> QED BY <1>1, WatchInvAlways, PTL

(* The server enforces the list on disk (revoke.go:279), for any number of serials,
   saves and looks, but for a save that its stamps hide. *)
THEOREM ServerEnforcesTheList == WatchSpec => []EnforcesTheList
<1>1. WatchInv => EnforcesTheList
  BY DEF WatchInv, Trusted, EnforcesTheList, Enforced, Reloads
<1> QED BY <1>1, WatchInvAlways, PTL

(* The owner's last news is the watchdog's state (watchdog.go:164), unless a message
   was lost or the bot restarted. *)
THEOREM WatchOwnerKnows == WatchSpec => []OwnerKnows
<1>1. WatchInv => OwnerKnows
  BY DEF WatchInv
<1> QED BY <1>1, WatchInvAlways, PTL
=============================================================================
