----------------------------- MODULE Credentials -----------------------------
(***************************************************************************)
(* The credentials of the clients and the processes that change them:      *)
(* issue, re-issue, revoke, un-revoke and invite (internal/ca,             *)
(* internal/revoke, internal/invite; cmd/vpn-ca and cmd/vpn-bot).          *)
(*                                                                         *)
(* A process is the bot, which handles one message at a time, or a shell   *)
(* that runs one vpn-ca or vpn-bot command after the other.  They share    *)
(* files: the deny list and the invite store, which are loaded, changed    *)
(* and renamed into place under a file lock; and the ledger and the        *)
(* clients' certificates, which no lock protects.  A rename is atomic; a   *)
(* process may fail or die between any two steps, which frees its locks.   *)
(*                                                                         *)
(* A certificate is a pair of a name and a serial number.  Serial numbers  *)
(* are random and taken to be distinct; the private key that is written    *)
(* before the certificate is left out.                                     *)
(***************************************************************************)
EXTENDS Naturals, FiniteSets

CONSTANTS
    Name,        \* client names
    Serial,      \* serial numbers
    Token,       \* values of invite tokens
    Proc,        \* processes
    NoProc,      \* nobody: a file that is not locked
    None,        \* no name, no certificate, no token
    Bot,         \* the process that redeems invites
    Before       \* each name's certificate from before the ledger, or None

ASSUME CredentialAssumption ==
    /\ NoProc \notin Proc
    /\ None \notin Name \cup Serial \cup Token
    /\ Name \cap {"none", "spent"} = {}
    /\ Bot \in Proc
    /\ Before \in [Name -> Serial \cup {None}]
    /\ \A m, n \in Name : Before[m] = Before[n] => m = n \/ Before[m] = None

VARIABLES
    ledger,      \* issued.json
    crt,         \* the serial in clients/<name>.crt
    denied,      \* the serials of revoked.json
    invites,     \* each token: "none", "spent", or the name it is good for
    expired,     \* tokens older than the store's TTL
    denyLock, inviteLock,                 \* holders of the two file locks
    pc, op, nm, token,                    \* what a process does, for whom, with which token
    todo, new,                            \* serials it has yet to deny; the one it issues
    ledgerCopy, denyCopy, inviteCopy,     \* what it has loaded
    drawn,       \* serial numbers used up
    certs,       \* certificates in existence
    restored,    \* serials ever un-revoked
    due,         \* what a revoke has to deny: all there was when it began
    redeemed,    \* the serials a token was redeemed for
    crossed      \* whether two processes ever issued or un-revoked at the same time

files == <<ledger, crt, denied, invites>>
locks == <<denyLock, inviteLock>>
copies == <<ledgerCopy, denyCopy, inviteCopy>>
call == <<op, nm, token>>
ghosts == <<certs, restored, redeemed, crossed>>
vars == <<files, expired, locks, pc, call, todo, new, copies, drawn, ghosts, due>>

SerialsOf(pairs, n) == {s \in Serial : <<n, s>> \in pairs}
Predating == {c \in Name \X Serial : Before[c[1]] = c[2]}

Init ==
    /\ ledger = {} /\ crt = Before /\ denied = {}
    /\ invites = [t \in Token |-> "none"] /\ expired = {}
    /\ denyLock = NoProc /\ inviteLock = NoProc
    /\ pc = [p \in Proc |-> "idle"] /\ op = [p \in Proc |-> "none"]
    /\ nm = [p \in Proc |-> None] /\ token = [p \in Proc |-> None]
    /\ todo = [p \in Proc |-> {}] /\ new = [p \in Proc |-> None]
    /\ ledgerCopy = [p \in Proc |-> {}] /\ denyCopy = [p \in Proc |-> {}]
    /\ inviteCopy = [p \in Proc |-> [t \in Token |-> "none"]]
    /\ drawn = {s \in Serial : \E n \in Name : Before[n] = s}
    /\ certs = Predating
    /\ restored = {} /\ due = [p \in Proc |-> {}] /\ redeemed = [t \in Token |-> {}]
    /\ crossed = FALSE

Goto(p, from, to) == pc[p] = from /\ pc' = [pc EXCEPT ![p] = to]

\* A process comes to the end of a critical section with nothing loaded.
Put(f, p, x) == [f EXCEPT ![p] = x]
FreedOf(lock, p) == IF lock = p THEN NoProc ELSE lock

-----------------------------------------------------------------------------
(* Plausible bugs, to test the runs against: each stands for the definition its
   name starts with. *)
LoadInvitesUnlocked(p) ==
    /\ Goto(p, "invites", "tokens")
    /\ inviteCopy' = Put(inviteCopy, p, invites)
    /\ UNCHANGED <<files, expired, locks, call, todo, new, ledgerCopy, denyCopy,
                   drawn, ghosts, due>>

ReadLedgerBlind(p) ==
    /\ pc[p] = "serials"
    /\ todo' = Put(todo, p, SerialsOf(ledger, nm[p]))
    /\ pc' = Put(pc, p, IF op[p] = "issue" THEN "append" ELSE "deny")
    /\ UNCHANGED <<files, expired, locks, call, new, copies, drawn, ghosts, due>>

LoadDeniedUnlocked(p) ==
    /\ Goto(p, "deny", "amend")
    /\ denyCopy' = Put(denyCopy, p, denied)
    /\ UNCHANGED <<files, expired, locks, call, todo, new, ledgerCopy, inviteCopy,
                   drawn, ghosts, due>>

AddOnlyOne(p, s) ==
    /\ pc[p] = "amend" /\ op[p] \in {"issue", "revoke"}
    /\ s \in todo[p]
    /\ denied' = denyCopy[p] \cup {s} /\ denyLock' = NoProc
    /\ denyCopy' = Put(denyCopy, p, {}) /\ todo' = Put(todo, p, {})
    /\ pc' = Put(pc, p, IF op[p] = "issue" THEN "append" ELSE "told")
    /\ UNCHANGED <<ledger, crt, invites, expired, inviteLock, call, new, ledgerCopy, inviteCopy,
                   drawn, ghosts, due>>

-----------------------------------------------------------------------------
(* The commands.  Names were checked before; a shell is idle between two.
   Nothing in the code keeps vpn-ca and the bot from issuing, or from issuing and
   un-revoking, at the same time; the model remembers that it happened. *)
Issuing(p) == op[p] \in {"issue", "unrevoke"}
Crosses(p) == crossed' = (crossed \/ \E q \in Proc \ {p} : Issuing(q))

Begin(p, what, n, where) ==
    /\ Goto(p, "idle", where)
    /\ op' = Put(op, p, what) /\ nm' = Put(nm, p, n)

(* vpn-ca issue-client; baseTemplate draws the serial number. *)
StartIssue(p, n, s) ==
    /\ p # Bot
    /\ Begin(p, "issue", n, "serials")
    /\ s \notin drawn
    /\ new' = Put(new, p, s) /\ drawn' = drawn \cup {s}
    /\ Crosses(p)
    /\ UNCHANGED <<files, expired, locks, token, todo, copies, certs, restored, redeemed, due>>

StartRevoke(p, n) ==
    /\ Begin(p, "revoke", n, "serials")
    /\ due' = Put(due, p, SerialsOf(certs, n))
    /\ UNCHANGED <<files, expired, locks, token, todo, new, copies, drawn, ghosts>>

StartUnrevoke(p, n) ==
    /\ Begin(p, "unrevoke", n, "current")
    /\ Crosses(p)
    /\ UNCHANGED <<files, expired, locks, token, todo, new, copies, drawn, certs, restored,
                   redeemed, due>>

StartInvite(p, n) ==
    /\ Begin(p, "invite", n, "invites")
    /\ UNCHANGED <<files, expired, locks, token, todo, new, copies, drawn, ghosts, due>>

(* A message that may be a token. *)
StartRedeem(t) ==
    /\ Begin(Bot, "redeem", None, "invites")
    /\ token' = Put(token, Bot, t)
    /\ UNCHANGED <<files, expired, locks, todo, new, copies, drawn, ghosts, due>>

-----------------------------------------------------------------------------
(* The invite store, under its file lock from load to save. *)
LoadInvites(p) ==
    /\ Goto(p, "invites", "tokens")
    /\ inviteLock = NoProc
    /\ inviteLock' = p
    /\ inviteCopy' = Put(inviteCopy, p, invites)
    /\ UNCHANGED <<files, expired, denyLock, call, todo, new, ledgerCopy, denyCopy,
                   drawn, ghosts, due>>

SaveInvites(p, store) ==
    /\ invites' = store
    /\ inviteLock' = NoProc
    /\ inviteCopy' = Put(inviteCopy, p, [t \in Token |-> "none"])
    /\ UNCHANGED <<ledger, crt, denied, expired, denyLock, todo, ledgerCopy, denyCopy, certs,
                   restored, due>>

(* Generate: pruneExpired, then the new token. *)
pruneExpired(store) ==
    [t \in Token |-> IF store[t] \in Name /\ t \in expired THEN "none" ELSE store[t]]

Generate(p, t) ==
    /\ op[p] = "invite"
    /\ Goto(p, "tokens", "told")
    /\ inviteCopy[p][t] = "none" /\ t \notin expired
    /\ SaveInvites(p, [pruneExpired(inviteCopy[p]) EXCEPT ![t] = nm[p]])
    /\ UNCHANGED <<call, new, drawn, redeemed, crossed>>

(* Redeem: an unused, unexpired token is spent, and the bot goes on to issue
   for the name it was minted for.  ErrNotFound is Return. *)
Redeem(p, s) ==
    /\ op[p] = "redeem"
    /\ Goto(p, "tokens", "serials")
    /\ inviteCopy[p][token[p]] \in Name /\ token[p] \notin expired
    /\ SaveInvites(p, [inviteCopy[p] EXCEPT ![token[p]] = "spent"])
    /\ op' = Put(op, p, "issue") /\ nm' = Put(nm, p, inviteCopy[p][token[p]])
    /\ s \notin drawn
    /\ new' = Put(new, p, s) /\ drawn' = drawn \cup {s}
    /\ redeemed' = [redeemed EXCEPT ![token[p]] = @ \cup {s}]
    /\ Crosses(p)
    /\ UNCHANGED token

-----------------------------------------------------------------------------
(* ClientSerials: what the ledger has for the name, or else the certificate on
   disk; un-revoking asks only for the latter (ClientSerial). *)
ReadLedger(p) ==
    /\ pc[p] = "serials"
    /\ todo' = Put(todo, p, SerialsOf(ledger, nm[p]))
    /\ pc' = Put(pc, p, IF todo'[p] = {} THEN "current" ELSE "deny")
    /\ UNCHANGED <<files, expired, locks, call, new, copies, drawn, ghosts, due>>

ReadCurrent(p) ==
    /\ pc[p] = "current"
    /\ IF crt[nm[p]] # None
       THEN pc' = Put(pc, p, "deny") /\ todo' = Put(todo, p, {crt[nm[p]]})
       ELSE /\ op[p] = "issue"           \* revokeSuperseded: a first issuance
            /\ pc' = Put(pc, p, "append") /\ UNCHANGED todo
    /\ UNCHANGED <<files, expired, locks, call, new, copies, drawn, ghosts, due>>

-----------------------------------------------------------------------------
(* The deny list, under its file lock, one serial at a time. *)
LoadDenied(p) ==
    /\ Goto(p, "deny", "amend")
    /\ denyLock = NoProc
    /\ denyLock' = p
    /\ denyCopy' = Put(denyCopy, p, denied)
    /\ UNCHANGED <<files, expired, inviteLock, call, todo, new, ledgerCopy, inviteCopy,
                   drawn, ghosts, due>>

SaveDenied(p, list) ==
    /\ denied' = list
    /\ denyLock' = NoProc
    /\ denyCopy' = Put(denyCopy, p, {})
    /\ UNCHANGED <<ledger, crt, invites, expired, inviteLock, call, new, ledgerCopy, inviteCopy,
                   drawn, certs, redeemed, crossed>>

(* Store.Add; a serial that is on the list stays there. *)
Add(p, s) ==
    /\ pc[p] = "amend" /\ op[p] \in {"issue", "revoke"}
    /\ s \in todo[p]
    /\ SaveDenied(p, denyCopy[p] \cup {s})
    /\ todo' = Put(todo, p, todo[p] \ {s})
    /\ pc' = Put(pc, p, IF todo'[p] # {} THEN "deny"
                        ELSE IF op[p] = "issue" THEN "append" ELSE "told")
    /\ UNCHANGED <<restored, due>>

(* Store.RemoveSerial; the un-revoked serial is nobody's to deny any more. *)
RemoveSerial(p, s) ==
    /\ op[p] = "unrevoke"
    /\ Goto(p, "amend", "told")
    /\ s \in todo[p]
    /\ SaveDenied(p, denyCopy[p] \ {s})
    /\ todo' = Put(todo, p, {})
    /\ restored' = restored \cup ({s} \cap denyCopy[p])
    /\ due' = [q \in Proc |-> due[q] \ {s}]

-----------------------------------------------------------------------------
(* appendIssued: load, append, rename, with no lock; then the certificate. *)
LoadLedger(p) ==
    /\ Goto(p, "append", "record")
    /\ ledgerCopy' = Put(ledgerCopy, p, ledger)
    /\ UNCHANGED <<files, expired, locks, call, todo, new, denyCopy, inviteCopy, drawn,
                   ghosts, due>>

SaveLedger(p) ==
    /\ Goto(p, "record", "write")
    /\ ledger' = ledgerCopy[p] \cup {<<nm[p], new[p]>>}
    /\ ledgerCopy' = Put(ledgerCopy, p, {})
    /\ UNCHANGED <<crt, denied, invites, expired, locks, call, todo, new, denyCopy, inviteCopy,
                   drawn, ghosts, due>>

WriteCert(p) ==
    /\ Goto(p, "write", "told")
    /\ crt' = [crt EXCEPT ![nm[p]] = new[p]]
    /\ certs' = certs \cup {<<nm[p], new[p]>>}
    /\ UNCHANGED <<ledger, denied, invites, expired, locks, call, todo, new, copies, drawn,
                   restored, due, redeemed, crossed>>

-----------------------------------------------------------------------------
(* A command is over: it is done, returns an error, or its process dies. *)
Return(p) ==
    /\ pc[p] # "idle"
    /\ pc' = Put(pc, p, "idle") /\ op' = Put(op, p, "none")
    /\ nm' = Put(nm, p, None) /\ token' = Put(token, p, None)
    /\ todo' = Put(todo, p, {}) /\ new' = Put(new, p, None) /\ due' = Put(due, p, {})
    /\ ledgerCopy' = Put(ledgerCopy, p, {}) /\ denyCopy' = Put(denyCopy, p, {})
    /\ inviteCopy' = Put(inviteCopy, p, [t \in Token |-> "none"])
    /\ denyLock' = FreedOf(denyLock, p) /\ inviteLock' = FreedOf(inviteLock, p)
    /\ UNCHANGED <<files, expired, drawn, ghosts>>

Expire(t) ==
    /\ invites[t] \in Name /\ t \notin expired
    /\ expired' = expired \cup {t}
    /\ UNCHANGED <<files, locks, pc, call, todo, new, copies, drawn, ghosts, due>>

Command(p) ==
    \/ \E n \in Name, s \in Serial : StartIssue(p, n, s)
    \/ \E n \in Name : StartRevoke(p, n) \/ StartUnrevoke(p, n) \/ StartInvite(p, n)

Step(p) ==
    \/ LoadInvites(p) \/ ReadLedger(p) \/ ReadCurrent(p) \/ LoadDenied(p)
    \/ LoadLedger(p) \/ SaveLedger(p) \/ WriteCert(p)
    \/ \E t \in Token : Generate(p, t)
    \/ \E s \in Serial : Redeem(p, s) \/ Add(p, s) \/ RemoveSerial(p, s)

Next ==
    \/ \E p \in Proc : Command(p) \/ Step(p) \/ Return(p)
    \/ \E t \in Token : StartRedeem(t) \/ Expire(t)

Spec == Init /\ [][Next]_vars

-----------------------------------------------------------------------------
(* Types. *)
TypeOK ==
    /\ ledger \subseteq Name \X Serial /\ certs \subseteq Name \X Serial
    /\ crt \in [Name -> Serial \cup {None}]
    /\ denied \subseteq Serial /\ restored \subseteq Serial /\ drawn \subseteq Serial
    /\ invites \in [Token -> Name \cup {"none", "spent"}] /\ expired \subseteq Token
    /\ denyLock \in Proc \cup {NoProc} /\ inviteLock \in Proc \cup {NoProc}
    /\ pc \in [Proc -> {"idle", "invites", "tokens", "serials", "current", "deny", "amend",
                        "append", "record", "write", "told"}]
    /\ op \in [Proc -> {"none", "issue", "revoke", "unrevoke", "invite", "redeem"}]
    /\ nm \in [Proc -> Name \cup {None}] /\ token \in [Proc -> Token \cup {None}]
    /\ todo \in [Proc -> SUBSET Serial] /\ new \in [Proc -> Serial \cup {None}]
    /\ ledgerCopy \in [Proc -> SUBSET (Name \X Serial)]
    /\ denyCopy \in [Proc -> SUBSET Serial]
    /\ inviteCopy \in [Proc -> [Token -> Name \cup {"none", "spent"}]]
    /\ due \in [Proc -> SUBSET Serial] /\ redeemed \in [Token -> SUBSET Serial]
    /\ crossed \in BOOLEAN

(* "The issuance ledger records every client certificate this CA has ever signed"
   (ledger.go:14): every certificate is in it, but those that are older than it.
   The code does not keep that: appendIssued takes no lock. *)
LedgerCoversCerts == certs \ Predating \subseteq ledger

(* The one certificate the files can lose sight of: older than the ledger,
   superseded by a re-issue that failed half-way, then un-revoked. *)
LostSight == {s \in restored : \E n \in Name : Before[n] = s}

(* "One name means one live profile" (ca.go:152): unless two commands that issue
   or un-revoke have ever overlapped, every certificate of a name but the one on
   disk is denied, whatever fails or dies half-way. *)
OneLiveProfile ==
    \/ crossed
    \/ \A n \in Name : SerialsOf(certs, n) \ {crt[n]} \subseteq denied \cup LostSight

(* When a revoke reports success, every certificate that the name had when the
   command began is denied ("lock that client out", ledger.go:135), under the
   same condition; what a revoke may overlap with is not restricted. *)
RevokeCutsOff ==
    \/ crossed
    \/ \A p \in Proc :
          pc[p] = "told" /\ op[p] = "revoke" => due[p] \subseteq denied \cup LostSight

(* A token issues once, however minting, redeeming and crashes interleave. *)
TokenIssuesOnce == \A t \in Token : \A r, s \in redeemed[t] : r = s

(* Nobody's save drops the revocation that somebody else has just made. *)
NoRevocationLost ==
    [][\A s \in denied \ denied' :
        \E p \in Proc : op[p] = "unrevoke" /\ todo[p] = {s} /\ pc'[p] = "told"]_vars
=============================================================================
