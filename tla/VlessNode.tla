------------------------------ MODULE VlessNode ------------------------------
(***************************************************************************)
(* The VLESS side of a node (internal/vless, cmd/vpn-vless and the half of *)
(* cmd/vpn-bot that hands it out): who has access, the Xray configuration  *)
(* derived from that, and how a change reaches the running service.        *)
(*                                                                         *)
(* Two processes, the bot and an operator's shell, work on one directory.  *)
(* clients.json is the list of record, config.json grants what it says;    *)
(* both are replaced by a rename, one after the other, under a file lock.  *)
(* A process may fail or die between any two steps, which frees its lock.  *)
(* Nobody who writes restarts the service: a systemd path unit sees that   *)
(* config.json changed and runs apply-config.sh, which waits, looks up the *)
(* time of the file, then when the service started, and restarts it or     *)
(* not.  The path unit does not watch while that script runs.              *)
(*                                                                         *)
(* A client is a pair of a name and a credential (its UUID and shortId,    *)
(* which are random and taken to be distinct).  Names that differ in case  *)
(* only are one name.  Left out: the certificate half of a revocation (see *)
(* Credentials) and replacing the node's key by deleting node.json.        *)
(***************************************************************************)
EXTENDS FiniteSets

CONSTANTS
    Name,        \* names of clients
    Uuid,        \* credentials
    Bot, Shell,  \* the two processes
    None         \* no name, no configuration, no holder of the lock

Proc == {Bot, Shell}

ASSUME VlessAssumption ==
    /\ Bot # Shell
    /\ None \notin Name \cup Uuid \cup Proc
    /\ \A granted \in SUBSET Uuid : granted # None

VARIABLES
    node,        \* node.json exists
    list,        \* clients.json
    config,      \* config.json: the credentials it grants, or None
    lock,        \* holder of clients.json.lock
    pc, op, who, \* what a process does, and for whom
    padded,      \* the name was typed with a space around it
    copy,        \* the client list that a process is about to write
    ids,         \* the credentials that its command adds or removes
    script,      \* apply-config.sh: "off"; "asleep"; "older" or "newer", what the
                 \* service is than the file it looked at; "stale", "restarting", "applied"
    xray,        \* ActiveState of vpn-xray
    loaded,      \* the credentials that the running service honours
    newer,       \* the service started in a later second than config.json changed
    late,        \* config.json changed behind the back of the running script
    minted,      \* credentials used up
    sent,        \* credentials whose link the bot sent or vpn-vless add printed
    printed,     \* credentials whose link vpn-vless link printed
    dead,        \* credentials of which the owner was told that they are dead
    cut,         \* credentials that a removal cut short left in config.json
    unwritten,   \* credentials that an addition cut short left out of it
    wiped        \* init wrote an empty configuration over that of a list

files == <<node, list, config, lock>>
command == <<op, who, padded>>
work == <<command, copy, ids>>
service == <<script, xray, loaded, newer, late>>
ghosts == <<minted, sent, printed, dead, cut, unwritten, wiped>>
vars == <<files, pc, work, service, ghosts>>

IdsOf(clients) == {c[2] : c \in clients}
Granted == IF config = None THEN {} ELSE config

Removing(p) == op[p] \in {"remove", "revoke"}
Adding(p) == op[p] \in {"add", "vless", "both"}

Init ==
    /\ node = FALSE /\ list = {} /\ config = None /\ lock = None
    /\ pc = [p \in Proc |-> "idle"] /\ op = [p \in Proc |-> "none"]
    /\ who = [p \in Proc |-> None] /\ padded = [p \in Proc |-> FALSE]
    /\ copy = [p \in Proc |-> {}] /\ ids = [p \in Proc |-> {}]
    /\ script = "off" /\ xray = "inactive" /\ loaded = {} /\ newer = FALSE
    /\ late = FALSE
    /\ minted = {} /\ sent = {} /\ printed = {} /\ dead = {}
    /\ cut = {} /\ unwritten = {} /\ wiped = FALSE

Put(f, p, x) == [f EXCEPT ![p] = x]
Goto(p, from, to) == pc[p] = from /\ pc' = Put(pc, p, to)

\* The command is over: nothing of it is remembered.
Over(p) ==
    /\ pc' = Put(pc, p, "idle") /\ op' = Put(op, p, "none")
    /\ who' = Put(who, p, None) /\ padded' = Put(padded, p, FALSE)
    /\ copy' = Put(copy, p, {}) /\ ids' = Put(ids, p, {})

Freed(p) == IF lock = p THEN None ELSE lock

-----------------------------------------------------------------------------
(* The commands. *)
Begin(p, what, n, where) ==
    /\ Goto(p, "idle", where)
    /\ op' = Put(op, p, what) /\ who' = Put(who, p, n)
    /\ UNCHANGED <<files, copy, ids, service, ghosts>>

(* vpn-vless add and remove take the name as it was typed. *)
ShellCommand(what, n) ==
    /\ Begin(Shell, what, n, "lock")
    /\ \E space \in BOOLEAN : padded' = Put(padded, Shell, space)

(* vpn-vless link: Find reads the list, without the lock, and the link is printed
   without a look at the configuration. *)
CmdLink(client) ==
    /\ Goto(Shell, "idle", "print")
    /\ op' = Put(op, Shell, "link") /\ ids' = Put(ids, Shell, {client[2]})
    /\ UNCHANGED <<files, who, padded, copy, service, ghosts>>

PrintLink ==
    /\ pc[Shell] = "print" /\ node
    /\ printed' = printed \cup ids[Shell]
    /\ Over(Shell)
    /\ UNCHANGED <<files, service, minted, sent, dead, cut, unwritten, wiped>>

Render == Begin(Shell, "render", None, "lock") /\ UNCHANGED padded

(* A redeemed token grants a profile, VLESS access or both. *)
HandleMessage(grant, n) ==
    /\ Begin(Bot, grant, n, IF grant = "vless" THEN "lock" ELSE "profile")
    /\ UNCHANGED padded

HandleRevoke(n) == Begin(Bot, "revoke", n, "lock") /\ UNCHANGED padded

(* The profile comes first; when it is not issued or not delivered, the token
   is spent and the VLESS half is not tried. *)
IssueProfile ==
    /\ pc[Bot] = "profile"
    /\ \/ Over(Bot)
       \/ op[Bot] = "both" /\ pc' = Put(pc, Bot, "lock") /\ UNCHANGED work
    /\ UNCHANGED <<files, service, ghosts>>

(* vpn-vless init: refused when node.json exists; the node is saved and then a
   configuration without clients, with no lock taken. *)
CmdInit ==
    /\ ~node
    /\ Goto(Shell, "idle", "blank")
    /\ node' = TRUE /\ op' = Put(op, Shell, "init")
    /\ UNCHANGED <<list, config, lock, who, padded, copy, ids, service, ghosts>>

-----------------------------------------------------------------------------
(* EqualFold compares the name as typed; a stored name has no spaces. *)
Matching(p) == {c \in list : c[1] = who[p] /\ ~padded[p]}

(* Plausible bugs, to test the run against: each stands for the definition that its
   name starts with. *)
AcquireAtOnce(p) ==
    /\ Goto(p, "lock", "load")
    /\ UNCHANGED <<files, work, service, ghosts>>
LoadToRenderUnlocked(p) ==
    /\ op[p] = "render" /\ node
    /\ Goto(p, "load", "config")
    /\ copy' = Put(copy, p, list) /\ lock' = None
    /\ UNCHANGED <<node, list, config, command, ids, service, ghosts>>
LoadToRemoveFirst(p) ==
    /\ Removing(p) /\ node /\ Matching(p) # {}
    /\ Goto(p, "load", "list")
    /\ copy' = Put(copy, p, list \ Matching(p)) /\ lock' = None
    /\ ids' = Put(ids, p, IdsOf(Matching(p)))
    /\ UNCHANGED <<node, list, config, command, service, ghosts>>
WriteInOneSecond(granted) ==
    /\ config' = granted
    /\ newer' \in BOOLEAN
    /\ script' = IF script = "off" /\ xray = "active" THEN "asleep" ELSE script
    /\ late' = (script \notin {"off", "asleep"})
    /\ UNCHANGED <<xray, loaded>>

(* The store. *)
Acquire(p) ==
    /\ lock = None
    /\ Goto(p, "lock", "load")
    /\ lock' = p
    /\ UNCHANGED <<node, list, config, work, service, ghosts>>

(* Add: a name with access is refused, else NewClient mints a credential. *)
LoadToAdd(p, id) ==
    /\ Adding(p) /\ node /\ Matching(p) = {}
    /\ id \notin minted
    /\ Goto(p, "load", "list")
    /\ copy' = Put(copy, p, list \cup {<<who[p], id>>})
    /\ ids' = Put(ids, p, {id}) /\ minted' = minted \cup {id}
    /\ UNCHANGED <<files, command, service, sent, printed, dead, cut, unwritten, wiped>>

LoadToRemove(p) ==
    /\ Removing(p) /\ node /\ Matching(p) # {}
    /\ Goto(p, "load", "list")
    /\ copy' = Put(copy, p, list \ Matching(p))
    /\ ids' = Put(ids, p, IdsOf(Matching(p)))
    /\ UNCHANGED <<files, command, service, ghosts>>

LoadToRender(p) ==
    /\ op[p] = "render" /\ node
    /\ Goto(p, "load", "config")
    /\ copy' = Put(copy, p, list)
    /\ UNCHANGED <<files, command, ids, service, ghosts>>

(* No node, a name that has access already, or one that has none. *)
Refuse(p) ==
    /\ pc[p] = "load"
    /\ \/ ~node
       \/ Adding(p) /\ Matching(p) # {}
       \/ Removing(p) /\ Matching(p) = {}
    /\ Over(p)
    /\ lock' = Freed(p)
    /\ UNCHANGED <<node, list, config, service, ghosts>>

(* saveClients: the list lands first ... *)
SaveList(p) ==
    /\ Goto(p, "list", "config")
    /\ list' = copy[p]
    /\ UNCHANGED <<node, config, lock, work, service, ghosts>>

(* A write of config.json starts apply-config.sh, unless that runs already or
   the service, which its unit requires, is not up.  A script that has looked at
   the file does not see it. *)
Write(granted) ==
    /\ config' = granted
    /\ newer' = FALSE
    /\ script' = IF script = "off" /\ xray = "active" THEN "asleep" ELSE script
    /\ late' = (script \notin {"off", "asleep"})
    /\ UNCHANGED <<xray, loaded>>

(* ... then the configuration.  vpn-vless add prints the link and is done; the
   bot has the link to send, or the service to wait for. *)
SaveConfig(p) ==
    /\ pc[p] = "config"
    /\ Write(IdsOf(copy[p]))
    /\ lock' = Freed(p) /\ cut' = {} /\ unwritten' = {} /\ wiped' = FALSE
    /\ \/ p = Shell /\ Over(p) /\ sent' = sent \cup (IF Adding(p) THEN ids[p] ELSE {})
       \/ p = Bot /\ UNCHANGED <<work, sent>>
          /\ pc' = Put(pc, p, IF Adding(p) THEN "send" ELSE "confirm")
    /\ UNCHANGED <<node, list, minted, printed, dead>>

Blank ==
    /\ pc[Shell] = "blank"
    /\ Write({})
    /\ wiped' = (list # {}) /\ cut' = {}
    /\ Over(Shell)
    /\ UNCHANGED <<node, list, lock, minted, sent, printed, dead, unwritten>>

(* The bot sends the link before it waits for the service. *)
SendLink ==
    /\ Goto(Bot, "send", "confirm")
    /\ sent' = sent \cup ids[Bot]
    /\ UNCHANGED <<files, work, service, minted, printed, dead, cut, unwritten, wiped>>

(* WaitApplied: an active unit counts as applied ... *)
Applied ==
    /\ pc[Bot] = "confirm" /\ xray = "active"
    /\ dead' = dead \cup (IF Removing(Bot) THEN ids[Bot] ELSE {})
    /\ Over(Bot)
    /\ UNCHANGED <<files, service, minted, sent, printed, cut, unwritten, wiped>>

(* ... a failed one, or one that is not active in time, does not. *)
NotApplied ==
    /\ pc[Bot] = "confirm" /\ xray # "active"
    /\ Over(Bot)
    /\ UNCHANGED <<files, service, ghosts>>

(* An error or the death of the process; between its two writes, a removal leaves
   its credentials in the configuration, and an addition leaves its own out. *)
Fail(p) ==
    /\ pc[p] # "idle"
    /\ Over(p)
    /\ lock' = Freed(p)
    /\ cut' = IF pc[p] = "config" /\ Removing(p) THEN cut \cup (ids[p] \cap Granted) ELSE cut
    /\ unwritten' = IF pc[p] = "config" /\ Adding(p) THEN unwritten \cup ids[p] ELSE unwritten
    /\ UNCHANGED <<node, list, config, service, minted, sent, printed, dead, wiped>>

-----------------------------------------------------------------------------
(* apply-config.sh: after its sleep it reads the time of the file ... *)
ScriptStats ==
    /\ script = "asleep"
    /\ script' = IF newer THEN "newer" ELSE "older"
    /\ late' = FALSE
    /\ UNCHANGED <<files, pc, work, xray, loaded, newer, ghosts>>

(* ... then when the service started, which is later or not ... *)
ScriptCompares ==
    /\ \/ script = "newer" /\ script' = "applied"
       \/ script = "older" /\ script' = "stale"
    /\ UNCHANGED <<files, pc, work, xray, loaded, newer, late, ghosts>>

(* ... and has the service restarted, or says that this is done already. *)
ScriptRestarts ==
    /\ script = "stale" /\ script' = "restarting"
    /\ xray' = "activating" /\ loaded' = {}
    /\ UNCHANGED <<files, pc, work, newer, late, ghosts>>

ScriptEnds ==
    /\ script = "applied" \/ (script = "restarting" /\ xray # "activating")
    /\ script' = "off"
    /\ UNCHANGED <<files, pc, work, xray, loaded, newer, late, ghosts>>

(* The service and the unit that watches the file (external).  A path unit may fire
   again after the script that it started has ended. *)
PathFiresAgain ==
    /\ script = "off" /\ xray = "active"
    /\ script' = "asleep"
    /\ UNCHANGED <<files, pc, work, xray, loaded, newer, late, ghosts>>

(* Xray reads its configuration once, when it starts; a script that has yet to ask
   for that time may find it later than the file it looked at. *)
XrayStarts ==
    /\ xray = "activating" /\ xray' = "active"
    /\ loaded' = Granted /\ late' = FALSE
    /\ newer' \in BOOLEAN
    /\ \/ script' = script /\ ~(script = "older" /\ newer')
       \/ script = "older" /\ script' = "newer"
    /\ UNCHANGED <<files, pc, work, ghosts>>

XrayFails ==
    /\ xray = "activating" /\ xray' = "failed"
    /\ UNCHANGED <<files, pc, work, script, loaded, newer, late, ghosts>>

(* Restart=on-failure after a crash; systemctl start or restart by the operator. *)
XrayRestarts ==
    /\ config # None
    /\ xray' = "activating" /\ loaded' = {}
    /\ UNCHANGED <<files, pc, work, script, newer, late, ghosts>>

-----------------------------------------------------------------------------
Command ==
    \/ \E n \in Name :
        \/ \E what \in {"add", "remove"} : ShellCommand(what, n)
        \/ \E grant \in {"profile", "vless", "both"} : HandleMessage(grant, n)
        \/ HandleRevoke(n)
    \/ \E client \in list : CmdLink(client)
    \/ Render \/ CmdInit

Step(p) ==
    \/ Acquire(p) \/ LoadToRemove(p) \/ LoadToRender(p) \/ Refuse(p)
    \/ \E id \in Uuid : LoadToAdd(p, id)
    \/ SaveList(p) \/ SaveConfig(p)

BotStep == IssueProfile \/ SendLink \/ Applied \/ NotApplied

Script == ScriptStats \/ ScriptCompares \/ ScriptRestarts \/ ScriptEnds

Service == PathFiresAgain \/ XrayStarts \/ XrayFails \/ XrayRestarts

Next ==
    \/ Command \/ PrintLink \/ BotStep \/ Blank
    \/ \E p \in Proc : Step(p) \/ Fail(p)
    \/ Script \/ Service

Spec == Init /\ [][Next]_vars

-----------------------------------------------------------------------------
TypeOK ==
    /\ node \in BOOLEAN /\ list \subseteq Name \X Uuid
    /\ config \in {None} \cup SUBSET Uuid /\ lock \in Proc \cup {None}
    /\ pc \in [Proc -> {"idle", "profile", "blank", "lock", "load", "list", "config",
                        "send", "confirm", "print"}]
    /\ op \in [Proc -> {"none", "add", "remove", "link", "render", "init", "profile", "vless",
                        "both", "revoke"}]
    /\ who \in [Proc -> Name \cup {None}] /\ padded \in [Proc -> BOOLEAN]
    /\ copy \in [Proc -> SUBSET (Name \X Uuid)] /\ ids \in [Proc -> SUBSET Uuid]
    /\ script \in {"off", "asleep", "older", "newer", "stale", "restarting", "applied"}
    /\ xray \in {"inactive", "activating", "active", "failed"}
    /\ loaded \subseteq Uuid /\ newer \in BOOLEAN /\ late \in BOOLEAN
    /\ minted \subseteq Uuid /\ sent \subseteq Uuid /\ printed \subseteq Uuid
    /\ dead \subseteq Uuid
    /\ cut \subseteq Uuid /\ unwritten \subseteq Uuid /\ wiped \in BOOLEAN

(* "A config granting access the list does not record would be an invisible
   credential" (store.go:338): there is none, but while a removal is between its
   two writes, and after one that was cut short there. *)
BeingRemoved == UNION {ids[p] : p \in {q \in Proc : pc[q] = "config" /\ Removing(q)}}
NoInvisibleAccess == Granted \subseteq IdsOf(list) \cup BeingRemoved \cup cut

(* A link that the bot sent or vpn-vless add printed is granted by the configuration
   for as long as its client is on the list, whoever else adds, removes or renders
   meanwhile; but for an init that was still under way, which writes an empty one.
   vpn-vless link promises less: its link may be of an addition that is between its
   two writes, or was cut short there, and works after the next complete write. *)
BeingAdded == UNION {ids[p] : p \in {q \in Proc : pc[q] = "config" /\ Adding(q)}}
SentLinksWork ==
    \/ wiped
    \/ /\ sent \cap IdsOf(list) \subseteq Granted
       /\ printed \cap IdsOf(list) \subseteq Granted \cup BeingAdded \cup unwritten

(* What the owner was told is dead never comes back to the list or to the
   configuration (main.go:917). *)
DeadStaysOut == dead \cap (IdsOf(list) \cup Granted) = {}

(* No change is lost between the file and the service: as long as the running
   service honours anything else than config.json says, apply-config.sh is about
   to restart it, and is not going to think that this was done already.  The
   exception is the code's: a change that is written after the script looked at the
   file, while nobody watches it. *)
NoChangeLost ==
    xray = "active" /\ loaded # Granted =>
        late \/ (script = "asleep" /\ ~newer) \/ script \in {"older", "stale"}
=============================================================================
