----------------------------- MODULE HostResolver -----------------------------
(***************************************************************************)
(* The resolver of the host while the tunnel changes it (internal/dns):    *)
(* the snapshot in the memory of the helper, the durable backup for a      *)
(* helper that dies, and the reconciliation when it starts again.          *)
(*                                                                         *)
(* Three platforms: "file" is /etc/resolv.conf (dns_linux.go), "services"  *)
(* the network services of macOS, set one by one (dns_darwin.go), and      *)
(* "link" a setting of the tunnel's own link or adapter, which goes with   *)
(* it (systemd-resolved, dns_windows.go) and leaves nothing to undo.       *)
(* What a resolver is set to is "own" (the host's), "auto" (what           *)
(* vpn-client --clear-dns makes of it on macOS) or "tunnel".  Every        *)
(* command and every write of a file may fail; a file is replaced whole.   *)
(***************************************************************************)

CONSTANTS
    Service,     \* the network services of macOS
    File,        \* /etc/resolv.conf, or the link
    Unset        \* no snapshot, no backup

Setting == {"own", "auto", "tunnel"}

ASSUME ResolverAssumption ==
    /\ File \notin Service
    /\ Unset \notin [Service -> Setting] \cup [{File} -> Setting]

VARIABLES
    platform,
    resolver,    \* what each service, or the file, is set to
    backup,      \* the durable backup: Unset or a setting of each
    saved,       \* the runner's snapshot: Unset or a setting of each
    phase,       \* the helper: "down", "reconcile", "idle", "backup", "set", "up" or "undo"
    todo,        \* services that it has yet to set
    failed,      \* one of them could not be set
    faults       \* what went wrong so far

hostVars == <<platform, resolver, backup>>
helperVars == <<saved, phase, todo, failed>>
resolverVars == <<hostVars, helperVars, faults>>

Mine == IF platform = "services" THEN Service ELSE {File}

ResolverInit ==
    /\ platform \in {"file", "services", "link"}
    /\ resolver = [s \in Service \cup {File} |-> "own"] /\ backup = Unset
    /\ saved = Unset /\ phase = "down" /\ todo = {} /\ failed = FALSE /\ faults = {}

Enter(where, services) == phase' = where /\ todo' = services /\ failed' = FALSE
Set(s, to) == resolver' = [resolver EXCEPT ![s] = to]

-----------------------------------------------------------------------------
(* Reconcile, when the helper starts: what a backup says is put back ... *)
Start ==
    /\ phase = "down"
    /\ Enter("reconcile", IF backup = Unset THEN {} ELSE Mine)
    /\ UNCHANGED <<hostVars, saved, faults>>

(* A service that cannot be set does not stop the rest. *)
PutBack(s, from) ==
    /\ s \in todo /\ todo' = todo \ {s}
    /\ \/ Set(s, from[s]) /\ UNCHANGED <<failed, faults>>
       \/ failed' = TRUE /\ faults' = faults \cup {"command"} /\ UNCHANGED resolver
    /\ UNCHANGED <<platform, backup, saved, phase>>

Reconcile(s) == phase = "reconcile" /\ PutBack(s, backup)

\* The removal of the backup may fail; the error is dropped.
RemoveBackup == backup' \in {Unset, backup}

(* ... and the backup removed, but kept for the next start if anything failed. *)
Reconciled ==
    /\ phase = "reconcile" /\ todo = {}
    /\ IF failed THEN UNCHANGED backup ELSE RemoveBackup
    /\ Enter("idle", {})
    /\ UNCHANGED <<platform, resolver, saved, faults>>

-----------------------------------------------------------------------------
\* Plausible bugs, to test the run against: each stands for the definition that its
\* name starts with.
UndoneForGood ==
    /\ phase = "undo" /\ todo = {}
    /\ RemoveBackup
    /\ faults' = IF failed /\ platform = "file" THEN faults \cup {"dropped"} ELSE faults
    /\ Enter("idle", {}) /\ saved' = Unset
    /\ UNCHANGED <<platform, resolver>>
WriteBackupLater ==
    /\ phase = "backup"
    /\ Enter("set", Mine)
    /\ UNCHANGED <<hostVars, saved, faults>>

-----------------------------------------------------------------------------
(* Apply.  Everything is looked at before anything is changed; a failure there
   leaves it at that. *)
Snapshot ==
    /\ phase = "idle" /\ platform # "link"
    /\ saved' = [s \in Mine |-> resolver[s]]
    /\ faults' = IF \E s \in Mine : resolver[s] = "tunnel"
                   THEN faults \cup {"leftover"} ELSE faults
    /\ phase' = "backup"
    /\ UNCHANGED <<hostVars, todo, failed>>

(* The backup is best effort. *)
WriteBackup ==
    /\ phase = "backup"
    /\ \/ backup' = saved /\ UNCHANGED faults
       \/ UNCHANGED backup /\ faults' = faults \cup {"backup"}
    /\ Enter("set", Mine)
    /\ UNCHANGED <<platform, resolver, saved>>

ApplyLink ==
    /\ phase = "idle" /\ platform = "link"
    /\ Enter("set", Mine)
    /\ UNCHANGED <<hostVars, saved, faults>>

SetResolver(s) ==
    /\ phase = "set"
    /\ s \in todo /\ todo' = todo \ {s}
    /\ Set(s, "tunnel")
    /\ UNCHANGED <<platform, backup, saved, phase, failed, faults>>

Applied ==
    /\ phase = "set" /\ todo = {}
    /\ Enter("up", {})
    /\ UNCHANGED <<hostVars, saved, faults>>

(* A resolver that cannot be set is the end of Apply.  macOS undoes what was
   done; Linux has done nothing; the manager is dropped and nobody calls Remove. *)
SetFails ==
    /\ phase = "set" /\ todo # {}
    /\ faults' = faults \cup {"command"}
    /\ IF platform = "services"
         THEN Enter("undo", Mine) /\ UNCHANGED saved
         ELSE Enter("idle", {}) /\ saved' = Unset
    /\ UNCHANGED hostVars

-----------------------------------------------------------------------------
(* Restore, at the end of the session. *)
Remove ==
    /\ phase = "up" /\ platform # "link"
    /\ Enter("undo", Mine)
    /\ UNCHANGED <<hostVars, saved, faults>>

RemoveLink ==
    /\ phase = "up" /\ platform = "link"
    /\ Set(File, "own") /\ Enter("idle", {})
    /\ UNCHANGED <<platform, backup, saved, faults>>

Undo(s) == phase = "undo" /\ PutBack(s, saved)

(* The snapshot is gone after that.  macOS keeps the backup of a restore that
   failed; Linux removes it in a defer, whatever happened. *)
Undone ==
    /\ phase = "undo" /\ todo = {}
    /\ IF failed /\ platform = "services" THEN UNCHANGED backup ELSE RemoveBackup
    /\ faults' = IF failed /\ platform = "file" THEN faults \cup {"dropped"} ELSE faults
    /\ Enter("idle", {}) /\ saved' = Unset
    /\ UNCHANGED <<platform, resolver>>

-----------------------------------------------------------------------------
(* The helper stops when it is idle, or dies at any time; the memory goes with it,
   and a link with its process. *)
Crash ==
    /\ phase # "down"
    /\ Enter("down", {}) /\ saved' = Unset
    /\ IF platform = "link" THEN Set(File, "own") ELSE UNCHANGED resolver
    /\ UNCHANGED <<platform, backup, faults>>

(* vpn-client --clear-dns, without a tunnel: Linux goes by the backup, macOS sets
   every service that it can to automatic and drops the backup. *)
ClearDNS ==
    /\ phase \in {"down", "idle"}
    /\ \/ /\ platform = "file" /\ backup # Unset
          /\ Set(File, backup[File]) /\ RemoveBackup
          /\ UNCHANGED faults
       \/ /\ platform = "services"
          /\ \E bad \in SUBSET Service :
                /\ resolver' = [s \in Service \cup {File} |->
                                  IF s \in Service \ bad THEN "auto" ELSE resolver[s]]
                /\ faults' = IF bad = {} THEN faults ELSE faults \cup {"dropped"}
          /\ RemoveBackup
    /\ UNCHANGED <<platform, helperVars>>

ResolverNext ==
    \/ Start \/ Reconciled \/ Snapshot \/ WriteBackup \/ ApplyLink \/ Applied \/ SetFails
    \/ Remove \/ RemoveLink \/ Undone \/ Crash \/ ClearDNS
    \/ \E s \in Service \cup {File} : Reconcile(s) \/ SetResolver(s) \/ Undo(s)

ResolverSpec == ResolverInit /\ [][ResolverNext]_resolverVars

-----------------------------------------------------------------------------
ResolverTypeOK ==
    /\ platform \in {"file", "services", "link"}
    /\ resolver \in [Service \cup {File} -> Setting]
    /\ backup \in {Unset} \cup [Mine -> Setting] /\ saved \in {Unset} \cup [Mine -> Setting]
    /\ phase \in {"down", "reconcile", "idle", "backup", "set", "up", "undo"}
    /\ todo \subseteq Mine /\ failed \in BOOLEAN
    /\ faults \subseteq {"command", "backup", "leftover", "dropped"}

(* A resolver of the host that points into the tunnel can be put right: what it was
   is in memory or in the backup.  But for a backup that could not be written, one
   that Linux or --clear-dns dropped after a failure, and a session that was started
   on top of another's leftovers and took them for the host's own. *)
Recoverable ==
    \A s \in Mine : resolver[s] = "tunnel" /\ platform # "link" =>
        \/ saved # Unset /\ saved[s] # "tunnel"
        \/ backup # Unset /\ backup[s] # "tunnel"
        \/ faults \cap {"backup", "leftover", "dropped"} # {}

(* A crash at any step is cured by the next start: if no command and no write has
   failed, a helper that is idle has left no resolver pointing into the tunnel
   ("heal a prior crash before serving", vpn-helper main.go:109). *)
CrashIsCured ==
    phase = "idle" /\ faults = {} => \A s \in Mine : resolver[s] # "tunnel"
=============================================================================
