------------------------------ MODULE NodeHealth ------------------------------
(***************************************************************************)
(* The server's view of its deny list and of itself: the Checker of        *)
(* internal/revoke with its cache, and the health report of                *)
(* internal/tunnel/server.                                                 *)
(*                                                                         *)
(* vpn-ca and the bot replace revoked.json; the server looks at the file   *)
(* at every handshake and every health probe, and reads it only if its     *)
(* modification time or size is not what it was, or if it was modified a   *)
(* moment ago.  The file system's clock is coarse: two replacements in one *)
(* tick have one modification time.  Time is relative: fresh says that the *)
(* file was modified in the current tick, which is as far back as the      *)
(* checker's window reaches, and stamped that the cache carries the file's *)
(* modification time.  The size of a list is the number of its entries.    *)
(* A look at the file is one step: the checker holds its mutex throughout, *)
(* and what it reads after a replacement that follows its Stat has the     *)
(* older stamps, so that the next look reads again.                        *)
(***************************************************************************)
EXTENDS Naturals, FiniteSets

CONSTANTS
    CertSerial       \* serial numbers of certificates

ASSUME SerialsFinite == IsFiniteSet(CertSerial)

VARIABLES
    deny,        \* the serials of revoked.json, as last saved
    disk,        \* the file: "ok", "gone", "bad" (cannot be read or parsed) or
                 \* "hidden" (cannot even be looked at)
    fresh,       \* it was modified in the current tick
    cache,       \* the checker's set, empty until it has read the file
    loaded,      \* it has
    stamped,     \* the checker's mtime is that of the file
    size,        \* the checker's size
    masked,      \* the last save has the mtime and the size of the cached list
    node,        \* the server: "down", "serving" or "closing"
    cert         \* its certificate: "good", "ending" or "expired"

fileVars == <<deny, disk, fresh>>
checker == <<cache, loaded, stamped, size>>
nodeVars == <<fileVars, checker, masked, node, cert>>

NodeInit ==
    /\ deny = {} /\ disk = "gone" /\ fresh = FALSE
    /\ cache = {} /\ loaded = FALSE /\ stamped = FALSE /\ size = 0 /\ masked = FALSE
    /\ node = "down" /\ cert = "good"

-----------------------------------------------------------------------------
(* The checker. *)

\* A plausible bug, to test the run against: it stands for the definition that its
\* name starts with.
ReloadsOnStamp == ~loaded \/ ~stamped \/ size # Cardinality(deny)

(* The file is read again unless it looks as it did and has done so for long. *)
Reloads == ~loaded \/ ~stamped \/ size # Cardinality(deny) \/ fresh

(* What IsRevoked does to the checker.  A file that is gone leaves the last list
   in force; one that cannot be read leaves everything as it was. *)
LookUp ==
    CASE disk = "gone" ->
            /\ stamped' = FALSE /\ size' = 0 /\ masked' = FALSE
            /\ UNCHANGED <<cache, loaded>>
      [] disk = "ok" /\ Reloads ->
            /\ cache' = deny /\ loaded' = TRUE /\ stamped' = TRUE /\ size' = Cardinality(deny)
            /\ masked' = FALSE
      [] OTHER -> UNCHANGED <<checker, masked>>

(* It returns an error if it cannot look, or would have to read and cannot: a file
   that only lost its rights is answered for from the cache. *)
LookUpFails == disk = "hidden" \/ (disk = "bad" /\ Reloads)

(* What a look refuses: the listed serials (and any serial when it fails). *)
Enforced == IF disk = "ok" /\ Reloads THEN deny ELSE cache

-----------------------------------------------------------------------------
(* The health report. *)
Answers == node # "down"
Ready == node = "serving" /\ cert # "expired" /\ ~LookUpFails
Warns == cert = "ending"

-----------------------------------------------------------------------------
(* revoked.json is replaced (save, as Add and RemoveSerial call it); one that was
   lost or spoiled may come back with the entries that it had. *)
Save(list) ==
    /\ disk = "ok" => list # deny
    /\ deny' = list /\ disk' = "ok" /\ fresh' = TRUE
    /\ stamped' = (stamped /\ fresh)
    /\ masked' = (stamped' /\ size = Cardinality(list) /\ cache # list)
    /\ UNCHANGED <<cache, loaded, size, node, cert>>

(* The file, or the way to it, is lost or loses its rights, ... *)
Spoil(how) ==
    /\ disk = "ok" /\ disk' = how
    /\ UNCHANGED <<deny, fresh, checker, masked, node, cert>>

(* ... or something else is written over it, of another size. *)
Garble ==
    /\ disk = "ok" /\ disk' = "bad"
    /\ fresh' = TRUE /\ stamped' = FALSE /\ masked' = FALSE
    /\ UNCHANGED <<deny, cache, loaded, size, node, cert>>

Tick ==
    /\ fresh /\ fresh' = FALSE
    /\ UNCHANGED <<deny, disk, checker, masked, node, cert>>

(* VerifyConnection of a client's handshake. *)
Handshake ==
    /\ node = "serving"
    /\ LookUp
    /\ UNCHANGED <<fileVars, node, cert>>

(* The listener is bound before the health endpoint answers. *)
Start ==
    /\ node = "down" /\ node' = "serving"
    /\ cache' = {} /\ loaded' = FALSE /\ stamped' = FALSE /\ size' = 0
    /\ masked' = FALSE
    /\ UNCHANGED <<fileVars, cert>>

Close == node = "serving" /\ node' = "closing" /\ UNCHANGED <<fileVars, checker, masked, cert>>
Stop == node # "down" /\ node' = "down" /\ UNCHANGED <<fileVars, checker, masked, cert>>

(* The certificate ages; a new one is loaded when the server starts. *)
Age ==
    /\ cert # "expired"
    /\ cert' = IF cert = "good" THEN "ending" ELSE "expired"
    /\ UNCHANGED <<fileVars, checker, masked, node>>

Renew ==
    /\ node = "down" /\ cert # "good" /\ cert' = "good"
    /\ UNCHANGED <<fileVars, checker, masked, node>>

NodeStep ==
    \/ \E list \in SUBSET CertSerial : Save(list)
    \/ \E how \in {"gone", "bad", "hidden"} : Spoil(how)
    \/ Garble \/ Tick \/ Handshake \/ Start \/ Close \/ Stop \/ Age \/ Renew

-----------------------------------------------------------------------------
NodeTypeOK ==
    /\ deny \subseteq CertSerial /\ disk \in {"ok", "gone", "bad", "hidden"} /\ fresh \in BOOLEAN
    /\ cache \subseteq CertSerial /\ loaded \in BOOLEAN /\ stamped \in BOOLEAN
    /\ size \in Nat /\ masked \in BOOLEAN
    /\ node \in {"down", "serving", "closing"} /\ cert \in {"good", "ending", "expired"}

(* The server enforces the list as it is on disk, although it reads the file as
   rarely as it can (revoke.go:305): but for a replacement in the tick of the one
   that it has read, with as many bytes, and a file that is gone. *)
EnforcesTheList == disk = "ok" => Enforced = deny \/ (masked /\ ~fresh)
=============================================================================
