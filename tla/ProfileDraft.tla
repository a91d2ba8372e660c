----------------------------- MODULE ProfileDraft -----------------------------
(***************************************************************************)
(* The backend of the desktop app (cmd/vpn-gui/app.go) with its saved      *)
(* profile (internal/profilestore), its client of the helper               *)
(* (internal/control) and the checks of internal/profile.                  *)
(*                                                                         *)
(* The app keeps one draft: three credential files, the server of the      *)
(* form, the addresses that an imported profile knows for its node and the *)
(* one that worked last.  The webview dispatches the bound methods         *)
(* concurrently: each takes the mutex for its critical sections only, and  *)
(* saves outside it.  The process may end at any time and loads what was   *)
(* saved.                                                                  *)
(*                                                                         *)
(* A set of credential files is the profile that they come from, or Mixed  *)
(* while they are of several, or not complete: only a profile's own pass   *)
(* the checks of LoadPEM.  A bundle carries those of one profile.          *)
(***************************************************************************)
CONSTANTS
    Profile,     \* profiles that were handed out
    Address,     \* servers' addresses
    ListOf,      \* the addresses that a profile's bundle lists
    Call,        \* dispatches of bound methods
    Mixed,       \* credential files that do not belong together
    Nothing

ASSUME DraftAssumption ==
    /\ ListOf \in [Profile -> SUBSET Address]
    /\ \A p \in Profile : ListOf[p] # {}
    /\ Mixed \notin Profile /\ Nothing \notin Profile \cup Address \cup {Mixed}

VARIABLES
    files,       \* the draft's credentials: a profile, Mixed or Nothing
    server,      \* the form's server, or Nothing
    endpoints,   \* the addresses that the draft knows
    last,        \* lastEndpoint, or Nothing
    disk,        \* the saved profile: Blank while there is none
    doing, op,      \* what a dispatch does next, and for which method
    note,        \* its snapshot of the draft (for Status, the server reported)
    picked,      \* a file was picked since the draft was last copied to be saved
    spoiled,     \* the last saves overlapped, or one failed
    foreign      \* addresses and credentials of two profiles may have met

draft == <<files, server, endpoints, last>>
calls == <<doing, op, note>>
reasons == <<picked, spoiled, foreign>>
draftVars == <<draft, disk, calls, reasons>>

Copy(f, s, e, l) == [files |-> f, server |-> s, endpoints |-> e, last |-> l]
Draft == Copy(files, server, endpoints, last)
Blank == Copy(Nothing, Nothing, {}, Nothing)

DraftInit ==
    /\ files = Nothing /\ server = Nothing /\ endpoints = {} /\ last = Nothing /\ disk = Blank
    /\ doing = [c \in Call |-> "idle"] /\ op = [c \in Call |-> "none"]
    /\ note = [c \in Call |-> Blank]
    /\ picked = FALSE /\ spoiled = FALSE /\ foreign = FALSE

Put(f, c, x) == [f EXCEPT ![c] = x]
Moves(c, from, to) == doing[c] = from /\ doing' = Put(doing, c, to)
Over(c) == doing' = Put(doing, c, "idle") /\ op' = Put(op, c, "none") /\ note' = Put(note, c, Blank)

\* LoadPEM: the files belong together.
Valid(f) == f \in Profile

(* The file that carries a profile: one address makes a file of version 1, which every
   app reads, several make one of version 2. *)
Single(list) == \E a \in Address : list = {a}
MarshalBundle(p) ==
    IF Single(ListOf[p])
      THEN [version |-> 1, files |-> p, server |-> CHOOSE a \in ListOf[p] : TRUE, list |-> {}]
      ELSE [version |-> 2, files |-> p, server |-> Nothing, list |-> ListOf[p]]
ParseBundle(b) ==
    [files |-> b.files, endpoints |-> IF b.version = 1 THEN {b.server} ELSE b.list]

\* A call that will save copies the draft; another may be doing that already.
Saving(c) == doing[c] \in {"commit", "save", "write"}
BeginsToSave(c) ==
    /\ picked' = FALSE
    /\ spoiled' = (\E d \in Call \ {c} : Saving(d))
    /\ foreign' = (foreign \/ spoiled')

-----------------------------------------------------------------------------
(* Plausible bugs, to test the run against: each stands for the definition that its
   name starts with. *)
ImportProfileBundleOnTop(c, p) ==
    /\ Moves(c, "idle", "save")
    /\ files' = p /\ server' \in ListOf[p] /\ last' = Nothing
    /\ endpoints' = IF endpoints = {} THEN ListOf[p] ELSE endpoints
    /\ op' = Put(op, c, "import")
    /\ note' = Put(note, c, Copy(files', server', {}, Nothing))
    /\ BeginsToSave(c)
    /\ UNCHANGED disk
CommitNothing(c) ==
    /\ Moves(c, "commit", "save")
    /\ UNCHANGED <<draft, disk, op, note, reasons>>

(* ImportProfileBundle: the draft becomes the profile, and forgets which address
   worked before. *)
ImportProfileBundle(c, p) ==
    /\ Moves(c, "idle", "save")
    /\ LET b == ParseBundle(MarshalBundle(p))
       IN files' = b.files /\ endpoints' = b.endpoints /\ server' \in b.endpoints
    /\ last' = Nothing
    /\ op' = Put(op, c, "import")
    /\ note' = Put(note, c, Copy(files', server', {}, Nothing))
    /\ BeginsToSave(c)
    /\ UNCHANGED disk

(* PickCredential replaces one file of three: what was whole may be mixed then, and
   what was mixed a profile.  The list of addresses stays. *)
PickCredential(f) ==
    /\ f # files
    /\ f = Mixed \/ files \in {Mixed, Nothing}
    /\ files' = f /\ picked' = TRUE
    /\ foreign' = (foreign \/ (f \in Profile /\ endpoints \notin {{}, ListOf[f]}))
    /\ UNCHANGED <<server, endpoints, last, disk, calls, spoiled>>

(* Connect: the credentials are copied and checked against the form ... *)
ConnectForm(c, s) ==
    /\ Valid(files)
    /\ Moves(c, "idle", "commit")
    /\ op' = Put(op, c, "connect")
    /\ note' = Put(note, c, Copy(files, s, {}, Nothing))
    /\ BeginsToSave(c)
    /\ UNCHANGED <<draft, disk>>

(* ... and the form is committed under a second lock. *)
Commit(c) ==
    /\ Moves(c, "commit", "save")
    /\ server' = note[c].server
    /\ UNCHANGED <<files, endpoints, last, disk, op, note, reasons>>

(* Reconnect takes the draft as it is; connect refuses what is not complete and
   control.Client what does not belong together. *)
Reconnect(c) ==
    /\ Valid(files) /\ server # Nothing
    /\ Moves(c, "idle", "dial")
    /\ op' = Put(op, c, "reconnect")
    /\ note' = Put(note, c, Draft)
    /\ UNCHANGED <<draft, disk, reasons>>

(* Status: the helper reports the address that the live session uses; vpn-ctl may
   have started that session with another profile. *)
Status(c, a) ==
    /\ Moves(c, "idle", "remember")
    /\ op' = Put(op, c, "status")
    /\ note' = Put(note, c, Copy(Nothing, a, {}, Nothing))
    /\ UNCHANGED <<draft, disk, reasons>>

(* rememberEndpoint: an address that the profile lists, unless it is known. *)
Listed(a) == a \in endpoints
RememberEndpoint(c) ==
    /\ doing[c] = "remember"
    /\ LET a == note[c].server
       IN IF a = last \/ ~Listed(a)
            THEN Over(c) /\ UNCHANGED <<last, reasons>>
            ELSE /\ last' = a
                 /\ doing' = Put(doing, c, "save") /\ UNCHANGED op
                 /\ note' = Put(note, c, Copy(files, server, {}, Nothing))
                 /\ BeginsToSave(c)
    /\ UNCHANGED <<files, server, endpoints, disk>>

-----------------------------------------------------------------------------
(* save: the addresses are read under the lock, once more ... *)
ReadEndpoints(c) ==
    /\ Moves(c, "save", "write")
    /\ note' = Put(note, c, Copy(note[c].files, note[c].server, endpoints, last))
    /\ UNCHANGED <<draft, disk, op, reasons>>

(* ... and all of it replaces the saved profile, or nothing does.  Connect goes on,
   without the addresses. *)
Save(c) ==
    /\ doing[c] = "write"
    /\ \/ disk' = note[c] /\ UNCHANGED spoiled
       \/ UNCHANGED disk /\ spoiled' = TRUE
    /\ IF op[c] = "connect"
         THEN /\ doing' = Put(doing, c, "dial") /\ UNCHANGED op
              /\ note' = Put(note, c, Copy(note[c].files, note[c].server, {}, Nothing))
         ELSE Over(c)
    /\ UNCHANGED <<draft, picked, foreign>>

(* control.Client.Connect sends a list of addresses in place of the server, if it
   has one; the helper connects or refuses. *)
Dialled(n) == IF n.endpoints = {} THEN {n.server} ELSE n.endpoints
Dial(c) ==
    /\ doing[c] = "dial"
    /\ Over(c)
    /\ UNCHANGED <<draft, disk, reasons>>

(* The process ends and is started again: NewApp loads what was saved. *)
NewApp ==
    /\ files' = disk.files /\ server' = disk.server
    /\ endpoints' = disk.endpoints /\ last' = disk.last
    /\ doing' = [c \in Call |-> "idle"] /\ op' = [c \in Call |-> "none"]
    /\ note' = [c \in Call |-> Blank]
    /\ picked' = FALSE /\ spoiled' = FALSE
    /\ UNCHANGED <<disk, foreign>>

DraftNext ==
    \/ \E f \in Profile \cup {Mixed} : PickCredential(f)
    \/ \E c \in Call :
        \/ \E p \in Profile : ImportProfileBundle(c, p)
        \/ \E a \in Address : ConnectForm(c, a) \/ Status(c, a)
        \/ Commit(c) \/ Reconnect(c) \/ RememberEndpoint(c)
        \/ ReadEndpoints(c) \/ Save(c) \/ Dial(c)
    \/ NewApp

DraftSpec == DraftInit /\ [][DraftNext]_draftVars

-----------------------------------------------------------------------------
Copies == [files : Profile \cup {Mixed, Nothing}, server : Address \cup {Nothing},
           endpoints : SUBSET Address, last : Address \cup {Nothing}]

DraftTypeOK ==
    /\ Draft \in Copies /\ disk \in Copies
    /\ doing \in [Call -> {"idle", "commit", "save", "write", "remember", "dial"}]
    /\ op \in [Call -> {"none", "import", "connect", "reconnect", "status"}]
    /\ note \in [Call -> Copies]
    /\ picked \in BOOLEAN /\ spoiled \in BOOLEAN /\ foreign \in BOOLEAN

(* What the user sees survives a restart (app.go:171): when nobody is saving, the
   saved profile is the draft, but for files that were picked and not yet connected
   with, a save that failed, and saves that overlapped. *)
SavedIsDraft ==
    (\A c \in Call : ~Saving(c)) /\ ~picked /\ ~spoiled
        => Draft = disk

(* The key of a profile is used with the addresses of that profile, whenever a list
   of addresses is dialled: no order of imports, polls of Status and restarts sends
   it elsewhere, unless saves overlapped, or files were picked over a list. *)
KeyStaysHome ==
    \A c \in Call : doing[c] = "dial" =>
        \/ Dialled(note[c]) = ListOf[note[c].files]
        \/ note[c].endpoints = {} \* typed by the user
        \/ foreign

(* A remembered address is one that the draft lists, in memory and on disk, even
   after an import in between (app.go:361). *)
RememberedIsListed ==
    /\ last \in endpoints \cup {Nothing}
    /\ disk.last \in disk.endpoints \cup {Nothing}
=============================================================================
