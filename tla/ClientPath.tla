----------------------------- MODULE ClientPath -----------------------------
(***************************************************************************)
(* How the client changes the host and puts it back: pin-hole and tunnel   *)
(* routes (internal/route), leak protection (internal/firewall), resolver, *)
(* and the order client.go does it in (preparePath, ensure*, Run).         *)
(*                                                                         *)
(* Every command the host runs may fail, the network may change and drop   *)
(* host routes, and the server's name may resolve elsewhere.  The variables*)
(* that begin with k are the kernel's, the rest are the client's record of *)
(* what it did.  A pin-hole is a route <<server, gateway>>; the kernel has *)
(* at most one per server, as `ip route add` does.                         *)
(***************************************************************************)
EXTENDS Naturals, FiniteSets

CONSTANTS
    Server,   \* addresses the server's name may resolve to
    Gateway,  \* gateways of the networks the host may be on
    None      \* no address, no gateway, no route

ASSUME PathAssumption ==
    /\ None \notin Server /\ None \notin Gateway
    /\ "tunGW" \notin Gateway                                    \* the tunnel's own
    /\ Server \cap {"low", "high", "net", "fw", "dns"} = {}      \* see stuck

VARIABLES
    pc, addr, push,                  \* where connectOnce is, whom it dials, what AssignIP pushed
    routes, mServer, pinholeGW,      \* c.routes exists; its server and pinholeGW
    pinRecs, tunRecs,                \* installed: its records of pin-holes and of tunnel routes
    leakguard, applied, leakguardOff, pinnedServerIP,
    resolvers,                       \* c.resolvers exists
    AllowInsecureLeak,               \* Config
    kPin, kTun, kFw, kDNS,           \* host routes, tunnel routes, firewall, resolver
    gwNow,                           \* the default gateway, or None
    stuck,                           \* what the host refused to remove
    pinned                           \* gateway of the last clean refresh, or None

client == <<pc, addr, push>>
installed == <<pinRecs, tunRecs>>
routeMgr == <<routes, mServer, pinholeGW, installed>>
guardMgr == <<leakguard, applied, leakguardOff, pinnedServerIP>>
kRoutes == <<kPin, kTun>>
vars == <<client, routeMgr, guardMgr, resolvers, AllowInsecureLeak, kRoutes, kFw, kDNS,
          gwNow, stuck, pinned>>
rest == <<AllowInsecureLeak, gwNow>>

Halves == {"low", "high"}         \* what expandDefault makes of 0.0.0.0/0
TunnelRoutes == Halves \cup {"net"}
RoutesOf(p) == IF p = "full" THEN Halves ELSE IF p = "split" THEN {"net"} ELSE {}

Init ==
    /\ pc = "idle" /\ addr = None /\ push = "none"
    /\ routes = FALSE /\ mServer = None /\ pinholeGW = None /\ pinRecs = {} /\ tunRecs = {}
    /\ leakguard = FALSE /\ applied = FALSE /\ leakguardOff = FALSE /\ pinnedServerIP = None
    /\ resolvers = FALSE
    /\ AllowInsecureLeak \in BOOLEAN
    /\ kPin = [s \in Server |-> None] /\ kTun = {} /\ kFw = None /\ kDNS = FALSE
    /\ gwNow \in Gateway
    /\ stuck = {} /\ pinned = None

Goto(from, to) == pc = from /\ pc' = to

-----------------------------------------------------------------------------
(* Host commands: the pin-holes there may be after one, or after its failure. *)
DelPin(p, s, g) ==
    {p} \cup (IF g # None /\ p[s] = g THEN {[p EXCEPT ![s] = None]} ELSE {})

AddPin(p, s, g) ==
    {p} \cup (IF p[s] = None THEN {[p EXCEPT ![s] = g]} ELSE {})

(* DefaultGateway: it may fail, and with the tunnel routes in place some
   systems answer with the tunnel's own gateway. *)
Answers == {gwNow, None} \cup (IF kTun \cap Halves # {} THEN {"tunGW"} ELSE {})

-----------------------------------------------------------------------------
\* Plausible bugs, to test the runs against: each stands for the definition
\* its name starts with.
RecordPinOnce(recs, s, g) ==
    IF \E h \in Gateway : <<s, h>> \in recs THEN recs ELSE recs \cup {<<s, g>>}

PinholeAfterAlways(added, gw, hole) == gw

RemoveResolversAndGuard ==
    /\ Goto("rmDNS", "rmRoutes")
    /\ kFw' = None /\ leakguard' = FALSE /\ applied' = FALSE
    /\ resolvers' = FALSE /\ kDNS' = FALSE
    /\ UNCHANGED <<addr, push, routeMgr, leakguardOff, pinnedServerIP, kRoutes, stuck,
                   pinned, rest>>

-----------------------------------------------------------------------------
(* The route manager. *)
ForgetPin(recs, s) == recs \ {<<s, g>> : g \in Gateway}
RecordPin(recs, s, g) == ForgetPin(recs, s) \cup {<<s, g>>}

\* What RefreshServerPinhole makes of the gateway query, and of its two commands.
Usable(gw) == gw \notin {None, "tunGW"}
PinholeAfter(added, gw, hole) == IF added THEN gw ELSE hole

(* PinServer: a moved server's old pin-hole goes and is forgotten, then
   RefreshServerPinhole through the gateway of now, unless there is none. *)
PinServer(s) ==
    LET moved == s # mServer
        hole == IF moved THEN None ELSE pinholeGW
        kept == IF moved /\ pinholeGW # None THEN ForgetPin(pinRecs, mServer) ELSE pinRecs
    IN  \E p1 \in IF moved THEN DelPin(kPin, mServer, pinholeGW) ELSE {kPin}, gw \in Answers :
            /\ mServer' = s
            /\ stuck' = stuck \cup
                  {x \in {mServer} : moved /\ pinholeGW # None /\ p1[x] = pinholeGW}
            /\ IF ~Usable(gw)
               THEN /\ kPin' = p1 /\ pinholeGW' = hole /\ pinRecs' = kept
                    /\ pinned' = None
               ELSE \E p2 \in DelPin(p1, s, hole) : \E p3 \in AddPin(p2, s, gw) :
                    /\ kPin' = p3
                    /\ pinholeGW' = PinholeAfter(p2 # p3, gw, hole)
                    /\ pinRecs' = IF p2 # p3 THEN RecordPin(kept, s, gw) ELSE kept
                    /\ pinned' = IF (hole # None /\ p2[s] = hole) \/ (p2[s] = None /\ p3 = p2)
                                 THEN None     \* a command failed that need not
                                 ELSE gw

(* rollback, of Install and of Remove: whatever the host removes is gone, the
   records are dropped either way. *)
Rollback ==
    \E refused \in SUBSET (TunnelRoutes \cup Server) :
        LET left == {s \in Server \cap refused : <<s, kPin[s]>> \in pinRecs}
            tun == kTun \cap tunRecs \cap refused
        IN  /\ kPin' = [s \in Server |-> IF <<s, kPin[s]>> \in pinRecs /\ s \notin left
                                         THEN None ELSE kPin[s]]
            /\ kTun' = (kTun \ tunRecs) \cup tun
            /\ stuck' = stuck \cup left \cup tun
            /\ pinRecs' = {} /\ tunRecs' = {}

(* Install: the pin-hole, then the pushed routes; the first failure undoes all. *)
InstallPin(gw) ==
    /\ gw \in Gateway
    /\ kPin[addr] = None
    /\ kPin' = [kPin EXCEPT ![addr] = gw]

Install(gw) ==
    /\ InstallPin(gw)
    /\ kTun' = kTun \cup RoutesOf(push)
    /\ routes' = TRUE /\ mServer' = addr /\ pinholeGW' = gw
    /\ pinRecs' = {<<addr, gw>>} /\ tunRecs' = RoutesOf(push)
    /\ UNCHANGED stuck

InstallFails ==
    /\ \/ UNCHANGED <<kPin, kTun, stuck>>        \* no gateway, or no pin-hole
       \/ \E left \in SUBSET RoutesOf(push), pinLeft \in BOOLEAN :
             /\ gwNow # None /\ kPin[addr] = None
             /\ left # RoutesOf(push)
             /\ kTun' = kTun \cup left
             /\ IF pinLeft THEN InstallPin(gwNow) ELSE UNCHANGED kPin
             /\ stuck' = stuck \cup left \cup (IF pinLeft THEN {addr} ELSE {})
    /\ UNCHANGED routeMgr

-----------------------------------------------------------------------------
(* The firewall manager.  A failed load leaves the old table or none. *)
Enable(s, ok) ==
    /\ ~applied
    /\ applied' = ok
    /\ IF ok THEN kFw' = s ELSE kFw' \in {kFw, None}

Restore ==
    \/ applied' = FALSE /\ kFw' = None /\ UNCHANGED stuck
    \/ UNCHANGED <<applied, kFw>> /\ stuck' = stuck \cup {"fw"}

RemoveGuard ==
    IF applied THEN Restore ELSE UNCHANGED <<applied, kFw, stuck>>

-----------------------------------------------------------------------------
(* connectOnce up to the dial: resolve, re-pin, re-point the kill-switch. *)
Resolve(s) ==
    /\ Goto("idle", "pin")
    /\ addr' = s
    /\ UNCHANGED <<push, routeMgr, guardMgr, resolvers, kRoutes, kFw, kDNS, stuck, pinned, rest>>

PreparePin ==
    /\ Goto("pin", "guard")
    /\ IF routes
       THEN PinServer(addr)
       ELSE UNCHANGED <<mServer, pinholeGW, pinRecs, kPin, stuck>> /\ pinned' = None
    /\ UNCHANGED <<addr, push, routes, tunRecs, guardMgr, resolvers, kTun, kFw, kDNS, rest>>

Repoint == leakguard /\ pinnedServerIP # None /\ addr # pinnedServerIP

KeepGuard ==
    /\ Goto("guard", "dial")
    /\ ~Repoint
    /\ pinnedServerIP' = addr
    /\ UNCHANGED <<addr, push, routeMgr, leakguard, applied, leakguardOff, resolvers, kRoutes,
                   kFw, kDNS, stuck, pinned, rest>>

UnGuard ==
    /\ Goto("guard", "reguard")
    /\ Repoint
    /\ RemoveGuard
    /\ UNCHANGED <<addr, push, routeMgr, leakguard, leakguardOff, pinnedServerIP, resolvers,
                   kRoutes, kDNS, pinned, rest>>

ReGuard ==
    /\ Goto("reguard", "dial")
    /\ pinnedServerIP' = addr
    /\ \/ Enable(addr, TRUE) /\ UNCHANGED <<leakguard, leakguardOff>>
       \/ /\ Enable(addr, FALSE) \/ (applied /\ UNCHANGED <<applied, kFw>>)
          /\ leakguard' = FALSE /\ leakguardOff' = TRUE
    /\ UNCHANGED <<addr, push, routeMgr, resolvers, kRoutes, kDNS, stuck, pinned, rest>>

(* The dial gets through unless the firewall or the tunnel routes are in its
   way; the first frame then brings AssignIP. *)
Reachable ==
    /\ kFw \in {None, addr}
    /\ kTun \cap Halves # {} => kPin[addr] # None

Assigned(p) ==
    /\ Goto("dial", "leak")
    /\ Reachable
    /\ push' = p
    /\ UNCHANGED <<addr, routeMgr, guardMgr, resolvers, kRoutes, kFw, kDNS, stuck, pinned, rest>>

AttemptFails ==
    /\ pc \in {"idle", "dial", "connected"}
    /\ pc' \in {"idle", "rmDNS"}
    /\ UNCHANGED <<addr, push, routeMgr, guardMgr, resolvers, kRoutes, kFw, kDNS, stuck,
                   pinned, rest>>

EnsureLeakProtection ==
    /\ pc = "leak"
    /\ IF leakguard \/ leakguardOff \/ push # "full"
       THEN pc' = "routes" /\ UNCHANGED <<leakguard, applied, leakguardOff, kFw>>
       ELSE \/ /\ Enable(addr, TRUE)
               /\ leakguard' = TRUE /\ pc' = "routes" /\ UNCHANGED leakguardOff
            \/ /\ Enable(addr, FALSE)
               /\ leakguardOff' = AllowInsecureLeak
               /\ pc' = IF AllowInsecureLeak THEN "routes" ELSE "rmDNS"
               /\ UNCHANGED leakguard
    /\ UNCHANGED <<addr, push, routeMgr, pinnedServerIP, resolvers, kRoutes, kDNS, stuck,
                   pinned, rest>>

EnsureRoutes ==
    /\ pc = "routes"
    /\ IF routes \/ push = "none"
       THEN pc' = "dns" /\ UNCHANGED <<routeMgr, kRoutes, stuck>>
       ELSE \/ Install(gwNow) /\ pc' = "dns"
            \/ InstallFails /\ pc' = "rmDNS"
    /\ UNCHANGED <<addr, push, guardMgr, resolvers, kFw, kDNS, pinned, rest>>

EnsureDNS ==
    /\ pc = "dns"
    /\ \/ pc' = "connected" /\ UNCHANGED <<resolvers, kDNS, stuck>>
       \/ /\ ~resolvers
          /\ \/ pc' = "connected" /\ resolvers' = TRUE /\ kDNS' = TRUE /\ UNCHANGED stuck
             \/ pc' = "rmDNS" /\ UNCHANGED <<resolvers, kDNS, stuck>>
             \/ pc' = "rmDNS" /\ kDNS' = TRUE /\ stuck' = stuck \cup {"dns"} /\ UNCHANGED resolvers
    /\ UNCHANGED <<addr, push, routeMgr, guardMgr, kRoutes, kFw, pinned, rest>>

-----------------------------------------------------------------------------
(* The end of Run: resolver, routes, leak protection. *)
RemoveResolvers ==
    /\ Goto("rmDNS", "rmRoutes")
    /\ resolvers' = FALSE
    /\ IF resolvers
       THEN \/ kDNS' = FALSE /\ UNCHANGED stuck
            \/ UNCHANGED kDNS /\ stuck' = stuck \cup {"dns"}
       ELSE UNCHANGED <<kDNS, stuck>>
    /\ UNCHANGED <<addr, push, routeMgr, guardMgr, kRoutes, kFw, pinned, rest>>

RemoveRoutes ==
    /\ Goto("rmRoutes", "rmGuard")
    /\ routes' = FALSE
    /\ IF routes THEN Rollback ELSE UNCHANGED <<installed, kPin, kTun, stuck>>
    /\ UNCHANGED <<addr, push, mServer, pinholeGW, guardMgr, resolvers, kFw, kDNS, pinned, rest>>

RemoveLeakProtection ==
    /\ Goto("rmGuard", "ended")
    /\ leakguard' = FALSE
    /\ IF leakguard THEN RemoveGuard ELSE UNCHANGED <<applied, kFw, stuck>>
    /\ UNCHANGED <<addr, push, routeMgr, leakguardOff, pinnedServerIP, resolvers, kRoutes, kDNS,
                   pinned, rest>>

(* The host moves to another network or loses it; its host routes may go. *)
NetworkChanges(gw, flush) ==
    /\ pc # "ended"
    /\ gwNow' = gw
    /\ pinned' = None
    /\ IF flush
       THEN kPin' = [s \in Server |-> None] /\ stuck' = stuck \ Server
       ELSE UNCHANGED <<kPin, stuck>>
    /\ UNCHANGED <<client, routeMgr, guardMgr, resolvers, AllowInsecureLeak, kTun, kFw, kDNS>>

Attempt ==
    \/ \E s \in Server : Resolve(s)
    \/ PreparePin \/ KeepGuard \/ UnGuard \/ ReGuard
    \/ \E p \in {"none", "split", "full"} : Assigned(p)
    \/ AttemptFails \/ EnsureLeakProtection \/ EnsureRoutes \/ EnsureDNS

TearDown == RemoveResolvers \/ RemoveRoutes \/ RemoveLeakProtection

Next ==
    \/ Attempt \/ TearDown
    \/ \E gw \in Gateway \cup {None}, flush \in BOOLEAN : NetworkChanges(gw, flush)

Spec == Init /\ [][Next]_vars

-----------------------------------------------------------------------------
(* Types. *)
TypeOK ==
    /\ pc \in {"idle", "pin", "guard", "reguard", "dial", "leak", "routes", "dns", "connected",
               "rmDNS", "rmRoutes", "rmGuard", "ended"}
    /\ addr \in Server \cup {None} /\ push \in {"none", "split", "full"}
    /\ routes \in BOOLEAN /\ mServer \in Server \cup {None} /\ pinholeGW \in Gateway \cup {None}
    /\ pinRecs \subseteq Server \X Gateway /\ tunRecs \subseteq TunnelRoutes
    /\ leakguard \in BOOLEAN /\ applied \in BOOLEAN /\ leakguardOff \in BOOLEAN
    /\ pinnedServerIP \in Server \cup {None}
    /\ resolvers \in BOOLEAN /\ AllowInsecureLeak \in BOOLEAN
    /\ kPin \in [Server -> Gateway \cup {None}] /\ kTun \subseteq TunnelRoutes
    /\ kFw \in Server \cup {None} /\ kDNS \in BOOLEAN
    /\ gwNow \in Gateway \cup {None} /\ pinned \in Gateway \cup {None}
    /\ stuck \subseteq Server \cup TunnelRoutes \cup {"fw", "dns"}

(* Every route the client put into the kernel is in the record that removes it,
   or is one the host refused to remove: nothing is orphaned by refreshes,
   moved servers and lost networks. *)
RecordsCoverKernel ==
    /\ \A s \in Server : kPin[s] # None => <<s, kPin[s]>> \in pinRecs \/ s \in stuck
    /\ kTun \subseteq tunRecs \cup stuck

(* After Run nothing of the client is left in the host but what it refused to
   remove. *)
CleanExit ==
    pc = "ended" =>
        /\ \A s \in Server : kPin[s] = None \/ s \in stuck
        /\ kTun \subseteq stuck
        /\ kFw = None \/ "fw" \in stuck
        /\ kDNS => "dns" \in stuck

(* client.go:264-267: as long as the IPv4 default points into the tunnel the
   leak block stands, from before the routes are set to after they are gone;
   except for the re-pointing window, and once protection was given up. *)
GuardedWhileRouted ==
    (kTun \cap Halves) \ stuck # {} => kFw # None \/ leakguardOff \/ pc = "reguard"

(* "Fail-closed": a full-tunnel session is up only behind the kill-switch for
   its own server; protection is given up only on the user's word or when
   re-pointing it failed. *)
ConnectedIsGuarded ==
    pc = "connected" /\ push = "full" => kFw = addr \/ leakguardOff

(* The kill-switch never stands in the way of the dial, unless the host refused
   to remove its rules. *)
DialPassesGuard == pc = "dial" => kFw \in {None, addr} \/ "fw" \in stuck

(* A refresh whose commands work leaves the pin-hole at the gateway of now, also
   after refreshes that failed, were skipped, or followed another server: the
   client cannot get stuck on a stale pin-hole. *)
PinRecovers == pc = "dial" /\ pinned # None => kPin[addr] = pinned \/ addr \in stuck
=============================================================================
