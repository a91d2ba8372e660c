-------------------------- MODULE ClientPath_proofs --------------------------
(***************************************************************************)
(* Theorems about ClientPath, for any sets of servers and gateways.  The   *)
(* inductive invariant: what the client installed is in its records or     *)
(* was refused removal (Routes), the kill-switch stands for the pinned     *)
(* address whenever the manager is kept (Guard), half-default routes come  *)
(* after it and go before it (Behind), and the same for the resolver       *)
(* (Resolver).  Places says which of this each stage may rely on.  The     *)
(* second part is about HostResolver, for any services and settings.       *)
(***************************************************************************)
EXTENDS ClientPath, HostResolver, TLAPS

Attempting == {"pin", "guard", "reguard", "dial", "leak", "routes", "dns", "connected"}

Places ==
    /\ pc \in Attempting => addr \in Server
    /\ pc \in {"rmGuard", "ended"} => ~routes
    /\ pc \in {"rmRoutes", "rmGuard", "ended"} => ~resolvers
    /\ pc = "ended" => ~leakguard

Routes ==
    /\ pinRecs \subseteq {<<mServer, pinholeGW>>}
    /\ pinholeGW # None => mServer \in Server
    /\ ~routes => pinRecs = {} /\ tunRecs = {}
    /\ RecordsCoverKernel

Guard ==
    /\ leakguard /\ pc # "reguard" =>
          applied /\ pinnedServerIP # None /\ kFw = pinnedServerIP
    /\ ~leakguard => kFw = None \/ "fw" \in stuck
    /\ pc = "reguard" => leakguard /\ (IF applied THEN "fw" \in stuck ELSE kFw = None)
    /\ pc \in {"dial", "leak", "routes", "dns", "connected"} => pinnedServerIP = addr

Behind ==
    /\ pc \in {"routes", "dns", "connected"} /\ push = "full" => leakguard \/ leakguardOff
    /\ (kTun \cap Halves) \ stuck # {} => leakguard \/ leakguardOff

Resolver == kDNS => resolvers \/ "dns" \in stuck

Refreshed ==
    pc \in {"guard", "reguard", "dial"} /\ pinned # None =>
        kPin[addr] = pinned \/ addr \in stuck

-----------------------------------------------------------------------------
(* What the steps leave alone, group by group. *)
GuardSteps ==
    \/ KeepGuard \/ UnGuard \/ ReGuard \/ EnsureLeakProtection \/ RemoveLeakProtection

PlainSteps == (\E s \in Server : Resolve(s)) \/ (\E p \in {"none", "split", "full"} : Assigned(p))
              \/ AttemptFails

Network == \E gw \in Gateway \cup {None}, flush \in BOOLEAN : NetworkChanges(gw, flush)

LEMMA StepKinds ==
    Next => \/ PlainSteps \/ GuardSteps \/ PreparePin \/ EnsureRoutes \/ RemoveRoutes
            \/ EnsureDNS \/ RemoveResolvers \/ Network
BY DEF Next, Attempt, TearDown, PlainSteps, GuardSteps, Network

LEMMA PlainFrame ==
    PlainSteps => UNCHANGED <<routes, mServer, pinholeGW, pinRecs, tunRecs, leakguard, applied,
                              leakguardOff, pinnedServerIP, resolvers, AllowInsecureLeak,
                              kPin, kTun, kFw, kDNS, gwNow, stuck, pinned>>
BY DEF PlainSteps, Resolve, Assigned, AttemptFails, routeMgr, installed, guardMgr, kRoutes, rest

LEMMA GuardFrame ==
    GuardSteps => /\ UNCHANGED <<addr, push, routes, mServer, pinholeGW, pinRecs, tunRecs,
                                 resolvers, AllowInsecureLeak, kPin, kTun, kDNS, gwNow, pinned>>
                  /\ stuck' = stuck \/ stuck' = stuck \cup {"fw"}
BY DEF GuardSteps, KeepGuard, UnGuard, ReGuard, EnsureLeakProtection, RemoveLeakProtection,
       RemoveGuard, Restore, routeMgr, installed, guardMgr, kRoutes, rest

LEMMA DNSFrame ==
    EnsureDNS \/ RemoveResolvers =>
        /\ UNCHANGED <<addr, push, routes, mServer, pinholeGW, pinRecs, tunRecs, leakguard,
                       applied, leakguardOff, pinnedServerIP, AllowInsecureLeak,
                       kPin, kTun, kFw, gwNow, pinned>>
        /\ stuck' = stuck \/ stuck' = stuck \cup {"dns"}
BY DEF EnsureDNS, RemoveResolvers, routeMgr, installed, guardMgr, kRoutes, rest

LEMMA RouteFrame ==
    PreparePin \/ EnsureRoutes \/ RemoveRoutes =>
        /\ UNCHANGED <<addr, push, leakguard, applied, leakguardOff, pinnedServerIP, resolvers,
                       AllowInsecureLeak, kFw, kDNS, gwNow>>
BY DEF PreparePin, EnsureRoutes, RemoveRoutes, guardMgr, rest

LEMMA NetworkFrame ==
    Network => /\ UNCHANGED <<pc, addr, push, routes, mServer, pinholeGW, pinRecs, tunRecs,
                              leakguard, applied, leakguardOff, pinnedServerIP, resolvers,
                              AllowInsecureLeak, kTun, kFw, kDNS>>
               /\ gwNow' \in Gateway \cup {None} /\ pinned' = None
               /\ \/ UNCHANGED <<kPin, stuck>>
                  \/ kPin' = [s \in Server |-> None] /\ stuck' = stuck \ Server
BY DEF Network, NetworkChanges, client, routeMgr, installed, guardMgr

LEMMA Kept ==
    UNCHANGED vars =>
        UNCHANGED <<pc, addr, push, routes, mServer, pinholeGW, pinRecs, tunRecs, leakguard,
                    applied, leakguardOff, pinnedServerIP, resolvers, AllowInsecureLeak,
                    kPin, kTun, kFw, kDNS, gwNow, stuck, pinned>>
BY DEF vars, client, routeMgr, installed, guardMgr, kRoutes

-----------------------------------------------------------------------------
(* The program counter and what goes with it. *)
PcType == pc \in {"idle", "pin", "guard", "reguard", "dial", "leak", "routes", "dns", "connected",
                  "rmDNS", "rmRoutes", "rmGuard", "ended"}

LEMMA PcStep == PcType /\ Next => PcType'
BY StepKinds, NetworkFrame
   DEF PcType, PlainSteps, GuardSteps, Resolve, Assigned, AttemptFails, KeepGuard, UnGuard,
       ReGuard, EnsureLeakProtection, RemoveLeakProtection, PreparePin, EnsureRoutes,
       RemoveRoutes, EnsureDNS, RemoveResolvers, Goto

LEMMA PlacesStep == Places /\ [Next]_vars => Places'
<1> SUFFICES ASSUME Places, [Next]_vars PROVE Places'
  OBVIOUS
<1> USE DEF Places, Attempting, Goto
<1>1. CASE PlainSteps
  BY <1>1, PlainFrame DEF PlainSteps, Resolve, Assigned, AttemptFails
<1>2. CASE GuardSteps
  <2>1. UNCHANGED <<addr, routes, resolvers>>
    BY <1>2, GuardFrame
  <2>2. CASE KeepGuard \/ UnGuard \/ ReGuard \/ EnsureLeakProtection
    <3>1. pc \in Attempting /\ pc' \in Attempting \cup {"rmDNS"}
      BY <2>2 DEF KeepGuard, UnGuard, ReGuard, EnsureLeakProtection
    <3> QED BY <2>1, <3>1
  <2>3. CASE RemoveLeakProtection
    BY <2>1, <2>3 DEF RemoveLeakProtection
  <2> QED BY <1>2, <2>2, <2>3 DEF GuardSteps
<1>3. CASE PreparePin \/ EnsureRoutes \/ RemoveRoutes
  <2>1. UNCHANGED <<addr, leakguard, resolvers>>
    BY <1>3, RouteFrame
  <2>2. CASE PreparePin
    BY <2>1, <2>2 DEF PreparePin
  <2>3. CASE EnsureRoutes
    BY <2>1, <2>3 DEF EnsureRoutes
  <2>4. CASE RemoveRoutes
    BY <2>1, <2>4 DEF RemoveRoutes
  <2> QED BY <1>3, <2>2, <2>3, <2>4
<1>4. CASE EnsureDNS \/ RemoveResolvers
  BY <1>4, DNSFrame DEF EnsureDNS, RemoveResolvers
<1>5. CASE Network
  BY <1>5, NetworkFrame
<1>6. CASE UNCHANGED vars
  BY <1>6, Kept
<1> QED BY <1>1, <1>2, <1>3, <1>4, <1>5, <1>6, StepKinds

-----------------------------------------------------------------------------
(* The route manager, operation by operation. *)
RouteTypes ==
    /\ routes \in BOOLEAN /\ mServer \in Server \cup {None} /\ pinholeGW \in Gateway \cup {None}
    /\ pinRecs \subseteq Server \X Gateway /\ tunRecs \subseteq TunnelRoutes
    /\ kPin \in [Server -> Gateway \cup {None}] /\ kTun \subseteq TunnelRoutes
    /\ gwNow \in Gateway \cup {None} /\ pinned \in Gateway \cup {None}
    /\ stuck \subseteq Server \cup TunnelRoutes \cup {"fw", "dns"}

Pinned == \A s \in Server : kPin[s] # None => <<s, kPin[s]>> \in pinRecs \/ s \in stuck

\* A refresh that reports success leaves the pin-hole where it says.
LEMMA PinServerLemma ==
    ASSUME RouteTypes, Routes, NEW s \in Server, PinServer(s)
    PROVE  /\ mServer' = s /\ pinholeGW' \in Gateway \cup {None}
           /\ pinned' \in Gateway \cup {None}
           /\ pinRecs' \subseteq {<<s, pinholeGW'>>}
           /\ pinRecs' \subseteq Server \X Gateway
           /\ kPin' \in [Server -> Gateway \cup {None}]
           /\ stuck \subseteq stuck' /\ stuck' \subseteq stuck \cup Server
           /\ Pinned'
           /\ pinned' # None => kPin'[s] = pinned' \/ s \in stuck'
<1> USE DEF RouteTypes
<1> DEFINE moved == s # mServer
           hole == IF moved THEN None ELSE pinholeGW
           kept == IF moved /\ pinholeGW # None THEN ForgetPin(pinRecs, mServer) ELSE pinRecs
<1>a. None \notin Server /\ None \notin Gateway /\ "tunGW" \notin Gateway
  BY PathAssumption DEF PathAssumption
<1>1. PICK p1 \in IF moved THEN DelPin(kPin, mServer, pinholeGW) ELSE {kPin}, gw \in Answers :
        /\ mServer' = s
        /\ stuck' = stuck \cup {x \in {mServer} : moved /\ pinholeGW # None /\ p1[x] = pinholeGW}
        /\ IF ~Usable(gw)
           THEN /\ kPin' = p1 /\ pinholeGW' = hole /\ pinRecs' = kept
                /\ pinned' = None
           ELSE \E p2 \in DelPin(p1, s, hole) : \E p3 \in AddPin(p2, s, gw) :
                /\ kPin' = p3
                /\ pinholeGW' = PinholeAfter(p2 # p3, gw, hole)
                /\ pinRecs' = IF p2 # p3 THEN RecordPin(kept, s, gw) ELSE kept
                /\ pinned' = IF (hole # None /\ p2[s] = hole) \/ (p2[s] = None /\ p3 = p2)
                             THEN None ELSE gw
  BY DEF PinServer
<1> HIDE DEF moved, hole, kept
\* The first command: an old server's pin-hole is deleted or reported stuck.
<1>2. hole \in Gateway \cup {None} /\ (s = mServer => hole = pinholeGW) /\ (moved => hole = None)
  BY DEF hole, moved
<1>3. /\ kept \subseteq {<<s, hole>>} /\ kept \subseteq pinRecs
      /\ \A t \in Server, g \in Gateway : <<t, g>> \in kept => t = s
  <2>1. CASE ~moved
    BY <2>1, <1>2 DEF kept, moved, Routes
  <2>2. CASE moved /\ pinholeGW # None
    <3>1. kept = {}
      BY <2>2 DEF kept, ForgetPin, Routes
    <3> QED BY <3>1
  <2>3. CASE moved /\ pinholeGW = None
    <3>1. pinRecs = {}
      BY <2>3, <1>a DEF Routes
    <3> QED BY <2>3, <3>1 DEF kept
  <2> QED BY <2>1, <2>2, <2>3
<1>4. /\ p1 \in [Server -> Gateway \cup {None}]
      /\ \A t \in Server : p1[t] # None => p1[t] = kPin[t]
      /\ ~moved => p1 = kPin
  BY <1>1 DEF DelPin
<1>5. stuck \subseteq stuck' /\ stuck' \subseteq stuck \cup Server
  BY <1>1 DEF Routes
<1>6. \A t \in Server : p1[t] # None => <<t, p1[t]>> \in kept \/ t \in stuck'
  <2> SUFFICES ASSUME NEW t \in Server, p1[t] # None, t \notin stuck'
               PROVE  <<t, p1[t]>> \in kept
    OBVIOUS
  <2>1. <<t, kPin[t]>> \in pinRecs /\ p1[t] = kPin[t]
    BY <1>4, <1>5 DEF Routes, RecordsCoverKernel
  <2>2. t = mServer /\ kPin[t] = pinholeGW
    BY <2>1 DEF Routes
  <2>3. CASE moved
    <3>1. pinholeGW # None /\ p1[t] = pinholeGW
      BY <2>1, <2>2
    <3> QED BY <2>2, <2>3, <3>1, <1>1
  <2>4. CASE ~moved
    BY <2>1, <2>4 DEF kept
  <2> QED BY <2>3, <2>4
<1>7. CASE ~Usable(gw)
  BY <1>1, <1>2, <1>3, <1>4, <1>5, <1>6, <1>7 DEF Pinned
\* The refresh: delete, then add.
<1>8. CASE Usable(gw)
  <2>1. gw \in Gateway
    BY <1>8 DEF Usable, Answers
  <2>2. PICK p2 \in DelPin(p1, s, hole) : \E p3 \in AddPin(p2, s, gw) :
            /\ kPin' = p3
            /\ pinholeGW' = PinholeAfter(p2 # p3, gw, hole)
            /\ pinRecs' = IF p2 # p3 THEN RecordPin(kept, s, gw) ELSE kept
            /\ pinned' = IF (hole # None /\ p2[s] = hole) \/ (p2[s] = None /\ p3 = p2)
                         THEN None ELSE gw
    BY <1>1, <1>8
  <2>3. PICK p3 \in AddPin(p2, s, gw) :
            /\ kPin' = p3
            /\ pinholeGW' = PinholeAfter(p2 # p3, gw, hole)
            /\ pinRecs' = IF p2 # p3 THEN RecordPin(kept, s, gw) ELSE kept
            /\ pinned' = IF (hole # None /\ p2[s] = hole) \/ (p2[s] = None /\ p3 = p2)
                         THEN None ELSE gw
    BY <2>2
  <2>4. /\ p2 \in [Server -> Gateway \cup {None}]
        /\ \A t \in Server : p2[t] # None => p2[t] = p1[t]
    BY <1>4, <2>2 DEF DelPin
  <2>5. CASE p3 = p2
    <3>1. kPin' = p2 /\ pinholeGW' = hole /\ pinRecs' = kept
      BY <2>3, <2>5 DEF PinholeAfter
    <3>2. Pinned'
      BY <3>1, <2>4, <1>6 DEF Pinned
    <3>3. pinned' # None => s \in stuck'
      <4>1. SUFFICES ASSUME p2[s] # None, hole = None \/ p2[s] # hole PROVE s \in stuck'
        BY <2>3, <2>5, <1>a
      <4>2. p2[s] = p1[s] /\ p1[s] # None
        BY <4>1, <2>4
      <4>3. <<s, p1[s]>> \notin kept
        BY <4>1, <4>2, <1>3
      <4> QED BY <4>2, <4>3, <1>6
    <3>4. pinned' \in Gateway \cup {None}
      BY <2>3, <2>1
    <3> QED BY <1>1, <1>2, <1>3, <1>5, <2>4, <3>1, <3>2, <3>3, <3>4
  <2>6. CASE p3 # p2
    <3>1. p2[s] = None /\ p3 = [p2 EXCEPT ![s] = gw]
      BY <2>3, <2>6 DEF AddPin
    <3>2. pinRecs' = {<<s, gw>>} /\ pinholeGW' = gw
      <4>1. pinRecs' = RecordPin(kept, s, gw) /\ pinholeGW' = gw
        BY <2>3, <2>6 DEF PinholeAfter
      <4>2. kept \subseteq {<<s, g>> : g \in Gateway}
        BY <1>3
      <4> QED BY <4>1, <4>2 DEF RecordPin, ForgetPin
    <3>3. \A t \in Server : p3[t] = IF t = s THEN gw ELSE p2[t]
      BY <3>1, <2>4
    <3>4. Pinned'
      <4> SUFFICES ASSUME NEW t \in Server, p3[t] # None
                   PROVE  <<t, p3[t]>> \in {<<s, gw>>} \/ t \in stuck'
        BY <3>2, <2>3 DEF Pinned
      <4>1. CASE t = s
        BY <4>1, <3>3
      <4>2. CASE t # s
        <5>1. p1[t] # None
          BY <4>2, <3>3, <2>4
        <5> QED BY <5>1, <4>2, <1>6, <1>3, <1>4
      <4> QED BY <4>1, <4>2
    <3>5. pinned' \in Gateway \cup {None} /\ (pinned' # None => kPin'[s] = pinned')
      BY <2>3, <2>1, <3>1, <3>3
    <3>6. kPin' \in [Server -> Gateway \cup {None}]
      BY <2>3, <3>1, <2>4, <2>1
    <3> QED BY <1>1, <1>5, <2>1, <3>2, <3>4, <3>5, <3>6
  <2> QED BY <2>5, <2>6
<1> QED BY <1>7, <1>8

LEMMA InstallLemma ==
    ASSUME RouteTypes, Routes, ~routes, addr \in Server, Install(gwNow), PathAssumption
    PROVE  /\ routes' = TRUE /\ mServer' = addr /\ pinholeGW' \in Gateway
           /\ pinRecs' = {<<addr, pinholeGW'>>} /\ tunRecs' = RoutesOf(push)
           /\ kPin' \in [Server -> Gateway \cup {None}]
           /\ kTun' = kTun \cup RoutesOf(push) /\ RoutesOf(push) \subseteq TunnelRoutes
           /\ stuck' = stuck /\ RecordsCoverKernel'
<1> USE DEF RouteTypes
<1>1. /\ gwNow \in Gateway /\ kPin[addr] = None /\ kPin' = [kPin EXCEPT ![addr] = gwNow]
      /\ kTun' = kTun \cup RoutesOf(push) /\ routes' = TRUE /\ mServer' = addr
      /\ pinholeGW' = gwNow /\ pinRecs' = {<<addr, gwNow>>} /\ tunRecs' = RoutesOf(push)
      /\ stuck' = stuck
  BY DEF Install, InstallPin
<1>2. RoutesOf(push) \subseteq TunnelRoutes
  BY DEF RoutesOf, TunnelRoutes, Halves
<1>3. /\ pinRecs = {} /\ tunRecs = {}
      /\ \A s \in Server : kPin[s] # None => s \in stuck
      /\ kTun \subseteq stuck
  BY DEF Routes, RecordsCoverKernel
<1>4. \A s \in Server : kPin'[s] # None => <<s, kPin'[s]>> \in pinRecs' \/ s \in stuck'
  BY <1>1, <1>3
<1>5. kTun' \subseteq tunRecs' \cup stuck'
  BY <1>1, <1>3
<1> QED BY <1>1, <1>2, <1>4, <1>5 DEF RecordsCoverKernel

LEMMA InstallFailsLemma ==
    ASSUME RouteTypes, Routes, ~routes, addr \in Server, InstallFails
    PROVE  /\ UNCHANGED <<routes, mServer, pinholeGW, pinRecs, tunRecs>>
           /\ kPin' \in [Server -> Gateway \cup {None}]
           /\ kTun' \subseteq TunnelRoutes
           /\ (kTun' \cap Halves) \ stuck' \subseteq (kTun \cap Halves) \ stuck
           /\ stuck \subseteq stuck' /\ stuck' \subseteq stuck \cup Server \cup TunnelRoutes
           /\ RecordsCoverKernel'
<1> USE DEF RouteTypes
<1>0. UNCHANGED <<routes, mServer, pinholeGW, pinRecs, tunRecs>>
  BY DEF InstallFails, routeMgr, installed
<1>1. CASE UNCHANGED <<kPin, kTun, stuck>>
  BY <1>0, <1>1 DEF Routes, RecordsCoverKernel
<1>2. ASSUME NEW left \in SUBSET RoutesOf(push), NEW pinLeft \in BOOLEAN,
             kTun' = kTun \cup left,
             IF pinLeft THEN InstallPin(gwNow) ELSE UNCHANGED kPin,
             stuck' = stuck \cup left \cup (IF pinLeft THEN {addr} ELSE {})
      PROVE  /\ kPin' \in [Server -> Gateway \cup {None}]
             /\ kTun' \subseteq TunnelRoutes
             /\ (kTun' \cap Halves) \ stuck' \subseteq (kTun \cap Halves) \ stuck
             /\ stuck \subseteq stuck' /\ stuck' \subseteq stuck \cup Server \cup TunnelRoutes
             /\ RecordsCoverKernel'
  <2>1. left \subseteq TunnelRoutes
    BY DEF RoutesOf, TunnelRoutes, Halves
  <2>2. /\ kPin' \in [Server -> Gateway \cup {None}]
        /\ \A s \in Server : kPin'[s] # None => kPin'[s] = kPin[s] \/ (pinLeft /\ s = addr)
    BY <1>2 DEF InstallPin
  <2>3. \A s \in Server : kPin'[s] # None => <<s, kPin'[s]>> \in pinRecs' \/ s \in stuck'
    BY <1>0, <1>2, <2>2 DEF Routes, RecordsCoverKernel
  <2>4. kTun' \subseteq tunRecs' \cup stuck'
    BY <1>0, <1>2 DEF Routes, RecordsCoverKernel
  <2> QED BY <1>2, <2>1, <2>2, <2>3, <2>4 DEF RecordsCoverKernel
<1> QED BY <1>0, <1>1, <1>2 DEF InstallFails

LEMMA RollbackLemma ==
    ASSUME RouteTypes, Routes, Rollback
    PROVE  /\ pinRecs' = {} /\ tunRecs' = {}
           /\ kPin' \in [Server -> Gateway \cup {None}]
           /\ kTun' \subseteq kTun /\ kTun' \subseteq stuck'
           /\ stuck \subseteq stuck' /\ stuck' \subseteq stuck \cup Server \cup TunnelRoutes
           /\ RecordsCoverKernel'
<1> USE DEF RouteTypes
<1>1. PICK refused \in SUBSET (TunnelRoutes \cup Server) :
        LET left == {s \in Server \cap refused : <<s, kPin[s]>> \in pinRecs}
            tun == kTun \cap tunRecs \cap refused
        IN  /\ kPin' = [s \in Server |-> IF <<s, kPin[s]>> \in pinRecs /\ s \notin left
                                         THEN None ELSE kPin[s]]
            /\ kTun' = (kTun \ tunRecs) \cup tun
            /\ stuck' = stuck \cup left \cup tun
            /\ pinRecs' = {} /\ tunRecs' = {}
  BY DEF Rollback
<1>2. kTun \ tunRecs \subseteq stuck
  BY DEF Routes, RecordsCoverKernel
<1>3. kPin' \in [Server -> Gateway \cup {None}]
  BY <1>1
<1>4. \A s \in Server : kPin'[s] # None => s \in stuck'
  BY <1>1 DEF Routes, RecordsCoverKernel
<1>5. kTun' \subseteq kTun /\ kTun' \subseteq stuck'
  BY <1>1, <1>2
<1> QED BY <1>1, <1>3, <1>4, <1>5 DEF RecordsCoverKernel

-----------------------------------------------------------------------------
LEMMA RouteTypesStep == RouteTypes /\ Routes /\ Places /\ [Next]_vars => RouteTypes' /\ Routes'
<1> SUFFICES ASSUME RouteTypes, Routes, Places, [Next]_vars PROVE RouteTypes' /\ Routes'
  OBVIOUS
<1>a. /\ None \notin Server /\ None \notin Gateway
      /\ Server \cap {"low", "high", "net", "fw", "dns"} = {}
      /\ TunnelRoutes = {"low", "high", "net"}
  BY PathAssumption DEF PathAssumption, TunnelRoutes, Halves
<1>1. ASSUME UNCHANGED <<routes, mServer, pinholeGW, pinRecs, tunRecs, kPin, kTun, gwNow, pinned>>,
             stuck \subseteq stuck', stuck' \subseteq stuck \cup {"fw", "dns"}
      PROVE  RouteTypes' /\ Routes'
  BY <1>1 DEF RouteTypes, Routes, RecordsCoverKernel
<1>2. CASE PlainSteps \/ GuardSteps \/ EnsureDNS \/ RemoveResolvers \/ UNCHANGED vars
  BY <1>1, <1>2, PlainFrame, GuardFrame, DNSFrame, Kept
<1>3. CASE PreparePin
  <2>0. UNCHANGED <<routes, tunRecs, kTun, gwNow>> /\ addr \in Server
    BY <1>3 DEF PreparePin, kRoutes, rest, Places, Attempting, Goto
  <2>1. CASE routes
    <3>1. PinServer(addr)
      BY <1>3, <2>1 DEF PreparePin
    <3>2. /\ mServer' = addr /\ pinholeGW' \in Gateway \cup {None}
          /\ pinned' \in Gateway \cup {None}
          /\ pinRecs' \subseteq {<<addr, pinholeGW'>>}
          /\ pinRecs' \subseteq Server \X Gateway
          /\ kPin' \in [Server -> Gateway \cup {None}]
          /\ stuck \subseteq stuck' /\ stuck' \subseteq stuck \cup Server
          /\ Pinned'
      BY <2>0, <3>1, PinServerLemma
    <3>3. RouteTypes'
      BY <2>0, <3>2 DEF RouteTypes
    <3>4. RecordsCoverKernel'
      BY <2>0, <3>2 DEF Routes, RecordsCoverKernel, Pinned
    <3> QED BY <2>0, <2>1, <3>2, <3>3, <3>4 DEF Routes
  <2>2. CASE ~routes
    <3>1. UNCHANGED <<mServer, pinholeGW, pinRecs, kPin, stuck>> /\ pinned' = None
      BY <1>3, <2>2 DEF PreparePin
    <3> QED BY <2>0, <3>1 DEF RouteTypes, Routes, RecordsCoverKernel
  <2> QED BY <2>1, <2>2
<1>4. CASE EnsureRoutes
  <2>0. UNCHANGED <<gwNow, pinned>> /\ addr \in Server
    BY <1>4 DEF EnsureRoutes, rest, Places, Attempting
  <2>1. CASE UNCHANGED <<routeMgr, kRoutes, stuck>>
    BY <2>0, <2>1, <1>1 DEF routeMgr, installed, kRoutes
  <2>2. CASE ~routes /\ Install(gwNow)
    <3>1. /\ routes' = TRUE /\ mServer' = addr /\ pinholeGW' \in Gateway
          /\ pinRecs' = {<<addr, pinholeGW'>>} /\ tunRecs' = RoutesOf(push)
          /\ kPin' \in [Server -> Gateway \cup {None}]
          /\ kTun' = kTun \cup RoutesOf(push) /\ RoutesOf(push) \subseteq TunnelRoutes
          /\ stuck' = stuck /\ RecordsCoverKernel'
      BY <2>0, <2>2, InstallLemma, PathAssumption
    <3> QED BY <2>0, <3>1 DEF RouteTypes, Routes
  <2>3. CASE ~routes /\ InstallFails
    <3>1. /\ UNCHANGED <<routes, mServer, pinholeGW, pinRecs, tunRecs>>
          /\ kPin' \in [Server -> Gateway \cup {None}] /\ kTun' \subseteq TunnelRoutes
          /\ stuck' \subseteq stuck \cup Server \cup TunnelRoutes
          /\ RecordsCoverKernel'
      BY <2>0, <2>3, InstallFailsLemma
    <3> QED BY <2>0, <3>1 DEF RouteTypes, Routes
  <2> QED BY <1>4, <2>1, <2>2, <2>3 DEF EnsureRoutes
<1>5. CASE RemoveRoutes
  <2>0. UNCHANGED <<mServer, pinholeGW, gwNow, pinned>> /\ routes' = FALSE
    BY <1>5 DEF RemoveRoutes, rest
  <2>1. CASE routes
    <3>1. /\ pinRecs' = {} /\ tunRecs' = {}
          /\ kPin' \in [Server -> Gateway \cup {None}]
          /\ kTun' \subseteq kTun
          /\ stuck' \subseteq stuck \cup Server \cup TunnelRoutes
          /\ RecordsCoverKernel'
      BY <1>5, <2>1, RollbackLemma DEF RemoveRoutes
    <3> QED BY <2>0, <3>1 DEF RouteTypes, Routes
  <2>2. CASE ~routes
    <3>1. UNCHANGED <<pinRecs, tunRecs, kPin, kTun, stuck>>
      BY <1>5, <2>2 DEF RemoveRoutes, installed
    <3> QED BY <2>0, <2>2, <3>1 DEF RouteTypes, Routes, RecordsCoverKernel
  <2> QED BY <2>1, <2>2
<1>6. CASE Network
  <2>1. /\ UNCHANGED <<routes, mServer, pinholeGW, pinRecs, tunRecs, kTun>>
        /\ gwNow' \in Gateway \cup {None} /\ pinned' = None
        /\ \/ UNCHANGED <<kPin, stuck>>
           \/ kPin' = [s \in Server |-> None] /\ stuck' = stuck \ Server
    BY <1>6, NetworkFrame
  <2>2. RouteTypes'
    BY <2>1 DEF RouteTypes
  <2>3. \A s \in Server : kPin'[s] # None => <<s, kPin'[s]>> \in pinRecs' \/ s \in stuck'
    BY <2>1 DEF Routes, RecordsCoverKernel
  <2>4. kTun' \subseteq tunRecs' \cup stuck'
    BY <2>1, <1>a DEF Routes, RecordsCoverKernel, RouteTypes
  <2> QED BY <2>1, <2>2, <2>3, <2>4 DEF Routes, RecordsCoverKernel
<1> QED BY <1>2, <1>3, <1>4, <1>5, <1>6, StepKinds

-----------------------------------------------------------------------------
(* The rest of the types, and the kill-switch. *)
OtherTypes ==
    /\ addr \in Server \cup {None} /\ push \in {"none", "split", "full"}
    /\ leakguard \in BOOLEAN /\ applied \in BOOLEAN /\ leakguardOff \in BOOLEAN
    /\ pinnedServerIP \in Server \cup {None}
    /\ resolvers \in BOOLEAN /\ AllowInsecureLeak \in BOOLEAN
    /\ kFw \in Server \cup {None} /\ kDNS \in BOOLEAN

LEMMA TypeParts == TypeOK <=> PcType /\ RouteTypes /\ OtherTypes
BY DEF TypeOK, PcType, RouteTypes, OtherTypes

LEMMA TypePartsNext == TypeOK' <=> PcType' /\ RouteTypes' /\ OtherTypes'
BY DEF TypeOK, PcType, RouteTypes, OtherTypes

\* What the firewall manager's two operations leave behind.
LEMMA GuardTypes ==
    ASSUME OtherTypes, Places, GuardSteps
    PROVE  /\ leakguard' \in BOOLEAN /\ applied' \in BOOLEAN /\ leakguardOff' \in BOOLEAN
           /\ pinnedServerIP' \in Server \cup {None} /\ kFw' \in Server \cup {None}
<1> USE DEF OtherTypes
<1>1. CASE KeepGuard \/ ReGuard
  <2>1. addr \in Server /\ pinnedServerIP' = addr
    BY <1>1 DEF KeepGuard, ReGuard, Goto, Places, Attempting
  <2>2. kFw' \in {kFw, addr, None}
    BY <1>1 DEF KeepGuard, ReGuard, Enable
  <2>3. leakguard' \in BOOLEAN /\ applied' \in BOOLEAN /\ leakguardOff' \in BOOLEAN
    BY <1>1, Zenon DEF KeepGuard, ReGuard, Enable
  <2> QED BY <2>1, <2>2, <2>3
<1>2. CASE UnGuard \/ RemoveLeakProtection
  <2>1. pinnedServerIP' = pinnedServerIP /\ kFw' \in {kFw, None}
    BY <1>2 DEF UnGuard, RemoveLeakProtection, RemoveGuard, Restore
  <2>2. leakguard' \in BOOLEAN /\ applied' \in BOOLEAN /\ leakguardOff' \in BOOLEAN
    BY <1>2, Zenon DEF UnGuard, RemoveLeakProtection, RemoveGuard, Restore
  <2> QED BY <2>1, <2>2
<1>3. CASE EnsureLeakProtection
  <2>1. pinnedServerIP' = pinnedServerIP /\ addr \in Server
    BY <1>3 DEF EnsureLeakProtection, Places, Attempting
  <2>2. kFw' \in {kFw, addr, None}
    BY <1>3 DEF EnsureLeakProtection, Enable
  <2>3. leakguard' \in BOOLEAN /\ applied' \in BOOLEAN /\ leakguardOff' \in BOOLEAN
    BY <1>3, Zenon DEF EnsureLeakProtection, Enable
  <2> QED BY <2>1, <2>2, <2>3
<1> QED BY <1>1, <1>2, <1>3 DEF GuardSteps

LEMMA OtherTypesStep == OtherTypes /\ Places /\ [Next]_vars => OtherTypes'
<1> SUFFICES ASSUME OtherTypes, Places, [Next]_vars PROVE OtherTypes'
  OBVIOUS
<1>1. CASE PlainSteps
  <2>1. UNCHANGED <<leakguard, applied, leakguardOff, pinnedServerIP, resolvers,
                    AllowInsecureLeak, kFw, kDNS>>
    BY <1>1, PlainFrame
  <2>2. addr' \in Server \cup {None} /\ push' \in {"none", "split", "full"}
    BY <1>1 DEF PlainSteps, Resolve, Assigned, AttemptFails, OtherTypes
  <2> QED BY <2>1, <2>2 DEF OtherTypes
<1>2. CASE GuardSteps
  BY <1>2, GuardFrame, GuardTypes DEF OtherTypes
<1>3. CASE PreparePin \/ EnsureRoutes \/ RemoveRoutes
  BY <1>3, RouteFrame DEF OtherTypes
<1>4. CASE EnsureDNS \/ RemoveResolvers
  <2>1. UNCHANGED <<addr, push, leakguard, applied, leakguardOff, pinnedServerIP,
                    AllowInsecureLeak, kFw>>
    BY <1>4, DNSFrame
  <2>2. resolvers' \in BOOLEAN /\ kDNS' \in BOOLEAN
    BY <1>4, Zenon DEF EnsureDNS, RemoveResolvers, OtherTypes
  <2> QED BY <2>1, <2>2 DEF OtherTypes
<1>5. CASE Network
  BY <1>5, NetworkFrame DEF OtherTypes
<1>6. CASE UNCHANGED vars
  BY <1>6, Kept DEF OtherTypes
<1> QED BY <1>1, <1>2, <1>3, <1>4, <1>5, <1>6, StepKinds

LEMMA GuardStep == PcType /\ OtherTypes /\ Places /\ Guard /\ [Next]_vars => Guard'
<1> SUFFICES ASSUME PcType, OtherTypes, Places, Guard, [Next]_vars PROVE Guard'
  OBVIOUS
<1> USE DEF Guard
<1>a. None \notin Server /\ "fw" \notin Server
  BY PathAssumption DEF PathAssumption
<1>1. CASE PlainSteps
  <2>1. UNCHANGED <<leakguard, applied, pinnedServerIP, kFw, stuck>>
    BY <1>1, PlainFrame
  <2>2. /\ pc # "reguard" /\ pc' # "reguard"
        /\ pc' \in {"dial", "leak", "routes", "dns", "connected"} =>
              addr' = addr /\ pc \in {"dial", "leak", "routes", "dns", "connected"}
    BY <1>1 DEF PlainSteps, Resolve, Assigned, AttemptFails, Goto
  <2> QED BY <2>1, <2>2
<1>2. CASE KeepGuard
  <2>1. /\ pc = "guard" /\ pc' = "dial" /\ pinnedServerIP' = addr /\ addr' = addr
        /\ UNCHANGED <<leakguard, applied, kFw, stuck>> /\ ~Repoint
    BY <1>2 DEF KeepGuard, Goto
  <2>2. leakguard => addr = pinnedServerIP
    BY <2>1 DEF Repoint
  <2> QED BY <2>1, <2>2
<1>3. CASE UnGuard
  <2>1. /\ pc = "guard" /\ pc' = "reguard" /\ leakguard /\ leakguard' = leakguard
        /\ RemoveGuard
    BY <1>3 DEF UnGuard, Goto, Repoint
  <2>2. applied
    BY <2>1
  <2>3. \/ applied' = FALSE /\ kFw' = None
        \/ applied' = applied /\ stuck' = stuck \cup {"fw"}
    BY <2>1, <2>2 DEF RemoveGuard, Restore
  <2> QED BY <2>1, <2>2, <2>3
<1>4. CASE ReGuard
  <2>1. /\ pc = "reguard" /\ pc' = "dial" /\ pinnedServerIP' = addr /\ addr' = addr
        /\ stuck' = stuck /\ addr \in Server
    BY <1>4 DEF ReGuard, Goto, Places, Attempting
  <2>2. CASE Enable(addr, TRUE) /\ leakguard' = leakguard
    BY <1>a, <2>1, <2>2 DEF Enable
  <2>3. CASE (Enable(addr, FALSE) \/ (applied /\ kFw' = kFw)) /\ leakguard' = FALSE
    <3>1. kFw' = None \/ "fw" \in stuck
      BY <2>1, <2>3 DEF Enable
    <3> QED BY <2>1, <2>3, <3>1
  <2> QED BY <1>4, <2>2, <2>3 DEF ReGuard
<1>5. CASE EnsureLeakProtection
  <2>1. /\ pc = "leak" /\ pc' \in {"routes", "rmDNS"} /\ addr' = addr /\ addr \in Server
        /\ stuck' = stuck /\ pinnedServerIP' = pinnedServerIP /\ pinnedServerIP = addr
    BY <1>5 DEF EnsureLeakProtection, Places, Attempting
  <2>2. \/ UNCHANGED <<leakguard, applied, kFw>>
        \/ Enable(addr, TRUE) /\ leakguard' = TRUE
        \/ ~leakguard /\ Enable(addr, FALSE) /\ leakguard' = leakguard
    BY <1>5 DEF EnsureLeakProtection
  <2>3. CASE UNCHANGED <<leakguard, applied, kFw>>
    BY <2>1, <2>3
  <2>4. CASE Enable(addr, TRUE) /\ leakguard' = TRUE
    BY <1>a, <2>1, <2>4 DEF Enable
  <2>5. CASE ~leakguard /\ Enable(addr, FALSE) /\ leakguard' = leakguard
    BY <2>1, <2>5 DEF Enable
  <2> QED BY <2>2, <2>3, <2>4, <2>5
<1>6. CASE RemoveLeakProtection
  <2>1. pc = "rmGuard" /\ pc' = "ended" /\ leakguard' = FALSE
    BY <1>6 DEF RemoveLeakProtection, Goto
  <2>2. CASE leakguard
    <3>1. applied /\ (kFw' = None \/ "fw" \in stuck')
      BY <1>6, <2>1, <2>2 DEF RemoveLeakProtection, RemoveGuard, Restore
    <3> QED BY <2>1, <3>1
  <2>3. CASE ~leakguard
    BY <1>6, <2>1, <2>3 DEF RemoveLeakProtection
  <2> QED BY <2>2, <2>3
<1>7. CASE PreparePin \/ EnsureRoutes \/ RemoveRoutes
  <2>1. UNCHANGED <<addr, leakguard, applied, pinnedServerIP, kFw>>
    BY <1>7, RouteFrame
  <2>2. "fw" \in stuck => "fw" \in stuck'
    <3>1. CASE PreparePin
      BY <3>1 DEF PreparePin, PinServer
    <3>2. CASE EnsureRoutes
      BY <3>2 DEF EnsureRoutes, Install, InstallFails
    <3>3. CASE RemoveRoutes
      BY <3>3 DEF RemoveRoutes, Rollback
    <3> QED BY <1>7, <3>1, <3>2, <3>3
  <2>3. /\ pc # "reguard" /\ pc' # "reguard"
        /\ pc' \in {"dial", "leak", "routes", "dns", "connected"} =>
              pc \in {"dial", "leak", "routes", "dns", "connected"}
    BY <1>7 DEF PreparePin, EnsureRoutes, RemoveRoutes, Goto
  <2> QED BY <2>1, <2>2, <2>3
<1>8. CASE EnsureDNS \/ RemoveResolvers
  <2>1. UNCHANGED <<addr, leakguard, applied, pinnedServerIP, kFw>> /\ stuck \subseteq stuck'
    BY <1>8, DNSFrame
  <2>2. /\ pc # "reguard" /\ pc' # "reguard"
        /\ pc' \in {"dial", "leak", "routes", "dns", "connected"} =>
              pc \in {"dial", "leak", "routes", "dns", "connected"}
    BY <1>8 DEF EnsureDNS, RemoveResolvers, Goto
  <2> QED BY <2>1, <2>2
<1>9. CASE Network
  <2>1. UNCHANGED <<pc, addr, leakguard, applied, pinnedServerIP, kFw>>
    BY <1>9, NetworkFrame
  <2>2. "fw" \in stuck => "fw" \in stuck'
    BY <1>9, <1>a, NetworkFrame
  <2> QED BY <2>1, <2>2
<1>10. CASE UNCHANGED vars
  BY <1>10, Kept
<1> QED BY <1>1, <1>2, <1>3, <1>4, <1>5, <1>6, <1>7, <1>8, <1>9, <1>10, StepKinds DEF GuardSteps

LEMMA BehindStep ==
    PcType /\ RouteTypes /\ Places /\ Routes /\ Behind /\ [Next]_vars => Behind'
<1> SUFFICES ASSUME PcType, RouteTypes, Places, Routes, Behind, [Next]_vars PROVE Behind'
  OBVIOUS
<1> USE DEF Behind
<1>a. Server \cap Halves = {}
  BY PathAssumption DEF PathAssumption, Halves
<1>1. CASE PlainSteps
  <2>1. UNCHANGED <<leakguard, leakguardOff, kTun, stuck>>
    BY <1>1, PlainFrame
  <2>2. pc' \notin {"routes", "dns", "connected"}
    BY <1>1 DEF PlainSteps, Resolve, Assigned, AttemptFails, Goto
  <2> QED BY <2>1, <2>2
<1>2. CASE GuardSteps
  <2>1. UNCHANGED <<kTun, push>> /\ stuck \subseteq stuck'
    BY <1>2, GuardFrame
  <2>2. CASE KeepGuard \/ UnGuard \/ ReGuard
    <3>1. /\ pc' \notin {"routes", "dns", "connected"}
          /\ leakguard \/ leakguardOff => leakguard' \/ leakguardOff'
      BY <2>2 DEF KeepGuard, UnGuard, ReGuard, Goto
    <3> QED BY <2>1, <3>1
  <2>3. CASE EnsureLeakProtection
    <3>1. CASE leakguard \/ leakguardOff \/ push # "full"
      <4>1. pc' = "routes" /\ UNCHANGED <<leakguard, leakguardOff>>
        BY <2>3, <3>1 DEF EnsureLeakProtection
      <4> QED BY <2>1, <3>1, <4>1
    <3>2. CASE ~(leakguard \/ leakguardOff \/ push # "full")
      <4>1. (kTun \cap Halves) \ stuck' = {}
        BY <2>1, <3>2
      <4>2. \/ leakguard' /\ pc' = "routes"
            \/ leakguardOff' = AllowInsecureLeak
                  /\ pc' = IF AllowInsecureLeak THEN "routes" ELSE "rmDNS"
        BY <2>3, <3>2, Zenon DEF EnsureLeakProtection
      <4>3. leakguard' \/ leakguardOff' \/ pc' = "rmDNS"
        <5>1. CASE AllowInsecureLeak
          BY <4>2, <5>1
        <5>2. CASE ~AllowInsecureLeak
          BY <4>2, <5>2
        <5> QED BY <5>1, <5>2
      <4> QED BY <2>1, <4>1, <4>3
    <3> QED BY <3>1, <3>2
  <2>4. CASE RemoveLeakProtection
    <3>1. pc = "rmGuard" /\ pc' = "ended"
      BY <2>4 DEF RemoveLeakProtection, Goto
    <3>2. kTun \subseteq stuck
      BY <3>1 DEF Places, Routes, RecordsCoverKernel
    <3> QED BY <2>1, <3>1, <3>2
  <2> QED BY <1>2, <2>2, <2>3, <2>4 DEF GuardSteps
<1>3. CASE PreparePin
  <2>1. UNCHANGED <<kTun, leakguard, leakguardOff>> /\ stuck \subseteq stuck' /\ pc' = "guard"
    BY <1>3, RouteFrame DEF PreparePin, PinServer, kRoutes, Goto
  <2> QED BY <2>1
<1>4. CASE EnsureRoutes
  <2>1. UNCHANGED <<push, leakguard, leakguardOff>>
    BY <1>4, RouteFrame
  <2>2. pc = "routes" /\ pc' \in {"dns", "rmDNS"} /\ addr \in Server
    BY <1>4 DEF EnsureRoutes, Places, Attempting
  <2>3. CASE UNCHANGED <<routeMgr, kRoutes, stuck>>
    BY <2>1, <2>2, <2>3 DEF kRoutes
  <2>4. CASE ~routes /\ Install(gwNow)
    <3>1. kTun' = kTun \cup RoutesOf(push) /\ stuck' = stuck
      BY <2>4 DEF Install
    <3>2. push # "full" => RoutesOf(push) \cap Halves = {}
      BY DEF RoutesOf, Halves
    <3> QED BY <2>1, <2>2, <3>1, <3>2
  <2>5. CASE ~routes /\ InstallFails
    <3>1. (kTun' \cap Halves) \ stuck' \subseteq (kTun \cap Halves) \ stuck
      BY <2>2, <2>5, InstallFailsLemma
    <3> QED BY <2>1, <2>2, <3>1
  <2> QED BY <1>4, <2>3, <2>4, <2>5 DEF EnsureRoutes
<1>5. CASE RemoveRoutes
  <2>1. UNCHANGED <<push, leakguard, leakguardOff>> /\ pc' = "rmGuard"
    BY <1>5, RouteFrame DEF RemoveRoutes, Goto
  <2>2. CASE routes
    <3>1. kTun' \subseteq stuck'
      BY <1>5, <2>2, RollbackLemma DEF RemoveRoutes
    <3> QED BY <2>1, <3>1
  <2>3. CASE ~routes
    BY <1>5, <2>1, <2>3 DEF RemoveRoutes
  <2> QED BY <2>2, <2>3
<1>6. CASE EnsureDNS \/ RemoveResolvers
  <2>1. UNCHANGED <<push, leakguard, leakguardOff, kTun>> /\ stuck \subseteq stuck'
    BY <1>6, DNSFrame
  <2>2. pc' \in {"routes", "dns", "connected"} => pc \in {"routes", "dns", "connected"}
    BY <1>6 DEF EnsureDNS, RemoveResolvers, Goto
  <2> QED BY <2>1, <2>2
<1>7. CASE Network
  <2>1. UNCHANGED <<pc, push, leakguard, leakguardOff, kTun>>
    BY <1>7, NetworkFrame
  <2>2. (kTun \cap Halves) \ stuck' = (kTun \cap Halves) \ stuck
    BY <1>7, <1>a, NetworkFrame
  <2> QED BY <2>1, <2>2
<1>8. CASE UNCHANGED vars
  BY <1>8, Kept
<1> QED BY <1>1, <1>2, <1>3, <1>4, <1>5, <1>6, <1>7, <1>8, StepKinds

LEMMA ResolverStep == Resolver /\ [Next]_vars => Resolver'
<1> SUFFICES ASSUME Resolver, [Next]_vars PROVE Resolver'
  OBVIOUS
<1> USE DEF Resolver
<1>a. "dns" \notin Server
  BY PathAssumption DEF PathAssumption
<1>1. CASE PlainSteps \/ GuardSteps \/ UNCHANGED vars
  <2>1. UNCHANGED <<resolvers, kDNS>> /\ stuck \subseteq stuck'
    BY <1>1, PlainFrame, GuardFrame, Kept
  <2> QED BY <2>1
<1>2. CASE PreparePin \/ EnsureRoutes \/ RemoveRoutes
  <2>1. UNCHANGED <<resolvers, kDNS>>
    BY <1>2, RouteFrame
  <2>2. "dns" \in stuck => "dns" \in stuck'
    <3>1. CASE PreparePin
      BY <3>1 DEF PreparePin, PinServer
    <3>2. CASE EnsureRoutes
      <4>1. stuck' = stuck \/ Install(gwNow) \/ InstallFails
        BY <3>2 DEF EnsureRoutes
      <4> QED BY <4>1 DEF Install, InstallFails
    <3>3. CASE RemoveRoutes
      BY <3>3 DEF RemoveRoutes, Rollback
    <3> QED BY <1>2, <3>1, <3>2, <3>3
  <2> QED BY <2>1, <2>2
<1>3. CASE EnsureDNS
  BY <1>3 DEF EnsureDNS
<1>4. CASE RemoveResolvers
  BY <1>4 DEF RemoveResolvers
<1>5. CASE Network
  BY <1>5, <1>a, NetworkFrame
<1> QED BY <1>1, <1>2, <1>3, <1>4, <1>5, StepKinds

LEMMA RefreshedStep ==
    RouteTypes /\ Routes /\ Places /\ Refreshed /\ [Next]_vars => Refreshed'
<1> SUFFICES ASSUME RouteTypes, Routes, Places, Refreshed, [Next]_vars PROVE Refreshed'
  OBVIOUS
<1> USE DEF Refreshed
<1>1. CASE PlainSteps
  <2>1. pc' \notin {"guard", "reguard", "dial"}
    BY <1>1 DEF PlainSteps, Resolve, Assigned, AttemptFails, Goto
  <2> QED BY <2>1
<1>2. CASE GuardSteps
  <2>1. UNCHANGED <<addr, kPin, pinned>> /\ stuck \subseteq stuck'
    BY <1>2, GuardFrame
  <2>2. pc' \in {"guard", "reguard", "dial"} => pc \in {"guard", "reguard", "dial"}
    BY <1>2 DEF GuardSteps, KeepGuard, UnGuard, ReGuard, EnsureLeakProtection,
                RemoveLeakProtection, Goto
  <2> QED BY <2>1, <2>2
<1>3. CASE PreparePin
  <2>1. addr' = addr /\ addr \in Server
    BY <1>3 DEF PreparePin, Places, Attempting, Goto
  <2>2. CASE routes
    <3>1. PinServer(addr)
      BY <1>3, <2>2 DEF PreparePin
    <3> QED BY <2>1, <3>1, PinServerLemma
  <2>3. CASE ~routes
    BY <1>3, <2>3 DEF PreparePin
  <2> QED BY <2>2, <2>3
<1>4. CASE EnsureRoutes \/ RemoveRoutes \/ EnsureDNS \/ RemoveResolvers
  <2>1. pc' \notin {"guard", "reguard", "dial"}
    BY <1>4 DEF EnsureRoutes, RemoveRoutes, EnsureDNS, RemoveResolvers, Goto
  <2> QED BY <2>1
<1>5. CASE Network
  BY <1>5, NetworkFrame
<1>6. CASE UNCHANGED vars
  BY <1>6, Kept
<1> QED BY <1>1, <1>2, <1>3, <1>4, <1>5, <1>6, StepKinds

-----------------------------------------------------------------------------
Path == /\ TypeOK /\ Places /\ Routes /\ Guard /\ Behind /\ Resolver /\ Refreshed

LEMMA PathInit == Init => Path
<1> SUFFICES ASSUME Init PROVE Path
  OBVIOUS
<1>1. PcType /\ Places /\ Guard /\ Behind /\ Resolver /\ Refreshed
  BY DEF Init, PcType, Places, Attempting, Guard, Behind, Resolver, Refreshed
<1>2. RouteTypes /\ Routes
  BY DEF Init, RouteTypes, Routes, RecordsCoverKernel
<1>3. OtherTypes
  BY Zenon DEF Init, OtherTypes
<1> QED BY <1>1, <1>2, <1>3, TypeParts DEF Path

LEMMA PathStep == Path /\ [Next]_vars => Path'
<1> SUFFICES ASSUME Path, [Next]_vars PROVE Path'
  OBVIOUS
<1>1. PcType /\ RouteTypes /\ OtherTypes /\ Places /\ Routes /\ Guard /\ Behind /\ Resolver
      /\ Refreshed
  BY TypeParts DEF Path
<1>2. PcType'
  BY <1>1, PcStep, Kept DEF PcType
<1>3. TypeOK'
  BY <1>1, <1>2, RouteTypesStep, OtherTypesStep, TypePartsNext
<1>4. Places' /\ Routes' /\ Guard'
  BY <1>1, PlacesStep, RouteTypesStep, GuardStep
<1>5. Behind' /\ Resolver' /\ Refreshed'
  BY <1>1, BehindStep, ResolverStep, RefreshedStep
<1> QED BY <1>3, <1>4, <1>5 DEF Path

LEMMA PathAlways == Spec => []Path
BY PathInit, PathStep, PTL DEF Spec

(* Every record of the client and of the kernel keeps to its range. *)
THEOREM PathTypeCorrect == Spec => []TypeOK
<1>1. Path => TypeOK
  BY DEF Path
<1> QED BY <1>1, PathAlways, PTL

(* No refresh, moved server, failed command or changed network orphans a route:
   what is in the kernel is in the records, or was refused removal. *)
THEOREM PathRecordsCoverKernel == Spec => []RecordsCoverKernel
<1>1. Path => RecordsCoverKernel
  BY DEF Path, Routes
<1> QED BY <1>1, PathAlways, PTL

(* After Run the host is as it was, except for what it refused to remove. *)
THEOREM PathCleanExit == Spec => []CleanExit
<1>1. Path => CleanExit
  <2> SUFFICES ASSUME Path, pc = "ended"
               PROVE  /\ \A s \in Server : kPin[s] = None \/ s \in stuck
                      /\ kTun \subseteq stuck
                      /\ kFw = None \/ "fw" \in stuck
                      /\ kDNS => "dns" \in stuck
    BY DEF CleanExit
  <2>1. ~routes /\ ~resolvers /\ ~leakguard
    BY DEF Path, Places
  <2>2. /\ \A s \in Server : kPin[s] = None \/ s \in stuck
        /\ kTun \subseteq stuck
    BY <2>1 DEF Path, Routes, RecordsCoverKernel
  <2> QED BY <2>1, <2>2 DEF Path, Guard, Resolver
<1> QED BY <1>1, PathAlways, PTL

(* While the IPv4 default points into the tunnel the leak block stands, except in
   the re-pointing window and once protection was given up. *)
THEOREM PathGuardedWhileRouted == Spec => []GuardedWhileRouted
<1>1. Path => GuardedWhileRouted
  BY DEF Path, Behind, Guard, GuardedWhileRouted
<1> QED BY <1>1, PathAlways, PTL

(* A full-tunnel session is up only behind the kill-switch for the server it
   dialled, unless protection was given up. *)
THEOREM PathConnectedIsGuarded == Spec => []ConnectedIsGuarded
<1>1. Path => ConnectedIsGuarded
  BY DEF Path, Behind, Guard, ConnectedIsGuarded
<1> QED BY <1>1, PathAlways, PTL

(* The kill-switch lets the dial through to the address the name resolved to
   this time, unless its old rules could not be removed. *)
THEOREM PathDialPassesGuard == Spec => []DialPassesGuard
<1>1. Path => DialPassesGuard
  BY DEF Path, Guard, DialPassesGuard
<1> QED BY <1>1, PathAlways, PTL

(* A refresh whose commands work leaves the pin-hole at the gateway of now,
   whatever failed, moved or was skipped before it. *)
THEOREM PathPinRecovers == Spec => []PinRecovers
<1>1. Path => PinRecovers
  BY DEF Path, Refreshed, PinRecovers
<1> QED BY <1>1, PathAlways, PTL

-----------------------------------------------------------------------------
(* The host's resolver.  As long as nothing was dropped or taken for the host's own
   (Fine), a resolver that points into the tunnel has a backup behind it. *)
Fine == faults \cap {"backup", "leftover", "dropped"} = {}
Clean == \A s \in Mine : resolver[s] # "tunnel"

Records ==
    /\ phase \in {"backup", "undo"} => platform # "link" /\ saved # Unset
    /\ phase \in {"set", "up"} /\ platform # "link" => saved # Unset
    /\ phase = "reconcile" /\ todo # {} => backup # Unset
    /\ platform = "link" => backup = Unset /\ saved = Unset

OwnSettings ==
    Fine => /\ saved # Unset => \A s \in Mine : saved[s] # "tunnel"
            /\ backup # Unset => \A s \in Mine : backup[s] # "tunnel"

Backed ==
    Fine /\ platform # "link" =>
        backup # Unset \/ (phase \notin {"set", "up", "undo"} /\ Clean)

Progress ==
    Fine /\ ~failed /\ platform # "link" /\ phase \in {"reconcile", "undo"} =>
        \A s \in Mine \ todo : resolver[s] # "tunnel"

Quiet ==
    faults = {} =>
        /\ ~failed
        /\ phase = "idle" \/ (platform = "link" /\ phase \in {"down", "reconcile"}) => Clean

HostInv == ResolverTypeOK /\ Records /\ OwnSettings /\ Backed /\ Progress /\ Quiet

LEMMA HostInit == ResolverInit => HostInv
<1> SUFFICES ASSUME ResolverInit PROVE HostInv
  OBVIOUS
<1> USE DEF ResolverInit, Mine
<1>1. ResolverTypeOK
  BY DEF ResolverTypeOK, Setting
<1>2. Clean
  BY DEF Clean
<1> QED BY <1>1, <1>2 DEF HostInv, Records, OwnSettings, Backed, Progress, Quiet

LEMMA HostTypes == HostInv /\ [ResolverNext]_resolverVars => ResolverTypeOK'
<1> SUFFICES ASSUME HostInv, [ResolverNext]_resolverVars PROVE ResolverTypeOK'
  OBVIOUS
<1> USE DEF HostInv, ResolverTypeOK, Setting, Mine, Records, hostVars, helperVars, Enter, Set
<1>1. CASE Start \/ Reconciled \/ Applied
  BY <1>1, ResolverAssumption DEF Start, Reconciled, Applied, RemoveBackup
<1>2. CASE Snapshot
  <2>1. saved' \in [Mine -> Setting]
    BY <1>2 DEF Snapshot
  <2> QED BY <1>2, <2>1 DEF Snapshot
<1>8. CASE WriteBackup
  BY <1>8 DEF WriteBackup
<1>3. CASE ApplyLink \/ SetFails \/ Remove
  BY <1>3, ResolverAssumption DEF ApplyLink, SetFails, Remove
<1>4. CASE RemoveLink \/ Undone \/ Crash
  BY <1>4, ResolverAssumption DEF RemoveLink, Undone, Crash, RemoveBackup
<1>5. CASE ClearDNS
  BY <1>5, ResolverAssumption DEF ClearDNS, RemoveBackup
<1>6. ASSUME NEW s \in Service \cup {File}, Reconcile(s) \/ SetResolver(s) \/ Undo(s)
      PROVE  ResolverTypeOK'
  <2>1. CASE Reconcile(s)
    BY <2>1, ResolverAssumption DEF Reconcile, PutBack
  <2>2. CASE SetResolver(s)
    BY <2>2, ResolverAssumption DEF SetResolver
  <2>3. CASE Undo(s)
    BY <2>3, ResolverAssumption DEF Undo, PutBack
  <2> QED BY <1>6, <2>1, <2>2, <2>3
<1>7. CASE UNCHANGED resolverVars
  BY <1>7 DEF resolverVars
<1> QED BY <1>1, <1>2, <1>3, <1>4, <1>5, <1>6, <1>7, <1>8 DEF ResolverNext

LEMMA HostStep == HostInv /\ [ResolverNext]_resolverVars => HostInv'
<1> SUFFICES ASSUME HostInv, [ResolverNext]_resolverVars PROVE HostInv'
  OBVIOUS
<1>1. ResolverTypeOK'
  BY HostTypes
<1> SUFFICES (Records /\ OwnSettings /\ Backed /\ Progress /\ Quiet)'
  BY <1>1 DEF HostInv
<1> USE DEF HostInv, Records, OwnSettings, Backed, Progress, Quiet, Fine, Clean, Mine, hostVars,
            helperVars, Enter, Set
<1>2. CASE Start
  BY <1>1, <1>2 DEF Start, ResolverTypeOK
<1>3. CASE Reconciled
  BY <1>1, <1>3 DEF Reconciled, RemoveBackup, ResolverTypeOK
<1>4. CASE Snapshot
  <2> USE <1>4 DEF Snapshot
  <2>1. saved' \in [Mine -> Setting] /\ \A s \in Mine : saved'[s] = resolver[s]
    BY DEF ResolverTypeOK
  <2>2. saved' # Unset
    BY <2>1, ResolverAssumption
  <2>3. Fine' => Fine /\ Clean
    OBVIOUS
  <2> QED BY <2>1, <2>2, <2>3
<1>5. CASE WriteBackup
  BY <1>1, <1>5 DEF WriteBackup, ResolverTypeOK
<1>6. CASE ApplyLink \/ Applied \/ Remove
  BY <1>1, <1>6 DEF ApplyLink, Applied, Remove, ResolverTypeOK
<1>7. CASE SetFails
  BY <1>1, <1>7 DEF SetFails, ResolverTypeOK
<1>8. CASE RemoveLink
  BY <1>1, <1>8 DEF RemoveLink, ResolverTypeOK
<1>9. CASE Undone
  BY <1>1, <1>9 DEF Undone, RemoveBackup, ResolverTypeOK
<1>10. CASE Crash
  BY <1>1, <1>10, ResolverAssumption DEF Crash, ResolverTypeOK
<1>11. CASE ClearDNS
  BY <1>1, <1>11, ResolverAssumption DEF ClearDNS, RemoveBackup, ResolverTypeOK
<1>12. ASSUME NEW s \in Service \cup {File}, Reconcile(s) \/ Undo(s)
       PROVE  (Records /\ OwnSettings /\ Backed /\ Progress /\ Quiet)'
  BY <1>1, <1>12, ResolverAssumption DEF Reconcile, Undo, PutBack, ResolverTypeOK
<1>13. ASSUME NEW s \in Service \cup {File}, SetResolver(s)
       PROVE  (Records /\ OwnSettings /\ Backed /\ Progress /\ Quiet)'
  BY <1>1, <1>13 DEF SetResolver, ResolverTypeOK
<1>14. CASE UNCHANGED resolverVars
  BY <1>14 DEF resolverVars
<1> QED BY <1>2, <1>3, <1>4, <1>5, <1>6, <1>7, <1>8, <1>9, <1>10, <1>11, <1>12, <1>13, <1>14
        DEF ResolverNext

LEMMA HostAlways == ResolverSpec => []HostInv
BY HostInit, HostStep, PTL DEF ResolverSpec

(* Every record of the resolver keeps to its range. *)
THEOREM ResolverTypeCorrect == ResolverSpec => []ResolverTypeOK
<1>1. HostInv => ResolverTypeOK
  BY DEF HostInv
<1> QED BY <1>1, HostAlways, PTL

(* Whatever the helper does, fails at or dies in, a resolver that points into the
   tunnel has a backup behind it (dns_linux.go:163), unless a failed restore dropped
   it or the tunnel's own setting was taken for the host's. *)
THEOREM ResolverRecoverable == ResolverSpec => []Recoverable
<1>1. HostInv => Recoverable
  BY DEF HostInv, OwnSettings, Backed, Fine, Clean, Recoverable
<1> QED BY <1>1, HostAlways, PTL

(* A start of the helper after a crash at any point (cmd/vpn-helper/main.go:105) ends
   with the host's own resolver, if nothing failed. *)
THEOREM ResolverCrashIsCured == ResolverSpec => []CrashIsCured
<1>1. HostInv => CrashIsCured
  BY DEF HostInv, Quiet, Clean, CrashIsCured
<1> QED BY <1>1, HostAlways, PTL
=============================================================================
