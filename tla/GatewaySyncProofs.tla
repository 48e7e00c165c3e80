------------------------- MODULE GatewaySyncProofs --------------------------
(***************************************************************************)
(* What a manager may rely on (InSync and RememberedAsIntended), for every *)
(* set of configurations, partial configurations and custom redirects.     *)
(*                                                                         *)
(* InSync is about the states between requests.  The inductive invariant   *)
(* says what the handlers have achieved while they run (Progress): every   *)
(* port but the ones still open is as the manager's copy says, in the      *)
(* daemon's memory and on the machine.                                     *)
(***************************************************************************)
EXTENDS GatewayProofs

NginxStage == {"module", "sites", "reload"}

\* A dead daemon, and one that starts, promise nothing but what was promised
\* before; startup() does not touch files that a promise is about.
ChainInv ==
    /\ pc \in {"down", "startup"} => chain \in {"orphan", "broken"}
    /\ pc = "startup" => kind = "startup"
    /\ pc = "prune" => kind = "apply"
    /\ pc = "idle" /\ chain = "dirty" => kind = "partial"
    /\ ~Quiescent /\ kind = "startup" =>
         pc \in NginxStage /\ chain \in {"orphan", "broken"} /\ ~(chain = "orphan" /\ normal)
    /\ ~Quiescent /\ kind = "partial" => chain # "orphan"

\* A handler whose Ok will be believed, or one that failed and whose
\* repetition may still fulfil the request.
Believed ==
    \/ ~Quiescent /\ kind = "apply"
    \/ ~Quiescent /\ kind = "partial" /\ chain \in {"live", "dirty"}
    \/ pc = "idle" /\ chain = "dirty"

\* The ports that need not be as intended yet.
Open == IF Quiescent THEN DOMAIN req ELSE todo

\* On the ports of the request the manager's copy is the request; on the
\* ports that are not open the daemon's memory is the manager's copy.
MemoryProgress ==
    /\ \A p \in DOMAIN req :
         /\ p \in DOMAIN intended <=> req[p] # None
         /\ p \in DOMAIN intended => intended[p] = req[p]
    /\ \A p \in (DOMAIN config \cup DOMAIN intended) \ Open :
         /\ p \in DOMAIN config
         /\ p \in DOMAIN intended
         /\ config[p] = intended[p]
    /\ kind = "apply" => config = intended /\ req = intended /\ normal
    /\ pc \in NginxStage => todo = {}

\* apply_partial() takes the networks as they are.
PortsProgress == kind = "partial" => PortsAgree(config) /\ PortsAgree(req)

\* Whatever is intended and not open is in place.
PlaceProgress ==
    \A p \in DOMAIN intended \ Open :
        p \in DOMAIN netns /\ NetworkInPlace(netns[p], WithListenPort(intended[p], p))

\* No namespace is left over, once apply() has deleted what it has seen; the
\* snapshot of apply_partial() still holds for the networks to remove.
SurplusProgress ==
    /\ kind = "apply" /\ pc = "prune" => DOMAIN netns = seen
    /\ kind = "partial" \/ pc \notin {"bridge", "list", "prune"} =>
         DOMAIN netns \subseteq DOMAIN intended \cup Open
    /\ kind = "partial" /\ pc \notin {"idle", "bridge", "list"} =>
         \A q \in todo : q \in DOMAIN netns /\ req[q] = None => q \in seen

\* apply_wireguard() did what it is for.
WireguardInPlace(ns, network) ==
    /\ ns.wg
    /\ ns.mtu = network.mtu
    /\ ns.up
    /\ ToSet(network.address) \subseteq ns.addr
    /\ ns.conf = to_config(network)

\* How far the current network is.
StageProgress ==
    /\ pc \notin {"idle", "bridge"} => bridge = BridgeUp
    /\ pc \in NetworkStage => \A p \in todo : Current(p) =>
         /\ p \in DOMAIN netns
         /\ pc # "wireguard" => WireguardInPlace(netns[p], Target(p))
         /\ pc = "forwarding" => netns[p].veth = VethUp

MachineProgress == PortsProgress /\ PlaceProgress /\ SurplusProgress /\ StageProgress

Progress ==
    /\ Believed => MemoryProgress
    /\ Believed /\ normal => MachineProgress

IInv == TypeInv /\ ChainInv /\ Progress /\ InSync /\ RememberedAsIntended

-----------------------------------------------------------------------------

\* f and g agree on every port that is not in S.
SameOutside(f, g, S) ==
    \A p : p \notin S =>
        /\ p \in DOMAIN f <=> p \in DOMAIN g
        /\ p \in DOMAIN f => f[p] = g[p]

LEMMA SyncInit == Init => IInv
<1> SUFFICES ASSUME Init PROVE IInv
  OBVIOUS
<1>1. TypeInv
  BY TypeInit
<1>2. /\ pc = "startup" /\ kind = "startup" /\ chain = "broken"
  BY DEF Init
<1> QED
  BY <1>1, <1>2
  DEF IInv, ChainInv, Progress, Believed, InSync, Promised, RememberedAsIntended, Quiescent

\* A handler that fails or dies promises nothing; what it leaves behind, on
\* the ports its request does not name, is what it found.
LEMMA SyncStop ==
    ASSUME IInv, TypeInv', ~Quiescent, Stop, UNCHANGED <<kind, req, intended, normal>>,
           SameOutside(config, config', DOMAIN req),
           kind = "partial" /\ Believed /\ normal =>
             /\ SameOutside(netns, netns', DOMAIN req)
             /\ PortsAgree(config')
    PROVE  IInv'
<1>1. \/ pc' = "down" /\ chain' = "broken"
      \/ pc' = "idle" /\ chain' \in {"dirty", "broken"}
  BY DEF Stop, Abort, Killed, Quiescent
<1>2. chain' = "dirty" => pc' = "idle" /\ kind = "partial" /\ chain \in {"live", "dirty"}
  BY DEF Stop, Abort, Killed, Quiescent
<1>3. ChainInv' /\ InSync' /\ RememberedAsIntended'
  BY <1>1, <1>2 DEF ChainInv, InSync, Promised, RememberedAsIntended, Quiescent
<1>4. SUFFICES ASSUME Believed' PROVE MemoryProgress' /\ (normal => MachineProgress')
  BY <1>3 DEF IInv, Progress
<1>5. pc' = "idle" /\ chain' = "dirty" /\ kind = "partial" /\ Believed
  BY <1>1, <1>2, <1>4 DEF Believed, Quiescent
<1>6. MemoryProgress /\ (normal => MachineProgress)
  BY <1>5 DEF IInv, Progress
<1>7. Open = todo /\ Open' = DOMAIN req /\ todo \subseteq DOMAIN req
  BY <1>5 DEF Open, Quiescent, IInv, TypeInv, TypeOK
<1>8. MemoryProgress'
  BY <1>5, <1>6, <1>7 DEF MemoryProgress, SameOutside, NginxStage
<1>9. ASSUME normal PROVE MachineProgress'
  <2>1. MachineProgress /\ SameOutside(netns, netns', DOMAIN req) /\ PortsAgree(config')
    BY <1>5, <1>6, <1>9
  <2>2. PortsProgress'
    BY <1>5, <2>1 DEF MachineProgress, PortsProgress
  <2>3. PlaceProgress'
    BY <1>7, <2>1 DEF MachineProgress, PlaceProgress, SameOutside
  <2>4. SurplusProgress'
    BY <1>5, <1>7, <2>1 DEF MachineProgress, SurplusProgress, SameOutside
  <2>5. StageProgress'
    BY <1>5 DEF StageProgress, NetworkStage
  <2> QED BY <2>2, <2>3, <2>4, <2>5 DEF MachineProgress
<1> QED BY <1>8, <1>9

\* Going on within a handler: only the progress of the step has to be shown.
LEMMA SyncGoto ==
    ASSUME IInv, TypeInv', ~Quiescent,
           NEW l \in Labels \ {"idle", "down", "startup"}, Goto(l),
           UNCHANGED <<kind, req, intended, normal>>,
           l = "prune" => kind = "apply",
           kind = "startup" => l \in NginxStage,
           Believed => MemoryProgress',
           Believed /\ normal => MachineProgress'
    PROVE  IInv'
<1>1. pc' = l /\ chain' = chain /\ ~Quiescent'
  BY DEF Goto, Quiescent
<1>2. ChainInv'
  BY <1>1 DEF IInv, ChainInv, Quiescent
<1>3. InSync' /\ RememberedAsIntended'
  BY <1>1 DEF InSync, Promised, RememberedAsIntended, Quiescent
<1>4. Believed' <=> Believed
  BY <1>1 DEF Believed, Quiescent
<1>5. Progress'
  BY <1>4 DEF Progress
<1> QED BY <1>2, <1>3, <1>5 DEF IInv

\* For a handler that is believed and meets its own ports only, the network
\* to apply for a port is the intended one, under that port.
LEMMA TargetIntended ==
    ASSUME IInv, ~Quiescent, Believed, normal, NEW p \in todo, req[p] # None
    PROVE  /\ p \in DOMAIN intended /\ p \in U16
           /\ intended[p] = req[p] /\ req[p] \in NetworkState
           /\ Target(p) = WithListenPort(intended[p], p)
           /\ Target(p).listen_port = p
<1>1. MemoryProgress /\ PortsProgress
  BY DEF IInv, Progress, MachineProgress
<1>2. p \in DOMAIN req
  BY DEF IInv, TypeInv, TypeOK
<1>3. p \in DOMAIN intended /\ intended[p] = req[p]
  BY <1>1, <1>2 DEF MemoryProgress
<1>4. p \in U16 /\ req[p] \in NetworkState
  BY TargetType DEF IInv, TypeInv
<1>5. kind \in {"apply", "partial"}
  BY DEF Believed, Quiescent
<1>6. CASE kind = "apply"
  BY <1>3, <1>4, <1>6, ListenPort DEF Target
<1>7. CASE kind = "partial"
  <2>1. req[p].listen_port = p
    BY <1>1, <1>2, <1>7 DEF PortsProgress, PortsAgree
  <2>2. Target(p) = req[p]
    BY <1>7 DEF Target
  <2> QED BY <1>3, <1>4, <2>1, <2>2, ListenPort
<1> QED BY <1>5, <1>6, <1>7

LEMMA SameRefl ==
    ASSUME NEW f, NEW S
    PROVE  SameOutside(f, f, S)
BY DEF SameOutside

\* apply_bridge(), netns_list(), Prune and PruneDone.
LEMMA SyncPrologue ==
    ASSUME IInv, TypeInv',
           apply_bridge \/ netns_list \/ (\E p \in seen : Prune(p)) \/ PruneDone
    PROVE  IInv'
<1>0. ~Quiescent /\ kind # "startup" /\ UNCHANGED <<kind, req, intended, normal, config, todo>>
  BY DEF apply_bridge, netns_list, Prune, PruneDone, Quiescent, IInv, ChainInv, NginxStage
<1>1. ASSUME Stop, netns' = netns PROVE IInv'
  <2>1. PortsAgree(config') <=> PortsAgree(config)
    BY <1>0 DEF PortsAgree
  <2>2. kind = "partial" /\ Believed /\ normal => PortsAgree(config')
    BY <2>1 DEF IInv, Progress, MachineProgress, PortsProgress
  <2> QED BY <1>0, <1>1, <2>2, SyncStop, SameRefl
<1>2. ASSUME NEW l \in {"list", "prune", "next"}, Goto(l)
      PROVE  /\ pc' = l /\ ~Quiescent'
             /\ Open' = Open /\ Open = todo
             /\ Believed => MemoryProgress'
             /\ Believed /\ normal => PortsProgress'
  <2>1. pc' = l /\ ~Quiescent' /\ Open' = Open /\ Open = todo
    BY <1>0, <1>2 DEF Goto, Quiescent, Open
  <2>2. Believed => MemoryProgress'
    BY <1>0, <2>1 DEF IInv, Progress, MemoryProgress, NginxStage
  <2>3. Believed /\ normal => PortsProgress'
    BY <1>0 DEF IInv, Progress, MachineProgress, PortsProgress, PortsAgree
  <2> QED BY <2>1, <2>2, <2>3
<1>3. CASE apply_bridge
  <2>1. CASE Stop
    BY <1>1, <1>3, <2>1 DEF apply_bridge
  <2>2. CASE bridge' = BridgeUp /\ Goto("list")
    <3>1. ASSUME Believed, normal PROVE PlaceProgress' /\ SurplusProgress' /\ StageProgress'
      BY <1>0, <1>2, <1>3, <2>2, <3>1
      DEF apply_bridge, IInv, Progress, MachineProgress, PlaceProgress, SurplusProgress,
          StageProgress, NetworkStage
    <3> QED BY <1>0, <1>2, <2>2, <3>1, SyncGoto DEF MachineProgress, Labels
  <2> QED BY <1>3, <2>1, <2>2 DEF apply_bridge
<1>4. CASE netns_list
  <2>1. CASE Stop
    BY <1>1, <1>4, <2>1 DEF netns_list, machineVars
  <2>2. CASE seen' = DOMAIN netns /\ Goto(IF kind = "apply" THEN "prune" ELSE "next")
    <3> DEFINE l == IF kind = "apply" THEN "prune" ELSE "next"
    <3>0. l \in {"list", "prune", "next"} /\ (l = "prune" => kind = "apply") /\ Goto(l)
      BY <2>2
    <3>1. ASSUME Believed, normal PROVE PlaceProgress' /\ SurplusProgress' /\ StageProgress'
      <4>1. kind \in {"apply", "partial"}
        BY <1>0, <3>1 DEF Believed, Quiescent
      <4> QED
        BY <1>0, <1>2, <1>4, <2>2, <3>0, <3>1, <4>1
        DEF netns_list, machineVars, IInv, Progress, MachineProgress, PlaceProgress,
            SurplusProgress, StageProgress, NetworkStage
    <3> QED BY <1>0, <1>2, <3>0, <3>1, SyncGoto DEF MachineProgress, Labels
  <2> QED BY <1>4, <2>1, <2>2 DEF netns_list
<1>5. ASSUME NEW p \in seen, Prune(p) PROVE IInv'
  <2>1. CASE Stop /\ netns' = netns
    BY <1>1, <2>1
  <2>2. CASE netns' = Without(netns, p) /\ seen' = seen \ {p} /\ Goto("prune")
    <3>1. kind = "apply" /\ p \notin DOMAIN req
      BY <1>5 DEF Prune, IInv, ChainInv
    <3>2. ASSUME Believed, normal PROVE PlaceProgress' /\ SurplusProgress' /\ StageProgress'
      <4>1. req = intended
        BY <3>1, <3>2 DEF IInv, Progress, MemoryProgress
      <4> QED
        BY <1>0, <1>2, <1>5, <2>2, <3>1, <3>2, <4>1
        DEF Prune, Without, IInv, Progress, MachineProgress, PlaceProgress,
            SurplusProgress, StageProgress, NetworkStage
    <3> QED BY <1>0, <1>2, <2>2, <3>1, <3>2, SyncGoto DEF MachineProgress, Labels
  <2> QED BY <1>5, <2>1, <2>2 DEF Prune
<1>6. CASE PruneDone
  <2>1. kind = "apply" /\ seen \subseteq DOMAIN req /\ Goto("next") /\ netns' = netns /\ bridge' = bridge
    BY <1>6 DEF PruneDone, machineVars, IInv, ChainInv
  <2>2. ASSUME Believed, normal PROVE PlaceProgress' /\ SurplusProgress' /\ StageProgress'
    <3>1. req = intended
      BY <2>1, <2>2 DEF IInv, Progress, MemoryProgress
    <3> QED
      BY <1>0, <1>2, <1>6, <2>1, <2>2, <3>1
      DEF PruneDone, IInv, Progress, MachineProgress, PlaceProgress,
          SurplusProgress, StageProgress, NetworkStage
  <2> QED BY <1>0, <1>2, <2>1, <2>2, SyncGoto DEF MachineProgress, Labels
<1> QED BY <1>3, <1>4, <1>5, <1>6

\* apply_wireguard() does what it is for, and leaves the veth pair and the NAT
\* table alone.
LEMMA WireguardEffect ==
    ASSUME NEW ns \in Namespace, NEW n \in NetworkState
    PROVE  WireguardInPlace(WireguardDone(ns, n), n)
<1> DEFINE c == WireguardCreated(ns)
           m == WireguardMtu(ns, n)
           a == WireguardAddr(ns, n, Len(n.address))
           d == WireguardDone(ns, n)
<1>1. c \in Namespace /\ c.wg
  <2>1. CASE ns.wg
    BY <2>1 DEF WireguardCreated
  <2>2. CASE ~ns.wg
    BY <2>2 DEF Namespace, WireguardCreated, WG_DEFAULT_MTU
  <2> QED BY <2>1, <2>2
<1>2. m \in Namespace /\ m.wg /\ m.mtu = n.mtu
  BY <1>1 DEF Namespace, WireguardMtu, NetworkState
<1>3. { n.address[k] : k \in 1 .. Len(n.address) } = ToSet(n.address)
  <2>1. n.address \in Seq(IpNet)
    BY DEF NetworkState
  <2>2. DOMAIN n.address = 1 .. Len(n.address)
    BY <2>1
  <2> QED BY <2>2 DEF ToSet
<1>4. ToSet(n.address) \subseteq IpNet
  BY <1>3, n.address \in Seq(IpNet) DEF NetworkState
<1>5. a \in Namespace /\ a.wg /\ a.mtu = n.mtu /\ a.up /\ ToSet(n.address) \subseteq a.addr
  BY <1>2, <1>3, <1>4 DEF Namespace, WireguardAddr
<1>6. /\ d.wg = a.wg /\ d.mtu = a.mtu /\ d.up = a.up /\ d.addr = a.addr
      /\ d.conf = to_config(n)
  BY <1>5 DEF Namespace, WireguardDone
<1> QED BY <1>5, <1>6 DEF WireguardInPlace

\* apply_partial() removes a network; apply() never comes here.
LEMMA SyncRemove ==
    ASSUME IInv, TypeInv', NEW p \in todo, RemoveNetwork(p)
    PROVE  IInv'
<1>0. /\ ~Quiescent /\ UNCHANGED <<kind, req, intended, normal, bridge, seen>>
      /\ kind # "startup" /\ Current(p) /\ req[p] = None /\ p \in DOMAIN req
      /\ config' = Without(config, p) /\ todo' = todo \ {p} /\ pc = "next"
  BY DEF RemoveNetwork, Quiescent, IInv, ChainInv, NginxStage, TypeInv, TypeOK
<1>1. kind = "partial"
  <2>1. kind # "apply"
    BY <1>0, NoneAssumption DEF IInv, TypeInv, RequestInv, IsGatewayConfig
  <2> QED BY <1>0, <2>1 DEF IInv, TypeInv, TypeOK
<1>2. PortsAgree(config) => PortsAgree(config')
  BY <1>0 DEF PortsAgree, Without
<1>3. Believed => MemoryProgress
  BY DEF IInv, Progress
<1>4. Believed /\ normal => MachineProgress
  BY DEF IInv, Progress
<1>5. CASE Stop /\ netns' = netns
  <2>1. SameOutside(config, config', DOMAIN req)
    BY <1>0 DEF SameOutside, Without
  <2>2. kind = "partial" /\ Believed /\ normal => PortsAgree(config')
    BY <1>2, <1>4 DEF MachineProgress, PortsProgress
  <2> QED BY <1>0, <1>5, <2>1, <2>2, SyncStop, SameRefl
<1>6. CASE netns' = (IF p \in seen THEN Without(netns, p) ELSE netns) /\ Goto("next")
  <2>1. pc' = "next" /\ ~Quiescent' /\ Open = todo /\ Open' = todo \ {p}
    BY <1>0, <1>6 DEF Goto, Quiescent, Open
  <2>2. ASSUME Believed PROVE MemoryProgress'
    BY <1>0, <1>1, <1>3, <2>1, <2>2 DEF MemoryProgress, NginxStage, Without
  <2>3. ASSUME Believed, normal PROVE MachineProgress'
    <3>0. MachineProgress /\ MemoryProgress
      BY <1>3, <1>4, <2>3
    <3>1. p \notin DOMAIN intended
      BY <1>0, <3>0 DEF MemoryProgress
    <3>2. p \notin DOMAIN netns'
      BY <1>0, <1>1, <1>6, <3>0 DEF MachineProgress, SurplusProgress, Without
    <3>3. SameOutside(netns, netns', {p})
      BY <1>6 DEF SameOutside, Without
    <3>4. PortsProgress'
      BY <1>0, <1>1, <1>2, <3>0 DEF MachineProgress, PortsProgress
    <3>5. PlaceProgress'
      BY <1>0, <2>1, <3>0, <3>1, <3>3 DEF MachineProgress, PlaceProgress, SameOutside
    <3>6. SurplusProgress'
      BY <1>0, <1>1, <2>1, <3>0, <3>2, <3>3 DEF MachineProgress, SurplusProgress, SameOutside
    <3>7. StageProgress'
      BY <1>0, <2>1, <3>0 DEF MachineProgress, StageProgress, NetworkStage
    <3> QED BY <3>4, <3>5, <3>6, <3>7 DEF MachineProgress
  <2> QED BY <1>0, <1>6, <2>2, <2>3, SyncGoto DEF Labels
<1> QED BY <1>5, <1>6 DEF RemoveNetwork

\* The steps of apply_network() before the last: they touch the current
\* port's namespace only.
LEMMA SyncStage ==
    ASSUME IInv, TypeInv', NEW p \in todo,
           apply_netns(p) \/ apply_wireguard(p) \/ apply_veth(p)
    PROVE  IInv'
<1>0. /\ ~Quiescent /\ UNCHANGED <<kind, req, todo, seen, config, bridge, intended, normal>>
      /\ kind # "startup" /\ Current(p) /\ p \in DOMAIN req
      /\ pc \in {"next", "wireguard", "veth"}
  BY DEF apply_netns, apply_wireguard, apply_veth, Quiescent, IInv, ChainInv, NginxStage,
         TypeInv, TypeOK
<1>1. req[p] # None
  BY <1>0
  DEF apply_netns, apply_wireguard, apply_veth, IInv, TypeInv, StageInv, NetworkStage
<1>2. Believed => MemoryProgress
  BY DEF IInv, Progress
<1>3. Believed /\ normal =>
        MachineProgress /\ Target(p).listen_port = p /\ Target(p) \in NetworkState
  BY <1>0, <1>1, TargetIntended, TargetType DEF IInv, Progress, TypeInv
<1>4. Believed /\ normal => SameOutside(netns, netns', {p})
  <2> SUFFICES ASSUME Believed, normal PROVE SameOutside(netns, netns', {p})
    OBVIOUS
  <2>1. CASE apply_netns(p)
    BY <1>3, <2>1 DEF apply_netns, SameOutside, With
  <2>2. ASSUME NEW ns, netns' = [netns EXCEPT ![p] = ns]
        PROVE  SameOutside(netns, netns', {p})
    BY <2>2 DEF SameOutside
  <2>3. CASE apply_wireguard(p)
    BY <1>3, <2>2, <2>3 DEF apply_wireguard
  <2>4. CASE apply_veth(p)
    <3>1. PICK k : netns' = [netns EXCEPT ![p].veth = k]
      BY <1>3, <2>4 DEF apply_veth
    <3>2. netns' = [netns EXCEPT ![p] = [netns[p] EXCEPT !.veth = k]]
      BY <3>1
    <3> QED BY <2>2, <3>2
  <2> QED BY <2>1, <2>3, <2>4
<1>5. CASE Stop
  <2>1. PortsAgree(config') <=> PortsAgree(config)
    BY <1>0 DEF PortsAgree
  <2>2. kind = "partial" /\ Believed /\ normal =>
          PortsAgree(config') /\ SameOutside(netns, netns', DOMAIN req)
    BY <1>0, <1>3, <1>4, <2>1 DEF MachineProgress, PortsProgress, SameOutside
  <2> QED BY <1>0, <1>5, <2>2, SyncStop, SameRefl
<1>6. ASSUME NEW l \in NetworkStage, Goto(l),
             Believed /\ normal =>
               /\ p \in DOMAIN netns'
               /\ l # "wireguard" => WireguardInPlace(netns'[p], Target(p))
               /\ l = "forwarding" => netns'[p].veth = VethUp
      PROVE  IInv'
  <2>1. pc' = l /\ ~Quiescent' /\ Open = todo /\ Open' = todo
    BY <1>0, <1>6 DEF Goto, Quiescent, Open, NetworkStage
  <2>2. ASSUME Believed PROVE MemoryProgress'
    BY <1>0, <1>2, <1>6, <2>1, <2>2 DEF MemoryProgress, NginxStage, NetworkStage
  <2>3. ASSUME Believed, normal PROVE MachineProgress'
    <3>0. MachineProgress /\ SameOutside(netns, netns', {p})
      BY <1>3, <1>4, <2>3
    <3>4. PortsProgress'
      BY <1>0, <3>0 DEF MachineProgress, PortsProgress, PortsAgree
    <3>5. PlaceProgress'
      BY <1>0, <2>1, <3>0 DEF MachineProgress, PlaceProgress, SameOutside
    <3>6. SurplusProgress'
      BY <1>0, <1>1, <1>6, <2>1, <3>0
      DEF MachineProgress, SurplusProgress, SameOutside, NetworkStage
    <3>7. StageProgress'
      <4>1. bridge' = BridgeUp
        BY <1>0, <3>0 DEF MachineProgress, StageProgress
      <4>2. ASSUME NEW q \in todo', Current(q)' PROVE q = p
        BY <1>0, <4>2, CurrentUnique DEF Current, IInv, TypeInv
      <4>3. Target(p)' = Target(p)
        BY <1>0 DEF Target
      <4> QED BY <1>6, <2>1, <2>3, <4>1, <4>2, <4>3 DEF StageProgress
    <3> QED BY <3>4, <3>5, <3>6, <3>7 DEF MachineProgress
  <2> QED BY <1>0, <1>6, <2>2, <2>3, SyncGoto DEF Labels, NetworkStage, NginxStage
<1>7. CASE apply_netns(p) /\ ~Stop
  <2>1. Goto("wireguard")
    BY <1>7 DEF apply_netns
  <2>2. Believed /\ normal => p \in DOMAIN netns'
    BY <1>3, <1>7 DEF apply_netns, With
  <2> QED BY <1>6, <2>1, <2>2 DEF NetworkStage
<1>8. CASE apply_wireguard(p) /\ ~Stop
  <2>1. Goto("veth")
    BY <1>8 DEF apply_wireguard
  <2>2. ASSUME Believed, normal
        PROVE  p \in DOMAIN netns' /\ WireguardInPlace(netns'[p], Target(p))
    <3>1. p \in DOMAIN netns /\ netns[p] \in Namespace
      BY <1>0, <1>3, <1>8, <2>2
      DEF MachineProgress, StageProgress, NetworkStage, apply_wireguard, IInv, TypeInv,
          TypeOK, IsNetns
    <3>2. netns' = [netns EXCEPT ![p] = WireguardDone(netns[p], Target(p))]
      BY <1>3, <1>8, <2>2 DEF apply_wireguard
    <3> QED BY <1>3, <2>2, <3>1, <3>2, WireguardEffect
  <2> QED BY <1>6, <2>1, <2>2 DEF NetworkStage
<1>9. CASE apply_veth(p) /\ ~Stop
  <2>1. Goto("forwarding")
    BY <1>9 DEF apply_veth
  <2>2. ASSUME Believed, normal
        PROVE  /\ p \in DOMAIN netns' /\ WireguardInPlace(netns'[p], Target(p))
               /\ netns'[p].veth = VethUp
    <3>1. /\ p \in DOMAIN netns /\ netns[p] \in Namespace
          /\ WireguardInPlace(netns[p], Target(p))
      BY <1>0, <1>3, <1>9, <2>2
      DEF MachineProgress, StageProgress, NetworkStage, apply_veth, IInv, TypeInv,
          TypeOK, IsNetns
    <3>2. netns' = [netns EXCEPT ![p] = [netns[p] EXCEPT !.veth = VethUp]]
      BY <1>3, <1>9, <2>2 DEF apply_veth
    <3>3. netns'[p] = [netns[p] EXCEPT !.veth = VethUp] /\ p \in DOMAIN netns'
      BY <3>1, <3>2
    <3> QED BY <3>1, <3>3 DEF WireguardInPlace, Namespace
  <2> QED BY <1>6, <2>1, <2>2 DEF NetworkStage
<1> QED BY <1>5, <1>7, <1>8, <1>9

\* The last step of apply_network(): now the port is as intended.
LEMMA SyncForwarding ==
    ASSUME IInv, TypeInv', NEW p \in todo, apply_forwarding(p)
    PROVE  IInv'
<1>0. /\ ~Quiescent /\ UNCHANGED <<kind, req, seen, bridge, intended, normal>>
      /\ kind # "startup" /\ Current(p) /\ p \in DOMAIN req /\ pc = "forwarding"
  BY DEF apply_forwarding, Quiescent, IInv, ChainInv, NginxStage, TypeInv, TypeOK
<1>1. req[p] # None
  BY <1>0 DEF IInv, TypeInv, StageInv, NetworkStage
<1>2. Believed => MemoryProgress
  BY DEF IInv, Progress
<1>3. Believed /\ normal =>
        /\ MachineProgress
        /\ Target(p).listen_port = p /\ Target(p) = WithListenPort(intended[p], p)
  BY <1>0, <1>1, TargetIntended DEF IInv, Progress
<1>4. CASE Stop /\ UNCHANGED <<netns, config, todo>>
  <2>1. PortsAgree(config') <=> PortsAgree(config)
    BY <1>4 DEF PortsAgree
  <2>2. kind = "partial" /\ Believed /\ normal => PortsAgree(config')
    BY <1>3, <2>1 DEF MachineProgress, PortsProgress
  <2> QED BY <1>0, <1>4, <2>2, SyncStop, SameRefl
<1>5. CASE /\ netns' = [netns EXCEPT ![Target(p).listen_port].nat = port_config(Target(p))]
           /\ config' = IF kind = "apply" THEN config ELSE With(config, p, req[p])
           /\ todo' = todo \ {p}
           /\ Goto("next")
  <2>1. pc' = "next" /\ ~Quiescent' /\ Open = todo /\ Open' = todo \ {p}
    BY <1>0, <1>5 DEF Goto, Quiescent, Open
  <2>2. ASSUME Believed PROVE MemoryProgress'
    <3>1. p \in DOMAIN intended /\ intended[p] = req[p]
      BY <1>0, <1>1, <1>2, <2>2 DEF MemoryProgress
    <3>2. CASE kind = "apply"
      BY <1>0, <1>2, <1>5, <2>1, <2>2, <3>1, <3>2 DEF MemoryProgress, NginxStage
    <3>3. CASE kind # "apply"
      BY <1>0, <1>2, <1>5, <2>1, <2>2, <3>1, <3>3 DEF MemoryProgress, NginxStage, With
    <3> QED BY <3>2, <3>3
  <2>3. ASSUME Believed, normal PROVE MachineProgress'
    <3>0. /\ MachineProgress /\ MemoryProgress
          /\ p \in DOMAIN intended /\ intended[p] = req[p]
      BY <1>0, <1>1, <1>2, <1>3, <2>3 DEF MemoryProgress
    <3>1. /\ p \in DOMAIN netns /\ netns[p] \in Namespace
          /\ WireguardInPlace(netns[p], Target(p)) /\ netns[p].veth = VethUp
      BY <1>0, <3>0
      DEF MachineProgress, StageProgress, NetworkStage, IInv, TypeInv, TypeOK, IsNetns
    <3>2. netns' = [netns EXCEPT ![p] = [netns[p] EXCEPT !.nat = port_config(Target(p))]]
      BY <1>3, <1>5, <2>3
    <3>3. SameOutside(netns, netns', {p}) /\ DOMAIN netns' = DOMAIN netns
      BY <3>2 DEF SameOutside
    <3>4. netns'[p] = [netns[p] EXCEPT !.nat = port_config(Target(p))]
      BY <3>1, <3>2
    <3>5. NetworkInPlace(netns'[p], Target(p))
      <4>1. Target(p).address # <<>>
        BY DEF apply_forwarding
      <4> QED BY <3>1, <3>4, <4>1 DEF NetworkInPlace, WireguardInPlace, Namespace
    <3>6. PortsProgress'
      <4>1. kind = "partial" => PortsAgree(config) /\ PortsAgree(req)
        BY <3>0 DEF MachineProgress, PortsProgress
      <4> QED BY <1>0, <1>1, <1>5, <4>1 DEF PortsProgress, PortsAgree, With
    <3>7. PlaceProgress'
      BY <1>0, <1>3, <2>1, <2>3, <3>0, <3>1, <3>3, <3>5
      DEF MachineProgress, PlaceProgress, SameOutside
    <3>8. SurplusProgress'
      BY <1>0, <1>5, <2>1, <3>0, <3>3 DEF MachineProgress, SurplusProgress, SameOutside
    <3>9. StageProgress'
      BY <1>0, <2>1, <3>0 DEF MachineProgress, StageProgress, NetworkStage
    <3> QED BY <3>6, <3>7, <3>8, <3>9 DEF MachineProgress
  <2> QED BY <1>0, <1>5, <2>2, <2>3, SyncGoto DEF Labels
<1> QED BY <1>4, <1>5 DEF apply_forwarding

\* When no port is open any more, the daemon remembers what is intended.
LEMMA Remembered ==
    ASSUME IInv, ~Quiescent, Believed, todo = {}
    PROVE  config = intended
<1>1. MemoryProgress /\ Open = {}
  BY DEF IInv, Progress, Open
<1>2. DOMAIN config = DOMAIN intended
  BY <1>1 DEF MemoryProgress
<1>3. \A p \in DOMAIN config : config[p] = intended[p]
  BY <1>1 DEF MemoryProgress
<1>4. /\ config \in [DOMAIN config -> NetworkState]
      /\ intended \in [DOMAIN intended -> NetworkState]
  BY DEF IInv, TypeInv, TypeOK, IsGatewayConfig
<1> QED BY <1>2, <1>3, <1>4

\* Then the entries to write are those of the intended configuration, also
\* for apply_partial(), which takes them from the daemon's memory as they are.
LEMMA TargetForwarding ==
    ASSUME IInv, ~Quiescent, Believed, normal, todo = {}
    PROVE  NginxTarget = ForwardingOf(intended)
<1>1. config = intended
  BY Remembered
<1>2. MemoryProgress /\ PortsProgress
  BY DEF IInv, Progress, MachineProgress
<1>3. kind \in {"apply", "partial"}
  BY DEF Believed, Quiescent
<1>4. CASE kind = "apply"
  BY <1>2, <1>4 DEF MemoryProgress, NginxTarget, NginxNetworks, ForwardingOf
<1>5. CASE kind = "partial"
  <2>1. \A p \in DOMAIN config : config[p] = WithListenPort(config[p], p)
    <3> SUFFICES ASSUME NEW p \in DOMAIN config PROVE config[p] = WithListenPort(config[p], p)
      OBVIOUS
    <3>1. config[p] \in NetworkState /\ p \in U16
      BY DEF IInv, TypeInv, TypeOK, IsGatewayConfig
    <3>2. config[p].listen_port = p
      BY <1>2, <1>5, <3>1, NoneAssumption DEF PortsProgress, PortsAgree
    <3> QED BY <3>1, <3>2, ListenPort
  <2>2. { config[p] : p \in DOMAIN config } = { WithListenPort(config[p], p) : p \in DOMAIN config }
    BY <2>1
  <2> QED BY <1>1, <1>5, <2>2 DEF NginxTarget, NginxNetworks, ForwardingOf
<1> QED BY <1>3, <1>4, <1>5

\* The HTTP and HTTPS parts are all there is to a forwarding.
LEMMA TwoSchemes ==
    ASSUME NEW F, F \subseteq Entry
    PROVE  OfScheme(F, "https") \cup OfScheme(F, "http") = F
<1>1. \A e \in F : e[1] \in Scheme
  BY DEF Entry
<1> QED BY <1>1 DEF OfScheme, Scheme

\* NetworksDone and the two file writes.
LEMMA SyncFiles ==
    ASSUME IInv, TypeInv', NetworksDone \/ WriteModule \/ WriteSites
    PROVE  IInv'
<1>0. /\ ~Quiescent
      /\ UNCHANGED <<kind, req, todo, seen, config, bridge, netns, intended, normal>>
      /\ kind = "startup" => pc \in {"module", "sites"}
  BY DEF NetworksDone, WriteModule, WriteSites, machineVars, Quiescent, IInv, ChainInv, NginxStage
<1>1. Believed => MemoryProgress
  BY DEF IInv, Progress
<1>2. Believed /\ normal => MachineProgress
  BY DEF IInv, Progress
<1>3. CASE Stop
  <2>1. PortsAgree(config') <=> PortsAgree(config)
    BY <1>0 DEF PortsAgree
  <2>2. kind = "partial" /\ Believed /\ normal => PortsAgree(config')
    BY <1>2, <2>1 DEF MachineProgress, PortsProgress
  <2> QED BY <1>0, <1>3, <2>2, SyncStop, SameRefl
<1>4. CASE ~Stop
  <2>1. PICK l \in NginxStage : Goto(l)
    BY <1>4 DEF NetworksDone, WriteModule, WriteSites, NginxStage
  <2>2. pc' = l /\ ~Quiescent' /\ Open = todo /\ Open' = todo
    BY <1>0, <2>1 DEF Goto, Quiescent, Open, NginxStage
  <2>3. ASSUME Believed PROVE MemoryProgress'
    <3>1. todo = {}
      BY <1>1, <2>3 DEF NetworksDone, WriteModule, WriteSites, MemoryProgress, NginxStage
    <3> QED BY <1>0, <1>1, <2>2, <2>3, <3>1 DEF MemoryProgress
  <2>4. ASSUME Believed, normal PROVE MachineProgress'
    <3>0. MachineProgress /\ pc \notin {"idle", "bridge", "list", "prune"}
      BY <1>2, <2>4 DEF NetworksDone, WriteModule, WriteSites
    <3>1. PortsProgress'
      BY <1>0, <3>0 DEF MachineProgress, PortsProgress, PortsAgree
    <3>2. PlaceProgress'
      BY <1>0, <2>2, <3>0 DEF MachineProgress, PlaceProgress
    <3>3. SurplusProgress'
      BY <1>0, <2>2, <3>0 DEF MachineProgress, SurplusProgress, NginxStage
    <3>4. StageProgress'
      BY <1>0, <2>2, <3>0 DEF MachineProgress, StageProgress, NginxStage, NetworkStage
    <3> QED BY <3>1, <3>2, <3>3, <3>4 DEF MachineProgress
  <2> QED BY <1>0, <2>1, <2>3, <2>4, SyncGoto DEF NginxStage, Labels
<1> QED BY <1>3, <1>4

\* The reload completes apply_nginx() and the handler: the promise is kept.
LEMMA SyncReload ==
    ASSUME IInv, TypeInv', nginx_reload
    PROVE  IInv'
<1>0. /\ ~Quiescent /\ pc = "reload"
      /\ UNCHANGED <<kind, req, todo, seen, config, bridge, netns, disk, intended, normal>>
  BY DEF nginx_reload, Quiescent
<1>1. CASE Stop
  <2>1. PortsAgree(config') <=> PortsAgree(config)
    BY <1>0 DEF PortsAgree
  <2>2. kind = "partial" /\ Believed /\ normal => PortsAgree(config')
    BY <2>1 DEF IInv, Progress, MachineProgress, PortsProgress
  <2> QED BY <1>0, <1>1, <2>2, SyncStop, SameRefl
<1>2. CASE nginx' = disk.module.entries \cup disk.sites.entries /\ Finish
  <2>1. pc' = "idle" /\ chain' = IF kind = "apply" \/ chain = "dirty" THEN "live" ELSE chain
    BY <1>2 DEF Finish
  <2>2. chain' # "dirty" /\ ~Believed'
    BY <2>1 DEF Believed, Quiescent
  <2>3. ChainInv' /\ Progress'
    BY <2>1, <2>2 DEF ChainInv, Progress, Quiescent
  <2>4. chain' = "live" => Believed
    BY <1>0, <2>1 DEF Believed, IInv, ChainInv, TypeInv, TypeOK
  <2>5. Believed => todo = {}
    BY <1>0 DEF IInv, Progress, MemoryProgress, NginxStage
  <2>6. RememberedAsIntended'
    BY <1>0, <2>4, <2>5, Remembered DEF RememberedAsIntended
  <2>7. ASSUME Promised' PROVE InPlace(intended)'
    <3>1. chain' = "live" /\ normal
      BY <1>0, <2>1, <2>7 DEF Promised, IInv, ChainInv, TypeInv, TypeOK
    <3>2. Believed /\ todo = {} /\ MachineProgress /\ Open = {}
      BY <1>0, <2>4, <2>5, <3>1 DEF IInv, Progress, Open
    <3>3. NginxTarget = ForwardingOf(intended) /\ NginxTarget \subseteq Entry
      BY <1>0, <3>1, <3>2, TargetForwarding, TargetEntries DEF IInv, TypeInv
    <3>4. bridge = BridgeUp
      BY <1>0, <3>2 DEF MachineProgress, StageProgress
    <3>5. /\ DOMAIN netns = DOMAIN intended
          /\ \A p \in DOMAIN intended : NetworkInPlace(netns[p], WithListenPort(intended[p], p))
      BY <1>0, <3>2 DEF MachineProgress, PlaceProgress, SurplusProgress
    <3>6. /\ disk.module = Written(OfScheme(ForwardingOf(intended), "https"))
          /\ disk.sites = Written(OfScheme(ForwardingOf(intended), "http"))
      BY <1>0, <3>3 DEF IInv, TypeInv, FilesInv
    <3>7. disk = [ module |-> Written(OfScheme(ForwardingOf(intended), "https")),
                   sites  |-> Written(OfScheme(ForwardingOf(intended), "http")) ]
      BY <3>6 DEF IInv, TypeInv, TypeOK
    <3>8. nginx' = ForwardingOf(intended)
      BY <1>2, <3>3, <3>6, TwoSchemes DEF Written
    <3>9. ForwardingOf(intended)' = ForwardingOf(intended)
      BY <1>0 DEF ForwardingOf
    <3> QED BY <1>0, <3>4, <3>5, <3>7, <3>8, <3>9 DEF InPlace
  <2> QED BY <2>3, <2>6, <2>7 DEF IInv, InSync
<1> QED BY <1>1, <1>2 DEF nginx_reload, Stop

\* A full Apply starts from any state of the machine.
LEMMA SyncApply ==
    ASSUME IInv, TypeInv', NEW c \in Configs, apply(c)
    PROVE  IInv'
<1>1. /\ pc' = "bridge" /\ kind' = "apply" /\ req' = c /\ todo' = DOMAIN c
      /\ config' = c /\ intended' = c /\ normal'
  BY DEF apply
<1>2. ~Quiescent' /\ Open' = DOMAIN c
  BY <1>1 DEF Quiescent, Open
<1>3. ChainInv' /\ InSync' /\ RememberedAsIntended'
  BY <1>1, <1>2 DEF ChainInv, InSync, Promised, RememberedAsIntended, Quiescent
<1>4. \A p \in DOMAIN c : c[p] # None
  BY ConfigsAssumption, NoneAssumption DEF IsGatewayConfig
<1>5. MemoryProgress'
  BY <1>1, <1>2, <1>4 DEF MemoryProgress, NginxStage
<1>6. MachineProgress'
  BY <1>1, <1>2
  DEF MachineProgress, PortsProgress, PlaceProgress, SurplusProgress, StageProgress, NetworkStage
<1> QED BY <1>3, <1>5, <1>6 DEF IInv, Progress

\* A partial one continues from what was promised, or from what the attempt
\* it repeats has left.
LEMMA SyncApplyPartial ==
    ASSUME IInv, TypeInv', NEW c \in Partials, apply_partial(c)
    PROVE  IInv'
<1>1. /\ pc = "idle" /\ pc' = "bridge" /\ kind' = "partial" /\ req' = c /\ todo' = DOMAIN c
      /\ intended' = MergePartial(intended, c) /\ UNCHANGED <<config, netns, bridge>>
      /\ normal' = (normal /\ PortsAgree(config) /\ PortsAgree(c))
      /\ chain' = IF chain = "live" \/ (chain = "dirty" /\ DOMAIN req \subseteq DOMAIN c)
                  THEN chain ELSE "broken"
  BY DEF apply_partial, machineVars
<1>2. ~Quiescent' /\ Open' = DOMAIN c
  BY <1>1 DEF Quiescent, Open
<1>3. ChainInv' /\ InSync' /\ RememberedAsIntended'
  BY <1>1, <1>2 DEF ChainInv, InSync, Promised, RememberedAsIntended, Quiescent
<1>4. SUFFICES ASSUME Believed' PROVE MemoryProgress' /\ (normal' => MachineProgress')
  BY <1>3 DEF IInv, Progress
<1>5. chain = "live" \/ (chain = "dirty" /\ DOMAIN req \subseteq DOMAIN c /\ Believed /\ Open = DOMAIN req)
  BY <1>1, <1>2, <1>4 DEF Believed, Open, Quiescent
<1>6. \A p \in (DOMAIN config \cup DOMAIN intended) \ DOMAIN c :
        p \in DOMAIN config /\ p \in DOMAIN intended /\ config[p] = intended[p]
  <2>1. CASE chain = "live"
    BY <1>1, <2>1 DEF IInv, RememberedAsIntended
  <2>2. CASE chain # "live"
    BY <1>5, <2>2 DEF IInv, Progress, MemoryProgress
  <2> QED BY <2>1, <2>2
<1>7. /\ \A p \in DOMAIN c :
           /\ p \in DOMAIN intended' <=> c[p] # None
           /\ p \in DOMAIN intended' => intended'[p] = c[p]
      /\ SameOutside(intended, intended', DOMAIN c)
  BY <1>1 DEF MergePartial, SameOutside
<1>8. MemoryProgress'
  BY <1>1, <1>2, <1>6, <1>7 DEF MemoryProgress, SameOutside, NginxStage
<1>9. ASSUME normal' PROVE MachineProgress'
  <2>1. normal /\ PortsAgree(config) /\ PortsAgree(c)
    BY <1>1, <1>9
  <2>2. /\ \A p \in DOMAIN intended \ DOMAIN c :
             p \in DOMAIN netns /\ NetworkInPlace(netns[p], WithListenPort(intended[p], p))
        /\ DOMAIN netns \subseteq DOMAIN intended \cup DOMAIN c
    <3>1. CASE chain = "live"
      BY <1>1, <2>1, <3>1 DEF IInv, InSync, Promised, Quiescent, InPlace
    <3>2. CASE chain # "live"
      BY <1>1, <1>5, <2>1, <3>2
      DEF IInv, Progress, ChainInv, MachineProgress, PlaceProgress, SurplusProgress
    <3> QED BY <3>1, <3>2
  <2>3. PortsProgress'
    BY <1>1, <2>1 DEF PortsProgress, PortsAgree
  <2>4. PlaceProgress'
    BY <1>1, <1>2, <1>7, <2>2 DEF PlaceProgress, SameOutside
  <2>5. SurplusProgress'
    BY <1>1, <1>2, <1>7, <2>2 DEF SurplusProgress, SameOutside
  <2>6. StageProgress'
    BY <1>1 DEF StageProgress, NetworkStage
  <2> QED BY <2>3, <2>4, <2>5, <2>6 DEF MachineProgress
<1> QED BY <1>8, <1>9

\* InPlace is about the machine and a configuration only.
LEMMA InPlaceFrame ==
    ASSUME UNCHANGED <<bridge, netns, disk, nginx, intended>>
    PROVE  InPlace(intended)' <=> InPlace(intended)
BY DEF InPlace, ForwardingOf

\* Death, restart and startup().
LEMMA SyncFaults ==
    ASSUME IInv, TypeInv', Die \/ Restart \/ ContainerRestart \/ startup
    PROVE  IInv'
<1>1. ASSUME Quiescent, Quiescent', pc' = "idle" => chain' # "dirty",
             ChainInv', UNCHANGED <<bridge, netns, disk, nginx, intended, normal>>,
             chain' \in {"orphan", "broken"},
             chain' = "orphan" => chain \in {"live", "orphan"}
      PROVE  IInv'
  <2>1. ~Believed'
    BY <1>1 DEF Believed
  <2>2. InSync'
    BY <1>1, InPlaceFrame DEF IInv, InSync, Promised
  <2>3. RememberedAsIntended'
    BY <1>1 DEF RememberedAsIntended
  <2> QED BY <1>1, <2>1, <2>2, <2>3 DEF IInv, Progress
<1>2. ASSUME pc' \in {"down", "startup"}, chain' = "broken", pc' = "startup" => kind' = "startup"
      PROVE  IInv'
  BY <1>2
  DEF IInv, ChainInv, Progress, Believed, InSync, Promised, RememberedAsIntended, Quiescent
<1>3. CASE Die
  <2>1. CASE chain' = "broken"
    BY <1>2, <1>3, <2>1 DEF Die, Killed
  <2>2. CASE chain' # "broken"
    <3>1. /\ Quiescent /\ Quiescent' /\ pc' = "down" /\ chain' = "orphan"
          /\ chain \in {"live", "orphan"}
      BY <1>3, <2>2 DEF Die, Killed, Quiescent
    <3>2. ChainInv'
      BY <3>1 DEF ChainInv, Quiescent
    <3> QED BY <1>1, <1>3, <3>1, <3>2 DEF Die, machineVars
  <2> QED BY <2>1, <2>2
<1>4. CASE Restart
  <2>1. /\ pc = "down" /\ Quiescent /\ Quiescent' /\ pc' = "startup" /\ kind' = "startup"
        /\ chain' = chain /\ chain \in {"orphan", "broken"}
    BY <1>4 DEF Restart, Launch, Quiescent, IInv, ChainInv
  <2>2. ChainInv'
    BY <2>1 DEF ChainInv, Quiescent
  <2> QED BY <1>1, <1>4, <2>1, <2>2 DEF Restart, machineVars
<1>5. CASE ContainerRestart
  BY <1>2, <1>5 DEF ContainerRestart, Launch
<1>6. CASE startup
  <2>1. /\ pc = "startup" /\ kind = "startup" /\ kind' = "startup" /\ chain' = chain
        /\ chain \in {"orphan", "broken"} /\ Quiescent
        /\ UNCHANGED <<bridge, netns, disk, nginx, intended, normal>>
    BY <1>6 DEF startup, Goto, machineVars, Quiescent, IInv, ChainInv
  <2>2. CASE disk.module.state # "absent"
    <3>1. pc' = "idle" /\ Quiescent'
      BY <1>6, <2>2 DEF startup, Goto, Quiescent
    <3>2. ChainInv'
      BY <2>1, <3>1 DEF ChainInv, Quiescent
    <3> QED BY <1>1, <2>1, <3>1, <3>2
  <2>3. CASE disk.module.state = "absent"
    <3>1. pc' = "module" /\ ~Quiescent'
      BY <1>6, <2>3 DEF startup, Goto, Quiescent
    <3>2. ~(chain = "orphan" /\ normal)
      <4>1. InPlace(intended) => disk.module.state = "written"
        BY DEF InPlace, Written
      <4> QED BY <2>1, <2>3, <4>1 DEF IInv, InSync, Promised
    <3>3. ChainInv'
      BY <2>1, <3>1, <3>2 DEF ChainInv, Quiescent, NginxStage
    <3> QED
      BY <2>1, <3>1, <3>3
      DEF IInv, Progress, Believed, InSync, Promised, RememberedAsIntended, Quiescent
  <2> QED BY <2>2, <2>3
<1> QED BY <1>3, <1>4, <1>5, <1>6

\* Every step keeps the inductive invariant.
LEMMA SyncNext == IInv /\ [Next]_vars => IInv'
<1> SUFFICES ASSUME IInv, [Next]_vars PROVE IInv'
  OBVIOUS
<1>0. TypeInv'
  BY TypeNext DEF IInv
<1>1. CASE UNCHANGED coreVars
  <2>1. UNCHANGED <<pc, kind, req, todo, seen, config, bridge, netns, disk, nginx,
                    intended, chain, normal>>
    BY <1>1 DEF coreVars, taskVars, historyVars
  <2>2. ChainInv' /\ RememberedAsIntended' /\ InSync'
    BY <2>1, InPlaceFrame
    DEF IInv, ChainInv, RememberedAsIntended, InSync, Promised, Quiescent
  <2>3. Progress'
    BY <2>1
    DEF IInv, Progress, Believed, Quiescent, MemoryProgress, Open, MachineProgress,
        PortsProgress, PortsAgree, PlaceProgress, SurplusProgress, StageProgress,
        Current, Target
  <2> QED BY <1>0, <2>2, <2>3 DEF IInv
<1>2. CASE Request
  BY <1>0, <1>2, SyncApply, SyncApplyPartial, SyncFaults DEF Request, Shutdown
<1>3. CASE Handle
  BY <1>0, <1>3, SyncPrologue, SyncRemove, SyncStage, SyncForwarding, SyncFiles,
     SyncReload, SyncFaults
  DEF Handle, PanicNoAddress
<1>4. CASE Fault
  BY <1>0, <1>4, SyncFaults DEF Fault, Crash
<1> QED BY <1>1, <1>2, <1>3, <1>4, StepCases

\* An Ok can be relied upon: whatever failed or died before, once a full Apply
\* and the partial ones after it are answered Ok, the bridge, the namespaces,
\* the NAT tables, both files and the running NGINX are exactly what the
\* manager's copy of the configuration asks for (apply, apply_partial).
THEOREM AnswersCanBeTrusted == Spec => []InSync
<1>1. IInv => InSync
  BY DEF IInv
<1> QED BY SyncInit, SyncNext, <1>1, PTL DEF Spec

\* The daemon's memory, updated entry by entry in apply_partial(), is the
\* manager's copy whenever the chain of Ok answers is unbroken.
THEOREM MemoryIsManagersCopy == Spec => []RememberedAsIntended
<1>1. IInv => RememberedAsIntended
  BY DEF IInv
<1> QED BY SyncInit, SyncNext, <1>1, PTL DEF Spec

=============================================================================
