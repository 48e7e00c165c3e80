------------------------ MODULE GatewayRoutesProofs -------------------------
(***************************************************************************)
(* What traffic sees of an apply, for every set of configurations: that    *)
(* every host is led to its backends (RoutesExact), that a partial apply   *)
(* leaves the others' routes alone (BystandersUndisturbed), that the       *)
(* second of two equal applies sets back no more than endpoints of peers   *)
(* that have moved (ReapplySetsBackOnly), and that Gateway implements      *)
(* GatewayContract.                                                        *)
(*                                                                         *)
(* RoutesInv is inductive together with IInv.  It adds what holds in the   *)
(* middle of a handler: of the answer, of an apply of what is in place     *)
(* already, and of the part of NGINX that a partial apply may not disturb. *)
(***************************************************************************)
EXTENDS GatewaySyncProofs

\* The manager waits for an answer exactly while one of its requests is being
\* handled; a daemon that starts answers nothing; what a repetition can still
\* fulfil was answered with an error.
ReplyInv ==
    /\ result = "pending" <=> ~Quiescent /\ kind # "startup"
    /\ pc \in {"down", "startup"} => result = "none"
    /\ ~Quiescent /\ kind = "startup" => result = "none"
    /\ pc = "idle" /\ chain = "dirty" => result = "err"

\* An apply() of what is in place already finds nothing to change.
RedoInv ==
    redo =>
        /\ ~Quiescent
        /\ kind = "apply"
        /\ seen \subseteq DOMAIN intended
        /\ bridge = BridgeUp
        /\ DOMAIN netns = DOMAIN intended
        /\ \A p \in DOMAIN intended : NetworkInPlace(netns[p], WithListenPort(intended[p], p))
        /\ nginx = ForwardingOf(intended)

\* The entries of a forwarding that lead to none of the ports in S.
EntriesBeside(F, S) == { e \in F : \A p \in S : e[3].ip # veth_addr(p) }

\* While a partial apply that is believed runs, and after it failed, NGINX
\* serves the networks that it does not name as intended.
BystanderInv ==
    Believed /\ normal /\ kind = "partial" =>
        /\ bridge = BridgeUp
        /\ EntriesBeside(nginx, DOMAIN req) = EntriesBeside(ForwardingOf(intended), DOMAIN req)

\* The manager's copy consists of networks it has asked for.
RequestedInv ==
    \A p \in DOMAIN intended :
        \E c \in Configs \cup Partials : p \in DOMAIN c /\ c[p] = intended[p]

RoutesInv == ReplyInv /\ RedoInv /\ BystanderInv /\ RequestedInv

-----------------------------------------------------------------------------
\* A route goes through an entry of NGINX and a namespace.
LEMMA RouteTaken ==
    ASSUME NEW r
    PROVE  r \in Routes <=> \E e \in nginx, p \in DOMAIN netns : r \in RoutesVia(e, p)
<1>1. ASSUME r \in Routes PROVE \E e \in nginx, p \in DOMAIN netns : r \in RoutesVia(e, p)
  BY <1>1 DEF Routes
<1>2. ASSUME NEW e \in nginx, NEW p \in DOMAIN netns, r \in RoutesVia(e, p) PROVE r \in Routes
  <2> DEFINE S == { RoutesVia(d, q) : d \in nginx, q \in DOMAIN netns }
  <2>1. RoutesVia(e, p) \in S
    OBVIOUS
  <2>2. Routes = UNION S
    BY DEF Routes
  <2> HIDE DEF S
  <2> QED BY <1>2, <2>1, <2>2
<1> QED BY <1>1, <1>2

\* When the machine is what the manager's copy asks for, NGINX, the bridge and
\* the NAT tables lead every host to the backends of its proxy tables.
LEMMA InPlaceRoutes ==
    ASSUME Routable, TypeOK, RequestedInv, InPlace(intended)
    PROVE  Routes = RoutesOf(intended)
<1> DEFINE net(p) == WithListenPort(intended[p], p)
<1>1. ASSUME NEW p \in DOMAIN intended
      PROVE  /\ p \in U16 /\ p # 1
             /\ net(p) \in NetworkState /\ net(p).listen_port = p
             /\ net(p).proxy = intended[p].proxy
             /\ Cardinality(Slots(net(p))) <= 65536
             /\ Reachable(p)
             /\ netns[p].nat = port_config(net(p))
  <2>1. p \in U16 /\ intended[p] \in NetworkState
    BY DEF TypeOK, IsGatewayConfig
  <2>2. PICK c \in Configs \cup Partials : p \in DOMAIN c /\ c[p] = intended[p]
    BY DEF RequestedInv
  <2>3. p # 1 /\ Cardinality(Slots(intended[p])) <= 65536
    BY <2>1, <2>2, NoneAssumption DEF Routable
  <2>4. net(p) \in NetworkState /\ net(p).listen_port = p
    BY <2>1, ListenPort
  <2>5. net(p).proxy = intended[p].proxy
    BY <2>1 DEF WithListenPort, NetworkState
  <2>6. Slots(net(p)) = Slots(intended[p])
    BY <2>5 DEF Slots
  <2>7. NetworkInPlace(netns[p], net(p))
    BY DEF InPlace
  <2>8. to_config(net(p)) \in WireguardConf
    <3> HIDE DEF net
    <3> QED BY <2>4 DEF to_config, WireguardConf, NetworkState
  <2>9. port_config(net(p)) \in NatTable
    BY <2>4, <2>7, PortConfigType DEF NetworkInPlace
  <2>10. Reachable(p)
    <3> HIDE DEF net
    <3>1. netns[p].conf # None /\ netns[p].nat # None
      BY <2>7, <2>8, <2>9, NoneAssumption DEF NetworkInPlace
    <3> QED BY <2>7, <3>1 DEF NetworkInPlace, InPlace, Reachable
  <2>11. netns[p].nat = port_config(net(p))
    BY <2>7 DEF NetworkInPlace
  <2> QED BY <2>1, <2>3, <2>4, <2>5, <2>6, <2>10, <2>11
<1>2. DOMAIN netns = DOMAIN intended
      /\ nginx = Forwarding({ net(p) : p \in DOMAIN intended }, Custom)
  BY DEF InPlace, ForwardingOf
<1> HIDE DEF net
<1>3. ASSUME NEW r \in Routes PROVE r \in RoutesOf(intended)
  <2>1. PICK e \in nginx, p \in DOMAIN netns : r \in RoutesVia(e, p)
    BY RouteTaken
  <2>2. p \in DOMAIN intended /\ e[3].ip = veth_addr(p)
    BY <1>2, <2>1 DEF RoutesVia
  <2>3. PICK x \in netns[p].nat.mappings :
          /\ x.port_in = e[3].port
          /\ r = [scheme |-> e[1], host |-> e[2], port |-> p, backend |-> x.out]
    BY <2>1 DEF RoutesVia
  <2>4. e \notin CustomForwarding(Custom)
    BY <1>1, <2>2 DEF Routable
  <2>5. PICK q \in DOMAIN intended : e \in NetworkForwarding(net(q))
    BY <1>2, <2>4 DEF Forwarding
  <2>6. PICK m \in port_mappings(net(q)) :
          /\ m.url.scheme \in Scheme
          /\ e = <<m.url.scheme, m.url.host, [ip |-> veth_addr(net(q).listen_port), port |-> m.port]>>
    BY <2>5 DEF NetworkForwarding, veth_ipv4net
  <2>7. q = p
    <3>1. e[3].ip = veth_addr(q)
      BY <1>1, <2>6
    <3>2. p \in U16 /\ q \in U16 /\ veth_addr(p) = veth_addr(q)
      BY <1>1, <2>2, <3>1
    <3> QED BY <3>2, VethInjective
  <2>8. PICK o \in port_mappings(net(p)) : x.port_in = o.port /\ x.out = o.sock
    <3>1. netns[p].nat.mappings =
            { [port_in |-> y.port, out |-> y.sock] : y \in port_mappings(net(p)) }
      BY <1>1, <2>2, PortConfigMappings
    <3> QED BY <2>3, <3>1
  <2>9. o = m
    <3>1. o.port = m.port
      BY <2>3, <2>6, <2>8
    <3> QED BY <1>1, <2>2, <2>6, <2>7, <2>8, <3>1, PortNamesMapping
  <2>10. r = [scheme |-> m.url.scheme, host |-> m.url.host, port |-> p, backend |-> m.sock]
    BY <2>3, <2>6, <2>8, <2>9
  <2>11. PICK y \in ToSet(net(p).proxy) : y.url = m.url /\ m.sock \in ToSet(y.addrs)
    BY <1>1, <2>2, <2>6, <2>7, MappingsOfProxy
  <2>12. y \in ToSet(intended[p].proxy)
    BY <1>1, <2>2, <2>11
  <2> QED BY <2>2, <2>6, <2>10, <2>11, <2>12, RouteOf
<1>4. ASSUME NEW r \in RoutesOf(intended) PROVE r \in Routes
  <2>1. PICK p \in DOMAIN intended :
          \E y \in ToSet(intended[p].proxy) : \E a \in ToSet(y.addrs) :
            /\ y.url.scheme \in Scheme
            /\ r = [scheme |-> y.url.scheme, host |-> y.url.host, port |-> p, backend |-> a]
    BY DEF RoutesOf
  <2>2a. PICK y \in ToSet(intended[p].proxy) : \E a \in ToSet(y.addrs) :
          /\ y.url.scheme \in Scheme
          /\ r = [scheme |-> y.url.scheme, host |-> y.url.host, port |-> p, backend |-> a]
    BY <2>1
  <2>2. PICK a \in ToSet(y.addrs) :
          /\ y.url.scheme \in Scheme
          /\ r = [scheme |-> y.url.scheme, host |-> y.url.host, port |-> p, backend |-> a]
    BY <2>2a
  <2>3. PICK m \in port_mappings(net(p)) : m.url = y.url /\ m.sock = a
    BY <1>1, <2>2, MappingsOfProxy
  <2> DEFINE e == <<m.url.scheme, m.url.host, [ip |-> veth_addr(p), port |-> m.port]>>
  <2>4. e \in NetworkForwarding(net(p))
    BY <1>1, <2>2, <2>3 DEF NetworkForwarding, veth_ipv4net
  <2>5. e \in nginx
    BY <1>2, <2>4 DEF Forwarding
  <2>6. e[3].ip = veth_addr(p) /\ e[3].port = m.port /\ e[1] = y.url.scheme /\ e[2] = y.url.host
    BY <2>3
  <2>7. veth_addr(p) # BRIDGE_ADDR
    BY <1>1, BridgePort
  <2> DEFINE x == [port_in |-> m.port, out |-> m.sock]
  <2>8. x \in netns[p].nat.mappings
    <3>1. netns[p].nat.mappings =
            { [port_in |-> z.port, out |-> z.sock] : z \in port_mappings(net(p)) }
      BY <1>1, PortConfigMappings
    <3> QED BY <2>3, <3>1
  <2>9. x.port_in = e[3].port /\ x.out = a
    BY <2>3
  <2> HIDE DEF e, x
  <2>10. r \in RoutesVia(e, p)
    BY <1>1, <2>2, <2>6, <2>7, <2>8, <2>9 DEF RoutesVia
  <2> QED BY <1>2, <2>5, <2>10, RouteTaken
<1> QED BY <1>3, <1>4

-----------------------------------------------------------------------------
\* An apply_wireguard() that finds the interface as it should be runs no command.
LEMMA WireguardIdempotent ==
    ASSUME NEW ns \in Namespace, NEW n \in NetworkState, NetworkInPlace(ns, n)
    PROVE  WireguardDone(ns, n) = ns /\ WireguardPartial(ns, n) = {ns}
<1>0. /\ ns.wg /\ ns.mtu = n.mtu /\ ns.up = TRUE
      /\ ToSet(n.address) \subseteq ns.addr /\ ns.conf = to_config(n)
  BY DEF NetworkInPlace, Namespace
<1>1. WireguardCreated(ns) = ns
  BY <1>0 DEF WireguardCreated
<1>2. WireguardMtu(ns, n) = ns
  BY <1>0, <1>1 DEF WireguardMtu, Namespace
<1>3. ASSUME NEW i \in 0 .. Len(n.address) PROVE WireguardAddr(ns, n, i) = ns
  <2>1. n.address \in Seq(IpNet) /\ DOMAIN n.address = 1 .. Len(n.address)
    BY DEF NetworkState
  <2>2. { n.address[k] : k \in 1 .. i } \subseteq ToSet(n.address)
    BY <2>1 DEF ToSet
  <2>3. ns.addr \cup { n.address[k] : k \in 1 .. i } = ns.addr
    BY <1>0, <2>2
  <2>4. [ns EXCEPT !.up = TRUE] = ns
    BY <1>0 DEF Namespace
  <2>5. [ns EXCEPT !.addr = ns.addr] = ns
    BY DEF Namespace
  <2> QED BY <1>2, <2>3, <2>4, <2>5 DEF WireguardAddr
<1>4. Len(n.address) \in 0 .. Len(n.address)
  BY n.address \in Seq(IpNet) DEF NetworkState
<1>5. [ns EXCEPT !.conf = to_config(n)] = ns
  BY <1>0 DEF Namespace
<1> QED BY <1>1, <1>2, <1>3, <1>4, <1>5 DEF WireguardDone, WireguardPartial

\* Within a handler the request and the manager's copy stay what they are.
LEMMA HandlerFrame ==
    ASSUME [Next]_vars, ~Quiescent
    PROVE  UNCHANGED <<kind, req, intended, normal>>
<1>1. pc \notin {"idle", "down", "startup"}
  BY DEF Quiescent
<1>2. CASE UNCHANGED coreVars
  BY <1>2 DEF coreVars, taskVars, historyVars
<1>3. CASE Request
  BY <1>1, <1>3 DEF Request, apply, apply_partial, Shutdown
<1>4. CASE Fault
  BY <1>1, <1>4 DEF Fault, Crash, Die, Restart, ContainerRestart, Launch
<1>5. CASE Handle
  BY <1>5
  DEF Handle, startup, apply_bridge, netns_list, Prune, PruneDone, RemoveNetwork, apply_netns,
      apply_wireguard, apply_veth, apply_forwarding, PanicNoAddress, Die, NetworksDone,
      WriteModule, WriteSites, nginx_reload
<1> QED BY <1>2, <1>3, <1>4, <1>5, StepCases

\* The steps of a handler that change what a route goes through.
RouteStep ==
    \/ apply_bridge
    \/ \E p \in seen : Prune(p)
    \/ \E p \in todo :
        RemoveNetwork(p) \/ apply_netns(p) \/ apply_wireguard(p) \/ apply_veth(p)
            \/ apply_forwarding(p)
    \/ nginx_reload

\* All others leave it alone.
LEMMA RoutesFrame ==
    ASSUME [Next]_vars, ~Quiescent, ~RouteStep
    PROVE  UNCHANGED <<bridge, netns, nginx>>
<1>1. pc \notin {"idle", "down", "startup"}
  BY DEF Quiescent
<1>2. CASE UNCHANGED coreVars
  BY <1>2 DEF coreVars
<1>3. CASE Request
  BY <1>1, <1>3 DEF Request, apply, apply_partial, Shutdown
<1>4. CASE Fault
  BY <1>1, <1>4 DEF Fault, Crash, Die, Restart, ContainerRestart, Launch, machineVars
<1>5. CASE Handle
  BY <1>5
  DEF Handle, RouteStep, startup, netns_list, PruneDone, PanicNoAddress, Die, NetworksDone,
      WriteModule, WriteSites, machineVars
<1> QED BY <1>2, <1>3, <1>4, <1>5, StepCases

\* A full apply() of what is in place already changes nothing a connection
\* goes through, in none of its steps, complete or not.
LEMMA RedoStep ==
    ASSUME IInv, RedoInv, [Next]_vars, redo
    PROVE  UNCHANGED <<bridge, netns, nginx>>
<1>0. /\ ~Quiescent /\ kind = "apply" /\ seen \subseteq DOMAIN intended /\ bridge = BridgeUp
      /\ DOMAIN netns = DOMAIN intended /\ nginx = ForwardingOf(intended)
      /\ \A p \in DOMAIN intended : NetworkInPlace(netns[p], WithListenPort(intended[p], p))
  BY DEF RedoInv
<1>1. Believed /\ MemoryProgress /\ req = intended /\ normal
  BY <1>0 DEF Believed, IInv, Progress, MemoryProgress
<1>2. IsNetns(netns) /\ todo \subseteq DOMAIN intended
  BY <1>1 DEF IInv, TypeInv, TypeOK
<1>3. ASSUME NEW p \in todo
      PROVE  /\ req[p] # None /\ p \in DOMAIN netns
             /\ Target(p) \in NetworkState /\ Target(p).listen_port = p
             /\ netns[p] \in Namespace
             /\ NetworkInPlace(netns[p], Target(p))
  <2>1. req[p] # None
    BY <1>0, <1>1, <1>2, NoneAssumption DEF IInv, TypeInv, TypeOK, IsGatewayConfig
  <2>2. Target(p) = WithListenPort(intended[p], p) /\ Target(p).listen_port = p
    BY <1>0, <1>1, <2>1, TargetIntended
  <2>3. Target(p) \in NetworkState
    BY <2>1, TargetType DEF IInv, TypeInv
  <2> QED BY <1>0, <1>2, <2>1, <2>2, <2>3 DEF IsNetns
<1>4. CASE ~RouteStep
  BY <1>0, <1>4, RoutesFrame
<1>5. CASE apply_bridge
  BY <1>0, <1>5 DEF apply_bridge, BridgeUp
<1>6. ASSUME NEW p \in seen, Prune(p) PROVE FALSE
  BY <1>0, <1>1, <1>6 DEF Prune
<1>7. ASSUME NEW p \in todo, RemoveNetwork(p) PROVE FALSE
  BY <1>3, <1>7 DEF RemoveNetwork
<1>8. ASSUME NEW p \in todo, apply_netns(p) PROVE UNCHANGED <<bridge, netns, nginx>>
  BY <1>3, <1>8 DEF apply_netns
<1>9. ASSUME NEW p \in todo, netns' = [netns EXCEPT ![p] = netns[p]] PROVE netns' = netns
  BY <1>2, <1>9 DEF IsNetns
<1>10. ASSUME NEW p \in todo, apply_wireguard(p) PROVE UNCHANGED <<bridge, netns, nginx>>
  <2>1. WireguardDone(netns[p], Target(p)) = netns[p]
        /\ WireguardPartial(netns[p], Target(p)) = {netns[p]}
    BY <1>3, WireguardIdempotent
  <2>2. netns' = [netns EXCEPT ![p] = netns[p]] /\ UNCHANGED <<bridge, nginx>>
    BY <1>3, <1>10, <2>1 DEF apply_wireguard
  <2> QED BY <1>9, <2>2
<1>11. ASSUME NEW p \in todo, apply_veth(p) PROVE UNCHANGED <<bridge, netns, nginx>>
  <2>1. netns[p].veth = VethUp
    BY <1>3 DEF NetworkInPlace
  <2>2. netns' = [netns EXCEPT ![p].veth = VethUp] /\ UNCHANGED <<bridge, nginx>>
    <3>1. PICK k : /\ netns' = [netns EXCEPT ![p].veth = k]
                   /\ k = VethUp \/ k \in netns[p].veth .. VethUp
      BY <1>3, <1>11 DEF apply_veth
    <3>2. k = VethUp
      BY <2>1, <3>1 DEF VethUp
    <3> QED BY <1>11, <3>1, <3>2 DEF apply_veth
  <2>3. [netns[p] EXCEPT !.veth = VethUp] = netns[p]
    BY <1>3, <2>1 DEF Namespace
  <2>4. netns' = [netns EXCEPT ![p] = netns[p]]
    BY <2>2, <2>3
  <2> QED BY <1>9, <2>2, <2>4
<1>12. ASSUME NEW p \in todo, apply_forwarding(p) PROVE UNCHANGED <<bridge, netns, nginx>>
  <2>1. netns[p].nat = port_config(Target(p))
    BY <1>3 DEF NetworkInPlace
  <2>2. [netns[p] EXCEPT !.nat = port_config(Target(p))] = netns[p]
    BY <1>3, <2>1 DEF Namespace
  <2>3. /\ netns' = [netns EXCEPT ![p].nat = port_config(Target(p))] \/ netns' = netns
        /\ UNCHANGED <<bridge, nginx>>
    BY <1>3, <1>12 DEF apply_forwarding
  <2>4. ASSUME netns' = [netns EXCEPT ![p].nat = port_config(Target(p))] PROVE netns' = netns
    <3>1. netns' = [netns EXCEPT ![p] = netns[p]]
      BY <2>2, <2>4
    <3> QED BY <1>9, <3>1
  <2> QED BY <2>3, <2>4
<1>13. CASE nginx_reload
  <2>1. pc = "reload" /\ UNCHANGED <<bridge, netns>>
        /\ nginx' \in {nginx, disk.module.entries \cup disk.sites.entries}
    BY <1>13 DEF nginx_reload
  <2>2. todo = {}
    BY <1>1, <2>1 DEF MemoryProgress, NginxStage
  <2>3. NginxTarget = ForwardingOf(intended) /\ NginxTarget \subseteq Entry
    BY <1>0, <1>1, <2>2, TargetForwarding, TargetEntries DEF IInv, TypeInv
  <2>4. disk.module.entries \cup disk.sites.entries = NginxTarget
    BY <2>1, <2>3, TwoSchemes DEF IInv, TypeInv, FilesInv, Written
  <2> QED BY <1>0, <2>1, <2>3, <2>4
<1> QED
  BY <1>4, <1>5, <1>6, <1>7, <1>8, <1>10, <1>11, <1>12, <1>13 DEF RouteStep

-----------------------------------------------------------------------------
\* A partial apply that is believed touches the namespaces it names only, and
\* makes NGINX serve nothing but the manager's copy.
LEMMA PartialStep ==
    ASSUME IInv, BystanderInv, [Next]_vars, ~Quiescent, kind = "partial",
           chain \in {"live", "dirty"}, normal
    PROVE  /\ bridge' = bridge
           /\ SameOutside(netns, netns', DOMAIN req)
           /\ nginx' \in {nginx, ForwardingOf(intended)}
<1>0. Believed /\ bridge = BridgeUp /\ MemoryProgress /\ todo \subseteq DOMAIN req
  BY DEF Believed, BystanderInv, IInv, Progress, TypeInv, TypeOK
<1>1. CASE ~RouteStep
  BY <1>1, RoutesFrame, SameRefl
<1>2. CASE apply_bridge
  BY <1>0, <1>2, SameRefl DEF apply_bridge, BridgeUp
<1>3. ASSUME NEW p \in seen, Prune(p) PROVE FALSE
  BY <1>3 DEF Prune, IInv, ChainInv
<1>4. ASSUME NEW p \in todo, RemoveNetwork(p)
      PROVE  UNCHANGED <<bridge, nginx>> /\ SameOutside(netns, netns', DOMAIN req)
  BY <1>0, <1>4 DEF RemoveNetwork, SameOutside, Without
<1>5. ASSUME NEW p \in todo, req[p] # None PROVE Target(p).listen_port = p
  BY <1>0, <1>5, TargetIntended
<1>6. ASSUME NEW p \in todo, NEW ns, netns' = [netns EXCEPT ![p] = ns]
      PROVE  SameOutside(netns, netns', DOMAIN req)
  BY <1>0, <1>6 DEF SameOutside
<1>7. ASSUME NEW p \in todo, apply_netns(p)
      PROVE  UNCHANGED <<bridge, nginx>> /\ SameOutside(netns, netns', DOMAIN req)
  BY <1>0, <1>5, <1>7 DEF apply_netns, SameOutside, With
<1>8. ASSUME NEW p \in todo, pc \in NetworkStage, Current(p) PROVE req[p] # None
  BY <1>8 DEF IInv, TypeInv, StageInv
<1>9. ASSUME NEW p \in todo, apply_wireguard(p)
      PROVE  UNCHANGED <<bridge, nginx>> /\ SameOutside(netns, netns', DOMAIN req)
  <2>1. Target(p).listen_port = p
    BY <1>5, <1>8, <1>9 DEF apply_wireguard, NetworkStage
  <2> QED BY <1>6, <1>9, <2>1 DEF apply_wireguard
<1>10. ASSUME NEW p \in todo, apply_veth(p)
       PROVE  UNCHANGED <<bridge, nginx>> /\ SameOutside(netns, netns', DOMAIN req)
  <2>1. Target(p).listen_port = p
    BY <1>5, <1>8, <1>10 DEF apply_veth, NetworkStage
  <2>2. PICK k : netns' = [netns EXCEPT ![p].veth = k]
    BY <1>10, <2>1 DEF apply_veth
  <2>3. netns' = [netns EXCEPT ![p] = [netns[p] EXCEPT !.veth = k]]
    BY <2>2
  <2> QED BY <1>6, <1>10, <2>3 DEF apply_veth
<1>11. ASSUME NEW p \in todo, apply_forwarding(p)
       PROVE  UNCHANGED <<bridge, nginx>> /\ SameOutside(netns, netns', DOMAIN req)
  <2>1. Target(p).listen_port = p
    BY <1>5, <1>8, <1>11 DEF apply_forwarding, NetworkStage
  <2>2. CASE netns' = netns
    BY <1>11, <2>2, SameRefl DEF apply_forwarding
  <2>3. CASE netns' = [netns EXCEPT ![p].nat = port_config(Target(p))]
    <3>1. netns' = [netns EXCEPT ![p] = [netns[p] EXCEPT !.nat = port_config(Target(p))]]
      BY <2>3
    <3> QED BY <1>6, <1>11, <3>1 DEF apply_forwarding
  <2> QED BY <1>11, <2>1, <2>2, <2>3 DEF apply_forwarding
<1>12. CASE nginx_reload
  <2>1. pc = "reload" /\ UNCHANGED <<bridge, netns>>
        /\ nginx' \in {nginx, disk.module.entries \cup disk.sites.entries}
    BY <1>12 DEF nginx_reload
  <2>2. todo = {}
    BY <1>0, <2>1 DEF MemoryProgress, NginxStage
  <2>3. NginxTarget = ForwardingOf(intended) /\ NginxTarget \subseteq Entry
    BY <1>0, <2>2, TargetForwarding, TargetEntries DEF IInv, TypeInv
  <2>4. disk.module.entries \cup disk.sites.entries = NginxTarget
    BY <2>1, <2>3, TwoSchemes DEF IInv, TypeInv, FilesInv, Written
  <2> QED BY <2>1, <2>3, <2>4, SameRefl
<1> QED
  BY <1>1, <1>2, <1>3, <1>4, <1>7, <1>9, <1>10, <1>11, <1>12 DEF RouteStep

\* The NGINX entries that lead to no port of S depend on the networks of the
\* other ports only.
LEMMA ForwardingBeside ==
    ASSUME NEW c, IsGatewayConfig(c), NEW d, IsGatewayConfig(d), NEW S, S \subseteq U16,
           SameOutside(c, d, S)
    PROVE  EntriesBeside(ForwardingOf(c), S) \subseteq EntriesBeside(ForwardingOf(d), S)
<1> DEFINE net(f, p) == WithListenPort(f[p], p)
<1> SUFFICES ASSUME NEW e \in EntriesBeside(ForwardingOf(c), S) PROVE e \in ForwardingOf(d)
  BY DEF EntriesBeside
<1>1. e \in ForwardingOf(c) /\ \A p \in S : e[3].ip # veth_addr(p)
  BY DEF EntriesBeside
<1>2. ForwardingOf(d) = (UNION { NetworkForwarding(n) : n \in { net(d, p) : p \in DOMAIN d } })
                          \cup CustomForwarding(Custom)
  BY DEF ForwardingOf, Forwarding
<1>3. CASE e \in CustomForwarding(Custom)
  BY <1>2, <1>3
<1>4. CASE e \notin CustomForwarding(Custom)
  <2>1. PICK p \in DOMAIN c : e \in NetworkForwarding(net(c, p))
    BY <1>1, <1>4 DEF ForwardingOf, Forwarding
  <2>2. p \in U16 /\ net(c, p).listen_port = p
    BY ListenPort DEF IsGatewayConfig
  <2>3. e[3].ip = veth_addr(p)
    <3> HIDE DEF net
    <3> QED BY <2>1, <2>2 DEF NetworkForwarding, veth_ipv4net
  <2>4. p \notin S
    BY <1>1, <2>3
  <2>5. p \in DOMAIN d /\ net(d, p) = net(c, p)
    BY <2>4 DEF SameOutside
  <2> HIDE DEF net
  <2> QED BY <1>2, <2>1, <2>5
<1> QED BY <1>3, <1>4

\* Then the routes into the other namespaces are the same.
LEMMA RoutesBeside ==
    ASSUME TypeOK, TypeOK', NEW S, S \subseteq U16, bridge' = bridge,
           SameOutside(netns, netns', S),
           EntriesBeside(nginx, S) = EntriesBeside(nginx', S)
    PROVE  { r \in Routes' : r.port \notin S } = { r \in Routes : r.port \notin S }
<1>0. DOMAIN netns \subseteq U16 /\ DOMAIN netns' \subseteq U16
  BY DEF TypeOK, IsNetns
<1>1. ASSUME NEW e, NEW p \in U16, NEW r, r \in RoutesVia(e, p) \/ r \in RoutesVia(e, p)'
      PROVE  r.port = p /\ e[3].ip = veth_addr(p)
  BY <1>1 DEF RoutesVia
<1>2. ASSUME NEW e, NEW p \in U16 \ S, e[3].ip = veth_addr(p)
      PROVE  e \in nginx <=> e \in nginx'
  <2>1. \A q \in S : e[3].ip # veth_addr(q)
    BY <1>2, VethInjective
  <2> QED BY <2>1 DEF EntriesBeside
<1>3. ASSUME NEW e, NEW p \in U16 \ S, p \in DOMAIN netns
      PROVE  RoutesVia(e, p)' = RoutesVia(e, p)
  <2>1. netns'[p] = netns[p]
    BY <1>3 DEF SameOutside
  <2> QED BY <2>1 DEF RoutesVia, Reachable
<1>4. \A p : p \notin S => (p \in DOMAIN netns <=> p \in DOMAIN netns')
  BY DEF SameOutside
<1>5. ASSUME NEW r
      PROVE  r \in Routes' <=> \E e \in nginx', p \in DOMAIN netns' : r \in RoutesVia(e, p)'
  <2> DEFINE T == { RoutesVia(e, p)' : e \in nginx', p \in DOMAIN netns' }
  <2>1. Routes' = UNION T
    BY DEF Routes
  <2>2. \A e \in nginx', p \in DOMAIN netns' : RoutesVia(e, p)' \in T
    OBVIOUS
  <2>3. \A U \in T : \E e \in nginx', p \in DOMAIN netns' : U = RoutesVia(e, p)'
    OBVIOUS
  <2> HIDE DEF T
  <2> QED BY <2>1, <2>2, <2>3
<1>6. ASSUME NEW r \in Routes', r.port \notin S PROVE r \in Routes
  <2>1. PICK e \in nginx', p \in DOMAIN netns' : r \in RoutesVia(e, p)'
    BY <1>5
  <2>2. p \in U16 \ S /\ e[3].ip = veth_addr(p)
    BY <1>0, <1>1, <1>6, <2>1
  <2>3. e \in nginx /\ p \in DOMAIN netns
    BY <1>2, <1>4, <2>1, <2>2
  <2>4. r \in RoutesVia(e, p)
    BY <1>3, <2>1, <2>2, <2>3
  <2> QED BY <2>3, <2>4, RouteTaken
<1>7. ASSUME NEW r \in Routes, r.port \notin S PROVE r \in Routes'
  <2>1. PICK e \in nginx, p \in DOMAIN netns : r \in RoutesVia(e, p)
    BY RouteTaken
  <2>2. p \in U16 \ S /\ e[3].ip = veth_addr(p)
    BY <1>0, <1>1, <1>7, <2>1
  <2>3. e \in nginx' /\ p \in DOMAIN netns'
    BY <1>2, <1>4, <2>1, <2>2
  <2>4. r \in RoutesVia(e, p)'
    BY <1>3, <2>1, <2>2
  <2> QED BY <1>5, <2>3, <2>4
<1> QED BY <1>6, <1>7

-----------------------------------------------------------------------------
\* A handler goes on, fails, dies, or comes to its end with the reload.
LEMMA HandlerControl ==
    ASSUME [Next]_vars, ~Quiescent
    PROVE  \/ ~Quiescent' /\ UNCHANGED <<result, chain, redo>>
           \/ Abort \/ Killed
           \/ nginx_reload /\ Finish
<1>1. pc \notin {"idle", "down", "startup"}
  BY DEF Quiescent
<1>2. CASE UNCHANGED coreVars
  BY <1>2 DEF coreVars, taskVars, historyVars, Quiescent
<1>3. CASE Request
  BY <1>1, <1>3 DEF Request, apply, apply_partial, Shutdown
<1>4. CASE Fault
  BY <1>1, <1>4 DEF Fault, Crash, Die, Restart, ContainerRestart, Launch
<1>5. ASSUME NEW l, Goto(l), l \notin {"idle", "down", "startup"}
      PROVE  ~Quiescent' /\ UNCHANGED <<result, chain, redo>>
  BY <1>5 DEF Goto, Quiescent
<1>6. CASE Handle
  BY <1>1, <1>5, <1>6
  DEF Handle, startup, apply_bridge, netns_list, Prune, PruneDone, RemoveNetwork, apply_netns,
      apply_wireguard, apply_veth, apply_forwarding, PanicNoAddress, Die, NetworksDone,
      WriteModule, WriteSites, nginx_reload, Stop
<1> QED BY <1>2, <1>3, <1>4, <1>6, StepCases

\* Between two handlers there are requests, deaths and restarts.
LEMMA QuiescentControl ==
    ASSUME [Next]_vars, Quiescent
    PROVE  \/ UNCHANGED coreVars
           \/ \E c \in Configs : apply(c)
           \/ \E c \in Partials : apply_partial(c)
           \/ startup
           \/ pc # "down" /\ Die
           \/ Restart \/ ContainerRestart
<1>1. CASE Handle
  BY <1>1
  DEF Handle, startup, apply_bridge, netns_list, Prune, PruneDone, RemoveNetwork, apply_netns,
      apply_wireguard, apply_veth, apply_forwarding, PanicNoAddress, NetworksDone,
      WriteModule, WriteSites, nginx_reload, Quiescent
<1>2. CASE Request
  BY <1>2 DEF Request, Shutdown
<1>3. CASE Fault
  BY <1>3 DEF Fault, Crash
<1> QED BY <1>1, <1>2, <1>3, StepCases

\* A request is answered once, when its handler in gateway.rs returns, and not
\* at all by a daemon that dies in it.
LEMMA ReplyNext ==
    ASSUME IInv, ReplyInv, [Next]_vars
    PROVE  ReplyInv'
<1>0. kind \in {"startup", "apply", "partial"}
  BY DEF IInv, TypeInv, TypeOK
<1>1. CASE ~Quiescent
  <2>0. UNCHANGED kind
    BY <1>1, HandlerFrame
  <2>1. CASE ~Quiescent' /\ UNCHANGED <<result, chain, redo>>
    BY <1>1, <2>0, <2>1 DEF ReplyInv, Quiescent
  <2>2. CASE Abort
    BY <1>0, <1>1, <2>0, <2>2 DEF ReplyInv, Abort, Quiescent
  <2>3. CASE Killed
    BY <2>3 DEF ReplyInv, Killed, Quiescent
  <2>4. CASE Finish
    BY <1>1, <2>0, <2>4 DEF ReplyInv, Finish, Quiescent
  <2> QED BY <1>1, <2>1, <2>2, <2>3, <2>4, HandlerControl
<1>2. CASE Quiescent
  <2>1. CASE UNCHANGED coreVars
    BY <2>1 DEF coreVars, taskVars, historyVars, ReplyInv, Quiescent
  <2>2. ASSUME NEW c, apply(c) \/ apply_partial(c) PROVE ReplyInv'
    BY <2>2 DEF apply, apply_partial, ReplyInv, Quiescent
  <2>3. CASE startup
    BY <2>3 DEF startup, Goto, ReplyInv, Quiescent, IInv, ChainInv
  <2>4. CASE Die
    BY <2>4 DEF Die, Killed, ReplyInv, Quiescent
  <2>5. CASE Restart \/ ContainerRestart
    BY <2>5 DEF Restart, ContainerRestart, Launch, ReplyInv, Quiescent
  <2> QED BY <1>2, <2>1, <2>2, <2>3, <2>4, <2>5, QuiescentControl
<1> QED BY <1>1, <1>2

\* The manager's copy is the last full request, with later partial ones merged
\* into it, so that each of its networks stems from one of them.
LEMMA RequestedNext ==
    ASSUME IInv, RequestedInv, [Next]_vars
    PROVE  RequestedInv'
<1>1. CASE intended' = intended
  BY <1>1 DEF RequestedInv
<1>2. ASSUME NEW c \in Configs, apply(c) PROVE RequestedInv'
  BY <1>2 DEF apply, RequestedInv
<1>3. ASSUME NEW c \in Partials, apply_partial(c) PROVE RequestedInv'
  BY <1>3 DEF apply_partial, MergePartial, RequestedInv
<1>4. CASE ~Quiescent
  BY <1>1, <1>4, HandlerFrame
<1>5. CASE Quiescent
  BY <1>1, <1>2, <1>3, <1>5, QuiescentControl
  DEF coreVars, historyVars, startup, Die, Restart, ContainerRestart
<1> QED BY <1>4, <1>5

\* A repeated apply() begins with everything in place, and none of its steps
\* takes anything away.
LEMMA RedoNext ==
    ASSUME IInv, RedoInv, [Next]_vars
    PROVE  RedoInv'
<1> SUFFICES ASSUME redo' PROVE RedoInv'
  BY DEF RedoInv
<1>1. CASE ~Quiescent
  <2>1. ~Quiescent' /\ redo
    BY <1>1, HandlerControl DEF Abort, Killed, Finish
  <2>2. UNCHANGED <<bridge, netns, nginx, kind, req, intended, normal>>
    BY <1>1, <2>1, RedoStep, HandlerFrame
  <2>3. seen' \subseteq seen \cup DOMAIN netns
    <3>1. CASE Handle
      BY <3>1
      DEF Handle, startup, apply_bridge, netns_list, Prune, PruneDone, RemoveNetwork, apply_netns,
          apply_wireguard, apply_veth, apply_forwarding, PanicNoAddress, Die, NetworksDone,
          WriteModule, WriteSites, nginx_reload
    <3>2. CASE Request \/ Fault
      BY <1>1, <3>2
      DEF Request, apply, apply_partial, Shutdown, Fault, Crash, Die, Restart, ContainerRestart,
          Launch, Quiescent
    <3>3. CASE UNCHANGED coreVars
      BY <3>3 DEF coreVars, taskVars
    <3> QED BY <3>1, <3>2, <3>3, StepCases
  <2>4. ForwardingOf(intended)' = ForwardingOf(intended)
    BY <2>2 DEF ForwardingOf
  <2> QED BY <2>1, <2>2, <2>3, <2>4 DEF RedoInv
<1>2. CASE Quiescent
  <2>1. ~redo
    BY <1>2 DEF RedoInv
  <2>2. PICK c \in Configs : apply(c)
    BY <1>2, <2>1, QuiescentControl
    DEF coreVars, historyVars, apply_partial, startup, Goto, Die, Killed, Restart, ContainerRestart, Launch
  <2>3. chain \in {"live", "orphan"} /\ normal /\ c = intended
    BY <2>2 DEF apply
  <2>4. InPlace(intended) /\ UNCHANGED <<bridge, netns, nginx, intended>>
    BY <1>2, <2>2, <2>3 DEF IInv, InSync, Promised, apply, machineVars
  <2>5. ForwardingOf(intended)' = ForwardingOf(intended)
    BY <2>4 DEF ForwardingOf
  <2>6. ~Quiescent' /\ kind' = "apply" /\ seen' = {}
    BY <2>2 DEF apply, Quiescent
  <2> QED BY <2>4, <2>5, <2>6 DEF RedoInv, InPlace
<1> QED BY <1>1, <1>2

\* What a partial apply finds in NGINX, and leaves there until its reload, is
\* the manager's copy beside the ports it names.
LEMMA BystanderNext ==
    ASSUME IInv, IInv', BystanderInv, [Next]_vars
    PROVE  BystanderInv'
<1> SUFFICES ASSUME Believed', normal', kind' = "partial"
             PROVE  /\ bridge' = BridgeUp
                    /\ EntriesBeside(nginx', DOMAIN req') = EntriesBeside(ForwardingOf(intended)', DOMAIN req')
  BY DEF BystanderInv, EntriesBeside
<1>1. CASE ~Quiescent
  <2>0. UNCHANGED <<kind, req, intended, normal>>
    BY <1>1, HandlerFrame
  <2>1. chain \in {"live", "dirty"}
    BY <1>1, <2>0, HandlerControl DEF Believed, Quiescent, Abort, Killed, Finish
  <2>2. Believed
    BY <1>1, <2>0, <2>1 DEF Believed
  <2>3. /\ bridge = BridgeUp
        /\ EntriesBeside(nginx, DOMAIN req) = EntriesBeside(ForwardingOf(intended), DOMAIN req)
    BY <2>0, <2>2 DEF BystanderInv
  <2>4. bridge' = bridge /\ nginx' \in {nginx, ForwardingOf(intended)}
    BY <1>1, <2>0, <2>1, PartialStep
  <2>5. ForwardingOf(intended)' = ForwardingOf(intended)
    BY <2>0 DEF ForwardingOf
  <2> QED BY <2>0, <2>3, <2>4, <2>5
<1>2. CASE Quiescent /\ Quiescent'
  <2>1. /\ pc' = "idle" /\ chain' = "dirty"
    BY <1>2 DEF Believed
  <2>2. UNCHANGED <<pc, kind, req, intended, normal, chain, bridge, nginx>>
    BY <1>2, <2>1, QuiescentControl
    DEF coreVars, taskVars, machineVars, historyVars, apply, apply_partial, startup, Goto, Die, Killed,
        Restart, ContainerRestart, Launch, Quiescent, IInv, ChainInv
  <2>3. Believed
    BY <2>1, <2>2 DEF Believed
  <2>4. ForwardingOf(intended)' = ForwardingOf(intended)
    BY <2>2 DEF ForwardingOf
  <2> QED BY <2>2, <2>3, <2>4 DEF BystanderInv
<1>3. CASE Quiescent /\ ~Quiescent'
  <2>1. PICK c \in Partials : apply_partial(c)
    BY <1>3, QuiescentControl
    DEF coreVars, taskVars, apply, startup, Goto, Die, Killed, Restart, ContainerRestart, Launch,
        Quiescent, IInv, ChainInv
  <2>2. /\ pc = "idle" /\ req' = c /\ intended' = MergePartial(intended, c)
        /\ UNCHANGED <<bridge, nginx>>
        /\ normal
        /\ chain = "live" \/ (chain = "dirty" /\ DOMAIN req \subseteq DOMAIN c)
    BY <1>3, <2>1 DEF apply_partial, machineVars, Believed, Quiescent
  <2>3. /\ IsGatewayConfig(intended) /\ IsGatewayConfig(intended')
        /\ DOMAIN c \subseteq U16
    BY <2>1, PartialsAssumption DEF IInv, TypeInv, TypeOK, IsGatewayConfigPartial
  <2>4. SameOutside(intended, intended', DOMAIN c) /\ SameOutside(intended', intended, DOMAIN c)
    BY <2>2 DEF MergePartial, SameOutside
  <2>5. EntriesBeside(ForwardingOf(intended), DOMAIN c) = EntriesBeside(ForwardingOf(intended'), DOMAIN c)
    <3>1. EntriesBeside(ForwardingOf(intended), DOMAIN c)
            \subseteq EntriesBeside(ForwardingOf(intended'), DOMAIN c)
      BY <2>3, <2>4, ForwardingBeside
    <3>2. EntriesBeside(ForwardingOf(intended'), DOMAIN c)
            \subseteq EntriesBeside(ForwardingOf(intended), DOMAIN c)
      BY <2>3, <2>4, ForwardingBeside
    <3> QED BY <3>1, <3>2
  <2>6. ForwardingOf(intended)' = ForwardingOf(intended')
    BY DEF ForwardingOf
  <2>7. /\ bridge = BridgeUp
        /\ EntriesBeside(nginx, DOMAIN c) = EntriesBeside(ForwardingOf(intended), DOMAIN c)
    <3>1. CASE chain = "live"
      BY <1>3, <2>2, <3>1 DEF IInv, InSync, Promised, InPlace
    <3>2. CASE chain = "dirty"
      <4>1. Believed /\ kind = "partial"
        BY <2>2, <3>2 DEF Believed, IInv, ChainInv
      <4>2. /\ bridge = BridgeUp
            /\ EntriesBeside(nginx, DOMAIN req) = EntriesBeside(ForwardingOf(intended), DOMAIN req)
        BY <2>2, <4>1 DEF BystanderInv
      <4> QED BY <2>2, <3>2, <4>2 DEF EntriesBeside
    <3> QED BY <2>2, <3>1, <3>2
  <2> QED BY <2>2, <2>5, <2>6, <2>7
<1> QED BY <1>1, <1>2, <1>3

-----------------------------------------------------------------------------
\* The inductive invariant: IInv says how far a handler has come, RoutesInv what
\* that means for the routes.
Inv == IInv /\ RoutesInv

\* A machine on which no apply has run yet.
LEMMA RoutesInit == Init => Inv
<1> SUFFICES ASSUME Init PROVE Inv
  OBVIOUS
<1>1. IInv
  BY SyncInit
<1>2. DOMAIN EmptyConfig = {}
  BY DEF EmptyConfig
<1>3. RoutesInv
  BY <1>2 DEF Init, RoutesInv, ReplyInv, RedoInv, BystanderInv, RequestedInv, Quiescent
<1> QED BY <1>1, <1>3 DEF Inv

\* Every step of a handler of gateway.rs, a request, a death and a restart.
LEMMA RoutesNext == Inv /\ [Next]_vars => Inv'
<1> SUFFICES ASSUME Inv, [Next]_vars PROVE Inv'
  OBVIOUS
<1>1. IInv'
  BY SyncNext DEF Inv
<1>2. RoutesInv'
  BY <1>1, ReplyNext, RedoNext, BystanderNext, RequestedNext DEF Inv, RoutesInv
<1> QED BY <1>1, <1>2 DEF Inv

\* What every behaviour of the daemon keeps.
LEMMA Invariant == Spec => []Inv
BY RoutesInit, RoutesNext, PTL DEF Spec

\* A repeated apply() moves peers only where it loads a configuration again,
\* and only back.
LEMMA MovedStep ==
    ASSUME Inv, [Next]_vars, redo
    PROVE  \/ UNCHANGED moved
           \/ UNCHANGED taskVars
           \/ pc = "wireguard" /\ moved' \subseteq moved
<1>0. ~Quiescent /\ kind = "apply" /\ seen \subseteq DOMAIN intended
  BY DEF Inv, RoutesInv, RedoInv
<1>1. pc \notin {"idle", "down", "startup"}
  BY <1>0 DEF Quiescent
<1>2. req = intended /\ IsGatewayConfig(req)
  BY <1>0 DEF Believed, Inv, IInv, Progress, MemoryProgress, TypeInv, RequestInv
<1>3. \A p \in seen : ~Prune(p)
  BY <1>0, <1>2 DEF Prune
<1>4. \A p \in todo : req[p] # None
  BY <1>2, NoneAssumption DEF IsGatewayConfig, Inv, IInv, TypeInv, TypeOK
<1>5. \A p \in todo : ~RemoveNetwork(p)
  BY <1>4 DEF RemoveNetwork
<1>6. CASE Request \/ Fault
  BY <1>1, <1>6
  DEF Request, apply, apply_partial, Shutdown, Fault, Crash, Die, Restart, ContainerRestart,
      Launch, machineVars
<1>7. CASE \E p \in todo : apply_wireguard(p)
  BY <1>7 DEF apply_wireguard, SetBack
<1>8. CASE Handle /\ ~(\E p \in todo : apply_wireguard(p))
  BY <1>3, <1>5, <1>8
  DEF Handle, startup, apply_bridge, netns_list, PruneDone, apply_netns, apply_veth,
      apply_forwarding, PanicNoAddress, Die, NetworksDone, WriteModule, WriteSites,
      nginx_reload, machineVars
<1>9. CASE UNCHANGED coreVars
  BY <1>9 DEF coreVars
<1> QED BY <1>6, <1>7, <1>8, <1>9, StepCases

\* Applying the same configuration twice changes no interface, address, key, NAT
\* table or forwarding, in none of its steps, complete, failed or killed half
\* way, and by a restarted daemon too.  It does set back peers that have moved.
THEOREM SecondApplySetsBackOnly == Spec => ReapplySetsBackOnly
<1>1. Inv /\ [Next]_vars =>
        [ redo => /\ UNCHANGED <<bridge, netns, nginx>>
                  /\ \/ UNCHANGED moved
                     \/ UNCHANGED taskVars
                     \/ pc = "wireguard" /\ moved' \subseteq moved ]_vars
  BY RedoStep, MovedStep DEF Inv, RoutesInv
<1> QED BY <1>1, Invariant, PTL DEF Spec, ReapplySetsBackOnly

\* A step of a trusted apply_partial() keeps the routes into the networks that
\* it does not name: their namespaces are untouched, and NGINX either is, too,
\* or is given the manager's copy, which has the same entries for them.
LEMMA BesideStep ==
    ASSUME Inv, Inv', [Next]_vars, ~Quiescent, kind = "partial", chain \in {"live", "dirty"}, normal
    PROVE  { r \in Routes' : r.port \notin DOMAIN req } = { r \in Routes : r.port \notin DOMAIN req }
<1>0. TypeOK /\ TypeOK' /\ DOMAIN req \subseteq U16
  BY DEF Inv, IInv, TypeInv, TypeOK, IsGatewayConfigPartial
<1>1. /\ bridge' = bridge
      /\ SameOutside(netns, netns', DOMAIN req)
      /\ nginx' \in {nginx, ForwardingOf(intended)}
  BY PartialStep DEF Inv, RoutesInv
<1>2. Believed
  BY DEF Believed
<1>3. EntriesBeside(nginx, DOMAIN req) = EntriesBeside(nginx', DOMAIN req)
  BY <1>1, <1>2 DEF Inv, RoutesInv, BystanderInv
<1> QED BY <1>0, <1>1, <1>3, RoutesBeside

\* A partial apply that can be trusted leaves the routes of all other networks
\* alone, in every step of apply_partial() and also when it fails or dies.
THEOREM BystandersKeepTheirRoutes == Spec => BystandersUndisturbed
<1>1. ASSUME Inv, Inv', [Next]_vars
      PROVE  [kind = "partial" /\ ~Quiescent /\ chain \in {"live", "dirty"} /\ normal
              => RoutesOutside(DOMAIN req)' = RoutesOutside(DOMAIN req)]_vars
  <2> SUFFICES ASSUME kind = "partial", ~Quiescent, chain \in {"live", "dirty"}, normal
               PROVE  RoutesOutside(DOMAIN req)' = RoutesOutside(DOMAIN req)
    OBVIOUS
  <2>1. req' = req
    BY <1>1, HandlerFrame
  <2>2. { r \in Routes' : r.port \notin DOMAIN req } = { r \in Routes : r.port \notin DOMAIN req }
    BY <1>1, BesideStep
  <2> QED BY <2>1, <2>2 DEF RoutesOutside
<1> QED BY <1>1, Invariant, PTL DEF Spec, BystandersUndisturbed

\* End to end: as long as the answers are Ok, every http and https host of the
\* manager's copy is led to exactly the backends listed for it, through the
\* shared numbering of port_mappings().
THEOREM TrafficReachesItsBackends == Routable => (Spec => []RoutesExact)
<1> SUFFICES ASSUME Routable PROVE Spec => []RoutesExact
  OBVIOUS
<1>1. Inv => RoutesExact
  BY InPlaceRoutes DEF Inv, RoutesInv, IInv, TypeInv, InSync, RoutesExact
<1> QED BY <1>1, Invariant, PTL

-----------------------------------------------------------------------------
(***************************************************************************)
(* Gateway implements GatewayContract, the gateway as its manager sees it. *)
(* The mapping is the one of the instance Contract: the routes served, the *)
(* answer, how far an Ok can be trusted, and the ports whose routes the    *)
(* request in progress may change.                                         *)
(***************************************************************************)

\* A route goes into a namespace, and that has a u16 for its name.
LEMMA RoutePorts ==
    ASSUME TypeOK, TypeOK'
    PROVE  (\A r \in Routes : r.port \in U16) /\ (\A r \in Routes' : r.port \in U16)
<1>0. DOMAIN netns \subseteq U16 /\ DOMAIN netns' \subseteq U16
  BY DEF TypeOK, IsNetns
<1>1. \A e, p, r : r \in RoutesVia(e, p) \/ r \in RoutesVia(e, p)' => r.port = p
  BY DEF RoutesVia
<1>2. ASSUME NEW r \in Routes PROVE r.port \in U16
  BY <1>0, <1>1, RouteTaken
<1>3. ASSUME NEW r \in Routes' PROVE r.port \in U16
  <2>1. PICK e \in nginx', p \in DOMAIN netns' : r \in RoutesVia(e, p)'
    BY DEF Routes
  <2> QED BY <1>0, <1>1, <2>1
<1> QED BY <1>2, <1>3

\* While a request is being handled only routes that it is about change.
LEMMA ServedStep ==
    ASSUME Inv, Inv', [Next]_vars, Busy
    PROVE  { r \in Routes' : r.port \notin ContractTouched }
             = { r \in Routes : r.port \notin ContractTouched }
<1>0. ~Quiescent
  BY DEF Busy
<1>1. CASE redo
  <2>1. UNCHANGED <<bridge, netns, nginx>>
    BY <1>1, RedoStep DEF Inv, RoutesInv
  <2>2. Routes' = Routes
    BY <2>1 DEF Routes, RoutesVia, Reachable
  <2> QED BY <2>2
<1>2. CASE ~redo /\ kind = "partial" /\ PartialTrusted
  <2>1. ContractTouched = DOMAIN req
    BY <1>2 DEF ContractTouched
  <2> QED BY <1>0, <1>2, <2>1, BesideStep DEF PartialTrusted
<1>3. CASE ~redo /\ ~(kind = "partial" /\ PartialTrusted)
  <2>1. ContractTouched = U16
    BY <1>3 DEF ContractTouched
  <2> QED BY <2>1, RoutePorts DEF Inv, IInv, TypeInv
<1> QED BY <1>1, <1>2, <1>3

\* The steps of a handler that serves a request.
LEMMA ContractHandler ==
    ASSUME Inv, Inv', RoutesExact', [Next]_vars, Busy
    PROVE  Contract!Next
<1> USE DEF Contract!Next
<1>0. ~Quiescent /\ kind \in {"apply", "partial"} /\ UNCHANGED <<kind, req, intended, normal>>
  BY HandlerFrame DEF Busy, Inv, IInv, TypeInv, TypeOK
<1>1. result = "pending"
  BY DEF Inv, RoutesInv, ReplyInv, Busy
<1>2. Contract!Outside(Routes', ContractTouched) = Contract!Outside(Routes, ContractTouched)
  BY ServedStep DEF Contract!Outside
<1>3. CASE ~Quiescent' /\ UNCHANGED <<result, chain, redo>>
  <2>1. Busy'
    BY <1>0, <1>3 DEF Busy
  <2>2. ContractTrust' = ContractTrust
    BY <1>0, <1>3, <2>1 DEF ContractTrust, PartialTrusted
  <2>3. ContractTouched' = ContractTouched
    BY <1>0, <1>3, <2>1 DEF ContractTouched, PartialTrusted
  <2>4. Contract!Work
    BY <1>0, <1>1, <1>2, <1>3, <2>2, <2>3 DEF Contract!Work
  <2> QED BY <2>4
<1>4. CASE Abort
  <2>1. /\ pc' = "idle" /\ result' = "err" /\ chain' \in {"dirty", "broken"}
        /\ ~Busy' /\ ~Promised'
    BY <1>0, <1>4 DEF Abort, Busy, Quiescent, Promised
  <2>2. ContractTrust' = "none" /\ ContractTouched' = {}
    BY <2>1 DEF ContractTrust, ContractTouched
  <2>3. Contract!AnswerErr
    BY <1>0, <1>1, <1>2, <2>1, <2>2 DEF Contract!AnswerErr
  <2> QED BY <2>3
<1>5. CASE Killed
  <2>1. pc' = "down" /\ result' = "none" /\ chain' = "broken" /\ ~Busy' /\ ~Promised'
    BY <1>0, <1>5 DEF Killed, Busy, Quiescent, Promised
  <2>2. ContractTrust' = "none" /\ ContractTouched' = {}
    BY <2>1 DEF ContractTrust, ContractTouched
  <2>3. Contract!Die
    BY <1>0, <1>1, <1>2, <2>1, <2>2 DEF Contract!Die
  <2> QED BY <2>3
<1>6. CASE Finish
  <2>1. /\ pc' = "idle" /\ result' = "ok" /\ ~Busy' /\ Quiescent'
        /\ chain' = IF kind = "apply" \/ chain = "dirty" THEN "live" ELSE chain
    BY <1>0, <1>6 DEF Finish, Busy, Quiescent
  <2>2. ContractTouched' = {}
    BY <2>1 DEF ContractTouched
  <2>3. kind = "apply" => normal
    <3>1. kind = "apply" => Believed
      BY <1>0 DEF Believed
    <3> QED BY <3>1 DEF Inv, IInv, Progress, MemoryProgress
  <2>4. CASE kind = "apply" \/ PartialTrusted
    <3>1. ContractTrust = "kept"
      BY <2>4 DEF ContractTrust
    <3>2. chain' = "live" /\ normal' /\ Promised'
      BY <1>0, <2>1, <2>3, <2>4 DEF PartialTrusted, Promised
    <3>3. ContractTrust' = "kept"
      BY <2>1, <3>2 DEF ContractTrust
    <3>4. Routes' = RoutesOf(intended)'
      BY <3>2 DEF RoutesExact
    <3>5. RoutesOf(intended)' = Contract!RoutesOf(intended)
      BY <1>0 DEF RoutesOf, Contract!RoutesOf, Scheme, Contract!Scheme, ToSet, Contract!ToSet
    <3>6. Contract!AnswerOk
      BY <1>0, <1>1, <1>2, <2>1, <2>2, <3>1, <3>3, <3>4, <3>5 DEF Contract!AnswerOk
    <3> QED BY <3>6
  <2>5. CASE ~(kind = "apply" \/ PartialTrusted)
    <3>1. ContractTrust = "none"
      BY <2>5 DEF ContractTrust
    <3>2. chain # "orphan" /\ ~Promised'
      BY <1>0, <2>1, <2>5 DEF PartialTrusted, Promised, Inv, IInv, ChainInv
    <3>3. ContractTrust' = "none"
      BY <2>1, <3>2 DEF ContractTrust
    <3>4. Contract!AnswerOk
      BY <1>0, <1>1, <1>2, <2>1, <2>2, <3>1, <3>3 DEF Contract!AnswerOk
    <3> QED BY <3>4
  <2> QED BY <2>4, <2>5
<1> QED BY <1>0, <1>3, <1>4, <1>5, <1>6, HandlerControl

\* startup() writes a first NGINX configuration: nothing was promised then.
LEMMA ContractStartup ==
    ASSUME Inv, Inv', [Next]_vars, ~Quiescent, ~Busy
    PROVE  Contract!MachineRestart
<1>0. kind = "startup" /\ UNCHANGED <<kind, req, intended, normal>>
  BY HandlerFrame DEF Busy
<1>1. /\ result = "none" /\ chain \in {"orphan", "broken"} /\ ~(chain = "orphan" /\ normal)
  BY <1>0 DEF Inv, RoutesInv, ReplyInv, IInv, ChainInv
<1>2. result' = "none" /\ (chain' = chain \/ chain' = "broken")
  BY <1>0, <1>1, HandlerControl DEF Abort, Killed, Finish
<1>3. ~Busy' /\ ~Promised'
  BY <1>0, <1>1, <1>2 DEF Busy, Promised
<1>4. ContractTrust' = "none" /\ ContractTouched' = {} /\ ContractTouched = {}
  BY <1>3 DEF ContractTrust, ContractTouched
<1> QED BY <1>0, <1>1, <1>2, <1>4 DEF Contract!MachineRestart

\* The contract's copies of two operators are the operators.
LEMMA ContractOperators ==
    /\ \A c : Contract!PortsAgree(c) <=> PortsAgree(c)
    /\ \A c, d : Contract!MergePartial(c, d) = MergePartial(c, d)
    /\ Contract!U16 = U16
BY DEF Contract!PortsAgree, PortsAgree, Contract!MergePartial, MergePartial, Contract!U16, U16

\* A request is asked for in the contract, too.
LEMMA ContractRequest ==
    ASSUME Inv, Inv',
           (\E c \in Configs : apply(c)) \/ (\E c \in Partials : apply_partial(c))
    PROVE  Contract!Next
<1> USE DEF Contract!Next
<1>0. /\ pc = "idle" /\ pc' = "bridge" /\ result' = "pending" /\ UNCHANGED <<bridge, netns, nginx>>
      /\ kind' \in {"apply", "partial"}
  BY DEF apply, apply_partial, machineVars
<1>1. Quiescent /\ ~Busy /\ Busy' /\ result # "pending"
  BY <1>0 DEF Quiescent, Busy, Inv, RoutesInv, ReplyInv
<1>2. Routes' = Routes
  BY <1>0 DEF Routes, RoutesVia, Reachable
<1>3. chain \in {"live", "dirty", "orphan", "broken"}
  BY DEF Inv, IInv, TypeInv, TypeOK
<1>4. ContractTrust = IF ~(chain \in {"live", "orphan"} /\ normal) THEN "none"
                      ELSE IF chain = "live" THEN "kept" ELSE "orphan"
  BY <1>1 DEF ContractTrust, Promised
<1>5. ASSUME NEW c \in Configs, apply(c) PROVE Contract!AskApply(c)
  <2>1. /\ kind' = "apply" /\ intended' = c
        /\ redo' = (chain \in {"live", "orphan"} /\ normal /\ c = intended)
    BY <1>5 DEF apply
  <2>2. ContractTrust' = "kept"
    BY <1>1, <2>1 DEF ContractTrust
  <2>3. ContractTouched' = IF redo' THEN {} ELSE U16
    BY <1>1, <2>1 DEF ContractTouched
  <2>4. redo' <=> ContractTrust # "none" /\ c = intended
    BY <1>4, <2>1
  <2>5. ContractTouched' = IF ContractTrust # "none" /\ c = intended THEN {} ELSE U16
    BY <2>3, <2>4
  <2> QED BY <1>0, <1>1, <1>2, <2>1, <2>2, <2>5, ContractOperators DEF Contract!AskApply
<1>6. ASSUME NEW c \in Partials, apply_partial(c) PROVE Contract!AskPartial(c)
  <2>1. /\ kind' = "partial" /\ req' = c /\ intended' = MergePartial(intended, c) /\ ~redo'
        /\ normal' = (normal /\ PortsAgree(config) /\ PortsAgree(c))
        /\ chain' = IF chain = "live" \/ (chain = "dirty" /\ DOMAIN req \subseteq DOMAIN c)
                    THEN chain ELSE "broken"
    BY <1>6 DEF apply_partial
  <2>2. ContractTrust' = IF PartialTrusted' THEN "kept" ELSE "none"
    BY <1>1, <2>1 DEF ContractTrust
  <2>3. ContractTouched' = IF PartialTrusted' THEN DOMAIN c ELSE U16
    BY <1>1, <2>1 DEF ContractTouched
  <2>4. chain = "live" => config = intended
    BY <1>0 DEF Inv, IInv, RememberedAsIntended
  <2>5. CASE chain = "live"
    <3>1. PartialTrusted' <=> ContractTrust = "kept" /\ PortsAgree(intended) /\ PortsAgree(c)
      BY <1>4, <2>1, <2>4, <2>5 DEF PartialTrusted
    <3> QED
      BY <1>0, <1>1, <1>2, <2>1, <2>2, <2>3, <3>1, ContractOperators DEF Contract!AskPartial
  <2>6. CASE chain # "live" /\ PartialTrusted'
    <3>1. chain = "dirty" /\ PortsAgree(c) /\ ContractTrust = "none"
      BY <1>4, <2>1, <2>6 DEF PartialTrusted
    <3>2. result = "err"
      BY <1>0, <3>1 DEF Inv, RoutesInv, ReplyInv
    <3> QED
      BY <1>0, <1>1, <1>2, <2>1, <2>2, <2>3, <2>6, <3>1, <3>2, ContractOperators
      DEF Contract!AskPartial
  <2>7. CASE chain # "live" /\ ~PartialTrusted'
    <3>1. ContractTrust # "kept"
      BY <1>4, <2>7
    <3> QED
      BY <1>0, <1>1, <1>2, <2>1, <2>2, <2>3, <2>7, <3>1, ContractOperators
      DEF Contract!AskPartial
  <2> QED BY <2>5, <2>6, <2>7
<1> QED BY <1>5, <1>6

\* Between requests: a death, a restart of the machine, or nothing to be seen.
LEMMA ContractQuiescent ==
    ASSUME Inv, Inv', startup \/ Die \/ Restart \/ ContainerRestart, Quiescent
    PROVE  Contract!Next \/ UNCHANGED Contract!contractVars
<1> USE DEF Contract!Next
<1>0. ~Busy /\ ContractTouched = {}
  BY DEF Busy, ContractTouched
<1>1. ContractTrust = IF ~Promised THEN "none" ELSE IF chain = "live" THEN "kept" ELSE "orphan"
  BY <1>0 DEF ContractTrust
<1>2. ASSUME UNCHANGED <<bridge, netns, nginx>> PROVE Routes' = Routes
  BY <1>2 DEF Routes, RoutesVia, Reachable
<1>3. CASE startup
  <2>1. /\ pc = "startup" /\ kind = "startup" /\ chain \in {"orphan", "broken"}
    BY <1>3 DEF startup, Inv, IInv, ChainInv
  <2>2. /\ UNCHANGED <<kind, result, chain, normal, intended, bridge, netns, disk, nginx>>
        /\ pc' = IF disk.module.state = "absent" THEN "module" ELSE "idle"
    BY <1>3 DEF startup, Goto, machineVars
  <2>3. ~Busy'
    BY <2>1, <2>2 DEF Busy
  <2>4. Promised' <=> Promised
    <3>1. CASE pc' = "idle"
      BY <2>2, <3>1 DEF Promised, Quiescent
    <3>2. CASE pc' = "module"
      <4>1. ~(chain = "orphan" /\ normal)
        BY <2>1, <2>2, <3>2 DEF Inv, IInv, ChainInv, Quiescent
      <4> QED BY <2>1, <2>2, <4>1 DEF Promised
    <3> QED BY <2>2, <3>1, <3>2
  <2>5. ContractTrust' = ContractTrust /\ ContractTouched' = ContractTouched
    BY <1>0, <1>1, <2>2, <2>3, <2>4 DEF ContractTrust, ContractTouched
  <2> QED BY <1>2, <2>2, <2>5 DEF Contract!contractVars
<1>4. CASE Die
  <2>1. /\ UNCHANGED <<intended, bridge, netns, nginx, kind, normal>>
        /\ pc' = "down" /\ result' = "none" /\ ~Busy' /\ Quiescent'
        /\ chain' = IF pc \in {"idle", "startup"} /\ chain \in {"live", "orphan"}
                    THEN "orphan" ELSE "broken"
    BY <1>4 DEF Die, Killed, machineVars, Busy, Quiescent
  <2>2. result # "pending"
    BY DEF Inv, RoutesInv, ReplyInv
  <2>3. ContractTouched' = {}
    BY <2>1 DEF ContractTouched
  <2>4. CASE pc # "down"
    <3>1. Promised' <=> Promised
      BY <2>1, <2>4 DEF Promised, Quiescent
    <3>2. ContractTrust' = IF ContractTrust = "none" THEN "none" ELSE "orphan"
      BY <1>1, <2>1, <3>1 DEF ContractTrust
    <3>3. Contract!Die
      BY <1>0, <1>2, <2>1, <2>2, <2>3, <3>2 DEF Contract!Die, Contract!Outside
    <3> QED BY <3>3
  <2>5. CASE pc = "down"
    <3>1. result = "none" /\ ~Promised'
      BY <2>1, <2>5 DEF Inv, RoutesInv, ReplyInv, Promised
    <3>2. ContractTrust' = "none"
      BY <2>1, <3>1 DEF ContractTrust
    <3>3. Contract!MachineRestart
      BY <1>0, <2>1, <2>3, <3>1, <3>2 DEF Contract!MachineRestart
    <3> QED BY <3>3
  <2> QED BY <2>4, <2>5
<1>5. CASE Restart
  <2>1. /\ pc = "down" /\ pc' = "startup" /\ kind' = "startup" /\ result' = "none"
        /\ UNCHANGED <<intended, chain, normal, bridge, netns, nginx>>
    BY <1>5 DEF Restart, Launch, machineVars
  <2>2. result = "none" /\ ~Busy' /\ (Promised' <=> Promised)
    BY <2>1 DEF Inv, RoutesInv, ReplyInv, Busy, Promised, Quiescent
  <2>3. ContractTrust' = ContractTrust /\ ContractTouched' = ContractTouched
    BY <1>0, <1>1, <2>1, <2>2 DEF ContractTrust, ContractTouched
  <2> QED BY <1>2, <2>1, <2>2, <2>3 DEF Contract!contractVars
<1>6. CASE ContainerRestart
  <2>1. /\ pc = "down" /\ kind' = "startup" /\ result' = "none" /\ chain' = "broken"
        /\ UNCHANGED intended
    BY <1>6 DEF ContainerRestart, Launch
  <2>2. result = "none" /\ ~Busy' /\ ~Promised'
    BY <2>1 DEF Inv, RoutesInv, ReplyInv, Busy, Promised
  <2>3. ContractTrust' = "none" /\ ContractTouched' = {}
    BY <2>2 DEF ContractTrust, ContractTouched
  <2>4. Contract!MachineRestart
    BY <1>0, <2>1, <2>2, <2>3 DEF Contract!MachineRestart
  <2> QED BY <2>4
<1> QED BY <1>3, <1>4, <1>5, <1>6

\* Every behaviour of the daemon is one that the contract with its manager
\* allows: an Ok is a promise about every route, a pending request changes no
\* route it is not about, a death of the daemon takes no route away.
THEOREM DaemonKeepsContract == Routable => (Spec => ContractKept)
<1> SUFFICES ASSUME Routable PROVE Spec => ContractKept
  OBVIOUS
<1>1. Init => Contract!Init
  <2> SUFFICES ASSUME Init PROVE Contract!Init
    OBVIOUS
  <2>1. Routes = {}
    BY DEF Init, Routes
  <2>2. ~Busy /\ ~Promised
    BY DEF Init, Busy, Quiescent, Promised
  <2>3. ContractTrust = "none" /\ ContractTouched = {}
    BY <2>2 DEF ContractTrust, ContractTouched
  <2> QED BY <2>1, <2>3 DEF Init, Contract!Init, EmptyConfig, Contract!EmptyConfig
<1>2. Inv => RoutesExact
  BY InPlaceRoutes DEF Inv, RoutesInv, IInv, TypeInv, InSync, RoutesExact
<1>3. ASSUME Inv, Inv', RoutesExact', [Next]_vars
      PROVE  Contract!Next \/ UNCHANGED Contract!contractVars
  <2>1. CASE Busy
    BY <1>3, <2>1, ContractHandler
  <2>2. CASE ~Busy /\ ~Quiescent
    BY <1>3, <2>2, ContractStartup DEF Contract!Next
  <2>3. CASE UNCHANGED coreVars
    BY <2>3
    DEF coreVars, taskVars, machineVars, historyVars, Contract!contractVars, Routes, RoutesVia,
        Reachable, ContractTrust, ContractTouched, Busy, Quiescent, Promised, PartialTrusted
  <2>4. CASE Quiescent
    BY <1>3, <2>3, <2>4, QuiescentControl, ContractRequest, ContractQuiescent
  <2> QED BY <2>1, <2>2, <2>4
<1>4. Inv /\ Inv' /\ RoutesExact' /\ [Next]_vars => [Contract!Next]_(Contract!contractVars)
  BY <1>3
<1> QED BY <1>1, <1>2, <1>4, Invariant, PTL DEF Spec, ContractKept, Contract!Spec

\* Whatever meets the contract keeps its promise: an Ok that a manager has reason
\* to trust means that exactly the routes of its configuration are served until
\* it asks for something else, however often the daemon dies in between, and
\* whichever way the gateway works.
THEOREM ContractPromises == Contract!Spec => []Contract!Promise
<1> DEFINE trusted == /\ result # "pending" => ContractTouched = {}
                      /\ result = "pending" => ContractTrust \in {"kept", "none"}
<1>1. Contract!Init => trusted /\ Contract!Promise
  BY DEF Contract!Init, Contract!Promise
<1>2. ASSUME trusted, Contract!Promise, Contract!Next \/ UNCHANGED Contract!contractVars
      PROVE  trusted' /\ Contract!Promise'
  <2> USE <1>2 DEF Contract!Promise
  <2>1. \A R : Contract!Outside(R, {}) = R
    BY DEF Contract!Outside
  <2>2. CASE UNCHANGED Contract!contractVars
    BY <2>2 DEF Contract!contractVars, Contract!RoutesOf
  <2>3. CASE (\E c \in Configs : Contract!AskApply(c)) \/ \E c \in Partials : Contract!AskPartial(c)
    BY <2>3 DEF Contract!AskApply, Contract!AskPartial
  <2>4. CASE Contract!Work \/ Contract!AnswerErr \/ Contract!MachineRestart
    BY <2>4 DEF Contract!Work, Contract!AnswerErr, Contract!MachineRestart
  <2>5. CASE Contract!AnswerOk
    BY <2>5 DEF Contract!AnswerOk, Contract!RoutesOf
  <2>6. CASE Contract!Die
    <3>1. /\ result' = "none" /\ ContractTouched' = {} /\ intended' = intended
          /\ Contract!Outside(Routes', ContractTouched) = Contract!Outside(Routes, ContractTouched)
          /\ ContractTrust' # "none" => result # "pending" /\ ContractTrust # "none"
      BY <2>6 DEF Contract!Die
    <3>2. ContractTrust' # "none" => Routes' = Routes
      BY <2>1, <3>1
    <3>3. Contract!RoutesOf(intended)' = Contract!RoutesOf(intended)
      BY <3>1 DEF Contract!RoutesOf
    <3> QED BY <3>1, <3>2, <3>3
  <2> QED BY <2>2, <2>3, <2>4, <2>5, <2>6, <1>2 DEF Contract!Next
<1>3. trusted /\ Contract!Promise /\ [Contract!Next]_(Contract!contractVars) => (trusted /\ Contract!Promise)'
  BY <1>2
<1> HIDE DEF trusted
<1> QED BY <1>1, <1>3, PTL DEF Contract!Spec

-----------------------------------------------------------------------------
(***************************************************************************)
(* The interfaces that the watchdog polls.                                 *)
(***************************************************************************)

\* Only an interface can have a key.
KeyInv == \A p \in DOMAIN netns : netns[p].wg \/ netns[p].conf = None

\* The handler works on what it was asked for.
AskedInv == (kind = "apply" => req \in Configs) /\ (kind = "partial" => req \in Partials)

\* What the watchdog finds follows from the configurations that are loaded.
LEMMA InterfacesSame ==
    ASSUME DOMAIN netns' = DOMAIN netns, \A p \in DOMAIN netns : netns'[p].conf = netns[p].conf
    PROVE  Interfaces' = Interfaces
BY DEF Interfaces

\* apply_wireguard() ends with the configuration loaded and, if it fails or dies,
\* leaves the one that was there.
LEMMA WireguardKeys ==
    ASSUME NEW ns \in Namespace, NEW n \in NetworkState, ns.wg \/ ns.conf = None
    PROVE  /\ WireguardDone(ns, n).conf = to_config(n) /\ WireguardDone(ns, n).wg
           /\ \A x \in WireguardPartial(ns, n) : x.conf = ns.conf /\ (x.wg \/ x.conf = None)
<1> DEFINE c == WireguardCreated(ns)
           m == WireguardMtu(ns, n)
<1>1. WireguardInPlace(WireguardDone(ns, n), n)
  BY WireguardEffect
<1>2. c.wg /\ c.conf = ns.conf /\ c \in Namespace
  <2>1. CASE ns.wg
    BY <2>1 DEF WireguardCreated
  <2>2. CASE ~ns.wg
    BY <2>2 DEF Namespace, WireguardCreated, WG_DEFAULT_MTU
  <2> QED BY <2>1, <2>2
<1>3. m.wg /\ m.conf = ns.conf /\ m \in Namespace
  BY <1>2 DEF Namespace, WireguardMtu, NetworkState
<1>4. ASSUME NEW i \in 0 .. Len(n.address)
      PROVE  WireguardAddr(ns, n, i).wg /\ WireguardAddr(ns, n, i).conf = ns.conf
  BY <1>3 DEF Namespace, WireguardAddr
<1> QED BY <1>1, <1>2, <1>3, <1>4 DEF WireguardInPlace, WireguardPartial

\* wg shows the key and the peers of the network whose file it was given.
LEMMA PolledConfig ==
    ASSUME NEW n
    PROVE  Polled(to_config(n)) = Polled(n)
<1>1. to_config(n).private_key = n.private_key /\ DOMAIN to_config(n).peers = DOMAIN n.peers
  BY DEF to_config, PeersConfig
<1> QED BY <1>1 DEF Polled

\* One step of a handler at a network.
LEMMA InterfacesNetwork ==
    ASSUME Inv, KeyInv, AskedInv, NEW p \in todo,
           \/ RemoveNetwork(p) \/ apply_netns(p) \/ apply_wireguard(p)
           \/ apply_veth(p) \/ apply_forwarding(p)
    PROVE  /\ KeyInv'
           /\ \/ UNCHANGED Interfaces
              \/ /\ pc' \notin {"idle", "down", "startup"}
                 /\ \E q \in DOMAIN netns \cup DOMAIN netns' :
                      InterfaceDeleted(q) \/ InterfaceAdded(q) \/ InterfaceConfigured(q)
<1>0. TypeOK /\ TypeInv /\ IsNetns(netns)
  BY DEF Inv, IInv, TypeInv, TypeOK
<1>1. CASE UNCHANGED netns
  BY <1>1 DEF KeyInv, Interfaces
<1>2. CASE RemoveNetwork(p)
  <2>1. netns' = netns \/ (netns' = Without(netns, p) /\ pc' = "next")
    BY <1>2 DEF RemoveNetwork, Goto
  <2>2. CASE netns' = Without(netns, p) /\ pc' = "next"
    <3>1. Interfaces' = Without(Interfaces, p) /\ KeyInv'
      BY <2>2 DEF Interfaces, Without, KeyInv
    <3>2. CASE p \in DOMAIN netns
      BY <2>2, <3>1, <3>2 DEF InterfaceDeleted
    <3>3. CASE p \notin DOMAIN netns
      <4>1. DOMAIN netns' = DOMAIN netns /\ \A q \in DOMAIN netns : netns'[q] = netns[q]
        BY <2>2, <3>3 DEF Without
      <4> QED BY <3>1, <4>1, InterfacesSame
    <3> QED BY <3>2, <3>3
  <2> QED BY <1>1, <2>1, <2>2
<1>3. CASE apply_netns(p)
  <2> DEFINE lp == Target(p).listen_port
  <2>1. \/ netns' = netns
        \/ lp \notin DOMAIN netns /\ netns' = With(netns, lp, FreshNamespace) /\ pc' = "wireguard"
    BY <1>3 DEF apply_netns, Goto
  <2> HIDE DEF lp
  <2>2. CASE lp \notin DOMAIN netns /\ netns' = With(netns, lp, FreshNamespace) /\ pc' = "wireguard"
    <3>1. FreshNamespace.conf = None
      BY DEF FreshNamespace
    <3> HIDE DEF FreshNamespace
    <3>2. KeyInv' /\ lp \in DOMAIN netns'
      BY <2>2, <3>1 DEF KeyInv, With
    <3>3. Interfaces' = With(Interfaces, lp, None)
      BY <2>2, <3>1 DEF Interfaces, With
    <3> QED BY <2>2, <3>2, <3>3 DEF InterfaceAdded
  <2> QED BY <1>1, <2>1, <2>2
<1>4. ASSUME NEW lp, NEW x, netns' = [netns EXCEPT ![lp] = x],
             lp \in DOMAIN netns => x.conf = netns[lp].conf /\ (x.wg \/ x.conf = None)
      PROVE  KeyInv' /\ UNCHANGED Interfaces
  <2>1. /\ DOMAIN netns' = DOMAIN netns
        /\ \A q \in DOMAIN netns : q # lp => netns'[q] = netns[q]
        /\ lp \in DOMAIN netns => netns'[lp] = x
    BY <1>0, <1>4 DEF IsNetns
  <2>2. \A q \in DOMAIN netns : netns'[q].conf = netns[q].conf
    BY <1>4, <2>1
  <2>3. KeyInv'
    BY <1>4, <2>1 DEF KeyInv
  <2> QED BY <2>1, <2>2, <2>3, InterfacesSame
<1>5. CASE apply_veth(p) \/ apply_forwarding(p)
  <2> DEFINE lp == Target(p).listen_port
  <2>1. \/ netns' = netns
        \/ \E k : netns' = [netns EXCEPT ![lp] = [netns[lp] EXCEPT !.veth = k]]
        \/ \E t : netns' = [netns EXCEPT ![lp] = [netns[lp] EXCEPT !.nat = t]]
    BY <1>5 DEF apply_veth, apply_forwarding
  <2> HIDE DEF lp
  <2>2. lp \in DOMAIN netns => netns[lp] \in Namespace /\ (netns[lp].wg \/ netns[lp].conf = None)
    BY <1>0 DEF IsNetns, KeyInv
  <2>3. ASSUME NEW k, netns' = [netns EXCEPT ![lp] = [netns[lp] EXCEPT !.veth = k]]
        PROVE  KeyInv' /\ UNCHANGED Interfaces
    <3> DEFINE x == [netns[lp] EXCEPT !.veth = k]
    <3>1. lp \in DOMAIN netns => x.conf = netns[lp].conf /\ x.wg = netns[lp].wg
      BY <2>2 DEF Namespace
    <3> HIDE DEF x
    <3> QED BY <1>4, <2>2, <2>3, <3>1 DEF x
  <2>4. ASSUME NEW t, netns' = [netns EXCEPT ![lp] = [netns[lp] EXCEPT !.nat = t]]
        PROVE  KeyInv' /\ UNCHANGED Interfaces
    <3> DEFINE x == [netns[lp] EXCEPT !.nat = t]
    <3>1. lp \in DOMAIN netns => x.conf = netns[lp].conf /\ x.wg = netns[lp].wg
      BY <2>2 DEF Namespace
    <3> HIDE DEF x
    <3> QED BY <1>4, <2>2, <2>4, <3>1 DEF x
  <2> QED BY <1>1, <2>1, <2>3, <2>4
<1>6. CASE apply_wireguard(p)
  <2> DEFINE n  == Target(p)
             lp == n.listen_port
  <2>1. pc = "wireguard" /\ Current(p)
    BY <1>6 DEF apply_wireguard
  <2>2. req[p] # None
    BY <1>0, <2>1 DEF TypeInv, StageInv, NetworkStage
  <2>3. p \in DOMAIN req /\ n \in NetworkState /\ lp \in U16
    BY <1>0, <2>2, TargetType DEF TypeInv, TypeOK
  <2>4. \/ netns' = [netns EXCEPT ![lp] = WireguardDone(netns[lp], n)] /\ pc' = "veth"
        \/ \E x \in WireguardPartial(netns[lp], n) : netns' = [netns EXCEPT ![lp] = x]
    BY <1>6 DEF apply_wireguard, Goto
  <2>5. Polled(n) = Polled(req[p]) /\ lp \in {p, req[p].listen_port}
    <3>1. req[p] \in NetworkState /\ p \in U16
      BY <1>0, <2>2, TargetType DEF TypeInv
    <3> QED BY <3>1 DEF Target, WithListenPort, NetworkState, Polled
  <2>6. req \in Configs \cup Partials
    <3>1. kind # "startup"
      BY <2>1 DEF Inv, IInv, ChainInv, Quiescent, NginxStage
    <3> QED BY <1>0, <3>1 DEF AskedInv, TypeOK
  <2>7. Polled(n) \in AskedFor(lp)
    BY <2>2, <2>3, <2>5, <2>6 DEF AskedFor
  <2>8. Polled(to_config(n)) = Polled(n)
    BY PolledConfig
  <2>9. to_config(n) # None
    <3>1. to_config(n) \in WireguardConf
      BY <2>3 DEF to_config, WireguardConf, NetworkState
    <3> QED BY <3>1, NoneAssumption
  <2>10. lp \in DOMAIN netns => netns[lp] \in Namespace /\ (netns[lp].wg \/ netns[lp].conf = None)
    BY <1>0 DEF IsNetns, KeyInv
  <2> HIDE DEF n, lp
  <2>11. ASSUME NEW x \in WireguardPartial(netns[lp], n), netns' = [netns EXCEPT ![lp] = x]
         PROVE  KeyInv' /\ UNCHANGED Interfaces
    BY <1>4, <2>3, <2>10, <2>11, WireguardKeys
  <2>12. ASSUME netns' = [netns EXCEPT ![lp] = WireguardDone(netns[lp], n)], pc' = "veth", lp \in DOMAIN netns
         PROVE  KeyInv' /\ InterfaceConfigured(lp)
    <3> DEFINE x == WireguardDone(netns[lp], n)
    <3>1. x.conf = to_config(n) /\ x.wg
      BY <2>3, <2>10, <2>12, WireguardKeys
    <3>2. /\ DOMAIN netns' = DOMAIN netns /\ netns'[lp] = x
          /\ \A q \in DOMAIN netns : q # lp => netns'[q] = netns[q]
      BY <1>0, <2>12 DEF IsNetns
    <3> HIDE DEF x
    <3>3. KeyInv'
      BY <3>1, <3>2 DEF KeyInv
    <3>4. Interfaces' = [Interfaces EXCEPT ![lp] = Polled(n)]
      BY <2>8, <2>9, <2>12, <3>1, <3>2 DEF Interfaces
    <3> QED BY <2>7, <3>3, <3>4 DEF InterfaceConfigured
  <2>13. ASSUME netns' = [netns EXCEPT ![lp] = WireguardDone(netns[lp], n)], lp \notin DOMAIN netns
         PROVE  KeyInv' /\ UNCHANGED Interfaces
    BY <1>4, <2>13
  <2> QED BY <2>4, <2>11, <2>12, <2>13
<1> QED BY <1>2, <1>3, <1>5, <1>6

\* Every step.
LEMMA InterfacesStep ==
    ASSUME Inv, KeyInv, AskedInv, [Next]_vars
    PROVE  /\ KeyInv' /\ AskedInv'
           /\ \/ UNCHANGED Interfaces
              \/ /\ Busy /\ Busy'
                 /\ \E p \in DOMAIN netns \cup DOMAIN netns' :
                      InterfaceDeleted(p) \/ InterfaceAdded(p) \/ InterfaceConfigured(p)
              \/ pc = "down" /\ netns' = NoNetns
<1>1. AskedInv'
  <2>1. CASE ~Quiescent
    BY <2>1, HandlerFrame DEF AskedInv
  <2>2. CASE Quiescent
    BY <2>2, QuiescentControl
    DEF coreVars, taskVars, apply, apply_partial, startup, Die, Restart, ContainerRestart, Launch, AskedInv
  <2> QED BY <2>1, <2>2
<1>2. CASE UNCHANGED netns
  BY <1>1, <1>2 DEF KeyInv, Interfaces
<1>3. CASE ContainerRestart
  <2>1. pc = "down" /\ netns' = NoNetns
    BY <1>3 DEF ContainerRestart, Launch
  <2>2. KeyInv'
    BY <2>1 DEF KeyInv, NoNetns
  <2> QED BY <1>1, <2>1, <2>2
<1>4. CASE Quiescent
  BY <1>2, <1>3, <1>4, QuiescentControl
  DEF coreVars, machineVars, apply, apply_partial, startup, Die, Restart
<1>5. ASSUME ~Quiescent, pc \notin NginxStage, pc' \notin {"idle", "down", "startup"}
      PROVE  Busy /\ Busy'
  <2>1. kind # "startup" /\ kind' = kind
    BY <1>5, HandlerFrame DEF Inv, IInv, ChainInv
  <2> QED BY <1>5, <2>1 DEF Busy, Quiescent
<1>6. ASSUME ~Quiescent, NEW p \in seen, Prune(p)
      PROVE  \/ netns' = netns
             \/ KeyInv' /\ Busy /\ Busy' /\ p \in DOMAIN netns /\ InterfaceDeleted(p)
             \/ KeyInv' /\ UNCHANGED Interfaces
  <2>1. pc = "prune" /\ (netns' = netns \/ (netns' = Without(netns, p) /\ pc' = "prune"))
    BY <1>6 DEF Prune, Goto
  <2>2. CASE netns' = Without(netns, p) /\ pc' = "prune"
    <3>1. Interfaces' = Without(Interfaces, p) /\ KeyInv'
      BY <2>2 DEF Interfaces, Without, KeyInv
    <3>2. Busy /\ Busy'
      BY <1>5, <1>6, <2>1, <2>2 DEF NginxStage
    <3>3. CASE p \notin DOMAIN netns
      <4>1. DOMAIN netns' = DOMAIN netns /\ \A q \in DOMAIN netns : netns'[q] = netns[q]
        BY <2>2, <3>3 DEF Without
      <4> QED BY <3>1, <4>1, InterfacesSame
    <3> QED BY <3>1, <3>2, <3>3 DEF InterfaceDeleted
  <2> QED BY <2>1, <2>2
<1>7. ASSUME ~Quiescent, NEW p \in todo,
             \/ RemoveNetwork(p) \/ apply_netns(p) \/ apply_wireguard(p)
             \/ apply_veth(p) \/ apply_forwarding(p)
      PROVE  pc \notin NginxStage
  BY <1>7 DEF RemoveNetwork, apply_netns, apply_wireguard, apply_veth, apply_forwarding, NginxStage
<1>8. CASE ~Quiescent /\ RouteStep
  <2>1. CASE apply_bridge \/ nginx_reload
    BY <1>2, <2>1 DEF apply_bridge, nginx_reload
  <2>2. ASSUME NEW p \in seen, Prune(p)
        PROVE  /\ KeyInv'
               /\ \/ UNCHANGED Interfaces
                  \/ /\ Busy /\ Busy'
                     /\ \E q \in DOMAIN netns \cup DOMAIN netns' : InterfaceDeleted(q)
    <3>1. netns' = netns => KeyInv' /\ UNCHANGED Interfaces
      BY DEF KeyInv, Interfaces
    <3> QED BY <1>6, <1>8, <2>2, <3>1
  <2>3. ASSUME NEW p \in todo,
               \/ RemoveNetwork(p) \/ apply_netns(p) \/ apply_wireguard(p)
               \/ apply_veth(p) \/ apply_forwarding(p)
        PROVE  /\ KeyInv'
               /\ \/ UNCHANGED Interfaces
                  \/ /\ Busy /\ Busy'
                     /\ \E q \in DOMAIN netns \cup DOMAIN netns' :
                          InterfaceDeleted(q) \/ InterfaceAdded(q) \/ InterfaceConfigured(q)
    BY <1>5, <1>7, <1>8, <2>3, InterfacesNetwork
  <2> QED BY <1>1, <1>8, <2>1, <2>2, <2>3 DEF RouteStep
<1> QED BY <1>2, <1>4, <1>8, RoutesFrame

\* The interfaces that the watchdog polls change only while a request is handled,
\* by one namespace that is deleted, added, or given a network that some request
\* has for its port; an apply that fails or dies in apply_wireguard() leaves the
\* key that was there, and only the container's restart clears all.
THEOREM WatchdogPollsApplies == Spec => InterfacesChangeInApply
<1>1. Init => KeyInv /\ AskedInv
  BY DEF Init, KeyInv, NoNetns, AskedInv
<1>2. Inv /\ KeyInv /\ AskedInv /\ [Next]_vars => (KeyInv /\ AskedInv)'
  BY InterfacesStep
<1>3. Inv /\ KeyInv /\ AskedInv /\ [Next]_vars =>
        [ \/ UNCHANGED Interfaces
          \/ /\ Busy /\ Busy'
             /\ \E p \in DOMAIN netns \cup DOMAIN netns' :
                  InterfaceDeleted(p) \/ InterfaceAdded(p) \/ InterfaceConfigured(p)
          \/ pc = "down" /\ netns' = NoNetns ]_vars
  BY InterfacesStep
<1> QED BY <1>1, <1>2, <1>3, Invariant, PTL DEF Spec, InterfacesChangeInApply

=============================================================================
