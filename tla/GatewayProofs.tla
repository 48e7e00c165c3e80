--------------------------- MODULE GatewayProofs ----------------------------
(***************************************************************************)
(* Gateway keeps its types, for every set of configurations, partial       *)
(* configurations and custom redirects.                                    *)
(***************************************************************************)
EXTENDS Gateway, NetworkTypesProofs

NetworkStage == {"wireguard", "veth", "forwarding"}

\* A namespace is only worked on for a network, never for a None.
StageInv ==
    pc \in NetworkStage =>
        \A p \in todo : Current(p) => req[p] # None

\* apply() got a full configuration: none of its entries is None.
RequestInv == kind = "apply" => IsGatewayConfig(req)

\* apply_nginx() has written the files it will reload.
FilesInv ==
    /\ pc \in {"sites", "reload"} =>
         disk.module = Written(OfScheme(NginxTarget, "https"))
    /\ pc = "reload" => disk.sites = Written(OfScheme(NginxTarget, "http"))

\* The strengthening that makes TypeOK inductive.
TypeInv == TypeOK /\ StageInv /\ RequestInv /\ FilesInv

-----------------------------------------------------------------------------
Labels == {"down", "startup", "idle", "bridge", "list", "prune", "next",
           "wireguard", "veth", "forwarding", "module", "sites", "reload"}

ControlOK ==
    /\ pc \in Labels
    /\ result \in {"none", "pending", "ok", "err"}
    /\ chain \in {"live", "dirty", "orphan", "broken"}
    /\ redo \in BOOLEAN

\* Going on within a handler.
LEMMA GotoType ==
    ASSUME TypeOK, NEW l \in Labels, Goto(l)
    PROVE  ControlOK' /\ pc' = l
BY DEF TypeOK, Goto, ControlOK, Labels

\* Leaving a handler half way.
LEMMA StopType ==
    ASSUME TypeOK, Stop
    PROVE  ControlOK' /\ pc' \in {"idle", "down"}
BY DEF TypeOK, Stop, Abort, Killed, ControlOK, Labels

\* The network a handler works on is one.
LEMMA TargetType ==
    ASSUME TypeOK, RequestInv, NEW p \in todo, req[p] # None
    PROVE  /\ p \in U16
           /\ req[p] \in NetworkState
           /\ Target(p) \in NetworkState
           /\ Target(p).listen_port \in U16
<1>1. p \in U16 /\ req[p] \in NetworkState
  BY DEF TypeOK, IsGatewayConfigPartial
<1>2. Target(p) \in NetworkState
  BY <1>1, ListenPort DEF Target
<1> QED BY <1>1, <1>2 DEF NetworkState

\* Only one port is the current one.
LEMMA CurrentUnique ==
    ASSUME TypeOK, NEW p, NEW q, Current(p), Current(q)
    PROVE  p = q
<1>0. p \in U16 /\ q \in U16
  BY DEF TypeOK, IsGatewayConfigPartial, Current
<1>1. p \in Nat /\ q \in Nat
  BY <1>0, U16Nat
<1>2. p <= q /\ q <= p
  BY DEF Current
<1> QED BY <1>1, <1>2

\* Replacing one namespace by another.
LEMMA NetnsExcept ==
    ASSUME NEW f, IsNetns(f), NEW lp, NEW ns,
           lp \in DOMAIN f => ns \in Namespace
    PROVE  /\ IsNetns([f EXCEPT ![lp] = ns])
           /\ DOMAIN [f EXCEPT ![lp] = ns] = DOMAIN f
BY DEF IsNetns

\* What apply_wireguard() makes of a namespace, complete or not, is one.
LEMMA WireguardType ==
    ASSUME NEW ns \in Namespace, NEW n \in NetworkState
    PROVE  /\ WireguardDone(ns, n) \in Namespace
           /\ WireguardPartial(ns, n) \subseteq Namespace
<1>1. WireguardCreated(ns) \in Namespace
  <2>1. CASE ns.wg
    BY <2>1 DEF WireguardCreated
  <2>2. CASE ~ns.wg
    BY <2>2 DEF Namespace, WireguardCreated, WG_DEFAULT_MTU
  <2> QED BY <2>1, <2>2
<1>2. WireguardMtu(ns, n) \in Namespace
  BY <1>1 DEF Namespace, WireguardMtu, NetworkState
<1>3. ASSUME NEW i \in 0 .. Len(n.address)
      PROVE  WireguardAddr(ns, n, i) \in Namespace
  <2>1. { n.address[k] : k \in 1 .. i } \subseteq IpNet
    BY n.address \in Seq(IpNet) DEF NetworkState
  <2> QED BY <1>2, <2>1 DEF Namespace, WireguardAddr
<1>4. to_config(n) \in WireguardConf
  BY DEF to_config, WireguardConf, NetworkState
<1>5. Len(n.address) \in 0 .. Len(n.address)
  BY n.address \in Seq(IpNet) DEF NetworkState
<1>6. WireguardDone(ns, n) \in Namespace
  BY <1>3, <1>4, <1>5 DEF Namespace, WireguardDone
<1> QED BY <1>1, <1>2, <1>3, <1>6 DEF WireguardPartial

\* The entries a handler is about to write are NGINX entries.
LEMMA TargetEntries ==
    ASSUME TypeOK, RequestInv
    PROVE  NginxTarget \subseteq Entry
<1>1. NginxNetworks \subseteq NetworkState
  <2>1. CASE kind = "startup"
    BY <2>1 DEF NginxNetworks
  <2>2. CASE kind = "apply"
    BY <2>2, ListenPort DEF NginxNetworks, RequestInv, IsGatewayConfig
  <2>3. CASE kind = "partial"
    BY <2>3 DEF NginxNetworks, TypeOK, IsGatewayConfig
  <2> QED BY <2>1, <2>2, <2>3 DEF TypeOK
<1> QED BY <1>1, ForwardingType, CustomAssumption DEF NginxTarget

\* Removing a namespace, and adding a fresh one.
LEMMA NetnsWithout ==
    ASSUME NEW f, IsNetns(f), NEW p
    PROVE  IsNetns(Without(f, p))
BY DEF IsNetns, Without

LEMMA NetnsFresh ==
    ASSUME NEW f, IsNetns(f), NEW p \in U16
    PROVE  IsNetns(With(f, p, FreshNamespace))
<1>1. FreshNamespace \in Namespace
  BY DEF FreshNamespace, Namespace, VethUp
<1> QED BY <1>1 DEF IsNetns, With

\* Everything TypeOK says besides the control variables.
DataOK ==
    /\ kind \in {"startup", "apply", "partial"}
    /\ IsGatewayConfigPartial(req)
    /\ todo \subseteq DOMAIN req
    /\ seen \subseteq U16
    /\ IsGatewayConfig(config)
    /\ bridge \in 0 .. BridgeUp
    /\ IsNetns(netns)
    /\ disk \in [module : File, sites : File]
    /\ nginx \subseteq Entry
    /\ moved \subseteq U16 \X PeerKey
    /\ IsGatewayConfig(intended)
    /\ normal \in BOOLEAN

LEMMA TypeSplit == TypeOK <=> DataOK /\ ControlOK
BY DEF TypeOK, DataOK, ControlOK, Labels

LEMMA TypeInit == Init => TypeInv
<1> SUFFICES ASSUME Init PROVE TypeInv
  OBVIOUS
<1>1. IsNetns(NoNetns)
  BY DEF NoNetns, IsNetns
<1>2. Absent \in File
  BY DEF Absent, File
<1>3. IsGatewayConfigPartial(EmptyConfig)
  BY EmptyIsConfig, ConfigIsPartial
<1>4. TypeOK
  <2>1. normal \in BOOLEAN /\ redo \in BOOLEAN
    BY Zenon DEF Init
  <2>2. bridge \in 0 .. BridgeUp
    BY DEF Init, BridgeUp
  <2>3. disk \in [module : File, sites : File]
    BY <1>2 DEF Init
  <2>4. /\ IsGatewayConfigPartial(req) /\ IsGatewayConfig(config)
        /\ IsGatewayConfig(intended) /\ IsNetns(netns)
    BY <1>1, <1>3, EmptyIsConfig, Zenon DEF Init
  <2>5. /\ pc = "startup" /\ kind = "startup" /\ result = "none" /\ chain = "broken"
        /\ todo = {} /\ seen = {} /\ nginx = {} /\ moved = {}
    BY DEF Init
  <2> QED BY <2>1, <2>2, <2>3, <2>4, <2>5 DEF TypeOK
<1>5. StageInv /\ RequestInv /\ FilesInv
  BY DEF Init, StageInv, RequestInv, FilesInv, NetworkStage
<1> QED BY <1>4, <1>5 DEF TypeInv

\* Steps of the daemon outside the two loops.
LEMMA TypeRequests ==
    ASSUME TypeInv,
           \/ Request \/ Fault \/ startup \/ PruneDone \/ NetworksDone
           \/ \E p \in todo : PanicNoAddress(p)
    PROVE  TypeInv'
<1> USE DEF TypeInv
<1>1. ASSUME NEW c \in Configs, apply(c) PROVE TypeInv'
  <2>1. IsGatewayConfig(c) /\ IsGatewayConfigPartial(c)
    BY ConfigsAssumption, ConfigIsPartial
  <2> QED
    BY <1>1, <2>1
    DEF apply, TypeOK, StageInv, RequestInv, FilesInv, NetworkStage, machineVars
<1>2. ASSUME NEW c \in Partials, apply_partial(c) PROVE TypeInv'
  <2>1. IsGatewayConfigPartial(c) /\ IsGatewayConfig(MergePartial(intended, c))
    BY PartialsAssumption, MergeConfig DEF TypeOK
  <2> QED
    BY <1>2, <2>1
    DEF apply_partial, TypeOK, StageInv, RequestInv, FilesInv, NetworkStage, machineVars
<1>3. ASSUME Die PROVE TypeInv'
  BY <1>3
  DEF Die, Killed, TypeOK, StageInv, RequestInv, FilesInv, NetworkStage, machineVars
<1>4. ASSUME Launch, UNCHANGED <<intended, normal>>, disk' \in [module : File, sites : File],
             IsNetns(netns'), bridge' \in 0 .. BridgeUp, nginx' \subseteq Entry,
             moved' \subseteq U16 \X PeerKey,
             chain' \in {"live", "dirty", "orphan", "broken"}
      PROVE TypeInv'
  <2>1. IsGatewayConfigPartial(EmptyConfig)
    BY EmptyIsConfig, ConfigIsPartial
  <2> QED
    BY <1>4, <2>1, EmptyIsConfig
    DEF Launch, TypeOK, StageInv, RequestInv, FilesInv, NetworkStage
<1>5. CASE Restart
  BY <1>4, <1>5 DEF Restart, machineVars, TypeOK
<1>6. CASE ContainerRestart
  <2>1. IsNetns(NoNetns) /\ 0 \in 0 .. BridgeUp
    BY DEF NoNetns, IsNetns, BridgeUp
  <2>2. Absent \in File
    BY DEF Absent, File
  <2>3. disk' \in [module : File, sites : File]
    BY <1>6, <2>2 DEF ContainerRestart, TypeOK
  <2>4. disk'.module.entries \cup disk'.sites.entries \subseteq Entry
    BY <2>3 DEF File
  <2> QED BY <1>4, <1>6, <2>1, <2>3, <2>4 DEF ContainerRestart
<1>7. ASSUME NEW l \in Labels \ ({"sites", "reload"} \cup NetworkStage), Goto(l),
             UNCHANGED <<kind, req, todo, seen, config, machineVars, intended, normal>>
      PROVE  TypeInv'
  <2>1. ControlOK' /\ pc' = l
    BY <1>7, GotoType
  <2>2. DataOK'
    BY <1>7, TypeSplit DEF DataOK, machineVars
  <2>3. TypeOK'
    BY <2>1, <2>2 DEF TypeOK, DataOK, ControlOK, Labels
  <2> QED BY <1>7, <2>1, <2>3 DEF StageInv, RequestInv, FilesInv
<1>8. CASE startup \/ PruneDone \/ NetworksDone
  BY <1>7, <1>8 DEF startup, PruneDone, NetworksDone, Labels, NetworkStage
<1> QED
  BY <1>1, <1>2, <1>3, <1>5, <1>6, <1>8
  DEF Request, Fault, Shutdown, Crash, PanicNoAddress

\* The pieces of TypeInv' put together after a step within a handler.
LEMMA TypeCompose ==
    ASSUME RequestInv, DataOK', ControlOK', StageInv',
           pc' \notin {"sites", "reload"}, UNCHANGED <<kind, req>>
    PROVE  TypeInv'
BY DEF TypeInv, TypeOK, DataOK, ControlOK, Labels, RequestInv, FilesInv

\* After a handler has stopped, nothing is left to show but the data.
LEMMA TypeStop ==
    ASSUME TypeInv, Stop, DataOK', UNCHANGED <<kind, req>>
    PROVE  TypeInv'
<1>1. ControlOK' /\ pc' \in {"idle", "down"}
  BY StopType DEF TypeInv
<1>2. StageInv'
  BY <1>1 DEF StageInv, NetworkStage
<1> QED BY <1>1, <1>2, TypeCompose DEF TypeInv

\* After a handler goes on, the current network must still be one.
LEMMA TypeGoto ==
    ASSUME TypeInv, NEW l \in Labels \ {"sites", "reload"}, Goto(l), DataOK',
           UNCHANGED <<kind, req>>,
           l \in NetworkStage =>
                todo' = todo /\ \A p \in todo : Current(p) => req[p] # None
    PROVE  TypeInv'
<1>1. ControlOK' /\ pc' = l
  BY GotoType DEF TypeInv
<1>2. StageInv'
  BY <1>1 DEF StageInv, Current
<1> QED BY <1>1, <1>2, TypeCompose DEF TypeInv

\* apply_bridge(), netns_list() and the deletion of surplus namespaces.
LEMMA TypePrologue ==
    ASSUME TypeInv, apply_bridge \/ netns_list \/ \E p \in seen : Prune(p)
    PROVE  TypeInv'
<1> USE DEF TypeInv, NetworkStage, Labels
<1>0. DataOK
  BY TypeSplit
<1>1. CASE apply_bridge
  <2>1. DataOK'
    <3>1. bridge \in Nat /\ bridge <= 3
      BY <1>0 DEF DataOK, BridgeUp
    <3>2. bridge' \in 0 .. BridgeUp
      BY <1>1, <3>1 DEF apply_bridge, BridgeUp
    <3> QED BY <1>0, <1>1, <3>2 DEF apply_bridge, DataOK
  <2> QED BY <1>1, <2>1, TypeStop, TypeGoto DEF apply_bridge
<1>2. CASE netns_list
  <2>1. DataOK'
    BY <1>0, <1>2 DEF netns_list, DataOK, IsNetns, machineVars
  <2> QED BY <1>2, <2>1, TypeStop, TypeGoto DEF netns_list
<1>3. CASE \E p \in seen : Prune(p)
  <2>1. DataOK'
    BY <1>0, <1>3, NetnsWithout DEF Prune, DataOK, SetBack
  <2> QED BY <1>3, <2>1, TypeStop, TypeGoto DEF Prune
<1> QED BY <1>1, <1>2, <1>3

\* The steps for one port of the request.
LEMMA TypeNetwork ==
    ASSUME TypeInv, NEW p \in todo,
           \/ RemoveNetwork(p) \/ apply_netns(p) \/ apply_wireguard(p)
           \/ apply_veth(p) \/ apply_forwarding(p)
    PROVE  TypeInv'
<1> USE DEF TypeInv
<1>0. DataOK
  BY TypeSplit
<1>1. CASE RemoveNetwork(p)
  <2>1. DataOK'
    BY <1>0, <1>1, NetnsWithout, WithoutConfig DEF RemoveNetwork, DataOK, SetBack
  <2> QED
    BY <1>1, <2>1, TypeStop, TypeGoto DEF RemoveNetwork, Labels, NetworkStage
<1>2. CASE apply_netns(p)
  <2>1. Current(p) /\ req[p] # None
    BY <1>2 DEF apply_netns
  <2>2. Target(p).listen_port \in U16
    BY <2>1, TargetType
  <2>3. DataOK'
    BY <1>0, <1>2, <2>2, NetnsFresh DEF apply_netns, DataOK
  <2>4. \A q \in todo : Current(q) => req[q] # None
    BY <2>1, CurrentUnique
  <2> QED BY <1>2, <2>3, <2>4, TypeStop, TypeGoto DEF apply_netns, Labels
<1>3. CASE apply_wireguard(p)
  <2>1. Current(p) /\ req[p] # None
    BY <1>3 DEF apply_wireguard, StageInv, NetworkStage
  <2> DEFINE n  == Target(p)
             lp == n.listen_port
  <2>2. n \in NetworkState
    BY <2>1, TargetType
  <2>3. lp \in DOMAIN netns =>
          WireguardDone(netns[lp], n) \in Namespace /\ WireguardPartial(netns[lp], n) \subseteq Namespace
    BY <1>0, <2>2, WireguardType DEF DataOK, IsNetns
  <2>4. IsNetns(netns')
    <3>1. PICK ns : /\ netns' = [netns EXCEPT ![lp] = ns]
                    /\ ns = WireguardDone(netns[lp], n) \/ ns \in WireguardPartial(netns[lp], n)
      BY <1>3 DEF apply_wireguard
    <3>2. lp \in DOMAIN netns => ns \in Namespace
      BY <2>3, <3>1
    <3> QED BY <1>0, <3>1, <3>2, NetnsExcept DEF DataOK
  <2>5. DataOK'
    BY <1>0, <1>3, <2>4 DEF apply_wireguard, DataOK, SetBack
  <2> QED
    BY <1>3, <2>5, TypeStop, TypeGoto DEF apply_wireguard, Labels, StageInv, NetworkStage
<1>4. CASE apply_veth(p)
  <2> DEFINE lp == Target(p).listen_port
  <2>1. PICK k : /\ netns' = [netns EXCEPT ![lp].veth = k]
                 /\ k = VethUp \/ k \in netns[lp].veth .. VethUp
    BY <1>4 DEF apply_veth
  <2>2. lp \in DOMAIN netns => [netns[lp] EXCEPT !.veth = k] \in Namespace
    <3> SUFFICES ASSUME lp \in DOMAIN netns PROVE [netns[lp] EXCEPT !.veth = k] \in Namespace
      OBVIOUS
    <3>1. netns[lp] \in Namespace
      BY <1>0 DEF DataOK, IsNetns
    <3>2. netns[lp].veth \in 0 .. 5
      BY <3>1 DEF Namespace, VethUp
    <3>3. k \in 0 .. 5
      BY <2>1, <3>2 DEF VethUp
    <3> QED BY <3>1, <3>3 DEF Namespace, VethUp
  <2>3. netns' = [netns EXCEPT ![lp] = [netns[lp] EXCEPT !.veth = k]]
    BY <2>1
  <2>4. IsNetns(netns')
    BY <1>0, <2>2, <2>3, NetnsExcept DEF DataOK
  <2>5. DataOK'
    BY <1>0, <1>4, <2>4 DEF apply_veth, DataOK
  <2> QED
    BY <1>4, <2>5, TypeStop, TypeGoto DEF apply_veth, Labels, StageInv, NetworkStage
<1>5. CASE apply_forwarding(p)
  <2>1. Current(p) /\ req[p] # None
    BY <1>5 DEF apply_forwarding, StageInv, NetworkStage
  <2> DEFINE n  == Target(p)
             lp == n.listen_port
  <2>2. p \in U16 /\ req[p] \in NetworkState /\ n \in NetworkState
    BY <2>1, TargetType
  <2>3. port_config(n) \in NatTable
    BY <1>5, <2>2, PortConfigType DEF apply_forwarding
  <2>4. lp \in DOMAIN netns => [netns[lp] EXCEPT !.nat = port_config(n)] \in Namespace
    BY <1>0, <2>3 DEF DataOK, IsNetns, Namespace
  <2>5. IsNetns([netns EXCEPT ![lp] = [netns[lp] EXCEPT !.nat = port_config(n)]])
    BY <1>0, <2>4, NetnsExcept DEF DataOK
  <2>6. IsNetns(netns')
    BY <1>0, <1>5, <2>5 DEF apply_forwarding, DataOK
  <2>7. IsGatewayConfig(config') /\ todo' \subseteq DOMAIN req
    BY <1>0, <1>5, <2>2, WithConfig DEF apply_forwarding, DataOK
  <2>8. DataOK'
    BY <1>0, <1>5, <2>6, <2>7 DEF apply_forwarding, DataOK
  <2> QED
    BY <1>5, <2>8, TypeStop, TypeGoto DEF apply_forwarding, Labels, NetworkStage
<1> QED BY <1>1, <1>2, <1>3, <1>4, <1>5

\* apply_nginx().
LEMMA TypeNginx ==
    ASSUME TypeInv, WriteModule \/ WriteSites \/ nginx_reload
    PROVE  TypeInv'
<1> USE DEF TypeInv
<1>0. DataOK
  BY TypeSplit
<1>1. \A scheme : Written(OfScheme(NginxTarget, scheme)) \in File
  BY TargetEntries DEF Written, OfScheme, File
<1>2. Torn \in File /\ Written({}) \in File
  BY DEF Torn, Written, File
<1>3. CASE WriteModule
  <2>1. DataOK'
    BY <1>0, <1>1, <1>2, <1>3 DEF WriteModule, DataOK
  <2>2. CASE Stop
    BY <1>3, <2>1, <2>2, TypeStop DEF WriteModule
  <2>3. CASE disk' = [disk EXCEPT !.module = Written(OfScheme(NginxTarget, "https"))] /\ Goto("sites")
    <3>1. ControlOK' /\ pc' = "sites"
      BY <2>3, GotoType DEF Labels
    <3>2. TypeOK'
      BY <2>1, <3>1 DEF TypeOK, DataOK, ControlOK, Labels
    <3>3. NginxTarget' = NginxTarget
      BY <1>3 DEF WriteModule, NginxTarget, NginxNetworks
    <3>4. disk'.module = Written(OfScheme(NginxTarget, "https"))
      BY <1>0, <2>3 DEF DataOK
    <3> QED
      BY <1>3, <3>1, <3>2, <3>3, <3>4
      DEF WriteModule, StageInv, RequestInv, FilesInv, NetworkStage
  <2> QED BY <1>3, <2>2, <2>3 DEF WriteModule
<1>4. CASE WriteSites
  <2>1. DataOK'
    BY <1>0, <1>1, <1>2, <1>4 DEF WriteSites, DataOK
  <2>2. CASE Stop
    BY <1>4, <2>1, <2>2, TypeStop DEF WriteSites
  <2>3. CASE disk' = [disk EXCEPT !.sites = Written(OfScheme(NginxTarget, "http"))] /\ Goto("reload")
    <3>1. ControlOK' /\ pc' = "reload"
      BY <2>3, GotoType DEF Labels
    <3>2. TypeOK'
      BY <2>1, <3>1 DEF TypeOK, DataOK, ControlOK, Labels
    <3>3. NginxTarget' = NginxTarget
      BY <1>4 DEF WriteSites, NginxTarget, NginxNetworks
    <3>4. disk'.sites = Written(OfScheme(NginxTarget, "http")) /\ disk'.module = disk.module
      BY <1>0, <2>3 DEF DataOK
    <3>5. disk.module = Written(OfScheme(NginxTarget, "https"))
      BY <1>4 DEF WriteSites, FilesInv
    <3> QED
      BY <1>4, <3>1, <3>2, <3>3, <3>4, <3>5
      DEF WriteSites, StageInv, RequestInv, FilesInv, NetworkStage
  <2> QED BY <1>4, <2>2, <2>3 DEF WriteSites
<1>5. CASE nginx_reload
  <2>1. disk.module.entries \cup disk.sites.entries \subseteq Entry
    BY <1>0 DEF DataOK, File
  <2>2. DataOK'
    BY <1>0, <1>5, <2>1 DEF nginx_reload, DataOK
  <2>3. CASE Stop
    BY <1>5, <2>2, <2>3, TypeStop DEF nginx_reload
  <2>4. CASE Finish
    <3>1. ControlOK' /\ pc' = "idle"
      BY <2>4 DEF Finish, ControlOK, TypeOK, Labels
    <3> QED
      BY <1>5, <2>2, <3>1, TypeCompose DEF nginx_reload, StageInv, NetworkStage
  <2> QED BY <1>5, <2>3, <2>4 DEF nginx_reload, Stop
<1> QED BY <1>3, <1>4, <1>5

\* A peer that moves is one of an interface.
LEMMA TypeRoam == ASSUME TypeInv, Roam PROVE moved' \subseteq U16 \X PeerKey
<1>1. PICK p \in DOMAIN netns :
        /\ netns[p].conf # None
        /\ \E k \in DOMAIN netns[p].conf.peers :
             moved' \in {moved \cup {<<p, k>>}, moved \ {<<p, k>>}}
  BY DEF Roam
<1>2. PICK k \in DOMAIN netns[p].conf.peers :
        moved' \in {moved \cup {<<p, k>>}, moved \ {<<p, k>>}}
  BY <1>1
<1>3. p \in U16 /\ netns[p] \in Namespace
  BY DEF TypeInv, TypeOK, IsNetns
<1>4. netns[p].conf \in WireguardConf
  BY <1>1, <1>3 DEF Namespace
<1>5. PICK peers \in PeerMap : netns[p].conf.peers = PeersConfig(peers)
  BY <1>4 DEF WireguardConf
<1>6. k \in PeerKey
  BY <1>2, <1>5 DEF PeersConfig, PeerKey
<1>7. moved \subseteq U16 \X PeerKey
  BY DEF TypeInv, TypeOK
<1> QED BY <1>2, <1>3, <1>6, <1>7

\* A step of the daemon, or one that at most moves a peer.
LEMMA StepCases ==
    ASSUME [Next]_vars
    PROVE  Request \/ Handle \/ Fault \/ UNCHANGED coreVars
BY DEF Next, Roam, vars

\* A step that leaves everything but the endpoints of peers alone.
LEMMA TypeStutter ==
    ASSUME TypeInv, UNCHANGED coreVars, moved' \subseteq U16 \X PeerKey
    PROVE  TypeInv'
BY DEF coreVars, taskVars, historyVars, TypeInv, TypeOK, StageInv,
       RequestInv, FilesInv, Current, NginxTarget, NginxNetworks

\* Every step keeps the types.
LEMMA TypeNext == TypeInv /\ [Next]_vars => TypeInv'
<1> SUFFICES ASSUME TypeInv, [Next]_vars PROVE TypeInv'
  OBVIOUS
<1>1. CASE UNCHANGED vars
  BY <1>1, TypeStutter DEF vars, TypeInv, TypeOK
<1>2. CASE Next
  <2>1. CASE Roam
    BY <2>1, TypeRoam, TypeStutter DEF Roam
  <2> QED
    BY <1>2, <2>1, TypeRequests, TypePrologue, TypeNetwork, TypeNginx
    DEF Next, Handle, Request, Fault
<1> QED BY <1>1, <1>2

\* Every variable always has its type, for all configurations: in particular
\* the handlers' loops never leave the request, and what ends up in the
\* daemon's memory is a configuration without None entries.
THEOREM TypeCorrect == Spec => []TypeOK
<1>1. TypeInv => TypeOK
  BY DEF TypeInv
<1> QED BY TypeInit, TypeNext, <1>1, PTL DEF Spec

=============================================================================
