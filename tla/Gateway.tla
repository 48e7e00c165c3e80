------------------------------ MODULE Gateway -------------------------------
(***************************************************************************)
(* The gateway daemon applying configurations (src/gateway.rs), driven by  *)
(* the requests of its manager (the Apply, ApplyPartial and Shutdown arms  *)
(* of src/websocket.rs) on a machine that can fail any command, and whose  *)
(* daemon or container can die between any two commands.                   *)
(*                                                                         *)
(* One task serves the manager's requests one at a time.  Every external   *)
(* command it runs (ip, wg, iptables, nginx, file writes) either takes     *)
(* effect or fails and leaves its target alone (a failed file write may    *)
(* also leave an empty or a torn one), and a failed command makes the      *)
(* handler return early.  The functions that issue several commands for one*)
(* namespace (apply_bridge, apply_wireguard, apply_veth) are one action    *)
(* each: it runs all commands, or a prefix of them and then fails or dies. *)
(* No other task writes what they write, so nothing is lost by that.       *)
(***************************************************************************)
EXTENDS NetworkTypes

CONSTANTS
    Configs,      \* the configurations the manager may send in full
    Partials,     \* the partial configurations the manager may send
    Custom        \* Options.custom_forwarding, a set of [url, socket] records

ASSUME ConfigsAssumption  == \A c \in Configs : IsGatewayConfig(c)
ASSUME PartialsAssumption == \A c \in Partials : IsGatewayConfigPartial(c)
ASSUME CustomAssumption   == CustomForwarding(Custom) \subseteq Entry
ASSUME NoneAssumption     == None \notin NetworkState \cup WireguardConf \cup NatTable

VARIABLES
    \* The task of connect_run and the handler it is in.
    pc,           \* where the task is; "down" when the daemon does not run
    kind,         \* "startup", "apply" or "partial": the handler run last
    req,          \* the configuration given to that handler
    todo,         \* ports of req the handler's loop has not finished
    seen,         \* the handler's snapshot of the existing namespaces
    config,       \* Global.lock: the GatewayConfig the daemon remembers
    result,       \* GatewayResponse::Apply: "none", "pending", "ok", "err"
    \* The machine.
    bridge,       \* how far ensbr0 is: 0 absent, 1 exists, 2 addressed, 3 up
    netns,        \* the namespaces network-<port>, by port
    disk,         \* the two NGINX configuration files
    nginx,        \* the forwarding entries the running NGINX uses
    moved,        \* <<port, key>> of the peers that the kernel has elsewhere
                  \* than at the endpoint of the configuration loaded
    \* History of the manager's side, never read by the daemon.
    intended,     \* the manager's own copy of the gateway's configuration
    chain,        \* "live": every request since the last full Apply was
                  \* answered Ok; "dirty": likewise, except that the last one
                  \* was a partial one (req) and failed; "orphan": as "live",
                  \* but the daemon has died since; "broken" otherwise
    normal,       \* no partial request met or carried a listen_port that
                  \* differs from its key, since the last full Apply
    redo          \* the handler applies in full what is in place already

taskVars    == <<pc, kind, req, todo, seen, config, result>>
machineVars == <<bridge, netns, disk, nginx, moved>>
historyVars == <<intended, chain, normal, redo>>
coreVars    == <<taskVars, bridge, netns, disk, nginx, historyVars>>
vars        == <<coreVars, moved>>

-----------------------------------------------------------------------------
(***************************************************************************)
(* The machine.  A namespace holds one WireGuard interface, one end of a   *)
(* veth pair and a NAT table.  The veth pair is only ever set up further,  *)
(* and its address follows from the port, so how far it is says it all:    *)
(* 0 absent, 1 exists, 2 addressed, 3 in the bridge, 4 inner end up, 5     *)
(* outer end up.                                                           *)
(***************************************************************************)
BridgeUp == 3
VethUp   == 5

\* MTU the kernel gives to a new WireGuard interface.
WG_DEFAULT_MTU == 1420

FreshNamespace ==
    [ wg |-> FALSE, mtu |-> 0, up |-> FALSE, addr |-> {}, conf |-> None,
      veth |-> 0, nat |-> None ]

Namespace ==
    [ wg : BOOLEAN, mtu : Nat, up : BOOLEAN, addr : SUBSET IpNet,
      conf : WireguardConf \cup {None}, veth : 0 .. VethUp,
      nat : NatTable \cup {None} ]

IsNetns(f) == DOMAIN f \subseteq U16 /\ f \in [DOMAIN f -> Namespace]

\* An NGINX configuration file; a write that fails half way leaves it torn.
File == [state : {"absent", "torn", "written"}, entries : SUBSET Entry]

Absent     == [state |-> "absent", entries |-> {}]
Torn       == [state |-> "torn", entries |-> {}]
Written(e) == [state |-> "written", entries |-> e]

NoNetns == [p \in {} |-> FreshNamespace]

PeerKey == UNION { DOMAIN peers : peers \in PeerMap }

\* Packets of a peer with a configured endpoint come from elsewhere, or from
\* there again. Where peers without one are does not depend on what is loaded.
Roam ==
    /\ \E p \in DOMAIN netns :
        /\ netns[p].conf # None
        /\ \E k \in DOMAIN netns[p].conf.peers :
            /\ netns[p].conf.peers[k].endpoint # None
            /\ moved' \in {moved \cup {<<p, k>>}, moved \ {<<p, k>>}}
    /\ UNCHANGED coreVars

\* The namespace of a port is deleted, or wg syncconf loads a file into its
\* interface, which sets every Endpoint in the file.
SetBack(p) == moved' = { x \in moved : x[1] # p }

-----------------------------------------------------------------------------
(***************************************************************************)
(* Leaving a handler, and leaving the daemon.                              *)
(***************************************************************************)

\* The next command is at l, in the same handler.
Goto(l) == pc' = l /\ UNCHANGED <<result, chain, redo>>

\* Seeded fault: a failed command is answered Ok.
AbortOk ==
    /\ pc' = IF kind = "startup" THEN "down" ELSE "idle"
    /\ result' = IF kind = "startup" THEN result ELSE "ok"
    /\ chain' = IF kind = "partial" /\ chain \in {"live", "dirty"}
                THEN "dirty" ELSE "broken"
    /\ redo' = FALSE

\* A command failed: the handler returns its error.  connect_run sends it to
\* the manager and waits for the next message; an error of startup() ends the
\* daemon.
Abort ==
    /\ pc' = IF kind = "startup" THEN "down" ELSE "idle"
    /\ result' = IF kind = "startup" THEN result ELSE "err"
    /\ chain' = IF kind = "partial" /\ chain \in {"live", "dirty"}
                THEN "dirty" ELSE "broken"
    /\ redo' = FALSE

\* Seeded fault: no answer is sent for an Ok.
FinishSilently ==
    /\ pc' = "idle"
    /\ result' = result
    /\ chain' = IF kind = "apply" \/ chain = "dirty" THEN "live" ELSE chain
    /\ redo' = FALSE

\* The handler reached its Ok(()).
Finish ==
    /\ pc' = "idle"
    /\ result' = IF kind = "startup" THEN result ELSE "ok"
    /\ chain' = IF kind = "apply" \/ chain = "dirty" THEN "live" ELSE chain
    /\ redo' = FALSE

\* The daemon is gone, the request it handled is never answered.
Killed ==
    /\ pc' = "down"
    /\ result' = "none"
    /\ chain' = IF pc \in {"idle", "startup"} /\ chain \in {"live", "orphan"}
                THEN "orphan" ELSE "broken"
    /\ redo' = FALSE

\* The handler gets no further than what it just did.
Stop == Abort \/ Killed

\* The daemon is gone; what it put in place stays.
Die ==
    /\ Killed
    /\ UNCHANGED <<kind, req, todo, seen, config, machineVars, intended, normal>>

-----------------------------------------------------------------------------
(***************************************************************************)
(* Requests.                                                               *)
(***************************************************************************)

\* apply(): the new configuration is remembered before anything is done.
apply(c) ==
    /\ pc = "idle"
    /\ pc' = "bridge"
    /\ kind' = "apply"
    /\ req' = c
    /\ todo' = DOMAIN c
    /\ seen' = {}
    /\ config' = c
    /\ result' = "pending"
    /\ intended' = c
    /\ normal' = TRUE
    /\ redo' = (chain \in {"live", "orphan"} /\ normal /\ c = intended)
    /\ UNCHANGED <<machineVars, chain>>

\* apply_partial(): the remembered configuration follows entry by entry.
apply_partial(c) ==
    /\ pc = "idle"
    /\ pc' = "bridge"
    /\ kind' = "partial"
    /\ req' = c
    /\ todo' = DOMAIN c
    /\ seen' = {}
    /\ result' = "pending"
    /\ intended' = MergePartial(intended, c)
    /\ normal' = (normal /\ PortsAgree(config) /\ PortsAgree(c))
    /\ chain' = IF chain = "live" \/ (chain = "dirty" /\ DOMAIN req \subseteq DOMAIN c)
                THEN chain ELSE "broken"
    /\ redo' = FALSE
    /\ UNCHANGED <<config, machineVars>>

\* A Shutdown message ends connect(), and with it the daemon.
Shutdown == pc = "idle" /\ Die

-----------------------------------------------------------------------------
(***************************************************************************)
(* The steps of apply() and apply_partial().                               *)
(***************************************************************************)

\* The ports of a BTreeMap are visited in ascending order.
Current(p) == p \in todo /\ \A q \in todo : p <= q

\* The network the loop applies for port p: apply() overrides its listen_port.
Target(p) == IF kind = "apply" THEN WithListenPort(req[p], p) ELSE req[p]

\* apply_bridge(): create ensbr0, add its address, bring it up.
apply_bridge ==
    /\ pc = "bridge"
    /\ \/ bridge' = BridgeUp /\ Goto("list")
       \/ bridge' \in bridge .. BridgeUp /\ Stop
    /\ UNCHANGED <<kind, req, todo, seen, config, netns, disk, nginx, moved, intended, normal>>

\* Seeded fault: a partial apply, too, deletes the namespaces it does not name.
netns_list_prunes ==
    /\ pc = "list"
    /\ \/ seen' = DOMAIN netns /\ Goto("prune")
       \/ seen' = seen /\ Stop
    /\ UNCHANGED <<kind, req, todo, config, machineVars, intended, normal>>

\* netns_list(): which namespaces exist right now.
netns_list ==
    /\ pc = "list"
    /\ \/ seen' = DOMAIN netns /\ Goto(IF kind = "apply" THEN "prune" ELSE "next")
       \/ seen' = seen /\ Stop
    /\ UNCHANGED <<kind, req, todo, config, machineVars, intended, normal>>

\* apply(): delete a namespace that exists but is not expected; a namespace
\* takes its interfaces and its NAT table along.
Prune(p) ==
    /\ pc = "prune"
    /\ p \in seen \ DOMAIN req
    /\ \/ netns' = Without(netns, p) /\ SetBack(p) /\ seen' = seen \ {p} /\ Goto("prune")
       \/ UNCHANGED <<netns, moved, seen>> /\ Stop
    /\ UNCHANGED <<kind, req, todo, config, bridge, disk, nginx, intended, normal>>

PruneDone ==
    /\ pc = "prune"
    /\ seen \subseteq DOMAIN req
    /\ Goto("next")
    /\ UNCHANGED <<kind, req, todo, seen, config, machineVars, intended, normal>>

\* apply_partial(), None: the network is forgotten, then its namespace is
\* deleted if the snapshot has it.
RemoveNetwork(p) ==
    /\ pc = "next"
    /\ Current(p)
    /\ req[p] = None
    /\ config' = Without(config, p)
    /\ todo' = todo \ {p}
    /\ \/ /\ IF p \in seen THEN netns' = Without(netns, p) /\ SetBack(p)
             ELSE UNCHANGED <<netns, moved>>
          /\ Goto("next")
       \/ p \in seen /\ UNCHANGED <<netns, moved>> /\ Stop
    /\ UNCHANGED <<kind, req, seen, bridge, disk, nginx, intended, normal>>

\* apply_netns(): make sure the namespace of the current network exists.
apply_netns(p) ==
    /\ pc = "next"
    /\ Current(p)
    /\ req[p] # None
    /\ LET lp == Target(p).listen_port IN
        \/ /\ netns' = IF lp \in DOMAIN netns THEN netns
                       ELSE With(netns, lp, FreshNamespace)
           /\ Goto("wireguard")
        \/ netns' = netns /\ Stop
    /\ UNCHANGED <<kind, req, todo, seen, config, bridge, disk, nginx, moved, intended, normal>>

(***************************************************************************)
(* apply_wireguard(): create the interface, set its MTU, bring it up, add  *)
(* the addresses that are missing and load the configuration file written  *)
(* just before.  Every command is skipped when its effect is there.        *)
(***************************************************************************)
\* Seeded fault: an existing interface is created anew.
WireguardRecreated(ns) ==
    [ wg |-> TRUE, mtu |-> WG_DEFAULT_MTU, up |-> FALSE, addr |-> {},
      conf |-> None, veth |-> ns.veth, nat |-> ns.nat ]

WireguardCreated(ns) ==
    IF ns.wg THEN ns
    ELSE [ wg |-> TRUE, mtu |-> WG_DEFAULT_MTU, up |-> FALSE, addr |-> {},
           conf |-> None, veth |-> ns.veth, nat |-> ns.nat ]

\* Seeded fault: the MTU is set on a new interface only.
WireguardMtuOnce(ns, network) ==
    IF ns.wg THEN ns ELSE [WireguardCreated(ns) EXCEPT !.mtu = network.mtu]

WireguardMtu(ns, network) == [WireguardCreated(ns) EXCEPT !.mtu = network.mtu]

\* apply_addr() has added the first i addresses; it never removes one.
WireguardAddr(ns, network, i) ==
    LET up == [WireguardMtu(ns, network) EXCEPT !.up = TRUE]
    IN  [up EXCEPT !.addr = @ \cup { network.address[k] : k \in 1 .. i }]

\* Seeded fault: an interface that is configured is not configured again.
WireguardDoneOnce(ns, network) ==
    [WireguardAddr(ns, network, Len(network.address))
        EXCEPT !.conf = IF ns.conf = None THEN to_config(network) ELSE ns.conf]

WireguardDone(ns, network) ==
    [WireguardAddr(ns, network, Len(network.address))
        EXCEPT !.conf = to_config(network)]

\* Seeded fault: a failure removes the interface.
WireguardRemoved(ns, network) == { [FreshNamespace EXCEPT !.veth = ns.veth, !.nat = ns.nat] }

WireguardPartial(ns, network) ==
    { ns, WireguardCreated(ns), WireguardMtu(ns, network) }
        \cup { WireguardAddr(ns, network, i) : i \in 0 .. Len(network.address) }

apply_wireguard(p) ==
    /\ pc = "wireguard"
    /\ Current(p)
    /\ LET network == Target(p)
           lp      == network.listen_port
       IN  \/ /\ netns' = [netns EXCEPT ![lp] = WireguardDone(netns[lp], network)]
              /\ SetBack(lp)
              /\ Goto("veth")
           \/ /\ \E ns \in WireguardPartial(netns[lp], network) :
                    netns' = [netns EXCEPT ![lp] = ns]
              /\ moved' = moved
              /\ Stop
    /\ UNCHANGED <<kind, req, todo, seen, config, bridge, disk, nginx, intended, normal>>

\* apply_veth(): create the pair, address the inner end, put the outer end
\* into the bridge, bring both up.
apply_veth(p) ==
    /\ pc = "veth"
    /\ Current(p)
    /\ LET lp == Target(p).listen_port IN
        \/ netns' = [netns EXCEPT ![lp].veth = VethUp] /\ Goto("forwarding")
        \/ /\ \E k \in netns[lp].veth .. VethUp : netns' = [netns EXCEPT ![lp].veth = k]
           /\ Stop
    /\ UNCHANGED <<kind, req, todo, seen, config, bridge, disk, nginx, moved, intended, normal>>

\* apply_forwarding(): replace the NAT table if it is not the wanted one.
\* That ends the iteration: apply_partial() now remembers the network.
apply_forwarding(p) ==
    /\ pc = "forwarding"
    /\ Current(p)
    /\ Target(p).address # <<>>
    /\ \/ /\ netns' = [netns EXCEPT ![Target(p).listen_port].nat = port_config(Target(p))]
          /\ config' = IF kind = "apply" THEN config ELSE With(config, p, req[p])
          /\ todo' = todo \ {p}
          /\ Goto("next")
       \/ UNCHANGED <<netns, config, todo>> /\ Stop
    /\ UNCHANGED <<kind, req, seen, bridge, disk, nginx, moved, intended, normal>>

\* port_config() unwraps address.first(): a network without an address
\* panics the daemon.
PanicNoAddress(p) ==
    /\ pc = "forwarding"
    /\ Current(p)
    /\ Target(p).address = <<>>
    /\ Die

NetworksDone ==
    /\ pc = "next"
    /\ todo = {}
    /\ Goto("module")
    /\ UNCHANGED <<kind, req, todo, seen, config, machineVars, intended, normal>>

-----------------------------------------------------------------------------
(***************************************************************************)
(* apply_nginx(): write the two files, reload NGINX.  startup() gives it   *)
(* no network, apply() the normalised networks of the request, and         *)
(* apply_partial() the networks the daemon remembers, as they are.         *)
(***************************************************************************)
NginxNetworks ==
    CASE kind = "startup" -> {}
      [] kind = "apply"   -> { WithListenPort(req[p], p) : p \in DOMAIN req }
      [] kind = "partial" -> { config[p] : p \in DOMAIN config }

NginxTarget == Forwarding(NginxNetworks, Custom)

WriteModule ==
    /\ pc = "module"
    /\ \/ disk' = [disk EXCEPT !.module = Written(OfScheme(NginxTarget, "https"))] /\ Goto("sites")
       \/ disk' \in {disk, [disk EXCEPT !.module = Torn], [disk EXCEPT !.module = Written({})]} /\ Stop
    /\ UNCHANGED <<kind, req, todo, seen, config, bridge, netns, nginx, moved, intended, normal>>

WriteSites ==
    /\ pc = "sites"
    /\ \/ disk' = [disk EXCEPT !.sites = Written(OfScheme(NginxTarget, "http"))] /\ Goto("reload")
       \/ disk' \in {disk, [disk EXCEPT !.sites = Torn], [disk EXCEPT !.sites = Written({})]} /\ Stop
    /\ UNCHANGED <<kind, req, todo, seen, config, bridge, netns, nginx, moved, intended, normal>>

nginx_reload ==
    /\ pc = "reload"
    /\ \/ nginx' = disk.module.entries \cup disk.sites.entries /\ Finish
       \/ nginx' = nginx /\ Abort
       \/ nginx' \in {nginx, disk.module.entries \cup disk.sites.entries} /\ Killed
    /\ UNCHANGED <<kind, req, todo, seen, config, bridge, netns, disk, moved, intended, normal>>

-----------------------------------------------------------------------------
(***************************************************************************)
(* Death and restart.                                                      *)
(***************************************************************************)

\* The daemon dies between two commands.
Crash == pc # "down" /\ Die

\* A new daemon remembers nothing.
Launch ==
    /\ pc = "down"
    /\ pc' = "startup"
    /\ kind' = "startup"
    /\ req' = EmptyConfig
    /\ todo' = {}
    /\ seen' = {}
    /\ config' = EmptyConfig
    /\ result' = "none"
    /\ redo' = FALSE

Restart == Launch /\ UNCHANGED <<machineVars, intended, chain, normal>>

\* entrypoint.sh: the namespaces are cleared, NGINX is launched (it does not
\* come up on a torn file, and the daemon is not started before it is up),
\* then the daemon. A new container has no configuration files.
ContainerRestart ==
    /\ Launch
    /\ disk' \in {disk, [module |-> Absent, sites |-> Absent]}
    /\ "torn" \notin {disk'.module.state, disk'.sites.state}
    /\ bridge' = 0
    /\ netns' = NoNetns
    /\ moved' = {}
    /\ nginx' = disk'.module.entries \cup disk'.sites.entries
    /\ chain' = "broken"
    /\ UNCHANGED <<intended, normal>>

\* startup(): write a first NGINX configuration unless the module file exists.
startup ==
    /\ pc = "startup"
    /\ IF disk.module.state = "absent" THEN Goto("module") ELSE Goto("idle")
    /\ UNCHANGED <<kind, req, todo, seen, config, machineVars, intended, normal>>

-----------------------------------------------------------------------------
Init ==
    /\ pc = "startup"
    /\ kind = "startup"
    /\ req = EmptyConfig
    /\ todo = {}
    /\ seen = {}
    /\ config = EmptyConfig
    /\ result = "none"
    /\ bridge = 0
    /\ netns = NoNetns
    /\ disk = [module |-> Absent, sites |-> Absent]
    /\ nginx = {}
    /\ moved = {}
    /\ intended = EmptyConfig
    /\ chain = "broken"
    /\ normal = TRUE
    /\ redo = FALSE

Request ==
    \/ \E c \in Configs : apply(c)
    \/ \E c \in Partials : apply_partial(c)
    \/ Shutdown

\* One step of the handler the task is in.
Handle ==
    \/ startup
    \/ apply_bridge
    \/ netns_list
    \/ \E p \in seen : Prune(p)
    \/ PruneDone
    \/ \E p \in todo :
        \/ RemoveNetwork(p)
        \/ apply_netns(p)
        \/ apply_wireguard(p)
        \/ apply_veth(p)
        \/ apply_forwarding(p)
        \/ PanicNoAddress(p)
    \/ NetworksDone
    \/ WriteModule \/ WriteSites \/ nginx_reload

Fault == Crash \/ Restart \/ ContainerRestart

Next == Request \/ Handle \/ Fault \/ Roam

Spec == Init /\ [][Next]_vars

\* Every command terminates: the task keeps going while it is in a handler.
FairSpec == Spec /\ WF_vars(Handle)

-----------------------------------------------------------------------------
(***************************************************************************)
(* Properties.                                                             *)
(***************************************************************************)

\* Every variable has its type; in particular the handler's loop variables
\* only hold ports of the request, as the loops of apply() and
\* apply_partial() do.
TypeOK ==
    /\ pc \in {"down", "startup", "idle", "bridge", "list", "prune", "next",
              "wireguard", "veth", "forwarding", "module", "sites", "reload"}
    /\ kind \in {"startup", "apply", "partial"}
    /\ IsGatewayConfigPartial(req)
    /\ todo \subseteq DOMAIN req
    /\ seen \subseteq U16
    /\ IsGatewayConfig(config)
    /\ result \in {"none", "pending", "ok", "err"}
    /\ bridge \in 0 .. BridgeUp
    /\ IsNetns(netns)
    /\ disk \in [module : File, sites : File]
    /\ nginx \subseteq Entry
    /\ moved \subseteq U16 \X PeerKey
    /\ IsGatewayConfig(intended)
    /\ chain \in {"live", "dirty", "orphan", "broken"}
    /\ normal \in BOOLEAN
    /\ redo \in BOOLEAN

\* A namespace is what apply_network() makes of a network, which it can only
\* do for one with an address.
NetworkInPlace(ns, network) ==
    /\ network.address # <<>>
    /\ ns.wg
    /\ ns.mtu = network.mtu
    /\ ns.up
    /\ ToSet(network.address) \subseteq ns.addr
    /\ ns.conf = to_config(network)
    /\ ns.veth = VethUp
    /\ ns.nat = port_config(network)

\* The NGINX entries of a configuration.
ForwardingOf(c) == Forwarding({ WithListenPort(c[p], p) : p \in DOMAIN c }, Custom)

\* The machine is what configuration c asks for: the bridge, one namespace
\* per network and no other, the files of NGINX and the running NGINX.
InPlace(c) ==
    /\ bridge = BridgeUp
    /\ DOMAIN netns = DOMAIN c
    /\ \A p \in DOMAIN c : NetworkInPlace(netns[p], WithListenPort(c[p], p))
    /\ disk = [ module |-> Written(OfScheme(ForwardingOf(c), "https")),
                sites  |-> Written(OfScheme(ForwardingOf(c), "http")) ]
    /\ nginx = ForwardingOf(c)

Quiescent == pc \in {"idle", "down", "startup"}

\* A request is being handled.
Busy == ~Quiescent /\ kind # "startup"

\* The manager may rely on the answers it got.
Promised == Quiescent /\ chain \in {"live", "orphan"} /\ normal

(***************************************************************************)
(* When the last full Apply and every partial apply after it were answered *)
(* Ok (a failed partial apply may have been repeated until it succeeded),  *)
(* the machine is exactly what the manager's copy of the configuration,    *)
(* merged with the client library's apply_partial, asks for - whatever     *)
(* failed or crashed before that Apply, and also after the daemon has died *)
(* and started again without a request.                                    *)
(***************************************************************************)
InSync == Promised => InPlace(intended)

(***************************************************************************)
(* The route of a request for a host: NGINX picks a socket of the host's   *)
(* upstream, the bridge leads to the namespace that owns the address, its  *)
(* NAT table rewrites the port to a backend behind the WireGuard interface.*)
(* The bridge's own address leads nowhere.                                 *)
(***************************************************************************)
Reachable(p) ==
    /\ bridge = BridgeUp
    /\ netns[p].veth = VethUp
    /\ netns[p].wg /\ netns[p].up /\ netns[p].conf # None
    /\ netns[p].nat # None

RoutesVia(e, p) ==
    IF Reachable(p) /\ e[3].ip = veth_addr(p) /\ e[3].ip # BRIDGE_ADDR
    THEN { [scheme |-> e[1], host |-> e[2], port |-> p, backend |-> m.out] :
             m \in { x \in netns[p].nat.mappings : x.port_in = e[3].port } }
    ELSE {}

Routes == UNION { RoutesVia(e, p) : e \in nginx, p \in DOMAIN netns }

(***************************************************************************)
(* End to end: the numbering of port_mappings(), shared by the NGINX       *)
(* upstreams and the NAT tables of all namespaces, leads every http and    *)
(* https host to exactly the backends its networks list for it.            *)
(***************************************************************************)
RoutesExact == Promised => Routes = RoutesOf(intended)

(***************************************************************************)
(* What RoutesExact takes from the requests and the options, and the code  *)
(* does not check: a network has no more backends than a u16 can number,   *)
(* none has the port whose veth address is the bridge's own, and redirects *)
(* of the command line lead outside the bridge network.                    *)
(***************************************************************************)
Routable ==
    /\ \A c \in Configs \cup Partials : \A p \in DOMAIN c : c[p] # None =>
         p # 1 /\ Cardinality(Slots(c[p])) <= 65536
    /\ \A e \in CustomForwarding(Custom), p \in U16 : e[3].ip # veth_addr(p)

\* The daemon's own configuration is the manager's copy of it, although one
\* is updated entry by entry in apply_partial() and lost in a restart.
RememberedAsIntended == pc = "idle" /\ chain = "live" => config = intended

(***************************************************************************)
(* While a partial apply runs, and when it fails half way or the daemon    *)
(* dies in it, no route of a network it does not name changes.             *)
(***************************************************************************)
RoutesOutside(S) == { r \in Routes : r.port \notin S }

BystandersUndisturbed ==
    [][ kind = "partial" /\ ~Quiescent /\ chain \in {"live", "dirty"} /\ normal
        => RoutesOutside(DOMAIN req)' = RoutesOutside(DOMAIN req) ]_vars

(***************************************************************************)
(* What an apply() of the configuration in place does, also one that fails *)
(* or that a restarted daemon does: no interface, address, key, peer, NAT  *)
(* table or forwarding changes.  What it does change is the endpoint of    *)
(* the peers that have moved, which loading the same file sets back.       *)
(***************************************************************************)
ReapplySetsBackOnly ==
    [][ redo => /\ UNCHANGED <<bridge, netns, nginx>>
                /\ \/ UNCHANGED moved
                   \/ UNCHANGED taskVars
                   \/ pc = "wireguard" /\ moved' \subseteq moved ]_vars

(***************************************************************************)
(* What the watchdog, which polls all the time, can find: interfaces       *)
(* change only while a request is handled, one namespace is deleted, added *)
(* or given one of the requested networks at a time, and one that has a    *)
(* key keeps a key until it is deleted, however an apply fails or dies.    *)
(* Daemon takes its applies from here.                                     *)
(***************************************************************************)
Polled(network) == [key |-> network.private_key, peers |-> DOMAIN network.peers]

Interfaces == [p \in DOMAIN netns |-> IF netns[p].conf = None THEN None ELSE Polled(netns[p].conf)]

AskedFor(p) ==
    UNION { { Polled(c[q]) : q \in { x \in DOMAIN c : c[x] # None /\ p \in {x, c[x].listen_port} } } :
            c \in Configs \cup Partials }

InterfaceDeleted(p)    == Interfaces' = Without(Interfaces, p)
InterfaceAdded(p)      == p \notin DOMAIN netns /\ Interfaces' = With(Interfaces, p, None)
InterfaceConfigured(p) == \E i \in AskedFor(p) : Interfaces' = [Interfaces EXCEPT ![p] = i]

InterfacesChangeInApply ==
    [][ \/ UNCHANGED Interfaces
        \/ /\ Busy /\ Busy'
           /\ \E p \in DOMAIN netns \cup DOMAIN netns' :
                InterfaceDeleted(p) \/ InterfaceAdded(p) \/ InterfaceConfigured(p)
        \/ pc = "down" /\ netns' = NoNetns ]_vars

\* A request is answered, unless the daemon dies in it.
EveryRequestAnswered == (result = "pending") ~> (result # "pending")

(***************************************************************************)
(* The daemon implements GatewayContract, the gateway as its manager sees  *)
(* it.                                                                     *)
(***************************************************************************)
\* An Ok of the partial apply in progress will be a promise.
PartialTrusted == chain \in {"live", "dirty"} /\ normal

ContractTrust ==
    IF Busy THEN IF kind = "apply" \/ PartialTrusted THEN "kept" ELSE "none"
    ELSE IF ~Promised THEN "none"
    ELSE IF chain = "live" THEN "kept" ELSE "orphan"

ContractTouched ==
    IF ~Busy \/ redo THEN {}
    ELSE IF kind = "partial" /\ PartialTrusted THEN DOMAIN req
    ELSE U16

Contract == INSTANCE GatewayContract
    WITH served <- Routes, answer <- result,
         trust <- ContractTrust, touched <- ContractTouched

\* Every behaviour of the daemon is one the contract allows.
ContractKept == Contract!Spec

(***************************************************************************)
(* What the repository says of the gateway and the code does not do.       *)
(***************************************************************************)

\* "Apply a partial config, this is only a diff." (src/gateway.rs): once it was
\* answered Ok the machine is what the full, merged configuration asks for,
\* also when a NetworkState left its listen_port to the default.
InSyncAnyPort ==
    Quiescent /\ chain \in {"live", "orphan"} => InPlace(intended)

\* "on startup, initialize nginx and set some default options (such as special
\* redirects passed in on the command line)" (src/lib.rs).
StartupInstallsCustom ==
    pc = "idle" /\ kind = "startup" => CustomForwarding(Custom) \subseteq nginx

\* "Applying the same config twice should not result in any change or
\* disruption to connections" (src/lib.rs): no step of the daemon in such an
\* apply() changes the machine, the endpoints of its peers included.
ReapplyChangesNothing ==
    [][ redo /\ pc' # pc => UNCHANGED <<bridge, netns, nginx, moved>> ]_vars

\* "forward the entire encrypted stream to the respective WireGuard network
\* namespace" (README.md): a host is only ever routed into a network that
\* some configuration proxies it from.
RespectiveNamespace ==
    \A r \in Routes :
        \E c \in Configs \cup Partials : \E p \in DOMAIN c :
            /\ c[p] # None
            /\ c[p].private_key = netns[r.port].conf.private_key
            /\ r.host \in { x.url.host : x \in ToSet(c[p].proxy) }

=============================================================================
