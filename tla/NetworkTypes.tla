---------------------------- MODULE NetworkTypes ----------------------------
(***************************************************************************)
(* The data of the gateway and the pure functions on it: the types of      *)
(* client/src/lib.rs (NetworkState, GatewayConfig, GatewayConfigPartial)   *)
(* and the helpers of src/types.rs that turn a NetworkState into a         *)
(* WireGuard configuration, a NAT table and NGINX forwarding entries.      *)
(*                                                                         *)
(* Keys and socket addresses are opaque values; an IpNet is known by the   *)
(* address and the network in it.  A BTreeMap<Url, Vec<SocketAddr>> is the *)
(* sequence of its entries in key order, in which the code iterates.       *)
(***************************************************************************)
EXTENDS Integers, Sequences, FiniteSets, SequencesExt, Maps

CONSTANTS
    Privkey,      \* WireGuard private keys
    IpNet,        \* records: addr() is the host address, trunc() the network
    PeerMap,      \* values of NetworkState.peers: functions from public keys
                  \* to [preshared_key, allowed_ips, endpoint]
    Url,          \* proxy URLs, records with a scheme and a host
    SocketAddr,   \* backends of a proxied URL, inside a WireGuard network
    None          \* Option::None

U16 == 0 .. 65535

NetworkState ==
    [ private_key : Privkey,
      listen_port : U16,
      mtu         : Nat,
      address     : Seq(IpNet),
      peers       : PeerMap,
      proxy       : Seq([url : Url, addrs : Seq(SocketAddr)]) ]

(***************************************************************************)
(* A BTreeMap keyed by port is a function whose domain is a finite set of  *)
(* ports; a GatewayConfigPartial may hold None under a port.               *)
(***************************************************************************)
IsGatewayConfig(c) ==
    /\ DOMAIN c \subseteq U16
    /\ c \in [DOMAIN c -> NetworkState]

IsGatewayConfigPartial(c) ==
    /\ DOMAIN c \subseteq U16
    /\ c \in [DOMAIN c -> NetworkState \cup {None}]

EmptyConfig == [p \in {} |-> None]

\* Seeded fault: None entries are inserted.
MergeNone(c, partial) ==
    [p \in DOMAIN c \cup DOMAIN partial |-> IF p \in DOMAIN partial THEN partial[p] ELSE c[p]]

(***************************************************************************)
(* GatewayConfig::apply_partial of the client library: None removes a      *)
(* network, Some(network) inserts it.  This is how a manager tracks the    *)
(* configuration it expects its gateway to have.                           *)
(***************************************************************************)
MergePartial(c, partial) ==
    [ p \in { q \in DOMAIN c \cup DOMAIN partial :
                q \in DOMAIN partial => partial[q] # None }
      |-> IF p \in DOMAIN partial THEN partial[p] ELSE c[p] ]

\* apply() overrides listen_port by the key the network is stored under.
WithListenPort(network, port) == [network EXCEPT !.listen_port = port]

(***************************************************************************)
(* Every network of a (partial) configuration carries its own key as       *)
(* listen_port.                                                            *)
(***************************************************************************)
PortsAgree(c) == \A p \in DOMAIN c : c[p] # None => c[p].listen_port = p

-----------------------------------------------------------------------------
(***************************************************************************)
(* What src/types.rs derives from a network.                               *)
(***************************************************************************)

\* PeerState::to_config: the host bits of the allowed addresses are dropped.
peer_to_config(peer) ==
    [ preshared_key |-> peer.preshared_key,
      allowed_ips   |-> { ip.trunc : ip \in peer.allowed_ips },
      endpoint      |-> peer.endpoint ]

PeersConfig(peers) == [key \in DOMAIN peers |-> peer_to_config(peers[key])]

WireguardConf ==
    [ listen_port : U16, private_key : Privkey,
      peers : { PeersConfig(peers) : peers \in PeerMap } ]

\* NetworkState::to_config: the wg-quick file.
to_config(network) ==
    [ listen_port |-> network.listen_port,
      private_key |-> network.private_key,
      peers       |-> PeersConfig(network.peers) ]

\* BRIDGE_NET, 172.99.0.1/16, and the address of a veth end inside it: the
\* network address plus the port (the sum stays inside the /16).
BRIDGE_ADDR == <<172, 99, 0, 1>>

veth_addr(port) == <<172, 99, port \div 256, port % 256>>

veth_ipv4net(network) == veth_addr(network.listen_port)

PORT_MAPPING_START == 2000

(***************************************************************************)
(* NetworkState::port_mappings: the (url, backend) pairs, numbered in map  *)
(* order from PORT_MAPPING_START; the sum is a u16.  <<i, k>> stands for   *)
(* backend k of the map's i-th url.                                        *)
(***************************************************************************)
Slots(network) ==
    UNION { { <<i, k>> : k \in 1 .. Len(network.proxy[i].addrs) } :
            i \in 1 .. Len(network.proxy) }

\* Seeded fault: the numbering starts again with every url.
EarlierOfUrl(network, x) == { y \in Slots(network) : y[1] = x[1] /\ y[2] < x[2] }

Earlier(network, x) ==
    { y \in Slots(network) : y[1] < x[1] \/ (y[1] = x[1] /\ y[2] < x[2]) }

\* The counter is a u16: a build with overflow checks panics where the sum wraps.
port_mappings(network) ==
    { [ url  |-> network.proxy[x[1]].url,
        port |-> (PORT_MAPPING_START + Cardinality(Earlier(network, x))) % 65536,
        sock |-> network.proxy[x[1]].addrs[x[2]] ] : x \in Slots(network) }

NatTable == [ ip_source : { ip.addr : ip \in IpNet },
              mappings  : SUBSET [port_in : U16, out : SocketAddr] ]

(***************************************************************************)
(* NetworkState::port_config, the content of the iptables NAT table: the   *)
(* source address used for SNAT and one DNAT rule per mapping.  Defined    *)
(* only for a network with an address: the code unwraps address.first().   *)
(***************************************************************************)
port_config(network) ==
    [ ip_source |-> Head(network.address).addr,
      mappings  |-> { [port_in |-> m.port, out |-> m.sock] :
                        m \in port_mappings(network) } ]

(***************************************************************************)
(* Forwarding::add: NGINX upstream entries of a network.  An entry is      *)
(* <<scheme, host, socket>>; only http and https URLs produce one, ssh and *)
(* other schemes are dropped.  An upstream is the set of its servers, and  *)
(* its base32 name stands for the host it is derived from.                 *)
(***************************************************************************)
Scheme == {"http", "https"}

Octet == 0 .. 255

Entry == Scheme \X { u.host : u \in Url }
                \X [ip : Octet \X Octet \X Octet \X Octet, port : U16]

NetworkForwarding(network) ==
    { <<m.url.scheme, m.url.host,
        [ip |-> veth_ipv4net(network), port |-> m.port]>> :
        m \in { x \in port_mappings(network) : x.url.scheme \in Scheme } }

\* Forwarding::add_custom: redirects given on the command line.
CustomForwarding(custom) ==
    { <<c.url.scheme, c.url.host, c.socket>> :
        c \in { x \in custom : x.url.scheme \in Scheme } }

\* The Forwarding that apply_nginx builds from its networks and the options.
Forwarding(networks, custom) ==
    (UNION { NetworkForwarding(n) : n \in networks }) \cup CustomForwarding(custom)

\* The HTTPS entries go to the stream module file, the HTTP ones to the
\* sites file.
OfScheme(forwarding, scheme) == { e \in forwarding : e[1] = scheme }

-----------------------------------------------------------------------------
\* The routes a configuration asks for, read off its proxy tables alone.
RoutesOf(c) ==
    UNION { UNION { { [scheme |-> x.url.scheme, host |-> x.url.host,
                       port |-> p, backend |-> a] : a \in ToSet(x.addrs) } :
                    x \in { y \in ToSet(c[p].proxy) : y.url.scheme \in Scheme } } :
            p \in DOMAIN c }

=============================================================================
