------------------------- MODULE NetworkTypesProofs -------------------------
(***************************************************************************)
(* Lemmas about the operators of NetworkTypes.                             *)
(***************************************************************************)
EXTENDS NetworkTypes, FiniteSetTheorems, TLAPS

\* A u16 is a number.
LEMMA U16Nat == \A p \in U16 : p \in Nat /\ p < 65536
BY DEF U16

\* BTreeMap::insert keeps a configuration a configuration.
LEMMA WithConfig ==
    ASSUME NEW c, IsGatewayConfig(c), NEW p \in U16, NEW n \in NetworkState
    PROVE  IsGatewayConfig(With(c, p, n))
BY DEF IsGatewayConfig, With

\* BTreeMap::remove keeps a configuration a configuration.
LEMMA WithoutConfig ==
    ASSUME NEW c, IsGatewayConfig(c), NEW p
    PROVE  IsGatewayConfig(Without(c, p))
BY DEF IsGatewayConfig, Without

\* The client library's apply_partial yields a configuration.
LEMMA MergeConfig ==
    ASSUME NEW c, IsGatewayConfig(c), NEW d, IsGatewayConfigPartial(d)
    PROVE  IsGatewayConfig(MergePartial(c, d))
BY DEF IsGatewayConfig, IsGatewayConfigPartial, MergePartial

LEMMA EmptyIsConfig == IsGatewayConfig(EmptyConfig)
BY DEF IsGatewayConfig, EmptyConfig

\* A full configuration is a partial one.
LEMMA ConfigIsPartial ==
    ASSUME NEW c, IsGatewayConfig(c)
    PROVE  IsGatewayConfigPartial(c)
BY DEF IsGatewayConfig, IsGatewayConfigPartial

\* Overriding listen_port changes nothing else of a network.
LEMMA ListenPort ==
    ASSUME NEW n \in NetworkState, NEW p \in U16
    PROVE  /\ WithListenPort(n, p) \in NetworkState
           /\ WithListenPort(n, p).listen_port = p
           /\ WithListenPort(n, p).address = n.address
           /\ n.listen_port = p => WithListenPort(n, p) = n
BY DEF NetworkState, WithListenPort

-----------------------------------------------------------------------------
\* A network has finitely many (url, backend) pairs.
LEMMA SlotsFinite ==
    ASSUME NEW n \in NetworkState
    PROVE  IsFiniteSet(Slots(n))
<1> DEFINE Row(i) == { <<i, k>> : k \in 1 .. Len(n.proxy[i].addrs) }
           I == 1 .. Len(n.proxy)
           f == [i \in I |-> Row(i)]
           R == { Row(i) : i \in I }
<1>1. Len(n.proxy) \in Nat /\ \A i \in I : Len(n.proxy[i].addrs) \in Nat
  BY DEF NetworkState
<1>2. IsFiniteSet(I)
  BY <1>1, FS_Interval
<1>3. ASSUME NEW i \in I PROVE IsFiniteSet(Row(i))
  <2> DEFINE K == 1 .. Len(n.proxy[i].addrs)
  <2>1. IsFiniteSet(K)
    <3>1. Len(n.proxy[i].addrs) \in Int
      BY <1>1
    <3> HIDE DEF I
    <3> QED BY <3>1, FS_Interval
  <2>2. IsFiniteSet({i})
    BY FS_Singleton
  <2>3. IsFiniteSet({i} \X K)
    BY <2>1, <2>2, FS_Product
  <2>4. Row(i) \in SUBSET ({i} \X K)
    OBVIOUS
  <2> QED BY <2>3, <2>4, FS_Subset
<1>4. IsFiniteSet(R)
  <2>1. f \in Surjection(I, R)
    BY DEF Surjection
  <2> QED BY <1>2, <2>1, FS_Surjection
<1>5. \A T \in R : IsFiniteSet(T)
  BY <1>3
<1>6. IsFiniteSet(UNION R)
  BY <1>4, <1>5, FS_UNION
<1> QED BY <1>6 DEF Slots

\* Every port of the numbering is a u16, every backend one of the network's.
LEMMA MappingsType ==
    ASSUME NEW n \in NetworkState
    PROVE  port_mappings(n) \subseteq [url : Url, port : U16, sock : SocketAddr]
<1> SUFFICES ASSUME NEW x \in Slots(n)
             PROVE  /\ n.proxy[x[1]].url \in Url
                    /\ (PORT_MAPPING_START + Cardinality(Earlier(n, x))) % 65536 \in U16
                    /\ n.proxy[x[1]].addrs[x[2]] \in SocketAddr
  BY DEF port_mappings
<1>1. Earlier(n, x) \in SUBSET Slots(n)
  BY DEF Earlier
<1>2. IsFiniteSet(Earlier(n, x))
  BY <1>1, SlotsFinite, FS_Subset
<1>3. Cardinality(Earlier(n, x)) \in Nat
  BY <1>2, FS_CardinalityType
<1> DEFINE number == PORT_MAPPING_START + Cardinality(Earlier(n, x))
<1>4. number % 65536 \in U16
  <2>1. number \in Nat
    BY <1>3 DEF PORT_MAPPING_START
  <2> HIDE DEF number
  <2> QED BY <2>1 DEF U16
<1>5. PICK i \in 1 .. Len(n.proxy) : \E k \in 1 .. Len(n.proxy[i].addrs) : x = <<i, k>>
  BY DEF Slots
<1>6. n.proxy[i] \in [url : Url, addrs : Seq(SocketAddr)]
  <2> DEFINE E == [url : Url, addrs : Seq(SocketAddr)]
  <2>1. n.proxy \in Seq(E)
    BY DEF NetworkState
  <2> HIDE DEF E
  <2>2. n.proxy[i] \in E
    BY <2>1, <1>5
  <2> QED BY <2>2 DEF E
<1> QED BY <1>4, <1>5, <1>6

\* The NAT table of a network with an address is one.
LEMMA PortConfigType ==
    ASSUME NEW n \in NetworkState, n.address # <<>>
    PROVE  port_config(n) \in NatTable
<1>1. Head(n.address) \in IpNet
  BY DEF NetworkState
<1>2. \A m \in port_mappings(n) : m.port \in U16 /\ m.sock \in SocketAddr
  BY MappingsType
<1>3. Head(n.address).addr \in { ip.addr : ip \in IpNet }
  BY <1>1
<1> QED BY <1>2, <1>3 DEF port_config, NatTable

\* The address of a veth end consists of octets.
LEMMA VethType ==
    ASSUME NEW p \in U16
    PROVE  veth_addr(p) \in Octet \X Octet \X Octet \X Octet
<1>1. p \in Nat /\ p < 65536
  BY DEF U16
<1>2. p \div 256 \in 0 .. 255
  BY <1>1
<1>3. p % 256 \in 0 .. 255
  BY <1>1
<1> QED BY <1>2, <1>3 DEF veth_addr, Octet

\* What apply_nginx() builds from networks are NGINX entries.
LEMMA ForwardingType ==
    ASSUME NEW S, S \subseteq NetworkState,
           NEW custom, CustomForwarding(custom) \subseteq Entry
    PROVE  Forwarding(S, custom) \subseteq Entry
<1>1. ASSUME NEW n \in S PROVE NetworkForwarding(n) \subseteq Entry
  <2>1. n \in NetworkState /\ n.listen_port \in U16
    BY DEF NetworkState
  <2>2. veth_ipv4net(n) \in Octet \X Octet \X Octet \X Octet
    BY <2>1, VethType DEF veth_ipv4net
  <2>3. \A m \in port_mappings(n) : m.port \in U16 /\ m.url \in Url
    BY <2>1, MappingsType
  <2> QED BY <2>2, <2>3 DEF NetworkForwarding, Entry
<1> QED BY <1>1 DEF Forwarding

-----------------------------------------------------------------------------
\* Two ports never share a veth address: it holds both octets of the port.
LEMMA VethInjective ==
    ASSUME NEW p \in U16, NEW q \in U16, veth_addr(p) = veth_addr(q)
    PROVE  p = q
<1>1. p \in Nat /\ q \in Nat
  BY U16Nat
<1>2. p \div 256 = q \div 256 /\ p % 256 = q % 256
  BY DEF veth_addr
<1> QED BY <1>1, <1>2

\* The bridge's own address is that of port 1.
LEMMA BridgePort ==
    ASSUME NEW p \in U16, veth_addr(p) = BRIDGE_ADDR
    PROVE  p = 1
<1>1. p \in Nat
  BY DEF U16
<1>2. p \div 256 = 0 /\ p % 256 = 1
  BY DEF veth_addr, BRIDGE_ADDR
<1> QED BY <1>1, <1>2

\* A slot is a pair of numbers.
LEMMA SlotsType ==
    ASSUME NEW n \in NetworkState, NEW x \in Slots(n)
    PROVE  /\ x = <<x[1], x[2]>>
           /\ x[1] \in 1 .. Len(n.proxy) /\ x[2] \in 1 .. Len(n.proxy[x[1]].addrs)
           /\ x[1] \in Nat /\ x[2] \in Nat
<1>1. Len(n.proxy) \in Nat /\ \A i \in 1 .. Len(n.proxy) : Len(n.proxy[i].addrs) \in Nat
  BY DEF NetworkState
<1>2. PICK i \in 1 .. Len(n.proxy) : \E k \in 1 .. Len(n.proxy[i].addrs) : x = <<i, k>>
  BY DEF Slots
<1> QED BY <1>1, <1>2

\* The slots before an earlier slot are a proper part of those before a later
\* one, so that it gets a smaller number, and every number is below the count.
LEMMA EarlierCounts ==
    ASSUME NEW n \in NetworkState, NEW x \in Slots(n)
    PROVE  /\ Cardinality(Earlier(n, x)) \in Nat
           /\ Cardinality(Slots(n)) \in Nat
           /\ Cardinality(Earlier(n, x)) < Cardinality(Slots(n))
           /\ \A y \in Earlier(n, x) : Cardinality(Earlier(n, y)) < Cardinality(Earlier(n, x))
<1>0. IsFiniteSet(Slots(n)) /\ Cardinality(Slots(n)) \in Nat
  BY SlotsFinite, FS_CardinalityType
<1>1. \A y \in Slots(n) :
        /\ Earlier(n, y) \in SUBSET Slots(n)
        /\ y \notin Earlier(n, y)
  BY SlotsType DEF Earlier
<1>2. \A y \in Slots(n) :
        IsFiniteSet(Earlier(n, y)) /\ Cardinality(Earlier(n, y)) \in Nat
  BY <1>0, <1>1, FS_Subset, FS_CardinalityType
<1>3. Cardinality(Earlier(n, x)) < Cardinality(Slots(n))
  <2>1. Earlier(n, x) # Slots(n)
    BY <1>1
  <2>2. /\ Cardinality(Earlier(n, x)) <= Cardinality(Slots(n))
        /\ Cardinality(Earlier(n, x)) = Cardinality(Slots(n)) => Earlier(n, x) = Slots(n)
    BY <1>0, <1>1, FS_Subset
  <2> QED BY <1>0, <1>2, <2>1, <2>2
<1>4. ASSUME NEW y \in Earlier(n, x)
      PROVE  Cardinality(Earlier(n, y)) < Cardinality(Earlier(n, x))
  <2>0. y \in Slots(n)
    BY <1>1
  <2>1. Earlier(n, y) \in SUBSET Earlier(n, x)
    <3> SUFFICES ASSUME NEW z \in Earlier(n, y) PROVE z \in Earlier(n, x)
      OBVIOUS
    <3>1. z \in Slots(n) /\ (z[1] < y[1] \/ (z[1] = y[1] /\ z[2] < y[2]))
      BY DEF Earlier
    <3>2. y[1] < x[1] \/ (y[1] = x[1] /\ y[2] < x[2])
      BY DEF Earlier
    <3>3. {x[1], x[2], y[1], y[2], z[1], z[2]} \subseteq Nat
      BY <2>0, <3>1, SlotsType
    <3>4. z[1] < x[1] \/ (z[1] = x[1] /\ z[2] < x[2])
      BY <3>1, <3>2, <3>3
    <3> QED BY <3>1, <3>4 DEF Earlier
  <2>2. Earlier(n, y) # Earlier(n, x)
    BY <1>1, <2>0
  <2>3. /\ Cardinality(Earlier(n, y)) <= Cardinality(Earlier(n, x))
        /\ Cardinality(Earlier(n, y)) = Cardinality(Earlier(n, x)) => Earlier(n, y) = Earlier(n, x)
    BY <1>2, <2>1, FS_Subset
  <2> QED BY <1>2, <2>0, <2>2, <2>3
<1> QED BY <1>0, <1>2, <1>3, <1>4

\* port_mappings() gives no two backends of a network the same port, as long as
\* there are not more than a u16 can number.
LEMMA NumberingInjective ==
    ASSUME NEW n \in NetworkState, Cardinality(Slots(n)) <= 65536,
           NEW x \in Slots(n), NEW y \in Slots(n),
           (PORT_MAPPING_START + Cardinality(Earlier(n, x))) % 65536
             = (PORT_MAPPING_START + Cardinality(Earlier(n, y))) % 65536
    PROVE  x = y
<1> DEFINE a == Cardinality(Earlier(n, x))
           b == Cardinality(Earlier(n, y))
<1>1. a \in Nat /\ b \in Nat /\ a < 65536 /\ b < 65536
  BY EarlierCounts
<1>2. (2000 + a) % 65536 = (2000 + b) % 65536
  BY DEF PORT_MAPPING_START
<1>3. a = b
  <2> HIDE DEF a, b
  <2> QED BY <1>1, <1>2
<1>4. x \notin Earlier(n, y) /\ y \notin Earlier(n, x)
  BY <1>1, <1>3, EarlierCounts
<1>5. x[1] \in Nat /\ x[2] \in Nat /\ y[1] \in Nat /\ y[2] \in Nat
  BY SlotsType
<1>6. ~(x[1] < y[1] \/ (x[1] = y[1] /\ x[2] < y[2]))
  BY <1>4 DEF Earlier
<1>7. ~(y[1] < x[1] \/ (y[1] = x[1] /\ y[2] < x[2]))
  BY <1>4 DEF Earlier
<1>8. x[1] = y[1] /\ x[2] = y[2]
  BY <1>5, <1>6, <1>7
<1> QED BY <1>8, SlotsType

\* So a port stands for one backend of one url.
LEMMA PortNamesMapping ==
    ASSUME NEW n \in NetworkState, Cardinality(Slots(n)) <= 65536,
           NEW m \in port_mappings(n), NEW o \in port_mappings(n), m.port = o.port
    PROVE  m = o
<1> DEFINE number(x) == (PORT_MAPPING_START + Cardinality(Earlier(n, x))) % 65536
           mapping(x) == [ url |-> n.proxy[x[1]].url, port |-> number(x),
                           sock |-> n.proxy[x[1]].addrs[x[2]] ]
<1>1. PICK x \in Slots(n) : m = mapping(x)
  BY DEF port_mappings
<1>2. PICK y \in Slots(n) : o = mapping(y)
  BY DEF port_mappings
<1>3. number(x) = number(y)
  <2> HIDE DEF number
  <2> QED BY <1>1, <1>2
<1>4. x = y
  BY <1>3, NumberingInjective
<1> QED BY <1>1, <1>2, <1>4

\* The mappings are about the (url, backend) pairs of the proxy table, all of
\* them and no others.
LEMMA MappingsOfProxy ==
    ASSUME NEW n \in NetworkState, NEW u, NEW a
    PROVE  (\E m \in port_mappings(n) : m.url = u /\ m.sock = a)
             <=> (\E x \in ToSet(n.proxy) : x.url = u /\ a \in ToSet(x.addrs))
<1> DEFINE E == [url : Url, addrs : Seq(SocketAddr)]
<1>0. n.proxy \in Seq(E) /\ DOMAIN n.proxy = 1 .. Len(n.proxy)
  BY DEF NetworkState
<1>1. \A i \in 1 .. Len(n.proxy) : DOMAIN n.proxy[i].addrs = 1 .. Len(n.proxy[i].addrs)
  <2> SUFFICES ASSUME NEW i \in 1 .. Len(n.proxy)
               PROVE  DOMAIN n.proxy[i].addrs = 1 .. Len(n.proxy[i].addrs)
    OBVIOUS
  <2>1. n.proxy[i] \in E
    <3> HIDE DEF E
    <3> QED BY <1>0
  <2> QED BY <2>1
<1>2. ASSUME NEW m \in port_mappings(n), m.url = u, m.sock = a
      PROVE  \E x \in ToSet(n.proxy) : x.url = u /\ a \in ToSet(x.addrs)
  <2>1. PICK s \in Slots(n) : m.url = n.proxy[s[1]].url /\ m.sock = n.proxy[s[1]].addrs[s[2]]
    BY DEF port_mappings
  <2>2. s[1] \in 1 .. Len(n.proxy) /\ s[2] \in 1 .. Len(n.proxy[s[1]].addrs)
    BY SlotsType
  <2> QED BY <1>0, <1>1, <1>2, <2>1, <2>2 DEF ToSet
<1>3. ASSUME NEW x \in ToSet(n.proxy), x.url = u, a \in ToSet(x.addrs)
      PROVE  \E m \in port_mappings(n) : m.url = u /\ m.sock = a
  <2>1. PICK i \in 1 .. Len(n.proxy) : x = n.proxy[i]
    BY <1>0 DEF ToSet
  <2>2. PICK k \in 1 .. Len(n.proxy[i].addrs) : a = n.proxy[i].addrs[k]
    BY <1>1, <1>3, <2>1 DEF ToSet
  <2>3. <<i, k>> \in Slots(n)
    BY DEF Slots
  <2> DEFINE mapping(y) ==
               [ url  |-> n.proxy[y[1]].url,
                 port |-> (PORT_MAPPING_START + Cardinality(Earlier(n, y))) % 65536,
                 sock |-> n.proxy[y[1]].addrs[y[2]] ]
  <2>4. port_mappings(n) = { mapping(y) : y \in Slots(n) }
    BY DEF port_mappings
  <2>5. mapping(<<i, k>>).url = u /\ mapping(<<i, k>>).sock = a
    BY <1>3, <2>1, <2>2
  <2> HIDE DEF mapping
  <2> QED BY <2>3, <2>4, <2>5
<1> QED BY <1>2, <1>3

\* The DNAT rules of a network are its port mappings.
LEMMA PortConfigMappings ==
    ASSUME NEW n
    PROVE  port_config(n).mappings =
             { [port_in |-> m.port, out |-> m.sock] : m \in port_mappings(n) }
BY DEF port_config

\* A route of a configuration goes from an http or https url of one of its
\* networks to a backend of that url.
LEMMA RouteOf ==
    ASSUME NEW c, NEW p \in DOMAIN c, NEW y \in ToSet(c[p].proxy), y.url.scheme \in Scheme,
           NEW a \in ToSet(y.addrs)
    PROVE  [scheme |-> y.url.scheme, host |-> y.url.host, port |-> p, backend |-> a]
             \in RoutesOf(c)
<1> DEFINE route(q, z, b) ==
             [scheme |-> z.url.scheme, host |-> z.url.host, port |-> q, backend |-> b]
           ofUrl(q, z) == { route(q, z, b) : b \in ToSet(z.addrs) }
           Z(q) == { z \in ToSet(c[q].proxy) : z.url.scheme \in Scheme }
           ofPort(q) == UNION { ofUrl(q, z) : z \in Z(q) }
<1>1. route(p, y, a) \in ofUrl(p, y)
  OBVIOUS
<1>2. y \in Z(p)
  OBVIOUS
<1>3. RoutesOf(c) = UNION { ofPort(q) : q \in DOMAIN c }
  BY DEF RoutesOf
<1>4. route(p, y, a) \in ofPort(p)
  <2> HIDE DEF Z, ofUrl, route
  <2> QED BY <1>1, <1>2
<1>5. route(p, y, a) \in RoutesOf(c)
  <2> HIDE DEF ofPort, route
  <2> QED BY <1>3, <1>4
<1> QED BY <1>5

=============================================================================
