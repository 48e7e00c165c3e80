---------------------------- MODULE DaemonProofs ----------------------------
(***************************************************************************)
(* Type correctness of the daemon's two tasks, for any ports, keys, clock, *)
(* queue capacities, configurations and numbers of steps.                  *)
(*                                                                         *)
(* TypeOK is not inductive: what an event or a TrafficInfo is, and that a  *)
(* peer worked on has an event to send, is known from the stages of the    *)
(* watchdog before.                                                        *)
(***************************************************************************)
EXTENDS Daemon, FiniteSetTheorems, FunctionTheorems, SequenceTheorems, TLAPS

\* BTreeMaps: functions with a finite domain.
FiniteMaps(K, V) == UNION { [D -> V] : D \in { D \in SUBSET K : IsFiniteSet(D) } }

\* The types of client/src/lib.rs.
TrafficType    == [rx : Nat, tx : Nat]
DeviceTraffic  == [traffic : TrafficType, times : FiniteMaps(Int, TrafficType)]
NetworkTraffic == [traffic : TrafficType, devices : FiniteMaps(Pubkey, DeviceTraffic)]
TrafficInfo    == [start_time : Int, stop_time : Int, traffic : TrafficType,
                   networks : FiniteMaps(Pubkey, NetworkTraffic)]

\* A broadcast channel of messages of type T (Global::traffic, Global::events).
Channel(T) == [open : BOOLEAN, queue : Seq(T), lagged : BOOLEAN]

\* Interfaces and what is fetched of them.
Networks   == UNION { Interface(K) : K \in SUBSET Pubkey }
Statistics == UNION { NetworkStats(K) : K \in SUBSET Pubkey }

\* PeerCache of src/watchdog.rs: by port, by peer.
PeerCache == FiniteMaps(Port, FiniteMaps(Pubkey, PeerStats))

\* The kernel.
KernelInv ==
    /\ now \in Clock
    /\ DOMAIN wg \subseteq Port
    /\ wg \in [DOMAIN wg -> Networks \cup {None}]

\* The watchdog: where it is, and what it has in its hands there.
WatchInv ==
    /\ due \in BOOLEAN
    /\ cache \in PeerCache
    /\ wpc \in {"tick", "run", "peers", "send", "dead", "panicked"}
    /\ names \subseteq Port
    /\ wpc # "tick" => info \in TrafficInfo
    /\ wpc = "tick" => info = None
    /\ wpc \in {"peers", "send", "dead"} => stats \in Statistics /\ stats.listen_port \in DOMAIN cache
    /\ wpc \in {"peers", "send"} => left \subseteq DOMAIN stats.peers
    /\ wpc = "dead" => left \subseteq DOMAIN cache[stats.listen_port] \ DOMAIN stats.peers
    /\ wpc = "send" =>
         /\ peer \in [key : Pubkey, stats : PeerStats]
         /\ peer.key \in DOMAIN stats.peers \ left
    /\ wpc # "send" => peer = None
    /\ outbox \in Seq(GatewayEvent)
    /\ wpc = "send" <=> outbox # <<>>

\* The websocket loop and the channels.
ChannelInv ==
    /\ conn \in {"down", "half", "up", "busy", "exited"}
    /\ inbox \in Seq(Request)
    /\ traffic_broadcast \in Channel(TrafficInfo)
    /\ events_broadcast \in Channel(GatewayEvent)
    /\ IsChannel(traffic_broadcast, BROADCAST_QUEUE_TRAFFIC)
    /\ IsChannel(events_broadcast, BROADCAST_QUEUE_EVENTS)
    /\ events_broadcast.open <=> conn \in {"up", "busy"}
    /\ traffic_broadcast.open <=> conn \in {"half", "up", "busy"}

\* The inductive invariant.
TypeInv == KernelInv /\ WatchInv /\ ChannelInv

-----------------------------------------------------------------------------
\* Membership in the sets of maps.
LEMMA FiniteMapDef ==
    ASSUME NEW K, NEW V, NEW f
    PROVE  f \in FiniteMaps(K, V) <=>
             DOMAIN f \subseteq K /\ IsFiniteSet(DOMAIN f) /\ f \in [DOMAIN f -> V]
<1> DEFINE S == { [D -> V] : D \in { D \in SUBSET K : IsFiniteSet(D) } }
<1>1. ASSUME f \in FiniteMaps(K, V)
      PROVE  DOMAIN f \subseteq K /\ IsFiniteSet(DOMAIN f) /\ f \in [DOMAIN f -> V]
  BY <1>1 DEF FiniteMaps
<1>2. ASSUME DOMAIN f \subseteq K, IsFiniteSet(DOMAIN f), f \in [DOMAIN f -> V]
      PROVE  f \in FiniteMaps(K, V)
  <2>1. [DOMAIN f -> V] \in S
    BY <1>2
  <2> QED BY <1>2, <2>1 DEF FiniteMaps
<1> QED BY <1>1, <1>2

\* An interface, with its set of peers left open.
LEMMA NetworksDef ==
    ASSUME NEW n
    PROVE  n \in Networks <=>
             /\ n = [public_key |-> n.public_key, peers |-> n.peers]
             /\ n.public_key \in Pubkey
             /\ DOMAIN n.peers \subseteq Pubkey
             /\ n.peers \in [DOMAIN n.peers -> KernelPeer]
<1> DEFINE S == { Interface(K) : K \in SUBSET Pubkey }
<1>1. ASSUME n \in Networks
      PROVE  /\ n = [public_key |-> n.public_key, peers |-> n.peers]
             /\ n.public_key \in Pubkey
             /\ DOMAIN n.peers \subseteq Pubkey
             /\ n.peers \in [DOMAIN n.peers -> KernelPeer]
  BY <1>1 DEF Networks, Interface
<1>2. ASSUME n = [public_key |-> n.public_key, peers |-> n.peers], n.public_key \in Pubkey,
             DOMAIN n.peers \subseteq Pubkey, n.peers \in [DOMAIN n.peers -> KernelPeer]
      PROVE  n \in Networks
  <2>1. Interface(DOMAIN n.peers) \in S
    BY <1>2
  <2>2. n \in Interface(DOMAIN n.peers)
    BY <1>2 DEF Interface
  <2> QED BY <2>1, <2>2 DEF Networks
<1> QED BY <1>1, <1>2

\* The same for the statistics fetched of it.
LEMMA NetworkStatsDef ==
    ASSUME NEW n
    PROVE  n \in Statistics <=>
             /\ n = [listen_port |-> n.listen_port, public_key |-> n.public_key, peers |-> n.peers]
             /\ n.listen_port \in Port
             /\ n.public_key \in Pubkey
             /\ DOMAIN n.peers \subseteq Pubkey
             /\ n.peers \in [DOMAIN n.peers -> KernelPeer]
<1> DEFINE S == { NetworkStats(K) : K \in SUBSET Pubkey }
<1>1. ASSUME n \in Statistics
      PROVE  /\ n = [listen_port |-> n.listen_port, public_key |-> n.public_key, peers |-> n.peers]
             /\ n.listen_port \in Port
             /\ n.public_key \in Pubkey
             /\ DOMAIN n.peers \subseteq Pubkey
             /\ n.peers \in [DOMAIN n.peers -> KernelPeer]
  BY <1>1 DEF Statistics, NetworkStats
<1>2. ASSUME n = [listen_port |-> n.listen_port, public_key |-> n.public_key, peers |-> n.peers],
             n.listen_port \in Port, n.public_key \in Pubkey,
             DOMAIN n.peers \subseteq Pubkey, n.peers \in [DOMAIN n.peers -> KernelPeer]
      PROVE  n \in Statistics
  <2>1. NetworkStats(DOMAIN n.peers) \in S
    BY <1>2
  <2>2. n \in NetworkStats(DOMAIN n.peers)
    BY <1>2 DEF NetworkStats
  <2> QED BY <2>1, <2>2 DEF Statistics
<1> QED BY <1>1, <1>2

\* BTreeMap::new, insert, remove and get keep maps maps.
LEMMA EmptyMapType ==
    ASSUME NEW K, NEW V
    PROVE  EmptyMap \in FiniteMaps(K, V) /\ DOMAIN EmptyMap = {}
<1>1. DOMAIN EmptyMap = {} /\ EmptyMap \in [{} -> V]
  BY DEF EmptyMap
<1> QED BY <1>1, FiniteMapDef, FS_EmptySet

\* BTreeMap::insert keeps a finite map one.
LEMMA WithType ==
    ASSUME NEW K, NEW V, NEW f \in FiniteMaps(K, V), NEW k \in K, NEW v \in V
    PROVE  /\ With(f, k, v) \in FiniteMaps(K, V)
           /\ DOMAIN With(f, k, v) = DOMAIN f \cup {k}
           /\ With(f, k, v)[k] = v
           /\ \A x \in DOMAIN f : x # k => With(f, k, v)[x] = f[x]
<1>1. DOMAIN f \subseteq K /\ IsFiniteSet(DOMAIN f) /\ f \in [DOMAIN f -> V]
  BY FiniteMapDef
<1>2. /\ DOMAIN With(f, k, v) = DOMAIN f \cup {k}
      /\ With(f, k, v) \in [DOMAIN f \cup {k} -> V]
      /\ With(f, k, v)[k] = v
      /\ \A x \in DOMAIN f : x # k => With(f, k, v)[x] = f[x]
  BY <1>1 DEF With
<1>3. IsFiniteSet(DOMAIN f \cup {k})
  BY <1>1, FS_AddElement
<1> QED BY <1>1, <1>2, <1>3, FiniteMapDef

\* BTreeMap::remove does.
LEMMA WithoutType ==
    ASSUME NEW K, NEW V, NEW f \in FiniteMaps(K, V), NEW k
    PROVE  /\ Without(f, k) \in FiniteMaps(K, V)
           /\ DOMAIN Without(f, k) = DOMAIN f \ {k}
           /\ \A x \in DOMAIN f : x # k => Without(f, k)[x] = f[x]
<1>1. DOMAIN f \subseteq K /\ IsFiniteSet(DOMAIN f) /\ f \in [DOMAIN f -> V]
  BY FiniteMapDef
<1>2. /\ DOMAIN Without(f, k) = DOMAIN f \ {k}
      /\ Without(f, k) \in [DOMAIN f \ {k} -> V]
      /\ \A x \in DOMAIN f : x # k => Without(f, k)[x] = f[x]
  BY <1>1 DEF Without
<1>3. IsFiniteSet(DOMAIN f \ {k})
  BY <1>1, FS_RemoveElement
<1> QED BY <1>1, <1>2, <1>3, FiniteMapDef

\* What a lookup in a finite map returns.
LEMMA LookupType ==
    ASSUME NEW K, NEW V, NEW f \in FiniteMaps(K, V), NEW k, NEW d
    PROVE  /\ k \in DOMAIN f => Lookup(f, k, d) = f[k] /\ f[k] \in V
           /\ k \notin DOMAIN f => Lookup(f, k, d) = d
<1>1. f \in [DOMAIN f -> V]
  BY FiniteMapDef
<1> QED BY <1>1 DEF Lookup

\* Replacing the value of a key that is there.
LEMMA ExceptType ==
    ASSUME NEW K, NEW V, NEW f \in FiniteMaps(K, V), NEW k \in DOMAIN f, NEW v \in V
    PROVE  /\ [f EXCEPT ![k] = v] \in FiniteMaps(K, V)
           /\ DOMAIN [f EXCEPT ![k] = v] = DOMAIN f
<1>1. DOMAIN f \subseteq K /\ IsFiniteSet(DOMAIN f) /\ f \in [DOMAIN f -> V]
  BY FiniteMapDef
<1>2. [f EXCEPT ![k] = v] \in [DOMAIN f -> V] /\ DOMAIN [f EXCEPT ![k] = v] = DOMAIN f
  BY <1>1
<1> QED BY <1>1, <1>2, FiniteMapDef

-----------------------------------------------------------------------------
\* Channels keep their messages and their capacity.
LEMMA SubscribeType ==
    ASSUME NEW T, NEW capacity \in Nat \ {0}
    PROVE  /\ subscribe \in Channel(T) /\ IsChannel(subscribe, capacity) /\ subscribe.open
           /\ Unsubscribed \in Channel(T) /\ IsChannel(Unsubscribed, capacity) /\ ~Unsubscribed.open
<1>1. <<>> \in Seq(T) /\ Len(<<>>) = 0
  BY EmptySeq
<1> QED BY <1>1 DEF subscribe, Unsubscribed, Channel, IsChannel

\* A full queue makes room for a message, so that it never outgrows its capacity.
LEMMA SendType ==
    ASSUME NEW T, NEW capacity \in Nat \ {0}, NEW c \in Channel(T), c.open,
           IsChannel(c, capacity), NEW m \in T
    PROVE  /\ send(c, capacity, m) \in Channel(T)
           /\ IsChannel(send(c, capacity, m), capacity)
           /\ send(c, capacity, m).open
<1> DEFINE full == Len(c.queue) = capacity
           room == IF full THEN Tail(c.queue) ELSE c.queue
<1>1. c.queue \in Seq(T) /\ Len(c.queue) \in Nat /\ Len(c.queue) <= capacity
  BY DEF Channel, IsChannel
<1>2. room \in Seq(T) /\ Len(room) < capacity
  <2>1. CASE full
    <3>1. c.queue # <<>>
      BY <2>1, EmptySeq
    <3> QED BY <1>1, <2>1, <3>1, HeadTailProperties
  <2>2. CASE ~full
    BY <1>1, <2>2
  <2> QED BY <2>1, <2>2
<1>3. Append(room, m) \in Seq(T) /\ Len(Append(room, m)) <= capacity
  <2> HIDE DEF room
  <2>1. Append(room, m) \in Seq(T) /\ Len(Append(room, m)) = Len(room) + 1 /\ Len(room) \in Nat
    BY <1>2, AppendProperties, LenProperties
  <2> QED BY <1>2, <2>1
<1>4. send(c, capacity, m) = [c EXCEPT !.queue = Append(room, m), !.lagged = @ \/ full]
  BY DEF send
<1>5. send(c, capacity, m) = [open |-> c.open, queue |-> Append(room, m), lagged |-> (c.lagged \/ full)]
  <2> HIDE DEF room, full
  <2> QED BY <1>4 DEF Channel
<1> HIDE DEF room, full
<1> QED BY <1>3, <1>5 DEF Channel, IsChannel

\* Receiver::recv takes a message and keeps the channel one.
LEMMA ReceivedType ==
    ASSUME NEW T, NEW capacity \in Nat \ {0}, NEW c \in Channel(T), c.open,
           IsChannel(c, capacity), c.queue # <<>>
    PROVE  /\ Received(c) \in Channel(T)
           /\ IsChannel(Received(c), capacity)
           /\ Received(c).open
           /\ Head(c.queue) \in T
<1>1. c.queue \in Seq(T) /\ Len(c.queue) \in Nat /\ Len(c.queue) <= capacity
  BY DEF Channel, IsChannel
<1>2. Tail(c.queue) \in Seq(T) /\ Len(Tail(c.queue)) = Len(c.queue) - 1 /\ Head(c.queue) \in T
  BY <1>1, HeadTailProperties
<1>3. Received(c) = [open |-> c.open, queue |-> Tail(c.queue), lagged |-> c.lagged]
  <2> DEFINE t == Tail(c.queue)
  <2>1. Received(c) = [c EXCEPT !.queue = t]
    BY DEF Received
  <2> HIDE DEF t
  <2>2. Received(c) = [open |-> c.open, queue |-> t, lagged |-> c.lagged]
    BY <2>1 DEF Channel
  <2> QED BY <2>2 DEF t
<1> QED BY <1>1, <1>2, <1>3 DEF Channel, IsChannel

-----------------------------------------------------------------------------
\* What Traffic makes of its maps.
LEMMA DeviceTrafficType ==
    ASSUME NEW d \in DeviceTraffic, NEW time \in Int, NEW t \in TrafficType
    PROVE  DeviceTraffic_add(d, time, t) \in DeviceTraffic
<1>1. With(d.times, time, t) \in FiniteMaps(Int, TrafficType)
  BY WithType DEF DeviceTraffic
<1>2. Plus(d.traffic, t) \in TrafficType
  BY DEF Plus, NewTraffic, TrafficType, DeviceTraffic
<1> QED BY <1>1, <1>2 DEF DeviceTraffic_add, DeviceTraffic

\* What TrafficInfo::add starts a device and a network from.
NoDevice == [traffic |-> NoTraffic, times |-> EmptyMap]

NoNetwork == [traffic |-> NoTraffic, devices |-> EmptyMap]

\* They have no traffic.
LEMMA NoTrafficTypes ==
    NoDevice \in DeviceTraffic /\ NoNetwork \in NetworkTraffic
<1>1. NoTraffic \in TrafficType
  BY DEF NoTraffic, NewTraffic, TrafficType
<1> QED BY <1>1, EmptyMapType DEF NoDevice, NoNetwork, DeviceTraffic, NetworkTraffic

\* NetworkTraffic::add returns a NetworkTraffic.
LEMMA NetworkTrafficType ==
    ASSUME NEW n \in NetworkTraffic, NEW d \in Pubkey, NEW time \in Int, NEW t \in TrafficType
    PROVE  NetworkTraffic_add(n, d, time, t) \in NetworkTraffic
<1> DEFINE old == Lookup(n.devices, d, NoDevice)
<1>1. n.devices \in FiniteMaps(Pubkey, DeviceTraffic)
  BY DEF NetworkTraffic
<1>2. old \in DeviceTraffic
  BY <1>1, LookupType, NoTrafficTypes
<1>3. DeviceTraffic_add(old, time, t) \in DeviceTraffic
  BY <1>2, DeviceTrafficType
<1>4. With(n.devices, d, DeviceTraffic_add(old, time, t)) \in FiniteMaps(Pubkey, DeviceTraffic)
  BY <1>1, <1>3, WithType
<1>5. Plus(n.traffic, t) \in TrafficType
  BY DEF Plus, NewTraffic, TrafficType, NetworkTraffic
<1> QED BY <1>4, <1>5 DEF NetworkTraffic_add, NetworkTraffic, NoDevice

\* TrafficInfo::add returns a TrafficInfo.
LEMMA TrafficInfoType ==
    ASSUME NEW i \in TrafficInfo, NEW n \in Pubkey, NEW d \in Pubkey, NEW time \in Int,
           NEW t \in TrafficType
    PROVE  TrafficInfo_add(i, n, d, time, t) \in TrafficInfo
<1> DEFINE old == Lookup(i.networks, n, NoNetwork)
           new == NetworkTraffic_add(old, d, time, t)
<1>1. i.networks \in FiniteMaps(Pubkey, NetworkTraffic)
  BY DEF TrafficInfo
<1>2. old \in NetworkTraffic
  BY <1>1, LookupType, NoTrafficTypes
<1>3. new \in NetworkTraffic
  BY <1>2, NetworkTrafficType
<1> HIDE DEF new
<1>4. With(i.networks, n, new) \in FiniteMaps(Pubkey, NetworkTraffic)
  BY <1>1, <1>3, WithType
<1>5. Plus(i.traffic, t) \in TrafficType
  BY DEF Plus, NewTraffic, TrafficType, TrafficInfo
<1>6. TrafficInfo_add(i, n, d, time, t)
        = [i EXCEPT !.traffic = Plus(@, t), !.stop_time = IF time > @ THEN time ELSE @,
                    !.networks = With(@, n, new)]
  BY DEF TrafficInfo_add, NoNetwork, new
<1> QED BY <1>4, <1>5, <1>6 DEF TrafficInfo

\* TrafficInfo::new returns one, too.
LEMMA NewInfoType == TrafficInfo_new(0) \in TrafficInfo
<1>1. NoTraffic \in TrafficType
  BY DEF NoTraffic, NewTraffic, TrafficType
<1> QED BY <1>1, EmptyMapType DEF TrafficInfo_new, TrafficInfo

-----------------------------------------------------------------------------
\* The part of the cache that watchdog_netns works on.
LEMMA CacheHere ==
    ASSUME WatchInv, wpc \in {"peers", "send", "dead"}
    PROVE  /\ stats.listen_port \in Port /\ stats.listen_port \in DOMAIN cache
           /\ stats.public_key \in Pubkey
           /\ cache[stats.listen_port] \in FiniteMaps(Pubkey, PeerStats)
           /\ DOMAIN stats.peers \subseteq Pubkey
           /\ \A k \in DOMAIN stats.peers : stats.peers[k] \in KernelPeer
<1>1. stats \in Statistics /\ stats.listen_port \in DOMAIN cache /\ cache \in PeerCache
  BY DEF WatchInv
<1>2. cache[stats.listen_port] \in FiniteMaps(Pubkey, PeerStats)
  BY <1>1, LookupType DEF PeerCache
<1> QED BY <1>1, <1>2, NetworkStatsDef

\* What it remembers of a peer.
LEMMA PreviousType ==
    ASSUME WatchInv, wpc \in {"peers", "send", "dead"}, NEW k
    PROVE  /\ k \in DOMAIN cache[stats.listen_port] =>
                Previous(k) \in PeerStats /\ Previous(k) = cache[stats.listen_port][k] /\ Previous(k) # None
           /\ k \notin DOMAIN cache[stats.listen_port] => Previous(k) = None
<1>1. cache[stats.listen_port] \in FiniteMaps(Pubkey, PeerStats)
  BY CacheHere
<1> QED BY <1>1, LookupType, NoneAssumption DEF Previous

\* watchdog_peer judges a peer by what the kernel tells, and keeps its counters.
LEMMA JudgedType ==
    ASSUME NEW x \in KernelPeer
    PROVE  /\ Judged(x) \in PeerStats
           /\ Judged(x).rx = x.rx /\ Judged(x).tx = x.tx /\ Judged(x).endpoint = x.endpoint
<1>1. IsLive(x.handshake) \in BOOLEAN
  BY DEF IsLive
<1> QED BY <1>1 DEF Judged, PeerStats, KernelPeer

\* A peer has at most two events at a time.
LEMMA EventsType ==
    ASSUME NEW previous \in PeerStats \cup {None}, NEW q \in PeerStats,
           NEW n \in Pubkey, NEW k \in Pubkey
    PROVE  EventsOf(previous, q, n, k) \in Seq(GatewayEvent)
<1>1. /\ PeerConnected(n, k, q.endpoint) \in GatewayEvent
      /\ PeerEndpoint(n, k, q.endpoint) \in GatewayEvent
      /\ PeerDisconnected(n, k) \in GatewayEvent
  BY DEF PeerConnected, PeerEndpoint, PeerDisconnected, GatewayEvent, PeerStats
<1> QED BY <1>1, EmptySeq, ConcatProperties DEF EventsOf

\* Counting the traffic of a peer keeps the TrafficInfo one.
LEMMA InfoWithType ==
    ASSUME info \in TrafficInfo, now \in Int, stats.public_key \in Pubkey,
           NEW previous \in PeerStats \cup {None}, NEW q \in PeerStats, NEW k \in Pubkey
    PROVE  InfoWith(previous, q, k) \in TrafficInfo
<1>1. CASE previous = None
  BY <1>1 DEF InfoWith
<1>2. CASE previous \in PeerStats
  <2> DEFINE t == NewTraffic((q.rx - previous.rx) % Usize, (q.tx - previous.tx) % Usize)
  <2>1. t \in TrafficType
    BY <1>2, WatchdogAssumption DEF NewTraffic, TrafficType, PeerStats
  <2>2. TrafficOf(previous, q, k) \in TrafficInfo
    <3> HIDE DEF t
    <3>1. TrafficInfo_add(info, stats.public_key, k, now, t) \in TrafficInfo
      BY <2>1, TrafficInfoType
    <3> QED BY <3>1 DEF TrafficOf, t
  <2> QED BY <2>2 DEF InfoWith
<1> QED BY <1>1, <1>2

\* cache.insert() at the end of watchdog_peer.
LEMMA CachedType ==
    ASSUME WatchInv, wpc \in {"peers", "send"}, NEW k \in Pubkey, NEW q \in PeerStats, Cached(k, q)
    PROVE  /\ cache' \in PeerCache
           /\ DOMAIN cache' = DOMAIN cache
           /\ cache'[stats.listen_port] = With(cache[stats.listen_port], k, q)
           /\ \A p \in DOMAIN cache : p # stats.listen_port => cache'[p] = cache[p]
<1> DEFINE here == With(cache[stats.listen_port], k, q)
<1>1. cache \in PeerCache /\ stats.listen_port \in DOMAIN cache
  BY CacheHere DEF WatchInv
<1>2. here \in FiniteMaps(Pubkey, PeerStats)
  BY CacheHere, WithType
<1>3. cache' = [cache EXCEPT ![stats.listen_port] = here]
  BY DEF Cached
<1> HIDE DEF here
<1>4. cache' \in PeerCache /\ DOMAIN cache' = DOMAIN cache
  BY <1>1, <1>2, <1>3, ExceptType DEF PeerCache
<1>5. cache'[stats.listen_port] = here /\ \A p \in DOMAIN cache : p # stats.listen_port => cache'[p] = cache[p]
  BY <1>1, <1>3
<1> QED BY <1>4, <1>5 DEF here

\* A dead peer leaves the cache.
LEMMA RemovedType ==
    ASSUME WatchInv, NEW k, dead_peer(k)
    PROVE  /\ cache' \in PeerCache
           /\ DOMAIN cache' = DOMAIN cache
           /\ cache'[stats.listen_port] = Without(cache[stats.listen_port], k)
           /\ DOMAIN cache'[stats.listen_port] = DOMAIN cache[stats.listen_port] \ {k}
           /\ \A p \in DOMAIN cache : p # stats.listen_port => cache'[p] = cache[p]
<1> DEFINE here == Without(cache[stats.listen_port], k)
<1>0. wpc = "dead"
  BY DEF dead_peer
<1>1. cache \in PeerCache /\ stats.listen_port \in DOMAIN cache
  BY <1>0, CacheHere DEF WatchInv
<1>2. here \in FiniteMaps(Pubkey, PeerStats) /\ DOMAIN here = DOMAIN cache[stats.listen_port] \ {k}
  <2>1. cache[stats.listen_port] \in FiniteMaps(Pubkey, PeerStats)
    BY <1>0, CacheHere
  <2>2. here \in FiniteMaps(Pubkey, PeerStats)
    BY <2>1, WithoutType
  <2>3. DOMAIN here = DOMAIN cache[stats.listen_port] \ {k}
    BY DEF Without
  <2> QED BY <2>2, <2>3
<1>3. cache' = [cache EXCEPT ![stats.listen_port] = here]
  BY DEF dead_peer
<1> HIDE DEF here
<1>4. cache' \in PeerCache /\ DOMAIN cache' = DOMAIN cache
  BY <1>1, <1>2, <1>3, ExceptType DEF PeerCache
<1>5. cache'[stats.listen_port] = here /\ \A p \in DOMAIN cache : p # stats.listen_port => cache'[p] = cache[p]
  BY <1>1, <1>3
<1> QED BY <1>2, <1>4, <1>5 DEF here

-----------------------------------------------------------------------------
(***************************************************************************)
(* The steps of the watchdog (src/watchdog.rs).                            *)
(***************************************************************************)

\* The tick, and a watchdog() that ends at once.
LEMMA RunWatch ==
    ASSUME WatchInv, KernelInv, watchdog_run
    PROVE  WatchInv'
<1>1. wpc = "tick" /\ peer = None /\ outbox = <<>>
  BY DEF watchdog_run, WatchInv
<1>2. UNCHANGED <<stats, left, peer, outbox>>
  BY DEF watchdog_run
<1>3. CASE wpc' = "run"
  <2>1. /\ due' = FALSE /\ names' = DOMAIN wg /\ info' = TrafficInfo_new(0) /\ cache' = cache
    BY <1>3 DEF watchdog_run, Relaunch
  <2> QED BY <1>1, <1>2, <1>3, <2>1, NewInfoType DEF WatchInv, KernelInv
<1>4. CASE Relaunch /\ UNCHANGED names
  <2>1. EmptyMap \in PeerCache
    BY EmptyMapType DEF PeerCache
  <2> QED BY <1>1, <1>2, <1>4, <2>1 DEF WatchInv, Relaunch
<1> QED BY <1>3, <1>4 DEF watchdog_run

\* The peers to visit are the ones fetched, and their port is in the cache.
LEMMA NetnsWatch ==
    ASSUME WatchInv, KernelInv, NEW p \in names, watchdog_netns(p)
    PROVE  WatchInv'
<1>1. wpc = "run" /\ peer = None /\ outbox = <<>> /\ info \in TrafficInfo /\ p \in Port
  BY DEF watchdog_netns, WatchInv
<1>2. UNCHANGED <<due, info, peer, outbox>> /\ names' = names \ {p}
  BY DEF watchdog_netns
<1>3. CASE UNCHANGED <<stats, left, cache, wpc>>
  BY <1>1, <1>2, <1>3 DEF WatchInv
<1>4. CASE /\ p \in DOMAIN wg
           /\ wg[p] # None
           /\ stats' = [listen_port |-> p, public_key |-> wg[p].public_key, peers |-> wg[p].peers]
           /\ left' = DOMAIN wg[p].peers
           /\ cache' = With(cache, p, Lookup(cache, p, EmptyMap))
           /\ wpc' = "peers"
  <2>1. /\ wg[p].public_key \in Pubkey /\ DOMAIN wg[p].peers \subseteq Pubkey
        /\ wg[p].peers \in [DOMAIN wg[p].peers -> KernelPeer]
    BY <1>4, NetworksDef DEF KernelInv
  <2>2. stats' \in Statistics /\ stats'.listen_port = p /\ left' = DOMAIN stats'.peers
    BY <1>1, <1>4, <2>1, NetworkStatsDef
  <2>3. Lookup(cache, p, EmptyMap) \in FiniteMaps(Pubkey, PeerStats)
    BY LookupType, EmptyMapType DEF WatchInv, PeerCache
  <2>4. cache' \in PeerCache
    BY <1>1, <1>4, <2>3, WithType DEF WatchInv, PeerCache
  <2>5. p \in DOMAIN cache'
    BY <1>4 DEF With
  <2> QED BY <1>1, <1>2, <1>4, <2>2, <2>4, <2>5 DEF WatchInv
<1> QED BY <1>3, <1>4 DEF watchdog_netns

\* watchdog_peer: a peer is cached, or worked on with an event to send.
LEMMA PeerWatch ==
    ASSUME WatchInv, KernelInv, NEW k \in left, watchdog_peer(k)
    PROVE  WatchInv'
<1> DEFINE q        == Judged(stats.peers[k])
           previous == Previous(k)
           events   == EventsOf(previous, q, stats.public_key, k)
<1>1. /\ wpc = "peers" /\ peer = None /\ outbox = <<>> /\ info \in TrafficInfo
      /\ k \in DOMAIN stats.peers /\ left \subseteq DOMAIN stats.peers
  BY DEF watchdog_peer, WatchInv
<1>2. UNCHANGED <<due, names, stats>> /\ left' = left \ {k}
  BY DEF watchdog_peer
<1>3. k \in Pubkey /\ q \in PeerStats /\ stats.public_key \in Pubkey /\ stats.listen_port \in DOMAIN cache
  BY <1>1, CacheHere, JudgedType
<1>4. previous \in PeerStats \cup {None}
  BY <1>1, PreviousType
<1>5. events \in Seq(GatewayEvent)
  BY <1>3, <1>4, EventsType
<1>6. InfoWith(previous, q, k) \in TrafficInfo
  BY <1>1, <1>3, <1>4, InfoWithType, ClockAssumption DEF KernelInv
<1> HIDE DEF q, previous, events
<1>7. CASE wpc' \in {"peers", "panicked"} /\ UNCHANGED <<cache, info, peer, outbox>>
  BY <1>1, <1>2, <1>3, <1>7 DEF WatchInv
<1>8. CASE info' = InfoWith(previous, q, k) /\ Cached(k, q)
  <2>1. cache' \in PeerCache /\ DOMAIN cache' = DOMAIN cache
    BY <1>1, <1>3, <1>8, CachedType
  <2>2. outbox' = <<>> /\ wpc' = "peers" /\ peer' = None
    BY <1>8 DEF Cached
  <2> QED BY <1>1, <1>2, <1>6, <1>8, <2>1, <2>2, EmptySeq DEF WatchInv
<1>9. CASE /\ info' = InfoWith(previous, q, k)
           /\ events # <<>>
           /\ wpc' = "send"
           /\ peer' = [key |-> k, stats |-> q]
           /\ outbox' = events
           /\ UNCHANGED cache
  <2>1. peer' \in [key : Pubkey, stats : PeerStats] /\ peer'.key = k
    BY <1>3, <1>9
  <2>2. peer'.key \in DOMAIN stats'.peers \ left'
    BY <1>1, <1>2, <2>1
  <2> QED BY <1>1, <1>2, <1>5, <1>6, <1>9, <2>1, <2>2 DEF WatchInv
<1> QED BY <1>1, <1>7, <1>8, <1>9 DEF watchdog_peer, q, previous, events

\* An event sent or refused: the outbox runs empty as the peer is left.
LEMMA EventWatch ==
    ASSUME WatchInv, watchdog_event
    PROVE  WatchInv'
<1>1. /\ wpc = "send" /\ outbox # <<>> /\ outbox \in Seq(GatewayEvent) /\ info \in TrafficInfo
      /\ peer \in [key : Pubkey, stats : PeerStats]
  BY DEF watchdog_event, WatchInv
<1>2. UNCHANGED <<due, names, info, stats, left>>
  BY DEF watchdog_event
<1>3. CASE Cached(peer.key, peer.stats)
  <2>1. cache' \in PeerCache /\ DOMAIN cache' = DOMAIN cache
    BY <1>1, <1>3, CachedType
  <2>2. outbox' = <<>> /\ wpc' = "peers" /\ peer' = None
    BY <1>3 DEF Cached
  <2> QED BY <1>1, <1>2, <2>1, <2>2, EmptySeq DEF WatchInv
<1>4. CASE Len(outbox) # 1 /\ outbox' = Tail(outbox) /\ UNCHANGED <<cache, wpc, peer>>
  <2>1. Tail(outbox) \in Seq(GatewayEvent) /\ Len(Tail(outbox)) = Len(outbox) - 1 /\ Len(outbox) \in Nat
    BY <1>1, HeadTailProperties, LenProperties
  <2>2. outbox' \in Seq(GatewayEvent) /\ outbox' # <<>>
    <3>1. Len(outbox) # 0 /\ Len(<<>>) = 0
      BY <1>1, EmptySeq
    <3>2. Len(Tail(outbox)) # 0
      BY <1>4, <2>1, <3>1
    <3>3. Tail(outbox) # <<>>
      BY <3>1, <3>2
    <3> QED BY <1>4, <2>1, <3>3
  <2> QED BY <1>1, <1>2, <1>4, <2>2 DEF WatchInv
<1>5. CASE outbox' = <<>> /\ wpc' = "peers" /\ peer' = None /\ UNCHANGED cache
  BY <1>1, <1>2, <1>5, EmptySeq DEF WatchInv
<1> QED BY <1>3, <1>4, <1>5 DEF watchdog_event

\* The dead peers are in the cache.
LEMMA DeadPeersWatch ==
    ASSUME WatchInv, dead_peers
    PROVE  WatchInv'
<1>1. wpc = "peers" /\ info \in TrafficInfo
  BY DEF dead_peers, WatchInv
<1>2. UNCHANGED <<due, cache, names, info, peer, outbox>>
  BY DEF dead_peers
<1>3. CASE left' = {} /\ wpc' = "run"
  BY <1>1, <1>2, <1>3 DEF WatchInv
<1>4. CASE /\ left' = DOMAIN cache[stats.listen_port] \ DOMAIN stats.peers
           /\ wpc' = "dead" /\ stats' = stats
  BY <1>1, <1>2, <1>4 DEF WatchInv
<1> QED BY <1>3, <1>4 DEF dead_peers, Bury

\* The ones left are, after one of them has been removed.
LEMMA DeadPeerWatch ==
    ASSUME WatchInv, NEW k \in left, dead_peer(k)
    PROVE  WatchInv'
<1>1. wpc = "dead" /\ info \in TrafficInfo /\ left \subseteq DOMAIN cache[stats.listen_port] \ DOMAIN stats.peers
  BY DEF dead_peer, WatchInv
<1>2. UNCHANGED <<due, names, info, peer, outbox>>
  BY DEF dead_peer
<1>3. /\ cache' \in PeerCache /\ DOMAIN cache' = DOMAIN cache
      /\ DOMAIN cache'[stats.listen_port] = DOMAIN cache[stats.listen_port] \ {k}
  BY RemovedType
<1>4. CASE left' = {} /\ wpc' = "run"
  BY <1>1, <1>2, <1>3, <1>4 DEF WatchInv
<1>5. CASE left' = left \ {k} /\ wpc' = "dead" /\ stats' = stats
  BY <1>1, <1>2, <1>3, <1>5 DEF WatchInv
<1> QED BY <1>4, <1>5 DEF dead_peer, Bury

\* The poll ends, and its TrafficInfo with it.
LEMMA SendTrafficWatch ==
    ASSUME WatchInv, send_traffic
    PROVE  WatchInv'
<1>1. wpc = "run" /\ peer = None /\ outbox = <<>>
  BY DEF send_traffic, WatchInv
<1>2. UNCHANGED <<names, stats, left, peer, outbox>> /\ wpc' = "tick" /\ info' = None
  BY DEF send_traffic, Relaunch
<1>3. EmptyMap \in PeerCache
  BY EmptyMapType DEF PeerCache
<1>4. due' \in BOOLEAN /\ cache' \in PeerCache
  BY <1>3 DEF send_traffic, Relaunch, WatchInv
<1> QED BY <1>1, <1>2, <1>4 DEF WatchInv

\* A daemon that is started again.
LEMMA RestartWatch ==
    ASSUME Restart
    PROVE  WatchInv'
<1>1. EmptyMap \in PeerCache
  BY EmptyMapType DEF PeerCache
<1> QED BY <1>1, EmptySeq DEF Restart, WatchInv

-----------------------------------------------------------------------------
(***************************************************************************)
(* The channels, filled by the watchdog and emptied by connect_run.        *)
(***************************************************************************)

\* An event of watchdog_peer in its queue.
LEMMA EventChannel ==
    ASSUME WatchInv, ChannelInv, watchdog_event, UNCHANGED websocketVars
    PROVE  ChannelInv'
<1>1. outbox \in Seq(GatewayEvent) /\ outbox # <<>>
  BY DEF watchdog_event, WatchInv
<1>2. Head(outbox) \in GatewayEvent
  BY <1>1, HeadTailProperties
<1>3. UNCHANGED <<conn, inbox, traffic_broadcast>>
  BY DEF watchdog_event, websocketVars
<1>4. CASE events_broadcast' = events_broadcast
  BY <1>3, <1>4 DEF ChannelInv
<1>5. CASE /\ events_broadcast.open
           /\ events_broadcast' = send(events_broadcast, BROADCAST_QUEUE_EVENTS, Head(outbox))
  <2>1. /\ events_broadcast' \in Channel(GatewayEvent)
        /\ IsChannel(events_broadcast', BROADCAST_QUEUE_EVENTS)
        /\ events_broadcast'.open
    BY <1>2, <1>5, SendType, QueueAssumption DEF ChannelInv
  <2> QED BY <1>3, <1>5, <2>1 DEF ChannelInv
<1> QED BY <1>4, <1>5 DEF watchdog_event

\* The event of a dead peer in its queue.
LEMMA DeadPeerChannel ==
    ASSUME WatchInv, ChannelInv, NEW k \in left, dead_peer(k), UNCHANGED websocketVars
    PROVE  ChannelInv'
<1>1. stats.public_key \in Pubkey /\ cache[stats.listen_port] \in FiniteMaps(Pubkey, PeerStats)
  BY CacheHere DEF dead_peer
<1>2. k \in Pubkey
  BY <1>1, FiniteMapDef DEF dead_peer, WatchInv
<1>3. PeerDisconnected(stats.public_key, k) \in GatewayEvent
  BY <1>1, <1>2 DEF PeerDisconnected, GatewayEvent
<1>4. UNCHANGED <<conn, inbox, traffic_broadcast>>
  BY DEF dead_peer, websocketVars
<1>5. CASE events_broadcast' = events_broadcast
  BY <1>4, <1>5 DEF ChannelInv
<1>6. CASE /\ events_broadcast.open
           /\ events_broadcast' = send(events_broadcast, BROADCAST_QUEUE_EVENTS,
                                       PeerDisconnected(stats.public_key, k))
  <2>1. /\ events_broadcast' \in Channel(GatewayEvent)
        /\ IsChannel(events_broadcast', BROADCAST_QUEUE_EVENTS)
        /\ events_broadcast'.open
    BY <1>3, <1>6, SendType, QueueAssumption DEF ChannelInv
  <2> QED BY <1>4, <1>6, <2>1 DEF ChannelInv
<1> QED BY <1>5, <1>6 DEF dead_peer

\* A TrafficInfo in its queue.
LEMMA TrafficChannel ==
    ASSUME WatchInv, ChannelInv, send_traffic, UNCHANGED websocketVars
    PROVE  ChannelInv'
<1>1. info \in TrafficInfo
  BY DEF send_traffic, WatchInv
<1>2. UNCHANGED <<conn, inbox, events_broadcast>>
  BY DEF send_traffic, websocketVars
<1>3. CASE traffic_broadcast' = traffic_broadcast
  BY <1>2, <1>3 DEF ChannelInv
<1>4. CASE /\ traffic_broadcast.open
           /\ traffic_broadcast' = send(traffic_broadcast, BROADCAST_QUEUE_TRAFFIC, info)
  <2>1. /\ traffic_broadcast' \in Channel(TrafficInfo)
        /\ IsChannel(traffic_broadcast', BROADCAST_QUEUE_TRAFFIC)
        /\ traffic_broadcast'.open
    BY <1>1, <1>4, SendType, QueueAssumption DEF ChannelInv
  <2> QED BY <1>2, <1>4, <2>1 DEF ChannelInv
<1> QED BY <1>3, <1>4 DEF send_traffic

\* The receivers are dropped with the connection, whether or not the daemon
\* ends with it.
LEMMA DroppedChannel ==
    ASSUME Dropped \/ Exited
    PROVE  ChannelInv'
<1>1. /\ Unsubscribed \in Channel(TrafficInfo) /\ IsChannel(Unsubscribed, BROADCAST_QUEUE_TRAFFIC)
      /\ Unsubscribed \in Channel(GatewayEvent) /\ IsChannel(Unsubscribed, BROADCAST_QUEUE_EVENTS)
      /\ ~Unsubscribed.open
  BY SubscribeType, QueueAssumption DEF Unsubscribed
<1>2. <<>> \in Seq(Request)
  BY EmptySeq
<1>3. /\ conn' \in {"down", "exited"} /\ inbox' = <<>>
      /\ traffic_broadcast' = Unsubscribed /\ events_broadcast' = Unsubscribed
  BY DEF Dropped, Exited
<1>4. conn' \in {"down", "half", "up", "busy", "exited"}
  BY <1>3
<1>5. conn' \notin {"half", "up", "busy"}
  BY <1>3
<1> QED BY <1>1, <1>2, <1>3, <1>4, <1>5 DEF ChannelInv

\* connect_run: the receivers exist exactly while the connection does.
LEMMA WebsocketChannel ==
    ASSUME ChannelInv, WebsocketStep
    PROVE  ChannelInv'
<1>1. /\ subscribe \in Channel(TrafficInfo) /\ IsChannel(subscribe, BROADCAST_QUEUE_TRAFFIC)
      /\ subscribe \in Channel(GatewayEvent) /\ IsChannel(subscribe, BROADCAST_QUEUE_EVENTS)
      /\ subscribe.open
  BY SubscribeType, QueueAssumption DEF subscribe
<1>2. CASE connect_run
  <2>1. /\ conn = "down" /\ conn' = "half" /\ traffic_broadcast' = subscribe
        /\ UNCHANGED <<inbox, events_broadcast>>
    BY <1>2 DEF connect_run
  <2>2. ~events_broadcast.open
    BY <2>1 DEF ChannelInv
  <2> QED BY <1>1, <2>1, <2>2 DEF ChannelInv
<1>3. CASE subscribe_events
  BY <1>1, <1>3 DEF subscribe_events, ChannelInv
<1>4. CASE NextMessage
  <2>1. inbox # <<>> /\ Head(inbox) \in Request /\ Tail(inbox) \in Seq(Request)
    BY <1>4, HeadTailProperties DEF NextMessage, ChannelInv
  <2>2. CASE Dropped \/ Exited
    BY <2>2, DroppedChannel
  <2>3. CASE /\ conn' \in {"up", "busy"} /\ inbox' = Tail(inbox)
             /\ UNCHANGED <<traffic_broadcast, events_broadcast>>
    BY <1>4, <2>1, <2>3 DEF NextMessage, ChannelInv
  <2> QED BY <1>4, <2>1, <2>2, <2>3 DEF NextMessage, Read, Request
<1>5. CASE ApplyReturns
  BY <1>5, DroppedChannel DEF ApplyReturns, ChannelInv
<1>6. CASE ForwardEvent
  <2>1. CASE Dropped
    BY <2>1, DroppedChannel
  <2>2. CASE /\ events_broadcast' = Received(events_broadcast)
             /\ UNCHANGED <<conn, inbox, traffic_broadcast>>
    <3>1. conn = "up" /\ events_broadcast.open /\ events_broadcast.queue # <<>>
      BY <1>6 DEF ForwardEvent, ChannelInv
    <3>2. /\ events_broadcast' \in Channel(GatewayEvent)
          /\ IsChannel(events_broadcast', BROADCAST_QUEUE_EVENTS)
          /\ events_broadcast'.open
      BY <2>2, <3>1, ReceivedType, QueueAssumption DEF ChannelInv
    <3> QED BY <2>2, <3>1, <3>2 DEF ChannelInv
  <2> QED BY <1>6, <2>1, <2>2 DEF ForwardEvent
<1>7. CASE ForwardTraffic
  <2>1. CASE Dropped
    BY <2>1, DroppedChannel
  <2>2. CASE /\ traffic_broadcast' = Received(traffic_broadcast)
             /\ UNCHANGED <<conn, inbox, events_broadcast>>
    <3>1. conn = "up" /\ traffic_broadcast.open /\ traffic_broadcast.queue # <<>>
      BY <1>7 DEF ForwardTraffic, ChannelInv
    <3>2. /\ traffic_broadcast' \in Channel(TrafficInfo)
          /\ IsChannel(traffic_broadcast', BROADCAST_QUEUE_TRAFFIC)
          /\ traffic_broadcast'.open
      BY <2>2, <3>1, ReceivedType, QueueAssumption DEF ChannelInv
    <3> QED BY <2>2, <3>1, <3>2 DEF ChannelInv
  <2> QED BY <1>7, <2>1, <2>2 DEF ForwardTraffic
<1> QED BY <1>2, <1>3, <1>4, <1>5, <1>6, <1>7 DEF WebsocketStep

-----------------------------------------------------------------------------
\* The kernel changes the entry of one peer of one interface.
LEMMA PeerKernel ==
    ASSUME KernelInv, NEW p \in DOMAIN wg, NEW k, HasPeer(p, k), NEW x \in KernelPeer,
           wg' = [wg EXCEPT ![p] = [wg[p] EXCEPT !.peers = [wg[p].peers EXCEPT ![k] = x]]],
           now' = now
    PROVE  KernelInv'
<1>1. wg[p] \in Networks
  BY DEF KernelInv, HasPeer
<1>2. /\ wg[p] = [public_key |-> wg[p].public_key, peers |-> wg[p].peers]
      /\ wg[p].public_key \in Pubkey /\ DOMAIN wg[p].peers \subseteq Pubkey
      /\ wg[p].peers \in [DOMAIN wg[p].peers -> KernelPeer]
  BY <1>1, NetworksDef
<1> DEFINE peers == [wg[p].peers EXCEPT ![k] = x]
           network == [wg[p] EXCEPT !.peers = peers]
<1>3. DOMAIN peers = DOMAIN wg[p].peers /\ peers \in [DOMAIN peers -> KernelPeer]
  BY <1>2 DEF HasPeer
<1> HIDE DEF peers
<1>4. network = [public_key |-> wg[p].public_key, peers |-> peers]
  BY <1>2
<1>5. network \in Networks
  BY <1>2, <1>3, <1>4, NetworksDef
<1>6. wg' = [wg EXCEPT ![p] = network]
  BY DEF peers
<1> HIDE DEF network
<1> QED BY <1>5, <1>6 DEF KernelInv

\* Traffic makes the counters of a peer grow.
LEMMA CountedType ==
    ASSUME NEW x \in KernelPeer, NEW r \in {0, 1}, NEW t \in {0, 1}
    PROVE  /\ Counted(x, r, t) \in KernelPeer
           /\ Counted(x, r, t).rx = x.rx + r
           /\ Counted(x, r, t).tx = x.tx + t
<1>1. x.rx + r \in Nat /\ x.tx + t \in Nat
  BY DEF KernelPeer
<1> DEFINE a == x.rx + r
           b == x.tx + t
<1>2. Counted(x, r, t) = [x EXCEPT !.rx = a, !.tx = b]
  BY DEF Counted
<1> HIDE DEF a, b
<1>3. Counted(x, r, t) = [handshake |-> x.handshake, endpoint |-> x.endpoint, rx |-> a, tx |-> b]
  BY <1>2 DEF KernelPeer
<1>4. a \in Nat /\ b \in Nat
  BY <1>1 DEF a, b
<1>5. Counted(x, r, t) \in KernelPeer /\ Counted(x, r, t).rx = a /\ Counted(x, r, t).tx = b
  BY <1>3, <1>4 DEF KernelPeer
<1> QED BY <1>5 DEF a, b

\* Handshakes, traffic and the clock keep the types of the kernel.
LEMMA KernelKernel ==
    ASSUME KernelInv, Kernel
    PROVE  KernelInv'
<1>1. ASSUME NEW p \in DOMAIN wg, NEW k \in Pubkey, NEW e \in Endpoint, Handshake(p, k, e)
      PROVE  KernelInv'
  <2> DEFINE x == [wg[p].peers[k] EXCEPT !.handshake = now, !.endpoint = e]
  <2>1. HasPeer(p, k) /\ now' = now
    BY <1>1 DEF Handshake
  <2>2. wg[p].peers[k] \in KernelPeer
    BY <2>1, NetworksDef DEF HasPeer, KernelInv
  <2>3. x \in KernelPeer
    BY <2>2, ClockAssumption DEF KernelPeer, KernelInv
  <2>4. wg' = [wg EXCEPT ![p] = [wg[p] EXCEPT !.peers = [wg[p].peers EXCEPT ![k] = x]]]
    BY <1>1 DEF Handshake
  <2> HIDE DEF x
  <2> QED BY <2>1, <2>3, <2>4, PeerKernel
<1>2. ASSUME NEW p \in DOMAIN wg, NEW k \in Pubkey, NEW r \in {0, 1}, NEW t \in {0, 1},
             Transfer(p, k, r, t)
      PROVE  KernelInv'
  <2> DEFINE x == Counted(wg[p].peers[k], r, t)
  <2>1. HasPeer(p, k) /\ now' = now
    BY <1>2 DEF Transfer
  <2>2. wg[p].peers[k] \in KernelPeer
    BY <2>1, NetworksDef DEF HasPeer, KernelInv
  <2>3. x \in KernelPeer
    BY <2>2, CountedType
  <2>4. wg' = [wg EXCEPT ![p] = [wg[p] EXCEPT !.peers = [wg[p].peers EXCEPT ![k] = x]]]
    BY <1>2 DEF Transfer
  <2> HIDE DEF x
  <2> QED BY <2>1, <2>3, <2>4, PeerKernel
<1>3. CASE ClockMoves
  BY <1>3 DEF ClockMoves, KernelInv
<1> QED BY <1>1, <1>2, <1>3 DEF Kernel

\* So does what an apply does to the namespaces.
LEMMA ReconfigureKernel ==
    ASSUME KernelInv, Reconfigure
    PROVE  KernelInv'
<1>1. ASSUME NEW p \in DOMAIN wg, NetnsDel(p) PROVE KernelInv'
  BY <1>1 DEF NetnsDel, KernelInv, Without
<1>2. ASSUME NEW p \in Port, NetnsAdd(p) PROVE KernelInv'
  BY <1>2 DEF NetnsAdd, KernelInv, With
<1>3. ASSUME NEW c \in Confs, Syncconf(c) PROVE KernelInv'
  <2> DEFINE old(k) == IF HasPeer(c.listen_port, k) THEN wg[c.listen_port].peers[k] ELSE None
             peers == [k \in DOMAIN c.peers |-> Configured(old(k), c.peers[k])]
             network == [public_key |-> c.public_key, peers |-> peers]
  <2>1. c.listen_port \in DOMAIN wg /\ now' = now /\ wg' = [wg EXCEPT ![c.listen_port] = network]
    BY <1>3 DEF Syncconf
  <2>2. ASSUME NEW k \in DOMAIN c.peers PROVE Configured(old(k), c.peers[k]) \in KernelPeer
    <3>1. c.peers[k] \in Endpoint \cup {None}
      BY ConfsAssumption
    <3>2. HasPeer(c.listen_port, k) => wg[c.listen_port].peers[k] \in KernelPeer
      BY <2>1, NetworksDef DEF HasPeer, KernelInv
    <3>3. old(k) \in KernelPeer \cup {None}
      BY <3>2
    <3> HIDE DEF old
    <3> QED BY <3>1, <3>3 DEF Configured, KernelPeer
  <2>3. DOMAIN peers = DOMAIN c.peers /\ peers \in [DOMAIN peers -> KernelPeer]
    BY <2>2
  <2> HIDE DEF peers
  <2>4. network \in Networks
    BY <2>3, NetworksDef, ConfsAssumption
  <2> HIDE DEF network
  <2> QED BY <2>1, <2>4 DEF KernelInv
<1> QED BY <1>1, <1>2, <1>3 DEF Reconfigure

-----------------------------------------------------------------------------
\* A daemon that starts, beside what it finds.
LEMMA TypeInit == Init => TypeInv
<1> SUFFICES ASSUME Init PROVE TypeInv
  OBVIOUS
<1>1. KernelInv
  <2>1. ASSUME NEW p \in DOMAIN wg, wg[p] # None PROVE wg[p] \in Networks
    BY <2>1, FoundAssumption DEF Init, Networks
  <2> QED BY <2>1, FoundAssumption DEF Init, KernelInv
<1>2. WatchInv
  BY EmptyMapType, EmptySeq DEF Init, WatchdogLaunched, WatchInv, PeerCache
<1>3. ChannelInv
  BY SubscribeType, QueueAssumption, EmptySeq DEF Init, WebsocketInit, ChannelInv
<1> QED BY <1>1, <1>2, <1>3 DEF TypeInv

\* The watchdog's steps, between any two steps of the other task.
LEMMA WatchNext ==
    ASSUME TypeInv, Watch
    PROVE  TypeInv'
<1>0. KernelInv /\ WatchInv /\ ChannelInv /\ UNCHANGED websocketVars
  BY DEF TypeInv, Watch
<1>1. UNCHANGED <<now, wg>>
  BY DEF Watch, WatchdogStep, Tick, watchdog_run, watchdog_netns, watchdog_peer, dead_peer,
         watchdog_event, dead_peers, send_traffic
<1>2. KernelInv'
  BY <1>0, <1>1 DEF KernelInv
<1>3. CASE UNCHANGED <<traffic_broadcast, events_broadcast>> /\ WatchInv'
  BY <1>0, <1>2, <1>3 DEF TypeInv, ChannelInv, websocketVars
<1>4. CASE watchdog_run
  BY <1>0, <1>3, <1>4, RunWatch DEF watchdog_run
<1>5. ASSUME NEW p \in names, watchdog_netns(p) PROVE TypeInv'
  BY <1>0, <1>3, <1>5, NetnsWatch DEF watchdog_netns
<1>6. ASSUME NEW k \in left, watchdog_peer(k) PROVE TypeInv'
  BY <1>0, <1>3, <1>6, PeerWatch DEF watchdog_peer
<1>7. ASSUME NEW k \in left, dead_peer(k) PROVE TypeInv'
  BY <1>0, <1>2, <1>7, DeadPeerWatch, DeadPeerChannel DEF TypeInv
<1>8. CASE watchdog_event
  BY <1>0, <1>2, <1>8, EventWatch, EventChannel DEF TypeInv
<1>9. CASE dead_peers
  BY <1>0, <1>3, <1>9, DeadPeersWatch DEF dead_peers
<1>10. CASE send_traffic
  BY <1>0, <1>2, <1>10, SendTrafficWatch, TrafficChannel DEF TypeInv
<1>11. CASE Tick
  <2>1. WatchInv'
    BY <1>0, <1>11 DEF Tick, WatchInv, localVars
  <2> QED BY <1>3, <1>11, <2>1 DEF Tick
<1> QED BY <1>4, <1>5, <1>6, <1>7, <1>8, <1>9, <1>10, <1>11 DEF Watch, WatchdogStep

\* Every step of both tasks, of the kernel and of the manager.
LEMMA TypeNext == TypeInv /\ [Next]_vars => TypeInv'
<1> SUFFICES ASSUME TypeInv, [Next]_vars PROVE TypeInv'
  OBVIOUS
<1>0. KernelInv /\ WatchInv /\ ChannelInv
  BY DEF TypeInv
<1>1. CASE UNCHANGED vars
  BY <1>0, <1>1
  DEF vars, websocketVars, watchdogVars, localVars, kernelVars, TypeInv, KernelInv, WatchInv, ChannelInv
<1>2. CASE Watch
  BY <1>2, WatchNext
<1>3. ASSUME UNCHANGED <<watchdogVars, kernelVars>>, ChannelInv' PROVE TypeInv'
  BY <1>0, <1>3 DEF watchdogVars, localVars, kernelVars, TypeInv, KernelInv, WatchInv
<1>4. CASE Serve(WebsocketStep)
  BY <1>0, <1>3, <1>4, WebsocketChannel DEF Serve
<1>5. CASE Serve(ConnectionLost)
  BY <1>3, <1>5, DroppedChannel DEF Serve, ConnectionLost
<1>6. CASE Manage
  <2>1. PICK m \in Messages : Serve(ManagerSends(m))
    BY <1>6 DEF Manage
  <2>2. m \in Request /\ inbox \in Seq(Request)
    BY <1>0, MessagesAssumption DEF ChannelInv
  <2>3. Append(inbox, m) \in Seq(Request)
    BY <2>2, AppendProperties
  <2>4. ChannelInv'
    BY <1>0, <2>1, <2>3 DEF Serve, ManagerSends, ChannelInv
  <2> QED BY <1>3, <2>1, <2>4 DEF Serve
<1>7. ASSUME KernelFrame, KernelInv' PROVE TypeInv'
  BY <1>0, <1>7
  DEF KernelFrame, websocketVars, watchdogVars, localVars, TypeInv, WatchInv, ChannelInv
<1>8. CASE Kernel
  BY <1>0, <1>7, <1>8, KernelKernel DEF Kernel, Handshake, Transfer, ClockMoves
<1>9. CASE Reconfigure
  BY <1>0, <1>7, <1>9, ReconfigureKernel DEF Reconfigure, NetnsDel, NetnsAdd, Syncconf
<1>10. CASE Restart
  <2>1. KernelInv'
    BY <1>0, <1>10, EmptyMapType DEF Restart, KernelInv, EmptyMap
  <2>2. ChannelInv'
    BY <1>0, <1>10 DEF Restart, ChannelInv
  <2> QED BY <1>10, <2>1, <2>2, RestartWatch DEF TypeInv
<1> QED BY <1>1, <1>2, <1>4, <1>5, <1>6, <1>8, <1>9, <1>10 DEF Next

\* What every behaviour of the daemon keeps.
LEMMA TypeInvariant == Spec => []TypeInv
BY TypeInit, TypeNext, PTL DEF Spec

\* The daemon never leaves its types: whatever the two tasks and the kernel do
\* in between, no queue outgrows its capacity, a channel without a receiver
\* holds nothing, and the loops of the watchdog only come to peers and ports
\* that exist for them, so that no lookup of src/watchdog.rs fails.
THEOREM TypeCorrect == Spec => []TypeOK
<1>1. TypeInv => TypeOK
  <2> SUFFICES ASSUME TypeInv PROVE TypeOK
    OBVIOUS
  <2>1. ASSUME NEW p \in DOMAIN wg, wg[p] # None
        PROVE  /\ wg[p].public_key \in Pubkey
               /\ DOMAIN wg[p].peers \subseteq Pubkey
               /\ wg[p].peers \in [DOMAIN wg[p].peers -> KernelPeer]
    BY <2>1, NetworksDef DEF TypeInv, KernelInv
  <2>2. cache \in PeerCache
    BY DEF TypeInv, WatchInv
  <2>3. DOMAIN cache \subseteq Port /\ cache \in [DOMAIN cache -> FiniteMaps(Pubkey, PeerStats)]
    BY <2>2, FiniteMapDef DEF PeerCache
  <2>4. ASSUME NEW p \in DOMAIN cache
        PROVE  DOMAIN cache[p] \subseteq Pubkey /\ cache[p] \in [DOMAIN cache[p] -> PeerStats]
    BY <2>3, FiniteMapDef
  <2>5. wpc \in {"peers", "send", "dead"} => stats # None
    BY NoneAssumption DEF TypeInv, WatchInv, Statistics
  <2>6. wpc = "send" <=> peer # None
    BY NoneAssumption DEF TypeInv, WatchInv
  <2>7. /\ events_broadcast.queue \in Seq(GatewayEvent)
        /\ events_broadcast.open = (conn \in {"up", "busy"})
        /\ traffic_broadcast.open = (conn \in {"half", "up", "busy"})
    BY DEF TypeInv, ChannelInv, Channel
  <2> QED BY <2>1, <2>3, <2>4, <2>5, <2>6, <2>7 DEF TypeInv, TypeOK, KernelInv, WatchInv, ChannelInv
<1> QED BY <1>1, TypeInvariant, PTL

-----------------------------------------------------------------------------
(***************************************************************************)
(* For the proofs about more than one port: if every network has its port, *)
(* it is never found at another one.                                       *)
(***************************************************************************)

\* Every network is at its port.
PortInv(port) == \A p \in DOMAIN wg : wg[p] # None => port[wg[p].public_key] = p

\* syncconf gives a namespace the key that belongs to its port; nothing else
\* gives it one.
LEMMA PortNext ==
    ASSUME NEW port, HasItsPort(port), KernelInv, PortInv(port), [Next]_vars
    PROVE  PortInv(port)'
<1>1. CASE wg' = wg
  BY <1>1 DEF PortInv
<1>2. ASSUME NEW x \in DOMAIN wg, NEW d, HasPeer(x, d), NEW new,
             wg' = [wg EXCEPT ![x] = [wg[x] EXCEPT !.peers = [wg[x].peers EXCEPT ![d] = new]]]
      PROVE  PortInv(port)'
  <2>1. wg[x] # None /\ wg[x] = [public_key |-> wg[x].public_key, peers |-> wg[x].peers]
    BY <1>2, NetworksDef DEF HasPeer, KernelInv
  <2>2. /\ DOMAIN wg' = DOMAIN wg
        /\ wg'[x] = [public_key |-> wg[x].public_key, peers |-> [wg[x].peers EXCEPT ![d] = new]]
        /\ \A y \in DOMAIN wg : y # x => wg'[y] = wg[y]
    BY <1>2, <2>1
  <2>3. wg'[x].public_key = wg[x].public_key
    BY <2>2
  <2> QED BY <2>1, <2>2, <2>3 DEF PortInv
<1>3. ASSUME NEW x \in DOMAIN wg, NEW d \in Pubkey, NEW e \in Endpoint, Handshake(x, d, e)
      PROVE  PortInv(port)'
  <2> DEFINE new == [wg[x].peers[d] EXCEPT !.handshake = now, !.endpoint = e]
  <2>1. HasPeer(x, d) /\ wg' = [wg EXCEPT ![x] = [wg[x] EXCEPT !.peers = [wg[x].peers EXCEPT ![d] = new]]]
    BY <1>3 DEF Handshake
  <2> HIDE DEF new
  <2> QED BY <1>2, <2>1
<1>4. ASSUME NEW x \in DOMAIN wg, NEW d \in Pubkey, NEW r, NEW t, Transfer(x, d, r, t)
      PROVE  PortInv(port)'
  <2> DEFINE new == Counted(wg[x].peers[d], r, t)
  <2>1. HasPeer(x, d) /\ wg' = [wg EXCEPT ![x] = [wg[x] EXCEPT !.peers = [wg[x].peers EXCEPT ![d] = new]]]
    BY <1>4 DEF Transfer
  <2> HIDE DEF new
  <2> QED BY <1>2, <2>1
<1>5. ASSUME NEW x, NetnsDel(x) PROVE PortInv(port)'
  BY <1>5 DEF NetnsDel, Without, PortInv
<1>6. ASSUME NEW x, NetnsAdd(x) PROVE PortInv(port)'
  BY <1>6 DEF NetnsAdd, With, PortInv
<1>7. ASSUME NEW c \in Confs, Syncconf(c) PROVE PortInv(port)'
  <2> DEFINE old(j) == IF HasPeer(c.listen_port, j) THEN wg[c.listen_port].peers[j] ELSE None
             peers == [j \in DOMAIN c.peers |-> Configured(old(j), c.peers[j])]
  <2>1. wg' = [wg EXCEPT ![c.listen_port] = [public_key |-> c.public_key, peers |-> peers]]
    BY <1>7 DEF Syncconf
  <2> HIDE DEF peers
  <2>2. \A p \in DOMAIN wg' : p # c.listen_port => wg'[p] = wg[p]
    BY <2>1
  <2>3. DOMAIN wg' = DOMAIN wg
    BY <2>1
  <2>4. c.listen_port \in DOMAIN wg => wg'[c.listen_port].public_key = c.public_key
    BY <2>1
  <2>5. port[c.public_key] = c.listen_port
    BY DEF HasItsPort
  <2> QED BY <2>2, <2>3, <2>4, <2>5 DEF PortInv
<1>8. CASE Restart
  BY <1>8 DEF Restart, PortInv, EmptyMap
<1>9. CASE Watch
  BY <1>1, <1>9 DEF Watch, WatchdogStep, Tick, watchdog_run, watchdog_netns, watchdog_peer, dead_peer,
         watchdog_event, dead_peers, send_traffic
<1>10. CASE Serve(WebsocketStep) \/ Serve(ConnectionLost) \/ Manage \/ UNCHANGED vars
  BY <1>1, <1>10 DEF Serve, Manage, kernelVars, vars
<1>11. CASE Kernel
  BY <1>1, <1>3, <1>4, <1>11 DEF Kernel, ClockMoves
<1>12. CASE Reconfigure
  BY <1>5, <1>6, <1>7, <1>12 DEF Reconfigure
<1> QED BY <1>8, <1>9, <1>10, <1>11, <1>12 DEF Next

=============================================================================
