------------------------------ MODULE Watchdog ------------------------------
(***************************************************************************)
(* The watchdog task (src/watchdog.rs, and the loop of Global::watchdog    *)
(* that launches it): it polls the WireGuard interfaces, remembers in a    *)
(* cache what it saw of every peer, and turns the differences into events  *)
(* and a TrafficInfo.                                                      *)
(*                                                                         *)
(* Every await of a command and every send to a channel is a step: the     *)
(* websocket task subscribes, drops its receivers and changes namespaces   *)
(* in between.                                                             *)
(***************************************************************************)
EXTENDS Global, Traffic, FiniteSets

CONSTANTS
    Port,                          \* listen ports, which name the namespaces
    Pubkey,                        \* public keys of networks and of peers
    Endpoint,                      \* socket addresses of peers
    None,                          \* Option::None
    WIREGUARD_HANDSHAKE_TIMEOUT,   \* 3 * 60 seconds in the code
    Usize,                         \* 2^64, the modulus of usize
    OverflowChecks                 \* a debug build: overflow panics

ASSUME WatchdogAssumption ==
    /\ WIREGUARD_HANDSHAKE_TIMEOUT \in Nat
    /\ Usize \in Nat \ {0}
    /\ OverflowChecks \in BOOLEAN
    /\ None \notin Endpoint

VARIABLES
    now,       \* SystemTime::now(), in seconds since UNIX_EPOCH
    wg,        \* the namespaces; None while the interface has no key
    due,       \* interval.tick() is ready
    cache,     \* PeerCache
    wpc,       \* where the task is
    names,     \* namespaces watchdog_run has not come to
    info,      \* the TrafficInfo it builds
    stats,     \* the NetworkStats watchdog_netns works on
    left,      \* the peers one of its loops has not come to
    peer,      \* the peer watchdog_peer works on, and its PeerStats
    outbox     \* the events it has still to send

\* What the kernel tells of a peer, and what the cache keeps of it: whether it
\* had a handshake, not when.
KernelPeer == [handshake : Int \cup {None}, endpoint : Endpoint \cup {None}, rx : Nat, tx : Nat]
PeerStats  == [live : BOOLEAN, endpoint : Endpoint \cup {None}, rx : Nat, tx : Nat]

\* An interface with a key and peers, and the statistics fetched of it.
Interface(peers)    == [public_key : Pubkey, peers : [peers -> KernelPeer]]
NetworkStats(peers) == [listen_port : Port, public_key : Pubkey, peers : [peers -> KernelPeer]]

\* The constructors of GatewayEvent.
PeerConnected(n, k, e) == [type |-> "connected", network |-> n, peer |-> k, endpoint |-> e]
PeerEndpoint(n, k, e)  == [type |-> "endpoint", network |-> n, peer |-> k, endpoint |-> e]
PeerDisconnected(n, k) == [type |-> "disconnected", network |-> n, peer |-> k, endpoint |-> None]

GatewayEvent ==
    [type : {"connected", "endpoint", "disconnected"}, network : Pubkey, peer : Pubkey,
     endpoint : Endpoint \cup {None}]

ASSUME NoneAssumption ==
    /\ None \notin PeerStats \cup [key : Pubkey, stats : PeerStats] \cup GatewayEvent
    /\ \A peers \in SUBSET Pubkey : None \notin Interface(peers) \cup NetworkStats(peers)

localVars    == <<wpc, names, info, stats, left, peer, outbox>>
watchdogVars == <<due, cache, localVars>>

-----------------------------------------------------------------------------
\* watchdog() returned: its interval and its cache are dropped, and the loop
\* of Global::watchdog calls it again; a new interval ticks at once.
Relaunch ==
    /\ wpc' = "tick"
    /\ due' = TRUE
    /\ cache' = EmptyMap
    /\ info' = None

\* watchdog() and watchdog_run(): wait for the tick, list the namespaces.
watchdog_run ==
    /\ wpc = "tick"
    /\ due
    /\ \/ /\ wpc' = "run"
          /\ due' = FALSE
          /\ names' = DOMAIN wg
          /\ info' = TrafficInfo_new(0)
          /\ UNCHANGED cache
       \/ Relaunch /\ UNCHANGED names
    /\ UNCHANGED <<stats, left, peer, outbox, events_broadcast, traffic_broadcast, now, wg>>

\* Seeded fault: a namespace without statistics is tried again at once.
watchdog_netns_retried(p) ==
    /\ wpc = "run"
    /\ \/ /\ names' = names \ {p}
          /\ p \in DOMAIN wg
          /\ wg[p] # None
          /\ stats' = [listen_port |-> p, public_key |-> wg[p].public_key, peers |-> wg[p].peers]
          /\ left' = DOMAIN wg[p].peers
          /\ cache' = With(cache, p, Lookup(cache, p, EmptyMap))
          /\ wpc' = "peers"
       \/ UNCHANGED <<names, stats, left, cache, wpc>>
    /\ UNCHANGED <<due, info, peer, outbox, events_broadcast, traffic_broadcast, now, wg>>

\* watchdog_netns(): fetch the statistics of the namespace and its cache. That
\* fails when an apply has deleted it, or has not given it a key yet. The cache
\* goes by the port the interface listens on, which is that of the namespace: a
\* namespace of port 0, where the kernel picks another, is left out.
watchdog_netns(p) ==
    /\ wpc = "run"
    /\ names' = names \ {p}
    /\ \/ /\ p \in DOMAIN wg
          /\ wg[p] # None
          /\ stats' = [listen_port |-> p, public_key |-> wg[p].public_key, peers |-> wg[p].peers]
          /\ left' = DOMAIN wg[p].peers
          /\ cache' = With(cache, p, Lookup(cache, p, EmptyMap))
          /\ wpc' = "peers"
       \/ UNCHANGED <<stats, left, cache, wpc>>
    /\ UNCHANGED <<due, info, peer, outbox, events_broadcast, traffic_broadcast, now, wg>>

-----------------------------------------------------------------------------
\* A handshake counts if it is neither too old nor in the future.
IsLive(handshake) ==
    /\ handshake # None
    /\ now >= handshake
    /\ now - handshake <= WIREGUARD_HANDSHAKE_TIMEOUT

\* What watchdog_peer makes of a peer's statistics.
Judged(p) == [live |-> IsLive(p.handshake), endpoint |-> p.endpoint, rx |-> p.rx, tx |-> p.tx]

\* The cached statistics of a peer of the namespace.
Previous(k) == Lookup(cache[stats.listen_port], k, None)

\* Seeded fault: counters are taken never to go back.
CacheNeverInvalid(previous, q) == FALSE

CacheInvalid(previous, q) == previous.rx > q.rx \/ previous.tx > q.tx

\* The code subtracts the wrong way round; what counts is that the difference
\* is not zero.
Difference(previous, q) ==
    (((previous.rx - q.rx) % Usize) + ((previous.tx - q.tx) % Usize)) % Usize

\* Seeded fault: the counters themselves are reported.
NewTrafficOf(previous, q, k) ==
    TrafficInfo_add(info, stats.public_key, k, now, NewTraffic(q.rx, q.tx))

TrafficOf(previous, q, k) ==
    TrafficInfo_add(info, stats.public_key, k, now,
                    NewTraffic((q.rx - previous.rx) % Usize, (q.tx - previous.tx) % Usize))

InfoWith(previous, q, k) ==
    IF previous = None \/ CacheInvalid(previous, q) \/ Difference(previous, q) = 0
    THEN info
    ELSE TrafficOf(previous, q, k)

\* Seeded fault: no PeerConnected for a peer that is in the cache.
EventsOfNew(previous, q, n, k) ==
    IF previous = None THEN IF q.live THEN <<PeerConnected(n, k, q.endpoint)>> ELSE <<>>
    ELSE IF previous.live /\ ~q.live THEN <<PeerDisconnected(n, k)>> ELSE <<>>

EventsOf(previous, q, n, k) ==
    IF previous = None THEN IF q.live THEN <<PeerConnected(n, k, q.endpoint)>> ELSE <<>>
    ELSE (IF q.endpoint \notin {previous.endpoint, None} THEN <<PeerEndpoint(n, k, q.endpoint)>> ELSE <<>>)
      \o (IF previous.live /\ ~q.live THEN <<PeerDisconnected(n, k)>> ELSE <<>>)
      \o (IF ~previous.live /\ q.live THEN <<PeerConnected(n, k, q.endpoint)>> ELSE <<>>)

\* Seeded fault: the endpoint is unwrapped before the handshake is looked at.
PanicsUnguarded(previous, q) ==
    \/ /\ OverflowChecks
       /\ previous # None
       /\ ~CacheInvalid(previous, q)
       /\ previous.rx < q.rx \/ previous.tx < q.tx
    \/ /\ q.endpoint = None
       /\ previous # None => ~previous.live

\* The subtraction overflows, or the endpoint of a connected peer is unwrapped.
Panics(previous, q) ==
    \/ /\ OverflowChecks
       /\ previous # None
       /\ ~CacheInvalid(previous, q)
       /\ previous.rx < q.rx \/ previous.tx < q.tx
    \/ /\ q.live
       /\ q.endpoint = None
       /\ previous # None => ~previous.live

\* cache.insert(), the end of watchdog_peer.
Cached(k, q) ==
    /\ cache' = [cache EXCEPT ![stats.listen_port] = With(@, k, q)]
    /\ outbox' = <<>>
    /\ wpc' = "peers"
    /\ peer' = None

\* watchdog_peer(): compare with the cache, count the traffic, find the events.
\* A clock before UNIX_EPOCH is an error, a panic ends the task for good.
watchdog_peer(k) ==
    /\ wpc = "peers"
    /\ left' = left \ {k}
    /\ LET q        == Judged(stats.peers[k])
           previous == Previous(k)
           events   == EventsOf(previous, q, stats.public_key, k)
       IN  IF previous # None /\ now < 0 THEN UNCHANGED <<cache, wpc, info, peer, outbox>>
           ELSE IF Panics(previous, q) THEN wpc' = "panicked" /\ UNCHANGED <<cache, info, peer, outbox>>
           ELSE /\ info' = InfoWith(previous, q, k)
                /\ IF events = <<>> THEN Cached(k, q)
                   ELSE /\ wpc' = "send"
                        /\ peer' = [key |-> k, stats |-> q]
                        /\ outbox' = events
                        /\ UNCHANGED cache
    /\ UNCHANGED <<due, names, stats, events_broadcast, traffic_broadcast, now, wg>>

\* Seeded fault: the cache is updated although the event was refused.
watchdog_event_logged ==
    /\ wpc = "send"
    /\ events_broadcast' = IF events_broadcast.open
                           THEN send(events_broadcast, BROADCAST_QUEUE_EVENTS, Head(outbox))
                           ELSE events_broadcast
    /\ IF Len(outbox) = 1 THEN Cached(peer.key, peer.stats)
       ELSE outbox' = Tail(outbox) /\ UNCHANGED <<cache, wpc, peer>>
    /\ UNCHANGED <<due, names, info, stats, left, traffic_broadcast, now, wg>>

\* Global::event(): without a receiver it fails, and watchdog_peer returns
\* without updating the cache.
watchdog_event ==
    /\ wpc = "send"
    /\ IF events_broadcast.open
       THEN /\ events_broadcast' = send(events_broadcast, BROADCAST_QUEUE_EVENTS, Head(outbox))
            /\ IF Len(outbox) = 1 THEN Cached(peer.key, peer.stats)
               ELSE outbox' = Tail(outbox) /\ UNCHANGED <<cache, wpc, peer>>
       ELSE /\ outbox' = <<>>
            /\ wpc' = "peers"
            /\ peer' = None
            /\ UNCHANGED <<cache, events_broadcast>>
    /\ UNCHANGED <<due, names, info, stats, left, traffic_broadcast, now, wg>>

\* The loop over the dead peers, or what is left of it.
Bury(dead) ==
    /\ left' = dead
    /\ wpc' = IF dead = {} THEN "run" ELSE "dead"
    /\ stats' = IF dead = {} THEN None ELSE stats

\* Determine which peers are dead: in the cache, not on the interface.
dead_peers ==
    /\ wpc = "peers"
    /\ left = {}
    /\ Bury(DOMAIN cache[stats.listen_port] \ DOMAIN stats.peers)
    /\ UNCHANGED <<due, cache, names, info, peer, outbox, events_broadcast, traffic_broadcast, now, wg>>

\* Seeded fault: a peer that is not connected any more needs no event.
dead_peer_silent(k) ==
    /\ wpc = "dead"
    /\ cache' = [cache EXCEPT ![stats.listen_port] = Without(@, k)]
    /\ Bury(left \ {k})
    /\ UNCHANGED <<due, names, info, peer, outbox, events_broadcast, traffic_broadcast, now, wg>>

\* A dead peer leaves the cache, then its event is sent; when that fails, the
\* others stay in the cache.
dead_peer(k) ==
    /\ wpc = "dead"
    /\ cache' = [cache EXCEPT ![stats.listen_port] = Without(@, k)]
    /\ IF events_broadcast.open
       THEN /\ events_broadcast' = send(events_broadcast, BROADCAST_QUEUE_EVENTS,
                                        PeerDisconnected(stats.public_key, k))
            /\ Bury(left \ {k})
       ELSE Bury({}) /\ UNCHANGED events_broadcast
    /\ UNCHANGED <<due, names, info, peer, outbox, traffic_broadcast, now, wg>>

\* The TrafficInfo is sent, whatever it holds. Without a receiver that is an
\* error, which ends watchdog().
send_traffic ==
    /\ wpc = "run"
    /\ names = {}
    /\ IF traffic_broadcast.open
       THEN /\ traffic_broadcast' = send(traffic_broadcast, BROADCAST_QUEUE_TRAFFIC, info)
            /\ wpc' = "tick"
            /\ info' = None
            /\ UNCHANGED <<due, cache>>
       ELSE Relaunch /\ UNCHANGED traffic_broadcast
    /\ UNCHANGED <<names, stats, left, peer, outbox, events_broadcast, now, wg>>

\* The interval has passed. When that happens during a poll, tick() is ready
\* as soon as the poll is over.
Tick ==
    /\ wpc = "tick"
    /\ ~due
    /\ due' = TRUE
    /\ UNCHANGED <<cache, localVars, events_broadcast, traffic_broadcast, now, wg>>

\* What the task does.
WatchdogStep ==
    \/ watchdog_run
    \/ \E p \in names : watchdog_netns(p)
    \/ \E k \in left : watchdog_peer(k) \/ dead_peer(k)
    \/ watchdog_event
    \/ dead_peers
    \/ send_traffic

\* A task just launched.
WatchdogLaunched ==
    /\ wpc = "tick"
    /\ due = TRUE
    /\ cache = EmptyMap
    /\ names = {}
    /\ info = None
    /\ stats = None
    /\ left = {}
    /\ peer = None
    /\ outbox = <<>>

=============================================================================
