------------------------------- MODULE Daemon -------------------------------
(***************************************************************************)
(* The two tasks of the daemon together: the watchdog polls the WireGuard  *)
(* interfaces and fills the broadcast channels, the websocket task drains  *)
(* them into its connection while it has one and is not busy with an       *)
(* apply.  The kernel's side: handshakes, roaming, traffic, the clock, and *)
(* what an apply does to the interfaces.                                   *)
(***************************************************************************)
EXTENDS Watchdog, Websocket

CONSTANTS
    Confs,     \* what an apply may load: [listen_port, public_key, peers],
               \* peers giving an endpoint or None
    Messages,  \* what the manager may send, a subset of Request
    Clock,     \* the values of now
    Found      \* the namespaces a daemon may find when it starts

ASSUME ConfsAssumption ==
    \A c \in Confs :
        /\ c.listen_port \in Port
        /\ c.public_key \in Pubkey
        /\ DOMAIN c.peers \subseteq Pubkey
        /\ c.peers \in [DOMAIN c.peers -> Endpoint \cup {None}]

\* The kernel learns where a peer is from its handshake at the latest.
HandshakeTellsEndpoint(x) == x.handshake # None => x.endpoint # None

ASSUME FoundAssumption ==
    \A w \in Found :
        /\ DOMAIN w \subseteq Port
        /\ \A p \in DOMAIN w : w[p] # None =>
             DOMAIN w[p].peers \subseteq Pubkey /\ w[p] \in Interface(DOMAIN w[p].peers)
        /\ \A p \in DOMAIN w : w[p] # None =>
             \A k \in DOMAIN w[p].peers : HandshakeTellsEndpoint(w[p].peers[k])
        /\ w = [p \in DOMAIN w |-> w[p]]

\* Every network has its port, whichever configuration and start it is found in;
\* a port may pass from one network to another.
HasItsPort(port) ==
    /\ port \in [Pubkey -> Port]
    /\ \A c \in Confs : port[c.public_key] = c.listen_port
    /\ \A w \in Found : \A p \in DOMAIN w : w[p] # None => port[w[p].public_key] = p

NetworksHavePorts == \E port \in [Pubkey -> Port] : HasItsPort(port)

ASSUME MessagesAssumption == Messages \subseteq Request
ASSUME ClockAssumption    == Clock \subseteq Int

VARIABLES
    \* History, read by no action of the daemon.
    generated, \* the bytes of every peer, in all its interfaces
    owner,     \* by port: the network the watchdog last saw there
    exact,     \* nothing happened that makes the manager's view inexact
    recount    \* an event was refused after its peer's traffic was counted

historyVars == <<generated, owner, exact, recount>>
kernelVars  == <<now, wg>>
vars        == <<websocketVars, watchdogVars, kernelVars, traffic_broadcast,
                 events_broadcast, historyVars>>

-----------------------------------------------------------------------------
(***************************************************************************)
(* History.                                                                *)
(***************************************************************************)

\* The statistics that the events sent and still to be sent amount to.
Tracked(p, k) ==
    IF peer # None /\ stats.listen_port = p /\ peer.key = k THEN peer.stats
    ELSE Lookup(Lookup(cache, p, EmptyMap), k, None)

TrackedUp ==
    { x \in (DOMAIN owner) \X Pubkey : Tracked(x[1], x[2]) # None /\ Tracked(x[1], x[2]).live }

CachedUp(p) == { k \in DOMAIN Lookup(cache, p, EmptyMap) : cache[p][k].live }

\* watchdog_peer gives up on its peer because nobody receives its events.
Refused == wpc = "send" /\ wpc' = "peers" /\ ~events_broadcast.open

\* It does so after the first of two events.
HalfRefused ==
    /\ Refused
    /\ outbox # EventsOf(Previous(peer.key), peer.stats, stats.public_key, peer.key)

\* A connected peer leaves the cache and nobody receives the event.
DeadUnheard ==
    /\ wpc = "dead"
    /\ ~events_broadcast.open
    /\ \E k \in CachedUp(stats.listen_port) : k \notin DOMAIN cache'[stats.listen_port]

\* The oldest event of a full queue is overwritten.
Overrun == events_broadcast'.lagged /\ ~events_broadcast.lagged

\* A receiver is dropped with events in its queue.
DroppedUnread == events_broadcast.queue # <<>> /\ ~events_broadcast'.open

\* The watchdog starts again with an empty cache.
Forgotten ==
    /\ cache' = EmptyMap
    /\ TrackedUp # {} \/ \E p \in DOMAIN cache : CachedUp(p) # {}

\* Another network is found at a port, with peers of the old one in the cache.
HandedOver ==
    /\ wpc = "run"
    /\ wpc' = "peers"
    /\ stats'.listen_port \in DOMAIN owner
    /\ owner[stats'.listen_port] # stats'.public_key
    /\ CachedUp(stats'.listen_port) # {}

\* A network is found at a port, with peers in the cache of another port of it.
FoundElsewhere ==
    /\ wpc = "run"
    /\ wpc' = "peers"
    /\ \E p \in DOMAIN owner \ {stats'.listen_port} :
         owner[p] = stats'.public_key /\ CachedUp(p) # {}

History ==
    /\ exact' = (exact /\ ~(HalfRefused \/ DeadUnheard \/ Overrun \/ DroppedUnread
                             \/ Forgotten \/ HandedOver \/ FoundElsewhere))
    /\ recount' = (recount \/ (Refused /\ BytesOf(info, peer.key) > 0))
    /\ owner' = IF wpc = "run" /\ wpc' = "peers"
                THEN With(owner, stats'.listen_port, stats'.public_key) ELSE owner

-----------------------------------------------------------------------------
(***************************************************************************)
(* The kernel.                                                             *)
(***************************************************************************)
KernelFrame == UNCHANGED <<websocketVars, watchdogVars, traffic_broadcast,
                           events_broadcast, owner, exact, recount>>

HasPeer(p, k) == wg[p] # None /\ k \in DOMAIN wg[p].peers

\* A handshake succeeds; the peer may have moved.
Handshake(p, k, e) ==
    /\ HasPeer(p, k)
    /\ now > 0
    /\ wg' = [wg EXCEPT ![p].peers[k] = [@ EXCEPT !.handshake = now, !.endpoint = e]]
    /\ KernelFrame
    /\ UNCHANGED <<now, generated>>

Counted(x, r, t) == [x EXCEPT !.rx = @ + r, !.tx = @ + t]

\* A byte is received from or sent to a peer; handshakes count, too.
Transfer(p, k, r, t) ==
    /\ HasPeer(p, k)
    /\ wg' = [wg EXCEPT ![p].peers[k] = Counted(@, r, t)]
    /\ generated' = [generated EXCEPT ![k] = @ + r + t]
    /\ KernelFrame
    /\ UNCHANGED now

\* Time passes, or the clock is set.
ClockMoves ==
    /\ now' \in Clock \ {now}
    /\ KernelFrame
    /\ UNCHANGED <<wg, generated>>

\* An apply deletes a namespace, adds one, or gives its interface a
\* configuration: peers that stay keep their counters, handshake and, unless
\* the configuration has one, their endpoint.
NetnsDel(p) ==
    /\ conn = "busy"
    /\ wg' = Without(wg, p)
    /\ KernelFrame
    /\ UNCHANGED <<now, generated>>

NetnsAdd(p) ==
    /\ conn = "busy"
    /\ p \notin DOMAIN wg
    /\ wg' = With(wg, p, None)
    /\ KernelFrame
    /\ UNCHANGED <<now, generated>>

Configured(old, endpoint) ==
    IF old = None THEN [handshake |-> None, endpoint |-> endpoint, rx |-> 0, tx |-> 0]
    ELSE [old EXCEPT !.endpoint = IF endpoint = None THEN @ ELSE endpoint]

Syncconf(c) ==
    /\ conn = "busy"
    /\ c.listen_port \in DOMAIN wg
    /\ LET old(k) == IF HasPeer(c.listen_port, k) THEN wg[c.listen_port].peers[k] ELSE None
       IN  wg' = [wg EXCEPT ![c.listen_port] =
                    [ public_key |-> c.public_key,
                      peers |-> [k \in DOMAIN c.peers |-> Configured(old(k), c.peers[k])] ]]
    /\ KernelFrame
    /\ UNCHANGED <<now, generated>>

Kernel ==
    \/ \E p \in DOMAIN wg, k \in Pubkey :
        \/ \E e \in Endpoint : Handshake(p, k, e)
        \/ Transfer(p, k, 1, 0)
        \/ Transfer(p, k, 0, 1)
    \/ ClockMoves

Reconfigure ==
    \/ \E p \in DOMAIN wg : NetnsDel(p)
    \/ \E p \in Port : NetnsAdd(p)
    \/ \E c \in Confs : Syncconf(c)

-----------------------------------------------------------------------------
\* The daemon is started again, in the same container or in a new one.
Restart ==
    /\ conn = "exited"
    /\ conn' = "down"
    /\ wpc' = "tick"
    /\ due' = TRUE
    /\ cache' = EmptyMap
    /\ names' = {}
    /\ info' = None
    /\ stats' = None
    /\ left' = {}
    /\ peer' = None
    /\ outbox' = <<>>
    /\ wg' \in {wg, EmptyMap}   \* entrypoint.sh clears the namespaces
    /\ exact' = (exact /\ ~Forgotten /\ peer = None)
    /\ UNCHANGED <<inbox, view, reported, traffic_broadcast, events_broadcast, now,
                   generated, owner, recount>>

\* The watchdog task runs as long as the daemon does.
Watch ==
    /\ conn # "exited"
    /\ WatchdogStep \/ Tick
    /\ UNCHANGED <<websocketVars, generated>>
    /\ History

Serve(A) ==
    /\ A
    /\ UNCHANGED <<watchdogVars, kernelVars, generated>>
    /\ History

Manage == \E m \in Messages : Serve(ManagerSends(m))

Init ==
    /\ WatchdogLaunched
    /\ WebsocketInit
    /\ now \in Clock
    /\ wg \in Found
    /\ reported = [k \in Pubkey |-> 0]
    /\ generated = [k \in Pubkey |-> 0]
    /\ owner = EmptyMap
    /\ exact = TRUE
    /\ recount = FALSE

Next ==
    \/ Watch
    \/ Serve(WebsocketStep)
    \/ Serve(ConnectionLost)
    \/ Manage
    \/ Kernel
    \/ Reconfigure
    \/ Restart

Spec == Init /\ [][Next]_vars

(***************************************************************************)
(* The interval goes on ticking, commands terminate, the manager accepts a *)
(* connection in the end, and select! polls its arms in random order, so   *)
(* that none that stays ready is passed over for ever.                     *)
(***************************************************************************)
Fairness ==
    /\ WF_vars(Watch)
    /\ WF_vars(Serve(connect_run))
    /\ WF_vars(Serve(subscribe_events))
    /\ WF_vars(Serve(NextMessage))
    /\ WF_vars(Serve(ApplyReturns))
    /\ WF_vars(Serve(ForwardEvent))
    /\ WF_vars(Serve(ForwardTraffic))

FairSpec == Spec /\ Fairness

-----------------------------------------------------------------------------
(***************************************************************************)
(* Properties.                                                             *)
(***************************************************************************)

\* Every variable has its type. In particular no queue outgrows its capacity
\* and a channel without a receiver holds nothing, and the loops of the
\* watchdog only come to peers and ports that exist for them.
TypeOK ==
    /\ now \in Clock
    /\ DOMAIN wg \subseteq Port
    /\ \A p \in DOMAIN wg : wg[p] # None =>
        /\ wg[p].public_key \in Pubkey
        /\ DOMAIN wg[p].peers \subseteq Pubkey
        /\ wg[p].peers \in [DOMAIN wg[p].peers -> KernelPeer]
    /\ due \in BOOLEAN
    /\ DOMAIN cache \subseteq Port
    /\ \A p \in DOMAIN cache :
        /\ DOMAIN cache[p] \subseteq Pubkey
        /\ cache[p] \in [DOMAIN cache[p] -> PeerStats]
    /\ wpc \in {"tick", "run", "peers", "send", "dead", "panicked"}
    /\ names \subseteq Port
    /\ wpc \in {"peers", "send", "dead"} => stats # None /\ stats.listen_port \in DOMAIN cache
    /\ wpc \in {"peers", "send"} => left \subseteq DOMAIN stats.peers
    /\ wpc = "dead" => left \subseteq DOMAIN cache[stats.listen_port]
    /\ (wpc = "send") <=> (peer # None)
    /\ outbox \in Seq(GatewayEvent)
    /\ conn \in {"down", "half", "up", "busy", "exited"}
    /\ inbox \in Seq(Request)
    /\ IsChannel(traffic_broadcast, BROADCAST_QUEUE_TRAFFIC)
    /\ IsChannel(events_broadcast, BROADCAST_QUEUE_EVENTS)
    /\ events_broadcast.queue \in Seq(GatewayEvent)
    /\ events_broadcast.open = (conn \in {"up", "busy"})
    /\ traffic_broadcast.open = (conn \in {"half", "up", "busy"})

\* What the manager will believe of a peer once it has all events on their way:
\* the last one that tells whether it is up, and the last one with an endpoint.
OnTheirWay == events_broadcast.queue \o outbox

LastOf(types, n, k) ==
    LET s == OnTheirWay
        R == { i \in DOMAIN s : s[i].type \in types /\ s[i].network = n /\ s[i].peer = k }
    IN  IF R = {} THEN None ELSE s[CHOOSE i \in R : \A j \in R : j <= i]

WillBeUp(n, k) ==
    LET e == LastOf({"connected", "disconnected"}, n, k)
    IN  IF e = None THEN <<n, k>> \in view.up ELSE e.type = "connected"

WillBeAt(n, k) ==
    LET e == LastOf({"connected", "endpoint"}, n, k)
    IN  IF e = None THEN Lookup(view.endpoint, <<n, k>>, None) ELSE e.endpoint

(***************************************************************************)
(* The events of watchdog_peer and watchdog_netns, in the order they are   *)
(* sent and whatever the websocket task does in between, tell the manager  *)
(* exactly which peers the cache has as connected and where they are -     *)
(* unless one of seven things happened: a queue overran, a receiver was    *)
(* dropped with events in it, an event was refused after another or for a  *)
(* dead peer, the cache was dropped, a port was given to another network,  *)
(* or a network to another port.  In particular an event that is refused   *)
(* costs nothing by itself, because the cache then keeps what the manager  *)
(* knows.                                                                  *)
(***************************************************************************)
ViewFollowsCache ==
    exact =>
        /\ { x \in Pubkey \X Pubkey : WillBeUp(x[1], x[2]) } = { <<owner[x[1]], x[2]>> : x \in TrackedUp }
        /\ \A x \in TrackedUp : WillBeAt(owner[x[1]], x[2]) = Tracked(x[1], x[2]).endpoint

\* The bytes of a peer that were reported or will be.
InQueue(k) ==
    LET queue == traffic_broadcast.queue
    IN  SumOf([i \in DOMAIN queue |-> BytesOf(queue[i], k)])

Accounted(k) == reported[k] + InQueue(k) + (IF info = None THEN 0 ELSE BytesOf(info, k))

(***************************************************************************)
(* No byte of a peer is reported to the manager twice, although counters   *)
(* start again from zero with a new interface, ports change hands and the  *)
(* watchdog loses its cache - except when an event was refused after the   *)
(* traffic of the same peer was counted.                                   *)
(***************************************************************************)
ReportedOnce == ~recount => \A k \in Pubkey : Accounted(k) <= generated[k]

\* In every TrafficInfo that is built or on its way, the totals of a peer, of a
\* network and of the gateway are the sums of their parts.
InfoSums ==
    /\ info # None => SumsAgree(info)
    /\ \A i \in DOMAIN traffic_broadcast.queue : SumsAgree(traffic_broadcast.queue[i])

(***************************************************************************)
(* A build without overflow checks never loses its watchdog to a panic:    *)
(* the endpoint that watchdog_peer unwraps for PeerConnected is there,     *)
(* although the statistics were fetched before other peers were awaited    *)
(* and applies replace interfaces, peers and endpoints meanwhile.          *)
(***************************************************************************)
WatchdogNeverPanics == ~OverflowChecks => wpc # "panicked"

\* The manager knows which peers are connected, and where.
ViewRight ==
    \A p \in DOMAIN wg : wg[p] # None =>
        \A k \in DOMAIN wg[p].peers :
            LET who == <<wg[p].public_key, k>>
            IN  /\ (who \in view.up) = IsLive(wg[p].peers[k].handshake)
                /\ who \in view.up => view.endpoint[who] = wg[p].peers[k].endpoint

\* Once the kernel is quiet and the connection stays, the manager comes to
\* know the state of every peer of every network there is, provided that
\* nothing was lost before.
ViewCatchesUp == <>[](exact /\ conn = "up") => <>[]ViewRight

\* "repeatedly checks the state of the system, with a configurable interval"
\* (src/watchdog.rs): as long as the daemon lives every poll comes to an end and
\* another one follows, also when nobody listens, after every error, and
\* whatever an apply does to the namespaces meanwhile.
WatchdogKeepsPolling ==
    /\ []<>(wpc = "run" \/ conn = "exited")
    /\ []<>(wpc = "tick" \/ conn = "exited")

\* Every message of the manager is read, and every apply returns, or the
\* connection ends: the traffic and the events to forward never keep the loop
\* of connect_run from its requests.
RequestsServed == (inbox # <<>> \/ conn = "busy") ~> (inbox = <<>> /\ conn # "busy")

(***************************************************************************)
(* What the repository says of the daemon and the code does not do.        *)
(***************************************************************************)

\* "Sum of all traffic occuring in this time slice." (client/src/lib.rs): what
\* is reported of a peer has occurred.
TrafficCountedOnce == \A k \in Pubkey : reported[k] <= generated[k]

=============================================================================
