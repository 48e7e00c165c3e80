-------------------------- MODULE DaemonViewProofs --------------------------
(***************************************************************************)
(* The manager's view of the peers: the events of the watchdog amount to   *)
(* what its cache holds (ViewFollowsCache), for any ports, peers, clocks,  *)
(* applies, reconnections and restarts.                                    *)
(*                                                                         *)
(* ViewFollowsCache speaks of all events on their way.  It is not          *)
(* inductive: an event that is refused takes back the ones behind it, so   *)
(* that what the manager knows without them has to match the cache, too;   *)
(* and the events carry the network of the interface, while the cache only *)
(* knows its port.  So every network gets a home, the port where it was    *)
(* last found: as long as the view is exact nobody is connected at the     *)
(* other ports that were seen with its key.                                *)
(***************************************************************************)
EXTENDS DaemonProofs, WellFoundedInduction

\* LastOf, WillBeUp and WillBeAt for any events s and any view v.
Concerns(e, types, n, k) == e.type \in types /\ e.network = n /\ e.peer = k

LastIn(s, types, n, k) ==
    LET R == { i \in DOMAIN s : Concerns(s[i], types, n, k) }
    IN  IF R = {} THEN None ELSE s[CHOOSE i \in R : \A j \in R : j <= i]

UpAfter(s, v, n, k) ==
    LET e == LastIn(s, {"connected", "disconnected"}, n, k)
    IN  IF e = None THEN <<n, k>> \in v.up ELSE e.type = "connected"

AtAfter(s, v, n, k) ==
    LET e == LastIn(s, {"connected", "endpoint"}, n, k)
    IN  IF e = None THEN Lookup(v.endpoint, <<n, k>>, None) ELSE e.endpoint

\* After the events s, a manager with view v knows what the statistics x say.
IsUp(x) == x # None /\ x.live

\* The manager knows whether the peer is connected, and if it is, where.
Knows(s, v, n, k, x) ==
    /\ UpAfter(s, v, n, k) <=> IsUp(x)
    /\ IsUp(x) => AtAfter(s, v, n, k) = x.endpoint

\* Where every network was last found.
Homes == [Pubkey -> Port \cup {None}]

\* What the watchdog holds of a peer of a network.
Held(home, n, k) ==
    IF home[n] \in DOMAIN owner /\ owner[home[n]] = n THEN Tracked(home[n], k) ELSE None

\* A connected peer has an endpoint: in the kernel, as fetched, and in the cache.
LiveTellsEndpoint(x) == x.live => x.endpoint # None

\* In the kernel.
KernelTells ==
    \A p \in DOMAIN wg : wg[p] # None =>
        \A k \in DOMAIN wg[p].peers : HandshakeTellsEndpoint(wg[p].peers[k])

\* In what the watchdog fetched, cached and is about to cache.
WatchTells ==
    /\ wpc \in {"peers", "send"} =>
         \A k \in DOMAIN stats.peers : HandshakeTellsEndpoint(stats.peers[k])
    /\ \A p \in DOMAIN cache : \A k \in DOMAIN cache[p] : LiveTellsEndpoint(cache[p][k])
    /\ wpc = "send" => LiveTellsEndpoint(peer.stats)

\* Both.
EndpointInv == KernelTells /\ WatchTells

\* The port of every cached peer has an owner, the network it is visited for.
OwnerInv(home) ==
    /\ DOMAIN cache \subseteq DOMAIN owner
    /\ \A p \in DOMAIN owner : owner[p] \in Pubkey
    /\ wpc \in {"peers", "send", "dead"} =>
         /\ owner[stats.listen_port] = stats.public_key
         /\ home[stats.public_key] = stats.listen_port

\* Nobody is connected at a port that is not the home of its network.
HomeInv(home) == exact => \A p \in DOMAIN owner : home[owner[p]] = p \/ CachedUp(p) = {}

\* The events of the peer that watchdog_peer works on, all of them.
EventsNow == EventsOf(Previous(peer.key), peer.stats, stats.public_key, peer.key)

\* The manager's view follows, and can go back as long as no event was sent.
ViewInv(home) ==
    exact =>
      /\ ~events_broadcast.lagged
      /\ \A n, k \in Pubkey : Knows(OnTheirWay, view, n, k, Held(home, n, k))
      /\ wpc = "send" =>
           /\ Len(outbox) <= Len(EventsNow)
           /\ outbox = EventsNow =>
                Knows(events_broadcast.queue, view, stats.public_key, peer.key, Previous(peer.key))

\* The inductive invariant.
FollowInv(home) == EndpointInv /\ OwnerInv(home) /\ HomeInv(home) /\ ViewInv(home)
Follows         == \E home \in Homes : FollowInv(home)

-----------------------------------------------------------------------------
(***************************************************************************)
(* The last event about something, in a queue that grows and shrinks.      *)
(***************************************************************************)

\* A nonempty set of positions has a last one.
LEMMA LastPosition ==
    ASSUME NEW L \in Nat, NEW R, R \subseteq 1 .. L, R # {}
    PROVE  \E i \in R : \A j \in R : j <= i
<1> DEFINE T == { n \in Nat : \E i \in R : n = L - i }
           Less == OpToRel(<, Nat)
<1>1. \A i \in R : L - i \in T
  OBVIOUS
<1>2. T \subseteq Nat /\ T # {}
  BY <1>1
<1>3. IsWellFoundedOn(Less, Nat)
  BY NatLessThanWellFounded
<1>4. \A x \in Nat, y \in Nat : y < x => <<y, x>> \in Less
  BY DEF OpToRel
<1> HIDE DEF T, Less
<1>5. PICK x \in T : \A y \in T : ~(<<y, x>> \in Less)
  BY <1>2, <1>3, WFMin
<1>6. \A y \in T : ~(y < x)
  BY <1>2, <1>4, <1>5
<1>7. PICK i \in R : x = L - i
  BY DEF T
<1>8. ASSUME NEW j \in R PROVE j <= i
  <2>1. ~(L - j < L - i)
    BY <1>1, <1>6, <1>7
  <2>2. i \in Int /\ j \in Int
    OBVIOUS
  <2> QED BY <2>1, <2>2
<1> QED BY <1>8

\* What LastIn is: nothing, or the event with no later one.
LEMMA LastInIs ==
    ASSUME NEW s \in Seq(GatewayEvent), NEW types, NEW n, NEW k
    PROVE  \/ /\ LastIn(s, types, n, k) = None
              /\ \A i \in 1 .. Len(s) : ~Concerns(s[i], types, n, k)
           \/ \E i \in 1 .. Len(s) :
                /\ LastIn(s, types, n, k) = s[i]
                /\ s[i] \in GatewayEvent
                /\ Concerns(s[i], types, n, k)
                /\ \A j \in 1 .. Len(s) : Concerns(s[j], types, n, k) => j <= i
<1> DEFINE R == { i \in DOMAIN s : Concerns(s[i], types, n, k) }
           last == CHOOSE i \in R : \A j \in R : j <= i
<1>1. Len(s) \in Nat /\ DOMAIN s = 1 .. Len(s)
  BY LenProperties
<1>2. R \subseteq 1 .. Len(s) /\ \A j \in 1 .. Len(s) : j \in R <=> Concerns(s[j], types, n, k)
  BY <1>1
<1>3. LastIn(s, types, n, k) = IF R = {} THEN None ELSE s[last]
  BY DEF LastIn
<1> HIDE DEF R
<1>4. CASE R = {}
  BY <1>2, <1>3, <1>4
<1>5. CASE R # {}
  <2>1. last \in R /\ \A j \in R : j <= last
    BY <1>1, <1>2, <1>5, LastPosition
  <2> HIDE DEF last
  <2>2. s[last] \in GatewayEvent
    BY <1>2, <2>1, ElementOfSeq
  <2> QED BY <1>2, <1>3, <1>5, <2>1, <2>2
<1> QED BY <1>4, <1>5

\* It is determined by that.
LEMMA LastInOnly ==
    ASSUME NEW s \in Seq(GatewayEvent), NEW types, NEW n, NEW k
    PROVE  /\ (\A i \in 1 .. Len(s) : ~Concerns(s[i], types, n, k)) => LastIn(s, types, n, k) = None
           /\ \A i \in 1 .. Len(s) :
                /\ Concerns(s[i], types, n, k)
                /\ \A j \in 1 .. Len(s) : Concerns(s[j], types, n, k) => j <= i
                => LastIn(s, types, n, k) = s[i]
<1>1. ASSUME \A i \in 1 .. Len(s) : ~Concerns(s[i], types, n, k)
      PROVE  LastIn(s, types, n, k) = None
  BY <1>1, LastInIs
<1>2. ASSUME NEW i \in 1 .. Len(s), Concerns(s[i], types, n, k),
             \A j \in 1 .. Len(s) : Concerns(s[j], types, n, k) => j <= i
      PROVE  LastIn(s, types, n, k) = s[i]
  <2>1. PICK m \in 1 .. Len(s) :
                /\ LastIn(s, types, n, k) = s[m]
                /\ Concerns(s[m], types, n, k)
                /\ \A j \in 1 .. Len(s) : Concerns(s[j], types, n, k) => j <= m
    BY <1>2, LastInIs
  <2>2. m <= i /\ i <= m
    BY <1>2, <2>1
  <2> QED BY <2>1, <2>2
<1> QED BY <1>1, <1>2

\* An event is added.
LEMMA LastAppend ==
    ASSUME NEW s \in Seq(GatewayEvent), NEW e \in GatewayEvent, NEW types, NEW n, NEW k
    PROVE  LastIn(Append(s, e), types, n, k)
             = IF Concerns(e, types, n, k) THEN e ELSE LastIn(s, types, n, k)
<1> DEFINE t == Append(s, e)
<1>1. /\ t \in Seq(GatewayEvent) /\ Len(t) = Len(s) + 1 /\ Len(s) \in Nat
      /\ \A i \in 1 .. Len(s) : t[i] = s[i]
      /\ t[Len(s) + 1] = e
  BY AppendProperties, LenProperties
<1> HIDE DEF t
<1>2. CASE Concerns(e, types, n, k)
  <2>1. Len(s) + 1 \in 1 .. Len(t) /\ \A j \in 1 .. Len(t) : j <= Len(s) + 1
    BY <1>1
  <2>2. LastIn(t, types, n, k) = t[Len(s) + 1]
    BY <1>1, <1>2, <2>1, LastInOnly
  <2> QED BY <1>1, <1>2, <2>2 DEF t
<1>3. CASE ~Concerns(e, types, n, k)
  <2>1. \A j \in 1 .. Len(t) : Concerns(t[j], types, n, k) => j \in 1 .. Len(s) /\ t[j] = s[j]
    BY <1>1, <1>3
  <2>2. CASE /\ LastIn(s, types, n, k) = None
             /\ \A i \in 1 .. Len(s) : ~Concerns(s[i], types, n, k)
    <3>1. LastIn(t, types, n, k) = None
      BY <1>1, <2>1, <2>2, LastInOnly
    <3> QED BY <1>3, <2>2, <3>1 DEF t
  <2>3. CASE \E i \in 1 .. Len(s) :
                /\ LastIn(s, types, n, k) = s[i]
                /\ Concerns(s[i], types, n, k)
                /\ \A j \in 1 .. Len(s) : Concerns(s[j], types, n, k) => j <= i
    <3>1. PICK i \in 1 .. Len(s) :
                /\ LastIn(s, types, n, k) = s[i]
                /\ Concerns(s[i], types, n, k)
                /\ \A j \in 1 .. Len(s) : Concerns(s[j], types, n, k) => j <= i
      BY <2>3
    <3>2. i \in 1 .. Len(t) /\ Concerns(t[i], types, n, k)
      BY <1>1, <3>1
    <3>3. \A j \in 1 .. Len(t) : Concerns(t[j], types, n, k) => j <= i
      BY <2>1, <3>1
    <3>4. LastIn(t, types, n, k) = t[i]
      BY <1>1, <3>2, <3>3, LastInOnly
    <3> QED BY <1>1, <1>3, <3>1, <3>4 DEF t
  <2> QED BY <2>2, <2>3, LastInIs
<1> QED BY <1>2, <1>3

\* The first one is taken away.
LEMMA LastTail ==
    ASSUME NEW s \in Seq(GatewayEvent), s # <<>>, NEW types, NEW n, NEW k
    PROVE  /\ LastIn(Tail(s), types, n, k) # None =>
                LastIn(s, types, n, k) = LastIn(Tail(s), types, n, k)
           /\ LastIn(Tail(s), types, n, k) = None =>
                LastIn(s, types, n, k) = IF Concerns(Head(s), types, n, k) THEN Head(s) ELSE None
<1> DEFINE t == Tail(s)
<1>1. /\ t \in Seq(GatewayEvent) /\ Len(t) = Len(s) - 1 /\ Len(s) \in Nat \ {0} /\ Len(t) \in Nat
      /\ \A i \in 1 .. Len(t) : t[i] = s[i + 1]
      /\ Head(s) = s[1]
  BY HeadTailProperties, LenProperties, EmptySeq
<1> HIDE DEF t
<1>2. ASSUME NEW i \in 1 .. Len(s), i # 1 PROVE i - 1 \in 1 .. Len(t) /\ t[i - 1] = s[i]
  <2>1. i - 1 \in 1 .. Len(t) /\ (i - 1) + 1 = i
    BY <1>1, <1>2
  <2> QED BY <1>1, <2>1
<1>3. CASE /\ LastIn(t, types, n, k) = None
           /\ \A i \in 1 .. Len(t) : ~Concerns(t[i], types, n, k)
  <2>1. \A i \in 1 .. Len(s) : Concerns(s[i], types, n, k) => i = 1
    BY <1>2, <1>3
  <2>2. 1 \in 1 .. Len(s)
    BY <1>1
  <2>3. CASE Concerns(s[1], types, n, k)
    <3>1. \A j \in 1 .. Len(s) : Concerns(s[j], types, n, k) => j <= 1
      BY <2>1
    <3>2. LastIn(s, types, n, k) = s[1]
      BY <2>2, <2>3, <3>1, LastInOnly
    <3> QED BY <1>1, <1>3, <2>3, <3>2 DEF t
  <2>4. CASE ~Concerns(s[1], types, n, k)
    <3>1. LastIn(s, types, n, k) = None
      BY <2>1, <2>4, LastInOnly
    <3> QED BY <1>1, <1>3, <2>4, <3>1 DEF t
  <2> QED BY <2>3, <2>4
<1>4. CASE \E i \in 1 .. Len(t) :
             /\ LastIn(t, types, n, k) = t[i]
             /\ t[i] \in GatewayEvent
             /\ Concerns(t[i], types, n, k)
             /\ \A j \in 1 .. Len(t) : Concerns(t[j], types, n, k) => j <= i
  <2>1. PICK i \in 1 .. Len(t) :
             /\ LastIn(t, types, n, k) = t[i]
             /\ t[i] \in GatewayEvent
             /\ Concerns(t[i], types, n, k)
             /\ \A j \in 1 .. Len(t) : Concerns(t[j], types, n, k) => j <= i
    BY <1>4
  <2>2. i + 1 \in 1 .. Len(s) /\ s[i + 1] = t[i]
    BY <1>1
  <2>3. ASSUME NEW j \in 1 .. Len(s), Concerns(s[j], types, n, k) PROVE j <= i + 1
    <3>1. CASE j = 1
      BY <3>1
    <3>2. CASE j # 1
      <4>1. j - 1 \in 1 .. Len(t) /\ t[j - 1] = s[j]
        BY <1>2, <3>2
      <4>2. j - 1 <= i
        BY <2>1, <2>3, <4>1
      <4> QED BY <4>2
    <3> QED BY <3>1, <3>2
  <2>4. Concerns(s[i + 1], types, n, k)
    BY <2>1, <2>2
  <2>5. LastIn(s, types, n, k) = s[i + 1]
    BY <2>2, <2>3, <2>4, LastInOnly
  <2>6. LastIn(t, types, n, k) # None
    BY <2>1, NoneAssumption
  <2> QED BY <2>1, <2>2, <2>5, <2>6 DEF t
<1> QED BY <1>1, <1>3, <1>4, LastInIs

\* One more event changes what is believed of its peer only.
LEMMA Appended ==
    ASSUME NEW s \in Seq(GatewayEvent), NEW e \in GatewayEvent, NEW v, NEW n, NEW k
    PROVE  /\ e.network = n /\ e.peer = k =>
                /\ e.type = "connected" => UpAfter(Append(s, e), v, n, k)
                /\ e.type = "disconnected" => ~UpAfter(Append(s, e), v, n, k)
                /\ e.type = "endpoint" => (UpAfter(Append(s, e), v, n, k) <=> UpAfter(s, v, n, k))
                /\ e.type # "disconnected" => AtAfter(Append(s, e), v, n, k) = e.endpoint
                /\ e.type = "disconnected" => AtAfter(Append(s, e), v, n, k) = AtAfter(s, v, n, k)
           /\ ~(e.network = n /\ e.peer = k) =>
                /\ UpAfter(Append(s, e), v, n, k) <=> UpAfter(s, v, n, k)
                /\ AtAfter(Append(s, e), v, n, k) = AtAfter(s, v, n, k)
<1> DEFINE up == {"connected", "disconnected"}
           at == {"connected", "endpoint"}
<1>1. LastIn(Append(s, e), up, n, k) = IF Concerns(e, up, n, k) THEN e ELSE LastIn(s, up, n, k)
  BY LastAppend
<1>2. LastIn(Append(s, e), at, n, k) = IF Concerns(e, at, n, k) THEN e ELSE LastIn(s, at, n, k)
  BY LastAppend
<1>3. e # None /\ e.type \in {"connected", "disconnected", "endpoint"}
  BY NoneAssumption DEF GatewayEvent
<1> QED BY <1>1, <1>2, <1>3 DEF UpAfter, AtAfter, Concerns

\* The manager learns an event: what it will believe stays.
LEMMA Learned ==
    ASSUME NEW s \in Seq(GatewayEvent), s # <<>>, NEW v, NEW n, NEW k
    PROVE  /\ UpAfter(Tail(s), Learn(v, Head(s)), n, k) <=> UpAfter(s, v, n, k)
           /\ AtAfter(Tail(s), Learn(v, Head(s)), n, k) = AtAfter(s, v, n, k)
<1> DEFINE up == {"connected", "disconnected"}
           at == {"connected", "endpoint"}
           t  == Tail(s)
           e  == Head(s)
           w  == Learn(v, e)
<1>1. e \in GatewayEvent
  BY HeadTailProperties
<1>2. e # None /\ e.type \in {"connected", "disconnected", "endpoint"}
  BY <1>1, NoneAssumption DEF GatewayEvent
<1>3. /\ LastIn(t, up, n, k) # None => LastIn(s, up, n, k) = LastIn(t, up, n, k)
      /\ LastIn(t, up, n, k) = None => LastIn(s, up, n, k) = IF Concerns(e, up, n, k) THEN e ELSE None
  BY LastTail
<1>4. /\ LastIn(t, at, n, k) # None => LastIn(s, at, n, k) = LastIn(t, at, n, k)
      /\ LastIn(t, at, n, k) = None => LastIn(s, at, n, k) = IF Concerns(e, at, n, k) THEN e ELSE None
  BY LastTail
<1> HIDE DEF t, e
<1>5. /\ w.up = CASE e.type = "connected"    -> v.up \cup {<<e.network, e.peer>>}
                  [] e.type = "disconnected" -> v.up \ {<<e.network, e.peer>>}
                  [] e.type = "endpoint"     -> v.up
      /\ w.endpoint = IF e.type = "disconnected" THEN v.endpoint
                      ELSE With(v.endpoint, <<e.network, e.peer>>, e.endpoint)
  BY DEF Learn
<1> HIDE DEF w
<1>6. /\ ~Concerns(e, up, n, k) => (<<n, k>> \in w.up <=> <<n, k>> \in v.up)
      /\ Concerns(e, up, n, k) => (<<n, k>> \in w.up <=> e.type = "connected")
  BY <1>2, <1>5 DEF Concerns
<1>7. /\ ~Concerns(e, at, n, k) => Lookup(w.endpoint, <<n, k>>, None) = Lookup(v.endpoint, <<n, k>>, None)
      /\ Concerns(e, at, n, k) => Lookup(w.endpoint, <<n, k>>, None) = e.endpoint
  <2>1. CASE e.type = "disconnected"
    BY <1>5, <2>1 DEF Concerns
  <2>2. CASE e.type # "disconnected"
    <3>1. w.endpoint = With(v.endpoint, <<e.network, e.peer>>, e.endpoint)
      BY <1>5, <2>2
    <3>2. Concerns(e, at, n, k) <=> <<n, k>> = <<e.network, e.peer>>
      BY <1>2, <2>2 DEF Concerns
    <3> QED BY <3>1, <3>2 DEF Lookup, With
  <2> QED BY <2>1, <2>2
<1> HIDE DEF up, at
<1>8. UpAfter(t, w, n, k) <=> UpAfter(s, v, n, k)
  BY <1>2, <1>3, <1>6 DEF UpAfter, up
<1>9. AtAfter(t, w, n, k) = AtAfter(s, v, n, k)
  BY <1>2, <1>4, <1>7 DEF AtAfter, at
<1> QED BY <1>8, <1>9 DEF t, e, w

-----------------------------------------------------------------------------
(***************************************************************************)
(* The events of watchdog_peer.                                            *)
(***************************************************************************)

\* Tuples of events, put together.
LEMMA Pairs ==
    ASSUME NEW a \in GatewayEvent, NEW b \in GatewayEvent
    PROVE  /\ <<a>> \o <<b>> = <<a, b>>
           /\ <<a>> \o <<>> = <<a>>
           /\ <<>> \o <<b>> = <<b>>
           /\ <<>> \o <<>> = <<>>
<1>1. /\ <<a>> \in Seq(GatewayEvent) /\ <<b>> \in Seq(GatewayEvent)
      /\ <<a, b>> \in Seq(GatewayEvent) /\ <<>> \in Seq(GatewayEvent)
  OBVIOUS
<1>2. Append(<<a>>, b) = <<a>> \o <<b>>
  BY <1>1, AppendIsConcat
<1>3. Append(<<a>>, b) = <<a, b>>
  <2> DEFINE l == Append(<<a>>, b)
             r == <<a, b>>
  <2>1. l \in Seq(GatewayEvent) /\ Len(l) = 2 /\ l[1] = a /\ l[2] = b
    <3>1. Len(<<a>>) = 1 /\ <<a>>[1] = a
      OBVIOUS
    <3>2. l \in Seq(GatewayEvent) /\ Len(l) = Len(<<a>>) + 1 /\ l[Len(<<a>>) + 1] = b
      BY <1>1, AppendProperties
    <3>3. l[1] = <<a>>[1]
      BY <1>1, <3>1, AppendProperties
    <3> QED BY <3>1, <3>2, <3>3
  <2>2. Len(r) = 2 /\ r[1] = a /\ r[2] = b
    OBVIOUS
  <2> HIDE DEF l
  <2>3. \A i \in 1 .. Len(l) : l[i] = r[i]
    BY <2>1, <2>2
  <2> HIDE DEF r
  <2>4. l = r
    BY <1>1, <2>1, <2>2, <2>3, SeqEqual DEF r
  <2> QED BY <2>4 DEF l, r
<1>4. <<a>> \o <<>> = <<a>> /\ <<>> \o <<b>> = <<b>> /\ <<>> \o <<>> = <<>>
  BY <1>1, ConcatEmptySeq
<1> QED BY <1>2, <1>3, <1>4

\* At most two: a new endpoint, and whether the peer came or went.
LEMMA EventsCases ==
    ASSUME NEW previous \in PeerStats \cup {None}, NEW q \in PeerStats,
           NEW n \in Pubkey, NEW k \in Pubkey
    PROVE  LET moved == previous # None /\ q.endpoint \notin {previous.endpoint, None}
               came  == q.live /\ ~IsUp(previous)
               went  == ~q.live /\ IsUp(previous)
           IN  EventsOf(previous, q, n, k) =
                 IF moved /\ went THEN <<PeerEndpoint(n, k, q.endpoint), PeerDisconnected(n, k)>>
                 ELSE IF moved /\ came THEN <<PeerEndpoint(n, k, q.endpoint), PeerConnected(n, k, q.endpoint)>>
                 ELSE IF moved THEN <<PeerEndpoint(n, k, q.endpoint)>>
                 ELSE IF went THEN <<PeerDisconnected(n, k)>>
                 ELSE IF came THEN <<PeerConnected(n, k, q.endpoint)>>
                 ELSE <<>>
<1> DEFINE E == PeerEndpoint(n, k, q.endpoint)
           C == PeerConnected(n, k, q.endpoint)
           D == PeerDisconnected(n, k)
           moved == previous # None /\ q.endpoint \notin {previous.endpoint, None}
           came  == q.live /\ ~IsUp(previous)
           went  == ~q.live /\ IsUp(previous)
<1>1. E \in GatewayEvent /\ C \in GatewayEvent /\ D \in GatewayEvent
  BY DEF PeerEndpoint, PeerConnected, PeerDisconnected, GatewayEvent, PeerStats
<1>2. CASE previous = None
  <2>1. EventsOf(previous, q, n, k) = IF q.live THEN <<C>> ELSE <<>>
    BY <1>2 DEF EventsOf
  <2>2. ~moved /\ ~went /\ (came <=> q.live)
    BY <1>2 DEF IsUp
  <2> HIDE DEF E, C, D, moved, came, went
  <2>3. EventsOf(previous, q, n, k) =
                 IF moved /\ went THEN <<E, D>>
                 ELSE IF moved /\ came THEN <<E, C>>
                 ELSE IF moved THEN <<E>>
                 ELSE IF went THEN <<D>>
                 ELSE IF came THEN <<C>>
                 ELSE <<>>
    BY <2>1, <2>2
  <2> QED BY <2>3 DEF E, C, D, moved, came, went
<1>3. CASE previous # None
  <2>1. /\ moved <=> q.endpoint \notin {previous.endpoint, None}
        /\ went <=> previous.live /\ ~q.live
        /\ came <=> ~previous.live /\ q.live
    BY <1>3 DEF IsUp
  <2>2. EventsOf(previous, q, n, k) =
            (IF moved THEN <<E>> ELSE <<>>)
         \o (IF previous.live /\ ~q.live THEN <<D>> ELSE <<>>)
         \o (IF ~previous.live /\ q.live THEN <<C>> ELSE <<>>)
    BY <1>3 DEF EventsOf
  <2>3. EventsOf(previous, q, n, k) =
            (IF moved THEN <<E>> ELSE <<>>) \o (IF went THEN <<D>> ELSE <<>>) \o (IF came THEN <<C>> ELSE <<>>)
    BY <2>1, <2>2
  <2>4. ~(came /\ went)
    OBVIOUS
  <2> HIDE DEF E, C, D, moved, came, went
  <2>5. /\ <<E>> \o <<D>> = <<E, D>> /\ <<E>> \o <<C>> = <<E, C>> /\ <<E>> \o <<>> = <<E>>
        /\ <<>> \o <<D>> = <<D>> /\ <<>> \o <<C>> = <<C>> /\ <<>> \o <<>> = <<>>
    BY <1>1, Pairs
  <2>6. <<E, D>> \o <<>> = <<E, D>> /\ <<D>> \o <<>> = <<D>>
    <3>1. <<E, D>> \in Seq(GatewayEvent) /\ <<D>> \in Seq(GatewayEvent)
      BY <1>1
    <3> QED BY <3>1, ConcatEmptySeq
  <2>7. EventsOf(previous, q, n, k) =
                 IF moved /\ went THEN <<E, D>>
                 ELSE IF moved /\ came THEN <<E, C>>
                 ELSE IF moved THEN <<E>>
                 ELSE IF went THEN <<D>>
                 ELSE IF came THEN <<C>>
                 ELSE <<>>
    <3>1. CASE moved /\ went
      BY <3>1, <2>3, <2>4, <2>5, <2>6, Zenon
    <3>2. CASE moved /\ came
      BY <3>2, <2>3, <2>4, <2>5, <2>6, Zenon
    <3>3. CASE moved /\ ~went /\ ~came
      BY <3>3, <2>3, <2>4, <2>5, <2>6, Zenon
    <3>4. CASE ~moved /\ went
      BY <3>4, <2>3, <2>4, <2>5, <2>6, Zenon
    <3>5. CASE ~moved /\ came
      BY <3>5, <2>3, <2>4, <2>5, <2>6, Zenon
    <3>6. CASE ~moved /\ ~went /\ ~came
      BY <3>6, <2>3, <2>4, <2>5, <2>6, Zenon
    <3> QED BY <3>1, <3>2, <3>3, <3>4, <3>5, <3>6, Zenon
  <2> QED BY <2>7 DEF E, C, D, moved, came, went
<1> QED BY <1>2, <1>3

\* They tell the manager what is new, and nothing about anyone else.
LEMMA EventsTell ==
    ASSUME NEW s \in Seq(GatewayEvent), NEW v,
           NEW previous \in PeerStats \cup {None}, NEW q \in PeerStats,
           NEW n \in Pubkey, NEW k \in Pubkey, Knows(s, v, n, k, previous),
           LiveTellsEndpoint(q)
    PROVE  LET t == s \o EventsOf(previous, q, n, k)
           IN  /\ Knows(t, v, n, k, q)
               /\ \A m, j : ~(m = n /\ j = k) =>
                    /\ UpAfter(t, v, m, j) <=> UpAfter(s, v, m, j)
                    /\ AtAfter(t, v, m, j) = AtAfter(s, v, m, j)
<1> DEFINE moved == previous # None /\ q.endpoint \notin {previous.endpoint, None}
           came  == q.live /\ ~IsUp(previous)
           went  == ~q.live /\ IsUp(previous)
           E     == PeerEndpoint(n, k, q.endpoint)
           C     == PeerConnected(n, k, q.endpoint)
           D     == PeerDisconnected(n, k)
           t     == s \o EventsOf(previous, q, n, k)
<1>1. /\ E \in GatewayEvent /\ C \in GatewayEvent /\ D \in GatewayEvent
      /\ E.network = n /\ E.peer = k /\ E.type = "endpoint" /\ E.endpoint = q.endpoint
      /\ C.network = n /\ C.peer = k /\ C.type = "connected" /\ C.endpoint = q.endpoint
      /\ D.network = n /\ D.peer = k /\ D.type = "disconnected"
  BY DEF PeerEndpoint, PeerConnected, PeerDisconnected, GatewayEvent, PeerStats
<1>2. t = IF moved /\ went THEN Append(Append(s, E), D)
          ELSE IF moved /\ came THEN Append(Append(s, E), C)
          ELSE IF moved THEN Append(s, E)
          ELSE IF went THEN Append(s, D)
          ELSE IF came THEN Append(s, C)
          ELSE s
  <2> HIDE DEF E, C, D
  <2>1. ASSUME NEW e \in GatewayEvent PROVE Append(s, e) = s \o <<e>>
    BY AppendIsConcat
  <2>2. s \o <<>> = s
    BY ConcatEmptySeq
  <2>3. ASSUME NEW e \in GatewayEvent PROVE Append(Append(s, E), e) = s \o <<E, e>>
    <3>1. Append(s, E) \in Seq(GatewayEvent)
      BY <1>1, AppendProperties
    <3>2. Append(Append(s, E), e) = Append(s, E) \o <<e>>
      BY <3>1, AppendIsConcat
    <3>3. Append(s, E) = s \o <<E>>
      BY <1>1, <2>1
    <3>4. <<E>> \in Seq(GatewayEvent) /\ <<e>> \in Seq(GatewayEvent)
      BY <1>1
    <3>5. <<E>> \o <<e>> = <<E, e>>
      BY <1>1, Pairs
    <3>6. (s \o <<E>>) \o <<e>> = s \o (<<E>> \o <<e>>)
      BY <3>4, ConcatAssociative
    <3> QED BY <3>2, <3>3, <3>5, <3>6, Zenon
  <2>4. EventsOf(previous, q, n, k) = IF moved /\ went THEN <<E, D>>
                 ELSE IF moved /\ came THEN <<E, C>>
                 ELSE IF moved THEN <<E>>
                 ELSE IF went THEN <<D>>
                 ELSE IF came THEN <<C>>
                 ELSE <<>>
    BY EventsCases DEF E, C, D
  <2>5. /\ Append(Append(s, E), D) = s \o <<E, D>> /\ Append(Append(s, E), C) = s \o <<E, C>>
        /\ Append(s, E) = s \o <<E>> /\ Append(s, D) = s \o <<D>> /\ Append(s, C) = s \o <<C>>
    BY <1>1, <2>1, <2>3
  <2> HIDE DEF moved, went, came
  <2> QED BY <2>2, <2>4, <2>5, Zenon
<1> HIDE DEF E, C, D, t
<1>3. Append(s, E) \in Seq(GatewayEvent)
  BY <1>1, AppendProperties
<1>4. ASSUME NEW m, NEW j, ~(m = n /\ j = k)
      PROVE  /\ UpAfter(t, v, m, j) <=> UpAfter(s, v, m, j)
             /\ AtAfter(t, v, m, j) = AtAfter(s, v, m, j)
  <2>1. ASSUME NEW r \in Seq(GatewayEvent), NEW e \in {E, C, D}
        PROVE  /\ UpAfter(Append(r, e), v, m, j) <=> UpAfter(r, v, m, j)
               /\ AtAfter(Append(r, e), v, m, j) = AtAfter(r, v, m, j)
    <3>1. e \in GatewayEvent /\ ~(e.network = m /\ e.peer = j)
      BY <1>1, <1>4
    <3> QED BY <3>1, Appended
  <2> HIDE DEF moved, went, came
  <2>2. CASE t = Append(Append(s, E), D)
    BY <1>3, <2>1, <2>2
  <2>3. CASE t = Append(Append(s, E), C)
    BY <1>3, <2>1, <2>3
  <2>4. CASE t \in {Append(s, E), Append(s, D), Append(s, C), s}
    <3>1. ASSUME NEW e \in {E, C, D}, t = Append(s, e)
          PROVE  /\ UpAfter(t, v, m, j) <=> UpAfter(s, v, m, j)
                 /\ AtAfter(t, v, m, j) = AtAfter(s, v, m, j)
      BY <2>1, <3>1
    <3>2. t = s \/ \E e \in {E, C, D} : t = Append(s, e)
      BY <2>4
    <3> QED BY <3>1, <3>2
  <2>5. \/ t = Append(Append(s, E), D)
        \/ t = Append(Append(s, E), C)
        \/ t \in {Append(s, E), Append(s, D), Append(s, C), s}
    BY <1>2
  <2> QED BY <2>2, <2>3, <2>4, <2>5
<1>5. Knows(t, v, n, k, q)
  <2>1. q # None /\ (q.live => q.endpoint # None) /\ (IsUp(q) <=> q.live) /\ q.live \in BOOLEAN
    BY NoneAssumption DEF LiveTellsEndpoint, IsUp, PeerStats
  <2>2. /\ UpAfter(s, v, n, k) <=> IsUp(previous)
        /\ IsUp(previous) => AtAfter(s, v, n, k) = previous.endpoint
    BY DEF Knows
  <2>3. ASSUME NEW r \in Seq(GatewayEvent)
        PROVE  UpAfter(Append(r, C), v, n, k) /\ AtAfter(Append(r, C), v, n, k) = q.endpoint
    BY <1>1, Appended
  <2>4. ASSUME NEW r \in Seq(GatewayEvent) PROVE ~UpAfter(Append(r, D), v, n, k)
    BY <1>1, Appended
  <2>5. /\ UpAfter(Append(s, E), v, n, k) <=> UpAfter(s, v, n, k)
        /\ AtAfter(Append(s, E), v, n, k) = q.endpoint
    BY <1>1, Appended
  <2>6. q.live => \/ came
                  \/ IsUp(previous) /\ (moved \/ q.endpoint = previous.endpoint)
    BY <2>1 DEF IsUp
  <2>7. SUFFICES (UpAfter(t, v, n, k) <=> q.live) /\ (q.live => AtAfter(t, v, n, k) = q.endpoint)
    BY <2>1 DEF Knows
  <2>8. CASE went
    <3>1. t = Append(Append(s, E), D) \/ t = Append(s, D)
      BY <1>2, <2>8
    <3> QED BY <1>3, <2>4, <2>8, <3>1
  <2>9. CASE came
    <3>1. t = Append(Append(s, E), C) \/ t = Append(s, C)
      BY <1>2, <2>9
    <3> QED BY <1>3, <2>3, <2>9, <3>1
  <2>10. CASE ~came /\ ~went
    <3>1. t = IF moved THEN Append(s, E) ELSE s
      BY <1>2, <2>10
    <3>2. IsUp(previous) <=> q.live
      BY <2>1, <2>10
    <3> QED BY <2>2, <2>5, <2>6, <2>10, <3>1, <3>2
  <2> QED BY <2>8, <2>9, <2>10
<1> QED BY <1>4, <1>5 DEF t
\* An event is sent: what is on its way stays the same.
LEMMA SentOnTheirWay ==
    ASSUME NEW q \in Seq(GatewayEvent), NEW o \in Seq(GatewayEvent), o # <<>>
    PROVE  Append(q, Head(o)) \o Tail(o) = q \o o
<1>1. Head(o) \in GatewayEvent /\ Tail(o) \in Seq(GatewayEvent)
  BY HeadTailProperties
<1>2. <<Head(o)>> \in Seq(GatewayEvent)
  BY <1>1
<1>3. Len(o) \in Nat \ {0}
  BY LenProperties, EmptySeq
<1>4. o = <<Head(o)>> \o Tail(o)
  <2>1. o = SubSeq(o, 1, Len(o))
    BY SubSeqFull
  <2>2. 1 \in 1 .. Len(o) /\ Len(o) \in 1 .. Len(o)
    BY <1>3
  <2>3. SubSeq(o, 1, Len(o)) = <<o[1]>> \o SubSeq(o, 1 + 1, Len(o))
    BY <2>2, SubSeqRecursiveFirst
  <2>4. 1 + 1 = 2
    OBVIOUS
  <2>5. Tail(o) = SubSeq(o, 2, Len(o))
    BY TailIsSubSeq
  <2>6. Head(o) = o[1]
    OBVIOUS
  <2> QED BY <2>1, <2>3, <2>4, <2>5, <2>6
<1>5. Append(q, Head(o)) = q \o <<Head(o)>>
  BY <1>1, AppendIsConcat
<1>6. (q \o <<Head(o)>>) \o Tail(o) = q \o (<<Head(o)>> \o Tail(o))
  BY <1>1, <1>2, ConcatAssociative
<1> QED BY <1>4, <1>5, <1>6, Zenon

\* An event is received: it is the first of those on their way.
LEMMA TakenOnTheirWay ==
    ASSUME NEW q \in Seq(GatewayEvent), NEW o \in Seq(GatewayEvent), q # <<>>
    PROVE  /\ q \o o \in Seq(GatewayEvent) /\ q \o o # <<>>
           /\ Head(q \o o) = Head(q)
           /\ Tail(q \o o) = Tail(q) \o o
<1> DEFINE s == q \o o
           l == Tail(s)
           r == Tail(q) \o o
<1>1. /\ Len(q) \in Nat \ {0} /\ Len(o) \in Nat
  BY LenProperties, EmptySeq
<1>2. /\ s \in Seq(GatewayEvent) /\ Len(s) = Len(q) + Len(o)
      /\ \A i \in 1 .. Len(q) + Len(o) : s[i] = IF i <= Len(q) THEN q[i] ELSE o[i - Len(q)]
  BY ConcatProperties
<1>3. s # <<>>
  BY ConcatEqualIffEmpty
<1>4. /\ Tail(q) \in Seq(GatewayEvent) /\ Len(Tail(q)) = Len(q) - 1
      /\ \A i \in 1 .. Len(Tail(q)) : Tail(q)[i] = q[i + 1]
  BY HeadTailProperties
<1>5. /\ r \in Seq(GatewayEvent) /\ Len(r) = Len(Tail(q)) + Len(o)
      /\ \A i \in 1 .. Len(Tail(q)) + Len(o) :
           r[i] = IF i <= Len(Tail(q)) THEN Tail(q)[i] ELSE o[i - Len(Tail(q))]
  BY <1>4, ConcatProperties
<1> HIDE DEF s
<1>6. /\ l \in Seq(GatewayEvent) /\ Len(l) = Len(s) - 1
      /\ \A i \in 1 .. Len(l) : l[i] = s[i + 1]
  BY <1>2, <1>3, HeadTailProperties
<1> HIDE DEF l, r
<1>7. Len(l) = Len(r)
  BY <1>1, <1>2, <1>4, <1>5, <1>6
<1>8. ASSUME NEW i \in 1 .. Len(l) PROVE l[i] = r[i]
  <2>0. i \in Int /\ 1 <= i /\ i <= Len(q) - 1 + Len(o) /\ i + 1 \in 1 .. Len(q) + Len(o)
    BY <1>1, <1>2, <1>6
  <2>1. l[i] = IF i + 1 <= Len(q) THEN q[i + 1] ELSE o[i + 1 - Len(q)]
    BY <1>2, <1>6, <2>0
  <2>2. r[i] = IF i <= Len(q) - 1 THEN Tail(q)[i] ELSE o[i - (Len(q) - 1)]
    BY <1>1, <1>4, <1>5, <2>0
  <2>3. CASE i + 1 <= Len(q)
    BY <1>1, <1>4, <2>0, <2>1, <2>2, <2>3
  <2>4. CASE ~(i + 1 <= Len(q))
    <3>1. i + 1 - Len(q) = i - (Len(q) - 1)
      BY <1>1, <2>0
    <3>2. ~(i <= Len(q) - 1)
      BY <1>1, <2>0, <2>4
    <3> QED BY <2>1, <2>2, <2>4, <3>1, <3>2
  <2> QED BY <2>3, <2>4
<1>9. l = r
  BY <1>5, <1>6, <1>7, <1>8, SeqEqual
<1>10. Head(s) = Head(q)
  <2>1. s[1] = q[1]
    BY <1>1, <1>2
  <2> QED BY <2>1
<1> QED BY <1>2, <1>3, <1>9, <1>10 DEF s, l, r
-----------------------------------------------------------------------------
(***************************************************************************)
(* A connected peer has an endpoint.                                       *)
(***************************************************************************)

\* The kernel: handshakes, traffic and configurations.
LEMMA KernelTellsNext ==
    ASSUME KernelInv, KernelTells, [Next]_vars
    PROVE  KernelTells'
<1>1. CASE wg' = wg
  BY <1>1 DEF KernelTells
<1>2. ASSUME NEW x \in DOMAIN wg, NEW d, HasPeer(x, d), NEW new, HandshakeTellsEndpoint(new),
             wg' = [wg EXCEPT ![x] = [wg[x] EXCEPT !.peers = [wg[x].peers EXCEPT ![d] = new]]]
      PROVE  KernelTells'
  <2>1. wg[x] # None /\ wg[x] = [public_key |-> wg[x].public_key, peers |-> wg[x].peers]
    BY <1>2, NetworksDef DEF HasPeer, KernelInv
  <2> DEFINE peers == [wg[x].peers EXCEPT ![d] = new]
  <2>2. /\ DOMAIN wg' = DOMAIN wg
        /\ wg'[x] = [public_key |-> wg[x].public_key, peers |-> peers]
        /\ \A y \in DOMAIN wg : y # x => wg'[y] = wg[y]
    BY <1>2, <2>1
  <2>3. \A k \in DOMAIN peers : HandshakeTellsEndpoint(peers[k])
    BY <1>2, <2>1 DEF KernelTells
  <2> HIDE DEF peers
  <2>4. wg'[x].peers = peers
    BY <2>2
  <2> QED BY <2>2, <2>3, <2>4 DEF KernelTells
<1>3. ASSUME NEW x \in DOMAIN wg, NEW d \in Pubkey, NEW e \in Endpoint, Handshake(x, d, e)
      PROVE  KernelTells'
  <2> DEFINE new == [wg[x].peers[d] EXCEPT !.handshake = now, !.endpoint = e]
  <2>1. HasPeer(x, d) /\ wg' = [wg EXCEPT ![x] = [wg[x] EXCEPT !.peers = [wg[x].peers EXCEPT ![d] = new]]]
    BY <1>3 DEF Handshake
  <2>2. wg[x].peers[d] \in KernelPeer
    BY <2>1, NetworksDef DEF HasPeer, KernelInv
  <2>3. HandshakeTellsEndpoint(new)
    BY <2>2, WatchdogAssumption DEF HandshakeTellsEndpoint, KernelPeer
  <2> HIDE DEF new
  <2> QED BY <1>2, <2>1, <2>3
<1>4. ASSUME NEW x \in DOMAIN wg, NEW d \in Pubkey, NEW r, NEW t, Transfer(x, d, r, t)
      PROVE  KernelTells'
  <2> DEFINE new == Counted(wg[x].peers[d], r, t)
  <2>1. HasPeer(x, d) /\ wg' = [wg EXCEPT ![x] = [wg[x] EXCEPT !.peers = [wg[x].peers EXCEPT ![d] = new]]]
    BY <1>4 DEF Transfer
  <2>2. wg[x].peers[d] \in KernelPeer /\ HandshakeTellsEndpoint(wg[x].peers[d])
    BY <2>1, NetworksDef DEF HasPeer, KernelInv, KernelTells
  <2>3. new.handshake = wg[x].peers[d].handshake /\ new.endpoint = wg[x].peers[d].endpoint
    BY <2>2 DEF Counted, KernelPeer
  <2>4. HandshakeTellsEndpoint(new)
    BY <2>2, <2>3 DEF HandshakeTellsEndpoint
  <2> HIDE DEF new
  <2> QED BY <1>2, <2>1, <2>4
<1>5. ASSUME NEW x, NetnsDel(x) PROVE KernelTells'
  BY <1>5 DEF NetnsDel, Without, KernelTells
<1>6. ASSUME NEW x, NetnsAdd(x) PROVE KernelTells'
  BY <1>6 DEF NetnsAdd, With, KernelTells
<1>7. ASSUME NEW c \in Confs, Syncconf(c) PROVE KernelTells'
  <2> DEFINE old(j) == IF HasPeer(c.listen_port, j) THEN wg[c.listen_port].peers[j] ELSE None
             peers == [j \in DOMAIN c.peers |-> Configured(old(j), c.peers[j])]
  <2>1. c.listen_port \in DOMAIN wg /\ wg' = [wg EXCEPT ![c.listen_port] = [public_key |-> c.public_key, peers |-> peers]]
    BY <1>7 DEF Syncconf
  <2>2. ASSUME NEW j \in DOMAIN c.peers PROVE HandshakeTellsEndpoint(Configured(old(j), c.peers[j]))
    <3>1. HasPeer(c.listen_port, j) =>
            wg[c.listen_port].peers[j] \in KernelPeer /\ HandshakeTellsEndpoint(wg[c.listen_port].peers[j])
      BY <2>1, NetworksDef DEF HasPeer, KernelInv, KernelTells
    <3>2. old(j) = None \/ (old(j) \in KernelPeer /\ HandshakeTellsEndpoint(old(j)))
      BY <3>1
    <3> HIDE DEF old
    <3> QED BY <3>2 DEF Configured, KernelPeer, HandshakeTellsEndpoint
  <2>3. \A j \in DOMAIN peers : HandshakeTellsEndpoint(peers[j])
    BY <2>2
  <2> HIDE DEF peers
  <2>4. /\ DOMAIN wg' = DOMAIN wg
        /\ \A p \in DOMAIN wg : p # c.listen_port => wg'[p] = wg[p]
        /\ wg'[c.listen_port].peers = peers
    BY <2>1
  <2> QED BY <2>3, <2>4 DEF KernelTells
<1>8. CASE Restart
  BY <1>8 DEF Restart, KernelTells, EmptyMap
<1>9. CASE Watch
  BY <1>1, <1>9 DEF Watch, WatchdogStep, Tick, watchdog_run, watchdog_netns, watchdog_peer, dead_peer,
         watchdog_event, dead_peers, send_traffic
<1>10. CASE Serve(WebsocketStep) \/ Serve(ConnectionLost) \/ Manage \/ UNCHANGED vars
  BY <1>1, <1>10 DEF Serve, Manage, kernelVars, vars
<1>11. CASE Kernel
  BY <1>1, <1>3, <1>4, <1>11 DEF Kernel, ClockMoves
<1>12. CASE Reconfigure
  BY <1>5, <1>6, <1>7, <1>12 DEF Reconfigure
<1> QED BY <1>8, <1>9, <1>10, <1>11, <1>12 DEF Next

\* watchdog_peer takes a peer as connected only after a handshake.
LEMMA JudgedTells ==
    ASSUME NEW x, HandshakeTellsEndpoint(x)
    PROVE  LiveTellsEndpoint(Judged(x))
BY DEF HandshakeTellsEndpoint, LiveTellsEndpoint, Judged, IsLive

\* The watchdog: what it fetches, judges and keeps.
LEMMA WatchTellsNext ==
    ASSUME KernelInv, WatchInv, KernelTells, WatchTells, [Next]_vars
    PROVE  WatchTells'
<1>1. CASE UNCHANGED <<wpc, stats, cache, peer>>
  BY <1>1 DEF WatchTells
<1>2. CASE wpc' \notin {"peers", "send"} /\ cache' \in {cache, EmptyMap}
  BY <1>2 DEF WatchTells, EmptyMap
<1>3. ASSUME NEW p \in names, watchdog_netns(p) PROVE WatchTells'
  <2>1. CASE UNCHANGED <<stats, left, cache, wpc>>
    <3>1. peer' = peer
      BY <1>3 DEF watchdog_netns
    <3> QED BY <1>1, <2>1, <3>1
  <2>2. CASE /\ p \in DOMAIN wg
             /\ wg[p] # None
             /\ stats' = [listen_port |-> p, public_key |-> wg[p].public_key, peers |-> wg[p].peers]
             /\ left' = DOMAIN wg[p].peers
             /\ cache' = With(cache, p, Lookup(cache, p, EmptyMap))
             /\ wpc' = "peers"
    <3>1. \A k \in DOMAIN stats'.peers : HandshakeTellsEndpoint(stats'.peers[k])
      BY <2>2 DEF KernelTells
    <3>2. ASSUME NEW r \in DOMAIN cache', NEW k \in DOMAIN cache'[r]
          PROVE  r \in DOMAIN cache /\ k \in DOMAIN cache[r] /\ cache'[r][k] = cache[r][k]
      BY <2>2 DEF With, Lookup, EmptyMap
    <3>3. \A r \in DOMAIN cache' : \A k \in DOMAIN cache'[r] : LiveTellsEndpoint(cache'[r][k])
      BY <3>2 DEF WatchTells
    <3> QED BY <2>2, <3>1, <3>3 DEF WatchTells
  <2> QED BY <1>3, <2>1, <2>2 DEF watchdog_netns
<1>4. ASSUME NEW k \in Pubkey, NEW q \in PeerStats, wpc \in {"peers", "send"}, LiveTellsEndpoint(q), Cached(k, q), stats' = stats
      PROVE  WatchTells'
  <2> DEFINE p == stats.listen_port
  <2>1. /\ p \in DOMAIN cache
        /\ DOMAIN cache' = DOMAIN cache
        /\ cache'[p] = With(cache[p], k, q)
        /\ \A r \in DOMAIN cache : r # p => cache'[r] = cache[r]
    BY <1>4, CachedType, CacheHere
  <2> HIDE DEF p
  <2>2. \A j \in DOMAIN cache'[p] : LiveTellsEndpoint(cache'[p][j])
    BY <1>4, <2>1 DEF With, WatchTells
  <2>3. \A r \in DOMAIN cache' : \A j \in DOMAIN cache'[r] : LiveTellsEndpoint(cache'[r][j])
    BY <2>1, <2>2 DEF WatchTells
  <2>4. wpc' = "peers"
    BY <1>4 DEF Cached
  <2> QED BY <1>4, <2>3, <2>4 DEF WatchTells
<1>5. ASSUME NEW k \in left, watchdog_peer(k) PROVE WatchTells'
  <2> DEFINE q == Judged(stats.peers[k])
  <2>1. wpc = "peers" /\ stats' = stats /\ k \in DOMAIN stats.peers
    BY <1>5 DEF watchdog_peer, WatchInv
  <2>2. LiveTellsEndpoint(q)
    BY <2>1, JudgedTells DEF WatchTells
  <2>3. k \in Pubkey /\ q \in PeerStats
    BY <2>1, CacheHere, JudgedType
  <2>4. \/ wpc' \in {"peers", "panicked"} /\ UNCHANGED <<cache, peer>>
        \/ Cached(k, q)
        \/ wpc' = "send" /\ peer' = [key |-> k, stats |-> q] /\ cache' = cache
    BY <1>5, <2>1 DEF watchdog_peer
  <2> HIDE DEF q
  <2>5. CASE wpc' \in {"peers", "panicked"} /\ UNCHANGED <<cache, peer>>
    BY <2>1, <2>5 DEF WatchTells
  <2>6. CASE Cached(k, q)
    BY <1>4, <2>1, <2>2, <2>3, <2>6
  <2>7. CASE wpc' = "send" /\ peer' = [key |-> k, stats |-> q] /\ cache' = cache
    <3>1. peer'.stats = q
      BY <2>7
    <3> QED BY <2>1, <2>2, <2>7, <3>1 DEF WatchTells
  <2> QED BY <2>4, <2>5, <2>6, <2>7
<1>6. CASE watchdog_event
  <2>1. /\ wpc = "send" /\ stats' = stats /\ LiveTellsEndpoint(peer.stats)
        /\ peer.key \in Pubkey /\ peer.stats \in PeerStats
    BY <1>6 DEF watchdog_event, WatchInv, WatchTells
  <2>2. \/ Cached(peer.key, peer.stats)
        \/ UNCHANGED <<cache, wpc, peer>>
        \/ wpc' = "peers" /\ UNCHANGED cache
    BY <1>6 DEF watchdog_event
  <2>3. CASE Cached(peer.key, peer.stats)
    BY <1>4, <2>1, <2>3
  <2>4. CASE UNCHANGED <<cache, wpc, peer>>
    BY <1>1, <2>1, <2>4
  <2>5. CASE wpc' = "peers" /\ UNCHANGED cache
    BY <2>1, <2>5 DEF WatchTells
  <2> QED BY <2>2, <2>3, <2>4, <2>5
<1>7. ASSUME NEW k \in left, dead_peer(k) PROVE WatchTells'
  <2> DEFINE p == stats.listen_port
  <2>1. /\ DOMAIN cache' = DOMAIN cache
        /\ cache'[p] = Without(cache[p], k)
        /\ \A r \in DOMAIN cache : r # p => cache'[r] = cache[r]
    BY <1>7, RemovedType
  <2> HIDE DEF p
  <2>2. \A r \in DOMAIN cache' : \A j \in DOMAIN cache'[r] : LiveTellsEndpoint(cache'[r][j])
    BY <2>1 DEF Without, WatchTells
  <2>3. wpc' \in {"run", "dead"}
    BY <1>7 DEF dead_peer, Bury
  <2> QED BY <2>2, <2>3 DEF WatchTells
<1>8. CASE watchdog_run \/ send_traffic
  <2>1. wpc' \in {"run", "tick"} /\ cache' \in {cache, EmptyMap}
    BY <1>8 DEF watchdog_run, send_traffic, Relaunch
  <2> QED BY <1>2, <2>1
<1>9. CASE dead_peers
  <2>1. wpc' \in {"run", "dead"} /\ cache' = cache
    BY <1>9 DEF dead_peers, Bury
  <2> QED BY <1>2, <2>1
<1>10. CASE Tick
  BY <1>1, <1>10 DEF Tick, localVars
<1>11. CASE Watch
  BY <1>3, <1>5, <1>6, <1>7, <1>8, <1>9, <1>10, <1>11 DEF Watch, WatchdogStep
<1>12. CASE Restart
  BY <1>2, <1>12 DEF Restart
<1>13. CASE Serve(WebsocketStep) \/ Serve(ConnectionLost) \/ Manage \/ UNCHANGED vars
  BY <1>1, <1>13 DEF Serve, Manage, watchdogVars, localVars, vars
<1>14. CASE Kernel
  BY <1>1, <1>14 DEF Kernel, Handshake, Transfer, ClockMoves, KernelFrame, watchdogVars, localVars
<1>15. CASE Reconfigure
  BY <1>1, <1>15 DEF Reconfigure, NetnsDel, NetnsAdd, Syncconf, KernelFrame, watchdogVars, localVars
<1> QED BY <1>11, <1>12, <1>13, <1>14, <1>15 DEF Next
-----------------------------------------------------------------------------
(***************************************************************************)
(* The ports and their owners.                                             *)
(***************************************************************************)

\* A namespace is visited for its owner, and no step but a visit changes that.
LEMMA OwnerNext ==
    ASSUME NEW home, WatchInv, OwnerInv(home), [Next]_vars, ~(wpc = "run" /\ wpc' = "peers")
    PROVE  OwnerInv(home)' /\ owner' = owner
<1>1. CASE UNCHANGED <<owner, cache, wpc, stats>>
  BY <1>1 DEF OwnerInv
<1>2. ASSUME owner' = owner, DOMAIN cache' \subseteq DOMAIN cache,
             wpc' \in {"peers", "send", "dead"} => wpc \in {"peers", "send", "dead"} /\ stats' = stats
      PROVE  OwnerInv(home)' /\ owner' = owner
  BY <1>2 DEF OwnerInv
<1>3. ASSUME NEW p \in names, watchdog_netns(p), History PROVE OwnerInv(home)' /\ owner' = owner
  <2>1. UNCHANGED <<stats, cache, wpc>>
    BY <1>3 DEF watchdog_netns
  <2>2. owner' = owner
    BY <1>3, <2>1 DEF watchdog_netns, History
  <2> QED BY <1>1, <2>1, <2>2
<1>4. ASSUME NEW k \in left, watchdog_peer(k), History PROVE OwnerInv(home)' /\ owner' = owner
  <2>1. wpc = "peers" /\ stats' = stats /\ k \in DOMAIN stats.peers
    BY <1>4 DEF watchdog_peer, WatchInv
  <2>2. k \in Pubkey /\ Judged(stats.peers[k]) \in PeerStats
    BY <2>1, CacheHere, JudgedType
  <2>3. cache' = cache \/ Cached(k, Judged(stats.peers[k]))
    BY <1>4 DEF watchdog_peer
  <2>4. DOMAIN cache' = DOMAIN cache
    BY <2>1, <2>2, <2>3, CachedType
  <2>5. owner' = owner
    BY <1>4, <2>1 DEF History
  <2> QED BY <1>2, <2>1, <2>4, <2>5
<1>5. CASE watchdog_event /\ History
  <2>1. wpc = "send" /\ stats' = stats /\ peer.key \in Pubkey /\ peer.stats \in PeerStats
    BY <1>5 DEF watchdog_event, WatchInv
  <2>2. cache' = cache \/ Cached(peer.key, peer.stats)
    BY <1>5 DEF watchdog_event
  <2>3. DOMAIN cache' = DOMAIN cache
    BY <2>1, <2>2, CachedType
  <2>4. owner' = owner
    BY <1>5, <2>1 DEF History
  <2> QED BY <1>2, <2>1, <2>3, <2>4
<1>6. ASSUME NEW k \in left, dead_peer(k), History PROVE OwnerInv(home)' /\ owner' = owner
  <2>1. DOMAIN cache' = DOMAIN cache
    BY <1>6, RemovedType
  <2>2. wpc = "dead" /\ owner' = owner
    BY <1>6 DEF dead_peer, History
  <2>3. wpc' = "run" \/ stats' = stats
    BY <1>6 DEF dead_peer, Bury
  <2> QED BY <1>2, <2>1, <2>2, <2>3
<1>7. CASE (watchdog_run \/ send_traffic) /\ History
  <2>1. wpc' \in {"run", "tick"} /\ cache' \in {cache, EmptyMap}
    BY <1>7 DEF watchdog_run, send_traffic, Relaunch
  <2>2. owner' = owner
    BY <1>7, <2>1 DEF History
  <2> QED BY <1>2, <2>1, <2>2 DEF EmptyMap
<1>8. CASE dead_peers /\ History
  <2>1. wpc = "peers" /\ cache' = cache /\ (wpc' = "run" \/ stats' = stats) /\ owner' = owner
    BY <1>8 DEF dead_peers, Bury, History
  <2> QED BY <1>2, <2>1
<1>9. CASE Tick /\ History
  <2>1. owner' = owner /\ UNCHANGED <<cache, wpc, stats>>
    BY <1>9 DEF Tick, History, localVars
  <2> QED BY <1>1, <2>1
<1>10. CASE Watch
  BY <1>3, <1>4, <1>5, <1>6, <1>7, <1>8, <1>9, <1>10 DEF Watch, WatchdogStep
<1>11. CASE Restart
  BY <1>2, <1>11 DEF Restart, EmptyMap
<1>12. CASE Serve(WebsocketStep) \/ Serve(ConnectionLost) \/ Manage
  <2>1. UNCHANGED watchdogVars /\ History
    BY <1>12 DEF Serve, Manage
  <2>2. UNCHANGED <<owner, cache, wpc, stats>>
    BY <2>1 DEF History, watchdogVars, localVars
  <2> QED BY <1>1, <2>2
<1>13. CASE UNCHANGED vars
  BY <1>1, <1>13 DEF vars, watchdogVars, localVars, historyVars
<1>14. CASE Kernel
  BY <1>1, <1>14 DEF Kernel, Handshake, Transfer, ClockMoves, KernelFrame, watchdogVars, localVars
<1>15. CASE Reconfigure
  BY <1>1, <1>15 DEF Reconfigure, NetnsDel, NetnsAdd, Syncconf, KernelFrame, watchdogVars, localVars
<1> QED BY <1>10, <1>11, <1>12, <1>13, <1>14, <1>15 DEF Next

-----------------------------------------------------------------------------
(***************************************************************************)
(* What the watchdog holds of the peers.                                   *)
(***************************************************************************)

\* The same to the manager: equal, or neither is connected.
Agrees(x, y) == x = y \/ (~IsUp(x) /\ ~IsUp(y))

\* What the manager knows is the same for statistics that agree.
LEMMA KnowsAgrees ==
    ASSUME NEW s, NEW v, NEW n, NEW k, NEW x, NEW y, Knows(s, v, n, k, x), Agrees(x, y)
    PROVE  Knows(s, v, n, k, y)
BY DEF Knows, Agrees

\* The network that watchdog_netns works on.
LEMMA OwnerHere ==
    ASSUME NEW home, WatchInv, OwnerInv(home), wpc \in {"peers", "send", "dead"}
    PROVE  /\ stats.public_key \in Pubkey
           /\ home[stats.public_key] = stats.listen_port
           /\ stats.listen_port \in DOMAIN owner
           /\ owner[stats.listen_port] = stats.public_key
BY CacheHere DEF OwnerInv

\* Peers come into the cache at the port that is visited, the home of its network.
LEMMA HomeNext ==
    ASSUME NEW home, WatchInv, OwnerInv(home), HomeInv(home), [Next]_vars, ~(wpc = "run" /\ wpc' = "peers")
    PROVE  HomeInv(home)'
<1>1. owner' = owner
  BY OwnerNext
<1>2. exact' => exact
  BY DEF Next, Watch, Serve, Manage, History, Restart, Kernel, Handshake, Transfer, ClockMoves,
         Reconfigure, NetnsDel, NetnsAdd, Syncconf, KernelFrame, vars, historyVars
<1> SUFFICES ASSUME exact, NEW p \in DOMAIN owner, home[owner[p]] # p PROVE CachedUp(p)' = {}
  BY <1>1, <1>2 DEF HomeInv
<1>3. CachedUp(p) = {}
  BY DEF HomeInv
<1>4. CASE cache' = cache
  BY <1>3, <1>4 DEF CachedUp
<1>5. CASE cache' = EmptyMap
  BY <1>5 DEF CachedUp, Lookup, EmptyMap
<1>6. ASSUME wpc \in {"peers", "send", "dead"}, DOMAIN cache' = DOMAIN cache,
             \A r \in DOMAIN cache : r # stats.listen_port => cache'[r] = cache[r]
      PROVE  CachedUp(p)' = {}
  <2>1. p # stats.listen_port
    BY <1>6, OwnerHere
  <2> QED BY <1>3, <1>6, <2>1 DEF CachedUp, Lookup, EmptyMap
<1>7. ASSUME NEW k \in left, watchdog_peer(k) PROVE CachedUp(p)' = {}
  <2>1. wpc = "peers" /\ k \in DOMAIN stats.peers
    BY <1>7 DEF watchdog_peer, WatchInv
  <2>2. k \in Pubkey /\ Judged(stats.peers[k]) \in PeerStats
    BY <2>1, CacheHere, JudgedType
  <2>3. cache' = cache \/ Cached(k, Judged(stats.peers[k]))
    BY <1>7 DEF watchdog_peer
  <2> QED BY <1>4, <1>6, <2>1, <2>2, <2>3, CachedType
<1>8. CASE watchdog_event
  <2>1. wpc = "send" /\ peer.key \in Pubkey /\ peer.stats \in PeerStats
    BY <1>8 DEF watchdog_event, WatchInv
  <2>2. cache' = cache \/ Cached(peer.key, peer.stats)
    BY <1>8 DEF watchdog_event
  <2> QED BY <1>4, <1>6, <2>1, <2>2, CachedType
<1>9. ASSUME NEW k \in left, dead_peer(k) PROVE CachedUp(p)' = {}
  <2>1. wpc = "dead"
    BY <1>9 DEF dead_peer
  <2> QED BY <1>6, <1>9, <2>1, RemovedType
<1>10. ASSUME NEW q, watchdog_netns(q) PROVE CachedUp(p)' = {}
  BY <1>4, <1>10 DEF watchdog_netns
<1>11. CASE watchdog_run \/ send_traffic \/ dead_peers \/ Tick
  BY <1>4, <1>5, <1>11 DEF watchdog_run, send_traffic, Relaunch, dead_peers, Tick
<1>12. CASE Watch
  BY <1>7, <1>8, <1>9, <1>10, <1>11, <1>12 DEF Watch, WatchdogStep
<1>13. CASE Restart
  BY <1>5, <1>13 DEF Restart
<1>14. CASE Serve(WebsocketStep) \/ Serve(ConnectionLost) \/ Manage \/ UNCHANGED vars
  BY <1>4, <1>14 DEF Serve, Manage, watchdogVars, vars
<1>15. CASE Kernel \/ Reconfigure
  BY <1>4, <1>15 DEF Kernel, Handshake, Transfer, ClockMoves, Reconfigure, NetnsDel, NetnsAdd, Syncconf,
         KernelFrame, watchdogVars
<1> QED BY <1>12, <1>13, <1>14, <1>15 DEF Next

\* Of a peer that is not being worked on, it holds what is in the cache.
LEMMA HeldHere ==
    ASSUME NEW home, WatchInv, OwnerInv(home), wpc \in {"peers", "dead"}, NEW k
    PROVE  Held(home, stats.public_key, k) = Previous(k)
<1>1. peer = None /\ stats.listen_port \in DOMAIN cache
  BY DEF WatchInv
<1> QED BY <1>1, OwnerHere DEF Held, Tracked, Previous, Lookup

\* Of the peer it works on, it holds what it has judged.
LEMMA HeldSending ==
    ASSUME NEW home, WatchInv, OwnerInv(home), wpc = "send"
    PROVE  Held(home, stats.public_key, peer.key) = peer.stats
<1>1. peer # None
  BY NoneAssumption DEF WatchInv
<1> QED BY <1>1, OwnerHere DEF Held, Tracked

\* A step about one peer of the network leaves the others alone.
LEMMA HeldElsewhere ==
    ASSUME NEW home, WatchInv, OwnerInv(home), wpc \in {"peers", "send", "dead"}, owner' = owner,
           NEW k, peer = None \/ peer.key = k,
           peer' = None \/ (peer'.key = k /\ stats' = stats),
           DOMAIN cache' = DOMAIN cache,
           \A r \in DOMAIN cache : r # stats.listen_port => cache'[r] = cache[r],
           \A j : j # k => Lookup(cache'[stats.listen_port], j, None) = Lookup(cache[stats.listen_port], j, None),
           NEW n, NEW j, ~(n = stats.public_key /\ j = k)
    PROVE  Held(home, n, j)' = Held(home, n, j)
<1>1. stats.listen_port \in DOMAIN cache
  BY DEF WatchInv
<1>2. owner[stats.listen_port] = stats.public_key
  BY OwnerHere
<1>3. CASE home[n] # stats.listen_port
  BY <1>1, <1>3 DEF Held, Tracked, Lookup
<1>4. CASE home[n] = stats.listen_port /\ n # stats.public_key
  BY <1>2, <1>4 DEF Held
<1>5. CASE home[n] = stats.listen_port /\ j # k
  BY <1>1, <1>5 DEF Held, Tracked, Lookup
<1> QED BY <1>3, <1>4, <1>5
-----------------------------------------------------------------------------
(***************************************************************************)
(* The view, step by step.                                                 *)
(***************************************************************************)

\* What is on its way is a sequence of events.
LEMMA OnTheirWayType ==
    ASSUME WatchInv, ChannelInv
    PROVE  /\ events_broadcast.queue \in Seq(GatewayEvent)
           /\ outbox \in Seq(GatewayEvent)
           /\ OnTheirWay \in Seq(GatewayEvent)
           /\ wpc # "send" => OnTheirWay = events_broadcast.queue
<1>1. events_broadcast.queue \in Seq(GatewayEvent) /\ outbox \in Seq(GatewayEvent)
  BY DEF WatchInv, ChannelInv, Channel
<1>2. wpc # "send" => outbox = <<>>
  BY DEF WatchInv
<1>3. events_broadcast.queue \o outbox \in Seq(GatewayEvent)
  BY <1>1, ConcatProperties
<1>4. events_broadcast.queue \o <<>> = events_broadcast.queue
  BY <1>1, ConcatEmptySeq
<1> QED BY <1>1, <1>2, <1>3, <1>4 DEF OnTheirWay

\* Nothing that matters happens to the watchdog, the queue or the view.
LEMMA ViewStays ==
    ASSUME NEW home, ViewInv(home), UNCHANGED <<cache, owner, peer, outbox, wpc, stats, view>>,
           exact' => exact /\ events_broadcast'.queue = events_broadcast.queue /\ ~events_broadcast'.lagged
    PROVE  ViewInv(home)'
<1> SUFFICES ASSUME exact' PROVE ViewInv(home)'
  BY DEF ViewInv
<1>1. exact /\ events_broadcast'.queue = events_broadcast.queue /\ ~events_broadcast'.lagged
  OBVIOUS
<1>2. OnTheirWay' = OnTheirWay
  BY <1>1 DEF OnTheirWay
<1>3. ASSUME NEW n, NEW k PROVE Held(home, n, k)' = Held(home, n, k)
  BY DEF Held, Tracked
<1>4. EventsNow' = EventsNow /\ Previous(peer.key)' = Previous(peer.key)
  BY DEF EventsNow, Previous
<1>5. /\ \A n, k \in Pubkey : Knows(OnTheirWay, view, n, k, Held(home, n, k))
      /\ wpc = "send" =>
           /\ Len(outbox) <= Len(EventsNow)
           /\ outbox = EventsNow =>
                Knows(events_broadcast.queue, view, stats.public_key, peer.key, Previous(peer.key))
  BY <1>1 DEF ViewInv
<1> QED BY <1>1, <1>2, <1>3, <1>4, <1>5 DEF ViewInv

\* The watchdog works on no peer, before and after; a network may have moved.
LEMMA ViewIdle ==
    ASSUME NEW home, NEW new, WatchInv, ChannelInv, ViewInv(home), wpc # "send", wpc' # "send",
           peer' = None, outbox' = <<>>, UNCHANGED <<events_broadcast, view>>, exact' => exact,
           exact' => \A n, k \in Pubkey : Agrees(Held(home, n, k), Held(new, n, k)')
    PROVE  ViewInv(new)'
<1> SUFFICES ASSUME exact' PROVE ViewInv(new)'
  BY DEF ViewInv
<1>1. exact /\ ~events_broadcast'.lagged
  BY DEF ViewInv
<1>2. OnTheirWay' = OnTheirWay
  BY DEF OnTheirWay, WatchInv
<1>3. ASSUME NEW n \in Pubkey, NEW k \in Pubkey
      PROVE  Knows(OnTheirWay', view', n, k, Held(new, n, k)')
  <2>1. Knows(OnTheirWay, view, n, k, Held(home, n, k))
    BY <1>1 DEF ViewInv
  <2>2. Agrees(Held(home, n, k), Held(new, n, k)')
    OBVIOUS
  <2>3. Knows(OnTheirWay, view, n, k, Held(new, n, k)')
    BY <2>1, <2>2, KnowsAgrees
  <2> QED BY <1>2, <2>3
<1> QED BY <1>1, <1>3 DEF ViewInv

\* The cache is dropped with nobody connected.
LEMMA ViewForgotten ==
    ASSUME NEW home, WatchInv, ChannelInv, ViewInv(home), peer = None, wpc' # "send",
           peer' = None, outbox' = <<>>, cache' = EmptyMap, owner' = owner,
           UNCHANGED <<events_broadcast, view>>, exact' => exact /\ ~Forgotten
    PROVE  ViewInv(home)'
<1>0. wpc # "send"
  BY NoneAssumption DEF WatchInv
<1>1. ASSUME exact', NEW n \in Pubkey, NEW k \in Pubkey
      PROVE  Agrees(Held(home, n, k), Held(home, n, k)')
  <2>1. Held(home, n, k)' = None
    BY DEF Held, Tracked, Lookup, EmptyMap
  <2>2. TrackedUp = {}
    BY <1>1 DEF Forgotten
  <2>3. ~IsUp(Held(home, n, k))
    <3>1. CASE home[n] \in DOMAIN owner /\ owner[home[n]] = n
      <4>1. <<home[n], k>> \in (DOMAIN owner) \X Pubkey
        BY <3>1
      <4>2. ~(Tracked(home[n], k) # None /\ Tracked(home[n], k).live)
        BY <2>2, <4>1 DEF TrackedUp
      <4> QED BY <3>1, <4>2 DEF Held, IsUp
    <3>2. CASE ~(home[n] \in DOMAIN owner /\ owner[home[n]] = n)
      BY <3>2 DEF Held, IsUp
    <3> QED BY <3>1, <3>2
  <2> QED BY <2>1, <2>3 DEF Agrees, IsUp
<1> QED BY <1>0, <1>1, ViewIdle

\* watchdog_run and send_traffic, the end of watchdog() included.
LEMMA ViewRun ==
    ASSUME NEW home, WatchInv, ChannelInv, ViewInv(home),
           watchdog_run \/ send_traffic, History, view' = view
    PROVE  ViewInv(home)'
<1>1. /\ wpc \in {"tick", "run"} /\ wpc' \in {"run", "tick"} /\ UNCHANGED <<stats, peer, outbox, events_broadcast>>
      /\ cache' \in {cache, EmptyMap}
  BY DEF watchdog_run, send_traffic, Relaunch
<1>2. peer = None /\ outbox = <<>>
  BY <1>1 DEF WatchInv
<1>3. owner' = owner
  BY <1>1 DEF History
<1>4. exact' => exact /\ ~Forgotten
  BY DEF History
<1>5. CASE cache' = EmptyMap
  BY <1>1, <1>2, <1>3, <1>4, <1>5, ViewForgotten
<1>6. CASE cache' = cache
  <2>1. \A n, k \in Pubkey : Held(home, n, k)' = Held(home, n, k)
    BY <1>1, <1>3, <1>6 DEF Held, Tracked
  <2>2. \A n, k \in Pubkey : Agrees(Held(home, n, k), Held(home, n, k)')
    BY <2>1 DEF Agrees
  <2> QED BY <1>1, <1>2, <1>4, <2>2, ViewIdle
<1> QED BY <1>1, <1>5, <1>6

\* dead_peers.
LEMMA ViewDeadPeers ==
    ASSUME NEW home, WatchInv, ChannelInv, ViewInv(home), dead_peers, History, view' = view
    PROVE  ViewInv(home)'
<1>1. wpc = "peers" /\ wpc' \in {"run", "dead"} /\ UNCHANGED <<cache, peer, outbox, events_broadcast>>
  BY DEF dead_peers, Bury
<1>2. peer = None /\ outbox = <<>>
  BY <1>1 DEF WatchInv
<1>3. owner' = owner /\ (exact' => exact)
  BY <1>1 DEF History
<1>4. \A n, k \in Pubkey : Held(home, n, k)' = Held(home, n, k)
  BY <1>1, <1>2, <1>3 DEF Held, Tracked
<1>5. \A n, k \in Pubkey : Agrees(Held(home, n, k), Held(home, n, k)')
  BY <1>4 DEF Agrees
<1> QED BY <1>1, <1>2, <1>3, <1>5, ViewIdle

\* watchdog_netns finds a network: it had nobody connected at another port, and
\* another network nobody at this one, so that the network may move its home.
LEMMA FoundNext ==
    ASSUME NEW home \in Homes, WatchInv, ChannelInv, KernelInv, OwnerInv(home), HomeInv(home), ViewInv(home),
           NEW p \in names, watchdog_netns(p), History, view' = view, wpc' = "peers"
    PROVE  \E new \in Homes : OwnerInv(new)' /\ HomeInv(new)' /\ ViewInv(new)'
<1>0. PICK key : key = wg[p].public_key
  OBVIOUS
<1> DEFINE new == [home EXCEPT ![key] = p]
           Cache(r, k) == Lookup(Lookup(cache, r, EmptyMap), k, None)
<1>1. wpc = "run" /\ UNCHANGED <<peer, outbox, events_broadcast>> /\ peer = None /\ outbox = <<>>
  BY DEF watchdog_netns, WatchInv
<1>2. /\ p \in DOMAIN wg
      /\ wg[p] # None
      /\ stats' = [listen_port |-> p, public_key |-> key, peers |-> wg[p].peers]
      /\ cache' = With(cache, p, Lookup(cache, p, EmptyMap))
  BY <1>0, <1>1 DEF watchdog_netns
<1>3. stats'.listen_port = p /\ stats'.public_key = key
  BY <1>2
<1>4. key \in Pubkey /\ p \in Port
  BY <1>0, <1>2, NetworksDef DEF KernelInv
<1>5. owner' = With(owner, p, key)
  BY <1>1, <1>3 DEF History
<1>6. /\ DOMAIN owner' = DOMAIN owner \cup {p}
      /\ owner'[p] = key
      /\ \A r \in DOMAIN owner : r # p => owner'[r] = owner[r]
  BY <1>5 DEF With
<1>7. /\ DOMAIN cache' = DOMAIN cache \cup {p}
      /\ \A r \in DOMAIN cache : cache'[r] = cache[r]
      /\ p \notin DOMAIN cache => cache'[p] = EmptyMap
  BY <1>2 DEF With, Lookup
<1>8. new \in Homes /\ new[key] = p /\ \A n \in Pubkey : n # key => new[n] = home[n]
  BY <1>4 DEF Homes
<1> HIDE DEF new
<1>9. exact' => exact /\ ~HandedOver /\ ~FoundElsewhere
  BY DEF History
<1>10. ASSUME exact' PROVE p \in DOMAIN owner /\ owner[p] # key => CachedUp(p) = {}
  BY <1>1, <1>3, <1>9, <1>10 DEF HandedOver
<1>11. ASSUME exact', NEW r \in DOMAIN owner, r # p, owner[r] = key PROVE CachedUp(r) = {}
  BY <1>1, <1>3, <1>9, <1>11 DEF FoundElsewhere
<1>12. OwnerInv(new)'
  BY <1>3, <1>4, <1>6, <1>7, <1>8 DEF OwnerInv
<1>13. HomeInv(new)'
  <2> SUFFICES ASSUME exact', NEW r \in DOMAIN owner, r # p, new[owner[r]] # r PROVE CachedUp(r)' = {}
    BY <1>6, <1>8 DEF HomeInv
  <2>1. CachedUp(r) = {}
    BY <1>8, <1>9, <1>11 DEF HomeInv, OwnerInv
  <2> QED BY <1>7, <2>1 DEF CachedUp, Lookup, EmptyMap
<1>14. ASSUME NEW r, NEW k PROVE Tracked(r, k) = Cache(r, k) /\ Tracked(r, k)' = Cache(r, k)
  BY <1>1, <1>7 DEF Tracked, Lookup, EmptyMap
<1>15. ASSUME NEW r, NEW k, CachedUp(r) = {} PROVE ~IsUp(Cache(r, k))
  BY <1>15 DEF CachedUp, Lookup, IsUp, EmptyMap
<1>16. ASSUME NEW k, p \notin DOMAIN owner PROVE Cache(p, k) = None
  BY <1>16 DEF OwnerInv, Lookup, EmptyMap
<1>17. ~IsUp(None)
  BY DEF IsUp
<1> HIDE DEF Cache
<1>18. ASSUME exact', NEW n \in Pubkey, NEW k \in Pubkey
       PROVE  Agrees(Held(home, n, k), Held(new, n, k)')
  <2>1. CASE n = key
    <3>1. Held(new, n, k)' = Cache(p, k)
      BY <1>6, <1>8, <1>14, <2>1 DEF Held
    <3>2. CASE home[n] = p /\ p \in DOMAIN owner /\ owner[p] = key
      BY <1>14, <2>1, <3>1, <3>2 DEF Held, Agrees
    <3>3. CASE ~(home[n] = p /\ p \in DOMAIN owner /\ owner[p] = key)
      <4>1. ~IsUp(Held(home, n, k))
        BY <1>11, <1>14, <1>15, <1>17, <1>18, <2>1, <3>3 DEF Held
      <4>2. ~IsUp(Cache(p, k))
        BY <1>9, <1>10, <1>15, <1>16, <1>17, <1>18, <2>1, <3>3 DEF HomeInv
      <4> QED BY <3>1, <4>1, <4>2 DEF Agrees
    <3> QED BY <3>2, <3>3
  <2>2. CASE n # key /\ home[n] # p
    <3>1. Held(new, n, k)' = Held(home, n, k)
      BY <1>6, <1>8, <1>14, <2>2 DEF Held
    <3> QED BY <3>1 DEF Agrees
  <2>3. CASE n # key /\ home[n] = p
    <3>1. Held(new, n, k)' = None
      BY <1>6, <1>8, <2>3 DEF Held
    <3>2. ~IsUp(Held(home, n, k))
      BY <1>10, <1>14, <1>15, <1>17, <1>18, <2>3 DEF Held
    <3> QED BY <1>17, <3>1, <3>2 DEF Agrees
  <2> QED BY <2>1, <2>2, <2>3
<1>19. ViewInv(new)'
  BY <1>1, <1>9, <1>18, ViewIdle
<1> QED BY <1>8, <1>12, <1>13, <1>19
\* watchdog_peer: the events it finds tell the manager what it judged.
LEMMA ViewPeer ==
    ASSUME NEW home, WatchInv, ChannelInv, WatchTells, OwnerInv(home), ViewInv(home),
           NEW k \in left, watchdog_peer(k), History, view' = view
    PROVE  ViewInv(home)'
<1>0. PICK n : n = stats.public_key
  OBVIOUS
<1> DEFINE p == stats.listen_port
           q == Judged(stats.peers[k])
           previous == Previous(k)
           events   == EventsOf(previous, q, n, k)
           queue == events_broadcast.queue
<1>1. /\ wpc = "peers" /\ peer = None /\ outbox = <<>> /\ k \in DOMAIN stats.peers
      /\ stats' = stats /\ events_broadcast' = events_broadcast
  BY DEF watchdog_peer, WatchInv
<1>2. owner' = owner /\ (exact' => exact)
  BY <1>1 DEF History
<1>3. k \in Pubkey /\ q \in PeerStats /\ n \in Pubkey /\ p \in DOMAIN cache
  BY <1>0, <1>1, CacheHere, JudgedType
<1>4. previous \in PeerStats \cup {None} /\ Held(home, n, k) = previous
  BY <1>0, <1>1, PreviousType, HeldHere
<1>5. LiveTellsEndpoint(q)
  BY <1>1, JudgedTells DEF WatchTells
<1>6. events \in Seq(GatewayEvent)
  BY <1>3, <1>4, EventsType
<1>7. queue \in Seq(GatewayEvent) /\ OnTheirWay = queue
  BY <1>1, OnTheirWayType
<1>8. \/ wpc' \in {"peers", "panicked"} /\ UNCHANGED <<cache, peer, outbox>>
      \/ events = <<>> /\ Cached(k, q)
      \/ wpc' = "send" /\ peer' = [key |-> k, stats |-> q] /\ outbox' = events /\ UNCHANGED cache
  BY <1>0, <1>1 DEF watchdog_peer
<1> HIDE DEF q
<1>9. CASE wpc' \in {"peers", "panicked"} /\ UNCHANGED <<cache, peer, outbox>>
  <2>1. \A m, j \in Pubkey : Held(home, m, j)' = Held(home, m, j)
    BY <1>1, <1>2, <1>9 DEF Held, Tracked
  <2>2. \A m, j \in Pubkey : Agrees(Held(home, m, j), Held(home, m, j)')
    BY <2>1 DEF Agrees
  <2> QED BY <1>1, <1>2, <1>9, <2>2, ViewIdle
<1>10. ASSUME exact', outbox' = events, Held(home, n, k)' = q,
              \A m, j : ~(m = n /\ j = k) => Held(home, m, j)' = Held(home, m, j)
       PROVE  /\ ~events_broadcast'.lagged
              /\ \A m, j \in Pubkey : Knows(OnTheirWay', view', m, j, Held(home, m, j)')
              /\ Knows(queue, view, n, k, previous)
  <2>1. exact
    BY <1>2, <1>10
  <2>2. ~events_broadcast.lagged /\ \A m, j \in Pubkey : Knows(queue, view, m, j, Held(home, m, j))
    BY <1>7, <2>1 DEF ViewInv
  <2>3. Knows(queue, view, n, k, previous)
    BY <1>3, <1>4, <2>2
  <2>4. OnTheirWay' = queue \o events
    BY <1>1, <1>10 DEF OnTheirWay
  <2> HIDE DEF previous, queue
  <2>5. /\ Knows(queue \o events, view, n, k, q)
        /\ \A m, j : ~(m = n /\ j = k) =>
             /\ UpAfter(queue \o events, view, m, j) <=> UpAfter(queue, view, m, j)
             /\ AtAfter(queue \o events, view, m, j) = AtAfter(queue, view, m, j)
    BY <1>3, <1>4, <1>5, <1>7, <2>3, EventsTell
  <2> HIDE DEF events
  <2>6. ASSUME NEW m \in Pubkey, NEW j \in Pubkey
        PROVE  Knows(OnTheirWay', view', m, j, Held(home, m, j)')
    <3>1. CASE m = n /\ j = k
      <4>1. Held(home, m, j)' = q
        BY <1>10, <3>1
      <4> QED BY <2>4, <2>5, <3>1, <4>1
    <3>2. CASE ~(m = n /\ j = k)
      <4>1. Knows(queue, view, m, j, Held(home, m, j))
        BY <2>2
      <4>2. Held(home, m, j)' = Held(home, m, j)
        BY <1>10, <3>2
      <4>3. Knows(queue \o events, view, m, j, Held(home, m, j))
        BY <2>5, <3>2, <4>1 DEF Knows
      <4> QED BY <2>4, <4>2, <4>3
    <3> QED BY <3>1, <3>2
  <2>7. ~events_broadcast'.lagged
    BY <1>1, <2>2
  <2> QED BY <2>3, <2>6, <2>7
<1>11. CASE events = <<>> /\ Cached(k, q)
  <2>1. /\ DOMAIN cache' = DOMAIN cache
        /\ cache'[p] = With(cache[p], k, q)
        /\ \A r \in DOMAIN cache : r # p => cache'[r] = cache[r]
    BY <1>1, <1>3, <1>11, CachedType
  <2>2. outbox' = <<>> /\ wpc' = "peers" /\ peer' = None
    BY <1>11 DEF Cached
  <2>3. \A j : j # k => Lookup(cache'[p], j, None) = Lookup(cache[p], j, None)
    BY <2>1 DEF With, Lookup
  <2>4. \A m, j : ~(m = n /\ j = k) => Held(home, m, j)' = Held(home, m, j)
    BY <1>0, <1>1, <1>2, <2>1, <2>2, <2>3, HeldElsewhere
  <2>5. Held(home, n, k)' = q
    <3>1. home[n] = p /\ p \in DOMAIN owner /\ owner[p] = n
      BY <1>0, <1>1, OwnerHere
    <3>2. Lookup(cache'[p], k, None) = q
      BY <2>1 DEF With, Lookup
    <3> QED BY <1>1, <1>2, <1>3, <2>1, <2>2, <3>1, <3>2 DEF Held, Tracked, Lookup
  <2>6. outbox' = events
    BY <1>11, <2>2
  <2> HIDE DEF p, previous, events, queue
  <2> QED BY <1>2, <1>10, <2>2, <2>4, <2>5, <2>6 DEF ViewInv
<1>12. CASE wpc' = "send" /\ peer' = [key |-> k, stats |-> q] /\ outbox' = events /\ UNCHANGED cache
  <2>1. peer'.key = k /\ peer'.stats = q /\ peer' # None
    <3>1. peer' \in [key : Pubkey, stats : PeerStats]
      BY <1>3, <1>12
    <3> QED BY <1>12, <3>1, NoneAssumption
  <2>2. \A m, j : ~(m = n /\ j = k) => Held(home, m, j)' = Held(home, m, j)
    BY <1>0, <1>1, <1>2, <1>12, <2>1, HeldElsewhere
  <2>3. Held(home, n, k)' = q
    <3>1. home[n] = p /\ p \in DOMAIN owner /\ owner[p] = n
      BY <1>0, <1>1, OwnerHere
    <3> QED BY <1>1, <1>2, <2>1, <3>1 DEF Held, Tracked
  <2>4. Previous(peer.key)' = previous
    BY <1>1, <1>12, <2>1 DEF Previous
  <2>5. EventsNow' = events
    BY <1>0, <1>1, <2>1, <2>4 DEF EventsNow
  <2>6. Len(outbox') <= Len(EventsNow')
    <3>1. Len(events) \in Nat
      BY <1>6, LenProperties
    <3> QED BY <1>12, <2>5, <3>1
  <2>7. stats'.public_key = n /\ events_broadcast'.queue = queue
    BY <1>0, <1>1
  <2> HIDE DEF p, previous, events, queue
  <2> QED BY <1>10, <1>12, <2>1, <2>2, <2>3, <2>4, <2>6, <2>7 DEF ViewInv
<1> QED BY <1>8, <1>9, <1>11, <1>12

\* Global::event() with a receiver whose queue has room.
LEMMA Sent ==
    ASSUME ChannelInv, NEW e, ~events_broadcast.lagged,
           events_broadcast' = send(events_broadcast, BROADCAST_QUEUE_EVENTS, e), ~Overrun
    PROVE  events_broadcast'.queue = Append(events_broadcast.queue, e) /\ ~events_broadcast'.lagged
<1>1. events_broadcast \in Channel(GatewayEvent)
  BY DEF ChannelInv
<1> DEFINE full == Len(events_broadcast.queue) = BROADCAST_QUEUE_EVENTS
           queue == Append(IF full THEN Tail(events_broadcast.queue) ELSE events_broadcast.queue, e)
           lagged == events_broadcast.lagged \/ full
<1>2. events_broadcast' = [events_broadcast EXCEPT !.queue = queue, !.lagged = lagged]
  BY DEF send
<1>3. events_broadcast'.queue = queue /\ events_broadcast'.lagged = lagged
  <2> HIDE DEF queue, lagged
  <2> QED BY <1>1, <1>2 DEF Channel
<1>4. ~full
  BY <1>3 DEF Overrun
<1> QED BY <1>3, <1>4

\* watchdog_event: the event moves into the queue, or the peer is given up.
LEMMA ViewEvent ==
    ASSUME NEW home, WatchInv, ChannelInv, WatchTells, OwnerInv(home), ViewInv(home),
           watchdog_event, History, view' = view
    PROVE  ViewInv(home)'
<1>0. PICK n, k : n = stats.public_key /\ k = peer.key
  OBVIOUS
<1> DEFINE p == stats.listen_port
           q == peer.stats
           queue == events_broadcast.queue
<1> SUFFICES ASSUME exact' PROVE ViewInv(home)'
  BY DEF ViewInv
<1>1. /\ wpc = "send" /\ outbox # <<>> /\ outbox \in Seq(GatewayEvent)
      /\ peer \in [key : Pubkey, stats : PeerStats] /\ peer # None /\ stats' = stats
  BY NoneAssumption DEF watchdog_event, WatchInv
<1>2. owner' = owner /\ exact /\ ~HalfRefused /\ ~Overrun
  BY <1>1 DEF History
<1>3. k \in Pubkey /\ q \in PeerStats /\ n \in Pubkey /\ p \in DOMAIN cache
  BY <1>0, <1>1, CacheHere
<1>4. home[n] = p /\ p \in DOMAIN owner /\ owner[p] = n
  BY <1>0, <1>1, OwnerHere
<1>5. queue \in Seq(GatewayEvent) /\ Held(home, n, k) = q
  BY <1>0, <1>1, OnTheirWayType, HeldSending
<1>6. /\ ~events_broadcast.lagged
      /\ \A m, j \in Pubkey : Knows(queue \o outbox, view, m, j, Held(home, m, j))
      /\ Len(outbox) <= Len(EventsNow)
      /\ outbox = EventsNow => Knows(queue, view, n, k, Previous(k))
  BY <1>0, <1>1, <1>2 DEF ViewInv, OnTheirWay
<1>7. CASE events_broadcast.open
  <2>1. events_broadcast' = send(events_broadcast, BROADCAST_QUEUE_EVENTS, Head(outbox))
    BY <1>7 DEF watchdog_event
  <2>2. events_broadcast'.queue = Append(queue, Head(outbox)) /\ ~events_broadcast'.lagged
    BY <1>2, <1>6, <2>1, Sent
  <2>3. Append(queue, Head(outbox)) \o Tail(outbox) = queue \o outbox
    BY <1>1, <1>5, SentOnTheirWay
  <2>4. /\ Tail(outbox) \in Seq(GatewayEvent) /\ Len(Tail(outbox)) = Len(outbox) - 1 /\ Len(outbox) \in Nat
    BY <1>1, HeadTailProperties, LenProperties
  <2>5. CASE Len(outbox) = 1 /\ Cached(k, q)
    <3>1. Tail(outbox) = <<>>
      <4>1. Len(Tail(outbox)) = 0
        BY <2>4, <2>5
      <4> QED BY <2>4, <4>1, EmptySeq
    <3>2. outbox' = <<>> /\ wpc' = "peers" /\ peer' = None
      BY <2>5 DEF Cached
    <3>3. OnTheirWay' = queue \o outbox
      BY <2>2, <2>3, <3>1, <3>2 DEF OnTheirWay
    <3>4. /\ DOMAIN cache' = DOMAIN cache
          /\ cache'[p] = With(cache[p], k, q)
          /\ \A r \in DOMAIN cache : r # p => cache'[r] = cache[r]
      BY <1>1, <1>3, <2>5, CachedType
    <3>5. \A j : j # k => Lookup(cache'[p], j, None) = Lookup(cache[p], j, None)
      BY <3>4 DEF With, Lookup
    <3>6. \A m, j : ~(m = n /\ j = k) => Held(home, m, j)' = Held(home, m, j)
      BY <1>1, <1>2, <3>2, <3>4, <3>5, <1>0, HeldElsewhere
    <3>7. Held(home, n, k)' = q
      <4>1. Lookup(cache'[p], k, None) = q
        BY <3>4 DEF With, Lookup
      <4> QED BY <1>1, <1>2, <1>3, <1>4, <3>2, <3>4, <4>1 DEF Held, Tracked, Lookup
    <3>8. \A m, j : Held(home, m, j)' = Held(home, m, j)
      BY <1>5, <3>6, <3>7
    <3> HIDE DEF p, q, queue
    <3> QED BY <1>6, <2>2, <3>2, <3>3, <3>8 DEF ViewInv
  <2>6. CASE Len(outbox) # 1 /\ outbox' = Tail(outbox) /\ UNCHANGED <<cache, wpc, peer>>
    <3>1. OnTheirWay' = queue \o outbox
      BY <2>2, <2>3, <2>6 DEF OnTheirWay
    <3>2. \A m, j : Held(home, m, j)' = Held(home, m, j)
      BY <1>1, <1>2, <2>6 DEF Held, Tracked
    <3>3. EventsNow' = EventsNow
      BY <1>1, <2>6 DEF EventsNow, Previous
    <3>4. Len(EventsNow) \in Nat
      <4>1. Previous(k) \in PeerStats \cup {None}
        BY <1>1, PreviousType
      <4>2. EventsNow \in Seq(GatewayEvent)
        BY <1>3, <4>1, <1>0, EventsType DEF EventsNow
      <4> QED BY <4>2, LenProperties
    <3>5. Len(outbox') <= Len(EventsNow') /\ outbox' # EventsNow'
      BY <1>6, <2>4, <2>6, <3>3, <3>4
    <3> HIDE DEF p, q, queue
    <3> QED BY <1>6, <2>2, <3>1, <3>2, <3>5 DEF ViewInv
  <2> QED BY <1>0, <1>7, <2>5, <2>6 DEF watchdog_event
<1>8. CASE ~events_broadcast.open
  <2>1. outbox' = <<>> /\ wpc' = "peers" /\ peer' = None /\ UNCHANGED <<cache, events_broadcast>>
    BY <1>8 DEF watchdog_event
  <2>2. outbox = EventsNow
    BY <1>1, <1>2, <1>8, <2>1 DEF HalfRefused, Refused, EventsNow
  <2>3. Knows(queue, view, n, k, Previous(k))
    BY <1>6, <2>2
  <2>4. OnTheirWay' = queue
    <3>1. queue \o <<>> = queue
      BY <1>5, ConcatEmptySeq
    <3> QED BY <2>1, <3>1 DEF OnTheirWay
  <2>5. Previous(k) \in PeerStats \cup {None} /\ LiveTellsEndpoint(q)
    BY <1>1, PreviousType DEF WatchTells
  <2>6. \A m, j : ~(m = n /\ j = k) =>
             /\ UpAfter(queue \o outbox, view, m, j) <=> UpAfter(queue, view, m, j)
             /\ AtAfter(queue \o outbox, view, m, j) = AtAfter(queue, view, m, j)
    <3>1. outbox = EventsOf(Previous(k), q, n, k)
      BY <1>0, <2>2 DEF EventsNow
    <3> HIDE DEF p, q, queue
    <3> QED BY <1>3, <1>5, <2>3, <2>5, <3>1, EventsTell
  <2>7. \A m, j : ~(m = n /\ j = k) => Held(home, m, j)' = Held(home, m, j)
    BY <1>1, <1>2, <2>1, <1>0, HeldElsewhere
  <2>8. Held(home, n, k)' = Previous(k)
    BY <1>2, <1>3, <1>4, <2>1 DEF Held, Tracked, Lookup, Previous
  <2>9. ASSUME NEW m \in Pubkey, NEW j \in Pubkey
        PROVE  Knows(OnTheirWay', view', m, j, Held(home, m, j)')
    <3>1. CASE m = n /\ j = k
      <4>1. Held(home, m, j)' = Previous(k)
        BY <2>8, <3>1
      <4> QED BY <2>3, <2>4, <3>1, <4>1
    <3>2. CASE ~(m = n /\ j = k)
      <4>1. Knows(queue \o outbox, view, m, j, Held(home, m, j))
        BY <1>6
      <4>2. Held(home, m, j)' = Held(home, m, j)
        BY <2>7, <3>2
      <4>3. Knows(queue, view, m, j, Held(home, m, j))
        BY <2>6, <3>2, <4>1 DEF Knows
      <4> QED BY <2>4, <4>2, <4>3
    <3> QED BY <3>1, <3>2
  <2> QED BY <1>6, <2>1, <2>9 DEF ViewInv
<1> QED BY <1>7, <1>8
\* dead_peer: the event follows the peer out of the cache.
LEMMA ViewDeadPeer ==
    ASSUME NEW home, WatchInv, ChannelInv, OwnerInv(home), ViewInv(home),
           NEW k \in left, dead_peer(k), History, view' = view
    PROVE  ViewInv(home)'
<1>0. PICK n : n = stats.public_key
  OBVIOUS
<1> DEFINE p == stats.listen_port
           queue == events_broadcast.queue
           D == PeerDisconnected(n, k)
<1> SUFFICES ASSUME exact' PROVE ViewInv(home)'
  BY DEF ViewInv
<1>1. /\ wpc = "dead" /\ peer = None /\ outbox = <<>> /\ peer' = None /\ outbox' = <<>>
      /\ wpc' \in {"run", "dead"} /\ k \in DOMAIN cache[p]
  BY DEF dead_peer, WatchInv, Bury
<1>2. owner' = owner /\ exact /\ ~DeadUnheard /\ ~Overrun
  BY <1>1 DEF History
<1>3. n \in Pubkey /\ p \in DOMAIN cache /\ k \in Pubkey
  <2>1. p \in DOMAIN cache /\ n \in Pubkey /\ cache[p] \in FiniteMaps(Pubkey, PeerStats)
    BY <1>0, <1>1, CacheHere
  <2>2. DOMAIN cache[p] \subseteq Pubkey
    BY <2>1, FiniteMapDef
  <2> QED BY <1>1, <2>1, <2>2
<1>4. home[n] = p /\ p \in DOMAIN owner /\ owner[p] = n
  BY <1>0, <1>1, OwnerHere
<1>5. /\ DOMAIN cache' = DOMAIN cache
      /\ cache'[p] = Without(cache[p], k)
      /\ DOMAIN cache'[p] = DOMAIN cache[p] \ {k}
      /\ \A r \in DOMAIN cache : r # p => cache'[r] = cache[r]
  BY RemovedType
<1>6. \A j : j # k => Lookup(cache'[p], j, None) = Lookup(cache[p], j, None)
  BY <1>5 DEF Without, Lookup
<1>7. \A m, j : ~(m = n /\ j = k) => Held(home, m, j)' = Held(home, m, j)
  BY <1>0, <1>1, <1>2, <1>5, <1>6, HeldElsewhere
<1>8. Held(home, n, k)' = None
  <2>1. Lookup(cache'[p], k, None) = None
    BY <1>5 DEF Lookup
  <2> QED BY <1>1, <1>2, <1>3, <1>4, <1>5, <2>1 DEF Held, Tracked, Lookup
<1>9. /\ ~events_broadcast.lagged /\ queue \in Seq(GatewayEvent) /\ OnTheirWay = queue
      /\ \A m, j \in Pubkey : Knows(queue, view, m, j, Held(home, m, j))
  BY <1>1, <1>2, OnTheirWayType DEF ViewInv
<1>10. CASE events_broadcast.open
  <2>1. events_broadcast' = send(events_broadcast, BROADCAST_QUEUE_EVENTS, D)
    BY <1>0, <1>10 DEF dead_peer
  <2>2. events_broadcast'.queue = Append(queue, D) /\ ~events_broadcast'.lagged
    BY <1>2, <1>9, <2>1, Sent
  <2>3. D \in GatewayEvent /\ D.type = "disconnected" /\ D.network = n /\ D.peer = k
    BY <1>3 DEF PeerDisconnected, GatewayEvent
  <2> HIDE DEF D
  <2>4. OnTheirWay' = Append(queue, D)
    <3>1. Append(queue, D) \in Seq(GatewayEvent)
      BY <1>9, <2>3, AppendProperties
    <3>2. Append(queue, D) \o <<>> = Append(queue, D)
      BY <3>1, ConcatEmptySeq
    <3> QED BY <1>1, <2>2, <3>2 DEF OnTheirWay
  <2> HIDE DEF queue
  <2>5. ~UpAfter(Append(queue, D), view, n, k)
    BY <1>9, <2>3, Appended
  <2>6. ASSUME NEW m \in Pubkey, NEW j \in Pubkey
        PROVE  Knows(OnTheirWay', view', m, j, Held(home, m, j)')
    <3>1. CASE m = n /\ j = k
      <4>1. Held(home, m, j)' = None
        BY <1>8, <3>1
      <4> QED BY <2>4, <2>5, <3>1, <4>1 DEF Knows, IsUp
    <3>2. CASE ~(m = n /\ j = k)
      <4>1. /\ UpAfter(Append(queue, D), view, m, j) <=> UpAfter(queue, view, m, j)
            /\ AtAfter(Append(queue, D), view, m, j) = AtAfter(queue, view, m, j)
        BY <1>9, <2>3, <3>2, Appended
      <4>2. Knows(Append(queue, D), view, m, j, Held(home, m, j))
        BY <1>9, <4>1 DEF Knows
      <4>3. Held(home, m, j)' = Held(home, m, j)
        BY <1>7, <3>2
      <4> QED BY <2>4, <4>2, <4>3
    <3> QED BY <3>1, <3>2
  <2> QED BY <1>1, <2>2, <2>6 DEF ViewInv
<1>11. CASE ~events_broadcast.open
  <2>1. events_broadcast' = events_broadcast
    BY <1>11 DEF dead_peer
  <2>2. k \notin CachedUp(p)
    BY <1>1, <1>2, <1>5, <1>11 DEF DeadUnheard
  <2>3. ~IsUp(Held(home, n, k))
    <3>1. Held(home, n, k) = cache[p][k]
      BY <1>0, <1>1, HeldHere, PreviousType
    <3> QED BY <1>1, <1>3, <2>2, <3>1 DEF CachedUp, IsUp, Lookup
  <2>4. ASSUME NEW m \in Pubkey, NEW j \in Pubkey
        PROVE  Agrees(Held(home, m, j), Held(home, m, j)')
    <3>1. CASE m = n /\ j = k
      <4>1. Held(home, m, j)' = None
        BY <1>8, <3>1
      <4> QED BY <2>3, <3>1, <4>1 DEF Agrees, IsUp
    <3>2. CASE ~(m = n /\ j = k)
      BY <1>7, <3>2 DEF Agrees
    <3> QED BY <3>1, <3>2
  <2> QED BY <1>1, <1>2, <2>1, <2>4, ViewIdle
<1> QED BY <1>10, <1>11

\* ForwardEvent: what the manager learns is no longer on its way.
LEMMA ViewForward ==
    ASSUME NEW home, WatchInv, ChannelInv, ViewInv(home),
           UNCHANGED <<cache, owner, peer, outbox, wpc, stats>>, exact' => exact,
           events_broadcast.queue # <<>>,
           view' = Learn(view, Head(events_broadcast.queue)),
           events_broadcast' = Received(events_broadcast)
    PROVE  ViewInv(home)'
<1> DEFINE queue == events_broadcast.queue
           s == queue \o outbox
<1> SUFFICES ASSUME exact' PROVE ViewInv(home)'
  BY DEF ViewInv
<1>1. events_broadcast \in Channel(GatewayEvent)
  BY DEF ChannelInv
<1>2. events_broadcast'.queue = Tail(queue) /\ events_broadcast'.lagged = events_broadcast.lagged
  BY <1>1 DEF Received, Channel
<1>3. queue \in Seq(GatewayEvent) /\ outbox \in Seq(GatewayEvent)
  BY OnTheirWayType
<1>4. /\ s \in Seq(GatewayEvent) /\ s # <<>>
      /\ Head(s) = Head(queue)
      /\ Tail(s) = Tail(queue) \o outbox
  BY <1>3, TakenOnTheirWay
<1>5. OnTheirWay' = Tail(s) /\ view' = Learn(view, Head(s))
  BY <1>2, <1>4 DEF OnTheirWay
<1>6. /\ ~events_broadcast.lagged
      /\ \A m, j \in Pubkey : Knows(s, view, m, j, Held(home, m, j))
      /\ wpc = "send" =>
           /\ Len(outbox) <= Len(EventsNow)
           /\ outbox = EventsNow => Knows(queue, view, stats.public_key, peer.key, Previous(peer.key))
  BY DEF ViewInv, OnTheirWay
<1>7. \A m, j : Held(home, m, j)' = Held(home, m, j)
  BY DEF Held, Tracked
<1>8. EventsNow' = EventsNow /\ Previous(peer.key)' = Previous(peer.key)
  BY DEF EventsNow, Previous
<1> HIDE DEF s, queue
<1>9. ASSUME NEW m, NEW j, NEW x, Knows(s, view, m, j, x)
      PROVE  Knows(Tail(s), Learn(view, Head(s)), m, j, x)
  BY <1>4, <1>9, Learned DEF Knows
<1>10. ASSUME NEW m, NEW j, NEW x, Knows(queue, view, m, j, x)
       PROVE  Knows(Tail(queue), Learn(view, Head(queue)), m, j, x)
  <2>1. queue # <<>>
    BY DEF queue
  <2> QED BY <1>3, <1>10, <2>1, Learned DEF Knows
<1>11. \A m, j \in Pubkey : Knows(OnTheirWay', view', m, j, Held(home, m, j)')
  BY <1>5, <1>6, <1>7, <1>9
<1>12. wpc' = "send" =>
           /\ Len(outbox') <= Len(EventsNow')
           /\ outbox' = EventsNow' =>
                Knows(events_broadcast'.queue, view', stats'.public_key, peer'.key, Previous(peer.key)')
  <2>1. view' = Learn(view, Head(queue))
    BY DEF queue
  <2> QED BY <1>2, <1>6, <1>8, <1>10, <2>1
<1> QED BY <1>2, <1>6, <1>11, <1>12 DEF ViewInv

\* The websocket task and the manager.
LEMMA ViewServe ==
    ASSUME NEW home, WatchInv, ChannelInv, ViewInv(home),
           Serve(WebsocketStep) \/ Serve(ConnectionLost) \/ Manage
    PROVE  ViewInv(home)'
<1>1. UNCHANGED watchdogVars /\ History
  BY DEF Serve, Manage
<1>2. UNCHANGED <<cache, owner, peer, outbox, wpc, stats>> /\ (exact' => exact /\ ~DroppedUnread)
  BY <1>1 DEF History, watchdogVars, localVars
<1>3. exact => ~events_broadcast.lagged
  BY DEF ViewInv
<1>4. CASE UNCHANGED <<events_broadcast, view>>
  BY <1>2, <1>3, <1>4, ViewStays
<1>5. CASE events_broadcast' = Unsubscribed /\ view' = view
  <2>1. events_broadcast'.queue = <<>> /\ ~events_broadcast'.lagged /\ ~events_broadcast'.open
    BY <1>5 DEF Unsubscribed
  <2>2. exact' => events_broadcast.queue = <<>>
    BY <1>2, <2>1 DEF DroppedUnread
  <2> QED BY <1>2, <1>5, <2>1, <2>2, ViewStays
<1>6. CASE subscribe_events
  <2>1. conn = "half" /\ view' = view /\ events_broadcast' = subscribe
    BY <1>6 DEF subscribe_events
  <2>2. events_broadcast = Unsubscribed
    BY <2>1 DEF ChannelInv, IsChannel
  <2>3. events_broadcast'.queue = events_broadcast.queue /\ ~events_broadcast'.lagged
    BY <2>1, <2>2 DEF subscribe, Unsubscribed
  <2> QED BY <1>2, <2>1, <2>3, ViewStays
<1>7. CASE ForwardEvent
  <2>1. CASE /\ view' = Learn(view, Head(events_broadcast.queue))
             /\ events_broadcast' = Received(events_broadcast)
    <3>1. events_broadcast.queue # <<>>
      BY <1>7 DEF ForwardEvent
    <3> QED BY <1>2, <2>1, <3>1, ViewForward
  <2>2. CASE Dropped /\ UNCHANGED view
    BY <1>5, <2>2 DEF Dropped
  <2> QED BY <1>7, <2>1, <2>2 DEF ForwardEvent
<1>8. CASE connect_run
  BY <1>4, <1>8 DEF connect_run
<1>9. CASE NextMessage
  <2>1. view' = view /\ Read(Head(inbox)) /\ Head(inbox) \in Request
    <3>1. inbox \in Seq(Request) /\ inbox # <<>>
      BY <1>9 DEF NextMessage, ChannelInv
    <3> QED BY <1>9, <3>1, HeadTailProperties DEF NextMessage
  <2>2. events_broadcast' = events_broadcast \/ events_broadcast' = Unsubscribed
    BY <2>1 DEF Read, Request, Dropped, Exited
  <2> QED BY <1>4, <1>5, <2>1, <2>2
<1>10. CASE ApplyReturns
  <2>1. view' = view /\ (events_broadcast' = events_broadcast \/ events_broadcast' = Unsubscribed)
    BY <1>10 DEF ApplyReturns, Dropped, Exited
  <2> QED BY <1>4, <1>5, <2>1
<1>11. CASE ForwardTraffic
  <2>1. view' = view /\ (events_broadcast' = events_broadcast \/ events_broadcast' = Unsubscribed)
    BY <1>11 DEF ForwardTraffic, Dropped
  <2> QED BY <1>4, <1>5, <2>1
<1>12. CASE ConnectionLost
  BY <1>5, <1>12 DEF ConnectionLost, Dropped
<1>13. CASE Manage
  BY <1>4, <1>13 DEF Manage, Serve, ManagerSends
<1> QED BY <1>6, <1>7, <1>8, <1>9, <1>10, <1>11, <1>12, <1>13 DEF Serve, WebsocketStep

\* Every step but a visit to another namespace keeps the view with the same homes.
LEMMA ViewNext ==
    ASSUME NEW home, TypeInv, WatchTells, OwnerInv(home), ViewInv(home), [Next]_vars,
           ~(wpc = "run" /\ wpc' = "peers")
    PROVE  ViewInv(home)'
<1>0. KernelInv /\ WatchInv /\ ChannelInv
  BY DEF TypeInv
<1>1. CASE UNCHANGED <<cache, owner, peer, outbox, wpc, stats, view, events_broadcast, exact>>
  <2>1. exact => ~events_broadcast.lagged
    BY DEF ViewInv
  <2> QED BY <1>1, <2>1, ViewStays
<1>2. CASE Watch
  <2>1. History /\ view' = view /\ (WatchdogStep \/ Tick)
    BY <1>2 DEF Watch, websocketVars
  <2>2. CASE Tick
    <3>1. /\ UNCHANGED <<cache, peer, outbox, wpc, stats, events_broadcast>>
          /\ owner' = owner /\ (exact' => exact)
      BY <2>1, <2>2 DEF Tick, localVars, History
    <3>2. exact => ~events_broadcast.lagged
      BY DEF ViewInv
    <3> QED BY <2>1, <3>1, <3>2, ViewStays
  <2>3. CASE watchdog_run \/ send_traffic
    BY <1>0, <2>1, <2>3, ViewRun
  <2>4. CASE dead_peers
    BY <1>0, <2>1, <2>4, ViewDeadPeers
  <2>5. CASE watchdog_event
    BY <1>0, <2>1, <2>5, ViewEvent
  <2>6. ASSUME NEW p \in names, watchdog_netns(p) PROVE ViewInv(home)'
    <3>1. /\ UNCHANGED <<cache, peer, outbox, wpc, stats, events_broadcast>>
          /\ owner' = owner /\ (exact' => exact)
      BY <2>1, <2>6 DEF watchdog_netns, History
    <3>2. exact => ~events_broadcast.lagged
      BY DEF ViewInv
    <3> QED BY <2>1, <3>1, <3>2, ViewStays
  <2>7. ASSUME NEW k \in left, watchdog_peer(k) PROVE ViewInv(home)'
    BY <1>0, <2>1, <2>7, ViewPeer
  <2>8. ASSUME NEW k \in left, dead_peer(k) PROVE ViewInv(home)'
    BY <1>0, <2>1, <2>8, ViewDeadPeer
  <2> QED BY <2>1, <2>2, <2>3, <2>4, <2>5, <2>6, <2>7, <2>8 DEF WatchdogStep
<1>3. CASE Serve(WebsocketStep) \/ Serve(ConnectionLost) \/ Manage
  BY <1>0, <1>3, ViewServe
<1>4. CASE Restart
  <2>1. /\ wpc' = "tick" /\ peer' = None /\ outbox' = <<>> /\ cache' = EmptyMap /\ owner' = owner
        /\ UNCHANGED <<events_broadcast, view>>
        /\ exact' => exact /\ ~Forgotten /\ peer = None
    BY <1>4 DEF Restart
  <2>2. CASE exact'
    BY <1>0, <2>1, <2>2, ViewForgotten
  <2>3. CASE ~exact'
    BY <2>3 DEF ViewInv
  <2> QED BY <2>2, <2>3
<1>5. CASE Kernel
  BY <1>1, <1>5 DEF Kernel, Handshake, Transfer, ClockMoves, KernelFrame, watchdogVars, localVars, websocketVars
<1>6. CASE Reconfigure
  BY <1>1, <1>6 DEF Reconfigure, NetnsDel, NetnsAdd, Syncconf, KernelFrame, watchdogVars, localVars, websocketVars
<1>7. CASE UNCHANGED vars
  BY <1>1, <1>7 DEF vars, watchdogVars, localVars, historyVars, websocketVars
<1> QED BY <1>2, <1>3, <1>4, <1>5, <1>6, <1>7 DEF Next
\* A daemon that starts has told the manager nothing, and has nothing to tell.
LEMMA FollowInit ==
    ASSUME Init
    PROVE  Follows
<1> DEFINE none == [n \in Pubkey |-> None]
<1>0. PICK home : home = none
  OBVIOUS
<1>1. /\ wpc = "tick" /\ cache = EmptyMap /\ owner = EmptyMap /\ peer = None /\ outbox = <<>>
      /\ view = NoView /\ events_broadcast = Unsubscribed /\ wg \in Found
  BY DEF Init, WatchdogLaunched, WebsocketInit
<1>2. KernelTells
  BY <1>1, FoundAssumption DEF KernelTells
<1>3. WatchTells
  BY <1>1 DEF WatchTells, EmptyMap
<1>4. home \in Homes
  BY <1>0 DEF Homes
<1>5. OwnerInv(home) /\ HomeInv(home)
  BY <1>1 DEF OwnerInv, HomeInv, EmptyMap
<1>6. ViewInv(home)
  <2>1. OnTheirWay = <<>> /\ ~events_broadcast.lagged
    <3>1. <<>> \in Seq(GatewayEvent)
      OBVIOUS
    <3>2. <<>> \o <<>> = <<>>
      BY <3>1, ConcatEmptySeq
    <3> QED BY <1>1, <3>2 DEF OnTheirWay, Unsubscribed
  <2>2. ASSUME NEW n \in Pubkey, NEW k \in Pubkey
        PROVE  Knows(OnTheirWay, view, n, k, Held(home, n, k))
    <3>1. Held(home, n, k) = None
      BY <1>1 DEF Held, EmptyMap
    <3>2. <<>> \in Seq(GatewayEvent) /\ Len(<<>>) = 0
      BY EmptySeq
    <3>3. LastIn(<<>>, {"connected", "disconnected"}, n, k) = None
      <4>1. DOMAIN <<>> = {}
        BY <3>2, LenProperties
      <4> QED BY <4>1 DEF LastIn
    <3>4. ~UpAfter(<<>>, view, n, k)
      BY <1>1, <3>3 DEF UpAfter, NoView
    <3> QED BY <2>1, <3>1, <3>4 DEF Knows, IsUp
  <2> QED BY <1>1, <2>1, <2>2 DEF ViewInv
<1> QED BY <1>2, <1>3, <1>4, <1>5, <1>6 DEF Follows, FollowInv, EndpointInv

\* Every step keeps what the view follows from.
LEMMA FollowNext ==
    ASSUME TypeInv, Follows, [Next]_vars
    PROVE  Follows'
<1>0. PICK home \in Homes : FollowInv(home)
  BY DEF Follows
<1>1. /\ KernelInv /\ WatchInv /\ ChannelInv /\ KernelTells /\ WatchTells
      /\ OwnerInv(home) /\ HomeInv(home) /\ ViewInv(home)
  BY <1>0 DEF TypeInv, FollowInv, EndpointInv
<1>2. KernelTells' /\ WatchTells'
  BY <1>1, KernelTellsNext, WatchTellsNext
<1>3. \E new \in Homes : OwnerInv(new)' /\ HomeInv(new)' /\ ViewInv(new)'
  <2>1. CASE ~(wpc = "run" /\ wpc' = "peers")
    BY <1>1, <2>1, OwnerNext, HomeNext, ViewNext
  <2>2. CASE wpc = "run" /\ wpc' = "peers"
    <3>1. \E p \in names : watchdog_netns(p) /\ History /\ view' = view
      BY <2>2 DEF Next, Watch, WatchdogStep, websocketVars, watchdog_run, watchdog_peer, dead_peer, watchdog_event,
             dead_peers, send_traffic, Tick, localVars, Serve, Manage, watchdogVars, Kernel, Handshake, Transfer,
             ClockMoves, Reconfigure, NetnsDel, NetnsAdd, Syncconf, KernelFrame, Restart, vars, Relaunch
    <3> QED BY <1>1, <2>2, <3>1, FoundNext
  <2> QED BY <2>1, <2>2
<1> QED BY <1>2, <1>3 DEF Follows, FollowInv, EndpointInv

\* The view that is kept by peer and network is the one by peer and port.
LEMMA FollowImplies ==
    ASSUME TypeInv, Follows
    PROVE  ViewFollowsCache
<1>0. PICK home \in Homes : FollowInv(home)
  BY DEF Follows
<1> SUFFICES ASSUME exact PROVE ViewFollowsCache
  BY DEF ViewFollowsCache
<1>1. OwnerInv(home) /\ HomeInv(home) /\ \A n, k \in Pubkey : Knows(OnTheirWay, view, n, k, Held(home, n, k))
  BY <1>0 DEF FollowInv, ViewInv
<1>2. ASSUME NEW n, NEW k
      PROVE  (WillBeUp(n, k) <=> UpAfter(OnTheirWay, view, n, k)) /\ WillBeAt(n, k) = AtAfter(OnTheirWay, view, n, k)
  BY DEF WillBeUp, WillBeAt, UpAfter, AtAfter, LastOf, LastIn, Concerns
<1>3. ASSUME NEW n \in Pubkey, NEW k \in Pubkey, WillBeUp(n, k)
      PROVE  \E x \in TrackedUp : <<n, k>> = <<owner[x[1]], x[2]>>
  <2>1. IsUp(Held(home, n, k))
    BY <1>1, <1>2, <1>3 DEF Knows
  <2>2. home[n] \in DOMAIN owner /\ owner[home[n]] = n /\ Held(home, n, k) = Tracked(home[n], k)
    BY <2>1 DEF Held, IsUp
  <2> DEFINE x == <<home[n], k>>
  <2>3. x \in TrackedUp
    BY <2>1, <2>2 DEF TrackedUp, IsUp
  <2>4. x[1] = home[n] /\ x[2] = k
    OBVIOUS
  <2> HIDE DEF x
  <2> QED BY <2>2, <2>3, <2>4
<1>4. ASSUME NEW x \in TrackedUp
      PROVE  /\ owner[x[1]] \in Pubkey /\ x[2] \in Pubkey
             /\ WillBeUp(owner[x[1]], x[2])
             /\ WillBeAt(owner[x[1]], x[2]) = Tracked(x[1], x[2]).endpoint
  <2>1. PICK p \in DOMAIN owner, k \in Pubkey : x = <<p, k>>
    BY DEF TrackedUp
  <2>2. x[1] = p /\ x[2] = k
    BY <2>1
  <2>3. IsUp(Tracked(p, k))
    BY <2>2 DEF TrackedUp, IsUp
  <2>4. owner[p] \in Pubkey /\ home[owner[p]] = p
    <3>1. CASE peer # None /\ stats.listen_port = p
      <4>1. wpc = "send"
        BY <3>1 DEF TypeInv, WatchInv
      <4> QED BY <1>1, <3>1, <4>1 DEF OwnerInv
    <3>2. CASE ~(peer # None /\ stats.listen_port = p)
      <4>1. k \in CachedUp(p)
        BY <2>3, <3>2 DEF Tracked, CachedUp, Lookup, EmptyMap, IsUp
      <4> QED BY <1>1, <4>1 DEF OwnerInv, HomeInv
    <3> QED BY <3>1, <3>2
  <2>5. Held(home, owner[p], k) = Tracked(p, k)
    BY <2>4 DEF Held
  <2>6. Knows(OnTheirWay, view, owner[p], k, Tracked(p, k))
    BY <1>1, <2>4, <2>5
  <2> QED BY <1>2, <2>2, <2>3, <2>4, <2>6 DEF Knows
<1>5. { x \in Pubkey \X Pubkey : WillBeUp(x[1], x[2]) } = { <<owner[x[1]], x[2]>> : x \in TrackedUp }
  <2>1. ASSUME NEW y \in Pubkey \X Pubkey, WillBeUp(y[1], y[2])
        PROVE  y \in { <<owner[x[1]], x[2]>> : x \in TrackedUp }
    <3>1. y = <<y[1], y[2]>> /\ y[1] \in Pubkey /\ y[2] \in Pubkey
      BY <2>1
    <3>2. PICK x \in TrackedUp : <<y[1], y[2]>> = <<owner[x[1]], x[2]>>
      BY <1>3, <2>1, <3>1
    <3> QED BY <3>1, <3>2
  <2>2. ASSUME NEW x \in TrackedUp
        PROVE  <<owner[x[1]], x[2]>> \in { y \in Pubkey \X Pubkey : WillBeUp(y[1], y[2]) }
    <3> DEFINE y == <<owner[x[1]], x[2]>>
    <3>1. y \in Pubkey \X Pubkey /\ y[1] = owner[x[1]] /\ y[2] = x[2]
      BY <1>4
    <3>2. WillBeUp(y[1], y[2])
      BY <1>4, <3>1
    <3> HIDE DEF y
    <3>3. y \in { z \in Pubkey \X Pubkey : WillBeUp(z[1], z[2]) }
      BY <3>1, <3>2
    <3> QED BY <3>3 DEF y
  <2> QED BY <2>1, <2>2
<1> QED BY <1>4, <1>5 DEF ViewFollowsCache
\* The events of watchdog_peer and of the dead peers, in the order they are sent
\* and whatever the websocket task, the kernel and applies do in between, tell
\* the manager exactly which peers the cache has as connected, and where - unless
\* one of the seven things happened that `exact' remembers. For any number of
\* networks, ports, peers and reconnections and any capacity of the queue.
THEOREM EventsTellTheCache == Spec => []ViewFollowsCache
<1>1. Init => Follows
  BY FollowInit
<1>2. TypeInv /\ Follows /\ [Next]_vars => Follows'
  BY FollowNext
<1>3. TypeInv /\ Follows => ViewFollowsCache
  BY FollowImplies
<1> QED BY <1>1, <1>2, <1>3, TypeInvariant, PTL DEF Spec

-----------------------------------------------------------------------------
\* Whatever watchdog_peer unwraps is there: a peer that counts as connected had a
\* handshake, and the statistics that tell so were fetched with its endpoint.
LEMMA PanicNext ==
    ASSUME WatchInv, WatchTells, WatchdogNeverPanics, [Next]_vars
    PROVE  WatchdogNeverPanics'
<1> SUFFICES ASSUME ~OverflowChecks, wpc # "panicked" PROVE wpc' # "panicked"
  BY DEF WatchdogNeverPanics
<1>1. CASE wpc' \in {wpc, "tick", "run", "peers", "send", "dead"}
  BY <1>1
<1>2. ASSUME NEW k \in left, watchdog_peer(k) PROVE wpc' # "panicked"
  <2> DEFINE q        == Judged(stats.peers[k])
             previous == Previous(k)
  <2>1. wpc = "peers" /\ k \in DOMAIN stats.peers
    BY <1>2 DEF watchdog_peer, WatchInv
  <2>2. LiveTellsEndpoint(q)
    BY <2>1, JudgedTells DEF WatchTells
  <2>3. \/ Panics(previous, q)
        \/ wpc' \in {wpc, "send"}
        \/ Cached(k, q)
    BY <1>2 DEF watchdog_peer
  <2> HIDE DEF q, previous
  <2>4. ~Panics(previous, q)
    BY <2>2 DEF Panics, LiveTellsEndpoint
  <2> QED BY <2>1, <2>3, <2>4 DEF Cached
<1>3. ASSUME NEW k, dead_peer(k) PROVE wpc' # "panicked"
  BY <1>3 DEF dead_peer, Bury
<1>4. ASSUME NEW p, watchdog_netns(p) PROVE wpc' # "panicked"
  BY <1>4 DEF watchdog_netns
<1>5. CASE watchdog_event
  BY <1>1, <1>5 DEF watchdog_event, Cached
<1>6. CASE watchdog_run \/ dead_peers \/ send_traffic \/ Tick
  BY <1>1, <1>6 DEF watchdog_run, Relaunch, dead_peers, Bury, send_traffic, Tick, localVars
<1>7. CASE Watch
  BY <1>2, <1>3, <1>4, <1>5, <1>6, <1>7 DEF Watch, WatchdogStep
<1>8. CASE wpc' = wpc
  BY <1>8
<1>9. CASE Restart
  BY <1>9 DEF Restart
<1>10. CASE Serve(WebsocketStep) \/ Serve(ConnectionLost) \/ Manage \/ UNCHANGED vars
  BY <1>8, <1>10 DEF Serve, Manage, watchdogVars, localVars, vars
<1>11. CASE Kernel \/ Reconfigure
  BY <1>8, <1>11 DEF Kernel, Handshake, Transfer, ClockMoves, Reconfigure, NetnsDel, NetnsAdd, Syncconf,
         KernelFrame, watchdogVars, localVars
<1> QED BY <1>7, <1>9, <1>10, <1>11 DEF Next

\* In a build without overflow checks the watchdog task never panics: for any
\* clock, applies, restarts and interleaving, the endpoint that watchdog_peer
\* unwraps is there, which nothing in src/watchdog.rs checks.
THEOREM WatchdogSurvives == Spec => []WatchdogNeverPanics
<1>1. Init => EndpointInv /\ WatchdogNeverPanics
  <2> SUFFICES ASSUME Init PROVE EndpointInv /\ WatchdogNeverPanics
    OBVIOUS
  <2>1. wpc = "tick" /\ cache = EmptyMap /\ wg \in Found
    BY DEF Init, WatchdogLaunched
  <2>2. KernelTells
    BY <2>1, FoundAssumption DEF KernelTells
  <2>3. WatchTells
    BY <2>1 DEF WatchTells, EmptyMap
  <2> QED BY <2>1, <2>2, <2>3 DEF EndpointInv, WatchdogNeverPanics
<1>2. TypeInv /\ EndpointInv /\ WatchdogNeverPanics /\ [Next]_vars => (EndpointInv /\ WatchdogNeverPanics)'
  BY KernelTellsNext, WatchTellsNext, PanicNext DEF TypeInv, EndpointInv
<1> QED BY <1>1, <1>2, TypeInvariant, PTL DEF Spec

=============================================================================
