------------------------- MODULE DaemonTrafficProofs ------------------------
(***************************************************************************)
(* Traffic accounting: no byte is reported twice (ReportedOnce), for any   *)
(* ports, peers, applies, reconnections, restarts and clocks.              *)
(*                                                                         *)
(* ReportedOnce compares the bytes a peer has generated with the ones      *)
(* reported and on their way.  It is not inductive: the bytes by which the *)
(* kernel's counters are ahead of the cache will be reported, too, and     *)
(* while a namespace is visited there are three generations of counters:   *)
(* the kernel's, the ones fetched, and the ones in the cache.  Ledger adds *)
(* what is still to come of all ports.                                     *)
(***************************************************************************)
EXTENDS DaemonProofs

-----------------------------------------------------------------------------
(***************************************************************************)
(* Sums over maps and sequences of naturals (Traffic!SumOf): what an       *)
(* insertion, a larger value, an append and a tail do to them.  A sum      *)
(* counts units, so that these are facts about cardinalities.              *)
(***************************************************************************)

\* The units that one value contributes.
Column(x, n) == {x} \X (1 .. n)

\* A unit is a key and a number up to its value.
LEMMA UnitsMember ==
    ASSUME NEW f, NEW u
    PROVE  u \in Units(f) <=> \E x \in DOMAIN f : \E i \in 1 .. f[x] : u = <<x, i>>
BY DEF Units

\* The units of one key are as many as its value.
LEMMA ColumnSize ==
    ASSUME NEW x, NEW n \in Nat
    PROVE  IsFiniteSet(Column(x, n)) /\ Cardinality(Column(x, n)) = n
<1>1. IsFiniteSet({x}) /\ Cardinality({x}) = 1
  BY FS_Singleton
<1>2. IsFiniteSet(1 .. n) /\ Cardinality(1 .. n) = n
  BY FS_Interval
<1>3. /\ IsFiniteSet({x} \X (1 .. n))
      /\ Cardinality({x} \X (1 .. n)) = Cardinality({x}) * Cardinality(1 .. n)
  BY <1>1, <1>2, FS_Product
<1>4. 1 * n = n
  OBVIOUS
<1> QED BY <1>1, <1>2, <1>3, <1>4 DEF Column

\* A finite map has a finite sum.
LEMMA SumType ==
    ASSUME NEW D, IsFiniteSet(D), NEW f \in [D -> Nat]
    PROVE  IsFiniteSet(Units(f)) /\ SumOf(f) \in Nat
<1> DEFINE C == { Column(x, f[x]) : x \in D }
           g == [x \in D |-> Column(x, f[x])]
<1>1. g \in Surjection(D, C)
  BY DEF Surjection
<1>2. IsFiniteSet(C)
  BY <1>1, FS_Surjection
<1>3. \A T \in C : IsFiniteSet(T)
  BY ColumnSize
<1>4. Units(f) = UNION C
  BY DEF Units, Column
<1> QED BY <1>2, <1>3, <1>4, FS_UNION, FS_CardinalityType DEF SumOf

\* The sum of no values.
LEMMA SumEmpty ==
    ASSUME NEW f, DOMAIN f = {}
    PROVE  SumOf(f) = 0
<1>1. Units(f) = {}
  BY UnitsMember
<1> QED BY <1>1, FS_EmptySet DEF SumOf

\* What BTreeMap::insert does to the sum of a map's values.
LEMMA SumWith ==
    ASSUME NEW D, IsFiniteSet(D), NEW f \in [D -> Nat], NEW x, NEW v \in Nat
    PROVE  /\ IsFiniteSet(D \cup {x})
           /\ With(f, x, v) \in [D \cup {x} -> Nat]
           /\ SumOf(With(f, x, v)) = SumOf(f) + v - Lookup(f, x, 0)
<1> DEFINE g == With(f, x, v)
           old == Lookup(f, x, 0)
           rest == Units(f) \ Column(x, old)
<1>1. IsFiniteSet(D \cup {x})
  BY FS_AddElement
<1>2. g \in [D \cup {x} -> Nat] /\ old \in Nat
  BY DEF With, Lookup
<1>3. IsFiniteSet(Units(f)) /\ SumOf(f) \in Nat
  BY SumType
<1>4. Column(x, old) \subseteq Units(f)
  BY UnitsMember DEF Column, Lookup
<1>5. IsFiniteSet(rest) /\ Cardinality(rest) = SumOf(f) - old
  <2>1. Units(f) \cap Column(x, old) = Column(x, old)
    BY <1>4
  <2>2. Cardinality(Column(x, old)) = old
    BY <1>2, ColumnSize
  <2>3. IsFiniteSet(rest) /\ Cardinality(rest) = Cardinality(Units(f)) - Cardinality(Units(f) \cap Column(x, old))
    BY <1>3, FS_Difference
  <2> HIDE DEF rest, old
  <2> QED BY <2>1, <2>2, <2>3 DEF SumOf
<1>6. Units(g) = rest \cup Column(x, v)
  <2>1. ASSUME NEW u \in Units(g) PROVE u \in rest \cup Column(x, v)
    <3>1. PICK y \in DOMAIN g : \E i \in 1 .. g[y] : u = <<y, i>>
      BY <2>1, UnitsMember
    <3>2. CASE y = x
      BY <3>1, <3>2 DEF With, Column
    <3>3. CASE y # x
      <4>1. y \in D /\ g[y] = f[y]
        BY <3>1, <3>3 DEF With
      <4>2. u \in Units(f)
        BY <3>1, <4>1, UnitsMember
      <4> QED BY <3>1, <3>3, <4>2 DEF Column
    <3> QED BY <3>2, <3>3
  <2>2. ASSUME NEW u \in Column(x, v) PROVE u \in Units(g)
    <3>1. x \in DOMAIN g /\ g[x] = v
      BY DEF With
    <3> QED BY <2>2, <3>1, UnitsMember DEF Column
  <2>3. ASSUME NEW u \in rest PROVE u \in Units(g)
    <3>1. PICK y \in DOMAIN f : \E i \in 1 .. f[y] : u = <<y, i>>
      BY <2>3, UnitsMember
    <3>2. y # x
      BY <2>3, <3>1 DEF Column, Lookup
    <3>3. y \in DOMAIN g /\ g[y] = f[y]
      BY <3>2 DEF With
    <3> QED BY <3>1, <3>3, UnitsMember
  <2> QED BY <2>1, <2>2, <2>3
<1>7. rest \cap Column(x, v) = {}
  <2> SUFFICES ASSUME NEW u \in rest, u \in Column(x, v) PROVE FALSE
    OBVIOUS
  <2>1. PICK y \in DOMAIN f : \E i \in 1 .. f[y] : u = <<y, i>>
    BY UnitsMember
  <2> QED BY <2>1 DEF Column, Lookup
<1>8. Cardinality(Units(g)) = SumOf(f) - old + v
  <2> HIDE DEF g, rest
  <2>1. IsFiniteSet(Column(x, v)) /\ Cardinality(Column(x, v)) = v
    BY ColumnSize
  <2>2. Cardinality(rest \cup Column(x, v))
          = Cardinality(rest) + Cardinality(Column(x, v)) - Cardinality(rest \cap Column(x, v))
    BY <1>5, <2>1, FS_Union
  <2>3. Cardinality(rest \cap Column(x, v)) = 0
    BY <1>7, FS_EmptySet
  <2> HIDE DEF old
  <2> QED BY <1>2, <1>3, <1>5, <1>6, <2>1, <2>2, <2>3
<1> QED BY <1>1, <1>2, <1>3, <1>8 DEF SumOf

\* Larger values make a larger sum; values that are zero do not matter.
LEMMA SumMonotone ==
    ASSUME NEW D, IsFiniteSet(D), NEW f \in [D -> Nat], NEW E, NEW g \in [E -> Nat],
           \A x \in E : g[x] # 0 => x \in D /\ g[x] <= f[x]
    PROVE  SumOf(g) <= SumOf(f)
<1>1. Units(g) \subseteq Units(f)
  <2> SUFFICES ASSUME NEW u \in Units(g) PROVE u \in Units(f)
    OBVIOUS
  <2>1. PICK x \in E : \E i \in 1 .. g[x] : u = <<x, i>>
    BY UnitsMember
  <2>2. PICK i \in 1 .. g[x] : u = <<x, i>>
    BY <2>1
  <2>3. x \in D /\ g[x] <= f[x]
    BY <2>2
  <2>4. i \in 1 .. f[x] /\ x \in DOMAIN f
    BY <2>3
  <2> QED BY <2>2, <2>4, UnitsMember
<1> QED BY <1>1, SumType, FS_Subset DEF SumOf

\* One value changes, the others do not grow.
LEMMA SumShift ==
    ASSUME NEW D, IsFiniteSet(D), NEW f \in [D -> Nat], NEW g \in [D -> Nat], NEW x \in D,
           NEW a \in Nat, NEW b \in Nat, g[x] + a <= f[x] + b,
           \A y \in D : y # x => g[y] <= f[y]
    PROVE  SumOf(g) + a <= SumOf(f) + b
<1> DEFINE f1 == With(f, x, f[x] + b)
           g1 == With(g, x, g[x] + a)
<1>1. D \cup {x} = D /\ f[x] + b \in Nat /\ g[x] + a \in Nat
  OBVIOUS
<1>2. f1 \in [D -> Nat] /\ SumOf(f1) = SumOf(f) + (f[x] + b) - f[x]
  <2>1. Lookup(f, x, 0) = f[x]
    BY DEF Lookup
  <2> QED BY <1>1, <2>1, SumWith
<1>3. g1 \in [D -> Nat] /\ SumOf(g1) = SumOf(g) + (g[x] + a) - g[x]
  <2>1. Lookup(g, x, 0) = g[x]
    BY DEF Lookup
  <2> QED BY <1>1, <2>1, SumWith
<1>4. \A y \in D : g1[y] <= f1[y]
  BY DEF With
<1> HIDE DEF f1, g1
<1>5. SumOf(g1) <= SumOf(f1)
  BY <1>2, <1>3, <1>4, SumMonotone
<1>6. SumOf(f) \in Nat /\ SumOf(g) \in Nat
  BY SumType
<1> QED BY <1>1, <1>2, <1>3, <1>5, <1>6

\* A message enters a queue.
LEMMA SumAppend ==
    ASSUME NEW s \in Seq(Nat), NEW v \in Nat
    PROVE  SumOf(Append(s, v)) = SumOf(s) + v
<1>1. Append(s, v) = With(s, Len(s) + 1, v)
  <2>1. s \in [1 .. Len(s) -> Nat] /\ Len(s) \in Nat /\ Len(s) + 1 \notin 1 .. Len(s)
    BY LenProperties
  <2>2. /\ Append(s, v) \in [1 .. Len(s) + 1 -> Nat]
        /\ \A i \in 1 .. Len(s) : Append(s, v)[i] = s[i]
        /\ Append(s, v)[Len(s) + 1] = v
    <3>1. /\ Append(s, v) \in Seq(Nat) /\ Len(Append(s, v)) = Len(s) + 1
          /\ \A i \in 1 .. Len(s) : Append(s, v)[i] = s[i]
          /\ Append(s, v)[Len(s) + 1] = v
      BY AppendProperties
    <3>2. Append(s, v) \in [1 .. Len(Append(s, v)) -> Nat]
      BY <3>1, LenProperties
    <3> QED BY <3>1, <3>2
  <2>3. (1 .. Len(s)) \cup {Len(s) + 1} = 1 .. Len(s) + 1
    BY <2>1
  <2>4. With(s, Len(s) + 1, v) \in [1 .. Len(s) + 1 -> Nat]
    BY <2>1, <2>3 DEF With
  <2>5. ASSUME NEW i \in 1 .. Len(s) + 1 PROVE Append(s, v)[i] = With(s, Len(s) + 1, v)[i]
    BY <2>1, <2>2, <2>3 DEF With
  <2> QED BY <2>2, <2>4, <2>5
<1>2. IsFiniteSet(1 .. Len(s)) /\ s \in [1 .. Len(s) -> Nat]
  BY FS_Interval
<1>3. Lookup(s, Len(s) + 1, 0) = 0
  BY DEF Lookup
<1>4. SumOf(With(s, Len(s) + 1, v)) = SumOf(s) + v - Lookup(s, Len(s) + 1, 0)
  BY <1>2, SumWith
<1>5. SumOf(s) \in Nat
  BY <1>2, SumType
<1> QED BY <1>1, <1>3, <1>4, <1>5

\* A message leaves it.
LEMMA SumTail ==
    ASSUME NEW s \in Seq(Nat), s # <<>>
    PROVE  SumOf(s) = Head(s) + SumOf(Tail(s))
<1> DEFINE t == Tail(s)
           rest == Units(s) \ Column(1, s[1])
           shift == [u \in Units(t) |-> <<u[1] + 1, u[2]>>]
<1>1. /\ Len(s) \in Nat \ {0} /\ DOMAIN s = 1 .. Len(s)
      /\ t \in Seq(Nat) /\ Len(t) = Len(s) - 1 /\ DOMAIN t = 1 .. Len(t)
      /\ \A i \in 1 .. Len(t) : t[i] = s[i + 1]
      /\ Head(s) = s[1] /\ s[1] \in Nat
  BY EmptySeq, LenProperties, HeadTailProperties
<1>2. IsFiniteSet(Units(s)) /\ SumOf(s) \in Nat /\ IsFiniteSet(Units(t)) /\ SumOf(t) \in Nat
  <2>1. s \in [1 .. Len(s) -> Nat] /\ t \in [1 .. Len(t) -> Nat]
    BY <1>1, LenProperties
  <2>2. IsFiniteSet(1 .. Len(s)) /\ IsFiniteSet(1 .. Len(t))
    BY <1>1, FS_Interval
  <2> HIDE DEF t
  <2> QED BY <2>1, <2>2, SumType
<1>3. Column(1, s[1]) \subseteq Units(s)
  BY <1>1, UnitsMember DEF Column
<1>4. Cardinality(rest) = SumOf(s) - s[1]
  <2>1. Units(s) \cap Column(1, s[1]) = Column(1, s[1])
    BY <1>3
  <2>2. Cardinality(Column(1, s[1])) = s[1]
    BY <1>1, ColumnSize
  <2>3. Cardinality(rest) = Cardinality(Units(s)) - Cardinality(Units(s) \cap Column(1, s[1]))
    BY <1>2, FS_Difference
  <2> HIDE DEF rest
  <2> QED BY <2>1, <2>2, <2>3 DEF SumOf
<1>5. \A u \in Units(t) : \E x \in 1 .. Len(t) : \E i \in 1 .. s[x + 1] : u = <<x, i>>
  <2> TAKE u \in Units(t)
  <2> HIDE DEF t
  <2>1. \E x \in DOMAIN t : \E i \in 1 .. t[x] : u = <<x, i>>
    BY UnitsMember
  <2> QED BY <1>1, <2>1
<1>6. \A u \in rest : \E x \in 1 .. Len(t) : \E i \in 1 .. s[x + 1] : u = <<x + 1, i>>
  <2> TAKE u \in rest
  <2>1. PICK y \in 1 .. Len(s) : \E i \in 1 .. s[y] : u = <<y, i>>
    BY <1>1, UnitsMember
  <2>2. y # 1
    BY <2>1 DEF Column
  <2>3. y - 1 \in 1 .. Len(t) /\ (y - 1) + 1 = y
    BY <1>1, <2>2
  <2> QED BY <2>1, <2>3
<1>7. shift \in Bijection(Units(t), rest)
  <2>1. ASSUME NEW u \in Units(t) PROVE shift[u] \in rest
    <3>1. PICK x \in 1 .. Len(t) : \E i \in 1 .. s[x + 1] : u = <<x, i>>
      BY <1>5
    <3>2. PICK i \in 1 .. s[x + 1] : u = <<x, i>>
      BY <3>1
    <3>3. shift[u] = <<x + 1, i>> /\ x + 1 \in DOMAIN s /\ x + 1 # 1
      BY <1>1, <3>2
    <3>4. <<x + 1, i>> \in Units(s)
      BY <3>3, UnitsMember
    <3> QED BY <3>3, <3>4 DEF Column
  <2>2. ASSUME NEW u \in Units(t), NEW w \in Units(t), shift[u] = shift[w] PROVE u = w
    <3>1. PICK x \in 1 .. Len(t) : \E i \in 1 .. s[x + 1] : u = <<x, i>>
      BY <1>5
    <3>2. PICK y \in 1 .. Len(t) : \E i \in 1 .. s[y + 1] : w = <<y, i>>
      BY <1>5
    <3>3. x + 1 = y + 1 /\ u[2] = w[2]
      BY <2>2, <3>1, <3>2
    <3>4. x = y
      BY <1>1, <3>3
    <3> QED BY <3>1, <3>2, <3>3, <3>4
  <2>3. ASSUME NEW w \in rest PROVE \E u \in Units(t) : shift[u] = w
    <3>1. PICK x \in 1 .. Len(t) : \E i \in 1 .. s[x + 1] : w = <<x + 1, i>>
      BY <1>6
    <3>2. PICK i \in 1 .. s[x + 1] : w = <<x + 1, i>>
      BY <3>1
    <3>3. <<x, i>> \in Units(t)
      BY <1>1, <3>2, UnitsMember
    <3> QED BY <3>2, <3>3
  <2> HIDE DEF shift, rest, t
  <2>4. shift \in [Units(t) -> rest]
    BY <2>1 DEF shift
  <2>5. shift \in Injection(Units(t), rest)
    BY <2>2, <2>4 DEF Injection, IsInjective
  <2>6. shift \in Surjection(Units(t), rest)
    BY <2>3, <2>4 DEF Surjection
  <2> QED BY <2>5, <2>6 DEF Bijection
<1>8. Cardinality(rest) = SumOf(t)
  <2> HIDE DEF shift, rest, t
  <2> QED BY <1>2, <1>7, FS_Bijection DEF ExistsBijection, SumOf
<1> QED BY <1>1, <1>2, <1>4, <1>8

-----------------------------------------------------------------------------
(***************************************************************************)
(* What is reported of a peer, and what may still be.                      *)
(***************************************************************************)

\* The bytes by which the counters of a are ahead of those of b.
Ahead(a, b) ==
    (IF a.rx > b.rx THEN a.rx - b.rx ELSE 0) + (IF a.tx > b.tx THEN a.tx - b.tx ELSE 0)

\* The same for the counters in the kernel, if the peer is there.
KernelAhead(p, k, b) ==
    IF p \in DOMAIN wg /\ HasPeer(p, k) THEN Ahead(wg[p].peers[k], b) ELSE 0

\* The cache has the peer.
IsCached(p, k) == p \in DOMAIN cache /\ k \in DOMAIN cache[p]

\* The peer is fetched and watchdog_peer has not come to it, or is sending its
\* events.
Fetched(p, k) == wpc \in {"peers", "send"} /\ stats.listen_port = p /\ k \in left

InSend(p, k) == wpc = "send" /\ stats.listen_port = p /\ peer.key = k

\* The bytes of a peer of a namespace that may still be reported. While its
\* events are sent its traffic is counted, or there was none to count; if the
\* events are refused, the cache keeps the old counters.
Pending(p, k) ==
    IF Fetched(p, k)
    THEN (IF IsCached(p, k) THEN Ahead(stats.peers[k], cache[p][k]) ELSE 0)
           + KernelAhead(p, k, stats.peers[k])
    ELSE IF InSend(p, k)
    THEN (IF IsCached(p, k) /\ BytesOf(info, k) = 0 THEN Ahead(peer.stats, cache[p][k]) ELSE 0)
           + KernelAhead(p, k, peer.stats)
    ELSE IF IsCached(p, k) THEN KernelAhead(p, k, cache[p][k]) ELSE 0

\* The same of all namespaces in the cache.
StillToCome(k) == SumOf([p \in DOMAIN cache |-> Pending(p, k)])

\* The bytes of a peer in the TrafficInfo that is being built.
InHand(k) == IF wpc = "tick" THEN 0 ELSE BytesOf(info, k)

\* All bytes of a peer that are or may still be reported.
Ledger(k) == reported[k] + InQueue(k) + InHand(k) + StillToCome(k)

\* The inductive invariant: the ledger never exceeds what was generated.
LedgerInv ==
    /\ generated \in [Pubkey -> Nat]
    /\ reported \in [Pubkey -> Nat]
    /\ ~recount => \A k \in Pubkey : Ledger(k) <= generated[k]

-----------------------------------------------------------------------------
\* Statistics of the kernel or of the cache.
HasCounters(a) == a.rx \in Nat /\ a.tx \in Nat

\* Being ahead is a distance.
LEMMA AheadFacts ==
    ASSUME NEW a, NEW b, NEW c, HasCounters(a), HasCounters(b), HasCounters(c)
    PROVE  /\ Ahead(a, b) \in Nat
           /\ Ahead(a, c) <= Ahead(b, c) + Ahead(a, b)
           /\ Ahead(a, a) = 0
BY DEF HasCounters, Ahead

\* usize arithmetic only makes a difference smaller.
LEMMA UsizeFacts ==
    ASSUME NEW x \in Nat
    PROVE  x % Usize \in Nat /\ x % Usize <= x
BY WatchdogAssumption

-----------------------------------------------------------------------------
(***************************************************************************)
(* The bytes of a device in a TrafficInfo and in a queue of them.          *)
(***************************************************************************)

\* The bytes of a device in one network.
LEMMA DeviceBytesType ==
    ASSUME NEW i \in TrafficInfo, NEW n \in DOMAIN i.networks, NEW k
    PROVE  /\ i.networks[n] \in NetworkTraffic
           /\ DeviceBytes(i, n, k) \in Nat
<1>1. i.networks \in FiniteMaps(Pubkey, NetworkTraffic)
  BY DEF TrafficInfo
<1>2. i.networks[n] \in NetworkTraffic
  BY <1>1, LookupType
<1>3. i.networks[n].devices \in FiniteMaps(Pubkey, DeviceTraffic)
  BY <1>2 DEF NetworkTraffic
<1>4. k \in DOMAIN i.networks[n].devices => i.networks[n].devices[k] \in DeviceTraffic
  BY <1>3, LookupType
<1> QED BY <1>2, <1>4 DEF DeviceBytes, Bytes, DeviceTraffic, TrafficType

\* The bytes of a device in a TrafficInfo.
LEMMA BytesType ==
    ASSUME NEW i \in TrafficInfo, NEW k
    PROVE  /\ IsFiniteSet(DOMAIN i.networks)
           /\ [n \in DOMAIN i.networks |-> DeviceBytes(i, n, k)] \in [DOMAIN i.networks -> Nat]
           /\ BytesOf(i, k) \in Nat
<1>1. i.networks \in FiniteMaps(Pubkey, NetworkTraffic)
  BY DEF TrafficInfo
<1>2. IsFiniteSet(DOMAIN i.networks)
  BY <1>1, FiniteMapDef
<1>3. [n \in DOMAIN i.networks |-> DeviceBytes(i, n, k)] \in [DOMAIN i.networks -> Nat]
  BY DeviceBytesType
<1> QED BY <1>2, <1>3, SumType DEF BytesOf

\* A new TrafficInfo has none.
LEMMA NewInfoBytes ==
    ASSUME NEW k
    PROVE  BytesOf(TrafficInfo_new(0), k) = 0
<1>1. TrafficInfo_new(0).networks = EmptyMap
  BY DEF TrafficInfo_new
<1>2. DOMAIN EmptyMap = {}
  BY DEF EmptyMap
<1> QED BY <1>1, <1>2, SumEmpty DEF BytesOf

\* TrafficInfo::add adds to one device, in one network.
LEMMA BytesAdd ==
    ASSUME NEW i \in TrafficInfo, NEW n \in Pubkey, NEW d \in Pubkey, NEW time \in Int,
           NEW t \in TrafficType, NEW k
    PROVE  BytesOf(TrafficInfo_add(i, n, d, time, t), k)
             = BytesOf(i, k) + (IF k = d THEN Bytes(t) ELSE 0)
<1> DEFINE old == Lookup(i.networks, n, NoNetwork)
           new == NetworkTraffic_add(old, d, time, t)
           j == TrafficInfo_add(i, n, d, time, t)
           f == [m \in DOMAIN i.networks |-> DeviceBytes(i, m, k)]
           g == [m \in DOMAIN j.networks |-> DeviceBytes(j, m, k)]
           delta == IF k = d THEN Bytes(t) ELSE 0
<1>1. i.networks \in FiniteMaps(Pubkey, NetworkTraffic)
  BY DEF TrafficInfo
<1>2. old \in NetworkTraffic
  BY <1>1, LookupType, NoTrafficTypes
<1>3. j.networks = With(i.networks, n, new)
  BY DEF TrafficInfo_add, TrafficInfo, NoNetwork
<1>4. IsFiniteSet(DOMAIN i.networks) /\ f \in [DOMAIN i.networks -> Nat] /\ BytesOf(i, k) = SumOf(f)
  BY BytesType DEF BytesOf
<1>5. Bytes(t) \in Nat /\ delta \in Nat
  BY DEF Bytes, TrafficType
<1>6. DeviceBytes(j, n, k) = Lookup(f, n, 0) + delta
  <2> DEFINE was == Lookup(old.devices, d, NoDevice)
  <2>1. j.networks[n] = new
    BY <1>3 DEF With
  <2>2. new.devices = With(old.devices, d, DeviceTraffic_add(was, time, t))
    BY DEF NetworkTraffic_add, NoDevice
  <2>3. old.devices \in FiniteMaps(Pubkey, DeviceTraffic)
    BY <1>2 DEF NetworkTraffic
  <2>4. was \in DeviceTraffic
    BY <2>3, LookupType, NoTrafficTypes
  <2>5. DeviceTraffic_add(was, time, t).traffic = Plus(was.traffic, t)
    BY DEF DeviceTraffic_add
  <2>6. Bytes(Plus(was.traffic, t)) = Bytes(was.traffic) + Bytes(t)
    BY <2>4 DEF Bytes, Plus, NewTraffic, DeviceTraffic, TrafficType
  <2>7. Lookup(f, n, 0) = IF k \in DOMAIN old.devices THEN Bytes(old.devices[k].traffic) ELSE 0
    <3>1. CASE n \in DOMAIN i.networks
      BY <3>1 DEF Lookup, DeviceBytes
    <3>2. CASE n \notin DOMAIN i.networks
      <4>1. old = NoNetwork /\ DOMAIN NoNetwork.devices = {}
        BY <3>2 DEF Lookup, NoNetwork, EmptyMap
      <4> QED BY <3>2, <4>1 DEF Lookup
    <3> QED BY <3>1, <3>2
  <2>8. CASE k # d
    <3>1. k \in DOMAIN new.devices <=> k \in DOMAIN old.devices
      BY <2>2, <2>8 DEF With
    <3>2. k \in DOMAIN old.devices => new.devices[k] = old.devices[k]
      BY <2>2, <2>8 DEF With
    <3>3. DeviceBytes(j, n, k) = Lookup(f, n, 0)
      <4> HIDE DEF f, old, new, j
      <4> QED BY <2>1, <2>7, <3>1, <3>2 DEF DeviceBytes
    <3>4. Lookup(f, n, 0) \in Nat
      BY <1>4 DEF Lookup
    <3> HIDE DEF f, j
    <3> QED BY <2>8, <3>3, <3>4
  <2>9. CASE k = d
    <3>1. k \in DOMAIN new.devices /\ new.devices[k].traffic = Plus(was.traffic, t)
      BY <2>2, <2>5, <2>9 DEF With
    <3>2. DeviceBytes(j, n, k) = Bytes(was.traffic) + Bytes(t)
      <4> HIDE DEF old, new, j, was
      <4> QED BY <2>1, <2>6, <3>1 DEF DeviceBytes
    <3>3. Bytes(was.traffic) = Lookup(f, n, 0)
      <4>1. CASE k \in DOMAIN old.devices
        <5>1. was = old.devices[k]
          BY <2>9, <4>1 DEF Lookup
        <5> HIDE DEF was, old, f
        <5> QED BY <2>7, <4>1, <5>1
      <4>2. CASE k \notin DOMAIN old.devices
        <5>1. was = NoDevice
          BY <2>9, <4>2 DEF Lookup
        <5>2. Bytes(NoDevice.traffic) = 0
          BY DEF NoDevice, NoTraffic, NewTraffic, Bytes
        <5> HIDE DEF was, old, f
        <5> QED BY <2>7, <4>2, <5>1, <5>2
      <4> QED BY <4>1, <4>2
    <3> HIDE DEF f, j, was
    <3> QED BY <2>9, <3>2, <3>3
  <2> QED BY <2>8, <2>9
<1>7. g = With(f, n, Lookup(f, n, 0) + delta)
  <2>1. DOMAIN j.networks = DOMAIN i.networks \cup {n}
    BY <1>3 DEF With
  <2>2. ASSUME NEW m \in DOMAIN i.networks, m # n PROVE DeviceBytes(j, m, k) = f[m]
    <3>1. j.networks[m] = i.networks[m]
      BY <1>3, <2>2 DEF With
    <3> HIDE DEF j
    <3> QED BY <3>1 DEF DeviceBytes
  <2> DEFINE v == Lookup(f, n, 0) + delta
  <2> HIDE DEF j, v
  <2>3. \A m \in DOMAIN i.networks \cup {n} : DeviceBytes(j, m, k) = IF m = n THEN v ELSE f[m]
    BY <1>6, <2>2 DEF v
  <2>4. DOMAIN f = DOMAIN i.networks
    OBVIOUS
  <2> HIDE DEF f
  <2>5. With(f, n, v) = [m \in DOMAIN i.networks \cup {n} |-> IF m = n THEN v ELSE f[m]]
    BY <2>4 DEF With
  <2>6. g = [m \in DOMAIN i.networks \cup {n} |-> IF m = n THEN v ELSE f[m]]
    BY <2>1, <2>3
  <2> QED BY <2>5, <2>6 DEF v
<1>8. Lookup(f, n, 0) \in Nat
  BY <1>4 DEF Lookup
<1> HIDE DEF f, delta
<1>9. SumOf(With(f, n, Lookup(f, n, 0) + delta)) = SumOf(f) + (Lookup(f, n, 0) + delta) - Lookup(f, n, 0)
  <2> DEFINE v == Lookup(f, n, 0) + delta
  <2>1. v \in Nat
    BY <1>5, <1>8
  <2> HIDE DEF v
  <2>2. SumOf(With(f, n, v)) = SumOf(f) + v - Lookup(f, n, 0)
    BY <1>4, <2>1, SumWith
  <2> QED BY <2>2 DEF v
<1>10. SumOf(f) \in Nat
  BY <1>4, SumType
<1>11. BytesOf(j, k) = SumOf(g)
  BY DEF BytesOf
<1> HIDE DEF g, j
<1>12. BytesOf(j, k) = BytesOf(i, k) + delta
  BY <1>4, <1>5, <1>7, <1>8, <1>9, <1>10, <1>11
<1> QED BY <1>12 DEF j, delta

\* What the infos of a queue hold for a device.
BytesIn(q, k) == [i \in DOMAIN q |-> BytesOf(q[i], k)]

\* The bytes of a device in a queue of them.
LEMMA BytesInType ==
    ASSUME NEW q \in Seq(TrafficInfo), NEW k
    PROVE  /\ BytesIn(q, k) \in Seq(Nat)
           /\ Len(BytesIn(q, k)) = Len(q)
           /\ SumOf(BytesIn(q, k)) \in Nat
<1>1. Len(q) \in Nat /\ DOMAIN q = 1 .. Len(q) /\ \A i \in 1 .. Len(q) : q[i] \in TrafficInfo
  BY LenProperties, ElementOfSeq
<1>2. \A i \in 1 .. Len(q) : BytesOf(q[i], k) \in Nat
  BY <1>1, BytesType
<1>3. BytesIn(q, k) \in [1 .. Len(q) -> Nat]
  BY <1>1, <1>2 DEF BytesIn
<1>4. BytesIn(q, k) \in Seq(Nat)
  BY <1>1, <1>3
<1>5. Len(BytesIn(q, k)) = Len(q)
  BY <1>1, <1>3, <1>4, LenProperties
<1>6. SumOf(BytesIn(q, k)) \in Nat
  <2>1. IsFiniteSet(1 .. Len(q))
    BY <1>1, FS_Interval
  <2> QED BY <1>3, <2>1, SumType
<1> QED BY <1>4, <1>5, <1>6

\* A TrafficInfo is sent: an older one may be lost, none is added twice.
LEMMA BytesSent ==
    ASSUME NEW q \in Seq(TrafficInfo), NEW m \in TrafficInfo, NEW k
    PROVE  SumOf(BytesIn(Append(q, m), k)) = SumOf(BytesIn(q, k)) + BytesOf(m, k)
<1>1. /\ Append(q, m) \in Seq(TrafficInfo) /\ Len(Append(q, m)) = Len(q) + 1
      /\ \A i \in 1 .. Len(q) : Append(q, m)[i] = q[i]
      /\ Append(q, m)[Len(q) + 1] = m
      /\ Len(q) \in Nat /\ DOMAIN q = 1 .. Len(q)
  BY AppendProperties, LenProperties
<1> DEFINE b == BytesIn(q, k)
           c == BytesIn(Append(q, m), k)
           a == Append(b, BytesOf(m, k))
<1>2. BytesOf(m, k) \in Nat /\ b \in Seq(Nat) /\ Len(b) = Len(q) /\ c \in Seq(Nat) /\ Len(c) = Len(q) + 1
  BY <1>1, BytesType, BytesInType
<1>3. /\ a \in Seq(Nat) /\ Len(a) = Len(q) + 1
      /\ \A i \in 1 .. Len(q) : a[i] = b[i]
      /\ a[Len(q) + 1] = BytesOf(m, k)
  <2> HIDE DEF b
  <2> QED BY <1>2, AppendProperties
<1>4. DOMAIN Append(q, m) = 1 .. Len(q) + 1
  BY <1>1, LenProperties
<1>5. ASSUME NEW i \in 1 .. Len(q) + 1 PROVE c[i] = a[i]
  <2>1. c[i] = BytesOf(Append(q, m)[i], k)
    BY <1>4 DEF BytesIn
  <2>2. CASE i = Len(q) + 1
    <3> HIDE DEF a, c
    <3> QED BY <1>1, <1>3, <2>1, <2>2
  <2>3. CASE i # Len(q) + 1
    <3>1. i \in 1 .. Len(q)
      BY <1>1, <2>3
    <3>2. b[i] = BytesOf(q[i], k)
      BY <1>1, <3>1 DEF BytesIn
    <3> HIDE DEF a, b, c
    <3> QED BY <1>1, <1>3, <2>1, <3>1, <3>2
  <2> QED BY <2>2, <2>3
<1>6. c = a
  <2> HIDE DEF a, c
  <2> QED BY <1>2, <1>3, <1>5, SeqEqual
<1> HIDE DEF b, c
<1> QED BY <1>2, <1>6, SumAppend DEF b, c

\* One is received.
LEMMA BytesReceived ==
    ASSUME NEW q \in Seq(TrafficInfo), q # <<>>, NEW k
    PROVE  SumOf(BytesIn(q, k)) = BytesOf(Head(q), k) + SumOf(BytesIn(Tail(q), k))
<1> DEFINE b == BytesIn(q, k)
           c == BytesIn(Tail(q), k)
<1>1. /\ Tail(q) \in Seq(TrafficInfo) /\ Len(Tail(q)) = Len(q) - 1
      /\ \A i \in 1 .. Len(Tail(q)) : Tail(q)[i] = q[i + 1]
      /\ Len(q) \in Nat \ {0} /\ DOMAIN q = 1 .. Len(q) /\ DOMAIN Tail(q) = 1 .. Len(Tail(q))
      /\ Head(q) = q[1]
  BY HeadTailProperties, LenProperties, EmptySeq
<1>2. b \in Seq(Nat) /\ Len(b) = Len(q) /\ c \in Seq(Nat) /\ Len(c) = Len(q) - 1
  BY <1>1, BytesInType
<1>3. b # <<>>
  <2> HIDE DEF b
  <2> QED BY <1>1, <1>2, EmptySeq
<1>4. /\ Tail(b) \in Seq(Nat) /\ Len(Tail(b)) = Len(b) - 1
      /\ \A i \in 1 .. Len(Tail(b)) : Tail(b)[i] = b[i + 1]
      /\ Head(b) = b[1]
  <2> HIDE DEF b
  <2> QED BY <1>2, <1>3, HeadTailProperties
<1>5. ASSUME NEW i \in 1 .. Len(c) PROVE c[i] = Tail(b)[i]
  <2>0. i \in 1 .. Len(Tail(q)) /\ i \in 1 .. Len(Tail(b)) /\ i + 1 \in 1 .. Len(q)
    BY <1>1, <1>2, <1>4
  <2>1. c[i] = BytesOf(Tail(q)[i], k)
    BY <1>1, <2>0 DEF BytesIn
  <2>2. b[i + 1] = BytesOf(q[i + 1], k)
    BY <1>1, <2>0 DEF BytesIn
  <2> HIDE DEF b, c
  <2> QED BY <1>1, <1>4, <2>0, <2>1, <2>2
<1>6. c = Tail(b)
  <2> HIDE DEF b, c
  <2> QED BY <1>1, <1>2, <1>4, <1>5, SeqEqual
<1>7. b[1] = BytesOf(q[1], k)
  BY <1>1 DEF BytesIn
<1> HIDE DEF b, c
<1>8. SumOf(b) = Head(b) + SumOf(c)
  BY <1>2, <1>3, <1>6, SumTail
<1> QED BY <1>1, <1>4, <1>7, <1>8 DEF b, c

\* No bytes are in an empty queue.
LEMMA BytesNone ==
    ASSUME NEW k
    PROVE  SumOf(BytesIn(<<>>, k)) = 0
<1>1. DOMAIN BytesIn(<<>>, k) = {}
  BY DEF BytesIn
<1> QED BY <1>1, SumEmpty

-----------------------------------------------------------------------------
(***************************************************************************)
(* What is still to come.                                                  *)
(***************************************************************************)

\* The three generations of counters are naturals.
LEMMA Counters ==
    TypeInv => \A p, k :
        /\ IsCached(p, k) => HasCounters(cache[p][k]) /\ cache[p][k] \in PeerStats
        /\ p \in DOMAIN wg /\ HasPeer(p, k) => HasCounters(wg[p].peers[k])
        /\ Fetched(p, k) => HasCounters(stats.peers[k]) /\ stats.peers[k] \in KernelPeer
        /\ InSend(p, k) => HasCounters(peer.stats)
<1> SUFFICES ASSUME TypeInv, NEW p, NEW k
             PROVE  /\ IsCached(p, k) => HasCounters(cache[p][k]) /\ cache[p][k] \in PeerStats
                    /\ p \in DOMAIN wg /\ HasPeer(p, k) => HasCounters(wg[p].peers[k])
                    /\ Fetched(p, k) => HasCounters(stats.peers[k]) /\ stats.peers[k] \in KernelPeer
                    /\ InSend(p, k) => HasCounters(peer.stats)
  OBVIOUS
<1>1. ASSUME IsCached(p, k) PROVE HasCounters(cache[p][k]) /\ cache[p][k] \in PeerStats
  <2>1. cache[p] \in FiniteMaps(Pubkey, PeerStats)
    BY <1>1, LookupType DEF TypeInv, WatchInv, PeerCache, IsCached
  <2>2. cache[p][k] \in PeerStats
    BY <1>1, <2>1, LookupType DEF IsCached
  <2> QED BY <2>2 DEF HasCounters, PeerStats
<1>2. ASSUME p \in DOMAIN wg, HasPeer(p, k) PROVE HasCounters(wg[p].peers[k])
  <2>1. wg[p].peers[k] \in KernelPeer
    BY <1>2, NetworksDef DEF HasPeer, TypeInv, KernelInv
  <2> QED BY <2>1 DEF HasCounters, KernelPeer
<1>3. ASSUME Fetched(p, k) PROVE HasCounters(stats.peers[k]) /\ stats.peers[k] \in KernelPeer
  <2>1. stats.peers[k] \in KernelPeer
    BY <1>3, CacheHere DEF TypeInv, WatchInv, Fetched
  <2> QED BY <2>1 DEF HasCounters, KernelPeer
<1>4. ASSUME InSend(p, k) PROVE HasCounters(peer.stats)
  BY <1>4 DEF TypeInv, WatchInv, InSend, HasCounters, PeerStats
<1> QED BY <1>1, <1>2, <1>3, <1>4

\* The kernel's counters are ahead of newer statistics by less.
LEMMA KernelAheadFacts ==
    ASSUME TypeInv, NEW p, NEW k, NEW b, NEW c, HasCounters(b), HasCounters(c)
    PROVE  /\ KernelAhead(p, k, b) \in Nat
           /\ KernelAhead(p, k, c) <= Ahead(b, c) + KernelAhead(p, k, b)
<1>1. CASE p \in DOMAIN wg /\ HasPeer(p, k)
  <2>1. HasCounters(wg[p].peers[k])
    BY <1>1, Counters
  <2> QED BY <1>1, <2>1, AheadFacts DEF KernelAhead
<1>2. CASE ~(p \in DOMAIN wg /\ HasPeer(p, k))
  BY <1>2, AheadFacts DEF KernelAhead
<1> QED BY <1>1, <1>2

\* What a namespace may still report is a number.
LEMMA PendingType ==
    TypeInv => \A p, k : Pending(p, k) \in Nat
<1> SUFFICES ASSUME TypeInv, NEW p, NEW k PROVE Pending(p, k) \in Nat
  OBVIOUS
<1>1. CASE Fetched(p, k)
  <2>1. HasCounters(stats.peers[k])
    BY <1>1, Counters
  <2>2. KernelAhead(p, k, stats.peers[k]) \in Nat
    BY <2>1, KernelAheadFacts
  <2>3. IsCached(p, k) => Ahead(stats.peers[k], cache[p][k]) \in Nat
    BY <2>1, Counters, AheadFacts
  <2> QED BY <1>1, <2>2, <2>3 DEF Pending
<1>2. CASE ~Fetched(p, k) /\ InSend(p, k)
  <2>1. HasCounters(peer.stats)
    BY <1>2, Counters
  <2>2. KernelAhead(p, k, peer.stats) \in Nat
    BY <2>1, KernelAheadFacts
  <2>3. IsCached(p, k) => Ahead(peer.stats, cache[p][k]) \in Nat
    BY <2>1, Counters, AheadFacts
  <2> QED BY <1>2, <2>2, <2>3 DEF Pending
<1>3. CASE ~Fetched(p, k) /\ ~InSend(p, k)
  <2>1. IsCached(p, k) => KernelAhead(p, k, cache[p][k]) \in Nat
    BY Counters, KernelAheadFacts
  <2> QED BY <1>3, <2>1 DEF Pending
<1> QED BY <1>1, <1>2, <1>3

\* What the cache alone promises is promised in any case.
LEMMA PendingAtLeast ==
    ASSUME TypeInv, NEW p, NEW k, IsCached(p, k),
           InSend(p, k) => BytesOf(info, k) = 0
    PROVE  KernelAhead(p, k, cache[p][k]) <= Pending(p, k)
<1>0. HasCounters(cache[p][k])
  BY Counters
<1>1. CASE Fetched(p, k)
  <2>1. HasCounters(stats.peers[k])
    BY <1>1, Counters
  <2>2. KernelAhead(p, k, cache[p][k])
          <= Ahead(stats.peers[k], cache[p][k]) + KernelAhead(p, k, stats.peers[k])
    BY <1>0, <2>1, KernelAheadFacts
  <2> QED BY <1>1, <2>2 DEF Pending
<1>2. CASE ~Fetched(p, k) /\ InSend(p, k)
  <2>1. HasCounters(peer.stats)
    BY <1>2, Counters
  <2>2. KernelAhead(p, k, cache[p][k])
          <= Ahead(peer.stats, cache[p][k]) + KernelAhead(p, k, peer.stats)
    BY <1>0, <2>1, KernelAheadFacts
  <2> QED BY <1>2, <2>2 DEF Pending
<1>3. CASE ~Fetched(p, k) /\ ~InSend(p, k)
  <2>1. KernelAhead(p, k, cache[p][k]) \in Nat
    BY <1>0, KernelAheadFacts
  <2> QED BY <1>3, <2>1 DEF Pending
<1> QED BY <1>1, <1>2, <1>3

\* So are the parts of the ledger.
LEMMA LedgerType ==
    TypeInv => \A k :
        /\ IsFiniteSet(DOMAIN cache)
        /\ StillToCome(k) \in Nat
        /\ InHand(k) \in Nat
        /\ InQueue(k) = SumOf(BytesIn(traffic_broadcast.queue, k))
        /\ InQueue(k) \in Nat
        /\ traffic_broadcast.queue \in Seq(TrafficInfo)
<1> SUFFICES ASSUME TypeInv, NEW k
             PROVE  /\ IsFiniteSet(DOMAIN cache)
                    /\ StillToCome(k) \in Nat
                    /\ InHand(k) \in Nat
                    /\ InQueue(k) = SumOf(BytesIn(traffic_broadcast.queue, k))
                    /\ InQueue(k) \in Nat
                    /\ traffic_broadcast.queue \in Seq(TrafficInfo)
  OBVIOUS
<1>1. IsFiniteSet(DOMAIN cache)
  BY FiniteMapDef DEF TypeInv, WatchInv, PeerCache
<1>2. [p \in DOMAIN cache |-> Pending(p, k)] \in [DOMAIN cache -> Nat]
  BY PendingType
<1>3. StillToCome(k) \in Nat
  BY <1>1, <1>2, SumType DEF StillToCome
<1>4. InHand(k) \in Nat
  BY BytesType DEF InHand, TypeInv, WatchInv
<1>5. traffic_broadcast.queue \in Seq(TrafficInfo)
  BY DEF TypeInv, ChannelInv, Channel
<1>6. InQueue(k) = SumOf(BytesIn(traffic_broadcast.queue, k))
  BY DEF InQueue, BytesIn
<1>7. InQueue(k) \in Nat
  BY <1>5, <1>6, BytesInType
<1> QED BY <1>1, <1>3, <1>4, <1>5, <1>6, <1>7

\* The same after a step.
LEMMA LedgerTypeNext ==
    TypeInv' => (\A k :
        /\ IsFiniteSet(DOMAIN cache)
        /\ StillToCome(k) \in Nat
        /\ InHand(k) \in Nat
        /\ InQueue(k) = SumOf(BytesIn(traffic_broadcast.queue, k))
        /\ InQueue(k) \in Nat
        /\ traffic_broadcast.queue \in Seq(TrafficInfo))'
BY LedgerType, PTL

\* The same of the state after a step.
LEMMA PendingTypeNext == TypeInv' => (\A p, k : Pending(p, k) \in Nat)'
BY PendingType, PTL

\* If no namespace has more to come than before, there is no more to come.
LEMMA NoMoreToCome ==
    ASSUME TypeInv, TypeInv', NEW k,
           \A p \in DOMAIN cache' : Pending(p, k)' # 0 => p \in DOMAIN cache /\ Pending(p, k)' <= Pending(p, k)
    PROVE  StillToCome(k)' <= StillToCome(k)
<1> DEFINE f == [p \in DOMAIN cache |-> Pending(p, k)]
           g == [p \in DOMAIN cache' |-> Pending(p, k)']
<1>1. IsFiniteSet(DOMAIN cache) /\ f \in [DOMAIN cache -> Nat]
  BY LedgerType, PendingType
<1>2. g \in [DOMAIN cache' -> Nat]
  BY PendingTypeNext
<1>3. \A p \in DOMAIN cache' : g[p] # 0 => p \in DOMAIN cache /\ g[p] <= f[p]
  OBVIOUS
<1>4. StillToCome(k) = SumOf(f) /\ StillToCome(k)' = SumOf(g)
  BY DEF StillToCome
<1> HIDE DEF f, g
<1> QED BY <1>1, <1>2, <1>3, <1>4, SumMonotone

\* One namespace gives or takes, the others have no more to come.
LEMMA OneShifts ==
    ASSUME TypeInv, TypeInv', NEW k, DOMAIN cache' = DOMAIN cache, NEW x \in DOMAIN cache,
           NEW a \in Nat, NEW b \in Nat, Pending(x, k)' + a <= Pending(x, k) + b,
           \A p \in DOMAIN cache : p # x => Pending(p, k)' <= Pending(p, k)
    PROVE  StillToCome(k)' + a <= StillToCome(k) + b
<1> DEFINE f == [p \in DOMAIN cache |-> Pending(p, k)]
           g == [p \in DOMAIN cache |-> Pending(p, k)']
<1>1. IsFiniteSet(DOMAIN cache) /\ f \in [DOMAIN cache -> Nat]
  BY LedgerType, PendingType
<1>2. g \in [DOMAIN cache -> Nat]
  BY PendingTypeNext
<1>3. g[x] + a <= f[x] + b /\ \A p \in DOMAIN cache : p # x => g[p] <= f[p]
  OBVIOUS
<1>4. StillToCome(k) = SumOf(f) /\ StillToCome(k)' = SumOf(g)
  BY DEF StillToCome
<1> HIDE DEF f, g
<1> QED BY <1>1, <1>2, <1>3, <1>4, SumShift

-----------------------------------------------------------------------------
(***************************************************************************)
(* The steps of the watchdog move bytes from one entry of the ledger to    *)
(* another: from what is to come into the TrafficInfo, and from there into *)
(* the queue.                                                              *)
(***************************************************************************)

\* Nothing that matters for a peer changes.
LEMMA SamePending ==
    ASSUME NEW p, NEW k, wg' = wg,
           Fetched(p, k)' <=> Fetched(p, k),
           Fetched(p, k) => stats' = stats,
           InSend(p, k)' <=> InSend(p, k),
           InSend(p, k) => peer' = peer /\ info' = info,
           IsCached(p, k)' <=> IsCached(p, k),
           IsCached(p, k) => cache'[p][k] = cache[p][k]
    PROVE  Pending(p, k)' = Pending(p, k)
<1>1. ASSUME NEW b PROVE KernelAhead(p, k, b)' = KernelAhead(p, k, b)
  BY DEF KernelAhead, HasPeer
<1>2. CASE Fetched(p, k)
  BY <1>2 DEF Pending, KernelAhead, HasPeer
<1>3. CASE ~Fetched(p, k) /\ InSend(p, k)
  BY <1>3 DEF Pending, KernelAhead, HasPeer
<1>4. CASE ~Fetched(p, k) /\ ~InSend(p, k)
  BY <1>4 DEF Pending, KernelAhead, HasPeer
<1> QED BY <1>2, <1>3, <1>4

\* The watchdog is done with a peer, and the cache is as it was.
LEMMA CacheOnly ==
    ASSUME TypeInv, NEW p, NEW k, wg' = wg, ~Fetched(p, k)', ~InSend(p, k)',
           IsCached(p, k)' => IsCached(p, k) /\ cache'[p][k] = cache[p][k],
           InSend(p, k) => BytesOf(info, k) = 0
    PROVE  Pending(p, k)' <= Pending(p, k)
<1>1. Pending(p, k) \in Nat
  BY PendingType
<1>2. CASE IsCached(p, k)'
  <2>1. Pending(p, k)' = KernelAhead(p, k, cache[p][k])
    BY <1>2 DEF Pending, KernelAhead, HasPeer
  <2> QED BY <1>2, <2>1, PendingAtLeast
<1>3. CASE ~IsCached(p, k)'
  BY <1>1, <1>3 DEF Pending
<1> QED BY <1>2, <1>3

\* A poll starts with an empty TrafficInfo; a dropped cache has nothing to come.
LEMMA RunLedger ==
    ASSUME TypeInv, TypeInv', watchdog_run, NEW k
    PROVE  /\ InHand(k)' = InHand(k)
           /\ StillToCome(k)' <= StillToCome(k)
<1>1. wpc = "tick" /\ wg' = wg
  BY DEF watchdog_run
<1>2. CASE Relaunch
  <2>1. DOMAIN cache' = {} /\ wpc' = "tick"
    BY <1>2 DEF Relaunch, EmptyMap
  <2> QED BY <1>1, <2>1, NoMoreToCome DEF InHand
<1>3. CASE wpc' = "run" /\ info' = TrafficInfo_new(0) /\ cache' = cache
  <2>1. InHand(k)' = 0
    BY <1>3, NewInfoBytes DEF InHand
  <2>2. ASSUME NEW p PROVE Pending(p, k)' = Pending(p, k)
    BY <1>1, <1>3, SamePending DEF Fetched, InSend, IsCached
  <2>3. \A p : Pending(p, k) \in Nat
    BY PendingType
  <2> QED BY <1>1, <1>3, <2>1, <2>2, <2>3, NoMoreToCome DEF InHand
<1> QED BY <1>2, <1>3 DEF watchdog_run

\* When the statistics are fetched they are the kernel's, so that nothing is
\* counted for the time in between.
LEMMA NetnsLedger ==
    ASSUME TypeInv, TypeInv', NEW x \in names, watchdog_netns(x), NEW k
    PROVE  /\ InHand(k)' = InHand(k)
           /\ StillToCome(k)' <= StillToCome(k)
<1>1. wpc = "run" /\ wg' = wg /\ info' = info
  BY DEF watchdog_netns
<1>0. \A p : Pending(p, k) \in Nat
  BY PendingType
<1>2. CASE UNCHANGED <<stats, left, cache, wpc>>
  <2>1. ASSUME NEW p PROVE Pending(p, k)' = Pending(p, k)
    BY <1>1, <1>2, SamePending DEF Fetched, InSend, IsCached
  <2> QED BY <1>0, <1>1, <1>2, <2>1, NoMoreToCome DEF InHand
<1>3. CASE /\ x \in DOMAIN wg
           /\ wg[x] # None
           /\ stats' = [listen_port |-> x, public_key |-> wg[x].public_key, peers |-> wg[x].peers]
           /\ left' = DOMAIN wg[x].peers
           /\ cache' = With(cache, x, Lookup(cache, x, EmptyMap))
           /\ wpc' = "peers"
  <2>1. ASSUME NEW p PROVE IsCached(p, k)' <=> IsCached(p, k)
    BY <1>3 DEF IsCached, With, Lookup, EmptyMap
  <2>2. ASSUME NEW p, IsCached(p, k) PROVE cache'[p][k] = cache[p][k]
    BY <1>3, <2>2 DEF IsCached, With, Lookup
  <2>3. ASSUME NEW p, p # x PROVE Pending(p, k)' = Pending(p, k)
    BY <1>1, <1>3, <2>1, <2>2, <2>3, SamePending DEF Fetched, InSend
  <2>4. CASE k \notin DOMAIN wg[x].peers
    <3>1. Pending(x, k)' = Pending(x, k)
      BY <1>1, <1>3, <2>1, <2>2, <2>4, SamePending DEF Fetched, InSend
    <3>2. x \notin DOMAIN cache => Pending(x, k) = 0
      BY <1>1 DEF Pending, Fetched, InSend, IsCached
    <3>3. \A p \in DOMAIN cache' : p # x => p \in DOMAIN cache
      BY <1>3 DEF With
    <3> QED BY <1>0, <1>1, <1>3, <2>3, <3>1, <3>2, <3>3, NoMoreToCome DEF InHand
  <2>5. CASE k \in DOMAIN wg[x].peers
    <3>1. HasPeer(x, k) /\ HasCounters(wg[x].peers[k])
      BY <1>3, <2>5, Counters DEF HasPeer
    <3>2. Fetched(x, k)' /\ stats'.peers[k] = wg[x].peers[k]
      BY <1>3, <2>5 DEF Fetched
    <3>3. KernelAhead(x, k, wg[x].peers[k]) = 0
      BY <3>1, AheadFacts DEF KernelAhead
    <3>4. CASE IsCached(x, k)
      <4>1. HasCounters(cache[x][k])
        BY <3>4, Counters
      <4>2. Pending(x, k)' = Ahead(wg[x].peers[k], cache[x][k]) + KernelAhead(x, k, wg[x].peers[k])
        BY <1>1, <2>1, <2>2, <3>2, <3>4 DEF Pending, KernelAhead, HasPeer
      <4>3. Pending(x, k) = Ahead(wg[x].peers[k], cache[x][k])
        BY <1>1, <1>3, <3>1, <3>4 DEF Pending, Fetched, InSend, KernelAhead
      <4>4. Ahead(wg[x].peers[k], cache[x][k]) \in Nat
        BY <3>1, <4>1, AheadFacts
      <4>5. Pending(x, k)' = Pending(x, k) /\ x \in DOMAIN cache
        BY <3>3, <3>4, <4>2, <4>3, <4>4 DEF IsCached
      <4>6. \A p \in DOMAIN cache' : p \in DOMAIN cache
        BY <1>3, <4>5 DEF With
      <4> QED BY <1>0, <1>1, <1>3, <2>3, <4>5, <4>6, NoMoreToCome DEF InHand
    <3>5. CASE ~IsCached(x, k)
      <4>1. Pending(x, k)' = 0 + KernelAhead(x, k, wg[x].peers[k])
        BY <1>1, <2>1, <3>2, <3>5 DEF Pending, KernelAhead, HasPeer
      <4>2. Pending(x, k)' = 0
        BY <3>3, <4>1
      <4>3. \A p \in DOMAIN cache' : p # x => p \in DOMAIN cache
        BY <1>3 DEF With
      <4> QED BY <1>0, <1>1, <1>3, <2>3, <4>2, <4>3, NoMoreToCome DEF InHand
    <3> QED BY <3>4, <3>5
  <2> QED BY <2>4, <2>5
<1> QED BY <1>2, <1>3 DEF watchdog_netns

\* What watchdog_peer counts is at most the difference of the counters; a new
\* peer, and one whose counters went back, counts for nothing.
LEMMA InfoWithBytes ==
    ASSUME info \in TrafficInfo, now \in Int, stats.public_key \in Pubkey,
           NEW previous \in PeerStats \cup {None}, NEW q \in PeerStats, NEW d \in Pubkey
    PROVE  /\ \A k : k # d => BytesOf(InfoWith(previous, q, d), k) = BytesOf(info, k)
           /\ \E a \in Nat :
                /\ BytesOf(InfoWith(previous, q, d), d) = BytesOf(info, d) + a
                /\ previous = None => a = 0
                /\ previous # None => a <= Ahead(q, previous)
<1>0. \A k : BytesOf(info, k) \in Nat
  BY BytesType
<1>1. CASE previous = None \/ InfoWith(previous, q, d) = info
  <2>1. InfoWith(previous, q, d) = info
    BY <1>1 DEF InfoWith
  <2>2. previous # None => Ahead(q, previous) \in Nat
    BY AheadFacts DEF HasCounters, PeerStats
  <2>3. BytesOf(info, d) = BytesOf(info, d) + 0
    BY <1>0
  <2>4. previous # None => 0 <= Ahead(q, previous)
    BY <2>2
  <2> HIDE DEF Ahead
  <2> QED BY <2>1, <2>3, <2>4
<1>2. CASE previous # None /\ InfoWith(previous, q, d) # info
  <2> DEFINE r == (q.rx - previous.rx) % Usize
             x == (q.tx - previous.tx) % Usize
             t == NewTraffic(r, x)
  <2>1. previous \in PeerStats /\ ~CacheInvalid(previous, q)
    BY <1>2 DEF InfoWith
  <2>2. q.rx - previous.rx \in Nat /\ q.tx - previous.tx \in Nat
    BY <2>1 DEF CacheInvalid, PeerStats
  <2>3. r \in Nat /\ r <= q.rx - previous.rx
    BY <2>2, UsizeFacts
  <2>4. x \in Nat /\ x <= q.tx - previous.tx
    BY <2>2, UsizeFacts
  <2>5. InfoWith(previous, q, d) = TrafficInfo_add(info, stats.public_key, d, now, t)
    BY <1>2 DEF InfoWith, TrafficOf
  <2> HIDE DEF r, x
  <2>6. t \in TrafficType /\ Bytes(t) = r + x
    BY <2>3, <2>4 DEF NewTraffic, TrafficType, Bytes
  <2> HIDE DEF t
  <2>7. \A k : BytesOf(InfoWith(previous, q, d), k) = BytesOf(info, k) + (IF k = d THEN Bytes(t) ELSE 0)
    BY <2>5, <2>6, BytesAdd
  <2>8. r + x <= Ahead(q, previous) /\ r + x \in Nat
    BY <2>1, <2>2, <2>3, <2>4 DEF Ahead, PeerStats
  <2>9. ASSUME NEW k, k # d PROVE BytesOf(InfoWith(previous, q, d), k) = BytesOf(info, k)
    BY <1>0, <2>7, <2>9
  <2>10. BytesOf(InfoWith(previous, q, d), d) = BytesOf(info, d) + (r + x)
    BY <2>6, <2>7
  <2> QED BY <1>2, <2>8, <2>9, <2>10
<1> QED BY <1>1, <1>2

\* watchdog_peer moves what the fetched counters are ahead of the cache into the
\* TrafficInfo, or forgets it.
LEMMA PeerLedger ==
    ASSUME TypeInv, TypeInv', NEW d \in left, watchdog_peer(d), NEW k
    PROVE  InHand(k)' + StillToCome(k)' <= InHand(k) + StillToCome(k)
<1>0. PICK x : x = stats.listen_port
  OBVIOUS
<1> DEFINE q        == Judged(stats.peers[d])
           previous == Previous(d)
           events   == EventsOf(previous, q, stats.public_key, d)
<1>1. /\ wpc = "peers" /\ peer = None /\ info \in TrafficInfo /\ now \in Int
      /\ d \in DOMAIN stats.peers /\ left \subseteq DOMAIN stats.peers /\ WatchInv
  BY ClockAssumption DEF watchdog_peer, WatchInv, TypeInv, KernelInv
<1>2. left' = left \ {d} /\ wg' = wg /\ stats' = stats
  BY DEF watchdog_peer
<1>3. /\ d \in Pubkey /\ stats.peers[d] \in KernelPeer /\ stats.public_key \in Pubkey
      /\ stats.listen_port \in DOMAIN cache
  BY <1>1, CacheHere
<1>4. q \in PeerStats /\ q.rx = stats.peers[d].rx /\ q.tx = stats.peers[d].tx
  BY <1>3, JudgedType
<1>5. /\ previous \in PeerStats \cup {None}
      /\ IsCached(x, d) => previous = cache[x][d] /\ previous # None
      /\ ~IsCached(x, d) => previous = None
  BY <1>0, <1>1, <1>3, PreviousType DEF IsCached
<1>6. /\ \A j : j # d => BytesOf(InfoWith(previous, q, d), j) = BytesOf(info, j)
      /\ \E a \in Nat :
           /\ BytesOf(InfoWith(previous, q, d), d) = BytesOf(info, d) + a
           /\ previous = None => a = 0
           /\ previous # None => a <= Ahead(q, previous)
  BY <1>1, <1>3, <1>4, <1>5, InfoWithBytes
<1> HIDE DEF q, previous, events
<1>7. Fetched(x, d) /\ HasCounters(stats.peers[d]) /\ HasCounters(q)
  BY <1>0, <1>1, <1>4, Counters DEF Fetched, HasCounters, PeerStats
<1>8. \A b : Ahead(q, b) = Ahead(stats.peers[d], b)
  BY <1>4 DEF Ahead
<1>9. Pending(x, d) = (IF IsCached(x, d) THEN Ahead(q, cache[x][d]) ELSE 0) + KernelAhead(x, d, q)
  <2>1. KernelAhead(x, d, q) = KernelAhead(x, d, stats.peers[d])
    BY <1>4 DEF KernelAhead, Ahead
  <2> QED BY <1>7, <1>8, <2>1 DEF Pending
<1>10. \A p : Pending(p, k) \in Nat
  BY PendingType
<1>11. InHand(k) = BytesOf(info, k) /\ BytesOf(info, k) \in Nat
  BY <1>1, BytesType DEF InHand
<1>12. ASSUME wpc' # "tick", info' = info,
              \A p \in DOMAIN cache : Pending(p, k)' <= Pending(p, k), cache' = cache
       PROVE  InHand(k)' + StillToCome(k)' <= InHand(k) + StillToCome(k)
  <2>1. StillToCome(k)' <= StillToCome(k)
    BY <1>12, NoMoreToCome
  <2>2. InHand(k)' = InHand(k)
    BY <1>11, <1>12 DEF InHand
  <2> QED BY <2>1, <2>2, LedgerType, LedgerTypeNext
<1>13. CASE wpc' = "peers" /\ UNCHANGED <<cache, info, peer, outbox>>
  <2>1. ASSUME NEW p, p # x \/ k # d PROVE Pending(p, k)' = Pending(p, k)
    BY <1>0, <1>1, <1>2, <1>13, <2>1, SamePending DEF Fetched, InSend, IsCached
  <2>2. ASSUME k = d PROVE Pending(x, k)' <= Pending(x, k)
    BY <1>1, <1>2, <1>13, <2>2, CacheOnly DEF Fetched, InSend, IsCached
  <2> QED BY <1>10, <1>12, <1>13, <2>1, <2>2
<1>14. CASE wpc' = "panicked" /\ UNCHANGED <<cache, info, peer, outbox>>
  <2>1. ASSUME NEW p PROVE Pending(p, k)' <= Pending(p, k)
    BY <1>1, <1>2, <1>14, CacheOnly DEF Fetched, InSend, IsCached
  <2> QED BY <1>12, <1>14, <2>1
<1>15. CASE info' = InfoWith(previous, q, d) /\ Cached(d, q)
  <2>1. /\ DOMAIN cache' = DOMAIN cache
        /\ cache'[x] = With(cache[x], d, q)
        /\ \A p \in DOMAIN cache : p # x => cache'[p] = cache[p]
        /\ wpc' = "peers"
    BY <1>0, <1>1, <1>3, <1>4, <1>15, CachedType DEF Cached
  <2>2. ASSUME NEW p, p # x \/ k # d PROVE Pending(p, k)' = Pending(p, k)
    <3>1. IsCached(p, k)' <=> IsCached(p, k)
      BY <1>0, <1>3, <2>1, <2>2 DEF IsCached, With
    <3>2. IsCached(p, k) => cache'[p][k] = cache[p][k]
      BY <1>0, <1>3, <2>1, <2>2 DEF IsCached, With
    <3> QED BY <1>0, <1>1, <1>2, <2>1, <2>2, <3>1, <3>2, SamePending DEF Fetched, InSend
  <2>3. InHand(k)' = BytesOf(InfoWith(previous, q, d), k)
    BY <1>15, <2>1 DEF InHand
  <2>4. CASE k # d
    <3>1. StillToCome(k)' <= StillToCome(k)
      BY <1>10, <2>1, <2>2, <2>4, NoMoreToCome
    <3> QED BY <1>6, <1>11, <2>3, <2>4, <3>1, LedgerType, LedgerTypeNext
  <2>5. CASE k = d
    <3>1. PICK a \in Nat : /\ BytesOf(InfoWith(previous, q, d), d) = BytesOf(info, d) + a
                           /\ previous = None => a = 0
                           /\ previous # None => a <= Ahead(q, previous)
      BY <1>6
    <3>2. ~Fetched(x, d)' /\ ~InSend(x, d)' /\ IsCached(x, d)' /\ cache'[x][d] = q
      BY <1>0, <1>2, <1>3, <2>1 DEF Fetched, InSend, IsCached, With
    <3>3. Pending(x, d)' = KernelAhead(x, d, q)
      BY <1>2, <3>2 DEF Pending, KernelAhead, HasPeer
    <3>4. KernelAhead(x, d, q) \in Nat
      BY <1>7, KernelAheadFacts
    <3>5. IsCached(x, d) => Ahead(q, cache[x][d]) \in Nat
      BY <1>7, Counters, AheadFacts
    <3>6. Pending(x, d)' + a <= Pending(x, d) + 0
      BY <1>5, <1>9, <3>1, <3>3, <3>4, <3>5
    <3>7. StillToCome(k)' + a <= StillToCome(k) + 0
      BY <1>0, <1>3, <1>10, <2>1, <2>2, <2>5, <3>6, OneShifts
    <3> QED BY <1>11, <2>3, <2>5, <3>1, <3>7, LedgerType, LedgerTypeNext
  <2> QED BY <2>4, <2>5
<1>16. CASE /\ info' = InfoWith(previous, q, d)
            /\ wpc' = "send"
            /\ peer' = [key |-> d, stats |-> q]
            /\ UNCHANGED cache
  <2>1. ASSUME NEW p, p # x \/ k # d PROVE Pending(p, k)' = Pending(p, k)
    BY <1>0, <1>1, <1>2, <1>16, <2>1, SamePending DEF Fetched, InSend, IsCached
  <2>2. InHand(k)' = BytesOf(InfoWith(previous, q, d), k)
    BY <1>16 DEF InHand
  <2>3. CASE k # d
    <3>1. StillToCome(k)' <= StillToCome(k)
      BY <1>10, <1>16, <2>1, <2>3, NoMoreToCome
    <3> QED BY <1>6, <1>11, <2>2, <2>3, <3>1, LedgerType, LedgerTypeNext
  <2>4. CASE k = d
    <3>1. PICK a \in Nat : /\ BytesOf(InfoWith(previous, q, d), d) = BytesOf(info, d) + a
                           /\ previous = None => a = 0
                           /\ previous # None => a <= Ahead(q, previous)
      BY <1>6
    <3>2. ~Fetched(x, d)' /\ InSend(x, d)' /\ (IsCached(x, d)' <=> IsCached(x, d)) /\ peer'.stats = q
      BY <1>0, <1>2, <1>16 DEF Fetched, InSend, IsCached
    <3>3. Pending(x, d)' = (IF IsCached(x, d) /\ BytesOf(info', d) = 0 THEN Ahead(q, cache[x][d]) ELSE 0)
                             + KernelAhead(x, d, q)
      BY <1>2, <1>16, <3>2 DEF Pending, KernelAhead, HasPeer
    <3>4. KernelAhead(x, d, q) \in Nat
      BY <1>7, KernelAheadFacts
    <3>5. IsCached(x, d) => Ahead(q, cache[x][d]) \in Nat
      BY <1>7, Counters, AheadFacts
    <3>6. BytesOf(info', d) = 0 => a = 0
      BY <1>11, <1>16, <2>4, <3>1
    <3>7. Pending(x, d)' + a <= Pending(x, d) + 0
      BY <1>5, <1>9, <3>1, <3>3, <3>4, <3>5, <3>6
    <3>8. StillToCome(k)' + a <= StillToCome(k) + 0
      BY <1>0, <1>3, <1>10, <1>16, <2>1, <2>4, <3>7, OneShifts
    <3> QED BY <1>11, <2>2, <2>4, <3>1, <3>8, LedgerType, LedgerTypeNext
  <2> QED BY <2>3, <2>4
<1> QED BY <1>1, <1>13, <1>14, <1>15, <1>16 DEF watchdog_peer, q, previous, events

\* An event is sent, or refused: the peer's traffic is already counted, and if
\* the cache keeps its old counters there must have been none.
LEMMA EventLedger ==
    ASSUME TypeInv, TypeInv', watchdog_event, NEW k, Refused => BytesOf(info, peer.key) = 0
    PROVE  InHand(k)' = InHand(k) /\ StillToCome(k)' <= StillToCome(k)
<1>0. PICK x : x = stats.listen_port
  OBVIOUS
<1>1. /\ wpc = "send" /\ WatchInv /\ peer \in [key : Pubkey, stats : PeerStats]
      /\ peer.key \in DOMAIN stats.peers \ left /\ stats.listen_port \in DOMAIN cache
      /\ outbox # <<>>
  BY DEF watchdog_event, TypeInv, WatchInv
<1>2. UNCHANGED <<info, stats, left, wg>>
  BY DEF watchdog_event
<1>3. \A p : Pending(p, k) \in Nat
  BY PendingType
<1>4. PICK d : d = peer.key
  OBVIOUS
<1>5. InSend(x, d) /\ ~Fetched(x, d) /\ HasCounters(peer.stats)
  BY <1>0, <1>1, <1>4, Counters DEF InSend, Fetched
<1>6. CASE Cached(peer.key, peer.stats)
  <2>1. /\ DOMAIN cache' = DOMAIN cache
        /\ cache'[x] = With(cache[x], d, peer.stats)
        /\ \A p \in DOMAIN cache : p # x => cache'[p] = cache[p]
    BY <1>0, <1>1, <1>4, <1>6, CachedType
  <2>2. wpc' = "peers" /\ peer' = None
    BY <1>6 DEF Cached
  <2>3. InHand(k)' = InHand(k)
    BY <1>1, <1>2, <2>2 DEF InHand
  <2>4. ASSUME NEW p, p # x \/ k # d PROVE Pending(p, k)' = Pending(p, k)
    <3>1. IsCached(p, k)' <=> IsCached(p, k)
      BY <1>0, <1>1, <2>1, <2>4 DEF IsCached, With
    <3>2. IsCached(p, k) => cache'[p][k] = cache[p][k]
      BY <1>0, <1>1, <2>1, <2>4 DEF IsCached, With
    <3> QED BY <1>0, <1>1, <1>2, <1>4, <2>2, <2>4, <3>1, <3>2, SamePending DEF Fetched, InSend
  <2>5. ASSUME k = d PROVE Pending(x, k)' <= Pending(x, k)
    <3>1. ~Fetched(x, d)' /\ ~InSend(x, d)' /\ IsCached(x, d)' /\ cache'[x][d] = peer.stats
      BY <1>0, <1>1, <1>2, <1>4, <2>1, <2>2 DEF Fetched, InSend, IsCached, With
    <3>2. Pending(x, d)' = KernelAhead(x, d, peer.stats)
      BY <1>2, <3>1 DEF Pending, KernelAhead, HasPeer
    <3>3. KernelAhead(x, d, peer.stats) \in Nat
      BY <1>5, KernelAheadFacts
    <3>4. IsCached(x, d) => Ahead(peer.stats, cache[x][d]) \in Nat
      BY <1>5, Counters, AheadFacts
    <3>5. Pending(x, d) = (IF IsCached(x, d) /\ BytesOf(info, d) = 0 THEN Ahead(peer.stats, cache[x][d]) ELSE 0)
                            + KernelAhead(x, d, peer.stats)
      BY <1>5 DEF Pending
    <3> QED BY <2>5, <3>2, <3>3, <3>4, <3>5
  <2> QED BY <1>3, <2>1, <2>3, <2>4, <2>5, NoMoreToCome
<1>7. CASE UNCHANGED <<cache, wpc, peer>>
  <2>1. ASSUME NEW p PROVE Pending(p, k)' = Pending(p, k)
    BY <1>2, <1>7, SamePending DEF Fetched, InSend, IsCached
  <2>2. InHand(k)' = InHand(k)
    BY <1>2, <1>7 DEF InHand
  <2> QED BY <1>3, <1>7, <2>1, <2>2, NoMoreToCome
<1>8. CASE wpc' = "peers" /\ peer' = None /\ UNCHANGED cache /\ ~events_broadcast.open
  <2>1. BytesOf(info, d) = 0
    BY <1>1, <1>4, <1>8 DEF Refused
  <2>2. ASSUME NEW p, p # x \/ k # d PROVE Pending(p, k)' = Pending(p, k)
    BY <1>0, <1>1, <1>2, <1>4, <1>8, <2>2, SamePending DEF Fetched, InSend, IsCached
  <2>3. ASSUME k = d PROVE Pending(x, k)' <= Pending(x, k)
    BY <1>1, <1>2, <1>4, <1>8, <2>1, <2>3, CacheOnly DEF Fetched, InSend, IsCached
  <2>4. InHand(k)' = InHand(k)
    BY <1>1, <1>2, <1>8 DEF InHand
  <2> QED BY <1>3, <1>8, <2>2, <2>3, <2>4, NoMoreToCome
<1> QED BY <1>6, <1>7, <1>8 DEF watchdog_event

\* The peers that are gone from the interface are found, and leave the cache
\* with what their counters were.
LEMMA DeadPeersLedger ==
    ASSUME TypeInv, TypeInv', dead_peers, NEW k
    PROVE  InHand(k)' = InHand(k) /\ StillToCome(k)' <= StillToCome(k)
<1>1. wpc = "peers" /\ left = {} /\ wpc' \in {"run", "dead"} /\ UNCHANGED <<cache, info, wg>>
  BY DEF dead_peers, Bury
<1>2. ASSUME NEW p PROVE Pending(p, k)' = Pending(p, k)
  BY <1>1, SamePending DEF Fetched, InSend, IsCached
<1>3. \A p : Pending(p, k) \in Nat
  BY PendingType
<1>4. InHand(k)' = InHand(k)
  BY <1>1 DEF InHand
<1> QED BY <1>1, <1>2, <1>3, <1>4, NoMoreToCome

\* A dead peer takes what it may still report with it.
LEMMA DeadPeerLedger ==
    ASSUME TypeInv, TypeInv', NEW d \in left, dead_peer(d), NEW k
    PROVE  InHand(k)' = InHand(k) /\ StillToCome(k)' <= StillToCome(k)
<1>0. PICK x : x = stats.listen_port
  OBVIOUS
<1>1. /\ wpc = "dead" /\ wpc' \in {"run", "dead"} /\ UNCHANGED <<info, wg>> /\ WatchInv
      /\ stats.listen_port \in DOMAIN cache
  BY DEF dead_peer, Bury, TypeInv, WatchInv
<1>2. /\ DOMAIN cache' = DOMAIN cache
      /\ cache'[x] = Without(cache[x], d)
      /\ \A p \in DOMAIN cache : p # x => cache'[p] = cache[p]
  BY <1>0, <1>1, RemovedType
<1>3. ASSUME NEW p PROVE IsCached(p, k)' => IsCached(p, k) /\ cache'[p][k] = cache[p][k]
  BY <1>0, <1>1, <1>2 DEF IsCached, Without
<1>4. ASSUME NEW p PROVE Pending(p, k)' <= Pending(p, k)
  BY <1>1, <1>3, CacheOnly DEF Fetched, InSend
<1>5. InHand(k)' = InHand(k)
  BY <1>1 DEF InHand
<1> QED BY <1>2, <1>4, <1>5, NoMoreToCome

\* The TrafficInfo moves into the queue, where an older one may be lost, or is
\* lost itself together with the cache.
LEMMA SendTrafficLedger ==
    ASSUME TypeInv, TypeInv', send_traffic, NEW k
    PROVE  InQueue(k)' + InHand(k)' + StillToCome(k)' <= InQueue(k) + InHand(k) + StillToCome(k)
<1>1. /\ wpc = "run" /\ wpc' = "tick" /\ wg' = wg /\ info \in TrafficInfo /\ info' = None
  BY DEF send_traffic, Relaunch, TypeInv, WatchInv
<1>2. InHand(k)' = 0 /\ InHand(k) = BytesOf(info, k)
  BY <1>1 DEF InHand
<1>3. CASE Relaunch /\ UNCHANGED traffic_broadcast
  <2>1. DOMAIN cache' = {}
    BY <1>3 DEF Relaunch, EmptyMap
  <2>2. StillToCome(k)' <= StillToCome(k)
    BY <2>1, NoMoreToCome
  <2>3. InQueue(k)' = InQueue(k)
    BY <1>3 DEF InQueue
  <2> QED BY <1>2, <2>2, <2>3, LedgerType, LedgerTypeNext
<1>4. CASE /\ traffic_broadcast' = send(traffic_broadcast, BROADCAST_QUEUE_TRAFFIC, info)
           /\ UNCHANGED cache
  <2> DEFINE q == traffic_broadcast.queue
             full == Len(q) = BROADCAST_QUEUE_TRAFFIC
             room == IF full THEN Tail(q) ELSE q
  <2>1. q \in Seq(TrafficInfo)
    BY LedgerType
  <2>2. /\ room \in Seq(TrafficInfo)
        /\ SumOf(BytesIn(room, k)) <= SumOf(BytesIn(q, k))
        /\ SumOf(BytesIn(room, k)) \in Nat
    <3>1. CASE full
      <4>1. q # <<>> /\ room = Tail(q)
        BY <3>1, QueueAssumption, EmptySeq
      <4>2. Tail(q) \in Seq(TrafficInfo) /\ Head(q) \in TrafficInfo
        BY <2>1, <4>1, HeadTailProperties
      <4>3. SumOf(BytesIn(q, k)) = BytesOf(Head(q), k) + SumOf(BytesIn(Tail(q), k))
        BY <2>1, <4>1, BytesReceived
      <4>4. BytesOf(Head(q), k) \in Nat /\ SumOf(BytesIn(Tail(q), k)) \in Nat
        BY <4>2, BytesType, BytesInType
      <4> HIDE DEF q, room
      <4> QED BY <4>1, <4>2, <4>3, <4>4
    <3>2. CASE ~full
      <4>1. room = q
        BY <3>2
      <4>2. SumOf(BytesIn(q, k)) \in Nat
        BY <2>1, BytesInType
      <4> HIDE DEF q, room
      <4> QED BY <2>1, <4>1, <4>2
    <3> QED BY <3>1, <3>2
  <2>3. traffic_broadcast'.queue = Append(room, info)
    BY <1>4 DEF send, TypeInv, ChannelInv, Channel
  <2>4. InQueue(k)' = SumOf(BytesIn(Append(room, info), k))
    BY <2>3 DEF InQueue, BytesIn
  <2>5. InQueue(k) = SumOf(BytesIn(q, k))
    BY LedgerType
  <2> HIDE DEF room, q
  <2>6. InQueue(k)' = SumOf(BytesIn(room, k)) + BytesOf(info, k)
    BY <1>1, <2>2, <2>4, BytesSent
  <2>7. ASSUME NEW p PROVE Pending(p, k)' = Pending(p, k)
    BY <1>1, <1>4, SamePending DEF Fetched, InSend, IsCached
  <2>8. StillToCome(k)' <= StillToCome(k)
    BY <1>4, <2>7, PendingType, NoMoreToCome
  <2> QED BY <1>2, <2>2, <2>5, <2>6, <2>8, LedgerType, LedgerTypeNext
<1> QED BY <1>3, <1>4 DEF send_traffic

-----------------------------------------------------------------------------
(***************************************************************************)
(* The websocket task moves bytes from the queue into what the manager was *)
(* told, or loses them; the watchdog does not notice.                      *)
(***************************************************************************)

\* The websocket task moves bytes from the queue to the manager, or loses them.
LEMMA WebsocketLedger ==
    ASSUME TypeInv, reported \in [Pubkey -> Nat], WebsocketStep \/ ConnectionLost
    PROVE  /\ reported' \in [Pubkey -> Nat]
           /\ \A k \in Pubkey : reported'[k] + InQueue(k)' <= reported[k] + InQueue(k)
<1>0. \A k : InQueue(k) \in Nat
  BY LedgerType
<1>1. ASSUME reported' = reported, \A k \in Pubkey : InQueue(k)' <= InQueue(k), \A k : InQueue(k)' \in Int
      PROVE  /\ reported' \in [Pubkey -> Nat]
             /\ \A k \in Pubkey : reported'[k] + InQueue(k)' <= reported[k] + InQueue(k)
  BY <1>0, <1>1
<1>2. CASE reported' = reported /\ traffic_broadcast' = traffic_broadcast
  BY <1>0, <1>2, <1>1 DEF InQueue
<1>3. CASE reported' = reported /\ traffic_broadcast'.queue = <<>>
  <2>1. ASSUME NEW k PROVE InQueue(k)' = 0
    BY <1>3, BytesNone DEF InQueue, BytesIn
  <2> QED BY <1>0, <1>1, <1>3, <2>1
<1>4. CASE /\ traffic_broadcast.queue # <<>>
           /\ reported' = [ k \in DOMAIN reported |->
                              reported[k] + BytesOf(Head(traffic_broadcast.queue), k) ]
           /\ traffic_broadcast' = Received(traffic_broadcast)
  <2> DEFINE q == traffic_broadcast.queue
  <2>1. q \in Seq(TrafficInfo)
    BY LedgerType
  <2>2. Head(q) \in TrafficInfo /\ Tail(q) \in Seq(TrafficInfo)
    BY <1>4, <2>1, HeadTailProperties
  <2>3. \A k : BytesOf(Head(q), k) \in Nat
    BY <2>2, BytesType
  <2>4. reported' \in [Pubkey -> Nat]
    BY <1>4, <2>3
  <2>5. traffic_broadcast'.queue = Tail(q)
    BY <1>4 DEF Received, TypeInv, ChannelInv, Channel
  <2>6. ASSUME NEW k \in Pubkey PROVE reported'[k] + InQueue(k)' <= reported[k] + InQueue(k)
    <3>1. InQueue(k)' = SumOf(BytesIn(Tail(q), k))
      BY <2>5 DEF InQueue, BytesIn
    <3>2. InQueue(k) = BytesOf(Head(q), k) + SumOf(BytesIn(Tail(q), k))
      BY <1>4, <2>1, BytesReceived, LedgerType
    <3>3. SumOf(BytesIn(Tail(q), k)) \in Nat
      BY <2>2, BytesInType
    <3>4. reported'[k] = reported[k] + BytesOf(Head(q), k) /\ reported[k] \in Nat
      BY <1>4
    <3> HIDE DEF q
    <3> QED BY <2>3, <3>1, <3>2, <3>3, <3>4
  <2> QED BY <2>4, <2>6
<1>5. CASE Dropped /\ reported' = reported
  BY <1>3, <1>5 DEF Dropped, Unsubscribed
<1>6. CASE Exited /\ reported' = reported
  BY <1>3, <1>6 DEF Exited, Unsubscribed
<1>7. CASE connect_run
  BY <1>3, <1>7 DEF connect_run, subscribe
<1>8. CASE subscribe_events
  BY <1>2, <1>8 DEF subscribe_events
<1>9. CASE NextMessage
  <2>1. Head(inbox) \in Request
    BY <1>9, HeadTailProperties DEF NextMessage, TypeInv, ChannelInv
  <2> QED BY <1>2, <1>5, <1>6, <1>9, <2>1 DEF NextMessage, Read, Request
<1>10. CASE ApplyReturns
  BY <1>2, <1>5, <1>6, <1>10 DEF ApplyReturns
<1>11. CASE ForwardEvent
  BY <1>2, <1>5, <1>11 DEF ForwardEvent
<1>12. CASE ForwardTraffic
  BY <1>4, <1>5, <1>12 DEF ForwardTraffic
<1>13. CASE ConnectionLost
  BY <1>5, <1>13 DEF ConnectionLost
<1> QED BY <1>7, <1>8, <1>9, <1>10, <1>11, <1>12, <1>13 DEF WebsocketStep

\* The watchdog does not move, and neither does the kernel.
LEMMA NothingToCome ==
    ASSUME TypeInv, TypeInv', UNCHANGED <<watchdogVars, wg>>, NEW k
    PROVE  InHand(k)' = InHand(k) /\ StillToCome(k)' <= StillToCome(k)
<1>1. UNCHANGED <<cache, wpc, info, stats, left, peer>>
  BY DEF watchdogVars, localVars
<1>2. ASSUME NEW p PROVE Pending(p, k)' = Pending(p, k)
  BY <1>1, SamePending DEF Fetched, InSend, IsCached
<1>3. InHand(k)' = InHand(k)
  BY <1>1 DEF InHand
<1> QED BY <1>1, <1>2, <1>3, PendingType, NoMoreToCome

-----------------------------------------------------------------------------
(***************************************************************************)
(* The kernel: only traffic makes a counter grow, by as much as the peer   *)
(* generates.  An apply resets counters or keeps them.                     *)
(***************************************************************************)

\* Bytes that the kernel counts are all that is added to what may still be reported.
LEMMA KernelPending ==
    ASSUME TypeInv, UNCHANGED watchdogVars, NEW p, NEW k, NEW b \in Nat,
           \A c : HasCounters(c) => KernelAhead(p, k, c)' <= KernelAhead(p, k, c) + b,
           \A c : HasCounters(c) => KernelAhead(p, k, c)' \in Nat
    PROVE  Pending(p, k)' <= Pending(p, k) + b
<1>1. UNCHANGED <<cache, wpc, info, stats, left, peer>>
  BY DEF watchdogVars, localVars
<1>2. /\ Fetched(p, k)' <=> Fetched(p, k)
      /\ InSend(p, k)' <=> InSend(p, k)
      /\ IsCached(p, k)' <=> IsCached(p, k)
  BY <1>1 DEF Fetched, InSend, IsCached
<1>3. ASSUME NEW c, HasCounters(c) PROVE KernelAhead(p, k, c) \in Nat
  BY <1>3, KernelAheadFacts
<1>4. CASE Fetched(p, k)
  <2>1. PICK c : c = stats.peers[k]
    OBVIOUS
  <2> DEFINE a == IF IsCached(p, k) THEN Ahead(c, cache[p][k]) ELSE 0
  <2>2. HasCounters(c)
    BY <1>4, <2>1, Counters
  <2>3. a \in Nat
    BY <2>2, Counters, AheadFacts
  <2>4. Pending(p, k) = a + KernelAhead(p, k, c)
    BY <1>4, <2>1 DEF Pending
  <2>5. Pending(p, k)' = a + KernelAhead(p, k, c)'
    BY <1>1, <1>2, <1>4, <2>1 DEF Pending
  <2> HIDE DEF a
  <2> QED BY <1>3, <2>2, <2>3, <2>4, <2>5
<1>5. CASE ~Fetched(p, k) /\ InSend(p, k)
  <2>1. PICK c : c = peer.stats
    OBVIOUS
  <2> DEFINE a == IF IsCached(p, k) /\ BytesOf(info, k) = 0 THEN Ahead(c, cache[p][k]) ELSE 0
  <2>2. HasCounters(c)
    BY <1>5, <2>1, Counters
  <2>3. a \in Nat
    BY <2>2, Counters, AheadFacts
  <2>4. Pending(p, k) = a + KernelAhead(p, k, c)
    BY <1>5, <2>1 DEF Pending
  <2>5. Pending(p, k)' = a + KernelAhead(p, k, c)'
    BY <1>1, <1>2, <1>5, <2>1 DEF Pending
  <2> HIDE DEF a
  <2> QED BY <1>3, <2>2, <2>3, <2>4, <2>5
<1>6. CASE ~Fetched(p, k) /\ ~InSend(p, k)
  <2>1. CASE IsCached(p, k)
    <3>1. PICK c : c = cache[p][k]
      OBVIOUS
    <3>2. HasCounters(c)
      BY <2>1, <3>1, Counters
    <3>3. Pending(p, k) = KernelAhead(p, k, c)
      BY <1>6, <2>1, <3>1 DEF Pending
    <3>4. Pending(p, k)' = KernelAhead(p, k, c)'
      BY <1>1, <1>2, <1>6, <2>1, <3>1 DEF Pending
    <3> QED BY <3>2, <3>3, <3>4
  <2>2. CASE ~IsCached(p, k)
    BY <1>2, <1>6, <2>2 DEF Pending
  <2> QED BY <2>1, <2>2
<1> QED BY <1>4, <1>5, <1>6

\* How far the kernel is ahead is a number,
LEMMA KernelAheadType ==
    TypeInv => \A p, k, c : HasCounters(c) => KernelAhead(p, k, c) \in Nat
<1> SUFFICES ASSUME TypeInv, NEW p, NEW k, NEW c, HasCounters(c)
             PROVE  KernelAhead(p, k, c) \in Nat
  OBVIOUS
<1> QED BY KernelAheadFacts

\* also after a step.
LEMMA KernelAheadTypeNext ==
    TypeInv' => (\A p, k, c : HasCounters(c) => KernelAhead(p, k, c) \in Nat)'
BY KernelAheadType, PTL

\* The counters the kernel has for a peer are the old ones, or zero.
LEMMA CountersKept ==
    ASSUME TypeInv, TypeInv', UNCHANGED watchdogVars, NEW p, NEW k,
           p \in DOMAIN wg' /\ HasPeer(p, k)' =>
              \/ wg'[p].peers[k].rx = 0 /\ wg'[p].peers[k].tx = 0
              \/ /\ p \in DOMAIN wg
                 /\ HasPeer(p, k)
                 /\ wg'[p].peers[k].rx = wg[p].peers[k].rx
                 /\ wg'[p].peers[k].tx = wg[p].peers[k].tx
    PROVE  Pending(p, k)' <= Pending(p, k)
<1>1. ASSUME NEW c, HasCounters(c)
      PROVE  /\ KernelAhead(p, k, c)' <= KernelAhead(p, k, c) + 0
             /\ KernelAhead(p, k, c)' \in Nat
  <2>1. KernelAhead(p, k, c) \in Nat /\ KernelAhead(p, k, c)' \in Nat
    BY <1>1, KernelAheadType, KernelAheadTypeNext
  <2>2. CASE ~(p \in DOMAIN wg' /\ HasPeer(p, k)')
    BY <2>1, <2>2 DEF KernelAhead
  <2>3. CASE /\ p \in DOMAIN wg' /\ HasPeer(p, k)'
             /\ wg'[p].peers[k].rx = 0 /\ wg'[p].peers[k].tx = 0
    BY <1>1, <2>1, <2>3 DEF KernelAhead, Ahead, HasCounters
  <2>4. CASE /\ p \in DOMAIN wg' /\ HasPeer(p, k)' /\ p \in DOMAIN wg /\ HasPeer(p, k)
             /\ wg'[p].peers[k].rx = wg[p].peers[k].rx
             /\ wg'[p].peers[k].tx = wg[p].peers[k].tx
    <3>1. KernelAhead(p, k, c)' = KernelAhead(p, k, c)
      BY <2>4 DEF KernelAhead, Ahead
    <3> QED BY <2>1, <3>1
  <2> QED BY <2>2, <2>3, <2>4
<1>2. Pending(p, k)' <= Pending(p, k) + 0
  BY <1>1, KernelPending
<1> QED BY <1>2, PendingType

\* A peer generates a byte: it is still to come, or never comes.
LEMMA TransferLedger ==
    ASSUME TypeInv, TypeInv', generated \in [Pubkey -> Nat],
           NEW x \in DOMAIN wg, NEW d \in Pubkey, NEW r \in {0, 1}, NEW t \in {0, 1},
           Transfer(x, d, r, t), NEW k \in Pubkey
    PROVE  /\ generated' \in [Pubkey -> Nat]
           /\ StillToCome(k)' + generated[k] <= StillToCome(k) + generated'[k]
<1>1. HasPeer(x, d) /\ UNCHANGED watchdogVars
  BY DEF Transfer, KernelFrame
<1>2. /\ generated' = [generated EXCEPT ![d] = @ + r + t]
      /\ generated'[d] = generated[d] + r + t
      /\ \A j \in Pubkey : j # d => generated'[j] = generated[j]
      /\ generated' \in [Pubkey -> Nat]
  BY DEF Transfer
<1>3. /\ wg[x] \in Networks
      /\ wg[x] = [public_key |-> wg[x].public_key, peers |-> wg[x].peers]
      /\ wg[x].peers[d] \in KernelPeer
  BY <1>1, NetworksDef DEF HasPeer, TypeInv, KernelInv
<1> DEFINE new == Counted(wg[x].peers[d], r, t)
<1>4. new.rx = wg[x].peers[d].rx + r /\ new.tx = wg[x].peers[d].tx + t
  BY <1>3, CountedType
<1>5. wg' = [wg EXCEPT ![x] = [wg[x] EXCEPT !.peers = [wg[x].peers EXCEPT ![d] = new]]]
  BY DEF Transfer
<1> HIDE DEF new
<1>6. /\ DOMAIN wg' = DOMAIN wg
      /\ wg'[x] = [public_key |-> wg[x].public_key, peers |-> [wg[x].peers EXCEPT ![d] = new]]
      /\ \A p \in DOMAIN wg : p # x => wg'[p] = wg[p]
  BY <1>3, <1>5
<1>7. wg'[x] # None
  <2>1. wg'[x].peers = [wg[x].peers EXCEPT ![d] = new]
    BY <1>6
  <2>2. new \in KernelPeer
    BY <1>3, CountedType DEF new
  <2>3. wg'[x] \in Networks
    BY <1>3, <1>6, <2>1, <2>2, NetworksDef DEF HasPeer
  <2> QED BY <2>3, NoneAssumption DEF Networks
<1>8. /\ HasPeer(x, d)' /\ wg'[x].peers[d] = new
      /\ \A j : j # d => (HasPeer(x, j)' <=> HasPeer(x, j))
      /\ \A j : j # d /\ HasPeer(x, j) => wg'[x].peers[j] = wg[x].peers[j]
  BY <1>1, <1>6, <1>7 DEF HasPeer
<1>9. ASSUME NEW p, p # x \/ k # d PROVE Pending(p, k)' <= Pending(p, k)
  BY <1>1, <1>6, <1>8, <1>9, CountersKept DEF HasPeer
<1>10. CASE k # d
  <2>1. DOMAIN cache' = DOMAIN cache
    BY <1>1 DEF watchdogVars
  <2>2. StillToCome(k)' <= StillToCome(k)
    BY <1>9, <1>10, <2>1, NoMoreToCome
  <2> QED BY <1>2, <1>10, <2>2, LedgerType, LedgerTypeNext
<1>11. CASE k = d
  <2>1. DOMAIN cache' = DOMAIN cache
    BY <1>1 DEF watchdogVars
  <2>2. ASSUME NEW c, HasCounters(c)
        PROVE  /\ KernelAhead(x, d, c)' <= KernelAhead(x, d, c) + (r + t)
               /\ KernelAhead(x, d, c)' \in Nat
    <3>1. KernelAhead(x, d, c)' \in Nat
      BY <2>2, KernelAheadTypeNext
    <3>2. KernelAhead(x, d, c)' = Ahead(new, c) /\ KernelAhead(x, d, c) = Ahead(wg[x].peers[d], c)
      BY <1>1, <1>6, <1>8 DEF KernelAhead
    <3>3. Ahead(new, c) <= Ahead(wg[x].peers[d], c) + (r + t)
      BY <1>3, <1>4, <2>2 DEF Ahead, HasCounters, KernelPeer
    <3> QED BY <3>1, <3>2, <3>3
  <2>3. Pending(x, d)' <= Pending(x, d) + (r + t)
    BY <1>1, <2>2, KernelPending
  <2>4. Pending(x, d)' + 0 <= Pending(x, d) + (r + t)
    BY <2>3, PendingType, PendingTypeNext
  <2>5. StillToCome(d)' <= StillToCome(d) + (r + t)
    <3>1. CASE x \in DOMAIN cache
      <4>1. StillToCome(d)' + 0 <= StillToCome(d) + (r + t)
        BY <1>9, <1>11, <2>1, <2>4, <3>1, OneShifts
      <4> QED BY <4>1, LedgerType, LedgerTypeNext
    <3>2. CASE x \notin DOMAIN cache
      <4>1. StillToCome(d)' <= StillToCome(d)
        BY <1>9, <1>11, <2>1, <3>2, NoMoreToCome
      <4> QED BY <4>1, LedgerType, LedgerTypeNext
    <3> QED BY <3>1, <3>2
  <2> QED BY <1>2, <1>11, <2>5, LedgerType, LedgerTypeNext
<1> QED BY <1>2, <1>10, <1>11

\* Handshakes, and what an apply does to the interfaces.
LEMMA InterfacesLedger ==
    ASSUME TypeInv, TypeInv', NEW k,
           \/ \E p \in DOMAIN wg, j \in Pubkey, e \in Endpoint : Handshake(p, j, e)
           \/ ClockMoves
           \/ Reconfigure
    PROVE  StillToCome(k)' <= StillToCome(k)
<1>0. UNCHANGED watchdogVars
  BY DEF Handshake, ClockMoves, Reconfigure, NetnsDel, NetnsAdd, Syncconf, KernelFrame
<1>1. SUFFICES ASSUME NEW p PROVE Pending(p, k)' <= Pending(p, k)
  <2>1. DOMAIN cache' = DOMAIN cache
    BY <1>0 DEF watchdogVars
  <2> QED BY <1>1, <2>1, NoMoreToCome
<1>2. ASSUME NEW x \in DOMAIN wg, NEW d \in Pubkey, NEW e \in Endpoint, Handshake(x, d, e)
      PROVE  Pending(p, k)' <= Pending(p, k)
  <2> DEFINE new == [wg[x].peers[d] EXCEPT !.handshake = now, !.endpoint = e]
  <2>1. HasPeer(x, d)
    BY <1>2 DEF Handshake
  <2>2. /\ wg[x] = [public_key |-> wg[x].public_key, peers |-> wg[x].peers]
        /\ wg[x].peers[d] \in KernelPeer
    BY <2>1, NetworksDef DEF HasPeer, TypeInv, KernelInv
  <2>3. wg' = [wg EXCEPT ![x] = [wg[x] EXCEPT !.peers = [wg[x].peers EXCEPT ![d] = new]]]
    BY <1>2 DEF Handshake
  <2>4. new.rx = wg[x].peers[d].rx /\ new.tx = wg[x].peers[d].tx
    BY <2>2 DEF KernelPeer
  <2> HIDE DEF new
  <2>5. /\ DOMAIN wg' = DOMAIN wg
        /\ wg'[x] = [public_key |-> wg[x].public_key, peers |-> [wg[x].peers EXCEPT ![d] = new]]
        /\ \A y \in DOMAIN wg : y # x => wg'[y] = wg[y]
    BY <2>2, <2>3
  <2>6. HasPeer(x, k)' => HasPeer(x, k)
    BY <2>1, <2>5 DEF HasPeer
  <2> QED BY <1>0, <2>1, <2>4, <2>5, <2>6, CountersKept DEF HasPeer
<1>3. CASE ClockMoves
  BY <1>0, <1>3, CountersKept DEF ClockMoves, HasPeer
<1>4. ASSUME NEW x \in DOMAIN wg, NetnsDel(x) PROVE Pending(p, k)' <= Pending(p, k)
  BY <1>0, <1>4, CountersKept DEF NetnsDel, HasPeer, Without
<1>5. ASSUME NEW x \in Port, NetnsAdd(x) PROVE Pending(p, k)' <= Pending(p, k)
  BY <1>0, <1>5, CountersKept DEF NetnsAdd, HasPeer, With
<1>6. ASSUME NEW c \in Confs, Syncconf(c) PROVE Pending(p, k)' <= Pending(p, k)
  <2> DEFINE old(j) == IF HasPeer(c.listen_port, j) THEN wg[c.listen_port].peers[j] ELSE None
             peers == [j \in DOMAIN c.peers |-> Configured(old(j), c.peers[j])]
             network == [public_key |-> c.public_key, peers |-> peers]
  <2>1. c.listen_port \in DOMAIN wg /\ wg' = [wg EXCEPT ![c.listen_port] = network]
    BY <1>6 DEF Syncconf
  <2>2. ASSUME k \in DOMAIN c.peers
        PROVE  \/ peers[k].rx = 0 /\ peers[k].tx = 0
               \/ /\ HasPeer(c.listen_port, k)
                  /\ peers[k].rx = wg[c.listen_port].peers[k].rx
                  /\ peers[k].tx = wg[c.listen_port].peers[k].tx
    <3>1. peers[k] = Configured(old(k), c.peers[k])
      BY <2>2
    <3>2. CASE old(k) = None
      <4> HIDE DEF old
      <4> QED BY <3>1, <3>2 DEF Configured
    <3>3. CASE old(k) # None
      <4>1. HasPeer(c.listen_port, k) /\ old(k) = wg[c.listen_port].peers[k]
        BY <3>3
      <4>2. old(k) \in KernelPeer
        BY <2>1, <4>1, NetworksDef DEF HasPeer, TypeInv, KernelInv
      <4> HIDE DEF old, peers
      <4>3. Configured(old(k), c.peers[k]).rx = old(k).rx /\ Configured(old(k), c.peers[k]).tx = old(k).tx
        BY <3>3, <4>2 DEF Configured, KernelPeer
      <4> QED BY <3>1, <4>1, <4>3
    <3> QED BY <3>2, <3>3
  <2>3. DOMAIN peers = DOMAIN c.peers
    OBVIOUS
  <2> HIDE DEF peers
  <2>4. /\ DOMAIN wg' = DOMAIN wg
        /\ wg'[c.listen_port].peers = peers
        /\ \A y \in DOMAIN wg : y # c.listen_port => wg'[y] = wg[y]
    BY <2>1
  <2> QED BY <1>0, <2>1, <2>2, <2>3, <2>4, CountersKept DEF HasPeer
<1> QED BY <1>2, <1>3, <1>4, <1>5, <1>6 DEF Reconfigure

-----------------------------------------------------------------------------
\* At the start nothing was generated and nothing is cached.
LEMMA LedgerInit == Init => LedgerInv
<1> SUFFICES ASSUME Init PROVE LedgerInv
  OBVIOUS
<1>1. reported = [k \in Pubkey |-> 0] /\ generated = [k \in Pubkey |-> 0]
  BY DEF Init
<1>2. ASSUME NEW k \in Pubkey PROVE Ledger(k) <= generated[k]
  <2>1. InQueue(k) = 0
    <3>1. traffic_broadcast.queue = <<>>
      BY DEF Init, WebsocketInit, Unsubscribed
    <3> QED BY <3>1, BytesNone DEF InQueue, BytesIn
  <2>2. InHand(k) = 0
    BY DEF Init, WatchdogLaunched, InHand
  <2>3. StillToCome(k) = 0
    <3>1. DOMAIN [p \in DOMAIN cache |-> Pending(p, k)] = {}
      BY DEF Init, WatchdogLaunched, EmptyMap
    <3> QED BY <3>1, SumEmpty DEF StillToCome
  <2> QED BY <1>1, <2>1, <2>2, <2>3 DEF Ledger
<1> QED BY <1>1, <1>2 DEF LedgerInv

\* A step of the watchdog adds nothing to the ledger, unless it leaves traffic
\* counted that it will count again.
LEMMA WatchLedger ==
    ASSUME TypeInv, TypeInv', Watch, ~recount', NEW k \in Pubkey
    PROVE  InQueue(k)' + InHand(k)' + StillToCome(k)' <= InQueue(k) + InHand(k) + StillToCome(k)
<1>0. ~(Refused /\ BytesOf(info, peer.key) > 0)
  BY DEF Watch, History
<1>1. ASSUME traffic_broadcast' = traffic_broadcast, InHand(k)' + StillToCome(k)' <= InHand(k) + StillToCome(k)
      PROVE  InQueue(k)' + InHand(k)' + StillToCome(k)' <= InQueue(k) + InHand(k) + StillToCome(k)
  <2>1. InQueue(k)' = InQueue(k)
    BY <1>1 DEF InQueue
  <2> QED BY <1>1, <2>1, LedgerType, LedgerTypeNext
<1>2. ASSUME traffic_broadcast' = traffic_broadcast, InHand(k)' = InHand(k), StillToCome(k)' <= StillToCome(k)
      PROVE  InQueue(k)' + InHand(k)' + StillToCome(k)' <= InQueue(k) + InHand(k) + StillToCome(k)
  BY <1>1, <1>2, LedgerType, LedgerTypeNext
<1>3. CASE watchdog_run
  BY <1>2, <1>3, RunLedger DEF watchdog_run
<1>4. ASSUME NEW p \in names, watchdog_netns(p)
      PROVE  InQueue(k)' + InHand(k)' + StillToCome(k)' <= InQueue(k) + InHand(k) + StillToCome(k)
  BY <1>2, <1>4, NetnsLedger DEF watchdog_netns
<1>5. ASSUME NEW d \in left, watchdog_peer(d)
      PROVE  InQueue(k)' + InHand(k)' + StillToCome(k)' <= InQueue(k) + InHand(k) + StillToCome(k)
  BY <1>1, <1>5, PeerLedger DEF watchdog_peer
<1>6. ASSUME NEW d \in left, dead_peer(d)
      PROVE  InQueue(k)' + InHand(k)' + StillToCome(k)' <= InQueue(k) + InHand(k) + StillToCome(k)
  BY <1>2, <1>6, DeadPeerLedger DEF dead_peer
<1>7. CASE watchdog_event
  <2>1. BytesOf(info, peer.key) \in Nat
    BY <1>7, BytesType DEF watchdog_event, TypeInv, WatchInv
  <2>2. Refused => BytesOf(info, peer.key) = 0
    BY <1>0, <2>1
  <2> QED BY <1>2, <1>7, <2>2, EventLedger DEF watchdog_event
<1>8. CASE dead_peers
  BY <1>2, <1>8, DeadPeersLedger DEF dead_peers
<1>9. CASE send_traffic
  BY <1>9, SendTrafficLedger
<1>10. CASE Tick
  <2>1. UNCHANGED <<cache, wpc, info, stats, left, peer, wg, traffic_broadcast>>
    BY <1>10 DEF Tick, localVars
  <2>2. ASSUME NEW p PROVE Pending(p, k)' = Pending(p, k)
    BY <2>1, SamePending DEF Fetched, InSend, IsCached
  <2>3. InHand(k)' = InHand(k)
    BY <2>1 DEF InHand
  <2>4. StillToCome(k)' <= StillToCome(k)
    BY <2>1, <2>2, PendingType, NoMoreToCome
  <2> QED BY <1>2, <2>1, <2>3, <2>4
<1> QED BY <1>3, <1>4, <1>5, <1>6, <1>7, <1>8, <1>9, <1>10 DEF Watch, WatchdogStep

\* A new daemon has an empty cache, and the old one's TrafficInfo is lost.
LEMMA RestartLedger ==
    ASSUME TypeInv, TypeInv', Restart, NEW k
    PROVE  InQueue(k)' + InHand(k)' + StillToCome(k)' <= InQueue(k) + InHand(k) + StillToCome(k)
<1>1. DOMAIN cache' = {} /\ wpc' = "tick" /\ traffic_broadcast' = traffic_broadcast
  BY DEF Restart, EmptyMap
<1>2. InHand(k)' = 0 /\ InQueue(k)' = InQueue(k)
  BY <1>1 DEF InHand, InQueue
<1>3. StillToCome(k)' <= StillToCome(k)
  BY <1>1, NoMoreToCome
<1> QED BY <1>2, <1>3, LedgerType, LedgerTypeNext

\* Every step of the daemon keeps the ledger below what was generated.
LEMMA LedgerNext == TypeInv /\ TypeInv' /\ LedgerInv /\ [Next]_vars => LedgerInv'
<1> SUFFICES ASSUME TypeInv, TypeInv', LedgerInv, [Next]_vars PROVE LedgerInv'
  OBVIOUS
<1>0. generated \in [Pubkey -> Nat] /\ reported \in [Pubkey -> Nat]
  BY DEF LedgerInv
<1>1. recount => recount'
  BY DEF Next, Watch, Serve, Manage, History, Kernel, Handshake, Transfer, ClockMoves, KernelFrame,
         Reconfigure, NetnsDel, NetnsAdd, Syncconf, Restart, vars, historyVars
<1>2. ASSUME generated' = generated, reported' \in [Pubkey -> Nat],
             ASSUME ~recount', NEW k \in Pubkey
             PROVE  reported'[k] + (InQueue(k)' + InHand(k)' + StillToCome(k)')
                      <= reported[k] + (InQueue(k) + InHand(k) + StillToCome(k))
      PROVE  LedgerInv'
  <2>1. ASSUME ~recount', NEW k \in Pubkey PROVE Ledger(k)' <= generated'[k]
    <3>1. Ledger(k) <= generated[k]
      BY <1>1, <2>1 DEF LedgerInv
    <3>2. reported[k] \in Nat /\ reported'[k] \in Nat /\ generated[k] \in Nat
      BY <1>0, <1>2
    <3>3. reported'[k] + (InQueue(k)' + InHand(k)' + StillToCome(k)')
            <= reported[k] + (InQueue(k) + InHand(k) + StillToCome(k))
      BY <1>2, <2>1
    <3>4. InQueue(k) \in Nat /\ InHand(k) \in Nat /\ StillToCome(k) \in Nat
      BY LedgerType
    <3>5. InQueue(k)' \in Nat /\ InHand(k)' \in Nat /\ StillToCome(k)' \in Nat
      BY LedgerTypeNext
    <3>6. generated'[k] = generated[k]
      BY <1>2
    <3> QED BY <3>1, <3>2, <3>3, <3>4, <3>5, <3>6 DEF Ledger
  <2> QED BY <1>0, <1>2, <2>1 DEF LedgerInv
<1>3. ASSUME NEW k \in Pubkey PROVE reported[k] \in Nat /\ generated[k] \in Nat
  BY <1>0
<1>4. CASE Watch
  <2>1. generated' = generated /\ reported' = reported
    BY <1>4 DEF Watch, websocketVars
  <2>2. ASSUME ~recount', NEW k \in Pubkey
        PROVE  reported'[k] + (InQueue(k)' + InHand(k)' + StillToCome(k)')
                 <= reported[k] + (InQueue(k) + InHand(k) + StillToCome(k))
    BY <1>3, <1>4, <2>1, <2>2, WatchLedger, LedgerType, LedgerTypeNext
  <2> QED BY <1>0, <1>2, <2>1, <2>2
<1>5. ASSUME UNCHANGED <<watchdogVars, wg, generated>>, reported' \in [Pubkey -> Nat],
             \A k \in Pubkey : reported'[k] + InQueue(k)' <= reported[k] + InQueue(k)
      PROVE  LedgerInv'
  <2>1. ASSUME ~recount', NEW k \in Pubkey
        PROVE  reported'[k] + (InQueue(k)' + InHand(k)' + StillToCome(k)')
                 <= reported[k] + (InQueue(k) + InHand(k) + StillToCome(k))
    <3>1. InHand(k)' = InHand(k) /\ StillToCome(k)' <= StillToCome(k)
      BY <1>5, NothingToCome
    <3>2. reported[k] \in Nat /\ reported'[k] \in Nat
      BY <1>3, <1>5
    <3> QED BY <1>5, <3>1, <3>2, LedgerType, LedgerTypeNext
  <2> QED BY <1>2, <1>5, <2>1
<1>6. CASE Serve(WebsocketStep) \/ Serve(ConnectionLost)
  <2>1. /\ reported' \in [Pubkey -> Nat]
        /\ \A k \in Pubkey : reported'[k] + InQueue(k)' <= reported[k] + InQueue(k)
    BY <1>0, <1>6, WebsocketLedger DEF Serve
  <2>2. UNCHANGED <<watchdogVars, wg, generated>>
    BY <1>6 DEF Serve, kernelVars
  <2> QED BY <1>5, <2>1, <2>2
<1>7. ASSUME UNCHANGED <<reported, traffic_broadcast>>
      PROVE  /\ reported' \in [Pubkey -> Nat]
             /\ \A k \in Pubkey : reported'[k] + InQueue(k)' <= reported[k] + InQueue(k)
  <2>1. ASSUME NEW k \in Pubkey PROVE InQueue(k)' = InQueue(k)
    BY <1>7 DEF InQueue
  <2> QED BY <1>0, <1>3, <1>7, <2>1, LedgerType
<1>8. CASE Manage
  <2>1. UNCHANGED <<watchdogVars, wg, generated>> /\ UNCHANGED <<reported, traffic_broadcast>>
    BY <1>8 DEF Manage, Serve, ManagerSends, kernelVars
  <2> QED BY <1>5, <1>7, <2>1
<1>9. CASE UNCHANGED vars
  <2>1. UNCHANGED <<watchdogVars, wg, generated>> /\ UNCHANGED <<reported, traffic_broadcast>>
    BY <1>9 DEF vars, websocketVars, kernelVars, historyVars
  <2> QED BY <1>5, <1>7, <2>1
<1>10. CASE Restart
  <2>1. generated' = generated /\ reported' = reported
    BY <1>10 DEF Restart
  <2>2. ASSUME ~recount', NEW k \in Pubkey
        PROVE  reported'[k] + (InQueue(k)' + InHand(k)' + StillToCome(k)')
                 <= reported[k] + (InQueue(k) + InHand(k) + StillToCome(k))
    BY <1>3, <1>10, <2>1, <2>2, RestartLedger, LedgerType, LedgerTypeNext
  <2> QED BY <1>0, <1>2, <2>1, <2>2
<1>11. ASSUME KernelFrame, NEW k \in Pubkey
       PROVE  UNCHANGED <<reported, recount>> /\ InQueue(k)' = InQueue(k) /\ InHand(k)' = InHand(k)
  BY <1>11 DEF KernelFrame, websocketVars, watchdogVars, localVars, InQueue, InHand
<1>12. ASSUME \/ \E p \in DOMAIN wg, j \in Pubkey, e \in Endpoint : Handshake(p, j, e)
              \/ ClockMoves
              \/ Reconfigure
       PROVE  LedgerInv'
  <2>1. KernelFrame /\ generated' = generated
    BY <1>12 DEF Handshake, ClockMoves, Reconfigure, NetnsDel, NetnsAdd, Syncconf
  <2>2. reported' = reported
    BY <2>1 DEF KernelFrame, websocketVars
  <2>3. ASSUME ~recount', NEW k \in Pubkey
        PROVE  reported'[k] + (InQueue(k)' + InHand(k)' + StillToCome(k)')
                 <= reported[k] + (InQueue(k) + InHand(k) + StillToCome(k))
    <3>1. StillToCome(k)' <= StillToCome(k)
      BY <1>12, InterfacesLedger
    <3>2. InQueue(k)' = InQueue(k) /\ InHand(k)' = InHand(k)
      BY <1>11, <2>1
    <3> QED BY <1>3, <2>2, <3>1, <3>2, LedgerType, LedgerTypeNext
  <2> QED BY <1>0, <1>2, <2>1, <2>2, <2>3
<1>13. ASSUME NEW p \in DOMAIN wg, NEW d \in Pubkey, NEW r \in {0, 1}, NEW t \in {0, 1},
              Transfer(p, d, r, t)
       PROVE  LedgerInv'
  <2>1. KernelFrame
    BY <1>13 DEF Transfer
  <2>2. reported' = reported /\ (recount' <=> recount)
    BY <2>1 DEF KernelFrame, websocketVars
  <2>3. generated' \in [Pubkey -> Nat]
    BY <1>0, <1>13 DEF Transfer
  <2>4. ASSUME ~recount', NEW k \in Pubkey PROVE Ledger(k)' <= generated'[k]
    <3>1. StillToCome(k)' + generated[k] <= StillToCome(k) + generated'[k]
      BY <1>0, <1>13, TransferLedger
    <3>2. InQueue(k)' = InQueue(k) /\ InHand(k)' = InHand(k)
      BY <1>11, <2>1
    <3>3. Ledger(k) <= generated[k] /\ generated'[k] \in Nat
      BY <1>1, <2>3, <2>4 DEF LedgerInv
    <3> QED BY <1>3, <2>2, <3>1, <3>2, <3>3, LedgerType, LedgerTypeNext DEF Ledger
  <2> QED BY <1>0, <2>2, <2>3, <2>4 DEF LedgerInv
<1>14. CASE Kernel
  BY <1>12, <1>13, <1>14 DEF Kernel
<1> QED BY <1>4, <1>6, <1>8, <1>9, <1>10, <1>12, <1>14 DEF Next

\* What every behaviour of the daemon keeps.
LEMMA LedgerInvariant == Spec => [](TypeInv /\ LedgerInv)
<1>1. Spec => []TypeInv
  BY TypeInvariant
<1> QED BY <1>1, LedgerInit, LedgerNext, PTL DEF Spec

\* No byte of a peer is reported to the manager twice: for any number of ports,
\* peers, applies, handovers of ports, reconnections, relaunches of the watchdog
\* and restarts of the daemon, what watchdog_peer has added to a TrafficInfo,
\* sent or not, is at most what the peer generated - unless an event of a peer
\* was refused after its traffic was counted, which is the only way.
THEOREM NoByteReportedTwice == Spec => []ReportedOnce
<1>1. TypeInv /\ LedgerInv => ReportedOnce
  <2> SUFFICES ASSUME TypeInv, LedgerInv, ~recount, NEW k \in Pubkey
               PROVE  Accounted(k) <= generated[k]
    BY DEF ReportedOnce
  <2>1. (IF info = None THEN 0 ELSE BytesOf(info, k)) <= InHand(k)
        /\ (IF info = None THEN 0 ELSE BytesOf(info, k)) \in Nat
    BY LedgerType, BytesType DEF InHand, TypeInv, WatchInv
  <2>2. Ledger(k) <= generated[k] /\ reported[k] \in Nat /\ generated[k] \in Nat
    BY DEF LedgerInv
  <2> QED BY <2>1, <2>2, LedgerType DEF Accounted, Ledger
<1> QED BY <1>1, LedgerInvariant, PTL

-----------------------------------------------------------------------------
(***************************************************************************)
(* The totals (InfoSums).  DeviceTraffic::add replaces the entry of a      *)
(* timestamp and adds to the total, so that the two agree only if a device *)
(* of a network is not added twice for one time.  A poll comes to a port   *)
(* once and to a peer of it once; if a network has one port, it comes to a *)
(* device of a network once.                                               *)
(***************************************************************************)

\* Total, after an entry was added or replaced.
LEMMA TotalWith ==
    ASSUME NEW V, \A v \in V : Bytes(v.traffic) \in Nat, NEW K,
           NEW map \in FiniteMaps(K, V), NEW k \in K, NEW v \in V, NEW was \in Nat,
           k \in DOMAIN map => was = Bytes(map[k].traffic),
           k \notin DOMAIN map => was = 0
    PROVE  /\ Total(map) \in Nat
           /\ Total(With(map, k, v)) = Total(map) + Bytes(v.traffic) - was
<1> DEFINE f == [x \in DOMAIN map |-> Bytes(map[x].traffic)]
           g == [x \in DOMAIN With(map, k, v) |-> Bytes(With(map, k, v)[x].traffic)]
           b == Bytes(v.traffic)
<1>1. IsFiniteSet(DOMAIN map) /\ \A x \in DOMAIN map : map[x] \in V
  BY FiniteMapDef
<1>2. f \in [DOMAIN map -> Nat] /\ b \in Nat
  BY <1>1
<1>3. g = With(f, k, b)
  BY DEF With
<1>4. Lookup(f, k, 0) = was
  BY DEF Lookup
<1>5. Total(map) = SumOf(f) /\ Total(With(map, k, v)) = SumOf(g)
  BY DEF Total
<1> HIDE DEF f, g, b
<1>6. SumOf(f) \in Nat /\ SumOf(With(f, k, b)) = SumOf(f) + b - Lookup(f, k, 0)
  BY <1>1, <1>2, SumType, SumWith
<1> QED BY <1>3, <1>4, <1>5, <1>6 DEF b

\* The bytes of a sum of traffic.
LEMMA PlusBytes ==
    ASSUME NEW a \in TrafficType, NEW b \in TrafficType
    PROVE  /\ Bytes(a) \in Nat
           /\ Bytes(Plus(a, b)) = Bytes(a) + Bytes(b)
BY DEF Bytes, Plus, NewTraffic, TrafficType

\* A device with one entry.
LEMMA FirstEntry ==
    ASSUME NEW time \in Int, NEW t \in TrafficType
    PROVE  LET device == DeviceTraffic_add(NoDevice, time, t)
           IN  /\ Bytes(device.traffic) = Bytes(t)
               /\ SumOf([x \in DOMAIN device.times |-> Bytes(device.times[x])]) = Bytes(t)
<1> DEFINE device == DeviceTraffic_add(NoDevice, time, t)
           f == [x \in {} |-> 0]
           g == [x \in DOMAIN device.times |-> Bytes(device.times[x])]
<1>1. Bytes(device.traffic) = Bytes(t) /\ Bytes(t) \in Nat
  BY DEF DeviceTraffic_add, NoDevice, NoTraffic, NewTraffic, Plus, Bytes, TrafficType
<1>2. g = With(f, time, Bytes(t))
  BY DEF DeviceTraffic_add, NoDevice, With, EmptyMap
<1>3. f \in [{} -> Nat] /\ IsFiniteSet({}) /\ SumOf(f) = 0 /\ Lookup(f, time, 0) = 0
  BY FS_EmptySet, SumEmpty DEF Lookup
<1> HIDE DEF f, g
<1>4. SumOf(With(f, time, Bytes(t))) = SumOf(f) + Bytes(t) - Lookup(f, time, 0)
  BY <1>1, <1>3, SumWith
<1>5. SumOf(g) = Bytes(t)
  BY <1>1, <1>2, <1>3, <1>4
<1> QED BY <1>1, <1>5 DEF g

\* TrafficInfo::add of a device that its network does not have yet.
LEMMA AddSums ==
    ASSUME NEW i \in TrafficInfo, SumsAgree(i), NEW n \in Pubkey, NEW d \in Pubkey,
           NEW time \in Int, NEW t \in TrafficType,
           n \in DOMAIN i.networks => d \notin DOMAIN i.networks[n].devices
    PROVE  LET j == TrafficInfo_add(i, n, d, time, t)
           IN  /\ SumsAgree(j)
               /\ DOMAIN j.networks = DOMAIN i.networks \cup {n}
               /\ DOMAIN j.networks[n].devices
                    \subseteq (IF n \in DOMAIN i.networks THEN DOMAIN i.networks[n].devices ELSE {}) \cup {d}
               /\ \A m \in DOMAIN i.networks : m # n => j.networks[m] = i.networks[m]
<1> DEFINE j == TrafficInfo_add(i, n, d, time, t)
           old == Lookup(i.networks, n, NoNetwork)
           new == NetworkTraffic_add(old, d, time, t)
           device == DeviceTraffic_add(NoDevice, time, t)
<1>1. i.networks \in FiniteMaps(Pubkey, NetworkTraffic) /\ i.traffic \in TrafficType
  BY DEF TrafficInfo
<1>2. /\ n \in DOMAIN i.networks => old = i.networks[n]
      /\ n \notin DOMAIN i.networks => old = NoNetwork
      /\ old \in NetworkTraffic /\ old.traffic \in TrafficType
      /\ old.devices \in FiniteMaps(Pubkey, DeviceTraffic)
  <2>1. /\ n \in DOMAIN i.networks => old = i.networks[n] /\ i.networks[n] \in NetworkTraffic
        /\ n \notin DOMAIN i.networks => old = NoNetwork
    BY <1>1, LookupType
  <2>2. old \in NetworkTraffic
    BY <2>1, NoTrafficTypes
  <2> HIDE DEF old
  <2> QED BY <2>1, <2>2 DEF NetworkTraffic
<1>3. j.networks = With(i.networks, n, new) /\ j.traffic = Plus(i.traffic, t)
  BY DEF TrafficInfo_add, TrafficInfo, NoNetwork
<1>4. d \notin DOMAIN old.devices
  BY <1>2 DEF NoNetwork, EmptyMap
<1>5. new.traffic = Plus(old.traffic, t) /\ new.devices = With(old.devices, d, device)
  BY <1>4 DEF NetworkTraffic_add, NoDevice, Lookup
<1>6. new \in NetworkTraffic
  BY <1>2, NetworkTrafficType
<1>7. device \in DeviceTraffic
  BY NoTrafficTypes, DeviceTrafficType
<1>8. /\ Bytes(device.traffic) = Bytes(t)
      /\ SumOf([x \in DOMAIN device.times |-> Bytes(device.times[x])]) = Bytes(t)
  BY FirstEntry
<1>9. /\ Bytes(t) \in Nat /\ Bytes(i.traffic) \in Nat /\ Bytes(old.traffic) \in Nat
      /\ Bytes(j.traffic) = Bytes(i.traffic) + Bytes(t)
      /\ Bytes(new.traffic) = Bytes(old.traffic) + Bytes(t)
  BY <1>1, <1>2, <1>3, <1>5, PlusBytes
<1> HIDE DEF j, old, new, device
\* The devices of the network.
<1>10. /\ Bytes(old.traffic) = Total(old.devices)
       /\ \A x \in DOMAIN old.devices :
            Bytes(old.devices[x].traffic)
              = SumOf([y \in DOMAIN old.devices[x].times |-> Bytes(old.devices[x].times[y])])
  <2>1. CASE n \in DOMAIN i.networks
    BY <1>2, <2>1 DEF SumsAgree
  <2>2. CASE n \notin DOMAIN i.networks
    <3>1. old.traffic = NoTraffic /\ DOMAIN old.devices = {}
      BY <1>2, <2>2 DEF NoNetwork, EmptyMap
    <3>2. Bytes(old.traffic) = 0
      BY <3>1 DEF NoTraffic, NewTraffic, Bytes
    <3>3. Total(old.devices) = 0
      BY <3>1, SumEmpty DEF Total
    <3> QED BY <3>1, <3>2, <3>3
  <2> QED BY <2>1, <2>2
<1>11. Total(new.devices) = Total(old.devices) + Bytes(device.traffic) - 0 /\ Total(old.devices) \in Nat
  <2>1. \A v \in DeviceTraffic : Bytes(v.traffic) \in Nat
    BY PlusBytes DEF DeviceTraffic
  <2> QED BY <1>2, <1>4, <1>5, <1>7, <2>1, TotalWith
<1>12. Bytes(new.traffic) = Total(new.devices)
  BY <1>8, <1>9, <1>10, <1>11
<1>13. ASSUME NEW x \in DOMAIN new.devices
       PROVE  Bytes(new.devices[x].traffic)
                = SumOf([y \in DOMAIN new.devices[x].times |-> Bytes(new.devices[x].times[y])])
  <2>1. CASE x = d
    <3>1. new.devices[x] = device
      BY <1>5, <2>1 DEF With
    <3> QED BY <1>8, <3>1
  <2>2. CASE x # d
    <3>1. x \in DOMAIN old.devices /\ new.devices[x] = old.devices[x]
      BY <1>5, <2>2 DEF With
    <3> QED BY <1>10, <3>1
  <2> QED BY <2>1, <2>2
\* The networks.
<1>14. /\ Total(j.networks) = Total(i.networks) + Bytes(new.traffic) - Bytes(old.traffic)
       /\ Total(i.networks) \in Nat
  <2>1. \A v \in NetworkTraffic : Bytes(v.traffic) \in Nat
    BY PlusBytes DEF NetworkTraffic
  <2>2. n \notin DOMAIN i.networks => Bytes(old.traffic) = 0
    BY <1>2 DEF NoNetwork, NoTraffic, NewTraffic, Bytes
  <2> QED BY <1>1, <1>2, <1>3, <1>6, <1>9, <2>1, <2>2, TotalWith
<1>15. Bytes(j.traffic) = Total(j.networks)
  <2>1. Bytes(i.traffic) = Total(i.networks)
    BY DEF SumsAgree
  <2> QED BY <1>9, <1>14, <2>1
<1>16. /\ DOMAIN j.networks = DOMAIN i.networks \cup {n} /\ j.networks[n] = new
       /\ \A m \in DOMAIN i.networks : m # n => j.networks[m] = i.networks[m]
  BY <1>3 DEF With
<1>17. ASSUME NEW m \in DOMAIN j.networks
       PROVE  /\ Bytes(j.networks[m].traffic) = Total(j.networks[m].devices)
              /\ \A x \in DOMAIN j.networks[m].devices :
                   Bytes(j.networks[m].devices[x].traffic)
                     = SumOf([y \in DOMAIN j.networks[m].devices[x].times
                                |-> Bytes(j.networks[m].devices[x].times[y])])
  <2>1. CASE m = n
    BY <1>12, <1>13, <1>16, <2>1
  <2>2. CASE m # n
    <3>1. m \in DOMAIN i.networks /\ j.networks[m] = i.networks[m]
      BY <1>16, <2>2
    <3> QED BY <3>1 DEF SumsAgree
  <2> QED BY <2>1, <2>2
<1>18. SumsAgree(j)
  BY <1>15, <1>17 DEF SumsAgree
<1>19. DOMAIN j.networks[n].devices
         \subseteq (IF n \in DOMAIN i.networks THEN DOMAIN i.networks[n].devices ELSE {}) \cup {d}
  <2>1. DOMAIN new.devices = DOMAIN old.devices \cup {d}
    BY <1>5 DEF With
  <2>2. n \notin DOMAIN i.networks => DOMAIN old.devices = {}
    BY <1>2 DEF NoNetwork, EmptyMap
  <2> QED BY <1>2, <1>16, <2>1, <2>2
<1> QED BY <1>16, <1>18, <1>19 DEF j

\* Where the poll is, and which devices are in the TrafficInfo: none of a network
\* whose port it has not come to, and none of a peer it has not come to.
PollInv(port) ==
    /\ wpc \in {"peers", "send", "dead"} =>
         port[stats.public_key] = stats.listen_port /\ stats.listen_port \notin names
    /\ wpc # "tick" =>
         /\ SumsAgree(info)
         /\ \A n \in DOMAIN info.networks : port[n] \notin names
    /\ wpc \in {"peers", "send"} /\ stats.public_key \in DOMAIN info.networks =>
         DOMAIN info.networks[stats.public_key].devices \cap left = {}

\* The TrafficInfos on their way add up.
QueueSums == \A i \in DOMAIN traffic_broadcast.queue : SumsAgree(traffic_broadcast.queue[i])

\* The inductive invariant of InfoSums.
SumsInv(port) == PortInv(port) /\ PollInv(port) /\ QueueSums

\* TrafficInfo::new.
LEMMA NewInfoSums ==
    SumsAgree(TrafficInfo_new(0)) /\ DOMAIN TrafficInfo_new(0).networks = {}
<1> DEFINE i == TrafficInfo_new(0)
<1>1. i.traffic = NoTraffic /\ DOMAIN i.networks = {}
  BY DEF TrafficInfo_new, EmptyMap
<1>2. Bytes(i.traffic) = 0
  BY <1>1 DEF NoTraffic, NewTraffic, Bytes
<1> HIDE DEF i
<1>3. Total(i.networks) = 0
  BY <1>1, SumEmpty DEF Total
<1>4. SumsAgree(i)
  BY <1>1, <1>2, <1>3 DEF SumsAgree
<1> QED BY <1>1, <1>4 DEF i

\* watchdog_peer comes to a peer of the namespace for the first time.
LEMMA PeerSums ==
    ASSUME NEW port, TypeInv, PollInv(port), NEW d \in left, watchdog_peer(d)
    PROVE  PollInv(port)'
<1> DEFINE q        == Judged(stats.peers[d])
           previous == Previous(d)
           n        == stats.public_key
<1>1. /\ wpc = "peers" /\ info \in TrafficInfo /\ now \in Int /\ WatchInv
      /\ left' = left \ {d} /\ UNCHANGED <<stats, names>>
  BY ClockAssumption DEF watchdog_peer, WatchInv, TypeInv, KernelInv
<1>2. /\ d \in Pubkey /\ n \in Pubkey /\ q \in PeerStats /\ stats.listen_port \notin names
      /\ port[n] = stats.listen_port /\ SumsAgree(info)
  BY <1>1, CacheHere, JudgedType DEF WatchInv, PollInv
<1>3. previous \in PeerStats \cup {None}
  BY <1>1, PreviousType
<1>4. CASE info' = info /\ wpc' \in {"peers", "send", "panicked"}
  BY <1>1, <1>4 DEF PollInv
<1>5. CASE info' = TrafficOf(previous, q, d) /\ previous # None /\ wpc' \in {"peers", "send"}
  <2> DEFINE t == NewTraffic((q.rx - previous.rx) % Usize, (q.tx - previous.tx) % Usize)
  <2>1. t \in TrafficType
    BY <1>2, <1>3, <1>5, WatchdogAssumption DEF NewTraffic, TrafficType, PeerStats
  <2>2. info' = TrafficInfo_add(info, n, d, now, t)
    BY <1>5 DEF TrafficOf
  <2>3. n \in DOMAIN info.networks => d \notin DOMAIN info.networks[n].devices
    BY <1>1 DEF PollInv
  <2> HIDE DEF t, n
  <2>4. /\ SumsAgree(info')
        /\ DOMAIN info'.networks = DOMAIN info.networks \cup {n}
        /\ DOMAIN info'.networks[n].devices
             \subseteq (IF n \in DOMAIN info.networks THEN DOMAIN info.networks[n].devices ELSE {}) \cup {d}
    BY <1>1, <1>2, <2>1, <2>2, <2>3, AddSums
  <2>5. \A m \in DOMAIN info'.networks : port[m] \notin names'
    BY <1>1, <1>2, <2>4 DEF PollInv
  <2>6. DOMAIN info'.networks[n].devices \cap left' = {}
    BY <1>1, <2>4 DEF PollInv, n
  <2> QED BY <1>1, <1>2, <1>5, <2>4, <2>5, <2>6 DEF PollInv, n
<1>6. wpc' \in {"peers", "send", "panicked"}
  BY <1>1 DEF watchdog_peer, Cached
<1>7. CASE info' = InfoWith(previous, q, d) /\ wpc' \in {"peers", "send"}
  BY <1>4, <1>5, <1>7 DEF InfoWith
<1>8. CASE info' = info
  BY <1>4, <1>6, <1>8
<1> QED BY <1>1, <1>7, <1>8 DEF watchdog_peer, Cached

\* Every step of the watchdog.
LEMMA PollNext ==
    ASSUME NEW port, HasItsPort(port), TypeInv, PortInv(port), PollInv(port), [Next]_vars
    PROVE  PollInv(port)'
<1>1. CASE UNCHANGED <<wpc, names, info, stats, left>>
  BY <1>1 DEF PollInv
<1>2. CASE wpc' = "tick"
  BY <1>2 DEF PollInv
<1>3. CASE Watch
  <2>1. CASE watchdog_run
    <3>1. CASE wpc' = "run" /\ info' = TrafficInfo_new(0)
      BY <3>1, NewInfoSums DEF PollInv
    <3> QED BY <1>2, <2>1, <3>1 DEF watchdog_run, Relaunch
  <2>2. ASSUME NEW p \in names, watchdog_netns(p) PROVE PollInv(port)'
    <3>1. wpc = "run" /\ names' = names \ {p} /\ info' = info
      BY <2>2 DEF watchdog_netns
    <3>2. CASE UNCHANGED <<stats, left, cache, wpc>>
      BY <3>1, <3>2 DEF PollInv
    <3>3. CASE /\ p \in DOMAIN wg
               /\ wg[p] # None
               /\ stats' = [listen_port |-> p, public_key |-> wg[p].public_key, peers |-> wg[p].peers]
               /\ wpc' = "peers"
      <4>1. stats'.listen_port = p /\ stats'.public_key = wg[p].public_key
        BY <3>3
      <4>2. port[wg[p].public_key] = p
        BY <3>3 DEF PortInv
      <4>3. wg[p].public_key \notin DOMAIN info.networks
        BY <3>1, <4>2 DEF PollInv
      <4> QED BY <3>1, <3>3, <4>1, <4>2, <4>3 DEF PollInv
    <3> QED BY <2>2, <3>2, <3>3 DEF watchdog_netns
  <2>3. ASSUME NEW d \in left, watchdog_peer(d) PROVE PollInv(port)'
    BY <2>3, PeerSums
  <2>4. ASSUME NEW d \in left, dead_peer(d) PROVE PollInv(port)'
    <3>1. wpc = "dead" /\ UNCHANGED <<info, names>> /\ wpc' \in {"run", "dead"} /\ (wpc' = "dead" => stats' = stats)
      BY <2>4 DEF dead_peer, Bury
    <3> QED BY <3>1 DEF PollInv
  <2>5. CASE watchdog_event
    <3>1. wpc = "send" /\ UNCHANGED <<info, names, stats, left>> /\ wpc' \in {"peers", "send"}
      BY <2>5 DEF watchdog_event, Cached
    <3> QED BY <3>1 DEF PollInv
  <2>6. CASE dead_peers
    <3>1. wpc = "peers" /\ UNCHANGED <<info, names>> /\ wpc' \in {"run", "dead"} /\ (wpc' = "dead" => stats' = stats)
      BY <2>6 DEF dead_peers, Bury
    <3> QED BY <3>1 DEF PollInv
  <2>7. CASE send_traffic
    BY <1>2, <2>7 DEF send_traffic, Relaunch
  <2>8. CASE Tick
    BY <1>1, <2>8 DEF Tick, localVars
  <2> QED BY <1>3, <2>1, <2>2, <2>3, <2>4, <2>5, <2>6, <2>7, <2>8 DEF Watch, WatchdogStep
<1>4. CASE Restart
  BY <1>2, <1>4 DEF Restart
<1>5. CASE Serve(WebsocketStep) \/ Serve(ConnectionLost) \/ Manage \/ UNCHANGED vars
  BY <1>1, <1>5 DEF Serve, Manage, watchdogVars, localVars, vars
<1>6. CASE Kernel \/ Reconfigure
  BY <1>1, <1>6 DEF Kernel, Handshake, Transfer, ClockMoves, Reconfigure, NetnsDel, NetnsAdd, Syncconf,
                    KernelFrame, watchdogVars, localVars
<1> QED BY <1>3, <1>4, <1>5, <1>6 DEF Next

\* The TrafficInfo moves into the queue, and out of it.
LEMMA QueueNext ==
    ASSUME NEW port, TypeInv, PollInv(port), QueueSums, [Next]_vars
    PROVE  QueueSums'
<1> DEFINE q == traffic_broadcast.queue
<1>0. q \in Seq(TrafficInfo) /\ traffic_broadcast \in Channel(TrafficInfo)
  BY DEF TypeInv, ChannelInv, Channel
<1>1. CASE traffic_broadcast' = traffic_broadcast
  BY <1>1 DEF QueueSums
<1>2. CASE traffic_broadcast'.queue = <<>>
  BY <1>2 DEF QueueSums
<1>3. ASSUME q # <<>>
      PROVE  /\ Tail(q) \in Seq(TrafficInfo)
             /\ \A i \in DOMAIN Tail(q) : SumsAgree(Tail(q)[i])
  <2>1. /\ Tail(q) \in Seq(TrafficInfo) /\ Len(Tail(q)) = Len(q) - 1
        /\ \A i \in 1 .. Len(Tail(q)) : Tail(q)[i] = q[i + 1]
        /\ Len(q) \in Nat /\ DOMAIN q = 1 .. Len(q) /\ DOMAIN Tail(q) = 1 .. Len(Tail(q))
    BY <1>0, <1>3, HeadTailProperties, LenProperties
  <2>2. ASSUME NEW i \in DOMAIN Tail(q) PROVE SumsAgree(Tail(q)[i])
    <3>1. i + 1 \in DOMAIN q /\ Tail(q)[i] = q[i + 1]
      BY <2>1
    <3> QED BY <3>1 DEF QueueSums
  <2> QED BY <2>1, <2>2
<1>4. CASE send_traffic
  <2>1. CASE Relaunch /\ UNCHANGED traffic_broadcast
    BY <1>1, <2>1
  <2>2. CASE traffic_broadcast' = send(traffic_broadcast, BROADCAST_QUEUE_TRAFFIC, info)
    <3> DEFINE full == Len(q) = BROADCAST_QUEUE_TRAFFIC
               room == IF full THEN Tail(q) ELSE q
    <3>1. info \in TrafficInfo /\ SumsAgree(info)
      BY <1>4 DEF send_traffic, TypeInv, WatchInv, PollInv
    <3>2. full => q # <<>>
      BY QueueAssumption, EmptySeq
    <3>3. room \in Seq(TrafficInfo) /\ \A i \in DOMAIN room : SumsAgree(room[i])
      BY <1>0, <1>3, <3>2 DEF QueueSums
    <3>4. traffic_broadcast'.queue = Append(room, info)
      BY <1>0, <2>2 DEF send, Channel
    <3> HIDE DEF room
    <3>5. /\ Len(room) \in Nat /\ DOMAIN room = 1 .. Len(room)
          /\ DOMAIN Append(room, info) = 1 .. Len(room) + 1
          /\ \A i \in 1 .. Len(room) : Append(room, info)[i] = room[i]
          /\ Append(room, info)[Len(room) + 1] = info
      BY <3>1, <3>3, AppendProperties, LenProperties
    <3>6. ASSUME NEW i \in DOMAIN Append(room, info) PROVE SumsAgree(Append(room, info)[i])
      <4>1. i = Len(room) + 1 \/ i \in DOMAIN room
        BY <3>5
      <4> QED BY <3>1, <3>3, <3>5, <4>1
    <3> QED BY <3>4, <3>6 DEF QueueSums
  <2> QED BY <1>4, <2>1, <2>2 DEF send_traffic
<1>5. CASE Watch
  BY <1>1, <1>4, <1>5 DEF Watch, WatchdogStep, Tick, watchdog_run, watchdog_netns, watchdog_peer, dead_peer,
         watchdog_event, dead_peers
<1>6. CASE ForwardTraffic
  <2>1. CASE Dropped
    BY <1>2, <2>1 DEF Dropped, Unsubscribed
  <2>2. CASE q # <<>> /\ traffic_broadcast' = Received(traffic_broadcast)
    <3>1. traffic_broadcast'.queue = Tail(q)
      BY <1>0, <2>2 DEF Received, Channel
    <3> QED BY <1>3, <2>2, <3>1 DEF QueueSums
  <2> QED BY <1>6, <2>1, <2>2 DEF ForwardTraffic
<1>7. CASE WebsocketStep \/ ConnectionLost
  <2>1. CASE Dropped \/ Exited
    BY <1>2, <2>1 DEF Dropped, Exited, Unsubscribed
  <2>2. CASE NextMessage
    <3>1. Head(inbox) \in Request
      BY <2>2, HeadTailProperties DEF NextMessage, TypeInv, ChannelInv
    <3> QED BY <1>1, <2>1, <2>2, <3>1 DEF NextMessage, Read, Request
  <2>3. CASE connect_run
    BY <1>2, <2>3 DEF connect_run, subscribe
  <2> QED BY <1>1, <1>6, <1>7, <2>1, <2>2, <2>3
          DEF WebsocketStep, subscribe_events, ApplyReturns, ForwardEvent, ConnectionLost
<1>8. CASE Serve(WebsocketStep) \/ Serve(ConnectionLost)
  BY <1>7, <1>8 DEF Serve
<1>9. CASE Manage \/ UNCHANGED vars \/ Restart
  BY <1>1, <1>9 DEF Manage, Serve, ManagerSends, vars, Restart
<1>10. CASE Kernel \/ Reconfigure
  BY <1>1, <1>10 DEF Kernel, Handshake, Transfer, ClockMoves, Reconfigure, NetnsDel, NetnsAdd, Syncconf,
                     KernelFrame
<1> QED BY <1>5, <1>8, <1>9, <1>10 DEF Next

\* In every TrafficInfo that is built, in a queue or on its way, the totals of
\* TrafficInfo, NetworkTraffic and DeviceTraffic are the sums of their parts, and
\* no entry of a timestamp was overwritten, for any clock (one that stands still
\* or goes back, too), any number of ports and peers, and any apply in between -
\* provided that no two ports carry the same network.
THEOREM TotalsAreSums ==
    ASSUME NetworksHavePorts
    PROVE  Spec => []InfoSums
<1>1. PICK port : HasItsPort(port)
  BY DEF NetworksHavePorts
<1>2. Init => SumsInv(port)
  <2> SUFFICES ASSUME Init PROVE SumsInv(port)
    OBVIOUS
  <2>1. PortInv(port)
    BY <1>1 DEF Init, HasItsPort, PortInv
  <2>2. PollInv(port) /\ QueueSums
    BY DEF Init, WatchdogLaunched, WebsocketInit, Unsubscribed, PollInv, QueueSums
  <2> QED BY <2>1, <2>2 DEF SumsInv
<1>3. TypeInv /\ SumsInv(port) /\ [Next]_vars => SumsInv(port)'
  BY <1>1, PortNext, PollNext, QueueNext DEF SumsInv, TypeInv
<1>4. TypeInv /\ SumsInv(port) => InfoSums
  BY DEF SumsInv, PollInv, QueueSums, InfoSums, TypeInv, WatchInv
<1> HIDE DEF SumsInv
<1> QED BY <1>2, <1>3, <1>4, TypeInvariant, PTL DEF Spec

=============================================================================
