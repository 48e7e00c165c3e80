------------------------------ MODULE Traffic -------------------------------
(***************************************************************************)
(* Traffic accounting of the client library (client/src/lib.rs): Traffic,  *)
(* TrafficInfo, NetworkTraffic and DeviceTraffic.                          *)
(***************************************************************************)
EXTENDS Integers, FiniteSets, Maps

\* Traffic::new, Traffic::default and the sum of two.
NewTraffic(rx, tx) == [rx |-> rx, tx |-> tx]

NoTraffic == NewTraffic(0, 0)

Plus(a, b) == NewTraffic(a.rx + b.rx, a.tx + b.tx)

Bytes(traffic) == traffic.rx + traffic.tx

TrafficInfo_new(start_time) ==
    [ start_time |-> start_time, stop_time |-> start_time,
      traffic |-> NoTraffic, networks |-> EmptyMap ]

\* DeviceTraffic::add; the entry of a timestamp is replaced, not added to.
DeviceTraffic_add(device, time, traffic) ==
    [ traffic |-> Plus(device.traffic, traffic),
      times   |-> With(device.times, time, traffic) ]

\* Seeded fault: the total of the network is not kept.
NetworkTraffic_lost(network, device, time, traffic) ==
    LET old == Lookup(network.devices, device, [traffic |-> NoTraffic, times |-> EmptyMap])
    IN  [ traffic |-> traffic,
          devices |-> With(network.devices, device, DeviceTraffic_add(old, time, traffic)) ]

NetworkTraffic_add(network, device, time, traffic) ==
    LET old == Lookup(network.devices, device, [traffic |-> NoTraffic, times |-> EmptyMap])
    IN  [ traffic |-> Plus(network.traffic, traffic),
          devices |-> With(network.devices, device, DeviceTraffic_add(old, time, traffic)) ]

TrafficInfo_add(info, network, device, time, traffic) ==
    LET old == Lookup(info.networks, network, [traffic |-> NoTraffic, devices |-> EmptyMap])
    IN  [ info EXCEPT
            !.traffic   = Plus(@, traffic),
            !.stop_time = IF time > @ THEN time ELSE @,
            !.networks  = With(@, network, NetworkTraffic_add(old, device, time, traffic)) ]

-----------------------------------------------------------------------------
\* The sum of the values of a map, counted unit by unit.
Units(f) == UNION { {x} \X (1 .. f[x]) : x \in DOMAIN f }

SumOf(f) == Cardinality(Units(f))

\* The bytes an info holds for one device, in one network and in all.
DeviceBytes(info, network, device) ==
    LET devices == info.networks[network].devices
    IN  IF device \in DOMAIN devices THEN Bytes(devices[device].traffic) ELSE 0

BytesOf(info, device) ==
    SumOf([n \in DOMAIN info.networks |-> DeviceBytes(info, n, device)])

\* The bytes of all entries of a map of records with a traffic field.
Total(map) == SumOf([k \in DOMAIN map |-> Bytes(map[k].traffic)])

\* Every total is the sum of its parts, down to the timestamps.
SumsAgree(info) ==
    /\ Bytes(info.traffic) = Total(info.networks)
    /\ \A n \in DOMAIN info.networks :
        LET devices == info.networks[n].devices
        IN  /\ Bytes(info.networks[n].traffic) = Total(devices)
            /\ \A d \in DOMAIN devices :
                Bytes(devices[d].traffic)
                  = SumOf([t \in DOMAIN devices[d].times |-> Bytes(devices[d].times[t])])

=============================================================================
