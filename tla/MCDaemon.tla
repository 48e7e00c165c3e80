------------------------------ MODULE MCDaemon ------------------------------
(***************************************************************************)
(* Small instances of Daemon for TLC: one or two ports, up to two networks *)
(* and two peers, and bounded numbers of what the daemon does not decide.  *)
(***************************************************************************)
EXTENDS Daemon, FiniteSetsExt, TLC

CONSTANTS
    n1, n2, k1, k2, e1, e2,   \* model values: networks, peers, endpoints
    Start,                    \* what the clock may say when the daemon starts
    MaxChanges,               \* bound on steps of the kernel and of applies, which
                              \* is shared by the namespaces
    MaxFaults,                \* bound on failures and lost connections
    MaxRequests               \* bound on the manager's messages

VARIABLES changes, faults, requests

mcVars == <<vars, changes, faults, requests>>

-----------------------------------------------------------------------------
MCPubkey == {n1, n2, k1, k2}

Conf(p, n, peers) == [listen_port |-> p, public_key |-> n, peers |-> peers]

ConfA  == Conf(5000, n1, k1 :> None @@ k2 :> None)
ConfA1 == Conf(5000, n1, k1 :> None)
ConfA0 == Conf(5000, n1, EmptyMap)
ConfAE == Conf(5000, n1, k1 :> e1)
ConfB  == Conf(5000, n2, k2 :> None)
ConfC  == Conf(5001, n1, k1 :> None)

MovingPeer == {ConfA1, ConfAE}
OnePeer    == {ConfA1}
Churn      == {ConfA0, ConfA1, ConfB, ConfC}

PeerSymmetry == Permutations({k1, k2})

\* What a daemon finds that is started again beside a working interface.
Working(c) ==
    [ public_key |-> c.public_key,
      peers |-> [k \in DOMAIN c.peers |-> [handshake |-> 1, endpoint |-> e1, rx |-> 1, tx |-> 0]] ]

FoundOne     == {5000 :> Working(ConfA1)}
FoundTwice   == {5000 :> Working(ConfA1), 5000 :> Working(ConfA1) @@ 5001 :> Working(ConfC)}
FoundMoved   == {5000 :> [Working(ConfA1) EXCEPT !.peers[k1].endpoint = e2]}
FoundSeveral == {5000 :> Working(ConfA), 5000 :> Working(ConfA1) @@ 5001 :> Working(Conf(5001, n2, k1 :> None))}

\* What the theorem about InfoSums supposes holds, except where n1 has two.
ASSUME PortsAssumption == Confs # Churn => NetworksHavePorts

-----------------------------------------------------------------------------
MCInit == Init /\ now \in Start /\ changes = 0 /\ faults = 0 /\ requests = 0

Lagged == traffic_broadcast.lagged \/ events_broadcast.lagged

\* A command of the watchdog or the connection fails, or an apply panics.
IsFault ==
    \/ wpc = "tick" /\ cache' # cache /\ conn # "exited"
    \/ /\ wpc = "run" /\ wpc' = "run"
       /\ \E p \in names \ names' : Lookup(wg, p, None) # None
    \/ /\ conn = "up" /\ conn' = "down"
       /\ ~Lagged
       /\ inbox # <<>> => Head(inbox) # "garbage"
    \/ conn = "busy" /\ conn' # "busy" /\ conn' # "up"

\* A change costs as much as there are namespaces; the first one comes free.
Cost == IF \E p \in Port : NetnsAdd(p) THEN Cardinality(DOMAIN wg) ELSE Max({1, Cardinality(DOMAIN wg)})

MCNext ==
    \/ /\ Watch \/ Serve(WebsocketStep) \/ Serve(ConnectionLost) \/ Restart
       /\ faults' = faults + (IF IsFault THEN 1 ELSE 0)
       /\ faults' <= MaxFaults
       /\ UNCHANGED <<changes, requests>>
    \/ /\ Kernel \/ Reconfigure
       /\ changes' = changes + Cost
       /\ changes' <= MaxChanges
       /\ UNCHANGED <<faults, requests>>
    \/ /\ Manage
       /\ requests' = requests + 1
       /\ requests' <= MaxRequests
       /\ UNCHANGED <<changes, faults>>

MCSpec == MCInit /\ [][MCNext]_mcVars

MCFairSpec == MCSpec /\ Fairness

=============================================================================
