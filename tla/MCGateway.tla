----------------------------- MODULE MCGateway ------------------------------
(***************************************************************************)
(* A small instance of Gateway for TLC: two ports, networks that differ in *)
(* everything an apply can get wrong (MTU, addresses, keys, the number and *)
(* order of proxied URLs, a host proxied by two networks, http, https and  *)
(* ssh), and bounded numbers of requests and of faults.                    *)
(***************************************************************************)
EXTENDS Gateway

CONSTANTS
    MaxRequests,  \* bound on the requests the manager sends
    MaxFaults,    \* bound on failing commands and on deaths within a handler
    k1, k2        \* model values: private keys

VARIABLES requests, faults

mcVars == <<vars, requests, faults>>

-----------------------------------------------------------------------------
MCKeys   == {k1, k2}

Ip(addr, net) == [addr |-> addr, trunc |-> net]

Net0 == Ip("10.0.0.1", "10.0.0.0/16")
Net1 == Ip("10.1.0.1", "10.1.0.0/16")
MCIpNets == {Net0, Net1}

Peer1 == [preshared_key |-> None, allowed_ips |-> {Ip("10.0.0.2", "10.0.0.2/32")}, endpoint |-> None]
Peer2 == [Peer1 EXCEPT !.allowed_ips = {Ip("10.0.7.1", "10.0.7.0/24")}, !.endpoint = "1.2.3.4:5"]

Peers1 == "p1" :> Peer1
Peers2 == ("p1" :> [Peer1 EXCEPT !.preshared_key = "s"]) @@ ("p2" :> Peer2)
MCPeerMaps == {Peers1, Peers2}

HttpsA == [scheme |-> "https", host |-> "a"]
HttpsB == [scheme |-> "https", host |-> "b"]
HttpC  == [scheme |-> "http",  host |-> "c"]
SshD   == [scheme |-> "ssh",   host |-> "d"]
MCUrls == {HttpsA, HttpsB, HttpC, SshD}

MCSocks == {"10.0.0.2:443", "10.0.0.3:443", "10.0.0.4:80"}

Proxied(url, addrs) == [url |-> url, addrs |-> addrs]

\* Two states of one network, and one of another.
NetA == [ private_key |-> k1, listen_port |-> 5000, mtu |-> 1420,
          address |-> <<Net0>>, peers |-> Peers1,
          proxy |-> << Proxied(HttpC, <<"10.0.0.4:80">>),
                       Proxied(HttpsA, <<"10.0.0.2:443", "10.0.0.3:443">>),
                       Proxied(SshD, <<"10.0.0.2:443">>) >> ]

NetA2 == [ NetA EXCEPT !.mtu = 1400, !.peers = Peers2,
                       !.address = <<Net1, Net0>>,
                       !.proxy = << Proxied(HttpsA, <<"10.0.0.3:443">>),
                                    Proxied(HttpsB, <<"10.0.0.2:443">>) >> ]

NetB == [ NetA EXCEPT !.private_key = k2, !.listen_port = 5001, !.peers = Peers2,
                      !.proxy = << Proxied(HttpsB, <<"10.0.0.4:80", "10.0.0.2:443">>) >> ]

\* A network without an address, and one whose listen_port was left out.
NetNoAddress == [ NetB EXCEPT !.address = <<>> ]
NetNoPort    == [ NetB EXCEPT !.listen_port = 0 ]

A  == 5000 :> NetA
A2 == 5000 :> NetA2
B  == 5001 :> NetB

MCConfigs == { A @@ B, 5001 :> NetNoPort, EmptyConfig }

MCPartials == { A2, (5000 :> None) @@ B, A @@ (5001 :> None) }

\* Requests for the runs that show what the code does not do: a listen_port
\* left out, a network removed, and port 5000 handed over from one network to
\* another.
NoPortPartials  == { 5001 :> NetNoPort }
NonePartials    == { 5000 :> None }
HandoverConfigs == { A, 5000 :> [NetB EXCEPT !.listen_port = 5000] }

\* Requests that precede the configuration a manager settles on: a network
\* without an address panics the daemon.
PanicConfigs  == { A @@ B, A2 @@ (5001 :> NetNoAddress) }
PanicPartials == { 5001 :> NetNoAddress, (5000 :> None) @@ B }

MCCustom == { [url |-> HttpsB, socket |-> [ip |-> <<127, 0, 0, 1>>, port |-> 8000]] }

ASSUME RoutableAssumption == Routable

-----------------------------------------------------------------------------
MCInit == Init /\ requests = 0 /\ faults = 0

\* A command that fails, the death of a daemon that is not idle and the restart
\* of the container (which takes the bridge away) use up a fault; a panic does
\* not.
IsFault ==
    \/ result' = "err" /\ result # "err"
    \/ pc' = "down" /\ pc # "idle" /\ ~(\E p \in todo : PanicNoAddress(p))
    \/ bridge' < bridge

IsRequest == result' = "pending" /\ result # "pending"

\* The manager has nothing more to ask.
ManagerDone == pc = "idle" /\ requests = MaxRequests /\ UNCHANGED mcVars

MCNext ==
    \/ /\ Next
       /\ requests' = requests + (IF IsRequest THEN 1 ELSE 0)
       /\ faults' = faults + (IF IsFault THEN 1 ELSE 0)
       /\ requests' <= MaxRequests
       /\ faults' <= MaxFaults
    \/ ManagerDone

MCSpec == MCInit /\ [][MCNext]_mcVars

MCFairSpec == MCSpec /\ WF_mcVars(Handle /\ MCNext)

-----------------------------------------------------------------------------
(***************************************************************************)
(* A manager that, after MaxRequests arbitrary requests at most, settles   *)
(* on one configuration and sends it until it is answered Ok, and again    *)
(* whenever the daemon has been replaced.  A dead daemon is started again  *)
(* beside the NGINX that still runs, as by hand or by a service manager    *)
(* ("simply launch the executable", README.md).  The container has nothing *)
(* that does so: its entrypoint.sh ends with the daemon, and on a torn     *)
(* module file its next run waits for an NGINX that does not come up.      *)
(***************************************************************************)
Settled == A @@ B

Settle ==
    /\ result # "ok" \/ intended # Settled
    /\ apply(Settled)
    /\ UNCHANGED <<requests, faults>>

RetrySpec ==
    /\ MCInit
    /\ [][MCNext \/ Settle]_mcVars
    /\ WF_mcVars(Handle /\ MCNext)
    /\ WF_mcVars(Restart /\ MCNext)
    /\ SF_mcVars(Settle)

(***************************************************************************)
(* Repetition repairs what an apply() left behind: whatever commands failed*)
(* and wherever the daemon died or the container was restarted, once that  *)
(* stops and a daemon runs, the machine becomes what apply() was asked     *)
(* for, and stays so.                                                      *)
(***************************************************************************)
Converges == <>[]InPlace(Settled)

=============================================================================
