---------------------------- MODULE Integration -----------------------------
(***************************************************************************)
(* The integration test (integration/src/main.rs): a manager that drives   *)
(* one gateway through full and partial applies of generated networks and  *)
(* pings through them.  Composed with Gateway, whose daemon it drives.     *)
(*                                                                         *)
(* The driver accepts one connection and never another, whereas the daemon *)
(* may lose it and live on.  A deleted namespace stays reachable for a     *)
(* while: the driver sleeps three seconds for it ("FIXME: why does this    *)
(* break if we don't wait?"), which may or may not be enough.              *)
(***************************************************************************)
EXTENDS Gateway

CONSTANTS
    Rounds,      \* iterations of each of the four loops; 3 in the code
    Size,        \* networks generated or removed at a time; 10 in the code
    MaxPeers,    \* peers of a generated network; 2 in the code
    PORT_RANGE   \* 50000..60000 in the code

ASSUME IntegrationAssumption == Rounds \in Nat /\ Size \in Nat \ {0} /\ MaxPeers \in Nat

VARIABLES
    phase,       \* what the test does
    round,       \* how many requests it has sent
    expected,    \* its configuration
    previous,    \* the configuration before that
    connected,   \* its stream to the daemon is there
    lingering,   \* deleted namespaces that can still be reached
    clean        \* no command failed, the daemon did not die, the stream did
                 \* not end, and every sleep was long enough

testVars == <<phase, round, expected, previous>>
allVars  == <<vars, testVars, connected, lingering, clean>>

-----------------------------------------------------------------------------
\* generate_config(): random ports, which may coincide; new keys each time.
Address   == [addr |-> <<10, 0, 0, 1>>, trunc |-> <<10, 0, 0, 0>>]
PeerIp(i) == [addr |-> <<10, 0, 0, 1 + i>>, trunc |-> <<10, 0, 0, 1 + i>>]

Generated(p, g, n) ==
    [ private_key |-> <<p, g>>, listen_port |-> p, mtu |-> 1420, address |-> <<Address>>,
      peers |-> [ k \in { <<p, g, i>> : i \in 1 .. n } |->
                    [preshared_key |-> None, allowed_ips |-> {PeerIp(k[3])}, endpoint |-> None] ],
      proxy |-> <<>> ]

generate_config(g) ==
    UNION { { [p \in P |-> Generated(p, g, n[p])] : n \in [P -> 0 .. MaxPeers] } :
            P \in { Q \in SUBSET PORT_RANGE : Cardinality(Q) \in 1 .. Size } }

\* generate_partial_config(), which the test uses to add or to remove.
Removals(existing) ==
    { [p \in P |-> None] :
        P \in { Q \in SUBSET existing :
                  \/ Cardinality(Q) = Size
                  \/ Q = existing /\ Cardinality(Q) < Size } }

\* run_tests(): an empty configuration, four loops, an empty configuration.
FinalRound == 4 * Rounds + 1

\* What the test may ask for is among the requests that Gateway is about.
ASSUME RequestsAssumption ==
    /\ EmptyConfig \in Configs
    /\ \A g \in 1 .. FinalRound : generate_config(g) \subseteq Configs \cap Partials
    /\ \A P \in SUBSET PORT_RANGE : [p \in P |-> None] \in Partials

Loop == IF round \in {0, FinalRound} THEN 0 ELSE 1 + ((round - 1) \div Rounds)

Requests ==
    CASE Loop = 0 -> {EmptyConfig}
      [] Loop = 4 -> Removals(DOMAIN expected)
      [] OTHER    -> generate_config(round)

\* main() waits for the daemon, which connects once startup() is done; the
\* handshake may fail.
Accept ==
    /\ phase = "accept"
    /\ pc = "idle"
    /\ \/ phase' = "send" /\ connected' = TRUE /\ clean' = clean
       \/ phase' = "failed" /\ connected' = FALSE /\ clean' = FALSE
    /\ UNCHANGED <<vars, round, expected, previous, lingering>>

\* apply_config() and apply_partial_config() send a request.
SendRequest ==
    /\ phase = "send"
    /\ connected
    /\ \E c \in Requests :
        /\ IF Loop \in {3, 4} THEN apply_partial(c) ELSE apply(c)
        /\ expected' = IF Loop \in {3, 4} THEN MergePartial(expected, c) ELSE c
    /\ previous' = expected
    /\ phase' = "wait"
    /\ UNCHANGED <<round, connected, lingering, clean>>

\* The stream has ended: sending fails, or the answer never comes.
SendFails ==
    /\ phase = "send"
    /\ ~connected
    /\ phase' = "failed"
    /\ UNCHANGED <<vars, round, expected, previous, connected, lingering, clean>>


\* They skip other responses until theirs arrives, or the stream ends. The
\* answer is asserted to be Ok; a failed assertion ends the test at once.
ReceiveAnswer ==
    /\ phase = "wait"
    /\ \/ connected /\ result = "ok" /\ phase' = IF Loop = 2 THEN "sleep" ELSE "verify"
       \/ connected /\ result = "err" /\ phase' = "panicked"
       \/ ~connected /\ phase' = "failed"
    /\ UNCHANGED <<vars, round, expected, previous, connected, lingering, clean>>

\* Three seconds pass, whether deleted namespaces have vanished or not.
Sleep ==
    /\ phase = "sleep"
    /\ phase' = "verify"
    /\ clean' = (clean /\ lingering = {})
    /\ UNCHANGED <<vars, round, expected, previous, connected, lingering>>

\* ping_host() from a namespace set up as peer k of a network: its packets have
\* to reach an interface with the network's key that lets the peer's address
\* in and has the address that is pinged.
ping_host(ns, network, k) ==
    /\ ns.wg
    /\ ns.up
    /\ ns.conf # None
    /\ ns.conf.listen_port = network.listen_port
    /\ ns.conf.private_key = network.private_key
    /\ k \in DOMAIN ns.conf.peers
    /\ { ip.trunc : ip \in network.peers[k].allowed_ips } \subseteq ns.conf.peers[k].allowed_ips
    /\ Head(network.address) \in ns.addr

Behind(p) == (IF p \in DOMAIN netns THEN {netns[p]} ELSE {})
                \cup { x.ns : x \in { y \in lingering : y.port = p } }

verify_config(c) ==
    \A p \in DOMAIN c : \A k \in DOMAIN c[p].peers : \E ns \in Behind(p) : ping_host(ns, c[p], k)

verify_old_config(c) ==
    \A p \in DOMAIN c : \A k \in DOMAIN c[p].peers : \A ns \in Behind(p) : ~ping_host(ns, c[p], k)

\* The configuration that a round looks at after its request.
Verified ==
    CASE Loop = 0 -> EmptyConfig
      [] Loop = 2 -> previous
      [] OTHER    -> expected

Verify ==
    /\ phase = "verify"
    /\ LET good == IF Loop = 2 THEN verify_old_config(Verified) ELSE verify_config(Verified)
       IN  phase' = IF ~good THEN "failed" ELSE IF round = FinalRound THEN "passed" ELSE "send"
    /\ round' = IF round = FinalRound THEN round ELSE round + 1
    /\ UNCHANGED <<vars, expected, previous, connected, lingering, clean>>

\* A command that sets up or removes the namespace of a peer fails, or a ping
\* is lost.
VerifyFails ==
    /\ phase = "verify"
    /\ \E network \in Range(Verified) : DOMAIN network.peers # {}
    /\ phase' = "failed"
    /\ clean' = FALSE
    /\ UNCHANGED <<vars, round, expected, previous, connected, lingering>>

\* main() sends Shutdown whatever the result of run_tests(); without a stream
\* that fails, the error is dropped, and the daemon hears nothing.
SendShutdown ==
    /\ phase \in {"passed", "failed"}
    /\ connected
    /\ Shutdown
    /\ connected' = FALSE
    /\ UNCHANGED <<testVars, lingering, clean>>

-----------------------------------------------------------------------------
\* The daemon goes on or dies; its deleted namespaces linger.
Gateway_ ==
    /\ Handle \/ Crash
    /\ connected' = (connected /\ pc' # "down")
    /\ lingering' = lingering \cup { [port |-> p, ns |-> netns[p]] : p \in DOMAIN netns \ DOMAIN netns' }
    /\ clean' = (clean /\ result' # "err" /\ pc' # "down")
    /\ UNCHANGED testVars

\* The stream ends while the daemon lives: an error on it, an answer that cannot
\* be sent, or more events during an apply than a queue holds, so that recv()
\* returns Lagged.  The daemon drops the stream, finishes what it is at, and
\* tries to connect again for ever; the driver accepts no more.
ConnectionEnds ==
    /\ connected
    /\ connected' = FALSE
    /\ clean' = FALSE
    /\ UNCHANGED <<vars, testVars, lingering>>

Vanish ==
    /\ \E x \in lingering : lingering' = lingering \ {x}
    /\ UNCHANGED <<vars, testVars, connected, clean>>

Test ==
    \/ Accept
    \/ SendRequest \/ SendFails \/ ReceiveAnswer
    \/ Sleep \/ Verify \/ VerifyFails
    \/ SendShutdown

TestInit ==
    /\ Init
    /\ phase = "accept"
    /\ round = 0
    /\ expected = EmptyConfig
    /\ previous = EmptyConfig
    /\ connected = FALSE
    /\ lingering = {}
    /\ clean = TRUE

TestNext == Test \/ Gateway_ \/ ConnectionEnds \/ Vanish

\* Commands terminate; when a deleted namespace vanishes is nobody's promise.
TestSpec ==
    /\ TestInit
    /\ [][TestNext]_allVars
    /\ WF_allVars(Test)
    /\ WF_allVars(Gateway_)

-----------------------------------------------------------------------------
(***************************************************************************)
(* The integration test does not fail by itself: as long as no command     *)
(* fails, the daemon does not die, the stream does not end and the sleeps  *)
(* outlast the deleted namespaces, every apply is answered Ok, every       *)
(* network of the driver's own configuration is reachable for its peers    *)
(* after full and partial applies, and the networks of the configuration   *)
(* replaced are not.                                                       *)
(***************************************************************************)
TestPasses == clean => phase \notin {"failed", "panicked"}


=============================================================================
