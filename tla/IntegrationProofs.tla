-------------------------- MODULE IntegrationProofs -------------------------
(***************************************************************************)
(* The integration test against the apply engine: every behaviour of the   *)
(* two is one of Gateway, so that all its theorems hold under test, and    *)
(* the test does not fail by itself (TestPasses), for any number of        *)
(* rounds, networks, peers and ports, and everything it may draw.          *)
(*                                                                         *)
(* TestPasses is about verdicts.  The inductive invariant follows the      *)
(* driver to them: whose keys its configurations hold, that they are the   *)
(* copy a manager would keep, that its stream is there, and that every     *)
(* answer it got was one that can be trusted.                              *)
(***************************************************************************)
EXTENDS Integration, GatewayRoutesProofs

\* A configuration of networks that were drawn in the rounds up to r.
DrawnBy(c, r) ==
    /\ DOMAIN c \subseteq PORT_RANGE
    /\ \A p \in DOMAIN c : \E g \in 1 .. r, n \in 0 .. MaxPeers : c[p] = Generated(p, g, n)

\* All networks of a configuration are of round r.
DrawnIn(c, r) == \A p \in DOMAIN c : \E n \in 0 .. MaxPeers : c[p] = Generated(p, r, n)

\* The driver's variables: what it replaced is older than what it asks for.
DriverInv ==
    /\ phase \in {"accept", "send", "wait", "sleep", "verify", "passed", "failed", "panicked"}
    /\ round \in 0 .. FinalRound
    /\ phase = "accept" => round = 0
    /\ DrawnBy(expected, IF phase \in {"accept", "send"} THEN round - 1 ELSE round)
    /\ phase \in {"wait", "sleep", "verify"} =>
         /\ DrawnBy(previous, round - 1)
         /\ Loop = 2 => DrawnIn(expected, round)

\* The answers it waits for, has got, and relies on.
Waiting ==
    \/ /\ ~Quiescent
       /\ kind # "startup"
       /\ result = "pending"
       /\ kind = "apply" \/ chain = "live"
    \/ pc = "idle" /\ result = "ok" /\ chain = "live"

AnswerInv ==
    clean =>
        /\ phase \notin {"failed", "panicked"}
        /\ phase \in {"send", "wait", "sleep", "verify"} => connected
        /\ phase = "wait" => Waiting /\ normal /\ intended = expected
        /\ phase \in {"sleep", "verify"} \/ (phase = "send" /\ round > 0) =>
             pc = "idle" /\ chain = "live" /\ normal /\ intended = expected
        /\ phase = "verify" /\ Loop = 2 => lingering = {}

TestInv == DriverInv /\ AnswerInv

-----------------------------------------------------------------------------
\* The round is a number that FinalRound bounds, and in the first and in the last
\* round of run_tests() the configuration is empty.
LEMMA RoundType ==
    /\ FinalRound \in Nat \ {0}
    /\ round \in {0, FinalRound} => Loop = 0
BY IntegrationAssumption DEF FinalRound, Loop

\* generate_config() draws its ports from PORT_RANGE and new keys for each.
LEMMA GeneratedDrawn ==
    ASSUME NEW r, NEW c \in generate_config(r)
    PROVE  DOMAIN c \subseteq PORT_RANGE /\ DrawnIn(c, r)
<1>0. PICK P \in SUBSET PORT_RANGE : c \in { [p \in P |-> Generated(p, r, n[p])] : n \in [P -> 0 .. MaxPeers] }
  BY DEF generate_config
<1>1. PICK n \in [P -> 0 .. MaxPeers] : c = [p \in P |-> Generated(p, r, n[p])]
  BY <1>0
<1>2. DOMAIN c = P
  BY <1>1
<1>3. ASSUME NEW p \in P PROVE n[p] \in 0 .. MaxPeers /\ c[p] = Generated(p, r, n[p])
  BY <1>1
<1> QED BY <1>2, <1>3 DEF DrawnIn

\* A configuration to remove networks with holds nothing but None.
LEMMA RemovalsNone ==
    ASSUME NEW E, NEW c \in Removals(E)
    PROVE  /\ DOMAIN c \subseteq E
           /\ \A p \in DOMAIN c : c[p] = None
           /\ c = [p \in DOMAIN c |-> None]
<1>1. PICK P \in SUBSET E : c = [p \in P |-> None]
  BY DEF Removals
<1> QED BY <1>1

\* What run_tests() asks for in a round.
LEMMA RequestsDrawn ==
    ASSUME DriverInv, NEW c \in Requests
    PROVE  /\ Loop = 0 => c = EmptyConfig
           /\ Loop = 4 => c \in Removals(DOMAIN expected)
           /\ Loop \notin {0, 4} => round \in 1 .. FinalRound /\ c \in generate_config(round)
<1>1. Loop = 0 => c = EmptyConfig
  BY DEF Requests
<1>2. Loop = 4 => c \in Removals(DOMAIN expected)
  BY DEF Requests
<1>3. Loop \notin {0, 4} => c \in generate_config(round)
  BY DEF Requests
<1>4. Loop # 0 => round \in 1 .. FinalRound
  BY RoundType DEF DriverInv
<1> QED BY <1>1, <1>2, <1>3, <1>4

\* The request is one that Gateway is about.
LEMMA RequestsKnown ==
    ASSUME DriverInv, NEW c \in Requests
    PROVE  IF Loop \in {3, 4} THEN c \in Partials ELSE c \in Configs
<1>1. CASE Loop = 0
  BY <1>1, RequestsDrawn, RequestsAssumption
<1>2. CASE Loop = 4
  <2>1. DOMAIN c \subseteq PORT_RANGE /\ c = [p \in DOMAIN c |-> None]
    BY <1>2, RequestsDrawn, RemovalsNone DEF DriverInv, DrawnBy
  <2> QED BY <1>2, <2>1, RequestsAssumption
<1>3. CASE Loop \notin {0, 4}
  BY <1>3, RequestsDrawn, RequestsAssumption
<1> QED BY <1>1, <1>2, <1>3

\* Every step of the two is one of Gateway or none of its business.
LEMMA TestStep ==
    ASSUME DriverInv, [TestNext]_allVars
    PROVE  [Next]_vars
<1>1. CASE UNCHANGED vars
  BY <1>1
<1>2. CASE SendRequest
  <2>1. PICK c \in Requests : IF Loop \in {3, 4} THEN apply_partial(c) ELSE apply(c)
    BY <1>2 DEF SendRequest
  <2> QED BY <2>1, RequestsKnown DEF Next, Request
<1>3. CASE SendShutdown
  BY <1>3 DEF SendShutdown, Next, Request
<1>4. CASE Gateway_
  BY <1>4 DEF Gateway_, Next, Fault
<1> QED BY <1>1, <1>2, <1>3, <1>4
        DEF TestNext, Test, Accept, SendFails, ReceiveAnswer, Sleep, Verify, VerifyFails,
            ConnectionEnds, Vanish, allVars

-----------------------------------------------------------------------------
\* Merging a request into the driver's configuration, as config.apply_partial()
\* does before it is sent, leaves networks that were drawn.
LEMMA MergeDrawn ==
    ASSUME DriverInv, phase = "send", NEW c \in Requests
    PROVE  DrawnBy(IF Loop \in {3, 4} THEN MergePartial(expected, c) ELSE c, round)
<1> DEFINE new == MergePartial(expected, c)
<1>0. round \in Nat /\ DOMAIN expected \subseteq PORT_RANGE
  BY RoundType DEF DriverInv, DrawnBy
<1>1. ASSUME NEW p \in DOMAIN expected
      PROVE  \E g \in 1 .. round, n \in 0 .. MaxPeers : expected[p] = Generated(p, g, n)
  <2>1. PICK g \in 1 .. round - 1, n \in 0 .. MaxPeers : expected[p] = Generated(p, g, n)
    BY DEF DriverInv, DrawnBy
  <2>2. g \in 1 .. round
    BY <1>0
  <2> QED BY <2>1, <2>2
<1>2. \A p \in DOMAIN new : IF p \in DOMAIN c THEN new[p] = c[p] /\ c[p] # None
                              ELSE p \in DOMAIN expected /\ new[p] = expected[p]
  BY DEF MergePartial
<1>3. CASE Loop = 0
  BY <1>3, RequestsDrawn DEF EmptyConfig, DrawnBy
<1>4. CASE Loop = 4
  <2>1. DOMAIN new \subseteq DOMAIN expected /\ \A p \in DOMAIN new : new[p] = expected[p]
    BY <1>2, <1>4, RequestsDrawn, RemovalsNone
  <2> HIDE DEF new
  <2>2. DrawnBy(new, round)
    BY <1>0, <1>1, <2>1 DEF DrawnBy
  <2> QED BY <1>4, <2>2 DEF new
<1>5. CASE Loop \notin {0, 4}
  <2>1. round \in 1 .. round /\ DOMAIN c \subseteq PORT_RANGE /\ DrawnIn(c, round)
    BY <1>0, <1>5, RequestsDrawn, GeneratedDrawn
  <2>2. DrawnBy(c, round)
    BY <2>1 DEF DrawnBy, DrawnIn
  <2> HIDE DEF new
  <2>3. DrawnBy(new, round)
    BY <1>0, <1>1, <1>2, <2>2 DEF DrawnBy
  <2> QED BY <2>2, <2>3 DEF new
<1> QED BY <1>3, <1>4, <1>5

\* The driver goes on.
LEMMA DriverNext ==
    ASSUME DriverInv, TypeOK, [TestNext]_allVars
    PROVE  DriverInv'
<1>0. round \in Nat /\ FinalRound \in Nat /\ round <= FinalRound
  BY RoundType DEF DriverInv
<1>1. CASE UNCHANGED testVars
  BY <1>1 DEF testVars, DriverInv, DrawnBy, DrawnIn, Loop
<1>2. CASE SendRequest
  <2>1. PICK c \in Requests : expected' = IF Loop \in {3, 4} THEN MergePartial(expected, c) ELSE c
    BY <1>2 DEF SendRequest
  <2>2. phase = "send" /\ phase' = "wait" /\ round' = round /\ previous' = expected /\ Loop' = Loop
    BY <1>2 DEF SendRequest, Loop
  <2>3. DrawnBy(expected', round)
    BY <2>1, <2>2, MergeDrawn
  <2>4. DrawnBy(expected, round - 1)
    BY <2>2 DEF DriverInv
  <2>5. Loop = 2 => DrawnIn(expected', round)
    BY <2>1, RequestsDrawn, GeneratedDrawn
  <2> QED BY <2>2, <2>3, <2>4, <2>5 DEF DriverInv, DrawnBy, DrawnIn
<1>3. ASSUME phase \in {"wait", "sleep", "verify"}, UNCHANGED <<round, expected, previous>>,
             phase' \in {"sleep", "verify", "failed", "panicked"}
      PROVE  DriverInv'
  <2>1. Loop' = Loop
    BY <1>3 DEF Loop
  <2>2. DrawnBy(expected, round)
    BY <1>3 DEF DriverInv
  <2> QED BY <1>3, <2>1, <2>2 DEF DriverInv, DrawnBy, DrawnIn
<1>4. CASE ReceiveAnswer
  <2>1. phase = "wait" /\ UNCHANGED <<round, expected, previous>>
    BY <1>4 DEF ReceiveAnswer
  <2>2. phase' \in {"sleep", "verify", "failed", "panicked"}
    BY <1>4 DEF ReceiveAnswer
  <2> QED BY <1>3, <2>1, <2>2
<1>5. CASE Sleep \/ VerifyFails
  BY <1>3, <1>5 DEF Sleep, VerifyFails
<1>6. CASE Verify
  <2>1. /\ phase = "verify" /\ UNCHANGED <<expected, previous>>
        /\ phase' \in {"failed", "passed", "send"}
        /\ round' = IF round = FinalRound THEN round ELSE round + 1
        /\ round = FinalRound => phase' # "send"
    BY <1>6 DEF Verify
  <2>2. DrawnBy(expected, round)
    BY <2>1 DEF DriverInv
  <2>3. ASSUME NEW r \in Nat, round <= r PROVE DrawnBy(expected, r)
    <3>1. 1 .. round \subseteq 1 .. r
      BY <1>0, <2>3
    <3> QED BY <2>2, <3>1 DEF DrawnBy
  <2>4. DrawnBy(expected, IF phase' = "send" THEN round' - 1 ELSE round')
    BY <1>0, <2>1, <2>3
  <2>5. round' \in 0 .. FinalRound
    BY <1>0, <2>1
  <2> QED BY <2>1, <2>4, <2>5 DEF DriverInv, DrawnBy
<1>7. CASE Accept \/ SendFails
  <2>1. /\ phase \in {"accept", "send"} /\ phase' \in {"send", "failed"}
        /\ phase = "send" => phase' = "failed"
        /\ UNCHANGED <<round, expected, previous>>
    BY <1>7 DEF Accept, SendFails
  <2>2. DrawnBy(expected, round - 1)
    BY <2>1 DEF DriverInv
  <2>3. 1 .. round - 1 \subseteq 1 .. round
    BY <1>0
  <2>4. DrawnBy(expected, round)
    BY <2>2, <2>3 DEF DrawnBy
  <2> QED BY <2>1, <2>2, <2>4 DEF DriverInv, DrawnBy
<1> QED BY <1>1, <1>2, <1>4, <1>5, <1>6, <1>7
        DEF TestNext, Test, SendShutdown, Gateway_, ConnectionEnds, Vanish, allVars

-----------------------------------------------------------------------------
\* What generate_config() puts into a network.
LEMMA GeneratedNetwork ==
    ASSUME NEW c, NEW r, DrawnBy(c, r), NEW p \in DOMAIN c
    PROVE  /\ c[p].listen_port = p /\ WithListenPort(c[p], p) = c[p]
           /\ c[p].address = <<Address>>
           /\ \E g \in 1 .. r : c[p].private_key = <<p, g>>
<1>1. PICK g \in 1 .. r, n \in 0 .. MaxPeers : c[p] = Generated(p, g, n)
  BY DEF DrawnBy
<1> DEFINE net == Generated(p, g, n)
<1>2. net.listen_port = p /\ net.address = <<Address>> /\ net.private_key = <<p, g>>
  BY DEF Generated
<1>3. WithListenPort(net, p) = net
  BY DEF Generated, WithListenPort
<1> QED BY <1>1, <1>2, <1>3

\* A configuration that was drawn, or that removes, has its ports as keys.
LEMMA DrawnPortsAgree ==
    ASSUME NEW c, NEW r, DrawnBy(c, r)
    PROVE  PortsAgree(c)
BY GeneratedNetwork DEF PortsAgree

\* What a trusted answer says of the interface of an expected network.
LEMMA InterfaceInPlace ==
    ASSUME Inv, DriverInv, phase = "verify", pc = "idle", chain = "live", normal, intended = expected,
           NEW p \in DOMAIN expected
    PROVE  /\ p \in DOMAIN netns
           /\ netns[p].wg /\ netns[p].up
           /\ Address \in netns[p].addr
           /\ netns[p].conf = to_config(expected[p])
           /\ netns[p].conf # None
<1>1. InPlace(intended) /\ TypeOK
  BY DEF Inv, IInv, TypeInv, InSync, Promised, Quiescent
<1>2. DrawnBy(expected, round)
  BY DEF DriverInv
<1>3. WithListenPort(expected[p], p) = expected[p] /\ expected[p].address = <<Address>>
  BY <1>2, GeneratedNetwork
<1>4. p \in DOMAIN netns /\ NetworkInPlace(netns[p], expected[p])
  BY <1>1, <1>3 DEF InPlace
<1>5. Address \in ToSet(expected[p].address)
  BY <1>3 DEF ToSet
<1>6. to_config(expected[p]) \in WireguardConf
  BY <1>1 DEF TypeOK, IsGatewayConfig, to_config, WireguardConf, NetworkState
<1>7. to_config(expected[p]) # None
  BY <1>6, NoneAssumption
<1> QED BY <1>4, <1>5, <1>7 DEF NetworkInPlace

\* verify_config() reaches every peer of the networks expected.
LEMMA Reached ==
    ASSUME Inv, DriverInv, phase = "verify", pc = "idle", chain = "live", normal, intended = expected
    PROVE  verify_config(expected)
<1> SUFFICES ASSUME NEW p \in DOMAIN expected, NEW k \in DOMAIN expected[p].peers
             PROVE  netns[p] \in Behind(p) /\ ping_host(netns[p], expected[p], k)
  BY DEF verify_config
<1>1. /\ p \in DOMAIN netns /\ netns[p].wg /\ netns[p].up /\ Address \in netns[p].addr
      /\ netns[p].conf = to_config(expected[p]) /\ netns[p].conf # None
  BY InterfaceInPlace
<1>2. expected[p].address = <<Address>>
  BY GeneratedNetwork DEF DriverInv
<1>3. Head(expected[p].address) \in netns[p].addr
  BY <1>1, <1>2
<1>4. /\ netns[p].conf.listen_port = expected[p].listen_port
      /\ netns[p].conf.private_key = expected[p].private_key
      /\ netns[p].conf.peers = PeersConfig(expected[p].peers)
  BY <1>1 DEF to_config
<1>5. /\ k \in DOMAIN netns[p].conf.peers
      /\ netns[p].conf.peers[k].allowed_ips = { ip.trunc : ip \in expected[p].peers[k].allowed_ips }
  BY <1>4 DEF PeersConfig, peer_to_config
<1> QED BY <1>1, <1>3, <1>4, <1>5 DEF ping_host, Behind

\* Once deleted namespaces are gone, verify_old_config() reaches no peer of the
\* networks that were replaced: their ports are free, or have a new key.
LEMMA Unreached ==
    ASSUME Inv, DriverInv, phase = "verify", Loop = 2, lingering = {},
           pc = "idle", chain = "live", normal, intended = expected
    PROVE  verify_old_config(previous)
<1> SUFFICES ASSUME NEW p \in DOMAIN previous, NEW k \in DOMAIN previous[p].peers,
                    NEW ns \in Behind(p), ping_host(ns, previous[p], k)
             PROVE  FALSE
  BY DEF verify_old_config
<1>1. p \in DOMAIN netns /\ ns = netns[p]
  BY DEF Behind
<1>2. p \in DOMAIN expected
  BY <1>1 DEF Inv, IInv, InSync, Promised, Quiescent, InPlace
<1>4. netns[p].conf = to_config(expected[p])
  BY <1>2, InterfaceInPlace
<1>5. ns.conf.private_key = expected[p].private_key
  BY <1>1, <1>4 DEF to_config
<1>6. PICK n \in 0 .. MaxPeers : expected[p] = Generated(p, round, n)
  BY <1>2 DEF DriverInv, DrawnIn
<1>7. expected[p].private_key = <<p, round>>
  BY <1>6 DEF Generated
<1>8. PICK g \in 1 .. round - 1 : previous[p].private_key = <<p, g>>
  BY GeneratedNetwork DEF DriverInv
<1>9. previous[p].private_key = ns.conf.private_key
  BY DEF ping_host
<1>10. round \in Nat
  BY RoundType DEF DriverInv
<1>11. g = round
  BY <1>5, <1>7, <1>8, <1>9
<1> QED BY <1>8, <1>10, <1>11

-----------------------------------------------------------------------------
\* The request that the driver sends is one whose answer it can trust.
LEMMA AnswerSend ==
    ASSUME Inv, DriverInv, AnswerInv, SendRequest
    PROVE  AnswerInv'
<1>1. PICK c \in Requests :
        /\ IF Loop \in {3, 4} THEN apply_partial(c) ELSE apply(c)
        /\ expected' = IF Loop \in {3, 4} THEN MergePartial(expected, c) ELSE c
  BY DEF SendRequest
<1>2. phase = "send" /\ phase' = "wait" /\ clean' = clean /\ connected /\ connected' = connected
  BY DEF SendRequest
<1> SUFFICES ASSUME clean PROVE Waiting' /\ normal' /\ intended' = expected'
  BY <1>2 DEF AnswerInv
<1>3. CASE Loop \notin {3, 4}
  BY <1>1, <1>3 DEF apply, Waiting, Quiescent
<1>4. CASE Loop \in {3, 4}
  <2>1. round > 0
    BY <1>4, RoundType DEF DriverInv
  <2>2. pc = "idle" /\ chain = "live" /\ normal /\ intended = expected
    BY <1>2, <2>1 DEF AnswerInv
  <2>3. config = expected
    BY <2>2 DEF Inv, IInv, RememberedAsIntended
  <2>4. PortsAgree(config)
    BY <1>2, <2>3, DrawnPortsAgree DEF DriverInv
  <2>5. PortsAgree(c)
    <3>1. CASE Loop = 4
      BY <3>1, RequestsDrawn, RemovalsNone DEF PortsAgree
    <3>2. CASE Loop = 3
      <4>1. DrawnIn(c, round)
        BY <3>2, RequestsDrawn, GeneratedDrawn
      <4>2. \A p, g, n : Generated(p, g, n).listen_port = p
        BY DEF Generated
      <4> QED BY <4>1, <4>2 DEF DrawnIn, PortsAgree
    <3> QED BY <1>4, <3>1, <3>2
  <2> QED BY <1>1, <1>4, <2>2, <2>4, <2>5 DEF apply_partial, Waiting, Quiescent
<1> QED BY <1>3, <1>4

\* The verdict that the driver comes to is that it goes on.
LEMMA AnswerVerify ==
    ASSUME Inv, DriverInv, AnswerInv, Verify
    PROVE  AnswerInv'
<1>1. phase = "verify" /\ UNCHANGED <<vars, expected, connected, lingering, clean>>
  BY DEF Verify
<1>2. UNCHANGED <<pc, chain, normal, intended>>
  BY <1>1 DEF vars, coreVars, taskVars, historyVars
<1> SUFFICES ASSUME clean
             PROVE  phase' \in {"passed", "send"}
  BY <1>1, <1>2 DEF AnswerInv
<1>3. pc = "idle" /\ chain = "live" /\ normal /\ intended = expected
  BY <1>1 DEF AnswerInv
<1>4. CASE Loop = 2
  <2>1. Verified = previous
    BY <1>4 DEF Verified
  <2>2. verify_old_config(previous)
    BY <1>1, <1>3, <1>4, Unreached DEF AnswerInv
  <2> QED BY <1>4, <2>1, <2>2 DEF Verify
<1>5. CASE Loop = 0
  <2>1. Verified = EmptyConfig
    BY <1>5 DEF Verified
  <2>2. verify_config(EmptyConfig)
    BY DEF verify_config, EmptyConfig
  <2> QED BY <1>5, <2>1, <2>2 DEF Verify
<1>6. CASE Loop \notin {0, 2}
  <2>1. Verified = expected
    BY <1>6 DEF Verified
  <2>2. verify_config(expected)
    BY <1>1, <1>3, Reached
  <2> QED BY <1>6, <2>1, <2>2 DEF Verify
<1> QED BY <1>4, <1>5, <1>6

\* While nothing fails the handler comes to the answer the driver waits for, and
\* between requests the daemon does nothing.
LEMMA AnswerGateway ==
    ASSUME Inv, DriverInv, AnswerInv, Gateway_
    PROVE  AnswerInv'
<1>1. /\ UNCHANGED testVars /\ (clean' => clean /\ result' # "err" /\ pc' # "down")
      /\ connected /\ pc' # "down" => connected'
  BY DEF Gateway_
<1>2. UNCHANGED <<phase, round, expected, previous>> /\ Loop' = Loop
  BY <1>1 DEF testVars, Loop
<1>3. ASSUME clean' PROVE pc # "idle"
  <2>1. ~Crash
    BY <1>1, <1>3 DEF Crash, Die, Killed
  <2>2. Handle
    BY <2>1 DEF Gateway_
  <2> QED BY <2>2
      DEF Handle, startup, apply_bridge, netns_list, Prune, PruneDone, RemoveNetwork, apply_netns,
          apply_wireguard, apply_veth, apply_forwarding, PanicNoAddress, NetworksDone,
          WriteModule, WriteSites, nginx_reload
<1>4. ASSUME clean', phase \in {"send", "wait", "sleep", "verify"} PROVE connected'
  BY <1>1, <1>4 DEF AnswerInv
<1>5. ASSUME clean' PROVE ~(phase \in {"sleep", "verify"} \/ (phase = "send" /\ round > 0))
  BY <1>1, <1>3, <1>5 DEF AnswerInv
<1> SUFFICES ASSUME clean', phase = "wait" PROVE Waiting' /\ normal' /\ intended' = expected'
  BY <1>1, <1>2, <1>4, <1>5 DEF AnswerInv
<1>6. /\ ~Quiescent /\ kind # "startup" /\ result = "pending" /\ normal /\ intended = expected
      /\ kind = "apply" \/ chain = "live"
  BY <1>1, <1>3 DEF AnswerInv, Waiting
<1>7. [Next]_vars
  BY TestStep DEF TestNext
<1>8. UNCHANGED <<kind, intended, normal>>
  BY <1>6, <1>7, HandlerFrame
<1>9. ~Abort /\ ~Killed
  BY <1>1, <1>6 DEF Abort, Killed
<1>10. CASE ~Quiescent' /\ UNCHANGED <<result, chain, redo>>
  BY <1>2, <1>6, <1>8, <1>10 DEF Waiting
<1>11. CASE Finish
  BY <1>2, <1>6, <1>8, <1>11 DEF Finish, Waiting
<1> QED BY <1>6, <1>7, <1>9, <1>10, <1>11, HandlerControl

LEMMA AnswerNext ==
    ASSUME Inv, DriverInv, AnswerInv, [TestNext]_allVars
    PROVE  AnswerInv'
<1> USE DEF vars, coreVars, taskVars, historyVars, testVars
<1>1. CASE ReceiveAnswer
  <2>1. /\ phase = "wait"
        /\ UNCHANGED <<pc, chain, normal, intended, round, expected, connected, lingering, clean>>
    BY <1>1 DEF ReceiveAnswer
  <2> SUFFICES ASSUME clean
               PROVE  /\ result = "ok" /\ connected
                      /\ phase' = IF Loop = 2 THEN "sleep" ELSE "verify"
    BY <2>1 DEF AnswerInv, Waiting, Loop
  <2>2. connected /\ Waiting
    BY <2>1 DEF AnswerInv
  <2> QED BY <1>1, <2>2 DEF ReceiveAnswer, Waiting
<1>2. CASE Sleep
  BY <1>2 DEF Sleep, AnswerInv
<1>3. CASE VerifyFails
  BY <1>3 DEF VerifyFails, AnswerInv
<1>4. CASE SendShutdown
  BY <1>4 DEF SendShutdown, AnswerInv
<1>5. CASE Vanish
  BY <1>5 DEF Vanish, AnswerInv, Waiting, Quiescent, Loop
<1>6. CASE UNCHANGED allVars
  BY <1>6 DEF allVars, AnswerInv, Waiting, Quiescent, Loop
<1>7. CASE Accept
  <2>1. \/ phase' = "send" /\ connected' /\ round' = round /\ clean' = clean
        \/ ~clean'
    BY <1>7 DEF Accept
  <2>2. phase = "accept"
    BY <1>7 DEF Accept
  <2> QED BY <2>1, <2>2 DEF AnswerInv, DriverInv
<1>8. CASE SendFails \/ ConnectionEnds
  BY <1>8 DEF SendFails, ConnectionEnds, AnswerInv
<1> QED BY <1>1, <1>2, <1>3, <1>4, <1>5, <1>6, <1>7, <1>8, AnswerSend, AnswerVerify, AnswerGateway
        DEF TestNext, Test

-----------------------------------------------------------------------------
\* Together, from the first round.
LEMMA TestInitially == TestInit => Init /\ TestInv
<1> SUFFICES ASSUME TestInit PROVE Init /\ TestInv
  OBVIOUS
<1>1. /\ Init /\ phase = "accept" /\ round = 0 /\ expected = EmptyConfig
  BY DEF TestInit
<1>2. DrawnBy(EmptyConfig, -1)
  BY DEF DrawnBy, EmptyConfig
<1>3. DriverInv
  BY <1>1, <1>2, RoundType DEF DriverInv
<1> QED BY <1>1, <1>3 DEF TestInv, AnswerInv

LEMMA TestTypes == Inv => TypeOK
BY DEF Inv, IInv, TypeInv

LEMMA TestInvNext == Inv /\ TestInv /\ [TestNext]_allVars => TestInv' /\ Inv' /\ [Next]_vars
BY TestTypes, DriverNext, AnswerNext, TestStep, RoutesNext DEF TestInv

LEMMA TestInvariant == TestSpec => []Inv /\ []TestInv
<1>1. TestInit => Inv /\ TestInv
  BY TestInitially, RoutesInit
<1>2. Inv /\ TestInv /\ [TestNext]_allVars => Inv' /\ TestInv'
  BY TestInvNext
<1> QED BY <1>1, <1>2, PTL DEF TestSpec

\* The gateway under test is the gateway: whatever the driver draws, asks for and
\* waits for, and however its steps interleave with the daemon's commands, the
\* daemon behaves as Gateway says, so that every theorem about Gateway holds of
\* the system that run_tests() exercises.
THEOREM TestDrivesGateway == TestSpec => Spec
<1>1. TestInit => Init
  BY TestInitially
<1>2. Inv /\ TestInv /\ [TestNext]_allVars => [Next]_vars
  BY TestInvNext
<1> QED BY <1>1, <1>2, TestInvariant, PTL DEF TestSpec, Spec

\* The integration test does not fail by itself: unless a command fails, the
\* daemon dies, the stream between them ends or a deleted namespace outlives the
\* three seconds of sleep, every answer it waits for is Ok, verify_config()
\* reaches every peer of its own merged configuration, and verify_old_config()
\* none of the one it replaced.
THEOREM IntegrationTestPasses == TestSpec => []TestPasses
<1>1. TestInv => TestPasses
  BY DEF TestInv, AnswerInv, TestPasses
<1> QED BY <1>1, TestInvariant, PTL

=============================================================================
