---------------------------- MODULE MCIntegration ---------------------------
(***************************************************************************)
(* A small instance of Integration for TLC.                                *)
(***************************************************************************)
EXTENDS Integration

CONSTANT MaxFaults   \* bound on failing commands, deaths and lost connections

VARIABLE faults

MCPrivkey == PORT_RANGE \X (0 .. FinalRound)

MCPeerMap ==
    { Generated(p, g, n).peers : p \in PORT_RANGE, g \in 0 .. FinalRound, n \in 0 .. MaxPeers }

MCIpNet == {Address} \cup { PeerIp(i) : i \in 1 .. MaxPeers }

MCConfigs  == {EmptyConfig} \cup UNION { generate_config(g) : g \in 1 .. FinalRound }
MCPartials == MCConfigs \cup { [p \in P |-> None] : P \in SUBSET PORT_RANGE }

\* A failing command of the daemon, its death before the verdict, a lost
\* connection, and a failing command or ping of the driver use up a fault.
IsFault ==
    \/ result' = "err" /\ result # "err"
    \/ pc' = "down" /\ pc # "down" /\ phase \notin {"passed", "failed"}
    \/ pc' # "down" /\ connected /\ ~connected'
    \/ phase = "verify" /\ clean # clean'

MCInit == TestInit /\ faults = 0

MCNext ==
    /\ TestNext
    /\ faults' = faults + (IF IsFault THEN 1 ELSE 0)
    /\ faults' <= MaxFaults

MCSpec ==
    /\ MCInit
    /\ [][MCNext]_<<allVars, faults>>
    /\ WF_allVars(Test)
    /\ WF_allVars(Gateway_)

=============================================================================
