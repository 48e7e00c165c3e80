-------------------------- MODULE GatewayContract ---------------------------
(***************************************************************************)
(* What a manager may rely on, without any of the gateway's machinery: it  *)
(* asks for configurations, gets answers, and internet traffic is routed   *)
(* to the backends of its networks.                                        *)
(*                                                                         *)
(*   - An Ok to a full Apply means that traffic is routed exactly as the   *)
(*     configuration says; an Ok to a partial one means the same for the   *)
(*     merged configuration, if that was true before (or if it is the      *)
(*     repetition of a partial apply that failed when it was).             *)
(*   - While a request is being handled only routes it is about change.    *)
(*   - Once promised, routes stay until the next request, also when the    *)
(*     daemon dies and starts again; only a restart of the machine or      *)
(*     container takes them away.                                          *)
(***************************************************************************)
EXTENDS NetworkTypes

CONSTANTS Configs, Partials

VARIABLES
    intended,     \* the manager's copy of the configuration
    served,       \* the routes in effect
    answer,       \* to the last request: "none", "pending", "ok", "err"
    trust,        \* "kept": an Ok is, or will be, a promise; "orphan": kept,
                  \* but the daemon no longer knows the configuration; "none"
    touched       \* ports whose routes the pending request may change

contractVars == <<intended, served, answer, trust, touched>>

Outside(routes, ports) == { r \in routes : r.port \notin ports }

Init ==
    /\ intended = EmptyConfig
    /\ served = {}
    /\ answer = "none"
    /\ trust = "none"
    /\ touched = {}

AskApply(c) ==
    /\ answer # "pending"
    /\ answer' = "pending"
    /\ intended' = c
    /\ trust' = "kept"
    /\ touched' = IF trust # "none" /\ c = intended THEN {} ELSE U16
    /\ served' = served

\* Only a repetition of a failed request can bring trust back.
AskPartial(c) ==
    /\ answer # "pending"
    /\ answer' = "pending"
    /\ intended' = MergePartial(intended, c)
    /\ \/ /\ trust = "kept" /\ PortsAgree(intended) /\ PortsAgree(c)
          /\ trust' = "kept" /\ touched' = DOMAIN c
       \/ /\ ~(trust = "kept" /\ PortsAgree(intended) /\ PortsAgree(c))
          /\ trust' = "none" /\ touched' = U16
       \/ /\ trust = "none" /\ answer = "err" /\ PortsAgree(c)
          /\ trust' = "kept" /\ touched' = DOMAIN c
    /\ served' = served

Work ==
    /\ answer = "pending"
    /\ Outside(served', touched) = Outside(served, touched)
    /\ UNCHANGED <<intended, answer, trust, touched>>

AnswerOk ==
    /\ answer = "pending"
    /\ answer' = "ok"
    /\ Outside(served', touched) = Outside(served, touched)
    /\ trust = "kept" => served' = RoutesOf(intended)
    /\ touched' = {}
    /\ UNCHANGED <<intended, trust>>

AnswerErr ==
    /\ answer = "pending"
    /\ answer' = "err"
    /\ Outside(served', touched) = Outside(served, touched)
    /\ trust' = "none"
    /\ touched' = {}
    /\ UNCHANGED intended

Die ==
    /\ answer' = "none"
    /\ trust' = IF answer = "pending" \/ trust = "none" THEN "none" ELSE "orphan"
    /\ touched' = {}
    /\ Outside(served', touched) = Outside(served, touched)
    /\ UNCHANGED intended

MachineRestart ==
    /\ answer = "none"
    /\ trust' = "none"
    /\ UNCHANGED <<intended, answer, touched>>

Next ==
    \/ \E c \in Configs : AskApply(c)
    \/ \E c \in Partials : AskPartial(c)
    \/ Work \/ AnswerOk \/ AnswerErr
    \/ Die \/ MachineRestart

Spec == Init /\ [][Next]_contractVars

\* Unless a request is pending, what is promised is what is served: also after
\* the daemon has died, with a promise that outlives it.
Promise == answer # "pending" /\ trust # "none" => served = RoutesOf(intended)

=============================================================================
