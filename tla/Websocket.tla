----------------------------- MODULE Websocket ------------------------------
(***************************************************************************)
(* The websocket task (src/websocket.rs) and the manager at the other end  *)
(* of its connection.  The task forwards what it receives on its two       *)
(* subscriptions and serves requests one at a time; while it is in         *)
(* gateway::apply or apply_partial (module Gateway), it does nothing else. *)
(*                                                                         *)
(* A message is at the manager when socket.send returned, or the           *)
(* connection is lost.  Messages that were handed to a dying connection    *)
(* are as lost as the ones still in a queue when the receivers are         *)
(* dropped.                                                                *)
(***************************************************************************)
EXTENDS Global, Traffic

VARIABLES
    conn,      \* "down", "half" (subscribed to traffic only), "up", "busy"
               \* (in an apply) or "exited" (the daemon has ended)
    inbox,     \* the manager's messages that the task has not read
    view,      \* what the events told the manager: which peers are up, and
               \* where they were last
    reported   \* the bytes per peer that the manager was told of

websocketVars == <<conn, inbox, view, reported>>

\* GatewayRequest (a full and a partial apply do the same to the connection),
\* text that is none, and WebSocket messages that are not text.
Request == {"apply", "shutdown", "garbage", "other"}

NoView == [up |-> {}, endpoint |-> EmptyMap]

\* A manager that believes the events it is sent.
Learn(v, e) ==
    LET who == <<e.network, e.peer>>
    IN  [ up       |-> CASE e.type = "connected"    -> v.up \cup {who}
                         [] e.type = "disconnected" -> v.up \ {who}
                         [] e.type = "endpoint"     -> v.up,
          endpoint |-> IF e.type = "disconnected" THEN v.endpoint
                       ELSE With(v.endpoint, who, e.endpoint) ]

-----------------------------------------------------------------------------
\* connect_run returned an error: the socket and both receivers are dropped,
\* and connect() tries again after a second.
Dropped ==
    /\ conn' = "down"
    /\ inbox' = <<>>
    /\ traffic_broadcast' = Unsubscribed
    /\ events_broadcast' = Unsubscribed

\* Break() of connect()'s loop, or a panic in an apply: the daemon ends.
Exited ==
    /\ conn' = "exited"
    /\ inbox' = <<>>
    /\ traffic_broadcast' = Unsubscribed
    /\ events_broadcast' = Unsubscribed

\* The connection is made, and the first receiver created.
connect_run ==
    /\ conn = "down"
    /\ conn' = "half"
    /\ traffic_broadcast' = subscribe
    /\ UNCHANGED <<inbox, view, reported, events_broadcast>>

\* The second receiver.
subscribe_events ==
    /\ conn = "half"
    /\ conn' = "up"
    /\ events_broadcast' = subscribe
    /\ UNCHANGED <<inbox, view, reported, traffic_broadcast>>

\* The manager sends a message.
ManagerSends(m) ==
    /\ conn \in {"half", "up", "busy"}
    /\ inbox' = Append(inbox, m)
    /\ UNCHANGED <<conn, view, reported, traffic_broadcast, events_broadcast>>

\* The first arm of select!: what a message of the manager does.
Read(m) ==
    CASE m = "apply"    -> conn' = "busy" /\ inbox' = Tail(inbox) /\ UNCHANGED <<traffic_broadcast, events_broadcast>>
      [] m = "other"    -> inbox' = Tail(inbox) /\ UNCHANGED <<conn, traffic_broadcast, events_broadcast>>
      [] m = "garbage"  -> Dropped
      [] m = "shutdown" -> Exited

\* Seeded fault: select! prefers the subscriptions.
NextMessageLast ==
    /\ conn = "up"
    /\ inbox # <<>>
    /\ traffic_broadcast.queue = <<>>
    /\ Read(Head(inbox))
    /\ UNCHANGED <<view, reported>>

NextMessage ==
    /\ conn = "up"
    /\ inbox # <<>>
    /\ Read(Head(inbox))
    /\ UNCHANGED <<view, reported>>

\* The apply returns and is answered; the answer may find the connection lost.
\* A network without an address panics the daemon.
ApplyReturns ==
    /\ conn = "busy"
    /\ \/ conn' = "up" /\ UNCHANGED <<inbox, traffic_broadcast, events_broadcast>>
       \/ Dropped
       \/ Exited
    /\ UNCHANGED <<view, reported>>

\* The third arm of select!. recv() fails when messages were missed, and the
\* send when the connection is lost.
ForwardEvent ==
    /\ conn = "up"
    /\ events_broadcast.queue # <<>>
    /\ \/ /\ ~events_broadcast.lagged
          /\ view' = Learn(view, Head(events_broadcast.queue))
          /\ events_broadcast' = Received(events_broadcast)
          /\ UNCHANGED <<conn, inbox, traffic_broadcast>>
       \/ Dropped /\ UNCHANGED view
    /\ UNCHANGED reported

\* The second arm of select!, for traffic.
ForwardTraffic ==
    /\ conn = "up"
    /\ traffic_broadcast.queue # <<>>
    /\ \/ /\ ~traffic_broadcast.lagged
          /\ reported' = [ k \in DOMAIN reported |->
                             reported[k] + BytesOf(Head(traffic_broadcast.queue), k) ]
          /\ traffic_broadcast' = Received(traffic_broadcast)
          /\ UNCHANGED <<conn, inbox, events_broadcast>>
       \/ Dropped /\ UNCHANGED reported
    /\ UNCHANGED view

\* The stream ends or fails.
ConnectionLost ==
    /\ conn = "up"
    /\ Dropped
    /\ UNCHANGED <<view, reported>>

\* What the task does of itself, without a fault of the connection.
WebsocketStep ==
    \/ connect_run
    \/ subscribe_events
    \/ NextMessage
    \/ ApplyReturns
    \/ ForwardEvent
    \/ ForwardTraffic

WebsocketInit ==
    /\ conn = "down"
    /\ inbox = <<>>
    /\ view = NoView
    /\ traffic_broadcast = Unsubscribed
    /\ events_broadcast = Unsubscribed

=============================================================================
