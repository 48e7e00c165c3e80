------------------------------- MODULE Global -------------------------------
(***************************************************************************)
(* The part of struct Global (src/lib.rs) that the watchdog and the        *)
(* websocket loop share: two tokio broadcast channels.  The websocket loop *)
(* is the only subscriber and holds at most one receiver of each, so that  *)
(* a channel is the queue of that receiver.                                *)
(***************************************************************************)
EXTENDS Integers, Sequences, Maps

CONSTANTS
    BROADCAST_QUEUE_TRAFFIC,   \* capacities; both are 16 in the code
    BROADCAST_QUEUE_EVENTS

ASSUME QueueAssumption == {BROADCAST_QUEUE_TRAFFIC, BROADCAST_QUEUE_EVENTS} \subseteq Nat \ {0}

VARIABLES traffic_broadcast, events_broadcast

Unsubscribed == [open |-> FALSE, queue |-> <<>>, lagged |-> FALSE]

\* Sender::subscribe: a new receiver sees nothing of what was sent before.
subscribe == [open |-> TRUE, queue |-> <<>>, lagged |-> FALSE]

\* Seeded fault: the queue grows.
send_unbounded(channel, capacity, message) ==
    [channel EXCEPT !.queue = Append(@, message)]

\* Sender::send to a receiver: a full queue loses its oldest message, and the
\* receiver's next recv() reports that it lagged.
send(channel, capacity, message) ==
    LET full == Len(channel.queue) = capacity
    IN  [ channel EXCEPT !.queue  = Append(IF full THEN Tail(@) ELSE @, message),
                         !.lagged = @ \/ full ]

\* Receiver::recv, when there is a message and the receiver did not lag.
Received(channel) == [channel EXCEPT !.queue = Tail(@)]

IsChannel(channel, capacity) ==
    /\ channel.open \in BOOLEAN
    /\ channel.lagged \in BOOLEAN
    /\ Len(channel.queue) <= capacity
    /\ ~channel.open => channel = Unsubscribed

=============================================================================
