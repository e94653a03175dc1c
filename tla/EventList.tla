------------------------------ MODULE EventList -----------------------------
(* What an event queue of the simulator promises: a list of events in the    *)
(* order of their ticks and priorities, the last one scheduled first among   *)
(* equals (LIFO, eventq.hh:195-203), serviced from its head.                 *)
EXTENDS EventOrder

CONSTANTS Events, Ticks

VARIABLES
  queue,     \* the scheduled events, [event, when] in the order of service
  squashed,  \* those that will be dropped when their turn comes
  curTick    \* the time of the last event processed

vars == <<queue, squashed, curTick>>

Queued(e) == \E i \in DOMAIN queue : queue[i].event = e

Init ==
  /\ queue = <<>>
  /\ squashed = {}
  /\ curTick = 0

Schedule(e, t) ==
  /\ ~Queued(e) /\ t >= curTick
  /\ queue' = Inserted(queue, [event |-> e, when |-> t])
  /\ UNCHANGED <<squashed, curTick>>

Deschedule(e) ==
  /\ Queued(e)
  /\ queue' = Without(queue, e)
  /\ squashed' = squashed \ {e}
  /\ UNCHANGED curTick

Reschedule(e, t) ==
  /\ t >= curTick
  /\ queue' = Inserted(Without(queue, e), [event |-> e, when |-> t])
  /\ squashed' = squashed \ {e}
  /\ UNCHANGED curTick

Squash(e) ==
  /\ Queued(e)
  /\ squashed' = squashed \cup {e}
  /\ UNCHANGED <<queue, curTick>>

Service ==
  /\ queue # <<>>
  /\ queue' = Tail(queue)
  /\ squashed' = squashed \ {Head(queue).event}
  /\ curTick' = IF Head(queue).event \in squashed THEN curTick ELSE Head(queue).when

Next ==
  \/ \E e \in Events, t \in Ticks : Schedule(e, t) \/ Reschedule(e, t)
  \/ \E e \in Events : Deschedule(e) \/ Squash(e)
  \/ Service

Spec == Init /\ [][Next]_vars
=============================================================================
