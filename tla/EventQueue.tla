----------------------------- MODULE EventQueue -----------------------------
(* The event queue of the simulator (sim/eventq.{hh,cc}, eventq_impl.hh) as  *)
(* it is in memory: a list of bins, one per tick and priority, linked by     *)
(* nextBin; the events of a bin are a stack linked by nextInBin. Only the    *)
(* top of a bin has a valid nextBin, that of the events below goes stale.    *)
(* One queue, used by one thread.                                            *)
EXTENDS Integers, Sequences, FiniteSets

CONSTANTS
  Events,      \* the Event objects
  NULL,        \* the null pointer
  Priority,    \* the priority of each event
  AutoDelete,  \* the events with the flag of that name
  MaxTick      \* bound on the clock

ASSUME EventParameters ==
  /\ NULL \notin Events
  /\ Priority \in [Events -> Int]
  /\ AutoDelete \subseteq Events
  /\ MaxTick \in Nat

VARIABLES
  q,          \* the pointers: head, and nextBin and nextInBin of every event
  when,       \* Event::_when
  scheduled,  \* the events with flag Scheduled
  squashed,   \* the events with flag Squashed
  curTick,    \* the clock of the queue
  current,    \* the event whose process() is running, or NULL
  live        \* the events that exist (auto-deleted ones come and go)

vars == <<q, when, scheduled, squashed, curTick, current, live>>

Init ==
  /\ q = [head |-> NULL, nextBin |-> [e \in Events |-> NULL],
          nextInBin |-> [e \in Events |-> NULL]]
  /\ when = [e \in Events |-> 0]
  /\ scheduled = {} /\ squashed = {}
  /\ curTick = 0
  /\ current = NULL
  /\ live = Events

-----------------------------------------------------------------------------
(* The order of events, w their ticks.                                       *)
Before(w, e, f) ==
  \/ w[e] < w[f]
  \/ w[e] = w[f] /\ Priority[e] < Priority[f]

(* Mutant: the comparison that decides to push looks at the ticks only.      *)
SameBin_TickOnly(w, e, f) == w[e] = w[f]

SameBin(w, e, f) == w[e] = w[f] /\ Priority[e] = Priority[f]

(* The last bin before that of e, when the first one is before it.           *)
LastBefore(l, w, e) ==
  LET walk[p \in Events] ==
        LET curr == l.nextBin[p]
        IN  IF curr # NULL /\ Before(w, curr, e) THEN walk[curr] ELSE p
  IN  walk[l.head]

(* Event::insertBefore(): e on top of the bin of curr, or in a new bin in    *)
(* front of it.                                                              *)
InsertBefore(l, w, e, curr) ==
  IF curr = NULL \/ Before(w, e, curr)
    THEN [l EXCEPT !.nextBin[e] = curr, !.nextInBin[e] = NULL]
    ELSE [l EXCEPT !.nextBin[e] = l.nextBin[curr], !.nextInBin[e] = curr]

(* Mutant: an event of the head's own bin goes behind it.                    *)
Insert_BehindHead(l, w, e) ==
  IF l.head = NULL \/ Before(w, e, l.head)
    THEN [InsertBefore(l, w, e, l.head) EXCEPT !.head = e]
    ELSE LET prev == LastBefore(l, w, e)
         IN  [InsertBefore(l, w, e, l.nextBin[prev]) EXCEPT !.nextBin[prev] = e]

(* EventQueue::insert().                                                     *)
Insert(l, w, e) ==
  IF l.head = NULL \/ ~Before(w, l.head, e)
    THEN [InsertBefore(l, w, e, l.head) EXCEPT !.head = e]
    ELSE LET prev == LastBefore(l, w, e)
         IN  [InsertBefore(l, w, e, l.nextBin[prev]) EXCEPT !.nextBin[prev] = e]

(* The events of the bin with this top, from the top down.                   *)
Stack(l, top) ==
  LET from[e \in Events \cup {NULL}] ==
        IF e = NULL THEN <<>> ELSE <<e>> \o from[l.nextInBin[e]]
  IN  from[top]

InStack(l, e, top) == LET stack == Stack(l, top) IN \E i \in DOMAIN stack : stack[i] = e

(* Event::removeItem(): the lists without e and the new top of its bin, or   *)
(* the next bin when e was alone.                                            *)
RemoveItem(l, e, top) ==
  IF e = top
    THEN LET next == l.nextInBin[top]
         IN  IF next = NULL
               THEN [list |-> l, top |-> l.nextBin[top]]
               ELSE [list |-> [l EXCEPT !.nextBin[next] = l.nextBin[top]], top |-> next]
    ELSE LET above == CHOOSE x \in Events : InStack(l, x, top) /\ l.nextInBin[x] = e
         IN  [list |-> [l EXCEPT !.nextInBin[above] = l.nextInBin[e]], top |-> top]

(* EventQueue::remove() finds e: it does not panic.                          *)
Found(l, w, e) ==
  /\ l.head # NULL
  /\ IF SameBin(w, l.head, e)
       THEN InStack(l, e, l.head)
       ELSE /\ Before(w, l.head, e)
            /\ LET curr == l.nextBin[LastBefore(l, w, e)]
               IN  curr # NULL /\ SameBin(w, curr, e) /\ InStack(l, e, curr)

Remove(l, w, e) ==
  IF SameBin(w, l.head, e)
    THEN LET r == RemoveItem(l, e, l.head) IN [r.list EXCEPT !.head = r.top]
    ELSE LET prev == LastBefore(l, w, e)
             r == RemoveItem(l, e, l.nextBin[prev])
         IN  [r.list EXCEPT !.nextBin[prev] = r.top]

-----------------------------------------------------------------------------
(* Operations of any simulation object, in a handler or between events.      *)
(* Their assertions are guards.                                              *)

(* new Event.                                                                *)
New(e) ==
  /\ e \notin live
  /\ live' = live \cup {e}
  /\ q' = [q EXCEPT !.nextBin[e] = NULL, !.nextInBin[e] = NULL]
  /\ when' = [when EXCEPT ![e] = 0]
  /\ UNCHANGED <<scheduled, squashed, curTick, current>>

Schedule(e, t) ==
  /\ e \in live \ scheduled
  /\ t >= curTick
  /\ when' = [when EXCEPT ![e] = t]
  /\ q' = Insert(q, when', e)
  /\ scheduled' = scheduled \cup {e}
  /\ UNCHANGED <<squashed, curTick, current, live>>

(* Nobody deschedules an auto-deleted event from its own handler: the queue  *)
(* still reads its flags when the handler returns.                           *)
Deschedule(e) ==
  /\ e \in scheduled
  /\ e # current \/ e \notin AutoDelete
  /\ Found(q, when, e)
  /\ q' = Remove(q, when, e)
  /\ squashed' = squashed \ {e}
  /\ scheduled' = scheduled \ {e}
  /\ live' = live \ (AutoDelete \cap {e})
  /\ UNCHANGED <<when, curTick, current>>

(* Mutant: the event is inserted again without being removed.                *)
Reschedule_KeepOld(e, t) ==
  /\ e \in live
  /\ t >= curTick
  /\ when' = [when EXCEPT ![e] = t]
  /\ q' = IF e \in scheduled THEN q ELSE Insert(q, when', e)
  /\ squashed' = squashed \ {e}
  /\ scheduled' = scheduled \cup {e}
  /\ UNCHANGED <<curTick, current, live>>

(* With always set, the event need not be scheduled.                         *)
Reschedule(e, t) ==
  /\ e \in live
  /\ t >= curTick
  /\ e \in scheduled => Found(q, when, e)
  /\ when' = [when EXCEPT ![e] = t]
  /\ q' = LET rest == IF e \in scheduled THEN Remove(q, when, e) ELSE q
          IN  Insert(rest, when', e)
  /\ squashed' = squashed \ {e}
  /\ scheduled' = scheduled \cup {e}
  /\ UNCHANGED <<curTick, current, live>>

(* Devices squash events they have scheduled and forget.                     *)
Squash(e) ==
  /\ e \in scheduled \ squashed
  /\ squashed' = squashed \cup {e}
  /\ UNCHANGED <<q, when, scheduled, curTick, current, live>>

(* Mutant: the pop uses the link of the event below the top, stale or not.   *)
Popped_StaleLink(l) ==
  LET next == l.nextInBin[l.head]
  IN  IF next = NULL THEN [l EXCEPT !.head = l.nextBin[l.head]]
                     ELSE [l EXCEPT !.head = next]

Popped(l) ==
  LET next == l.nextInBin[l.head]
  IN  IF next = NULL THEN [l EXCEPT !.head = l.nextBin[l.head]]
                     ELSE [l EXCEPT !.head = next, !.nextBin[next] = l.nextBin[l.head]]

(* EventQueue::serviceOne() up to process(), or all of it for a squashed     *)
(* event.                                                                    *)
ServiceOne ==
  /\ current = NULL
  /\ q.head # NULL
  /\ q' = Popped(q)
  /\ scheduled' = scheduled \ {q.head}
  /\ IF q.head \in squashed
       THEN /\ squashed' = squashed \ {q.head}
            /\ live' = live \ (AutoDelete \cap {q.head})
            /\ UNCHANGED <<curTick, current>>
       ELSE /\ curTick' = when[q.head]
            /\ current' = q.head
            /\ UNCHANGED <<squashed, live>>
  /\ UNCHANGED when

(* The rest of serviceOne(), after process().                                *)
ProcessDone ==
  /\ current # NULL
  /\ live' = IF current \in AutoDelete \ scheduled THEN live \ {current} ELSE live
  /\ current' = NULL
  /\ UNCHANGED <<q, when, scheduled, squashed, curTick>>

Next ==
  \/ \E e \in Events : New(e) \/ Deschedule(e) \/ Squash(e)
  \/ \E e \in Events, t \in 0 .. MaxTick : Schedule(e, t) \/ Reschedule(e, t)
  \/ ServiceOne
  \/ ProcessDone

Spec == Init /\ [][Next]_vars

-----------------------------------------------------------------------------
(* All events on the lists, in the order of service.                         *)
Contents ==
  LET from[top \in Events \cup {NULL}] ==
        IF top = NULL THEN <<>> ELSE Stack(q, top) \o from[q.nextBin[top]]
  IN  from[q.head]

(* The pointers implement a sorted list, in which the last event scheduled   *)
(* comes first among equals. Stale links are never followed.                 *)
List == INSTANCE EventList WITH
  Ticks <- 0 .. MaxTick,
  queue <- [i \in DOMAIN Contents |-> [event |-> Contents[i], when |-> when[Contents[i]]]]
ListSpec == List!Spec

(* The flag Scheduled, which every assertion looks at, agrees with the       *)
(* lists: each event with the flag is on them once, the others are not, and  *)
(* no deleted event is reachable.                                            *)
ScheduledOnce ==
  /\ {Contents[i] : i \in DOMAIN Contents} = scheduled
  /\ Len(Contents) = Cardinality(scheduled)
  /\ scheduled \subseteq live

(* remove() finds every scheduled event in the bin it looks in: the panics   *)
(* "event not found!" are never reached.                                     *)
NeverPanics == \A e \in scheduled : Found(q, when, e)

(* No event is ever left behind by the clock (doSimLoop() asserts that the   *)
(* head is not, "event scheduled in the past").                              *)
NothingLate == \A e \in scheduled : when[e] >= curTick
=============================================================================
