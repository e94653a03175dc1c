----------------------------- MODULE ParallelSim ----------------------------
(* Simulation with several main event queues, one thread for each            *)
(* (sim/simulate.cc, global_event.{cc,hh}, eventq.{hh,cc}, base/barrier.hh). *)
(* Thread 0 is the main one, which runs the Python script between calls of   *)
(* simulate(). Global events, one local event on each queue, synchronise the *)
(* threads: the quantum event, the simulate() limit and the exit events.     *)
(* A queue is the sequence EventQueue implements.                            *)
EXTENDS Integers, Sequences, FiniteSets

CONSTANTS
  N,           \* numMainEventQueues, more than one
  simQuantum,
  WorkDelay,   \* the period of the objects' own events
  StartTick,   \* the tick of their first ones
  Limits,      \* the ticks simulate() may be told to run to
  MaxCalls,    \* bound on the calls of simulate()
  MaxOps       \* bound on the operations of each thread's handlers

ASSUME SimParameters ==
  /\ N \in Nat /\ N > 1
  /\ simQuantum \in Nat \ {0} /\ WorkDelay \in Nat \ {0}
  /\ StartTick \in Nat /\ Limits \subseteq Nat
  /\ MaxCalls \in Nat /\ MaxOps \in Nat

Threads == 0 .. N - 1
Nobody == N

(* Local events by the object they belong to; those of the same name on      *)
(* different queues are different.                                           *)
Quantum == <<"quantum">>
Limit == <<"limit">>
Exit(i) == <<"exit", i>>    \* the one thread i may create
Work == <<"work">>          \* of an object on the queue
Message == <<"message">>    \* scheduled from another thread
Io == <<"io">>              \* scheduled by a thread that migrates

GlobalExits == {Limit} \cup {Exit(i) : i \in Threads}
Globals == {Quantum} \cup GlobalExits
NoEvent == <<"none">>
ThreadBarrier == <<"threadBarrier">>

(* Progress_Event_Pri, Sim_Exit_Pri and Default_Pri.                         *)
Priority == [e \in Globals \cup {Work, Message, Io} |->
               IF e = Quantum THEN 95 ELSE IF e \in GlobalExits THEN 100 ELSE 0]

INSTANCE EventOrder

VARIABLES
  mainq,       \* the events of each queue, in the order of service
  asyncq,      \* its async_queue
  curTick,     \* its clock
  scheduled,   \* the pairs <<event, queue>> with flag Scheduled
  lock,        \* the holder of its service_mutex
  globalQ,     \* the holder of globalQMutex
  numLeft,     \* of each barrier
  generation,  \* of each barrier, modulo 2
  pc,          \* where each thread is
  at,          \* the event it processes
  gen,         \* its variable gen in Barrier::wait()
  todo,        \* the schedule() calls it is in: event, tick, queues left
  inParallelMode,
  calls,       \* the calls of simulate() so far
  ops          \* the operations of its handlers so far

queues == <<mainq, asyncq, curTick, scheduled>>
barriers == <<numLeft, generation, gen>>
vars == <<queues, lock, globalQ, barriers, pc, at, todo, inParallelMode, calls, ops>>

NothingToDo == [event |-> NoEvent, when |-> 0, queues |-> <<>>]

Init ==
  /\ mainq = [k \in Threads |-> <<[event |-> Work, when |-> StartTick]>>]
  /\ asyncq = [k \in Threads |-> <<>>]
  /\ curTick = [k \in Threads |-> 0]
  /\ scheduled = {Work} \X Threads
  /\ lock = [k \in Threads |-> Nobody]
  /\ globalQ = Nobody
  /\ numLeft = [b \in Globals \cup {ThreadBarrier} |-> N]
  /\ generation = [b \in Globals \cup {ThreadBarrier} |-> 0]
  /\ gen = [i \in Threads |-> 0]
  /\ pc = [i \in Threads |-> IF i = 0 THEN "python" ELSE "enter"]
  /\ at = [i \in Threads |-> NoEvent]
  /\ todo = [i \in Threads |-> NothingToDo]
  /\ inParallelMode = FALSE
  /\ calls = 0
  /\ ops = [i \in Threads |-> 0]

Goto(i, label) == pc' = [pc EXCEPT ![i] = label]

Entry(e, t) == [event |-> e, when |-> t]
Flagged(e) == \E k \in Threads : <<e, k>> \in scheduled
Content(list) == {list[n] : n \in DOMAIN list}

-----------------------------------------------------------------------------
(* The two halves of Barrier::wait().                                        *)

Arrive(i, b, last, wait) ==
  /\ gen' = [gen EXCEPT ![i] = generation[b]]
  /\ IF numLeft[b] = 1
       THEN /\ generation' = [generation EXCEPT ![b] = 1 - @]
            /\ numLeft' = [numLeft EXCEPT ![b] = N]
            /\ Goto(i, last)
       ELSE /\ numLeft' = [numLeft EXCEPT ![b] = @ - 1]
            /\ Goto(i, wait)
            /\ UNCHANGED generation

Notified(i, b) == gen[i] # generation[b]

-----------------------------------------------------------------------------
(* The main thread outside the simulation loop.                              *)

(* simulate() up to the barrier. The limit and the quantum event go straight *)
(* to the queues: inParallelMode is not set yet.                             *)
Simulate(until) ==
  /\ pc[0] = "python" /\ calls < MaxCalls
  /\ until >= curTick[0]
  /\ mainq' = [k \in Threads |->
       Inserted(Inserted(Without(mainq[k], Limit), Entry(Limit, until)),
                Entry(Quantum, curTick[0] + simQuantum))]
  /\ scheduled' = scheduled \cup ({Limit, Quantum} \X Threads)
  /\ inParallelMode' = TRUE
  /\ calls' = calls + 1
  /\ Goto(0, "enter")
  /\ UNCHANGED <<asyncq, curTick, lock, globalQ, barriers, at, todo, ops>>

(* simulate() after the loop: the quantum event is descheduled.              *)
Return ==
  /\ pc[0] = "return"
  /\ inParallelMode' = FALSE
  /\ mainq' = [k \in Threads |-> Without(mainq[k], Quantum)]
  /\ scheduled' = scheduled \ ({Quantum} \X Threads)
  /\ Goto(0, "python")
  /\ UNCHANGED <<asyncq, curTick, lock, globalQ, barriers, at, todo, calls, ops>>

-----------------------------------------------------------------------------
(* The simulation loop.                                                      *)

EnterBarrier(i) ==
  /\ pc[i] = "enter"
  /\ Arrive(i, ThreadBarrier, "merge", "entering")
  /\ UNCHANGED <<queues, lock, globalQ, at, todo, inParallelMode, calls, ops>>

LeaveBarrier(i) ==
  /\ pc[i] = "entering" /\ Notified(i, ThreadBarrier)
  /\ Goto(i, "merge")
  /\ UNCHANGED <<queues, lock, globalQ, barriers, at, todo, inParallelMode, calls, ops>>

(* handleAsyncInsertions().                                                  *)
Merged(k) ==
  LET merge[n \in 0 .. Len(asyncq[k])] ==
        IF n = 0 THEN mainq[k] ELSE Inserted(merge[n - 1], asyncq[k][n])
  IN  merge[Len(asyncq[k])]

HandleAsyncInsertions(i) ==
  /\ mainq' = [mainq EXCEPT ![i] = Merged(i)]
  /\ asyncq' = [asyncq EXCEPT ![i] = <<>>]
  /\ UNCHANGED <<curTick, scheduled>>

(* At the start of doSimLoop(), without the lock of the queue.               *)
StartLoop(i) ==
  /\ pc[i] = "merge"
  /\ HandleAsyncInsertions(i)
  /\ Goto(i, "loop")
  /\ UNCHANGED <<lock, globalQ, barriers, at, todo, inParallelMode, calls, ops>>

(* serviceOne() up to process(), which holds the lock.                       *)
ServiceOne(i) ==
  /\ pc[i] = "loop" /\ lock[i] = Nobody
  /\ lock' = [lock EXCEPT ![i] = i]
  /\ LET x == Head(mainq[i])
     IN  /\ mainq' = [mainq EXCEPT ![i] = Tail(@)]
         /\ scheduled' = scheduled \ {<<x.event, i>>}
         /\ curTick' = [curTick EXCEPT ![i] = x.when]
         /\ at' = [at EXCEPT ![i] = x.event]
         /\ Goto(i, IF x.event \in Globals THEN "barrier1" ELSE "handler")
  /\ UNCHANGED <<asyncq, globalQ, barriers, todo, inParallelMode, calls, ops>>

HandlerReturn(i) ==
  /\ pc[i] = "handler"
  /\ lock' = [lock EXCEPT ![i] = Nobody]
  /\ at' = [at EXCEPT ![i] = NoEvent]
  /\ Goto(i, "loop")
  /\ UNCHANGED <<queues, globalQ, barriers, todo, inParallelMode, calls, ops>>

-----------------------------------------------------------------------------
(* What the handler of an ordinary event may do. schedule() asserts that the *)
(* event is not scheduled, which the objects take care of.                   *)

Operate(i) ==
  /\ pc[i] = "handler" /\ ops[i] < MaxOps
  /\ ops' = [ops EXCEPT ![i] = @ + 1]

(* schedule() on the thread's own queue.                                     *)
ScheduleWork(i) ==
  /\ pc[i] = "handler" /\ ops[i] < MaxOps
  /\ <<Work, i>> \notin scheduled
  /\ mainq' = [mainq EXCEPT ![i] = Inserted(@, Entry(Work, curTick[i] + WorkDelay))]
  /\ scheduled' = scheduled \cup {<<Work, i>>}
  /\ UNCHANGED <<asyncq, curTick, lock, globalQ, barriers, pc, at, todo,
                 inParallelMode, calls, ops>>

(* schedule() on the queue of another thread, one quantum ahead.             *)
SendMessage(i, k) ==
  /\ Operate(i)
  /\ k # i /\ <<Message, k>> \notin scheduled
  /\ todo' = [todo EXCEPT ![i] = [event |-> Message, when |-> curTick[i] + simQuantum,
                                  queues |-> <<k>>]]
  /\ Goto(i, "insert")
  /\ UNCHANGED <<queues, lock, globalQ, barriers, at, inParallelMode, calls>>

AllQueues == [n \in 1 .. N |-> n - 1]

(* BaseGlobalEvent::schedule() of event e at tick t.                         *)
GlobalSchedule(i, e, t) ==
  /\ todo' = [todo EXCEPT ![i] = [event |-> e, when |-> t, queues |-> AllQueues]]
  /\ Goto(i, "globalQ")

(* Mutant: the exit takes effect at once.                                    *)
ExitTick_Now(i) == curTick[i]

ExitTick(i) == curTick[i] + simQuantum

(* A new exit event.                                                         *)
ExitSimLoop(i) ==
  /\ Operate(i)
  /\ ~Flagged(Exit(i)) /\ \A j \in Threads : at[j] # Exit(i)
  /\ GlobalSchedule(i, Exit(i), ExitTick(i))
  /\ UNCHANGED <<queues, lock, globalQ, barriers, at, inParallelMode, calls>>

(* Mutant: the mutex is not taken.                                           *)
LockGlobalQ_Free(i) ==
  /\ pc[i] = "globalQ"
  /\ Goto(i, "insert")
  /\ UNCHANGED <<queues, lock, globalQ, barriers, at, todo, inParallelMode, calls, ops>>

LockGlobalQ(i) ==
  /\ pc[i] = "globalQ" /\ globalQ = Nobody
  /\ globalQ' = i
  /\ Goto(i, "insert")
  /\ UNCHANGED <<queues, lock, barriers, at, todo, inParallelMode, calls, ops>>

(* schedule() through the async_queue, which its own mutex protects; the     *)
(* flag follows.                                                             *)
AsyncInsert(i) ==
  /\ pc[i] = "insert"
  /\ LET k == Head(todo[i].queues)
     IN  asyncq' = [asyncq EXCEPT ![k] = Append(@, Entry(todo[i].event, todo[i].when))]
  /\ Goto(i, "flag")
  /\ UNCHANGED <<mainq, curTick, scheduled, lock, globalQ, barriers, at, todo,
                 inParallelMode, calls, ops>>

SetFlag(i) ==
  /\ pc[i] = "flag"
  /\ scheduled' = scheduled \cup {<<todo[i].event, Head(todo[i].queues)>>}
  /\ IF Len(todo[i].queues) > 1
       THEN /\ todo' = [todo EXCEPT ![i].queues = Tail(@)]
            /\ Goto(i, "insert")
            /\ UNCHANGED globalQ
       ELSE /\ todo' = [todo EXCEPT ![i] = NothingToDo]
            /\ Goto(i, IF at[i] \in Globals THEN "barrier2" ELSE "handler")
            /\ globalQ' = IF globalQ = i THEN Nobody ELSE globalQ
  /\ UNCHANGED <<mainq, asyncq, curTick, lock, barriers, at, inParallelMode, calls, ops>>

(* ScopedMigration: the thread gives up its own queue, takes another one,    *)
(* schedules there directly and comes back.                                  *)
Migrate(i, k) ==
  /\ Operate(i)
  /\ k # i /\ <<Io, k>> \notin scheduled
  /\ lock' = [lock EXCEPT ![i] = Nobody]
  /\ todo' = [todo EXCEPT ![i].queues = <<k>>]
  /\ Goto(i, "migrate")
  /\ UNCHANGED <<queues, globalQ, barriers, at, inParallelMode, calls>>

MigrateLock(i) ==
  LET k == Head(todo[i].queues)
  IN  /\ pc[i] = "migrate" /\ lock[k] = Nobody
      /\ lock' = [lock EXCEPT ![k] = i]
      /\ Goto(i, "migrated")
      /\ UNCHANGED <<queues, globalQ, barriers, at, todo, inParallelMode, calls, ops>>

(* The lists that are left of a list when some of its entries are lost.      *)
Remains(list) ==
  UNION {{[n \in 1 .. m |-> list[f[n]]] :
            f \in {g \in [1 .. m -> DOMAIN list] :
                     \A a, b \in 1 .. m : a < b => g[a] < g[b]}} : m \in 0 .. Len(list)}

(* Where an insertion of x writes: to the head of queue k, to the links      *)
(* behind its first bin, which an event put on top of the bin copies.        *)
WritesHead(k, x) == \A y \in Content(mainq[k]) : ~Earlier(y, x)
WritesFirstBin(k, x) ==
  \A y, z \in Content(mainq[k]) : ~(Earlier(y, z) /\ Earlier(z, x))

(* The owner of the queue may be in StartLoop, which has no lock: two        *)
(* insertions that read the list before the other one has written to it. The *)
(* later write of the head takes away the new event, or entries the owner    *)
(* has merged, which are then in the first two bins at most.                 *)
MigrateSchedule(i) ==
  LET k == Head(todo[i].queues)
      inserted == [mainq EXCEPT ![k] = Inserted(@, Entry(Io, curTick[k]))]
  IN  /\ pc[i] = "migrated"
      /\ \/ mainq' = inserted /\ UNCHANGED asyncq
         \/ /\ pc[k] = "merge" /\ \E x \in Content(asyncq[k]) : WritesHead(k, x)
            /\ UNCHANGED <<mainq, asyncq>>
         \/ /\ pc[k] = "merge" /\ mainq' = inserted
            /\ \E rest \in Remains(asyncq[k]) :
                 /\ \A x \in Content(asyncq[k]) \ Content(rest) : WritesFirstBin(k, x)
                 /\ asyncq' = [asyncq EXCEPT ![k] = rest]
      /\ scheduled' = scheduled \cup {<<Io, k>>}
      /\ lock' = [lock EXCEPT ![k] = Nobody]
      /\ todo' = [todo EXCEPT ![i] = NothingToDo]
      /\ Goto(i, "return home")
      /\ UNCHANGED <<curTick, globalQ, barriers, at, inParallelMode, calls, ops>>

MigrateBack(i) ==
  /\ pc[i] = "return home" /\ lock[i] = Nobody
  /\ lock' = [lock EXCEPT ![i] = i]
  /\ Goto(i, "handler")
  /\ UNCHANGED <<queues, globalQ, barriers, at, todo, inParallelMode, calls, ops>>

-----------------------------------------------------------------------------
(* BarrierEvent::process().                                                  *)

(* Mutant: the lock is kept in the barrier.                                  *)
Released_Not(i) == lock

(* ScopedRelease: the lock of the queue is free inside the barrier.          *)
Released(i) == [lock EXCEPT ![i] = Nobody]

(* globalBarrier() for the first time ...                                    *)
FirstBarrier(i) ==
  /\ pc[i] = "barrier1"
  /\ lock' = Released(i)
  /\ Arrive(i, at[i], "last", "wait1")
  /\ UNCHANGED <<queues, globalQ, at, todo, inParallelMode, calls, ops>>

(* Mutant: only the last thread waits for process().                         *)
AfterFirst_NoSecond(i) ==
  IF pc[i] = "last" THEN "process" ELSE IF at[i] = Quantum THEN "done" ELSE "barrier2"

(* Only the last thread to arrive executes process().                        *)
AfterFirst(i) == IF pc[i] = "last" THEN "process" ELSE "barrier2"

LeaveFirst(i) ==
  /\ pc[i] = "last" \/ (pc[i] = "wait1" /\ Notified(i, at[i]))
  /\ lock[i] \in {i, Nobody}
  /\ lock' = [lock EXCEPT ![i] = i]
  /\ Goto(i, AfterFirst(i))
  /\ UNCHANGED <<queues, globalQ, barriers, at, todo, inParallelMode, calls, ops>>

(* GlobalSyncEvent::process() schedules itself again; exit events without a  *)
(* repeat do nothing.                                                        *)
Process(i) ==
  /\ pc[i] = "process"
  /\ IF at[i] = Quantum
       THEN GlobalSchedule(i, Quantum, curTick[i] + simQuantum)
       ELSE Goto(i, "barrier2") /\ UNCHANGED todo
  /\ UNCHANGED <<queues, lock, globalQ, barriers, at, inParallelMode, calls, ops>>

(* ... and for the second.                                                   *)
SecondBarrier(i) ==
  /\ pc[i] = "barrier2"
  /\ lock' = Released(i)
  /\ Arrive(i, at[i], "done", "wait2")
  /\ UNCHANGED <<queues, globalQ, at, todo, inParallelMode, calls, ops>>

(* Mutant: the quantum event merges nothing.                                 *)
QuantumDone_NoMerge(i) == Goto(i, "loop") /\ UNCHANGED queues

QuantumDone(i) == Goto(i, "loop") /\ HandleAsyncInsertions(i)

(* The rest of process() and of serviceOne(), which ends the loop after an   *)
(* exit event.                                                               *)
LeaveSecond(i) ==
  /\ pc[i] = "done" \/ (pc[i] = "wait2" /\ Notified(i, at[i]))
  /\ lock[i] \in {i, Nobody}
  /\ lock' = [lock EXCEPT ![i] = Nobody]
  /\ at' = [at EXCEPT ![i] = NoEvent]
  /\ IF at[i] = Quantum
       THEN QuantumDone(i)
       ELSE /\ Goto(i, IF i = 0 THEN "return" ELSE "enter")
            /\ UNCHANGED queues
  /\ UNCHANGED <<globalQ, barriers, todo, inParallelMode, calls, ops>>

Step(i) ==
  \/ EnterBarrier(i) \/ LeaveBarrier(i) \/ StartLoop(i)
  \/ ServiceOne(i) \/ HandlerReturn(i)
  \/ ScheduleWork(i) \/ ExitSimLoop(i)
  \/ \E k \in Threads : SendMessage(i, k) \/ Migrate(i, k)
  \/ LockGlobalQ(i) \/ AsyncInsert(i) \/ SetFlag(i)
  \/ MigrateLock(i) \/ MigrateSchedule(i) \/ MigrateBack(i)
  \/ FirstBarrier(i) \/ LeaveFirst(i) \/ Process(i)
  \/ SecondBarrier(i) \/ LeaveSecond(i)

Next ==
  \/ \E until \in Limits : Simulate(until)
  \/ Return
  \/ \E i \in Threads : Step(i)

Spec == Init /\ [][Next]_vars

(* Each thread keeps running. Nobody has to call simulate() again.           *)
FairSpec == Spec /\ WF_vars(Return) /\ \A i \in Threads : WF_vars(Step(i))

-----------------------------------------------------------------------------
(* Global events have a total order: what one queue has before another one,  *)
(* no queue has after it, those on their way in the async_queue included     *)
(* (global_event.cc:55-73).                                                  *)
PositionIn(list, e) == CHOOSE n \in DOMAIN list : list[n].event = e

TotalOrder ==
  \A j, k \in Threads : \A e, f \in Globals :
    LET lj == Merged(j)  lk == Merged(k)
        On(list) == {list[n].event : n \in DOMAIN list}
    IN  {e, f} \subseteq On(lj) \cap On(lk) =>
          (PositionIn(lj, e) < PositionIn(lj, f) <=> PositionIn(lk, e) < PositionIn(lk, f))

(* While one thread executes the process() of a global event, all others     *)
(* have reached the event and stay inside it (global_event.hh:171-176).      *)
Processing(i) == at[i] \in Globals /\ pc[i] \in {"process", "globalQ", "insert", "flag"}
ProcessAlone ==
  \A i, j \in Threads : Processing(i) /\ i # j =>
    /\ at[j] = at[i]
    /\ pc[j] \in {"wait1", "barrier2", "wait2"}

(* The assertions of doSimLoop() and schedule(), and what they are for: a    *)
(* thread in the loop has an event, none of its events is in the past, no    *)
(* event is sent into the past of the queue it goes to, and a global event   *)
(* is processed at the same tick on every queue.                             *)
InTime ==
  \A i \in Threads :
    /\ pc[i] = "loop" => mainq[i] # <<>> /\ Head(mainq[i]).when >= curTick[i]
    /\ pc[i] = "insert" => todo[i].when >= curTick[Head(todo[i].queues)]
    /\ Processing(i) => \A j \in Threads : curTick[j] = curTick[i]

(* When the main thread returns, it finds on every queue the quantum event   *)
(* it deletes, no other thread services events, and nothing else touches the *)
(* queues until simulate() is called again.                                  *)
QuietReturn ==
  pc[0] \in {"return", "python"} =>
    /\ \A i \in Threads \ {0} : pc[i] \in {"wait2", "done", "enter", "entering"}
    /\ pc[0] = "return" => \A k \in Threads :
         <<Quantum, k>> \in scheduled /\ \E n \in DOMAIN mainq[k] : mainq[k][n].event = Quantum

(* No exit event is scheduled for the tick of the limit.                     *)
LimitApart ==
  \A k \in Threads : \A x, y \in Content(mainq[k]) \cup Content(asyncq[k]) :
    x.event = Limit /\ y.event \in GlobalExits \ {Limit} => x.when # y.when

(* No queue has lost an exit event in MigrateSchedule: all that have the     *)
(* flag are there.                                                           *)
NothingLost ==
  \A k \in Threads : \A e \in GlobalExits : <<e, k>> \in scheduled =>
    \E x \in Content(mainq[k]) \cup Content(asyncq[k]) : x.event = e

(* simulate() returns: no thread waits for ever for a lock or in a barrier,  *)
(* whatever the handlers do, but for two reasons: an exit event at the tick  *)
(* of the limit, which the queues may order differently, and one that a      *)
(* thread migrating to a queue has made its owner lose while it merged.      *)
SimulateReturns == [](LimitApart /\ NothingLost) => (inParallelMode ~> ~inParallelMode)
=============================================================================
