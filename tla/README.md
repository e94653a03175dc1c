# Verification of the Modern-Computer-Architecture programs

The repository holds the programs of a computer architecture course: a
backtracking benchmark (hw1), configurations of a simulator (hw2), and a copy
of gem5 extended with *virtual devices*, an accelerator for neural networks
behind such a device, the program that drives it, and an energy subsystem
(hw3). This directory models the parts with logic of their own in TLA+, checks
them with TLC and proves the central properties with TLAPS.

`G` below stands for `src/hw3/Gem5_Homework/gem5`.

## 1. Inventory

| Part | State | Operations | What is hard, and what makes it correct |
|---|---|---|---|
| Virtual device, `G/src/vdev/vdev.cc` | status register `pmem` (WORK, READY, FINISH), `execution_state`, interrupt event, data windows | reads and writes of registers and windows by the CPU, interrupt | accesses and interrupts interleave; four records of "working" must agree; FINISH must belong to the last job; a request to a working device is dropped |
| Atomic CPU, `G/src/cpu/simple/atomic.cc`, `base.cc` | tick event, `vdev_set_latency`, `status_vdev`, drain manager | `tick`, `virtualDeviceSet/Interrupt/Delay/Start/End`, `drain`, `drainResume` | interrupts reschedule the tick event that ticks and drains remove and add; delays of several devices add up and are rounded to cycles |
| Event queue, `G/src/sim/eventq*.{hh,cc}` | events in bins of equal tick and priority, linked lists with stale links, flags, clock | schedule, deschedule, reschedule, squash, service | its assertions and panics abort the simulation; the links must implement a sorted list |
| Simulation loop, `simulate.cc`, `global_event.{hh,cc}`, `base/barrier.hh`, `python/m5/simulate.py` | one queue, lock and thread per main event queue, asynchronous queues, barriers, the limit and the quantum event | `simulate()`, `serviceOne`, asynchronous insertion, global events, migration, exit; drain and resume | threads insert into each other's queues; global events must come in one order on all queues or the threads wait for each other for ever |
| Accelerator, `G/src/vdev/SimpleCNN` | three memories, named views of them, counter, finished | ten operations and `op_init`, one per request | two activation memories in turn hold every intermediate result; an operation before `op_init` throws |
| CNN program, `G/tests/test-progs/simplecnn` | the call in progress | `periInit`, `periWrite`, `periRead`, `periIsFinished` | spin loops without a timeout; copies of many accesses; the result must be that of this image |
| Queens, `src/hw1/queens.c` | owner arrays, recursion stack, counter | `find`, `main` | the pruning test `>= level` relies on owners removed in every retreat |
| Energy management, `G/src/engy` | energy, message queue, state machines with thresholds or frequencies | `consumeEnergy`, `broadcastMsgAsEvent`, `update`, `handleMsg` | changes in one tick are queued and sent one event at a time, and relative messages must not get lost; chains of thresholds that must not oscillate; levels nobody reports |
| CPU variants, `atomic_2_thres.cc`, `atomic_DVFS.cc`, `atomic_modecvrt.cc` | tick event under power messages | `handleMsg` | not built in this commit, not modelled |
| Binary network, `src/hw3/binnet_modified` | one RRAM array, two activation memories, weights | seven operations, the program's loop | three layers share the array at places of their own; what one layer leaves must not reach another; weights loaded once or each time |
| Zero skipping, `src/hw3/simplecnn_modified` | as the accelerator | as the accelerator | not modelled |
| Address translation of devices, `system.cc`, `process.cc`; stock gem5; hw2 and configuration scripts | | | not modelled, see section 7 |

Interaction: the program's loads and stores become packets; `readMem` and
`writeMem` send one packet, or two when the access crosses a cache line, to
`VirtualDevice::access()`, which calls back into the CPU in the same
instruction (`virtualDeviceSet`, `virtualDeviceStart`) and schedules the
interrupt event. When it fires, `triggerInterrupt()` calls
`virtualDeviceInterrupt` and `virtualDeviceEnd`. With one event queue, which is
how the repository's configurations run, everything is in one thread: the
concurrency is that of events, which are atomic and ordered by tick and
priority, and of the script that may stop the loop between two events to drain
the system. With several main event queues there is a thread for each; they
share the queues, the locks and the global events. The energy state machine
sends its messages through an event as well.

Every hazard we know of, with its line and the properties that cover it, is
listed in `PROJECT.json`.

## 2. Modules

| Module | Models | Composes |
|---|---|---|
| `JobDevice` | abstract: what software may rely on (jobs and final results) | |
| `VirtualDevice` | device + CPU + event queue + draining, any program, any number of devices | implements `JobDevice` |
| `AIChip` | the accelerator's memories as a function of the operation | |
| `PeriDriver` | main.c and peripheral.c on top of the two | `VirtualDevice`, `AIChip` |
| `Queens` | queens.c | |
| `EventOrder` | the order of service of a queue, insertion and removal | |
| `EventList` | abstract: a queue as a sorted sequence | `EventOrder` |
| `EventQueue` | one queue with its pointers and flags, and `serviceOne()` | implements `EventList` |
| `ParallelSim` | several queues with a thread each: `simulate()`, global events, barriers, migration | `EventOrder` |
| `EnergyMgmt` | the energy subsystem | |
| `BinaryNet` | the binary network, its program and its array | |
| `MC*` | the constants of a run that need definitions | the module of that name |
| `*_proofs` | the theorems about the module of that name | |
| `SetInduction` | induction along an interval, as facts about sets, for the proofs | |

### VirtualDevice

*Time.* The value of an event variable is the number of ticks until it fires,
`Unscheduled` (-1) when it is not in the queue. Servicing an event subtracts
its value from all others (`InterruptsAfter`). So time needs no bound and the
state space is finite. `TickIsNext` and `InterruptIsNext` are the queue's
order: CPU ticks (priority 50) before interrupts (55) before the exit event of
a drain (100) within a tick.

*Actions.* Each instruction is one `tick()`: it clears `in_interrupt`, performs
at most one access (`ReadRegister`, `TransferData`, `WriteCounter`,
`DiscardRequest`, `AcceptRequest`, or `ExecuteLocal`) and schedules the next
tick by the stall the access left, rounded up to cycles, or completes a
pending drain (`Tick`). `TriggerInterrupt` is the interrupt event with all its
calls; the two assertions on its way are guards, and `InterruptSafe` says that
they hold whenever an interrupt is next. `DrainAtOnce`, `RequestDrain` and
`DrainResume` are a script that checkpoints the system at any tick:
`RequestDrain` when the CPU is inside a macro-op (`boundary` is `isDrained()`),
in which case some later tick completes the drain.

*Abstractions.* Which instruction the program executes and whether it ends a
macro-op are arbitrary. The cycles a job takes come from `RunCycles`, not from
its arithmetic, and are never negative: the overflow of `AIChip::run()`'s
`int` is left out and listed as a hazard. `owed` and `transferOwed` are history
variables for two properties. An idle CPU (after the program has exited), CPU
switching and more than one instruction per tick (`width` > 1) are left out.

### AIChip and PeriDriver

A memory holds `<<i, c>>`, the output of operation `c` on image `i`, or
`Garbage`. An operation on anything but the output of the one before it, or
without its parameters, yields `Garbage`. `PeriDriver` restricts the program:
`call` is the library call `main()` is in and `pc` the place in it; each step
conjoins an instruction of `VirtualDevice` with its effect on the program and
the chip. Local instructions may come in between at any time. The memories
change while the store that requests the job executes, as in the code, where
`run()` computes before the interrupt is scheduled. The cost is that only
`QuietDevice` shows that the program does not look at them early. `Command`
keeps the branch for a discarded request although `QuietDevice` says it is
never taken.

### Queens

A frame of `find()` is its level and its loop variable `f[level]`. One step is
one loop iteration, the call that follows a successful test, or a return with
the statements after the call. `reported` records the boards passed to
`++solutions`.

### EventQueue and EventList

`q` holds the pointers as they are in memory: `head`, and `nextBin` and
`nextInBin` of every event, which keep their stale values. `insert()` and
`remove()` are functions on `q` with the code's special cases for the head's
bin; loops over links are recursive functions. `Found` says where `remove()`
looks, so that `NeverPanics` is about the two panics. Any simulation object may
call any operation in a handler (`current`) or between events; the assertions
of the operations are guards, because they are the caller's duty, but what the
*queue* asserts or panics on is an invariant. `AutoDelete` events disappear and
come back as new ones (`New`). `EventList` is what users rely on: a sorted list
in which the last event scheduled comes first among equals (`Inserted`).

### ParallelSim

A queue is here the sequence of `EventList`, and the threads are interleaved
between the accesses they share: taking a lock, the two halves of
`Barrier::wait()`, the insertion into an `async_queue` and the flag that
follows, each queue of a global event. A handler does at most `MaxOps` of:
sending a message to another queue a quantum ahead, an exit event, migrating to
another queue to schedule there; and it may schedule its own next event. The
main thread is in Python between two calls of `simulate()`, and inside runs
queue 0. `StartLoop` merges without the lock of the queue, which races with a
thread that migrates: a data race on the list. `MigrateSchedule` has its
outcomes: both insertions take effect, the one of the migrated thread is lost
under a later write of the head (`WritesHead`), or it takes away merged entries
of the first two bins, any of them (`WritesFirstBin`, `Remains`). Left out: signals that arrive asynchronously,
statistics events, repeating exit events, serialization.

Reading `schedule()` this way also shows that `flags.set(Scheduled)` may come
after the event has been serviced: a message sent in the first tick of a
quantum to a thread that has not merged its queue yet. The flag is then stale
and the next `schedule()` of that event fails its assertion. The model reaches
this; it is listed as a hazard without a property. The race on the list is one
as well: if a merged exit event is lost, its barrier never fills and
`simulate()` does not return. `SimulateReturns` therefore has two conditions:
`LimitApart`, no exit event for the tick of the limit (finding 4), and
`NothingLost`, no exit event lost on any queue.

### EnergyMgmt

`machine` is one of the four classes that are built; `update()` of each is its
else-if chain as a sequence of transitions, of which the first that applies is
taken (`After`). `update()` gets any level at any time, several times in a
tick: in this commit its only caller is `init()`, so the run shows what would
hold if it were called as documented. `consumeEnergy()` of a connected object
takes what it consumes from `remained`, which starts from the level of the last
update (`energy`), and does nothing else. `told` is a history variable: the last
state each object was told. `bound` is any set of connected objects. Handlers
of messages do not change the energy within the same event. The order of
`init()` is that of the configurations, where the machine is a child of
`EnergyMgmt`; elsewhere its `mgmt` pointer is not set when it broadcasts. The
`POWEROFF` sent at init is ignored by the CPU and the devices that are built.

### BinaryNet

The array is what was loaded last: the matrix of one layer or `Packed`, all of
them one after the other at `RowBias` and `ColBias`. A matrix has zeros where a
layer has no weights, so every operation works on all rows and columns and
leaves values of no meaning where other layers will read: which ones they read
is the question. `Output` is any function of the products of a row's nonzero
weights that does not depend on the columns (`OutputAssumption`); in the run it
is the dot product and a normalisation. The array is without noise.
Writes and commands are atomic, as `PeriDriver` justifies for the same
protocol.

## 3. Runs

| Run | Question | Result |
|---|---|---|
| `vdev_pair` | two devices, any program, no drain | `TypeOK`, `WorkingConsistent`, `FinishTruthful`, `InterruptSafe`, `HandlerTimePaid`; `JobCompletes`; implements `JobDevice` with fairness (`JobFairSpec`) |
| `vdev_drain` | the same with a script that drains at any tick | `InterruptSafe`, `JobCompletes`, `CpuTicksAgain` |
| `vdev_drain_default` | drains with `delay_set` at its default 0 | `InterruptSafe` is **violated** (finding 1) |
| `vdev_split` | accesses that cross a cache line | `BandwidthPaid` is **violated** (finding 2) |
| `driver` | the CNN program, with drains | `DriverTypeOK`, `QuietDevice`, `ResultsCorrect`, `ProgramSafe`, `Terminates` |
| `queens` | boards of 1 to 6 ranks, with and without `-a` | `TypeOK`, `OwnersExact`, `SearchExact`, `CountExact`, `Answer`, `Terminates` |
| `energy` | four machines, any levels and connections | `ChainIntact`, `EventIffPending`, `Settles`, `ToldInTick` |
| `energy_consume` | objects consume energy until the level is below zero | `Informed` is **violated** (finding 3) |
| `eventqueue` | any operations on one queue, events of equal and different priority | `ScheduledOnce`, `NeverPanics`, `NothingLate`; implements `EventList` (`ListSpec`) |
| `parallel` | two threads, two calls of `simulate()` | `TotalOrder`, `ProcessAlone`, `InTime`, `QuietReturn`; `SimulateReturns`, if no exit event is lost or due with the limit |
| `parallel_limit` | an exit event pending at the tick of the next limit | `TotalOrder` is **violated** (finding 4) |
| `binary_net` | the network on one array, images in any order, both options | `ActivationsRight`, `LabelRight` |

Each property of a passing run has a mutant of the code in `PROJECT.json`
under which TLC finds it violated. The mutated forms stand in the modules just
before the definition they replace, marked "Mutant".

### Bounds

* Two devices give every overlap of jobs and handlers. A third adds no new pair.
* The delays are a few ticks, chosen relative to the periods: handler and
  set-up times that are not whole cycles make the rounding matter; job times
  shorter, equal to and longer than handler time make interrupts come before,
  at and after a tick. In `vdev_pair` the device's cycle (3) is no multiple of
  the CPU's (2), so that interrupts fall on every phase of the CPU's clock.
* In `vdev_drain` and `driver` the devices share the CPU's clock and
  `DelaySet` is **not** a multiple of its period, so that no interrupt falls on
  an edge of the CPU's clock. This is needed, as finding 1 shows, and enough
  (`InterruptsAreSafeOffTheEdges`).
  `vdev_drain_default` covers the other case, which a device clock
  other than the CPU's reaches as well.
* `Counters = {0, 10}` in the device runs: the output job and another one.
  `driver` has all eleven values.
* Two images are enough for leftovers of one to meet the next; a copy of two
  accesses has a middle, in which an image is incomplete.
* `eventqueue`: few events suffice, because every list operation looks at
  a bin, its predecessor and one element; equal priorities give bins of several
  events, and different ones several bins in a tick. The clock ends at
  `MaxTick`.
* `vdev_split`: packets of 4 bytes, as when an access of 8 crosses a line in
  its middle.
* `parallel`: two threads; one operation per thread's handlers (`MaxOps`) in
  two calls of `simulate()`, with limits before and after the quantum's end.
  With a first limit of 1 the second call starts with an exit event that is not
  merged yet, which a thread that migrates then can make its owner lose: there
  are behaviours without `NothingLost` in the run, and in them `simulate()` does
  wait for ever. The objects' period is such that no exit event is pending at
  the tick of a later limit: that is finding 4 and the subject of
  `parallel_limit`, whose limits and `WorkDelay` differ.
* `energy`: `MaxPending` changes may wait at once, and objects may consume
  `MaxConsumed` between two updates; the levels lie below, on,
  between and above the thresholds. `Settles` looks 7 updates ahead, one more
  than the longest path of a machine.
* `binary_net`: an array of 5 x 5 in which, as in the program, the pixels
  occupy columns that the third layer uses too. The proofs cover every size.
* Boards up to 6 x 6 include those without a solution (2, 3) and with several.
  The proofs cover all sizes.

### Deadlock

`driver` and `queens` stop when their program ends, so deadlock is not checked
there; `Terminates` takes its place. In `parallel` the script may stop calling
`simulate()`; `SimulateReturns` says that the threads do not wait for each other
for ever, but for an exit event that is due with the limit (finding 4) or that
was lost in a merge without the lock. In the device runs deadlock is checked: a
failed assertion in an interrupt is one.

### Fairness

* `EventStep` weakly fair: `simulate()` services the next event as long as
  there is one, and a script that drains for ever without running the
  simulation is not a simulation.
* `DrainResume` weakly fair: `m5.drain` runs until the CPU is drained, and
  `checkpoint()` resumes it.
* In `PeriDriver`, the program's own accesses strongly fair: between two device
  accesses `main()` executes finitely many local instructions, but interrupts
  and drains disable them again and again.
* `Next` weakly fair in `Queens`: a sequential program runs on.
* `Step(i)` weakly fair for each thread in `ParallelSim`: the operating system
  runs every thread that can run. Nobody has to call `simulate()` again, and no
  lock is assumed to be fair.

## 4. Findings

1. **A drain that completes in the tick of an interrupt aborts the simulator.**
   `tick()` returns without scheduling `tickEvent` once `tryCompleteDrain()`
   succeeds (`atomic.cc:626`). An interrupt due in the same tick is serviced
   before the exit event that lets the script resume the CPU, and
   `virtualDeviceDelay()` reschedules `tickEvent` unconditionally
   (`atomic.cc:666`), against the assertion in `eventq_impl.hh:90`. It takes an
   interrupt on an edge of the CPU's clock: the default `delay_set` of 0, and
   also the example configurations (200us at 1MHz).
2. **`data_bandwidth` is not paid for split accesses.** `virtualDeviceSet()`
   overwrites `vdev_set_latency` (`atomic.cc:681`), so the second packet of an
   access replaces the delay of the first. `VirtualDevice.py:14` promises
   "ticks per byte": in the run the CPU goes on 8 ticks after an access of
   4 + 4 bytes at 2 ticks per byte.
3. **Consumed energy is not reported.** `consumeEnergy()` has its call of
   `update()` commented out (`energy_mgmt.cc:48`), against
   `docs/Concepts-and-Structure.md:196-197`. In the run two consumptions of 60
   leave -20 of 100, at which `SimpleEnergySM::update()` powers off; the machine
   stays on.
4. **Global events without a total order.** `simulate()` reschedules the limit
   before it sets `inParallelMode` (`simulate.cc:113`), so the limit goes
   straight into the queues, against the comment in `global_event.cc:55-73`
   that every global event goes through the asynchronous queues. If an exit
   event for the same tick has been merged on one queue but not yet on the
   other, the two queues order it and the limit differently (same priority, the
   later insertion first), and each thread waits in the barrier of the event
   the other has not reached. One thread leaves the quantum late while another
   runs into the previous limit: that is all it takes.

## 5. Proofs

All theorems hold for every value of the constants that satisfies the
assumptions `Parameters`, `DriverParameters`, `MaxQueensAssumption`,
`EnergyParameters`, `Hysteresis`, `LayoutAssumption`, `ModelAssumption`,
`OutputAssumption`, `EventParameters` and `SimParameters` of the module in
question.

`VirtualDevice_proofs`
* `TypeCorrect`: the point is that no event lies in the past: `TickIsNext` and
  `InterruptIsNext` guarantee that the event serviced is the earliest, so
  `Elapse` never becomes negative (`ElapseType`).
* `Consistent`: `WorkingConsistent` is inductive together with `TypeOK`.
  Instructions either start a job or leave the devices alone
  (`InstructionCases`), drains leave them alone (`DrainCases`), and letting
  time pass adds and removes no event (`ElapseScheduled`).
* `FinishIsTruthful`, from `Consistent`: the result flag can change only with
  a new job, and a working device is not IDLE.
* `HandlersArePaid` and `InterruptsAreSafe`, assuming `~Drains`: their
  invariant `NoDrain` says that the tick event is always in the queue and not due
  before what is owed. With drains both fail in general, as finding 1 shows for
  the second, and `drain()` by dropping the rest of the delay for the first.
* `InterruptsAreSafeOffTheEdges`: with drains at any tick, `InterruptSafe` holds
  if the clock period divides the device's cycle and does not divide
  `delay_set`. The invariant `OffEdge` says that a pending interrupt is due
  `DelaySet` and a whole number of cycles after an edge of the clock, so it
  never comes at an edge. A drained CPU, the only one without a tick event, is
  at an edge, and the simulation loop ends in that very tick.
* `ImplementsJobDevice`: every step of `Spec` is a step or a stutter of
  `JobDevice!Spec` under `busy <- devices with WORK`, `final <- with FINISH`.

`PeriDriver_proofs`
* `DriverImplementsDevice`: every step of the driver is a step of
  `VirtualDevice` (`DriverStepIsStep`), so its theorems carry over. The
  driver's invariant `InCall` says which places belong to which call.
* `DeviceIsQuiet`: a device works only while the program spins. The program
  leaves its spin only on READY, the opposite of WORK by `Consistent`, and only
  a command starts a job.
* `DriverTypeCorrect`, `ResultsAreCorrect` and `ProgramIsSafe`: the invariant
  `ProgramInv` says for each call and place what the chip holds at that moment.
  `ImageInMemory`: which of the two activation memories has the output of which
  operation on the image of the call; `ParametersLoaded`: how many arrays have
  been copied; `NamedFirst` and `OperationSet`: what was registered before the
  command; `JobOfCall`: what a device that works is working on; `ResultsRead`:
  the labels so far. It is inductive only on top of `DeviceInv`, the device's
  own invariants and `QuietDevice`: a memory could otherwise change between two
  instructions of the program.

`Queens_proofs`
* `StackInvariant`: types, frames (`queen[i] = f[i]` below `level`), and owner
  arrays that mirror the queens. It is inductive as a whole: `PlaceStep` and
  `ReturnStep` are the two ways the arrays change. `TypeCorrect` and
  `OwnersAreExact` follow.
* `SearchIsExact`: what is reported equals the solutions already passed in the
  order of the search. `ConflictPrunesNothing` says that no solution continues
  a square that fails the test, `SolutionIsPeaceful` that nothing else is
  counted, `Advanced` what a loop step passes.
* `CountIsExact`, by `SolutionIsNew`: the next board has not been passed.
* `AnswerIsRight`: at exit all has been passed, or the first solution ended it.

`EnergyMgmt_proofs`
* `QueueIsAChain` and `EventWhilePending` are inductive together with the types:
  an update appends a message that starts where the last one ended (or, on an
  empty queue, from what the objects know), a broadcast takes the first one and
  the objects then know where the next one starts. `ToldWithinTheTick` follows:
  time passes only without an event, so with an empty queue. Nothing is
  assumed of the thresholds.
* `MachinesSettle`, from `Hysteresis`, which the program does not check of its
  configuration: the first transition that applies is one of the listed moves
  (`AfterMoves`); after a move of another machine than DFS none applies
  (`OthersRest`), and one of the DFS machine is followed by moves in the same
  direction only (`DFSKeepsDirection`). Seven moves in one direction need eight
  levels, and there are seven.

`BinaryNet_proofs`
* The rows of the layers are disjoint (`LayoutAssumption`), so a row of the
  packed array has the weights and the normalisation of one layer; its columns
  are the rows of the layer before, shifted, and `OutputAssumption` says that a
  shift does not matter. So each layer's part of the memories is what the
  network computes, whatever is around it: `LayersComputeTheNetwork`. The
  inductive invariant also says which matrix is in the array and, with
  `load_once`, that it is the packed one from the first layer on.
  `LabelOfTheNetwork` adds the output operation and the read.

`ParallelSim_proofs`
* `ProcessingIsAlone`: at every moment the barrier of a global event is either
  collecting its first wait (every thread is counted in it or away from the
  event, the threads still leaving the previous round included) or finishing
  (every thread is between the two waits or counted in the second, and at most
  one of them is the one that processes). `numLeft` is `N` less the threads
  counted, and a thread is counted when it waits with the generation of the
  barrier, whose flip is all that separates a late leaver from a new arrival.
  `FirstArrival` and `SecondArrival` are the steps that matter: when `numLeft`
  is one, everybody else is counted (`LastOne`, on cardinalities), so the last
  to arrive is the only one to process. Every other step keeps the roles of all
  threads (`MoveOn`). The thread barrier needs no invariant for this: no event
  is processed in it.
* `ReturnIsQuiet`: the invariant `LoopInv` has two phases. Either all threads
  are outside the loop, up to the thread barrier, which counts them
  (`Gathering`), or all are in it and nobody is counted (`Running`). The phase
  changes with the last arrival at the thread barrier and with the last arrival
  at the second wait of an exit event (`EnterPhases`, `SecondPhases`). And
  `QuantumInv` says where the quantum event of each queue is (`Expected`): on
  the queue, in the hands of its thread, put on the `async_queue` by the thread
  that processes it, or not there at all. `OtherSteps` shows that whatever
  handlers do leaves it there, `QuantumServiced` to `QuantumMerged` follow it
  once around. What a merge contains is known for a list of any length by
  induction (`MergedEvents`).
* `NothingIsLate`: `ClockInv` adds the ticks. The quantum ends at one tick `T`
  (`Window`): every entry of the quantum event is for `T`; no clock is past `T`
  or more than a quantum before it; a thread inserts into other queues only for
  `T` or later, because its clock is at most a quantum behind; and what waits in
  an `async_queue` is for `T` or later while its thread is in the loop, and not
  in the past when it merges. `WindowMoves` is the one step that moves `T`: the
  last arrival at the quantum event, when all clocks are at `T`, the event is on
  no queue and nobody inserts. Lists stay sorted (`InsertedSorted`,
  `MergedSorted`), so the quantum event stops a thread at `T`. For exit events
  and the limit, `ExitInv` says that each is on a queue once and only with its
  flag, so that a new one finds no old entry, and `SameTick` that it has one
  tick; hence the clocks agree when the threads leave the loop (`Together`),
  which is where `simulate()` takes the next `T` from.
* `OrderedWithoutLimit`: `TotalOrder` holds in every state in which no exit event
  is scheduled for the tick of the limit (`LimitApart` of `ParallelSim`), so that
  finding 4 is the only way to lose it; entries lost in a merge leave the others
  in their order (`RemainsBefore`). Tick and priority order all other pairs
  (`EarlierInOrder`) but two exit events of one tick. Whoever schedules one holds
  the mutex on all queues (`MutexInv`), so of two such events one was scheduled
  after the other, and `OrderInv` says that it comes first on every queue that
  has both, or will when it is merged (`Newer`): a merge puts a later entry of
  the `async_queue` in front of its equals (`MergedBefore`, for a list of any
  length).

`EventQueue_proofs`
* `Holds(q, when, c)` says that the pointers hold the sequence `c`: its events
  are ordered and differ, the head is the first, `nextInBin` of each is the one
  below it in its bin, and `nextBin` of the *top* of each bin is the first event
  of the next bin. Nothing is said of `nextBin` below a top, which is stale, and
  of the links of events not held, but that no walk can go round: every set of
  events has one whose link leaves it (`NoCycles`). Operations keep it because
  the links they write go forward in `c` (`ForwardLinks`).
* The walks of the code (`Stack`, `LastBefore`, `Contents`) are recursive along
  these links. `RecursionAlongLinks` shows that such a function exists whenever
  the links have no cycle, from sets alone: the least relation closed under the
  recursion is a function, or the events where it is not would have one whose
  link leaves them. Counting along a list is by `UpInduction` and
  `DownInduction` of `SetInduction`, which are about sets of numbers. `WalkStops` and
  `LastBeforeIs` say where a search ends, `ContentsAreHeld` that walking from
  the head yields `c`.
* `InsertHolds`, `RemoveHolds` and `PopHolds`: after the pointer operations of
  the code the pointers hold `c` with one event more or less, in each of the
  code's cases (head or not, own bin or not, top, middle or alone).
* `QueueInvariant` (the types, `Holds` for the contents, which are the events
  with the flag, and `NothingLate`) is inductive; `FlagsAgree`,
  `SearchSucceeds` and `ClockLeavesNothing` follow from it.
* `ImplementsList`: every step of the queue is a step or a stutter of
  `EventList`. The view of the pointers (`View`) is the contents with their
  ticks; `InsertedView` and `RemovedView` say that the search along the bins
  and the one along the list find the same place.

Only model-checked: everything under fairness (`JobCompletes`,
`CpuTicksAgain`, `SimulateReturns`, both `Terminates`, the fairness half of
`JobFairSpec`), which the prover cannot do. Two invariants are proved under the
condition they need: `TotalOrder` of `ParallelSim` without exit events at the
tick of the limit, and `InterruptSafe` without drains or with interrupts off the
clock's edges; findings 4 and 1 show that without it they fail.

## 6. What could follow

1. The arithmetic of the accelerators: SIMD remainder lanes, zero skipping
   against the plain loops, cycle counts as 32-bit `int`.
2. Serialization of event queues in checkpoints.

## 7. Not modelled

* Stock gem5 other than the event queue, the simulation loop and the atomic CPU
  (instruction sets, caches, Ruby, McPAT, devices, build and regression files):
  vendored code, which is more than 99% of the lines of the repository and the
  reason why the map covers a small share of them.
* The arithmetic of the networks and of the zero-skipping loops: what it yields
  is a question about floating-point numbers.
* The CPU variants and `ModeCvrt`: not built in this commit.
* Harvesting and the energy profile: the calls are commented out.
* The noise of the RRAM array, and the three upper bytes of each result, which
  the program leaves uninitialised.
* `System::isVAddrOfVdev` and page allocation: a range test in stock files.
  Accesses are modelled as already translated.
* hw2 and the configuration scripts: they assemble and measure systems and have
  no state of their own.
