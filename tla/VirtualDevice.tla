---------------------------- MODULE VirtualDevice ----------------------------
(***************************************************************************)
(* The virtual devices of gem5-NVP (src/vdev/vdev.cc) and the part of      *)
(* AtomicSimpleCPU (src/cpu/simple/atomic.cc, src/cpu/base.cc) they talk   *)
(* to.  A program on the CPU reads and writes the registers and the data   *)
(* windows of a device; an accepted request makes the device work until    *)
(* its interrupt event fires, and the interrupt pushes the CPU's next tick *)
(* back by the time the handler takes.  Both are events of one simulation  *)
(* queue ordered by tick and, within a tick, by priority.                  *)
(*                                                                         *)
(* Time is relative: an event's value is the number of ticks until it      *)
(* fires, and servicing an event takes that many ticks from all the        *)
(* others.  No bound on the simulated time is therefore needed.            *)
(*                                                                         *)
(* The program is arbitrary here (any instruction at any tick); module     *)
(* PeriDriver restricts it to the driver of the repository.  What the data *)
(* windows hold has no influence on the control modelled here and is added *)
(* there.                                                                  *)
(***************************************************************************)
EXTENDS Integers

CONSTANTS
  Dev,               (* the virtual devices registered with the CPU         *)
  ClockPeriod,       (* ticks of one clock cycle of the CPU                 *)
  TickPerCycle,      (* tickPerCycle: ticks of one cycle of a device        *)
  DelaySet,          (* delay_set: ticks to set a device up                 *)
  DelayCpuInterrupt, (* delay_cpu_interrupt: ticks of the interrupt handler *)
  DataBandwidth,     (* data_bandwidth: ticks per byte                      *)
  PacketSizes,       (* bytes a packet to a data window may carry           *)
  RunCycles,         (* cycles AIChip::run() may report                     *)
  Counters,          (* values programs write to the counter register       *)
  OutputCounter,     (* the counter value whose job produces the result     *)
  Drains             (* whether the simulation script drains the simulator  *)

ASSUME Parameters ==
  /\ ClockPeriod \in Nat \ {0}
  /\ TickPerCycle \in Nat \ {0}
  /\ DelaySet \in Nat
  /\ DelayCpuInterrupt \in Nat
  /\ DataBandwidth \in Nat
  /\ PacketSizes \subseteq Nat \ {0}
  /\ RunCycles \subseteq Nat
  /\ 0 \in Counters
  /\ Drains \in BOOLEAN

VARIABLES
  pmem,             (* flags set in each device's status register           *)
  execution_state,  (* POWEROFF until the first request, then IDLE/ACTIVE   *)
  event_interrupt,  (* ticks until each device's interrupt, or Unscheduled  *)
  status_vdev,      (* the CPU's own record of which devices are working    *)
  counter,          (* each chip's operation counter                        *)
  finished,         (* each chip's finished flag                            *)
  tickEvent,        (* ticks until the CPU's next tick, or Unscheduled      *)
  in_interrupt,     (* the next tick is the first one after an interrupt    *)
  boundary,         (* isDrained(): the CPU is between two macro-ops        *)
  drain,            (* the state of a drain request                         *)
  owed,             (* history: handler ticks the CPU has not yet spent     *)
  transferOwed      (* history: data ticks of the last instruction not yet  *)
                    (* spent                                                *)

devVars == <<pmem, execution_state, status_vdev, counter, finished>>
cpuVars == <<tickEvent, in_interrupt, boundary, drain, owed, transferOwed>>
vars == <<devVars, event_interrupt, cpuVars>>

Unscheduled == -1

TypeOK ==
  /\ pmem \in [Dev -> SUBSET {"WORK", "READY", "FINISH"}]
  /\ execution_state \in [Dev -> {"POWEROFF", "IDLE", "ACTIVE"}]
  /\ event_interrupt \in [Dev -> Nat \cup {Unscheduled}]
  /\ status_vdev \in [Dev -> BOOLEAN]
  /\ counter \in [Dev -> Counters]
  /\ finished \in [Dev -> BOOLEAN]
  /\ tickEvent \in Nat \cup {Unscheduled}
  /\ in_interrupt \in BOOLEAN
  /\ boundary \in BOOLEAN
  /\ drain \in {"none", "requested", "signalled"}
  /\ owed \in Nat
  /\ transferOwed \in Nat

(* VirtualDevice's constructor and init(), and a CPU whose first tick is due. *)
Init ==
  /\ pmem = [d \in Dev |-> {"READY", "FINISH"}]
  /\ execution_state = [d \in Dev |-> "POWEROFF"]
  /\ event_interrupt = [d \in Dev |-> Unscheduled]
  /\ status_vdev = [d \in Dev |-> FALSE]
  /\ counter = [d \in Dev |-> 0]
  /\ finished = [d \in Dev |-> FALSE]
  /\ tickEvent = 0
  /\ in_interrupt = FALSE
  /\ boundary = TRUE
  /\ drain = "none"
  /\ owed = 0
  /\ transferOwed = 0

-----------------------------------------------------------------------------
(* The event queue. *)

Elapse(event, ticks) == IF event = Unscheduled THEN Unscheduled ELSE event - ticks

InterruptsAfter(ticks) == [d \in Dev |-> Elapse(event_interrupt[d], ticks)]

Remaining(due, ticks) == IF due > ticks THEN due - ticks ELSE 0

(* Mutant: the priorities of events are compared before their ticks. *)
TickIsNext_PriorityFirst == tickEvent # Unscheduled

(* CPU_Tick_Pri = 50 comes before Virtual_Interrupt = 55 at the same tick. *)
TickIsNext ==
  /\ tickEvent # Unscheduled
  /\ \A d \in Dev : event_interrupt[d] # Unscheduled => tickEvent <= event_interrupt[d]

(* The exit event of a completed drain, due at once with Sim_Exit_Pri = 100, *)
(* lets only the interrupts of its own tick go first.                       *)
InterruptIsNext(d) ==
  /\ event_interrupt[d] # Unscheduled
  /\ drain = "signalled" => event_interrupt[d] = 0
  /\ tickEvent # Unscheduled => event_interrupt[d] < tickEvent
  /\ \A e \in Dev : event_interrupt[e] # Unscheduled =>
                       event_interrupt[d] <= event_interrupt[e]

-----------------------------------------------------------------------------
(* AtomicSimpleCPU::tick(): one instruction, then the next tick. *)

(* divCeil(stall_ticks, clockPeriod()) * clockPeriod(), at least one cycle. *)
Latency(stall) ==
  IF stall = 0 THEN ClockPeriod
  ELSE ((stall + ClockPeriod - 1) \div ClockPeriod) * ClockPeriod

(* A pending drain completes at a macro-op boundary and leaves the tick     *)
(* event out of the queue; otherwise the tick is scheduled again.  bytes is *)
(* what the instruction moved to or from a device.                          *)
Tick(stall, bytes) ==
  /\ in_interrupt' = FALSE
  /\ owed' = Remaining(owed, tickEvent)
  /\ transferOwed' = DataBandwidth * bytes
  /\ boundary' \in BOOLEAN
  /\ \/ /\ drain = "requested" /\ boundary'
        /\ tickEvent' = Unscheduled
        /\ drain' = "signalled"
     \/ /\ ~(drain = "requested" /\ boundary')
        /\ tickEvent' = Latency(stall)
        /\ UNCHANGED drain

(* An instruction that does not touch a device register. *)
ExecuteLocal ==
  /\ TickIsNext
  /\ Tick(0, 0)
  /\ event_interrupt' = InterruptsAfter(tickEvent)
  /\ UNCHANGED devVars

(* Reads of one byte at offset 0 (pmem) or 1 (counter): no effect on the    *)
(* device, but the CPU pays for the byte.                                   *)
ReadRegister(d) ==
  /\ TickIsNext
  /\ Tick(DataBandwidth, 1)
  /\ event_interrupt' = InterruptsAfter(tickEvent)
  /\ UNCHANGED devVars

(* The stall an access to a data window leaves.  An access that crosses a   *)
(* cache line goes out as two packets, and virtualDeviceSet() overwrites    *)
(* the latency of the first (first = 0 when there is only one packet).      *)
TransferStall(first, last) == DataBandwidth * last

TransferData(d, first, last) ==
  /\ TickIsNext
  /\ Tick(TransferStall(first, last), first + last)
  /\ event_interrupt' = InterruptsAfter(tickEvent)
  /\ UNCHANGED devVars

(* A write at offset 1.  It is free, and allowed while the device works. *)
WriteCounter(d, c) ==
  /\ TickIsNext
  /\ Tick(0, 0)
  /\ counter' = [counter EXCEPT ![d] = c]
  /\ event_interrupt' = InterruptsAfter(tickEvent)
  /\ UNCHANGED <<pmem, execution_state, status_vdev, finished>>

(* Mutant: a working device takes the next request, too. *)
CanAccept_Always(d) == TRUE

CanAccept(d) == "WORK" \notin pmem[d]

(* Mutants: the FINISH flag of the last job survives; WORK is not set. *)
StartFlags_KeepFinish(flags) == (flags \cup {"WORK"}) \ {"READY"}
StartFlags_NoWork(flags) == flags \ {"READY", "FINISH"}

StartFlags(flags) == (flags \cup {"WORK"}) \ {"READY", "FINISH"}

(* A write of VDEV_SET at offset 0 while the device works is discarded. *)
DiscardRequest(d) ==
  /\ TickIsNext
  /\ ~CanAccept(d)
  /\ Tick(0, 0)
  /\ event_interrupt' = InterruptsAfter(tickEvent)
  /\ UNCHANGED devVars

(* A write of VDEV_SET at offset 0 is accepted.  AIChip::run() does all its *)
(* work now and reports the cycles it takes; the interrupt is scheduled     *)
(* that much later.                                                         *)
AcceptRequest(d, cycles) ==
  /\ TickIsNext
  /\ CanAccept(d)
  /\ Tick(DelaySet, 0)
  /\ execution_state' = [execution_state EXCEPT ![d] = "ACTIVE"]
  /\ pmem' = [pmem EXCEPT ![d] = StartFlags(@)]
  /\ finished' = [finished EXCEPT ![d] = (counter[d] = OutputCounter)]
  /\ event_interrupt' = [InterruptsAfter(tickEvent) EXCEPT
                            ![d] = DelaySet + cycles * TickPerCycle]
  /\ status_vdev' = [status_vdev EXCEPT ![d] = TRUE]
  /\ UNCHANGED counter

-----------------------------------------------------------------------------
(* VirtualDevice::triggerInterrupt() *)

(* Mutant: it rounds down. *)
RoundUp_Down(ticks) == ticks - (ticks % ClockPeriod)

(* virtualDeviceDelay() rounds the delay up to whole clock cycles. *)
RoundUp(ticks) ==
  IF ticks % ClockPeriod = 0 THEN ticks
  ELSE ticks + (ClockPeriod - (ticks % ClockPeriod))

(* Mutants: the counter register decides, not the job that has ended; the   *)
(* result is never final; the device does not become ready; the device     *)
(* still counts as working.                                                *)
EndFlags_CounterNow(d) ==
  ((pmem[d] \cup {"READY"}) \ {"WORK"}) \cup
    (IF counter[d] = OutputCounter THEN {"FINISH"} ELSE {})
EndFlags_NoFinish(d) == (pmem[d] \cup {"READY"}) \ {"WORK"}
EndFlags_NotReady(d) ==
  (pmem[d] \ {"WORK"}) \cup (IF finished[d] THEN {"FINISH"} ELSE {})
EndFlags_StillWorking(d) ==
  (pmem[d] \cup {"READY"}) \cup (IF finished[d] THEN {"FINISH"} ELSE {})

EndFlags(d) ==
  ((pmem[d] \cup {"READY"}) \ {"WORK"}) \cup
    (IF finished[d] THEN {"FINISH"} ELSE {})

(* The two assertions on the way (the device works; the tick event is in    *)
(* the queue when it is rescheduled) are guards: the simulator aborts when  *)
(* one fails, and InterruptSafe says that none does.                        *)
TriggerInterrupt(d) ==
  /\ InterruptIsNext(d)
  /\ "WORK" \in pmem[d]
  /\ tickEvent # Unscheduled
  /\ execution_state' = [execution_state EXCEPT ![d] = "IDLE"]
  /\ pmem' = [pmem EXCEPT ![d] = EndFlags(d)]
  /\ in_interrupt' = TRUE
  /\ tickEvent' = (tickEvent - event_interrupt[d]) + RoundUp(DelayCpuInterrupt)
  /\ owed' = Remaining(owed, event_interrupt[d]) + DelayCpuInterrupt
  /\ transferOwed' = Remaining(transferOwed, event_interrupt[d])
  /\ status_vdev' = [status_vdev EXCEPT ![d] = FALSE]
  /\ event_interrupt' = [InterruptsAfter(event_interrupt[d]) EXCEPT ![d] = Unscheduled]
  /\ UNCHANGED <<counter, finished, boundary, drain>>

-----------------------------------------------------------------------------
(* Draining (AtomicSimpleCPU::drain, m5.drain in simulate.py).  The script  *)
(* has control only when every event of the current tick has been serviced. *)

PausedAfter(ticks) ==
  /\ tickEvent # Unscheduled /\ ticks < tickEvent
  /\ \A d \in Dev : event_interrupt[d] # Unscheduled => ticks < event_interrupt[d]

(* Mutant: the CPU resumes a period from now, between two clock edges. *)
ResumeAt_OffEdge(ticks) == ClockPeriod

(* nextCycle() after a pause ticks from now: one cycle after the next edge. *)
ResumeAt(ticks) == ((tickEvent - ticks) % ClockPeriod) + ClockPeriod

(* Between macro-ops the CPU drains at once and, after the checkpoint,      *)
(* resumes at the cycle after the next edge: the rest of the pending tick's *)
(* delay is gone.                                                           *)
DrainAtOnce(ticks) ==
  /\ Drains /\ drain = "none" /\ boundary
  /\ PausedAfter(ticks)
  /\ tickEvent' = ResumeAt(ticks)
  /\ event_interrupt' = InterruptsAfter(ticks)
  /\ owed' = Remaining(owed, ticks)
  /\ transferOwed' = Remaining(transferOwed, ticks)
  /\ UNCHANGED <<devVars, in_interrupt, boundary, drain>>

(* Inside a macro-op the CPU asks for more simulation. *)
RequestDrain(ticks) ==
  /\ Drains /\ drain = "none" /\ ~boundary
  /\ PausedAfter(ticks)
  /\ tickEvent' = tickEvent - ticks
  /\ event_interrupt' = InterruptsAfter(ticks)
  /\ owed' = Remaining(owed, ticks)
  /\ transferOwed' = Remaining(transferOwed, ticks)
  /\ drain' = "requested"
  /\ UNCHANGED <<devVars, in_interrupt, boundary>>

(* Mutant: the CPU is not scheduled again after the drain. *)
DrainResume_Asleep ==
  /\ drain = "signalled"
  /\ \A d \in Dev : event_interrupt[d] # 0
  /\ drain' = "none"
  /\ UNCHANGED <<devVars, event_interrupt, tickEvent, in_interrupt, boundary, owed, transferOwed>>

(* The exit event ends the simulation loop, the script finds everything     *)
(* drained, and drainResume() schedules the next cycle.                     *)
DrainResume ==
  /\ drain = "signalled"
  /\ \A d \in Dev : event_interrupt[d] # 0
  /\ tickEvent' = ClockPeriod
  /\ drain' = "none"
  /\ UNCHANGED <<devVars, event_interrupt, in_interrupt, boundary, owed, transferOwed>>

-----------------------------------------------------------------------------
CpuStep ==
  \/ ExecuteLocal
  \/ \E d \in Dev :
       \/ ReadRegister(d)
       \/ \E first \in PacketSizes \cup {0}, last \in PacketSizes :
             TransferData(d, first, last)
       \/ \E c \in Counters : WriteCounter(d, c)
       \/ DiscardRequest(d)
       \/ \E cycles \in RunCycles : AcceptRequest(d, cycles)

EventStep == CpuStep \/ \E d \in Dev : TriggerInterrupt(d)

(* How far ahead of the next event a script may stop: the events' own times *)
(* bound it.                                                                *)
DrainStep ==
  \/ \E ticks \in 0 .. tickEvent - 1 : DrainAtOnce(ticks) \/ RequestDrain(ticks)
  \/ DrainResume

Next == EventStep \/ DrainStep

Spec == Init /\ [][Next]_vars

(* simulate() services events as long as there are any, and the script      *)
(* resumes what it has drained.                                             *)
FairSpec == Spec /\ WF_vars(EventStep) /\ WF_vars(DrainResume)

-----------------------------------------------------------------------------
(* Safety *)

Working(d) == "WORK" \in pmem[d]

(* A device is ready exactly when it does not work, and works exactly as    *)
(* long as its interrupt is in the event queue, its execution state is      *)
(* ACTIVE and the CPU counts it among the active devices.  schedule() would *)
(* abort on an event already in the queue, a missing event would leave the  *)
(* program spinning for ever, and a stale status_vdev would charge          *)
(* getTotalLat() for an idle device.                                        *)
WorkingConsistent ==
  \A d \in Dev :
    /\ Working(d) <=> "READY" \notin pmem[d]
    /\ Working(d) <=> event_interrupt[d] # Unscheduled
    /\ Working(d) <=> execution_state[d] = "ACTIVE"
    /\ Working(d) <=> status_vdev[d]

(* The FINISH flag is never left over from an earlier job: it is clear      *)
(* while a device works, and afterwards it says whether the job that has    *)
(* just ended was the output job, whatever was written to the counter       *)
(* register meanwhile.                                                      *)
FinishTruthful ==
  \A d \in Dev :
    /\ Working(d) => "FINISH" \notin pmem[d]
    /\ execution_state[d] = "IDLE" => ("FINISH" \in pmem[d] <=> finished[d])

(* When an interrupt is the next event its assertions hold: the device is   *)
(* working, and the CPU's tick event is in the queue to be rescheduled.     *)
InterruptSafe ==
  \A d \in Dev : InterruptIsNext(d) => Working(d) /\ tickEvent # Unscheduled

(* The CPU executes nothing until the handler time of every interrupt taken *)
(* so far has passed, also when a second device interrupts while the CPU is *)
(* still paying for the first.                                              *)
HandlerTimePaid == tickEvent # Unscheduled => owed <= tickEvent

(* data_bandwidth is in ticks per byte (VirtualDevice.py): the CPU executes *)
(* nothing until the time of all the bytes its last instruction moved has   *)
(* passed.                                                                  *)
BandwidthPaid == tickEvent # Unscheduled => transferOwed <= tickEvent

-----------------------------------------------------------------------------
(* Liveness *)

(* Every accepted request completes: a program that spins on READY stops. *)
JobCompletes == \A d \in Dev : Working(d) ~> ~Working(d)

(* The CPU always ticks again: interrupts, each of which pushes its tick    *)
(* event back, do not starve it, and no drain leaves it asleep.             *)
CpuTicksAgain ==
  /\ in_interrupt ~> ~in_interrupt
  /\ tickEvent = Unscheduled ~> tickEvent # Unscheduled

-----------------------------------------------------------------------------
(* What software may rely on: module JobDevice. *)
Job == INSTANCE JobDevice WITH
  busy <- {d \in Dev : "WORK" \in pmem[d]},
  final <- {d \in Dev : "FINISH" \in pmem[d]}

JobSpec == Job!Spec
JobFairSpec == Job!FairSpec
=============================================================================
