------------------------ MODULE VirtualDevice_proofs ------------------------
(***************************************************************************)
(* Proofs about module VirtualDevice, for any set of devices and any       *)
(* delays.                                                                 *)
(***************************************************************************)
EXTENDS VirtualDevice, TLAPS

(* Rounding a delay up to whole cycles never shortens it. *)
LEMMA RoundUpFact ==
  ASSUME NEW ticks \in Nat
  PROVE  RoundUp(ticks) \in Nat /\ RoundUp(ticks) >= ticks
<1>1. ticks % ClockPeriod \in 0 .. ClockPeriod - 1
  BY Parameters
<1>2. QED
  BY <1>1, Parameters DEF RoundUp

(* The next tick is a natural number of ticks away. *)
LEMMA LatencyFact ==
  ASSUME NEW stall \in Nat
  PROVE  Latency(stall) \in Nat
<1>1. (stall + ClockPeriod - 1) \div ClockPeriod \in Nat
  BY Parameters
<1>2. QED
  BY <1>1, Parameters DEF Latency

(* Products of naturals are naturals: the delays the code computes. *)
LEMMA ProductFact ==
  ASSUME NEW m \in Nat, NEW n \in Nat
  PROVE  m * n \in Nat
OBVIOUS

(* What is still owed after some ticks is a natural number. *)
LEMMA RemainingFact ==
  ASSUME NEW due \in Nat, NEW ticks \in Nat
  PROVE  Remaining(due, ticks) \in Nat
BY DEF Remaining

-----------------------------------------------------------------------------
(* Type correctness *)

(* Taking from every event at most the time it still has keeps them all     *)
(* in the future.                                                           *)
LEMMA ElapseType ==
  ASSUME TypeOK, NEW ticks \in Nat,
         \A d \in Dev : event_interrupt[d] # Unscheduled => ticks <= event_interrupt[d]
  PROVE  InterruptsAfter(ticks) \in [Dev -> Nat \cup {Unscheduled}]
<1>1. ASSUME NEW d \in Dev
      PROVE  Elapse(event_interrupt[d], ticks) \in Nat \cup {Unscheduled}
  <2>1. event_interrupt[d] \in Nat \cup {Unscheduled}
    BY DEF TypeOK
  <2>2. CASE event_interrupt[d] = Unscheduled
    BY <2>2 DEF Elapse
  <2>3. CASE event_interrupt[d] # Unscheduled
    BY <2>1, <2>3 DEF Elapse
  <2>4. QED
    BY <2>2, <2>3
<1>2. QED
  BY <1>1 DEF InterruptsAfter

(* The common part of every instruction keeps the CPU's variables typed. *)
LEMMA TickType ==
  ASSUME TypeOK, TickIsNext,
         NEW stall \in Nat, NEW bytes \in Nat, Tick(stall, bytes)
  PROVE  /\ tickEvent \in Nat
         /\ tickEvent' \in Nat \cup {Unscheduled}
         /\ in_interrupt' \in BOOLEAN
         /\ boundary' \in BOOLEAN
         /\ drain' \in {"none", "requested", "signalled"}
         /\ owed' \in Nat
         /\ transferOwed' \in Nat
         /\ InterruptsAfter(tickEvent) \in [Dev -> Nat \cup {Unscheduled}]
<1>1. tickEvent \in Nat
  BY DEF TypeOK, TickIsNext
<1>2. tickEvent' \in Nat \cup {Unscheduled}
  BY LatencyFact DEF Tick
<1>3. owed' \in Nat
  BY <1>1, RemainingFact DEF TypeOK, Tick
<1>4. transferOwed' \in Nat
  BY ProductFact, Parameters DEF Tick
<1>5. InterruptsAfter(tickEvent) \in [Dev -> Nat \cup {Unscheduled}]
  BY <1>1, ElapseType DEF TickIsNext
<1>6. QED
  BY <1>1, <1>2, <1>3, <1>4, <1>5 DEF TypeOK, Tick

(* Every variable keeps its type: in particular no event is ever scheduled  *)
(* in the past (eventq_impl.hh asserts when >= getCurTick()), in every      *)
(* order in which ticks, interrupts and drains may come.                    *)
THEOREM TypeCorrect == Spec => []TypeOK
<1>1. Init => TypeOK
  <2> SUFFICES ASSUME Init
               PROVE  TypeOK
    OBVIOUS
  <2>1. pmem \in [Dev -> SUBSET {"WORK", "READY", "FINISH"}]
    BY DEF Init
  <2>2. event_interrupt \in [Dev -> Nat \cup {Unscheduled}]
    BY DEF Init
  <2>3. counter \in [Dev -> Counters]
    BY Parameters DEF Init
  <2>4. /\ execution_state \in [Dev -> {"POWEROFF", "IDLE", "ACTIVE"}]
        /\ status_vdev \in [Dev -> BOOLEAN]
        /\ finished \in [Dev -> BOOLEAN]
    BY DEF Init
  <2>5. QED
    BY <2>1, <2>2, <2>3, <2>4 DEF Init, TypeOK
<1>2. TypeOK /\ [Next]_vars => TypeOK'
  <2> SUFFICES ASSUME TypeOK, [Next]_vars
               PROVE  TypeOK'
    OBVIOUS
  <2>1. CASE ExecuteLocal
    <3>1. TickIsNext /\ Tick(0, 0)
      BY <2>1 DEF ExecuteLocal
    <3>2. QED
      BY <2>1, <3>1, TickType DEF ExecuteLocal, TypeOK, devVars
  <2>2. ASSUME NEW d \in Dev, ReadRegister(d)
        PROVE  TypeOK'
    <3>1. TickIsNext /\ Tick(DataBandwidth, 1)
      BY <2>2 DEF ReadRegister
    <3>2. QED
      BY <2>2, <3>1, TickType, Parameters DEF ReadRegister, TypeOK, devVars
  <2>3. ASSUME NEW d \in Dev, NEW first \in PacketSizes \cup {0}, NEW last \in PacketSizes,
               TransferData(d, first, last)
        PROVE  TypeOK'
    <3>1. first \in Nat /\ last \in Nat
      BY Parameters
    <3>2. first + last \in Nat /\ TransferStall(first, last) \in Nat
      BY <3>1, ProductFact, Parameters DEF TransferStall
    <3>3. TickIsNext /\ Tick(TransferStall(first, last), first + last)
      BY <2>3 DEF TransferData
    <3>4. QED
      BY <2>3, <3>2, <3>3, TickType DEF TransferData, TypeOK, devVars
  <2>4. ASSUME NEW d \in Dev, NEW c \in Counters, WriteCounter(d, c)
        PROVE  TypeOK'
    <3>1. TickIsNext /\ Tick(0, 0)
      BY <2>4 DEF WriteCounter
    <3>2. QED
      BY <2>4, <3>1, TickType DEF WriteCounter, TypeOK
  <2>5. ASSUME NEW d \in Dev, DiscardRequest(d)
        PROVE  TypeOK'
    <3>1. TickIsNext /\ Tick(0, 0)
      BY <2>5 DEF DiscardRequest
    <3>2. QED
      BY <2>5, <3>1, TickType DEF DiscardRequest, TypeOK, devVars
  <2>6. ASSUME NEW d \in Dev, NEW cycles \in RunCycles, AcceptRequest(d, cycles)
        PROVE  TypeOK'
    <3>1. TickIsNext /\ Tick(DelaySet, 0)
      BY <2>6 DEF AcceptRequest
    <3>2. DelaySet + cycles * TickPerCycle \in Nat
      <4>1. cycles \in Nat /\ TickPerCycle \in Nat /\ DelaySet \in Nat
        BY Parameters
      <4>2. QED
        BY <4>1, ProductFact
    <3>3. InterruptsAfter(tickEvent) \in [Dev -> Nat \cup {Unscheduled}]
      BY <3>1, TickType, Parameters
    <3>4. event_interrupt' \in [Dev -> Nat \cup {Unscheduled}]
      BY <2>6, <3>2, <3>3 DEF AcceptRequest
    <3>5. finished' \in [Dev -> BOOLEAN]
      BY <2>6 DEF AcceptRequest, TypeOK
    <3>6. pmem' \in [Dev -> SUBSET {"WORK", "READY", "FINISH"}]
      BY <2>6 DEF AcceptRequest, TypeOK, StartFlags
    <3>7. execution_state' \in [Dev -> {"POWEROFF", "IDLE", "ACTIVE"}]
          /\ status_vdev' \in [Dev -> BOOLEAN] /\ counter' \in [Dev -> Counters]
      BY <2>6 DEF AcceptRequest, TypeOK
    <3>8. QED
      BY <3>1, <3>4, <3>5, <3>6, <3>7, TickType, Parameters DEF TypeOK
  <2>7. ASSUME NEW d \in Dev, TriggerInterrupt(d)
        PROVE  TypeOK'
    <3>1. event_interrupt[d] \in Nat /\ tickEvent \in Nat /\ event_interrupt[d] < tickEvent
      BY <2>7 DEF TriggerInterrupt, InterruptIsNext, TypeOK
    <3>2. InterruptsAfter(event_interrupt[d]) \in [Dev -> Nat \cup {Unscheduled}]
      BY <2>7, <3>1, ElapseType DEF TriggerInterrupt, InterruptIsNext
    <3>3. event_interrupt' \in [Dev -> Nat \cup {Unscheduled}]
      BY <2>7, <3>2 DEF TriggerInterrupt
    <3>4. tickEvent' \in Nat
      BY <2>7, <3>1, RoundUpFact, Parameters DEF TriggerInterrupt
    <3>5. owed' \in Nat /\ transferOwed' \in Nat
      <4>1. /\ Remaining(owed, event_interrupt[d]) \in Nat
            /\ Remaining(transferOwed, event_interrupt[d]) \in Nat
        BY <3>1, RemainingFact DEF TypeOK
      <4>2. QED
        BY <2>7, <4>1, Parameters DEF TriggerInterrupt
    <3>6. pmem' \in [Dev -> SUBSET {"WORK", "READY", "FINISH"}]
      <4> DEFINE done == IF finished[d] THEN {"FINISH"} ELSE {}
                 flags == ((pmem[d] \cup {"READY"}) \ {"WORK"}) \cup done
      <4>1. done \subseteq {"FINISH"}
        OBVIOUS
      <4>2. flags \in SUBSET {"WORK", "READY", "FINISH"}
        BY <4>1 DEF TypeOK
      <4>3. pmem' = [pmem EXCEPT ![d] = flags]
        BY <2>7 DEF TriggerInterrupt, EndFlags
      <4> HIDE DEF flags
      <4>4. QED
        BY <4>2, <4>3 DEF TypeOK
    <3>7. execution_state' \in [Dev -> {"POWEROFF", "IDLE", "ACTIVE"}]
          /\ status_vdev' \in [Dev -> BOOLEAN]
      BY <2>7 DEF TriggerInterrupt, TypeOK
    <3>8. QED
      BY <2>7, <3>3, <3>4, <3>5, <3>6, <3>7 DEF TriggerInterrupt, TypeOK
  <2>8. ASSUME NEW ticks \in 0 .. tickEvent - 1, DrainAtOnce(ticks) \/ RequestDrain(ticks)
        PROVE  TypeOK'
    <3>1. PausedAfter(ticks)
      BY <2>8 DEF DrainAtOnce, RequestDrain
    <3>2. tickEvent \in Nat /\ ticks \in Nat /\ tickEvent - ticks \in Nat
      BY <2>8, <3>1 DEF PausedAfter, TypeOK
    <3>3. \A d \in Dev : event_interrupt[d] # Unscheduled => ticks <= event_interrupt[d]
      BY <3>1, <3>2 DEF PausedAfter, TypeOK
    <3>4. InterruptsAfter(ticks) \in [Dev -> Nat \cup {Unscheduled}]
      BY <3>2, <3>3, ElapseType
    <3>5. ((tickEvent - ticks) % ClockPeriod) + ClockPeriod \in Nat
      BY <3>2, Parameters
    <3>6. Remaining(owed, ticks) \in Nat /\ Remaining(transferOwed, ticks) \in Nat
      BY <3>2, RemainingFact DEF TypeOK
    <3>7. QED
      BY <2>8, <3>2, <3>4, <3>5, <3>6 DEF DrainAtOnce, RequestDrain, TypeOK, devVars, ResumeAt
  <2>9. CASE DrainResume
    BY <2>9, Parameters DEF DrainResume, TypeOK, devVars
  <2>10. CASE UNCHANGED vars
    BY <2>10 DEF vars, devVars, cpuVars, TypeOK
  <2>11. QED
    BY <2>1, <2>2, <2>3, <2>4, <2>5, <2>6, <2>7, <2>8, <2>9, <2>10
       DEF Next, EventStep, CpuStep, DrainStep
<1>3. QED
  BY <1>1, <1>2, PTL DEF Spec

-----------------------------------------------------------------------------
(* The status register, the event queue and the CPU agree *)

(* Letting time pass schedules nothing and drops nothing. *)
LEMMA ElapseScheduled ==
  ASSUME TypeOK, NEW ticks \in Nat,
         \A d \in Dev : event_interrupt[d] # Unscheduled => ticks <= event_interrupt[d],
         NEW e \in Dev
  PROVE  InterruptsAfter(ticks)[e] = Unscheduled <=> event_interrupt[e] = Unscheduled
<1>1. event_interrupt[e] \in Nat \cup {Unscheduled}
  BY DEF TypeOK
<1>2. InterruptsAfter(ticks)[e] = Elapse(event_interrupt[e], ticks)
  BY DEF InterruptsAfter
<1>3. CASE event_interrupt[e] = Unscheduled
  BY <1>2, <1>3 DEF Elapse
<1>4. CASE event_interrupt[e] # Unscheduled
  <2>1. event_interrupt[e] \in Nat /\ ticks <= event_interrupt[e]
    BY <1>1, <1>4
  <2>2. event_interrupt[e] - ticks >= 0
    BY <2>1
  <2>3. QED
    BY <1>2, <1>4, <2>2 DEF Elapse, Unscheduled
<1>5. QED
  BY <1>3, <1>4

(* When the CPU ticks, no interrupt is due earlier. *)
LEMMA TickFirst ==
  ASSUME TypeOK, TickIsNext
  PROVE  /\ tickEvent \in Nat
         /\ \A d \in Dev : event_interrupt[d] # Unscheduled => tickEvent <= event_interrupt[d]
BY DEF TypeOK, TickIsNext

(* A step that lets time pass and leaves the devices alone keeps them       *)
(* consistent.                                                              *)
LEMMA IdleStep ==
  ASSUME TypeOK, WorkingConsistent, NEW ticks \in Nat,
         \A d \in Dev : event_interrupt[d] # Unscheduled => ticks <= event_interrupt[d],
         event_interrupt' = InterruptsAfter(ticks),
         UNCHANGED <<pmem, execution_state, status_vdev>>
  PROVE  WorkingConsistent'
<1>1. \A d \in Dev : event_interrupt'[d] = Unscheduled <=> event_interrupt[d] = Unscheduled
  BY ElapseScheduled
<1>2. QED
  BY <1>1 DEF WorkingConsistent, Working

(* An instruction either starts a job or leaves the devices alone. *)
LEMMA InstructionCases ==
  ASSUME CpuStep
  PROVE  \/ /\ TickIsNext
            /\ event_interrupt' = InterruptsAfter(tickEvent)
            /\ UNCHANGED <<pmem, execution_state, status_vdev, finished>>
         \/ \E d \in Dev, cycles \in RunCycles : AcceptRequest(d, cycles)
<1> DEFINE Idle == /\ TickIsNext
                   /\ event_interrupt' = InterruptsAfter(tickEvent)
                   /\ UNCHANGED <<pmem, execution_state, status_vdev, finished>>
<1>1. ASSUME ExecuteLocal PROVE Idle
  BY <1>1 DEF ExecuteLocal, devVars
<1>2. ASSUME NEW d \in Dev, ReadRegister(d) PROVE Idle
  BY <1>2 DEF ReadRegister, devVars
<1>3. ASSUME NEW d \in Dev, NEW first, NEW last, TransferData(d, first, last) PROVE Idle
  BY <1>3 DEF TransferData, devVars
<1>4. ASSUME NEW d \in Dev, NEW c, WriteCounter(d, c) PROVE Idle
  BY <1>4 DEF WriteCounter
<1>5. ASSUME NEW d \in Dev, DiscardRequest(d) PROVE Idle
  BY <1>5 DEF DiscardRequest, devVars
<1> HIDE DEF Idle
<1>6. Idle \/ \E d \in Dev, cycles \in RunCycles : AcceptRequest(d, cycles)
  BY <1>1, <1>2, <1>3, <1>4, <1>5 DEF CpuStep
<1>7. QED
  BY <1>6 DEF Idle

(* Draining lets time pass, or none, and leaves the devices alone. *)
LEMMA DrainCases ==
  ASSUME TypeOK, DrainStep
  PROVE  \E ticks \in Nat :
            /\ \A d \in Dev : event_interrupt[d] # Unscheduled => ticks <= event_interrupt[d]
            /\ event_interrupt' = InterruptsAfter(ticks)
            /\ UNCHANGED <<pmem, execution_state, status_vdev, finished>>
<1>1. ASSUME NEW ticks \in 0 .. tickEvent - 1, DrainAtOnce(ticks) \/ RequestDrain(ticks)
      PROVE  /\ ticks \in Nat
             /\ \A d \in Dev : event_interrupt[d] # Unscheduled => ticks <= event_interrupt[d]
             /\ event_interrupt' = InterruptsAfter(ticks)
             /\ UNCHANGED <<pmem, execution_state, status_vdev, finished>>
  <2>1. PausedAfter(ticks)
    BY <1>1 DEF DrainAtOnce, RequestDrain
  <2>2. ticks \in Nat
    BY <2>1 DEF PausedAfter, TypeOK
  <2>3. \A d \in Dev : event_interrupt[d] # Unscheduled => ticks <= event_interrupt[d]
    BY <2>1, <2>2 DEF PausedAfter, TypeOK
  <2>4. QED
    BY <1>1, <2>2, <2>3 DEF DrainAtOnce, RequestDrain, devVars
<1>2. CASE DrainResume
  <2>1. event_interrupt' = event_interrupt
        /\ UNCHANGED <<pmem, execution_state, status_vdev, finished>>
    BY <1>2 DEF DrainResume, devVars
  <2>2. ASSUME NEW d \in Dev PROVE Elapse(event_interrupt[d], 0) = event_interrupt[d]
    BY DEF Elapse, TypeOK, Unscheduled
  <2>3. event_interrupt = InterruptsAfter(0)
    BY <2>2 DEF InterruptsAfter, TypeOK
  <2>4. \A d \in Dev : event_interrupt[d] # Unscheduled => 0 <= event_interrupt[d]
    BY DEF TypeOK
  <2>5. QED
    BY <2>1, <2>3, <2>4
<1>3. QED
  BY <1>1, <1>2 DEF DrainStep

(* A device works exactly while it is not ready, its interrupt is in the    *)
(* event queue, its state is ACTIVE and the CPU counts it: no interleaving  *)
(* of instructions, interrupts and drains makes the four records disagree.  *)
THEOREM Consistent == Spec => []WorkingConsistent
<1>1. Init => WorkingConsistent
  <2> SUFFICES ASSUME Init, NEW d \in Dev
               PROVE  /\ Working(d) <=> "READY" \notin pmem[d]
                      /\ Working(d) <=> event_interrupt[d] # Unscheduled
                      /\ Working(d) <=> execution_state[d] = "ACTIVE"
                      /\ Working(d) <=> status_vdev[d]
    BY DEF WorkingConsistent
  <2>1. pmem[d] = {"READY", "FINISH"}
    BY DEF Init
  <2>2. /\ event_interrupt[d] = Unscheduled
        /\ execution_state[d] = "POWEROFF"
        /\ ~status_vdev[d]
    BY DEF Init
  <2>3. QED
    BY <2>1, <2>2 DEF Working
<1>2. TypeOK /\ WorkingConsistent /\ [Next]_vars => WorkingConsistent'
  <2> SUFFICES ASSUME TypeOK, WorkingConsistent, [Next]_vars
               PROVE  WorkingConsistent'
    OBVIOUS
  <2>1. ASSUME TickIsNext, event_interrupt' = InterruptsAfter(tickEvent),
               UNCHANGED <<pmem, execution_state, status_vdev, finished>>
        PROVE  WorkingConsistent'
    BY <2>1, TickFirst, IdleStep
  <2>2. ASSUME NEW d \in Dev, NEW cycles \in RunCycles, AcceptRequest(d, cycles)
        PROVE  WorkingConsistent'
    <3>1. /\ tickEvent \in Nat
          /\ \A e \in Dev : InterruptsAfter(tickEvent)[e] = Unscheduled
                              <=> event_interrupt[e] = Unscheduled
      BY <2>2, TickFirst, ElapseScheduled DEF AcceptRequest
    <3>2. DelaySet + cycles * TickPerCycle # Unscheduled
      <4>1. cycles \in Nat /\ TickPerCycle \in Nat /\ DelaySet \in Nat
        BY Parameters
      <4>2. cycles * TickPerCycle \in Nat
        BY <4>1, ProductFact
      <4>3. QED
        BY <4>1, <4>2 DEF Unscheduled
    <3> SUFFICES ASSUME NEW e \in Dev
                 PROVE  /\ Working(e)' <=> "READY" \notin pmem'[e]
                        /\ Working(e)' <=> event_interrupt'[e] # Unscheduled
                        /\ Working(e)' <=> execution_state'[e] = "ACTIVE"
                        /\ Working(e)' <=> status_vdev'[e]
      BY DEF WorkingConsistent
    <3>3. CASE e = d
      <4>1. /\ "WORK" \in pmem'[e] /\ "READY" \notin pmem'[e]
            /\ execution_state'[e] = "ACTIVE"
            /\ status_vdev'[e]
        BY <2>2, <3>3 DEF AcceptRequest, TypeOK, StartFlags
      <4>2. event_interrupt'[e] = DelaySet + cycles * TickPerCycle
        BY <2>2, <3>3 DEF AcceptRequest, InterruptsAfter
      <4>3. QED
        BY <3>2, <4>1, <4>2 DEF Working
    <3>4. CASE e # d
      <4>1. /\ pmem'[e] = pmem[e] /\ execution_state'[e] = execution_state[e]
            /\ status_vdev'[e] = status_vdev[e]
            /\ event_interrupt'[e] = InterruptsAfter(tickEvent)[e]
        BY <2>2, <3>4 DEF AcceptRequest, TypeOK, InterruptsAfter
      <4>2. QED
        BY <3>1, <4>1 DEF Working, WorkingConsistent
    <3>5. QED
      BY <3>3, <3>4
  <2>3. ASSUME NEW d \in Dev, TriggerInterrupt(d)
        PROVE  WorkingConsistent'
    <3> DEFINE now == event_interrupt[d]
    <3>1. now \in Nat
      BY <2>3 DEF TriggerInterrupt, InterruptIsNext, TypeOK
    <3>2. \A e \in Dev : InterruptsAfter(now)[e] = Unscheduled
                          <=> event_interrupt[e] = Unscheduled
      BY <2>3, <3>1, ElapseScheduled DEF TriggerInterrupt, InterruptIsNext
    <3> SUFFICES ASSUME NEW e \in Dev
                 PROVE  /\ Working(e)' <=> "READY" \notin pmem'[e]
                        /\ Working(e)' <=> event_interrupt'[e] # Unscheduled
                        /\ Working(e)' <=> execution_state'[e] = "ACTIVE"
                        /\ Working(e)' <=> status_vdev'[e]
      BY DEF WorkingConsistent
    <3>3. CASE e = d
      <4>1. "WORK" \notin pmem'[e] /\ "READY" \in pmem'[e]
        BY <2>3, <3>3 DEF TriggerInterrupt, TypeOK, EndFlags
      <4>2. /\ execution_state'[e] = "IDLE"
            /\ ~status_vdev'[e]
            /\ event_interrupt'[e] = Unscheduled
        BY <2>3, <3>3 DEF TriggerInterrupt, TypeOK, InterruptsAfter
      <4>3. QED
        BY <4>1, <4>2 DEF Working
    <3>4. CASE e # d
      <4>1. /\ pmem'[e] = pmem[e] /\ execution_state'[e] = execution_state[e]
            /\ status_vdev'[e] = status_vdev[e]
            /\ event_interrupt'[e] = InterruptsAfter(now)[e]
        BY <2>3, <3>4 DEF TriggerInterrupt, TypeOK, InterruptsAfter
      <4>2. QED
        BY <3>2, <4>1 DEF Working, WorkingConsistent
    <3>5. QED
      BY <3>3, <3>4
  <2>4. CASE DrainStep
    BY <2>4, DrainCases, IdleStep
  <2>5. CASE UNCHANGED vars
    <3>1. /\ pmem' = pmem /\ event_interrupt' = event_interrupt
          /\ execution_state' = execution_state /\ status_vdev' = status_vdev
      BY <2>5 DEF vars, devVars
    <3> SUFFICES ASSUME NEW e \in Dev
                 PROVE  /\ Working(e)' <=> "READY" \notin pmem'[e]
                        /\ Working(e)' <=> event_interrupt'[e] # Unscheduled
                        /\ Working(e)' <=> execution_state'[e] = "ACTIVE"
                        /\ Working(e)' <=> status_vdev'[e]
      BY DEF WorkingConsistent
    <3>2. /\ pmem'[e] = pmem[e] /\ event_interrupt'[e] = event_interrupt[e]
          /\ execution_state'[e] = execution_state[e] /\ status_vdev'[e] = status_vdev[e]
      BY <3>1
    <3>3. QED
      BY <3>2 DEF Working, WorkingConsistent
  <2>6. QED
    BY <2>1, <2>2, <2>3, <2>4, <2>5, InstructionCases DEF Next, EventStep
<1>3. QED
  BY <1>1, <1>2, TypeCorrect, PTL DEF Spec

-----------------------------------------------------------------------------
(* The finish flag *)

(* A device's share of FinishTruthful. *)
FinishOf(d) ==
  /\ Working(d) => "FINISH" \notin pmem[d]
  /\ execution_state[d] = "IDLE" => ("FINISH" \in pmem[d] <=> finished[d])

(* The finish flag is clear while a device works and afterwards says        *)
(* whether the job that ended was the output job: no step of another device *)
(* and no write to the counter register during the job changes that.        *)
THEOREM FinishIsTruthful == Spec => []FinishTruthful
<1>1. Init => FinishTruthful
  <2> SUFFICES ASSUME Init, NEW d \in Dev
               PROVE  FinishOf(d)
    BY DEF FinishTruthful, FinishOf
  <2>1. pmem[d] = {"READY", "FINISH"} /\ execution_state[d] = "POWEROFF"
    BY DEF Init
  <2>2. QED
    BY <2>1 DEF FinishOf, Working
<1>2. TypeOK /\ WorkingConsistent /\ FinishTruthful /\ [Next]_vars => FinishTruthful'
  <2> SUFFICES ASSUME TypeOK, WorkingConsistent, FinishTruthful, [Next]_vars, NEW e \in Dev
               PROVE  FinishOf(e)'
    BY DEF FinishTruthful, FinishOf
  <2>1. FinishOf(e)
    BY DEF FinishTruthful, FinishOf
  <2>2. ASSUME pmem'[e] = pmem[e], execution_state'[e] = execution_state[e],
               finished'[e] = finished[e]
        PROVE  FinishOf(e)'
    BY <2>1, <2>2 DEF FinishOf, Working
  <2>3. ASSUME UNCHANGED <<pmem, execution_state, status_vdev, finished>>
        PROVE  FinishOf(e)'
    BY <2>2, <2>3
  <2>4. ASSUME NEW d \in Dev, NEW cycles \in RunCycles, AcceptRequest(d, cycles)
        PROVE  FinishOf(e)'
    <3>1. CASE e = d
      <4>1. "FINISH" \notin pmem'[e] /\ execution_state'[e] = "ACTIVE"
        BY <2>4, <3>1 DEF AcceptRequest, TypeOK, StartFlags
      <4>2. QED
        BY <4>1 DEF FinishOf
    <3>2. CASE e # d
      BY <2>2, <2>4, <3>2 DEF AcceptRequest, TypeOK
    <3>3. QED
      BY <3>1, <3>2
  <2>5. ASSUME NEW d \in Dev, TriggerInterrupt(d)
        PROVE  FinishOf(e)'
    <3>1. CASE e = d
      <4> DEFINE done == IF finished[d] THEN {"FINISH"} ELSE {}
                 flags == ((pmem[d] \cup {"READY"}) \ {"WORK"}) \cup done
      <4>1. "FINISH" \notin pmem[d]
        BY <2>1, <2>5, <3>1 DEF FinishOf, Working, TriggerInterrupt, EndFlags
      <4>2. "WORK" \notin done /\ ("FINISH" \in done <=> finished[d])
        OBVIOUS
      <4> HIDE DEF done
      <4>3. "WORK" \notin flags /\ ("FINISH" \in flags <=> finished[d])
        BY <4>1, <4>2
      <4>4. pmem'[e] = flags /\ finished'[e] = finished[d]
        BY <2>5, <3>1 DEF TriggerInterrupt, TypeOK, done, EndFlags
      <4>5. QED
        BY <4>3, <4>4 DEF FinishOf, Working
    <3>2. CASE e # d
      BY <2>2, <2>5, <3>2 DEF TriggerInterrupt, TypeOK
    <3>3. QED
      BY <3>1, <3>2
  <2>6. CASE DrainStep
    BY <2>3, <2>6, DrainCases
  <2>7. CASE UNCHANGED vars
    BY <2>3, <2>7 DEF vars, devVars
  <2>8. QED
    BY <2>3, <2>4, <2>5, <2>6, <2>7, InstructionCases DEF Next, EventStep
<1>3. QED
  BY <1>1, <1>2, TypeCorrect, Consistent, PTL DEF Spec

-----------------------------------------------------------------------------
(* Without drains the tick event never leaves the queue *)

NoDrain ==
  /\ drain = "none"
  /\ tickEvent \in Nat
  /\ owed <= tickEvent

(* Every instruction ends in a tick. *)
LEMMA InstructionTicks ==
  ASSUME CpuStep
  PROVE  TickIsNext /\ \E stall \in Nat, bytes \in Nat : Tick(stall, bytes)
<1> DEFINE Ticks == TickIsNext /\ \E stall \in Nat, bytes \in Nat : Tick(stall, bytes)
<1>1. ASSUME ExecuteLocal PROVE Ticks
  BY <1>1 DEF ExecuteLocal
<1>2. ASSUME NEW d \in Dev, ReadRegister(d) PROVE Ticks
  BY <1>2, Parameters DEF ReadRegister
<1>3. ASSUME NEW d \in Dev, NEW first \in PacketSizes \cup {0}, NEW last \in PacketSizes,
             TransferData(d, first, last)
      PROVE  Ticks
  <2>1. first \in Nat /\ last \in Nat
    BY Parameters
  <2>2. first + last \in Nat /\ TransferStall(first, last) \in Nat
    BY <2>1, ProductFact, Parameters DEF TransferStall
  <2>3. QED
    BY <1>3, <2>2 DEF TransferData
<1>4. ASSUME NEW d \in Dev, NEW c, WriteCounter(d, c) PROVE Ticks
  BY <1>4 DEF WriteCounter
<1>5. ASSUME NEW d \in Dev, DiscardRequest(d) PROVE Ticks
  BY <1>5 DEF DiscardRequest
<1>6. ASSUME NEW d \in Dev, NEW cycles, AcceptRequest(d, cycles) PROVE Ticks
  BY <1>6, Parameters DEF AcceptRequest
<1> HIDE DEF Ticks
<1>7. Ticks
  BY <1>1, <1>2, <1>3, <1>4, <1>5, <1>6 DEF CpuStep
<1>8. QED
  BY <1>7 DEF Ticks

(* As long as no script drains the simulator, the tick event is in the      *)
(* queue and is not due before all the handler time owed has passed.        *)
LEMMA NoDrainInvariant ==
  ASSUME ~Drains
  PROVE  Spec => []NoDrain
<1>1. Init => NoDrain
  BY DEF Init, NoDrain
<1>2. TypeOK /\ NoDrain /\ [Next]_vars => NoDrain'
  <2> SUFFICES ASSUME TypeOK, NoDrain, [Next]_vars
               PROVE  NoDrain'
    OBVIOUS
  <2>1. CASE CpuStep
    <3>1. PICK stall \in Nat, bytes \in Nat : Tick(stall, bytes)
      BY <2>1, InstructionTicks
    <3>2. drain' = "none" /\ tickEvent' = Latency(stall) /\ owed' = Remaining(owed, tickEvent)
      BY <3>1 DEF Tick, NoDrain
    <3>3. Latency(stall) \in Nat /\ Remaining(owed, tickEvent) = 0
      BY LatencyFact DEF Remaining, NoDrain, TypeOK
    <3>4. QED
      BY <3>2, <3>3 DEF NoDrain
  <2>2. ASSUME NEW d \in Dev, TriggerInterrupt(d)
        PROVE  NoDrain'
    <3> DEFINE now == event_interrupt[d]
    <3>1. now \in Nat /\ tickEvent \in Nat /\ now < tickEvent
      BY <2>2 DEF TriggerInterrupt, InterruptIsNext, TypeOK
    <3>2. /\ tickEvent' = (tickEvent - now) + RoundUp(DelayCpuInterrupt)
          /\ owed' = Remaining(owed, now) + DelayCpuInterrupt
          /\ drain' = drain
      BY <2>2 DEF TriggerInterrupt
    <3>3. RoundUp(DelayCpuInterrupt) \in Nat /\ RoundUp(DelayCpuInterrupt) >= DelayCpuInterrupt
      BY RoundUpFact, Parameters
    <3>4. Remaining(owed, now) \in Nat /\ Remaining(owed, now) <= tickEvent - now
      <4> HIDE DEF now
      <4>1. QED
        BY <3>1 DEF Remaining, NoDrain, TypeOK
    <3> HIDE DEF now
    <3>5. QED
      BY <3>1, <3>2, <3>3, <3>4, Parameters DEF NoDrain
  <2>3. CASE DrainStep
    BY <2>3 DEF DrainStep, DrainAtOnce, RequestDrain, DrainResume, NoDrain
  <2>4. CASE UNCHANGED vars
    BY <2>4 DEF vars, cpuVars, NoDrain
  <2>5. QED
    BY <2>1, <2>2, <2>3, <2>4 DEF Next, EventStep
<1>3. QED
  BY <1>1, <1>2, TypeCorrect, PTL DEF Spec

(* The CPU executes nothing before it has spent the time of every interrupt *)
(* handler, however many devices interrupt it and however their interrupts  *)
(* overlap, unless the simulator is drained.                                *)
THEOREM HandlersArePaid ==
  ASSUME ~Drains
  PROVE  Spec => []HandlerTimePaid
<1>1. NoDrain => HandlerTimePaid
  BY DEF NoDrain, HandlerTimePaid
<1>2. QED
  BY <1>1, NoDrainInvariant, PTL

(* The assertions on the way of an interrupt never fail, unless the         *)
(* simulator is drained: the device is working and the CPU's tick event is  *)
(* in the queue.                                                            *)
THEOREM InterruptsAreSafe ==
  ASSUME ~Drains
  PROVE  Spec => []InterruptSafe
<1>1. NoDrain /\ WorkingConsistent => InterruptSafe
  BY DEF NoDrain, WorkingConsistent, InterruptSafe, InterruptIsNext, Unscheduled
<1>2. QED
  BY <1>1, NoDrainInvariant, Consistent, PTL

-----------------------------------------------------------------------------
(* With drains: interrupts off the edges of the CPU's clock *)

(* Whole numbers of the CPU's cycles, in ticks. *)
WholeCycles == {n * ClockPeriod : n \in Int}

(* They add up to whole cycles. *)
LEMMA CyclesAdd ==
  ASSUME NEW a \in WholeCycles, NEW b \in WholeCycles
  PROVE  a \in Int /\ b \in Int /\ a + b \in WholeCycles /\ a - b \in WholeCycles
<1>1. PICK m \in Int : a = m * ClockPeriod
  BY DEF WholeCycles
<1>2. PICK n \in Int : b = n * ClockPeriod
  BY DEF WholeCycles
<1>3. ClockPeriod \in Int
  BY Parameters
<1>4. a + b = (m + n) * ClockPeriod /\ a - b = (m - n) * ClockPeriod
  BY <1>1, <1>2, <1>3
<1>5. a \in Int /\ b \in Int
  BY <1>1, <1>2, <1>3
<1>6. QED
  BY <1>4, <1>5 DEF WholeCycles

(* None and one are whole numbers. *)
LEMMA SmallCycles == 0 \in WholeCycles /\ ClockPeriod \in WholeCycles
<1>1. 0 = 0 * ClockPeriod /\ ClockPeriod = 1 * ClockPeriod
  BY Parameters
<1>2. QED
  BY <1>1 DEF WholeCycles

(* What the remainder leaves is whole, and a whole number leaves none. *)
LEMMA RemainderCycles ==
  ASSUME NEW t \in Nat
  PROVE  /\ t % ClockPeriod \in 0 .. ClockPeriod - 1
         /\ t - (t % ClockPeriod) \in WholeCycles
         /\ t \in WholeCycles <=> t % ClockPeriod = 0
<1>1. /\ ClockPeriod \in Nat /\ ClockPeriod > 0
      /\ t \div ClockPeriod \in Int /\ t % ClockPeriod \in 0 .. ClockPeriod - 1
  BY Parameters
<1>2. t = (t \div ClockPeriod) * ClockPeriod + (t % ClockPeriod)
  BY <1>1
<1>3. t - (t % ClockPeriod) = (t \div ClockPeriod) * ClockPeriod
  BY <1>1, <1>2
<1>4. t - (t % ClockPeriod) \in WholeCycles
  BY <1>1, <1>3 DEF WholeCycles
<1>5. ASSUME t \in WholeCycles
      PROVE  t % ClockPeriod = 0
  <2>1. t - (t - (t % ClockPeriod)) \in WholeCycles
    BY <1>4, <1>5, CyclesAdd
  <2>2. t % ClockPeriod \in WholeCycles
    BY <1>1, <2>1
  <2>3. PICK n \in Int : t % ClockPeriod = n * ClockPeriod
    BY <2>2 DEF WholeCycles
  <2>4. ~(n >= 1)
    <3>1. n >= 1 => n * ClockPeriod >= ClockPeriod
      BY <1>1
    <3>2. QED
      BY <1>1, <2>3, <3>1
  <2>5. ~(n <= -1)
    <3>1. n <= -1 => n * ClockPeriod <= -ClockPeriod
      BY <1>1
    <3>2. QED
      BY <1>1, <2>3, <3>1
  <2>6. n = 0
    BY <2>4, <2>5
  <2>7. QED
    BY <1>1, <2>3, <2>6
<1>6. t % ClockPeriod = 0 => t \in WholeCycles
  BY <1>1, <1>4
<1>7. QED
  BY <1>1, <1>4, <1>5, <1>6

(* The next tick and the delay of an interrupt come in whole cycles. *)
LEMMA DelaysAreWhole ==
  ASSUME NEW t \in Nat
  PROVE  Latency(t) \in WholeCycles /\ RoundUp(t) \in WholeCycles
<1>1. Latency(t) \in WholeCycles
  <2>1. (t + ClockPeriod - 1) \div ClockPeriod \in Int
    BY Parameters
  <2>2. QED
    BY <2>1, SmallCycles DEF Latency, WholeCycles
<1>2. RoundUp(t) \in WholeCycles
  <2>1. CASE t % ClockPeriod = 0
    BY <2>1, RemainderCycles DEF RoundUp
  <2>2. CASE t % ClockPeriod # 0
    <3>1. (t - (t % ClockPeriod)) + ClockPeriod \in WholeCycles
      BY RemainderCycles, SmallCycles, CyclesAdd
    <3>2. t + (ClockPeriod - (t % ClockPeriod)) = (t - (t % ClockPeriod)) + ClockPeriod
      BY RemainderCycles, Parameters
    <3>3. QED
      BY <2>2, <3>1, <3>2 DEF RoundUp
  <2>3. QED
    BY <2>1, <2>2
<1>3. QED
  BY <1>1, <1>2

(* So do the cycles of a device whose clock is a multiple of the CPU's. *)
LEMMA JobsAreWhole ==
  ASSUME TickPerCycle % ClockPeriod = 0, NEW cycles \in Nat
  PROVE  cycles * TickPerCycle \in WholeCycles
<1>1. TickPerCycle \in WholeCycles /\ ClockPeriod \in Int
  BY Parameters, RemainderCycles
<1>2. PICK n \in Int : TickPerCycle = n * ClockPeriod
  BY <1>1 DEF WholeCycles
<1>3. cycles * TickPerCycle = (cycles * n) * ClockPeriod /\ cycles * n \in Int
  BY <1>1, <1>2
<1>4. QED
  BY <1>3 DEF WholeCycles

(* When the CPU's next tick is due; in a drained CPU, its clock is at an     *)
(* edge now.                                                                *)
NextEdge == IF tickEvent = Unscheduled THEN 0 ELSE tickEvent

(* Interrupts are off the edges of the CPU's clock by the time it takes to  *)
(* set a device up.                                                         *)
OffBy(due) == due - NextEdge - DelaySet \in WholeCycles
OffEdge ==
  /\ drain = "signalled" <=> tickEvent = Unscheduled
  /\ \A d \in Dev : event_interrupt[d] # Unscheduled => OffBy(event_interrupt[d])

(* An interrupt stays where it is on the clock when the time that passes    *)
(* and the time the tick gains differ by whole cycles.                      *)
LEMMA StaysOff ==
  ASSUME NEW due \in Int, NEW edge \in Int, NEW set \in Int, due - edge - set \in WholeCycles,
         NEW ticks \in Int, NEW next \in Int, edge - ticks - next \in WholeCycles
  PROVE  (due - ticks) - next - set \in WholeCycles
<1>1. (due - edge - set) + (edge - ticks - next) \in WholeCycles
  BY CyclesAdd
<1>2. (due - edge - set) + (edge - ticks - next) = (due - ticks) - next - set
  OBVIOUS
<1>3. QED
  BY <1>1, <1>2

(* Hence after a step in which ticks pass, for the interrupts that were     *)
(* pending before.                                                          *)
LEMMA PendingStaysOff ==
  ASSUME TypeOK, TypeOK', OffEdge, NEW ticks \in Nat,
         \A d \in Dev : event_interrupt[d] # Unscheduled => ticks <= event_interrupt[d],
         NextEdge - ticks - NextEdge' \in WholeCycles,
         NEW e \in Dev, event_interrupt'[e] = InterruptsAfter(ticks)[e],
         event_interrupt'[e] # Unscheduled
  PROVE  OffBy(event_interrupt[e])'
<1>1. event_interrupt[e] # Unscheduled
  BY ElapseScheduled
<1>2. event_interrupt[e] \in Nat /\ event_interrupt'[e] = event_interrupt[e] - ticks
  BY <1>1 DEF TypeOK, InterruptsAfter, Elapse
<1>3. event_interrupt[e] - NextEdge - DelaySet \in WholeCycles
  BY <1>1 DEF OffEdge, OffBy
<1>4. NextEdge \in Nat /\ NextEdge' \in Nat /\ DelaySet \in Nat
  BY Parameters DEF TypeOK, NextEdge
<1>5. (event_interrupt[e] - ticks) - NextEdge' - DelaySet \in WholeCycles
  BY <1>2, <1>3, <1>4, StaysOff
<1>6. QED
  BY <1>2, <1>5 DEF OffBy

(* An instruction leaves the next tick whole cycles away, or completes a    *)
(* drain.                                                                   *)
LEMMA TickEdge ==
  ASSUME TypeOK, OffEdge, TickIsNext, NEW stall \in Nat, NEW bytes \in Nat, Tick(stall, bytes)
  PROVE  /\ NextEdge = tickEvent /\ tickEvent \in Nat
         /\ NextEdge' \in WholeCycles
         /\ drain' = "signalled" <=> tickEvent' = Unscheduled
<1>1. tickEvent \in Nat /\ tickEvent # Unscheduled /\ drain # "signalled"
  BY DEF TypeOK, TickIsNext, OffEdge
<1>2. CASE tickEvent' = Unscheduled /\ drain' = "signalled"
  BY <1>1, <1>2, SmallCycles DEF NextEdge
<1>3. CASE tickEvent' = Latency(stall) /\ drain' = drain
  <2>1. Latency(stall) # Unscheduled
    BY LatencyFact DEF Unscheduled
  <2>2. QED
    BY <1>1, <1>3, <2>1, DelaysAreWhole DEF NextEdge
<1>4. QED
  BY <1>2, <1>3 DEF Tick

(* The invariant is inductive when the devices' cycles are whole ones of    *)
(* the CPU.                                                                 *)
LEMMA OffEdgeInvariant ==
  ASSUME TickPerCycle % ClockPeriod = 0
  PROVE  Spec => []OffEdge
<1>1. Init => OffEdge
  BY DEF Init, OffEdge, Unscheduled
<1>2. TypeOK /\ TypeOK' /\ OffEdge /\ [Next]_vars => OffEdge'
  <2> SUFFICES ASSUME TypeOK, TypeOK', OffEdge, [Next]_vars
               PROVE  OffEdge'
    OBVIOUS
  <2>0. DelaySet \in Nat /\ ClockPeriod \in Nat
    BY Parameters
  <2>1. CASE CpuStep
    <3>1. PICK stall \in Nat, bytes \in Nat : TickIsNext /\ Tick(stall, bytes)
      BY <2>1, InstructionTicks
    <3>2. /\ NextEdge = tickEvent /\ tickEvent \in Nat
          /\ NextEdge' \in WholeCycles
          /\ drain' = "signalled" <=> tickEvent' = Unscheduled
      BY <3>1, TickEdge
    <3>3. NextEdge - tickEvent - NextEdge' \in WholeCycles
      <4>1. 0 - NextEdge' \in WholeCycles
        BY <3>2, SmallCycles, CyclesAdd
      <4>2. NextEdge - tickEvent = 0
        BY <3>2
      <4>3. QED
        BY <4>1, <4>2
    <3>4. \A d \in Dev : event_interrupt[d] # Unscheduled => tickEvent <= event_interrupt[d]
      BY <3>1, TickFirst
    <3>5. ASSUME NEW e \in Dev, event_interrupt'[e] = InterruptsAfter(tickEvent)[e],
                 event_interrupt'[e] # Unscheduled
          PROVE  OffBy(event_interrupt[e])'
      BY <3>2, <3>3, <3>4, <3>5, PendingStaysOff
    <3>6. ASSUME NEW e \in Dev, NEW cycles \in RunCycles,
                 event_interrupt'[e] = DelaySet + cycles * TickPerCycle
          PROVE  OffBy(event_interrupt[e])'
      <4>1. cycles \in Nat
        BY Parameters
      <4>2. PICK job : job = cycles * TickPerCycle
        OBVIOUS
      <4>3. job \in WholeCycles
        BY <4>1, <4>2, JobsAreWhole
      <4>4. job - NextEdge' \in WholeCycles /\ job \in Int /\ NextEdge' \in Int
        BY <3>2, <4>3, CyclesAdd
      <4>5. (DelaySet + job) - NextEdge' - DelaySet = job - NextEdge'
        BY <2>0, <4>4
      <4>6. QED
        BY <3>6, <4>2, <4>4, <4>5 DEF OffBy
    <3>7. ASSUME NEW e \in Dev, event_interrupt'[e] # Unscheduled
          PROVE  OffBy(event_interrupt[e])'
      <4>1. \/ event_interrupt'[e] = InterruptsAfter(tickEvent)[e]
            \/ \E cycles \in RunCycles : event_interrupt'[e] = DelaySet + cycles * TickPerCycle
        <5>1. CASE event_interrupt' = InterruptsAfter(tickEvent)
          BY <5>1
        <5>2. ASSUME NEW d \in Dev, NEW cycles \in RunCycles, AcceptRequest(d, cycles)
              PROVE  \/ event_interrupt'[e] = InterruptsAfter(tickEvent)[e]
                     \/ event_interrupt'[e] = DelaySet + cycles * TickPerCycle
          BY <5>2 DEF AcceptRequest, InterruptsAfter
        <5>3. QED
          BY <2>1, <5>1, <5>2, InstructionCases
      <4>2. QED
        BY <3>5, <3>6, <3>7, <4>1
    <3>8. QED
      BY <3>2, <3>7 DEF OffEdge
  <2>2. ASSUME NEW d \in Dev, TriggerInterrupt(d)
        PROVE  OffEdge'
    <3>1. PICK now \in Nat : now = event_interrupt[d] /\ tickEvent \in Nat /\ now < tickEvent
      BY <2>2 DEF TriggerInterrupt, InterruptIsNext, TypeOK
    <3>2. PICK delay \in Nat : delay = RoundUp(DelayCpuInterrupt) /\ delay \in WholeCycles
      BY RoundUpFact, DelaysAreWhole, Parameters
    <3>3. /\ tickEvent' = (tickEvent - now) + delay /\ drain' = drain
          /\ event_interrupt' = [InterruptsAfter(now) EXCEPT ![d] = Unscheduled]
      BY <2>2, <3>1, <3>2 DEF TriggerInterrupt
    <3>4. /\ tickEvent' \in Nat /\ tickEvent' # Unscheduled /\ drain' # "signalled"
          /\ NextEdge = tickEvent /\ NextEdge' = tickEvent'
      BY <3>1, <3>2, <3>3 DEF NextEdge, OffEdge, Unscheduled
    <3>5. NextEdge - now - NextEdge' \in WholeCycles
      <4>1. 0 - delay \in WholeCycles
        BY <3>2, SmallCycles, CyclesAdd
      <4>2. NextEdge - now - NextEdge' = 0 - delay
        BY <3>1, <3>2, <3>3, <3>4
      <4>3. QED
        BY <4>1, <4>2
    <3>6. \A e \in Dev : event_interrupt[e] # Unscheduled => now <= event_interrupt[e]
      BY <2>2, <3>1 DEF TriggerInterrupt, InterruptIsNext
    <3>7. ASSUME NEW e \in Dev, event_interrupt'[e] # Unscheduled
          PROVE  OffBy(event_interrupt[e])'
      <4>1. event_interrupt'[e] = InterruptsAfter(now)[e]
        BY <3>3, <3>7 DEF InterruptsAfter
      <4>2. QED
        BY <3>5, <3>6, <3>7, <4>1, PendingStaysOff
    <3>8. QED
      BY <3>4, <3>7 DEF OffEdge
  <2>3. ASSUME NEW ticks \in 0 .. tickEvent - 1, DrainAtOnce(ticks) \/ RequestDrain(ticks)
        PROVE  OffEdge'
    <3>1. PausedAfter(ticks) /\ drain = "none"
      BY <2>3 DEF DrainAtOnce, RequestDrain
    <3>2. tickEvent \in Nat /\ ticks \in Nat /\ ticks < tickEvent /\ NextEdge = tickEvent
      BY <2>3, <3>1 DEF PausedAfter, TypeOK, NextEdge
    <3>3. PICK rest \in Nat : rest = tickEvent - ticks
      BY <3>2
    <3>4. /\ tickEvent' \in Nat /\ rest - tickEvent' \in WholeCycles
          /\ drain' # "signalled"
      <4>1. CASE DrainAtOnce(ticks)
        <5>1. tickEvent' = (rest % ClockPeriod) + ClockPeriod /\ drain' = drain
          BY <3>3, <4>1 DEF DrainAtOnce, ResumeAt
        <5>2. /\ rest % ClockPeriod \in 0 .. ClockPeriod - 1
              /\ (rest - (rest % ClockPeriod)) - ClockPeriod \in WholeCycles
          BY RemainderCycles, SmallCycles, CyclesAdd
        <5>3. PICK left \in 0 .. ClockPeriod - 1 : left = rest % ClockPeriod
          BY <5>2
        <5>4. rest - (left + ClockPeriod) = (rest - left) - ClockPeriod
          BY <2>0, <5>3
        <5>5. tickEvent' \in Nat
          BY <2>0, <5>1, <5>3
        <5>6. QED
          BY <3>1, <5>1, <5>2, <5>3, <5>4, <5>5
      <4>2. CASE RequestDrain(ticks)
        <5>1. tickEvent' = rest /\ drain' = "requested"
          BY <3>3, <4>2 DEF RequestDrain
        <5>2. rest - rest = 0
          OBVIOUS
        <5>3. QED
          BY <5>1, <5>2, SmallCycles
      <4>3. QED
        BY <2>3, <4>1, <4>2
    <3>5. tickEvent' # Unscheduled /\ NextEdge' = tickEvent'
      BY <3>4 DEF NextEdge, Unscheduled
    <3>6. NextEdge - ticks - NextEdge' \in WholeCycles
      BY <3>2, <3>3, <3>4, <3>5
    <3>7. /\ event_interrupt' = InterruptsAfter(ticks)
          /\ \A e \in Dev : event_interrupt[e] # Unscheduled => ticks <= event_interrupt[e]
      BY <2>3, <3>1, <3>2 DEF DrainAtOnce, RequestDrain, PausedAfter, TypeOK
    <3>8. ASSUME NEW e \in Dev, event_interrupt'[e] # Unscheduled
          PROVE  OffBy(event_interrupt[e])'
      BY <3>2, <3>6, <3>7, <3>8, PendingStaysOff
    <3>9. QED
      BY <3>4, <3>5, <3>8 DEF OffEdge
  <2>4. CASE DrainResume
    <3>1. /\ drain = "signalled" /\ drain' = "none" /\ tickEvent' = ClockPeriod
          /\ event_interrupt' = event_interrupt
      BY <2>4 DEF DrainResume
    <3>2. /\ NextEdge = 0 /\ NextEdge' = ClockPeriod /\ tickEvent' # Unscheduled
      BY <2>0, <3>1 DEF NextEdge, OffEdge, Unscheduled
    <3>3. NextEdge - 0 - NextEdge' \in WholeCycles
      BY <3>2, <2>0, SmallCycles, CyclesAdd
    <3>4. \A e \in Dev : /\ event_interrupt[e] # Unscheduled => 0 <= event_interrupt[e]
                         /\ event_interrupt'[e] = InterruptsAfter(0)[e]
      BY <3>1 DEF TypeOK, InterruptsAfter, Elapse, Unscheduled
    <3>5. ASSUME NEW e \in Dev, event_interrupt'[e] # Unscheduled
          PROVE  OffBy(event_interrupt[e])'
      BY <3>3, <3>4, <3>5, PendingStaysOff
    <3>6. QED
      BY <3>1, <3>2, <3>5 DEF OffEdge
  <2>5. CASE UNCHANGED vars
    BY <2>5 DEF vars, cpuVars, OffEdge, OffBy, NextEdge
  <2>6. QED
    BY <2>1, <2>2, <2>3, <2>4, <2>5 DEF Next, EventStep, DrainStep
<1>3. QED
  BY <1>1, <1>2, TypeCorrect, PTL DEF Spec

(* The assertions on the way of an interrupt never fail in a system that is *)
(* drained at any time either, if the cycles of the devices are whole ones  *)
(* of the CPU and the time to set one up is not: no interrupt comes in the  *)
(* tick in which the CPU completes a drain. Without that they do fail.      *)
THEOREM InterruptsAreSafeOffTheEdges ==
  ASSUME TickPerCycle % ClockPeriod = 0, DelaySet % ClockPeriod # 0
  PROVE  Spec => []InterruptSafe
<1>1. TypeOK /\ OffEdge /\ WorkingConsistent => InterruptSafe
  <2> SUFFICES ASSUME TypeOK, OffEdge, WorkingConsistent, NEW d \in Dev, InterruptIsNext(d)
               PROVE  Working(d) /\ tickEvent # Unscheduled
    BY DEF InterruptSafe
  <2>1. Working(d) /\ event_interrupt[d] # Unscheduled
    BY DEF WorkingConsistent, InterruptIsNext
  <2>2. ASSUME tickEvent = Unscheduled
        PROVE  FALSE
    <3>1. event_interrupt[d] = 0 /\ NextEdge = 0
      BY <2>2 DEF OffEdge, InterruptIsNext, NextEdge
    <3>2. 0 - 0 - DelaySet \in WholeCycles
      BY <2>1, <3>1 DEF OffEdge, OffBy
    <3>3. 0 - (0 - 0 - DelaySet) \in WholeCycles
      BY <3>2, SmallCycles, CyclesAdd
    <3>4. DelaySet \in WholeCycles
      BY <3>3, Parameters
    <3>5. QED
      BY <3>4, RemainderCycles, Parameters
  <2>3. QED
    BY <2>1, <2>2
<1>2. QED
  BY <1>1, TypeCorrect, Consistent, OffEdgeInvariant, PTL

-----------------------------------------------------------------------------
(* Refinement *)

(* The devices implement JobDevice: however the program, the other devices, *)
(* the interrupts and the drains interleave, software sees each device take *)
(* one job at a time, and the final flag change only with a job.            *)
THEOREM ImplementsJobDevice == Spec => JobSpec
<1>1. Init => Job!Init
  <2> SUFFICES ASSUME Init
               PROVE  Job!Init
    OBVIOUS
  <2>1. \A d \in Dev : "WORK" \notin pmem[d] /\ "FINISH" \in pmem[d]
    BY DEF Init
  <2>2. QED
    BY <2>1 DEF Job!Init
<1>2. TypeOK /\ FinishTruthful /\ [Next]_vars => [Job!Next]_(Job!vars)
  <2> SUFFICES ASSUME TypeOK, FinishTruthful, [Next]_vars
               PROVE  [Job!Next]_(Job!vars)
    OBVIOUS
  <2>1. ASSUME UNCHANGED pmem
        PROVE  UNCHANGED Job!vars
    BY <2>1 DEF Job!vars, Working
  <2>2. ASSUME NEW d \in Dev, NEW cycles \in RunCycles, AcceptRequest(d, cycles)
        PROVE  Job!Submit(d)
    <3>1. "WORK" \notin pmem[d]
      BY <2>2 DEF AcceptRequest, CanAccept
    <3>2. "WORK" \in pmem'[d] /\ "FINISH" \notin pmem'[d]
      BY <2>2 DEF AcceptRequest, TypeOK, StartFlags
    <3>3. \A e \in Dev \ {d} : pmem'[e] = pmem[e]
      BY <2>2 DEF AcceptRequest, TypeOK
    <3>4. QED
      BY <3>1, <3>2, <3>3 DEF Job!Submit
  <2>3. ASSUME NEW d \in Dev, TriggerInterrupt(d)
        PROVE  Job!Complete(d)
    <3>1. "WORK" \in pmem[d]
      BY <2>3 DEF TriggerInterrupt
    <3>2. "WORK" \notin pmem'[d]
      BY <2>3 DEF TriggerInterrupt, TypeOK, EndFlags
    <3>3. \A e \in Dev \ {d} : pmem'[e] = pmem[e]
      BY <2>3 DEF TriggerInterrupt, TypeOK
    <3>4. "FINISH" \notin pmem[d]
      BY <3>1 DEF FinishTruthful, Working
    <3>5. {e \in Dev : "FINISH" \in pmem'[e]} \in
             {{e \in Dev : "FINISH" \in pmem[e]}, {e \in Dev : "FINISH" \in pmem[e]} \cup {d}}
      <4>1. CASE "FINISH" \in pmem'[d]
        BY <3>3, <4>1
      <4>2. CASE "FINISH" \notin pmem'[d]
        BY <3>3, <3>4, <4>2
      <4>3. QED
        BY <4>1, <4>2
    <3>6. {e \in Dev : "WORK" \in pmem'[e]} = {e \in Dev : "WORK" \in pmem[e]} \ {d}
      BY <3>2, <3>3
    <3>7. QED
      BY <3>1, <3>5, <3>6 DEF Job!Complete
  <2>4. CASE DrainStep
    BY <2>1, <2>4, DrainCases
  <2>5. CASE UNCHANGED vars
    BY <2>1, <2>5 DEF vars, devVars
  <2>6. QED
    BY <2>1, <2>2, <2>3, <2>4, <2>5, InstructionCases DEF Next, EventStep, Job!Next
<1>3. QED
  BY <1>1, <1>2, TypeCorrect, FinishIsTruthful, PTL DEF Spec, JobSpec, Job!Spec
=============================================================================
