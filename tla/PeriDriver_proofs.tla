-------------------------- MODULE PeriDriver_proofs --------------------------
(***************************************************************************)
(* Proofs about module PeriDriver, for any parameters of the device, any   *)
(* number of images and any length of the transfers.                       *)
(***************************************************************************)
EXTENDS PeriDriver, VirtualDevice_proofs

(* Where the program is in the library call it is in: enough of the control *)
(* of main() to know that every call has a successor.                       *)
InCall ==
  /\ call \in Calls
  /\ call.op = "weights" => call.arg \in 1 .. ParameterArrays
  /\ call.op = "exit" => pc = "exited"
  /\ pc \in {"counter", "command", "spin", "copy", "check", "exited"}

(* The successor of a call is a call of main(). *)
LEMMA CallAfterFact ==
  ASSUME NEW c \in Calls, c.op # "exit",
         c.op = "weights" => c.arg \in 1 .. ParameterArrays
  PROVE  /\ CallAfter(c) \in Calls
         /\ CallAfter(c).op = "weights" => CallAfter(c).arg \in 1 .. ParameterArrays
<1>1. c.arg \in 0 .. 10 /\ c.img \in Images
  BY DEF Calls
<1>2. /\ c.img \in 1 .. Batch
      /\ Batch \in Nat
  BY <1>1, DriverParameters DEF Images
<1>3. CASE c.op = "init"
  <2>1. CASE c.arg = 0
    BY <1>1, <1>3, <2>1 DEF CallAfter, Calls, ParameterArrays
  <2>2. CASE c.arg \in 1 .. 9
    BY <1>1, <1>3, <2>2 DEF CallAfter, Calls, ParameterArrays
  <2>3. CASE c.arg = 10
    BY <1>1, <1>3, <2>3 DEF CallAfter, Calls, ParameterArrays
  <2>4. QED
    BY <1>1, <2>1, <2>2, <2>3
<1>4. CASE c.op = "weights"
  <2>1. CASE c.arg < ParameterArrays
    BY <1>1, <1>4, <2>1 DEF CallAfter, Calls, ParameterArrays
  <2>2. CASE c.arg = ParameterArrays
    BY <1>1, <1>4, <2>2 DEF CallAfter, Calls, ParameterArrays
  <2>3. QED
    BY <1>4, <2>1, <2>2 DEF ParameterArrays
<1>5. CASE c.op = "input"
  BY <1>1, <1>5 DEF CallAfter, Calls
<1>6. CASE c.op = "check"
  BY <1>1, <1>6 DEF CallAfter, Calls
<1>7. CASE c.op = "read"
  <2>1. CASE c.img < Batch
    <3>1. c.img + 1 \in Images
      BY <1>2, <2>1 DEF Images
    <3>2. QED
      BY <1>2, <1>7, <2>1, <3>1 DEF CallAfter, Calls
  <2>2. CASE c.img = Batch
    BY <1>1, <1>2, <1>7, <2>2 DEF CallAfter, Calls
  <2>3. QED
    BY <1>2, <2>1, <2>2
<1>8. QED
  BY <1>3, <1>4, <1>5, <1>6, <1>7 DEF Calls

(* Returning from a call leads to the start of another one. *)
LEMMA ReturnFact ==
  ASSUME InCall, Return, call.op # "exit"
  PROVE  InCall'
<1> DEFINE k == CallAfter(call)
<1>1. /\ k \in Calls
      /\ k.op = "weights" => k.arg \in 1 .. ParameterArrays
  BY CallAfterFact DEF InCall
<1>2. call' = k /\ pc' = Entry(k.op)
  BY DEF Return
<1>3. k.op \in {"init", "weights", "input", "check", "read", "exit"}
  BY <1>1 DEF Calls
<1> HIDE DEF k
<1>4. /\ pc' \in {"counter", "command", "spin", "copy", "check", "exited"}
      /\ k.op = "exit" => pc' = "exited"
  BY <1>2, <1>3 DEF Entry
<1>5. QED
  BY <1>1, <1>2, <1>4, <1>3 DEF InCall, ParameterArrays

(* Every step of the program stays within the calls of main(). *)
LEMMA StaysInCall ==
  ASSUME InCall, [DriverNext]_allVars
  PROVE  InCall'
<1>1. CASE UNCHANGED progVars
  BY <1>1 DEF InCall, progVars, Calls, Images
<1>2. CASE SetCounter
  BY <1>2 DEF SetCounter, InCall
<1>3. CASE Command
  BY <1>3 DEF Command, InCall
<1>4. CASE Spin
  <2>1. call.op # "exit"
    BY <1>4 DEF Spin, InCall
  <2>2. CASE Return
    BY <2>1, <2>2, ReturnFact
  <2>3. CASE UNCHANGED call /\ pc' = "copy"
    BY <2>1, <2>3 DEF InCall
  <2>4. QED
    BY <1>1, <1>4, <2>2, <2>3 DEF Spin
<1>5. CASE Copy
  <2>1. call.op # "exit"
    BY <1>5 DEF Copy, InCall
  <2>2. CASE Return
    BY <2>1, <2>2, ReturnFact
  <2>3. CASE UNCHANGED <<call, pc>>
    BY <2>3 DEF InCall
  <2>4. QED
    BY <1>5, <2>2, <2>3 DEF Copy
<1>6. CASE Check
  <2>1. call.op # "exit" /\ Return
    BY <1>6 DEF Check, InCall
  <2>2. QED
    BY <2>1, ReturnFact
<1>7. CASE UNCHANGED allVars \/ Local \/ Interrupt \/ Script
  BY <1>7, <1>1 DEF allVars, driverVars, progVars, Local, Interrupt, Script
<1>8. QED
  BY <1>2, <1>3, <1>4, <1>5, <1>6, <1>7 DEF DriverNext, ProgramStep

(* What the program does to the CPU and its devices is something a program *)
(* may do: a step of module VirtualDevice.                                 *)
LEMMA ProgramStepIsInstruction ==
  ASSUME InCall, ProgramStep
  PROVE  CpuStep
<1>1. Peri \in Dev
  BY DriverParameters
<1>2. CASE SetCounter
  <2>1. call.arg \in Counters
    BY DriverParameters DEF InCall, Calls
  <2>2. QED
    BY <1>1, <1>2, <2>1 DEF SetCounter, CpuStep
<1>3. CASE Command
  BY <1>1, <1>3 DEF Command, CpuStep
<1>4. CASE Spin
  BY <1>1, <1>4 DEF Spin, CpuStep
<1>5. CASE Copy
  BY <1>1, <1>5 DEF Copy, CpuStep
<1>6. CASE Check
  BY <1>1, <1>6 DEF Check, CpuStep
<1>7. QED
  BY <1>2, <1>3, <1>4, <1>5, <1>6 DEF ProgramStep

(* Every step of driver, device and script is a step of VirtualDevice. *)
LEMMA DriverStepIsStep ==
  ASSUME InCall, [DriverNext]_allVars
  PROVE  [Next]_vars
<1>1. CASE ProgramStep
  BY <1>1, ProgramStepIsInstruction DEF Next, EventStep
<1>2. CASE Local
  BY <1>2 DEF Local, Next, EventStep, CpuStep
<1>3. CASE Interrupt
  BY <1>3 DEF Interrupt, Next, EventStep
<1>4. CASE Script
  BY <1>4 DEF Script, Next
<1>5. CASE UNCHANGED allVars
  BY <1>5 DEF allVars
<1>6. QED
  BY <1>1, <1>2, <1>3, <1>4, <1>5 DEF DriverNext

(* main() starts in its first call, periInit(op_init). *)
LEMMA InitInCall ==
  ASSUME DriverInit
  PROVE  InCall
<1>1. 1 \in Images
  BY DriverParameters DEF Images
<1>2. QED
  BY <1>1 DEF DriverInit, InCall, Calls

(* The program is always at a place that belongs to the call it is in. *)
LEMMA InCallInvariant == DriverSpec => []InCall
BY InitInCall, StaysInCall, PTL DEF DriverSpec

(* The program of the repository is one of the programs module             *)
(* VirtualDevice allows: all that is proved there of the device and the CPU *)
(* holds under main.c and peripheral.c.                                    *)
THEOREM DriverImplementsDevice == DriverSpec => Spec
<1>1. DriverInit => Init
  BY DEF DriverInit
<1>2. InCall /\ [DriverNext]_allVars => [Next]_vars
  BY DriverStepIsStep
<1>3. QED
  BY <1>1, <1>2, InCallInvariant, PTL DEF DriverSpec, Spec

(* The program never meets a working device outside its spin loops: it     *)
(* enters them with every accepted command and leaves them only on READY,  *)
(* which WorkingConsistent makes the opposite of WORK.                     *)
LEMMA QuietStep ==
  ASSUME WorkingConsistent, QuietDevice, [DriverNext]_allVars
  PROVE  QuietDevice'
<1>1. Peri \in Dev
  BY DriverParameters
<1>2. CASE UNCHANGED <<pmem, pc>>
  BY <1>2 DEF QuietDevice, Working
<1>3. CASE SetCounter
  BY <1>3 DEF SetCounter, WriteCounter, QuietDevice, Working
<1>4. CASE Command
  BY <1>4 DEF Command, QuietDevice
<1>5. CASE Spin
  <2>1. UNCHANGED pmem
    BY <1>5 DEF Spin, ReadRegister, devVars
  <2>2. CASE Ready
    <3>1. ~Working(Peri)
      BY <1>1, <2>2 DEF WorkingConsistent, Ready
    <3>2. QED
      BY <2>1, <3>1 DEF QuietDevice, Working
  <2>3. CASE ~Ready
    BY <1>2, <1>5, <2>1, <2>3 DEF Spin, progVars
  <2>4. QED
    BY <2>2, <2>3
<1>6. CASE Copy
  BY <1>6 DEF Copy, TransferData, devVars, QuietDevice, Working
<1>7. CASE Check
  BY <1>7 DEF Check, ReadRegister, devVars, QuietDevice, Working
<1>8. CASE Local \/ Script \/ UNCHANGED allVars
  BY <1>2, <1>8 DEF Local, ExecuteLocal, Script, DrainStep, DrainAtOnce,
     RequestDrain, DrainResume, allVars, vars, devVars, driverVars, progVars
<1>9. CASE Interrupt
  <2>1. PICK d \in Dev : TriggerInterrupt(d)
    BY <1>9 DEF Interrupt
  <2>2. ASSUME Working(Peri)' PROVE Working(Peri)
    BY <1>1, <2>1, <2>2, SMTT(30) DEF TriggerInterrupt, EndFlags, Working
  <2>3. UNCHANGED pc
    BY <1>9 DEF Interrupt, driverVars, progVars
  <2>4. QED
    BY <2>2, <2>3 DEF QuietDevice
<1>10. QED
  BY <1>3, <1>4, <1>5, <1>6, <1>7, <1>8, <1>9 DEF DriverNext, ProgramStep

(* No request of the program is discarded and no data window is accessed   *)
(* during a job, whatever the timing of the device, for any batch.         *)
THEOREM DeviceIsQuiet == DriverSpec => []QuietDevice
<1>1. DriverInit => QuietDevice
  <2>1. Peri \in Dev
    BY DriverParameters
  <2>2. QED
    BY <2>1 DEF DriverInit, Init, QuietDevice, Working
<1>2. DriverSpec => []WorkingConsistent
  BY DriverImplementsDevice, Consistent, PTL
<1>3. QED
  BY <1>1, <1>2, QuietStep, PTL DEF DriverSpec

-----------------------------------------------------------------------------
(* What the program has made of the device, call by call.                  *)

(* The successors of the calls of main(). *)
LEMMA Successors ==
  ASSUME NEW c \in Calls
  PROVE  /\ c.op = "init" /\ c.arg = 0 =>
              CallAfter(c) = [op |-> "weights", arg |-> 1, img |-> c.img]
         /\ c.op = "weights" /\ c.arg < ParameterArrays =>
              CallAfter(c) = [op |-> "weights", arg |-> c.arg + 1, img |-> c.img]
         /\ c.op = "weights" /\ c.arg = ParameterArrays =>
              CallAfter(c) = [op |-> "input", arg |-> 0, img |-> c.img]
         /\ c.op = "input" =>
              CallAfter(c) = [op |-> "init", arg |-> 1, img |-> c.img]
         /\ c.op = "init" /\ c.arg \in 1 .. 9 =>
              CallAfter(c) = [op |-> "init", arg |-> c.arg + 1, img |-> c.img]
         /\ c.op = "init" /\ c.arg = 10 =>
              CallAfter(c) = [op |-> "check", arg |-> 0, img |-> c.img]
         /\ c.op = "check" =>
              CallAfter(c) = [op |-> "read", arg |-> 0, img |-> c.img]
         /\ c.op = "read" /\ c.img < Batch =>
              CallAfter(c) = [op |-> "input", arg |-> 0, img |-> c.img + 1]
         /\ c.op = "read" /\ c.img = Batch =>
              CallAfter(c) = [op |-> "exit", arg |-> 0, img |-> c.img]
<1>1. ASSUME c.op = "init" /\ c.arg = 0
      PROVE  CallAfter(c) = [op |-> "weights", arg |-> 1, img |-> c.img]
  BY <1>1 DEF CallAfter
<1>2. ASSUME c.op = "weights" /\ c.arg < ParameterArrays
      PROVE  CallAfter(c) = [op |-> "weights", arg |-> c.arg + 1, img |-> c.img]
  BY <1>2 DEF CallAfter, ParameterArrays
<1>3. ASSUME c.op = "weights" /\ c.arg = ParameterArrays
      PROVE  CallAfter(c) = [op |-> "input", arg |-> 0, img |-> c.img]
  BY <1>3 DEF CallAfter, ParameterArrays
<1>4. ASSUME c.op = "input"
      PROVE  CallAfter(c) = [op |-> "init", arg |-> 1, img |-> c.img]
  BY <1>4 DEF CallAfter
<1>5. ASSUME c.op = "init" /\ c.arg \in 1 .. 9
      PROVE  CallAfter(c) = [op |-> "init", arg |-> c.arg + 1, img |-> c.img]
  BY <1>5 DEF CallAfter
<1>6. ASSUME c.op = "init" /\ c.arg = 10
      PROVE  CallAfter(c) = [op |-> "check", arg |-> 0, img |-> c.img]
  BY <1>6 DEF CallAfter
<1>7. ASSUME c.op = "check"
      PROVE  CallAfter(c) = [op |-> "read", arg |-> 0, img |-> c.img]
  BY <1>7 DEF CallAfter
<1>8. ASSUME c.op = "read" /\ c.img < Batch
      PROVE  CallAfter(c) = [op |-> "input", arg |-> 0, img |-> c.img + 1]
  BY <1>8, DriverParameters DEF CallAfter
<1>9. ASSUME c.op = "read" /\ c.img = Batch
      PROVE  CallAfter(c) = [op |-> "exit", arg |-> 0, img |-> c.img]
  BY <1>9, DriverParameters DEF CallAfter
<1>10. QED
  BY <1>1, <1>2, <1>3, <1>4, <1>5, <1>6, <1>7, <1>8, <1>9

(* Each place belongs to some calls. *)
PlaceInCall ==
  \/ call.op = "init" /\ pc \in {"counter", "command", "spin"}
  \/ call.op \in {"weights", "input", "read"} /\ pc \in {"spin", "copy"}
  \/ call.op = "check" /\ pc = "check"
  \/ call.op = "exit" /\ pc = "exited"

(* A transfer in progress has accesses left. *)
Transfer ==
  /\ left \in 0 .. CopyAccesses
  /\ pc = "copy" => left \in 1 .. CopyAccesses
  /\ pc = "copy" /\ call.op = "read" => left = 1

(* The command takes its operation from the counter register. *)
OperationSet == pc = "command" => counter[Peri] = call.arg

(* op_init is the first job. *)
NamedFirst ==
  /\ named \in BOOLEAN
  /\ named \/ (call.op = "init" /\ call.arg = 0 /\ pc \in {"counter", "command"})

(* The parameters are loaded one array after the other, before all images. *)
ParametersLoaded ==
  loaded = IF call.op = "init" /\ call.arg = 0 THEN 0
           ELSE IF call.op = "weights" THEN call.arg - 1 ELSE ParameterArrays

(* The memory an operation reads holds what the operation before it has     *)
(* made of the same image, and the memory it writes what it has made of it. *)
ImageInMemory ==
  /\ mem \in [Activations -> Content(Images)]
  /\ call.op = "init" /\ call.arg \in Operations =>
       /\ pc \in {"counter", "command"} => mem[Source(call.arg)] = <<call.img, call.arg - 1>>
       /\ pc = "spin" => mem[Target(call.arg)] = <<call.img, call.arg>>
  /\ call.op \in {"check", "read"} => mem[1] = <<call.img, 10>>

(* What is read is the label. *)
ResultsRead == result \in [Images -> Content(Images)] /\ ResultsCorrect

(* The last job the device has taken is that of the call, and the assertion *)
(* of main() comes after the output operation.                              *)
JobOfCall ==
  /\ call.op = "init" /\ pc = "spin" =>
       execution_state[Peri] # "POWEROFF" /\ (finished[Peri] <=> call.arg = 10)
  /\ call.op = "check" => execution_state[Peri] # "POWEROFF" /\ finished[Peri]

ProgramInv ==
  /\ InCall /\ PlaceInCall /\ Transfer
  /\ OperationSet /\ NamedFirst /\ ParametersLoaded
  /\ ImageInMemory /\ ResultsRead /\ JobOfCall

(* What the device guarantees between the steps of the program. *)
DeviceInv == TypeOK /\ WorkingConsistent /\ FinishTruthful /\ QuietDevice

(* The calls and their arguments are numbers in their ranges. *)
LEMMA CallFacts ==
  ASSUME InCall
  PROVE  /\ call \in Calls /\ call.arg \in 0 .. 10 /\ call.img \in Images
         /\ call.op \in {"init", "weights", "input", "check", "read", "exit"}
         /\ Images = 1 .. Batch /\ Batch \in Nat \ {0}
BY DriverParameters DEF InCall, Calls, Images

(* The ping-pong: an operation reads what the one before it has written, the *)
(* first one what the input has, and the last one writes what is read.      *)
LEMMA PingPong ==
  /\ \A c \in Operations : Source(c) \in Activations /\ Target(c) \in Activations
  /\ \A c \in 1 .. 9 : Source(c + 1) = Target(c)
  /\ Source(1) = 2 /\ Target(10) = 1
BY DEF Operations, Activations, Source, Target

(* An image and an operation are content of a memory, and are not garbage. *)
LEMMA ContentFact ==
  ASSUME NEW i \in Images, NEW c \in 0 .. 10
  PROVE  <<i, c>> \in Content(Images) /\ <<i, c>> # Garbage /\ Garbage \in Content(Images)
BY DEF Content, Garbage, Images

(* An operation whose input and parameters are there makes its output.     *)
LEMMA OperateFact ==
  ASSUME NEW m \in [Activations -> Content(Images)], NEW c \in Operations,
         NEW i \in Images, m[Source(c)] = <<i, c - 1>>
  PROVE  /\ Operate(c, m, ParameterArrays) \in [Activations -> Content(Images)]
         /\ Operate(c, m, ParameterArrays)[Target(c)] = <<i, c>>
<1>1. c - 1 \in 0 .. 10 /\ c \in 0 .. 10
  BY DEF Operations
<1>2. ArraysNeeded(c) <= ParameterArrays
  BY DEF Operations, ArraysNeeded, ParameterArrays
<1>3. <<i, c - 1>> # Garbage /\ <<i, c>> \in Content(Images)
  BY <1>1, ContentFact
<1>4. Operate(c, m, ParameterArrays) = [m EXCEPT ![Target(c)] = <<i, c>>]
  BY <1>2, <1>3 DEF Operate
<1>5. QED
  BY <1>3, <1>4, PingPong

(* A step of the device alone. *)
LEMMA DeviceMoves ==
  ASSUME ProgramInv, InCall', UNCHANGED <<driverVars, counter, finished>>,
         execution_state[Peri] # "POWEROFF" => execution_state'[Peri] # "POWEROFF"
  PROVE  ProgramInv'
<1>1. UNCHANGED <<call, pc, left, mem, loaded, named, result>>
  BY DEF driverVars, progVars, chipVars
<1>2. (PlaceInCall /\ Transfer /\ OperationSet /\ NamedFirst /\ ParametersLoaded)'
  BY <1>1 DEF ProgramInv, PlaceInCall, Transfer, OperationSet, NamedFirst, ParametersLoaded
<1>3. (ImageInMemory /\ ResultsRead)'
  BY <1>1 DEF ProgramInv, ImageInMemory, ResultsRead, ResultsCorrect
<1>4. JobOfCall'
  BY <1>1 DEF ProgramInv, JobOfCall
<1>5. QED
  BY <1>2, <1>3, <1>4 DEF ProgramInv

(* periInit() writes the counter register. *)
LEMMA SetCounterStep ==
  ASSUME ProgramInv, DeviceInv, InCall', SetCounter
  PROVE  ProgramInv'
<1>1. /\ pc = "counter" /\ pc' = "command" /\ call.op = "init"
      /\ UNCHANGED <<call, left, mem, loaded, named, result>>
  BY DEF SetCounter, ProgramInv, PlaceInCall, chipVars
<1>2. counter'[Peri] = call.arg
  BY DriverParameters DEF SetCounter, WriteCounter, DeviceInv, TypeOK
<1>3. (PlaceInCall /\ Transfer /\ OperationSet /\ NamedFirst /\ ParametersLoaded)'
  BY <1>1, <1>2 DEF ProgramInv, PlaceInCall, Transfer, OperationSet, NamedFirst, ParametersLoaded
<1>4. (ImageInMemory /\ ResultsRead)'
  BY <1>1 DEF ProgramInv, ImageInMemory, ResultsRead, ResultsCorrect
<1>5. JobOfCall'
  BY <1>1 DEF ProgramInv, JobOfCall
<1>6. QED
  BY <1>3, <1>4, <1>5 DEF ProgramInv

(* A command is never discarded, and its operation finds what it needs. *)
LEMMA CommandStep ==
  ASSUME ProgramInv, DeviceInv, InCall', Command
  PROVE  ProgramInv'
<1>1. /\ pc = "command" /\ pc' = "spin" /\ call.op = "init"
      /\ UNCHANGED <<call, left, loaded, result>>
  BY DEF Command, ProgramInv, PlaceInCall
<1>2. counter[Peri] = call.arg
  BY <1>1 DEF ProgramInv, OperationSet
<1>3. ~DiscardRequest(Peri)
  BY <1>1 DEF DiscardRequest, CanAccept, DeviceInv, QuietDevice, Working
<1>4. PICK cycles \in RunCycles :
        /\ AcceptRequest(Peri, cycles)
        /\ named' = TRUE
        /\ mem' = IF counter[Peri] = 0 THEN mem ELSE Operate(counter[Peri], mem, loaded)
  BY <1>3 DEF Command
<1>5. execution_state'[Peri] = "ACTIVE" /\ finished'[Peri] = (call.arg = 10)
  BY <1>2, <1>4, DriverParameters DEF AcceptRequest, DeviceInv, TypeOK
<1>6. (PlaceInCall /\ Transfer /\ OperationSet /\ NamedFirst /\ ParametersLoaded)'
  BY <1>1, <1>4 DEF ProgramInv, PlaceInCall, Transfer, OperationSet, NamedFirst, ParametersLoaded
<1>7. ImageInMemory'
  <2>1. CASE call.arg = 0
    BY <1>1, <1>2, <1>4, <2>1 DEF ProgramInv, ImageInMemory, Operations
  <2>2. CASE call.arg # 0
    <3>1. call.arg \in Operations /\ call.img \in Images
      BY <2>2, CallFacts DEF Operations, ProgramInv
    <3>2. mem \in [Activations -> Content(Images)] /\ mem[Source(call.arg)] = <<call.img, call.arg - 1>>
      BY <1>1, <3>1 DEF ProgramInv, ImageInMemory
    <3>3. mem' = Operate(call.arg, mem, ParameterArrays)
      BY <1>1, <1>2, <1>4, <2>2 DEF ProgramInv, ParametersLoaded
    <3>4. mem' \in [Activations -> Content(Images)] /\ mem'[Target(call.arg)] = <<call.img, call.arg>>
      BY <3>1, <3>2, <3>3, OperateFact
    <3>5. QED
      BY <1>1, <3>4 DEF ImageInMemory
  <2>3. QED
    BY <2>1, <2>2
<1>8. ResultsRead'
  BY <1>1 DEF ProgramInv, ResultsRead, ResultsCorrect
<1>9. JobOfCall'
  BY <1>1, <1>5 DEF JobOfCall
<1>10. QED
  BY <1>6, <1>7, <1>8, <1>9 DEF ProgramInv

(* The end of a spin: periInit() returns, or memcpy() begins. *)
LEMMA SpinStep ==
  ASSUME ProgramInv, DeviceInv, InCall', Spin
  PROVE  ProgramInv'
<1>1. /\ pc = "spin" /\ call.op \in {"init", "weights", "input", "read"}
      /\ UNCHANGED <<mem, loaded, named, result, counter, finished, execution_state>>
      /\ named
  BY DEF Spin, ReadRegister, devVars, chipVars, ProgramInv, PlaceInCall, NamedFirst
<1>2. CASE UNCHANGED progVars
  BY <1>1, <1>2, DeviceMoves DEF driverVars, chipVars
<1>3. CASE Ready /\ call.op # "init" /\ pc' = "copy" /\ UNCHANGED call
            /\ left' = IF call.op = "read" THEN 1 ELSE CopyAccesses
  <2>1. (PlaceInCall /\ Transfer /\ OperationSet /\ NamedFirst /\ ParametersLoaded)'
    BY <1>1, <1>3, DriverParameters
    DEF ProgramInv, PlaceInCall, Transfer, OperationSet, NamedFirst, ParametersLoaded
  <2>2. (ImageInMemory /\ ResultsRead)'
    BY <1>1, <1>3 DEF ProgramInv, ImageInMemory, ResultsRead, ResultsCorrect
  <2>3. JobOfCall'
    BY <1>1, <1>3 DEF ProgramInv, JobOfCall
  <2>4. QED
    BY <2>1, <2>2, <2>3 DEF ProgramInv
<1>4. CASE call.op = "init" /\ Return
  <2>1. /\ call \in Calls /\ call.arg \in 0 .. 10 /\ call.img \in Images
        /\ call' = CallAfter(call) /\ pc' = Entry(call'.op) /\ left' = 0
    BY <1>4, CallFacts DEF ProgramInv, Return
  <2>2. CASE call.arg = 0
    <3>1. call' = [op |-> "weights", arg |-> 1, img |-> call.img] /\ pc' = "spin"
      BY <1>4, <2>1, <2>2, Successors DEF Entry
    <3>2. (PlaceInCall /\ Transfer /\ OperationSet /\ NamedFirst /\ ParametersLoaded)'
      BY <1>1, <1>4, <2>1, <2>2, <3>1, DriverParameters
      DEF ProgramInv, PlaceInCall, Transfer, OperationSet, NamedFirst, ParametersLoaded
    <3>3. (ImageInMemory /\ ResultsRead /\ JobOfCall)'
      BY <1>1, <1>4, <3>1 DEF ProgramInv, ImageInMemory, ResultsRead, ResultsCorrect, JobOfCall
    <3>4. QED
      BY <3>2, <3>3 DEF ProgramInv
  <2>3. CASE call.arg \in 1 .. 9
    <3>1. call' = [op |-> "init", arg |-> call.arg + 1, img |-> call.img] /\ pc' = "counter"
      BY <1>4, <2>1, <2>3, Successors DEF Entry
    <3>2. (PlaceInCall /\ Transfer /\ OperationSet /\ NamedFirst /\ ParametersLoaded)'
      BY <1>1, <1>4, <2>1, <2>3, <3>1, DriverParameters
      DEF ProgramInv, PlaceInCall, Transfer, OperationSet, NamedFirst, ParametersLoaded
    <3>3. mem[Source(call.arg + 1)] = <<call.img, call.arg>>
      BY <1>1, <1>4, <2>3, PingPong DEF ProgramInv, ImageInMemory, Operations
    <3>4. ImageInMemory'
      BY <1>1, <2>3, <3>1, <3>3 DEF ProgramInv, ImageInMemory
    <3>5. (ResultsRead /\ JobOfCall)'
      BY <1>1, <1>4, <3>1 DEF ProgramInv, ResultsRead, ResultsCorrect, JobOfCall
    <3>6. QED
      BY <3>2, <3>4, <3>5 DEF ProgramInv
  <2>4. CASE call.arg = 10
    <3>1. call' = [op |-> "check", arg |-> 0, img |-> call.img] /\ pc' = "check"
      BY <1>4, <2>1, <2>4, Successors DEF Entry
    <3>2. (PlaceInCall /\ Transfer /\ OperationSet /\ NamedFirst /\ ParametersLoaded)'
      BY <1>1, <1>4, <2>1, <2>4, <3>1, DriverParameters
      DEF ProgramInv, PlaceInCall, Transfer, OperationSet, NamedFirst, ParametersLoaded
    <3>3. mem[1] = <<call.img, 10>>
      BY <1>1, <1>4, <2>4, PingPong DEF ProgramInv, ImageInMemory, Operations
    <3>4. (ImageInMemory /\ ResultsRead)'
      BY <1>1, <1>4, <3>1, <3>3 DEF ProgramInv, ImageInMemory, ResultsRead, ResultsCorrect
    <3>5. JobOfCall'
      BY <1>1, <1>4, <2>4, <3>1 DEF ProgramInv, JobOfCall
    <3>6. QED
      BY <3>2, <3>4, <3>5 DEF ProgramInv
  <2>5. QED
    BY <2>1, <2>2, <2>3, <2>4
<1>5. QED
  BY <1>2, <1>3, <1>4 DEF Spin

(* The last access of a memcpy() ends a call, the others do not.  The input *)
(* is complete with the last one.                                           *)
LEMMA CopyStep ==
  ASSUME ProgramInv, DeviceInv, InCall', Copy
  PROVE  ProgramInv'
<1> DEFINE input == IF left = 1 THEN <<call.img, 0>> ELSE Garbage
<1>1. /\ pc = "copy" /\ call.op \in {"weights", "input", "read"}
      /\ UNCHANGED <<named, counter, finished, execution_state>>
      /\ named /\ left \in 1 .. CopyAccesses
  BY DEF Copy, TransferData, devVars, ProgramInv, PlaceInCall, NamedFirst, Transfer
<1>2. /\ call \in Calls /\ call.arg \in 0 .. 10 /\ call.img \in Images
      /\ Images = 1 .. Batch /\ Batch \in Nat \ {0}
  BY CallFacts DEF ProgramInv
<1>3. /\ mem \in [Activations -> Content(Images)]
      /\ result \in [Images -> Content(Images)]
  BY DEF ProgramInv, ImageInMemory, ResultsRead
<1>4. CASE left # 1
  <2>1. /\ UNCHANGED <<call, pc, loaded>> /\ left' = left - 1
        /\ call.op # "read" /\ UNCHANGED result
    BY <1>1, <1>4 DEF Copy, ProgramInv, Transfer
  <2>2. (PlaceInCall /\ Transfer /\ OperationSet /\ NamedFirst /\ ParametersLoaded)'
    BY <1>1, <1>4, <2>1, DriverParameters
    DEF ProgramInv, PlaceInCall, Transfer, OperationSet, NamedFirst, ParametersLoaded
  <2>3. mem' \in [Activations -> Content(Images)]
    <3>1. Garbage \in Content(Images)
      BY DEF Content
    <3>2. QED
      BY <1>3, <1>4, <3>1 DEF Copy
  <2>4. ImageInMemory'
    BY <1>1, <2>1, <2>3 DEF ImageInMemory
  <2>5. (ResultsRead /\ JobOfCall)'
    BY <1>1, <2>1 DEF ProgramInv, ResultsRead, ResultsCorrect, JobOfCall
  <2>6. QED
    BY <2>2, <2>4, <2>5 DEF ProgramInv
<1>5. CASE left = 1
  <2>1. call' = CallAfter(call) /\ pc' = Entry(call'.op) /\ left' = 0
    BY <1>5 DEF Copy, Return
  <2>2. CASE call.op = "weights"
    <3>1. call.arg \in 1 .. ParameterArrays
      BY <2>2 DEF ProgramInv, InCall
    <3>2. /\ loaded' = call.arg /\ UNCHANGED <<mem, result>>
      BY <1>5, <2>2 DEF Copy
    <3>3. \/ /\ call.arg < ParameterArrays
             /\ call' = [op |-> "weights", arg |-> call.arg + 1, img |-> call.img]
          \/ /\ call.arg = ParameterArrays
             /\ call' = [op |-> "input", arg |-> 0, img |-> call.img]
      BY <1>2, <2>1, <2>2, <3>1, Successors DEF ParameterArrays
    <3>4. pc' = "spin" /\ call'.op \in {"weights", "input"} /\ call'.img = call.img
      BY <2>1, <3>3 DEF Entry
    <3>5. (PlaceInCall /\ Transfer /\ OperationSet /\ NamedFirst)'
      BY <1>1, <2>1, <3>4, DriverParameters
      DEF ProgramInv, PlaceInCall, Transfer, OperationSet, NamedFirst
    <3>6. ParametersLoaded'
      BY <1>2, <3>2, <3>3 DEF ParametersLoaded
    <3>7. (ImageInMemory /\ ResultsRead /\ JobOfCall)'
      BY <2>2, <3>2, <3>4 DEF ProgramInv, ImageInMemory, ResultsRead, ResultsCorrect, JobOfCall
    <3>8. QED
      BY <3>5, <3>6, <3>7 DEF ProgramInv
  <2>3. CASE call.op = "input"
    <3>1. call' = [op |-> "init", arg |-> 1, img |-> call.img] /\ pc' = "counter"
      BY <1>2, <2>1, <2>3, Successors DEF Entry
    <3>2. /\ UNCHANGED <<loaded, result>> /\ mem' = [mem EXCEPT ![2] = <<call.img, 0>>]
      BY <1>5, <2>3 DEF Copy
    <3>3. (PlaceInCall /\ Transfer /\ OperationSet /\ NamedFirst /\ ParametersLoaded)'
      BY <1>1, <2>1, <2>3, <3>1, <3>2, DriverParameters
      DEF ProgramInv, PlaceInCall, Transfer, OperationSet, NamedFirst, ParametersLoaded
    <3>4. mem' \in [Activations -> Content(Images)] /\ mem'[Source(1)] = <<call.img, 0>>
      <4>1. <<call.img, 0>> \in Content(Images)
        <5>1. 0 \in 0 .. 10
          OBVIOUS
        <5>2. QED
          BY <1>2, <5>1, ContentFact
      <4>2. 2 \in Activations
        BY DEF Activations
      <4>3. QED
        BY <1>3, <3>2, <4>1, <4>2, PingPong
    <3>5. ImageInMemory'
      BY <3>1, <3>4 DEF ImageInMemory
    <3>6. (ResultsRead /\ JobOfCall)'
      BY <2>3, <3>1, <3>2 DEF ProgramInv, ResultsRead, ResultsCorrect, JobOfCall
    <3>7. QED
      BY <3>3, <3>5, <3>6 DEF ProgramInv
  <2>4. CASE call.op = "read"
    <3>1. \/ /\ call.img < Batch
             /\ call' = [op |-> "input", arg |-> 0, img |-> call.img + 1]
             /\ pc' = "spin"
          \/ /\ call.img = Batch
             /\ call' = [op |-> "exit", arg |-> 0, img |-> call.img]
             /\ pc' = "exited"
      BY <1>2, <2>1, <2>4, Successors DEF Entry
    <3>2. /\ UNCHANGED <<loaded, mem>> /\ result' = [result EXCEPT ![call.img] = mem[1]]
      BY <2>4 DEF Copy
    <3>3. (PlaceInCall /\ Transfer /\ OperationSet /\ NamedFirst /\ ParametersLoaded)'
      BY <1>1, <2>1, <2>4, <3>1, <3>2, DriverParameters
      DEF ProgramInv, PlaceInCall, Transfer, OperationSet, NamedFirst, ParametersLoaded
    <3>4. (ImageInMemory /\ JobOfCall)'
      BY <2>4, <3>1, <3>2 DEF ProgramInv, ImageInMemory, JobOfCall
    <3>5. mem[1] = <<call.img, 10>> /\ mem[1] \in Content(Images)
      BY <1>3, <2>4 DEF ProgramInv, ImageInMemory, Activations
    <3>6. result' \in [Images -> Content(Images)]
      BY <1>3, <3>2, <3>5
    <3>7. ASSUME NEW i \in Images,
                 i < call'.img \/ (i = call'.img /\ call'.op = "exit")
          PROVE  result'[i] = <<i, 10>>
      <4>1. CASE i = call.img
        BY <1>2, <1>3, <3>2, <3>5, <4>1
      <4>2. CASE i # call.img
        <5>1. i < call.img
          BY <1>2, <3>1, <3>7, <4>2
        <5>2. QED
          BY <1>3, <3>2, <4>2, <5>1 DEF ProgramInv, ResultsRead, ResultsCorrect
      <4>3. QED
        BY <4>1, <4>2
    <3>8. ResultsRead'
      BY <3>6, <3>7 DEF ResultsRead, ResultsCorrect
    <3>9. QED
      BY <3>3, <3>4, <3>8 DEF ProgramInv
  <2>5. QED
    BY <1>1, <2>2, <2>3, <2>4
<1>6. QED
  BY <1>4, <1>5

(* The assertion leads to the read. *)
LEMMA CheckStep ==
  ASSUME ProgramInv, DeviceInv, InCall', Check
  PROVE  ProgramInv'
<1>1. /\ pc = "check" /\ call.op = "check" /\ named
      /\ UNCHANGED <<mem, loaded, named, result, counter>>
  BY DEF Check, chipVars, ReadRegister, devVars, ProgramInv, PlaceInCall, NamedFirst
<1>2. call' = CallAfter(call) /\ pc' = Entry(call'.op) /\ left' = 0
  BY DEF Check, Return
<1>3. call' = [op |-> "read", arg |-> 0, img |-> call.img] /\ pc' = "spin"
  BY <1>1, <1>2, CallFacts, Successors DEF Entry, ProgramInv
<1>4. (PlaceInCall /\ Transfer /\ OperationSet /\ NamedFirst /\ ParametersLoaded)'
  BY <1>1, <1>2, <1>3, DriverParameters
  DEF ProgramInv, PlaceInCall, Transfer, OperationSet, NamedFirst, ParametersLoaded
<1>5. (ImageInMemory /\ ResultsRead /\ JobOfCall)'
  BY <1>1, <1>3 DEF ProgramInv, ImageInMemory, ResultsRead, ResultsCorrect, JobOfCall
<1>6. QED
  BY <1>4, <1>5 DEF ProgramInv

(* The program keeps its side under every step of device, CPU and script. *)
LEMMA ProgramStepInv ==
  ASSUME ProgramInv, DeviceInv, [DriverNext]_allVars
  PROVE  ProgramInv'
<1>1. InCall'
  BY StaysInCall DEF ProgramInv
<1>2. CASE ProgramStep
  BY <1>1, <1>2, SetCounterStep, CommandStep, SpinStep, CopyStep, CheckStep DEF ProgramStep
<1>3. CASE Local \/ Script \/ UNCHANGED allVars
  <2>1. UNCHANGED <<driverVars, counter, finished, execution_state>>
    BY <1>3 DEF Local, ExecuteLocal, Script, DrainStep, DrainAtOnce, RequestDrain,
       DrainResume, devVars, allVars, vars
  <2>2. QED
    BY <1>1, <2>1, DeviceMoves
<1>4. CASE Interrupt
  <2>1. PICK d \in Dev : TriggerInterrupt(d)
    BY <1>4 DEF Interrupt
  <2>2. UNCHANGED <<driverVars, counter, finished>>
    BY <1>4, <2>1 DEF Interrupt, TriggerInterrupt
  <2>3. execution_state[Peri] # "POWEROFF" => execution_state'[Peri] # "POWEROFF"
    BY <2>1, DriverParameters DEF TriggerInterrupt, DeviceInv, TypeOK
  <2>4. QED
    BY <1>1, <2>2, <2>3, DeviceMoves
<1>5. QED
  BY <1>2, <1>3, <1>4 DEF DriverNext

(* main() starts with nothing loaded and no image. *)
LEMMA ProgramInvInit ==
  ASSUME DriverInit
  PROVE  ProgramInv
<1>1. InCall
  BY InitInCall
<1>2. PlaceInCall /\ Transfer /\ OperationSet /\ NamedFirst /\ ParametersLoaded
  <2>1. call.op = "init" /\ call.arg = 0 /\ pc = "counter"
    BY DEF DriverInit
  <2>2. PlaceInCall /\ OperationSet
    BY <2>1 DEF PlaceInCall, OperationSet
  <2>3. Transfer
    BY <2>1, DriverParameters DEF DriverInit, Transfer
  <2>4. NamedFirst /\ ParametersLoaded
    BY <2>1 DEF DriverInit, NamedFirst, ParametersLoaded
  <2>5. QED
    BY <2>2, <2>3, <2>4
<1>3. Garbage \in Content(Images)
  BY DEF Content
<1>4. ImageInMemory /\ JobOfCall
  BY <1>3 DEF DriverInit, ImageInMemory, JobOfCall, Operations
<1>5. \A i \in Images : ~(i < 1)
  BY DriverParameters DEF Images
<1>6. ResultsRead
  BY <1>3, <1>5 DEF DriverInit, ResultsRead, ResultsCorrect
<1>7. QED
  BY <1>1, <1>2, <1>4, <1>6 DEF ProgramInv

(* Program and device together: the device is what module VirtualDevice     *)
(* proves of it, and never working when the program does not spin.          *)
LEMMA ProgramInvariant == DriverSpec => [](ProgramInv /\ DeviceInv)
<1>1. DriverSpec => []DeviceInv
  BY DriverImplementsDevice, TypeCorrect, Consistent, FinishIsTruthful, DeviceIsQuiet, PTL
  DEF DeviceInv
<1>2. QED
  BY <1>1, ProgramInvInit, ProgramStepInv, PTL DEF DriverSpec

(* The program's variables, and those of the device under it, keep their   *)
(* types: in particular the memories hold images or garbage.               *)
THEOREM DriverTypeCorrect == DriverSpec => []DriverTypeOK
<1>1. ProgramInv /\ DeviceInv => DriverTypeOK
  <2> SUFFICES ASSUME ProgramInv, DeviceInv
               PROVE  DriverTypeOK
    OBVIOUS
  <2>1. TypeOK /\ call \in Calls /\ pc \in {"counter", "command", "spin", "copy", "check", "exited"}
    BY DEF ProgramInv, DeviceInv, InCall
  <2>2. left \in 0 .. CopyAccesses /\ named \in BOOLEAN
    BY DEF ProgramInv, Transfer, NamedFirst
  <2>3. loaded \in 0 .. ParameterArrays
    BY DEF ProgramInv, ParametersLoaded, InCall, ParameterArrays
  <2>4. mem \in [Activations -> Content(Images)] /\ result \in [Images -> Content(Images)]
    BY DEF ProgramInv, ImageInMemory, ResultsRead
  <2>5. QED
    BY <2>1, <2>2, <2>3, <2>4 DEF DriverTypeOK
<1>2. QED
  BY <1>1, ProgramInvariant, PTL

(* Every label the program has read is the label of its image: each         *)
(* operation has found its parameters and the output of the one before it,  *)
(* for any batch, any timing of the device and any drains.                  *)
THEOREM ResultsAreCorrect == DriverSpec => []ResultsCorrect
<1>1. ProgramInv => ResultsCorrect
  BY DEF ProgramInv, ResultsRead
<1>2. QED
  BY <1>1, ProgramInvariant, PTL

(* The assertion of main() never fails, as the job before it is the output  *)
(* operation and has ended; and op_init comes before every other operation. *)
THEOREM ProgramIsSafe == DriverSpec => []ProgramSafe
<1>1. ProgramInv /\ DeviceInv => ProgramSafe
  <2> SUFFICES ASSUME ProgramInv, DeviceInv
               PROVE  ProgramSafe
    OBVIOUS
  <2>1. ASSUME pc = "check"
        PROVE  "FINISH" \in pmem[Peri]
    <3>1. call.op = "check"
      BY <2>1 DEF ProgramInv, PlaceInCall
    <3>2. execution_state[Peri] # "POWEROFF" /\ finished[Peri]
      BY <3>1 DEF ProgramInv, JobOfCall
    <3>3. execution_state[Peri] # "ACTIVE"
      BY <2>1, DriverParameters DEF DeviceInv, QuietDevice, WorkingConsistent
    <3>4. execution_state[Peri] = "IDLE"
      BY <3>2, <3>3, DriverParameters DEF DeviceInv, TypeOK
    <3>5. QED
      BY <3>2, <3>4, DriverParameters DEF DeviceInv, FinishTruthful
  <2>2. ASSUME pc = "command", counter[Peri] # 0
        PROVE  named
    BY <2>2 DEF ProgramInv, OperationSet, NamedFirst
  <2>3. QED
    BY <2>1, <2>2 DEF ProgramSafe
<1>2. QED
  BY <1>1, ProgramInvariant, PTL
=============================================================================
