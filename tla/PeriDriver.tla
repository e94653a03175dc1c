----------------------------- MODULE PeriDriver -----------------------------
(***************************************************************************)
(* The program of the repository that uses the virtual device              *)
(* (tests/test-progs/simplecnn: main.c through peripheral.c), running on   *)
(* the CPU of module VirtualDevice, and the contents of the accelerator's  *)
(* memories (module AIChip).                                               *)
(*                                                                         *)
(* Each step is one instruction that touches the device, or a local one;   *)
(* what is between two device accesses is a number of local instructions.  *)
(***************************************************************************)
EXTENDS VirtualDevice, AIChip

CONSTANTS
  Peri,          (* the device at PERI_ADDR[0]                              *)
  Batch,         (* BATCH: images to classify                               *)
  CopyAccesses   (* device accesses of one memcpy to a data window          *)

ASSUME DriverParameters ==
  /\ Peri \in Dev
  /\ Batch \in Nat \ {0}
  /\ CopyAccesses \in Nat \ {0}
  /\ Counters = 0 .. 10
  /\ OutputCounter = 10

VARIABLES
  call,     (* the library call main() is in: operation, argument, image    *)
  pc,       (* where in that call the program is                            *)
  left,     (* accesses the memcpy in progress still makes                  *)
  mem,      (* contents of the two activation memories                      *)
  loaded,   (* parameter arrays in weight_and_bias_mem                      *)
  named,    (* op_init has registered the named memories                    *)
  result    (* finalresult[]                                                *)

progVars == <<call, pc, left>>
chipVars == <<mem, loaded, named>>
driverVars == <<progVars, chipVars, result>>
allVars == <<vars, driverVars>>

Images == 1 .. Batch
Calls == [op : {"init", "weights", "input", "check", "read", "exit"},
          arg : 0 .. 10, img : Images]

DriverTypeOK ==
  /\ TypeOK
  /\ call \in Calls
  /\ pc \in {"counter", "command", "spin", "copy", "check", "exited"}
  /\ left \in 0 .. CopyAccesses
  /\ mem \in [Activations -> Content(Images)]
  /\ loaded \in 0 .. ParameterArrays
  /\ named \in BOOLEAN
  /\ result \in [Images -> Content(Images)]

DriverInit ==
  /\ Init
  /\ call = [op |-> "init", arg |-> 0, img |-> 1]
  /\ pc = "counter"
  /\ left = 0
  /\ mem = [m \in Activations |-> Garbage]
  /\ loaded = 0
  /\ named = FALSE
  /\ result = [i \in Images |-> Garbage]

-----------------------------------------------------------------------------
(* main() *)

(* The call main() makes after the call c. *)
CallAfter(c) ==
  LET then(op, arg, img) == [op |-> op, arg |-> arg, img |-> img]
  IN  CASE c.op = "init" /\ c.arg = 0 -> then("weights", 1, c.img)
        [] c.op = "weights" /\ c.arg < ParameterArrays -> then("weights", c.arg + 1, c.img)
        [] c.op = "weights" /\ c.arg = ParameterArrays -> then("input", 0, c.img)
        [] c.op = "input" -> then("init", 1, c.img)
        [] c.op = "init" /\ c.arg \in 1 .. 9 -> then("init", c.arg + 1, c.img)
        [] c.op = "init" /\ c.arg = 10 -> then("check", 0, c.img)
        [] c.op = "check" -> then("read", 0, c.img)
        [] c.op = "read" /\ c.img < Batch -> then("input", 0, c.img + 1)
        [] c.op = "read" /\ c.img = Batch -> then("exit", 0, c.img)

(* Where each library call starts. *)
Entry(op) ==
  CASE op = "init" -> "counter"
    [] op \in {"weights", "input", "read"} -> "spin"
    [] op = "check" -> "check"
    [] op = "exit" -> "exited"

Return ==
  /\ call' = CallAfter(call)
  /\ pc' = Entry(CallAfter(call).op)
  /\ left' = 0

-----------------------------------------------------------------------------
(* periInit, periWrite, periRead, periIsFinished *)

Local ==
  /\ pc # "exited"
  /\ ExecuteLocal
  /\ UNCHANGED driverVars

(* *(cmd_reg + 1) = counter *)
SetCounter ==
  /\ pc = "counter"
  /\ WriteCounter(Peri, call.arg)
  /\ pc' = "command"
  /\ UNCHANGED <<call, left, chipVars, result>>

(* *cmd_reg = VDEV_INIT: the chip computes while the store executes.  An    *)
(* operation before op_init looks up a memory that does not exist, and the  *)
(* simulator stops with std::out_of_range.                                  *)
Command ==
  /\ pc = "command"
  /\ pc' = "spin"
  /\ UNCHANGED <<call, left, loaded, result>>
  /\ \/ DiscardRequest(Peri) /\ UNCHANGED <<mem, named>>
     \/ /\ \E cycles \in RunCycles : AcceptRequest(Peri, cycles)
        /\ counter[Peri] # 0 => named
        /\ named' = TRUE
        /\ mem' = IF counter[Peri] = 0 THEN mem
                  ELSE Operate(counter[Peri], mem, loaded)

(* Mutant: any flag ends the loop. *)
Ready_AnyFlag == pmem[Peri] # {}

Ready == "READY" \in pmem[Peri]

(* while (!( *cmd_reg & VDEV_READY)) ; ends periInit and precedes memcpy. *)
Spin ==
  /\ pc = "spin"
  /\ ReadRegister(Peri)
  /\ UNCHANGED <<chipVars, result>>
  /\ \/ ~Ready /\ UNCHANGED progVars
     \/ Ready /\ call.op = "init" /\ Return
     \/ /\ Ready /\ call.op # "init"
        /\ pc' = "copy"
        /\ left' = IF call.op = "read" THEN 1 ELSE CopyAccesses
        /\ UNCHANGED call

(* One access of the memcpy.  An image that is only partly there is no      *)
(* input; the read takes the label from the first byte of activation_mem1.  *)
Copy ==
  /\ pc = "copy"
  /\ \E first \in PacketSizes \cup {0}, last \in PacketSizes :
       TransferData(Peri, first, last)
  /\ mem' = IF call.op = "input"
            THEN [mem EXCEPT ![2] = IF left = 1 THEN <<call.img, 0>> ELSE Garbage]
            ELSE mem
  /\ loaded' = IF call.op = "weights" /\ left = 1 THEN call.arg ELSE loaded
  /\ result' = IF call.op = "read" THEN [result EXCEPT ![call.img] = mem[1]] ELSE result
  /\ IF left = 1 THEN Return ELSE left' = left - 1 /\ UNCHANGED <<call, pc>>
  /\ UNCHANGED named

(* assert(periIsFinished(data)) *)
Check ==
  /\ pc = "check"
  /\ ReadRegister(Peri)
  /\ "FINISH" \in pmem[Peri]
  /\ Return
  /\ UNCHANGED <<chipVars, result>>

ProgramStep == SetCounter \/ Command \/ Spin \/ Copy \/ Check

(* The simulation ends with the program. *)
Interrupt ==
  /\ pc # "exited"
  /\ \E d \in Dev : TriggerInterrupt(d)
  /\ UNCHANGED driverVars

Script ==
  /\ pc # "exited"
  /\ DrainStep
  /\ UNCHANGED driverVars

DriverNext == Local \/ ProgramStep \/ Interrupt \/ Script

DriverSpec == DriverInit /\ [][DriverNext]_allVars

(* The event loop and the script go on (FairSpec of VirtualDevice), and     *)
(* between two accesses to the device the program executes finitely many    *)
(* local instructions, however often the simulator is drained meanwhile.    *)
DriverFairSpec ==
  /\ DriverSpec
  /\ WF_allVars(Local \/ ProgramStep \/ Interrupt)
  /\ WF_allVars(Script /\ drain = "signalled")
  /\ SF_allVars(ProgramStep)

-----------------------------------------------------------------------------
(* Outside its own spin loops the program never meets a working device: no  *)
(* request is discarded, no data window is read or written during a job.    *)
(* (A discarded request would silently skip an operation.)                  *)
QuietDevice == pc # "spin" => ~Working(Peri)

(* Every operation finds its memories registered, its parameters loaded and *)
(* in its source memory the output of the operation before it for the same  *)
(* image, over the ping-pong of the two activation memories and across      *)
(* images: what the program reads back is the label of that image.          *)
ResultsCorrect ==
  \A i \in Images :
    (i < call.img \/ (i = call.img /\ call.op = "exit")) => result[i] = <<i, 10>>

(* The assertion of main() holds, and the names an operation looks up exist. *)
ProgramSafe ==
  /\ pc = "check" => "FINISH" \in pmem[Peri]
  /\ pc = "command" /\ counter[Peri] # 0 => named

(* The program ends. *)
Terminates == <>(pc = "exited")
=============================================================================
