----------------------------- MODULE EnergyMgmt -----------------------------
(* The energy subsystem of gem5-NVP (src/engy): a state machine watches the *)
(* remaining energy, and EnergyMgmt queues the messages about its changes   *)
(* and broadcasts them, one per event, to the objects on its energy port.   *)
(*                                                                          *)
(* update() is called by an environment that passes any level: in this      *)
(* commit EnergyMgmt::init() is its only caller, consumeEnergy() has the     *)
(* call commented out.                                                      *)
EXTENDS Integers, Sequences

CONSTANTS
  Objects,     \* SimObjects with a slave energy port
  Machines,    \* classes of state machines, a subset of MachineKinds
  Energies,    \* the levels update() may be called with
  Consumptions,\* the amounts consumeEnergy() may be called with
  Thres,       \* thresholds of the machines, a record named as in the code
  MaxConsumed, \* bound on the energy consumed between two updates
  MaxPending   \* bound on the changes waiting to be broadcast

MachineKinds == {"Simple", "TwoThres", "DVFS", "DFS_LRY"}

ThresNames ==
  {"thres_low", "thres_high", "thres_off_low", "thres_low_mid", "thres_mid_high",
   "thres_5_to_4", "thres_4_to_3", "thres_3_to_2", "thres_2_to_1",
   "thres_1_to_retention", "thres_retention_to_off", "thres_off_to_1",
   "thres_retention_to_1", "thres_1_to_2", "thres_2_to_3", "thres_3_to_4",
   "thres_4_to_5"}

ASSUME EnergyParameters ==
  /\ Machines \subseteq MachineKinds
  /\ Energies \subseteq Int /\ Consumptions \subseteq Nat
  /\ Thres \in [ThresNames -> Int]
  /\ MaxConsumed \in Nat /\ MaxPending \in Nat

(* What the machines need of their thresholds, and the program does not      *)
(* check: they are in the order of their names, and a level of the DFS       *)
(* machine is entered from above at or below where it is left upwards.       *)
ASSUME Hysteresis ==
  /\ Thres.thres_low <= Thres.thres_high
  /\ Thres.thres_off_low <= Thres.thres_low_mid
  /\ Thres.thres_low_mid <= Thres.thres_mid_high
  /\ Thres.thres_1_to_retention <= Thres.thres_retention_to_1
  /\ Thres.thres_1_to_retention <= Thres.thres_off_to_1
  /\ Thres.thres_retention_to_off <= Thres.thres_off_to_1
  /\ Thres.thres_retention_to_off <= Thres.thres_retention_to_1
  /\ Thres.thres_2_to_1 <= Thres.thres_1_to_2
  /\ Thres.thres_3_to_2 <= Thres.thres_2_to_3
  /\ Thres.thres_4_to_3 <= Thres.thres_3_to_4
  /\ Thres.thres_5_to_4 <= Thres.thres_4_to_5

VARIABLES
  machine,     \* the class of BaseEnergySM::state_machine
  state,       \* its state
  msg_togo,    \* the queue of EnergyMgmt
  event_msg,   \* is the broadcast event in the event queue (for this tick)?
  bound,       \* the objects connected to the master energy port
  told,        \* history: the state each object was last told of
  tick,        \* parity of the clock
  energy,      \* history: the last level passed to update()
  remained     \* history: what the objects have left of that level

manager == <<msg_togo, event_msg>>
vars == <<machine, state, msg_togo, event_msg, bound, told, tick, energy,
          remained>>

-----------------------------------------------------------------------------
(* The state machines. A transition leaves one of the states "from" when     *)
(* the energy lies strictly between two bounds.                             *)

States(m) ==
  CASE m \in {"Simple", "TwoThres"} -> {"OFF", "ON"}
    [] m = "DVFS" -> {"OFF", "LOW", "MIDDLE", "HIGH"}
    [] m = "DFS_LRY" -> {"OFF", "RETENTION", "FREQ1", "FREQ2", "FREQ3", "FREQ4", "FREQ5"}

Below(from, e, limit, to) == [from |-> {from}, open |-> e < limit, to |-> to]
Above(from, e, limit, to) == [from |-> {from}, open |-> e > limit, to |-> to]
Enter(to, open) == [from |-> States("DVFS") \ {to}, open |-> open, to |-> to]

(* The else-if chains of update(), in their order.                           *)
SimpleTransitions(e) ==
  <<Below("ON", e, 0, "OFF"), Above("OFF", e, 0, "ON")>>

TwoThresTransitions(e) ==
  <<Below("ON", e, Thres.thres_low, "OFF"), Above("OFF", e, Thres.thres_high, "ON")>>

DVFSTransitions(e) ==
  <<Enter("OFF", e < Thres.thres_off_low),
    Enter("LOW", e > Thres.thres_off_low /\ e < Thres.thres_low_mid),
    Enter("MIDDLE", e > Thres.thres_low_mid /\ e < Thres.thres_mid_high),
    Enter("HIGH", e > Thres.thres_mid_high)>>

(* Mutant: retention ends above the threshold that powers off.               *)
DFSTransitions_RetentionEnd(e) ==
  <<Above("FREQ1", e, Thres.thres_1_to_2, "FREQ2"),
    Below("FREQ1", e, Thres.thres_1_to_retention, "RETENTION"),
    Above("RETENTION", e, Thres.thres_retention_to_off, "FREQ1"),
    Above("OFF", e, Thres.thres_off_to_1, "FREQ1"),
    Below("RETENTION", e, Thres.thres_retention_to_off, "OFF")>>

DFSTransitions(e) ==
  <<Below("FREQ5", e, Thres.thres_5_to_4, "FREQ4"),
    Below("FREQ4", e, Thres.thres_4_to_3, "FREQ3"),
    Below("FREQ3", e, Thres.thres_3_to_2, "FREQ2"),
    Below("FREQ2", e, Thres.thres_2_to_1, "FREQ1"),
    Above("FREQ4", e, Thres.thres_4_to_5, "FREQ5"),
    Above("FREQ3", e, Thres.thres_3_to_4, "FREQ4"),
    Above("FREQ2", e, Thres.thres_2_to_3, "FREQ3"),
    Above("FREQ1", e, Thres.thres_1_to_2, "FREQ2"),
    Below("FREQ1", e, Thres.thres_1_to_retention, "RETENTION"),
    Above("RETENTION", e, Thres.thres_retention_to_1, "FREQ1"),
    Above("OFF", e, Thres.thres_off_to_1, "FREQ1"),
    Below("RETENTION", e, Thres.thres_retention_to_off, "OFF")>>

Transitions(m, e) ==
  CASE m = "Simple" -> SimpleTransitions(e)
    [] m = "TwoThres" -> TwoThresTransitions(e)
    [] m = "DVFS" -> DVFSTransitions(e)
    [] m = "DFS_LRY" -> DFSTransitions(e)

(* The state after update(e): by the first transition that applies, if any.  *)
After(m, s, e) ==
  LET ts == Transitions(m, e)
      applies(i) == s \in ts[i].from /\ ts[i].open
      first(i) == applies(i) /\ \A j \in 1 .. i - 1 : ~applies(j)
  IN  IF \E i \in DOMAIN ts : first(i)
        THEN ts[CHOOSE i \in DOMAIN ts : first(i)].to
        ELSE s

-----------------------------------------------------------------------------
(* EnergyMgmt::broadcastMsgAsEvent(). A message says what changed: those of  *)
(* DFS_LRY name both states (FREQ5to4), those of the others only the new     *)
(* one. The event is scheduled for the current tick when the queue was empty.*)
Message(from, to) == [from |-> from, to |-> to]

(* Mutant: the queue of one message before msg_togo became a vector.        *)
BroadcastMsgAsEvent_Replace(msg) ==
  /\ msg_togo' = <<msg>>
  /\ event_msg' = TRUE

BroadcastMsgAsEvent(msg) ==
  /\ msg_togo' = Append(msg_togo, msg)
  /\ event_msg' = IF Len(msg_togo) = 0 THEN TRUE ELSE event_msg

(* After the init() of EnergyMgmt and then of its child, the state machine.  *)
(* The update(100) of the former meets STATE_INIT and sends nothing; the     *)
(* latter then decides the state and, but for SimpleEnergySM, broadcasts     *)
(* POWEROFF to objects that run.                                            *)
Init ==
  /\ machine \in Machines
  /\ bound \in SUBSET Objects
  /\ \/ /\ machine = "Simple"
        /\ state = "ON"
        /\ msg_togo = <<>> /\ event_msg = FALSE
     \/ /\ machine # "Simple"
        /\ state = "OFF"
        /\ msg_togo = <<Message("ON", "OFF")>> /\ event_msg = TRUE
  /\ told = [o \in Objects |-> "ON"]
  /\ tick = 0
  /\ energy = 100
  /\ remained = 100

(* state_machine->update(e).                                                *)
Update(e) ==
  /\ Len(msg_togo) < MaxPending
  /\ state' = After(machine, state, e)
  /\ energy' = e /\ remained' = e
  /\ IF state' = state
       THEN UNCHANGED manager
       ELSE BroadcastMsgAsEvent(Message(state, state'))
  /\ UNCHANGED <<machine, bound, told, tick>>

(* EnergyObject::consumeEnergy(val) of o: its message reaches                *)
(* EnergyMgmt::consumeEnergy() if o is connected, which returns 1 and leaves *)
(* the state machine alone.                                                  *)
ConsumeEnergy(o, val) ==
  /\ energy - (remained - val) <= MaxConsumed
  /\ remained' = IF o \in bound THEN remained - val ELSE remained
  /\ UNCHANGED <<machine, state, msg_togo, event_msg, bound, told, tick, energy>>

(* Mutant: the event is not scheduled again for what is still queued.        *)
EventAfter_Once(rest) == FALSE

(* Mutant: the event is scheduled again without looking at the queue.        *)
EventAfter_Always(rest) == TRUE

EventAfter(rest) == rest # <<>>

(* EnergyMgmt::broadcastMsg(), the event: every connected object gets the    *)
(* first message.                                                           *)
BroadcastMsg ==
  /\ event_msg
  /\ msg_togo # <<>>
  /\ told' = [o \in Objects |-> IF o \in bound THEN Head(msg_togo).to ELSE told[o]]
  /\ msg_togo' = Tail(msg_togo)
  /\ event_msg' = EventAfter(Tail(msg_togo))
  /\ UNCHANGED <<machine, state, bound, tick, energy, remained>>

(* Time goes on once no event of this tick is left.                          *)
PassTime ==
  /\ ~event_msg
  /\ tick' = 1 - tick
  /\ UNCHANGED <<machine, state, msg_togo, event_msg, bound, told, energy, remained>>

Next ==
  \/ \E e \in Energies : Update(e)
  \/ \E o \in Objects : \E val \in Consumptions : ConsumeEnergy(o, val)
  \/ BroadcastMsg
  \/ PassTime

Spec == Init /\ [][Next]_vars

-----------------------------------------------------------------------------
(* The messages in the queue are exactly the changes the objects have not    *)
(* been told of, in order: the first starts from what they know, each starts *)
(* where the one before it ends, and the last ends in the machine's state.   *)
(* An object that steps its frequency by the messages of DFS_LRY, which are  *)
(* relative, ends at the machine's level only if none is lost or swapped     *)
(* (energy_mgmt.hh:33).                                                     *)
ChainIntact ==
  /\ msg_togo = <<>> => \A o \in bound : told[o] = state
  /\ msg_togo # <<>> =>
       /\ \A o \in bound : told[o] = msg_togo[1].from
       /\ msg_togo[Len(msg_togo)].to = state
  /\ \A i \in 2 .. Len(msg_togo) : msg_togo[i].from = msg_togo[i - 1].to

(* The broadcast event is scheduled exactly while something is queued, so    *)
(* that broadcastMsg() never reads msg_togo[0] of an empty vector and        *)
(* schedule() never meets an event that is scheduled already.                *)
EventIffPending == event_msg <=> msg_togo # <<>>

(* Changes are known everywhere before time goes on, however many happen in  *)
(* one tick ("Trigger first msg in the current tick").                       *)
ToldInTick == [][tick' # tick => \A o \in bound : told[o] = state]_vars

(* The machines do not oscillate: at a constant level, the state comes to    *)
(* rest after at most as many updates as DFS_LRY has states.                 *)
Settles ==
  LET at[n \in 0 .. 7] ==
        IF n = 0 THEN state ELSE After(machine, at[n - 1], energy)
  IN  at[7] = at[6]

(* docs/Concepts-and-Structure.md:196-197: once the system consumes energy,  *)
(* EnergyMgmt calls update() to inform the state machine. So no machine is   *)
(* in a state that it leaves at the level the objects have left: the machine *)
(* has been given that level.                                                *)
Informed == After(machine, state, remained) = state \/ remained = energy
=============================================================================
