------------------------- MODULE EnergyMgmt_proofs --------------------------
(* The message queue of EnergyMgmt loses, repeats and reorders nothing,      *)
(* whatever the state machine, its thresholds and the objects connected.     *)
EXTENDS EnergyMgmt, TLAPS

AllStates ==
  {"OFF", "ON", "LOW", "MIDDLE", "HIGH", "RETENTION",
   "FREQ1", "FREQ2", "FREQ3", "FREQ4", "FREQ5"}

(* Every message names where the change began and where it ended.            *)
Messages == [from : AllStates, to : AllStates]

QueueTypeOK ==
  /\ machine \in MachineKinds
  /\ state \in AllStates
  /\ msg_togo \in Seq(Messages)
  /\ event_msg \in BOOLEAN
  /\ bound \subseteq Objects
  /\ told \in [Objects -> AllStates]

QueueInv == QueueTypeOK /\ ChainIntact /\ EventIffPending

(* Every transition of every machine leads to a named state.                 *)
LEMMA TransitionType ==
  ASSUME NEW m \in MachineKinds, NEW e, NEW i \in DOMAIN Transitions(m, e)
  PROVE  Transitions(m, e)[i].to \in AllStates
<1>1. ASSUME NEW j \in DOMAIN SimpleTransitions(e)
      PROVE  SimpleTransitions(e)[j].to \in AllStates
  BY <1>1 DEF SimpleTransitions, Below, Above, AllStates
<1>2. ASSUME NEW j \in DOMAIN TwoThresTransitions(e)
      PROVE  TwoThresTransitions(e)[j].to \in AllStates
  BY <1>2 DEF TwoThresTransitions, Below, Above, AllStates
<1>3. ASSUME NEW j \in DOMAIN DVFSTransitions(e)
      PROVE  DVFSTransitions(e)[j].to \in AllStates
  BY <1>3 DEF DVFSTransitions, Enter, AllStates
<1>4. ASSUME NEW j \in DOMAIN DFSTransitions(e)
      PROVE  DFSTransitions(e)[j].to \in AllStates
  BY <1>4 DEF DFSTransitions, Below, Above, AllStates
<1>5. QED
  BY <1>1, <1>2, <1>3, <1>4 DEF MachineKinds, Transitions

(* What update() decides is the name of a state.                             *)
LEMMA AfterType ==
  ASSUME NEW m \in MachineKinds, NEW s \in AllStates, NEW e
  PROVE  After(m, s, e) \in AllStates
<1> DEFINE ts == Transitions(m, e)
           applies(i) == s \in ts[i].from /\ ts[i].open
           first(i) == applies(i) /\ \A j \in 1 .. i - 1 : ~applies(j)
           chosen == CHOOSE i \in DOMAIN ts : first(i)
<1>1. CASE \E i \in DOMAIN ts : first(i)
  <2>1. chosen \in DOMAIN ts
    BY <1>1
  <2>2. ts[chosen].to \in AllStates
    BY <2>1, TransitionType
  <2>3. After(m, s, e) = ts[chosen].to
    BY <1>1 DEF After
  <2>4. QED
    BY <2>2, <2>3
<1>2. CASE ~ \E i \in DOMAIN ts : first(i)
  BY <1>2 DEF After
<1>3. QED
  BY <1>1, <1>2

(* The queue after init().                                                  *)
LEMMA QueueInit == Init => QueueInv
<1> SUFFICES ASSUME Init PROVE QueueInv
  OBVIOUS
<1>1. machine \in MachineKinds /\ bound \subseteq Objects
  BY EnergyParameters DEF Init
<1>2. CASE machine = "Simple"
  <2>1. /\ msg_togo = <<>> /\ event_msg = FALSE
        /\ state = "ON" /\ told = [o \in Objects |-> "ON"]
    BY <1>2 DEF Init
  <2>2. msg_togo \in Seq(Messages) /\ Len(msg_togo) = 0
    BY <2>1
  <2>3. QueueTypeOK
    BY <1>1, <2>1, <2>2 DEF QueueTypeOK, AllStates
  <2>4. ChainIntact
    BY <1>1, <2>1, <2>2 DEF ChainIntact
  <2>5. QED
    BY <2>1, <2>3, <2>4 DEF QueueInv, EventIffPending
<1>3. CASE machine # "Simple"
  <2>1. /\ msg_togo = <<Message("ON", "OFF")>> /\ event_msg = TRUE
        /\ state = "OFF" /\ told = [o \in Objects |-> "ON"]
    BY <1>3 DEF Init
  <2>2. Message("ON", "OFF") \in Messages
    BY DEF Message, Messages, AllStates
  <2>3. /\ Len(msg_togo) = 1 /\ msg_togo[1] = Message("ON", "OFF")
        /\ msg_togo \in Seq(Messages) /\ msg_togo # <<>>
    BY <2>1, <2>2
  <2>4. QueueTypeOK
    BY <1>1, <2>1, <2>3 DEF QueueTypeOK, AllStates
  <2>5. ChainIntact
    BY <1>1, <2>1, <2>3 DEF ChainIntact, Message
  <2>6. QED
    BY <2>1, <2>3, <2>4, <2>5 DEF QueueInv, EventIffPending
<1>4. QED
  BY <1>2, <1>3

(* A change of state goes to the end of the chain.                           *)
LEMMA UpdateStep ==
  ASSUME QueueInv, NEW e \in Energies, Update(e)
  PROVE  QueueInv'
<1>1. state' \in AllStates
  BY AfterType DEF QueueInv, QueueTypeOK, Update
<1>2. UNCHANGED <<machine, bound, told>>
  BY DEF Update
<1>3. CASE state' = state
  <2>1. UNCHANGED <<msg_togo, event_msg>>
    BY <1>3 DEF Update, manager
  <2>2. QED
    BY <1>2, <1>3, <2>1 DEF QueueInv, QueueTypeOK, ChainIntact, EventIffPending
<1>4. CASE state' # state
  <2> DEFINE msg == Message(state, state')
             n == Len(msg_togo)
  <2>1. /\ msg_togo' = Append(msg_togo, msg)
        /\ event_msg' = IF Len(msg_togo) = 0 THEN TRUE ELSE event_msg
    BY <1>4 DEF Update, BroadcastMsgAsEvent
  <2>2. msg \in Messages /\ msg.from = state /\ msg.to = state'
    BY <1>1 DEF QueueInv, QueueTypeOK, Message, Messages
  <2>3. msg_togo \in Seq(Messages) /\ n \in Nat
    BY DEF QueueInv, QueueTypeOK
  <2> HIDE DEF msg, n
  <2>4. /\ msg_togo' \in Seq(Messages) /\ Len(msg_togo') = n + 1
        /\ msg_togo'[n + 1] = msg
        /\ \A i \in 1 .. n : msg_togo'[i] = msg_togo[i]
        /\ msg_togo' # <<>>
    BY <2>1, <2>2, <2>3 DEF n
  <2>5. msg_togo = <<>> <=> n = 0
    BY <2>3 DEF n
  <2>6. event_msg' = TRUE
    BY <2>1, <2>5 DEF QueueInv, QueueTypeOK, EventIffPending, n
  <2>7. ChainIntact'
    <3>1. \A o \in bound' : told'[o] = msg_togo'[1].from
      BY <1>2, <2>2, <2>3, <2>4, <2>5 DEF QueueInv, ChainIntact
    <3>2. \A i \in 2 .. n + 1 : msg_togo'[i].from = msg_togo'[i - 1].to
      <4> SUFFICES ASSUME NEW i \in 2 .. n + 1
                   PROVE  msg_togo'[i].from = msg_togo'[i - 1].to
        OBVIOUS
      <4>1. CASE i = n + 1
        <5>1. n \in 1 .. n /\ i - 1 = n /\ n # 0
          BY <2>3, <4>1
        <5>2. msg_togo[n].to = state
          BY <2>5, <5>1 DEF QueueInv, ChainIntact, n
        <5>3. QED
          BY <2>2, <2>4, <4>1, <5>1, <5>2
      <4>2. CASE i # n + 1
        <5>1. i \in 2 .. n /\ i \in 1 .. n /\ i - 1 \in 1 .. n
          BY <2>3, <4>2
        <5>2. msg_togo[i].from = msg_togo[i - 1].to
          BY <5>1 DEF QueueInv, ChainIntact, n
        <5>3. QED
          BY <2>4, <5>1, <5>2
      <4>3. QED
        BY <4>1, <4>2
    <3>3. QED
      BY <2>2, <2>4, <3>1, <3>2 DEF ChainIntact
  <2>8. QED
    BY <1>1, <1>2, <2>4, <2>6, <2>7
    DEF QueueInv, QueueTypeOK, EventIffPending
<1>5. QED
  BY <1>3, <1>4

(* A broadcast takes the first link off the chain, and every connected       *)
(* object moves to its end.                                                 *)
LEMMA BroadcastStep ==
  ASSUME QueueInv, BroadcastMsg
  PROVE  QueueInv'
<1> DEFINE n == Len(msg_togo)
<1>1. /\ msg_togo \in Seq(Messages) /\ msg_togo # <<>>
      /\ n \in Nat /\ n >= 1
  BY DEF QueueInv, QueueTypeOK, BroadcastMsg
<1>2. /\ msg_togo' \in Seq(Messages) /\ Len(msg_togo') = n - 1
      /\ \A i \in 1 .. n - 1 : msg_togo'[i] = msg_togo[i + 1]
      /\ (msg_togo' = <<>>) <=> (n = 1)
      /\ Head(msg_togo) = msg_togo[1] /\ msg_togo[1].to \in AllStates
  <2>1. msg_togo' = Tail(msg_togo)
    BY DEF BroadcastMsg
  <2>2. msg_togo' \in Seq(Messages) /\ Len(msg_togo') = n - 1
    BY <1>1, <2>1
  <2>3. \A i \in 1 .. n - 1 : msg_togo'[i] = msg_togo[i + 1]
    BY <1>1, <2>1
  <2>4. (msg_togo' = <<>>) <=> (n = 1)
    BY <1>1, <2>2
  <2>5. msg_togo[1] \in Messages /\ Head(msg_togo) = msg_togo[1]
    BY <1>1
  <2>6. QED
    BY <2>2, <2>3, <2>4, <2>5 DEF Messages
<1>3. event_msg' = (msg_togo' # <<>>) /\ UNCHANGED <<machine, state, bound>>
  BY DEF BroadcastMsg, EventAfter
<1>4. /\ told' \in [Objects -> AllStates]
      /\ \A o \in bound : told'[o] = msg_togo[1].to
  BY <1>2 DEF BroadcastMsg, QueueInv, QueueTypeOK
<1>5. QueueTypeOK'
  BY <1>2, <1>3, <1>4 DEF QueueInv, QueueTypeOK
<1>6. /\ msg_togo[n].to = state
      /\ \A i \in 2 .. n : msg_togo[i].from = msg_togo[i - 1].to
  BY <1>1 DEF QueueInv, ChainIntact
<1> HIDE DEF n
<1>7. CASE n = 1
  <2>1. msg_togo' = <<>> /\ Len(msg_togo') = 0 /\ event_msg' = FALSE
    BY <1>2, <1>3, <1>7
  <2>2. \A o \in bound : told'[o] = state
    BY <1>4, <1>6, <1>7
  <2>3. ChainIntact'
    BY <1>3, <2>1, <2>2 DEF ChainIntact
  <2>4. QED
    BY <1>5, <2>1, <2>3 DEF QueueInv, EventIffPending
<1>8. CASE n # 1
  <2>1. /\ n >= 2 /\ 1 \in 1 .. n - 1 /\ 2 \in 2 .. n /\ n - 1 \in 1 .. n - 1
        /\ (n - 1) + 1 = n
    BY <1>1, <1>8
  <2>2. msg_togo'[1].from = msg_togo[1].to
    BY <1>2, <1>6, <2>1
  <2>3. msg_togo'[n - 1].to = state
    BY <1>2, <1>6, <2>1
  <2>4. \A i \in 2 .. n - 1 : msg_togo'[i].from = msg_togo'[i - 1].to
    <3> SUFFICES ASSUME NEW i \in 2 .. n - 1
                 PROVE  msg_togo'[i].from = msg_togo'[i - 1].to
      OBVIOUS
    <3>1. i \in 1 .. n - 1 /\ i - 1 \in 1 .. n - 1 /\ i + 1 \in 2 .. n /\ (i - 1) + 1 = i
          /\ (i + 1) - 1 = i
      BY <1>1
    <3>2. msg_togo[i + 1].from = msg_togo[i].to
      BY <1>6, <3>1
    <3>3. QED
      BY <1>2, <3>1, <3>2
  <2>5. ChainIntact'
    BY <1>2, <1>3, <1>4, <1>8, <2>2, <2>3, <2>4 DEF ChainIntact
  <2>6. QED
    BY <1>3, <1>5, <2>5 DEF QueueInv, EventIffPending
<1>9. QED
  BY <1>7, <1>8

(* No other step touches the queue or what the objects know.                 *)
LEMMA QueueStep == QueueInv /\ [Next]_vars => QueueInv'
<1> SUFFICES ASSUME QueueInv, [Next]_vars PROVE QueueInv'
  OBVIOUS
<1>1. ASSUME NEW e \in Energies, Update(e) PROVE QueueInv'
  BY <1>1, UpdateStep
<1>2. CASE BroadcastMsg
  BY <1>2, BroadcastStep
<1>3. CASE UNCHANGED <<machine, state, msg_togo, event_msg, bound, told>>
  BY <1>3 DEF QueueInv, QueueTypeOK, ChainIntact, EventIffPending
<1>4. ASSUME NEW o \in Objects, NEW val \in Consumptions, ConsumeEnergy(o, val)
      PROVE  QueueInv'
  BY <1>3, <1>4 DEF ConsumeEnergy
<1>5. CASE PassTime
  BY <1>3, <1>5 DEF PassTime
<1>6. CASE UNCHANGED vars
  BY <1>3, <1>6 DEF vars
<1>7. QED
  BY <1>1, <1>2, <1>4, <1>5, <1>6 DEF Next

(* The queue and its event agree in every behaviour.                         *)
LEMMA QueueInvariant == Spec => []QueueInv
<1>1. QED
  BY QueueInit, QueueStep, PTL DEF Spec

(* No message is lost, repeated or reordered: what is queued leads from what *)
(* the connected objects were told to the state of the machine.             *)
THEOREM QueueIsAChain == Spec => []ChainIntact
<1>1. QueueInv => ChainIntact
  BY DEF QueueInv
<1>2. QED
  BY <1>1, QueueInvariant, PTL

(* The broadcast event is scheduled exactly while a message waits.           *)
THEOREM EventWhilePending == Spec => []EventIffPending
<1>1. QueueInv => EventIffPending
  BY DEF QueueInv
<1>2. QED
  BY <1>1, QueueInvariant, PTL

(* Time passes only when every connected object knows the machine's state.   *)
THEOREM ToldWithinTheTick == Spec => ToldInTick
<1>1. QueueInv /\ [Next]_vars => [tick' # tick => \A o \in bound : told[o] = state]_vars
  <2> SUFFICES ASSUME QueueInv, [Next]_vars, tick' # tick
               PROVE  \A o \in bound : told[o] = state
    OBVIOUS
  <2>1. PassTime
    BY DEF Next, Update, ConsumeEnergy, BroadcastMsg, vars
  <2>2. QED
    BY <2>1 DEF PassTime, QueueInv, EventIffPending, ChainIntact
<1>2. QED
  BY <1>1, QueueInvariant, PTL DEF Spec, ToldInTick

-----------------------------------------------------------------------------
(* The machines come to rest.                                                *)

(* The moves of the DFS machine at the energy e.                             *)
DFSMoves(e, s, t) ==
  \/ s = "FREQ5" /\ t = "FREQ4" /\ e < Thres.thres_5_to_4
  \/ s = "FREQ4" /\ t = "FREQ3" /\ e < Thres.thres_4_to_3
  \/ s = "FREQ3" /\ t = "FREQ2" /\ e < Thres.thres_3_to_2
  \/ s = "FREQ2" /\ t = "FREQ1" /\ e < Thres.thres_2_to_1
  \/ s = "FREQ1" /\ t = "RETENTION" /\ e < Thres.thres_1_to_retention
  \/ s = "RETENTION" /\ t = "OFF" /\ e < Thres.thres_retention_to_off
  \/ s = "FREQ4" /\ t = "FREQ5" /\ e > Thres.thres_4_to_5
  \/ s = "FREQ3" /\ t = "FREQ4" /\ e > Thres.thres_3_to_4
  \/ s = "FREQ2" /\ t = "FREQ3" /\ e > Thres.thres_2_to_3
  \/ s = "FREQ1" /\ t = "FREQ2" /\ e > Thres.thres_1_to_2
  \/ s = "RETENTION" /\ t = "FREQ1" /\ e > Thres.thres_retention_to_1
  \/ s = "OFF" /\ t = "FREQ1" /\ e > Thres.thres_off_to_1

(* The moves of the others.                                                  *)
OtherMoves(m, e, s, t) ==
  \/ m = "Simple" /\ \/ s = "ON" /\ t = "OFF" /\ e < 0
                     \/ s = "OFF" /\ t = "ON" /\ e > 0
  \/ m = "TwoThres" /\ \/ s = "ON" /\ t = "OFF" /\ e < Thres.thres_low
                       \/ s = "OFF" /\ t = "ON" /\ e > Thres.thres_high
  \/ m = "DVFS" /\ s # t
       /\ \/ t = "OFF" /\ e < Thres.thres_off_low
          \/ t = "LOW" /\ e > Thres.thres_off_low /\ e < Thres.thres_low_mid
          \/ t = "MIDDLE" /\ e > Thres.thres_low_mid /\ e < Thres.thres_mid_high
          \/ t = "HIGH" /\ e > Thres.thres_mid_high

Moves(m, e, s, t) ==
  \/ m = "DFS_LRY" /\ DFSMoves(e, s, t)
  \/ OtherMoves(m, e, s, t)

(* The levels of the DFS machine.                                            *)
Rank ==
  [s \in AllStates |->
     CASE s = "RETENTION" -> 1 [] s = "FREQ1" -> 2 [] s = "FREQ2" -> 3
       [] s = "FREQ3" -> 4 [] s = "FREQ4" -> 5 [] s = "FREQ5" -> 6 [] OTHER -> 0]

(* A transition of the else-if chains that applies is one of these moves.    *)
LEMMA TransitionMoves ==
  ASSUME NEW m \in MachineKinds, NEW e, NEW s, NEW i \in DOMAIN Transitions(m, e),
         s \in Transitions(m, e)[i].from, Transitions(m, e)[i].open
  PROVE  Moves(m, e, s, Transitions(m, e)[i].to)
<1> DEFINE ts == Transitions(m, e)
<1>0. SUFFICES ASSUME s \in ts[i].from, ts[i].open
               PROVE  Moves(m, e, s, ts[i].to)
  OBVIOUS
<1>1. CASE m = "Simple"
  <2>1. ts = SimpleTransitions(e)
    BY <1>1 DEF Transitions
  <2>2. i \in 1 .. 2
    BY <2>1 DEF SimpleTransitions
  <2> HIDE DEF ts
  <2>3. CASE i = 1
    BY <1>0, <1>1, <2>1, <2>3 DEF SimpleTransitions, Below, Above, Moves, OtherMoves
  <2>4. CASE i = 2
    BY <1>0, <1>1, <2>1, <2>4 DEF SimpleTransitions, Below, Above, Moves, OtherMoves
  <2>5. QED
    BY <2>2, <2>3, <2>4
<1>2. CASE m = "TwoThres"
  <2>1. ts = TwoThresTransitions(e)
    BY <1>2 DEF Transitions
  <2>2. i \in 1 .. 2
    BY <2>1 DEF TwoThresTransitions
  <2> HIDE DEF ts
  <2>3. CASE i = 1
    BY <1>0, <1>2, <2>1, <2>3 DEF TwoThresTransitions, Below, Above, Moves, OtherMoves
  <2>4. CASE i = 2
    BY <1>0, <1>2, <2>1, <2>4 DEF TwoThresTransitions, Below, Above, Moves, OtherMoves
  <2>5. QED
    BY <2>2, <2>3, <2>4
<1>3. CASE m = "DVFS"
  <2>1. ts = DVFSTransitions(e)
    BY <1>3 DEF Transitions
  <2>2. i \in 1 .. 4
    BY <2>1 DEF DVFSTransitions
  <2> HIDE DEF ts
  <2>3. CASE i = 1
    BY <1>0, <1>3, <2>1, <2>3 DEF DVFSTransitions, Enter, States, Moves, OtherMoves
  <2>4. CASE i = 2
    BY <1>0, <1>3, <2>1, <2>4 DEF DVFSTransitions, Enter, States, Moves, OtherMoves
  <2>5. CASE i = 3
    BY <1>0, <1>3, <2>1, <2>5 DEF DVFSTransitions, Enter, States, Moves, OtherMoves
  <2>6. CASE i = 4
    BY <1>0, <1>3, <2>1, <2>6 DEF DVFSTransitions, Enter, States, Moves, OtherMoves
  <2>7. QED
    BY <2>2, <2>3, <2>4, <2>5, <2>6
<1>4. CASE m = "DFS_LRY"
  <2>1. ts = DFSTransitions(e)
    BY <1>4 DEF Transitions
  <2>2. i \in 1 .. 12
    BY <2>1 DEF DFSTransitions
  <2> HIDE DEF ts
  <2>3. CASE i = 1
    BY <1>0, <1>4, <2>1, <2>3 DEF DFSTransitions, Below, Above, Moves, DFSMoves
  <2>4. CASE i = 2
    BY <1>0, <1>4, <2>1, <2>4 DEF DFSTransitions, Below, Above, Moves, DFSMoves
  <2>5. CASE i = 3
    BY <1>0, <1>4, <2>1, <2>5 DEF DFSTransitions, Below, Above, Moves, DFSMoves
  <2>6. CASE i = 4
    BY <1>0, <1>4, <2>1, <2>6 DEF DFSTransitions, Below, Above, Moves, DFSMoves
  <2>7. CASE i = 5
    BY <1>0, <1>4, <2>1, <2>7 DEF DFSTransitions, Below, Above, Moves, DFSMoves
  <2>8. CASE i = 6
    BY <1>0, <1>4, <2>1, <2>8 DEF DFSTransitions, Below, Above, Moves, DFSMoves
  <2>9. CASE i = 7
    BY <1>0, <1>4, <2>1, <2>9 DEF DFSTransitions, Below, Above, Moves, DFSMoves
  <2>10. CASE i = 8
    BY <1>0, <1>4, <2>1, <2>10 DEF DFSTransitions, Below, Above, Moves, DFSMoves
  <2>11. CASE i = 9
    BY <1>0, <1>4, <2>1, <2>11 DEF DFSTransitions, Below, Above, Moves, DFSMoves
  <2>12. CASE i = 10
    BY <1>0, <1>4, <2>1, <2>12 DEF DFSTransitions, Below, Above, Moves, DFSMoves
  <2>13. CASE i = 11
    BY <1>0, <1>4, <2>1, <2>13 DEF DFSTransitions, Below, Above, Moves, DFSMoves
  <2>14. CASE i = 12
    BY <1>0, <1>4, <2>1, <2>14 DEF DFSTransitions, Below, Above, Moves, DFSMoves
  <2>15. QED
    BY <2>2, <2>3, <2>4, <2>5, <2>6, <2>7, <2>8, <2>9, <2>10, <2>11, <2>12, <2>13, <2>14
<1>5. QED
  BY <1>1, <1>2, <1>3, <1>4 DEF MachineKinds

(* What update() does is one of these moves, or nothing.                     *)
LEMMA AfterMoves ==
  ASSUME NEW m \in MachineKinds, NEW s, NEW e
  PROVE  After(m, s, e) = s \/ Moves(m, e, s, After(m, s, e))
<1> DEFINE ts == Transitions(m, e)
           applies(i) == s \in ts[i].from /\ ts[i].open
           first(i) == applies(i) /\ \A j \in 1 .. i - 1 : ~applies(j)
           chosen == CHOOSE i \in DOMAIN ts : first(i)
<1>1. CASE \E i \in DOMAIN ts : first(i)
  <2>1. chosen \in DOMAIN ts /\ applies(chosen)
    BY <1>1
  <2>2. Moves(m, e, s, ts[chosen].to)
    BY <2>1, TransitionMoves
  <2>3. After(m, s, e) = ts[chosen].to
    BY <1>1 DEF After
  <2>4. QED
    BY <2>2, <2>3
<1>2. CASE ~ \E i \in DOMAIN ts : first(i)
  BY <1>2 DEF After
<1>3. QED
  BY <1>1, <1>2

(* After a move of another machine than DFS there is none.                   *)
LEMMA OthersRest ==
  ASSUME NEW m, NEW e \in Int, NEW s, NEW t, NEW u, OtherMoves(m, e, s, t)
  PROVE  ~Moves(m, e, t, u)
<1>1. /\ Thres.thres_low \in Int /\ Thres.thres_high \in Int
      /\ Thres.thres_off_low \in Int /\ Thres.thres_low_mid \in Int
      /\ Thres.thres_mid_high \in Int
  BY EnergyParameters DEF ThresNames
<1>2. /\ Thres.thres_low <= Thres.thres_high
      /\ Thres.thres_off_low <= Thres.thres_low_mid
      /\ Thres.thres_low_mid <= Thres.thres_mid_high
  BY Hysteresis
<1>3. QED
  BY <1>1, <1>2 DEF Moves, OtherMoves

(* The DFS machine moves on in the direction it has taken: no hysteresis     *)
(* sends it back.                                                            *)
LEMMA DFSKeepsDirection ==
  ASSUME NEW e \in Int, NEW s, NEW t, NEW u, DFSMoves(e, s, t), DFSMoves(e, t, u)
  PROVE  \/ Rank[s] < Rank[t] /\ Rank[t] < Rank[u]
         \/ Rank[s] > Rank[t] /\ Rank[t] > Rank[u]
<1>1. \A name \in ThresNames : Thres[name] \in Int
  BY EnergyParameters
<1>2. /\ Thres.thres_5_to_4 \in Int /\ Thres.thres_4_to_3 \in Int
      /\ Thres.thres_3_to_2 \in Int /\ Thres.thres_2_to_1 \in Int
      /\ Thres.thres_1_to_retention \in Int /\ Thres.thres_retention_to_off \in Int
      /\ Thres.thres_off_to_1 \in Int /\ Thres.thres_retention_to_1 \in Int
      /\ Thres.thres_1_to_2 \in Int /\ Thres.thres_2_to_3 \in Int
      /\ Thres.thres_3_to_4 \in Int /\ Thres.thres_4_to_5 \in Int
  BY <1>1 DEF ThresNames
<1>3. /\ Rank["OFF"] = 0 /\ Rank["RETENTION"] = 1 /\ Rank["FREQ1"] = 2 /\ Rank["FREQ2"] = 3
      /\ Rank["FREQ3"] = 4 /\ Rank["FREQ4"] = 5 /\ Rank["FREQ5"] = 6
  BY DEF Rank, AllStates
<1>4. CASE Rank[s] < Rank[t]
  BY <1>2, <1>3, <1>4, Hysteresis DEF DFSMoves
<1>5. CASE Rank[s] > Rank[t]
  BY <1>2, <1>3, <1>5, Hysteresis DEF DFSMoves
<1>6. QED
  BY <1>3, <1>4, <1>5 DEF DFSMoves

(* The states after so many updates with the same energy.                    *)
Run(m, s, e) ==
  CHOOSE at : at = [n \in 0 .. 7 |-> IF n = 0 THEN s ELSE After(m, at[n - 1], e)]

(* It is the function of the property.                                       *)
LEMMA SettlesIsRun == Settles <=> Run(machine, state, energy)[7] = Run(machine, state, energy)[6]
BY DEF Settles, Run

(* Each state of the run is reached by one update.                           *)
LEMMA RunEquation ==
  ASSUME NEW m, NEW s, NEW e
  PROVE  /\ Run(m, s, e)[0] = s
         /\ \A n \in 1 .. 7 : Run(m, s, e)[n] = After(m, Run(m, s, e)[n - 1], e)
<1> DEFINE Step(at) == [n \in 0 .. 7 |-> IF n = 0 THEN s ELSE After(m, at[n - 1], e)]
           next(x) == After(m, x, e)
           s1 == next(s)   s2 == next(s1)   s3 == next(s2)   s4 == next(s3)
           s5 == next(s4)  s6 == next(s5)   s7 == next(s6)
           run == [n \in 0 .. 7 |-> IF n = 0 THEN s ELSE IF n = 1 THEN s1
                     ELSE IF n = 2 THEN s2 ELSE IF n = 3 THEN s3 ELSE IF n = 4 THEN s4
                     ELSE IF n = 5 THEN s5 ELSE IF n = 6 THEN s6 ELSE s7]
<1>1. \E at : at = Step(at)
  <2>1. /\ run[0] = s /\ run[1] = s1 /\ run[2] = s2 /\ run[3] = s3
        /\ run[4] = s4 /\ run[5] = s5 /\ run[6] = s6 /\ run[7] = s7
    OBVIOUS
  <2>2. ASSUME NEW n \in 0 .. 7
        PROVE  run[n] = IF n = 0 THEN s ELSE After(m, run[n - 1], e)
    <3>1. \/ n = 0 \/ n = 1 \/ n = 2 \/ n = 3 \/ n = 4 \/ n = 5 \/ n = 6 \/ n = 7
      OBVIOUS
    <3>2. 1 - 1 = 0 /\ 2 - 1 = 1 /\ 3 - 1 = 2 /\ 4 - 1 = 3 /\ 5 - 1 = 4 /\ 6 - 1 = 5 /\ 7 - 1 = 6
      OBVIOUS
    <3> HIDE DEF run
    <3>3. QED
      BY <2>1, <3>1, <3>2
  <2>3. run = [n \in 0 .. 7 |-> run[n]]
    OBVIOUS
  <2> HIDE DEF run
  <2>4. run = Step(run)
    BY <2>2, <2>3
  <2>5. QED
    BY <2>4
<1>2. Run(m, s, e) = Step(Run(m, s, e))
  BY <1>1 DEF Run
<1>3. QED
  BY <1>2

(* At a constant level a machine rests after six updates: the DFS machine    *)
(* goes up or down through its seven levels and does not turn.               *)
LEMMA RunRests ==
  ASSUME NEW m \in MachineKinds, NEW s \in AllStates, NEW e \in Int
  PROVE  Run(m, s, e)[7] = Run(m, s, e)[6]
<1> DEFINE at == Run(m, s, e)
<1>1. at[0] = s /\ \A n \in 1 .. 7 : at[n] = After(m, at[n - 1], e)
  BY RunEquation
<1> HIDE DEF at
<1>2. \A n \in 0 .. 6 : at[n + 1] = After(m, at[n], e)
  <2>1. \A n \in 0 .. 6 : n + 1 \in 1 .. 7 /\ (n + 1) - 1 = n
    OBVIOUS
  <2>2. QED
    BY <1>1, <2>1
<1>3. SUFFICES ASSUME at[7] # at[6]
               PROVE  FALSE
  BY DEF at
<1>4. /\ at[1] = After(m, at[0], e) /\ at[2] = After(m, at[1], e)
      /\ at[3] = After(m, at[2], e) /\ at[4] = After(m, at[3], e)
      /\ at[5] = After(m, at[4], e) /\ at[6] = After(m, at[5], e)
      /\ at[7] = After(m, at[6], e)
  BY <1>1
<1>5. /\ at[1] # at[0] /\ at[2] # at[1] /\ at[3] # at[2] /\ at[4] # at[3]
      /\ at[5] # at[4] /\ at[6] # at[5]
  BY <1>3, <1>4
<1>6. /\ Moves(m, e, at[0], at[1]) /\ Moves(m, e, at[1], at[2])
      /\ Moves(m, e, at[2], at[3]) /\ Moves(m, e, at[3], at[4])
      /\ Moves(m, e, at[4], at[5]) /\ Moves(m, e, at[5], at[6])
      /\ Moves(m, e, at[6], at[7])
  BY <1>3, <1>4, <1>5, AfterMoves
<1>7. /\ ~OtherMoves(m, e, at[0], at[1]) /\ ~OtherMoves(m, e, at[1], at[2])
      /\ ~OtherMoves(m, e, at[2], at[3]) /\ ~OtherMoves(m, e, at[3], at[4])
      /\ ~OtherMoves(m, e, at[4], at[5]) /\ ~OtherMoves(m, e, at[5], at[6])
  BY <1>6, OthersRest
<1>8. m = "DFS_LRY"
  BY <1>6, <1>7 DEF Moves
<1>9. ~OtherMoves(m, e, at[6], at[7])
  BY <1>8 DEF OtherMoves
<1>10. /\ DFSMoves(e, at[0], at[1]) /\ DFSMoves(e, at[1], at[2])
       /\ DFSMoves(e, at[2], at[3]) /\ DFSMoves(e, at[3], at[4])
       /\ DFSMoves(e, at[4], at[5]) /\ DFSMoves(e, at[5], at[6])
       /\ DFSMoves(e, at[6], at[7])
  BY <1>6, <1>7, <1>9 DEF Moves
<1> DEFINE Up(n) == Rank[at[n]] < Rank[at[n + 1]]
           Down(n) == Rank[at[n]] > Rank[at[n + 1]]
<1>11. ASSUME NEW n \in 0 .. 5, DFSMoves(e, at[n], at[n + 1]),
              DFSMoves(e, at[n + 1], at[n + 2])
       PROVE  (Up(n) /\ Up(n + 1)) \/ (Down(n) /\ Down(n + 1))
  <2>1. (n + 1) + 1 = n + 2
    OBVIOUS
  <2>2. QED
    BY <1>11, <2>1, DFSKeepsDirection
<1>12. ASSUME NEW n \in 0 .. 7
       PROVE  Rank[at[n]] \in 0 .. 6
  <2>1. ASSUME NEW x \in AllStates
        PROVE  After(m, x, e) \in AllStates
    BY AfterType
  <2>2. /\ at[0] \in AllStates /\ at[1] \in AllStates /\ at[2] \in AllStates
        /\ at[3] \in AllStates /\ at[4] \in AllStates /\ at[5] \in AllStates
        /\ at[6] \in AllStates /\ at[7] \in AllStates
    BY <1>1, <1>4, <2>1
  <2>3. \A x \in AllStates : Rank[x] \in 0 .. 6
    BY DEF Rank, AllStates
  <2>4. n = 0 \/ n = 1 \/ n = 2 \/ n = 3 \/ n = 4 \/ n = 5 \/ n = 6 \/ n = 7
    OBVIOUS
  <2>5. QED
    BY <2>2, <2>3, <2>4
<1>13. /\ (Up(0) /\ Up(1)) \/ (Down(0) /\ Down(1))
       /\ (Up(1) /\ Up(2)) \/ (Down(1) /\ Down(2))
       /\ (Up(2) /\ Up(3)) \/ (Down(2) /\ Down(3))
       /\ (Up(3) /\ Up(4)) \/ (Down(3) /\ Down(4))
       /\ (Up(4) /\ Up(5)) \/ (Down(4) /\ Down(5))
       /\ (Up(5) /\ Up(6)) \/ (Down(5) /\ Down(6))
  BY <1>10, <1>11
<1>14. QED
  BY <1>12, <1>13

(* At whatever level update() was last called with, further calls with the   *)
(* same level come to an end of changes.                                     *)
THEOREM MachinesSettle == Spec => []Settles
<1> DEFINE EnergyOK == energy \in Int
<1>1. Init => EnergyOK
  BY DEF Init
<1>2. EnergyOK /\ [Next]_vars => EnergyOK'
  BY EnergyParameters DEF Next, Update, ConsumeEnergy, BroadcastMsg, PassTime, vars
<1>3. QueueInv /\ EnergyOK => Settles
  BY RunRests, SettlesIsRun DEF QueueInv, QueueTypeOK
<1> HIDE DEF EnergyOK
<1>4. QED
  BY <1>1, <1>2, <1>3, QueueInvariant, PTL DEF Spec
=============================================================================
