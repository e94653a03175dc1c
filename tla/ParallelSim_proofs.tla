------------------------- MODULE ParallelSim_proofs -------------------------
(* Proofs about module ParallelSim, for any number of queues, handlers and   *)
(* limits: the two barriers of a global event, in which one thread executes  *)
(* process() and all others are inside the same event; the quantum event on  *)
(* every queue, with which all threads leave the simulation loop; the ticks  *)
(* of the quantum, which no event sent to another queue comes before; the    *)
(* order of global events, which the mutex gives.                            *)
EXTENDS ParallelSim, FiniteSetTheorems, SequenceTheorems, SetInduction, TLAPS

AloneAt == {"last", "process", "globalQ", "insert", "flag"}

(* What thread i is to the barrier of global event e: away from it, counted  *)
(* in the first wait, chosen to process, between the waits, or counted in    *)
(* the second one.                                                           *)
Role(i, e) ==
  IF at[i] # e THEN "away"
  ELSE IF pc[i] \in AloneAt THEN "alone"
  ELSE IF pc[i] = "barrier2" THEN "between"
  ELSE IF pc[i] = "wait1"
    THEN IF gen[i] = generation[e] THEN "first" ELSE "between"
  ELSE IF pc[i] = "wait2" /\ gen[i] = generation[e] THEN "second"
  ELSE "away"

Having(e, r) == {i \in Threads : Role(i, e) = r}

(* The first wait is filling up: whoever is not counted is still away, the   *)
(* threads that have not left the previous round included.                   *)
Collecting(e) ==
  /\ \A i \in Threads : Role(i, e) \in {"away", "first"}
  /\ numLeft[e] = N - Cardinality(Having(e, "first"))

(* It has been completed, and the second wait is filling up.                 *)
Finishing(e) ==
  /\ \A i \in Threads : Role(i, e) \in {"between", "alone", "second"}
  /\ \A i, j \in Threads : Role(i, e) = "alone" /\ Role(j, e) = "alone" => i = j
  /\ numLeft[e] = N - Cardinality(Having(e, "second"))

InGlobal == {"barrier1", "wait1", "last", "process", "barrier2", "wait2", "done"}
InHandler == {"handler", "migrate", "migrated", "return home"}

(* Where threads are and what they process.                                  *)
PlaceOK ==
  /\ pc = [i \in Threads |-> pc[i]]
  /\ at = [i \in Threads |-> at[i]]
  /\ gen = [i \in Threads |-> gen[i]]
  /\ \A i \in Threads : pc[i] \in InGlobal => at[i] \in Globals
  /\ \A i \in Threads : pc[i] \in InHandler => at[i] \notin Globals

BarrierOK ==
  /\ numLeft = [b \in Globals \cup {ThreadBarrier} |-> numLeft[b]]
  /\ generation \in [Globals \cup {ThreadBarrier} -> {0, 1}]
  /\ \A e \in Globals : Collecting(e) \/ Finishing(e)

BarrierInv == PlaceOK /\ BarrierOK

-----------------------------------------------------------------------------

(* There are N threads.                                                      *)
LEMMA ThreadsFinite == N \in Nat /\ IsFiniteSet(Threads) /\ Cardinality(Threads) = N
<1>1. N \in Nat /\ N > 1
  BY SimParameters
<1>2. QED
  BY <1>1, FS_Interval DEF Threads

(* Threads that are counted are counted in a natural number.                 *)
LEMMA HavingFinite ==
  ASSUME NEW e, NEW r
  PROVE  /\ IsFiniteSet(Having(e, r))
         /\ Cardinality(Having(e, r)) \in Nat
         /\ Having(e, r) = {} <=> Cardinality(Having(e, r)) = 0
<1>1. Having(e, r) \in SUBSET Threads
  BY DEF Having
<1>2. IsFiniteSet(Having(e, r))
  BY <1>1, ThreadsFinite, FS_Subset
<1>3. QED
  BY <1>2, FS_CardinalityType, FS_EmptySet

(* When all but one are counted and thread i is not, everybody else is.      *)
LEMMA LastOne ==
  ASSUME NEW S \in SUBSET Threads, NEW i \in Threads, i \notin S,
         N - Cardinality(S) = 1
  PROVE  \A k \in Threads : k # i => k \in S
<1>1. IsFiniteSet(S) /\ Cardinality(S) \in Nat
  BY ThreadsFinite, FS_Subset, FS_CardinalityType
<1>a. Cardinality(S \cup {i}) = Cardinality(S) + 1
  BY <1>1, FS_AddElement
<1>2. Cardinality(S \cup {i}) = N
  BY <1>1, <1>a, ThreadsFinite
<1>3. S \cup {i} \in SUBSET Threads
  OBVIOUS
<1>4. S \cup {i} = Threads
  BY <1>2, <1>3, ThreadsFinite, FS_Subset
<1>5. QED
  BY <1>4

(* The barrier of the threads is not that of an event.                       *)
LEMMA ThreadBarrierApart == ThreadBarrier \notin Globals
BY DEF ThreadBarrier, Globals, GlobalExits, Quantum, Limit, Exit

(* NoEvent is not a global event.                                            *)
LEMMA LocalEventsApart == NoEvent \notin Globals
BY DEF NoEvent, Globals, GlobalExits, Quantum, Limit, Exit

-----------------------------------------------------------------------------
(* One thread moves at a time.                                               *)

OnlyMoves(i) ==
  \A k \in Threads \ {i} : pc'[k] = pc[k] /\ at'[k] = at[k] /\ gen'[k] = gen[k]

SameBarrier(e) == numLeft'[e] = numLeft[e] /\ generation'[e] = generation[e]

(* A thread keeps its role, or has processed the event.                      *)
KeepsRole(i, e) ==
  \/ Role(i, e)' = Role(i, e)
  \/ Role(i, e) = "alone" /\ Role(i, e)' = "between"

(* An assignment to the place of one thread.                                 *)
LEMMA PlaceStep ==
  ASSUME PlaceOK, NEW i \in Threads, NEW l, NEW a, NEW g,
         pc' = [pc EXCEPT ![i] = l],
         at' = [at EXCEPT ![i] = a],
         gen' = [gen EXCEPT ![i] = g],
         l \in InGlobal => a \in Globals,
         l \in InHandler => a \notin Globals
  PROVE  PlaceOK' /\ OnlyMoves(i) /\ pc'[i] = l /\ at'[i] = a /\ gen'[i] = g
<1>1. /\ pc' = [k \in Threads |-> pc'[k]]
      /\ pc'[i] = l
      /\ \A k \in Threads \ {i} : pc'[k] = pc[k]
  BY DEF PlaceOK
<1>2. /\ at' = [k \in Threads |-> at'[k]]
      /\ at'[i] = a
      /\ \A k \in Threads \ {i} : at'[k] = at[k]
  BY DEF PlaceOK
<1>3. /\ gen' = [k \in Threads |-> gen'[k]]
      /\ gen'[i] = g
      /\ \A k \in Threads \ {i} : gen'[k] = gen[k]
  BY DEF PlaceOK
<1>4. \A k \in Threads : pc'[k] \in InGlobal => at'[k] \in Globals
  BY <1>1, <1>2 DEF PlaceOK
<1>5. \A k \in Threads : pc'[k] \in InHandler => at'[k] \notin Globals
  BY <1>1, <1>2 DEF PlaceOK
<1>6. PlaceOK'
  BY <1>1, <1>2, <1>3, <1>4, <1>5 DEF PlaceOK
<1>7. QED
  BY <1>1, <1>2, <1>3, <1>6 DEF OnlyMoves

(* What is not assigned is assigned its value.                               *)
LEMMA AtKept ==
  ASSUME PlaceOK, NEW i \in Threads, at' = at
  PROVE  at' = [at EXCEPT ![i] = at[i]]
BY DEF PlaceOK

(* The same of the generation that a thread has read.                        *)
LEMMA GenKept ==
  ASSUME PlaceOK, NEW i \in Threads, gen' = gen
  PROVE  gen' = [gen EXCEPT ![i] = gen[i]]
BY DEF PlaceOK

(* A thread that only moves on.                                              *)
LEMMA PcStep ==
  ASSUME PlaceOK, NEW i \in Threads, NEW l,
         pc' = [pc EXCEPT ![i] = l], UNCHANGED <<at, gen>>,
         l \in InGlobal => at[i] \in Globals,
         l \in InHandler => at[i] \notin Globals
  PROVE  PlaceOK' /\ OnlyMoves(i) /\ pc'[i] = l
<1>1. PlaceOK' /\ OnlyMoves(i) /\ pc'[i] = l /\ at'[i] = at[i] /\ gen'[i] = gen[i]
  BY PlaceStep, AtKept, GenKept
<1>2. QED
  BY <1>1

(* The barrier of an event stays as it is when all keep their roles.         *)
LEMMA RolesKept ==
  ASSUME NEW e, Collecting(e) \/ Finishing(e), numLeft'[e] = numLeft[e],
         \A k \in Threads : KeepsRole(k, e)
  PROVE  (Collecting(e) \/ Finishing(e))'
<1>1. Having(e, "first")' = Having(e, "first")
  BY DEF KeepsRole, Having
<1>2. Having(e, "second")' = Having(e, "second")
  BY DEF KeepsRole, Having
<1>3. CASE Collecting(e)
  <2>1. \A k \in Threads : Role(k, e)' \in {"away", "first"}
    BY <1>3 DEF Collecting, KeepsRole
  <2>2. numLeft'[e] = N - Cardinality(Having(e, "first")')
    BY <1>3, <1>1 DEF Collecting
  <2>3. QED
    BY <2>1, <2>2 DEF Collecting
<1>4. CASE Finishing(e)
  <2>1. \A k \in Threads : Role(k, e)' \in {"between", "alone", "second"}
    BY <1>4 DEF Finishing, KeepsRole
  <2>2. \A j, k \in Threads : Role(j, e)' = "alone" /\ Role(k, e)' = "alone" => j = k
    BY <1>4 DEF Finishing, KeepsRole
  <2>3. numLeft'[e] = N - Cardinality(Having(e, "second")')
    BY <1>4, <1>2 DEF Finishing
  <2>4. QED
    BY <2>1, <2>2, <2>3 DEF Finishing
<1>5. QED
  BY <1>3, <1>4

(* So it is when one thread moves and keeps its role.                        *)
LEMMA RoleKept ==
  ASSUME NEW i \in Threads, NEW e, OnlyMoves(i), SameBarrier(e), KeepsRole(i, e),
         Collecting(e) \/ Finishing(e)
  PROVE  (Collecting(e) \/ Finishing(e))'
<1>1. ASSUME NEW k \in Threads, k # i
      PROVE  Role(k, e)' = Role(k, e)
  BY <1>1 DEF OnlyMoves, SameBarrier, Role
<1>2. \A k \in Threads : KeepsRole(k, e)
  BY <1>1 DEF KeepsRole
<1>3. QED
  BY <1>2, RolesKept DEF SameBarrier

(* And when it is at no barrier, before and after.                           *)
Out(i) ==
  at[i] \notin Globals \/ pc[i] \notin AloneAt \cup {"barrier2", "wait1", "wait2"}

(* Such a thread is away from every event before and after.                  *)
LEMMA OutKeepsRole ==
  ASSUME NEW i, Out(i), Out(i)', NEW e \in Globals
  PROVE  KeepsRole(i, e)
<1>1. Role(i, e) = "away"
  BY DEF Out, Role, AloneAt
<1>2. Role(i, e)' = "away"
  BY DEF Out, Role, AloneAt
<1>3. QED
  BY <1>1, <1>2 DEF KeepsRole

(* A step that leaves the barriers alone.                                    *)
LEMMA BarriersKept ==
  ASSUME NEW i \in Threads, BarrierOK, OnlyMoves(i), UNCHANGED <<numLeft, generation>>,
         \A e \in Globals : KeepsRole(i, e)
  PROVE  BarrierOK'
<1>1. ASSUME NEW e \in Globals
      PROVE  (Collecting(e) \/ Finishing(e))'
  BY RoleKept DEF BarrierOK, SameBarrier
<1>2. QED
  BY <1>1 DEF BarrierOK

(* A step of a thread that is at no barrier.                                 *)
LEMMA OutStep ==
  ASSUME NEW i \in Threads, BarrierInv, PlaceOK', OnlyMoves(i),
         UNCHANGED <<numLeft, generation>>, Out(i), Out(i)'
  PROVE  BarrierInv'
BY OutKeepsRole, BarriersKept DEF BarrierInv

-----------------------------------------------------------------------------
(* The two waits.                                                            *)

(* Nothing has happened yet.                                                 *)
LEMMA InitBarriers == Init => BarrierInv
<1> SUFFICES ASSUME Init PROVE BarrierInv
  OBVIOUS
<1>1. PlaceOK
  <2>1. pc = [i \in Threads |-> pc[i]]
    BY DEF Init
  <2>a. at = [i \in Threads |-> at[i]]
    <3>1. at = [i \in Threads |-> NoEvent]
      BY DEF Init
    <3>2. QED
      BY <3>1
  <2>b. gen = [i \in Threads |-> gen[i]]
    BY DEF Init
  <2>2. \A i \in Threads : pc[i] \in {"python", "enter"}
    BY DEF Init
  <2>3. QED
    BY <2>1, <2>a, <2>b, <2>2 DEF PlaceOK, InGlobal, InHandler
<1>2. ASSUME NEW e \in Globals
      PROVE  Collecting(e)
  <2>1. \A i \in Threads : Role(i, e) = "away"
    BY LocalEventsApart DEF Init, Role
  <2>2. Having(e, "first") = {}
    BY <2>1 DEF Having
  <2>3. numLeft[e] = N
    BY DEF Init
  <2>4. QED
    BY <2>1, <2>2, <2>3, HavingFinite, ThreadsFinite DEF Collecting
<1>3. BarrierOK
  BY <1>2 DEF Init, BarrierOK
<1>4. QED
  BY <1>1, <1>3 DEF BarrierInv

(* A thread arrives at the first wait.                                       *)
LEMMA FirstArrival ==
  ASSUME NEW i \in Threads, BarrierInv, FirstBarrier(i)
  PROVE  BarrierInv'
<1>0. PICK e \in Globals : e = at[i]
  BY DEF BarrierInv, PlaceOK, FirstBarrier, InGlobal
<1>1. e \in Globals /\ e = at[i] /\ pc[i] = "barrier1"
  BY <1>0 DEF FirstBarrier
<1>2. Role(i, e) = "away"
  BY <1>1 DEF Role, AloneAt
<1>3. Collecting(e)
  BY <1>1, <1>2 DEF BarrierInv, BarrierOK, Finishing
<1>4. /\ at' = at
      /\ gen' = [gen EXCEPT ![i] = generation[e]]
      /\ numLeft[e] = 1 =>
           /\ generation' = [generation EXCEPT ![e] = 1 - generation[e]]
           /\ numLeft' = [numLeft EXCEPT ![e] = N]
           /\ pc' = [pc EXCEPT ![i] = "last"]
      /\ numLeft[e] # 1 =>
           /\ generation' = generation
           /\ numLeft' = [numLeft EXCEPT ![e] = numLeft[e] - 1]
           /\ pc' = [pc EXCEPT ![i] = "wait1"]
  BY <1>1 DEF FirstBarrier, Arrive, Goto
<1> DEFINE l == IF numLeft[e] = 1 THEN "last" ELSE "wait1"
<1>a. l \in InGlobal /\ l \notin InHandler
  BY DEF InGlobal, InHandler
<1>b. pc' = [pc EXCEPT ![i] = l]
  BY <1>4
<1>c. at' = [at EXCEPT ![i] = e]
  BY <1>1, <1>4, AtKept DEF BarrierInv
<1>5. PlaceOK' /\ OnlyMoves(i) /\ pc'[i] = l
  <2>1. PICK g : gen' = [gen EXCEPT ![i] = g]
    BY <1>4
  <2>3. PlaceOK
    BY DEF BarrierInv
  <2> HIDE DEF l
  <2>4. QED
    BY <1>a, <1>b, <1>c, <2>1, <2>3, PlaceStep
<1>6. OnlyMoves(i) /\ pc'[i] = IF numLeft[e] = 1 THEN "last" ELSE "wait1"
  BY <1>5
<1>7. gen'[i] = generation[e] /\ generation[e] \in {0, 1} /\ 1 - generation[e] # generation[e]
  BY <1>1, <1>4 DEF BarrierInv, PlaceOK, BarrierOK
<1>8. \A b \in Globals \ {e} : SameBarrier(b)
  BY <1>4 DEF BarrierInv, BarrierOK, SameBarrier
<1>9. ASSUME NEW b \in Globals, b # e
      PROVE  (Collecting(b) \/ Finishing(b))'
  <2>1. KeepsRole(i, b)
    BY <1>1, <1>4, <1>9 DEF KeepsRole, Role
  <2>2. QED
    BY <2>1, <1>6, <1>8, <1>9, RoleKept DEF BarrierInv, BarrierOK
<1>10. ASSUME numLeft[e] = 1
       PROVE  (Collecting(e) \/ Finishing(e))'
  <2>1. \A k \in Threads : k # i => Role(k, e) = "first"
    <3>1. i \notin Having(e, "first") /\ Having(e, "first") \in SUBSET Threads
      BY <1>2 DEF Having
    <3>2. N - Cardinality(Having(e, "first")) = 1
      BY <1>10, <1>3 DEF Collecting
    <3>3. QED
      BY <3>1, <3>2, LastOne DEF Having
  <2>2. generation'[e] = 1 - generation[e] /\ numLeft'[e] = N
    BY <1>1, <1>4, <1>10 DEF BarrierInv, BarrierOK
  <2>3. ASSUME NEW k \in Threads, k # i
        PROVE  Role(k, e)' = "between"
    <3>1. at[k] = e /\ pc[k] = "wait1" /\ gen[k] = generation[e]
      BY <2>1, <2>3 DEF Role
    <3>2. at'[k] = e /\ pc'[k] = "wait1" /\ gen'[k] # generation'[e]
      BY <3>1, <2>2, <2>3, <1>6, <1>7 DEF OnlyMoves
    <3>3. QED
      BY <3>2 DEF Role, AloneAt
  <2>4. Role(i, e)' = "alone"
    BY <1>1, <1>4, <1>6, <1>10 DEF Role, AloneAt
  <2>5. Having(e, "second")' = {}
    BY <2>3, <2>4 DEF Having
  <2>6. numLeft'[e] = N - Cardinality(Having(e, "second")')
    BY <2>2, <2>5, FS_EmptySet, ThreadsFinite
  <2>7. Finishing(e)'
    BY <2>3, <2>4, <2>6 DEF Finishing
  <2>8. QED
    BY <2>7
<1>11. ASSUME numLeft[e] # 1
       PROVE  (Collecting(e) \/ Finishing(e))'
  <2>1. generation'[e] = generation[e] /\ numLeft'[e] = numLeft[e] - 1
    BY <1>1, <1>4, <1>11 DEF BarrierInv, BarrierOK
  <2>2. ASSUME NEW k \in Threads, k # i
        PROVE  Role(k, e)' = Role(k, e)
    BY <2>1, <2>2, <1>6 DEF OnlyMoves, Role
  <2>3. Role(i, e)' = "first"
    BY <2>1, <1>1, <1>4, <1>6, <1>7, <1>11 DEF Role, AloneAt
  <2>4. Having(e, "first")' = Having(e, "first") \cup {i}
    BY <2>2, <2>3 DEF Having
  <2>5. i \notin Having(e, "first")
    BY <1>2 DEF Having
  <2>6. Cardinality(Having(e, "first")') = Cardinality(Having(e, "first")) + 1
    BY <2>4, <2>5, HavingFinite, FS_AddElement
  <2>7. numLeft'[e] = N - Cardinality(Having(e, "first")')
    BY <2>1, <2>6, <1>3, HavingFinite, ThreadsFinite DEF Collecting
  <2>8. Collecting(e)'
    BY <2>2, <2>3, <2>7, <1>3 DEF Collecting
  <2>9. QED
    BY <2>8
<1>12. BarrierOK'
  <2>1. /\ numLeft' = [b \in Globals \cup {ThreadBarrier} |-> numLeft'[b]]
        /\ generation' \in [Globals \cup {ThreadBarrier} -> {0, 1}]
    BY <1>1, <1>4, <1>7 DEF BarrierInv, BarrierOK
  <2>2. QED
    BY <2>1, <1>9, <1>10, <1>11 DEF BarrierOK
<1>13. QED
  BY <1>5, <1>12 DEF BarrierInv

(* A thread arrives at the second wait.                                      *)
LEMMA SecondArrival ==
  ASSUME NEW i \in Threads, BarrierInv, SecondBarrier(i)
  PROVE  BarrierInv'
<1>0. PICK e \in Globals : e = at[i]
  BY DEF BarrierInv, PlaceOK, SecondBarrier, InGlobal
<1>1. e \in Globals /\ e = at[i] /\ pc[i] = "barrier2"
  BY <1>0 DEF SecondBarrier
<1>2. Role(i, e) = "between"
  BY <1>1 DEF Role, AloneAt
<1>3. Finishing(e)
  BY <1>1, <1>2 DEF BarrierInv, BarrierOK, Collecting
<1>4. /\ at' = at
      /\ gen' = [gen EXCEPT ![i] = generation[e]]
      /\ numLeft[e] = 1 =>
           /\ generation' = [generation EXCEPT ![e] = 1 - generation[e]]
           /\ numLeft' = [numLeft EXCEPT ![e] = N]
           /\ pc' = [pc EXCEPT ![i] = "done"]
      /\ numLeft[e] # 1 =>
           /\ generation' = generation
           /\ numLeft' = [numLeft EXCEPT ![e] = numLeft[e] - 1]
           /\ pc' = [pc EXCEPT ![i] = "wait2"]
  BY <1>1 DEF SecondBarrier, Arrive, Goto
<1> DEFINE l == IF numLeft[e] = 1 THEN "done" ELSE "wait2"
<1>5. l \in InGlobal /\ l \notin InHandler
  BY DEF InGlobal, InHandler
<1>6. pc' = [pc EXCEPT ![i] = l]
  BY <1>4
<1>7. at' = [at EXCEPT ![i] = e]
  BY <1>1, <1>4, AtKept DEF BarrierInv
<1>8. PlaceOK' /\ OnlyMoves(i) /\ pc'[i] = l
  <2>1. PICK g : gen' = [gen EXCEPT ![i] = g]
    BY <1>4
  <2>2. PlaceOK
    BY DEF BarrierInv
  <2> HIDE DEF l
  <2>3. QED
    BY <1>5, <1>6, <1>7, <2>1, <2>2, PlaceStep
<1>9. gen'[i] = generation[e] /\ generation[e] \in {0, 1} /\ 1 - generation[e] # generation[e]
  BY <1>1, <1>4 DEF BarrierInv, PlaceOK, BarrierOK
<1>10. \A b \in Globals \ {e} : SameBarrier(b)
  BY <1>4 DEF BarrierInv, BarrierOK, SameBarrier
<1>11. ASSUME NEW b \in Globals, b # e
       PROVE  (Collecting(b) \/ Finishing(b))'
  <2>1. KeepsRole(i, b)
    BY <1>1, <1>4, <1>11 DEF KeepsRole, Role
  <2>2. QED
    BY <2>1, <1>8, <1>10, <1>11, RoleKept DEF BarrierInv, BarrierOK
<1>12. ASSUME numLeft[e] = 1
       PROVE  (Collecting(e) \/ Finishing(e))'
  <2>1. \A k \in Threads : k # i => Role(k, e) = "second"
    <3>1. i \notin Having(e, "second") /\ Having(e, "second") \in SUBSET Threads
      BY <1>2 DEF Having
    <3>2. N - Cardinality(Having(e, "second")) = 1
      BY <1>12, <1>3 DEF Finishing
    <3>3. QED
      BY <3>1, <3>2, LastOne DEF Having
  <2>2. generation'[e] = 1 - generation[e] /\ numLeft'[e] = N
    BY <1>1, <1>4, <1>12 DEF BarrierInv, BarrierOK
  <2>3. ASSUME NEW k \in Threads, k # i
        PROVE  Role(k, e)' = "away"
    <3>1. at[k] = e /\ pc[k] = "wait2" /\ gen[k] = generation[e]
      BY <2>1, <2>3 DEF Role
    <3>2. at'[k] = e /\ pc'[k] = "wait2" /\ gen'[k] # generation'[e]
      BY <3>1, <2>2, <2>3, <1>8, <1>9 DEF OnlyMoves
    <3>3. QED
      BY <3>2 DEF Role, AloneAt
  <2>4. Role(i, e)' = "away"
    BY <1>1, <1>4, <1>8, <1>12 DEF Role, AloneAt
  <2>5. Having(e, "first")' = {}
    BY <2>3, <2>4 DEF Having
  <2>6. numLeft'[e] = N - Cardinality(Having(e, "first")')
    BY <2>2, <2>5, FS_EmptySet, ThreadsFinite
  <2>7. Collecting(e)'
    BY <2>3, <2>4, <2>6 DEF Collecting
  <2>8. QED
    BY <2>7
<1>13. ASSUME numLeft[e] # 1
       PROVE  (Collecting(e) \/ Finishing(e))'
  <2>1. generation'[e] = generation[e] /\ numLeft'[e] = numLeft[e] - 1
    BY <1>1, <1>4, <1>13 DEF BarrierInv, BarrierOK
  <2>2. ASSUME NEW k \in Threads, k # i
        PROVE  Role(k, e)' = Role(k, e)
    BY <2>1, <2>2, <1>8 DEF OnlyMoves, Role
  <2>3. Role(i, e)' = "second"
    BY <2>1, <1>1, <1>4, <1>8, <1>9, <1>13 DEF Role, AloneAt
  <2>4. Having(e, "second")' = Having(e, "second") \cup {i}
    BY <2>2, <2>3 DEF Having
  <2>5. i \notin Having(e, "second")
    BY <1>2 DEF Having
  <2>6. Cardinality(Having(e, "second")') = Cardinality(Having(e, "second")) + 1
    BY <2>4, <2>5, HavingFinite, FS_AddElement
  <2>7. numLeft'[e] = N - Cardinality(Having(e, "second")')
    BY <2>1, <2>6, <1>3, HavingFinite, ThreadsFinite DEF Finishing
  <2>8. \A k \in Threads : Role(k, e)' \in {"between", "alone", "second"}
    BY <2>2, <2>3, <1>3 DEF Finishing
  <2>9. \A j, k \in Threads : Role(j, e)' = "alone" /\ Role(k, e)' = "alone" => j = k
    BY <2>2, <2>3, <1>3 DEF Finishing
  <2>10. Finishing(e)'
    BY <2>7, <2>8, <2>9 DEF Finishing
  <2>11. QED
    BY <2>10
<1>14. BarrierOK'
  <2>1. /\ numLeft' = [b \in Globals \cup {ThreadBarrier} |-> numLeft'[b]]
        /\ generation' \in [Globals \cup {ThreadBarrier} -> {0, 1}]
    BY <1>1, <1>4, <1>9 DEF BarrierInv, BarrierOK
  <2>2. QED
    BY <2>1, <1>11, <1>12, <1>13 DEF BarrierOK
<1>15. QED
  BY <1>8, <1>14 DEF BarrierInv

(* The barrier of the threads is another one.                                *)
LEMMA ThreadBarrierArrival ==
  ASSUME NEW i \in Threads, BarrierInv, EnterBarrier(i)
  PROVE  BarrierInv'
<1>1. /\ pc[i] = "enter"
      /\ at' = at
      /\ gen' = [gen EXCEPT ![i] = generation[ThreadBarrier]]
      /\ numLeft[ThreadBarrier] = 1 =>
           /\ generation' = [generation EXCEPT ![ThreadBarrier] = 1 - generation[ThreadBarrier]]
           /\ numLeft' = [numLeft EXCEPT ![ThreadBarrier] = N]
           /\ pc' = [pc EXCEPT ![i] = "merge"]
      /\ numLeft[ThreadBarrier] # 1 =>
           /\ generation' = generation
           /\ numLeft' = [numLeft EXCEPT ![ThreadBarrier] = numLeft[ThreadBarrier] - 1]
           /\ pc' = [pc EXCEPT ![i] = "entering"]
  BY DEF EnterBarrier, Arrive, Goto
<1>2. PICK l \in {"merge", "entering"} : pc' = [pc EXCEPT ![i] = l]
  BY <1>1
<1>3. at' = [at EXCEPT ![i] = at[i]]
  BY <1>1, AtKept DEF BarrierInv
<1>4. l \notin InGlobal /\ l \notin InHandler
  BY DEF InGlobal, InHandler
<1>5. PlaceOK' /\ OnlyMoves(i) /\ pc'[i] = l
  <2>1. PICK g : gen' = [gen EXCEPT ![i] = g]
    BY <1>1
  <2>2. PICK a : at' = [at EXCEPT ![i] = a]
    BY <1>3
  <2>3. PlaceOK
    BY DEF BarrierInv
  <2>4. QED
    BY <1>2, <1>4, <2>1, <2>2, <2>3, PlaceStep
<1>6. /\ numLeft' = [b \in Globals \cup {ThreadBarrier} |-> numLeft'[b]]
      /\ generation' \in [Globals \cup {ThreadBarrier} -> {0, 1}]
      /\ \A e \in Globals : SameBarrier(e)
  BY <1>1, ThreadBarrierApart DEF BarrierInv, BarrierOK, SameBarrier
<1>7. Out(i) /\ Out(i)'
  BY <1>1, <1>5 DEF Out, AloneAt
<1>8. ASSUME NEW e \in Globals
      PROVE  (Collecting(e) \/ Finishing(e))'
  BY <1>5, <1>6, <1>7, OutKeepsRole, RoleKept DEF BarrierInv, BarrierOK
<1>9. QED
  BY <1>5, <1>6, <1>8 DEF BarrierInv, BarrierOK

-----------------------------------------------------------------------------
(* All other steps leave the barriers alone.                                 *)

(* A thread that moves on, at no barrier or with its role in one.            *)
LEMMA MoveOn ==
  ASSUME NEW i \in Threads, BarrierInv, NEW l,
         pc' = [pc EXCEPT ![i] = l], UNCHANGED <<at, barriers>>,
         l \in InGlobal => at[i] \in Globals,
         l \in InHandler => at[i] \notin Globals,
         \A e \in Globals : KeepsRole(i, e)
  PROVE  BarrierInv'
<1>1. PlaceOK' /\ OnlyMoves(i)
  BY PcStep DEF BarrierInv, barriers
<1>2. QED
  BY <1>1, BarriersKept DEF BarrierInv, barriers

(* The role depends on the place.                                            *)
LEMMA PlaceMoved ==
  ASSUME NEW i \in Threads, BarrierInv, NEW l, pc' = [pc EXCEPT ![i] = l]
  PROVE  pc'[i] = l
BY DEF BarrierInv, PlaceOK

(* A thread that stays outside the barriers.                                 *)
LEMMA MoveOutside ==
  ASSUME NEW i \in Threads, BarrierInv, Out(i), NEW l,
         pc' = [pc EXCEPT ![i] = l], UNCHANGED <<at, barriers>>,
         at[i] \notin Globals \/ l \notin AloneAt \cup {"barrier2", "wait1", "wait2"},
         l \in InGlobal => at[i] \in Globals,
         l \in InHandler => at[i] \notin Globals
  PROVE  BarrierInv'
<1>1. Out(i)'
  BY PlaceMoved DEF Out
<1>2. \A e \in Globals : KeepsRole(i, e)
  BY <1>1, OutKeepsRole
<1>3. QED
  BY <1>2, MoveOn

(* An operation of a handler on its own queue changes nothing here.          *)
LEMMA NothingMoved ==
  ASSUME BarrierInv, UNCHANGED <<pc, at, barriers>>
  PROVE  BarrierInv'
BY DEF BarrierInv, PlaceOK, BarrierOK, Collecting, Finishing, Having, Role, barriers

(* The main thread calls simulate() and comes back.                          *)
LEMMA MainSteps ==
  ASSUME BarrierInv, Return \/ \E until \in Limits : Simulate(until)
  PROVE  BarrierInv'
<1>1. 0 \in Threads
  BY SimParameters DEF Threads
<1>2. PICK l \in {"python", "enter"} :
        /\ pc[0] \in {"python", "return"}
        /\ pc' = [pc EXCEPT ![0] = l] /\ UNCHANGED <<at, barriers>>
  BY DEF Return, Simulate, Goto
<1>3. Out(0)
  BY <1>2 DEF Out, AloneAt
<1>4. l \notin AloneAt \cup {"barrier2", "wait1", "wait2"} \cup InGlobal \cup InHandler
  BY <1>2 DEF AloneAt, InGlobal, InHandler
<1>5. QED
  BY <1>1, <1>2, <1>3, <1>4, MoveOutside

(* The loop, up to the handler of an event or the first wait of a global one.*)
LEMMA LoopSteps ==
  ASSUME NEW i \in Threads, BarrierInv,
         LeaveBarrier(i) \/ StartLoop(i) \/ ServiceOne(i) \/ HandlerReturn(i)
  PROVE  BarrierInv'
<1>1. CASE LeaveBarrier(i) \/ StartLoop(i)
  <2>1. PICK l \in {"merge", "loop"} :
          /\ pc[i] \in {"entering", "merge"}
          /\ pc' = [pc EXCEPT ![i] = l] /\ UNCHANGED <<at, barriers>>
    BY <1>1 DEF LeaveBarrier, StartLoop, Goto
  <2>2. Out(i)
    BY <2>1 DEF Out, AloneAt
  <2>3. l \notin AloneAt \cup {"barrier2", "wait1", "wait2"} \cup InGlobal \cup InHandler
    BY <2>1 DEF AloneAt, InGlobal, InHandler
  <2>4. QED
    BY <2>1, <2>2, <2>3, MoveOutside
<1>2. CASE ServiceOne(i) \/ HandlerReturn(i)
  <2>1. \E a : \E l \in {"barrier1", "handler", "loop"} :
          /\ pc' = [pc EXCEPT ![i] = l]
          /\ at' = [at EXCEPT ![i] = a]
          /\ l = "barrier1" => a \in Globals
          /\ l = "handler" => a \notin Globals
    <3>1. CASE ServiceOne(i)
      <4> DEFINE a == Head(mainq[i]).event
      <4>1. pc' = [pc EXCEPT ![i] = IF a \in Globals THEN "barrier1" ELSE "handler"]
        BY <3>1 DEF ServiceOne, Goto
      <4>2. at' = [at EXCEPT ![i] = a]
        BY <3>1 DEF ServiceOne
      <4> HIDE DEF a
      <4>3. QED
        BY <4>1, <4>2
    <3>2. CASE HandlerReturn(i)
      <4>1. pc' = [pc EXCEPT ![i] = "loop"] /\ at' = [at EXCEPT ![i] = NoEvent]
        BY <3>2 DEF HandlerReturn, Goto
      <4>2. QED
        BY <4>1
    <3>3. QED
      BY <1>2, <3>1, <3>2
  <2>2. PICK a, l : /\ l \in {"barrier1", "handler", "loop"}
                    /\ pc' = [pc EXCEPT ![i] = l]
                    /\ at' = [at EXCEPT ![i] = a]
                    /\ l = "barrier1" => a \in Globals
                    /\ l = "handler" => a \notin Globals
    BY <2>1
  <2>3. UNCHANGED barriers /\ pc[i] \in {"loop", "handler"}
    BY <1>2 DEF ServiceOne, HandlerReturn
  <2>4. (l \in InGlobal => a \in Globals) /\ (l \in InHandler => a \notin Globals)
    BY <2>2 DEF InGlobal, InHandler
  <2>5. gen' = [gen EXCEPT ![i] = gen[i]]
    BY <2>3, GenKept DEF BarrierInv, barriers
  <2>6. PlaceOK' /\ OnlyMoves(i) /\ pc'[i] = l
    BY <2>2, <2>4, <2>5, PlaceStep DEF BarrierInv
  <2>7. Out(i) /\ Out(i)'
    BY <2>2, <2>3, <2>6 DEF Out, AloneAt
  <2>8. QED
    BY <2>3, <2>6, <2>7, OutStep DEF barriers
<1>3. QED
  BY <1>1, <1>2

(* The operations of a handler.                                              *)
LEMMA HandlerSteps ==
  ASSUME NEW i \in Threads, BarrierInv,
         \/ ExitSimLoop(i)
         \/ \E k \in Threads : SendMessage(i, k) \/ Migrate(i, k)
         \/ MigrateLock(i) \/ MigrateSchedule(i) \/ MigrateBack(i)
  PROVE  BarrierInv'
<1>1. PICK l \in {"globalQ", "insert", "migrate", "migrated", "return home", "handler"} :
        /\ pc[i] \in InHandler
        /\ pc' = [pc EXCEPT ![i] = l] /\ UNCHANGED <<at, barriers>>
  BY DEF ExitSimLoop, GlobalSchedule, SendMessage, Operate, Migrate, MigrateLock,
         MigrateSchedule, MigrateBack, Goto, InHandler
<1>2. at[i] \notin Globals
  BY <1>1 DEF BarrierInv, PlaceOK
<1>3. Out(i)
  BY <1>2 DEF Out
<1>4. l \notin InGlobal
  BY <1>1 DEF InGlobal
<1>5. QED
  BY <1>1, <1>2, <1>3, <1>4, MoveOutside

(* Scheduling a message or, in process(), a global event.                    *)
LEMMA InsertSteps ==
  ASSUME NEW i \in Threads, BarrierInv,
         LockGlobalQ(i) \/ AsyncInsert(i) \/ SetFlag(i) \/ Process(i)
  PROVE  BarrierInv'
<1>1. PICK l \in {"globalQ", "insert", "flag", "barrier2", "handler"} :
        /\ pc[i] \in AloneAt
        /\ pc' = [pc EXCEPT ![i] = l] /\ UNCHANGED <<at, barriers>>
        /\ l = "barrier2" => pc[i] = "process" \/ at[i] \in Globals
        /\ l = "handler" => at[i] \notin Globals
  BY DEF LockGlobalQ, AsyncInsert, SetFlag, Process, GlobalSchedule, Goto, AloneAt
<1>2. (l \in InGlobal => at[i] \in Globals) /\ (l \in InHandler => at[i] \notin Globals)
  BY <1>1 DEF BarrierInv, PlaceOK, InGlobal, InHandler
<1>3. pc'[i] = l
  BY <1>1, PlaceMoved
<1>4. ASSUME NEW e \in Globals
      PROVE  KeepsRole(i, e)
  <2>1. CASE at[i] # e
    BY <1>1, <2>1 DEF KeepsRole, Role
  <2>2. CASE at[i] = e
    <3>1. Role(i, e) = "alone"
      BY <1>1, <2>2 DEF Role
    <3>2. l \in AloneAt \/ l = "barrier2"
      BY <1>1, <2>2 DEF AloneAt
    <3>3. at'[i] = e
      BY <1>1, <2>2
    <3>4. Role(i, e)' = "alone" \/ Role(i, e)' = "between"
      BY <1>3, <3>2, <3>3 DEF Role
    <3>5. QED
      BY <3>1, <3>4 DEF KeepsRole
  <2>3. QED
    BY <2>1, <2>2
<1>5. QED
  BY <1>1, <1>2, <1>4, MoveOn

(* A thread leaves the first wait.                                           *)
LEMMA FirstLeft ==
  ASSUME NEW i \in Threads, BarrierInv, LeaveFirst(i)
  PROVE  BarrierInv'
<1>1. PICK l \in {"process", "barrier2"} :
        /\ pc' = [pc EXCEPT ![i] = l] /\ UNCHANGED <<at, barriers>>
        /\ \/ pc[i] = "last" /\ l = "process"
           \/ pc[i] = "wait1" /\ gen[i] # generation[at[i]] /\ l = "barrier2"
  BY DEF LeaveFirst, AfterFirst, Notified, Goto
<1>2. at[i] \in Globals /\ l \notin InHandler
  BY <1>1 DEF BarrierInv, PlaceOK, InGlobal, InHandler
<1>3. pc'[i] = l
  BY <1>1, PlaceMoved
<1>4. ASSUME NEW e \in Globals
      PROVE  Role(i, e)' = Role(i, e)
  BY <1>1, <1>3 DEF Role, AloneAt, barriers
<1>5. \A e \in Globals : KeepsRole(i, e)
  BY <1>4 DEF KeepsRole
<1>6. QED
  BY <1>1, <1>2, <1>5, MoveOn

(* A thread leaves the second wait, and with it the event.                   *)
LEMMA SecondLeft ==
  ASSUME NEW i \in Threads, BarrierInv, LeaveSecond(i)
  PROVE  BarrierInv'
<1>1. PICK l \in {"loop", "return", "enter"} : pc' = [pc EXCEPT ![i] = l]
  BY DEF LeaveSecond, QuantumDone, Goto
<1>2. /\ at' = [at EXCEPT ![i] = NoEvent] /\ UNCHANGED barriers
      /\ pc[i] = "done" \/ (pc[i] = "wait2" /\ gen[i] # generation[at[i]])
  BY DEF LeaveSecond, Notified
<1>3. l \notin InGlobal /\ l \notin InHandler
  BY <1>1 DEF InGlobal, InHandler
<1>4. gen' = [gen EXCEPT ![i] = gen[i]]
  BY <1>2, GenKept DEF BarrierInv, barriers
<1>5. PlaceOK' /\ OnlyMoves(i) /\ pc'[i] = l /\ at'[i] = NoEvent
  BY <1>1, <1>2, <1>3, <1>4, PlaceStep DEF BarrierInv
<1>6. ASSUME NEW e \in Globals
      PROVE  KeepsRole(i, e)
  <2>1. Role(i, e) = "away"
    BY <1>2 DEF Role, AloneAt
  <2>2. Role(i, e)' = "away"
    BY <1>5, LocalEventsApart DEF Role
  <2>3. QED
    BY <2>1, <2>2 DEF KeepsRole
<1>7. QED
  BY <1>2, <1>5, <1>6, BarriersKept DEF BarrierInv, barriers

(* Every step keeps the invariant.                                           *)
LEMMA NextBarriers == BarrierInv /\ [Next]_vars => BarrierInv'
<1> SUFFICES ASSUME BarrierInv, [Next]_vars PROVE BarrierInv'
  OBVIOUS
<1>1. CASE UNCHANGED vars
  BY <1>1, NothingMoved DEF vars
<1>2. CASE Return \/ \E until \in Limits : Simulate(until)
  BY <1>2, MainSteps
<1>3. ASSUME NEW i \in Threads, Step(i)
      PROVE  BarrierInv'
  <2>1. CASE EnterBarrier(i)
    BY <2>1, ThreadBarrierArrival
  <2>2. CASE LeaveBarrier(i) \/ StartLoop(i) \/ ServiceOne(i) \/ HandlerReturn(i)
    BY <2>2, LoopSteps
  <2>3. CASE ScheduleWork(i)
    BY <2>3, NothingMoved DEF ScheduleWork
  <2>4. CASE \/ ExitSimLoop(i)
             \/ \E k \in Threads : SendMessage(i, k) \/ Migrate(i, k)
             \/ MigrateLock(i) \/ MigrateSchedule(i) \/ MigrateBack(i)
    BY <2>4, HandlerSteps
  <2>5. CASE LockGlobalQ(i) \/ AsyncInsert(i) \/ SetFlag(i) \/ Process(i)
    BY <2>5, InsertSteps
  <2>6. CASE FirstBarrier(i)
    BY <2>6, FirstArrival
  <2>7. CASE LeaveFirst(i)
    BY <2>7, FirstLeft
  <2>8. CASE SecondBarrier(i)
    BY <2>8, SecondArrival
  <2>9. CASE LeaveSecond(i)
    BY <2>9, SecondLeft
  <2>10. QED
    BY <1>3, <2>1, <2>2, <2>3, <2>4, <2>5, <2>6, <2>7, <2>8, <2>9 DEF Step
<1>4. QED
  BY <1>1, <1>2, <1>3 DEF Next

(* While one thread processes a global event, the others are inside it.      *)
LEMMA AloneInside == BarrierInv => ProcessAlone
<1> SUFFICES ASSUME BarrierInv, NEW i \in Threads, NEW j \in Threads, Processing(i), i # j
             PROVE  at[j] = at[i] /\ pc[j] \in {"wait1", "barrier2", "wait2"}
  BY DEF ProcessAlone
<1>1. PICK e \in Globals : e = at[i]
  BY DEF Processing
<1>2. Role(i, e) = "alone"
  BY <1>1 DEF Processing, Role, AloneAt
<1>3. Finishing(e)
  BY <1>2 DEF BarrierInv, BarrierOK, Collecting
<1>4. Role(j, e) \in {"between", "second"}
  BY <1>2, <1>3 DEF Finishing
<1>5. QED
  BY <1>1, <1>4 DEF Role

(* The barriers of global events let one thread process an event while all   *)
(* others wait in it, for any number of queues, any handlers, and threads    *)
(* that are still on their way out of the previous round.                    *)
THEOREM ProcessingIsAlone == Spec => []ProcessAlone
<1>1. Init => BarrierInv
  BY InitBarriers
<1>2. BarrierInv /\ [Next]_vars => BarrierInv'
  BY NextBarriers
<1>3. BarrierInv => ProcessAlone
  BY AloneInside
<1>4. QED
  BY <1>1, <1>2, <1>3, PTL DEF Spec

-----------------------------------------------------------------------------
(* The phases of the threads, and where the quantum event is.                *)

AtRest == {"python", "return", "enter", "entering", "merge", "loop"}
Inserting == {"globalQ", "insert", "flag"}

Events == Globals \cup {Work, Message, Io}
Item == [event : Events, when : Nat]
Call == [event : Events \cup {NoEvent}, when : Nat, queues : Seq(Threads)]

QueuesType ==
  /\ mainq \in [Threads -> Seq(Item)]
  /\ asyncq \in [Threads -> Seq(Item)]
  /\ curTick \in [Threads -> Nat]
  /\ todo \in [Threads -> Call]

(* The queues that a global event still has to be put on.                    *)
Remaining(L) == [n \in 1 .. L |-> N - L + n - 1]

(* A thread schedules the quantum event while it processes it, or a message  *)
(* or its exit event in a handler.                                           *)
InCall(i) ==
  \/ /\ at[i] = Quantum /\ todo[i].event = Quantum
     /\ Len(todo[i].queues) \in 1 .. N
     /\ todo[i].queues = Remaining(Len(todo[i].queues))
  \/ /\ at[i] \notin Globals /\ todo[i].event = Exit(i)
     /\ Len(todo[i].queues) \in 1 .. N
     /\ todo[i].queues = Remaining(Len(todo[i].queues))
  \/ /\ at[i] \notin Globals /\ todo[i].event = Message
     /\ Len(todo[i].queues) = 1

CallsOK ==
  \A i \in Threads :
    /\ pc[i] \in InGlobal \cup InHandler \cup AtRest \cup Inserting
    /\ pc[i] \in AtRest => at[i] = NoEvent
    /\ pc[i] \in Inserting => InCall(i)
    /\ pc[i] = "globalQ" => Len(todo[i].queues) = N
    /\ pc[i] \in {"migrate", "migrated"} => Len(todo[i].queues) = 1

(* Thread i has been let out of the second wait; it is counted in the        *)
(* barrier of the threads.                                                   *)
Leaving(i) == pc[i] = "done" \/ (pc[i] = "wait2" /\ gen[i] # generation[at[i]])
Counted(i) == pc[i] = "entering" /\ gen[i] = generation[ThreadBarrier]

(* Outside the loop, where the main thread calls simulate(), ...             *)
Outside(i) ==
  \/ pc[i] = "enter" \/ Counted(i) \/ (Leaving(i) /\ at[i] \in GlobalExits)
  \/ i = 0 /\ pc[i] \in {"python", "return"}

Gathering ==
  /\ \A i \in Threads : Outside(i)
  /\ numLeft[ThreadBarrier] = N - Cardinality({i \in Threads : Counted(i)})

(* ... and in it.                                                            *)
Inside(i) ==
  /\ pc[i] \notin {"python", "return", "enter"} /\ ~Counted(i)
  /\ Leaving(i) => at[i] = Quantum

Running ==
  /\ \A i \in Threads : Inside(i)
  /\ numLeft[ThreadBarrier] = N

Phases == Gathering \/ Running

(* Event e is on a list; it is there once at most.                           *)
On(list, e) == \E n \in DOMAIN list : list[n].event = e
Once(list, e) == \A m, n \in DOMAIN list : list[m].event = e /\ list[n].event = e => m = n

(* The thread that processes the quantum event has not put it on queue k,    *)
(* has just put it there.                                                    *)
NotYet(i, k) ==
  /\ at[i] = Quantum
  /\ \/ pc[i] \in {"last", "process", "globalQ"}
     \/ pc[i] = "insert" /\ k >= N - Len(todo[i].queues)
     \/ pc[i] = "flag" /\ k > N - Len(todo[i].queues)
JustPut(i, k) ==
  at[i] = Quantum /\ pc[i] = "flag" /\ k = N - Len(todo[i].queues)

(* Where the quantum event of queue k is.                                    *)
Expected(k) ==
  IF pc[0] = "python" THEN "nowhere"
  ELSE IF at[k] # Quantum THEN "mainq"
  ELSE IF Leaving(k) THEN "asyncq"
  ELSE IF pc[k] = "barrier1" \/ Role(k, Quantum) = "first" THEN "nowhere"
  ELSE IF \E i \in Threads : NotYet(i, k) THEN "nowhere"
  ELSE IF \E i \in Threads : JustPut(i, k) THEN "unflagged"
  ELSE "asyncq"

QuantumAt(k, place) ==
  /\ On(mainq[k], Quantum) <=> place = "mainq"
  /\ On(asyncq[k], Quantum) <=> place \in {"asyncq", "unflagged"}
  /\ place \in {"mainq", "asyncq"} => <<Quantum, k>> \in scheduled
  /\ Once(mainq[k], Quantum) /\ Once(asyncq[k], Quantum)

QuantumInv == \A k \in Threads : QuantumAt(k, Expected(k))

LoopInv == BarrierInv /\ QueuesType /\ CallsOK /\ Phases /\ QuantumInv
-----------------------------------------------------------------------------
(* The lists of events.                                                      *)

(* d is the list with x put after its first m entries, ...                   *)
Put(list, d, m, x) ==
  /\ d \in Seq(Item) /\ Len(d) = Len(list) + 1
  /\ \A n \in 1 .. Len(list) + 1 :
       d[n] = IF n <= m THEN list[n] ELSE IF n = m + 1 THEN x ELSE list[n - 1]

(* ... or without the entry at position p.                                   *)
Dropped(list, d, p) ==
  /\ d \in Seq(Item) /\ Len(d) = Len(list) - 1
  /\ \A n \in 1 .. Len(list) - 1 : d[n] = IF n < p THEN list[n] ELSE list[n + 1]

(* What is left of a list: its entries are entries of the list, at places    *)
(* that keep their order.                                                    *)
LEMMA RemainsIs ==
  ASSUME NEW list \in Seq(Item), NEW d \in Remains(list)
  PROVE  /\ d \in Seq(Item)
         /\ \E f \in [DOMAIN d -> DOMAIN list] :
              /\ \A n \in DOMAIN d : d[n] = list[f[n]]
              /\ \A a, b \in DOMAIN d : a < b => f[a] < f[b]
              /\ \A a \in DOMAIN d : f[a] \in Int /\ a \in Int
<1> DEFINE Rising(m) == {g \in [1 .. m -> DOMAIN list] : \A a, b \in 1 .. m : a < b => g[a] < g[b]}
<1>1. PICK m \in 0 .. Len(list) : \E f \in Rising(m) : d = [n \in 1 .. m |-> list[f[n]]]
  BY DEF Remains
<1>2. PICK f \in Rising(m) : d = [n \in 1 .. m |-> list[f[n]]]
  BY <1>1
<1>3. m \in Nat /\ DOMAIN list = 1 .. Len(list) /\ \A p \in DOMAIN list : list[p] \in Item
  OBVIOUS
<1>4. DOMAIN d = 1 .. m /\ f \in [1 .. m -> DOMAIN list]
  BY <1>2
<1>5. d \in Seq(Item)
  <2>1. d \in [1 .. m -> Item]
    BY <1>2, <1>3, <1>4
  <2>2. QED
    BY <1>3, <2>1
<1>6. QED
  BY <1>2, <1>3, <1>4, <1>5

(* A list of which nothing is lost is one of them.                           *)
LEMMA AllRemains ==
  ASSUME NEW list \in Seq(Item)
  PROVE  list \in Remains(list)
<1> DEFINE L == Len(list)
           Rising(m) == {g \in [1 .. m -> DOMAIN list] : \A a, b \in 1 .. m : a < b => g[a] < g[b]}
           Lists(m) == {[n \in 1 .. m |-> list[g[n]]] : g \in Rising(m)}
           f == [n \in 1 .. L |-> n]
<1>1. L \in 0 .. L /\ DOMAIN list = 1 .. L
  OBVIOUS
<1>2. f \in Rising(L)
  BY <1>1
<1>3. list = [n \in 1 .. L |-> list[f[n]]]
  BY <1>1
<1>4. list \in Lists(L)
  <2> HIDE DEF Rising, f
  <2>1. QED
    BY <1>2, <1>3
<1>5. Remains(list) = UNION {Lists(m) : m \in 0 .. L}
  BY DEF Remains
<1>6. QED
  <2> HIDE DEF Lists
  <2>1. QED
    BY <1>1, <1>4, <1>5

(* It has no other events, and none twice.                                   *)
LEMMA RemainsFacts ==
  ASSUME NEW list \in Seq(Item), NEW d \in Remains(list)
  PROVE  /\ d \in Seq(Item) /\ Content(d) \subseteq Content(list)
         /\ \A e : (On(d, e) => On(list, e)) /\ (Once(list, e) => Once(d, e))
<1>1. PICK f \in [DOMAIN d -> DOMAIN list] :
        /\ \A n \in DOMAIN d : d[n] = list[f[n]]
        /\ \A a, b \in DOMAIN d : a < b => f[a] < f[b]
        /\ \A a \in DOMAIN d : f[a] \in Int /\ a \in Int
  BY RemainsIs
<1>2. Content(d) \subseteq Content(list)
  BY <1>1 DEF Content
<1>3. ASSUME NEW e, On(d, e)
      PROVE  On(list, e)
  BY <1>1, <1>3 DEF On
<1>4. ASSUME NEW e, Once(list, e), NEW a \in DOMAIN d, NEW b \in DOMAIN d,
             d[a].event = e, d[b].event = e
      PROVE  a = b
  <2>1. f[a] = f[b]
    BY <1>1, <1>4 DEF Once
  <2>2. QED
    BY <1>1, <2>1
<1>5. QED
  BY <1>2, <1>3, <1>4, RemainsIs DEF Once

(* A migrated thread puts its event on a queue, and the owner may lose some  *)
(* of what it is merging.                                                    *)
LEMMA MigrateFacts ==
  ASSUME QueuesType, CallsOK, NEW i \in Threads, MigrateSchedule(i)
  PROVE  \E h \in Threads :
           /\ \/ mainq' = mainq /\ asyncq' = asyncq
              \/ /\ mainq' = [mainq EXCEPT ![h] = Inserted(mainq[h], Entry(Io, curTick[h]))]
                 /\ \E rest \in Remains(asyncq[h]) :
                      /\ asyncq' = [asyncq EXCEPT ![h] = rest]
                      /\ pc[h] = "merge" \/ rest = asyncq[h]
           /\ scheduled \subseteq scheduled' /\ curTick' = curTick
<1>1. PICK h : h = Head(todo[i].queues)
  OBVIOUS
<1>2. h \in Threads
  <2>1. Len(todo[i].queues) = 1 /\ todo[i].queues \in Seq(Threads)
    BY DEF CallsOK, MigrateSchedule, QueuesType, Call
  <2>2. QED
    BY <1>1, <2>1
<1>3. /\ \/ mainq' = mainq /\ asyncq' = asyncq
         \/ mainq' = [mainq EXCEPT ![h] = Inserted(mainq[h], Entry(Io, curTick[h]))] /\ asyncq' = asyncq
         \/ /\ mainq' = [mainq EXCEPT ![h] = Inserted(mainq[h], Entry(Io, curTick[h]))]
            /\ pc[h] = "merge"
            /\ \E rest \in Remains(asyncq[h]) : asyncq' = [asyncq EXCEPT ![h] = rest]
      /\ scheduled \subseteq scheduled' /\ curTick' = curTick
  <2> HIDE DEF Remains, Inserted, Entry
  <2>1. QED
    BY <1>1 DEF MigrateSchedule
<1>4. /\ asyncq = [asyncq EXCEPT ![h] = asyncq[h]]
      /\ asyncq[h] \in Remains(asyncq[h])
  <2>1. asyncq \in [Threads -> Seq(Item)]
    BY DEF QueuesType
  <2>2. asyncq[h] \in Remains(asyncq[h])
    BY <1>2, <2>1, AllRemains
  <2>3. QED
    BY <2>1, <2>2
<1>5. QED
  BY <1>2, <1>3, <1>4

(* The place a new event goes to exists, and is the one before the first     *)
(* event that is not earlier.                                                *)
LEMMA PointFacts ==
  ASSUME NEW list \in Seq(Item), NEW x
  PROVE  /\ InsertionPoint(list, x) \in 0 .. Len(list)
         /\ \A n \in 1 .. InsertionPoint(list, x) : Earlier(list[n], x)
         /\ InsertionPoint(list, x) < Len(list) =>
              ~Earlier(list[InsertionPoint(list, x) + 1], x)
<1> DEFINE L == Len(list)
           T == {n \in 1 .. L + 1 : n = L + 1 \/ ~Earlier(list[n], x)}
           P(m) == /\ \A n \in 1 .. m : Earlier(list[n], x)
                   /\ m < L => ~Earlier(list[m + 1], x)
<1>1. L \in Nat /\ 1 \in Nat /\ L + 1 \in 1 .. L + 1 /\ L + 1 \in T
  OBVIOUS
<1>2. PICK p \in 1 .. L + 1 : p \in T /\ \A n \in 1 .. p - 1 : n \notin T
  <2> HIDE DEF T
  <2>1. L + 1 \in Int
    BY <1>1
  <2>2. QED
    BY <1>1, <2>1, LeastPosition
<1>3. p - 1 \in 0 .. L
  BY <1>1, <1>2
<1>4. ASSUME NEW n \in 1 .. p - 1
      PROVE  Earlier(list[n], x)
  <2>1. n \in 1 .. L + 1 /\ n \notin T
    BY <1>1, <1>2
  <2>2. QED
    BY <2>1
<1>5. ASSUME p - 1 < L
      PROVE  ~Earlier(list[p - 1 + 1], x)
  <2>1. p # L + 1 /\ p - 1 + 1 = p
    BY <1>1, <1>2, <1>5
  <2>2. QED
    BY <1>2, <2>1
<1>6. \E m \in 0 .. L : P(m)
  BY <1>3, <1>4, <1>5
<1>7. InsertionPoint(list, x) = CHOOSE m \in 0 .. L : P(m)
  BY DEF InsertionPoint
<1> HIDE DEF P, L
<1>8. InsertionPoint(list, x) \in 0 .. L /\ P(InsertionPoint(list, x))
  BY <1>6, <1>7
<1>9. QED
  BY <1>8 DEF P, L

(* The entries of a concatenation.                                           *)
LEMMA ConcatFacts ==
  ASSUME NEW a \in Seq(Item), NEW b \in Seq(Item)
  PROVE  /\ a \o b \in Seq(Item) /\ Len(a \o b) = Len(a) + Len(b)
         /\ Len(a) \in Nat /\ Len(b) \in Nat
         /\ \A n \in 1 .. Len(a) + Len(b) :
              (a \o b)[n] = IF n <= Len(a) THEN a[n] ELSE b[n - Len(a)]
OBVIOUS

(* Inserted() puts the event there.                                          *)
LEMMA InsertedIs ==
  ASSUME NEW list \in Seq(Item), NEW x \in Item
  PROVE  \E m \in 0 .. Len(list) :
           /\ Put(list, Inserted(list, x), m, x)
           /\ \A n \in 1 .. m : Earlier(list[n], x)
           /\ m < Len(list) => ~Earlier(list[m + 1], x)
<1> DEFINE m == InsertionPoint(list, x)
<1>1. /\ m \in 0 .. Len(list) /\ Len(list) \in Nat
      /\ \A n \in 1 .. m : Earlier(list[n], x)
      /\ m < Len(list) => ~Earlier(list[m + 1], x)
  BY PointFacts
<1>2. Inserted(list, x) = SubSeq(list, 1, m) \o <<x>> \o SubSeq(list, m + 1, Len(list))
  BY DEF Inserted
<1> HIDE DEF m
<1> DEFINE a == SubSeq(list, 1, m)
           b == SubSeq(list, m + 1, Len(list))
<1>3. a \in Seq(Item) /\ Len(a) = m /\ \A n \in 1 .. m : a[n] = list[n]
  BY <1>1
<1>4. b \in Seq(Item) /\ Len(b) = Len(list) - m /\ \A n \in 1 .. Len(list) - m : b[n] = list[m + n]
  BY <1>1
<1>5. <<x>> \in Seq(Item) /\ Len(<<x>>) = 1 /\ <<x>>[1] = x
  OBVIOUS
<1> HIDE DEF a, b
<1>6. /\ a \o <<x>> \in Seq(Item) /\ Len(a \o <<x>>) = m + 1
      /\ \A n \in 1 .. m + 1 : (a \o <<x>>)[n] = IF n <= m THEN list[n] ELSE x
  BY <1>1, <1>3, <1>5
<1> DEFINE c == a \o <<x>>
<1> HIDE DEF c
<1>7. c \in Seq(Item) /\ Len(c) = m + 1
      /\ \A n \in 1 .. m + 1 : c[n] = IF n <= m THEN list[n] ELSE x
  BY <1>6 DEF c
<1>8. /\ c \o b \in Seq(Item) /\ Len(c \o b) = Len(list) + 1
      /\ \A n \in 1 .. Len(list) + 1 :
           (c \o b)[n] = IF n <= m + 1 THEN c[n] ELSE b[n - (m + 1)]
  <2>1. /\ c \o b \in Seq(Item) /\ Len(c \o b) = Len(c) + Len(b)
        /\ \A n \in 1 .. Len(c) + Len(b) :
             (c \o b)[n] = IF n <= Len(c) THEN c[n] ELSE b[n - Len(c)]
    BY <1>4, <1>7, ConcatFacts
  <2>2. Len(c) = m + 1 /\ Len(c) + Len(b) = Len(list) + 1
    BY <1>1, <1>4, <1>7
  <2>3. QED
    BY <2>1, <2>2
<1>9. ASSUME NEW n \in 1 .. Len(list) + 1
      PROVE  (c \o b)[n] = IF n <= m THEN list[n] ELSE IF n = m + 1 THEN x ELSE list[n - 1]
  <2>1. CASE n <= m + 1
    BY <1>1, <1>7, <1>8, <2>1
  <2>2. CASE n > m + 1
    <3>1. n - (m + 1) \in 1 .. Len(list) - m /\ m + (n - (m + 1)) = n - 1
      BY <1>1, <2>2
    <3>2. b[n - (m + 1)] = list[n - 1]
      BY <1>4, <3>1
    <3>3. ~(n <= m + 1) /\ ~(n <= m) /\ n # m + 1
      BY <1>1, <2>2
    <3>4. QED
      BY <1>8, <3>2, <3>3
  <2>3. n <= m + 1 \/ n > m + 1
    BY <1>1
  <2>4. QED
    BY <2>1, <2>2, <2>3
<1>10. Put(list, Inserted(list, x), m, x)
  <2>1. Inserted(list, x) = c \o b
    BY <1>2 DEF a, b, c
  <2>2. QED
    BY <1>8, <1>9, <2>1 DEF Put
<1>11. QED
  BY <1>1, <1>10

(* Append() puts it at the end.                                              *)
LEMMA AppendIs ==
  ASSUME NEW list \in Seq(Item), NEW x \in Item
  PROVE  Put(list, Append(list, x), Len(list), x)
<1>1. /\ Append(list, x) \in Seq(Item) /\ Len(Append(list, x)) = Len(list) + 1
      /\ \A n \in 1 .. Len(list) : Append(list, x)[n] = list[n]
      /\ Append(list, x)[Len(list) + 1] = x /\ Len(list) \in Nat
  OBVIOUS
<1>2. QED
  BY <1>1 DEF Put

(* Tail() drops the first entry.                                             *)
LEMMA TailIs ==
  ASSUME NEW list \in Seq(Item), list # <<>>
  PROVE  Dropped(list, Tail(list), 1) /\ 1 \in DOMAIN list /\ Head(list) = list[1]
BY DEF Dropped

(* Without() drops an entry with the event, if there is one.                 *)
LEMMA WithoutIs ==
  ASSUME NEW list \in Seq(Item), NEW e
  PROVE  IF On(list, e)
           THEN \E p \in DOMAIN list : list[p].event = e /\ Dropped(list, Without(list, e), p)
           ELSE Without(list, e) = list
<1>1. CASE ~On(list, e)
  BY <1>1 DEF On, Without
<1>2. CASE On(list, e)
  <2> DEFINE p == CHOOSE i \in DOMAIN list : list[i].event = e
  <2>1. p \in DOMAIN list /\ list[p].event = e
    BY <1>2 DEF On
  <2>2. Without(list, e) = SubSeq(list, 1, p - 1) \o SubSeq(list, p + 1, Len(list))
    BY <1>2 DEF On, Without
  <2> HIDE DEF p
  <2> DEFINE a == SubSeq(list, 1, p - 1)
             b == SubSeq(list, p + 1, Len(list))
  <2>3. p \in 1 .. Len(list) /\ Len(list) \in Nat
    BY <2>1
  <2>4. a \in Seq(Item) /\ Len(a) = p - 1 /\ \A n \in 1 .. p - 1 : a[n] = list[n]
    BY <2>3
  <2>5. b \in Seq(Item) /\ Len(b) = Len(list) - p /\ \A n \in 1 .. Len(list) - p : b[n] = list[p + n]
    BY <2>3
  <2> HIDE DEF a, b
  <2>6. /\ a \o b \in Seq(Item) /\ Len(a \o b) = Len(list) - 1
        /\ \A n \in 1 .. Len(list) - 1 : (a \o b)[n] = IF n < p THEN a[n] ELSE b[n - (p - 1)]
    <3>1. /\ a \o b \in Seq(Item) /\ Len(a \o b) = Len(a) + Len(b)
          /\ \A n \in 1 .. Len(a) + Len(b) :
               (a \o b)[n] = IF n <= Len(a) THEN a[n] ELSE b[n - Len(a)]
      BY <2>4, <2>5, ConcatFacts
    <3>2. Len(a) = p - 1 /\ Len(a) + Len(b) = Len(list) - 1
      BY <2>3, <2>4, <2>5
    <3>3. \A n \in 1 .. Len(list) - 1 : n <= p - 1 <=> n < p
      BY <2>3
    <3>4. QED
      BY <3>1, <3>2, <3>3
  <2>7. ASSUME NEW n \in 1 .. Len(list) - 1
        PROVE  (a \o b)[n] = IF n < p THEN list[n] ELSE list[n + 1]
    <3>1. CASE n < p
      BY <2>3, <2>4, <2>6, <3>1
    <3>2. CASE ~(n < p)
      <4>1. n - (p - 1) \in 1 .. Len(list) - p /\ p + (n - (p - 1)) = n + 1
        BY <2>3, <3>2
      <4>2. QED
        BY <2>3, <2>5, <2>6, <3>2, <4>1
    <3>3. QED
      BY <3>1, <3>2
  <2>8. Dropped(list, Without(list, e), p)
    BY <2>2, <2>6, <2>7 DEF Dropped, a, b
  <2>9. QED
    BY <1>2, <2>1, <2>8
<1>3. QED
  BY <1>1, <1>2

(* The events of a list after an insertion.                                  *)
LEMMA PutEvents ==
  ASSUME NEW list \in Seq(Item), NEW d, NEW m \in 0 .. Len(list), NEW x, Put(list, d, m, x), NEW e
  PROVE  /\ On(d, e) <=> On(list, e) \/ x.event = e
         /\ Once(list, e) /\ (x.event = e => ~On(list, e)) => Once(d, e)
<1> DEFINE L == Len(list)
<1>1. /\ L \in Nat /\ m \in Int /\ 0 <= m /\ m <= L
      /\ DOMAIN list = 1 .. L /\ DOMAIN d = 1 .. L + 1
      /\ \A n \in 1 .. L + 1 :
           d[n] = IF n <= m THEN list[n] ELSE IF n = m + 1 THEN x ELSE list[n - 1]
  BY DEF Put
<1> HIDE DEF L
<1>2. \A n \in 1 .. L + 1 : \/ n <= m /\ n \in 1 .. L /\ d[n] = list[n]
                            \/ n = m + 1 /\ d[n] = x
                            \/ n > m + 1 /\ n - 1 \in 1 .. L /\ d[n] = list[n - 1]
  BY <1>1
<1>3. ASSUME On(d, e)
      PROVE  On(list, e) \/ x.event = e
  BY <1>1, <1>2, <1>3 DEF On
<1>4. ASSUME On(list, e)
      PROVE  On(d, e)
  <2>1. PICK n \in 1 .. L : list[n].event = e
    BY <1>1, <1>4 DEF On
  <2>2. CASE n <= m
    BY <1>1, <2>1, <2>2 DEF On
  <2>3. CASE n > m
    <3>1. n + 1 \in 1 .. L + 1 /\ ~(n + 1 <= m) /\ n + 1 # m + 1 /\ n + 1 - 1 = n
      BY <1>1, <2>3
    <3>2. d[n + 1] = list[n]
      BY <1>1, <3>1
    <3>3. QED
      BY <1>1, <2>1, <3>1, <3>2 DEF On
  <2>4. QED
    BY <1>1, <2>2, <2>3
<1>5. ASSUME x.event = e
      PROVE  On(d, e)
  <2>1. m + 1 \in 1 .. L + 1 /\ d[m + 1] = x
    BY <1>1
  <2>2. QED
    BY <1>1, <1>5, <2>1 DEF On
<1>6. ASSUME Once(list, e), x.event = e => ~On(list, e),
             NEW j \in 1 .. L + 1, NEW k \in 1 .. L + 1, d[j].event = e, d[k].event = e
      PROVE  j = k
  <2>1. CASE x.event = e
    <3>1. j = m + 1 /\ k = m + 1
      BY <1>1, <1>2, <1>6, <2>1 DEF On
    <3>2. QED
      BY <3>1
  <2>2. CASE x.event # e
    <3>1. PICK a \in 1 .. L : d[j] = list[a] /\ a = IF j <= m THEN j ELSE j - 1
      BY <1>1, <1>2, <1>6, <2>2
    <3>2. PICK b \in 1 .. L : d[k] = list[b] /\ b = IF k <= m THEN k ELSE k - 1
      BY <1>1, <1>2, <1>6, <2>2
    <3>a. j # m + 1 /\ k # m + 1
      BY <1>1, <1>2, <1>6, <2>2
    <3>3. a = b /\ j # m + 1 /\ k # m + 1
      BY <1>1, <1>6, <3>a, <3>1, <3>2 DEF Once
    <3>4. QED
      BY <1>1, <3>1, <3>2, <3>3
  <2>3. QED
    BY <2>1, <2>2
<1>7. QED
  BY <1>1, <1>3, <1>4, <1>5, <1>6 DEF Once

(* The events of a list after a removal.                                     *)
LEMMA DroppedEvents ==
  ASSUME NEW list \in Seq(Item), NEW d, NEW p \in DOMAIN list, Dropped(list, d, p), NEW e
  PROVE  /\ Once(list, e) => Once(d, e)
         /\ list[p].event # e => (On(d, e) <=> On(list, e))
         /\ list[p].event = e /\ Once(list, e) => ~On(d, e)
<1> DEFINE L == Len(list)
<1>1. /\ L \in Nat /\ p \in 1 .. L
      /\ DOMAIN list = 1 .. L /\ DOMAIN d = 1 .. L - 1
      /\ \A n \in 1 .. L - 1 : d[n] = IF n < p THEN list[n] ELSE list[n + 1]
  BY DEF Dropped
<1> HIDE DEF L
<1>2. \A n \in 1 .. L - 1 : \/ n < p /\ n \in 1 .. L /\ d[n] = list[n]
                            \/ n >= p /\ n + 1 \in 1 .. L /\ n + 1 # p /\ d[n] = list[n + 1]
  BY <1>1
<1>3. ASSUME Once(list, e),
             NEW j \in 1 .. L - 1, NEW k \in 1 .. L - 1, d[j].event = e, d[k].event = e
      PROVE  j = k
  <2>1. PICK a \in 1 .. L : d[j] = list[a] /\ a = IF j < p THEN j ELSE j + 1
    BY <1>1, <1>2, <1>3
  <2>2. PICK b \in 1 .. L : d[k] = list[b] /\ b = IF k < p THEN k ELSE k + 1
    BY <1>1, <1>2, <1>3
  <2>3. a = b
    BY <1>1, <1>3, <2>1, <2>2 DEF Once
  <2>4. QED
    BY <1>1, <2>1, <2>2, <2>3
<1>4. ASSUME On(d, e)
      PROVE  On(list, e)
  BY <1>1, <1>2, <1>4 DEF On
<1>5. ASSUME On(list, e), list[p].event # e
      PROVE  On(d, e)
  <2>1. PICK n \in 1 .. L : list[n].event = e /\ n # p
    BY <1>1, <1>5 DEF On
  <2>2. CASE n < p
    <3>1. n \in 1 .. L - 1 /\ d[n] = list[n]
      BY <1>1, <2>2
    <3>2. QED
      BY <1>1, <2>1, <3>1 DEF On
  <2>3. CASE n > p
    <3>1. n - 1 \in 1 .. L - 1 /\ ~(n - 1 < p) /\ n - 1 + 1 = n
      BY <1>1, <2>3
    <3>2. d[n - 1] = list[n]
      BY <1>1, <3>1
    <3>3. QED
      BY <1>1, <2>1, <3>1, <3>2 DEF On
  <2>4. QED
    BY <1>1, <2>1, <2>2, <2>3
<1>6. ASSUME list[p].event = e, Once(list, e), On(d, e)
      PROVE  FALSE
  <2>1. PICK n \in 1 .. L - 1 : d[n].event = e
    BY <1>1, <1>6 DEF On
  <2>2. PICK k \in 1 .. L : k # p /\ d[n] = list[k]
    BY <1>1, <1>2, <2>1
  <2>3. QED
    BY <1>1, <1>6, <2>1, <2>2 DEF Once
<1>7. QED
  BY <1>1, <1>3, <1>4, <1>5, <1>6 DEF Once
-----------------------------------------------------------------------------
(* handleAsyncInsertions().                                                  *)

(* The list after each of the insertions.                                    *)
MergeFrom(k) ==
  LET merge[n \in 0 .. Len(asyncq[k])] ==
        IF n = 0 THEN mainq[k] ELSE Inserted(merge[n - 1], asyncq[k][n])
  IN  merge

(* Merged() is the last of them.                                             *)
LEMMA MergedIsMergeFrom == \A k : Merged(k) = MergeFrom(k)[Len(asyncq[k])]
BY DEF Merged, MergeFrom

(* One insertion follows the other.                                          *)
LEMMA MergeEquation ==
  ASSUME QueuesType, NEW k \in Threads
  PROVE  /\ Merged(k) = MergeFrom(k)[Len(asyncq[k])] /\ Len(asyncq[k]) \in Nat
         /\ MergeFrom(k) \in [0 .. Len(asyncq[k]) -> Seq(Item)]
         /\ MergeFrom(k)[0] = mainq[k]
         /\ \A n \in 0 .. Len(asyncq[k]) - 1 :
              /\ asyncq[k][n + 1] \in Item
              /\ MergeFrom(k)[n + 1] = Inserted(MergeFrom(k)[n], asyncq[k][n + 1])
<1> DEFINE L == Len(asyncq[k])
           Steps(g, n) == /\ g \in [0 .. n -> Seq(Item)] /\ g[0] = mainq[k]
                          /\ \A j \in 0 .. n - 1 : g[j + 1] = Inserted(g[j], asyncq[k][j + 1])
           T == {n \in 0 .. L : \E g : Steps(g, n)}
<1>1. /\ L \in Nat /\ mainq[k] \in Seq(Item)
      /\ \A n \in 0 .. L - 1 : n + 1 \in 0 .. L /\ asyncq[k][n + 1] \in Item
  BY DEF QueuesType
<1>2. 0 \in T
  <2> DEFINE g == [n \in 0 .. 0 |-> mainq[k]]
  <2>1. 0 \in 0 .. 0
    OBVIOUS
  <2>2. g \in [0 .. 0 -> Seq(Item)] /\ g[0] = mainq[k]
    BY <1>1, <2>1
  <2>3. Steps(g, 0)
    BY <2>2
  <2> HIDE DEF g, Steps
  <2>4. QED
    BY <1>1, <2>3
<1>3. ASSUME NEW n \in 0 .. L - 1, n \in T
      PROVE  n + 1 \in T
  <2>1. PICK g : Steps(g, n)
    BY <1>3
  <2>2. g[n] \in Seq(Item) /\ n \in Nat
    BY <2>1
  <2>3. Inserted(g[n], asyncq[k][n + 1]) \in Seq(Item)
    BY <1>1, <2>2, InsertedIs DEF Put
  <2> DEFINE h == [j \in 0 .. n + 1 |-> IF j <= n THEN g[j] ELSE Inserted(g[n], asyncq[k][n + 1])]
  <2>4. \A j \in 0 .. n + 1 : j <= n => j \in 0 .. n
    BY <2>2
  <2>5. h \in [0 .. n + 1 -> Seq(Item)]
    BY <2>1, <2>3, <2>4
  <2>6. h[0] = mainq[k]
    BY <2>1, <2>2
  <2>7. ASSUME NEW j \in 0 .. n + 1 - 1
        PROVE  h[j + 1] = Inserted(h[j], asyncq[k][j + 1])
    <3>1. j \in 0 .. n + 1 /\ j + 1 \in 0 .. n + 1 /\ j <= n /\ h[j] = g[j]
      BY <2>2, <2>7
    <3>2. CASE j = n
      <4>1. ~(n + 1 <= n)
        BY <2>2
      <4>2. QED
        BY <3>1, <3>2, <4>1
    <3>3. CASE j # n
      <4>1. j \in 0 .. n - 1 /\ j + 1 <= n
        BY <2>2, <3>1, <3>3
      <4>2. h[j + 1] = g[j + 1]
        BY <3>1, <4>1
      <4>3. QED
        BY <2>1, <3>1, <4>1, <4>2
    <3>4. QED
      BY <3>2, <3>3
  <2> HIDE DEF h
  <2>8. Steps(h, n + 1)
    BY <2>5, <2>6, <2>7
  <2>9. QED
    BY <1>1, <2>8
<1>4. L \in T
  <2> HIDE DEF T
  <2>1. \A n \in 0 .. L : n \in T
    BY <1>1, <1>2, <1>3, UpInduction
  <2>2. QED
    BY <1>1, <2>1
<1>5. PICK g : Steps(g, L)
  BY <1>4
<1>6. \A n \in 0 .. L : g[n] = IF n = 0 THEN mainq[k] ELSE Inserted(g[n - 1], asyncq[k][n])
  <2>1. ASSUME NEW n \in 0 .. L, n # 0
        PROVE  g[n] = Inserted(g[n - 1], asyncq[k][n])
    <3>1. n - 1 \in 0 .. L - 1 /\ n - 1 + 1 = n
      BY <1>1, <2>1
    <3>2. QED
      BY <1>5, <3>1
  <2>2. QED
    BY <1>5, <2>1
<1>7. g = [n \in 0 .. L |-> IF n = 0 THEN mainq[k] ELSE Inserted(g[n - 1], asyncq[k][n])]
  BY <1>5, <1>6
<1>8. MergeFrom(k) =
        [n \in 0 .. L |-> IF n = 0 THEN mainq[k] ELSE Inserted(MergeFrom(k)[n - 1], asyncq[k][n])]
  BY <1>7 DEF MergeFrom
<1> DEFINE f == MergeFrom(k)
<1>9. \A n \in 0 .. L : f[n] = IF n = 0 THEN mainq[k] ELSE Inserted(f[n - 1], asyncq[k][n])
  BY <1>8
<1>10. DOMAIN f = 0 .. L /\ f = [n \in 0 .. L |-> f[n]]
  BY <1>8
<1> HIDE DEF f
<1>11. f[0] = mainq[k]
  BY <1>1, <1>9
<1>12. ASSUME NEW n \in 0 .. L - 1
       PROVE  f[n + 1] = Inserted(f[n], asyncq[k][n + 1])
  <2>1. n + 1 \in 0 .. L /\ n + 1 # 0 /\ n + 1 - 1 = n
    BY <1>1
  <2>2. QED
    BY <1>9, <2>1
<1>13. \A n \in 0 .. L : f[n] \in Seq(Item)
  <2> DEFINE U == {n \in 0 .. L : f[n] \in Seq(Item)}
  <2>1. 0 \in U
    BY <1>1, <1>11
  <2>2. ASSUME NEW n \in 0 .. L - 1, n \in U
        PROVE  n + 1 \in U
    <3>1. Inserted(f[n], asyncq[k][n + 1]) \in Seq(Item)
      BY <1>1, <2>2, InsertedIs DEF Put
    <3>2. QED
      BY <1>1, <1>12, <3>1
  <2> HIDE DEF U
  <2>3. \A n \in 0 .. L : n \in U
    BY <1>1, <2>1, <2>2, UpInduction
  <2>4. QED
    BY <2>3 DEF U
<1>14. f \in [0 .. L -> Seq(Item)]
  BY <1>10, <1>13
<1>15. QED
  BY <1>1, <1>11, <1>12, <1>14, MergedIsMergeFrom DEF f

(* The events of a list after handleAsyncInsertions().                       *)
LEMMA MergedEvents ==
  ASSUME QueuesType, NEW k \in Threads, NEW e
  PROVE  /\ Merged(k) \in Seq(Item)
         /\ On(Merged(k), e) <=> On(mainq[k], e) \/ On(asyncq[k], e)
         /\ /\ Once(mainq[k], e) /\ Once(asyncq[k], e)
            /\ ~(On(mainq[k], e) /\ On(asyncq[k], e))
            => Once(Merged(k), e)
<1> DEFINE L == Len(asyncq[k])
           f == MergeFrom(k)
           In(n) == \E j \in 1 .. n : asyncq[k][j].event = e
           Apart == /\ Once(mainq[k], e) /\ Once(asyncq[k], e)
                    /\ ~(On(mainq[k], e) /\ On(asyncq[k], e))
           T == {n \in 0 .. L : /\ On(f[n], e) <=> On(mainq[k], e) \/ In(n)
                                /\ Apart => Once(f[n], e)}
<1>1. /\ Merged(k) = f[L] /\ L \in Nat /\ f \in [0 .. L -> Seq(Item)] /\ f[0] = mainq[k]
      /\ \A n \in 0 .. L - 1 : /\ asyncq[k][n + 1] \in Item
                               /\ f[n + 1] = Inserted(f[n], asyncq[k][n + 1])
      /\ DOMAIN asyncq[k] = 1 .. L
  <2>1. DOMAIN asyncq[k] = 1 .. L
    BY DEF QueuesType
  <2>2. QED
    BY <2>1, MergeEquation
<1> HIDE DEF f, L
<1>2. 0 \in T
  <2>1. ~In(0)
    OBVIOUS
  <2>2. QED
    BY <1>1, <2>1
<1>3. ASSUME NEW n \in 0 .. L - 1, n \in T
      PROVE  n + 1 \in T
  <2> DEFINE x == asyncq[k][n + 1]
  <2>1. x \in Item /\ f[n] \in Seq(Item) /\ f[n + 1] = Inserted(f[n], x) /\ n + 1 \in 0 .. L
    BY <1>1
  <2>2. In(n + 1) <=> In(n) \/ x.event = e
    <3>1. \A j : j \in 1 .. n + 1 <=> j \in 1 .. n \/ j = n + 1
      BY <1>1
    <3> HIDE DEF x
    <3>2. QED
      BY <3>1 DEF x
  <2>3. Apart /\ x.event = e => ~On(mainq[k], e) /\ ~In(n)
    <3>1. n + 1 \in 1 .. L /\ \A j \in 1 .. n : j \in 1 .. L /\ j # n + 1
      BY <1>1
    <3>2. QED
      BY <1>1, <3>1 DEF Once, On
  <2> HIDE DEF x
  <2>4. /\ On(f[n + 1], e) <=> On(f[n], e) \/ x.event = e
        /\ Once(f[n], e) /\ (x.event = e => ~On(f[n], e)) => Once(f[n + 1], e)
    <3>1. PICK m \in 0 .. Len(f[n]) : Put(f[n], Inserted(f[n], x), m, x)
      BY <2>1, InsertedIs
    <3>2. Put(f[n], f[n + 1], m, x)
      BY <2>1, <3>1
    <3> DEFINE list == f[n]
               d == f[n + 1]
    <3>3. list \in Seq(Item) /\ m \in 0 .. Len(list) /\ Put(list, d, m, x)
      BY <2>1, <3>1, <3>2
    <3> HIDE DEF list, d
    <3>4. /\ On(d, e) <=> On(list, e) \/ x.event = e
          /\ Once(list, e) /\ (x.event = e => ~On(list, e)) => Once(d, e)
      BY <3>3, PutEvents
    <3>5. QED
      BY <3>4 DEF list, d
  <2> HIDE DEF In, Apart
  <2>5. QED
    BY <1>3, <2>1, <2>2, <2>3, <2>4
<1>4. L \in T
  <2> HIDE DEF T
  <2>1. \A n \in 0 .. L : n \in T
    BY <1>1, <1>2, <1>3, UpInduction
  <2>2. QED
    BY <1>1, <2>1
<1>5. In(L) <=> On(asyncq[k], e)
  BY <1>1 DEF On
<1>6. Merged(k) \in Seq(Item)
  BY <1>1
<1>7. QED
  BY <1>1, <1>4, <1>5, <1>6
-----------------------------------------------------------------------------
(* The types.                                                                *)

(* Entries, and lists after the operations on them.                          *)
LEMMA EntryFacts ==
  ASSUME NEW e \in Events, NEW t \in Nat
  PROVE  Entry(e, t) \in Item /\ Entry(e, t).event = e /\ Entry(e, t).when = t
BY DEF Entry, Item

(* The events are different.                                                 *)
LEMMA EventsApart ==
  /\ Quantum \in Globals /\ Limit \in GlobalExits /\ Limit # Quantum
  /\ \A i : Exit(i) # Quantum /\ Exit(i) # Limit /\ Exit(i) # Message
  /\ \A i, j : Exit(i) = Exit(j) => i = j
  /\ Quantum \notin GlobalExits /\ GlobalExits \subseteq Globals
  /\ {Work, Message, Io, NoEvent} \cap Globals = {}
  /\ Globals \subseteq Events /\ {Work, Message, Io} \subseteq Events
BY DEF Quantum, Limit, Exit, Work, Message, Io, NoEvent, Globals, GlobalExits, Events

(* A list after an insertion or a removal.                                   *)
LEMMA ListTypes ==
  ASSUME NEW list \in Seq(Item), NEW x \in Item, NEW e
  PROVE  /\ Inserted(list, x) \in Seq(Item) /\ Append(list, x) \in Seq(Item)
         /\ Without(list, e) \in Seq(Item)
         /\ list # <<>> => Tail(list) \in Seq(Item) /\ Head(list) \in Item
<1>1. Inserted(list, x) \in Seq(Item)
  BY InsertedIs DEF Put
<1>2. Without(list, e) \in Seq(Item)
  BY WithoutIs DEF Dropped
<1>3. QED
  BY <1>1, <1>2

(* The constants.                                                            *)
LEMMA ConstantTypes ==
  /\ N \in Nat /\ N > 1 /\ simQuantum \in Nat /\ simQuantum > 0 /\ WorkDelay \in Nat
  /\ StartTick \in Nat /\ \A t \in Limits : t \in Nat
  /\ 0 \in Threads /\ \A k \in Threads : k \in Nat /\ k < N
BY SimParameters DEF Threads

(* The queues of a global event, one after the other.                        *)
LEMMA RemainingFacts ==
  /\ AllQueues = Remaining(N) /\ AllQueues \in Seq(Threads) /\ Len(AllQueues) = N
  /\ \A L \in 1 .. N :
       /\ Head(Remaining(L)) = N - L /\ N - L \in Threads
       /\ L > 1 => /\ Tail(Remaining(L)) = Remaining(L - 1)
                   /\ Len(Tail(Remaining(L))) = L - 1 /\ L - 1 \in 1 .. N
<1>0. N \in Nat /\ N > 1
  BY ConstantTypes
<1>1. \A n \in 1 .. N : n - 1 \in Threads /\ N - N + n - 1 = n - 1
  BY <1>0 DEF Threads
<1>2. AllQueues = Remaining(N) /\ AllQueues \in Seq(Threads) /\ Len(AllQueues) = N
  BY <1>0, <1>1 DEF AllQueues, Remaining
<1>3. ASSUME NEW L \in 1 .. N
      PROVE  /\ Head(Remaining(L)) = N - L /\ N - L \in Threads
             /\ L > 1 => /\ Tail(Remaining(L)) = Remaining(L - 1)
                         /\ Len(Tail(Remaining(L))) = L - 1 /\ L - 1 \in 1 .. N
  <2>1. \A n \in 1 .. L : N - L + n - 1 \in Threads
    BY <1>0 DEF Threads
  <2>2. /\ Remaining(L) \in Seq(Threads) /\ Len(Remaining(L)) = L
        /\ \A n \in 1 .. L : Remaining(L)[n] = N - L + n - 1
    BY <1>0, <2>1 DEF Remaining
  <2>3. Head(Remaining(L)) = N - L /\ N - L \in Threads
    <3>1. 1 \in 1 .. L /\ N - L + 1 - 1 = N - L
      BY <1>0
    <3>2. Remaining(L) # <<>>
      BY <2>2
    <3>3. Head(Remaining(L)) = Remaining(L)[1]
      BY <2>2, <3>2
    <3>4. QED
      BY <2>1, <2>2, <3>1, <3>3
  <2>4. ASSUME L > 1
        PROVE  /\ Tail(Remaining(L)) = Remaining(L - 1)
               /\ Len(Tail(Remaining(L))) = L - 1 /\ L - 1 \in 1 .. N
    <3> DEFINE r == Remaining(L)
    <3>1. r \in Seq(Threads) /\ Len(r) = L /\ \A n \in 1 .. L : r[n] = N - L + n - 1
      BY <2>2
    <3>2. Remaining(L - 1) = [n \in 1 .. L - 1 |-> N - (L - 1) + n - 1]
      BY DEF Remaining
    <3> HIDE DEF r
    <3>3. /\ Tail(r) \in Seq(Threads) /\ Len(Tail(r)) = L - 1
          /\ \A n \in 1 .. L - 1 : Tail(r)[n] = r[n + 1]
      BY <2>4, <3>1
    <3>4. \A n \in 1 .. L - 1 : Tail(r)[n] = N - (L - 1) + n - 1
      <4>1. \A n \in 1 .. L - 1 : n + 1 \in 1 .. L /\ N - L + (n + 1) - 1 = N - (L - 1) + n - 1
        BY <1>0
      <4>2. QED
        BY <3>1, <3>3, <4>1
    <3>5. /\ Remaining(L - 1) \in Seq(Threads) /\ Len(Remaining(L - 1)) = L - 1
          /\ \A n \in 1 .. L - 1 : Remaining(L - 1)[n] = N - (L - 1) + n - 1
      <4>1. \A n \in 1 .. L - 1 : N - (L - 1) + n - 1 \in Threads
        BY <1>0, <2>4 DEF Threads
      <4>2. L - 1 \in Nat
        BY <2>4
      <4>3. QED
        BY <3>2, <4>1, <4>2
    <3>6. Tail(r) = Remaining(L - 1)
      BY <3>3, <3>4, <3>5, SeqEqual
    <3>7. QED
      BY <1>0, <2>4, <3>3, <3>6 DEF r
  <2>5. QED
    BY <2>3, <2>4
<1>4. QED
  BY <1>2, <1>3
-----------------------------------------------------------------------------
(* The step of one thread.                                                   *)

(* It leaves the places and the calls of the others alone.                   *)
LEMMA OneMoves ==
  ASSUME PlaceOK, QueuesType, NEW i \in Threads, Step(i)
  PROVE  OnlyMoves(i) /\ \A k \in Threads \ {i} : todo'[k] = todo[k]
<1>1. OnlyMoves(i)
  <2>1. \A k \in Threads \ {i} : pc'[k] = pc[k]
    BY DEF PlaceOK, Step, EnterBarrier, LeaveBarrier, StartLoop, ServiceOne, HandlerReturn,
           ScheduleWork, ExitSimLoop, SendMessage, Migrate, Operate, LockGlobalQ, AsyncInsert,
           SetFlag, MigrateLock, MigrateSchedule, MigrateBack, FirstBarrier, LeaveFirst, Process,
           SecondBarrier, LeaveSecond, Arrive, Goto, GlobalSchedule, QuantumDone
  <2>2. \A k \in Threads \ {i} : at'[k] = at[k]
    BY DEF PlaceOK, Step, EnterBarrier, LeaveBarrier, StartLoop, ServiceOne, HandlerReturn,
           ScheduleWork, ExitSimLoop, SendMessage, Migrate, LockGlobalQ, AsyncInsert,
           SetFlag, MigrateLock, MigrateSchedule, MigrateBack, FirstBarrier, LeaveFirst, Process,
           SecondBarrier, LeaveSecond
  <2>3. \A k \in Threads \ {i} : gen'[k] = gen[k]
    BY DEF PlaceOK, Step, EnterBarrier, LeaveBarrier, StartLoop, ServiceOne, HandlerReturn,
           ScheduleWork, ExitSimLoop, SendMessage, Migrate, LockGlobalQ, AsyncInsert,
           SetFlag, MigrateLock, MigrateSchedule, MigrateBack, FirstBarrier, LeaveFirst, Process,
           SecondBarrier, LeaveSecond, Arrive, barriers
  <2>4. QED
    BY <2>1, <2>2, <2>3 DEF OnlyMoves
<1>2. \A k \in Threads \ {i} : todo'[k] = todo[k]
  BY DEF QueuesType, Step, EnterBarrier, LeaveBarrier, StartLoop, ServiceOne, HandlerReturn,
         ScheduleWork, ExitSimLoop, SendMessage, Migrate, LockGlobalQ, AsyncInsert,
         SetFlag, MigrateLock, MigrateSchedule, MigrateBack, FirstBarrier, LeaveFirst, Process,
         SecondBarrier, LeaveSecond, GlobalSchedule
<1>3. QED
  BY <1>1, <1>2

(* An assignment to the place of a thread that stays in its event.           *)
LEMMA PcMoved ==
  ASSUME PlaceOK, NEW i \in Threads, NEW l, Goto(i, l)
  PROVE  pc'[i] = l
BY DEF PlaceOK, Goto

(* Once the threads are in the loop, the main one is not in Python.          *)
LEMMA InsideRuns ==
  ASSUME Phases, NEW i \in Threads, ~Outside(i)
  PROVE  Running /\ pc[0] \notin {"python", "return"}
BY ConstantTypes DEF Phases, Gathering, Running, Inside

(* A thread in the loop has the quantum event on its queue.                  *)
LEMMA LoopHasEvent ==
  ASSUME LoopInv, NEW i \in Threads, pc[i] = "loop"
  PROVE  /\ On(mainq[i], Quantum) /\ mainq[i] # <<>> /\ mainq[i] \in Seq(Item)
         /\ at[i] = NoEvent /\ <<Quantum, i>> \in scheduled
<1>1. at[i] = NoEvent /\ at[i] # Quantum
  BY EventsApart DEF LoopInv, CallsOK, AtRest
<1>2. ~Outside(i)
  <2>1. i = 0 => pc[i] \notin {"python", "return"}
    OBVIOUS
  <2>2. QED
    BY <2>1 DEF Outside, Counted, Leaving
<1>3. Expected(i) = "mainq"
  BY <1>1, <1>2, InsideRuns DEF LoopInv, Expected
<1>4. On(mainq[i], Quantum) /\ <<Quantum, i>> \in scheduled
  BY <1>3 DEF LoopInv, QuantumInv, QuantumAt
<1>5. mainq[i] \in Seq(Item)
  BY DEF LoopInv, QueuesType
<1>6. mainq[i] # <<>>
  BY <1>4, <1>5 DEF On
<1>7. QED
  BY <1>1, <1>4, <1>5, <1>6

(* What a thread is scheduling.                                              *)
LEMMA CallFacts ==
  ASSUME QueuesType, CallsOK, NEW i \in Threads, pc[i] \in Inserting
  PROVE  /\ todo[i].event \in Events /\ todo[i].when \in Nat
         /\ todo[i].queues \in Seq(Threads) /\ todo[i].queues # <<>>
         /\ Head(todo[i].queues) \in Threads
         /\ todo[i].event # Message =>
              Head(todo[i].queues) = N - Len(todo[i].queues)
         /\ at[i] = Quantum <=> todo[i].event = Quantum
<1>1. InCall(i) /\ todo[i] \in Call
  BY DEF CallsOK, QueuesType
<1>2. /\ todo[i].event \in Events \cup {NoEvent} /\ todo[i].when \in Nat
      /\ todo[i].queues \in Seq(Threads)
  BY <1>1 DEF Call
<1>3. todo[i].event \in Events
  BY <1>1, EventsApart DEF InCall, Events, Globals, GlobalExits
<1>4. todo[i].queues # <<>>
  <2>0. Len(todo[i].queues) \in 1 .. N \/ Len(todo[i].queues) = 1
    BY <1>1 DEF InCall
  <2>1. Len(todo[i].queues) \in Int /\ Len(todo[i].queues) > 0
    BY <2>0, ConstantTypes
  <2>2. QED
    BY <2>1
<1>5. Head(todo[i].queues) \in Threads
  BY <1>2, <1>4
<1>6. ASSUME todo[i].event # Message
      PROVE  Head(todo[i].queues) = N - Len(todo[i].queues)
  <2>1. /\ Len(todo[i].queues) \in 1 .. N
        /\ todo[i].queues = Remaining(Len(todo[i].queues))
    BY <1>1, <1>6 DEF InCall
  <2>2. QED
    BY <2>1, RemainingFacts
<1>7. at[i] = Quantum <=> todo[i].event = Quantum
  BY <1>1, EventsApart DEF InCall
<1>8. QED
  BY <1>2, <1>3, <1>4, <1>5, <1>6, <1>7

(* Steps that schedule nothing.                                              *)
LEMMA TypesKept ==
  ASSUME QueuesType, UNCHANGED <<queues, todo>>
  PROVE  QueuesType'
BY DEF QueuesType, queues

(* The main thread keeps the types.                                          *)
LEMMA MainTypes ==
  ASSUME QueuesType, Return \/ \E until \in Limits : Simulate(until)
  PROVE  QueuesType'
<1>1. CASE Return
  <2>1. \A k \in Threads : Without(mainq[k], Quantum) \in Seq(Item)
    BY WithoutIs DEF QueuesType, Dropped
  <2>2. QED
    BY <1>1, <2>1 DEF QueuesType, Return
<1>2. ASSUME NEW until \in Limits, Simulate(until)
      PROVE  QueuesType'
  <2>1. /\ Entry(Limit, until) \in Item
        /\ Entry(Quantum, curTick[0] + simQuantum) \in Item
    <3>1. curTick[0] + simQuantum \in Nat /\ until \in Nat
      BY ConstantTypes DEF QueuesType
    <3>2. Limit \in Events /\ Quantum \in Events
      BY DEF Events, Globals, GlobalExits
    <3>3. QED
      BY <3>1, <3>2, EntryFacts
  <2>2. ASSUME NEW k \in Threads
        PROVE  Inserted(Inserted(Without(mainq[k], Limit), Entry(Limit, until)),
                        Entry(Quantum, curTick[0] + simQuantum)) \in Seq(Item)
    BY <2>1, ListTypes DEF QueuesType
  <2>3. QED
    BY <1>2, <2>2 DEF QueuesType, Simulate
<1>3. QED
  BY <1>1, <1>2

(* And so do the others.                                                     *)
LEMMA StepTypes ==
  ASSUME LoopInv, NEW i \in Threads, Step(i)
  PROVE  QueuesType'
<1>1. /\ QueuesType /\ mainq[i] \in Seq(Item) /\ asyncq[i] \in Seq(Item)
      /\ curTick[i] \in Nat /\ todo[i] \in Call /\ <<>> \in Seq(Item)
  BY DEF LoopInv, QueuesType
<1>2. CASE \/ EnterBarrier(i) \/ LeaveBarrier(i) \/ HandlerReturn(i) \/ LockGlobalQ(i)
           \/ MigrateLock(i) \/ MigrateBack(i) \/ FirstBarrier(i) \/ LeaveFirst(i)
           \/ SecondBarrier(i)
  <2>1. UNCHANGED <<queues, todo>>
    BY <1>2 DEF EnterBarrier, LeaveBarrier, HandlerReturn, LockGlobalQ, MigrateLock, MigrateBack,
                FirstBarrier, LeaveFirst, SecondBarrier
  <2>2. QED
    BY <1>1, <2>1, TypesKept
<1>3. ASSUME HandleAsyncInsertions(i), UNCHANGED todo
      PROVE  QueuesType'
  BY <1>1, <1>3, MergedEvents DEF QueuesType, HandleAsyncInsertions
<1>4. CASE StartLoop(i)
  BY <1>3, <1>4 DEF StartLoop
<1>5. CASE LeaveSecond(i)
  <2>1. UNCHANGED todo /\ (HandleAsyncInsertions(i) \/ UNCHANGED queues)
    BY <1>5 DEF LeaveSecond, QuantumDone
  <2>2. QED
    BY <1>1, <1>3, <2>1, TypesKept
<1>6. CASE ServiceOne(i)
  <2>1. mainq[i] # <<>>
    BY <1>6, LoopHasEvent DEF ServiceOne
  <2>2. Tail(mainq[i]) \in Seq(Item) /\ Head(mainq[i]) \in Item
    BY <1>1, <2>1
  <2>3. Head(mainq[i]).when \in Nat
    BY <2>2 DEF Item
  <2>4. QED
    BY <1>1, <1>6, <2>2, <2>3 DEF QueuesType, ServiceOne
<1>7. CASE ScheduleWork(i)
  <2>1. Entry(Work, curTick[i] + WorkDelay) \in Item
    BY <1>1, ConstantTypes, EventsApart, EntryFacts
  <2>2. Inserted(mainq[i], Entry(Work, curTick[i] + WorkDelay)) \in Seq(Item)
    BY <1>1, <2>1, ListTypes
  <2>3. QED
    BY <1>1, <1>7, <2>2 DEF QueuesType, ScheduleWork
<1>8. CASE ExitSimLoop(i) \/ Process(i)
  <2>1. \A t \in Nat : \A e \in Events : [event |-> e, when |-> t, queues |-> AllQueues] \in Call
    BY RemainingFacts DEF Call
  <2>2. Exit(i) \in Events /\ Quantum \in Events /\ curTick[i] + simQuantum \in Nat
    BY <1>1, ConstantTypes DEF Events, Globals, GlobalExits
  <2>3. QED
    BY <1>1, <1>8, <2>1, <2>2
    DEF QueuesType, ExitSimLoop, Process, GlobalSchedule, ExitTick, queues
<1>9. CASE \E k \in Threads : SendMessage(i, k) \/ Migrate(i, k)
  <2>1. PICK k \in Threads : SendMessage(i, k) \/ Migrate(i, k)
    BY <1>9
  <2>2. <<k>> \in Seq(Threads) /\ curTick[i] + simQuantum \in Nat /\ Message \in Events
    BY <1>1, ConstantTypes, EventsApart
  <2>3. CASE SendMessage(i, k)
    <3>1. [event |-> Message, when |-> curTick[i] + simQuantum, queues |-> <<k>>] \in Call
      BY <2>2 DEF Call
    <3>2. QED
      BY <1>1, <2>3, <3>1 DEF QueuesType, SendMessage, queues
  <2>4. CASE Migrate(i, k)
    <3>1. todo' = [todo EXCEPT ![i].queues = <<k>>] /\ UNCHANGED queues
      BY <2>4 DEF Migrate
    <3>2. todo' \in [Threads -> Call]
      BY <1>1, <2>2, <3>1 DEF QueuesType, Call
    <3>3. QED
      BY <1>1, <3>1, <3>2 DEF QueuesType, queues
  <2>5. QED
    BY <2>1, <2>3, <2>4
<1>10. CASE AsyncInsert(i)
  <2>1. /\ Entry(todo[i].event, todo[i].when) \in Item
        /\ Head(todo[i].queues) \in Threads
    BY <1>10, CallFacts, EntryFacts DEF LoopInv, AsyncInsert, Inserting
  <2>2. Append(asyncq[Head(todo[i].queues)], Entry(todo[i].event, todo[i].when)) \in Seq(Item)
    BY <1>1, <2>1 DEF QueuesType
  <2>3. QED
    BY <1>1, <1>10, <2>1, <2>2 DEF QueuesType, AsyncInsert
<1>11. CASE SetFlag(i)
  <2>1. todo[i].queues \in Seq(Threads) /\ todo[i].queues # <<>>
    BY <1>11, CallFacts DEF LoopInv, SetFlag, Inserting
  <2>2. Tail(todo[i].queues) \in Seq(Threads) /\ NothingToDo \in Call
    <3>1. <<>> \in Seq(Threads) /\ 0 \in Nat
      OBVIOUS
    <3>2. QED
      BY <2>1, <3>1 DEF NothingToDo, Call
  <2>3. \/ todo' = [todo EXCEPT ![i].queues = Tail(@)]
        \/ todo' = [todo EXCEPT ![i] = NothingToDo]
    BY <1>11 DEF SetFlag
  <2>4. todo' \in [Threads -> Call]
    BY <1>1, <2>2, <2>3 DEF QueuesType, Call
  <2>5. QED
    BY <1>1, <1>11, <2>4 DEF QueuesType, SetFlag
<1>12. CASE MigrateSchedule(i)
  <2>1. \A k \in Threads : Inserted(mainq[k], Entry(Io, curTick[k])) \in Seq(Item)
    BY <1>1, EventsApart, EntryFacts, ListTypes DEF QueuesType
  <2>2. NothingToDo \in Call
    <3>1. <<>> \in Seq(Threads) /\ 0 \in Nat
      OBVIOUS
    <3>2. QED
      BY <3>1 DEF NothingToDo, Call
  <2>3. mainq' \in [Threads -> Seq(Item)] /\ asyncq' \in [Threads -> Seq(Item)]
    <3>1. PICK h \in Threads :
            \/ mainq' = mainq /\ asyncq' = asyncq
            \/ /\ mainq' = [mainq EXCEPT ![h] = Inserted(mainq[h], Entry(Io, curTick[h]))]
               /\ \E rest \in Remains(asyncq[h]) : asyncq' = [asyncq EXCEPT ![h] = rest]
      BY <1>1, <1>12, MigrateFacts DEF LoopInv
    <3>2. \A rest \in Remains(asyncq[h]) : rest \in Seq(Item)
      BY <1>1, RemainsFacts DEF QueuesType
    <3>3. QED
      BY <1>1, <2>1, <3>1, <3>2 DEF QueuesType
  <2>4. QED
    BY <1>1, <1>12, <2>2, <2>3 DEF QueuesType, MigrateSchedule
<1>13. QED
  BY <1>2, <1>4, <1>5, <1>6, <1>7, <1>8, <1>9, <1>10, <1>11, <1>12 DEF Step
-----------------------------------------------------------------------------
(* Where the threads are, and what they schedule.                            *)

(* A step of thread i.                                                       *)
LEMMA CallsStep ==
  ASSUME CallsOK, NEW i \in Threads, OnlyMoves(i),
         \A k \in Threads \ {i} : todo'[k] = todo[k],
         pc'[i] \in InGlobal \cup InHandler \cup AtRest \cup Inserting,
         pc'[i] \in AtRest => at'[i] = NoEvent,
         pc'[i] \in Inserting => InCall(i)',
         pc'[i] = "globalQ" => Len(todo'[i].queues) = N,
         pc'[i] \in {"migrate", "migrated"} => Len(todo'[i].queues) = 1
  PROVE  CallsOK'
<1>1. ASSUME NEW k \in Threads, k # i
      PROVE  /\ pc'[k] \in InGlobal \cup InHandler \cup AtRest \cup Inserting
             /\ pc'[k] \in AtRest => at'[k] = NoEvent
             /\ pc'[k] \in Inserting => InCall(k)'
             /\ pc'[k] = "globalQ" => Len(todo'[k].queues) = N
             /\ pc'[k] \in {"migrate", "migrated"} => Len(todo'[k].queues) = 1
  <2>1. pc'[k] = pc[k] /\ at'[k] = at[k] /\ todo'[k] = todo[k]
    BY <1>1 DEF OnlyMoves
  <2>2. InCall(k)' <=> InCall(k)
    BY <2>1 DEF InCall
  <2>3. QED
    BY <2>1, <2>2 DEF CallsOK
<1>2. QED
  BY <1>1 DEF CallsOK

(* One that leads to no call.                                                *)
LEMMA QuietStep ==
  ASSUME CallsOK, NEW i \in Threads, OnlyMoves(i),
         \A k \in Threads \ {i} : todo'[k] = todo[k],
         pc'[i] \in (InGlobal \cup InHandler \cup AtRest) \ {"migrate", "migrated"},
         pc'[i] \in AtRest => at'[i] = NoEvent
  PROVE  CallsOK'
<1>1. pc'[i] \notin Inserting /\ pc'[i] # "globalQ"
  BY DEF InGlobal, InHandler, AtRest, Inserting
<1>2. QED
  BY <1>1, CallsStep

(* The main thread.                                                          *)
LEMMA MainCalls ==
  ASSUME PlaceOK, CallsOK, Return \/ \E until \in Limits : Simulate(until)
  PROVE  CallsOK' /\ OnlyMoves(0) /\ at' = at /\ UNCHANGED barriers
<1>1. /\ at' = at /\ todo' = todo /\ UNCHANGED barriers
      /\ pc[0] \in {"python", "return"} /\ (Goto(0, "enter") \/ Goto(0, "python"))
  BY DEF Return, Simulate
<1>2. OnlyMoves(0) /\ pc'[0] \in {"enter", "python"}
  BY <1>1, ConstantTypes DEF PlaceOK, Goto, OnlyMoves, barriers
<1>3. at'[0] = NoEvent
  BY <1>1, ConstantTypes DEF CallsOK, AtRest
<1>4. QED
  BY <1>1, <1>2, <1>3, ConstantTypes, QuietStep DEF AtRest

(* A thread.                                                                 *)
LEMMA ThreadCalls ==
  ASSUME LoopInv, NEW i \in Threads, Step(i)
  PROVE  CallsOK'
<1>1. /\ PlaceOK /\ CallsOK /\ QueuesType /\ todo[i] \in Call
      /\ pc = [k \in Threads |-> pc[k]] /\ at = [k \in Threads |-> at[k]]
      /\ todo \in [Threads -> Call]
  BY DEF LoopInv, BarrierInv, PlaceOK, QueuesType
<1>2. OnlyMoves(i) /\ \A k \in Threads \ {i} : todo'[k] = todo[k]
  BY <1>1, OneMoves
<1>3. CASE EnterBarrier(i) \/ LeaveBarrier(i) \/ StartLoop(i) \/ ScheduleWork(i)
  <2>1. at' = at /\ pc[i] \in {"enter", "entering", "merge", "handler"}
    BY <1>3 DEF EnterBarrier, LeaveBarrier, StartLoop, ScheduleWork
  <2>2. pc'[i] \in {"entering", "merge", "loop", "handler"} /\ (pc[i] = "handler" => pc'[i] = "handler")
    BY <1>1, <1>3 DEF EnterBarrier, LeaveBarrier, StartLoop, ScheduleWork, Arrive, Goto
  <2>3. pc[i] # "handler" => at'[i] = NoEvent
    BY <1>1, <2>1 DEF CallsOK, AtRest
  <2>4. QED
    BY <1>1, <1>2, <2>1, <2>2, <2>3, QuietStep DEF AtRest, InHandler, InGlobal
<1>4. CASE ServiceOne(i)
  <2>1. pc'[i] \in {"barrier1", "handler"}
    BY <1>1, <1>4 DEF ServiceOne, Goto
  <2>2. QED
    BY <1>1, <1>2, <2>1, QuietStep DEF AtRest, InHandler, InGlobal
<1>5. CASE HandlerReturn(i) \/ LeaveSecond(i)
  <2>1. pc'[i] \in {"loop", "return", "enter"} /\ at'[i] = NoEvent
    BY <1>1, <1>5 DEF HandlerReturn, LeaveSecond, QuantumDone, Goto
  <2>2. QED
    BY <1>1, <1>2, <2>1, QuietStep DEF AtRest, InHandler, InGlobal
<1>6. CASE MigrateSchedule(i) \/ MigrateBack(i)
  <2>1. pc'[i] \in {"return home", "handler"}
    BY <1>1, <1>6 DEF MigrateSchedule, MigrateBack, Goto
  <2>2. QED
    BY <1>1, <1>2, <2>1, QuietStep DEF AtRest, InHandler, InGlobal
<1>7. CASE FirstBarrier(i) \/ LeaveFirst(i) \/ SecondBarrier(i)
  <2>1. pc'[i] \in {"last", "wait1", "process", "barrier2", "done", "wait2"}
    BY <1>1, <1>7 DEF FirstBarrier, LeaveFirst, AfterFirst, SecondBarrier, Arrive, Goto
  <2>2. QED
    BY <1>1, <1>2, <2>1, QuietStep DEF AtRest, InHandler, InGlobal
<1>8. CASE Process(i)
  <2>1. CASE at[i] = Quantum
    <3>1. /\ pc'[i] = "globalQ" /\ at' = at
          /\ todo'[i] = [event |-> Quantum, when |-> curTick[i] + simQuantum, queues |-> AllQueues]
      BY <1>1, <1>8, <2>1 DEF Process, GlobalSchedule, Goto
    <3>2. InCall(i)'
      BY <2>1, <3>1, RemainingFacts, ConstantTypes DEF InCall
    <3>3. QED
      BY <1>1, <1>2, <3>1, <3>2, RemainingFacts, CallsStep DEF AtRest, Inserting
  <2>2. CASE at[i] # Quantum
    <3>1. pc'[i] = "barrier2"
      BY <1>1, <1>8, <2>2 DEF Process, Goto
    <3>2. QED
      BY <1>1, <1>2, <3>1, QuietStep DEF AtRest, InHandler, InGlobal
  <2>3. QED
    BY <2>1, <2>2
<1>9. CASE ExitSimLoop(i)
  <2>1. /\ pc[i] = "handler" /\ pc'[i] = "globalQ" /\ at' = at
        /\ todo'[i] = [event |-> Exit(i), when |-> ExitTick(i), queues |-> AllQueues]
    BY <1>1, <1>9 DEF ExitSimLoop, Operate, GlobalSchedule, Goto
  <2>2. at[i] \notin Globals
    BY <1>1, <2>1 DEF PlaceOK, InHandler
  <2>3. InCall(i)'
    BY <2>1, <2>2, RemainingFacts, ConstantTypes DEF InCall
  <2>4. QED
    BY <1>1, <1>2, <2>1, <2>3, RemainingFacts, CallsStep DEF AtRest, Inserting
<1>10. CASE \E k \in Threads : SendMessage(i, k) \/ Migrate(i, k)
  <2>1. PICK k \in Threads : SendMessage(i, k) \/ Migrate(i, k)
    BY <1>10
  <2>2. at[i] \notin Globals /\ at' = at
    BY <1>1, <2>1 DEF SendMessage, Migrate, Operate, PlaceOK, InHandler
  <2>3. Len(<<k>>) = 1
    OBVIOUS
  <2>4. CASE SendMessage(i, k)
    <3>1. /\ pc'[i] = "insert"
          /\ todo'[i] = [event |-> Message, when |-> curTick[i] + simQuantum, queues |-> <<k>>]
      BY <1>1, <2>4 DEF SendMessage, Goto
    <3>2. InCall(i)'
      BY <2>2, <2>3, <3>1 DEF InCall
    <3>3. QED
      BY <1>1, <1>2, <3>1, <3>2, CallsStep DEF AtRest, Inserting
  <2>5. CASE Migrate(i, k)
    <3>1. pc'[i] = "migrate" /\ todo'[i].queues = <<k>>
      BY <1>1, <2>5 DEF Migrate, Goto, Call
    <3>2. QED
      BY <1>1, <1>2, <2>3, <3>1, CallsStep DEF AtRest, Inserting, InHandler
  <2>6. QED
    BY <2>1, <2>4, <2>5
<1>11. CASE LockGlobalQ(i) \/ AsyncInsert(i)
  <2>1. at' = at /\ todo' = todo /\ pc[i] \in Inserting /\ pc'[i] \in {"insert", "flag"}
    BY <1>1, <1>11 DEF LockGlobalQ, AsyncInsert, Goto, Inserting
  <2>2. InCall(i)'
    BY <1>1, <2>1 DEF CallsOK, InCall
  <2>3. QED
    BY <1>1, <1>2, <2>1, <2>2, CallsStep DEF AtRest, Inserting
<1>12. CASE SetFlag(i)
  <2>1. pc[i] = "flag" /\ InCall(i) /\ at' = at
    BY <1>1, <1>12 DEF SetFlag, CallsOK, Inserting
  <2>2. CASE Len(todo[i].queues) > 1
    <3>1. /\ pc'[i] = "insert" /\ todo'[i].event = todo[i].event
          /\ todo'[i].queues = Tail(todo[i].queues)
      BY <1>1, <1>12, <2>2 DEF SetFlag, Goto, Call
    <3>2. /\ Len(todo[i].queues) \in 1 .. N
          /\ todo[i].queues = Remaining(Len(todo[i].queues))
          /\ \/ at[i] = Quantum /\ todo[i].event = Quantum
             \/ at[i] \notin Globals /\ todo[i].event = Exit(i)
      <4>1. Len(todo[i].queues) \in Nat
        BY <1>1 DEF Call
      <4>2. Len(todo[i].queues) # 1
        <5> DEFINE L == Len(todo[i].queues)
        <5>1. L \in Nat /\ L > 1
          BY <2>2, <4>1
        <5> HIDE DEF L
        <5>2. L # 1
          BY <5>1
        <5>3. QED
          BY <5>2 DEF L
      <4>3. QED
        BY <2>1, <4>2 DEF InCall
    <3>3. /\ Len(Tail(todo[i].queues)) \in 1 .. N
          /\ Tail(todo[i].queues) = Remaining(Len(Tail(todo[i].queues)))
      BY <2>2, <3>2, RemainingFacts
    <3>4. InCall(i)'
      BY <2>1, <3>1, <3>2, <3>3 DEF InCall
    <3>5. QED
      BY <1>1, <1>2, <3>1, <3>4, CallsStep DEF AtRest, Inserting
  <2>3. CASE ~(Len(todo[i].queues) > 1)
    <3>1. pc'[i] \in {"barrier2", "handler"}
      BY <1>1, <1>12, <2>3 DEF SetFlag, Goto
    <3>2. QED
      BY <1>1, <1>2, <3>1, QuietStep DEF AtRest, InHandler, InGlobal
  <2>4. QED
    BY <2>2, <2>3
<1>13. CASE MigrateLock(i)
  <2>1. pc[i] = "migrate" /\ pc'[i] = "migrated" /\ todo' = todo
    BY <1>1, <1>13 DEF MigrateLock, Goto
  <2>2. QED
    BY <1>1, <1>2, <2>1, CallsStep DEF CallsOK, AtRest, Inserting, InHandler
<1>14. QED
  BY <1>3, <1>4, <1>5, <1>6, <1>7, <1>8, <1>9, <1>10, <1>11, <1>12, <1>13 DEF Step
-----------------------------------------------------------------------------
(* The two phases.                                                           *)

(* Where a barrier lets the threads go, when they arrive.                    *)
LEMMA Arrival ==
  ASSUME BarrierInv, NEW i \in Threads, NEW b \in Globals \cup {ThreadBarrier},
         NEW last, NEW wait, Arrive(i, b, last, wait)
  PROVE  /\ gen'[i] = generation[b]
         /\ numLeft[b] = 1 => /\ generation'[b] # generation[b] /\ numLeft'[b] = N
                              /\ pc'[i] = last
         /\ numLeft[b] # 1 => /\ generation' = generation /\ numLeft'[b] = numLeft[b] - 1
                              /\ pc'[i] = wait
         /\ \A c \in (Globals \cup {ThreadBarrier}) \ {b} :
              numLeft'[c] = numLeft[c] /\ generation'[c] = generation[c]
<1>1. generation[b] \in {0, 1} /\ generation \in [Globals \cup {ThreadBarrier} -> {0, 1}]
  BY DEF BarrierInv, BarrierOK
<1>2. /\ numLeft = [c \in Globals \cup {ThreadBarrier} |-> numLeft[c]]
      /\ gen = [k \in Threads |-> gen[k]] /\ pc = [k \in Threads |-> pc[k]]
  BY DEF BarrierInv, BarrierOK, PlaceOK
<1>3. gen'[i] = generation[b]
  BY <1>2 DEF Arrive
<1>4. ASSUME numLeft[b] = 1
      PROVE  /\ generation'[b] = 1 - generation[b] /\ numLeft'[b] = N /\ pc'[i] = last
             /\ \A c \in (Globals \cup {ThreadBarrier}) \ {b} :
                  numLeft'[c] = numLeft[c] /\ generation'[c] = generation[c]
  BY <1>1, <1>2, <1>4 DEF Arrive, Goto
<1>5. ASSUME numLeft[b] # 1
      PROVE  /\ generation' = generation /\ numLeft'[b] = numLeft[b] - 1 /\ pc'[i] = wait
             /\ \A c \in (Globals \cup {ThreadBarrier}) \ {b} : numLeft'[c] = numLeft[c]
  BY <1>1, <1>2, <1>5 DEF Arrive, Goto
<1>6. 1 - generation[b] # generation[b]
  BY <1>1
<1>7. QED
  BY <1>3, <1>4, <1>5, <1>6

(* The last thread to arrive at the first wait finds all others in it, ...   *)
LEMMA FirstComplete ==
  ASSUME BarrierInv, NEW i \in Threads, pc[i] = "barrier1", numLeft[at[i]] = 1,
         NEW k \in Threads, k # i
  PROVE  at[k] = at[i] /\ pc[k] = "wait1" /\ gen[k] = generation[at[k]]
<1>1. PICK e \in Globals : e = at[i]
  BY DEF BarrierInv, PlaceOK, InGlobal
<1>2. Role(i, e) = "away"
  BY <1>1 DEF Role, AloneAt
<1>3. Collecting(e)
  BY <1>1, <1>2 DEF BarrierInv, BarrierOK, Finishing
<1>4. /\ Having(e, "first") \in SUBSET Threads /\ i \notin Having(e, "first")
      /\ N - Cardinality(Having(e, "first")) = 1
  BY <1>1, <1>2, <1>3 DEF Collecting, Having
<1>5. k \in Having(e, "first")
  BY <1>4, LastOne
<1>6. Role(k, e) = "first"
  BY <1>5 DEF Having
<1>7. QED
  BY <1>1, <1>6 DEF Role

(* ... and so does the last to arrive at the second one.                     *)
LEMMA SecondComplete ==
  ASSUME BarrierInv, NEW i \in Threads, pc[i] = "barrier2", numLeft[at[i]] = 1,
         NEW k \in Threads, k # i
  PROVE  at[k] = at[i] /\ pc[k] = "wait2" /\ gen[k] = generation[at[k]]
<1>1. PICK e \in Globals : e = at[i]
  BY DEF BarrierInv, PlaceOK, InGlobal
<1>2. Role(i, e) = "between"
  BY <1>1 DEF Role, AloneAt
<1>3. Finishing(e)
  BY <1>1, <1>2 DEF BarrierInv, BarrierOK, Collecting
<1>4. /\ Having(e, "second") \in SUBSET Threads /\ i \notin Having(e, "second")
      /\ N - Cardinality(Having(e, "second")) = 1
  BY <1>1, <1>2, <1>3 DEF Finishing, Having
<1>5. k \in Having(e, "second")
  BY <1>4, LastOne
<1>6. Role(k, e) = "second"
  BY <1>5 DEF Having
<1>7. QED
  BY <1>1, <1>6 DEF Role

(* A thread outside the loop is not inside it.                               *)
LEMMA PhaseOf ==
  ASSUME Phases, CallsOK, NEW i \in Threads
  PROVE  /\ ~Outside(i) => Running
         /\ ~Inside(i) => Gathering
BY DEF Phases, Gathering, Running

(* A step inside the loop.                                                   *)
LEMMA RunningStep ==
  ASSUME Running, NEW i \in Threads, OnlyMoves(i), Inside(i)',
         numLeft'[ThreadBarrier] = numLeft[ThreadBarrier],
         generation'[ThreadBarrier] = generation[ThreadBarrier],
         \A k \in Threads \ {i} : Leaving(k)' => Leaving(k) \/ at[k] = Quantum
  PROVE  Running'
<1>1. ASSUME NEW k \in Threads \ {i}
      PROVE  Inside(k)'
  <2>1. pc'[k] = pc[k] /\ at'[k] = at[k] /\ gen'[k] = gen[k] /\ Inside(k)
    BY DEF OnlyMoves, Running
  <2>2. (Counted(k)' <=> Counted(k)) /\ (Leaving(k)' => at[k] = Quantum)
    BY <2>1 DEF Counted, Inside
  <2>3. QED
    BY <2>1, <2>2 DEF Inside
<1>2. QED
  BY <1>1 DEF Running

(* One that touches no barrier.                                              *)
LEMMA RunningMove ==
  ASSUME Running, NEW i \in Threads, OnlyMoves(i), UNCHANGED <<numLeft, generation>>,
         pc'[i] \notin {"python", "return", "enter", "entering", "wait2", "done"}
  PROVE  Running'
<1>1. Inside(i)'
  BY DEF Inside, Counted, Leaving
<1>2. \A k \in Threads \ {i} : Leaving(k)' => Leaving(k)
  BY DEF OnlyMoves, Leaving
<1>3. QED
  BY <1>1, <1>2, RunningStep

(* A step outside the loop that is none into the barrier of the threads.     *)
LEMMA GatheringStep ==
  ASSUME Gathering, NEW i \in Threads, OnlyMoves(i), UNCHANGED <<numLeft, generation>>,
         ~Counted(i), pc'[i] \in {"python", "return", "enter"},
         pc'[i] # "enter" => i = 0
  PROVE  Gathering'
<1>1. ASSUME NEW k \in Threads \ {i}
      PROVE  (Counted(k)' <=> Counted(k)) /\ Outside(k)'
  <2>1. pc'[k] = pc[k] /\ at'[k] = at[k] /\ gen'[k] = gen[k] /\ Outside(k)
    BY DEF OnlyMoves, Gathering
  <2>2. (Counted(k)' <=> Counted(k)) /\ (Leaving(k)' <=> Leaving(k))
    BY <2>1 DEF Counted, Leaving
  <2>3. QED
    BY <2>1, <2>2 DEF Outside
<1>2. ~Counted(i)' /\ Outside(i)'
  BY DEF Counted, Outside
<1>3. {k \in Threads : Counted(k)}' = {k \in Threads : Counted(k)}
  BY <1>1, <1>2
<1>4. QED
  BY <1>1, <1>2, <1>3 DEF Gathering

(* A thread arrives at the barrier of the threads, ...                       *)
LEMMA EnterPhases ==
  ASSUME BarrierInv, CallsOK, Phases, NEW i \in Threads, OnlyMoves(i), EnterBarrier(i)
  PROVE  Phases'
<1>1. pc[i] = "enter" /\ Arrive(i, ThreadBarrier, "merge", "entering") /\ at' = at
  BY DEF EnterBarrier
<1>2. Gathering
  BY <1>1, PhaseOf DEF Inside
<1> DEFINE S == {k \in Threads : Counted(k)}
<1>3. /\ gen'[i] = generation[ThreadBarrier]
      /\ numLeft[ThreadBarrier] = 1 =>
           /\ generation'[ThreadBarrier] # generation[ThreadBarrier]
           /\ numLeft'[ThreadBarrier] = N /\ pc'[i] = "merge"
      /\ numLeft[ThreadBarrier] # 1 =>
           /\ generation' = generation
           /\ numLeft'[ThreadBarrier] = numLeft[ThreadBarrier] - 1 /\ pc'[i] = "entering"
  BY <1>1, Arrival
<1>4. /\ i \notin S /\ S \in SUBSET Threads /\ IsFiniteSet(S) /\ Cardinality(S) \in Nat
      /\ numLeft[ThreadBarrier] = N - Cardinality(S)
  <2>1. i \notin S /\ S \in SUBSET Threads
    BY <1>1 DEF Counted
  <2>2. IsFiniteSet(S) /\ Cardinality(S) \in Nat
    BY <2>1, ThreadsFinite, FS_Subset, FS_CardinalityType
  <2>3. QED
    BY <1>2, <2>1, <2>2 DEF Gathering
<1>5. CASE numLeft[ThreadBarrier] = 1
  <2>1. ASSUME NEW k \in Threads, k # i
        PROVE  Inside(k)'
    <3>1. k \in S
      <4> HIDE DEF S
      <4>1. QED
        BY <1>4, <1>5, <2>1, LastOne
    <3>2. pc'[k] = "entering" /\ gen'[k] # generation'[ThreadBarrier]
      BY <1>3, <1>5, <2>1, <3>1 DEF Counted, OnlyMoves
    <3>3. QED
      BY <3>2 DEF Inside, Counted, Leaving
  <2>2. Inside(i)'
    BY <1>3, <1>5 DEF Inside, Counted, Leaving
  <2>3. QED
    BY <1>3, <1>5, <2>1, <2>2 DEF Phases, Running
<1>6. CASE numLeft[ThreadBarrier] # 1
  <2>1. Counted(i)'
    BY <1>3, <1>6 DEF Counted
  <2>2. ASSUME NEW k \in Threads, k # i
        PROVE  (Counted(k)' <=> Counted(k)) /\ Outside(k)'
    <3>1. pc'[k] = pc[k] /\ at'[k] = at[k] /\ gen'[k] = gen[k] /\ Outside(k)
      BY <1>2, <2>2 DEF OnlyMoves, Gathering
    <3>2. (Counted(k)' <=> Counted(k)) /\ (Leaving(k)' <=> Leaving(k))
      BY <1>3, <1>6, <3>1 DEF Counted, Leaving
    <3>3. QED
      BY <3>1, <3>2 DEF Outside
  <2>3. {k \in Threads : Counted(k)}' = S \cup {i}
    BY <2>1, <2>2
  <2>4. Cardinality(S \cup {i}) = Cardinality(S) + 1
    <3> HIDE DEF S
    <3>1. QED
      BY <1>4, FS_AddElement
  <2>5. numLeft'[ThreadBarrier] = N - Cardinality({k \in Threads : Counted(k)}')
    <3> HIDE DEF S
    <3>1. QED
      BY <1>3, <1>4, <1>6, <2>3, <2>4, ConstantTypes
  <2>6. Gathering'
    BY <2>1, <2>2, <2>5 DEF Gathering, Outside
  <2>7. QED
    BY <2>6 DEF Phases
<1>7. QED
  BY <1>5, <1>6

(* ... at the first wait of an event, ...                                    *)
LEMMA FirstPhases ==
  ASSUME BarrierInv, CallsOK, Phases, NEW i \in Threads, OnlyMoves(i), FirstBarrier(i)
  PROVE  Running'
<1>1. pc[i] = "barrier1" /\ Arrive(i, at[i], "last", "wait1") /\ at' = at
  BY DEF FirstBarrier
<1>2. Running
  BY <1>1, PhaseOf DEF Outside, Counted, Leaving
<1>3. at[i] \in Globals /\ at[i] # ThreadBarrier
  BY <1>1, ThreadBarrierApart DEF BarrierInv, PlaceOK, InGlobal
<1>4. /\ numLeft[at[i]] # 1 => generation' = generation
      /\ pc'[i] \in {"last", "wait1"}
      /\ \A c \in (Globals \cup {ThreadBarrier}) \ {at[i]} :
           numLeft'[c] = numLeft[c] /\ generation'[c] = generation[c]
  BY <1>1, <1>3, Arrival
<1>5. Inside(i)'
  BY <1>4 DEF Inside, Counted, Leaving
<1>6. ASSUME NEW k \in Threads \ {i}, Leaving(k)'
      PROVE  Leaving(k)
  <2>1. pc'[k] = pc[k] /\ at'[k] = at[k] /\ gen'[k] = gen[k]
    BY DEF OnlyMoves
  <2>2. pc[k] \in {"wait2", "done"} => at[k] \in Globals
    BY DEF BarrierInv, PlaceOK, InGlobal
  <2>3. numLeft[at[i]] = 1 => pc[k] = "wait1"
    BY <1>1, FirstComplete
  <2>4. QED
    BY <1>4, <1>6, <2>1, <2>2, <2>3 DEF Leaving
<1>7. QED
  BY <1>2, <1>3, <1>4, <1>5, <1>6, RunningStep

(* ... and at the second one.                                                *)
LEMMA SecondPhases ==
  ASSUME BarrierInv, CallsOK, Phases, NEW i \in Threads, OnlyMoves(i), SecondBarrier(i)
  PROVE  Phases' /\ (at[i] = Quantum => Running')
<1>1. pc[i] = "barrier2" /\ Arrive(i, at[i], "done", "wait2") /\ at' = at
  BY DEF SecondBarrier
<1>2. Running
  BY <1>1, PhaseOf DEF Outside, Counted, Leaving
<1>3. at[i] \in Globals /\ at[i] # ThreadBarrier
  BY <1>1, ThreadBarrierApart DEF BarrierInv, PlaceOK, InGlobal
<1>4. /\ gen'[i] = generation[at[i]]
      /\ numLeft[at[i]] = 1 => generation'[at[i]] # generation[at[i]] /\ pc'[i] = "done"
      /\ numLeft[at[i]] # 1 => generation' = generation /\ pc'[i] = "wait2"
      /\ \A c \in (Globals \cup {ThreadBarrier}) \ {at[i]} :
           numLeft'[c] = numLeft[c] /\ generation'[c] = generation[c]
  BY <1>1, <1>3, Arrival
<1>5. ASSUME NEW k \in Threads \ {i}
      PROVE  pc'[k] = pc[k] /\ at'[k] = at[k] /\ gen'[k] = gen[k]
  BY DEF OnlyMoves
<1>6. CASE numLeft[at[i]] # 1
  <2>1. Inside(i)'
    BY <1>1, <1>4, <1>6 DEF Inside, Counted, Leaving
  <2>2. \A k \in Threads \ {i} : Leaving(k)' => Leaving(k)
    BY <1>4, <1>5, <1>6 DEF Leaving
  <2>3. Running'
    BY <1>2, <1>3, <1>4, <2>1, <2>2, RunningStep
  <2>4. QED
    BY <2>3 DEF Phases
<1>7. CASE numLeft[at[i]] = 1
  <2>1. ASSUME NEW k \in Threads
        PROVE  Leaving(k)' /\ at'[k] = at[i] /\ ~Counted(k)'
    <3>1. CASE k = i
      BY <1>1, <1>4, <1>7, <3>1 DEF Leaving, Counted
    <3>2. CASE k # i
      <4>1. at[k] = at[i] /\ pc[k] = "wait2" /\ gen[k] = generation[at[k]]
        BY <1>1, <1>7, <3>2, SecondComplete
      <4>2. QED
        BY <1>4, <1>5, <1>7, <3>2, <4>1 DEF Leaving, Counted
    <3>3. QED
      BY <3>1, <3>2
  <2>2. numLeft'[ThreadBarrier] = N
    BY <1>2, <1>3, <1>4 DEF Running
  <2>3. CASE at[i] = Quantum
    <3>1. \A k \in Threads : Inside(k)'
      <4>1. \A k \in Threads : pc'[k] \in {"wait2", "done"}
        BY <2>1 DEF Leaving
      <4>2. QED
        BY <2>1, <2>3, <4>1 DEF Inside
    <3>2. Running'
      BY <2>2, <3>1 DEF Running
    <3>3. QED
      BY <3>2 DEF Phases
  <2>4. CASE at[i] # Quantum
    <3>1. at[i] \in GlobalExits
      BY <1>3, <2>4 DEF Globals
    <3>2. {k \in Threads : Counted(k)}' = {}
      BY <2>1
    <3>3. N - Cardinality({k \in Threads : Counted(k)}') = N
      BY <3>2, FS_EmptySet, ConstantTypes
    <3>4. Gathering'
      BY <2>1, <2>2, <3>1, <3>3 DEF Gathering, Outside
    <3>5. QED
      BY <2>4, <3>4 DEF Phases
  <2>5. QED
    BY <2>3, <2>4
<1>8. QED
  BY <1>6, <1>7

(* A thread leaves the second wait, ...                                      *)
LEMMA LeavePhases ==
  ASSUME BarrierInv, CallsOK, Phases, NEW i \in Threads, OnlyMoves(i), LeaveSecond(i)
  PROVE  Phases'
<1>1. /\ Leaving(i) /\ ~Counted(i) /\ at[i] \in Globals /\ UNCHANGED <<numLeft, generation>>
      /\ pc[i] \in {"done", "wait2"}
  BY DEF LeaveSecond, Notified, Leaving, Counted, BarrierInv, PlaceOK, InGlobal, barriers
<1>2. CASE at[i] = Quantum
  <2>1. pc'[i] = "loop"
    BY <1>2 DEF LeaveSecond, QuantumDone, Goto, BarrierInv, PlaceOK
  <2>2. Running
    BY <1>1, <1>2, PhaseOf, EventsApart DEF Outside
  <2>3. QED
    BY <1>1, <2>1, <2>2, RunningMove DEF Phases
<1>3. CASE at[i] # Quantum
  <2>1. pc'[i] \in {"return", "enter"} /\ (pc'[i] = "return" => i = 0)
    BY <1>3 DEF LeaveSecond, Goto, BarrierInv, PlaceOK
  <2>2. Gathering
    BY <1>1, <1>3, PhaseOf DEF Inside
  <2>3. QED
    BY <1>1, <2>1, <2>2, GatheringStep DEF Phases
<1>4. QED
  BY <1>2, <1>3

(* ... the main thread calls simulate() and returns, ...                     *)
LEMMA MainPhases ==
  ASSUME BarrierInv, CallsOK, Phases, Return \/ \E until \in Limits : Simulate(until)
  PROVE  Phases' /\ Gathering /\ (pc'[0] = "python" <=> Return)
<1>1. OnlyMoves(0) /\ UNCHANGED <<numLeft, generation>>
  BY MainCalls DEF BarrierInv, barriers
<1>2. /\ pc[0] \in {"python", "return"} /\ pc'[0] \in {"python", "enter"}
      /\ pc'[0] = "python" <=> Return
  BY ConstantTypes DEF Return, Simulate, Goto, BarrierInv, PlaceOK
<1>3. Gathering /\ ~Counted(0)
  BY <1>2, ConstantTypes, PhaseOf DEF Inside, Counted
<1>4. Gathering'
  BY <1>1, <1>2, <1>3, ConstantTypes, GatheringStep
<1>5. QED
  BY <1>2, <1>3, <1>4 DEF Phases

(* ... and all other steps are in the loop.                                  *)
LEMMA InsideSteps ==
  ASSUME BarrierInv, CallsOK, Phases, NEW i \in Threads, OnlyMoves(i),
         \/ LeaveBarrier(i) \/ StartLoop(i) \/ ServiceOne(i) \/ HandlerReturn(i)
         \/ ScheduleWork(i) \/ ExitSimLoop(i)
         \/ \E k \in Threads : SendMessage(i, k) \/ Migrate(i, k)
         \/ LockGlobalQ(i) \/ AsyncInsert(i) \/ SetFlag(i)
         \/ MigrateLock(i) \/ MigrateSchedule(i) \/ MigrateBack(i)
         \/ LeaveFirst(i) \/ Process(i)
  PROVE  Running /\ Running' /\ UNCHANGED <<numLeft, generation>> /\ ~Leaving(i) /\ ~Leaving(i)'
<1>1. UNCHANGED <<numLeft, generation>>
  BY DEF LeaveBarrier, StartLoop, ServiceOne, HandlerReturn, ScheduleWork, ExitSimLoop, SendMessage,
         Migrate, LockGlobalQ, AsyncInsert, SetFlag, MigrateLock, MigrateSchedule, MigrateBack,
         LeaveFirst, Process, barriers
<1>2. ~Outside(i)
  <2>1. CASE LeaveBarrier(i)
    BY <2>1 DEF LeaveBarrier, Notified, Outside, Counted, Leaving
  <2>2. CASE ~LeaveBarrier(i)
    <3>1. pc[i] \in {"merge", "loop", "handler", "globalQ", "insert", "flag", "migrate", "migrated",
                     "return home", "last", "wait1", "process"}
      BY <2>2 DEF StartLoop, ServiceOne, HandlerReturn, ScheduleWork, ExitSimLoop, SendMessage,
                  Migrate, Operate, LockGlobalQ, AsyncInsert, SetFlag, MigrateLock, MigrateSchedule,
                  MigrateBack, LeaveFirst, Process
    <3>2. QED
      BY <3>1 DEF Outside, Counted, Leaving
  <2>3. QED
    BY <2>1, <2>2
<1>3. pc[i] \notin {"wait2", "done"}
  BY DEF LeaveBarrier, StartLoop, ServiceOne, HandlerReturn, ScheduleWork, ExitSimLoop, SendMessage,
         Migrate, Operate, LockGlobalQ, AsyncInsert, SetFlag, MigrateLock, MigrateSchedule,
         MigrateBack, LeaveFirst, Process
<1>4. pc'[i] \notin {"python", "return", "enter", "entering", "wait2", "done"}
  <2>1. pc = [k \in Threads |-> pc[k]]
    BY DEF BarrierInv, PlaceOK
  <2>2. CASE ScheduleWork(i)
    BY <2>2 DEF ScheduleWork
  <2>3. CASE ~ScheduleWork(i)
    <3>1. \E l \in {"merge", "loop", "handler", "globalQ", "insert", "flag", "migrate", "migrated",
                    "return home", "process", "barrier1", "barrier2"} : Goto(i, l)
      BY <2>3 DEF LeaveBarrier, StartLoop, ServiceOne, HandlerReturn, ExitSimLoop, GlobalSchedule,
                  SendMessage, Migrate, LockGlobalQ, AsyncInsert, SetFlag, MigrateLock,
                  MigrateSchedule, MigrateBack, LeaveFirst, AfterFirst, Process
    <3>2. QED
      BY <2>1, <3>1 DEF Goto
  <2>4. QED
    BY <2>2, <2>3
<1>5. Running
  BY <1>2, PhaseOf
<1>6. QED
  BY <1>1, <1>3, <1>4, <1>5, RunningMove DEF Leaving
-----------------------------------------------------------------------------
(* The quantum event is not lost.                                            *)

(* Nothing changes about it on queue k.                                      *)
QuantumKept(k) ==
  /\ On(mainq'[k], Quantum) <=> On(mainq[k], Quantum)
  /\ On(asyncq'[k], Quantum) <=> On(asyncq[k], Quantum)
  /\ <<Quantum, k>> \in scheduled => <<Quantum, k>> \in scheduled'
  /\ Once(mainq[k], Quantum) => Once(mainq'[k], Quantum)
  /\ Once(asyncq[k], Quantum) => Once(asyncq'[k], Quantum)

(* It is where it was.                                                       *)
LEMMA KeptThere ==
  ASSUME QuantumInv, NEW k \in Threads, QuantumKept(k), Expected(k)' = Expected(k)
  PROVE  QuantumAt(k, Expected(k))'
BY DEF QuantumInv, QuantumAt, QuantumKept

(* Queues that do not change.                                                *)
LEMMA QueuesKept ==
  ASSUME UNCHANGED <<mainq, asyncq>>, scheduled \subseteq scheduled', NEW k
  PROVE  QuantumKept(k)
BY DEF QuantumKept

(* The place of the event does not depend on other threads, except the one   *)
(* that puts it there.                                                       *)
LEMMA ExpectedOther ==
  ASSUME NEW i \in Threads, OnlyMoves(i), \A j \in Threads \ {i} : todo'[j] = todo[j],
         generation'[Quantum] = generation[Quantum],
         pc[0] = "python" <=> pc'[0] = "python",
         NEW k \in Threads, k # i,
         NotYet(i, k)' <=> NotYet(i, k), JustPut(i, k)' <=> JustPut(i, k)
  PROVE  Expected(k)' = Expected(k)
<1>1. pc'[k] = pc[k] /\ at'[k] = at[k] /\ gen'[k] = gen[k]
  BY DEF OnlyMoves
<1>2. \A j \in Threads : (NotYet(j, k)' <=> NotYet(j, k)) /\ (JustPut(j, k)' <=> JustPut(j, k))
  <2>1. ASSUME NEW j \in Threads \ {i}
        PROVE  (NotYet(j, k)' <=> NotYet(j, k)) /\ (JustPut(j, k)' <=> JustPut(j, k))
    <3>1. pc'[j] = pc[j] /\ at'[j] = at[j] /\ todo'[j] = todo[j]
      BY DEF OnlyMoves
    <3>2. QED
      BY <3>1 DEF NotYet, JustPut
  <2>2. QED
    BY <2>1
<1>3. ASSUME at[k] = Quantum
      PROVE  /\ Leaving(k)' <=> Leaving(k)
             /\ Role(k, Quantum)' = Role(k, Quantum)
  BY <1>1, <1>3 DEF Leaving, Role
<1>4. QED
  BY <1>1, <1>2, <1>3 DEF Expected

(* Away from the quantum event, a thread changes none of the places.         *)
LEMMA ExpectedKept ==
  ASSUME NEW i \in Threads, OnlyMoves(i), \A j \in Threads \ {i} : todo'[j] = todo[j],
         generation'[Quantum] = generation[Quantum],
         pc[0] = "python" <=> pc'[0] = "python",
         at[i] # Quantum, at'[i] # Quantum, NEW k \in Threads
  PROVE  Expected(k)' = Expected(k)
<1>1. (NotYet(i, k)' <=> NotYet(i, k)) /\ (JustPut(i, k)' <=> JustPut(i, k))
  BY DEF NotYet, JustPut
<1>2. CASE k # i
  BY <1>1, <1>2, ExpectedOther
<1>3. CASE k = i
  BY <1>3 DEF Expected
<1>4. QED
  BY <1>2, <1>3

(* While a thread processes the quantum event alone, the places depend on    *)
(* how far it is.                                                            *)
ExpectedBy(i, k) ==
  IF NotYet(i, k) THEN "nowhere" ELSE IF JustPut(i, k) THEN "unflagged" ELSE "asyncq"

(* That is the place it is expected at.                                      *)
LEMMA AloneExpected ==
  \A i, k \in Threads :
    BarrierInv /\ pc[0] # "python" /\ Role(i, Quantum) = "alone" => Expected(k) = ExpectedBy(i, k)
<1> SUFFICES ASSUME NEW i \in Threads, NEW k \in Threads, BarrierInv, pc[0] # "python",
                    Role(i, Quantum) = "alone"
             PROVE  Expected(k) = ExpectedBy(i, k)
  OBVIOUS
<1>1. Finishing(Quantum)
  BY EventsApart DEF BarrierInv, BarrierOK, Collecting
<1>2. \A j \in Threads : Role(j, Quantum) \in {"between", "alone", "second"}
  BY <1>1 DEF Finishing
<1>3. at[k] = Quantum /\ ~Leaving(k) /\ pc[k] # "barrier1" /\ Role(k, Quantum) # "first"
  <2>1. at[k] = Quantum /\ Role(k, Quantum) # "away" /\ Role(k, Quantum) # "first"
    BY <1>2 DEF Role
  <2>2. QED
    BY <2>1 DEF Role, AloneAt, Leaving
<1>4. ASSUME NEW j \in Threads, NotYet(j, k) \/ JustPut(j, k)
      PROVE  j = i
  <2>1. Role(j, Quantum) = "alone"
    BY <1>4 DEF NotYet, JustPut, Role, AloneAt
  <2>2. QED
    BY <1>1, <2>1 DEF Finishing
<1>5. QED
  BY <1>3, <1>4 DEF Expected, ExpectedBy

(* And so they do after a step.                                              *)
LEMMA AloneExpectedNext ==
  (\A i, k \in Threads :
     BarrierInv /\ pc[0] # "python" /\ Role(i, Quantum) = "alone" => Expected(k) = ExpectedBy(i, k))'
BY AloneExpected, PTL

(* A step of the thread that processes the event alone, before and after.    *)
LEMMA AloneStep ==
  ASSUME BarrierInv, BarrierInv', NEW i \in Threads, NEW k \in Threads,
         pc[0] # "python", pc'[0] # "python",
         Role(i, Quantum) = "alone", Role(i, Quantum)' = "alone"
  PROVE  Expected(k) = ExpectedBy(i, k) /\ Expected(k)' = ExpectedBy(i, k)'
BY AloneExpected, AloneExpectedNext

-----------------------------------------------------------------------------
(* The steps away from the quantum event.                                    *)

(* An insertion of another event keeps it.                                   *)
LEMMA InsertionKeeps ==
  ASSUME NEW list \in Seq(Item), NEW x \in Item, x.event # Quantum
  PROVE  /\ On(Inserted(list, x), Quantum) <=> On(list, Quantum)
         /\ Once(list, Quantum) => Once(Inserted(list, x), Quantum)
         /\ On(Append(list, x), Quantum) <=> On(list, Quantum)
         /\ Once(list, Quantum) => Once(Append(list, x), Quantum)
<1>1. PICK m \in 0 .. Len(list) : Put(list, Inserted(list, x), m, x)
  BY InsertedIs
<1>2. /\ On(Inserted(list, x), Quantum) <=> On(list, Quantum)
      /\ Once(list, Quantum) => Once(Inserted(list, x), Quantum)
  BY <1>1, PutEvents
<1>3. Put(list, Append(list, x), Len(list), x) /\ Len(list) \in 0 .. Len(list)
  BY AppendIs
<1>4. /\ On(Append(list, x), Quantum) <=> On(list, Quantum)
      /\ Once(list, Quantum) => Once(Append(list, x), Quantum)
  BY <1>3, PutEvents
<1>5. QED
  BY <1>2, <1>4

(* Another event that is serviced.                                           *)
LEMMA ServiceKeeps ==
  ASSUME LoopInv, NEW i \in Threads, ServiceOne(i), Head(mainq[i]).event # Quantum, NEW k \in Threads
  PROVE  QuantumKept(k)
<1>1. mainq[i] # <<>> /\ mainq[i] \in Seq(Item)
  BY LoopHasEvent DEF ServiceOne
<1>2. Dropped(mainq[i], Tail(mainq[i]), 1) /\ 1 \in DOMAIN mainq[i] /\ Head(mainq[i]) = mainq[i][1]
  BY <1>1, TailIs
<1>3. /\ On(Tail(mainq[i]), Quantum) <=> On(mainq[i], Quantum)
      /\ Once(mainq[i], Quantum) => Once(Tail(mainq[i]), Quantum)
  BY <1>1, <1>2, DroppedEvents
<1>4. /\ mainq' = [mainq EXCEPT ![i] = Tail(mainq[i])] /\ asyncq' = asyncq
      /\ scheduled' = scheduled \ {<<Head(mainq[i]).event, i>>}
      /\ mainq \in [Threads -> Seq(Item)]
  BY DEF ServiceOne, LoopInv, QueuesType
<1>5. <<Quantum, k>> \in scheduled => <<Quantum, k>> \in scheduled'
  BY <1>4
<1>6. QED
  BY <1>3, <1>4, <1>5 DEF QuantumKept

(* Insertions that are handled while the event is on the queue.              *)
LEMMA MergeKeeps ==
  ASSUME QueuesType, QuantumInv, NEW i \in Threads, Expected(i) = "mainq",
         HandleAsyncInsertions(i), NEW k \in Threads
  PROVE  QuantumKept(k)
<1>1. /\ mainq' = [mainq EXCEPT ![i] = Merged(i)] /\ asyncq' = [asyncq EXCEPT ![i] = <<>>]
      /\ scheduled' = scheduled
      /\ mainq \in [Threads -> Seq(Item)] /\ asyncq \in [Threads -> Seq(Item)]
  BY DEF HandleAsyncInsertions, QueuesType
<1>2. /\ On(mainq[i], Quantum) /\ ~On(asyncq[i], Quantum)
      /\ Once(mainq[i], Quantum) /\ Once(asyncq[i], Quantum)
  BY DEF QuantumInv, QuantumAt
<1>3. On(Merged(i), Quantum) /\ Once(Merged(i), Quantum)
  BY <1>2, MergedEvents
<1>4. ~On(<<>>, Quantum) /\ Once(<<>>, Quantum)
  BY DEF On, Once
<1>5. QED
  BY <1>1, <1>2, <1>3, <1>4 DEF QuantumKept

(* Other events that are scheduled.                                          *)
LEMMA SchedulingKeeps ==
  ASSUME QueuesType, CallsOK, QuantumInv, NEW i \in Threads, at[i] # Quantum,
         ScheduleWork(i) \/ AsyncInsert(i) \/ SetFlag(i) \/ MigrateSchedule(i), NEW k \in Threads
  PROVE  QuantumKept(k)
<1>0. /\ mainq \in [Threads -> Seq(Item)] /\ asyncq \in [Threads -> Seq(Item)]
      /\ curTick \in [Threads -> Nat]
  BY DEF QueuesType
<1>1. CASE ScheduleWork(i)
  <2>1. Entry(Work, curTick[i] + WorkDelay) \in Item /\ Entry(Work, curTick[i] + WorkDelay).event # Quantum
    BY <1>0, ConstantTypes, EventsApart, EntryFacts
  <2>2. /\ mainq' = [mainq EXCEPT ![i] = Inserted(@, Entry(Work, curTick[i] + WorkDelay))]
        /\ asyncq' = asyncq /\ scheduled \subseteq scheduled'
    BY <1>1 DEF ScheduleWork
  <2> HIDE DEF Entry
  <2>3. QED
    BY <1>0, <2>1, <2>2, InsertionKeeps DEF QuantumKept
<1>2. CASE AsyncInsert(i)
  <2>1. /\ Entry(todo[i].event, todo[i].when) \in Item
        /\ Entry(todo[i].event, todo[i].when).event # Quantum
        /\ Head(todo[i].queues) \in Threads
    BY <1>2, CallFacts, EntryFacts DEF AsyncInsert, Inserting
  <2>2. /\ asyncq' = [asyncq EXCEPT ![Head(todo[i].queues)] =
                        Append(@, Entry(todo[i].event, todo[i].when))]
        /\ mainq' = mainq /\ scheduled' = scheduled
    BY <1>2 DEF AsyncInsert
  <2>3. QED
    BY <1>0, <2>1, <2>2, InsertionKeeps DEF QuantumKept
<1>3. CASE SetFlag(i)
  BY <1>3, QueuesKept DEF SetFlag
<1>4. CASE MigrateSchedule(i)
  <2>1. PICK h \in Threads :
          /\ \/ mainq' = mainq /\ asyncq' = asyncq
             \/ /\ mainq' = [mainq EXCEPT ![h] = Inserted(mainq[h], Entry(Io, curTick[h]))]
                /\ \E rest \in Remains(asyncq[h]) :
                     /\ asyncq' = [asyncq EXCEPT ![h] = rest]
                     /\ pc[h] = "merge" \/ rest = asyncq[h]
          /\ scheduled \subseteq scheduled'
    BY <1>4, MigrateFacts
  <2>2. Entry(Io, curTick[h]) \in Item /\ Entry(Io, curTick[h]).event # Quantum
    BY <1>0, <2>1, EventsApart, EntryFacts
  <2>3. CASE mainq' = mainq /\ asyncq' = asyncq
    BY <2>1, <2>3, QueuesKept
  <2>4. ASSUME mainq' = [mainq EXCEPT ![h] = Inserted(mainq[h], Entry(Io, curTick[h]))],
               NEW rest \in Remains(asyncq[h]), asyncq' = [asyncq EXCEPT ![h] = rest],
               pc[h] = "merge" \/ rest = asyncq[h]
        PROVE  QuantumKept(k)
    <3>1. /\ On(Inserted(mainq[h], Entry(Io, curTick[h])), Quantum) <=> On(mainq[h], Quantum)
          /\ Once(mainq[h], Quantum) => Once(Inserted(mainq[h], Entry(Io, curTick[h])), Quantum)
      BY <1>0, <2>1, <2>2, InsertionKeeps
    <3>2. pc[h] = "merge" => ~On(asyncq[h], Quantum)
      <4>1. pc[h] = "merge" => at[h] # Quantum
        BY EventsApart DEF CallsOK, AtRest
      <4>2. at[h] # Quantum => Expected(h) \in {"nowhere", "mainq"}
        BY DEF Expected
      <4>3. QED
        BY <4>1, <4>2 DEF QuantumInv, QuantumAt
    <3>3. /\ On(rest, Quantum) <=> On(asyncq[h], Quantum)
          /\ Once(asyncq[h], Quantum) => Once(rest, Quantum)
      BY <1>0, <2>4, <3>2, RemainsFacts
    <3>4. /\ mainq'[k] = IF k = h THEN Inserted(mainq[h], Entry(Io, curTick[h])) ELSE mainq[k]
          /\ asyncq'[k] = IF k = h THEN rest ELSE asyncq[k]
      BY <1>0, <2>4
    <3>5. QED
      BY <2>1, <3>1, <3>3, <3>4 DEF QuantumKept
  <2>5. QED
    BY <2>1, <2>3, <2>4
<1>5. QED
  BY <1>1, <1>2, <1>3, <1>4

(* The steps of a thread that is not at the quantum event.                   *)
LEMMA OtherSteps ==
  ASSUME LoopInv, NEW i \in Threads, Step(i), at[i] # Quantum, at'[i] # Quantum
  PROVE  QuantumInv'
<1>1. /\ BarrierInv /\ PlaceOK /\ CallsOK /\ QueuesType /\ Phases /\ QuantumInv
  BY DEF LoopInv, BarrierInv
<1>2. OnlyMoves(i) /\ \A j \in Threads \ {i} : todo'[j] = todo[j]
  BY <1>1, OneMoves
<1>3. pc[0] = "python" <=> pc'[0] = "python"
  <2>1. CASE i = 0
    <3>1. pc[0] # "python"
      BY <2>1 DEF Step, EnterBarrier, LeaveBarrier, StartLoop, ServiceOne, HandlerReturn, ScheduleWork,
                  ExitSimLoop, SendMessage, Migrate, Operate, LockGlobalQ, AsyncInsert, SetFlag, MigrateLock,
                  MigrateSchedule, MigrateBack, FirstBarrier, LeaveFirst, Process, SecondBarrier, LeaveSecond
    <3>2. \/ UNCHANGED pc /\ ScheduleWork(i)
          \/ \E l \in {"merge", "loop", "handler", "globalQ", "insert", "flag", "migrate", "migrated",
                       "return home", "process", "barrier1", "barrier2", "last", "wait1", "done", "wait2",
                       "entering", "return", "enter"} : Goto(i, l)
      BY DEF Step, EnterBarrier, LeaveBarrier, StartLoop, ServiceOne, HandlerReturn, ScheduleWork,
             ExitSimLoop, GlobalSchedule, SendMessage, Migrate, LockGlobalQ, AsyncInsert, SetFlag,
             MigrateLock, MigrateSchedule, MigrateBack, FirstBarrier, LeaveFirst, AfterFirst, Process,
             SecondBarrier, LeaveSecond, QuantumDone, Arrive
    <3>3. pc'[0] # "python"
      BY <1>1, <2>1, <3>1, <3>2 DEF PlaceOK, Goto
    <3>4. QED
      BY <3>1, <3>3
  <2>2. QED
    BY <2>1, <1>2, ConstantTypes DEF OnlyMoves
<1>4. generation'[Quantum] = generation[Quantum]
  <2>1. CASE EnterBarrier(i)
    <3>1. Arrive(i, ThreadBarrier, "merge", "entering")
      BY <2>1 DEF EnterBarrier
    <3>2. QED
      BY <1>1, <3>1, Arrival, EventsApart, ThreadBarrierApart
  <2>2. CASE FirstBarrier(i) \/ SecondBarrier(i)
    <3>1. pc[i] \in {"barrier1", "barrier2"}
      BY <2>2 DEF FirstBarrier, SecondBarrier
    <3>2. at[i] \in Globals
      BY <1>1, <3>1 DEF PlaceOK, InGlobal
    <3>3. Arrive(i, at[i], "last", "wait1") \/ Arrive(i, at[i], "done", "wait2")
      BY <2>2 DEF FirstBarrier, SecondBarrier
    <3>4. QED
      BY <1>1, <3>2, <3>3, Arrival, EventsApart
  <2>3. CASE ~(EnterBarrier(i) \/ FirstBarrier(i) \/ SecondBarrier(i))
    BY <2>3 DEF Step, LeaveBarrier, StartLoop, ServiceOne, HandlerReturn, ScheduleWork, ExitSimLoop,
                SendMessage, Migrate, LockGlobalQ, AsyncInsert, SetFlag, MigrateLock, MigrateSchedule,
                MigrateBack, LeaveFirst, Process, LeaveSecond, barriers
  <2>4. QED
    BY <2>1, <2>2, <2>3
<1>5. \A k \in Threads : Expected(k)' = Expected(k)
  BY <1>2, <1>3, <1>4, ExpectedKept
<1>6. ASSUME NEW k \in Threads
      PROVE  QuantumKept(k)
  <2>1. CASE ServiceOne(i)
    <3>1. Head(mainq[i]).event # Quantum
      BY <1>1, <2>1 DEF ServiceOne, PlaceOK
    <3>2. QED
      BY <2>1, <3>1, ServiceKeeps
  <2>2. CASE StartLoop(i)
    <3>1. pc[i] = "merge" /\ HandleAsyncInsertions(i)
      BY <2>2 DEF StartLoop
    <3>2. pc[0] # "python"
      BY <1>1, <3>1, InsideRuns DEF Outside, Counted, Leaving
    <3>3. Expected(i) = "mainq"
      BY <3>2 DEF Expected
    <3>4. QED
      BY <1>1, <3>1, <3>3, MergeKeeps
  <2>3. CASE ScheduleWork(i) \/ AsyncInsert(i) \/ SetFlag(i) \/ MigrateSchedule(i)
    BY <1>1, <2>3, SchedulingKeeps
  <2>4. CASE ~(\/ ServiceOne(i) \/ StartLoop(i) \/ ScheduleWork(i)
               \/ AsyncInsert(i) \/ SetFlag(i) \/ MigrateSchedule(i))
    <3>1. UNCHANGED queues
      BY <2>4 DEF Step, EnterBarrier, LeaveBarrier, HandlerReturn, ExitSimLoop, SendMessage, Migrate,
                  LockGlobalQ, MigrateLock, MigrateBack, FirstBarrier, LeaveFirst, Process,
                  SecondBarrier, LeaveSecond
    <3>2. QED
      BY <3>1, QueuesKept DEF queues
  <2>5. QED
    BY <2>1, <2>2, <2>3, <2>4
<1>7. QED
  BY <1>1, <1>5, <1>6, KeptThere DEF QuantumInv
-----------------------------------------------------------------------------
(* The steps of the quantum event.                                           *)

(* A step inside the loop that only changes the places of the event.         *)
LEMMA PlacesKept ==
  ASSUME QuantumInv, UNCHANGED queues, \A k \in Threads : Expected(k)' = Expected(k)
  PROVE  QuantumInv'
<1>1. \A k \in Threads : QuantumKept(k)
  BY QueuesKept DEF queues
<1>2. QED
  BY <1>1, KeptThere DEF QuantumInv

(* The event is serviced: it is gone from the queue.                         *)
LEMMA QuantumServiced ==
  ASSUME LoopInv, NEW i \in Threads, ServiceOne(i), at'[i] = Quantum
  PROVE  QuantumInv'
<1>1. /\ BarrierInv /\ PlaceOK /\ CallsOK /\ QueuesType /\ Phases /\ QuantumInv
      /\ at = [k \in Threads |-> at[k]] /\ pc = [k \in Threads |-> pc[k]]
      /\ mainq \in [Threads -> Seq(Item)]
  BY DEF LoopInv, BarrierInv, PlaceOK, QueuesType
<1>2. OnlyMoves(i) /\ \A j \in Threads \ {i} : todo'[j] = todo[j]
  BY <1>1, OneMoves DEF Step
<1>3. pc[i] = "loop" /\ at[i] # Quantum /\ Head(mainq[i]).event = Quantum /\ pc'[i] = "barrier1"
  <2>1. pc[i] = "loop" /\ Head(mainq[i]).event = Quantum
    BY <1>1 DEF ServiceOne
  <2>2. at[i] # Quantum
    BY <2>1, LoopHasEvent, EventsApart DEF ServiceOne
  <2>3. pc'[i] = "barrier1"
    BY <1>1, <2>1, EventsApart DEF ServiceOne, Goto
  <2>4. QED
    BY <2>1, <2>2, <2>3
<1>4. /\ Running /\ Running' /\ UNCHANGED <<numLeft, generation>> /\ ~Leaving(i)'
  BY <1>1, <1>2, InsideSteps
<1>5. pc[0] # "python" /\ pc'[0] # "python"
  BY <1>4, ConstantTypes DEF Running, Inside
<1>6. /\ mainq[i] # <<>> /\ mainq[i] \in Seq(Item)
      /\ Dropped(mainq[i], Tail(mainq[i]), 1) /\ 1 \in DOMAIN mainq[i]
      /\ mainq[i][1].event = Quantum
  BY <1>3, LoopHasEvent, TailIs
<1>7. /\ mainq' = [mainq EXCEPT ![i] = Tail(mainq[i])] /\ asyncq' = asyncq
      /\ scheduled' = scheduled \ {<<Quantum, i>>}
  BY <1>3 DEF ServiceOne
<1>8. ASSUME NEW k \in Threads, k # i
      PROVE  QuantumAt(k, Expected(k))'
  <2>1. QuantumKept(k)
    BY <1>1, <1>7, <1>8 DEF QuantumKept
  <2>2. (NotYet(i, k)' <=> NotYet(i, k)) /\ (JustPut(i, k)' <=> JustPut(i, k))
    BY <1>3 DEF NotYet, JustPut
  <2>3. Expected(k)' = Expected(k)
    BY <1>2, <1>4, <1>5, <1>8, <2>2, ExpectedOther
  <2>4. QED
    BY <1>1, <2>1, <2>3, KeptThere
<1>9. QuantumAt(i, Expected(i))'
  <2>1. Expected(i) = "mainq"
    BY <1>3, <1>5 DEF Expected
  <2>2. /\ Once(mainq[i], Quantum) /\ Once(asyncq[i], Quantum) /\ ~On(asyncq[i], Quantum)
    BY <1>1, <2>1 DEF QuantumInv, QuantumAt
  <2>3. ~On(Tail(mainq[i]), Quantum) /\ Once(Tail(mainq[i]), Quantum)
    BY <1>6, <2>2, DroppedEvents
  <2>4. Expected(i)' = "nowhere"
    BY <1>3, <1>4, <1>5 DEF Expected
  <2>5. QED
    BY <1>1, <1>7, <2>2, <2>3, <2>4 DEF QuantumAt
<1>10. QED
  BY <1>8, <1>9 DEF QuantumInv

(* A thread that is in process() of the event is alone in it.                *)
LEMMA AloneInQuantum ==
  ASSUME LoopInv, NEW i \in Threads, at[i] = Quantum, pc[i] \in AloneAt
  PROVE  Role(i, Quantum) = "alone" /\ Running /\ pc[0] # "python"
<1>1. Role(i, Quantum) = "alone"
  BY DEF Role
<1>2. ~Outside(i)
  BY DEF AloneAt, Outside, Counted, Leaving
<1>3. QED
  BY <1>1, <1>2, InsideRuns DEF LoopInv

(* It gets the mutex and puts the event on one queue after the other.        *)
LEMMA QuantumProcessed ==
  ASSUME LoopInv, BarrierInv', CallsOK', NEW i \in Threads, at[i] = Quantum,
         Process(i) \/ LockGlobalQ(i)
  PROVE  QuantumInv'
<1>1. /\ BarrierInv /\ PlaceOK /\ CallsOK /\ QueuesType /\ Phases /\ QuantumInv
      /\ at = [k \in Threads |-> at[k]] /\ pc = [k \in Threads |-> pc[k]]
      /\ todo \in [Threads -> Call]
  BY DEF LoopInv, BarrierInv, PlaceOK, QueuesType
<1>2. OnlyMoves(i)
  BY <1>1, OneMoves DEF Step
<1>3. at' = at /\ UNCHANGED queues /\ pc[i] \in AloneAt
  BY DEF Process, LockGlobalQ, AloneAt
<1>4. pc'[i] \in AloneAt /\ pc'[0] # "python"
  <2>1. pc'[i] \in {"globalQ", "insert"}
    BY <1>1 DEF Process, LockGlobalQ, GlobalSchedule, Goto
  <2>2. Running'
    BY <1>1, <1>2, InsideSteps
  <2>3. QED
    BY <2>1, <2>2, ConstantTypes DEF AloneAt, Running, Inside
<1>5. Role(i, Quantum) = "alone" /\ Role(i, Quantum)' = "alone" /\ pc[0] # "python"
  BY <1>3, <1>4, AloneInQuantum DEF Role
<1>6. ASSUME NEW k \in Threads
      PROVE  Expected(k)' = Expected(k)
  <2>1. Expected(k) = ExpectedBy(i, k) /\ Expected(k)' = ExpectedBy(i, k)'
    BY <1>1, <1>4, <1>5, AloneStep
  <2>2. NotYet(i, k)
    BY DEF NotYet, Process, LockGlobalQ
  <2>3. NotYet(i, k)'
    <3>1. CASE Process(i)
      <4>1. pc'[i] = "globalQ"
        BY <1>1, <3>1 DEF Process, GlobalSchedule, Goto
      <4>2. QED
        BY <1>3, <4>1 DEF NotYet
    <3>2. CASE LockGlobalQ(i)
      <4>1. pc[i] = "globalQ" /\ pc'[i] = "insert" /\ todo' = todo
        BY <1>1, <3>2 DEF LockGlobalQ, Goto
      <4>2. Len(todo'[i].queues) = N /\ k >= N - N
        BY <1>1, <4>1, ConstantTypes DEF CallsOK
      <4>3. QED
        BY <1>3, <4>1, <4>2 DEF NotYet
    <3>3. QED
      BY <3>1, <3>2
  <2>4. QED
    BY <2>1, <2>2, <2>3 DEF ExpectedBy
<1>7. QED
  BY <1>1, <1>3, <1>6, PlacesKept

(* It appends the event to the next queue.                                   *)
LEMMA QuantumInserted ==
  ASSUME LoopInv, BarrierInv', CallsOK', NEW i \in Threads, at[i] = Quantum, AsyncInsert(i)
  PROVE  QuantumInv'
<1>1. /\ BarrierInv /\ PlaceOK /\ CallsOK /\ QueuesType /\ Phases /\ QuantumInv
      /\ at = [k \in Threads |-> at[k]] /\ pc = [k \in Threads |-> pc[k]]
      /\ asyncq \in [Threads -> Seq(Item)] /\ mainq \in [Threads -> Seq(Item)]
  BY DEF LoopInv, BarrierInv, PlaceOK, QueuesType
<1>2. OnlyMoves(i)
  BY <1>1, OneMoves DEF Step
<1>3. PICK h : h = Head(todo[i].queues)
  OBVIOUS
<1>4. PICK x : x = Entry(todo[i].event, todo[i].when)
  OBVIOUS
<1>5. /\ pc[i] = "insert" /\ pc'[i] = "flag" /\ at' = at /\ todo' = todo
      /\ asyncq' = [asyncq EXCEPT ![h] = Append(@, x)]
      /\ mainq' = mainq /\ scheduled' = scheduled
  BY <1>1, <1>3, <1>4 DEF AsyncInsert, Goto
<1>6. /\ h \in Threads /\ h = N - Len(todo[i].queues) /\ x \in Item /\ x.event = Quantum
      /\ h \in Int /\ \A k \in Threads : k \in Int
  <2>1. pc[i] \in Inserting
    BY <1>5 DEF Inserting
  <2>2. /\ h \in Threads /\ (todo[i].event # Message => h = N - Len(todo[i].queues))
        /\ todo[i].event = Quantum /\ todo[i].event \in Events /\ todo[i].when \in Nat
    BY <1>1, <1>3, <2>1, CallFacts
  <2>3. x \in Item /\ x.event = Quantum
    BY <1>4, <2>2, EntryFacts
  <2>4. Quantum # Message
    BY EventsApart
  <2>5. QED
    BY <2>2, <2>3, <2>4 DEF Threads
<1>7. /\ Role(i, Quantum) = "alone" /\ Role(i, Quantum)' = "alone"
      /\ pc[0] # "python" /\ pc'[0] # "python"
  <2>1. Role(i, Quantum) = "alone" /\ pc[0] # "python"
    BY <1>5, AloneInQuantum DEF AloneAt
  <2>2. Running'
    BY <1>1, <1>2, InsideSteps
  <2>3. QED
    BY <1>5, <2>1, <2>2, ConstantTypes DEF Running, Inside, Role, AloneAt
<1>8. \A k \in Threads : Expected(k) = ExpectedBy(i, k) /\ Expected(k)' = ExpectedBy(i, k)'
  BY <1>1, <1>7, AloneStep
<1>9. ASSUME NEW k \in Threads, k # h
      PROVE  QuantumAt(k, Expected(k))'
  <2>1. QuantumKept(k)
    BY <1>1, <1>5, <1>9 DEF QuantumKept
  <2>2. k >= h <=> k > h
    BY <1>6, <1>9
  <2>3. NotYet(i, k)' <=> NotYet(i, k)
    BY <1>5, <1>6, <2>2 DEF NotYet
  <2>4. ~JustPut(i, k) /\ ~JustPut(i, k)'
    BY <1>5, <1>6, <1>9 DEF JustPut
  <2>5. Expected(k)' = Expected(k)
    BY <1>8, <2>3, <2>4 DEF ExpectedBy
  <2>6. QED
    BY <1>1, <2>1, <2>5, KeptThere
<1>10. QuantumAt(h, Expected(h))'
  <2>1. NotYet(i, h) /\ h >= h /\ ~(h > h)
    BY <1>5, <1>6 DEF NotYet
  <2>2. ~NotYet(i, h)' /\ JustPut(i, h)'
    BY <1>5, <1>6, <2>1 DEF NotYet, JustPut
  <2>3. Expected(h) = "nowhere" /\ Expected(h)' = "unflagged"
    BY <1>6, <1>8, <2>1, <2>2 DEF ExpectedBy
  <2>4. ~On(mainq[h], Quantum) /\ ~On(asyncq[h], Quantum) /\ Once(mainq[h], Quantum) /\ Once(asyncq[h], Quantum)
    BY <1>1, <1>6, <2>3 DEF QuantumInv, QuantumAt
  <2>5. On(Append(asyncq[h], x), Quantum) /\ Once(Append(asyncq[h], x), Quantum)
    <3>1. asyncq[h] \in Seq(Item) /\ Len(asyncq[h]) \in 0 .. Len(asyncq[h])
      BY <1>1, <1>6
    <3>2. Put(asyncq[h], Append(asyncq[h], x), Len(asyncq[h]), x)
      BY <1>6, <3>1, AppendIs
    <3>3. QED
      BY <1>6, <2>4, <3>1, <3>2, PutEvents
  <2>6. QED
    BY <1>1, <1>5, <1>6, <2>3, <2>4, <2>5 DEF QuantumAt
<1>11. QED
  BY <1>9, <1>10 DEF QuantumInv

(* It sets the flag and goes on to the next queue, or to the second wait.    *)
LEMMA QuantumFlagged ==
  ASSUME LoopInv, BarrierInv', CallsOK', NEW i \in Threads, at[i] = Quantum, SetFlag(i)
  PROVE  QuantumInv'
<1>1. /\ BarrierInv /\ PlaceOK /\ CallsOK /\ QueuesType /\ Phases /\ QuantumInv
      /\ at = [k \in Threads |-> at[k]] /\ pc = [k \in Threads |-> pc[k]]
      /\ todo \in [Threads -> Call]
  BY DEF LoopInv, BarrierInv, PlaceOK, QueuesType
<1>2. OnlyMoves(i) /\ \A j \in Threads \ {i} : todo'[j] = todo[j]
  BY <1>1, OneMoves DEF Step
<1> DEFINE L == Len(todo[i].queues)
<1>3. /\ pc[i] = "flag" /\ at' = at /\ UNCHANGED <<mainq, asyncq>>
      /\ scheduled' = scheduled \cup {<<todo[i].event, Head(todo[i].queues)>>}
  BY DEF SetFlag
<1>4. /\ todo[i].event = Quantum /\ Head(todo[i].queues) = N - L /\ N - L \in Threads
      /\ todo[i].queues \in Seq(Threads) /\ L \in 1 .. N
      /\ L > 1 => Len(Tail(todo[i].queues)) = L - 1
  <2>1. pc[i] \in Inserting
    BY <1>3 DEF Inserting
  <2>2. /\ Head(todo[i].queues) \in Threads
        /\ (todo[i].event # Message => Head(todo[i].queues) = N - L)
        /\ todo[i].event = Quantum /\ todo[i].queues \in Seq(Threads)
    BY <1>1, <2>1, CallFacts
  <2>3. InCall(i) /\ Quantum # Message
    BY <1>1, <2>1, EventsApart DEF CallsOK
  <2>4. L \in 1 .. N /\ todo[i].queues = Remaining(L)
    BY <2>3, EventsApart DEF InCall
  <2>5. QED
    BY <2>2, <2>3, <2>4, RemainingFacts
<1>5. /\ L > 1 => pc'[i] = "insert" /\ Len(todo'[i].queues) = L - 1
      /\ ~(L > 1) => pc'[i] = "barrier2"
  <2>1. ASSUME L > 1
        PROVE  pc'[i] = "insert" /\ todo'[i].queues = Tail(todo[i].queues)
    <3>1. todo' = [todo EXCEPT ![i].queues = Tail(@)] /\ Goto(i, "insert")
      BY <2>1 DEF SetFlag
    <3>2. QED
      BY <1>1, <3>1 DEF Goto, Call
  <2>2. ~(L > 1) => pc'[i] = "barrier2"
    BY <1>1, EventsApart DEF SetFlag, Goto
  <2>3. QED
    BY <1>4, <2>1, <2>2
<1>6. Role(i, Quantum) = "alone" /\ Running /\ Running' /\ pc[0] # "python" /\ pc'[0] # "python"
  <2>1. Role(i, Quantum) = "alone"
    BY <1>3, AloneInQuantum DEF AloneAt
  <2>2. Running /\ Running'
    BY <1>1, <1>2, InsideSteps
  <2>3. QED
    BY <2>1, <2>2, ConstantTypes DEF Running, Inside
<1>7. \A k \in Threads : k \in Int /\ k < N /\ L \in Int /\ N \in Int
  BY <1>4, ConstantTypes DEF Threads
<1> HIDE DEF L
<1>8. ASSUME NEW k \in Threads
      PROVE  /\ NotYet(i, k) <=> k > N - L
             /\ JustPut(i, k) <=> k = N - L
             /\ NotYet(i, k)' <=> k > N - L
             /\ ~JustPut(i, k)'
  <2>1. (NotYet(i, k) <=> k > N - L) /\ (JustPut(i, k) <=> k = N - L)
    BY <1>3 DEF NotYet, JustPut, L
  <2>2. CASE L > 1
    <3>1. k >= N - (L - 1) <=> k > N - L
      BY <1>7
    <3>2. QED
      BY <1>3, <1>5, <2>1, <2>2, <3>1 DEF NotYet, JustPut
  <2>3. CASE ~(L > 1)
    <3>1. ~(k > N - L)
      BY <1>4, <1>7, <2>3
    <3>2. QED
      BY <1>3, <1>5, <2>1, <2>3, <3>1 DEF NotYet, JustPut
  <2>4. QED
    BY <2>2, <2>3
<1>9. \A k \in Threads : Expected(k) = ExpectedBy(i, k)
  BY <1>1, <1>6, AloneExpected
<1>10. ASSUME NEW k \in Threads
       PROVE  Expected(k)' = IF k = N - L THEN "asyncq" ELSE Expected(k)
  <2>1. CASE L > 1
    <3>1. Role(i, Quantum)' = "alone"
      BY <1>3, <1>5, <2>1 DEF Role, AloneAt
    <3>2. Expected(k)' = ExpectedBy(i, k)'
      BY <1>1, <1>6, <3>1, AloneStep
    <3>3. QED
      BY <1>7, <1>8, <1>9, <3>2 DEF ExpectedBy
  <2>2. CASE ~(L > 1)
    <3>1. pc'[i] = "barrier2" /\ at'[i] = Quantum
      BY <1>3, <1>5, <2>2
    <3>2. Finishing(Quantum) /\ \A j \in Threads : Role(j, Quantum) \in {"between", "alone", "second"}
      BY <1>1, <1>6, EventsApart DEF BarrierInv, BarrierOK, Collecting, Finishing
    <3>3. ASSUME NEW j \in Threads
          PROVE  /\ pc'[j] \notin AloneAt /\ pc'[j] \notin {"barrier1", "done"} /\ at'[j] = Quantum
                 /\ ~Leaving(j)' /\ Role(j, Quantum)' # "first"
      <4>1. CASE j = i
        BY <3>1, <4>1 DEF AloneAt, Leaving, Role
      <4>2. CASE j # i
        <5>1. Role(j, Quantum) \in {"between", "second"}
          BY <1>6, <3>2, <4>2 DEF Finishing
        <5>2. pc'[j] = pc[j] /\ at'[j] = at[j] /\ gen'[j] = gen[j] /\ generation' = generation
          BY <1>1, <1>2, <4>2, InsideSteps DEF OnlyMoves
        <5>3. QED
          BY <5>1, <5>2 DEF Role, Leaving, AloneAt
      <4>3. QED
        BY <4>1, <4>2
    <3>4. \A j \in Threads : ~NotYet(j, k)' /\ ~JustPut(j, k)'
      BY <3>3 DEF NotYet, JustPut, AloneAt
    <3>5. Expected(k)' = "asyncq"
      BY <1>6, <3>3, <3>4 DEF Expected
    <3>6. k > N - L <=> FALSE
      BY <1>4, <1>7, <2>2
    <3>7. QED
      BY <1>8, <1>9, <3>5, <3>6 DEF ExpectedBy
  <2>3. QED
    BY <2>1, <2>2
<1>11. ASSUME NEW k \in Threads
       PROVE  QuantumAt(k, Expected(k))'
  <2>1. QuantumKept(k)
    BY <1>3, QueuesKept
  <2>2. CASE k # N - L
    BY <1>1, <1>10, <2>1, <2>2, KeptThere
  <2>3. CASE k = N - L
    <3>1. Expected(k) = "unflagged" /\ Expected(k)' = "asyncq"
      BY <1>7, <1>8, <1>9, <1>10, <2>3 DEF ExpectedBy
    <3>2. <<Quantum, k>> \in scheduled'
      BY <1>3, <1>4, <2>3 DEF L
    <3>3. QED
      BY <1>1, <1>3, <3>1, <3>2 DEF QuantumInv, QuantumAt
  <2>4. QED
    BY <2>2, <2>3
<1>12. QED
  BY <1>11 DEF QuantumInv
(* The place of a thread's own event between the waits.                      *)
LEMMA ExpectedSelf ==
  ASSUME NEW i \in Threads, OnlyMoves(i), \A j \in Threads \ {i} : todo'[j] = todo[j],
         pc[0] # "python", pc'[0] # "python",
         at[i] = Quantum, at'[i] = Quantum, ~Leaving(i), ~Leaving(i)',
         pc[i] # "barrier1", pc'[i] # "barrier1",
         Role(i, Quantum) # "first", Role(i, Quantum)' # "first",
         ~NotYet(i, i), ~NotYet(i, i)', ~JustPut(i, i), ~JustPut(i, i)'
  PROVE  Expected(i)' = Expected(i)
<1>1. ASSUME NEW j \in Threads
      PROVE  (NotYet(j, i)' <=> NotYet(j, i)) /\ (JustPut(j, i)' <=> JustPut(j, i))
  <2>1. CASE j = i
    BY <2>1
  <2>2. CASE j # i
    <3>1. pc'[j] = pc[j] /\ at'[j] = at[j] /\ todo'[j] = todo[j]
      BY <2>2 DEF OnlyMoves
    <3>2. QED
      BY <3>1 DEF NotYet, JustPut
  <2>3. QED
    BY <2>1, <2>2
<1>2. QED
  BY <1>1 DEF Expected

(* A thread that neither puts the event on a queue nor has just done so.     *)
LEMMA PutsNothing ==
  ASSUME NEW i, pc[i] \notin AloneAt, NEW k
  PROVE  ~NotYet(i, k) /\ ~JustPut(i, k)
BY DEF NotYet, JustPut, AloneAt

(* The threads gather in the first wait, ...                                 *)
LEMMA QuantumFirst ==
  ASSUME LoopInv, BarrierInv', NEW i \in Threads, at[i] = Quantum, FirstBarrier(i)
  PROVE  QuantumInv'
<1>1. /\ BarrierInv /\ PlaceOK /\ CallsOK /\ QueuesType /\ Phases /\ QuantumInv
  BY DEF LoopInv, BarrierInv
<1>2. OnlyMoves(i) /\ \A j \in Threads \ {i} : todo'[j] = todo[j]
  BY <1>1, OneMoves DEF Step
<1>3. /\ pc[i] = "barrier1" /\ Arrive(i, Quantum, "last", "wait1") /\ at' = at /\ UNCHANGED queues
  BY DEF FirstBarrier
<1>4. /\ gen'[i] = generation[Quantum]
      /\ numLeft[Quantum] = 1 => generation'[Quantum] # generation[Quantum] /\ pc'[i] = "last"
      /\ numLeft[Quantum] # 1 => generation' = generation /\ pc'[i] = "wait1"
  BY <1>1, <1>3, Arrival, EventsApart
<1>5. pc[0] # "python" /\ pc'[0] # "python"
  <2>1. Running'
    BY <1>1, <1>2, FirstPhases
  <2>2. ~Outside(i)
    BY <1>3 DEF Outside, Counted, Leaving
  <2>3. QED
    BY <1>1, <2>1, <2>2, InsideRuns, ConstantTypes DEF Running, Inside
<1>6. Expected(i) = "nowhere"
  BY <1>3, <1>5 DEF Expected, Leaving
<1>7. CASE numLeft[Quantum] # 1
  <2>1. pc'[i] = "wait1" /\ Role(i, Quantum)' = "first" /\ ~Leaving(i)' /\ at'[i] = Quantum
    BY <1>3, <1>4, <1>7 DEF Role, AloneAt, Leaving
  <2>2. Expected(i)' = "nowhere"
    BY <1>5, <2>1 DEF Expected
  <2>3. \A k : ~NotYet(i, k) /\ ~JustPut(i, k) /\ ~NotYet(i, k)' /\ ~JustPut(i, k)'
    BY <1>3, <2>1 DEF NotYet, JustPut
  <2>4. \A k \in Threads : k # i => Expected(k)' = Expected(k)
    BY <1>2, <1>4, <1>5, <1>7, <2>3, ExpectedOther
  <2>5. QED
    BY <1>1, <1>3, <1>6, <2>2, <2>4, PlacesKept
<1>8. CASE numLeft[Quantum] = 1
  <2>1. ASSUME NEW k \in Threads, k # i
        PROVE  Expected(k) = "nowhere"
    <3>1. at[k] = Quantum /\ pc[k] = "wait1" /\ gen[k] = generation[Quantum]
      BY <1>1, <1>3, <1>8, <2>1, FirstComplete
    <3>2. QED
      BY <1>5, <3>1 DEF Expected, Leaving, Role, AloneAt
  <2>2. Role(i, Quantum)' = "alone"
    BY <1>3, <1>4, <1>8 DEF Role, AloneAt
  <2>3. \A k \in Threads : Expected(k)' = ExpectedBy(i, k)'
    BY <1>5, <2>2, AloneExpectedNext
  <2>4. \A k \in Threads : NotYet(i, k)'
    BY <1>3, <1>4, <1>8 DEF NotYet
  <2>5. \A k \in Threads : Expected(k)' = Expected(k)
    BY <1>6, <2>1, <2>3, <2>4 DEF ExpectedBy
  <2>6. QED
    BY <1>1, <1>3, <2>5, PlacesKept
<1>9. QED
  BY <1>7, <1>8

(* ... one of them goes on to process() and the others to the second wait, . *)
LEMMA QuantumLeft ==
  ASSUME LoopInv, BarrierInv', NEW i \in Threads, at[i] = Quantum, LeaveFirst(i)
  PROVE  QuantumInv'
<1>1. /\ BarrierInv /\ PlaceOK /\ CallsOK /\ QueuesType /\ Phases /\ QuantumInv
      /\ pc = [k \in Threads |-> pc[k]]
  BY DEF LoopInv, BarrierInv, PlaceOK
<1>2. OnlyMoves(i) /\ \A j \in Threads \ {i} : todo'[j] = todo[j]
  BY <1>1, OneMoves DEF Step
<1>3. /\ at' = at /\ UNCHANGED <<queues, todo>> /\ gen' = gen /\ generation' = generation
      /\ \/ pc[i] = "last" /\ pc'[i] = "process"
         \/ pc[i] = "wait1" /\ gen[i] # generation[Quantum] /\ pc'[i] = "barrier2"
  BY <1>1 DEF LeaveFirst, AfterFirst, Notified, Goto, barriers
<1>4. pc[0] # "python" /\ pc'[0] # "python"
  BY <1>1, <1>2, InsideSteps, ConstantTypes DEF Running, Inside
<1>5. CASE pc[i] = "last"
  <2>1. Role(i, Quantum) = "alone" /\ Role(i, Quantum)' = "alone"
    BY <1>3, <1>5 DEF Role, AloneAt
  <2>2. \A k \in Threads : Expected(k) = ExpectedBy(i, k) /\ Expected(k)' = ExpectedBy(i, k)'
    BY <1>1, <1>4, <2>1, AloneStep
  <2>3. \A k \in Threads : NotYet(i, k) /\ NotYet(i, k)'
    BY <1>3, <1>5 DEF NotYet
  <2>4. \A k \in Threads : Expected(k)' = Expected(k)
    BY <2>2, <2>3 DEF ExpectedBy
  <2>5. QED
    BY <1>1, <1>3, <2>4, PlacesKept
<1>6. CASE pc[i] # "last"
  <2>1. /\ pc[i] = "wait1" /\ gen[i] # generation[Quantum] /\ pc'[i] = "barrier2"
        /\ at'[i] = Quantum
    BY <1>3, <1>6
  <2>2. \A k : ~NotYet(i, k) /\ ~JustPut(i, k) /\ ~NotYet(i, k)' /\ ~JustPut(i, k)'
    BY <2>1 DEF NotYet, JustPut
  <2>3. /\ ~Leaving(i) /\ ~Leaving(i)'
        /\ Role(i, Quantum) # "first" /\ Role(i, Quantum)' # "first"
    BY <1>3, <2>1 DEF Leaving, Role, AloneAt
  <2>4. Expected(i)' = Expected(i)
    BY <1>2, <1>4, <2>1, <2>2, <2>3, ExpectedSelf
  <2>5. \A k \in Threads : k # i => Expected(k)' = Expected(k)
    BY <1>2, <1>3, <1>4, <2>2, ExpectedOther
  <2>6. QED
    BY <1>1, <1>3, <2>4, <2>5, PlacesKept
<1>7. QED
  BY <1>5, <1>6

(* ... where all meet again, ...                                             *)
LEMMA QuantumSecond ==
  ASSUME LoopInv, NEW i \in Threads, at[i] = Quantum, SecondBarrier(i)
  PROVE  QuantumInv'
<1>1. /\ BarrierInv /\ PlaceOK /\ CallsOK /\ QueuesType /\ Phases /\ QuantumInv
  BY DEF LoopInv, BarrierInv
<1>2. OnlyMoves(i) /\ \A j \in Threads \ {i} : todo'[j] = todo[j]
  BY <1>1, OneMoves DEF Step
<1>3. /\ pc[i] = "barrier2" /\ Arrive(i, Quantum, "done", "wait2") /\ at' = at /\ UNCHANGED queues
  BY DEF SecondBarrier
<1>4. /\ gen'[i] = generation[Quantum]
      /\ numLeft[Quantum] = 1 => generation'[Quantum] # generation[Quantum] /\ pc'[i] = "done"
      /\ numLeft[Quantum] # 1 => generation' = generation /\ pc'[i] = "wait2"
  BY <1>1, <1>3, Arrival, EventsApart
<1>5. pc[0] # "python" /\ pc'[0] # "python"
  <2>1. Running'
    BY <1>1, <1>2, SecondPhases
  <2>2. ~Outside(i)
    BY <1>3 DEF Outside, Counted, Leaving
  <2>3. QED
    BY <1>1, <2>1, <2>2, InsideRuns, ConstantTypes DEF Running, Inside
<1>6. /\ pc'[i] \in {"done", "wait2"} /\ at'[i] = Quantum
      /\ \A k : ~NotYet(i, k) /\ ~JustPut(i, k) /\ ~NotYet(i, k)' /\ ~JustPut(i, k)'
  BY <1>3, <1>4 DEF NotYet, JustPut
<1>7. CASE numLeft[Quantum] # 1
  <2>1. /\ ~Leaving(i) /\ ~Leaving(i)' /\ pc'[i] = "wait2"
        /\ Role(i, Quantum) # "first" /\ Role(i, Quantum)' # "first"
    BY <1>3, <1>4, <1>6, <1>7 DEF Leaving, Role, AloneAt
  <2>2. Expected(i)' = Expected(i)
    BY <1>2, <1>3, <1>5, <1>6, <2>1, ExpectedSelf
  <2>3. \A k \in Threads : k # i => Expected(k)' = Expected(k)
    BY <1>2, <1>4, <1>5, <1>6, <1>7, ExpectedOther
  <2>4. QED
    BY <1>1, <1>3, <2>2, <2>3, PlacesKept
<1>8. CASE numLeft[Quantum] = 1
  <2>1. ASSUME NEW k \in Threads
        PROVE  /\ at[k] = Quantum /\ ~Leaving(k) /\ pc[k] \in {"wait2", "barrier2"}
               /\ Role(k, Quantum) # "first" /\ at'[k] = Quantum /\ Leaving(k)'
    <3>1. CASE k = i
      BY <1>3, <1>4, <1>8, <3>1 DEF Leaving, Role, AloneAt
    <3>2. CASE k # i
      <4>1. at[k] = Quantum /\ pc[k] = "wait2" /\ gen[k] = generation[Quantum]
        BY <1>1, <1>3, <1>8, <3>2, SecondComplete
      <4>2. at'[k] = Quantum /\ pc'[k] = "wait2" /\ gen'[k] # generation'[Quantum]
        BY <1>2, <1>4, <1>8, <3>2, <4>1 DEF OnlyMoves
      <4>3. QED
        BY <4>1, <4>2 DEF Leaving, Role, AloneAt
    <3>3. QED
      BY <3>1, <3>2
  <2>2. \A j, k \in Threads : ~NotYet(j, k) /\ ~JustPut(j, k)
    BY <2>1 DEF NotYet, JustPut
  <2>3. \A k \in Threads : Expected(k) = "asyncq"
    BY <1>5, <2>1, <2>2 DEF Expected
  <2>4. \A k \in Threads : Expected(k)' = "asyncq"
    BY <1>5, <2>1 DEF Expected
  <2>5. QED
    BY <1>1, <1>3, <2>3, <2>4, PlacesKept
<1>9. QED
  BY <1>7, <1>8

(* ... and each merges its queue.                                            *)
LEMMA QuantumMerged ==
  ASSUME LoopInv, NEW i \in Threads, at[i] = Quantum, LeaveSecond(i)
  PROVE  QuantumInv'
<1>1. /\ BarrierInv /\ PlaceOK /\ CallsOK /\ QueuesType /\ Phases /\ QuantumInv
      /\ pc = [k \in Threads |-> pc[k]] /\ at = [k \in Threads |-> at[k]]
      /\ mainq \in [Threads -> Seq(Item)] /\ asyncq \in [Threads -> Seq(Item)]
  BY DEF LoopInv, BarrierInv, PlaceOK, QueuesType
<1>2. OnlyMoves(i) /\ \A j \in Threads \ {i} : todo'[j] = todo[j]
  BY <1>1, OneMoves DEF Step
<1>3. /\ Leaving(i) /\ pc[i] \in {"wait2", "done"} /\ HandleAsyncInsertions(i) /\ UNCHANGED barriers
      /\ pc'[i] = "loop" /\ at'[i] = NoEvent /\ at'[i] # Quantum
  BY <1>1, EventsApart DEF LeaveSecond, Notified, Leaving, QuantumDone, Goto
<1>4. pc[0] # "python" /\ pc'[0] # "python"
  <2>1. pc[0] # "python"
    BY <1>1, <1>3, InsideRuns, EventsApart DEF Outside, Counted
  <2>2. QED
    BY <1>2, <1>3, <2>1, ConstantTypes DEF OnlyMoves
<1>5. /\ mainq' = [mainq EXCEPT ![i] = Merged(i)] /\ asyncq' = [asyncq EXCEPT ![i] = <<>>]
      /\ scheduled' = scheduled
  BY <1>3 DEF HandleAsyncInsertions
<1>6. ASSUME NEW k \in Threads, k # i
      PROVE  QuantumAt(k, Expected(k))'
  <2>1. QuantumKept(k)
    BY <1>1, <1>5, <1>6 DEF QuantumKept
  <2>2. ~NotYet(i, k) /\ ~JustPut(i, k) /\ ~NotYet(i, k)' /\ ~JustPut(i, k)'
    BY <1>3 DEF NotYet, JustPut
  <2>3. Expected(k)' = Expected(k)
    BY <1>2, <1>3, <1>4, <1>6, <2>2, ExpectedOther DEF barriers
  <2>4. QED
    BY <1>1, <2>1, <2>3, KeptThere
<1>7. QuantumAt(i, Expected(i))'
  <2>1. Expected(i) = "asyncq"
    BY <1>3, <1>4 DEF Expected
  <2>2. /\ ~On(mainq[i], Quantum) /\ On(asyncq[i], Quantum) /\ <<Quantum, i>> \in scheduled
        /\ Once(mainq[i], Quantum) /\ Once(asyncq[i], Quantum)
    BY <1>1, <2>1 DEF QuantumInv, QuantumAt
  <2>3. On(Merged(i), Quantum) /\ Once(Merged(i), Quantum)
    BY <1>1, <2>2, MergedEvents
  <2>4. ~On(<<>>, Quantum) /\ Once(<<>>, Quantum)
    BY DEF On, Once
  <2>5. Expected(i)' = "mainq"
    BY <1>3, <1>4 DEF Expected
  <2>6. QED
    BY <1>1, <1>5, <2>2, <2>3, <2>4, <2>5 DEF QuantumAt
<1>8. QED
  BY <1>6, <1>7 DEF QuantumInv

-----------------------------------------------------------------------------
(* The main thread outside the loop.                                         *)

(* Nobody is at the quantum event then.                                      *)
LEMMA GatheringPlaces ==
  ASSUME Gathering, CallsOK, NEW k \in Threads
  PROVE  at[k] # Quantum
<1>1. Outside(k)
  BY DEF Gathering
<1>2. pc[k] \in AtRest => at[k] = NoEvent
  BY DEF CallsOK
<1>3. QED
  BY <1>1, <1>2, EventsApart DEF Outside, Counted, AtRest

(* simulate() schedules the event on all queues, ...                         *)
LEMMA SimulateQuantum ==
  ASSUME LoopInv, NEW until \in Limits, Simulate(until)
  PROVE  QuantumInv'
<1>1. /\ BarrierInv /\ CallsOK /\ QueuesType /\ Phases /\ QuantumInv
  BY DEF LoopInv
<1>2. Gathering
  BY <1>1, MainPhases
<1> DEFINE t == curTick[0] + simQuantum
<1>3. /\ mainq' = [k \in Threads |-> Inserted(Inserted(Without(mainq[k], Limit), Entry(Limit, until)),
                                               Entry(Quantum, t))]
      /\ asyncq' = asyncq /\ at' = at /\ pc[0] = "python" /\ pc'[0] = "enter"
      /\ scheduled' = scheduled \cup ({Limit, Quantum} \X Threads)
  BY <1>1, ConstantTypes DEF Simulate, Goto, BarrierInv, PlaceOK
<1>4. /\ Entry(Limit, until) \in Item /\ Entry(Quantum, t) \in Item
      /\ Entry(Limit, until).event = Limit /\ Entry(Quantum, t).event = Quantum
  BY <1>1, ConstantTypes, EventsApart, EntryFacts DEF QueuesType
<1> HIDE DEF t
<1>5. ASSUME NEW k \in Threads
      PROVE  QuantumAt(k, Expected(k))'
  <2>1. Expected(k) = "nowhere" /\ Expected(k)' = "mainq"
    BY <1>1, <1>2, <1>3, GatheringPlaces DEF Expected
  <2>2. ~On(mainq[k], Quantum) /\ ~On(asyncq[k], Quantum) /\ Once(asyncq[k], Quantum)
    BY <1>1, <2>1 DEF QuantumInv, QuantumAt
  <2>3. PICK a : a = Without(mainq[k], Limit)
    OBVIOUS
  <2>4. a \in Seq(Item) /\ ~On(a, Quantum)
    <3>1. mainq[k] \in Seq(Item)
      BY <1>1 DEF QueuesType
    <3>2. CASE On(mainq[k], Limit)
      <4>1. PICK p \in DOMAIN mainq[k] : mainq[k][p].event = Limit /\ Dropped(mainq[k], a, p)
        BY <2>3, <3>1, <3>2, WithoutIs
      <4>2. QED
        BY <2>2, <3>1, <4>1, DroppedEvents, EventsApart DEF Dropped
    <3>3. CASE ~On(mainq[k], Limit)
      BY <2>2, <2>3, <3>1, <3>3, WithoutIs
    <3>4. QED
      BY <3>2, <3>3
  <2>5. PICK b : b = Inserted(a, Entry(Limit, until))
    OBVIOUS
  <2>6. b \in Seq(Item) /\ ~On(b, Quantum)
    BY <1>4, <2>4, <2>5, InsertionKeeps, ListTypes, EventsApart
  <2>7. PICK c : c = Inserted(b, Entry(Quantum, t))
    OBVIOUS
  <2>8. On(c, Quantum) /\ Once(c, Quantum)
    <3>1. PICK m \in 0 .. Len(b) : Put(b, c, m, Entry(Quantum, t))
      BY <1>4, <2>6, <2>7, InsertedIs
    <3>2. Once(b, Quantum)
      BY <2>6 DEF On, Once
    <3>3. QED
      BY <1>4, <2>6, <3>1, <3>2, PutEvents
  <2>9. mainq'[k] = c
    BY <1>3, <2>3, <2>5, <2>7
  <2>10. <<Quantum, k>> \in scheduled'
    BY <1>3
  <2>11. QED
    BY <1>3, <2>1, <2>2, <2>8, <2>9, <2>10 DEF QuantumAt
<1>6. QED
  BY <1>5 DEF QuantumInv

(* ... and deletes it when it returns.                                       *)
LEMMA ReturnQuantum ==
  ASSUME LoopInv, Return
  PROVE  QuantumInv'
<1>1. /\ BarrierInv /\ CallsOK /\ QueuesType /\ Phases /\ QuantumInv
  BY DEF LoopInv
<1>2. Gathering
  BY <1>1, MainPhases
<1>3. /\ mainq' = [k \in Threads |-> Without(mainq[k], Quantum)]
      /\ asyncq' = asyncq /\ pc[0] = "return" /\ pc'[0] = "python"
  BY <1>1, ConstantTypes DEF Return, Goto, BarrierInv, PlaceOK
<1>4. ASSUME NEW k \in Threads
      PROVE  QuantumAt(k, Expected(k))'
  <2>1. Expected(k) = "mainq" /\ Expected(k)' = "nowhere"
    BY <1>1, <1>2, <1>3, GatheringPlaces DEF Expected
  <2>2. /\ On(mainq[k], Quantum) /\ Once(mainq[k], Quantum)
        /\ ~On(asyncq[k], Quantum) /\ Once(asyncq[k], Quantum)
    BY <1>1, <2>1 DEF QuantumInv, QuantumAt
  <2>3. mainq[k] \in Seq(Item)
    BY <1>1 DEF QueuesType
  <2>4. PICK d : d = Without(mainq[k], Quantum)
    OBVIOUS
  <2>5. PICK p \in DOMAIN mainq[k] : mainq[k][p].event = Quantum /\ Dropped(mainq[k], d, p)
    BY <2>2, <2>3, <2>4, WithoutIs
  <2>6. ~On(d, Quantum) /\ Once(d, Quantum)
    BY <2>2, <2>3, <2>5, DroppedEvents
  <2>7. mainq'[k] = d
    BY <1>3, <2>4
  <2>8. QED
    BY <1>3, <2>1, <2>2, <2>6, <2>7 DEF QuantumAt
<1>5. QED
  BY <1>4 DEF QuantumInv

-----------------------------------------------------------------------------
(* The invariant.                                                            *)

(* It holds before the first call of simulate().                             *)
LEMMA InitLoop == Init => LoopInv
<1> SUFFICES ASSUME Init PROVE LoopInv
  OBVIOUS
<1>1. BarrierInv
  BY InitBarriers
<1>2. QueuesType
  <2>1. [event |-> Work, when |-> StartTick] \in Item
    BY ConstantTypes, EventsApart DEF Item
  <2>2. <<[event |-> Work, when |-> StartTick]>> \in Seq(Item) /\ <<>> \in Seq(Item)
    BY <2>1
  <2>3. NothingToDo \in Call
    <3>1. <<>> \in Seq(Threads) /\ 0 \in Nat
      OBVIOUS
    <3>2. QED
      BY <3>1 DEF NothingToDo, Call
  <2>4. QED
    BY <2>2, <2>3 DEF Init, QueuesType
<1>3. ASSUME NEW i \in Threads
      PROVE  /\ pc[i] = IF i = 0 THEN "python" ELSE "enter"
             /\ at[i] = NoEvent
  BY DEF Init
<1>4. CallsOK
  BY <1>3 DEF CallsOK, AtRest, Inserting
<1>5. Phases
  <2>1. \A i \in Threads : Outside(i) /\ ~Counted(i)
    BY <1>3 DEF Outside, Counted
  <2>2. {i \in Threads : Counted(i)} = {}
    BY <2>1
  <2>3. numLeft[ThreadBarrier] = N - Cardinality({i \in Threads : Counted(i)})
    <3>1. numLeft[ThreadBarrier] = N
      BY DEF Init
    <3>2. Cardinality({}) = 0 /\ N - 0 = N
      BY FS_EmptySet, ConstantTypes
    <3>3. QED
      BY <2>2, <3>1, <3>2
  <2>4. QED
    BY <2>1, <2>3 DEF Phases, Gathering
<1>6. ASSUME NEW k \in Threads
      PROVE  QuantumAt(k, Expected(k))
  <2>1. Expected(k) = "nowhere"
    BY <1>3, ConstantTypes DEF Expected
  <2>2. /\ mainq[k] = <<[event |-> Work, when |-> StartTick]>>
        /\ asyncq[k] = <<>>
    BY DEF Init
  <2>3. ~On(<<>>, Quantum) /\ Once(<<>>, Quantum)
    BY DEF On, Once
  <2>4. ~On(mainq[k], Quantum) /\ Once(mainq[k], Quantum)
    <3>1. DOMAIN mainq[k] = {1} /\ mainq[k][1].event # Quantum
      BY <2>2, EventsApart
    <3>2. QED
      BY <3>1 DEF On, Once
  <2>5. QED
    BY <2>1, <2>2, <2>3, <2>4 DEF QuantumAt
<1>7. QED
  BY <1>1, <1>2, <1>4, <1>5, <1>6 DEF LoopInv, QuantumInv

(* The steps of a thread.                                                    *)
LEMMA StepLoop ==
  ASSUME LoopInv, BarrierInv', NEW i \in Threads, Step(i)
  PROVE  LoopInv'
<1>1. /\ BarrierInv /\ PlaceOK /\ CallsOK /\ QueuesType /\ Phases
      /\ at = [k \in Threads |-> at[k]]
  BY DEF LoopInv, BarrierInv, PlaceOK
<1>2. OnlyMoves(i)
  BY <1>1, OneMoves
<1>3. QueuesType' /\ CallsOK'
  BY StepTypes, ThreadCalls
<1>4. Phases'
  <2>1. CASE EnterBarrier(i)
    BY <1>1, <1>2, <2>1, EnterPhases
  <2>2. CASE FirstBarrier(i)
    BY <1>1, <1>2, <2>2, FirstPhases DEF Phases
  <2>3. CASE SecondBarrier(i)
    BY <1>1, <1>2, <2>3, SecondPhases
  <2>4. CASE LeaveSecond(i)
    BY <1>1, <1>2, <2>4, LeavePhases
  <2>5. CASE ~(EnterBarrier(i) \/ FirstBarrier(i) \/ SecondBarrier(i) \/ LeaveSecond(i))
    BY <1>1, <1>2, <2>5, InsideSteps DEF Step, Phases
  <2>6. QED
    BY <2>1, <2>2, <2>3, <2>4, <2>5
<1>5. QuantumInv'
  <2>1. CASE at[i] # Quantum /\ at'[i] # Quantum
    BY <2>1, OtherSteps
  <2>2. CASE at[i] # Quantum /\ at'[i] = Quantum
    <3>1. ServiceOne(i)
      <4>1. CASE HandlerReturn(i) \/ LeaveSecond(i)
        BY <1>1, <2>2, <4>1, EventsApart DEF HandlerReturn, LeaveSecond
      <4>2. CASE ~(HandlerReturn(i) \/ LeaveSecond(i) \/ ServiceOne(i))
        <5>1. at' = at
          BY <4>2 DEF Step, EnterBarrier, LeaveBarrier, StartLoop, ScheduleWork, ExitSimLoop,
                      SendMessage, Migrate, LockGlobalQ, AsyncInsert, SetFlag, MigrateLock,
                      MigrateSchedule, MigrateBack, FirstBarrier, LeaveFirst, Process, SecondBarrier
        <5>2. QED
          BY <2>2, <5>1
      <4>3. QED
        BY <4>1, <4>2
    <3>2. QED
      BY <2>2, <3>1, QuantumServiced
  <2>3. CASE at[i] = Quantum
    <3>1. \/ FirstBarrier(i) \/ LeaveFirst(i) \/ Process(i) \/ LockGlobalQ(i)
          \/ AsyncInsert(i) \/ SetFlag(i) \/ SecondBarrier(i) \/ LeaveSecond(i)
      <4>1. pc[i] \notin AtRest \cup InHandler
        BY <1>1, <2>3, EventsApart DEF CallsOK, PlaceOK
      <4>2. QED
        BY <4>1 DEF AtRest, InHandler, Step, EnterBarrier, LeaveBarrier, StartLoop, ServiceOne,
                    HandlerReturn, ScheduleWork, ExitSimLoop, SendMessage, Migrate, Operate,
                    MigrateLock, MigrateSchedule, MigrateBack
    <3>2. QED
      BY <1>3, <2>3, <3>1, QuantumFirst, QuantumLeft, QuantumProcessed, QuantumInserted,
         QuantumFlagged, QuantumSecond, QuantumMerged
  <2>4. QED
    BY <2>1, <2>2, <2>3
<1>6. QED
  BY <1>3, <1>4, <1>5 DEF LoopInv

(* Every step keeps it.                                                      *)
LEMMA NextLoop == LoopInv /\ [Next]_vars => LoopInv'
<1> SUFFICES ASSUME LoopInv, [Next]_vars PROVE LoopInv'
  OBVIOUS
<1>1. BarrierInv'
  BY NextBarriers DEF LoopInv
<1>2. CASE UNCHANGED vars
  <2>1. /\ UNCHANGED <<mainq, asyncq, curTick, scheduled, numLeft, generation, gen, pc, at, todo>>
    BY <1>2 DEF vars, queues, barriers
  <2>2. QueuesType' /\ CallsOK'
    BY <2>1 DEF LoopInv, QueuesType, CallsOK, InCall
  <2>3. Phases'
    BY <2>1 DEF LoopInv, Phases, Gathering, Running, Outside, Inside, Counted, Leaving
  <2>4. \A k \in Threads : Expected(k)' = Expected(k)
    BY <2>1 DEF Expected, Leaving, Role, NotYet, JustPut
  <2>5. QuantumInv'
    BY <2>1, <2>4, PlacesKept DEF LoopInv, queues
  <2>6. QED
    BY <1>1, <2>2, <2>3, <2>5 DEF LoopInv
<1>3. CASE Return \/ \E until \in Limits : Simulate(until)
  <2>1. QueuesType' /\ CallsOK' /\ Phases'
    BY <1>3, MainTypes, MainCalls, MainPhases DEF LoopInv, BarrierInv
  <2>2. QuantumInv'
    BY <1>3, SimulateQuantum, ReturnQuantum
  <2>3. QED
    BY <1>1, <2>1, <2>2 DEF LoopInv
<1>4. CASE \E i \in Threads : Step(i)
  BY <1>1, <1>4, StepLoop
<1>5. QED
  BY <1>2, <1>3, <1>4 DEF Next

(* The main thread outside the loop.                                         *)
LEMMA LoopIsQuiet == LoopInv => QuietReturn
<1> SUFFICES ASSUME LoopInv, pc[0] \in {"return", "python"} PROVE QuietReturn
  BY DEF QuietReturn
<1>1. Gathering
  BY ConstantTypes DEF LoopInv, Phases, Running, Inside
<1>2. \A i \in Threads \ {0} : pc[i] \in {"wait2", "done", "enter", "entering"}
  BY <1>1 DEF Gathering, Outside, Counted, Leaving
<1>3. ASSUME pc[0] = "return", NEW k \in Threads
      PROVE  <<Quantum, k>> \in scheduled /\ \E n \in DOMAIN mainq[k] : mainq[k][n].event = Quantum
  <2>1. Expected(k) = "mainq"
    BY <1>1, <1>3, GatheringPlaces DEF LoopInv, Expected
  <2>2. QED
    BY <2>1 DEF LoopInv, QuantumInv, QuantumAt, On
<1>4. QED
  BY <1>2, <1>3 DEF QuietReturn

(* When simulate() returns, the quantum event it deletes is on every queue,  *)
(* with its flag, and no other thread is in the loop until the next call, for*)
(* any number of queues and whatever the handlers schedule.                  *)
THEOREM ReturnIsQuiet == Spec => []QuietReturn
<1>1. Init => LoopInv
  BY InitLoop
<1>2. LoopInv /\ [Next]_vars => LoopInv'
  BY NextLoop
<1>3. LoopInv => QuietReturn
  BY LoopIsQuiet
<1>4. QED
  BY <1>1, <1>2, <1>3, PTL DEF Spec
-----------------------------------------------------------------------------
(* The exit events and the limit: each queue has them once at most.          *)

(* Thread i has not put its exit event on queue k, has just put it there.    *)
ExitNotYet(i, k) ==
  /\ todo[i].event = Exit(i)
  /\ \/ pc[i] = "globalQ"
     \/ pc[i] = "insert" /\ k >= N - Len(todo[i].queues)
     \/ pc[i] = "flag" /\ k > N - Len(todo[i].queues)
ExitJustPut(i, k) ==
  todo[i].event = Exit(i) /\ pc[i] = "flag" /\ k = N - Len(todo[i].queues)

Single(k, e) ==
  /\ Once(mainq[k], e) /\ Once(asyncq[k], e)
  /\ ~(On(mainq[k], e) /\ On(asyncq[k], e))

Nowhere(k, e) == ~On(mainq[k], e) /\ ~On(asyncq[k], e)

ExitAt(i, k) ==
  /\ Single(k, Exit(i))
  /\ ExitNotYet(i, k) => Nowhere(k, Exit(i))
  /\ Nowhere(k, Exit(i)) \/ <<Exit(i), k>> \in scheduled \/ ExitJustPut(i, k)

ExitInv ==
  /\ \A i, k \in Threads : ExitAt(i, k)
  /\ \A k \in Threads : Single(k, Limit) /\ ~On(asyncq[k], Limit)

-----------------------------------------------------------------------------
(* The ticks.                                                                *)

Sorted(list) == \A m, n \in DOMAIN list : m < n => ~Earlier(list[n], list[m])

(* Thread k is through the first wait of the quantum event; it is in the     *)
(* loop, up to that wait.                                                    *)
Finished(k) ==
  /\ at[k] = Quantum /\ pc[k] # "barrier1"
  /\ ~(pc[k] = "wait1" /\ gen[k] = generation[Quantum])
Started(k) ==
  /\ pc[k] \notin {"python", "return", "enter", "entering", "merge"}
  /\ ~Leaving(k) /\ ~Finished(k)

(* The quantum ends at tick T: its event is scheduled for T, ...             *)
QuantumTicks(T) ==
  \A k \in Threads : \A x \in Content(mainq[k]) \cup Content(asyncq[k]) :
    x.event = Quantum => x.when = T

(* ... no other thread is sent an event before T, ...                        *)
CallTicks(T) ==
  \A i \in Threads : pc[i] \in Inserting =>
    IF todo[i].event = Quantum THEN todo[i].when = T ELSE todo[i].when >= T

(* ... the clocks are in the quantum, ...                                    *)
ClocksIn(T) ==
  \A k \in Threads :
    /\ curTick[k] <= T /\ T <= curTick[k] + simQuantum
    /\ at[k] = Quantum =>
         IF Finished(k) THEN curTick[k] + simQuantum = T ELSE curTick[k] = T

(* ... and what other threads have sent is for the next one.                 *)
AsyncTicks(T) ==
  \A k \in Threads : \A x \in Content(asyncq[k]) :
    x.when >= curTick[k] /\ (Started(k) => x.when >= T)

Window(T) == QuantumTicks(T) /\ CallTicks(T) /\ ClocksIn(T) /\ AsyncTicks(T)

(* The lists are in order and not in the past.                               *)
ListInv ==
  \A k \in Threads :
    Sorted(mainq[k]) /\ \A x \in Content(mainq[k]) : x.when >= curTick[k]

(* Outside the loop all clocks are the same.                                 *)
Together == Gathering => \A j, k \in Threads : curTick[j] = curTick[k]

(* Exit event e has the same tick t everywhere.                              *)
SameTick(e, t) ==
  /\ \A k \in Threads : \A x \in Content(mainq[k]) \cup Content(asyncq[k]) :
       x.event = e => x.when = t
  /\ \A k \in Threads : at[k] = e /\ ~Leaving(k) => curTick[k] = t
  /\ \A i \in Threads : pc[i] \in Inserting /\ todo[i].event = e => todo[i].when = t

ExitTicks == \A e \in GlobalExits : \E t \in Nat : SameTick(e, t)

TimeInv ==
  /\ ListInv /\ Together /\ ExitTicks
  /\ \E T \in Nat : Window(T)

-----------------------------------------------------------------------------
(* Lists in order.                                                           *)

(* The entries of a list after an insertion and after a removal.             *)
LEMMA PutContent ==
  ASSUME NEW list \in Seq(Item), NEW d, NEW m \in 0 .. Len(list), NEW x, Put(list, d, m, x)
  PROVE  Content(d) \subseteq Content(list) \cup {x}
<1> DEFINE L == Len(list)
<1>1. /\ L \in Nat /\ m \in Int /\ 0 <= m /\ m <= L
      /\ DOMAIN list = 1 .. L /\ DOMAIN d = 1 .. L + 1
      /\ \A n \in 1 .. L + 1 :
           d[n] = IF n <= m THEN list[n] ELSE IF n = m + 1 THEN x ELSE list[n - 1]
  BY DEF Put
<1> HIDE DEF L
<1>2. \A n \in 1 .. L + 1 : \/ n <= m /\ n \in 1 .. L /\ d[n] = list[n]
                            \/ n = m + 1 /\ d[n] = x
                            \/ n > m + 1 /\ n - 1 \in 1 .. L /\ d[n] = list[n - 1]
  BY <1>1
<1>3. QED
  BY <1>1, <1>2 DEF Content

(* Nothing new is on it.                                                     *)
LEMMA DroppedContent ==
  ASSUME NEW list \in Seq(Item), NEW d, NEW p \in DOMAIN list, Dropped(list, d, p)
  PROVE  Content(d) \subseteq Content(list)
<1> DEFINE L == Len(list)
<1>1. /\ L \in Nat /\ p \in 1 .. L
      /\ DOMAIN list = 1 .. L /\ DOMAIN d = 1 .. L - 1
      /\ \A n \in 1 .. L - 1 : d[n] = IF n < p THEN list[n] ELSE list[n + 1]
  BY DEF Dropped
<1> HIDE DEF L
<1>2. \A n \in 1 .. L - 1 : \/ n < p /\ n \in 1 .. L /\ d[n] = list[n]
                            \/ n >= p /\ n + 1 \in 1 .. L /\ d[n] = list[n + 1]
  BY <1>1
<1>3. QED
  BY <1>1, <1>2 DEF Content

(* Neither tick nor priority of y is less than that of x.                    *)
LEMMA EarlierFacts ==
  ASSUME NEW x \in Item, NEW y \in Item
  PROVE  /\ ~Earlier(x, x)
         /\ Earlier(x, y) => ~Earlier(y, x)
         /\ ~Earlier(y, x) => x.when <= y.when
         /\ \A z \in Item : ~Earlier(y, x) /\ ~Earlier(z, y) => ~Earlier(z, x)
<1>1. \A e \in Events : Priority[e] \in Int
  BY DEF Priority, Events
<1>2. ASSUME NEW z \in Item
      PROVE  z.when \in Int /\ Priority[z.event] \in Int
  BY <1>1 DEF Item
<1> HIDE DEF Item
<1>3. ASSUME NEW z \in Item, ~Earlier(y, x), ~Earlier(z, y)
      PROVE  ~Earlier(z, x)
  BY <1>2, <1>3 DEF Earlier
<1>4. ~Earlier(x, x) /\ (Earlier(x, y) => ~Earlier(y, x)) /\ (~Earlier(y, x) => x.when <= y.when)
  BY <1>2 DEF Earlier
<1>5. QED
  BY <1>3, <1>4

(* The head of a list is not later than the other entries.                   *)
LEMMA HeadIsFirst ==
  ASSUME NEW list \in Seq(Item), list # <<>>, Sorted(list), NEW x \in Content(list)
  PROVE  Head(list).when <= x.when
<1>1. PICK n \in 1 .. Len(list) : x = list[n]
  BY DEF Content
<1>2. Head(list) = list[1] /\ list[1] \in Item /\ list[n] \in Item /\ 1 \in DOMAIN list
      /\ n \in DOMAIN list /\ (n = 1 \/ 1 < n)
  BY <1>1
<1>3. ~Earlier(list[n], list[1])
  BY <1>2, EarlierFacts DEF Sorted
<1>4. QED
  BY <1>1, <1>2, <1>3, EarlierFacts

(* An insertion keeps a list in order, ...                                   *)
LEMMA InsertedSorted ==
  ASSUME NEW list \in Seq(Item), NEW x \in Item, Sorted(list)
  PROVE  Sorted(Inserted(list, x)) /\ Content(Inserted(list, x)) \subseteq Content(list) \cup {x}
<1> DEFINE L == Len(list)
<1>1. PICK m \in 0 .. Len(list) :
        /\ Put(list, Inserted(list, x), m, x)
        /\ \A n \in 1 .. m : Earlier(list[n], x)
        /\ m < Len(list) => ~Earlier(list[m + 1], x)
  BY InsertedIs
<1>2. PICK d : d = Inserted(list, x)
  OBVIOUS
<1>3. /\ L \in Nat /\ m \in Int /\ 0 <= m /\ m <= L
      /\ DOMAIN list = 1 .. L /\ DOMAIN d = 1 .. L + 1
      /\ \A n \in 1 .. L + 1 :
           d[n] = IF n <= m THEN list[n] ELSE IF n = m + 1 THEN x ELSE list[n - 1]
  BY <1>1, <1>2 DEF Put
<1>4. \A n \in 1 .. L : list[n] \in Item
  OBVIOUS
<1>5. \A n \in 1 .. m : Earlier(list[n], x)
  BY <1>1
<1>6. m < L => ~Earlier(list[m + 1], x)
  BY <1>1
<1> HIDE DEF L
<1>7. ASSUME NEW n \in m + 1 .. L
      PROVE  ~Earlier(list[n], x)
  <2>1. m + 1 \in 1 .. L /\ n \in 1 .. L /\ m < L /\ (n = m + 1 \/ m + 1 < n)
    <3>1. n \in Int /\ m + 1 <= n /\ n <= L
      BY <1>3
    <3>2. QED
      BY <1>3, <3>1
  <2>2. list[m + 1] \in Item /\ list[n] \in Item /\ ~Earlier(list[m + 1], x)
    BY <1>4, <1>6, <2>1
  <2>3. ~Earlier(list[n], list[m + 1])
    BY <1>3, <2>1, <2>2, EarlierFacts DEF Sorted
  <2>4. QED
    BY <2>2, <2>3, EarlierFacts
<1>8. ASSUME NEW a \in 1 .. L + 1, NEW b \in 1 .. L + 1, a < b
      PROVE  ~Earlier(d[b], d[a])
  <2>1. CASE a = m + 1
    <3>1. b - 1 \in m + 1 .. L /\ d[b] = list[b - 1] /\ d[a] = x
      BY <1>3, <1>8, <2>1
    <3>2. QED
      BY <1>7, <3>1
  <2>2. CASE b = m + 1
    <3>1. a \in 1 .. m /\ a \in 1 .. L /\ d[a] = list[a] /\ d[b] = x
      BY <1>3, <1>8, <2>2
    <3>2. QED
      BY <1>4, <1>5, <3>1, EarlierFacts
  <2>3. CASE a # m + 1 /\ b # m + 1
    <3>1. PICK g \in 1 .. L : d[a] = list[g] /\ g = IF a <= m THEN a ELSE a - 1
      BY <1>3, <1>8, <2>3
    <3>2. PICK h \in 1 .. L : d[b] = list[h] /\ h = IF b <= m THEN b ELSE b - 1
      BY <1>3, <1>8, <2>3
    <3>3. g < h
      BY <1>3, <1>8, <2>3, <3>1, <3>2
    <3>4. QED
      BY <1>3, <3>1, <3>2, <3>3 DEF Sorted
  <2>4. QED
    BY <2>1, <2>2, <2>3
<1>9. Sorted(d)
  BY <1>3, <1>8 DEF Sorted
<1>10. QED
  BY <1>1, <1>2, <1>9, PutContent

(* ... a removal as well, ...                                                *)
LEMMA DroppedSorted ==
  ASSUME NEW list \in Seq(Item), NEW d, NEW p \in DOMAIN list, Dropped(list, d, p), Sorted(list)
  PROVE  Sorted(d)
<1> DEFINE L == Len(list)
<1>1. /\ L \in Nat /\ p \in 1 .. L
      /\ DOMAIN list = 1 .. L /\ DOMAIN d = 1 .. L - 1
      /\ \A n \in 1 .. L - 1 : d[n] = IF n < p THEN list[n] ELSE list[n + 1]
  BY DEF Dropped
<1> HIDE DEF L
<1>2. ASSUME NEW a \in 1 .. L - 1, NEW b \in 1 .. L - 1, a < b
      PROVE  ~Earlier(d[b], d[a])
  <2>1. PICK g \in 1 .. L : d[a] = list[g] /\ g = IF a < p THEN a ELSE a + 1
    BY <1>1
  <2>2. PICK h \in 1 .. L : d[b] = list[h] /\ h = IF b < p THEN b ELSE b + 1
    BY <1>1
  <2>3. g < h
    BY <1>1, <1>2, <2>1, <2>2
  <2>4. QED
    BY <1>1, <2>1, <2>2, <2>3 DEF Sorted
<1>3. QED
  BY <1>1, <1>2 DEF Sorted

(* ... with or without an event to remove, ...                               *)
LEMMA WithoutSorted ==
  ASSUME NEW list \in Seq(Item), NEW e, Sorted(list)
  PROVE  Sorted(Without(list, e)) /\ Content(Without(list, e)) \subseteq Content(list)
<1>1. CASE On(list, e)
  <2>1. PICK p \in DOMAIN list : Dropped(list, Without(list, e), p)
    BY <1>1, WithoutIs
  <2>2. QED
    BY <2>1, DroppedSorted, DroppedContent
<1>2. CASE ~On(list, e)
  BY <1>2, WithoutIs
<1>3. QED
  BY <1>1, <1>2

(* ... and so do insertions one after the other.                             *)
LEMMA MergedSorted ==
  ASSUME QueuesType, NEW k \in Threads, Sorted(mainq[k])
  PROVE  /\ Sorted(Merged(k))
         /\ Content(Merged(k)) \subseteq Content(mainq[k]) \cup Content(asyncq[k])
<1> DEFINE L == Len(asyncq[k])
           f == MergeFrom(k)
           All == Content(mainq[k]) \cup Content(asyncq[k])
           T == {n \in 0 .. L : Sorted(f[n]) /\ Content(f[n]) \subseteq All}
<1>1. /\ Merged(k) = f[L] /\ L \in Nat /\ f \in [0 .. L -> Seq(Item)] /\ f[0] = mainq[k]
      /\ \A n \in 0 .. L - 1 : /\ asyncq[k][n + 1] \in Item
                               /\ f[n + 1] = Inserted(f[n], asyncq[k][n + 1])
      /\ DOMAIN asyncq[k] = 1 .. L
  <2>1. DOMAIN asyncq[k] = 1 .. L
    BY DEF QueuesType
  <2>2. QED
    BY <2>1, MergeEquation
<1> HIDE DEF f, L
<1>2. 0 \in T
  BY <1>1
<1>3. ASSUME NEW n \in 0 .. L - 1, n \in T
      PROVE  n + 1 \in T
  <2> DEFINE x == asyncq[k][n + 1]
  <2>a. n + 1 \in 0 .. L /\ n + 1 \in 1 .. L
    BY <1>1
  <2>1. /\ x \in Item /\ f[n] \in Seq(Item) /\ f[n + 1] = Inserted(f[n], x)
        /\ n + 1 \in 0 .. L /\ n + 1 \in 1 .. L
    BY <1>1, <2>a
  <2>2. x \in Content(asyncq[k])
    BY <1>1, <2>1 DEF Content
  <2> HIDE DEF x
  <2>3. Sorted(Inserted(f[n], x)) /\ Content(Inserted(f[n], x)) \subseteq Content(f[n]) \cup {x}
    BY <1>3, <2>1, InsertedSorted
  <2>4. QED
    BY <1>3, <2>1, <2>2, <2>3
<1>4. L \in T
  <2> HIDE DEF T
  <2>1. \A n \in 0 .. L : n \in T
    BY <1>1, <1>2, <1>3, UpInduction
  <2>2. QED
    BY <1>1, <2>1
<1>5. QED
  BY <1>1, <1>4

-----------------------------------------------------------------------------
(* What steps do to the lists.                                               *)

(* An event other than a global one is put on a list, not in its past; some  *)
(* that were to be merged may get lost.                                      *)
Inserts(k, x) ==
  /\ mainq' = [mainq EXCEPT ![k] = Inserted(mainq[k], x)]
  /\ \E rest \in Remains(asyncq[k]) : asyncq' = [asyncq EXCEPT ![k] = rest]
  /\ UNCHANGED curTick /\ scheduled \subseteq scheduled'
  /\ x \in Item /\ x.event \in {Work, Io} /\ x.when >= curTick[k]

(* The lists stay as they are, are merged, or lose or get one event.         *)
LEMMA ListSteps ==
  ASSUME LoopInv, NEW i \in Threads, Step(i)
  PROVE  \/ UNCHANGED <<mainq, asyncq, curTick>> /\ scheduled \subseteq scheduled'
         \/ (StartLoop(i) \/ (at[i] = Quantum /\ LeaveSecond(i))) /\ HandleAsyncInsertions(i)
         \/ ServiceOne(i)
         \/ \E k \in Threads : \E x : Inserts(k, x)
         \/ AsyncInsert(i)
<1>0. /\ curTick \in [Threads -> Nat] /\ CallsOK /\ todo \in [Threads -> Call]
  BY DEF LoopInv, QueuesType
<1>r. /\ asyncq \in [Threads -> Seq(Item)]
      /\ \A k \in Threads : asyncq = [asyncq EXCEPT ![k] = asyncq[k]]
      /\ \A k \in Threads : asyncq[k] \in Remains(asyncq[k])
  <2>1. asyncq \in [Threads -> Seq(Item)]
    BY DEF LoopInv, QueuesType
  <2>2. QED
    BY <2>1, AllRemains
<1>1. CASE StartLoop(i) \/ ServiceOne(i) \/ AsyncInsert(i)
  BY <1>1 DEF StartLoop
<1>2. CASE LeaveSecond(i)
  BY <1>2 DEF LeaveSecond, QuantumDone, queues
<1>3. CASE ScheduleWork(i)
  <2>1. curTick[i] + WorkDelay \in Nat /\ curTick[i] + WorkDelay >= curTick[i]
    BY <1>0, ConstantTypes
  <2>2. /\ Entry(Work, curTick[i] + WorkDelay) \in Item
        /\ Entry(Work, curTick[i] + WorkDelay).event = Work
        /\ Entry(Work, curTick[i] + WorkDelay).when = curTick[i] + WorkDelay
    BY <2>1, EventsApart, EntryFacts
  <2>3. /\ mainq' = [mainq EXCEPT ![i] = Inserted(mainq[i], Entry(Work, curTick[i] + WorkDelay))]
        /\ asyncq' = asyncq /\ curTick' = curTick /\ scheduled \subseteq scheduled'
    BY <1>3 DEF ScheduleWork
  <2> HIDE DEF Entry
  <2>4. Inserts(i, Entry(Work, curTick[i] + WorkDelay))
    BY <1>r, <2>1, <2>2, <2>3 DEF Inserts
  <2>5. QED
    BY <2>4
<1>4. CASE MigrateSchedule(i)
  <2>1. PICK h \in Threads :
          /\ \/ mainq' = mainq /\ asyncq' = asyncq
             \/ /\ mainq' = [mainq EXCEPT ![h] = Inserted(mainq[h], Entry(Io, curTick[h]))]
                /\ \E rest \in Remains(asyncq[h]) : asyncq' = [asyncq EXCEPT ![h] = rest]
          /\ scheduled \subseteq scheduled' /\ curTick' = curTick
    BY <1>4, MigrateFacts DEF LoopInv
  <2>2. /\ Entry(Io, curTick[h]) \in Item
        /\ Entry(Io, curTick[h]).event = Io /\ Entry(Io, curTick[h]).when = curTick[h]
        /\ curTick[h] >= curTick[h]
    BY <1>0, <2>1, EventsApart, EntryFacts
  <2>3. CASE mainq' = mainq /\ asyncq' = asyncq
    BY <2>1, <2>3
  <2>4. CASE ~(mainq' = mainq /\ asyncq' = asyncq)
    <3>1. Inserts(h, Entry(Io, curTick[h]))
      BY <2>1, <2>2, <2>4 DEF Inserts
    <3>2. QED
      BY <2>1, <3>1
  <2>5. QED
    BY <2>3, <2>4
<1>5. CASE SetFlag(i)
  BY <1>5 DEF SetFlag
<1>6. CASE \/ EnterBarrier(i) \/ LeaveBarrier(i) \/ HandlerReturn(i) \/ ExitSimLoop(i)
           \/ \E k \in Threads : SendMessage(i, k) \/ Migrate(i, k)
           \/ LockGlobalQ(i) \/ MigrateLock(i) \/ MigrateBack(i) \/ FirstBarrier(i)
           \/ LeaveFirst(i) \/ Process(i) \/ SecondBarrier(i)
  BY <1>6 DEF EnterBarrier, LeaveBarrier, HandlerReturn, ExitSimLoop, SendMessage, Migrate,
              LockGlobalQ, MigrateLock, MigrateBack, FirstBarrier, LeaveFirst, Process,
              SecondBarrier, queues
<1>7. QED
  BY <1>1, <1>2, <1>3, <1>4, <1>5, <1>6 DEF Step

(* The events of a list after Inserted(), Append() and Without().            *)
LEMMA InsertedEvents ==
  ASSUME NEW list \in Seq(Item), NEW x \in Item, NEW e
  PROVE  /\ On(Inserted(list, x), e) <=> On(list, e) \/ x.event = e
         /\ Once(list, e) /\ (x.event = e => ~On(list, e)) => Once(Inserted(list, x), e)
         /\ On(Append(list, x), e) <=> On(list, e) \/ x.event = e
         /\ Once(list, e) /\ (x.event = e => ~On(list, e)) => Once(Append(list, x), e)
<1>1. PICK m \in 0 .. Len(list) : Put(list, Inserted(list, x), m, x)
  BY InsertedIs
<1>2. /\ On(Inserted(list, x), e) <=> On(list, e) \/ x.event = e
      /\ Once(list, e) /\ (x.event = e => ~On(list, e)) => Once(Inserted(list, x), e)
  BY <1>1, PutEvents
<1>3. Put(list, Append(list, x), Len(list), x) /\ Len(list) \in 0 .. Len(list)
  BY AppendIs
<1>4. /\ On(Append(list, x), e) <=> On(list, e) \/ x.event = e
      /\ Once(list, e) /\ (x.event = e => ~On(list, e)) => Once(Append(list, x), e)
  BY <1>3, PutEvents
<1>5. QED
  BY <1>2, <1>4

(* A removed event is gone, the others stay.                                 *)
LEMMA WithoutEvents ==
  ASSUME NEW list \in Seq(Item), NEW f, NEW e
  PROVE  /\ Once(list, e) => Once(Without(list, f), e)
         /\ e # f => (On(Without(list, f), e) <=> On(list, e))
         /\ Once(list, f) => ~On(Without(list, f), f)
<1>1. CASE On(list, f)
  <2>1. PICK p \in DOMAIN list : list[p].event = f /\ Dropped(list, Without(list, f), p)
    BY <1>1, WithoutIs
  <2>2. /\ Once(list, e) => Once(Without(list, f), e)
        /\ list[p].event # e => (On(Without(list, f), e) <=> On(list, e))
    BY <2>1, DroppedEvents
  <2>3. list[p].event = f /\ Once(list, f) => ~On(Without(list, f), f)
    BY <2>1, DroppedEvents
  <2>4. QED
    BY <2>1, <2>2, <2>3
<1>2. CASE ~On(list, f)
  BY <1>2, WithoutIs
<1>3. QED
  BY <1>1, <1>2

-----------------------------------------------------------------------------
(* The exit events and the limit.                                            *)

(* Event e comes on none of the lists of queue k, and leaves them with its   *)
(* flag only.                                                                *)
ListKept(k, e) ==
  /\ Nowhere(k, e) => Nowhere(k, e)'
  /\ ~On(asyncq[k], e) => ~On(asyncq'[k], e)
  /\ Single(k, e) => Single(k, e)'
  /\ Single(k, e) /\ <<e, k>> \in scheduled => Nowhere(k, e)' \/ <<e, k>> \in scheduled'

(* Every step of a thread keeps it, except the one that puts it there.       *)
LEMMA ListKeptStep ==
  ASSUME LoopInv, NEW i \in Threads, Step(i), NEW k \in Threads, NEW e \in GlobalExits,
         AsyncInsert(i) => todo[i].event # e \/ Head(todo[i].queues) # k
  PROVE  ListKept(k, e)
<1>0. /\ QueuesType /\ CallsOK /\ mainq \in [Threads -> Seq(Item)] /\ asyncq \in [Threads -> Seq(Item)]
      /\ e \notin {Work, Io, Quantum, Message}
  BY EventsApart DEF LoopInv, QueuesType
<1>1. CASE UNCHANGED <<mainq, asyncq, curTick>> /\ scheduled \subseteq scheduled'
  BY <1>1 DEF ListKept, Nowhere, Single
<1>2. CASE HandleAsyncInsertions(i)
  <2>1. /\ mainq' = [mainq EXCEPT ![i] = Merged(i)] /\ asyncq' = [asyncq EXCEPT ![i] = <<>>]
        /\ scheduled' = scheduled
    BY <1>2 DEF HandleAsyncInsertions
  <2>2. ~On(<<>>, e) /\ Once(<<>>, e)
    BY DEF On, Once
  <2>3. /\ On(Merged(i), e) <=> On(mainq[i], e) \/ On(asyncq[i], e)
        /\ /\ Once(mainq[i], e) /\ Once(asyncq[i], e)
           /\ ~(On(mainq[i], e) /\ On(asyncq[i], e))
           => Once(Merged(i), e)
    BY <1>0, MergedEvents
  <2>4. CASE k = i
    <3>1. mainq'[k] = Merged(i) /\ asyncq'[k] = <<>>
      BY <1>0, <2>1, <2>4
    <3>2. QED
      BY <2>1, <2>2, <2>3, <2>4, <3>1 DEF ListKept, Nowhere, Single
  <2>5. CASE k # i
    <3>1. mainq'[k] = mainq[k] /\ asyncq'[k] = asyncq[k]
      BY <1>0, <2>1, <2>5
    <3>2. QED
      BY <2>1, <3>1 DEF ListKept, Nowhere, Single
  <2>6. QED
    BY <2>4, <2>5
<1>3. CASE ServiceOne(i)
  <2>1. mainq[i] # <<>> /\ mainq[i] \in Seq(Item)
    BY <1>3, LoopHasEvent DEF ServiceOne
  <2>2. PICK h : h = Head(mainq[i])
    OBVIOUS
  <2>3. Dropped(mainq[i], Tail(mainq[i]), 1) /\ 1 \in DOMAIN mainq[i] /\ h = mainq[i][1]
    BY <2>1, <2>2, TailIs
  <2>4. /\ Once(mainq[i], e) => Once(Tail(mainq[i]), e)
        /\ h.event # e => (On(Tail(mainq[i]), e) <=> On(mainq[i], e))
        /\ h.event = e /\ Once(mainq[i], e) => ~On(Tail(mainq[i]), e)
    BY <2>1, <2>3, DroppedEvents
  <2>5. h.event = e => On(mainq[i], e)
    BY <2>3 DEF On
  <2>6. /\ mainq' = [mainq EXCEPT ![i] = Tail(mainq[i])] /\ asyncq' = asyncq
        /\ scheduled' = scheduled \ {<<h.event, i>>}
    BY <1>3, <2>2 DEF ServiceOne
  <2>7. CASE k = i
    <3>1. mainq'[k] = Tail(mainq[i]) /\ asyncq'[k] = asyncq[i]
      BY <1>0, <2>6, <2>7
    <3>2. h.event # e => (<<e, k>> \in scheduled => <<e, k>> \in scheduled')
      BY <2>6
    <3>3. QED
      BY <2>4, <2>5, <2>7, <3>1, <3>2 DEF ListKept, Nowhere, Single
  <2>8. CASE k # i
    <3>1. /\ mainq'[k] = mainq[k] /\ asyncq'[k] = asyncq[k]
          /\ <<e, k>> \in scheduled => <<e, k>> \in scheduled'
      BY <1>0, <2>6, <2>8
    <3>2. QED
      BY <3>1 DEF ListKept, Nowhere, Single
  <2>9. QED
    BY <2>7, <2>8
<1>4. ASSUME NEW h \in Threads, NEW x, Inserts(h, x)
      PROVE  ListKept(k, e)
  <2>1. /\ mainq' = [mainq EXCEPT ![h] = Inserted(mainq[h], x)]
        /\ scheduled \subseteq scheduled'
        /\ x \in Item /\ x.event # e
    BY <1>0, <1>4 DEF Inserts
  <2>a. PICK rest \in Remains(asyncq[h]) : asyncq' = [asyncq EXCEPT ![h] = rest]
    BY <1>4 DEF Inserts
  <2>b. /\ On(rest, e) => On(asyncq[h], e)
        /\ Once(asyncq[h], e) => Once(rest, e)
    BY <1>0, <2>a, RemainsFacts
  <2>c. /\ On(asyncq'[k], e) => On(asyncq[k], e)
        /\ Once(asyncq[k], e) => Once(asyncq'[k], e)
    BY <1>0, <2>a, <2>b
  <2>2. /\ On(Inserted(mainq[h], x), e) <=> On(mainq[h], e)
        /\ Once(mainq[h], e) => Once(Inserted(mainq[h], x), e)
    BY <1>0, <2>1, InsertedEvents
  <2>3. mainq'[k] = IF k = h THEN Inserted(mainq[h], x) ELSE mainq[k]
    BY <1>0, <2>1
  <2>4. /\ On(mainq'[k], e) <=> On(mainq[k], e)
        /\ Once(mainq[k], e) => Once(mainq'[k], e)
    BY <2>2, <2>3
  <2>5. QED
    BY <2>1, <2>4, <2>c DEF ListKept, Nowhere, Single
<1>5. CASE AsyncInsert(i)
  <2>1. PICK h : h = Head(todo[i].queues)
    OBVIOUS
  <2>2. PICK x : x = Entry(todo[i].event, todo[i].when)
    OBVIOUS
  <2>3. h \in Threads /\ x \in Item /\ x.event = todo[i].event
    BY <1>0, <1>5, <2>1, <2>2, CallFacts, EntryFacts DEF AsyncInsert, Inserting
  <2>4. /\ asyncq' = [asyncq EXCEPT ![h] = Append(asyncq[h], x)]
        /\ mainq' = mainq /\ scheduled' = scheduled
    BY <1>5, <2>1, <2>2 DEF AsyncInsert
  <2>5. asyncq'[k] = IF k = h THEN Append(asyncq[h], x) ELSE asyncq[k]
    BY <1>0, <2>4
  <2>6. /\ On(Append(asyncq[h], x), e) <=> On(asyncq[h], e) \/ x.event = e
        /\ Once(asyncq[h], e) /\ (x.event = e => ~On(asyncq[h], e)) => Once(Append(asyncq[h], x), e)
    BY <1>0, <2>3, InsertedEvents
  <2>7. k = h => x.event # e
    BY <1>5, <2>1, <2>3
  <2>8. /\ On(asyncq'[k], e) <=> On(asyncq[k], e)
        /\ Once(asyncq[k], e) => Once(asyncq'[k], e)
    BY <2>5, <2>6, <2>7
  <2>9. QED
    BY <2>4, <2>8 DEF ListKept, Nowhere, Single
<1>6. QED
  BY <1>1, <1>2, <1>3, <1>4, <1>5, ListSteps

(* Thread i comes no earlier to a queue, and sets the flag before it goes on.*)
LEMMA ExitPlaces ==
  ASSUME LoopInv, ExitInv, NEW i \in Threads, Step(i), NEW k \in Threads
  PROVE  /\ ExitNotYet(i, k)' => ExitNotYet(i, k) \/ Nowhere(k, Exit(i))
         /\ ExitJustPut(i, k) => ExitJustPut(i, k)' \/ <<Exit(i), k>> \in scheduled'
<1>0. /\ PlaceOK /\ QueuesType /\ CallsOK /\ todo \in [Threads -> Call] /\ k \in Int
      /\ pc = [j \in Threads |-> pc[j]] /\ Exit(i) \notin {Quantum, Message, NoEvent}
  BY EventsApart, ConstantTypes DEF LoopInv, BarrierInv, PlaceOK, QueuesType, Exit, NoEvent
<1>1. CASE SetFlag(i)
  <2>1. pc[i] = "flag" /\ pc[i] \in Inserting
    BY <1>1 DEF SetFlag, Inserting
  <2>2. /\ todo[i].queues \in Seq(Threads) /\ Len(todo[i].queues) \in Int
        /\ todo[i].event # Message => Head(todo[i].queues) = N - Len(todo[i].queues)
        /\ todo[i].queues # <<>>
    BY <1>0, <2>1, CallFacts
  <2>3. scheduled' = scheduled \cup {<<todo[i].event, Head(todo[i].queues)>>}
    BY <1>1 DEF SetFlag
  <2>4. ExitJustPut(i, k) => <<Exit(i), k>> \in scheduled'
    BY <1>0, <2>2, <2>3 DEF ExitJustPut
  <2>5. CASE Len(todo[i].queues) > 1
    <3>1. /\ pc'[i] = "insert" /\ todo'[i].event = todo[i].event
          /\ todo'[i].queues = Tail(todo[i].queues)
      BY <1>0, <1>1, <2>5, PcMoved DEF SetFlag, Call
    <3>2. Len(todo'[i].queues) = Len(todo[i].queues) - 1
      BY <2>2, <3>1
    <3>3. ExitNotYet(i, k)' => todo[i].event = Exit(i) /\ k >= N - (Len(todo[i].queues) - 1)
      BY <3>1, <3>2 DEF ExitNotYet
    <3>4. ExitNotYet(i, k)' => ExitNotYet(i, k)
      BY <1>0, <2>1, <2>2, <3>3, ConstantTypes DEF ExitNotYet
    <3>5. QED
      BY <2>4, <3>4
  <2>6. CASE ~(Len(todo[i].queues) > 1)
    <3>1. todo'[i] = NothingToDo
      BY <1>0, <1>1, <2>6 DEF SetFlag
    <3>2. ~ExitNotYet(i, k)'
      BY <1>0, <3>1 DEF ExitNotYet, NothingToDo
    <3>3. QED
      BY <2>4, <3>2
  <2>7. QED
    BY <2>5, <2>6
<1>2. CASE AsyncInsert(i)
  <2>1. pc[i] = "insert" /\ pc'[i] = "flag" /\ todo' = todo
    BY <1>0, <1>2, PcMoved DEF AsyncInsert
  <2>2. Len(todo[i].queues) \in Int
    BY <1>0, <2>1, CallFacts DEF Inserting
  <2>3. ExitNotYet(i, k)' => ExitNotYet(i, k)
    BY <1>0, <2>1, <2>2, ConstantTypes DEF ExitNotYet
  <2>4. QED
    BY <2>1, <2>3 DEF ExitJustPut
<1>3. CASE LockGlobalQ(i)
  <2>1. pc[i] = "globalQ" /\ pc'[i] = "insert" /\ todo' = todo
    BY <1>0, <1>3, PcMoved DEF LockGlobalQ
  <2>2. QED
    BY <2>1 DEF ExitNotYet, ExitJustPut
<1>4. CASE ExitSimLoop(i)
  <2>1. pc[i] = "handler" /\ ~Flagged(Exit(i))
    BY <1>4 DEF ExitSimLoop, Operate
  <2>2. Nowhere(k, Exit(i))
    BY <2>1 DEF ExitInv, ExitAt, ExitJustPut, Flagged
  <2>3. QED
    BY <2>1, <2>2 DEF ExitJustPut
<1>5. CASE \E h \in Threads : SendMessage(i, h)
  <2>1. pc[i] = "handler" /\ todo'[i].event = Message
    BY <1>0, <1>5 DEF SendMessage, Operate
  <2>2. QED
    BY <1>0, <2>1 DEF ExitNotYet, ExitJustPut
<1>6. CASE Process(i)
  <2>1. pc[i] = "process" /\ (todo'[i].event = Quantum \/ pc'[i] = "barrier2")
    BY <1>0, <1>6, PcMoved DEF Process, GlobalSchedule
  <2>2. QED
    BY <1>0, <2>1 DEF ExitNotYet, ExitJustPut
<1>7. CASE \/ EnterBarrier(i) \/ LeaveBarrier(i) \/ StartLoop(i) \/ ServiceOne(i) \/ HandlerReturn(i)
           \/ ScheduleWork(i) \/ (\E h \in Threads : Migrate(i, h)) \/ MigrateLock(i)
           \/ MigrateSchedule(i) \/ MigrateBack(i) \/ FirstBarrier(i) \/ LeaveFirst(i)
           \/ SecondBarrier(i) \/ LeaveSecond(i)
  <2>1. pc[i] # "flag"
    BY <1>7 DEF EnterBarrier, LeaveBarrier, StartLoop, ServiceOne, HandlerReturn, ScheduleWork,
                Migrate, Operate, MigrateLock, MigrateSchedule, MigrateBack, FirstBarrier, LeaveFirst,
                SecondBarrier, LeaveSecond
  <2>2. \/ UNCHANGED pc /\ ScheduleWork(i)
        \/ \E l \in {"merge", "loop", "handler", "migrate", "migrated", "return home", "process",
                     "barrier1", "barrier2", "last", "wait1", "done", "wait2", "entering", "return",
                     "enter"} : Goto(i, l)
    BY <1>7 DEF EnterBarrier, LeaveBarrier, StartLoop, ServiceOne, HandlerReturn, ScheduleWork,
                Migrate, MigrateLock, MigrateSchedule, MigrateBack, FirstBarrier, LeaveFirst, AfterFirst,
                SecondBarrier, LeaveSecond, QuantumDone, Arrive
  <2>3. pc'[i] \notin {"globalQ", "insert", "flag"}
    BY <1>0, <2>2 DEF Goto, ScheduleWork
  <2>4. QED
    BY <2>1, <2>3 DEF ExitNotYet, ExitJustPut
<1>8. QED
  BY <1>1, <1>2, <1>3, <1>4, <1>5, <1>6, <1>7 DEF Step

(* Each queue has an exit event once at most, and not before its turn.       *)
LEMMA ExitStep ==
  ASSUME LoopInv, ExitInv, NEW i \in Threads, Step(i)
  PROVE  ExitInv'
<1>0. /\ QueuesType /\ CallsOK /\ PlaceOK
      /\ mainq \in [Threads -> Seq(Item)] /\ asyncq \in [Threads -> Seq(Item)]
  BY DEF LoopInv, QueuesType, BarrierInv
<1>1. OnlyMoves(i) /\ \A j \in Threads \ {i} : todo'[j] = todo[j]
  BY <1>0, OneMoves
<1>2. ASSUME AsyncInsert(i)
      PROVE  todo[i].event \in {Quantum, Exit(i), Message} /\ todo[i].event # Limit
  BY <1>0, <1>2, EventsApart DEF AsyncInsert, CallsOK, InCall, Inserting, Limit, Message, Quantum
<1>3. ASSUME NEW k \in Threads
      PROVE  Single(k, Limit)' /\ ~On(asyncq'[k], Limit)
  <2>1. ListKept(k, Limit)
    BY <1>2, ListKeptStep, EventsApart
  <2>2. QED
    BY <2>1 DEF ListKept, ExitInv
<1>4. ASSUME NEW j \in Threads, NEW k \in Threads
      PROVE  ExitAt(j, k)'
  <2>1. ExitAt(j, k) /\ Exit(j) \in GlobalExits
    BY DEF ExitInv, GlobalExits
  <2>2. /\ ExitNotYet(j, k)' => ExitNotYet(j, k) \/ Nowhere(k, Exit(j))
        /\ ExitJustPut(j, k) => ExitJustPut(j, k)' \/ <<Exit(j), k>> \in scheduled'
    <3>1. CASE j = i
      BY <3>1, ExitPlaces
    <3>2. CASE j # i
      <4>1. pc'[j] = pc[j] /\ todo'[j] = todo[j]
        BY <1>1, <3>2 DEF OnlyMoves
      <4>2. QED
        BY <4>1 DEF ExitNotYet, ExitJustPut
    <3>3. QED
      BY <3>1, <3>2
  <2>3. CASE AsyncInsert(i) => todo[i].event # Exit(j) \/ Head(todo[i].queues) # k
    <3>1. ListKept(k, Exit(j))
      BY <2>1, <2>3, ListKeptStep
    <3>2. QED
      BY <2>1, <2>2, <3>1 DEF ExitAt, ListKept
  <2>4. CASE AsyncInsert(i) /\ todo[i].event = Exit(j) /\ Head(todo[i].queues) = k
    <3>1. j = i
      BY <1>2, <2>4, EventsApart
    <3>2. PICK x : x = Entry(todo[i].event, todo[i].when)
      OBVIOUS
    <3>3. /\ x \in Item /\ x.event = Exit(i) /\ k = N - Len(todo[i].queues)
          /\ Len(todo[i].queues) \in Int
      BY <1>0, <2>4, <3>1, <3>2, CallFacts, EntryFacts, EventsApart DEF AsyncInsert, Inserting
    <3>4. /\ asyncq' = [asyncq EXCEPT ![k] = Append(asyncq[k], x)]
          /\ mainq' = mainq /\ pc[i] = "insert" /\ todo' = todo /\ pc'[i] = "flag"
      BY <1>0, <2>4, <3>2, PcMoved DEF AsyncInsert
    <3>5. k >= N - Len(todo[i].queues) /\ ~(k > N - Len(todo[i].queues))
      BY <3>3, ConstantTypes
    <3>6. Nowhere(k, Exit(i))
      BY <2>1, <2>4, <3>1, <3>4, <3>5 DEF ExitAt, ExitNotYet
    <3>7. On(Append(asyncq[k], x), Exit(i)) /\ Once(Append(asyncq[k], x), Exit(i))
      BY <1>0, <2>1, <3>1, <3>3, <3>6, InsertedEvents DEF Nowhere, ExitAt, Single
    <3>8. asyncq'[k] = Append(asyncq[k], x)
      BY <1>0, <3>4
    <3>9. Single(k, Exit(i))'
      BY <2>1, <3>1, <3>4, <3>6, <3>7, <3>8 DEF Single, Nowhere, ExitAt
    <3>10. ~ExitNotYet(i, k)' /\ ExitJustPut(i, k)'
      BY <2>4, <3>1, <3>3, <3>4, <3>5 DEF ExitNotYet, ExitJustPut
    <3>11. QED
      BY <3>1, <3>9, <3>10 DEF ExitAt
  <2>5. QED
    BY <2>3, <2>4
<1>5. QED
  BY <1>3, <1>4 DEF ExitInv

(* The main thread changes the limit and the quantum event only.             *)
LEMMA ExitMain ==
  ASSUME LoopInv, ExitInv, Return \/ \E until \in Limits : Simulate(until)
  PROVE  ExitInv'
<1>0. /\ QueuesType /\ CallsOK /\ PlaceOK
      /\ mainq \in [Threads -> Seq(Item)] /\ asyncq \in [Threads -> Seq(Item)]
      /\ curTick \in [Threads -> Nat] /\ 0 \in Threads
  BY ConstantTypes DEF LoopInv, QueuesType, BarrierInv
<1>1. /\ asyncq' = asyncq /\ todo' = todo
      /\ \A j, k \in Threads : <<Exit(j), k>> \in scheduled => <<Exit(j), k>> \in scheduled'
      /\ \A j \in Threads : pc'[j] = pc[j] \/ pc[j] \in {"return", "python"}
      /\ \A j \in Threads : pc'[j] = pc[j] \/ pc'[j] \in {"enter", "python"}
  BY <1>0, EventsApart DEF Return, Simulate, Goto, PlaceOK
<1>2. ASSUME NEW k \in Threads, NEW e \in GlobalExits
      PROVE  /\ e # Limit => (On(mainq'[k], e) <=> On(mainq[k], e))
             /\ Once(mainq[k], e) => Once(mainq'[k], e)
  <2>0. e # Quantum
    BY EventsApart
  <2>1. CASE Return
    <3>1. mainq'[k] = Without(mainq[k], Quantum)
      BY <2>1 DEF Return
    <3>2. QED
      BY <1>0, <2>0, <3>1, WithoutEvents
  <2>2. ASSUME NEW until \in Limits, Simulate(until)
        PROVE  /\ e # Limit => (On(mainq'[k], e) <=> On(mainq[k], e))
               /\ Once(mainq[k], e) => Once(mainq'[k], e)
    <3>1. PICK a : a = Without(mainq[k], Limit)
      OBVIOUS
    <3>2. PICK x : x = Entry(Limit, until)
      OBVIOUS
    <3>3. PICK y : y = Entry(Quantum, curTick[0] + simQuantum)
      OBVIOUS
    <3>4. mainq'[k] = Inserted(Inserted(a, x), y)
      BY <2>2, <3>1, <3>2, <3>3 DEF Simulate
    <3>5. x \in Item /\ y \in Item /\ x.event = Limit /\ y.event = Quantum
      BY <1>0, <3>2, <3>3, ConstantTypes, EventsApart, EntryFacts
    <3>6. a \in Seq(Item) /\ Inserted(a, x) \in Seq(Item)
      BY <1>0, <3>1, <3>5, ListTypes
    <3>7. /\ Once(mainq[k], e) => Once(a, e)
          /\ e # Limit => (On(a, e) <=> On(mainq[k], e))
          /\ e = Limit /\ Once(mainq[k], e) => ~On(a, e)
      BY <1>0, <3>1, WithoutEvents
    <3>8. /\ On(Inserted(a, x), e) <=> On(a, e) \/ Limit = e
          /\ Once(a, e) /\ (Limit = e => ~On(a, e)) => Once(Inserted(a, x), e)
      BY <3>5, <3>6, InsertedEvents
    <3>9. /\ On(Inserted(Inserted(a, x), y), e) <=> On(Inserted(a, x), e)
          /\ Once(Inserted(a, x), e) => Once(Inserted(Inserted(a, x), y), e)
      BY <2>0, <3>5, <3>6, InsertedEvents
    <3>10. QED
      BY <3>4, <3>7, <3>8, <3>9
  <2>3. QED
    BY <2>1, <2>2
<1>3. ASSUME NEW k \in Threads
      PROVE  Single(k, Limit)' /\ ~On(asyncq'[k], Limit)
  BY <1>1, <1>2, EventsApart DEF Single, ExitInv
<1>4. ASSUME NEW j \in Threads, NEW k \in Threads
      PROVE  ExitAt(j, k)'
  <2>1. ExitAt(j, k) /\ Exit(j) \in GlobalExits /\ Exit(j) # Limit
    BY EventsApart DEF ExitInv, GlobalExits
  <2>2. (ExitNotYet(j, k)' => ExitNotYet(j, k)) /\ (ExitJustPut(j, k) => ExitJustPut(j, k)')
    BY <1>1 DEF ExitNotYet, ExitJustPut
  <2>3. (Nowhere(k, Exit(j)) => Nowhere(k, Exit(j))') /\ (Single(k, Exit(j)) => Single(k, Exit(j))')
    BY <1>1, <1>2, <2>1 DEF Nowhere, Single
  <2>4. QED
    BY <1>1, <2>1, <2>2, <2>3 DEF ExitAt
<1>5. QED
  BY <1>3, <1>4 DEF ExitInv

(* There are none in the beginning.                                          *)
LEMMA InitExit == Init => ExitInv
<1> SUFFICES ASSUME Init PROVE ExitInv
  OBVIOUS
<1>1. ASSUME NEW k \in Threads, NEW e \in GlobalExits
      PROVE  Nowhere(k, e) /\ Single(k, e)
  <2>1. /\ mainq[k] = <<[event |-> Work, when |-> StartTick]>>
        /\ asyncq[k] = <<>>
    BY DEF Init
  <2>2. ~On(<<>>, e) /\ Once(<<>>, e)
    BY DEF On, Once
  <2>3. DOMAIN mainq[k] = {1} /\ mainq[k][1].event # e
    BY <2>1, EventsApart
  <2>4. QED
    BY <2>1, <2>2, <2>3 DEF Nowhere, Single, On, Once
<1>2. QED
  BY <1>1, EventsApart DEF ExitInv, ExitAt, Nowhere, GlobalExits

-----------------------------------------------------------------------------
(* How threads go on.                                                        *)

(* A barrier opens when the last thread arrives.                             *)
LEMMA BarrierOpens ==
  ASSUME LoopInv, NEW i \in Threads, Step(i), NEW e \in Globals, generation'[e] # generation[e]
  PROVE  at[i] = e /\ numLeft[e] = 1 /\ (FirstBarrier(i) \/ SecondBarrier(i))
<1>0. BarrierInv /\ PlaceOK
  BY DEF LoopInv, BarrierInv
<1>1. CASE EnterBarrier(i)
  <2>1. Arrive(i, ThreadBarrier, "merge", "entering")
    BY <1>1 DEF EnterBarrier
  <2>2. QED
    BY <1>0, <2>1, Arrival, ThreadBarrierApart
<1>2. CASE FirstBarrier(i) \/ SecondBarrier(i)
  <2>1. at[i] \in Globals
    BY <1>0, <1>2 DEF FirstBarrier, SecondBarrier, PlaceOK, InGlobal
  <2>2. Arrive(i, at[i], "last", "wait1") \/ Arrive(i, at[i], "done", "wait2")
    BY <1>2 DEF FirstBarrier, SecondBarrier
  <2>3. QED
    BY <1>0, <1>2, <2>1, <2>2, Arrival
<1>3. CASE ~(EnterBarrier(i) \/ FirstBarrier(i) \/ SecondBarrier(i))
  BY <1>3 DEF Step, LeaveBarrier, StartLoop, ServiceOne, HandlerReturn, ScheduleWork, ExitSimLoop,
              SendMessage, Migrate, LockGlobalQ, AsyncInsert, SetFlag, MigrateLock, MigrateSchedule,
              MigrateBack, LeaveFirst, Process, LeaveSecond, barriers
<1>4. QED
  BY <1>1, <1>2, <1>3

(* A thread let out of the second wait stays out.                            *)
LEMMA LeavingStays ==
  ASSUME LoopInv, NEW i \in Threads, Step(i), NEW k \in Threads, Leaving(k)
  PROVE  Leaving(k)' \/ (k = i /\ LeaveSecond(i))
<1>0. BarrierInv /\ PlaceOK /\ QueuesType
  BY DEF LoopInv, BarrierInv
<1>1. pc[k] \in {"done", "wait2"} /\ at[k] \in Globals
  BY <1>0 DEF Leaving, PlaceOK, InGlobal
<1>2. CASE k = i
  BY <1>1, <1>2 DEF Step, EnterBarrier, LeaveBarrier, StartLoop, ServiceOne, HandlerReturn,
              ScheduleWork, ExitSimLoop, SendMessage, Migrate, Operate, LockGlobalQ, AsyncInsert,
              SetFlag, MigrateLock, MigrateSchedule, MigrateBack, FirstBarrier, LeaveFirst, Process,
              SecondBarrier
<1>3. CASE k # i
  <2>1. pc'[k] = pc[k] /\ at'[k] = at[k] /\ gen'[k] = gen[k]
    BY <1>0, <1>3, OneMoves DEF OnlyMoves
  <2>2. CASE generation'[at[k]] = generation[at[k]]
    BY <2>1, <2>2 DEF Leaving
  <2>3. CASE generation'[at[k]] # generation[at[k]]
    <3>1. at[i] = at[k] /\ numLeft[at[i]] = 1 /\ pc[i] \in {"barrier1", "barrier2"}
      BY <1>1, <2>3, BarrierOpens DEF FirstBarrier, SecondBarrier
    <3>2. CASE pc[i] = "barrier1"
      BY <1>0, <1>1, <1>3, <3>1, <3>2, FirstComplete
    <3>3. CASE pc[i] = "barrier2"
      <4>1. pc[k] = "wait2" /\ gen[k] = generation[at[k]]
        BY <1>0, <1>3, <3>1, <3>3, SecondComplete
      <4>2. QED
        BY <4>1 DEF Leaving
    <3>4. QED
      BY <3>1, <3>2, <3>3
  <2>4. QED
    BY <2>2, <2>3
<1>4. QED
  BY <1>2, <1>3

(* The steps of a thread at the quantum event.                               *)
LEMMA QuantumSteps ==
  ASSUME LoopInv, NEW i \in Threads, Step(i), at[i] = Quantum
  PROVE  \/ FirstBarrier(i) \/ LeaveFirst(i) \/ Process(i) \/ LockGlobalQ(i)
         \/ AsyncInsert(i) \/ SetFlag(i) \/ SecondBarrier(i) \/ LeaveSecond(i)
<1>1. pc[i] \notin AtRest \cup InHandler
  BY EventsApart DEF LoopInv, BarrierInv, CallsOK, PlaceOK
<1>2. QED
  BY <1>1 DEF AtRest, InHandler, Step, EnterBarrier, LeaveBarrier, StartLoop, ServiceOne,
              HandlerReturn, ScheduleWork, ExitSimLoop, SendMessage, Migrate, Operate,
              MigrateLock, MigrateSchedule, MigrateBack

(* The first wait of the quantum event is over when the last thread arrives. *)
QuantumEnds(i) == FirstBarrier(i) /\ at[i] = Quantum /\ numLeft[Quantum] = 1

(* For each thread at the quantum event.                                     *)
LEMMA FinishedKept ==
  ASSUME LoopInv, NEW i \in Threads, Step(i), NEW k \in Threads, at[k] = Quantum, at'[k] = Quantum
  PROVE  /\ Finished(k) => Finished(k)'
         /\ Finished(k)' => Finished(k) \/ QuantumEnds(i)
<1>0. BarrierInv /\ PlaceOK /\ QueuesType /\ Quantum \in Globals /\ Quantum # NoEvent
  BY EventsApart DEF LoopInv, BarrierInv
<1>1. CASE k # i
  <2>1. pc'[k] = pc[k] /\ gen'[k] = gen[k]
    BY <1>0, <1>1, OneMoves DEF OnlyMoves
  <2>2. CASE generation'[Quantum] = generation[Quantum]
    BY <2>1, <2>2 DEF Finished
  <2>3. CASE generation'[Quantum] # generation[Quantum]
    <3>1. at[i] = Quantum /\ numLeft[at[i]] = 1 /\ (FirstBarrier(i) \/ SecondBarrier(i))
      BY <1>0, <2>3, BarrierOpens
    <3>2. CASE FirstBarrier(i)
      <4>1. pc[k] = "wait1" /\ gen[k] = generation[Quantum]
        BY <1>0, <1>1, <3>1, <3>2, FirstComplete DEF FirstBarrier
      <4>2. QED
        BY <3>1, <3>2, <4>1 DEF Finished, QuantumEnds
    <3>3. CASE SecondBarrier(i)
      <4>1. pc[k] = "wait2"
        BY <1>0, <1>1, <3>1, <3>3, SecondComplete DEF SecondBarrier
      <4>2. QED
        BY <2>1, <4>1 DEF Finished
    <3>4. QED
      BY <3>1, <3>2, <3>3
  <2>4. QED
    BY <2>2, <2>3
<1>2. CASE k = i
  <2>1. CASE FirstBarrier(i)
    <3>1. pc[i] = "barrier1" /\ Arrive(i, Quantum, "last", "wait1")
      BY <1>2, <2>1 DEF FirstBarrier
    <3>2. CASE numLeft[Quantum] = 1
      BY <1>2, <2>1, <3>1, <3>2 DEF Finished, QuantumEnds
    <3>3. CASE numLeft[Quantum] # 1
      <4>1. gen'[i] = generation'[Quantum] /\ pc'[i] = "wait1"
        BY <1>0, <3>1, <3>3, Arrival
      <4>2. QED
        BY <1>2, <3>1, <4>1 DEF Finished
    <3>4. QED
      BY <3>2, <3>3
  <2>2. CASE LeaveFirst(i)
    <3>1. /\ pc[i] = "last" \/ (pc[i] = "wait1" /\ gen[i] # generation[Quantum])
          /\ pc'[i] \in {"process", "barrier2"}
      BY <1>0, <1>2, <2>2, PcMoved DEF LeaveFirst, Notified, AfterFirst
    <3>2. QED
      BY <1>2, <3>1 DEF Finished
  <2>3. CASE Process(i) \/ LockGlobalQ(i) \/ AsyncInsert(i) \/ SetFlag(i) \/ SecondBarrier(i)
    <3>1. pc[i] \in {"process", "globalQ", "insert", "flag", "barrier2"}
      BY <2>3 DEF Process, LockGlobalQ, AsyncInsert, SetFlag, SecondBarrier
    <3>2. \E l \in {"globalQ", "insert", "flag", "barrier2", "handler", "wait2", "done"} : Goto(i, l)
      BY <2>3 DEF Process, LockGlobalQ, AsyncInsert, SetFlag, SecondBarrier, GlobalSchedule, Arrive
    <3>3. pc'[i] \notin {"barrier1", "wait1"}
      BY <1>0, <3>2, PcMoved
    <3>4. QED
      BY <1>2, <3>1, <3>3 DEF Finished
  <2>4. CASE LeaveSecond(i)
    BY <1>0, <1>2, <2>4 DEF LeaveSecond, PlaceOK
  <2>5. QED
    BY <1>2, <2>1, <2>2, <2>3, <2>4, QuantumSteps
<1>3. QED
  BY <1>1, <1>2

(* A thread starts with its asynchronous insertions.                         *)
LEMMA StartedBefore ==
  ASSUME LoopInv, NEW i \in Threads, Step(i), NEW k \in Threads, Started(k)'
  PROVE  Started(k) \/ (k = i /\ (StartLoop(i) \/ (at[i] = Quantum /\ LeaveSecond(i))))
<1>0. BarrierInv /\ PlaceOK /\ QueuesType /\ CallsOK /\ NoEvent # Quantum
  BY EventsApart DEF LoopInv, BarrierInv
<1>1. CASE k # i
  <2>1. pc'[k] = pc[k] /\ at'[k] = at[k]
    BY <1>0, <1>1, OneMoves DEF OnlyMoves
  <2>2. ~Leaving(k)
    BY <1>1, LeavingStays DEF Started
  <2>3. ~Finished(k)
    BY <2>1, FinishedKept DEF Started, Finished
  <2>4. QED
    BY <2>1, <2>2, <2>3 DEF Started
<1>2. CASE k = i
  <2>1. CASE pc[i] \in {"python", "return", "enter", "entering", "merge"}
    <3>1. EnterBarrier(i) \/ LeaveBarrier(i) \/ StartLoop(i)
      BY <2>1 DEF Step, ServiceOne, HandlerReturn, ScheduleWork, ExitSimLoop, SendMessage, Migrate,
                  Operate, LockGlobalQ, AsyncInsert, SetFlag, MigrateLock, MigrateSchedule,
                  MigrateBack, FirstBarrier, LeaveFirst, Process, SecondBarrier, LeaveSecond
    <3>2. CASE EnterBarrier(i) \/ LeaveBarrier(i)
      <4>1. pc'[i] \in {"entering", "merge"}
        BY <1>0, <3>2, PcMoved DEF EnterBarrier, LeaveBarrier, Arrive
      <4>2. QED
        BY <1>2, <4>1 DEF Started
    <3>3. QED
      BY <1>2, <3>1, <3>2
  <2>2. CASE Leaving(i)
    <3>1. LeaveSecond(i)
      BY <1>2, <2>2, LeavingStays DEF Started
    <3>2. CASE at[i] # Quantum
      <4>1. pc'[i] \in {"return", "enter"}
        BY <1>0, <3>1, <3>2, PcMoved DEF LeaveSecond
      <4>2. QED
        BY <1>2, <4>1 DEF Started
    <3>3. QED
      BY <1>2, <3>1, <3>2
  <2>3. CASE Finished(i)
    <3>1. at[i] = Quantum
      BY <2>3 DEF Finished
    <3>2. CASE at'[i] = Quantum
      BY <1>2, <2>3, <3>1, <3>2, FinishedKept DEF Started
    <3>3. CASE at'[i] # Quantum
      <4>1. LeaveSecond(i)
        BY <3>1, <3>3, QuantumSteps
        DEF FirstBarrier, LeaveFirst, Process, LockGlobalQ, AsyncInsert, SetFlag, SecondBarrier
      <4>2. QED
        BY <1>2, <3>1, <4>1
    <3>4. QED
      BY <3>2, <3>3
  <2>4. QED
    BY <1>2, <2>1, <2>2, <2>3 DEF Started
<1>3. QED
  BY <1>1, <1>2

(* The threads leave the loop when the last one has arrived in the second    *)
(* wait of an exit event.                                                    *)
LoopEnds(i) == SecondBarrier(i) /\ at[i] \in GlobalExits /\ numLeft[at[i]] = 1

(* No other step brings them out of it.                                      *)
LEMMA GatheringBefore ==
  ASSUME LoopInv, NEW i \in Threads, Step(i), Gathering'
  PROVE  Gathering \/ LoopEnds(i)
<1>0. /\ BarrierInv /\ PlaceOK /\ QueuesType /\ CallsOK /\ Phases /\ Outside(i)'
  BY DEF LoopInv, BarrierInv, Gathering
<1>1. OnlyMoves(i)
  BY <1>0, OneMoves
<1>2. CASE EnterBarrier(i)
  <2>1. ~Inside(i)
    BY <1>2 DEF EnterBarrier, Inside
  <2>2. QED
    BY <1>0, <2>1, PhaseOf
<1>3. CASE FirstBarrier(i)
  <2>1. Inside(i)'
    BY <1>0, <1>1, <1>3, FirstPhases DEF Running
  <2>2. QED
    BY <1>0, <2>1, EventsApart DEF Inside, Outside
<1>4. CASE SecondBarrier(i)
  <2>1. at[i] \in Globals /\ at' = at /\ Arrive(i, at[i], "done", "wait2")
    BY <1>0, <1>4 DEF SecondBarrier, PlaceOK, InGlobal
  <2>2. CASE at[i] = Quantum
    <3>1. Inside(i)'
      BY <1>0, <1>1, <1>4, <2>2, SecondPhases DEF Running
    <3>2. QED
      BY <1>0, <3>1, EventsApart DEF Inside, Outside
  <2>3. CASE at[i] # Quantum /\ numLeft[at[i]] # 1
    <3>1. pc'[i] = "wait2" /\ gen'[i] = generation'[at'[i]]
      BY <1>0, <2>1, <2>3, Arrival
    <3>2. QED
      BY <1>0, <3>1 DEF Outside, Counted, Leaving
  <2>4. QED
    BY <1>4, <2>1, <2>2, <2>3 DEF LoopEnds, Globals
<1>5. CASE LeaveSecond(i)
  <2>1. Leaving(i)
    BY <1>5 DEF LeaveSecond, Leaving, Notified
  <2>2. CASE at[i] = Quantum
    <3>1. pc'[i] = "loop"
      BY <1>0, <1>5, <2>2, PcMoved DEF LeaveSecond, QuantumDone
    <3>2. QED
      BY <1>0, <3>1 DEF Outside, Counted, Leaving
  <2>3. CASE at[i] # Quantum
    BY <1>0, <2>1, <2>3, PhaseOf DEF Inside
  <2>4. QED
    BY <2>2, <2>3
<1>6. CASE ~(EnterBarrier(i) \/ FirstBarrier(i) \/ SecondBarrier(i) \/ LeaveSecond(i))
  <2>1. Inside(i)'
    BY <1>0, <1>1, <1>6, InsideSteps DEF Step, Running
  <2>2. QED
    BY <1>0, <2>1, EventsApart DEF Inside, Outside
<1>7. QED
  BY <1>2, <1>3, <1>4, <1>5, <1>6

-----------------------------------------------------------------------------
(* Lists and clocks.                                                         *)

(* The lists stay in order, and get entries from each other, from            *)
(* schedule() on the queue itself, and from a call under way.                *)
LEMMA ContentSteps ==
  ASSUME LoopInv, ListInv, NEW i \in Threads, Step(i), NEW k \in Threads
  PROVE  /\ Sorted(mainq'[k])
         /\ \A x \in Content(mainq'[k]) :
              \/ x \in Content(mainq[k]) \cup Content(asyncq[k])
              \/ x.event \in {Work, Io} /\ x.when >= curTick[k]
         /\ \A x \in Content(asyncq'[k]) :
              \/ x \in Content(asyncq[k])
              \/ /\ pc[i] \in Inserting
                 /\ x.event = todo[i].event /\ x.when = todo[i].when
         /\ StartLoop(i) \/ (at[i] = Quantum /\ LeaveSecond(i)) => Content(asyncq'[i]) = {}
         /\ \/ curTick'[k] = curTick[k]
            \/ k = i /\ ServiceOne(i)
<1>0. /\ QueuesType /\ CallsOK /\ mainq \in [Threads -> Seq(Item)] /\ asyncq \in [Threads -> Seq(Item)]
      /\ curTick \in [Threads -> Nat]
      /\ Sorted(mainq[k]) /\ Sorted(mainq[i])
  BY DEF LoopInv, QueuesType, ListInv
<1>e. Content(<<>>) = {}
  BY DEF Content
<1>1. CASE /\ UNCHANGED <<mainq, asyncq, curTick>> /\ scheduled \subseteq scheduled'
           /\ ~(StartLoop(i) \/ (at[i] = Quantum /\ LeaveSecond(i)))
  BY <1>0, <1>1
<1>2. CASE HandleAsyncInsertions(i)
  <2>1. /\ mainq' = [mainq EXCEPT ![i] = Merged(i)] /\ asyncq' = [asyncq EXCEPT ![i] = <<>>]
        /\ curTick' = curTick
    BY <1>2 DEF HandleAsyncInsertions
  <2>2. Sorted(Merged(i)) /\ Content(Merged(i)) \subseteq Content(mainq[i]) \cup Content(asyncq[i])
    BY <1>0, MergedSorted
  <2>3. /\ mainq'[i] = Merged(i) /\ asyncq'[i] = <<>>
        /\ k # i => mainq'[k] = mainq[k] /\ asyncq'[k] = asyncq[k]
    BY <1>0, <2>1
  <2>4. CASE k = i
    BY <1>e, <2>1, <2>2, <2>3, <2>4
  <2>5. CASE k # i
    BY <1>0, <1>e, <2>1, <2>3, <2>5
  <2>6. QED
    BY <2>4, <2>5
<1>3. CASE ServiceOne(i)
  <2>1. mainq[i] # <<>> /\ mainq[i] \in Seq(Item)
    BY <1>3, LoopHasEvent DEF ServiceOne
  <2>2. Dropped(mainq[i], Tail(mainq[i]), 1) /\ 1 \in DOMAIN mainq[i]
    BY <2>1, TailIs
  <2>3. Sorted(Tail(mainq[i])) /\ Content(Tail(mainq[i])) \subseteq Content(mainq[i])
    BY <1>0, <2>1, <2>2, DroppedSorted, DroppedContent
  <2>4. /\ mainq' = [mainq EXCEPT ![i] = Tail(mainq[i])] /\ asyncq' = asyncq
        /\ curTick' = [curTick EXCEPT ![i] = Head(mainq[i]).when]
        /\ ~StartLoop(i) /\ ~LeaveSecond(i)
    BY <1>3 DEF ServiceOne, StartLoop, LeaveSecond
  <2>5. /\ mainq'[k] = IF k = i THEN Tail(mainq[i]) ELSE mainq[k]
        /\ k # i => curTick'[k] = curTick[k]
    BY <1>0, <2>4
  <2>6. QED
    BY <1>0, <1>3, <2>3, <2>4, <2>5
<1>4. ASSUME NEW h \in Threads, NEW x, Inserts(h, x),
             ~(StartLoop(i) \/ (at[i] = Quantum /\ LeaveSecond(i)))
      PROVE  /\ Sorted(mainq'[k])
             /\ \A y \in Content(mainq'[k]) :
                  \/ y \in Content(mainq[k]) \cup Content(asyncq[k])
                  \/ y.event \in {Work, Io} /\ y.when >= curTick[k]
             /\ Content(asyncq'[k]) \subseteq Content(asyncq[k]) /\ curTick' = curTick
  <2>a. PICK rest \in Remains(asyncq[h]) : asyncq' = [asyncq EXCEPT ![h] = rest]
    BY <1>4 DEF Inserts
  <2>b. Content(asyncq'[k]) \subseteq Content(asyncq[k])
    <3>1. Content(rest) \subseteq Content(asyncq[h])
      BY <1>0, <2>a, RemainsFacts
    <3>2. asyncq'[k] = IF k = h THEN rest ELSE asyncq[k]
      BY <1>0, <2>a
    <3>3. QED
      BY <3>1, <3>2
  <2>1. /\ mainq' = [mainq EXCEPT ![h] = Inserted(mainq[h], x)]
        /\ curTick' = curTick
        /\ x \in Item /\ x.event \in {Work, Io} /\ x.when >= curTick[h]
    BY <1>4 DEF Inserts
  <2>2. CASE k = h
    <3>1. /\ Sorted(Inserted(mainq[k], x))
          /\ Content(Inserted(mainq[k], x)) \subseteq Content(mainq[k]) \cup {x}
      BY <1>0, <2>1, InsertedSorted
    <3>2. mainq'[k] = Inserted(mainq[k], x)
      BY <1>0, <2>1, <2>2
    <3>3. QED
      BY <2>1, <2>2, <2>b, <3>1, <3>2
  <2>3. CASE k # h
    BY <1>0, <2>1, <2>3, <2>b
  <2>4. QED
    BY <2>2, <2>3
<1>5. CASE AsyncInsert(i)
  <2>1. PICK h : h = Head(todo[i].queues)
    OBVIOUS
  <2>2. PICK x : x = Entry(todo[i].event, todo[i].when)
    OBVIOUS
  <2>3. /\ h \in Threads /\ x \in Item /\ x.event = todo[i].event /\ x.when = todo[i].when
        /\ pc[i] \in Inserting
    BY <1>0, <1>5, <2>1, <2>2, CallFacts, EntryFacts DEF AsyncInsert, Inserting
  <2>4. /\ asyncq' = [asyncq EXCEPT ![h] = Append(asyncq[h], x)]
        /\ mainq' = mainq /\ curTick' = curTick /\ ~StartLoop(i) /\ ~LeaveSecond(i)
    BY <1>5, <2>1, <2>2 DEF AsyncInsert, StartLoop, LeaveSecond
  <2>5. asyncq'[k] = IF k = h THEN Append(asyncq[h], x) ELSE asyncq[k]
    BY <1>0, <2>4
  <2>6. Content(Append(asyncq[h], x)) \subseteq Content(asyncq[h]) \cup {x}
    <3>1. Put(asyncq[h], Append(asyncq[h], x), Len(asyncq[h]), x) /\ asyncq[h] \in Seq(Item)
          /\ Len(asyncq[h]) \in 0 .. Len(asyncq[h])
      BY <1>0, <2>3, AppendIs
    <3>2. QED
      BY <3>1, PutContent
  <2>7. CASE k = h
    BY <1>0, <2>3, <2>4, <2>5, <2>6, <2>7
  <2>8. CASE k # h
    BY <1>0, <2>4, <2>5, <2>8
  <2>9. QED
    BY <2>7, <2>8
<1>6. CASE StartLoop(i) \/ (at[i] = Quantum /\ LeaveSecond(i))
  <2>1. HandleAsyncInsertions(i)
    BY <1>6 DEF StartLoop, LeaveSecond, QuantumDone
  <2>2. QED
    BY <1>2, <2>1
<1>7. CASE ~(StartLoop(i) \/ (at[i] = Quantum /\ LeaveSecond(i)))
  BY <1>1, <1>3, <1>4, <1>5, <1>7, ListSteps
<1>8. QED
  BY <1>6, <1>7

(* The event that is serviced is the earliest.                               *)
LEMMA ServiceFacts ==
  ASSUME LoopInv, ListInv, NEW T \in Nat, QuantumTicks(T), NEW i \in Threads, ServiceOne(i)
  PROVE  /\ Head(mainq[i]) \in Content(mainq[i])
         /\ curTick'[i] = Head(mainq[i]).when /\ at'[i] = Head(mainq[i]).event
         /\ curTick'[i] \in Nat /\ curTick[i] <= curTick'[i] /\ curTick'[i] <= T
         /\ at'[i] = Quantum => curTick'[i] = T
         /\ pc'[i] \in {"barrier1", "handler"}
         /\ \A x \in Content(mainq'[i]) : curTick'[i] <= x.when
<1>0. /\ mainq \in [Threads -> Seq(Item)] /\ curTick \in [Threads -> Nat] /\ PlaceOK
  BY DEF LoopInv, QueuesType, BarrierInv
<1>1. /\ On(mainq[i], Quantum) /\ mainq[i] # <<>> /\ mainq[i] \in Seq(Item)
      /\ Sorted(mainq[i]) /\ \A x \in Content(mainq[i]) : x.when >= curTick[i]
  BY LoopHasEvent DEF ServiceOne, ListInv
<1>2. PICK h : h = Head(mainq[i])
  OBVIOUS
<1>3. h \in Content(mainq[i]) /\ h \in Item /\ h.when \in Nat
  <2>1. 1 \in DOMAIN mainq[i] /\ h = mainq[i][1] /\ h \in Item
    BY <1>1, <1>2
  <2>2. QED
    BY <2>1 DEF Content, Item
<1>4. \A x \in Content(mainq[i]) : h.when <= x.when
  BY <1>1, <1>2, HeadIsFirst
<1>5. /\ curTick'[i] = h.when /\ at'[i] = h.event /\ pc'[i] \in {"barrier1", "handler"}
      /\ mainq'[i] = Tail(mainq[i])
  BY <1>0, <1>2, PcMoved DEF ServiceOne, PlaceOK
<1>6. PICK y \in Content(mainq[i]) : y.event = Quantum
  BY <1>1 DEF On, Content
<1>7. y.when = T
  BY <1>6 DEF QuantumTicks
<1>8. h.event = Quantum => h.when = T
  BY <1>3 DEF QuantumTicks
<1>9. Content(Tail(mainq[i])) \subseteq Content(mainq[i])
  BY <1>1, TailIs, DroppedContent
<1>10. QED
  BY <1>0, <1>1, <1>2, <1>3, <1>4, <1>5, <1>6, <1>7, <1>8, <1>9

(* No entry of a list is in the past.                                        *)
LEMMA ListStep ==
  ASSUME LoopInv, ListInv, NEW T \in Nat, Window(T), NEW i \in Threads, Step(i)
  PROVE  ListInv'
<1>1. ASSUME NEW k \in Threads
      PROVE  Sorted(mainq'[k]) /\ \A x \in Content(mainq'[k]) : x.when >= curTick'[k]
  <2>1. Sorted(mainq'[k])
    BY ContentSteps
  <2>2. CASE curTick'[k] = curTick[k]
    <3>1. \A x \in Content(mainq'[k]) :
            \/ x \in Content(mainq[k]) \cup Content(asyncq[k])
            \/ x.when >= curTick[k]
      BY ContentSteps
    <3>2. \A x \in Content(mainq[k]) \cup Content(asyncq[k]) : x.when >= curTick[k]
      BY DEF ListInv, Window, AsyncTicks
    <3>3. QED
      BY <2>1, <2>2, <3>1, <3>2
  <2>3. CASE curTick'[k] # curTick[k]
    <3>1. k = i /\ ServiceOne(i)
      BY <2>3, ContentSteps
    <3>2. \A x \in Content(mainq'[i]) : curTick'[i] <= x.when
      BY <3>1, ServiceFacts DEF Window
    <3>3. QED
      BY <2>1, <3>1, <3>2
  <2>4. QED
    BY <2>2, <2>3
<1>2. QED
  BY <1>1 DEF ListInv

-----------------------------------------------------------------------------
(* The quantum.                                                              *)

(* schedule() is called one quantum ahead, and its call stays what it is.    *)
LEMMA CallStep ==
  ASSUME LoopInv, NEW i \in Threads, Step(i), pc'[i] \in Inserting
  PROVE  \/ /\ pc[i] \in Inserting
            /\ todo'[i].event = todo[i].event /\ todo'[i].when = todo[i].when
         \/ /\ todo'[i].when = curTick[i] + simQuantum
            /\ \/ at[i] = Quantum /\ pc[i] = "process" /\ todo'[i].event = Quantum
               \/ todo'[i].event = Message
               \/ ExitSimLoop(i) /\ todo'[i].event = Exit(i)
<1>0. /\ PlaceOK /\ QueuesType /\ todo \in [Threads -> Call] /\ pc = [j \in Threads |-> pc[j]]
  BY DEF LoopInv, BarrierInv, PlaceOK, QueuesType
<1>1. CASE LockGlobalQ(i) \/ AsyncInsert(i)
  BY <1>1 DEF LockGlobalQ, AsyncInsert, Inserting
<1>2. CASE SetFlag(i)
  <2>1. pc[i] \in Inserting
    BY <1>2 DEF SetFlag, Inserting
  <2>2. CASE Len(todo[i].queues) > 1
    BY <1>0, <1>2, <2>1, <2>2 DEF SetFlag, Call
  <2>3. CASE ~(Len(todo[i].queues) > 1)
    <3>1. Goto(i, "barrier2") \/ Goto(i, "handler")
      BY <1>2, <2>3 DEF SetFlag
    <3>2. QED
      BY <1>0, <3>1, PcMoved DEF Inserting
  <2>4. QED
    BY <2>2, <2>3
<1>3. CASE Process(i)
  <2>1. pc[i] = "process"
    BY <1>3 DEF Process
  <2>2. CASE at[i] = Quantum
    BY <1>0, <1>3, <2>1, <2>2 DEF Process, GlobalSchedule
  <2>3. CASE at[i] # Quantum
    <3>1. pc'[i] = "barrier2"
      BY <1>0, <1>3, <2>3, PcMoved DEF Process
    <3>2. QED
      BY <3>1 DEF Inserting
  <2>4. QED
    BY <2>2, <2>3
<1>4. CASE ExitSimLoop(i)
  BY <1>0, <1>4 DEF ExitSimLoop, GlobalSchedule, ExitTick
<1>5. CASE \E h \in Threads : SendMessage(i, h)
  BY <1>0, <1>5 DEF SendMessage
<1>6. CASE \/ EnterBarrier(i) \/ LeaveBarrier(i) \/ StartLoop(i) \/ ServiceOne(i) \/ HandlerReturn(i)
           \/ ScheduleWork(i) \/ (\E h \in Threads : Migrate(i, h)) \/ MigrateLock(i)
           \/ MigrateSchedule(i) \/ MigrateBack(i) \/ FirstBarrier(i) \/ LeaveFirst(i)
           \/ SecondBarrier(i) \/ LeaveSecond(i)
  <2>1. \/ UNCHANGED pc /\ ScheduleWork(i)
        \/ \E l \in {"merge", "loop", "handler", "migrate", "migrated", "return home", "process",
                     "barrier1", "barrier2", "last", "wait1", "done", "wait2", "entering", "return",
                     "enter"} : Goto(i, l)
    BY <1>6 DEF EnterBarrier, LeaveBarrier, StartLoop, ServiceOne, HandlerReturn, ScheduleWork,
                Migrate, MigrateLock, MigrateSchedule, MigrateBack, FirstBarrier, LeaveFirst, AfterFirst,
                SecondBarrier, LeaveSecond, QuantumDone, Arrive
  <2>2. pc'[i] \notin {"globalQ", "insert", "flag"}
    BY <1>0, <2>1 DEF Goto, ScheduleWork
  <2>3. QED
    BY <2>2 DEF Inserting
<1>7. QED
  BY <1>1, <1>2, <1>3, <1>4, <1>5, <1>6 DEF Step

(* A thread comes to an event by servicing it.                               *)
LEMMA ComesTo ==
  ASSUME LoopInv, NEW i \in Threads, Step(i), NEW k \in Threads, at'[k] # at[k], at'[k] \in Globals
  PROVE  k = i /\ ServiceOne(i)
<1>0. PlaceOK /\ QueuesType /\ NoEvent \notin Globals
  BY LocalEventsApart DEF LoopInv, BarrierInv
<1>1. k = i
  BY <1>0, OneMoves DEF OnlyMoves
<1>2. CASE HandlerReturn(i) \/ LeaveSecond(i)
  BY <1>0, <1>1, <1>2 DEF HandlerReturn, LeaveSecond, PlaceOK
<1>3. CASE ~(HandlerReturn(i) \/ LeaveSecond(i) \/ ServiceOne(i))
  <2>1. at' = at
    BY <1>3 DEF Step, EnterBarrier, LeaveBarrier, StartLoop, ScheduleWork, ExitSimLoop,
                SendMessage, Migrate, LockGlobalQ, AsyncInsert, SetFlag, MigrateLock,
                MigrateSchedule, MigrateBack, FirstBarrier, LeaveFirst, Process, SecondBarrier
  <2>2. QED
    BY <2>1
<1>4. QED
  BY <1>1, <1>2, <1>3

(* The calls of schedule() are for the next quantum.                         *)
LEMMA CallTicksStep ==
  ASSUME LoopInv, NEW T \in Nat, Window(T), NEW i \in Threads, Step(i)
  PROVE  CallTicks(T)'
<1>0. PlaceOK /\ QueuesType /\ \A j \in Threads : curTick[j] \in Nat
  BY DEF LoopInv, BarrierInv, QueuesType
<1>1. ASSUME NEW j \in Threads, pc'[j] \in Inserting
      PROVE  IF todo'[j].event = Quantum THEN todo'[j].when = T ELSE todo'[j].when >= T
  <2>1. CASE j # i
    <3>1. pc'[j] = pc[j] /\ todo'[j] = todo[j]
      BY <1>0, <2>1, OneMoves DEF OnlyMoves
    <3>2. QED
      BY <1>1, <3>1 DEF Window, CallTicks
  <2>2. CASE j = i
    <3>1. CASE /\ pc[i] \in Inserting
               /\ todo'[i].event = todo[i].event /\ todo'[i].when = todo[i].when
      BY <2>2, <3>1 DEF Window, CallTicks
    <3>2. CASE /\ todo'[i].when = curTick[i] + simQuantum
               /\ at[i] = Quantum /\ pc[i] = "process" /\ todo'[i].event = Quantum
      <4>1. curTick[i] + simQuantum = T
        BY <3>2 DEF Window, ClocksIn, Finished
      <4>2. QED
        BY <2>2, <3>2, <4>1
    <3>3. CASE /\ todo'[i].when = curTick[i] + simQuantum
               /\ todo'[i].event \in {Message, Exit(i)}
      <4>1. T <= curTick[i] + simQuantum
        BY DEF Window, ClocksIn
      <4>2. QED
        BY <2>2, <3>3, <4>1, EventsApart
    <3>4. QED
      BY <1>1, <2>2, <3>1, <3>2, <3>3, CallStep
  <2>3. QED
    BY <2>1, <2>2
<1>2. QED
  BY <1>1 DEF CallTicks

(* The clocks stay in it.                                                    *)
LEMMA ClocksStep ==
  ASSUME LoopInv, ListInv, NEW T \in Nat, Window(T), NEW i \in Threads, Step(i), ~QuantumEnds(i)
  PROVE  ClocksIn(T)'
<1>0. /\ PlaceOK /\ QueuesType /\ simQuantum \in Nat /\ \A j \in Threads : curTick[j] \in Nat
      /\ Quantum \in Globals
  BY ConstantTypes, EventsApart DEF LoopInv, BarrierInv, QueuesType
<1>1. ASSUME NEW k \in Threads
      PROVE  /\ curTick'[k] <= T /\ T <= curTick'[k] + simQuantum
             /\ at'[k] = Quantum =>
                  IF Finished(k)' THEN curTick'[k] + simQuantum = T ELSE curTick'[k] = T
  <2>0. /\ curTick[k] <= T /\ T <= curTick[k] + simQuantum
        /\ at[k] = Quantum =>
             IF Finished(k) THEN curTick[k] + simQuantum = T ELSE curTick[k] = T
    BY DEF Window, ClocksIn
  <2>1. CASE k = i /\ ServiceOne(i)
    <3>1. /\ curTick'[i] \in Nat /\ curTick[i] <= curTick'[i] /\ curTick'[i] <= T
          /\ at'[i] = Quantum => curTick'[i] = T
          /\ pc'[i] \in {"barrier1", "handler"}
      BY <2>1, ServiceFacts DEF Window
    <3>2. T <= curTick'[i] + simQuantum
      BY <1>0, <2>0, <2>1, <3>1
    <3>3. at'[i] = Quantum => ~Finished(i)'
      <4>1. ASSUME at'[i] = Quantum
            PROVE  pc'[i] = "barrier1"
        BY <1>0, <2>1, <4>1, PcMoved DEF ServiceOne, PlaceOK
      <4>2. QED
        BY <4>1 DEF Finished
    <3>4. QED
      BY <2>1, <3>1, <3>2, <3>3
  <2>2. CASE ~(k = i /\ ServiceOne(i))
    <3>1. curTick'[k] = curTick[k]
      BY <2>2, ContentSteps
    <3>2. at'[k] = Quantum => at[k] = Quantum
      BY <1>0, <2>2, ComesTo
    <3>3. at'[k] = Quantum => (Finished(k)' <=> Finished(k))
      BY <3>2, FinishedKept
    <3>4. QED
      BY <2>0, <3>1, <3>2, <3>3
  <2>3. QED
    BY <2>1, <2>2
<1>2. QED
  BY <1>1 DEF ClocksIn

(* So do the ticks.                                                          *)
LEMMA WindowKept ==
  ASSUME LoopInv, ListInv, NEW T \in Nat, Window(T), NEW i \in Threads, Step(i), ~QuantumEnds(i)
  PROVE  Window(T)'
<1>0. /\ PlaceOK /\ QueuesType /\ CallsOK /\ \A j \in Threads : curTick[j] \in Nat
      /\ Quantum \notin {Work, Io}
  BY EventsApart DEF LoopInv, BarrierInv, QueuesType
<1>1. CallTicks(T)' /\ ClocksIn(T)'
  BY CallTicksStep, ClocksStep
<1>2. QuantumTicks(T)'
  <2>1. ASSUME NEW k \in Threads, NEW x \in Content(mainq'[k]) \cup Content(asyncq'[k]),
               x.event = Quantum
        PROVE  x.when = T
    <3>1. CASE x \in Content(mainq[k]) \cup Content(asyncq[k])
      BY <2>1, <3>1 DEF Window, QuantumTicks
    <3>2. CASE pc[i] \in Inserting /\ x.event = todo[i].event /\ x.when = todo[i].when
      BY <2>1, <3>2 DEF Window, CallTicks
    <3>3. QED
      BY <1>0, <2>1, <3>1, <3>2, ContentSteps
  <2>2. QED
    BY <2>1 DEF QuantumTicks
<1>3. AsyncTicks(T)'
  <2>1. ASSUME NEW k \in Threads, NEW x \in Content(asyncq'[k])
        PROVE  x.when >= curTick'[k] /\ (Started(k)' => x.when >= T)
    <3>1. CASE x \in Content(asyncq[k])
      <4>1. x.when >= curTick[k] /\ (Started(k) => x.when >= T)
        BY <3>1 DEF Window, AsyncTicks
      <4>2. ASSUME Started(k)'
            PROVE  x.when >= T
        <5>1. CASE k = i /\ (StartLoop(i) \/ (at[i] = Quantum /\ LeaveSecond(i)))
          BY <2>1, <5>1, ContentSteps
        <5>2. QED
          BY <4>1, <4>2, <5>1, StartedBefore
      <4>3. CASE k = i /\ ServiceOne(i)
        <5>1. pc[i] = "loop" /\ at[i] = NoEvent /\ NoEvent # Quantum
          BY <1>0, <4>3, LoopHasEvent, EventsApart DEF ServiceOne
        <5>2. Started(i)
          BY <5>1 DEF Started, Leaving, Finished
        <5>3. /\ curTick'[i] = Head(mainq[i]).when /\ curTick'[i] <= T
          BY <4>3, ServiceFacts DEF Window
        <5>4. x.when \in Int
          <6>1. asyncq[k] \in Seq(Item)
            BY <1>0 DEF QueuesType
          <6>2. x \in Item
            BY <3>1, <6>1 DEF Content
          <6>3. QED
            BY <6>2 DEF Item
        <5>5. curTick'[i] \in Nat
          BY <4>3, ServiceFacts DEF Window
        <5>6. QED
          BY <4>1, <4>2, <4>3, <5>2, <5>3, <5>4, <5>5
      <4>4. CASE curTick'[k] = curTick[k]
        BY <4>1, <4>2, <4>4
      <4>5. QED
        BY <4>3, <4>4, ContentSteps
    <3>2. CASE pc[i] \in Inserting /\ x.event = todo[i].event /\ x.when = todo[i].when
      <4>1. x.when >= T
        BY <1>0, <3>2 DEF Window, CallTicks
      <4>2. curTick'[k] <= T
        BY <1>1 DEF ClocksIn
      <4>3. x.when \in Nat
        BY <1>0, <3>2, CallFacts
      <4>4. curTick'[k] \in Nat
        BY StepTypes DEF QueuesType
      <4>5. QED
        BY <4>1, <4>2, <4>3, <4>4
    <3>3. QED
      BY <2>1, <3>1, <3>2, ContentSteps
  <2>2. QED
    BY <2>1 DEF AsyncTicks
<1>4. QED
  BY <1>1, <1>2, <1>3 DEF Window

(* When the last thread has arrived at the quantum event, the next quantum   *)
(* begins: the event is on no queue, and nobody schedules.                   *)
LEMMA WindowMoves ==
  ASSUME LoopInv, NEW T \in Nat, Window(T), NEW i \in Threads, QuantumEnds(i)
  PROVE  Window(T + simQuantum)'
<1>0. /\ BarrierInv /\ PlaceOK /\ QueuesType /\ simQuantum \in Nat
      /\ \A j \in Threads : curTick[j] \in Nat
      /\ Quantum \in Globals /\ i \in Threads
  BY ConstantTypes, EventsApart DEF LoopInv, BarrierInv, QueuesType
<1>1. /\ pc[i] = "barrier1" /\ at[i] = Quantum /\ numLeft[at[i]] = 1
      /\ Arrive(i, Quantum, "last", "wait1")
      /\ UNCHANGED <<mainq, asyncq, curTick, at, todo>>
  BY DEF QuantumEnds, FirstBarrier, queues
<1>2. ASSUME NEW k \in Threads, k # i
      PROVE  at[k] = Quantum /\ pc[k] = "wait1" /\ gen[k] = generation[Quantum]
  BY <1>0, <1>1, <1>2, FirstComplete
<1>3. pc'[i] = "last" /\ generation'[Quantum] # generation[Quantum]
  BY <1>0, <1>1, Arrival
<1>4. ASSUME NEW k \in Threads, k # i
      PROVE  pc'[k] = "wait1" /\ gen'[k] = generation[Quantum]
  <2>1. Step(i)
    BY DEF QuantumEnds, Step
  <2>2. pc'[k] = pc[k] /\ gen'[k] = gen[k]
    BY <1>0, <1>4, <2>1, OneMoves DEF OnlyMoves
  <2>3. QED
    BY <1>2, <1>4, <2>2
<1>5. ASSUME NEW k \in Threads
      PROVE  /\ at[k] = Quantum /\ ~Finished(k) /\ Finished(k)'
             /\ pc'[k] \in {"last", "wait1"} /\ Expected(k) = "nowhere"
  <2>1. at[k] = Quantum /\ ~Finished(k)
    BY <1>1, <1>2 DEF Finished
  <2>2. Finished(k)' /\ pc'[k] \in {"last", "wait1"}
    BY <1>1, <1>3, <1>4, <2>1 DEF Finished
  <2>3. Expected(k) = "nowhere"
    <3>1. ~Leaving(k) /\ (pc[k] = "barrier1" \/ Role(k, Quantum) = "first")
      BY <1>1, <1>2 DEF Leaving, Role, AloneAt
    <3>2. QED
      BY <2>1, <3>1 DEF Expected
  <2>4. QED
    BY <2>1, <2>2, <2>3
<1>6. QuantumTicks(T + simQuantum)'
  <2>1. ASSUME NEW k \in Threads, NEW x \in Content(mainq[k]) \cup Content(asyncq[k])
        PROVE  x.event # Quantum
    <3>1. ~On(mainq[k], Quantum) /\ ~On(asyncq[k], Quantum)
      BY <1>5 DEF LoopInv, QuantumInv, QuantumAt
    <3>2. QED
      BY <2>1, <3>1 DEF On, Content
  <2>2. QED
    BY <1>1, <2>1 DEF QuantumTicks
<1>7. CallTicks(T + simQuantum)'
  BY <1>5 DEF CallTicks, Inserting
<1>8. ClocksIn(T + simQuantum)'
  <2>1. ASSUME NEW k \in Threads
        PROVE  curTick[k] = T
    BY <1>5, <2>1 DEF Window, ClocksIn
  <2>2. ASSUME NEW k \in Threads
        PROVE  curTick'[k] = T /\ Finished(k)'
    BY <1>1, <1>5, <2>1, <2>2
  <2>3. T <= T + simQuantum /\ T + simQuantum <= T + simQuantum
    BY <1>0
  <2>4. QED
    BY <2>2, <2>3 DEF ClocksIn
<1>9. AsyncTicks(T + simQuantum)'
  BY <1>1, <1>5 DEF Window, AsyncTicks, Started
<1>10. QED
  BY <1>6, <1>7, <1>8, <1>9 DEF Window

(* Outside the loop nobody is at an event.                                   *)
LEMMA OutsideFacts ==
  ASSUME Gathering, CallsOK, NEW k \in Threads
  PROVE  /\ at[k] # Quantum /\ pc[k] \notin Inserting /\ ~Started(k)
         /\ at[k] \in Globals => Leaving(k)
<1>1. Outside(k) /\ at[k] # Quantum
  BY GatheringPlaces DEF Gathering
<1>2. QED
  BY <1>1, EventsApart DEF Outside, Counted, Leaving, Started, Inserting, CallsOK, AtRest

(* Nor is anybody after a step.                                              *)
LEMMA OutsideNext ==
  (\A k \in Threads : Gathering /\ CallsOK =>
     at[k] # Quantum /\ pc[k] \notin Inserting /\ ~Started(k))'
<1>1. \A k \in Threads : Gathering /\ CallsOK =>
        at[k] # Quantum /\ pc[k] \notin Inserting /\ ~Started(k)
  BY OutsideFacts
<1>2. QED
  BY <1>1, PTL

(* simulate() begins a quantum.                                              *)
LEMMA SimulateTimes ==
  ASSUME LoopInv, TimeInv, NEW until \in Limits, Simulate(until)
  PROVE  ListInv' /\ Window(curTick[0] + simQuantum)'
<1>0. /\ BarrierInv /\ PlaceOK /\ QueuesType /\ CallsOK /\ Phases
      /\ mainq \in [Threads -> Seq(Item)] /\ curTick \in [Threads -> Nat] /\ 0 \in Threads
      /\ simQuantum \in Nat /\ until \in Nat /\ CallsOK'
  BY ConstantTypes, MainCalls DEF LoopInv, BarrierInv, QueuesType
<1>1. Gathering /\ Gathering'
  <2>1. Gathering /\ Phases'
    BY <1>0, MainPhases
  <2>2. pc'[0] = "enter"
    BY <1>0, PcMoved DEF Simulate
  <2>3. ~Inside(0)'
    BY <2>2 DEF Inside
  <2>4. QED
    BY <1>0, <2>1, <2>3 DEF Phases, Running
<1>2. \A k \in Threads : curTick[k] = curTick[0]
  BY <1>0, <1>1 DEF TimeInv, Together
<1>3. /\ asyncq' = asyncq /\ curTick' = curTick /\ until >= curTick[0]
      /\ \A k \in Threads : mainq'[k] =
           Inserted(Inserted(Without(mainq[k], Limit), Entry(Limit, until)),
                    Entry(Quantum, curTick[0] + simQuantum))
      /\ pc[0] = "python"
  BY DEF Simulate
<1>4. PICK x : x = Entry(Limit, until)
  OBVIOUS
<1>5. PICK y : y = Entry(Quantum, curTick[0] + simQuantum)
  OBVIOUS
<1>6. /\ x \in Item /\ y \in Item /\ x.event = Limit /\ x.when = until
      /\ y.event = Quantum /\ y.when = curTick[0] + simQuantum /\ Limit # Quantum
  BY <1>0, <1>4, <1>5, EventsApart, EntryFacts
<1>7. ASSUME NEW k \in Threads
      PROVE  /\ Sorted(mainq'[k])
             /\ Content(mainq'[k]) \subseteq Content(mainq[k]) \cup {x, y}
             /\ ~On(mainq[k], Quantum) /\ ~On(asyncq[k], Quantum)
  <2>1. PICK a : a = Without(mainq[k], Limit)
    OBVIOUS
  <2>2. PICK b : b = Inserted(a, x)
    OBVIOUS
  <2>3. a \in Seq(Item) /\ Sorted(a) /\ Content(a) \subseteq Content(mainq[k])
    BY <1>0, <2>1, ListTypes, <1>6, WithoutSorted DEF TimeInv, ListInv
  <2>4. b \in Seq(Item) /\ Sorted(b) /\ Content(b) \subseteq Content(a) \cup {x}
    BY <1>6, <2>2, <2>3, ListTypes, InsertedSorted
  <2>5. /\ Sorted(Inserted(b, y)) /\ Content(Inserted(b, y)) \subseteq Content(b) \cup {y}
    BY <1>6, <2>4, InsertedSorted
  <2>6. mainq'[k] = Inserted(b, y)
    BY <1>3, <1>4, <1>5, <2>1, <2>2
  <2>7. Expected(k) = "nowhere"
    BY <1>3 DEF Expected
  <2>8. QED
    BY <2>3, <2>4, <2>5, <2>6, <2>7 DEF LoopInv, QuantumInv, QuantumAt
<1>8. ListInv'
  <2>1. ASSUME NEW k \in Threads, NEW z \in Content(mainq'[k])
        PROVE  z.when >= curTick'[k]
    <3>1. z \in Content(mainq[k]) \/ z = x \/ z = y
      BY <1>7
    <3>2. curTick[0] + simQuantum >= curTick[0]
      BY <1>0
    <3>3. QED
      BY <1>2, <1>3, <1>6, <3>1, <3>2 DEF TimeInv, ListInv
  <2>2. QED
    BY <1>7, <2>1 DEF ListInv
<1>9. QuantumTicks(curTick[0] + simQuantum)'
  <2>1. ASSUME NEW k \in Threads, NEW z \in Content(mainq'[k]) \cup Content(asyncq'[k]),
               z.event = Quantum
        PROVE  z.when = curTick[0] + simQuantum
    <3>1. z \in Content(mainq[k]) \cup Content(asyncq[k]) => z.event # Quantum
      BY <1>7 DEF On, Content
    <3>2. z = x \/ z = y
      BY <1>3, <1>7, <2>1, <3>1
    <3>3. QED
      BY <1>6, <2>1, <3>2
  <2>2. QED
    BY <1>3, <2>1 DEF QuantumTicks
<1>10. ASSUME NEW k \in Threads
       PROVE  at'[k] # Quantum /\ pc'[k] \notin Inserting /\ ~Started(k)'
  BY <1>0, <1>1, OutsideNext
<1>11. CallTicks(curTick[0] + simQuantum)'
  BY <1>10 DEF CallTicks
<1>12. ClocksIn(curTick[0] + simQuantum)'
  <2>1. /\ curTick[0] <= curTick[0] + simQuantum
        /\ curTick[0] + simQuantum <= curTick[0] + simQuantum
    BY <1>0
  <2>2. QED
    BY <1>2, <1>3, <1>10, <2>1 DEF ClocksIn
<1>13. AsyncTicks(curTick[0] + simQuantum)'
  BY <1>3, <1>10 DEF TimeInv, Window, AsyncTicks
<1>14. QED
  BY <1>8, <1>9, <1>11, <1>12, <1>13 DEF Window

(* The main thread leaves the ticks alone when it returns.                   *)
LEMMA ReturnTimes ==
  ASSUME LoopInv, TimeInv, Return
  PROVE  ListInv' /\ ExitTicks' /\ \A T \in Nat : Window(T) => Window(T)'
<1>0. /\ BarrierInv /\ PlaceOK /\ QueuesType /\ mainq \in [Threads -> Seq(Item)]
  BY DEF LoopInv, BarrierInv, QueuesType
<1>a. /\ UNCHANGED <<asyncq, curTick, at, todo, gen, generation>>
      /\ \A k \in Threads : mainq'[k] = Without(mainq[k], Quantum)
  BY DEF Return, barriers
<1>b. pc[0] = "return" /\ pc'[0] = "python"
  BY <1>0, ConstantTypes, PcMoved DEF Return
<1>c. \A k \in Threads \ {0} : pc'[k] = pc[k]
  BY <1>0, MainCalls DEF OnlyMoves, LoopInv
<1>1. /\ UNCHANGED <<asyncq, curTick, at, todo, gen, generation>>
      /\ \A k \in Threads : mainq'[k] = Without(mainq[k], Quantum)
      /\ pc[0] = "return" /\ pc'[0] = "python"
      /\ \A k \in Threads \ {0} : pc'[k] = pc[k]
  BY <1>a, <1>b, <1>c
<1>2. \A k \in Threads : Sorted(mainq'[k]) /\ Content(mainq'[k]) \subseteq Content(mainq[k])
  BY <1>0, <1>1, WithoutSorted DEF TimeInv, ListInv
<1>3. ListInv'
  BY <1>1, <1>2 DEF TimeInv, ListInv
<1>4. ASSUME NEW k \in Threads
      PROVE  /\ Finished(k)' <=> Finished(k)
             /\ Started(k)' => Started(k)
             /\ pc'[k] \in Inserting => pc[k] \in Inserting
  <2>1. CASE k = 0
    <3>1. at[k] # Quantum
      BY <1>1, <2>1, EventsApart DEF LoopInv, CallsOK, AtRest
    <3>2. QED
      BY <1>1, <2>1, <3>1 DEF Finished, Started, Inserting
  <2>2. CASE k # 0
    BY <1>1, <2>2 DEF Finished, Started, Inserting, Leaving
  <2>3. QED
    BY <2>1, <2>2
<1>5. ASSUME NEW T \in Nat, Window(T)
      PROVE  Window(T)'
  <2>1. QuantumTicks(T)'
    BY <1>1, <1>2, <1>5 DEF Window, QuantumTicks
  <2>2. CallTicks(T)'
    BY <1>1, <1>4, <1>5 DEF Window, CallTicks
  <2>3. ClocksIn(T)'
    BY <1>1, <1>4, <1>5 DEF Window, ClocksIn
  <2>4. AsyncTicks(T)'
    BY <1>1, <1>4, <1>5 DEF Window, AsyncTicks
  <2>5. QED
    BY <2>1, <2>2, <2>3, <2>4 DEF Window
<1>6. ASSUME NEW e \in GlobalExits
      PROVE  \E t \in Nat : SameTick(e, t)'
  <2>1. PICK t \in Nat : SameTick(e, t)
    BY DEF TimeInv, ExitTicks
  <2>2. ASSUME NEW k \in Threads, at'[k] = e, ~Leaving(k)'
        PROVE  curTick'[k] = t
    <3>1. k # 0
      BY <1>1, <2>2, EventsApart DEF LoopInv, CallsOK, AtRest
    <3>2. at[k] = e /\ ~Leaving(k)
      BY <1>1, <2>2, <3>1 DEF Leaving
    <3>3. QED
      BY <1>1, <2>1, <3>2 DEF SameTick
  <2>3. ASSUME NEW k \in Threads, pc'[k] \in Inserting, todo'[k].event = e
        PROVE  todo'[k].when = t
    BY <1>1, <1>4, <2>1, <2>3 DEF SameTick
  <2>4. ASSUME NEW k \in Threads, NEW x \in Content(mainq'[k]) \cup Content(asyncq'[k]), x.event = e
        PROVE  x.when = t
    BY <1>1, <1>2, <2>1, <2>4 DEF SameTick
  <2>5. SameTick(e, t)'
    BY <2>2, <2>3, <2>4 DEF SameTick
  <2>6. QED
    BY <2>5
<1>7. ExitTicks'
  BY <1>6 DEF ExitTicks
<1>8. QED
  BY <1>3, <1>5, <1>7

(* simulate() gives the limit a new tick.                                    *)
LEMMA SimulateExits ==
  ASSUME LoopInv, ExitInv, TimeInv, NEW until \in Limits, Simulate(until)
  PROVE  ExitTicks'
<1>0. /\ BarrierInv /\ PlaceOK /\ QueuesType /\ CallsOK /\ Phases /\ CallsOK'
      /\ mainq \in [Threads -> Seq(Item)] /\ curTick \in [Threads -> Nat] /\ 0 \in Threads
      /\ simQuantum \in Nat /\ until \in Nat
      /\ OnlyMoves(0) /\ at' = at /\ UNCHANGED <<generation, gen>>
  BY ConstantTypes, MainCalls DEF LoopInv, BarrierInv, QueuesType, barriers
<1>1. Gathering /\ Gathering'
  <2>1. Gathering /\ Phases'
    BY <1>0, MainPhases
  <2>2. pc'[0] = "enter"
    BY <1>0, PcMoved DEF Simulate
  <2>3. ~Inside(0)'
    BY <2>2 DEF Inside
  <2>4. QED
    BY <1>0, <2>1, <2>3 DEF Phases, Running
<1>2. /\ asyncq' = asyncq /\ curTick' = curTick
      /\ \A k \in Threads : mainq'[k] =
           Inserted(Inserted(Without(mainq[k], Limit), Entry(Limit, until)),
                    Entry(Quantum, curTick[0] + simQuantum))
      /\ pc[0] = "python"
  BY DEF Simulate
<1>3. PICK x : x = Entry(Limit, until)
  OBVIOUS
<1>4. PICK y : y = Entry(Quantum, curTick[0] + simQuantum)
  OBVIOUS
<1>5. /\ x \in Item /\ y \in Item /\ x.event = Limit /\ x.when = until
      /\ y.event = Quantum
  BY <1>0, <1>3, <1>4, EventsApart, EntryFacts
<1>6. ASSUME NEW k \in Threads
      PROVE  /\ Content(mainq'[k]) \subseteq Content(mainq[k]) \cup {x, y}
             /\ \A z \in Content(mainq'[k]) : z.event = Limit => z = x
  <2>1. PICK a : a = Without(mainq[k], Limit)
    OBVIOUS
  <2>2. PICK b : b = Inserted(a, x)
    OBVIOUS
  <2>3. a \in Seq(Item) /\ Sorted(a) /\ Content(a) \subseteq Content(mainq[k]) /\ ~On(a, Limit)
    <3>1. Once(mainq[k], Limit) /\ Sorted(mainq[k])
      BY DEF ExitInv, Single, TimeInv, ListInv
    <3>2. QED
      BY <1>0, <1>5, <2>1, <3>1, ListTypes, WithoutSorted, WithoutEvents
  <2>4. b \in Seq(Item) /\ Sorted(b) /\ Content(b) \subseteq Content(a) \cup {x}
    BY <1>5, <2>2, <2>3, ListTypes, InsertedSorted
  <2>5. Content(Inserted(b, y)) \subseteq Content(b) \cup {y}
    BY <1>5, <2>4, InsertedSorted
  <2>6. mainq'[k] = Inserted(b, y)
    BY <1>2, <1>3, <1>4, <2>1, <2>2
  <2>7. \A z \in Content(a) : z.event # Limit
    BY <2>3 DEF On, Content
  <2>8. QED
    BY <1>5, <2>3, <2>4, <2>5, <2>6, <2>7, EventsApart
<1>7. ASSUME NEW k \in Threads
      PROVE  /\ pc'[k] \notin Inserting
             /\ at'[k] \in Globals => Leaving(k)'
  <2>1. pc'[k] \notin Inserting
    BY <1>0, <1>1, OutsideNext
  <2>2. at[k] \in Globals => k # 0 /\ Leaving(k)
    BY <1>0, <1>1, <1>2, OutsideFacts, EventsApart DEF CallsOK, AtRest
  <2>3. at[k] \in Globals => Leaving(k)'
    BY <1>0, <2>2 DEF Leaving, OnlyMoves
  <2>4. QED
    BY <1>0, <2>1, <2>3
<1>8. ASSUME NEW e \in GlobalExits
      PROVE  \E t \in Nat : SameTick(e, t)'
  <2>1. CASE e = Limit
    <3>1. ASSUME NEW k \in Threads, NEW z \in Content(mainq'[k]) \cup Content(asyncq'[k]),
                 z.event = e
          PROVE  z.when = until
      <4>1. ~On(asyncq[k], Limit)
        BY DEF ExitInv
      <4>2. z \in Content(mainq'[k])
        BY <1>2, <2>1, <3>1, <4>1 DEF On, Content
      <4>3. QED
        BY <1>5, <1>6, <2>1, <3>1, <4>2
    <3>2. SameTick(e, until)'
      BY <1>7, <3>1, EventsApart DEF SameTick
    <3>3. QED
      BY <1>0, <3>2
  <2>2. CASE e # Limit
    <3>1. PICK t \in Nat : SameTick(e, t)
      BY DEF TimeInv, ExitTicks
    <3>2. ASSUME NEW k \in Threads, NEW z \in Content(mainq'[k]) \cup Content(asyncq'[k]),
                 z.event = e
          PROVE  z.when = t
      <4>1. z \in Content(mainq[k]) \cup Content(asyncq[k])
        BY <1>2, <1>5, <1>6, <2>2, <3>2, EventsApart
      <4>2. QED
        BY <3>1, <3>2, <4>1 DEF SameTick
    <3>3. SameTick(e, t)'
      BY <1>7, <3>2, EventsApart DEF SameTick
    <3>4. QED
      BY <3>3
  <2>3. QED
    BY <2>1, <2>2
<1>9. QED
  BY <1>8 DEF ExitTicks

(* A step keeps the tick of an exit event, unless it creates the event.      *)
LEMMA ExitTickKept ==
  ASSUME LoopInv, TimeInv, NEW i \in Threads, Step(i), NEW e \in GlobalExits,
         NEW t \in Nat, SameTick(e, t), ~(ExitSimLoop(i) /\ e = Exit(i))
  PROVE  SameTick(e, t)'
<1>0. /\ BarrierInv /\ PlaceOK /\ QueuesType /\ CallsOK /\ ListInv
      /\ OnlyMoves(i) /\ \A k \in Threads \ {i} : todo'[k] = todo[k]
  BY OneMoves DEF LoopInv, BarrierInv, TimeInv
<1>1. /\ e \in Globals /\ e # Quantum /\ e # Message /\ e # Work /\ e # Io /\ e # NoEvent
  BY EventsApart
<1>2. ASSUME NEW k \in Threads, NEW x \in Content(mainq'[k]) \cup Content(asyncq'[k]),
             x.event = e
      PROVE  x.when = t
  <2>1. \/ x \in Content(mainq[k]) \cup Content(asyncq[k])
        \/ pc[i] \in Inserting /\ x.event = todo[i].event /\ x.when = todo[i].when
    BY <1>0, <1>1, <1>2, ContentSteps
  <2>2. QED
    BY <1>2, <2>1 DEF SameTick
<1>3. ASSUME NEW k \in Threads, at'[k] = e, ~Leaving(k)'
      PROVE  curTick'[k] = t
  <2>1. CASE at[k] = e
    <3>1. ~(k = i /\ LeaveSecond(i))
      BY <1>0, <1>1, <1>3, AtKept DEF LeaveSecond, PlaceOK
    <3>2. ~Leaving(k)
      BY <1>3, <3>1, LeavingStays
    <3>3. ~(k = i /\ ServiceOne(i))
      BY <1>0, <1>1, <2>1 DEF ServiceOne, CallsOK, AtRest
    <3>4. curTick'[k] = curTick[k]
      BY <1>0, <3>3, ContentSteps
    <3>5. QED
      BY <2>1, <3>2, <3>4 DEF SameTick
  <2>2. CASE at[k] # e
    <3>1. k = i /\ ServiceOne(i)
      BY <1>1, <1>3, <2>2, ComesTo
    <3>2. PICK T \in Nat : Window(T)
      BY DEF TimeInv
    <3>3. /\ Head(mainq[i]) \in Content(mainq[i]) /\ curTick'[i] = Head(mainq[i]).when
          /\ at'[i] = Head(mainq[i]).event
      BY <1>0, <3>1, <3>2, ServiceFacts DEF Window
    <3>4. QED
      BY <1>3, <3>1, <3>3 DEF SameTick
  <2>3. QED
    BY <2>1, <2>2
<1>4. ASSUME NEW j \in Threads, pc'[j] \in Inserting, todo'[j].event = e
      PROVE  todo'[j].when = t
  <2>1. CASE j = i
    <3>1. pc[i] \in Inserting /\ todo'[i].event = todo[i].event /\ todo'[i].when = todo[i].when
      BY <1>1, <1>4, <2>1, CallStep
    <3>2. QED
      BY <1>4, <2>1, <3>1 DEF SameTick
  <2>2. CASE j # i
    BY <1>0, <1>4, <2>2 DEF SameTick, OnlyMoves
  <2>3. QED
    BY <2>1, <2>2
<1>5. QED
  BY <1>2, <1>3, <1>4 DEF SameTick

(* A new exit event gets one tick.                                           *)
LEMMA ExitTickNew ==
  ASSUME LoopInv, ExitInv, NEW i \in Threads, ExitSimLoop(i)
  PROVE  SameTick(Exit(i), curTick[i] + simQuantum)'
<1>0. /\ BarrierInv /\ PlaceOK /\ QueuesType /\ CallsOK /\ Step(i)
  BY DEF LoopInv, BarrierInv, Step
<1>1. /\ pc[i] = "handler" /\ UNCHANGED <<mainq, asyncq, at>>
      /\ \A k \in Threads : at[k] # Exit(i) /\ <<Exit(i), k>> \notin scheduled
  BY DEF ExitSimLoop, Operate, queues, Flagged
<1>2. ASSUME NEW k \in Threads, NEW x \in Content(mainq'[k]) \cup Content(asyncq'[k])
      PROVE  x.event # Exit(i)
  <2>1. Nowhere(k, Exit(i))
    BY <1>1 DEF ExitInv, ExitAt, ExitJustPut
  <2>2. QED
    BY <1>1, <1>2, <2>1 DEF Nowhere, On, Content
<1>3. ASSUME NEW j \in Threads, pc'[j] \in Inserting, todo'[j].event = Exit(i)
      PROVE  todo'[j].when = curTick[i] + simQuantum
  <2>1. CASE j = i
    <3>1. pc[i] \notin Inserting
      BY <1>1 DEF Inserting
    <3>2. QED
      BY <1>0, <1>3, <2>1, <3>1, CallStep
  <2>2. CASE j # i
    <3>1. pc'[j] = pc[j] /\ todo'[j] = todo[j]
      BY <1>0, <2>2, OneMoves DEF OnlyMoves
    <3>2. todo[j].event \in {Quantum, Exit(j), Message}
      BY <1>0, <1>3, <3>1 DEF CallsOK, InCall
    <3>3. QED
      BY <1>3, <2>2, <3>1, <3>2, EventsApart
  <2>3. QED
    BY <2>1, <2>2
<1>4. UNCHANGED curTick
  BY DEF ExitSimLoop, queues
<1>5. PICK t : t = curTick[i] + simQuantum
  OBVIOUS
<1>6. SameTick(Exit(i), t)'
  <2>1. \A k \in Threads : at'[k] # Exit(i)
    BY <1>1
  <2>2. QED
    BY <1>2, <1>3, <1>5, <2>1 DEF SameTick
<1>7. (t = curTick[i] + simQuantum)'
  BY <1>4, <1>5
<1>8. QED
  BY <1>6, <1>7

(* Hence each exit event has one tick after a step.                          *)
LEMMA ExitTicksStep ==
  ASSUME LoopInv, ExitInv, TimeInv, NEW i \in Threads, Step(i)
  PROVE  ExitTicks'
<1>1. ASSUME NEW e \in GlobalExits
      PROVE  \E t \in Nat : SameTick(e, t)'
  <2>1. CASE ExitSimLoop(i) /\ e = Exit(i)
    <3>1. SameTick(e, curTick[i] + simQuantum)'
      <4>1. SameTick(Exit(i), curTick[i] + simQuantum)'
        BY <2>1, ExitTickNew
      <4>2. QED
        BY <2>1, <4>1
    <3>2. curTick[i] + simQuantum \in Nat
      BY ConstantTypes DEF LoopInv, QueuesType
    <3>3. curTick'[i] = curTick[i]
      BY <2>1 DEF ExitSimLoop, queues
    <3>4. QED
      BY <3>1, <3>2, <3>3
  <2>2. CASE ~(ExitSimLoop(i) /\ e = Exit(i))
    <3>1. PICK t \in Nat : SameTick(e, t)
      BY DEF TimeInv, ExitTicks
    <3>2. SameTick(e, t)'
      BY <2>2, <3>1, ExitTickKept
    <3>3. QED
      BY <3>2
  <2>3. QED
    BY <2>1, <2>2
<1>2. QED
  BY <1>1 DEF ExitTicks

(* The clocks are the same once the threads are outside the loop.            *)
LEMMA TogetherStep ==
  ASSUME LoopInv, TimeInv, NEW i \in Threads, Step(i)
  PROVE  Together'
<1>0. /\ BarrierInv /\ CallsOK /\ ListInv
  BY DEF LoopInv, TimeInv
<1>1. SUFFICES ASSUME Gathering'
               PROVE  \A j, k \in Threads : curTick'[j] = curTick'[k]
  BY DEF Together
<1>2. CASE Gathering
  <2>1. ~ServiceOne(i)
    <3>1. Outside(i)
      BY <1>2 DEF Gathering
    <3>2. QED
      BY <3>1 DEF ServiceOne, Outside, Counted, Leaving
  <2>2. \A k \in Threads : curTick'[k] = curTick[k]
    BY <1>0, <2>1, ContentSteps
  <2>3. QED
    BY <1>2, <2>2 DEF TimeInv, Together
<1>3. CASE LoopEnds(i)
  <2>1. /\ pc[i] = "barrier2" /\ at[i] \in GlobalExits /\ numLeft[at[i]] = 1
        /\ curTick' = curTick
    BY <1>3 DEF LoopEnds, SecondBarrier, queues
  <2>2. ASSUME NEW k \in Threads
        PROVE  at[k] = at[i] /\ ~Leaving(k)
    <3>1. CASE k = i
      BY <2>1, <3>1 DEF Leaving
    <3>2. CASE k # i
      BY <1>0, <2>1, <3>2, SecondComplete DEF Leaving
    <3>3. QED
      BY <3>1, <3>2
  <2>3. PICK t \in Nat : SameTick(at[i], t)
    BY <2>1 DEF TimeInv, ExitTicks
  <2>4. \A k \in Threads : curTick[k] = t
    BY <2>2, <2>3 DEF SameTick
  <2>5. QED
    BY <2>1, <2>4
<1>4. QED
  BY <1>1, <1>2, <1>3, GatheringBefore

(* The ticks are preserved by a step of a thread.                            *)
LEMMA TimeStep ==
  ASSUME LoopInv, ExitInv, TimeInv, NEW i \in Threads, Step(i)
  PROVE  TimeInv'
<1>1. PICK T \in Nat : Window(T)
  BY DEF TimeInv
<1>2. ListInv'
  BY <1>1, ListStep DEF TimeInv
<1>3. \E t \in Nat : Window(t)'
  <2>1. CASE QuantumEnds(i)
    <3>1. Window(T + simQuantum)'
      BY <1>1, <2>1, WindowMoves
    <3>2. T + simQuantum \in Nat
      BY ConstantTypes
    <3>3. QED
      BY <3>1, <3>2
  <2>2. CASE ~QuantumEnds(i)
    BY <1>1, <2>2, WindowKept DEF TimeInv
  <2>3. QED
    BY <2>1, <2>2
<1>4. QED
  BY <1>2, <1>3, TogetherStep, ExitTicksStep DEF TimeInv

(* By a step of the main thread outside the loop.                            *)
LEMMA TimeMain ==
  ASSUME LoopInv, ExitInv, TimeInv, Return \/ \E until \in Limits : Simulate(until)
  PROVE  TimeInv'
<1>1. Together'
  <2>1. Gathering
    BY MainPhases DEF LoopInv
  <2>2. curTick' = curTick
    BY DEF Return, Simulate
  <2>3. QED
    BY <2>1, <2>2 DEF TimeInv, Together
<1>2. CASE Return
  <2>1. PICK T \in Nat : Window(T)
    BY DEF TimeInv
  <2>2. QED
    BY <1>1, <1>2, <2>1, ReturnTimes DEF TimeInv
<1>3. ASSUME NEW until \in Limits, Simulate(until)
      PROVE  TimeInv'
  <2>1. ListInv' /\ Window(curTick[0] + simQuantum)'
    BY <1>3, SimulateTimes
  <2>2. (curTick[0] + simQuantum \in Nat)'
    <3>1. curTick' = curTick
      BY <1>3 DEF Simulate
    <3>2. curTick[0] + simQuantum \in Nat
      BY ConstantTypes DEF LoopInv, QueuesType
    <3>3. QED
      BY <3>1, <3>2
  <2>3. QED
    BY <1>1, <1>3, <2>1, <2>2, SimulateExits DEF TimeInv
<1>4. QED
  BY <1>2, <1>3

(* And they hold at the start.                                               *)
LEMMA InitTime == Init => TimeInv
<1> SUFFICES ASSUME Init
             PROVE  TimeInv
  OBVIOUS
<1>1. /\ \A k \in Threads : /\ mainq[k] = <<[event |-> Work, when |-> StartTick]>>
                            /\ asyncq[k] = <<>> /\ curTick[k] = 0
                            /\ at[k] = NoEvent /\ pc[k] \in {"python", "enter"}
      /\ StartTick \in Nat /\ simQuantum \in Nat
  BY ConstantTypes DEF Init
<1>2. ASSUME NEW k \in Threads
      PROVE  /\ Content(mainq[k]) = {[event |-> Work, when |-> StartTick]}
             /\ Content(asyncq[k]) = {} /\ Sorted(mainq[k])
  <2>1. DOMAIN mainq[k] = {1} /\ mainq[k][1] = [event |-> Work, when |-> StartTick]
    BY <1>1
  <2>2. DOMAIN asyncq[k] = {}
    BY <1>1
  <2>3. Sorted(mainq[k])
    BY <2>1 DEF Sorted
  <2>4. QED
    BY <2>1, <2>2, <2>3 DEF Content
<1>3. ASSUME NEW k \in Threads, NEW x \in Content(mainq[k]) \cup Content(asyncq[k])
      PROVE  x.event = Work /\ x.when >= 0
  BY <1>1, <1>2, <1>3
<1>4. ListInv
  BY <1>1, <1>2, <1>3 DEF ListInv
<1>5. Together
  BY <1>1 DEF Together
<1>6. ASSUME NEW e \in GlobalExits
      PROVE  SameTick(e, 0)
  BY <1>1, <1>3, EventsApart DEF SameTick, Inserting
<1>7. Window(0)
  <2>1. QuantumTicks(0)
    BY <1>3, EventsApart DEF QuantumTicks
  <2>2. CallTicks(0)
    BY <1>1 DEF CallTicks, Inserting
  <2>3. ClocksIn(0)
    BY <1>1, EventsApart DEF ClocksIn
  <2>4. AsyncTicks(0)
    BY <1>2 DEF AsyncTicks
  <2>5. QED
    BY <2>1, <2>2, <2>3, <2>4 DEF Window
<1>8. QED
  BY <1>4, <1>5, <1>6, <1>7 DEF TimeInv, ExitTicks

(* What Spec keeps true of the clocks and the ticks.                         *)
ClockInv == LoopInv /\ ExitInv /\ TimeInv

(* A step that changes nothing.                                              *)
LEMMA NothingTicks ==
  ASSUME ClockInv, UNCHANGED vars
  PROVE  ExitInv' /\ TimeInv'
<1>1. UNCHANGED <<mainq, asyncq, curTick, scheduled, numLeft, generation, gen, pc, at, todo>>
  BY DEF ClockInv, vars, queues, barriers
<1>2. ExitInv'
  BY <1>1 DEF ClockInv, ExitInv, ExitAt, ExitNotYet, ExitJustPut, Single, Nowhere, On, Once
<1>3. \A k \in Threads : /\ Leaving(k)' <=> Leaving(k)
                         /\ Finished(k)' <=> Finished(k)
                         /\ Started(k)' <=> Started(k)
  <2>1. TAKE k \in Threads
  <2>2. Leaving(k)' <=> Leaving(k)
    BY <1>1 DEF Leaving
  <2>3. Finished(k)' <=> Finished(k)
    BY <1>1 DEF Finished
  <2>4. QED
    BY <1>1, <2>2, <2>3 DEF Started
<1>4. ListInv' /\ ExitTicks'
  BY <1>1, <1>3 DEF ClockInv, TimeInv, ListInv, ExitTicks, SameTick
<1>5. Together'
  BY <1>1 DEF ClockInv, TimeInv, Together, Gathering, Outside, Counted, Leaving
<1>6. ASSUME NEW T \in Nat, Window(T)
      PROVE  Window(T)'
  <2>1. QuantumTicks(T)' /\ CallTicks(T)'
    BY <1>1, <1>6 DEF Window, QuantumTicks, CallTicks
  <2>2. ClocksIn(T)' /\ AsyncTicks(T)'
    BY <1>1, <1>3, <1>6 DEF Window, ClocksIn, AsyncTicks
  <2>3. QED
    BY <2>1, <2>2 DEF Window
<1>7. QED
  BY <1>2, <1>4, <1>5, <1>6 DEF ClockInv, TimeInv

(* The invariant is inductive.                                               *)
LEMMA NextClock == ClockInv /\ [Next]_vars => ClockInv'
<1> SUFFICES ASSUME ClockInv, [Next]_vars
             PROVE  ClockInv'
  OBVIOUS
<1>1. LoopInv'
  BY NextLoop DEF ClockInv
<1>2. CASE Return \/ \E until \in Limits : Simulate(until)
  BY <1>1, <1>2, ExitMain, TimeMain DEF ClockInv
<1>3. ASSUME NEW i \in Threads, Step(i)
      PROVE  ClockInv'
  BY <1>1, <1>3, ExitStep, TimeStep DEF ClockInv
<1>4. CASE UNCHANGED vars
  BY <1>1, <1>4, NothingTicks DEF ClockInv
<1>5. QED
  BY <1>2, <1>3, <1>4 DEF Next

-----------------------------------------------------------------------------
(* Nothing is late.                                                          *)

(* While a thread processes a global event, all are at it, and stay.         *)
LEMMA AllProcess ==
  ASSUME LoopInv, NEW i \in Threads, Processing(i), NEW k \in Threads
  PROVE  /\ at[k] = at[i] /\ ~Leaving(k)
         /\ at[i] = Quantum => Finished(k)
<1>1. BarrierInv /\ Role(i, at[i]) = "alone" /\ at[i] \in Globals
  BY DEF LoopInv, Processing, Role, AloneAt
<1>2. Finishing(at[i])
  BY <1>1 DEF BarrierInv, BarrierOK, Collecting
<1>3. Role(k, at[i]) \in {"between", "alone", "second"}
  BY <1>2 DEF Finishing
<1>4. at[k] = at[i] /\ ~Leaving(k)
  BY <1>3 DEF Role, AloneAt, Leaving
<1>5. at[i] = Quantum => Finished(k)
  BY <1>3, <1>4 DEF Role, AloneAt, Finished
<1>6. QED
  BY <1>4, <1>5

(* Hence their clocks are the same.                                          *)
LEMMA ProcessedTogether ==
  ASSUME ClockInv, NEW i \in Threads, Processing(i)
  PROVE  \A k \in Threads : curTick[k] = curTick[i]
<1>0. LoopInv /\ simQuantum \in Nat /\ \A k \in Threads : curTick[k] \in Nat
  BY ConstantTypes DEF ClockInv, LoopInv, QueuesType
<1>1. CASE at[i] = Quantum
  <2>1. PICK T \in Nat : Window(T)
    BY DEF ClockInv, TimeInv
  <2>2. \A k \in Threads : at[k] = Quantum /\ Finished(k)
    BY <1>0, <1>1, AllProcess
  <2>3. \A k \in Threads : curTick[k] + simQuantum = T
    BY <2>1, <2>2 DEF Window, ClocksIn
  <2>4. QED
    BY <1>0, <2>3
<1>2. CASE at[i] # Quantum
  <2>1. at[i] \in GlobalExits
    BY <1>2 DEF Processing, Globals
  <2>2. PICK t \in Nat : SameTick(at[i], t)
    BY <2>1 DEF ClockInv, TimeInv, ExitTicks
  <2>3. \A k \in Threads : at[k] = at[i] /\ ~Leaving(k)
    BY <1>0, AllProcess
  <2>4. \A k \in Threads : curTick[k] = t
    BY <2>2, <2>3 DEF SameTick
  <2>5. QED
    BY <2>4
<1>3. QED
  BY <1>1, <1>2

(* The invariant of the clocks says that nothing is late.                    *)
LEMMA ClocksInTime == ClockInv => InTime
<1> SUFFICES ASSUME ClockInv
             PROVE  InTime
  OBVIOUS
<1>0. /\ LoopInv /\ QueuesType /\ CallsOK /\ simQuantum \in Nat
      /\ \A k \in Threads : curTick[k] \in Nat
  BY ConstantTypes DEF ClockInv, LoopInv, QueuesType
<1>1. ASSUME NEW i \in Threads, pc[i] = "loop"
      PROVE  mainq[i] # <<>> /\ Head(mainq[i]).when >= curTick[i]
  <2>1. mainq[i] # <<>> /\ mainq[i] \in Seq(Item)
    BY <1>0, <1>1, LoopHasEvent
  <2>2. Head(mainq[i]) \in Content(mainq[i])
    BY <2>1 DEF Content
  <2>3. QED
    BY <2>1, <2>2 DEF ClockInv, TimeInv, ListInv
<1>2. ASSUME NEW i \in Threads, pc[i] = "insert"
      PROVE  todo[i].when >= curTick[Head(todo[i].queues)]
  <2>1. PICK T \in Nat : Window(T)
    BY DEF ClockInv, TimeInv
  <2>2. pc[i] \in Inserting
    BY <1>2 DEF Inserting
  <2>3. todo[i].when \in Nat /\ Head(todo[i].queues) \in Threads
    BY <1>0, <2>2, CallFacts
  <2>4. todo[i].when >= T
    BY <2>1, <2>2, <2>3 DEF Window, CallTicks
  <2>5. curTick[Head(todo[i].queues)] <= T
    BY <2>1, <2>3 DEF Window, ClocksIn
  <2>6. PICK c \in Nat : c = curTick[Head(todo[i].queues)]
    BY <1>0, <2>3
  <2>7. QED
    BY <2>3, <2>4, <2>5, <2>6
<1>3. QED
  BY <1>1, <1>2, ProcessedTogether DEF InTime

(* In every behaviour, and for any number of queues and any quantum: a       *)
(* thread in the loop has an event that is not in its past, nobody schedules *)
(* into the past of another queue (the assertions of doSimLoop() and         *)
(* schedule()), and a global event takes place at one tick everywhere.       *)
THEOREM NothingIsLate == Spec => []InTime
<1>1. Init => ClockInv
  BY InitLoop, InitExit, InitTime DEF ClockInv
<1>2. QED
  BY <1>1, NextClock, ClocksInTime, PTL DEF Spec

-----------------------------------------------------------------------------
(* The order of global events: the mutex of the global events orders the     *)
(* exit events of one tick, and only the limit goes past it.                 *)

(* The last event e on the list comes before one of event f.                 *)
Before(list, e, f) ==
  \E m, n \in DOMAIN list : m < n /\ list[m].event = e /\ list[n].event = f

(* On queue k event e comes before f: it is there already, or it will when   *)
(* the later of the two is merged, which goes in front.                      *)
Newer(k, e, f) ==
  \/ Before(mainq[k], e, f)
  \/ On(asyncq[k], e) /\ On(mainq[k], f)
  \/ Before(asyncq[k], f, e)

(* Both are on queue k, at one tick.                                         *)
Tied(k, e, f) ==
  \E x, y \in Content(mainq[k]) \cup Content(asyncq[k]) :
    x.event = e /\ y.event = f /\ x.when = y.when

OneWay(e, f) == \A k \in Threads : Tied(k, e, f) => Newer(k, e, f)

(* Two exit events of one tick have one order on all queues, and the one     *)
(* that is being scheduled comes first.                                      *)
OrderInv ==
  \A i, j \in Threads : i # j =>
    /\ OneWay(Exit(i), Exit(j)) \/ OneWay(Exit(j), Exit(i))
    /\ pc[i] \in {"insert", "flag"} /\ todo[i].event = Exit(i) => OneWay(Exit(i), Exit(j))

(* Whoever schedules a global event holds the mutex.                         *)
MutexInv ==
  \A i \in Threads :
    pc[i] \in {"insert", "flag"} /\ todo[i].event # Message => globalQ = i

(* Two events that are both left stay in their order.                        *)
LEMMA RemainsBefore ==
  ASSUME NEW list \in Seq(Item), NEW d \in Remains(list), NEW e, NEW f,
         Before(list, e, f), Once(list, e), Once(list, f), On(d, e), On(d, f)
  PROVE  Before(d, e, f)
<1>1. PICK g \in [DOMAIN d -> DOMAIN list] :
        /\ \A n \in DOMAIN d : d[n] = list[g[n]]
        /\ \A a, b \in DOMAIN d : a < b => g[a] < g[b]
        /\ \A a \in DOMAIN d : g[a] \in Int /\ a \in Int
  BY RemainsIs
<1>2. PICK p, q \in DOMAIN list : p < q /\ list[p].event = e /\ list[q].event = f
  BY DEF Before
<1>3. PICK a, b \in DOMAIN d : d[a].event = e /\ d[b].event = f
  BY DEF On
<1>4. g[a] = p /\ g[b] = q
  BY <1>1, <1>2, <1>3 DEF Once
<1>5. a < b
  BY <1>1, <1>2, <1>4
<1>6. QED
  BY <1>3, <1>5 DEF Before

(* A list with one entry more keeps the order of the others.                 *)
LEMMA PutBefore ==
  ASSUME NEW list \in Seq(Item), NEW d, NEW m \in 0 .. Len(list), NEW x, Put(list, d, m, x),
         NEW e, NEW f, Before(list, e, f)
  PROVE  Before(d, e, f)
<1> DEFINE L == Len(list)
<1>1. /\ L \in Nat /\ m \in Int /\ 0 <= m /\ m <= L
      /\ DOMAIN list = 1 .. L /\ DOMAIN d = 1 .. L + 1
      /\ \A n \in 1 .. L + 1 :
           d[n] = IF n <= m THEN list[n] ELSE IF n = m + 1 THEN x ELSE list[n - 1]
  BY DEF Put
<1> HIDE DEF L
<1>2. PICK a, b \in 1 .. L : a < b /\ list[a].event = e /\ list[b].event = f
  BY <1>1 DEF Before
<1>a. ASSUME NEW c \in 1 .. L
      PROVE  \E h \in 1 .. L + 1 : d[h] = list[c] /\ h = IF c <= m THEN c ELSE c + 1
  <2>1. CASE c <= m
    <3>1. c \in 1 .. L + 1 /\ d[c] = list[c]
      BY <1>1, <2>1
    <3>2. QED
      BY <2>1, <3>1
  <2>2. CASE ~(c <= m)
    <3>1. c + 1 \in 1 .. L + 1 /\ ~(c + 1 <= m) /\ c + 1 # m + 1 /\ (c + 1) - 1 = c
      BY <1>1, <2>2
    <3>2. d[c + 1] = list[c]
      BY <1>1, <3>1
    <3>3. QED
      BY <2>2, <3>1, <3>2
  <2>3. QED
    BY <2>1, <2>2
<1>3. PICK g \in 1 .. L + 1 : d[g] = list[a] /\ g = IF a <= m THEN a ELSE a + 1
  BY <1>a
<1>4. PICK h \in 1 .. L + 1 : d[h] = list[b] /\ h = IF b <= m THEN b ELSE b + 1
  BY <1>a
<1>5. g < h
  BY <1>1, <1>2, <1>3, <1>4
<1>6. QED
  BY <1>1, <1>2, <1>3, <1>4, <1>5 DEF Before

(* So does one with an entry less.                                           *)
LEMMA DroppedBefore ==
  ASSUME NEW list \in Seq(Item), NEW d, NEW p \in DOMAIN list, Dropped(list, d, p),
         NEW e, NEW f, list[p].event # e, list[p].event # f, Before(list, e, f)
  PROVE  Before(d, e, f)
<1> DEFINE L == Len(list)
<1>1. /\ L \in Nat /\ p \in 1 .. L
      /\ DOMAIN list = 1 .. L /\ DOMAIN d = 1 .. L - 1
      /\ \A n \in 1 .. L - 1 : d[n] = IF n < p THEN list[n] ELSE list[n + 1]
  BY DEF Dropped
<1> HIDE DEF L
<1>2. PICK a, b \in 1 .. L : a < b /\ list[a].event = e /\ list[b].event = f
  BY <1>1 DEF Before
<1>a. a # p /\ b # p
  BY <1>2
<1>3. PICK g \in 1 .. L - 1 : d[g] = list[a] /\ g = IF a < p THEN a ELSE a - 1
  BY <1>1, <1>2, <1>a
<1>4. PICK h \in 1 .. L - 1 : d[h] = list[b] /\ h = IF b < p THEN b ELSE b - 1
  BY <1>1, <1>2, <1>a
<1>5. g < h
  BY <1>1, <1>2, <1>a, <1>3, <1>4
<1>6. QED
  BY <1>1, <1>2, <1>3, <1>4, <1>5 DEF Before

(* Inserted() puts an event in front of those of its tick and priority.      *)
LEMMA InsertedBefore ==
  ASSUME NEW list \in Seq(Item), NEW x \in Item
  PROVE  /\ Content(list) \cup {x} \subseteq Content(Inserted(list, x))
         /\ \A e, f : Before(list, e, f) => Before(Inserted(list, x), e, f)
         /\ \A y \in Content(list) : ~Earlier(y, x) =>
              Before(Inserted(list, x), x.event, y.event)
<1> DEFINE L == Len(list)
<1>1. PICK m \in 0 .. Len(list) :
        /\ Put(list, Inserted(list, x), m, x)
        /\ \A n \in 1 .. m : Earlier(list[n], x)
  BY InsertedIs
<1>2. PICK d : d = Inserted(list, x)
  OBVIOUS
<1>3. /\ L \in Nat /\ m \in Int /\ 0 <= m /\ m <= L
      /\ DOMAIN list = 1 .. L /\ DOMAIN d = 1 .. L + 1
      /\ \A n \in 1 .. L + 1 :
           d[n] = IF n <= m THEN list[n] ELSE IF n = m + 1 THEN x ELSE list[n - 1]
  BY <1>1, <1>2 DEF Put
<1>4. \A n \in 1 .. m : Earlier(list[n], x)
  BY <1>1
<1>5. \A e, f : Before(list, e, f) => Before(d, e, f)
  BY <1>1, <1>2, PutBefore
<1> HIDE DEF L
<1>6. m + 1 \in 1 .. L + 1 /\ d[m + 1] = x
  BY <1>3
<1>7. ASSUME NEW q \in 1 .. L
      PROVE  \E g \in 1 .. L + 1 : d[g] = list[q] /\ (~Earlier(list[q], x) => m + 1 < g)
  <2>1. CASE q <= m
    <3>1. q \in 1 .. L + 1 /\ d[q] = list[q] /\ q \in 1 .. m
      BY <1>3, <2>1
    <3>2. QED
      BY <1>4, <3>1
  <2>2. CASE ~(q <= m)
    <3>1. q + 1 \in 1 .. L + 1 /\ q + 1 > m + 1 /\ d[q + 1] = list[q]
      BY <1>3, <2>2
    <3>2. QED
      BY <3>1
  <2>3. QED
    BY <2>1, <2>2
<1>8. Content(list) \cup {x} \subseteq Content(d)
  <2>1. \A q \in 1 .. L : list[q] \in Content(d)
    <3>1. TAKE q \in 1 .. L
    <3>2. PICK g \in 1 .. L + 1 : d[g] = list[q]
      BY <1>7
    <3>3. QED
      BY <1>3, <3>2 DEF Content
  <2>2. x \in Content(d)
    BY <1>3, <1>6 DEF Content
  <2>3. QED
    BY <1>3, <2>1, <2>2 DEF Content
<1>9. ASSUME NEW y \in Content(list), ~Earlier(y, x)
      PROVE  Before(d, x.event, y.event)
  <2>1. PICK q \in 1 .. L : y = list[q]
    BY <1>3 DEF Content
  <2>2. PICK g \in 1 .. L + 1 : d[g] = y /\ m + 1 < g
    BY <1>7, <1>9, <2>1
  <2>3. QED
    BY <1>3, <1>6, <2>2 DEF Before
<1>10. QED
  BY <1>2, <1>5, <1>8, <1>9

(* Append() puts it behind all.                                              *)
LEMMA AppendBefore ==
  ASSUME NEW list \in Seq(Item), NEW x \in Item
  PROVE  /\ \A e, f : Before(list, e, f) => Before(Append(list, x), e, f)
         /\ \A f : On(list, f) => Before(Append(list, x), f, x.event)
<1> DEFINE L == Len(list)
<1>1. Put(list, Append(list, x), Len(list), x)
  BY AppendIs
<1>2. PICK d : d = Append(list, x)
  OBVIOUS
<1>3. /\ L \in Nat /\ DOMAIN list = 1 .. L /\ DOMAIN d = 1 .. L + 1
      /\ d[L + 1] = x /\ \A n \in 1 .. L : d[n] = list[n]
  BY <1>1, <1>2 DEF Put
<1>4. \A e, f : Before(list, e, f) => Before(d, e, f)
  BY <1>1, <1>2, PutBefore
<1> HIDE DEF L
<1>5. ASSUME NEW f, On(list, f)
      PROVE  Before(d, f, x.event)
  <2>1. PICK n \in 1 .. L : list[n].event = f
    BY <1>3, <1>5 DEF On
  <2>2. n \in 1 .. L + 1 /\ L + 1 \in 1 .. L + 1 /\ n < L + 1
    BY <1>3
  <2>3. QED
    BY <1>3, <2>1, <2>2 DEF Before
<1>6. QED
  BY <1>2, <1>4, <1>5

(* A removal of another event keeps the order; so does Tail(), as long as    *)
(* the events are still there.                                               *)
LEMMA RemovedBefore ==
  ASSUME NEW list \in Seq(Item), NEW e, NEW f, Before(list, e, f)
  PROVE  /\ \A g : g # e /\ g # f => Before(Without(list, g), e, f)
         /\ /\ Once(list, e) /\ Once(list, f)
            /\ On(Tail(list), e) /\ On(Tail(list), f)
            => Before(Tail(list), e, f)
<1>1. ASSUME NEW g, g # e, g # f
      PROVE  Before(Without(list, g), e, f)
  BY <1>1, WithoutIs, DroppedBefore
<1>2. ASSUME Once(list, e), Once(list, f), On(Tail(list), e), On(Tail(list), f)
      PROVE  Before(Tail(list), e, f)
  <2>1. list # <<>>
    BY DEF Before
  <2>2. Dropped(list, Tail(list), 1) /\ 1 \in DOMAIN list
    BY <2>1, TailIs
  <2>3. list[1].event # e /\ list[1].event # f
    BY <1>2, <2>2, DroppedEvents
  <2>4. QED
    BY <2>2, <2>3, DroppedBefore
<1>3. QED
  BY <1>1, <1>2

(* Events of one tick and one priority.                                      *)
TiesOnly(k, e, f) ==
  \A x, y \in Content(mainq[k]) \cup Content(asyncq[k]) :
    x.event = e /\ y.event = f => x.when = y.when /\ Priority[e] = Priority[f]

(* A merge puts two of them in the order that they have.                     *)
LEMMA MergedBefore ==
  ASSUME QueuesType, NEW k \in Threads, NEW e, NEW f, TiesOnly(k, e, f), Newer(k, e, f)
  PROVE  Before(Merged(k), e, f)
<1> DEFINE L == Len(asyncq[k])
           g == MergeFrom(k)
           Has(n) == /\ Content(mainq[k]) \subseteq Content(g[n])
                     /\ \A p \in 1 .. L : p <= n => asyncq[k][p] \in Content(g[n])
           Subset(n) == Content(g[n]) \subseteq Content(mainq[k]) \cup Content(asyncq[k])
           First(n) ==
             /\ Before(mainq[k], e, f) => Before(g[n], e, f)
             /\ \A p \in 1 .. L : p <= n /\ asyncq[k][p].event = e =>
                  /\ On(mainq[k], f) => Before(g[n], e, f)
                  /\ \A r \in 1 .. L : r < p /\ asyncq[k][r].event = f => Before(g[n], e, f)
           T == {n \in 0 .. L : Has(n) /\ Subset(n) /\ First(n)}
<1>1. /\ Merged(k) = g[L] /\ L \in Nat /\ g \in [0 .. L -> Seq(Item)] /\ g[0] = mainq[k]
      /\ \A n \in 0 .. L - 1 : /\ asyncq[k][n + 1] \in Item
                               /\ g[n + 1] = Inserted(g[n], asyncq[k][n + 1])
      /\ DOMAIN asyncq[k] = 1 .. L
  <2>1. DOMAIN asyncq[k] = 1 .. L
    BY DEF QueuesType
  <2>2. QED
    BY <2>1, MergeEquation
<1> HIDE DEF g, L
<1>2. 0 \in T
  <2>1. \A p \in 1 .. L : ~(p <= 0)
    BY <1>1
  <2>2. QED
    BY <1>1, <2>1
<1>3. ASSUME NEW n \in 0 .. L - 1, n \in T
      PROVE  n + 1 \in T
  <2>a. n + 1 \in 0 .. L /\ n + 1 \in 1 .. L /\ n \in 0 .. L
    BY <1>1
  <2>b. \A p \in 1 .. L : p <= n + 1 => p <= n \/ p = n + 1
    BY <1>1
  <2>1. PICK x \in Item : x = asyncq[k][n + 1]
    BY <1>1
  <2>2. /\ g[n] \in Seq(Item) /\ g[n + 1] = Inserted(g[n], x)
        /\ x \in Content(asyncq[k])
    BY <1>1, <2>a, <2>1 DEF Content
  <2>3. PICK a \in Seq(Item) : a = g[n]
    BY <2>2
  <2>4. PICK b : b = g[n + 1]
    OBVIOUS
  <2>5. /\ Content(a) \cup {x} \subseteq Content(b)
        /\ Before(a, e, f) => Before(b, e, f)
        /\ \A y \in Content(a) : ~Earlier(y, x) => Before(b, x.event, y.event)
    BY <2>2, <2>3, <2>4, InsertedBefore
  <2>6. Content(b) \subseteq Content(a) \cup {x}
    BY <2>2, <2>3, <2>4, InsertedIs, PutContent
  <2>7. Has(n + 1) /\ Subset(n + 1)
    <3>1. Content(mainq[k]) \subseteq Content(b)
      BY <1>3, <2>3, <2>5
    <3>2. ASSUME NEW p \in 1 .. L, p <= n + 1
          PROVE  asyncq[k][p] \in Content(b)
      BY <1>3, <2>b, <2>1, <2>3, <2>5, <3>2
    <3>3. Content(b) \subseteq Content(mainq[k]) \cup Content(asyncq[k])
      BY <1>3, <2>2, <2>3, <2>6
    <3>4. QED
      BY <2>4, <3>1, <3>2, <3>3
  <2>8. ASSUME x.event = e, NEW y \in Content(a), y.event = f
        PROVE  Before(b, e, f)
    <3>1. y \in Content(mainq[k]) \cup Content(asyncq[k])
      BY <1>3, <2>3, <2>8
    <3>2. x.when = y.when /\ Priority[e] = Priority[f]
      BY <2>2, <2>8, <3>1 DEF TiesOnly
    <3>3. x \in Item /\ y \in Item
      BY <2>3, <2>8 DEF Content
    <3>4. ~Earlier(y, x)
      BY <2>8, <3>2, <3>3, EarlierFacts DEF Earlier, Item
    <3>5. QED
      BY <2>5, <2>8, <3>4
  <2>9. First(n + 1)
    <3>1. Before(mainq[k], e, f) => Before(b, e, f)
      BY <1>3, <2>3, <2>5
    <3>2. ASSUME NEW p \in 1 .. L, p <= n + 1, asyncq[k][p].event = e, On(mainq[k], f)
          PROVE  Before(b, e, f)
      <4>1. CASE p <= n
        BY <1>3, <2>3, <2>5, <3>2, <4>1
      <4>2. CASE p = n + 1
        <5>1. PICK y \in Content(mainq[k]) : y.event = f
          BY <3>2 DEF On, Content
        <5>2. y \in Content(a)
          BY <1>3, <2>3, <5>1
        <5>3. QED
          BY <2>1, <2>8, <3>2, <4>2, <5>1, <5>2
      <4>3. QED
        BY <2>b, <3>2, <4>1, <4>2
    <3>3. ASSUME NEW p \in 1 .. L, p <= n + 1, asyncq[k][p].event = e,
                 NEW r \in 1 .. L, r < p, asyncq[k][r].event = f
          PROVE  Before(b, e, f)
      <4>1. CASE p <= n
        BY <1>3, <2>3, <2>5, <3>3, <4>1
      <4>2. CASE p = n + 1
        <5>1. r <= n
          BY <1>1, <3>3, <4>2
        <5>2. asyncq[k][r] \in Content(a)
          BY <1>3, <2>3, <5>1
        <5>3. QED
          BY <2>1, <2>8, <3>3, <4>2, <5>2
      <4>3. QED
        BY <2>b, <3>3, <4>1, <4>2
    <3>4. QED
      BY <2>4, <3>1, <3>2, <3>3
  <2>10. QED
    BY <2>a, <2>7, <2>9
<1>4. L \in T
  <2> HIDE DEF T
  <2>1. \A n \in 0 .. L : n \in T
    BY <1>1, <1>2, <1>3, UpInduction
  <2>2. QED
    BY <1>1, <2>1
<1>5. First(L) /\ Has(L)
  BY <1>4
<1>6. CASE Before(mainq[k], e, f)
  BY <1>1, <1>5, <1>6
<1>7. CASE On(asyncq[k], e) /\ On(mainq[k], f)
  <2>1. PICK p \in 1 .. L : asyncq[k][p].event = e
    BY <1>1, <1>7 DEF On
  <2>2. p <= L
    BY <1>1
  <2>3. QED
    BY <1>1, <1>5, <1>7, <2>1, <2>2
<1>8. CASE Before(asyncq[k], f, e)
  <2>1. PICK r, p \in 1 .. L : r < p /\ asyncq[k][r].event = f /\ asyncq[k][p].event = e
    BY <1>1, <1>8 DEF Before
  <2>2. p <= L
    BY <1>1
  <2>3. QED
    BY <1>1, <1>5, <2>1, <2>2
<1>9. QED
  BY <1>6, <1>7, <1>8 DEF Newer

(* An entry in front of the others.                                          *)
LEMMA OnContent ==
  ASSUME NEW list, NEW e
  PROVE  On(list, e) <=> \E x \in Content(list) : x.event = e
BY DEF On, Content

(* Two exit events on a queue: each is there once, and they have one tick    *)
(* there if they have one entry each of the same tick.                       *)
LEMMA PairFacts ==
  ASSUME LoopInv, ExitInv, TimeInv, NEW k \in Threads,
         NEW e \in GlobalExits, NEW f \in GlobalExits, Tied(k, e, f)
  PROVE  Single(k, e) /\ Single(k, f) /\ TiesOnly(k, e, f)
<1>1. \A g \in GlobalExits : Single(k, g)
  BY DEF ExitInv, ExitAt, GlobalExits
<1>2. PICK s \in Nat : SameTick(e, s)
  BY DEF TimeInv, ExitTicks
<1>3. PICK t \in Nat : SameTick(f, t)
  BY DEF TimeInv, ExitTicks
<1>4. s = t
  BY <1>2, <1>3 DEF Tied, SameTick
<1>5. Priority[e] = Priority[f]
  BY EventsApart DEF Priority
<1>6. TiesOnly(k, e, f)
  BY <1>2, <1>3, <1>4, <1>5 DEF SameTick, TiesOnly
<1>7. QED
  BY <1>1, <1>6

(* A step that does not put one of them on queue k keeps their order there.  *)
LEMMA NewerStays ==
  ASSUME LoopInv, ExitInv, TimeInv, NEW i \in Threads, Step(i), NEW k \in Threads,
         NEW e \in GlobalExits, NEW f \in GlobalExits, e # f,
         AsyncInsert(i) => Head(todo[i].queues) # k \/ todo[i].event \notin {e, f},
         Tied(k, e, f) => Newer(k, e, f), Tied(k, e, f)'
  PROVE  Newer(k, e, f)'
<1>0. /\ QueuesType /\ CallsOK /\ ListInv
      /\ mainq \in [Threads -> Seq(Item)] /\ asyncq \in [Threads -> Seq(Item)]
      /\ e # Work /\ e # Io /\ f # Work /\ f # Io
  BY EventsApart DEF LoopInv, QueuesType, TimeInv
<1>1. /\ On(mainq'[k], e) \/ On(asyncq'[k], e)
      /\ On(mainq'[k], f) \/ On(asyncq'[k], f)
  BY OnContent DEF Tied, Content, On
<1>2. ASSUME mainq'[k] = mainq[k], asyncq'[k] = asyncq[k]
      PROVE  Newer(k, e, f)'
  BY <1>2 DEF Tied, Newer
<1>3. ASSUME HandleAsyncInsertions(i), k = i
      PROVE  Newer(k, e, f)'
  <2>1. mainq'[k] = Merged(k) /\ asyncq'[k] = <<>>
    BY <1>0, <1>3 DEF HandleAsyncInsertions
  <2>2. Content(mainq'[k]) \subseteq Content(mainq[k]) \cup Content(asyncq[k])
    BY <1>0, <2>1, MergedSorted DEF ListInv
  <2>3. Content(asyncq'[k]) = {}
    BY <2>1 DEF Content
  <2>4. Tied(k, e, f)
    BY <2>2, <2>3 DEF Tied
  <2>5. Before(Merged(k), e, f)
    BY <1>0, <2>4, PairFacts, MergedBefore
  <2>6. QED
    BY <2>1, <2>5 DEF Newer
<1>4. ASSUME ServiceOne(i), k = i
      PROVE  Newer(k, e, f)'
  <2>1. mainq[k] # <<>> /\ mainq[k] \in Seq(Item)
    BY <1>0, <1>4, LoopHasEvent DEF ServiceOne
  <2>2. mainq'[k] = Tail(mainq[k]) /\ asyncq'[k] = asyncq[k]
    BY <1>0, <1>4 DEF ServiceOne
  <2>3. Content(mainq'[k]) \subseteq Content(mainq[k])
    BY <2>1, <2>2, TailIs, DroppedContent
  <2>4. Tied(k, e, f)
    BY <2>2, <2>3 DEF Tied
  <2>5. Newer(k, e, f) /\ Single(k, e) /\ Single(k, f)
    BY <2>4, PairFacts
  <2>6. \A g : On(mainq'[k], g) => On(mainq[k], g)
    BY <2>3, OnContent
  <2>7. CASE Before(mainq[k], e, f)
    <3>1. On(mainq[k], e) /\ On(mainq[k], f)
      BY <2>7 DEF Before, On
    <3>2. On(Tail(mainq[k]), e) /\ On(Tail(mainq[k]), f)
      BY <1>1, <2>2, <2>5, <3>1 DEF Single
    <3>3. Before(Tail(mainq[k]), e, f)
      BY <2>1, <2>5, <2>7, <3>2, RemovedBefore DEF Single
    <3>4. QED
      BY <2>2, <3>3 DEF Newer
  <2>8. CASE On(asyncq[k], e) /\ On(mainq[k], f)
    BY <1>1, <2>2, <2>5, <2>8 DEF Newer, Single
  <2>9. CASE Before(asyncq[k], f, e)
    BY <2>2, <2>9 DEF Newer
  <2>10. QED
    BY <2>5, <2>7, <2>8, <2>9 DEF Newer
<1>5. ASSUME NEW x, Inserts(k, x)
      PROVE  Newer(k, e, f)'
  <2>1. /\ mainq'[k] = Inserted(mainq[k], x)
        /\ mainq[k] \in Seq(Item) /\ x \in Item /\ x.event # e /\ x.event # f
    BY <1>0, <1>5 DEF Inserts
  <2>2. PICK rest \in Remains(asyncq[k]) : asyncq' = [asyncq EXCEPT ![k] = rest]
    BY <1>5 DEF Inserts
  <2>3. asyncq'[k] = rest /\ Content(rest) \subseteq Content(asyncq[k])
    BY <1>0, <2>2, RemainsFacts
  <2>4. Content(mainq'[k]) \subseteq Content(mainq[k]) \cup {x}
    BY <1>0, <2>1, InsertedSorted DEF ListInv
  <2>5. Tied(k, e, f)
    BY <2>1, <2>3, <2>4 DEF Tied
  <2>6. /\ Before(mainq[k], e, f) => Before(mainq'[k], e, f)
        /\ \A g \in {e, f} : On(mainq'[k], g) <=> On(mainq[k], g)
    BY <2>1, InsertedBefore, InsertedEvents
  <2>7. Newer(k, e, f) /\ Single(k, e) /\ Single(k, f)
    BY <2>5, PairFacts
  <2>8. CASE On(asyncq[k], e) /\ On(mainq[k], f)
    BY <1>1, <2>6, <2>7, <2>8 DEF Newer, Single
  <2>9. CASE Before(asyncq[k], f, e)
    <3>1. On(asyncq[k], e) /\ On(asyncq[k], f)
      BY <2>9 DEF Before, On
    <3>2. On(rest, e) /\ On(rest, f)
      BY <1>1, <2>3, <2>6, <2>7, <3>1 DEF Single
    <3>3. Before(rest, f, e)
      BY <1>0, <2>2, <2>7, <2>9, <3>2, RemainsBefore DEF Single
    <3>4. QED
      BY <2>3, <3>3 DEF Newer
  <2>10. QED
    BY <2>6, <2>7, <2>8, <2>9 DEF Newer
<1>6. ASSUME AsyncInsert(i), k = Head(todo[i].queues)
      PROVE  Newer(k, e, f)'
  <2>0. pc[i] \in Inserting
    BY <1>6 DEF AsyncInsert, Inserting
  <2>1. PICK x : x = Entry(todo[i].event, todo[i].when)
    OBVIOUS
  <2>2. x \in Item /\ x.event # e /\ x.event # f
    BY <1>0, <1>6, <2>0, <2>1, CallFacts, EntryFacts
  <2>3. asyncq'[k] = Append(asyncq[k], x) /\ mainq'[k] = mainq[k] /\ asyncq[k] \in Seq(Item)
    BY <1>0, <1>6, <2>1 DEF AsyncInsert
  <2>4. Content(asyncq'[k]) \subseteq Content(asyncq[k]) \cup {x}
    <3>1. /\ Put(asyncq[k], Append(asyncq[k], x), Len(asyncq[k]), x)
          /\ Len(asyncq[k]) \in 0 .. Len(asyncq[k])
      BY <2>2, <2>3, AppendIs
    <3>2. QED
      BY <2>3, <3>1, PutContent
  <2>5. Tied(k, e, f)
    BY <2>2, <2>3, <2>4 DEF Tied
  <2>6. /\ Before(asyncq[k], f, e) => Before(asyncq'[k], f, e)
        /\ On(asyncq[k], e) => On(asyncq'[k], e)
    BY <2>2, <2>3, AppendBefore, InsertedEvents
  <2>7. QED
    BY <2>3, <2>5, <2>6 DEF Newer
<1>7. CASE HandleAsyncInsertions(i) /\ k # i
  BY <1>0, <1>2, <1>7 DEF HandleAsyncInsertions
<1>8. CASE ServiceOne(i) /\ k # i
  BY <1>0, <1>2, <1>8 DEF ServiceOne
<1>9. ASSUME NEW h \in Threads, NEW x, Inserts(h, x), h # k
      PROVE  Newer(k, e, f)'
  BY <1>0, <1>2, <1>9 DEF Inserts
<1>10. CASE AsyncInsert(i) /\ k # Head(todo[i].queues)
  BY <1>0, <1>2, <1>10 DEF AsyncInsert
<1>11. QED
  BY <1>2, <1>3, <1>4, <1>5, <1>6, <1>7, <1>8, <1>9, <1>10, ListSteps

(* On all queues, if the step puts neither of them anywhere.                 *)
LEMMA OneWayStays ==
  ASSUME LoopInv, ExitInv, TimeInv, NEW i \in Threads, Step(i),
         NEW e \in GlobalExits, NEW f \in GlobalExits, e # f,
         AsyncInsert(i) => todo[i].event \notin {e, f}, OneWay(e, f)
  PROVE  OneWay(e, f)'
BY NewerStays DEF OneWay

(* An exit event that is put on a queue comes before those already there.    *)
LEMMA OneWayPut ==
  ASSUME LoopInv, ExitInv, TimeInv, NEW i \in Threads, AsyncInsert(i), todo[i].event = Exit(i),
         NEW f \in GlobalExits, f # Exit(i), OneWay(Exit(i), f)
  PROVE  OneWay(Exit(i), f)'
<1>0. /\ QueuesType /\ CallsOK /\ Step(i) /\ Exit(i) \in GlobalExits
      /\ asyncq \in [Threads -> Seq(Item)] /\ pc[i] = "insert"
  BY DEF LoopInv, QueuesType, Step, GlobalExits, AsyncInsert
<1>1. PICK k \in Threads : k = Head(todo[i].queues) /\ k = N - Len(todo[i].queues)
  BY <1>0, CallFacts, EventsApart DEF Inserting
<1>2. ASSUME NEW h \in Threads, h # k, Tied(h, Exit(i), f)'
      PROVE  Newer(h, Exit(i), f)'
  BY <1>0, <1>1, <1>2, NewerStays DEF OneWay
<1>3. ASSUME Tied(k, Exit(i), f)'
      PROVE  Newer(k, Exit(i), f)'
  <2>1. Nowhere(k, Exit(i))
    <3>1. k >= N - Len(todo[i].queues)
      BY <1>1, ConstantTypes
    <3>2. QED
      BY <1>0, <3>1 DEF ExitInv, ExitAt, ExitNotYet
  <2>2. PICK x : x = Entry(todo[i].event, todo[i].when)
    OBVIOUS
  <2>3. x \in Item /\ x.event = Exit(i)
    BY <1>0, <2>2, CallFacts, EntryFacts DEF Inserting
  <2>4. asyncq'[k] = Append(asyncq[k], x) /\ mainq'[k] = mainq[k] /\ asyncq[k] \in Seq(Item)
    BY <1>0, <1>1, <2>2 DEF AsyncInsert
  <2>5. Content(asyncq'[k]) \subseteq Content(asyncq[k]) \cup {x}
    BY <2>3, <2>4, AppendIs, PutContent, LenProperties
  <2>6. PICK y \in Content(mainq'[k]) \cup Content(asyncq'[k]) : y.event = f
    BY <1>3 DEF Tied
  <2>7. On(mainq[k], f) \/ On(asyncq[k], f)
    BY <2>3, <2>4, <2>5, <2>6, OnContent
  <2>8. CASE On(mainq[k], f)
    <3>1. On(asyncq'[k], Exit(i))
      BY <2>3, <2>4, InsertedEvents
    <3>2. QED
      BY <2>4, <2>8, <3>1 DEF Newer
  <2>9. CASE On(asyncq[k], f)
    <3>1. Before(asyncq'[k], f, Exit(i))
      BY <2>3, <2>4, <2>9, AppendBefore
    <3>2. QED
      BY <3>1 DEF Newer
  <2>10. QED
    BY <2>7, <2>8, <2>9
<1>4. QED
  BY <1>2, <1>3 DEF OneWay

(* How a thread comes to put an event on a queue.                            *)
LEMMA PutStep ==
  ASSUME LoopInv, NEW i \in Threads, Step(i), pc'[i] \in {"insert", "flag"}
  PROVE  \/ LockGlobalQ(i)
         \/ /\ pc[i] \in {"insert", "flag"}
            /\ todo'[i].event = todo[i].event /\ globalQ' = globalQ
         \/ todo'[i].event = Message
<1>0. /\ PlaceOK /\ QueuesType /\ todo \in [Threads -> Call] /\ pc = [j \in Threads |-> pc[j]]
  BY DEF LoopInv, BarrierInv, PlaceOK, QueuesType
<1>1. CASE LockGlobalQ(i) \/ AsyncInsert(i)
  BY <1>0, <1>1 DEF AsyncInsert
<1>2. CASE SetFlag(i)
  <2>1. CASE Len(todo[i].queues) > 1
    <3>1. pc[i] = "flag" /\ todo' = [todo EXCEPT ![i].queues = Tail(@)] /\ globalQ' = globalQ
      BY <1>2, <2>1 DEF SetFlag
    <3>2. todo'[i].event = todo[i].event
      BY <1>0, <3>1 DEF Call
    <3>3. QED
      BY <3>1, <3>2
  <2>2. CASE ~(Len(todo[i].queues) > 1)
    <3>1. Goto(i, "barrier2") \/ Goto(i, "handler")
      BY <1>2, <2>2 DEF SetFlag
    <3>2. QED
      BY <1>0, <3>1, PcMoved
  <2>3. QED
    BY <2>1, <2>2
<1>3. CASE Process(i) \/ ExitSimLoop(i)
  <2>1. Goto(i, "globalQ") \/ Goto(i, "barrier2")
    BY <1>3 DEF Process, ExitSimLoop, GlobalSchedule
  <2>2. QED
    BY <1>0, <2>1, PcMoved
<1>4. CASE \E h \in Threads : SendMessage(i, h)
  BY <1>0, <1>4 DEF SendMessage
<1>5. CASE \/ EnterBarrier(i) \/ LeaveBarrier(i) \/ StartLoop(i) \/ ServiceOne(i) \/ HandlerReturn(i)
           \/ ScheduleWork(i) \/ (\E h \in Threads : Migrate(i, h)) \/ MigrateLock(i)
           \/ MigrateSchedule(i) \/ MigrateBack(i) \/ FirstBarrier(i) \/ LeaveFirst(i)
           \/ SecondBarrier(i) \/ LeaveSecond(i)
  <2>1. \/ UNCHANGED pc /\ ScheduleWork(i)
        \/ \E l \in {"merge", "loop", "handler", "migrate", "migrated", "return home", "process",
                     "barrier1", "barrier2", "last", "wait1", "done", "wait2", "entering", "return",
                     "enter"} : Goto(i, l)
    BY <1>5 DEF EnterBarrier, LeaveBarrier, StartLoop, ServiceOne, HandlerReturn, ScheduleWork,
                Migrate, MigrateLock, MigrateSchedule, MigrateBack, FirstBarrier, LeaveFirst, AfterFirst,
                SecondBarrier, LeaveSecond, QuantumDone, Arrive
  <2>2. pc'[i] \notin {"insert", "flag"}
    BY <1>0, <2>1 DEF Goto, ScheduleWork
  <2>3. QED
    BY <2>2
<1>6. QED
  BY <1>1, <1>2, <1>3, <1>4, <1>5 DEF Step

(* The mutex changes hands only when it is free or given up.                 *)
LEMMA MutexSteps ==
  ASSUME NEW i \in Threads, Step(i)
  PROVE  \/ globalQ' = globalQ
         \/ globalQ = Nobody /\ globalQ' = i
         \/ globalQ = i
BY DEF Step, EnterBarrier, LeaveBarrier, StartLoop, ServiceOne, HandlerReturn, ScheduleWork,
       ExitSimLoop, SendMessage, Migrate, LockGlobalQ, AsyncInsert, SetFlag, MigrateLock,
       MigrateSchedule, MigrateBack, FirstBarrier, LeaveFirst, Process, SecondBarrier, LeaveSecond

(* So whoever schedules a global event keeps it.                             *)
LEMMA MutexStep ==
  ASSUME LoopInv, MutexInv, NEW i \in Threads, Step(i)
  PROVE  MutexInv'
<1>0. PlaceOK /\ QueuesType
  BY DEF LoopInv, BarrierInv
<1>1. ASSUME NEW j \in Threads, pc'[j] \in {"insert", "flag"}, todo'[j].event # Message
      PROVE  globalQ' = j
  <2>1. CASE j # i
    <3>1. pc'[j] = pc[j] /\ todo'[j] = todo[j]
      BY <1>0, <2>1, OneMoves DEF OnlyMoves
    <3>2. globalQ = j /\ j # Nobody
      BY <1>1, <3>1, ConstantTypes DEF MutexInv, Nobody
    <3>3. QED
      BY <2>1, <3>2, MutexSteps
  <2>2. CASE j = i
    <3>1. CASE LockGlobalQ(i)
      BY <2>2, <3>1 DEF LockGlobalQ
    <3>2. CASE ~LockGlobalQ(i)
      <4>1. pc'[i] \in {"insert", "flag"} /\ todo'[i].event # Message
        BY <1>1, <2>2
      <4>2. /\ pc[i] \in {"insert", "flag"}
            /\ todo'[i].event = todo[i].event /\ globalQ' = globalQ
        BY <3>2, <4>1, PutStep
      <4>3. globalQ = i
        BY <4>1, <4>2 DEF MutexInv
      <4>4. QED
        BY <2>2, <4>2, <4>3
    <3>3. QED
      BY <3>1, <3>2
  <2>3. QED
    BY <2>1, <2>2
<1>2. QED
  BY <1>1 DEF MutexInv

(* The order of the exit events is preserved by a step of a thread.          *)
LEMMA OrderStep ==
  ASSUME LoopInv, ExitInv, TimeInv, OrderInv, MutexInv, NEW i \in Threads, Step(i)
  PROVE  OrderInv'
<1>0. PlaceOK /\ QueuesType /\ CallsOK
  BY DEF LoopInv, BarrierInv
<1>1. \A a \in Threads : Exit(a) \in GlobalExits
  BY DEF GlobalExits
<1>2. ASSUME NEW a \in Threads, AsyncInsert(i), todo[i].event = Exit(a)
      PROVE  a = i /\ pc[i] = "insert"
  <2>1. pc[i] = "insert"
    BY <1>2 DEF AsyncInsert
  <2>2. todo[i].event \in {Quantum, Exit(i), Message}
    BY <1>0, <2>1 DEF CallsOK, InCall, Inserting
  <2>3. QED
    BY <1>2, <2>1, <2>2, EventsApart
<1>3. ASSUME NEW a \in Threads, NEW b \in Threads, a # b, OneWay(Exit(a), Exit(b)),
             ~(AsyncInsert(i) /\ i = b)
      PROVE  OneWay(Exit(a), Exit(b))'
  <2>1. Exit(a) # Exit(b)
    BY <1>3, EventsApart
  <2>2. CASE AsyncInsert(i) /\ todo[i].event = Exit(a)
    BY <1>1, <1>2, <1>3, <2>1, <2>2, OneWayPut
  <2>3. CASE ~(AsyncInsert(i) /\ todo[i].event = Exit(a))
    <3>1. AsyncInsert(i) => todo[i].event \notin {Exit(a), Exit(b)}
      BY <1>2, <1>3, <2>3
    <3>2. QED
      BY <1>1, <1>3, <2>1, <3>1, OneWayStays
  <2>4. QED
    BY <2>2, <2>3
<1>4. ASSUME NEW a \in Threads, NEW b \in Threads, a # b
      PROVE  OneWay(Exit(a), Exit(b))' \/ OneWay(Exit(b), Exit(a))'
  <2>1. CASE AsyncInsert(i) /\ todo[i].event = Exit(a)
    <3>1. i = a /\ pc[a] = "insert" /\ todo[a].event = Exit(a)
      BY <1>2, <2>1
    <3>2. OneWay(Exit(a), Exit(b))
      BY <1>4, <3>1 DEF OrderInv
    <3>3. QED
      BY <1>3, <1>4, <3>1, <3>2
  <2>2. CASE AsyncInsert(i) /\ todo[i].event = Exit(b)
    <3>1. i = b /\ pc[b] = "insert" /\ todo[b].event = Exit(b)
      BY <1>2, <2>2
    <3>2. OneWay(Exit(b), Exit(a))
      BY <1>4, <3>1 DEF OrderInv
    <3>3. QED
      BY <1>3, <1>4, <3>1, <3>2
  <2>3. CASE AsyncInsert(i) => todo[i].event \notin {Exit(a), Exit(b)}
    <3>1. Exit(a) # Exit(b)
      BY <1>4, EventsApart
    <3>2. OneWay(Exit(a), Exit(b)) \/ OneWay(Exit(b), Exit(a))
      BY <1>4 DEF OrderInv
    <3>3. QED
      BY <1>1, <2>3, <3>1, <3>2, OneWayStays
  <2>4. QED
    BY <2>1, <2>2, <2>3
<1>5. ASSUME NEW a \in Threads, NEW b \in Threads, a # b,
             pc'[a] \in {"insert", "flag"}, todo'[a].event = Exit(a)
      PROVE  OneWay(Exit(a), Exit(b))'
  <2>1. CASE a # i
    <3>1. pc'[a] = pc[a] /\ todo'[a] = todo[a]
      BY <1>0, <2>1, OneMoves DEF OnlyMoves
    <3>2. OneWay(Exit(a), Exit(b)) /\ globalQ = a
      BY <1>5, <3>1, EventsApart DEF OrderInv, MutexInv
    <3>3. CASE AsyncInsert(i) /\ todo[i].event = Exit(b)
      <4>1. i = b /\ pc[b] = "insert" /\ todo[b].event # Message
        BY <1>2, <3>3, EventsApart
      <4>2. globalQ = b
        BY <4>1 DEF MutexInv
      <4>3. QED
        BY <1>5, <3>2, <4>2
    <3>4. CASE ~(AsyncInsert(i) /\ todo[i].event = Exit(b))
      <4>1. AsyncInsert(i) => todo[i].event \notin {Exit(a), Exit(b)}
        BY <1>2, <2>1, <3>4
      <4>2. QED
        BY <1>1, <1>5, <3>2, <4>1, OneWayStays, EventsApart
    <3>5. QED
      BY <3>3, <3>4
  <2>2. CASE a = i
    <3>1. CASE LockGlobalQ(i)
      <4>1. /\ pc[i] = "globalQ" /\ todo[i].event = Exit(i)
            /\ UNCHANGED <<mainq, asyncq>>
        BY <1>5, <2>2, <3>1 DEF LockGlobalQ, queues
      <4>2. \A k \in Threads : Nowhere(k, Exit(i))
        BY <4>1 DEF ExitInv, ExitAt, ExitNotYet
      <4>3. \A k \in Threads : ~Tied(k, Exit(i), Exit(b))'
        BY <4>1, <4>2, OnContent DEF Nowhere, Tied
      <4>4. QED
        BY <2>2, <4>3 DEF OneWay
    <3>2. CASE ~LockGlobalQ(i)
      <4>1. pc[i] \in {"insert", "flag"} /\ todo[i].event = Exit(i)
        <5>1. pc'[i] \in {"insert", "flag"} /\ todo'[i].event = Exit(i)
          BY <1>5, <2>2
        <5>2. Exit(i) # Message
          BY EventsApart
        <5>3. QED
          BY <3>2, <5>1, <5>2, PutStep
      <4>2. OneWay(Exit(a), Exit(b))
        BY <1>5, <2>2, <4>1 DEF OrderInv
      <4>3. QED
        BY <1>3, <1>5, <2>2, <4>2
    <3>3. QED
      BY <3>1, <3>2
  <2>3. QED
    BY <2>1, <2>2
<1>6. QED
  BY <1>4, <1>5 DEF OrderInv

(* The main thread leaves the exit events where they are.                    *)
LEMMA MainLists ==
  ASSUME LoopInv, ListInv, Return \/ \E until \in Limits : Simulate(until), NEW k \in Threads
  PROVE  /\ asyncq' = asyncq
         /\ \A z \in Content(mainq'[k]) : z.event \notin {Limit, Quantum} => z \in Content(mainq[k])
         /\ \A e, f : e \notin {Limit, Quantum} /\ f \notin {Limit, Quantum} =>
              /\ Before(mainq[k], e, f) => Before(mainq'[k], e, f)
              /\ On(mainq[k], e) => On(mainq'[k], e)
<1>0. /\ mainq \in [Threads -> Seq(Item)] /\ Sorted(mainq[k]) /\ curTick \in [Threads -> Nat]
      /\ mainq[k] \in Seq(Item)
  BY DEF LoopInv, QueuesType, ListInv
<1>1. CASE Return
  <2>1. asyncq' = asyncq /\ mainq'[k] = Without(mainq[k], Quantum)
    BY <1>1 DEF Return
  <2>2. Content(mainq'[k]) \subseteq Content(mainq[k])
    BY <1>0, <2>1, WithoutSorted
  <2>3. \A e : e # Quantum => (On(mainq[k], e) => On(mainq'[k], e))
    BY <1>0, <2>1, WithoutEvents
  <2>4. \A e, f : e # Quantum /\ f # Quantum =>
          (Before(mainq[k], e, f) => Before(mainq'[k], e, f))
    BY <1>0, <2>1, RemovedBefore
  <2>5. QED
    BY <2>1, <2>2, <2>3, <2>4
<1>2. ASSUME NEW until \in Limits, Simulate(until)
      PROVE  /\ asyncq' = asyncq
             /\ \A z \in Content(mainq'[k]) :
                  z.event \notin {Limit, Quantum} => z \in Content(mainq[k])
             /\ \A e, f : e \notin {Limit, Quantum} /\ f \notin {Limit, Quantum} =>
                  /\ Before(mainq[k], e, f) => Before(mainq'[k], e, f)
                  /\ On(mainq[k], e) => On(mainq'[k], e)
  <2>0. until \in Nat /\ 0 \in Threads /\ simQuantum \in Nat
    BY ConstantTypes
  <2>1. PICK x : x = Entry(Limit, until)
    OBVIOUS
  <2>2. PICK y : y = Entry(Quantum, curTick[0] + simQuantum)
    OBVIOUS
  <2>3. x \in Item /\ y \in Item /\ x.event = Limit /\ y.event = Quantum
    BY <1>0, <2>0, <2>1, <2>2, EventsApart, EntryFacts
  <2>4. PICK a : a = Without(mainq[k], Limit)
    OBVIOUS
  <2>5. PICK b : b = Inserted(a, x)
    OBVIOUS
  <2>6. mainq'[k] = Inserted(b, y) /\ asyncq' = asyncq
    BY <1>2, <2>1, <2>2, <2>4, <2>5 DEF Simulate
  <2>7. a \in Seq(Item) /\ Sorted(a) /\ Content(a) \subseteq Content(mainq[k])
    BY <1>0, <2>3, <2>4, ListTypes, WithoutSorted
  <2>8. b \in Seq(Item) /\ Sorted(b) /\ Content(b) \subseteq Content(a) \cup {x}
    BY <2>3, <2>5, <2>7, ListTypes, InsertedSorted
  <2>9. Content(mainq'[k]) \subseteq Content(b) \cup {y}
    BY <2>3, <2>6, <2>8, InsertedSorted
  <2>10. ASSUME NEW e, NEW f, e # Limit, f # Limit, Before(mainq[k], e, f)
         PROVE  Before(mainq'[k], e, f)
    <3>1. Before(a, e, f)
      BY <1>0, <2>4, <2>10, RemovedBefore
    <3>2. Before(b, e, f)
      BY <2>3, <2>5, <2>7, <3>1, InsertedBefore
    <3>3. QED
      BY <2>3, <2>6, <2>8, <3>2, InsertedBefore
  <2>11. ASSUME NEW e, e # Limit, On(mainq[k], e)
         PROVE  On(mainq'[k], e)
    <3>1. On(a, e)
      BY <1>0, <2>4, <2>11, WithoutEvents
    <3>2. On(b, e)
      BY <2>3, <2>5, <2>7, <3>1, InsertedEvents
    <3>3. QED
      BY <2>3, <2>6, <2>8, <3>2, InsertedEvents
  <2>12. QED
    BY <2>3, <2>6, <2>7, <2>8, <2>9, <2>10, <2>11
<1>3. QED
  BY <1>1, <1>2

(* So their order stays.                                                     *)
LEMMA OrderMain ==
  ASSUME LoopInv, ExitInv, TimeInv, OrderInv, MutexInv,
         Return \/ \E until \in Limits : Simulate(until)
  PROVE  OrderInv' /\ MutexInv'
<1>0. /\ PlaceOK /\ CallsOK /\ ListInv /\ OnlyMoves(0)
      /\ todo' = todo /\ globalQ' = globalQ /\ pc'[0] \in {"python", "enter"}
  <2>1. PlaceOK /\ CallsOK /\ ListInv /\ OnlyMoves(0)
    BY MainCalls DEF LoopInv, BarrierInv, TimeInv
  <2>2. todo' = todo /\ globalQ' = globalQ
    BY DEF Return, Simulate
  <2>3. pc'[0] \in {"python", "enter"}
    BY <2>1, ConstantTypes, PcMoved DEF Return, Simulate
  <2>4. QED
    BY <2>1, <2>2, <2>3
<1>1. \A a \in Threads : pc'[a] \in {"insert", "flag"} => pc[a] \in {"insert", "flag"}
  BY <1>0 DEF OnlyMoves
<1>2. MutexInv'
  BY <1>0, <1>1 DEF MutexInv
<1>3. ASSUME NEW a \in Threads, NEW b \in Threads, OneWay(Exit(a), Exit(b))
      PROVE  OneWay(Exit(a), Exit(b))'
  <2>0. Exit(a) \notin {Limit, Quantum} /\ Exit(b) \notin {Limit, Quantum}
    BY EventsApart
  <2>1. ASSUME NEW k \in Threads, Tied(k, Exit(a), Exit(b))'
        PROVE  Newer(k, Exit(a), Exit(b))'
    <3>1. /\ asyncq' = asyncq
          /\ \A z \in Content(mainq'[k]) :
               z.event \notin {Limit, Quantum} => z \in Content(mainq[k])
          /\ \A e, f : e \notin {Limit, Quantum} /\ f \notin {Limit, Quantum} =>
               /\ Before(mainq[k], e, f) => Before(mainq'[k], e, f)
               /\ On(mainq[k], e) => On(mainq'[k], e)
      BY <1>0, MainLists
    <3>2. Tied(k, Exit(a), Exit(b))
      BY <2>0, <2>1, <3>1 DEF Tied
    <3>3. Newer(k, Exit(a), Exit(b))
      BY <1>3, <3>2 DEF OneWay
    <3>4. QED
      BY <2>0, <3>1, <3>3 DEF Newer
  <2>2. QED
    BY <2>1 DEF OneWay
<1>4. OrderInv'
  BY <1>0, <1>1, <1>3 DEF OrderInv
<1>5. QED
  BY <1>2, <1>4

(* The invariant with the mutex and the order it gives.                      *)
MutexedInv == ClockInv /\ OrderInv /\ MutexInv

(* At first there is no exit event.                                          *)
LEMMA InitOrder == Init => OrderInv /\ MutexInv
<1> SUFFICES ASSUME Init
             PROVE  OrderInv /\ MutexInv
  OBVIOUS
<1>1. \A k \in Threads : /\ Content(mainq[k]) = {[event |-> Work, when |-> StartTick]}
                         /\ Content(asyncq[k]) = {}
  BY DEF Init, Content
<1>2. \A a, b, k \in Threads : ~Tied(k, Exit(a), Exit(b))
  <2>1. \A a \in Threads : Exit(a) # Work
    BY EventsApart DEF GlobalExits
  <2>2. QED
    BY <1>1, <2>1 DEF Tied
<1>3. \A a \in Threads : pc[a] \notin {"insert", "flag"}
  BY DEF Init
<1>4. QED
  BY <1>2, <1>3 DEF OrderInv, MutexInv, OneWay

(* The invariant is inductive.                                               *)
LEMMA NextOrder == MutexedInv /\ [Next]_vars => MutexedInv'
<1> SUFFICES ASSUME MutexedInv, [Next]_vars
             PROVE  MutexedInv'
  OBVIOUS
<1>0. /\ ClockInv /\ OrderInv /\ MutexInv /\ LoopInv /\ ExitInv /\ TimeInv
  BY DEF MutexedInv, ClockInv
<1>1. ClockInv'
  BY <1>0, NextClock
<1>2. CASE Return \/ \E until \in Limits : Simulate(until)
  BY <1>0, <1>1, <1>2, OrderMain DEF MutexedInv
<1>3. ASSUME NEW i \in Threads, Step(i)
      PROVE  MutexedInv'
  BY <1>0, <1>1, <1>3, OrderStep, MutexStep DEF MutexedInv
<1>4. CASE UNCHANGED vars
  <2>1. UNCHANGED <<mainq, asyncq, pc, todo, globalQ>>
    BY <1>4 DEF vars, queues
  <2>2. OrderInv' /\ MutexInv'
    BY <1>0, <2>1 DEF OrderInv, MutexInv, OneWay, Tied, Newer, Before, On, Content
  <2>3. QED
    BY <1>1, <2>2 DEF MutexedInv
<1>5. QED
  BY <1>2, <1>3, <1>4 DEF Next

(* A global event has one tick on all queues.                                *)
TickIs(e, t) ==
  \A k \in Threads : \A x \in Content(mainq[k]) \cup Content(asyncq[k]) :
    x.event = e => x.when = t

(* Every global event has one.                                               *)
LEMMA EventTick ==
  ASSUME ClockInv, NEW e \in Globals
  PROVE  \E t \in Nat : TickIs(e, t)
<1>1. CASE e = Quantum
  <2>1. PICK T \in Nat : Window(T)
    BY DEF ClockInv, TimeInv
  <2>2. TickIs(e, T)
    BY <1>1, <2>1 DEF Window, QuantumTicks, TickIs
  <2>3. QED
    BY <2>2
<1>2. CASE e \in GlobalExits
  <2>1. PICK t \in Nat : SameTick(e, t)
    BY <1>2 DEF ClockInv, TimeInv, ExitTicks
  <2>2. TickIs(e, t)
    BY <2>1 DEF SameTick, TickIs
  <2>3. QED
    BY <2>2
<1>3. QED
  BY <1>1, <1>2 DEF Globals

(* A merged queue is in order and has a global event once.                   *)
LEMMA MergedFacts ==
  ASSUME ClockInv, NEW k \in Threads
  PROVE  /\ Merged(k) \in Seq(Item) /\ Sorted(Merged(k))
         /\ Content(Merged(k)) \subseteq Content(mainq[k]) \cup Content(asyncq[k])
         /\ \A e \in Globals : Once(Merged(k), e)
<1>1. QueuesType /\ Sorted(mainq[k])
  BY DEF ClockInv, LoopInv, TimeInv, ListInv
<1>2. ASSUME NEW e \in Globals
      PROVE  Single(k, e)
  <2>1. CASE e = Quantum
    BY <2>1 DEF ClockInv, LoopInv, QuantumInv, QuantumAt, Single
  <2>2. CASE e \in GlobalExits
    BY <2>2 DEF ClockInv, ExitInv, ExitAt, GlobalExits
  <2>3. QED
    BY <2>1, <2>2 DEF Globals
<1>3. \A e \in Globals : Once(Merged(k), e)
  BY <1>1, <1>2, MergedEvents DEF Single
<1>4. QED
  BY <1>1, <1>3, MergedEvents, MergedSorted

(* On a list in order the earlier entry comes first.                         *)
LEMMA SortedBefore ==
  ASSUME NEW list \in Seq(Item), Sorted(list),
         NEW x \in Content(list), NEW y \in Content(list), Earlier(x, y)
  PROVE  Before(list, x.event, y.event)
<1>1. PICK m \in DOMAIN list : list[m] = x
  BY DEF Content
<1>2. PICK n \in DOMAIN list : list[n] = y
  BY DEF Content
<1>3. x \in Item /\ m \in Nat /\ n \in Nat
  BY <1>1, <1>2
<1>4. m # n
  BY <1>1, <1>2, <1>3, EarlierFacts
<1>5. ~(n < m)
  BY <1>1, <1>2 DEF Sorted
<1>6. m < n
  BY <1>3, <1>4, <1>5
<1>7. QED
  BY <1>1, <1>2, <1>6 DEF Before

(* Positions of events that are on a list once.                              *)
LEMMA PositionFacts ==
  ASSUME NEW list \in Seq(Item), NEW e, NEW f, e # f,
         Once(list, e), Once(list, f), Before(list, e, f)
  PROVE  PositionIn(list, e) < PositionIn(list, f) /\ ~(PositionIn(list, f) < PositionIn(list, e))
<1>1. PICK m, n \in DOMAIN list : m < n /\ list[m].event = e /\ list[n].event = f
  BY DEF Before
<1>2. PositionIn(list, e) = m
  BY <1>1 DEF PositionIn, Once
<1>3. PositionIn(list, f) = n
  BY <1>1 DEF PositionIn, Once
<1>4. m \in Nat /\ n \in Nat
  BY <1>1
<1>5. QED
  BY <1>1, <1>2, <1>3, <1>4

(* All queues with both events have e before f when they are merged.         *)
InOrder(e, f) ==
  \A k \in Threads : On(Merged(k), e) /\ On(Merged(k), f) => Before(Merged(k), e, f)

(* The order by tick and priority, ...                                       *)
LEMMA EarlierInOrder ==
  ASSUME ClockInv, NEW e \in Globals, NEW f \in Globals, NEW s \in Nat, NEW t \in Nat,
         TickIs(e, s), TickIs(f, t), s < t \/ (s = t /\ Priority[e] < Priority[f])
  PROVE  InOrder(e, f)
<1> SUFFICES ASSUME NEW k \in Threads, On(Merged(k), e), On(Merged(k), f)
             PROVE  Before(Merged(k), e, f)
  BY DEF InOrder
<1>1. PICK x \in Content(Merged(k)) : x.event = e
  BY OnContent
<1>2. PICK y \in Content(Merged(k)) : y.event = f
  BY OnContent
<1>3. x.when = s /\ y.when = t
  BY <1>1, <1>2, MergedFacts DEF TickIs
<1>4. Earlier(x, y)
  BY <1>1, <1>2, <1>3 DEF Earlier
<1>5. QED
  BY <1>1, <1>2, <1>4, MergedFacts, SortedBefore

(* ... and by the mutex.                                                     *)
LEMMA TiedInOrder ==
  ASSUME ClockInv, NEW e \in GlobalExits, NEW f \in GlobalExits, NEW t \in Nat,
         TickIs(e, t), TickIs(f, t), OneWay(e, f)
  PROVE  InOrder(e, f)
<1> SUFFICES ASSUME NEW k \in Threads, On(Merged(k), e), On(Merged(k), f)
             PROVE  Before(Merged(k), e, f)
  BY DEF InOrder
<1>0. LoopInv /\ ExitInv /\ TimeInv /\ QueuesType
  BY DEF ClockInv, LoopInv
<1>1. PICK x \in Content(mainq[k]) \cup Content(asyncq[k]) : x.event = e
  BY OnContent, MergedFacts
<1>2. PICK y \in Content(mainq[k]) \cup Content(asyncq[k]) : y.event = f
  BY OnContent, MergedFacts
<1>3. Tied(k, e, f)
  BY <1>1, <1>2 DEF Tied, TickIs
<1>4. Newer(k, e, f) /\ TiesOnly(k, e, f)
  BY <1>0, <1>3, PairFacts DEF OneWay
<1>5. QED
  BY <1>0, <1>4, MergedBefore

(* So two global events have one order.                                      *)
LEMMA OneOrder ==
  ASSUME MutexedInv, LimitApart, NEW e \in Globals, NEW f \in Globals, e # f
  PROVE  InOrder(e, f) \/ InOrder(f, e)
<1>0. ClockInv
  BY DEF MutexedInv
<1>1. PICK s \in Nat : TickIs(e, s)
  BY <1>0, EventTick
<1>2. PICK t \in Nat : TickIs(f, t)
  BY <1>0, EventTick
<1>3. Priority[e] = (IF e = Quantum THEN 95 ELSE 100) /\ Priority[f] = (IF f = Quantum THEN 95 ELSE 100)
  BY DEF Priority, Globals
<1>4. CASE s < t \/ (s = t /\ Priority[e] < Priority[f])
  BY <1>0, <1>1, <1>2, <1>4, EarlierInOrder
<1>5. CASE t < s \/ (s = t /\ Priority[f] < Priority[e])
  BY <1>0, <1>1, <1>2, <1>5, EarlierInOrder
<1>6. CASE s = t /\ e # Quantum /\ f # Quantum
  <2>1. e \in GlobalExits /\ f \in GlobalExits
    BY <1>6 DEF Globals
  <2>2. CASE e = Limit \/ f = Limit
    <3>1. ASSUME NEW k \in Threads, On(Merged(k), e), On(Merged(k), f)
          PROVE  FALSE
      <4>1. PICK x \in Content(mainq[k]) \cup Content(asyncq[k]) : x.event = e
        BY <1>0, <3>1, OnContent, MergedFacts
      <4>2. PICK y \in Content(mainq[k]) \cup Content(asyncq[k]) : y.event = f
        BY <1>0, <3>1, OnContent, MergedFacts
      <4>3. x.when = y.when
        BY <1>1, <1>2, <1>6, <4>1, <4>2 DEF TickIs
      <4>4. CASE e = Limit
        <5>1. y.event \in GlobalExits \ {Limit}
          BY <2>1, <4>2, <4>4
        <5>2. QED
          BY <4>1, <4>2, <4>3, <4>4, <5>1 DEF LimitApart
      <4>5. CASE f = Limit
        <5>1. x.event \in GlobalExits \ {Limit}
          BY <2>1, <4>1, <4>5
        <5>2. QED
          BY <4>1, <4>2, <4>3, <4>5, <5>1 DEF LimitApart
      <4>6. QED
        BY <2>2, <4>4, <4>5
    <3>2. QED
      BY <3>1 DEF InOrder
  <2>3. CASE e # Limit /\ f # Limit
    <3>1. PICK a \in Threads : e = Exit(a)
      BY <2>1, <2>3 DEF GlobalExits
    <3>2. PICK b \in Threads : f = Exit(b)
      BY <2>1, <2>3 DEF GlobalExits
    <3>3. OneWay(e, f) \/ OneWay(f, e)
      BY <3>1, <3>2 DEF MutexedInv, OrderInv
    <3>4. QED
      BY <1>0, <1>1, <1>2, <1>6, <2>1, <3>3, TiedInOrder
  <2>4. QED
    BY <2>2, <2>3
<1>7. QED
  <2>1. s < t \/ s = t \/ t < s
    OBVIOUS
  <2>2. e = Quantum => Priority[e] < Priority[f]
    BY <1>3
  <2>3. f = Quantum => Priority[f] < Priority[e]
    BY <1>3
  <2>4. QED
    BY <1>4, <1>5, <1>6, <2>1, <2>2, <2>3

(* Positions in that order.                                                  *)
LEMMA OrderedPositions ==
  ASSUME ClockInv, NEW e \in Globals, NEW f \in Globals, e # f, InOrder(e, f), NEW k \in Threads,
         On(Merged(k), e), On(Merged(k), f)
  PROVE  /\ PositionIn(Merged(k), e) < PositionIn(Merged(k), f)
         /\ ~(PositionIn(Merged(k), f) < PositionIn(Merged(k), e))
<1>1. Before(Merged(k), e, f)
  BY DEF InOrder
<1>2. Merged(k) \in Seq(Item) /\ Once(Merged(k), e) /\ Once(Merged(k), f)
  BY MergedFacts
<1>3. QED
  BY <1>1, <1>2, PositionFacts

(* So the order is total.                                                    *)
LEMMA OrderIsTotal == MutexedInv /\ LimitApart => TotalOrder
<1> SUFFICES ASSUME MutexedInv, LimitApart
             PROVE  TotalOrder
  OBVIOUS
<1>0. ClockInv
  BY DEF MutexedInv
<1>1. SUFFICES ASSUME NEW j \in Threads, NEW k \in Threads, NEW e \in Globals, NEW f \in Globals,
                      On(Merged(j), e), On(Merged(j), f), On(Merged(k), e), On(Merged(k), f)
               PROVE  PositionIn(Merged(j), e) < PositionIn(Merged(j), f)
                        <=> PositionIn(Merged(k), e) < PositionIn(Merged(k), f)
  BY DEF TotalOrder, On
<1>2. CASE e = f
  <2>1. \A list \in Seq(Item) : On(list, e) => ~(PositionIn(list, e) < PositionIn(list, e))
    <3>1. TAKE list \in Seq(Item)
    <3>2. HAVE On(list, e)
    <3>3. PositionIn(list, e) \in DOMAIN list
      BY <3>2 DEF On, PositionIn
    <3>4. PositionIn(list, e) \in Nat
      BY <3>3
    <3>5. PICK n \in Nat : n = PositionIn(list, e)
      BY <3>4
    <3>6. QED
      BY <3>5
  <2>2. QED
    BY <1>0, <1>1, <1>2, <2>1, MergedFacts
<1>3. CASE e # f
  <2>1. CASE InOrder(e, f)
    BY <1>0, <1>1, <1>3, <2>1, OrderedPositions
  <2>2. CASE InOrder(f, e)
    BY <1>0, <1>1, <1>3, <2>2, OrderedPositions
  <2>3. QED
    BY <1>3, <2>1, <2>2, OneOrder
<1>4. QED
  BY <1>2, <1>3

(* In every behaviour, and for any number of queues and any quantum: no two  *)
(* queues have two global events in different orders (global_event.cc:55-73) *)
(* as long as no exit event is scheduled for the tick of the limit, which    *)
(* simulate() puts straight on the queues, in front of an exit event that is *)
(* merged already and behind one that is still to be merged.                 *)
THEOREM OrderedWithoutLimit == Spec => [](LimitApart => TotalOrder)
<1>1. Init => MutexedInv
  BY InitLoop, InitExit, InitTime, InitOrder DEF MutexedInv, ClockInv
<1>2. MutexedInv => (LimitApart => TotalOrder)
  BY OrderIsTotal
<1>3. QED
  BY <1>1, <1>2, NextOrder, PTL DEF Spec
=============================================================================
