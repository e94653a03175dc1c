--------------------------- MODULE EventQueue_proofs --------------------------
(* Proofs about module EventQueue, for any events, priorities and ticks: the *)
(* pointers of the queue implement the list of module EventList, and its     *)
(* assertions hold.                                                          *)
EXTENDS EventQueue, FiniteSetTheorems, FunctionTheorems, SequenceTheorems,
        SetInduction, TLAPS

-----------------------------------------------------------------------------
(* Recursion along links.                                                    *)

(* No event comes back to itself along the links.                            *)
Acyclic(next) == \A S \in SUBSET Events : S # {} => \E x \in S : next[x] \notin S

(* The values of f are computed along the links: base at the end, at an      *)
(* event what step makes of it and of the value at the next one.             *)
Follows(f, next, base, step) ==
  /\ f[NULL] = base
  /\ \A e \in Events : f[e] = step[<<e, f[next[e]]>>]

(* A function defined by recursion along acyclic links exists.               *)
LEMMA RecursionAlongLinks ==
  ASSUME NEW next \in [Events -> Events \cup {NULL}], Acyclic(next),
         NEW V, NEW base \in V, NEW step \in [Events \X V -> V]
  PROVE  \E f \in [Events \cup {NULL} -> V] : Follows(f, next, base, step)
<1> DEFINE Pairs == (Events \cup {NULL}) \X V
           Closed(R) == /\ <<NULL, base>> \in R
                        /\ \A e \in Events, v \in V :
                             <<next[e], v>> \in R => <<e, step[<<e, v>>]>> \in R
           G == {p \in Pairs : \A R \in SUBSET Pairs : Closed(R) => p \in R}
<1>1. NULL \notin Events
  BY EventParameters
<1>2. Closed(G)
  <2>1. <<NULL, base>> \in G
    OBVIOUS
  <2>2. ASSUME NEW e \in Events, NEW v \in V, <<next[e], v>> \in G
        PROVE  <<e, step[<<e, v>>]>> \in G
    <3>1. <<e, step[<<e, v>>]>> \in Pairs
      OBVIOUS
    <3>2. ASSUME NEW R \in SUBSET Pairs, Closed(R)
          PROVE  <<e, step[<<e, v>>]>> \in R
      BY <2>2, <3>2
    <3>3. QED
      BY <3>1, <3>2
  <2>3. QED
    BY <2>1, <2>2
<1>3. ASSUME NEW e \in Events \cup {NULL}, NEW v \in V, <<e, v>> \in G
      PROVE  \/ e = NULL /\ v = base
             \/ e \in Events /\ \E u \in V : <<next[e], u>> \in G /\ v = step[<<e, u>>]
  <2> SUFFICES ASSUME ~(e = NULL /\ v = base),
                      ~(e \in Events /\ \E u \in V : <<next[e], u>> \in G /\ v = step[<<e, u>>])
               PROVE  FALSE
    OBVIOUS
  <2> DEFINE H == G \ {<<e, v>>}
  <2>1. H \in SUBSET Pairs
    OBVIOUS
  <2>2. <<NULL, base>> \in H
    BY <1>2
  <2>3. ASSUME NEW x \in Events, NEW u \in V, <<next[x], u>> \in H
        PROVE  <<x, step[<<x, u>>]>> \in H
    <3>1. <<x, step[<<x, u>>]>> \in G
      BY <1>2, <2>3
    <3>2. QED
      BY <2>3, <3>1
  <2>4. Closed(H)
    BY <2>2, <2>3
  <2>5. QED
    BY <1>3, <2>1, <2>4
<1> HIDE DEF G
<1>4. \A e \in Events : \E v \in V : <<e, v>> \in G
  <2> DEFINE S == {e \in Events : \A v \in V : <<e, v>> \notin G}
  <2>1. ASSUME S # {} PROVE FALSE
    <3>1. PICK x \in S : next[x] \notin S
      BY <2>1 DEF Acyclic
    <3>2. PICK v \in V : <<next[x], v>> \in G
      BY <1>2, <3>1
    <3>3. <<x, step[<<x, v>>]>> \in G /\ step[<<x, v>>] \in V
      BY <1>2, <3>2
    <3>4. QED
      BY <3>3
  <2>2. QED
    BY <2>1
<1>5. \A e \in Events \cup {NULL} : \A u, v \in V : <<e, u>> \in G /\ <<e, v>> \in G => u = v
  <2>1. \A u, v \in V : <<NULL, u>> \in G /\ <<NULL, v>> \in G => u = v
    BY <1>1, <1>3
  <2> DEFINE S == {e \in Events : \E u, v \in V : <<e, u>> \in G /\ <<e, v>> \in G /\ u # v}
  <2>2. ASSUME S # {} PROVE FALSE
    <3>1. PICK x \in S : next[x] \notin S
      BY <2>2 DEF Acyclic
    <3>2. PICK u \in V, v \in V : <<x, u>> \in G /\ <<x, v>> \in G /\ u # v
      OBVIOUS
    <3>3. PICK s \in V : <<next[x], s>> \in G /\ u = step[<<x, s>>]
      BY <1>1, <1>3, <3>2
    <3>4. PICK t \in V : <<next[x], t>> \in G /\ v = step[<<x, t>>]
      BY <1>1, <1>3, <3>2
    <3>5. s = t
      BY <2>1, <3>1, <3>3, <3>4
    <3>6. QED
      BY <3>2, <3>3, <3>4, <3>5
  <2>3. QED
    BY <2>1, <2>2
<1> DEFINE f == [e \in Events \cup {NULL} |-> CHOOSE v \in V : <<e, v>> \in G]
<1>6. \A e \in Events \cup {NULL} : f[e] \in V /\ <<e, f[e]>> \in G
  BY <1>2, <1>4
<1>7. f \in [Events \cup {NULL} -> V]
  BY <1>6
<1> HIDE DEF f
<1>8. f[NULL] = base
  BY <1>2, <1>5, <1>6
<1>9. ASSUME NEW e \in Events
      PROVE  f[e] = step[<<e, f[next[e]]>>]
  <2>1. next[e] \in Events \cup {NULL}
    OBVIOUS
  <2>2. <<e, step[<<e, f[next[e]]>>]>> \in G /\ step[<<e, f[next[e]]>>] \in V
    BY <1>2, <1>6, <2>1
  <2>3. QED
    BY <1>5, <1>6, <2>2
<1>10. QED
  BY <1>7, <1>8, <1>9 DEF Follows

-----------------------------------------------------------------------------
(* The order of the events, w their ticks.                                   *)

Ticked == [Events -> Nat]

(* The order is strict and weak; the events of a bin are those not ordered.  *)
LEMMA OrderFacts ==
  ASSUME NEW w \in Ticked, NEW e \in Events, NEW f \in Events, NEW g \in Events
  PROVE  /\ ~Before(w, e, e)
         /\ Before(w, e, f) /\ Before(w, f, g) => Before(w, e, g)
         /\ Before(w, e, f) => Before(w, e, g) \/ Before(w, g, f)
         /\ SameBin(w, e, f) <=> ~Before(w, e, f) /\ ~Before(w, f, e)
<1>1. /\ w[e] \in Int /\ w[f] \in Int /\ w[g] \in Int
      /\ Priority[e] \in Int /\ Priority[f] \in Int /\ Priority[g] \in Int
  BY EventParameters DEF Ticked
<1>2. QED
  BY <1>1 DEF Before, SameBin

-----------------------------------------------------------------------------
(* What the pointers say when the queue holds the sequence c of events.      *)

Positions(c) == 1 .. Len(c)

(* In the order of service, each once.                                       *)
Ordered(w, c) ==
  /\ \A i, j \in Positions(c) : i < j => ~Before(w, c[j], c[i])
  /\ \A i, j \in Positions(c) : c[i] = c[j] => i = j

(* The event at i is the top of its bin.                                     *)
IsTop(w, c, i) == i = 1 \/ Before(w, c[i - 1], c[i])

(* j is the top of the bin after that of i, or i is in the last bin.         *)
NextBinAt(w, c, i, j) ==
  j \in i + 1 .. Len(c) /\ Before(w, c[i], c[j]) /\ ~Before(w, c[i], c[j - 1])
InLastBin(w, c, i) == ~Before(w, c[i], c[Len(c)])

Linked(l, w, c) ==
  /\ l.head = IF c = <<>> THEN NULL ELSE c[1]
  /\ \A i \in Positions(c) :
       l.nextInBin[c[i]] = IF i < Len(c) /\ ~Before(w, c[i], c[i + 1]) THEN c[i + 1] ELSE NULL
  /\ \A i \in Positions(c) : IsTop(w, c, i) =>
       /\ \A j \in Positions(c) : NextBinAt(w, c, i, j) => l.nextBin[c[i]] = c[j]
       /\ InLastBin(w, c, i) => l.nextBin[c[i]] = NULL

Pointers == [head : Events \cup {NULL},
             nextBin : [Events -> Events \cup {NULL}],
             nextInBin : [Events -> Events \cup {NULL}]]

NoCycles(l) == Acyclic(l.nextBin) /\ Acyclic(l.nextInBin)

Holds(l, w, c) ==
  /\ l \in Pointers /\ NoCycles(l)
  /\ w \in Ticked
  /\ c \in Seq(Events)
  /\ Ordered(w, c) /\ Linked(l, w, c)

-----------------------------------------------------------------------------
(* Bins.                                                                     *)

(* What is at a position is an event.                                        *)
LEMMA PositionFacts ==
  ASSUME NEW c \in Seq(Events)
  PROVE  /\ Len(c) \in Nat /\ (c = <<>> <=> Len(c) = 0)
         /\ \A i \in Positions(c) : c[i] \in Events
BY DEF Positions

(* Events between two of the same bin are in it.                             *)
LEMMA BinIsInterval ==
  ASSUME NEW w \in Ticked, NEW c \in Seq(Events), Ordered(w, c),
         NEW i \in Positions(c), NEW j \in Positions(c), i <= j, ~Before(w, c[i], c[j]),
         NEW k \in i .. j
  PROVE  ~Before(w, c[i], c[k]) /\ ~Before(w, c[k], c[j])
<1>1. k \in Positions(c) /\ c[i] \in Events /\ c[j] \in Events /\ c[k] \in Events
  BY PositionFacts DEF Positions
<1>2. ~Before(w, c[j], c[k]) /\ ~Before(w, c[k], c[i])
  BY <1>1, OrderFacts DEF Ordered, Positions
<1>3. QED
  BY <1>1, <1>2, OrderFacts

(* Every event is in a bin that has a top.                                   *)
LEMMA BinHasTop ==
  ASSUME NEW w \in Ticked, NEW c \in Seq(Events), Ordered(w, c), NEW p \in Positions(c)
  PROVE  \E t \in 1 .. p : IsTop(w, c, t) /\ ~Before(w, c[t], c[p])
<1> DEFINE T == {i \in Positions(c) : ~Before(w, c[i], c[p])}
<1>1. p \in T
  BY OrderFacts, PositionFacts
<1> HIDE DEF T
<1>2. PICK t \in 1 .. p : t \in T /\ \A j \in 1 .. t - 1 : j \notin T
  <2>1. 1 \in Nat /\ Len(c) \in Int /\ p \in 1 .. Len(c)
    BY PositionFacts DEF Positions
  <2>2. QED
    <3> HIDE DEF T
    <3>1. QED
      BY <1>1, <2>1, LeastPosition
<1> USE DEF T
<1>3. CASE t = 1
  BY <1>2, <1>3 DEF IsTop
<1>4. CASE t # 1
  <2>1. t - 1 \in Positions(c) /\ t - 1 \notin T
    BY <1>2, <1>4 DEF Positions
  <2>2. Before(w, c[t - 1], c[t])
    BY <1>2, <2>1, OrderFacts, PositionFacts
  <2>3. QED
    BY <1>2, <2>2 DEF IsTop
<1>5. QED
  BY <1>3, <1>4

(* Every bin has an end.                                                     *)
LEMMA BinHasEnd ==
  ASSUME NEW w \in Ticked, NEW c \in Seq(Events), Ordered(w, c), NEW i \in Positions(c)
  PROVE  \E b \in i .. Len(c) : /\ ~Before(w, c[i], c[b])
                                /\ b = Len(c) \/ Before(w, c[i], c[b + 1])
<1> DEFINE T == {j \in Positions(c) : Before(w, c[i], c[j])}
<1>1. i \in Nat /\ i + 1 \in Nat /\ Len(c) \in Nat /\ i \in 1 .. Len(c)
  BY PositionFacts DEF Positions
<1>2. ~Before(w, c[i], c[i])
  BY OrderFacts, PositionFacts
<1>3. CASE \E j \in i + 1 .. Len(c) : j \in T
  <2>1. PICK k \in i + 1 .. Len(c) : k \in T
    BY <1>3
  <2>2. PICK j \in i + 1 .. k : j \in T /\ \A x \in i + 1 .. j - 1 : x \notin T
    <3> DEFINE m == i + 1
    <3>1. m \in Nat /\ Len(c) \in Int /\ k \in m .. Len(c)
      BY <1>1, <2>1
    <3> HIDE DEF T, m
    <3>2. \E j \in m .. k : j \in T /\ \A x \in m .. j - 1 : x \notin T
      BY <2>1, <3>1, LeastPosition
    <3> USE DEF m
    <3>3. QED
      BY <3>2
  <2>3. j - 1 \in i .. Len(c) /\ j - 1 \in Positions(c) /\ (j - 1) + 1 = j
    BY <1>1, <2>2 DEF Positions
  <2>4. ~Before(w, c[i], c[j - 1])
    BY <1>1, <1>2, <2>2, <2>3
  <2>5. QED
    BY <2>2, <2>3, <2>4
<1>4. CASE ~(\E j \in i + 1 .. Len(c) : j \in T)
  <2>1. ~Before(w, c[i], c[Len(c)])
    BY <1>1, <1>2, <1>4 DEF Positions
  <2>2. QED
    BY <1>1, <2>1
<1>5. QED
  BY <1>3, <1>4

(* A bin is the last one or is followed by the top of another one, with      *)
(* nothing in between.                                                       *)
LEMMA NextBinExists ==
  ASSUME NEW w \in Ticked, NEW c \in Seq(Events), Ordered(w, c), NEW i \in Positions(c)
  PROVE  \/ InLastBin(w, c, i) /\ \A k \in Positions(c) : ~Before(w, c[i], c[k])
         \/ \E j \in Positions(c) :
              /\ NextBinAt(w, c, i, j) /\ IsTop(w, c, j)
              /\ \A k \in Positions(c) : Before(w, c[i], c[k]) <=> k >= j
<1>1. i \in Nat /\ Len(c) \in Nat /\ i \in 1 .. Len(c)
  BY PositionFacts DEF Positions
<1>2. PICK b \in i .. Len(c) : ~Before(w, c[i], c[b]) /\ (b = Len(c) \/ Before(w, c[i], c[b + 1]))
  BY BinHasEnd
<1>3. b \in Positions(c)
  BY <1>1 DEF Positions
<1>4. ASSUME NEW k \in Positions(c), k <= b PROVE ~Before(w, c[i], c[k])
  <2>1. CASE k < i
    BY <1>4, <2>1, OrderFacts, PositionFacts DEF Ordered
  <2>2. CASE k >= i
    <3>1. k \in i .. b
      BY <1>1, <1>4, <2>2 DEF Positions
    <3>2. QED
      BY <1>1, <1>2, <1>3, <3>1, BinIsInterval
  <2>3. QED
    BY <1>1, <2>1, <2>2 DEF Positions
<1>5. CASE b = Len(c)
  <2>1. \A k \in Positions(c) : ~Before(w, c[i], c[k])
    BY <1>1, <1>4, <1>5 DEF Positions
  <2>2. QED
    BY <1>2, <1>5, <2>1 DEF InLastBin
<1>6. CASE b # Len(c)
  <2>1. b + 1 \in Positions(c) /\ b + 1 \in i + 1 .. Len(c) /\ (b + 1) - 1 = b
    BY <1>1, <1>6 DEF Positions
  <2>2. Before(w, c[i], c[b + 1])
    BY <1>2, <1>6
  <2>3. NextBinAt(w, c, i, b + 1)
    BY <1>2, <2>1, <2>2 DEF NextBinAt
  <2>4. Before(w, c[b], c[b + 1])
    BY <1>2, <1>3, <2>1, <2>2, OrderFacts, PositionFacts
  <2>5. IsTop(w, c, b + 1)
    BY <2>1, <2>4 DEF IsTop
  <2>6. ASSUME NEW k \in Positions(c), k >= b + 1 PROVE Before(w, c[i], c[k])
    <3>1. k = b + 1 \/ ~Before(w, c[k], c[b + 1])
      BY <2>1, <2>6 DEF Ordered, Positions
    <3>2. QED
      BY <2>1, <2>2, <3>1, OrderFacts, PositionFacts
  <2>7. QED
    BY <1>1, <1>4, <2>1, <2>3, <2>5, <2>6 DEF Positions
<1>7. QED
  BY <1>5, <1>6

-----------------------------------------------------------------------------
(* What the recursive functions of the model compute when the links have no  *)
(* cycles. The names stand for the functions of the LETs.                    *)

StackFrom(l) ==
  CHOOSE from : from = [e \in Events \cup {NULL} |->
    IF e = NULL THEN <<>> ELSE <<e>> \o from[l.nextInBin[e]]]

WalkFrom(l, w, e) ==
  CHOOSE walk : walk = [p \in Events |->
    IF l.nextBin[p] # NULL /\ Before(w, l.nextBin[p], e) THEN walk[l.nextBin[p]] ELSE p]

ContentsFrom(l) ==
  CHOOSE from : from = [top \in Events \cup {NULL} |->
    IF top = NULL THEN <<>> ELSE Stack(l, top) \o from[l.nextBin[top]]]

(* These are the recursive functions of the model, by name: a stack, ...      *)
LEMMA StackIsStackFrom == \A l, top : Stack(l, top) = StackFrom(l)[top]
BY DEF Stack, StackFrom

(* ... the search along the bins, ...                                         *)
LEMMA LastBeforeIsWalk == \A l, w, e : LastBefore(l, w, e) = WalkFrom(l, w, e)[l.head]
BY DEF LastBefore, WalkFrom

(* ... and the contents.                                                      *)
LEMMA ContentsAreContentsFrom == Contents = ContentsFrom(q)[q.head]
BY DEF Contents, ContentsFrom

(* A stack is its top on the stack below.                                    *)
LEMMA StackEquation ==
  ASSUME NEW l \in Pointers, NoCycles(l)
  PROVE  /\ Stack(l, NULL) = <<>>
         /\ \A e \in Events : Stack(l, e) = <<e>> \o Stack(l, l.nextInBin[e])
<1> DEFINE next == l.nextInBin
           step == [p \in Events \X Seq(Events) |-> <<p[1]>> \o p[2]]
<1>1. next \in [Events -> Events \cup {NULL}] /\ Acyclic(next)
  BY DEF Pointers, NoCycles
<1>2. step \in [Events \X Seq(Events) -> Seq(Events)] /\ <<>> \in Seq(Events)
  OBVIOUS
<1>3. PICK f \in [Events \cup {NULL} -> Seq(Events)] : Follows(f, next, <<>>, step)
  <2> HIDE DEF next, step
  <2>1. QED
    BY <1>1, <1>2, RecursionAlongLinks
<1>4. NULL \notin Events
  BY EventParameters
<1>5. \A e \in Events : f[e] = <<e>> \o f[next[e]]
  BY <1>1, <1>3 DEF Follows
<1>6. f = [e \in Events \cup {NULL} |-> IF e = NULL THEN <<>> ELSE <<e>> \o f[l.nextInBin[e]]]
  BY <1>3, <1>4, <1>5 DEF Follows
<1> HIDE DEF next, step
<1>7. StackFrom(l) = [e \in Events \cup {NULL} |->
        IF e = NULL THEN <<>> ELSE <<e>> \o StackFrom(l)[l.nextInBin[e]]]
  BY <1>6 DEF StackFrom
<1>8. QED
  BY <1>4, <1>7, StackIsStackFrom

(* The walk goes on while the next bin is before the event.                  *)
LEMMA WalkEquation ==
  ASSUME NEW l \in Pointers, NoCycles(l), NEW w, NEW e
  PROVE  \A p \in Events :
           WalkFrom(l, w, e)[p] =
             IF l.nextBin[p] # NULL /\ Before(w, l.nextBin[p], e)
               THEN WalkFrom(l, w, e)[l.nextBin[p]] ELSE p
<1> DEFINE next == l.nextBin
           on(p) == next[p] # NULL /\ Before(w, next[p], e)
           step == [p \in Events \X (Events \cup {NULL}) |-> IF on(p[1]) THEN p[2] ELSE p[1]]
<1>1. next \in [Events -> Events \cup {NULL}] /\ Acyclic(next)
  BY DEF Pointers, NoCycles
<1>2. step \in [Events \X (Events \cup {NULL}) -> Events \cup {NULL}]
  OBVIOUS
<1>3. PICK f \in [Events \cup {NULL} -> Events \cup {NULL}] : Follows(f, next, NULL, step)
  <2> HIDE DEF next, step
  <2>1. NULL \in Events \cup {NULL}
    OBVIOUS
  <2>2. QED
    BY <1>1, <1>2, <2>1, RecursionAlongLinks
<1>4. \A p \in Events : f[p] = IF on(p) THEN f[next[p]] ELSE p
  BY <1>1, <1>3 DEF Follows
<1> DEFINE g == [p \in Events |-> f[p]]
<1>5. \A p \in Events : on(p) => next[p] \in Events
  BY <1>1
<1>6. g = [p \in Events |->
        IF l.nextBin[p] # NULL /\ Before(w, l.nextBin[p], e) THEN g[l.nextBin[p]] ELSE p]
  BY <1>4, <1>5
<1> HIDE DEF g, next, step
<1>7. WalkFrom(l, w, e) = [p \in Events |->
        IF l.nextBin[p] # NULL /\ Before(w, l.nextBin[p], e)
          THEN WalkFrom(l, w, e)[l.nextBin[p]] ELSE p]
  BY <1>6 DEF WalkFrom
<1>8. QED
  BY <1>7

(* The contents are the stack of the first bin and those of the others.      *)
LEMMA ContentsEquation ==
  ASSUME NEW l \in Pointers, NoCycles(l), \A e \in Events : Stack(l, e) \in Seq(Events)
  PROVE  /\ ContentsFrom(l)[NULL] = <<>>
         /\ \A e \in Events : ContentsFrom(l)[e] = Stack(l, e) \o ContentsFrom(l)[l.nextBin[e]]
<1> DEFINE next == l.nextBin
           step == [p \in Events \X Seq(Events) |-> Stack(l, p[1]) \o p[2]]
<1>1. next \in [Events -> Events \cup {NULL}] /\ Acyclic(next)
  BY DEF Pointers, NoCycles
<1>2. step \in [Events \X Seq(Events) -> Seq(Events)] /\ <<>> \in Seq(Events)
  OBVIOUS
<1>3. PICK f \in [Events \cup {NULL} -> Seq(Events)] : Follows(f, next, <<>>, step)
  <2> HIDE DEF next, step
  <2>1. QED
    BY <1>1, <1>2, RecursionAlongLinks
<1>4. NULL \notin Events
  BY EventParameters
<1>5. \A e \in Events : f[e] = Stack(l, e) \o f[next[e]]
  BY <1>1, <1>3 DEF Follows
<1>6. f = [e \in Events \cup {NULL} |->
            IF e = NULL THEN <<>> ELSE Stack(l, e) \o f[l.nextBin[e]]]
  BY <1>3, <1>4, <1>5 DEF Follows
<1> HIDE DEF next, step
<1>7. ContentsFrom(l) = [e \in Events \cup {NULL} |->
        IF e = NULL THEN <<>> ELSE Stack(l, e) \o ContentsFrom(l)[l.nextBin[e]]]
  BY <1>6 DEF ContentsFrom
<1>8. QED
  BY <1>4, <1>7

(* Every stack is a sequence of events.                                      *)
LEMMA StackType ==
  ASSUME NEW l \in Pointers, NoCycles(l), NEW e \in Events
  PROVE  Stack(l, e) \in Seq(Events)
<1> DEFINE S == {x \in Events : Stack(l, x) \notin Seq(Events)}
<1>1. ASSUME S # {} PROVE FALSE
  <2>1. PICK x \in S : l.nextInBin[x] \notin S
    BY <1>1 DEF NoCycles, Acyclic
  <2>2. Stack(l, l.nextInBin[x]) \in Seq(Events)
    <3>1. l.nextInBin[x] \in Events \cup {NULL} /\ <<>> \in Seq(Events)
      BY <2>1 DEF Pointers
    <3>2. QED
      BY <2>1, <3>1, StackEquation
  <2>3. Stack(l, x) = <<x>> \o Stack(l, l.nextInBin[x])
    BY <2>1, StackEquation
  <2>4. QED
    BY <2>1, <2>2, <2>3
<1>2. QED
  BY <1>1

-----------------------------------------------------------------------------
(* Reading the lists.                                                        *)

(* The stack of the bin that ends at b, from any of its events down.         *)
LEMMA StackOfBin ==
  ASSUME NEW l, NEW w, NEW c, Holds(l, w, c), NEW i \in Positions(c), NEW b \in i .. Len(c),
         ~Before(w, c[i], c[b]), b = Len(c) \/ Before(w, c[i], c[b + 1])
  PROVE  Stack(l, c[i]) = SubSeq(c, i, b)
<1>1. /\ l \in Pointers /\ NoCycles(l) /\ w \in Ticked
      /\ c \in Seq(Events) /\ Ordered(w, c) /\ Linked(l, w, c)
  BY DEF Holds
<1>2. i \in Nat /\ Len(c) \in Nat /\ i \in 1 .. Len(c) /\ b \in Positions(c) /\ i <= b
  BY <1>1, PositionFacts DEF Positions
<1>3. \A j \in i .. b : j \in Positions(c) /\ c[j] \in Events
  BY <1>1, <1>2, PositionFacts DEF Positions
<1> DEFINE T == {j \in i .. b : Stack(l, c[j]) = SubSeq(c, j, b)}
<1>4. ASSUME NEW j \in i .. b, \A k \in j + 1 .. b : k \in T
      PROVE  j \in T
  <2>1. ~Before(w, c[i], c[j]) /\ ~Before(w, c[j], c[b])
    BY <1>1, <1>2, BinIsInterval
  <2>2. Stack(l, c[j]) = <<c[j]>> \o Stack(l, l.nextInBin[c[j]])
    BY <1>1, <1>3, StackEquation
  <2>3. SubSeq(c, j, b) = <<c[j]>> \o SubSeq(c, j + 1, b)
    <3>1. j \in 1 .. Len(c) /\ b \in j .. Len(c)
      BY <1>2
    <3>2. QED
      BY <1>1, <3>1, SubSeqRecursiveFirst
  <2>4. CASE j < b
    <3>1. j + 1 \in j .. b /\ j <= b /\ j + 1 \in T /\ j < Len(c)
      BY <1>2, <1>4, <2>4
    <3>2. ~Before(w, c[j], c[j + 1])
      BY <1>1, <1>2, <1>3, <2>1, <3>1, BinIsInterval
    <3>3. l.nextInBin[c[j]] = c[j + 1]
      BY <1>1, <1>3, <3>1, <3>2 DEF Linked
    <3>4. QED
      BY <2>2, <2>3, <3>1, <3>3
  <2>5. CASE j = b
    <3>1. b < Len(c) => Before(w, c[b], c[b + 1])
      <4>1. b < Len(c) => b + 1 \in Positions(c) /\ c[b + 1] \in Events
        BY <1>1, <1>2, PositionFacts DEF Positions
      <4>2. c[i] \in Events /\ c[b] \in Events
        BY <1>2, <1>3
      <4>3. QED
        BY <1>1, <4>1, <4>2, OrderFacts
    <3>2. l.nextInBin[c[j]] = NULL
      BY <1>1, <1>2, <2>5, <3>1 DEF Linked
    <3>3. Stack(l, NULL) = <<>>
      BY <1>1, StackEquation
    <3>4. SubSeq(c, j + 1, b) = <<>>
      BY <1>2, <2>5, SubSeqEmpty
    <3>5. QED
      BY <2>2, <2>3, <3>2, <3>3, <3>4
  <2>6. QED
    BY <2>4, <2>5
<1>5. i \in Int /\ b \in Int /\ i \in i .. b
  BY <1>2
<1>6. i \in T
  <2> HIDE DEF T
  <2>1. QED
    BY <1>4, <1>5, DownInduction
<1>7. QED
  BY <1>6

(* An event is on the stack of another one when it is below it in its bin.   *)
LEMMA OnStack ==
  ASSUME NEW l, NEW w, NEW c, Holds(l, w, c), NEW i \in Positions(c), NEW x
  PROVE  InStack(l, x, c[i]) <=> \E k \in Positions(c) : k >= i /\ ~Before(w, c[i], c[k]) /\ x = c[k]
<1>1. /\ w \in Ticked /\ c \in Seq(Events) /\ Ordered(w, c)
  BY DEF Holds
<1>2. i \in Nat /\ Len(c) \in Nat /\ i \in 1 .. Len(c)
  BY <1>1, PositionFacts DEF Positions
<1>3. PICK b \in i .. Len(c) : ~Before(w, c[i], c[b]) /\ (b = Len(c) \/ Before(w, c[i], c[b + 1]))
  BY <1>1, BinHasEnd
<1>4. Stack(l, c[i]) = SubSeq(c, i, b)
  BY <1>3, StackOfBin
<1>5. b \in Positions(c)
  BY <1>2 DEF Positions
<1>6. ASSUME NEW k \in Positions(c), k >= i
      PROVE  ~Before(w, c[i], c[k]) <=> k <= b
  <2>1. CASE k <= b
    BY <1>1, <1>2, <1>3, <1>5, <1>6, <2>1, BinIsInterval DEF Positions
  <2>2. CASE k > b
    <3>1. b + 1 \in Positions(c) /\ Before(w, c[i], c[b + 1])
      BY <1>2, <1>3, <2>2 DEF Positions
    <3>2. k = b + 1 \/ ~Before(w, c[k], c[b + 1])
      BY <1>1, <1>2, <2>2, <3>1 DEF Ordered, Positions
    <3>3. c[i] \in Events /\ c[k] \in Events /\ c[b + 1] \in Events
      BY <1>1, <3>1, PositionFacts
    <3>4. Before(w, c[i], c[k])
      BY <1>1, <3>1, <3>2, <3>3, OrderFacts
    <3>5. QED
      BY <1>2, <2>2, <3>4 DEF Positions
  <2>3. QED
    BY <1>2, <2>1, <2>2 DEF Positions
<1>7. /\ Len(SubSeq(c, i, b)) = b - i + 1
      /\ DOMAIN SubSeq(c, i, b) = 1 .. b - i + 1
      /\ \A k \in 1 .. b - i + 1 : SubSeq(c, i, b)[k] = c[i + k - 1]
  <2>1. \A k \in i .. b : c[k] \in Events
    BY <1>1, <1>2, PositionFacts DEF Positions
  <2>2. i \in Int /\ b \in Int /\ i <= b
    BY <1>2
  <2>3. /\ SubSeq(c, i, b) \in Seq(Events)
        /\ Len(SubSeq(c, i, b)) = b - i + 1
        /\ \A k \in 1 .. b - i + 1 : SubSeq(c, i, b)[k] = c[i + k - 1]
    BY <2>1, <2>2, SubSeqProperties
  <2>4. QED
    BY <2>3
<1>8. ASSUME NEW k \in 1 .. b - i + 1
      PROVE  /\ i + k - 1 \in Positions(c) /\ i + k - 1 >= i /\ ~Before(w, c[i], c[i + k - 1])
             /\ SubSeq(c, i, b)[k] = c[i + k - 1]
  <2>1. i + k - 1 \in Positions(c) /\ i + k - 1 >= i /\ i + k - 1 <= b
    BY <1>2 DEF Positions
  <2>2. QED
    BY <1>6, <1>7, <2>1
<1>9. ASSUME NEW k \in Positions(c), k >= i, ~Before(w, c[i], c[k])
      PROVE  k - i + 1 \in 1 .. b - i + 1 /\ SubSeq(c, i, b)[k - i + 1] = c[k]
  <2>1. k <= b
    BY <1>6, <1>9
  <2>2. k - i + 1 \in 1 .. b - i + 1 /\ i + (k - i + 1) - 1 = k
    BY <1>2, <1>9, <2>1 DEF Positions
  <2>3. QED
    BY <1>7, <2>2
<1>10. InStack(l, x, c[i]) <=> \E k \in 1 .. b - i + 1 : SubSeq(c, i, b)[k] = x
  BY <1>4, <1>7 DEF InStack
<1>11. QED
  BY <1>8, <1>9, <1>10

(* The walk from a bin before the event e stops at the last such bin.        *)
LEMMA WalkStops ==
  ASSUME NEW l, NEW w, NEW c, Holds(l, w, c), NEW e \in Events,
         NEW i \in Positions(c), IsTop(w, c, i), Before(w, c[i], e)
  PROVE  \E k \in Positions(c) :
           /\ WalkFrom(l, w, e)[c[i]] = c[k]
           /\ IsTop(w, c, k) /\ Before(w, c[k], e)
           /\ \A j \in Positions(c) : Before(w, c[k], c[j]) => ~Before(w, c[j], e)
<1>1. /\ l \in Pointers /\ NoCycles(l) /\ w \in Ticked
      /\ c \in Seq(Events) /\ Ordered(w, c) /\ Linked(l, w, c)
  BY DEF Holds
<1>2. NULL \notin Events /\ Len(c) \in Nat /\ \A j \in Positions(c) : c[j] \in Events
  BY <1>1, EventParameters, PositionFacts
<1> DEFINE Last(p, k) == /\ WalkFrom(l, w, e)[c[p]] = c[k]
                         /\ IsTop(w, c, k) /\ Before(w, c[k], e)
                         /\ \A j \in Positions(c) : Before(w, c[k], c[j]) => ~Before(w, c[j], e)
           T == {p \in Positions(c) : IsTop(w, c, p) /\ Before(w, c[p], e) =>
                                        \E k \in Positions(c) : Last(p, k)}
<1>3. ASSUME NEW p \in 1 .. Len(c), \A j \in p + 1 .. Len(c) : j \in T
      PROVE  p \in T
  <2> SUFFICES ASSUME IsTop(w, c, p), Before(w, c[p], e)
               PROVE  \E k \in Positions(c) : Last(p, k)
    BY DEF Positions
  <2>1. p \in Positions(c)
    BY DEF Positions
  <2>2. WalkFrom(l, w, e)[c[p]] =
          IF l.nextBin[c[p]] # NULL /\ Before(w, l.nextBin[c[p]], e)
            THEN WalkFrom(l, w, e)[l.nextBin[c[p]]] ELSE c[p]
    BY <1>1, <1>2, <2>1, WalkEquation
  <2>3. CASE InLastBin(w, c, p) /\ \A k \in Positions(c) : ~Before(w, c[p], c[k])
    <3>1. l.nextBin[c[p]] = NULL
      BY <1>1, <2>1, <2>3 DEF Linked
    <3>2. Last(p, p)
      BY <2>2, <2>3, <3>1
    <3>3. QED
      BY <2>1, <3>2
  <2>4. CASE \E j \in Positions(c) :
               /\ NextBinAt(w, c, p, j) /\ IsTop(w, c, j)
               /\ \A k \in Positions(c) : Before(w, c[p], c[k]) <=> k >= j
    <3>1. PICK j \in Positions(c) :
               /\ NextBinAt(w, c, p, j) /\ IsTop(w, c, j)
               /\ \A k \in Positions(c) : Before(w, c[p], c[k]) <=> k >= j
      BY <2>4
    <3>2. l.nextBin[c[p]] = c[j] /\ c[j] \in Events /\ c[j] # NULL
      BY <1>1, <1>2, <2>1, <3>1 DEF Linked
    <3>3. CASE Before(w, c[j], e)
      <4>1. j \in p + 1 .. Len(c)
        BY <3>1 DEF NextBinAt
      <4>2. PICK k \in Positions(c) : Last(j, k)
        BY <1>3, <3>1, <3>3, <4>1
      <4>3. Last(p, k)
        BY <2>2, <3>2, <3>3, <4>2
      <4>4. QED
        BY <4>3
    <3>4. CASE ~Before(w, c[j], e)
      <4>1. WalkFrom(l, w, e)[c[p]] = c[p]
        BY <2>2, <3>2, <3>4
      <4>2. ASSUME NEW k \in Positions(c), Before(w, c[p], c[k])
            PROVE  ~Before(w, c[k], e)
        <5>1. j = k \/ ~Before(w, c[k], c[j])
          BY <1>1, <3>1, <4>2 DEF Ordered, Positions
        <5>2. QED
          BY <1>1, <1>2, <3>2, <3>4, <4>2, <5>1, OrderFacts
      <4>3. Last(p, p)
        BY <4>1, <4>2
      <4>4. QED
        BY <2>1, <4>3
    <3>5. QED
      BY <3>3, <3>4
  <2>5. QED
    BY <1>1, <2>1, <2>3, <2>4, NextBinExists
<1>4. 1 \in Int /\ Len(c) \in Int /\ i \in 1 .. Len(c)
  BY <1>2 DEF Positions
<1>5. i \in T
  <2> HIDE DEF T
  <2>1. QED
    BY <1>3, <1>4, DownInduction
<1>6. QED
  BY <1>5

(* From the head: the last bin before e, when the first one is before it.    *)
LEMMA LastBeforeIs ==
  ASSUME NEW l, NEW w, NEW c, Holds(l, w, c), NEW e \in Events,
         c # <<>>, Before(w, c[1], e)
  PROVE  \E k \in Positions(c) :
           /\ LastBefore(l, w, e) = c[k]
           /\ IsTop(w, c, k) /\ Before(w, c[k], e)
           /\ \A j \in Positions(c) : Before(w, c[k], c[j]) => ~Before(w, c[j], e)
<1>1. c \in Seq(Events) /\ l.head = c[1]
  BY DEF Holds, Linked
<1>2. 1 \in Positions(c) /\ IsTop(w, c, 1)
  BY <1>1, PositionFacts DEF Positions, IsTop
<1>3. QED
  BY <1>1, <1>2, WalkStops, LastBeforeIsWalk

(* The contents, from the top of a bin on.                                   *)
LEMMA ContentsFromTop ==
  ASSUME NEW l, NEW w, NEW c, Holds(l, w, c), NEW i \in Positions(c), IsTop(w, c, i)
  PROVE  ContentsFrom(l)[c[i]] = SubSeq(c, i, Len(c))
<1>1. /\ l \in Pointers /\ NoCycles(l) /\ w \in Ticked
      /\ c \in Seq(Events) /\ Ordered(w, c) /\ Linked(l, w, c)
  BY DEF Holds
<1>2. Len(c) \in Nat /\ \A j \in Positions(c) : c[j] \in Events
  BY <1>1, PositionFacts
<1> DEFINE T == {p \in Positions(c) :
                   IsTop(w, c, p) => ContentsFrom(l)[c[p]] = SubSeq(c, p, Len(c))}
<1>3. ASSUME NEW p \in 1 .. Len(c), \A j \in p + 1 .. Len(c) : j \in T
      PROVE  p \in T
  <2> SUFFICES ASSUME IsTop(w, c, p)
               PROVE  ContentsFrom(l)[c[p]] = SubSeq(c, p, Len(c))
    BY DEF Positions
  <2>1. p \in Positions(c)
    BY DEF Positions
  <2>2. /\ ContentsFrom(l)[NULL] = <<>>
        /\ ContentsFrom(l)[c[p]] = Stack(l, c[p]) \o ContentsFrom(l)[l.nextBin[c[p]]]
    <3>1. \A e \in Events : Stack(l, e) \in Seq(Events)
      BY <1>1, StackType
    <3>2. QED
      BY <1>1, <1>2, <2>1, <3>1, ContentsEquation
  <2>3. PICK b \in p .. Len(c) : ~Before(w, c[p], c[b]) /\ (b = Len(c) \/ Before(w, c[p], c[b + 1]))
    BY <1>1, <2>1, BinHasEnd
  <2>4. Stack(l, c[p]) = SubSeq(c, p, b)
    BY <2>1, <2>3, StackOfBin
  <2>5. CASE InLastBin(w, c, p) /\ \A k \in Positions(c) : ~Before(w, c[p], c[k])
    <3>1. l.nextBin[c[p]] = NULL
      BY <1>1, <2>1, <2>5 DEF Linked
    <3>2. b = Len(c)
      <4>1. b # Len(c) => b + 1 \in Positions(c)
        BY <1>2 DEF Positions
      <4>2. QED
        BY <2>3, <2>5, <4>1
    <3>3. SubSeq(c, p, b) \in Seq(Events)
      BY <1>1, <1>2, <2>4, <2>1, StackType
    <3>4. QED
      BY <2>2, <2>4, <3>1, <3>2, <3>3
  <2>6. CASE \E j \in Positions(c) :
               /\ NextBinAt(w, c, p, j) /\ IsTop(w, c, j)
               /\ \A k \in Positions(c) : Before(w, c[p], c[k]) <=> k >= j
    <3>1. PICK j \in Positions(c) :
               /\ NextBinAt(w, c, p, j) /\ IsTop(w, c, j)
               /\ \A k \in Positions(c) : Before(w, c[p], c[k]) <=> k >= j
      BY <2>6
    <3>2. l.nextBin[c[p]] = c[j]
      BY <1>1, <2>1, <3>1 DEF Linked
    <3>3. j = b + 1
      <4>1. b \in Positions(c) /\ b < j
        BY <1>2, <2>3, <3>1 DEF Positions
      <4>2. b # Len(c) /\ b + 1 \in Positions(c)
        BY <1>2, <3>1, <4>1 DEF Positions
      <4>3. b + 1 >= j
        BY <2>3, <3>1, <4>2
      <4>4. QED
        BY <1>2, <4>1, <4>3 DEF Positions
    <3>4. ContentsFrom(l)[c[j]] = SubSeq(c, j, Len(c))
      <4>1. j \in p + 1 .. Len(c)
        BY <3>1 DEF NextBinAt
      <4>2. QED
        BY <1>3, <3>1, <4>1
    <3>5. SubSeq(c, p, b) \o SubSeq(c, b + 1, Len(c)) = SubSeq(c, p, Len(c))
      <4>1. p \in 1 .. Len(c) + 1 /\ b \in p - 1 .. Len(c) /\ Len(c) \in b .. Len(c)
        BY <1>2
      <4>2. QED
        BY <1>1, <4>1, ConcatAdjacentSubSeq
    <3>6. QED
      BY <2>2, <2>4, <3>2, <3>3, <3>4, <3>5
  <2>7. QED
    BY <1>1, <2>1, <2>5, <2>6, NextBinExists
<1>4. 1 \in Int /\ Len(c) \in Int /\ i \in 1 .. Len(c)
  BY <1>2 DEF Positions
<1>5. i \in T
  <2> HIDE DEF T
  <2>1. QED
    BY <1>3, <1>4, DownInduction
<1>6. QED
  BY <1>5

(* The contents are the sequence held.                                       *)
LEMMA ContentsAreHeld ==
  ASSUME NEW c, Holds(q, when, c)
  PROVE  Contents = c
<1>1. q \in Pointers /\ NoCycles(q) /\ c \in Seq(Events) /\ Linked(q, when, c)
  BY DEF Holds
<1>2. CASE c = <<>>
  <2>1. q.head = NULL
    BY <1>1, <1>2 DEF Linked
  <2>2. ContentsFrom(q)[NULL] = <<>>
    BY <1>1, ContentsEquation, StackType
  <2>3. QED
    BY <1>2, <2>1, <2>2, ContentsAreContentsFrom
<1>3. CASE c # <<>>
  <2>1. q.head = c[1] /\ 1 \in Positions(c) /\ IsTop(when, c, 1)
    BY <1>1, <1>3, PositionFacts DEF Linked, Positions, IsTop
  <2>2. ContentsFrom(q)[c[1]] = SubSeq(c, 1, Len(c))
    BY <2>1, ContentsFromTop
  <2>3. QED
    BY <1>1, <2>1, <2>2, SubSeqFull, ContentsAreContentsFrom
<1>4. QED
  BY <1>2, <1>3

-----------------------------------------------------------------------------
(* Changing the lists.                                                       *)

(* Nothing is between a bin and the next one, or after the last one.         *)
LEMMA NextBinFacts ==
  ASSUME NEW w \in Ticked, NEW c \in Seq(Events), Ordered(w, c), NEW i \in Positions(c)
  PROVE  /\ \A j \in Positions(c) : NextBinAt(w, c, i, j) =>
              \A k \in Positions(c) : Before(w, c[i], c[k]) <=> k >= j
         /\ InLastBin(w, c, i) => \A k \in Positions(c) : ~Before(w, c[i], c[k])
<1>1. Len(c) \in Nat /\ i \in 1 .. Len(c) /\ Len(c) \in Positions(c)
  BY PositionFacts DEF Positions
<1>2. \A k \in Positions(c) : c[k] \in Events
  BY PositionFacts
<1>3. ASSUME NEW j \in Positions(c), NextBinAt(w, c, i, j), NEW k \in Positions(c)
      PROVE  Before(w, c[i], c[k]) <=> k >= j
  <2>1. j - 1 \in Positions(c) /\ Before(w, c[i], c[j]) /\ ~Before(w, c[i], c[j - 1])
    BY <1>1, <1>3 DEF NextBinAt, Positions
  <2>2. CASE k >= j
    <3>1. k = j \/ ~Before(w, c[k], c[j])
      BY <1>3, <2>2 DEF Ordered, Positions
    <3>2. QED
      BY <1>2, <2>1, <2>2, <3>1, OrderFacts
  <2>3. CASE k < j
    <3>1. k = j - 1 \/ ~Before(w, c[j - 1], c[k])
      BY <1>3, <2>1, <2>3 DEF Ordered, Positions
    <3>2. ~Before(w, c[i], c[k])
      BY <1>2, <2>1, <3>1, OrderFacts
    <3>3. QED
      BY <2>3, <3>2 DEF Positions
  <2>4. QED
    BY <1>1, <2>2, <2>3 DEF Positions
<1>4. ASSUME InLastBin(w, c, i), NEW k \in Positions(c)
      PROVE  ~Before(w, c[i], c[k])
  <2>1. k = Len(c) \/ ~Before(w, c[Len(c)], c[k])
    BY <1>1 DEF Ordered, Positions
  <2>2. QED
    BY <1>1, <1>2, <1>4, <2>1, OrderFacts DEF InLastBin
<1>5. QED
  BY <1>3, <1>4

(* A bin has one top, in front of the other events.                          *)
LEMMA TopIsFirst ==
  ASSUME NEW w \in Ticked, NEW c \in Seq(Events), Ordered(w, c),
         NEW i \in Positions(c), IsTop(w, c, i), NEW j \in Positions(c), ~Before(w, c[j], c[i])
  PROVE  i <= j
<1> SUFFICES ASSUME j < i PROVE FALSE
  BY PositionFacts DEF Positions
<1>1. i - 1 \in Positions(c) /\ Before(w, c[i - 1], c[i])
  BY PositionFacts DEF Positions, IsTop
<1>2. j = i - 1 \/ ~Before(w, c[i - 1], c[j])
  BY <1>1 DEF Ordered, Positions
<1>3. c[i] \in Events /\ c[j] \in Events /\ c[i - 1] \in Events
  BY <1>1, PositionFacts
<1>4. QED
  BY <1>1, <1>2, <1>3, OrderFacts

(* The links of the events at I go forward in c, and the others are as       *)
(* before.                                                                   *)
Forward(new, c, I) ==
  \A i \in I : new[c[i]] = NULL \/ \E j \in I : j > i /\ new[c[i]] = c[j]
SameElsewhere(old, new, c, I) ==
  \A e \in Events : new[e] = old[e] \/ \E i \in I : e = c[i]

(* Links that go forward along a sequence make no cycle, nor do they with    *)
(* those that did not.                                                       *)
LEMMA ForwardLinks ==
  ASSUME NEW old \in [Events -> Events \cup {NULL}], Acyclic(old),
         NEW new \in [Events -> Events \cup {NULL}],
         NEW c \in Seq(Events), NEW I \in SUBSET Positions(c),
         Forward(new, c, I), SameElsewhere(old, new, c, I)
  PROVE  Acyclic(new)
<1> SUFFICES ASSUME NEW S \in SUBSET Events, S # {}
             PROVE  \E x \in S : new[x] \notin S
  BY DEF Acyclic
<1>1. NULL \notin Events /\ Len(c) \in Nat /\ \A i \in I : i \in 1 .. Len(c) /\ c[i] \in Events
  BY EventParameters, PositionFacts DEF Positions
<1> DEFINE Back == {d \in Nat : \E i \in I : c[i] \in S /\ d = Len(c) - i}
<1>2. CASE Back = {}
  <2>1. ASSUME NEW i \in I, c[i] \in S PROVE FALSE
    <3>1. Len(c) - i \in Nat
      BY <1>1
    <3>2. QED
      BY <1>2, <2>1, <3>1
  <2>2. PICK x \in S : old[x] \notin S
    BY DEF Acyclic
  <2>3. QED
    BY <2>1, <2>2 DEF SameElsewhere
<1>3. CASE Back # {}
  <2>1. PICK d \in Back : \A x \in Back : d <= x
    BY <1>3, LeastElement
  <2>2. PICK i \in I : c[i] \in S /\ d = Len(c) - i
    BY <2>1
  <2>3. ASSUME NEW j \in I, j > i, c[j] \in S PROVE FALSE
    <3>1. Len(c) - j \in Nat /\ Len(c) - j < d
      BY <1>1, <2>2, <2>3
    <3>2. Len(c) - j \in Back
      BY <2>3, <3>1
    <3>3. QED
      BY <1>1, <2>1, <3>1, <3>2
  <2>4. QED
    BY <1>1, <2>2, <2>3 DEF Forward
<1>4. QED
  BY <1>2, <1>3

(* Neither list gets a cycle when only the links of events held change.      *)
LEMMA StillNoCycles ==
  ASSUME NEW l \in Pointers, NoCycles(l), NEW k \in Pointers,
         NEW w \in Ticked, NEW c \in Seq(Events), Ordered(w, c), Linked(k, w, c),
         \A e \in Events : \/ k.nextBin[e] = l.nextBin[e]
                           \/ \E i \in Positions(c) : IsTop(w, c, i) /\ e = c[i],
         \A e \in Events : k.nextInBin[e] = l.nextInBin[e] \/ \E i \in Positions(c) : e = c[i]
  PROVE  NoCycles(k)
<1>1. /\ l.nextBin \in [Events -> Events \cup {NULL}]
      /\ l.nextInBin \in [Events -> Events \cup {NULL}]
      /\ k.nextBin \in [Events -> Events \cup {NULL}]
      /\ k.nextInBin \in [Events -> Events \cup {NULL}]
      /\ Acyclic(l.nextBin) /\ Acyclic(l.nextInBin)
  BY DEF Pointers, NoCycles
<1>2. Acyclic(k.nextBin)
  <2> DEFINE Tops == {i \in Positions(c) : IsTop(w, c, i)}
  <2>1. ASSUME NEW i \in Tops
        PROVE  k.nextBin[c[i]] = NULL \/ \E j \in Tops : j > i /\ k.nextBin[c[i]] = c[j]
    <3>1. CASE InLastBin(w, c, i)
      BY <3>1 DEF Linked
    <3>2. CASE \E j \in Positions(c) : NextBinAt(w, c, i, j) /\ IsTop(w, c, j)
      <4>1. PICK j \in Positions(c) : NextBinAt(w, c, i, j) /\ IsTop(w, c, j)
        BY <3>2
      <4>2. j > i
        BY <4>1, PositionFacts DEF NextBinAt, Positions
      <4>3. QED
        BY <4>1, <4>2 DEF Linked
    <3>3. QED
      BY <3>1, <3>2, NextBinExists
  <2>2. Forward(k.nextBin, c, Tops) /\ SameElsewhere(l.nextBin, k.nextBin, c, Tops)
    BY <2>1 DEF Forward, SameElsewhere
  <2>3. Tops \in SUBSET Positions(c)
    OBVIOUS
  <2> HIDE DEF Tops
  <2>4. QED
    BY <1>1, <2>2, <2>3, ForwardLinks
<1>3. Acyclic(k.nextInBin)
  <2>1. ASSUME NEW i \in Positions(c)
        PROVE  \/ k.nextInBin[c[i]] = NULL
               \/ \E j \in Positions(c) : j > i /\ k.nextInBin[c[i]] = c[j]
    <3>1. CASE i < Len(c)
      <4>1. i + 1 \in Positions(c) /\ i + 1 > i
        BY <3>1, PositionFacts DEF Positions
      <4>2. QED
        BY <4>1 DEF Linked
    <3>2. CASE ~(i < Len(c))
      BY <3>2 DEF Linked
    <3>3. QED
      BY <3>1, <3>2
  <2>2. /\ Forward(k.nextInBin, c, Positions(c))
        /\ SameElsewhere(l.nextInBin, k.nextInBin, c, Positions(c))
    BY <2>1 DEF Forward, SameElsewhere
  <2>3. QED
    BY <1>1, <2>2, ForwardLinks
<1>4. QED
  BY <1>2, <1>3 DEF NoCycles

-----------------------------------------------------------------------------
(* insert().                                                                 *)

(* e goes to position m + 1.                                                 *)
InsertedAt(c, m, e) ==
  [i \in 1 .. Len(c) + 1 |-> IF i <= m THEN c[i] ELSE IF i = m + 1 THEN e ELSE c[i - 1]]

(* The events in front of m + 1 are before e, the others are not.            *)
Divides(w, c, m, e) ==
  /\ m \in 0 .. Len(c)
  /\ \A i \in Positions(c) : Before(w, c[i], e) <=> i <= m

NotIn(e, c) == \A i \in Positions(c) : c[i] # e

(* There is such a position.                                                 *)
LEMMA DividesExists ==
  ASSUME NEW w \in Ticked, NEW c \in Seq(Events), Ordered(w, c), NEW e \in Events
  PROVE  \E m \in 0 .. Len(c) : Divides(w, c, m, e)
<1>1. Len(c) \in Nat /\ \A i \in Positions(c) : c[i] \in Events
  BY PositionFacts
<1> DEFINE T == {i \in Positions(c) : ~Before(w, c[i], e)}
<1>2. CASE T = {}
  <2>1. Divides(w, c, Len(c), e)
    BY <1>1, <1>2 DEF Divides, Positions
  <2>2. QED
    BY <1>1, <2>1
<1>3. CASE T # {}
  <2>1. T \in SUBSET Nat
    BY DEF Positions
  <2>2. PICK k \in T : \A j \in T : k <= j
    <3> HIDE DEF T
    <3>1. QED
      BY <1>3, <2>1, LeastElement
  <2>3. k - 1 \in 0 .. Len(c) /\ k \in Positions(c)
    BY <1>1, <2>2 DEF Positions
  <2>4. ASSUME NEW i \in Positions(c)
        PROVE  Before(w, c[i], e) <=> i <= k - 1
    <3>1. CASE i < k
      BY <1>1, <2>2, <2>3, <2>4, <3>1 DEF Positions
    <3>2. CASE i >= k
      <4>1. i = k \/ ~Before(w, c[i], c[k])
        BY <2>3, <3>2 DEF Ordered, Positions
      <4>2. ~Before(w, c[k], e)
        BY <2>2
      <4>3. ~Before(w, c[i], e)
        BY <1>1, <2>3, <4>1, <4>2, OrderFacts
      <4>4. QED
        BY <2>3, <3>2, <4>3 DEF Positions
    <3>3. QED
      BY <2>3, <3>1, <3>2 DEF Positions
  <2>5. QED
    BY <2>3, <2>4 DEF Divides
<1>4. QED
  BY <1>2, <1>3

(* The sequence with e in its place is ordered.                              *)
LEMMA InsertedIsOrdered ==
  ASSUME NEW w \in Ticked, NEW c \in Seq(Events), Ordered(w, c), NEW e \in Events,
         NotIn(e, c), NEW m \in 0 .. Len(c), Divides(w, c, m, e)
  PROVE  /\ InsertedAt(c, m, e) \in Seq(Events)
         /\ Len(InsertedAt(c, m, e)) = Len(c) + 1
         /\ InsertedAt(c, m, e)[m + 1] = e
         /\ \A i \in Positions(c) :
              /\ i <= m => InsertedAt(c, m, e)[i] = c[i]
              /\ i > m => InsertedAt(c, m, e)[i + 1] = c[i]
         /\ Ordered(w, InsertedAt(c, m, e))
<1> DEFINE d == InsertedAt(c, m, e)
<1>1. Len(c) \in Nat /\ m \in Int /\ 0 <= m /\ m <= Len(c) /\ \A i \in Positions(c) : c[i] \in Events
  BY PositionFacts
<1>2. /\ d \in Seq(Events) /\ Len(d) = Len(c) + 1
      /\ \A i \in 1 .. Len(c) + 1 :
           d[i] = IF i <= m THEN c[i] ELSE IF i = m + 1 THEN e ELSE c[i - 1]
  <2>1. \A i \in 1 .. Len(c) + 1 :
          (IF i <= m THEN c[i] ELSE IF i = m + 1 THEN e ELSE c[i - 1]) \in Events
    BY <1>1 DEF Positions
  <2>2. QED
    BY <1>1, <2>1 DEF InsertedAt
<1> HIDE DEF d
<1>3. d[m + 1] = e
  BY <1>1, <1>2
<1>4. \A i \in Positions(c) : (i <= m => d[i] = c[i]) /\ (i > m => d[i + 1] = c[i])
  BY <1>1, <1>2 DEF Positions
<1>5. \A i \in Positions(d) :
        \/ i <= m /\ i \in Positions(c) /\ d[i] = c[i]
        \/ i = m + 1 /\ d[i] = e
        \/ i > m + 1 /\ i - 1 \in Positions(c) /\ d[i] = c[i - 1]
  BY <1>1, <1>2 DEF Positions
<1>6. ASSUME NEW i \in Positions(d), NEW j \in Positions(d), i < j
      PROVE  ~Before(w, d[j], d[i]) /\ d[i] # d[j]
  <2>1. CASE i <= m /\ i \in Positions(c) /\ d[i] = c[i]
    <3>1. CASE j <= m /\ j \in Positions(c) /\ d[j] = c[j]
      BY <1>6, <2>1, <3>1 DEF Ordered, Positions
    <3>2. CASE j = m + 1 /\ d[j] = e
      BY <1>1, <2>1, <3>2, OrderFacts DEF Divides, NotIn
    <3>3. CASE j > m + 1 /\ j - 1 \in Positions(c) /\ d[j] = c[j - 1]
      <4>1. i < j - 1
        BY <1>1, <2>1, <3>3 DEF Positions
      <4>2. QED
        BY <2>1, <3>3, <4>1 DEF Ordered, Positions
    <3>4. QED
      BY <1>5, <3>1, <3>2, <3>3
  <2>2. CASE i = m + 1 /\ d[i] = e
    <3>1. j > m + 1 /\ j - 1 \in Positions(c) /\ d[j] = c[j - 1]
      BY <1>1, <1>5, <1>6, <2>2 DEF Positions
    <3>2. ~(j - 1 <= m)
      BY <1>1, <3>1 DEF Positions
    <3>3. QED
      BY <1>1, <2>2, <3>1, <3>2 DEF Divides, NotIn
  <2>3. CASE i > m + 1 /\ i - 1 \in Positions(c) /\ d[i] = c[i - 1]
    <3>1. j > m + 1 /\ j - 1 \in Positions(c) /\ d[j] = c[j - 1]
      BY <1>1, <1>5, <1>6, <2>3 DEF Positions
    <3>2. i - 1 < j - 1
      BY <1>6 DEF Positions
    <3>3. QED
      BY <2>3, <3>1, <3>2 DEF Ordered, Positions
  <2>4. QED
    BY <1>5, <2>1, <2>2, <2>3
<1>7. Ordered(w, d)
  BY <1>2, <1>6 DEF Ordered, Positions
<1>8. QED
  BY <1>2, <1>3, <1>4, <1>7 DEF d

(* The event after position m, which ends the walk.                          *)
After(c, m) == IF m < Len(c) THEN c[m + 1] ELSE NULL

(* The links insert() sets: those of e, and the link to it from the top p of *)
(* the bin before it or from the head.                                       *)
LEMMA InsertLinks ==
  ASSUME NEW l, NEW w, NEW c, Holds(l, w, c), NEW e \in Events, NotIn(e, c),
         NEW m \in 0 .. Len(c), Divides(w, c, m, e)
  PROVE  \E p \in 0 .. m :
           /\ p = 0 <=> m = 0
           /\ p # 0 => IsTop(w, c, p) /\ ~Before(w, c[p], c[m])
           /\ Insert(l, w, e) \in Pointers
           /\ Insert(l, w, e).head = IF m = 0 THEN e ELSE c[1]
           /\ \A x \in Events \ {e} :
                /\ Insert(l, w, e).nextInBin[x] = l.nextInBin[x]
                /\ Insert(l, w, e).nextBin[x] = IF p # 0 /\ x = c[p] THEN e ELSE l.nextBin[x]
           /\ IF After(c, m) = NULL \/ Before(w, e, After(c, m))
                THEN /\ Insert(l, w, e).nextInBin[e] = NULL
                     /\ Insert(l, w, e).nextBin[e] = After(c, m)
                ELSE /\ Insert(l, w, e).nextInBin[e] = After(c, m)
                     /\ Insert(l, w, e).nextBin[e] = l.nextBin[After(c, m)]
<1>1. /\ l \in Pointers /\ NoCycles(l) /\ w \in Ticked
      /\ c \in Seq(Events) /\ Ordered(w, c) /\ Linked(l, w, c)
  BY DEF Holds
<1>2. /\ Len(c) \in Nat /\ m \in Int /\ 0 <= m /\ m <= Len(c)
      /\ \A i \in Positions(c) : c[i] \in Events
      /\ NULL \notin Events
  BY <1>1, EventParameters, PositionFacts
<1> DEFINE nxt == After(c, m)
           k == InsertBefore(l, w, e, nxt)
<1>3. nxt \in Events \cup {NULL}
  BY <1>2 DEF After, Positions
<1>4. /\ k \in Pointers /\ k.head = l.head
      /\ \A x \in Events \ {e} : k.nextInBin[x] = l.nextInBin[x] /\ k.nextBin[x] = l.nextBin[x]
      /\ IF nxt = NULL \/ Before(w, e, nxt)
           THEN k.nextInBin[e] = NULL /\ k.nextBin[e] = nxt
           ELSE k.nextInBin[e] = nxt /\ k.nextBin[e] = l.nextBin[nxt]
  <2> HIDE DEF nxt
  <2>1. CASE nxt = NULL \/ Before(w, e, nxt)
    <3>1. k = [l EXCEPT !.nextBin[e] = nxt, !.nextInBin[e] = NULL]
      BY <2>1 DEF InsertBefore
    <3> HIDE DEF k
    <3>2. /\ k.head = l.head
          /\ k.nextBin = [l.nextBin EXCEPT ![e] = nxt]
          /\ k.nextInBin = [l.nextInBin EXCEPT ![e] = NULL]
          /\ k = [head |-> k.head, nextBin |-> k.nextBin, nextInBin |-> k.nextInBin]
      BY <1>1, <3>1 DEF Pointers
    <3>3. QED
      BY <1>1, <1>3, <2>1, <3>2 DEF Pointers
  <2>2. CASE ~(nxt = NULL \/ Before(w, e, nxt))
    <3>1. k = [l EXCEPT !.nextBin[e] = l.nextBin[nxt], !.nextInBin[e] = nxt]
      BY <2>2 DEF InsertBefore
    <3>2. nxt \in Events /\ l.nextBin[nxt] \in Events \cup {NULL}
      BY <1>1, <1>3, <2>2 DEF Pointers
    <3> HIDE DEF k
    <3>3. /\ k.head = l.head
          /\ k.nextBin = [l.nextBin EXCEPT ![e] = l.nextBin[nxt]]
          /\ k.nextInBin = [l.nextInBin EXCEPT ![e] = nxt]
          /\ k = [head |-> k.head, nextBin |-> k.nextBin, nextInBin |-> k.nextInBin]
      BY <1>1, <3>1 DEF Pointers
    <3>4. QED
      BY <1>1, <2>2, <3>2, <3>3 DEF Pointers
  <2>3. QED
    BY <2>1, <2>2
<1>5. CASE m = 0
  <2>1. l.head = nxt /\ (l.head = NULL \/ ~Before(w, l.head, e))
    <3>1. CASE c = <<>>
      BY <1>1, <1>5, <3>1 DEF Linked, After
    <3>2. CASE c # <<>>
      <4>1. 0 < Len(c) /\ 1 \in Positions(c)
        BY <1>1, <1>2, <3>2, PositionFacts DEF Positions
      <4>2. l.head = c[1] /\ ~Before(w, c[1], e)
        BY <1>1, <1>5, <3>2, <4>1 DEF Linked, Divides
      <4>3. QED
        BY <1>5, <4>1, <4>2 DEF After
    <3>3. QED
      BY <3>1, <3>2
  <2>2. Insert(l, w, e) = [k EXCEPT !.head = e]
    BY <2>1 DEF Insert
  <2> HIDE DEF k, nxt
  <2>3. /\ Insert(l, w, e) \in Pointers /\ Insert(l, w, e).head = e
        /\ Insert(l, w, e).nextBin = k.nextBin /\ Insert(l, w, e).nextInBin = k.nextInBin
    BY <1>4, <2>2 DEF Pointers
  <2>4. 0 \in 0 .. m
    BY <1>2
  <2> USE DEF nxt
  <2>5. QED
    BY <1>4, <1>5, <2>3, <2>4
<1>6. CASE m # 0
  <2>1. 1 \in Positions(c) /\ m \in Positions(c) /\ c # <<>>
    BY <1>1, <1>2, <1>6, PositionFacts DEF Positions
  <2>2. Before(w, c[1], e) /\ Before(w, c[m], e) /\ l.head = c[1] /\ l.head # NULL
    BY <1>1, <1>2, <1>6, <2>1 DEF Divides, Linked, Positions
  <2>3. PICK p \in Positions(c) :
           /\ LastBefore(l, w, e) = c[p]
           /\ IsTop(w, c, p) /\ Before(w, c[p], e)
           /\ \A j \in Positions(c) : Before(w, c[p], c[j]) => ~Before(w, c[j], e)
    BY <2>1, <2>2, LastBeforeIs
  <2>4. p \in 0 .. m /\ p # 0 /\ p <= m
    BY <2>3 DEF Divides, Positions
  <2>5. ~Before(w, c[p], c[m])
    BY <2>1, <2>2, <2>3
  <2>6. l.nextBin[c[p]] = nxt
    <3>1. CASE m = Len(c)
      BY <1>1, <2>3, <2>5, <3>1 DEF Linked, InLastBin, After
    <3>2. CASE m # Len(c)
      <4>1. m + 1 \in Positions(c) /\ ~(m + 1 <= m)
        BY <1>2, <3>2 DEF Positions
      <4>2. ~Before(w, c[m + 1], e)
        BY <1>2, <4>1 DEF Divides
      <4>3. Before(w, c[p], c[m + 1])
        BY <1>1, <1>2, <2>3, <4>1, <4>2, OrderFacts
      <4>4. NextBinAt(w, c, p, m + 1)
        BY <1>2, <2>4, <2>5, <4>1, <4>3 DEF NextBinAt, Positions
      <4>5. QED
        BY <1>1, <1>2, <2>3, <3>2, <4>1, <4>4 DEF Linked, After
    <3>3. QED
      BY <3>1, <3>2
  <2>7. Insert(l, w, e) = [k EXCEPT !.nextBin[c[p]] = e]
    BY <2>2, <2>3, <2>6 DEF Insert
  <2>8. c[p] \in Events /\ c[p] # e
    BY <1>2, <2>3 DEF NotIn
  <2> HIDE DEF k, nxt
  <2>9. /\ Insert(l, w, e) \in Pointers /\ Insert(l, w, e).head = l.head
        /\ Insert(l, w, e).nextBin = [k.nextBin EXCEPT ![c[p]] = e]
        /\ Insert(l, w, e).nextInBin = k.nextInBin
    BY <1>4, <2>7, <2>8 DEF Pointers
  <2>10. \A x \in Events : Insert(l, w, e).nextBin[x] = IF x = c[p] THEN e ELSE k.nextBin[x]
    <3>1. k.nextBin \in [Events -> Events \cup {NULL}]
      BY <1>4 DEF Pointers
    <3>2. QED
      BY <2>8, <2>9, <3>1
  <2> USE DEF nxt
  <2>11. QED
    BY <1>4, <1>6, <2>2, <2>3, <2>4, <2>5, <2>8, <2>9, <2>10
<1>7. QED
  BY <1>5, <1>6

(* insert() puts the event where the order says.                             *)
LEMMA InsertHolds ==
  ASSUME NEW l, NEW w, NEW c, Holds(l, w, c), NEW e \in Events, NotIn(e, c),
         NEW m \in 0 .. Len(c), Divides(w, c, m, e)
  PROVE  Holds(Insert(l, w, e), w, InsertedAt(c, m, e))
<1>1. /\ l \in Pointers /\ NoCycles(l) /\ w \in Ticked
      /\ c \in Seq(Events) /\ Ordered(w, c) /\ Linked(l, w, c)
  BY DEF Holds
<1>2. /\ Len(c) \in Nat /\ m \in Int /\ 0 <= m /\ m <= Len(c)
      /\ \A i \in Positions(c) : c[i] \in Events
      /\ NULL \notin Events
  BY <1>1, EventParameters, PositionFacts
<1> DEFINE d == InsertedAt(c, m, e)
           k == Insert(l, w, e)
           nxt == After(c, m)
<1>3. /\ d \in Seq(Events) /\ Len(d) = Len(c) + 1 /\ d[m + 1] = e /\ Ordered(w, d)
      /\ \A i \in Positions(c) : (i <= m => d[i] = c[i]) /\ (i > m => d[i + 1] = c[i])
  BY <1>1, InsertedIsOrdered
<1>4. PICK p \in 0 .. m :
        /\ p = 0 <=> m = 0
        /\ p # 0 => IsTop(w, c, p) /\ ~Before(w, c[p], c[m])
        /\ k \in Pointers
        /\ k.head = IF m = 0 THEN e ELSE c[1]
        /\ \A x \in Events \ {e} :
             /\ k.nextInBin[x] = l.nextInBin[x]
             /\ k.nextBin[x] = IF p # 0 /\ x = c[p] THEN e ELSE l.nextBin[x]
        /\ IF nxt = NULL \/ Before(w, e, nxt)
             THEN k.nextInBin[e] = NULL /\ k.nextBin[e] = nxt
             ELSE k.nextInBin[e] = nxt /\ k.nextBin[e] = l.nextBin[nxt]
  BY InsertLinks
<1> HIDE DEF d, k
<1>5. /\ m + 1 \in Positions(d)
      /\ \A i \in Positions(c) : i <= m => i \in Positions(d)
      /\ \A i \in Positions(c) : i > m => i + 1 \in Positions(d)
      /\ \A i \in Positions(d) : \/ i \in Positions(c) /\ i <= m
                                 \/ i = m + 1
                                 \/ i - 1 \in Positions(c) /\ i - 1 > m
  BY <1>2, <1>3 DEF Positions
<1>6. ASSUME m < Len(c)
      PROVE  /\ m + 1 \in Positions(c) /\ ~Before(w, c[m + 1], e) /\ IsTop(w, c, m + 1)
             /\ nxt = c[m + 1] /\ nxt # NULL
  <2>1. m + 1 \in Positions(c) /\ nxt = c[m + 1]
    BY <1>2, <1>6 DEF After, Positions
  <2>2. ~Before(w, c[m + 1], e)
    <3>1. ~(m + 1 <= m)
      BY <1>2
    <3>2. QED
      BY <2>1, <3>1 DEF Divides
  <2>3. CASE m # 0
    <3>1. m \in Positions(c) /\ (m + 1) - 1 = m
      BY <1>2, <2>3 DEF Positions
    <3>2. Before(w, c[m], e)
      BY <1>2, <3>1 DEF Divides
    <3>3. Before(w, c[m], c[m + 1])
      BY <1>1, <1>2, <2>1, <2>2, <3>1, <3>2, OrderFacts
    <3>4. QED
      BY <1>2, <2>1, <2>2, <3>1, <3>3 DEF IsTop
  <2>4. QED
    BY <1>2, <2>1, <2>2, <2>3 DEF IsTop
<1>7. k.head = IF d = <<>> THEN NULL ELSE d[1]
  <2>1. d # <<>>
    BY <1>2, <1>3
  <2>2. CASE m = 0
    BY <1>3, <1>4, <2>1, <2>2
  <2>3. CASE m # 0
    <3>1. 1 \in Positions(c) /\ 1 <= m
      BY <1>2, <2>3 DEF Positions
    <3>2. QED
      BY <1>3, <1>4, <2>1, <2>3, <3>1
  <2>4. QED
    BY <2>2, <2>3
<1>8. ASSUME NEW i \in Positions(d)
      PROVE  k.nextInBin[d[i]] = IF i < Len(d) /\ ~Before(w, d[i], d[i + 1]) THEN d[i + 1] ELSE NULL
  <2>1. CASE i \in Positions(c) /\ i <= m
    <3>1. d[i] = c[i] /\ c[i] \in Events \ {e} /\ i < Len(d)
      BY <1>2, <1>3, <2>1 DEF NotIn, Positions
    <3>2. k.nextInBin[d[i]] = IF i < Len(c) /\ ~Before(w, c[i], c[i + 1]) THEN c[i + 1] ELSE NULL
      BY <1>1, <1>4, <2>1, <3>1 DEF Linked
    <3>3. CASE i < m
      <4>1. i + 1 \in Positions(c) /\ i + 1 <= m /\ i < Len(c)
        BY <1>2, <2>1, <3>3 DEF Positions
      <4>2. QED
        BY <1>3, <3>1, <3>2, <4>1
    <3>4. CASE i = m
      <4>1. Before(w, d[i], d[i + 1])
        BY <1>3, <2>1, <3>1, <3>4 DEF Divides
      <4>2. i < Len(c) => Before(w, c[i], c[i + 1])
        <5>1. i < Len(c) => i + 1 \in Positions(c) /\ ~(i + 1 <= m)
          BY <1>2, <2>1, <3>4 DEF Positions
        <5>2. QED
          BY <1>1, <1>2, <2>1, <5>1, OrderFacts DEF Divides
      <4>3. QED
        BY <3>2, <4>1, <4>2
    <3>5. QED
      BY <1>2, <2>1, <3>3, <3>4 DEF Positions
  <2>2. CASE i = m + 1
    <3>1. CASE m = Len(c)
      BY <1>2, <1>3, <1>4, <2>2, <3>1 DEF After
    <3>2. CASE m # Len(c)
      <4>1. m + 1 \in Positions(c) /\ m + 1 > m /\ nxt = c[m + 1] /\ nxt # NULL
        BY <1>2, <3>2 DEF After, Positions
      <4>2. d[i + 1] = nxt /\ d[i] = e /\ i < Len(d)
        BY <1>2, <1>3, <2>2, <3>2, <4>1
      <4>3. QED
        BY <1>4, <4>1, <4>2
    <3>3. QED
      BY <3>1, <3>2
  <2>3. CASE i - 1 \in Positions(c) /\ i - 1 > m
    <3>1. i = (i - 1) + 1 /\ d[i] = c[i - 1] /\ c[i - 1] \in Events \ {e}
      BY <1>2, <1>3, <2>3 DEF NotIn, Positions
    <3>2. k.nextInBin[d[i]] = IF i - 1 < Len(c) /\ ~Before(w, c[i - 1], c[i]) THEN c[i] ELSE NULL
      BY <1>1, <1>4, <2>3, <3>1 DEF Linked
    <3>3. i - 1 < Len(c) <=> i < Len(d)
      BY <1>2, <1>3, <2>3 DEF Positions
    <3>4. i < Len(d) => d[i + 1] = c[i]
      <4>1. i < Len(d) => i \in Positions(c) /\ i > m
        BY <1>2, <1>3, <2>3 DEF Positions
      <4>2. QED
        BY <1>3, <4>1
    <3>5. QED
      BY <3>1, <3>2, <3>3, <3>4
  <2>4. QED
    BY <1>5, <2>1, <2>2, <2>3
<1>9. ASSUME NEW i \in Positions(d), IsTop(w, d, i)
      PROVE  /\ \A j \in Positions(d) : NextBinAt(w, d, i, j) => k.nextBin[d[i]] = d[j]
             /\ InLastBin(w, d, i) => k.nextBin[d[i]] = NULL
  <2> DEFINE Following(j) == NextBinAt(w, d, i, j)
  <2>0. /\ i \in Int /\ i >= 1
        /\ \A j \in Positions(d) : Following(j) =>
             /\ j \in i + 1 .. Len(d) /\ Before(w, d[i], d[j]) /\ ~Before(w, d[i], d[j - 1])
             /\ \A x \in Positions(d) : Before(w, d[i], d[x]) <=> x >= j
        /\ InLastBin(w, d, i) => \A x \in Positions(d) : ~Before(w, d[i], d[x])
    <3>1. /\ \A j \in Positions(d) : Following(j) =>
               \A x \in Positions(d) : Before(w, d[i], d[x]) <=> x >= j
          /\ InLastBin(w, d, i) => \A x \in Positions(d) : ~Before(w, d[i], d[x])
      BY <1>1, <1>3, NextBinFacts
    <3>2. i \in Int /\ i >= 1
      BY DEF Positions
    <3>3. \A j \in Positions(d) : Following(j) =>
             j \in i + 1 .. Len(d) /\ Before(w, d[i], d[j]) /\ ~Before(w, d[i], d[j - 1])
      BY DEF NextBinAt
    <3>4. QED
      BY <3>1, <3>2, <3>3
  <2> HIDE DEF Next
  <2>1. CASE i \in Positions(c) /\ i <= m
    <3>1. d[i] = c[i] /\ c[i] \in Events \ {e} /\ Before(w, c[i], e)
      BY <1>2, <1>3, <2>1 DEF NotIn, Divides
    <3>2. ~InLastBin(w, d, i) /\ \A j \in Positions(d) : Following(j) => j <= m + 1
      BY <1>3, <1>5, <2>0, <3>1
    <3>3. m \in Positions(c) /\ m \in Positions(d) /\ d[m] = c[m] /\ c[m] \in Events /\ p # 0
      BY <1>2, <1>3, <1>4, <1>5, <2>1 DEF Positions
    <3>4. p \in Positions(c) /\ p <= m /\ c[p] \in Events
      BY <1>2, <3>3 DEF Positions
    <3>5. IsTop(w, c, i)
      <4>1. i # 1 => i - 1 \in Positions(c) /\ i - 1 <= m
        BY <2>1 DEF Positions
      <4>2. QED
        BY <1>3, <1>9, <3>1, <4>1 DEF IsTop
    <3>6. CASE i = p
      <4>1. ASSUME NEW j \in Positions(d), Following(j)
            PROVE  j = m + 1
        <5>1. ~(m >= j) /\ j <= m + 1
          BY <1>4, <2>0, <3>1, <3>2, <3>3, <3>6, <4>1
        <5>2. QED
          BY <1>2, <5>1 DEF Positions
      <4>2. k.nextBin[d[i]] = e
        BY <1>4, <3>1, <3>3, <3>6
      <4>3. QED
        BY <1>3, <3>2, <4>1, <4>2 DEF Next
    <3>7. CASE i # p
      <4>1. Before(w, c[i], c[m])
        <5> SUFFICES ASSUME ~Before(w, c[i], c[m]) PROVE FALSE
          OBVIOUS
        <5>1. i = m \/ ~Before(w, c[m], c[i])
          BY <1>1, <2>1, <3>3 DEF Ordered, Positions
        <5>2. p = m \/ ~Before(w, c[m], c[p])
          BY <1>1, <3>3, <3>4 DEF Ordered, Positions
        <5>3. ~Before(w, c[i], c[p]) /\ ~Before(w, c[p], c[i])
          BY <1>1, <1>4, <3>1, <3>3, <3>4, <5>1, <5>2, OrderFacts
        <5>4. i <= p /\ p <= i
          BY <1>1, <1>4, <2>1, <3>3, <3>4, <3>5, <5>3, TopIsFirst
        <5>5. QED
          BY <3>7, <5>4 DEF Positions
      <4>2. k.nextBin[c[i]] = l.nextBin[c[i]]
        <5>1. c[i] # c[p]
          BY <1>1, <2>1, <3>4, <3>7 DEF Ordered
        <5>2. QED
          BY <1>4, <3>1, <5>1
      <4>3. ASSUME NEW j \in Positions(d), Following(j)
            PROVE  l.nextBin[c[i]] = d[j]
        <5>1. m >= j
          BY <2>0, <3>1, <3>3, <4>1, <4>3
        <5>2. j \in Positions(c) /\ j - 1 \in Positions(c) /\ j - 1 <= m /\ j \in i + 1 .. Len(c)
          BY <1>2, <2>0, <4>3, <5>1 DEF Positions
        <5>3. d[j] = c[j] /\ d[j - 1] = c[j - 1]
          BY <1>3, <5>1, <5>2
        <5>4. NextBinAt(w, c, i, j)
          BY <2>0, <3>1, <4>3, <5>2, <5>3 DEF NextBinAt
        <5>5. QED
          BY <1>1, <2>1, <3>5, <5>2, <5>3, <5>4 DEF Linked
      <4>4. QED
        BY <3>1, <3>2, <4>2, <4>3 DEF Next
    <3>8. QED
      BY <3>6, <3>7
  <2>2. CASE i = m + 1
    <3>1. d[i] = e
      BY <1>3, <2>2
    <3>2. CASE m = Len(c)
      <4>1. nxt = NULL /\ \A j \in Positions(d) : ~Following(j)
        BY <1>2, <1>3, <2>0, <2>2, <3>2 DEF After
      <4>2. QED
        BY <1>4, <3>1, <4>1 DEF Next
    <3>3. CASE m < Len(c)
      <4>1. /\ m + 1 \in Positions(c) /\ nxt = c[m + 1] /\ nxt # NULL /\ nxt \in Events
            /\ d[m + 2] = nxt /\ m + 2 \in Positions(d) /\ IsTop(w, c, m + 1)
            /\ ~Before(w, nxt, e)
        <5>1. (m + 1) + 1 = m + 2 /\ m + 1 > m
          BY <1>2
        <5>2. QED
          BY <1>2, <1>3, <1>5, <1>6, <3>3, <5>1
      <4>2. CASE Before(w, e, nxt)
        <5>1. k.nextBin[e] = nxt /\ ~InLastBin(w, d, i)
          BY <1>4, <2>0, <3>1, <4>1, <4>2
        <5>2. ASSUME NEW j \in Positions(d), Following(j)
              PROVE  j = m + 2
          <6>1. m + 2 >= j /\ j >= i + 1
            BY <2>0, <3>1, <4>1, <4>2, <5>2
          <6>2. QED
            BY <1>2, <2>2, <6>1 DEF Positions
        <5>3. QED
          BY <3>1, <4>1, <5>1, <5>2 DEF Next
      <4>3. CASE ~Before(w, e, nxt)
        <5>1. k.nextBin[e] = l.nextBin[c[m + 1]]
          BY <1>4, <4>1, <4>3
        <5>2. \A x \in Events : Before(w, nxt, x) <=> Before(w, e, x)
          BY <1>1, <4>1, <4>3, OrderFacts
        <5>3. ASSUME NEW j \in Positions(d), Following(j)
              PROVE  l.nextBin[c[m + 1]] = d[j]
          <6>1. ~(m + 2 >= j)
            BY <2>0, <3>1, <4>1, <4>3, <5>3
          <6>2. /\ j - 1 \in Positions(c) /\ j - 1 > m /\ (j - 1) + 1 = j
                /\ (j - 1) - 1 \in Positions(c) /\ (j - 1) - 1 > m /\ ((j - 1) - 1) + 1 = j - 1
                /\ j - 1 \in (m + 1) + 1 .. Len(c)
            BY <1>2, <1>3, <6>1 DEF Positions
          <6>3. d[j] = c[j - 1] /\ d[j - 1] = c[(j - 1) - 1]
            BY <1>3, <6>2
          <6>4. NextBinAt(w, c, m + 1, j - 1)
            BY <1>2, <2>0, <3>1, <4>1, <5>2, <5>3, <6>2, <6>3 DEF NextBinAt
          <6>5. QED
            BY <1>1, <4>1, <6>2, <6>3, <6>4 DEF Linked
        <5>4. ASSUME InLastBin(w, d, i)
              PROVE  l.nextBin[c[m + 1]] = NULL
          <6>1. Len(c) \in Positions(c) /\ Len(c) > m /\ Len(d) = Len(c) + 1
            BY <1>2, <1>3, <3>3 DEF Positions
          <6>2. d[Len(d)] = c[Len(c)]
            BY <1>3, <6>1
          <6>3. InLastBin(w, c, m + 1)
            BY <1>2, <3>1, <4>1, <5>2, <5>4, <6>1, <6>2 DEF InLastBin
          <6>4. QED
            BY <1>1, <4>1, <6>3 DEF Linked
        <5>5. QED
          BY <3>1, <5>1, <5>3, <5>4 DEF Next
      <4>4. QED
        BY <4>2, <4>3
    <3>4. QED
      BY <1>2, <3>2, <3>3
  <2>3. CASE i - 1 \in Positions(c) /\ i - 1 > m
    <3>1. i = (i - 1) + 1 /\ d[i] = c[i - 1] /\ c[i - 1] \in Events \ {e}
      BY <1>2, <1>3, <2>3 DEF NotIn, Positions
    <3>2. IsTop(w, c, i - 1)
      <4>1. CASE i - 1 = m + 1
        <5>1. m < Len(c)
          BY <1>2, <2>3, <4>1 DEF Positions
        <5>2. QED
          BY <1>6, <4>1, <5>1
      <4>2. CASE i - 1 # m + 1
        <5>1. /\ (i - 1) - 1 \in Positions(c) /\ (i - 1) - 1 > m
              /\ ((i - 1) - 1) + 1 = i - 1 /\ i # 1
          BY <1>2, <2>3, <4>2 DEF Positions
        <5>2. d[i - 1] = c[(i - 1) - 1]
          BY <1>3, <5>1
        <5>3. QED
          BY <1>9, <3>1, <5>1, <5>2 DEF IsTop
      <4>3. QED
        BY <4>1, <4>2
    <3>3. k.nextBin[c[i - 1]] = l.nextBin[c[i - 1]]
      <4>1. p # 0 => p \in Positions(c) /\ p # i - 1
        BY <1>2, <2>3 DEF Positions
      <4>2. p # 0 => c[p] # c[i - 1]
        BY <1>1, <2>3, <4>1 DEF Ordered
      <4>3. QED
        BY <1>4, <3>1, <4>2
    <3>4. ASSUME NEW j \in Positions(d), Following(j)
          PROVE  l.nextBin[c[i - 1]] = d[j]
      <4>1. /\ j - 1 \in Positions(c) /\ j - 1 > m /\ (j - 1) + 1 = j
            /\ (j - 1) - 1 \in Positions(c) /\ (j - 1) - 1 > m /\ ((j - 1) - 1) + 1 = j - 1
            /\ j - 1 \in (i - 1) + 1 .. Len(c)
        BY <1>2, <1>3, <2>0, <2>3, <3>4 DEF Positions
      <4>2. d[j] = c[j - 1] /\ d[j - 1] = c[(j - 1) - 1]
        BY <1>3, <4>1
      <4>3. NextBinAt(w, c, i - 1, j - 1)
        BY <2>0, <3>1, <3>4, <4>1, <4>2 DEF NextBinAt
      <4>4. QED
        BY <1>1, <2>3, <3>2, <4>1, <4>2, <4>3 DEF Linked
    <3>5. ASSUME InLastBin(w, d, i)
          PROVE  l.nextBin[c[i - 1]] = NULL
      <4>1. Len(c) \in Positions(c) /\ Len(c) > m /\ Len(d) = Len(c) + 1
        BY <1>2, <1>3, <2>3 DEF Positions
      <4>2. d[Len(d)] = c[Len(c)]
        BY <1>3, <4>1
      <4>3. InLastBin(w, c, i - 1)
        BY <3>1, <3>5, <4>2 DEF InLastBin
      <4>4. QED
        BY <1>1, <2>3, <3>2, <4>3 DEF Linked
    <3>6. QED
      BY <3>1, <3>3, <3>4, <3>5 DEF Next
  <2>4. QED
    BY <1>5, <2>1, <2>2, <2>3
<1>10. Linked(k, w, d)
  BY <1>7, <1>8, <1>9 DEF Linked
<1>11. NoCycles(k)
  <2>1. IsTop(w, d, m + 1)
    <3>1. CASE m # 0
      <4>1. m \in Positions(c) /\ (m + 1) - 1 = m
        BY <1>2, <3>1 DEF Positions
      <4>2. Before(w, d[m], d[m + 1])
        BY <1>2, <1>3, <4>1 DEF Divides
      <4>3. QED
        BY <4>1, <4>2 DEF IsTop
    <3>2. QED
      BY <3>1 DEF IsTop
  <2>2. p # 0 => p \in Positions(d) /\ IsTop(w, d, p) /\ d[p] = c[p]
    <3> SUFFICES ASSUME p # 0 PROVE p \in Positions(d) /\ IsTop(w, d, p) /\ d[p] = c[p]
      OBVIOUS
    <3>1. p \in Positions(c) /\ p <= m /\ (p # 1 => p - 1 \in Positions(c) /\ p - 1 <= m)
      BY <1>2 DEF Positions
    <3>2. d[p] = c[p] /\ (p # 1 => d[p - 1] = c[p - 1])
      BY <1>3, <3>1
    <3>3. QED
      BY <1>4, <1>5, <3>1, <3>2 DEF IsTop
  <2>3. \A x \in Events : \/ k.nextBin[x] = l.nextBin[x]
                         \/ \E i \in Positions(d) : IsTop(w, d, i) /\ x = d[i]
    BY <1>3, <1>4, <1>5, <2>1, <2>2
  <2>4. \A x \in Events : k.nextInBin[x] = l.nextInBin[x] \/ \E i \in Positions(d) : x = d[i]
    BY <1>3, <1>4, <1>5
  <2>5. QED
    BY <1>1, <1>3, <1>4, <1>10, <2>3, <2>4, StillNoCycles
<1>12. QED
  BY <1>1, <1>3, <1>4, <1>10, <1>11 DEF Holds, d, k

-----------------------------------------------------------------------------
(* remove() and the pop of serviceOne().                                     *)

(* What is at position p goes.                                               *)
RemovedAt(c, p) == [i \in 1 .. Len(c) - 1 |-> IF i < p THEN c[i] ELSE c[i + 1]]

(* What is left is ordered.                                                  *)
LEMMA RemovedIsOrdered ==
  ASSUME NEW w \in Ticked, NEW c \in Seq(Events), Ordered(w, c), NEW p \in Positions(c)
  PROVE  /\ RemovedAt(c, p) \in Seq(Events)
         /\ Len(RemovedAt(c, p)) = Len(c) - 1
         /\ \A i \in Positions(RemovedAt(c, p)) :
              /\ i < p => i \in Positions(c) /\ RemovedAt(c, p)[i] = c[i]
              /\ i >= p => i + 1 \in Positions(c) /\ RemovedAt(c, p)[i] = c[i + 1]
         /\ NotIn(c[p], RemovedAt(c, p))
         /\ Ordered(w, RemovedAt(c, p))
<1> DEFINE d == RemovedAt(c, p)
<1>1. Len(c) \in Nat /\ p \in 1 .. Len(c) /\ \A i \in Positions(c) : c[i] \in Events
  BY PositionFacts DEF Positions
<1>2. /\ d \in Seq(Events) /\ Len(d) = Len(c) - 1
      /\ \A i \in 1 .. Len(c) - 1 : d[i] = IF i < p THEN c[i] ELSE c[i + 1]
  <2>1. \A i \in 1 .. Len(c) - 1 : (IF i < p THEN c[i] ELSE c[i + 1]) \in Events
    BY <1>1 DEF Positions
  <2>2. Len(c) - 1 \in Nat
    BY <1>1
  <2>3. QED
    BY <2>1, <2>2 DEF RemovedAt
<1> HIDE DEF d
<1>3. \A i \in Positions(d) : /\ i < p => i \in Positions(c) /\ d[i] = c[i]
                              /\ i >= p => i + 1 \in Positions(c) /\ d[i] = c[i + 1]
  BY <1>1, <1>2 DEF Positions
<1>4. NotIn(c[p], d)
  BY <1>1, <1>3 DEF NotIn, Ordered, Positions
<1>5. ASSUME NEW i \in Positions(d), NEW j \in Positions(d), i < j
      PROVE  ~Before(w, d[j], d[i]) /\ d[i] # d[j]
  <2>1. CASE i < p /\ j < p
    BY <1>3, <1>5, <2>1 DEF Ordered, Positions
  <2>2. CASE i < p /\ j >= p
    BY <1>3, <1>5, <2>2 DEF Ordered, Positions
  <2>3. CASE i >= p
    BY <1>1, <1>3, <1>5, <2>3 DEF Ordered, Positions
  <2>4. QED
    BY <1>1, <2>1, <2>2, <2>3 DEF Positions
<1>6. Ordered(w, d)
  BY <1>2, <1>5 DEF Ordered, Positions
<1>7. QED
  BY <1>2, <1>3, <1>4, <1>6 DEF d

(* The bin in which remove() looks for an event held is its own.             *)
LEMMA FindsBin ==
  ASSUME NEW l, NEW w, NEW c, Holds(l, w, c), NEW p \in Positions(c)
  PROVE  \E t \in 1 .. p :
           /\ IsTop(w, c, t) /\ ~Before(w, c[t], c[p])
           /\ l.head = c[1] /\ c[1] # NULL
           /\ \/ t = 1 /\ SameBin(w, c[1], c[p])
              \/ /\ ~SameBin(w, c[1], c[p]) /\ Before(w, c[1], c[p])
                 /\ \E z \in 1 .. t - 1 :
                      /\ IsTop(w, c, z) /\ NextBinAt(w, c, z, t)
                      /\ LastBefore(l, w, c[p]) = c[z] /\ l.nextBin[c[z]] = c[t]
<1>1. /\ l \in Pointers /\ NoCycles(l) /\ w \in Ticked
      /\ c \in Seq(Events) /\ Ordered(w, c) /\ Linked(l, w, c)
  BY DEF Holds
<1>2. /\ Len(c) \in Nat /\ p \in 1 .. Len(c) /\ 1 \in Positions(c) /\ c # <<>>
      /\ \A i \in Positions(c) : c[i] \in Events
      /\ NULL \notin Events
  BY <1>1, EventParameters, PositionFacts DEF Positions
<1>3. PICK t \in 1 .. p : IsTop(w, c, t) /\ ~Before(w, c[t], c[p])
  BY <1>1, BinHasTop
<1>4. t \in Positions(c) /\ l.head = c[1] /\ c[1] # NULL
  BY <1>1, <1>2, <1>3 DEF Linked, Positions
<1>5. ~Before(w, c[p], c[t]) /\ ~Before(w, c[p], c[1])
  BY <1>1, <1>2, <1>3, <1>4, OrderFacts DEF Ordered, Positions
<1>6. CASE SameBin(w, c[1], c[p])
  <2>1. ~Before(w, c[1], c[t])
    BY <1>1, <1>2, <1>3, <1>4, <1>5, <1>6, OrderFacts
  <2>2. t <= 1
    BY <1>1, <1>2, <1>3, <1>4, <2>1, TopIsFirst
  <2>3. t = 1
    BY <1>3, <2>2
  <2>4. QED
    BY <1>3, <1>4, <1>6, <2>3
<1>7. CASE ~SameBin(w, c[1], c[p])
  <2>1. Before(w, c[1], c[p])
    BY <1>1, <1>2, <1>5, <1>7, OrderFacts
  <2>2. PICK z \in Positions(c) :
           /\ LastBefore(l, w, c[p]) = c[z]
           /\ IsTop(w, c, z) /\ Before(w, c[z], c[p])
           /\ \A j \in Positions(c) : Before(w, c[z], c[j]) => ~Before(w, c[j], c[p])
    BY <1>2, <2>1, LastBeforeIs
  <2>3. PICK j \in Positions(c) :
           /\ NextBinAt(w, c, z, j) /\ IsTop(w, c, j)
           /\ \A k \in Positions(c) : Before(w, c[z], c[k]) <=> k >= j
    BY <1>1, <2>2, NextBinExists
  <2>4. ~Before(w, c[j], c[p]) /\ ~Before(w, c[p], c[j])
    <3>1. Before(w, c[z], c[j]) /\ p >= j
      BY <1>1, <2>2, <2>3 DEF NextBinAt
    <3>2. p = j \/ ~Before(w, c[p], c[j])
      BY <1>1, <3>1 DEF Ordered, Positions
    <3>3. QED
      BY <1>1, <1>2, <2>2, <3>1, <3>2, OrderFacts
  <2>5. ~Before(w, c[j], c[t]) /\ ~Before(w, c[t], c[j])
    BY <1>1, <1>2, <1>3, <1>4, <1>5, <2>4, OrderFacts
  <2>6. j <= t /\ t <= j
    BY <1>1, <1>3, <1>4, <2>3, <2>5, TopIsFirst
  <2>7. j = t /\ z \in 1 .. t - 1 /\ l.nextBin[c[z]] = c[t]
    BY <1>1, <1>2, <2>2, <2>3, <2>6 DEF NextBinAt, Linked, Positions
  <2>8. QED
    BY <1>3, <1>4, <1>7, <2>1, <2>2, <2>3, <2>7
<1>8. QED
  BY <1>6, <1>7

(* remove() finds every event held.                                          *)
LEMMA HeldIsFound ==
  ASSUME NEW l, NEW w, NEW c, Holds(l, w, c), NEW p \in Positions(c)
  PROVE  Found(l, w, c[p])
<1>1. PICK t \in 1 .. p :
           /\ IsTop(w, c, t) /\ ~Before(w, c[t], c[p])
           /\ l.head = c[1] /\ c[1] # NULL
           /\ \/ t = 1 /\ SameBin(w, c[1], c[p])
              \/ /\ ~SameBin(w, c[1], c[p]) /\ Before(w, c[1], c[p])
                 /\ \E z \in 1 .. t - 1 :
                      /\ IsTop(w, c, z) /\ NextBinAt(w, c, z, t)
                      /\ LastBefore(l, w, c[p]) = c[z] /\ l.nextBin[c[z]] = c[t]
  BY FindsBin
<1>2. w \in Ticked /\ c \in Seq(Events) /\ Ordered(w, c)
  BY DEF Holds
<1>3. t \in Positions(c) /\ t <= p /\ c[t] \in Events /\ c[t] # NULL /\ c[p] \in Events
  BY <1>2, EventParameters, PositionFacts DEF Positions
<1>4. InStack(l, c[p], c[t])
  BY <1>1, <1>3, OnStack
<1>5. SameBin(w, c[t], c[p])
  BY <1>1, <1>2, <1>3, OrderFacts DEF Ordered, Positions
<1>6. QED
  BY <1>1, <1>3, <1>4, <1>5 DEF Found

(* What removeItem() does to the bin with the top t: the links around p, and *)
(* the event that is then in the place of the top.                           *)
LEMMA ItemRemoved ==
  ASSUME NEW l, NEW w, NEW c, Holds(l, w, c), NEW p \in Positions(c),
         NEW t \in 1 .. p, IsTop(w, c, t), ~Before(w, c[t], c[p])
  PROVE  /\ RemoveItem(l, c[p], c[t]).list \in Pointers
         /\ RemoveItem(l, c[p], c[t]).top = After(RemovedAt(c, p), t - 1)
         /\ RemoveItem(l, c[p], c[t]).list.head = l.head
         /\ \A x \in Events :
              RemoveItem(l, c[p], c[t]).list.nextInBin[x] =
                IF p # t /\ x = c[p - 1] THEN l.nextInBin[c[p]] ELSE l.nextInBin[x]
         /\ \A x \in Events :
              RemoveItem(l, c[p], c[t]).list.nextBin[x] =
                IF p = t /\ x = l.nextInBin[c[p]] THEN l.nextBin[c[p]] ELSE l.nextBin[x]
<1> DEFINE d == RemovedAt(c, p)
           r == RemoveItem(l, c[p], c[t])
<1>1. /\ l \in Pointers /\ w \in Ticked
      /\ c \in Seq(Events) /\ Ordered(w, c) /\ Linked(l, w, c)
  BY DEF Holds
<1>2. /\ Len(c) \in Nat /\ p \in 1 .. Len(c) /\ t \in Positions(c) /\ t <= p
      /\ \A i \in Positions(c) : c[i] \in Events
      /\ NULL \notin Events
  BY <1>1, EventParameters, PositionFacts DEF Positions
<1>3. /\ Len(d) = Len(c) - 1
      /\ \A i \in Positions(d) : /\ i < p => i \in Positions(c) /\ d[i] = c[i]
                                 /\ i >= p => i + 1 \in Positions(c) /\ d[i] = c[i + 1]
  BY <1>1, RemovedIsOrdered
<1> HIDE DEF d
<1>4. /\ l.nextBin \in [Events -> Events \cup {NULL}]
      /\ l.nextInBin \in [Events -> Events \cup {NULL}]
      /\ l = [head |-> l.head, nextBin |-> l.nextBin, nextInBin |-> l.nextInBin]
  BY <1>1 DEF Pointers
<1>5. After(d, t - 1) = IF t <= Len(d) THEN d[t] ELSE NULL
  <2>1. (t - 1) + 1 = t /\ (t - 1 < Len(d) <=> t <= Len(d))
    BY <1>2, <1>3 DEF Positions
  <2>2. QED
    BY <2>1 DEF After
<1>6. CASE p = t
  <2> DEFINE next == l.nextInBin[c[p]]
  <2>1. next \in Events \cup {NULL}
    BY <1>2, <1>4
  <2>2. CASE next = NULL
    <3>1. r = [list |-> l, top |-> l.nextBin[c[p]]]
      BY <1>6, <2>2 DEF RemoveItem
    <3>2. l.nextBin[c[p]] = After(d, t - 1)
      <4>1. CASE p = Len(c)
        <5>1. InLastBin(w, c, p) /\ ~(t <= Len(d))
          BY <1>1, <1>2, <1>3, <1>6, <4>1, OrderFacts DEF InLastBin
        <5>2. QED
          BY <1>1, <1>5, <1>6, <5>1 DEF Linked
      <4>2. CASE p # Len(c)
        <5>1. p + 1 \in Positions(c) /\ p < Len(c) /\ c[p + 1] \in Events /\ c[p + 1] # NULL
          BY <1>2, <4>2 DEF Positions
        <5>2. Before(w, c[p], c[p + 1])
          BY <1>1, <2>2, <5>1 DEF Linked
        <5>3. NextBinAt(w, c, p, p + 1)
          BY <1>1, <1>2, <5>1, <5>2, OrderFacts DEF NextBinAt
        <5>4. l.nextBin[c[p]] = c[p + 1]
          BY <1>1, <1>6, <5>1, <5>3 DEF Linked
        <5>5. t \in Positions(d) /\ t <= Len(d)
          BY <1>2, <1>3, <1>6, <5>1 DEF Positions
        <5>6. QED
          BY <1>3, <1>5, <1>6, <5>4, <5>5
      <4>3. QED
        BY <4>1, <4>2
    <3>3. QED
      BY <1>1, <1>2, <1>6, <2>2, <3>1, <3>2 DEF d
  <2>3. CASE next # NULL
    <3>1. r = [list |-> [l EXCEPT !.nextBin[next] = l.nextBin[c[p]]], top |-> next]
      BY <1>6, <2>3 DEF RemoveItem
    <3>2. next \in Events /\ l.nextBin[c[p]] \in Events \cup {NULL}
      BY <1>2, <1>4, <2>1, <2>3
    <3> HIDE DEF r, next
    <3>3. /\ r.list = [head |-> l.head,
                       nextBin |-> [l.nextBin EXCEPT ![next] = l.nextBin[c[p]]],
                       nextInBin |-> l.nextInBin]
          /\ r.top = next
      BY <1>4, <3>1
    <3>4. /\ r.list \in Pointers /\ r.list.head = l.head
          /\ r.list.nextBin = [l.nextBin EXCEPT ![next] = l.nextBin[c[p]]]
          /\ r.list.nextInBin = l.nextInBin
      BY <1>1, <1>4, <3>2, <3>3 DEF Pointers
    <3>5. next = c[p + 1] /\ p < Len(c)
      BY <1>1, <2>3 DEF next, Linked
    <3>6. next = After(d, t - 1)
      <4>1. t \in Positions(d) /\ t <= Len(d)
        BY <1>2, <1>3, <1>6, <3>5 DEF Positions
      <4>2. QED
        BY <1>3, <1>5, <1>6, <3>5, <4>1
    <3>7. \A x \in Events : r.list.nextBin[x] = IF x = next THEN l.nextBin[c[p]] ELSE l.nextBin[x]
      BY <1>4, <3>2, <3>4
    <3>8. QED
      BY <1>6, <3>3, <3>4, <3>6, <3>7 DEF d, r, next
  <2>4. QED
    BY <2>2, <2>3
<1>7. CASE p # t
  <2>1. /\ p - 1 \in Positions(c) /\ p - 1 >= t /\ (p - 1) + 1 = p /\ p - 1 < Len(c)
        /\ c[p - 1] \in Events /\ c[p] \in Events /\ c[p] # c[t]
    BY <1>1, <1>2, <1>7 DEF Ordered, Positions
  <2>2. ~Before(w, c[t], c[p - 1]) /\ ~Before(w, c[p - 1], c[p])
    <3>1. p - 1 \in t .. p
      BY <1>2, <2>1
    <3>2. QED
      BY <1>1, <1>2, <3>1, BinIsInterval
  <2> DEFINE above == CHOOSE x \in Events : InStack(l, x, c[t]) /\ l.nextInBin[x] = c[p]
  <2>3. InStack(l, c[p - 1], c[t]) /\ l.nextInBin[c[p - 1]] = c[p]
    <3>1. InStack(l, c[p - 1], c[t])
      BY <1>2, <2>1, <2>2, OnStack
    <3>2. l.nextInBin[c[p - 1]] = c[p]
      BY <1>1, <2>1, <2>2 DEF Linked
    <3>3. QED
      BY <3>1, <3>2
  <2>4. ASSUME NEW x \in Events, InStack(l, x, c[t]), l.nextInBin[x] = c[p]
        PROVE  x = c[p - 1]
    <3>1. PICK i \in Positions(c) : i >= t /\ ~Before(w, c[t], c[i]) /\ x = c[i]
      <4>1. InStack(l, x, c[t]) <=>
              \E i \in Positions(c) : i >= t /\ ~Before(w, c[t], c[i]) /\ x = c[i]
        BY <1>2, OnStack
      <4>2. QED
        BY <2>4, <4>1
    <3>2. i < Len(c) /\ l.nextInBin[x] = c[i + 1]
      BY <1>1, <1>2, <2>1, <2>4, <3>1 DEF Linked
    <3>3. i + 1 \in Positions(c)
      BY <1>2, <3>2 DEF Positions
    <3>4. i + 1 = p
      BY <1>1, <2>4, <3>2, <3>3 DEF Ordered
    <3>5. QED
      BY <3>1, <3>4 DEF Positions
  <2>5. above = c[p - 1]
    BY <2>1, <2>3, <2>4
  <2>6. r = [list |-> [l EXCEPT !.nextInBin[above] = l.nextInBin[c[p]]], top |-> c[t]]
    BY <2>1 DEF RemoveItem
  <2> HIDE DEF r, above
  <2>7. /\ r.list = [head |-> l.head, nextBin |-> l.nextBin,
                     nextInBin |-> [l.nextInBin EXCEPT ![c[p - 1]] = l.nextInBin[c[p]]]]
        /\ r.top = c[t]
    BY <1>4, <2>5, <2>6
  <2>8. l.nextInBin[c[p]] \in Events \cup {NULL}
    BY <1>4, <2>1
  <2>9. /\ r.list \in Pointers /\ r.list.head = l.head /\ r.list.nextBin = l.nextBin
        /\ r.list.nextInBin = [l.nextInBin EXCEPT ![c[p - 1]] = l.nextInBin[c[p]]]
    BY <1>1, <1>4, <2>1, <2>7, <2>8 DEF Pointers
  <2>10. c[t] = After(d, t - 1)
    <3>1. t \in Positions(d) /\ t <= Len(d) /\ t < p
      BY <1>2, <1>3, <1>7 DEF Positions
    <3>2. QED
      BY <1>3, <1>5, <3>1
  <2>11. \A x \in Events :
           r.list.nextInBin[x] = IF x = c[p - 1] THEN l.nextInBin[c[p]] ELSE l.nextInBin[x]
    BY <1>4, <2>1, <2>9
  <2>12. QED
    BY <1>7, <2>7, <2>9, <2>10, <2>11 DEF d, r
<1>8. QED
  BY <1>6, <1>7

(* The links remove() changes: those around p in its bin, and the link to    *)
(* the bin from the top z of the one before it or from the head.             *)
LEMMA RemoveLinks ==
  ASSUME NEW l, NEW w, NEW c, Holds(l, w, c), NEW p \in Positions(c)
  PROVE  \E t \in 1 .. p, z \in 0 .. p :
           /\ IsTop(w, c, t) /\ ~Before(w, c[t], c[p])
           /\ z = 0 <=> t = 1
           /\ z # 0 => z < t /\ IsTop(w, c, z) /\ NextBinAt(w, c, z, t)
           /\ Remove(l, w, c[p]) \in Pointers
           /\ Remove(l, w, c[p]).head = IF t = 1 THEN After(RemovedAt(c, p), t - 1) ELSE c[1]
           /\ \A x \in Events :
                /\ Remove(l, w, c[p]).nextInBin[x] =
                     IF p # t /\ x = c[p - 1] THEN l.nextInBin[c[p]] ELSE l.nextInBin[x]
                /\ Remove(l, w, c[p]).nextBin[x] =
                     IF z # 0 /\ x = c[z] THEN After(RemovedAt(c, p), t - 1)
                     ELSE IF p = t /\ x = l.nextInBin[c[p]] THEN l.nextBin[c[p]]
                     ELSE l.nextBin[x]
<1> DEFINE d == RemovedAt(c, p)
           k == Remove(l, w, c[p])
<1>1. c \in Seq(Events) /\ w \in Ticked /\ Ordered(w, c)
  BY DEF Holds
<1>2. /\ Len(c) \in Nat /\ p \in 1 .. Len(c)
      /\ \A i \in Positions(c) : c[i] \in Events
  BY <1>1, PositionFacts DEF Positions
<1>3. PICK t \in 1 .. p :
           /\ IsTop(w, c, t) /\ ~Before(w, c[t], c[p])
           /\ l.head = c[1] /\ c[1] # NULL
           /\ \/ t = 1 /\ SameBin(w, c[1], c[p])
              \/ /\ ~SameBin(w, c[1], c[p]) /\ Before(w, c[1], c[p])
                 /\ \E z \in 1 .. t - 1 :
                      /\ IsTop(w, c, z) /\ NextBinAt(w, c, z, t)
                      /\ LastBefore(l, w, c[p]) = c[z] /\ l.nextBin[c[z]] = c[t]
  BY FindsBin
<1> DEFINE r == RemoveItem(l, c[p], c[t])
<1>4. /\ r.list \in Pointers /\ r.top = After(d, t - 1) /\ r.list.head = l.head
      /\ \A x \in Events :
           r.list.nextInBin[x] = IF p # t /\ x = c[p - 1] THEN l.nextInBin[c[p]] ELSE l.nextInBin[x]
      /\ \A x \in Events :
           r.list.nextBin[x] =
             IF p = t /\ x = l.nextInBin[c[p]] THEN l.nextBin[c[p]] ELSE l.nextBin[x]
  BY <1>3, ItemRemoved
<1>5. r.top \in Events \cup {NULL}
  <2>1. After(d, t - 1) = IF t <= Len(d) THEN d[t] ELSE NULL
    <3>1. Len(d) = Len(c) - 1
      BY <1>1, RemovedIsOrdered
    <3>2. (t - 1) + 1 = t /\ (t - 1 < Len(d) <=> t <= Len(d))
      BY <1>2, <3>1
    <3>3. QED
      BY <3>2 DEF After
  <2>2. d \in Seq(Events)
    BY <1>1, RemovedIsOrdered
  <2> HIDE DEF d, r
  <2>3. t <= Len(d) => d[t] \in Events
    BY <2>2
  <2>4. QED
    BY <1>4, <2>1, <2>3
<1>6. CASE t = 1 /\ SameBin(w, c[1], c[p])
  <2>1. k = [r.list EXCEPT !.head = r.top]
    BY <1>3, <1>6 DEF Remove
  <2> HIDE DEF k, r, d
  <2>2. /\ k \in Pointers /\ k.head = r.top
        /\ k.nextBin = r.list.nextBin /\ k.nextInBin = r.list.nextInBin
    BY <1>4, <1>5, <2>1 DEF Pointers
  <2>3. 0 \in 0 .. p
    BY <1>2
  <2>4. QED
    BY <1>3, <1>4, <1>6, <2>2, <2>3 DEF k, d
<1>7. CASE /\ ~SameBin(w, c[1], c[p]) /\ Before(w, c[1], c[p])
           /\ \E z \in 1 .. t - 1 :
                /\ IsTop(w, c, z) /\ NextBinAt(w, c, z, t)
                /\ LastBefore(l, w, c[p]) = c[z] /\ l.nextBin[c[z]] = c[t]
  <2>1. PICK z \in 1 .. t - 1 :
                /\ IsTop(w, c, z) /\ NextBinAt(w, c, z, t)
                /\ LastBefore(l, w, c[p]) = c[z] /\ l.nextBin[c[z]] = c[t]
    BY <1>7
  <2>2. k = [r.list EXCEPT !.nextBin[c[z]] = r.top]
    BY <1>3, <1>7, <2>1 DEF Remove
  <2>3. z \in Positions(c) /\ c[z] \in Events /\ z \in 0 .. p /\ z # 0 /\ t # 1 /\ z < t
    BY <1>2, <2>1 DEF Positions
  <2> HIDE DEF k, r, d
  <2>4. /\ r.list = [head |-> r.list.head, nextBin |-> r.list.nextBin,
                     nextInBin |-> r.list.nextInBin]
        /\ r.list.nextBin \in [Events -> Events \cup {NULL}]
    BY <1>4 DEF Pointers
  <2>5. /\ k.head = c[1] /\ k.nextInBin = r.list.nextInBin
        /\ k.nextBin = [r.list.nextBin EXCEPT ![c[z]] = r.top]
        /\ k = [head |-> k.head, nextBin |-> k.nextBin, nextInBin |-> k.nextInBin]
    BY <1>3, <1>4, <2>2, <2>4
  <2>6. k \in Pointers
    BY <1>3, <1>4, <1>5, <2>3, <2>4, <2>5 DEF Pointers
  <2>7. \A x \in Events : k.nextBin[x] = IF x = c[z] THEN r.top ELSE r.list.nextBin[x]
    BY <2>3, <2>4, <2>5
  <2>8. QED
    BY <1>3, <1>4, <2>1, <2>3, <2>5, <2>6, <2>7 DEF k, d
<1>8. QED
  BY <1>3, <1>6, <1>7

(* remove() takes out the event and nothing else.                            *)
LEMMA RemoveHolds ==
  ASSUME NEW l, NEW w, NEW c, Holds(l, w, c), NEW p \in Positions(c)
  PROVE  Holds(Remove(l, w, c[p]), w, RemovedAt(c, p))
<1>1. /\ l \in Pointers /\ NoCycles(l) /\ w \in Ticked
      /\ c \in Seq(Events) /\ Ordered(w, c) /\ Linked(l, w, c)
  BY DEF Holds
<1>2. /\ Len(c) \in Nat /\ p \in 1 .. Len(c)
      /\ \A i \in Positions(c) : c[i] \in Events
      /\ NULL \notin Events
  BY <1>1, EventParameters, PositionFacts DEF Positions
<1> DEFINE d == RemovedAt(c, p)
           k == Remove(l, w, c[p])
<1>3. /\ d \in Seq(Events) /\ Len(d) = Len(c) - 1 /\ Ordered(w, d)
      /\ \A i \in Positions(d) : /\ i < p => i \in Positions(c) /\ d[i] = c[i]
                                 /\ i >= p => i + 1 \in Positions(c) /\ d[i] = c[i + 1]
  BY <1>1, RemovedIsOrdered
<1>4. PICK t \in 1 .. p, z \in 0 .. p :
        /\ IsTop(w, c, t) /\ ~Before(w, c[t], c[p])
        /\ z = 0 <=> t = 1
        /\ z # 0 => z < t /\ IsTop(w, c, z) /\ NextBinAt(w, c, z, t)
        /\ k \in Pointers
        /\ k.head = IF t = 1 THEN After(d, t - 1) ELSE c[1]
        /\ \A x \in Events :
             /\ k.nextInBin[x] = IF p # t /\ x = c[p - 1] THEN l.nextInBin[c[p]] ELSE l.nextInBin[x]
             /\ k.nextBin[x] = IF z # 0 /\ x = c[z] THEN After(d, t - 1)
                               ELSE IF p = t /\ x = l.nextInBin[c[p]] THEN l.nextBin[c[p]]
                               ELSE l.nextBin[x]
  BY RemoveLinks
<1> HIDE DEF d, k
<1>5. After(d, t - 1) = IF t <= Len(d) THEN d[t] ELSE NULL
  <2>1. (t - 1) + 1 = t /\ (t - 1 < Len(d) <=> t <= Len(d))
    BY <1>2, <1>3
  <2>2. QED
    BY <2>1 DEF After
<1>6. t \in Positions(c) /\ t <= p /\ (z # 0 => z \in Positions(c) /\ z < t)
  BY <1>2, <1>4 DEF Positions
<1>7. k.head = IF d = <<>> THEN NULL ELSE d[1]
  <2>1. d = <<>> <=> Len(d) = 0
    BY <1>3, PositionFacts
  <2>2. CASE t = 1
    BY <1>2, <1>3, <1>4, <1>5, <2>1, <2>2
  <2>3. CASE t # 1
    <3>1. 1 \in Positions(d) /\ 1 < p /\ Len(d) # 0
      BY <1>2, <1>3, <2>3 DEF Positions
    <3>2. QED
      BY <1>3, <1>4, <2>1, <2>3, <3>1
  <2>4. QED
    BY <2>2, <2>3
<1>8. ASSUME p # t
      PROVE  /\ p - 1 \in Positions(c) /\ (p - 1) + 1 = p
             /\ ~Before(w, c[p - 1], c[p]) /\ ~Before(w, c[p], c[p - 1])
  <2>1. p - 1 \in t .. p /\ p - 1 \in Positions(c) /\ (p - 1) + 1 = p
    BY <1>2, <1>8 DEF Positions
  <2>2. ~Before(w, c[p - 1], c[p])
    BY <1>1, <1>2, <1>4, <1>6, <2>1, BinIsInterval
  <2>3. QED
    BY <1>1, <1>2, <2>1, <2>2 DEF Ordered, Positions
<1>9. ASSUME NEW i \in Positions(d)
      PROVE  k.nextInBin[d[i]] = IF i < Len(d) /\ ~Before(w, d[i], d[i + 1]) THEN d[i + 1] ELSE NULL
  <2>1. CASE i < p - 1
    <3>1. /\ i \in Positions(c) /\ d[i] = c[i] /\ i + 1 \in Positions(d) /\ d[i + 1] = c[i + 1]
          /\ i < Len(d) /\ i < Len(c)
      <4>1. i < p /\ i + 1 < p /\ i + 1 \in Positions(d) /\ i < Len(d) /\ i < Len(c)
        BY <1>2, <1>3, <2>1 DEF Positions
      <4>2. QED
        BY <1>3, <4>1
    <3>2. p # t => c[i] # c[p - 1]
      BY <1>1, <1>8, <2>1, <3>1 DEF Ordered, Positions
    <3>3. QED
      BY <1>1, <1>2, <1>4, <3>1, <3>2 DEF Linked
  <2>2. CASE i = p - 1
    <3>1. i \in Positions(c) /\ d[i] = c[i] /\ i + 1 = p /\ i < Len(c)
      BY <1>2, <1>3, <2>2 DEF Positions
    <3>2. i < Len(d) <=> p < Len(c)
      BY <1>2, <1>3, <2>2
    <3>3. i < Len(d) => p + 1 \in Positions(c) /\ d[i + 1] = c[p + 1] /\ c[p + 1] \in Events
      <4>1. i < Len(d) => p \in Positions(d) /\ p + 1 \in Positions(c)
        BY <1>2, <1>3, <3>2 DEF Positions
      <4>2. QED
        BY <1>2, <1>3, <3>1, <4>1
    <3>4. CASE p # t
      <4>1. k.nextInBin[d[i]] = IF p < Len(c) /\ ~Before(w, c[p], c[p + 1]) THEN c[p + 1] ELSE NULL
        BY <1>1, <1>2, <1>4, <2>2, <3>1, <3>4 DEF Linked
      <4>2. i < Len(d) => (Before(w, d[i], d[i + 1]) <=> Before(w, c[p], c[p + 1]))
        <5>1. ~Before(w, c[i], c[p]) /\ ~Before(w, c[p], c[i]) /\ c[i] \in Events /\ c[p] \in Events
          BY <1>2, <1>8, <2>2, <3>1, <3>4
        <5>2. QED
          BY <1>1, <3>1, <3>3, <5>1, OrderFacts
      <4>3. QED
        BY <3>2, <3>3, <4>1, <4>2
    <3>5. CASE p = t
      <4>1. Before(w, c[i], c[p])
        BY <1>4, <2>2, <3>1, <3>5 DEF IsTop, Positions
      <4>2. k.nextInBin[d[i]] = NULL
        BY <1>1, <1>2, <1>4, <3>1, <3>5, <4>1 DEF Linked
      <4>3. i < Len(d) => Before(w, d[i], d[i + 1])
        <5>1. i < Len(d) => ~Before(w, c[p + 1], c[p])
          BY <1>1, <1>2, <3>3 DEF Ordered, Positions
        <5>2. QED
          BY <1>1, <1>2, <3>1, <3>3, <4>1, <5>1, OrderFacts
      <4>4. QED
        BY <4>2, <4>3
    <3>6. QED
      BY <3>4, <3>5
  <2>3. CASE i >= p
    <3>1. /\ i + 1 \in Positions(c) /\ d[i] = c[i + 1] /\ (i < Len(d) <=> i + 1 < Len(c))
          /\ (i < Len(d) => d[i + 1] = c[(i + 1) + 1])
      BY <1>2, <1>3, <2>3 DEF Positions
    <3>2. p # t => c[i + 1] # c[p - 1]
      BY <1>1, <1>2, <1>8, <2>3, <3>1 DEF Ordered, Positions
    <3>3. k.nextInBin[d[i]] =
            IF i + 1 < Len(c) /\ ~Before(w, c[i + 1], c[(i + 1) + 1]) THEN c[(i + 1) + 1] ELSE NULL
      BY <1>1, <1>2, <1>4, <3>1, <3>2 DEF Linked
    <3>4. QED
      BY <3>1, <3>3
  <2>4. QED
    BY <1>2, <2>1, <2>2, <2>3 DEF Positions
(* What comes after the bin of an event that is not before p.                *)
<1>10. ASSUME NEW i \in Positions(d), NEW n \in Positions(c), n > p,
              \A x \in Positions(c) : Before(w, d[i], c[x]) <=> x >= n
       PROVE  /\ \A j \in Positions(d) : NextBinAt(w, d, i, j) => d[j] = c[n]
              /\ ~InLastBin(w, d, i)
  <2>1. n - 1 \in Positions(d) /\ d[n - 1] = c[n]
    <3>1. n - 1 \in Positions(d) /\ n - 1 >= p /\ (n - 1) + 1 = n
      BY <1>2, <1>3, <1>10 DEF Positions
    <3>2. QED
      BY <1>3, <3>1
  <2>2. ASSUME NEW x \in Positions(d)
        PROVE  Before(w, d[i], d[x]) <=> x >= n - 1
    <3>1. CASE x < p
      <4>1. x \in Positions(c) /\ d[x] = c[x] /\ ~(x >= n) /\ ~(x >= n - 1)
        BY <1>2, <1>3, <1>10, <3>1 DEF Positions
      <4>2. QED
        BY <1>10, <4>1
    <3>2. CASE x >= p
      <4>1. x + 1 \in Positions(c) /\ d[x] = c[x + 1] /\ (x + 1 >= n <=> x >= n - 1)
        BY <1>3, <3>2 DEF Positions
      <4>2. QED
        BY <1>10, <4>1
    <3>3. QED
      BY <1>2, <3>1, <3>2 DEF Positions
  <2>3. ~InLastBin(w, d, i)
    <3>1. Before(w, d[i], d[n - 1])
      BY <2>1, <2>2 DEF Positions
    <3>2. InLastBin(w, d, i) => \A x \in Positions(d) : ~Before(w, d[i], d[x])
      BY <1>1, <1>3, NextBinFacts
    <3>3. QED
      BY <2>1, <3>1, <3>2
  <2>4. ASSUME NEW j \in Positions(d), NextBinAt(w, d, i, j)
        PROVE  j = n - 1
    <3>1. \A x \in Positions(d) : Before(w, d[i], d[x]) <=> x >= j
      BY <1>1, <1>3, <2>4, NextBinFacts
    <3>2. j >= n - 1 /\ n - 1 >= j
      BY <2>1, <2>2, <3>1 DEF Positions
    <3>3. QED
      BY <3>2 DEF Positions
  <2>5. QED
    BY <2>1, <2>3, <2>4
<1>11. ASSUME NEW i \in Positions(d), \A x \in Positions(c) : ~Before(w, d[i], c[x])
       PROVE  \A j \in Positions(d) : ~NextBinAt(w, d, i, j)
  BY <1>2, <1>3, <1>11 DEF NextBinAt, Positions
<1>12. ASSUME NEW i \in Positions(d), NEW h \in Positions(c), IsTop(w, c, h),
              k.nextBin[d[i]] = l.nextBin[c[h]], ~Before(w, c[h], c[p]),
              \A x \in Positions(c) : Before(w, d[i], c[x]) <=> Before(w, c[h], c[x])
       PROVE  /\ \A j \in Positions(d) : NextBinAt(w, d, i, j) => k.nextBin[d[i]] = d[j]
              /\ InLastBin(w, d, i) => k.nextBin[d[i]] = NULL
  <2>1. CASE InLastBin(w, c, h) /\ \A x \in Positions(c) : ~Before(w, c[h], c[x])
    <3>1. k.nextBin[d[i]] = NULL
      BY <1>1, <1>12, <2>1 DEF Linked
    <3>2. QED
      BY <1>11, <1>12, <2>1, <3>1
  <2>2. CASE \E n \in Positions(c) :
               /\ NextBinAt(w, c, h, n) /\ IsTop(w, c, n)
               /\ \A x \in Positions(c) : Before(w, c[h], c[x]) <=> x >= n
    <3>1. PICK n \in Positions(c) :
               /\ NextBinAt(w, c, h, n) /\ IsTop(w, c, n)
               /\ \A x \in Positions(c) : Before(w, c[h], c[x]) <=> x >= n
      BY <2>2
    <3>2. k.nextBin[d[i]] = c[n]
      BY <1>1, <1>12, <3>1 DEF Linked
    <3>3. n > p
      BY <1>12, <3>1 DEF Positions
    <3>4. \A x \in Positions(c) : Before(w, d[i], c[x]) <=> x >= n
      BY <1>12, <3>1
    <3>5. QED
      BY <1>10, <3>2, <3>3, <3>4
  <2>3. QED
    BY <1>1, <2>1, <2>2, <1>12, NextBinExists
<1>13. ASSUME NEW i \in Positions(d), IsTop(w, d, i)
       PROVE  /\ \A j \in Positions(d) : NextBinAt(w, d, i, j) => k.nextBin[d[i]] = d[j]
              /\ InLastBin(w, d, i) => k.nextBin[d[i]] = NULL
  <2> DEFINE Following(j) == NextBinAt(w, d, i, j)
  <2>0. /\ \A j \in Positions(d) : Following(j) =>
              \A x \in Positions(d) : Before(w, d[i], d[x]) <=> x >= j
        /\ InLastBin(w, d, i) => \A x \in Positions(d) : ~Before(w, d[i], d[x])
    BY <1>1, <1>3, NextBinFacts
  <2> HIDE DEF Next
  <2>1. ASSUME i < p
        PROVE  /\ i \in Positions(c) /\ d[i] = c[i] /\ c[i] \in Events /\ IsTop(w, c, i)
               /\ k.nextBin[c[i]] = IF z # 0 /\ i = z THEN After(d, t - 1) ELSE l.nextBin[c[i]]
    <3>1. i \in Positions(c) /\ d[i] = c[i] /\ c[i] \in Events
      BY <1>2, <1>3, <2>1
    <3>2. IsTop(w, c, i)
      <4>1. i # 1 => i - 1 \in Positions(d) /\ i - 1 < p
        BY <2>1 DEF Positions
      <4>2. QED
        BY <1>3, <1>13, <3>1, <4>1 DEF IsTop
    <3>3. c[i] # l.nextInBin[c[p]]
      <4>1. p < Len(c) => p + 1 \in Positions(c) /\ p + 1 # i
        BY <1>2, <2>1 DEF Positions
      <4>2. p < Len(c) => c[p + 1] # c[i]
        BY <1>1, <3>1, <4>1 DEF Ordered
      <4>3. QED
        BY <1>1, <1>2, <3>1, <4>2 DEF Linked
    <3>4. z # 0 => (c[i] = c[z] <=> i = z)
      BY <1>1, <1>6, <3>1 DEF Ordered
    <3>5. QED
      BY <1>4, <3>1, <3>2, <3>3, <3>4
  <2>2. CASE i < p /\ z # 0 /\ i = z
    <3>1. \A x \in Positions(c) : Before(w, c[z], c[x]) <=> x >= t
      BY <1>1, <1>4, <1>6, <2>2, NextBinFacts
    <3>2. ASSUME NEW x \in Positions(d)
          PROVE  Before(w, d[i], d[x]) <=> x >= t
      <4>1. CASE x < p
        BY <1>3, <2>1, <2>2, <3>1, <4>1
      <4>2. CASE x >= p
        <5>1. x + 1 \in Positions(c) /\ d[x] = c[x + 1] /\ x + 1 >= t /\ x >= t
          BY <1>3, <1>6, <4>2 DEF Positions
        <5>2. QED
          BY <2>1, <2>2, <3>1, <5>1
      <4>3. QED
        BY <1>2, <4>1, <4>2 DEF Positions
    <3>3. ASSUME NEW j \in Positions(d), Following(j)
          PROVE  After(d, t - 1) = d[j]
      <4>1. j >= t
        BY <2>0, <3>2, <3>3 DEF Positions
      <4>2. t \in Positions(d)
        BY <1>6, <4>1 DEF Positions
      <4>3. t >= j
        BY <2>0, <3>2, <3>3, <4>2 DEF Positions
      <4>4. j = t
        BY <4>1, <4>2, <4>3 DEF Positions
      <4>5. QED
        BY <1>5, <4>2, <4>4 DEF Positions
    <3>4. ASSUME InLastBin(w, d, i)
          PROVE  After(d, t - 1) = NULL
      <4>1. t \notin Positions(d)
        BY <2>0, <3>2, <3>4 DEF Positions
      <4>2. QED
        BY <1>2, <1>5, <1>6, <4>1 DEF Positions
    <3>5. QED
      BY <2>1, <2>2, <3>3, <3>4 DEF Next
  <2>3. CASE i < p /\ ~(z # 0 /\ i = z) /\ i = t
    <3>1. k.nextBin[d[i]] = l.nextBin[c[t]] /\ d[i] = c[t]
      BY <2>1, <2>3
    <3>2. QED
      BY <1>4, <1>6, <1>12, <3>1
  <2>4. CASE i < p /\ ~(z # 0 /\ i = z) /\ i # t
    <3>1. i < t
      <4> SUFFICES ASSUME i > t PROVE FALSE
        BY <1>2, <2>4 DEF Positions
      <4>1. Before(w, c[t], c[i])
        BY <1>1, <1>6, <2>1, <2>4, TopIsFirst DEF Positions
      <4>2. ~Before(w, c[p], c[i])
        BY <1>1, <2>1, <2>4 DEF Ordered
      <4>3. QED
        BY <1>1, <1>2, <1>4, <1>6, <2>1, <2>4, <4>1, <4>2, OrderFacts
    <3>2. Before(w, c[i], c[t]) /\ z # 0
      <4>1. t # 1
        BY <3>1 DEF Positions
      <4>2. QED
        BY <1>1, <1>4, <1>6, <2>1, <2>4, <3>1, <4>1, TopIsFirst DEF Positions
    <3>3. PICK n \in Positions(c) :
               /\ NextBinAt(w, c, i, n) /\ IsTop(w, c, n)
               /\ \A x \in Positions(c) : Before(w, c[i], c[x]) <=> x >= n
      BY <1>1, <1>6, <2>1, <2>4, <3>2, NextBinExists
    <3>4. n < t
      <4> SUFFICES ASSUME n = t PROVE FALSE
        BY <1>6, <3>2, <3>3 DEF Positions
      <4>1. \A x \in Positions(c) : Before(w, c[z], c[x]) <=> x >= t
        BY <1>1, <1>4, <1>6, <3>2, NextBinFacts
      <4>2. ~Before(w, c[z], c[i]) /\ ~Before(w, c[i], c[z])
        BY <1>6, <2>1, <2>4, <3>1, <3>2, <3>3, <4>1 DEF Positions
      <4>3. i <= z /\ z <= i
        BY <1>1, <1>4, <1>6, <2>1, <2>4, <3>2, <4>2, TopIsFirst
      <4>4. QED
        BY <1>6, <2>4, <3>2, <4>3 DEF Positions
    <3>5. n \in Positions(d) /\ d[n] = c[n]
      <4>1. n \in Positions(d) /\ n < p
        BY <1>2, <1>3, <1>6, <3>4 DEF Positions
      <4>2. QED
        BY <1>3, <4>1
    <3>6. ASSUME NEW x \in Positions(d)
          PROVE  Before(w, d[i], d[x]) <=> x >= n
      <4>1. CASE x < p
        BY <1>3, <2>1, <2>4, <3>3, <4>1
      <4>2. CASE x >= p
        <5>1. x + 1 \in Positions(c) /\ d[x] = c[x + 1] /\ x + 1 >= n /\ x >= n
          BY <1>3, <1>6, <3>4, <4>2 DEF Positions
        <5>2. QED
          BY <2>1, <2>4, <3>3, <5>1
      <4>3. QED
        BY <1>2, <4>1, <4>2 DEF Positions
    <3>7. ASSUME NEW j \in Positions(d), Following(j)
          PROVE  j = n
      <4>1. j >= n /\ n >= j
        BY <2>0, <3>5, <3>6, <3>7 DEF Positions
      <4>2. QED
        BY <4>1 DEF Positions
    <3>8. ~InLastBin(w, d, i)
      BY <2>0, <3>5, <3>6 DEF Positions
    <3>9. l.nextBin[c[i]] = c[n]
      BY <1>1, <2>1, <2>4, <3>3 DEF Linked
    <3>10. QED
      BY <2>1, <2>4, <3>5, <3>7, <3>8, <3>9 DEF Next
  <2>5. CASE i = p /\ ~Before(w, c[p], c[p + 1])
    <3>1. p + 1 \in Positions(c) /\ d[i] = c[p + 1] /\ p < Len(c) /\ c[p + 1] \in Events
      BY <1>2, <1>3, <2>5 DEF Positions
    <3>2. ~Before(w, c[p + 1], c[p])
      BY <1>1, <1>2, <3>1 DEF Ordered, Positions
    <3>3. p = t
      <4> SUFFICES ASSUME p # t PROVE FALSE
        OBVIOUS
      <4>1. p - 1 \in Positions(d) /\ p - 1 < p /\ p # 1
        BY <1>2, <1>3, <1>8 DEF Positions
      <4>2. Before(w, c[p - 1], c[p + 1])
        BY <1>3, <1>13, <2>5, <3>1, <4>1 DEF IsTop
      <4>3. QED
        BY <1>1, <1>2, <1>8, <2>5, <3>1, <4>2, OrderFacts
    <3>4. k.nextBin[d[i]] = l.nextBin[c[p]]
      <4>1. l.nextInBin[c[p]] = c[p + 1]
        BY <1>1, <2>5, <3>1 DEF Linked
      <4>2. z # 0 => c[p + 1] # c[z]
        BY <1>1, <1>6, <3>1, <3>3 DEF Ordered, Positions
      <4>3. QED
        BY <1>4, <3>1, <3>3, <4>1, <4>2
    <3>5. \A x \in Events : Before(w, c[p + 1], x) <=> Before(w, c[p], x)
      BY <1>1, <1>2, <2>5, <3>1, <3>2, OrderFacts
    <3>6. ~Before(w, c[p], c[p])
      BY <1>1, <1>2, OrderFacts
    <3>7. \A x \in Positions(c) : Before(w, d[i], c[x]) <=> Before(w, c[p], c[x])
      BY <1>2, <3>1, <3>5
    <3>8. QED
      BY <1>4, <1>12, <3>3, <3>4, <3>6, <3>7
  <2>6. CASE i >= p /\ ~(i = p /\ ~Before(w, c[p], c[p + 1]))
    <3>1. /\ i + 1 \in Positions(c) /\ d[i] = c[i + 1] /\ i + 1 > p /\ c[i + 1] \in Events
          /\ (i + 1) - 1 = i /\ i + 1 # 1
      BY <1>2, <1>3, <2>6 DEF Positions
    <3>2. IsTop(w, c, i + 1)
      <4>1. CASE i = p
        BY <2>6, <3>1, <4>1 DEF IsTop
      <4>2. CASE i # p
        <5>1. i - 1 \in Positions(d) /\ i - 1 >= p /\ (i - 1) + 1 = i /\ i # 1
          BY <1>2, <2>6, <4>2 DEF Positions
        <5>2. Before(w, c[i], c[i + 1])
          BY <1>3, <1>13, <3>1, <5>1 DEF IsTop
        <5>3. QED
          BY <3>1, <5>2 DEF IsTop
      <4>3. QED
        BY <4>1, <4>2
    <3>3. c[i + 1] # l.nextInBin[c[p]]
      <4>1. l.nextInBin[c[p]] = IF p < Len(c) /\ ~Before(w, c[p], c[p + 1]) THEN c[p + 1] ELSE NULL
        BY <1>1 DEF Linked
      <4>2. CASE i = p
        BY <1>2, <2>6, <3>1, <4>1, <4>2
      <4>3. CASE i # p
        <5>1. p < Len(c) => p + 1 \in Positions(c) /\ p + 1 # i + 1
          BY <1>2, <4>3 DEF Positions
        <5>2. p < Len(c) => c[p + 1] # c[i + 1]
          BY <1>1, <3>1, <5>1 DEF Ordered
        <5>3. QED
          BY <1>2, <3>1, <4>1, <5>2
      <4>4. QED
        BY <4>2, <4>3
    <3>4. k.nextBin[d[i]] = l.nextBin[c[i + 1]]
      <4>1. z # 0 => c[i + 1] # c[z]
        BY <1>1, <1>6, <3>1 DEF Ordered, Positions
      <4>2. QED
        BY <1>4, <3>1, <3>3, <4>1
    <3>5. ~Before(w, c[i + 1], c[p])
      BY <1>1, <1>2, <3>1 DEF Ordered, Positions
    <3>6. QED
      BY <1>12, <3>1, <3>2, <3>4, <3>5
  <2>7. QED
    BY <1>2, <2>2, <2>3, <2>4, <2>5, <2>6 DEF Positions
<1>14. Linked(k, w, d)
  BY <1>7, <1>9, <1>13 DEF Linked
<1>15. NoCycles(k)
  <2>1. ASSUME z # 0
        PROVE  \E i \in Positions(d) : IsTop(w, d, i) /\ c[z] = d[i]
    <3>1. z \in Positions(d) /\ z < p /\ (z # 1 => z - 1 \in Positions(d) /\ z - 1 < p)
      BY <1>2, <1>3, <1>6, <2>1 DEF Positions
    <3>2. d[z] = c[z] /\ (z # 1 => d[z - 1] = c[z - 1])
      BY <1>3, <3>1
    <3>3. QED
      BY <1>4, <2>1, <3>1, <3>2 DEF IsTop
  <2>2. ASSUME p = t, NEW x \in Events, x = l.nextInBin[c[p]]
        PROVE  \E i \in Positions(d) : IsTop(w, d, i) /\ x = d[i]
    <3>1. p < Len(c) /\ x = c[p + 1]
      BY <1>1, <1>2, <2>2 DEF Linked
    <3>2. p \in Positions(d) /\ p + 1 \in Positions(c) /\ d[p] = c[p + 1] /\ c[p + 1] \in Events
      <4>1. p \in Positions(d)
        BY <1>2, <1>3, <3>1 DEF Positions
      <4>2. QED
        BY <1>2, <1>3, <4>1
    <3>3. IsTop(w, d, p)
      <4>1. CASE p = 1
        BY <4>1 DEF IsTop
      <4>2. CASE p # 1
        <5>1. p - 1 \in Positions(d) /\ p - 1 \in Positions(c) /\ d[p - 1] = c[p - 1]
          <6>1. p - 1 \in Positions(d) /\ p - 1 < p
            BY <1>2, <1>3, <3>1, <4>2 DEF Positions
          <6>2. QED
            BY <1>3, <6>1
        <5>2. Before(w, c[p - 1], c[p]) /\ ~Before(w, c[p + 1], c[p])
          BY <1>1, <1>2, <1>4, <2>2, <3>2, <4>2 DEF IsTop, Ordered, Positions
        <5>3. QED
          BY <1>1, <1>2, <3>2, <5>1, <5>2, OrderFacts DEF IsTop
      <4>3. QED
        BY <4>1, <4>2
    <3>4. QED
      BY <3>1, <3>2, <3>3
  <2>3. \A x \in Events : \/ k.nextBin[x] = l.nextBin[x]
                         \/ \E i \in Positions(d) : IsTop(w, d, i) /\ x = d[i]
    BY <1>4, <2>1, <2>2
  <2>4. ASSUME p # t
        PROVE  \E i \in Positions(d) : c[p - 1] = d[i]
    <3>1. p - 1 \in Positions(d) /\ p - 1 < p
      BY <1>2, <1>3, <1>8, <2>4 DEF Positions
    <3>2. QED
      BY <1>3, <3>1
  <2>5. \A x \in Events : k.nextInBin[x] = l.nextInBin[x] \/ \E i \in Positions(d) : x = d[i]
    BY <1>4, <2>4
  <2>6. QED
    BY <1>1, <1>3, <1>4, <1>14, <2>3, <2>5, StillNoCycles
<1>16. QED
  BY <1>1, <1>3, <1>4, <1>14, <1>15 DEF Holds, d, k

(* The pop of serviceOne() removes the head.                                 *)
LEMMA PoppedIsRemoved ==
  ASSUME NEW l \in Pointers, NEW w, l.head \in Events
  PROVE  Popped(l) = Remove(l, w, l.head)
<1> DEFINE next == l.nextInBin[l.head]
           r == RemoveItem(l, l.head, l.head)
<1>1. SameBin(w, l.head, l.head)
  BY DEF SameBin
<1>2. Remove(l, w, l.head) = [r.list EXCEPT !.head = r.top]
  BY <1>1 DEF Remove
<1>3. l = [head |-> l.head, nextBin |-> l.nextBin, nextInBin |-> l.nextInBin]
  BY DEF Pointers
<1>4. CASE next = NULL
  <2>1. r.list = l /\ r.top = l.nextBin[l.head]
    BY <1>4 DEF RemoveItem
  <2>2. QED
    BY <1>2, <1>4, <2>1 DEF Popped
<1>5. CASE next # NULL
  <2>1. r.list = [l EXCEPT !.nextBin[next] = l.nextBin[l.head]] /\ r.top = next
    BY <1>5 DEF RemoveItem
  <2>2. Popped(l) = [l EXCEPT !.head = next, !.nextBin[next] = l.nextBin[l.head]]
    BY <1>5 DEF Popped
  <2> HIDE DEF next, r
  <2>3. Remove(l, w, l.head) =
          [head |-> next, nextBin |-> [l.nextBin EXCEPT ![next] = l.nextBin[l.head]],
           nextInBin |-> l.nextInBin]
    BY <1>2, <1>3, <2>1
  <2>4. Popped(l) =
          [head |-> next, nextBin |-> [l.nextBin EXCEPT ![next] = l.nextBin[l.head]],
           nextInBin |-> l.nextInBin]
    BY <1>3, <2>2
  <2>5. QED
    BY <2>3, <2>4
<1>6. QED
  BY <1>4, <1>5

(* Removing the first event leaves the tail.                                 *)
LEMMA PopHolds ==
  ASSUME NEW l, NEW w, NEW c, Holds(l, w, c), l.head # NULL
  PROVE  /\ c # <<>> /\ 1 \in Positions(c) /\ l.head = c[1]
         /\ Holds(Popped(l), w, RemovedAt(c, 1)) /\ RemovedAt(c, 1) = Tail(c)
<1>1. /\ l \in Pointers /\ c \in Seq(Events) /\ w \in Ticked /\ Ordered(w, c)
  BY DEF Holds
<1>2. c # <<>> /\ l.head = c[1]
  BY DEF Holds, Linked
<1>3. Len(c) \in Nat /\ 1 \in Positions(c) /\ c[1] \in Events
  BY <1>1, <1>2, PositionFacts DEF Positions
<1>4. Holds(Popped(l), w, RemovedAt(c, 1))
  BY <1>1, <1>2, <1>3, PoppedIsRemoved, RemoveHolds
<1>5. RemovedAt(c, 1) = Tail(c)
  <2> DEFINE d == RemovedAt(c, 1)
  <2>1. /\ d \in Seq(Events) /\ Len(d) = Len(c) - 1
        /\ \A i \in Positions(d) : i >= 1 => d[i] = c[i + 1]
    BY <1>1, <1>3, RemovedIsOrdered
  <2>2. /\ Tail(c) \in Seq(Events) /\ Len(Tail(c)) = Len(c) - 1
        /\ \A i \in 1 .. Len(Tail(c)) : Tail(c)[i] = c[i + 1]
    BY <1>1, <1>2, HeadTailProperties
  <2> HIDE DEF d
  <2>3. \A i \in 1 .. Len(d) : d[i] = Tail(c)[i]
    BY <2>1, <2>2 DEF Positions
  <2>4. d = Tail(c)
    BY <2>1, <2>2, <2>3, SeqEqual
  <2>5. QED
    BY <2>4 DEF d
<1>6. QED
  BY <1>2, <1>3, <1>4, <1>5

(* The ticks of other events do not matter.                                  *)
LEMMA OtherTicks ==
  ASSUME NEW l, NEW w, NEW c, Holds(l, w, c), NEW v \in Ticked,
         \A i \in Positions(c) : v[c[i]] = w[c[i]]
  PROVE  Holds(l, v, c)
<1>1. c \in Seq(Events) /\ Len(c) \in Nat
  BY PositionFacts DEF Holds
<1>2. \A i, j \in Positions(c) : Before(v, c[i], c[j]) <=> Before(w, c[i], c[j])
  BY DEF Before
<1>3. Ordered(v, c)
  BY <1>2 DEF Holds, Ordered
<1>4. Linked(l, v, c)
  <2>1. \A i \in Positions(c) : i < Len(c) => i + 1 \in Positions(c)
    BY <1>1 DEF Positions
  <2>2. \A i \in Positions(c) : IsTop(v, c, i) <=> IsTop(w, c, i)
    <3>1. \A i \in Positions(c) : i # 1 => i - 1 \in Positions(c)
      BY <1>1 DEF Positions
    <3>2. QED
      BY <1>2, <3>1 DEF IsTop
  <2>3. \A i, j \in Positions(c) : NextBinAt(v, c, i, j) <=> NextBinAt(w, c, i, j)
    <3>1. ASSUME NEW i \in Positions(c), NEW j \in Positions(c), j \in i + 1 .. Len(c)
          PROVE  j - 1 \in Positions(c)
      BY <1>1, <3>1 DEF Positions
    <3>2. QED
      BY <1>2, <3>1 DEF NextBinAt
  <2>4. \A i \in Positions(c) : InLastBin(v, c, i) <=> InLastBin(w, c, i)
    <3>1. ASSUME NEW i \in Positions(c) PROVE Len(c) \in Positions(c)
      BY <1>1 DEF Positions
    <3>2. QED
      BY <1>2, <3>1 DEF InLastBin
  <2>5. Linked(l, w, c)
    BY DEF Holds
  <2>6. \A i \in Positions(c) :
          i < Len(c) => (Before(v, c[i], c[i + 1]) <=> Before(w, c[i], c[i + 1]))
    BY <1>2, <2>1
  <2>7. QED
    BY <2>2, <2>3, <2>4, <2>5, <2>6 DEF Linked
<1>5. QED
  BY <1>3, <1>4 DEF Holds

(* Clearing the links of an event that is not held.                          *)
LEMMA ClearedHolds ==
  ASSUME NEW l, NEW w, NEW c, Holds(l, w, c), NEW e \in Events, NotIn(e, c)
  PROVE  Holds([l EXCEPT !.nextBin[e] = NULL, !.nextInBin[e] = NULL], w, c)
<1> DEFINE k == [l EXCEPT !.nextBin[e] = NULL, !.nextInBin[e] = NULL]
<1>1. /\ l \in Pointers /\ NoCycles(l) /\ w \in Ticked
      /\ c \in Seq(Events) /\ Ordered(w, c) /\ Linked(l, w, c)
  BY DEF Holds
<1>2. l = [head |-> l.head, nextBin |-> l.nextBin, nextInBin |-> l.nextInBin]
  BY <1>1 DEF Pointers
<1>3. k = [head |-> l.head, nextBin |-> [l.nextBin EXCEPT ![e] = NULL],
           nextInBin |-> [l.nextInBin EXCEPT ![e] = NULL]]
  <2>1. k = [l EXCEPT !.nextBin[e] = NULL, !.nextInBin[e] = NULL]
    OBVIOUS
  <2> HIDE DEF k
  <2>2. QED
    BY <1>2, <2>1
<1> HIDE DEF k
<1>4. k \in Pointers /\ k.head = l.head
  BY <1>1, <1>3 DEF Pointers
<1>5. \A x \in Events : /\ k.nextBin[x] = IF x = e THEN NULL ELSE l.nextBin[x]
                        /\ k.nextInBin[x] = IF x = e THEN NULL ELSE l.nextInBin[x]
  BY <1>1, <1>3 DEF Pointers
<1>6. \A i \in Positions(c) : k.nextBin[c[i]] = l.nextBin[c[i]] /\ k.nextInBin[c[i]] = l.nextInBin[c[i]]
  BY <1>1, <1>5, PositionFacts DEF NotIn
<1>7. Linked(k, w, c)
  BY <1>1, <1>4, <1>6 DEF Linked
<1>8. NULL \notin Events
  BY EventParameters
<1>9. ASSUME NEW old \in [Events -> Events \cup {NULL}], Acyclic(old),
             NEW new \in [Events -> Events \cup {NULL}],
             \A x \in Events : new[x] = IF x = e THEN NULL ELSE old[x]
      PROVE  Acyclic(new)
  BY <1>8, <1>9 DEF Acyclic
<1>10. NoCycles(k)
  <2>1. /\ l.nextBin \in [Events -> Events \cup {NULL}] /\ Acyclic(l.nextBin)
        /\ l.nextInBin \in [Events -> Events \cup {NULL}] /\ Acyclic(l.nextInBin)
        /\ k.nextBin \in [Events -> Events \cup {NULL}]
        /\ k.nextInBin \in [Events -> Events \cup {NULL}]
    BY <1>1, <1>4 DEF Pointers, NoCycles
  <2>2. QED
    BY <1>5, <1>9, <2>1 DEF NoCycles
<1>11. QED
  BY <1>1, <1>4, <1>7, <1>10 DEF Holds, k

(* The position of an event held is known.                                   *)
LEMMA PositionOf ==
  ASSUME NEW c \in Seq(Events), NEW S, {c[i] : i \in DOMAIN c} = S
  PROVE  /\ DOMAIN c = Positions(c)
         /\ \A e \in S : \E p \in Positions(c) : c[p] = e
         /\ \A e : e \notin S => NotIn(e, c)
         /\ \A i \in Positions(c) : c[i] \in S
<1>1. DOMAIN c = Positions(c)
  BY DEF Positions
<1>2. QED
  BY <1>1 DEF NotIn

-----------------------------------------------------------------------------
(* The invariant of the queue.                                               *)

TypeOK ==
  /\ when \in [Events -> 0 .. MaxTick]
  /\ curTick \in 0 .. MaxTick
  /\ current \in Events \cup {NULL}
  /\ squashed \subseteq scheduled /\ scheduled \subseteq live /\ live \subseteq Events

(* The pointers hold the events with the flag, in the order of service.      *)
InOrder ==
  /\ Holds(q, when, Contents)
  /\ {Contents[i] : i \in DOMAIN Contents} = scheduled

QueueInv == TypeOK /\ InOrder /\ NothingLate

(* The events of a sequence.                                                 *)
Elements(c) == {c[i] : i \in Positions(c)}

(* A queue that holds some sequence holds its contents.                      *)
LEMMA InOrderNext ==
  ASSUME NEW c, Holds(q', when', c), Elements(c) = scheduled'
  PROVE  InOrder' /\ Contents' = c
<1>1. Contents' = ContentsFrom(q')[q'.head]
  BY DEF Contents, ContentsFrom
<1>2. q' \in Pointers /\ NoCycles(q') /\ c \in Seq(Events) /\ Linked(q', when', c)
  BY DEF Holds
<1>3. ContentsFrom(q')[q'.head] = c
  <2>1. CASE c = <<>>
    <3>1. q'.head = NULL
      BY <1>2, <2>1 DEF Linked
    <3>2. ContentsFrom(q')[NULL] = <<>>
      BY <1>2, ContentsEquation, StackType
    <3>3. QED
      BY <2>1, <3>1, <3>2
  <2>2. CASE c # <<>>
    <3>1. q'.head = c[1] /\ 1 \in Positions(c) /\ IsTop(when', c, 1)
      BY <1>2, <2>2, PositionFacts DEF Linked, Positions, IsTop
    <3>2. ContentsFrom(q')[c[1]] = SubSeq(c, 1, Len(c))
      BY <3>1, ContentsFromTop
    <3>3. QED
      BY <1>2, <3>1, <3>2, SubSeqFull
  <2>3. QED
    BY <2>1, <2>2
<1>4. DOMAIN c = Positions(c)
  BY <1>2 DEF Positions
<1>5. QED
  BY <1>1, <1>3, <1>4 DEF InOrder, Elements

(* At the start the lists are empty.                                         *)
LEMMA InitInv == Init => QueueInv
<1> SUFFICES ASSUME Init PROVE QueueInv
  OBVIOUS
<1>1. TypeOK /\ NothingLate
  BY EventParameters DEF Init, TypeOK, NothingLate
<1>2. Holds(q, when, <<>>)
  <2>1. q \in Pointers /\ q.head = NULL
        /\ q.nextBin = [e \in Events |-> NULL] /\ q.nextInBin = [e \in Events |-> NULL]
    BY DEF Init, Pointers
  <2>2. NoCycles(q)
    BY <2>1, EventParameters DEF NoCycles, Acyclic
  <2>3. when \in Ticked
    BY DEF Init, Ticked
  <2>4. Positions(<<>>) = {}
    BY DEF Positions
  <2>5. Ordered(when, <<>>) /\ Linked(q, when, <<>>)
    BY <2>1, <2>4 DEF Ordered, Linked
  <2>6. QED
    BY <2>1, <2>2, <2>3, <2>5 DEF Holds
<1>3. Contents = <<>>
  BY <1>2, ContentsAreHeld
<1>4. QED
  BY <1>1, <1>2, <1>3 DEF QueueInv, InOrder, Init

(* What the steps have in common.                                            *)
LEMMA InvFacts ==
  ASSUME QueueInv
  PROVE  /\ Holds(q, when, Contents) /\ Contents \in Seq(Events) /\ Ordered(when, Contents)
         /\ q \in Pointers /\ when \in Ticked /\ DOMAIN Contents = Positions(Contents)
         /\ \A e \in scheduled : \E p \in Positions(Contents) : Contents[p] = e
         /\ \A e : e \notin scheduled => NotIn(e, Contents)
         /\ \A i \in Positions(Contents) : Contents[i] \in scheduled
         /\ Elements(Contents) = scheduled
<1>1. /\ Holds(q, when, Contents) /\ Contents \in Seq(Events) /\ Ordered(when, Contents)
      /\ q \in Pointers /\ when \in Ticked
  BY DEF QueueInv, InOrder, Holds
<1>2. {Contents[i] : i \in DOMAIN Contents} = scheduled
  BY DEF QueueInv, InOrder
<1>3. /\ DOMAIN Contents = Positions(Contents)
      /\ \A e \in scheduled : \E p \in Positions(Contents) : Contents[p] = e
      /\ \A e : e \notin scheduled => NotIn(e, Contents)
      /\ \A i \in Positions(Contents) : Contents[i] \in scheduled
  BY <1>1, <1>2, PositionOf
<1>4. QED
  BY <1>1, <1>2, <1>3 DEF Elements

(* The events of a sequence with one more.                                   *)
LEMMA InsertedElements ==
  ASSUME NEW w \in Ticked, NEW c \in Seq(Events), Ordered(w, c), NEW e \in Events,
         NotIn(e, c), NEW m \in 0 .. Len(c), Divides(w, c, m, e)
  PROVE  Elements(InsertedAt(c, m, e)) = Elements(c) \cup {e}
<1> DEFINE d == InsertedAt(c, m, e)
<1>1. /\ Len(d) = Len(c) + 1 /\ d[m + 1] = e
      /\ \A i \in Positions(c) : (i <= m => d[i] = c[i]) /\ (i > m => d[i + 1] = c[i])
  BY InsertedIsOrdered
<1>2. Len(c) \in Nat /\ m \in 0 .. Len(c)
  BY PositionFacts
<1> HIDE DEF d
<1>3. /\ m + 1 \in Positions(d)
      /\ \A i \in Positions(c) : i \in Positions(d) /\ i + 1 \in Positions(d) /\ (i <= m \/ i > m)
      /\ \A i \in Positions(d) : \/ i \in Positions(c) /\ i <= m
                                 \/ i = m + 1
                                 \/ i - 1 \in Positions(c) /\ i - 1 > m /\ (i - 1) + 1 = i
  BY <1>1, <1>2 DEF Positions
<1>4. \A i \in Positions(d) : d[i] = e \/ \E j \in Positions(c) : d[i] = c[j]
  BY <1>1, <1>3
<1>5. \A j \in Positions(c) : \E i \in Positions(d) : d[i] = c[j]
  BY <1>1, <1>3
<1>6. Elements(d) = Elements(c) \cup {e}
  BY <1>1, <1>3, <1>4, <1>5 DEF Elements
<1>7. QED
  BY <1>6 DEF d

(* The events of a sequence with one less.                                   *)
LEMMA RemovedElements ==
  ASSUME NEW w \in Ticked, NEW c \in Seq(Events), Ordered(w, c), NEW p \in Positions(c)
  PROVE  Elements(RemovedAt(c, p)) = Elements(c) \ {c[p]}
<1> DEFINE d == RemovedAt(c, p)
<1>1. /\ Len(d) = Len(c) - 1 /\ NotIn(c[p], d)
      /\ \A i \in Positions(d) : /\ i < p => i \in Positions(c) /\ d[i] = c[i]
                                 /\ i >= p => i + 1 \in Positions(c) /\ d[i] = c[i + 1]
  BY RemovedIsOrdered
<1>2. Len(c) \in Nat /\ p \in 1 .. Len(c)
  BY PositionFacts DEF Positions
<1> HIDE DEF d
<1>3. \A i \in Positions(d) : \E j \in Positions(c) : d[i] = c[j]
  <2>1. \A i \in Positions(d) : i < p \/ i >= p
    BY <1>2 DEF Positions
  <2>2. QED
    BY <1>1, <2>1
<1>4. \A j \in Positions(c) : c[j] # c[p] => \E i \in Positions(d) : d[i] = c[j]
  <2>1. ASSUME NEW j \in Positions(c), c[j] # c[p]
        PROVE  \E i \in Positions(d) : d[i] = c[j]
    <3>1. CASE j < p
      <4>1. j \in Positions(d)
        BY <1>1, <1>2, <3>1 DEF Positions
      <4>2. QED
        BY <1>1, <3>1, <4>1
    <3>2. CASE j > p
      <4>1. j - 1 \in Positions(d) /\ j - 1 >= p /\ (j - 1) + 1 = j
        BY <1>1, <1>2, <3>2 DEF Positions
      <4>2. QED
        BY <1>1, <4>1
    <3>3. QED
      BY <1>2, <2>1, <3>1, <3>2 DEF Positions
  <2>2. QED
    BY <2>1
<1>5. Elements(d) = Elements(c) \ {c[p]}
  BY <1>1, <1>3, <1>4 DEF NotIn, Elements
<1>6. QED
  BY <1>5 DEF d

-----------------------------------------------------------------------------
(* What each operation does to the contents.                                 *)

(* insert() after setting the tick of an event that is not held.             *)
LEMMA InsertStep ==
  ASSUME NEW l, NEW w, NEW c, Holds(l, w, c), NEW e \in Events, NotIn(e, c),
         NEW v \in Ticked, \A x \in Events \ {e} : v[x] = w[x]
  PROVE  \E m \in 0 .. Len(c) :
           /\ Divides(v, c, m, e)
           /\ Holds(Insert(l, v, e), v, InsertedAt(c, m, e))
           /\ Elements(InsertedAt(c, m, e)) = Elements(c) \cup {e}
<1>1. w \in Ticked /\ c \in Seq(Events)
  BY DEF Holds
<1>2. \A i \in Positions(c) : v[c[i]] = w[c[i]]
  BY <1>1, PositionFacts DEF NotIn
<1>3. Holds(l, v, c)
  BY <1>2, OtherTicks
<1>4. Ordered(v, c)
  BY <1>3 DEF Holds
<1>5. PICK m \in 0 .. Len(c) : Divides(v, c, m, e)
  BY <1>1, <1>2, <1>4, DividesExists
<1>6. Holds(Insert(l, v, e), v, InsertedAt(c, m, e))
  BY <1>3, <1>5, InsertHolds
<1>7. Elements(InsertedAt(c, m, e)) = Elements(c) \cup {e}
  BY <1>1, <1>2, <1>4, <1>5, InsertedElements
<1>8. QED
  BY <1>5, <1>6, <1>7

(* schedule() puts the event into the contents.                               *)
LEMMA ScheduleStep ==
  ASSUME QueueInv, NEW e \in Events, NEW t \in 0 .. MaxTick, Schedule(e, t)
  PROVE  /\ InOrder'
         /\ \E m \in 0 .. Len(Contents) :
              Divides(when', Contents, m, e) /\ Contents' = InsertedAt(Contents, m, e)
<1>1. /\ when' = [when EXCEPT ![e] = t] /\ q' = Insert(q, when', e)
      /\ scheduled' = scheduled \cup {e} /\ e \notin scheduled
  BY DEF Schedule
<1>2. Holds(q, when, Contents) /\ NotIn(e, Contents)
      /\ Elements(Contents) = scheduled
  BY <1>1, InvFacts
<1>3. when' \in Ticked /\ \A x \in Events \ {e} : when'[x] = when[x]
  <2>1. t \in Nat /\ when \in Ticked
    BY EventParameters, InvFacts
  <2>2. QED
    BY <1>1, <2>1 DEF Ticked
<1>4. PICK m \in 0 .. Len(Contents) :
        /\ Divides(when', Contents, m, e)
        /\ Holds(Insert(q, when', e), when', InsertedAt(Contents, m, e))
        /\ Elements(InsertedAt(Contents, m, e)) = Elements(Contents) \cup {e}
  BY <1>2, <1>3, InsertStep
<1>5. InOrder' /\ Contents' = InsertedAt(Contents, m, e)
  <2> DEFINE d == InsertedAt(Contents, m, e)
  <2>1. Holds(q', when', d) /\ Elements(d) = scheduled'
    BY <1>1, <1>2, <1>4
  <2> HIDE DEF d
  <2>2. InOrder' /\ Contents' = d
    BY <2>1, InOrderNext
  <2>3. QED
    BY <2>2 DEF d
<1>6. QED
  BY <1>4, <1>5

(* deschedule() takes it out of them.                                         *)
LEMMA DescheduleStep ==
  ASSUME QueueInv, NEW e \in Events, Deschedule(e)
  PROVE  /\ InOrder'
         /\ \E p \in Positions(Contents) : Contents[p] = e /\ Contents' = RemovedAt(Contents, p)
<1>1. /\ when' = when /\ q' = Remove(q, when, e)
      /\ scheduled' = scheduled \ {e} /\ e \in scheduled
  BY DEF Deschedule
<1>2. /\ Holds(q, when, Contents) /\ Contents \in Seq(Events) /\ Ordered(when, Contents)
      /\ when \in Ticked /\ Elements(Contents) = scheduled
  BY <1>1, InvFacts
<1>3. PICK p \in Positions(Contents) : Contents[p] = e
  BY <1>1, InvFacts
<1> DEFINE d == RemovedAt(Contents, p)
<1>4. Holds(q', when', d)
  BY <1>1, <1>2, <1>3, RemoveHolds
<1>5. Elements(d) = scheduled'
  BY <1>1, <1>2, <1>3, RemovedElements
<1> HIDE DEF d
<1>6. InOrder' /\ Contents' = d
  BY <1>4, <1>5, InOrderNext
<1>7. QED
  BY <1>3, <1>6 DEF d

(* First the event goes, when it is scheduled, then it comes back.           *)
LEMMA RescheduleStep ==
  ASSUME QueueInv, NEW e \in Events, NEW t \in 0 .. MaxTick, Reschedule(e, t)
  PROVE  /\ InOrder'
         /\ \E d \in Seq(Events) :
              /\ e \in scheduled =>
                   \E p \in Positions(Contents) : Contents[p] = e /\ d = RemovedAt(Contents, p)
              /\ e \notin scheduled => d = Contents
              /\ NotIn(e, d)
              /\ \E m \in 0 .. Len(d) : Divides(when', d, m, e) /\ Contents' = InsertedAt(d, m, e)
<1> DEFINE rest == IF e \in scheduled THEN Remove(q, when, e) ELSE q
<1>1. /\ when' = [when EXCEPT ![e] = t] /\ q' = Insert(rest, when', e)
      /\ scheduled' = scheduled \cup {e}
  BY DEF Reschedule
<1>2. /\ Holds(q, when, Contents) /\ Contents \in Seq(Events) /\ Ordered(when, Contents)
      /\ when \in Ticked /\ Elements(Contents) = scheduled
  BY InvFacts
<1>3. when' \in Ticked /\ \A x \in Events \ {e} : when'[x] = when[x]
  <2>1. t \in Nat
    BY EventParameters
  <2>2. QED
    BY <1>1, <1>2, <2>1 DEF Ticked
<1> DEFINE Rest(d) ==
      /\ e \in scheduled =>
           \E p \in Positions(Contents) : Contents[p] = e /\ d = RemovedAt(Contents, p)
      /\ e \notin scheduled => d = Contents
      /\ NotIn(e, d)
      /\ Holds(rest, when, d)
      /\ Elements(d) = scheduled \ {e}
<1>4. \E d : Rest(d)
  <2>1. CASE e \in scheduled
    <3>1. PICK p \in Positions(Contents) : Contents[p] = e
      BY <2>1, InvFacts
    <3> DEFINE d == RemovedAt(Contents, p)
    <3>2. NotIn(e, d)
      BY <1>2, <3>1, RemovedIsOrdered
    <3>3. Holds(rest, when, d)
      BY <1>2, <2>1, <3>1, RemoveHolds
    <3>4. Elements(d) = scheduled \ {e}
      BY <1>2, <3>1, RemovedElements
    <3>5. Rest(d)
      <4> HIDE DEF rest
      <4>1. d = RemovedAt(Contents, p)
        OBVIOUS
      <4> HIDE DEF d
      <4>2. QED
        BY <2>1, <3>1, <3>2, <3>3, <3>4, <4>1
    <3>6. QED
      BY <3>5
  <2>2. CASE e \notin scheduled
    <3>1. NotIn(e, Contents)
      BY <2>2, InvFacts
    <3>2. Rest(Contents)
      BY <1>2, <2>2, <3>1
    <3>3. QED
      BY <3>2
  <2>3. QED
    BY <2>1, <2>2
<1> HIDE DEF rest
<1>5. PICK d : Rest(d)
  BY <1>4
<1>6. d \in Seq(Events)
  BY <1>5 DEF Holds
<1>7. PICK m \in 0 .. Len(d) :
        /\ Divides(when', d, m, e)
        /\ Holds(Insert(rest, when', e), when', InsertedAt(d, m, e))
        /\ Elements(InsertedAt(d, m, e)) = Elements(d) \cup {e}
  BY <1>3, <1>5, InsertStep
<1>8. InOrder' /\ Contents' = InsertedAt(d, m, e)
  <2> DEFINE x == InsertedAt(d, m, e)
  <2>1. Holds(q', when', x) /\ Elements(x) = scheduled'
    BY <1>1, <1>5, <1>7
  <2> HIDE DEF x
  <2>2. InOrder' /\ Contents' = x
    BY <2>1, InOrderNext
  <2>3. QED
    BY <2>2 DEF x
<1>9. QED
  BY <1>5, <1>6, <1>7, <1>8

(* serviceOne() takes out the first one.                                      *)
LEMMA ServiceStep ==
  ASSUME QueueInv, ServiceOne
  PROVE  /\ InOrder' /\ Contents # <<>> /\ 1 \in Positions(Contents)
         /\ q.head = Contents[1] /\ Contents' = Tail(Contents)
<1>1. /\ when' = when /\ q' = Popped(q) /\ q.head # NULL
      /\ scheduled' = scheduled \ {q.head}
  BY DEF ServiceOne
<1>2. /\ Holds(q, when, Contents) /\ Contents \in Seq(Events) /\ Ordered(when, Contents)
      /\ when \in Ticked /\ Elements(Contents) = scheduled
  BY InvFacts
<1> DEFINE d == RemovedAt(Contents, 1)
<1>3. /\ Contents # <<>> /\ 1 \in Positions(Contents) /\ q.head = Contents[1]
      /\ Holds(Popped(q), when, d) /\ d = Tail(Contents)
  BY <1>1, <1>2, PopHolds
<1>4. Elements(d) = scheduled'
  BY <1>1, <1>2, <1>3, RemovedElements
<1> HIDE DEF d
<1>5. InOrder' /\ Contents' = d
  BY <1>1, <1>3, <1>4, InOrderNext
<1>6. QED
  BY <1>3, <1>5

(* A new event is on no list.                                                 *)
LEMMA NewStep ==
  ASSUME QueueInv, NEW e \in Events, New(e)
  PROVE  InOrder' /\ Contents' = Contents
<1>1. /\ q' = [q EXCEPT !.nextBin[e] = NULL, !.nextInBin[e] = NULL]
      /\ when' = [when EXCEPT ![e] = 0] /\ scheduled' = scheduled /\ e \notin live
  BY DEF New
<1>2. e \notin scheduled
  BY <1>1 DEF QueueInv, TypeOK
<1>3. /\ Holds(q, when, Contents) /\ Contents \in Seq(Events) /\ when \in Ticked
      /\ NotIn(e, Contents) /\ Elements(Contents) = scheduled
  BY <1>2, InvFacts
<1>4. when' \in Ticked /\ \A i \in Positions(Contents) : when'[Contents[i]] = when[Contents[i]]
  BY <1>1, <1>3, PositionFacts DEF Ticked, NotIn
<1>5. Holds(q', when, Contents)
  BY <1>1, <1>3, ClearedHolds
<1>6. Holds(q', when', Contents)
  BY <1>4, <1>5, OtherTicks
<1>7. QED
  BY <1>1, <1>3, <1>6, InOrderNext

(* Nothing else touches the lists.                                           *)
LEMMA OtherStep ==
  ASSUME QueueInv, UNCHANGED <<q, when, scheduled>>
  PROVE  InOrder' /\ Contents' = Contents
<1>1. Holds(q', when', Contents) /\ Elements(Contents) = scheduled'
  BY InvFacts
<1>2. QED
  BY <1>1, InOrderNext

-----------------------------------------------------------------------------
(* The invariant is kept.                                                    *)

(* The types, and which events have which flag.                               *)
LEMMA TypeStep ==
  ASSUME QueueInv, [Next]_vars
  PROVE  TypeOK'
<1> USE DEF QueueInv, TypeOK
<1>1. ASSUME NEW e \in Events, New(e) PROVE TypeOK'
  BY <1>1, EventParameters DEF New
<1>2. ASSUME NEW e \in Events, Deschedule(e) PROVE TypeOK'
  BY <1>2 DEF Deschedule
<1>3. ASSUME NEW e \in Events, Squash(e) PROVE TypeOK'
  BY <1>3 DEF Squash
<1>4. ASSUME NEW e \in Events, NEW t \in 0 .. MaxTick, Schedule(e, t) PROVE TypeOK'
  BY <1>4 DEF Schedule
<1>5. ASSUME NEW e \in Events, NEW t \in 0 .. MaxTick, Reschedule(e, t) PROVE TypeOK'
  BY <1>5 DEF Reschedule
<1>6. CASE ServiceOne
  <2>1. q.head \in Events /\ q.head \in scheduled
    BY <1>6, ServiceStep, InvFacts
  <2>2. QED
    BY <1>6, <2>1 DEF ServiceOne
<1>7. CASE ProcessDone
  BY <1>7 DEF ProcessDone
<1>8. CASE UNCHANGED vars
  BY <1>8 DEF vars
<1>9. QED
  BY <1>1, <1>2, <1>3, <1>4, <1>5, <1>6, <1>7, <1>8 DEF Next

(* The lists hold the events with the flag.                                   *)
LEMMA OrderStep ==
  ASSUME QueueInv, [Next]_vars
  PROVE  InOrder'
<1>1. ASSUME UNCHANGED <<q, when, scheduled>> PROVE InOrder'
  BY <1>1, OtherStep
<1>2. ASSUME NEW e \in Events, Squash(e) PROVE InOrder'
  BY <1>1, <1>2 DEF Squash
<1>3. CASE ProcessDone
  BY <1>1, <1>3 DEF ProcessDone
<1>4. CASE UNCHANGED vars
  BY <1>1, <1>4 DEF vars
<1>5. QED
  BY <1>2, <1>3, <1>4, NewStep, DescheduleStep, ScheduleStep, RescheduleStep, ServiceStep DEF Next

(* Nothing is scheduled in the past, and the clock moves to the first event.  *)
LEMMA NothingLateStep ==
  ASSUME QueueInv, [Next]_vars
  PROVE  NothingLate'
<1> USE DEF QueueInv, NothingLate
<1>1. ASSUME NEW e \in Events, New(e) PROVE NothingLate'
  BY <1>1 DEF New, TypeOK
<1>2. ASSUME NEW e \in Events, Deschedule(e) PROVE NothingLate'
  BY <1>2 DEF Deschedule
<1>3. ASSUME NEW e \in Events, Squash(e) PROVE NothingLate'
  BY <1>3 DEF Squash
<1>4. ASSUME NEW e \in Events, NEW t \in 0 .. MaxTick, Schedule(e, t) PROVE NothingLate'
  BY <1>4 DEF Schedule, TypeOK
<1>5. ASSUME NEW e \in Events, NEW t \in 0 .. MaxTick, Reschedule(e, t) PROVE NothingLate'
  BY <1>5 DEF Reschedule, TypeOK
<1>6. CASE ServiceOne
  <2>1. when' = when /\ scheduled' = scheduled \ {q.head}
    BY <1>6 DEF ServiceOne
  <2>2. CASE q.head \in squashed
    BY <1>6, <2>1, <2>2 DEF ServiceOne
  <2>3. CASE q.head \notin squashed
    <3>1. curTick' = when[q.head]
      BY <1>6, <2>3 DEF ServiceOne
    <3>2. q.head = Contents[1] /\ 1 \in Positions(Contents)
      BY <1>6, ServiceStep
    <3>3. ASSUME NEW e \in scheduled
          PROVE  when[e] >= when[q.head]
      <4>1. PICK p \in Positions(Contents) : Contents[p] = e
        BY InvFacts
      <4>2. p = 1 \/ ~Before(when, Contents[p], Contents[1])
        BY <3>2, InvFacts DEF Ordered, Positions
      <4>3. e \in Events /\ q.head \in Events
        BY <3>2, InvFacts DEF TypeOK
      <4>4. when[e] \in Int /\ when[q.head] \in Int
        BY <4>3 DEF TypeOK
      <4>5. QED
        BY <3>2, <4>1, <4>2, <4>4 DEF Before
    <3>4. QED
      BY <2>1, <3>1, <3>3
  <2>4. QED
    BY <2>2, <2>3
<1>7. CASE ProcessDone
  BY <1>7 DEF ProcessDone
<1>8. CASE UNCHANGED vars
  BY <1>8 DEF vars
<1>9. QED
  BY <1>1, <1>2, <1>3, <1>4, <1>5, <1>6, <1>7, <1>8 DEF Next

(* The pointers hold the scheduled events in order, in every behaviour.       *)
THEOREM QueueInvariant == Spec => []QueueInv
<1>1. QueueInv /\ [Next]_vars => QueueInv'
  <2> SUFFICES ASSUME QueueInv, [Next]_vars PROVE QueueInv'
    OBVIOUS
  <2>1. TypeOK' /\ InOrder' /\ NothingLate'
    BY TypeStep, OrderStep, NothingLateStep
  <2>2. QED
    BY <2>1 DEF QueueInv
<1>2. QED
  BY InitInv, <1>1, PTL DEF Spec

(* The flag Scheduled agrees with the lists, of which no deleted event is a  *)
(* part: schedule() asserts on the flag, the service follows the pointers.   *)
THEOREM FlagsAgree == Spec => []ScheduledOnce
<1>1. QueueInv => ScheduledOnce
  <2> SUFFICES ASSUME QueueInv PROVE ScheduledOnce
    OBVIOUS
  <2>1. Contents \in Seq(Events) /\ Ordered(when, Contents) /\ DOMAIN Contents = Positions(Contents)
    BY InvFacts
  <2>2. Len(Contents) \in Nat /\ Contents \in [1 .. Len(Contents) -> scheduled]
    BY <2>1, InvFacts, PositionFacts DEF Positions
  <2>3. \A i, j \in 1 .. Len(Contents) : Contents[i] = Contents[j] => i = j
    BY <2>1 DEF Ordered, Positions
  <2>4. \A e \in scheduled : \E i \in 1 .. Len(Contents) : Contents[i] = e
    BY InvFacts DEF Positions
  <2>5. Contents \in Bijection(1 .. Len(Contents), scheduled)
    BY <2>2, <2>3, <2>4, Fun_IsBij
  <2>6. Cardinality(scheduled) = Len(Contents)
    BY <2>2, <2>5, FS_CountingElements DEF ExistsBijection
  <2>7. QED
    BY <2>6 DEF QueueInv, InOrder, TypeOK, ScheduledOnce
<1>2. QED
  BY <1>1, QueueInvariant, PTL

(* The search of remove() finds every scheduled event: its panics are not    *)
(* reached.                                                                  *)
THEOREM SearchSucceeds == Spec => []NeverPanics
<1>1. QueueInv => NeverPanics
  <2> SUFFICES ASSUME QueueInv, NEW e \in scheduled PROVE Found(q, when, e)
    BY DEF NeverPanics
  <2>1. PICK p \in Positions(Contents) : Contents[p] = e
    BY InvFacts
  <2>2. QED
    BY <2>1, InvFacts, HeldIsFound
<1>2. QED
  BY <1>1, QueueInvariant, PTL

(* No event scheduled is before the clock: the head is never in the past.    *)
THEOREM ClockLeavesNothing == Spec => []NothingLate
<1>1. QueueInv => NothingLate
  BY DEF QueueInv
<1>2. QED
  BY <1>1, QueueInvariant, PTL

-----------------------------------------------------------------------------
(* The pointers implement the list.                                          *)

Entries == [event : Events, when : Nat]

(* The list that stands for the sequence c of events with the ticks w.       *)
View(w, c) == [i \in DOMAIN c |-> [event |-> c[i], when |-> w[c[i]]]]

(* It has an entry for each event.                                           *)
LEMMA ViewFacts ==
  ASSUME NEW w \in Ticked, NEW c \in Seq(Events)
  PROVE  /\ View(w, c) \in Seq(Entries) /\ Len(View(w, c)) = Len(c)
         /\ DOMAIN View(w, c) = Positions(c) /\ Len(c) \in Nat
         /\ \A i \in Positions(c) : /\ View(w, c)[i] = [event |-> c[i], when |-> w[c[i]]]
                                    /\ View(w, c)[i].event = c[i]
                                    /\ View(w, c)[i].when = w[c[i]]
<1>1. DOMAIN c = 1 .. Len(c) /\ Len(c) \in Nat /\ \A i \in 1 .. Len(c) : c[i] \in Events
  OBVIOUS
<1>2. \A i \in 1 .. Len(c) : [event |-> c[i], when |-> w[c[i]]] \in Entries
  BY <1>1 DEF Ticked, Entries
<1>3. View(w, c) = [i \in 1 .. Len(c) |-> [event |-> c[i], when |-> w[c[i]]]]
  BY <1>1 DEF View
<1>4. View(w, c) \in Seq(Entries) /\ Len(View(w, c)) = Len(c)
  BY <1>1, <1>2, <1>3
<1>5. QED
  BY <1>1, <1>3, <1>4 DEF Positions

(* The ticks of other events are not seen.                                   *)
LEMMA ViewOfTicks ==
  ASSUME NEW w \in Ticked, NEW v \in Ticked, NEW c \in Seq(Events),
         \A i \in Positions(c) : v[c[i]] = w[c[i]]
  PROVE  View(v, c) = View(w, c)
<1>1. DOMAIN c = Positions(c)
  BY DEF Positions
<1>2. QED
  BY <1>1 DEF View

(* Both find the same place for a new event.                                 *)
LEMMA InsertedView ==
  ASSUME NEW w \in Ticked, NEW v \in Ticked, NEW c \in Seq(Events),
         NEW e \in Events, \A i \in Positions(c) : v[c[i]] = w[c[i]],
         NEW m \in 0 .. Len(c), Divides(v, c, m, e)
  PROVE  List!Inserted(View(w, c), [event |-> e, when |-> v[e]]) = View(v, InsertedAt(c, m, e))
<1> DEFINE L == View(w, c)
           x == [event |-> e, when |-> v[e]]
           d == InsertedAt(c, m, e)
<1>1. /\ L \in Seq(Entries) /\ Len(L) = Len(c) /\ Len(c) \in Nat
      /\ \A i \in Positions(c) : /\ L[i] = [event |-> c[i], when |-> v[c[i]]]
                                 /\ L[i].event = c[i] /\ L[i].when = v[c[i]]
  BY ViewFacts
<1>2. x \in Entries /\ x.event = e /\ x.when = v[e]
  BY DEF Ticked, Entries
<1> HIDE DEF L, x
<1>3. \A i \in Positions(c) : List!Earlier(L[i], x) <=> i <= m
  <2>1. \A i \in Positions(c) : List!Earlier(L[i], x) <=> Before(v, c[i], e)
    BY <1>1, <1>2 DEF List!Earlier, Before
  <2>2. QED
    BY <2>1 DEF Divides
<1> DEFINE Place(n) == /\ \A i \in 1 .. n : List!Earlier(L[i], x)
                       /\ n < Len(L) => ~List!Earlier(L[n + 1], x)
<1>4. Place(m)
  BY <1>1, <1>3 DEF Positions
<1>5. ASSUME NEW n \in 0 .. Len(L), Place(n)
      PROVE  n = m
  <2>1. CASE n < m
    <3>1. n + 1 \in Positions(c) /\ n + 1 <= m /\ n < Len(L)
      BY <1>1, <2>1 DEF Positions
    <3>2. QED
      BY <1>3, <1>5, <3>1
  <2>2. CASE n > m
    <3>1. m + 1 \in Positions(c) /\ m + 1 \in 1 .. n /\ ~(m + 1 <= m)
      BY <1>1, <2>2 DEF Positions
    <3>2. QED
      BY <1>3, <1>5, <3>1
  <2>3. QED
    BY <1>1, <2>1, <2>2
<1>6. m \in 0 .. Len(L)
  BY <1>1
<1>7. List!InsertionPoint(L, x) = m
  <2>1. List!InsertionPoint(L, x) = CHOOSE n \in 0 .. Len(L) : Place(n)
    BY DEF List!InsertionPoint
  <2> HIDE DEF Place
  <2>2. QED
    BY <1>4, <1>5, <1>6, <2>1
<1>8. List!Inserted(L, x) = SubSeq(L, 1, m) \o <<x>> \o SubSeq(L, m + 1, Len(L))
  BY <1>7 DEF List!Inserted
<1> DEFINE A == SubSeq(L, 1, m)
           B == SubSeq(L, m + 1, Len(L))
<1>9. A \in Seq(Entries) /\ Len(A) = m /\ \A i \in 1 .. m : A[i] = L[i]
  <2>1. \A i \in 1 .. m : L[i] \in Entries
    BY <1>1
  <2>2. /\ A \in Seq(Entries) /\ Len(A) = IF 1 <= m THEN m - 1 + 1 ELSE 0
        /\ \A i \in 1 .. m - 1 + 1 : A[i] = L[1 + i - 1]
    BY <1>6, <2>1, SubSeqProperties
  <2> HIDE DEF A
  <2>3. QED
    BY <1>6, <2>2
<1>10. B \in Seq(Entries) /\ Len(B) = Len(L) - m /\ \A i \in 1 .. Len(L) - m : B[i] = L[m + i]
  <2>1. \A i \in m + 1 .. Len(L) : L[i] \in Entries
    BY <1>1, <1>6
  <2>2. /\ B \in Seq(Entries) /\ Len(B) = IF m + 1 <= Len(L) THEN Len(L) - (m + 1) + 1 ELSE 0
        /\ \A i \in 1 .. Len(L) - (m + 1) + 1 : B[i] = L[(m + 1) + i - 1]
    BY <1>1, <1>6, <2>1, SubSeqProperties
  <2> HIDE DEF B
  <2>3. Len(B) = Len(L) - m
    BY <1>1, <1>6, <2>2
  <2>4. \A i \in 1 .. Len(L) - m : i \in 1 .. Len(L) - (m + 1) + 1 /\ (m + 1) + i - 1 = m + i
    BY <1>1, <1>6
  <2>5. QED
    BY <2>2, <2>3, <2>4
<1> HIDE DEF A, B
<1> DEFINE R == A \o <<x>> \o B
<1>11. /\ R \in Seq(Entries) /\ Len(R) = Len(L) + 1
       /\ \A i \in 1 .. Len(L) + 1 :
            R[i] = IF i <= m THEN L[i] ELSE IF i = m + 1 THEN x ELSE L[i - 1]
  <2>1. /\ A \o <<x>> \in Seq(Entries) /\ Len(A \o <<x>>) = m + 1
        /\ \A i \in 1 .. m + 1 : (A \o <<x>>)[i] = IF i <= m THEN L[i] ELSE x
    BY <1>2, <1>6, <1>9
  <2>2. R \in Seq(Entries) /\ Len(R) = Len(L) + 1
    <3>1. R \in Seq(Entries) /\ Len(R) = Len(A \o <<x>>) + Len(B)
      BY <1>10, <2>1, ConcatProperties
    <3>2. Len(A \o <<x>>) = m + 1 /\ Len(B) = Len(L) - m /\ Len(L) \in Nat
      BY <1>1, <1>10, <2>1
    <3> HIDE DEF R
    <3>3. QED
      BY <1>6, <3>1, <3>2
  <2>3. \A i \in 1 .. Len(L) + 1 :
          R[i] = IF i <= m + 1 THEN (A \o <<x>>)[i] ELSE B[i - (m + 1)]
    BY <1>1, <1>6, <1>10, <2>1
  <2> HIDE DEF R
  <2>4. ASSUME NEW i \in 1 .. Len(L) + 1
        PROVE  R[i] = IF i <= m THEN L[i] ELSE IF i = m + 1 THEN x ELSE L[i - 1]
    <3>1. CASE i <= m + 1
      BY <1>1, <1>6, <2>1, <2>3, <3>1
    <3>2. CASE i > m + 1
      <4>1. i - (m + 1) \in 1 .. Len(L) - m /\ m + (i - (m + 1)) = i - 1
        BY <1>1, <1>6, <3>2
      <4>2. B[i - (m + 1)] = L[i - 1]
        BY <1>10, <4>1
      <4>3. R[i] = B[i - (m + 1)] /\ ~(i <= m) /\ i # m + 1
        BY <1>6, <2>3, <3>2
      <4>4. QED
        BY <4>2, <4>3
    <3>3. QED
      BY <1>6, <3>1, <3>2
  <2>5. QED
    BY <2>2, <2>4
<1>12. /\ d \in Seq(Events) /\ Len(d) = Len(c) + 1
       /\ \A i \in 1 .. Len(c) + 1 :
            d[i] = IF i <= m THEN c[i] ELSE IF i = m + 1 THEN e ELSE c[i - 1]
  <2>1. \A i \in 1 .. Len(c) + 1 :
          (IF i <= m THEN c[i] ELSE IF i = m + 1 THEN e ELSE c[i - 1]) \in Events
    BY <1>1
  <2>2. QED
    BY <1>1, <2>1 DEF InsertedAt
<1> HIDE DEF R, d
<1>13. /\ View(v, d) \in Seq(Entries) /\ Len(View(v, d)) = Len(d)
       /\ \A i \in Positions(d) : View(v, d)[i] = [event |-> d[i], when |-> v[d[i]]]
  BY <1>12, ViewFacts
<1>14. ASSUME NEW i \in 1 .. Len(R)
       PROVE  R[i] = View(v, d)[i]
  <2>1. i \in Positions(d) /\ i \in 1 .. Len(c) + 1
    BY <1>1, <1>11, <1>12 DEF Positions
  <2>2. CASE i <= m
    <3>1. i \in Positions(c)
      BY <1>1, <1>6, <2>1, <2>2 DEF Positions
    <3>2. R[i] = L[i] /\ d[i] = c[i]
      BY <1>1, <1>11, <1>12, <2>1, <2>2
    <3>3. L[i] = [event |-> c[i], when |-> v[c[i]]]
      BY <1>1, <3>1
    <3>4. View(v, d)[i] = [event |-> d[i], when |-> v[d[i]]]
      BY <1>13, <2>1
    <3>5. QED
      BY <3>2, <3>3, <3>4
  <2>3. CASE i = m + 1
    <3>1. ~(i <= m)
      BY <1>6, <2>3
    <3>2. R[i] = x /\ d[i] = e
      BY <1>1, <1>11, <1>12, <2>1, <2>3, <3>1
    <3>3. QED
      BY <1>13, <2>1, <3>2 DEF x
  <2>4. CASE i > m + 1
    <3>1. i - 1 \in Positions(c) /\ ~(i <= m) /\ i # m + 1
      BY <1>1, <1>6, <2>1, <2>4 DEF Positions
    <3>2. R[i] = L[i - 1] /\ d[i] = c[i - 1]
      BY <1>1, <1>11, <1>12, <2>1, <3>1
    <3>3. L[i - 1] = [event |-> c[i - 1], when |-> v[c[i - 1]]]
      BY <1>1, <3>1
    <3>4. View(v, d)[i] = [event |-> d[i], when |-> v[d[i]]]
      BY <1>13, <2>1
    <3>5. QED
      BY <3>2, <3>3, <3>4
  <2>5. QED
    BY <1>6, <2>2, <2>3, <2>4
<1>15. R = View(v, d)
  BY <1>1, <1>11, <1>12, <1>13, <1>14, SeqEqual
<1>16. QED
  BY <1>8, <1>15 DEF R, A, B, L, x, d

(* The entry of an event is that of the list.                                *)
LEMMA QueuedView ==
  ASSUME QueueInv, NEW e
  PROVE  List!Queued(e) <=> e \in scheduled
<1> DEFINE L == View(when, Contents)
<1>1. /\ Contents \in Seq(Events) /\ when \in Ticked
      /\ \A x \in scheduled : \E p \in Positions(Contents) : Contents[p] = x
      /\ \A i \in Positions(Contents) : Contents[i] \in scheduled
  BY InvFacts
<1>2. DOMAIN L = Positions(Contents) /\ \A i \in Positions(Contents) : L[i].event = Contents[i]
  BY <1>1, ViewFacts
<1>3. List!Queued(e) <=> \E i \in DOMAIN L : L[i].event = e
  BY DEF List!Queued, View
<1> HIDE DEF L
<1>4. QED
  BY <1>1, <1>2, <1>3

(* Both remove the same entry.                                               *)
LEMMA RemovedView ==
  ASSUME QueueInv, NEW p \in Positions(Contents)
  PROVE  List!Without(View(when, Contents), Contents[p]) = View(when, RemovedAt(Contents, p))
<1> DEFINE c == Contents
           L == View(when, c)
           e == Contents[p]
           d == RemovedAt(c, p)
<1>1. c \in Seq(Events) /\ when \in Ticked /\ Ordered(when, c) /\ e \in scheduled
  BY InvFacts
<1>2. /\ L \in Seq(Entries) /\ Len(L) = Len(c) /\ Len(c) \in Nat
      /\ DOMAIN L = Positions(c)
      /\ \A i \in Positions(c) : /\ L[i] = [event |-> c[i], when |-> when[c[i]]]
                                 /\ L[i].event = c[i]
  BY <1>1, ViewFacts
<1>3. p \in 1 .. Len(L)
  BY <1>2 DEF Positions
<1>4. List!Without(L, e) =
        LET i == CHOOSE i \in DOMAIN L : L[i].event = e
        IN  SubSeq(L, 1, i - 1) \o SubSeq(L, i + 1, Len(L))
  <2>1. List!Queued(e)
    BY <1>1, QueuedView
  <2>2. QED
    BY <2>1 DEF List!Without, List!Queued, View
<1> HIDE DEF L
<1>5. (CHOOSE i \in DOMAIN L : L[i].event = e) = p
  <2>1. L[p].event = e
    BY <1>2
  <2>2. ASSUME NEW i \in DOMAIN L, L[i].event = e
        PROVE  i = p
    BY <1>1, <1>2, <2>2 DEF Ordered
  <2>3. QED
    BY <1>2, <2>1, <2>2
<1> DEFINE A == SubSeq(L, 1, p - 1)
           B == SubSeq(L, p + 1, Len(L))
           R == A \o B
<1>6. List!Without(L, e) = R
  BY <1>4, <1>5
<1>7. A \in Seq(Entries) /\ Len(A) = p - 1 /\ \A i \in 1 .. p - 1 : A[i] = L[i]
  <2>1. \A i \in 1 .. p - 1 : L[i] \in Entries
    BY <1>2, <1>3
  <2>2. 1 \in Int /\ p - 1 \in Int
    BY <1>3
  <2>3. /\ A \in Seq(Entries) /\ Len(A) = IF 1 <= p - 1 THEN (p - 1) - 1 + 1 ELSE 0
        /\ \A i \in 1 .. (p - 1) - 1 + 1 : A[i] = L[1 + i - 1]
    BY <2>1, <2>2, SubSeqProperties
  <2> HIDE DEF A
  <2>4. QED
    BY <1>3, <2>3
<1>8. B \in Seq(Entries) /\ Len(B) = Len(L) - p /\ \A i \in 1 .. Len(L) - p : B[i] = L[p + i]
  <2>1. \A i \in p + 1 .. Len(L) : L[i] \in Entries
    BY <1>2, <1>3
  <2>2. p + 1 \in Int /\ Len(L) \in Int
    BY <1>2, <1>3
  <2>3. /\ B \in Seq(Entries) /\ Len(B) = IF p + 1 <= Len(L) THEN Len(L) - (p + 1) + 1 ELSE 0
        /\ \A i \in 1 .. Len(L) - (p + 1) + 1 : B[i] = L[(p + 1) + i - 1]
    BY <2>1, <2>2, SubSeqProperties
  <2> HIDE DEF B
  <2>4. Len(B) = Len(L) - p
    BY <1>2, <1>3, <2>3
  <2>5. \A i \in 1 .. Len(L) - p : i \in 1 .. Len(L) - (p + 1) + 1 /\ (p + 1) + i - 1 = p + i
    BY <1>2, <1>3
  <2>6. QED
    BY <2>3, <2>4, <2>5
<1> HIDE DEF A, B
<1>9. /\ R \in Seq(Entries) /\ Len(R) = Len(L) - 1
      /\ \A i \in 1 .. Len(L) - 1 : R[i] = IF i < p THEN L[i] ELSE L[i + 1]
  <2>1. /\ R \in Seq(Entries) /\ Len(R) = Len(A) + Len(B)
        /\ \A i \in 1 .. Len(A) + Len(B) : R[i] = IF i <= Len(A) THEN A[i] ELSE B[i - Len(A)]
    BY <1>7, <1>8, ConcatProperties
  <2> HIDE DEF R
  <2>2. Len(A) = p - 1 /\ Len(A) + Len(B) = Len(L) - 1
    BY <1>2, <1>3, <1>7, <1>8
  <2>3. ASSUME NEW i \in 1 .. Len(L) - 1
        PROVE  R[i] = IF i < p THEN L[i] ELSE L[i + 1]
    <3>1. CASE i < p
      BY <1>3, <1>7, <2>1, <2>2, <3>1
    <3>2. CASE i >= p
      <4>1. i - (p - 1) \in 1 .. Len(L) - p /\ p + (i - (p - 1)) = i + 1 /\ ~(i <= p - 1) /\ ~(i < p)
        BY <1>2, <1>3, <3>2
      <4>2. R[i] = B[i - (p - 1)]
        BY <2>1, <2>2, <4>1
      <4>3. QED
        BY <1>8, <4>1, <4>2
    <3>3. QED
      BY <1>3, <3>1, <3>2
  <2>4. QED
    BY <2>1, <2>2, <2>3
<1>10. /\ d \in Seq(Events) /\ Len(d) = Len(c) - 1
       /\ \A i \in Positions(d) : /\ i < p => i \in Positions(c) /\ d[i] = c[i]
                                  /\ i >= p => i + 1 \in Positions(c) /\ d[i] = c[i + 1]
  BY <1>1, RemovedIsOrdered
<1> HIDE DEF R, d, e, c
<1>11. /\ View(when, d) \in Seq(Entries) /\ Len(View(when, d)) = Len(d)
       /\ \A i \in Positions(d) : View(when, d)[i] = [event |-> d[i], when |-> when[d[i]]]
  BY <1>1, <1>10, ViewFacts
<1>12. ASSUME NEW i \in 1 .. Len(R)
       PROVE  R[i] = View(when, d)[i]
  <2>1. i \in Positions(d) /\ i \in 1 .. Len(L) - 1
    BY <1>2, <1>9, <1>10 DEF Positions
  <2>2. CASE i < p
    <3>1. R[i] = L[i] /\ i \in Positions(c) /\ d[i] = c[i]
      BY <1>9, <1>10, <2>1, <2>2
    <3>2. L[i] = [event |-> c[i], when |-> when[c[i]]]
      BY <1>2, <3>1
    <3>3. View(when, d)[i] = [event |-> d[i], when |-> when[d[i]]]
      BY <1>11, <2>1
    <3>4. QED
      BY <3>1, <3>2, <3>3
  <2>3. CASE i >= p
    <3>1. ~(i < p)
      BY <1>3, <2>3
    <3>2. R[i] = L[i + 1] /\ i + 1 \in Positions(c) /\ d[i] = c[i + 1]
      BY <1>9, <1>10, <2>1, <2>3, <3>1
    <3>3. L[i + 1] = [event |-> c[i + 1], when |-> when[c[i + 1]]]
      BY <1>2, <3>2
    <3>4. View(when, d)[i] = [event |-> d[i], when |-> when[d[i]]]
      BY <1>11, <2>1
    <3>5. QED
      BY <3>2, <3>3, <3>4
  <2>4. QED
    BY <1>3, <2>2, <2>3
<1>13. R = View(when, d)
  BY <1>2, <1>9, <1>10, <1>11, <1>12, SeqEqual
<1>14. QED
  BY <1>6, <1>13 DEF L, d, e, c

(* A step that keeps the held events and their ticks keeps the list.         *)
LEMMA SameView ==
  ASSUME QueueInv, TypeOK', Contents' = Contents, \A e \in scheduled : when'[e] = when[e]
  PROVE  View(when', Contents') = View(when, Contents)
<1>1. Contents \in Seq(Events) /\ when \in Ticked /\ \A i \in Positions(Contents) : Contents[i] \in scheduled
  BY InvFacts
<1>2. when' \in Ticked
  BY EventParameters DEF TypeOK, Ticked
<1>3. View(when', Contents) = View(when, Contents)
  BY <1>1, <1>2, ViewOfTicks
<1>4. QED
  BY <1>3

(* The head of the list is the head of the queue, which goes with it.        *)
LEMMA ServicedView ==
  ASSUME QueueInv, Contents # <<>>
  PROVE  /\ View(when, Contents) # <<>>
         /\ Head(View(when, Contents)).event = Contents[1]
         /\ Head(View(when, Contents)).when = when[Contents[1]]
         /\ Tail(View(when, Contents)) = View(when, Tail(Contents))
<1> DEFINE L == View(when, Contents)
           d == Tail(Contents)
<1>1. Contents \in Seq(Events) /\ when \in Ticked
  BY InvFacts
<1>2. /\ L \in Seq(Entries) /\ Len(L) = Len(Contents) /\ Len(Contents) \in Nat
      /\ \A i \in Positions(Contents) : /\ L[i] = [event |-> Contents[i], when |-> when[Contents[i]]]
                                        /\ L[i].event = Contents[i]
                                        /\ L[i].when = when[Contents[i]]
  BY <1>1, ViewFacts
<1>3. Len(Contents) >= 1 /\ 1 \in Positions(Contents)
  BY <1>1, <1>2 DEF Positions
<1>4. /\ d \in Seq(Events) /\ Len(d) = Len(Contents) - 1
      /\ \A i \in 1 .. Len(Contents) - 1 : d[i] = Contents[i + 1]
  BY <1>1, <1>3
<1> HIDE DEF L, d
<1>5. L # <<>> /\ Head(L) = L[1]
  BY <1>2, <1>3
<1>6. /\ Tail(L) \in Seq(Entries) /\ Len(Tail(L)) = Len(L) - 1
      /\ \A i \in 1 .. Len(L) - 1 : Tail(L)[i] = L[i + 1]
  BY <1>2, <1>5
<1>7. /\ View(when, d) \in Seq(Entries) /\ Len(View(when, d)) = Len(d)
      /\ \A i \in Positions(d) : View(when, d)[i] = [event |-> d[i], when |-> when[d[i]]]
  BY <1>1, <1>4, ViewFacts
<1>8. ASSUME NEW i \in 1 .. Len(Tail(L))
      PROVE  Tail(L)[i] = View(when, d)[i]
  <2>1. i \in 1 .. Len(L) - 1 /\ i \in Positions(d) /\ i + 1 \in Positions(Contents)
    BY <1>2, <1>4, <1>6 DEF Positions
  <2>2. Tail(L)[i] = L[i + 1] /\ d[i] = Contents[i + 1]
    BY <1>2, <1>4, <1>6, <2>1
  <2>3. QED
    BY <1>2, <1>7, <2>1, <2>2
<1>9. Tail(L) = View(when, d)
  BY <1>2, <1>4, <1>6, <1>7, <1>8, SeqEqual
<1>10. QED
  BY <1>2, <1>3, <1>5, <1>9 DEF L, d

(* The pointers of the queue implement the sorted list: whatever the order   *)
(* of the operations, an event is serviced when it would be from the list,   *)
(* and no link that went stale is followed.                                  *)
THEOREM ImplementsList == Spec => ListSpec
<1>1. Init => List!Init
  <2> SUFFICES ASSUME Init PROVE List!Init
    OBVIOUS
  <2>1. QueueInv
    BY InitInv
  <2>2. Contents = <<>>
    <3>1. Contents \in Seq(Events) /\ \A i \in Positions(Contents) : Contents[i] \in scheduled
      BY <2>1, InvFacts
    <3>2. Len(Contents) = 0
      <4>1. 1 \notin Positions(Contents)
        BY <3>1 DEF Init
      <4>2. QED
        BY <3>1, <4>1 DEF Positions
    <3>3. QED
      BY <3>1, <3>2
  <2>3. View(when, Contents) = <<>>
    BY <2>2 DEF View
  <2>4. QED
    BY <2>3 DEF Init, List!Init, View
<1>2. QueueInv /\ [Next]_vars => [List!Next]_(List!vars)
  <2> SUFFICES ASSUME QueueInv, [Next]_vars
               PROVE  [List!Next]_(List!vars)
    OBVIOUS
  <2> DEFINE L == View(when, Contents)
  <2>1. TypeOK'
    BY TypeStep
  <2>2. when \in Ticked /\ when' \in Ticked
    BY <2>1, EventParameters, InvFacts DEF TypeOK, Ticked
  <2>3. Contents \in Seq(Events)
    BY InvFacts
  <2>4. ASSUME Contents' = Contents, \A e \in scheduled : when'[e] = when[e],
               UNCHANGED <<squashed, curTick>>
        PROVE  UNCHANGED List!vars
    <3>1. View(when', Contents') = L
      BY <2>1, <2>4, SameView
    <3>2. QED
      BY <2>4, <3>1 DEF List!vars, View
  <2>5. ASSUME NEW e \in Events, New(e)
        PROVE  UNCHANGED List!vars
    <3>1. Contents' = Contents
      BY <2>5, NewStep
    <3>2. e \notin scheduled /\ when' = [when EXCEPT ![e] = 0] /\ UNCHANGED <<squashed, curTick>>
      BY <2>5 DEF New, QueueInv, TypeOK
    <3>3. \A x \in scheduled : when'[x] = when[x]
      BY <3>2 DEF QueueInv, TypeOK
    <3>4. QED
      BY <2>4, <3>1, <3>2, <3>3
  <2>6. ASSUME NEW e \in Events, NEW t \in 0 .. MaxTick, Schedule(e, t)
        PROVE  List!Schedule(e, t)
    <3>1. /\ e \notin scheduled /\ t >= curTick /\ when' = [when EXCEPT ![e] = t]
          /\ UNCHANGED <<squashed, curTick>>
      BY <2>6 DEF Schedule
    <3>2. ~List!Queued(e)
      BY <3>1, QueuedView
    <3>3. PICK m \in 0 .. Len(Contents) :
            Divides(when', Contents, m, e) /\ Contents' = InsertedAt(Contents, m, e)
      BY <2>6, ScheduleStep
    <3>4. \A i \in Positions(Contents) : when'[Contents[i]] = when[Contents[i]]
      <4>1. \A i \in Positions(Contents) : Contents[i] \in scheduled
        BY InvFacts
      <4>2. QED
        BY <3>1, <4>1 DEF QueueInv, TypeOK
    <3>5. when'[e] = t
      BY <2>2, <3>1 DEF Ticked
    <3>6. View(when', Contents') = List!Inserted(L, [event |-> e, when |-> t])
      BY <2>2, <2>3, <3>3, <3>4, <3>5, InsertedView
    <3>7. QED
      BY <3>1, <3>2, <3>6 DEF List!Schedule, View
  <2>7. ASSUME NEW e \in Events, Deschedule(e)
        PROVE  List!Deschedule(e)
    <3>1. /\ e \in scheduled /\ when' = when /\ squashed' = squashed \ {e} /\ curTick' = curTick
      BY <2>7 DEF Deschedule
    <3>2. PICK p \in Positions(Contents) : Contents[p] = e /\ Contents' = RemovedAt(Contents, p)
      BY <2>7, DescheduleStep
    <3>3. View(when', Contents') = List!Without(L, e)
      BY <3>1, <3>2, RemovedView
    <3>4. List!Queued(e)
      BY <3>1, QueuedView
    <3>5. QED
      BY <3>1, <3>3, <3>4 DEF List!Deschedule, View
  <2>8. ASSUME NEW e \in Events, NEW t \in 0 .. MaxTick, Reschedule(e, t)
        PROVE  List!Reschedule(e, t)
    <3>1. /\ t >= curTick /\ when' = [when EXCEPT ![e] = t]
          /\ squashed' = squashed \ {e} /\ curTick' = curTick
      BY <2>8 DEF Reschedule
    <3>2. PICK d \in Seq(Events) :
            /\ e \in scheduled =>
                 \E p \in Positions(Contents) : Contents[p] = e /\ d = RemovedAt(Contents, p)
            /\ e \notin scheduled => d = Contents
            /\ NotIn(e, d)
            /\ \E m \in 0 .. Len(d) : Divides(when', d, m, e) /\ Contents' = InsertedAt(d, m, e)
      BY <2>8, RescheduleStep
    <3>3. PICK m \in 0 .. Len(d) : Divides(when', d, m, e) /\ Contents' = InsertedAt(d, m, e)
      BY <3>2
    <3>4. List!Without(L, e) = View(when, d)
      <4>1. CASE e \in scheduled
        BY <3>2, <4>1, RemovedView
      <4>2. CASE e \notin scheduled
        <5>1. ~List!Queued(e)
          BY <4>2, QueuedView
        <5>2. QED
          BY <3>2, <4>2, <5>1 DEF List!Without, List!Queued, View
      <4>3. QED
        BY <4>1, <4>2
    <3>5. \A i \in Positions(d) : when'[d[i]] = when[d[i]]
      <4>1. \A i \in Positions(d) : d[i] \in Events /\ d[i] # e
        BY <3>2 DEF Positions, NotIn
      <4>2. QED
        BY <2>2, <3>1, <4>1 DEF Ticked
    <3>6. when'[e] = t
      BY <2>2, <3>1 DEF Ticked
    <3>7. View(when', Contents') = List!Inserted(View(when, d), [event |-> e, when |-> t])
      BY <2>2, <3>3, <3>5, <3>6, InsertedView
    <3>8. QED
      BY <3>1, <3>4, <3>7 DEF List!Reschedule, View
  <2>9. ASSUME NEW e \in Events, Squash(e)
        PROVE  List!Squash(e)
    <3>1. /\ UNCHANGED <<q, when, scheduled>> /\ e \in scheduled
          /\ squashed' = squashed \cup {e} /\ curTick' = curTick
      BY <2>9 DEF Squash
    <3>2. Contents' = Contents
      BY <3>1, OtherStep
    <3>3. List!Queued(e)
      BY <3>1, QueuedView
    <3>4. View(when', Contents') = L
      BY <3>1, <3>2
    <3>5. QED
      BY <3>1, <3>3, <3>4 DEF List!Squash, View
  <2>10. ASSUME ServiceOne
         PROVE  List!Service
    <3>1. Contents # <<>> /\ q.head = Contents[1] /\ Contents' = Tail(Contents)
      BY <2>10, ServiceStep
    <3>2. /\ L # <<>> /\ Head(L).event = q.head /\ Head(L).when = when[q.head]
          /\ Tail(L) = View(when, Tail(Contents))
      BY <3>1, ServicedView
    <3>3. when' = when
      BY <2>10 DEF ServiceOne
    <3>4. View(when', Contents') = Tail(L)
      BY <3>1, <3>2, <3>3
    <3>5. squashed' = squashed \ {q.head}
      <4>1. CASE q.head \in squashed
        BY <2>10, <4>1 DEF ServiceOne
      <4>2. CASE q.head \notin squashed
        BY <2>10, <4>2 DEF ServiceOne
      <4>3. QED
        BY <4>1, <4>2
    <3>6. curTick' = IF q.head \in squashed THEN curTick ELSE when[q.head]
      BY <2>10 DEF ServiceOne
    <3> HIDE DEF L
    <3>7. squashed' = squashed \ {Head(L).event}
          /\ curTick' = IF Head(L).event \in squashed THEN curTick ELSE Head(L).when
      BY <3>2, <3>5, <3>6
    <3>8. QED
      BY <3>2, <3>4, <3>7 DEF L, List!Service, View
  <2>11. ASSUME ProcessDone \/ UNCHANGED vars
         PROVE  UNCHANGED List!vars
    <3>1. UNCHANGED <<q, when, scheduled>> /\ UNCHANGED <<squashed, curTick>>
      BY <2>11 DEF ProcessDone, vars
    <3>2. Contents' = Contents
      BY <3>1, OtherStep
    <3>3. QED
      BY <2>4, <3>1, <3>2
  <2>12. QED
    BY <2>5, <2>6, <2>7, <2>8, <2>9, <2>10, <2>11 DEF Next, List!Next
<1>3. QED
  BY <1>1, <1>2, QueueInvariant, PTL DEF Spec, ListSpec, List!Spec
=============================================================================
