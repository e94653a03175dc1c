---------------------------- MODULE Queens_proofs ----------------------------
(***************************************************************************)
(* Proofs about module Queens, for any MAXQUEENS and any board up to it.   *)
(***************************************************************************)
EXTENDS Queens, FiniteSetTheorems, TLAPS

(* The frames on the stack stand for queens on the board. *)
Below == \A i \in 0 .. level - 1 : f[i] < queens

-----------------------------------------------------------------------------
(* The owner arrays *)

(* A queen put where the conflict test found nothing: *fp = level. *)
LEMMA Placed ==
  ASSUME NEW S, NEW owner \in [S -> 0 .. EMPTY], NEW l \in 0 .. MAXQUEENS - 1,
         NEW key \in [0 .. l - 1 -> S], NEW key2 \in [0 .. l -> S],
         \A i \in 0 .. l - 1 : key2[i] = key[i],
         Mirrors(owner, key), owner[key2[l]] >= l
  PROVE  Mirrors([owner EXCEPT ![key2[l]] = l], key2)
<1> DEFINE owner2 == [owner EXCEPT ![key2[l]] = l]
<1>1. l \in Nat /\ l \in 0 .. l /\ key2[l] \in S
  BY MaxQueensAssumption
<1>2. owner[key2[l]] = EMPTY
  BY <1>1 DEF Mirrors
<1>3. ASSUME NEW i \in 0 .. l
      PROVE  owner2[key2[i]] = i
  <2>1. CASE i = l
    BY <1>1, <2>1
  <2>2. CASE i # l
    <3>1. i \in 0 .. l - 1
      BY <1>1, <2>2
    <3>2. owner[key[i]] = i /\ key2[i] = key[i] /\ key[i] \in S
      BY <3>1 DEF Mirrors
    <3>3. i # EMPTY
      BY <3>1, MaxQueensAssumption DEF EMPTY
    <3>4. QED
      BY <1>1, <1>2, <3>2, <3>3
  <2>3. QED
    BY <2>1, <2>2
<1>4. ASSUME NEW s \in S, owner2[s] # EMPTY
      PROVE  owner2[s] \in 0 .. l /\ key2[owner2[s]] = s
  <2>1. CASE s = key2[l]
    BY <1>1, <2>1
  <2>2. CASE s # key2[l]
    <3>1. owner2[s] = owner[s]
      BY <2>2
    <3>2. owner[s] \in 0 .. l - 1 /\ key[owner[s]] = s
      BY <1>4, <3>1 DEF Mirrors
    <3>3. QED
      BY <1>1, <3>1, <3>2
  <2>3. QED
    BY <2>1, <2>2
<1> HIDE DEF owner2
<1>5. DOMAIN owner2 = S /\ DOMAIN key2 = 0 .. l
  BY DEF owner2
<1>6. QED
  BY <1>3, <1>4, <1>5 DEF Mirrors, owner2

(* The last queen taken back: *fp = EMPTY. *)
LEMMA TakenBack ==
  ASSUME NEW S, NEW owner \in [S -> 0 .. EMPTY], NEW l \in 0 .. MAXQUEENS - 1,
         NEW key \in [0 .. l - 1 -> S], NEW key2 \in [0 .. l -> S],
         \A i \in 0 .. l - 1 : key2[i] = key[i],
         Mirrors(owner, key2)
  PROVE  Mirrors([owner EXCEPT ![key2[l]] = EMPTY], key)
<1> DEFINE owner2 == [owner EXCEPT ![key2[l]] = EMPTY]
<1>1. l \in Nat /\ l \in 0 .. l /\ key2[l] \in S
  BY MaxQueensAssumption
<1>2. owner[key2[l]] = l
  BY <1>1 DEF Mirrors
<1>3. ASSUME NEW i \in 0 .. l - 1
      PROVE  owner2[key[i]] = i
  <2>1. i \in 0 .. l /\ i # l
    BY <1>1
  <2>2. owner[key[i]] = i /\ key[i] \in S
    BY <2>1 DEF Mirrors
  <2>3. QED
    BY <1>2, <2>1, <2>2
<1>4. ASSUME NEW s \in S, owner2[s] # EMPTY
      PROVE  owner2[s] \in 0 .. l - 1 /\ key[owner2[s]] = s
  <2>1. s # key2[l] /\ owner2[s] = owner[s]
    BY <1>4
  <2>2. owner[s] \in 0 .. l /\ key2[owner[s]] = s
    BY <1>4, <2>1 DEF Mirrors
  <2>3. QED
    BY <1>1, <2>1, <2>2
<1> HIDE DEF owner2
<1>5. DOMAIN owner2 = S /\ DOMAIN key = 0 .. l - 1
  BY DEF owner2
<1>6. QED
  BY <1>3, <1>4, <1>5 DEF Mirrors, owner2

-----------------------------------------------------------------------------
(* What the queens of the first l ranks own. *)
FileKey(l) == [i \in 0 .. l - 1 |-> f[i]]
ForwardKey(l) == [i \in 0 .. l - 1 |-> Forward(i, f[i])]
BackwardKey(l) == [i \in 0 .. l - 1 |-> Backward(i, f[i])]

(* The squares of the board have their files and diagonals in the arrays.  *)
LEMMA SquareFact ==
  ASSUME TypeOK, NEW r \in 0 .. queens - 1, NEW c \in 0 .. queens - 1
  PROVE  /\ r \in Files /\ c \in Files
         /\ Forward(r, c) \in Diagonals
         /\ Backward(r, c) \in Diagonals
<1>1. queens \in 1 .. MAXQUEENS /\ MAXQUEENS \in Nat
  BY MaxQueensAssumption DEF TypeOK
<1>2. r \in Files /\ c \in Files
  BY <1>1 DEF Files
<1>3. Diagonals = 0 .. 2 * MAXQUEENS - 2
  BY <1>1 DEF Diagonals, MAXDIAGS
<1>4. r + c \in 0 .. 2 * MAXQUEENS - 2
  BY <1>1
<1>5. r + queens - 1 - c \in 0 .. 2 * MAXQUEENS - 2
  BY <1>1
<1>6. QED
  BY <1>2, <1>3, <1>4, <1>5 DEF Forward, Backward

(* What the queens of the frames own lies inside the owner arrays. *)
LEMMA KeyFact ==
  ASSUME TypeOK, NEW l \in 0 .. queens, \A i \in 0 .. l - 1 : f[i] < queens
  PROVE  /\ FileKey(l) \in [0 .. l - 1 -> Files]
         /\ ForwardKey(l) \in [0 .. l - 1 -> Diagonals]
         /\ BackwardKey(l) \in [0 .. l - 1 -> Diagonals]
<1>1. ASSUME NEW i \in 0 .. l - 1
      PROVE  i \in 0 .. queens - 1 /\ f[i] \in 0 .. queens - 1
  BY MaxQueensAssumption DEF TypeOK
<1>2. \A i \in 0 .. l - 1 : /\ f[i] \in Files
                            /\ Forward(i, f[i]) \in Diagonals
                            /\ Backward(i, f[i]) \in Diagonals
  BY <1>1, SquareFact
<1>3. QED
  BY <1>2 DEF FileKey, ForwardKey, BackwardKey

(* The invariant: types, a stack of frames that stand for queens, and owner *)
(* arrays that mirror them.                                                 *)
StackInv == TypeOK /\ Below /\ OwnersExact

(* Where the search is when it looks at a square. *)
LEMMA AtSquare ==
  ASSUME StackInv, ~exited, level < queens, f[level] < queens
  PROVE  /\ queens \in 1 .. MAXQUEENS /\ MAXQUEENS \in Nat
         /\ level \in 0 .. queens - 1 /\ level \in 0 .. MAXQUEENS - 1
         /\ f[level] \in 0 .. queens - 1
         /\ \A i \in 0 .. level : f[i] < queens
         /\ Mirrors(file, FileKey(level))
         /\ Mirrors(fordiag, ForwardKey(level))
         /\ Mirrors(bakdiag, BackwardKey(level))
<1>1. /\ queens \in 1 .. MAXQUEENS /\ MAXQUEENS \in Nat
      /\ level \in 0 .. queens - 1 /\ level \in 0 .. MAXQUEENS
      /\ f[level] \in 0 .. queens
  BY MaxQueensAssumption DEF StackInv, TypeOK
<1>2. \A i \in 0 .. level : i = level \/ i \in 0 .. level - 1
  BY <1>1
<1>3. \A i \in 0 .. level : f[i] < queens
  BY <1>2 DEF StackInv, Below
<1>4. QED
  BY <1>1, <1>3 DEF StackInv, OwnersExact, FileKey, ForwardKey, BackwardKey

(* Placing a queen and descending. *)
LEMMA PlaceStep ==
  ASSUME StackInv, Place
  PROVE  StackInv'
<1> DEFINE c == f[level]
<1>1. ~exited /\ level < queens /\ c < queens /\ Free(level, c)
  BY DEF Place
<1>2. /\ queens \in 1 .. MAXQUEENS /\ MAXQUEENS \in Nat
      /\ level \in 0 .. queens - 1 /\ level \in 0 .. MAXQUEENS - 1
      /\ c \in 0 .. queens - 1
      /\ \A i \in 0 .. level : f[i] < queens
      /\ Mirrors(file, FileKey(level))
      /\ Mirrors(fordiag, ForwardKey(level))
      /\ Mirrors(bakdiag, BackwardKey(level))
  BY <1>1, AtSquare
<1>3. /\ level' = level + 1 /\ level' \in 0 .. queens /\ level' \in 0 .. MAXQUEENS
      /\ UNCHANGED <<queens, findall, solutions, reported, exited>>
  BY <1>2 DEF Place, arguments
<1>4. /\ f' \in [0 .. MAXQUEENS -> 0 .. queens]
      /\ \A i \in 0 .. level : f'[i] = f[i]
  BY <1>2, <1>3 DEF Place, StackInv, TypeOK
<1>5. /\ level \in Files /\ c \in Files
      /\ Forward(level, c) \in Diagonals
      /\ Backward(level, c) \in Diagonals
  BY <1>2, SquareFact DEF StackInv
<1>6. level \in 0 .. EMPTY
  BY <1>2 DEF EMPTY
<1>7. TypeOK'
  <2>1. queen' \in [Files -> Files]
    BY <1>5 DEF Place, StackInv, TypeOK
  <2>2. /\ file' \in [Files -> 0 .. EMPTY]
        /\ fordiag' \in [Diagonals -> 0 .. EMPTY]
        /\ bakdiag' \in [Diagonals -> 0 .. EMPTY]
    BY <1>5, <1>6 DEF Place, Own, StackInv, TypeOK
  <2>3. QED
    BY <1>3, <1>4, <2>1, <2>2 DEF StackInv, TypeOK
<1>8. Below'
  BY <1>2, <1>3, <1>4 DEF Below
<1>9. OwnersExact'
  <2>1. /\ FileKey(level) \in [0 .. level - 1 -> Files]
        /\ ForwardKey(level) \in [0 .. level - 1 -> Diagonals]
        /\ BackwardKey(level) \in [0 .. level - 1 -> Diagonals]
    BY <1>2, KeyFact DEF StackInv
  <2>2. /\ FileKey(level + 1) \in [0 .. level -> Files]
        /\ ForwardKey(level + 1) \in [0 .. level -> Diagonals]
        /\ BackwardKey(level + 1) \in [0 .. level -> Diagonals]
    <3>1. level + 1 \in 0 .. queens /\ (level + 1) - 1 = level
      BY <1>2
    <3>2. \A i \in 0 .. (level + 1) - 1 : f[i] < queens
      BY <1>2, <3>1
    <3>3. QED
      BY <3>1, <3>2, KeyFact DEF StackInv
  <2>3. level \in 0 .. level /\ (level + 1) - 1 = level
        /\ \A i \in 0 .. level - 1 : i \in 0 .. level
    BY <1>2
  <2>4. /\ FileKey(level + 1)[level] = c
        /\ ForwardKey(level + 1)[level] = Forward(level, c)
        /\ BackwardKey(level + 1)[level] = Backward(level, c)
        /\ \A i \in 0 .. level - 1 :
             /\ FileKey(level + 1)[i] = FileKey(level)[i]
             /\ ForwardKey(level + 1)[i] = ForwardKey(level)[i]
             /\ BackwardKey(level + 1)[i] = BackwardKey(level)[i]
    BY <2>3 DEF FileKey, ForwardKey, BackwardKey
  <2>5. Mirrors(file', FileKey(level + 1))
    <3>1. file \in [Files -> 0 .. EMPTY]
      BY DEF StackInv, TypeOK
    <3>2. file' = [file EXCEPT ![FileKey(level + 1)[level]] = level]
      BY <2>4 DEF Place, Own
    <3>3. file[FileKey(level + 1)[level]] >= level
      BY <1>1, <2>4 DEF Free
    <3>4. \A i \in 0 .. level - 1 : FileKey(level + 1)[i] = FileKey(level)[i]
      BY <2>4
    <3>5. level \in 0 .. MAXQUEENS - 1 /\ Mirrors(file, FileKey(level))
      BY <1>2
    <3>6. QED
      BY <2>1, <2>2, <3>1, <3>2, <3>3, <3>4, <3>5, Placed
  <2>6. Mirrors(fordiag', ForwardKey(level + 1))
    <3>1. fordiag \in [Diagonals -> 0 .. EMPTY]
      BY DEF StackInv, TypeOK
    <3>2. fordiag' = [fordiag EXCEPT ![ForwardKey(level + 1)[level]] = level]
      BY <2>4 DEF Place, Own
    <3>3. fordiag[ForwardKey(level + 1)[level]] >= level
      BY <1>1, <2>4 DEF Free
    <3>4. \A i \in 0 .. level - 1 : ForwardKey(level + 1)[i] = ForwardKey(level)[i]
      BY <2>4
    <3>5. level \in 0 .. MAXQUEENS - 1 /\ Mirrors(fordiag, ForwardKey(level))
      BY <1>2
    <3>6. QED
      BY <2>1, <2>2, <3>1, <3>2, <3>3, <3>4, <3>5, Placed
  <2>7. Mirrors(bakdiag', BackwardKey(level + 1))
    <3>1. bakdiag \in [Diagonals -> 0 .. EMPTY]
      BY DEF StackInv, TypeOK
    <3>2. bakdiag' = [bakdiag EXCEPT ![BackwardKey(level + 1)[level]] = level]
      BY <2>4 DEF Place, Own
    <3>3. bakdiag[BackwardKey(level + 1)[level]] >= level
      BY <1>1, <2>4 DEF Free
    <3>4. \A i \in 0 .. level - 1 : BackwardKey(level + 1)[i] = BackwardKey(level)[i]
      BY <2>4
    <3>5. level \in 0 .. MAXQUEENS - 1 /\ Mirrors(bakdiag, BackwardKey(level))
      BY <1>2
    <3>6. QED
      BY <2>1, <2>2, <3>1, <3>2, <3>3, <3>4, <3>5, Placed
  <2>8. /\ [i \in 0 .. level' - 1 |-> f'[i]] = FileKey(level + 1)
        /\ [i \in 0 .. level' - 1 |-> i + f'[i]] = ForwardKey(level + 1)
        /\ [i \in 0 .. level' - 1 |-> i + queens' - 1 - f'[i]] = BackwardKey(level + 1)
    BY <1>3, <1>4, <2>3 DEF FileKey, ForwardKey, BackwardKey, Forward, Backward
  <2>9. \A i \in 0 .. level' - 1 : queen'[i] = f'[i]
    <3>0. /\ queen \in [Files -> Files]
          /\ queen' = [queen EXCEPT ![level] = c]
      BY DEF Place, StackInv, TypeOK
    <3>1. ASSUME NEW i \in 0 .. level - 1 PROVE queen'[i] = f'[i]
      <4>1. i \in Files /\ i # level /\ i \in 0 .. level
        BY <1>2 DEF Files
      <4>2. queen[i] = f[i]
        BY <1>1 DEF StackInv, OwnersExact
      <4>3. QED
        BY <1>4, <3>0, <4>1, <4>2
    <3>2. queen'[level] = f'[level]
      BY <1>4, <1>5, <2>3, <3>0
    <3>3. \A i \in 0 .. level' - 1 : i = level \/ i \in 0 .. level - 1
      BY <1>2, <1>3
    <3>4. QED
      BY <3>1, <3>2, <3>3
  <2>10. QED
    BY <2>5, <2>6, <2>7, <2>8, <2>9 DEF OwnersExact, Forward, Backward
<1>10. QED
  BY <1>7, <1>8, <1>9 DEF StackInv

(* Where the caller of find(level) stands. *)
LEMMA AtCaller ==
  ASSUME StackInv, ~exited, level > 0
  PROVE  /\ queens \in 1 .. MAXQUEENS /\ MAXQUEENS \in Nat
         /\ level \in 1 .. queens /\ level - 1 \in 0 .. queens - 1
         /\ level - 1 \in 0 .. MAXQUEENS - 1
         /\ f[level - 1] \in 0 .. queens - 1
         /\ \A i \in 0 .. level - 1 : f[i] < queens /\ queen[i] = f[i]
         /\ Mirrors(file, FileKey(level))
         /\ Mirrors(fordiag, ForwardKey(level))
         /\ Mirrors(bakdiag, BackwardKey(level))
<1>1. /\ queens \in 1 .. MAXQUEENS /\ MAXQUEENS \in Nat
      /\ level \in 1 .. queens /\ level - 1 \in 0 .. queens - 1
      /\ level - 1 \in 0 .. MAXQUEENS - 1 /\ level - 1 \in 0 .. level - 1
  BY MaxQueensAssumption DEF StackInv, TypeOK
<1>2. f[level - 1] < queens
  BY <1>1 DEF StackInv, Below
<1>3. f[level - 1] \in 0 .. queens
  BY <1>1 DEF StackInv, TypeOK
<1>4. f[level - 1] \in 0 .. queens - 1
  BY <1>1, <1>2, <1>3
<1>5. QED
  BY <1>1, <1>4 DEF StackInv, Below, OwnersExact, FileKey, ForwardKey, BackwardKey

(* Returning to the caller, which takes its queen back and tries the next  *)
(* file: types, frames and owners stay right.                              *)
LEMMA ReturnStep ==
  ASSUME StackInv, ~exited, level > 0, Return, UNCHANGED <<queens, findall, queen>>,
         solutions' \in Nat, reported' \subseteq Board(queens)
  PROVE  StackInv'
<1> DEFINE l == level - 1
           c == f[l]
<1>1. /\ queens \in 1 .. MAXQUEENS /\ MAXQUEENS \in Nat
      /\ level \in 1 .. queens /\ l \in 0 .. queens - 1 /\ l \in 0 .. MAXQUEENS - 1
      /\ c \in 0 .. queens - 1
      /\ \A i \in 0 .. l : f[i] < queens /\ queen[i] = f[i]
      /\ Mirrors(file, FileKey(level))
      /\ Mirrors(fordiag, ForwardKey(level))
      /\ Mirrors(bakdiag, BackwardKey(level))
  BY AtCaller
<1>2. level # 0 /\ level = l + 1 /\ (l + 1) - 1 = l /\ l \in 0 .. MAXQUEENS
      /\ EMPTY \in 0 .. EMPTY /\ l \in 0 .. l
      /\ \A i \in 0 .. l - 1 : i \in 0 .. l /\ i # l
  BY <1>1 DEF EMPTY
<1>3. /\ level' = l /\ exited' = exited /\ Own(l, c, EMPTY)
      /\ f' = [f EXCEPT ![l] = @ + 1]
  BY <1>2 DEF Return
<1>4. /\ f' \in [0 .. MAXQUEENS -> 0 .. queens]
      /\ \A i \in 0 .. l - 1 : f'[i] = f[i]
  BY <1>1, <1>2, <1>3 DEF StackInv, TypeOK
<1>5. /\ l \in Files /\ c \in Files
      /\ Forward(l, c) \in Diagonals
      /\ Backward(l, c) \in Diagonals
  BY <1>1, SquareFact DEF StackInv
<1>6. TypeOK'
  <2>1. /\ file' \in [Files -> 0 .. EMPTY]
        /\ fordiag' \in [Diagonals -> 0 .. EMPTY]
        /\ bakdiag' \in [Diagonals -> 0 .. EMPTY]
    BY <1>2, <1>3, <1>5 DEF Own, StackInv, TypeOK
  <2>2. level' \in 0 .. queens
    BY <1>1, <1>3
  <2>3. reported' \subseteq Board(queens)'
    BY DEF Board
  <2>4. QED
    BY <1>3, <1>4, <2>1, <2>2, <2>3 DEF StackInv, TypeOK
<1>7. Below'
  BY <1>1, <1>2, <1>3, <1>4 DEF Below
<1>8. OwnersExact'
  <2>1. /\ FileKey(l) \in [0 .. l - 1 -> Files]
        /\ ForwardKey(l) \in [0 .. l - 1 -> Diagonals]
        /\ BackwardKey(l) \in [0 .. l - 1 -> Diagonals]
    <3>1. l \in 0 .. queens /\ \A i \in 0 .. l - 1 : f[i] < queens
      BY <1>1, <1>2
    <3>2. QED
      BY <3>1, KeyFact DEF StackInv
  <2>2. /\ FileKey(level) \in [0 .. l -> Files]
        /\ ForwardKey(level) \in [0 .. l -> Diagonals]
        /\ BackwardKey(level) \in [0 .. l -> Diagonals]
    <3>1. level \in 0 .. queens /\ \A i \in 0 .. level - 1 : f[i] < queens
      BY <1>1
    <3>2. QED
      BY <3>1, KeyFact DEF StackInv
  <2>3. /\ FileKey(level)[l] = c
        /\ ForwardKey(level)[l] = Forward(l, c)
        /\ BackwardKey(level)[l] = Backward(l, c)
    BY <1>2 DEF FileKey, ForwardKey, BackwardKey
  <2>4. \A i \in 0 .. l - 1 : FileKey(level)[i] = FileKey(l)[i]
    BY <1>2 DEF FileKey
  <2>5. \A i \in 0 .. l - 1 : ForwardKey(level)[i] = ForwardKey(l)[i]
    BY <1>2 DEF ForwardKey
  <2>6. \A i \in 0 .. l - 1 : BackwardKey(level)[i] = BackwardKey(l)[i]
    BY <1>2 DEF BackwardKey
  <2>7. /\ l \in 0 .. MAXQUEENS - 1
        /\ Mirrors(file, FileKey(level))
        /\ Mirrors(fordiag, ForwardKey(level))
        /\ Mirrors(bakdiag, BackwardKey(level))
    BY <1>1
  <2>8. Mirrors(file', FileKey(l))
    <3>1. file \in [Files -> 0 .. EMPTY]
      BY DEF StackInv, TypeOK
    <3>2. file' = [file EXCEPT ![FileKey(level)[l]] = EMPTY]
      BY <1>3, <2>3 DEF Own
    <3>3. /\ FileKey(l) \in [0 .. l - 1 -> Files]
          /\ FileKey(level) \in [0 .. l -> Files]
          /\ l \in 0 .. MAXQUEENS - 1
          /\ Mirrors(file, FileKey(level))
      BY <2>1, <2>2, <2>7
    <3> HIDE DEF l, c
    <3>4. QED
      BY <2>4, <3>1, <3>2, <3>3, TakenBack
  <2>9. Mirrors(fordiag', ForwardKey(l))
    <3>1. fordiag \in [Diagonals -> 0 .. EMPTY]
      BY DEF StackInv, TypeOK
    <3>2. fordiag' = [fordiag EXCEPT ![ForwardKey(level)[l]] = EMPTY]
      BY <1>3, <2>3 DEF Own
    <3> HIDE DEF l, c
    <3>3. QED
      BY <2>1, <2>2, <2>5, <2>7, <3>1, <3>2, TakenBack
  <2>10. Mirrors(bakdiag', BackwardKey(l))
    <3>1. bakdiag \in [Diagonals -> 0 .. EMPTY]
      BY DEF StackInv, TypeOK
    <3>2. bakdiag' = [bakdiag EXCEPT ![BackwardKey(level)[l]] = EMPTY]
      BY <1>3, <2>3 DEF Own
    <3> HIDE DEF l, c
    <3>3. QED
      BY <2>1, <2>2, <2>6, <2>7, <3>1, <3>2, TakenBack
  <2>11. /\ [i \in 0 .. level' - 1 |-> f'[i]] = FileKey(l)
         /\ [i \in 0 .. level' - 1 |-> i + f'[i]] = ForwardKey(l)
         /\ [i \in 0 .. level' - 1 |-> i + queens' - 1 - f'[i]] = BackwardKey(l)
    BY <1>3, <1>4 DEF FileKey, ForwardKey, BackwardKey, Forward, Backward
  <2>12. \A i \in 0 .. level' - 1 : queen'[i] = f'[i]
    BY <1>1, <1>2, <1>3, <1>4
  <2>13. QED
    BY <2>8, <2>9, <2>10, <2>11, <2>12 DEF OwnersExact, Forward, Backward
<1>9. QED
  BY <1>6, <1>7, <1>8 DEF StackInv

(* A placement of all queens is a board. *)
LEMMA SolutionIsBoard ==
  ASSUME StackInv, Solution
  PROVE  /\ [r \in 0 .. queens - 1 |-> queen[r]] \in Board(queens)
         /\ \A r \in 0 .. queens - 1 : queen[r] = f[r] /\ f[r] \in 0 .. queens - 1
<1>1. ~exited /\ level = queens /\ queens \in 1 .. MAXQUEENS /\ MAXQUEENS \in Nat
  BY MaxQueensAssumption DEF Solution, StackInv, TypeOK
<1>2. ASSUME NEW r \in 0 .. queens - 1
      PROVE  queen[r] = f[r] /\ f[r] \in 0 .. queens - 1
  <2>1. queen[r] = f[r] /\ f[r] < queens
    BY <1>1 DEF StackInv, OwnersExact, Below
  <2>2. f[r] \in 0 .. queens
    BY <1>1 DEF StackInv, TypeOK
  <2>3. QED
    BY <1>1, <2>1, <2>2
<1>3. QED
  BY <1>2 DEF Board

(* The frames of find() and the owner arrays agree, and every index is in   *)
(* range: the inductive invariant the other theorems rest on.               *)
THEOREM StackInvariant == Spec => []StackInv
<1>1. Init => StackInv
  <2> SUFFICES ASSUME Init
               PROVE  StackInv
    OBVIOUS
  <2>1. queens \in 1 .. MAXQUEENS /\ MAXQUEENS \in Nat /\ level = 0
        /\ 0 .. level - 1 = {} /\ EMPTY \in 0 .. EMPTY
    BY MaxQueensAssumption DEF Init, EMPTY
  <2>2. TypeOK
    <3>1. /\ f \in [0 .. MAXQUEENS -> 0 .. queens]
          /\ queen \in [Files -> Files]
          /\ level \in 0 .. queens
      BY <2>1 DEF Init, Files
    <3>2. /\ file \in [Files -> 0 .. EMPTY]
          /\ fordiag \in [Diagonals -> 0 .. EMPTY]
          /\ bakdiag \in [Diagonals -> 0 .. EMPTY]
      BY <2>1 DEF Init
    <3>3. QED
      BY <3>1, <3>2 DEF Init, TypeOK
  <2>3. Below
    BY <2>1 DEF Below
  <2>4. OwnersExact
    BY <2>1 DEF OwnersExact, Init, Mirrors
  <2>5. QED
    BY <2>2, <2>3, <2>4 DEF StackInv
<1>2. StackInv /\ [Next]_vars => StackInv'
  <2> SUFFICES ASSUME StackInv, [Next]_vars
               PROVE  StackInv'
    OBVIOUS
  <2>1. CASE Solution
    <3>1. /\ solutions' \in Nat /\ reported' \subseteq Board(queens)
          /\ UNCHANGED <<queens, findall, queen>> /\ ~exited
          /\ level = queens /\ level > 0
      <4>1. /\ UNCHANGED <<queens, findall, queen>> /\ ~exited /\ level = queens
            /\ solutions' = solutions + 1
            /\ reported' = reported \cup {[r \in 0 .. queens - 1 |-> queen[r]]}
        BY <2>1 DEF Solution, arguments
      <4>2. reported' \subseteq Board(queens)
        BY <2>1, <4>1, SolutionIsBoard DEF StackInv, TypeOK
      <4>3. queens > 0 /\ solutions' \in Nat
        BY <4>1, MaxQueensAssumption DEF StackInv, TypeOK
      <4>4. QED
        BY <4>1, <4>2, <4>3
    <3>2. CASE findall
      BY <2>1, <3>1, <3>2, ReturnStep DEF Solution
    <3>3. CASE ~findall
      <4>1. exited' = TRUE /\ UNCHANGED <<level, f, file, fordiag, bakdiag>>
        BY <2>1, <3>3 DEF Solution, owners
      <4>2. TypeOK'
        BY <3>1, <4>1 DEF StackInv, TypeOK, Board
      <4>3. Below' /\ OwnersExact'
        BY <3>1, <4>1 DEF StackInv, Below, OwnersExact
      <4>4. QED
        BY <4>2, <4>3 DEF StackInv
    <3>4. QED
      BY <3>2, <3>3
  <2>2. CASE Place
    BY <2>2, PlaceStep
  <2>3. CASE Conflict
    <3>1. /\ ~exited /\ level < queens /\ f[level] < queens
          /\ f' = [f EXCEPT ![level] = @ + 1]
          /\ UNCHANGED <<queens, findall, level, queen, file, fordiag, bakdiag,
                        solutions, reported, exited>>
      BY <2>3 DEF Conflict, arguments, owners
    <3>2. level \in 0 .. MAXQUEENS /\ f[level] \in 0 .. queens - 1 /\ queens \in Nat
          /\ level \in Nat
      BY <3>1, AtSquare
    <3>3. f' \in [0 .. MAXQUEENS -> 0 .. queens]
      BY <3>1, <3>2 DEF StackInv, TypeOK
    <3>4. \A i \in 0 .. level - 1 : f'[i] = f[i]
      BY <3>1, <3>2 DEF StackInv, TypeOK
    <3>5. TypeOK'
      BY <3>1, <3>3 DEF StackInv, TypeOK, Board
    <3>6. Below'
      BY <3>1, <3>4 DEF StackInv, Below
    <3>7. OwnersExact'
      <4>1. /\ [i \in 0 .. level - 1 |-> f'[i]] = [i \in 0 .. level - 1 |-> f[i]]
            /\ [i \in 0 .. level - 1 |-> i + f'[i]] = [i \in 0 .. level - 1 |-> i + f[i]]
            /\ [i \in 0 .. level - 1 |-> i + queens - 1 - f'[i]]
                 = [i \in 0 .. level - 1 |-> i + queens - 1 - f[i]]
        BY <3>4
      <4>2. QED
        BY <3>1, <3>4, <4>1 DEF StackInv, OwnersExact, Forward, Backward
    <3>8. QED
      BY <3>5, <3>6, <3>7 DEF StackInv
  <2>4. CASE Exhausted
    <3>1. /\ UNCHANGED <<queens, findall, queen, solutions, reported>> /\ ~exited /\ Return
          /\ level \in 0 .. queens /\ queens \in Nat
          /\ solutions' \in Nat /\ reported' \subseteq Board(queens)
      BY <2>4, MaxQueensAssumption DEF Exhausted, arguments, StackInv, TypeOK
    <3>2. CASE level = 0
      <4>1. exited' = TRUE /\ UNCHANGED <<level, f, file, fordiag, bakdiag>>
        BY <3>1, <3>2 DEF Return, owners
      <4>2. TypeOK'
        BY <3>1, <4>1 DEF StackInv, TypeOK, Board
      <4>3. Below' /\ OwnersExact'
        BY <3>1, <4>1 DEF StackInv, Below, OwnersExact
      <4>4. QED
        BY <4>2, <4>3 DEF StackInv
    <3>3. CASE level > 0
      BY <3>1, <3>3, ReturnStep
    <3>4. QED
      BY <3>1, <3>2, <3>3
  <2>5. CASE UNCHANGED vars
    BY <2>5 DEF vars, arguments, owners, StackInv, TypeOK, Below, OwnersExact,
                Board, Mirrors, Forward, Backward
  <2>6. QED
    BY <2>1, <2>2, <2>3, <2>4, <2>5 DEF Next
<1>3. QED
  BY <1>1, <1>2, PTL DEF Spec

-----------------------------------------------------------------------------
(* Conflicts *)

(* Two queens that own what the arrays say do not attack each other. *)
LEMMA OwnersDiffer ==
  ASSUME NEW owner, NEW key, Mirrors(owner, key),
         NEW i \in DOMAIN key, NEW j \in DOMAIN key, i # j
  PROVE  key[i] # key[j]
BY DEF Mirrors

(* When all queens are placed the board is peaceful. *)
LEMMA SolutionIsPeaceful ==
  ASSUME StackInv, Solution
  PROVE  [r \in 0 .. queens - 1 |-> queen[r]] \in Solutions[queens]
<1> DEFINE b == [r \in 0 .. queens - 1 |-> queen[r]]
<1>1. /\ b \in Board(queens)
      /\ \A r \in 0 .. queens - 1 : b[r] = f[r] /\ f[r] \in 0 .. queens - 1
  BY SolutionIsBoard
<1>2. /\ queens \in 1 .. MAXQUEENS /\ queens \in Nat /\ level = queens
      /\ Mirrors(file, FileKey(queens))
      /\ Mirrors(fordiag, ForwardKey(queens))
      /\ Mirrors(bakdiag, BackwardKey(queens))
  BY AtCaller, MaxQueensAssumption DEF Solution, StackInv, TypeOK
<1>3. ASSUME NEW i \in 0 .. queens - 1, NEW j \in 0 .. queens - 1, i < j
      PROVE  /\ f[i] # f[j]
             /\ f[j] - f[i] # j - i
             /\ f[i] - f[j] # j - i
  <2>1. i # j
    BY <1>2, <1>3
  <2>2. FileKey(queens)[i] # FileKey(queens)[j]
    BY <1>2, <2>1, OwnersDiffer DEF FileKey
  <2>3. ForwardKey(queens)[i] # ForwardKey(queens)[j]
    BY <1>2, <2>1, OwnersDiffer DEF ForwardKey
  <2>4. BackwardKey(queens)[i] # BackwardKey(queens)[j]
    BY <1>2, <2>1, OwnersDiffer DEF BackwardKey
  <2>5. /\ f[i] # f[j]
        /\ i + f[i] # j + f[j]
        /\ i + queens - 1 - f[i] # j + queens - 1 - f[j]
    BY <2>2, <2>3, <2>4 DEF FileKey, ForwardKey, BackwardKey, Forward, Backward
  <2>6. f[i] \in 0 .. queens - 1 /\ f[j] \in 0 .. queens - 1
    BY <1>1
  <2>7. QED
    BY <1>2, <2>5, <2>6
<1> HIDE DEF b
<1>4. Peaceful(b, queens)
  BY <1>1, <1>3 DEF Peaceful
<1>5. QED
  BY <1>1, <1>2, <1>4 DEF Solutions, b

(* The boards that share the placed queens and the square under test. *)
At(b, l) == \A i \in 0 .. l : b[i] = f[i]

(* An owner the test finds on the way belongs to a queen above it that      *)
(* attacks the square.                                                      *)
LEMMA OwnerAttacks ==
  ASSUME NEW S, NEW owner \in [S -> 0 .. EMPTY], NEW l \in 0 .. MAXQUEENS - 1,
         NEW key, DOMAIN key = 0 .. l - 1, Mirrors(owner, key),
         NEW s \in S, ~(owner[s] >= l)
  PROVE  \E i \in 0 .. l - 1 : key[i] = s
<1>1. owner[s] # EMPTY
  BY MaxQueensAssumption DEF EMPTY
<1>2. owner[s] \in 0 .. l - 1 /\ key[owner[s]] = s
  BY <1>1 DEF Mirrors
<1>3. QED
  BY <1>2

(* No solution continues a square that fails the conflict test. *)
LEMMA ConflictPrunesNothing ==
  ASSUME StackInv, Conflict, NEW b \in Solutions[queens]
  PROVE  ~At(b, level)
<1> SUFFICES ASSUME At(b, level)
             PROVE  FALSE
  OBVIOUS
<1> DEFINE c == f[level]
<1>1. ~exited /\ level < queens /\ c < queens /\ ~Free(level, c)
  BY DEF Conflict
<1>2. /\ queens \in 1 .. MAXQUEENS /\ MAXQUEENS \in Nat
      /\ level \in 0 .. queens - 1 /\ level \in 0 .. MAXQUEENS - 1
      /\ c \in 0 .. queens - 1
      /\ Mirrors(file, FileKey(level))
      /\ Mirrors(fordiag, ForwardKey(level))
      /\ Mirrors(bakdiag, BackwardKey(level))
  BY <1>1, AtSquare
<1>3. /\ c \in Files
      /\ Forward(level, c) \in Diagonals
      /\ Backward(level, c) \in Diagonals
  BY <1>2, SquareFact DEF StackInv
<1>4. Peaceful(b, queens) /\ b \in Board(queens)
  BY <1>2 DEF Solutions
<1>5. /\ file \in [Files -> 0 .. EMPTY]
      /\ fordiag \in [Diagonals -> 0 .. EMPTY]
      /\ bakdiag \in [Diagonals -> 0 .. EMPTY]
  BY DEF StackInv, TypeOK
<1>6. b[level] = c
  BY <1>2 DEF At
<1>7. ASSUME NEW i \in 0 .. level - 1
      PROVE  /\ f[i] # c
             /\ Forward(i, f[i]) # Forward(level, c)
             /\ Backward(i, f[i]) # Backward(level, c)
  <2>1. i \in 0 .. queens - 1 /\ level \in 0 .. queens - 1 /\ i < level /\ i \in 0 .. level
    BY <1>2
  <2>2. b[i] = f[i] /\ b[i] \in 0 .. queens - 1
    BY <1>4, <2>1 DEF At, Board
  <2>3. b[i] # c /\ c - b[i] # level - i /\ b[i] - c # level - i
    BY <1>4, <1>6, <2>1 DEF Peaceful
  <2>4. f[i] \in Int /\ c \in Int /\ i \in Int /\ level \in Int /\ queens \in Int
    BY <1>2, <2>1, <2>2
  <2>5. f[i] # c /\ i + f[i] # level + c
    BY <2>2, <2>3, <2>4
  <2>6. i + queens - 1 - f[i] # level + queens - 1 - c
    BY <2>2, <2>3, <2>4
  <2>7. QED
    BY <2>5, <2>6 DEF Forward, Backward
<1>8. file[c] >= level
  <2>1. /\ DOMAIN FileKey(level) = 0 .. level - 1
        /\ \A i \in 0 .. level - 1 : FileKey(level)[i] # c
    BY <1>7 DEF FileKey
  <2>2. /\ Mirrors(file, FileKey(level)) /\ level \in 0 .. MAXQUEENS - 1
        /\ file \in [Files -> 0 .. EMPTY] /\ c \in Files
    BY <1>2, <1>3, <1>5
  <2>3. ~(file[c] >= level) => \E i \in 0 .. level - 1 : FileKey(level)[i] = c
    <3> HIDE DEF c
    <3>1. QED
      BY <2>1, <2>2, OwnerAttacks
  <2>4. QED
    BY <2>1, <2>3
<1>9. fordiag[Forward(level, c)] >= level
  <2>1. /\ DOMAIN ForwardKey(level) = 0 .. level - 1
        /\ \A i \in 0 .. level - 1 : ForwardKey(level)[i] # Forward(level, c)
    BY <1>7 DEF ForwardKey
  <2>2. /\ Mirrors(fordiag, ForwardKey(level)) /\ level \in 0 .. MAXQUEENS - 1
        /\ fordiag \in [Diagonals -> 0 .. EMPTY] /\ Forward(level, c) \in Diagonals
    BY <1>2, <1>3, <1>5
  <2>3. ~(fordiag[Forward(level, c)] >= level) => \E i \in 0 .. level - 1 : ForwardKey(level)[i] = Forward(level, c)
    <3> HIDE DEF c
    <3>1. QED
      BY <2>1, <2>2, OwnerAttacks
  <2>4. QED
    BY <2>1, <2>3
<1>10. bakdiag[Backward(level, c)] >= level
  <2>1. /\ DOMAIN BackwardKey(level) = 0 .. level - 1
        /\ \A i \in 0 .. level - 1 : BackwardKey(level)[i] # Backward(level, c)
    BY <1>7 DEF BackwardKey
  <2>2. /\ Mirrors(bakdiag, BackwardKey(level)) /\ level \in 0 .. MAXQUEENS - 1
        /\ bakdiag \in [Diagonals -> 0 .. EMPTY] /\ Backward(level, c) \in Diagonals
    BY <1>2, <1>3, <1>5
  <2>3. ~(bakdiag[Backward(level, c)] >= level) => \E i \in 0 .. level - 1 : BackwardKey(level)[i] = Backward(level, c)
    <3> HIDE DEF c
    <3>1. QED
      BY <2>1, <2>2, OwnerAttacks
  <2>4. QED
    BY <2>1, <2>3
<1>11. QED
  BY <1>1, <1>8, <1>9, <1>10 DEF Free

-----------------------------------------------------------------------------
(* The order of the search *)

PassedUpTo(b, l) ==
  \E k \in 0 .. l : (\A i \in 0 .. k - 1 : b[i] = f[i]) /\ b[k] < f[k]

(* The boards passed, with the innermost loop on level l. *)
LEMMA PassedFact ==
  ASSUME TypeOK, NEW b, NEW l \in 0 .. queens - 1,
         l = level \/ (l = queens - 1 /\ level = queens)
  PROVE  Passed(b) <=> PassedUpTo(b, l)
<1>1. queens \in Nat /\ level \in Nat /\ l \in Nat
  BY MaxQueensAssumption DEF TypeOK
<1>2. \A k \in 0 .. queens - 1 : k <= level <=> k \in 0 .. l
  BY <1>1
<1>3. \A k \in 0 .. l : k \in 0 .. queens - 1
  BY <1>1
<1>4. QED
  BY <1>2, <1>3 DEF Passed, PassedUpTo

(* When the loop on level l goes on, the boards that share the square it   *)
(* leaves are passed as well, and no others.                               *)
LEMMA Advanced ==
  ASSUME TypeOK, NEW l \in 0 .. queens - 1, NEW b \in Board(queens),
         level' = l, queens' = queens, f' = [f EXCEPT ![l] = @ + 1]
  PROVE  Passed(b)' <=> PassedUpTo(b, l) \/ At(b, l)
<1>1. queens \in Nat /\ l \in Nat /\ l \in 0 .. MAXQUEENS /\ f[l] \in Nat /\ b[l] \in Nat
  BY MaxQueensAssumption DEF TypeOK, Board
<1>2. /\ f'[l] = f[l] + 1
      /\ \A i \in 0 .. l - 1 : f'[i] = f[i]
  BY <1>1 DEF TypeOK
<1>3. b[l] < f[l] + 1 <=> b[l] < f[l] \/ b[l] = f[l]
  BY <1>1
<1>4. \A k \in 0 .. queens - 1 : k <= l <=> k = l \/ k \in 0 .. l - 1
  BY <1>1
<1>5. \A k \in 0 .. l - 1 : \A i \in 0 .. k - 1 : i \in 0 .. l - 1
  BY <1>1
<1>6. Passed(b)' <=> \E k \in 0 .. queens - 1 :
                        k <= l /\ (\A i \in 0 .. k - 1 : b[i] = f'[i]) /\ b[k] < f'[k]
  BY DEF Passed
<1>7. ASSUME Passed(b)' PROVE PassedUpTo(b, l) \/ At(b, l)
  <2>1. PICK k \in 0 .. queens - 1 :
          k <= l /\ (\A i \in 0 .. k - 1 : b[i] = f'[i]) /\ b[k] < f'[k]
    BY <1>6, <1>7
  <2>2. CASE k \in 0 .. l - 1
    <3>1. k \in 0 .. l /\ (\A i \in 0 .. k - 1 : b[i] = f[i]) /\ b[k] < f[k]
      BY <1>1, <1>2, <1>5, <2>1, <2>2
    <3>2. QED
      BY <3>1 DEF PassedUpTo
  <2>3. CASE k = l
    <3>1. l \in 0 .. l /\ (\A i \in 0 .. l - 1 : b[i] = f[i])
      BY <1>1, <1>2, <2>1, <2>3
    <3>2. b[l] < f[l] \/ b[l] = f[l]
      BY <1>2, <1>3, <2>1, <2>3
    <3>3. \A i \in 0 .. l : i = l \/ i \in 0 .. l - 1
      BY <1>1
    <3>4. QED
      BY <3>1, <3>2, <3>3 DEF PassedUpTo, At
  <2>4. QED
    BY <1>4, <2>1, <2>2, <2>3
<1>8. ASSUME PassedUpTo(b, l) \/ At(b, l) PROVE Passed(b)'
  <2>1. CASE At(b, l)
    <3>1. l \in 0 .. queens - 1 /\ l <= l
      BY <1>1
    <3>2. \A i \in 0 .. l - 1 : b[i] = f'[i]
      BY <1>1, <1>2, <2>1 DEF At
    <3>3. b[l] < f'[l]
      BY <1>1, <1>2, <2>1 DEF At
    <3>4. QED
      BY <1>6, <3>1, <3>2, <3>3
  <2>2. CASE PassedUpTo(b, l)
    <3>1. PICK k \in 0 .. l : (\A i \in 0 .. k - 1 : b[i] = f[i]) /\ b[k] < f[k]
      BY <2>2 DEF PassedUpTo
    <3>2. k \in 0 .. queens - 1 /\ k <= l
      BY <1>1
    <3>3. \A i \in 0 .. k - 1 : b[i] = f'[i]
      BY <1>1, <1>2, <3>1
    <3>4. b[k] < f'[k]
      <4>1. CASE k = l
        BY <1>1, <1>2, <3>1, <4>1
      <4>2. CASE k \in 0 .. l - 1
        BY <1>2, <3>1, <4>2
      <4>3. QED
        BY <1>4, <3>2, <4>1, <4>2
    <3>5. QED
      BY <1>6, <3>2, <3>3, <3>4
  <2>3. QED
    BY <1>8, <2>1, <2>2
<1>9. QED
  BY <1>7, <1>8

(* The search reports what it passes. *)
LEMMA SearchStep ==
  ASSUME StackInv, SearchExact, [Next]_vars
  PROVE  SearchExact'
<1> SUFFICES ASSUME ~exited'
             PROVE  reported' = {b \in Solutions[queens] : Passed(b)'} /\ queens' = queens
  BY DEF SearchExact
<1>1. queens \in 1 .. MAXQUEENS /\ queens \in Nat /\ level \in 0 .. queens /\ TypeOK
  BY MaxQueensAssumption DEF StackInv, TypeOK
<1>2. \A b \in Solutions[queens] : b \in Board(queens)
  BY <1>1 DEF Solutions
<1>3. CASE Solution
  <2> DEFINE board == [r \in 0 .. queens - 1 |-> queen[r]]
             l == queens - 1
  <2>1. /\ ~exited /\ level = queens /\ queens' = queens /\ Return
        /\ reported' = reported \cup {board}
    BY <1>3 DEF Solution, arguments
  <2>2. l \in 0 .. queens - 1 /\ level - 1 = l /\ level # 0 /\ level > 0
    BY <1>1, <2>1
  <2>3. level' = l /\ f' = [f EXCEPT ![l] = @ + 1]
    BY <2>1, <2>2 DEF Return
  <2>4. reported = {b \in Solutions[queens] : Passed(b)} /\ board \in Solutions[queens]
    BY <1>3, <2>1, SolutionIsPeaceful DEF SearchExact
  <2>5. ASSUME NEW b \in Solutions[queens]
        PROVE  Passed(b)' <=> Passed(b) \/ b = board
    <3>1. b \in Board(queens)
      BY <1>2
    <3>2. Passed(b)' <=> PassedUpTo(b, l) \/ At(b, l)
      BY <1>1, <2>1, <2>2, <2>3, <3>1, Advanced
    <3>3. Passed(b) <=> PassedUpTo(b, l)
      BY <1>1, <2>1, <2>2, PassedFact
    <3>4. \A r \in 0 .. l : board[r] = f[r]
      BY <1>3, SolutionIsBoard
    <3>5. At(b, l) <=> b = board
      <4>1. ASSUME At(b, l) PROVE b = board
        <5>1. \A r \in 0 .. queens - 1 : b[r] = board[r]
          BY <3>4, <4>1 DEF At
        <5>2. b \in [0 .. queens - 1 -> 0 .. queens - 1]
          BY <3>1 DEF Board
        <5>3. QED
          BY <5>1, <5>2
      <4>2. ASSUME b = board PROVE At(b, l)
        BY <3>4, <4>2 DEF At
      <4>3. QED
        BY <4>1, <4>2
    <3>6. QED
      BY <3>2, <3>3, <3>5
  <2> HIDE DEF board
  <2>6. QED
    BY <2>1, <2>4, <2>5
<1>4. CASE Place
  <2>1. /\ ~exited /\ level < queens /\ queens' = queens /\ reported' = reported
        /\ level' = level + 1 /\ f' = [f EXCEPT ![level + 1] = 0]
    BY <1>4 DEF Place, arguments
  <2>2. /\ level + 1 \in 0 .. MAXQUEENS /\ level \in Nat
        /\ f'[level + 1] = 0
        /\ \A i \in 0 .. level : f'[i] = f[i]
    <3>1. MAXQUEENS \in Nat /\ level + 1 \in 0 .. MAXQUEENS /\ level \in Nat
      BY <1>1, <2>1, MaxQueensAssumption
    <3>2. \A i \in 0 .. level : i \in 0 .. MAXQUEENS /\ i # level + 1
      BY <3>1
    <3>3. f \in [0 .. MAXQUEENS -> 0 .. queens]
      BY <1>1 DEF TypeOK
    <3>4. QED
      BY <2>1, <3>1, <3>2, <3>3
  <2>3. ASSUME NEW b \in Board(queens)
        PROVE  Passed(b)' <=> Passed(b)
    <3>1. \A k \in 0 .. queens - 1 : k <= level + 1 <=> k <= level \/ k = level + 1
      BY <2>2
    <3>2. \A k \in 0 .. queens - 1 : k <= level => k \in 0 .. level /\ 0 .. k - 1 \subseteq 0 .. level
      BY <2>2
    <3>3. \A k \in 0 .. queens - 1 : k = level + 1 => ~(b[k] < f'[k])
      BY <2>2 DEF Board
    <3>4. Passed(b)' <=> \E k \in 0 .. queens - 1 :
             k <= level + 1 /\ (\A i \in 0 .. k - 1 : b[i] = f'[i]) /\ b[k] < f'[k]
      BY <2>1 DEF Passed
    <3>5. \A k \in 0 .. queens - 1 : k <= level =>
             (((\A i \in 0 .. k - 1 : b[i] = f'[i]) /\ b[k] < f'[k])
               <=> ((\A i \in 0 .. k - 1 : b[i] = f[i]) /\ b[k] < f[k]))
      BY <2>2, <3>2
    <3>6. QED
      BY <3>1, <3>3, <3>4, <3>5 DEF Passed
  <2>4. QED
    BY <1>2, <2>1, <2>3 DEF SearchExact
<1>5. CASE Conflict
  <2>1. /\ ~exited /\ level < queens /\ queens' = queens /\ reported' = reported
        /\ level' = level /\ f' = [f EXCEPT ![level] = @ + 1]
    BY <1>5 DEF Conflict, arguments
  <2>2. level \in 0 .. queens - 1
    BY <1>1, <2>1
  <2>3. ASSUME NEW b \in Solutions[queens]
        PROVE  Passed(b)' <=> Passed(b)
    <3>1. Passed(b)' <=> PassedUpTo(b, level) \/ At(b, level)
      BY <1>1, <1>2, <2>1, <2>2, Advanced
    <3>2. Passed(b) <=> PassedUpTo(b, level)
      BY <1>1, <2>2, PassedFact
    <3>3. ~At(b, level)
      BY <1>5, ConflictPrunesNothing
    <3>4. QED
      BY <3>1, <3>2, <3>3
  <2>4. QED
    BY <2>1, <2>3 DEF SearchExact
<1>6. CASE Exhausted
  <2> DEFINE l == level - 1
  <2>1. /\ ~exited /\ level < queens /\ f[level] = queens /\ Return
        /\ queens' = queens /\ reported' = reported
    BY <1>6 DEF Exhausted, arguments
  <2>2. level # 0 /\ level' = l /\ f' = [f EXCEPT ![l] = @ + 1]
    BY <2>1 DEF Return
  <2>3. /\ l \in 0 .. queens - 1 /\ level \in 0 .. queens - 1 /\ l + 1 = level
        /\ 0 .. level - 1 = 0 .. l
    BY <1>1, <2>1, <2>2
  <2>4. ASSUME NEW b \in Solutions[queens]
        PROVE  Passed(b)' <=> Passed(b)
    <3>1. Passed(b)' <=> PassedUpTo(b, l) \/ At(b, l)
      BY <1>1, <1>2, <2>1, <2>2, <2>3, Advanced
    <3>2. Passed(b) <=> PassedUpTo(b, level)
      BY <1>1, <2>3, PassedFact
    <3>3. b[level] < f[level]
      BY <1>1, <1>2, <2>1, <2>3 DEF Board
    <3>4. \A k \in 0 .. level : k = level \/ k \in 0 .. l
      BY <1>1, <2>3
    <3>5. \A k \in 0 .. l : k \in 0 .. level
      BY <1>1, <2>3
    <3>6. level \in 0 .. level
      BY <1>1
    <3>7. PassedUpTo(b, level) <=> PassedUpTo(b, l) \/ At(b, l)
      BY <2>3, <3>3, <3>4, <3>5, <3>6 DEF PassedUpTo, At
    <3>8. QED
      BY <3>1, <3>2, <3>7
  <2>5. QED
    BY <2>1, <2>4 DEF SearchExact
<1>7. CASE UNCHANGED vars
  BY <1>7 DEF vars, arguments, SearchExact, Passed
<1>8. QED
  BY <1>3, <1>4, <1>5, <1>6, <1>7 DEF Next

(* Pruning loses no solution, and nothing else is reported, on a board of  *)
(* any size: what find() has counted are the solutions it has passed.      *)
THEOREM SearchIsExact == Spec => []SearchExact
<1>1. Init => SearchExact
  <2> SUFFICES ASSUME Init, NEW b \in Solutions[queens], Passed(b)
               PROVE  FALSE
    BY DEF Init, SearchExact
  <2>1. queens \in 1 .. MAXQUEENS /\ queens \in Nat
    BY MaxQueensAssumption DEF Init
  <2>2. PICK k \in 0 .. queens - 1 : b[k] < f[k]
    BY DEF Passed
  <2>3. b \in Board(queens)
    BY <2>1 DEF Solutions
  <2>4. b[k] \in Nat
    BY <2>1, <2>3 DEF Board
  <2>5. k \in 0 .. MAXQUEENS /\ f = [l \in 0 .. MAXQUEENS |-> 0]
    BY <2>1, MaxQueensAssumption DEF Init
  <2>6. QED
    BY <2>2, <2>4, <2>5
<1>2. QED
  BY <1>1, SearchStep, StackInvariant, PTL DEF Spec

-----------------------------------------------------------------------------
(* The count and the answer *)

(* Without -a and -c nothing has been found as long as the program runs. *)
FirstOnly == ~findall /\ ~exited => reported = {}

CountInv == IsFiniteSet(reported) /\ CountExact /\ FirstOnly

(* The board that is counted next has not been passed. *)
LEMMA SolutionIsNew ==
  ASSUME StackInv, SearchExact, Solution
  PROVE  [r \in 0 .. queens - 1 |-> queen[r]] \notin reported
<1> DEFINE board == [r \in 0 .. queens - 1 |-> queen[r]]
<1> SUFFICES ASSUME board \in reported
             PROVE  FALSE
  OBVIOUS
<1>1. Passed(board)
  BY DEF Solution, SearchExact
<1>2. PICK k \in 0 .. queens - 1 : board[k] < f[k]
  BY <1>1 DEF Passed
<1>3. board[k] = f[k] /\ f[k] \in 0 .. queens - 1
  BY SolutionIsBoard
<1>4. queens \in Nat
  BY MaxQueensAssumption DEF StackInv, TypeOK
<1> HIDE DEF board
<1>5. QED
  BY <1>2, <1>3, <1>4

(* Every step keeps the counter equal to the number of boards reported. *)
LEMMA CountStep ==
  ASSUME StackInv, SearchExact, CountInv, [Next]_vars
  PROVE  CountInv'
<1>1. CASE UNCHANGED <<findall, solutions, reported>> /\ (exited => exited')
  BY <1>1 DEF CountInv, CountExact, FirstOnly
<1>2. CASE Solution
  <2> DEFINE board == [r \in 0 .. queens - 1 |-> queen[r]]
  <2>1. /\ solutions' = solutions + 1 /\ reported' = reported \cup {board}
        /\ findall' = findall /\ (~findall => exited')
    BY <1>2 DEF Solution, arguments
  <2>2. board \notin reported
    BY <1>2, SolutionIsNew
  <2> HIDE DEF board
  <2>3. /\ IsFiniteSet(reported')
        /\ Cardinality(reported') = Cardinality(reported) + 1
    BY <2>1, <2>2, FS_AddElement DEF CountInv
  <2>4. QED
    BY <2>1, <2>3 DEF CountInv, CountExact, FirstOnly
<1>3. CASE Place \/ Conflict
  BY <1>1, <1>3 DEF Place, Conflict, arguments
<1>4. CASE Exhausted
  BY <1>1, <1>4 DEF Exhausted, arguments
<1>5. CASE UNCHANGED vars
  BY <1>1, <1>5 DEF vars, arguments
<1>6. QED
  BY <1>2, <1>3, <1>4, <1>5 DEF Next

(* No solution is counted twice: the counter is the number of boards       *)
(* reported.                                                               *)
THEOREM CountIsExact == Spec => []CountExact
<1>1. Init => CountInv
  BY FS_EmptySet DEF Init, CountInv, CountExact, FirstOnly
<1>2. CountInv => CountExact
  BY DEF CountInv
<1>3. QED
  BY <1>1, <1>2, CountStep, StackInvariant, SearchIsExact, PTL DEF Spec

(* The program exits only with the answer it was asked for. *)
LEMMA AnswerStep ==
  ASSUME StackInv, SearchExact, CountInv, Answer, [Next]_vars
  PROVE  Answer'
<1> SUFFICES ASSUME exited'
             PROVE  Answer'
  BY DEF Answer
<1>1. queens \in 1 .. MAXQUEENS /\ queens \in Nat /\ level \in 0 .. queens /\ TypeOK
  BY MaxQueensAssumption DEF StackInv, TypeOK
<1>2. CASE Solution
  <2> DEFINE board == [r \in 0 .. queens - 1 |-> queen[r]]
  <2>1. /\ ~exited /\ level = queens /\ reported' = reported \cup {board}
        /\ queens' = queens /\ findall' = findall
    BY <1>2 DEF Solution, arguments
  <2>2. ~findall
    <3>1. level # 0
      BY <1>1, <2>1
    <3>2. ASSUME findall PROVE exited' = exited
      BY <1>2, <3>1, <3>2 DEF Solution, Return
    <3>3. QED
      BY <2>1, <3>2, Zenon
  <2>3. board \in Solutions[queens]
    BY <1>2, SolutionIsPeaceful
  <2> HIDE DEF board
  <2>4. reported' = {board}
    BY <2>1, <2>2 DEF CountInv, FirstOnly
  <2>5. Cardinality(reported') = 1
    BY <2>4, FS_Singleton
  <2>6. Solutions[queens] # {} /\ reported' \subseteq Solutions[queens]
    BY <2>3, <2>4
  <2>7. QED
    BY <2>1, <2>2, <2>5, <2>6 DEF Answer
<1>3. CASE Place \/ Conflict
  BY <1>3 DEF Place, Conflict
<1>4. CASE Exhausted
  <2>1. /\ ~exited /\ f[level] = queens /\ reported' = reported
        /\ queens' = queens /\ findall' = findall /\ level = 0
    BY <1>4 DEF Exhausted, Return, arguments
  <2>2. ASSUME NEW b \in Solutions[queens]
        PROVE  Passed(b)
    <3>1. 0 \in 0 .. queens - 1 /\ 0 <= level /\ 0 .. 0 - 1 = {}
      BY <1>1, <2>1
    <3>2. b[0] < f[0]
      BY <1>1, <2>1, <3>1 DEF Solutions, Board
    <3>3. QED
      BY <3>1, <3>2 DEF Passed
  <2>3. reported = Solutions[queens]
    BY <2>1, <2>2 DEF SearchExact
  <2>4. ~findall => Cardinality(reported) = 0 /\ reported = {}
    BY <2>1, FS_EmptySet DEF CountInv, FirstOnly
  <2>5. QED
    BY <2>1, <2>3, <2>4 DEF Answer
<1>5. CASE UNCHANGED vars
  BY <1>5 DEF vars, arguments, Answer
<1>6. QED
  BY <1>2, <1>3, <1>4, <1>5 DEF Next

(* When the program ends it has found all solutions, or the one it was     *)
(* asked for if there is any.                                              *)
THEOREM AnswerIsRight == Spec => []Answer
<1>1. Init => CountInv /\ Answer
  BY FS_EmptySet DEF Init, CountInv, CountExact, FirstOnly, Answer
<1>2. QED
  BY <1>1, CountStep, AnswerStep, StackInvariant, SearchIsExact, PTL DEF Spec

(* Every index and counter of the program stays in its range: no array is   *)
(* read or written outside its bounds, on a board of MAXQUEENS ranks too.   *)
THEOREM TypeCorrect == Spec => []TypeOK
<1>1. StackInv => TypeOK
  BY DEF StackInv
<1>2. QED
  BY <1>1, StackInvariant, PTL

(* The owner arrays of find() mirror the queens on the board.               *)
THEOREM OwnersAreExact == Spec => []OwnersExact
<1>1. StackInv => OwnersExact
  BY DEF StackInv
<1>2. QED
  BY <1>1, StackInvariant, PTL
=============================================================================
