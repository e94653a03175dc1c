------------------------------- MODULE Queens -------------------------------
(***************************************************************************)
(* hw1/queens.c: the recursive search that places one queen per rank and   *)
(* keeps, for every file and diagonal, the queen that owns it.  Each frame *)
(* of find() on the stack is a level with its loop variable f; a step is   *)
(* one iteration of the loop, a recursive call with it, or a return to the *)
(* caller with the statements that follow the call there.                  *)
(***************************************************************************)
EXTENDS Integers, FiniteSets

CONSTANT MAXQUEENS   (* 100 in the source *)

ASSUME MaxQueensAssumption == MAXQUEENS \in Nat \ {0}

EMPTY == MAXQUEENS + 1          \* marks an unoccupied file or diagonal
MAXDIAGS == MAXQUEENS + MAXQUEENS - 1

Files == 0 .. MAXQUEENS - 1
Diagonals == 0 .. MAXDIAGS - 1

VARIABLES
  queens,    (* command line: size of the board                             *)
  findall,   (* command line: search all solutions                          *)
  level,     (* level of the innermost find() on the stack                  *)
  f,         (* the loop variable of each level's frame                     *)
  queen,     (* file on which each queen is located                         *)
  file,      (* which queen owns each file                                  *)
  fordiag,   (* which queen owns each forward diagonal                      *)
  bakdiag,   (* which queen owns each reverse diagonal                      *)
  solutions, (* the counter                                                 *)
  reported,  (* history: the boards counted, and printed unless -c is given *)
  exited

owners == <<file, fordiag, bakdiag>>
arguments == <<queens, findall>>
vars == <<arguments, level, f, queen, owners, solutions, reported, exited>>

Board(n) == [0 .. n - 1 -> 0 .. n - 1]

TypeOK ==
  /\ queens \in 1 .. MAXQUEENS
  /\ findall \in BOOLEAN
  /\ level \in 0 .. queens
  /\ f \in [0 .. MAXQUEENS -> 0 .. queens]
  /\ queen \in [Files -> Files]
  /\ file \in [Files -> 0 .. EMPTY]
  /\ fordiag \in [Diagonals -> 0 .. EMPTY]
  /\ bakdiag \in [Diagonals -> 0 .. EMPTY]
  /\ solutions \in Nat
  /\ reported \subseteq Board(queens)
  /\ exited \in BOOLEAN

(* main() up to find(0), for every argument it accepts. *)
Init ==
  /\ queens \in 1 .. MAXQUEENS
  /\ findall \in BOOLEAN
  /\ level = 0
  /\ f = [l \in 0 .. MAXQUEENS |-> 0]
  /\ queen = [r \in Files |-> 0]
  /\ file = [c \in Files |-> EMPTY]
  /\ fordiag = [d \in Diagonals |-> EMPTY]
  /\ bakdiag = [d \in Diagonals |-> EMPTY]
  /\ solutions = 0
  /\ reported = {}
  /\ exited = FALSE

-----------------------------------------------------------------------------
(* The diagonals of the square on rank r and file c. *)
Forward(r, c) == r + c
Backward(r, c) == r + queens - 1 - c

(* Mutant: the test looks at the owners of the file and one diagonal only. *)
Free_OneDiagonal(r, c) == file[c] >= r /\ fordiag[Forward(r, c)] >= r

(* The conflict test of level r. *)
Free(r, c) ==
  /\ file[c] >= r
  /\ fordiag[Forward(r, c)] >= r
  /\ bakdiag[Backward(r, c)] >= r

(* Mutant: the reverse diagonal keeps its old owner. *)
Own_NotBackward(r, c, owner) ==
  /\ file' = [file EXCEPT ![c] = owner]
  /\ fordiag' = [fordiag EXCEPT ![Forward(r, c)] = owner]
  /\ UNCHANGED bakdiag

(* *fp = *fdp = *bdp = owner *)
Own(r, c, owner) ==
  /\ file' = [file EXCEPT ![c] = owner]
  /\ fordiag' = [fordiag EXCEPT ![Forward(r, c)] = owner]
  /\ bakdiag' = [bakdiag EXCEPT ![Backward(r, c)] = owner]

(* Mutants: the caller's loop goes on with the same file, or skips one; the *)
(* queen that is taken back keeps its file and diagonals.                   *)
Return_SameFile ==
  IF level = 0 THEN /\ exited' = TRUE
                    /\ UNCHANGED <<level, f, owners>>
  ELSE /\ level' = level - 1
       /\ Own(level - 1, f[level - 1], EMPTY)
       /\ UNCHANGED <<f, exited>>
Return_SkipFile ==
  IF level = 0 THEN /\ exited' = TRUE
                    /\ UNCHANGED <<level, f, owners>>
  ELSE /\ level' = level - 1
       /\ Own(level - 1, f[level - 1], EMPTY)
       /\ f' = [f EXCEPT ![level - 1] = @ + 2]
       /\ UNCHANGED exited
Return_KeepOwners ==
  IF level = 0 THEN /\ exited' = TRUE
                    /\ UNCHANGED <<level, f, owners>>
  ELSE /\ level' = level - 1
       /\ f' = [f EXCEPT ![level - 1] = @ + 1]
       /\ UNCHANGED <<owners, exited>>

(* find() returns: its caller takes the queen back and goes on with the     *)
(* next file; from level 0, main() reports and exits.                       *)
Return ==
  IF level = 0 THEN /\ exited' = TRUE
                    /\ UNCHANGED <<level, f, owners>>
  ELSE /\ level' = level - 1
       /\ Own(level - 1, f[level - 1], EMPTY)
       /\ f' = [f EXCEPT ![level - 1] = @ + 1]
       /\ UNCHANGED exited

(* All queens are placed: count, and stop unless all solutions are wanted. *)
Solution ==
  /\ ~exited
  /\ level = queens
  /\ solutions' = solutions + 1
  /\ reported' = reported \cup {[r \in 0 .. queens - 1 |-> queen[r]]}
  /\ IF findall THEN Return
     ELSE exited' = TRUE /\ UNCHANGED <<level, f, owners>>
  /\ UNCHANGED <<arguments, queen>>

(* The queen of this level fits on file f: find(level + 1). *)
Place ==
  /\ ~exited
  /\ level < queens /\ f[level] < queens
  /\ Free(level, f[level])
  /\ queen' = [queen EXCEPT ![level] = f[level]]
  /\ Own(level, f[level], level)
  /\ level' = level + 1
  /\ f' = [f EXCEPT ![level + 1] = 0]
  /\ UNCHANGED <<arguments, solutions, reported, exited>>

(* Mutant: the loop does not advance. *)
Conflict_NoAdvance ==
  /\ ~exited
  /\ level < queens /\ f[level] < queens
  /\ ~Free(level, f[level])
  /\ UNCHANGED vars

(* The square is attacked: the loop goes on. *)
Conflict ==
  /\ ~exited
  /\ level < queens /\ f[level] < queens
  /\ ~Free(level, f[level])
  /\ f' = [f EXCEPT ![level] = @ + 1]
  /\ UNCHANGED <<arguments, level, queen, owners, solutions, reported, exited>>

(* The loop has been through all files. *)
Exhausted ==
  /\ ~exited
  /\ level < queens /\ f[level] = queens
  /\ Return
  /\ UNCHANGED <<arguments, queen, solutions, reported>>

Next == Solution \/ Place \/ Conflict \/ Exhausted

Spec == Init /\ [][Next]_vars

(* A sequential program runs on. *)
FairSpec == Spec /\ WF_vars(Next)

-----------------------------------------------------------------------------
(* The problem: a queen on every rank, and no two on a file or a diagonal. *)
Peaceful(b, n) ==
  \A i, j \in 0 .. n - 1 :
    i < j => b[i] # b[j] /\ b[j] - b[i] # j - i /\ b[i] - b[j] # j - i

Solutions == [n \in 1 .. MAXQUEENS |-> {b \in Board(n) : Peaceful(b, n)}]

(* Board b comes, in the order of the search, before the search's position. *)
Passed(b) ==
  \E k \in 0 .. queens - 1 :
    /\ k <= level
    /\ \A i \in 0 .. k - 1 : b[i] = f[i]
    /\ b[k] < f[k]

(* An array of owners names the queens by what they own: key[i] is what the *)
(* queen of rank i owns.                                                    *)
Mirrors(owner, key) ==
  /\ \A i \in DOMAIN key : owner[key[i]] = i
  /\ \A s \in DOMAIN owner :
       owner[s] # EMPTY => owner[s] \in DOMAIN key /\ key[owner[s]] = s

(* The owner arrays mirror the queens on the board: the queen of rank i     *)
(* owns its file and diagonals, and nothing else is owned.  The test        *)
(* *fp >= level in find() takes an owner deeper than level for free; after  *)
(* every retreat there must be none.                                        *)
OwnersExact ==
  ~exited =>
    /\ \A i \in 0 .. level - 1 : queen[i] = f[i]
    /\ Mirrors(file, [i \in 0 .. level - 1 |-> f[i]])
    /\ Mirrors(fordiag, [i \in 0 .. level - 1 |-> Forward(i, f[i])])
    /\ Mirrors(bakdiag, [i \in 0 .. level - 1 |-> Backward(i, f[i])])

(* What has been reported so far are exactly the solutions the search has   *)
(* passed: pruning loses none, and no board that is not one is counted.     *)
SearchExact ==
  ~exited => reported = {b \in Solutions[queens] : Passed(b)}

(* No solution is counted twice. *)
CountExact == solutions = Cardinality(reported)

(* With -a or -c the program ends with all solutions; without, it stops at  *)
(* the first one if there is one.                                           *)
Answer ==
  exited =>
    IF findall THEN reported = Solutions[queens]
    ELSE /\ reported \subseteq Solutions[queens]
         /\ Cardinality(reported) = IF Solutions[queens] = {} THEN 0 ELSE 1

(* The search ends. *)
Terminates == <>exited
=============================================================================
