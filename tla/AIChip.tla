------------------------------- MODULE AIChip -------------------------------
(***************************************************************************)
(* The accelerator inside the virtual device (src/vdev/SimpleCNN): which   *)
(* activation memory each operation reads and writes, and which parameter  *)
(* arrays it uses.  The arithmetic is abstracted: a memory holds           *)
(* <<i, c>>, image i after operation c (0: the raw image), or Garbage.     *)
(***************************************************************************)
EXTENDS Naturals

Operations == 1 .. 10            \* counter values 1 to 10; 0 is op_init
Activations == 1 .. 2            \* activation_mem1, activation_mem2
ParameterArrays == 8             \* kernel and bias of four layers

Garbage == <<0, 0>>
Content(images) == (images \X (0 .. 10)) \cup {Garbage}

(* The activation memory operation c reads, through the names op_init made. *)
Source(c) ==
  CASE c \in {2, 4, 6, 8, 10} -> 1
    [] c \in {1, 3, 5, 7, 9} -> 2

(* Mutant: the second convolution writes the memory it reads. *)
Target_InPlace(c) ==
  CASE c \in {1, 3, 5, 6, 7, 9, 10} -> 1
    [] c \in {2, 4, 8} -> 2

(* The activation memory operation c writes; the output operation puts the *)
(* label into the first byte of activation_mem1.                           *)
Target(c) ==
  CASE c \in {1, 3, 5, 7, 9, 10} -> 1
    [] c \in {2, 4, 6, 8} -> 2

(* conv2d, conv2d_1, dense and dense_1 need their kernel and bias, which    *)
(* weight_and_bias_mem holds in this order.                                 *)
ArraysNeeded(c) ==
  CASE c = 3 -> 2
    [] c = 6 -> 4
    [] c = 8 -> 6
    [] c = 9 -> 8
    [] OTHER -> 0

(* Operation c on the activation memories mem, with the first loaded        *)
(* parameter arrays in weight_and_bias_mem.                                 *)
Operate(c, mem, loaded) ==
  LET input == mem[Source(c)]
      valid == input # Garbage /\ input[2] = c - 1 /\ ArraysNeeded(c) <= loaded
  IN  [mem EXCEPT ![Target(c)] = IF valid THEN <<input[1], c>> ELSE Garbage]
=============================================================================
