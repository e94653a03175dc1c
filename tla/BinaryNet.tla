----------------------------- MODULE BinaryNet ------------------------------
(* The binary network on an RRAM array (src/hw3/binnet_modified): the        *)
(* program that classifies images on the virtual device, and the             *)
(* accelerator that holds the weights of a layer in its array, or with       *)
(* load_once those of all layers at once, each at a place of its own.        *)
(* Writes to the device and commands are atomic here (module PeriDriver has  *)
(* the protocol). The array is without noise.                                *)
EXTENDS Integers, FiniteSets

CONSTANTS
  Size,             \* rows and columns of the array, 1024
  Inputs,           \* pixels, 784
  Hidden1,          \* outputs of the first layer, 64
  Hidden2,          \* outputs of the second layer, 256
  Classes,          \* outputs of the third layer, 10
  Fc1Row, Fc2Row,   \* fc1_row_bias and fc2_row_bias, 10 and 768
  Models,           \* the parameters the program may load from its files
  Pictures,         \* the images it may be given
  BatchNorms,       \* normalisation parameters of an output
  NoNorm,           \* those of an output no layer uses: zeros
  Output(_, _)      \* an output of the array: the products of the nonzero
                    \* weights of its row with their inputs, and the
                    \* normalisation parameters, to a number

Layers == 1 .. 3
Columns == 0 .. Size - 1
InputsOf == <<Inputs, Hidden1, Hidden2>>
OutputsOf == <<Hidden1, Hidden2, Classes>>
InputsTo(l) == 0 .. InputsOf[l] - 1
OutputsFrom(l) == 0 .. OutputsOf[l] - 1
Trits == {-1, 0, 1}

ASSUME LayoutAssumption ==
  /\ {Size, Inputs, Hidden1, Hidden2, Fc1Row, Fc2Row} \subseteq Nat
  /\ Classes \in Nat \ {0}
  /\ Inputs <= Size
  /\ Classes <= Fc1Row
  /\ Fc1Row + Hidden1 <= Fc2Row
  /\ Fc2Row + Hidden2 <= Size

ASSUME ModelAssumption ==
  /\ \A m \in Models, l \in Layers : \A k \in OutputsFrom(l) :
       /\ m.bn[l][k] \in BatchNorms
       /\ \A j \in InputsTo(l) : m.weight[l][k][j] \in Trits

(* A sum of products does not depend on the columns they are in, as long as  *)
(* their order stays.                                                        *)
ASSUME OutputAssumption ==
  \A C \in SUBSET Columns : \A terms \in [C -> Trits], b \in BatchNorms, s \in 0 .. Size :
    Output([c \in {d + s : d \in C} |-> terms[c - s]], b) = Output(terms, b)

VARIABLES
  model,          \* the parameters of this run
  load_once,      \* the option, of the program and of the device
  slot,           \* what weight_and_bias_mem holds for each layer
  array,          \* what was loaded into the array last
  weight_loaded,  \* that something was
  mem1, mem2,     \* the activation memories
  pc,             \* what the program does next
  counter,        \* the counter of the last command
  picture,        \* input_byte
  result          \* the byte read into finalresult[count]

vars == <<model, load_once, slot, array, weight_loaded, mem1, mem2, pc, counter,
          picture, result>>

(* The matrices fc1_w to fc3_w and fc_w, and nothing.                        *)
Packed == 4
Nothing == 0
NoPicture == [j \in InputsTo(1) |-> 0]

-----------------------------------------------------------------------------
(* load_weights(): where the layers are.                                     *)

RowBias == <<Fc1Row, Fc2Row, 0>>

(* Mutant: the second layer reads the first columns.                         *)
ColBias_Unshifted == <<0, 0, Fc2Row>>

ColBias == <<0, Fc1Row, Fc2Row>>

Rows(l) == RowBias[l] .. RowBias[l] + OutputsOf[l] - 1
Cols(l) == ColBias[l] .. ColBias[l] + InputsOf[l] - 1

WeightOf(l, r, c) == model.weight[l][r - RowBias[l]][c - ColBias[l]]
Holds(l, r, c) == r \in Rows(l) /\ c \in Cols(l)

Later(layers) == CHOOSE l \in layers : \A k \in layers : k <= l

(* A weight of matrix fc1_w to fc3_w, or of fc_w, into which they are copied *)
(* one after the other.                                                      *)
LayersAt(which, r, c) == {l \in Layers : which \in {l, Packed} /\ Holds(l, r, c)}
Weight(which, r, c) ==
  IF LayersAt(which, r, c) = {} THEN 0 ELSE WeightOf(Later(LayersAt(which, r, c)), r, c)

LayersOn(which, r) == {l \in Layers : which \in {l, Packed} /\ r \in Rows(l)}
NormOf(l, r) == model.bn[l][r - RowBias[l]]
Norm(which, r) ==
  IF LayersOn(which, r) = {} THEN NoNorm ELSE NormOf(Later(LayersOn(which, r)), r)

-----------------------------------------------------------------------------
(* The accelerator.                                                          *)

(* RRAM_Array::calculate() and sign().                                       *)
Calculate(which, x) ==
  [r \in Columns |->
     Output([c \in {d \in Columns : Weight(which, r, d) # 0} |-> Weight(which, r, c) * x[c]],
            Norm(which, r))]

Sign(v) == IF v > 0 THEN 1 ELSE IF v < 0 THEN -1 ELSE 0

(* std::max_element() on the first outputs.                                  *)
MaxElement(v) ==
  CHOOSE k \in OutputsFrom(3) : \A j \in OutputsFrom(3) :
    v[j] <= v[k] /\ (j < k => v[j] < v[k])

OpInput ==
  /\ mem1' = [c \in Columns |-> IF c < Inputs THEN (IF mem2[c] > 0 THEN 1 ELSE 0) ELSE mem1[c]]
  /\ UNCHANGED <<array, weight_loaded, mem2>>

(* Mutant: the other layers load too, the default of op_fc_calculate().      *)
Loads_Default(l) == ~load_once \/ l # 1 \/ ~weight_loaded

(* With load_once, the weights are loaded by the first layer, once.          *)
Loads(l) == ~load_once \/ (l = 1 /\ ~weight_loaded)

OpFc(l) ==
  /\ array' = IF Loads(l) THEN slot[l] ELSE array
  /\ weight_loaded' = (weight_loaded \/ l = 1)
  /\ mem2' = Calculate(array', mem1)
  /\ UNCHANGED mem1

OpSign ==
  /\ mem1' = [c \in Columns |-> Sign(mem2[c])]
  /\ UNCHANGED <<array, weight_loaded, mem2>>

(* The label goes into the first byte of activation_mem1.                    *)
OpOutput ==
  /\ mem1' = [mem1 EXCEPT ![0] = MaxElement([k \in OutputsFrom(3) |-> mem2[k]])]
  /\ UNCHANGED <<array, weight_loaded, mem2>>

(* AIChip::run().                                                            *)
Run(n) ==
  \/ n = 1 /\ OpInput
  \/ \E l \in Layers : n = 2 * l /\ OpFc(l)
  \/ n \in {3, 5} /\ OpSign
  \/ n = 7 /\ OpOutput

-----------------------------------------------------------------------------
(* main().                                                                   *)

Init ==
  /\ model \in Models
  /\ load_once \in BOOLEAN
  /\ slot = [l \in Layers |-> Nothing]
  /\ array = Nothing
  /\ weight_loaded = FALSE
  /\ mem1 = [c \in Columns |-> 0]
  /\ mem2 = [c \in Columns |-> 0]
  /\ pc = "weights"
  /\ counter = 0
  /\ picture = NoPicture
  /\ result = 0

(* The periWrite() calls for the weights.                                    *)
SendWeights ==
  /\ pc = "weights"
  /\ slot' = IF load_once THEN [l \in Layers |-> IF l = 1 THEN Packed ELSE Nothing]
             ELSE [l \in Layers |-> l]
  /\ pc' = "image"
  /\ UNCHANGED <<model, load_once, array, weight_loaded, mem1, mem2, counter, picture, result>>

(* The next image, at the start of activation_mem2, as bytes.                *)
SendPicture(p) ==
  /\ pc = "image"
  /\ picture' = p
  /\ mem2' = p
  /\ counter' = 0
  /\ pc' = "run"
  /\ UNCHANGED <<model, load_once, slot, array, weight_loaded, mem1, result>>

(* periInit() for 1 to 7.                                                    *)
RunNext ==
  /\ pc = "run"
  /\ counter' = counter + 1
  /\ Run(counter')
  /\ pc' = IF counter' = 7 THEN "read" ELSE "run"
  /\ UNCHANGED <<model, load_once, slot, picture, result>>

ReadResult ==
  /\ pc = "read"
  /\ result' = mem1[0]
  /\ pc' = "image"
  /\ UNCHANGED <<model, load_once, slot, array, weight_loaded, mem1, mem2, counter, picture>>

Next ==
  \/ SendWeights
  \/ \E p \in Pictures : SendPicture(p)
  \/ RunNext
  \/ ReadResult

Spec == Init /\ [][Next]_vars

-----------------------------------------------------------------------------
(* The network itself, without an array.                                     *)
Layer(l, x) ==
  [k \in OutputsFrom(l) |->
     Output([j \in {i \in InputsTo(l) : model.weight[l][k][i] # 0} |->
               model.weight[l][k][j] * x[j]],
            model.bn[l][k])]

Signs(l, v) == [k \in OutputsFrom(l) |-> Sign(v[k])]
Bits(p) == [j \in InputsTo(1) |-> IF p[j] > 0 THEN 1 ELSE 0]

Fc1(p) == Layer(1, Bits(p))
Fc2(p) == Layer(2, Signs(1, Fc1(p)))
Fc3(p) == Layer(3, Signs(2, Fc2(p)))

(* Each operation finds what it needs where it looks: the part of an         *)
(* activation memory that belongs to a layer holds what the network computes *)
(* for this image, whatever earlier images and other layers left around it.  *)
ActivationsRight ==
  /\ pc = "run" /\ counter = 1 => \A j \in InputsTo(1) : mem1[j] = Bits(picture)[j]
  /\ pc = "run" /\ counter = 2 => \A r \in Rows(1) : mem2[r] = Fc1(picture)[r - Fc1Row]
  /\ pc = "run" /\ counter = 3 => \A r \in Rows(1) : mem1[r] = Sign(Fc1(picture)[r - Fc1Row])
  /\ pc = "run" /\ counter = 4 => \A r \in Rows(2) : mem2[r] = Fc2(picture)[r - Fc2Row]
  /\ pc = "run" /\ counter = 5 => \A r \in Rows(2) : mem1[r] = Sign(Fc2(picture)[r - Fc2Row])
  /\ pc = "run" /\ counter = 6 => \A r \in Rows(3) : mem2[r] = Fc3(picture)[r]

(* The label the program reads is that of the network for the image it sent, *)
(* with the weights loaded once as well as before each layer                 *)
(* (report3.md:204 claims it from the output of one experiment).             *)
LabelRight ==
  pc = "image" /\ counter = 7 => result = MaxElement(Fc3(picture))
=============================================================================
