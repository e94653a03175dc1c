------------------------- MODULE BinaryNet_proofs ---------------------------
(* For an array and layers of any size, any parameters and any images: the   *)
(* label is that of the network. The argument: no two layers share a row, so *)
(* the rows of a layer are in the packed matrix what they are in its own;    *)
(* a row has nonzero weights only in the columns of its layer, so what is in *)
(* the other columns does not matter; and the columns of a layer are the     *)
(* rows of the one before.                                                   *)
EXTENDS BinaryNet, TLAPS

(* The layers are inside the array ...                                       *)
LEMMA Inside ==
  ASSUME NEW l \in Layers
  PROVE  /\ ColBias[l] \in Nat /\ RowBias[l] \in Nat
         /\ InputsOf[l] \in Nat /\ OutputsOf[l] \in Nat /\ Size \in Nat
         /\ ColBias[l] + InputsOf[l] <= Size
         /\ RowBias[l] + OutputsOf[l] <= Size
<1>1. CASE l = 1  BY <1>1, LayoutAssumption DEF ColBias, RowBias, InputsOf, OutputsOf
<1>2. CASE l = 2  BY <1>2, LayoutAssumption DEF ColBias, RowBias, InputsOf, OutputsOf
<1>3. CASE l = 3  BY <1>3, LayoutAssumption DEF ColBias, RowBias, InputsOf, OutputsOf
<1> QED  BY <1>1, <1>2, <1>3 DEF Layers

(* ... and no two of them have a row in common.                              *)
LEMMA RowsDisjoint ==
  ASSUME NEW l \in Layers, NEW k \in Layers, NEW r, r \in Rows(l), r \in Rows(k)
  PROVE  l = k
<1>1. {Classes, Hidden1, Hidden2, Fc1Row, Fc2Row} \subseteq Nat
  BY LayoutAssumption
<1>2. r \in Rows(1) => r >= Fc1Row /\ r < Fc2Row
  BY <1>1, LayoutAssumption DEF Rows, RowBias, OutputsOf
<1>3. r \in Rows(2) => r >= Fc2Row
  BY <1>1, LayoutAssumption DEF Rows, RowBias, OutputsOf
<1>4. r \in Rows(3) => r < Fc1Row
  BY <1>1, LayoutAssumption DEF Rows, RowBias, OutputsOf
<1>5. r \in Int
  BY <1>1, Inside DEF Rows
<1> QED  BY <1>1, <1>2, <1>3, <1>4, <1>5, LayoutAssumption DEF Layers

(* The later of one layer is that layer.                                     *)
LEMMA LaterOfOne ==
  ASSUME NEW l \in Layers
  PROVE  Later({l}) = l
BY DEF Later, Layers

(* A row of a layer is the same in the matrix of the layer and in the packed *)
(* one: zero outside the columns of the layer.                               *)
LEMMA RowOfLayer ==
  ASSUME NEW l \in Layers, NEW which \in {l, Packed}, NEW r \in Rows(l), NEW c
  PROVE  Weight(which, r, c) = IF c \in Cols(l) THEN WeightOf(l, r, c) ELSE 0
<1>1. \A k \in LayersAt(which, r, c) : k = l
  BY RowsDisjoint DEF LayersAt, Holds
<1>2. c \in Cols(l) <=> l \in LayersAt(which, r, c)
  BY DEF LayersAt, Holds
<1>3. CASE c \in Cols(l)
  <2>1. LayersAt(which, r, c) = {l}
    BY <1>1, <1>2, <1>3
  <2> QED  BY <1>3, <2>1, LaterOfOne DEF Weight
<1>4. CASE c \notin Cols(l)
  BY <1>1, <1>2, <1>4 DEF Weight
<1> QED  BY <1>3, <1>4

(* So is its normalisation.                                                  *)
LEMMA NormOfLayer ==
  ASSUME NEW l \in Layers, NEW which \in {l, Packed}, NEW r \in Rows(l)
  PROVE  Norm(which, r) = model.bn[l][r - RowBias[l]]
<1>1. LayersOn(which, r) = {l}
  BY RowsDisjoint DEF LayersOn
<1> QED  BY <1>1, LaterOfOne DEF Norm, NormOf

(* With its weights in the array, alone or packed, and its inputs in its     *)
(* columns, a layer has its outputs in its rows.                             *)
LEMMA LayerComputed ==
  ASSUME model \in Models,
         NEW l \in Layers, NEW which \in {l, Packed}, NEW x, NEW y,
         \A j \in InputsTo(l) : y[j] \in Trits /\ x[j + ColBias[l]] = y[j],
         NEW r \in Rows(l)
  PROVE  Calculate(which, x)[r] = Layer(l, y)[r - RowBias[l]]
<1> DEFINE k == r - RowBias[l]
           s == ColBias[l]
           D == {j \in InputsTo(l) : model.weight[l][k][j] # 0}
           terms == [j \in D |-> model.weight[l][k][j] * y[j]]
           C == {d \in Columns : Weight(which, r, d) # 0}
           products == [c \in C |-> Weight(which, r, c) * x[c]]
<1>1. /\ s \in Nat /\ RowBias[l] \in Nat /\ Size \in Nat
      /\ InputsOf[l] \in Nat /\ OutputsOf[l] \in Nat
      /\ s + InputsOf[l] <= Size /\ RowBias[l] + OutputsOf[l] <= Size
  BY Inside
<1>2. k \in OutputsFrom(l) /\ r \in Columns
  BY <1>1 DEF Rows, OutputsFrom, Columns
<1>3. /\ model.bn[l][k] \in BatchNorms
      /\ \A j \in InputsTo(l) : model.weight[l][k][j] \in Trits
  BY <1>2, ModelAssumption
<1>4. D \in SUBSET Columns /\ s \in 0 .. Size
  BY <1>1 DEF InputsTo, Columns
<1>5. terms \in [D -> Trits]
  <2> SUFFICES ASSUME NEW j \in D PROVE model.weight[l][k][j] * y[j] \in Trits
    OBVIOUS
  <2>1. model.weight[l][k][j] \in Trits /\ y[j] \in Trits
    BY <1>3
  <2> QED  BY <2>1 DEF Trits
<1>6. \A c \in Columns : Weight(which, r, c) =
        IF c \in Cols(l) THEN model.weight[l][k][c - s] ELSE 0
  BY RowOfLayer DEF WeightOf
<1>7. C = {d + s : d \in D}
  <2>1. ASSUME NEW c \in C PROVE c \in {d + s : d \in D}
    <3>1. c \in Columns /\ c \in Cols(l) /\ model.weight[l][k][c - s] # 0
      BY <2>1, <1>6
    <3>2. c - s \in InputsTo(l) /\ c = (c - s) + s
      BY <3>1, <1>1 DEF Cols, InputsTo, Columns
    <3> QED  BY <3>1, <3>2
  <2>2. ASSUME NEW d \in D PROVE d + s \in C
    <3>1. d + s \in Columns /\ d + s \in Cols(l) /\ (d + s) - s = d
      BY <1>1 DEF Cols, InputsTo, Columns
    <3> QED  BY <3>1, <1>6
  <2> QED  BY <2>1, <2>2
<1>8. products = [c \in {d + s : d \in D} |-> terms[c - s]]
  <2> SUFFICES ASSUME NEW c \in C
               PROVE  Weight(which, r, c) * x[c] = terms[c - s]
    BY <1>7
  <2>1. PICK d \in D : c = d + s
    BY <1>7
  <2>2. d \in InputsTo(l) /\ d + s \in Columns /\ d + s \in Cols(l) /\ (d + s) - s = d
    BY <1>1, <2>1 DEF Cols, InputsTo, Columns
  <2>3. Weight(which, r, c) = model.weight[l][k][d] /\ x[c] = y[d]
    BY <2>1, <2>2, <1>6
  <2> QED  BY <2>1, <2>2, <2>3
<1>9. Output(products, model.bn[l][k]) = Output(terms, model.bn[l][k])
  <2> HIDE DEF terms, D, s, products, k
  <2> QED  BY <1>3, <1>4, <1>5, <1>8, OutputAssumption
<1>10. Calculate(which, x)[r] = Output(products, model.bn[l][k])
  BY <1>2, NormOfLayer DEF Calculate
<1>11. Layer(l, y)[k] = Output(terms, model.bn[l][k])
  BY <1>2 DEF Layer
<1> QED  BY <1>9, <1>10, <1>11

-----------------------------------------------------------------------------
(* The program goes through its steps in order.                              *)
OrderInv ==
  /\ model \in Models
  /\ load_once \in BOOLEAN /\ weight_loaded \in BOOLEAN
  /\ pc \in {"weights", "image", "run", "read"}
  /\ counter \in 0 .. 7
  /\ pc = "weights" => counter = 0
  /\ pc = "run" => counter < 7
  /\ pc = "image" => counter \in {0, 7}
  /\ pc = "read" => counter = 7

(* The array has the packed matrix from the first layer on, if it is loaded  *)
(* once.                                                                     *)
WeightsInv ==
  /\ pc # "weights" => \A l \in Layers :
       slot[l] = IF ~load_once THEN l ELSE IF l = 1 THEN Packed ELSE Nothing
  /\ load_once /\ weight_loaded => pc # "weights" /\ array = Packed
  /\ pc = "run" /\ counter >= 2 => weight_loaded

(* What is in the activation memories between the layers.                    *)
EndsInv ==
  /\ mem1 = [c \in Columns |-> mem1[c]]
  /\ pc = "run" /\ counter = 0 => mem2 = picture
  /\ pc = "read" => mem1[0] = MaxElement(Fc3(picture))

NetInv == OrderInv /\ WeightsInv /\ EndsInv /\ ActivationsRight /\ LabelRight

(* The invariant holds in the beginning.                                     *)
LEMMA NetStarts == Init => NetInv
<1> SUFFICES ASSUME Init PROVE NetInv
  OBVIOUS
<1> USE DEF Init
<1>1. OrderInv
  <2>1. load_once \in BOOLEAN /\ weight_loaded \in BOOLEAN  BY Zenon
  <2> QED  BY <2>1 DEF OrderInv
<1>2. WeightsInv  BY DEF WeightsInv
<1>3. EndsInv
  <2>1. mem1 = [c \in Columns |-> mem1[c]]  BY Zenon
  <2> QED  BY <2>1 DEF EndsInv
<1>4. ActivationsRight /\ LabelRight  BY DEF ActivationsRight, LabelRight
<1> QED  BY <1>1, <1>2, <1>3, <1>4 DEF NetInv

(* Whatever the mode, layer l finds its weights in the array.                *)
LEMMA ArrayHolds ==
  ASSUME NetInv, RunNext, NEW l \in Layers, counter' = 2 * l, OpFc(l)
  PROVE  /\ array' \in {l, Packed}
         /\ weight_loaded'
         /\ load_once => array' = Packed
<1>1. /\ pc = "run" /\ counter = 2 * l - 1
      /\ load_once \in BOOLEAN /\ weight_loaded \in BOOLEAN
  BY DEF NetInv, OrderInv, RunNext, Layers
<1>2. slot[l] = IF ~load_once THEN l ELSE IF l = 1 THEN Packed ELSE Nothing
  BY <1>1 DEF NetInv, WeightsInv
<1>3. l # 1 => weight_loaded
  BY <1>1 DEF NetInv, WeightsInv, Layers
<1>4. load_once /\ weight_loaded => array = Packed
  BY DEF NetInv, WeightsInv
<1>5. array' = (IF Loads(l) THEN slot[l] ELSE array) /\ weight_loaded' = (weight_loaded \/ l = 1)
  BY DEF OpFc
<1>6. weight_loaded'
  BY <1>1, <1>3, <1>5
<1>7. CASE load_once
  BY <1>2, <1>3, <1>4, <1>5, <1>6, <1>7 DEF Loads
<1>8. CASE ~load_once
  BY <1>2, <1>5, <1>6, <1>8 DEF Loads
<1> QED  BY <1>1, <1>7, <1>8

(* The network is the same before and after a step that changes neither the  *)
(* parameters nor the image.                                                 *)
LEMMA SameNet ==
  ASSUME model' = model, picture' = picture
  PROVE  /\ Fc1(picture)' = Fc1(picture)
         /\ Fc2(picture)' = Fc2(picture)
         /\ Fc3(picture)' = Fc3(picture)
         /\ Bits(picture)' = Bits(picture)
BY DEF Fc1, Fc2, Fc3, Layer, Signs, Bits

(* Signs and bits are inputs a layer can have.                               *)
LEMMA SignIsTrit == ASSUME NEW v PROVE Sign(v) \in Trits
BY DEF Sign, Trits

(* Each layer computes its part of the network.                              *)
LEMMA LayerStep ==
  ASSUME NetInv, RunNext, NEW l \in Layers, counter' = 2 * l, OpFc(l)
  PROVE  \A r \in Rows(l) :
           mem2'[r] = (CASE l = 1 -> Fc1(picture)
                         [] l = 2 -> Fc2(picture)
                         [] l = 3 -> Fc3(picture))[r - RowBias[l]]
<1> DEFINE y == CASE l = 1 -> Bits(picture)
                  [] l = 2 -> Signs(1, Fc1(picture))
                  [] l = 3 -> Signs(2, Fc2(picture))
<1>1. pc = "run" /\ counter = 2 * l - 1 /\ model' = model /\ model \in Models
  BY DEF NetInv, OrderInv, RunNext, Layers
<1>2. mem2' = Calculate(array', mem1) /\ array' \in {l, Packed}
  BY ArrayHolds DEF OpFc
<1>3. \A j \in InputsTo(l) : y[j] \in Trits /\ mem1[j + ColBias[l]] = y[j]
  <2>1. CASE l = 1
    <3>1. \A j \in InputsTo(1) : mem1[j] = Bits(picture)[j] /\ j + 0 = j
      BY <1>1, <2>1, Inside DEF NetInv, ActivationsRight, InputsTo
    <3>2. \A j \in InputsTo(1) : Bits(picture)[j] \in Trits
      BY DEF Bits, Trits
    <3> QED  BY <2>1, <3>1, <3>2 DEF ColBias
  <2>2. CASE l = 2
    <3>1. \A r \in Rows(1) : mem1[r] = Sign(Fc1(picture)[r - Fc1Row])
      BY <1>1, <2>2 DEF NetInv, ActivationsRight
    <3>2. ASSUME NEW j \in InputsTo(2)
          PROVE  j + Fc1Row \in Rows(1) /\ (j + Fc1Row) - Fc1Row = j /\ j \in OutputsFrom(1)
      BY LayoutAssumption DEF InputsTo, InputsOf, OutputsOf, OutputsFrom, Rows, RowBias
    <3>3. \A j \in OutputsFrom(1) : Signs(1, Fc1(picture))[j] = Sign(Fc1(picture)[j])
      BY DEF Signs
    <3> QED  BY <2>2, <3>1, <3>2, <3>3, SignIsTrit DEF ColBias
  <2>3. CASE l = 3
    <3>1. \A r \in Rows(2) : mem1[r] = Sign(Fc2(picture)[r - Fc2Row])
      BY <1>1, <2>3 DEF NetInv, ActivationsRight
    <3>2. ASSUME NEW j \in InputsTo(3)
          PROVE  j + Fc2Row \in Rows(2) /\ (j + Fc2Row) - Fc2Row = j /\ j \in OutputsFrom(2)
      BY LayoutAssumption DEF InputsTo, InputsOf, OutputsOf, OutputsFrom, Rows, RowBias
    <3>3. \A j \in OutputsFrom(2) : Signs(2, Fc2(picture))[j] = Sign(Fc2(picture)[j])
      BY DEF Signs
    <3> QED  BY <2>3, <3>1, <3>2, <3>3, SignIsTrit DEF ColBias
  <2> QED  BY <2>1, <2>2, <2>3 DEF Layers
<1>4. ASSUME NEW r \in Rows(l)
      PROVE  mem2'[r] = Layer(l, y)[r - RowBias[l]]
  <2>1. ASSUME NEW which \in {l, Packed}
        PROVE  Calculate(which, mem1)[r] = Layer(l, y)[r - RowBias[l]]
    <3> HIDE DEF y
    <3> QED  BY <1>1, <1>3, LayerComputed
  <2>2. Calculate(array', mem1)[r] = Layer(l, y)[r - RowBias[l]]
    BY <2>1, <1>2
  <2> QED  BY <1>2, <2>2
<1>5. CASE l = 1  BY <1>4, <1>5 DEF Fc1
<1>6. CASE l = 2  BY <1>4, <1>6 DEF Fc2
<1>7. CASE l = 3  BY <1>4, <1>7 DEF Fc3
<1> QED  BY <1>5, <1>6, <1>7 DEF Layers

(* Every operation of the accelerator keeps the invariant.                   *)
LEMMA RunKeeps ==
  ASSUME NetInv, RunNext
  PROVE  NetInv'
<1>1. /\ pc = "run" /\ counter \in 0 .. 6 /\ counter' = counter + 1
      /\ Run(counter')
      /\ pc' = IF counter' = 7 THEN "read" ELSE "run"
      /\ model' = model /\ load_once' = load_once /\ slot' = slot
      /\ picture' = picture /\ result' = result
  BY DEF NetInv, OrderInv, RunNext
<1>2. /\ Fc1(picture)' = Fc1(picture) /\ Fc2(picture)' = Fc2(picture)
      /\ Fc3(picture)' = Fc3(picture) /\ Bits(picture)' = Bits(picture)
  BY <1>1, SameNet
<1>3. ASSUME weight_loaded' \in BOOLEAN PROVE OrderInv'
  BY <1>1, <1>3 DEF NetInv, OrderInv
<1>4. ASSUME UNCHANGED <<array, weight_loaded>>, counter # 1 PROVE OrderInv' /\ WeightsInv'
  <2>1. weight_loaded' \in BOOLEAN
    BY <1>4 DEF NetInv, OrderInv
  <2>2. WeightsInv'
    BY <1>1, <1>4 DEF NetInv, WeightsInv
  <2> QED  BY <2>1, <2>2, <1>3
<1>5. LabelRight'
  BY <1>1 DEF LabelRight
<1>6. {Classes, Hidden1, Hidden2, Fc1Row, Fc2Row, Inputs, Size} \subseteq Nat
  BY LayoutAssumption
<1>7. CASE counter' = 1
  <2>1. OpInput
    BY <1>1, <1>7 DEF Run, Layers
  <2>2. mem2 = picture
    BY <1>1, <1>7 DEF NetInv, EndsInv
  <2>3. \A j \in InputsTo(1) : j \in Columns /\ j < Inputs
    BY <1>6, LayoutAssumption DEF InputsTo, InputsOf, Columns
  <2>4. \A j \in InputsTo(1) : mem1'[j] = Bits(picture)[j]
    BY <2>1, <2>2, <2>3 DEF OpInput, Bits
  <2>5. ActivationsRight'
    BY <1>1, <1>2, <1>7, <2>4 DEF ActivationsRight
  <2>6. EndsInv'
    <3>1. (mem1 = [c \in Columns |-> mem1[c]])'
      BY <2>1, Zenon DEF OpInput
    <3> QED  BY <1>1, <1>7, <3>1 DEF EndsInv
  <2>7. OrderInv' /\ WeightsInv'
    BY <2>1, <1>1, <1>4, <1>7 DEF OpInput
  <2> QED  BY <1>5, <2>5, <2>6, <2>7 DEF NetInv
<1>8. ASSUME NEW l \in Layers, counter' = 2 * l PROVE NetInv'
  <2>1. OpFc(l)
    <3>1. counter' \notin {1, 3, 5, 7}
      BY <1>8 DEF Layers
    <3>2. \A k \in Layers : counter' = 2 * k => k = l
      BY <1>8 DEF Layers
    <3> QED  BY <1>1, <1>8, <3>1, <3>2 DEF Run
  <2>2. /\ array' \in {l, Packed} /\ weight_loaded' /\ (load_once => array' = Packed)
    BY <1>8, <2>1, ArrayHolds
  <2>3. weight_loaded' \in BOOLEAN
    BY <2>1 DEF OpFc, NetInv, OrderInv
  <2>4. WeightsInv'
    BY <1>1, <2>2 DEF NetInv, WeightsInv
  <2>5. EndsInv'
    <3>1. (mem1 = [c \in Columns |-> mem1[c]])'
      BY <2>1, Zenon DEF OpFc, NetInv, EndsInv
    <3>2. pc' = "run" /\ counter' # 0
      BY <1>1, <1>8 DEF Layers
    <3> QED  BY <3>1, <3>2 DEF EndsInv
  <2>6. \A r \in Rows(l) :
          mem2'[r] = (CASE l = 1 -> Fc1(picture)
                        [] l = 2 -> Fc2(picture)
                        [] l = 3 -> Fc3(picture))[r - RowBias[l]]
    BY <1>8, <2>1, LayerStep
  <2>7. ActivationsRight'
    <3>1. CASE l = 1
      BY <1>2, <1>8, <2>6, <3>1 DEF ActivationsRight, RowBias
    <3>2. CASE l = 2
      BY <1>2, <1>8, <2>6, <3>2 DEF ActivationsRight, RowBias
    <3>3. CASE l = 3
      <4>1. \A r \in Rows(3) : r - RowBias[3] = r
        BY <1>6 DEF Rows, RowBias, OutputsOf
      <4>2. \A r \in Rows(3) : mem2'[r] = Fc3(picture)[r]
        BY <2>6, <3>3, <4>1
      <4> QED  BY <1>2, <1>8, <3>3, <4>2 DEF ActivationsRight
    <3> QED  BY <3>1, <3>2, <3>3 DEF Layers
  <2> QED  BY <1>3, <1>5, <2>3, <2>4, <2>5, <2>7 DEF NetInv
<1>9. CASE counter' \in {3, 5}
  <2>1. OpSign
    BY <1>1, <1>9 DEF Run, Layers
  <2>2. \A l \in Layers : \A r \in Rows(l) : r \in Columns
    BY Inside DEF Rows, Columns
  <2>3. \A c \in Columns : mem1'[c] = Sign(mem2[c])
    BY <2>1 DEF OpSign
  <2>4. ASSUME counter' = 3 PROVE ActivationsRight'
    <3>1. \A r \in Rows(1) : mem1'[r] = Sign(Fc1(picture)[r - Fc1Row])
      BY <1>1, <2>2, <2>3, <2>4 DEF NetInv, ActivationsRight, Layers
    <3> QED  BY <1>2, <2>4, <3>1 DEF ActivationsRight
  <2>5. ASSUME counter' = 5 PROVE ActivationsRight'
    <3>1. \A r \in Rows(2) : mem1'[r] = Sign(Fc2(picture)[r - Fc2Row])
      BY <1>1, <2>2, <2>3, <2>5 DEF NetInv, ActivationsRight, Layers
    <3> QED  BY <1>2, <2>5, <3>1 DEF ActivationsRight
  <2>6. EndsInv'
    <3>1. (mem1 = [c \in Columns |-> mem1[c]])'
      BY <2>1, Zenon DEF OpSign
    <3> QED  BY <1>1, <1>9, <3>1 DEF EndsInv
  <2>7. OrderInv' /\ WeightsInv'
    BY <2>1, <1>1, <1>4, <1>9 DEF OpSign
  <2> QED  BY <1>5, <1>9, <2>4, <2>5, <2>6, <2>7 DEF NetInv
<1>10. CASE counter' = 7
  <2>1. OpOutput
    BY <1>1, <1>10 DEF Run, Layers
  <2>2. OutputsFrom(3) = Rows(3) /\ 0 \in Columns
    BY <1>6, LayoutAssumption DEF Rows, RowBias, OutputsFrom, OutputsOf, Columns
  <2>3. \A k \in OutputsFrom(3) : mem2[k] = Fc3(picture)[k]
    BY <1>1, <1>10, <2>2 DEF NetInv, ActivationsRight
  <2>4. Fc3(picture) = [k \in OutputsFrom(3) |-> Fc3(picture)[k]]
    BY DEF Fc3, Layer
  <2>5. [k \in OutputsFrom(3) |-> mem2[k]] = Fc3(picture)
    BY <2>3, <2>4
  <2>6. mem1'[0] = MaxElement(Fc3(picture)) /\ (mem1 = [c \in Columns |-> mem1[c]])'
    BY <2>1, <2>2, <2>5 DEF OpOutput, NetInv, EndsInv
  <2>7. EndsInv'
    <3>1. MaxElement(Fc3(picture))' = MaxElement(Fc3(picture))
      BY <1>2 DEF MaxElement
    <3> QED  BY <1>1, <1>10, <2>6, <3>1 DEF EndsInv
  <2>8. OrderInv' /\ WeightsInv'
    BY <2>1, <1>1, <1>4, <1>10 DEF OpOutput
  <2>9. ActivationsRight'
    BY <1>10 DEF ActivationsRight
  <2> QED  BY <1>5, <2>7, <2>8, <2>9 DEF NetInv
<1>11. counter' \in {1, 3, 5, 7} \/ \E l \in Layers : counter' = 2 * l
  <2>1. counter' \in 1 .. 7
    BY <1>1
  <2>2. 1 \in Layers /\ 2 \in Layers /\ 3 \in Layers
    BY DEF Layers
  <2> QED  BY <2>1, <2>2
<1> QED  BY <1>7, <1>8, <1>9, <1>10, <1>11

(* So do the steps of the program.                                           *)
LEMMA NetKept == NetInv /\ [Next]_vars => NetInv'
<1> SUFFICES ASSUME NetInv, [Next]_vars PROVE NetInv'
  OBVIOUS
<1>1. CASE SendWeights
  <2>1. OrderInv' /\ WeightsInv'
    <3>1. /\ pc = "weights" /\ pc' = "image" /\ counter' = counter
          /\ model' = model /\ load_once' = load_once /\ weight_loaded' = weight_loaded
      BY <1>1 DEF SendWeights
    <3>2. OrderInv'
      BY <3>1 DEF NetInv, OrderInv
    <3>3. slot' = IF load_once THEN [l \in Layers |-> IF l = 1 THEN Packed ELSE Nothing]
                  ELSE [l \in Layers |-> l]
      BY <1>1 DEF SendWeights
    <3>4. \A l \in Layers :
            slot'[l] = IF ~load_once THEN l ELSE IF l = 1 THEN Packed ELSE Nothing
      BY <3>3
    <3> QED  BY <3>1, <3>2, <3>4 DEF NetInv, WeightsInv
  <2>2. mem1' = mem1 /\ counter' = counter /\ pc' = "image" /\ pc = "weights"
    BY <1>1 DEF SendWeights
  <2>3. counter = 0
    BY <2>2 DEF NetInv, OrderInv
  <2>4. EndsInv' /\ ActivationsRight' /\ LabelRight'
    BY <2>2, <2>3 DEF NetInv, EndsInv, ActivationsRight, LabelRight
  <2> QED  BY <2>1, <2>4 DEF NetInv
<1>2. ASSUME NEW p \in Pictures, SendPicture(p) PROVE NetInv'
  <2>1. OrderInv' /\ WeightsInv'
    BY <1>2 DEF SendPicture, NetInv, OrderInv, WeightsInv
  <2>2. EndsInv' /\ ActivationsRight' /\ LabelRight'
    BY <1>2 DEF SendPicture, NetInv, EndsInv, ActivationsRight, LabelRight
  <2> QED  BY <2>1, <2>2 DEF NetInv
<1>3. CASE RunNext
  BY <1>3, RunKeeps
<1>4. CASE ReadResult
  <2>1. OrderInv' /\ WeightsInv'
    BY <1>4 DEF ReadResult, NetInv, OrderInv, WeightsInv
  <2>2. model' = model /\ picture' = picture /\ pc = "read" /\ pc' = "image" /\ mem1' = mem1
    BY <1>4 DEF ReadResult
  <2>3. EndsInv' /\ ActivationsRight'
    BY <2>2 DEF NetInv, EndsInv, ActivationsRight
  <2>4. result' = MaxElement(Fc3(picture))
    BY <1>4, <2>2 DEF ReadResult, NetInv, EndsInv
  <2>5. LabelRight'
    <3>1. Fc3(picture)' = Fc3(picture)
      BY <2>2, SameNet
    <3> QED  BY <2>4, <3>1 DEF LabelRight, MaxElement
  <2> QED  BY <2>1, <2>3, <2>5 DEF NetInv
<1>5. CASE UNCHANGED vars
  <2>1. OrderInv' /\ WeightsInv'
    BY <1>5 DEF vars, NetInv, OrderInv, WeightsInv
  <2>2. /\ Fc1(picture)' = Fc1(picture) /\ Fc2(picture)' = Fc2(picture)
        /\ Fc3(picture)' = Fc3(picture) /\ Bits(picture)' = Bits(picture)
    BY <1>5, SameNet DEF vars
  <2>3. EndsInv'
    BY <1>5, <2>2 DEF vars, NetInv, EndsInv, MaxElement
  <2>4. ActivationsRight' /\ LabelRight'
    BY <1>5, <2>2 DEF vars, NetInv, ActivationsRight, LabelRight, MaxElement
  <2> QED  BY <2>1, <2>3, <2>4 DEF NetInv
<1> QED  BY <1>1, <1>2, <1>3, <1>4, <1>5 DEF Next

(* Each layer finds in its columns, and leaves in its rows, what the network *)
(* computes, in an array loaded once or for each layer.                      *)
THEOREM LayersComputeTheNetwork == Spec => []ActivationsRight
<1>1. NetInv => ActivationsRight  BY DEF NetInv
<1> QED  BY NetStarts, NetKept, <1>1, PTL DEF Spec

(* The program reads the label of the network for every image.               *)
THEOREM LabelOfTheNetwork == Spec => []LabelRight
<1>1. NetInv => LabelRight  BY DEF NetInv
<1> QED  BY NetStarts, NetKept, <1>1, PTL DEF Spec
=============================================================================
