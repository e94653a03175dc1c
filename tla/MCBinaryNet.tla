---------------------------- MODULE MCBinaryNet -----------------------------
(* BinaryNet with an array of 5 by 5, in which as in the program the pixels  *)
(* take up columns the third layer uses too.                                 *)
EXTENDS BinaryNet, Functions, Sequences

(* Mean, weight and bias; the variance only scales.                          *)
Norms == {<<0, 0, 0>>, <<1, 1, 0>>, <<0, 1, 1>>, <<0, 1, 0>>}
Zeros == <<0, 0, 0>>

DotProduct(terms, b) == (FoldFunction(+, 0, terms) - b[1]) * b[2] + b[3]

Row(ws) == [j \in 0 .. Len(ws) - 1 |-> ws[j + 1]]

SomeModels ==
  {[weight |-> <<Row(<<Row(f)>>), Row(<<Row(<<g[1]>>), Row(<<g[2]>>)>>),
                 Row(<<Row(<<h[1], h[2]>>), Row(<<h[3], -1>>)>>)>>,
    bn |-> <<Row(<<<<1, 1, 0>>>>), Row(<<<<0, 1, 1>>, <<1, 1, 0>>>>),
             Row(<<<<0, 1, 0>>, <<0, 1, 1>>>>)>>] :
     f \in {<<1, 1, -1, 1>>, <<-1, 0, 1, 1>>}, g \in {1, -1} \X {1, -1},
     h \in {1, -1} \X {0, 1} \X {0, 1}}

Binary == [0 .. Inputs - 1 -> {0, 7}]
=============================================================================
