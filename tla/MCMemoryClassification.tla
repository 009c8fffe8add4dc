------------------------ MODULE MCMemoryClassification ------------------------
(* All registries of three compound types over three leaves: a shared and an  *)
(* exclusive reference and a string.                                          *)
EXTENDS MemoryClassification

SixTypes == 0 .. 5

Compounds == [kind : {"record"}, contents : UNION {[1 .. n -> SixTypes] : n \in 0 .. 2}]
             \cup [kind : {"box"}, contents : [{1} -> SixTypes]]

Leaf(kind) == [kind |-> kind, contents |-> <<>>]

ThreeCompounds ==
  {[t \in SixTypes |-> CASE t = 1 -> Leaf("ref") [] t = 3 -> Leaf("mutref")
                         [] t = 5 -> Leaf("text")
                         [] t = 0 -> a [] t = 2 -> b [] t = 4 -> c] :
     a, b, c \in Compounds}
=============================================================================
