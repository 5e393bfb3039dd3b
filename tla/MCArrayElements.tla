--------------------------- MODULE MCArrayElements ---------------------------
(* Instances of ArrayElements for TLC *)
EXTENDS ArrayElements, TLC

CONSTANTS a1, s1, h1, h2, b1, b2

OneArray == {a1}
OneString == {s1}
TwoHandles == {h1, h2}
TwoBuffers == {b1, b2}
Bits == {0, 1}

Everything == Environments
Symmetry == Permutations(TwoHandles) \union Permutations(TwoBuffers)
===============================================================================
