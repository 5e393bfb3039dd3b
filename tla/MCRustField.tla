----------------------------- MODULE MCRustField -----------------------------
(* Instances of RustField for TLC *)
EXTENDS RustField, TLC

CONSTANTS t1, t2, t3, b1, b2

TwoThreads == {t1, t2}
ThreeThreads == {t1, t2, t3}
TwoBoxes == {b1, b2}

Symmetry == Permutations({t1, t2, t3}) \union Permutations({b1, b2})
===============================================================================
