---------------------------- MODULE MCGlobalRefs ----------------------------
(* Instances of GlobalRefs for TLC *)
EXTENDS GlobalRefs, TLC

CONSTANTS t1, t2, o1, o2, s1, s2, w1, w2

TwoThreads == {t1, t2}
TwoObjects == {o1, o2}
TwoSlots == {s1, s2}
TwoWrappers == {w1, w2}

Symmetry == Permutations({t1, t2}) \union Permutations({o1, o2})
            \union Permutations({s1, s2}) \union Permutations({w1, w2})
===============================================================================
