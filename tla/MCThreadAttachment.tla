-------------------------- MODULE MCThreadAttachment --------------------------
(* Two native threads and one of the JVM, in a world where everything fails *)
EXTENDS ThreadAttachment, TLC

CONSTANTS n1, n2, j1

AllThreads == {n1, n2, j1}
OneJava == {j1}

EverythingFails == Environments

Symmetry == Permutations({n1, n2})
===============================================================================
