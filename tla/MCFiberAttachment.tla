--------------------------- MODULE MCFiberAttachment ---------------------------
(* An instance of FiberAttachment: two threads, one of which has two fibers. *)
EXTENDS FiberAttachment, TLC

CONSTANTS t1, t2, main1, extra1, main2, b1, b2, b3

TwoThreads == {t1, t2}
ThreeFibers == {main1, extra1, main2}
FiberThreads == main1 :> t1 @@ extra1 :> t1 @@ main2 :> t2
ThreeBoxes == {b1, b2, b3}

BoxSymmetry == Permutations(ThreeBoxes)
===============================================================================
