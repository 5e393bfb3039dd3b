----------------------------- MODULE MCScopedEnv -----------------------------
(* Instances of ScopedEnv for TLC *)
EXTENDS ScopedEnv, TLC

CONSTANTS r1, x1, x2, x3

OneRef == {r1}
ThreeExceptions == {x1, x2, x3}

Everything == {"frame_fails", "catch_fails", "panics", "outer_env"}

Symmetry == Permutations({x1, x2, x3})
===============================================================================
