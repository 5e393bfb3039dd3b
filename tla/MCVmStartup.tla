----------------------------- MODULE MCVmStartup -----------------------------
(* Instances of VmStartup for TLC *)
EXTENDS VmStartup

CONSTANTS t1, t2, t3

ThreeThreads == {t1, t2, t3}
TwoThreads == {t1, t2}
===============================================================================
