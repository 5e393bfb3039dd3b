------------------------------- MODULE MCCalls -------------------------------
(* Every method of Calls, with every way to name a class. *)
EXTENDS Calls

AllForms == {"ref", "name", "null"}
===============================================================================
