------------------------------- MODULE MCProc -------------------------------
(* Proc for TLC: the CPUs are interchangeable.  The processes are not: init *)
(* is one of them, and the loops over the table visit them in order.        *)
EXTENDS Proc, TLC

CPUSymmetry == Permutations(CPUs)
=============================================================================
