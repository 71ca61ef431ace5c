------------------------------- MODULE MCLog -------------------------------
(* Log for TLC.  Blocks are interchangeable, and so are the processes other *)
(* than the one that boots.                                                  *)
EXTENDS Log, TLC

SpaceSymmetry == Permutations(Blocks) \cup Permutations(Procs \ {Boot})
=============================================================================
