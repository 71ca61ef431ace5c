---------------------------- MODULE MCVirtioDisk ----------------------------
(* VirtioDisk for TLC: processes, buffers and contents are interchangeable.  *)
EXTENDS VirtioDisk, TLC

DiskSymmetry == Permutations(Procs) \cup Permutations(Bufs) \cup Permutations(Data)
=============================================================================
