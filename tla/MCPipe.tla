------------------------------- MODULE MCPipe -------------------------------
(* Pipe for TLC: processes that may be killed are interchangeable, so are   *)
(* the others, and so are the bytes.                                        *)
EXTENDS Pipe, TLC

PipeSymmetry == Permutations(MayKill) \cup Permutations(Peers \ MayKill) \cup Permutations(Bytes)
=============================================================================
