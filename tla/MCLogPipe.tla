----------------------------- MODULE MCLogPipe -----------------------------
(* Log with its crashes and Pipe for TLC: one of them runs in each behaviour, *)
(* the other stays as it was at the start.                                    *)
EXTENDS Log, MCPipe

VARIABLE which

LPInit == /\ which \in {"log", "pipe"} /\ Init /\ PInit
          /\ which = "pipe" => \A b \in Blocks, i \in Slots : home[b] = slot[i]

\* What the log holds is interchangeable too.
LPSymmetry == PipeSymmetry \cup Permutations(Data)

\* The processes of a pipe may all be asleep in it, or have closed it.
PipeRests == /\ \A p \in Peers : \/ at[p] \in {"wsleep", "rsleep"}
                                 \/ at[p] = "idle" /\ fds[p] = {}
             /\ UNCHANGED pvars

LPNext == \/ which = "log" /\ Next /\ UNCHANGED <<which, pvars>>
          \/ which = "pipe" /\ (PNext \/ PipeRests) /\ UNCHANGED <<which, vars>>

LPSpec == LPInit /\ [][LPNext]_<<which, vars, pvars>>
=============================================================================
