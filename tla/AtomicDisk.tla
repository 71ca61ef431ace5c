----------------------------- MODULE AtomicDisk -----------------------------
(***************************************************************************)
(* What the write-ahead log promises the file system: the abstract         *)
(* specification that module Log implements.                               *)
(*                                                                         *)
(* Operations bracketed by begin_op() and end_op() change a shared view of *)
(* the disk.  What survives a crash is the view as it stood at some moment *)
(* when no operation was in progress: an operation is durable as a whole   *)
(* or not at all.                                                          *)
(***************************************************************************)
CONSTANTS Procs,   \* processes that run file system operations
          Blocks,  \* home blocks of the file system
          Data     \* contents of a block

VARIABLES durable, \* the disk a crash at this moment would leave
          view,    \* the disk as file system code reads it
          active   \* processes between begin_op() and end_op()

vars == <<durable, view, active>>

Init == /\ durable \in [Blocks -> Data]
        /\ view = durable
        /\ active = {}

Begin(p) == /\ p \notin active
            /\ active' = active \cup {p}
            /\ UNCHANGED <<durable, view>>

Write(p, b, d) == /\ p \in active
                  /\ view' = [view EXCEPT ![b] = d]
                  /\ UNCHANGED <<durable, active>>

End(p) == /\ p \in active
          /\ active' = active \ {p}
          /\ UNCHANGED <<durable, view>>

\* All of the view becomes durable at once, and only between operations.
Commit == /\ active = {}
          /\ durable' = view
          /\ UNCHANGED <<view, active>>

Crash == /\ view' = durable
         /\ active' = {}
         /\ UNCHANGED durable

Next == \/ \E p \in Procs : Begin(p) \/ End(p)
        \/ \E p \in Procs, b \in Blocks, d \in Data : Write(p, b, d)
        \/ Commit
        \/ Crash

Spec == Init /\ [][Next]_vars
=============================================================================
