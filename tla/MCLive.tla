------------------------------- MODULE MCLive -------------------------------
(* Liveness for TLC: VirtioDisk, Tty and Proc, one of them in each behaviour.*)
(* The others stay as they were at the start, and fairness is asked of the   *)
(* one that runs.                                                            *)
EXTENDS VirtioDisk, Tty

CONSTANTS NPROC, CPUs, MaxPid, KillPids, TimerPCs

VARIABLES which,
          xstate, xchan, xkilled, xpid, xparent, xplock, xwait_lock, xnextpid, xcpu, xcproc,
          xpc, xyielding, xnp, xtodo

P == INSTANCE Proc WITH
       state <- xstate, chan <- xchan, killed <- xkilled, pid <- xpid, parent <- xparent,
       plock <- xplock, wait_lock <- xwait_lock, nextpid <- xnextpid, cpu <- xcpu,
       cproc <- xcproc, pc <- xpc, yielding <- xyielding, np <- xnp, todo <- xtodo

xvars == <<xstate, xchan, xkilled, xpid, xparent, xplock, xwait_lock, xnextpid, xcpu, xcproc,
           xpc, xyielding, xnp, xtodo>>

LInit == which \in {"disk", "tty", "proc"} /\ Init /\ TInit /\ P!Init

InDisk(A) == which = "disk" /\ A /\ UNCHANGED <<which, tvars, xvars>>
InTty(A) == which = "tty" /\ A /\ UNCHANGED <<which, vars, xvars>>
InProc(A) == which = "proc" /\ A /\ UNCHANGED <<which, vars, tvars>>

Paired(S, T) == CHOOSE f \in [S -> T] : \A x, y \in S : x # y => f[x] # f[y]

\* Each process reads and writes a block of its own: which one it is makes no difference
\* to the driver, and no two may have the same at a time.
OwnBuf == Paired(Procs, Bufs)
OwnBlocks == \A p \in Procs : buf'[p] \in {Nobody, OwnBuf[p]}

LNext == InDisk(Next /\ OwnBlocks) \/ InTty(TNext) \/ InProc(P!Next)
lvars == <<which, vars, tvars, xvars>>

\* Fairness of VirtioDisk and of Proc, as these modules state it, and what Tty says is owed.
\* Actions of two components that share a condition are never enabled in the same behaviour:
\* it is the condition on the component that runs.  All the requests take three descriptors
\* from the lowest free one up and give the three back, so their heads are the multiples of
\* three, and no other dev_finish is ever enabled.
TableSlot == Paired(Procs, 1 .. NPROC)
Sender == Paired(Senders, Procs)
Heads == {h \in Desc : h % 3 = 0}
Starter == Paired(Heads, Senders)

LFairness ==
  /\ \A c \in CPUs :
       /\ WF_lvars(InDisk(dev_take) \/ InTty(transmit) \/ InProc(P!Kernel(c)))
       /\ SF_lvars(InDisk(intr_ack) \/ InProc(P!Timer(c)))
       /\ \A i \in 1 .. NPROC : SF_lvars(\/ \E p \in Procs : TableSlot[p] = i /\ InDisk(recheck(p))
                                        \/ InProc(P!scheduler(c, i)))
  /\ \A p \in Procs : WF_lvars(\/ InDisk(publish(p) \/ wait_done(p) \/ complete(p))
                               \/ \E x \in Senders : Sender[x] = p /\ InTty(TSend(x)))
  /\ WF_lvars(InDisk(intr_entry \/ intr_done) \/ InTty(THandler))
  /\ \A h \in Heads : WF_lvars(InDisk(dev_finish(h)) \/ InTty(TStart(Starter[h])))
  /\ WF_lvars(InTty(TStart(Handler)))

LSpec == LInit /\ [][LNext]_lvars /\ LFairness

\* A process in wait() with a child that has exited returns from wait().
WaitReturns == P!WaitReturns

\* A process that was killed exits, wherever kill() found it.
KilledExits == P!KilledExits
=============================================================================
