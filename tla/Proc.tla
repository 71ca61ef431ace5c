-------------------------------- MODULE Proc --------------------------------
(***************************************************************************)
(* Processes and CPUs: kernel/proc.c, with the parts of kernel/trap.c that  *)
(* decide when a process yields or exits.                                   *)
(*                                                                          *)
(* Each CPU is in its scheduler, runs a process, or has just been given     *)
(* back to the scheduler by sched().  A spin lock holds the CPU that        *)
(* acquired it (lk->cpu), or 0.  A critical section that neither waits for  *)
(* a second lock nor switches is one step; wherever two locks are held, or  *)
(* p->lock is handed from a thread to the scheduler, acquiring and          *)
(* releasing are separate steps.                                            *)
(***************************************************************************)
EXTENDS Naturals, FiniteSets, FiniteSetsExt

CONSTANTS NPROC,    \* size of the process table
          CPUs,     \* the CPUs
          MaxPid,   \* bound on the pids that are handed out
          KillPids, \* arguments that user programs give to kill()
          TimerPCs  \* where the timer may interrupt a thread that holds no lock

ASSUME ProcAssumption ==
  NPROC \in Nat \ {0} /\ CPUs # {} /\ 0 \notin CPUs /\ MaxPid \in Nat \ {0} /\ KillPids \subseteq Nat
  /\ TimerPCs \subseteq STRING

\* Nobody kills init: exit() would panic ("init exiting").
ASSUME InitKept == 1 \notin KillPids

ProcTable == 1 .. NPROC
None == 0
initproc == 1

VARIABLES state, chan, killed, pid, parent, \* fields of struct proc
          plock,      \* p->lock of each process
          wait_lock,  \* wait_lock
          nextpid,    \* nextpid
          cpu, cproc, \* what each CPU does, and its c->proc
          pc,         \* where each kernel thread is (its saved context)
          yielding,   \* threads that left the CPU in yield()
          np,         \* fork(): the new process
          todo        \* processes a loop over the table still has to visit

fields == <<state, chan, killed, pid, parent, nextpid>>
locks == <<plock, wait_lock>>
cpus == <<cpu, cproc>>
threads == <<pc, yielding, np, todo>>
vars == <<fields, locks, cpus, threads>>

States == {"UNUSED", "USED", "SLEEPING", "RUNNABLE", "RUNNING", "ZOMBIE"}
PC == {"none", "forkret", "user", "ret", "fork", "fork2", "fork3", "kill", "wait", "scan",
       "sleep", "sleep2", "woken", "exit", "reparent", "wakeup_init", "wakeup_parent",
       "zombie", "dead"}

Children(p) == {q \in ProcTable : parent[q] = p}
NoLocks(c) == wait_lock # c /\ \A q \in ProcTable : plock[q] # c

\* The code of process p runs on CPU c.
On(p, c) == cpu[c] = "run" /\ cproc[c] = p /\ p \notin yielding

\* userinit(): the first process, about to be run by some scheduler().
Init == /\ state = [p \in ProcTable |-> IF p = initproc THEN "RUNNABLE" ELSE "UNUSED"]
        /\ chan = [p \in ProcTable |-> None]
        /\ killed = [p \in ProcTable |-> FALSE]
        /\ pid = [p \in ProcTable |-> IF p = initproc THEN 1 ELSE 0]
        /\ parent = [p \in ProcTable |-> None]
        /\ plock = [p \in ProcTable |-> None] /\ wait_lock = None
        /\ nextpid = 2
        /\ cpu = [c \in CPUs |-> "sched"] /\ cproc = [c \in CPUs |-> None]
        /\ pc = [p \in ProcTable |-> IF p = initproc THEN "forkret" ELSE "none"]
        /\ yielding = {}
        /\ np = [p \in ProcTable |-> None]
        /\ todo = [p \in ProcTable |-> {}]

Goto(p, l) == pc' = [pc EXCEPT ![p] = l]
-----------------------------------------------------------------------------
(* scheduler(), sched(), yield() *)

\* acquire(&p->lock), found RUNNABLE: swtch() to it with the lock held.
scheduler(c, p) ==
  /\ cpu[c] = "sched" /\ plock[p] = None /\ state[p] = "RUNNABLE"
  /\ plock' = [plock EXCEPT ![p] = c]
  /\ state' = [state EXCEPT ![p] = "RUNNING"]
  /\ cpu' = [cpu EXCEPT ![c] = "run"] /\ cproc' = [cproc EXCEPT ![c] = p]
  /\ UNCHANGED <<chan, killed, pid, parent, nextpid, wait_lock, threads>>

\* The process has switched back: c->proc = 0; release(&p->lock).
scheduler_back(c) ==
  /\ cpu[c] = "back"
  /\ plock' = [plock EXCEPT ![cproc[c]] = None]
  /\ cpu' = [cpu EXCEPT ![c] = "sched"] /\ cproc' = [cproc EXCEPT ![c] = None]
  /\ UNCHANGED <<fields, wait_lock, threads>>

\* swtch() from the process to the scheduler.
sched(c) == cpu' = [cpu EXCEPT ![c] = "back"] /\ UNCHANGED cproc

\* A timer interrupt while the CPU holds no spin lock: usertrap() checks
\* p->killed first, kerneltrap() does not.
yield(p, c) ==
  /\ On(p, c) /\ NoLocks(c) /\ plock[p] = None /\ pc[p] \in TimerPCs
  /\ pc[p] = "user" => ~killed[p]
  /\ plock' = [plock EXCEPT ![p] = c]
  /\ state' = [state EXCEPT ![p] = "RUNNABLE"]
  /\ yielding' = yielding \cup {p}
  /\ sched(c)
  /\ UNCHANGED <<chan, killed, pid, parent, nextpid, wait_lock, pc, np, todo>>

\* The rest of yield(), when the process runs again: release(&p->lock).
yield_back(p, c) ==
  /\ cpu[c] = "run" /\ cproc[c] = p /\ p \in yielding
  /\ yielding' = yielding \ {p}
  /\ plock' = [plock EXCEPT ![p] = None]
  /\ UNCHANGED <<fields, wait_lock, cpus, pc, np, todo>>

forkret(p, c) ==
  /\ On(p, c) /\ pc[p] = "forkret"
  /\ plock' = [plock EXCEPT ![p] = None]
  /\ Goto(p, "user")
  /\ UNCHANGED <<fields, wait_lock, cpus, yielding, np, todo>>
-----------------------------------------------------------------------------
(* usertrap() *)

\* A system call of a process that was not killed.  init never calls exit().  A
\* fault ends like exit(): setkilled(p), then exit(-1).
usertrap(p, c) ==
  /\ On(p, c) /\ pc[p] = "user" /\ plock[p] = None /\ ~killed[p]
  /\ \E call \in {"fork", "wait", "kill", "exit"} :
       (call = "exit" => p # initproc) /\ Goto(p, call)
  /\ UNCHANGED <<fields, locks, cpus, yielding, np, todo>>

\* The next trap, at the latest the timer's, finds the process killed.
usertrap_killed(p, c) ==
  /\ On(p, c) /\ pc[p] = "user" /\ plock[p] = None /\ killed[p]
  /\ Goto(p, "exit")
  /\ UNCHANGED <<fields, locks, cpus, yielding, np, todo>>

\* The check of p->killed on the way back to user space.
usertrap_ret(p, c) ==
  /\ On(p, c) /\ pc[p] = "ret" /\ plock[p] = None
  /\ Goto(p, IF killed[p] THEN "exit" ELSE "user")
  /\ UNCHANGED <<fields, locks, cpus, yielding, np, todo>>

\* Mutant: the process is not woken.
kill_silent(p, c) ==
  /\ On(p, c) /\ pc[p] = "kill"
  /\ \E q \in ProcTable : /\ pid[q] \in KillPids /\ plock[q] = None
                      /\ killed' = [killed EXCEPT ![q] = TRUE]
  /\ Goto(p, "ret")
  /\ UNCHANGED <<state, chan, pid, parent, nextpid, locks, cpus, yielding, np, todo>>

\* The loop holds one p->lock at a time: what it finds is a process that had the
\* pid when it was visited.  A miss is as of a moment before the pid was given out.
kill(p, c) ==
  /\ On(p, c) /\ pc[p] = "kill"
  /\ \E k \in KillPids :
       \/ /\ \A q \in ProcTable : pid[q] # k
          /\ UNCHANGED <<killed, state>>
       \/ \E q \in ProcTable :
          /\ pid[q] = k /\ plock[q] = None
          /\ killed' = [killed EXCEPT ![q] = TRUE]
          /\ state' = [state EXCEPT ![q] = IF @ = "SLEEPING" THEN "RUNNABLE" ELSE @]
  /\ Goto(p, "ret")
  /\ UNCHANGED <<chan, pid, parent, nextpid, locks, cpus, yielding, np, todo>>

freeproc(q) == /\ state' = [state EXCEPT ![q] = "UNUSED"]
               /\ pid' = [pid EXCEPT ![q] = 0]
               /\ parent' = [parent EXCEPT ![q] = None]
               /\ chan' = [chan EXCEPT ![q] = None]
               /\ killed' = [killed EXCEPT ![q] = FALSE]

\* allocproc() and the copying of the parent, up to release(&np->lock).  A new
\* process starts in forkret().  Out of memory: freeproc() gives the slot back.
\* The search for a slot looks at one process at a time, so it may take any slot
\* that is free when it is looked at, or find none.
fork(p, c) ==
  /\ On(p, c) /\ pc[p] = "fork"
  /\ \/ \E q \in ProcTable :
          /\ state[q] = "UNUSED" /\ plock[q] = None /\ nextpid <= MaxPid
          /\ nextpid' = nextpid + 1
          /\ \/ /\ state' = [state EXCEPT ![q] = "USED"]
                /\ pid' = [pid EXCEPT ![q] = nextpid]
                /\ np' = [np EXCEPT ![p] = q]
                /\ pc' = [pc EXCEPT ![p] = "fork2", ![q] = "forkret"]
                /\ UNCHANGED <<parent, chan, killed>>
             \/ /\ freeproc(q)
                /\ Goto(p, "ret")
                /\ UNCHANGED np
     \/ /\ Goto(p, "ret")
        /\ UNCHANGED <<state, pid, parent, chan, killed, np, nextpid>>
  /\ UNCHANGED <<locks, cpus, yielding, todo>>

fork2(p, c) ==
  /\ On(p, c) /\ pc[p] = "fork2" /\ wait_lock = None
  /\ parent' = [parent EXCEPT ![np[p]] = p]
  /\ Goto(p, "fork3")
  /\ UNCHANGED <<state, chan, killed, pid, nextpid, locks, cpus, yielding, np, todo>>

fork3(p, c) ==
  /\ On(p, c) /\ pc[p] = "fork3" /\ plock[np[p]] = None
  /\ state' = [state EXCEPT ![np[p]] = "RUNNABLE"]
  /\ np' = [np EXCEPT ![p] = None]
  /\ Goto(p, "ret")
  /\ UNCHANGED <<chan, killed, pid, parent, nextpid, locks, cpus, yielding, todo>>
-----------------------------------------------------------------------------
(* wait(), with sleep() inlined at its only call *)

wait(p, c) ==
  /\ On(p, c) /\ pc[p] = "wait" /\ wait_lock = None
  /\ wait_lock' = c
  /\ todo' = [todo EXCEPT ![p] = Children(p)]
  /\ Goto(p, "scan")
  /\ UNCHANGED <<fields, plock, cpus, yielding, np>>

\* Mutant: the child's state is read without its lock.
wait_scan_unlocked(p, c) ==
  /\ On(p, c) /\ pc[p] = "scan" /\ todo[p] # {}
  /\ LET pp == Min(todo[p]) IN
     IF state[pp] = "ZOMBIE"
     THEN /\ freeproc(pp)
          /\ wait_lock' = None
          /\ todo' = [todo EXCEPT ![p] = {}]
          /\ Goto(p, "ret")
     ELSE /\ todo' = [todo EXCEPT ![p] = @ \ {pp}]
          /\ UNCHANGED <<state, pid, parent, chan, killed, wait_lock, pc>>
  /\ UNCHANGED <<nextpid, plock, cpus, yielding, np>>

\* One child of the scan.  copyout() of the status may fail: the child stays.
wait_scan(p, c) ==
  /\ On(p, c) /\ pc[p] = "scan" /\ todo[p] # {}
  /\ LET pp == Min(todo[p]) IN
     /\ plock[pp] = None
     /\ IF state[pp] = "ZOMBIE"
        THEN /\ freeproc(pp) \/ UNCHANGED <<state, pid, parent, chan, killed>>
             /\ wait_lock' = None
             /\ todo' = [todo EXCEPT ![p] = {}]
             /\ Goto(p, "ret")
        ELSE /\ todo' = [todo EXCEPT ![p] = @ \ {pp}]
             /\ UNCHANGED <<state, pid, parent, chan, killed, wait_lock, pc>>
  /\ UNCHANGED <<nextpid, plock, cpus, yielding, np>>

wait_check(p, c) ==
  /\ On(p, c) /\ pc[p] = "scan" /\ todo[p] = {} /\ plock[p] = None
  /\ IF Children(p) = {} \/ killed[p]
     THEN wait_lock' = None /\ Goto(p, "ret")
     ELSE Goto(p, "sleep") /\ UNCHANGED wait_lock
  /\ UNCHANGED <<fields, plock, cpus, yielding, np, todo>>

\* sleep(): acquire(&p->lock); release(lk).
sleep(p, c) ==
  /\ On(p, c) /\ pc[p] = "sleep" /\ plock[p] = None
  /\ plock' = [plock EXCEPT ![p] = c]
  /\ wait_lock' = None
  /\ Goto(p, "sleep2")
  /\ UNCHANGED <<fields, cpus, yielding, np, todo>>

sleep2(p, c) ==
  /\ On(p, c) /\ pc[p] = "sleep2"
  /\ chan' = [chan EXCEPT ![p] = p]
  /\ state' = [state EXCEPT ![p] = "SLEEPING"]
  /\ sched(c)
  /\ Goto(p, "woken")
  /\ UNCHANGED <<killed, pid, parent, nextpid, locks, yielding, np, todo>>

\* The rest of sleep(), up to acquire(lk), which wait() does.
woken(p, c) ==
  /\ On(p, c) /\ pc[p] = "woken"
  /\ chan' = [chan EXCEPT ![p] = None]
  /\ plock' = [plock EXCEPT ![p] = None]
  /\ Goto(p, "wait")
  /\ UNCHANGED <<state, killed, pid, parent, nextpid, wait_lock, cpus, yielding, np, todo>>
-----------------------------------------------------------------------------
(* exit(), reparent() and wakeup() *)

exit(p, c) ==
  /\ On(p, c) /\ pc[p] = "exit" /\ wait_lock = None
  /\ wait_lock' = c
  /\ Goto(p, "reparent")
  /\ UNCHANGED <<fields, plock, cpus, yielding, np, todo>>

\* Mutant: exit() does not call reparent().
reparent_not(p, c) ==
  /\ On(p, c) /\ pc[p] = "reparent"
  /\ todo' = [todo EXCEPT ![p] = ProcTable \ {p}]
  /\ Goto(p, "wakeup_parent")
  /\ UNCHANGED <<fields, locks, cpus, yielding, np>>

\* Mutant: the loops run past the end of the table.
reparent_past(p, c) ==
  /\ On(p, c) /\ pc[p] = "reparent" /\ Children(p) = {}
  /\ todo' = [todo EXCEPT ![p] = 1 .. NPROC + 1]
  /\ Goto(p, "wakeup_parent")
  /\ UNCHANGED <<fields, locks, cpus, yielding, np>>

\* One turn of reparent()'s loop, then wakeup(initproc); after the last one
\* exit() calls wakeup(p->parent).
reparent(p, c) ==
  /\ On(p, c) /\ pc[p] = "reparent"
  /\ todo' = [todo EXCEPT ![p] = ProcTable \ {p}]
  /\ IF Children(p) = {}
     THEN Goto(p, "wakeup_parent") /\ UNCHANGED parent
     ELSE /\ parent' = [parent EXCEPT ![Min(Children(p))] = initproc]
          /\ Goto(p, "wakeup_init")
  /\ UNCHANGED <<state, chan, killed, pid, nextpid, locks, cpus, yielding, np>>

\* One turn of wakeup(ch)'s loop.
wakeup(p, ch, next) == LET q == Min(todo[p]) IN
  /\ plock[q] = None
  /\ state' = [state EXCEPT ![q] = IF @ = "SLEEPING" /\ chan[q] = ch THEN "RUNNABLE" ELSE @]
  /\ todo' = [todo EXCEPT ![p] = @ \ {q}]
  /\ Goto(p, IF todo[p] = {q} THEN next ELSE pc[p])
  /\ UNCHANGED <<chan, killed, pid, parent, nextpid, locks, cpus, yielding, np>>

wakeup_init(p, c) == /\ On(p, c) /\ pc[p] = "wakeup_init"
                     /\ wakeup(p, initproc, "reparent")

\* Mutant: exit() does not call wakeup(p->parent).
wakeup_parent_not(p, c) ==
  /\ On(p, c) /\ pc[p] = "wakeup_parent"
  /\ todo' = [todo EXCEPT ![p] = {}]
  /\ Goto(p, "zombie")
  /\ UNCHANGED <<fields, locks, cpus, yielding, np>>

wakeup_parent(p, c) == /\ On(p, c) /\ pc[p] = "wakeup_parent"
                       /\ wakeup(p, parent[p], "zombie")

zombie(p, c) ==
  /\ On(p, c) /\ pc[p] = "zombie" /\ plock[p] = None
  /\ plock' = [plock EXCEPT ![p] = c]
  /\ state' = [state EXCEPT ![p] = "ZOMBIE"]
  /\ wait_lock' = None
  /\ Goto(p, "dead")
  /\ UNCHANGED <<chan, killed, pid, parent, nextpid, cpus, yielding, np, todo>>

dead(p, c) ==
  /\ On(p, c) /\ pc[p] = "dead"
  /\ sched(c)
  /\ UNCHANGED <<fields, locks, threads>>
-----------------------------------------------------------------------------
Thread(p, c) ==
  \/ forkret(p, c) \/ usertrap_killed(p, c) \/ usertrap_ret(p, c) \/ kill(p, c)
  \/ fork(p, c) \/ fork2(p, c) \/ fork3(p, c)
  \/ wait(p, c) \/ wait_scan(p, c) \/ wait_check(p, c) \/ sleep(p, c) \/ sleep2(p, c) \/ woken(p, c)
  \/ exit(p, c) \/ reparent(p, c) \/ wakeup_init(p, c) \/ wakeup_parent(p, c)
  \/ zombie(p, c) \/ dead(p, c)

Next == \/ \E c \in CPUs : scheduler_back(c)
        \/ \E p \in ProcTable, c \in CPUs :
             \/ scheduler(c, p) \/ yield(p, c) \/ yield_back(p, c)
             \/ usertrap(p, c) \/ Thread(p, c)

Spec == Init /\ [][Next]_vars

\* A CPU goes on with the kernel code it executes, the timer keeps interrupting user
\* programs (clockintr()), and scheduler() takes the processes in turn.  User programs
\* owe nothing.  Spin locks are not fair: with more than one CPU nothing says that a
\* given acquire() ever succeeds.
Kernel(c) == scheduler_back(c) \/ \E p \in ProcTable : Thread(p, c) \/ yield_back(p, c)
Timer(c) == \E p \in ProcTable : yield(p, c)

Fairness == \A c \in CPUs : /\ WF_vars(Kernel(c)) /\ SF_vars(Timer(c))
                            /\ \A p \in ProcTable : SF_vars(scheduler(c, p))

FairSpec == Spec /\ Fairness
-----------------------------------------------------------------------------
(* Properties *)

TypeOK ==
  /\ state \in [ProcTable -> States] /\ chan \in [ProcTable -> ProcTable \cup {None}]
  /\ killed \in [ProcTable -> BOOLEAN] /\ pid \in [ProcTable -> 0 .. MaxPid]
  /\ parent \in [ProcTable -> ProcTable \cup {None}]
  /\ plock \in [ProcTable -> CPUs \cup {None}] /\ wait_lock \in CPUs \cup {None}
  /\ nextpid \in 2 .. MaxPid + 1
  /\ cpu \in [CPUs -> {"sched", "run", "back"}] /\ cproc \in [CPUs -> ProcTable \cup {None}]
  /\ pc \in [ProcTable -> PC] /\ yielding \subseteq ProcTable
  /\ np \in [ProcTable -> ProcTable \cup {None}] /\ todo \in [ProcTable -> SUBSET ProcTable]

\* A kernel stack is used by one CPU at a time: as long as a CPU is on the stack of
\* a process (until scheduler() is back on its own), no other CPU is on it and, unless
\* the process is RUNNING, its lock keeps schedulers, wait() and allocproc() away.  A
\* CPU that gives up holds that lock and no other (the tests of sched()).
StackExclusive == \A c \in CPUs : cpu[c] # "sched" =>
  /\ state[cproc[c]] = "RUNNING" \/ plock[cproc[c]] = c
  /\ state[cproc[c]] \notin {"UNUSED", "USED"}
  /\ \A d \in CPUs : cpu[d] # "sched" /\ cproc[d] = cproc[c] => d = c
  /\ cpu[c] = "back" => /\ plock[cproc[c]] = c /\ state[cproc[c]] # "RUNNING"
                        /\ wait_lock # c /\ \A q \in ProcTable : plock[q] = c => q = cproc[c]

\* Every process that was started has a parent that can still wait for it: exit()
\* passes its children on before it becomes a ZOMBIE, and fork() cannot add one later.
\* No exit is missed: with wait_lock free, a process asleep in wait() has no child
\* to collect, its own or inherited.
ExitsCollected ==
  /\ \A p \in ProcTable \ {initproc} : state[p] \notin {"UNUSED", "USED"} =>
       parent[p] # None /\ state[parent[p]] \notin {"UNUSED", "USED", "ZOMBIE"}
  /\ wait_lock = None => \A p \in ProcTable : state[p] = "SLEEPING" =>
       \A q \in Children(p) : state[q] # "ZOMBIE"

\* A process in wait() with a child that has exited returns from wait().
WaitReturns == \A p \in ProcTable :
  (/\ pc[p] \in {"wait", "scan", "sleep", "sleep2", "woken"}
   /\ \E q \in Children(p) : state[q] = "ZOMBIE") ~> pc[p] = "ret"

\* A process that was killed exits, wherever kill() found it: in user space, asleep
\* in wait(), or not yet started.
KilledExits == \A p \in ProcTable : killed[p] ~> state[p] \in {"ZOMBIE", "UNUSED"}

\* kill(): "Wake process from sleep()".  A process that was killed is not asleep.
KilledAwake == \A p \in ProcTable : ~(state[p] = "SLEEPING" /\ killed[p])

\* kill(): "Kill the process with the given pid".  A process that allocproc() has
\* just created, and whose pid nobody knows yet, has not been killed.
NotBornKilled == [][\A p \in ProcTable :
  state[p] = "UNUSED" /\ state'[p] = "USED" => ~killed'[p]]_vars
-----------------------------------------------------------------------------
(* The inductive invariant behind StackExclusive: where a thread is says which *)
(* locks its CPU holds, and its state whether a CPU is on its stack.           *)

\* Where a running thread holds its own p->lock, and where wait_lock.
LockPC == {"forkret", "sleep2", "woken", "dead"}
WaitPC == {"scan", "sleep", "reparent", "wakeup_init", "wakeup_parent", "zombie"}

CpusBusy == \A c \in CPUs :
  /\ cpu[c] = "sched" <=> cproc[c] = None
  /\ \A d \in CPUs : cproc[c] # None /\ cproc[d] = cproc[c] => d = c
  /\ cpu[c] = "run" => state[cproc[c]] = IF pc[cproc[c]] = "dead" THEN "ZOMBIE" ELSE "RUNNING"
  /\ cpu[c] = "back" => /\ state[cproc[c]] \in {"RUNNABLE", "SLEEPING", "ZOMBIE"}
                        /\ plock[cproc[c]] = c

LocksHeld == \A c \in CPUs :
  /\ \A p \in ProcTable : plock[p] = c =>
       /\ cproc[c] = p
       /\ cpu[c] = "run" => p \in yielding \/ pc[p] \in LockPC
  /\ cpu[c] = "run" /\ (cproc[c] \in yielding \/ pc[cproc[c]] \in LockPC) => plock[cproc[c]] = c
  /\ wait_lock = c => cpu[c] = "run" /\ cproc[c] \notin yielding /\ pc[cproc[c]] \in WaitPC

ThreadsAt == \A p \in ProcTable :
  /\ p \in yielding => state[p] \in {"RUNNABLE", "RUNNING"} /\ pc[p] \notin LockPC
  /\ state[p] = "USED" => pc[p] = "forkret"
  /\ state[p] = "RUNNABLE" => p \in yielding \/ pc[p] \in {"forkret", "woken"}
  /\ state[p] = "SLEEPING" => pc[p] = "woken"
  /\ state[p] = "ZOMBIE" => pc[p] = "dead"
  /\ pc[p] = "dead" => state[p] \in {"ZOMBIE", "UNUSED"}
  /\ pc[p] \notin {"none", "forkret", "woken", "dead"} => state[p] \in {"RUNNABLE", "RUNNING"}

ForkPC == {"fork2", "fork3"}
ForksApart == \A p \in ProcTable : pc[p] \in ForkPC =>
  /\ np[p] \in ProcTable /\ state[np[p]] = "USED"
  /\ \A q \in ProcTable : pc[q] \in ForkPC /\ np[q] = np[p] => q = p

SchedInv == TypeOK /\ CpusBusy /\ LocksHeld /\ ThreadsAt /\ ForksApart
-----------------------------------------------------------------------------
(* What ExitsCollected needs besides: who is whose parent, and that wakeup()  *)
(* still has to visit whoever goes to sleep too early.                        *)

Live(p) == state[p] \notin {"UNUSED", "USED", "ZOMBIE"}
Gone(p) == \E q \in Children(p) : state[q] = "ZOMBIE"
Asleep(p) == state[p] = "SLEEPING" \/ pc[p] = "sleep2"
ExitPC == {"exit", "reparent", "wakeup_init", "wakeup_parent", "zombie", "dead"}

Family ==
  /\ pid[initproc] = 1 /\ ~killed[initproc] /\ pc[initproc] \notin ExitPC /\ Live(initproc)
  /\ \A p \in ProcTable :
       /\ parent[p] # None => Live(parent[p])
       /\ p # initproc /\ state[p] \notin {"UNUSED", "USED"} => parent[p] # None
       /\ pc[p] = "fork3" => parent[np[p]] = p
       /\ pc[p] \in {"wakeup_parent", "zombie"} => Children(p) = {}

WaitLocked == \A p \in ProcTable :
  /\ pc[p] \in WaitPC => \E c \in CPUs : On(p, c) /\ wait_lock = c
  /\ pc[p] = "sleep2" => \E c \in CPUs : On(p, c)

Wakeups == \A p \in ProcTable :
  /\ state[p] = "SLEEPING" => chan[p] = p
  /\ pc[p] = "scan" => \A q \in Children(p) : state[q] = "ZOMBIE" => q \in todo[p]
  /\ pc[p] = "sleep" => ~Gone(p)
  /\ pc[p] = "wakeup_parent" /\ Asleep(parent[p]) => parent[p] \in todo[p]
  /\ pc[p] = "zombie" => ~Asleep(parent[p])
  /\ Asleep(p) /\ Gone(p) => /\ p = initproc
                             /\ \E r \in ProcTable : pc[r] = "wakeup_init" /\ p \in todo[r]

ProcInv == SchedInv /\ Family /\ WaitLocked /\ Wakeups
=============================================================================
