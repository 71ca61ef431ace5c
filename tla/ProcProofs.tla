----------------------------- MODULE ProcProofs -----------------------------
(***************************************************************************)
(* Every step of proc.c preserves SchedInv of Proc: a kernel stack is used *)
(* by one CPU at a time, for any number of processes and CPUs.             *)
(***************************************************************************)
EXTENDS Proc, TLAPS

\* Step a of proc.c keeps the invariant.
Keeps(a) == SchedInv /\ a => SchedInv'

\* What SchedInv says of a thread that runs on CPU c.
Runs(p, c) ==
  /\ cpu[c] = "run" /\ cproc[c] = p /\ p \notin yielding
  /\ state[p] = IF pc[p] = "dead" THEN "ZOMBIE" ELSE "RUNNING"
  /\ \A d \in CPUs : cproc[d] = p => d = c
  /\ IF pc[p] \in LockPC THEN plock[p] = c ELSE plock[p] # c
  /\ \A q \in ProcTable : plock[q] = c => q = p
  /\ wait_lock = c => pc[p] \in WaitPC

\* The thread of a CPU that is not in its scheduler holds the locks its place says.
LEMMA RunningThread ==
  ASSUME SchedInv, NEW p \in ProcTable, NEW c \in CPUs, On(p, c)
  PROVE  Runs(p, c)
  <1> USE ProcAssumption DEF SchedInv, On, None, ProcTable
  <1>1. p # 0 /\ cproc[c] = p /\ cpu[c] = "run" /\ p \notin yielding
    OBVIOUS
  <1>2. /\ state[p] = IF pc[p] = "dead" THEN "ZOMBIE" ELSE "RUNNING"
        /\ \A d \in CPUs : cproc[d] = p => d = c
    BY <1>1 DEF CpusBusy
  <1>3. /\ IF pc[p] \in LockPC THEN plock[p] = c ELSE plock[p] # c
        /\ \A q \in ProcTable : plock[q] = c => q = p
        /\ wait_lock = c => pc[p] \in WaitPC
    BY <1>1, Zenon DEF LocksHeld
  <1> QED BY <1>1, <1>2, <1>3, Zenon DEF Runs

\* A process that is asleep, a zombie or just allocated, and whose lock is free,
\* has no CPU on its stack.
LEMMA OffStack ==
  ASSUME SchedInv, NEW p \in ProcTable, plock[p] = None, state[p] # "RUNNING"
  PROVE  \A c \in CPUs : cproc[c] # p
  <1> SUFFICES ASSUME NEW c \in CPUs, cproc[c] = p PROVE FALSE
    BY Zenon
  <1> USE ProcAssumption DEF SchedInv, None, ProcTable
  <1>1. cpu[c] \in {"run", "back"}
    BY DEF CpusBusy, TypeOK
  <1>2. cpu[c] # "back"
    BY DEF CpusBusy
  <1>3. state[p] = "ZOMBIE" /\ pc[p] = "dead"
    BY <1>1, <1>2, Zenon DEF CpusBusy
  <1>4. plock[p] = c
    BY <1>1, <1>2, <1>3, Zenon DEF LocksHeld, LockPC
  <1> QED BY <1>4, Zenon
-----------------------------------------------------------------------------
(* Steps inside a system call. *)

\* A step of thread p on CPU c that takes and releases no p->lock for longer than
\* the step and does not switch.  It may change the state of another process whose
\* lock is free.
Syscall(p, c) ==
  /\ UNCHANGED <<plock, cpu, cproc, yielding>>
  /\ pc[p] \notin LockPC /\ pc'[p] \notin LockPC \cup {"none"} /\ state'[p] = state[p]
  /\ \/ UNCHANGED wait_lock /\ (pc[p] \in WaitPC => pc'[p] \in WaitPC)
     \/ wait_lock' = c /\ pc'[p] \in WaitPC
     \/ wait_lock' = None
  /\ \A q \in ProcTable : q # p =>
       \/ state'[q] = state[q] /\ pc'[q] = pc[q]
       \/ /\ plock[q] = None /\ pc'[q] = pc[q]
          /\ \/ state[q] \in {"SLEEPING", "USED"} /\ state'[q] = "RUNNABLE"
             \/ state[q] = "ZOMBIE" /\ state'[q] = "UNUSED"
       \/ /\ plock[q] = None /\ state[q] = "UNUSED"
          /\ state'[q] = "USED" /\ pc'[q] = "forkret"

\* Such a step keeps CPUs, locks and threads together.
LEMMA SyscallKeeps ==
  ASSUME SchedInv, NEW p \in ProcTable, NEW c \in CPUs, On(p, c), Syscall(p, c)
  PROVE  CpusBusy' /\ LocksHeld' /\ ThreadsAt'
  <1> USE ProcAssumption DEF SchedInv, None
  <1>0. Runs(p, c)
    BY RunningThread, Zenon
  <1>1. \A q \in ProcTable : q # p /\ (state'[q] # state[q] \/ pc'[q] # pc[q]) =>
          \A d \in CPUs : cproc[d] # q
    <2> SUFFICES ASSUME NEW q \in ProcTable, q # p, state'[q] # state[q] \/ pc'[q] # pc[q]
                 PROVE  \A d \in CPUs : cproc[d] # q
      BY Zenon
    <2>1. plock[q] = None /\ state[q] # "RUNNING"
      BY Zenon DEF Syscall
    <2> QED BY <2>1, OffStack, Zenon
  <1>2. \A d \in CPUs : d # c => /\ cproc[d] # p
                                 /\ cproc[d] # None => /\ cproc[d] \in ProcTable
                                                       /\ state'[cproc[d]] = state[cproc[d]]
                                                       /\ pc'[cproc[d]] = pc[cproc[d]]
    BY <1>0, <1>1, Zenon DEF Runs, TypeOK
  <1>3. CpusBusy'
    BY <1>0, <1>2, SMTT(30) DEF CpusBusy, Syscall, Runs, LockPC
  <1>4. LocksHeld'
    BY <1>0, <1>2, SMTT(30) DEF LocksHeld, Syscall, Runs, CpusBusy, TypeOK
  <1>5. ThreadsAt'
    BY <1>0, SMTT(30) DEF ThreadsAt, Syscall, Runs, LockPC
  <1> QED BY <1>3, <1>4, <1>5, Zenon

\* Unless a step starts a fork() or ends one, the slots of the forks stay theirs.
LEMMA ForksKept ==
  ASSUME ForksApart, UNCHANGED np,
         \A q \in ProcTable : /\ pc'[q] \in ForkPC => pc[q] \in ForkPC
                              /\ state[q] = "USED" => state'[q] = "USED"
  PROVE  ForksApart'
  BY Zenon DEF ForksApart

\* usertrap(): a system call begins, or the process is found killed.
LEMMA Keeps_usertrap ==
  \A p \in ProcTable, c \in CPUs :
    Keeps(usertrap(p, c) \/ usertrap_killed(p, c) \/ usertrap_ret(p, c))
  <1> SUFFICES ASSUME NEW p \in ProcTable, NEW c \in CPUs, SchedInv,
                      usertrap(p, c) \/ usertrap_killed(p, c) \/ usertrap_ret(p, c)
               PROVE  SchedInv'
    BY Zenon DEF Keeps
  <1> USE DEF SchedInv
  <1>0. /\ On(p, c) /\ pc[p] \in {"user", "ret"}
        /\ UNCHANGED <<fields, locks, cpus, yielding, np, todo>>
        /\ \E l \in {"fork", "wait", "kill", "exit", "user"} : pc' = [pc EXCEPT ![p] = l]
    BY Zenon DEF usertrap, usertrap_killed, usertrap_ret, Goto
  <1> PICK l \in {"fork", "wait", "kill", "exit", "user"} : pc' = [pc EXCEPT ![p] = l]
    BY <1>0, ZenonT(20)
  <1>1. TypeOK'
    BY <1>0, ZenonT(20) DEF TypeOK, PC, fields, locks, cpus
  <1>2. Syscall(p, c)
    BY <1>0, Zenon DEF Syscall, TypeOK, LockPC, WaitPC, fields, locks, cpus
  <1>3. ForksApart'
    BY <1>0, ForksKept, ZenonT(40) DEF TypeOK, ForkPC, fields
  <1> QED BY <1>0, <1>1, <1>2, <1>3, SyscallKeeps, Zenon

\* kill() makes a sleeping process RUNNABLE.
LEMMA Keeps_kill == \A p \in ProcTable, c \in CPUs : Keeps(kill(p, c))
  <1> SUFFICES ASSUME NEW p \in ProcTable, NEW c \in CPUs, SchedInv, kill(p, c)
               PROVE  SchedInv'
    BY Zenon DEF Keeps
  <1> USE DEF SchedInv
  <1>0. /\ On(p, c) /\ pc[p] = "kill" /\ pc' = [pc EXCEPT ![p] = "ret"]
        /\ UNCHANGED <<chan, pid, parent, nextpid, locks, cpus, yielding, np, todo>>
        /\ \/ UNCHANGED <<killed, state>>
           \/ \E q \in ProcTable :
                /\ plock[q] = None
                /\ killed' = [killed EXCEPT ![q] = TRUE]
                /\ state' = [state EXCEPT ![q] = IF @ = "SLEEPING" THEN "RUNNABLE" ELSE @]
    BY Zenon DEF kill, Goto
  <1>1. state[p] = "RUNNING"
    BY <1>0, RunningThread, Zenon DEF Runs
  <1>2. killed' \in [ProcTable -> BOOLEAN]
    BY <1>0, ZenonT(20) DEF TypeOK
  <1>3. /\ state' \in [ProcTable -> States]
        /\ \A q \in ProcTable : \/ state'[q] = state[q]
                                \/ /\ plock[q] = None /\ state[q] = "SLEEPING"
                                   /\ state'[q] = "RUNNABLE"
    BY <1>0, ZenonT(40) DEF TypeOK, States
  <1>4. TypeOK'
    BY <1>0, <1>2, <1>3, ZenonT(20) DEF TypeOK, PC, locks, cpus
  <1>5. Syscall(p, c)
    BY <1>0, <1>1, <1>3, Zenon DEF Syscall, TypeOK, LockPC, WaitPC, locks, cpus
  <1>6. ForksApart'
    BY <1>0, <1>3, ForksKept, Zenon DEF TypeOK, ForkPC
  <1> QED BY <1>0, <1>4, <1>5, <1>6, SyscallKeeps, Zenon

\* fork() takes an unused slot for the child, or finds none.
LEMMA Keeps_fork == \A p \in ProcTable, c \in CPUs : Keeps(fork(p, c))
  <1> SUFFICES ASSUME NEW p \in ProcTable, NEW c \in CPUs, SchedInv, fork(p, c)
               PROVE  SchedInv'
    BY Zenon DEF Keeps
  <1> USE DEF SchedInv
  <1>0. On(p, c) /\ pc[p] = "fork" /\ UNCHANGED <<locks, cpus, yielding, todo>>
    BY Zenon DEF fork
  <1>1. state[p] = "RUNNING"
    BY <1>0, RunningThread, Zenon DEF Runs
  <1>2. CASE /\ pc' = [pc EXCEPT ![p] = "ret"]
             /\ UNCHANGED <<state, pid, parent, chan, killed, np, nextpid>>
    <2>1. TypeOK'
      BY <1>0, <1>2, Zenon DEF TypeOK, PC, locks, cpus
    <2>2. Syscall(p, c)
      BY <1>0, <1>2, Zenon DEF Syscall, TypeOK, LockPC, WaitPC, locks, cpus
    <2>3. ForksApart'
      BY <1>0, <1>2, ForksKept, Zenon DEF TypeOK, ForkPC
    <2> QED BY <1>0, <2>1, <2>2, <2>3, SyscallKeeps, Zenon
  <1>3. ASSUME NEW q \in ProcTable, state[q] = "UNUSED", plock[q] = None,
               nextpid <= MaxPid, nextpid' = nextpid + 1,
               freeproc(q), pc' = [pc EXCEPT ![p] = "ret"], UNCHANGED np
        PROVE  SchedInv'
    <2>0. state' = state
      BY <1>3, Zenon DEF freeproc, TypeOK
    <2>1. /\ pid' \in [ProcTable -> 0 .. MaxPid] /\ nextpid' \in 2 .. MaxPid + 1
          /\ parent' \in [ProcTable -> ProcTable \cup {None}]
          /\ chan' \in [ProcTable -> ProcTable \cup {None}]
      BY <1>3, ProcAssumption DEF TypeOK, freeproc
    <2>2. killed' \in [ProcTable -> BOOLEAN]
      BY <1>3, ZenonT(20) DEF TypeOK, freeproc
    <2>3. TypeOK'
      BY <1>0, <1>3, <2>0, <2>1, <2>2, ZenonT(20) DEF TypeOK, PC, locks, cpus
    <2>4. Syscall(p, c)
      BY <1>0, <1>3, <2>0, Zenon DEF Syscall, TypeOK, LockPC, WaitPC, locks, cpus
    <2>5. ForksApart'
      BY <1>0, <1>3, <2>0, ForksKept, Zenon DEF TypeOK, ForkPC
    <2> QED BY <1>0, <2>3, <2>4, <2>5, SyscallKeeps, Zenon
  <1>4. ASSUME NEW q \in ProcTable, state[q] = "UNUSED", plock[q] = None,
               nextpid <= MaxPid, nextpid' = nextpid + 1,
               state' = [state EXCEPT ![q] = "USED"], pid' = [pid EXCEPT ![q] = nextpid],
               np' = [np EXCEPT ![p] = q],
               pc' = [pc EXCEPT ![p] = "fork2", ![q] = "forkret"],
               UNCHANGED <<parent, chan, killed>>
        PROVE  SchedInv'
    <2>0. /\ plock[q] = None /\ state[q] = "UNUSED"
          /\ q # p /\ pc'[p] = "fork2" /\ pc'[q] = "forkret" /\ state'[q] = "USED" /\ np'[p] = q
          /\ \A r \in ProcTable : r # q => state'[r] = state[r]
          /\ \A r \in ProcTable : r # p => np'[r] = np[r]
          /\ \A r \in ProcTable : r # p /\ r # q => pc'[r] = pc[r]
      BY <1>1, <1>4, Zenon DEF TypeOK
    <2>1. pid' \in [ProcTable -> 0 .. MaxPid] /\ nextpid' \in 2 .. MaxPid + 1
      BY <1>4, ProcAssumption DEF TypeOK
    <2>2. TypeOK'
      BY <1>0, <1>4, <2>1, ZenonT(20) DEF TypeOK, PC, States, locks, cpus
    <2>a. \A r \in ProcTable : r # p =>
            \/ state'[r] = state[r] /\ pc'[r] = pc[r]
            \/ /\ plock[r] = None /\ state[r] = "UNUSED"
               /\ state'[r] = "USED" /\ pc'[r] = "forkret"
      BY <2>0, Zenon
    <2>b. /\ UNCHANGED <<plock, wait_lock, cpu, cproc, yielding>> /\ state'[p] = state[p]
          /\ pc[p] \notin LockPC \cup WaitPC /\ pc'[p] \notin LockPC \cup {"none"}
      BY <1>0, <2>0, Zenon DEF LockPC, WaitPC, locks, cpus
    <2>3. Syscall(p, c)
      BY <2>a, <2>b, Zenon DEF Syscall
    <2>4. ForksApart'
      BY <2>0 DEF ForksApart, ForkPC
    <2> QED BY <1>0, <2>2, <2>3, <2>4, SyscallKeeps, Zenon
  <1> QED BY <1>2, <1>3, <1>4, Zenon DEF fork, Goto

\* fork() sets the parent of the child.
LEMMA Keeps_fork2 == \A p \in ProcTable, c \in CPUs : Keeps(fork2(p, c))
  <1> SUFFICES ASSUME NEW p \in ProcTable, NEW c \in CPUs, SchedInv, fork2(p, c)
               PROVE  SchedInv'
    BY Zenon DEF Keeps
  <1> USE DEF SchedInv
  <1>0. /\ On(p, c) /\ pc[p] = "fork2" /\ parent' = [parent EXCEPT ![np[p]] = p]
        /\ pc' = [pc EXCEPT ![p] = "fork3"]
        /\ UNCHANGED <<state, chan, killed, pid, nextpid, locks, cpus, yielding, np, todo>>
    BY Zenon DEF fork2, Goto
  <1>1. TypeOK'
    BY <1>0, ZenonT(20) DEF TypeOK, PC, locks, cpus
  <1>2. Syscall(p, c)
    BY <1>0, Zenon DEF Syscall, TypeOK, LockPC, WaitPC, locks, cpus
  <1>3. ForksApart'
    BY <1>0, ForksKept, Zenon DEF TypeOK, ForkPC
  <1> QED BY <1>0, <1>1, <1>2, <1>3, SyscallKeeps, Zenon

\* fork() makes the child RUNNABLE: it is the one that it has allocated.
LEMMA Keeps_fork3 == \A p \in ProcTable, c \in CPUs : Keeps(fork3(p, c))
  <1> SUFFICES ASSUME NEW p \in ProcTable, NEW c \in CPUs, SchedInv, fork3(p, c)
               PROVE  SchedInv'
    BY Zenon DEF Keeps
  <1> USE DEF SchedInv
  <1>0. /\ On(p, c) /\ pc[p] = "fork3" /\ plock[np[p]] = None
        /\ state' = [state EXCEPT ![np[p]] = "RUNNABLE"] /\ np' = [np EXCEPT ![p] = None]
        /\ pc' = [pc EXCEPT ![p] = "ret"]
        /\ UNCHANGED <<chan, killed, pid, parent, nextpid, locks, cpus, yielding, todo>>
    BY Zenon DEF fork3, Goto
  <1>1. state[p] = "RUNNING" /\ np[p] \in ProcTable /\ state[np[p]] = "USED"
    BY <1>0, RunningThread, Zenon DEF Runs, ForksApart, ForkPC
  <1>2. /\ state'[np[p]] = "RUNNABLE" /\ pc'[p] = "ret" /\ np[p] # p
        /\ \A q \in ProcTable : q # np[p] => state'[q] = state[q]
        /\ \A q \in ProcTable : q # p => pc'[q] = pc[q] /\ np'[q] = np[q]
    BY <1>0, <1>1, Zenon DEF TypeOK
  <1>3. TypeOK'
    <2>1. state' \in [ProcTable -> States] /\ np' \in [ProcTable -> ProcTable \cup {None}]
      BY <1>0, ZenonT(20) DEF TypeOK, States
    <2> QED BY <1>0, <2>1, ZenonT(20) DEF TypeOK, PC, locks, cpus
  <1>4. Syscall(p, c)
    <2>1. /\ UNCHANGED <<plock, wait_lock, cpu, cproc, yielding>> /\ state'[p] = state[p]
          /\ pc[p] \notin LockPC \cup WaitPC /\ pc'[p] \notin LockPC \cup {"none"}
      BY <1>0, <1>1, <1>2, Zenon DEF LockPC, WaitPC, locks, cpus
    <2>2. plock[np[p]] = None
      BY <1>0, Zenon
    <2>3. \A q \in ProcTable : q # p =>
            \/ state'[q] = state[q] /\ pc'[q] = pc[q]
            \/ /\ plock[q] = None /\ pc'[q] = pc[q]
               /\ state[q] \in {"SLEEPING", "USED"} /\ state'[q] = "RUNNABLE"
      BY <1>1, <1>2, <2>2, Zenon
    <2> QED BY <2>1, <2>3, ZenonT(20) DEF Syscall
  <1>5. ForksApart'
    BY <1>0, <1>1, <1>2 DEF ForksApart, ForkPC
  <1> QED BY <1>0, <1>3, <1>4, <1>5, SyscallKeeps, Zenon
-----------------------------------------------------------------------------
(* wait() and exit() *)

\* wait() and exit() acquire wait_lock.
LEMMA Keeps_acquire ==
  \A p \in ProcTable, c \in CPUs : Keeps(wait(p, c) \/ exit(p, c))
  <1> SUFFICES ASSUME NEW p \in ProcTable, NEW c \in CPUs, SchedInv, wait(p, c) \/ exit(p, c)
               PROVE  SchedInv'
    BY Zenon DEF Keeps
  <1> USE DEF SchedInv
  <1>0. /\ On(p, c) /\ pc[p] \in {"wait", "exit"} /\ wait_lock' = c
        /\ pc' = [pc EXCEPT ![p] = IF pc[p] = "wait" THEN "scan" ELSE "reparent"]
        /\ todo' = [todo EXCEPT ![p] = Children(p)] \/ UNCHANGED todo
        /\ UNCHANGED <<fields, plock, cpus, yielding, np>>
    BY Zenon DEF wait, exit, Goto
  <1>1. TypeOK'
    <2>1. todo' \in [ProcTable -> SUBSET ProcTable]
      BY <1>0 DEF TypeOK, Children
    <2>2. pc' \in [ProcTable -> PC] /\ wait_lock' \in CPUs \cup {None}
      BY <1>0, Zenon DEF TypeOK, PC
    <2> QED BY <1>0, <2>1, <2>2, ZenonT(20) DEF TypeOK, fields, cpus
  <1>2. Syscall(p, c)
    BY <1>0, Zenon DEF Syscall, TypeOK, LockPC, WaitPC, fields, cpus
  <1>3. ForksApart'
    BY <1>0, ForksKept, Zenon DEF TypeOK, ForkPC, fields
  <1> QED BY <1>0, <1>1, <1>2, <1>3, SyscallKeeps, Zenon

\* wait() frees only a zombie that nobody runs any more.
LEMMA Keeps_wait_scan == \A p \in ProcTable, c \in CPUs : Keeps(wait_scan(p, c))
  <1> SUFFICES ASSUME NEW p \in ProcTable, NEW c \in CPUs, SchedInv, wait_scan(p, c)
               PROVE  SchedInv'
    BY Zenon DEF Keeps
  <1> USE DEF SchedInv
  <1>0. On(p, c) /\ pc[p] = "scan" /\ UNCHANGED <<nextpid, plock, cpus, yielding, np>>
    BY Zenon DEF wait_scan
  <1>1. state[p] = "RUNNING"
    BY <1>0, RunningThread, Zenon DEF Runs
  <1>2. PICK pp : \/ /\ plock[pp] = None /\ state[pp] = "ZOMBIE"
                     /\ freeproc(pp) \/ UNCHANGED <<state, pid, parent, chan, killed>>
                     /\ wait_lock' = None /\ todo' = [todo EXCEPT ![p] = {}]
                     /\ pc' = [pc EXCEPT ![p] = "ret"]
                  \/ /\ todo' = [todo EXCEPT ![p] = @ \ {pp}]
                     /\ UNCHANGED <<state, pid, parent, chan, killed, wait_lock, pc>>
    BY Zenon DEF wait_scan, Goto
  <1>3. /\ state' \in [ProcTable -> States]
        /\ \A q \in ProcTable : \/ state'[q] = state[q]
                                \/ /\ plock[q] = None /\ state[q] = "ZOMBIE"
                                   /\ state'[q] = "UNUSED"
    BY <1>2 DEF freeproc, TypeOK, States
  <1>4. /\ pid' \in [ProcTable -> 0 .. MaxPid]
        /\ parent' \in [ProcTable -> ProcTable \cup {None}]
        /\ chan' \in [ProcTable -> ProcTable \cup {None}]
    BY <1>2, ProcAssumption DEF TypeOK, freeproc
  <1>5. killed' \in [ProcTable -> BOOLEAN]
    BY <1>2, ZenonT(20) DEF TypeOK, freeproc
  <1>6. /\ pc' \in [ProcTable -> PC] /\ todo' \in [ProcTable -> SUBSET ProcTable]
        /\ wait_lock' \in CPUs \cup {None}
        /\ \/ pc'[p] = "scan" /\ UNCHANGED wait_lock
           \/ pc'[p] = "ret" /\ wait_lock' = None
        /\ \A q \in ProcTable : q # p => pc'[q] = pc[q]
    BY <1>0, <1>2 DEF TypeOK, PC
  <1>7. TypeOK'
    BY <1>0, <1>3, <1>4, <1>5, <1>6, ZenonT(20) DEF TypeOK, cpus
  <1>8. Syscall(p, c)
    BY <1>0, <1>1, <1>3, <1>6, Zenon DEF Syscall, LockPC, WaitPC, cpus
  <1>9. ForksApart'
    BY <1>0, <1>3, <1>6, ForksKept, Zenon DEF ForkPC
  <1> QED BY <1>0, <1>7, <1>8, <1>9, SyscallKeeps, Zenon

\* wait() returns or goes on to sleep().
LEMMA Keeps_wait_check == \A p \in ProcTable, c \in CPUs : Keeps(wait_check(p, c))
  <1> SUFFICES ASSUME NEW p \in ProcTable, NEW c \in CPUs, SchedInv, wait_check(p, c)
               PROVE  SchedInv'
    BY Zenon DEF Keeps
  <1> USE DEF SchedInv
  <1>0. /\ On(p, c) /\ pc[p] = "scan" /\ UNCHANGED <<fields, plock, cpus, yielding, np, todo>>
        /\ \/ wait_lock' = None /\ pc' = [pc EXCEPT ![p] = "ret"]
           \/ UNCHANGED wait_lock /\ pc' = [pc EXCEPT ![p] = "sleep"]
    BY Zenon DEF wait_check, Goto
  <1>1. TypeOK'
    <2>1. pc' \in [ProcTable -> PC] /\ wait_lock' \in CPUs \cup {None}
      BY <1>0 DEF TypeOK, PC
    <2> QED BY <1>0, <2>1, ZenonT(20) DEF TypeOK, fields, cpus
  <1>2. Syscall(p, c)
    BY <1>0, ZenonT(40) DEF Syscall, TypeOK, LockPC, WaitPC, fields, cpus
  <1>3. ForksApart'
    BY <1>0, ForksKept, Zenon DEF TypeOK, ForkPC, fields
  <1> QED BY <1>0, <1>1, <1>2, <1>3, SyscallKeeps, Zenon

\* reparent() changes parents only.
LEMMA Keeps_reparent == \A p \in ProcTable, c \in CPUs : Keeps(reparent(p, c))
  <1> SUFFICES ASSUME NEW p \in ProcTable, NEW c \in CPUs, SchedInv, reparent(p, c)
               PROVE  SchedInv'
    BY Zenon DEF Keeps
  <1> USE DEF SchedInv
  <1>0. /\ On(p, c) /\ pc[p] = "reparent" /\ todo' = [todo EXCEPT ![p] = ProcTable \ {p}]
        /\ UNCHANGED <<state, chan, killed, pid, nextpid, locks, cpus, yielding, np>>
        /\ pc' = [pc EXCEPT ![p] = IF Children(p) = {} THEN "wakeup_parent" ELSE "wakeup_init"]
        /\ UNCHANGED parent \/ parent' = [parent EXCEPT ![Min(Children(p))] = initproc]
    BY Zenon DEF reparent, Goto
  <1>1. TypeOK'
    <2>1. parent' \in [ProcTable -> ProcTable \cup {None}]
      BY <1>0, ProcAssumption, SMTT(60) DEF TypeOK, initproc, ProcTable
    <2>2. pc' \in [ProcTable -> PC] /\ todo' \in [ProcTable -> SUBSET ProcTable]
      BY <1>0, Zenon DEF TypeOK, PC
    <2> QED BY <1>0, <2>1, <2>2, ZenonT(20) DEF TypeOK, locks, cpus
  <1>2. Syscall(p, c)
    BY <1>0, Zenon DEF Syscall, TypeOK, LockPC, WaitPC, locks, cpus
  <1>3. ForksApart'
    BY <1>0, ForksKept, Zenon DEF TypeOK, ForkPC
  <1> QED BY <1>0, <1>1, <1>2, <1>3, SyscallKeeps, Zenon

\* wakeup() makes a sleeping process RUNNABLE.
LEMMA Keeps_wakeup ==
  \A p \in ProcTable, c \in CPUs : Keeps(wakeup_init(p, c) \/ wakeup_parent(p, c))
  <1> SUFFICES ASSUME NEW p \in ProcTable, NEW c \in CPUs, SchedInv,
                      wakeup_init(p, c) \/ wakeup_parent(p, c)
               PROVE  SchedInv'
    BY Zenon DEF Keeps
  <1> USE DEF SchedInv
  <1>0. PICK q, ch, l :
          /\ On(p, c) /\ pc[p] \in {"wakeup_init", "wakeup_parent"} /\ plock[q] = None
          /\ state' = [state EXCEPT ![q] = IF @ = "SLEEPING" /\ chan[q] = ch
                                           THEN "RUNNABLE" ELSE @]
          /\ todo' = [todo EXCEPT ![p] = @ \ {q}]
          /\ pc' = [pc EXCEPT ![p] = l] /\ l \in {"reparent", "zombie", pc[p]}
          /\ UNCHANGED <<chan, killed, pid, parent, nextpid, locks, cpus, yielding, np>>
    BY Zenon DEF wakeup_init, wakeup_parent, wakeup, Goto
  <1>1. state[p] = "RUNNING"
    BY <1>0, RunningThread, Zenon DEF Runs
  <1>2. /\ state' \in [ProcTable -> States]
        /\ \A r \in ProcTable : \/ state'[r] = state[r]
                                \/ /\ plock[r] = None /\ state[r] = "SLEEPING"
                                   /\ state'[r] = "RUNNABLE"
    BY <1>0, ZenonT(20) DEF TypeOK, States
  <1>3. /\ pc' \in [ProcTable -> PC] /\ pc[p] \in WaitPC /\ pc'[p] \in WaitPC
        /\ \A r \in ProcTable : r # p => pc'[r] = pc[r]
        /\ todo' \in [ProcTable -> SUBSET ProcTable]
    BY <1>0, Zenon DEF TypeOK, PC, WaitPC
  <1>4. TypeOK'
    BY <1>0, <1>2, <1>3, ZenonT(20) DEF TypeOK, locks, cpus
  <1>5. Syscall(p, c)
    BY <1>0, <1>1, <1>2, <1>3, Zenon DEF Syscall, LockPC, WaitPC, locks, cpus
  <1>6. ForksApart'
    BY <1>0, <1>2, <1>3, ForksKept, Zenon DEF ForkPC, WaitPC
  <1> QED BY <1>0, <1>4, <1>5, <1>6, SyscallKeeps, Zenon
-----------------------------------------------------------------------------
(* Switches and the hand-over of p->lock. *)

\* scheduler() takes only a process whose stack no CPU is on.
LEMMA Keeps_scheduler == \A p \in ProcTable, c \in CPUs : Keeps(scheduler(c, p))
  <1> SUFFICES ASSUME NEW p \in ProcTable, NEW c \in CPUs, SchedInv, scheduler(c, p)
               PROVE  SchedInv'
    BY Zenon DEF Keeps
  <1> USE ProcAssumption DEF SchedInv, None
  <1>0. /\ cpu[c] = "sched" /\ plock[p] = None /\ state[p] = "RUNNABLE"
        /\ plock' = [plock EXCEPT ![p] = c] /\ state' = [state EXCEPT ![p] = "RUNNING"]
        /\ cpu' = [cpu EXCEPT ![c] = "run"] /\ cproc' = [cproc EXCEPT ![c] = p]
        /\ UNCHANGED <<chan, killed, pid, parent, nextpid, wait_lock, pc, yielding, np, todo>>
    BY Zenon DEF scheduler, threads
  <1>1. /\ plock'[p] = c /\ state'[p] = "RUNNING" /\ cpu'[c] = "run" /\ cproc'[c] = p
        /\ \A q \in ProcTable : q # p => plock'[q] = plock[q] /\ state'[q] = state[q]
        /\ \A d \in CPUs : d # c => cpu'[d] = cpu[d] /\ cproc'[d] = cproc[d]
        /\ UNCHANGED <<wait_lock, pc, yielding>> /\ p # 0
    BY <1>0 DEF TypeOK, ProcTable
  <1>2. /\ \A d \in CPUs : cproc[d] # p
        /\ cproc[c] = 0 /\ wait_lock # c /\ \A q \in ProcTable : plock[q] # c
        /\ p \in yielding \/ pc[p] \in {"forkret", "woken"}
    BY <1>0, OffStack DEF CpusBusy, LocksHeld, ThreadsAt, ProcTable
  <1>3. TypeOK'
    BY <1>0, ZenonT(20) DEF TypeOK, States
  <1>4. CpusBusy'
    BY <1>1, <1>2 DEF CpusBusy, TypeOK, ThreadsAt, LockPC
  <1>5. LocksHeld'
    BY <1>1, <1>2 DEF LocksHeld, CpusBusy, TypeOK, LockPC
  <1>6. ThreadsAt'
    BY <1>1, <1>2 DEF ThreadsAt, LockPC
  <1>7. ForksApart'
    BY <1>0, <1>1, ForksKept, Zenon
  <1> QED BY <1>3, <1>4, <1>5, <1>6, <1>7, Zenon

\* scheduler() releases the lock that the process took before it switched.
LEMMA Keeps_scheduler_back == \A c \in CPUs : Keeps(scheduler_back(c))
  <1> SUFFICES ASSUME NEW c \in CPUs, SchedInv, scheduler_back(c)
               PROVE  SchedInv'
    BY Zenon DEF Keeps
  <1> USE ProcAssumption DEF SchedInv, None
  <1> DEFINE p == cproc[c]
  <1>0. /\ cpu[c] = "back" /\ plock' = [plock EXCEPT ![p] = None]
        /\ cpu' = [cpu EXCEPT ![c] = "sched"] /\ cproc' = [cproc EXCEPT ![c] = None]
        /\ UNCHANGED <<state, chan, killed, pid, parent, nextpid, wait_lock, pc, yielding,
                       np, todo>>
    BY Zenon DEF scheduler_back, fields, threads
  <1>1. /\ p \in ProcTable /\ p # 0 /\ plock[p] = c /\ wait_lock # c
        /\ \A d \in CPUs : d # c => cproc[d] # p
        /\ \A q \in ProcTable : plock[q] = c => q = p
    BY <1>0 DEF CpusBusy, LocksHeld, TypeOK, ProcTable
  <1>2. /\ plock'[p] = 0 /\ cpu'[c] = "sched" /\ cproc'[c] = 0
        /\ \A q \in ProcTable : q # p => plock'[q] = plock[q]
        /\ \A d \in CPUs : d # c => cpu'[d] = cpu[d] /\ cproc'[d] = cproc[d]
        /\ UNCHANGED <<state, wait_lock, pc, yielding>>
    BY <1>0, <1>1, ZenonT(40) DEF TypeOK
  <1>3. TypeOK'
    BY <1>0, ZenonT(20) DEF TypeOK
  <1> HIDE DEF p
  <1>4. CpusBusy'
    BY <1>1, <1>2 DEF CpusBusy, TypeOK
  <1>5. LocksHeld'
    BY <1>1, <1>2 DEF LocksHeld, CpusBusy, TypeOK
  <1>6. ThreadsAt'
    BY <1>2, Zenon DEF ThreadsAt
  <1>7. ForksApart'
    BY <1>0, <1>2, ForksKept, Zenon
  <1> QED BY <1>3, <1>4, <1>5, <1>6, <1>7, Zenon

\* yield() takes p->lock of a process that holds none, and leaves its stack.
LEMMA Keeps_yield == \A p \in ProcTable, c \in CPUs : Keeps(yield(p, c))
  <1> SUFFICES ASSUME NEW p \in ProcTable, NEW c \in CPUs, SchedInv, yield(p, c)
               PROVE  SchedInv'
    BY Zenon DEF Keeps
  <1> USE ProcAssumption DEF SchedInv, None
  <1>0. /\ On(p, c) /\ NoLocks(c) /\ plock[p] = None
        /\ plock' = [plock EXCEPT ![p] = c] /\ state' = [state EXCEPT ![p] = "RUNNABLE"]
        /\ yielding' = yielding \cup {p} /\ cpu' = [cpu EXCEPT ![c] = "back"]
        /\ UNCHANGED <<cproc, chan, killed, pid, parent, nextpid, wait_lock, pc, np, todo>>
    BY Zenon DEF yield, sched
  <1>1. Runs(p, c) /\ p # 0
    BY <1>0, RunningThread DEF ProcTable
  <1>2. /\ plock'[p] = c /\ state'[p] = "RUNNABLE" /\ cpu'[c] = "back"
        /\ pc[p] \notin LockPC /\ state[p] = "RUNNING" /\ wait_lock # c
        /\ \A q \in ProcTable : q # p => /\ plock'[q] = plock[q] /\ state'[q] = state[q]
                                         /\ q \in yielding' <=> q \in yielding
        /\ p \in yielding' /\ \A d \in CPUs : d # c => cpu'[d] = cpu[d]
        /\ UNCHANGED <<cproc, wait_lock, pc>>
    BY <1>0, <1>1 DEF TypeOK, Runs, NoLocks, LockPC
  <1>3. TypeOK'
    BY <1>0, ZenonT(20) DEF TypeOK, States
  <1>4. CpusBusy'
    BY <1>1, <1>2 DEF CpusBusy, TypeOK, Runs, ThreadsAt, LockPC
  <1>5. LocksHeld'
    BY <1>1, <1>2 DEF LocksHeld, CpusBusy, TypeOK, Runs, LockPC
  <1>6. ThreadsAt'
    BY <1>1, <1>2 DEF ThreadsAt, Runs, LockPC
  <1>7. ForksApart'
    BY <1>0, <1>2, ForksKept, Zenon DEF ForkPC
  <1> QED BY <1>3, <1>4, <1>5, <1>6, <1>7, Zenon

\* The rest of yield() releases the lock that scheduler() took.
LEMMA Keeps_yield_back == \A p \in ProcTable, c \in CPUs : Keeps(yield_back(p, c))
  <1> SUFFICES ASSUME NEW p \in ProcTable, NEW c \in CPUs, SchedInv, yield_back(p, c)
               PROVE  SchedInv'
    BY Zenon DEF Keeps
  <1> USE ProcAssumption DEF SchedInv, None
  <1>0. /\ cpu[c] = "run" /\ cproc[c] = p /\ p \in yielding
        /\ yielding' = yielding \ {p} /\ plock' = [plock EXCEPT ![p] = None]
        /\ UNCHANGED <<fields, wait_lock, cpus, pc, np, todo>>
    BY Zenon DEF yield_back
  <1>1. /\ plock[p] = c /\ wait_lock # c /\ pc[p] \notin LockPC /\ state[p] = "RUNNING" /\ p # 0
        /\ \A q \in ProcTable : plock[q] = c => q = p
        /\ \A d \in CPUs : cproc[d] = p => d = c
    BY <1>0 DEF LocksHeld, CpusBusy, ThreadsAt, LockPC, ProcTable
  <1>2. /\ plock'[p] = 0 /\ p \notin yielding'
        /\ \A q \in ProcTable : q # p => plock'[q] = plock[q] /\ (q \in yielding' <=> q \in yielding)
        /\ UNCHANGED <<cproc, cpu, state, wait_lock, pc, np>>
    BY <1>0, Zenon DEF TypeOK, fields, cpus
  <1>3. TypeOK'
    BY <1>0, ZenonT(20) DEF TypeOK, fields, cpus
  <1>4. CpusBusy'
    BY <1>0, <1>1, <1>2 DEF CpusBusy, TypeOK
  <1>5. LocksHeld'
    BY <1>0, <1>1, <1>2 DEF LocksHeld, CpusBusy, TypeOK
  <1>6. ThreadsAt'
    BY <1>1, <1>2, Zenon DEF ThreadsAt
  <1>7. ForksApart'
    BY <1>2, ForksKept, Zenon
  <1> QED BY <1>3, <1>4, <1>5, <1>6, <1>7, Zenon

\* A new process releases the lock that scheduler() took.
LEMMA Keeps_forkret == \A p \in ProcTable, c \in CPUs : Keeps(forkret(p, c))
  <1> SUFFICES ASSUME NEW p \in ProcTable, NEW c \in CPUs, SchedInv, forkret(p, c)
               PROVE  SchedInv'
    BY Zenon DEF Keeps
  <1> USE ProcAssumption DEF SchedInv, None
  <1>0. /\ On(p, c) /\ pc[p] = "forkret" /\ plock' = [plock EXCEPT ![p] = None]
        /\ pc' = [pc EXCEPT ![p] = "user"]
        /\ UNCHANGED <<fields, wait_lock, cpus, yielding, np, todo>>
    BY Zenon DEF forkret, Goto
  <1>1. Runs(p, c) /\ p # 0
    BY <1>0, RunningThread DEF ProcTable
  <1>2. /\ plock'[p] = 0 /\ pc'[p] = "user" /\ state[p] = "RUNNING"
        /\ \A q \in ProcTable : q # p => plock'[q] = plock[q] /\ pc'[q] = pc[q]
        /\ UNCHANGED <<cpu, cproc, state, yielding, wait_lock, np>> /\ wait_lock # c
    BY <1>0, <1>1, Zenon DEF TypeOK, Runs, WaitPC, fields, cpus
  <1>3. TypeOK'
    BY <1>0, ZenonT(20) DEF TypeOK, PC, fields, cpus
  <1>4. CpusBusy'
    BY <1>1, <1>2 DEF CpusBusy, TypeOK, Runs, ThreadsAt, LockPC
  <1>5. LocksHeld'
    BY <1>1, <1>2 DEF LocksHeld, CpusBusy, TypeOK, Runs, LockPC
  <1>6. ThreadsAt'
    BY <1>1, <1>2 DEF ThreadsAt, Runs, LockPC
  <1>7. ForksApart'
    BY <1>0, <1>2, ForksKept, Zenon DEF ForkPC
  <1> QED BY <1>3, <1>4, <1>5, <1>6, <1>7, Zenon

\* sleep() takes p->lock and releases wait_lock.
LEMMA Keeps_sleep == \A p \in ProcTable, c \in CPUs : Keeps(sleep(p, c))
  <1> SUFFICES ASSUME NEW p \in ProcTable, NEW c \in CPUs, SchedInv, sleep(p, c)
               PROVE  SchedInv'
    BY Zenon DEF Keeps
  <1> USE ProcAssumption DEF SchedInv, None
  <1>0. /\ On(p, c) /\ pc[p] = "sleep" /\ plock[p] = None
        /\ plock' = [plock EXCEPT ![p] = c] /\ wait_lock' = None
        /\ pc' = [pc EXCEPT ![p] = "sleep2"]
        /\ UNCHANGED <<fields, cpus, yielding, np, todo>>
    BY Zenon DEF sleep, Goto
  <1>1. Runs(p, c) /\ p # 0
    BY <1>0, RunningThread DEF ProcTable
  <1>2. /\ plock'[p] = c /\ pc'[p] = "sleep2" /\ state[p] = "RUNNING" /\ wait_lock' = 0
        /\ \A q \in ProcTable : q # p => plock'[q] = plock[q] /\ pc'[q] = pc[q]
        /\ UNCHANGED <<cpu, cproc, state, yielding, np>>
    BY <1>0, <1>1 DEF TypeOK, Runs, fields, cpus
  <1>3. TypeOK'
    BY <1>0, ZenonT(20) DEF TypeOK, PC, fields, cpus
  <1>4. CpusBusy'
    BY <1>1, <1>2 DEF CpusBusy, TypeOK, Runs, ThreadsAt, LockPC
  <1>5. LocksHeld'
    BY <1>1, <1>2 DEF LocksHeld, CpusBusy, TypeOK, Runs, LockPC
  <1>6. ThreadsAt'
    BY <1>1, <1>2 DEF ThreadsAt, Runs, LockPC
  <1>7. ForksApart'
    BY <1>0, <1>2, ForksKept, Zenon DEF ForkPC
  <1> QED BY <1>3, <1>4, <1>5, <1>6, <1>7, Zenon

\* sleep() leaves the CPU with p->lock held.
LEMMA Keeps_sleep2 == \A p \in ProcTable, c \in CPUs : Keeps(sleep2(p, c))
  <1> SUFFICES ASSUME NEW p \in ProcTable, NEW c \in CPUs, SchedInv, sleep2(p, c)
               PROVE  SchedInv'
    BY Zenon DEF Keeps
  <1> USE ProcAssumption DEF SchedInv, None
  <1>0. /\ On(p, c) /\ pc[p] = "sleep2" /\ chan' = [chan EXCEPT ![p] = p]
        /\ state' = [state EXCEPT ![p] = "SLEEPING"] /\ cpu' = [cpu EXCEPT ![c] = "back"]
        /\ pc' = [pc EXCEPT ![p] = "woken"]
        /\ UNCHANGED <<cproc, killed, pid, parent, nextpid, locks, yielding, np, todo>>
    BY Zenon DEF sleep2, sched, Goto
  <1>1. Runs(p, c) /\ p # 0
    BY <1>0, RunningThread DEF ProcTable
  <1>2. /\ state'[p] = "SLEEPING" /\ pc'[p] = "woken" /\ cpu'[c] = "back"
        /\ plock[p] = c /\ state[p] = "RUNNING" /\ wait_lock # c
        /\ \A q \in ProcTable : q # p => state'[q] = state[q] /\ pc'[q] = pc[q]
        /\ \A d \in CPUs : d # c => cpu'[d] = cpu[d]
        /\ UNCHANGED <<cproc, plock, wait_lock, yielding, np>>
    BY <1>0, <1>1, ZenonT(40) DEF TypeOK, Runs, LockPC, WaitPC, locks
  <1>3. TypeOK'
    BY <1>0, ZenonT(20) DEF TypeOK, PC, States, locks
  <1>4. CpusBusy'
    BY <1>1, <1>2 DEF CpusBusy, TypeOK, Runs, ThreadsAt, LockPC
  <1>5. LocksHeld'
    BY <1>1, <1>2 DEF LocksHeld, CpusBusy, TypeOK, Runs, LockPC
  <1>6. ThreadsAt'
    BY <1>1, <1>2 DEF ThreadsAt, Runs, LockPC
  <1>7. ForksApart'
    BY <1>0, <1>2, ForksKept, Zenon DEF ForkPC
  <1> QED BY <1>3, <1>4, <1>5, <1>6, <1>7, Zenon

\* A process that was woken releases the lock that scheduler() took.
LEMMA Keeps_woken == \A p \in ProcTable, c \in CPUs : Keeps(woken(p, c))
  <1> SUFFICES ASSUME NEW p \in ProcTable, NEW c \in CPUs, SchedInv, woken(p, c)
               PROVE  SchedInv'
    BY Zenon DEF Keeps
  <1> USE ProcAssumption DEF SchedInv, None
  <1>0. /\ On(p, c) /\ pc[p] = "woken" /\ chan' = [chan EXCEPT ![p] = None]
        /\ plock' = [plock EXCEPT ![p] = None] /\ pc' = [pc EXCEPT ![p] = "wait"]
        /\ UNCHANGED <<state, killed, pid, parent, nextpid, wait_lock, cpus, yielding, np, todo>>
    BY Zenon DEF woken, Goto
  <1>1. Runs(p, c) /\ p # 0
    BY <1>0, RunningThread DEF ProcTable
  <1>2. /\ plock'[p] = 0 /\ pc'[p] = "wait" /\ state[p] = "RUNNING"
        /\ \A q \in ProcTable : q # p => plock'[q] = plock[q] /\ pc'[q] = pc[q]
        /\ UNCHANGED <<cpu, cproc, state, yielding, wait_lock, np>> /\ wait_lock # c
    BY <1>0, <1>1, Zenon DEF TypeOK, Runs, WaitPC, cpus
  <1>3. TypeOK'
    BY <1>0, ZenonT(20) DEF TypeOK, PC, cpus
  <1>4. CpusBusy'
    BY <1>1, <1>2 DEF CpusBusy, TypeOK, Runs, ThreadsAt, LockPC
  <1>5. LocksHeld'
    BY <1>1, <1>2 DEF LocksHeld, CpusBusy, TypeOK, Runs, LockPC
  <1>6. ThreadsAt'
    BY <1>1, <1>2 DEF ThreadsAt, Runs, LockPC
  <1>7. ForksApart'
    BY <1>0, <1>2, ForksKept, Zenon DEF ForkPC
  <1> QED BY <1>3, <1>4, <1>5, <1>6, <1>7, Zenon

\* exit() takes p->lock before it gives up wait_lock.
LEMMA Keeps_zombie == \A p \in ProcTable, c \in CPUs : Keeps(zombie(p, c))
  <1> SUFFICES ASSUME NEW p \in ProcTable, NEW c \in CPUs, SchedInv, zombie(p, c)
               PROVE  SchedInv'
    BY Zenon DEF Keeps
  <1> USE ProcAssumption DEF SchedInv, None
  <1>0. /\ On(p, c) /\ pc[p] = "zombie" /\ plock[p] = None
        /\ plock' = [plock EXCEPT ![p] = c] /\ state' = [state EXCEPT ![p] = "ZOMBIE"]
        /\ wait_lock' = None /\ pc' = [pc EXCEPT ![p] = "dead"]
        /\ UNCHANGED <<chan, killed, pid, parent, nextpid, cpus, yielding, np, todo>>
    BY Zenon DEF zombie, Goto
  <1>1. Runs(p, c) /\ p # 0
    BY <1>0, RunningThread DEF ProcTable
  <1>2. /\ plock'[p] = c /\ pc'[p] = "dead" /\ state'[p] = "ZOMBIE" /\ wait_lock' = 0
        /\ state[p] = "RUNNING"
        /\ \A q \in ProcTable : q # p =>
             plock'[q] = plock[q] /\ pc'[q] = pc[q] /\ state'[q] = state[q]
        /\ UNCHANGED <<cpu, cproc, yielding, np>>
    BY <1>0, <1>1 DEF TypeOK, Runs, cpus
  <1>3. TypeOK'
    BY <1>0, ZenonT(20) DEF TypeOK, PC, States, cpus
  <1>4. CpusBusy'
    BY <1>1, <1>2 DEF CpusBusy, TypeOK, Runs, ThreadsAt, LockPC
  <1>5. LocksHeld'
    BY <1>1, <1>2 DEF LocksHeld, CpusBusy, TypeOK, Runs, LockPC
  <1>6. ThreadsAt'
    BY <1>1, <1>2 DEF ThreadsAt, Runs, LockPC
  <1>7. ForksApart'
    BY <1>0, <1>2, ForksKept, Zenon DEF ForkPC
  <1> QED BY <1>3, <1>4, <1>5, <1>6, <1>7, Zenon

\* exit() leaves the CPU for good, with p->lock held.
LEMMA Keeps_dead == \A p \in ProcTable, c \in CPUs : Keeps(dead(p, c))
  <1> SUFFICES ASSUME NEW p \in ProcTable, NEW c \in CPUs, SchedInv, dead(p, c)
               PROVE  SchedInv'
    BY Zenon DEF Keeps
  <1> USE ProcAssumption DEF SchedInv, None
  <1>0. /\ On(p, c) /\ pc[p] = "dead" /\ cpu' = [cpu EXCEPT ![c] = "back"]
        /\ UNCHANGED <<cproc, fields, locks, threads>>
    BY Zenon DEF dead, sched
  <1>1. Runs(p, c) /\ p # 0
    BY <1>0, RunningThread DEF ProcTable
  <1>2. /\ cpu'[c] = "back" /\ plock[p] = c /\ state[p] = "ZOMBIE" /\ wait_lock # c
        /\ \A d \in CPUs : d # c => cpu'[d] = cpu[d]
        /\ UNCHANGED <<cproc, state, plock, wait_lock, pc, yielding, np>>
    BY <1>0, <1>1, Zenon DEF TypeOK, Runs, LockPC, WaitPC, fields, locks, threads
  <1>3. TypeOK'
    BY <1>0, ZenonT(20) DEF TypeOK, fields, locks, threads
  <1>4. CpusBusy'
    BY <1>1, <1>2 DEF CpusBusy, TypeOK, Runs, ThreadsAt, LockPC
  <1>5. LocksHeld'
    BY <1>1, <1>2 DEF LocksHeld, CpusBusy, TypeOK, Runs, LockPC
  <1>6. ThreadsAt'
    BY <1>1, <1>2, Zenon DEF ThreadsAt, Runs, LockPC
  <1>7. ForksApart'
    BY <1>0, <1>2, ForksKept, Zenon DEF ForkPC
  <1> QED BY <1>3, <1>4, <1>5, <1>6, <1>7, Zenon
-----------------------------------------------------------------------------
\* userinit() leaves one RUNNABLE process and every CPU in scheduler().
LEMMA InitSched == Init => SchedInv
  <1> SUFFICES ASSUME Init PROVE SchedInv
    BY Zenon
  <1> USE ProcAssumption DEF Init, ProcTable, None, initproc
  <1>1. TypeOK
    <2>1. state \in [ProcTable -> States] /\ pc \in [ProcTable -> PC]
      BY Zenon DEF States, PC
    <2>2. /\ pid \in [ProcTable -> 0 .. MaxPid] /\ nextpid \in 2 .. MaxPid + 1
          /\ cpu \in [CPUs -> {"sched", "run", "back"}]
      OBVIOUS
    <2>3. /\ chan \in [ProcTable -> ProcTable \cup {None}]
          /\ killed \in [ProcTable -> BOOLEAN]
          /\ parent \in [ProcTable -> ProcTable \cup {None}]
          /\ plock \in [ProcTable -> CPUs \cup {None}] /\ wait_lock \in CPUs \cup {None}
          /\ cproc \in [CPUs -> ProcTable \cup {None}] /\ yielding \subseteq ProcTable
          /\ np \in [ProcTable -> ProcTable \cup {None}]
          /\ todo \in [ProcTable -> SUBSET ProcTable]
      BY ZenonT(20)
    <2> QED BY <2>1, <2>2, <2>3, ZenonT(20) DEF TypeOK
  <1>2. CpusBusy /\ LocksHeld
    BY Zenon DEF CpusBusy, LocksHeld
  <1>3. ThreadsAt /\ ForksApart
    BY Zenon DEF ThreadsAt, ForksApart, ForkPC
  <1> QED BY <1>1, <1>2, <1>3, Zenon DEF SchedInv

\* A step that changes nothing.
LEMMA SameSched == ASSUME SchedInv, UNCHANGED vars PROVE SchedInv'
  BY DEF SchedInv, TypeOK, CpusBusy, LocksHeld, ThreadsAt, ForksApart, vars, fields, locks,
         cpus, threads

LEMMA NextSched == ASSUME SchedInv, [Next]_vars PROVE SchedInv'
  <1>1. CASE UNCHANGED vars
    BY <1>1, SameSched, Zenon
  <1>2. CASE \E c \in CPUs : scheduler_back(c)
    BY <1>2, Keeps_scheduler_back, Zenon DEF Keeps
  <1>3. ASSUME NEW p \in ProcTable, NEW c \in CPUs,
               \/ scheduler(c, p) \/ yield(p, c) \/ yield_back(p, c)
               \/ usertrap(p, c) \/ Thread(p, c)
        PROVE  SchedInv'
    <2>1. CASE scheduler(c, p) \/ yield(p, c) \/ yield_back(p, c)
      BY <2>1, Keeps_scheduler, Keeps_yield, Keeps_yield_back, Zenon DEF Keeps
    <2>2. CASE usertrap(p, c) \/ usertrap_killed(p, c) \/ usertrap_ret(p, c)
      BY <2>2, Keeps_usertrap, Zenon DEF Keeps
    <2>3. CASE kill(p, c) \/ fork(p, c) \/ fork2(p, c) \/ fork3(p, c)
      BY <2>3, Keeps_kill, Keeps_fork, Keeps_fork2, Keeps_fork3, Zenon DEF Keeps
    <2>4. CASE wait(p, c) \/ exit(p, c)
      BY <2>4, Keeps_acquire, Zenon DEF Keeps
    <2>5. CASE wait_scan(p, c) \/ wait_check(p, c) \/ reparent(p, c)
      BY <2>5, Keeps_wait_scan, Keeps_wait_check, Keeps_reparent, Zenon DEF Keeps
    <2>6. CASE wakeup_init(p, c) \/ wakeup_parent(p, c)
      BY <2>6, Keeps_wakeup, Zenon DEF Keeps
    <2>7. CASE forkret(p, c) \/ sleep(p, c) \/ sleep2(p, c) \/ woken(p, c)
      BY <2>7, Keeps_forkret, Keeps_sleep, Keeps_sleep2, Keeps_woken, Zenon DEF Keeps
    <2>8. CASE zombie(p, c) \/ dead(p, c)
      BY <2>8, Keeps_zombie, Keeps_dead, Zenon DEF Keeps
    <2> QED BY <1>3, <2>1, <2>2, <2>3, <2>4, <2>5, <2>6, <2>7, <2>8, Zenon DEF Thread
  <1> QED BY <1>1, <1>2, <1>3, Zenon DEF Next

\* SchedInv is an invariant of proc.c: where a thread is says which locks its CPU
\* holds, whatever the interleaving of the CPUs.
THEOREM SchedInvariant == Spec => []SchedInv
  BY InitSched, NextSched, PTL DEF Spec

\* What the invariant says of the stacks.
LEMMA StacksApart == SchedInv => StackExclusive
  <1> SUFFICES ASSUME SchedInv, NEW c \in CPUs, cpu[c] # "sched"
               PROVE  /\ state[cproc[c]] = "RUNNING" \/ plock[cproc[c]] = c
                      /\ state[cproc[c]] \notin {"UNUSED", "USED"}
                      /\ \A d \in CPUs : cpu[d] # "sched" /\ cproc[d] = cproc[c] => d = c
                      /\ cpu[c] = "back" => /\ plock[cproc[c]] = c /\ state[cproc[c]] # "RUNNING"
                                            /\ wait_lock # c
                                            /\ \A q \in ProcTable : plock[q] = c => q = cproc[c]
    BY Zenon DEF StackExclusive
  <1> USE ProcAssumption DEF SchedInv, None
  <1>1. cpu[c] \in {"run", "back"} /\ cproc[c] \in ProcTable /\ cproc[c] # 0
    BY DEF TypeOK, CpusBusy
  <1>2. CASE cpu[c] = "run"
    BY <1>1, <1>2 DEF CpusBusy, LocksHeld, LockPC
  <1>3. CASE cpu[c] = "back"
    BY <1>1, <1>3 DEF CpusBusy, LocksHeld
  <1> QED BY <1>1, <1>2, <1>3, Zenon

\* The kernel stack of a process is used by one CPU at a time, from scheduler()'s
\* swtch() to the release of p->lock on the way back, and a CPU that gives up in
\* sched() holds p->lock and no other: for any number of processes and CPUs.
THEOREM StacksExclusive == Spec => []StackExclusive
  BY SchedInvariant, StacksApart, PTL
=============================================================================
