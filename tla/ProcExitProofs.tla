--------------------------- MODULE ProcExitProofs ---------------------------
(***************************************************************************)
(* Every step of proc.c preserves ProcInv of Proc: whoever exits is        *)
(* collected, for any number of processes and CPUs.                        *)
(***************************************************************************)
EXTENDS ProcProofs, WellFoundedInduction

\* What ProcInv adds to SchedInv, which ProcProofs takes care of.
ExitInv == Family /\ WaitLocked /\ Wakeups

\* Step a of proc.c keeps it.
KeepsExit(a) == ProcInv /\ SchedInv' /\ a => ExitInv'

-----------------------------------------------------------------------------
(* What the invariant says of a running thread. *)

\* wait_lock is held by the CPU of the one thread whose place says so.
LEMMA OneHolder ==
  ASSUME ProcInv, NEW p \in ProcTable, pc[p] \in WaitPC
  PROVE  /\ wait_lock # None
         /\ \A c \in CPUs : On(p, c) => wait_lock = c
         /\ \A q \in ProcTable : pc[q] \in WaitPC => q = p
  <1> USE ProcAssumption DEF ProcInv, SchedInv, None, ProcTable
  <1> PICK c \in CPUs : On(p, c) /\ wait_lock = c
    BY ZenonT(20) DEF WaitLocked
  <1>1. \A d \in CPUs : On(p, d) => d = c
    BY DEF On, CpusBusy
  <1>2. \A q \in ProcTable : pc[q] \in WaitPC => q = p
    BY Zenon DEF WaitLocked, On
  <1> QED BY <1>1, <1>2, Zenon

\* Nobody is where wait_lock is held while it is free.
LEMMA NoHolder == ASSUME ProcInv, wait_lock = None PROVE \A q \in ProcTable : pc[q] \notin WaitPC
  BY OneHolder, Zenon

\* A thread that is past release(lk) in sleep() holds its p->lock.
LEMMA SleeperLocked ==
  ASSUME ProcInv, NEW p \in ProcTable, pc[p] = "sleep2"
  PROVE  plock[p] # None
  <1> USE ProcAssumption DEF ProcInv, SchedInv, None, ProcTable
  <1> PICK c \in CPUs : On(p, c)
    BY ZenonT(20) DEF WaitLocked
  <1> QED BY RunningThread DEF Runs, LockPC
-----------------------------------------------------------------------------
(* Wakeups under steps that neither put a process to sleep nor end one. *)

\* No process gets a ZOMBIE for a child.
NoNewGone == \A x \in ProcTable : state'[x] = "ZOMBIE" /\ parent'[x] \in ProcTable =>
  state[x] = "ZOMBIE" /\ parent[x] = parent'[x]

LEMMA GoneKept == ASSUME NoNewGone PROVE \A x \in ProcTable : Gone(x)' => Gone(x)
  BY Zenon DEF NoNewGone, Gone, Children

\* A thread that is exiting has a parent.
LEMMA ExitingHasParent ==
  ASSUME ProcInv, NEW p \in ProcTable, pc[p] \in {"wakeup_parent", "zombie"}
  PROVE  parent[p] \in ProcTable
  <1>1. p # initproc /\ state[p] \notin {"UNUSED", "USED"}
    BY Zenon DEF ProcInv, Family, ExitPC, SchedInv, ThreadsAt
  <1> QED BY <1>1, Zenon DEF ProcInv, Family, SchedInv, TypeOK

LEMMA WakeupsKept ==
  ASSUME ProcInv, NoNewGone,
         \A x \in ProcTable :
           /\ pc'[x] \in WaitPC =>
                pc[x] = pc'[x] /\ parent'[x] = parent[x] /\ todo'[x] = todo[x]
           /\ pc[x] = "wakeup_init" => pc'[x] = "wakeup_init" /\ todo'[x] = todo[x]
           /\ Asleep(x)' => Asleep(x)
           /\ state'[x] = "SLEEPING" => chan'[x] = x
  PROVE  Wakeups'
  <1> SUFFICES ASSUME NEW q \in ProcTable
               PROVE  /\ state'[q] = "SLEEPING" => chan'[q] = q
                      /\ pc'[q] = "scan" =>
                           \A x \in Children(q)' : state'[x] = "ZOMBIE" => x \in todo'[q]
                      /\ pc'[q] = "sleep" => ~Gone(q)'
                      /\ pc'[q] = "wakeup_parent" /\ Asleep(parent[q])' => parent'[q] \in todo'[q]
                      /\ pc'[q] = "zombie" => ~Asleep(parent[q])'
                      /\ Asleep(q)' /\ Gone(q)' =>
                           /\ q = initproc
                           /\ \E r \in ProcTable : pc'[r] = "wakeup_init" /\ q \in todo'[r]
    BY Zenon DEF Wakeups
  <1> USE DEF ProcInv
  <1>1. Gone(q)' => Gone(q)
    BY GoneKept, Zenon
  <1>2. pc'[q] = "scan" => \A x \in Children(q)' : state'[x] = "ZOMBIE" => x \in todo'[q]
    BY DEF Wakeups, WaitPC, NoNewGone, Children
  <1>3. pc'[q] = "sleep" => ~Gone(q)'
    BY <1>1, Zenon DEF Wakeups, WaitPC
  <1>4. /\ pc'[q] = "wakeup_parent" /\ Asleep(parent[q])' => parent'[q] \in todo'[q]
        /\ pc'[q] = "zombie" => ~Asleep(parent[q])'
    <2> SUFFICES ASSUME pc'[q] \in {"wakeup_parent", "zombie"}
                 PROVE  /\ pc'[q] = "wakeup_parent" /\ Asleep(parent[q])' => parent'[q] \in todo'[q]
                        /\ pc'[q] = "zombie" => ~Asleep(parent[q])'
      BY Zenon
    <2>1. pc[q] = pc'[q] /\ parent'[q] = parent[q] /\ todo'[q] = todo[q]
      BY Zenon DEF WaitPC
    <2>2. parent[q] \in ProcTable
      BY <2>1, ExitingHasParent, Zenon
    <2>3. Asleep(parent[q])' => Asleep(parent[q])
      BY <2>1, <2>2 DEF Asleep
    <2> QED BY <2>1, <2>3, Zenon DEF Wakeups
  <1>5. Asleep(q)' /\ Gone(q)' => Asleep(q) /\ Gone(q)
    BY <1>1, Zenon
  <1>6. Asleep(q) /\ Gone(q) =>
          /\ q = initproc
          /\ \E r \in ProcTable : pc[r] = "wakeup_init" /\ q \in todo[r]
    BY ZenonT(20) DEF Wakeups
  <1> QED BY <1>2, <1>3, <1>4, <1>5, <1>6, Zenon
-----------------------------------------------------------------------------
(* Steps of the thread that holds wait_lock, or gets it. *)

\* What is still owed to a process that sleeps too early is owed by that thread.
LEMMA OwedBy ==
  ASSUME ProcInv, NEW p \in ProcTable, pc[p] \in WaitPC \/ wait_lock = None
  PROVE  /\ \A x \in ProcTable : x # p => pc[x] \notin WaitPC
         /\ \A x \in ProcTable : Asleep(x) /\ Gone(x) =>
              x = initproc /\ pc[p] = "wakeup_init" /\ x \in todo[p]
  <1>1. \A x \in ProcTable : x # p => pc[x] \notin WaitPC
    BY OneHolder, NoHolder, Zenon
  <1>2. \A x \in ProcTable : Asleep(x) /\ Gone(x) =>
          x = initproc /\ \E r \in ProcTable : pc[r] = "wakeup_init" /\ x \in todo[r]
    BY ZenonT(20) DEF ProcInv, Wakeups
  <1> QED BY <1>1, <1>2, Zenon DEF WaitPC

LEMMA WakeupsHolder ==
  ASSUME NEW p \in ProcTable,
         \A x \in ProcTable : x # p => pc'[x] \notin WaitPC,
         \A x \in ProcTable : state'[x] = "SLEEPING" => chan'[x] = x,
         pc'[p] = "scan" => \A x \in Children(p)' : state'[x] = "ZOMBIE" => x \in todo'[p],
         pc'[p] = "sleep" => ~Gone(p)',
         pc'[p] = "wakeup_parent" /\ Asleep(parent[p])' => parent'[p] \in todo'[p],
         pc'[p] = "zombie" => ~Asleep(parent[p])',
         \A x \in ProcTable : Asleep(x)' /\ Gone(x)' =>
           x = initproc /\ pc'[p] = "wakeup_init" /\ x \in todo'[p]
  PROVE  Wakeups'
  <1>1. \A x \in ProcTable : pc'[x] \in {"scan", "sleep", "wakeup_parent", "zombie"} => x = p
    BY Zenon DEF WaitPC
  <1>2. \A x \in ProcTable :
          /\ pc'[x] = "scan" => \A y \in Children(x)' : state'[y] = "ZOMBIE" => y \in todo'[x]
          /\ pc'[x] = "sleep" => ~Gone(x)'
          /\ pc'[x] = "wakeup_parent" /\ Asleep(parent[x])' => parent'[x] \in todo'[x]
          /\ pc'[x] = "zombie" => ~Asleep(parent[x])'
    BY <1>1, Zenon
  <1> QED BY <1>2, ZenonT(20) DEF Wakeups

\* The family, under a step that changes no parent and starts and ends no process.
LEMMA FamilyKept ==
  ASSUME ProcInv, UNCHANGED <<parent, pid, killed, np>>,
         pc'[initproc] \notin ExitPC,
         \A x \in ProcTable :
           /\ state'[x] = state[x] \/ (Live(x) /\ Live(x)')
           /\ pc'[x] = "fork3" => pc[x] = "fork3"
           /\ pc'[x] \in {"wakeup_parent", "zombie"} =>
                pc[x] \in {"wakeup_parent", "zombie"} \/ Children(x) = {}
  PROVE  Family'
  <1>1. initproc \in ProcTable
    BY ProcAssumption DEF initproc, ProcTable
  <1>2. \A x \in ProcTable : /\ Live(x)' <=> Live(x)
                             /\ Children(x)' = Children(x)
                             /\ parent[x] \in ProcTable \cup {None}
    BY Zenon DEF Live, Children, ProcInv, SchedInv, TypeOK
  <1>3. \A x \in ProcTable : parent'[x] # None => Live(parent[x])'
    BY <1>2, Zenon DEF Family, ProcInv, Live
  <1>4. \A x \in ProcTable : x # initproc /\ state'[x] \notin {"UNUSED", "USED"} => parent'[x] # None
    BY Zenon DEF Family, ProcInv, Live
  <1> QED BY <1>1, <1>2, <1>3, <1>4, Zenon DEF Family, ProcInv
-----------------------------------------------------------------------------
(* Steps that change neither the family nor who holds wait_lock. *)

Quiet ==
  /\ UNCHANGED <<parent, pid, np, todo, wait_lock>>
  /\ ~killed'[initproc] /\ pc'[initproc] \notin ExitPC
  /\ \A q \in ProcTable :
       /\ state'[q] = state[q] \/ (Live(q) /\ Live(q)')
       /\ \/ pc'[q] = pc[q]
          \/ pc[q] \notin WaitPC /\ pc'[q] \notin WaitPC \cup {"fork3", "sleep2"}
       /\ Asleep(q)' => Asleep(q)
       /\ state'[q] = "SLEEPING" => chan'[q] = q
       /\ \A c \in CPUs : On(q, c) /\ pc'[q] \in WaitPC \cup {"sleep2"} => On(q, c)'

LEMMA QuietKeeps == ASSUME ProcInv, Quiet PROVE ExitInv'
  <1> USE ProcAssumption DEF ProcInv
  <1>0. initproc \in ProcTable
    BY DEF initproc, ProcTable
  <1>1. \A q \in ProcTable : /\ Children(q)' = Children(q) /\ Children(q) \subseteq ProcTable
                             /\ Live(q)' <=> Live(q)
                             /\ state'[q] = "ZOMBIE" <=> state[q] = "ZOMBIE"
                             /\ Gone(q)' <=> Gone(q)
                             /\ parent[q] \in ProcTable \cup {None}
    BY Zenon DEF Quiet, Children, Live, Gone, SchedInv, TypeOK
  <1>2. Family'
    BY <1>0, <1>1 DEF Family, Quiet, Live, WaitPC, SchedInv, ForksApart, ForkPC
  <1>3. WaitLocked'
    BY Zenon DEF WaitLocked, Quiet, WaitPC
  <1>4. Wakeups'
    <2>1. NoNewGone
      BY <1>1, Zenon DEF NoNewGone, Quiet
    <2> QED BY <2>1, WakeupsKept, Zenon DEF Quiet, WaitPC
  <1> QED BY <1>2, <1>3, <1>4, Zenon DEF ExitInv

\* A step of CPU c and of process p alone: p stays alive, was not where wait_lock is
\* held and does not get there.
Alone(p, c) ==
  /\ UNCHANGED <<parent, pid, np, todo, wait_lock>>
  /\ \A q \in ProcTable : q # p =>
       /\ pc'[q] = pc[q] /\ state'[q] = state[q] /\ chan'[q] = chan[q]
       /\ killed'[q] = killed[q] /\ (q \in yielding' <=> q \in yielding)
  /\ \A d \in CPUs : d # c => cpu'[d] = cpu[d] /\ cproc'[d] = cproc[d]
  /\ \A q \in ProcTable : On(q, c) => q = p
  /\ pc[p] \notin WaitPC /\ pc'[p] \notin WaitPC \cup {"sleep2"}
  /\ pc'[p] = "fork3" => pc[p] = "fork3"
  /\ (Live(p) /\ Live(p)') \/ (state'[p] = state[p] /\ state[p] # "SLEEPING")
  /\ state'[p] = "SLEEPING" => chan'[p] = p /\ Asleep(p)
  /\ killed'[p] = killed[p] /\ (p = initproc => pc'[p] \notin ExitPC)

LEMMA AloneQuiet ==
  ASSUME ProcInv, NEW p \in ProcTable, NEW c \in CPUs, Alone(p, c)
  PROVE  ExitInv'
  <1> USE ProcAssumption DEF ProcInv
  <1>0. initproc \in ProcTable
    BY DEF initproc, ProcTable
  <1>1. ~killed'[initproc] /\ pc'[initproc] \notin ExitPC
    BY <1>0, Zenon DEF Alone, Family
  <1>2. \A q \in ProcTable :
       /\ state'[q] = state[q] \/ (Live(q) /\ Live(q)')
       /\ \/ pc'[q] = pc[q]
          \/ pc[q] \notin WaitPC /\ pc'[q] \notin WaitPC \cup {"fork3", "sleep2"}
       /\ Asleep(q)' => Asleep(q)
       /\ state'[q] = "SLEEPING" => chan'[q] = q
    BY DEF Alone, Live, Asleep, Wakeups
  <1>3. \A q \in ProcTable, d \in CPUs :
          On(q, d) /\ pc'[q] \in WaitPC \cup {"sleep2"} => On(q, d)'
    BY Zenon DEF Alone, On
  <1>4. Quiet
    BY <1>1, <1>2, <1>3, Zenon DEF Quiet, Alone
  <1> QED BY <1>4, QuietKeeps, Zenon

\* scheduler() takes a process that is not where a lock is held.
LEMMA Exit_scheduler == \A p \in ProcTable, c \in CPUs : KeepsExit(scheduler(c, p))
  <1> SUFFICES ASSUME NEW p \in ProcTable, NEW c \in CPUs, ProcInv, scheduler(c, p)
               PROVE  ExitInv'
    BY Zenon DEF KeepsExit
  <1> USE ProcAssumption DEF None
  <1>1. state[p] = "RUNNABLE" /\ pc[p] \notin WaitPC \cup {"sleep2"}
    <2>1. cpu[c] = "sched" /\ plock[p] = None /\ state[p] = "RUNNABLE"
      BY Zenon DEF scheduler
    <2>2. \A d \in CPUs : cproc[d] # p
      BY <2>1, OffStack, Zenon DEF ProcInv
    <2> QED BY <2>1, <2>2, ZenonT(60) DEF ProcInv, WaitLocked, On
  <1>2. /\ cpu[c] = "sched" /\ state' = [state EXCEPT ![p] = "RUNNING"]
        /\ cpu' = [cpu EXCEPT ![c] = "run"] /\ cproc' = [cproc EXCEPT ![c] = p]
        /\ UNCHANGED <<chan, killed, pid, parent, nextpid, wait_lock, pc, yielding, np, todo>>
    BY Zenon DEF scheduler, threads
  <1>3. Alone(p, c)
    BY <1>1, <1>2 DEF Alone, TypeOK, ProcInv, SchedInv, Live, On, Family
  <1> QED BY <1>3, AloneQuiet, Zenon

\* yield() is not taken with wait_lock held.
LEMMA Exit_yield == \A p \in ProcTable, c \in CPUs : KeepsExit(yield(p, c))
  <1> SUFFICES ASSUME NEW p \in ProcTable, NEW c \in CPUs, ProcInv, yield(p, c)
               PROVE  ExitInv'
    BY Zenon DEF KeepsExit
  <1> USE ProcAssumption DEF None
  <1>1. Runs(p, c) /\ TypeOK
    BY RunningThread, Zenon DEF yield, ProcInv, SchedInv
  <1>2. /\ On(p, c) /\ wait_lock # c /\ plock[p] = None
        /\ state' = [state EXCEPT ![p] = "RUNNABLE"]
        /\ yielding' = yielding \cup {p} /\ cpu' = [cpu EXCEPT ![c] = "back"]
        /\ UNCHANGED <<cproc, chan, killed, pid, parent, nextpid, wait_lock, pc, np, todo>>
    BY Zenon DEF yield, sched, NoLocks
  <1>3. Alone(p, c)
    BY <1>1, <1>2, OneHolder, ZenonT(40) DEF Alone, TypeOK, Runs, Live, On, LockPC, Family, ProcInv
  <1> QED BY <1>3, AloneQuiet, Zenon

\* forkret() returns to user space.
LEMMA Exit_forkret == \A p \in ProcTable, c \in CPUs : KeepsExit(forkret(p, c))
  <1> SUFFICES ASSUME NEW p \in ProcTable, NEW c \in CPUs, ProcInv, forkret(p, c)
               PROVE  ExitInv'
    BY Zenon DEF KeepsExit
  <1> USE ProcAssumption DEF None
  <1>1. Runs(p, c) /\ TypeOK
    BY RunningThread, Zenon DEF forkret, ProcInv, SchedInv
  <1>2. /\ On(p, c) /\ pc[p] = "forkret" /\ pc' = [pc EXCEPT ![p] = "user"]
        /\ UNCHANGED <<fields, wait_lock, cpus, yielding, np, todo>>
    BY Zenon DEF forkret, Goto
  <1>3. Alone(p, c)
    BY <1>1, <1>2, OneHolder, ZenonT(40) DEF Alone, TypeOK, Runs, Live, On, LockPC, WaitPC, ExitPC, fields, cpus
  <1> QED BY <1>3, AloneQuiet, Zenon

\* A process goes to sleep on itself, where it already counts as asleep.
LEMMA Exit_sleep2 == \A p \in ProcTable, c \in CPUs : KeepsExit(sleep2(p, c))
  <1> SUFFICES ASSUME NEW p \in ProcTable, NEW c \in CPUs, ProcInv, sleep2(p, c)
               PROVE  ExitInv'
    BY Zenon DEF KeepsExit
  <1> USE ProcAssumption DEF None
  <1>1. Runs(p, c) /\ TypeOK
    BY RunningThread, Zenon DEF sleep2, ProcInv, SchedInv
  <1>2. /\ On(p, c) /\ pc[p] = "sleep2" /\ chan' = [chan EXCEPT ![p] = p]
        /\ state' = [state EXCEPT ![p] = "SLEEPING"] /\ cpu' = [cpu EXCEPT ![c] = "back"]
        /\ pc' = [pc EXCEPT ![p] = "woken"]
        /\ UNCHANGED <<cproc, killed, pid, parent, nextpid, wait_lock, yielding, np, todo>>
    BY Zenon DEF sleep2, sched, Goto, locks
  <1>3. Alone(p, c)
    BY <1>1, <1>2, OneHolder, ZenonT(40) DEF Alone, TypeOK, Runs, Live, On, WaitPC, ExitPC, Asleep
  <1> QED BY <1>3, AloneQuiet, Zenon

\* A process that was woken goes back to wait_lock.
LEMMA Exit_woken == \A p \in ProcTable, c \in CPUs : KeepsExit(woken(p, c))
  <1> SUFFICES ASSUME NEW p \in ProcTable, NEW c \in CPUs, ProcInv, woken(p, c)
               PROVE  ExitInv'
    BY Zenon DEF KeepsExit
  <1> USE ProcAssumption DEF None
  <1>1. Runs(p, c) /\ TypeOK
    BY RunningThread, Zenon DEF woken, ProcInv, SchedInv
  <1>2. /\ On(p, c) /\ pc[p] = "woken" /\ chan' = [chan EXCEPT ![p] = None]
        /\ pc' = [pc EXCEPT ![p] = "wait"]
        /\ UNCHANGED <<state, killed, pid, parent, nextpid, wait_lock, cpus, yielding, np, todo>>
    BY Zenon DEF woken, Goto
  <1>3. Alone(p, c)
    BY <1>1, <1>2, OneHolder, ZenonT(40) DEF Alone, TypeOK, Runs, Live, On, WaitPC, ExitPC, cpus
  <1> QED BY <1>3, AloneQuiet, Zenon

\* A zombie leaves the CPU.
LEMMA Exit_dead == \A p \in ProcTable, c \in CPUs : KeepsExit(dead(p, c))
  <1> SUFFICES ASSUME NEW p \in ProcTable, NEW c \in CPUs, ProcInv, dead(p, c)
               PROVE  ExitInv'
    BY Zenon DEF KeepsExit
  <1> USE ProcAssumption DEF None
  <1>1. Runs(p, c) /\ TypeOK
    BY RunningThread, Zenon DEF dead, ProcInv, SchedInv
  <1>2. /\ On(p, c) /\ pc[p] = "dead" /\ cpu' = [cpu EXCEPT ![c] = "back"]
        /\ UNCHANGED <<cproc, fields, wait_lock, threads>>
    BY Zenon DEF dead, sched, locks
  <1>3. Alone(p, c)
    BY <1>1, <1>2, OneHolder, ZenonT(40) DEF Alone, TypeOK, Runs, Live, On, WaitPC, ExitPC, Family, ProcInv, fields, threads
  <1> QED BY <1>3, AloneQuiet, Zenon

\* init neither calls exit() nor is killed.
LEMMA Exit_usertrap == \A p \in ProcTable, c \in CPUs :
  KeepsExit(usertrap(p, c) \/ usertrap_killed(p, c) \/ usertrap_ret(p, c))
  <1> SUFFICES ASSUME NEW p \in ProcTable, NEW c \in CPUs,
                      ProcInv, usertrap(p, c) \/ usertrap_killed(p, c) \/ usertrap_ret(p, c)
               PROVE  ExitInv'
    BY Zenon DEF KeepsExit
  <1> USE ProcAssumption DEF None
  <1>1. /\ On(p, c) /\ pc[p] \in {"user", "ret"}
        /\ UNCHANGED <<fields, wait_lock, cpus, yielding, np, todo>>
        /\ \E l \in {"fork", "wait", "kill", "exit", "user"} :
             pc' = [pc EXCEPT ![p] = l] /\ (p = initproc => l # "exit")
    BY Zenon DEF usertrap, usertrap_killed, usertrap_ret, Goto, locks, Family, ProcInv
  <1> PICK l \in {"fork", "wait", "kill", "exit", "user"} :
         pc' = [pc EXCEPT ![p] = l] /\ (p = initproc => l # "exit")
    BY <1>1, ZenonT(20)
  <1>2. Runs(p, c) /\ TypeOK
    BY <1>1, RunningThread, ZenonT(40) DEF ProcInv, SchedInv
  <1>3. Alone(p, c)
    BY <1>1, <1>2 DEF Alone, TypeOK, Runs, Live, On, WaitPC, ExitPC, fields, cpus
  <1> QED BY <1>3, AloneQuiet, Zenon

\* The rest of yield().
LEMMA Exit_yield_back == \A p \in ProcTable, c \in CPUs : KeepsExit(yield_back(p, c))
  <1> SUFFICES ASSUME NEW p \in ProcTable, NEW c \in CPUs, ProcInv, yield_back(p, c)
               PROVE  ExitInv'
    BY Zenon DEF KeepsExit
  <1> USE ProcAssumption DEF None
  <1>1. /\ cpu[c] = "run" /\ cproc[c] = p /\ p \in yielding /\ yielding' = yielding \ {p}
        /\ UNCHANGED <<fields, wait_lock, cpus, pc, np, todo>>
    BY Zenon DEF yield_back
  <1>2. pc[p] \notin WaitPC \cup {"sleep2"} /\ state[p] \in {"RUNNABLE", "RUNNING"} /\ TypeOK
    BY <1>1, ZenonT(20) DEF ProcInv, SchedInv, WaitLocked, On, ThreadsAt
  <1>3. Alone(p, c)
    BY <1>1, <1>2, Zenon DEF Alone, Live, On, Family, ProcInv, fields, cpus
  <1> QED BY <1>3, AloneQuiet, Zenon

\* scheduler() is back on its own stack.
LEMMA Exit_scheduler_back == \A c \in CPUs : KeepsExit(scheduler_back(c))
  <1> SUFFICES ASSUME NEW c \in CPUs, ProcInv, scheduler_back(c)
               PROVE  ExitInv'
    BY Zenon DEF KeepsExit
  <1>1. /\ cpu[c] = "back"
        /\ cpu' = [cpu EXCEPT ![c] = "sched"] /\ cproc' = [cproc EXCEPT ![c] = None]
        /\ UNCHANGED <<state, chan, killed, pid, parent, nextpid, wait_lock, pc, yielding, np, todo>>
    BY Zenon DEF scheduler_back, fields, threads
  <1>2. \A q \in ProcTable, d \in CPUs : On(q, d) => On(q, d)'
    BY <1>1, Zenon DEF On, ProcInv, SchedInv, TypeOK
  <1>3. Quiet
    BY <1>1, <1>2, Zenon DEF Quiet, Family, Asleep, Wakeups, ProcInv
  <1> QED BY <1>3, QuietKeeps, Zenon

\* kill() wakes a process, and never kills init.
LEMMA Exit_kill == \A p \in ProcTable, c \in CPUs : KeepsExit(kill(p, c))
  <1> SUFFICES ASSUME NEW p \in ProcTable, NEW c \in CPUs, ProcInv, kill(p, c)
               PROVE  ExitInv'
    BY Zenon DEF KeepsExit
  <1> USE ProcAssumption DEF None
  <1>0. initproc \in ProcTable
    BY DEF initproc, ProcTable
  <1>1. /\ On(p, c) /\ pc[p] = "kill" /\ pc' = [pc EXCEPT ![p] = "ret"]
        /\ UNCHANGED <<chan, pid, parent, wait_lock, cpus, yielding, np, todo>>
        /\ \/ UNCHANGED <<killed, state>>
           \/ \E q \in ProcTable :
                /\ q # initproc /\ killed' = [killed EXCEPT ![q] = TRUE]
                /\ state' = [state EXCEPT ![q] = IF @ = "SLEEPING" THEN "RUNNABLE" ELSE @]
    BY InitKept DEF kill, Goto, locks, Family, ProcInv
  <1>2. Runs(p, c) /\ TypeOK
    BY <1>1, RunningThread, Zenon DEF ProcInv, SchedInv
  <1>3. ~killed'[initproc] /\ pc'[initproc] \notin ExitPC
    BY <1>0, <1>1, <1>2 DEF Family, ProcInv, TypeOK, ExitPC
  <1>4. \A q \in ProcTable :
          state'[q] = state[q] \/ (state[q] = "SLEEPING" /\ state'[q] = "RUNNABLE")
    BY <1>1, <1>2, ZenonT(40) DEF TypeOK
  <1>5. /\ pc[p] = "kill" /\ pc'[p] = "ret" /\ \A q \in ProcTable : q # p => pc'[q] = pc[q]
        /\ UNCHANGED <<chan, pid, parent, wait_lock, cpu, cproc, yielding, np, todo>>
    BY <1>1, <1>2, ZenonT(40) DEF TypeOK, cpus
  <1>6. Quiet
    BY <1>3, <1>4, <1>5 DEF Quiet, Live, On, Asleep, Wakeups, ProcInv, WaitPC
  <1> QED BY <1>6, QuietKeeps, Zenon
-----------------------------------------------------------------------------
(* Steps that change the family or take part in its bookkeeping. *)

\* A step that switches no stacks leaves threads where their locks are.
LEMMA HoldersStay ==
  ASSUME ProcInv, NEW p \in ProcTable, NEW c \in CPUs, On(p, c),
         UNCHANGED <<cpu, cproc, yielding>>,
         wait_lock' = wait_lock \/ \A q \in ProcTable \ {p} : pc[q] \notin WaitPC,
         pc'[p] \in WaitPC => wait_lock' = c,
         \A q \in ProcTable \ {p} : pc'[q] = pc[q] \/ pc'[q] = "forkret"
  PROVE  WaitLocked'
  <1>1. \A q \in ProcTable, d \in CPUs : On(q, d)' <=> On(q, d)
    BY Zenon DEF On
  <1>2. \A q \in ProcTable \ {p} : /\ pc'[q] \in WaitPC => pc[q] \in WaitPC /\ wait_lock' = wait_lock
                                   /\ pc'[q] = "sleep2" => pc[q] = "sleep2"
    BY Zenon DEF WaitPC
  <1> QED BY <1>1, <1>2, Zenon DEF WaitLocked, ProcInv

\* allocproc() takes a slot that is in no family, and may have to give it back.
LEMMA Exit_fork == \A p \in ProcTable, c \in CPUs : KeepsExit(fork(p, c))
  <1> SUFFICES ASSUME NEW p \in ProcTable, NEW c \in CPUs, ProcInv, fork(p, c)
               PROVE  ExitInv'
    BY Zenon DEF KeepsExit
  <1> USE ProcAssumption DEF None
  <1>0. On(p, c) /\ pc[p] = "fork" /\ UNCHANGED <<locks, cpus, yielding, todo>>
    BY Zenon DEF fork
  <1>1. Runs(p, c) /\ TypeOK /\ state[p] = "RUNNING" /\ initproc \in ProcTable
    BY <1>0, RunningThread DEF ProcInv, SchedInv, Runs, initproc, ProcTable
  <1>2. CASE /\ pc' = [pc EXCEPT ![p] = "ret"]
             /\ UNCHANGED <<state, pid, parent, chan, killed, np, nextpid>>
    <2>1. Alone(p, c)
      BY <1>0, <1>1, <1>2, Zenon DEF Alone, TypeOK, Runs, Live, On, WaitPC, ExitPC, locks, cpus
    <2> QED BY <2>1, AloneQuiet, Zenon
  <1>3. ASSUME NEW q \in ProcTable, state[q] = "UNUSED",
               \/ /\ state' = [state EXCEPT ![q] = "USED"]
                  /\ pid' = [pid EXCEPT ![q] = nextpid]
                  /\ np' = [np EXCEPT ![p] = q]
                  /\ pc' = [pc EXCEPT ![p] = "fork2", ![q] = "forkret"]
                  /\ UNCHANGED <<parent, chan, killed>>
               \/ /\ freeproc(q)
                  /\ pc' = [pc EXCEPT ![p] = "ret"]
                  /\ UNCHANGED np
        PROVE  ExitInv'
    <2>0. q # p /\ q # initproc
      BY <1>1, <1>3, ZenonT(40) DEF Family, Live, ProcInv
    <2>1. /\ state'[q] \in {"USED", "UNUSED"} /\ pc'[p] \in {"fork2", "ret"}
          /\ pc'[q] \in {pc[q], "forkret"} /\ parent'[q] \in {parent[q], None}
          /\ \A x \in ProcTable : x # q =>
               /\ state'[x] = state[x] /\ parent'[x] = parent[x] /\ chan'[x] = chan[x]
               /\ killed'[x] = killed[x] /\ pid'[x] = pid[x]
               /\ x # p => pc'[x] = pc[x]
          /\ \A x \in ProcTable : x # p => np'[x] = np[x]
          /\ UNCHANGED <<wait_lock, cpu, cproc, yielding, todo>>
      BY <1>0, <1>1, <1>3, <2>0 DEF TypeOK, freeproc, locks, cpus
    <2>2. pc[q] \in {"none", "forkret", "woken", "dead"}
      BY <1>3, Zenon DEF ProcInv, SchedInv, ThreadsAt
    <2> HIDE <1>3
    <2>3. Family'
      <3>1. \A x \in ProcTable : /\ Live(x)' <=> Live(x)
                                 /\ Children(x)' \subseteq Children(x)
        <4>1. \A x \in ProcTable : Live(x)' <=> Live(x)
          BY <1>3, <2>1, Zenon DEF Live
        <4>2. \A x, y \in ProcTable : parent'[y] = x => parent[y] = x
          <5>1. None \notin ProcTable
            BY DEF ProcTable
          <5> QED BY <2>1, <5>1, ZenonT(60)
        <4> QED BY <4>1, <4>2, Zenon DEF Children
      <3>2. /\ pid'[initproc] = 1 /\ ~killed'[initproc]
            /\ pc'[initproc] \notin ExitPC /\ Live(initproc)'
        BY <1>1, <2>0, <2>1, <3>1, Zenon DEF Family, ProcInv, ExitPC
      <3>3. \A x \in ProcTable : /\ parent'[x] # None => Live(parent'[x])
                                 /\ parent'[x] \in ProcTable \cup {None}
        BY <1>1, <2>1 DEF Family, ProcInv, TypeOK
      <3>4. \A x \in ProcTable : pc'[x] = "fork3" => parent'[np'[x]] = x
        <4> SUFFICES ASSUME NEW x \in ProcTable, pc'[x] = "fork3"
                     PROVE  parent'[np'[x]] = x
          BY Zenon
        <4>1. x # p /\ pc[x] = "fork3" /\ np'[x] = np[x]
          BY <2>0, <2>1, <2>2, Zenon
        <4>2. np[x] \in ProcTable /\ state[np[x]] = "USED" /\ parent[np[x]] = x
          BY <4>1, Zenon DEF Family, ProcInv, SchedInv, ForksApart, ForkPC
        <4> QED BY <1>3, <2>1, <4>1, <4>2, ZenonT(40)
      <3>5. \A x \in ProcTable : pc'[x] \in {"wakeup_parent", "zombie"} => Children(x)' = {}
        BY <2>0, <2>1, <2>2, <3>1, ZenonT(40) DEF Family, ProcInv
      <3>6. \A x \in ProcTable : x # initproc /\ state'[x] \notin {"UNUSED", "USED"} => parent'[x] # None
        BY <2>1 DEF Family, ProcInv
      <3>7. \A x \in ProcTable : parent'[x] # None => Live(parent[x])'
        BY <3>1, <3>3, Zenon DEF Live
      <3> QED BY <3>2, <3>4, <3>5, <3>6, <3>7, Zenon DEF Family
    <2>4. WaitLocked'
      BY <1>0, <2>0, <2>1, <2>2, HoldersStay, Zenon DEF WaitPC
    <2>5. Wakeups'
      <3>1. NoNewGone
        BY <1>3, <2>1, Zenon DEF NoNewGone, ProcTable
      <3>2. \A x \in ProcTable : Asleep(x)' => Asleep(x)
        BY <1>3, <2>0, <2>1, <2>2, ZenonT(40) DEF Asleep
      <3>3. \A x \in ProcTable : /\ pc'[x] \in WaitPC => x # q /\ pc'[x] = pc[x]
                                 /\ pc[x] = "wakeup_init" => pc'[x] = pc[x]
                                 /\ state'[x] = "SLEEPING" => chan'[x] = x
        BY <1>0, <2>0, <2>1, <2>2 DEF WaitPC, Wakeups, ProcInv
      <3> QED BY <2>1, <3>1, <3>2, <3>3, WakeupsKept, ZenonT(40)
    <2> QED BY <2>3, <2>4, <2>5, Zenon DEF ExitInv
  <1> QED BY <1>2, <1>3, Zenon DEF fork, Goto

\* fork() makes itself the parent of the slot it got, with wait_lock free.
LEMMA Exit_fork2 == \A p \in ProcTable, c \in CPUs : KeepsExit(fork2(p, c))
  <1> SUFFICES ASSUME NEW p \in ProcTable, NEW c \in CPUs, ProcInv, fork2(p, c)
               PROVE  ExitInv'
    BY Zenon DEF KeepsExit
  <1> USE ProcAssumption DEF None
  <1> DEFINE q == np[p]
  <1>0. /\ On(p, c) /\ pc[p] = "fork2" /\ wait_lock = None
        /\ parent' = [parent EXCEPT ![q] = p] /\ pc' = [pc EXCEPT ![p] = "fork3"]
        /\ UNCHANGED <<state, chan, killed, pid, locks, cpus, yielding, np, todo>>
    BY Zenon DEF fork2, Goto
  <1>1. Runs(p, c) /\ TypeOK /\ state[p] = "RUNNING" /\ initproc \in ProcTable
    BY <1>0, RunningThread DEF ProcInv, SchedInv, Runs, initproc, ProcTable
  <1>2. /\ q \in ProcTable /\ state[q] = "USED" /\ q # p
        /\ \A x \in ProcTable : x # p /\ pc[x] = "fork3" => np[x] # q
    BY <1>0, <1>1, Zenon DEF ProcInv, SchedInv, ForksApart, ForkPC
  <1>3. /\ pc'[p] = "fork3" /\ parent'[q] = p /\ np'[p] = q
        /\ \A x \in ProcTable : /\ x # q => parent'[x] = parent[x]
                                /\ x # p => pc'[x] = pc[x]
        /\ UNCHANGED <<state, chan, killed, pid, wait_lock, cpu, cproc, yielding, np, todo>>
    BY <1>0, <1>1, <1>2, Zenon DEF TypeOK, locks, cpus
  <1>4. \A x \in ProcTable : pc[x] \notin WaitPC /\ pc'[x] \notin WaitPC
    BY <1>0, <1>3, NoHolder, Zenon DEF WaitPC
  <1> HIDE DEF q
  <1>5. Family'
    <2>1. /\ pid'[initproc] = 1 /\ ~killed'[initproc]
          /\ pc'[initproc] \notin ExitPC /\ Live(initproc)'
      BY <1>1, <1>3, Zenon DEF Family, ProcInv, ExitPC, Live
    <2>2. \A x \in ProcTable : parent'[x] # None => Live(parent[x])'
      BY <1>1, <1>2, <1>3, Zenon DEF Family, ProcInv, Live, TypeOK
    <2>3. \A x \in ProcTable : pc'[x] = "fork3" => parent'[np'[x]] = x
      <3>1. \A x \in ProcTable : x # p /\ pc[x] = "fork3" =>
              np[x] \in ProcTable /\ np[x] # q /\ parent[np[x]] = x
        BY <1>2, Zenon DEF Family, ProcInv, SchedInv, ForksApart, ForkPC
      <3> QED BY <1>3, <3>1, ZenonT(40)
    <2>4. \A x \in ProcTable :
            /\ x # initproc /\ state'[x] \notin {"UNUSED", "USED"} => parent'[x] # None
            /\ pc'[x] \in {"wakeup_parent", "zombie"} => Children(x)' = {}
      BY <1>2, <1>3, <1>4 DEF Family, ProcInv, WaitPC
    <2> QED BY <2>1, <2>2, <2>3, <2>4, Zenon DEF Family
  <1>6. WaitLocked'
    BY <1>0, <1>3, <1>4, HoldersStay, Zenon
  <1>7. Wakeups'
    <2>1. NoNewGone
      BY <1>2, <1>3, Zenon DEF NoNewGone
    <2>2. \A x \in ProcTable : Asleep(x)' => Asleep(x)
      BY <1>3, Zenon DEF Asleep
    <2> QED BY <1>3, <1>4, <2>1, <2>2, WakeupsKept, ZenonT(40) DEF Wakeups, ProcInv, WaitPC
  <1> QED BY <1>5, <1>6, <1>7, Zenon DEF ExitInv

\* fork() starts a process that already has its parent.
LEMMA Exit_fork3 == \A p \in ProcTable, c \in CPUs : KeepsExit(fork3(p, c))
  <1> SUFFICES ASSUME NEW p \in ProcTable, NEW c \in CPUs, ProcInv, fork3(p, c)
               PROVE  ExitInv'
    BY Zenon DEF KeepsExit
  <1> USE ProcAssumption DEF None
  <1> DEFINE q == np[p]
  <1>0. /\ On(p, c) /\ pc[p] = "fork3"
        /\ state' = [state EXCEPT ![q] = "RUNNABLE"] /\ np' = [np EXCEPT ![p] = None]
        /\ pc' = [pc EXCEPT ![p] = "ret"]
        /\ UNCHANGED <<chan, killed, pid, parent, locks, cpus, yielding, todo>>
    BY Zenon DEF fork3, Goto
  <1>1. Runs(p, c) /\ TypeOK /\ state[p] = "RUNNING" /\ initproc \in ProcTable
    BY <1>0, RunningThread DEF ProcInv, SchedInv, Runs, initproc, ProcTable
  <1>2. q \in ProcTable /\ state[q] = "USED" /\ q # p /\ parent[q] = p /\ p # None
    BY <1>0, <1>1 DEF ProcInv, SchedInv, ForksApart, ForkPC, Family, ProcTable
  <1>3. /\ pc'[p] = "ret" /\ state'[q] = "RUNNABLE"
        /\ \A x \in ProcTable : /\ x # q => state'[x] = state[x]
                                /\ x # p => pc'[x] = pc[x] /\ np'[x] = np[x]
        /\ UNCHANGED <<chan, killed, pid, parent, wait_lock, cpu, cproc, yielding, todo>>
    BY <1>0, <1>1, <1>2, Zenon DEF TypeOK, locks, cpus
  <1>4. \A x \in ProcTable : pc'[x] \in WaitPC \cup {"wakeup_parent", "zombie", "fork3"} =>
          x # p /\ pc'[x] = pc[x]
    BY <1>3, Zenon DEF WaitPC
  <1> HIDE DEF q
  <1>5. Family'
    <2>1. /\ pid'[initproc] = 1 /\ ~killed'[initproc]
          /\ pc'[initproc] \notin ExitPC /\ Live(initproc)'
      BY <1>1, <1>3, Zenon DEF Family, ProcInv, ExitPC, Live
    <2>2. \A x \in ProcTable : parent'[x] # None => Live(parent[x])'
      BY <1>1, <1>3 DEF Family, ProcInv, Live, TypeOK
    <2>3. \A x \in ProcTable :
            /\ pc'[x] = "fork3" => parent'[np'[x]] = x
            /\ pc'[x] \in {"wakeup_parent", "zombie"} => Children(x)' = {}
      BY <1>3, <1>4 DEF Family, ProcInv, Children
    <2>4. \A x \in ProcTable :
            x # initproc /\ state'[x] \notin {"UNUSED", "USED"} => parent'[x] # None
      BY <1>2, <1>3, Zenon DEF Family, ProcInv
    <2> QED BY <2>1, <2>2, <2>3, <2>4, Zenon DEF Family
  <1>6. WaitLocked'
    BY <1>0, <1>3, <1>4, HoldersStay, ZenonT(40)
  <1>7. Wakeups'
    <2>1. NoNewGone
      BY <1>2, <1>3, Zenon DEF NoNewGone
    <2>2. \A x \in ProcTable : Asleep(x)' => Asleep(x)
      BY <1>3, ZenonT(40) DEF Asleep
    <2> QED BY <1>0, <1>3, <1>4, <2>1, <2>2, WakeupsKept DEF Wakeups, ProcInv
  <1> QED BY <1>5, <1>6, <1>7, Zenon DEF ExitInv

\* wait() starts its scan with all its children to visit.
LEMMA Exit_wait == \A p \in ProcTable, c \in CPUs : KeepsExit(wait(p, c))
  <1> SUFFICES ASSUME NEW p \in ProcTable, NEW c \in CPUs, ProcInv, wait(p, c)
               PROVE  ExitInv'
    BY Zenon DEF KeepsExit
  <1> USE ProcAssumption DEF None
  <1>0. /\ On(p, c) /\ pc[p] = "wait" /\ wait_lock = None /\ wait_lock' = c
        /\ todo' = [todo EXCEPT ![p] = Children(p)] /\ pc' = [pc EXCEPT ![p] = "scan"]
        /\ UNCHANGED <<fields, plock, cpus, yielding, np>>
    BY Zenon DEF wait, Goto
  <1>1. Runs(p, c) /\ TypeOK /\ state[p] = "RUNNING" /\ initproc \in ProcTable
    BY <1>0, RunningThread DEF ProcInv, SchedInv, Runs, initproc, ProcTable
  <1>2. /\ \A x \in ProcTable : x # p => pc[x] \notin WaitPC
        /\ \A x \in ProcTable : Asleep(x) /\ Gone(x) =>
             x = initproc /\ pc[p] = "wakeup_init" /\ x \in todo[p]
    BY <1>0, OwedBy, Zenon DEF WaitPC
  <1>3. /\ pc'[p] = "scan" /\ todo'[p] = Children(p) /\ wait_lock' = c
        /\ \A x \in ProcTable : x # p => pc'[x] = pc[x] /\ todo'[x] = todo[x]
        /\ UNCHANGED <<state, chan, killed, pid, parent, np, cpu, cproc, yielding>>
    BY <1>0, <1>1, Zenon DEF TypeOK, fields, cpus
  <1>5. Family'
    BY <1>1, <1>3, FamilyKept, Zenon DEF ExitPC, Family, ProcInv
  <1>6. WaitLocked'
    BY <1>0, <1>2, <1>3, HoldersStay, ZenonT(40)
  <1>7. Wakeups'
    <2>1. \A x \in ProcTable : /\ Asleep(x)' => Asleep(x)
                               /\ Gone(x)' <=> Gone(x)
                               /\ Children(x)' = Children(x)
      BY <1>3, Zenon DEF Asleep, Gone, Children
    <2>2. \A x \in ProcTable : ~(Asleep(x)' /\ Gone(x)')
      BY <1>0, <1>2, <2>1, ZenonT(40)
    <2> QED BY <1>2, <1>3, <2>1, <2>2, WakeupsHolder DEF Wakeups, ProcInv
  <1> QED BY <1>5, <1>6, <1>7, Zenon DEF ExitInv

\* exit() takes wait_lock; it is not init.
LEMMA Exit_exit == \A p \in ProcTable, c \in CPUs : KeepsExit(exit(p, c))
  <1> SUFFICES ASSUME NEW p \in ProcTable, NEW c \in CPUs, ProcInv, exit(p, c)
               PROVE  ExitInv'
    BY Zenon DEF KeepsExit
  <1> USE ProcAssumption DEF None
  <1>0. /\ On(p, c) /\ pc[p] = "exit" /\ wait_lock = None /\ wait_lock' = c
        /\ pc' = [pc EXCEPT ![p] = "reparent"]
        /\ UNCHANGED <<fields, plock, cpus, yielding, np, todo>>
    BY Zenon DEF exit, Goto
  <1>1. Runs(p, c) /\ TypeOK /\ state[p] = "RUNNING" /\ initproc \in ProcTable
    BY <1>0, RunningThread DEF ProcInv, SchedInv, Runs, initproc, ProcTable
  <1>2. /\ \A x \in ProcTable : x # p => pc[x] \notin WaitPC
        /\ \A x \in ProcTable : Asleep(x) /\ Gone(x) =>
             x = initproc /\ pc[p] = "wakeup_init" /\ x \in todo[p]
    BY <1>0, OwedBy, Zenon DEF WaitPC
  <1>3. /\ pc'[p] = "reparent" /\ wait_lock' = c
        /\ \A x \in ProcTable : x # p => pc'[x] = pc[x]
        /\ UNCHANGED <<state, chan, killed, pid, parent, np, cpu, cproc, yielding>> /\ todo' = todo
    BY <1>0, <1>1, Zenon DEF TypeOK, fields, cpus
  <1>5. Family'
    <2>1. pc'[initproc] \notin ExitPC
      BY <1>0, <1>1, <1>3, Zenon DEF ExitPC, Family, ProcInv
    <2> QED BY <1>3, <2>1, FamilyKept, Zenon
  <1>6. WaitLocked'
    BY <1>0, <1>2, <1>3, HoldersStay, Zenon
  <1>7. Wakeups'
    <2>1. \A x \in ProcTable : /\ Asleep(x)' => Asleep(x)
                               /\ Gone(x)' <=> Gone(x)
      BY <1>3, Zenon DEF Asleep, Gone, Children
    <2>2. \A x \in ProcTable : ~(Asleep(x)' /\ Gone(x)')
      BY <1>0, <1>2, <2>1, ZenonT(40)
    <2> QED BY <1>2, <1>3, <2>2, WakeupsHolder, ZenonT(40) DEF Wakeups, ProcInv
  <1> QED BY <1>5, <1>6, <1>7, Zenon DEF ExitInv

\* sleep() releases wait_lock only when it has p->lock, with no child to collect.
LEMMA Exit_sleep == \A p \in ProcTable, c \in CPUs : KeepsExit(sleep(p, c))
  <1> SUFFICES ASSUME NEW p \in ProcTable, NEW c \in CPUs, ProcInv, sleep(p, c)
               PROVE  ExitInv'
    BY Zenon DEF KeepsExit
  <1> USE ProcAssumption DEF None
  <1>0. /\ On(p, c) /\ pc[p] = "sleep" /\ wait_lock' = None
        /\ pc' = [pc EXCEPT ![p] = "sleep2"]
        /\ UNCHANGED <<fields, cpus, yielding, np, todo>>
    BY Zenon DEF sleep, Goto
  <1>1. Runs(p, c) /\ TypeOK /\ state[p] = "RUNNING" /\ initproc \in ProcTable
    BY <1>0, RunningThread DEF ProcInv, SchedInv, Runs, initproc, ProcTable
  <1>2. /\ \A x \in ProcTable : x # p => pc[x] \notin WaitPC
        /\ \A x \in ProcTable : Asleep(x) /\ Gone(x) =>
             x = initproc /\ pc[p] = "wakeup_init" /\ x \in todo[p]
    BY <1>0, OwedBy, Zenon DEF WaitPC
  <1>3. /\ pc'[p] = "sleep2"
        /\ \A x \in ProcTable : x # p => pc'[x] = pc[x]
        /\ UNCHANGED <<state, chan, killed, pid, parent, np, cpu, cproc, yielding>>
    BY <1>0, <1>1, Zenon DEF TypeOK, fields, cpus
  <1>5. Family'
    BY <1>1, <1>3, FamilyKept, ZenonT(40) DEF ExitPC, Family, ProcInv
  <1>6. WaitLocked'
    BY <1>0, <1>2, <1>3, HoldersStay, Zenon DEF WaitPC
  <1>7. Wakeups'
    <2>1. \A x \in ProcTable : /\ x # p => (Asleep(x)' => Asleep(x))
                               /\ Gone(x)' <=> Gone(x)
      BY <1>3, Zenon DEF Asleep, Gone, Children
    <2>2. ~Gone(p)
      BY <1>0, Zenon DEF Wakeups, ProcInv
    <2>3. \A x \in ProcTable : ~(Asleep(x)' /\ Gone(x)')
      BY <1>0, <1>2, <2>1, <2>2, ZenonT(40)
    <2> QED BY <1>2, <1>3, <2>3, WakeupsHolder, ZenonT(40) DEF Wakeups, ProcInv
  <1> QED BY <1>5, <1>6, <1>7, Zenon DEF ExitInv

\* wait() sleeps only after a scan that found no ZOMBIE.
LEMMA Exit_wait_check == \A p \in ProcTable, c \in CPUs : KeepsExit(wait_check(p, c))
  <1> SUFFICES ASSUME NEW p \in ProcTable, NEW c \in CPUs, ProcInv, wait_check(p, c)
               PROVE  ExitInv'
    BY Zenon DEF KeepsExit
  <1> USE ProcAssumption DEF None
  <1>0. /\ On(p, c) /\ pc[p] = "scan" /\ todo[p] = {}
        /\ \/ wait_lock' = None /\ pc' = [pc EXCEPT ![p] = "ret"]
           \/ wait_lock' = wait_lock /\ pc' = [pc EXCEPT ![p] = "sleep"]
        /\ UNCHANGED <<fields, cpus, yielding, np, todo>>
    BY Zenon DEF wait_check, Goto
  <1>1. Runs(p, c) /\ TypeOK /\ state[p] = "RUNNING" /\ initproc \in ProcTable
    BY <1>0, RunningThread DEF ProcInv, SchedInv, Runs, initproc, ProcTable
  <1>2. /\ \A x \in ProcTable : x # p => pc[x] \notin WaitPC
        /\ \A x \in ProcTable : Asleep(x) /\ Gone(x) =>
             x = initproc /\ pc[p] = "wakeup_init" /\ x \in todo[p]
    BY <1>0, OwedBy, Zenon DEF WaitPC
  <1>3. /\ pc'[p] = "ret" \/ (pc'[p] = "sleep" /\ wait_lock' = wait_lock)
        /\ \A x \in ProcTable : x # p => pc'[x] = pc[x]
        /\ UNCHANGED <<state, chan, killed, pid, parent, np, cpu, cproc, yielding>>
    BY <1>0, <1>1, Zenon DEF TypeOK, fields, cpus
  <1>5. Family'
    BY <1>1, <1>3, FamilyKept, Zenon DEF ExitPC, Family, ProcInv
  <1>6. WaitLocked'
    <2>1. wait_lock = c
      BY <1>0, OneHolder, ZenonT(40) DEF WaitPC
    <2> QED BY <1>0, <1>2, <1>3, <2>1, HoldersStay, Zenon DEF WaitPC
  <1>7. Wakeups'
    <2>1. \A x \in ProcTable : /\ Asleep(x)' => Asleep(x)
                               /\ Gone(x)' <=> Gone(x)
      BY <1>3, Zenon DEF Asleep, Gone, Children
    <2>2. ~Gone(p)
      BY <1>0, Zenon DEF Wakeups, ProcInv, Gone
    <2>3. \A x \in ProcTable : ~(Asleep(x)' /\ Gone(x)')
      BY <1>0, <1>2, <2>1, ZenonT(40)
    <2> QED BY <1>2, <1>3, <2>1, <2>2, <2>3, WakeupsHolder, SMTT(40) DEF Wakeups, ProcInv
  <1> QED BY <1>5, <1>6, <1>7, Zenon DEF ExitInv

\* wait() visits a child; a ZOMBIE it frees is nobody's parent.
LEMMA Exit_wait_scan == \A p \in ProcTable, c \in CPUs : KeepsExit(wait_scan(p, c))
  <1> SUFFICES ASSUME NEW p \in ProcTable, NEW c \in CPUs, ProcInv, wait_scan(p, c)
               PROVE  ExitInv'
    BY Zenon DEF KeepsExit
  <1> USE ProcAssumption DEF None
  <1> DEFINE pp == Min(todo[p])
  <1>0. /\ On(p, c) /\ pc[p] = "scan"
        /\ IF state[pp] = "ZOMBIE"
           THEN /\ freeproc(pp) \/ UNCHANGED <<state, pid, parent, chan, killed>>
                /\ wait_lock' = None /\ todo' = [todo EXCEPT ![p] = {}]
                /\ pc' = [pc EXCEPT ![p] = "ret"]
           ELSE /\ todo' = [todo EXCEPT ![p] = @ \ {pp}]
                /\ UNCHANGED <<state, pid, parent, chan, killed, wait_lock, pc>>
        /\ UNCHANGED <<cpus, yielding, np>>
    BY Zenon DEF wait_scan, Goto
  <1> HIDE DEF pp
  <1>1. Runs(p, c) /\ TypeOK /\ state[p] = "RUNNING" /\ initproc \in ProcTable
    BY <1>0, RunningThread DEF ProcInv, SchedInv, Runs, initproc, ProcTable
  <1>2. /\ wait_lock = c
        /\ \A x \in ProcTable : x # p => pc[x] \notin WaitPC
        /\ \A x \in ProcTable : Asleep(x) /\ Gone(x) =>
             x = initproc /\ pc[p] = "wakeup_init" /\ x \in todo[p]
    BY <1>0, OwedBy, OneHolder, Zenon DEF WaitPC
  <1>3. /\ \A x \in ProcTable : x # p => pc'[x] = pc[x] /\ todo'[x] = todo[x]
        /\ UNCHANGED <<cpu, cproc, yielding, np>>
        /\ \/ pc'[p] = "ret"
           \/ /\ pc'[p] = "scan" /\ wait_lock' = wait_lock /\ todo'[p] = todo[p] \ {pp}
              /\ state[pp] # "ZOMBIE" /\ UNCHANGED <<state, pid, parent, chan, killed>>
    BY <1>0, <1>1, ZenonT(40) DEF TypeOK, cpus
  <1>4. \A x \in ProcTable :
          \/ /\ state'[x] = state[x] /\ parent'[x] = parent[x] /\ chan'[x] = chan[x]
             /\ killed'[x] = killed[x] /\ pid'[x] = pid[x]
          \/ /\ state[x] = "ZOMBIE" /\ state'[x] = "UNUSED" /\ parent'[x] = None
    BY <1>0, <1>1 DEF TypeOK, freeproc
  <1>5. Family'
    <2>1. \A x \in ProcTable : Live(x)' <=> Live(x)
      BY <1>4, Zenon DEF Live
    <2>2. /\ pid'[initproc] = 1 /\ ~killed'[initproc]
          /\ pc'[initproc] \notin ExitPC /\ Live(initproc)'
      BY <1>1, <1>3, <1>4, <2>1, ZenonT(40) DEF Family, ProcInv, ExitPC, Live
    <2>3. \A x \in ProcTable : parent'[x] # None => Live(parent[x])'
      <3>1. \A x \in ProcTable : parent'[x] # None =>
              parent'[x] = parent[x] /\ parent[x] \in ProcTable /\ Live(parent[x])
        BY <1>1, <1>4 DEF Family, ProcInv, TypeOK
      <3> QED BY <2>1, <3>1, ZenonT(40) DEF Live
    <2>4. \A x \in ProcTable : pc'[x] = "fork3" => parent'[np'[x]] = x
      <3>1. \A x \in ProcTable : pc[x] = "fork3" =>
              np[x] \in ProcTable /\ state[np[x]] = "USED" /\ parent[np[x]] = x
        BY Zenon DEF Family, ProcInv, SchedInv, ForksApart, ForkPC
      <3>2. \A x \in ProcTable : pc'[x] = "fork3" => pc[x] = "fork3" /\ np'[x] = np[x]
        BY <1>3, ZenonT(40)
      <3> QED BY <1>4, <3>1, <3>2
    <2>5. \A x \in ProcTable :
            /\ x # initproc /\ state'[x] \notin {"UNUSED", "USED"} => parent'[x] # None
            /\ pc'[x] \notin {"wakeup_parent", "zombie"}
      BY <1>2, <1>3, <1>4 DEF Family, ProcInv, WaitPC
    <2> QED BY <2>2, <2>3, <2>4, <2>5, ZenonT(40) DEF Family
  <1>6. WaitLocked'
    BY <1>0, <1>2, <1>3, HoldersStay, Zenon DEF WaitPC
  <1>7. Wakeups'
    <2>1. NoNewGone
      <3>1. None \notin ProcTable
        BY DEF ProcTable
      <3> QED BY <1>4, <3>1, Zenon DEF NoNewGone
    <2>2. \A x \in ProcTable : /\ Asleep(x)' => Asleep(x)
                               /\ state'[x] = "SLEEPING" => chan'[x] = x
      BY <1>3, <1>4 DEF Asleep, Wakeups, ProcInv
    <2>3. \A x \in ProcTable : ~(Asleep(x)' /\ Gone(x)')
      BY <1>0, <1>2, <2>1, <2>2, GoneKept, ZenonT(40)
    <2>4. pc'[p] = "scan" => \A x \in Children(p)' : state'[x] = "ZOMBIE" => x \in todo'[p]
      BY <1>0, <1>3 DEF Wakeups, ProcInv, Children
    <2> QED BY <1>2, <1>3, <2>2, <2>3, <2>4, WakeupsHolder, ZenonT(40)
  <1> QED BY <1>5, <1>6, <1>7, Zenon DEF ExitInv

\* The first process of a scan is one of those to scan.
LEMMA MinIn == ASSUME NEW S \in SUBSET Nat, S # {} PROVE Min(S) \in S
  <1> DEFINE R == OpToRel(<, Nat)
  <1>1. \A x, y \in Nat : <<x, y>> \in R <=> x < y
    BY Zenon DEF OpToRel
  <1>2. IsWellFoundedOn(R, Nat)
    BY NatLessThanWellFounded, ZenonT(20)
  <1> HIDE DEF R
  <1>3. \E x \in S : \A y \in S : <<y, x>> \notin R
    BY <1>2, WFMin, ZenonT(20)
  <1> PICK x \in S : \A y \in S : <<y, x>> \notin R
    BY <1>3, ZenonT(20)
  <1>4. \A y \in S : ~(y < x)
    BY <1>1, ZenonT(20)
  <1>5. \A y \in S : x <= y
    BY <1>4, SMTT(40)
  <1> QED BY <1>5, ZenonT(20) DEF Min

\* exit() gives a child to init and owes init a wakeup(); without children it owes one
\* to its own parent.
LEMMA Exit_reparent == \A p \in ProcTable, c \in CPUs : KeepsExit(reparent(p, c))
  <1> SUFFICES ASSUME NEW p \in ProcTable, NEW c \in CPUs, ProcInv, reparent(p, c)
               PROVE  ExitInv'
    BY Zenon DEF KeepsExit
  <1> USE ProcAssumption DEF None
  <1> DEFINE y == Min(Children(p))
  <1>0. /\ On(p, c) /\ pc[p] = "reparent" /\ todo' = [todo EXCEPT ![p] = ProcTable \ {p}]
        /\ IF Children(p) = {}
           THEN pc' = [pc EXCEPT ![p] = "wakeup_parent"] /\ UNCHANGED parent
           ELSE /\ parent' = [parent EXCEPT ![y] = initproc]
                /\ pc' = [pc EXCEPT ![p] = "wakeup_init"]
        /\ UNCHANGED <<state, chan, killed, pid, wait_lock, cpu, cproc, yielding, np>>
    BY Zenon DEF reparent, Goto, locks, cpus
  <1>1. Runs(p, c) /\ TypeOK /\ state[p] = "RUNNING" /\ initproc \in ProcTable
    BY <1>0, RunningThread DEF ProcInv, SchedInv, Runs, initproc, ProcTable
  <1>2. /\ wait_lock = c
        /\ \A x \in ProcTable : x # p => pc[x] \notin WaitPC
        /\ \A x \in ProcTable : Asleep(x) /\ Gone(x) =>
             x = initproc /\ pc[p] = "wakeup_init" /\ x \in todo[p]
    BY <1>0, OwedBy, OneHolder, ZenonT(40) DEF WaitPC
  <1>3. /\ \A x \in ProcTable : x # p => pc'[x] = pc[x] /\ todo'[x] = todo[x]
        /\ todo'[p] = ProcTable \ {p} /\ p # initproc
        /\ pc'[p] = IF Children(p) = {} THEN "wakeup_parent" ELSE "wakeup_init"
        /\ UNCHANGED <<state, chan, killed, pid, wait_lock, cpu, cproc, yielding, np>>
    BY <1>0, <1>1 DEF TypeOK, Family, ExitPC, ProcInv
  <1>4. \A x \in ProcTable : \/ parent'[x] = parent[x]
                             \/ parent[x] = p /\ parent'[x] = initproc /\ Children(p) # {}
    <2>1. Children(p) \in SUBSET Nat
      BY DEF Children, ProcTable
    <2>2. Children(p) # {} => y \in Children(p)
      BY <2>1, MinIn, ZenonT(20)
    <2> HIDE DEF y
    <2> QED BY <1>0, <1>1, <2>2, Zenon DEF Children, TypeOK
  <1> HIDE DEF y
  <1>5. Family'
    <2>1. \A x \in ProcTable : Live(x)' <=> Live(x)
      BY <1>3, Zenon DEF Live
    <2>2. /\ pid'[initproc] = 1 /\ ~killed'[initproc]
          /\ pc'[initproc] \notin ExitPC /\ Live(initproc)'
      BY <1>1, <1>3, <2>1, Zenon DEF Family, ProcInv
    <2>3. \A x \in ProcTable : parent'[x] # None => Live(parent[x])'
      <3>1. \A x \in ProcTable : parent'[x] # None =>
              parent'[x] \in ProcTable /\ (parent'[x] = initproc \/ parent'[x] = parent[x])
        BY <1>1, <1>4, Zenon DEF TypeOK
      <3>2. \A x \in ProcTable : parent'[x] # None => state[parent'[x]] \notin {"UNUSED", "USED", "ZOMBIE"}
        BY <3>1, ZenonT(40) DEF Family, ProcInv, Live
      <3> QED BY <1>3, <3>2, Zenon DEF Live
    <2>4. \A x \in ProcTable : pc'[x] = "fork3" => parent'[np'[x]] = x
      <3>1. \A x \in ProcTable : pc[x] = "fork3" => np[x] \in ProcTable /\ parent[np[x]] = x
        BY Zenon DEF Family, ProcInv, SchedInv, ForksApart, ForkPC
      <3>2. \A x \in ProcTable : pc'[x] = "fork3" => x # p /\ pc[x] = "fork3" /\ np'[x] = np[x]
        BY <1>3, Zenon
      <3> QED BY <1>4, <3>1, <3>2
    <2>5. \A x \in ProcTable :
            x # initproc /\ state'[x] \notin {"UNUSED", "USED"} => parent'[x] # None
      BY <1>1, <1>3, <1>4 DEF Family, ProcInv, ProcTable
    <2>6. \A x \in ProcTable : pc'[x] \in {"wakeup_parent", "zombie"} => Children(x)' = {}
      <3>1. \A x \in ProcTable : pc'[x] \in {"wakeup_parent", "zombie"} => x = p /\ Children(p) = {}
        BY <1>2, <1>3, Zenon DEF WaitPC
      <3> QED BY <1>4, <3>1, Zenon DEF Children
    <2> QED BY <2>2, <2>3, <2>4, <2>5, <2>6, Zenon DEF Family
  <1>6. WaitLocked'
    BY <1>0, <1>2, <1>3, HoldersStay, Zenon
  <1>7. Wakeups'
    <2>1. \A x \in ProcTable : /\ Asleep(x)' => Asleep(x)
                               /\ state'[x] = "SLEEPING" => chan'[x] = x
      BY <1>3, Zenon DEF Asleep, Wakeups, ProcInv
    <2>2. \A x \in ProcTable : Gone(x)' => Gone(x) \/ (x = initproc /\ Children(p) # {})
      BY <1>3, <1>4, Zenon DEF Gone, Children
    <2>3. \A x \in ProcTable : Asleep(x)' /\ Gone(x)' =>
            x = initproc /\ pc'[p] = "wakeup_init" /\ x \in todo'[p]
      BY <1>0, <1>2, <1>3, <2>1, <2>2, Zenon
    <2>4. pc'[p] = "wakeup_parent" => parent'[p] \in todo'[p]
      <3> SUFFICES ASSUME pc'[p] = "wakeup_parent" PROVE parent'[p] \in ProcTable \ {p}
        BY <1>3, Zenon
      <3>1. Children(p) = {} /\ parent'[p] = parent[p]
        BY <1>3, <1>4, Zenon
      <3>2. parent[p] # p
        BY <3>1, Zenon DEF Children
      <3>3. parent[p] # None
        BY <1>1, <1>3, Zenon DEF Family, ProcInv
      <3> QED BY <1>1, <3>1, <3>2, <3>3, Zenon DEF TypeOK
    <2> QED BY <1>2, <1>3, <2>1, <2>3, <2>4, WakeupsHolder, ZenonT(40)
  <1> QED BY <1>5, <1>6, <1>7, Zenon DEF ExitInv

\* One turn of wakeup(ch)'s loop: whoever sleeps on ch and is visited is awake.
LEMMA Visited ==
  ASSUME ProcInv, NEW p \in ProcTable, NEW c \in CPUs, On(p, c),
         pc[p] \in {"wakeup_init", "wakeup_parent"},
         NEW ch, NEW next \in {"reparent", "zombie"}, wakeup(p, ch, next),
         Runs(p, c), TypeOK
  PROVE  /\ \A x \in ProcTable : x # p => pc'[x] = pc[x] /\ todo'[x] = todo[x]
         /\ \A x \in ProcTable : \/ state'[x] = state[x]
                                 \/ state[x] = "SLEEPING" /\ state'[x] = "RUNNABLE"
         /\ UNCHANGED <<chan, killed, pid, parent, wait_lock, cpu, cproc, yielding, np>>
         /\ pc'[p] \in {pc[p], next}
         /\ \A x \in ProcTable : Asleep(x)' => Asleep(x)
         /\ \A x \in ProcTable : Asleep(x)' /\ x = ch /\ x \in todo[p] =>
              pc'[p] = pc[p] /\ x \in todo'[p]
  <1> USE ProcAssumption DEF None
  <1> DEFINE q == Min(todo[p])
  <1>0. /\ plock[q] = None
        /\ state' = [state EXCEPT ![q] = IF @ = "SLEEPING" /\ chan[q] = ch THEN "RUNNABLE" ELSE @]
        /\ todo' = [todo EXCEPT ![p] = @ \ {q}]
        /\ pc' = [pc EXCEPT ![p] = IF todo[p] = {q} THEN next ELSE pc[p]]
        /\ UNCHANGED <<chan, killed, pid, parent, wait_lock, cpu, cproc, yielding, np>>
    BY Zenon DEF wakeup, Goto, locks, cpus
  <1> HIDE DEF q
  <1>1. /\ \A x \in ProcTable : x # p => pc'[x] = pc[x] /\ todo'[x] = todo[x]
        /\ pc'[p] = (IF todo[p] = {q} THEN next ELSE pc[p]) /\ todo'[p] = todo[p] \ {q}
        /\ \A x \in ProcTable : \/ state'[x] = state[x]
                                \/ state[x] = "SLEEPING" /\ state'[x] = "RUNNABLE"
    BY <1>0 DEF TypeOK
  <1>2. \A x \in ProcTable : Asleep(x)' => Asleep(x)
    BY <1>1, Zenon DEF Asleep
  <1>3. ASSUME NEW x \in ProcTable, Asleep(x)', x = ch, x \in todo[p]
        PROVE  pc'[p] = pc[p] /\ x \in todo'[p]
    <2>1. x # q
      <3> SUFFICES ASSUME x = q PROVE FALSE
        BY Zenon
      <3>1. pc[x] # "sleep2"
        BY <1>0, SleeperLocked, Zenon
      <3>2. state[x] = "SLEEPING"
        BY <1>2, <1>3, <3>1, Zenon DEF Asleep
      <3>3. chan[x] = x
        BY <3>2, Zenon DEF ProcInv, Wakeups
      <3>4. state'[x] = "RUNNABLE"
        BY <1>0, <1>3, <3>2, <3>3, ZenonT(40) DEF TypeOK
      <3>5. pc'[x] # "sleep2"
        BY <1>1, <3>1, ZenonT(40)
      <3> QED BY <1>3, <3>4, <3>5, Zenon DEF Asleep
    <2> QED BY <1>1, <1>3, <2>1, Zenon
  <1> QED BY <1>0, <1>1, <1>2, <1>3, Zenon

\* wakeup(initproc) in reparent(): init is owed the wakeup until it is visited.
LEMMA Exit_wakeup_init == \A p \in ProcTable, c \in CPUs : KeepsExit(wakeup_init(p, c))
  <1> SUFFICES ASSUME NEW p \in ProcTable, NEW c \in CPUs, ProcInv, wakeup_init(p, c)
               PROVE  ExitInv'
    BY Zenon DEF KeepsExit
  <1> USE ProcAssumption DEF None
  <1>0. /\ On(p, c) /\ pc[p] = "wakeup_init" /\ wakeup(p, initproc, "reparent")
    BY Zenon DEF wakeup_init
  <1>1. Runs(p, c) /\ TypeOK /\ state[p] = "RUNNING" /\ initproc \in ProcTable
    BY <1>0, RunningThread DEF ProcInv, SchedInv, Runs, initproc, ProcTable
  <1>2. /\ wait_lock = c
        /\ \A x \in ProcTable : x # p => pc[x] \notin WaitPC
        /\ \A x \in ProcTable : Asleep(x) /\ Gone(x) =>
             x = initproc /\ pc[p] = "wakeup_init" /\ x \in todo[p]
    BY <1>0, OwedBy, OneHolder, Zenon DEF WaitPC
  <1>3. /\ \A x \in ProcTable : x # p => pc'[x] = pc[x] /\ todo'[x] = todo[x]
        /\ \A x \in ProcTable : \/ state'[x] = state[x]
                                \/ state[x] = "SLEEPING" /\ state'[x] = "RUNNABLE"
        /\ UNCHANGED <<chan, killed, pid, parent, wait_lock, cpu, cproc, yielding, np>>
        /\ pc'[p] \in {pc[p], "reparent"}
        /\ \A x \in ProcTable : Asleep(x)' => Asleep(x)
        /\ \A x \in ProcTable : Asleep(x)' /\ x = initproc /\ x \in todo[p] =>
              pc'[p] = pc[p] /\ x \in todo'[p]
    BY <1>0, <1>1, Visited, Zenon
  <1>4. p # initproc
    BY <1>0, Zenon DEF Family, ExitPC, ProcInv
  <1>5. Family'
    BY <1>0, <1>1, <1>3, <1>4, FamilyKept, ZenonT(40) DEF Live, Family, ProcInv
  <1>6. WaitLocked'
    BY <1>0, <1>2, <1>3, HoldersStay, Zenon
  <1>7. Wakeups'
    <2>1. \A x \in ProcTable : /\ Gone(x)' => Gone(x)
                               /\ state'[x] = "SLEEPING" => chan'[x] = x
      BY <1>3 DEF Gone, Children, Wakeups, ProcInv
    <2>2. \A x \in ProcTable : Asleep(x)' /\ Gone(x)' =>
            x = initproc /\ pc'[p] = "wakeup_init" /\ x \in todo'[p]
      BY <1>0, <1>2, <1>3, <2>1, ZenonT(40)
    <2> QED BY <1>0, <1>2, <1>3, <2>1, <2>2, WakeupsHolder, ZenonT(40)
  <1> QED BY <1>5, <1>6, <1>7, Zenon DEF ExitInv

\* wakeup(p->parent) in exit(): the parent is owed the wakeup until it is visited.
LEMMA Exit_wakeup_parent == \A p \in ProcTable, c \in CPUs : KeepsExit(wakeup_parent(p, c))
  <1> SUFFICES ASSUME NEW p \in ProcTable, NEW c \in CPUs, ProcInv, wakeup_parent(p, c)
               PROVE  ExitInv'
    BY Zenon DEF KeepsExit
  <1> USE ProcAssumption DEF None
  <1>0. /\ On(p, c) /\ pc[p] = "wakeup_parent" /\ wakeup(p, parent[p], "zombie")
    BY Zenon DEF wakeup_parent
  <1>1. Runs(p, c) /\ TypeOK /\ state[p] = "RUNNING" /\ initproc \in ProcTable
    BY <1>0, RunningThread DEF ProcInv, SchedInv, Runs, initproc, ProcTable
  <1>2. /\ wait_lock = c
        /\ \A x \in ProcTable : x # p => pc[x] \notin WaitPC
        /\ \A x \in ProcTable : Asleep(x) /\ Gone(x) =>
             x = initproc /\ pc[p] = "wakeup_init" /\ x \in todo[p]
    BY <1>0, OwedBy, OneHolder, Zenon DEF WaitPC
  <1>3. /\ \A x \in ProcTable : x # p => pc'[x] = pc[x] /\ todo'[x] = todo[x]
        /\ \A x \in ProcTable : \/ state'[x] = state[x]
                                \/ state[x] = "SLEEPING" /\ state'[x] = "RUNNABLE"
        /\ UNCHANGED <<chan, killed, pid, parent, wait_lock, cpu, cproc, yielding, np>>
        /\ pc'[p] \in {pc[p], "zombie"}
        /\ \A x \in ProcTable : Asleep(x)' => Asleep(x)
        /\ \A x \in ProcTable : Asleep(x)' /\ x = parent[p] /\ x \in todo[p] =>
              pc'[p] = pc[p] /\ x \in todo'[p]
    BY <1>0, <1>1, Visited, Zenon
  <1>4. p # initproc /\ parent[p] \in ProcTable
    BY <1>0, ExitingHasParent, Zenon DEF Family, ExitPC, ProcInv
  <1>5. Family'
    BY <1>0, <1>1, <1>3, <1>4, FamilyKept, ZenonT(40) DEF Live, Family, ProcInv
  <1>6. WaitLocked'
    BY <1>0, <1>2, <1>3, HoldersStay, Zenon
  <1>7. Wakeups'
    <2>1. \A x \in ProcTable : /\ Gone(x)' => Gone(x)
                               /\ state'[x] = "SLEEPING" => chan'[x] = x
      BY <1>3 DEF Gone, Children, Wakeups, ProcInv
    <2>2. \A x \in ProcTable : ~(Asleep(x)' /\ Gone(x)')
      BY <1>0, <1>2, <1>3, <2>1, Zenon
    <2>3. Asleep(parent[p])' => pc'[p] = "wakeup_parent" /\ parent'[p] \in todo'[p]
      <3> SUFFICES ASSUME Asleep(parent[p])'
                   PROVE  pc'[p] = "wakeup_parent" /\ parent[p] \in todo'[p]
        BY <1>3, Zenon
      <3> PICK x \in ProcTable : x = parent[p]
        BY <1>4, Zenon
      <3>1. parent'[p] = x
        BY <1>3, Zenon
      <3>2. pc'[x] = "sleep2" \/ state'[x] = "SLEEPING"
        BY <3>1, Zenon DEF Asleep
      <3>3. pc[x] = "sleep2" \/ state[x] = "SLEEPING"
        BY <1>0, <1>3, <3>1, <3>2, ZenonT(40)
      <3>4. x \in todo[p]
        BY <1>0, <3>3, Zenon DEF Wakeups, ProcInv, Asleep
      <3>5. Asleep(x)'
        BY <3>2, Zenon DEF Asleep
      <3>6. pc'[p] = pc[p] /\ x \in todo'[p]
        BY <1>3, <3>4, <3>5, ZenonT(40)
      <3> QED BY <1>0, <3>6, Zenon
    <2> QED BY <1>0, <1>2, <1>3, <2>1, <2>2, <2>3, WakeupsHolder, ZenonT(40)
  <1> QED BY <1>5, <1>6, <1>7, Zenon DEF ExitInv

\* exit() becomes a ZOMBIE when its parent is not asleep and it has no children.
LEMMA Exit_zombie == \A p \in ProcTable, c \in CPUs : KeepsExit(zombie(p, c))
  <1> SUFFICES ASSUME NEW p \in ProcTable, NEW c \in CPUs, ProcInv, zombie(p, c)
               PROVE  ExitInv'
    BY Zenon DEF KeepsExit
  <1> USE ProcAssumption DEF None
  <1>0. /\ On(p, c) /\ pc[p] = "zombie" /\ state' = [state EXCEPT ![p] = "ZOMBIE"]
        /\ wait_lock' = None /\ pc' = [pc EXCEPT ![p] = "dead"]
        /\ UNCHANGED <<chan, killed, pid, parent, cpu, cproc, yielding, np, todo>>
    BY Zenon DEF zombie, Goto, cpus
  <1>1. Runs(p, c) /\ TypeOK /\ state[p] = "RUNNING" /\ initproc \in ProcTable
    BY <1>0, RunningThread DEF ProcInv, SchedInv, Runs, initproc, ProcTable
  <1>2. /\ wait_lock = c
        /\ \A x \in ProcTable : x # p => pc[x] \notin WaitPC
        /\ \A x \in ProcTable : Asleep(x) /\ Gone(x) =>
             x = initproc /\ pc[p] = "wakeup_init" /\ x \in todo[p]
    BY <1>0, OwedBy, OneHolder, Zenon DEF WaitPC
  <1>3. /\ pc'[p] = "dead" /\ state'[p] = "ZOMBIE"
        /\ \A x \in ProcTable : x # p => pc'[x] = pc[x] /\ state'[x] = state[x]
        /\ UNCHANGED <<chan, killed, pid, parent, cpu, cproc, yielding, np, todo>>
    BY <1>0, <1>1, Zenon DEF TypeOK
  <1>4. /\ p # initproc /\ \A x \in ProcTable : parent[x] # p
        /\ parent[p] \in ProcTable /\ ~Asleep(parent[p])
    BY <1>0, ExitingHasParent, ZenonT(40) DEF Family, ExitPC, ProcInv, Children, Wakeups
  <1>5. Family'
    <2>1. /\ pid'[initproc] = 1 /\ ~killed'[initproc]
          /\ pc'[initproc] \notin ExitPC /\ Live(initproc)'
      BY <1>1, <1>3, <1>4, ZenonT(40) DEF Family, ProcInv, Live
    <2>2. \A x \in ProcTable : parent'[x] # None => Live(parent[x])'
      BY <1>1, <1>3, <1>4, SMTT(60) DEF Family, ProcInv, Live, TypeOK
    <2>3. \A x \in ProcTable :
            /\ x # initproc /\ state'[x] \notin {"UNUSED", "USED"} => parent'[x] # None
            /\ pc'[x] = "fork3" => parent'[np'[x]] = x
            /\ pc'[x] \notin {"wakeup_parent", "zombie"}
      BY <1>1, <1>2, <1>3 DEF Family, ProcInv, WaitPC
    <2> QED BY <2>1, <2>2, <2>3, Zenon DEF Family
  <1>6. WaitLocked'
    BY <1>0, <1>2, <1>3, HoldersStay, Zenon DEF WaitPC
  <1>7. Wakeups'
    <2>1. \A x \in ProcTable : /\ Asleep(x)' => Asleep(x)
                               /\ Gone(x)' => Gone(x) \/ x = parent[p]
                               /\ state'[x] = "SLEEPING" => chan'[x] = x
      BY <1>3, Zenon DEF Asleep, Gone, Children, Wakeups, ProcInv
    <2>2. \A x \in ProcTable : ~(Asleep(x)' /\ Gone(x)')
      BY <1>0, <1>2, <1>4, <2>1, Zenon
    <2> QED BY <1>2, <1>3, <2>1, <2>2, WakeupsHolder, ZenonT(40)
  <1> QED BY <1>5, <1>6, <1>7, Zenon DEF ExitInv
-----------------------------------------------------------------------------
\* init alone, and nobody waiting.
LEMMA InitExit == Init => ExitInv
  <1> SUFFICES ASSUME Init PROVE ExitInv
    BY Zenon
  <1> USE ProcAssumption DEF Init, ProcTable, None, initproc
  <1>1. Family
    BY DEF Family, Live, ExitPC
  <1>2. WaitLocked
    BY Zenon DEF WaitLocked, WaitPC
  <1>3. Wakeups
    BY Zenon DEF Wakeups, Asleep, Gone, Children
  <1> QED BY <1>1, <1>2, <1>3, Zenon DEF ExitInv

LEMMA NextExit == ASSUME ProcInv, [Next]_vars, SchedInv' PROVE ExitInv'
  <1>1. CASE UNCHANGED vars
    BY <1>1 DEF ProcInv, ExitInv, Family, WaitLocked, Wakeups, Live, Asleep, Gone, Children, On,
                vars, fields, locks, cpus, threads
  <1>2. CASE \E c \in CPUs : scheduler_back(c)
    BY <1>2, Exit_scheduler_back, Zenon DEF KeepsExit
  <1>3. ASSUME NEW p \in ProcTable, NEW c \in CPUs,
               \/ scheduler(c, p) \/ yield(p, c) \/ yield_back(p, c)
               \/ usertrap(p, c) \/ Thread(p, c)
        PROVE  ExitInv'
    <2>1. CASE scheduler(c, p) \/ yield(p, c) \/ yield_back(p, c)
      BY <2>1, Exit_scheduler, Exit_yield, Exit_yield_back, Zenon DEF KeepsExit
    <2>2. CASE usertrap(p, c) \/ usertrap_killed(p, c) \/ usertrap_ret(p, c)
      BY <2>2, Exit_usertrap, Zenon DEF KeepsExit
    <2>3. CASE kill(p, c) \/ fork(p, c) \/ fork2(p, c) \/ fork3(p, c)
      BY <2>3, Exit_kill, Exit_fork, Exit_fork2, Exit_fork3, ZenonT(40) DEF KeepsExit
    <2>4. CASE wait(p, c) \/ exit(p, c) \/ wait_check(p, c) \/ wait_scan(p, c)
      BY <2>4, Exit_wait, Exit_exit, Exit_wait_check, Exit_wait_scan, ZenonT(40) DEF KeepsExit
    <2>5. CASE reparent(p, c) \/ wakeup_init(p, c) \/ wakeup_parent(p, c)
      BY <2>5, Exit_reparent, Exit_wakeup_init, Exit_wakeup_parent, Zenon DEF KeepsExit
    <2>6. CASE forkret(p, c) \/ sleep(p, c) \/ sleep2(p, c) \/ woken(p, c)
      BY <2>6, Exit_forkret, Exit_sleep, Exit_sleep2, Exit_woken, Zenon DEF KeepsExit
    <2>7. CASE zombie(p, c) \/ dead(p, c)
      BY <2>7, Exit_zombie, Exit_dead, Zenon DEF KeepsExit
    <2> QED BY <1>3, <2>1, <2>2, <2>3, <2>4, <2>5, <2>6, <2>7, ZenonT(40) DEF Thread
  <1> QED BY <1>1, <1>2, <1>3, ZenonT(40) DEF Next

\* ProcInv is an invariant of proc.c.
THEOREM ProcInvariant == Spec => []ProcInv
  <1>1. Init => ProcInv
    BY InitSched, InitExit, Zenon DEF ProcInv, ExitInv
  <1>2. ProcInv /\ [Next]_vars => ProcInv'
    <2>1. ProcInv => SchedInv
      BY Zenon DEF ProcInv
    <2>2. ProcInv' <=> SchedInv' /\ ExitInv'
      BY Zenon DEF ProcInv, ExitInv
    <2> QED BY <2>1, <2>2, NextSched, NextExit, Zenon
  <1> QED BY <1>1, <1>2, PTL DEF Spec

\* What the invariant says of exits: the orphans are passed on, and whoever sleeps
\* too early is owed a wakeup() by the holder of wait_lock.
LEMMA Collected == ProcInv => ExitsCollected
  <1> SUFFICES ASSUME ProcInv PROVE ExitsCollected
    BY Zenon
  <1>1. \A p \in ProcTable \ {initproc} : state[p] \notin {"UNUSED", "USED"} =>
          parent[p] # None /\ state[parent[p]] \notin {"UNUSED", "USED", "ZOMBIE"}
    BY Zenon DEF ProcInv, Family, Live
  <1>2. wait_lock = None => \A p \in ProcTable : ~(Asleep(p) /\ Gone(p))
    BY OwedBy, NoHolder, Zenon DEF WaitPC
  <1>3. wait_lock = None => \A p \in ProcTable : state[p] = "SLEEPING" =>
          \A q \in Children(p) : state[q] # "ZOMBIE"
    BY <1>2, Zenon DEF Asleep, Gone
  <1> QED BY <1>1, <1>3, Zenon DEF ExitsCollected

\* Every process that was started has a parent that can still wait for it, and with
\* wait_lock free nobody sleeps in wait() over a child that has exited: no wakeup()
\* of exit() or reparent() is lost, for any number of processes and CPUs.
THEOREM ExitsAreCollected == Spec => []ExitsCollected
  BY ProcInvariant, Collected, PTL
=============================================================================
