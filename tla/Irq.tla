-------------------------------- MODULE Irq --------------------------------
(***************************************************************************)
(* Spin locks and interrupts, kernel/spinlock.c, with the clock: clockintr()*)
(* and kerneltrap() of kernel/trap.c, sys_sleep() of kernel/sysproc.c, and  *)
(* what sched() and scheduler() do to the interrupt state.                  *)
(*                                                                          *)
(* A kernel thread is a stack of frames: the system call and, above it, the *)
(* interrupt handler that interrupted it.  A frame runs a list of           *)
(* operations; acquire() and release() take several steps, because an       *)
(* interrupt may come wherever SSTATUS_SIE is set.                          *)
(***************************************************************************)
EXTENDS Integers, Sequences, FiniteSets

CONSTANTS Harts, boot,   \* CPUs; the one with cpuid() 0
          Threads,       \* processes; each names its p->lock, too
          MayDie,        \* those that may be killed
          Naps,          \* arguments of sleep()
          TWRAP,         \* modulus of ticks
          FirstTick, MaxTicks, MaxNaps   \* its value at the start; bounds

ASSUME IrqAssumption ==
  /\ boot \in Harts /\ MayDie \subseteq Threads /\ TWRAP \in Nat \ {0} /\ FirstTick \in 0 .. TWRAP - 1
  /\ MaxTicks \in 0 .. TWRAP - 1 /\ Naps \subseteq Nat /\ MaxNaps \in Nat

VARIABLES hart,    \* per CPU: SIE, c->noff, c->intena, c->proc
          lk,      \* per lock: the CPU that holds it, or Off
          stack,   \* per thread: its frames, the innermost first
          asleep,  \* threads in state SLEEPING, on &ticks
          nap,     \* per thread: n and ticks0 of sys_sleep(), when it began; p->killed
          ticks, elapsed, naps

ivars == <<hart, lk, stack, asleep, nap, ticks, elapsed, naps>>

Tick == "tickslock"
Idle == "scheduler"
Off == "free"
Locks == Threads \cup {Tick}

Frame(code) == [code |-> code, k |-> 1, at |-> "go", old |-> FALSE, intena |-> FALSE]

IInit == /\ hart = [c \in Harts |-> [sie |-> TRUE, noff |-> 0, intena |-> TRUE, thr |-> Idle]]
         /\ lk = [l \in Locks |-> Off] /\ asleep = {}
         \* every process is about to call sleep(), and was left by yield()
         /\ stack = [t \in Threads |-> <<[Frame("start") EXCEPT !.intena = TRUE]>>]
         /\ nap = [t \in Threads |-> [n |-> 0, t0 |-> 0, ago |-> 0, killed |-> FALSE]]
         /\ ticks = FirstTick /\ elapsed = 0 /\ naps = 0

\* The operations of a frame.  sys_sleep() with the body of sleep(); clockintr() on the
\* CPU with cpuid() 0, then kerneltrap()'s yield(); on the others yield() alone.
Code(code, t) ==
  CASE code = "sleep" -> << <<"acquire", Tick>>, <<"while">>, <<"acquire", t>>, <<"release", Tick>>,
                            <<"sched">>, <<"release", t>>, <<"acquire", Tick>>, <<"again">>,
                            <<"release", Tick>> >>
    [] code = "clock" -> << <<"acquire", Tick>>, <<"tick">>, <<"release", Tick>>,
                            <<"acquire", t>>, <<"sched">>, <<"release", t>> >>
    [] code = "yield" -> << <<"acquire", t>>, <<"sched">>, <<"release", t>> >>
    [] code = "start" -> << <<"sched">>, <<"release", t>> >>

Traps == {"clock", "yield"}
Top(t) == Head(stack[t])
Over(t) == stack[t] = <<>> \/ Top(t).k > Len(Code(Top(t).code, t))
Runs(c, t) == hart[c].thr = t
\* Thread t runs on c and is about to do operation o, at step s of it.
Doing(c, t, o, s) ==
  Runs(c, t) /\ ~Over(t) /\ Top(t).at = s /\ Code(Top(t).code, t)[Top(t).k][1] = o
Arg(t) == Code(Top(t).code, t)[Top(t).k][2]
At2(t, f) == stack' = [stack EXCEPT ![t] = <<f>> \o Tail(@)]
Step(t, s) == At2(t, [Top(t) EXCEPT !.at = s])
Skip(t, k) == At2(t, [Top(t) EXCEPT !.k = k, !.at = "go"])
Advance(t) == Skip(t, Top(t).k + 1)
SameNap == UNCHANGED <<asleep, nap, ticks, elapsed, naps>>
-----------------------------------------------------------------------------
(* acquire() and release() *)

\* push_off(): int old = intr_get();
push_off_get(c, t) ==
  /\ Doing(c, t, "acquire", "go")
  /\ At2(t, [Top(t) EXCEPT !.at = "off", !.old = hart[c].sie])
  /\ UNCHANGED <<hart, lk>> /\ SameNap

\* Mutant: the state that is kept is the one after intr_off().
push_off_late(c, t) ==
  /\ Doing(c, t, "acquire", "off") /\ Step(t, "spin")
  /\ hart' = [hart EXCEPT ![c] = [@ EXCEPT !.sie = FALSE, !.noff = @ + 1,
                !.intena = IF hart[c].noff = 0 THEN FALSE ELSE @]]
  /\ UNCHANGED lk /\ SameNap

\* intr_off(), and the counter.
push_off(c, t) ==
  /\ Doing(c, t, "acquire", "off") /\ Step(t, "spin")
  /\ hart' = [hart EXCEPT ![c] = [@ EXCEPT !.sie = FALSE, !.noff = @ + 1,
                !.intena = IF hart[c].noff = 0 THEN Top(t).old ELSE @]]
  /\ UNCHANGED lk /\ SameNap

\* The swap succeeds.
acquire(c, t) ==
  /\ Doing(c, t, "acquire", "spin") /\ lk[Arg(t)] = Off
  /\ lk' = [lk EXCEPT ![Arg(t)] = c] /\ Advance(t)
  /\ UNCHANGED hart /\ SameNap

release(c, t) ==
  /\ Doing(c, t, "release", "go") /\ Step(t, "pop")
  /\ lk' = [lk EXCEPT ![Arg(t)] = Off]
  /\ UNCHANGED hart /\ SameNap

\* pop_off()'s effect on a CPU.
Popped(h) == [h EXCEPT !.noff = @ - 1, !.sie = h.noff = 1 /\ h.intena]

pop_off(c, t) ==
  /\ Doing(c, t, "release", "pop") /\ Advance(t)
  /\ hart' = [hart EXCEPT ![c] = Popped(@)]
  /\ UNCHANGED lk /\ SameNap
-----------------------------------------------------------------------------
(* sys_sleep() *)

sys_sleep(c, t, n) ==
  /\ Runs(c, t) /\ stack[t] = <<>> /\ naps < MaxNaps /\ naps' = naps + 1
  /\ stack' = [stack EXCEPT ![t] = <<Frame("sleep")>>]
  /\ nap' = [nap EXCEPT ![t] = [@ EXCEPT !.n = n, !.t0 = 0, !.ago = 0]]
  /\ UNCHANGED <<hart, lk, asleep, ticks, elapsed>>

\* Mutant: a deadline instead of a difference.
Before_deadline(now, t0, n) == now < (t0 + n) % TWRAP

\* ticks - ticks0 < n, in unsigned arithmetic.
Before(now, t0, n) == (now - t0 + TWRAP) % TWRAP < n

\* The loop: the first time with ticks0 = ticks.  A killed process leaves it.
sleep_while(c, t) ==
  LET first == Doing(c, t, "while", "go")
      t0 == IF first THEN ticks ELSE nap[t].t0
  IN /\ first \/ Doing(c, t, "again", "go")
     /\ nap' = [nap EXCEPT ![t].t0 = t0, ![t].ago = IF first THEN elapsed ELSE @]
     /\ Skip(t, IF Before(ticks, t0, nap[t].n) /\ ~nap[t].killed THEN 3 ELSE 9)
     /\ UNCHANGED <<hart, lk, asleep, ticks, elapsed, naps>>

\* kill(), of a process that is in sleep() or on its way
kill_nap(t) ==
  /\ ~nap[t].killed /\ lk[t] = Off /\ stack[t] # <<>> /\ stack[t][Len(stack[t])].code = "sleep"
  /\ nap' = [nap EXCEPT ![t].killed = TRUE] /\ asleep' = asleep \ {t}
  /\ UNCHANGED <<hart, lk, stack, ticks, elapsed, naps>>

\* sleep() and yield() call sched(): it keeps intena; scheduler() releases p->lock and,
\* at the top of its loop, turns interrupts on.
sched_intena(c, t) ==
  /\ Doing(c, t, "sched", "go")
  /\ At2(t, [Top(t) EXCEPT !.at = "away", !.intena = hart[c].intena])
  /\ hart' = [hart EXCEPT ![c] = [Popped(@) EXCEPT !.sie = TRUE, !.thr = Idle]]
  /\ lk' = [lk EXCEPT ![t] = Off]
  /\ asleep' = IF Top(t).code = "sleep" THEN asleep \cup {t} ELSE asleep
  /\ UNCHANGED <<nap, ticks, elapsed, naps>>

\* scheduler() acquires p->lock and switches; sched() restores intena.
scheduler_intena(c, t) ==
  /\ hart[c].thr = Idle /\ lk[t] = Off /\ t \notin asleep
  /\ stack[t] # <<>> /\ Top(t).k <= Len(Code(Top(t).code, t))
  /\ Code(Top(t).code, t)[Top(t).k][1] = "sched"
  /\ \A d \in Harts : hart[d].thr # t
  /\ Advance(t)
  /\ lk' = [lk EXCEPT ![t] = c]
  /\ hart' = [hart EXCEPT ![c] = [sie |-> FALSE, noff |-> 1, intena |-> Top(t).intena, thr |-> t]]
  /\ SameNap
-----------------------------------------------------------------------------
(* The timer interrupt *)

\* kernelvec: interrupts are off in the handler.
timer(c, t) ==
  /\ Runs(c, t) /\ hart[c].sie /\ Len(stack[t]) <= 1
  /\ elapsed < MaxTicks
  /\ stack' = [stack EXCEPT ![t] = <<Frame(IF c = boot THEN "clock" ELSE "yield")>> \o @]
  /\ hart' = [hart EXCEPT ![c].sie = FALSE]
  /\ UNCHANGED lk /\ SameNap

\* wakeup(&ticks) needs the p->lock of every other process.
Wakeable(c, t) == \A q \in Threads \ {t} : lk[q] = Off

\* clockintr()
clockintr(c, t) ==
  /\ Doing(c, t, "tick", "go") /\ Wakeable(c, t) /\ Advance(t)
  /\ ticks' = (ticks + 1) % TWRAP /\ elapsed' = elapsed + 1
  /\ asleep' = {}
  /\ UNCHANGED <<hart, lk, nap, naps>>

\* The same on the scheduler's stack, where there is no process to yield.
clockintr_idle(c) ==
  /\ c = boot /\ hart[c].thr = Idle /\ hart[c].sie /\ lk[Tick] = Off /\ Wakeable(c, Idle)
  /\ elapsed < MaxTicks
  /\ ticks' = (ticks + 1) % TWRAP /\ elapsed' = elapsed + 1
  /\ asleep' = {}
  /\ UNCHANGED <<hart, lk, stack, nap, naps>>

\* The end of a frame: kerneltrap() restores sstatus, the system call returns.
return(c, t) ==
  /\ Runs(c, t) /\ stack[t] # <<>> /\ Over(t)
  /\ stack' = [stack EXCEPT ![t] = Tail(@)]
  /\ hart' = [hart EXCEPT ![c].sie = IF Top(t).code \in Traps THEN TRUE ELSE @]
  /\ UNCHANGED lk /\ SameNap

IDone == elapsed = MaxTicks /\ UNCHANGED ivars

INext == \/ \E c \in Harts, t \in Threads :
              \/ push_off_get(c, t) \/ push_off(c, t) \/ acquire(c, t)
              \/ release(c, t) \/ pop_off(c, t)
              \/ sleep_while(c, t) \/ sched_intena(c, t) \/ scheduler_intena(c, t)
              \/ timer(c, t) \/ clockintr(c, t) \/ return(c, t)
              \/ \E n \in Naps : sys_sleep(c, t, n)
         \/ \E c \in Harts : clockintr_idle(c)
         \/ \E t \in MayDie : kill_nap(t)
         \/ IDone

ISpec == IInit /\ [][INext]_ivars
-----------------------------------------------------------------------------
(* Properties *)

ITypeOK ==
  /\ hart \in [Harts -> [sie : BOOLEAN, noff : Nat, intena : BOOLEAN, thr : Threads \cup {Idle}]]
  /\ lk \in [Locks -> Harts \cup {Off}] /\ asleep \subseteq Threads
  /\ ticks \in 0 .. TWRAP - 1 /\ naps \in 0 .. MaxNaps

\* push_off() calls of thread t that are not matched yet and hold no lock.
Pending(t) == Len(SelectSeq(stack[t], LAMBDA f : f.at \in {"spin", "pop"}))

\* No interrupt handler can meet a lock that its own CPU holds: whoever holds a lock, or
\* spins for one, has interrupts off; noff counts exactly that, through nesting, handlers
\* that come in the middle of push_off(), and threads that change CPUs in sched().  A CPU
\* never spins for a lock it has.  Outside of locks a system call runs with interrupts on.
InterruptsSafe ==
  /\ \A c \in Harts :
       LET t == hart[c].thr
           held == Cardinality({l \in Locks : lk[l] = c})
       IN /\ hart[c].noff = held + (IF t = Idle THEN 0 ELSE Pending(t))
          /\ hart[c].noff > 0 => ~hart[c].sie
          /\ t # Idle /\ hart[c].noff = 0
               /\ (stack[t] = <<>> \/ (Top(t).at = "go" /\ Top(t).code \notin Traps)) => hart[c].sie
  /\ \A c \in Harts, t \in Threads : Doing(c, t, "acquire", "spin") => lk[Arg(t)] # c

\* sys_sleep() sleeps n ticks, across the wrap of ticks: it is asleep only before they
\* are over, and does not leave its loop earlier, unless it was killed.
SleepsOnTime == \A t \in Threads :
  /\ t \in asleep /\ lk[Tick] = Off => elapsed - nap[t].ago < nap[t].n
  /\ (\E c \in Harts : Runs(c, t)) /\ stack[t] # <<>> /\ Top(t).code = "sleep" /\ Top(t).k = 9 =>
       nap[t].killed \/ elapsed - nap[t].ago >= nap[t].n
=============================================================================
