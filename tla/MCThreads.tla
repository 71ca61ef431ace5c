----------------------------- MODULE MCThreads -----------------------------
(* Proc, Irq, Umalloc, Shell and Grep for TLC: one runs in each behaviour.    *)
(* Proc stays as it was at the start when another one runs, the variables of  *)
(* the others are 0.                                                          *)
EXTENDS MCProc, Irq, Umalloc, Shell, Grep

VARIABLE which

\* Shell: every line of up to three tokens, and longer ones that mix the operators.
Tokens == {"a", "|", "&", ";", "<", "(", ")"}
ShellLines ==
  UNION {[1 .. n -> Tokens] : n \in 0 .. 3}
  \cup {<<"a", x, "a", y, "a">> : x, y \in {"|", "&", ";", "<"}}
  \cup {<<"(", "a", x, "a", ")", y, "a">> : x, y \in {"|", ";", ">"}}
  \cup {<<"a", "&", ";", "a", "|", "a">>, <<"(", "a", "&", ")", "|", "a">>, <<"a", "+", "a", "a", "a">>}
  \cup {<<"cd", "a">>}

\* Grep: every pattern of up to three characters; files that are shorter than the buffer, or
\* have a line longer than it, or end in the middle of a line.
GrepPatterns == UNION {[1 .. n -> {"a", ".", "*", "$", "^"}] : n \in 0 .. 3}
GrepFiles ==
  {<<t>> : t \in UNION {[1 .. n -> {"a", "b", "n"}] : n \in 0 .. 3}}
  \cup {<<<<"a", "a", "n", "a">>, <<"n", "b", "a", "n">>>>, <<<<"b", "a", "a", "a", "n", "a", "n">>>>,
        <<<<"*", "$", "n", "^", "n">>>>}

\* The variables of a component that does not run.
NoIrq == /\ hart = 0 /\ lk = 0 /\ stack = 0 /\ asleep = 0 /\ nap = 0 /\ ticks = 0 /\ elapsed = 0
         /\ naps = 0
NoHeap == /\ hdr = 0 /\ freep = 0 /\ brk = 0 /\ run = 0 /\ live = 0 /\ core = 0 /\ mallocs = 0
NoShell == /\ pr = 0 /\ sbuf = 0 /\ ps = 0 /\ bytes = 0 /\ lines = 0 /\ fails = 0 /\ writes = 0
NoGrep == /\ pattern = 0 /\ files = 0 /\ whole = 0 /\ unread = 0 /\ gbuf = 0 /\ gp = 0 /\ gpc = 0
          /\ out = 0

ThInit ==
  /\ which \in {"proc", "irq", "heap", "shell", "grep"}
  /\ Init
  /\ IF which = "irq" THEN IInit ELSE NoIrq
  /\ IF which = "heap" THEN UInit ELSE NoHeap
  /\ IF which = "shell" THEN ShInit ELSE NoShell
  /\ IF which = "grep" THEN GInit ELSE NoGrep

ThNext ==
  \/ which = "proc" /\ Next /\ UNCHANGED <<which, ivars, uvars, shvars, gvars>>
  \/ which = "irq" /\ INext /\ UNCHANGED <<which, vars, uvars, shvars, gvars>>
  \/ which = "heap" /\ UNext /\ UNCHANGED <<which, vars, ivars, shvars, gvars>>
  \/ which = "shell" /\ ShNext /\ UNCHANGED <<which, vars, ivars, uvars, gvars>>
  \/ which = "grep" /\ GNext /\ UNCHANGED <<which, vars, ivars, uvars, shvars>>

ThSpec == ThInit /\ [][ThNext]_<<which, vars, ivars, uvars, shvars, gvars>>
-----------------------------------------------------------------------------
(* The properties of the components, each of the behaviours in which it runs; *)
(* those of Proc are asked as they stand.                                     *)

\* Every variable has its type, in whichever component runs; for Proc, the whole
\* invariant that its proofs are based on.
ThTypeOK == CASE which = "proc" -> ProcInv
              [] which = "irq" -> ITypeOK
              [] which = "heap" -> UTypeOK
              [] which = "shell" -> ShTypeOK
              [] which = "grep" -> GTypeOK

\* Irq: whoever holds a lock or spins for one has interrupts off, and push_off() and pop_off()
\* count exactly that, across handlers and context switches.
I_InterruptsSafe == which = "irq" => InterruptsSafe

\* Irq: sys_sleep() sleeps for n ticks, across the wrap of ticks.
I_SleepsOnTime == which = "irq" => SleepsOnTime

\* Umalloc: every unit of the heap is in one block, free or in the program's hands; the free
\* list of malloc() and free() is sorted and coalesced.
U_HeapTiled == which = "heap" => HeapTiled

\* Shell: the parser of sh.c accepts what can be split into commands, and gives that tree.
SH_ParserAgrees == which = "shell" => ParserAgrees

\* Shell: no command waits for ever for a child or for a pipe end that runcmd() left open.
SH_CommandsFinish == which = "shell" => CommandsFinish

\* Grep: the lines that have a match are written, however read() cuts the file.
G_LinesMatched == which = "grep" => LinesMatched
=============================================================================
