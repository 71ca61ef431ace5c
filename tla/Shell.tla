------------------------------- MODULE Shell -------------------------------
(***************************************************************************)
(* The shell, user/sh.c, with its parent user/init.c: lines are parsed by   *)
(* recursive descent in a child of the shell, which then runs them as a     *)
(* tree of processes joined by pipes.                                       *)
(*                                                                          *)
(* A line is a sequence of tokens; a word is known by its position.  The    *)
(* parser's step is a call, a return or a token, with its own stack.  A     *)
(* process's step is a system call; where a process closes and duplicates   *)
(* descriptors that only it uses, the calls are one step.  The programs     *)
(* that are run read their standard input, write their standard output and  *)
(* exit, in any order.  System calls are modelled by what sh.c relies on.   *)
(***************************************************************************)
EXTENDS Integers, Sequences, FiniteSets

LOCAL INSTANCE SequencesExt

CONSTANTS Lines,      \* the lines that may be typed
          NPROCS, NPIPES, MAXARGS,
          MaxLines, MaxFails, MaxWrites  \* bounds

ASSUME ShellAssumption == {NPROCS, NPIPES, MAXARGS} \subseteq Nat \ {0}
                          /\ {MaxLines, MaxFails, MaxWrites} \subseteq Nat

VARIABLES pr,       \* the processes
          sbuf,     \* the shell's buf
          ps,       \* the parser: its stack, its position, what a call returned
          bytes,    \* the bytes in each pipe, which holds one
          lines, fails, writes  \* lines, failures and bytes still allowed; negative: calls failed for want

shvars == <<pr, sbuf, ps, bytes, lines, fails, writes>>

Ids == 0 .. NPROCS - 1
Init0 == 0                      \* the process init
Fd == 0 .. 4                    \* a process of the shell has at most one pipe besides 0, 1, 2
Closed == -1
File == 0                       \* the console or a file
ReadEnd(k) == 2 * k
WriteEnd(k) == 2 * k + 1
Pipes == 1 .. NPIPES
Std == [f \in Fd |-> IF f <= 2 THEN File ELSE Closed]
NoFds == [f \in Fd |-> Closed]
-----------------------------------------------------------------------------
(* Commands *)

NoCmd == [type |-> "NONE"]
execcmd(args) == [type |-> "EXEC", args |-> args]
redircmd(cmd, r) == [type |-> "REDIR", cmd |-> cmd, file |-> r.file, mode |-> r.mode, fd |-> r.fd]
pipecmd(left, right) == [type |-> "PIPE", left |-> left, right |-> right]
listcmd(left, right) == [type |-> "LIST", left |-> left, right |-> right]
backcmd(cmd) == [type |-> "BACK", cmd |-> cmd]

\* The redirections that parseredirs() wrapped around a command, the first one innermost.
Wrap(cmd, redirs) == FoldLeft(redircmd, cmd, redirs)

Error == [type |-> "ERROR"]
NoParse == [stk |-> <<>>, pos |-> 1, val |-> NoCmd, returned |-> FALSE]
Dead == [pc |-> "none", parent |-> Init0, cmd |-> NoCmd, fds |-> NoFds,
         p0 |-> Closed, p1 |-> Closed, back |-> FALSE]
ShProc == [Dead EXCEPT !.pc = "getcmd", !.fds = Std]

ShInit ==
  /\ pr = [i \in Ids |-> CASE i = Init0 -> [Dead EXCEPT !.pc = "start", !.fds = Std]
                           [] OTHER -> Dead]
  /\ sbuf = <<>> /\ ps = NoParse /\ bytes = [k \in Pipes |-> 0]
  /\ lines = MaxLines /\ fails = MaxFails /\ writes = MaxWrites
-----------------------------------------------------------------------------
(* The parser *)

ParseFrame(fn) == [fn |-> fn, at |-> "start", cmd |-> NoCmd, args |-> <<>>, redirs |-> <<>>]
gettoken == IF ps.pos > Len(sbuf) THEN "end" ELSE sbuf[ps.pos]
peek(toks) == gettoken \in toks
TopFrame == Head(ps.stk)

Parser(p) == pr[p].pc = "parse"
Quiet == UNCHANGED <<sbuf, bytes, lines, fails, writes>>
ParseStep(s) == ps' = s /\ UNCHANGED pr /\ Quiet

\* What the top frame does next: call fn, return cmd, or go on, past n tokens.
Call(fn, frame, n) ==
  [ps EXCEPT !.stk = <<ParseFrame(fn), frame>> \o Tail(@), !.pos = @ + n, !.returned = FALSE]
Return(cmd, n) == [ps EXCEPT !.stk = Tail(@), !.val = cmd, !.pos = @ + n, !.returned = TRUE]
Resume(frame, n) == [ps EXCEPT !.stk = <<frame>> \o Tail(@), !.pos = @ + n, !.returned = FALSE]

\* panic(): the parser is left.
syntax_error == ParseStep([ps EXCEPT !.stk = <<>>, !.val = Error, !.returned = TRUE])

parseline(p) ==
  /\ Parser(p) /\ ps.stk # <<>> /\ TopFrame.fn = "parseline"
  /\ LET at == TopFrame.at IN
     CASE at = "start" /\ ~ps.returned -> ParseStep(Call("parsepipe", TopFrame, 0))
       [] at = "start" /\ ps.returned ->
            ParseStep(Resume([TopFrame EXCEPT !.at = "amp", !.cmd = ps.val], 0))
       [] at = "amp" /\ peek({"&"}) -> ParseStep(Resume([TopFrame EXCEPT !.cmd = backcmd(@)], 1))
       [] at = "amp" /\ peek({";"}) ->
            ParseStep(Call("parseline", [TopFrame EXCEPT !.at = "list"], 1))
       [] at = "amp" /\ ~peek({"&", ";"}) -> ParseStep(Return(TopFrame.cmd, 0))
       [] at = "list" -> ParseStep(Return(listcmd(TopFrame.cmd, ps.val), 0))

\* Mutant: what follows | may be a whole line.
parsepipe_line(p) ==
  /\ Parser(p) /\ ps.stk # <<>> /\ TopFrame.fn = "parsepipe"
  /\ CASE TopFrame.at = "start" /\ ~ps.returned -> ParseStep(Call("parseexec", TopFrame, 0))
       [] TopFrame.at = "start" /\ ps.returned /\ peek({"|"}) ->
            ParseStep(Call("parseline", [TopFrame EXCEPT !.at = "right", !.cmd = ps.val], 1))
       [] TopFrame.at = "start" /\ ps.returned /\ ~peek({"|"}) -> ParseStep(Return(ps.val, 0))
       [] TopFrame.at = "right" -> ParseStep(Return(pipecmd(TopFrame.cmd, ps.val), 0))

parsepipe(p) ==
  /\ Parser(p) /\ ps.stk # <<>> /\ TopFrame.fn = "parsepipe"
  /\ CASE TopFrame.at = "start" /\ ~ps.returned -> ParseStep(Call("parseexec", TopFrame, 0))
       [] TopFrame.at = "start" /\ ps.returned /\ peek({"|"}) ->
            ParseStep(Call("parsepipe", [TopFrame EXCEPT !.at = "right", !.cmd = ps.val], 1))
       [] TopFrame.at = "start" /\ ps.returned /\ ~peek({"|"}) -> ParseStep(Return(ps.val, 0))
       [] TopFrame.at = "right" -> ParseStep(Return(pipecmd(TopFrame.cmd, ps.val), 0))

\* One redirection: an operator and a word.
parseredirs(p) ==
  LET op == gettoken
      word == ps.pos < Len(sbuf) /\ sbuf[ps.pos + 1] = "a"
      r == [file |-> ps.pos + 1, fd |-> IF op = "<" THEN 0 ELSE 1,
            mode |-> CASE op = "<" -> "read" [] op = ">" -> "truncate" [] op = "+" -> "create"]
  IN /\ Parser(p) /\ ps.stk # <<>> /\ TopFrame.at = "redirs" /\ peek({"<", ">", "+"})
     /\ IF word THEN ParseStep(Resume([TopFrame EXCEPT !.redirs = Append(@, r)], 2)) ELSE syntax_error

parseblock(p) ==
  /\ Parser(p) /\ ps.stk # <<>> /\ TopFrame.fn = "parseexec"
  /\ \/ TopFrame.at = "start" /\ peek({"("}) /\ ParseStep(Call("parseline", [TopFrame EXCEPT !.at = "block"], 1))
     \/ TopFrame.at = "block" /\ peek({")"})
        /\ ParseStep(Resume([TopFrame EXCEPT !.fn = "parseblock", !.at = "redirs", !.cmd = ps.val], 1))
     \/ TopFrame.at = "block" /\ ~peek({")"}) /\ syntax_error

parseblock_end(p) ==
  /\ Parser(p) /\ ps.stk # <<>> /\ TopFrame.fn = "parseblock" /\ ~peek({"<", ">", "+"})
  /\ ParseStep(Return(Wrap(TopFrame.cmd, TopFrame.redirs), 0))

parseexec(p) ==
  /\ Parser(p) /\ ps.stk # <<>> /\ TopFrame.fn = "parseexec"
  /\ \/ TopFrame.at = "start" /\ ~peek({"("}) /\ ParseStep(Resume([TopFrame EXCEPT !.at = "redirs"], 0))
     \/ /\ TopFrame.at = "redirs" /\ peek({"|", ")", "&", ";", "end"})
        /\ ParseStep(Return(Wrap(execcmd(TopFrame.args), TopFrame.redirs), 0))
     \/ TopFrame.at = "redirs" /\ peek({"("}) /\ syntax_error
     \/ /\ TopFrame.at = "redirs" /\ peek({"a"})
        /\ IF Len(TopFrame.args) + 1 >= MAXARGS THEN syntax_error
           ELSE ParseStep(Resume([TopFrame EXCEPT !.args = Append(@, ps.pos)], 1))

\* parsecmd(): all of the line must have been used, or the child that parses exits.
Parsed == IF gettoken = "end" THEN ps.val ELSE Error
parsecmd(p) ==
  /\ Parser(p) /\ ps.stk = <<>> /\ ps.returned
  /\ pr' = [pr EXCEPT ![p].pc = IF Parsed = Error THEN "exit" ELSE "runcmd", ![p].cmd = Parsed]
  /\ ps' = NoParse /\ Quiet
-----------------------------------------------------------------------------
(* Processes *)

Alive(i) == pr[i].pc \notin {"none", "zombie"}
Kids(i) == {c \in Ids \ {Init0} : pr[c].parent = i /\ pr[c].pc # "none"}
FreeIds == {i \in Ids : pr[i].pc = "none"}
FreePipes == {k \in Pipes : \A i \in Ids, f \in Fd : pr[i].fds[f] \notin {ReadEnd(k), WriteEnd(k)}}
Lowest(S) == CHOOSE x \in S : \A y \in S : x <= y
dup(fds, f) == [fds EXCEPT ![Lowest({g \in Fd : fds[g] = Closed})] = fds[f]]
close(fds, f) == [fds EXCEPT ![f] = Closed]
Still == UNCHANGED <<sbuf, ps, bytes, lines, writes>>

\* A system call fails: where there is nothing left to give, or for another reason.
Fail(exhausted) == (fails > 0 \/ exhausted) /\ fails' = fails - 1

\* fork1() of p: the child starts as c, p goes on as q; a failed fork() is the end of p.
fork1(p, c, q) ==
  /\ \/ /\ FreeIds # {} /\ fails' = fails
        /\ pr' = [pr EXCEPT ![p] = q, ![Lowest(FreeIds)] = [c EXCEPT !.parent = p]]
     \/ /\ Fail(FreeIds = {}) /\ pr' = [pr EXCEPT ![p].pc = "exit"]
  /\ Still

\* init.c: starts the shell and waits; a zombie that is not the shell was parentless.
\* p0 is the variable pid.
init_start ==
  /\ pr[Init0].pc = "start" /\ FreeIds # {}
  /\ pr' = [pr EXCEPT ![Init0].pc = "wait", ![Init0].p0 = Lowest(FreeIds), ![Lowest(FreeIds)] = ShProc]
  /\ UNCHANGED fails /\ Still
init_wait == \E z \in Kids(Init0) :
  /\ pr[Init0].pc = "wait" /\ pr[z].pc = "zombie"
  /\ pr' = [pr EXCEPT ![z] = Dead, ![Init0].pc = IF z = pr[Init0].p0 THEN "start" ELSE @]
  /\ UNCHANGED fails /\ Still

\* main(): a line, or the end of the input, on which the shell exits.  cd is no command of
\* its own: the shell calls chdir() and asks for the next line.
getcmd(p) ==
  /\ pr[p].pc = "getcmd" /\ lines > 0 /\ lines' = lines - 1 /\ ps' = NoParse
  /\ \/ \E l \in Lines :
          /\ sbuf' = l
          /\ pr' = [pr EXCEPT ![p].pc = IF l # <<>> /\ l[1] = "cd" THEN "getcmd" ELSE "fork"]
     \/ sbuf' = <<>> /\ pr' = [pr EXCEPT ![p].pc = "exit"]
  /\ UNCHANGED <<bytes, fails, writes>>

main_fork(p) ==
  /\ pr[p].pc = "fork"
  /\ \/ /\ FreeIds # {} /\ fails' = fails
        /\ pr' = [pr EXCEPT ![p].pc = "main_wait",
                            ![Lowest(FreeIds)] = [pr[p] EXCEPT !.pc = "parse", !.parent = p]]
        /\ ps' = [NoParse EXCEPT !.stk = <<ParseFrame("parseline")>>]
     \/ /\ Fail(FreeIds = {}) /\ pr' = [pr EXCEPT ![p].pc = "exit"] /\ ps' = ps
  /\ UNCHANGED <<sbuf, bytes, lines, writes>>

\* wait(0): any child, or none at all.
After(pc) == CASE pc = "main_wait" -> "getcmd" [] pc = "list_wait" -> "runcmd"
               [] pc = "wait1" -> "wait2" [] pc = "wait2" -> "exit"
Waiting(p) == pr[p].pc \in {"main_wait", "list_wait", "wait1", "wait2"}
sh_wait(p) ==
  /\ Waiting(p)
  /\ \/ \E z \in Kids(p) : pr[z].pc = "zombie" /\ pr' = [pr EXCEPT ![z] = Dead, ![p].pc = After(@)]
     \/ Kids(p) = {} /\ pr' = [pr EXCEPT ![p].pc = After(@)]
  /\ UNCHANGED fails /\ Still

\* sh_exit(): descriptors are closed, children become init's.
sh_exit(p) ==
  /\ pr[p].pc = "exit"
  /\ pr' = [i \in Ids |-> CASE i = p -> [pr[p] EXCEPT !.pc = "zombie", !.fds = NoFds]
                             [] i # p /\ i \in Kids(p) -> [pr[i] EXCEPT !.parent = Init0]
                             [] OTHER -> pr[i]]
  /\ UNCHANGED fails /\ Still
-----------------------------------------------------------------------------
(* runcmd() *)

Running(p, type) == pr[p].pc = "runcmd" /\ pr[p].cmd.type = type
Become(p, q) == pr' = [pr EXCEPT ![p] = q] /\ Still

runcmd_exec(p) ==
  /\ Running(p, "EXEC")
  /\ \/ /\ fails' = fails
        /\ Become(p, [pr[p] EXCEPT !.pc = IF pr[p].cmd.args = <<>> THEN "exit" ELSE "program"])
     \/ Fail(FALSE) /\ Become(p, [pr[p] EXCEPT !.pc = "exit"])

\* open() takes the lowest descriptor.
runcmd_redir(p) ==
  LET c == pr[p].cmd
      fds == close(pr[p].fds, c.fd)
      fd == Lowest({f \in Fd : fds[f] = Closed})
  IN /\ Running(p, "REDIR")
     /\ \/ fails' = fails /\ Become(p, [pr[p] EXCEPT !.fds = [fds EXCEPT ![fd] = File], !.cmd = c.cmd])
        \/ Fail(FALSE) /\ Become(p, [pr[p] EXCEPT !.fds = fds, !.pc = "exit"])

runcmd_list(p) ==
  LET c == pr[p].cmd IN
  Running(p, "LIST") /\ fork1(p, [pr[p] EXCEPT !.cmd = c.left],
                                 [pr[p] EXCEPT !.cmd = c.right, !.pc = "list_wait"])

runcmd_back(p) ==
  Running(p, "BACK") /\ fork1(p, [pr[p] EXCEPT !.cmd = @.cmd, !.back = TRUE],
                                 [pr[p] EXCEPT !.pc = "exit"])

\* pipe(): both ends take the lowest descriptors.
runcmd_pipe(p) ==
  LET fds == pr[p].fds
      f0 == Lowest({f \in Fd : fds[f] = Closed})
      f1 == Lowest({f \in Fd \ {f0} : fds[f] = Closed})
      k == Lowest(FreePipes)
  IN /\ Running(p, "PIPE")
     /\ \/ /\ FreePipes # {} /\ fails' = fails
           /\ bytes' = [bytes EXCEPT ![k] = 0] /\ UNCHANGED <<sbuf, ps, lines, writes>>
           /\ pr' = [pr EXCEPT ![p] = [@ EXCEPT
                !.fds = [fds EXCEPT ![f0] = ReadEnd(k), ![f1] = WriteEnd(k)],
                !.p0 = f0, !.p1 = f1, !.pc = "fork_left"]]
        \/ Fail(FreePipes = {}) /\ Become(p, [pr[p] EXCEPT !.pc = "exit"])

fork_left(p) == pr[p].pc = "fork_left" /\ fork1(p, [pr[p] EXCEPT !.pc = "left"],
                                                   [pr[p] EXCEPT !.pc = "fork_right"])
fork_right(p) == pr[p].pc = "fork_right" /\ fork1(p, [pr[p] EXCEPT !.pc = "right"],
                                                     [pr[p] EXCEPT !.pc = "close_pipe"])

\* A child of a pipeline puts its end of the pipe in the place of descriptor to.
pipe_child(p, pc, to, end, cmd) ==
  LET fds == dup(close(pr[p].fds, to), end) IN
  /\ pr[p].pc = pc /\ UNCHANGED fails
  /\ Become(p, [pr[p] EXCEPT !.fds = close(close(fds, pr[p].p0), pr[p].p1),
                             !.pc = "runcmd", !.cmd = cmd])
left_child(p) == pr[p].pc = "left" /\ pipe_child(p, "left", 1, pr[p].p1, pr[p].cmd.left)
right_child(p) == pr[p].pc = "right" /\ pipe_child(p, "right", 0, pr[p].p0, pr[p].cmd.right)

\* Mutant: the shell keeps the write end.
close_pipe_read(p) ==
  /\ pr[p].pc = "close_pipe" /\ UNCHANGED fails
  /\ Become(p, [pr[p] EXCEPT !.fds = close(@, pr[p].p0), !.pc = "wait1"])

close_pipe(p) ==
  /\ pr[p].pc = "close_pipe" /\ UNCHANGED fails
  /\ Become(p, [pr[p] EXCEPT !.fds = close(close(@, pr[p].p0), pr[p].p1), !.pc = "wait1"])
-----------------------------------------------------------------------------
(* The programs that are run: external *)

Writers(k) == {i \in Ids : \E f \in Fd : pr[i].fds[f] = WriteEnd(k)}
ReadersOf(k) == {i \in Ids : \E f \in Fd : pr[i].fds[f] = ReadEnd(k)}
In(p) == pr[p].fds[0] \div 2
Out(p) == pr[p].fds[1] \div 2

program(p) ==
  /\ pr[p].pc = "program"
  /\ pr' = [pr EXCEPT ![p].pc = "exit"] \/ (In(p) > 0 /\ pr' = [pr EXCEPT ![p].pc = "reading"])
     \/ (Out(p) > 0 /\ writes > 0 /\ pr' = [pr EXCEPT ![p].pc = "writing"])
  /\ UNCHANGED fails /\ Still

\* A program reads to the end of its input.
program_read(p) ==
  /\ pr[p].pc = "reading"
  /\ \/ bytes[In(p)] > 0 /\ bytes' = [bytes EXCEPT ![In(p)] = 0] /\ pr' = pr
     \/ bytes[In(p)] = 0 /\ Writers(In(p)) = {} /\ bytes' = bytes /\ pr' = [pr EXCEPT ![p].pc = "exit"]
  /\ UNCHANGED <<sbuf, ps, lines, fails, writes>>

program_write(p) ==
  /\ pr[p].pc = "writing"
  /\ \/ /\ ReadersOf(Out(p)) # {} /\ bytes[Out(p)] = 0 /\ bytes' = [bytes EXCEPT ![Out(p)] = 1]
        /\ pr' = [pr EXCEPT ![p].pc = "program"] /\ writes' = writes - 1
     \/ /\ ReadersOf(Out(p)) = {} /\ pr' = [pr EXCEPT ![p].pc = "exit"] /\ UNCHANGED <<bytes, writes>>
  /\ UNCHANGED <<sbuf, ps, lines, fails>>

ShDone == /\ lines = 0 /\ UNCHANGED shvars
          /\ \A i \in Ids : pr[i].pc \in {"none", "getcmd"} \/ i = Init0

ShNext ==
  \/ init_start \/ init_wait \/ ShDone
  \/ \E p \in Ids :
       \/ getcmd(p) \/ main_fork(p) \/ sh_wait(p) \/ sh_exit(p)
       \/ parseline(p) \/ parsepipe(p) \/ parseredirs(p) \/ parseblock(p) \/ parseblock_end(p)
       \/ parseexec(p) \/ parsecmd(p)
       \/ runcmd_exec(p) \/ runcmd_redir(p) \/ runcmd_list(p) \/ runcmd_back(p) \/ runcmd_pipe(p)
       \/ fork_left(p) \/ fork_right(p) \/ left_child(p) \/ right_child(p) \/ close_pipe(p)
       \/ program(p) \/ program_read(p) \/ program_write(p)

ShSpec == ShInit /\ [][ShNext]_shvars
-----------------------------------------------------------------------------
(* Properties *)

ShTypeOK ==
  /\ \A i \in Ids : /\ pr[i].parent \in Ids /\ pr[i].fds \in [Fd -> Closed .. 2 * NPIPES + 1]
                    /\ {pr[i].p0, pr[i].p1} \subseteq Fd \cup Ids \cup {Closed}
  /\ bytes \in [Pipes -> 0 .. 1] /\ ps.pos \in 1 .. Len(sbuf) + 1

\* What a line means, by splitting it: at the first ; outside of parentheses, then & from the
\* end, then at the first |.  Span i .. j of the line.
Depth(i, k) == Cardinality({m \in i .. k - 1 : sbuf[m] = "("})
             - Cardinality({m \in i .. k - 1 : sbuf[m] = ")"})
Splits(i, j, tok) == {k \in i .. j : sbuf[k] = tok /\ Depth(i, k) = 0}
Both(l, r, cmd) == IF Error \in {l, r} THEN Error ELSE cmd
Redirection == {"<", ">", "+"}
Ops(i, j) == {k \in i .. j : sbuf[k] \in Redirection}
Args(i, j) == {k \in i .. j : sbuf[k] = "a" /\ (k > i => sbuf[k - 1] \notin Redirection)}
InOrder(S) == SetToSortSeq(S, <)
RefRedir(k) == [file |-> k + 1, fd |-> IF sbuf[k] = "<" THEN 0 ELSE 1,
                mode |-> CASE sbuf[k] = "<" -> "read" [] sbuf[k] = ">" -> "truncate"
                           [] sbuf[k] = "+" -> "create"]
RefRedirs(i, j) == LET s == InOrder(Ops(i, j)) IN [n \in 1 .. Len(s) |-> RefRedir(s[n])]
OpsHaveWords(i, j) == \A k \in Ops(i, j) : k < j /\ sbuf[k + 1] = "a"

RECURSIVE RefLine(_, _), RefBack(_, _), RefPipe(_, _)
RefExec(i, j) ==
  LET closing == {k \in i .. j : sbuf[k] = ")" /\ Depth(i, k + 1) = 0} IN
  IF i <= j /\ sbuf[i] = "("
  THEN IF closing = {} THEN Error
       ELSE LET m == Lowest(closing)
                inner == RefLine(i + 1, m - 1)
            IN IF Args(m + 1, j) # {} \/ ~OpsHaveWords(m + 1, j)
                  \/ \E k \in m + 1 .. j : sbuf[k] \notin Redirection \cup {"a"}
               THEN Error ELSE Both(inner, inner, Wrap(inner, RefRedirs(m + 1, j)))
  ELSE IF (\E k \in i .. j : sbuf[k] \notin Redirection \cup {"a"}) \/ ~OpsHaveWords(i, j)
          \/ Cardinality(Args(i, j)) >= MAXARGS
       THEN Error ELSE Wrap(execcmd(InOrder(Args(i, j))), RefRedirs(i, j))
RefPipe(i, j) ==
  LET bars == Splits(i, j, "|")
      k == Lowest(bars)
  IN IF bars = {} THEN RefExec(i, j)
     ELSE Both(RefExec(i, k - 1), RefPipe(k + 1, j), pipecmd(RefExec(i, k - 1), RefPipe(k + 1, j)))
RefBack(i, j) ==
  IF i <= j /\ sbuf[j] = "&" THEN Both(RefBack(i, j - 1), NoCmd, backcmd(RefBack(i, j - 1)))
  ELSE RefPipe(i, j)
RefLine(i, j) ==
  LET semis == Splits(i, j, ";")
      k == Lowest(semis)
  IN IF semis = {} THEN RefBack(i, j)
     ELSE Both(RefBack(i, k - 1), RefLine(k + 1, j), listcmd(RefBack(i, k - 1), RefLine(k + 1, j)))

\* The recursive descent accepts exactly the lines that can be split into commands, and gives
\* the tree of that split: ; binds weaker than &, & weaker than |, parentheses strongest,
\* and a redirection belongs to the command or the block it stands at.
ParserAgrees == ps.stk = <<>> /\ ps.returned => Parsed = RefLine(1, Len(sbuf))

Blocked(i) ==
  \/ (Waiting(i) \/ i = Init0) /\ Kids(i) # {} /\ \A c \in Kids(i) : pr[c].pc # "zombie"
  \/ pr[i].pc = "reading" /\ bytes[In(i)] = 0 /\ Writers(In(i)) # {}
  \/ pr[i].pc = "writing" /\ bytes[Out(i)] = 1 /\ ReadersOf(Out(i)) # {}

\* A command comes to its end: never do all of its processes wait, for a child or for the
\* other end of a pipe that one of them has forgotten to close.  When the shell prompts again,
\* what is left of the command runs in the background, unless a system call failed.  A
\* program starts with the descriptors 0, 1 and 2 and no other.
CommandsFinish ==
  /\ LET busy == {i \in Ids \ {Init0} : Alive(i) /\ pr[i].pc # "getcmd"} IN
     busy # {} => \E i \in busy \cup {Init0} : ~Blocked(i)
  /\ \A s \in Ids : pr[s].pc = "getcmd" /\ fails = MaxFails =>
       \A i \in Ids \ {Init0, s} : pr[i].pc # "none" => pr[i].back
  /\ \A i \in Ids : pr[i].pc = "program" =>
       \A f \in Fd : (pr[i].fds[f] # Closed) = (f <= 2)
=============================================================================
