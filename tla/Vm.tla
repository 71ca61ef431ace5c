--------------------------------- MODULE Vm ---------------------------------
(***************************************************************************)
(* Physical pages and user address spaces: kernel/kalloc.c, kernel/vm.c,    *)
(* kernel/exec.c and the parts of kernel/proc.c and kernel/sysproc.c that   *)
(* create, grow, copy, replace and free the memory of a process.            *)
(*                                                                          *)
(* Processes compete for pages: a step is one round of the loops of         *)
(* uvmalloc() and uvmcopy(), or what lies between them.  A page table is    *)
(* used by one process only.  The free list is a set (its order tells       *)
(* nothing), a user page is named by its number, and all user pages have    *)
(* their entries in one lowest-level table.  A size is in bytes, so that    *)
(* rounding stays visible.                                                  *)
(***************************************************************************)
EXTENDS Integers, Sequences, FiniteSets, FiniteSetsExt

CONSTANTS NFRAMES,    \* numbers of physical pages
          NSLOT,      \* slots of the process table
          MAXPAGE,    \* bound: user pages of a process
          PGSIZE, USERSTACK,
          Images,     \* programs for exec: for each segment the address of its end
          Deltas,     \* arguments of sbrk
          MaxVmCalls  \* bound: system calls

ASSUME VmAssumption ==
  /\ {NSLOT, MAXPAGE, PGSIZE, USERSTACK} \cup NFRAMES \subseteq Nat \ {0} /\ MaxVmCalls \in Nat
  /\ Deltas \subseteq Int /\ Images \subseteq Seq(Nat)

VARIABLES frames,  \* the physical pages
          kmem,    \* those that are free
          mm,      \* per slot: struct proc as far as memory goes
          call,    \* per slot: the system call in progress
          scan,    \* the sysinfo() in progress
          vmcalls, \* calls still allowed
          vmpanic  \* panic() was called

vmvars == <<frames, kmem, mm, call, scan, vmcalls, vmpanic>>

Slots == 1 .. NSLOT
TRAPFRAME == MAXPAGE
TRAMPOLINE == MAXPAGE + 1
UserPages == 0 .. MAXPAGE - 1
VPages == 0 .. TRAMPOLINE
PGROUNDUP(sz) == ((sz + PGSIZE - 1) \div PGSIZE) * PGSIZE
Pages(sz) == PGROUNDUP(sz) \div PGSIZE

\* A page table: the root, two lower tables for each end of the address space, and the
\* entries of the lowest level: 0 if invalid, else the page, and whether PTE_U is set.
NoPte == [pa |-> 0, u |-> FALSE]
TEXT == -1     \* the page of trampoline.S, which is not one of kalloc()'s
Tables == {"low1", "low0", "high1", "high0"}
NoTable == [root |-> 0, tab |-> [k \in Tables |-> 0], pte |-> [a \in VPages |-> NoPte]]
Unused == [state |-> "UNUSED", sz |-> 0, tf |-> 0, pt |-> NoTable]

\* What a function of vm.c works on: the free pages and a page table.
Work(free, pt) == [free |-> free, pt |-> pt, panic |-> FALSE]
-----------------------------------------------------------------------------
(* kalloc.c *)

\* kalloc() returns Page(free), 0 if there is none; Take(s) is the list without it.
Page(free) == IF free = {} THEN 0 ELSE Min(free)
Take(s) == [s EXCEPT !.free = @ \ {Page(@)}]

\* kfree() of several pages: one that is free already would be linked twice.
kfree(s, fs) == [s EXCEPT !.free = @ \cup fs, !.panic = @ \/ fs \cap s.free # {} \/ ~(fs \subseteq frames)]
-----------------------------------------------------------------------------
(* vm.c *)

\* walk() with alloc: a table that was added stays when the next one cannot be had.
Link(s, k) == IF s.pt.tab[k] # 0 THEN s ELSE [Take(s) EXCEPT !.pt.tab[k] = Page(s.free)]
walk(s, a) == LET t == Link(s, IF a < TRAPFRAME THEN "low1" ELSE "high1") IN
              IF t.free = {} /\ t.pt.tab[IF a < TRAPFRAME THEN "low1" ELSE "high1"] = 0 THEN t
              ELSE Link(t, IF a < TRAPFRAME THEN "low0" ELSE "high0")

Walkable(s, a) == s.pt.tab[IF a < TRAPFRAME THEN "low0" ELSE "high0"] # 0

\* mappages() of one page; it has failed if the result is not Walkable.
mappages(s, a, pa, u) == LET t == walk(s, a) IN
  IF Walkable(t, a) THEN [t EXCEPT !.pt.pte[a] = [pa |-> pa, u |-> u],
                                   !.panic = @ \/ s.pt.pte[a] # NoPte]
                    ELSE t

uvmunmap(s, as, do_free) ==
  LET t == IF do_free THEN kfree(s, {s.pt.pte[a].pa : a \in as}) ELSE s IN
  [t EXCEPT !.pt.pte = [a \in VPages |-> IF a \in as THEN NoPte ELSE @[a]],
            !.panic = @ \/ \E a \in as : s.pt.pte[a] = NoPte]

uvmdealloc(s, oldsz, newsz) ==
  IF newsz < oldsz THEN uvmunmap(s, Pages(newsz) .. Pages(oldsz) - 1, TRUE) ELSE s

\* freewalk(): all leaves must be gone.  The page-table pages, then the root.
freewalk(s) ==
  [kfree(s, ({s.pt.tab[k] : k \in Tables} \cup {s.pt.root}) \ {0})
     EXCEPT !.pt = NoTable, !.panic = @ \/ \E a \in VPages : s.pt.pte[a] # NoPte]

uvmfree(s, sz) == freewalk(uvmunmap(s, 0 .. Pages(sz) - 1, TRUE))

\* Mutant: the page for which there is no table is not freed.
uvmalloc_leak(s, a, oldsz) ==
  LET v == mappages(Take(s), a, Page(s.free), TRUE) IN
  CASE s.free = {} -> [ok |-> FALSE, s |-> uvmdealloc(s, a * PGSIZE, PGROUNDUP(oldsz))]
    [] s.free # {} /\ ~Walkable(v, a) ->
         [ok |-> FALSE, s |-> uvmdealloc(v, a * PGSIZE, PGROUNDUP(oldsz))]
    [] OTHER -> [ok |-> TRUE, s |-> v]

\* One round of uvmalloc() at page a, started at size oldsz.
uvmalloc(s, a, oldsz) ==
  LET v == mappages(Take(s), a, Page(s.free), TRUE) IN
  CASE s.free = {} -> [ok |-> FALSE, s |-> uvmdealloc(s, a * PGSIZE, PGROUNDUP(oldsz))]
    [] s.free # {} /\ ~Walkable(v, a) ->
         [ok |-> FALSE, s |-> uvmdealloc(kfree(v, {Page(s.free)}), a * PGSIZE, PGROUNDUP(oldsz))]
    [] OTHER -> [ok |-> TRUE, s |-> v]

\* One round of uvmcopy() at page i of the parent's table old; flags are copied.
uvmcopy(s, old, i) ==
  LET v == mappages(Take(s), i, Page(s.free), old.pte[i].u) IN
  CASE old.pte[i] = NoPte -> [ok |-> TRUE, s |-> [s EXCEPT !.panic = TRUE]]
    [] old.pte[i] # NoPte /\ s.free = {} -> [ok |-> FALSE, s |-> uvmunmap(s, 0 .. i - 1, TRUE)]
    [] old.pte[i] # NoPte /\ s.free # {} /\ ~Walkable(v, i) ->
         [ok |-> FALSE, s |-> uvmunmap(kfree(v, {Page(s.free)}), 0 .. i - 1, TRUE)]
    [] OTHER -> [ok |-> TRUE, s |-> v]

uvmclear(s, a) == [s EXCEPT !.pt.pte[a].u = FALSE, !.panic = @ \/ ~Walkable(s, a)]
-----------------------------------------------------------------------------
(* proc.c *)

\* uvmcreate(), the trampoline and the trapframe tf; no table (root 0) if it fails.
proc_pagetable(s, tf) ==
  LET c == [Take(s) EXCEPT !.pt = [NoTable EXCEPT !.root = Page(s.free)]]
      t == mappages(c, TRAMPOLINE, TEXT, FALSE)
      v == mappages(t, TRAPFRAME, tf, FALSE)
  IN CASE s.free = {} -> s
       [] s.free # {} /\ ~Walkable(t, TRAMPOLINE) -> uvmfree(t, 0)
       [] s.free # {} /\ Walkable(t, TRAMPOLINE) /\ ~Walkable(v, TRAPFRAME) ->
            uvmfree(uvmunmap(v, {TRAMPOLINE}, FALSE), 0)
       [] OTHER -> v

proc_freepagetable(s, sz) == uvmfree(uvmunmap(s, {TRAMPOLINE, TRAPFRAME}, FALSE), sz)

\* The slot's pages, as many as it has.
freeproc(s, p) ==
  LET t == IF p.tf # 0 THEN kfree(s, {p.tf}) ELSE s
  IN IF p.pt.root # 0 THEN proc_freepagetable([t EXCEPT !.pt = p.pt], p.sz) ELSE t

\* Not in a system call.  exec() builds table pt, with pages up to sz mapped.
UserMode == [pc |-> "user", then |-> "user", np |-> 0, pt |-> NoTable, sz |-> 0, a |-> 0, to |-> 0,
             ends |-> <<>>, why |-> "none", argv |-> {}, old |-> Unused]
NoScan == [by |-> 0, next |-> 1, count |-> 0, always |-> {}, ever |-> {}]

\* userinit() after kinit(): one process with one page.
FirstTable(F) == uvmalloc(proc_pagetable(Work(F \ {1}, NoTable), 1), 0, 0).s

VmInit ==
  /\ \E n \in NFRAMES : frames = 1 .. n
  /\ kmem = FirstTable(frames).free
  /\ mm = [i \in Slots |-> IF i = 1
       THEN [state |-> "RUNNABLE", sz |-> PGSIZE, tf |-> 1, pt |-> FirstTable(frames).pt]
       ELSE Unused]
  /\ call = [i \in Slots |-> UserMode] /\ scan = NoScan /\ vmcalls = MaxVmCalls /\ vmpanic = FALSE
-----------------------------------------------------------------------------
InUse == {i \in Slots : mm[i].state # "UNUSED"}

\* Slot i makes a system call; a process without memory cannot run.
Enter(i) == /\ mm[i].state = "RUNNABLE" /\ mm[i].sz > 0 /\ call[i].pc = "user" /\ scan.by # i
            /\ vmcalls > 0 /\ vmcalls' = vmcalls - 1
Go(i, c) == call' = [call EXCEPT ![i] = c]
Leave(i) == Go(i, UserMode)
Result(s) == kmem' = s.free /\ vmpanic' = s.panic

\* growproc(): shrinking, and the start of growing; a size below 0 wraps to a large one
\* and nothing is done.
growproc(i, n) ==
  LET p == mm[i]
      new == IF p.sz + n < 0 THEN p.sz ELSE p.sz + n
      s == uvmdealloc(Work(kmem, p.pt), p.sz, new)
  IN /\ Enter(i) /\ Pages(new) <= MAXPAGE
     /\ IF n > 0
        THEN /\ Go(i, [UserMode EXCEPT !.pc = "uvmalloc", !.then = "grown", !.sz = p.sz,
                                       !.a = Pages(p.sz), !.to = new, !.old = p])
             /\ UNCHANGED <<kmem, mm, vmpanic>>
        ELSE /\ Result(s) /\ mm' = [mm EXCEPT ![i].pt = s.pt, ![i].sz = new]
             /\ UNCHANGED call
     /\ UNCHANGED <<frames, scan>>

\* The loop of uvmalloc(), in the process' own table or in the one exec() builds.
uvmalloc_loop(i) ==
  LET c == call[i]
      own == c.then = "grown"
      r == uvmalloc(Work(kmem, IF own THEN mm[i].pt ELSE c.pt), c.a, c.sz)
  IN /\ c.pc = "uvmalloc"
     /\ IF c.a * PGSIZE < c.to
        THEN /\ Result(r.s)
             /\ mm' = IF own THEN [mm EXCEPT ![i].pt = r.s.pt] ELSE mm
             /\ Go(i, [c EXCEPT !.pt = IF own THEN @ ELSE r.s.pt, !.a = @ + 1,
                                !.pc = IF r.ok THEN @ ELSE IF own THEN "failed" ELSE "exec_bad"])
        ELSE /\ Go(i, [c EXCEPT !.sz = c.to, !.pc = c.then]) /\ UNCHANGED <<kmem, mm, vmpanic>>
     /\ UNCHANGED <<frames, scan, vmcalls>>

grown(i) ==
  /\ call[i].pc = "grown" /\ mm' = [mm EXCEPT ![i].sz = call[i].sz] /\ Leave(i)
  /\ UNCHANGED <<frames, kmem, scan, vmcalls, vmpanic>>

\* A call returns -1.
failed(i) ==
  /\ call[i].pc = "failed" /\ Leave(i)
  /\ UNCHANGED <<frames, kmem, mm, scan, vmcalls, vmpanic>>

\* fork(): allocproc() of the first UNUSED slot: trapframe, page table.
vm_fork(i) ==
  LET free == Slots \ InUse
      q == Min(free)
      t == proc_pagetable(Take(Work(kmem, NoTable)), Page(kmem))
      bad == freeproc(t, [Unused EXCEPT !.tf = Page(kmem)])
  IN /\ Enter(i) /\ free # {}
     /\ IF t.pt.root = 0
        THEN /\ Result(bad) /\ Go(i, [UserMode EXCEPT !.pc = "failed", !.old = mm[i]])
             /\ UNCHANGED mm
        ELSE /\ Result(t)
             /\ mm' = [mm EXCEPT ![q] = [state |-> "USED", sz |-> 0, tf |-> Page(kmem), pt |-> t.pt]]
             /\ Go(i, [UserMode EXCEPT !.pc = "uvmcopy", !.np = q, !.old = mm[i]])
     /\ scan' = IF scan.by = 0 THEN scan ELSE [scan EXCEPT !.ever = @ \cup {q}]
     /\ UNCHANGED frames

\* The loop of uvmcopy(), then the child is set going, or freeproc() undoes it.
uvmcopy_loop(i) ==
  LET c == call[i]
      r == uvmcopy(Work(kmem, mm[c.np].pt), mm[i].pt, c.a)
      bad == freeproc(r.s, [mm[c.np] EXCEPT !.pt = r.s.pt])
  IN /\ c.pc = "uvmcopy"
     /\ IF c.a * PGSIZE >= mm[i].sz
        THEN /\ mm' = [mm EXCEPT ![c.np].state = "RUNNABLE", ![c.np].sz = mm[i].sz]
             /\ Leave(i) /\ UNCHANGED <<kmem, vmpanic>>
        ELSE IF r.ok
        THEN /\ Result(r.s) /\ mm' = [mm EXCEPT ![c.np].pt = r.s.pt]
             /\ Go(i, [c EXCEPT !.a = @ + 1])
        ELSE /\ Result(bad) /\ mm' = [mm EXCEPT ![c.np] = Unused]
             /\ Go(i, [c EXCEPT !.pc = "failed"])
     /\ scan' = IF r.ok \/ c.a * PGSIZE >= mm[i].sz THEN scan
                ELSE [scan EXCEPT !.always = @ \ {c.np}]
     /\ UNCHANGED <<frames, vmcalls>>

\* wait() frees the slot of a child that has exited; init does not exit.
vm_wait(i) ==
  LET s == freeproc(Work(kmem, mm[i].pt), mm[i]) IN
  /\ i \notin {1, scan.by} /\ mm[i].state = "RUNNABLE" /\ call[i].pc = "user"
  /\ Result(s) /\ mm' = [mm EXCEPT ![i] = Unused]
  /\ scan' = [scan EXCEPT !.always = @ \ {i}]
  /\ UNCHANGED <<frames, call, vmcalls>>
-----------------------------------------------------------------------------
(* exec.c, with a failure of the kind why *)

\* sys_exec(): a page for the argument, if there is one; the string may be bad.
sys_exec(i, arg, ends, why) ==
  /\ Enter(i) /\ Pages(Max({ends[k] : k \in 1 .. Len(ends)} \cup {0})) + USERSTACK + 1 <= MAXPAGE
  /\ kmem' = IF arg /\ why # "string" THEN kmem \ {Page(kmem)} ELSE kmem
  /\ Go(i, [UserMode EXCEPT !.ends = ends, !.why = why, !.old = mm[i],
       !.argv = IF arg /\ why # "string" THEN {Page(kmem)} \ {0} ELSE {},
       !.pc = IF (arg /\ kmem = {}) \/ why = "string" THEN "failed" ELSE "exec"])
  /\ UNCHANGED <<frames, mm, scan, vmpanic>>

\* The header is read and the new page table made.
exec(i) ==
  LET c == call[i]
      t == proc_pagetable(Work(kmem, NoTable), mm[i].tf)
  IN /\ c.pc = "exec"
     /\ IF c.why = "header"
        THEN Go(i, [c EXCEPT !.pc = "exec_bad"]) /\ UNCHANGED <<kmem, vmpanic>>
        ELSE /\ Result(t)
             /\ Go(i, [c EXCEPT !.pt = t.pt, !.pc = IF t.pt.root = 0 THEN "exec_bad" ELSE "segment"])
     /\ UNCHANGED <<frames, mm, scan, vmcalls>>

\* The loop over the segments; after it the stack, of USERSTACK pages and a guard page.
\* uvmalloc() returns at once for a segment that ends below sz.
exec_segment(i) ==
  LET c == call[i]
      base == PGROUNDUP(c.sz)
      end == Max({c.sz, Head(c.ends)})
  IN /\ c.pc = "segment"
     /\ Go(i, CASE c.ends = <<>> ->
                     [c EXCEPT !.sz = base, !.a = Pages(base), !.then = "stack", !.pc = "uvmalloc",
                               !.to = base + (USERSTACK + 1) * PGSIZE]
                [] c.ends # <<>> /\ Len(c.ends) = 1 /\ c.why = "segment" -> [c EXCEPT !.pc = "exec_bad"]
                [] OTHER -> [c EXCEPT !.a = Pages(c.sz), !.to = end, !.then = "loadseg", !.pc = "uvmalloc"])
     /\ UNCHANGED <<frames, kmem, mm, scan, vmcalls, vmpanic>>

loadseg(i) == LET c == call[i] IN
  /\ c.pc = "loadseg"
  /\ Go(i, [c EXCEPT !.ends = Tail(@),
                     !.pc = IF Len(c.ends) = 1 /\ c.why = "loadseg" THEN "exec_bad" ELSE "segment"])
  /\ UNCHANGED <<frames, kmem, mm, scan, vmcalls, vmpanic>>

\* The guard page and the arguments; then the old image is given up.
exec_commit(i) ==
  LET c == call[i]
      n == uvmclear(Work(kmem, c.pt), Pages(c.sz) - USERSTACK - 1)
      s == kfree(proc_freepagetable([n EXCEPT !.pt = mm[i].pt], mm[i].sz), c.argv)
  IN /\ c.pc = "stack"
     /\ IF c.why = "args"
        THEN /\ Go(i, [c EXCEPT !.pt = n.pt, !.pc = "exec_bad"])
             /\ vmpanic' = n.panic /\ UNCHANGED <<kmem, mm>>
        ELSE /\ Result(s) /\ mm' = [mm EXCEPT ![i].pt = n.pt, ![i].sz = c.sz]
             /\ Leave(i)
     /\ UNCHANGED <<frames, scan, vmcalls>>

\* bad: the new table goes, if there is one, and sys_exec() frees the argument pages.
exec_bad(i) ==
  LET c == call[i]
      s == IF c.pt.root # 0 THEN proc_freepagetable(Work(kmem, c.pt), c.sz) ELSE Work(kmem, NoTable)
  IN /\ c.pc = "exec_bad"
     /\ Result(kfree(s, c.argv))
     /\ Go(i, [c EXCEPT !.pc = "failed", !.pt = NoTable, !.argv = {}])
     /\ UNCHANGED <<frames, mm, scan, vmcalls>>
-----------------------------------------------------------------------------
(* sysinfo *)

sys_sysinfo(i) ==
  /\ scan.by = 0 /\ Enter(i)
  /\ scan' = [NoScan EXCEPT !.by = i, !.always = InUse, !.ever = InUse]
  /\ UNCHANGED <<frames, kmem, mm, call, vmpanic>>

\* Mutant: unused slots are counted too.
count_active_all ==
  /\ scan.by # 0 /\ scan.next <= NSLOT
  /\ scan' = [scan EXCEPT !.next = @ + 1, !.count = @ + 1]
  /\ UNCHANGED <<frames, kmem, mm, call, vmcalls, vmpanic>>

\* count_active_processes(), one slot at a time and without p->lock.
count_active_processes ==
  /\ scan.by # 0 /\ scan.next <= NSLOT
  /\ scan' = [scan EXCEPT !.next = @ + 1,
                          !.count = IF mm[scan.next].state = "UNUSED" THEN @ ELSE @ + 1]
  /\ UNCHANGED <<frames, kmem, mm, call, vmcalls, vmpanic>>

sysinfo_return ==
  /\ scan.next = NSLOT + 1 /\ scan' = NoScan
  /\ UNCHANGED <<frames, kmem, mm, call, vmcalls, vmpanic>>

Failures == {"none", "string", "header", "segment", "loadseg", "args"}

\* All calls the bound allows have returned, or nobody has memory to run in.
VmDone == /\ scan.by = 0 /\ \A i \in Slots : call[i].pc = "user" /\ (vmcalls = 0 \/ mm[i].sz = 0)
          /\ UNCHANGED vmvars

VmNext ==
  \/ \E i \in Slots :
       \/ \E n \in Deltas : growproc(i, n)
       \/ uvmalloc_loop(i) \/ grown(i) \/ failed(i)
       \/ vm_fork(i) \/ uvmcopy_loop(i) \/ vm_wait(i)
       \/ \E arg \in BOOLEAN, ends \in Images, why \in Failures : sys_exec(i, arg, ends, why)
       \/ exec(i) \/ exec_segment(i) \/ loadseg(i) \/ exec_commit(i) \/ exec_bad(i)
       \/ sys_sysinfo(i)
  \/ count_active_processes \/ sysinfo_return \/ VmDone

VmSpec == VmInit /\ [][VmNext]_vmvars
-----------------------------------------------------------------------------
(* Properties *)

VmTypeOK ==
  /\ kmem \subseteq frames /\ vmcalls \in Nat /\ vmpanic \in BOOLEAN
  /\ \A i \in Slots : /\ mm[i].state \in {"UNUSED", "USED", "RUNNABLE"} /\ mm[i].sz \in Nat
                      /\ mm[i].tf \in frames \cup {0} /\ call[i].argv \subseteq frames
  /\ scan.by \in 0 .. NSLOT /\ scan.count \in 0 .. NSLOT

\* How many places hold page f: free list, trapframes, arguments, page tables and user
\* pages, of the processes and of the images that exec() builds.
InTable(pt, f) == Cardinality({k \in Tables : pt.tab[k] = f})
                + Cardinality({a \in UserPages : pt.pte[a].pa = f})
                + (IF pt.root = f THEN 1 ELSE 0)
Owners(f) == (IF f \in kmem THEN 1 ELSE 0)
           + Cardinality({i \in Slots : mm[i].tf = f}) + Cardinality({i \in Slots : f \in call[i].argv})
           + MapThenSumSet(LAMBDA i : InTable(mm[i].pt, f) + InTable(call[i].pt, f), Slots)

\* Every page has exactly one owner, whatever call failed half way: none is leaked, freed
\* twice or shared by two processes.
FramesOwned == \A f \in frames : Owners(f) = 1

\* An address space is what p->sz says: exactly the pages below it are mapped, with the
\* trapframe and the trampoline on top, and no unmap or copy meets a page it does not
\* expect (the panics of vm.c).  A call that returns -1 has left the memory of its process
\* as it was.
SizesMapped ==
  /\ ~vmpanic
  /\ \A i \in Slots : mm[i].state = "RUNNABLE" /\ call[i].pc = "user" =>
       /\ \A a \in UserPages : mm[i].pt.pte[a] # NoPte <=> a * PGSIZE < mm[i].sz
       /\ mm[i].pt.pte[TRAPFRAME] = [pa |-> mm[i].tf, u |-> FALSE]
       /\ mm[i].pt.pte[TRAMPOLINE] = [pa |-> TEXT, u |-> FALSE]
  /\ \A i \in Slots : call[i].pc = "failed" => mm[i] = call[i].old

\* sysinfo counts without a lock: the number it reports includes every process that
\* existed during the whole call and none that did not exist during any part of it.
CountInRange == scan.next = NSLOT + 1 =>
  Cardinality(scan.always) <= scan.count /\ scan.count <= Cardinality(scan.ever)
=============================================================================
