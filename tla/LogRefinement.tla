--------------------------- MODULE LogRefinement ----------------------------
(***************************************************************************)
(* Every step of Log from a state of IInv is a step of AtomicDisk or       *)
(* leaves the atomic disk as it is.                                        *)
(***************************************************************************)
EXTENDS LogCommitProofs

\* A block of the transaction has the contents of its log block.
LEMMA OverlayIn ==
  ASSUME NEW hd \in Seq(Blocks), Distinct(hd), NEW sl, NEW hm, NEW i \in 1 .. Len(hd)
  PROVE  Overlay(hd, sl, hm)[hd[i]] = sl[i]
  <1>1. hd[i] \in Blocks
    OBVIOUS
  <1>2. (CHOOSE j \in 1 .. Len(hd) : hd[j] = hd[i]) = i
    BY Zenon DEF Distinct
  <1> QED BY <1>1, <1>2, ZenonT(40) DEF Overlay

\* Any other block has its home contents.
LEMMA OverlayOut ==
  ASSUME NEW hd \in Seq(Blocks), NEW sl, NEW hm, NEW b \in Blocks,
         \A i \in 1 .. Len(hd) : hd[i] # b
  PROVE  Overlay(hd, sl, hm)[b] = hm[b]
  BY Zenon DEF Overlay

\* The invariant implies that the cache and the disk agree when nothing is going on.
LEMMA QuiescentHolds == IInv => QuiescentDurable
  <1> SUFFICES ASSUME IInv, outstanding = 0, ~committing, ~Recovering
               PROVE  Committed = View
    BY Zenon DEF QuiescentDurable
  <1>1. lh = <<>> /\ \A p \in Procs : pc[p] \notin CommitPC
    BY Zenon DEF IInv, Control, Transaction
  <1>2. head = <<>> /\ Len(head) = 0 /\ Len(lh) = 0
    BY <1>1, Zenon DEF IInv, Transaction, CommitPC
  <1>3. \A b \in Blocks : Unlocked(b)
    BY NoneActive, Zenon DEF IInv, Control, Active, Unlocked
  <1>4. \A b \in Blocks : bread(b) = home[b]
    BY <1>2, <1>3 DEF IInv, Copies, InLog, bread
  <1>5. Committed = [b \in Blocks |-> home[b]]
    BY <1>2 DEF Committed, Overlay
  <1> QED BY <1>4, <1>5, Zenon DEF View

\* The initial states of Log are initial states of AtomicDisk.
LEMMA RefineInit == Init => A!Init
  <1> SUFFICES ASSUME Init PROVE A!Init
    BY Zenon
  <1> USE BootProc
  <1>1. Recovering /\ Active = {}
    BY Zenon DEF Init, BootPC, Recovering, RecoverPC, Active
  <1>2. Committed = [b \in Blocks |-> home[b]]
    BY DEF Init, Committed, Overlay
  <1>3. Committed \in [Blocks -> Data]
    BY <1>2, Zenon DEF Init
  <1> QED BY <1>1, <1>3, Zenon DEF A!Init, View

\* The parts of the mapping that a step leaves alone.
LEMMA SameCommitted ==
  ASSUME UNCHANGED <<home, slot, head>>
  PROVE  Committed' = Committed
  BY Zenon DEF Committed, Overlay

\* The contents that operations see depend on the cache and the home blocks only.
LEMMA SameView ==
  ASSUME Recovering' = Recovering, Committed' = Committed,
         \A b \in Blocks : bread(b)' = bread(b)
  PROVE  View' = View
  BY Zenon DEF View

\* Nothing of the mapped state changes.
Stutter == Committed' = Committed /\ View' = View /\ Active' = Active

\* begin_op() is Begin, or changes nothing.
LEMMA Ref_begin_op ==
  ASSUME IInv, NEW p \in Procs, begin_op(p)
  PROVE  Stutter \/ A!Begin(p)
  <1> USE BootProc
  <1>1. /\ pc[p] \in {"idle", "awake"} /\ UNCHANGED <<home, slot, head, buf>>
        /\ \/ pc' = [pc EXCEPT ![p] = "asleep"]
           \/ pc' = [pc EXCEPT ![p] = "op"]
    BY Zenon DEF begin_op, disk, cache
  <1>2. Recovering' = Recovering
    BY <1>1 DEF IInv, TypeOK, Recovering, RecoverPC
  <1>3. Committed' = Committed /\ View' = View
    BY <1>1, <1>2, SameCommitted, SameView, Zenon DEF bread
  <1>4. Active' = Active \/ (p \notin Active /\ Active' = Active \cup {p})
    BY <1>1 DEF IInv, TypeOK, Active
  <1> QED BY <1>3, <1>4, Zenon DEF Stutter, A!Begin

\* A change to a buffer is Write.
LEMMA Ref_modify ==
  ASSUME IInv, NEW p \in Procs, NEW b \in Blocks, NEW d \in Data, modify(p, b, d)
  PROVE  A!Write(p, b, d)
  <1> USE BootProc
  <1>1. /\ pc[p] = "op" /\ UNCHANGED <<home, slot, head, pc>>
        /\ buf' = [buf EXCEPT ![b] = d]
    BY Zenon DEF modify, disk
  <1>2. ~Recovering /\ ~Recovering' /\ Active' = Active /\ p \in Active
    BY <1>1, DuringOp, Zenon DEF Recovering, Active
  <1>3. Committed' = Committed
    BY <1>1, SameCommitted, Zenon
  <1>4. /\ View = [c \in Blocks |-> bread(c)]
        /\ View' = [c \in Blocks |-> bread(c)']
    BY <1>2, Zenon DEF View
  <1>5. \A c \in Blocks : bread(c)' = IF c = b THEN d ELSE bread(c)
    BY LogAssumption, <1>1, Zenon DEF IInv, TypeOK, bread
  <1>6. View' = [View EXCEPT ![b] = d]
    BY <1>4, <1>5, Zenon
  <1> QED BY <1>2, <1>3, <1>6, Zenon DEF A!Write

\* log_write() changes nothing that AtomicDisk knows of.
LEMMA Ref_log_write ==
  ASSUME IInv, NEW p \in Procs, NEW b \in Blocks, log_write(p, b)
  PROVE  Stutter
  <1>1. UNCHANGED <<home, slot, head, buf, pc>>
    BY Zenon DEF log_write, disk
  <1>2. Recovering' = Recovering /\ Active' = Active
    BY <1>1, Zenon DEF Recovering, Active
  <1> QED BY <1>1, <1>2, SameCommitted, SameView, Zenon DEF bread, Stutter

\* end_op() is End.
LEMMA Ref_end_op ==
  ASSUME IInv, NEW p \in Procs, end_op(p)
  PROVE  A!End(p)
  <1> USE BootProc
  <1>1. /\ pc[p] = "op" /\ UNCHANGED <<home, slot, head, buf>>
        /\ \/ pc' = [pc EXCEPT ![p] = IF lh = <<>> THEN "finish" ELSE "write_log"]
           \/ pc' = wakeup([pc EXCEPT ![p] = "idle"])
    BY DuringOp, Zenon DEF end_op, disk, cache
  <1>2. ~Recovering /\ ~Recovering'
    <2>1. pc[Boot] \notin RecoverPC
      BY <1>1, DuringOp, Zenon DEF Recovering
    <2>2. pc'[Boot] \in {pc[Boot], "finish", "write_log", "idle", "awake"}
      BY <1>1, Zenon DEF wakeup, IInv, TypeOK
    <2> QED BY <2>1, <2>2, Zenon DEF Recovering, RecoverPC
  <1>3. p \in Active /\ Active' = Active \ {p}
    BY <1>1, Zenon DEF Active, wakeup, IInv, TypeOK
  <1>4. Committed' = Committed
    BY <1>1, SameCommitted, Zenon
  <1>5. View' = View
    BY <1>1, <1>2, Zenon DEF View, bread
  <1> QED BY <1>3, <1>4, <1>5, Zenon DEF A!End

\* Filling the cache changes nothing.
LEMMA Ref_fill ==
  ASSUME IInv, NEW b \in Blocks, fill(b)
  PROVE  Stutter
  <1>1. /\ buf[b] = Invalid /\ buf' = [buf EXCEPT ![b] = home[b]]
        /\ UNCHANGED <<home, slot, head, pc>>
    BY Zenon DEF fill, disk, threads
  <1>2. Recovering' = Recovering /\ Active' = Active
    BY <1>1, Zenon DEF Recovering, Active
  <1>3. \A c \in Blocks : bread(c)' = bread(c)
    BY <1>1, Zenon DEF IInv, TypeOK, bread
  <1> QED BY <1>1, <1>2, <1>3, SameCommitted, SameView, Zenon DEF Stutter

\* Recycling a buffer changes nothing.
LEMMA Ref_recycle ==
  ASSUME IInv, NEW b \in Blocks, recycle(b)
  PROVE  Stutter
  <1> USE BootProc
  <1>1. /\ pin[b] = 0 /\ Unlocked(b) /\ buf' = [buf EXCEPT ![b] = Invalid]
        /\ buf[b] # Invalid /\ UNCHANGED <<home, slot, head, pc>>
    BY Zenon DEF recycle, disk, threads
  <1>2. Recovering' = Recovering /\ Active' = Active /\ Committed' = Committed
    BY <1>1, SameCommitted, Zenon DEF Recovering, Active
  <1>3. CASE Recovering
    BY <1>2, <1>3, Zenon DEF View, Stutter
  <1>4. CASE ~Recovering
    <2>1. buf[b] = home[b]
      <3>1. CASE ~InLog(b)
        BY <1>1, <3>1, Zenon DEF IInv, Copies
      <3>2. CASE InLog(b)
        <4>1. PICK i \in 1 .. Len(lh) : lh[i] = b
          BY <3>2, Zenon DEF InLog
        <4>2. Installed(i)
          BY <1>1, <1>4, <4>1 DEF IInv, PinnedUntilInstalled
        <4>3. PICK q \in Procs : pc[q] = "erase" \/ (pc[q] = "install" /\ i < tail[q])
          BY <4>2, SMTT(40) DEF Installed
        <4>4. slot[i] = home[b] /\ slot[i] = bread(b)
          BY <4>1, <4>3, SMTT(40) DEF IInv, Copies
        <4> QED BY <1>1, <4>4, Zenon DEF bread
      <3> QED BY <3>1, <3>2, SMTT(40)
    <2>2. \A c \in Blocks : bread(c)' = bread(c)
      BY <1>1, <2>1, Zenon DEF IInv, TypeOK, bread
    <2> QED BY <1>2, <2>2, SameView, Zenon DEF Stutter
  <1> QED BY <1>3, <1>4, Zenon

\* A step of the committer: nobody recovers before or after it, no operation is
\* active, so only the contents of blocks matter.
LEMMA CommitStutter ==
  ASSUME IInv, NEW p \in Procs, pc[p] \in CommitPC,
         \A q \in Procs : \/ pc'[q] = pc[q]
                          \/ pc'[q] \in CommitPC \cup {"idle", "awake"},
         Committed' = Committed, \A b \in Blocks : bread(b)' = bread(b)
  PROVE  Stutter
  <1> USE BootProc
  <1>1. /\ ~Recovering /\ Active = {}
        /\ \A q \in Procs : pc[q] \notin RecoverPC /\ pc[q] # "op"
    BY DuringCommit, Zenon
  <1>2. ~Recovering' /\ Active' = {}
    BY <1>1, Zenon DEF Recovering, Active, CommitPC, RecoverPC
  <1>3. View' = View
    BY <1>1, <1>2, Zenon DEF View
  <1> QED BY <1>1, <1>2, <1>3, Zenon DEF Stutter

\* A round of a loop moves only the process that runs it.
LEMMA LoopMoves ==
  ASSUME IInv, NEW p \in Procs, NEW next \in PC, Loop(p, next)
  PROVE  \A q \in Procs : pc'[q] = pc[q] \/ (q = p /\ pc'[q] = next)
  BY Zenon DEF Loop, IInv, TypeOK

\* write_log() writes only log blocks, which no header names yet.
LEMMA Ref_write_log ==
  ASSUME IInv, NEW p \in Procs, write_log(p)
  PROVE  Stutter
  <1> USE BootProc
  <1>1. /\ pc[p] = "write_log" /\ UNCHANGED <<home, head>>
        /\ buf' = [buf EXCEPT ![lh[tail[p]]] = bread(lh[tail[p]])]
        /\ Loop(p, "write_head")
    BY Zenon DEF write_log
  <1>2. head = <<>>
    BY <1>1, DuringCommit, SMTT(40) DEF IInv, Transaction, CommitPC
  <1>3. Committed' = Committed
    <2>1. \A i \in 1 .. Len(head) : FALSE
      BY <1>2
    <2> QED BY <1>1, <2>1, Zenon DEF Committed, Overlay
  <1>4. \A b \in Blocks : bread(b)' = bread(b)
    BY <1>1, Zenon DEF IInv, TypeOK, bread
  <1>5. \A q \in Procs : pc'[q] = pc[q] \/ pc'[q] \in CommitPC
    BY <1>1, LoopMoves DEF PC, CommitPC
  <1> QED BY <1>1, <1>3, <1>4, <1>5, CommitStutter, Zenon DEF CommitPC

\* The write of the header block is the commit of the abstract disk.
LEMMA Ref_write_head ==
  ASSUME IInv, NEW p \in Procs, write_head(p)
  PROVE  A!Commit
  <1> USE BootProc
  <1>1. /\ pc[p] = "write_head" /\ head' = lh /\ UNCHANGED <<home, slot, buf>>
        /\ pc' = [pc EXCEPT ![p] = "install"]
    BY Zenon DEF write_head, cache
  <1>2. /\ ~Recovering /\ Active = {} /\ \A b : Unlocked(b)
        /\ \A q \in Procs : pc[q] \notin RecoverPC /\ pc[q] # "op"
    BY <1>1, DuringCommit, Zenon DEF CommitPC
  <1>3. ~Recovering' /\ Active' = {}
    BY <1>1, <1>2, Zenon DEF Recovering, Active, RecoverPC, IInv, TypeOK
  <1>4. View = [b \in Blocks |-> bread(b)] /\ View' = View
    BY <1>1, <1>2, <1>3, Zenon DEF View, bread
  <1>5. \A b \in Blocks : Overlay(lh, slot, home)[b] = bread(b)
    <2> SUFFICES ASSUME NEW b \in Blocks PROVE Overlay(lh, slot, home)[b] = bread(b)
      BY Zenon
    <2>1. CASE InLog(b)
      <3>1. PICK i \in 1 .. Len(lh) : lh[i] = b
        BY <2>1, Zenon DEF InLog
      <3>2. lh \in Seq(Blocks) /\ Distinct(lh)
        BY DEF IInv, TypeOK, Transaction
      <3>3. Overlay(lh, slot, home)[lh[i]] = slot[i]
        BY <3>2, OverlayIn, SMTT(40)
      <3> QED BY <1>1, <3>1, <3>3, SMTT(40) DEF IInv, Copies
    <2>2. CASE ~InLog(b)
      <3>1. lh \in Seq(Blocks) /\ \A i \in 1 .. Len(lh) : lh[i] # b
        BY <2>2, SMTT(40) DEF InLog, IInv, TypeOK
      <3>2. Overlay(lh, slot, home)[b] = home[b]
        BY <3>1, OverlayOut
      <3> QED BY <1>2, <2>2, <3>2, SMTT(40) DEF IInv, Copies, bread
    <2> QED BY <2>1, <2>2, Zenon
  <1>6. Committed' = Overlay(lh, slot, home)
    BY <1>1, Zenon DEF Committed, Overlay
  <1>7. Committed' = View
    BY <1>4, <1>5, <1>6, Zenon DEF Overlay
  <1> QED BY <1>2, <1>3, <1>4, <1>7, Zenon DEF A!Commit

\* Writing a logged block home does not change what a crash would leave.
LEMMA InstallKeepsCommitted ==
  ASSUME IInv, NEW t \in 1 .. Len(lh), head = lh, NEW d,
         home' = [home EXCEPT ![lh[t]] = d], UNCHANGED <<slot, head>>
  PROVE  Committed' = Committed
  <1>1. \A b \in Blocks : (\A i \in 1 .. Len(head) : head[i] # b) => home'[b] = home[b]
    BY Zenon DEF IInv, TypeOK
  <1> QED BY <1>1, Zenon DEF Committed, Overlay

\* install_trans() overwrites home blocks that the header says to take from the log.
LEMMA Ref_install_trans ==
  ASSUME IInv, NEW p \in Procs, install_trans(p)
  PROVE  Stutter
  <1> USE BootProc
  <1>1. /\ pc[p] = "install" /\ UNCHANGED <<slot, head>>
        /\ home' = [home EXCEPT ![lh[tail[p]]] = slot[tail[p]]]
        /\ buf' = [buf EXCEPT ![lh[tail[p]]] = slot[tail[p]]]
        /\ Loop(p, "erase")
    BY SMTT(40) DEF install_trans, Install
  <1>2. tail[p] \in 1 .. Len(lh) /\ head = lh /\ slot[tail[p]] \in Data
    BY LogAssumption, <1>1, SMTT(40) DEF IInv, Transaction, TypeOK, Slots
  <1>3. Committed' = Committed
    BY <1>1, <1>2, InstallKeepsCommitted, ZenonT(40)
  <1>4. slot[tail[p]] = bread(lh[tail[p]])
    BY <1>1, <1>2 DEF IInv, Copies
  <1>5. \A b \in Blocks : bread(b)' = bread(b)
    BY <1>1, <1>2, <1>4, SMTT(40) DEF IInv, TypeOK, bread
  <1>6. \A q \in Procs : pc'[q] = pc[q] \/ pc'[q] \in CommitPC
    BY <1>1, LoopMoves DEF PC, CommitPC
  <1> QED BY <1>1, <1>3, <1>5, <1>6, CommitStutter, SMTT(40) DEF CommitPC

\* Erasing the header changes nothing: every home block has its log contents.
LEMMA Ref_erase ==
  ASSUME IInv, NEW p \in Procs, erase(p)
  PROVE  Stutter
  <1> USE BootProc
  <1>1. /\ pc[p] = "erase" /\ head' = <<>> /\ UNCHANGED <<home, slot, buf>>
        /\ pc' = [pc EXCEPT ![p] = "finish"]
    BY Zenon DEF erase, cache
  <1>2. head = lh /\ head \in Seq(Blocks) /\ Distinct(head)
    BY <1>1, Zenon DEF IInv, Transaction, TypeOK
  <1>3. \A b \in Blocks : Committed[b] = home[b]
    <2> SUFFICES ASSUME NEW b \in Blocks PROVE Committed[b] = home[b]
      BY Zenon
    <2>1. ASSUME NEW i \in 1 .. Len(head), head[i] = b PROVE Committed[b] = home[b]
      <3>1. Committed[head[i]] = slot[i]
        BY <1>2, OverlayIn DEF Committed
      <3> QED BY <1>1, <1>2, <2>1, <3>1, SMTT(40) DEF IInv, Copies
    <2>2. CASE \A i \in 1 .. Len(head) : head[i] # b
      BY <1>2, <2>2, OverlayOut DEF Committed
    <2> QED BY <2>1, <2>2, Zenon
  <1>4. Committed' = [b \in Blocks |-> home[b]]
    BY <1>1 DEF Committed, Overlay
  <1>5. Committed' = Committed
    BY <1>3, <1>4, ZenonT(40) DEF Committed, Overlay
  <1>6. \A b \in Blocks : bread(b)' = bread(b)
    BY <1>1, Zenon DEF bread
  <1>7. \A q \in Procs : pc'[q] = pc[q] \/ pc'[q] \in CommitPC
    BY <1>1, Zenon DEF CommitPC, IInv, TypeOK
  <1> QED BY <1>1, <1>5, <1>6, <1>7, CommitStutter, Zenon DEF CommitPC

\* The end of a commit changes nothing.
LEMMA Ref_finish ==
  ASSUME IInv, NEW p \in Procs, finish(p)
  PROVE  Stutter
  <1>1. /\ pc[p] = "finish" /\ UNCHANGED <<home, slot, head, buf>>
        /\ pc' = wakeup([pc EXCEPT ![p] = "idle"])
    BY Zenon DEF finish, cache, disk
  <1>2. \A q \in Procs : pc'[q] = pc[q] \/ pc'[q] \in {"idle", "awake"}
    BY <1>1, Zenon DEF wakeup, IInv, TypeOK
  <1>3. \A b \in Blocks : bread(b)' = bread(b)
    BY <1>1, Zenon DEF bread
  <1>4. Committed' = Committed
    BY <1>1, SameCommitted, Zenon
  <1> QED BY <1>1, <1>2, <1>3, <1>4, CommitStutter, ZenonT(40) DEF CommitPC

\* During recovery the view is what recovery will leave.
LEMMA RecoverStutter ==
  ASSUME IInv, NEW p \in Procs, pc[p] \in RecoverPC, pc'[p] \in RecoverPC,
         \A q \in Procs : q # p => pc'[q] = pc[q],
         Committed' = Committed
  PROVE  Stutter
  <1>1. /\ p = Boot /\ Recovering /\ Active = {}
        /\ \A q \in Procs : q # p => pc[q] = "down"
    BY DuringRecovery, Zenon
  <1>2. Recovering' /\ Active' = {}
    BY <1>1, Zenon DEF Recovering, Active, RecoverPC
  <1>3. View' = View
    BY <1>1, <1>2, Zenon DEF View
  <1> QED BY <1>1, <1>2, <1>3, Zenon DEF Stutter

\* Recovery changes nothing: it makes true what the header already says.
LEMMA Ref_recover ==
  ASSUME IInv, NEW p \in Procs, recover_from_log(p)
  PROVE  Stutter
  <1> USE BootProc
  <1>1. CASE read_head(p)
    <2>1. /\ pc[p] = "read_head" /\ UNCHANGED <<home, slot, head>>
          /\ pc' = [pc EXCEPT ![p] = IF head = <<>> THEN "rec_erase" ELSE "rec_install"]
      BY <1>1, Zenon DEF read_head, disk
    <2>2. pc'[p] \in RecoverPC /\ \A q \in Procs : q # p => pc'[q] = pc[q]
      BY <2>1, Zenon DEF RecoverPC, IInv, TypeOK
    <2> QED BY <2>1, <2>2, SameCommitted, RecoverStutter, Zenon DEF RecoverPC
  <1>2. CASE rec_install(p)
    <2>1. /\ pc[p] = "rec_install" /\ UNCHANGED <<slot, head>>
          /\ home' = [home EXCEPT ![lh[tail[p]]] = slot[tail[p]]]
          /\ Loop(p, "rec_erase")
      BY <1>2, SMTT(40) DEF rec_install, Install
    <2>2. tail[p] \in 1 .. Len(lh) /\ head = lh
      BY <2>1, SMTT(40) DEF IInv, Transaction, TypeOK
    <2>3. Committed' = Committed
      BY <2>1, <2>2, InstallKeepsCommitted, ZenonT(40)
    <2>4. pc'[p] \in RecoverPC /\ \A q \in Procs : q # p => pc'[q] = pc[q]
      BY <2>1, LoopMoves DEF PC, RecoverPC
    <2> QED BY <2>1, <2>3, <2>4, RecoverStutter, SMTT(40) DEF RecoverPC
  <1>3. CASE rec_erase(p)
    <2>1. /\ pc[p] = "rec_erase" /\ head' = <<>> /\ UNCHANGED <<home, slot, buf>>
          /\ pc' = [q \in Procs |-> "idle"]
      BY <1>3, Zenon DEF rec_erase, cache
    <2>2. head = lh /\ head \in Seq(Blocks) /\ Distinct(head)
      BY <2>1, Zenon DEF IInv, Transaction, TypeOK
    <2>3. \A b \in Blocks : Committed[b] = home[b]
      <3> SUFFICES ASSUME NEW b \in Blocks PROVE Committed[b] = home[b]
        BY SMTT(40)
      <3>1. ASSUME NEW i \in 1 .. Len(head), head[i] = b PROVE Committed[b] = home[b]
        <4>1. Committed[head[i]] = slot[i]
          BY <2>2, OverlayIn DEF Committed
        <4> QED BY <2>1, <2>2, <3>1, <4>1, SMTT(40) DEF IInv, Copies
      <3>2. CASE \A i \in 1 .. Len(head) : head[i] # b
        BY <2>2, <3>2, OverlayOut, SMTT(40) DEF Committed
      <3> QED BY <3>1, <3>2, Zenon
    <2>4. Recovering /\ Active = {}
      BY <2>1, DuringRecovery, Zenon DEF RecoverPC
    <2>5. ~Recovering' /\ Active' = {}
      BY <2>1, Zenon DEF Recovering, RecoverPC, Active
    <2>a. Committed' = [b \in Blocks |-> home[b]]
      BY <2>1 DEF Committed, Overlay
    <2>b. Committed = [b \in Blocks |-> home[b]]
      BY <2>3, Zenon DEF Committed, Overlay
    <2>6. Committed' = Committed
      BY <2>a, <2>b, SMTT(40)
    <2>7. \A b \in Blocks : bread(b)' = home[b]
      BY <2>1, <2>4, SMTT(40) DEF IInv, Copies, bread
    <2>8. View' = View
      BY <2>4, <2>5, <2>7, <2>b, Zenon DEF View
    <2> QED BY <2>4, <2>5, <2>6, <2>8, Zenon DEF Stutter
  <1> QED BY <1>1, <1>2, <1>3, Zenon DEF recover_from_log

\* A crash loses the cache and keeps what is committed.
LEMMA Ref_Crash ==
  ASSUME IInv, Crash
  PROVE  A!Crash
  <1> USE BootProc
  <1>1. Recovering' /\ Active' = {}
    BY Zenon DEF Crash, BootPC, Recovering, RecoverPC, Active
  <1>2. Committed' = Committed
    <2>1. head' = head
      BY Zenon DEF Crash
    <2>2. CASE UNCHANGED <<home, slot>>
      BY <2>1, <2>2, SameCommitted, Zenon
    <2>3. ASSUME NEW p \in Procs, pc[p] = "write_log", UNCHANGED home
          PROVE  Committed' = Committed
      <3>1. head = <<>>
        BY <2>3, DuringCommit, SMTT(40) DEF IInv, Transaction, CommitPC
      <3>2. \A i \in 1 .. Len(head) : FALSE
        BY <3>1
      <3> QED BY <2>1, <2>3, <3>2, SMTT(40) DEF Committed, Overlay
    <2>4. ASSUME NEW p \in Procs, NEW d \in Data, pc[p] \in {"install", "rec_install"},
                 home' = [home EXCEPT ![lh[tail[p]]] = d], UNCHANGED slot
          PROVE  Committed' = Committed
      <3>1. tail[p] \in 1 .. Len(lh) /\ head = lh
        BY <2>4 DEF IInv, Transaction, TypeOK
      <3> QED BY <2>1, <2>4, <3>1, InstallKeepsCommitted, ZenonT(40)
    <2> QED BY <2>2, <2>3, <2>4, SMTT(40) DEF Crash
  <1>3. View' = Committed
    BY <1>1, <1>2, Zenon DEF View
  <1> QED BY <1>1, <1>2, <1>3, SMTT(40) DEF A!Crash

\* Every step of Log is a step of AtomicDisk or leaves the mapped state alone.
LEMMA RefineNext ==
  ASSUME IInv, [Next]_vars
  PROVE  [A!Next]_A!vars
  <1>1. Stutter => UNCHANGED A!vars
    BY Zenon DEF Stutter, A!vars
  <1>2. CASE UNCHANGED vars
    <2>1. Stutter
      BY <1>2, Zenon DEF Stutter, Committed, Overlay, View, Recovering, bread, Active,
                  vars, disk, cache, log, threads
    <2> QED BY <1>1, <2>1, Zenon
  <1>3. ASSUME NEW p \in Procs, Step(p) PROVE [A!Next]_A!vars
    BY <1>1, <1>3, Ref_begin_op, Ref_modify, Ref_log_write, Ref_end_op, Ref_write_log,
       Ref_write_head, Ref_install_trans, Ref_erase, Ref_finish, Ref_recover
    DEF Step, Commit, A!Next
  <1> QED BY <1>1, <1>2, <1>3, Ref_fill, Ref_recycle, Ref_Crash, Zenon DEF Next, A!Next
=============================================================================
