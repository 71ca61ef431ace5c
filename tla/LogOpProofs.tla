--------------------------- MODULE LogOpProofs ------------------------------
(***************************************************************************)
(* What IInv of Log says while an operation, a commit or recovery runs,    *)
(* and that the steps on buffers (modify, log_write, fill and recycle) and *)
(* those of recover_from_log() preserve it.                                *)
(***************************************************************************)
EXTENDS Log, TLAPS

(* What holds during an operation, a commit and recovery. *)

\* initlog() runs in one of the processes.
LEMMA BootProc == Boot \in Procs
  BY LogAssumption, Zenon

\* A sequence that is not empty has a first entry.
LEMMA NonEmpty ==
  ASSUME NEW S, NEW s \in Seq(S), s # <<>>
  PROVE  Len(s) \in Nat \ {0}
  OBVIOUS

\* The entries of log.lh after log_write() has added a block.
LEMMA AppendFacts ==
  ASSUME NEW S, NEW s \in Seq(S), NEW e \in S
  PROVE  /\ Append(s, e) \in Seq(S) /\ Len(Append(s, e)) = Len(s) + 1
         /\ \A i \in 1 .. Len(s) : Append(s, e)[i] = s[i]
         /\ Append(s, e)[Len(s) + 1] = e
  OBVIOUS

\* Processes that neither commit nor recover.
Quiet == {"idle", "asleep", "awake", "op"}

\* Moves of processes among the quiet states leave the data alone.
LEMMA QuietMoves ==
  ASSUME TypeOK, Copies, PinnedUntilInstalled, Boot \in Procs,
         UNCHANGED <<home, slot, head, buf, pin, lh, tail, locked>>,
         \A q \in Procs : pc'[q] = pc[q] \/ (pc[q] \in Quiet /\ pc'[q] \in Quiet)
  PROVE  Copies' /\ PinnedUntilInstalled' /\ Recovering' = Recovering
  <1> USE DEF Quiet
  <1>1. Recovering' = Recovering
    BY DEF Recovering, RecoverPC
  <1>2. \A i : Installed(i)' = Installed(i)
    BY Zenon DEF Installed
  <1>3. Copies'
    BY <1>1, <1>2 DEF Copies, InLog, Unlocked, bread
  <1>4. PinnedUntilInstalled'
    BY <1>1, <1>2, Zenon DEF PinnedUntilInstalled
  <1> QED BY <1>1, <1>3, <1>4, Zenon

\* A process is in the middle of an operation only if log.outstanding counts it.
LEMMA NoneActive ==
  ASSUME Control, outstanding = 0
  PROVE  Active = {}
  BY Zenon DEF Control

\* While an operation is in progress nobody commits or recovers.
LEMMA DuringOp ==
  ASSUME IInv, NEW p \in Procs, pc[p] = "op"
  PROVE  /\ outstanding > 0 /\ ~committing /\ ~Recovering /\ head = <<>>
         /\ \A q \in Procs : pc[q] \notin CommitPC /\ pc[q] \notin RecoverPC
         /\ \A i : ~Installed(i)
  <1> USE BootProc DEF IInv
  <1>1. p \in Active
    BY Zenon DEF Active
  <1>2. outstanding # 0
    BY <1>1, NoneActive, Zenon
  <1>3. ~committing
    BY <1>2, Zenon DEF Control
  <1>4. ~Recovering
    BY Zenon DEF Control, Recovering, RecoverPC
  <1>5. \A q \in Procs : pc[q] \notin CommitPC /\ pc[q] \notin RecoverPC
    BY <1>3, <1>4, Zenon DEF Control, Recovering
  <1>6. head = <<>> /\ \A i : ~Installed(i)
    BY <1>4, <1>5, Zenon DEF Transaction, Installed, CommitPC
  <1> QED BY <1>2, <1>3, <1>4, <1>5, <1>6 DEF TypeOK

\* While a process commits there is no operation, and no other process commits.
LEMMA DuringCommit ==
  ASSUME IInv, NEW p \in Procs, pc[p] \in CommitPC
  PROVE  /\ outstanding = 0 /\ committing /\ ~Recovering /\ Active = {}
         /\ \A q \in Procs : /\ q # p => pc[q] \notin CommitPC
                             /\ pc[q] \notin RecoverPC /\ pc[q] # "op"
         /\ \A q \in Procs : locked[q] = {}
         /\ \A b : Unlocked(b)
  <1> USE BootProc DEF IInv
  <1>1. committing /\ outstanding = 0
    BY Zenon DEF Control
  <1>2. Active = {}
    BY <1>1, NoneActive, Zenon
  <1>3. ~Recovering
    BY Zenon DEF Control, Recovering, CommitPC, RecoverPC
  <1>4. \A q \in Procs : /\ q # p => pc[q] \notin CommitPC
                         /\ pc[q] \notin RecoverPC /\ pc[q] # "op"
    BY <1>2, <1>3, Zenon DEF Control, Recovering, Active
  <1>5. \A q \in Procs : locked[q] = {}
    BY <1>4, Zenon DEF Control
  <1> QED BY <1>1, <1>2, <1>3, <1>4, <1>5, Zenon DEF Unlocked

\* While the machine recovers only the boot process runs.
LEMMA DuringRecovery ==
  ASSUME IInv, NEW p \in Procs, pc[p] \in RecoverPC
  PROVE  /\ p = Boot /\ Recovering /\ outstanding = 0 /\ ~committing /\ Active = {}
         /\ \A q \in Procs : q # p => pc[q] = "down"
         /\ \A q \in Procs : locked[q] = {}
         /\ \A b : Unlocked(b)
  <1> USE BootProc DEF IInv
  <1>1. p = Boot /\ Recovering
    BY Zenon DEF Control, Recovering
  <1>2. \A q \in Procs : q # p => pc[q] = "down"
    BY <1>1, Zenon DEF Control
  <1>3. Active = {}
    BY <1>2, Zenon DEF Active, RecoverPC
  <1>4. outstanding = 0
    BY <1>3, Zenon DEF Control
  <1>5. ~committing
    BY <1>2, Zenon DEF Control, CommitPC, RecoverPC
  <1>6. \A q \in Procs : locked[q] = {}
    BY <1>2, Zenon DEF Control, RecoverPC
  <1> QED BY <1>1, <1>2, <1>3, <1>4, <1>5, <1>6, Zenon DEF Unlocked
-----------------------------------------------------------------------------
(* Operations and the buffer cache. *)

\* Step a of log.c keeps the invariant.
Preserved(a) == IInv /\ a => IInv'

\* A step that changes none of the variables it relates keeps the invariant.
LEMMA SameState ==
  ASSUME IInv, UNCHANGED <<home, slot, head, buf, pin, lh, outstanding, committing,
                           pc, tail, locked>>
  PROVE  Control' /\ Transaction' /\ Copies' /\ PinnedUntilInstalled'
  <1> USE DEF IInv
  <1>1. /\ Active' = Active /\ (Recovering' <=> Recovering)
        /\ SleeperHasWaker' <=> SleeperHasWaker
        /\ Distinct(lh)' <=> Distinct(lh) /\ (Distinct(head)' <=> Distinct(head))
    BY ZenonT(60) DEF Active, Recovering, SleeperHasWaker, Distinct
  <1>2. /\ \A i : Installed(i)' <=> Installed(i)
        /\ \A b : /\ (InLog(b)' <=> InLog(b)) /\ (Unlocked(b)' <=> Unlocked(b))
                 /\ bread(b)' = bread(b)
    BY ZenonT(40) DEF Installed, InLog, Unlocked, bread
  <1>3. Control'
    BY <1>1, ZenonT(40) DEF Control
  <1>4. Transaction'
    BY <1>1, ZenonT(40) DEF Transaction
  <1>5. Copies'
    BY <1>1, <1>2, ZenonT(60) DEF Copies
  <1>6. PinnedUntilInstalled'
    BY <1>1, <1>2, ZenonT(40) DEF PinnedUntilInstalled
  <1> QED BY <1>3, <1>4, <1>5, <1>6, Zenon

\* A change to a locked buffer touches no copy that the invariant relates.
LEMMA Inv_modify == \A p \in Procs, b \in Blocks, d \in Data : Preserved(modify(p, b, d))
  <1> SUFFICES ASSUME IInv, NEW p \in Procs, NEW b \in Blocks, NEW d \in Data, modify(p, b, d)
               PROVE  IInv'
    BY Zenon DEF Preserved
  <1> USE BootProc DEF IInv, modify, disk, log
  <1>1. TypeOK'
    BY Zenon DEF TypeOK
  <1>2. Control'
    BY Zenon DEF TypeOK, Control, SleeperHasWaker, Recovering, Active
  <1>3. Transaction'
    BY SMTT(60) DEF Transaction, Distinct, Recovering
  <1>4. Copies'
    <2>1. /\ ~Recovering' /\ \A i : ~Installed(i)' /\ ~Installed(i)
          /\ \A q \in Procs : pc'[q] \notin CommitPC /\ pc'[q] \notin RecoverPC
      BY DuringOp, Zenon DEF Recovering, Installed
    <2>2. b \in locked'[p]
      BY Zenon DEF TypeOK
    <2>3. \A c \in Blocks : c # b => /\ buf'[c] = buf[c]
                                     /\ Unlocked(c)' => Unlocked(c)
      BY SMTT(40) DEF TypeOK, Unlocked
    <2>4. \A c \in Blocks :
            buf'[c] # Invalid /\ ~InLog(c)' /\ Unlocked(c)' => buf'[c] = home'[c]
      BY <2>2, <2>3, SMTT(60) DEF Copies, InLog, Unlocked
    <2>5. \A i \in 1 .. Len(lh') : buf'[lh'[i]] # Invalid
      BY LogAssumption, <2>1, DuringOp, SMTT(60) DEF Copies, TypeOK
    <2>6. \A q \in Procs : \A c \in locked'[q] : buf'[c] # Invalid
      BY LogAssumption DEF Copies, TypeOK
    <2> QED BY <2>1, <2>4, <2>5, <2>6, SMTT(40) DEF Copies, CommitPC, RecoverPC
  <1>5. PinnedUntilInstalled'
    BY Zenon DEF PinnedUntilInstalled, Recovering, Installed
  <1> QED BY <1>1, <1>2, <1>3, <1>4, <1>5, Zenon

\* log_write() adds a block at most once and pins it exactly then.
LEMMA Inv_log_write == \A p \in Procs, b \in Blocks : Preserved(log_write(p, b))
  <1> SUFFICES ASSUME IInv, NEW p \in Procs, NEW b \in Blocks, log_write(p, b)
               PROVE  IInv'
    BY Zenon DEF Preserved
  <1> USE BootProc DEF IInv
  <1>0. /\ pc[p] = "op" /\ b \in locked[p]
        /\ UNCHANGED <<home, slot, head, buf, outstanding, committing, pc, tail, crashes>>
        /\ panicked' \in BOOLEAN
    BY ZenonT(40) DEF log_write, disk, TypeOK
  <1>1. /\ ~Recovering' /\ ~Recovering /\ outstanding' > 0 /\ head' = <<>>
        /\ \A i : ~Installed(i)' /\ ~Installed(i)
        /\ \A q \in Procs : pc'[q] \notin CommitPC /\ pc'[q] \notin RecoverPC
    BY <1>0, DuringOp, Zenon DEF Recovering, Installed
  <1>2. CASE UNCHANGED <<lh, pin, locked, wrote>>
    <2>1. TypeOK'
      BY <1>0, <1>2, ZenonT(40) DEF TypeOK
    <2> QED BY <1>0, <1>2, <2>1, SameState, ZenonT(40)
  <1>3. ASSUME locked' = [locked EXCEPT ![p] = @ \ {b}],
               wrote' = [wrote EXCEPT ![p] = @ \cup {b}]
        PROVE  /\ locked' \in [Procs -> SUBSET Blocks]
               /\ wrote' \in [Procs -> SUBSET Blocks]
               /\ \A q \in Procs : locked'[q] \subseteq locked[q]
               /\ \A c \in Blocks : c # b => (Unlocked(c)' <=> Unlocked(c))
    BY <1>3, Zenon DEF Unlocked, TypeOK
  <1>4. CASE /\ InLog(b) /\ UNCHANGED <<lh, pin>>
             /\ locked' = [locked EXCEPT ![p] = @ \ {b}]
             /\ wrote' = [wrote EXCEPT ![p] = @ \cup {b}]
    <2>1. TypeOK'
      BY <1>0, <1>3, <1>4, Zenon DEF TypeOK
    <2>2. Control'
      BY <1>0, <1>3, <1>4, SMTT(40) DEF Control, SleeperHasWaker, Recovering, Active
    <2>3. Transaction'
      BY <1>0, <1>4, SMTT(60) DEF Transaction, Distinct, Recovering
    <2>4. Copies'
      BY <1>0, <1>1, <1>3, <1>4, SMTT(60) DEF Copies, InLog, CommitPC, RecoverPC
    <2>5. PinnedUntilInstalled'
      BY <1>0, <1>4, SMTT(40) DEF PinnedUntilInstalled, Recovering, Installed
    <2> QED BY <2>1, <2>2, <2>3, <2>4, <2>5, SMTT(40)
  <1>5. CASE /\ ~InLog(b) /\ Len(lh) < LOGSIZE
             /\ lh' = Append(lh, b) /\ pin' = [pin EXCEPT ![b] = @ + 1]
             /\ locked' = [locked EXCEPT ![p] = @ \ {b}]
             /\ wrote' = [wrote EXCEPT ![p] = @ \cup {b}]
    <2>1. /\ lh' \in Seq(Blocks) /\ Len(lh) \in Nat /\ Len(lh') = Len(lh) + 1
          /\ \A i \in 1 .. Len(lh) : lh'[i] = lh[i]
          /\ lh'[Len(lh) + 1] = b
      BY <1>5, AppendFacts, SMTT(60) DEF TypeOK
    <2>2. TypeOK'
      BY LogAssumption, <1>0, <1>3, <1>5, <2>1, SMTT(40) DEF TypeOK
    <2>3. Control'
      BY <1>0, <1>3, <1>5, SMTT(60) DEF Control, SleeperHasWaker, Recovering, Active
    <2>4. Distinct(lh')
      BY <1>5, <2>1, SMTT(60) DEF Transaction, Distinct, InLog
    <2>5. Transaction'
      BY <1>0, <1>1, <2>4, SMTT(40) DEF Transaction, Distinct, CommitPC, RecoverPC
    <2>6. \A c \in Blocks : InLog(c)' <=> InLog(c) \/ c = b
      BY <2>1, SMTT(60) DEF InLog
    <2>7. \A i \in 1 .. Len(lh') : buf'[lh'[i]] # Invalid
      BY <1>0, <1>1, <2>1, SMTT(40) DEF Copies
    <2>8. Copies'
      BY <1>0, <1>1, <1>3, <1>5, <2>6, <2>7, ZenonT(60) DEF Copies, CommitPC, RecoverPC
    <2>9. PinnedUntilInstalled'
      <3>1. \A c \in Blocks : pin[c] = IF InLog(c) THEN 1 ELSE 0
        BY <1>1, Zenon DEF PinnedUntilInstalled, InLog
      <3>2. \A c \in Blocks : pin'[c] = IF InLog(c)' THEN 1 ELSE 0
        BY <1>5, <2>6, <3>1 DEF TypeOK
      <3> QED BY <1>1, <3>2, Zenon DEF PinnedUntilInstalled, InLog
    <2> QED BY <2>2, <2>3, <2>5, <2>8, <2>9, SMTT(40)
  <1>6. CASE Len(lh) >= LOGSIZE \/ Len(lh) >= NLOG - 1 \/ outstanding < 1
    BY <1>2, <1>6, SMTT(40) DEF log_write
  <1>7. CASE ~(Len(lh) >= LOGSIZE \/ Len(lh) >= NLOG - 1 \/ outstanding < 1)
    <2>1. Len(lh) < LOGSIZE
      BY LogAssumption, <1>7, SMTT(40) DEF TypeOK
    <2> QED BY <1>4, <1>5, <1>7, <2>1, Zenon DEF log_write
  <1> QED BY <1>6, <1>7, Zenon

\* bread() of a block outside any transaction gets what is on the disk.
LEMMA Inv_fill == \A b \in Blocks : Preserved(fill(b))
  <1> SUFFICES ASSUME IInv, NEW b \in Blocks, fill(b)
               PROVE  IInv'
    BY Zenon DEF Preserved
  <1> USE BootProc DEF IInv, fill, disk, log, threads
  <1>1. TypeOK'
    BY SMTT(60) DEF TypeOK
  <1>2. Control' /\ Transaction'
    BY DEF Control, Transaction, Distinct, SleeperHasWaker, Recovering, Active
  <1>3. /\ \A i : Installed(i)' = Installed(i)
        /\ \A c : InLog(c)' = InLog(c) /\ Unlocked(c)' = Unlocked(c)
        /\ \A c \in Blocks : bread(c)' = bread(c)
    BY Zenon DEF Installed, InLog, Unlocked, bread, TypeOK
  <1>4. lh \in Seq(Blocks) /\ \A i \in 1 .. Len(lh) : lh[i] \in Blocks
    BY DEF TypeOK
  <1>5. \A c \in Blocks : buf'[c] = buf[c] \/ (buf'[c] = home[c] /\ buf'[c] # Invalid)
    BY Zenon DEF TypeOK
  <1>6. ~Recovering' /\ ~Recovering
    BY SMTT(60) DEF Recovering
  <1>7. Copies'
    BY <1>3, <1>4, <1>5, <1>6, SMTT(60) DEF Copies, TypeOK
  <1>8. PinnedUntilInstalled'
    BY <1>3, <1>6, ZenonT(40) DEF PinnedUntilInstalled
  <1> QED BY <1>1, <1>2, <1>7, <1>8, SMTT(40)

\* bget() recycles only buffers whose contents are on the disk.
LEMMA Inv_recycle == \A b \in Blocks : Preserved(recycle(b))
  <1> SUFFICES ASSUME IInv, NEW b \in Blocks, recycle(b)
               PROVE  IInv'
    BY Zenon DEF Preserved
  <1> USE BootProc DEF IInv, recycle, disk, log, threads
  <1>1. TypeOK'
    BY SMTT(40) DEF TypeOK
  <1>2. Control' /\ Transaction'
    BY SMTT(40) DEF Control, Transaction, Distinct, SleeperHasWaker, Recovering, Active
  <1>3. /\ \A i : Installed(i)' = Installed(i)
        /\ \A c : InLog(c)' = InLog(c) /\ Unlocked(c)' = Unlocked(c)
        /\ Recovering' = Recovering
    BY Zenon DEF Installed, InLog, Unlocked, Recovering
  <1>4. lh \in Seq(Blocks) /\ \A i \in 1 .. Len(lh) : lh[i] \in Blocks
    BY SMTT(40) DEF TypeOK
  <1>5. \A i \in 1 .. Len(lh) : ~Recovering /\ ~Installed(i) => lh[i] # b
    BY DEF PinnedUntilInstalled
  <1>6. \A c \in Blocks : c # b => buf'[c] = buf[c] /\ bread(c)' = bread(c)
    BY Zenon DEF TypeOK, bread
  <1>7. buf'[b] = Invalid /\ bread(b)' = home[b]
    BY SMTT(40) DEF TypeOK, bread
  <1>8. \A q \in Procs, i \in 1 .. Len(lh) :
          /\ pc[q] \in {"write_log", "write_head"} => lh[i] # b
          /\ pc[q] = "install" /\ ~(i < tail[q]) => lh[i] # b
    <2>1. SUFFICES ASSUME NEW q \in Procs, NEW i \in 1 .. Len(lh),
                          pc[q] \in {"write_log", "write_head", "install"},
                          pc[q] = "install" => ~(i < tail[q])
                   PROVE  lh[i] # b
      BY SMTT(60)
    <2>2. ~Recovering /\ \A r \in Procs : r # q => pc[r] \notin CommitPC
      BY <2>1, DuringCommit, SMTT(40) DEF CommitPC
    <2>3. ~Installed(i)
      BY <2>1, <2>2, SMTT(60) DEF Installed, CommitPC
    <2> QED BY <1>5, <2>2, <2>3, SMTT(60)
  <1>9. \A q \in Procs, i \in 1 .. Len(lh) :
          /\ pc[q] = "write_log" /\ i < tail[q] => slot[i] = bread(lh[i])'
          /\ pc[q] \in {"write_head", "install", "erase"} => slot[i] = bread(lh[i])'
    BY <1>4, <1>6, <1>7, <1>8, SMTT(60) DEF Copies
  <1>10. Copies'
    BY <1>3, <1>4, <1>5, <1>6, <1>7, <1>9 DEF Copies, Unlocked, TypeOK
  <1>11. PinnedUntilInstalled'
    BY <1>3, ZenonT(60) DEF PinnedUntilInstalled
  <1> QED BY <1>1, <1>2, <1>10, <1>11, ZenonT(40)
-----------------------------------------------------------------------------
(* recover_from_log() *)

\* One round of the loop over the entries of log.lh.
LEMMA LoopFacts ==
  ASSUME TypeOK, NEW p \in Procs, NEW next \in PC, Loop(p, next), tail[p] <= Len(lh)
  PROVE  /\ pc' \in [Procs -> PC] /\ tail' \in [Procs -> Nat \ {0}]
         /\ \A q \in Procs : q # p => pc'[q] = pc[q] /\ tail'[q] = tail[q]
         /\ \/ tail[p] < Len(lh) /\ tail'[p] = tail[p] + 1 /\ pc'[p] = pc[p]
            \/ tail[p] = Len(lh) /\ tail'[p] = 1 /\ pc'[p] = next
  <1>1. tail[p] \in Nat \ {0} /\ Len(lh) \in Nat
    BY DEF TypeOK
  <1>2. CASE tail[p] < Len(lh)
    <2>1. tail' = [tail EXCEPT ![p] = tail[p] + 1] /\ pc' = pc
      BY <1>2, Zenon DEF Loop
    <2> QED BY <1>1, <1>2, <2>1 DEF TypeOK
  <1>3. CASE ~(tail[p] < Len(lh))
    <2>1. tail' = [tail EXCEPT ![p] = 1] /\ pc' = [pc EXCEPT ![p] = next]
      BY <1>3, Zenon DEF Loop
    <2> QED BY <1>1, <1>3, <2>1 DEF TypeOK
  <1> QED BY <1>2, <1>3, Zenon

\* With an empty log, buffers need only agree with the disk and nothing is pinned.
LEMMA EmptyLog ==
  ASSUME Len(lh') = 0, \A b \in Blocks : pin'[b] = 0,
         \A b \in Blocks : buf'[b] # Invalid => buf'[b] = home'[b],
         \A q \in Procs : locked'[q] = {}
  PROVE  Copies' /\ PinnedUntilInstalled'
  <1>1. \A i \in 1 .. Len(lh') : FALSE
    BY SMTT(40)
  <1>2. Copies'
    BY <1>1, SMTT(40) DEF Copies
  <1>3. PinnedUntilInstalled'
    BY <1>1, Zenon DEF PinnedUntilInstalled
  <1> QED BY <1>2, <1>3, Zenon

\* A recovery step that stays within recovery keeps the control invariant.
LEMMA RecoverControl ==
  ASSUME IInv, NEW p \in Procs, pc[p] \in RecoverPC, pc'[p] \in RecoverPC,
         pc' \in [Procs -> PC], \A q \in Procs : q # p => pc'[q] = pc[q],
         UNCHANGED <<outstanding, committing, locked>>
  PROVE  /\ Control' /\ Recovering' /\ p = Boot
         /\ \A q \in Procs : q # p => pc[q] = "down" /\ pc'[q] = "down"
         /\ \A q \in Procs : locked[q] = {} /\ pc'[q] \notin CommitPC
  <1> USE BootProc
  <1>1. /\ p = Boot /\ Recovering /\ outstanding = 0 /\ ~committing /\ Active = {}
        /\ \A q \in Procs : q # p => pc[q] = "down"
        /\ \A q \in Procs : locked[q] = {}
    BY DuringRecovery, SMTT(40)
  <1>2. Recovering' /\ \A q \in Procs : q # p => pc'[q] = "down"
    BY <1>1, Zenon DEF Recovering
  <1>3. Active' = {}
    BY <1>2, Zenon DEF Active, RecoverPC
  <1>4. Cardinality(Active') = 0
    BY <1>1, <1>3, ZenonT(40) DEF IInv, Control
  <1>5. \A q \in Procs : pc'[q] \notin CommitPC /\ pc'[q] # "asleep"
    BY <1>2, SMTT(40) DEF RecoverPC, CommitPC
  <1>6. Control'
    BY <1>1, <1>2, <1>3, <1>4, <1>5, SMTT(40) DEF Control, SleeperHasWaker, RecoverPC
  <1> QED BY <1>1, <1>2, <1>5, <1>6, SMTT(40)

\* During recovery, what is installed agrees with the log.
LEMMA RecoveryCopies ==
  ASSUME Recovering', \A q \in Procs : locked'[q] = {} /\ pc'[q] \notin CommitPC,
         \A b \in Blocks : (buf'[b] # Invalid => buf'[b] = home'[b]) /\ pin'[b] = 0,
         \A q \in Procs, i \in 1 .. Len(lh') :
           \/ pc'[q] = "rec_install" /\ i < tail'[q]
           \/ pc'[q] = "rec_erase"
           => slot'[i] = home'[lh'[i]]
  PROVE  Copies' /\ PinnedUntilInstalled'
  <1>1. \A q \in Procs : pc'[q] \notin {"write_log", "write_head", "install", "erase"}
    BY Zenon DEF CommitPC
  <1>2. Copies'
    BY <1>1, Zenon DEF Copies
  <1>3. PinnedUntilInstalled'
    BY Zenon DEF PinnedUntilInstalled
  <1> QED BY <1>2, <1>3, Zenon

\* read_head() takes up the transaction on the disk.
LEMMA Inv_read_head == \A p \in Procs : Preserved(read_head(p))
  <1> SUFFICES ASSUME IInv, NEW p \in Procs, read_head(p)
               PROVE  IInv'
    BY Zenon DEF Preserved
  <1> USE BootProc DEF IInv
  <1>0. /\ pc[p] = "read_head" /\ lh' = head
        /\ pc' = [pc EXCEPT ![p] = IF head = <<>> THEN "rec_erase" ELSE "rec_install"]
        /\ UNCHANGED <<home, slot, head, buf, pin, outstanding, committing, tail, locked,
                       wrote, panicked, crashes>>
    BY SMTT(40) DEF read_head, cache, disk
  <1>1. /\ pc' \in [Procs -> PC]
        /\ pc'[p] = IF head = <<>> THEN "rec_erase" ELSE "rec_install"
        /\ \A q \in Procs : q # p => pc'[q] = pc[q]
    BY <1>0, SMTT(40) DEF TypeOK, PC, RecoverPC
  <1>2. /\ Control' /\ Recovering' /\ p = Boot
        /\ \A q \in Procs : q # p => pc[q] = "down" /\ pc'[q] = "down"
        /\ \A q \in Procs : locked[q] = {} /\ pc'[q] \notin CommitPC
    <2>1. pc[p] \in RecoverPC /\ pc'[p] \in RecoverPC
      BY <1>0, <1>1 DEF RecoverPC
    <2>2. /\ pc' \in [Procs -> PC] /\ \A q \in Procs : q # p => pc'[q] = pc[q]
          /\ UNCHANGED <<outstanding, committing, locked>>
      BY <1>0, <1>1, SMTT(60)
    <2> QED BY <2>1, <2>2, RecoverControl, ZenonT(40)
  <1>3. TypeOK'
    BY <1>0, <1>1, SMTT(40) DEF TypeOK
  <1>4. tail[p] = 1 /\ (head # <<>> => tail[p] <= Len(head))
    BY <1>0, NonEmpty, SMTT(60) DEF Transaction, TypeOK
  <1>5. Transaction'
    BY <1>0, <1>1, <1>2, <1>4, SMTT(40) DEF Transaction, Distinct, CommitPC
  <1>6. Copies' /\ PinnedUntilInstalled'
    <2>1. Recovering
      BY <1>0, <1>2, ZenonT(40) DEF Recovering, RecoverPC
    <2>2. \A b \in Blocks : (buf'[b] # Invalid => buf'[b] = home'[b]) /\ pin'[b] = 0
      BY <1>0, <2>1, ZenonT(40) DEF Copies
    <2>3. \A q \in Procs, i \in 1 .. Len(lh') :
            \/ pc'[q] = "rec_install" /\ i < tail'[q]
            \/ pc'[q] = "rec_erase"
            => slot'[i] = home'[lh'[i]]
      <3> SUFFICES ASSUME NEW q \in Procs, NEW i \in 1 .. Len(lh'),
                          \/ pc'[q] = "rec_install" /\ i < tail'[q]
                          \/ pc'[q] = "rec_erase"
                   PROVE  FALSE
        BY SMTT(40)
      <3>1. q = p
        BY <1>2, SMTT(40)
      <3>2. i \in 1 .. Len(head) /\ head # <<>>
        BY <1>0, SMTT(40)
      <3>3. pc'[p] = "rec_install" /\ i < 1
        BY <1>0, <1>1, <1>4, <3>1, <3>2, SMTT(40)
      <3> QED BY <3>3, SMTT(40)
    <2>4. \A q \in Procs : locked'[q] = {} /\ pc'[q] \notin CommitPC
      BY <1>0, <1>2, ZenonT(40)
    <2> QED BY <1>2, <2>2, <2>3, <2>4, RecoveryCopies, ZenonT(40)
  <1> QED BY <1>2, <1>3, <1>5, <1>6, SMTT(40)

\* Recovery installs without touching pin counts.
LEMMA Inv_rec_install == \A p \in Procs : Preserved(rec_install(p))
  <1> SUFFICES ASSUME IInv, NEW p \in Procs, rec_install(p)
               PROVE  IInv'
    BY Zenon DEF Preserved
  <1> DEFINE t == tail[p]
             b == lh[t]
  <1> USE BootProc DEF IInv
  <1>0. /\ pc[p] = "rec_install" /\ home' = [home EXCEPT ![b] = slot[t]]
        /\ buf' = [buf EXCEPT ![b] = slot[t]]
        /\ Loop(p, "rec_erase")
        /\ UNCHANGED <<slot, head, pin, lh, outstanding, committing, locked, wrote,
                       panicked, crashes>>
    BY ZenonT(40) DEF rec_install, Install, log
  <1>a. pc[p] = "rec_install"
    BY <1>0, Zenon
  <1>1. /\ t \in 1 .. Len(lh) /\ t \in Slots /\ Len(lh) \in Nat /\ b \in Blocks
        /\ \A i \in 1 .. Len(lh) : lh[i] \in Blocks /\ i \in Slots
        /\ slot[t] \in Data /\ head = lh
    BY LogAssumption, <1>0, SMTT(40) DEF Transaction, TypeOK, Slots
  <1>2. /\ pc' \in [Procs -> PC] /\ tail' \in [Procs -> Nat \ {0}]
        /\ \A q \in Procs : q # p => pc'[q] = pc[q] /\ tail'[q] = tail[q]
        /\ \/ t < Len(lh) /\ tail'[p] = t + 1 /\ pc'[p] = pc[p]
           \/ t = Len(lh) /\ tail'[p] = 1 /\ pc'[p] = "rec_erase"
    <2>1. "rec_erase" \in PC
      BY Zenon DEF PC, RecoverPC
    <2>2. t <= Len(lh)
      BY <1>1, SMTT(40)
    <2> QED BY <1>0, <2>1, <2>2, LoopFacts, ZenonT(40)
  <1>3. /\ Control' /\ Recovering' /\ p = Boot
        /\ \A q \in Procs : q # p => pc[q] = "down" /\ pc'[q] = "down"
        /\ \A q \in Procs : locked[q] = {} /\ pc'[q] \notin CommitPC
    <2>1. pc[p] \in RecoverPC /\ pc'[p] \in RecoverPC
      BY <1>0, <1>2, Zenon DEF RecoverPC
    <2>2. /\ pc' \in [Procs -> PC] /\ \A q \in Procs : q # p => pc'[q] = pc[q]
          /\ UNCHANGED <<outstanding, committing, locked>>
      BY <1>0, <1>2, SMTT(60)
    <2> QED BY <2>1, <2>2, RecoverControl, ZenonT(40)
  <1>4. TypeOK'
    BY <1>0, <1>1, <1>2, SMTT(60) DEF TypeOK
  <1>5. Transaction'
    <2>1. tail'[p] <= Len(lh) /\ (pc'[p] # "rec_install" => tail'[p] = 1)
          /\ pc'[p] \in {"rec_install", "rec_erase"}
      BY <1>a, <1>1, <1>2, SMTT(40)
    <2>2. Distinct(lh') /\ Distinct(head') /\ head' = lh' /\ Len(lh') = Len(lh)
      BY <1>0, <1>1, ZenonT(60) DEF Transaction
    <2>3. \A q \in Procs : q # p => tail'[q] = 1 /\ pc'[q] = "down"
      BY <1>2, <1>3, SMTT(60) DEF Transaction
    <2>4. \A q \in Procs : pc'[q] \notin CommitPC
      BY <1>3, Zenon
    <2>5. pc'[p] = "rec_install" \/ (pc'[p] = "rec_erase" /\ tail'[p] = 1)
      BY <2>1, ZenonT(60)
    <2> QED BY <1>3, <2>1, <2>2, <2>3, <2>4, <2>5, ZenonT(40) DEF Transaction
  <1>6. Copies' /\ PinnedUntilInstalled'
    <2>1. /\ \A c \in Blocks : c # b => buf'[c] = buf[c] /\ home'[c] = home[c]
          /\ buf'[b] = slot[t] /\ home'[b] = slot[t]
      BY <1>0, <1>1, Zenon DEF TypeOK
    <2>2. Recovering
      BY <1>0, <1>3, ZenonT(40) DEF Recovering, RecoverPC
    <2>3. \A c \in Blocks : (buf'[c] # Invalid => buf'[c] = home'[c]) /\ pin'[c] = 0
      BY <1>0, <2>1, <2>2, ZenonT(60) DEF Copies
    <2>4. \A i \in 1 .. Len(lh) : i < t \/ i = t => slot[i] = home'[lh[i]]
      BY <1>0, <1>1, <2>1, SMTT(40) DEF Copies, Transaction, Distinct
    <2>5. \A q \in Procs, i \in 1 .. Len(lh') :
            \/ pc'[q] = "rec_install" /\ i < tail'[q]
            \/ pc'[q] = "rec_erase"
            => slot'[i] = home'[lh'[i]]
      <3> SUFFICES ASSUME NEW q \in Procs, NEW i \in 1 .. Len(lh),
                          \/ pc'[q] = "rec_install" /\ i < tail'[q]
                          \/ pc'[q] = "rec_erase"
                   PROVE  slot[i] = home'[lh[i]]
        BY <1>0, SMTT(60)
      <3>1. q = p
        BY <1>3, SMTT(60)
      <3>2. i < t \/ i = t
        BY <1>0, <1>1, <1>2, <3>1, SMTT(40)
      <3> QED BY <2>4, <3>2, SMTT(40)
    <2>6. \A q \in Procs : locked'[q] = {} /\ pc'[q] \notin CommitPC
      BY <1>0, <1>3, ZenonT(40)
    <2> QED BY <1>3, <2>3, <2>5, <2>6, RecoveryCopies, ZenonT(40)
  <1> QED BY <1>3, <1>4, <1>5, <1>6, ZenonT(40)

\* After recovery the log is empty and operations may begin.
LEMMA Inv_rec_erase == \A p \in Procs : Preserved(rec_erase(p))
  <1> SUFFICES ASSUME IInv, NEW p \in Procs, rec_erase(p)
               PROVE  IInv'
    BY Zenon DEF Preserved
  <1> USE BootProc DEF IInv
  <1>0. /\ pc[p] = "rec_erase" /\ lh' = <<>> /\ head' = <<>>
        /\ pc' = [q \in Procs |-> "idle"]
        /\ UNCHANGED <<home, slot, buf, pin, outstanding, committing, tail, locked,
                       wrote, panicked, crashes>>
    BY Zenon DEF rec_erase, cache
  <1>1. /\ Recovering /\ outstanding = 0 /\ ~committing
        /\ \A q \in Procs : q # p => pc[q] = "down"
        /\ \A q \in Procs : locked[q] = {}
    BY <1>0, DuringRecovery, Zenon DEF RecoverPC
  <1>2. /\ pc' \in [Procs -> PC] /\ ~Recovering' /\ Active' = {}
        /\ \A q \in Procs : pc'[q] = "idle"
    BY <1>0 DEF PC, Recovering, RecoverPC, Active
  <1>3. lh' \in Seq(Blocks) /\ head' \in Seq(Blocks) /\ Len(lh') = 0 /\ Len(head') = 0
    BY <1>0, SMTT(40)
  <1>4. TypeOK'
    BY LogAssumption, <1>0, <1>2, <1>3, SMTT(60) DEF TypeOK
  <1>5. Control'
    <2>1. Cardinality(Active') = 0
      BY <1>1, <1>2, ZenonT(60) DEF Control
    <2> QED BY <1>0, <1>1, <1>2, <2>1, SMTT(40)
        DEF Control, SleeperHasWaker, CommitPC, RecoverPC
  <1>6. Transaction'
    <2>1. \A q \in Procs : tail'[q] = 1
      BY <1>0, <1>1, SMTT(60) DEF Transaction
    <2> QED BY <1>0, <1>2, <1>3, <2>1, SMTT(60) DEF Transaction, Distinct, CommitPC
  <1>7. \A b \in Blocks : (buf[b] # Invalid => buf[b] = home[b]) /\ pin[b] = 0
    BY <1>1, SMTT(60) DEF Copies
  <1>8. Copies' /\ PinnedUntilInstalled'
    BY <1>0, <1>1, <1>3, <1>7, EmptyLog, Zenon
  <1> QED BY <1>4, <1>5, <1>6, <1>8, Zenon
=============================================================================
