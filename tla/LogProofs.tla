----------------------------- MODULE LogProofs ------------------------------
(***************************************************************************)
(* The operations that log.outstanding counts, and the space that          *)
(* begin_op() reserves for them.  IInv is an invariant of Log, Log         *)
(* implements AtomicDisk and log_write() finds room, for any number of     *)
(* processes, blocks and crashes.                                          *)
(***************************************************************************)
EXTENDS LogRefinement, FiniteSetTheorems

(* log.outstanding *)

\* The number of active operations after begin_op() and after end_op().
LEMMA ActiveFinite == IsFiniteSet(Active)
  BY LogAssumption, FS_Subset, Zenon DEF Active

\* log.outstanding is 0 exactly when no operation is in progress.
LEMMA ActiveEmpty == /\ Cardinality(Active) = 0 <=> Active = {}
                     /\ Cardinality(Active') = 0 <=> Active' = {}
  <1>1. IsFiniteSet(Active')
    BY LogAssumption, FS_Subset, Zenon DEF Active
  <1> QED BY <1>1, ActiveFinite, FS_EmptySet, Zenon

\* begin_op() adds one operation to those counted by log.outstanding.
LEMMA ActiveAdd ==
  ASSUME NEW p \in Procs, pc[p] # "op", Active' = Active \cup {p}
  PROVE  Cardinality(Active') = Cardinality(Active) + 1
  BY ActiveFinite, FS_AddElement, Zenon DEF Active

\* end_op() takes one away.
LEMMA ActiveRemove ==
  ASSUME NEW p \in Procs, pc[p] = "op", Active' = Active \ {p}
  PROVE  /\ Cardinality(Active') = Cardinality(Active) - 1
         /\ Cardinality(Active) \in Nat \ {0}
  <1>1. p \in Active
    BY Zenon DEF Active
  <1>2. Cardinality(Active') = Cardinality(Active) - 1
    BY <1>1, ActiveFinite, FS_RemoveElement, ZenonT(40)
  <1>3. Cardinality(Active) \in Nat /\ Cardinality(Active) # 0
    BY <1>1, ActiveFinite, FS_CardinalityType, FS_EmptySet
  <1> QED BY <1>2, <1>3, Zenon

\* The invariant holds on a machine that has just been switched on.
LEMMA InitInv == Init => IInv
  <1> SUFFICES ASSUME Init PROVE IInv
    BY Zenon
  <1> USE LogAssumption DEF Init, BootPC, NoSets, NoBuffers, NoPins, LoopStart
  <1>a. slot \in [Slots -> Data]
    BY Zenon
  <1>b. head \in Seq(Blocks) /\ Len(head) <= LOGSIZE
    OBVIOUS
  <1>c. pc \in [Procs -> PC]
    BY Zenon DEF PC, RecoverPC
  <1>d. buf \in [Blocks -> Data \cup {Invalid}] /\ pin \in [Blocks -> Nat]
    BY Zenon
  <1>e. tail \in [Procs -> Nat \ {0}]
    OBVIOUS
  <1>f. committing \in BOOLEAN /\ panicked \in BOOLEAN
    BY ZenonT(40)
  <1>g. lh \in Seq(Blocks) /\ Len(lh) <= LOGSIZE
    OBVIOUS
  <1>h. outstanding \in Nat /\ crashes \in 0 .. MaxCrashes
    OBVIOUS
  <1>i. locked \in [Procs -> SUBSET Blocks] /\ wrote \in [Procs -> SUBSET Blocks]
    BY Zenon
  <1>1. TypeOK
    BY <1>a, <1>b, <1>c, <1>d, <1>e, <1>f, <1>g, <1>h, <1>i, ZenonT(40) DEF TypeOK
  <1>2. Active = {}
    BY Zenon DEF Active
  <1>3. Control
    BY <1>2, FS_EmptySet, Zenon DEF Control, SleeperHasWaker, Recovering, CommitPC, RecoverPC
  <1>4. Transaction
    BY DEF Transaction, Distinct, Recovering, CommitPC, RecoverPC
  <1>5. Copies
    BY Zenon DEF Copies, Recovering, CommitPC, RecoverPC
  <1>6. PinnedUntilInstalled
    BY Zenon DEF PinnedUntilInstalled, Recovering, RecoverPC
  <1> QED BY <1>1, <1>3, <1>4, <1>5, <1>6, ZenonT(40) DEF IInv

\* begin_op() admits an operation only while nobody commits, or sleeps with a waker left.
LEMMA Inv_begin_op == \A p \in Procs : Preserved(begin_op(p))
  <1> SUFFICES ASSUME IInv, NEW p \in Procs, begin_op(p)
               PROVE  IInv'
    BY Zenon DEF Preserved
  <1> USE BootProc DEF IInv
  <1>0. /\ pc[p] \in {"idle", "awake"}
        /\ UNCHANGED <<home, slot, head, buf, pin, lh, committing, tail, locked,
                       panicked, crashes>>
    BY Zenon DEF begin_op, disk, cache
  <1>1. CASE committing \/ NoSpace
    <2>1. pc' = [pc EXCEPT ![p] = "asleep"] /\ UNCHANGED <<outstanding, wrote>>
      BY <1>1, Zenon DEF begin_op
    <2>2. TypeOK'
      BY <1>0, <2>1 DEF TypeOK, PC
    <2>3. outstanding > 0 \/ committing
      <3>1. SUFFICES ASSUME outstanding = 0, ~committing, ~Recovering PROVE FALSE
        BY LogAssumption, <1>0, SMTT(60) DEF TypeOK, Control, Recovering, RecoverPC
      <3>2. Len(lh) = 0
        BY <3>1 DEF Transaction
      <3> QED BY LogAssumption, <1>1, <3>1, <3>2, SMTT(40) DEF NoSpace, TypeOK
    <2>4. Active' = Active
      BY <1>0, <2>1, Zenon DEF Active, TypeOK
    <2>5. Control'
      BY <1>0, <2>1, <2>3, <2>4
      DEF TypeOK, Control, SleeperHasWaker, Recovering, CommitPC, RecoverPC
    <2>6. Copies' /\ PinnedUntilInstalled' /\ Recovering' = Recovering
      BY <1>0, <2>1, QuietMoves, ZenonT(40) DEF TypeOK, Quiet
    <2>7. Transaction'
      BY <1>0, <2>1, <2>6, SMTT(40) DEF TypeOK, Transaction, Distinct, CommitPC
    <2> QED BY <2>2, <2>5, <2>6, <2>7, ZenonT(40)
  <1>2. CASE ~(committing \/ NoSpace)
    <2>1. /\ pc' = [pc EXCEPT ![p] = "op"] /\ outstanding' = outstanding + 1
          /\ wrote' = [wrote EXCEPT ![p] = {}]
      BY <1>2, Zenon DEF begin_op
    <2>2. TypeOK'
      BY <1>0, <2>1 DEF TypeOK, PC
    <2>3. Active' = Active \cup {p}
      BY <1>0, <2>1, Zenon DEF Active, TypeOK
    <2>4. outstanding' = Cardinality(Active')
      BY <1>0, <2>1, <2>3, ActiveAdd, ZenonT(60) DEF Control
    <2>a. outstanding' = 0 <=> Active' = {}
      BY <2>4, ActiveEmpty, ZenonT(60)
    <2>5. Control'
      BY <1>0, <1>2, <2>1, <2>4, <2>a, SMTT(40)
      DEF TypeOK, Control, SleeperHasWaker, Recovering, CommitPC, RecoverPC
    <2>6. Copies' /\ PinnedUntilInstalled' /\ Recovering' = Recovering
      BY <1>0, <2>1, QuietMoves, ZenonT(40) DEF TypeOK, Quiet
    <2>7. Transaction'
      BY <1>0, <2>1, <2>6, SMTT(40) DEF TypeOK, Transaction, Distinct, CommitPC
    <2> QED BY <2>2, <2>5, <2>6, <2>7, Zenon
  <1> QED BY <1>1, <1>2, Zenon

\* end_op() starts a commit only when no operation is left.
LEMMA Inv_end_op == \A p \in Procs : Preserved(end_op(p))
  <1> SUFFICES ASSUME IInv, NEW p \in Procs, end_op(p)
               PROVE  IInv'
    BY Zenon DEF Preserved
  <1> USE BootProc DEF IInv
  <1>0. /\ pc[p] = "op" /\ locked[p] = {} /\ outstanding' = outstanding - 1
        /\ UNCHANGED <<home, slot, head, buf, pin, lh, tail, locked, wrote, crashes>>
        /\ ~committing /\ UNCHANGED panicked
    BY DuringOp, ZenonT(40) DEF end_op, disk, cache
  <1>1. /\ ~Recovering /\ head = <<>> /\ \A i : ~Installed(i)
        /\ \A q \in Procs : pc[q] \notin CommitPC /\ pc[q] \notin RecoverPC
    BY <1>0, DuringOp, Zenon
  <1>2. ASSUME pc' \in [Procs -> PC], Active' = Active \ {p}
        PROVE  /\ outstanding' \in Nat /\ outstanding' = Cardinality(Active')
               /\ outstanding' = 0 <=> Active' = {}
    <2>1. /\ Cardinality(Active') = Cardinality(Active) - 1
          /\ Cardinality(Active) \in Nat \ {0}
      BY <1>0, <1>2, ActiveRemove, ZenonT(40)
    <2>2. outstanding = Cardinality(Active) /\ outstanding' = outstanding - 1
      BY <1>0, Zenon DEF Control
    <2>3. outstanding' \in Nat /\ outstanding' = Cardinality(Active')
      BY <2>1, <2>2, SMTT(40)
    <2> QED BY <2>3, ActiveEmpty, ZenonT(40)
  <1>3. CASE /\ outstanding = 1 /\ committing' = TRUE
             /\ pc' = [pc EXCEPT ![p] = IF lh = <<>> THEN "finish" ELSE "write_log"]
    <2>1. /\ pc' \in [Procs -> PC] /\ Active' = Active \ {p}
          /\ \A q \in Procs : q # p => pc'[q] = pc[q]
          /\ pc'[p] = IF lh = <<>> THEN "finish" ELSE "write_log"
      BY <1>0, <1>3, SMTT(60) DEF TypeOK, PC, CommitPC, Active
    <2>2. ~Recovering' /\ \A i : ~Installed(i)'
      BY <1>1, <2>1, SMTT(60) DEF Recovering, Installed, CommitPC, RecoverPC
    <2>3. TypeOK'
      BY <1>0, <1>2, <1>3, <2>1, SMTT(60) DEF TypeOK
    <2>4. Control'
      BY <1>0, <1>1, <1>2, <1>3, <2>1, <2>2, SMTT(60)
      DEF Control, SleeperHasWaker, CommitPC, RecoverPC
    <2>5. tail[p] = 1 /\ (lh # <<>> => tail[p] <= Len(lh))
      <3>1. tail[p] = 1 /\ lh \in Seq(Blocks)
        BY <1>0, ZenonT(60) DEF Transaction, TypeOK
      <3> QED BY <3>1, NonEmpty, SMTT(40)
    <2>6. Transaction'
      BY <1>0, <1>1, <1>3, <2>1, <2>2, <2>5, SMTT(60) DEF Transaction, Distinct, CommitPC, TypeOK
    <2>7. Copies'
      BY <1>0, <1>1, <2>1, <2>2, <2>5, SMTT(60)
      DEF Copies, InLog, Unlocked, CommitPC, RecoverPC
    <2>8. PinnedUntilInstalled'
      BY <1>0, <1>1, <2>2, ZenonT(40) DEF PinnedUntilInstalled
    <2> QED BY <2>3, <2>4, <2>6, <2>7, <2>8, SMTT(60)
  <1>4. CASE /\ outstanding # 1 /\ UNCHANGED committing
             /\ pc' = wakeup([pc EXCEPT ![p] = "idle"])
    <2>1. /\ pc' \in [Procs -> PC] /\ Active' = Active \ {p}
          /\ \A q \in Procs : pc'[q] = pc[q] \/ (pc[q] \in Quiet /\ pc'[q] \in Quiet)
          /\ \A q \in Procs : pc'[q] # "asleep"
          /\ \A q \in Procs : q # p => (pc'[q] = "op" <=> pc[q] = "op")
      BY <1>0, <1>4, ZenonT(40) DEF TypeOK, PC, CommitPC, RecoverPC, Active, wakeup, Quiet
    <2>2. Copies' /\ PinnedUntilInstalled' /\ Recovering' = Recovering
      BY <1>0, <2>1, QuietMoves, SMTT(40)
    <2>3. TypeOK'
      BY <1>0, <1>2, <1>4, <2>1, ZenonT(60) DEF TypeOK
    <2>4. outstanding' # 0
      BY <1>0, <1>4 DEF TypeOK
    <2>5. Control'
      BY <1>0, <1>1, <1>2, <1>4, <2>1, <2>2, ZenonT(60)
      DEF Control, SleeperHasWaker, CommitPC, RecoverPC, Quiet
    <2>6. Transaction'
      BY <1>0, <1>1, <2>1, <2>2, <2>4, SMTT(60) DEF Transaction, Distinct, CommitPC, RecoverPC, Quiet
    <2> QED BY <2>2, <2>3, <2>5, <2>6, ZenonT(40)
  <1> QED BY <1>0, <1>3, <1>4, ZenonT(60) DEF end_op

\* A crash leaves a disk that recovery can start from.
LEMMA Inv_Crash == Preserved(Crash)
  <1> SUFFICES ASSUME IInv, Crash
               PROVE  IInv'
    BY Zenon DEF Preserved
  <1> USE BootProc DEF IInv
  <1>0. /\ crashes < MaxCrashes /\ crashes' = crashes + 1
        /\ buf' = NoBuffers /\ pin' = NoPins /\ lh' = <<>> /\ outstanding' = 0
        /\ committing' = FALSE /\ pc' = BootPC /\ tail' = LoopStart
        /\ locked' = NoSets /\ wrote' = NoSets
        /\ UNCHANGED <<head, panicked>>
    BY Zenon DEF Crash
  <1>1. home' \in [Blocks -> Data] /\ slot' \in [Slots -> Data]
    <2>1. CASE UNCHANGED <<home, slot>>
      BY <2>1 DEF TypeOK
    <2>2. ASSUME NEW p \in Procs, NEW d \in Data,
                 slot' = [slot EXCEPT ![tail[p]] = d] /\ UNCHANGED home
          PROVE  home' \in [Blocks -> Data] /\ slot' \in [Slots -> Data]
      BY <2>2, ZenonT(40) DEF TypeOK
    <2>3. ASSUME NEW p \in Procs, NEW d \in Data,
                 home' = [home EXCEPT ![lh[tail[p]]] = d] /\ UNCHANGED slot
          PROVE  home' \in [Blocks -> Data] /\ slot' \in [Slots -> Data]
      BY <2>3, ZenonT(40) DEF TypeOK
    <2> QED BY <2>1, <2>2, <2>3, Zenon DEF Crash
  <1>2. /\ pc' \in [Procs -> PC] /\ pc'[Boot] = "read_head"
        /\ \A q \in Procs : q # Boot => pc'[q] = "down"
    BY <1>0, Zenon DEF BootPC, PC, RecoverPC
  <1>3. /\ tail' \in [Procs -> Nat \ {0}] /\ \A q \in Procs : tail'[q] = 1
        /\ lh' \in Seq(Blocks) /\ Len(lh') = 0
    BY <1>0 DEF LoopStart
  <1>4. /\ locked' \in [Procs -> SUBSET Blocks] /\ wrote' \in [Procs -> SUBSET Blocks]
        /\ \A q \in Procs : locked'[q] = {}
    BY <1>0, Zenon DEF NoSets
  <1>5. /\ buf' \in [Blocks -> Data \cup {Invalid}] /\ pin' \in [Blocks -> Nat]
        /\ \A b \in Blocks : buf'[b] = Invalid /\ pin'[b] = 0
    BY <1>0, SMTT(40) DEF NoBuffers, NoPins
  <1>6. TypeOK'
    <2>1. committing' \in BOOLEAN /\ panicked' \in BOOLEAN
      BY <1>0, ZenonT(40) DEF TypeOK
    <2>2. crashes' \in 0 .. MaxCrashes
      BY LogAssumption, <1>0 DEF TypeOK
    <2> QED BY LogAssumption, <1>0, <1>1, <1>2, <1>3, <1>4, <1>5, <2>1, <2>2, SMTT(60) DEF TypeOK
  <1>7. Recovering' /\ Active' = {}
    BY <1>2, SMTT(40) DEF Recovering, RecoverPC, Active
  <1>8. Control'
    <2>1. Cardinality(Active') = 0
      BY <1>7, FS_EmptySet, SMTT(60)
    <2> QED BY <1>0, <1>2, <1>4, <1>7, <2>1, SMTT(60)
        DEF Control, SleeperHasWaker, CommitPC, RecoverPC
  <1>9. Transaction'
    BY <1>0, <1>2, <1>3, <1>7, SMTT(60) DEF Transaction, Distinct, CommitPC
  <1>10. Copies'
    BY <1>2, <1>3, <1>4, <1>5, <1>7, ZenonT(60) DEF Copies
  <1>11. PinnedUntilInstalled'
    BY <1>7 DEF PinnedUntilInstalled
  <1> QED BY <1>6, <1>8, <1>9, <1>10, <1>11, ZenonT(40)

\* Every step of the log preserves the invariant.
LEMMA Inv_Next == Preserved([Next]_vars)
  <1> SUFFICES ASSUME IInv, [Next]_vars
               PROVE  IInv'
    BY Zenon DEF Preserved
  <1>1. CASE UNCHANGED vars
    <2>0. UNCHANGED <<home, slot, head, buf, pin, lh, outstanding, committing, pc, tail,
                      locked, wrote, panicked, crashes>>
      BY <1>1, Zenon DEF vars, disk, cache, log, threads
    <2>1. TypeOK'
      BY <2>0, ZenonT(40) DEF IInv, TypeOK
    <2> QED BY <2>0, <2>1, SameState, ZenonT(40) DEF IInv
  <1>2. ASSUME NEW p \in Procs, Step(p) PROVE IInv'
    BY <1>2, Inv_begin_op, Inv_modify, Inv_log_write, Inv_end_op, Inv_write_log,
       Inv_write_head, Inv_install_trans, Inv_erase, Inv_finish, Inv_read_head,
       Inv_rec_install, Inv_rec_erase
    DEF Step, Commit, recover_from_log, Preserved
  <1> QED BY <1>1, <1>2, Inv_fill, Inv_recycle, Inv_Crash, ZenonT(40) DEF Next, Preserved
-----------------------------------------------------------------------------
(* The space in the log. *)

\* The blocks that the operations in S, having written w, may still add to the log:
\* what begin_op() reserved for each and log_write() has not used.
Reserve(S, w) == {r \in S \X (1 .. MAXOPBLOCKS) : r[2] > Cardinality(w[r[1]])}

\* begin_op() reserves MAXOPBLOCKS for each operation.
LEMMA ReserveBound ==
  ASSUME NEW S, IsFiniteSet(S), NEW w
  PROVE  /\ IsFiniteSet(Reserve(S, w)) /\ Cardinality(Reserve(S, w)) \in Nat
         /\ Cardinality(S) \in Nat
         /\ Cardinality(Reserve(S, w)) <= Cardinality(S) * MAXOPBLOCKS
  <1> DEFINE T == 1 .. MAXOPBLOCKS
  <1>0. MAXOPBLOCKS \in Nat \ {0}
    BY LogAssumption, Zenon
  <1>1. IsFiniteSet(T) /\ Cardinality(T) = MAXOPBLOCKS
    BY <1>0, FS_Interval
  <1>2. Reserve(S, w) \in SUBSET (S \X T)
    BY Zenon DEF Reserve
  <1> HIDE DEF T
  <1>3. IsFiniteSet(S \X T) /\ Cardinality(S \X T) = Cardinality(S) * MAXOPBLOCKS
    BY <1>1, FS_Product, ZenonT(20)
  <1>4. IsFiniteSet(Reserve(S, w)) /\ Cardinality(Reserve(S, w)) <= Cardinality(S \X T)
    BY <1>2, <1>3, FS_Subset, ZenonT(20)
  <1>5. Cardinality(Reserve(S, w)) \in Nat /\ Cardinality(S) \in Nat
    BY <1>4, FS_CardinalityType, ZenonT(20)
  <1> QED BY <1>3, <1>4, <1>5, ZenonT(20)

\* log_write() uses one of the operation's blocks.
LEMMA ReserveUse ==
  ASSUME NEW S, IsFiniteSet(S), NEW p \in S, NEW w, NEW w2,
         \A q \in S : q # p => w2[q] = w[q],
         Cardinality(w[p]) \in Nat, Cardinality(w2[p]) = Cardinality(w[p]) + 1,
         Cardinality(w[p]) < MAXOPBLOCKS
  PROVE  Cardinality(Reserve(S, w2)) = Cardinality(Reserve(S, w)) - 1
  <1> DEFINE k == Cardinality(w[p]) + 1
  <1>0. MAXOPBLOCKS \in Nat \ {0} /\ k \in 1 .. MAXOPBLOCKS
    BY LogAssumption
  <1>1. <<p, k>> \in Reserve(S, w)
    BY <1>0 DEF Reserve
  <1>2. Reserve(S, w2) = Reserve(S, w) \ {<<p, k>>}
    <2>1. ASSUME NEW q \in S, NEW i \in 1 .. MAXOPBLOCKS
          PROVE  i > Cardinality(w2[q]) <=> i > Cardinality(w[q]) /\ ~(q = p /\ i = k)
      BY <1>0
    <2> QED BY <2>1 DEF Reserve
  <1> HIDE DEF k
  <1>3. IsFiniteSet(Reserve(S, w))
    BY ReserveBound, Zenon
  <1> QED BY <1>1, <1>2, <1>3, FS_RemoveElement, ZenonT(40)

\* The end of an operation that has written fewer than MAXOPBLOCKS blocks gives one back.
LEMMA ReserveEnd ==
  ASSUME NEW S, IsFiniteSet(S), NEW p \in S, NEW w, Cardinality(w[p]) \in Nat,
         Cardinality(w[p]) < MAXOPBLOCKS
  PROVE  Cardinality(Reserve(S \ {p}, w)) < Cardinality(Reserve(S, w))
  <1> DEFINE e == <<p, MAXOPBLOCKS>>
  <1>0. MAXOPBLOCKS \in Nat \ {0}
    BY LogAssumption, Zenon
  <1>1. e \in Reserve(S, w) /\ Reserve(S \ {p}, w) \in SUBSET (Reserve(S, w) \ {e})
    BY <1>0 DEF Reserve
  <1> HIDE DEF e
  <1>2. IsFiniteSet(Reserve(S, w)) /\ Cardinality(Reserve(S, w)) \in Nat
    BY ReserveBound, Zenon
  <1>3. /\ IsFiniteSet(Reserve(S, w) \ {e})
        /\ Cardinality(Reserve(S, w) \ {e}) = Cardinality(Reserve(S, w)) - 1
    BY <1>1, <1>2, FS_RemoveElement, ZenonT(20)
  <1>4. IsFiniteSet(S \ {p})
    BY FS_Subset, Zenon
  <1>5. /\ Cardinality(Reserve(S \ {p}, w)) <= Cardinality(Reserve(S, w) \ {e})
        /\ Cardinality(Reserve(S \ {p}, w)) \in Nat
    BY <1>1, <1>3, <1>4, FS_Subset, ReserveBound, ZenonT(20)
  <1> QED BY <1>2, <1>3, <1>5

\* Each operation in progress has a block left.
LEMMA ReserveLeft ==
  ASSUME NEW S, IsFiniteSet(S), NEW p \in S, NEW w,
         \A q \in S : Cardinality(w[q]) \in Nat /\ Cardinality(w[q]) < MAXOPBLOCKS
  PROVE  /\ Cardinality(Reserve(S, w)) >= 1
         /\ S # {p} => Cardinality(Reserve(S, w)) >= 2
  <1> DEFINE T == S \ {p}
  <1>0. IsFiniteSet(T)
    BY FS_Subset, Zenon
  <1>1. /\ Cardinality(Reserve(T, w)) < Cardinality(Reserve(S, w))
        /\ Cardinality(Reserve(T, w)) \in Nat /\ Cardinality(Reserve(S, w)) \in Nat
    BY <1>0, ReserveEnd, ReserveBound, Zenon
  <1>2. ASSUME S # {p} PROVE Cardinality(Reserve(T, w)) >= 1
    <2> PICK q \in T : TRUE
      BY <1>2, Zenon
    <2>1. /\ Cardinality(Reserve(T \ {q}, w)) < Cardinality(Reserve(T, w))
          /\ Cardinality(Reserve(T \ {q}, w)) \in Nat
      <3>1. IsFiniteSet(T \ {q})
        BY <1>0, FS_Subset
      <3> QED BY <1>0, <3>1, ReserveEnd, ReserveBound, Zenon
    <2> QED BY <1>1, <2>1
  <1> QED BY <1>1, <1>2

\* The operations keep within what begin_op() reserves, one block less, and the log
\* holds what one more than that needs, as in param.h and mkfs.c.
OpsFit == OPBLOCKS < MAXOPBLOCKS /\ MAXOPBLOCKS < LOGSIZE /\ LOGSIZE <= NLOG

\* There is room for all that is reserved.  An operation that is alone in its
\* transaction has room to spare: either it is all its own, or another has ended and
\* left a block.
LogSpace ==
  /\ \A p \in Active : /\ \A b \in wrote[p] : InLog(b)
                       /\ IsFiniteSet(wrote[p] \cup locked[p])
                       /\ Cardinality(wrote[p] \cup locked[p]) <= OPBLOCKS
  /\ Active # {} => Len(lh) + Cardinality(Reserve(Active, wrote)) <= LOGSIZE
  /\ \A p \in Procs : Active = {p} =>
       \/ Len(lh) + Cardinality(Reserve(Active, wrote)) < LOGSIZE
       \/ Len(lh) <= Cardinality(wrote[p])

\* Step a keeps the room and does not panic.
KeepsSpace(a) == OpsFit /\ IInv /\ LogSpace /\ ~panicked /\ a => LogSpace' /\ ~panicked'

\* What an operation has written is finite, and less than what it may.
LEMMA WroteBound ==
  ASSUME OpsFit, LogSpace, NEW p \in Active
  PROVE  /\ IsFiniteSet(wrote[p]) /\ Cardinality(wrote[p]) \in Nat
         /\ Cardinality(wrote[p]) <= OPBLOCKS /\ Cardinality(wrote[p]) < MAXOPBLOCKS
  <1>1. /\ IsFiniteSet(wrote[p] \cup locked[p])
        /\ Cardinality(wrote[p] \cup locked[p]) <= OPBLOCKS
    BY Zenon DEF LogSpace
  <1>2. wrote[p] \in SUBSET (wrote[p] \cup locked[p])
    BY Zenon
  <1>3. /\ IsFiniteSet(wrote[p])
        /\ Cardinality(wrote[p]) <= Cardinality(wrote[p] \cup locked[p])
    BY <1>1, <1>2, FS_Subset, Zenon
  <1>4. Cardinality(wrote[p]) \in Nat /\ Cardinality(wrote[p] \cup locked[p]) \in Nat
    BY <1>1, <1>3, FS_CardinalityType, Zenon
  <1> QED BY <1>1, <1>3, <1>4, LogAssumption DEF OpsFit

\* Steps of commit(), of initlog() and a crash: no operation is in progress.
LEMMA SpaceIdle ==
  ASSUME IInv, \A q \in Procs : pc'[q] # "op"
  PROVE  LogSpace'
  BY Zenon DEF LogSpace, Active

\* Steps of others.
LEMMA SpaceSame == ASSUME LogSpace, UNCHANGED <<pc, lh, wrote, locked>> PROVE LogSpace'
  <1>1. Active' = Active /\ \A b : InLog(b)' <=> InLog(b)
    BY DEF Active, InLog
  <1> QED BY <1>1, Zenon DEF LogSpace

\* An operation starts alone, or with the room for one more.
LEMMA Space_begin_op == \A p \in Procs : KeepsSpace(begin_op(p))
  <1> SUFFICES ASSUME NEW p \in Procs, OpsFit, IInv, LogSpace, ~panicked, begin_op(p)
               PROVE  LogSpace' /\ ~panicked'
    BY Zenon DEF KeepsSpace
  <1>0. /\ pc[p] \in {"idle", "awake"} /\ UNCHANGED <<lh, locked, panicked>>
        /\ TypeOK /\ locked[p] = {}
    BY DEF begin_op, IInv, Control
  <1>1. CASE committing \/ NoSpace
    <2>1. pc' = [pc EXCEPT ![p] = "asleep"] /\ UNCHANGED wrote
      BY <1>1, Zenon DEF begin_op
    <2>2. Active' = Active /\ \A b : InLog(b)' <=> InLog(b)
      BY <1>0, <2>1 DEF Active, TypeOK, InLog
    <2> QED BY <1>0, <2>1, <2>2, Zenon DEF LogSpace
  <1>2. CASE ~(committing \/ NoSpace)
    <2>1. /\ pc' = [pc EXCEPT ![p] = "op"] /\ wrote' = [wrote EXCEPT ![p] = {}]
      BY <1>2, Zenon DEF begin_op
    <2>2. /\ Active' = Active \cup {p} /\ p \notin Active /\ wrote'[p] = {}
          /\ \A q \in Procs : q # p => wrote'[q] = wrote[q]
          /\ \A b : InLog(b)' <=> InLog(b)
      BY <1>0, <2>1 DEF Active, TypeOK, InLog
    <2>3. /\ Cardinality(Active') = outstanding + 1 /\ IsFiniteSet(Active')
      BY <1>0, <2>2, ActiveAdd, ActiveFinite, FS_AddElement, ZenonT(40) DEF Control, IInv
    <2>4. Len(lh') + Cardinality(Reserve(Active', wrote')) <= LOGSIZE
      <3>1. /\ Cardinality(Reserve(Active', wrote')) <= (outstanding + 1) * MAXOPBLOCKS
            /\ Cardinality(Reserve(Active', wrote')) \in Nat
        BY <2>3, ReserveBound, Zenon
      <3>2. ~(Len(lh) + (outstanding + 1) * MAXOPBLOCKS > LOGSIZE)
        BY <1>2, Zenon DEF NoSpace
      <3> DEFINE m == (outstanding + 1) * MAXOPBLOCKS
      <3>3. m \in Nat /\ Len(lh) \in Nat /\ LOGSIZE \in Nat
        BY <1>0, LogAssumption DEF TypeOK
      <3> HIDE DEF m
      <3>4. Cardinality(Reserve(Active', wrote')) <= m /\ ~(Len(lh) + m > LOGSIZE)
        BY <3>1, <3>2, Zenon DEF m
      <3> QED BY <1>0, <3>1, <3>3, <3>4
    <2>5. \A q \in Active' : /\ \A b \in wrote'[q] : InLog(b)'
                             /\ IsFiniteSet(wrote'[q] \cup locked'[q])
                             /\ Cardinality(wrote'[q] \cup locked'[q]) <= OPBLOCKS
      <3>1. IsFiniteSet({} \cup {}) /\ Cardinality({} \cup {}) <= OPBLOCKS
        BY FS_EmptySet, LogAssumption
      <3> QED BY <1>0, <2>2, <3>1, Zenon DEF LogSpace, Active
    <2>6. \A q \in Procs : Active' = {q} =>
            \/ Len(lh') + Cardinality(Reserve(Active', wrote')) < LOGSIZE
            \/ Len(lh') <= Cardinality(wrote'[q])
      <3> SUFFICES ASSUME NEW q \in Procs, Active' = {q} PROVE Len(lh') <= Cardinality(wrote'[q])
        BY Zenon
      <3>1. q = p /\ Active = {}
        BY <2>2, Zenon
      <3>2. lh = <<>>
        <4>1. ~Recovering
          BY <1>0, ZenonT(40) DEF IInv, Control, Recovering, RecoverPC
        <4>2. outstanding = 0 /\ ~committing
          BY <1>2, <3>1, ZenonT(40) DEF IInv, Control
        <4> QED BY <4>1, <4>2, ZenonT(40) DEF IInv, Transaction
      <3>3. Len(lh') = 0
        BY <1>0, <3>2, Zenon
      <3>4. Cardinality(wrote'[q]) = 0
        BY <2>2, <3>1, FS_EmptySet, ZenonT(40)
      <3> QED BY <3>3, <3>4
    <2> QED BY <1>0, <2>4, <2>5, <2>6 DEF LogSpace
  <1> QED BY <1>1, <1>2, Zenon

\* modify() is within OPBLOCKS by its guard.
LEMMA Space_modify == \A p \in Procs, b \in Blocks, d \in Data : KeepsSpace(modify(p, b, d))
  <1> SUFFICES ASSUME NEW p \in Procs, NEW b \in Blocks, NEW d \in Data,
                      OpsFit, IInv, LogSpace, ~panicked, modify(p, b, d)
               PROVE  LogSpace' /\ ~panicked'
    BY Zenon DEF KeepsSpace
  <1>0. /\ UNCHANGED <<lh, pc, wrote, panicked>> /\ TypeOK /\ p \in Active
        /\ locked' = [locked EXCEPT ![p] = @ \cup {b}]
        /\ b \in wrote[p] \/ Cardinality(wrote[p] \cup locked[p]) < OPBLOCKS
    BY Zenon DEF modify, IInv, log, Active
  <1>1. /\ Active' = Active /\ \A c : InLog(c)' <=> InLog(c)
        /\ locked'[p] = locked[p] \cup {b}
        /\ \A q \in Procs : q # p => locked'[q] = locked[q]
    BY <1>0 DEF Active, TypeOK, InLog
  <1> DEFINE W == wrote[p] \cup locked[p]
  <1>2. IsFiniteSet(W) /\ Cardinality(W) <= OPBLOCKS
    BY <1>0, Zenon DEF LogSpace
  <1>3. wrote'[p] \cup locked'[p] = W \cup {b}
    BY <1>0, <1>1, Zenon
  <1>4. IsFiniteSet(W \cup {b}) /\ Cardinality(W \cup {b}) <= OPBLOCKS
    <2>1. CASE b \in W
      <3>1. W \cup {b} = W
        BY <2>1, Zenon
      <3> QED BY <1>2, <3>1, Zenon
    <2>2. CASE b \notin W
      <3>1. Cardinality(W) < OPBLOCKS
        BY <1>0, <2>2, Zenon
      <3> HIDE DEF W
      <3>2. IsFiniteSet(W \cup {b}) /\ Cardinality(W \cup {b}) = Cardinality(W) + 1
        BY <1>2, <2>2, FS_AddElement, ZenonT(40)
      <3>3. Cardinality(W) \in Nat /\ OPBLOCKS \in Nat
        BY <1>2, FS_CardinalityType, LogAssumption
      <3> QED BY <3>1, <3>2, <3>3
    <2> QED BY <2>1, <2>2, Zenon
  <1> HIDE DEF W
  <1>5. \A q \in Active' : /\ \A c \in wrote'[q] : InLog(c)'
                           /\ IsFiniteSet(wrote'[q] \cup locked'[q])
                           /\ Cardinality(wrote'[q] \cup locked'[q]) <= OPBLOCKS
    <2> TAKE q \in Active'
    <2>1. CASE q = p
      BY <1>0, <1>1, <1>3, <1>4, <2>1, Zenon DEF LogSpace
    <2>2. CASE q # p
      BY <1>0, <1>1, <2>2, Zenon DEF LogSpace, Active
    <2> QED BY <2>1, <2>2, Zenon
  <1> QED BY <1>0, <1>1, <1>5 DEF LogSpace

\* log_write() finds room: alone, the operation has fewer than OPBLOCKS blocks or one
\* to spare; with others, each of them holds a block in reserve.
LEMMA NoPanicWrite ==
  ASSUME OpsFit, IInv, LogSpace, NEW p \in Active
  PROVE  ~(Len(lh) >= LOGSIZE \/ Len(lh) >= NLOG - 1 \/ outstanding < 1)
  <1> DEFINE R == Cardinality(Reserve(Active, wrote))
  <1>0. /\ Len(lh) \in Nat /\ outstanding \in Nat /\ outstanding > 0
        /\ p \in Procs /\ IsFiniteSet(Active)
    BY DuringOp, ActiveFinite DEF IInv, TypeOK, Active
  <1>1. \A q \in Active : Cardinality(wrote[q]) \in Nat /\ Cardinality(wrote[q]) < MAXOPBLOCKS
    BY WroteBound, Zenon
  <1>2. R >= 1 /\ (Active # {p} => R >= 2)
    BY <1>0, <1>1, ReserveLeft, Zenon
  <1>3. R \in Nat
    BY <1>0, ReserveBound, Zenon
  <1>4. Cardinality(wrote[p]) \in Nat /\ Cardinality(wrote[p]) <= OPBLOCKS
    BY WroteBound, Zenon
  <1>5. /\ Len(lh) + R <= LOGSIZE
        /\ Active = {p} => Len(lh) + R < LOGSIZE \/ Len(lh) <= Cardinality(wrote[p])
    BY <1>0, Zenon DEF LogSpace
  <1> HIDE DEF R
  <1>6. /\ OPBLOCKS < MAXOPBLOCKS /\ MAXOPBLOCKS < LOGSIZE /\ LOGSIZE <= NLOG
        /\ OPBLOCKS \in Nat /\ MAXOPBLOCKS \in Nat /\ LOGSIZE \in Nat /\ NLOG \in Nat
    BY LogAssumption, Zenon DEF OpsFit
  <1>7. Len(lh) <= LOGSIZE - 2
    BY <1>0, <1>2, <1>3, <1>4, <1>5, <1>6
  <1> QED BY <1>0, <1>6, <1>7

\* log_write() of a block that is not in the log takes one that was reserved.
LEMMA Space_log_write == \A p \in Procs, b \in Blocks : KeepsSpace(log_write(p, b))
  <1> SUFFICES ASSUME NEW p \in Procs, NEW b \in Blocks,
                      OpsFit, IInv, LogSpace, ~panicked, log_write(p, b)
               PROVE  LogSpace' /\ ~panicked'
    BY Zenon DEF KeepsSpace
  <1>0. p \in Active /\ b \in locked[p] /\ TypeOK
    BY Zenon DEF log_write, IInv, Active
  <1>1. ~(Len(lh) >= LOGSIZE \/ Len(lh) >= NLOG - 1 \/ outstanding < 1)
    BY <1>0, NoPanicWrite, ZenonT(40)
  <1>2. /\ lh' = IF InLog(b) THEN lh ELSE Append(lh, b)
        /\ locked' = [locked EXCEPT ![p] = @ \ {b}]
        /\ wrote' = [wrote EXCEPT ![p] = @ \cup {b}]
        /\ UNCHANGED <<pc, panicked>>
    BY <1>1, Zenon DEF log_write
  <1>3. /\ Active' = Active /\ wrote'[p] = wrote[p] \cup {b} /\ locked'[p] = locked[p] \ {b}
        /\ \A q \in Procs : q # p => wrote'[q] = wrote[q] /\ locked'[q] = locked[q]
    BY <1>0, <1>2, Zenon DEF Active, TypeOK
  <1>4. InLog(b)' /\ \A c : InLog(c) => InLog(c)'
    <2>1. CASE InLog(b)
      BY <1>2, <2>1 DEF InLog
    <2>2. CASE ~InLog(b)
      <3>1. /\ Len(lh') = Len(lh) + 1 /\ lh'[Len(lh) + 1] = b /\ Len(lh) \in Nat
            /\ \A i \in 1 .. Len(lh) : lh'[i] = lh[i]
        BY <1>0, <1>2, <2>2 DEF TypeOK
      <3> QED BY <3>1 DEF InLog
    <2> QED BY <2>1, <2>2, Zenon
  <1>5. wrote'[p] \cup locked'[p] = wrote[p] \cup locked[p]
    BY <1>0, <1>3, Zenon
  <1>6. \A q \in Active' : /\ \A c \in wrote'[q] : InLog(c)'
                           /\ IsFiniteSet(wrote'[q] \cup locked'[q])
                           /\ Cardinality(wrote'[q] \cup locked'[q]) <= OPBLOCKS
    <2> TAKE q \in Active'
    <2>0. q \in Active /\ q \in Procs
      BY <1>3, Zenon DEF Active
    <2>1. CASE q = p
      <3>1. \A c \in wrote'[p] : InLog(c)'
        BY <1>0, <1>3, <1>4, Zenon DEF LogSpace
      <3> QED BY <1>0, <1>5, <2>1, <3>1, Zenon DEF LogSpace
    <2>2. CASE q # p
      BY <1>3, <1>4, <2>0, <2>2, ZenonT(40) DEF LogSpace
    <2> QED BY <2>1, <2>2, Zenon
  <1> DEFINE R == Cardinality(Reserve(Active, wrote))
             S == Cardinality(Reserve(Active', wrote'))
  <1>7. /\ Len(lh) \in Nat /\ Len(lh') \in Nat /\ R \in Nat /\ S \in Nat
        /\ IsFiniteSet(wrote[p]) /\ Cardinality(wrote[p]) \in Nat
        /\ Cardinality(wrote[p]) < MAXOPBLOCKS
    <2>1. lh' \in Seq(Blocks)
      BY <1>0, <1>2 DEF TypeOK
    <2>2. IsFiniteSet(Active) /\ IsFiniteSet(Active')
      BY <1>3, ActiveFinite, Zenon
    <2> QED BY <1>0, <2>1, <2>2, ReserveBound, WroteBound, SMTT(40) DEF TypeOK
  \* The log and the reserve change by one block each, or not at all.
  <1>8. /\ Len(lh') + S <= Len(lh) + R
        /\ Len(lh) <= Cardinality(wrote[p]) => Len(lh') <= Cardinality(wrote'[p])
    <2>1. CASE b \in wrote[p]
      <3>1. wrote'[p] = wrote[p] /\ lh' = lh
        BY <1>0, <1>2, <1>3, <2>1, Zenon DEF LogSpace
      <3>2. \A q \in Active : wrote'[q] = wrote[q]
        BY <1>3, <3>1, Zenon DEF Active
      <3>3. Reserve(Active', wrote') = Reserve(Active, wrote)
        BY <1>3, <3>2, ZenonT(40) DEF Reserve
      <3> QED BY <1>7, <3>1, <3>3
    <2>2. CASE b \notin wrote[p]
      <3>1. Cardinality(wrote'[p]) = Cardinality(wrote[p]) + 1
        BY <1>3, <1>7, <2>2, FS_AddElement, ZenonT(40)
      <3>2. \A q \in Active : q # p => wrote'[q] = wrote[q]
        BY <1>3, Zenon DEF Active
      <3>3. S = R - 1
        BY <1>0, <1>3, <1>7, <3>1, <3>2, ReserveUse, ActiveFinite, ZenonT(40)
      <3>4. Len(lh') <= Len(lh) + 1
        BY <1>0, <1>2, <1>7 DEF TypeOK
      <3> HIDE DEF S, R
      <3> QED BY <1>7, <3>1, <3>3, <3>4, SMTT(40)
    <2> QED BY <2>1, <2>2, Zenon
  <1>9. /\ Len(lh) + R <= LOGSIZE
        /\ Active = {p} => Len(lh) + R < LOGSIZE \/ Len(lh) <= Cardinality(wrote[p])
    BY <1>0, Zenon DEF LogSpace
  <1>10. LOGSIZE \in Nat
    BY LogAssumption, ZenonT(40)
  <1> HIDE DEF S, R
  <1>11. /\ Len(lh') + S <= LOGSIZE
         /\ Active = {p} => Len(lh') + S < LOGSIZE \/ Len(lh') <= Cardinality(wrote'[p])
    BY <1>7, <1>8, <1>9, <1>10, SMTT(40)
  <1>12. \A q \in Procs : Active' = {q} =>
           Len(lh') + S < LOGSIZE \/ Len(lh') <= Cardinality(wrote'[q])
    BY <1>0, <1>3, <1>11, ZenonT(40)
  <1> QED BY <1>2, <1>6, <1>11, <1>12, Zenon DEF LogSpace, S

\* end_op() frees the rest of what was reserved, at least one block.
LEMMA Space_end_op == \A p \in Procs : KeepsSpace(end_op(p))
  <1> SUFFICES ASSUME NEW p \in Procs, OpsFit, IInv, LogSpace, ~panicked, end_op(p)
               PROVE  LogSpace' /\ ~panicked'
    BY Zenon DEF KeepsSpace
  <1>0. p \in Active /\ pc[p] = "op" /\ TypeOK /\ UNCHANGED <<lh, locked, wrote>>
    BY Zenon DEF end_op, IInv, Active
  <1>1. ~committing
    BY <1>0, DuringOp, Zenon
  <1>2. UNCHANGED panicked /\ Active' = Active \ {p}
    <2>1. CASE outstanding = 1
      BY <1>0, <1>1, <2>1 DEF end_op, Active, TypeOK
    <2>2. CASE outstanding # 1
      BY <1>0, <1>1, <2>2, ZenonT(40) DEF end_op, Active, TypeOK, wakeup
    <2> QED BY <2>1, <2>2, ZenonT(40)
  <1> DEFINE R == Cardinality(Reserve(Active, wrote))
             S == Cardinality(Reserve(Active', wrote'))
  <1>3. S < R
    <2>1. Cardinality(wrote[p]) \in Nat /\ Cardinality(wrote[p]) < MAXOPBLOCKS
      BY <1>0, WroteBound, Zenon
    <2> QED BY <1>0, <1>2, <2>1, ReserveEnd, ActiveFinite, ZenonT(40)
  <1>4. R \in Nat /\ S \in Nat
    <2>1. IsFiniteSet(Active) /\ IsFiniteSet(Active')
      BY <1>2, ActiveFinite, FS_Subset, ZenonT(40)
    <2> QED BY <2>1, ReserveBound
  <1>5. Len(lh) + R <= LOGSIZE /\ Len(lh) \in Nat /\ LOGSIZE \in Nat
    BY <1>0, LogAssumption DEF LogSpace, TypeOK
  <1>6. \A q \in Active' : /\ \A c \in wrote'[q] : InLog(c)'
                           /\ IsFiniteSet(wrote'[q] \cup locked'[q])
                           /\ Cardinality(wrote'[q] \cup locked'[q]) <= OPBLOCKS
    BY <1>0, <1>2, Zenon DEF LogSpace, InLog
  <1> HIDE DEF R, S
  <1>7. Len(lh') + S < LOGSIZE /\ Len(lh') + S <= LOGSIZE
    BY <1>0, <1>3, <1>4, <1>5, SMTT(40)
  <1> QED BY <1>2, <1>6, <1>7, ZenonT(40) DEF LogSpace, S

\* No operation is in progress while a process commits or recovers, or after a crash.
LEMMA Space_idle == \A p \in Procs : KeepsSpace(Commit(p) \/ recover_from_log(p) \/ Crash)
  <1> SUFFICES ASSUME NEW p \in Procs, OpsFit, IInv, LogSpace, ~panicked,
                      Commit(p) \/ recover_from_log(p) \/ Crash
               PROVE  LogSpace' /\ ~panicked'
    BY Zenon DEF KeepsSpace
  <1>0. TypeOK /\ UNCHANGED panicked
    BY Zenon DEF IInv, Commit, recover_from_log, write_log, write_head, install_trans, erase,
           finish, read_head, rec_install, rec_erase, Crash
  <1>1. \A q \in Procs : pc'[q] # "op"
    <2>1. CASE Commit(p)
      <3>1. pc[p] \in CommitPC
        BY <2>1, Zenon DEF Commit, write_log, write_head, install_trans, erase, finish, CommitPC
      <3>2. \A q \in Procs : pc[q] # "op"
        BY <3>1, DuringCommit, Zenon DEF Active
      <3>3. \E x \in PC \ {"op"} : \/ UNCHANGED pc
                                   \/ pc' = [pc EXCEPT ![p] = x]
                                   \/ pc' = wakeup([pc EXCEPT ![p] = x])
        BY <2>1, Zenon DEF Commit, write_log, write_head, install_trans, erase, finish, Loop, PC,
                    CommitPC, RecoverPC
      <3> QED BY <1>0, <3>2, <3>3, ZenonT(40) DEF TypeOK, wakeup
    <2>2. CASE recover_from_log(p)
      <3>1. pc[p] \in RecoverPC
        BY <2>2, Zenon DEF recover_from_log, read_head, rec_install, rec_erase, RecoverPC
      <3>2. \A q \in Procs : pc[q] # "op"
        BY <3>1, DuringOp, Zenon
      <3>3. \/ \E x \in PC \ {"op"} : UNCHANGED pc \/ pc' = [pc EXCEPT ![p] = x]
            \/ pc' = [q \in Procs |-> "idle"]
        BY <2>2, ZenonT(40) DEF recover_from_log, read_head, rec_install, rec_erase, Loop, PC,
                    CommitPC, RecoverPC
      <3> QED BY <1>0, <3>2, <3>3, ZenonT(40) DEF TypeOK
    <2>3. CASE Crash
      BY <2>3, Zenon DEF Crash, BootPC
    <2> QED BY <2>1, <2>2, <2>3, Zenon
  <1> QED BY <1>0, <1>1, SpaceIdle, Zenon

\* Every step keeps the room in the log.
LEMMA Space_Next == KeepsSpace([Next]_vars)
  <1> SUFFICES ASSUME OpsFit, IInv, LogSpace, ~panicked, [Next]_vars
               PROVE  LogSpace' /\ ~panicked'
    BY Zenon DEF KeepsSpace
  <1>1. CASE UNCHANGED vars \/ \E b \in Blocks : fill(b) \/ recycle(b)
    <2>1. UNCHANGED <<pc, lh, wrote, locked, panicked>>
      BY <1>1, Zenon DEF vars, disk, cache, log, threads, fill, recycle
    <2> QED BY <2>1, SpaceSame, Zenon
  <1>2. ASSUME NEW p \in Procs, Step(p) PROVE LogSpace' /\ ~panicked'
    BY <1>2, Space_begin_op, Space_modify, Space_log_write, Space_end_op, Space_idle, ZenonT(40)
       DEF Step, KeepsSpace
  <1>3. CASE Crash
    BY <1>3, BootProc, Space_idle, Zenon DEF KeepsSpace
  <1> QED BY <1>1, <1>2, <1>3, Zenon DEF Next
-----------------------------------------------------------------------------
(* The results. *)

\* The invariant of the log holds in every reachable state of log.c's model.
THEOREM LogInvariant == Spec => []IInv
  <1>1. Init => IInv
    BY InitInv, Zenon
  <1>2. IInv /\ [Next]_vars => IInv'
    BY Inv_Next, Zenon DEF Preserved
  <1> QED BY <1>1, <1>2, PTL DEF Spec

\* Every variable of log.c's model keeps its type: in particular log.lh.n never
\* exceeds LOGSIZE and no pin count of bunpin() goes below zero.
THEOREM TypeCorrect == Spec => []TypeOK
  <1>1. IInv => TypeOK
    BY Zenon DEF IInv
  <1> QED BY <1>1, LogInvariant, PTL

\* begin_op() never puts a process to sleep that nobody is left to wake.
THEOREM NoLostSleeper == Spec => []SleeperHasWaker
  <1>1. IInv => SleeperHasWaker
    BY Zenon DEF IInv, Control
  <1> QED BY <1>1, LogInvariant, PTL

\* bget() cannot recycle a logged block before install_trans() has written it
\* home, and commit() leaves no block pinned.
THEOREM PinningCorrect == Spec => []PinnedUntilInstalled
  <1>1. IInv => PinnedUntilInstalled
    BY Zenon DEF IInv
  <1> QED BY <1>1, LogInvariant, PTL

\* When the last operation has ended and its commit() is over, all that was
\* written is durable.
THEOREM DurableWhenQuiescent == Spec => []QuiescentDurable
  BY LogInvariant, QuiescentHolds, PTL

\* File system operations are atomic with respect to crashes: the log refines a
\* disk whose durable contents change only by whole groups of finished
\* operations.
THEOREM LogRefinesAtomicDisk == Spec => CrashAtomicity
  <1>1. Init => A!Init
    BY RefineInit, Zenon
  <1>2. IInv /\ [Next]_vars => [A!Next]_A!vars
    BY RefineNext, Zenon
  <1>3. Spec => []IInv
    BY LogInvariant
  <1> QED BY <1>1, <1>2, <1>3, PTL, SMTT(40) DEF Spec, A!Spec, CrashAtomicity

\* No operation finds the log too small: with operations that keep one block below
\* what begin_op() reserves, neither log_write() nor end_op() panics, whatever the
\* number of processes and the interleaving of their operations.
THEOREM LogNeverFull == OpsFit => (Spec => []NoPanic)
  <1> SUFFICES ASSUME OpsFit PROVE Spec => []NoPanic
    BY Zenon
  <1>1. Init => IInv /\ LogSpace /\ ~panicked
    <2>1. Init => LogSpace /\ ~panicked
      BY Zenon DEF Init, LogSpace, Active, BootPC
    <2> QED BY <2>1, InitInv, Zenon
  <1>2. (IInv /\ LogSpace /\ ~panicked) /\ [Next]_vars => (IInv /\ LogSpace /\ ~panicked)'
    BY Inv_Next, Space_Next, Zenon DEF Preserved, KeepsSpace
  <1>3. IInv /\ LogSpace /\ ~panicked => NoPanic
    BY Zenon DEF NoPanic
  <1> QED BY <1>1, <1>2, <1>3, PTL DEF Spec
=============================================================================
