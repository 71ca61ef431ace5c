-------------------------------- MODULE Log --------------------------------
(***************************************************************************)
(* The write-ahead log of kernel/log.c with the part of the buffer cache   *)
(* (kernel/bio.c) it depends on: several file system operations share one  *)
(* transaction, the last one to end commits it, and the machine may crash  *)
(* at any step, also while it recovers.                                    *)
(*                                                                         *)
(* Every write to the disk is a step of its own.  log.lock is never held   *)
(* across one, so each critical section of log.lock is one step.           *)
(***************************************************************************)
EXTENDS Naturals, Sequences, FiniteSets

CONSTANTS Procs,        \* processes that make file system calls
          Boot,         \* the process that runs initlog() (from forkret())
          Blocks,       \* home blocks the operations write
          Data,         \* contents of a block
          Invalid,      \* a block that has no valid buffer
          MAXOPBLOCKS,  \* blocks begin_op() reserves for one operation
          LOGSIZE,      \* capacity of struct logheader
          NLOG,         \* log.size: sb->nlog, header block included
          OPBLOCKS,     \* distinct blocks an operation really writes
          MaxCrashes    \* bound on the number of crashes

ASSUME LogAssumption ==
  /\ IsFiniteSet(Procs) /\ Boot \in Procs
  /\ Data # {} /\ Invalid \notin Data
  /\ MAXOPBLOCKS \in Nat \ {0} /\ LOGSIZE \in Nat /\ MAXOPBLOCKS <= LOGSIZE
  /\ NLOG \in Nat \ {0} /\ OPBLOCKS \in Nat /\ MaxCrashes \in Nat

VARIABLES home,        \* disk: contents of the home blocks
          slot,        \* disk: contents of the log's data blocks
          head,        \* disk: block numbers in the log's header block
          buf,         \* buffer cache: contents, or Invalid
          pin,         \* buffer cache: references taken by bpin()
          lh,          \* log.lh, in memory
          outstanding, \* log.outstanding
          committing,  \* log.committing
          pc, tail,    \* where each process is, and its loop counter
          locked,      \* buffers a process has locked and changed
          wrote,       \* blocks its operation has given to log_write()
          panicked,    \* some process called panic()
          crashes      \* number of crashes so far

disk == <<home, slot, head>>
cache == <<buf, pin>>
log == <<lh, outstanding, committing>>
threads == <<pc, tail, locked, wrote>>
vars == <<disk, cache, log, threads, panicked, crashes>>

Slots == 1 .. LOGSIZE
CommitPC == {"write_log", "write_head", "install", "erase", "finish"}
RecoverPC == {"read_head", "rec_install", "rec_erase"}
PC == {"down", "idle", "asleep", "awake", "op"} \cup CommitPC \cup RecoverPC

\* What bread() returns: the cached contents, else a read of the disk.
bread(b) == IF buf[b] = Invalid THEN home[b] ELSE buf[b]

Unlocked(b) == \A q \in Procs : b \notin locked[q]
InLog(b) == \E i \in 1 .. Len(lh) : lh[i] = b

\* wakeup(&log): every process asleep in begin_op() tries again.
wakeup(pcs) == [q \in Procs |-> IF pcs[q] = "asleep" THEN "awake" ELSE pcs[q]]

\* A machine that has just been switched on, about to run initlog().
BootPC == [p \in Procs |-> IF p = Boot THEN "read_head" ELSE "down"]
NoSets == [p \in Procs |-> {}]
NoBuffers == [b \in Blocks |-> Invalid]
NoPins == [b \in Blocks |-> 0]
LoopStart == [p \in Procs |-> 1]

\* The disk as mkfs leaves it: the log is empty and zeroed.
Init == /\ home \in [Blocks -> Data]
        /\ \E d \in Data : slot = [i \in Slots |-> d]
        /\ head = <<>>
        /\ buf = NoBuffers /\ pin = NoPins
        /\ lh = <<>> /\ outstanding = 0 /\ committing = FALSE
        /\ pc = BootPC /\ tail = LoopStart
        /\ locked = NoSets /\ wrote = NoSets
        /\ panicked = FALSE
        /\ crashes = 0
-----------------------------------------------------------------------------
(* A file system call: begin_op(), changes to buffers, end_op(). *)

\* Mutant: the new operation's own blocks are not counted.
NoSpace_others == Len(lh) + outstanding * MAXOPBLOCKS > LOGSIZE

\* One more operation might exhaust the log.
NoSpace == Len(lh) + (outstanding + 1) * MAXOPBLOCKS > LOGSIZE

\* Mutant: an operation may start while commit() runs.
begin_op_joins(p) ==
  /\ pc[p] \in {"idle", "awake"} /\ ~NoSpace
  /\ outstanding' = outstanding + 1
  /\ pc' = [pc EXCEPT ![p] = "op"]
  /\ wrote' = [wrote EXCEPT ![p] = {}]
  /\ UNCHANGED <<disk, cache, lh, committing, tail, locked, panicked, crashes>>

begin_op(p) ==
  /\ pc[p] \in {"idle", "awake"}
  /\ IF committing \/ NoSpace
     THEN /\ pc' = [pc EXCEPT ![p] = "asleep"]
          /\ UNCHANGED <<outstanding, wrote>>
     ELSE /\ outstanding' = outstanding + 1
          /\ pc' = [pc EXCEPT ![p] = "op"]
          /\ wrote' = [wrote EXCEPT ![p] = {}]
  /\ UNCHANGED <<disk, cache, lh, committing, tail, locked, panicked, crashes>>

\* bp = bread(...); modify bp->data[].  The operation keeps within OPBLOCKS.
modify(p, b, d) ==
  /\ pc[p] = "op"
  /\ Unlocked(b)
  /\ b \in wrote[p] \/ Cardinality(wrote[p] \cup locked[p]) < OPBLOCKS
  /\ locked' = [locked EXCEPT ![p] = @ \cup {b}]
  /\ buf' = [buf EXCEPT ![b] = d]
  /\ UNCHANGED <<disk, pin, log, pc, tail, wrote, panicked, crashes>>

\* Mutant: bpin() on every call, also when the block is absorbed.
log_write_repins(p, b) ==
  /\ pc[p] = "op" /\ b \in locked[p]
  /\ lh' = IF InLog(b) THEN lh ELSE Append(lh, b)
  /\ pin' = [pin EXCEPT ![b] = @ + 1]
  /\ locked' = [locked EXCEPT ![p] = @ \ {b}]
  /\ wrote' = [wrote EXCEPT ![p] = @ \cup {b}]
  /\ UNCHANGED <<disk, buf, outstanding, committing, pc, tail, panicked, crashes>>

\* log_write(bp); brelse(bp).
log_write(p, b) ==
  /\ pc[p] = "op" /\ b \in locked[p]
  /\ IF Len(lh) >= LOGSIZE \/ Len(lh) >= NLOG - 1 \/ outstanding < 1
     THEN /\ panicked' = TRUE
          /\ UNCHANGED <<lh, pin, locked, wrote>>
     ELSE /\ IF InLog(b)
             THEN UNCHANGED <<lh, pin>>
             ELSE /\ lh' = Append(lh, b)
                  /\ pin' = [pin EXCEPT ![b] = @ + 1]
          /\ locked' = [locked EXCEPT ![p] = @ \ {b}]
          /\ wrote' = [wrote EXCEPT ![p] = @ \cup {b}]
          /\ UNCHANGED panicked
  /\ UNCHANGED <<disk, buf, outstanding, committing, pc, tail, crashes>>

\* Mutant: every end_op() commits, the last one or not.
end_op_any(p) ==
  /\ pc[p] = "op" /\ locked[p] = {} /\ ~committing
  /\ outstanding' = outstanding - 1
  /\ committing' = TRUE
  /\ pc' = [pc EXCEPT ![p] = IF lh = <<>> THEN "finish" ELSE "write_log"]
  /\ UNCHANGED <<disk, cache, lh, tail, locked, wrote, panicked, crashes>>

\* Mutant: end_op() leaves the commit to a later operation.
end_op_lazy(p) ==
  /\ pc[p] = "op" /\ locked[p] = {}
  /\ outstanding' = outstanding - 1
  /\ pc' = wakeup([pc EXCEPT ![p] = "idle"])
  /\ UNCHANGED <<disk, cache, lh, committing, tail, locked, wrote, panicked, crashes>>

end_op(p) ==
  /\ pc[p] = "op" /\ locked[p] = {}
  /\ outstanding' = outstanding - 1
  /\ \/ /\ committing
        /\ panicked' = TRUE
        /\ UNCHANGED <<pc, committing>>
     \/ /\ ~committing /\ outstanding = 1
        /\ committing' = TRUE
        /\ pc' = [pc EXCEPT ![p] = IF lh = <<>> THEN "finish" ELSE "write_log"]
        /\ UNCHANGED panicked
     \/ /\ ~committing /\ outstanding # 1
        /\ pc' = wakeup([pc EXCEPT ![p] = "idle"])
        /\ UNCHANGED <<committing, panicked>>
  /\ UNCHANGED <<disk, cache, lh, tail, locked, wrote, crashes>>

\* A read outside any transaction (fileread(), namei()...) fills the cache.
fill(b) == /\ buf[b] = Invalid /\ Unlocked(b)
           /\ pc[Boot] \notin RecoverPC
           /\ buf' = [buf EXCEPT ![b] = home[b]]
           /\ UNCHANGED <<disk, pin, log, threads, panicked, crashes>>

\* bget() takes a buffer whose refcnt is 0 for another block.
recycle(b) == /\ buf[b] # Invalid /\ pin[b] = 0 /\ Unlocked(b)
              /\ buf' = [buf EXCEPT ![b] = Invalid]
              /\ UNCHANGED <<disk, pin, log, threads, panicked, crashes>>
-----------------------------------------------------------------------------
(* commit(), run by the process that ended the last operation. *)

\* The loop over log.lh.block: the next entry, or on to the next phase.
Loop(p, next) ==
  IF tail[p] < Len(lh)
  THEN tail' = [tail EXCEPT ![p] = @ + 1] /\ UNCHANGED pc
  ELSE tail' = [tail EXCEPT ![p] = 1] /\ pc' = [pc EXCEPT ![p] = next]

write_log(p) ==
  /\ pc[p] = "write_log" /\ Unlocked(lh[tail[p]])
  /\ slot' = [slot EXCEPT ![tail[p]] = bread(lh[tail[p]])]
  /\ buf' = [buf EXCEPT ![lh[tail[p]]] = bread(lh[tail[p]])]
  /\ Loop(p, "write_head")
  /\ UNCHANGED <<home, head, pin, log, locked, wrote, panicked, crashes>>

\* The true commit point.
write_head(p) ==
  /\ pc[p] = "write_head"
  /\ head' = lh
  /\ pc' = [pc EXCEPT ![p] = "install"]
  /\ UNCHANGED <<home, slot, cache, log, tail, locked, wrote, panicked, crashes>>

\* One iteration of install_trans(): log block to buffer to home block.
Install(p) == LET b == lh[tail[p]] IN
  /\ Unlocked(b)
  /\ home' = [home EXCEPT ![b] = slot[tail[p]]]
  /\ buf' = [buf EXCEPT ![b] = slot[tail[p]]]

install_trans(p) ==
  /\ pc[p] = "install"
  /\ Install(p)
  /\ pin' = [pin EXCEPT ![lh[tail[p]]] = @ - 1]
  /\ Loop(p, "erase")
  /\ UNCHANGED <<slot, head, log, locked, wrote, panicked, crashes>>

\* log.lh.n = 0; write_head().
erase(p) ==
  /\ pc[p] = "erase"
  /\ lh' = <<>> /\ head' = <<>>
  /\ pc' = [pc EXCEPT ![p] = "finish"]
  /\ UNCHANGED <<home, slot, cache, outstanding, committing, tail, locked, wrote,
                 panicked, crashes>>

\* Mutant: no wakeup(&log) after the commit.
finish_silent(p) ==
  /\ pc[p] = "finish"
  /\ committing' = FALSE
  /\ pc' = [pc EXCEPT ![p] = "idle"]
  /\ UNCHANGED <<disk, cache, lh, outstanding, tail, locked, wrote, panicked, crashes>>

finish(p) ==
  /\ pc[p] = "finish"
  /\ committing' = FALSE
  /\ pc' = wakeup([pc EXCEPT ![p] = "idle"])
  /\ UNCHANGED <<disk, cache, lh, outstanding, tail, locked, wrote, panicked, crashes>>

Commit(p) == \/ write_log(p) \/ write_head(p) \/ install_trans(p)
             \/ erase(p) \/ finish(p)
-----------------------------------------------------------------------------
(* initlog() at boot, before any other process runs. *)

read_head(p) ==
  /\ pc[p] = "read_head"
  /\ lh' = head
  /\ pc' = [pc EXCEPT ![p] = IF head = <<>> THEN "rec_erase" ELSE "rec_install"]
  /\ UNCHANGED <<disk, cache, outstanding, committing, tail, locked, wrote,
                 panicked, crashes>>

rec_install(p) ==
  /\ pc[p] = "rec_install"
  /\ Install(p)
  /\ Loop(p, "rec_erase")
  /\ UNCHANGED <<slot, head, pin, log, locked, wrote, panicked, crashes>>

rec_erase(p) ==
  /\ pc[p] = "rec_erase"
  /\ lh' = <<>> /\ head' = <<>>
  /\ pc' = [q \in Procs |-> "idle"]
  /\ UNCHANGED <<home, slot, cache, outstanding, committing, tail, locked, wrote,
                 panicked, crashes>>

recover_from_log(p) == read_head(p) \/ rec_install(p) \/ rec_erase(p)

\* The machine stops.  A data block that is being written may be left with any
\* contents; the header block is within one sector and is written or not.
Crash ==
  /\ crashes < MaxCrashes
  /\ crashes' = crashes + 1
  /\ buf' = NoBuffers /\ pin' = NoPins
  /\ lh' = <<>> /\ outstanding' = 0 /\ committing' = FALSE
  /\ pc' = BootPC /\ tail' = LoopStart
  /\ locked' = NoSets /\ wrote' = NoSets
  /\ \/ UNCHANGED <<home, slot>>
     \/ \E p \in Procs, d \in Data :
          /\ pc[p] = "write_log"
          /\ slot' = [slot EXCEPT ![tail[p]] = d]
          /\ UNCHANGED home
     \/ \E p \in Procs, d \in Data :
          /\ pc[p] \in {"install", "rec_install"}
          /\ home' = [home EXCEPT ![lh[tail[p]]] = d]
          /\ UNCHANGED slot
  /\ UNCHANGED <<head, panicked>>

Step(p) == \/ begin_op(p) \/ end_op(p) \/ Commit(p) \/ recover_from_log(p)
           \/ \E b \in Blocks : log_write(p, b)
           \/ \E b \in Blocks, d \in Data : modify(p, b, d)

Next == /\ ~panicked
        /\ \/ \E p \in Procs : Step(p)
           \/ \E b \in Blocks : fill(b) \/ recycle(b)
           \/ Crash

Spec == Init /\ [][Next]_vars
-----------------------------------------------------------------------------
TypeOK ==
  /\ home \in [Blocks -> Data] /\ slot \in [Slots -> Data]
  /\ head \in Seq(Blocks) /\ Len(head) <= LOGSIZE
  /\ buf \in [Blocks -> Data \cup {Invalid}]
  /\ pin \in [Blocks -> Nat]
  /\ lh \in Seq(Blocks) /\ Len(lh) <= LOGSIZE
  /\ outstanding \in Nat /\ committing \in BOOLEAN
  /\ pc \in [Procs -> PC] /\ tail \in [Procs -> Nat \ {0}]
  /\ locked \in [Procs -> SUBSET Blocks] /\ wrote \in [Procs -> SUBSET Blocks]
  /\ panicked \in BOOLEAN /\ crashes \in 0 .. MaxCrashes
\* The blocks hm with the transaction named by header hd laid over them.
Overlay(hd, sl, hm) == [b \in Blocks |->
  IF \E i \in 1 .. Len(hd) : hd[i] = b
  THEN sl[CHOOSE i \in 1 .. Len(hd) : hd[i] = b]
  ELSE hm[b]]

\* What a crash at this moment would leave after recovery.
Committed == Overlay(head, slot, home)

Recovering == pc[Boot] \in RecoverPC
View == IF Recovering THEN Committed ELSE [b \in Blocks |-> bread(b)]
Active == {p \in Procs : pc[p] = "op"}

\* The log makes file system operations atomic with respect to crashes: the
\* blocks that survive are those of some moment at which no operation was
\* between begin_op() and end_op(), whatever the interleaving of the operations
\* and wherever in commit() or recover_from_log() the machine stops.
A == INSTANCE AtomicDisk WITH durable <- Committed, view <- View, active <- Active
CrashAtomicity == A!Spec

\* When no operation is in progress and commit() is over, everything that was
\* written is on the disk: the end_op() that brought log.outstanding to 0 does
\* not return before that.
QuiescentDurable ==
  (outstanding = 0 /\ ~committing /\ ~Recovering) => Committed = View

\* As long as operations write fewer than MAXOPBLOCKS blocks, log_write() never
\* finds the log full ("too big a transaction"), because begin_op() reserved the
\* space, and end_op() never meets a commit that has begun ("log.committing").
NoPanic == ~panicked

\* The space that begin_op() reserves is enough for an operation that writes
\* MAXOPBLOCKS blocks, the "max # of blocks any FS op writes" of param.h: its
\* log_write() does not find the log full.
ReservationSuffices == ~panicked

\* A process asleep in begin_op() has someone left to wake it: an operation
\* whose end_op() calls wakeup() or a commit that will.
SleeperHasWaker ==
  (\E p \in Procs : pc[p] = "asleep") => outstanding > 0 \/ committing

\* install_trans() has written entry i of the transaction to its home block.
Installed(i) == \E p \in Procs : \/ pc[p] = "erase"
                                 \/ pc[p] = "install" /\ i < tail[p]

\* Until install_trans() has written it home, a block of the transaction is
\* pinned exactly once, however many operations wrote it, so that bget() cannot
\* recycle the only copy; no other block stays pinned.
PinnedUntilInstalled ==
  ~Recovering => \A b \in Blocks :
    pin[b] = IF \E i \in 1 .. Len(lh) : lh[i] = b /\ ~Installed(i) THEN 1 ELSE 0
-----------------------------------------------------------------------------
(* The inductive invariant: who may be where, and where each copy of a block *)
(* agrees with another.                                                      *)

Distinct(s) == \A i, j \in 1 .. Len(s) : s[i] = s[j] => i = j

Control ==
  /\ outstanding = Cardinality(Active) /\ (outstanding = 0 <=> Active = {})
  /\ committing <=> \E p \in Procs : pc[p] \in CommitPC
  /\ committing => outstanding = 0
  /\ \A p, q \in Procs : pc[p] \in CommitPC /\ pc[q] \in CommitPC => p = q
  /\ \A p \in Procs : /\ pc[p] \in RecoverPC => p = Boot
                      /\ pc[p] = "down" => Recovering
                      /\ Recovering /\ p # Boot => pc[p] = "down"
                      /\ locked[p] # {} => pc[p] = "op"
  /\ SleeperHasWaker

Transaction ==
  /\ Distinct(lh) /\ Distinct(head)
  /\ outstanding = 0 /\ ~committing /\ ~Recovering => lh = <<>>
  /\ \A p \in Procs :
       /\ IF pc[p] \in {"write_log", "install", "rec_install"}
          THEN tail[p] <= Len(lh) ELSE tail[p] = 1
       /\ pc[p] \in CommitPC \ {"finish"} => lh # <<>>
       /\ pc[p] \in {"install", "erase", "rec_install", "rec_erase"} => head = lh
       /\ pc[p] = "finish" => lh = <<>>
  /\ head # <<>> => Recovering \/ \E p \in Procs : pc[p] \in {"install", "erase"}

Copies ==
  /\ \A b \in Blocks :
       buf[b] # Invalid /\ ~InLog(b) /\ Unlocked(b) => buf[b] = home[b]
  /\ \A p \in Procs : \A b \in locked[p] : buf[b] # Invalid
  /\ Recovering => \A b \in Blocks : /\ buf[b] # Invalid => buf[b] = home[b]
                                     /\ pin[b] = 0
  /\ ~Recovering => \A i \in 1 .. Len(lh) : ~Installed(i) => buf[lh[i]] # Invalid
  /\ \A p \in Procs, i \in 1 .. Len(lh) :
       /\ pc[p] = "write_log" /\ i < tail[p] => slot[i] = bread(lh[i])
       /\ pc[p] \in {"write_head", "install", "erase"} => slot[i] = bread(lh[i])
       /\ \/ pc[p] \in {"install", "rec_install"} /\ i < tail[p]
          \/ pc[p] \in {"erase", "rec_erase"}
          => slot[i] = home[lh[i]]

IInv == TypeOK /\ Control /\ Transaction /\ Copies /\ PinnedUntilInstalled
=============================================================================
