------------------------------ MODULE Content ------------------------------
(***************************************************************************)
(* What files contain: block allocation, the block map of an inode, readi() *)
(* and writei() of kernel/fs.c, and the splitting of writes into            *)
(* transactions by filewrite() of kernel/file.c.                            *)
(*                                                                          *)
(* A block is BSIZE cells; a cell holds a byte, or a block number in an     *)
(* indirect block, so NINDIRECT = BSIZE.  Bitmap and inodes are not given   *)
(* blocks of their own, except where blocks are counted.  The log is taken  *)
(* by what Log shows of it: the last end_op() makes the logged blocks       *)
(* durable with the contents they have in the cache.  A step is one round   *)
(* of the loops of readi() and writei().                                    *)
(***************************************************************************)
EXTENDS Integers, Sequences, FiniteSets, FiniteSetsExt

CONSTANTS Writers,    \* processes
          Inodes,
          NBLOCK,     \* data blocks on the disk
          BSIZE, NDIRECT, MAXOPBLOCKS,
          Sizes,      \* lengths of reads and writes
          Filled,     \* lengths that file 1 may have at the start
          MaxIO, MaxPowerFails  \* bounds

ASSUME ContentAssumption ==
  /\ {NBLOCK, BSIZE, NDIRECT, MAXOPBLOCKS} \cup Sizes \subseteq Nat \ {0}
  /\ MAXOPBLOCKS >= 6 /\ MaxIO \in Nat /\ MaxPowerFails \in Nat

VARIABLES bm,       \* free data blocks
          blk,      \* the blocks, as the buffer cache has them
          ip,       \* inodes in memory: addrs, size
          dip,      \* inodes in their blocks
          off,      \* f->off of the one open file of each inode
          holder,   \* of an inode's sleep lock
          io,       \* per process: the call in progress
          txn,      \* the transaction: operations in it, blocks logged
          store,    \* the disk
          written,  \* per inode and position: the bytes that may be found there
          iocalls, powerfails

cvars == <<bm, blk, ip, dip, off, holder, io, txn, store, written, iocalls, powerfails>>

Blocks == 1 .. NBLOCK
MAXFILE == NDIRECT + BSIZE
Positions == 0 .. MAXFILE * BSIZE - 1
Zero == [k \in 0 .. BSIZE - 1 |-> 0]
NoInode == [addrs |-> [k \in 0 .. NDIRECT |-> 0], size |-> 0]
NoIO == [pc |-> "idle", i |-> 0, f |-> 0, n |-> 0, n1 |-> 0, tot |-> 0, mark |-> 0, logged |-> {}]
NoTxn == [ops |-> 0, dirty |-> {}]
Free == 0    \* no holder
Bitmap == 0  \* the bitmap block, where blocks are counted

\* A file of n bytes on a fresh disk, as bmap() lays it out: its block bn, its inode, the
\* contents of block b.
Nth(bn) == IF bn < NDIRECT THEN bn + 1 ELSE bn + 2
Laid(n) == {bn \in 0 .. MAXFILE - 1 : bn * BSIZE < n}
FirstInode(n) ==
  [addrs |-> [k \in 0 .. NDIRECT |-> IF k \in Laid(n) THEN k + 1 ELSE 0], size |-> n]
FirstBlock(n, b) == [k \in 0 .. BSIZE - 1 |->
  CASE b = NDIRECT + 1 /\ NDIRECT + k \in Laid(n) -> Nth(NDIRECT + k)
    [] \E bn \in Laid(n) : Nth(bn) = b /\ bn * BSIZE + k < n -> MaxIO + 1
    [] OTHER -> 0]

CInit ==
  /\ \E n \in Filled :
       /\ bm = {b \in Blocks : FirstBlock(n, b) = Zero} /\ blk = [b \in Blocks |-> FirstBlock(n, b)]
       /\ ip = [f \in Inodes |-> IF f = 1 THEN FirstInode(n) ELSE NoInode] /\ dip = ip
       /\ written = [f \in Inodes |-> [k \in Positions |->
                      IF f = 1 /\ k < n THEN {MaxIO + 1} ELSE {}]]
  /\ off = [f \in Inodes |-> 0] /\ holder = [f \in Inodes |-> Free]
  /\ io = [p \in Writers |-> NoIO] /\ txn = NoTxn
  /\ store = [bm |-> bm, blk |-> blk, dip |-> dip, written |-> written]
  /\ iocalls = MaxIO /\ powerfails = 0
-----------------------------------------------------------------------------
(* Blocks.  s is [bm, blk, ip (of one inode), addr, logged] *)

\* balloc(): the first free block, zeroed; 0 if there is none.
balloc(s) == IF s.bm = {} THEN [s EXCEPT !.addr = 0]
             ELSE LET b == Min(s.bm) IN
                  [s EXCEPT !.bm = @ \ {b}, !.blk[b] = Zero, !.addr = b,
                            !.logged = @ \cup {b, Bitmap}]

\* bmap(): the block of the inode's bn'th block, allocated if there is none.
bmap(s, bn) ==
  LET d == balloc(s)
      t == IF s.ip.addrs[NDIRECT] = 0
           THEN LET u == balloc(s) IN [u EXCEPT !.ip.addrs[NDIRECT] = u.addr]
           ELSE [s EXCEPT !.addr = s.ip.addrs[NDIRECT]]
      a == t.addr
      v == balloc(t)
      i == bn - NDIRECT
  IN CASE bn < NDIRECT /\ s.ip.addrs[bn] # 0 -> [s EXCEPT !.addr = s.ip.addrs[bn]]
       [] bn < NDIRECT /\ s.ip.addrs[bn] = 0 -> [d EXCEPT !.ip.addrs[bn] = d.addr]
       [] bn >= NDIRECT /\ a = 0 -> t
       [] bn >= NDIRECT /\ a # 0 /\ t.blk[a][i] # 0 -> [t EXCEPT !.addr = t.blk[a][i]]
       [] OTHER -> IF v.addr = 0 THEN v
                   ELSE [v EXCEPT !.blk[a][i] = v.addr, !.logged = @ \cup {a}]

Map(p) == LET c == io[p] IN
  bmap([bm |-> bm, blk |-> blk, ip |-> ip[c.f], addr |-> 0, logged |-> {}],
       (off[c.f] + c.tot) \div BSIZE)

\* All blocks of an inode n whose blocks have the contents bs.
BlocksOf(n, bs) == LET d == {n.addrs[k] : k \in 0 .. NDIRECT}
                       x == n.addrs[NDIRECT]
                   IN (d \cup (IF x = 0 THEN {} ELSE {bs[x][k] : k \in 0 .. BSIZE - 1})) \ {0}
-----------------------------------------------------------------------------
(* The calls *)

Begin(p, c) == /\ io[p].pc = "idle" /\ iocalls > 0 /\ iocalls' = iocalls - 1
               /\ io' = [io EXCEPT ![p] = c]
               /\ UNCHANGED <<bm, blk, ip, dip, off, holder, txn, store, written, powerfails>>

fileread(p, f, n) == Begin(p, [NoIO EXCEPT !.pc = "read", !.f = f, !.n = n])
\* Every write writes bytes of its own.
filewrite(p, f, n) == Begin(p, [NoIO EXCEPT !.pc = "chunk", !.f = f, !.n = n, !.mark = iocalls])
open_trunc(p, f) == Begin(p, [NoIO EXCEPT !.pc = "trunc", !.f = f])

Move(p, c) == io' = [io EXCEPT ![p] = c]

\* Mutant: log_write() does not count a new block, and the next one takes its slot.
Add_uncounted(p, logged) == txn' = [txn EXCEPT !.dirty = logged \cap Blocks]

\* log_write() of the blocks.
Add(p, logged) == txn' = [txn EXCEPT !.dirty = @ \cup (logged \cap Blocks)]
NoPower == UNCHANGED <<store, written, iocalls, powerfails>>

\* end_op(): the last operation commits.
Committed(t, inodes, w) ==
  IF t.ops > 1
  THEN txn' = [t EXCEPT !.ops = @ - 1] /\ UNCHANGED store
  ELSE /\ txn' = NoTxn
       /\ store' = [bm |-> bm', dip |-> inodes, written |-> w,
                    blk |-> [b \in Blocks |-> IF b \in t.dirty THEN blk[b] ELSE store.blk[b]]]

\* readi(): from f->off up to the size, one block per step; it has no transaction.
readi_start(p) == LET c == io[p]  left == ip[c.f].size - off[c.f] IN
  /\ c.pc = "read" /\ holder[c.f] = Free
  /\ holder' = [holder EXCEPT ![c.f] = p]
  /\ Move(p, [c EXCEPT !.pc = "readi", !.n1 = IF left < 0 THEN 0 ELSE Min({c.n, left})])
  /\ UNCHANGED <<bm, blk, ip, dip, off, txn>> /\ NoPower

\* What one round reads or writes.
Round(p) == Min({io[p].n1 - io[p].tot, BSIZE - ((off[io[p].f] + io[p].tot) % BSIZE)})

\* The copyout() may fail: then f->off stays.
readi(p) == LET c == io[p]  s == Map(p) IN
  /\ c.pc = "readi"
  /\ \/ /\ c.tot < c.n1
        /\ bm' = s.bm /\ blk' = s.blk /\ ip' = [ip EXCEPT ![c.f] = s.ip]
        /\ Move(p, IF s.addr = 0 THEN [c EXCEPT !.n1 = c.tot] ELSE [c EXCEPT !.tot = @ + Round(p)])
        /\ UNCHANGED <<off, holder>>
     \/ /\ off' = [off EXCEPT ![c.f] = IF c.tot = c.n1 THEN @ + c.tot ELSE @]
        /\ holder' = [holder EXCEPT ![c.f] = Free] /\ Move(p, NoIO)
        /\ UNCHANGED <<bm, blk, ip>>
  /\ UNCHANGED <<dip, txn>> /\ NoPower

\* Mutant: a write is not split.
ChunkMax_all == MAXFILE * BSIZE

\* filewrite(): what one transaction may write.
ChunkMax == ((MAXOPBLOCKS - 1 - 1 - 2) \div 2) * BSIZE

\* begin_op(), ilock(), and writei()'s checks; n1 = 0 stands for its failure.
write_start(p) ==
  LET c == io[p]
      n1 == Min({c.n - c.i, ChunkMax})
  IN /\ c.pc = "chunk" /\ c.i < c.n /\ holder[c.f] = Free
     /\ holder' = [holder EXCEPT ![c.f] = p]
     /\ txn' = [txn EXCEPT !.ops = @ + 1]
     /\ Move(p, [c EXCEPT !.pc = "writei", !.tot = 0, !.logged = {},
          !.n1 = IF off[c.f] > ip[c.f].size \/ off[c.f] + n1 > MAXFILE * BSIZE THEN 0 ELSE n1])
     /\ UNCHANGED <<bm, blk, ip, dip, off>> /\ NoPower

\* A block: bmap() fails, or copyin() gives all cells, or it fails after k of them and
\* the block is left in the cache without log_write().
writei(p) ==
  LET c == io[p]
      s == Map(p)
      o == off[c.f] + c.tot
      at(k) == (o % BSIZE) .. (o % BSIZE) + k - 1
      new(k) == [s.blk EXCEPT ![s.addr] = [j \in 0 .. BSIZE - 1 |-> IF j \in at(k) THEN c.mark ELSE @[j]]]
      may(k) == [written EXCEPT ![c.f] = [j \in Positions |->
                   IF j \in o .. o + k - 1 THEN @[j] \cup {c.mark} ELSE @[j]]]
  IN /\ c.pc = "writei" /\ c.tot < c.n1
     /\ bm' = s.bm /\ ip' = [ip EXCEPT ![c.f] = s.ip]
     /\ \/ /\ s.addr = 0
           /\ blk' = s.blk /\ Add(p, s.logged)
           /\ Move(p, [c EXCEPT !.pc = "writei_end", !.logged = @ \cup s.logged])
           /\ UNCHANGED written
        \/ /\ s.addr # 0
           /\ blk' = new(Round(p)) /\ Add(p, s.logged \cup {s.addr})
           /\ Move(p, [c EXCEPT !.tot = @ + Round(p), !.logged = @ \cup s.logged \cup {s.addr}])
           /\ written' = may(Round(p))
        \/ /\ s.addr # 0
           /\ \E k \in 0 .. Round(p) - 1 : blk' = new(k) /\ written' = may(k)
           /\ Add(p, s.logged)
           /\ Move(p, [c EXCEPT !.pc = "writei_end", !.logged = @ \cup s.logged])
     /\ UNCHANGED <<dip, off, holder, store, iocalls, powerfails>>

\* Mutant: the inode is written back only if the file has grown.
writei_end_lazy(p) ==
  LET c == io[p]
      end == off[c.f] + c.tot
      new == IF c.n1 = 0 THEN ip[c.f] ELSE [ip[c.f] EXCEPT !.size = Max({@, end})]
  IN /\ c.pc \in {"writei", "writei_end"} /\ (c.pc = "writei" => c.tot = c.n1)
     /\ ip' = [ip EXCEPT ![c.f] = new]
     /\ dip' = IF end > ip[c.f].size THEN [dip EXCEPT ![c.f] = new] ELSE dip
     /\ off' = [off EXCEPT ![c.f] = end]
     /\ holder' = [holder EXCEPT ![c.f] = Free]
     /\ UNCHANGED <<bm, blk, written, iocalls, powerfails>>
     /\ Committed(txn, dip', written)
     /\ Move(p, IF c.tot = c.n1 /\ c.n1 > 0 /\ c.i + c.tot < c.n
                THEN [c EXCEPT !.pc = "chunk", !.i = @ + c.tot] ELSE NoIO)

\* The end of writei(), iupdate(), iunlock() and end_op(); the loop of filewrite().
\* Bytes that were acknowledged are the only ones left to be found.
writei_end(p) ==
  LET c == io[p]
      end == off[c.f] + c.tot
      new == IF c.n1 = 0 THEN ip[c.f] ELSE [ip[c.f] EXCEPT !.size = Max({@, end})]
      w == [written EXCEPT ![c.f] = [j \in Positions |->
              IF j \in off[c.f] .. end - 1 THEN {c.mark} ELSE @[j]]]
  IN /\ c.pc \in {"writei", "writei_end"} /\ (c.pc = "writei" => c.tot = c.n1)
     /\ ip' = [ip EXCEPT ![c.f] = new]
     /\ dip' = [dip EXCEPT ![c.f] = IF c.n1 = 0 THEN @ ELSE new]
     /\ off' = [off EXCEPT ![c.f] = end]
     /\ holder' = [holder EXCEPT ![c.f] = Free]
     /\ written' = w
     /\ UNCHANGED <<bm, blk, iocalls, powerfails>>
     /\ Committed(txn, dip', w)
     /\ Move(p, IF c.tot = c.n1 /\ c.n1 > 0 /\ c.i + c.tot < c.n
                THEN [c EXCEPT !.pc = "chunk", !.i = @ + c.tot] ELSE NoIO)

\* bfree() of every block of a set: its bit in the free map.
bfree(free, blocks) == free \cup blocks

\* sys_open() with O_TRUNC, in a transaction of its own: bfree() of all blocks.  The new
\* file takes the place of the old one, or is closed again and the old f->off stays.
trunc(p) == LET c == io[p] IN
  /\ c.pc = "trunc" /\ holder[c.f] = Free
  /\ bm' = bfree(bm, BlocksOf(ip[c.f], blk))
  /\ ip' = [ip EXCEPT ![c.f] = NoInode] /\ dip' = [dip EXCEPT ![c.f] = NoInode]
  /\ off' \in {off, [off EXCEPT ![c.f] = 0]}
  /\ written' = [written EXCEPT ![c.f] = [j \in Positions |-> {}]]
  /\ Committed([txn EXCEPT !.ops = @ + 1], dip', written')
  /\ Move(p, NoIO)
  /\ UNCHANGED <<blk, holder, iocalls, powerfails>>

\* sys_open() without O_TRUNC: a new file takes the place of the old one.
reopen(p, f) ==
  /\ io[p].pc = "idle" /\ iocalls > 0 /\ off[f] > 0 /\ holder[f] = Free
  /\ off' = [off EXCEPT ![f] = 0]
  /\ UNCHANGED <<bm, blk, ip, dip, holder, io, txn>> /\ NoPower

\* bget() recycles a buffer that is not pinned by the log.
evict(b) ==
  /\ b \notin txn.dirty /\ blk[b] # store.blk[b]
  /\ blk' = [blk EXCEPT ![b] = store.blk[b]]
  /\ UNCHANGED <<bm, ip, dip, off, holder, io, txn, store, written, iocalls, powerfails>>

\* Power is lost and comes back; the files are opened again.
power_fail ==
  /\ powerfails < MaxPowerFails /\ powerfails' = powerfails + 1
  /\ bm' = store.bm /\ blk' = store.blk /\ ip' = store.dip /\ dip' = store.dip
  /\ written' = store.written
  /\ off' = [f \in Inodes |-> 0] /\ holder' = [f \in Inodes |-> Free]
  /\ io' = [p \in Writers |-> NoIO] /\ txn' = NoTxn
  /\ UNCHANGED <<store, iocalls>>

CDone == iocalls = 0 /\ (\A p \in Writers : io[p].pc = "idle") /\ UNCHANGED cvars

CNext ==
  \/ \E p \in Writers :
       \/ readi_start(p) \/ readi(p) \/ write_start(p) \/ writei(p) \/ writei_end(p) \/ trunc(p)
       \/ \E f \in Inodes : \/ open_trunc(p, f)
                            \/ reopen(p, f)
                            \/ \E n \in Sizes : fileread(p, f, n) \/ filewrite(p, f, n)
  \/ \E b \in Blocks : evict(b)
  \/ power_fail \/ CDone

CSpec == CInit /\ [][CNext]_cvars
-----------------------------------------------------------------------------
(* Properties *)

CTypeOK ==
  /\ bm \subseteq Blocks /\ \A b \in Blocks : blk[b] \in [0 .. BSIZE - 1 -> Nat]
  /\ \A f \in Inodes : \A n \in {ip[f], dip[f]} :
       n.addrs \in [0 .. NDIRECT -> 0 .. NBLOCK] /\ n.size \in 0 .. MAXFILE * BSIZE
  /\ off \in [Inodes -> Nat] /\ holder \in [Inodes -> Writers \cup {Free}] /\ txn.ops \in Nat

\* The number of references to block b, the free map included.
Claims(b, free, inodes, bs) ==
  (IF b \in free THEN 1 ELSE 0) + MapThenSumSet(LAMBDA f :
    LET a == inodes[f].addrs IN
      Cardinality({k \in 0 .. NDIRECT : a[k] = b})
    + (IF a[NDIRECT] = 0 THEN 0 ELSE Cardinality({k \in 0 .. BSIZE - 1 : bs[a[NDIRECT]][k] = b})),
    Inodes)

\* Every block is free or belongs to one file, once: in memory at every step, and on the
\* disk after a crash.  Below its size a file has no holes, so that bmap() allocates
\* nothing for readi(), which runs outside of transactions.
BlocksOwned ==
  /\ \A b \in Blocks : Claims(b, bm, ip, blk) = 1 /\ Claims(b, store.bm, store.dip, store.blk) = 1
  /\ \A f \in Inodes : \A bn \in 0 .. MAXFILE - 1 : bn * BSIZE < ip[f].size =>
       IF bn < NDIRECT THEN ip[f].addrs[bn] # 0
       ELSE ip[f].addrs[NDIRECT] # 0 /\ blk[ip[f].addrs[NDIRECT]][bn - NDIRECT] # 0

\* The cell of inode n at position k.
Cell(n, bs, k) == LET bn == k \div BSIZE
                      b == IF bn < NDIRECT THEN n.addrs[bn] ELSE bs[n.addrs[NDIRECT]][bn - NDIRECT]
                  IN bs[b][k % BSIZE]

\* A file reads as what was written: at each position the byte of the last write that
\* was acknowledged, or one of a later write that failed there; a crash goes back to the
\* last commit and to nothing older or mixed.
ContentMatches == \A f \in Inodes :
  /\ \A k \in 0 .. ip[f].size - 1 : Cell(ip[f], blk, k) \in written[f][k]
  /\ \A k \in 0 .. store.dip[f].size - 1 : Cell(store.dip[f], store.blk, k) \in store.written[f][k]

\* filewrite(), "to avoid exceeding the maximum log transaction size": one chunk logs no
\* more blocks than begin_op() reserves, the inode and one bitmap block included.
ChunkFits == \A p \in Writers : Cardinality(io[p].logged) + 1 <= MAXOPBLOCKS
=============================================================================
