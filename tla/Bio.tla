-------------------------------- MODULE Bio --------------------------------
(***************************************************************************)
(* The buffer cache, kernel/bio.c, with the sleep locks of its buffers,     *)
(* kernel/sleeplock.c.  What its callers do with a buffer is modelled as    *)
(* log.c does it: a buffer that was changed is pinned by log_write() before *)
(* it is released, and unpinned once commit() has written it.  bget() and   *)
(* brelse() work under bcache.lock, so their scans are single steps; the    *)
(* sleep lock and the disk come between them.                               *)
(***************************************************************************)
EXTENDS Integers, Sequences, FiniteSets
LOCAL INSTANCE SequencesExt

CONSTANTS Users,     \* processes
          BlockNos,
          NBUF,
          MaxValue   \* bound: how often blocks are changed

ASSUME BioAssumption == NBUF \in Nat \ {0} /\ MaxValue \in Nat

VARIABLES buf,      \* bcache.buf
          lru,      \* the list from bcache.head.next on
          usr,      \* per process: pc, the block it wants, its buffer
          platter,  \* the disk
          latest,   \* the last contents given to each block
          nobufs    \* bget() has panicked

bvars == <<buf, lru, usr, platter, latest, nobufs>>

NBlock == "none"     \* dev 0, which no caller asks for
Nothing == "nobody"
Bufs == 1 .. NBUF
Away == [pc |-> "away", block |-> NBlock, b |-> 1]

\* binit()
binit == /\ buf = [b \in Bufs |-> [blockno |-> NBlock, valid |-> FALSE, refcnt |-> 0,
                                   lock |-> Nothing, data |-> 0, pinned |-> FALSE]]
         /\ lru = [k \in Bufs |-> NBUF + 1 - k]

BInit == /\ binit /\ usr = [p \in Users |-> Away] /\ nobufs = FALSE
         /\ platter = [n \in BlockNos |-> 0] /\ latest = platter

Using(p, pc) == usr' = [usr EXCEPT ![p].pc = pc]
Cached(n) == {b \in Bufs : buf[b].blockno = n}

\* Mutant: a buffer is recycled although the log has it pinned.
Victim_unheld == SelectLastInSeq(lru, LAMBDA b : buf[b].lock = Nothing)

\* The least recently used buffer without a reference, by its place in the list.
Victim == SelectLastInSeq(lru, LAMBDA b : buf[b].refcnt = 0)

\* bget(): the buffer that has the block, or a recycled one, or panic().
bget(p, n) ==
  /\ usr[p].pc = "away" /\ ~nobufs
  /\ \/ \E b \in Cached(n) :
          /\ buf' = [buf EXCEPT ![b].refcnt = @ + 1]
          /\ usr' = [usr EXCEPT ![p] = [pc |-> "lock", block |-> n, b |-> b]]
          /\ UNCHANGED nobufs
     \/ /\ Cached(n) = {} /\ Victim > 0
        /\ LET b == lru[Victim] IN
             /\ buf' = [buf EXCEPT ![b] = [@ EXCEPT !.blockno = n, !.valid = FALSE, !.refcnt = 1]]
             /\ usr' = [usr EXCEPT ![p] = [pc |-> "lock", block |-> n, b |-> b]]
        /\ UNCHANGED nobufs
     \/ Cached(n) = {} /\ Victim = 0 /\ nobufs' = TRUE /\ UNCHANGED <<buf, usr>>
  /\ UNCHANGED <<lru, platter, latest>>

\* acquiresleep()
acquiresleep(p) == LET b == usr[p].b IN
  /\ usr[p].pc = "lock" /\ buf[b].lock = Nothing
  /\ buf' = [buf EXCEPT ![b].lock = p] /\ Using(p, "valid")
  /\ UNCHANGED <<lru, platter, latest, nobufs>>

\* bread(): virtio_disk_rw() if the buffer is not valid.
bread(p) == LET b == usr[p].b IN
  /\ usr[p].pc = "valid"
  /\ buf' = [buf EXCEPT ![b].data = IF buf[b].valid THEN @ ELSE platter[buf[b].blockno],
                        ![b].valid = TRUE]
  /\ Using(p, "has")
  /\ UNCHANGED <<lru, platter, latest, nobufs>>

\* The caller changes the block, and log_write() calls bpin() unless the block is in the log.
bpin(p) == LET b == usr[p].b  v == buf[b].data + 1 IN
  /\ usr[p].pc = "has" /\ v <= MaxValue
  /\ buf' = [buf EXCEPT ![b].data = v, ![b].pinned = TRUE,
                        ![b].refcnt = IF buf[b].pinned THEN @ ELSE @ + 1]
  /\ latest' = [latest EXCEPT ![usr[p].block] = v]
  /\ Using(p, "done")
  /\ UNCHANGED <<lru, platter, nobufs>>

bunpin(bf) == [bf EXCEPT !.pinned = FALSE, !.refcnt = @ - 1]

\* install_trans() has the buffer: bwrite() and bunpin().
bwrite(p) == LET b == usr[p].b IN
  /\ usr[p].pc = "has" /\ buf[b].pinned
  /\ platter' = [platter EXCEPT ![buf[b].blockno] = buf[b].data]
  /\ buf' = [buf EXCEPT ![b] = bunpin(@)]
  /\ Using(p, "done")
  /\ UNCHANGED <<lru, latest, nobufs>>

\* brelse(): first the sleep lock,
releasesleep(p) ==
  /\ usr[p].pc \in {"has", "done"}
  /\ buf' = [buf EXCEPT ![usr[p].b].lock = Nothing] /\ Using(p, "drop")
  /\ UNCHANGED <<lru, platter, latest, nobufs>>

\* Mutant: the buffer is put at the front without being taken out of the list.
brelse_twice(p) == LET b == usr[p].b IN
  /\ usr[p].pc = "drop"
  /\ buf' = [buf EXCEPT ![b].refcnt = @ - 1]
  /\ lru' = IF buf[b].refcnt = 1 THEN <<b>> \o lru ELSE lru
  /\ usr' = [usr EXCEPT ![p] = Away]
  /\ UNCHANGED <<platter, latest, nobufs>>

\* then, under bcache.lock, the reference; the last one moves the buffer to the front.
brelse(p) == LET b == usr[p].b IN
  /\ usr[p].pc = "drop"
  /\ buf' = [buf EXCEPT ![b].refcnt = @ - 1]
  /\ lru' = IF buf[b].refcnt = 1 THEN <<b>> \o SelectSeq(lru, LAMBDA x : x # b) ELSE lru
  /\ usr' = [usr EXCEPT ![p] = Away]
  /\ UNCHANGED <<platter, latest, nobufs>>

BDone == nobufs /\ UNCHANGED bvars

BNext == \/ \E p \in Users :
              \/ acquiresleep(p) \/ bread(p) \/ bpin(p) \/ bwrite(p) \/ releasesleep(p) \/ brelse(p)
              \/ \E n \in BlockNos : bget(p, n)
         \/ BDone

BSpec == BInit /\ [][BNext]_bvars
-----------------------------------------------------------------------------
(* Properties *)

BTypeOK ==
  /\ \A b \in Bufs : buf[b] \in [blockno : BlockNos \cup {NBlock}, valid : BOOLEAN,
       refcnt : Nat, lock : Users \cup {Nothing}, data : 0 .. MaxValue, pinned : BOOLEAN]
  /\ IsInjective(lru) /\ Range(lru) = Bufs

\* A block has one buffer.  A process on its way through bread() to brelse() keeps the
\* buffer it asked for: every user and the log's pin count in refcnt, so that bget()
\* does not recycle it while its sleep lock is waited for or already released.  Whoever
\* has read a block sees the last contents given to it, from the cache or the disk.
BufferCoherent ==
  /\ \A b, c \in Bufs : b # c /\ buf[b].blockno = buf[c].blockno => buf[b].blockno = NBlock
  /\ \A b \in Bufs : buf[b].refcnt = Cardinality({p \in Users : usr[p].pc # "away" /\ usr[p].b = b})
                                     + (IF buf[b].pinned THEN 1 ELSE 0)
  /\ \A p \in Users : usr[p].pc # "away" => buf[usr[p].b].blockno = usr[p].block
  /\ \A p \in Users : usr[p].pc = "has" =>
       buf[usr[p].b].lock = p /\ buf[usr[p].b].data = latest[usr[p].block]
  /\ \A b \in Bufs : buf[b].valid => buf[b].data = latest[buf[b].blockno]
=============================================================================
