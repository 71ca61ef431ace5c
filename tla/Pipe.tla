-------------------------------- MODULE Pipe --------------------------------
(***************************************************************************)
(* One pipe, kernel/pipe.c, shared by the processes that have it open: each *)
(* has the read end, the write end, both or none among its descriptors      *)
(* (pipe() followed by fork() and close()).                                 *)
(*                                                                          *)
(* pi->lock is held over several steps, because kill() can come between     *)
(* them; sleep() is the step that gives the lock away.                      *)
(***************************************************************************)
EXTENDS Naturals, Sequences

CONSTANTS Peers,
          Bytes,     \* what is written
          EOF,       \* not a byte
          PIPESIZE,
          UINT,      \* 2^32: nread and nwrite are of type uint
          Lengths,   \* the lengths of reads and writes
          MayKill    \* processes that may be killed

ASSUME PipeAssumption ==
  /\ PIPESIZE \in Nat \ {0} /\ UINT \in Nat \ {0} /\ Lengths \subseteq Nat
  /\ UINT > PIPESIZE /\ UINT % PIPESIZE = 0
  /\ EOF \notin Bytes \cup Peers /\ MayKill \subseteq Peers

VARIABLES data, nread, nwrite, readopen, writeopen, \* struct pipe
          pilock,     \* the process that holds pi->lock, or EOF
          freed,      \* kfree(pi) has been called
          fds,        \* the ends each process has open
          killed,     \* p->killed
          at, left,   \* per process: place in the call, bytes it still has to do
          got         \* the byte piperead() took last, EOF if it returned 0

pipe == <<data, nread, nwrite, readopen, writeopen, freed>>
pvars == <<pipe, pilock, fds, killed, at, left, got>>

None == EOF
Places == {"idle", "wacq", "wcheck", "wbody", "wsleep",
           "racq", "rcheck", "rblock", "rsleep", "first", "copy"}
Idle == [p \in Peers |-> "idle"]

\* pipealloc(), and the fork() of the processes that share the pipe.
PInit == /\ \E b \in Bytes : data = [k \in 0 .. PIPESIZE - 1 |-> b]
        /\ nread = 0 /\ nwrite = 0 /\ readopen = TRUE /\ writeopen = TRUE
        /\ pilock = None /\ freed = FALSE
        /\ fds = [p \in Peers |-> {"r", "w"}]
        /\ killed = [p \in Peers |-> FALSE]
        /\ at = Idle
        /\ left = [p \in Peers |-> 0]
        /\ got = EOF

Empty == nread = nwrite
\* Mutant: the test does not allow for the wrap of uint.
Full_nowrap == nwrite = nread + PIPESIZE

Full == nwrite = (nread + PIPESIZE) % UINT

\* wakeup(&pi->nread) and wakeup(&pi->nwrite): back to acquire(&pi->lock).
wakeup_readers(pcs) == [q \in Peers |-> IF pcs[q] = "rsleep" THEN "racq" ELSE pcs[q]]
wakeup_writers(pcs) == [q \in Peers |-> IF pcs[q] = "wsleep" THEN "wacq" ELSE pcs[q]]

Move(p, l) == at' = [at EXCEPT ![p] = l]

\* release(&pi->lock) and return; pcs is at after the wakeups.
Return(p, pcs) == /\ at' = [pcs EXCEPT ![p] = "idle"]
                  /\ left' = [left EXCEPT ![p] = 0]
                  /\ pilock' = None

\* filewrite(), fileread(): the call of pipewrite() or piperead().
Call(p, end, l) ==
  /\ at[p] = "idle" /\ end \in fds[p] /\ ~killed[p]
  /\ \E n \in Lengths : left' = [left EXCEPT ![p] = n]
  /\ Move(p, l)
  /\ UNCHANGED <<pipe, pilock, fds, killed, got>>

acquire(p, from, to) ==
  /\ at[p] = from /\ pilock = None
  /\ pilock' = p
  /\ Move(p, to)
  /\ UNCHANGED <<pipe, fds, killed, left, got>>
-----------------------------------------------------------------------------
(* pipewrite() *)

\* The loop's condition and its first test.
pipewrite_check(p) ==
  /\ at[p] = "wcheck"
  /\ \/ left[p] = 0 /\ Return(p, wakeup_readers(at))
     \/ left[p] > 0 /\ (~readopen \/ killed[p]) /\ Return(p, at)
     \/ /\ left[p] > 0 /\ readopen /\ ~killed[p]
        /\ Move(p, "wbody") /\ UNCHANGED <<pilock, left>>
  /\ UNCHANGED <<pipe, fds, killed, got>>

\* Mutant: no wakeup(&pi->nread) before the sleep.
pipewrite_full_silent(p) ==
  /\ at[p] = "wbody" /\ Full
  /\ Move(p, "wsleep") /\ pilock' = None
  /\ UNCHANGED <<pipe, fds, killed, left, got>>

pipewrite_full(p) ==
  /\ at[p] = "wbody" /\ Full
  /\ at' = wakeup_readers([at EXCEPT ![p] = "wsleep"])
  /\ pilock' = None
  /\ UNCHANGED <<pipe, fds, killed, left, got>>

\* copyin() gives a byte, or fails and ends the call.
pipewrite_byte(p) ==
  /\ at[p] = "wbody" /\ ~Full
  /\ \/ /\ \E ch \in Bytes : data' = [data EXCEPT ![nwrite % PIPESIZE] = ch]
        /\ nwrite' = (nwrite + 1) % UINT
        /\ left' = [left EXCEPT ![p] = @ - 1]
        /\ Move(p, "wcheck")
        /\ UNCHANGED pilock
     \/ Return(p, wakeup_readers(at)) /\ UNCHANGED <<data, nwrite>>
  /\ UNCHANGED <<nread, readopen, writeopen, freed, fds, killed, got>>
-----------------------------------------------------------------------------
(* piperead() *)

piperead_check(p) ==
  /\ at[p] = "rcheck"
  /\ \/ Empty /\ writeopen /\ killed[p] /\ Return(p, at)
     \/ /\ Empty /\ writeopen /\ ~killed[p]
        /\ Move(p, "rblock") /\ UNCHANGED <<pilock, left>>
     \/ /\ ~(Empty /\ writeopen)
        /\ Move(p, "first") /\ UNCHANGED <<pilock, left>>
  /\ UNCHANGED <<pipe, fds, killed, got>>

piperead_sleep(p) ==
  /\ at[p] = "rblock"
  /\ Move(p, "rsleep") /\ pilock' = None
  /\ UNCHANGED <<pipe, fds, killed, left, got>>

\* Mutant: nread is not of a fixed width.
piperead_byte_wide(p) ==
  /\ at[p] \in {"first", "copy"} /\ left[p] > 0 /\ ~Empty
  /\ got' = data[nread % PIPESIZE]
  /\ nread' = nread + 1
  /\ \/ /\ left' = [left EXCEPT ![p] = @ - 1]
        /\ Move(p, "copy")
        /\ UNCHANGED pilock
     \/ Return(p, wakeup_writers(at))
  /\ UNCHANGED <<data, nwrite, readopen, writeopen, freed, fds, killed>>

\* One byte.  It is gone from the pipe also when copyout() fails.
piperead_byte(p) ==
  /\ at[p] \in {"first", "copy"} /\ left[p] > 0 /\ ~Empty
  /\ got' = data[nread % PIPESIZE]
  /\ nread' = (nread + 1) % UINT
  /\ \/ /\ left' = [left EXCEPT ![p] = @ - 1]
        /\ Move(p, "copy")
        /\ UNCHANGED pilock
     \/ Return(p, wakeup_writers(at))
  /\ UNCHANGED <<data, nwrite, readopen, writeopen, freed, fds, killed>>

\* The end of the copy loop; 0 bytes of a longer read are the end of the file.
piperead_done(p) ==
  /\ at[p] \in {"first", "copy"} /\ (left[p] = 0 \/ Empty)
  /\ got' = IF at[p] = "first" /\ left[p] > 0 THEN EOF ELSE got
  /\ Return(p, wakeup_writers(at))
  /\ UNCHANGED <<pipe, fds, killed>>
-----------------------------------------------------------------------------
\* Mutant: closing either end frees the pipe.
pipeclose_frees(p, end) ==
  /\ at[p] = "idle" /\ end \in fds[p] /\ pilock = None
  /\ fds' = [fds EXCEPT ![p] = @ \ {end}]
  /\ freed' = TRUE
  /\ UNCHANGED <<data, nread, nwrite, readopen, writeopen, at, pilock, killed, left, got>>

\* fileclose(): the last descriptor of an end calls pipeclose().
pipeclose(p, end) ==
  /\ at[p] = "idle" /\ end \in fds[p]
  /\ fds' = [fds EXCEPT ![p] = @ \ {end}]
  /\ IF \E q \in Peers \ {p} : end \in fds[q]
     THEN UNCHANGED <<readopen, writeopen, freed, at>>
     ELSE /\ pilock = None
          /\ IF end = "w"
             THEN /\ writeopen' = FALSE /\ UNCHANGED readopen
                  /\ at' = wakeup_readers(at)
             ELSE /\ readopen' = FALSE /\ UNCHANGED writeopen
                  /\ at' = wakeup_writers(at)
          /\ freed' = (~readopen' /\ ~writeopen')
  /\ UNCHANGED <<data, nread, nwrite, pilock, killed, left, got>>

\* kill() wakes the process if it is asleep.
kill_peer(p) ==
  /\ p \in MayKill /\ ~killed[p]
  /\ killed' = [killed EXCEPT ![p] = TRUE]
  /\ at' = [at EXCEPT ![p] = IF @ = "rsleep" THEN "racq" ELSE IF @ = "wsleep" THEN "wacq" ELSE @]
  /\ UNCHANGED <<pipe, pilock, fds, left, got>>

pipewrite(p) == \/ Call(p, "w", "wacq") \/ acquire(p, "wacq", "wcheck")
                \/ pipewrite_check(p) \/ pipewrite_full(p) \/ pipewrite_byte(p)

piperead(p) == \/ Call(p, "r", "racq") \/ acquire(p, "racq", "rcheck")
               \/ piperead_check(p) \/ piperead_sleep(p)
               \/ piperead_byte(p) \/ piperead_done(p)

PNext == \E p \in Peers : \/ pipewrite(p) \/ piperead(p) \/ kill_peer(p)
                         \/ \E end \in {"r", "w"} : pipeclose(p, end)

PSpec == PInit /\ [][PNext]_pvars
-----------------------------------------------------------------------------
(* Properties *)

PTypeOK ==
  /\ data \in [0 .. PIPESIZE - 1 -> Bytes]
  /\ nread \in 0 .. UINT - 1 /\ nwrite \in 0 .. UINT - 1
  /\ readopen \in BOOLEAN /\ writeopen \in BOOLEAN /\ freed \in BOOLEAN
  /\ pilock \in Peers \cup {None} /\ fds \in [Peers -> SUBSET {"r", "w"}]
  /\ killed \in [Peers -> BOOLEAN] /\ at \in [Peers -> Places]
  /\ left \in [Peers -> Nat]
  /\ got \in Bytes \cup {EOF}

\* The bytes between nread and nwrite, across the wrap of the buffer and of uint.
Queue == [k \in 1 .. (nwrite + UINT - nread) % UINT |-> data[(nread + k - 1) % PIPESIZE]]

\* The pipe is a bounded FIFO queue: piperead() takes the bytes in the order in which
\* pipewrite() put them, and returns 0 only when all writers are gone and it is empty.
B == INSTANCE ByteStream WITH Capacity <- PIPESIZE, queue <- Queue, wopen <- writeopen
Fifo == B!Spec

\* No process sleeps through what it waits for: with pi->lock free, a writer asleep
\* in pipewrite() has no room, a reader asleep in piperead() has nothing to read, and
\* the other end is open.  For the reader this takes that no process has been killed.
PipeWaits == pilock = None =>
  /\ \A p \in Peers : at[p] = "wsleep" => Full /\ readopen
  /\ (\A q \in Peers : ~killed[q]) => \A p \in Peers : at[p] = "rsleep" => Empty /\ writeopen

\* piperead(), "check if pipe is empty": a reader sleeps only on an empty pipe.
AsleepOnEmpty == pilock = None => \A p \in Peers : at[p] = "rsleep" => Empty

\* kfree(pi) comes after the last use of the pipe by any process.
NoUseAfterFree == freed => at = Idle /\ pilock = None
-----------------------------------------------------------------------------
(* The inductive invariant *)

\* The places with pi->lock held, and those in pipewrite() and piperead().
Locked == {"wcheck", "wbody", "rcheck", "rblock", "first", "copy"}
InWrite == {"wacq", "wcheck", "wbody", "wsleep"}
InRead == {"racq", "rcheck", "rblock", "rsleep", "first", "copy"}

\* acquire() and release(): the holder is the one process that is at such a place.
LockInv == /\ \A p \in Peers : at[p] \in Locked => pilock = p
           /\ pilock # None => at[pilock] \in Locked

\* pipeclose(): an end is open as long as a process has it, a process in a call has its
\* end, and the pipe is freed when both are closed.
EndsInv == /\ \A p \in Peers : /\ at[p] \in InWrite => "w" \in fds[p]
                               /\ at[p] \in InRead => "r" \in fds[p]
                               /\ "w" \in fds[p] => writeopen
                               /\ "r" \in fds[p] => readopen
           /\ freed => ~readopen /\ ~writeopen

\* Who holds pi->lock and will wake the sleepers before giving it up.
WillWakeWriters == pilock # None /\ at[pilock] = "copy"
WillWakeReaders == pilock # None /\ at[pilock] \in {"wcheck", "wbody"}

\* A sleeper waits for something that has not happened, or will be woken for it.
WriterInv == \A p \in Peers : at[p] = "wsleep" => readopen /\ (Full \/ WillWakeWriters)
NoneKilled == \A q \in Peers : ~killed[q]
ReaderInv == NoneKilled =>
  \A p \in Peers : at[p] = "rsleep" => writeopen /\ (Empty \/ WillWakeReaders)

\* What pipewrite() and piperead() have tested stays true while they hold pi->lock.
TestedInv == \A p \in Peers : /\ at[p] = "wbody" => left[p] > 0 /\ readopen
                              /\ at[p] = "rblock" => Empty /\ writeopen
                              /\ at[p] = "first" => ~Empty \/ ~writeopen

\* Why nobody is lost: pi->lock keeps what pipewrite() and piperead() have tested true until
\* they sleep, who makes it false has the lock and wakes the sleepers before giving it up,
\* and the ends that processes have open keep the pipe from being freed under them.
PInv == PTypeOK /\ TestedInv /\ LockInv /\ EndsInv /\ WriterInv /\ ReaderInv
=============================================================================
