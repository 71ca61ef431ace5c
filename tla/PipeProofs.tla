---------------------------- MODULE PipeProofs ----------------------------
(***************************************************************************)
(* Proofs about Pipe, for any number of processes, any size of the buffer   *)
(* and any width of the counters that is a multiple of it: a pipe is not    *)
(* used after kfree(), nobody sleeps through what they wait for, and the     *)
(* pipe implements ByteStream: what data[nread % PIPESIZE] takes out is what *)
(* data[nwrite % PIPESIZE] put in.                                           *)
(***************************************************************************)
EXTENDS Pipe, TLAPS, Integers, SequenceTheorems

\* What a process may do: PNext is that some process does it.
Acts(p) == \/ pipewrite(p) \/ piperead(p) \/ kill_peer(p)
           \/ \E end \in {"r", "w"} : pipeclose(p, end)
-----------------------------------------------------------------------------
(* Wakeups *)

\* new is pcs after a wakeup of those at place from, who go to place to.
WokenFrom(new, pcs, from, to) ==
  /\ new \in [Peers -> Places]
  /\ \A q \in Peers : new[q] = IF pcs[q] = from THEN to ELSE pcs[q]

\* The wakeups that a call of p may do: all of them after the lock was taken, and one with
\* p itself asleep.
AfterWakeups(p) ==
  /\ WokenFrom(wakeup_readers(at), at, "rsleep", "racq")
  /\ WokenFrom(wakeup_writers(at), at, "wsleep", "wacq")
  /\ WokenFrom(wakeup_readers([at EXCEPT ![p] = "wsleep"]),
               [at EXCEPT ![p] = "wsleep"], "rsleep", "racq")

\* wakeup(&pi->nread) and wakeup(&pi->nwrite) move the sleepers, and nobody else.
LEMMA Wakeups ==
  ASSUME at \in [Peers -> Places], NEW p \in Peers
  PROVE  AfterWakeups(p)
  BY Zenon DEF wakeup_readers, wakeup_writers, AfterWakeups, WokenFrom, Places
-----------------------------------------------------------------------------
(* Types *)

\* uint arithmetic: a remainder is below the modulus.
LEMMA Remainder ==
  ASSUME NEW m \in Nat \ {0}, NEW n \in Nat PROVE n % m \in 0 .. m - 1
  OBVIOUS

\* What the type invariant says of the struct pipe that calls share, and of the calls.
StructType == /\ data \in [0 .. PIPESIZE - 1 -> Bytes]
              /\ nread \in 0 .. UINT - 1 /\ nwrite \in 0 .. UINT - 1
              /\ got \in Bytes \cup {EOF}
OpenType == /\ readopen \in BOOLEAN /\ writeopen \in BOOLEAN /\ freed \in BOOLEAN
            /\ fds \in [Peers -> SUBSET {"r", "w"}] /\ killed \in [Peers -> BOOLEAN]
CallType == /\ pilock \in Peers \cup {None} /\ at \in [Peers -> Places]
            /\ left \in [Peers -> Nat]

\* Only one byte of the buffer and the two counters change, and the counters wrap.
LEMMA StructStep ==
  ASSUME StructType, NEW p \in Peers, Acts(p)
  PROVE  StructType'
  <1>1. CASE pipewrite_byte(p)
    <2>1. (nwrite + 1) % UINT \in 0 .. UINT - 1 /\ nwrite % PIPESIZE \in 0 .. PIPESIZE - 1
      BY Remainder, PipeAssumption DEF StructType
    <2>2. nwrite' \in 0 .. UINT - 1 /\ nread' = nread /\ got' = got
      BY <1>1, <2>1, Zenon DEF pipewrite_byte, StructType
    <2>3. data' \in [0 .. PIPESIZE - 1 -> Bytes]
      BY <1>1, <2>1, Zenon DEF pipewrite_byte, StructType
    <2> QED BY <2>2, <2>3, Zenon DEF StructType
  <1>2. CASE piperead_byte(p)
    <2>1. (nread + 1) % UINT \in 0 .. UINT - 1 /\ nread % PIPESIZE \in 0 .. PIPESIZE - 1
      BY Remainder, PipeAssumption DEF StructType
    <2> QED BY <1>2, <2>1, Zenon DEF piperead_byte, StructType
  <1>3. CASE piperead_done(p)
    BY <1>3, Zenon DEF piperead_done, pipe, StructType
  <1>4. CASE UNCHANGED <<data, nread, nwrite, got>>
    BY <1>4, Zenon DEF StructType
  <1> QED BY <1>1, <1>2, <1>3, <1>4, Zenon DEF Acts, pipewrite, piperead, Call, acquire, pipewrite_check,
       pipewrite_full, piperead_check, piperead_sleep, kill_peer, pipeclose, pipe

\* The ends change in pipeclose() only.
LEMMA OpenStep ==
  ASSUME OpenType, NEW p \in Peers, Acts(p)
  PROVE  OpenType'
  <1>1. CASE kill_peer(p)
    BY <1>1, Zenon DEF kill_peer, pipe, OpenType
  <1>2. ASSUME NEW end \in {"r", "w"}, pipeclose(p, end) PROVE OpenType'
    BY <1>2, Zenon DEF pipeclose, OpenType
  <1>3. CASE UNCHANGED <<readopen, writeopen, freed, fds, killed>>
    BY <1>3, Zenon DEF OpenType
  <1> QED BY <1>1, <1>2, <1>3, Zenon DEF Acts, pipewrite, piperead, Call, acquire, pipewrite_check,
       pipewrite_full, pipewrite_byte, piperead_check, piperead_sleep, piperead_byte,
       piperead_done, pipe

\* A call goes from place to place, with a natural number of bytes to do.
LEMMA CallStep ==
  ASSUME CallType, TestedInv, NEW p \in Peers, Acts(p)
  PROVE  CallType'
  <1> USE DEF CallType
  <1>1. \A l \in Places : [at EXCEPT ![p] = l] \in [Peers -> Places]
    BY Zenon
  <1>2. /\ wakeup_readers(at) \in [Peers -> Places] /\ wakeup_writers(at) \in [Peers -> Places]
        /\ wakeup_readers([at EXCEPT ![p] = "wsleep"]) \in [Peers -> Places]
    BY <1>1, Zenon DEF wakeup_readers, wakeup_writers, Places
  <1>3. ASSUME NEW pcs \in [Peers -> Places], Return(p, pcs) PROVE CallType'
    BY <1>3, Zenon DEF Return, Places
  <1>4. CASE Call(p, "w", "wacq") \/ Call(p, "r", "racq")
    BY <1>4, PipeAssumption, Zenon DEF Call, Move, Places
  <1>5. CASE acquire(p, "wacq", "wcheck") \/ acquire(p, "racq", "rcheck")
    BY <1>5, Zenon DEF acquire, Move, Places
  <1>6. CASE pipewrite_check(p)
    <2>1. CASE Return(p, wakeup_readers(at)) \/ Return(p, at)
      BY <2>1, <1>2, <1>3, Zenon
    <2>2. CASE Move(p, "wbody") /\ UNCHANGED <<pilock, left>>
      BY <2>2, Zenon DEF Move, Places
    <2> QED BY <1>6, <2>1, <2>2, Zenon DEF pipewrite_check
  <1>7. CASE pipewrite_full(p)
    BY <1>7, <1>2, Zenon DEF pipewrite_full
  <1>8. CASE pipewrite_byte(p)
    <2>1. CASE Return(p, wakeup_readers(at))
      BY <2>1, <1>2, <1>3, Zenon
    <2>2. CASE left' = [left EXCEPT ![p] = @ - 1] /\ Move(p, "wcheck") /\ UNCHANGED pilock
      <3>1. left[p] - 1 \in Nat
        BY <1>8 DEF pipewrite_byte, TestedInv
      <3> QED BY <2>2, <3>1, Zenon DEF Move, Places
    <2> QED BY <1>8, <2>1, <2>2, Zenon DEF pipewrite_byte
  <1>9. CASE piperead_check(p)
    <2>1. CASE Return(p, at)
      BY <2>1, <1>3, Zenon
    <2>2. CASE (Move(p, "rblock") \/ Move(p, "first")) /\ UNCHANGED <<pilock, left>>
      BY <2>2, Zenon DEF Move, Places
    <2> QED BY <1>9, <2>1, <2>2, Zenon DEF piperead_check
  <1>10. CASE piperead_sleep(p)
    BY <1>10, Zenon DEF piperead_sleep, Move, Places
  <1>11. CASE piperead_byte(p)
    <2>1. CASE Return(p, wakeup_writers(at))
      BY <2>1, <1>2, <1>3, Zenon
    <2>2. CASE left' = [left EXCEPT ![p] = @ - 1] /\ Move(p, "copy") /\ UNCHANGED pilock
      BY <1>11, <2>2 DEF piperead_byte, Move, Places
    <2> QED BY <1>11, <2>1, <2>2, Zenon DEF piperead_byte
  <1>12. CASE piperead_done(p)
    BY <1>12, <1>2, <1>3, Zenon DEF piperead_done
  <1>13. CASE kill_peer(p)
    BY <1>13, Zenon DEF kill_peer, Places
  <1>14. ASSUME NEW end \in {"r", "w"}, pipeclose(p, end) PROVE CallType'
    BY <1>14, <1>2, Zenon DEF pipeclose
  <1> QED BY <1>4, <1>5, <1>6, <1>7, <1>8, <1>9, <1>10, <1>11, <1>12, <1>13, <1>14, Zenon
       DEF Acts, pipewrite, piperead
-----------------------------------------------------------------------------
(* The rest of the invariant *)

\* What was tested under pi->lock holds until the lock is given up.
LEMMA TestedStep ==
  ASSUME PTypeOK, LockInv, TestedInv, NEW p \in Peers, Acts(p)
  PROVE  TestedInv'
  <1> USE DEF AfterWakeups, WokenFrom, PTypeOK, TestedInv, LockInv, Locked, None, Empty
  <1>a. EOF \notin Peers BY PipeAssumption, Zenon
  <1>0. AfterWakeups(p)
    BY Wakeups, Zenon DEF PTypeOK
  <1>1. CASE Call(p, "w", "wacq") \/ Call(p, "r", "racq")
    BY <1>1, ZenonT(40) DEF Call, Move, pipe
  <1>2. CASE acquire(p, "wacq", "wcheck") \/ acquire(p, "racq", "rcheck")
    BY <1>2, Zenon DEF acquire, Move, pipe
  <1>3. CASE pipewrite_check(p)
    BY <1>3, <1>0 DEF pipewrite_check, Return, Move, pipe
  <1>4. CASE pipewrite_full(p)
    BY <1>4, <1>0, ZenonT(40) DEF pipewrite_full, pipe
  <1>5. CASE pipewrite_byte(p)
    <2>1. \A q \in Peers : q # p => at[q] \notin Locked
      BY <1>5, Zenon DEF pipewrite_byte
    <2>2. CASE Return(p, wakeup_readers(at))
      BY <2>1, <2>2, <1>0, ZenonT(40) DEF Return
    <2>3. CASE Move(p, "wcheck")
      BY <2>1, <2>3, Zenon DEF Move
    <2> QED BY <1>5, <2>2, <2>3, Zenon DEF pipewrite_byte
  <1>6. CASE piperead_check(p)
    BY <1>6, ZenonT(40) DEF piperead_check, Return, Move, pipe
  <1>7. CASE piperead_sleep(p)
    BY <1>7, Zenon DEF piperead_sleep, Move, pipe
  <1>8. CASE piperead_byte(p)
    BY <1>8, <1>0 DEF piperead_byte, Return, Move
  <1>9. CASE piperead_done(p)
    BY <1>9, <1>0, ZenonT(40) DEF piperead_done, Return, pipe
  <1>10. CASE kill_peer(p)
    BY <1>10, Zenon DEF kill_peer, pipe
  <1>11. ASSUME NEW end \in {"r", "w"}, pipeclose(p, end) PROVE TestedInv'
    <2>1. CASE \E q \in Peers \ {p} : end \in fds[q]
      BY <1>11, <2>1, Zenon DEF pipeclose
    <2>2. CASE end = "w" /\ ~\E q \in Peers \ {p} : end \in fds[q]
      BY <1>11, <2>2, <1>0, <1>a DEF pipeclose
    <2>3. CASE end = "r" /\ ~\E q \in Peers \ {p} : end \in fds[q]
      BY <1>11, <2>3, <1>0, <1>a DEF pipeclose
    <2> QED BY <2>1, <2>2, <2>3, Zenon
  <1> QED BY <1>1, <1>2, <1>3, <1>4, <1>5, <1>6, <1>7, <1>8, <1>9, <1>10, <1>11, Zenon
       DEF Acts, pipewrite, piperead

\* One process is between acquire(&pi->lock) and its release() or sleep().
LEMMA LockStep ==
  ASSUME PTypeOK, LockInv, NEW p \in Peers, Acts(p)
  PROVE  LockInv'
  <1> USE DEF AfterWakeups, WokenFrom, PTypeOK, LockInv, Locked, None
  <1>a. EOF \notin Peers BY PipeAssumption, Zenon
  <1>0. AfterWakeups(p)
    BY Wakeups, Zenon DEF PTypeOK
  <1>r. ASSUME NEW pcs, pcs \in {at, wakeup_readers(at), wakeup_writers(at)},
               at[p] \in Locked, Return(p, pcs)
        PROVE  LockInv'
    <2>1. \A q \in Peers : q # p => at[q] \notin Locked
      BY <1>r, Zenon
    <2>2. pcs \in [Peers -> Places] /\ \A q \in Peers : q # p => pcs[q] \notin Locked
      <3>1. CASE pcs = at
        BY <3>1, <2>1, Zenon
      <3>2. CASE pcs = wakeup_readers(at)
        BY <3>2, <2>1, <1>0, Zenon
      <3>3. CASE pcs = wakeup_writers(at)
        BY <3>3, <2>1, <1>0, Zenon
      <3> QED BY <1>r, <3>1, <3>2, <3>3, Zenon
    <2>3. \A q \in Peers : at'[q] \notin Locked
      BY <1>r, <2>2, Zenon DEF Return
    <2> QED BY <1>r, <2>3, Zenon DEF Return
  <1>1. CASE Call(p, "w", "wacq") \/ Call(p, "r", "racq")
    BY <1>1, <1>a DEF Call, Move, pipe
  <1>2. CASE acquire(p, "wacq", "wcheck") \/ acquire(p, "racq", "rcheck")
    BY <1>2, <1>a DEF acquire, Move, pipe
  <1>3. CASE pipewrite_check(p)
    <2>1. CASE Move(p, "wbody") /\ UNCHANGED pilock
      BY <1>3, <2>1, <1>a, Zenon DEF pipewrite_check, Move
    <2> QED BY <1>3, <2>1, <1>r, Zenon DEF pipewrite_check
  <1>4. CASE pipewrite_full(p)
    BY <1>4, <1>0, <1>a, ZenonT(60) DEF pipewrite_full, pipe
  <1>5. CASE pipewrite_byte(p)
    <2>1. CASE Move(p, "wcheck") /\ UNCHANGED pilock
      BY <1>5, <2>1, <1>a, Zenon DEF pipewrite_byte, Move
    <2> QED BY <1>5, <2>1, <1>r, Zenon DEF pipewrite_byte
  <1>6. CASE piperead_check(p)
    <2>1. CASE (Move(p, "rblock") \/ Move(p, "first")) /\ UNCHANGED pilock
      BY <1>6, <2>1, <1>a, Zenon DEF piperead_check, Move
    <2> QED BY <1>6, <2>1, <1>r, Zenon DEF piperead_check
  <1>7. CASE piperead_sleep(p)
    BY <1>7, <1>a, Zenon DEF piperead_sleep, Move, pipe
  <1>8. CASE piperead_byte(p)
    <2>1. CASE Move(p, "copy") /\ UNCHANGED pilock
      BY <1>8, <2>1, <1>a, Zenon DEF piperead_byte, Move
    <2> QED BY <1>8, <2>1, <1>r, Zenon DEF piperead_byte
  <1>9. CASE piperead_done(p)
    BY <1>9, <1>r, Zenon DEF piperead_done
  <1>10. CASE kill_peer(p)
    BY <1>10, <1>a, Zenon DEF kill_peer, pipe
  <1>11. ASSUME NEW end \in {"r", "w"}, pipeclose(p, end) PROVE LockInv'
    <2>1. CASE \E q \in Peers \ {p} : end \in fds[q]
      BY <1>11, <2>1, Zenon DEF pipeclose
    <2>2. CASE end = "w" /\ ~\E q \in Peers \ {p} : end \in fds[q]
      BY <1>11, <2>2, <1>0, <1>a DEF pipeclose
    <2>3. CASE end = "r" /\ ~\E q \in Peers \ {p} : end \in fds[q]
      BY <1>11, <2>3, <1>0, <1>a DEF pipeclose
    <2> QED BY <2>1, <2>2, <2>3, Zenon
  <1> QED BY <1>1, <1>2, <1>3, <1>4, <1>5, <1>6, <1>7, <1>8, <1>9, <1>10, <1>11, Zenon
       DEF Acts, pipewrite, piperead

\* The ends that processes have and the flags of the pipe agree.
LEMMA EndsStep ==
  ASSUME PTypeOK, EndsInv, LockInv, NEW p \in Peers, Acts(p)
  PROVE  EndsInv'
  <1> USE DEF AfterWakeups, WokenFrom, PTypeOK, EndsInv, InWrite, InRead
  <1>0. AfterWakeups(p)
    BY Wakeups, Zenon DEF PTypeOK
  <1>1. CASE Call(p, "w", "wacq") \/ Call(p, "r", "racq")
    BY <1>1 DEF Call, Move, pipe
  <1>2. CASE acquire(p, "wacq", "wcheck") \/ acquire(p, "racq", "rcheck")
    BY <1>2 DEF acquire, Move, pipe
  <1>3. CASE pipewrite_check(p)
    BY <1>3, <1>0 DEF pipewrite_check, Return, Move, pipe
  <1>4. CASE pipewrite_full(p)
    BY <1>4, <1>0, ZenonT(60) DEF pipewrite_full, pipe
  <1>5. CASE pipewrite_byte(p)
    BY <1>5, <1>0 DEF pipewrite_byte, Return, Move
  <1>6. CASE piperead_check(p)
    BY <1>6, ZenonT(40) DEF piperead_check, Return, Move, pipe
  <1>7. CASE piperead_sleep(p)
    BY <1>7, Zenon DEF piperead_sleep, Move, pipe
  <1>8. CASE piperead_byte(p)
    BY <1>8, <1>0 DEF piperead_byte, Return, Move
  <1>9. CASE piperead_done(p)
    BY <1>9, <1>0, Zenon DEF piperead_done, Return, pipe
  <1>10. CASE kill_peer(p)
    BY <1>10, Zenon DEF kill_peer, pipe
  <1>11. ASSUME NEW end \in {"r", "w"}, pipeclose(p, end) PROVE EndsInv'
    <2>1. CASE \E q \in Peers \ {p} : end \in fds[q]
      BY <1>11, <2>1, Zenon DEF pipeclose
    <2>2. CASE end = "w" /\ ~\E q \in Peers \ {p} : end \in fds[q]
      BY <1>11, <2>2, <1>0, ZenonT(40) DEF pipeclose
    <2>3. CASE end = "r" /\ ~\E q \in Peers \ {p} : end \in fds[q]
      BY <1>11, <2>3, <1>0 DEF pipeclose
    <2> QED BY <2>1, <2>2, <2>3, Zenon
  <1> QED BY <1>1, <1>2, <1>3, <1>4, <1>5, <1>6, <1>7, <1>8, <1>9, <1>10, <1>11, Zenon
       DEF Acts, pipewrite, piperead

\* No writer sleeps through a byte taken out or the closing of the read end.
LEMMA WriterStep ==
  ASSUME PTypeOK, LockInv, EndsInv, TestedInv, WriterInv, NEW p \in Peers, Acts(p)
  PROVE  WriterInv'
  <1> USE DEF AfterWakeups, WokenFrom, PTypeOK, TestedInv, WriterInv, LockInv, EndsInv,
             InWrite, InRead, WillWakeWriters, Full, Locked, None
  <1>a. EOF \notin Peers BY PipeAssumption, Zenon
  <1>0. AfterWakeups(p)
    BY Wakeups, Zenon DEF PTypeOK
  <1>1. CASE Call(p, "w", "wacq") \/ Call(p, "r", "racq")
    BY <1>1, <1>a DEF Call, Move, pipe
  <1>2. CASE acquire(p, "wacq", "wcheck") \/ acquire(p, "racq", "rcheck")
    BY <1>2, <1>a, Zenon DEF acquire, Move, pipe
  <1>3. CASE pipewrite_check(p)
    BY <1>3, <1>0, <1>a DEF pipewrite_check, Return, Move, pipe
  <1>4. CASE pipewrite_full(p)
    BY <1>4, <1>0, <1>a, Zenon DEF pipewrite_full, pipe
  <1>5. CASE pipewrite_byte(p)
    BY <1>5, <1>0, <1>a DEF pipewrite_byte, Return, Move
  <1>6. CASE piperead_check(p)
    BY <1>6, <1>a, ZenonT(60) DEF piperead_check, Return, Move, pipe
  <1>7. CASE piperead_sleep(p)
    BY <1>7, <1>a, Zenon DEF piperead_sleep, Move, pipe
  <1>8. CASE piperead_byte(p)
    BY <1>8, <1>0, <1>a DEF piperead_byte, Return, Move
  <1>9. CASE piperead_done(p)
    BY <1>9, <1>0, <1>a, Zenon DEF piperead_done, Return, pipe
  <1>10. CASE kill_peer(p)
    BY <1>10, <1>a, Zenon DEF kill_peer, pipe
  <1>11. ASSUME NEW end \in {"r", "w"}, pipeclose(p, end) PROVE WriterInv'
    <2>1. CASE \E q \in Peers \ {p} : end \in fds[q]
      BY <1>11, <2>1, Zenon DEF pipeclose
    <2>2. CASE end = "w" /\ ~\E q \in Peers \ {p} : end \in fds[q]
      BY <1>11, <2>2, <1>0, <1>a DEF pipeclose
    <2>3. CASE end = "r" /\ ~\E q \in Peers \ {p} : end \in fds[q]
      BY <1>11, <2>3, <1>0, <1>a, SMTT(40) DEF pipeclose
    <2> QED BY <2>1, <2>2, <2>3, Zenon
  <1> QED BY <1>1, <1>2, <1>3, <1>4, <1>5, <1>6, <1>7, <1>8, <1>9, <1>10, <1>11, Zenon
       DEF Acts, pipewrite, piperead

\* With no process killed, no reader sleeps through a byte put in or the last writer's close.
LEMMA ReaderStep ==
  ASSUME PTypeOK, LockInv, EndsInv, TestedInv, ReaderInv, NEW p \in Peers, Acts(p)
  PROVE  ReaderInv'
  <1> USE DEF AfterWakeups, WokenFrom, PTypeOK, TestedInv, ReaderInv, LockInv, EndsInv,
             InWrite, InRead, WillWakeReaders, Empty, Locked, None, NoneKilled
  <1>a. EOF \notin Peers BY PipeAssumption, Zenon
  <1>0. AfterWakeups(p)
    BY Wakeups, Zenon DEF PTypeOK
  <1>1. CASE Call(p, "w", "wacq") \/ Call(p, "r", "racq")
    BY <1>1, <1>a DEF Call, Move, pipe
  <1>2. CASE acquire(p, "wacq", "wcheck") \/ acquire(p, "racq", "rcheck")
    BY <1>2, <1>a, ZenonT(40) DEF acquire, Move, pipe
  <1>3. CASE pipewrite_check(p)
    BY <1>3, <1>0, <1>a DEF pipewrite_check, Return, Move, pipe
  <1>4. CASE pipewrite_full(p)
    BY <1>4, <1>0, <1>a, ZenonT(60) DEF pipewrite_full, pipe
  <1>5. CASE pipewrite_byte(p)
    <2>1. CASE Return(p, wakeup_readers(at))
      BY <1>5, <2>1, <1>0, ZenonT(40) DEF pipewrite_byte, Return
    <2>2. CASE Move(p, "wcheck") /\ UNCHANGED pilock
      <3>1. pilock' # None /\ at'[pilock'] = "wcheck"
        BY <1>5, <2>2, <1>a, Zenon DEF pipewrite_byte, Move
      <3>2. /\ UNCHANGED <<killed, writeopen>>
            /\ \A q \in Peers : at'[q] = "rsleep" => at[q] = "rsleep"
        BY <1>5, <2>2, Zenon DEF pipewrite_byte, Move
      <3> QED BY <3>1, <3>2, Zenon
    <2> QED BY <1>5, <2>1, <2>2, Zenon DEF pipewrite_byte
  <1>6. CASE piperead_check(p)
    BY <1>6, <1>a, ZenonT(60) DEF piperead_check, Return, Move, pipe
  <1>7. CASE piperead_sleep(p)
    BY <1>7, <1>a, Zenon DEF piperead_sleep, Move, pipe
  <1>8. CASE piperead_byte(p)
    BY <1>8, <1>0, <1>a DEF piperead_byte, Return, Move
  <1>9. CASE piperead_done(p)
    BY <1>9, <1>0, <1>a, Zenon DEF piperead_done, Return, pipe
  <1>10. CASE kill_peer(p)
    BY <1>10, <1>a, Zenon DEF kill_peer, pipe
  <1>11. ASSUME NEW end \in {"r", "w"}, pipeclose(p, end) PROVE ReaderInv'
    <2>1. CASE \E q \in Peers \ {p} : end \in fds[q]
      BY <1>11, <2>1, Zenon DEF pipeclose
    <2>2. CASE end = "w" /\ ~\E q \in Peers \ {p} : end \in fds[q]
      BY <1>11, <2>2, <1>0, <1>a DEF pipeclose
    <2>3. CASE end = "r" /\ ~\E q \in Peers \ {p} : end \in fds[q]
      BY <1>11, <2>3, <1>0, <1>a DEF pipeclose
    <2> QED BY <2>1, <2>2, <2>3, Zenon
  <1> QED BY <1>1, <1>2, <1>3, <1>4, <1>5, <1>6, <1>7, <1>8, <1>9, <1>10, <1>11, Zenon
       DEF Acts, pipewrite, piperead
-----------------------------------------------------------------------------
\* PInv holds when the pipe has been made, and every step keeps it.
THEOREM PipeInvariant == PSpec => []PInv
  <1>1. PInit => PInv
    <2> SUFFICES ASSUME PInit PROVE PInv
      BY Zenon
    <2>1. PTypeOK
      <3>1. StructType
        BY PipeAssumption DEF PInit, StructType
      <3>2. OpenType /\ CallType
        BY Zenon DEF PInit, OpenType, CallType, Idle, Places
      <3> QED BY <3>1, <3>2, Zenon DEF PTypeOK, StructType, OpenType, CallType
    <2>2. \A p \in Peers : at[p] = "idle"
      BY Zenon DEF PInit, Idle
    <2>3. EndsInv
      BY <2>2, Zenon DEF PInit, EndsInv, InWrite, InRead
    <2> QED BY <2>1, <2>2, <2>3, Zenon DEF PInit, PInv, TestedInv, LockInv, WriterInv, ReaderInv, Locked
  <1>2. PInv /\ [PNext]_pvars => PInv'
    <2> SUFFICES ASSUME PInv, [PNext]_pvars PROVE PInv'
      BY Zenon
    <2>1. CASE PNext
      <3>1. PICK p \in Peers : Acts(p)
        BY <2>1, Zenon DEF PNext, Acts
      <3>2. PTypeOK'
        <4>1. StructType /\ OpenType /\ CallType
          BY Zenon DEF PInv, PTypeOK, StructType, OpenType, CallType
        <4>2. StructType' /\ OpenType' /\ CallType'
          BY <3>1, <4>1, StructStep, OpenStep, CallStep, Zenon DEF PInv
        <4> QED BY <4>2, Zenon DEF PTypeOK, StructType, OpenType, CallType
      <3> QED BY <3>1, <3>2, TestedStep, LockStep, EndsStep, WriterStep, ReaderStep, Zenon DEF PInv
    <2>2. CASE UNCHANGED pvars
      BY <2>2, Zenon DEF pvars, pipe, PInv, PTypeOK, TestedInv, LockInv, EndsInv, WriterInv, ReaderInv,
                  NoneKilled, WillWakeWriters, WillWakeReaders, Full, Empty
    <2> QED BY <2>1, <2>2, Zenon
  <1> QED BY <1>1, <1>2, PTL DEF PSpec

\* The counters stay within a uint, the index into the buffer within the buffer, and the
\* calls at their places, for every size of the buffer.
THEOREM PipeTypeCorrect == PSpec => []PTypeOK
  BY PipeInvariant, PTL DEF PInv

\* kfree(pi) comes when no process is in pipewrite() or piperead() and none has pi->lock.
THEOREM PipeFreedUnused == PSpec => []NoUseAfterFree
  <1>1. PInv => NoUseAfterFree
    <2> SUFFICES ASSUME PInv, freed PROVE at = Idle /\ pilock = None
      BY Zenon DEF NoUseAfterFree
    <2>1. \A p \in Peers : at[p] \notin InWrite \cup InRead
      BY Zenon DEF PInv, EndsInv
    <2>2. at = Idle
      BY <2>1, Zenon DEF PInv, PTypeOK, Places, InWrite, InRead, Idle
    <2>3. pilock = None
      BY <2>2, Zenon DEF PInv, PTypeOK, LockInv, Locked, Idle
    <2> QED BY <2>2, <2>3, Zenon
  <1> QED BY <1>1, PipeInvariant, PTL

\* Any number of readers and writers: who sleeps has what it waits for still to come.
THEOREM PipeNoLostWakeup == PSpec => []PipeWaits
  <1>1. PInv => PipeWaits
    BY Zenon DEF PInv, PipeWaits, WriterInv, ReaderInv, NoneKilled, WillWakeWriters, WillWakeReaders
  <1> QED BY <1>1, PipeInvariant, PTL
-----------------------------------------------------------------------------
(* Remainders *)

\* A remainder of a number below the modulus, or not twice the modulus.
LEMMA SmallRemainder ==
  ASSUME NEW m \in Nat \ {0}, NEW n \in 0 .. m - 1
  PROVE  n % m = n /\ (n + m) % m = n
  OBVIOUS

\* Adding a multiple of the modulus does not change the remainder.
LEMMA AddMultiple ==
  ASSUME NEW m \in Nat \ {0}, NEW q \in Nat, NEW k \in Nat
  PROVE  (m * q + k) % m = k % m
  <1>1. /\ k = m * (k \div m) + (k % m) /\ k \div m \in Nat
        /\ k % m \in 0 .. m - 1
    OBVIOUS
  <1>2. m * q + k = m * (q + (k \div m)) + (k % m) /\ q + (k \div m) \in Nat
    BY <1>1
  <1>3. \A s \in Nat, r \in 0 .. m - 1 : (m * s + r) % m = r
    OBVIOUS
  <1> QED BY <1>1, <1>2, <1>3, Zenon

\* uint wraps at a multiple of PIPESIZE, so the index into data does not jump there.
LEMMA IndexWraps == \A k \in Nat : (UINT + k) % PIPESIZE = k % PIPESIZE
  <1>1. UINT = PIPESIZE * (UINT \div PIPESIZE) /\ UINT \div PIPESIZE \in Nat
    BY PipeAssumption
  <1>2. \A k \in Nat : (PIPESIZE * (UINT \div PIPESIZE) + k) % PIPESIZE = k % PIPESIZE
    BY <1>1, AddMultiple, PipeAssumption, Zenon
  <1> QED BY <1>1, <1>2, Zenon

\* Fewer than PIPESIZE counts in a row have different indices.
LEMMA IndexDiffers ==
  ASSUME NEW a \in Nat, NEW b \in Nat, a < b, b < a + PIPESIZE
  PROVE  a % PIPESIZE # b % PIPESIZE
  <1> DEFINE m == PIPESIZE
  <1>0. m \in Nat \ {0}
    BY PipeAssumption, Zenon
  <1> HIDE DEF m
  <1>1. /\ a = m * (a \div m) + (a % m) /\ a \div m \in Nat
        /\ b = m * (b \div m) + (b % m) /\ b \div m \in Nat
    BY <1>0
  <1>2. SUFFICES ASSUME a % m = b % m PROVE FALSE
    BY Zenon DEF m
  <1>3. b - a = m * ((b \div m) - (a \div m))
    BY <1>0, <1>1, <1>2
  <1>4. b - a > 0 /\ b - a < m
    BY <1>0 DEF m
  <1>5. \A d \in Int : m * d > 0 => m * d >= m
    BY <1>0
  <1>6. (b \div m) - (a \div m) \in Int
    BY <1>1
  <1>7. b - a >= m
    BY <1>3, <1>4, <1>5, <1>6, Zenon
  <1> QED BY <1>0, <1>4, <1>7
-----------------------------------------------------------------------------
(* The number of bytes in the pipe *)

Counter == 0 .. UINT - 1
Count(r, w) == (w + UINT - r) % UINT
Next1(n) == (n + 1) % UINT

\* nwrite - nread, allowing for the wrap.
LEMMA CountIs ==
  ASSUME NEW r \in Counter, NEW w \in Counter
  PROVE  /\ Count(r, w) \in Counter
         /\ r <= w => Count(r, w) = w - r
         /\ w < r => Count(r, w) = w + UINT - r
  <1>0. UINT \in Nat \ {0}
    BY PipeAssumption, Zenon
  <1>1. CASE r <= w
    <2>1. w - r \in 0 .. UINT - 1 /\ w + UINT - r = (w - r) + UINT
      BY <1>0, <1>1 DEF Counter
    <2> QED BY <1>0, <1>1, <2>1, SmallRemainder DEF Count, Counter
  <1>2. CASE w < r
    <2>1. w + UINT - r \in 0 .. UINT - 1
      BY <1>0, <1>2 DEF Counter
    <2> QED BY <1>0, <1>2, <2>1, SmallRemainder DEF Count, Counter
  <1> QED BY <1>0, <1>1, <1>2 DEF Counter

\* A counter goes up by one, or from the last value to 0.
LEMMA Next1Is ==
  ASSUME NEW n \in Counter
  PROVE  /\ Next1(n) \in Counter
         /\ n # UINT - 1 => Next1(n) = n + 1
         /\ n = UINT - 1 => Next1(n) = 0
  <1>0. UINT \in Nat \ {0}
    BY PipeAssumption, Zenon
  <1>1. CASE n = UINT - 1
    BY <1>0, <1>1, SmallRemainder DEF Next1, Counter
  <1>2. CASE n # UINT - 1
    <2>1. n + 1 \in 0 .. UINT - 1
      BY <1>0, <1>2 DEF Counter
    <2> QED BY <1>0, <1>2, <2>1, SmallRemainder, Zenon DEF Next1, Counter
  <1> QED BY <1>1, <1>2, Zenon

\* A byte put in makes one more, as long as the buffer is not full.
LEMMA CountUp ==
  ASSUME NEW r \in Counter, NEW w \in Counter, Count(r, w) < PIPESIZE
  PROVE  Count(r, Next1(w)) = Count(r, w) + 1
  <1>0. UINT \in Nat \ {0} /\ PIPESIZE \in Nat /\ PIPESIZE < UINT
    BY PipeAssumption, Zenon
  <1>1. /\ Count(r, w) \in Counter
        /\ r <= w => Count(r, w) = w - r
        /\ w < r => Count(r, w) = w + UINT - r
    BY CountIs, Zenon
  <1>2. /\ Next1(w) \in Counter
        /\ w # UINT - 1 => Next1(w) = w + 1
        /\ w = UINT - 1 => Next1(w) = 0
    BY Next1Is, Zenon
  <1>3. /\ Count(r, Next1(w)) \in Counter
        /\ r <= Next1(w) => Count(r, Next1(w)) = Next1(w) - r
        /\ Next1(w) < r => Count(r, Next1(w)) = Next1(w) + UINT - r
    BY <1>2, CountIs, Zenon
  <1> QED BY <1>0, <1>1, <1>2, <1>3 DEF Counter

\* A byte taken out of a pipe that is not empty makes one less.
LEMMA CountDown ==
  ASSUME NEW r \in Counter, NEW w \in Counter, r # w
  PROVE  Count(Next1(r), w) = Count(r, w) - 1 /\ Count(r, w) > 0
  <1>0. UINT \in Nat \ {0}
    BY PipeAssumption, Zenon
  <1>1. /\ Count(r, w) \in Counter
        /\ r <= w => Count(r, w) = w - r
        /\ w < r => Count(r, w) = w + UINT - r
    BY CountIs, Zenon
  <1>2. /\ Next1(r) \in Counter
        /\ r # UINT - 1 => Next1(r) = r + 1
        /\ r = UINT - 1 => Next1(r) = 0
    BY Next1Is, Zenon
  <1>3. /\ Count(Next1(r), w) \in Counter
        /\ Next1(r) <= w => Count(Next1(r), w) = w - Next1(r)
        /\ w < Next1(r) => Count(Next1(r), w) = w + UINT - Next1(r)
    BY <1>2, CountIs, Zenon
  <1> QED BY <1>0, <1>1, <1>2, <1>3 DEF Counter

\* pipewrite()'s test for a full pipe, and piperead()'s for an empty one.
LEMMA FullIs ==
  ASSUME nread \in Counter, nwrite \in Counter
  PROVE  /\ Full <=> Count(nread, nwrite) = PIPESIZE
         /\ Empty <=> Count(nread, nwrite) = 0
  <1>0. UINT \in Nat \ {0} /\ PIPESIZE \in Nat \ {0} /\ PIPESIZE < UINT
    BY PipeAssumption, Zenon
  <1>c. /\ Count(nread, nwrite) \in Counter
        /\ nread <= nwrite => Count(nread, nwrite) = nwrite - nread
        /\ nwrite < nread => Count(nread, nwrite) = nwrite + UINT - nread
    BY CountIs, Zenon
  <1>1. Empty <=> Count(nread, nwrite) = 0
    BY <1>0, <1>c DEF Empty, Counter
  <1>2. CASE nread + PIPESIZE < UINT
    <2>1. (nread + PIPESIZE) % UINT = nread + PIPESIZE
      BY <1>0, <1>2, SmallRemainder DEF Counter
    <2> QED BY <1>0, <1>1, <1>2, <2>1, <1>c DEF Full, Counter
  <1>3. CASE nread + PIPESIZE >= UINT
    <2>1. nread + PIPESIZE - UINT \in 0 .. UINT - 1
      BY <1>0, <1>3 DEF Counter
    <2>2. (nread + PIPESIZE) % UINT = nread + PIPESIZE - UINT
      <3>1. ((nread + PIPESIZE - UINT) + UINT) % UINT = nread + PIPESIZE - UINT
        BY <1>0, <2>1, SmallRemainder, Zenon
      <3>2. (nread + PIPESIZE - UINT) + UINT = nread + PIPESIZE
        BY <1>0 DEF Counter
      <3> QED BY <3>1, <3>2, Zenon
    <2> QED BY <1>0, <1>1, <1>3, <2>2, <1>c DEF Full, Counter
  <1> QED BY <1>0, <1>2, <1>3 DEF Counter
-----------------------------------------------------------------------------
(* The bytes in the pipe *)

Size == Count(nread, nwrite)
Index(n) == n % PIPESIZE

\* Queue is a sequence of Size bytes.
LEMMA QueueIs ==
  ASSUME StructType
  PROVE  /\ nread \in Counter /\ nwrite \in Counter /\ nread \in Nat /\ nwrite \in Nat
         /\ Size \in Nat /\ Queue \in Seq(Bytes) /\ Len(Queue) = Size
         /\ \A k \in 1 .. Size : Queue[k] = data[Index(nread + k - 1)]
         /\ Queue = [k \in 1 .. Size |-> data[Index(nread + k - 1)]]
  <1>1. nread \in Counter /\ nwrite \in Counter
    BY Zenon DEF StructType, Counter
  <1>2. nread \in Nat /\ nwrite \in Nat
    BY <1>1, PipeAssumption DEF Counter
  <1>3. Size \in Nat
    BY <1>1, CountIs, PipeAssumption DEF Size, Counter
  <1>4. Queue = [k \in 1 .. Size |-> data[Index(nread + k - 1)]]
    BY Zenon DEF Queue, Size, Count, Index
  <1>5. \A k \in 1 .. Size : data[Index(nread + k - 1)] \in Bytes
    <2> TAKE k \in 1 .. Size
    <2>1. nread + k - 1 \in Nat
      BY <1>2, <1>3
    <2>2. Index(nread + k - 1) \in 0 .. PIPESIZE - 1
      BY <2>1, Remainder, PipeAssumption, Zenon DEF Index
    <2> QED BY <2>2, Zenon DEF StructType
  <1> QED BY <1>1, <1>2, <1>3, <1>4, <1>5

\* pipewrite()'s data[nwrite++ % PIPESIZE] = ch puts ch behind the bytes in the pipe.
LEMMA WriteAppends ==
  ASSUME StructType, StructType', Size < PIPESIZE, NEW ch \in Bytes,
         data' = [data EXCEPT ![Index(nwrite)] = ch], nwrite' = Next1(nwrite), nread' = nread
  PROVE  Queue' = Append(Queue, ch)
  <1>1. /\ nread \in Counter /\ nwrite \in Counter /\ nread \in Nat /\ nwrite \in Nat
        /\ Size \in Nat /\ Queue \in Seq(Bytes) /\ Len(Queue) = Size
        /\ \A k \in 1 .. Size : Queue[k] = data[Index(nread + k - 1)]
    BY QueueIs, Zenon
  <1>2. Size' = Size + 1
    BY <1>1, CountUp, Zenon DEF Size
  <1>3. Index(nread + Size) = Index(nwrite)
    <2>1. nread + Size = nwrite \/ nread + Size = UINT + nwrite
      <3>1. /\ nread <= nwrite => Size = nwrite - nread
            /\ nwrite < nread => Size = nwrite + UINT - nread
        BY <1>1, CountIs, Zenon DEF Size
      <3> QED BY <1>1, <3>1, PipeAssumption
    <2> QED BY <2>1, <1>1, IndexWraps, Zenon DEF Index
  <1>4. ASSUME NEW k \in 1 .. Size PROVE data'[Index(nread + k - 1)] = Queue[k]
    <2>0. PIPESIZE \in Nat
      BY PipeAssumption, Zenon
    <2>1. /\ nread + k - 1 \in Nat /\ nread + Size \in Nat
          /\ nread + k - 1 < nread + Size /\ nread + Size < (nread + k - 1) + PIPESIZE
      BY <1>1, <2>0
    <2>2. Index(nread + k - 1) # Index(nwrite)
      BY <2>1, <1>3, IndexDiffers, Zenon DEF Index
    <2>3. Index(nread + k - 1) \in 0 .. PIPESIZE - 1
      BY <2>1, Remainder, PipeAssumption, Zenon DEF Index
    <2> QED BY <1>1, <2>2, <2>3, Zenon DEF StructType
  <1>5. data'[Index(nwrite)] = ch
    <2>1. Index(nwrite) \in 0 .. PIPESIZE - 1
      BY <1>1, Remainder, PipeAssumption, Zenon DEF Index
    <2> QED BY <2>1, Zenon DEF StructType
  <1>6. Queue' = [k \in 1 .. Size + 1 |-> data'[Index(nread + k - 1)]]
    BY <1>2 DEF Queue, Size, Count, Index
  <1>7. \A k \in 1 .. Size + 1 :
          data'[Index(nread + k - 1)] = IF k = Size + 1 THEN ch ELSE Queue[k]
    <2> TAKE k \in 1 .. Size + 1
    <2>1. CASE k = Size + 1
      <3>1. nread + k - 1 = nread + Size
        BY <2>1, <1>1
      <3> QED BY <3>1, <2>1, <1>3, <1>5, Zenon
    <2>2. CASE k # Size + 1
      BY <2>2, <1>1, <1>4
    <2> QED BY <2>1, <2>2, Zenon
  <1>8. \A k \in 1 .. Size : Queue[k] \in Bytes
    BY <1>1, ElementOfSeq, Zenon
  <1>9. /\ Queue' \in Seq(Bytes) /\ Len(Queue') = Size + 1
        /\ \A k \in 1 .. Size + 1 : Queue'[k] = IF k = Size + 1 THEN ch ELSE Queue[k]
    <2>1. Size + 1 \in Nat /\ \A k \in 1 .. Size + 1 : k # Size + 1 => k \in 1 .. Size
      BY <1>1
    <2>2. \A k \in 1 .. Size + 1 : data'[Index(nread + k - 1)] \in Bytes
      BY <2>1, <1>7, <1>8, Zenon
    <2>3. Queue' \in Seq(Bytes) /\ Len(Queue') = Size + 1
      BY <2>1, <2>2, <1>6
    <2>4. \A k \in 1 .. Size + 1 : Queue'[k] = data'[Index(nread + k - 1)]
      BY <1>6, Zenon
    <2> QED BY <2>3, <2>4, <1>7, Zenon
  <1>10. /\ Append(Queue, ch) \in Seq(Bytes) /\ Len(Append(Queue, ch)) = Size + 1
         /\ \A k \in 1 .. Size : Append(Queue, ch)[k] = Queue[k]
         /\ Append(Queue, ch)[Size + 1] = ch
    BY <1>1, AppendProperties
  <1>11. \A k \in 1 .. Len(Queue') : Queue'[k] = Append(Queue, ch)[k]
    BY <1>1, <1>9, <1>10
  <1> QED BY <1>9, <1>10, <1>11, SeqEqual, Zenon

\* piperead()'s data[nread++ % PIPESIZE] takes the first of the bytes in the pipe.
LEMMA ReadTakes ==
  ASSUME StructType, StructType', ~Empty,
         data' = data, nread' = Next1(nread), nwrite' = nwrite
  PROVE  Queue # <<>> /\ Head(Queue) = data[Index(nread)] /\ Queue' = Tail(Queue)
  <1>1. /\ nread \in Counter /\ nwrite \in Counter /\ nread \in Nat /\ nwrite \in Nat
        /\ Size \in Nat /\ Queue \in Seq(Bytes) /\ Len(Queue) = Size
        /\ \A k \in 1 .. Size : Queue[k] = data[Index(nread + k - 1)]
    BY QueueIs, Zenon
  <1>2. Size > 0 /\ Size' = Size - 1
    BY <1>1, CountDown, Zenon DEF Size, Empty
  <1>3. Queue # <<>> /\ Head(Queue) = data[Index(nread)]
    <2>1. Queue[1] = data[Index(nread + 1 - 1)] /\ nread + 1 - 1 = nread
      BY <1>1, <1>2
    <2> QED BY <1>1, <1>2, <2>1
  <1>4. ASSUME NEW k \in 1 .. Size - 1 PROVE Index(nread' + k - 1) = Index(nread + k)
    <2>1. nread' = nread + 1 \/ (nread' = 0 /\ nread + 1 = UINT)
      <3>1. nread \in Nat /\ UINT \in Nat
        BY <1>1, PipeAssumption, Zenon
      <3>2. (nread # UINT - 1 => nread' = nread + 1) /\ (nread = UINT - 1 => nread' = 0)
        BY <1>1, Next1Is, Zenon
      <3> QED BY <3>1, <3>2
    <2>2. CASE nread' = nread + 1
      <3>1. nread' + k - 1 = nread + k
        BY <2>2, <1>1
      <3> QED BY <3>1, Zenon
    <2>3. CASE nread' = 0 /\ nread + 1 = UINT
      <3>1. k - 1 \in Nat /\ UINT + (k - 1) = nread + k /\ nread' + k - 1 = k - 1
        BY <2>3, <1>1
      <3>2. (UINT + (k - 1)) % PIPESIZE = (k - 1) % PIPESIZE
        BY <3>1, IndexWraps, Zenon
      <3> QED BY <3>1, <3>2, Zenon DEF Index
    <2> QED BY <2>1, <2>2, <2>3, Zenon
  <1>5. Queue' = [k \in 1 .. Size - 1 |-> data[Index(nread' + k - 1)]]
    BY <1>2, Zenon DEF Queue, Size, Count, Index
  <1>6. \A k \in 1 .. Size - 1 : data[Index(nread' + k - 1)] = Queue[k + 1]
    <2> TAKE k \in 1 .. Size - 1
    <2>1. k + 1 \in 1 .. Size /\ nread + (k + 1) - 1 = nread + k
      BY <1>1
    <2>2. Queue[k + 1] = data[Index(nread + k)]
      BY <1>1, <2>1, Zenon
    <2> QED BY <2>2, <1>4, Zenon
  <1>7. \A k \in 1 .. Size - 1 : Queue[k + 1] \in Bytes
    BY <1>1, ElementOfSeq
  <1>8. /\ Queue' \in Seq(Bytes) /\ Len(Queue') = Size - 1
        /\ \A k \in 1 .. Size - 1 : Queue'[k] = Queue[k + 1]
    <2>1. Size - 1 \in Nat
      BY <1>1, <1>2
    <2>2. \A k \in 1 .. Size - 1 : data[Index(nread' + k - 1)] \in Bytes
      BY <1>6, <1>7, Zenon
    <2>3. Queue' \in Seq(Bytes) /\ Len(Queue') = Size - 1
      BY <2>1, <2>2, <1>5
    <2>4. \A k \in 1 .. Size - 1 : Queue'[k] = data[Index(nread' + k - 1)]
      BY <1>5, Zenon
    <2> QED BY <2>3, <2>4, <1>6, Zenon
  <1>9. /\ Tail(Queue) \in Seq(Bytes) /\ Len(Tail(Queue)) = Size - 1
        /\ \A k \in 1 .. Size - 1 : Tail(Queue)[k] = Queue[k + 1]
    BY <1>1, <1>3, HeadTailProperties, ZenonT(60)
  <1>10. \A k \in 1 .. Len(Queue') : Queue'[k] = Tail(Queue)[k]
    BY <1>8, <1>9, Zenon
  <1> QED BY <1>3, <1>8, <1>9, <1>10, SeqEqual, Zenon
-----------------------------------------------------------------------------
(* The refinement *)

\* The pipe never has more bytes than the buffer.
QInv == PInv /\ Size <= PIPESIZE

\* What the proof needs to know of a step besides PInv.
LEMMA QueueUnchanged ==
  ASSUME UNCHANGED <<data, nread, nwrite>> PROVE Queue' = Queue /\ Size' = Size
  BY Zenon DEF Queue, Size, Count

BNext == B!Write \/ B!Read \/ B!End \/ B!Close

\* Every step of a process is a step of the queue, or none, and keeps QInv.
LEMMA ActsRefine ==
  ASSUME QInv, PInv', NEW p \in Peers, Acts(p)
  PROVE  Size' <= PIPESIZE /\ [BNext]_<<Queue, writeopen, got>>
  <1>0. StructType /\ StructType'
    BY Zenon DEF QInv, PInv, PTypeOK, StructType
  <1>1. /\ nread \in Counter /\ nwrite \in Counter /\ Size \in Nat /\ Len(Queue) = Size
        /\ Queue \in Seq(Bytes)
    BY <1>0, QueueIs, Zenon
  <1>2. (Full <=> Size = PIPESIZE) /\ (Empty <=> Size = 0)
    BY <1>1, FullIs, Zenon DEF Size
  <1>3. CASE UNCHANGED <<data, nread, nwrite, writeopen, got>>
    BY <1>3, QueueUnchanged, Zenon DEF QInv
  <1>4. CASE pipewrite_byte(p)
    <2>1. CASE UNCHANGED <<data, nwrite>>
      BY <1>3, <1>4, <2>1, Zenon DEF pipewrite_byte
    <2>2. CASE ~UNCHANGED <<data, nwrite>>
      <3>1. PICK ch \in Bytes : data' = [data EXCEPT ![Index(nwrite)] = ch]
        BY <1>4, <2>2, Zenon DEF pipewrite_byte, Index
      <3>2. nwrite' = Next1(nwrite) /\ nread' = nread /\ UNCHANGED <<writeopen, got>>
        BY <1>4, <2>2, Zenon DEF pipewrite_byte, Next1
      <3>3. Size < PIPESIZE
        BY <1>1, <1>2, <1>4, PipeAssumption DEF pipewrite_byte, QInv
      <3>4. Queue' = Append(Queue, ch)
        BY <1>0, <3>1, <3>2, <3>3, WriteAppends, Zenon
      <3>5. Size' = Size + 1
        BY <1>1, <3>2, <3>3, CountUp, Zenon DEF Size
      <3>6. writeopen
        BY <1>4, Zenon DEF QInv, PInv, EndsInv, InWrite, pipewrite_byte
      <3>7. B!Write
        BY <1>1, <3>2, <3>3, <3>4, <3>6, Zenon DEF B!Write
      <3> QED BY <1>1, <3>3, <3>5, <3>7, PipeAssumption DEF BNext
    <2> QED BY <2>1, <2>2, Zenon
  <1>5. CASE piperead_byte(p)
    <2>1. /\ ~Empty /\ got' = data[Index(nread)] /\ nread' = Next1(nread)
          /\ UNCHANGED <<data, nwrite, writeopen>>
      BY <1>5, Zenon DEF piperead_byte, Next1, Index
    <2>2. Queue # <<>> /\ Head(Queue) = data[Index(nread)] /\ Queue' = Tail(Queue)
      BY <1>0, <2>1, ReadTakes, Zenon
    <2>3. Size' = Size - 1
      BY <1>1, <2>1, CountDown, Zenon DEF Size, Empty
    <2>4. B!Read
      BY <2>1, <2>2, Zenon DEF B!Read
    <2> QED BY <1>1, <2>3, <2>4, PipeAssumption DEF BNext, QInv
  <1>6. CASE piperead_done(p)
    <2>1. UNCHANGED <<data, nread, nwrite, writeopen>>
      BY <1>6, Zenon DEF piperead_done, pipe
    <2>2. CASE got' = got
      BY <1>3, <2>1, <2>2, Zenon
    <2>3. CASE got' # got
      <3>1. at[p] = "first" /\ Empty /\ got' = EOF
        BY <1>1, <1>6, <2>3 DEF piperead_done, QInv, PInv, PTypeOK
      <3>2. ~writeopen
        BY <3>1, Zenon DEF QInv, PInv, TestedInv
      <3>3. Queue = <<>>
        BY <1>1, <1>2, <3>1
      <3>4. B!End
        BY <2>1, <3>1, <3>2, <3>3, QueueUnchanged, Zenon DEF B!End
      <3> QED BY <2>1, <3>4, QueueUnchanged, Zenon DEF BNext, QInv
    <2> QED BY <2>2, <2>3, Zenon
  <1>7. ASSUME NEW end \in {"r", "w"}, pipeclose(p, end)
        PROVE  Size' <= PIPESIZE /\ [BNext]_<<Queue, writeopen, got>>
    <2>1. UNCHANGED <<data, nread, nwrite, got>> /\ (writeopen' = writeopen \/ writeopen' = FALSE)
      BY <1>7, Zenon DEF pipeclose
    <2>2. Queue' = Queue /\ Size' = Size
      BY <2>1, QueueUnchanged, Zenon
    <2> QED BY <2>1, <2>2, Zenon DEF BNext, B!Close, QInv
  <1> QED BY <1>3, <1>4, <1>5, <1>6, <1>7, Zenon DEF Acts, pipewrite, piperead, Call, acquire,
       pipewrite_check, pipewrite_full, piperead_check, piperead_sleep, kill_peer, pipe

\* A pipe is a bounded queue of bytes: they come out in the order in which they went in, none
\* is lost or seen twice, and a read of 0 bytes means that nothing can come any more.
THEOREM PipeIsFifo == PSpec => Fifo
  <1>1. PInit => B!Init /\ Size <= PIPESIZE
    <2> SUFFICES ASSUME PInit PROVE B!Init /\ Size <= PIPESIZE
      BY Zenon
    <2>1. Size = 0
      <3>1. 0 \in Counter
        BY PipeAssumption DEF Counter
      <3>2. Count(0, 0) = 0
        BY <3>1, CountIs
      <3> QED BY <3>2, Zenon DEF PInit, Size
    <2>2. Queue = <<>>
      BY <2>1 DEF Queue, Size, Count
    <2> QED BY <2>1, <2>2, PipeAssumption DEF PInit, B!Init
  <1>2. QInv /\ PInv' /\ [PNext]_pvars => QInv' /\ [BNext]_<<Queue, writeopen, got>>
    <2> SUFFICES ASSUME QInv, PInv', [PNext]_pvars
                 PROVE  QInv' /\ [BNext]_<<Queue, writeopen, got>>
      BY Zenon
    <2>1. CASE PNext
      <3>1. PICK p \in Peers : Acts(p)
        BY <2>1, Zenon DEF PNext, Acts
      <3> QED BY <3>1, ActsRefine, Zenon DEF QInv
    <2>2. CASE UNCHANGED pvars
      <3>1. UNCHANGED <<data, nread, nwrite, writeopen, got>>
        BY <2>2, Zenon DEF pvars, pipe
      <3> QED BY <3>1, QueueUnchanged, Zenon DEF QInv
    <2> QED BY <2>1, <2>2, Zenon
  <1>3. PSpec => []QInv
    BY <1>1, <1>2, PipeInvariant, PTL DEF PSpec, QInv
  <1> QED BY <1>1, <1>2, <1>3, PipeInvariant, PTL DEF PSpec, Fifo, B!Spec, BNext
=============================================================================
