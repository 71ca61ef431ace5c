----------------------------- MODULE VirtioDisk -----------------------------
(***************************************************************************)
(* The disk driver, kernel/virtio_disk.c, with the device it talks to.      *)
(*                                                                          *)
(* Driver and device share the descriptors, the avail ring and the used     *)
(* ring; the device runs concurrently with code that holds vdisk_lock, so   *)
(* the driver's writes that it can see in between are separate steps.  A    *)
(* buffer is in use by one process at a time (its sleep lock), and buffer b *)
(* caches block b.  A ring entry that has been read is set to 0, whatever it  *)
(* held: nobody reads it again before it is rewritten.                        *)
(***************************************************************************)
EXTENDS Integers, FiniteSets, FiniteSetsExt

CONSTANTS Procs, Bufs, Data,
          NUM,     \* descriptors, and entries of each ring
          UINT16,  \* 2^16: the width of the ring indices
          Nobody   \* no process, no buffer

ASSUME VirtioAssumption ==
  /\ NUM \in Nat \ {0} /\ UINT16 \in Nat \ {0} /\ UINT16 % NUM = 0
  /\ Nobody \notin Procs \cup Bufs /\ "intr" \notin Procs \cup {Nobody}

Desc == 0 .. NUM - 1
NoOp == <<Nobody, FALSE>>
END == -1   \* a descriptor without VRING_DESC_F_NEXT

VARIABLES free, next,        \* disk.free[], disk.desc[].next
          op, status, infob, \* disk.ops[] and the data descriptor; disk.info[]
          avail, availidx,   \* disk.avail
          used, usedidx,     \* disk.used
          used_idx,          \* disk.used_idx
          bdisk,             \* b->disk
          mem, media,        \* b->data, and the block on the disk
          lock,              \* vdisk_lock: a process, "intr" or Nobody
          pc, buf, head,     \* virtio_disk_rw(): place, b, idx[0]
          write,             \* the processes that write
          devidx, inflight,  \* the device: entries of avail taken, requests in work
          irq,               \* the device wants an interrupt
          panicked

request == <<next, op, infob>>
device == <<devidx, inflight, media, used, usedidx, status>>
vars == <<free, request, avail, availidx, used_idx, bdisk, mem, lock, pc, buf, head,
          write, device, irq, panicked>>

Init == /\ free = Desc
        /\ next = [i \in Desc |-> END] /\ status = [i \in Desc |-> 0]
        /\ op = [i \in Desc |-> NoOp] /\ infob = [i \in Desc |-> Nobody]
        /\ avail = [i \in Desc |-> 0] /\ availidx = 0
        /\ used = [i \in Desc |-> 0] /\ usedidx = 0 /\ used_idx = 0
        /\ bdisk = [b \in Bufs |-> 0]
        /\ media \in [Bufs -> Data] /\ mem = media
        /\ lock = Nobody
        /\ pc = [p \in Procs |-> "idle"] /\ buf = [p \in Procs |-> Nobody]
        /\ head = [p \in Procs |-> END] /\ write = {}
        /\ devidx = 0 /\ inflight = {} /\ irq = FALSE /\ panicked = FALSE

Goto(p, l) == pc' = [pc EXCEPT ![p] = l]

\* wakeup(&disk.free[0]) and wakeup(b): back to acquire(&vdisk_lock).
wakeup_free(pcs) == [q \in Procs |-> IF pcs[q] = "nodesc" THEN "alloc" ELSE pcs[q]]
wakeup_buf(b) == [q \in Procs |-> IF pc[q] = "sleep" /\ buf[q] = b THEN "woken" ELSE pc[q]]

\* The descriptors that free_chain(i) walks over.
chain(i) == LET walk[j \in Desc \cup {END}] == IF j = END THEN {} ELSE {j} \cup walk[next[j]]
            IN walk[i]
-----------------------------------------------------------------------------
(* virtio_disk_rw() *)

\* The caller has b->lock.  What b holds is the contents to be written, or whatever
\* the recycled buffer held before.
virtio_disk_rw(p, b) ==
  /\ pc[p] = "idle" /\ \A q \in Procs : buf[q] # b
  /\ buf' = [buf EXCEPT ![p] = b]
  /\ write' \in {write, write \cup {p}}
  /\ \E d \in Data : mem' = [mem EXCEPT ![b] = d]
  /\ Goto(p, "alloc")
  /\ UNCHANGED <<free, request, avail, availidx, used_idx, bdisk, lock, head, device, irq, panicked>>

\* Mutant of submit: b->disk is not set.
submit_unmarked(p) ==
  /\ pc[p] = "alloc" /\ lock = Nobody /\ Cardinality(free) >= 3
  /\ LET i0 == Min(free)
         i1 == Min(free \ {i0})
         i2 == Min(free \ {i0, i1}) IN
     /\ free' = free \ {i0, i1, i2}
     /\ next' = [next EXCEPT ![i0] = i1, ![i1] = i2, ![i2] = END]
     /\ op' = [op EXCEPT ![i0] = <<buf[p], p \in write>>]
     /\ status' = [status EXCEPT ![i0] = 255]
     /\ infob' = [infob EXCEPT ![i0] = buf[p]]
     /\ avail' = [avail EXCEPT ![availidx % NUM] = i0]
     /\ head' = [head EXCEPT ![p] = i0]
  /\ lock' = p
  /\ Goto(p, "publish")
  /\ UNCHANGED <<availidx, used_idx, bdisk, mem, buf, write, devidx, inflight, media, used, usedidx,
                 irq, panicked>>

\* alloc3_desc() takes the lowest three; the descriptors, disk.info[] and the entry
\* of the avail ring are filled in.
submit(p) ==
  /\ pc[p] = "alloc" /\ lock = Nobody /\ Cardinality(free) >= 3
  /\ LET i0 == Min(free)
         i1 == Min(free \ {i0})
         i2 == Min(free \ {i0, i1}) IN
     /\ free' = free \ {i0, i1, i2}
     /\ next' = [next EXCEPT ![i0] = i1, ![i1] = i2, ![i2] = END]
     /\ op' = [op EXCEPT ![i0] = <<buf[p], p \in write>>]
     /\ status' = [status EXCEPT ![i0] = 255]
     /\ infob' = [infob EXCEPT ![i0] = buf[p]]
     /\ avail' = [avail EXCEPT ![availidx % NUM] = i0]
     /\ head' = [head EXCEPT ![p] = i0]
  /\ bdisk' = [bdisk EXCEPT ![buf[p]] = 1]
  /\ lock' = p
  /\ Goto(p, "publish")
  /\ UNCHANGED <<availidx, used_idx, mem, buf, write, devidx, inflight, media, used, usedidx,
                 irq, panicked>>

\* Too few descriptors: alloc3_desc() gives back what it took, waking others if that
\* was anything, and the process sleeps on disk.free.
nodesc(p) ==
  /\ pc[p] = "alloc" /\ lock = Nobody /\ Cardinality(free) < 3
  /\ pc' = [IF free = {} THEN pc ELSE wakeup_free(pc) EXCEPT ![p] = "nodesc"]
  /\ UNCHANGED <<free, request, avail, availidx, used_idx, bdisk, mem, lock, buf, write, head,
                 device, irq, panicked>>

\* The device may look from here on.
publish(p) ==
  /\ pc[p] = "publish"
  /\ availidx' = (availidx + 1) % UINT16
  /\ Goto(p, "check")
  /\ UNCHANGED <<free, request, avail, used_idx, bdisk, mem, lock, buf, write, head, device,
                 irq, panicked>>

\* while(b->disk == 1) sleep(b, &disk.vdisk_lock)
wait_done(p) ==
  /\ pc[p] = "check" /\ bdisk[buf[p]] = 1
  /\ Goto(p, "sleep") /\ lock' = Nobody
  /\ UNCHANGED <<free, request, avail, availidx, used_idx, bdisk, mem, buf, write, head, device,
                 irq, panicked>>

recheck(p) ==
  /\ pc[p] = "woken" /\ lock = Nobody
  /\ lock' = p /\ Goto(p, "check")
  /\ UNCHANGED <<free, request, avail, availidx, used_idx, bdisk, mem, buf, write, head, device,
                 irq, panicked>>

\* Mutant of complete: only the first descriptor of the chain is freed.
complete_first(p) ==
  /\ pc[p] = "check" /\ bdisk[buf[p]] = 0
  /\ infob' = [infob EXCEPT ![head[p]] = Nobody]
  /\ panicked' = ({head[p]} \cap free # {})
  /\ free' = free \cup {head[p]}
  /\ next' = [i \in Desc |-> IF i \in {head[p]} THEN END ELSE next[i]]
  /\ op' = [op EXCEPT ![head[p]] = NoOp]
  /\ write' = write \ {p}
  /\ pc' = wakeup_free([pc EXCEPT ![p] = "idle"])
  /\ buf' = [buf EXCEPT ![p] = Nobody]
  /\ head' = [head EXCEPT ![p] = END]
  /\ lock' = Nobody
  /\ UNCHANGED <<avail, availidx, used_idx, bdisk, mem, device, irq>>

\* free_chain(idx[0]); free_desc() panics on a descriptor that is free.
complete(p) ==
  /\ pc[p] = "check" /\ bdisk[buf[p]] = 0
  /\ infob' = [infob EXCEPT ![head[p]] = Nobody]
  /\ panicked' = (chain(head[p]) \cap free # {})
  /\ free' = free \cup chain(head[p])
  /\ next' = [i \in Desc |-> IF i \in chain(head[p]) THEN END ELSE next[i]]
  /\ op' = [op EXCEPT ![head[p]] = NoOp]
  /\ write' = write \ {p}
  /\ pc' = wakeup_free([pc EXCEPT ![p] = "idle"])
  /\ buf' = [buf EXCEPT ![p] = Nobody]
  /\ head' = [head EXCEPT ![p] = END]
  /\ lock' = Nobody
  /\ UNCHANGED <<avail, availidx, used_idx, bdisk, mem, device, irq>>

\* kill() wakes a process that sleeps for any reason.
kill(p) ==
  /\ \/ pc[p] = "sleep" /\ Goto(p, "woken")
     \/ pc[p] = "nodesc" /\ Goto(p, "alloc")
  /\ UNCHANGED <<free, request, avail, availidx, used_idx, bdisk, mem, lock, buf, write, head,
                 device, irq, panicked>>
-----------------------------------------------------------------------------
(* virtio_disk_intr() *)

intr_ack ==
  /\ irq /\ lock = Nobody
  /\ irq' = FALSE /\ lock' = "intr"
  /\ UNCHANGED <<free, request, avail, availidx, used_idx, bdisk, mem, pc, buf, write, head,
                 device, panicked>>

\* Mutant of intr_entry: nobody is woken.
intr_entry_silent == LET id == used[used_idx % NUM] IN
  /\ lock = "intr" /\ used_idx # usedidx
  /\ IF status[id] # 0 \/ infob[id] = Nobody
     THEN panicked' = TRUE /\ UNCHANGED <<bdisk, pc>>
     ELSE /\ bdisk' = [bdisk EXCEPT ![infob[id]] = 0]
          /\ pc' = pc
          /\ UNCHANGED panicked
  /\ used' = [used EXCEPT ![used_idx % NUM] = 0]
  /\ used_idx' = (used_idx + 1) % UINT16
  /\ UNCHANGED <<free, request, avail, availidx, mem, lock, buf, write, head, devidx, inflight,
                 media, usedidx, status, irq>>

\* One entry of the used ring.
intr_entry == LET id == used[used_idx % NUM] IN
  /\ lock = "intr" /\ used_idx # usedidx
  /\ IF status[id] # 0 \/ infob[id] = Nobody
     THEN panicked' = TRUE /\ UNCHANGED <<bdisk, pc>>
     ELSE /\ bdisk' = [bdisk EXCEPT ![infob[id]] = 0]
          /\ pc' = wakeup_buf(infob[id])
          /\ UNCHANGED panicked
  /\ used' = [used EXCEPT ![used_idx % NUM] = 0]
  /\ used_idx' = (used_idx + 1) % UINT16
  /\ UNCHANGED <<free, request, avail, availidx, mem, lock, buf, write, head, devidx, inflight,
                 media, usedidx, status, irq>>

intr_done ==
  /\ lock = "intr" /\ used_idx = usedidx
  /\ lock' = Nobody
  /\ UNCHANGED <<free, request, avail, availidx, used_idx, bdisk, mem, pc, buf, write, head,
                 device, irq, panicked>>
-----------------------------------------------------------------------------
(* The device: takes requests in order, finishes them in any order. *)

dev_take ==
  /\ devidx # availidx
  /\ inflight' = inflight \cup {avail[devidx % NUM]}
  /\ avail' = [avail EXCEPT ![devidx % NUM] = 0]
  /\ devidx' = (devidx + 1) % UINT16
  /\ UNCHANGED <<free, request, availidx, used_idx, bdisk, mem, lock, pc, buf, write, head,
                 media, used, usedidx, status, irq, panicked>>

dev_finish(h) == LET b == op[h][1] IN
  /\ h \in inflight
  /\ inflight' = inflight \ {h}
  /\ IF op[h][2]
     THEN media' = [media EXCEPT ![b] = mem[b]] /\ UNCHANGED mem
     ELSE mem' = [mem EXCEPT ![b] = media[b]] /\ UNCHANGED media
  /\ status' = [status EXCEPT ![h] = 0]
  /\ used' = [used EXCEPT ![usedidx % NUM] = h]
  /\ usedidx' = (usedidx + 1) % UINT16
  /\ irq' = TRUE
  /\ UNCHANGED <<free, request, avail, availidx, used_idx, bdisk, lock, pc, buf, write, head,
                 devidx, panicked>>

Driver(p) == submit(p) \/ nodesc(p) \/ publish(p) \/ wait_done(p) \/ recheck(p) \/ complete(p)
Intr == intr_ack \/ intr_entry \/ intr_done
Device == dev_take \/ \E h \in Desc : dev_finish(h)

Next == /\ ~panicked
        /\ \/ \E p \in Procs : Driver(p) \/ kill(p) \/ \E b \in Bufs : virtio_disk_rw(p, b)
           \/ Intr \/ Device

Spec == Init /\ [][Next]_vars

\* The code goes on, interrupts are delivered, and the device serves every request.
Fairness == /\ \A p \in Procs : WF_vars(publish(p) \/ wait_done(p) \/ complete(p))
                                /\ SF_vars(recheck(p))
            /\ SF_vars(intr_ack) /\ WF_vars(intr_entry \/ intr_done)
            /\ WF_vars(dev_take) /\ \A h \in Desc : WF_vars(dev_finish(h))
FairSpec == Spec /\ Fairness
-----------------------------------------------------------------------------
(* Properties *)

Submitted == {p \in Procs : head[p] # END}

TypeOK ==
  /\ free \subseteq Desc /\ next \in [Desc -> Desc \cup {END}]
  /\ op \in [Desc -> (Bufs \cup {Nobody}) \X BOOLEAN] /\ status \in [Desc -> {0, 255}]
  /\ infob \in [Desc -> Bufs \cup {Nobody}]
  /\ avail \in [Desc -> Desc] /\ used \in [Desc -> Desc]
  /\ {availidx, usedidx, used_idx, devidx} \subseteq 0 .. UINT16 - 1
  /\ bdisk \in [Bufs -> {0, 1}] /\ mem \in [Bufs -> Data] /\ media \in [Bufs -> Data]
  /\ lock \in Procs \cup {Nobody, "intr"} /\ write \subseteq Procs
  /\ pc \in [Procs -> {"idle", "alloc", "nodesc", "publish", "check", "sleep", "woken"}]
  /\ buf \in [Procs -> Bufs \cup {Nobody}] /\ head \in [Procs -> Desc \cup {END}]
  /\ inflight \subseteq Desc /\ irq \in BOOLEAN /\ panicked \in BOOLEAN

\* Every descriptor is free or belongs to the chain of exactly one request, in
\* whatever order requests come back; no descriptor leaks.  Neither ring is overrun,
\* across the wrap of its indices: an entry that has not been taken is not overwritten.
\* The panics of free_desc() and virtio_disk_intr() are not reached.
DescriptorsOwned ==
  /\ TypeOK
  /\ \A p \in Submitted : /\ Cardinality(chain(head[p])) = 3
                          /\ chain(head[p]) \cap free = {}
  /\ \A p, q \in Submitted : p # q => chain(head[p]) \cap chain(head[q]) = {}
  /\ Cardinality(free) + 3 * Cardinality(Submitted) = NUM
  /\ (availidx + UINT16 - devidx) % UINT16 <= NUM \div 3
  /\ (usedidx + UINT16 - used_idx) % UINT16 <= NUM \div 3
  /\ ~panicked

\* The device has a buffer only as long as the request's process is in
\* virtio_disk_rw() with b->disk set: after the return nothing reads or writes it.
\* When the driver sees a request done, the buffer and the block on the disk agree.
DeviceOwnsBuffer ==
  /\ \A h \in inflight : \E p \in Submitted :
       head[p] = h /\ buf[p] = op[h][1] /\ bdisk[buf[p]] = 1
  /\ \A p \in Submitted :
       pc[p] # "publish" /\ bdisk[buf[p]] = 0 => mem[buf[p]] = media[buf[p]]

\* Every request that the device has been told of comes back to its process.
RequestReturns == \A p \in Procs : pc[p] = "publish" ~> pc[p] = "idle"
=============================================================================
