---------------------------- MODULE VirtioProofs ----------------------------
(***************************************************************************)
(* Proofs about VirtioDisk, for any number of processes and buffers, any    *)
(* number of descriptors and any width of the ring indices: no descriptor   *)
(* is lost or used twice, no ring is overrun, and the device has a buffer   *)
(* only while its process waits.                                            *)
(***************************************************************************)
EXTENDS VirtioDisk, TLAPS, FiniteSetTheorems, WellFoundedInduction

(* The inductive invariant. *)

\* How far the index b of a ring is ahead of a, the next index, and the entry k places
\* after a.
Ahead(a, b) == (b + UINT16 - a) % UINT16
Inc(n) == (n + 1) % UINT16
Entry(a, k) == (a + k) % NUM

\* From index a to index b, the ring holds the heads of the requests in S, once each.
Holds(ring, a, b, S, heads) ==
  /\ IsFiniteSet(S) /\ Ahead(a, b) = Cardinality(S)
  /\ \A k \in Nat : k < Ahead(a, b) => \E p \in S : ring[Entry(a, k)] = heads[p]
  /\ \A j, k \in Nat : j < k /\ k < Ahead(a, b) => ring[Entry(a, j)] # ring[Entry(a, k)]

\* Where a process in virtio_disk_rw() is, what it holds and what it has.
Callers == \A p \in Procs :
  /\ pc[p] = "idle" <=> buf[p] = Nobody
  /\ head[p] # END <=> pc[p] \in {"publish", "check", "sleep", "woken"}
  /\ pc[p] \in {"publish", "check"} <=> lock = p
  /\ \A q \in Procs : q # p /\ buf[p] # Nobody => buf[q] # buf[p]

\* The three descriptors of a request.
Own(p) == {head[p], next[head[p]], next[next[head[p]]]}

\* Every descriptor is free or one of the three of one request, linked in order.
Chains ==
  /\ IsFiniteSet(Submitted) /\ Cardinality(free) + 3 * Cardinality(Submitted) = NUM
  /\ \A p \in Submitted :
       /\ head[p] \in Desc \ free /\ next[head[p]] \in Desc \ free
       /\ next[next[head[p]]] \in Desc \ free /\ next[next[next[head[p]]]] = END
       /\ head[p] # next[head[p]]
       /\ next[next[head[p]]] \notin {head[p], next[head[p]]}
  /\ \A p, q \in Submitted : p # q => Own(p) \cap Own(q) = {}
  /\ \A i \in Desc : i \notin free => \E p \in Submitted : i \in Own(p)
  /\ \A i \in free : next[i] = END

\* Requests that the device has not taken, and that the handler has not seen done.
Queued == {p \in Submitted : pc[p] # "publish" /\ head[p] \notin inflight /\ status[head[p]] = 255}
Done == {p \in Submitted : status[head[p]] = 0 /\ bdisk[buf[p]] = 1}

\* What is known of a request on its way.
Requests ==
  /\ \A p \in Submitted :
       /\ op[head[p]][1] = buf[p] /\ infob[head[p]] = buf[p]
       /\ pc[p] = "publish" => /\ status[head[p]] = 255 /\ head[p] \notin inflight
                               /\ avail[availidx % NUM] = head[p]
       /\ status[head[p]] = 255 => bdisk[buf[p]] = 1
       /\ status[head[p]] = 0 => head[p] \notin inflight /\ mem[buf[p]] = media[buf[p]]
  /\ \A h \in inflight : \E p \in Submitted : head[p] = h

Rings == /\ Holds(avail, devidx, availidx, Queued, head)
         /\ Holds(used, used_idx, usedidx, Done, head)

VInv == TypeOK /\ Callers /\ Chains /\ Requests /\ Rings /\ ~panicked
-----------------------------------------------------------------------------
(* Ring indices *)

Index == 0 .. UINT16 - 1

LEMMA Sizes == /\ NUM \in Nat \ {0} /\ UINT16 \in Nat \ {0}
               /\ UINT16 = NUM * (UINT16 \div NUM) /\ UINT16 \div NUM \in Nat /\ NUM <= UINT16
  <1>1. NUM \in Nat \ {0} /\ UINT16 \in Nat \ {0} /\ UINT16 % NUM = 0
    BY VirtioAssumption, Zenon
  <1> DEFINE q == UINT16 \div NUM
  <1>2. UINT16 = NUM * q /\ q \in Nat
    BY <1>1
  <1> HIDE DEF q
  <1>3. q # 0
    BY <1>1, <1>2
  <1>4. NUM * q >= NUM
    BY <1>1, <1>2, <1>3
  <1> QED BY <1>1, <1>2, <1>4, Zenon DEF q

\* A remainder of a number below the modulus, or not twice the modulus.
LEMMA SmallRemainder ==
  ASSUME NEW m \in Nat \ {0}, NEW n \in 0 .. m - 1
  PROVE  n % m = n /\ (n + m) % m = n
  OBVIOUS

\* Adding a multiple of the modulus does not change the remainder.
LEMMA AddMultiple ==
  ASSUME NEW m \in Nat \ {0}, NEW q \in Nat, NEW k \in Nat
  PROVE  (m * q + k) % m = k % m
  <1>1. /\ k = m * (k \div m) + (k % m) /\ k \div m \in Nat
        /\ k % m \in 0 .. m - 1
    OBVIOUS
  <1>2. m * q + k = m * (q + (k \div m)) + (k % m) /\ q + (k \div m) \in Nat
    BY <1>1
  <1>3. \A s \in Nat, r \in 0 .. m - 1 : (m * s + r) % m = r
    OBVIOUS
  <1> QED BY <1>1, <1>2, <1>3, Zenon

\* uint16 wraps at a multiple of NUM, so the entry does not jump there.
LEMMA EntryWraps == \A k \in Nat : (UINT16 + k) % NUM = k % NUM
  <1>1. \A k \in Nat : (NUM * (UINT16 \div NUM) + k) % NUM = k % NUM
    BY Sizes, AddMultiple, Zenon
  <1> QED BY <1>1, Sizes, Zenon

LEMMA EntryType == \A a \in Index, k \in Nat : Entry(a, k) \in Desc
  BY Sizes DEF Entry, Desc, Index

\* Fewer than NUM places in a row are different entries.
LEMMA EntriesDiffer ==
  ASSUME NEW a \in Index, NEW i \in Nat, NEW j \in Nat, i < j, j < NUM
  PROVE  Entry(a, i) # Entry(a, j)
  <1> DEFINE m == NUM
             x == a + i
             y == a + j
  <1>0. m \in Nat \ {0} /\ x \in Nat /\ y \in Nat /\ y - x > 0 /\ y - x < m
    BY Sizes DEF Index
  <1> SUFFICES ASSUME x % m = y % m PROVE FALSE
    BY Zenon DEF Entry
  <1> HIDE DEF m, x, y
  <1>1. /\ x = m * (x \div m) + (x % m) /\ x \div m \in Nat
        /\ y = m * (y \div m) + (y % m) /\ y \div m \in Nat
    BY <1>0
  <1>2. y - x = m * ((y \div m) - (x \div m))
    BY <1>0, <1>1
  <1>3. \A d \in Int : m * d > 0 => m * d >= m
    BY <1>0
  <1>4. (y \div m) - (x \div m) \in Int
    BY <1>1
  <1>5. y - x >= m
    BY <1>0, <1>2, <1>3, <1>4, Zenon
  <1> QED BY <1>0, <1>5

\* b - a, allowing for the wrap.
LEMMA AheadIs ==
  ASSUME NEW a \in Index, NEW b \in Index
  PROVE  /\ Ahead(a, b) \in Index
         /\ a <= b => Ahead(a, b) = b - a
         /\ b < a => Ahead(a, b) = b + UINT16 - a
  <1>0. UINT16 \in Nat \ {0}
    BY Sizes, Zenon
  <1>1. CASE a <= b
    <2>1. b - a \in 0 .. UINT16 - 1 /\ b + UINT16 - a = (b - a) + UINT16
      BY <1>0, <1>1 DEF Index
    <2> QED BY <1>0, <1>1, <2>1, SmallRemainder DEF Ahead, Index
  <1>2. CASE b < a
    <2>1. b + UINT16 - a \in 0 .. UINT16 - 1
      BY <1>0, <1>2 DEF Index
    <2> QED BY <1>0, <1>2, <2>1, SmallRemainder DEF Ahead, Index
  <1> QED BY <1>0, <1>1, <1>2 DEF Index

LEMMA IncIs ==
  ASSUME NEW n \in Index
  PROVE  /\ Inc(n) \in Index
         /\ n # UINT16 - 1 => Inc(n) = n + 1
         /\ n = UINT16 - 1 => Inc(n) = 0
  <1>0. UINT16 \in Nat \ {0}
    BY Sizes, Zenon
  <1>1. CASE n = UINT16 - 1
    BY <1>0, <1>1, SmallRemainder DEF Inc, Index
  <1>2. CASE n # UINT16 - 1
    <2>1. n + 1 \in 0 .. UINT16 - 1
      BY <1>0, <1>2 DEF Index
    <2> QED BY <1>0, <1>2, <2>1, SmallRemainder, Zenon DEF Inc, Index
  <1> QED BY <1>1, <1>2, Zenon

\* One more entry, one entry less, none.
LEMMA AheadMoves ==
  ASSUME NEW a \in Index, NEW b \in Index
  PROVE  /\ Ahead(a, b) + 1 < UINT16 => Ahead(a, Inc(b)) = Ahead(a, b) + 1
         /\ Ahead(a, b) # 0 => Ahead(Inc(a), b) = Ahead(a, b) - 1
         /\ Ahead(a, b) = 0 <=> a = b
  <1>0. UINT16 \in Nat \ {0}
    BY Sizes, Zenon
  <1>1. Inc(a) \in Index /\ Inc(b) \in Index
    BY IncIs, Zenon
  <1>2. /\ a <= b => Ahead(a, b) = b - a
        /\ b < a => Ahead(a, b) = b + UINT16 - a
    BY AheadIs, Zenon
  <1>3. /\ a <= Inc(b) => Ahead(a, Inc(b)) = Inc(b) - a
        /\ Inc(b) < a => Ahead(a, Inc(b)) = Inc(b) + UINT16 - a
    BY <1>1, AheadIs, Zenon
  <1>4. /\ Inc(a) <= b => Ahead(Inc(a), b) = b - Inc(a)
        /\ b < Inc(a) => Ahead(Inc(a), b) = b + UINT16 - Inc(a)
    BY <1>1, AheadIs, Zenon
  <1>5. /\ a # UINT16 - 1 => Inc(a) = a + 1
        /\ a = UINT16 - 1 => Inc(a) = 0
        /\ b # UINT16 - 1 => Inc(b) = b + 1
        /\ b = UINT16 - 1 => Inc(b) = 0
    BY IncIs, Zenon
  <1>6. Ahead(a, b) + 1 < UINT16 => Ahead(a, Inc(b)) = Ahead(a, b) + 1
    BY <1>0, <1>2, <1>3, <1>5 DEF Index
  <1>7. Ahead(a, b) # 0 => Ahead(Inc(a), b) = Ahead(a, b) - 1
    BY <1>0, <1>2, <1>4, <1>5 DEF Index
  <1>8. Ahead(a, b) = 0 <=> a = b
    BY <1>0, <1>2 DEF Index
  <1> QED BY <1>6, <1>7, <1>8, Zenon

\* The entries at the ends.
LEMMA EntryMoves ==
  ASSUME NEW a \in Index, NEW b \in Index
  PROVE  /\ Entry(a, Ahead(a, b)) = b % NUM /\ Entry(a, 0) = a % NUM
         /\ \A k \in Nat : Entry(Inc(a), k) = Entry(a, k + 1)
  <1>0. UINT16 \in Nat \ {0} /\ NUM \in Nat \ {0}
    BY Sizes, Zenon
  <1>1. Entry(a, Ahead(a, b)) = b % NUM
    <2>1. CASE a <= b
      <3>1. a + Ahead(a, b) = b
        BY <1>0, <2>1, AheadIs DEF Index
      <3> QED BY <3>1, Zenon DEF Entry
    <2>2. CASE b < a
      <3>1. a + Ahead(a, b) = UINT16 + b /\ b \in Nat
        BY <1>0, <2>2, AheadIs DEF Index
      <3> QED BY <3>1, EntryWraps, Zenon DEF Entry
    <2> QED BY <1>0, <2>1, <2>2 DEF Index
  <1>2. Entry(a, 0) = a % NUM
    BY <1>0 DEF Entry, Index
  <1>3. ASSUME NEW k \in Nat PROVE Entry(Inc(a), k) = Entry(a, k + 1)
    <2>1. CASE a # UINT16 - 1
      <3>1. Inc(a) + k = a + (k + 1)
        BY <1>0, <2>1, IncIs DEF Index
      <3> QED BY <3>1, Zenon DEF Entry
    <2>2. CASE a = UINT16 - 1
      <3>1. Inc(a) + k = k /\ a + (k + 1) = UINT16 + k
        BY <1>0, <2>2, IncIs
      <3> QED BY <3>1, EntryWraps, Zenon DEF Entry
    <2> QED BY <2>1, <2>2, Zenon
  <1> QED BY <1>1, <1>2, <1>3, Zenon

-----------------------------------------------------------------------------
(* What a ring holds *)

\* Steps that touch neither the ring nor the requests in it.
LEMMA RingSame ==
  ASSUME NEW ring, NEW a, NEW b, NEW S, NEW heads, NEW heads2,
         Holds(ring, a, b, S, heads), \A p \in S : heads2[p] = heads[p]
  PROVE  Holds(ring, a, b, S, heads2)
  BY Zenon DEF Holds

\* The entry after the last one is none of those in use.
LEMMA RingWrite ==
  ASSUME NEW ring \in [Desc -> Desc], NEW a \in Index, NEW b \in Index, NEW S, NEW heads,
         Holds(ring, a, b, S, heads), Cardinality(S) < NUM, NEW x
  PROVE  Holds([ring EXCEPT ![b % NUM] = x], a, b, S, heads)
  <1> DEFINE n == Ahead(a, b)
             r2 == [ring EXCEPT ![b % NUM] = x]
  <1>0. n \in Nat /\ n < NUM /\ b % NUM = Entry(a, n)
    BY AheadIs, EntryMoves DEF Holds, Index
  <1>1. ASSUME NEW k \in Nat, k < n PROVE r2[Entry(a, k)] = ring[Entry(a, k)]
    <2>1. Entry(a, k) # b % NUM
      BY <1>0, <1>1, EntriesDiffer, Zenon
    <2>2. Entry(a, k) \in Desc
      BY EntryType, Zenon
    <2> QED BY <2>1, <2>2, Zenon
  <1> HIDE DEF r2
  <1>2. \A k \in Nat : k < n => \E p \in S : r2[Entry(a, k)] = heads[p]
    BY <1>1, Zenon DEF Holds
  <1>3. ASSUME NEW j \in Nat, NEW k \in Nat, j < k, k < n
        PROVE  r2[Entry(a, j)] # r2[Entry(a, k)]
    <2>1. j < n
      BY <1>0, <1>3
    <2> QED BY <1>1, <1>3, <2>1, Zenon DEF Holds
  <1>4. Holds(r2, a, b, S, heads)
    BY <1>2, <1>3, Zenon DEF Holds
  <1> QED BY <1>4, Zenon DEF r2

\* The index moves past a new entry.
LEMMA RingPut ==
  ASSUME NEW ring, NEW a \in Index, NEW b \in Index, NEW S, NEW heads,
         Holds(ring, a, b, S, heads), Cardinality(S) + 1 < UINT16,
         NEW p, p \notin S, ring[b % NUM] = heads[p], \A q \in S : heads[q] # heads[p]
  PROVE  Holds(ring, a, Inc(b), S \cup {p}, heads)
  <1> DEFINE n == Ahead(a, b)
  <1>0. /\ n \in Nat /\ n = Cardinality(S) /\ IsFiniteSet(S) /\ b % NUM = Entry(a, n)
    BY AheadIs, EntryMoves DEF Holds, Index
  <1>1. Ahead(a, Inc(b)) = n + 1
    BY <1>0, AheadMoves, Zenon
  <1>2. IsFiniteSet(S \cup {p}) /\ Cardinality(S \cup {p}) = n + 1
    BY <1>0, FS_AddElement, Zenon
  <1> HIDE DEF n
  <1>3. /\ \A k \in Nat : k < n => \E q \in S : ring[Entry(a, k)] = heads[q]
        /\ \A j, k \in Nat : j < k /\ k < n => ring[Entry(a, j)] # ring[Entry(a, k)]
    BY Zenon DEF Holds, n
  <1>4. \A k \in Nat : k < n + 1 => k < n \/ k = n
    BY <1>0
  <1>5. \A k \in Nat : k < n + 1 => \E q \in S \cup {p} : ring[Entry(a, k)] = heads[q]
    BY <1>0, <1>3, <1>4, Zenon
  <1>6. \A j, k \in Nat : j < k /\ k < n + 1 => ring[Entry(a, j)] # ring[Entry(a, k)]
    <2> SUFFICES ASSUME NEW j \in Nat, NEW k \in Nat, j < k, k < n + 1
                 PROVE  ring[Entry(a, j)] # ring[Entry(a, k)]
      BY Zenon
    <2>1. CASE k < n
      BY <1>3, <2>1, Zenon
    <2>2. CASE k = n
      <3>1. PICK q \in S : ring[Entry(a, j)] = heads[q]
        BY <1>3, <2>2, Zenon
      <3> QED BY <1>0, <2>2, <3>1, Zenon
    <2> QED BY <1>4, <2>1, <2>2, Zenon
  <1> QED BY <1>1, <1>2, <1>5, <1>6, Zenon DEF Holds

\* The first entry is taken out and cleared.
LEMMA RingTake ==
  ASSUME NEW ring \in [Desc -> Desc], NEW a \in Index, NEW b \in Index, NEW S, NEW heads,
         Holds(ring, a, b, S, heads), a # b, Cardinality(S) < NUM, NEW x,
         \A q, r \in S : q # r => heads[q] # heads[r]
  PROVE  /\ a % NUM # b % NUM
         /\ \E p \in S : /\ ring[a % NUM] = heads[p]
                         /\ Holds([ring EXCEPT ![a % NUM] = x], Inc(a), b, S \ {p}, heads)
  <1> DEFINE n == Ahead(a, b)
             r2 == [ring EXCEPT ![a % NUM] = x]
  <1>0. /\ n \in Nat \ {0} /\ n = Cardinality(S) /\ IsFiniteSet(S) /\ n < NUM
        /\ a % NUM = Entry(a, 0) /\ b % NUM = Entry(a, n)
    BY AheadIs, AheadMoves, EntryMoves DEF Holds, Index
  <1>1. a % NUM # b % NUM
    BY <1>0, EntriesDiffer
  <1>2. Ahead(Inc(a), b) = n - 1 /\ \A k \in Nat : Entry(Inc(a), k) = Entry(a, k + 1)
    BY <1>0, AheadMoves, EntryMoves, Zenon
  <1>3. ASSUME NEW k \in Nat, k + 1 < n
        PROVE  /\ r2[Entry(a, k + 1)] = ring[Entry(a, k + 1)]
               /\ ring[Entry(a, k + 1)] # ring[a % NUM]
    <2>1. k + 1 \in Nat /\ 0 \in Nat /\ 0 < k + 1 /\ k + 1 < NUM
      <3> HIDE DEF n
      <3> QED BY <1>0, <1>3, VirtioAssumption
    <2>2. Entry(a, k + 1) # a % NUM /\ Entry(a, k + 1) \in Desc
      <3>1. Entry(a, 0) # Entry(a, k + 1)
        BY <2>1, EntriesDiffer, Zenon
      <3>2. Entry(a, k + 1) \in Desc
        BY <2>1, EntryType, Zenon
      <3> QED BY <1>0, <3>1, <3>2, Zenon
    <2>3. ring[Entry(a, 0)] # ring[Entry(a, k + 1)]
      BY <1>3, <2>1, Zenon DEF Holds
    <2> QED BY <1>0, <2>2, <2>3, Zenon
  <1> HIDE DEF r2, n
  <1>4. PICK p \in S : ring[a % NUM] = heads[p]
    <2>1. 0 \in Nat /\ 0 < Ahead(a, b)
      BY <1>0 DEF n
    <2> QED BY <1>0, <2>1, Zenon DEF Holds
  <1>5. IsFiniteSet(S \ {p}) /\ Cardinality(S \ {p}) = n - 1
    BY <1>0, FS_RemoveElement, Zenon
  <1>6. \A k \in Nat : k < n - 1 => k + 1 \in Nat /\ k + 1 < n
    BY <1>0
  <1>7. \A k \in Nat : k < n - 1 => \E q \in S \ {p} : r2[Entry(Inc(a), k)] = heads[q]
    <2> SUFFICES ASSUME NEW k \in Nat, k < n - 1
                 PROVE  \E q \in S \ {p} : r2[Entry(Inc(a), k)] = heads[q]
      BY Zenon
    <2>1. PICK q \in S : ring[Entry(a, k + 1)] = heads[q]
      BY <1>6, Zenon DEF Holds, n
    <2> QED BY <1>2, <1>3, <1>4, <1>6, <2>1, Zenon
  <1>8. \A j, k \in Nat : j < k /\ k < n - 1 => r2[Entry(Inc(a), j)] # r2[Entry(Inc(a), k)]
    <2> SUFFICES ASSUME NEW j \in Nat, NEW k \in Nat, j < k, k < n - 1
                 PROVE  r2[Entry(Inc(a), j)] # r2[Entry(Inc(a), k)]
      BY Zenon
    <2>1. j < n - 1 /\ j + 1 < k + 1
      BY <1>0
    <2>2. ring[Entry(a, j + 1)] # ring[Entry(a, k + 1)]
      BY <1>6, <2>1, Zenon DEF Holds, n
    <2> QED BY <1>2, <1>3, <1>6, <2>1, <2>2, Zenon
  <1>9. Holds(r2, Inc(a), b, S \ {p}, heads)
    BY <1>2, <1>5, <1>7, <1>8, Zenon DEF Holds
  <1> QED BY <1>1, <1>4, <1>9, Zenon DEF r2

-----------------------------------------------------------------------------
(* Descriptors *)

\* free_chain() on a chain of three descriptors.
LEMMA ChainIs ==
  ASSUME \A j \in Desc : next[j] \in Desc \cup {END},
         \A j \in Desc : next[j] = END \/ next[next[j]] = END \/ next[next[next[j]]] = END,
         NEW h \in Desc, next[h] \in Desc, next[next[h]] \in Desc, next[next[next[h]]] = END
  PROVE  chain(h) = {h, next[h], next[next[h]]}
  <1> DEFINE S == Desc \cup {END}
             W(f) == f = [j \in S |-> IF j = END THEN {} ELSE {j} \cup f[next[j]]]
             w == CHOOSE f : W(f)
             g == [j \in S |-> IF j = END THEN {}
                               ELSE IF next[j] = END THEN {j}
                               ELSE IF next[next[j]] = END THEN {j, next[j]}
                               ELSE {j, next[j], next[next[j]]}]
  <1>0. END \notin Desc
    BY DEF END, Desc
  <1>1. chain(h) = w[h]
    BY Zenon DEF chain
  <1>2. ASSUME NEW j \in S PROVE g[j] = IF j = END THEN {} ELSE {j} \cup g[next[j]]
    <2>1. CASE j = END
      BY <2>1, Zenon
    <2>2. CASE j # END /\ next[j] = END
      <3>1. g[next[j]] = {} /\ g[j] = {j}
        BY <2>2, Zenon
      <3> QED BY <2>2, <3>1, Zenon
    <2>3. CASE j # END /\ next[j] # END /\ next[next[j]] = END
      <3>1. g[next[j]] = {next[j]} /\ g[j] = {j, next[j]}
        BY <2>3, Zenon
      <3> QED BY <2>3, <3>1, Zenon
    <2>4. CASE j # END /\ next[j] # END /\ next[next[j]] # END
      <3>1. next[j] \in Desc /\ next[next[next[j]]] = END
        BY <2>4, Zenon
      <3>2. g[next[j]] = {next[j], next[next[j]]} /\ g[j] = {j, next[j], next[next[j]]}
        BY <2>4, <3>1, Zenon
      <3> QED BY <2>4, <3>2, Zenon
    <2> QED BY <2>1, <2>2, <2>3, <2>4, Zenon
  <1>3. g = [j \in S |-> IF j = END THEN {} ELSE {j} \cup g[next[j]]]
    <2>1. g = [j \in S |-> g[j]]
      BY Zenon
    <2> QED BY <1>2, <2>1, Zenon
  <1> HIDE DEF g
  <1>4. W(w)
    BY <1>3, Zenon
  <1> HIDE DEF w
  <1>5. \A j \in S : w[j] = IF j = END THEN {} ELSE {j} \cup w[next[j]]
    BY <1>4, Zenon
  <1>6. w[END] = {}
    BY <1>5, Zenon
  <1>7. /\ w[next[next[h]]] = {next[next[h]]} \cup w[END]
        /\ w[next[h]] = {next[h]} \cup w[next[next[h]]]
        /\ w[h] = {h} \cup w[next[h]]
    BY <1>0, <1>5, Zenon
  <1> QED BY <1>1, <1>6, <1>7, Zenon

\* The least of a set of numbers.
LEMMA MinIn == ASSUME NEW S \in SUBSET Nat, S # {} PROVE Min(S) \in S
  <1> DEFINE R == OpToRel(<, Nat)
  <1>1. \A x, y \in Nat : <<x, y>> \in R <=> x < y
    BY Zenon DEF OpToRel
  <1>2. IsWellFoundedOn(R, Nat)
    BY NatLessThanWellFounded, ZenonT(20)
  <1> HIDE DEF R
  <1>3. \E x \in S : \A y \in S : <<y, x>> \notin R
    BY <1>2, WFMin, ZenonT(20)
  <1> PICK x \in S : \A y \in S : <<y, x>> \notin R
    BY <1>3, ZenonT(20)
  <1>4. \A y \in S : ~(y < x)
    BY <1>1, ZenonT(20)
  <1>5. \A y \in S : x <= y
    BY <1>4
  <1> QED BY <1>5, ZenonT(20) DEF Min

LEMMA DescFinite == IsFiniteSet(Desc) /\ Cardinality(Desc) = NUM
  <1>1. 0 \in Int /\ NUM - 1 \in Int /\ NUM \in Nat \ {0}
    BY Sizes
  <1>2. IsFiniteSet(0 .. NUM - 1) /\ Cardinality(0 .. NUM - 1) = (NUM - 1) - 0 + 1
    BY <1>1, FS_Interval
  <1> QED BY <1>1, <1>2 DEF Desc

\* alloc3_desc() takes three different free descriptors.
LEMMA ThreeFree ==
  ASSUME free \subseteq Desc, Cardinality(free) >= 3
  PROVE  LET i0 == Min(free)
             i1 == Min(free \ {i0})
             i2 == Min(free \ {i0, i1})
         IN  /\ i0 \in free /\ i1 \in free /\ i2 \in free /\ i0 # i1 /\ i2 \notin {i0, i1}
             /\ Cardinality(free \ {i0, i1, i2}) = Cardinality(free) - 3
  <1> DEFINE i0 == Min(free)
             A == free \ {i0}
             i1 == Min(A)
             B == A \ {i1}
             i2 == Min(B)
  <1>0. IsFiniteSet(free) /\ Cardinality(free) \in Nat /\ free \in SUBSET Nat
    <2>1. IsFiniteSet(free)
      BY DescFinite, FS_Subset, Zenon
    <2> QED BY <2>1, FS_CardinalityType, Sizes DEF Desc
  <1>1. \A T : IsFiniteSet(T) /\ Cardinality(T) >= 1 => T # {}
    BY FS_EmptySet
  <1>2. i0 \in free
    <2>1. free # {}
      BY <1>0, <1>1
    <2> QED BY <1>0, <2>1, MinIn, Zenon
  <1>3. IsFiniteSet(A) /\ Cardinality(A) = Cardinality(free) - 1
    BY <1>0, <1>2, FS_RemoveElement, Zenon
  <1>4. i1 \in A
    <2>1. A # {}
      BY <1>0, <1>1, <1>3
    <2>2. A \in SUBSET Nat
      BY <1>0, Zenon
    <2> HIDE DEF A
    <2> QED BY <2>1, <2>2, MinIn, Zenon
  <1>5. IsFiniteSet(B) /\ Cardinality(B) = Cardinality(free) - 2
    <2> HIDE DEF A, i1
    <2>1. IsFiniteSet(B) /\ Cardinality(B) = Cardinality(A) - 1
      BY <1>3, <1>4, FS_RemoveElement, Zenon
    <2> QED BY <1>0, <1>3, <2>1
  <1>6. i2 \in B
    <2>1. B # {}
      <3> HIDE DEF B
      <3> QED BY <1>0, <1>1, <1>5
    <2>2. B \in SUBSET Nat
      BY <1>0, Zenon
    <2> HIDE DEF B
    <2> QED BY <2>1, <2>2, MinIn, Zenon
  <1>7. Cardinality(B \ {i2}) = Cardinality(free) - 3
    <2> HIDE DEF B, i2
    <2>1. Cardinality(B \ {i2}) = Cardinality(B) - 1
      BY <1>5, <1>6, FS_RemoveElement, Zenon
    <2> QED BY <1>0, <1>5, <2>1
  <1>8. B = free \ {i0, i1} /\ B \ {i2} = free \ {i0, i1, i2}
    <2> HIDE DEF i0, i1, i2
    <2> QED BY Zenon DEF A, B
  <1> QED BY <1>2, <1>4, <1>6, <1>7, <1>8, Zenon

-----------------------------------------------------------------------------
(* Steps that only move processes: vdisk_lock, sleep(), kill(). *)

Keeps(a) == VInv /\ a => VInv'

PCs == {"idle", "alloc", "nodesc", "publish", "check", "sleep", "woken"}

\* Nothing but pc, vdisk_lock and the interrupt line changes.
Moves == UNCHANGED <<free, next, op, infob, avail, availidx, used_idx, bdisk, mem, buf, head, write,
                     devidx, inflight, media, used, usedidx, status, panicked>>

LEMMA ChainsSame ==
  ASSUME Chains, UNCHANGED <<free, next, head>>
  PROVE  Chains' /\ Submitted' = Submitted
  <1>1. Submitted' = Submitted
    BY Zenon DEF Submitted
  <1>2. \A p : Own(p)' = Own(p)
    BY Zenon DEF Own
  <1>3. \A p \in Submitted' :
       /\ head'[p] \in Desc \ free' /\ next'[head'[p]] \in Desc \ free'
       /\ next'[next'[head'[p]]] \in Desc \ free' /\ next'[next'[next'[head'[p]]]] = END
       /\ head'[p] # next'[head'[p]]
       /\ next'[next'[head'[p]]] \notin {head'[p], next'[head'[p]]}
    BY <1>1, Zenon DEF Chains
  <1>4. IsFiniteSet(Submitted') /\ Cardinality(free') + 3 * Cardinality(Submitted') = NUM
    BY <1>1, Zenon DEF Chains
  <1>5. \A p, q \in Submitted' : p # q => Own(p)' \cap Own(q)' = {}
    BY <1>1, <1>2, Zenon DEF Chains
  <1>6. \A i \in Desc : i \notin free' => \E p \in Submitted' : i \in Own(p)'
    BY <1>1, <1>2, Zenon DEF Chains
  <1>7. \A i \in free' : next'[i] = END
    BY Zenon DEF Chains
  <1> QED BY <1>1, <1>3, <1>4, <1>5, <1>6, <1>7, Zenon DEF Chains

LEMMA MoveStep ==
  ASSUME VInv, Moves, pc' \in [Procs -> PCs], lock' \in Procs \cup {Nobody, "intr"},
         irq' \in BOOLEAN, \A p \in Procs : pc'[p] = "publish" <=> pc[p] = "publish", Callers'
  PROVE  VInv'
  <1>1. TypeOK'
    BY ZenonT(30) DEF VInv, TypeOK, Moves, PCs
  <1>2. Submitted' = Submitted /\ \A p \in Submitted : p \in Procs
    BY Zenon DEF Submitted, Moves
  <1>3. Chains'
    BY ChainsSame, Zenon DEF VInv, Moves
  <1>4. Queued' = Queued /\ Done' = Done
    BY <1>2 DEF Queued, Done, Moves
  <1>5. Rings'
    BY <1>4, Zenon DEF VInv, Rings, Moves
  <1>6. Requests'
    <2>1. \A p \in Submitted : pc'[p] = "publish" <=> pc[p] = "publish"
      BY <1>2, Zenon
    <2> QED BY <1>2, <2>1 DEF VInv, Requests, Moves
  <1> QED BY <1>1, <1>3, <1>5, <1>6, Zenon DEF VInv, Moves

\* wakeup(&disk.free[0]) and wakeup(b) move sleepers only.
LEMMA Wakes ==
  ASSUME NEW pcs \in [Procs -> PCs], pc \in [Procs -> PCs]
  PROVE  /\ wakeup_free(pcs) \in [Procs -> PCs]
         /\ \A p \in Procs : wakeup_free(pcs)[p] = IF pcs[p] = "nodesc" THEN "alloc" ELSE pcs[p]
         /\ \A b : /\ wakeup_buf(b) \in [Procs -> PCs]
                   /\ \A p \in Procs : \/ wakeup_buf(b)[p] = pc[p]
                                       \/ pc[p] = "sleep" /\ wakeup_buf(b)[p] = "woken"
  BY Zenon DEF wakeup_free, wakeup_buf, PCs

LEMMA Inv_nodesc == \A p \in Procs : Keeps(nodesc(p))
  <1> SUFFICES ASSUME NEW p \in Procs, VInv, nodesc(p) PROVE VInv'
    BY Zenon DEF Keeps
  <1>0. pc \in [Procs -> PCs] /\ lock \in Procs \cup {Nobody, "intr"} /\ irq \in BOOLEAN
    BY Zenon DEF VInv, TypeOK, PCs
  <1>1. Moves /\ UNCHANGED <<lock, irq>> /\ pc[p] = "alloc"
    BY Zenon DEF nodesc, Moves, request, device
  <1>2. pc' = [pc EXCEPT ![p] = "nodesc"] \/ pc' = [wakeup_free(pc) EXCEPT ![p] = "nodesc"]
    BY Zenon DEF nodesc
  <1>3. /\ pc' \in [Procs -> PCs] /\ pc'[p] = "nodesc"
        /\ \A q \in Procs : q # p => pc'[q] = pc[q] \/ (pc[q] = "nodesc" /\ pc'[q] = "alloc")
    BY <1>0, <1>2, Wakes DEF PCs
  <1>4. \A q \in Procs : /\ pc'[q] = "publish" <=> pc[q] = "publish"
                         /\ pc'[q] = "check" <=> pc[q] = "check"
                         /\ pc'[q] \in {"sleep", "woken"} <=> pc[q] \in {"sleep", "woken"}
                         /\ pc'[q] = "idle" <=> pc[q] = "idle"
    BY <1>1, <1>3, Zenon
  <1>5. Callers'
    BY <1>1, <1>4, ZenonT(40) DEF VInv, Callers, Moves
  <1> QED BY <1>0, <1>1, <1>3, <1>4, <1>5, MoveStep, Zenon

LEMMA Inv_kill == \A p \in Procs : Keeps(kill(p))
  <1> SUFFICES ASSUME NEW p \in Procs, VInv, kill(p) PROVE VInv'
    BY Zenon DEF Keeps
  <1>0. pc \in [Procs -> PCs] /\ lock \in Procs \cup {Nobody, "intr"} /\ irq \in BOOLEAN
    BY Zenon DEF VInv, TypeOK, PCs
  <1>1. Moves /\ UNCHANGED <<lock, irq>>
    BY Zenon DEF kill, Moves, request, device
  <1>2. \/ pc[p] = "sleep" /\ pc' = [pc EXCEPT ![p] = "woken"]
        \/ pc[p] = "nodesc" /\ pc' = [pc EXCEPT ![p] = "alloc"]
    BY Zenon DEF kill, Goto
  <1>3. pc' \in [Procs -> PCs]
    BY <1>0, <1>2, Zenon DEF PCs
  <1>4. \A q \in Procs : /\ pc'[q] = "publish" <=> pc[q] = "publish"
                         /\ pc'[q] = "check" <=> pc[q] = "check"
                         /\ pc'[q] \in {"sleep", "woken"} <=> pc[q] \in {"sleep", "woken"}
                         /\ pc'[q] = "idle" <=> pc[q] = "idle"
    BY <1>0, <1>2, Zenon
  <1>5. Callers'
    BY <1>1, <1>4, ZenonT(40) DEF VInv, Callers, Moves
  <1> QED BY <1>0, <1>1, <1>3, <1>4, <1>5, MoveStep, Zenon

\* sleep(b, &disk.vdisk_lock) gives the lock up, and takes it again after the wakeup.
LEMMA Inv_wait_done == \A p \in Procs : Keeps(wait_done(p))
  <1> SUFFICES ASSUME NEW p \in Procs, VInv, wait_done(p) PROVE VInv'
    BY Zenon DEF Keeps
  <1>0. pc \in [Procs -> PCs] /\ irq \in BOOLEAN
    BY Zenon DEF VInv, TypeOK, PCs
  <1>1. Moves /\ UNCHANGED irq /\ lock' = Nobody /\ pc[p] = "check"
    BY Zenon DEF wait_done, Moves, request, device
  <1>2. pc' = [pc EXCEPT ![p] = "sleep"]
    BY Zenon DEF wait_done, Goto
  <1>3. /\ pc' \in [Procs -> PCs] /\ pc'[p] = "sleep"
        /\ \A q \in Procs : q # p => pc'[q] = pc[q]
    BY <1>0, <1>2, Zenon DEF PCs
  <1>4. lock = p /\ \A q \in Procs : q # Nobody
    BY <1>1, VirtioAssumption, Zenon DEF VInv, Callers
  <1>5. \A q \in Procs : pc'[q] \notin {"publish", "check"}
    BY <1>3, <1>4, Zenon DEF VInv, Callers
  <1>6. Callers'
    <2>1. \A q \in Procs : pc'[q] = "idle" <=> buf'[q] = Nobody
      BY <1>1, <1>3, Zenon DEF VInv, Callers, Moves
    <2>2. \A q \in Procs : head'[q] # END <=> pc'[q] \in {"publish", "check", "sleep", "woken"}
      BY <1>1, <1>3, Zenon DEF VInv, Callers, Moves
    <2>3. \A q \in Procs : pc'[q] \in {"publish", "check"} <=> lock' = q
      BY <1>1, <1>4, <1>5, Zenon
    <2> QED BY <1>1, <2>1, <2>2, <2>3, Zenon DEF VInv, Callers, Moves
  <1>7. \A q \in Procs : pc'[q] = "publish" <=> pc[q] = "publish"
    BY <1>1, <1>3, Zenon
  <1> QED BY <1>0, <1>1, <1>3, <1>6, <1>7, MoveStep, Zenon

LEMMA Inv_recheck == \A p \in Procs : Keeps(recheck(p))
  <1> SUFFICES ASSUME NEW p \in Procs, VInv, recheck(p) PROVE VInv'
    BY Zenon DEF Keeps
  <1>0. pc \in [Procs -> PCs] /\ irq \in BOOLEAN
    BY Zenon DEF VInv, TypeOK, PCs
  <1>1. Moves /\ UNCHANGED irq /\ lock = Nobody /\ lock' = p /\ pc[p] = "woken"
    BY Zenon DEF recheck, Moves, request, device
  <1>2. pc' = [pc EXCEPT ![p] = "check"]
    BY Zenon DEF recheck, Goto
  <1>3. /\ pc' \in [Procs -> PCs] /\ pc'[p] = "check"
        /\ \A q \in Procs : q # p => pc'[q] = pc[q]
    BY <1>0, <1>2, Zenon DEF PCs
  <1>4. \A q \in Procs : q # Nobody /\ pc[q] \notin {"publish", "check"}
    BY <1>1, VirtioAssumption, Zenon DEF VInv, Callers
  <1>6. Callers'
    <2>1. \A q \in Procs : pc'[q] = "idle" <=> buf'[q] = Nobody
      BY <1>1, <1>3, ZenonT(40) DEF VInv, Callers, Moves
    <2>2. \A q \in Procs : head'[q] # END <=> pc'[q] \in {"publish", "check", "sleep", "woken"}
      BY <1>1, <1>3, Zenon DEF VInv, Callers, Moves
    <2>3. \A q \in Procs : pc'[q] \in {"publish", "check"} <=> lock' = q
      BY <1>1, <1>3, <1>4, Zenon
    <2> QED BY <1>1, <2>1, <2>2, <2>3, Zenon DEF VInv, Callers, Moves
  <1>7. \A q \in Procs : pc'[q] = "publish" <=> pc[q] = "publish"
    BY <1>1, <1>3, Zenon
  <1> QED BY <1>0, <1>1, <1>3, <1>6, <1>7, MoveStep, Zenon

\* The handler takes vdisk_lock and gives it up.
LEMMA Inv_intr_lock == Keeps(intr_ack \/ intr_done)
  <1> SUFFICES ASSUME VInv, intr_ack \/ intr_done PROVE VInv'
    BY Zenon DEF Keeps
  <1>1. /\ Moves /\ UNCHANGED pc /\ irq' \in {irq, FALSE}
        /\ lock \in {Nobody, "intr"} /\ lock' \in {Nobody, "intr"}
    BY Zenon DEF intr_ack, intr_done, Moves, request, device
  <1>2. pc' \in [Procs -> PCs] /\ irq' \in BOOLEAN
    BY <1>1, Zenon DEF VInv, TypeOK, PCs
  <1>3. \A q \in Procs : lock # q /\ lock' # q
    BY <1>1, VirtioAssumption, Zenon
  <1>4. Callers'
    BY <1>1, <1>3, Zenon DEF VInv, Callers, Moves
  <1> QED BY <1>1, <1>2, <1>4, MoveStep, Zenon

-----------------------------------------------------------------------------
(* virtio_disk_rw() *)

\* There are fewer requests than entries of a ring, and each has a head of its own.
LEMMA Counts ==
  ASSUME VInv
  PROVE  /\ Cardinality(Queued) \in Nat /\ Cardinality(Done) \in Nat
         /\ Cardinality(Submitted) \in Nat /\ 3 * Cardinality(Submitted) <= NUM
         /\ Cardinality(Queued) <= Cardinality(Submitted)
         /\ Cardinality(Done) <= Cardinality(Submitted)
         /\ Cardinality(Queued) < NUM /\ Cardinality(Done) < NUM
         /\ \A p \in Submitted : /\ Cardinality(Queued) + 1 < UINT16
                                 /\ Cardinality(Done) + 1 < UINT16
         /\ \A p, q \in Submitted : p # q => head[p] # head[q]
  <1>1. IsFiniteSet(Submitted) /\ IsFiniteSet(free)
    BY DescFinite, FS_Subset, Zenon DEF VInv, Chains, TypeOK
  <1>2. Cardinality(Submitted) \in Nat /\ Cardinality(free) \in Nat
    BY <1>1, FS_CardinalityType, Zenon
  <1>3. Queued \subseteq Submitted /\ Done \subseteq Submitted
    BY Zenon DEF Queued, Done
  <1>4. /\ IsFiniteSet(Queued) /\ Cardinality(Queued) <= Cardinality(Submitted)
        /\ IsFiniteSet(Done) /\ Cardinality(Done) <= Cardinality(Submitted)
    BY <1>1, <1>3, FS_Subset, Zenon
  <1>5. Cardinality(Queued) \in Nat /\ Cardinality(Done) \in Nat
    BY <1>4, FS_CardinalityType, Zenon
  <1>6. Cardinality(free) + 3 * Cardinality(Submitted) = NUM
    BY Zenon DEF VInv, Chains
  <1>7. \A p \in Submitted : Cardinality(Submitted) # 0
    BY <1>1, FS_EmptySet, Zenon
  <1>8. \A p, q \in Submitted : p # q => head[p] # head[q]
    BY Zenon DEF VInv, Chains, Own
  <1> DEFINE x == Cardinality(Submitted)
             y == Cardinality(free)
             a == Cardinality(Queued)
             b == Cardinality(Done)
  <1> HIDE DEF x, y, a, b
  <1>9. x \in Nat /\ y \in Nat /\ a \in Nat /\ b \in Nat /\ y + 3 * x = NUM /\ a <= x /\ b <= x
    BY <1>2, <1>4, <1>5, <1>6, Zenon DEF x, y, a, b
  <1>10. 3 * x <= NUM /\ a < NUM /\ b < NUM /\ (x # 0 => a + 1 < UINT16 /\ b + 1 < UINT16)
    BY <1>9, Sizes
  <1> QED BY <1>2, <1>4, <1>5, <1>7, <1>8, <1>10, Zenon DEF x, y, a, b

LEMMA Inv_virtio_disk_rw == \A p \in Procs, b \in Bufs : Keeps(virtio_disk_rw(p, b))
  <1> SUFFICES ASSUME NEW p \in Procs, NEW b \in Bufs, VInv, virtio_disk_rw(p, b) PROVE VInv'
    BY Zenon DEF Keeps
  <1>0. /\ UNCHANGED <<free, next, op, infob, avail, availidx, used_idx, bdisk, lock, head, devidx>>
        /\ UNCHANGED <<inflight, media, used, usedidx, status, irq, panicked>>
        /\ pc[p] = "idle" /\ pc' = [pc EXCEPT ![p] = "alloc"] /\ buf' = [buf EXCEPT ![p] = b]
        /\ \A q \in Procs : buf[q] # b
        /\ write' \in {write, write \cup {p}}
    BY Zenon DEF virtio_disk_rw, Goto, request, device
  <1>1. PICK d \in Data : mem' = [mem EXCEPT ![b] = d]
    BY Zenon DEF virtio_disk_rw
  <1>2. /\ pc \in [Procs -> PCs] /\ buf \in [Procs -> Bufs \cup {Nobody}]
        /\ mem \in [Bufs -> Data] /\ write \subseteq Procs
    BY Zenon DEF VInv, TypeOK, PCs
  <1>3. /\ pc' \in [Procs -> PCs] /\ buf' \in [Procs -> Bufs \cup {Nobody}]
        /\ mem' \in [Bufs -> Data] /\ write' \subseteq Procs
    BY <1>0, <1>1, <1>2, Zenon DEF PCs
  <1>4. TypeOK'
    BY <1>0, <1>3, ZenonT(30) DEF VInv, TypeOK, PCs
  <1>5. /\ pc'[p] = "alloc" /\ buf'[p] = b
        /\ \A q \in Procs : q # p => pc'[q] = pc[q] /\ buf'[q] = buf[q]
        /\ \A c \in Bufs : c # b => mem'[c] = mem[c]
    BY <1>0, <1>1, <1>2, Zenon
  <1>6. p \notin Submitted /\ Submitted' = Submitted
    BY <1>0, Zenon DEF Submitted, VInv, Callers
  <1>7. \A q \in Submitted : /\ q \in Procs /\ pc'[q] = pc[q] /\ buf'[q] = buf[q]
                             /\ buf[q] \in Bufs /\ mem'[buf[q]] = mem[buf[q]]
    <2> SUFFICES ASSUME NEW q \in Submitted
                 PROVE  /\ q \in Procs /\ pc'[q] = pc[q] /\ buf'[q] = buf[q]
                        /\ buf[q] \in Bufs /\ mem'[buf[q]] = mem[buf[q]]
      BY Zenon
    <2>1. q \in Procs /\ head[q] # END /\ q # p
      BY <1>6, Zenon DEF Submitted
    <2>2. buf[q] # Nobody
      BY <2>1, Zenon DEF VInv, Callers
    <2> QED BY <1>0, <1>2, <1>5, <2>1, <2>2, Zenon
  <1>8. Callers'
    <2>1. \A q \in Procs : pc'[q] = "idle" <=> buf'[q] = Nobody
      BY <1>5, VirtioAssumption, Zenon DEF VInv, Callers
    <2>2. \A q \in Procs : head'[q] # END <=> pc'[q] \in {"publish", "check", "sleep", "woken"}
      BY <1>0, <1>5, Zenon DEF VInv, Callers
    <2>3. \A q \in Procs : pc'[q] \in {"publish", "check"} <=> lock' = q
      BY <1>0, <1>5, Zenon DEF VInv, Callers
    <2>4. \A q, r \in Procs : r # q /\ buf'[q] # Nobody => buf'[r] # buf'[q]
      BY <1>0, <1>5 DEF VInv, Callers
    <2> QED BY <2>1, <2>2, <2>3, <2>4, Zenon DEF Callers
  <1>9. Chains'
    BY <1>0, ChainsSame, Zenon DEF VInv
  <1>10. Requests'
    BY <1>0, <1>6, <1>7 DEF VInv, Requests
  <1>11. Queued' = Queued /\ Done' = Done
    BY <1>0, <1>6, <1>7 DEF Queued, Done
  <1>12. Rings'
    BY <1>0, <1>11, Zenon DEF VInv, Rings
  <1> QED BY <1>0, <1>4, <1>8, <1>9, <1>10, <1>12, Zenon DEF VInv

\* avail->idx moves over the entry that submit() filled in.
LEMMA Inv_publish == \A p \in Procs : Keeps(publish(p))
  <1> SUFFICES ASSUME NEW p \in Procs, VInv, publish(p) PROVE VInv'
    BY Zenon DEF Keeps
  <1>0. /\ UNCHANGED <<free, next, op, infob, avail, used_idx, bdisk, mem, lock, buf, write, head>>
        /\ UNCHANGED <<devidx, inflight, media, used, usedidx, status, irq, panicked>>
        /\ pc[p] = "publish" /\ pc' = [pc EXCEPT ![p] = "check"] /\ availidx' = Inc(availidx)
    BY Zenon DEF publish, Goto, request, device, Inc
  <1>1. pc \in [Procs -> PCs] /\ availidx \in Index /\ devidx \in Index
    BY Zenon DEF VInv, TypeOK, PCs, Index
  <1>2. /\ pc' \in [Procs -> PCs] /\ pc'[p] = "check"
        /\ \A q \in Procs : q # p => pc'[q] = pc[q] /\ pc'[q] # "publish"
    BY <1>0, <1>1, Zenon DEF PCs, VInv, Callers
  <1>3. {availidx', usedidx', used_idx', devidx'} \subseteq 0 .. UINT16 - 1
    <2>1. availidx' \in Index
      BY <1>0, <1>1, IncIs, Zenon
    <2> QED BY <1>0, <2>1 DEF Index, VInv, TypeOK
  <1>4. TypeOK'
    BY <1>0, <1>2, <1>3, ZenonT(30) DEF VInv, TypeOK, PCs
  <1>5. p \in Submitted /\ Submitted' = Submitted
    BY <1>0, Zenon DEF Submitted, VInv, Callers
  <1>6. Callers'
    <2>1. \A q \in Procs : pc'[q] = "idle" <=> buf'[q] = Nobody
      BY <1>0, <1>2, Zenon DEF VInv, Callers
    <2>2. \A q \in Procs : head'[q] # END <=> pc'[q] \in {"publish", "check", "sleep", "woken"}
      BY <1>0, <1>2, Zenon DEF VInv, Callers
    <2>3. \A q \in Procs : pc'[q] \in {"publish", "check"} <=> lock' = q
      BY <1>0, <1>2, Zenon DEF VInv, Callers
    <2> QED BY <1>0, <2>1, <2>2, <2>3, ZenonT(40) DEF VInv, Callers
  <1>7. Chains'
    BY <1>0, ChainsSame, Zenon DEF VInv
  <1>8. \A q \in Submitted : pc'[q] # "publish"
    BY <1>2, Zenon DEF Submitted
  <1>9. Requests'
    BY <1>0, <1>5, <1>8 DEF VInv, Requests
  <1>10. Done' = Done
    BY <1>0, <1>5, Zenon DEF Done
  <1>11. Queued' = Queued \cup {p} /\ p \notin Queued /\ avail[availidx % NUM] = head[p]
    BY <1>0, <1>2, <1>5 DEF Queued, VInv, Requests, Submitted
  <1>12. \A q \in Queued : head[q] # head[p]
    <2>0. Queued \subseteq Submitted
      BY Zenon DEF Queued
    <2>1. \A q \in Queued : q \in Submitted /\ q # p
      BY <1>11, <2>0, Zenon
    <2>2. \A q, r \in Submitted : q # r => head[q] # head[r]
      BY Counts, Zenon
    <2> QED BY <1>5, <2>1, <2>2, Zenon
  <1>13. Holds(avail, devidx, availidx, Queued, head) /\ Cardinality(Queued) + 1 < UINT16
    BY <1>5, Counts, Zenon DEF VInv, Rings
  <1>14. Holds(avail, devidx, Inc(availidx), Queued \cup {p}, head)
    BY <1>1, <1>11, <1>12, <1>13, RingPut, Zenon
  <1>15. Rings'
    BY <1>0, <1>10, <1>11, <1>14, Zenon DEF VInv, Rings
  <1> QED BY <1>0, <1>4, <1>6, <1>7, <1>9, <1>15, Zenon DEF VInv

\* alloc3_desc() and the chain that virtio_disk_rw() builds of what it got.
LEMMA SubmitChains ==
  ASSUME VInv, NEW p \in Procs, p \notin Submitted,
         NEW i0 \in free, NEW i1 \in free, NEW i2 \in free, i0 # i1, i2 \notin {i0, i1},
         Cardinality(free \ {i0, i1, i2}) = Cardinality(free) - 3,
         free' = free \ {i0, i1, i2}, head' = [head EXCEPT ![p] = i0],
         next' = [next EXCEPT ![i0] = i1, ![i1] = i2, ![i2] = END]
  PROVE  Chains' /\ Submitted' = Submitted \cup {p} /\ \A q \in Submitted : head'[q] = head[q]
  <1>0. /\ next \in [Desc -> Desc \cup {END}] /\ head \in [Procs -> Desc \cup {END}]
        /\ free \subseteq Desc
    BY Zenon DEF VInv, TypeOK
  <1>a. END \notin Desc
    BY Sizes DEF END, Desc
  <1>1. /\ next'[i0] = i1 /\ next'[i1] = i2 /\ next'[i2] = END
        /\ \A i \in Desc : i \notin {i0, i1, i2} => next'[i] = next[i]
    BY <1>0, Zenon
  <1>2. head'[p] = i0 /\ \A q \in Procs : q # p => head'[q] = head[q]
    BY <1>0, Zenon
  <1>3. Submitted' = Submitted \cup {p} /\ \A q \in Submitted : head'[q] = head[q]
    BY <1>0, <1>a, <1>2, Zenon DEF Submitted
  <1>4. Own(p)' = {i0, i1, i2}
    BY <1>1, <1>2, Zenon DEF Own
  <1>5. ASSUME NEW q \in Submitted
        PROVE  /\ Own(q)' = Own(q) /\ Own(q) \cap free = {}
               /\ head'[q] = head[q] /\ next'[head[q]] = next[head[q]]
               /\ next'[next[head[q]]] = next[next[head[q]]]
               /\ next'[next[next[head[q]]]] = next[next[next[head[q]]]]
    <2>1. /\ head[q] \in Desc \ free /\ next[head[q]] \in Desc \ free
          /\ next[next[head[q]]] \in Desc \ free
      BY <1>5, Zenon DEF VInv, Chains
    <2>2. \A i \in Desc \ free : next'[i] = next[i]
      BY <1>1, Zenon
    <2>3. /\ head'[q] = head[q] /\ next'[head[q]] = next[head[q]]
          /\ next'[next[head[q]]] = next[next[head[q]]]
          /\ next'[next[next[head[q]]]] = next[next[next[head[q]]]]
      BY <1>3, <1>5, <2>1, <2>2, Zenon
    <2>4. Own(q)' = Own(q)
      BY <2>3, Zenon DEF Own
    <2>5. Own(q) \cap free = {}
      BY <2>1, Zenon DEF Own
    <2> QED BY <2>3, <2>4, <2>5, Zenon
  <1>6. IsFiniteSet(Submitted') /\ Cardinality(free') + 3 * Cardinality(Submitted') = NUM
    <2>1. IsFiniteSet(Submitted) /\ IsFiniteSet(free)
      BY DescFinite, FS_Subset, Zenon DEF VInv, Chains, TypeOK
    <2>2. IsFiniteSet(Submitted') /\ Cardinality(Submitted') = Cardinality(Submitted) + 1
      BY <1>3, <2>1, FS_AddElement, Zenon
    <2>3. Cardinality(Submitted) \in Nat /\ Cardinality(free) \in Nat
      BY <2>1, FS_CardinalityType, Zenon
    <2>4. Cardinality(free) + 3 * Cardinality(Submitted) = NUM
      BY Zenon DEF VInv, Chains
    <2> QED BY <2>2, <2>3, <2>4, Sizes
  <1>7. \A q \in Submitted' :
       /\ head'[q] \in Desc \ free' /\ next'[head'[q]] \in Desc \ free'
       /\ next'[next'[head'[q]]] \in Desc \ free' /\ next'[next'[next'[head'[q]]]] = END
       /\ head'[q] # next'[head'[q]]
       /\ next'[next'[head'[q]]] \notin {head'[q], next'[head'[q]]}
    <2> SUFFICES ASSUME NEW q \in Submitted'
                 PROVE  /\ head'[q] \in Desc \ free' /\ next'[head'[q]] \in Desc \ free'
                        /\ next'[next'[head'[q]]] \in Desc \ free'
                        /\ next'[next'[next'[head'[q]]]] = END
                        /\ head'[q] # next'[head'[q]]
                        /\ next'[next'[head'[q]]] \notin {head'[q], next'[head'[q]]}
      BY Zenon
    <2>1. CASE q = p
      BY <1>0, <1>1, <1>2, <2>1, Zenon
    <2>2. CASE q \in Submitted
      <3>1. /\ head[q] \in Desc \ free /\ next[head[q]] \in Desc \ free
            /\ next[next[head[q]]] \in Desc \ free /\ next[next[next[head[q]]]] = END
            /\ head[q] # next[head[q]]
            /\ next[next[head[q]]] \notin {head[q], next[head[q]]}
        BY <2>2, Zenon DEF VInv, Chains
      <3>2. \A i : i \in Desc \ free => i \in Desc \ free'
        BY Zenon
      <3> QED BY <1>5, <2>2, <3>1, <3>2, ZenonT(40)
    <2> QED BY <1>3, <2>1, <2>2, Zenon
  <1>8. \A q, r \in Submitted' : q # r => Own(q)' \cap Own(r)' = {}
    <2>1. \A q \in Submitted : Own(q)' \cap Own(p)' = {}
      BY <1>4, <1>5, Zenon
    <2>2. \A q, r \in Submitted : q # r => Own(q)' \cap Own(r)' = {}
      <3>1. \A q, r \in Submitted : q # r => Own(q) \cap Own(r) = {}
        BY Zenon DEF VInv, Chains
      <3>2. \A q \in Submitted : Own(q)' = Own(q)
        BY <1>5, Zenon
      <3> QED BY <3>1, <3>2, Zenon
    <2> QED BY <1>3, <2>1, <2>2, Zenon
  <1>9. \A i \in Desc : i \notin free' => \E q \in Submitted' : i \in Own(q)'
    <2> SUFFICES ASSUME NEW i \in Desc, i \notin free' PROVE \E q \in Submitted' : i \in Own(q)'
      BY Zenon
    <2>1. CASE i \in {i0, i1, i2}
      BY <1>3, <1>4, <2>1, Zenon
    <2>2. CASE i \notin free
      <3>1. PICK q \in Submitted : i \in Own(q)
        BY <2>2, Zenon DEF VInv, Chains
      <3> QED BY <1>3, <1>5, <3>1, Zenon
    <2> QED BY <2>1, <2>2, Zenon
  <1>10. \A i \in free' : next'[i] = END
    BY <1>0, <1>1, Zenon DEF VInv, Chains
  <1> QED BY <1>3, <1>6, <1>7, <1>8, <1>9, <1>10, Zenon DEF Chains

LEMMA RingIndex == \A a \in Index : a % NUM \in Desc
  BY Sizes DEF Index, Desc

\* One entry of an array is assigned to.
LEMMA Assigned ==
  ASSUME NEW S, NEW T, NEW f \in [S -> T], NEW x \in S, NEW v
  PROVE  /\ [f EXCEPT ![x] = v][x] = v
         /\ \A y \in S : y # x => [f EXCEPT ![x] = v][y] = f[y]
         /\ v \in T => [f EXCEPT ![x] = v] \in [S -> T]
  BY Zenon

LEMMA Inv_submit == \A p \in Procs : Keeps(submit(p))
  <1> SUFFICES ASSUME NEW p \in Procs, VInv, submit(p) PROVE VInv'
    BY Zenon DEF Keeps
  <1>1. PICK i0 \in free, i1 \in free, i2 \in free :
          /\ i0 # i1 /\ i2 \notin {i0, i1}
          /\ Cardinality(free \ {i0, i1, i2}) = Cardinality(free) - 3
          /\ free' = free \ {i0, i1, i2}
          /\ next' = [next EXCEPT ![i0] = i1, ![i1] = i2, ![i2] = END]
          /\ op' = [op EXCEPT ![i0] = <<buf[p], p \in write>>]
          /\ status' = [status EXCEPT ![i0] = 255]
          /\ infob' = [infob EXCEPT ![i0] = buf[p]]
          /\ avail' = [avail EXCEPT ![availidx % NUM] = i0]
          /\ head' = [head EXCEPT ![p] = i0]
    <2>1. free \subseteq Desc /\ Cardinality(free) >= 3
      BY Zenon DEF submit, VInv, TypeOK
    <2> QED BY <2>1, ThreeFree, ZenonT(40) DEF submit
  <1>2. /\ UNCHANGED <<availidx, used_idx, mem, buf, write, devidx, inflight, media, used, usedidx,
                       irq, panicked>>
        /\ pc[p] = "alloc" /\ lock = Nobody /\ lock' = p
        /\ pc' = [pc EXCEPT ![p] = "publish"] /\ bdisk' = [bdisk EXCEPT ![buf[p]] = 1]
    BY Zenon DEF submit, Goto
  <1>3. /\ pc \in [Procs -> PCs] /\ buf \in [Procs -> Bufs \cup {Nobody}]
        /\ bdisk \in [Bufs -> {0, 1}] /\ free \subseteq Desc
        /\ availidx \in Index /\ devidx \in Index
        /\ avail \in [Desc -> Desc] /\ head \in [Procs -> Desc \cup {END}]
        /\ next \in [Desc -> Desc \cup {END}] /\ status \in [Desc -> {0, 255}]
        /\ op \in [Desc -> (Bufs \cup {Nobody}) \X BOOLEAN]
        /\ infob \in [Desc -> Bufs \cup {Nobody}]
    BY Zenon DEF VInv, TypeOK, PCs, Index
  <1>4. p \notin Submitted /\ buf[p] \in Bufs
    BY <1>2, <1>3, SMTT(40) DEF VInv, Callers, Submitted
  <1>5. Chains' /\ Submitted' = Submitted \cup {p} /\ \A q \in Submitted : head'[q] = head[q]
    BY <1>1, <1>4, SubmitChains, Zenon
  <1>6. availidx % NUM \in Desc
    BY <1>3, RingIndex, Zenon
  <1>7. /\ head'[p] = i0 /\ op'[i0] = <<buf[p], p \in write>> /\ status'[i0] = 255
        /\ infob'[i0] = buf[p] /\ avail'[availidx % NUM] = i0 /\ bdisk'[buf[p]] = 1
        /\ pc'[p] = "publish"
    <2>1. head'[p] = i0 /\ infob'[i0] = buf[p]
      BY <1>1, <1>3, Assigned, ZenonT(40)
    <2>0. i0 \in Desc
      BY <1>3, Zenon
    <2>2. op'[i0] = <<buf[p], p \in write>> /\ status'[i0] = 255
      <3>1. op' = [op EXCEPT ![i0] = <<buf[p], p \in write>>] /\ DOMAIN op = Desc
        BY <1>1, <1>3, Zenon
      <3>2. status' = [status EXCEPT ![i0] = 255] /\ DOMAIN status = Desc
        BY <1>1, <1>3, Zenon
      <3> QED BY <2>0, <3>1, <3>2, Zenon
    <2>3. avail'[availidx % NUM] = i0
      BY <1>1, <1>3, <1>6, Assigned, Zenon
    <2>4. bdisk'[buf[p]] = 1 /\ pc'[p] = "publish"
      BY <1>2, <1>3, <1>4, Assigned, ZenonT(40)
    <2> QED BY <2>1, <2>2, <2>3, <2>4, Zenon
  <1>8. TypeOK'
    <2>1. free' \subseteq Desc /\ next' \in [Desc -> Desc \cup {END}]
      BY <1>1, <1>3, Zenon
    <2>a. <<buf[p], p \in write>> \in (Bufs \cup {Nobody}) \X BOOLEAN
      <3>1. (p \in write) \in BOOLEAN
        BY SMT
      <3>2. \A x \in Bufs \cup {Nobody}, y \in BOOLEAN : <<x, y>> \in (Bufs \cup {Nobody}) \X BOOLEAN
        BY SMT
      <3> QED BY <1>4, <3>1, <3>2, Zenon
    <2>2. op' \in [Desc -> (Bufs \cup {Nobody}) \X BOOLEAN]
      BY <1>1, <1>3, <2>a, Assigned, Zenon
    <2>b. status' \in [Desc -> {0, 255}]
      BY <1>1, <1>3, Zenon
    <2>3. infob' \in [Desc -> Bufs \cup {Nobody}] /\ avail' \in [Desc -> Desc]
      BY <1>1, <1>3, <1>4, Zenon
    <2>4. bdisk' \in [Bufs -> {0, 1}] /\ pc' \in [Procs -> PCs]
      BY <1>2, <1>3, Zenon DEF PCs
    <2>5. head' \in [Procs -> Desc \cup {END}] /\ lock' \in Procs \cup {Nobody, "intr"}
      BY <1>1, <1>2, <1>3, Zenon
    <2> QED BY <1>2, <2>1, <2>2, <2>b, <2>3, <2>4, <2>5, ZenonT(30) DEF VInv, TypeOK, PCs
  <1>9. \A q \in Procs : q # p => /\ pc'[q] = pc[q] /\ head'[q] = head[q] /\ pc[q] # "publish"
                                  /\ pc[q] # "check" /\ q # Nobody
    BY <1>1, <1>2, <1>3, VirtioAssumption DEF VInv, Callers
  <1>10. Callers'
    <2>0. \A i \in Desc : i # END
      BY Sizes DEF END, Desc
    <2>c. head'[p] # END /\ buf[p] # Nobody
      BY <1>3, <1>4, <1>7, <2>0, VirtioAssumption
    <2>a. head'[p] # END /\ pc'[p] = "publish" /\ lock' = p /\ UNCHANGED buf /\ buf[p] # Nobody
      BY <1>2, <1>7, <2>c, Zenon
    <2>b. \A q \in Procs : q # p => pc'[q] = pc[q] /\ head'[q] = head[q]
      BY <1>9, Zenon
    <2>1. \A q \in Procs : pc'[q] = "idle" <=> buf'[q] = Nobody
      BY <2>a, <2>b, Zenon DEF VInv, Callers
    <2>2. \A q \in Procs : head'[q] # END <=> pc'[q] \in {"publish", "check", "sleep", "woken"}
      BY <2>a, <2>b, Zenon DEF VInv, Callers
    <2>3. \A q \in Procs : pc'[q] \in {"publish", "check"} <=> lock' = q
      BY <1>9, <2>a, Zenon
    <2> QED BY <2>a, <2>1, <2>2, <2>3, Zenon DEF VInv, Callers
  <1>11. ASSUME NEW q \in Submitted
         PROVE  /\ q \in Procs /\ q # p /\ head[q] \in Desc /\ head[q] # i0 /\ head'[q] = head[q]
                /\ pc'[q] # "publish" /\ pc[q] # "publish"
                /\ op'[head[q]] = op[head[q]] /\ infob'[head[q]] = infob[head[q]]
                /\ status'[head[q]] = status[head[q]] /\ bdisk'[buf[q]] = bdisk[buf[q]]
    <2>1. q \in Procs /\ q # p /\ head[q] \in Desc \ free /\ head'[q] = head[q]
      BY <1>4, <1>5, <1>11, Zenon DEF Submitted, VInv, Chains
    <2>2. pc'[q] # "publish" /\ pc[q] # "publish"
      BY <1>9, <2>1, Zenon
    <2>3. head[q] # i0
      BY <2>1, Zenon
    <2>4. /\ op'[head[q]] = op[head[q]] /\ infob'[head[q]] = infob[head[q]]
          /\ status'[head[q]] = status[head[q]]
      BY <1>1, <1>3, <2>1, <2>3
    <2>5. buf[q] # buf[p] /\ buf[q] \in Bufs
      <3>1. buf[q] # buf[p]
        BY <1>4, <2>1, VirtioAssumption, Zenon DEF VInv, Callers
      <3>2. head[q] # END
        BY <1>11, Zenon DEF Submitted
      <3> QED BY <1>3, <2>1, <3>1, <3>2 DEF VInv, Callers
    <2>6. bdisk'[buf[q]] = bdisk[buf[q]]
      BY <1>2, <1>3, <2>5
    <2> QED BY <2>1, <2>2, <2>3, <2>4, <2>6, Zenon
  <1>12. Requests'
    <2>0. \A h \in inflight : \E q \in Submitted : head[q] = h
      BY Zenon DEF VInv, Requests
    <2>a. \A q \in Submitted : head[q] # i0 /\ head'[q] = head[q]
      BY <1>11, Zenon
    <2>1. i0 \notin inflight
      BY <2>0, <2>a, Zenon
    <2>2. ASSUME NEW q \in Submitted'
          PROVE  /\ op'[head'[q]][1] = buf'[q] /\ infob'[head'[q]] = buf'[q]
                 /\ pc'[q] = "publish" => /\ status'[head'[q]] = 255 /\ head'[q] \notin inflight'
                                          /\ avail'[availidx' % NUM] = head'[q]
                 /\ status'[head'[q]] = 255 => bdisk'[buf'[q]] = 1
                 /\ status'[head'[q]] = 0 => /\ head'[q] \notin inflight'
                                             /\ mem'[buf'[q]] = media'[buf'[q]]
      <3>1. CASE q = p
        BY <1>2, <1>7, <2>1, <3>1, SMTT(40)
      <3>2. CASE q \in Submitted
        BY <1>2, <1>11, <3>2 DEF VInv, Requests
      <3> QED BY <1>5, <2>2, <3>1, <3>2, ZenonT(40)
    <2>3. \A h \in inflight' : \E q \in Submitted' : head'[q] = h
      BY <1>2, <1>5, <2>0, <2>a, Zenon
    <2> QED BY <2>2, <2>3, Zenon DEF Requests
  <1>13. Queued' = Queued /\ Done' = Done
    <2>1. p \notin Queued' /\ p \notin Done'
      BY <1>7 DEF Queued, Done
    <2>2. \A q \in Submitted : (q \in Queued' <=> q \in Queued) /\ (q \in Done' <=> q \in Done)
      BY <1>2, <1>5, <1>11 DEF Queued, Done
    <2>3. /\ Queued \subseteq Submitted /\ Queued' \subseteq Submitted \cup {p}
          /\ Done \subseteq Submitted /\ Done' \subseteq Submitted \cup {p}
      BY <1>5, Zenon DEF Queued, Done
    <2> QED BY <2>1, <2>2, <2>3, ZenonT(40)
  <1>14. Rings'
    <2>1. Holds(avail, devidx, availidx, Queued, head) /\ Holds(used, used_idx, usedidx, Done, head)
      BY Zenon DEF VInv, Rings
    <2>2. (\A q \in Queued : head'[q] = head[q]) /\ (\A q \in Done : head'[q] = head[q])
      BY <1>5, ZenonT(40) DEF Queued, Done
    <2>3. Holds(avail', devidx, availidx, Queued, head)
      BY <1>1, <1>3, <2>1, Counts, RingWrite, Zenon
    <2>4. Holds(avail', devidx, availidx, Queued, head') /\ Holds(used, used_idx, usedidx, Done, head')
      BY <2>1, <2>2, <2>3, RingSame, Zenon
    <2> QED BY <1>2, <1>13, <2>4, Zenon DEF Rings
  <1> QED BY <1>2, <1>5, <1>8, <1>10, <1>12, <1>14, Zenon DEF VInv

\* free_chain() walks over the three descriptors of the request.
LEMMA ChainOwn == ASSUME VInv, NEW p \in Submitted PROVE chain(head[p]) = Own(p)
  <1>1. \A j \in Desc : next[j] \in Desc \cup {END}
    BY Zenon DEF VInv, TypeOK
  <1>2. /\ head[p] \in Desc /\ next[head[p]] \in Desc /\ next[next[head[p]]] \in Desc
        /\ next[next[next[head[p]]]] = END
    BY Zenon DEF VInv, Chains
  <1>3. ASSUME NEW j \in Desc
        PROVE  next[j] = END \/ next[next[j]] = END \/ next[next[next[j]]] = END
    <2>1. CASE j \in free
      BY <2>1, Zenon DEF VInv, Chains
    <2>2. CASE j \notin free
      <3>1. PICK q \in Submitted : j \in Own(q)
        BY <2>2, Zenon DEF VInv, Chains
      <3>2. next[next[next[head[q]]]] = END
        BY Zenon DEF VInv, Chains
      <3> QED BY <3>1, <3>2, Zenon DEF Own
    <2> QED BY <2>1, <2>2, Zenon
  <1> QED BY <1>1, <1>2, <1>3, ChainIs, Zenon DEF Own

\* The three descriptors go back.
LEMMA CompleteChains ==
  ASSUME VInv, NEW p \in Submitted, free' = free \cup Own(p), head' = [head EXCEPT ![p] = END],
         next' = [i \in Desc |-> IF i \in Own(p) THEN END ELSE next[i]]
  PROVE  /\ Chains' /\ Submitted' = Submitted \ {p} /\ Own(p) \cap free = {} /\ Own(p) \subseteq Desc
         /\ \A q \in Procs : q # p => head'[q] = head[q]
  <1>0. /\ next \in [Desc -> Desc \cup {END}] /\ head \in [Procs -> Desc \cup {END}]
        /\ free \subseteq Desc /\ p \in Procs
    BY Zenon DEF VInv, TypeOK, Submitted
  <1>1. /\ head[p] \in Desc \ free /\ next[head[p]] \in Desc \ free
        /\ next[next[head[p]]] \in Desc \ free /\ head[p] # next[head[p]]
        /\ next[next[head[p]]] \notin {head[p], next[head[p]]}
    BY Zenon DEF VInv, Chains
  <1>2. head'[p] = END /\ \A q \in Procs : q # p => head'[q] = head[q]
    BY <1>0, Zenon
  <1>3. Submitted' = Submitted \ {p}
    BY <1>0, <1>2, Zenon DEF Submitted
  <1>4. Own(p) \cap free = {} /\ Own(p) \subseteq Desc
    BY <1>1, Zenon DEF Own
  <1>5. /\ \A i \in Own(p) : next'[i] = END
        /\ \A i \in Desc : i \notin Own(p) => next'[i] = next[i]
    BY <1>4, Zenon
  <1>6. IsFiniteSet(Submitted') /\ Cardinality(free') + 3 * Cardinality(Submitted') = NUM
    <2>1. IsFiniteSet(Submitted) /\ IsFiniteSet(free)
      BY DescFinite, FS_Subset, Zenon DEF VInv, Chains, TypeOK
    <2>2. IsFiniteSet(Submitted') /\ Cardinality(Submitted') = Cardinality(Submitted) - 1
      BY <1>3, <2>1, FS_RemoveElement, Zenon
    <2>3. Cardinality(Submitted) \in Nat /\ Cardinality(free) \in Nat
      BY <2>1, FS_CardinalityType, Zenon
    <2>4. Cardinality(free) + 3 * Cardinality(Submitted) = NUM
      BY Zenon DEF VInv, Chains
    <2>5. Cardinality(free') = ((Cardinality(free) + 1) + 1) + 1
      <3> DEFINE A == free \cup {head[p]}
                 B == A \cup {next[head[p]]}
                 C == B \cup {next[next[head[p]]]}
      <3>1. head[p] \notin free /\ next[head[p]] \notin A /\ next[next[head[p]]] \notin B
        BY <1>1, Zenon
      <3>2. IsFiniteSet(A) /\ Cardinality(A) = Cardinality(free) + 1
        BY <2>1, <3>1, FS_AddElement, Zenon
      <3>4. free' = C
        BY Zenon DEF Own
      <3> HIDE DEF A
      <3>5. IsFiniteSet(B) /\ Cardinality(B) = Cardinality(A) + 1
        BY <3>1, <3>2, FS_AddElement, Zenon
      <3> HIDE DEF B
      <3>6. Cardinality(C) = Cardinality(B) + 1
        BY <3>1, <3>5, FS_AddElement, Zenon
      <3> HIDE DEF C
      <3> QED BY <3>2, <3>4, <3>5, <3>6, Zenon
    <2> DEFINE x == Cardinality(Submitted)
               y == Cardinality(free)
    <2> HIDE DEF x, y
    <2>6. x \in Nat /\ y \in Nat /\ y + 3 * x = NUM
      BY <2>3, <2>4, Zenon DEF x, y
    <2>7. (((y + 1) + 1) + 1) + 3 * (x - 1) = NUM
      BY <2>6
    <2> QED BY <2>2, <2>5, <2>7, Zenon DEF x, y
  <1>7. ASSUME NEW q \in Submitted, q # p
        PROVE  /\ Own(q)' = Own(q) /\ Own(q) \cap Own(p) = {}
               /\ head'[q] = head[q] /\ next'[head[q]] = next[head[q]]
               /\ next'[next[head[q]]] = next[next[head[q]]]
               /\ next'[next[next[head[q]]]] = next[next[next[head[q]]]]
    <2>1. head[q] \in Desc /\ next[head[q]] \in Desc /\ next[next[head[q]]] \in Desc
      BY <1>7, Zenon DEF VInv, Chains
    <2>2. Own(q) \cap Own(p) = {}
      BY <1>7, Zenon DEF VInv, Chains
    <2>3. /\ head[q] \notin Own(p) /\ next[head[q]] \notin Own(p)
          /\ next[next[head[q]]] \notin Own(p)
      <3>1. head[q] \in Own(q) /\ next[head[q]] \in Own(q) /\ next[next[head[q]]] \in Own(q)
        BY Zenon DEF Own
      <3> QED BY <2>2, <3>1, Zenon
    <2>4. /\ next'[head[q]] = next[head[q]]
          /\ next'[next[head[q]]] = next[next[head[q]]]
          /\ next'[next[next[head[q]]]] = next[next[next[head[q]]]]
      BY <1>5, <2>1, <2>3, Zenon
    <2>5. head'[q] = head[q]
      BY <1>2, <1>7, Zenon DEF Submitted
    <2>6. Own(q)' = Own(q)
      BY <2>4, <2>5, Zenon DEF Own
    <2> QED BY <2>2, <2>4, <2>5, <2>6, Zenon
  <1>8. \A q \in Submitted' :
       /\ head'[q] \in Desc \ free' /\ next'[head'[q]] \in Desc \ free'
       /\ next'[next'[head'[q]]] \in Desc \ free' /\ next'[next'[next'[head'[q]]]] = END
       /\ head'[q] # next'[head'[q]]
       /\ next'[next'[head'[q]]] \notin {head'[q], next'[head'[q]]}
    <2> SUFFICES ASSUME NEW q \in Submitted'
                 PROVE  /\ head'[q] \in Desc \ free' /\ next'[head'[q]] \in Desc \ free'
                        /\ next'[next'[head'[q]]] \in Desc \ free'
                        /\ next'[next'[next'[head'[q]]]] = END
                        /\ head'[q] # next'[head'[q]]
                        /\ next'[next'[head'[q]]] \notin {head'[q], next'[head'[q]]}
      BY Zenon
    <2>1. q \in Submitted /\ q # p
      BY <1>3, Zenon
    <2>2. /\ head[q] \in Desc \ free /\ next[head[q]] \in Desc \ free
          /\ next[next[head[q]]] \in Desc \ free /\ next[next[next[head[q]]]] = END
          /\ head[q] # next[head[q]]
          /\ next[next[head[q]]] \notin {head[q], next[head[q]]}
      BY <2>1, Zenon DEF VInv, Chains
    <2>3. Own(q) \cap Own(p) = {} /\ head[q] \in Own(q) /\ next[head[q]] \in Own(q)
          /\ next[next[head[q]]] \in Own(q)
      BY <1>7, <2>1, Zenon DEF Own
    <2>4. head[q] \notin free' /\ next[head[q]] \notin free' /\ next[next[head[q]]] \notin free'
      BY <2>2, <2>3, Zenon
    <2>5. /\ head'[q] = head[q] /\ next'[head[q]] = next[head[q]]
          /\ next'[next[head[q]]] = next[next[head[q]]]
          /\ next'[next[next[head[q]]]] = next[next[next[head[q]]]]
      BY <1>7, <2>1, Zenon
    <2> QED BY <2>2, <2>4, <2>5, Zenon
  <1>9. \A q, r \in Submitted' : q # r => Own(q)' \cap Own(r)' = {}
    <2>1. \A q, r \in Submitted : q # r => Own(q) \cap Own(r) = {}
      BY Zenon DEF VInv, Chains
    <2>2. \A q \in Submitted : q # p => Own(q)' = Own(q)
      BY <1>7, Zenon
    <2> QED BY <1>3, <2>1, <2>2, Zenon
  <1>10. \A i \in Desc : i \notin free' => \E q \in Submitted' : i \in Own(q)'
    <2> SUFFICES ASSUME NEW i \in Desc, i \notin free' PROVE \E q \in Submitted' : i \in Own(q)'
      BY Zenon
    <2>1. i \notin free /\ i \notin Own(p)
      BY Zenon
    <2>2. PICK q \in Submitted : i \in Own(q)
      BY <2>1, Zenon DEF VInv, Chains
    <2>3. q # p
      BY <2>1, <2>2, Zenon
    <2> QED BY <1>3, <1>7, <2>2, <2>3, Zenon
  <1>11. \A i \in free' : next'[i] = END
    <2>1. \A i \in free : next[i] = END /\ i \in Desc
      BY <1>0, Zenon DEF VInv, Chains
    <2> QED BY <1>4, <1>5, <2>1, Zenon
  <1>12. Chains'
    BY <1>6, <1>8, <1>9, <1>10, <1>11, Zenon DEF Chains
  <1> QED BY <1>2, <1>3, <1>4, <1>12, Zenon

LEMMA Inv_complete == \A p \in Procs : Keeps(complete(p))
  <1> SUFFICES ASSUME NEW p \in Procs, VInv, complete(p) PROVE VInv'
    BY Zenon DEF Keeps
  <1>1. pc[p] = "check" /\ bdisk[buf[p]] = 0
    BY Zenon DEF complete
  <1>2. p \in Submitted
    BY <1>1, Zenon DEF Submitted, VInv, Callers
  <1>3. /\ free' = free \cup Own(p)
        /\ next' = [i \in Desc |-> IF i \in Own(p) THEN END ELSE next[i]]
        /\ panicked' = (Own(p) \cap free # {})
    BY <1>2, ChainOwn, Zenon DEF complete
  <1>4. /\ head' = [head EXCEPT ![p] = END] /\ buf' = [buf EXCEPT ![p] = Nobody]
        /\ infob' = [infob EXCEPT ![head[p]] = Nobody] /\ op' = [op EXCEPT ![head[p]] = NoOp]
        /\ write' = write \ {p} /\ pc' = wakeup_free([pc EXCEPT ![p] = "idle"]) /\ lock' = Nobody
    BY Zenon DEF complete
  <1>5. UNCHANGED <<avail, availidx, used_idx, bdisk, mem, devidx, inflight, media, used, usedidx,
                    status, irq>>
    BY Zenon DEF complete, device
  <1>6. /\ Chains' /\ Submitted' = Submitted \ {p} /\ Own(p) \cap free = {} /\ Own(p) \subseteq Desc
        /\ \A q \in Procs : q # p => head'[q] = head[q]
    BY <1>2, <1>3, <1>4, CompleteChains, Zenon
  <1>7. panicked' = FALSE
    BY <1>3, <1>6, Zenon
  <1>8. /\ pc \in [Procs -> PCs] /\ buf \in [Procs -> Bufs \cup {Nobody}]
        /\ free \subseteq Desc /\ write \subseteq Procs /\ head \in [Procs -> Desc \cup {END}]
        /\ next \in [Desc -> Desc \cup {END}] /\ infob \in [Desc -> Bufs \cup {Nobody}]
        /\ op \in [Desc -> (Bufs \cup {Nobody}) \X BOOLEAN]
    BY Zenon DEF VInv, TypeOK, PCs
  <1>9. /\ head'[p] = END /\ buf'[p] = Nobody /\ \A q \in Procs : q # p => buf'[q] = buf[q]
    BY <1>4, <1>8, Zenon
  <1>10. /\ pc' \in [Procs -> PCs] /\ pc'[p] = "idle"
         /\ \A q \in Procs : q # p => pc'[q] = IF pc[q] = "nodesc" THEN "alloc" ELSE pc[q]
    <2> DEFINE pcs == [pc EXCEPT ![p] = "idle"]
    <2>1. /\ pcs \in [Procs -> PCs] /\ pcs[p] = "idle"
          /\ \A q \in Procs : q # p => pcs[q] = pc[q]
      BY <1>8, Zenon DEF PCs
    <2>2. pc' = wakeup_free(pcs)
      BY <1>4, Zenon
    <2> HIDE DEF pcs
    <2> QED BY <1>8, <2>1, <2>2, Wakes
  <1>11. TypeOK'
    <2>1. free' \subseteq Desc /\ next' \in [Desc -> Desc \cup {END}]
      BY <1>3, <1>6, <1>8, Zenon
    <2>2. op' \in [Desc -> (Bufs \cup {Nobody}) \X BOOLEAN]
      BY <1>4, <1>8, Zenon DEF NoOp
    <2>3. infob' \in [Desc -> Bufs \cup {Nobody}] /\ buf' \in [Procs -> Bufs \cup {Nobody}]
      BY <1>4, <1>8, Zenon
    <2>4. head' \in [Procs -> Desc \cup {END}] /\ write' \subseteq Procs
      BY <1>4, <1>8, Zenon
    <2> QED BY <1>4, <1>5, <1>7, <1>10, <2>1, <2>2, <2>3, <2>4, ZenonT(60) DEF VInv, TypeOK, PCs
  <1>12. lock = p
    BY <1>1, Zenon DEF VInv, Callers
  <1>13. Callers'
    <2>0. \A q \in Procs : q # p => /\ pc'[q] = "idle" <=> pc[q] = "idle"
                                    /\ pc'[q] = "publish" <=> pc[q] = "publish"
                                    /\ pc'[q] = "check" <=> pc[q] = "check"
                                    /\ pc'[q] = "sleep" <=> pc[q] = "sleep"
                                    /\ pc'[q] = "woken" <=> pc[q] = "woken"
      BY <1>10, Zenon
    <2>1. \A q \in Procs : pc'[q] = "idle" <=> buf'[q] = Nobody
      BY <1>9, <1>10, <2>0, Zenon DEF VInv, Callers
    <2>2. \A q \in Procs : head'[q] # END <=> pc'[q] \in {"publish", "check", "sleep", "woken"}
      BY <1>6, <1>9, <1>10, <2>0 DEF VInv, Callers
    <2>3. \A q \in Procs : pc'[q] \notin {"publish", "check"} /\ lock' # q
      BY <1>4, <1>10, <1>12, <2>0, VirtioAssumption, Zenon DEF VInv, Callers
    <2>4. \A q, r \in Procs : r # q /\ buf'[q] # Nobody => buf'[r] # buf'[q]
      BY <1>9, Zenon DEF VInv, Callers
    <2> QED BY <2>1, <2>2, <2>3, <2>4, Zenon DEF Callers
  <1>14. status[head[p]] = 0 /\ head[p] \notin inflight /\ head[p] \in Desc
    <2>1. head[p] \in Desc /\ status \in [Desc -> {0, 255}]
      BY <1>2, Zenon DEF VInv, Chains, TypeOK
    <2>2. status[head[p]] # 255
      BY <1>1, <1>2 DEF VInv, Requests
    <2>3. status[head[p]] = 0
      BY <2>1, <2>2
    <2> QED BY <1>2, <2>1, <2>3, ZenonT(40) DEF VInv, Requests
  <1>15. ASSUME NEW q \in Submitted, q # p
         PROVE  /\ head'[q] = head[q] /\ buf'[q] = buf[q]
                /\ pc'[q] # "publish" /\ pc[q] # "publish"
                /\ op'[head[q]] = op[head[q]] /\ infob'[head[q]] = infob[head[q]]
    <2>1. q \in Procs /\ head[q] \in Desc
      BY <1>15, Zenon DEF Submitted, VInv, Chains
    <2>2. head[q] # head[p]
      BY <1>2, <1>15, Counts, Zenon
    <2>3. op'[head[q]] = op[head[q]] /\ infob'[head[q]] = infob[head[q]]
      BY <1>4, <1>8, <1>14, <2>1, <2>2, Zenon
    <2>4. pc[q] # "publish"
      BY <1>12, <1>15, <2>1, Zenon DEF VInv, Callers
    <2>5. pc'[q] # "publish"
      BY <1>10, <1>15, <2>1, <2>4, Zenon
    <2> QED BY <1>6, <1>9, <1>15, <2>1, <2>3, <2>4, <2>5, Zenon
  <1>16. Requests'
    <2>1. ASSUME NEW q \in Submitted'
          PROVE  /\ op'[head'[q]][1] = buf'[q] /\ infob'[head'[q]] = buf'[q]
                 /\ pc'[q] = "publish" => /\ status'[head'[q]] = 255 /\ head'[q] \notin inflight'
                                          /\ avail'[availidx' % NUM] = head'[q]
                 /\ status'[head'[q]] = 255 => bdisk'[buf'[q]] = 1
                 /\ status'[head'[q]] = 0 => /\ head'[q] \notin inflight'
                                             /\ mem'[buf'[q]] = media'[buf'[q]]
      <3>1. q \in Submitted /\ q # p
        BY <1>6, <2>1, Zenon
      <3>2. /\ head'[q] = head[q] /\ buf'[q] = buf[q] /\ pc'[q] # "publish"
            /\ op'[head[q]] = op[head[q]] /\ infob'[head[q]] = infob[head[q]]
        BY <1>15, <3>1, Zenon
      <3> QED BY <1>5, <3>1, <3>2 DEF VInv, Requests
    <2>2. \A h \in inflight : \E q \in Submitted : head[q] = h
      BY Zenon DEF VInv, Requests
    <2>3. \A q \in Submitted : q # p => head'[q] = head[q]
      BY <1>15, Zenon
    <2>4. \A h \in inflight' : \E q \in Submitted' : head'[q] = h
      BY <1>5, <1>6, <1>14, <2>2, <2>3, Zenon
    <2> QED BY <2>1, <2>4, ZenonT(40) DEF Requests
  <1>17. Queued' = Queued /\ Done' = Done
    <2>1. p \notin Queued /\ p \notin Done
      BY <1>1, <1>14 DEF Queued, Done
    <2>2. \A q \in Submitted : q # p => (q \in Queued' <=> q \in Queued) /\ (q \in Done' <=> q \in Done)
      BY <1>5, <1>6, <1>15 DEF Queued, Done
    <2>3. /\ Queued \subseteq Submitted /\ Queued' \subseteq Submitted \ {p}
          /\ Done \subseteq Submitted /\ Done' \subseteq Submitted \ {p}
      BY <1>6, Zenon DEF Queued, Done
    <2> QED BY <2>1, <2>2, <2>3, ZenonT(40)
  <1>18. Rings'
    <2>1. Holds(avail, devidx, availidx, Queued, head) /\ Holds(used, used_idx, usedidx, Done, head)
      BY Zenon DEF VInv, Rings
    <2>0. p \notin Queued /\ p \notin Done
      BY <1>1, <1>14 DEF Queued, Done
    <2>a. \A q \in Submitted : q # p => head'[q] = head[q]
      BY <1>15, Zenon
    <2>2. (\A q \in Queued : head'[q] = head[q]) /\ (\A q \in Done : head'[q] = head[q])
      BY <2>0, <2>a DEF Queued, Done
    <2>4. Holds(avail, devidx, availidx, Queued, head') /\ Holds(used, used_idx, usedidx, Done, head')
      BY <2>1, <2>2, RingSame, Zenon
    <2> QED BY <1>5, <1>17, <2>4, Zenon DEF Rings
  <1> QED BY <1>6, <1>7, <1>11, <1>13, <1>16, <1>18, Zenon DEF VInv

-----------------------------------------------------------------------------
(* virtio_disk_intr() and the device *)

\* Requests, for one request.
RequestOK(p) ==
  /\ op[head[p]][1] = buf[p] /\ infob[head[p]] = buf[p]
  /\ pc[p] = "publish" => /\ status[head[p]] = 255 /\ head[p] \notin inflight
                          /\ avail[availidx % NUM] = head[p]
  /\ status[head[p]] = 255 => bdisk[buf[p]] = 1
  /\ status[head[p]] = 0 => head[p] \notin inflight /\ mem[buf[p]] = media[buf[p]]

LEMMA RequestFacts ==
  ASSUME VInv, NEW p \in Submitted
  PROVE  /\ p \in Procs /\ head[p] \in Desc /\ buf[p] \in Bufs /\ status[head[p]] \in {0, 255}
         /\ RequestOK(p)
         /\ \A q \in Submitted : q # p => head[q] # head[p] /\ buf[q] # buf[p]
  <1>1. p \in Procs /\ head[p] # END /\ \A q \in Submitted : q \in Procs
    BY Zenon DEF Submitted
  <1>2. head[p] \in Desc /\ status \in [Desc -> {0, 255}] /\ buf \in [Procs -> Bufs \cup {Nobody}]
    BY Zenon DEF VInv, Chains, TypeOK
  <1>3. buf[p] # Nobody
    BY <1>1, Zenon DEF VInv, Callers
  <1>4. \A q \in Submitted : q # p => buf[q] # buf[p]
    BY <1>1, <1>3, Zenon DEF VInv, Callers
  <1>5. \A q \in Submitted : q # p => head[q] # head[p]
    BY Counts, Zenon
  <1>6. RequestOK(p)
    BY Zenon DEF VInv, Requests, RequestOK
  <1>7. buf[p] \in Bufs /\ status[head[p]] \in {0, 255}
    BY <1>1, <1>2, <1>3
  <1> QED BY <1>1, <1>2, <1>4, <1>5, <1>6, <1>7, ZenonT(40)

LEMMA RequestsDiffer ==
  ASSUME VInv, NEW p \in Submitted, NEW q \in Submitted, q # p
  PROVE  head[q] # head[p] /\ buf[q] # buf[p]
  <1>1. \A r \in Submitted : r # p => head[r] # head[p] /\ buf[r] # buf[p]
    BY RequestFacts, ZenonT(40)
  <1> QED BY <1>1, Zenon

\* An entry of the used ring is that of a request that is done, and wakes its process.
LEMMA Inv_intr_entry == Keeps(intr_entry)
  <1> SUFFICES ASSUME VInv, intr_entry PROVE VInv'
    BY Zenon DEF Keeps
  <1>0. /\ lock = "intr" /\ used_idx # usedidx
        /\ used' = [used EXCEPT ![used_idx % NUM] = 0] /\ used_idx' = Inc(used_idx)
        /\ UNCHANGED <<free, next, op, infob, avail, availidx, mem, lock, buf, write, head, devidx,
                       inflight, media, usedidx, status, irq>>
    BY Zenon DEF intr_entry, request, Inc
  <1>1. /\ used \in [Desc -> Desc] /\ used_idx \in Index /\ usedidx \in Index /\ availidx \in Index
        /\ devidx \in Index /\ bdisk \in [Bufs -> {0, 1}] /\ pc \in [Procs -> PCs]
    BY Zenon DEF VInv, TypeOK, Index, PCs
  <1>2. Holds(used, used_idx, usedidx, Done, head) /\ Done \subseteq Submitted
    BY Zenon DEF VInv, Rings, Done
  <1>3. \A q, r \in Done : q # r => head[q] # head[r]
    BY <1>2, Counts, Zenon
  <1>4. PICK p \in Done : /\ used[used_idx % NUM] = head[p]
                          /\ Holds(used', Inc(used_idx), usedidx, Done \ {p}, head)
    <2>1. used_idx # usedidx /\ used' = [used EXCEPT ![used_idx % NUM] = 0]
      BY <1>0, Zenon
    <2>2. used \in [Desc -> Desc] /\ used_idx \in Index /\ usedidx \in Index
      BY <1>1, Zenon
    <2>3. Cardinality(Done) < NUM
      BY Counts, Zenon
    <2>4. \E q \in Done : /\ used[used_idx % NUM] = head[q]
                         /\ Holds([used EXCEPT ![used_idx % NUM] = 0], Inc(used_idx), usedidx,
                                  Done \ {q}, head)
      BY <1>2, <1>3, <2>1, <2>2, <2>3, RingTake, Zenon
    <2> QED BY <2>1, <2>4, Zenon
  <1>5. p \in Submitted /\ status[head[p]] = 0
    BY <1>2, Zenon DEF Done
  <1>6. p \in Procs /\ head[p] \in Desc /\ buf[p] \in Bufs /\ infob[head[p]] = buf[p]
    BY <1>5, RequestFacts, ZenonT(40) DEF RequestOK
  <1>7. /\ bdisk' = [bdisk EXCEPT ![buf[p]] = 0] /\ pc' = wakeup_buf(buf[p]) /\ UNCHANGED panicked
    <2>1. buf[p] # Nobody
      BY <1>6, VirtioAssumption, Zenon
    <2> QED BY <1>4, <1>5, <1>6, <2>1, Zenon DEF intr_entry
  <1>8. /\ pc' \in [Procs -> PCs]
        /\ \A q \in Procs : pc'[q] = pc[q] \/ (pc[q] = "sleep" /\ pc'[q] = "woken")
    BY <1>1, <1>7, Wakes, Zenon
  <1>9. bdisk' \in [Bufs -> {0, 1}] /\ bdisk'[buf[p]] = 0
        /\ \A b \in Bufs : b # buf[p] => bdisk'[b] = bdisk[b]
    BY <1>1, <1>6, <1>7
  <1>10. TypeOK'
    <2>1. {availidx', usedidx', used_idx', devidx'} \subseteq 0 .. UINT16 - 1
      <3>1. used_idx' \in Index
        BY <1>0, <1>1, IncIs, Zenon
      <3> QED BY <1>0, <1>1, <3>1, Zenon DEF Index
    <2>2. used' \in [Desc -> Desc]
      <3>1. 0 \in Desc /\ used_idx % NUM \in Desc
        BY <1>1, RingIndex, Sizes DEF Desc
      <3> QED BY <1>0, <1>1, <3>1, Zenon
    <2> QED BY <1>0, <1>7, <1>8, <1>9, <2>1, <2>2, ZenonT(30) DEF VInv, TypeOK, PCs
  <1>11. \A q \in Procs : /\ pc'[q] = "idle" <=> pc[q] = "idle"
                          /\ pc'[q] = "publish" <=> pc[q] = "publish"
                          /\ pc'[q] = "check" <=> pc[q] = "check"
                          /\ pc'[q] \in {"sleep", "woken"} <=> pc[q] \in {"sleep", "woken"}
    BY <1>8, Zenon
  <1>12. Callers'
    BY <1>0, <1>11, Zenon DEF VInv, Callers
  <1>13. Chains' /\ Submitted' = Submitted
    BY <1>0, ChainsSame, Zenon DEF VInv
  <1>14. \A q \in Submitted : q # p => /\ q \in Procs /\ bdisk'[buf[q]] = bdisk[buf[q]]
                                       /\ (pc'[q] = "publish" <=> pc[q] = "publish")
    <2>0. \A q \in Submitted : q \in Procs /\ buf[q] \in Bufs
      BY RequestFacts, ZenonT(40)
    <2>1. \A q \in Submitted : q # p => buf[q] # buf[p]
      BY <1>5, RequestsDiffer, Zenon
    <2> QED BY <1>9, <1>11, <2>0, <2>1, Zenon
  <1>15. Requests'
    <2>1. ASSUME NEW q \in Submitted PROVE RequestOK(q)'
      <3>0. RequestOK(q)
        BY RequestFacts, Zenon
      <3>1. CASE q = p
        BY <1>0, <1>5, <1>6, <1>11, <3>0, <3>1 DEF RequestOK
      <3>2. CASE q # p
        BY <1>0, <1>14, <3>0, <3>2, Zenon DEF RequestOK
      <3> QED BY <3>1, <3>2, Zenon
    <2>2. \A h \in inflight' : \E q \in Submitted' : head'[q] = h
      BY <1>0, <1>13, ZenonT(40) DEF VInv, Requests
    <2> QED BY <1>13, <2>1, <2>2, Zenon DEF Requests, RequestOK
  <1>16. Done' = Done \ {p}
    <2>1. p \notin Done'
      BY <1>0, <1>9 DEF Done
    <2>2. \A q \in Submitted : q # p => (q \in Done' <=> q \in Done)
      BY <1>0, <1>13, <1>14, Zenon DEF Done
    <2>3. Done' \subseteq Submitted
      BY <1>13, Zenon DEF Done
    <2> QED BY <1>2, <2>1, <2>2, <2>3, Zenon
  <1>17. Queued' = Queued
    <2>1. \A q \in Submitted : q \in Procs
      BY Zenon DEF Submitted
    <2> QED BY <1>0, <1>11, <1>13, <2>1, Zenon DEF Queued
  <1>18. Rings'
    BY <1>0, <1>4, <1>16, <1>17, Zenon DEF VInv, Rings
  <1> QED BY <1>7, <1>10, <1>12, <1>13, <1>15, <1>18, Zenon DEF VInv

\* The device takes the oldest request; the entry that is being filled in is another.
LEMMA Inv_dev_take == Keeps(dev_take)
  <1> SUFFICES ASSUME VInv, dev_take PROVE VInv'
    BY Zenon DEF Keeps
  <1>0. /\ devidx # availidx /\ inflight' = inflight \cup {avail[devidx % NUM]}
        /\ avail' = [avail EXCEPT ![devidx % NUM] = 0] /\ devidx' = Inc(devidx)
        /\ UNCHANGED <<free, next, op, infob, availidx, used_idx, bdisk, mem, lock, pc, buf, write,
                       head, media, used, usedidx, status, irq, panicked>>
    BY Zenon DEF dev_take, request, Inc
  <1>1. /\ avail \in [Desc -> Desc] /\ used_idx \in Index /\ usedidx \in Index
        /\ availidx \in Index /\ devidx \in Index /\ inflight \subseteq Desc
    BY Zenon DEF VInv, TypeOK, Index
  <1>2. Holds(avail, devidx, availidx, Queued, head) /\ Queued \subseteq Submitted
    BY Zenon DEF VInv, Rings, Queued
  <1>3. \A q, r \in Queued : q # r => head[q] # head[r]
    BY <1>2, Counts, Zenon
  <1>4. /\ devidx % NUM # availidx % NUM
        /\ \E q \in Queued : /\ avail[devidx % NUM] = head[q]
                             /\ Holds(avail', Inc(devidx), availidx, Queued \ {q}, head)
    <2>1. devidx # availidx /\ avail' = [avail EXCEPT ![devidx % NUM] = 0]
      BY <1>0, Zenon
    <2>2. avail \in [Desc -> Desc] /\ devidx \in Index /\ availidx \in Index
      BY <1>1, Zenon
    <2>3. Cardinality(Queued) < NUM
      BY Counts
    <2>4. Holds(avail, devidx, availidx, Queued, head)
      BY <1>2, Zenon
    <2>5. /\ devidx % NUM # availidx % NUM
          /\ \E q \in Queued : /\ avail[devidx % NUM] = head[q]
                               /\ Holds([avail EXCEPT ![devidx % NUM] = 0], Inc(devidx), availidx,
                                        Queued \ {q}, head)
      BY <1>3, <2>1, <2>2, <2>3, <2>4, RingTake, Zenon
    <2> QED BY <2>1, <2>5, Zenon
  <1>5. PICK p \in Queued : /\ avail[devidx % NUM] = head[p]
                            /\ Holds(avail', Inc(devidx), availidx, Queued \ {p}, head)
    BY <1>4, Zenon
  <1>6. p \in Submitted /\ pc[p] # "publish" /\ status[head[p]] = 255 /\ inflight' = inflight \cup {head[p]}
    BY <1>0, <1>5, Zenon DEF Queued
  <1>a. 0 \in Desc /\ devidx % NUM \in Desc /\ availidx % NUM \in Desc
    BY <1>1, RingIndex, Sizes DEF Desc
  <1>7. avail'[availidx % NUM] = avail[availidx % NUM] /\ avail' \in [Desc -> Desc]
    BY <1>0, <1>1, <1>4, <1>a, Assigned, Zenon
  <1>8. TypeOK'
    <2>1. {availidx', usedidx', used_idx', devidx'} \subseteq 0 .. UINT16 - 1
      <3>1. devidx' \in Index
        BY <1>0, <1>1, IncIs, Zenon
      <3> QED BY <1>0, <1>1, <3>1, Zenon DEF Index
    <2>2. inflight' \subseteq Desc
      <3>1. head[p] \in Desc
        BY <1>6, RequestFacts, ZenonT(40)
      <3>2. inflight' = inflight \cup {head[p]} /\ inflight \subseteq Desc
        BY <1>1, <1>6, Zenon
      <3> QED BY <3>1, <3>2, Zenon
    <2> QED BY <1>0, <1>7, <2>1, <2>2, ZenonT(30) DEF VInv, TypeOK
  <1>9. Callers'
    BY <1>0, Zenon DEF VInv, Callers
  <1>10. Chains' /\ Submitted' = Submitted
    BY <1>0, ChainsSame, Zenon DEF VInv
  <1>11. \A q \in Submitted : q # p => (head[q] \in inflight' <=> head[q] \in inflight)
    <2>1. \A q \in Submitted : q # p => head[q] # head[p]
      <3>1. p \in Submitted
        BY <1>6, ZenonT(40)
      <3> QED BY <3>1, RequestsDiffer, Zenon
    <2> QED BY <1>6, <2>1, Zenon
  <1>12. Requests'
    <2>1. ASSUME NEW q \in Submitted PROVE RequestOK(q)'
      <3>0. RequestOK(q)
        BY RequestFacts, Zenon
      <3>1. CASE q = p
        BY <1>0, <1>6, <3>0, <3>1 DEF RequestOK
      <3>2. CASE q # p
        <4>1. head[q] \in inflight' <=> head[q] \in inflight
          BY <1>11, <3>2, Zenon
        <4> QED BY <1>0, <1>7, <3>0, <4>1, Zenon DEF RequestOK
      <3> QED BY <3>1, <3>2, Zenon
    <2>2. \A h \in inflight : \E q \in Submitted : head[q] = h
      BY Zenon DEF VInv, Requests
    <2>3. \A h \in inflight' : \E q \in Submitted' : head'[q] = h
      <3>1. \A h \in inflight' : \E q \in Submitted : head[q] = h
        BY <1>6, <2>2, ZenonT(40)
      <3> QED BY <1>0, <1>10, <3>1, Zenon
    <2> QED BY <1>10, <2>1, <2>3, Zenon DEF Requests, RequestOK
  <1>13. Done' = Done
    BY <1>0, <1>10, Zenon DEF Done
  <1>14. Queued' = Queued \ {p}
    <2>1. p \notin Queued'
      BY <1>0, <1>6, Zenon DEF Queued
    <2>2. \A q \in Submitted : q # p => (q \in Queued' <=> q \in Queued)
      BY <1>0, <1>10, <1>11, Zenon DEF Queued
    <2>3. Queued' \subseteq Submitted
      BY <1>10, Zenon DEF Queued
    <2> QED BY <1>2, <2>1, <2>2, <2>3, Zenon
  <1>15. Rings'
    BY <1>0, <1>5, <1>13, <1>14, Zenon DEF VInv, Rings
  <1> QED BY <1>0, <1>8, <1>9, <1>10, <1>12, <1>15, Zenon DEF VInv

\* The device finishes a request: the block is transferred, and the entry after the last
\* one of the used ring is not in use.
LEMMA Inv_dev_finish == \A h \in Desc : Keeps(dev_finish(h))
  <1> SUFFICES ASSUME NEW h \in Desc, VInv, dev_finish(h) PROVE VInv'
    BY Zenon DEF Keeps
  <1>0. /\ h \in inflight /\ inflight' = inflight \ {h}
        /\ status' = [status EXCEPT ![h] = 0] /\ used' = [used EXCEPT ![usedidx % NUM] = h]
        /\ usedidx' = Inc(usedidx) /\ irq' = TRUE
        /\ UNCHANGED <<free, next, op, infob, avail, availidx, used_idx, bdisk, lock, pc, buf, write,
                       head, devidx, panicked>>
    BY Zenon DEF dev_finish, request, Inc
  <1>1. /\ used \in [Desc -> Desc] /\ used_idx \in Index /\ usedidx \in Index
        /\ availidx \in Index /\ devidx \in Index /\ inflight \subseteq Desc
        /\ status \in [Desc -> {0, 255}] /\ mem \in [Bufs -> Data] /\ media \in [Bufs -> Data]
    BY Zenon DEF VInv, TypeOK, Index
  <1>2. PICK p \in Submitted : head[p] = h
    BY <1>0, Zenon DEF VInv, Requests
  <1>3. /\ p \in Procs /\ buf[p] \in Bufs /\ status[h] \in {0, 255} /\ RequestOK(p)
    BY <1>2, RequestFacts, ZenonT(40)
  <1>4. /\ status[h] = 255 /\ op[h][1] = buf[p] /\ bdisk[buf[p]] = 1 /\ pc[p] # "publish"
    BY <1>0, <1>2, <1>3, Zenon DEF RequestOK
  <1>5. /\ mem' \in [Bufs -> Data] /\ media' \in [Bufs -> Data] /\ mem'[buf[p]] = media'[buf[p]]
        /\ \A b \in Bufs : b # buf[p] => mem'[b] = mem[b] /\ media'[b] = media[b]
    <2>1. \/ media' = [media EXCEPT ![buf[p]] = mem[buf[p]]] /\ mem' = mem
          \/ mem' = [mem EXCEPT ![buf[p]] = media[buf[p]]] /\ media' = media
      BY <1>4, Zenon DEF dev_finish
    <2>2. mem \in [Bufs -> Data] /\ media \in [Bufs -> Data] /\ buf[p] \in Bufs
      BY <1>1, <1>3, Zenon
    <2> QED BY <2>1, <2>2
  <1>6. /\ usedidx % NUM \in Desc /\ used' \in [Desc -> Desc] /\ used'[usedidx % NUM] = h
        /\ status' \in [Desc -> {0, 255}] /\ status'[h] = 0
        /\ \A i \in Desc : i # h => status'[i] = status[i]
    <2>1. usedidx % NUM \in Desc
      BY <1>1, RingIndex, Zenon
    <2>2. used' = [used EXCEPT ![usedidx % NUM] = h] /\ used \in [Desc -> Desc]
      BY <1>0, <1>1, Zenon
    <2>3. status' = [status EXCEPT ![h] = 0] /\ status \in [Desc -> {0, 255}]
      BY <1>0, <1>1, Zenon
    <2>4. used' \in [Desc -> Desc] /\ used'[usedidx % NUM] = h
      BY <2>1, <2>2, Zenon
    <2>5. /\ status' \in [Desc -> {0, 255}] /\ status'[h] = 0
          /\ \A i \in Desc : i # h => status'[i] = status[i]
      BY <2>3
    <2> QED BY <2>1, <2>4, <2>5, Zenon
  <1>7. TypeOK'
    <2>1. {availidx', usedidx', used_idx', devidx'} \subseteq 0 .. UINT16 - 1
      <3>1. usedidx' \in Index
        BY <1>0, <1>1, IncIs, Zenon
      <3> QED BY <1>0, <1>1, <3>1, ZenonT(40) DEF Index
    <2>2. inflight' \subseteq Desc /\ irq' \in BOOLEAN
      BY <1>0, <1>1, Zenon
    <2> QED BY <1>0, <1>5, <1>6, <2>1, <2>2, ZenonT(30) DEF VInv, TypeOK
  <1>8. Callers'
    BY <1>0, Zenon DEF VInv, Callers
  <1>9. Chains' /\ Submitted' = Submitted
    BY <1>0, ChainsSame, Zenon DEF VInv
  <1>10. ASSUME NEW q \in Submitted, q # p
         PROVE  /\ head[q] # h /\ status'[head[q]] = status[head[q]]
                /\ mem'[buf[q]] = mem[buf[q]] /\ media'[buf[q]] = media[buf[q]]
                /\ (head[q] \in inflight' <=> head[q] \in inflight)
    <2>1. head[q] # h /\ buf[q] # buf[p]
      BY <1>2, <1>10, RequestsDiffer, Zenon
    <2>2. head[q] \in Desc /\ buf[q] \in Bufs
      BY <1>10, RequestFacts, ZenonT(40)
    <2>3. inflight' = inflight \ {h}
      BY <1>0, Zenon
    <2> QED BY <1>5, <1>6, <2>1, <2>2, <2>3, ZenonT(40)
  <1>11. Requests'
    <2>1. ASSUME NEW q \in Submitted PROVE RequestOK(q)'
      <3>0. RequestOK(q)
        BY RequestFacts, ZenonT(40)
      <3>1. CASE q = p
        <4>1. h \notin inflight' /\ status'[h] = 0 /\ mem'[buf[p]] = media'[buf[p]]
          BY <1>0, <1>5, <1>6, ZenonT(40)
        <4> QED BY <1>0, <1>2, <1>4, <3>0, <3>1, <4>1, Zenon DEF RequestOK
      <3>2. CASE q # p
        <4>1. /\ status'[head[q]] = status[head[q]]
              /\ mem'[buf[q]] = mem[buf[q]] /\ media'[buf[q]] = media[buf[q]]
              /\ (head[q] \in inflight' <=> head[q] \in inflight)
          BY <1>10, <3>2, Zenon
        <4> QED BY <1>0, <3>0, <4>1 DEF RequestOK
      <3> QED BY <3>1, <3>2, Zenon
    <2>2. \A i \in inflight : \E q \in Submitted : head[q] = i
      BY Zenon DEF VInv, Requests
    <2>3. \A i \in inflight' : \E q \in Submitted' : head'[q] = i
      BY <1>0, <1>9, <2>2, Zenon
    <2> QED BY <1>9, <2>1, <2>3, Zenon DEF Requests, RequestOK
  <1>12. Queued' = Queued
    <2>0. head[p] \in inflight /\ status'[head'[p]] # 255
      <3>1. h \in inflight /\ head[p] = h /\ head'[p] = h /\ status'[h] = 0
        BY <1>0, <1>2, <1>6, Zenon
      <3> QED BY <3>1
    <2>1. p \notin Queued /\ p \notin Queued'
      BY <2>0, ZenonT(40) DEF Queued
    <2>2. \A q \in Submitted : q # p => (q \in Queued' <=> q \in Queued)
      BY <1>0, <1>9, <1>10 DEF Queued
    <2>3. Queued' \subseteq Submitted /\ Queued \subseteq Submitted
      BY <1>9, Zenon DEF Queued
    <2> QED BY <2>1, <2>2, <2>3
  <1>13. Done' = Done \cup {p} /\ p \notin Done /\ Done \subseteq Submitted
    <2>1. p \notin Done /\ p \in Done'
      BY <1>0, <1>2, <1>4, <1>6, <1>9, SMTT(40) DEF Done
    <2>2. \A q \in Submitted : q # p => (q \in Done' <=> q \in Done)
      BY <1>0, <1>9, <1>10 DEF Done
    <2>3. Done' \subseteq Submitted /\ Done \subseteq Submitted
      BY <1>9, Zenon DEF Done
    <2> QED BY <2>1, <2>2, <2>3, ZenonT(40)
  <1>14. Holds(used', used_idx, Inc(usedidx), Done \cup {p}, head)
    <2>1. Holds(used, used_idx, usedidx, Done, head)
      BY Zenon DEF VInv, Rings
    <2>2. used \in [Desc -> Desc] /\ used_idx \in Index /\ usedidx \in Index
      BY <1>1, Zenon
    <2>3. Cardinality(Done) < NUM
      BY Counts
    <2>4. Cardinality(Done) + 1 < UINT16
      BY <1>2, Counts, Zenon
    <2>5. Holds([used EXCEPT ![usedidx % NUM] = h], used_idx, usedidx, Done, head)
      BY <2>1, <2>2, <2>3, RingWrite, Zenon
    <2>6. Holds(used', used_idx, usedidx, Done, head)
      BY <1>0, <2>5, Zenon
    <2>7. \A q \in Done : head[q] # head[p]
      <3>1. \A q \in Done : q \in Submitted /\ q # p
        BY <1>13, Zenon
      <3> QED BY <1>2, <3>1, RequestsDiffer, Zenon
    <2>8. used'[usedidx % NUM] = head[p] /\ p \notin Done
      BY <1>2, <1>6, <1>13, Zenon
    <2> QED BY <2>2, <2>4, <2>6, <2>7, <2>8, RingPut, ZenonT(40)
  <1>15. Rings'
    <2>1. Holds(avail, devidx, availidx, Queued, head)
      BY Zenon DEF VInv, Rings
    <2> QED BY <1>0, <1>12, <1>13, <1>14, <2>1, Zenon DEF Rings
  <1> QED BY <1>0, <1>7, <1>8, <1>9, <1>11, <1>15, ZenonT(40) DEF VInv

-----------------------------------------------------------------------------
(* The theorems *)

LEMMA InitInv == Init => VInv
  <1> SUFFICES ASSUME Init PROVE VInv
    BY Zenon
  <1>1. Submitted = {} /\ Queued = {} /\ Done = {}
    BY Zenon DEF Init, Submitted, Queued, Done
  <1>2. IsFiniteSet({}) /\ Cardinality({}) = 0
    BY FS_EmptySet, Zenon
  <1>3. 0 \in Index /\ 0 \in Desc
    BY Sizes DEF Index, Desc
  <1>4. TypeOK
    <2>1. {availidx, usedidx, used_idx, devidx} \subseteq 0 .. UINT16 - 1
      BY <1>3, Zenon DEF Init, Index
    <2>2. op \in [Desc -> (Bufs \cup {Nobody}) \X BOOLEAN]
      BY Zenon DEF Init, NoOp
    <2>3. /\ next \in [Desc -> Desc \cup {END}] /\ status \in [Desc -> {0, 255}]
          /\ infob \in [Desc -> Bufs \cup {Nobody}]
          /\ avail \in [Desc -> Desc] /\ used \in [Desc -> Desc]
      BY <1>3, Zenon DEF Init
    <2>4. /\ bdisk \in [Bufs -> {0, 1}] /\ buf \in [Procs -> Bufs \cup {Nobody}]
          /\ head \in [Procs -> Desc \cup {END}]
          /\ pc \in [Procs -> {"idle", "alloc", "nodesc", "publish", "check", "sleep", "woken"}]
      BY Zenon DEF Init
    <2>5. /\ free \subseteq Desc /\ mem \in [Bufs -> Data] /\ media \in [Bufs -> Data]
          /\ lock \in Procs \cup {Nobody, "intr"} /\ write \subseteq Procs
          /\ inflight \subseteq Desc /\ irq \in BOOLEAN /\ panicked \in BOOLEAN
      BY Zenon DEF Init
    <2> QED BY <2>1, <2>2, <2>3, <2>4, <2>5, Zenon DEF TypeOK
  <1>5. Callers
    BY VirtioAssumption, Zenon DEF Init, Callers
  <1>6. Chains
    <2>1. Cardinality(free) = NUM
      BY DescFinite, Zenon DEF Init
    <2>2. Cardinality(free) + 3 * Cardinality(Submitted) = NUM
      BY <1>1, <1>2, <2>1, Sizes
    <2>3. \A i \in Desc : i \in free /\ next[i] = END
      BY Zenon DEF Init
    <2>4. free \subseteq Desc
      BY Zenon DEF Init
    <2> QED BY <1>1, <1>2, <2>2, <2>3, <2>4, Zenon DEF Chains
  <1>7. Requests
    BY <1>1, Zenon DEF Init, Requests
  <1>8. Rings
    <2>1. Ahead(0, 0) = 0
      BY <1>3, AheadMoves, Zenon
    <2>2. \A ring, heads : Holds(ring, 0, 0, {}, heads)
      <3>1. \A k \in Nat : ~ (k < 0)
        OBVIOUS
      <3> QED BY <1>2, <2>1, <3>1, Zenon DEF Holds
    <2> QED BY <1>1, <2>2, Zenon DEF Init, Rings
  <1> QED BY <1>4, <1>5, <1>6, <1>7, <1>8, Zenon DEF VInv, Init

LEMMA NextInv == VInv /\ [Next]_vars => VInv'
  <1> SUFFICES ASSUME VInv, [Next]_vars PROVE VInv'
    BY Zenon
  <1>1. CASE UNCHANGED vars
    <2>1. /\ Moves /\ UNCHANGED <<pc, lock, irq>>
      BY <1>1, Zenon DEF vars, Moves, request, device
    <2>2. pc \in [Procs -> PCs] /\ lock \in Procs \cup {Nobody, "intr"} /\ irq \in BOOLEAN
      BY Zenon DEF VInv, TypeOK, PCs
    <2>3. Callers'
      BY <2>1, Zenon DEF VInv, Callers, Moves
    <2> QED BY <2>1, <2>2, <2>3, MoveStep, Zenon
  <1>2. ASSUME NEW p \in Procs, Driver(p) \/ kill(p) \/ \E b \in Bufs : virtio_disk_rw(p, b)
        PROVE  VInv'
    BY <1>2, Inv_submit, Inv_nodesc, Inv_publish, Inv_wait_done, Inv_recheck, Inv_complete,
       Inv_kill, Inv_virtio_disk_rw, ZenonT(40) DEF Driver, Keeps
  <1>3. CASE Intr
    BY <1>3, Inv_intr_lock, Inv_intr_entry, Zenon DEF Intr, Keeps
  <1>4. CASE Device
    BY <1>4, Inv_dev_take, Inv_dev_finish, Zenon DEF Device, Keeps
  <1> QED BY <1>1, <1>2, <1>3, <1>4, Zenon DEF Next

\* The invariant of the disk driver, for any number of processes and buffers, any size
\* of the rings and any width of their indices: every descriptor is free or in the chain of
\* one request, from devidx to avail->idx the avail ring holds the requests that
\* virtio_disk_rw() has published and the device has not taken, once each, and from
\* disk.used_idx to used->idx the used ring those that are done and that
\* virtio_disk_intr() has not seen.
THEOREM DriverInvariant == Spec => []VInv
  BY InitInv, NextInv, PTL DEF Spec

\* Three descriptors are three.
LEMMA ThreeElements ==
  ASSUME NEW a, NEW b, NEW c, a # b, c \notin {a, b} PROVE Cardinality({a, b, c}) = 3
  <1>1. IsFiniteSet({a}) /\ Cardinality({a}) = 1
    BY FS_Singleton, Zenon
  <1>2. IsFiniteSet({a} \cup {b}) /\ Cardinality({a} \cup {b}) = 1 + 1
    BY <1>1, FS_AddElement, Zenon
  <1>3. Cardinality(({a} \cup {b}) \cup {c}) = (1 + 1) + 1
    BY <1>2, FS_AddElement, Zenon
  <1>4. ({a} \cup {b}) \cup {c} = {a, b, c}
    BY Zenon
  <1> QED BY <1>3, <1>4

\* In every reachable state of the driver alloc_desc() and free_desc() keep the descriptors
\* apart: each request has three of its own, none of them free, and none is lost; neither
\* ring is overrun, across the wrap of its 16-bit indices; and the panics of free_desc()
\* and virtio_disk_intr() are not reached.
THEOREM DescriptorsKept == Spec => []DescriptorsOwned
  <1>1. VInv => DescriptorsOwned
    <2> SUFFICES ASSUME VInv PROVE DescriptorsOwned
      BY Zenon
    <2>1. \A p \in Submitted : chain(head[p]) = Own(p)
      BY ChainOwn, Zenon
    <2>2. ASSUME NEW p \in Submitted
          PROVE  Cardinality(chain(head[p])) = 3 /\ chain(head[p]) \cap free = {}
      <3>1. /\ head[p] \notin free /\ next[head[p]] \notin free /\ next[next[head[p]]] \notin free
            /\ head[p] # next[head[p]]
            /\ next[next[head[p]]] \notin {head[p], next[head[p]]}
        BY Zenon DEF VInv, Chains
      <3>2. Cardinality(Own(p)) = 3
        BY <3>1, ThreeElements, Zenon DEF Own
      <3>3. Own(p) \cap free = {}
        BY <3>1, Zenon DEF Own
      <3> QED BY <2>1, <3>2, <3>3, Zenon
    <2>3. \A p, q \in Submitted : p # q => chain(head[p]) \cap chain(head[q]) = {}
      <3>1. \A p, q \in Submitted : p # q => Own(p) \cap Own(q) = {}
        BY Zenon DEF VInv, Chains
      <3> QED BY <2>1, <3>1, Zenon
    <2>4. /\ (availidx + UINT16 - devidx) % UINT16 <= NUM \div 3
          /\ (usedidx + UINT16 - used_idx) % UINT16 <= NUM \div 3
      <3>1. /\ (availidx + UINT16 - devidx) % UINT16 = Cardinality(Queued)
            /\ (usedidx + UINT16 - used_idx) % UINT16 = Cardinality(Done)
        BY Zenon DEF VInv, Rings, Holds, Ahead
      <3>2. \A x, y, n \in Nat : 3 * x <= n /\ y <= x => y <= n \div 3
        OBVIOUS
      <3>3. Cardinality(Queued) <= NUM \div 3 /\ Cardinality(Done) <= NUM \div 3
        BY <3>2, Counts, Sizes, Zenon
      <3> QED BY <3>1, <3>3, Zenon
    <2>5. TypeOK /\ Cardinality(free) + 3 * Cardinality(Submitted) = NUM /\ ~panicked
      BY Zenon DEF VInv, Chains
    <2> QED BY <2>2, <2>3, <2>4, <2>5, Zenon DEF DescriptorsOwned
  <1> QED BY <1>1, DriverInvariant, PTL

\* In every reachable state the device works only on buffers of requests whose process is
\* still in virtio_disk_rw() with b->disk set, and a request whose b->disk
\* virtio_disk_intr() has cleared has its buffer and its block equal: nothing reads or
\* writes a buffer after virtio_disk_rw() has returned.
THEOREM BuffersKept == Spec => []DeviceOwnsBuffer
  <1>1. VInv => DeviceOwnsBuffer
    <2> SUFFICES ASSUME VInv PROVE DeviceOwnsBuffer
      BY Zenon
    <2>1. ASSUME NEW h \in inflight
          PROVE  \E p \in Submitted : head[p] = h /\ buf[p] = op[h][1] /\ bdisk[buf[p]] = 1
      <3>1. PICK p \in Submitted : head[p] = h
        BY <2>1, Zenon DEF VInv, Requests
      <3>2. RequestOK(p) /\ status[head[p]] \in {0, 255}
        BY RequestFacts
      <3>3. buf[p] = op[h][1] /\ bdisk[buf[p]] = 1
        BY <3>1, <3>2, Zenon DEF RequestOK
      <3> QED BY <3>1, <3>3, Zenon
    <2>2. ASSUME NEW p \in Submitted, bdisk[buf[p]] = 0 PROVE mem[buf[p]] = media[buf[p]]
      <3>1. RequestOK(p) /\ status[head[p]] \in {0, 255}
        BY <2>2, RequestFacts
      <3> QED BY <2>2, <3>1 DEF RequestOK
    <2> QED BY <2>1, <2>2, Zenon DEF DeviceOwnsBuffer
  <1> QED BY <1>1, DriverInvariant, PTL
=============================================================================
