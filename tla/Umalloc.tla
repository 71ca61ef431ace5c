------------------------------ MODULE Umalloc ------------------------------
(***************************************************************************)
(* The allocator of user programs, user/umalloc.c: a circular list of free  *)
(* blocks in the order of their addresses, searched from a rover freep.     *)
(* Addresses count headers.  A step is one round of the search loops of     *)
(* malloc() and free().  The program may also call sbrk() itself, so that   *)
(* two pieces of heap need not be adjacent.                                 *)
(***************************************************************************)
EXTENDS Integers, FiniteSets

CONSTANTS HEADER,    \* sizeof(Header)
          NALLOC,    \* the least number of units morecore() asks for (4096)
          Requests,  \* arguments of malloc()
          HEAPMAX,   \* bound: the highest address sbrk() gives
          MaxMallocs \* bound

ASSUME UmallocAssumption ==
  /\ {HEADER, NALLOC, HEAPMAX} \subseteq Nat \ {0} /\ Requests \subseteq Nat /\ MaxMallocs \in Nat

VARIABLES hdr,      \* the headers in memory: ptr, size
          freep,    \* NULL before the first call
          brk,      \* the end of the heap
          run,      \* where in malloc() and free() the program is
          live,     \* the blocks the program has, by address: the bytes it asked for; 0 for none
          core,     \* units obtained by morecore()
          mallocs   \* calls still allowed

uvars == <<hdr, freep, brk, run, live, core, mallocs>>

base == 0     \* in the data segment, below the heap
NULL == -1
NoBlock == -1
Addrs == base .. HEAPMAX
Resting == [pc |-> "rest", p |-> 0, prevp |-> 0, nunits |-> 0, bytes |-> 0, bp |-> 0, malloc |-> FALSE]

UInit ==
  /\ hdr = [a \in Addrs |-> [ptr |-> 0, size |-> 0]] /\ freep = NULL /\ brk = 2
  /\ run = Resting /\ live = [a \in Addrs |-> NoBlock] /\ core = {} /\ mallocs = MaxMallocs

Units(nbytes) == (nbytes + HEADER - 1) \div HEADER + 1
-----------------------------------------------------------------------------
(* malloc() *)

malloc(nbytes) ==
  LET first == freep = NULL
      h == IF first THEN [hdr EXCEPT ![base] = [ptr |-> base, size |-> 0]] ELSE hdr
      prevp == IF first THEN base ELSE freep
  IN /\ run.pc = "rest" /\ mallocs > 0 /\ mallocs' = mallocs - 1
     /\ hdr' = h /\ freep' = prevp
     /\ run' = [Resting EXCEPT !.pc = "scan", !.prevp = prevp, !.p = h[prevp].ptr,
                               !.nunits = Units(nbytes), !.bytes = nbytes, !.malloc = TRUE]
     /\ UNCHANGED <<brk, live, core>>

\* A block that is large enough: all of it, or its tail.
malloc_fit ==
  LET p == run.p
      rest == hdr[p].size - run.nunits
      got == p + rest
  IN /\ run.pc = "scan" /\ rest >= 0
     /\ hdr' = IF rest = 0 THEN [hdr EXCEPT ![run.prevp].ptr = hdr[p].ptr]
               ELSE [hdr EXCEPT ![p].size = rest, ![got].size = run.nunits]
     /\ freep' = run.prevp
     /\ live' = [live EXCEPT ![got] = run.bytes] /\ run' = Resting
     /\ UNCHANGED <<brk, core, mallocs>>

malloc_next ==
  /\ run.pc = "scan" /\ hdr[run.p].size < run.nunits
  /\ run' = IF run.p = freep THEN [run EXCEPT !.pc = "morecore"]
            ELSE [run EXCEPT !.prevp = run.p, !.p = hdr[run.p].ptr]
  /\ UNCHANGED <<hdr, freep, brk, live, core, mallocs>>

\* morecore(): sbrk() may fail, and then malloc() does.
morecore ==
  LET nu == IF run.nunits < NALLOC THEN NALLOC ELSE run.nunits IN
  /\ run.pc = "morecore"
  /\ \/ /\ brk + nu <= HEAPMAX /\ brk' = brk + nu
        /\ hdr' = [hdr EXCEPT ![brk].size = nu] /\ core' = core \cup (brk .. brk + nu - 1)
        /\ run' = [run EXCEPT !.pc = "search", !.bp = brk, !.p = freep]
     \/ run' = Resting /\ UNCHANGED <<hdr, brk, core>>
  /\ UNCHANGED <<freep, live, mallocs>>
-----------------------------------------------------------------------------
(* free() *)

free(a) ==
  /\ run.pc = "rest" /\ live[a] # NoBlock /\ live' = [live EXCEPT ![a] = NoBlock]
  /\ run' = [Resting EXCEPT !.pc = "search", !.bp = a, !.p = freep]
  /\ UNCHANGED <<hdr, freep, brk, core, mallocs>>

\* Mutant: the search does not end where the list wraps.
Found_between(p, bp) == (bp > p /\ bp < hdr[p].ptr) \/ p >= hdr[p].ptr

\* bp belongs behind p: between p and the next block, or at an end of the list.
Found(p, bp) == \/ bp > p /\ bp < hdr[p].ptr
                \/ p >= hdr[p].ptr /\ (bp > p \/ bp < hdr[p].ptr)

free_next ==
  /\ run.pc = "search" /\ ~Found(run.p, run.bp)
  /\ run' = [run EXCEPT !.p = hdr[run.p].ptr]
  /\ UNCHANGED <<hdr, freep, brk, live, core, mallocs>>

\* The block is joined to the next one and to the one before it.  malloc() goes on after
\* morecore(), with p = freep.
free_insert ==
  LET p == run.p
      bp == run.bp
      next == hdr[p].ptr
      up == bp + hdr[bp].size = next
      h1 == [hdr EXCEPT ![bp] = IF up THEN [ptr |-> hdr[next].ptr, size |-> @.size + hdr[next].size]
                                ELSE [@ EXCEPT !.ptr = next]]
      h2 == IF p + h1[p].size = bp
            THEN [h1 EXCEPT ![p] = [ptr |-> h1[bp].ptr, size |-> @.size + h1[bp].size]]
            ELSE [h1 EXCEPT ![p].ptr = bp]
  IN /\ run.pc = "search" /\ Found(p, bp)
     /\ hdr' = h2 /\ freep' = p
     /\ run' = IF run.malloc THEN [run EXCEPT !.pc = "scan", !.prevp = p, !.p = h2[p].ptr] ELSE Resting
     /\ UNCHANGED <<brk, live, core, mallocs>>

\* The program takes a unit for itself.
sbrk ==
  /\ run.pc = "rest" /\ mallocs > 0 /\ mallocs' = mallocs - 1 /\ brk < HEAPMAX /\ brk' = brk + 1
  /\ UNCHANGED <<hdr, freep, run, live, core>>

UDone == run.pc = "rest" /\ mallocs = 0 /\ (\A a \in Addrs : live[a] = NoBlock) /\ UNCHANGED uvars

UNext == \/ \E n \in Requests : malloc(n)
         \/ malloc_fit \/ malloc_next \/ morecore \/ free_next \/ free_insert \/ sbrk
         \/ \E a \in Addrs : free(a)
         \/ UDone

USpec == UInit /\ [][UNext]_uvars
-----------------------------------------------------------------------------
(* Properties *)

UTypeOK ==
  /\ hdr \in [Addrs -> [ptr : Addrs, size : 0 .. HEAPMAX]] /\ freep \in Addrs \cup {NULL}
  /\ brk \in Addrs /\ run.p \in Addrs /\ core \subseteq Addrs

\* The free list, followed from base until it comes back.
FreeList ==
  LET after[k \in Addrs] == IF k = 0 THEN base ELSE hdr[after[k - 1]].ptr
  IN {after[k] : k \in 0 .. Cardinality(core)}
Extent(a) == a .. a + hdr[a].size - 1

\* Between calls the heap is tiled: every unit that morecore() got is in exactly one block,
\* which is on the free list or in the program's hands and as large as it asked for; the
\* list is in the order of addresses, closed, and no two free blocks touch.
HeapTiled == run.pc = "rest" /\ freep # NULL =>
  LET used == {a \in Addrs : live[a] # NoBlock}
      list == FreeList
      blocks == used \cup (list \ {base})
  IN /\ freep \in list
     /\ used \cap list = {}
     /\ UNION {Extent(a) : a \in blocks} = core
     /\ \A a, b \in blocks : a # b => Extent(a) \cap Extent(b) = {}
     /\ \A a \in used : (hdr[a].size - 1) * HEADER >= live[a]
     /\ \A a \in list : LET n == hdr[a].ptr IN
          /\ n > a \/ n = base
          /\ {b \in list : a < b /\ b < n} = {} /\ (n = base => \A b \in list : b <= a)
          /\ a + hdr[a].size # n \/ a = base
=============================================================================
