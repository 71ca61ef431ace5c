------------------------------ MODULE UserCopy ------------------------------
(***************************************************************************)
(* Moving bytes between the kernel and a user address space: copyout(),     *)
(* copyin() and copyinstr() of kernel/vm.c and, on top of them, fetchaddr() *)
(* and fetchstr() of kernel/syscall.c.  A step is one page of a copy.       *)
(*                                                                          *)
(* A byte is known by where it comes from: the kernel's buffer holds the    *)
(* user addresses it was filled from, and user memory the index of the      *)
(* kernel byte that was put there.                                          *)
(***************************************************************************)
EXTENDS Integers, Sequences

CONSTANTS PAGE,      \* PGSIZE
          NPAGES,    \* pages below MAXVA
          UINT64,    \* 2^64
          WORD,      \* sizeof(uint64)
          Addresses, \* user addresses handed to the kernel
          Counts     \* lengths of a copy

ASSUME UserCopyAssumption ==
  /\ {PAGE, NPAGES, WORD} \subseteq Nat \ {0} /\ UINT64 \in Nat /\ UINT64 > PAGE * NPAGES
  /\ Addresses \subseteq 0 .. UINT64 - 1 /\ Counts \subseteq Nat

VARIABLES ptes,   \* per page: the flags of a valid entry, "none" if there is none
          size,   \* p->sz
          nul,    \* the user address of the next '\0'
          copy,   \* the call: fn, arguments va0 and len0, and how far it is
          kbuf,   \* what the kernel's buffer was filled with
          umem    \* what user memory was filled with, 0 where it was not

ucvars == <<ptes, size, nul, copy, kbuf, umem>>

UserVA == 0 .. PAGE * NPAGES - 1
Flags == {"none", "V", "VU", "VUW"}
MAXVA == PAGE * NPAGES
PageOf(va) == va \div PAGE
PGROUNDDOWN(va) == PageOf(va) * PAGE
Copy(fn, va, len) ==
  [fn |-> fn, va0 |-> va, len0 |-> len, va |-> va, len |-> len, ret |-> "running"]

\* Mutant: only the first byte of the word is tested.
Fetchable_first(addr, sz) == addr < sz

\* fetchaddr(): "both tests needed, in case of overflow".
Fetchable(addr, sz) == ~(addr >= sz \/ (addr + WORD) % UINT64 > sz)

\* Any address space whose pages below sz are mapped (sbrk() and exec() see to that), any call.
UCInit ==
  /\ ptes \in [0 .. NPAGES - 1 -> Flags] /\ size \in UserVA
  /\ \A g \in 0 .. NPAGES - 1 : g * PAGE < size => ptes[g] # "none"
  /\ nul \in UserVA
  /\ \E va \in Addresses, len \in Counts :
       copy \in {Copy("copyin", va, len), Copy("copyout", va, len), Copy("copyinstr", va, len),
                 [Copy("fetchaddr", va, WORD) EXCEPT !.ret = IF Fetchable(va, size) THEN @ ELSE "fails"]}
  /\ (copy.fn # "copyinstr" => nul = 0) /\ (copy.fn # "fetchaddr" => size = 0)
  /\ kbuf = <<>> /\ umem = [a \in UserVA |-> 0]
-----------------------------------------------------------------------------
\* walkaddr(): a user page.
walkaddr(va) == va < MAXVA /\ ptes[PageOf(va)] \in {"VU", "VUW"}

\* The bytes of this page that the copy wants.
Chunk(c) == LET n == PAGE - (c.va - PGROUNDDOWN(c.va)) IN IF n > c.len THEN c.len ELSE n
Moved(c, n) == [c EXCEPT !.len = @ - n, !.va = PGROUNDDOWN(@) + PAGE]
BytesAt(va, n) == [i \in 1 .. n |-> va + i - 1]

copyout ==
  /\ copy.fn = "copyout" /\ copy.ret = "running" /\ copy.len > 0
  /\ IF copy.va < MAXVA /\ ptes[PageOf(copy.va)] = "VUW"
     THEN /\ copy' = Moved(copy, Chunk(copy))
          /\ umem' = [a \in UserVA |-> IF copy.va <= a /\ a < copy.va + Chunk(copy)
                                       THEN copy.len0 - copy.len + a - copy.va + 1 ELSE umem[a]]
     ELSE copy' = [copy EXCEPT !.ret = "fails"] /\ umem' = umem
  /\ UNCHANGED <<ptes, size, nul, kbuf>>

copyin ==
  /\ copy.fn \in {"copyin", "fetchaddr"} /\ copy.ret = "running" /\ copy.len > 0
  /\ IF walkaddr(copy.va)
     THEN copy' = Moved(copy, Chunk(copy)) /\ kbuf' = kbuf \o BytesAt(copy.va, Chunk(copy))
     ELSE copy' = [copy EXCEPT !.ret = "fails"] /\ kbuf' = kbuf
  /\ UNCHANGED <<ptes, size, nul, umem>>

copied ==
  /\ copy.fn # "copyinstr" /\ copy.ret = "running" /\ copy.len = 0
  /\ copy' = [copy EXCEPT !.ret = "ok"] /\ UNCHANGED <<ptes, size, nul, kbuf, umem>>

\* The page is searched for '\0', which is copied; with max used up there was none.
copyinstr ==
  LET n == Chunk(copy)
      found == copy.va <= nul /\ nul < copy.va + n
  IN /\ copy.fn = "copyinstr" /\ copy.ret = "running"
     /\ IF copy.len > 0 /\ walkaddr(copy.va)
        THEN /\ kbuf' = kbuf \o BytesAt(copy.va, IF found THEN nul - copy.va + 1 ELSE n)
             /\ copy' = IF found THEN [copy EXCEPT !.ret = "ok"] ELSE Moved(copy, n)
        ELSE copy' = [copy EXCEPT !.ret = "fails"] /\ kbuf' = kbuf
     /\ UNCHANGED <<ptes, size, nul, umem>>

\* fetchstr(): strlen() of what copyinstr() left.
fetchstr == IF copy.ret = "ok" THEN Len(kbuf) - 1 ELSE -1

UCDone == copy.ret # "running" /\ UNCHANGED ucvars

UCNext == copyout \/ copyin \/ copied \/ copyinstr \/ UCDone

UCSpec == UCInit /\ [][UCNext]_ucvars
-----------------------------------------------------------------------------
(* Properties *)

UCTypeOK == /\ copy.ret \in {"running", "ok", "fails"} /\ copy.len \in 0 .. copy.len0
            /\ umem \in [UserVA -> 0 .. copy.len0] /\ kbuf \in Seq(0 .. UINT64)

\* Whatever the pages are, a copy succeeds exactly if every byte it is about lies in a page
\* with the right flags below MAXVA (for a string: if a '\0' comes before max runs out and
\* before such a page; for fetchaddr(): and below p->sz, although addr + 8 may overflow).  It
\* then moved exactly these bytes, in order; a copy that fails has touched none outside them,
\* and user memory is written only where PTE_W is set.
CopiesExact ==
  LET c == copy
      put == c.fn = "copyout"
      Legal(a) == a < MAXVA /\ ptes[PageOf(a)] \in (IF put THEN {"VUW"} ELSE {"VU", "VUW"})
      wanted == IF c.fn = "copyinstr" /\ c.va0 <= nul /\ nul < c.va0 + c.len0
                THEN nul - c.va0 + 1 ELSE c.len0
      ok == /\ \A i \in 1 .. wanted : Legal(c.va0 + i - 1)
            /\ c.fn = "copyinstr" => c.va0 <= nul /\ nul < c.va0 + c.len0
            /\ c.fn = "fetchaddr" => c.va0 + WORD <= size
  IN /\ c.ret # "running" => (c.ret = "ok") = ok
     /\ c.ret = "ok" => /\ ~put => kbuf = BytesAt(c.va0, wanted)
                        /\ put => \A i \in 1 .. wanted : umem[c.va0 + i - 1] = i
                        /\ c.fn = "copyinstr" => fetchstr = nul - c.va0
     /\ Len(kbuf) <= c.len0
     /\ \A a \in UserVA : umem[a] # 0 => put /\ Legal(a) /\ a = c.va0 + umem[a] - 1
=============================================================================
