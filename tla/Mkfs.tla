-------------------------------- MODULE Mkfs --------------------------------
(***************************************************************************)
(* mkfs/mkfs.c: the file system image that the kernel boots from.  A step   *)
(* is one block of iappend(), or what lies between two calls of it.         *)
(*                                                                          *)
(* A block is CELLS cells; a cell is <<0, 0>> or holds a directory entry    *)
(* <<inum, 0>>, a block number <<b, 0>> in an indirect block, or byte k of  *)
(* file inum, <<inum, k + 1>>.  Names do not matter.                        *)
(***************************************************************************)
EXTENDS Integers, Sequences, FiniteSets

CONSTANTS Layouts,   \* records FSSIZE, LOGSIZE, NINODES, IPB, BPB; the files fit, main() does not look
          CELLS,     \* BSIZE, and the entries in a directory or indirect block
          DIRECT,    \* NDIRECT
          HostFiles  \* the sizes of the files that are put into the image: sequences

ASSUME MkfsAssumption == {CELLS, DIRECT} \subseteq Nat \ {0} /\ HostFiles \subseteq Seq(Nat)

VARIABLES lay,       \* the layout
          hosts,     \* sizes of the files still to be put in
          step,      \* where main() is: pc, the file inum, what iappend() still has to append
          dinodes,   \* the inode blocks
          img,       \* the data blocks
          bitmap,    \* the blocks marked in use
          freeinode, freeblock

mkvars == <<lay, hosts, step, dinodes, img, bitmap, freeinode, freeblock>>

EmptyCell == <<0, 0>>
nbitmap == lay.FSSIZE \div lay.BPB + 1

\* Mutant: the last, partly used inode block is forgotten.
ninodeblocks_floor == lay.NINODES \div lay.IPB
ninodeblocks == lay.NINODES \div lay.IPB + 1

\* The superblock.
logstart == 2
inodestart == 2 + lay.LOGSIZE
bmapstart == 2 + lay.LOGSIZE + ninodeblocks
nmeta == 2 + lay.LOGSIZE + ninodeblocks + nbitmap

IBLOCK(i) == i \div lay.IPB + inodestart
BBLOCK(b) == b \div lay.BPB + bmapstart
Root == 1
NoDinode == [type |-> "free", nlink |-> 0, size |-> 0, addrs |-> [k \in 0 .. DIRECT |-> 0]]
Zeroed == [k \in 0 .. CELLS - 1 |-> EmptyCell]
Data == 0 .. lay.FSSIZE - 1

\* Before main() writes the root directory: all blocks are zero.
MkInit ==
  /\ lay \in Layouts /\ hosts \in HostFiles
  /\ dinodes = [i \in 0 .. lay.NINODES - 1 |-> NoDinode] /\ img = [b \in Data |-> Zeroed]
  /\ bitmap = {} /\ freeinode = 1 /\ freeblock = nmeta
  /\ step = [pc |-> "root", inum |-> 0, left |-> 0, cells |-> <<>>]
-----------------------------------------------------------------------------
\* An inode in its block: read, and written back.
rinode(inum) == dinodes[inum]
winode(inum, din) == dinodes' = [dinodes EXCEPT ![inum] = din]

ialloc(type) == /\ freeinode' = freeinode + 1
                /\ winode(freeinode, [NoDinode EXCEPT !.type = type, !.nlink = 1])

\* The entries "." and "..".
root_dir ==
  /\ step.pc = "root" /\ ialloc("T_DIR")
  /\ step' = [pc |-> "dirent", inum |-> Root, left |-> 0, cells |-> <<<<Root, 0>>, <<Root, 0>>>>]
  /\ UNCHANGED <<lay, hosts, img, bitmap, freeblock>>

\* A file gets an inode and an entry of the root directory.
next_file ==
  /\ step.pc = "next" /\ hosts # <<>> /\ hosts' = Tail(hosts) /\ ialloc("T_FILE")
  /\ step' = [pc |-> "dirent", inum |-> freeinode, left |-> Head(hosts), cells |-> <<<<freeinode, 0>>>>]
  /\ UNCHANGED <<lay, img, bitmap, freeblock>>

\* One block of iappend(inum, cells); addrs and the indirect block get new blocks in this order.
iappend(inum, then) ==
  LET din == rinode(inum)
      fbn == din.size \div CELLS
      direct == fbn < DIRECT
      a == IF direct THEN fbn ELSE DIRECT
      new == din.addrs[a] = 0
      top == IF new THEN freeblock ELSE din.addrs[a]
      f1 == IF new THEN freeblock + 1 ELSE freeblock
      leaf == ~direct /\ img[top][fbn - DIRECT] = EmptyCell
      x == IF direct THEN top ELSE IF leaf THEN f1 ELSE img[top][fbn - DIRECT][1]
      at == din.size % CELLS
      n == Len(step.cells)
      n1 == IF n < CELLS - at THEN n ELSE CELLS - at
      linked == IF leaf THEN [img EXCEPT ![top][fbn - DIRECT] = <<f1, 0>>] ELSE img
  IN IF fbn >= DIRECT + CELLS
     THEN step' = [step EXCEPT !.pc = "aborted"] /\ UNCHANGED <<dinodes, img, freeblock>>
     ELSE /\ freeblock' = IF leaf THEN f1 + 1 ELSE f1
          /\ img' = [linked EXCEPT ![x] = [k \in 0 .. CELLS - 1 |->
                       IF k \in at .. at + n1 - 1 THEN step.cells[k - at + 1] ELSE @[k]]]
          /\ winode(inum, [din EXCEPT !.addrs[a] = top, !.size = @ + n1])
          /\ step' = IF n1 < n THEN [step EXCEPT !.cells = SubSeq(@, n1 + 1, n)]
                     ELSE [step EXCEPT !.pc = then, !.cells = <<>>]

append_dirent == /\ step.pc = "dirent" /\ iappend(Root, "read")
                 /\ UNCHANGED <<lay, hosts, bitmap, freeinode>>

\* read() of the host file: a whole buffer, as long as there is one.
read_file ==
  LET cc == IF step.left < CELLS THEN step.left ELSE CELLS
      done == dinodes[step.inum].size
  IN /\ step.pc = "read"
     /\ step' = IF cc = 0 THEN [step EXCEPT !.pc = "next"]
                ELSE [step EXCEPT !.pc = "append", !.left = @ - cc,
                                  !.cells = [k \in 1 .. cc |-> <<step.inum, done + k>>]]
     /\ UNCHANGED <<lay, hosts, dinodes, img, bitmap, freeinode, freeblock>>

append_file == /\ step.pc = "append" /\ iappend(step.inum, "read")
               /\ UNCHANGED <<lay, hosts, bitmap, freeinode>>

\* balloc(): marks what was used in the first bitmap block, which has to be enough.
mkfs_balloc(used) ==
  IF used < lay.BPB
  THEN bitmap' = 0 .. used - 1 /\ step' = [step EXCEPT !.pc = "image"]
  ELSE bitmap' = bitmap /\ step' = [step EXCEPT !.pc = "aborted"]

\* The root directory is rounded up to a whole block, and one more if it is one.
finish ==
  /\ step.pc = "next" /\ hosts = <<>>
  /\ winode(Root, [rinode(Root) EXCEPT !.size = (@ \div CELLS + 1) * CELLS])
  /\ mkfs_balloc(freeblock)
  /\ UNCHANGED <<lay, hosts, img, freeinode, freeblock>>

MkDone == step.pc \in {"image", "aborted"} /\ UNCHANGED mkvars

MkNext == root_dir \/ next_file \/ append_dirent \/ read_file \/ append_file \/ finish \/ MkDone

MkSpec == MkInit /\ [][MkNext]_mkvars
-----------------------------------------------------------------------------
(* Properties *)

MkTypeOK == /\ freeblock \in nmeta .. lay.FSSIZE /\ freeinode \in 1 .. lay.NINODES
            /\ bitmap \subseteq Data /\ \A i \in DOMAIN dinodes : dinodes[i].size \in Nat

\* The block of byte k of inode n; 0 if there is none.
BlockAt(n, k) == LET fbn == k \div CELLS IN
  IF fbn < DIRECT THEN n.addrs[fbn]
  ELSE IF n.addrs[DIRECT] = 0 THEN 0 ELSE img[n.addrs[DIRECT]][fbn - DIRECT][1]

\* All addresses that inode n holds, by where it holds them.
Held(n) == {<<k, n.addrs[k]>> : k \in 0 .. DIRECT} \cup
           (IF n.addrs[DIRECT] = 0 THEN {}
            ELSE {<<DIRECT + 1 + k, img[n.addrs[DIRECT]][k][1]>> : k \in 0 .. CELLS - 1})

\* The finished image is one the kernel can run on.  Boot block, superblock, log, inodes,
\* bitmap and data do not overlap, wherever IBLOCK() and BBLOCK() look; the bitmap marks the
\* metadata and exactly the blocks that some file holds, each once; every file of the root
\* directory has one entry and the bytes of the host's file.  A file has no holes below its
\* size, with one exception: where the entries of the root directory fill its blocks, main()
\* still rounds the size up, to a block that was never allocated.
ImageSound == step.pc = "image" =>
  LET used == {i \in DOMAIN dinodes : dinodes[i].type # "free"}
      held == UNION {{<<i, h>> : h \in {g \in Held(dinodes[i]) : g[2] # 0}} : i \in used}
      rootsize == freeinode     \* an entry per file, and two for Root
      entry(k) == img[BlockAt(dinodes[Root], k)][k % CELLS][1]
  IN /\ \A i \in DOMAIN dinodes : IBLOCK(i) \in inodestart .. bmapstart - 1
     /\ \A b \in Data : BBLOCK(b) \in bmapstart .. nmeta - 1
     /\ bitmap = 0 .. nmeta - 1 \cup {h[2][2] : h \in held}
     /\ \A g, h \in held : g[2][2] = h[2][2] => g = h
     /\ \A h \in held : h[2][2] \in nmeta .. lay.FSSIZE - 1
     /\ entry(0) = Root /\ entry(1) = Root
     /\ {entry(k) : k \in 2 .. rootsize - 1} = used \ {Root}
     /\ \A i \in used \ {Root} : \A k \in 0 .. dinodes[i].size - 1 :
          BlockAt(dinodes[i], k) # 0 /\ img[BlockAt(dinodes[i], k)][k % CELLS] = <<i, k + 1>>
     /\ \A k \in 0 .. dinodes[Root].size - 1 :
          BlockAt(dinodes[Root], k) = 0 => rootsize % CELLS = 0 /\ k >= rootsize
=============================================================================
