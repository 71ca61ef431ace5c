------------------------------ MODULE MCKernel ------------------------------
(* FileSys, Content, Bio, Vm, Tty, Mkfs and UserCopy for TLC: one of them    *)
(* runs in each behaviour, and the variables of the others are 0.            *)
EXTENDS MCFileSys, Content, Bio, Vm, Tty, Mkfs, UserCopy

VARIABLE which

\* Vm: exec() of one page and of two segments; sbrk() up and down, by less and by more than
\* a page.
VmImages == {<<1>>, <<2, 3>>}
VmDeltas == {-3, -1, 1, 3}

\* Mkfs: several inodes per block and a last block of them that is not full; files of no
\* block, one, more than the direct ones, and one that needs the indirect block to the end.
MkLayouts == {[FSSIZE |-> 28, LOGSIZE |-> 1, NINODES |-> 5, IPB |-> 2, BPB |-> 24],
              [FSSIZE |-> 30, LOGSIZE |-> 2, NINODES |-> 6, IPB |-> 3, BPB |-> 16]}
MkHostFiles == UNION {[1 .. n -> {0, 3, 6}] : n \in 0 .. 3} \cup {<<9>>}

\* The variables of a component that does not run.
NoFileSys == /\ disk = 0 /\ durable = 0 /\ inode = 0 /\ file = 0 /\ cwd = 0 /\ ofile = 0
             /\ fr = 0 /\ outstanding = 0 /\ menu = 0 /\ calls = 0 /\ crashes = 0
             /\ panicked = 0
NoContent == /\ bm = 0 /\ blk = 0 /\ ip = 0 /\ dip = 0 /\ off = 0 /\ holder = 0 /\ io = 0
             /\ txn = 0 /\ store = 0 /\ written = 0 /\ iocalls = 0 /\ powerfails = 0
NoBio == /\ buf = 0 /\ lru = 0 /\ usr = 0 /\ platter = 0 /\ latest = 0 /\ nobufs = 0
NoVm == /\ frames = 0 /\ kmem = 0 /\ mm = 0 /\ call = 0 /\ scan = 0 /\ vmcalls = 0
        /\ vmpanic = 0
NoTty == /\ cons = 0 /\ conslock = 0 /\ txlock = 0 /\ rd = 0 /\ queue = 0 /\ line = 0 /\ tx = 0
         /\ sd = 0 /\ uart = 0 /\ intr = 0 /\ keys = 0 /\ out = 0 /\ gone = 0
NoMkfs == /\ lay = 0 /\ hosts = 0 /\ step = 0 /\ dinodes = 0 /\ img = 0 /\ bitmap = 0
          /\ freeinode = 0 /\ freeblock = 0
NoCopy == /\ ptes = 0 /\ size = 0 /\ nul = 0 /\ copy = 0 /\ kbuf = 0 /\ umem = 0

KInit ==
  /\ which \in {"fs", "content", "bio", "vm", "tty", "mkfs", "usercopy"}
  /\ IF which = "fs" THEN FsInit ELSE NoFileSys
  /\ IF which = "content" THEN CInit ELSE NoContent
  /\ IF which = "bio" THEN BInit ELSE NoBio
  /\ IF which = "vm" THEN VmInit ELSE NoVm
  /\ IF which = "tty" THEN TInit ELSE NoTty
  /\ IF which = "mkfs" THEN MkInit ELSE NoMkfs
  /\ IF which = "usercopy" THEN UCInit ELSE NoCopy

KNext ==
  \/ which = "fs" /\ FsNext /\ UNCHANGED <<which, cvars, bvars, vmvars, tvars, mkvars, ucvars>>
  \/ which = "content" /\ CNext /\ UNCHANGED <<which, fsvars, bvars, vmvars, tvars, mkvars, ucvars>>
  \/ which = "bio" /\ BNext /\ UNCHANGED <<which, fsvars, cvars, vmvars, tvars, mkvars, ucvars>>
  \/ which = "vm" /\ VmNext /\ UNCHANGED <<which, fsvars, cvars, bvars, tvars, mkvars, ucvars>>
  \/ which = "tty" /\ TNext /\ UNCHANGED <<which, fsvars, cvars, bvars, vmvars, mkvars, ucvars>>
  \/ which = "mkfs" /\ MkNext /\ UNCHANGED <<which, fsvars, cvars, bvars, vmvars, tvars, ucvars>>
  \/ which = "usercopy" /\ UCNext /\ UNCHANGED <<which, fsvars, cvars, bvars, vmvars, tvars, mkvars>>

kvars == <<which, fsvars, cvars, bvars, vmvars, tvars, mkvars, ucvars>>
KSpec == KInit /\ [][KNext]_kvars
-----------------------------------------------------------------------------
(* The properties of the components, each of the behaviours in which it runs *)

\* Every variable has its type, in whichever component runs.
KTypeOK == CASE which = "fs" -> FsTypeOK
             [] which = "content" -> CTypeOK
             [] which = "bio" -> BTypeOK
             [] which = "vm" -> VmTypeOK
             [] which = "tty" -> TTypeOK
             [] which = "mkfs" -> MkTypeOK
             [] which = "usercopy" -> UCTypeOK

\* FileSys: an inode has at least as many links as names, at every step of link, unlink and
\* create and in what a crash leaves.
FS_LinksCoverEntries == which = "fs" => LinksCoverEntries

\* FileSys: the reference counts of iget(), idup() and iput(), filedup() and fileclose() agree
\* with the references that exist.
FS_RefsCounted == which = "fs" => RefsCounted

\* FileSys: no processes wait for inode locks in a circle.
FS_NoWaitCycle == which = "fs" => NoWaitCycle

\* FileSys: no panic() but that of ilock() below a removed directory.
FS_OnlyKnownPanic == which = "fs" => OnlyKnownPanic

\* Content: every block is free or belongs to one file, once, also when balloc() fails and
\* after a crash, and files have no holes.
C_BlocksOwned == which = "content" => BlocksOwned

\* Content: a file reads as what filewrite() last put there; a crash goes back to a commit.
C_ContentMatches == which = "content" => ContentMatches

\* Content: the pieces of filewrite() fit in a transaction.
C_ChunkFits == which = "content" => ChunkFits

\* Bio: a block has one buffer, bget() does not recycle it under its users, and bread()
\* returns what was last written.
B_BufferCoherent == which = "bio" => BufferCoherent

\* Vm: every page of memory has one owner and what is mapped is what p->sz says, also after
\* fork(), exec() and sbrk() have failed, which then have changed nothing.
VM_MemoryKept == which = "vm" => FramesOwned /\ SizesMapped

\* Vm: sysinfo's unlocked count has every process that lives through the call, and none that
\* does not live during any part of it.
VM_CountInRange == which = "vm" => CountInRange

\* Tty: the line being edited and what readers may have are kept apart in the input buffer
\* of consoleintr(), and no reader sleeps while there is something to read.
T_LineDiscipline == which = "tty" => LineDiscipline

\* Tty: uartputc() sends every character once and in order, and its sleepers have somebody
\* to wake them.
T_TxInOrder == which = "tty" => TxInOrder

\* Mkfs: the areas of the image do not overlap, no block is used twice, the bitmap says which
\* are used, and the root directory holds the host's files.
MK_ImageSound == which = "mkfs" => ImageSound

\* UserCopy: copyin(), copyout(), copyinstr() and fetchaddr() succeed exactly if they may, and
\* then move exactly the bytes asked for.
UC_CopiesExact == which = "usercopy" => CopiesExact
=============================================================================
