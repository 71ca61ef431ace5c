------------------------------ MODULE FileSys ------------------------------
(***************************************************************************)
(* The name space of the file system: the inode table, directories and path *)
(* names of kernel/fs.c, the calls of kernel/sysfile.c that change them, and *)
(* the file table of kernel/file.c.                                         *)
(*                                                                          *)
(* An inode is named by its number: iget() keeps at most one table entry    *)
(* for it.  A directory is a function from names to numbers, 0 for no entry, *)
(* and fits in one block; what a file contains is the subject of Content.     *)
(* The log is taken by what Log shows of it: end_op() of the last           *)
(* outstanding operation makes the disk durable, a crash goes back to that.  *)
(*                                                                          *)
(* A step runs from one wait for an inode's sleep lock to the next; iput()  *)
(* is split where it lets go of itable.lock.                                *)
(***************************************************************************)
EXTENDS Naturals, Sequences, FiniteSets, FiniteSetsExt

CONSTANTS Tasks, initproc, Nobody,  \* processes, the first of them; no process
          Names,        \* file names other than "." and ".."
          NDINODE,      \* inodes on the disk
          NFILE, NOFILE,
          Scenes,       \* initial disks, each with the calls that are made and how many
          MaxCrashes    \* bound

Inums == 1 .. NDINODE
ROOTINO == 1
DirNames == Names \cup {".", ".."}
NoDirents == [n \in DirNames |-> 0]

ASSUME FileSysAssumption ==
  /\ NDINODE \in Nat \ {0} /\ NFILE \in Nat \ {0} /\ NOFILE \in Nat \ {0}
  /\ initproc \in Tasks /\ Nobody \notin Tasks /\ MaxCrashes \in Nat
  /\ \A s \in Scenes : /\ s.max \in Nat
       /\ s.calls \subseteq [op : {"open", "create", "mkdir", "mknod", "link", "unlink", "chdir"},
                            abs : BOOLEAN, path : Seq(DirNames), new : Seq(DirNames)]

VARIABLES disk,     \* type and nlink of the inodes, entries of the directories, free blocks
          durable,  \* what a crash leaves of it
          inode,    \* the inode table
          file,     \* ftable
          cwd, ofile,   \* per process; cwd is 0 when there is no process
          fr,       \* per process: the system call it is in
          outstanding,  \* operations between begin_op() and end_op()
          menu, calls,  \* the calls on path names that are made; calls still allowed
          crashes,
          panicked  \* the argument of panic()

fsvars == <<disk, durable, inode, file, cwd, ofile, fr, outstanding, menu, calls, crashes, panicked>>
Fds == 0 .. NOFILE - 1
FileSlots == 1 .. NFILE

\* Returned to user space.  cur is the inode namex() is at, put the one iput() drops.
UserFrame == [pc |-> "user", op |-> "none", path |-> <<>>, new |-> <<>>, parent |-> FALSE,
         cur |-> 0, ip |-> 0, dp |-> 0, put |-> 0, next |-> "user"]
FreeInode == [ref |-> 0, valid |-> FALSE, type |-> "none", nlink |-> 0, lock |-> Nobody]

\* Memory after booting from disk d: each of the first processes has been forked with
\* the root as its directory and no open file.
Booted(d) ==
  [inode |-> [i \in Inums |-> IF i = ROOTINO
     THEN [ref |-> Cardinality(Tasks), valid |-> TRUE, type |-> d.type[i], nlink |-> d.nlink[i],
           lock |-> Nobody]
     ELSE FreeInode],
   file |-> [f \in FileSlots |-> [ref |-> 0, ip |-> 0]],
   cwd |-> [p \in Tasks |-> ROOTINO],
   ofile |-> [p \in Tasks |-> [fd \in Fds |-> 0]],
   fr |-> [p \in Tasks |-> UserFrame]]

FsInit == /\ \E s \in Scenes : disk = s.disk /\ menu = s.calls /\ calls = s.max
          /\ durable = disk
        /\ inode = Booted(disk).inode /\ file = Booted(disk).file
        /\ cwd = Booted(disk).cwd /\ ofile = Booted(disk).ofile /\ fr = Booted(disk).fr
        /\ outstanding = 0 /\ crashes = 0 /\ panicked = ""
-----------------------------------------------------------------------------
(* The inode table; t is the table. *)

iget(t, i) == [t EXCEPT ![i] = IF @.ref > 0 THEN [@ EXCEPT !.ref = @ + 1]
                               ELSE [@ EXCEPT !.ref = 1, !.valid = FALSE]]
idup(t, i) == [t EXCEPT ![i].ref = @ + 1]

\* ilock() with the lock free: a first use reads the inode from the disk.
ilock(t, i, p) == [t EXCEPT ![i] = IF @.valid THEN [@ EXCEPT !.lock = p]
                                   ELSE [@ EXCEPT !.lock = p, !.valid = TRUE,
                                                  !.type = disk.type[i], !.nlink = disk.nlink[i]]]
iunlock(t, i) == [t EXCEPT ![i].lock = Nobody]

\* iupdate(): the in-memory inode goes to the disk d.
iupdate(d, t, i) == [d EXCEPT !.type[i] = t[i].type, !.nlink[i] = t[i].nlink]

\* itrunc(): the content of a directory is its one block.
itrunc(d, i) == [d EXCEPT !.ent[i] = NoDirents,
                          !.free = IF d.ent[i] = NoDirents THEN @ ELSE @ + 1]

dirlookup(dp, name) == disk.ent[dp][name]
isdirempty(d, i) == \A n \in Names : d.ent[i][n] = 0

\* The inode whose lock p waits for, 0 if it waits for none.
Want(p) == CASE fr[p].pc = "namex" /\ fr[p].path # <<>> -> fr[p].cur
             [] fr[p].pc \in {"open", "found", "create2", "unlink2", "link", "link_bad", "chdir"} -> fr[p].ip
             [] fr[p].pc \in {"create", "unlink", "link2"} -> fr[p].dp
             [] OTHER -> 0

NoType(i) == ~inode[i].valid /\ disk.type[i] = "none"

\* What p panics with when it has the lock it waits for, "" if it does not.
Panics(p) ==
  CASE Want(p) = 0 \/ inode[Want(p)].lock # Nobody -> ""
    [] NoType(Want(p)) -> "ilock: no type"
    [] fr[p].pc = "unlink2" /\ ilock(inode, fr[p].ip, p)[fr[p].ip].nlink < 1 -> "unlink: nlink < 1"
    [] OTHER -> ""

\* p may go on at label pc: it has the lock it waits for.
At(p, pc) == /\ fr[p].pc = pc
             /\ Want(p) # 0 => inode[Want(p)].lock = Nobody /\ Panics(p) = ""

panic(p) ==
  /\ Panics(p) # "" /\ panicked' = Panics(p)
  /\ UNCHANGED <<disk, durable, inode, file, cwd, ofile, fr, outstanding, menu, calls, crashes>>

\* Where the two failures of a path lookup lead.
LookupFails(p) == IF fr[p].op = "link" /\ fr[p].ip # 0 THEN "link_bad" ELSE "end_op"

\* iput(i), then go on at label l, with the new values of the other fields in f.
Put(p, f, i, l) == fr' = [fr EXCEPT ![p] = [f EXCEPT !.pc = "iput", !.put = i, !.next = l]]
Jump(p, f, l) == fr' = [fr EXCEPT ![p] = [f EXCEPT !.pc = l]]

SameCounts == UNCHANGED <<menu, calls, crashes, panicked>>
SameFiles == UNCHANGED <<file, cwd, ofile>>
SameLog == UNCHANGED <<durable, outstanding>>
-----------------------------------------------------------------------------
(* iput(): frees the inode with its last reference if no name is left *)

\* Mutant: other references to the inode are not looked for.
Last_shared(i) == inode[i].valid /\ inode[i].nlink = 0

Last(i) == inode[i].ref = 1 /\ inode[i].valid /\ inode[i].nlink = 0

iput(p) == LET i == fr[p].put IN
  /\ fr[p].pc = "iput"
  /\ IF Last(i)
     THEN /\ inode[i].lock = Nobody
          /\ inode' = [inode EXCEPT ![i].lock = p]
          /\ Jump(p, fr[p], "ifree")
     ELSE /\ inode' = [inode EXCEPT ![i].ref = @ - 1]
          /\ Jump(p, [fr[p] EXCEPT !.put = 0], fr[p].next)
  /\ UNCHANGED disk /\ SameLog /\ SameFiles /\ SameCounts

ifree(p) == LET i == fr[p].put IN
  /\ fr[p].pc = "ifree"
  /\ inode' = [inode EXCEPT ![i].type = "none"]
  /\ disk' = iupdate(itrunc(disk, i), inode', i)
  /\ Jump(p, fr[p], "iclear")
  /\ SameLog /\ SameFiles /\ SameCounts

iclear(p) ==
  /\ fr[p].pc = "iclear"
  /\ inode' = [inode EXCEPT ![fr[p].put].valid = FALSE, ![fr[p].put].lock = Nobody]
  /\ Jump(p, fr[p], "idrop")
  /\ UNCHANGED disk /\ SameLog /\ SameFiles /\ SameCounts

idrop(p) ==
  /\ fr[p].pc = "idrop"
  /\ inode' = [inode EXCEPT ![fr[p].put].ref = @ - 1]
  /\ Jump(p, [fr[p] EXCEPT !.put = 0], fr[p].next)
  /\ UNCHANGED disk /\ SameLog /\ SameFiles /\ SameCounts
-----------------------------------------------------------------------------
(* System calls on path names: begin_op(), namex(), the call itself, end_op() *)

\* Mutant: a relative path starts without a reference of its own.
StartAt_borrowed(p, abs) == IF abs THEN iget(inode, ROOTINO) ELSE inode

\* namex() starts at the root or at the current directory.
StartAt(p, abs) == IF abs THEN iget(inode, ROOTINO) ELSE idup(inode, cwd[p])

syscall(p, c) ==
  /\ fr[p].pc = "user" /\ cwd[p] # 0 /\ calls > 0
  /\ calls' = calls - 1
  /\ outstanding' = outstanding + 1
  /\ inode' = StartAt(p, c.abs)
  /\ Jump(p, [UserFrame EXCEPT !.op = c.op, !.path = c.path, !.new = c.new,
                          !.cur = IF c.abs THEN ROOTINO ELSE cwd[p],
                          !.parent = c.op \in {"create", "mkdir", "mknod", "unlink"}], "namex")
  /\ UNCHANGED <<disk, durable, menu, crashes, panicked>> /\ SameFiles

end_op(p) ==
  /\ fr[p].pc = "end_op"
  /\ outstanding' = outstanding - 1
  /\ durable' = IF outstanding = 1 THEN disk ELSE durable
  /\ fr' = [fr EXCEPT ![p] = IF fr[p].op = "exit" THEN [UserFrame EXCEPT !.pc = "exit"] ELSE UserFrame]
  /\ UNCHANGED <<disk, inode>> /\ SameFiles /\ SameCounts

\* One element of the path: lock the directory, look the name up, unlock it and put
\* it; nameiparent() stops at the last element, with the directory unlocked.
namex_step(p) ==
  LET f == fr[p]
      t == iunlock(ilock(inode, f.cur, p), f.cur)
      next == IF t[f.cur].type = "dir" THEN dirlookup(f.cur, Head(f.path)) ELSE 0
  IN /\ At(p, "namex") /\ f.path # <<>>
     /\ \/ /\ t[f.cur].type = "dir" /\ f.parent /\ Len(f.path) = 1
           /\ inode' = t
           /\ Jump(p, [f EXCEPT !.dp = f.cur, !.cur = 0],
                   CASE f.op = "unlink" -> "unlink" [] f.op = "link" -> "link2" [] OTHER -> "create")
        \/ /\ t[f.cur].type # "dir" \/ ~(f.parent /\ Len(f.path) = 1)
           /\ IF next = 0
              THEN inode' = t /\ Put(p, [f EXCEPT !.cur = 0], f.cur, LookupFails(p))
              ELSE /\ inode' = iget(t, next)
                   /\ Put(p, [f EXCEPT !.cur = next, !.path = Tail(@)], f.cur, "namex")
     /\ UNCHANGED disk /\ SameLog /\ SameFiles /\ SameCounts

\* The end of the path: namei() has found the inode, nameiparent() had no element.
namex_end(p) == LET f == fr[p] IN
  /\ f.pc = "namex" /\ f.path = <<>>
  /\ IF f.parent
     THEN Put(p, [f EXCEPT !.cur = 0], f.cur, LookupFails(p))
     ELSE Jump(p, [f EXCEPT !.ip = f.cur, !.cur = 0], f.op)
  /\ UNCHANGED <<disk, inode>> /\ SameLog /\ SameFiles /\ SameCounts

FreeFds(p) == {fd \in Fds : ofile[p][fd] = 0}
FreeFiles == {f \in FileSlots : file[f].ref = 0}

\* sys_open() from filealloc() on, with ip locked in the table t.  A directory opened
\* for writing and a device with a bad major number are refused.
open_body(p, t) == LET f == fr[p] IN
  \/ /\ FreeFiles # {} /\ FreeFds(p) # {}
     /\ file' = [file EXCEPT ![Min(FreeFiles)] = [ref |-> 1, ip |-> f.ip]]
     /\ ofile' = [ofile EXCEPT ![p][Min(FreeFds(p))] = Min(FreeFiles)]
     /\ inode' = iunlock(t, f.ip)
     /\ Jump(p, [f EXCEPT !.ip = 0], "end_op")
  \/ /\ FreeFiles = {} \/ FreeFds(p) = {} \/ t[f.ip].type \in {"dir", "device"}
     /\ inode' = iunlock(t, f.ip)
     /\ Put(p, [f EXCEPT !.ip = 0], f.ip, "end_op")
     /\ UNCHANGED <<file, ofile>>

sys_open(p) ==
  /\ At(p, "open") /\ open_body(p, ilock(inode, fr[p].ip, p))
  /\ UNCHANGED <<disk, cwd>> /\ SameLog /\ SameCounts

sys_chdir(p) == LET t == ilock(inode, fr[p].ip, p) IN
  /\ At(p, "chdir")
  /\ inode' = iunlock(t, fr[p].ip)
  /\ IF t[fr[p].ip].type # "dir"
     THEN Put(p, [fr[p] EXCEPT !.ip = 0], fr[p].ip, "end_op") /\ UNCHANGED cwd
     ELSE \* p->cwd, which only p reads, is set after the iput() of the old one.
          /\ Put(p, [fr[p] EXCEPT !.ip = 0], cwd[p], "end_op")
          /\ cwd' = [cwd EXCEPT ![p] = fr[p].ip]
  /\ UNCHANGED <<disk, file, ofile>> /\ SameLog /\ SameCounts

\* Mutant: the link count is left for later.
sys_link_later(p) == LET f == fr[p]  t == ilock(inode, f.ip, p) IN
  /\ At(p, "link") /\ t[f.ip].type # "dir"
  /\ inode' = iget(iunlock(t, f.ip), ROOTINO)
  /\ Jump(p, [f EXCEPT !.path = f.new, !.parent = TRUE, !.cur = ROOTINO], "namex")
  /\ UNCHANGED disk /\ SameLog /\ SameFiles /\ SameCounts

\* sys_link(): the link count goes up before the new name is looked for.
sys_link(p) == LET f == fr[p]  t == ilock(inode, f.ip, p) IN
  /\ At(p, "link")
  /\ IF t[f.ip].type = "dir"
     THEN /\ inode' = iunlock(t, f.ip)
          /\ Put(p, [f EXCEPT !.ip = 0], f.ip, "end_op")
          /\ UNCHANGED disk
     ELSE LET u == [t EXCEPT ![f.ip].nlink = @ + 1] IN
          /\ disk' = iupdate(disk, u, f.ip)
          /\ inode' = iget(iunlock(u, f.ip), ROOTINO)
          /\ Jump(p, [f EXCEPT !.path = f.new, !.parent = TRUE, !.cur = ROOTINO], "namex")
  /\ SameLog /\ SameFiles /\ SameCounts

\* dirlink() into dp.  A name that is taken is put and the call undone.
sys_link2(p) ==
  LET f == fr[p]
      t == ilock(inode, f.dp, p)
      old == dirlookup(f.dp, f.path[1])
  IN /\ At(p, "link2")
     /\ IF old # 0
        THEN /\ inode' = iget(t, old)
             /\ Put(p, f, old, "link_taken")
             /\ UNCHANGED disk
        ELSE /\ disk' = [disk EXCEPT !.ent[f.dp][f.path[1]] = f.ip]
             /\ inode' = iunlock(t, f.dp)
             /\ Put(p, [f EXCEPT !.dp = 0], f.dp, "link_done")
     /\ SameLog /\ SameFiles /\ SameCounts

link_taken(p) ==
  /\ fr[p].pc = "link_taken"
  /\ inode' = iunlock(inode, fr[p].dp)
  /\ Put(p, [fr[p] EXCEPT !.dp = 0], fr[p].dp, "link_bad")
  /\ UNCHANGED disk /\ SameLog /\ SameFiles /\ SameCounts

link_done(p) ==
  /\ fr[p].pc = "link_done"
  /\ Put(p, [fr[p] EXCEPT !.ip = 0], fr[p].ip, "end_op")
  /\ UNCHANGED <<disk, inode>> /\ SameLog /\ SameFiles /\ SameCounts

link_bad(p) == LET f == fr[p]  t == [ilock(inode, f.ip, p) EXCEPT ![f.ip].nlink = @ - 1] IN
  /\ At(p, "link_bad")
  /\ disk' = iupdate(disk, t, f.ip)
  /\ inode' = iunlock(t, f.ip)
  /\ Put(p, [f EXCEPT !.ip = 0], f.ip, "end_op")
  /\ SameLog /\ SameFiles /\ SameCounts

\* Mutant: "." and ".." are names like any other.
sys_unlink_dots(p) == LET f == fr[p]  ip == dirlookup(f.dp, f.path[1]) IN
  /\ At(p, "unlink") /\ ip # 0
  /\ inode' = iget(ilock(inode, f.dp, p), ip)
  /\ Jump(p, [f EXCEPT !.ip = ip], "unlink2")
  /\ UNCHANGED disk /\ SameLog /\ SameFiles /\ SameCounts

\* sys_unlink(): dp stays locked while ip is locked.
sys_unlink(p) ==
  LET f == fr[p]
      t == ilock(inode, f.dp, p)
      ip == IF f.path[1] \in Names THEN dirlookup(f.dp, f.path[1]) ELSE 0
  IN /\ At(p, "unlink")
     /\ IF ip = 0
        THEN /\ inode' = iunlock(t, f.dp)
             /\ Put(p, [f EXCEPT !.dp = 0], f.dp, "end_op")
        ELSE /\ inode' = iget(t, ip)
             /\ Jump(p, [f EXCEPT !.ip = ip], "unlink2")
     /\ UNCHANGED disk /\ SameLog /\ SameFiles /\ SameCounts

sys_unlink2(p) ==
  LET f == fr[p]
      t == ilock(inode, f.ip, p)
      isdir == t[f.ip].type = "dir"
      u == IF isdir THEN [t EXCEPT ![f.dp].nlink = @ - 1] ELSE t
  IN /\ At(p, "unlink2")
     /\ IF isdir /\ ~isdirempty(disk, f.ip)
        THEN /\ inode' = iunlock(t, f.ip)
             /\ Put(p, [f EXCEPT !.ip = 0], f.ip, "unlink_bad")
             /\ UNCHANGED disk
        ELSE /\ disk' = iupdate([disk EXCEPT !.ent[f.dp][f.path[1]] = 0], u, f.dp)
             /\ inode' = iunlock(u, f.dp)
             /\ Put(p, [f EXCEPT !.dp = 0], f.dp, "unlink3")
     /\ SameLog /\ SameFiles /\ SameCounts

sys_unlink3(p) == LET f == fr[p]  t == [inode EXCEPT ![f.ip].nlink = @ - 1] IN
  /\ f.pc = "unlink3"
  /\ disk' = iupdate(disk, t, f.ip)
  /\ inode' = iunlock(t, f.ip)
  /\ Put(p, [f EXCEPT !.ip = 0], f.ip, "end_op")
  /\ SameLog /\ SameFiles /\ SameCounts

unlock_dp(p) ==
  /\ fr[p].pc \in {"unlink_bad", "create_fail"}
  /\ inode' = iunlock(inode, fr[p].dp)
  /\ Put(p, [fr[p] EXCEPT !.dp = 0], fr[p].dp, "end_op")
  /\ UNCHANGED disk /\ SameLog /\ SameFiles /\ SameCounts
-----------------------------------------------------------------------------
(* create(), for open(O_CREATE), mkdir and mknod *)

TypeOf(op) == CASE op = "mkdir" -> "dir" [] op = "mknod" -> "device" [] OTHER -> "file"

FreeInums == {i \in Inums : disk.type[i] = "none"}

\* dp is locked: the name exists, or ialloc() takes the first free inode, or there is none.
create(p) ==
  LET f == fr[p]
      t == ilock(inode, f.dp, p)
      old == dirlookup(f.dp, f.path[1])
  IN /\ At(p, "create")
     /\ \/ /\ old # 0
           /\ inode' = iunlock(iget(t, old), f.dp)
           /\ Put(p, [f EXCEPT !.ip = old, !.dp = 0], f.dp, "found")
           /\ UNCHANGED disk
        \/ /\ old = 0 /\ FreeInums = {}
           /\ inode' = iunlock(t, f.dp)
           /\ Put(p, [f EXCEPT !.dp = 0], f.dp, "end_op")
           /\ UNCHANGED disk
        \/ /\ old = 0 /\ FreeInums # {}
           /\ LET i == Min(FreeInums) IN
              /\ disk' = [disk EXCEPT !.type[i] = TypeOf(f.op), !.nlink[i] = 0]
              /\ inode' = iget(t, i)
              /\ Jump(p, [f EXCEPT !.ip = i], "create2")
     /\ SameLog /\ SameFiles /\ SameCounts

\* An existing file or device is good enough for open(O_CREATE).
create_found(p) == LET f == fr[p]  t == ilock(inode, f.ip, p) IN
  /\ At(p, "found")
  /\ IF f.op = "create" /\ t[f.ip].type \in {"file", "device"}
     THEN open_body(p, t)
     ELSE /\ inode' = iunlock(t, f.ip)
          /\ Put(p, [f EXCEPT !.ip = 0], f.ip, "end_op")
          /\ UNCHANGED <<file, ofile>>
  /\ UNCHANGED <<disk, cwd>> /\ SameLog /\ SameCounts

\* The new inode, locked as well.  A directory needs a block for "." and "..".
create2(p) ==
  LET f == fr[p]
      isdir == f.op = "mkdir"
      t == [ilock(inode, f.ip, p) EXCEPT ![f.ip].nlink = 1]
      u == IF isdir THEN [t EXCEPT ![f.dp].nlink = @ + 1] ELSE t
      linked == [disk EXCEPT !.ent[f.dp][f.path[1]] = f.ip]
  IN /\ At(p, "create2")
     /\ IF isdir /\ disk.free = 0
        THEN LET v == [t EXCEPT ![f.ip].nlink = 0] IN
             /\ disk' = iupdate(disk, v, f.ip)
             /\ inode' = iunlock(v, f.ip)
             /\ Put(p, [f EXCEPT !.ip = 0], f.ip, "create_fail")
        ELSE /\ disk' = iupdate(iupdate(
                  IF isdir THEN [linked EXCEPT !.ent[f.ip] = [@ EXCEPT !["."] = f.ip, ![".."] = f.dp],
                                               !.free = @ - 1]
                           ELSE linked, u, f.ip), u, f.dp)
             /\ inode' = iunlock(u, f.dp)
             /\ Put(p, [f EXCEPT !.dp = 0], f.dp, "created")
     /\ SameLog /\ SameFiles /\ SameCounts

\* create() returns ip locked: open goes on with it, mkdir and mknod let go of it.
created(p) == LET f == fr[p] IN
  /\ f.pc = "created"
  /\ IF f.op = "create"
     THEN open_body(p, inode)
     ELSE /\ inode' = iunlock(inode, f.ip)
          /\ Put(p, [f EXCEPT !.ip = 0], f.ip, "end_op")
          /\ UNCHANGED <<file, ofile>>
  /\ UNCHANGED <<disk, cwd>> /\ SameLog /\ SameCounts
-----------------------------------------------------------------------------
(* Descriptors *)

Counted(p) == /\ fr[p].pc = "user" /\ cwd[p] # 0 /\ calls > 0
              /\ calls' = calls - 1 /\ UNCHANGED <<menu, crashes, panicked>>

\* argfd() finds an open file.
argfd(p, fd) == ofile[p][fd] # 0

\* filedup() by n descriptors.
filedup(f, n) == [file[f] EXCEPT !.ref = @ + n]

sys_dup(p, fd) ==
  /\ Counted(p) /\ argfd(p, fd) /\ FreeFds(p) # {}
  /\ ofile' = [ofile EXCEPT ![p][Min(FreeFds(p))] = ofile[p][fd]]
  /\ file' = [file EXCEPT ![ofile[p][fd]] = filedup(ofile[p][fd], 1)]
  /\ UNCHANGED <<disk, inode, cwd, fr>> /\ SameLog

\* fileclose(): the last descriptor puts the inode, in a transaction of its own.
fileclose(p, fd, op) == LET f == ofile[p][fd] IN
  /\ f # 0
  /\ ofile' = [ofile EXCEPT ![p][fd] = 0]
  /\ IF file[f].ref > 1
     THEN /\ file' = [file EXCEPT ![f].ref = @ - 1]
          /\ UNCHANGED <<fr, outstanding>>
     ELSE /\ file' = [file EXCEPT ![f] = [ref |-> 0, ip |-> 0]]
          /\ outstanding' = outstanding + 1
          /\ Put(p, [UserFrame EXCEPT !.op = op], file[f].ip, "end_op")
  /\ UNCHANGED <<disk, durable, inode, cwd>>

sys_close(p, fd) == Counted(p) /\ argfd(p, fd) /\ fileclose(p, fd, "close")

\* The descriptors and the directory that fork() shares with the child.
fork(p, q) ==
  /\ Counted(p) /\ cwd[q] = 0 /\ fr[q].pc = "user"
  /\ ofile' = [ofile EXCEPT ![q] = ofile[p]]
  /\ file' = [f \in FileSlots |-> filedup(f, Cardinality({fd \in Fds : ofile[p][fd] = f}))]
  /\ cwd' = [cwd EXCEPT ![q] = cwd[p]]
  /\ inode' = idup(inode, cwd[p])
  /\ UNCHANGED <<disk, fr>> /\ SameLog

sys_exit(p) ==
  /\ Counted(p) /\ p # initproc
  /\ Jump(p, UserFrame, "exit")
  /\ UNCHANGED <<disk, inode>> /\ SameLog /\ SameFiles

\* exit() closes the files one by one, then puts the directory.
exit(p) ==
  /\ fr[p].pc = "exit"
  /\ \/ \E fd \in Fds : /\ \A g \in Fds : ofile[p][g] # 0 => fd <= g
                        /\ fileclose(p, fd, "exit")
     \/ /\ \A fd \in Fds : ofile[p][fd] = 0
        /\ outstanding' = outstanding + 1
        /\ Put(p, [UserFrame EXCEPT !.op = "zombie"], cwd[p], "end_op")
        /\ cwd' = [cwd EXCEPT ![p] = 0]
        /\ UNCHANGED <<disk, durable, inode, file, ofile>>
  /\ SameCounts

\* Power is lost and comes back: the log's recovery restores the durable disk.
FsCrash ==
  /\ crashes < MaxCrashes /\ crashes' = crashes + 1
  /\ disk' = durable /\ UNCHANGED <<durable, menu, calls, panicked>>
  /\ inode' = Booted(durable).inode /\ file' = Booted(durable).file
  /\ cwd' = Booted(durable).cwd /\ ofile' = Booted(durable).ofile /\ fr' = Booted(durable).fr
  /\ outstanding' = 0
-----------------------------------------------------------------------------
FsStep(p) ==
  \/ iput(p) \/ ifree(p) \/ iclear(p) \/ idrop(p)
  \/ end_op(p) \/ namex_step(p) \/ namex_end(p) \/ panic(p)
  \/ sys_open(p) \/ sys_chdir(p)
  \/ sys_link(p) \/ sys_link2(p) \/ link_taken(p) \/ link_done(p) \/ link_bad(p)
  \/ sys_unlink(p) \/ sys_unlink2(p) \/ sys_unlink3(p) \/ unlock_dp(p)
  \/ create(p) \/ create_found(p) \/ create2(p) \/ created(p)
  \/ exit(p)

\* All calls the bound allows have returned, or the kernel has stopped.
FsDone == /\ panicked # "" \/ (calls = 0 /\ \A p \in Tasks : fr[p].pc = "user")
        /\ UNCHANGED fsvars

FsNext == \/ /\ panicked = ""
           /\ \/ \E p \in Tasks :
                   \/ FsStep(p) \/ sys_exit(p)
                   \/ \E c \in menu : syscall(p, c)
                   \/ \E fd \in Fds : sys_dup(p, fd) \/ sys_close(p, fd)
                   \/ \E q \in Tasks : fork(p, q)
              \/ FsCrash
        \/ FsDone

FsSpec == FsInit /\ [][FsNext]_fsvars
-----------------------------------------------------------------------------
(* Properties *)

FsPCs == {"user", "namex", "open", "chdir", "link", "link2", "link_taken", "link_done", "link_bad",
        "unlink", "unlink2", "unlink3", "unlink_bad", "create", "found", "create2", "created",
        "create_fail", "iput", "ifree", "iclear", "idrop", "end_op", "exit"}
FileTypes == {"none", "dir", "file", "device"}

FsTypeOK ==
  /\ \A d \in {disk, durable} :
       /\ d.type \in [Inums -> FileTypes] /\ d.nlink \in [Inums -> Nat]
       /\ d.ent \in [Inums -> [DirNames -> 0 .. NDINODE]] /\ d.free \in Nat
  /\ inode \in [Inums -> [ref : Nat, valid : BOOLEAN, type : FileTypes, nlink : Nat,
                          lock : Tasks \cup {Nobody}]]
  /\ file \in [FileSlots -> [ref : Nat, ip : 0 .. NDINODE]]
  /\ cwd \in [Tasks -> 0 .. NDINODE] /\ ofile \in [Tasks -> [Fds -> 0 .. NFILE]]
  /\ \A p \in Tasks : fr[p].pc \in FsPCs
  /\ outstanding \in Nat /\ calls \in Nat /\ crashes \in 0 .. MaxCrashes

\* The directory entries, other than "." and "..", that name inode i on disk d.
Entries(d, i) == {e \in Inums \X Names : d.type[e[1]] = "dir" /\ d.ent[e[1]][e[2]] = i}

\* An entry never names an inode that is free or has been given to another file: at
\* every step, and in what a crash leaves, an inode has at least as many links as it
\* has names, and a directory has one name at most.
LinksCoverEntries == \A d \in {disk, durable} : \A i \in Inums :
  /\ Cardinality(Entries(d, i)) <= d.nlink[i]
  /\ d.type[i] = "none" => d.nlink[i] = 0
  /\ d.type[i] = "dir" => Cardinality(Entries(d, i)) <= 1

\* ip->ref counts the pointers to the inode: current directories, open files and the
\* local variables of the calls in progress; f->ref counts descriptors.
Pointers(i) == Cardinality({p \in Tasks : cwd[p] = i})
             + Cardinality({f \in FileSlots : file[f].ip = i})
             + Cardinality({x \in Tasks \X {"cur", "ip", "dp", "put"} : fr[x[1]][x[2]] = i})
RefsCounted ==
  /\ \A i \in Inums : inode[i].ref = Pointers(i)
  /\ \A f \in FileSlots : file[f].ref = Cardinality({x \in Tasks \X Fds : ofile[x[1]][x[2]] = f})

\* iput(), "If that was the last reference and the inode has no links to it, free the
\* inode": as long as the machine has not crashed, an inode that is allocated and has
\* no link is still referenced, so that an iput() is left to free it.
NoOrphan == crashes = 0 =>
  \A i \in Inums : disk.type[i] # "none" /\ disk.nlink[i] = 0 => inode[i].ref > 0

\* Nobody waits for ever: no processes wait for inode locks in a circle, and iput()
\* finds the lock of an inode it frees unlocked ("this acquiresleep() won't block").
NoWaitCycle ==
  /\ \A S \in SUBSET Tasks \ {{}} : \E p \in S :
       Want(p) = 0 \/ inode[Want(p)].lock \notin S
  /\ \A p \in Tasks : fr[p].pc = "iput" /\ Last(fr[p].put) => inode[fr[p].put].lock = Nobody

\* The only panic() is that of ilock() for an inode that was freed, and it happens
\* only where ".." of a removed directory that is still in use leads to it.
OnlyKnownPanic == panicked # "" =>
  /\ panicked = "ilock: no type"
  /\ \E i \in Inums, p \in Tasks : /\ inode[i].ref > 0 /\ inode[i].valid /\ inode[i].nlink = 0
                                   /\ disk.ent[i][".."] = Want(p) /\ NoType(Want(p))

\* ilock(): panic("ilock: no type").  An inode that is locked has a type.
LockedHasType == panicked # "ilock: no type"
=============================================================================
