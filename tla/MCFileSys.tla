----------------------------- MODULE MCFileSys -----------------------------
(* FileSys for TLC: a root with a file f and a directory d, which may hold a *)
(* second directory, and the calls that compete for them.                    *)
EXTENDS FileSys, TLC

FsCall(o, a, p, n) == [op |-> o, abs |-> a, path |-> p, new |-> n]

\* Inode 1 is the root, 2 is /d, 3 is /f, or /d/f as a directory.
Tree(t3, free) == [
  type |-> [i \in Inums |-> CASE i \in {1, 2} -> "dir" [] i = 3 -> t3 [] OTHER -> "none"],
  nlink |-> [i \in Inums |-> CASE i = 1 -> 2 [] i = 2 -> IF t3 = "dir" THEN 2 ELSE 1
                                [] i = 3 -> 1 [] OTHER -> 0],
  ent |-> [i \in Inums |->
    CASE i = 1 -> [n \in DirNames |-> CASE n = "d" -> 2 [] n = "f" -> IF t3 = "dir" THEN 0 ELSE 3
                                        [] OTHER -> 1]
      [] i = 2 -> [n \in DirNames |-> CASE n = "." -> 2 [] n = ".." -> 1
                                        [] n = "f" -> IF t3 = "dir" THEN 3 ELSE 0 [] OTHER -> 0]
      [] i = 3 /\ t3 = "dir" -> [n \in DirNames |-> CASE n = "." -> 3 [] n = ".." -> 2 [] OTHER -> 0]
      [] OTHER -> NoDirents],
  free |-> free]

\* Two processes compete for /d, /f and /d/f.
Race == [disk |-> Tree("file", 1), max |-> 3, calls |-> {
  FsCall("open", TRUE, <<"f">>, <<>>), FsCall("create", TRUE, <<"d", "f">>, <<>>),
  FsCall("mkdir", FALSE, <<"f">>, <<>>), FsCall("unlink", TRUE, <<"d">>, <<>>),
  FsCall("unlink", TRUE, <<"d", "f">>, <<>>), FsCall("unlink", TRUE, <<"f">>, <<>>),
  FsCall("unlink", TRUE, <<"d", "..">>, <<>>),
  FsCall("link", TRUE, <<"f">>, <<"d", "f">>), FsCall("chdir", TRUE, <<"d">>, <<>>)}]

\* A directory is removed, and then its parent, while a process is in it.
Nested == [disk |-> Tree("dir", 1), max |-> 4, calls |-> {
  FsCall("chdir", TRUE, <<"d", "f">>, <<>>), FsCall("unlink", TRUE, <<"d", "f">>, <<>>),
  FsCall("unlink", TRUE, <<"d">>, <<>>), FsCall("chdir", FALSE, <<"..">>, <<>>)}]

\* No block is left for a directory; other failures.
DiskFull == [disk |-> Tree("file", 0), max |-> 2, calls |-> {
  FsCall("mkdir", TRUE, <<"d", "d">>, <<>>), FsCall("mknod", TRUE, <<"d", "f">>, <<>>),
  FsCall("chdir", TRUE, <<"f">>, <<>>), FsCall("open", TRUE, <<>>, <<>>),
  FsCall("mkdir", TRUE, <<>>, <<>>), FsCall("link", TRUE, <<"f">>, <<"f", "d">>)}]

FsScenes == {Race, Nested, DiskFull}
RaceScene == {Race}
NestedScene == {Nested}
=============================================================================
