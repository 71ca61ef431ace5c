SPECIFICATION FsSpec
CONSTANTS
  Tasks = {p1, p2}
  p1 = p1
  initproc = p1
  Nobody = nobody
  Names = {"d", "f"}
  NDINODE = 4
  NFILE = 2
  NOFILE = 2
  Scenes <- RaceScene
  MaxCrashes = 0
INVARIANT NoOrphan
