\* Three processes compete for a log that two operations at a time may use, each of
\* which writes fewer than the MAXOPBLOCKS blocks that begin_op() reserves for it.
SPECIFICATION Spec
CONSTANTS
  p1 = p1  p2 = p2  p3 = p3
  b1 = b1  b2 = b2  b3 = b3  b4 = b4  b5 = b5
  d1 = d1
  Procs = {p1, p2, p3}
  Boot = p1
  Blocks = {b1, b2, b3, b4, b5}
  Data = {d1}
  Invalid = Invalid
  MAXOPBLOCKS = 3
  LOGSIZE = 6
  NLOG = 6
  OPBLOCKS = 2
  MaxCrashes = 0
INVARIANTS NoPanic SleeperHasWaker
SYMMETRY SpaceSymmetry
