SPECIFICATION PSpec
CONSTANTS
  Peers = {p1, p2, p3}
  Bytes = {a, b}
  EOF = eof
  PIPESIZE = 2
  UINT = 4
  Lengths = {0, 1, 3}
  MayKill = {p3}
INVARIANT AsleepOnEmpty
CHECK_DEADLOCK FALSE
