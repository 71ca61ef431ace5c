\* Log: two operations of up to two blocks in one transaction, over two blocks,
\* with a crash at any step and another one while the machine recovers.
\* Pipe: three processes, one of which may be killed, and counters that wrap.
SPECIFICATION LPSpec
SYMMETRY LPSymmetry
CONSTANTS
  p1 = p1  p2 = p2
  b1 = b1  b2 = b2 
  d1 = d1  d2 = d2
  Procs = {p1, p2}
  Boot = p1
  Blocks = {b1, b2}
  Data = {d1, d2}
  Invalid = Invalid
  MAXOPBLOCKS = 4
  LOGSIZE = 8
  NLOG = 8
  OPBLOCKS = 2
  MaxCrashes = 2
  Peers = {q1, q2, q3}
  MayKill = {q3}
  Bytes = {a, b}
  EOF = eof
  PIPESIZE = 2
  UINT = 4
  Lengths = {3}
INVARIANTS IInv QuiescentDurable PinnedUntilInstalled PInv PipeWaits NoUseAfterFree
PROPERTIES CrashAtomicity 
