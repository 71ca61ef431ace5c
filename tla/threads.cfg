\* Processes, interrupts, the user heap, the shell and grep, one at a time.
SPECIFICATION ThSpec
SYMMETRY CPUSymmetry
CONSTANTS
  \* Proc: three processes on two CPUs
  NPROC = 3
  CPUs = {c1, c2}
  MaxPid = 4
  KillPids = {2, 3}
  TimerPCs = {"user", "fork", "fork2", "fork3", "wait", "exit"}
  \* Irq: two harts and two threads; ticks wraps while one sleeps
  Harts = {"c0", "c1"}
  boot = "c0"
  Threads = {"p", "q"}
  MayDie = {"q"}
  Naps = {2}
  TWRAP = 4
  FirstTick = 3
  MaxTicks = 2
  MaxNaps = 2
  \* Umalloc: requests below and above a unit of sbrk()
  HEADER = 2
  NALLOC = 4
  Requests = {1, 3, 8}
  HEAPMAX = 17
  MaxMallocs = 4
  \* Shell
  Lines <- ShellLines
  NPROCS = 7
  NPIPES = 2
  MAXARGS = 3
  MaxLines = 1
  MaxFails = 1
  MaxWrites = 2
  \* Grep: a buffer shorter than some lines
  Patterns <- GrepPatterns
  FileLists <- GrepFiles
  GREPBUF = 4
INVARIANTS
  ThTypeOK StackExclusive ExitsCollected I_InterruptsSafe I_SleepsOnTime
  U_HeapTiled SH_ParserAgrees SH_CommandsFinish G_LinesMatched
