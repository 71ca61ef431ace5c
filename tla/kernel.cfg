\* The file system, buffers, memory, the console and mkfs, one at a time.
SPECIFICATION KSpec
CONSTANTS
  \* FileSys: two processes in the scenes of MCFileSys, with a crash
  Tasks = {p1, p2}
  p1 = p1
  initproc = p1
  Nobody = nobody
  Names = {"d", "f"}
  NDINODE = 4
  NFILE = 2
  NOFILE = 2
  Scenes <- FsScenes
  MaxCrashes = 1
  \* Content: two writers, two inodes, a disk that fills up, with a crash
  Writers = {1, 2}
  Inodes = {1, 2}
  NBLOCK = 5
  BSIZE = 2
  NDIRECT = 2
  MAXOPBLOCKS = 6
  Sizes = {1, 7}
  Filled = {0, 5}
  MaxIO = 2
  MaxPowerFails = 1
  \* Bio: more blocks than buffers
  Users = {"p", "q"}
  BlockNos = {"x", "y", "z"}
  NBUF = 2
  MaxValue = 1
  \* Vm: memory that runs out in the middle of fork, exec and sbrk
  NFRAMES = {12, 14, 16, 18}
  NSLOT = 2
  MAXPAGE = 4
  PGSIZE = 2
  USERSTACK = 1
  Images <- VmImages
  Deltas <- VmDeltas
  MaxVmCalls = 3
  \* Tty: buffers that fill up, indices that wrap
  Readers = {"r1"}
  Senders = {"s1", "s2"}
  INPUT_BUF_SIZE = 2
  UART_TX_BUF_SIZE = 1
  WRAP = 4
  START = 3
  FIFO = 2
  Keys = {"x", "nl", "^D", "^H", "^U", "^P", "nul"}
  Wants = {1, 3}
  MaxBytes = 3
  \* Mkfs: the layouts and files of MCKernel
  Layouts <- MkLayouts
  HostFiles <- MkHostFiles
  CELLS = 2
  DIRECT = 2
  \* UserCopy: addresses at and across the ends of pages, of user memory and of uint64
  PAGE = 3
  NPAGES = 3
  UINT64 = 16
  WORD = 2
  Addresses = {0, 1, 2, 3, 5, 8, 9, 15}
  Counts = {0, 1, 4, 7}
INVARIANTS
  KTypeOK
  FS_LinksCoverEntries FS_RefsCounted FS_NoWaitCycle 
  C_BlocksOwned C_ContentMatches C_ChunkFits B_BufferCoherent
    T_LineDiscipline  MK_ImageSound UC_CopiesExact
