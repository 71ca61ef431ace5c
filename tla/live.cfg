SPECIFICATION LSpec
CONSTANTS
  NPROC = 3
  CPUs = {c1}
  MaxPid = 4
  KillPids = {2, 3}
  TimerPCs = {"user"}
  Procs = {p1, p2}
  Bufs = {b1, b2}
  Data = {d1}
  NUM = 6
  UINT16 = 6
  Nobody = nobody
  Readers = {}
  Senders = {"s1", "s2"}
  INPUT_BUF_SIZE = 2
  UART_TX_BUF_SIZE = 1
  WRAP = 4
  START = 3
  FIFO = 2
  Keys = {"x", "nl"}
  Wants = {1}
  MaxBytes = 3
PROPERTIES WaitReturns  RequestReturns WriterServed
