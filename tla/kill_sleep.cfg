SPECIFICATION Spec
CONSTANTS
  NPROC = 3
  CPUs = {c1, c2}
  MaxPid = 3
  KillPids = {2, 3}
  TimerPCs = {"user", "ret", "fork", "fork2", "fork3", "kill", "wait", "exit"}
INVARIANT KilledAwake
