SPECIFICATION Spec
CONSTANTS
  NPROC = 2
  CPUs = {c1, c2}
  MaxPid = 3
  KillPids = {0}
  TimerPCs = {"user", "ret", "fork", "fork2", "fork3", "kill", "wait", "exit"}
PROPERTY NotBornKilled
