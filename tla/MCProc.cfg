SPECIFICATION Spec
CONSTANTS
  NPROC = 3
  CPU = {c0, c1}
  CPU0 = c0
  NoCPU = NoCPU
  MAXPID = 4
  MAXTICKS = 1
  Killable = {0, 2, 3, 4}
INVARIANTS ProcInv OneStackOneCPU ParentLives NoMissedWakeup
