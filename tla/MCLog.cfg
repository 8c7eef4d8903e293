SPECIFICATION FairSpec
CONSTANTS
  Proc = {p1, p2}
  Val = {0, 1}
  ZeroBlock = 0
  MAXOPBLOCKS = 4
  LOGSIZE = 8
  nlog = 8
  FSSIZE = 10
  OpBlocks = 2
  NoBlock = NoBlock
INVARIANTS LogInv
PROPERTIES Atomicity SleepersWake
