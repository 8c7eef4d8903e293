SPECIFICATION Spec
CONSTANTS
  Proc = {p1, p2}
  NoProc = NoProc
  NBUF = 3
  Block = {k1, k2, k3, k4}
  NoBlock = 0
  Val = {0, 1}
  Zero = 0
  DiskOk = {TRUE}
  MaxPin = 1
INVARIANTS CacheInv NoMissedWakeup
PROPERTIES Implements
SYMMETRY Symmetry
