SPECIFICATION Spec
CONSTANTS
  Proc = {p1, p2}
  p1 = p1
  p2 = p2
  NoProc = NoProc
  NINODES = 3
  NINODE = 3
  Name = {"a", "f"}
  Calls <- MixedCalls
INVARIANTS InodeInv LinkCounts FreedIsUnused
CHECK_DEADLOCK FALSE
