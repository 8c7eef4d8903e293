INVARIANTS PipeInv
PROPERTIES Implements ReadersWokenUnlessKilled CallsEnd
\* Processes that hold both ends may all wait for one another: the pipe cannot
\* tell that nobody is left to read, so the system may really stop.
CHECK_DEADLOCK FALSE
SPECIFICATION FairSpec
CONSTANTS
  Proc = {p1, p2}
  NoProc = NoProc
  Byte = {0, 1}
  PIPESIZE = 2
  UINT = 4
  Messages <- MCMessages
  MaxN = 2
  Killable = {p1}
  Idle = Idle
