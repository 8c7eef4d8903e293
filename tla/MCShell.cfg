SPECIFICATION UserSpec
CONSTANTS
  Word = {"gen", "cat", "f", "missing", "cd"}
  MAXARGS = 3
  NPROC = 6
  PipeIds = {"A", "B"}
  PIPESIZE = 1
  Sessions <- MCSessions
  DIRSIZ = 2
  TextLen = 6
  WORD = 64
  INT = 4
  USERTOP = 32
INVARIANTS ShellInv ParserInverts TextMeans
PROPERTIES LinesEnd
\* A session ends, and samples do not move.
CHECK_DEADLOCK FALSE
