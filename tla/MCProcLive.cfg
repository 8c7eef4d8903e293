SPECIFICATION FairSpec
CONSTANTS
  NPROC = 3
  CPU = {c0}
  CPU0 = c0
  NoCPU = NoCPU
  MAXPID = 3
  MAXTICKS = 0
  Killable = {}
PROPERTIES RunnableRuns OrphansReaped
