SPECIFICATION ResSpec
CONSTANTS
  User = {u1, u2}
  firstUser = u1
  NFILE = 3
  NOFILE = 2
  PipeId = {x1}
  NoPipe = NoPipe
  NPROC = 2
  NINODES = 3
  File = {f1, f2}
  BSIZE = 2
  NDIRECT = 2
  nmeta = 2
  FSSIZE = 15
  MAXOPBLOCKS = 6
  HostFiles <- MCHostFiles
  Sizes = {1, 7}
  MaxCalls = 5
  Task = {t1, t2}
  firstTask = t1
  NPAGES = 13
  PGSIZE = 2
  KERNBASE = 10
  NPTENTRIES = 2
  VMUINT = 20
  Growth <- MCGrowth
  Programs <- MCPrograms
  VmCalls = 6
  HEAP = 10
  NALLOC = 4
  HDR = 2
  UWRAP = 32
  Requests = {3, 8, 31}
  Gaps = {1}
INVARIANTS TableInv DescriptorsUsable FileDataInv ContentsAsWritten SharedOffset VmInv AddressSpace HeapInv
PROPERTIES MallocFits
SYMMETRY FilesAlike
\* The calls and the space of the parts are bounded: they end when it is used up.
CHECK_DEADLOCK FALSE
