\* Second-chance replacement, no preemption: the walk that unlinks a record past the head.
CONSTANTS
  m = m  u = u  pa = pa  pb = pb  lm = lm  lu = lu  cm = cm  cu = cu  mm = mm
  NoThread = NoThread
  Threads <- MCThreads
  Procs <- MCProcs
  ProcOf <- MCProcOf
  VPages <- MCVPages
  Image <- MCImage
  Lk <- MCLk
  Cv <- MCCv
  Joinable <- MCJoinable
  InitPriority <- MCInitPriority
  Locks <- MCLocks
  Conds <- MCConds
  Sems = {}
  InitValue <- MCInitValue
  Prog <- MCProg
  Start <- MCStart
  Main = m
  MMLock = mm
  NumFrames = 2
  MaxNodes = 4
  MaxAccess = 6
  LRU = 1
  InitPages = 2
  StackPages = 2
  Kid <- MCNoKid
  MaxPreempt = 0
SPECIFICATION Spec
INVARIANT CoreMapTracksResident

