\* Fork2 by a thread of the first process, FIFO replacement, two frames, no timer preemption.
CONSTANTS
  m = m  u = u  pa = pa  pb = pb  lm = lm  lu = lu  cm = cm  cu = cu  mm = mm
  NoThread = NoThread
  Threads <- MCThreads
  Procs <- MCForkProcs
  ProcOf <- MCForkProcOf
  VPages <- MCForkVPages
  Image <- MCForkImage
  Lk <- MCLk
  Cv <- MCCv
  Joinable <- MCJoinable
  InitPriority <- MCInitPriority
  Locks <- MCLocks
  Conds <- MCConds
  Sems = {}
  InitValue <- MCInitValue
  Prog <- MCProg
  Start <- MCStart
  Main = m
  MMLock = mm
  NumFrames = 2
  MaxNodes = 4
  MaxAccess = 4
  LRU = 0
  InitPages = 2
  StackPages = 2
  Kid <- MCForkKid
  MaxPreempt = 0
SPECIFICATION Spec
INVARIANT FrameAccounting
