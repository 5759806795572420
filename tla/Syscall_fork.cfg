\* forktest.c's shape: a Fork2s b, and both write to the console and Exit.
CONSTANTS
  m = m  w = w  f = f  r = r  j = j  u = u  x = x  a = a  b = b
  lm = lm  lw = lw  lf = lf  lr = lr  lj = lj  lu = lu  lx = lx  la = la  lb = lb
  cm = cm  cw = cw  cf = cf  cr = cr  cj = cj  cu = cu  cx = cx  ca = ca  cb = cb
  p1 = p1  p2 = p2  pl1 = pl1  pl2 = pl2  pc1 = pc1  pc2 = pc2
  rl = rl  wl = wl  sr = sr  sw = sw
  ReadLock = rl  WriteLock = wl  ConR = sr  ConW = sw
  Input <- MCInput
  NoThread = NoThread  NoPipe = NoPipe  None = None  Stale = Stale
  Main = m
  Threads <- MCThreads
  Procs <- MCProcs
  Policy <- AllPolicy
  Joinable <- MCAllJoinable
  Tests <- ForkTests
  ExitStatus <- MCExitStatus
  Forks <- MCForks
  Reads <- MCReads
  Writes <- MCWrites
  Chars = {1, 2, 3}
  Pipes <- MCPipes
  PipeLock <- MCPipeLock
  PipeCV <- MCPipeCV
  Capacity = 2
  TableSize = 4
  Lk <- MCLk
  Cv <- MCCv
  Locks <- MCLocks
  Conds <- MCConds
  Sems <- MCSems
  InitValue <- MCInitValue
  InitPriority <- MCInitPriority
  Prog <- MCProg
  Start <- MCStart
  MaxPreempt = 0
SPECIFICATION Spec
PROPERTY ForkedThreadsFinish
