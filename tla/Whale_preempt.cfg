\* WhaleTest of threadtest.cc (four whales of each kind) or a client forking two of each in any order, under up to two timer preemptions (nachos -rs).
CONSTANTS
  m = m  ma1 = ma1  ma2 = ma2  ma3 = ma3  ma4 = ma4  fe1 = fe1  fe2 = fe2  fe3 = fe3  fe4 = fe4  mk1 = mk1  mk2 = mk2  mk3 = mk3  mk4 = mk4
  lm = lm  lma1 = lma1  lma2 = lma2  lma3 = lma3  lma4 = lma4  lfe1 = lfe1  lfe2 = lfe2  lfe3 = lfe3  lfe4 = lfe4  lmk1 = lmk1  lmk2 = lmk2  lmk3 = lmk3  lmk4 = lmk4
  cm = cm  cma1 = cma1  cma2 = cma2  cma3 = cma3  cma4 = cma4  cfe1 = cfe1  cfe2 = cfe2  cfe3 = cfe3  cfe4 = cfe4  cmk1 = cmk1  cmk2 = cmk2  cmk3 = cmk3  cmk4 = cmk4
  wl = wl  cmale = cmale  cfemale = cfemale  cmm = cmm
  NoThread = NoThread
  Threads <- TestThreads
  Whales <- TestWhales
  Rounds <- TestRounds
  WLock = wl
  WCond <- MCWCond
  Lk <- MCLk
  Cv <- MCCv
  Joinable <- MCJoinable
  InitPriority <- MCInitPriority
  Locks <- MCLocks
  Conds <- MCConds
  Sems = {}
  InitValue <- MCInitValue
  Prog <- MCProg
  Start <- MCStart
  Main = m
  AnyWhales <- SmallWhaleSet
  Tests <- BothTests
  MaxPreempt = 2
SPECIFICATION Spec
 
INVARIANT WhaleCallsReturn
