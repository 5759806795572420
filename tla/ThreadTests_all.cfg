\* Every test of threadtest.cc that ends with all threads finished (the mailbox tests with two messages), with up to two timer preemptions (nachos -rs) or none.
CONSTANTS
  m = m  k1 = k1  k2 = k2  k3 = k3  jn = jn  mr = mr
  pl = pl  pc1 = pc1  ps = ps  mb = mb  sw = sw  rw = rw
  lm = lm  l1 = l1  l2 = l2  l3 = l3  lj = lj  lr = lr  cm = cm  c1 = c1  c2 = c2  c3 = c3  cj = cj  cr = cr
  NoThread = NoThread
  NoMessage = NoMessage
  Senders <- MCSenders
  Receivers <- MCReceivers
  MbLock = mb
  SendWait = sw
  ReceiveWait = rw
  Main = m
  L = pl
  C = pc1
  S = ps
  Joinee = jn
  BusyWorkParam = 2
  Kids <- MCKids
  Threads <- MCThreads
  Joinable <- MCJoinable
  Lk <- MCLk
  Cv <- MCCv
  Locks <- MCLocks
  Conds <- MCConds
  Sems = {ps}
  InitValue <- MCInitValue
  InitPriority <- MCInitPriority
  Prog <- MCProg
  Start <- TestStart
  Tests <- AllTests
  MaxPreempt = 2
SPECIFICATION Spec
INVARIANT TypeOK
INVARIANT ServedInPriorityOrder
INVARIANT NoStrandedThreads
INVARIANT BlockedThreadsWakeable
INVARIANT SemaMutualExclusion
INVARIANT JoinWaitsForFinish
INVARIANT NotDeletedInsideJoin
PROPERTY AllThreadsFinish
