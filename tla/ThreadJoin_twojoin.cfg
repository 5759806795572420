\* Main and a second thread both call Child->Join(), with up to two timer preemptions (nachos -rs).
CONSTANTS
  m = m  c = c  o = o
  lm = lm  lc = lc  lo = lo  cm = cm  cc = cc  co = co
  NoThread = NoThread
  Main = m
  Child = c
  Threads <- MCThreadsTwo
  Joiners <- TwoJoiners
  Joinable <- MCJoinable
  Lk <- MCLk
  Cv <- MCCv
  Locks <- MCLocks
  Conds <- MCConds
  Sems = {}
  InitValue <- MCInitValue
  InitPriority <- MCInitPriority
  Prog <- MCProg
  Start <- JoinStart
  MaxPreempt = 2
SPECIFICATION Spec
INVARIANT SingleJoiner
\* A failed ASSERT halts nachos: a thread stopped there is not a deadlock of the code.
CHECK_DEADLOCK FALSE
