\* Two Sends and two Receives forked in any order, no preemption: a Receive that empties the buffer signals no waiting sender.
CONSTANTS
  m = m  s1 = s1  s2 = s2  r1 = r1  r2 = r2
  lm = lm  ls1 = ls1  ls2 = ls2  lr1 = lr1  lr2 = lr2
  cm = cm  cs1 = cs1  cs2 = cs2  cr1 = cr1  cr2 = cr2
  mb = mb  sw = sw  rw = rw
  NoThread = NoThread
  NoMessage = NoMessage
  Threads <- MCThreads
  Senders <- MCSenders
  Receivers <- MCReceivers
  MbLock = mb
  SendWait = sw
  ReceiveWait = rw
  Lk <- MCLk
  Cv <- MCCv
  Joinable <- MCJoinable
  InitPriority <- MCInitPriority
  Locks <- MCLocks
  Conds <- MCConds
  Sems = {}
  InitValue <- MCInitValue
  Prog <- MCProg
  Start <- MCStart
  Main = m
  Tests <- AnyOrder
  MaxPreempt = 0
SPECIFICATION Spec
INVARIANT MailboxCallsReturn
