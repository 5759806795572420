---------------------------- MODULE MC_ThreadTests ----------------------------
(* ThreadTests for TLC: Main, three kids, a joinable thread and a second   *)
(* receiver; one lock, condition and semaphore for the tests, the          *)
(* Mailbox's lock and conditions, and each thread's own lock and           *)
(* condition.  The mailbox tests send two messages instead of six, from    *)
(* the kids k1 and k2 to k3 and mr.                                        *)
EXTENDS ThreadTests

CONSTANTS m, k1, k2, k3, jn, mr               \* threads
CONSTANTS pl, pc1, ps                         \* priorityLock, priorityCV, prioritySema
CONSTANTS mb, sw, rw                          \* Mailbox::lock, sendWait, receiveWait
CONSTANTS lm, l1, l2, l3, lj, lr, cm, c1, c2, c3, cj, cr  \* Thread::lock and Thread::cv

MCKids == <<k1, k2, k3>>
MCThreads == {m, k1, k2, k3, jn, mr}
MCSenders == <<k1, k2>>
MCReceivers == <<k3, mr>>
MCLk == (m :> lm) @@ (k1 :> l1) @@ (k2 :> l2) @@ (k3 :> l3) @@ (jn :> lj) @@ (mr :> lr)
MCCv == (m :> cm) @@ (k1 :> c1) @@ (k2 :> c2) @@ (k3 :> c3) @@ (jn :> cj) @@ (mr :> cr)
MCLocks == {pl, mb, lm, l1, l2, l3, lj, lr}
MCConds == {pc1, sw, rw, cm, c1, c2, c3, cj, cr}
\* new Thread("...", 1) for the joinee of the join tests; 0 for the others
MCJoinable == [t \in MCThreads |-> t = jn]
MCInitPriority == [t \in MCThreads |-> 0]
\* new Semaphore("Priority Semaphore", 1)
MCInitValue == ps :> 1
AllTests == TestNames
\* The code, evaluated once: TLC caches a constant definition of this module.
MCProg == TestProg
=============================================================================
