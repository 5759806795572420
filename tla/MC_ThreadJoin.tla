---------------------------- MODULE MC_ThreadJoin ----------------------------
(* ThreadJoin for TLC: Main forks the joinable Child and a worker Other,  *)
(* and joins Child.                                                        *)
EXTENDS ThreadJoin

CONSTANTS m, c, o                  \* threads
CONSTANTS lm, lc, lo, cm, cc, co   \* their Thread::lock and Thread::cv

OneJoiner == {m}
\* Main and the other thread both join Child.
TwoJoiners == {m, o}
MCThreadsTwo == {m, c, o}
MCLk == (m :> lm) @@ (c :> lc) @@ (o :> lo)
MCCv == (m :> cm) @@ (c :> cc) @@ (o :> co)
MCJoinable == (m :> FALSE) @@ (c :> TRUE) @@ (o :> FALSE)
MCInitPriority == (m :> 0) @@ (c :> 0) @@ (o :> 0)
MCLocks == {MCLk[t] : t \in Threads}
MCConds == {MCCv[t] : t \in Threads}
MCInitValue == [s \in {} |-> 0]
\* The code, evaluated once: TLC caches a constant definition of this module.
MCProg == JoinProg
=============================================================================
