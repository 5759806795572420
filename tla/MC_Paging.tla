------------------------------ MODULE MC_Paging ------------------------------
(* Paging for TLC: two processes of one thread each, m (the first process, *)
(* which Execs the other) and u, with two virtual pages each over two      *)
(* physical frames, so that faults must evict.  Page 0 holds code, page 1  *)
(* is stack (zero-filled).                                                 *)
EXTENDS Paging

CONSTANTS m, u              \* threads
CONSTANTS pa, pb            \* their address spaces
CONSTANTS lm, lu, cm, cu    \* their Thread::lock and Thread::cv
CONSTANT mm                 \* MemoryManager::lock

MCThreads == {m, u}
MCProcs == {pa, pb}
MCProcOf == (m :> pa) @@ (u :> pb)
MCVPages == 0..1
MCImage == [p \in MCProcs |-> (0 :> "img") @@ (1 :> "zero")]
MCLk == (m :> lm) @@ (u :> lu)
MCCv == (m :> cm) @@ (u :> cu)
MCJoinable == [t \in MCThreads |-> FALSE]
MCInitPriority == [t \in MCThreads |-> 0]
MCLocks == {lm, lu, mm}
MCConds == {cm, cu}
MCInitValue == [s \in {} |-> 0]
\* The code, evaluated once: TLC caches a constant definition of this module.
MCNoKid == [t \in MCThreads |-> NoThread]
\* Fork2: one space pa, whose thread m forks u; two stack pages on top of two.
MCForkProcs == {pa}
MCForkProcOf == (m :> pa) @@ (u :> pa)
MCForkVPages == 0..3
MCForkImage == [p \in MCForkProcs |-> [v \in MCForkVPages |-> IF v = 0 THEN "img" ELSE "zero"]]
MCForkKid == (m :> u) @@ (u :> NoThread)
MCProg == PagingProg
MCStart == PagingStart
=============================================================================
