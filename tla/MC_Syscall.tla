----------------------------- MODULE MC_Syscall -----------------------------
(* Syscall for TLC.  The shell m runs one of these command lists:          *)
(*   a pipeline w | r (w writes three characters, r reads four);           *)
(*   a three-stage pipeline w | f | r, f a filter reading and writing;     *)
(*   Exec and Join of a joinable j, an unjoinable u and a joinable x, then *)
(*   an Exec of r that finds storeTable full, and a Join of it;            *)
(*   j and x at once, both reading and writing the console, then Joins;    *)
(*   an Exec of a, which Fork2s b, writes to the console, Yields and      *)
(*   Exits, while b writes to the console and Exits (test/forktest.c).     *)
(* PIPE_SIZE is 2, so that a writer fills the ring and wraps around, and   *)
(* MAXPROCESS is 4, so that the fifth Exec of a run fails.                 *)
EXTENDS Syscall

CONSTANTS m, w, f, r, j, u, x, a, b                \* threads
CONSTANTS lm, lw, lf, lr, lj, lu, lx, la, lb      \* their lock
CONSTANTS cm, cw, cf, cr, cj, cu, cx, ca, cb      \* and condition
CONSTANTS p1, p2, pl1, pl2, pc1, pc2              \* pipes, their lock and cv
CONSTANTS rl, wl, sr, sw       \* ReadLock, WriteLock, SynchConsole's r and w

MCThreads == {m, w, f, r, j, u, x, a, b}
MCProcs == {w, f, r, j, u, x, a}
MCLk == (m :> lm) @@ (w :> lw) @@ (f :> lf) @@ (r :> lr) @@ (j :> lj) @@ (u :> lu) @@ (x :> lx)
        @@ (a :> la) @@ (b :> lb)
MCCv == (m :> cm) @@ (w :> cw) @@ (f :> cf) @@ (r :> cr) @@ (j :> cj) @@ (u :> cu) @@ (x :> cx)
        @@ (a :> ca) @@ (b :> cb)
\* a forks b, as main forks fork1 in forktest.c.
MCForks == [c \in MCProcs |-> IF c = a THEN <<b>> ELSE <<>>]
MCPipes == <<p1, p2>>
MCPipeLock == (p1 :> pl1) @@ (p2 :> pl2)
MCPipeCV == (p1 :> pc1) @@ (p2 :> pc2)
MCLocks == {MCLk[t] : t \in MCThreads} \cup {pl1, pl2, rl, wl}
MCConds == {MCCv[t] : t \in MCThreads} \cup {pc1, pc2}
MCInitPriority == [t \in MCThreads |-> 0]
MCSems == {sr, sw}
MCInitValue == (sr :> 0) @@ (sw :> 0)     \* new Semaphore("r", 0), ("w", 0)
MCExitStatus == (m :> 0) @@ (w :> 2000) @@ (f :> 1500) @@ (r :> 1000) @@ (j :> 1128)
                @@ (u :> 7) @@ (x :> 9) @@ (a :> 1) @@ (b :> 100)
MCReads == (w :> 0) @@ (f :> 4) @@ (r :> 4) @@ (j :> 1) @@ (u :> 0) @@ (x :> 1)
           @@ (a :> 0) @@ (b :> 0)
MCWrites == (w :> <<1, 2, 3>>) @@ (f :> <<2, 1>>) @@ (r :> <<>>) @@ (j :> <<1, 2>>)
            @@ (u :> <<>>) @@ (x :> <<3>>) @@ (a :> <<1, 2>>) @@ (b :> <<3>>)
\* Two characters typed at the console, one for each of j and x.
MCInput == <<1, 2>>

\* Exec policies: w produces, r consumes, f does both; j and x are joinable.
AllPolicy == (w :> 2) @@ (f :> 6) @@ (r :> 4) @@ (j :> 1) @@ (u :> 0) @@ (x :> 1) @@ (a :> 0)
\* a, unjoinable, forks b; the shell cannot Join either.
ForkTests == << << <<"exec", a>> >> >>

AllTests ==
  << << <<"exec", w>>, <<"exec", r>> >>,
     << <<"exec", w>>, <<"exec", f>>, <<"exec", r>> >>,
     << <<"exec", j>>, <<"join", j>>, <<"exec", u>>, <<"join", u>>, <<"exec", x>>,
        <<"join", x>>, <<"exec", r>>, <<"join", r>> >>,
     << <<"exec", j>>, <<"exec", x>>, <<"join", j>>, <<"join", x>> >>,
     ForkTests[1] >>


\* The pipeline with both ends joinable, joined writer first.
JoinPolicy == (w :> 3) @@ (f :> 6) @@ (r :> 5) @@ (j :> 1) @@ (u :> 0) @@ (x :> 1) @@ (a :> 0)
JoinTests == << << <<"exec", w>>, <<"exec", r>>, <<"join", w>>, <<"join", r>> >> >>

PipeTests == << << <<"exec", w>>, <<"exec", r>> >> >>

MCJoinable(pol) == [t \in MCThreads |-> t = b \/ (t \in MCProcs /\ Bit(pol[t], 0))]
MCAllJoinable == MCJoinable(AllPolicy)
MCJoinJoinable == MCJoinable(JoinPolicy)

\* The code, evaluated once: TLC caches a constant definition of this module.
MCProg == SysProg
MCStart == SysStart
=============================================================================
