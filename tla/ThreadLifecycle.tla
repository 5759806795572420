--------------------------- MODULE ThreadLifecycle ---------------------------
(***************************************************************************)
(* Thread::Finish and Thread::Join (threads/thread.cc), written as code    *)
(* for the interpreter of Synch.  Each thread owns a Lock and a Condition  *)
(* (Thread::lock, Thread::cv); a joinable thread's Finish loops            *)
(* signalling and waiting on them until Join has set readyToJoin, then     *)
(* waits once more for Join's permission to be deleted.                    *)
(***************************************************************************)
EXTENDS Synch

CONSTANTS
  Joinable,   \* [Threads -> BOOLEAN]: Thread::join, fixed at creation
  Lk,         \* [Threads -> Locks]: Thread::lock
  Cv          \* [Threads -> Conds]: Thread::cv

VARIABLE readyToJoin   \* [Threads -> {0, 1}]: Thread::readyToJoin

lifeVars == <<synchVars, readyToJoin>>

-----------------------------------------------------------------------------
(* Mutation: Finish without the Signal after its loop (thread.cc 185).    *)
FinishCodeNoExitSignal(t) ==
  LET L(s) == <<t, s>>  lk == Lk[t]  cv == Cv[t] IN
     (L("F1")  :> Instr("Acquire",  lk, lk, L("F2"), TRUE))
  @@ (L("F2")  :> Instr("LoopTest", L("F3"), L("F7"), L("F3"), FALSE))
  @@ (L("F3")  :> Instr("Signal",   cv, lk, L("F4"), FALSE))
  @@ (L("F4")  :> Instr("Wait",     cv, lk, L("F4a"), FALSE))
  @@ (L("F4a") :> Instr("Acquire",  lk, lk, L("F5"), FALSE))
  @@ (L("F5")  :> Instr("Signal",   cv, lk, L("F2"), FALSE))
  @@ (L("F7")  :> Instr("IfJoin",   L("F8"), L("F9"), L("F8"), FALSE))
  @@ (L("F8")  :> Instr("Wait",     cv, lk, L("F8a"), FALSE))
  @@ (L("F8a") :> Instr("Acquire",  lk, lk, L("F9"), FALSE))
  @@ (L("F9")  :> Instr("Release",  lk, lk, L("F10"), FALSE))
  @@ (L("F10") :> Instr("Die",      t, t, L("F10"), FALSE))

(* Thread::Finish (thread.cc 165-198).  Interrupts go off at entry and     *)
(* stay off: every Acquire and Wait inside restores the off level, so the  *)
(* only preemption point is before the call.                               *)
FinishCode(t) ==
  LET L(s) == <<t, s>>  lk == Lk[t]  cv == Cv[t] IN
     (L("F1")  :> Instr("Acquire",  lk, lk, L("F2"), TRUE))
  @@ (L("F2")  :> Instr("LoopTest", L("F3"), L("F6"), L("F3"), FALSE))
  @@ (L("F3")  :> Instr("Signal",   cv, lk, L("F4"), FALSE))
  @@ (L("F4")  :> Instr("Wait",     cv, lk, L("F4a"), FALSE))
  @@ (L("F4a") :> Instr("Acquire",  lk, lk, L("F5"), FALSE))
  @@ (L("F5")  :> Instr("Signal",   cv, lk, L("F2"), FALSE))
  @@ (L("F6")  :> Instr("Signal",   cv, lk, L("F7"), FALSE))
  @@ (L("F7")  :> Instr("IfJoin",   L("F8"), L("F9"), L("F8"), FALSE))
  @@ (L("F8")  :> Instr("Wait",     cv, lk, L("F8a"), FALSE))
  @@ (L("F8a") :> Instr("Acquire",  lk, lk, L("F9"), FALSE))
  @@ (L("F9")  :> Instr("Release",  lk, lk, L("F10"), FALSE))
  @@ (L("F10") :> Instr("Die",      t, t, L("F10"), FALSE))

(* Mutation: Join that signals the finishing thread and leaves without    *)
(* waiting for it (no cv->Wait at thread.cc 229).                          *)
JoinCodeAtNoWait(t, x, p, then) ==
  LET L(s) == <<t, p \o s>>  lk == Lk[x]  cv == Cv[x] IN
     (L("J0")  :> Instr("JoinCheck", x, x, L("J1"), TRUE))
  @@ (L("J1")  :> Instr("Acquire",   lk, lk, L("J2"), FALSE))
  @@ (L("J2")  :> Instr("SetReadyToJoin", x, x, L("J3"), TRUE))
  @@ (L("J3")  :> Instr("Signal",    cv, lk, L("J5"), FALSE))
  @@ (L("J5")  :> Instr("Signal",    cv, lk, L("J6"), TRUE))
  @@ (L("J6")  :> Instr("Release",   lk, lk, then, FALSE))

(* Thread::Join (thread.cc 217-233) called by t on x, going on at `then`, *)
(* at labels whose names start with p.  Join runs with interrupts on, so   *)
(* each Acquire, the return from Wait and Release end with a possible tick. *)
JoinCodeAt(t, x, p, then) ==
  LET L(s) == <<t, p \o s>>  lk == Lk[x]  cv == Cv[x] IN
     (L("J0")  :> Instr("JoinCheck", x, x, L("J1"), TRUE))
  @@ (L("J1")  :> Instr("Acquire",   lk, lk, L("J2"), FALSE))
  @@ (L("J2")  :> Instr("SetReadyToJoin", x, x, L("J3"), TRUE))
  @@ (L("J3")  :> Instr("Signal",    cv, lk, L("J4"), FALSE))
  @@ (L("J4")  :> Instr("Wait",      cv, lk, L("J4a"), FALSE))
  @@ (L("J4a") :> Instr("Acquire",   lk, lk, L("J5"), TRUE))
  @@ (L("J5")  :> Instr("Signal",    cv, lk, L("J6"), TRUE))
  @@ (L("J6")  :> Instr("Release",   lk, lk, then, FALSE))

JoinCode(t, x, then) == JoinCodeAt(t, x, "", then)

-----------------------------------------------------------------------------
(* Builders for straight-line client code.  A name with a number, like    *)
(* "y3", is the third copy of a statement inside a loop of the code.      *)

EmptyCode == <<>>   \* the code of no instruction
Lbl(t, p, k) == <<t, p \o ToString(k)>>

\* MultiYield(n) (threadtest.cc 239-242) at labels p1..pn, then `then`.
RECURSIVE YieldN(_, _, _, _)
YieldN(t, p, n, then) ==
  IF n = 0 THEN EmptyCode
  ELSE (Lbl(t, p, n) :> Instr("Yield", t, t, then, TRUE)) @@ YieldN(t, p, n - 1, Lbl(t, p, n))

(* A straight piece of code: the instructions of seq, at labels p1..pn,    *)
(* each <<op, a, b>>, going on at `then`.                                  *)
RECURSIVE StraightFrom(_, _, _, _, _)
StraightFrom(t, p, seq, k, then) ==
  IF k > Len(seq) THEN EmptyCode
  ELSE (Lbl(t, p, k) :> Instr(seq[k][1], seq[k][2], seq[k][3],
                              IF k = Len(seq) THEN then ELSE Lbl(t, p, k + 1), TRUE))
       @@ StraightFrom(t, p, seq, k + 1, then)

Straight(t, p, seq, then) == StraightFrom(t, p, seq, 1, then)

-----------------------------------------------------------------------------
\* while (readyToJoin == 0 && join) in Finish (thread.cc 175)
LoopTest(t) ==
  LET i == Prog[pc[t]] IN
  /\ i.op = "LoopTest"
  /\ Goto(t, IF readyToJoin[t] = 0 /\ Joinable[t] THEN i.a ELSE i.b)
  /\ UNCHANGED readyToJoin

\* Mutation: Finish skips its final wait, as if `join` were always false.
IfJoinSkip(t) ==
  LET i == Prog[pc[t]] IN
  /\ i.op = "IfJoin"
  /\ Goto(t, i.b)
  /\ UNCHANGED readyToJoin

\* if (join) in Finish (thread.cc 186)
IfJoin(t) ==
  LET i == Prog[pc[t]] IN
  /\ i.op = "IfJoin"
  /\ Goto(t, IF Joinable[t] THEN i.a ELSE i.b)
  /\ UNCHANGED readyToJoin

(* The four ASSERTs at the top of Thread::Join (thread.cc 218-221); a      *)
(* thread has been forked (isForked) once it is no longer JustCreated.     *)
JoinCheck(t) ==
  LET i == Prog[pc[t]]  x == i.a IN
  /\ i.op = "JoinCheck"
  /\ Joinable[x]
  /\ readyToJoin[x] = 0
  /\ t # x
  /\ status[x] # "JustCreated"
  /\ Goto(t, i.next)
  /\ UNCHANGED readyToJoin

\* Mutation: Join sets the caller's readyToJoin instead of the joined thread's.
SetReadyToJoinSelf(t) ==
  LET i == Prog[pc[t]] IN
  /\ i.op = "SetReadyToJoin"
  /\ readyToJoin' = [readyToJoin EXCEPT ![t] = 1]
  /\ Goto(t, i.next)

\* readyToJoin = 1 (thread.cc 225)
SetReadyToJoin(t) ==
  LET i == Prog[pc[t]] IN
  /\ i.op = "SetReadyToJoin"
  /\ readyToJoin' = [readyToJoin EXCEPT ![i.a] = 1]
  /\ Goto(t, i.next)

\* A step of the running thread inside Finish or Join, or in Synch.
LifeStep(t) ==
  \/ SynchStep(t) /\ UNCHANGED readyToJoin
  \/ /\ \/ LoopTest(t) \/ IfJoin(t) \/ JoinCheck(t) \/ SetReadyToJoin(t)
     /\ UNCHANGED <<schedVars, owner, waitq, value, preempts, prio>>

LifeInit == SynchInit /\ readyToJoin = [t \in Threads |-> 0]

LifeTypeOK == SynchTypeOK /\ readyToJoin \in [Threads -> {0, 1}]
=============================================================================
