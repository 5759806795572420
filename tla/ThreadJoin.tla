----------------------------- MODULE ThreadJoin -----------------------------
(***************************************************************************)
(* The join handshake of threads/thread.cc: Thread::Finish of a joinable   *)
(* thread waits on the thread's own lock and condition until Thread::Join  *)
(* has been called, and Join waits until the finishing thread has left     *)
(* its loop.  The thread Child is joinable; every thread of Joiners forks  *)
(* (Main) or is forked, runs for a while, calls Child->Join() and then     *)
(* reads Child's join value, as Join2 in userprog/exception.cc does.       *)
(***************************************************************************)
EXTENDS ThreadLifecycle

CONSTANTS
  Child,      \* the joinable thread
  Joiners     \* threads that call Child->Join(); Main is one of them

ASSUME Child \in Threads /\ Joinable[Child] /\ Main \in Joiners
ASSUME Joiners \subseteq Threads \ {Child}
ASSUME Cardinality(Threads) <= 3

vars == lifeVars

-----------------------------------------------------------------------------
(* The code, as instructions of Synch.  Labels are <<thread, name>>.  An   *)
(* instruction's last field says whether a timer tick may fall just before *)
(* it, i.e. whether the code before it has just re-enabled interrupts.     *)

\* Child->Join() (J0-J6), then Join2's read of the join value (exception.cc 642-644).
JoinAndReadCode(t) ==
     JoinCode(t, Child, <<t, "read">>)
  @@ (<<t, "read">> :> Instr("ReadJoinValue", Child, Child, <<t, "F1">>, TRUE))

\* What a thread does before it joins or finishes: up to two Yields.
BodyCode(t, then) ==
  LET L(s) == <<t, s>> IN
     (L("body") :> Instr("Choose", {L("y"), then}, t, then, TRUE))
  @@ (L("y")    :> Instr("Yield", t, t, L("b2"), TRUE))
  @@ (L("b2")   :> Instr("Choose", {L("y2"), then}, t, then, TRUE))
  @@ (L("y2")   :> Instr("Yield", t, t, then, TRUE))

\* Threads other than Main and Child: a second joiner or a plain worker.
Others == Threads \ {Main, Child}
Workers == Threads \ (Joiners \cup {Child})

\* Main forks Child and then the other thread (ThreadTest / ForkerThread).
ForkCode ==
  LET L(s) == <<Main, s>> IN
  IF Others = {}
  THEN L("M0") :> Instr("Fork", Child, <<Child, "body">>, L("body"), TRUE)
  ELSE LET o == CHOOSE u \in Others : TRUE IN
          (L("M0") :> Instr("Fork", Child, <<Child, "body">>, L("M1"), TRUE))
       @@ (L("M1") :> Instr("Fork", o, <<o, "body">>, L("body"), TRUE))

JoinerCode(t) == BodyCode(t, <<t, "J0">>) @@ JoinAndReadCode(t) @@ FinishCode(t)
WorkerCode(t) == BodyCode(t, <<t, "F1">>) @@ FinishCode(t)

ThreadCode(t) ==
  IF t = Child THEN BodyCode(Child, <<Child, "F1">>) @@ FinishCode(Child)
  ELSE IF t \in Joiners THEN JoinerCode(t) ELSE WorkerCode(t)

\* The code of all threads of ts, merged into one function.
RECURSIVE AllCode(_)
AllCode(ts) ==
  IF ts = {} THEN ForkCode
  ELSE LET t == CHOOSE u \in ts : TRUE IN ThreadCode(t) @@ AllCode(ts \ {t})

JoinProg == AllCode(Threads)

JoinStart == [t \in Threads |-> IF t = Main THEN <<Main, "M0">> ELSE <<t, "body">>]

-----------------------------------------------------------------------------
\* joinThread->getJoinValue() after Join returns (exception.cc 644)
ReadJoinValue(t) ==
  LET i == Prog[pc[t]] IN
  /\ i.op = "ReadJoinValue"
  /\ Goto(t, i.next)
  /\ UNCHANGED readyToJoin

Init == LifeInit

Next ==
  \/ Halted /\ UNCHANGED readyToJoin
  \/ /\ running # NoThread
     /\ pc[running] # Done
     /\ \/ LifeStep(running)
        \/ ReadJoinValue(running) /\ UNCHANGED <<schedVars, owner, waitq, value, preempts, prio>>

\* The CPU always executes the running thread: weak fairness on Next.
Spec == Init /\ [][Next]_vars /\ WF_vars(Next)

-----------------------------------------------------------------------------
TypeOK == LifeTypeOK

\* Labels of Finish from which Child has left its waiting loop.
PastLoop == {<<Child, s>> : s \in {"F7", "F8", "F8a", "F9", "F10"}} \cup {Done}
\* Labels of a joiner after Join has returned.
AfterJoin(t) == {<<t, s>> : s \in {"read", "F1", "F2", "F3", "F4", "F4a", "F5",
                                   "F6", "F7", "F8", "F8a", "F9", "F10"}} \cup {Done}

(* Join returns only after the joined thread has left the loop in Finish   *)
(* (it is at its terminal wait or beyond): the Signal/Wait/Signal          *)
(* exchange of Join and Finish (thread.cc 175-187, 228-230) is a real      *)
(* handshake, whichever of the two threads gets there first.               *)
JoinWaitsForFinish ==
  \A t \in Joiners : pc[t] \in AfterJoin(t) => pc[Child] \in PastLoop

\* Between the first ASSERT of Child->Join() and its return.
InJoin(t) == pc[t] \in {<<t, s>> : s \in {"J1", "J2", "J3", "J4", "J4a", "J5", "J6"}}

(* At most one thread is ever inside Child->Join(): "join can only be      *)
(* called once" (thread.cc 206), and a second Join is to be rejected by    *)
(* ASSERT(readyToJoin == 0) (thread.cc 218).  The ASSERT runs before       *)
(* lock->Acquire() and readyToJoin is set only after it (thread.cc 222-   *)
(* 224), so a second joiner that passes the ASSERT while the first is      *)
(* between the two is not rejected.                                        *)
SingleJoiner == \A t, u \in Joiners : InJoin(t) /\ InJoin(u) => t = u

(* Every thread eventually runs to the end of its code: Join and Finish    *)
(* never leave each other waiting.                                         *)
AllThreadsFinish == <>(\A t \in Threads : Finished(t))
=============================================================================
