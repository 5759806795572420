----------------------------- MODULE ThreadTests -----------------------------
(***************************************************************************)
(* The test drivers of threads/threadtest.cc as clients of Synch and of    *)
(* ThreadLifecycle.  Main chooses a test (ThreadTest's switch on testnum). *)
(* In the priority and condition tests it forks the three Kids and wakes   *)
(* them through a Lock, a Semaphore or a Condition; each kid reaches a     *)
(* point where the test prints that it got through, and the ghost `served` *)
(* records the order in which the kids got there.  In the join tests a    *)
(* joinable thread, Joinee, is forked and joined by Main or by a kid.     *)
(* The mailbox tests run the Send and Receive of module Mailbox, which is *)
(* instantiated on the same threads and primitives.  Every thread ends in  *)
(* Thread::Finish.                                                         *)
(***************************************************************************)
EXTENDS ThreadLifecycle

CONSTANTS
  Kids,       \* <<k1, k2, k3>>: the threads Main forks, in fork order
  L,          \* priorityLock / conditionLock
  C,          \* priorityCV / conditionTest
  S,          \* prioritySema
  Joinee,     \* the joinable thread of the join tests
  BusyWorkParam, \* the `pram` TestThatParentsBlocking passes to BusyWork
  Senders, Receivers, MbLock, SendWait, ReceiveWait, NoMessage,  \* as in Mailbox
  Tests       \* the tests Main may run: subset of TestNames

TestNames == {"lock", "sema", "cond", "broadcast", "siglost", "bclost", "pingpong",
              "locktest1", "forker", "parentblocks", "joinlater",
              "mbsimple", "mbsenders", "mbreceivers"}
KidSet == ToSet(Kids)
N == Len(Kids)

ASSUME Tests \subseteq TestNames /\ Tests # {}
ASSUME KidSet \cup {Main, Joinee} \subseteq Threads /\ Main \notin KidSet \cup {Joinee}
ASSUME Joinee \notin KidSet /\ Joinable[Joinee] /\ \A t \in Threads \ {Joinee} : ~Joinable[t]

VARIABLE served   \* Seq(KidSet): the kids that got through, in order
VARIABLES receivePres, buffer, bufferRead, sent, got   \* the Mailbox's, as in Mailbox

mbVars == <<receivePres, buffer, bufferRead, sent, got>>
vars == <<lifeVars, served, mbVars>>

\* The Mailbox `subject` of the mailbox tests, and their code.
MB == INSTANCE Mailbox WITH Tests <- {"simple", "senders", "receivers"}
\* The same tests' code alone.  It is built from the constants only, so this
\* instance leaves Prog, which TestProg defines, out of it.
MBCode == INSTANCE Mailbox WITH Tests <- {"simple", "senders", "receivers"}, Prog <- EmptyCode

-----------------------------------------------------------------------------
(* The code, built with the helpers of ThreadLifecycle.                  *)

\* for (i = 0; i < n; i++) { child = new Thread; child->Fork(entry, i); }
RECURSIVE ForkN(_, _, _, _, _)
ForkN(p, entry, k, n, then) ==
  IF k > n THEN EmptyCode
  ELSE (Lbl(Main, p, k) :> Instr("Fork", Kids[k], <<Kids[k], entry>>,
                                 IF k = n THEN then ELSE Lbl(Main, p, k + 1), TRUE))
       @@ ForkN(p, entry, k + 1, n, then)

\* The `param` of kid number k: its priority, i in the fork loop.
Param(k) == CHOOSE i \in 1..N : Kids[i] = k

\* SimpleThread (18-25): five turns of a print and a Yield.
SimpleThread(t, then) == YieldN(t, "st", 5, then)

\* LockThread1 and LockThread2 (93-127), which differ only in what they print.
LockThread(t, then) ==
  Straight(t, "l1", <<<<"Acquire", L, L>>, <<"Yield", t, t>>, <<"Release", L, L>>>>, then)

(* Joiner (800-823): four Yields, joinee->Join(), four Yields; the prints  *)
(* between them are left out.  Its Join has labels starting with "fj".   *)
JoinerCode(t, then) ==
     YieldN(t, "jy", 4, <<t, "fjJ0">>)
  @@ JoinCodeAt(t, Joinee, "fj", Lbl(t, "aj", 1))
  @@ YieldN(t, "aj", 4, then)

\* Joinee (831-842): five turns of a print and a Yield, then two more Yields.
JoineeCode(t, then) == YieldN(t, "je", 7, then)

\* BusyWork(pram) (759-771): pram turns of MultiYield(pram).
BusyWork(t, then) == YieldN(t, "bw", BusyWorkParam * BusyWorkParam, then)

\* waitOnLock (1021-1032), waitOnSema (1041-1051), waitTask (1003-1012),
\* ThreadWait (223-229); "Report" is the fprintf that says it got through.
KidCode(k) ==
  LET F == <<k, "F1">> IN
     Straight(k, "lk", <<<<"SetPriority", Param(k) - 1, 0>>, <<"Acquire", L, L>>,
                         <<"Report", k, k>>, <<"Release", L, L>>>>, F)
  @@ Straight(k, "sm", <<<<"SetPriority", Param(k) - 1, 0>>, <<"P", S, S>>,
                         <<"Report", k, k>>, <<"V", S, S>>>>, F)
  @@ Straight(k, "wt", <<<<"Acquire", L, L>>, <<"SetPriority", Param(k) - 1, 0>>,
                         <<"Wait", C, L>>, <<"Acquire", L, L>>,
                         <<"Report", k, k>>, <<"Release", L, L>>>>, F)
  @@ Straight(k, "tw", <<<<"Acquire", L, L>>, <<"Wait", C, L>>, <<"Acquire", L, L>>,
                         <<"Report", k, k>>, <<"Release", L, L>>>>, F)
  @@ SimpleThread(k, F) @@ LockThread(k, F) @@ JoinerCode(k, F)
  @@ FinishCode(k)

\* Acquire; Signal or Broadcast; Release, at labels p1..p3.
Notify(p, op, then) ==
  Straight(Main, p, <<<<"Acquire", L, L>>, <<op, C, L>>, <<"Release", L, L>>>>, then)

(* TestPriorityWithConditionVariable's loop (1140-1145): round r of N is *)
(* Acquire; Signal; Release at cs<r>1..cs<r>3, then MultiYield(2).         *)
RECURSIVE SignalRounds(_)
SignalRounds(r) ==
  IF r > N THEN EmptyCode
  ELSE LET p == "cs" \o ToString(r) \o "."
           next == IF r = N THEN <<Main, "F1">> ELSE Lbl(Main, "cs" \o ToString(r + 1) \o ".", 1)
       IN Notify(p, "Signal", Lbl(Main, "cr" \o ToString(r) \o ".", 1))
          @@ YieldN(Main, "cr" \o ToString(r) \o ".", 2, next)
          @@ SignalRounds(r + 1)

MainDone == <<Main, "F1">>   \* each driver ends as main() does, in Finish

\* TestPriorityWithLock (1154-1176)
PriorityLockTest ==
     Straight(Main, "a", <<<<"Acquire", L, L>>>>, Lbl(Main, "af", 1))
  @@ ForkN("af", "lk1", 1, N, Lbl(Main, "ay", 1))
  @@ YieldN(Main, "ay", N, Lbl(Main, "ar", 1))
  @@ Straight(Main, "ar", <<<<"Release", L, L>>>>, Lbl(Main, "az", 1))
  @@ YieldN(Main, "az", N, MainDone)

\* TestPriorityWithSemaphore (1183-1207)
PrioritySemaTest ==
     Straight(Main, "b", <<<<"P", S, S>>>>, Lbl(Main, "bf", 1))
  @@ ForkN("bf", "sm1", 1, N, Lbl(Main, "by", 1))
  @@ YieldN(Main, "by", N, Lbl(Main, "bv", 1))
  @@ Straight(Main, "bv", <<<<"V", S, S>>>>, Lbl(Main, "bz", 1))
  @@ YieldN(Main, "bz", N, MainDone)

\* TestPriorityWithConditionVariable (1123-1146)
PriorityCondTest ==
     ForkN("cf", "wt1", 1, N, Lbl(Main, "cy", 1))
  @@ YieldN(Main, "cy", N, Lbl(Main, "cs1.", 1))
  @@ SignalRounds(1)

\* LoadOntoCV(N) (252-261): fork N ThreadWait kids, then MultiYield(2N).
LoadOntoCV(p, then) ==
  ForkN(p, "tw1", 1, N, Lbl(Main, p \o "y", 1)) @@ YieldN(Main, p \o "y", 2 * N, then)

\* Condition_Test_BroadCastWakesAll (291-307)
BroadcastTest == LoadOntoCV("d", Lbl(Main, "db", 1)) @@ Notify("db", "Broadcast", MainDone)

\* Condition_Test_Signal_Lost (315-352)
SignalLostTest ==
     Notify("e", "Signal", Lbl(Main, "efy", 1))
  @@ LoadOntoCV("ef", Lbl(Main, "es", 1))
  @@ Notify("es", "Signal", Lbl(Main, "ez", 1))
  @@ YieldN(Main, "ez", 2 * N, Lbl(Main, "eb", 1))
  @@ Notify("eb", "Broadcast", MainDone)

\* Condition_Test_BroadCast_Lost (360-398)
BroadcastLostTest ==
     Notify("g", "Broadcast", Lbl(Main, "gfy", 1))
  @@ LoadOntoCV("gf", Lbl(Main, "gs", 1))
  @@ Notify("gs", "Signal", Lbl(Main, "gz", 1))
  @@ YieldN(Main, "gz", N, Lbl(Main, "gb", 1))
  @@ Notify("gb", "Broadcast", MainDone)

\* ThreadTest1 (34-42): fork SimpleThread(1), then run SimpleThread(0).
ThreadTest1 ==
     (Lbl(Main, "h", 1) :> Instr("Fork", Kids[1], Lbl(Kids[1], "st", 1), Lbl(Main, "st", 1), TRUE))
  @@ SimpleThread(Main, MainDone)

\* LockTest1 (129-140): fork LockThread1 and LockThread2.
LockTest1 == ForkN("i", "l11", 1, 2, MainDone)

\* ForkerThread (850-860): fork the Joiner, then the Joinee, and return.
ForkerThread ==
     (Lbl(Main, "j", 1) :> Instr("Fork", Kids[1], Lbl(Kids[1], "jy", 1), Lbl(Main, "j", 2), TRUE))
  @@ (Lbl(Main, "j", 2) :> Instr("Fork", Joinee, Lbl(Joinee, "je", 1), MainDone, TRUE))

\* TestThatParentsBlocking (930-936): fork BusyWork, Join it.
TestThatParentsBlocking ==
     (Lbl(Main, "p", 1) :> Instr("Fork", Joinee, Lbl(Joinee, "bw", 1), <<Main, "pjJ0">>, TRUE))
  @@ JoinCodeAt(Main, Joinee, "pj", MainDone)

(* TestTerminatesOnlyWhenJoinCalled (945-966): fork noOpStub, MultiYield,  *)
(* Join it, MultiYield.                                                    *)
TestTerminatesOnlyWhenJoinCalled ==
     (Lbl(Main, "q", 1) :> Instr("Fork", Joinee, <<Joinee, "F1">>, Lbl(Main, "qy", 1), TRUE))
  @@ YieldN(Main, "qy", 1, <<Main, "tjJ0">>)
  @@ JoinCodeAt(Main, Joinee, "tj", Lbl(Main, "qz", 1))
  @@ YieldN(Main, "qz", 1, MainDone)

MainCode ==
     PriorityLockTest @@ PrioritySemaTest @@ PriorityCondTest @@ BroadcastTest
  @@ SignalLostTest @@ BroadcastLostTest @@ ThreadTest1 @@ LockTest1 @@ ForkerThread
  @@ TestThatParentsBlocking @@ TestTerminatesOnlyWhenJoinCalled @@ FinishCode(Main)

\* The first label of each test's driver.
TestEntry == [lock |-> Lbl(Main, "a", 1), sema |-> Lbl(Main, "b", 1),
              cond |-> Lbl(Main, "cf", 1), broadcast |-> Lbl(Main, "d", 1),
              siglost |-> Lbl(Main, "e", 1), bclost |-> Lbl(Main, "g", 1),
              pingpong |-> Lbl(Main, "h", 1), locktest1 |-> Lbl(Main, "i", 1),
              forker |-> Lbl(Main, "j", 1), parentblocks |-> Lbl(Main, "p", 1),
              joinlater |-> Lbl(Main, "q", 1),
              mbsimple |-> Lbl(Main, "ma", 1), mbsenders |-> Lbl(Main, "mb", 1),
              mbreceivers |-> Lbl(Main, "mc", 1)]

RECURSIVE KidsCode(_)
KidsCode(k) == IF k > N THEN EmptyCode ELSE KidCode(Kids[k]) @@ KidsCode(k + 1)

ThreadCode ==
  MainCode @@ KidsCode(1)
  @@ JoineeCode(Joinee, <<Joinee, "F1">>) @@ BusyWork(Joinee, <<Joinee, "F1">>) @@ FinishCode(Joinee)

\* The drivers here and those of Mailbox use distinct labels but for Main's "test".
ASSUME \A l \in (DOMAIN ThreadCode \cap DOMAIN MBCode!MailboxProg) \ {<<Main, "test">>} :
          ThreadCode[l] = MBCode!MailboxProg[l]

\* switch (testnum) in ThreadTest (threadtest.cc 1380-1490)
TestProg ==
  (<<Main, "test">> :> Instr("Choose", {TestEntry[x] : x \in Tests}, Main, Done, FALSE))
  @@ ThreadCode @@ MBCode!MailboxProg

\* Kids start where Fork says; until then they stand at Done, never run.
TestStart == [t \in Threads |-> IF t = Main THEN <<Main, "test">> ELSE Done]

-----------------------------------------------------------------------------
\* The fprintf of a kid that got through: recorded in `served`.
Report(t) ==
  LET i == Prog[pc[t]] IN
  /\ i.op = "Report"
  /\ served' = Append(served, t)
  /\ Goto(t, i.next)

Init == LifeInit /\ served = <<>> /\ MB!MailboxInit

Next ==
  \/ Halted /\ UNCHANGED <<readyToJoin, served, mbVars>>
  \/ /\ running # NoThread
     /\ pc[running] # Done
     /\ \/ LifeStep(running) /\ UNCHANGED <<served, mbVars>>
        \/ Report(running) /\ UNCHANGED <<schedVars, owner, waitq, value, preempts, prio, readyToJoin, mbVars>>
        \/ MB!MailboxStep(running) /\ UNCHANGED served

\* The CPU always executes the running thread: weak fairness on Next.
Spec == Init /\ [][Next]_vars /\ WF_vars(Next)

-----------------------------------------------------------------------------
TypeOK == MB!TypeOK /\ served \in Seq(KidSet)

\* The kids by descending priority, in fork order among equal priorities.
ExpectedOrder ==
  SortSeq(Kids, LAMBDA a, b : prio[a] > prio[b] \/ (prio[a] = prio[b] /\ Param(a) < Param(b)))

(* Without timer ticks (nachos without -rs), once every kid is blocked on  *)
(* the Lock, Semaphore or Condition, the                                    *)
(* tests expect them to get through from the highest priority to the       *)
(* lowest ("Threads should print from greatest to least", threadtest.cc    *)
(* 1142, 1175, 1204) and, at equal priority, in the order they waited      *)
(* (Broadcast and Signal in the condition tests).  This needs the          *)
(* priority-sorted wait queues, Mesa wakeup in Release/V/Signal and the    *)
(* ready list's FIFO order among equals to work together.                  *)
(* With ticks, main's MultiYield no longer guarantees that every kid is    *)
(* blocked before the first is let through, and the tests expect nothing.  *)
ServedInPriorityOrder == preempts = 0 => IsPrefix(served, ExpectedOrder)

\* Between a successful P on prioritySema and the V that gives it back.
InSemaSection(t) ==
  IF t = Main
  THEN pc[t] \in {Lbl(Main, p, k) : p \in {"bf", "by"}, k \in 1..N} \cup {Lbl(Main, "bv", 1)}
  ELSE pc[t] \in {Lbl(t, "sm", 3), Lbl(t, "sm", 4)}

(* TestPriorityWithSemaphore uses a Semaphore of initial value 1 "as a     *)
(* lock" (threadtest.cc 1184): at most one thread is ever between its P    *)
(* and its V, however timer interrupts interleave the kids' P with Main's  *)
(* V.  This rests on P re-testing value in a loop after it is woken        *)
(* (synch.cc 66-70): V only makes the waiter ready, and another thread may *)
(* take the unit first.                                                    *)
SemaMutualExclusion == Cardinality({t \in Threads : InSemaSection(t)}) <= 1

\* Between the first ASSERT of Joinee->Join() and its return, in any test.
InJoin(t) ==
  pc[t] \in {<<t, p \o s>> : p \in {"fj", "pj", "tj"},
                              s \in {"J0", "J1", "J2", "J3", "J4", "J4a", "J5", "J6"}}

\* Joinee has left Finish's wait loop (thread.cc 175-181).
PastLoop == {<<Joinee, s>> : s \in {"F7", "F8", "F8a", "F9", "F10"}} \cup {Done}

(* Join returns only once the joined thread has finished its work and left *)
(* the loop of Thread::Finish in which it waits for readyToJoin (the       *)
(* "Join must not return before child is done" contract of thread.cc 209), *)
(* whether the joinee has yet to run (ForkerThread, BusyWork) or has been  *)
(* waiting in Finish for long (TestTerminatesOnlyWhenJoinCalled).  Join    *)
(* marks readyToJoin and then waits on the joinee's condition; a Join that *)
(* returned without that wait would let the test go on with the joinee     *)
(* still running.                                                          *)
JoinWaitsForFinish ==
  (readyToJoin[Joinee] = 1 /\ \A t \in Threads : ~InJoin(t)) => pc[Joinee] \in PastLoop

(* The joined Thread is not deleted while its joiner is still inside Join: *)
(* Join's last steps Signal the joinee's cv and Release its lock           *)
(* (thread.cc 229-231), so Finish must wait on that cv a second time       *)
(* (thread.cc 186-191) before the thread can be destroyed by the next      *)
(* context switch.                                                         *)
NotDeletedInsideJoin == Joinee \in destroyed => (\A t \in Threads : ~InJoin(t))

(* Every thread gets through its test and Finish: no kid is left waiting   *)
(* on the Lock, Semaphore or Condition, and Join and Finish never leave    *)
(* each other waiting, whichever test runs.                                *)
AllThreadsFinish == <>(\A t \in Threads : Finished(t))
=============================================================================
