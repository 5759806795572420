------------------------------- MODULE Synch -------------------------------
(***************************************************************************)
(* The Nachos uniprocessor thread core: Thread::Fork, Yield, Sleep and the *)
(* tail of Finish (threads/thread.cc), the scheduler they call, and the    *)
(* Semaphore, Lock and Condition of threads/synch.cc.                      *)
(*                                                                         *)
(* Exactly one thread, `running`, executes at a time.  A thread executes   *)
(* a program: Prog maps a label to an instruction, and one step of the     *)
(* running thread executes the instruction at its label.  An instruction   *)
(* ends either with the thread still on the CPU or at a context switch     *)
(* (Sleep inside P, Acquire, Wait; Yield; the end of Finish), so a step    *)
(* is exactly one atomic stretch of the code: everything in it runs with   *)
(* interrupts off or without a switch point.  A blocked thread that is     *)
(* woken re-executes the same instruction, as the code's `while` loops do. *)
(*                                                                         *)
(* Timer preemption (Interrupt::OneTick -> Thread::Yield, outside src/) is *)
(* the action Preempt, possible only at labels whose `pre` flag says that  *)
(* the code has just re-enabled interrupts, and at most MaxPreempt times.  *)
(***************************************************************************)
EXTENDS Integers, Sequences, SequencesExt, FiniteSets

CONSTANTS
  Threads,      \* the Thread control blocks of the model
  NoThread,     \* model value: the NULL Thread*
  Locks,        \* Lock objects
  Conds,        \* Condition objects
  Sems,         \* Semaphore objects
  InitPriority, \* [Threads -> Int]: Thread::priority when the thread is created
  Prog,         \* [Labels -> instruction]: the threads' code
  Start,        \* [Threads -> Labels]: where each thread's code begins
  Main,         \* the thread that is running at boot
  InitValue,    \* [Sems -> Nat]: Semaphore initialValue
  MaxPreempt    \* bound on timer-driven yields in one behaviour

ASSUME NoThread \notin Threads /\ Main \in Threads
ASSUME Locks \cap Conds = {} /\ Locks \cap Sems = {} /\ Conds \cap Sems = {}

Done == <<NoThread, "done">>            \* label after a thread's last step
Labels == DOMAIN Prog \cup {Done}
Queues == Locks \cup Conds \cup Sems    \* every primitive has a wait queue
Status == {"JustCreated", "Ready", "Running", "Blocked"}

\* An instruction: operation, its operands a and b, the label that follows,
\* and whether interrupts are enabled when the thread stands at this label.
Instr(op, a, b, nx, pre) == [op |-> op, a |-> a, b |-> b, next |-> nx, pre |-> pre]

VARIABLES
  pc,             \* [Threads -> Labels]: where each thread is in its code
  running,        \* currentThread, NoThread once the machine has halted
  ready,          \* Scheduler ready list, highest priority first
  status,         \* Thread::status
  started,        \* threads that have been switched to at least once
  toBeDestroyed,  \* threadToBeDestroyed
  destroyed,      \* Thread objects that have been deleted
  owner,          \* [Locks -> Threads \cup {NoThread}]: Lock::threadHeld
  waitq,          \* [Queues -> Seq(Threads)]: queue / waitQ of each primitive
  value,          \* [Sems -> Nat]: Semaphore::value
  preempts,       \* timer-driven yields so far
  prio            \* [Threads -> Int]: Thread::priority

synchVars == <<pc, running, ready, status, started, toBeDestroyed, destroyed,
               owner, waitq, value, preempts, prio>>
schedVars == <<running, ready, status, started, toBeDestroyed, destroyed>>

-----------------------------------------------------------------------------
(* Scheduler and List, whose code is not part of src/: the ready list and  *)
(* every wait queue are kept by List::SortedInsert with key -priority, so  *)
(* a thread goes after every thread of higher or equal priority.           *)

\* Mutation: List::Append instead of SortedInsert (priority ignored).
SortedInsertAppend(q, t) == Append(q, t)

SortedInsert(q, t) ==
  InsertAt(q, Cardinality({i \in 1..Len(q) : prio[q[i]] >= prio[t]}) + 1, t)

RECURSIVE InsertAll(_, _)
InsertAll(q, ts) ==
  IF ts = <<>> THEN q ELSE InsertAll(SortedInsert(q, Head(ts)), Tail(ts))

\* List::Remove: the head of a queue as a sequence of at most one thread.
First(q) == IF q = <<>> THEN <<>> ELSE <<Head(q)>>
Rest(q)  == IF q = <<>> THEN <<>> ELSE Tail(q)

\* Scheduler::ReadyToRun applied to the threads of ws, in order.
MakeReady(st, ws) == [u \in Threads |-> IF u \in ToSet(ws) THEN "Ready" ELSE st[u]]

(* Scheduler::Run(n): n becomes currentThread.  When n resumes inside Run  *)
(* (it ran before), Run deletes threadToBeDestroyed; a thread that starts  *)
(* fresh at ThreadRoot does not.  st is the status map and rq the ready    *)
(* list after this step, dying the threadToBeDestroyed it leaves.          *)
Dispatch(n, st, rq, dying) ==
  /\ running' = n
  /\ ready' = rq
  /\ status' = [st EXCEPT ![n] = "Running"]
  /\ started' = started \cup {n}
  /\ IF n \in started /\ dying # NoThread
     THEN destroyed' = destroyed \cup {dying} /\ toBeDestroyed' = NoThread
     ELSE destroyed' = destroyed /\ toBeDestroyed' = dying

(* Thread::Sleep: FindNextToRun; with nobody ready Interrupt::Idle finds   *)
(* no pending interrupt and halts the machine.                             *)
SleepSwitch(st, rq, dying) ==
  IF rq = <<>>
  THEN /\ running' = NoThread /\ ready' = rq /\ status' = st
       /\ toBeDestroyed' = dying /\ UNCHANGED <<started, destroyed>>
  ELSE Dispatch(Head(rq), st, Tail(rq), dying)

\* The running thread blocks on queue q: SortedInsert then Sleep.
BlockOn(t, q, wq, st, rq) ==
  /\ waitq' = [wq EXCEPT ![q] = SortedInsert(@, t)]
  /\ SleepSwitch([st EXCEPT ![t] = "Blocked"], rq, toBeDestroyed)

Goto(t, l) == pc' = [pc EXCEPT ![t] = l]

-----------------------------------------------------------------------------
(* One action per instruction.  Its guard includes the code's ASSERTs: a   *)
(* failing ASSERT aborts Nachos, so the step cannot be taken.              *)

(* Mutation: `if (value == 0) Sleep(); else value--;` -- a woken thread   *)
(* goes on without testing value again and without taking a unit.         *)
PNoRecheck(t) ==
  LET i == Prog[pc[t]]  s == i.a IN
  /\ i.op = "P"
  /\ IF value[s] = 0
     THEN BlockOn(t, s, waitq, status, ready) /\ Goto(t, i.next) /\ UNCHANGED value
     ELSE /\ value' = [value EXCEPT ![s] = @ - 1]
          /\ Goto(t, i.next)
          /\ UNCHANGED <<waitq, schedVars>>
  /\ UNCHANGED <<owner, preempts, prio>>

\* Semaphore::P (synch.cc 61-73)
P(t) ==
  LET i == Prog[pc[t]]  s == i.a IN
  /\ i.op = "P"
  /\ IF value[s] = 0
     THEN BlockOn(t, s, waitq, status, ready) /\ UNCHANGED <<value, pc>>
     ELSE /\ value' = [value EXCEPT ![s] = @ - 1]
          /\ Goto(t, i.next)
          /\ UNCHANGED <<waitq, schedVars>>
  /\ UNCHANGED <<owner, preempts, prio>>

\* Mutation: V increments value but leaves its waiter asleep on the queue.
VNoWake(t) ==
  LET i == Prog[pc[t]]  s == i.a IN
  /\ i.op = "V"
  /\ value' = [value EXCEPT ![s] = @ + 1]
  /\ Goto(t, i.next)
  /\ UNCHANGED <<waitq, schedVars, owner, preempts, prio>>

\* Semaphore::V (synch.cc 83-92): wake the first waiter, then value++
V(t) ==
  LET i == Prog[pc[t]]  s == i.a  w == First(waitq[s]) IN
  /\ i.op = "V"
  /\ waitq' = [waitq EXCEPT ![s] = Rest(@)]
  /\ ready' = InsertAll(ready, w)
  /\ status' = MakeReady(status, w)
  /\ value' = [value EXCEPT ![s] = @ + 1]
  /\ Goto(t, i.next)
  /\ UNCHANGED <<running, started, toBeDestroyed, destroyed, owner, preempts, prio>>

\* Lock::Acquire (synch.cc 133-147): sleep while held, then take it
Acquire(t) ==
  LET i == Prog[pc[t]]  l == i.a IN
  /\ i.op = "Acquire"
  /\ owner[l] # t
  /\ IF owner[l] = NoThread
     THEN /\ owner' = [owner EXCEPT ![l] = t]
          /\ Goto(t, i.next)
          /\ UNCHANGED <<waitq, schedVars>>
     ELSE BlockOn(t, l, waitq, status, ready) /\ UNCHANGED <<owner, pc>>
  /\ UNCHANGED <<value, preempts, prio>>

\* Mutation: Release takes the first waiter off the queue but never readies it.
ReleaseLockDrop(t, l, wq, st, rq) ==
  [owner |-> [owner EXCEPT ![l] = NoThread],
   waitq |-> [wq EXCEPT ![l] = Rest(@)],
   status |-> st,
   ready |-> rq]

\* Lock::Release (synch.cc 171-188): wake the first waiter, clear ownership
ReleaseLock(t, l, wq, st, rq) ==
  LET w == First(wq[l]) IN
  [owner |-> [owner EXCEPT ![l] = NoThread],
   waitq |-> [wq EXCEPT ![l] = Rest(@)],
   status |-> MakeReady(st, w),
   ready |-> InsertAll(rq, w)]

Release(t) ==
  LET i == Prog[pc[t]]  l == i.a  r == ReleaseLock(t, l, waitq, status, ready) IN
  /\ i.op = "Release"
  /\ owner[l] = t
  /\ owner' = r.owner /\ waitq' = r.waitq /\ status' = r.status /\ ready' = r.ready
  /\ Goto(t, i.next)
  /\ UNCHANGED <<running, started, toBeDestroyed, destroyed, value, preempts, prio>>

(* Condition::Wait (synch.cc 225-244), first half: release the lock, join  *)
(* waitQ and sleep, all with interrupts off.  The second half, the         *)
(* Acquire after waking, is the Acquire instruction at i.next.             *)
Wait(t) ==
  LET i == Prog[pc[t]]  c == i.a  l == i.b  r == ReleaseLock(t, l, waitq, status, ready) IN
  /\ i.op = "Wait"
  /\ owner[l] = t
  /\ owner' = r.owner
  /\ BlockOn(t, c, r.waitq, r.status, r.ready)
  /\ Goto(t, i.next)
  /\ UNCHANGED <<value, preempts, prio>>

\* Mutation: Signal takes the waiter off waitQ but never calls ReadyToRun.
SignalDrop(t) ==
  LET i == Prog[pc[t]]  c == i.a IN
  /\ i.op = "Signal"
  /\ owner[i.b] = t
  /\ waitq' = [waitq EXCEPT ![c] = Rest(@)]
  /\ Goto(t, i.next)
  /\ UNCHANGED <<schedVars, owner, value, preempts, prio>>

\* Condition::Signal (synch.cc 255-265): wake one waiter, or nothing
Signal(t) ==
  LET i == Prog[pc[t]]  c == i.a  w == First(waitq[c]) IN
  /\ i.op = "Signal"
  /\ owner[i.b] = t
  /\ waitq' = [waitq EXCEPT ![c] = Rest(@)]
  /\ ready' = InsertAll(ready, w)
  /\ status' = MakeReady(status, w)
  /\ Goto(t, i.next)
  /\ UNCHANGED <<running, started, toBeDestroyed, destroyed, owner, value, preempts, prio>>

\* Mutation: Broadcast wakes only the first waiter (an `if` for the `while`).
BroadcastOne(t) ==
  LET i == Prog[pc[t]]  c == i.a  w == First(waitq[c]) IN
  /\ i.op = "Broadcast"
  /\ owner[i.b] = t
  /\ waitq' = [waitq EXCEPT ![c] = Rest(@)]
  /\ ready' = InsertAll(ready, w)
  /\ status' = MakeReady(status, w)
  /\ Goto(t, i.next)
  /\ UNCHANGED <<running, started, toBeDestroyed, destroyed, owner, value, preempts, prio>>

\* Condition::Broadcast (synch.cc 277-290): wake every waiter, in order
Broadcast(t) ==
  LET i == Prog[pc[t]]  c == i.a IN
  /\ i.op = "Broadcast"
  /\ owner[i.b] = t
  /\ waitq' = [waitq EXCEPT ![c] = <<>>]
  /\ ready' = InsertAll(ready, waitq[c])
  /\ status' = MakeReady(status, waitq[c])
  /\ Goto(t, i.next)
  /\ UNCHANGED <<running, started, toBeDestroyed, destroyed, owner, value, preempts, prio>>

(* Thread::Fork(func, arg) (thread.cc 108-120): x will start at the       *)
(* label i.b (func) and goes on the ready list.                            *)
Fork(t) ==
  LET i == Prog[pc[t]]  x == i.a IN
  /\ i.op = "Fork"
  /\ status[x] = "JustCreated"
  /\ status' = [status EXCEPT ![x] = "Ready"]
  /\ ready' = SortedInsert(ready, x)
  /\ pc' = [pc EXCEPT ![t] = i.next, ![x] = i.b]
  /\ UNCHANGED <<running, started, toBeDestroyed, destroyed, owner, waitq, value, preempts, prio>>

(* Thread::Yield (thread.cc 368-381): take the next ready thread first,    *)
(* then put self back on the ready list and run the one taken.             *)
YieldTo(t, nx) ==
  IF ready = <<>>
  THEN Goto(t, nx) /\ UNCHANGED schedVars
  ELSE /\ Goto(t, nx)
       /\ Dispatch(Head(ready), [status EXCEPT ![t] = "Ready"],
                   SortedInsert(Tail(ready), t), toBeDestroyed)

Yield(t) ==
  LET i == Prog[pc[t]] IN
  /\ i.op = "Yield"
  /\ YieldTo(t, i.next)
  /\ UNCHANGED <<owner, waitq, value, preempts, prio>>

\* A timer interrupt at a point where interrupts were just re-enabled.
Preempt(t) ==
  /\ Prog[pc[t]].pre
  /\ preempts < MaxPreempt
  /\ ready # <<>>
  /\ YieldTo(t, pc[t])
  /\ preempts' = preempts + 1
  /\ UNCHANGED <<owner, waitq, value, prio>>

(* Thread::Finish, last two lines (thread.cc 195-196): become              *)
(* threadToBeDestroyed and Sleep for good.                                 *)
Die(t) ==
  /\ Prog[pc[t]].op = "Die"
  /\ Goto(t, Done)
  /\ SleepSwitch([status EXCEPT ![t] = "Blocked"], ready, t)
  /\ UNCHANGED <<owner, waitq, value, preempts, prio>>

\* Code whose control flow is not modelled: go on at any of the labels i.a.
Choose(t) ==
  LET i == Prog[pc[t]] IN
  /\ i.op = "Choose"
  /\ \E l \in i.a : Goto(t, l)
  /\ UNCHANGED <<schedVars, owner, waitq, value, preempts, prio>>

\* Thread::setPriority (thread.cc 244-246), called by a thread on itself
SetPriority(t) ==
  LET i == Prog[pc[t]] IN
  /\ i.op = "SetPriority"
  /\ prio' = [prio EXCEPT ![t] = i.a]
  /\ Goto(t, i.next)
  /\ UNCHANGED <<schedVars, owner, waitq, value, preempts>>

\* A step of the running thread through a primitive of this module.
SynchStep(t) ==
  \/ P(t) \/ V(t) \/ Acquire(t) \/ Release(t) \/ Wait(t) \/ Signal(t)
  \/ Broadcast(t) \/ Fork(t) \/ Yield(t) \/ Preempt(t) \/ Die(t) \/ Choose(t)
  \/ SetPriority(t)

\* The machine has halted: nothing runs any more.
Halted == running = NoThread /\ UNCHANGED synchVars

SynchInit ==
  /\ pc = Start
  /\ running = Main
  /\ ready = <<>>
  /\ status = [t \in Threads |-> IF t = Main THEN "Running" ELSE "JustCreated"]
  /\ started = {Main}
  /\ toBeDestroyed = NoThread
  /\ destroyed = {}
  /\ owner = [l \in Locks |-> NoThread]
  /\ waitq = [q \in Queues |-> <<>>]
  /\ value = InitValue
  /\ preempts = 0
  /\ prio = InitPriority

-----------------------------------------------------------------------------
SynchTypeOK ==
  /\ pc \in [Threads -> Labels]
  /\ running \in Threads \cup {NoThread}
  /\ ready \in Seq(Threads)
  /\ status \in [Threads -> Status]
  /\ started \subseteq Threads
  /\ toBeDestroyed \in Threads \cup {NoThread}
  /\ destroyed \subseteq Threads
  /\ owner \in [Locks -> Threads \cup {NoThread}]
  /\ waitq \in [Queues -> Seq(Threads)]
  /\ value \in [Sems -> Nat]
  /\ preempts \in 0..MaxPreempt
  /\ prio \in [Threads -> Int]

\* A thread that has finished its code or has been deleted.
Finished(t) == pc[t] = Done

(* Every blocked thread that has not finished sits in exactly one wait     *)
(* queue, once: otherwise no Release, V, Signal or Broadcast can ever make *)
(* it ready again and it is lost.  Relates Thread::status, set by Sleep,   *)
(* to the queues that SortedInsert and Remove maintain in synch.cc.        *)
BlockedThreadsWakeable ==
  \A t \in Threads : status[t] = "Blocked" /\ ~Finished(t) =>
     LET at(q) == {k \in 1..Len(waitq[q]) : waitq[q][k] = t} IN
     /\ Cardinality({q \in Queues : at(q) # {}}) = 1
     /\ \A q \in Queues : Cardinality(at(q)) <= 1

(* The machine halts (Sleep with an empty ready list) only when every      *)
(* thread that was forked has finished: no thread is left asleep with      *)
(* nobody to wake it, i.e. no lost wakeup and no deadlock.                 *)
NoStrandedThreads ==
  running = NoThread => \A t \in Threads : status[t] = "JustCreated" \/ Finished(t)
=============================================================================
