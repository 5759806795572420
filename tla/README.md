# TLA+ models of nachOS

This directory holds TLA+ specifications of the nachOS kernel in `src/code`, and the TLC
configurations that check them. These parts are modelled:
- the uniprocessor thread core;
- the synchronisation primitives;
- the join protocol;
- the Mailbox built on those primitives;
- demand paging with a CoreMap and a backing store, and Fork2's stack pages;
- the process layer of the system calls: the process Table, Pipes, Exec, Join, Exit, and Read and Write on a pipe.

`PROJECT.json` lists:
- every component and its status;
- every run and what it checks;
- the mutants that show each property can fail;
- the map from each TLA+ definition to the source lines it translates;
- the findings;
- the hazards of the code.

## The system

| Part | Source | Role |
|---|---|---|
| Threads | `threads/thread.cc` | `Fork`, `Yield`, `Sleep`, `Finish`, `Join`. `Finish` of a joinable thread runs a handshake on the thread's own `Lock` and `Condition` with the thread calling `Join`. |
| Scheduler and interrupts | outside `src/` | Ready list kept by `List::SortedInsert` with key `-priority`. `Scheduler::Run` deletes `threadToBeDestroyed` after each switch. With `-rs`, the timer calls `Yield` whenever interrupts are re-enabled. |
| Synchronisation | `threads/synch.cc` | `Semaphore` P/V, `Lock` Acquire/Release and `Condition` Wait/Signal/Broadcast, all with priority-sorted wait queues. Also `Mailbox` and `Whale`. |
| Thread tests | `threads/threadtest.cc` | Priority tests for Lock, Semaphore and Condition; the Signal-lost and Broadcast tests; the Joiner/Joinee tests. |
| Memory | `userprog/addrspace.cc` | `MemoryManager` is a frame bitmap under a Lock. `CoreMap` is the linked list of resident pages, with FIFO or second-chance eviction. `BackingStore` is a per-space swap file with a bitmap of the pages written. `AddrSpace::allocVirtualPage` loads a page on demand. |
| System calls | `userprog/exception.cc` | `ExceptionHandler` handles the PageFault path and `Yield`, `Exit`, `Exec`, `Join`, `Fork`, `Read` and `Write`. It also holds `Pipe` and the `Table` used for process ids. |
| Console | `userprog/SynchConsole.cc` | `SynchConsole` wraps the Console device (not in the repository) with a semaphore per direction. `PutChar` starts a write and sleeps on `w` until the write interrupt's handler V's it. `GetChar` sleeps on `r` until the poll interrupt has taken a typed character in. `Read2` and `Write2` use it when the process has no Pipe on that side, under the static `ReadLock` and `WriteLock`. |

The parts interact as follows:
- A page fault takes the `MemoryManager` lock.
- The lock's `Release` re-enables interrupts, so a timer tick can switch threads in the middle of the fault handler.
- `Join2` builds on `Thread::Join`, which builds on `Lock` and `Condition`, which build on the scheduler.
- `Exec2` wires a new process to a Pipe through the static `freePipe`, then takes a `storeTable` slot, then Forks the process, then takes a `TablePtr` slot. Its SpaceId is that slot + 1.
- A console `Write2` sleeps inside `SynchConsole::PutChar` after every character, so other processes run in the middle of it; only `WriteLock` keeps two lines apart.
- `SysCallExit` closes the process's pipe ends and sets its join value. It then releases its `TablePtr` slots and calls `Finish`, whose join handshake waits for `Join2`.

## Modules

| Module | Models | State ↔ code |
|---|---|---|
| `Synch` | `thread.cc` Fork/Yield/Sleep and the end of Finish; `synch.cc` Semaphore, Lock, Condition; the scheduler (from the spec) | `pc` is each thread's position in its code. `running` is `currentThread`. `ready` is the ready list. `status` is `Thread::status`. `toBeDestroyed` is `threadToBeDestroyed`. `owner` is `Lock::threadHeld`. `waitq` is each primitive's queue. `value` is `Semaphore::value`. `prio` is `Thread::priority`. `preempts` counts timer yields. |
| `ThreadLifecycle` | `Thread::Finish` (165-198) and `Thread::Join` (217-233) | The code is expressed as instructions for `Synch`. `readyToJoin` is `Thread::readyToJoin`. |
| `ThreadJoin` | Join2 (`exception.cc` 628-648) used the way `threadtest.cc` Joiner/Joinee use it, with one or two joiners | Main forks the joinable Child, joins it and reads the join value; in the two-joiner instance a second thread joins Child too. |
| `ThreadTests` | The drivers of `threadtest.cc` that end with every thread finished: the priority tests, the condition tests (BroadCastWakesAll, Signal_Lost, BroadCast_Lost), ThreadTest1, LockTest1 and the join tests (ForkerThread with Joiner/Joinee, TestThatParentsBlocking with BusyWork, TestTerminatesOnlyWhenJoinCalled) | Main picks one test (the `switch (testnum)` of `ThreadTest`). The mailbox tests come from `MB == INSTANCE Mailbox`: the two modules share the `Synch` state, Mailbox's variables are ThreadTests' own, and the two code tables are merged (an ASSUME checks that they agree on shared labels). Each driver and each kid function is an operator that builds its code. `served` is a ghost that records the order in which the kids print that they got through. `Joinee` is the one joinable thread; `InJoin` says that a thread is inside `Joinee->Join()`. |
| `Mailbox` | `Mailbox` constructor, `Send` (502-519) and `Receive` (534-552) in `synch.cc`; the Simple, MultiSendersWaiting and MultiReceiveWaiting tests of `threadtest.cc` | `receivePres`, `buffer` and `bufferRead` are the Mailbox's fields. The lock and the conditions `sendWait` and `receiveWait` are primitives of `Synch`. A message is the identity of its sender. The ghosts `sent` and `got` record the messages put and the messages returned. |
| `Whale` | `Whale` constructor, `Male` (365-388), `Female` (400-423), `Matchmaker` (435-459), `resetAll` (339-353) and the destructor's ASSERTs in `synch.cc`; `WhaleTest` of `threadtest.cc` | The three methods are one code with the kind as a parameter. `count` and `found` are `maleCount`/`femaleCount`/`matchmakerCount` and the three `*Found` flags. The lock and the three conditions are primitives of `Synch`. |
| `Paging` | The PageFault branch of `ExceptionHandler` (796-817); `MemoryManager`; `CoreMap`; `BackingStore::pageOut`/`pageIn`/`contains`; `allocVirtualPage` | `frames` is the bitmap. `pt` is the page tables. `mem` is the frame contents. `swapped`/`swap` are the backing-store bitmap and file. `cmHead`, `cmTail`, `cmSize` and `cmNext`/`cmRec` are the CorePage list over node ids, with `cmLive` the nodes not yet deleted. `victim`/`found`/`faultVpn` are locals of the handler. `numPages` is `AddrSpace::numPages`. `newTable` and `stackJ` are the new table and the cleanup index of `allocateThreadSpace` (`addrspace.cc` 370-413), which Fork2 (`exception.cc` 670-689) calls. |
| `Syscall` | `Table` (`exception.cc` 45-106); `Pipe` (115-190); `SysCallExit` (237-278); `Exec2` (341-491); `Read2`/`Write2` (513-618), both the pipe and the console branches; `Join2` (628-647); `ForkedThread`, `Fork2` and `Yield2` (649-697); the tables of `StartProcess` (`progtest.cc`); `SynchConsole` and its interrupt handlers | `procTab` is `TablePtr`. `stores` counts the `storeTable` slots in use. `pipeValue`, `inPipe`, `outPipe` and `joinValue` are the Thread fields. `freePipe` is the static. `pipe[p]` holds a Pipe's `size`, `start`, `end`, `buffer`, `inOpen` and `outOpen`. `deleted` is the set of Pipes `delete`d. The ghosts `got`, `sid` and `jres` record what each Read returned, the SpaceId Exec returned, and what Join2 returned. The console device is `putBusy` and `incoming` (Console's fields) and `inPos` (how much of `Input` has been typed in). The ghosts `conOut` and `conIn` are what was printed, as (process, index in its Write2) pairs, and what each `GetChar` returned. `r` and `w` are semaphores of `Synch`, and `ReadLock` and `WriteLock` are locks of `Synch`. The device interrupts are the actions `WriteDone` and `ReadAvail`. They fire when interrupts are on, that is, where a timer tick could fall or while the CPU idles. When the CPU was idle, the woken thread is run. A process may Fork2 the Threads of `Forks` (constant). Such a Thread shares its parent's AddrSpace (`SpaceOf`), and SysCallExit's slot loop releases every slot of that AddrSpace. Fork2's `allocateThreadSpace` either succeeds or fails (`ForkSpace`), because memory is modelled in `Paging`, not here. |
| `PipeChannel` | What a Pipe promises (abstract) | A bounded FIFO `chan` with an `open` write end and the sequence `recvd` of what reads delivered. `Syscall` maps each Pipe's ring buffer onto it. |
| `MC_*` | TLC instances | Model values and the code tables, defined once so that TLC caches them. |

### How Synch executes code

`Synch` is an interpreter:
- `Prog` maps a label `<<thread, name>>` to `Instr(op, a, b, next, pre)`.
- One step of the running thread executes one instruction. That step is an atomic stretch of the C++: a stretch with interrupts off, or one ending at a context switch.
- A thread that blocks re-executes its instruction when it is woken, as the `while` loops of `P`, `Acquire` and `Finish` do.
- `Preempt` models a timer tick calling `Yield`. It is allowed only at labels whose `pre` flag says the code has just re-enabled interrupts, and at most `MaxPreempt` times.
- An `ASSERT` of the code is a guard. If it fails, the thread cannot step, and TLC reports a deadlock. That is the same outcome as the abort.

The user-program and fault-handler code of `Paging` is such a program too (`FaultCode`):
- `IsFull`, `Evict`, `PageOut`, then `Clear` and `Delete` inside FreePage's lock;
- `Find` inside AllocPage's lock;
- `MapPage`, which is `allocVirtualPage`, including `addCorePage` and the page load.

`Syscall`'s code is a program for the same interpreter:
- The shell (`Main`) nondeterministically picks one list of `Tests` (`Exec c`, `Join c`) and then Exits.
- Each child does `Reads[c]` one-character `Read`s, then `Write`s each character of `Writes[c]`, then Exits. This is the loop of `consume.c` and `produce.c`.
- Pipe::Read and Pipe::Write are `Acquire`, the `while` test (`PRTest`/`PWTest`), `Wait`, the ring-buffer step (`PRTake`/`PWPut`), `Broadcast` and `Release`.
- Which Pipe a process uses, and which Thread a SpaceId names, are known only at run time. So the code has one copy per Pipe (or per Thread), and `PipeSel`/`JoinTarget` branch to the right copy.
- A `Table` method holds the table's lock for the whole call and cannot block, so each call is one atomic step.
- `storeTable` is a count, because nothing ever releases a slot of it.

Other modelling choices in `Paging`:
- Page contents are abstracted to `"img"`, `"zero"` and `"w"`, the last written by a store. The ghost `shadow` is what the program last stored in each page.
- `new CorePage` may return the lowest free node id, or any deleted id that a stale pointer still names. This covers what the allocator can do while keeping the state space small.
- `allocateThreadSpace`'s cleanup reads `pageTable[j]` past the end of the old table. That read is undefined, so its value is any frame number. An out-of-range one would fail `BitMap::Clear`'s ASSERT.

## Refinement

`PipeChannel` is the abstract specification of a Pipe: `Put` appends a character if fewer than `Capacity` are held, `Get` delivers the oldest one, and `ReadEnd` delivers end-of-stream when the channel is empty and the write end is closed. In `Syscall`, `Channel(p)` instantiates it with
`chan <- Ring(p)` (the characters between `start` and `end` of the ring buffer, oldest first), `recvd <- got[p]` and `open <- pipe[p].outOpen = 1`.
`PipeIsFifo` states that every step of `Syscall` is a step of `PipeChannel` for every Pipe. Because TLC does not accept `\A p : Channel(p)!Spec`, it is written as each Channel's `Init` and a box over the conjunction of the Channels' next-state relations.

## Runs

| Run | Expect | What it shows |
|---|---|---|
| `ThreadJoin_twojoin` | violation | `SingleJoiner`: Main and a second thread both join Child. Main takes Child's lock in Join and a tick preempts it before `readyToJoin = 1`. The second thread then passes `ASSERT(readyToJoin == 0)`, and both are inside Join. |
| `ThreadTests_all` | pass | Fourteen drivers of `threadtest.cc`, under up to two preemptions. The semaphore used as a lock keeps mutual exclusion, and everyone finishes, including after a lost Signal or Broadcast. In behaviours without a tick, the kids get through in priority order (`ServedInPriorityOrder`). In the join tests, whether the joinee is still busy (BusyWork), runs beside its joiner (ForkerThread) or finished long before (noOpStub), Join returns only after the joinee has left Finish's loop (`JoinWaitsForFinish`), and the joinee is not deleted while its joiner is still inside Join (`NotDeletedInsideJoin`). The three mailbox tests (Simple, MultiSendersWaiting, MultiReceiveWaiting, with two messages) run here too, through the `Mailbox` instance: every Send and Receive returns, which `AllThreadsFinish` covers, and `TypeOK` catches a Receive that leaves `bufferRead` set. The `MultiYield(40)` between their forks lets each Send pair with one Receive, so two Sends never race for the buffer here; `Mailbox_anyorder` drops those yields. |
| `Mailbox_anyorder` | violation | `MailboxCallsReturn`: when two senders and two receivers are forked back to back, one sender and one receiver can sleep for ever. |
| `Whale_preempt` | pass | Under up to two ticks, either WhaleTest (four of each kind, forked in its order) or a client that forks two of each kind in any order. No call is left asleep, and `delete whale` finds every condition empty (`WhaleCallsReturn`). `TypeOK` keeps each `found` flag at 0 or 1, which the test `maleFound && femaleFound && matchmakerFound` relies on. |
| `Paging_fifo` | pass | FIFO replacement with two processes and two frames, no preemption. The CoreMap list matches the resident pages. Frame bookkeeping is exact. Every page reads back what was last stored. `TypeOK` is not checked here: in this run no Find meets a full bitmap and no addCorePage a full CoreMap, so no plausible bug of the code could break it. |
| `Paging_fork` | violation | `FrameAccounting`: a thread Forks while frames run out. `allocateThreadSpace`'s cleanup frees a frame through a read past the old page table, and that frame is still mapped by the code page. |
| `Paging_lrutail` | violation | `CoreMapTracksResident`: the second-chance walk unlinks the tail record and leaves `tail` dangling. |
| `Paging_preempt` | violation | `FrameAccounting`: a tick inside the fault handler makes the `isFull()` test stale, so `AllocPage` returns -1 and a page is mapped to frame -1. |
| `Syscall_pipe` | pass | No timer ticks; the shell runs one of three lists: `w \| r`, `w \| f \| r`, or Exec and Join of a joinable, an unjoinable and a no-pipe child until `storeTable` is full. Each Pipe refines `PipeChannel` (`PipeIsFifo`). The reader receives the writer's characters in order, then only end-of-stream (`PipeDeliversWrites`). Join2 returns the exit status, or -65535 exactly for a failed Exec or an unjoinable child (`JoinReturnsStatus`). No process sleeps on a pipe whose other end is closed. No deleted Pipe is reachable (`NoDanglingPipe`). A fourth list Execs `j` and `x` together, both reading and writing the console. Each console Write2 comes out whole and in order (`ConsoleWritesWhole`). Every `GetChar` returns the typed characters once each and in order (`ConsoleReadsInput`). Every console PutChar and GetChar gets past its P on `w` or `r` (`ConsoleCallsReturn`, liveness). The run makes no claim that every process exits: see the failed-Exec finding below. A fifth list Execs `a`, which Fork2s `b` as `forktest.c`'s main does. Then both write to the console, and `a` Yields and Exits. |
| `Syscall_joinexit` | violation | `JoinReturnsStatus`: a joinable child that Exits before the shell Joins it has released its own `TablePtr` slot, so Join2 returns -65535. |
| `Syscall_fork` | violation | `ForkedThreadsFinish`: the fifth list alone. `b` runs its function and Exits, then waits in `Finish` for ever. Fork2 made it joinable, and nothing can Join it. |
| `Syscall_eof` | violation | `NoSleeperOnClosedPipe`: with one tick, the reader waits on an empty pipe and the writer then Exits. The Exit closes the write end without a Broadcast, so the reader sleeps for ever. |

Each property of a passing run has a mutant in `PROJECT.json`: a plausible bug in the mapped code that TLC catches. Examples are a P that does not re-test `value` after waking, a Receive that does not reset `bufferRead`, `maleFound++` in place of `maleFound = 1`, a Signal that drops the woken thread, `Append` in place of `SortedInsert`, `pageOut` that does not mark the swap bitmap, AllocPage that does not mark the frame, a Pipe::Write whose `end` does not wrap or wraps one slot early, a console write interrupt that never calls its handler, and Join2 looking up `TablePtr->Get(id)` instead of `id - 1`.

## Findings

The eight violation runs are described in `PROJECT.json`. Seven are code bugs, and one is a divergence between the code and its contract:
1. **Dangling tail.** `addrspace.cc:797` unlinks the tail record without moving `tail`. The next `addCorePage` writes through the deleted record, and that page is never evictable again.
2. **Stale isFull.** `exception.cc:801` tests `isFull()` before `AllocPage`, and a tick can make that test stale. Then `allocVirtualPage` (`addrspace.cc:166`) maps the page to frame -1 without checking.
3. **Fork2 cleanup frees the wrong frames.** `addrspace.cc:389` frees `pageTable[j]` for `j >= numPages`, past the end of the old table, instead of `newTable[j]`. It can free a frame that is still mapped, and the frames just taken leak.
4. **Mailbox lost wakeup.** `synch.cc:548` empties the buffer without `sendWait->Signal`. A Send that found the buffer full is then never woken, although a Receive is waiting for it. This contradicts the contract in `synch.h` 215-231. The tests of `threadtest.cc` never reach this, because they yield 40 times between forks.
5. **Exit forgets its SpaceId.** `exception.cc:265` releases the process's `TablePtr` slot at Exit. A parent that Joins a joinable child after the child exited gets -65535, and the child waits in `Finish` for a Join that never comes.
6. **Exit closes a pipe silently.** `exception.cc:244` (and 251) clears `inOpen`/`outOpen` without the pipe's lock or a Broadcast. A reader already waiting never sees end-of-stream.
7. **Double Join is not always rejected.** `thread.cc:218` checks `readyToJoin == 0` before `lock->Acquire()`, and sets it only after. The comment at `thread.cc` 206 and the spec say that a second Join is fatal. With a tick after the first joiner's Acquire, a second joiner gets in as well.
8. **Forked threads never finish.** `exception.cc:681` creates the forked Thread with `join = 1`. The Fork system call returns nothing that a user program could Join. So every forked thread that Exits loops in `Thread::Finish`, and it is never destroyed. A forked thread's Exit also releases its parent's `TablePtr` slot (`exception.cc:264`), because the slot loop compares AddrSpaces.

Earlier sittings also found problems that no current run shows:
- A failed Exec leaves its pipe end open (`exception.cc:442`). Exec2 returns 0 when `storeTable->Alloc` fails, but it has already set `inOpen` or `outOpen` for the Thread it never starts (378-420). It undoes neither. The other end's Write then waits for ever once the buffer is full. With `TableSize = 2` in `Syscall_pipe.cfg`, the liveness property `<>(every non-forked Thread is JustCreated or Finished)` is violated in `w | r`. No run of the project keeps this: the runs are at their limit, and `Syscall_pipe` uses `TableSize = 4`, where both pipeline Execs succeed. The spec says an aborted operation releases its partial allocations.
- Join2 reads the join value of a Thread that `Scheduler::Run` may already have deleted (`exception.cc:644`). `Syscall`'s `ReadJoin` models that read.
- Whale's wait loops let a second call of a kind through (`synch.cc:446`).

These runs were retired to keep the number of runs at twelve. `PROJECT.json` lists them as hazards, each with a note.

## Bounds

**Threads.**
- The mailbox runs use two senders and two receivers in place of the tests' six. Two of each are enough for a Send to wait on a full buffer while a second Receive waits. The any-order client tries all 24 fork orders.
- Whale: WhaleTest's twelve whales in its fork order, and two of each kind in any order. Two of each kind is the fewest that lets a second call of one kind arrive while a group forms.
- Two or three threads, with one Lock and one Condition per thread, as `Thread` has.
- `BusyWorkParam = 2` in place of TestThatParentsBlocking's 20. Main blocks in Join before the joinee has done any of its Yields, so a longer BusyWork only repeats the same Yield; four Yields leave room for both ticks to fall inside BusyWork.
- The join tests' Yield counts are the code's (4 and 4 in Joiner, 7 in Joinee), so that either thread can reach the handshake first.
- Three kids in the priority tests, so that both orders, and ties, are possible. Priorities come from the fork index, as in the code.
- Up to two preemptions. One is enough for each violation found. Two let a tick fall at each of two threads' critical points.

**Paging.**
- Two processes, two virtual pages each, and two frames. With these numbers the CoreMap fills up, every fault after that evicts, and an evicted page is faulted back in both clean and dirty.
- `MaxAccess = 6` user steps per behaviour. That is enough for fill, evict, write-back and reload.
- `MaxNodes = 4` CorePage ids. That is more than the at most three records live at once.
- The tail bug needs the second-chance walk to reach a record past the head, which happens within these bounds at depth 19.
- Fork2 (`Paging_fork`): one space with four virtual pages, two of code and data and two of stack (`StackPages = 2`), over two frames. With two stack pages, AllocPage can fail after one page succeeds, which the cleanup loop needs.

**Syscall.**
- `Capacity = 2`, against `PIPE_SIZE = 128`. Three characters through a two-slot ring make the writer wait on a full pipe, make both indices wrap, and make `start == capacity` happen before Read resets it.
- `TableSize = 4`, against `MAXPROCESS = 14`. The third test runs four Execs after the shell's own slot, so the last one finds `storeTable` full. The fork test needs three slots: the shell, `a` and `b`.
- Two Pipes, enough for `w | f | r`. Seven threads: the shell and six children.
- Console: `j` writes two characters and `x` one, and each reads one of the two typed characters. Two characters are the fewest for which a second writer can get between them. Two readers with one character each contend for `r`.
- `Syscall_pipe` has no ticks. With a tick, the two bugs above make the run fail, and each has its own violation run.

## Fairness

Every specification uses `WF_vars(Next)`. On a uniprocessor the CPU always executes `currentThread`, and `Interrupt::Idle` halts only when the ready list is empty. So as long as some step is enabled, one is taken. In `Syscall` this also covers the console's interrupts: the device delivers a scheduled write interrupt, and polls for input, for as long as Nachos runs.

No fairness is assumed for `Preempt`: timer ticks are bounded and optional, which means a behaviour with no ticks is always included.

Deadlock checking is on in every run.

## What is not modelled

- **The Whale crash tests.** Deleting a Whale with a waiter is the destructor's ASSERT, and it is covered by `WhaleCallsReturn`.
- **The Mailbox destructor and the tests that expect a crash.** `MailBoxMixedSendAndReceive` uses ten messages; its pattern is covered by the other tests and by the any-order client.
- **Exec2's file and argument handling, and the failures of `AddrSpace::Initialize` and `BackingStore::Initialize`.** These are file and memory I/O. Exec2's failure after `storeTable->Alloc` is modelled.
- **`setThreadCount`.** `Syscall` leaves it out: its only reader is the commented-out `delete space` in SysCallExit.
- **The uninitialised `pipeValue` of a forked Thread.** The model takes it as 0. The other values crash on a NULL Pipe.
- **The window between Exec2's Fork and `TablePtr->Alloc`.** `Syscall` has a tick point there, but `Syscall_pipe` has no ticks, so this window is never exercised.
- **`CoreMap::evictAll`.** Its only call, at `exception.cc:271`, is commented out.
- **`MemoryManager::PageIsAllocated`.** It is never called.
- **`BackingStore::Initialize` and `ConsoleTest` (`progtest.cc`).** These are file I/O at boot.
- **The `return -1` after two failed `ReadMem`/`WriteMem` inside the console loops of Read2/Write2.** It returns with `WriteLock` (or `ReadLock`) still held. It needs a page evicted between the fault and the retry, so it needs `Paging` composed with `Syscall`. It is listed as a hazard.
- **The bad-address and wrong-`id` early returns of Read2/Write2.** The model's calls are always valid.
- **Register set-up, argument staging and stack allocation.** These are machine-level.
- **The misuse tests of `threadtest.cc`.** The lock, condition, join and mailbox misuse tests are meant to abort on an ASSERT. The ASSERTs are the guards of the modelled operations.
- **`Condition_Test_Signal_WakesUpOne` and `Condition_Test_GivesUpLockInWait`.** They leave threads waiting by construction, so every thread finishing cannot be asked of them. GivesUpLockInWait signals before its helper has waited, so without a tick the helper waits for ever. That is listed as a hazard.
- **`task` and `multiTask`.** They only print and are forked by no test.
- **The MIPS test programs in `test/*.c`.** They are abstracted in two ways. In `Paging` they are a user program of loads, stores, yields, forks and exit. In `Syscall`, `produce.c`/`consume.c` are a number of Reads then Writes, `forktest.c` is a Fork2, a Write2 in each thread and a Yield2, and the shell is modelled from the spec.

## Plan

1. **An abstract frame-allocator specification,** with `Paging` shown to refine it in the fault-free configurations.
