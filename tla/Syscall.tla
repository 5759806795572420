------------------------------- MODULE Syscall -------------------------------
(***************************************************************************)
(* The process layer of userprog/exception.cc: the process Table, the      *)
(* Pipe, and the system calls Exec, Join, Exit, and Read and Write on a    *)
(* pipe, as code for the interpreter of Synch with the Join and Finish of  *)
(* ThreadLifecycle.  Main is the shell: it runs one of the command lists   *)
(* of Tests (Exec a child, Join a child) and exits.  Each child process    *)
(* reads its input, writes its output, and exits; an end without a Pipe   *)
(* is the console (SynchConsole, driven by the Console device's            *)
(* interrupts).                                                            *)
(*                                                                         *)
(* A Table method holds the table's lock for the whole call, and nothing   *)
(* inside it can block, so each call is one atomic step; a tick may fall   *)
(* after it.  Each Exec'd process has its own AddrSpace; a process may    *)
(* Fork2 threads (Forks) that share it, run a user function that writes   *)
(* to the console and Exit.  `temp->space == space` in SysCallExit holds   *)
(* for every Thread of the same AddrSpace (SpaceOf).                       *)
(***************************************************************************)
EXTENDS ThreadLifecycle

CONSTANTS
  Procs,       \* the Threads that Exec creates, one per Exec
  Policy,      \* [Procs -> 0..7]: Exec's willJoin (bit 0 join, 1 out, 2 in)
  ExitStatus,  \* [Threads -> Int]: the status each process passes to Exit
  Forks,       \* [Procs -> Seq(Threads)]: the Threads a process Fork2s, in order
  Reads,       \* [Spawned -> Nat]: characters a process reads from its pipe
  Writes,      \* [Spawned -> Seq(Chars)]: characters it then writes to its pipe
  Chars,       \* characters (never 0, the value of an emptied slot)
  Pipes,       \* Seq of the Pipe objects `new Pipe` returns, in order
  NoPipe,      \* model value: the NULL Pipe*
  PipeLock,    \* [Pipe -> Locks]: Pipe::bufferLock
  PipeCV,      \* [Pipe -> Conds]: Pipe::bufferCV
  Capacity,    \* PIPE_SIZE
  TableSize,   \* MAXPROCESS, the size of TablePtr and storeTable
  Tests,       \* Seq of the shell's command lists: <<"exec", c>>, <<"join", c>>
  None,        \* model value: a Join the shell has not made yet
  Stale,       \* model value: a value read from a deleted Thread
  ReadLock,    \* the static ReadLock of exception.cc
  WriteLock,   \* the static WriteLock of exception.cc
  ConR,        \* SynchConsole::r, V'd when a character has arrived
  ConW,        \* SynchConsole::w, V'd when a character has been written
  Input        \* Seq(Chars): what is typed at the console, in order

EOF == 1000000             \* what Pipe::Read returns at end of stream
JoinError == -65535        \* what Join2 returns when it cannot join
Pipe == ToSet(Pipes)
Slots == 0 .. TableSize - 1
Bit(n, k) == (n \div (2 ^ k)) % 2 = 1
NoChar == -1               \* Console::incoming when no character is waiting (EOF)
ForkedThreads == UNION {ToSet(Forks[c]) : c \in Procs}
Spawned == Procs \cup ForkedThreads    \* the Threads that run user code
ForksOf(t) == IF t \in Procs THEN Forks[t] ELSE <<>>
\* Thread::space: a forked Thread has its parent's AddrSpace (Fork2).
SpaceOf(t) == IF t \in ForkedThreads THEN CHOOSE c \in Procs : t \in ToSet(Forks[c]) ELSE t

ASSUME Procs \subseteq Threads \ {Main} /\ Chars \subseteq Nat \ {0}
ASSUME \A c \in Procs : Joinable[c] = Bit(Policy[c], 0)
ASSUME ForkedThreads \cap (Procs \cup {Main}) = {}
\* new Thread("Forked Thread", 1) in Fork2: every forked Thread is joinable.
ASSUME \A k \in ForkedThreads : Joinable[k]

VARIABLES
  procTab,     \* TablePtr: [Slots -> Threads \cup {NoThread}]
  stores,      \* storeTable slots in use (storeTable is never released)
  pipeValue,   \* [Threads -> 0..7]: Thread::pipeValue
  inPipe,      \* [Threads -> Pipe \cup {NoPipe}]: Thread::inPipe
  outPipe,     \* [Threads -> Pipe \cup {NoPipe}]: Thread::outPipe
  joinValue,   \* [Threads -> Int \cup {None}]: Thread::joinValue
  freePipe,    \* the static freePipe
  nPipes,      \* how many Pipes `new Pipe` has made
  pipe,        \* [Pipe -> record]: size, start, end, buffer, inOpen, outOpen
  deleted,     \* Pipes that `delete` has freed
  got,         \* [Pipe -> Seq]: what each Pipe::Read returned, in order
  sid,         \* [Procs -> Int]: the SpaceId Exec returned to the shell
  jres,        \* [Procs -> Int \cup {None, Stale}]: what Join2 returned
  putBusy,     \* Console::putBusy: a character is being written
  conOut,      \* Seq of <<process, k>>: the k-th character of its Write2, as printed
  incoming,    \* Console::incoming: the character typed and not yet taken, or NoChar
  inPos,       \* how many characters of Input the Console has taken in
  conIn        \* Seq: what each Console::GetChar returned, in order

sysVars == <<procTab, stores, pipeValue, inPipe, outPipe, joinValue, freePipe,
             nPipes, pipe, deleted, got, sid, jres>>
conVars == <<putBusy, conOut, incoming, inPos, conIn>>
vars == <<lifeVars, sysVars, conVars>>

NewPipe == [size |-> 0, start |-> 0, end |-> 0, inOpen |-> 0, outOpen |-> 0,
            buffer |-> [k \in 0 .. Capacity - 1 |-> 0]]

\* The characters in the ring, oldest first: Read wraps start before use.
Ring(p) ==
  LET b == pipe[p]  s == IF b.start = Capacity THEN 0 ELSE b.start IN
  [k \in 1 .. b.size |-> b.buffer[(s + k - 1) % Capacity]]

-----------------------------------------------------------------------------
(* The code.  Labels are <<thread, name>>; a name built from a number, as  *)
(* in "r2p1A", is a copy of a statement for the 2nd character and the 1st  *)
(* Pipe: the pipe a process uses is only known once Exec has wired it, so  *)
(* the code has one copy per Pipe and PipeSel branches to the right one.   *)

N(s, k) == s \o ToString(k)

(* Pipe::Write(ch) (exception.cc 168-190) on the j-th Pipe, as the k-th    *)
(* character of Write2's loop (exception.cc 604-617).                      *)
PipeWriteAt(t, k, ch, j, then) ==
  LET L(s) == <<t, N(N("w", k) \o "p", j) \o s>>  p == Pipes[j]
      lk == PipeLock[p]  cv == PipeCV[p] IN
     (L("A") :> Instr("Acquire",   lk, lk, L("T"), FALSE))
  @@ (L("T") :> Instr("PWTest",    p, [put |-> L("P"), wait |-> L("W"), fail |-> L("F")],
                                   L("P"), FALSE))
  @@ (L("W") :> Instr("Wait",      cv, lk, L("a"), FALSE))
  @@ (L("a") :> Instr("Acquire",   lk, lk, L("T"), TRUE))
  @@ (L("P") :> Instr("PWPut",     p, ch, L("B"), FALSE))
  @@ (L("B") :> Instr("Broadcast", cv, lk, L("R"), FALSE))
  @@ (L("R") :> Instr("Release",   lk, lk, then, FALSE))
  @@ (L("F") :> Instr("Release",   lk, lk, then, FALSE))

(* Mutation: Pipe::Read without its bufferCV->Broadcast, so a writer      *)
(* waiting on a full Pipe is never told that a slot came free.             *)
PipeReadAtNoBroadcast(t, k, j, then) ==
  LET L(s) == <<t, N(N("r", k) \o "p", j) \o s>>  p == Pipes[j]
      lk == PipeLock[p]  cv == PipeCV[p] IN
     (L("A") :> Instr("Acquire",   lk, lk, L("T"), FALSE))
  @@ (L("T") :> Instr("PRTest",    p, [take |-> L("P"), wait |-> L("W"), end |-> L("F")],
                                   L("P"), FALSE))
  @@ (L("W") :> Instr("Wait",      cv, lk, L("a"), FALSE))
  @@ (L("a") :> Instr("Acquire",   lk, lk, L("T"), TRUE))
  @@ (L("P") :> Instr("PRTake",    p, p, L("R"), FALSE))
  @@ (L("R") :> Instr("Release",   lk, lk, then, FALSE))
  @@ (L("F") :> Instr("Release",   lk, lk, then, FALSE))

(* Pipe::Read() (exception.cc 139-162) on the j-th Pipe, as the k-th       *)
(* character of Read2's loop (exception.cc 534-555).                       *)
PipeReadAt(t, k, j, then) ==
  LET L(s) == <<t, N(N("r", k) \o "p", j) \o s>>  p == Pipes[j]
      lk == PipeLock[p]  cv == PipeCV[p] IN
     (L("A") :> Instr("Acquire",   lk, lk, L("T"), FALSE))
  @@ (L("T") :> Instr("PRTest",    p, [take |-> L("P"), wait |-> L("W"), end |-> L("F")],
                                   L("P"), FALSE))
  @@ (L("W") :> Instr("Wait",      cv, lk, L("a"), FALSE))
  @@ (L("a") :> Instr("Acquire",   lk, lk, L("T"), TRUE))
  @@ (L("P") :> Instr("PRTake",    p, p, L("B"), FALSE))
  @@ (L("B") :> Instr("Broadcast", cv, lk, L("R"), FALSE))
  @@ (L("R") :> Instr("Release",   lk, lk, then, FALSE))
  @@ (L("F") :> Instr("Release",   lk, lk, then, FALSE))

RECURSIVE PipeWrites(_, _, _, _)
PipeWrites(t, j, k, then) ==
  IF j = 0 THEN EmptyCode
  ELSE PipeWriteAt(t, k, Writes[t][k], j, then) @@ PipeWrites(t, j - 1, k, then)

RECURSIVE PipeReads(_, _, _, _)
PipeReads(t, j, k, then) ==
  IF j = 0 THEN EmptyCode
  ELSE PipeReadAt(t, k, j, then) @@ PipeReads(t, j - 1, k, then)

(* The k-th character of a process's reads (dir "r") or writes (dir "w"): *)
(* getInPipe() or getOutPipe(), then the copy of Pipe::Read or Write for   *)
(* that Pipe.                                                              *)
PipeSel(t, dir, k) ==
  <<t, N(dir, k)>> :> Instr("PipeSel", dir,
                           [j \in 1 .. Len(Pipes) |-> <<t, N(N(dir, k) \o "p", j) \o "A">>],
                           <<t, N(dir, k)>>, TRUE)

(* Mutation: GetChar takes Console::incoming without waiting on r.        *)
ConReadAtNoWait(t, k, then) ==
  LET L(s) == <<t, N("cr", k) \o s>> IN
     (L("A") :> Instr("Acquire", ReadLock, ReadLock, L("G"), FALSE))
  @@ (L("G") :> Instr("ConGet",  t, t, L("R"), TRUE))
  @@ (L("R") :> Instr("Release", ReadLock, ReadLock, then, FALSE))

(* Read2's console branch (exception.cc 516-533) for a call of size 1:    *)
(* take ReadLock, then SynchConsole::GetChar (SynchConsole.cc 54-58):     *)
(* P on r, then Console::GetChar; release ReadLock.                        *)
ConReadAt(t, k, then) ==
  LET L(s) == <<t, N("cr", k) \o s>> IN
     (L("A") :> Instr("Acquire", ReadLock, ReadLock, L("P"), FALSE))
  @@ (L("P") :> Instr("P",       ConR, ConR, L("G"), TRUE))
  @@ (L("G") :> Instr("ConGet",  t, t, L("R"), TRUE))
  @@ (L("R") :> Instr("Release", ReadLock, ReadLock, then, FALSE))

(* The k-th turn of Write2's console loop (exception.cc 591-597):          *)
(* SynchConsole::PutChar (SynchConsole.cc 46-49), Console::PutChar and P   *)
(* on w until the device says the character is out.                        *)
ConPutAt(t, k, then) ==
     (<<t, N("cw", k) \o "C">> :> Instr("ConPut", t, k, <<t, N("cw", k) \o "P">>, FALSE))
  @@ (<<t, N("cw", k) \o "P">> :> Instr("P", ConW, ConW, then, FALSE))

RECURSIVE ConPuts(_, _, _)
ConPuts(t, k, then) ==
  IF k > Len(Writes[t]) THEN EmptyCode
  ELSE ConPutAt(t, k, IF k = Len(Writes[t]) THEN then ELSE <<t, N("cw", k + 1) \o "C">>)
       @@ ConPuts(t, k + 1, then)

(* Mutation: each Write2 takes a lock of its own, as a WriteLock local to *)
(* Write2 would be (here the process's Thread lock, free at this point).   *)
ConWriteCodeOwnLock(t, then) ==
     (<<t, "cwA">> :> Instr("Acquire", Lk[t], Lk[t], <<t, "cw1C">>, FALSE))
  @@ ConPuts(t, 1, <<t, "cwR">>)
  @@ (<<t, "cwR">> :> Instr("Release", Lk[t], Lk[t], then, TRUE))

(* Write2's console branch (exception.cc 578-603): the whole loop of       *)
(* PutChar calls holds WriteLock.                                          *)
ConWriteCode(t, then) ==
     (<<t, "cwA">> :> Instr("Acquire", WriteLock, WriteLock, <<t, "cw1C">>, FALSE))
  @@ ConPuts(t, 1, <<t, "cwR">>)
  @@ (<<t, "cwR">> :> Instr("Release", WriteLock, WriteLock, then, TRUE))

(* Read2 and Write2 test pipeValue once, before their loop (exception.cc   *)
(* 514-516, 576-578): a process without an input (output) Pipe uses the    *)
(* console.  "R<k>" is the k-th call of Read2, "W" the call of Write2.     *)
ConsoleTestAt(t, l, dir, pipeL, conL) ==
  l :> Instr("ConsoleTest", dir, [pipe |-> pipeL, con |-> conL], pipeL, TRUE)

(* A process: Reads[t] calls of Read2 of one character, then one Write2 of *)
(* Writes[t] (the loop bodies of produce.c and consume.c), then Exit at    *)
(* `then`.                                                                 *)
UserLabel(t, n, then) ==
  IF n <= Reads[t] THEN <<t, N("R", n)>>
  ELSE IF n = Reads[t] + 1 /\ Writes[t] # <<>> THEN <<t, "W">> ELSE then

RECURSIVE UserReads(_, _, _)
UserReads(t, k, then) ==
  LET at == UserLabel(t, k + 1, then) IN
  IF k > Reads[t] THEN EmptyCode
  ELSE ConsoleTestAt(t, <<t, N("R", k)>>, "r", <<t, N("r", k)>>, <<t, N("cr", k) \o "A">>)
       @@ PipeSel(t, "r", k) @@ PipeReads(t, Len(Pipes), k, at)
       @@ ConReadAt(t, k, at)
       @@ UserReads(t, k + 1, then)

RECURSIVE UserWrites(_, _, _)
UserWrites(t, k, then) ==
  IF k > Len(Writes[t]) THEN EmptyCode
  ELSE PipeSel(t, "w", k)
       @@ PipeWrites(t, Len(Pipes), k, IF k = Len(Writes[t]) THEN then ELSE <<t, N("w", k + 1)>>)
       @@ UserWrites(t, k + 1, then)

UserCode(t, then) ==
  UserReads(t, 1, then)
  @@ (IF Writes[t] = <<>> THEN EmptyCode
      ELSE ConsoleTestAt(t, <<t, "W">>, "w", <<t, "w1">>, <<t, "cwA">>)
           @@ UserWrites(t, 1, then) @@ ConWriteCode(t, then))

(* Fork2 (exception.cc 670-689) of the n-th Thread of Forks[t]:          *)
(* allocateThreadSpace, which fails when the frames run out (memory is     *)
(* modelled by Paging, so here either outcome), TablePtr->Alloc with its   *)
(* result ignored, and Fork of ForkedThread, which runs the user function  *)
(* (exception.cc 649-662).  Then Yield2 (695-697) and Exit.                *)
RECURSIVE ForkCode(_, _)
ForkCode(t, n) ==
  IF n > Len(ForksOf(t)) THEN EmptyCode
  ELSE LET k == Forks[t][n]  L(s) == <<t, N("K", n) \o s>>
           then == IF n = Len(Forks[t]) THEN UserLabel(t, 1, <<t, "Y">>)
                   ELSE <<t, N("K", n + 1)>> IN
          (L("")  :> Instr("ForkSpace", t, then, L("a"), TRUE))
       @@ (L("a") :> Instr("ForkTable", k, k, L("f"), FALSE))
       @@ (L("f") :> Instr("Fork",      k, UserLabel(k, 1, <<k, "X">>), then, TRUE))
       @@ ForkCode(t, n + 1)

\* Where a process's user code starts, and where its reads and writes end.
AfterIO(t) == IF ForksOf(t) = <<>> THEN <<t, "X">> ELSE <<t, "Y">>
Entry(t) == IF ForksOf(t) = <<>> THEN UserLabel(t, 1, <<t, "X">>) ELSE <<t, "K1">>

\* Yield2 (exception.cc 695-697): currentThread->Yield(), then Exit.
Yield2At(t) == <<t, "Y">> :> Instr("Yield", t, t, <<t, "X">>, TRUE)

(* The user program: Fork2s, Read2s and a Write2, Yield2 if it forked,     *)
(* then Exit.                                                              *)
ProcBody(t) ==
  ForkCode(t, 1) @@ UserCode(t, AfterIO(t))
  @@ (IF ForksOf(t) = <<>> THEN EmptyCode ELSE Yield2At(t))

(* Exec2 (exception.cc 341-491) of process c, at labels starting with pre: *)
(* wire the pipes, take a storeTable slot, Fork ProcessStartExec, take a   *)
(* TablePtr slot.  Reading the name, opening the file and building the     *)
(* AddrSpace change nothing the model keeps.                               *)
ExecCode(t, c, pre, then) ==
  LET L(s) == <<t, pre \o s>> IN
     (L("")   :> Instr("ExecWire",  c, c, L("E2"), TRUE))
  @@ (L("E2") :> Instr("ExecStore", c, then, L("E3"), FALSE))
  @@ (L("E3") :> Instr("Fork",      c, Entry(c), L("E4"), TRUE))
  @@ (L("E4") :> Instr("ExecTable", c, c, then, TRUE))

(* Join2 (exception.cc 628-647) of the process the shell knows as c: look  *)
(* the SpaceId up in TablePtr, then Thread::Join of the Thread found there *)
(* and getJoinValue.  Which Thread that is is only known at run time, so   *)
(* there is a copy of Join for every Thread the slot can hold.             *)
RECURSIVE JoinCopies(_, _, _, _, _)
JoinCopies(t, c, at, xs, then) ==
  IF xs = {} THEN EmptyCode
  ELSE LET x == CHOOSE u \in xs : TRUE  pre == at \o ToString(x) IN
          JoinCodeAt(t, x, pre, <<t, pre \o "v">>)
       @@ (<<t, pre \o "v">> :> Instr("ReadJoin", x, c, then, TRUE))
       @@ JoinCopies(t, c, at, xs \ {x}, then)

Join2Code(t, c, pre, then) ==
  (<<t, pre>> :> Instr("JoinTarget", c,
                       [x \in Spawned |-> <<t, pre \o ToString(x) \o "J0">>], then, TRUE))
  @@ JoinCopies(t, c, pre, Spawned, then)

(* SysCallExit (exception.cc 237-278): close the pipe ends, set the join   *)
(* value, release every TablePtr slot holding this process, then Finish.   *)
RECURSIVE SlotLoop(_, _)
SlotLoop(t, k) ==
  IF k = TableSize THEN EmptyCode
  ELSE (<<t, N("s", k)>> :> Instr("ExitSlot", k, t,
                                  IF k + 1 = TableSize THEN <<t, "F1">> ELSE <<t, N("s", k + 1)>>, TRUE))
       @@ SlotLoop(t, k + 1)

ExitCode(t) ==
  (<<t, "X">> :> Instr("ExitPipes", ExitStatus[t], t, <<t, "s0">>, TRUE)) @@ SlotLoop(t, 0)

\* The shell: the j-th command of the k-th list of Tests, at label "t<k>c<j>".
CmdLabel(k, j) == IF j > Len(Tests[k]) THEN <<Main, "X">> ELSE <<Main, N(N("t", k) \o "c", j)>>

RECURSIVE ShellCmds(_, _)
ShellCmds(k, j) ==
  IF j > Len(Tests[k]) THEN EmptyCode
  ELSE LET cmd == Tests[k][j]  pre == CmdLabel(k, j)[2] IN
       (IF cmd[1] = "exec" THEN ExecCode(Main, cmd[2], pre, CmdLabel(k, j + 1))
        ELSE Join2Code(Main, cmd[2], pre, CmdLabel(k, j + 1)))
       @@ ShellCmds(k, j + 1)

RECURSIVE ShellTests(_)
ShellTests(k) == IF k = 0 THEN EmptyCode ELSE ShellCmds(k, 1) @@ ShellTests(k - 1)

ShellCode ==
  (<<Main, "go">> :> Instr("Choose", {CmdLabel(k, 1) : k \in 1 .. Len(Tests)}, Main,
                           CmdLabel(1, 1), TRUE))
  @@ ShellTests(Len(Tests)) @@ ExitCode(Main) @@ FinishCode(Main)

RECURSIVE ProcCode(_)
ProcCode(cs) ==
  IF cs = {} THEN EmptyCode
  ELSE LET c == CHOOSE u \in cs : TRUE IN
       ProcBody(c) @@ ExitCode(c) @@ FinishCode(c) @@ ProcCode(cs \ {c})

SysProg == ShellCode @@ ProcCode(Spawned)

SysStart == [t \in Threads |-> IF t = Main THEN <<Main, "go">> ELSE Entry(t)]
-----------------------------------------------------------------------------
(* One action per instruction of this module.  Each leaves the scheduler,  *)
(* the primitives and readyToJoin alone (see Next).                        *)

\* newCurrentThread->setInPipe / setOutPipe and the matching set*Open(1).
SetEnd(c, end, p) ==
  IF end = "in"
  THEN inPipe' = [inPipe EXCEPT ![c] = p] /\ pipe' = [pipe EXCEPT ![p].inOpen = 1]
       /\ UNCHANGED outPipe
  ELSE outPipe' = [outPipe EXCEPT ![c] = p] /\ pipe' = [pipe EXCEPT ![p].outOpen = 1]
       /\ UNCHANGED inPipe

(* Exec2's pipeValue and pipe wiring (exception.cc 378-420).  A process    *)
(* with one end takes freePipe, or makes a new Pipe and leaves it in       *)
(* freePipe for the other end; a process with both ends takes freePipe as  *)
(* input (NULL there is a crash) and leaves a new Pipe for its output.     *)
ExecWire(t) ==
  LET i == Prog[pc[t]]  c == i.a  pol == Policy[c]
      pv == IF Bit(pol, 1) \/ Bit(pol, 2) THEN pol ELSE 0
      one == Bit(pv, 1) # Bit(pv, 2)
      end == IF Bit(pv, 2) THEN "in" ELSE "out"
      fresh == Pipes[nPipes + 1] IN
  /\ i.op = "ExecWire"
  /\ pipeValue' = [pipeValue EXCEPT ![c] = pv]
  /\ \/ pv = 0 /\ UNCHANGED <<inPipe, outPipe, pipe, freePipe, nPipes>>
     \/ /\ one /\ freePipe = NoPipe /\ nPipes < Len(Pipes)
        /\ SetEnd(c, end, fresh) /\ freePipe' = fresh /\ nPipes' = nPipes + 1
     \/ /\ one /\ freePipe # NoPipe
        /\ SetEnd(c, end, freePipe) /\ freePipe' = NoPipe /\ UNCHANGED nPipes
     \/ /\ Bit(pv, 1) /\ Bit(pv, 2) /\ freePipe # NoPipe /\ nPipes < Len(Pipes)
        /\ inPipe' = [inPipe EXCEPT ![c] = freePipe]
        /\ outPipe' = [outPipe EXCEPT ![c] = fresh]
        /\ pipe' = [pipe EXCEPT ![freePipe].inOpen = 1, ![fresh].outOpen = 1]
        /\ freePipe' = fresh /\ nPipes' = nPipes + 1
  /\ Goto(t, i.next)
  /\ UNCHANGED <<procTab, stores, joinValue, deleted, got, sid, jres>>

(* storeTable->Alloc (exception.cc 439-444, Table::Alloc 58-72): the       *)
(* lowest free slot; nothing ever releases one, so the slots in use are    *)
(* 0 .. stores-1.  With none free, Exec returns 0.                         *)
ExecStore(t) ==
  LET i == Prog[pc[t]] IN
  /\ i.op = "ExecStore"
  /\ \/ stores < TableSize /\ stores' = stores + 1 /\ Goto(t, i.next) /\ UNCHANGED sid
     \/ stores = TableSize /\ sid' = [sid EXCEPT ![i.a] = 0] /\ Goto(t, i.b) /\ UNCHANGED stores
  /\ UNCHANGED <<procTab, pipeValue, inPipe, outPipe, joinValue, freePipe, nPipes,
                 pipe, deleted, got, jres>>

(* TablePtr->Alloc(newCurrentThread) after the Fork (exception.cc          *)
(* 479-490): Exec returns the slot + 1, or 0 when the table is full.       *)
ExecTable(t) ==
  LET i == Prog[pc[t]]  c == i.a  free == {k \in Slots : procTab[k] = NoThread} IN
  /\ i.op = "ExecTable"
  /\ IF free = {}
     THEN sid' = [sid EXCEPT ![c] = 0] /\ UNCHANGED procTab
     ELSE /\ procTab' = [procTab EXCEPT ![Min(free)] = c]
          /\ sid' = [sid EXCEPT ![c] = Min(free) + 1]
  /\ Goto(t, i.next)
  /\ UNCHANGED <<stores, pipeValue, inPipe, outPipe, joinValue, freePipe, nPipes,
                 pipe, deleted, got, jres>>

(* allocateThreadSpace in Fork2 (exception.cc 673-675, addrspace.cc       *)
(* 368-415): it fails when AllocPage finds no frame, and Fork2 returns.    *)
ForkSpace(t) ==
  LET i == Prog[pc[t]] IN
  /\ i.op = "ForkSpace"
  /\ \/ Goto(t, i.next)
     \/ Goto(t, i.b)
  /\ UNCHANGED sysVars

(* TablePtr->Alloc(forkedThread) in Fork2 (exception.cc 683): the lowest   *)
(* free slot, or nothing when the table is full; Fork2 ignores which.      *)
ForkTable(t) ==
  LET i == Prog[pc[t]]  free == {k \in Slots : procTab[k] = NoThread} IN
  /\ i.op = "ForkTable"
  /\ procTab' = IF free = {} THEN procTab ELSE [procTab EXCEPT ![Min(free)] = i.a]
  /\ Goto(t, i.next)
  /\ UNCHANGED <<stores, pipeValue, inPipe, outPipe, joinValue, freePipe, nPipes,
                 pipe, deleted, got, sid, jres>>

\* Mutation: Join2 looks the SpaceId up as TablePtr->Get(id), one slot off.
JoinTargetOffByOne(t) ==
  LET i == Prog[pc[t]]  c == i.a  id == sid[c]
      x == IF id \in Slots THEN procTab[id] ELSE NoThread IN
  /\ i.op = "JoinTarget"
  /\ \/ x = NoThread /\ jres' = [jres EXCEPT ![c] = JoinError] /\ Goto(t, i.next)
     \/ x # NoThread /\ ~Joinable[x] /\ jres' = [jres EXCEPT ![c] = JoinError] /\ Goto(t, i.next)
     \/ x # NoThread /\ Joinable[x] /\ Goto(t, i.b[x]) /\ UNCHANGED jres
  /\ UNCHANGED <<procTab, stores, pipeValue, inPipe, outPipe, joinValue, freePipe,
                 nPipes, pipe, deleted, got, sid>>

(* Join2's TablePtr->Get(id - 1) and its two early returns (exception.cc   *)
(* 630-640): no Thread there, or one that is not joinable, gives -65535.   *)
JoinTarget(t) ==
  LET i == Prog[pc[t]]  c == i.a  id == sid[c] - 1
      x == IF id \in Slots THEN procTab[id] ELSE NoThread IN
  /\ i.op = "JoinTarget"
  /\ \/ x = NoThread /\ jres' = [jres EXCEPT ![c] = JoinError] /\ Goto(t, i.next)
     \/ x # NoThread /\ ~Joinable[x] /\ jres' = [jres EXCEPT ![c] = JoinError] /\ Goto(t, i.next)
     \/ x # NoThread /\ Joinable[x] /\ Goto(t, i.b[x]) /\ UNCHANGED jres
  /\ UNCHANGED <<procTab, stores, pipeValue, inPipe, outPipe, joinValue, freePipe,
                 nPipes, pipe, deleted, got, sid>>

(* joinThread->getJoinValue() once Join returns (exception.cc 644).  A     *)
(* deleted Thread's memory may still hold the value or may not.            *)
ReadJoin(t) ==
  LET i == Prog[pc[t]]  x == i.a IN
  /\ i.op = "ReadJoin"
  /\ \E v \in IF x \in destroyed THEN {joinValue[x], Stale} ELSE {joinValue[x]} :
        jres' = [jres EXCEPT ![i.b] = v]
  /\ Goto(t, i.next)
  /\ UNCHANGED <<procTab, stores, pipeValue, inPipe, outPipe, joinValue, freePipe,
                 nPipes, pipe, deleted, got, sid>>
\* `delete` a Pipe: ~Lock and ~Condition ASSERT that nobody holds or waits.
Deletable(p) ==
  owner[PipeLock[p]] = NoThread /\ waitq[PipeLock[p]] = <<>> /\ waitq[PipeCV[p]] = <<>>

(* Mutation: Exit deletes each Pipe it closes an end of, without asking    *)
(* whether the other end is still open.                                    *)
ExitPipesDeleteAlways(t) ==
  LET i == Prog[pc[t]]  pv == pipeValue[t]  p == inPipe[t]  q == outPipe[t]
      pipe1 == IF Bit(pv, 2) THEN [pipe EXCEPT ![p].inOpen = 0] ELSE pipe
      pipe2 == IF Bit(pv, 1) THEN [pipe1 EXCEPT ![q].outOpen = 0] ELSE pipe1
      gone == {x \in {p} : Bit(pv, 2)} \cup {x \in {q} : Bit(pv, 1)} IN
  /\ i.op = "ExitPipes"
  /\ \A x \in gone : Deletable(x)
  /\ pipe' = pipe2 /\ deleted' = deleted \cup gone
  /\ joinValue' = [joinValue EXCEPT ![t] = i.a]
  /\ Goto(t, i.next)
  /\ UNCHANGED <<procTab, stores, pipeValue, inPipe, outPipe, freePipe, nPipes, got, sid, jres>>

(* The first half of SysCallExit (exception.cc 240-257), with no lock and  *)
(* no Broadcast: close the input end and delete the Pipe if its output end *)
(* is closed too, the same for the output end, then setJoinValue.          *)
ExitPipes(t) ==
  LET i == Prog[pc[t]]  pv == pipeValue[t]  p == inPipe[t]  q == outPipe[t]
      pipe1 == IF Bit(pv, 2) THEN [pipe EXCEPT ![p].inOpen = 0] ELSE pipe
      pipe2 == IF Bit(pv, 1) THEN [pipe1 EXCEPT ![q].outOpen = 0] ELSE pipe1
      gone == {x \in {p} : Bit(pv, 2) /\ pipe1[p].outOpen = 0}
              \cup {x \in {q} : Bit(pv, 1) /\ pipe2[q].inOpen = 0} IN
  /\ i.op = "ExitPipes"
  /\ \A x \in gone : Deletable(x)
  /\ pipe' = pipe2
  /\ deleted' = deleted \cup gone
  /\ joinValue' = [joinValue EXCEPT ![t] = i.a]
  /\ Goto(t, i.next)
  /\ UNCHANGED <<procTab, stores, pipeValue, inPipe, outPipe, freePipe, nPipes, got, sid, jres>>

(* One turn of SysCallExit's loop (exception.cc 260-267): TablePtr->Get(k) *)
(* and, when its Thread has this Thread's AddrSpace, TablePtr->Release(k). *)
ExitSlot(t) ==
  LET i == Prog[pc[t]]  k == i.a  x == procTab[k] IN
  /\ i.op = "ExitSlot"
  /\ procTab' = IF x # NoThread /\ SpaceOf(x) = SpaceOf(t)
                THEN [procTab EXCEPT ![k] = NoThread] ELSE procTab
  /\ Goto(t, i.next)
  /\ UNCHANGED <<stores, pipeValue, inPipe, outPipe, joinValue, freePipe, nPipes,
                 pipe, deleted, got, sid, jres>>

(* currentThread->getInPipe() in Read2 (exception.cc 545), getOutPipe() in *)
(* Write2 (616): go to the code for that Pipe.  A NULL pipe is a crash.    *)
PipeSelect(t) ==
  LET i == Prog[pc[t]]  p == IF i.a = "r" THEN inPipe[t] ELSE outPipe[t] IN
  /\ i.op = "PipeSel"
  /\ p \in Pipe
  /\ Goto(t, i.b[CHOOSE j \in 1 .. Len(Pipes) : Pipes[j] = p])
  /\ UNCHANGED sysVars

\* Mutation: Write gives up on a full Pipe without asking whether it is read.
PWTestFailWhenFull(t) ==
  LET i == Prog[pc[t]]  b == pipe[i.a] IN
  /\ i.op = "PWTest"
  /\ \/ b.size # Capacity /\ Goto(t, i.b.put)
     \/ b.size = Capacity /\ Goto(t, i.b.fail)
  /\ UNCHANGED sysVars

\* while (size == capacity) { if (!getInOpen()) return 0; Wait } (exception.cc 171-177)
PWTest(t) ==
  LET i == Prog[pc[t]]  b == pipe[i.a] IN
  /\ i.op = "PWTest"
  /\ \/ b.size # Capacity /\ Goto(t, i.b.put)
     \/ b.size = Capacity /\ b.inOpen = 0 /\ Goto(t, i.b.fail)
     \/ b.size = Capacity /\ b.inOpen # 0 /\ Goto(t, i.b.wait)
  /\ UNCHANGED sysVars

\* Mutation: the `if (end == capacity) end = 0` is missing.
PWPutNoWrap(t) ==
  LET i == Prog[pc[t]]  p == i.a  b == pipe[p] IN
  /\ i.op = "PWPut"
  /\ pipe' = [pipe EXCEPT ![p].buffer[b.end] = i.b, ![p].end = b.end + 1,
                          ![p].size = b.size + 1]
  /\ Goto(t, i.next)
  /\ UNCHANGED <<procTab, stores, pipeValue, inPipe, outPipe, joinValue, freePipe,
                 nPipes, deleted, got, sid, jres>>

\* Mutation: end wraps one slot early (`end == capacity - 1`).
PWPutEarlyWrap(t) ==
  LET i == Prog[pc[t]]  p == i.a  b == pipe[p] IN
  /\ i.op = "PWPut"
  /\ pipe' = [pipe EXCEPT ![p].buffer[b.end] = i.b,
                          ![p].end = IF b.end + 1 = Capacity - 1 THEN 0 ELSE b.end + 1,
                          ![p].size = b.size + 1]
  /\ Goto(t, i.next)
  /\ UNCHANGED <<procTab, stores, pipeValue, inPipe, outPipe, joinValue, freePipe,
                 nPipes, deleted, got, sid, jres>>

\* buffer[end++] = ch; size++; if (end == capacity) end = 0; (exception.cc 179-184)
PWPut(t) ==
  LET i == Prog[pc[t]]  p == i.a  b == pipe[p] IN
  /\ i.op = "PWPut"
  /\ pipe' = [pipe EXCEPT ![p].buffer[b.end] = i.b,
                          ![p].end = IF b.end + 1 = Capacity THEN 0 ELSE b.end + 1,
                          ![p].size = b.size + 1]
  /\ Goto(t, i.next)
  /\ UNCHANGED <<procTab, stores, pipeValue, inPipe, outPipe, joinValue, freePipe,
                 nPipes, deleted, got, sid, jres>>

\* Mutation: Read waits on an empty Pipe without asking whether it is written.
PRTestNoEnd(t) ==
  LET i == Prog[pc[t]]  b == pipe[i.a] IN
  /\ i.op = "PRTest"
  /\ \/ b.size # 0 /\ Goto(t, i.b.take)
     \/ b.size = 0 /\ Goto(t, i.b.wait)
  /\ UNCHANGED sysVars

(* while (size == 0) { if (!getOutOpen()) return 1000000; Wait }           *)
(* (exception.cc 142-148); the sentinel is what this read returns.         *)
PRTest(t) ==
  LET i == Prog[pc[t]]  p == i.a  b == pipe[p] IN
  /\ i.op = "PRTest"
  /\ \/ b.size # 0 /\ Goto(t, i.b.take) /\ UNCHANGED got
     \/ b.size = 0 /\ b.outOpen = 0 /\ got' = [got EXCEPT ![p] = Append(@, EOF)]
        /\ Goto(t, i.b.end)
     \/ b.size = 0 /\ b.outOpen # 0 /\ Goto(t, i.b.wait) /\ UNCHANGED got
  /\ UNCHANGED <<procTab, stores, pipeValue, inPipe, outPipe, joinValue, freePipe,
                 nPipes, pipe, deleted, sid, jres>>

(* size--; if (start == capacity) start = 0; retVal = buffer[start];       *)
(* buffer[start++] = 0; (exception.cc 150-157)                             *)
PRTake(t) ==
  LET i == Prog[pc[t]]  p == i.a  b == pipe[p]
      s == IF b.start = Capacity THEN 0 ELSE b.start IN
  /\ i.op = "PRTake"
  /\ got' = [got EXCEPT ![p] = Append(@, b.buffer[s])]
  /\ pipe' = [pipe EXCEPT ![p].size = b.size - 1, ![p].buffer[s] = 0, ![p].start = s + 1]
  /\ Goto(t, i.next)
  /\ UNCHANGED <<procTab, stores, pipeValue, inPipe, outPipe, joinValue, freePipe,
                 nPipes, deleted, sid, jres>>

-----------------------------------------------------------------------------
(* The console.  Console (machine/console.cc, not part of src/) is the     *)
(* standard Nachos device: PutChar ASSERTs that no character is being      *)
(* written, starts the write and schedules an interrupt that calls the     *)
(* write handler; GetChar returns `incoming` and empties it; a periodic    *)
(* poll interrupt takes the next typed character into `incoming` when it  *)
(* is empty and calls the read handler.                                    *)

(* Read2's and Write2's test of pipeValue (exception.cc 516, 578): the     *)
(* console branch unless the process has an input (output) Pipe.          *)
ConsoleTest(t) ==
  LET i == Prog[pc[t]] IN
  /\ i.op = "ConsoleTest"
  /\ Goto(t, IF Bit(pipeValue[t], IF i.a = "r" THEN 2 ELSE 1) THEN i.b.pipe ELSE i.b.con)
  /\ UNCHANGED conVars

\* console->PutChar(ch) in SynchConsole::PutChar (SynchConsole.cc 47)
ConPut(t) ==
  LET i == Prog[pc[t]] IN
  /\ i.op = "ConPut"
  /\ ~putBusy
  /\ putBusy' = TRUE
  /\ conOut' = Append(conOut, <<i.a, i.b>>)
  /\ Goto(t, i.next)
  /\ UNCHANGED <<incoming, inPos, conIn>>

\* console->GetChar() in SynchConsole::GetChar (SynchConsole.cc 56)
ConGet(t) ==
  LET i == Prog[pc[t]] IN
  /\ i.op = "ConGet"
  /\ conIn' = Append(conIn, incoming)
  /\ incoming' = NoChar
  /\ Goto(t, i.next)
  /\ UNCHANGED <<putBusy, conOut, inPos>>

ConStep(t) == ConsoleTest(t) \/ ConPut(t) \/ ConGet(t)

(* A device interrupt arrives when interrupts are on: while the CPU idles  *)
(* (Interrupt::Idle in Sleep) or where a timer tick could fall.            *)
IntsOn ==
  \/ running = NoThread
  \/ running # NoThread /\ pc[running] \in DOMAIN Prog /\ Prog[pc[running]].pre

(* The handler's s->V() (synch.cc 83-92).  When the CPU was idle, the      *)
(* thread in Sleep's loop finds the woken thread and runs it.              *)
IntV(s) ==
  LET w == First(waitq[s]) IN
  /\ waitq' = [waitq EXCEPT ![s] = Rest(@)]
  /\ value' = [value EXCEPT ![s] = @ + 1]
  /\ IF running = NoThread /\ w # <<>>
     THEN Dispatch(Head(w), MakeReady(status, w), ready, toBeDestroyed)
     ELSE /\ ready' = InsertAll(ready, w) /\ status' = MakeReady(status, w)
          /\ UNCHANGED <<running, started, toBeDestroyed, destroyed>>
  /\ UNCHANGED <<pc, owner, preempts, prio>>

\* Mutation: the write interrupt clears putBusy but SynchWriteDone is not called.
WriteDoneNoHandler ==
  /\ putBusy
  /\ putBusy' = FALSE
  /\ UNCHANGED <<lifeVars, conOut, incoming, inPos, conIn>>

(* The write interrupt: Console::WriteDone clears putBusy and calls        *)
(* SynchWriteDone -> SynchConsole::WriteDone: w->V() (SynchConsole.cc      *)
(* 17-21, 62-64).                                                          *)
WriteDone ==
  /\ putBusy
  /\ putBusy' = FALSE
  /\ IntV(ConW)
  /\ UNCHANGED <<conOut, incoming, inPos, conIn>>

(* The poll interrupt with a character typed and `incoming` empty: it      *)
(* takes the character and calls SynchReadAvail -> CheckCharAvail:        *)
(* r->V() (SynchConsole.cc 8-12, 68-70).                                   *)
ReadAvail ==
  /\ incoming = NoChar
  /\ inPos < Len(Input)
  /\ incoming' = Input[inPos + 1]
  /\ inPos' = inPos + 1
  /\ IntV(ConR)
  /\ UNCHANGED <<putBusy, conOut, conIn>>

Interrupt == IntsOn /\ (WriteDone \/ ReadAvail) /\ UNCHANGED readyToJoin

\* A step of the running thread through an instruction of this module.
SysStep(t) ==
  \/ ExecWire(t) \/ ExecStore(t) \/ ExecTable(t) \/ JoinTarget(t) \/ ReadJoin(t)
  \/ ExitPipes(t) \/ ExitSlot(t) \/ PipeSelect(t) \/ PWTest(t) \/ PWPut(t)
  \/ PRTest(t) \/ PRTake(t) \/ ForkSpace(t) \/ ForkTable(t)

(* Boot (progtest.cc 37-86): both Tables are empty but for Main's          *)
(* storeTable slot and TablePtr slot 0; no Pipe exists yet.  A Thread's    *)
(* pipeValue is set only by Exec, so Main's is taken as 0.                 *)
Init ==
  /\ LifeInit
  /\ procTab = [k \in Slots |-> IF k = 0 THEN Main ELSE NoThread]
  /\ stores = 1
  /\ pipeValue = [t \in Threads |-> 0]
  /\ inPipe = [t \in Threads |-> NoPipe]
  /\ outPipe = [t \in Threads |-> NoPipe]
  /\ joinValue = [t \in Threads |-> None]
  /\ freePipe = NoPipe
  /\ nPipes = 0
  /\ pipe = [p \in Pipe |-> NewPipe]
  /\ deleted = {}
  /\ got = [p \in Pipe |-> <<>>]
  /\ sid = [c \in Procs |-> 0]
  /\ jres = [c \in Procs |-> None]
  /\ putBusy = FALSE
  /\ conOut = <<>>
  /\ incoming = NoChar
  /\ inPos = 0
  /\ conIn = <<>>

Next ==
  \/ Halted /\ UNCHANGED <<readyToJoin, sysVars, conVars>>
  \/ /\ running # NoThread
     /\ pc[running] # Done
     /\ \/ LifeStep(running) /\ UNCHANGED <<sysVars, conVars>>
        \/ SysStep(running) /\ UNCHANGED <<schedVars, owner, waitq, value, preempts, prio,
                                            readyToJoin, conVars>>
        \/ ConStep(running) /\ UNCHANGED <<schedVars, owner, waitq, value, preempts, prio,
                                            readyToJoin, sysVars>>
  \/ Interrupt /\ UNCHANGED sysVars

(* The CPU always executes the running thread, and a pending device        *)
(* interrupt is eventually taken: weak fairness on Next.                   *)
Spec == Init /\ [][Next]_vars /\ WF_vars(Next)
-----------------------------------------------------------------------------
TypeOK ==
  /\ LifeTypeOK
  /\ procTab \in [Slots -> Threads \cup {NoThread}]
  /\ stores \in 1 .. TableSize
  /\ pipeValue \in [Threads -> 0 .. 7]
  /\ inPipe \in [Threads -> Pipe \cup {NoPipe}]
  /\ outPipe \in [Threads -> Pipe \cup {NoPipe}]
  /\ \A t \in Threads : joinValue[t] \in Int \cup {None}
  /\ freePipe \in Pipe \cup {NoPipe}
  /\ nPipes \in 0 .. Len(Pipes)
  /\ pipe \in [Pipe -> [size : 0 .. Capacity, start : 0 .. Capacity, end : 0 .. Capacity - 1,
                        inOpen : {0, 1}, outOpen : {0, 1},
                        buffer : [0 .. Capacity - 1 -> Chars \cup {0}]]]
  /\ deleted \subseteq Pipe
  /\ got \in [Pipe -> Seq(Chars \cup {EOF})]
  /\ sid \in [Procs -> 0 .. TableSize]
  /\ \A c \in Procs : jres[c] \in Int \cup {None, Stale}
  /\ putBusy \in BOOLEAN
  /\ conOut \in Seq(Spawned \X Nat)
  /\ incoming \in Chars \cup {NoChar}
  /\ inPos \in 0 .. Len(Input)
  /\ conIn \in Seq(Chars \cup {NoChar})

(* The ring buffer of each Pipe implements a bounded FIFO channel: seen    *)
(* through Ring, every Pipe::Write appends one character, every            *)
(* Pipe::Read returns the oldest one, and the end-of-stream sentinel comes *)
(* only from an empty Pipe whose write end is closed (PipeChannel).  This  *)
(* is about the index arithmetic of Read and Write (exception.cc 150-184)  *)
(* and the open flags that Exec and Exit set.                              *)
Channel(p) == INSTANCE PipeChannel WITH chan <- Ring(p), recvd <- got[p],
                                         open <- (pipe[p].outOpen = 1)
PipeIsFifo ==
  /\ \A p \in Pipe : Channel(p)!Init
  /\ [][\A p \in Pipe : [Channel(p)!Next]_(Channel(p)!vars)]_vars

(* End to end: what the reading process has received from a Pipe is the   *)
(* characters its writing process passed to Write, in order, and then     *)
(* only end-of-stream: no character is lost, invented or reordered between *)
(* Write2 in one process and Read2 in the other (spec: "bytes appear in    *)
(* write order on read").                                                  *)
PipeDeliversWrites ==
  \A w \in Procs : outPipe[w] # NoPipe =>
     LET r == got[outPipe[w]] IN
     \A k \in 1 .. Len(r) : r[k] = IF k <= Len(Writes[w]) THEN Writes[w][k] ELSE EOF

(* Join2 returns the exit status the joined process passed to Exit; it     *)
(* returns -65535 only for a process that Exec could not start or that is  *)
(* not joinable (spec: Join "returns exactly once ... yielding the         *)
(* recorded exit status").  About Exec2's SpaceId, SysCallExit's release   *)
(* of the TablePtr slot and Join2's lookup (exception.cc 257-265, 630).    *)
JoinReturnsStatus ==
  \A c \in Procs : jres[c] # None =>
     jres[c] = IF sid[c] > 0 /\ Joinable[c] THEN ExitStatus[c] ELSE JoinError

(* No process sleeps on a Pipe whose other end is closed: a reader waits   *)
(* only while the writer may still write, a writer only while the reader   *)
(* may still read.  Otherwise nothing can ever wake it, since only Read    *)
(* and Write broadcast (spec: "every state change broadcasts to both       *)
(* sides"); SysCallExit closes ends without a Broadcast.                   *)
NoSleeperOnClosedPipe ==
  \A p \in Pipe, t \in Procs :
     t \in ToSet(waitq[PipeCV[p]]) =>
        /\ inPipe[t] = p => pipe[p].outOpen = 1
        /\ outPipe[t] = p => pipe[p].inOpen = 1

(* A deleted Pipe is never used again: freePipe does not point to it, and  *)
(* no process that has not exited has it as an end.  About Exit's delete   *)
(* when both ends are closed (exception.cc 244-254) and Exec's freePipe.   *)
NoDanglingPipe ==
  /\ freePipe \notin deleted
  /\ \A t \in Procs : joinValue[t] = None => {inPipe[t], outPipe[t]} \cap deleted = {}

(* The characters of one Write2 to the console come out together and in   *)
(* order: whatever follows a process's k-th character, short of its last, *)
(* is its (k+1)-th.  SynchConsole::PutChar sleeps on w after every         *)
(* character, so another process runs in the middle of every console      *)
(* Write2; only WriteLock, held over the whole loop (exception.cc          *)
(* 578-600), keeps its characters from being interleaved.                  *)
ConsoleWritesWhole ==
  \A n \in 1 .. Len(conOut) - 1 :
     conOut[n][2] < Len(Writes[conOut[n][1]]) => conOut[n + 1] = <<conOut[n][1], conOut[n][2] + 1>>

(* Every console GetChar returns a typed character, each one once and in  *)
(* the order typed: the r semaphore counts the characters the poll         *)
(* interrupt has taken in, and Console::incoming holds at most one.        *)
(* About SynchConsole::GetChar's P before Console::GetChar                 *)
(* (SynchConsole.cc 54-58) and CheckCharAvail's V, with several readers.   *)
ConsoleReadsInput == conIn = SubSeq(Input, 1, Len(conIn))

(* The labels of the P calls of SynchConsole::PutChar (on w) and GetChar *)
(* (on r) in thread t's code.                                             *)
ConsoleWaits(t) ==
  {<<t, N("cw", k) \o "P">> : k \in 1 .. Len(Writes[t])} \cup {<<t, N("cr", k) \o "P">> : k \in 1 .. Reads[t]}

(* Every console PutChar and GetChar returns: a thread that reaches the P *)
(* on w or r gets past it, however many writers and readers queue behind *)
(* WriteLock and ReadLock.  Needs the device interrupts to V them: the     *)
(* write-done handler once per character put, the poll once per character *)
(* typed (SynchConsole::WriteDone and CheckCharAvail, SynchConsole.cc     *)
(* 62-70).                                                                *)
ConsoleCallsReturn ==
  \A t \in Spawned : \A l \in ConsoleWaits(t) : pc[t] = l ~> pc[t] # l

(* A Thread made by Fork2 that has run its user function to Exit also      *)
(* finishes (spec: Fork's entry is "followed automatically by Finish()",   *)
(* and Finish ends in the Thread's destruction).  About Fork2's            *)
(* new Thread("Forked Thread", 1) (exception.cc 681) and the Join that     *)
(* Finish waits for (thread.cc 176-188): Fork returns nothing a user       *)
(* program could pass to Join.                                             *)
ForkedThreadsFinish ==
  \A t \in ForkedThreads : pc[t] = <<t, "X">> ~> Finished(t)
=============================================================================
