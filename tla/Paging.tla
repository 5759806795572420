------------------------------- MODULE Paging -------------------------------
(***************************************************************************)
(* Demand paging of userprog/: the MemoryManager frame bitmap, the CoreMap *)
(* list of resident pages (a singly linked list of CorePage records with  *)
(* head, tail and size), each process's page table and BackingStore, and   *)
(* the PageFaultException branch of ExceptionHandler that ties them       *)
(* together (exception.cc 796-817, addrspace.cc).                          *)
(*                                                                         *)
(* The fault handler is code for the interpreter of Synch: MemoryManager's *)
(* Lock is a Lock of Synch, and a timer tick may fall right after its     *)
(* Acquire and Release re-enable interrupts.  CorePage objects live in an  *)
(* arena of node ids; `delete` returns an id to the arena, and `new` may   *)
(* hand out any free id, the one just freed included, as malloc may.      *)
(* Page contents are abstracted to where they came from: "img" (code or   *)
(* initialised data of the executable), "zero", or "w" (a user store).    *)
(***************************************************************************)
EXTENDS ThreadLifecycle

CONSTANTS
  Procs,      \* address spaces (one BackingStore each)
  ProcOf,     \* [Threads -> Procs]: currentThread->space
  VPages,     \* virtual page numbers 0..numPages-1 of every space
  NumFrames,  \* NumPhysPages: MemoryManager and CoreMap capacity
  Image,      \* [Procs -> [VPages -> {"img", "zero"}]]: the NOFF segments
  LRU,        \* the global flag: 0 FIFO, 1 second chance
  MMLock,     \* MemoryManager::lock
  MaxNodes,   \* size of the CorePage arena
  MaxAccess,  \* bound on user-mode steps in one behaviour
  InitPages,  \* numPages after Initialize: the pages of the executable
  StackPages, \* divRoundUp(UserStackSize, PageSize): Fork2's new pages
  Kid         \* [Threads -> Threads \cup {NoThread}]: the Thread Fork2 creates

Null == 0
Nodes == 1..MaxNodes
FrameIds == 0..(NumFrames - 1)
Content == {"img", "zero", "w"}

ASSUME MMLock \in Locks /\ LRU \in {0, 1} /\ NumFrames >= 1 /\ StackPages >= 1
ASSUME \A t \in Threads : Kid[t] # NoThread => ProcOf[Kid[t]] = ProcOf[t]

\* A TranslationEntry; physicalPage -2 is Initialize's "never mapped".
PTE == [phys : FrameIds \cup {-1, -2}, valid : BOOLEAN, use : BOOLEAN, dirty : BOOLEAN]
CoreRec == [proc : Procs, phys : FrameIds \cup {-1}, vpn : VPages]

VARIABLES
  frames,     \* MemoryManager::pages: the frames marked allocated
  pt,         \* [Procs -> [VPages -> PTE]]: AddrSpace::pageTable
  mem,        \* [FrameIds -> Content]: machine->mainMemory, by frame
  swapped,    \* [Procs -> SUBSET VPages]: BackingStore::pages
  swap,       \* [Procs -> [VPages -> Content]]: the swap file
  cmHead, cmTail, cmSize,   \* CoreMap::head, tail, size
  cmNext,     \* [Nodes -> Nodes \cup {Null}]: CorePage::next
  cmRec,      \* [Nodes -> CoreRec]: the other fields of a CorePage
  cmLive,     \* node ids currently allocated by `new CorePage`
  victim,     \* [Threads -> Nodes \cup {Null}]: the handler's corePage
  found,      \* [Threads -> FrameIds \cup {-1}]: AllocPage's result
  faultVpn,   \* [Threads -> VPages]: BadVAddrReg / PageSize
  shadow,     \* [Procs -> [VPages -> Content]]: what the program last stored
  accesses,   \* user-mode steps so far
  numPages,   \* [Procs -> Nat]: AddrSpace::numPages
  newTable,   \* [Threads -> Seq(FrameIds)]: allocateThreadSpace's new frames
  stackJ      \* [Threads -> Nat]: j of allocateThreadSpace's cleanup loop

pageVars == <<frames, pt, mem, swapped, swap, cmHead, cmTail, cmSize, cmNext,
              cmRec, cmLive, victim, found, faultVpn, shadow, accesses,
              numPages, newTable, stackJ>>
forkVars == <<numPages, newTable, stackJ>>
vars == <<lifeVars, pageVars>>

-----------------------------------------------------------------------------
(* The code of thread t: the user program, the page-fault branch of        *)
(* ExceptionHandler with allocVirtualPage, and Thread::Finish.             *)

(* PF1-PF5: `if (coreMap->isFull())` evict, pageOut, FreePage and delete   *)
(* the victim (exception.cc 801-807); PF6-PF9: allocVirtualPage           *)
(* (addrspace.cc 151-217) with AllocPage (477-483) inside.  The user      *)
(* program at U returns to U after the handler, re-executing the faulting *)
(* instruction.  Ticks: after each Acquire and Release of MMLock, and     *)
(* after every user instruction.                                           *)
FaultCode(t) ==
  LET L(s) == <<t, s>> IN
     (L("U")    :> Instr("User",     L("PF1"), L("F1"), L("U"), TRUE))
  @@ (L("PF1")  :> Instr("IsFull",   L("PF2"), L("PF6"), L("PF2"), FALSE))
  @@ (L("PF2")  :> Instr("Evict",    t, t, L("PF3"), FALSE))
  @@ (L("PF3")  :> Instr("PageOut",  t, t, L("PF4"), FALSE))
  @@ (L("PF4")  :> Instr("Acquire",  MMLock, MMLock, L("PF4a"), FALSE))
  @@ (L("PF4a") :> Instr("Clear",    t, t, L("PF4b"), TRUE))
  @@ (L("PF4b") :> Instr("Release",  MMLock, MMLock, L("PF5"), FALSE))
  @@ (L("PF5")  :> Instr("Delete",   t, t, L("PF6"), TRUE))
  @@ (L("PF6")  :> Instr("Acquire",  MMLock, MMLock, L("PF7"), FALSE))
  @@ (L("PF7")  :> Instr("Find",     t, t, L("PF8"), TRUE))
  @@ (L("PF8")  :> Instr("Release",  MMLock, MMLock, L("PF9"), FALSE))
  @@ (L("PF9")  :> Instr("MapPage",  t, t, L("U"), TRUE))

(* Fork2 (exception.cc 670-689): allocateThreadSpace (addrspace.cc        *)
(* 370-413) takes StackPages frames with AllocPage, each an Acquire, Find  *)
(* and Release of MMLock (FK1-FK4).  When AllocPage fails, the cleanup     *)
(* loop frees one frame per page already taken, through FreePage (FC0-FC3) *)
(* and returns.  Otherwise the new pages are installed (FK5) and the new   *)
(* Thread is Forked to run ForkedThread, i.e. the user program of the same *)
(* space (FK6).                                                            *)
ForkCode(t) ==
  LET L(s) == <<t, s>> IN
     (L("FK1") :> Instr("Acquire",      MMLock, MMLock, L("FK2"), FALSE))
  @@ (L("FK2") :> Instr("Find",         t, t, L("FK3"), TRUE))
  @@ (L("FK3") :> Instr("Release",      MMLock, MMLock, L("FK4"), FALSE))
  @@ (L("FK4") :> Instr("StackPage",    L("FK1"), L("FC0"), L("FK5"), TRUE))
  @@ (L("FC0") :> Instr("FreeTest",     L("FC1"), L("U"), L("FC1"), FALSE))
  @@ (L("FC1") :> Instr("Acquire",      MMLock, MMLock, L("FC2"), FALSE))
  @@ (L("FC2") :> Instr("ClearStale",   t, t, L("FC3"), TRUE))
  @@ (L("FC3") :> Instr("Release",      MMLock, MMLock, L("FC0"), FALSE))
  @@ (L("FK5") :> Instr("InstallStack", t, t, L("FK6"), FALSE))
  @@ (L("FK6") :> Instr("Fork",         Kid[t], <<Kid[t], "U">>, L("U"), TRUE))

-----------------------------------------------------------------------------
(* The user program, as Machine::Translate (outside src/) sees it: a load *)
(* or store to a page of the running space, or a system call.             *)

Page(t, v) == pt[ProcOf[t]][v]

(* A load or store hits a valid page: Translate sets `use`, and `dirty` on *)
(* a store, which writes the frame.                                        *)
Access(t) ==
  LET i == Prog[pc[t]]  p == ProcOf[t] IN
  /\ i.op = "User"
  /\ accesses < MaxAccess
  /\ \E v \in VPages, store \in BOOLEAN :
       /\ v < numPages[p]
       /\ pt[p][v].valid
       /\ pt[p][v].phys \in FrameIds
       /\ pt' = [pt EXCEPT ![p][v].use = TRUE, ![p][v].dirty = @ \/ store]
       /\ mem' = IF store THEN [mem EXCEPT ![pt[p][v].phys] = "w"] ELSE mem
       /\ shadow' = IF store THEN [shadow EXCEPT ![p][v] = "w"] ELSE shadow
  /\ accesses' = accesses + 1
  /\ UNCHANGED <<synchVars, frames, swapped, swap, cmHead, cmTail, cmSize, cmNext,
                 cmRec, cmLive, victim, found, faultVpn, forkVars>>

\* The access finds the page invalid: PageFaultException with BadVAddrReg.
FaultTrap(t) ==
  LET i == Prog[pc[t]] IN
  /\ i.op = "User"
  /\ accesses < MaxAccess
  /\ \E v \in VPages :
       /\ v < numPages[ProcOf[t]]
       /\ ~Page(t, v).valid
       /\ faultVpn' = [faultVpn EXCEPT ![t] = v]
  /\ accesses' = accesses + 1
  /\ Goto(t, i.a)
  /\ UNCHANGED <<schedVars, owner, waitq, value, preempts, prio, frames, pt, mem,
                 swapped, swap, cmHead, cmTail, cmSize, cmNext, cmRec, cmLive,
                 victim, found, shadow, forkVars>>

\* The Yield system call: Yield2 (exception.cc 695-697).
UserYield(t) ==
  LET i == Prog[pc[t]] IN
  /\ i.op = "User"
  /\ accesses < MaxAccess
  /\ accesses' = accesses + 1
  /\ YieldTo(t, pc[t])
  /\ UNCHANGED <<owner, waitq, value, preempts, prio, frames, pt, mem, swapped,
                 swap, cmHead, cmTail, cmSize, cmNext, cmRec, cmLive, victim,
                 found, faultVpn, shadow, forkVars>>

(* The Exit system call: SysCallExit ends in Thread::Finish; the process's *)
(* pages stay resident, since evictAll is commented out (exception.cc 271).*)
UserExit(t) ==
  LET i == Prog[pc[t]] IN
  /\ i.op = "User"
  /\ Goto(t, i.b)
  /\ UNCHANGED <<schedVars, owner, waitq, value, preempts, prio, pageVars>>

(* The Fork system call, for a thread whose Fork2 creates Kid[t]: a        *)
(* thread of the same space, created once.  The space's page table cannot *)
(* grow past VPages.                                                       *)
UserFork(t) ==
  LET i == Prog[pc[t]]  p == ProcOf[t] IN
  /\ i.op = "User"
  /\ accesses < MaxAccess
  /\ Kid[t] # NoThread /\ status[Kid[t]] = "JustCreated"
  /\ numPages[p] + StackPages <= Cardinality(VPages)
  /\ accesses' = accesses + 1
  /\ Goto(t, <<t, "FK1">>)
  /\ UNCHANGED <<schedVars, owner, waitq, value, preempts, prio, frames, pt, mem,
                 swapped, swap, cmHead, cmTail, cmSize, cmNext, cmRec, cmLive,
                 victim, found, faultVpn, shadow, forkVars>>

(* allocateThreadSpace's `if ((allocpage = AllocPage()) == -1)`: on -1 the *)
(* cleanup loop starts at j = numPages; otherwise the frame goes into      *)
(* newTable and the loop takes the next page or ends (addrspace.cc         *)
(* 381-402).                                                               *)
StackPage(t) ==
  LET i == Prog[pc[t]] IN
  /\ i.op = "StackPage"
  /\ \/ found[t] = -1 /\ stackJ' = [stackJ EXCEPT ![t] = 0] /\ Goto(t, i.b)
        /\ UNCHANGED newTable
     \/ /\ found[t] # -1
        /\ newTable' = [newTable EXCEPT ![t] = Append(@, found[t])]
        /\ Goto(t, IF Len(newTable[t]) + 1 = StackPages THEN i.next ELSE i.a)
        /\ UNCHANGED stackJ
  /\ UNCHANGED <<schedVars, owner, waitq, value, preempts, prio, frames, pt, mem,
                 swapped, swap, cmHead, cmTail, cmSize, cmNext, cmRec, cmLive,
                 victim, found, faultVpn, shadow, accesses, numPages>>

(* `for (j = numPages; j < i; j++)`: one FreePage per frame taken; at the  *)
(* end `delete newTable; return 0`, so Fork2 returns to the program and    *)
(* the frames in newTable stay allocated with nothing pointing to them.    *)
FreeTest(t) ==
  LET i == Prog[pc[t]] IN
  /\ i.op = "FreeTest"
  /\ \/ stackJ[t] < Len(newTable[t]) /\ Goto(t, i.a) /\ UNCHANGED newTable
     \/ stackJ[t] = Len(newTable[t]) /\ Goto(t, i.b)
        /\ newTable' = [newTable EXCEPT ![t] = <<>>]
  /\ UNCHANGED <<schedVars, owner, waitq, value, preempts, prio, frames, pt, mem,
                 swapped, swap, cmHead, cmTail, cmSize, cmNext, cmRec, cmLive,
                 victim, found, faultVpn, shadow, accesses, numPages, stackJ>>

(* pages->Clear(pageTable[j].physicalPage) inside FreePage: pageTable is  *)
(* still the old table of numPages entries and j >= numPages, so the read *)
(* is past its end and yields whatever the heap holds there: any frame     *)
(* number (an out-of-range one fails Clear's ASSERT).                      *)
ClearStale(t) ==
  LET i == Prog[pc[t]] IN
  /\ i.op = "ClearStale"
  /\ \E f \in FrameIds : frames' = frames \ {f}
  /\ stackJ' = [stackJ EXCEPT ![t] = @ + 1]
  /\ Goto(t, i.next)
  /\ UNCHANGED <<schedVars, owner, waitq, value, preempts, prio, pt, mem, swapped,
                 swap, cmHead, cmTail, cmSize, cmNext, cmRec, cmLive, victim, found,
                 faultVpn, shadow, accesses, numPages, newTable>>

(* pageTable = newTable: the new entries are valid, unused and clean, and  *)
(* their frames are zeroed; numPages grows (addrspace.cc 404-413).  No     *)
(* CorePage is made for them.                                              *)
InstallStack(t) ==
  LET i == Prog[pc[t]]  p == ProcOf[t]  n == numPages[p]  nt == newTable[t] IN
  /\ i.op = "InstallStack"
  /\ pt' = [pt EXCEPT ![p] = [v \in VPages |->
              IF v >= n /\ v < n + StackPages
              THEN [phys |-> nt[v - n + 1], valid |-> TRUE, use |-> FALSE, dirty |-> FALSE]
              ELSE @[v]]]
  /\ mem' = [f \in FrameIds |-> IF f \in ToSet(nt) THEN "zero" ELSE mem[f]]
  /\ numPages' = [numPages EXCEPT ![p] = n + StackPages]
  /\ newTable' = [newTable EXCEPT ![t] = <<>>]
  /\ Goto(t, i.next)
  /\ UNCHANGED <<schedVars, owner, waitq, value, preempts, prio, frames, swapped,
                 swap, cmHead, cmTail, cmSize, cmNext, cmRec, cmLive, victim, found,
                 faultVpn, shadow, accesses, stackJ>>

-----------------------------------------------------------------------------
\* coreMap->isFull() (addrspace.cc 846-853), the test of exception.cc 801
IsFull(t) ==
  LET i == Prog[pc[t]] IN
  /\ i.op = "IsFull"
  /\ Goto(t, IF cmSize = NumFrames THEN i.a ELSE i.b)
  /\ UNCHANGED <<schedVars, owner, waitq, value, preempts, prio, pageVars>>

(* CoreMap::evictCorePage (addrspace.cc 751-806) on the list as it is,     *)
(* as a record of the victim and the new head, links and page tables.     *)
(* The second-chance walk (785-804) clears `use` bits as it goes; when it *)
(* unlinks a record that is not the head it does not touch `tail`.        *)
RECURSIVE SecondChance(_, _, _)
SecondChance(travel, nx, ptx) ==
  IF nx = Null
  THEN [victim |-> cmHead, head |-> cmNext[cmHead], next |-> cmNext, pt |-> ptx]
  ELSE LET r == cmRec[nx] IN
       IF ptx[r.proc][r.vpn].use
       THEN SecondChance(nx, cmNext[nx], [ptx EXCEPT ![r.proc][r.vpn].use = FALSE])
       ELSE [victim |-> nx, head |-> cmHead,
             next |-> [cmNext EXCEPT ![travel] = cmNext[nx]], pt |-> ptx]

\* Mutation: FIFO eviction advances head before taking the victim.
EvictResultSwapped ==
  LET h == cmRec[cmHead]
      fifo == [victim |-> cmNext[cmHead], head |-> cmNext[cmHead], next |-> cmNext, pt |-> pt]
  IN IF cmHead = cmTail THEN [victim |-> cmHead, head |-> Null, next |-> cmNext, pt |-> pt]
     ELSE IF LRU = 0 \/ ~pt[h.proc][h.vpn].use THEN fifo
     ELSE SecondChance(cmHead, cmNext[cmHead], [pt EXCEPT ![h.proc][h.vpn].use = FALSE])

EvictResult ==
  LET h == cmRec[cmHead]
      fifo == [victim |-> cmHead, head |-> cmNext[cmHead], next |-> cmNext, pt |-> pt]
  IN IF cmHead = cmTail THEN [fifo EXCEPT !.head = Null]
     ELSE IF LRU = 0 \/ ~pt[h.proc][h.vpn].use THEN fifo
     ELSE SecondChance(cmHead, cmNext[cmHead], [pt EXCEPT ![h.proc][h.vpn].use = FALSE])

(* The victim is taken out of the CoreMap: size--, head, tail (only when   *)
(* the list had one record) and the links.  A NULL head with size > 0 is  *)
(* a NULL dereference in the code: the step cannot be taken.              *)
Evict(t) ==
  LET i == Prog[pc[t]]  r == EvictResult IN
  /\ i.op = "Evict"
  /\ cmSize > 0
  /\ cmHead # Null
  /\ victim' = [victim EXCEPT ![t] = r.victim]
  /\ cmHead' = r.head
  /\ cmTail' = IF cmHead = cmTail THEN Null ELSE cmTail
  /\ cmNext' = r.next
  /\ pt' = r.pt
  /\ cmSize' = cmSize - 1
  /\ Goto(t, i.next)
  /\ UNCHANGED <<schedVars, owner, waitq, value, preempts, prio, frames, mem, swapped,
                 swap, cmRec, cmLive, found, faultVpn, shadow, accesses, forkVars>>

\* Mutation: pageOut writes a dirty page but never marks it in `pages`.
PageOutNoMark(t) ==
  LET i == Prog[pc[t]]  r == cmRec[victim[t]]  e == pt[r.proc][r.vpn] IN
  /\ i.op = "PageOut"
  /\ IF e.dirty
     THEN swap' = [swap EXCEPT ![r.proc][r.vpn] = IF e.phys \in FrameIds THEN mem[e.phys] ELSE "zero"]
     ELSE UNCHANGED swap
  /\ pt' = [pt EXCEPT ![r.proc][r.vpn].valid = FALSE, ![r.proc][r.vpn].dirty = FALSE]
  /\ Goto(t, i.next)
  /\ UNCHANGED <<schedVars, owner, waitq, value, preempts, prio, frames, mem, cmHead,
                 cmTail, cmSize, cmNext, cmRec, cmLive, victim, found, faultVpn,
                 shadow, accesses, swapped, forkVars>>

(* BackingStore::pageOut (addrspace.cc 570-591) of the victim's page: a    *)
(* dirty page is written to the swap file and marked in `pages`; the entry *)
(* becomes invalid and clean.  The frame is the one the page table names. *)
PageOut(t) ==
  LET i == Prog[pc[t]]  r == cmRec[victim[t]]  e == pt[r.proc][r.vpn] IN
  /\ i.op = "PageOut"
  /\ IF e.dirty
     THEN /\ swapped' = [swapped EXCEPT ![r.proc] = @ \cup {r.vpn}]
          /\ swap' = [swap EXCEPT ![r.proc][r.vpn] = IF e.phys \in FrameIds THEN mem[e.phys] ELSE "zero"]
     ELSE UNCHANGED <<swapped, swap>>
  /\ pt' = [pt EXCEPT ![r.proc][r.vpn].valid = FALSE, ![r.proc][r.vpn].dirty = FALSE]
  /\ Goto(t, i.next)
  /\ UNCHANGED <<schedVars, owner, waitq, value, preempts, prio, frames, mem, cmHead,
                 cmTail, cmSize, cmNext, cmRec, cmLive, victim, found, faultVpn,
                 shadow, accesses, forkVars>>

(* pages->Clear(corePage->getPhysicalPage()) inside FreePage               *)
(* (addrspace.cc 489-493); BitMap::Clear ASSERTs the index is in range.    *)
Clear(t) ==
  LET i == Prog[pc[t]]  f == cmRec[victim[t]].phys IN
  /\ i.op = "Clear"
  /\ f \in FrameIds
  /\ frames' = frames \ {f}
  /\ Goto(t, i.next)
  /\ UNCHANGED <<schedVars, owner, waitq, value, preempts, prio, pt, mem, swapped,
                 swap, cmHead, cmTail, cmSize, cmNext, cmRec, cmLive, victim, found,
                 faultVpn, shadow, accesses, forkVars>>

\* delete corePage (exception.cc 806)
Delete(t) ==
  LET i == Prog[pc[t]] IN
  /\ i.op = "Delete"
  /\ cmLive' = cmLive \ {victim[t]}
  /\ victim' = [victim EXCEPT ![t] = Null]
  /\ Goto(t, i.next)
  /\ UNCHANGED <<schedVars, owner, waitq, value, preempts, prio, frames, pt, mem,
                 swapped, swap, cmHead, cmTail, cmSize, cmNext, cmRec, found,
                 faultVpn, shadow, accesses, forkVars>>

\* Mutation: BitMap::Find returns the lowest clear bit without marking it.
FindNoMark(t) ==
  LET i == Prog[pc[t]]  free == FrameIds \ frames  f == IF free = {} THEN -1 ELSE Min(free) IN
  /\ i.op = "Find"
  /\ found' = [found EXCEPT ![t] = f]
  /\ Goto(t, i.next)
  /\ UNCHANGED <<schedVars, owner, waitq, value, preempts, prio, pt, mem, swapped,
                 swap, cmHead, cmTail, cmSize, cmNext, cmRec, cmLive, victim,
                 faultVpn, shadow, accesses, frames, forkVars>>

(* pages->Find() inside AllocPage (addrspace.cc 477-483): the lowest clear *)
(* bit, now marked, or -1 when every frame is allocated.                   *)
Find(t) ==
  LET i == Prog[pc[t]]  free == FrameIds \ frames  f == IF free = {} THEN -1 ELSE Min(free) IN
  /\ i.op = "Find"
  /\ found' = [found EXCEPT ![t] = f]
  /\ frames' = IF f = -1 THEN frames ELSE frames \cup {f}
  /\ Goto(t, i.next)
  /\ UNCHANGED <<schedVars, owner, waitq, value, preempts, prio, pt, mem, swapped,
                 swap, cmHead, cmTail, cmSize, cmNext, cmRec, cmLive, victim,
                 faultVpn, shadow, accesses, forkVars>>

(* The frame's content after bzero and the load of allocVirtualPage: the  *)
(* swap file if the page was ever paged out, else the executable image    *)
(* (zero outside the code and data segments).                              *)
LoadedContent(p, v) == IF v \in swapped[p] THEN swap[p][v] ELSE Image[p][v]

(* The node ids `new CorePage` may return.  Ids nothing points to are     *)
(* interchangeable, so the lowest stands for all of them; a freed id that  *)
(* a stale pointer still names is a distinct outcome of malloc's reuse.    *)
NewNode ==
  LET free == Nodes \ cmLive
      named == {cmHead, cmTail} \cup {cmNext[n] : n \in cmLive} \cup {victim[t] : t \in Threads}
  IN (IF free = {} THEN {} ELSE {Min(free)}) \cup (free \cap named)

(* CoreMap::addCorePage (addrspace.cc 726-745) of the new record n, whose *)
(* constructor (645-651) has cleared `next`: at capacity it fails and n is *)
(* simply not linked; otherwise n is linked after `tail`, whatever `tail`  *)
(* points to.                                                              *)
AddCorePage(n) ==
  IF cmSize = NumFrames
  THEN /\ cmNext' = [cmNext EXCEPT ![n] = Null]
       /\ UNCHANGED <<cmHead, cmTail, cmSize>>
  ELSE /\ cmSize' = cmSize + 1
       /\ cmTail' = n
       /\ IF cmHead = Null
          THEN cmHead' = n /\ cmNext' = [cmNext EXCEPT ![n] = Null]
          ELSE cmNext' = [cmNext EXCEPT ![n] = Null, ![cmTail] = n] /\ UNCHANGED cmHead

(* The rest of allocVirtualPage after AllocPage (addrspace.cc 167-216):    *)
(* addCorePage(new CorePage(...)), whose error code is ignored, the        *)
(* page-table entry, and the frame's content.  With AllocPage's -1 the     *)
(* entry is valid with frame -1 and bzero writes outside mainMemory, which *)
(* the model leaves out.                                                   *)
MapPage(t) ==
  LET i == Prog[pc[t]]  p == ProcOf[t]  v == faultVpn[t]  f == found[t] IN
  /\ i.op = "MapPage"
  /\ \E n \in NewNode :
       /\ cmLive' = cmLive \cup {n}
       /\ cmRec' = [cmRec EXCEPT ![n] = [proc |-> p, phys |-> f, vpn |-> v]]
       /\ AddCorePage(n)
  /\ pt' = [pt EXCEPT ![p][v].phys = f, ![p][v].valid = TRUE]
  /\ mem' = IF f \in FrameIds THEN [mem EXCEPT ![f] = LoadedContent(p, v)] ELSE mem
  /\ Goto(t, i.next)
  /\ UNCHANGED <<schedVars, owner, waitq, value, preempts, prio, frames, swapped,
                 swap, victim, found, faultVpn, shadow, accesses, forkVars>>

\* A step of the running thread in user mode or in the fault handler.
PageStep(t) ==
  \/ Access(t) \/ FaultTrap(t) \/ UserYield(t) \/ UserExit(t) \/ IsFull(t)
  \/ Evict(t) \/ PageOut(t) \/ Clear(t) \/ Delete(t) \/ Find(t) \/ MapPage(t)
  \/ UserFork(t) \/ StackPage(t) \/ FreeTest(t) \/ ClearStale(t) \/ InstallStack(t)

-----------------------------------------------------------------------------
(* Main is the first process; it Execs the others (Exec2 ends in          *)
(* Thread::Fork of ProcessStartExec, exception.cc 477), then runs its own *)
(* program.                                                                *)
Execed == SetToSeq(Threads \ ({Main} \cup {Kid[t] : t \in Threads}))

RECURSIVE ExecCode(_)
ExecCode(k) ==
  IF k > Len(Execed) THEN <<>>
  ELSE (<<Main, "exec" \o ToString(k)>> :>
          Instr("Fork", Execed[k], <<Execed[k], "U">>,
                IF k = Len(Execed) THEN <<Main, "U">> ELSE <<Main, "exec" \o ToString(k + 1)>>,
                TRUE))
       @@ ExecCode(k + 1)

RECURSIVE AllCode(_)
AllCode(ts) ==
  IF ts = {} THEN ExecCode(1)
  ELSE LET t == CHOOSE u \in ts : TRUE IN
       FaultCode(t) @@ (IF Kid[t] = NoThread THEN <<>> ELSE ForkCode(t))
       @@ FinishCode(t) @@ AllCode(ts \ {t})

PagingProg == AllCode(Threads)

PagingStart == [t \in Threads |-> IF t = Main /\ Execed # <<>> THEN <<Main, "exec1">> ELSE <<t, "U">>]

NoPTE == [phys |-> -2, valid |-> FALSE, use |-> FALSE, dirty |-> FALSE]

Init ==
  /\ LifeInit
  /\ frames = {}
  /\ pt = [p \in Procs |-> [v \in VPages |-> NoPTE]]
  /\ mem = [f \in FrameIds |-> "zero"]
  /\ swapped = [p \in Procs |-> {}]
  /\ swap = [p \in Procs |-> [v \in VPages |-> "zero"]]
  /\ cmHead = Null /\ cmTail = Null /\ cmSize = 0
  /\ cmNext = [n \in Nodes |-> Null]
  /\ cmRec = [n \in Nodes |-> [proc |-> CHOOSE p \in Procs : TRUE, phys |-> -1,
                               vpn |-> CHOOSE v \in VPages : TRUE]]
  /\ cmLive = {}
  /\ victim = [t \in Threads |-> Null]
  /\ found = [t \in Threads |-> -1]
  /\ faultVpn = [t \in Threads |-> CHOOSE v \in VPages : TRUE]
  /\ shadow = Image
  /\ accesses = 0
  /\ numPages = [p \in Procs |-> InitPages]
  /\ newTable = [t \in Threads |-> <<>>]
  /\ stackJ = [t \in Threads |-> 0]

Next ==
  \/ Halted /\ UNCHANGED <<readyToJoin, pageVars>>
  \/ /\ running # NoThread
     /\ pc[running] # Done
     /\ \/ LifeStep(running) /\ UNCHANGED pageVars
        \/ PageStep(running) /\ UNCHANGED readyToJoin

\* The CPU always executes the running thread: weak fairness on Next.
Spec == Init /\ [][Next]_vars /\ WF_vars(Next)

-----------------------------------------------------------------------------
TypeOK ==
  /\ LifeTypeOK
  /\ frames \subseteq FrameIds
  /\ pt \in [Procs -> [VPages -> PTE]]
  /\ mem \in [FrameIds -> Content]
  /\ swapped \in [Procs -> SUBSET VPages]
  /\ swap \in [Procs -> [VPages -> Content]]
  /\ {cmHead, cmTail} \subseteq Nodes \cup {Null}
  /\ cmSize \in 0..NumFrames
  /\ cmNext \in [Nodes -> Nodes \cup {Null}]
  /\ cmRec \in [Nodes -> CoreRec]
  /\ cmLive \subseteq Nodes
  /\ victim \in [Threads -> Nodes \cup {Null}]
  /\ found \in [Threads -> FrameIds \cup {-1}]
  /\ faultVpn \in [Threads -> VPages]
  /\ shadow \in [Procs -> [VPages -> Content]]
  /\ accesses \in 0..MaxAccess
  /\ numPages \in [Procs -> InitPages .. Cardinality(VPages)]
  /\ newTable \in [Threads -> Seq(FrameIds)]
  /\ stackJ \in [Threads -> 0 .. StackPages]

\* The records reachable from head by `next`, cut off after MaxNodes + 1.
RECURSIVE ListFrom(_, _)
ListFrom(n, k) == IF n = Null \/ k = 0 THEN <<>> ELSE <<n>> \o ListFrom(cmNext[n], k - 1)
CoreList == ListFrom(cmHead, MaxNodes + 1)

\* The pages mapped to a frame, as <<space, virtual page>>.
AllPages == {<<p, v>> : p \in Procs, v \in VPages}
Mapped == {pv \in AllPages : pt[pv[1]][pv[2]].valid}
\* A thread between evictCorePage and pageOut holds a record still mapped.
Evicting == {<<cmRec[victim[t]].proc, cmRec[victim[t]].vpn>> : t \in {u \in Threads : pc[u] = <<u, "PF3">>}}

(* The CoreMap list is what evictCorePage relies on: walking `next` from   *)
(* head ends at NULL after exactly `size` records, the last one is `tail`, *)
(* and its records are exactly the mapped pages (less the victim a fault  *)
(* handler has just unlinked and not yet paged out).  addCorePage appends *)
(* through `tail` and evictCorePage unlinks from the middle, so a tail    *)
(* left on an unlinked record loses every page added after it.            *)
CoreMapTracksResident ==
  LET l == CoreList IN
  /\ Len(l) = cmSize
  /\ cmTail = (IF l = <<>> THEN Null ELSE l[Len(l)])
  /\ {<<cmRec[n].proc, cmRec[n].vpn>> : n \in ToSet(l)} \cup Evicting = Mapped

\* Frames a fault handler holds between Clear/Find and the end of the handler.
HeldFrames ==
  {cmRec[victim[t]].phys : t \in {u \in Threads : pc[u] \in {<<u, "PF4">>, <<u, "PF4a">>}}}
  \cup ({found[t] : t \in {u \in Threads : pc[u] \in {<<u, "PF8">>, <<u, "PF9">>, <<u, "FK3">>, <<u, "FK4">>}}}
         \cap FrameIds)
  \cup UNION {ToSet(newTable[t]) : t \in Threads}

(* Every mapped page owns a frame marked allocated in MemoryManager, no   *)
(* two mapped pages share a frame ("physical frame numbers are unique      *)
(* system-wide"), and every allocated frame is mapped or held by a fault   *)
(* handler in flight: eviction, FreePage and AllocPage keep the bitmap and *)
(* the page tables in step across the handler's lock operations.           *)
FrameAccounting ==
  /\ \A pv \in Mapped : pt[pv[1]][pv[2]].phys \in frames
  /\ \A pv, qv \in Mapped : pv # qv => pt[pv[1]][pv[2]].phys # pt[qv[1]][qv[2]].phys
  /\ frames = {pt[pv[1]][pv[2]].phys : pv \in Mapped} \cup HeldFrames

(* What a program stored is what it reads back: a mapped page's frame     *)
(* holds the page's last stored content, and an unmapped page would be     *)
(* reloaded with it -- from swap if it was dirty when paged out, else from *)
(* the executable.  Needs pageOut's dirty test, BackingStore::contains and *)
(* allocVirtualPage's choice between swap and image to agree.              *)
ContentPreserved ==
  \A p \in Procs, v \in VPages :
     IF pt[p][v].valid
     THEN pt[p][v].phys \in FrameIds => mem[pt[p][v].phys] = shadow[p][v]
     ELSE LoadedContent(p, v) = shadow[p][v]

=============================================================================
