-------------------------------- MODULE Whale --------------------------------
(***************************************************************************)
(* Whale::Male, Female and Matchmaker (threads/synch.cc 299-459), written  *)
(* as code for the interpreter of Synch, and WhaleTest of                  *)
(* threads/threadtest.cc that drives them.  The three methods are one code *)
(* with the kind of whale as a parameter: each counts its call, signals    *)
(* the other two kinds, waits until one call of each other kind is         *)
(* counted (or a call of its own kind has already passed), marks its kind  *)
(* found, and the call that completes the three flags runs resetAll.       *)
(***************************************************************************)
EXTENDS ThreadLifecycle

CONSTANTS
  Whales,      \* [Kinds -> Seq(Threads)]: the threads of each kind, in fork order
  WLock,       \* Whale::lock
  WCond,       \* [Kinds -> Conds]: maleWhale, femaleWhale, matchmaker
  Rounds,      \* Seq(Kinds \X Nat): the MultiMale/MultiFemale/MultiMatchmaker calls
  AnyWhales,   \* the whales the any-order client forks
  Tests        \* the tests Main may run: subset of TestNames

Kinds == <<"male", "female", "matchmaker">>
KindSet == ToSet(Kinds)
TestNames == {"whale", "anyorder"}
KindOf(t) == CHOOSE k \in KindSet : t \in ToSet(Whales[k])
WhaleSet == UNION {ToSet(Whales[k]) : k \in KindSet}
\* The other two kinds, in the order the code signals them.
Others(k) == SelectSeq(Kinds, LAMBDA o : o # k)

ASSUME DOMAIN Whales = KindSet /\ Tests \subseteq TestNames /\ Tests # {}
ASSUME AnyWhales \subseteq WhaleSet
ASSUME Threads = WhaleSet \cup {Main}

VARIABLES
  count,     \* [Kinds -> Int]: maleCount, femaleCount, matchmakerCount
  found      \* [Kinds -> {0, 1}]: maleFound, femaleFound, matchmakerFound

whVars == <<count, found>>
vars == <<lifeVars, whVars>>

-----------------------------------------------------------------------------
(* The code.  "W5w" is the loop test reached again after a Wait, where the *)
(* re-Acquire has just re-enabled interrupts.                              *)

(* Mutation: the arriving call signals neither of the other two kinds.     *)
WhaleCodeNoSignal(t) ==
  LET L(s) == <<t, s>>  k == KindOf(t) IN
     (L("W1")   :> Instr("Acquire",   WLock, WLock, L("W2"), TRUE))
  @@ (L("W2")   :> Instr("Arrive",    k, k, L("W5"), TRUE))
  @@ (L("W5")   :> Instr("WhaleTest", L("W6"), L("W7"), L("W6"), FALSE))
  @@ (L("W5w")  :> Instr("WhaleTest", L("W6"), L("W7"), L("W6"), TRUE))
  @@ (L("W6")   :> Instr("Wait",      WCond[k], WLock, L("W6a"), FALSE))
  @@ (L("W6a")  :> Instr("Acquire",   WLock, WLock, L("W5w"), TRUE))
  @@ (L("W7")   :> Instr("MarkFound", L("W8"), L("W11"), L("W8"), FALSE))
  @@ (L("W8")   :> Instr("ResetAll",  k, k, L("W9"), FALSE))
  @@ (L("W9")   :> Instr("Signal",    WCond["male"], WLock, L("W10"), FALSE))
  @@ (L("W10")  :> Instr("Signal",    WCond["female"], WLock, L("W10b"), FALSE))
  @@ (L("W10b") :> Instr("Signal",    WCond["matchmaker"], WLock, L("W11"), FALSE))
  @@ (L("W11")  :> Instr("Release",   WLock, WLock, L("F1"), FALSE))

(* callMale/callFemale/callMatchmaker (threadtest.cc 1220-1240) ->         *)
(* Whale::Male (365-388), Female (400-423) or Matchmaker (435-459), and    *)
(* resetAll (339-353) at W8..W10b; then the thread's Finish.               *)
WhaleCode(t) ==
  LET L(s) == <<t, s>>  k == KindOf(t)  o == Others(k) IN
     (L("W1")   :> Instr("Acquire",   WLock, WLock, L("W2"), TRUE))
  @@ (L("W2")   :> Instr("Arrive",    k, k, L("W3"), TRUE))
  @@ (L("W3")   :> Instr("Signal",    WCond[o[1]], WLock, L("W4"), FALSE))
  @@ (L("W4")   :> Instr("Signal",    WCond[o[2]], WLock, L("W5"), FALSE))
  @@ (L("W5")   :> Instr("WhaleTest", L("W6"), L("W7"), L("W6"), FALSE))
  @@ (L("W5w")  :> Instr("WhaleTest", L("W6"), L("W7"), L("W6"), TRUE))
  @@ (L("W6")   :> Instr("Wait",      WCond[k], WLock, L("W6a"), FALSE))
  @@ (L("W6a")  :> Instr("Acquire",   WLock, WLock, L("W5w"), TRUE))
  @@ (L("W7")   :> Instr("MarkFound", L("W8"), L("W11"), L("W8"), FALSE))
  @@ (L("W8")   :> Instr("ResetAll",  k, k, L("W9"), FALSE))
  @@ (L("W9")   :> Instr("Signal",    WCond["male"], WLock, L("W10"), FALSE))
  @@ (L("W10")  :> Instr("Signal",    WCond["female"], WLock, L("W10b"), FALSE))
  @@ (L("W10b") :> Instr("Signal",    WCond["matchmaker"], WLock, L("W11"), FALSE))
  @@ (L("W11")  :> Instr("Release",   WLock, WLock, L("F1"), FALSE))

\* The threads in the order the test forks them: Rounds flattened.
RECURSIVE ForkOrderFrom(_, _)
ForkOrderFrom(r, used) ==
  IF r > Len(Rounds) THEN <<>>
  ELSE LET k == Rounds[r][1]  n == Rounds[r][2] IN
       SubSeq(Whales[k], used[k] + 1, used[k] + n)
       \o ForkOrderFrom(r + 1, [used EXCEPT ![k] = @ + n])

ForkOrder == ForkOrderFrom(1, [k \in KindSet |-> 0])
Entry(x) == <<x, "W1">>

(* WhaleTest (threadtest.cc 1310-1327): the Multi* helpers (1250-1303)     *)
(* fork each whale and MultiYield(40); then MultiYield(40) and             *)
(* delete whale, and main's Finish.                                        *)
MainCode ==
  LET n == Len(ForkOrder)  Y(k) == "w" \o ToString(k) \o "." IN
     [l \in {Lbl(Main, "w", k) : k \in 1..n} |->
        LET k == CHOOSE j \in 1..n : Lbl(Main, "w", j) = l IN
        Instr("Fork", ForkOrder[k], Entry(ForkOrder[k]), Lbl(Main, Y(k), 1), TRUE)]
  @@ FoldSet(LAMBDA k, acc :
               YieldN(Main, Y(k), 40, IF k = n THEN Lbl(Main, "wy", 1) ELSE Lbl(Main, "w", k + 1))
               @@ acc, EmptyCode, 1..n)
  @@ YieldN(Main, "wy", 40, <<Main, "del">>)
  @@ (<<Main, "del">> :> Instr("DeleteWhale", WLock, WLock, <<Main, "F1">>, TRUE))
  @@ FinishCode(Main)

(* A client that forks the whales AnyWhales in any order, with no         *)
(* MultiYield between the forks (ForkAny): a use synch.h 150-170 allows   *)
(* that WhaleTest does not make.                                           *)
AnyOrderCode ==
  (<<Main, "any">> :> Instr("ForkAny", AnyWhales, [x \in AnyWhales |-> <<x, "W1">>], <<Main, "F1">>, TRUE))

TestEntries(x) == IF x = "whale" THEN {Lbl(Main, "w", 1)} ELSE {<<Main, "any">>}

\* switch (testnum) in ThreadTest (threadtest.cc 1380-1490)
WhaleProg ==
  (<<Main, "test">> :> Instr("Choose", UNION {TestEntries(x) : x \in Tests}, Main, Done, FALSE))
  @@ (IF "whale" \in Tests THEN MainCode ELSE FinishCode(Main))
  @@ (IF "anyorder" \in Tests THEN AnyOrderCode ELSE EmptyCode)
  @@ FoldSet(LAMBDA t, acc : WhaleCode(t) @@ FinishCode(t) @@ acc, EmptyCode, WhaleSet)

WhaleStart == [t \in Threads |-> IF t = Main THEN <<Main, "test">> ELSE Done]

-----------------------------------------------------------------------------
(* count++ of the caller's kind (synch.cc 368, 403, 438).                  *)
Arrive(t) ==
  LET i == Prog[pc[t]]  k == i.a IN
  /\ i.op = "Arrive"
  /\ count' = [count EXCEPT ![k] = @ + 1]
  /\ Goto(t, i.next)
  /\ UNCHANGED found

(* while ((count of other kind 1 < 1 || count of other kind 2 < 1) &&      *)
(*        found of own kind == 0)  (synch.cc 375, 410, 446)               *)
WhaleTest(t) ==
  LET i == Prog[pc[t]]  k == KindOf(t)  o == Others(k) IN
  /\ i.op = "WhaleTest"
  /\ Goto(t, IF (count[o[1]] < 1 \/ count[o[2]] < 1) /\ found[k] = 0 THEN i.a ELSE i.b)
  /\ UNCHANGED whVars

MarkFound(t) ==
  LET i == Prog[pc[t]]  k == KindOf(t)  f == [found EXCEPT ![k] = 1] IN
  /\ i.op = "MarkFound"
  /\ found' = f
  /\ Goto(t, IF \A x \in KindSet : f[x] = 1 THEN i.a ELSE i.b)
  /\ UNCHANGED count

(* resetAll, first half (synch.cc 340-347): one less call of each kind,    *)
(* no call being matched.  Its three Signals follow at W9..W10b.           *)
ResetAll(t) ==
  LET i == Prog[pc[t]] IN
  /\ i.op = "ResetAll"
  /\ count' = [x \in KindSet |-> count[x] - 1]
  /\ found' = [x \in KindSet |-> 0]
  /\ Goto(t, i.next)

(* delete whale: Whale::~Whale (synch.cc 326-331) deletes the three        *)
(* Conditions and the Lock, whose destructors ASSERT that no thread waits  *)
(* and the lock is free (synch.cc 118-121 and ~Condition).                 *)
DeleteWhale(t) ==
  LET i == Prog[pc[t]] IN
  /\ i.op = "DeleteWhale"
  /\ \A k \in KindSet : waitq[WCond[k]] = <<>>
  /\ owner[WLock] = NoThread /\ waitq[WLock] = <<>>
  /\ Goto(t, i.next)
  /\ UNCHANGED whVars

(* The client's fork loop: fork any whale not forked yet (as Thread::Fork, *)
(* thread.cc 108-120), and go on once all are forked.                      *)
ForkAny(t) ==
  LET i == Prog[pc[t]]  todo == {x \in i.a : status[x] = "JustCreated"} IN
  /\ i.op = "ForkAny"
  /\ \/ \E x \in todo :
          /\ status' = [status EXCEPT ![x] = "Ready"]
          /\ ready' = SortedInsert(ready, x)
          /\ pc' = [pc EXCEPT ![x] = i.b[x]]
     \/ todo = {} /\ Goto(t, i.next) /\ UNCHANGED <<status, ready>>
  /\ UNCHANGED <<running, started, toBeDestroyed, destroyed, owner, waitq, value, preempts, prio,
                 readyToJoin, whVars>>

\* A step of the running thread inside a Whale method.
WhaleStep(t) ==
  /\ \/ Arrive(t) \/ WhaleTest(t) \/ MarkFound(t) \/ ResetAll(t) \/ DeleteWhale(t)
  /\ UNCHANGED <<schedVars, owner, waitq, value, preempts, prio, readyToJoin>>

\* Whale::Whale (synch.cc 299-317)
WhaleInit ==
  /\ count = [k \in KindSet |-> 0]
  /\ found = [k \in KindSet |-> 0]

Init == LifeInit /\ WhaleInit

Next ==
  \/ Halted /\ UNCHANGED <<readyToJoin, whVars>>
  \/ /\ running # NoThread
     /\ pc[running] # Done
     /\ \/ LifeStep(running) /\ UNCHANGED whVars
        \/ WhaleStep(running)
        \/ ForkAny(running)

\* The CPU always executes the running thread: weak fairness on Next.
Spec == Init /\ [][Next]_vars /\ WF_vars(Next)

-----------------------------------------------------------------------------
NW == Cardinality(WhaleSet)

TypeOK ==
  /\ LifeTypeOK
  /\ count \in [KindSet -> -NW..NW]
  /\ found \in [KindSet -> {0, 1}]

(* Every call returns: the machine never halts with a whale asleep, and    *)
(* WhaleTest's delete whale, whose destructors ASSERT that nobody waits,   *)
(* is only reached when every whale has been matched.                      *)
WhaleCallsReturn ==
  /\ running = NoThread => \A t \in WhaleSet : status[t] = "JustCreated" \/ Finished(t)
  /\ pc[Main] = <<Main, "del">> => \A k \in KindSet : waitq[WCond[k]] = <<>>
=============================================================================
