------------------------------- MODULE Mailbox -------------------------------
(***************************************************************************)
(* Mailbox::Send and Mailbox::Receive (threads/synch.cc 469-552), written  *)
(* as code for the interpreter of Synch, and the mailbox tests of          *)
(* threads/threadtest.cc that drive them.  The Mailbox's Lock and its two  *)
(* Conditions are primitives of Synch; its three fields are variables      *)
(* here.  A message is abstracted to the identity of the Send that         *)
(* carries it: each sender thread sends once.                              *)
(***************************************************************************)
EXTENDS ThreadLifecycle

CONSTANTS
  Senders,     \* <<s1, ..., sN>>: the sender threads, in fork order
  Receivers,   \* <<r1, ..., rN>>: the receiver threads, in fork order
  MbLock,      \* Mailbox::lock
  SendWait,    \* Mailbox::sendWait
  ReceiveWait, \* Mailbox::receiveWait
  NoMessage,   \* model value: buffer = 0, no message in the buffer
  Tests        \* the tests Main may run: subset of TestNames

TestNames == {"simple", "senders", "receivers", "anyorder"}
SenderSet == ToSet(Senders)
ReceiverSet == ToSet(Receivers)
N == Len(Senders)

ASSUME Len(Receivers) = N /\ Tests \subseteq TestNames /\ Tests # {}
ASSUME SenderSet \cup ReceiverSet \subseteq Threads \ {Main}
ASSUME NoMessage \notin SenderSet

VARIABLES
  receivePres,  \* Mailbox::receivePres: Receive calls not yet matched
  buffer,       \* Mailbox::buffer: the message in transit, or NoMessage
  bufferRead,   \* Mailbox::bufferRead: 1 when buffer holds a message
  sent,         \* ghost: the Sends that have put their message
  got           \* ghost: Seq of the messages the Receives returned

mbVars == <<receivePres, buffer, bufferRead, sent, got>>
vars == <<lifeVars, mbVars>>

-----------------------------------------------------------------------------
(* The code.  Labels with a "w" are the loop tests reached again after a   *)
(* Wait, where the re-Acquire has just re-enabled interrupts.              *)

(* Mutation: Receive without the sendWait->Signal that tells waiting       *)
(* senders a receiver has arrived.                                         *)
ReceiveCodeNoSignal(t) ==
  LET L(s) == <<t, s>> IN
     (L("R1")  :> Instr("Acquire",  MbLock, MbLock, L("R2"), TRUE))
  @@ (L("R2")  :> Instr("Register", t, t, L("R4"), TRUE))
  @@ (L("R4")  :> Instr("RecvTest", L("R5"), L("R6"), L("R5"), FALSE))
  @@ (L("R4w") :> Instr("RecvTest", L("R5"), L("R6"), L("R5"), TRUE))
  @@ (L("R5")  :> Instr("Wait",     ReceiveWait, MbLock, L("R5a"), FALSE))
  @@ (L("R5a") :> Instr("Acquire",  MbLock, MbLock, L("R4w"), TRUE))
  @@ (L("R6")  :> Instr("Take",     t, t, L("R7"), FALSE))
  @@ (L("R7")  :> Instr("Release",  MbLock, MbLock, L("F1"), FALSE))

(* callReceive (threadtest.cc 481-483) -> Mailbox::Receive (synch.cc       *)
(* 534-552), then the thread's Finish.                                     *)
ReceiveCode(t) ==
  LET L(s) == <<t, s>> IN
     (L("R1")  :> Instr("Acquire",  MbLock, MbLock, L("R2"), TRUE))
  @@ (L("R2")  :> Instr("Register", t, t, L("R3"), TRUE))
  @@ (L("R3")  :> Instr("Signal",   SendWait, MbLock, L("R4"), FALSE))
  @@ (L("R4")  :> Instr("RecvTest", L("R5"), L("R6"), L("R5"), FALSE))
  @@ (L("R4w") :> Instr("RecvTest", L("R5"), L("R6"), L("R5"), TRUE))
  @@ (L("R5")  :> Instr("Wait",     ReceiveWait, MbLock, L("R5a"), FALSE))
  @@ (L("R5a") :> Instr("Acquire",  MbLock, MbLock, L("R4w"), TRUE))
  @@ (L("R6")  :> Instr("Take",     t, t, L("R7"), FALSE))
  @@ (L("R7")  :> Instr("Release",  MbLock, MbLock, L("F1"), FALSE))

(* callSend (threadtest.cc 490-492) -> Mailbox::Send (synch.cc 502-519),   *)
(* then the thread's Finish.                                               *)
SendCode(t) ==
  LET L(s) == <<t, s>> IN
     (L("S1")  :> Instr("Acquire",  MbLock, MbLock, L("S2"), TRUE))
  @@ (L("S2")  :> Instr("SendTest", L("S3"), L("S4"), L("S3"), TRUE))
  @@ (L("S3")  :> Instr("Wait",     SendWait, MbLock, L("S3a"), FALSE))
  @@ (L("S3a") :> Instr("Acquire",  MbLock, MbLock, L("S2"), TRUE))
  @@ (L("S4")  :> Instr("Put",      t, t, L("S5"), FALSE))
  @@ (L("S5")  :> Instr("Signal",   ReceiveWait, MbLock, L("S6"), FALSE))
  @@ (L("S6")  :> Instr("Release",  MbLock, MbLock, L("F1"), FALSE))

\* Fork x at `entry`, then MultiYield(n), at labels p<k> and p<k>.y1..yn.
ForkYield(p, k, x, entry, n, then) ==
  LET y == p \o ToString(k) \o "." IN
     (Lbl(Main, p, k) :> Instr("Fork", x, <<x, entry>>, Lbl(Main, y, 1), TRUE))
  @@ YieldN(Main, y, n, then)

(* The loop of MultiSender and of MultiReceive (threadtest.cc 509-531,     *)
(* 546-569): fork the k-th..N-th thread of ts at `entry`, MultiYield(40)   *)
(* after each.                                                             *)
RECURSIVE ForkEach(_, _, _, _, _)
ForkEach(p, ts, entry, k, then) ==
  IF k > N THEN EmptyCode
  ELSE ForkYield(p, k, ts[k], entry, 40, IF k = N THEN then ELSE Lbl(Main, p, k + 1))
       @@ ForkEach(p, ts, entry, k + 1, then)

\* The drivers, in threadtest.cc; each ends as main() does, in Finish.
MainCode ==
  LET F == <<Main, "F1">> IN
  \* MailBoxSimpleTest (577-619)
     ForkYield("ma", 1, Senders[1], "S1", 1, Lbl(Main, "ma", 2))
  @@ ForkYield("ma", 2, Receivers[1], "R1", 30, Lbl(Main, "ma", 3))
  @@ ForkYield("ma", 3, Receivers[2], "R1", 1, Lbl(Main, "ma", 4))
  @@ ForkYield("ma", 4, Senders[2], "S1", 30, F)
  \* MailBoxMultiSendersWaiting (626-634)
  @@ ForkEach("mb", Senders, "S1", 1, Lbl(Main, "mby", 1))
  @@ YieldN(Main, "mby", 40, Lbl(Main, "mbf", 1))
  @@ ForkEach("mbf", Receivers, "R1", 1, F)
  \* MailBoxMultiReceiveWaiting (642-654)
  @@ ForkEach("mc", Receivers, "R1", 1, Lbl(Main, "mcy", 1))
  @@ YieldN(Main, "mcy", 40, Lbl(Main, "mcf", 1))
  @@ ForkEach("mcf", Senders, "S1", 1, F)
  @@ FinishCode(Main)

\* The orders in which a client may fork the senders and receivers.
AnyOrders == SetToSeqs(SenderSet \cup ReceiverSet)

(* A client that forks every sender and receiver, in any order, and no    *)
(* MultiYield between the forks: the use synch.h 215-231 allows, which the *)
(* tests above do not make.                                                *)
AnyOrderCode ==
  LET Fk(o, k) == Lbl(Main, "any" \o ToString(o) \o ".", k)
      ForkAll(o) == [l \in {Fk(o, k) : k \in 1..Len(o)} |->
                      LET k == CHOOSE j \in 1..Len(o) : Fk(o, j) = l IN
                      Instr("Fork", o[k], <<o[k], IF o[k] \in SenderSet THEN "S1" ELSE "R1">>,
                            IF k = Len(o) THEN <<Main, "F1">> ELSE Fk(o, k + 1), TRUE)]
  IN FoldSet(LAMBDA o, acc : ForkAll(o) @@ acc, EmptyCode, AnyOrders)

\* The first labels of each test's driver.
TestEntries(x) ==
  CASE x = "simple"    -> {Lbl(Main, "ma", 1)}
    [] x = "senders"   -> {Lbl(Main, "mb", 1)}
    [] x = "receivers" -> {Lbl(Main, "mc", 1)}
    [] x = "anyorder"  -> {Lbl(Main, "any" \o ToString(o) \o ".", 1) : o \in AnyOrders}

\* switch (testnum) in ThreadTest (threadtest.cc 1380-1490)
MailboxProg ==
  (<<Main, "test">> :> Instr("Choose", UNION {TestEntries(x) : x \in Tests}, Main, Done, FALSE))
  @@ MainCode
  @@ AnyOrderCode
  @@ FoldSet(LAMBDA s, acc : SendCode(s) @@ FinishCode(s) @@ acc, EmptyCode, SenderSet)
  @@ FoldSet(LAMBDA r, acc : ReceiveCode(r) @@ FinishCode(r) @@ acc, EmptyCode, ReceiverSet)

MailboxStart == [t \in Threads |-> IF t = Main THEN <<Main, "test">> ELSE Done]

-----------------------------------------------------------------------------
\* while (bufferRead == 1 || receivePres <= 0) in Send (synch.cc 506)
SendTest(t) ==
  LET i == Prog[pc[t]] IN
  /\ i.op = "SendTest"
  /\ Goto(t, IF bufferRead = 1 \/ receivePres <= 0 THEN i.a ELSE i.b)
  /\ UNCHANGED mbVars

\* buffer = message; bufferRead = 1 (synch.cc 511-513)
Put(t) ==
  LET i == Prog[pc[t]] IN
  /\ i.op = "Put"
  /\ buffer' = t
  /\ bufferRead' = 1
  /\ sent' = sent \cup {t}
  /\ Goto(t, i.next)
  /\ UNCHANGED <<receivePres, got>>

\* receivePres++ (synch.cc 537)
Register(t) ==
  LET i == Prog[pc[t]] IN
  /\ i.op = "Register"
  /\ receivePres' = receivePres + 1
  /\ Goto(t, i.next)
  /\ UNCHANGED <<buffer, bufferRead, sent, got>>

\* while (bufferRead == 0) in Receive (synch.cc 540)
RecvTest(t) ==
  LET i == Prog[pc[t]] IN
  /\ i.op = "RecvTest"
  /\ Goto(t, IF bufferRead = 0 THEN i.a ELSE i.b)
  /\ UNCHANGED mbVars

\* Mutation: Receive takes the message but leaves bufferRead at 1.
TakeNoReset(t) ==
  LET i == Prog[pc[t]] IN
  /\ i.op = "Take"
  /\ got' = Append(got, buffer)
  /\ buffer' = NoMessage
  /\ receivePres' = receivePres - 1
  /\ Goto(t, i.next)
  /\ UNCHANGED <<bufferRead, sent>>

(* *message = buffer; buffer = 0; bufferRead = 0; receivePres--            *)
(* (synch.cc 546-549)                                                       *)
Take(t) ==
  LET i == Prog[pc[t]] IN
  /\ i.op = "Take"
  /\ got' = Append(got, buffer)
  /\ buffer' = NoMessage
  /\ bufferRead' = 0
  /\ receivePres' = receivePres - 1
  /\ Goto(t, i.next)
  /\ UNCHANGED sent

\* A step of the running thread inside Send or Receive.
MailboxStep(t) ==
  /\ \/ SendTest(t) \/ Put(t) \/ Register(t) \/ RecvTest(t) \/ Take(t)
  /\ UNCHANGED <<schedVars, owner, waitq, value, preempts, prio, readyToJoin>>

\* Mailbox::Mailbox (synch.cc 469-477)
MailboxInit ==
  /\ receivePres = 0
  /\ buffer = NoMessage
  /\ bufferRead = 0
  /\ sent = {}
  /\ got = <<>>

Init == LifeInit /\ MailboxInit

Next ==
  \/ Halted /\ UNCHANGED <<readyToJoin, mbVars>>
  \/ /\ running # NoThread
     /\ pc[running] # Done
     /\ \/ LifeStep(running) /\ UNCHANGED mbVars
        \/ MailboxStep(running)

\* The CPU always executes the running thread: weak fairness on Next.
Spec == Init /\ [][Next]_vars /\ WF_vars(Next)

-----------------------------------------------------------------------------
TypeOK ==
  /\ LifeTypeOK
  /\ receivePres \in 0..N
  /\ buffer \in SenderSet \cup {NoMessage}
  /\ bufferRead \in {0, 1}
  /\ sent \subseteq SenderSet
  /\ got \in Seq(SenderSet)

(* Every Send and every Receive returns ("Send ... waits until Receive is  *)
(* called ... copies the parameter into the Receive buffer and returns",   *)
(* synch.h 218-226): with as many Receives as Sends, the machine never     *)
(* halts with a sender or receiver asleep in the Mailbox.                  *)
MailboxCallsReturn ==
  running = NoThread => \A t \in SenderSet \cup ReceiverSet : status[t] = "JustCreated" \/ Finished(t)
=============================================================================
