----------------------------- MODULE MC_Mailbox -----------------------------
(* Mailbox for TLC: Main, two senders and two receivers; the tests of      *)
(* threadtest.cc with two messages instead of six.                         *)
EXTENDS Mailbox

CONSTANTS m, s1, s2, r1, r2          \* threads
CONSTANTS lm, ls1, ls2, lr1, lr2     \* their Thread::lock
CONSTANTS cm, cs1, cs2, cr1, cr2     \* their Thread::cv
CONSTANTS mb, sw, rw                 \* Mailbox::lock, sendWait, receiveWait

MCSenders == <<s1, s2>>
MCReceivers == <<r1, r2>>
MCThreads == {m, s1, s2, r1, r2}
MCLk == (m :> lm) @@ (s1 :> ls1) @@ (s2 :> ls2) @@ (r1 :> lr1) @@ (r2 :> lr2)
MCCv == (m :> cm) @@ (s1 :> cs1) @@ (s2 :> cs2) @@ (r1 :> cr1) @@ (r2 :> cr2)
MCJoinable == [t \in MCThreads |-> FALSE]
MCInitPriority == [t \in MCThreads |-> 0]
MCLocks == {MCLk[t] : t \in MCThreads} \cup {mb}
MCConds == {MCCv[t] : t \in MCThreads} \cup {sw, rw}
MCInitValue == [s \in {} |-> 0]
ThreadTests == {"simple", "senders", "receivers"}
AnyOrder == {"anyorder"}
\* The code, evaluated once: TLC caches a constant definition of this module.
MCProg == MailboxProg
MCStart == MailboxStart
=============================================================================
