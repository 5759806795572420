------------------------------ MODULE MC_Whale ------------------------------
(* Whale for TLC.  WhaleTest forks four whales of each kind in the order   *)
(* of its Multi* calls; the any-order client uses two of each.             *)
EXTENDS Whale

CONSTANTS m, ma1, ma2, ma3, ma4, fe1, fe2, fe3, fe4, mk1, mk2, mk3, mk4   \* threads
CONSTANTS lm, lma1, lma2, lma3, lma4, lfe1, lfe2, lfe3, lfe4, lmk1, lmk2, lmk3, lmk4   \* Thread::lock
CONSTANTS cm, cma1, cma2, cma3, cma4, cfe1, cfe2, cfe3, cfe4, cmk1, cmk2, cmk3, cmk4   \* Thread::cv
CONSTANTS wl, cmale, cfemale, cmm   \* Whale::lock, maleWhale, femaleWhale, matchmaker

\* WhaleTest (threadtest.cc 1310-1327)
TestWhales == [male |-> <<ma1, ma2, ma3, ma4>>, female |-> <<fe1, fe2, fe3, fe4>>, matchmaker |-> <<mk1, mk2, mk3, mk4>>]
TestRounds == <<<<"male", 3>>, <<"female", 1>>, <<"matchmaker", 2>>,
                <<"female", 3>>, <<"matchmaker", 2>>, <<"male", 1>>>>
TestThreads == {m, ma1, ma2, ma3, ma4, fe1, fe2, fe3, fe4, mk1, mk2, mk3, mk4}
\* Two whales of each kind for the any-order client.
SmallWhales == [male |-> <<ma1, ma2>>, female |-> <<fe1, fe2>>, matchmaker |-> <<mk1, mk2>>]
SmallThreads == {m, ma1, ma2, fe1, fe2, mk1, mk2}
SmallWhaleSet == SmallThreads \ {m}
NoRounds == <<>>

MCLk == (m :> lm) @@ (ma1 :> lma1) @@ (ma2 :> lma2) @@ (ma3 :> lma3) @@ (ma4 :> lma4) @@ (fe1 :> lfe1) @@ (fe2 :> lfe2) @@ (fe3 :> lfe3) @@ (fe4 :> lfe4) @@ (mk1 :> lmk1) @@ (mk2 :> lmk2) @@ (mk3 :> lmk3) @@ (mk4 :> lmk4)
MCCv == (m :> cm) @@ (ma1 :> cma1) @@ (ma2 :> cma2) @@ (ma3 :> cma3) @@ (ma4 :> cma4) @@ (fe1 :> cfe1) @@ (fe2 :> cfe2) @@ (fe3 :> cfe3) @@ (fe4 :> cfe4) @@ (mk1 :> cmk1) @@ (mk2 :> cmk2) @@ (mk3 :> cmk3) @@ (mk4 :> cmk4)
MCWCond == [male |-> cmale, female |-> cfemale, matchmaker |-> cmm]
MCJoinable == [t \in Threads |-> FALSE]
\* female->setPriority(100) before its Fork (threadtest.cc 1279)
MCInitPriority == [t \in Threads |-> IF t \in {fe1, fe2, fe3, fe4} THEN 100 ELSE 0]
MCLocks == {MCLk[t] : t \in Threads} \cup {wl}
MCConds == {MCCv[t] : t \in Threads} \cup {cmale, cfemale, cmm}
MCInitValue == [s \in {} |-> 0]
WhaleTests == {"whale"}
AnyOrder == {"anyorder"}
BothTests == {"whale", "anyorder"}
\* The code, evaluated once: TLC caches a constant definition of this module.
MCProg == WhaleProg
MCStart == WhaleStart
=============================================================================
