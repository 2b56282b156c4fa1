------------------------------ MODULE MCMulti ------------------------------
(***************************************************************************)
(* WfuMulti for four ways to use two objects, in one state space: the      *)
(* scenario is chosen in the first state and never changes.                *)
(***************************************************************************)
EXTENDS Integers, Sequences

CONSTANTS Scenarios  \* the scenarios to check, of DOMAIN Setting

VARIABLES scenario, word, pc, call, loc, left, cache_gen, srv, queue, slot, reg

C(what, objs, obj, timeout, fast) ==
  [what |-> what, objs |-> objs, obj |-> obj, timeout |-> timeout, fast |-> fast, n |-> 1]
WaitAll(objs, timeout, fast) == C("waitall", objs, 0, timeout, fast)
WaitAny(objs, timeout, fast) == C("waitany", objs, 0, timeout, fast)
Signal(o, fast) == C("signal", <<>>, o, "zero", fast)
Reset(o, fast) == C("reset", <<>>, o, "zero", fast)
Exit == C("exit", <<>>, 0, "zero", FALSE)
SignalAndWait(o, w, timeout) == C("sigwait", <<w>>, o, timeout, FALSE)

Setting ==
  [all |->     \* threads 1 and 2 take both objects, in opposite orders; 3 signals
     [kinds |-> <<"auto", "semaphore">>, words |-> <<<<0, 0>>, <<0, 2>>>>,
      calls |-> <<{WaitAll(<<1, 2>>, "timed", TRUE)},
                  {WaitAll(<<2, 1>>, "zero", TRUE)},
                  {Signal(1, TRUE), Signal(2, TRUE)}>>],
   any |->     \* waits for any: 1 in the fast path, 2 there or in wineserver; 3 has the mutex
     [kinds |-> <<"auto", "mutex">>, words |-> <<<<0, 0>>, <<3, 1>>>>,
      calls |-> <<{WaitAny(<<1, 2>>, "timed", TRUE)},
                  {WaitAny(<<2, 1>>, "zero", TRUE), WaitAny(<<2>>, "timed", FALSE)},
                  {Signal(1, TRUE), Signal(2, TRUE), Exit}>>],
   select |->  \* wineserver's select: mixed waits, SignalObjectAndWait, a manual-reset event
     [kinds |-> <<"manual", "semaphore">>, words |-> <<<<0, 1>>, <<0, 2>>>>,
      calls |-> <<{WaitAll(<<1, 2>>, "zero", TRUE), WaitAll(<<2, 1>>, "timed", FALSE),
                   WaitAny(<<2, 1>>, "zero", FALSE), WaitAny(<<1, 2>>, "zero", TRUE)},
                  {SignalAndWait(1, 2, "infinite"), SignalAndWait(2, 2, "timed"), SignalAndWait(2, 1, "zero")},
                  {Signal(1, TRUE), Signal(2, TRUE), Signal(1, FALSE), Reset(1, TRUE), Reset(1, FALSE)}>>],
   mutex |->   \* mutexes of thread 3: taken together, released one by one, abandoned by exit
     [kinds |-> <<"mutex", "mutex">>, words |-> <<<<3, 1>>, <<3, 1>>>>,
      calls |-> <<{WaitAll(<<1, 2>>, "infinite", TRUE)},
                  {WaitAll(<<2, 1>>, "infinite", TRUE)},
                  {Signal(1, TRUE), Signal(2, FALSE), Exit}>>]]

Objects(s) == INSTANCE WfuMulti WITH
  Objs <- {1, 2}, KindOf <- Setting[s].kinds, Threads <- {1, 2, 3}, IntMax <- 7, UlongSize <- 16,
  InitWord <- Setting[s].words, CallsOf <- Setting[s].calls, MaxCalls <- <<1, 1, 2>>

vars == <<scenario, word, pc, call, loc, left, cache_gen, srv, queue, slot, reg>>

Init == scenario \in Scenarios /\ \E s \in Scenarios : scenario = s /\ Objects(s)!Init
Next == \E s \in Scenarios : scenario = s /\ Objects(s)!Next /\ UNCHANGED scenario
Spec == Init /\ [][Next]_vars

-----------------------------------------------------------------------------
(* WaitAll takes everything at one moment or nothing, WaitAny one object,  *)
(* on every path: every step of WfuMulti is one of NtMulti.                *)
ImplementsNtMulti ==
  /\ \A s \in Scenarios : scenario = s => Objects(s)!Nt!Init
  /\ [][\A s \in Scenarios : scenario = s => UNCHANGED Objects(s)!Nt!vars \/ Objects(s)!Nt!Next]_vars
=============================================================================
