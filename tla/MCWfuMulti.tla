--------------------------- MODULE MCWfuMulti ---------------------------
(* Calls and bounds for model checking WfuMulti: objects 1 and 2.          *)
EXTENDS WfuMulti

C(what, objs, obj, timeout, fast) ==
  [what |-> what, objs |-> objs, obj |-> obj, timeout |-> timeout, fast |-> fast, n |-> 1]
WaitAll(objs, timeout, fast) == C("waitall", objs, 0, timeout, fast)
WaitAny(objs, timeout, fast) == C("waitany", objs, 0, timeout, fast)
Signal(o, fast) == C("signal", <<>>, o, "zero", fast)
Exit == C("exit", <<>>, 0, "zero", FALSE)
SignalAndWait(o, w, timeout) == C("sigwait", <<w>>, o, timeout, FALSE)

AutoMutex == [o \in Objs |-> IF o = 1 THEN "auto" ELSE "mutex"]
TwoMutexes == [o \in Objs |-> "mutex"]

OwnedBy2(x) == [o \in Objs |-> IF o = x THEN <<2, 1>> ELSE <<0, 0>>]
FirstOwnedBy2 == OwnedBy2(1)
SecondOwnedBy2 == OwnedBy2(2)

(* Thread 1 waits for all or any of the objects.  Thread 2, which has the  *)
(* mutex, signals them, also in wineserver, wants the same locks in the    *)
(* opposite order, and may exit with the mutex.                            *)
LiveCalls == [t \in Threads |->
  IF t = 1 THEN {WaitAll(<<1, 2>>, "zero", TRUE), WaitAll(<<1, 2>>, "infinite", TRUE), WaitAny(<<2, 1>>, "infinite", TRUE)}
  ELSE {Signal(1, TRUE), Signal(2, TRUE), Signal(2, FALSE), WaitAny(<<2>>, "timed", FALSE),
        WaitAll(<<2, 1>>, "timed", TRUE), WaitAll(<<2, 1>>, "zero", FALSE), Exit}]
(* Thread 2 releases mutex 1 while it starts to wait for mutex 2, and      *)
(* releases that as well.                                                  *)
HandOver == [t \in Threads |-> IF t = 1 THEN {WaitAll(<<1, 2>>, "infinite", TRUE)}
                               ELSE {SignalAndWait(1, 2, "zero"), Signal(2, TRUE)}]

OneTwo == [t \in Threads |-> t]
=============================================================================
