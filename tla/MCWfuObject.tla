--------------------------- MODULE MCWfuObject ---------------------------
(* Calls and bounds for model checking WfuObject.                          *)
EXTENDS WfuObject

C(what, timeout, fast, n) == [what |-> what, timeout |-> timeout, fast |-> fast, n |-> n]
FastSignal == C("signal", "zero", TRUE, 1)
ServerSignal == C("signal", "zero", FALSE, 1)
Reset == C("reset", "zero", FALSE, 0)
TryAll == C("tryall", "zero", FALSE, 0)
Exit == C("exit", "zero", FALSE, 0)

(* Thread 1 sets and resets an event, on either path, and tries a WaitAll  *)
(* of wineserver; the others wait.                                         *)
LiveCalls == [t \in Threads |-> IF t = 1 THEN {FastSignal, ServerSignal, Reset, TryAll}
                                ELSE {C("wait", "timed", TRUE, 0), C("wait", "infinite", TRUE, 0)}]
(* Two threads take and release a mutex; thread 1 exits, or is killed.     *)
KilledCalls == [t \in Threads |-> IF t = 1 THEN {C("wait", "infinite", TRUE, 0), FastSignal, Exit}
                                  ELSE {C("wait", "infinite", fast, 0) : fast \in BOOLEAN} \cup {FastSignal}]
(* Thread 1 takes and releases a mutex on either path and exits; thread 2, *)
(* which may be killed, takes it on every path.                            *)
MutexCalls == [t \in Threads |-> IF t = 1 THEN {C("wait", "timed", TRUE, 0), FastSignal, ServerSignal, Exit}
                                 ELSE {C("wait", "timed", TRUE, 0), C("wait", "timed", FALSE, 0), TryAll}]

TwoOneOne == [t \in Threads |-> IF t = 1 THEN 2 ELSE 1]
TwoEach == [t \in Threads |-> 2]
=============================================================================
