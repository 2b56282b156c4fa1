----------------------------- MODULE MCObjects -----------------------------
(***************************************************************************)
(* WfuObject for every kind of object in one state space.  The scenario is *)
(* chosen in the first state and never changes, so that the state spaces   *)
(* of the scenarios lie side by side.                                      *)
(***************************************************************************)
EXTENDS Integers, Sequences

CONSTANTS Scenarios,  \* the scenarios to check, of DOMAIN Setting
          m1          \* the thread in a WaitAny

VARIABLES scenario,
          seen_unsignaled,  \* threads for which a "poll" object was unsignaled during their call
          word, pc, call, loc, left, cache_gen, doomed, srv, queue, slot, regs, reg_left

UlongSize == 16
C(what, timeout, fast, n) == [what |-> what, timeout |-> timeout, fast |-> fast, n |-> n]
Waits(timeouts, fast) == {C("wait", timeout, fast, 0) : timeout \in timeouts}
Signals == {C("signal", "zero", fast, 1) : fast \in BOOLEAN}
Releases == {C("signal", "zero", TRUE, n) : n \in {1, 2, UlongSize - 1}}
Reset == C("reset", "zero", TRUE, 0)
Pulse == C("pulse", "zero", FALSE, 0)
TryAll == C("tryall", "zero", FALSE, 0)
Exit == C("exit", "zero", FALSE, 0)

(* Thread 1 signals, thread 2 waits in wineserver or, for a manual-reset   *)
(* event, sleeps like thread 3.                                            *)
AutoCalls == <<Signals \cup {Reset, Pulse}, Waits({"timed"}, FALSE) \cup {TryAll}, Waits({"zero", "timed"}, TRUE)>>
ManualCalls == <<Signals \cup {Reset, Pulse}, Waits({"timed"}, TRUE) \cup Waits({"timed"}, FALSE), Waits({"timed"}, TRUE)>>
SemaphoreCalls == <<Releases \cup {C("signal", "zero", FALSE, 2)},
                    Waits({"timed"}, FALSE) \cup {TryAll},
                    Waits({"zero", "timed"}, TRUE)>>
MutexCalls == <<Waits({"zero", "timed"}, TRUE) \cup Signals \cup {Exit},
                Waits({"timed"}, TRUE) \cup Signals \cup {TryAll} \cup Waits({"infinite"}, FALSE)>>
(* Threads 1 and 2 wait in wineserver, 1 polls as well, 3 releases, while  *)
(* 1 is killed and the last handle closed.                                 *)
KilledCalls == <<Waits({"timed"}, FALSE) \cup Waits({"zero"}, TRUE), Waits({"infinite"}, FALSE), Signals>>
PollCalls(others) == <<{C("signal", "zero", TRUE, 1), TryAll} \cup others,
                       Waits({"zero"}, TRUE) \cup Waits({"zero"}, FALSE)>>

S(kind, low, high, calls, max) ==
  [kind |-> kind, low |-> low, high |-> high, calls |-> calls, max |-> max,
   killable |-> {}, closes |-> FALSE]
Setting ==
  [auto      |-> S("auto", 0, 0, AutoCalls, <<2, 1, 1>>),
   manual    |-> S("manual", 0, 1, ManualCalls, <<2, 1, 1>>),
   semaphore |-> S("semaphore", 0, 3, SemaphoreCalls, <<2, 1, 1>>),
   mutex     |-> S("mutex", 0, 0, MutexCalls, <<3, 2>>),
   torn_down |-> [S("semaphore", 0, 3, KilledCalls, <<2, 1, 1>>) EXCEPT !.killable = {1}, !.closes = TRUE],
   poll      |-> S("mutex", 0, 0, PollCalls(Waits({"infinite"}, FALSE)), <<3, 2>>),
   poll_event |-> S("auto", 1, 0, PollCalls({Reset}), <<2, 2>>)]

Object(s) == INSTANCE WfuObject WITH
  Kind <- Setting[s].kind, Threads <- DOMAIN Setting[s].calls, IntMax <- UlongSize \div 2 - 1,
  InitLow <- Setting[s].low, InitHigh <- Setting[s].high,
  CallsOf <- Setting[s].calls, MaxCalls <- Setting[s].max,
  MultiWaiters <- {m1}, MaxRegister <- 1,
  Killable <- Setting[s].killable, Closes <- Setting[s].closes

vars == <<scenario, seen_unsignaled, word, pc, call, loc, left, cache_gen, doomed, srv, queue, slot, regs, reg_left>>
Polls == scenario \in {"poll", "poll_event"}

Init == /\ scenario \in Scenarios /\ seen_unsignaled = {}
        /\ \E s \in Scenarios : scenario = s /\ Object(s)!Init
Next == \E s \in Scenarios :
          /\ scenario = s /\ Object(s)!Next
          /\ UNCHANGED scenario
          /\ seen_unsignaled' =
               {t \in DOMAIN call : /\ Polls /\ call'[t].what # "none"
                                    /\ \/ t \in seen_unsignaled
                                       \/ ~Object(s)!Signaled(word, t) /\ call[t].what # "none"
                                       \/ ~Object(s)!Signaled(word', t)}
Spec == Init /\ [][Next]_vars

-----------------------------------------------------------------------------
(* A thread that waits for several objects is never left asleep on one of  *)
(* them that is signaled: see WfuObject.                                   *)
NoLostMultiWake == \A s \in Scenarios : scenario = s => Object(s)!NoLostMultiWake

(* No thread sleeps on the address of a manual-reset event that is set,    *)
(* with no wake on its way: see WfuObject.                                 *)
NoLostAddressWake == \A s \in Scenarios : scenario = s => Object(s)!NoLostAddressWake

(* A thread that has exited owns no mutex any more: see WfuObject.         *)
DeadOwnsNothing == \A s \in Scenarios : scenario = s => Object(s)!DeadOwnsNothing

(* A WFUSync object of any kind is, to its callers, the object that        *)
(* wineserver keeps alone: every step of WfuObject is one of NtObject.     *)
ImplementsNtObject ==
  /\ \A s \in Scenarios : scenario = s => Object(s)!Nt!Init
  /\ [][\A s \in Scenarios : scenario = s => UNCHANGED Object(s)!Nt!vars \/ Object(s)!Nt!Next]_vars

(* A wait with a zero timeout that is not satisfied returns STATUS_TIMEOUT *)
(* only if the object was not signaled at some moment of the call: "un-    *)
(* supported waits and sensitive synchronization semantics remain on the   *)
(* Wine server fallback path" (README.md), so a word that wineserver has   *)
(* reserved must send the caller there and not home.                       *)
ZeroTimeoutTruthful ==
  [][\A t \in DOMAIN call :
       Polls /\ call[t].what = "wait" /\ call[t].timeout = "zero" /\ call'[t].what = "none"
       /\ loc[t].ret \notin {"success", "abandoned"} => t \in seen_unsignaled]_vars
=============================================================================
