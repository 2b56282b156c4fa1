------------------------------ MODULE CritSect ------------------------------
(***************************************************************************)
(* Critical sections and the condition variables used with them, of        *)
(* dlls/ntdll/sync.c.  LockCount counts, from -1, everybody who has the    *)
(* section or wants it; the owner hands it to one of the waiters by a      *)
(* token in LockSemaphore, a word to wait for by address or a handle of a  *)
(* semaphore.  Waits by address are those of AddressQueue.                 *)
(***************************************************************************)
EXTENDS AddressQueue, Integers, FiniteSets

CONSTANTS Threads,
          HasHandle,  \* LockSemaphore is the handle of a semaphore
          SpinCount,
          CallsOf,    \* CallsOf[t]: the calls thread t makes
          MaxDepth,   \* bound: how often a thread enters without leaving
          MaxCalls    \* bound: MaxCalls[t] calls of thread t, leaving not counted

Ops == {"enter", "try", "leave", "sleep", "wake", "shutdown"}

ThreadsAssumption == IsFiniteSet(Threads) /\ Threads \subseteq Nat \ {0}
HandleAssumption == HasHandle \in BOOLEAN
SpinAssumption == SpinCount \in Nat /\ MaxDepth \in Nat
CallsAssumption == CallsOf \in [Threads -> SUBSET Ops]
BoundAssumption == MaxCalls \in [Threads -> Nat]

(* What an instance must satisfy.                                         *)
Assumptions == /\ ThreadsAssumption /\ HandleAssumption /\ SpinAssumption
               /\ CallsAssumption /\ BoundAssumption

VARIABLES LockCount, RecursionCount, OwningThread,
          LockSemaphore,  \* the token: the word, or the count of the semaphore
          cv, queue,
          alive,          \* threads that LdrShutdownProcess has not ended
          shutdown,       \* RtlDllShutdownInProgress()
          pc, call, left,
          depth,          \* depth[t]: how often t has entered
          spin,           \* spin[t]: rounds t still spins
          value           \* value[t]: the condition variable as t read it

section == <<LockCount, RecursionCount, OwningThread, LockSemaphore>>
process == <<alive, shutdown>>
vars == <<section, cv, queue, process, pc, call, left, depth, spin, value>>

Init == /\ LockCount = -1 /\ RecursionCount = 0 /\ OwningThread = 0 /\ LockSemaphore = 0
        /\ cv = 0 /\ queue = <<>> /\ alive = Threads /\ shutdown = FALSE
        /\ pc = [t \in Threads |-> "idle"] /\ call = [t \in Threads |-> "none"] /\ left = MaxCalls
        /\ depth = [t \in Threads |-> 0] /\ spin = [t \in Threads |-> 0] /\ value = [t \in Threads |-> 0]

Goto(t, l) == pc' = [pc EXCEPT ![t] = l]
Move(t, from, to) == pc[t] = from /\ Goto(t, to) /\ UNCHANGED <<call, left>>
Return(t) == Goto(t, "idle") /\ call' = [call EXCEPT ![t] = "none"] /\ UNCHANGED left
Enter1(t) == depth' = [depth EXCEPT ![t] = @ + 1]
Leave1(t) == depth' = [depth EXCEPT ![t] = @ - 1]

---------------------------------------------------------------------------
(* The program: it leaves what it entered, and sleeps with the section     *)
(* entered once.                                                           *)
StartEnter == IF SpinCount > 0 THEN "try" ELSE "inc"

Begin(t, op) ==
  /\ t \in alive /\ pc[t] = "idle" /\ op \in CallsOf[t] /\ op # "shutdown"
  /\ op = "leave" => depth[t] > 0
  /\ op = "sleep" => depth[t] = 1
  /\ op \in {"enter", "try"} => depth[t] < MaxDepth
  /\ \/ op = "leave" /\ UNCHANGED left
     \/ op # "leave" /\ left[t] > 0 /\ left' = [left EXCEPT ![t] = @ - 1]
  /\ call' = [call EXCEPT ![t] = op]
  /\ Goto(t, IF op = "enter" THEN StartEnter ELSE op)
  /\ spin' = [spin EXCEPT ![t] = SpinCount]
  /\ UNCHANGED <<section, cv, queue, process, depth, value>>

(* RtlExitUserProcess: the other threads are ended wherever they are, and  *)
(* from then on nobody blocks.                                             *)
LdrShutdownProcess(t) ==
  /\ t \in alive /\ pc[t] = "idle" /\ "shutdown" \in CallsOf[t] /\ ~shutdown
  /\ shutdown' = TRUE /\ alive' = {t}
  /\ UNCHANGED <<section, cv, queue, pc, call, left, depth, spin, value>>

---------------------------------------------------------------------------
(* RtlTryEnterCriticalSection, also the first step of an enter that spins. *)
RtlTryEnterCriticalSection(t) ==
  /\ pc[t] = "try"
  /\ IF LockCount = -1 THEN /\ LockCount' = 0 /\ Enter1(t) /\ Goto(t, "own")
                            /\ UNCHANGED <<RecursionCount, call, left>>
     ELSE IF OwningThread = t
     THEN LockCount' = LockCount + 1 /\ RecursionCount' = RecursionCount + 1 /\ Enter1(t) /\ Return(t)
     ELSE /\ UNCHANGED <<LockCount, RecursionCount, depth>>
          /\ IF call[t] = "try" THEN Return(t) ELSE Goto(t, "spin") /\ UNCHANGED <<call, left>>
  /\ UNCHANGED <<OwningThread, LockSemaphore, cv, queue, process, spin, value>>

(* RtlEnterCriticalSection: a round of the loop; the count may change      *)
(* before it is exchanged.                                                 *)
spin_round(t) ==
  /\ pc[t] = "spin"
  /\ Goto(t, IF spin[t] = 0 \/ LockCount > 0 THEN "inc" ELSE IF LockCount = -1 THEN "grab" ELSE "spin")
  /\ spin' = [spin EXCEPT ![t] = IF @ = 0 THEN 0 ELSE @ - 1]
  /\ UNCHANGED <<section, cv, queue, process, call, left, depth, value>>

spin_grab(t) ==
  /\ pc[t] = "grab"
  /\ IF LockCount = -1 THEN LockCount' = 0 /\ Enter1(t) /\ Goto(t, "own")
     ELSE Goto(t, "spin") /\ UNCHANGED <<LockCount, depth>>
  /\ UNCHANGED <<RecursionCount, OwningThread, LockSemaphore, cv, queue, process, call, left, spin, value>>

enter_inc(t) ==
  /\ pc[t] = "inc"
  /\ LockCount' = LockCount + 1
  /\ IF LockCount = -1 THEN Enter1(t) /\ Goto(t, "own") ELSE Goto(t, "owned") /\ UNCHANGED depth
  /\ UNCHANGED <<RecursionCount, OwningThread, LockSemaphore, cv, queue, process, call, left, spin, value>>

IsOwner(t) == OwningThread = t

RtlEnterCriticalSection(t) ==
  /\ pc[t] = "owned"
  /\ IF IsOwner(t) THEN RecursionCount' = RecursionCount + 1 /\ Enter1(t) /\ Return(t)
     ELSE Goto(t, "wait") /\ UNCHANGED <<RecursionCount, depth, call, left>>
  /\ UNCHANGED <<LockCount, OwningThread, LockSemaphore, cv, queue, process, spin, value>>

(* RtlpWaitForCriticalSection and wait_semaphore.                          *)
(* Mutant: the process is not asked about.                                 *)
DontBlock_never == FALSE
DontBlock == shutdown

RtlpWaitForCriticalSection(t) ==
  /\ pc[t] = "wait"
  /\ IF DontBlock THEN Enter1(t) /\ Goto(t, "own") ELSE Goto(t, "token") /\ UNCHANGED depth
  /\ UNCHANGED <<section, cv, queue, process, call, left, spin, value>>

(* Mutant: the token is seen, but left where it is.                        *)
Taken_kept == LockSemaphore
Taken == LockSemaphore - 1

wait_semaphore(t) ==
  /\ pc[t] = "token"
  /\ \/ LockSemaphore > 0 /\ LockSemaphore' = Taken /\ Enter1(t) /\ Goto(t, "own")
     \/ /\ LockSemaphore = 0 /\ ~HasHandle
        /\ Goto(t, "compare") /\ UNCHANGED <<LockSemaphore, depth>>
  /\ UNCHANGED <<LockCount, RecursionCount, OwningThread, cv, queue, process, call, left, spin, value>>

(* The section is the thread's own.                                        *)
(* Mutant: the owner is not noted.                                         *)
entered_unknown(t) ==
  /\ pc[t] = "own" /\ RecursionCount' = 1 /\ Return(t)
  /\ UNCHANGED <<LockCount, OwningThread, LockSemaphore, cv, queue, process, depth, spin, value>>
entered(t) ==
  /\ pc[t] = "own" /\ OwningThread' = t /\ RecursionCount' = 1 /\ Return(t)
  /\ UNCHANGED <<LockCount, LockSemaphore, cv, queue, process, depth, spin, value>>

---------------------------------------------------------------------------
(* RtlLeaveCriticalSection.                                                *)
After(t) == IF call[t] = "sleep" THEN Goto(t, "cv_compare") /\ UNCHANGED <<call, left>> ELSE Return(t)

leave_recursion(t) ==
  /\ Move(t, "leave", IF RecursionCount = 1 THEN "disown" ELSE "dec")
  /\ RecursionCount' = RecursionCount - 1
  /\ UNCHANGED <<LockCount, OwningThread, LockSemaphore, cv, queue, process, depth, spin, value>>

leave_inner(t) ==
  /\ pc[t] = "dec" /\ LockCount' = LockCount - 1 /\ Leave1(t) /\ After(t)
  /\ UNCHANGED <<RecursionCount, OwningThread, LockSemaphore, cv, queue, process, spin, value>>

(* Mutant: the owner is left in place.                                     *)
leave_owner_late(t) ==
  /\ Move(t, "disown", "count")
  /\ UNCHANGED <<section, cv, queue, process, depth, spin, value>>
leave_owner(t) ==
  /\ Move(t, "disown", "count") /\ OwningThread' = 0
  /\ UNCHANGED <<LockCount, RecursionCount, LockSemaphore, cv, queue, process, depth, spin, value>>

(* Mutant: a single waiter is overlooked.                                  *)
SomeoneWaits_more(c) == c > 0
SomeoneWaits(c) == c >= 0

RtlLeaveCriticalSection(t) ==
  /\ pc[t] = "count" /\ LockCount' = LockCount - 1 /\ Leave1(t)
  /\ IF SomeoneWaits(LockCount - 1) THEN Goto(t, "unwait") /\ UNCHANGED <<call, left>> ELSE After(t)
  /\ UNCHANGED <<RecursionCount, OwningThread, LockSemaphore, cv, queue, process, spin, value>>

(* RtlpUnWaitCriticalSection.                                              *)
RtlpUnWaitCriticalSection(t) ==
  /\ pc[t] = "unwait"
  /\ LockSemaphore' = IF HasHandle THEN LockSemaphore + 1 ELSE 1
  /\ IF HasHandle THEN After(t) ELSE Goto(t, "notify") /\ UNCHANGED <<call, left>>
  /\ UNCHANGED <<LockCount, RecursionCount, OwningThread, cv, queue, process, depth, spin, value>>

unwait_wake(t) ==
  /\ pc[t] = "notify" /\ queue' = WakeSingle(queue, "semaphore") /\ After(t)
  /\ UNCHANGED <<section, cv, process, depth, spin, value>>

---------------------------------------------------------------------------
(* RtlSleepConditionVariableCS: the value is read, the section left; and   *)
(* RtlWakeConditionVariable.                                               *)
RtlSleepConditionVariableCS(t) ==
  /\ Move(t, "sleep", "leave") /\ value' = [value EXCEPT ![t] = cv]
  /\ UNCHANGED <<section, cv, queue, process, depth, spin>>

cv_change(t) ==
  /\ Move(t, "wake", "cv_wake") /\ cv' = cv + 1
  /\ UNCHANGED <<section, queue, process, depth, spin, value>>

RtlWakeConditionVariable(t) ==
  /\ pc[t] = "cv_wake" /\ queue' = WakeSingle(queue, "cv") /\ Return(t)
  /\ UNCHANGED <<section, cv, process, depth, spin, value>>

(* RtlWaitOnAddress.                                                       *)
Address(t) == IF pc[t] = "compare" THEN "semaphore" ELSE "cv"
Unchanged(t) == IF pc[t] = "compare" THEN LockSemaphore = 0 ELSE cv = value[t]
Again(t) == IF pc[t] \in {"compare", "asleep"} THEN "token" ELSE StartEnter

RtlWaitOnAddress(t) ==
  /\ pc[t] \in {"compare", "cv_compare"}
  /\ IF Unchanged(t) THEN /\ queue' = Wait(queue, t, Address(t))
                          /\ Goto(t, IF pc[t] = "compare" THEN "asleep" ELSE "cv_asleep")
     ELSE Goto(t, Again(t)) /\ UNCHANGED queue
  /\ UNCHANGED <<section, cv, process, call, left, depth, spin, value>>

woken(t) == /\ pc[t] \in {"asleep", "cv_asleep"} /\ t \notin Asleep(queue) /\ Goto(t, Again(t))
            /\ UNCHANGED <<section, cv, queue, process, call, left, depth, spin, value>>
leave_wait(t) == /\ pc[t] \in {"asleep", "cv_asleep"} /\ t \in Asleep(queue)
                 /\ queue' = Leave(queue, t) /\ Goto(t, Again(t))
                 /\ UNCHANGED <<section, cv, process, call, left, depth, spin, value>>

---------------------------------------------------------------------------
Enters(t) == \/ RtlTryEnterCriticalSection(t) \/ spin_round(t) \/ spin_grab(t) \/ enter_inc(t)
             \/ RtlEnterCriticalSection(t) \/ RtlpWaitForCriticalSection(t) \/ wait_semaphore(t) \/ entered(t)
Leaves(t) == \/ leave_recursion(t) \/ leave_inner(t) \/ leave_owner(t)
             \/ RtlLeaveCriticalSection(t) \/ RtlpUnWaitCriticalSection(t) \/ unwait_wake(t)
Condition(t) == RtlSleepConditionVariableCS(t) \/ cv_change(t) \/ RtlWakeConditionVariable(t)

Step(t) == t \in alive /\ (Enters(t) \/ Leaves(t) \/ Condition(t) \/ RtlWaitOnAddress(t) \/ woken(t))

Next == \E t \in Threads : \/ \E op \in Ops : Begin(t, op)
                           \/ LdrShutdownProcess(t) \/ Step(t)
                           \/ t \in alive /\ leave_wait(t)

Spec == Init /\ [][Next]_vars

(* Threads run, and the program leaves the sections it entered.  A waiter  *)
(* on a handle gets the token in the end, as each leave puts one there.    *)
Fairness == \A t \in Threads : /\ WF_vars(Step(t)) /\ WF_vars(Begin(t, "leave"))
                               /\ SF_vars(t \in alive /\ wait_semaphore(t))
LiveSpec == Spec /\ Fairness

---------------------------------------------------------------------------
(* Properties.                                                             *)

Labels == {"idle", "try", "spin", "grab", "inc", "owned", "wait", "token", "compare", "asleep", "own",
           "leave", "dec", "disown", "count", "unwait", "notify",
           "sleep", "wake", "cv_wake", "cv_compare", "cv_asleep"}

(* Types; who is queued sleeps.                                            *)
TypeOK ==
  /\ LockCount \in Int /\ RecursionCount \in Int /\ OwningThread \in Threads \cup {0} /\ LockSemaphore \in Nat
  /\ cv \in Nat /\ queue \in Seq([who : Threads, on : {"semaphore", "cv"}])
  /\ alive \subseteq Threads /\ shutdown \in BOOLEAN
  /\ pc \in [Threads -> Labels] /\ call \in [Threads -> Ops \cup {"none"}] /\ left \in [Threads -> Nat]
  /\ depth \in [Threads -> Nat] /\ spin \in [Threads -> Nat] /\ value \in [Threads -> Nat]
  /\ \A i \in DOMAIN queue : pc[queue[i].who] \in {"asleep", "cv_asleep"}

(* At most one thread that still runs is in the section, however it came   *)
(* in: freshly, by spinning, by the token or at shutdown.                  *)
Inside(t) == t \in alive /\ depth[t] > 0
MutualExclusion == \A t, u \in Threads : Inside(t) /\ Inside(u) => t = u

(* Until the shutdown the section is passed on by one token, which is      *)
(* there only when nobody is inside, and every claim is counted.           *)
Wanting == {t \in Threads : pc[t] \in {"owned", "wait", "token", "compare", "asleep"}}
Handing == {t \in Threads : pc[t] = "unwait"}
OneToken ==
  ~shutdown =>
     /\ LockSemaphore + Cardinality(Handing) <= 1
     /\ LockSemaphore + Cardinality(Handing) = 1 => \A t \in Threads : depth[t] = 0
     /\ Wanting # {} => LockCount >= 0

(* Between its calls a thread is told by RtlIsCriticalSectionLockedByThread*)
(* whether it is inside, and RecursionCount is how often it entered.       *)
OwnerTold ==
  \A t \in alive : pc[t] = "idle" =>
     /\ (OwningThread = t /\ RecursionCount # 0) <=> depth[t] > 0
     /\ depth[t] > 0 => RecursionCount = depth[t]

(* When no thread is inside or in a call the section is as it was made, so *)
(* RtlDeleteCriticalSection finds nothing to lose.                         *)
Quiescent == \A t \in Threads : pc[t] = "idle" /\ depth[t] = 0
CleanWhenFree == Quiescent => LockCount = -1 /\ RecursionCount = 0 /\ OwningThread = 0 /\ LockSemaphore = 0

(* t is on its way into the section, and was not ended by a shutdown.      *)
Entering(t) == t \in alive /\ pc[t] \in {"inc", "owned", "wait", "token", "compare", "asleep", "own"}

(* A sleeper that a wake has taken out of the queue (comment of            *)
(* RtlSleepConditionVariableCS: "Afterwards it enters the critical section *)
(* again and returns").                                                    *)
Roused(t) == t \in alive /\ pc[t] = "cv_asleep" /\ t \notin Asleep(queue)
====
