------------------------------ MODULE SrwLock ------------------------------
(***************************************************************************)
(* SRW locks and the condition variables that are used with them, of       *)
(* dlls/ntdll/sync.c.  A lock is one 32-bit word of two halves:            *)
(* exclusive_waiters (bit 0: held exclusively, the bits above: how many    *)
(* want it so) and owners.  Exclusive waiters wait on the address of       *)
(* owners, shared waiters on that of the whole word, sleepers on that of   *)
(* the condition variable; the waits are those of AddressQueue.            *)
(*                                                                         *)
(* A loop that ends with a successful InterlockedCompareExchange acts on   *)
(* the value it read as long as that is the current one, so it is one      *)
(* step.                                                                   *)
(***************************************************************************)
EXTENDS AddressQueue, Integers, FiniteSets

CONSTANTS Threads,
          ShortSize,   \* number of values of the C short
          LongSize,    \* number of values of the C LONG
          CallsOf,     \* CallsOf[t]: the calls thread t makes
          MaxCalls     \* bound: MaxCalls[t] calls of thread t, releases not counted

Ops == {"exclusive", "shared", "try_exclusive", "try_shared",
        "release", "sleep", "wake_one", "wake_all"}

ThreadsAssumption == IsFiniteSet(Threads)
WidthAssumption == /\ ShortSize \in Nat /\ LongSize \in Nat /\ ShortSize % 2 = 0
                   /\ ShortSize > 2 * Cardinality(Threads) + 1 /\ LongSize > 1
CallsAssumption == CallsOf \in [Threads -> SUBSET Ops]
BoundAssumption == MaxCalls \in [Threads -> Nat]

(* What an instance must satisfy.                                         *)
Assumptions == /\ ThreadsAssumption /\ WidthAssumption /\ CallsAssumption
               /\ BoundAssumption

VARIABLES exclusive_waiters, owners,
          cv,      \* the condition variable
          queue,   \* who waits on which address
          pc, call, left,
          hold,    \* hold[t]: how t has the lock
          old      \* old[t]: what t read before it waits or wakes

word == <<exclusive_waiters, owners>>
vars == <<word, cv, queue, pc, call, left, hold, old>>

Nothing == [excl |-> 0, owners |-> 0, cv |-> 0]

Init == /\ exclusive_waiters = 0 /\ owners = 0 /\ cv = 0 /\ queue = <<>>
        /\ pc = [t \in Threads |-> "idle"] /\ call = [t \in Threads |-> "none"] /\ left = MaxCalls
        /\ hold = [t \in Threads |-> "none"] /\ old = [t \in Threads |-> Nothing]

Goto(t, l) == pc' = [pc EXCEPT ![t] = l]
Move(t, from, to) == pc[t] = from /\ Goto(t, to) /\ UNCHANGED <<call, left>>
Return(t) == Goto(t, "idle") /\ call' = [call EXCEPT ![t] = "none"]
Hold(t, mode) == hold' = [hold EXCEPT ![t] = mode]
Read(t, e, o) == old' = [old EXCEPT ![t] = [excl |-> e, owners |-> o, cv |-> @.cv]]

HeldExclusive(e) == e % 2 = 1
Set(e) == IF HeldExclusive(e) THEN e ELSE e + 1
Clear(e) == IF HeldExclusive(e) THEN e - 1 ELSE e

---------------------------------------------------------------------------
(* The program: it releases and sleeps with what it holds, and acquires    *)
(* only when it holds nothing.                                             *)
FirstStep(t, op) ==
  CASE op = "exclusive" -> "ae_add"
    [] op = "shared" -> "as_try"
    [] op = "release" -> IF hold[t] = "exclusive" THEN "re_cas" ELSE "rs_cas"
    [] OTHER -> op

Begin(t, op) ==
  /\ pc[t] = "idle" /\ op \in CallsOf[t]
  /\ op \in {"release", "sleep"} => hold[t] # "none"
  /\ op \in {"exclusive", "shared", "try_exclusive", "try_shared"} => hold[t] = "none"
  /\ \/ op = "release" /\ UNCHANGED left
     \/ op # "release" /\ left[t] > 0 /\ left' = [left EXCEPT ![t] = @ - 1]
  /\ call' = [call EXCEPT ![t] = IF op = "sleep" THEN hold[t] ELSE op]
  /\ Goto(t, FirstStep(t, op))
  /\ UNCHANGED <<word, cv, queue, hold, old>>

---------------------------------------------------------------------------
(* RtlAcquireSRWLockExclusive and RtlTryAcquireSRWLockExclusive.           *)

ae_add(t) ==
  /\ Move(t, "ae_add", "ae_try")
  /\ exclusive_waiters' = (exclusive_waiters + 2) % ShortSize
  /\ UNCHANGED <<owners, cv, queue, hold, old>>

RtlAcquireSRWLockExclusive(t) ==
  /\ pc[t] = "ae_try"
  /\ IF owners = 0
     THEN /\ owners' = 1 /\ exclusive_waiters' = Set((exclusive_waiters - 2) % ShortSize)
          /\ Hold(t, "exclusive") /\ Return(t) /\ UNCHANGED old
     ELSE /\ Read(t, exclusive_waiters, owners) /\ Goto(t, "ae_wait")
          /\ UNCHANGED <<word, hold, call>>
  /\ UNCHANGED <<cv, queue, left>>

(* Mutant: the lock is taken while it has owners.                          *)
GrantExclusive_always == TRUE
GrantExclusive == owners = 0

RtlTryAcquireSRWLockExclusive(t) ==
  /\ pc[t] = "try_exclusive" /\ Return(t)
  /\ IF GrantExclusive
     THEN owners' = 1 /\ exclusive_waiters' = Set(exclusive_waiters) /\ Hold(t, "exclusive")
     ELSE UNCHANGED <<word, hold>>
  /\ UNCHANGED <<cv, queue, left, old>>

(* RtlAcquireSRWLockShared and RtlTryAcquireSRWLockShared.                 *)
(* Mutant: only the count of waiters is looked at, not the bit of the      *)
(* owner.                                                                  *)
GrantShared_unheld == exclusive_waiters < 2
GrantShared == exclusive_waiters = 0

RtlAcquireSRWLockShared(t) ==
  /\ pc[t] \in {"as_try", "try_shared"}
  /\ IF GrantShared
     THEN /\ owners' = (owners + 1) % ShortSize
          /\ Hold(t, "shared") /\ Return(t) /\ UNCHANGED old
     ELSE /\ UNCHANGED <<owners, hold>>
          /\ IF pc[t] = "try_shared" THEN Return(t) /\ UNCHANGED old
             ELSE Read(t, exclusive_waiters, owners) /\ Goto(t, "as_wait") /\ UNCHANGED call
  /\ UNCHANGED <<exclusive_waiters, cv, queue, left>>

---------------------------------------------------------------------------
(* RtlReleaseSRWLockExclusive and RtlReleaseSRWLockShared, each with the   *)
(* wake that follows; what the wake is for was decided by the word that    *)
(* the exchange left.                                                      *)

Released(t) == IF call[t] = "release" THEN Return(t) ELSE Goto(t, "cv_wait") /\ UNCHANGED call

release_exclusive(t) ==
  /\ Move(t, "re_cas", "re_wake")
  /\ owners' = 0 /\ exclusive_waiters' = Clear(exclusive_waiters)
  /\ Read(t, Clear(exclusive_waiters), 0) /\ Hold(t, "none")
  /\ UNCHANGED <<cv, queue>>

(* Mutant: only the threads that wait for the whole word are woken.        *)
WakeExclusive_none(t) == FALSE
WakeExclusive(t) == old[t].excl # 0

RtlReleaseSRWLockExclusive(t) ==
  /\ pc[t] = "re_wake" /\ Released(t)
  /\ queue' = IF WakeExclusive(t) THEN WakeSingle(queue, "owners") ELSE WakeAll(queue, "lock")
  /\ UNCHANGED <<word, cv, left, hold, old>>

release_shared(t) ==
  /\ Move(t, "rs_cas", "rs_wake")
  /\ owners' = (owners - 1) % ShortSize
  /\ Read(t, exclusive_waiters, owners') /\ Hold(t, "none")
  /\ UNCHANGED <<exclusive_waiters, cv, queue>>

RtlReleaseSRWLockShared(t) ==
  /\ pc[t] = "rs_wake" /\ Released(t)
  /\ queue' = IF old[t].owners = 0 THEN WakeSingle(queue, "owners") ELSE queue
  /\ UNCHANGED <<word, cv, left, hold, old>>

---------------------------------------------------------------------------
(* RtlSleepConditionVariableSRW: the value is read with the lock held.     *)
RtlSleepConditionVariableSRW(t) ==
  /\ Move(t, "sleep", IF hold[t] = "exclusive" THEN "re_cas" ELSE "rs_cas")
  /\ old' = [old EXCEPT ![t].cv = cv]
  /\ UNCHANGED <<word, cv, queue, hold>>

(* RtlWakeConditionVariable and RtlWakeAllConditionVariable.               *)
cv_change(t) ==
  /\ pc[t] \in {"wake_one", "wake_all"}
  /\ cv' = (cv + 1) % LongSize
  /\ Goto(t, "cv_wake")
  /\ UNCHANGED <<word, queue, call, left, hold, old>>

RtlWakeConditionVariable(t) ==
  /\ pc[t] = "cv_wake" /\ Return(t)
  /\ queue' = IF call[t] = "wake_one" THEN WakeSingle(queue, "cv") ELSE WakeAll(queue, "cv")
  /\ UNCHANGED <<word, cv, left, hold, old>>

---------------------------------------------------------------------------
(* RtlWaitOnAddress: the comparison and the queueing are one step.         *)
Address(l) == CASE l = "ae_wait" -> "owners" [] l = "as_wait" -> "lock" [] l = "cv_wait" -> "cv"
(* Mutant: the condition variable is compared with itself.                 *)
Unchanged_cv(t) == CASE pc[t] = "ae_wait" -> owners = old[t].owners
                     [] pc[t] = "as_wait" -> owners = old[t].owners /\ exclusive_waiters = old[t].excl
                     [] pc[t] = "cv_wait" -> TRUE
Unchanged(t) == CASE pc[t] = "ae_wait" -> owners = old[t].owners
                  [] pc[t] = "as_wait" -> owners = old[t].owners /\ exclusive_waiters = old[t].excl
                  [] pc[t] = "cv_wait" -> cv = old[t].cv

(* Where a thread goes on after a wait.                                    *)
Again(t) == CASE pc[t] \in {"ae_wait", "ae_sleep"} -> "ae_try"
              [] pc[t] \in {"as_wait", "as_sleep"} -> "as_try"
              [] OTHER -> IF call[t] = "exclusive" THEN "ae_add" ELSE "as_try"
Sleeping(t) == CASE pc[t] = "ae_wait" -> "ae_sleep" [] pc[t] = "as_wait" -> "as_sleep"
                 [] pc[t] = "cv_wait" -> "cv_sleep"

RtlWaitOnAddress(t) ==
  /\ pc[t] \in {"ae_wait", "as_wait", "cv_wait"}
  /\ IF Unchanged(t) THEN queue' = Wait(queue, t, Address(pc[t])) /\ Goto(t, Sleeping(t))
     ELSE Goto(t, Again(t)) /\ UNCHANGED queue
  /\ UNCHANGED <<word, cv, call, left, hold, old>>

Asleep3 == {"ae_sleep", "as_sleep", "cv_sleep"}

(* Mutant: a thread goes on and leaves its entry in the queue.             *)
woken_linked(t) == /\ pc[t] \in Asleep3 /\ Goto(t, Again(t))
                   /\ UNCHANGED <<word, cv, queue, call, left, hold, old>>
woken(t) == /\ pc[t] \in Asleep3 /\ t \notin Asleep(queue) /\ Goto(t, Again(t))
            /\ UNCHANGED <<word, cv, queue, call, left, hold, old>>

(* An alert for an earlier wait, or the time of the sleep is over.         *)
leave_wait(t) == /\ pc[t] \in Asleep3 /\ t \in Asleep(queue)
                 /\ queue' = Leave(queue, t) /\ Goto(t, Again(t))
                 /\ UNCHANGED <<word, cv, call, left, hold, old>>

---------------------------------------------------------------------------
Acquires(t) == ae_add(t) \/ RtlAcquireSRWLockExclusive(t) \/ RtlAcquireSRWLockShared(t)
               \/ RtlTryAcquireSRWLockExclusive(t)
Releases(t) == \/ release_exclusive(t) \/ RtlReleaseSRWLockExclusive(t)
               \/ release_shared(t) \/ RtlReleaseSRWLockShared(t)
Condition(t) == RtlSleepConditionVariableSRW(t) \/ cv_change(t) \/ RtlWakeConditionVariable(t)

Step(t) == Acquires(t) \/ Releases(t) \/ Condition(t) \/ RtlWaitOnAddress(t) \/ woken(t)

Next == \E t \in Threads : (\E op \in Ops : Begin(t, op)) \/ Step(t) \/ leave_wait(t)

Spec == Init /\ [][Next]_vars

(* Threads run, and the program gives back what it holds.                  *)
Fairness == \A t \in Threads : WF_vars(Step(t)) /\ WF_vars(Begin(t, "release"))
LiveSpec == Spec /\ Fairness

---------------------------------------------------------------------------
(* Properties.                                                             *)

Labels == {"idle", "ae_add", "ae_try", "ae_wait", "ae_sleep", "as_try", "as_wait", "as_sleep",
           "try_exclusive", "try_shared", "re_cas", "re_wake", "rs_cas", "rs_wake",
           "sleep", "cv_wait", "cv_sleep", "wake_one", "wake_all", "cv_wake"}

(* Types; who releases holds, and who is queued sleeps.                    *)
TypeOK ==
  /\ exclusive_waiters \in 0 .. ShortSize - 1 /\ owners \in 0 .. ShortSize - 1 /\ cv \in 0 .. LongSize - 1
  /\ pc \in [Threads -> Labels] /\ call \in [Threads -> Ops \cup {"none"}]
  /\ left \in [Threads -> Nat] /\ hold \in [Threads -> {"none", "shared", "exclusive"}]
  /\ queue \in Seq([who : Threads, on : {"owners", "lock", "cv"}])
  /\ old \in [Threads -> [excl : 0 .. ShortSize - 1, owners : 0 .. ShortSize - 1, cv : 0 .. LongSize - 1]]
  /\ \A t \in Threads : /\ pc[t] = "re_cas" => hold[t] = "exclusive"
                        /\ pc[t] = "rs_cas" => hold[t] = "shared"
  /\ \A i \in DOMAIN queue : pc[queue[i].who] \in Asleep3

(* The word tells the truth: how many threads want the lock exclusively,   *)
(* whether one has it, and how many owners there are.                      *)
Wanting == {t \in Threads : pc[t] \in {"ae_try", "ae_wait", "ae_sleep"}}
Holding(mode) == {t \in Threads : hold[t] = mode}
WordExact ==
  /\ exclusive_waiters = 2 * Cardinality(Wanting) + Cardinality(Holding("exclusive"))
  /\ owners = Cardinality(Holding("exclusive")) + Cardinality(Holding("shared"))

(* The lock is a readers-writer lock.                                      *)
Lock == INSTANCE RwLock WITH
          held <- [t \in Threads |-> [mode |-> hold[t], depth |-> IF hold[t] = "none" THEN 0 ELSE 1]]
(* Nobody sleeps for a lock that nobody will wake it for: while it sleeps, *)
(* somebody has the lock, or is awake and wants it, or is about to wake.   *)
Sleeps(t, a) == \E i \in DOMAIN queue : queue[i] = [who |-> t, on |-> a]
NoStuckWaiter ==
  /\ \A t \in Threads : Sleeps(t, "owners") =>
        \/ owners # 0
        \/ \E u \in Threads : \/ u \in Wanting /\ ~Sleeps(u, "owners")
                              \/ pc[u] = "re_wake" /\ old[u].excl # 0
                              \/ pc[u] = "rs_wake" /\ old[u].owners = 0
  /\ \A t \in Threads : Sleeps(t, "lock") =>
        \/ exclusive_waiters # 0
        \/ \E u \in Threads : pc[u] = "re_wake" /\ old[u].excl = 0

(* A thread that has read the variable and given up the lock does not      *)
(* sleep through a RtlWakeAllConditionVariable that comes after.           *)
WakeAllNotMissed ==
  \A t \in Threads : Sleeps(t, "cv") /\ old[t].cv # cv => \E u \in Threads : pc[u] = "cv_wake"

(* t wants the lock, perhaps because it comes back from a condition        *)
(* variable.                                                               *)
Acquiring(t) == pc[t] \in {"ae_add", "ae_try", "ae_wait", "ae_sleep", "as_try", "as_wait", "as_sleep"}
====
