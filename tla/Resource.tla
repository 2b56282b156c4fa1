------------------------------ MODULE Resource ------------------------------
(***************************************************************************)
(* RTL_RWLOCK resources of dlls/ntdll/sync.c: RtlAcquireResourceExclusive, *)
(* RtlAcquireResourceShared and RtlReleaseResource.  What a thread does    *)
(* inside the critical section rtlCS is one step.  The waiters sleep on    *)
(* two semaphores; a writer that is woken competes again, while the        *)
(* readers that are woken have been counted as active before.              *)
(***************************************************************************)
EXTENDS Integers, FiniteSets

CONSTANTS Threads,
          Ops,         \* the calls that are made, of AllOps
          MaxCalls     \* bound on the acquisitions of each thread

AllOps == {"exclusive", "shared", "try_exclusive", "try_shared"}

ThreadsAssumption == IsFiniteSet(Threads)
OpsAssumption == Ops \subseteq AllOps
BoundAssumption == MaxCalls \in Nat

(* What an instance must satisfy.                                         *)
Assumptions == /\ ThreadsAssumption /\ OpsAssumption /\ BoundAssumption

VARIABLES iNumberActive, uExclusiveWaiters, uSharedWaiters, hOwningThreadId,
          hExclusiveReleaseSemaphore, hSharedReleaseSemaphore,
          pc, call, left,
          status,  \* status[t]: whether t's wait for the shared semaphore returned STATUS_WAIT_0
          held     \* held[t]: how t has the lock, and how often: see RwLock

lock == <<iNumberActive, uExclusiveWaiters, uSharedWaiters, hOwningThreadId>>
sems == <<hExclusiveReleaseSemaphore, hSharedReleaseSemaphore>>
vars == <<lock, sems, pc, call, left, status, held>>

Nobody == 0
Free == [mode |-> "none", depth |-> 0]

(* RtlInitializeResource.                                                  *)
Init == /\ iNumberActive = 0 /\ uExclusiveWaiters = 0 /\ uSharedWaiters = 0
        /\ hOwningThreadId = Nobody
        /\ hExclusiveReleaseSemaphore = 0 /\ hSharedReleaseSemaphore = 0
        /\ pc = [t \in Threads |-> "idle"] /\ call = [t \in Threads |-> "none"]
        /\ left = [t \in Threads |-> MaxCalls]
        /\ status = [t \in Threads |-> FALSE] /\ held = [t \in Threads |-> Free]

Goto(t, l) == pc' = [pc EXCEPT ![t] = l]
Return(t) == Goto(t, "idle") /\ call' = [call EXCEPT ![t] = "none"]
Waits(t) == call[t] \in {"exclusive", "shared"}   \* fWait

(* The program: who has the lock shared does not wait for it exclusively.  *)
Begin(t, op) ==
  /\ pc[t] = "idle" /\ op \in Ops /\ left[t] > 0
  /\ op = "exclusive" => held[t].mode # "shared"
  /\ Goto(t, IF op \in {"exclusive", "try_exclusive"} THEN "acquire_exclusive" ELSE "acquire_shared")
  /\ call' = [call EXCEPT ![t] = op] /\ left' = [left EXCEPT ![t] = @ - 1]
  /\ status' = [status EXCEPT ![t] = FALSE]
  /\ UNCHANGED <<lock, sems, held>>

Granted(t, mode) == held' = [held EXCEPT ![t] = [mode |-> mode, depth |-> @.depth + 1]]
Recursive(t) == iNumberActive < 0 /\ hOwningThreadId = t

---------------------------------------------------------------------------
(* RtlAcquireResourceExclusive and RtlAcquireResourceShared.               *)

(* Either of them by the thread that has the lock exclusively.             *)
acquire_again(t) ==
  /\ pc[t] \in {"acquire_exclusive", "acquire_shared"} /\ Recursive(t)
  /\ iNumberActive' = iNumberActive - 1 /\ Granted(t, "exclusive") /\ Return(t)
  /\ UNCHANGED <<uExclusiveWaiters, uSharedWaiters, hOwningThreadId, sems, left, status>>

acquire_exclusive(t) ==
  /\ pc[t] = "acquire_exclusive" /\ ~Recursive(t)
  /\ IF iNumberActive = 0
     THEN /\ iNumberActive' = -1 /\ hOwningThreadId' = t
          /\ Granted(t, "exclusive") /\ Return(t) /\ UNCHANGED uExclusiveWaiters
     ELSE /\ IF Waits(t) THEN uExclusiveWaiters' = uExclusiveWaiters + 1 /\ Goto(t, "wait_exclusive") /\ UNCHANGED call
             ELSE Return(t) /\ UNCHANGED uExclusiveWaiters
          /\ UNCHANGED <<iNumberActive, hOwningThreadId, held>>
  /\ UNCHANGED <<uSharedWaiters, sems, left, status>>

(* Mutant: a reader that was woken counts itself a second time.            *)
CountsItself_always(t) == TRUE
CountsItself(t) == ~status[t]

acquire_shared(t) ==
  /\ pc[t] = "acquire_shared" /\ ~Recursive(t)
  /\ IF iNumberActive >= 0
     THEN /\ iNumberActive' = IF CountsItself(t) THEN iNumberActive + 1 ELSE iNumberActive
          /\ Granted(t, "shared") /\ Return(t) /\ UNCHANGED uSharedWaiters
     ELSE /\ IF Waits(t) THEN uSharedWaiters' = uSharedWaiters + 1 /\ Goto(t, "wait_shared") /\ UNCHANGED call
             ELSE Return(t) /\ UNCHANGED uSharedWaiters
          /\ UNCHANGED <<iNumberActive, held>>
  /\ UNCHANGED <<uExclusiveWaiters, hOwningThreadId, sems, left, status>>

(* NtWaitForSingleObject on the two semaphores.                            *)
wait_exclusive(t) ==
  /\ pc[t] = "wait_exclusive" /\ hExclusiveReleaseSemaphore > 0
  /\ hExclusiveReleaseSemaphore' = hExclusiveReleaseSemaphore - 1
  /\ Goto(t, "acquire_exclusive")
  /\ UNCHANGED <<lock, hSharedReleaseSemaphore, call, left, status, held>>

wait_shared(t) ==
  /\ pc[t] = "wait_shared" /\ hSharedReleaseSemaphore > 0
  /\ hSharedReleaseSemaphore' = hSharedReleaseSemaphore - 1
  /\ status' = [status EXCEPT ![t] = TRUE] /\ Goto(t, "acquire_shared")
  /\ UNCHANGED <<lock, hExclusiveReleaseSemaphore, call, left, held>>

---------------------------------------------------------------------------
(* RtlReleaseResource.                                                     *)

(* The lock is free: one writer is woken, or else all readers, which count *)
(* as active from now on.                                                  *)
(* Mutant: the readers that are woken are not counted yet.                 *)
WokenReaders_uncounted == 0
WokenReaders == uSharedWaiters

wake_writer ==
  /\ uExclusiveWaiters' = uExclusiveWaiters - 1
  /\ hExclusiveReleaseSemaphore' = hExclusiveReleaseSemaphore + 1
  /\ iNumberActive' = 0 /\ UNCHANGED <<uSharedWaiters, hSharedReleaseSemaphore>>
wake_readers ==
  /\ iNumberActive' = WokenReaders /\ uSharedWaiters' = 0
  /\ hSharedReleaseSemaphore' = hSharedReleaseSemaphore + uSharedWaiters
  /\ UNCHANGED <<uExclusiveWaiters, hExclusiveReleaseSemaphore>>
wake_nobody(n) == iNumberActive' = n /\ UNCHANGED <<uExclusiveWaiters, uSharedWaiters, sems>>

(* Mutant: the last reader wakes nobody.                                   *)
LastReader_quiet == wake_nobody(0)
LastReader == IF uExclusiveWaiters > 0 THEN wake_writer ELSE wake_nobody(0)

release_shared ==
  /\ iNumberActive > 0 /\ UNCHANGED hOwningThreadId
  /\ IF iNumberActive = 1 THEN LastReader ELSE wake_nobody(iNumberActive - 1)
release_exclusive ==
  /\ iNumberActive < 0
  /\ IF iNumberActive < -1 THEN wake_nobody(iNumberActive + 1) /\ UNCHANGED hOwningThreadId
     ELSE /\ hOwningThreadId' = Nobody
          /\ IF uExclusiveWaiters > 0 THEN wake_writer
             ELSE IF uSharedWaiters > 0 THEN wake_readers ELSE wake_nobody(0)

RtlReleaseResource(t) ==
  /\ pc[t] = "idle" /\ held[t].depth > 0
  /\ release_shared \/ release_exclusive
  /\ held' = [held EXCEPT ![t] = IF @.depth = 1 THEN Free ELSE [mode |-> @.mode, depth |-> @.depth - 1]]
  /\ UNCHANGED <<pc, call, left, status>>

---------------------------------------------------------------------------
Step(t) == \/ acquire_again(t) \/ acquire_exclusive(t) \/ acquire_shared(t)
           \/ wait_exclusive(t) \/ wait_shared(t)
Next == \E t \in Threads : (\E op \in AllOps : Begin(t, op)) \/ Step(t) \/ RtlReleaseResource(t)

Spec == Init /\ [][Next]_vars

(* Threads run, and the program gives back what it holds.                  *)
LiveSpec == Spec /\ \A t \in Threads : WF_vars(Step(t)) /\ WF_vars(RtlReleaseResource(t))

---------------------------------------------------------------------------
(* Properties.                                                             *)

(* Types; no counter becomes negative.                                     *)
TypeOK ==
  /\ iNumberActive \in Int /\ uExclusiveWaiters \in Nat /\ uSharedWaiters \in Nat
  /\ hOwningThreadId \in Threads \cup {Nobody}
  /\ hExclusiveReleaseSemaphore \in Nat /\ hSharedReleaseSemaphore \in Nat
  /\ pc \in [Threads -> {"idle", "acquire_exclusive", "acquire_shared", "wait_exclusive", "wait_shared"}]
  /\ call \in [Threads -> AllOps \cup {"none"}] /\ left \in [Threads -> 0 .. MaxCalls]
  /\ status \in [Threads -> BOOLEAN]
  /\ held \in [Threads -> [mode : {"none", "shared", "exclusive"}, depth : Nat]]

Depths(mode) == {p \in Threads \X (1 .. MaxCalls) : held[p[1]].mode = mode /\ p[2] <= held[p[1]].depth}
At(l) == {t \in Threads : pc[t] = l}
(* Readers that are counted and do not know it yet.                        *)
Called == {t \in At("acquire_shared") : status[t]}

(* The counters tell the truth: iNumberActive is the number of readers,    *)
(* the woken ones included, or minus the depth of the writer, and every    *)
(* sleeping thread is either counted as a waiter or has been woken.        *)
CountsExact ==
  /\ iNumberActive = Cardinality(Depths("shared")) + Cardinality(Called) + hSharedReleaseSemaphore
                     - Cardinality(Depths("exclusive"))
  /\ iNumberActive < 0 => held[hOwningThreadId].mode = "exclusive"
  /\ uExclusiveWaiters + hExclusiveReleaseSemaphore = Cardinality(At("wait_exclusive"))
  /\ uSharedWaiters + hSharedReleaseSemaphore = Cardinality(At("wait_shared"))

(* Nobody is left sleeping: a sleeping writer has an active lock before it *)
(* or a writer on its way, and a sleeping reader a writer, active or to    *)
(* come.                                                                   *)
WriterOnItsWay == hExclusiveReleaseSemaphore > 0 \/ (\E t \in At("acquire_exclusive") : Waits(t))
NoStuckWaiter ==
  /\ uExclusiveWaiters > 0 => iNumberActive # 0 \/ WriterOnItsWay
  /\ uSharedWaiters > 0 => iNumberActive < 0 \/ uExclusiveWaiters > 0 \/ WriterOnItsWay

(* The resource is a readers-writer lock.                                  *)
Lock == INSTANCE RwLock
====
