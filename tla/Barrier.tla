------------------------------ MODULE Barrier ------------------------------
(***************************************************************************)
(* Synchronization barriers, RtlBarrier and RtlDeleteBarrier of            *)
(* dlls/ntdll/sync.c: a structure of counters that threads change with     *)
(* interlocked operations, each of them a step, and on whose addresses     *)
(* they wait.  The same structure serves round after round, until a        *)
(* thread deletes it.  Spinning before a wait reads again and changes      *)
(* nothing, so it is left out.                                             *)
(***************************************************************************)
EXTENDS AddressQueue, Integers, FiniteSets

CONSTANTS Threads,
          Flag,      \* the flag 0x10000 of the calls: the barrier may be deleted
          Deleter,   \* the threads that may delete it after their last round
          Rounds     \* bound: how often each thread comes

ThreadsAssumption == IsFiniteSet(Threads) /\ Threads # {}
RoundsAssumption == Rounds \in Nat
DeleteAssumption == Flag \in BOOLEAN /\ Deleter \subseteq Threads /\ (Deleter # {} => Flag)

total_thread_count == Cardinality(Threads)

(* What an instance must satisfy.                                         *)
Assumptions == /\ ThreadsAssumption /\ RoundsAssumption /\ DeleteAssumption

VARIABLES reached_thread_count, structure_lock_count, waiting_thread_count, wait_barrier_complete,
          queue,     \* who waits on the address of which field
          pc,
          ret,       \* ret[t]: the value t's call returns
          count,     \* of RtlDeleteBarrier
          deleted,   \* the structure is gone
          alarmed,   \* RtlDeleteBarrier has complained that it came too early
          entered, returned, leaders   \* what the callers see: see Rendezvous

fields == <<reached_thread_count, structure_lock_count, waiting_thread_count, wait_barrier_complete>>
seen == <<entered, returned, leaders>>
vars == <<fields, queue, pc, ret, count, deleted, alarmed, seen>>

(* RtlInitBarrier.                                                         *)
Init == /\ reached_thread_count = 0 /\ structure_lock_count = 0
        /\ waiting_thread_count = 0 /\ wait_barrier_complete = 0
        /\ queue = <<>> /\ pc = [t \in Threads |-> "idle"] /\ ret = [t \in Threads |-> FALSE]
        /\ count = [t \in Threads |-> 0] /\ deleted = FALSE /\ alarmed = FALSE
        /\ entered = [t \in Threads |-> 0] /\ returned = entered /\ leaders = {}

Goto(t, l) == pc' = [pc EXCEPT ![t] = l]
Move(t, from, to) == pc[t] = from /\ Goto(t, to)

---------------------------------------------------------------------------
(* RtlBarrier.                                                             *)

enter(t) ==
  /\ pc[t] = "idle" /\ entered[t] < Rounds
  /\ Goto(t, "previous") /\ ret' = [ret EXCEPT ![t] = FALSE]
  /\ structure_lock_count' = IF Flag THEN structure_lock_count + 1 ELSE structure_lock_count
  /\ entered' = [entered EXCEPT ![t] = @ + 1]
  /\ UNCHANGED <<reached_thread_count, waiting_thread_count, wait_barrier_complete,
                 queue, count, deleted, alarmed, returned, leaders>>

(* The previous round must have been left by all.                          *)
previous(t) ==
  /\ Move(t, "previous", IF reached_thread_count < total_thread_count THEN "wait_count" ELSE "previous_wait")
  /\ UNCHANGED <<fields, queue, ret, count, deleted, alarmed, seen>>

wait_count(t) ==
  /\ Move(t, "wait_count", "reach")
  /\ waiting_thread_count' = waiting_thread_count + 1
  /\ UNCHANGED <<reached_thread_count, structure_lock_count, wait_barrier_complete,
                 queue, ret, count, deleted, alarmed, seen>>

(* Mutant: the count before the increment is compared as if it were the    *)
(* one after, off by one.                                                  *)
AllReached_early(n) == n + 1 >= total_thread_count
AllReached(n) == n >= total_thread_count

reach(t) ==
  /\ Move(t, "reach", IF AllReached(reached_thread_count + 1) THEN "set_complete" ELSE "check")
  /\ reached_thread_count' = reached_thread_count + 1
  /\ ret' = [ret EXCEPT ![t] = AllReached(reached_thread_count + 1)]
  /\ UNCHANGED <<structure_lock_count, waiting_thread_count, wait_barrier_complete,
                 queue, count, deleted, alarmed, seen>>

set_complete(t) ==
  /\ Move(t, "set_complete", "wake_complete") /\ wait_barrier_complete' = 1
  /\ UNCHANGED <<reached_thread_count, structure_lock_count, waiting_thread_count,
                 queue, ret, count, deleted, alarmed, seen>>

(* Mutant: one of the waiters is woken.                                    *)
WakeComplete_one(q) == WakeSingle(q, "complete")
WakeComplete(q) == WakeAll(q, "complete")

wake_complete(t) ==
  /\ Move(t, "wake_complete", "leave") /\ queue' = WakeComplete(queue)
  /\ UNCHANGED <<fields, ret, count, deleted, alarmed, seen>>

check(t) ==
  /\ Move(t, "check", IF reached_thread_count < total_thread_count THEN "check_wait" ELSE "leave")
  /\ UNCHANGED <<fields, queue, ret, count, deleted, alarmed, seen>>

leave(t) ==
  /\ Move(t, "leave", IF waiting_thread_count = 1 THEN "reset_complete" ELSE "unlock")
  /\ waiting_thread_count' = waiting_thread_count - 1
  /\ UNCHANGED <<reached_thread_count, structure_lock_count, wait_barrier_complete,
                 queue, ret, count, deleted, alarmed, seen>>

(* The last to leave prepares the next round.                              *)
reset_complete(t) ==
  /\ Move(t, "reset_complete", "reset_reached") /\ wait_barrier_complete' = 0
  /\ UNCHANGED <<reached_thread_count, structure_lock_count, waiting_thread_count,
                 queue, ret, count, deleted, alarmed, seen>>

reset_reached(t) ==
  /\ Move(t, "reset_reached", "wake_reached") /\ reached_thread_count' = 0
  /\ UNCHANGED <<structure_lock_count, waiting_thread_count, wait_barrier_complete,
                 queue, ret, count, deleted, alarmed, seen>>

wake_reached(t) ==
  /\ Move(t, "wake_reached", "unlock") /\ queue' = WakeAll(queue, "reached")
  /\ UNCHANGED <<fields, ret, count, deleted, alarmed, seen>>

Returns(t) ==
  /\ Goto(t, "idle") /\ returned' = [returned EXCEPT ![t] = entered[t]]
  /\ leaders' = IF ret[t] THEN leaders \cup {entered[t]} ELSE leaders
  /\ UNCHANGED entered

unlock(t) ==
  /\ pc[t] = "unlock"
  /\ structure_lock_count' = IF Flag THEN structure_lock_count - 1 ELSE structure_lock_count
  /\ IF Flag /\ structure_lock_count = 1 THEN Goto(t, "wake_unlocked") /\ UNCHANGED seen
     ELSE Returns(t)
  /\ UNCHANGED <<reached_thread_count, waiting_thread_count, wait_barrier_complete,
                 queue, ret, count, deleted, alarmed>>

(* Only the address is used: the structure may be gone.                    *)
wake_unlocked(t) ==
  /\ pc[t] = "wake_unlocked" /\ Returns(t) /\ queue' = WakeAll(queue, "lock")
  /\ UNCHANGED <<fields, ret, count, deleted, alarmed>>

---------------------------------------------------------------------------
(* RtlDeleteBarrier.  It looks at the two fields one after the other, and  *)
(* says that it was "called before the barrier wait is satisfied".         *)

delete_begin(t) ==
  /\ pc[t] = "idle" /\ t \in Deleter /\ returned[t] = Rounds /\ ~deleted
  /\ Goto(t, IF reached_thread_count < total_thread_count THEN "complain" ELSE "read_lock")
  /\ UNCHANGED <<fields, queue, ret, count, deleted, alarmed, seen>>

complain(t) ==
  /\ Move(t, "complain", "read_lock")
  /\ alarmed' = (structure_lock_count # 0)
  /\ UNCHANGED <<fields, queue, ret, count, deleted, seen>>

(* Mutant: the deletion waits for the threads that are counted as waiting. *)
InUse_waiting == waiting_thread_count
InUse == structure_lock_count

read_lock(t) ==
  /\ pc[t] = "read_lock"
  /\ count' = [count EXCEPT ![t] = InUse]
  /\ IF InUse = 0 THEN Goto(t, "end") /\ deleted' = TRUE
     ELSE Goto(t, "lock_wait") /\ UNCHANGED deleted
  /\ UNCHANGED <<fields, queue, ret, alarmed, seen>>

---------------------------------------------------------------------------
(* RtlWaitOnAddress: the comparison and the queueing are one step.         *)
Waits == [previous_wait |-> "reached", check_wait |-> "complete", lock_wait |-> "lock"]
Sleep == [previous_wait |-> "previous_sleep", check_wait |-> "check_sleep", lock_wait |-> "lock_sleep"]
Again == [previous_wait |-> "previous", check_wait |-> "check", lock_wait |-> "read_lock",
          previous_sleep |-> "previous", check_sleep |-> "check", lock_sleep |-> "read_lock"]
Sleepers == {Sleep[l] : l \in DOMAIN Sleep}

Unchanged(t) == CASE pc[t] = "previous_wait" -> reached_thread_count = total_thread_count
                  [] pc[t] = "check_wait" -> wait_barrier_complete = 0
                  [] pc[t] = "lock_wait" -> structure_lock_count = count[t]

RtlWaitOnAddress(t) ==
  /\ pc[t] \in DOMAIN Waits
  /\ IF Unchanged(t) THEN queue' = Wait(queue, t, Waits[pc[t]]) /\ Goto(t, Sleep[pc[t]])
     ELSE Goto(t, Again[pc[t]]) /\ UNCHANGED queue
  /\ UNCHANGED <<fields, ret, count, deleted, alarmed, seen>>

woken(t) == /\ pc[t] \in Sleepers /\ t \notin Asleep(queue) /\ Goto(t, Again[pc[t]])
            /\ UNCHANGED <<fields, queue, ret, count, deleted, alarmed, seen>>

(* An alert that was for an earlier wait.                                  *)
leave_wait(t) == /\ pc[t] \in Sleepers /\ t \in Asleep(queue)
                 /\ queue' = Leave(queue, t) /\ Goto(t, Again[pc[t]])
                 /\ UNCHANGED <<fields, ret, count, deleted, alarmed, seen>>

---------------------------------------------------------------------------
Arriving(t) == previous(t) \/ wait_count(t) \/ reach(t) \/ set_complete(t) \/ wake_complete(t) \/ check(t)
Leaving(t) == \/ leave(t) \/ reset_complete(t) \/ reset_reached(t) \/ wake_reached(t)
              \/ unlock(t) \/ wake_unlocked(t)
RtlBarrier(t) == enter(t) \/ Arriving(t) \/ Leaving(t)
RtlDeleteBarrier(t) == delete_begin(t) \/ complain(t) \/ read_lock(t)

Step(t) == RtlBarrier(t) \/ RtlDeleteBarrier(t) \/ RtlWaitOnAddress(t) \/ woken(t)
Next == \E t \in Threads : Step(t) \/ leave_wait(t)

Spec == Init /\ [][Next]_vars

(* Every thread comes to every round and runs on.                          *)
LiveSpec == Spec /\ \A t \in Threads : WF_vars(Step(t))

---------------------------------------------------------------------------
(* Properties.                                                             *)

Labels == {"idle", "previous", "previous_wait", "previous_sleep", "wait_count", "reach",
           "set_complete", "wake_complete", "check", "check_wait", "check_sleep", "leave",
           "reset_complete", "reset_reached", "wake_reached", "unlock", "wake_unlocked",
           "complain", "read_lock", "lock_wait", "lock_sleep", "end"}

(* Types; no count leaves its range, and who is queued sleeps.             *)
TypeOK ==
  /\ reached_thread_count \in 0 .. total_thread_count
  /\ structure_lock_count \in 0 .. total_thread_count
  /\ waiting_thread_count \in 0 .. total_thread_count /\ wait_barrier_complete \in {0, 1}
  /\ queue \in Seq([who : Threads, on : {"reached", "complete", "lock"}])
  /\ pc \in [Threads -> Labels] /\ ret \in [Threads -> BOOLEAN]
  /\ count \in [Threads -> 0 .. total_thread_count] /\ deleted \in BOOLEAN /\ alarmed \in BOOLEAN
  /\ entered \in [Threads -> 0 .. Rounds] /\ returned \in [Threads -> 0 .. Rounds]
  /\ \A i \in DOMAIN queue : pc[queue[i].who] \in Sleepers

(* Nobody looks at the structure once RtlDeleteBarrier has returned.  The  *)
(* thread that still has to wake the deleter uses only the address.        *)
NoUseAfterDelete ==
  deleted => \A t \in Threads : pc[t] \in {"idle", "wake_unlocked", "end"} /\ entered[t] = Rounds

(* RtlBarrier is a barrier.                                                *)
Promise == INSTANCE Rendezvous WITH arrived <- entered, gone <- returned

(* t has rounds before it, or a deletion.                                  *)
Unfinished(t) == \/ returned[t] # Rounds \/ pc[t] \notin {"idle", "end"}
                 \/ t \in Deleter /\ ~deleted

(* RtlDeleteBarrier complains only when a thread still waits for others,   *)
(* as its message says: "called before the barrier wait is satisfied".     *)
AlarmIsTrue == alarmed => \E t \in Threads : entered[t] < Rounds \/ pc[t] \in {"check", "check_wait", "check_sleep"}
====
