----------------------------- MODULE ThreadPool -----------------------------
(***************************************************************************)
(* The thread pool of dlls/ntdll/threadpool.c: one pool with its worker    *)
(* threads, work, timer and simple objects, the timer queue with its       *)
(* thread, and a cleanup group.  All of them are counted references under  *)
(* three critical sections, pool->cs, group->cs and timerqueue.cs.         *)
(*                                                                         *)
(* What a thread does in one critical section is a step.  A section is     *)
(* held from step to step (holder) only where the code takes another one   *)
(* inside it or where something outside of it matters.                     *)
(***************************************************************************)
EXTENDS Integers, Sequences, SequencesExt, FiniteSets

CONSTANTS Users, Workers,  \* the program's threads; the threads the pool may have
          Objects,
          KindOf,          \* KindOf[o]: "work", "timer" or "simple"
          InGroup,         \* the objects whose environment names the group
          PriorityOf,      \* PriorityOf[o]: 0 high, 1 normal, 2 low
          Periodic,        \* the timers with a period
          max_workers,
          CreateFails,     \* whether RtlCreateUserThread may fail
          CallsOf,         \* CallsOf[u]: the calls of user u, as <<operation, object>>
          InCallback,      \* what callbacks do: any of "disassociate", "long", "post", "release"
          MaxCalls,        \* MaxCalls[u]: bound on the calls of u
          MaxPosts         \* bound on the callbacks of each object

Nobody == "nobody"
TimerThread == "timer_thread"
Threads == Users \cup Workers \cup {TimerThread}
Sections == {"pool", "group", "timers"}
Timers == {o \in Objects : KindOf[o] = "timer"}
OnObject == {"alloc", "post", "wait", "wait_cancel", "release", "arm", "fire", "disarm"}
OnAll == {"release_members", "cancel_members", "release_group", "release_pool"}

ThreadsAssumption ==
  /\ IsFiniteSet(Threads) /\ Users \cap Workers = {} /\ TimerThread \notin Users \cup Workers
  /\ max_workers \in 1 .. Cardinality(Workers)
ObjectsAssumption ==
  /\ KindOf \in [Objects -> {"work", "timer", "simple"}] /\ PriorityOf \in [Objects -> 0 .. 2]
  /\ InGroup \subseteq Objects /\ Periodic \subseteq Timers
CallsAssumption ==
  /\ CallsOf \in [Users -> SUBSET (OnObject \X Objects \cup OnAll \X {Nobody})]
  /\ CreateFails \in BOOLEAN /\ MaxCalls \in [Users -> Nat] /\ MaxPosts \in Nat

(* What an instance must satisfy.                                         *)
Assumptions == ThreadsAssumption /\ ObjectsAssumption /\ CallsAssumption

VARIABLES pool,     \* [refcount, objcount, shutdown, num_workers, num_busy_workers, freed]
          lists,    \* lists[p]: the objects with pending callbacks of priority p
          obj,      \* obj[o]: [life, refcount, shutdown, pending, running, associated]
          group,    \* [refcount, shutdown, members, freed]
          timers,   \* the timer queue: [initialized, pending, due]
          holder,   \* holder[c]: who is in critical section c from step to step
          pc, call,
          on,       \* on[t]: the object that t's call or callback is about
          instance, \* instance[w]: of w's callback, [associated, may_run_long]
          tmp,      \* tmp[u]: the local list of TpReleaseCleanupGroupMembers
          done,     \* done[u]: how many of them it has cancelled
          handle,   \* handle[o]: "none", "open", "closed" to the program
          left, posts

shared == <<pool, lists, obj, group, timers, holder>>
locals == <<call, on, instance, tmp, done>>
program == <<handle, left, posts>>
vars == <<shared, pc, locals, program>>

NewObject == [life |-> "none", refcount |-> 0, shutdown |-> FALSE, pending |-> 0, running |-> 0, associated |-> 0]

(* TpAllocPool and TpAllocCleanupGroup.                                    *)
Init ==
  /\ pool = [refcount |-> 1, objcount |-> 0, shutdown |-> FALSE, num_workers |-> 0,
             num_busy_workers |-> 0, freed |-> FALSE]
  /\ lists = [p \in 0 .. 2 |-> <<>>] /\ obj = [o \in Objects |-> NewObject]
  /\ group = [refcount |-> 1, shutdown |-> FALSE, members |-> <<>>, freed |-> FALSE]
  /\ timers = [initialized |-> {}, pending |-> {}, due |-> {}]
  /\ holder = [c \in Sections |-> Nobody]
  /\ pc = [t \in Threads |-> IF t \in Users THEN "idle" ELSE "none"]
  /\ call = [u \in Users |-> "none"] /\ on = [t \in Threads |-> Nobody]
  /\ instance = [w \in Workers |-> [associated |-> FALSE, may_run_long |-> FALSE]]
  /\ tmp = [u \in Users |-> <<>>] /\ done = [u \in Users |-> 0]
  /\ handle = [o \in Objects |-> "none"]
  /\ left = MaxCalls /\ posts = [o \in Objects |-> MaxPosts]

Goto(t, l) == pc' = [pc EXCEPT ![t] = l]
At(t, l) == pc[t] = l
Enterable(c) == holder[c] = Nobody
Take(t, c) == Enterable(c) /\ holder' = [holder EXCEPT ![c] = t]
LeaveSection(c) == holder' = [holder EXCEPT ![c] = Nobody]
Return(u) == /\ Goto(u, "idle") /\ call' = [call EXCEPT ![u] = "none"]
             /\ on' = [on EXCEPT ![u] = Nobody]

---------------------------------------------------------------------------
(* The program's calls.  It uses an object between its allocation and its  *)
(* release, releases it when no other thread is in a call on it, posts     *)
(* nothing to a pool that it has released, and leaves the members of a     *)
(* group alone while it releases them.                                     *)

Busy(o) == \E u \in Users : pc[u] # "idle" /\ on[u] = o
Grouping == \E u \in Users : call[u] \in {"release_members", "cancel_members"}
GroupClosed == group.shutdown \/ \E u \in Users : call[u] = "release_group"
Usable(o) == handle[o] = "open" /\ ~(Grouping /\ o \in InGroup)
Released == \E u \in Users : call[u] = "release_pool"
Posting(o) == posts[o] > 0 /\ ~pool.shutdown /\ ~Released

Allowed(op, o) ==
  CASE op = "alloc" -> /\ handle[o] = "none" /\ ~Busy(o) /\ ~pool.shutdown /\ ~Released
                       /\ (o \in InGroup => ~GroupClosed /\ (KindOf[o] # "simple" => ~Grouping))
                       /\ (KindOf[o] = "simple" => posts[o] > 0)
    [] op \in {"post", "fire"} -> Usable(o) /\ Posting(o) /\ (KindOf[o] = "work" <=> op = "post")
    [] op = "arm" -> Usable(o) /\ Posting(o) /\ o \in Timers
    [] op = "disarm" -> Usable(o) /\ o \in Timers
    [] op \in {"wait", "wait_cancel"} -> Usable(o)
    [] op = "release" -> Usable(o) /\ ~Busy(o)
    [] op \in {"release_members", "cancel_members"} ->
         ~GroupClosed /\ ~Grouping /\ \A x \in InGroup : KindOf[x] = "simple" \/ ~Busy(x)
    [] op = "release_group" -> ~GroupClosed /\ ~Grouping /\ \A x \in InGroup : handle[x] # "open" /\ ~Busy(x)
    [] op = "release_pool" -> ~pool.shutdown /\ ~Released /\ \A x \in Objects : handle[x] # "open" /\ ~Busy(x)

First(op, o) ==
  CASE op = "alloc" -> "lock_pool" [] op = "post" -> "submit"
    [] op \in {"arm", "fire", "disarm"} -> "set_timer"
    [] op = "wait" -> "wait" [] op = "wait_cancel" -> "cancel"
    [] op = "release" -> IF o \in Timers THEN "unlock_timers" ELSE "shutdown"
    [] op \in {"release_members", "cancel_members"} -> "g_enter"
    [] op = "release_group" -> "release_group" [] op = "release_pool" -> "shutdown_pool"

Begin(u, op, o) ==
  /\ At(u, "idle") /\ <<op, o>> \in CallsOf[u] /\ left[u] > 0 /\ Allowed(op, o)
  /\ Goto(u, First(op, o)) /\ call' = [call EXCEPT ![u] = op] /\ on' = [on EXCEPT ![u] = o]
  /\ left' = [left EXCEPT ![u] = @ - 1]
  /\ handle' = IF op = "release" THEN [handle EXCEPT ![o] = "closed"] ELSE handle
  /\ UNCHANGED <<shared, instance, tmp, done, posts>>

---------------------------------------------------------------------------
(* tp_new_worker_thread, and what submits or wakes.                        *)

Idle == {w \in Workers : At(w, "none")}
Asleep == {w \in Workers : At(w, "asleep")}
(* Mutant: the new thread has no reference of its own.                     *)
tp_new_worker_thread_bare(p) == [p EXCEPT !.num_workers = @ + 1]
tp_new_worker_thread(p) == [p EXCEPT !.refcount = @ + 1, !.num_workers = @ + 1]
NeedsWorker == pool.num_busy_workers >= pool.num_workers /\ pool.num_workers < max_workers

(* Mutant: the new item is not counted.                                    *)
CountBusy_never(p) == p
CountBusy(p) == [p EXCEPT !.num_busy_workers = @ + 1]
tp_object_prio_queue(o) == [lists EXCEPT ![PriorityOf[o]] = Append(Remove(@, o), o)]

(* tp_object_submit by t, which goes on at l.                              *)
tp_object_submit(t, o, l) ==
  LET queues == obj[o].pending = 0
      p == IF queues THEN CountBusy(pool) ELSE pool
  IN /\ Enterable("pool")
     /\ posts' = [posts EXCEPT ![o] = @ - 1]
     /\ obj' = [obj EXCEPT ![o].refcount = @ + 1, ![o].pending = @ + 1]
     /\ lists' = IF queues THEN tp_object_prio_queue(o) ELSE lists
     /\ \/ \E w \in Idle : NeedsWorker /\ pc' = [pc EXCEPT ![w] = "start", ![t] = l] /\ pool' = tp_new_worker_thread(p)
        \/ /\ ~NeedsWorker \/ CreateFails
           /\ pool' = p
           /\ IF Asleep = {} THEN Goto(t, l) ELSE \E w \in Asleep : pc' = [pc EXCEPT ![w] = "woken", ![t] = l]

(* TpPostWork, and the end of TpSetTimer with a timeout of zero.           *)
submit(u) ==
  /\ At(u, "submit") /\ tp_object_submit(u, on[u], "idle")
  /\ call' = [call EXCEPT ![u] = "none"] /\ on' = [on EXCEPT ![u] = Nobody]
  /\ UNCHANGED <<group, timers, holder, instance, tmp, done, handle, left>>

---------------------------------------------------------------------------
(* TpAllocWork, TpAllocTimer and TpSimpleTryPost.                          *)

tp_threadpool_lock == pool.num_workers = 0

lock_pool(u) ==
  LET p == [pool EXCEPT !.refcount = @ + 1, !.objcount = @ + 1]
      l == IF on[u] \in Timers THEN "lock_timers" ELSE "initialize"
  IN /\ At(u, "lock_pool") /\ Enterable("pool")
     /\ \/ \E w \in Idle : /\ tp_threadpool_lock /\ pool' = tp_new_worker_thread(p)
                           /\ pc' = [pc EXCEPT ![w] = "start", ![u] = l] /\ UNCHANGED <<call, on>>
        \/ ~tp_threadpool_lock /\ pool' = p /\ Goto(u, l) /\ UNCHANGED <<call, on>>
        \/ tp_threadpool_lock /\ CreateFails /\ Return(u) /\ UNCHANGED pool
     /\ UNCHANGED <<lists, obj, group, timers, holder, instance, tmp, done, program>>

tp_timerqueue_lock(u) ==
  /\ At(u, "lock_timers") /\ Enterable("timers")
  /\ \/ /\ timers' = [timers EXCEPT !.initialized = @ \cup {on[u]}]
        /\ pc' = [pc EXCEPT ![u] = "initialize", ![TimerThread] = IF @ = "none" THEN "start" ELSE @]
     \/ At(TimerThread, "none") /\ CreateFails /\ Goto(u, "d_pool") /\ UNCHANGED timers
  /\ UNCHANGED <<pool, lists, obj, group, holder, locals, program>>

tp_object_initialize(u) ==
  /\ At(u, "initialize")
  /\ obj' = [obj EXCEPT ![on[u]] = [NewObject EXCEPT !.life = "live", !.refcount = 1]]
  /\ Goto(u, IF KindOf[on[u]] = "simple" THEN "init_submit" ELSE IF on[u] \in InGroup THEN "join" ELSE "opened")
  /\ UNCHANGED <<pool, lists, group, timers, holder, locals, program>>

init_submit(u) ==
  /\ At(u, "init_submit") /\ tp_object_submit(u, on[u], IF on[u] \in InGroup THEN "join" ELSE "release")
  /\ UNCHANGED <<group, timers, holder, locals, handle, left>>

join(u) ==
  /\ At(u, "join") /\ Enterable("group")
  /\ group' = [group EXCEPT !.refcount = @ + 1, !.members = Append(@, on[u])]
  /\ Goto(u, IF KindOf[on[u]] = "simple" THEN "release" ELSE "opened")
  /\ UNCHANGED <<pool, lists, obj, timers, holder, locals, program>>

opened(u) ==
  /\ At(u, "opened") /\ handle' = [handle EXCEPT ![on[u]] = "open"] /\ Return(u)
  /\ UNCHANGED <<shared, instance, tmp, done, left, posts>>

---------------------------------------------------------------------------
(* Releasing.                                                              *)

(* After the release of an object: the next member, or the end.            *)
AfterRelease(u) == IF tmp[u] = <<>> THEN Return(u) ELSE Goto(u, "g_wait") /\ UNCHANGED <<call, on>>
FirstOfDestroy(o) == IF o \in InGroup THEN "d_group" ELSE "d_pool"

(* Mutant: the timer stays in the list of pending timers.                  *)
tp_timerqueue_unlock_pending(o) == [timers EXCEPT !.initialized = @ \ {o}]
tp_timerqueue_unlock(o) == [timers EXCEPT !.initialized = @ \ {o}, !.pending = @ \ {o}]

(* tp_object_prepare_shutdown of a timer.                                  *)
unlock_timers(u) ==
  /\ At(u, "unlock_timers") /\ Enterable("timers") /\ timers' = tp_timerqueue_unlock(on[u])
  /\ Goto(u, "shutdown")
  /\ UNCHANGED <<pool, lists, obj, group, holder, locals, program>>

shutdown(u) ==
  /\ At(u, "shutdown") /\ obj' = [obj EXCEPT ![on[u]].shutdown = TRUE] /\ Goto(u, "release")
  /\ UNCHANGED <<pool, lists, group, timers, holder, locals, program>>

tp_object_release(u) ==
  /\ At(u, "release") /\ obj' = [obj EXCEPT ![on[u]].refcount = @ - 1]
  /\ handle' = IF KindOf[on[u]] = "simple" THEN [handle EXCEPT ![on[u]] = "closed"] ELSE handle
  /\ IF obj'[on[u]].refcount = 0 THEN Goto(u, FirstOfDestroy(on[u])) /\ UNCHANGED <<call, on>> ELSE Return(u)
  /\ UNCHANGED <<pool, lists, group, timers, holder, instance, tmp, done, left, posts>>

tp_group_release(g) == [g EXCEPT !.refcount = @ - 1, !.freed = (g.refcount = 1)]
LeaveGroup(o) == tp_group_release([group EXCEPT !.members = Remove(@, o)])

d_group(u) ==
  /\ At(u, "d_group") /\ Enterable("group") /\ group' = LeaveGroup(on[u]) /\ Goto(u, "d_pool")
  /\ UNCHANGED <<pool, lists, obj, timers, holder, locals, program>>

(* tp_threadpool_unlock.                                                   *)
d_pool(u) ==
  /\ At(u, "d_pool") /\ Enterable("pool") /\ pool' = [pool EXCEPT !.objcount = @ - 1] /\ Goto(u, "d_free")
  /\ UNCHANGED <<lists, obj, group, timers, holder, locals, program>>

tp_threadpool_release(p) == [p EXCEPT !.refcount = @ - 1, !.freed = (p.refcount = 1)]

d_free(u) ==
  /\ At(u, "d_free") /\ pool' = tp_threadpool_release(pool)
  /\ obj' = [obj EXCEPT ![on[u]].life = IF @ = "live" THEN "freed" ELSE @] /\ AfterRelease(u)
  /\ handle' = [handle EXCEPT ![on[u]] = "closed"]
  /\ UNCHANGED <<lists, group, timers, holder, instance, tmp, done, left, posts>>

(* TpReleaseCleanupGroup.                                                  *)
release_group(u) ==
  /\ At(u, "release_group") /\ group' = tp_group_release([group EXCEPT !.shutdown = TRUE]) /\ Return(u)
  /\ UNCHANGED <<pool, lists, obj, timers, holder, instance, tmp, done, program>>

(* TpReleasePool, which wakes the workers without pool->cs.                *)
shutdown_pool(u) ==
  /\ At(u, "shutdown_pool") /\ pool' = [pool EXCEPT !.shutdown = TRUE] /\ Goto(u, "wake_pool")
  /\ UNCHANGED <<lists, obj, group, timers, holder, locals, program>>
wake_pool(u) ==
  /\ At(u, "wake_pool")
  /\ pc' = [t \in Threads |-> IF t = u THEN "release_pool" ELSE IF t \in Asleep THEN "woken" ELSE pc[t]]
  /\ UNCHANGED <<shared, locals, program>>
release_pool(u) ==
  /\ At(u, "release_pool") /\ pool' = tp_threadpool_release(pool) /\ Return(u)
  /\ UNCHANGED <<lists, obj, group, timers, holder, instance, tmp, done, program>>

---------------------------------------------------------------------------
(* TpWaitForWork and TpWaitForTimer.                                       *)

object_is_finished(r, all) == r.pending = 0 /\ IF all THEN r.running = 0 ELSE r.associated = 0

Cancelled(r) == [r EXCEPT !.refcount = @ - r.pending, !.pending = 0]

tp_object_cancel(o) ==
  /\ Enterable("pool")
  /\ obj' = [obj EXCEPT ![o] = Cancelled(@)]
  /\ lists' = [lists EXCEPT ![PriorityOf[o]] = Remove(@, o)]

cancel(u) ==
  /\ At(u, "cancel") /\ tp_object_cancel(on[u]) /\ Goto(u, "wait")
  /\ UNCHANGED <<pool, group, timers, holder, locals, program>>

tp_object_wait(u) ==
  /\ At(u, "wait") /\ Enterable("pool")
  /\ IF object_is_finished(obj[on[u]], FALSE) THEN Return(u) ELSE Goto(u, "wait_sleep") /\ UNCHANGED <<call, on>>
  /\ UNCHANGED <<shared, instance, tmp, done, program>>

(* Mutant: only the end of the last callback of all wakes.                 *)
Finishes_last(r, assoc) == assoc /\ r.refcount = 0
Finishes(r, assoc) == assoc /\ object_is_finished(r, FALSE)

(* pc when t goes to l and the object becomes r: the sleepers that are     *)
(* woken, those for finished_event only if the callback was associated.    *)
Woken(t, l, o, r, assoc) ==
  [x \in Threads |->
     IF x = t THEN l
     ELSE IF pc[x] = "wait_sleep" /\ on[x] = o /\ Finishes(r, assoc) THEN "wait"
     ELSE IF pc[x] = "g_sleep" /\ Head(tmp[x]) = o /\ object_is_finished(r, TRUE) THEN "g_wait"
     ELSE pc[x]]

---------------------------------------------------------------------------
(* TpReleaseCleanupGroupMembers.                                           *)

g_enter(u) == /\ At(u, "g_enter") /\ Take(u, "group") /\ Goto(u, "g_scan")
              /\ UNCHANGED <<pool, lists, obj, group, timers, locals, program>>

(* Mutant: an object that is being destroyed is taken along.               *)
Destroyed_never(o) == FALSE
Destroyed(o) == obj[o].refcount = 0

g_scan(u) ==
  /\ At(u, "g_scan") /\ group.members # <<>>
  /\ LET o == Head(group.members) IN
     /\ group' = [group EXCEPT !.members = Tail(@)]
     /\ IF Destroyed(o) THEN UNCHANGED <<obj, tmp, pc, on>>
        ELSE /\ obj' = [obj EXCEPT ![o].refcount = @ + 1] /\ tmp' = [tmp EXCEPT ![u] = Append(@, o)]
             /\ IF o \in Timers THEN Goto(u, "g_timer") /\ on' = [on EXCEPT ![u] = o] ELSE UNCHANGED <<pc, on>>
  /\ UNCHANGED <<pool, lists, timers, holder, call, instance, done, program>>

g_timer(u) ==
  /\ At(u, "g_timer") /\ Enterable("timers") /\ timers' = tp_timerqueue_unlock(on[u]) /\ Goto(u, "g_scan")
  /\ UNCHANGED <<pool, lists, obj, group, holder, locals, program>>

g_leave(u) ==
  /\ At(u, "g_scan") /\ group.members = <<>> /\ LeaveSection("group")
  /\ IF tmp[u] = <<>> THEN Return(u)
     ELSE Goto(u, IF call[u] = "cancel_members" THEN "g_cancel" ELSE "g_wait") /\ UNCHANGED <<call, on>>
  /\ UNCHANGED <<pool, lists, obj, group, timers, instance, tmp, done, program>>

g_cancel(u) ==
  /\ At(u, "g_cancel") /\ tp_object_cancel(tmp[u][done[u] + 1])
  /\ IF done[u] + 1 = Len(tmp[u]) THEN Goto(u, "g_wait") /\ done' = [done EXCEPT ![u] = 0]
     ELSE done' = [done EXCEPT ![u] = @ + 1] /\ UNCHANGED pc
  /\ UNCHANGED <<pool, group, timers, holder, call, on, instance, tmp, program>>

g_wait(u) ==
  /\ At(u, "g_wait") /\ Enterable("pool")
  /\ Goto(u, IF object_is_finished(obj[Head(tmp[u])], TRUE) THEN "g_done" ELSE "g_sleep")
  /\ UNCHANGED <<shared, locals, program>>

(* The program's reference goes with the group's, unless it is gone.       *)
Drops(o) == IF ~obj[o].shutdown /\ KindOf[o] # "simple" THEN 2 ELSE 1

g_done(u) ==
  /\ At(u, "g_done")
  /\ LET o == Head(tmp[u]) IN
     /\ obj' = [obj EXCEPT ![o].refcount = @ - Drops(o), ![o].shutdown = TRUE]
     /\ handle' = [handle EXCEPT ![o] = "closed"] /\ tmp' = [tmp EXCEPT ![u] = Tail(@)]
     /\ IF obj'[o].refcount = 0 THEN Goto(u, "d_group") /\ on' = [on EXCEPT ![u] = o] /\ UNCHANGED call
        ELSE IF tmp'[u] = <<>> THEN Return(u) ELSE Goto(u, "g_wait") /\ UNCHANGED <<call, on>>
  /\ UNCHANGED <<pool, lists, group, timers, holder, instance, done, left, posts>>

---------------------------------------------------------------------------
(* threadpool_worker_proc.                                                 *)

worker_enter(w) ==
  /\ pc[w] \in {"start", "woken"} /\ Take(w, "pool") /\ Goto(w, "loop")
  /\ UNCHANGED <<pool, lists, obj, group, timers, locals, program>>

PendingLists == {p \in 0 .. 2 : lists[p] # <<>>}
(* Mutant: after the shutdown nothing is executed any more.                *)
HasItem_running == PendingLists # {} /\ ~pool.shutdown
HasItem == PendingLists # {}
threadpool_get_next_item == Head(lists[CHOOSE p \in PendingLists : \A q \in PendingLists : p <= q])

(* The beginning of tp_object_execute.                                     *)
take_item(w) ==
  /\ At(w, "loop") /\ HasItem
  /\ LET o == threadpool_get_next_item IN
     /\ obj' = [obj EXCEPT ![o].pending = @ - 1, ![o].running = @ + 1, ![o].associated = @ + 1]
     /\ IF obj[o].pending > 1
        THEN lists' = tp_object_prio_queue(o) /\ pool' = CountBusy(pool)
        ELSE lists' = [lists EXCEPT ![PriorityOf[o]] = Remove(@, o)] /\ UNCHANGED pool
     /\ on' = [on EXCEPT ![w] = o]
  /\ instance' = [instance EXCEPT ![w] = [associated |-> TRUE, may_run_long |-> FALSE]]
  /\ LeaveSection("pool") /\ Goto(w, "callback")
  /\ UNCHANGED <<group, timers, call, tmp, done, program>>

no_item(w) ==
  /\ At(w, "loop") /\ ~HasItem
  /\ IF pool.shutdown
     THEN pool' = [pool EXCEPT !.num_workers = @ - 1] /\ LeaveSection("pool") /\ Goto(w, "leaving")
     ELSE Goto(w, "doze") /\ UNCHANGED <<pool, holder>>
  /\ UNCHANGED <<lists, obj, group, timers, locals, program>>

(* RtlSleepConditionVariableCS on update_event.                            *)
doze(w) == /\ At(w, "doze") /\ LeaveSection("pool") /\ Goto(w, "asleep")
           /\ UNCHANGED <<pool, lists, obj, group, timers, locals, program>>

(* Mutant: the workers wait without a timeout.                             *)
timeout_never(w) == FALSE /\ Goto(w, "timed_out") /\ UNCHANGED <<shared, locals, program>>
timeout(w) == At(w, "asleep") /\ Goto(w, "timed_out") /\ UNCHANGED <<shared, locals, program>>

(* Mutant: the last worker ends while there are objects.                   *)
MayTerminate_last == ~HasItem
MayTerminate == ~HasItem /\ (pool.num_workers > 1 \/ pool.objcount = 0)

timed_out(w) ==
  /\ At(w, "timed_out") /\ Enterable("pool")
  /\ IF MayTerminate
     THEN pool' = [pool EXCEPT !.num_workers = @ - 1] /\ Goto(w, "leaving") /\ UNCHANGED holder
     ELSE Take(w, "pool") /\ Goto(w, "loop") /\ UNCHANGED pool
  /\ UNCHANGED <<lists, obj, group, timers, locals, program>>

leaving(w) == /\ At(w, "leaving") /\ pool' = tp_threadpool_release(pool) /\ Goto(w, "none")
              /\ UNCHANGED <<lists, obj, group, timers, holder, locals, program>>

---------------------------------------------------------------------------
(* The callback, and the end of tp_object_execute.                         *)

(* Mutant: a callback may disassociate itself again.                       *)
IsAssociated_ignored(w) == TRUE
IsAssociated(w) == instance[w].associated

TpDisassociateCallback(w) ==
  /\ At(w, "callback") /\ "disassociate" \in InCallback /\ IsAssociated(w) /\ Enterable("pool")
  /\ obj' = [obj EXCEPT ![on[w]].associated = @ - 1]
  /\ instance' = [instance EXCEPT ![w].associated = FALSE]
  /\ pc' = [x \in Threads |-> IF pc[x] = "wait_sleep" /\ on[x] = on[w] /\ object_is_finished(obj'[on[w]], FALSE)
                              THEN "wait" ELSE pc[x]]
  /\ UNCHANGED <<pool, lists, group, timers, holder, call, on, tmp, done, program>>

TpCallbackMayRunLong(w) ==
  /\ At(w, "callback") /\ "long" \in InCallback /\ ~instance[w].may_run_long /\ Enterable("pool")
  /\ instance' = [instance EXCEPT ![w].may_run_long = TRUE]
  /\ \/ \E x \in Idle : NeedsWorker /\ pc' = [pc EXCEPT ![x] = "start"] /\ pool' = tp_new_worker_thread(pool)
     \/ (~NeedsWorker \/ CreateFails) /\ UNCHANGED <<pc, pool>>
  /\ UNCHANGED <<lists, obj, group, timers, holder, call, on, tmp, done, program>>

callback_post(w) ==
  /\ At(w, "callback") /\ "post" \in InCallback /\ handle[on[w]] = "open" /\ Posting(on[w])
  /\ KindOf[on[w]] = "work" /\ ~(Grouping /\ on[w] \in InGroup)
  /\ tp_object_submit(w, on[w], "callback")
  /\ UNCHANGED <<group, timers, holder, locals, handle, left>>

(* TpReleaseWork, also while the group is being released.                  *)
callback_release(w) ==
  /\ At(w, "callback") /\ "release" \in InCallback /\ handle[on[w]] = "open" /\ KindOf[on[w]] = "work"
  /\ ~Busy(on[w]) /\ handle' = [handle EXCEPT ![on[w]] = "closed"]
  /\ obj' = [obj EXCEPT ![on[w]].shutdown = TRUE, ![on[w]].refcount = @ - 1]
  /\ UNCHANGED <<pool, lists, group, timers, holder, pc, locals, left, posts>>

tp_object_execute(w) ==
  LET o == on[w]
      r == [obj[o] EXCEPT !.shutdown = @ \/ KindOf[o] = "simple", !.running = @ - 1, !.refcount = @ - 1,
                          !.associated = IF instance[w].associated THEN @ - 1 ELSE @]
  IN /\ At(w, "callback") /\ Take(w, "pool")
     /\ obj' = [obj EXCEPT ![o] = r]
     /\ pool' = [pool EXCEPT !.num_busy_workers = @ - 1]
     /\ pc' = Woken(w, IF r.refcount = 0 THEN "destroy" ELSE "loop", o, r, instance[w].associated)
     /\ on' = IF r.refcount = 0 THEN on ELSE [on EXCEPT ![w] = Nobody]
     /\ UNCHANGED <<lists, group, timers, call, instance, tmp, done, program>>

(* The last reference, given up inside pool->cs.                           *)
destroy(w) ==
  /\ At(w, "destroy")
  /\ IF on[w] \in InGroup THEN Enterable("group") /\ group' = LeaveGroup(on[w]) ELSE UNCHANGED group
  /\ pool' = tp_threadpool_release([pool EXCEPT !.objcount = @ - 1])
  /\ obj' = [obj EXCEPT ![on[w]].life = "freed"] /\ on' = [on EXCEPT ![w] = Nobody] /\ Goto(w, "loop")
  /\ UNCHANGED <<lists, timers, holder, call, instance, tmp, done, program>>

---------------------------------------------------------------------------
(* TpSetTimer and timerqueue_thread_proc.  Time is not modelled: a pending *)
(* timer may expire at any moment.                                         *)

set_timer(u) ==
  /\ At(u, "set_timer") /\ Enterable("timers")
  /\ timers' = [timers EXCEPT !.pending = IF call[u] = "arm" \/ (call[u] = "fire" /\ on[u] \in Periodic)
                                          THEN @ \cup {on[u]} ELSE @ \ {on[u]}]
  /\ IF call[u] = "fire" THEN Goto(u, "submit") /\ UNCHANGED <<call, on>> ELSE Return(u)
  /\ UNCHANGED <<pool, lists, obj, group, holder, instance, tmp, done, program>>

timer_enter(t) ==
  /\ pc[t] \in {"start", "t_wait"} /\ Enterable("timers")
  /\ IF At(t, "t_wait") /\ timers.initialized = {}
     THEN Goto(t, "none") /\ UNCHANGED <<timers, holder>>
     ELSE \E due \in SUBSET {o \in timers.pending : posts[o] > 0} :
            Take(t, "timers") /\ Goto(t, "t_scan") /\ timers' = [timers EXCEPT !.due = due]
  /\ UNCHANGED <<pool, lists, obj, group, locals, program>>

(* submit_expired_timers.                                                  *)
expire(t, o) ==
  /\ At(t, "t_scan") /\ o \in timers.due /\ Goto(t, "t_submit") /\ on' = [on EXCEPT ![t] = o]
  /\ timers' = [timers EXCEPT !.pending = @ \ {o}, !.due = @ \ {o}]
  /\ UNCHANGED <<pool, lists, obj, group, holder, call, instance, tmp, done, program>>

submit_expired_timers(t) ==
  /\ At(t, "t_submit") /\ tp_object_submit(t, on[t], "t_scan")
  /\ timers' = IF on[t] \in Periodic /\ ~obj[on[t]].shutdown
               THEN [timers EXCEPT !.pending = @ \cup {on[t]}] ELSE timers
  /\ on' = [on EXCEPT ![t] = Nobody]
  /\ UNCHANGED <<group, holder, call, instance, tmp, done, handle, left>>

timer_leave(t) ==
  /\ At(t, "t_scan") /\ timers.due = {} /\ LeaveSection("timers") /\ Goto(t, "t_wait")
  /\ UNCHANGED <<pool, lists, obj, group, timers, locals, program>>

---------------------------------------------------------------------------
Alloc(u) == \/ lock_pool(u) \/ tp_timerqueue_lock(u) \/ tp_object_initialize(u) \/ init_submit(u)
            \/ join(u) \/ opened(u)
Release(u) == \/ unlock_timers(u) \/ shutdown(u) \/ tp_object_release(u)
              \/ d_group(u) \/ d_pool(u) \/ d_free(u)
              \/ release_group(u) \/ shutdown_pool(u) \/ wake_pool(u) \/ release_pool(u)
Wait(u) == cancel(u) \/ tp_object_wait(u)
TpReleaseCleanupGroupMembers(u) ==
  g_enter(u) \/ g_scan(u) \/ g_timer(u) \/ g_leave(u) \/ g_cancel(u) \/ g_wait(u) \/ g_done(u)
UserStep(u) == \/ submit(u) \/ set_timer(u) \/ Alloc(u) \/ Release(u) \/ Wait(u)
               \/ TpReleaseCleanupGroupMembers(u)

WorkerStep(w) == \/ worker_enter(w) \/ take_item(w) \/ no_item(w) \/ doze(w) \/ timeout(w) \/ timed_out(w)
                 \/ leaving(w) \/ tp_object_execute(w) \/ destroy(w)
CallbackStep(w) == TpDisassociateCallback(w) \/ TpCallbackMayRunLong(w) \/ callback_post(w) \/ callback_release(w)
TimerStep == \/ timer_enter(TimerThread) \/ (\E o \in Timers : expire(TimerThread, o))
             \/ submit_expired_timers(TimerThread) \/ timer_leave(TimerThread)

Next == \/ \E u \in Users : (\E c \in CallsOf[u] : Begin(u, c[1], c[2])) \/ UserStep(u)
        \/ \E w \in Workers : WorkerStep(w) \/ CallbackStep(w)
        \/ TimerStep

Spec == Init /\ [][Next]_vars

(* Threads run and callbacks return; the critical sections hand themselves *)
(* over, so nobody waits for one for ever while it keeps coming free.      *)
Fairness == /\ \A u \in Users : SF_vars(UserStep(u))
            /\ \A w \in Workers : SF_vars(WorkerStep(w))
            /\ SF_vars(TimerStep)
LiveSpec == Spec /\ Fairness

---------------------------------------------------------------------------
(* Properties.                                                             *)

UserLabels == {"idle", "lock_pool", "lock_timers", "initialize", "init_submit", "join", "opened", "submit",
               "set_timer", "cancel", "wait", "wait_sleep", "unlock_timers", "shutdown", "release",
               "d_group", "d_pool", "d_free", "g_enter", "g_scan", "g_timer", "g_cancel", "g_wait", "g_sleep",
               "g_done", "release_group", "shutdown_pool", "wake_pool", "release_pool"}
WorkerLabels == {"none", "start", "woken", "loop", "callback", "doze", "asleep", "timed_out", "leaving", "destroy"}

(* Types; no count is negative, and who is in a section is where the code  *)
(* holds it.                                                               *)
TypeOK ==
  /\ pool.refcount \in Nat /\ pool.objcount \in Nat /\ pool.num_workers \in 0 .. max_workers
  /\ pool.num_busy_workers \in Nat
  /\ \A o \in Objects : /\ obj[o].refcount \in Nat /\ obj[o].pending \in Nat /\ obj[o].running \in Nat
                        /\ obj[o].associated \in 0 .. obj[o].running
  /\ \A u \in Users : pc[u] \in UserLabels /\ (holder.group = u <=> pc[u] \in {"g_scan", "g_timer"})
  /\ \A w \in Workers : pc[w] \in WorkerLabels /\ (holder.pool = w <=> pc[w] \in {"loop", "doze", "destroy"})
  /\ pc[TimerThread] \in {"none", "start", "t_wait", "t_scan", "t_submit"}
  /\ (holder.timers = TimerThread) <=> (pc[TimerThread] \in {"t_scan", "t_submit"})

Executing(o) == {w \in Workers : pc[w] = "callback" /\ on[w] = o}
Collecting(o) == {u \in Users : o \in ToSet(tmp[u])}
(* The reference an object is born with: of the program, or of the call    *)
(* that makes or releases it.                                              *)
Born(o) == IF \/ handle[o] = "open"
              \/ \E u \in Users : on[u] = o /\ pc[u] \in {"init_submit", "join", "opened", "unlock_timers", "shutdown", "release"}
           THEN 1 ELSE 0

(* Every reference of an object is somebody's, and everybody who has one   *)
(* is counted: its handle, each pending or running callback, and the       *)
(* group that collects it.                                                 *)
RefsExact ==
  \A o \in Objects : obj[o].life = "live" =>
     obj[o].refcount = Born(o) + obj[o].pending + Cardinality(Executing(o)) + Cardinality(Collecting(o))

(* Nothing is used after it was freed, and what the destructors assert is  *)
(* true: no callback of a destroyed object, no object or item of a         *)
(* destroyed pool, no member of a destroyed group.                         *)
DestroyedClean ==
  /\ \A o \in Objects : obj[o].life = "freed" =>
       /\ obj[o].shutdown /\ obj[o].pending = 0 /\ obj[o].running = 0 /\ Collecting(o) = {}
       /\ o \notin timers.pending /\ o \notin ToSet(group.members)
       /\ \A p \in 0 .. 2 : o \notin ToSet(lists[p])
  /\ pool.freed => /\ pool.shutdown /\ pool.objcount = 0 /\ ~HasItem
                   /\ \A w \in Workers : pc[w] = "none"
                   /\ \A o \in Objects : obj[o].life # "live"
  /\ group.freed => /\ group.shutdown /\ group.members = <<>>
                    /\ \A u \in Users : tmp[u] = <<>> /\ pc[u] # "d_group"

(* What tp_object_submit asserts: neither the object nor the pool is shut  *)
(* down, and when no thread can be started there is one already.           *)
Submitting == {t \in Threads : pc[t] \in {"submit", "init_submit", "t_submit"}}
SubmitAsserts ==
  /\ \A t \in Submitting : ~obj[on[t]].shutdown /\ ~pool.shutdown /\ obj[on[t]].life = "live"
  /\ pool.objcount > 0 /\ ~pool.shutdown => pool.num_workers > 0

(* A worker is counted as busy for every item that waits or runs.          *)
Running == {w \in Workers : pc[w] = "callback"}
Queued == {o \in Objects : \E p \in 0 .. 2 : o \in ToSet(lists[p])}
BusyCounted == pool.num_busy_workers >= Cardinality(Running) + Cardinality(Queued)

(* New worker threads are started only "if required": when there is an     *)
(* item for each of the threads there are.                                 *)
StartsIfRequired ==
  [][pool'.num_workers > pool.num_workers => Cardinality(Running) + Cardinality(Queued) >= pool.num_workers]_vars

(* Nobody waits in a circle for the three critical sections.               *)
Wants(t) == CASE pc[t] = "destroy" /\ on[t] \in InGroup -> "group"
              [] pc[t] = "g_timer" -> "timers"
              [] pc[t] = "t_submit" -> "pool"
              [] OTHER -> "nothing"
Stuck(S) == \A t \in S : Wants(t) \in Sections /\ holder[Wants(t)] \in S
NoLockCycle == \A S \in (SUBSET Threads) \ {{}} : ~Stuck(S)

====
