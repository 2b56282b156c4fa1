----------------------------- MODULE WaitQueue -----------------------------
(***************************************************************************)
(* The wait objects of the thread pool in dlls/ntdll/threadpool.c          *)
(* (TpSetWait, RtlRegisterWait): buckets of at most max_objects objects,   *)
(* each with a thread that waits for the handles of its bucket and leaves  *)
(* waitqueue.cs while it does.  Callbacks run in the workers of ThreadPool *)
(* or in the thread of the bucket.                                         *)
(***************************************************************************)
EXTENDS Integers, Sequences, SequencesExt, FiniteSets

CONSTANTS Users, Waits, Buckets, Handles,
          HandleOf,    \* HandleOf[x]: the handle that x waits for
          Once,        \* the objects with WT_EXECUTEONLYONCE
          InThread,    \* the objects with WT_EXECUTEINWAITTHREAD
          Timed,       \* the objects that wait with a timeout
          AutoReset,   \* the handles of synchronization events
          max_objects, \* MAXIMUM_WAITQUEUE_OBJECTS
          CallsOf, MaxCalls \* CallsOf[u]: the calls of u, and the bound on their number

None == "none"
End == "end"
Nobody == "nobody"
OnWait == {"register", "arm", "disarm", "deregister", "deregister_wait"}

WaitAssumption ==
  /\ IsFiniteSet(Users) /\ IsFiniteSet(Waits) /\ IsFiniteSet(Buckets) /\ HandleOf \in [Waits -> Handles]
  /\ Once \cup InThread \cup Timed \subseteq Waits /\ AutoReset \subseteq Handles
  /\ max_objects \in Nat \ {0} /\ MaxCalls \in [Users -> Nat]
  /\ CallsOf \in [Users -> SUBSET (OnWait \X Waits \cup {"signal"} \X Handles)]

(* What an instance must satisfy.                                         *)
Assumptions == WaitAssumption

VARIABLES wait,     \* wait[x]: see NewWait
          bucket,   \* bucket[b]: [objcount, waiting, reserved, update]
          buckets,  \* waitqueue.buckets
          cs,       \* the thread of a bucket that holds waitqueue.cs, or Nobody
          thread,   \* thread[b]: [pc, next, objects, hit] of waitqueue_thread_proc
          event,    \* the handles that are signaled
          pc, call, on, left, handle

shared == <<wait, bucket, buckets, cs, thread>>
user == <<pc, call, on, left, handle>>
vars == <<shared, event, user>>

NewWait == [life |-> "none", refcount |-> 0, shutdown |-> FALSE, bucket |-> None, handle |-> None, serial |-> 0, due |-> FALSE,
            pending |-> 0, signaled |-> 0, queued |-> FALSE, running |-> 0]
NewBucket == [objcount |-> 0, waiting |-> <<>>, reserved |-> {}, update |-> FALSE]
NewThread == [pc |-> "none", next |-> End, objects |-> <<>>, hit |-> 0]

Init ==
  /\ wait = [x \in Waits |-> NewWait] /\ bucket = [b \in Buckets |-> NewBucket] /\ buckets = <<>>
  /\ cs = Nobody /\ thread = [b \in Buckets |-> NewThread] /\ event = {}
  /\ pc = [u \in Users |-> "idle"] /\ call = [u \in Users |-> "none"] /\ on = [u \in Users |-> Nobody]
  /\ left = MaxCalls /\ handle = [x \in Waits |-> "none"]

At(u, l) == pc[u] = l
Goto(u, l) == pc' = [pc EXCEPT ![u] = l]
Return(u) == Goto(u, "idle") /\ call' = [call EXCEPT ![u] = "none"] /\ on' = [on EXCEPT ![u] = Nobody]
Continue(u, l) == Goto(u, l) /\ UNCHANGED <<call, on>>

---------------------------------------------------------------------------
(* The program's calls: an object is left alone while it is deregistered.  *)

InCall(x) == {u \in Users : on[u] = x}
Allowed(c, x) ==
  CASE c = "register" -> handle[x] = "none" /\ InCall(x) = {}
    [] c \in OnWait \ {"register"} -> handle[x] = "open" /\ InCall(x) = {}
    [] c = "signal" -> TRUE
First(c) == CASE c = "register" -> "lock" [] c \in {"arm", "disarm", "deregister", "deregister_wait"} -> "set" [] c = "signal" -> "signal"

Begin(u, c, x) ==
  /\ At(u, "idle") /\ <<c, x>> \in CallsOf[u] /\ left[u] > 0 /\ Allowed(c, x)
  /\ Goto(u, First(c)) /\ call' = [call EXCEPT ![u] = c] /\ on' = [on EXCEPT ![u] = x]
  /\ left' = [left EXCEPT ![u] = @ - 1]
  /\ handle' = IF c \in {"deregister", "deregister_wait"} THEN [handle EXCEPT ![x] = "closed"] ELSE handle
  /\ UNCHANGED <<shared, event>>

(* NtSetEvent by the program.                                              *)
signal(u) == /\ At(u, "signal") /\ event' = event \cup {on[u]} /\ Return(u)
             /\ UNCHANGED <<shared, left, handle>>

---------------------------------------------------------------------------
(* tp_waitqueue_lock: the first bucket with room, or a new one.            *)

HasRoom(b) == bucket[b].objcount < max_objects
WithRoom == SelectSeq(buckets, HasRoom)
Reserve(b, x) == bucket' = [bucket EXCEPT ![b].reserved = @ \cup {x}, ![b].objcount = @ + 1]
New(b) == [NewWait EXCEPT !.life = "live", !.refcount = 1, !.bucket = b]

tp_waitqueue_lock(u) ==
  /\ At(u, "lock") /\ cs = Nobody
  /\ \/ /\ WithRoom # <<>> /\ Reserve(Head(WithRoom), on[u])
        /\ wait' = [wait EXCEPT ![on[u]] = New(Head(WithRoom))] /\ UNCHANGED <<buckets, thread>>
     \/ \E b \in Buckets :
          /\ WithRoom = <<>> /\ thread[b].pc = "none" /\ Reserve(b, on[u])
          /\ wait' = [wait EXCEPT ![on[u]] = New(b)] /\ buckets' = Append(buckets, b)
          /\ thread' = [thread EXCEPT ![b] = [NewThread EXCEPT !.pc = "enter"]]
  /\ Continue(u, "set")
  /\ UNCHANGED <<cs, event, left, handle>>

---------------------------------------------------------------------------
(* TpSetWait.                                                              *)

Unlist(r, x) == [r EXCEPT !.waiting = Remove(@, x), !.reserved = @ \ {x}]
IsWaiting(x) == \E b \in Buckets : x \in ToSet(bucket[b].waiting)

NextSerial(x, h) == IF wait[x].handle = h THEN wait[x].serial ELSE wait[x].serial + 1

(* Mutant: the thread of the bucket is not woken.                          *)
Armed_quiet(r, x) == [Unlist(r, x) EXCEPT !.waiting = Append(@, x)]
Armed(r, x) == [Unlist(r, x) EXCEPT !.waiting = Append(@, x), !.update = TRUE]
Disarmed(r, x) == [Unlist(r, x) EXCEPT !.reserved = @ \cup {x}, !.update = TRUE]

TpSetWait(x, h) ==
  LET b == wait[x].bucket IN
  /\ cs = Nobody
  /\ IF h # None \/ IsWaiting(x)
     THEN /\ bucket' = [bucket EXCEPT ![b] = IF h = None THEN Disarmed(@, x) ELSE Armed(@, x)]
          /\ wait' = [wait EXCEPT ![x].handle = h, ![x].serial = NextSerial(x, h), ![x].due = FALSE]
     ELSE wait' = [wait EXCEPT ![x].handle = h] /\ UNCHANGED bucket

set(u) ==
  /\ At(u, "set") /\ TpSetWait(on[u], IF call[u] \in {"register", "arm"} THEN HandleOf[on[u]] ELSE None)
  /\ handle' = IF call[u] = "register" THEN [handle EXCEPT ![on[u]] = "open"] ELSE handle
  /\ CASE call[u] = "deregister_wait" -> Continue(u, "cancel")
       [] call[u] = "deregister" -> Continue(u, "unlock")
       [] OTHER -> Return(u)
  /\ UNCHANGED <<buckets, cs, thread, event, left>>

---------------------------------------------------------------------------
(* RtlDeregisterWaitEx.                                                    *)

(* tp_object_cancel takes the object from the pool's list.                 *)
(* Mutant: the signals of the callbacks stay.                              *)
Cancelled_signaled(r) == [r EXCEPT !.refcount = @ - r.pending, !.pending = 0, !.queued = FALSE]
Cancelled(r) == IF r.pending = 0 THEN r
                ELSE [r EXCEPT !.refcount = @ - r.pending, !.pending = 0, !.queued = FALSE, !.signaled = 0]
cancel(u) ==
  /\ At(u, "cancel") /\ Continue(u, "wait")
  /\ wait' = [wait EXCEPT ![on[u]] = Cancelled(@)]
  /\ UNCHANGED <<bucket, buckets, cs, thread, event, left, handle>>

object_is_finished(r) == r.pending = 0 /\ r.running = 0

tp_object_wait(u) ==
  /\ At(u, "wait") /\ Continue(u, IF object_is_finished(wait[on[u]]) THEN "unlock" ELSE "sleep")
  /\ UNCHANGED <<shared, event, left, handle>>

(* pc when those who wait for x, which becomes r, wake.                    *)
(* Mutant: nobody wakes.                                                   *)
Woken_quiet(x, r) == pc
Woken(x, r) == [v \in Users |-> IF pc[v] = "sleep" /\ on[v] = x /\ object_is_finished(r) THEN "wait" ELSE pc[v]]

tp_waitqueue_unlock(u) ==
  LET b == wait[on[u]].bucket IN
  /\ At(u, "unlock") /\ cs = Nobody /\ Continue(u, "drop")
  /\ bucket' = [bucket EXCEPT ![b] = [Unlist(@, on[u]) EXCEPT !.objcount = @ - 1, !.update = TRUE]]
  /\ wait' = [wait EXCEPT ![on[u]].bucket = None]
  /\ UNCHANGED <<buckets, cs, thread, event, left, handle>>

(* Mutant: the last reference is dropped twice.                            *)
tp_object_release_twice(r) == [r EXCEPT !.refcount = @ - 2, !.life = IF r.refcount = 1 THEN "freed" ELSE @]
tp_object_release(r) == [r EXCEPT !.refcount = @ - 1, !.life = IF r.refcount = 1 THEN "freed" ELSE @]

drop(u) == /\ At(u, "drop") /\ wait' = [wait EXCEPT ![on[u]] = tp_object_release([@ EXCEPT !.shutdown = TRUE])] /\ Return(u)
           /\ UNCHANGED <<bucket, buckets, cs, thread, event, left, handle>>

---------------------------------------------------------------------------
(* waitqueue_thread_proc.                                                  *)

Following(s, x) == LET k == {i \in 1 .. Len(s) : s[i] = x} IN
                   IF \E i \in k : i < Len(s) THEN s[(CHOOSE i \in k : TRUE) + 1] ELSE End
FirstOf(s) == IF s = <<>> THEN End ELSE Head(s)
Restarted(s) == [NewThread EXCEPT !.pc = "scan", !.next = FirstOf(s)]

enter(b) ==
  /\ thread[b].pc = "enter" /\ cs = Nobody /\ cs' = b
  /\ thread' = [thread EXCEPT ![b] = Restarted(bucket[b].waiting)]
  /\ UNCHANGED <<wait, bucket, buckets, event, user>>

(* The timeout of an object passes; TpSetWait alone sets another.          *)
elapse(x) == /\ x \in Timed /\ IsWaiting(x) /\ ~wait[x].due /\ wait' = [wait EXCEPT ![x].due = TRUE]
             /\ UNCHANGED <<bucket, buckets, cs, thread, event, user>>

(* An object whose wait is over leaves the list, if it executes only once. *)
Triggered(b, x) == IF x \in Once THEN [bucket EXCEPT ![b] = [Unlist(@, x) EXCEPT !.reserved = @ \cup {x}]] ELSE bucket
tp_object_submit(r, signals) ==
  [r EXCEPT !.refcount = @ + 1, !.pending = @ + 1, !.signaled = @ + signals, !.queued = TRUE]
Execute(r) == [r EXCEPT !.pending = @ - 1, !.running = @ + 1, !.signaled = IF @ > 0 THEN @ - 1 ELSE 0]

(* A callback in this thread is counted without pool->cs; next stays.      *)
scan_timeout(b) ==
  LET x == thread[b].next
      nx == Following(bucket[b].waiting, x)
  IN /\ thread[b].pc = "scan" /\ x # End /\ wait[x].due
     /\ bucket' = Triggered(b, x)
     /\ IF x \in InThread
        THEN /\ wait' = [wait EXCEPT ![x].refcount = @ + 1, ![x].pending = @ + 1]
             /\ thread' = [thread EXCEPT ![b].pc = "count_timeout", ![b].next = nx, ![b].hit = x]
        ELSE /\ wait' = [wait EXCEPT ![x] = tp_object_submit(@, 0)]
             /\ thread' = [thread EXCEPT ![b].next = nx]
     /\ UNCHANGED <<buckets, cs, event, user>>

(* tp_object_execute in this thread leaves waitqueue.cs.                   *)
execute(b) ==
  /\ thread[b].pc \in {"count_timeout", "count_hit"} /\ cs' = Nobody
  /\ wait' = [wait EXCEPT ![thread[b].hit] = Execute(@)]
  /\ thread' = [thread EXCEPT ![b].pc = IF @ = "count_timeout" THEN "run_timeout" ELSE "run_hit"]
  /\ UNCHANGED <<bucket, buckets, event, user>>

(* Mutant: the objects are collected without a reference.                  *)
Collected_bare(r) == r
Collected(r) == [r EXCEPT !.refcount = @ + 1]

scan_collect(b) ==
  LET x == thread[b].next IN
  /\ thread[b].pc = "scan" /\ x # End /\ ~wait[x].due
  /\ wait' = [wait EXCEPT ![x] = Collected(@)]
  /\ thread' = [thread EXCEPT ![b].next = Following(bucket[b].waiting, x),
                              ![b].objects = Append(@, [obj |-> x, serial |-> wait[x].serial])]
  /\ UNCHANGED <<bucket, buckets, cs, event, user>>

scan_end(b) ==
  /\ thread[b].pc = "scan" /\ thread[b].next = End /\ cs' = Nobody
  /\ thread' = [thread EXCEPT ![b].pc = IF bucket[b].objcount = 0 THEN "idle" ELSE "waiting"]
  /\ UNCHANGED <<wait, bucket, buckets, event, user>>

(* NtWaitForMultipleObjects: the first handle that is signaled, then       *)
(* update_event; or the first timeout.                                     *)
Hits(b) == {k \in 1 .. Len(thread[b].objects) : HandleOf[thread[b].objects[k].obj] \in event}
FirstHit(b) == CHOOSE k \in Hits(b) : \A j \in Hits(b) : k <= j

wait_signaled(b) ==
  /\ thread[b].pc = "waiting" /\ Hits(b) # {}
  /\ thread' = [thread EXCEPT ![b].pc = "woken", ![b].hit = FirstHit(b)]
  /\ event' = event \ ({HandleOf[thread[b].objects[FirstHit(b)].obj]} \cap AutoReset)
  /\ UNCHANGED <<wait, bucket, buckets, cs, user>>
wait_updated(b) ==
  /\ thread[b].pc \in {"waiting", "idle"} /\ Hits(b) = {} /\ bucket[b].update
  /\ bucket' = [bucket EXCEPT ![b].update = FALSE]
  /\ thread' = [thread EXCEPT ![b].pc = IF @ = "idle" THEN "idle_woken" ELSE "woken"]
  /\ UNCHANGED <<wait, buckets, cs, event, user>>
wait_timeout(b) ==
  /\ Hits(b) = {} /\ ~bucket[b].update
  /\ \/ /\ thread[b].pc = "waiting" /\ thread' = [thread EXCEPT ![b].pc = "woken"]
        /\ \E k \in DOMAIN thread[b].objects : wait[thread[b].objects[k].obj].due
     \/ thread[b].pc = "idle" /\ thread' = [thread EXCEPT ![b].pc = "idle_timed"]
  /\ UNCHANGED <<wait, bucket, buckets, cs, event, user>>

(* Mutant: only the bucket is looked at.                                   *)
IsCurrent_bucket(o) == wait[o.obj].bucket # None
IsCurrent(o) == wait[o.obj].bucket # None /\ wait[o.obj].serial = o.serial

woken(b) ==
  LET k == thread[b].hit
      o == thread[b].objects[k]
      x == o.obj
  IN /\ thread[b].pc = "woken" /\ cs = Nobody
     /\ cs' = b
     /\ IF k = 0 \/ ~IsCurrent(o)
        THEN thread' = [thread EXCEPT ![b].pc = "release"] /\ UNCHANGED <<wait, bucket>>
        ELSE /\ bucket' = Triggered(b, x)
             /\ IF x \in InThread
                THEN /\ wait' = [wait EXCEPT ![x].pending = @ + 1, ![x].signaled = @ + 1]
                     /\ thread' = [thread EXCEPT ![b].pc = "count_hit", ![b].hit = x]
                ELSE /\ wait' = [wait EXCEPT ![x] = tp_object_submit(@, 1)]
                     /\ thread' = [thread EXCEPT ![b].pc = "release"]
     /\ UNCHANGED <<buckets, event, user>>

(* The callback in this thread is over.                                    *)
callback_over(b) ==
  LET x == thread[b].hit
      r == [wait[x] EXCEPT !.running = @ - 1]
  IN /\ thread[b].pc \in {"run_timeout", "run_hit"} /\ cs = Nobody /\ cs' = b
     /\ wait' = [wait EXCEPT ![x] = IF thread[b].pc = "run_timeout" THEN tp_object_release(r) ELSE r]
     /\ thread' = [thread EXCEPT ![b].pc = IF @ = "run_timeout" THEN "scan" ELSE "release", ![b].hit = 0]
     /\ pc' = Woken(x, r)
     /\ UNCHANGED <<bucket, buckets, event, call, on, left, handle>>

(* Mutant: the first object is kept.                                       *)
Holds_but_first(b, x) == \E k \in DOMAIN thread[b].objects : k > 1 /\ thread[b].objects[k].obj = x
Holds(b, x) == \E k \in DOMAIN thread[b].objects : thread[b].objects[k].obj = x

release(b) ==
  /\ thread[b].pc = "release"
  /\ wait' = [x \in Waits |-> IF Holds(b, x) THEN tp_object_release(wait[x]) ELSE wait[x]]
  /\ thread' = [thread EXCEPT ![b] = [NewThread EXCEPT !.pc = "merge"]]
  /\ UNCHANGED <<bucket, buckets, cs, event, user>>

MayEnd(b) == bucket[b].objcount = 0

idle_over(b) ==
  /\ thread[b].pc \in {"idle_woken", "idle_timed"} /\ cs = Nobody
  /\ IF thread[b].pc = "idle_timed" /\ MayEnd(b)
     THEN /\ buckets' = Remove(buckets, b) /\ thread' = [thread EXCEPT ![b] = NewThread]
          /\ bucket' = [bucket EXCEPT ![b] = NewBucket] /\ UNCHANGED cs
     ELSE cs' = b /\ thread' = [thread EXCEPT ![b].pc = "merge"] /\ UNCHANGED <<bucket, buckets>>
  /\ UNCHANGED <<wait, event, user>>

(* A bucket that is a third full gives its objects to another one that is  *)
(* two thirds full with them.                                              *)
Mergeable(b, c) == /\ c # b /\ bucket[c].objcount > 0
                   /\ bucket[c].objcount + bucket[b].objcount <= (max_objects * 2) \div 3
Others(b) == SelectSeq(buckets, LAMBDA c : Mergeable(b, c))

(* Mutant: the objects keep their bucket.                                  *)
Moved_not(r, b, c) == r
Moved(r, b, c) == IF r.bucket = b THEN [r EXCEPT !.bucket = c] ELSE r

GiveTo(b, c) ==
  /\ wait' = [x \in Waits |-> Moved(wait[x], b, c)]
  /\ bucket' = [bucket EXCEPT ![b] = [@ EXCEPT !.objcount = 0, !.waiting = <<>>, !.reserved = {}],
                              ![c] = [objcount |-> @.objcount + bucket[b].objcount,
                                      waiting |-> @.waiting \o bucket[b].waiting,
                                      reserved |-> @.reserved \cup bucket[b].reserved, update |-> TRUE]]
  /\ buckets' = Append(Remove(buckets, b), b)

merge(b) ==
  /\ thread[b].pc = "merge"
  /\ IF bucket[b].objcount > 0 /\ bucket[b].objcount <= max_objects \div 3 /\ Others(b) # <<>>
     THEN GiveTo(b, Head(Others(b)))
     ELSE UNCHANGED <<wait, bucket, buckets>>
  /\ thread' = [thread EXCEPT ![b] = Restarted(bucket'[b].waiting)]
  /\ UNCHANGED <<cs, event, user>>

---------------------------------------------------------------------------
(* The workers of the pool.                                                *)

Inline(x) == Cardinality({b \in Buckets : thread[b].pc \in {"run_timeout", "run_hit"} /\ thread[b].hit = x})

worker_start(x) ==
  /\ wait[x].queued
  /\ wait' = [wait EXCEPT ![x] = [Execute(@) EXCEPT !.queued = (wait[x].pending > 1)]]
  /\ UNCHANGED <<bucket, buckets, cs, thread, event, user>>
worker_end(x) ==
  LET r == [wait[x] EXCEPT !.running = @ - 1] IN
  /\ wait[x].running > Inline(x) /\ wait' = [wait EXCEPT ![x] = tp_object_release(r)] /\ pc' = Woken(x, r)
  /\ UNCHANGED <<bucket, buckets, cs, thread, event, call, on, left, handle>>

---------------------------------------------------------------------------
UserStep(u) == \/ signal(u) \/ tp_waitqueue_lock(u) \/ set(u) \/ cancel(u) \/ tp_object_wait(u)
               \/ tp_waitqueue_unlock(u) \/ drop(u)
ThreadStep(b) == \/ enter(b) \/ scan_timeout(b) \/ scan_collect(b) \/ execute(b) \/ scan_end(b)
                 \/ wait_signaled(b) \/ wait_updated(b) \/ wait_timeout(b) \/ woken(b) \/ callback_over(b)
                 \/ release(b) \/ idle_over(b) \/ merge(b)
WorkerStep(x) == worker_start(x) \/ worker_end(x)

Next == \/ \E u \in Users : (\E c \in CallsOf[u] : Begin(u, c[1], c[2])) \/ UserStep(u)
        \/ \E b \in Buckets : ThreadStep(b)
        \/ \E x \in Waits : WorkerStep(x) \/ elapse(x)

Spec == Init /\ [][Next]_vars

(* Threads run, callbacks return, and waitqueue.cs, which is given up in   *)
(* each round, is not withheld from anybody for ever.                      *)
Fairness == /\ \A u \in Users : SF_vars(UserStep(u))
            /\ \A b \in Buckets : SF_vars(ThreadStep(b))
            /\ \A x \in Waits : WF_vars(WorkerStep(x))
LiveSpec == Spec /\ Fairness

---------------------------------------------------------------------------
(* Properties.                                                             *)

ThreadLabels == {"none", "enter", "scan", "idle", "idle_woken", "idle_timed", "waiting", "woken", "count_timeout", "count_hit",
                 "run_timeout", "run_hit", "release", "merge"}

(* Types, with no count below zero.                                        *)
TypeOK ==
  /\ \A x \in Waits : /\ wait[x].refcount \in Nat /\ wait[x].pending \in Nat /\ wait[x].running \in Nat
                      /\ wait[x].bucket \in Buckets \cup {None} /\ wait[x].handle \in Handles \cup {None}
  /\ \A b \in Buckets : thread[b].pc \in ThreadLabels /\ thread[b].next \in Waits \cup {End}
  /\ event \subseteq Handles
  /\ cs # Nobody <=> \E b \in Buckets : cs = b /\ thread[b].pc \in {"scan", "count_timeout", "count_hit", "release", "merge"}

(* A bucket has the objects that name it, each in one of its lists, no     *)
(* more than it has room for, and a thread while it has one.               *)
BucketsExact ==
  \A b \in Buckets :
    LET mine == {x \in Waits : wait[x].bucket = b} IN
    /\ bucket[b].objcount = Cardinality(mine) /\ bucket[b].objcount <= max_objects
    /\ ToSet(bucket[b].waiting) \cup bucket[b].reserved = mine
    /\ Len(bucket[b].waiting) + Cardinality(bucket[b].reserved) = Cardinality(mine)
    /\ mine # {} => thread[b].pc # "none"

(* Threads and callbacks keep what they use: no object is destroyed while  *)
(* it is collected, listed, pending or running.                            *)
InUse(x) == \/ \E b \in Buckets : Holds(b, x)
            \/ wait[x].bucket # None \/ wait[x].pending + wait[x].running > 0
ObjectsLive == \A x \in Waits : wait[x].life = "freed" => ~InUse(x) /\ wait[x].shutdown

(* What waitqueue_thread_proc asserts of an object whose handle was        *)
(* signaled, and of a bucket without objects.                              *)
WaitAsserts ==
  \A b \in Buckets :
    /\ thread[b].pc = "woken" /\ thread[b].hit # 0 =>
         LET o == thread[b].objects[thread[b].hit] IN IsCurrent(o) => wait[o.obj].bucket = b
    /\ thread[b].pc = "idle" => thread[b].objects = <<>>

(* The assertion on the next object of the list: it waits.                 *)
NextWaits == \A b \in Buckets : thread[b].pc = "scan" /\ thread[b].next # End =>
                                  thread[b].next \in ToSet(bucket[b].waiting)

(* After RtlDeregisterWaitEx has waited, no callback of the object runs or *)
(* comes.                                                                  *)
DeregisteredQuiet ==
  \A u \in Users : call[u] = "deregister_wait" /\ pc[u] \in {"unlock", "drop"} =>
                     wait[on[u]].pending = 0 /\ wait[on[u]].running = 0

(* tp_object_cancel finds an object with pending callbacks in the list of  *)
(* the pool: none of them is the one that the thread of the bucket counts  *)
(* without pool->cs.                                                       *)
PendingQueued == \A u \in Users : pc[u] = "cancel" => (wait[on[u]].pending > 0 <=> wait[on[u]].queued)

(* A callback that reports WAIT_OBJECT_0 is due to a signal, not to a      *)
(* timeout after a signal that was cancelled.                              *)
SignalsPending == \A x \in Waits : wait[x].signaled <= wait[x].pending

(* A signal that the thread takes for an object that waits for it leads to *)
(* a callback.                                                             *)
SignalReported ==
  \A b \in Buckets : thread[b].pc = "woken" /\ thread[b].hit # 0 =>
     LET o == thread[b].objects[thread[b].hit] IN IsWaiting(o.obj) => IsCurrent(o)

(* A signaled handle that an object waits for is not overlooked.           *)
Unserved(x) == IsWaiting(x) /\ HandleOf[x] \in event
====
