------------------------------ MODULE IoQueue ------------------------------
(***************************************************************************)
(* The I/O objects of the thread pool in dlls/ntdll/threadpool.c: the      *)
(* completion port with the thread that serves it, and for each object the *)
(* operations that were started, skipped and completed.  Workers are those *)
(* of ThreadPool; what they do with another object does not matter here.   *)
(***************************************************************************)
EXTENDS Integers, Sequences, SequencesExt, FiniteSets

CONSTANTS Users, Workers, Ios, Ops,
          IoOf,       \* IoOf[i]: the object that operation i is started with
          CallsOf,    \* CallsOf[u]: the calls of u, as <<call, object or operation>>
          MaxCalls,   \* bound on the calls of each user
          Restarts,   \* whether operations are started while a cancelled one is under way
          NoMemory,   \* whether array_reserve may fail
          Width       \* pending_count has Width bits

Nobody == "nobody"
OnIo == {"alloc", "wait", "wait_cancel", "release", "release_members", "cancel_members"}

IoAssumption == /\ IsFiniteSet(Users) /\ IsFiniteSet(Workers) /\ IsFiniteSet(Ios) /\ IsFiniteSet(Ops)
                /\ IoOf \in [Ops -> Ios] /\ MaxCalls \in Nat /\ {Restarts, NoMemory} \subseteq BOOLEAN /\ Width \in Nat \ {0}
                /\ CallsOf \in [Users -> SUBSET (OnIo \X Ios \cup {"start"} \X Ops)]

(* What an instance must satisfy.                                         *)
Assumptions == IoAssumption

VARIABLES obj,     \* obj[x]: the object, see NewIo
          queue,   \* ioqueue: [objcount, port], the port a sequence of operations and Nobody
          thread,  \* where ioqueue_thread_proc is, "none" when it does not run
          packet,  \* what it took from the port
          op,      \* op[i]: "none", "started", "rejected", "issued", "packet" or "over"
          ran,     \* ran[i]: how often the callback of i has run
          dropped, \* the operations whose callbacks a call has cancelled
          pc, call, on, left, handle,
          job      \* job[w]: the object whose callback w runs

shared == <<obj, queue, thread, packet>>
user == <<pc, call, on, left, handle>>
vars == <<shared, op, ran, dropped, user, job>>

NewIo == [life |-> "none", refcount |-> 0, shutdown |-> FALSE, shutting_down |-> FALSE, pending |-> 0, skipped |-> 0,
          completions |-> <<>>, callbacks |-> 0, running |-> 0]

Init ==
  /\ obj = [x \in Ios |-> NewIo] /\ queue = [objcount |-> 0, port |-> <<>>]
  /\ thread = "none" /\ packet = Nobody
  /\ op = [i \in Ops |-> "none"] /\ ran = [i \in Ops |-> 0] /\ dropped = {}
  /\ pc = [u \in Users |-> "idle"] /\ call = [u \in Users |-> "none"] /\ on = [u \in Users |-> Nobody]
  /\ left = [u \in Users |-> MaxCalls] /\ handle = [x \in Ios |-> "none"]
  /\ job = [w \in Workers |-> Nobody]

At(u, l) == pc[u] = l
Goto(u, l) == pc' = [pc EXCEPT ![u] = l]
Return(u) == Goto(u, "idle") /\ call' = [call EXCEPT ![u] = "none"] /\ on' = [on EXCEPT ![u] = Nobody]
Continue(u, l) == Goto(u, l) /\ UNCHANGED <<call, on>>
(* ioqueue.cs is held while the thread deals with a packet.                *)
Enterable == thread \notin {"classify", "deliver", "destroy", "check"}

Outstanding(x) == {i \in Ops : IoOf[i] = x /\ op[i] \in {"started", "rejected", "issued", "packet"}}

---------------------------------------------------------------------------
(* The program's calls.  It releases an object when it has waited for the  *)
(* operations it started with it, or has cancelled their callbacks.  A     *)
(* cleanup group may be released at any time.                              *)

InCall(x) == {u \in Users : on[u] = x \/ (on[u] \in Ops /\ IoOf[on[u]] = x)}
Ending(x) == \E u \in InCall(x) : call[u] \in {"release", "release_members", "cancel_members"}
Usable(x) == handle[x] = "open" /\ ~Ending(x)
Settled(i) == op[i] = "none" \/ ran[i] > 0 \/ i \in dropped

Allowed(c, x) ==
  CASE c = "alloc" -> handle[x] = "none" /\ InCall(x) = {}
    [] c = "start" -> /\ op[x] = "none" /\ Usable(IoOf[x]) /\ ~\E u \in InCall(IoOf[x]) : call[u] = "wait_cancel"
                      /\ Restarts \/ Outstanding(IoOf[x]) \cap dropped = {}
    [] c = "wait" -> Usable(x) /\ ~\E u \in InCall(x) : call[u] = "wait_cancel"
    [] c = "wait_cancel" -> Usable(x) /\ InCall(x) = {}
    [] c = "release" -> Usable(x) /\ InCall(x) = {} /\ \A i \in Ops : IoOf[i] = x => Settled(i)
    [] c \in {"release_members", "cancel_members"} -> Usable(x) /\ InCall(x) = {}

First(c) ==
  CASE c = "alloc" -> "lock" [] c = "start" -> "start" [] c = "wait" -> "wait" [] c = "wait_cancel" -> "cancel"
    [] c = "release" -> "mark" [] c \in {"release_members", "cancel_members"} -> "g_ref"

Begin(u, c, x) ==
  /\ At(u, "idle") /\ <<c, x>> \in CallsOf[u] /\ left[u] > 0 /\ Allowed(c, x)
  /\ Goto(u, First(c)) /\ call' = [call EXCEPT ![u] = c] /\ on' = [on EXCEPT ![u] = x]
  /\ left' = [left EXCEPT ![u] = @ - 1]
  /\ handle' = IF c \in {"release", "release_members", "cancel_members"} THEN [handle EXCEPT ![x] = "closed"] ELSE handle
  /\ UNCHANGED <<shared, op, ran, dropped, job>>

---------------------------------------------------------------------------
(* TpAllocIoCompletion.                                                    *)

(* tp_ioqueue_lock: the thread is started or, for the first object, woken. *)
(* Giving the file the port may fail after that.                           *)
tp_ioqueue_lock(u) ==
  /\ At(u, "lock") /\ Enterable
  /\ \/ /\ queue' = [queue EXCEPT !.objcount = @ + 1]
        /\ thread' = IF thread = "none" \/ (thread = "sleep" /\ queue.objcount = 0) THEN "remove" ELSE thread
        /\ Continue(u, "initialize")
     \/ thread' = (IF thread = "none" THEN "remove" ELSE thread) /\ Return(u) /\ UNCHANGED queue
  /\ UNCHANGED <<obj, packet, op, ran, dropped, left, handle, job>>

initialize(u) ==
  /\ At(u, "initialize")
  /\ obj' = [obj EXCEPT ![on[u]] = [NewIo EXCEPT !.life = "live", !.refcount = 1]]
  /\ handle' = [handle EXCEPT ![on[u]] = "open"] /\ Return(u)
  /\ UNCHANGED <<queue, thread, packet, op, ran, dropped, left, job>>

---------------------------------------------------------------------------
(* Operations.                                                             *)

(* Mutant: the operations that are under way do not count.                 *)
object_is_finished_early(r) == r.callbacks = 0 /\ r.running = 0
object_is_finished(r) == r.callbacks = 0 /\ r.pending = 0 /\ r.running = 0

(* pc when those who sleep until x is finished wake.                       *)
(* Mutant: nobody wakes.                                                   *)
Woken_quiet(x, r) == pc
Woken(x, r) ==
  [v \in Users |-> IF on[v] = x /\ pc[v] \in {"sleep", "g_sleep"} /\ object_is_finished(r)
                   THEN IF pc[v] = "sleep" THEN "wait" ELSE "g_wait" ELSE pc[v]]

TpStartAsyncIoOperation(u) ==
  /\ At(u, "start") /\ obj' = [obj EXCEPT ![IoOf[on[u]]].pending = (@ + 1) % 2^Width]
  /\ op' = [op EXCEPT ![on[u]] = "started"] /\ Continue(u, "issue")
  /\ UNCHANGED <<queue, thread, packet, ran, dropped, left, handle, job>>

(* ReadFile: the operation is under way, or was not accepted.              *)
issue(u) ==
  /\ At(u, "issue")
  /\ \/ op' = [op EXCEPT ![on[u]] = "issued"] /\ Return(u)
     \/ op' = [op EXCEPT ![on[u]] = "rejected"] /\ Continue(u, "undo")
  /\ UNCHANGED <<shared, ran, dropped, left, handle, job>>

TpCancelAsyncIoOperation(u) ==
  LET x == IoOf[on[u]]
      r == [obj[x] EXCEPT !.pending = (@ - 1) % 2^Width]
  IN /\ At(u, "undo") /\ obj' = [obj EXCEPT ![x] = r]
     /\ op' = [op EXCEPT ![on[u]] = "over"] /\ dropped' = dropped \cup {on[u]}
     /\ pc' = [Woken(x, r) EXCEPT ![u] = "idle"]
     /\ call' = [call EXCEPT ![u] = "none"] /\ on' = [on EXCEPT ![u] = Nobody]
     /\ UNCHANGED <<queue, thread, packet, ran, left, handle, job>>

(* The file's operation completes.                                         *)
complete(i) ==
  /\ op[i] = "issued" /\ op' = [op EXCEPT ![i] = "packet"]
  /\ queue' = [queue EXCEPT !.port = Append(@, i)]
  /\ UNCHANGED <<obj, thread, packet, ran, dropped, user, job>>

---------------------------------------------------------------------------
(* TpWaitForIoCompletion.                                                  *)

(* Mutant: the operations that are under way are forgotten.                *)
Cancelled_forgets(r) == [r EXCEPT !.refcount = @ - r.callbacks, !.callbacks = 0, !.pending = 0]
(* Mutant: the callbacks that are queued stay.                             *)
Cancelled_queued(r) == [r EXCEPT !.skipped = @ + r.pending, !.pending = 0]
Cancelled(r) == [r EXCEPT !.refcount = @ - r.callbacks, !.callbacks = 0, !.skipped = @ + r.pending, !.pending = 0]

tp_object_cancel(x) ==
  /\ obj' = [obj EXCEPT ![x] = Cancelled(@)]
  /\ dropped' = dropped \cup {i \in Ops : IoOf[i] = x /\ op[i] # "none" /\ ran[i] = 0}

cancel(u) == /\ At(u, "cancel") /\ tp_object_cancel(on[u]) /\ Continue(u, "wait")
             /\ UNCHANGED <<queue, thread, packet, op, ran, left, handle, job>>

tp_object_wait(u) ==
  /\ At(u, "wait")
  /\ IF object_is_finished(obj[on[u]]) THEN Return(u) ELSE Continue(u, "sleep")
  /\ UNCHANGED <<shared, op, ran, dropped, left, handle, job>>

---------------------------------------------------------------------------
(* TpReleaseIoCompletion.                                                  *)

(* Mutant: the skipped operations are not waited for.                      *)
can_destroy_pending(r) == r.pending = 0
(* Mutant: nor is an object destroyed whose callback runs.                 *)
can_destroy_idle(r) == r.pending = 0 /\ r.skipped = 0 /\ r.running = 0
can_destroy(r) == r.pending = 0 /\ r.skipped = 0

TpReleaseIoCompletion(u) ==
  /\ At(u, "mark") /\ obj' = [obj EXCEPT ![on[u]].shutting_down = TRUE]
  /\ IF can_destroy(obj[on[u]]) THEN Continue(u, "unlock") ELSE Return(u)
  /\ UNCHANGED <<queue, thread, packet, op, ran, dropped, left, handle, job>>

tp_ioqueue_unlock(q) == [q EXCEPT !.objcount = @ - 1, !.port = IF q.objcount = 1 THEN Append(@, Nobody) ELSE @]

unlock(u) ==
  /\ At(u, "unlock") /\ Enterable
  /\ queue' = IF obj[on[u]].shutdown THEN queue ELSE tp_ioqueue_unlock(queue)
  /\ Continue(u, IF call[u] = "release" THEN "shutdown" ELSE IF call[u] = "cancel_members" THEN "g_cancel" ELSE "g_wait")
  /\ UNCHANGED <<obj, thread, packet, op, ran, dropped, left, handle, job>>

shutdown(u) ==
  /\ At(u, "shutdown") /\ obj' = [obj EXCEPT ![on[u]].shutdown = TRUE] /\ Continue(u, "drop")
  /\ UNCHANGED <<queue, thread, packet, op, ran, dropped, left, handle, job>>

(* Mutant: two references are given up.                                    *)
tp_object_release_twice(r) == [r EXCEPT !.refcount = @ - 2, !.life = IF r.refcount = 2 THEN "freed" ELSE @]
tp_object_release(r) == [r EXCEPT !.refcount = @ - 1, !.life = IF r.refcount = 1 THEN "freed" ELSE @]

drop(u) == /\ At(u, "drop") /\ obj' = [obj EXCEPT ![on[u]] = tp_object_release(@)] /\ Return(u)
           /\ UNCHANGED <<queue, thread, packet, op, ran, dropped, left, handle, job>>

---------------------------------------------------------------------------
(* TpReleaseCleanupGroupMembers, of a group with this object in it.        *)

g_ref(u) == /\ At(u, "g_ref") /\ obj' = [obj EXCEPT ![on[u]].refcount = @ + 1] /\ Continue(u, "unlock")
            /\ UNCHANGED <<queue, thread, packet, op, ran, dropped, left, handle, job>>
g_cancel(u) == /\ At(u, "g_cancel") /\ tp_object_cancel(on[u]) /\ Continue(u, "g_wait")
               /\ UNCHANGED <<queue, thread, packet, op, ran, left, handle, job>>
g_wait(u) == /\ At(u, "g_wait") /\ Continue(u, IF object_is_finished(obj[on[u]]) THEN "g_drop" ELSE "g_sleep")
             /\ UNCHANGED <<shared, op, ran, dropped, left, handle, job>>
g_drop(u) == /\ At(u, "g_drop") /\ Continue(u, "shutdown")
             /\ obj' = IF obj[on[u]].shutdown THEN obj ELSE [obj EXCEPT ![on[u]] = tp_object_release(@)]
             /\ UNCHANGED <<queue, thread, packet, op, ran, dropped, left, handle, job>>

---------------------------------------------------------------------------
(* ioqueue_thread_proc.                                                    *)

NtRemoveIoCompletion ==
  /\ thread = "remove" /\ queue.port # <<>>
  /\ packet' = Head(queue.port) /\ queue' = [queue EXCEPT !.port = Tail(@)] /\ thread' = "got"
  /\ UNCHANGED <<obj, op, ran, dropped, user, job>>

Io == IoOf[packet]
got ==
  /\ thread = "got"
  /\ thread' = IF packet = Nobody THEN "check"
               ELSE IF obj[Io].shutdown \/ obj[Io].shutting_down THEN "classify" ELSE "deliver"
  /\ UNCHANGED <<obj, queue, packet, op, ran, dropped, user, job>>

Skipped(r) == [r EXCEPT !.skipped = IF @ > 0 THEN @ - 1 ELSE 0]

classify ==
  /\ thread = "classify"
  /\ IF obj[Io].pending > 0 THEN thread' = "deliver" /\ UNCHANGED <<obj, packet, op>>
     ELSE /\ obj' = [obj EXCEPT ![Io] = Skipped(@)]
          /\ op' = [op EXCEPT ![packet] = "over"]
          /\ IF obj'[Io].skipped > 0 THEN thread' = "remove" /\ packet' = Nobody
             ELSE thread' = "destroy" /\ UNCHANGED packet
  /\ UNCHANGED <<queue, ran, dropped, user, job>>

destroy ==
  /\ thread = "destroy" /\ queue' = [queue EXCEPT !.objcount = @ - 1]
  /\ obj' = [obj EXCEPT ![Io] = tp_object_release([@ EXCEPT !.shutdown = TRUE])]
  /\ thread' = "check" /\ packet' = Nobody
  /\ UNCHANGED <<op, ran, dropped, user, job>>

(* The completion is kept for tp_object_submit; without memory for it, the *)
(* operation is forgotten.                                                 *)
(* Mutant: the completion is not kept.                                     *)
Delivered_bare(r) == [r EXCEPT !.pending = @ - 1, !.callbacks = @ + 1, !.refcount = @ + 1]
Delivered(r) == [r EXCEPT !.pending = @ - 1, !.completions = Append(@, packet), !.callbacks = @ + 1, !.refcount = @ + 1]

deliver ==
  /\ thread = "deliver" /\ packet' = Nobody /\ op' = [op EXCEPT ![packet] = "over"]
  /\ \/ /\ obj' = IF obj[Io].pending > 0 THEN [obj EXCEPT ![Io] = Delivered(@)] ELSE obj
        /\ thread' = "check"
     \/ NoMemory /\ obj[Io].pending > 0 /\ obj' = [obj EXCEPT ![Io].pending = @ - 1] /\ thread' = "remove"
  /\ UNCHANGED <<queue, ran, dropped, user, job>>

check ==
  /\ thread = "check" /\ thread' = IF queue.objcount = 0 THEN "sleep" ELSE "remove"
  /\ UNCHANGED <<obj, queue, packet, op, ran, dropped, user, job>>

(* RtlSleepConditionVariableCS times out.                                  *)
(* Mutant: the thread ends without another look at objcount.               *)
MayEnd_always == TRUE
MayEnd == queue.objcount = 0
timeout == /\ thread = "sleep" /\ thread' = "timed_out" /\ UNCHANGED <<obj, queue, packet, op, ran, dropped, user, job>>
timed_out == /\ thread = "timed_out" /\ thread' = IF MayEnd THEN "none" ELSE "remove"
             /\ UNCHANGED <<obj, queue, packet, op, ran, dropped, user, job>>

---------------------------------------------------------------------------
(* tp_object_execute in a worker.                                          *)

tp_object_execute(w, x) ==
  LET r == obj[x] IN
  /\ job[w] = Nobody /\ r.callbacks > 0 /\ job' = [job EXCEPT ![w] = x]
  /\ ran' = [ran EXCEPT ![Last(r.completions)] = @ + 1]
  /\ obj' = [obj EXCEPT ![x] = [r EXCEPT !.callbacks = @ - 1, !.running = @ + 1, !.completions = Front(@)]]
  /\ UNCHANGED <<queue, thread, packet, op, dropped, user>>

executed(w) ==
  /\ job[w] # Nobody /\ job' = [job EXCEPT ![w] = Nobody]
  /\ LET r == [obj[job[w]] EXCEPT !.running = @ - 1] IN
     /\ obj' = [obj EXCEPT ![job[w]] = tp_object_release(r)] /\ pc' = Woken(job[w], r)
  /\ UNCHANGED <<queue, thread, packet, op, ran, dropped, call, on, left, handle>>

---------------------------------------------------------------------------
UserStep(u) == \/ tp_ioqueue_lock(u) \/ initialize(u)
               \/ TpStartAsyncIoOperation(u) \/ issue(u) \/ TpCancelAsyncIoOperation(u)
               \/ cancel(u) \/ tp_object_wait(u)
               \/ TpReleaseIoCompletion(u) \/ unlock(u) \/ shutdown(u) \/ drop(u)
               \/ g_ref(u) \/ g_cancel(u) \/ g_wait(u) \/ g_drop(u)
ThreadStep == \/ NtRemoveIoCompletion \/ got \/ classify \/ destroy \/ deliver \/ check \/ timeout \/ timed_out
WorkerStep(w) == (\E x \in Ios : tp_object_execute(w, x)) \/ executed(w)

Next == \/ \E u \in Users : (\E c \in CallsOf[u] : Begin(u, c[1], c[2])) \/ UserStep(u)
        \/ ThreadStep
        \/ \E w \in Workers : WorkerStep(w)
        \/ \E i \in Ops : complete(i)

Spec == Init /\ [][Next]_vars

(* Threads run, operations complete, and nobody waits for ioqueue.cs for   *)
(* ever, which the thread gives up after each packet.                      *)
Fairness == /\ \A u \in Users : SF_vars(UserStep(u))
            /\ WF_vars(ThreadStep)
            /\ \A w \in Workers : WF_vars(WorkerStep(w))
            /\ \A i \in Ops : WF_vars(complete(i))
LiveSpec == Spec /\ Fairness

---------------------------------------------------------------------------
(* Properties.                                                             *)

(* Types, with no count below zero.                                        *)
TypeOK ==
  /\ queue.objcount \in 0 .. Cardinality(Ios) /\ queue.port \in Seq(Ops \cup {Nobody})
  /\ thread \in {"none", "remove", "got", "classify", "destroy", "deliver", "check", "sleep", "timed_out"}
  /\ packet \in Ops \cup {Nobody}
  /\ \A x \in Ios : /\ obj[x].refcount \in Nat /\ obj[x].callbacks \in Nat /\ obj[x].running \in Nat
                    /\ obj[x].skipped \in Nat /\ obj[x].pending \in 0 .. 2^Width - 1
                    /\ obj[x].completions \in Seq(Ops)

(* Each operation that is under way is counted, as pending or as skipped,  *)
(* and nothing is pending that is not under way: a wait neither returns    *)
(* too early nor waits for what cannot come.                               *)
CountsOutstanding ==
  \A x \in Ios : obj[x].life = "live" =>
     LET n == Cardinality(Outstanding(x)) IN obj[x].pending <= n /\ n <= obj[x].pending + obj[x].skipped

(* "Object destruction will wait until one completion arrives": the packet *)
(* of an operation carries a pointer to the object.                        *)
OutlivesIo == \A x \in Ios : obj[x].life = "freed" => Outstanding(x) = {} /\ ~(packet \in Ops /\ Io = x)

(* What tp_object_execute and tp_object_submit assert: there is a          *)
(* completion for each callback, and a callback only before the shutdown.  *)
IoAsserts ==
  \A x \in Ios : /\ obj[x].callbacks <= Len(obj[x].completions)
                 /\ (thread = "deliver" /\ Io = x /\ obj[x].pending > 0 => ~obj[x].shutdown)

(* objcount is the number of objects that have not been shut down, and     *)
(* while there is one the thread runs.                                     *)
Unlocked(x) == \E u \in InCall(x) : pc[u] \in {"shutdown", "g_cancel", "g_wait", "g_sleep", "g_drop"}
Counted(x) == \/ obj[x].life = "live" /\ ~obj[x].shutdown /\ ~Unlocked(x)
              \/ \E u \in Users : on[u] = x /\ pc[u] = "initialize"
ObjcountServed == /\ queue.objcount = Cardinality({x \in Ios : Counted(x)})
                  /\ queue.objcount > 0 => thread # "none"

(* A callback that was cancelled before it ran does not run.               *)
CancelledNotDelivered == [][\A i \in dropped : ran'[i] = ran[i]]_vars

====
