----------------------------- MODULE TimerQueue -----------------------------
(***************************************************************************)
(* The timer queues of dlls/ntdll/threadpool.c (RtlCreateTimerQueue,       *)
(* RtlCreateTimer): each queue has a thread that sleeps until its first    *)
(* timer is due and hands the callbacks to the workers of the pool or runs *)
(* them itself.  A section under q->cs is one step, except for the loop of *)
(* RtlDeleteTimerQueueEx, whose rounds are steps under cs[q].  A freed     *)
(* timer or queue is never used again for another one.                     *)
(***************************************************************************)
EXTENDS Integers, Sequences, SequencesExt, FiniteSets

CONSTANTS Users, Timers, Queues,
          InThread,      \* the timers with WT_EXECUTEINTIMERTHREAD
          OnlyOnce,      \* the timers with WT_EXECUTEONLYONCE, which the code does not look at
          DueTimes,      \* the values of DueTime
          Periods,       \* the values of Period, 0 for a timer that fires once
          EXPIRE_NEVER,  \* ~0
          CallsOf, MaxCalls, \* CallsOf[u]: the calls of u, and the bound on their number
          CallbackCalls, \* what callbacks do with their own queue
          MaxTime        \* the bound on the clock

Nobody == "nobody"
End == "end"
Default == "default"
OnTimer == {"update", "delete", "delete_wait", "delete_event"}

TimerAssumption ==
  /\ IsFiniteSet(Users) /\ IsFiniteSet(Timers) /\ IsFiniteSet(Queues)
  /\ InThread \cup OnlyOnce \subseteq Timers /\ DueTimes \cup Periods \subseteq Nat
  /\ MaxTime \in Nat /\ EXPIRE_NEVER \in Nat
  /\ \A d \in DueTimes \cup Periods : MaxTime + d < EXPIRE_NEVER
  /\ MaxCalls \in [Users -> Nat] /\ CallbackCalls \subseteq {"update", "delete", "create"}
  /\ CallsOf \in [Users -> SUBSET ({"create"} \X Timers \X (Queues \cup {Default}) \cup OnTimer \X Timers \X {Nobody}
                                   \cup {"create_queue", "delete_queue", "delete_queue_wait"} \X {Nobody} \X Queues)]

(* What an instance must satisfy.                                         *)
Assumptions == TimerAssumption

VARIABLES now,    \* queue_current_time()
          timer,  \* timer[x]: see NewTimer; event: the removal event is given
          queue,  \* queue[q]: see NewQueue
          cs,     \* cs[q]: the user that holds q->cs over several steps, or Nobody
          thread, \* thread[q]: [pc, deadline, timer] of timer_queue_thread_proc
          items,  \* items[x]: work items of x in the pool, not yet started
          running, returned, \* running[x], returned[x]: callbacks of x in workers, before and in timer_cleanup_callback
          done,   \* the timers whose removal event is set
          default_timer_queue,
          pc, call, loc, left, \* per user: where it is, its call [op, x, q], the cursors of its loop, calls left
          open    \* the timers and queues that the program holds and has not deleted

shared == <<timer, queue, cs, thread, items, running, returned, done>>
user == <<pc, call, loc, left, open>>
vars == <<now, shared, default_timer_queue, user>>

NewTimer == [life |-> "none", q |-> Nobody, runcount |-> 0, period |-> 0, expire |-> 0, destroy |-> FALSE, event |-> FALSE]
NewQueue == [life |-> "none", timers |-> <<>>, quit |-> FALSE, event |-> FALSE]
NewThread == [pc |-> "none", deadline |-> EXPIRE_NEVER, timer |-> Nobody]
NoCall == [op |-> "none", x |-> Nobody, q |-> Nobody]
NoLoop == [cursor |-> End, next |-> End]

Init ==
  /\ now = 0 /\ timer = [x \in Timers |-> NewTimer] /\ queue = [q \in Queues |-> NewQueue]
  /\ cs = [q \in Queues |-> Nobody] /\ thread = [q \in Queues |-> NewThread]
  /\ items = [x \in Timers |-> 0] /\ running = items /\ returned = items /\ done = {}
  /\ default_timer_queue = Nobody
  /\ pc = [u \in Users |-> "idle"] /\ call = [u \in Users |-> NoCall] /\ loc = [u \in Users |-> NoLoop]
  /\ left = MaxCalls /\ open = {}

At(u, l) == pc[u] = l
Goto(u, l) == pc' = [pc EXCEPT ![u] = l]
Return(u) == Goto(u, "idle") /\ call' = [call EXCEPT ![u] = NoCall]
X(u) == call[u].x
Q(u) == call[u].q
Free(q) == cs[q] = Nobody
pool == <<items, running, returned>>

---------------------------------------------------------------------------
(* The list of timers, under q->cs.  t: the timers with what the caller    *)
(* has already changed.                                                    *)

(* Mutant: behind the first timer that is due later.                       *)
Place_after(t, l, time) == SelectInSeq(l, LAMBDA y : time < t[y].expire) + 1
Place(t, l, time) == IF \E i \in DOMAIN l : time < t[l[i]].expire
                     THEN SelectInSeq(l, LAMBDA y : time < t[y].expire) ELSE Len(l) + 1

queue_add_timer(t, l, x, time, set_event) ==
  LET q == t[x].q  m == InsertAt(l, Place(t, l, time), x) IN
  /\ timer' = [t EXCEPT ![x].expire = time]
  /\ queue' = [queue EXCEPT ![q].timers = m, ![q].event = @ \/ (set_event /\ Head(m) = x)]
  /\ UNCHANGED done

(* Mutant: the thread is not told.                                         *)
queue_move_timer_quiet(t, x, time, set_event) == queue_add_timer(t, Remove(queue[t[x].q].timers, x), x, time, FALSE)
queue_move_timer(t, x, time, set_event) == queue_add_timer(t, Remove(queue[t[x].q].timers, x), x, time, set_event)

(* Mutant: the thread is only told if the queue was deleted when it had no timers. *)
Quits_never(r, l) == FALSE
Quits(r, l) == r.quit /\ l = <<>>
queue_remove_timer(t, x) ==
  LET q == t[x].q  l == Remove(queue[q].timers, x) IN
  /\ timer' = [t EXCEPT ![x].life = "freed"]
  /\ queue' = [queue EXCEPT ![q].timers = l, ![q].event = @ \/ Quits(queue[q], l)]
  /\ done' = IF t[x].event THEN done \cup {x} ELSE done

(* Mutant: a timer that is running is removed at once.                     *)
queue_destroy_timer_now(t, x) == queue_remove_timer([t EXCEPT ![x].destroy = TRUE], x)
queue_destroy_timer(t, x) ==
  IF t[x].runcount = 0 THEN queue_remove_timer([t EXCEPT ![x].destroy = TRUE], x)
  ELSE queue_move_timer([t EXCEPT ![x].destroy = TRUE], x, EXPIRE_NEVER, FALSE)

---------------------------------------------------------------------------
(* The program's calls.  It uses a timer or a queue that it holds, and     *)
(* deletes a queue when no call of another thread is about to use it.      *)

Uses(u, q) == ~At(u, "idle") /\ (Q(u) = q \/ (X(u) \in Timers /\ timer[X(u)].q = q)) /\ ~At(u, "wait_event")
Unused(x) == \A u \in Users : X(u) # x
Allowed(c) ==
  CASE c.op = "create" -> timer[c.x].life = "none" /\ Unused(c.x) /\ (c.q = Default \/ c.q \in open)
    [] c.op \in OnTimer -> c.x \in open /\ timer[c.x].q \in open \cup {default_timer_queue} /\ Unused(c.x)
    [] c.op = "create_queue" -> queue[c.q].life = "none"
    [] OTHER -> c.q \in open /\ \A u \in Users : ~Uses(u, c.q)
First(c) == CASE c.op = "create" /\ c.q = Default -> "default" [] c.op \in {"delete_queue", "delete_queue_wait"} -> "delete_queue"
              [] c.op \in {"create", "update", "create_queue"} -> c.op [] OTHER -> "delete"
Closed(c) == CASE c.op \in {"delete", "delete_wait", "delete_event"} -> {c.x} [] c.op \in {"delete_queue", "delete_queue_wait"} -> {c.q}
               [] OTHER -> {}

Begin(u, c) ==
  /\ At(u, "idle") /\ left[u] > 0 /\ Allowed(c)
  /\ Goto(u, First(c)) /\ call' = [call EXCEPT ![u] = c] /\ left' = [left EXCEPT ![u] = @ - 1]
  /\ open' = open \ Closed(c)
  /\ UNCHANGED <<now, shared, default_timer_queue, loc>>

(* RtlCreateTimerQueue, which may fail.                                    *)
Created(q) == /\ queue[q].life = "none" /\ queue' = [queue EXCEPT ![q].life = "live"]
              /\ thread' = [thread EXCEPT ![q].pc = "wait"]
RtlCreateTimerQueue(u) ==
  /\ At(u, "create_queue")
  /\ \/ Created(Q(u)) /\ open' = open \cup {Q(u)}
     \/ UNCHANGED <<queue, thread, open>>
  /\ Return(u)
  /\ UNCHANGED <<now, timer, cs, pool, done, default_timer_queue, loc, left>>

---------------------------------------------------------------------------
(* get_timer_queue(NULL).                                                  *)

UseDefault(u) == /\ call' = [call EXCEPT ![u].q = default_timer_queue] /\ Goto(u, "create")
get_timer_queue(u) ==
  /\ At(u, "default")
  /\ IF default_timer_queue # Nobody THEN UseDefault(u) ELSE Goto(u, "default_create") /\ UNCHANGED call
  /\ UNCHANGED <<now, shared, default_timer_queue, loc, left, open>>

default_create(u) ==
  /\ At(u, "default_create")
  /\ \/ \E q \in Queues : Created(q) /\ call' = [call EXCEPT ![u].q = q] /\ Goto(u, "default_cas")
     \/ Goto(u, "default_read") /\ UNCHANGED <<queue, thread, call>>
  /\ UNCHANGED <<now, timer, cs, pool, done, default_timer_queue, loc, left, open>>

(* Mutant: stored without the comparison.                                  *)
Wins_always(q) == TRUE
Wins(q) == default_timer_queue = Nobody
default_cas(u) ==
  /\ At(u, "default_cas")
  /\ IF Wins(Q(u)) THEN default_timer_queue' = Q(u) /\ Goto(u, "default_read")
     ELSE Goto(u, "delete_queue") /\ UNCHANGED default_timer_queue
  /\ UNCHANGED <<now, shared, call, loc, left, open>>

default_read(u) ==
  /\ At(u, "default_read")
  /\ IF default_timer_queue # Nobody THEN UseDefault(u) ELSE Return(u)
  /\ UNCHANGED <<now, shared, default_timer_queue, loc, left, open>>

---------------------------------------------------------------------------
(* RtlCreateTimer, RtlUpdateTimer, RtlDeleteTimer.                         *)

(* Mutant: a timer is added to a queue that is being deleted.              *)
Accepts_always(q) == TRUE
Accepts(q) == ~queue[q].quit
AddTimer(x, q, d, p) ==
  queue_add_timer([timer EXCEPT ![x] = [NewTimer EXCEPT !.life = "live", !.q = q, !.period = p]],
                  queue[q].timers, x, now + d, TRUE)
RtlCreateTimer(u) ==
  /\ At(u, "create") /\ Free(Q(u))
  /\ \/ Accepts(Q(u)) /\ open' = open \cup {X(u)} /\ \E d \in DueTimes, p \in Periods : AddTimer(X(u), Q(u), d, p)
     \/ UNCHANGED <<timer, queue, done, open>>   \* quit, or no memory
  /\ Return(u)
  /\ UNCHANGED <<now, cs, thread, pool, default_timer_queue, loc, left>>

CanUpdate(x) == timer[x].expire # EXPIRE_NEVER
UpdateTimer(x, d, p) ==
  IF CanUpdate(x) THEN queue_move_timer([timer EXCEPT ![x].period = p], x, now + d, TRUE)
  ELSE UNCHANGED <<timer, queue, done>>
RtlUpdateTimer(u) ==
  /\ At(u, "update") /\ Free(timer[X(u)].q)
  /\ \E d \in DueTimes, p \in Periods : UpdateTimer(X(u), d, p)
  /\ Return(u)
  /\ UNCHANGED <<now, cs, thread, pool, default_timer_queue, loc, left, open>>

NoteEvent(x, e) == [timer EXCEPT ![x].event = e]
(* Mutant: the caller does not wait for callbacks that have been queued.   *)
Waits_not(u) == FALSE
Waits(u) == call[u].op = "delete_wait" /\ timer[X(u)].runcount > 0
RtlDeleteTimer(u) ==
  /\ At(u, "delete") /\ Free(timer[X(u)].q)
  /\ \/ /\ queue_destroy_timer(NoteEvent(X(u), call[u].op # "delete"), X(u))
        /\ IF Waits(u) THEN Goto(u, "wait_event") /\ UNCHANGED call ELSE Return(u)
     \/ /\ call[u].op = "delete_wait" /\ queue_destroy_timer(timer, X(u)) /\ Return(u) \* NtCreateEvent failed
  /\ UNCHANGED <<now, cs, thread, pool, default_timer_queue, loc, left, open>>

wait_event(u) ==
  /\ At(u, "wait_event") /\ X(u) \in done /\ Return(u)
  /\ UNCHANGED <<now, shared, default_timer_queue, loc, left, open>>

---------------------------------------------------------------------------
(* RtlDeleteTimerQueueEx: LIST_FOR_EACH_ENTRY_SAFE notes the entry behind  *)
(* the cursor before the body moves or removes the cursor.                 *)

Behind(l, y) == IF y = End \/ y = Last(l) THEN End ELSE l[SelectInSeq(l, LAMBDA z : z = y) + 1]
AfterDelete(u) == CASE call[u].op = "create" -> Goto(u, "default_read") /\ UNCHANGED call
                    [] call[u].op = "delete_queue_wait" -> Goto(u, "join") /\ UNCHANGED call
                    [] OTHER -> Return(u)

QuitEmpty(r) == [r EXCEPT !.quit = TRUE, !.event = TRUE]
RtlDeleteTimerQueueEx(u) ==
  LET q == Q(u)  l == queue[q].timers IN
  /\ At(u, "delete_queue") /\ Free(q)
  /\ IF l = <<>> THEN /\ queue' = [queue EXCEPT ![q] = QuitEmpty(@)] /\ AfterDelete(u)
                      /\ UNCHANGED <<cs, loc>>
     ELSE /\ queue' = [queue EXCEPT ![q].quit = TRUE] /\ cs' = [cs EXCEPT ![q] = u]
          /\ loc' = [loc EXCEPT ![u] = [cursor |-> Head(l), next |-> Behind(l, Head(l))]]
          /\ Goto(u, "destroy_loop") /\ UNCHANGED call
  /\ UNCHANGED <<now, timer, thread, pool, done, default_timer_queue, left, open>>

destroy_loop(u) ==
  LET q == Q(u) IN
  /\ At(u, "destroy_loop") /\ queue_destroy_timer(timer, loc[u].cursor)
  /\ loc' = [loc EXCEPT ![u] = IF @.next = End THEN NoLoop ELSE [cursor |-> @.next, next |-> Behind(queue'[q].timers, @.next)]]
  /\ IF loc[u].next = End THEN AfterDelete(u) /\ cs' = [cs EXCEPT ![q] = Nobody]
     ELSE UNCHANGED <<pc, call, cs>>
  /\ UNCHANGED <<now, thread, pool, default_timer_queue, left, open>>

join(u) ==
  /\ At(u, "join") /\ thread[Q(u)].pc = "gone" /\ Return(u)
  /\ UNCHANGED <<now, shared, default_timer_queue, loc, left, open>>

---------------------------------------------------------------------------
(* The callbacks.  A callback may use its own timer, which its runcount    *)
(* keeps, and add a timer to its own queue.                                *)

Callback(x) == running[x] > 0 \/ \E q \in Queues : thread[q].pc = "run" /\ thread[q].timer = x
InCallback == {x \in Timers : Callback(x)}

callback_update(x) ==
  /\ "update" \in CallbackCalls /\ x \in InCallback /\ Free(timer[x].q)
  /\ \E d \in DueTimes, p \in Periods : UpdateTimer(x, d, p)
  /\ UNCHANGED <<now, cs, thread, pool, default_timer_queue, user>>

callback_delete(x) ==
  /\ "delete" \in CallbackCalls /\ x \in InCallback \cap open /\ Unused(x) /\ Free(timer[x].q)
  /\ queue_destroy_timer(NoteEvent(x, FALSE), x) /\ open' = open \ {x}
  /\ UNCHANGED <<now, cs, thread, pool, default_timer_queue, pc, call, loc, left>>

callback_create(x, y) ==
  /\ "create" \in CallbackCalls /\ x \in InCallback /\ timer[y].life = "none" /\ Unused(y)
  /\ Free(timer[x].q) /\ Accepts(timer[x].q)
  /\ \E d \in DueTimes, p \in Periods : AddTimer(y, timer[x].q, d, p)
  /\ open' = open \cup {y}
  /\ UNCHANGED <<now, cs, thread, pool, default_timer_queue, pc, call, loc, left>>

(* timer_cleanup_callback.                                                 *)
(* Mutant: a callback is counted down where it failed and where it ends.   *)
Uncounted_twice(x) == [timer EXCEPT ![x].runcount = @ - 2]
Uncounted(x) == [timer EXCEPT ![x].runcount = @ - 1]
(* Mutant: the last callback of a deleted timer does not remove it.        *)
Last_not(t, x) == FALSE
LastOf(t, x) == t[x].destroy /\ t[x].runcount = 0
Cleanup(x) ==
  LET t == Uncounted(x) IN
  /\ Free(timer[x].q)
  /\ IF LastOf(t, x) THEN queue_remove_timer(t, x) ELSE timer' = t /\ UNCHANGED <<queue, done>>

(* A worker of the pool: timer_callback_wrapper.                           *)
worker_start(x) ==
  /\ items[x] > 0 /\ items' = [items EXCEPT ![x] = @ - 1] /\ running' = [running EXCEPT ![x] = @ + 1]
  /\ UNCHANGED <<now, timer, queue, cs, thread, returned, done, default_timer_queue, user>>
worker_return(x) ==
  /\ running[x] > 0 /\ running' = [running EXCEPT ![x] = @ - 1] /\ returned' = [returned EXCEPT ![x] = @ + 1]
  /\ UNCHANGED <<now, timer, queue, cs, thread, items, done, default_timer_queue, user>>
timer_cleanup_callback(x) ==
  /\ returned[x] > 0 /\ Cleanup(x) /\ returned' = [returned EXCEPT ![x] = @ - 1]
  /\ UNCHANGED <<now, cs, thread, items, running, default_timer_queue, user>>

---------------------------------------------------------------------------
(* timer_queue_thread_proc.                                                *)

AtQ(q, l) == thread[q].pc = l
GotoQ(q, l) == thread' = [thread EXCEPT ![q].pc = l]

(* NtWaitForSingleObject: the event resets itself, and stays set if the    *)
(* timeout passes first.                                                   *)
event_wakes(q) ==
  /\ AtQ(q, "wait") /\ queue[q].event /\ queue' = [queue EXCEPT ![q].event = FALSE] /\ GotoQ(q, "woken")
  /\ UNCHANGED <<now, timer, cs, pool, done, default_timer_queue, user>>
timeout_wakes(q) ==
  /\ AtQ(q, "wait") /\ thread[q].deadline <= now /\ GotoQ(q, "expire")
  /\ UNCHANGED <<now, timer, queue, cs, pool, done, default_timer_queue, user>>

(* Mutant: the thread ends although callbacks have yet to come back.       *)
Done_early(q) == queue[q].quit
Done(q) == queue[q].quit /\ queue[q].timers = <<>>
woken(q) ==
  /\ AtQ(q, "woken") /\ Free(q) /\ GotoQ(q, IF Done(q) THEN "free" ELSE "timeout")
  /\ UNCHANGED <<now, timer, queue, cs, pool, done, default_timer_queue, user>>

(* Mutant: a timer that was due long ago fires for every period it missed. *)
NextTime_all(x) == IF timer[x].period = 0 THEN EXPIRE_NEVER ELSE timer[x].expire + timer[x].period
NextTime(x) ==
  LET next == timer[x].expire + timer[x].period IN
  IF timer[x].period = 0 THEN EXPIRE_NEVER ELSE IF next < now THEN now + timer[x].period ELSE next

(* Mutant: the callback is not counted.                                    *)
Counted_not(x) == timer
Counted(x) == [timer EXCEPT ![x].runcount = @ + 1]
queue_timer_expire(q) ==
  LET l == queue[q].timers  x == Head(l) IN
  /\ AtQ(q, "expire") /\ Free(q)
  /\ IF l # <<>> /\ ~timer[x].destroy /\ timer[x].expire <= now
     THEN /\ queue_move_timer(Counted(x), x, NextTime(x), FALSE)
          /\ thread' = [thread EXCEPT ![q].timer = x, ![q].pc = IF x \in InThread THEN "run" ELSE "submit"]
     ELSE GotoQ(q, "timeout") /\ UNCHANGED <<timer, queue, done>>
  /\ UNCHANGED <<now, cs, pool, default_timer_queue, user>>

Release(q, l) == thread' = [thread EXCEPT ![q].pc = l, ![q].timer = Nobody]

(* RtlQueueWorkItem, which may fail.                                       *)
submit(q) ==
  LET x == thread[q].timer IN
  /\ AtQ(q, "submit")
  /\ \/ items' = [items EXCEPT ![x] = @ + 1] /\ Release(q, "timeout")
     \/ GotoQ(q, "cleanup") /\ UNCHANGED items
  /\ UNCHANGED <<now, timer, queue, cs, running, returned, done, default_timer_queue, user>>

thread_return(q) ==
  /\ AtQ(q, "run") /\ GotoQ(q, "cleanup")
  /\ UNCHANGED <<now, timer, queue, cs, pool, done, default_timer_queue, user>>
thread_cleanup(q) ==
  /\ AtQ(q, "cleanup") /\ Cleanup(thread[q].timer) /\ Release(q, "timeout")
  /\ UNCHANGED <<now, cs, pool, default_timer_queue, user>>

(* The time the thread takes to go to sleep is not part of the deadline.   *)
(* Mutant: the sleep of an empty queue.                                    *)
Deadline_never(l) == EXPIRE_NEVER
Deadline(l) == IF l = <<>> THEN EXPIRE_NEVER ELSE timer[Head(l)].expire
queue_get_timeout(q) ==
  /\ AtQ(q, "timeout") /\ Free(q)
  /\ thread' = [thread EXCEPT ![q].pc = "wait", ![q].deadline = Deadline(queue[q].timers)]
  /\ UNCHANGED <<now, timer, queue, cs, pool, done, default_timer_queue, user>>

free_queue(q) ==
  /\ AtQ(q, "free") /\ GotoQ(q, "gone") /\ queue' = [queue EXCEPT ![q].life = "freed"]
  /\ UNCHANGED <<now, timer, cs, pool, done, default_timer_queue, user>>

elapse == /\ now < MaxTime /\ now' = now + 1 /\ UNCHANGED <<shared, default_timer_queue, user>>

---------------------------------------------------------------------------
Calls(u) == {[op |-> c[1], x |-> c[2], q |-> c[3]] : c \in CallsOf[u]}
UserStep(u) ==
  \/ RtlCreateTimerQueue(u) \/ get_timer_queue(u) \/ default_create(u) \/ default_cas(u) \/ default_read(u)
  \/ RtlCreateTimer(u) \/ RtlUpdateTimer(u) \/ RtlDeleteTimer(u) \/ wait_event(u)
  \/ RtlDeleteTimerQueueEx(u) \/ destroy_loop(u) \/ join(u)
WorkerStep(x) == worker_start(x) \/ worker_return(x) \/ timer_cleanup_callback(x)
CallbackStep(x) == callback_update(x) \/ callback_delete(x) \/ \E y \in Timers : callback_create(x, y)
ThreadStep(q) ==
  \/ event_wakes(q) \/ timeout_wakes(q) \/ woken(q) \/ queue_timer_expire(q) \/ submit(q) \/ thread_return(q)
  \/ thread_cleanup(q) \/ queue_get_timeout(q) \/ free_queue(q)

Next == \/ \E u \in Users : UserStep(u) \/ \E c \in Calls(u) : Begin(u, c)
        \/ \E x \in Timers : WorkerStep(x) \/ CallbackStep(x)
        \/ \E q \in Queues : ThreadStep(q)
        \/ elapse

Spec == Init /\ [][Next]_vars

(* Critical sections are handed on, so steps that enter one are strongly   *)
(* fair; callbacks return; the clock runs.                                 *)
Fairness ==
  /\ \A u \in Users : SF_vars(UserStep(u))
  /\ \A x \in Timers : WF_vars(worker_start(x)) /\ WF_vars(worker_return(x)) /\ SF_vars(timer_cleanup_callback(x))
  /\ \A q \in Queues : SF_vars(ThreadStep(q))
  /\ WF_vars(elapse)
FairSpec == Spec /\ Fairness

---------------------------------------------------------------------------
(* Properties.                                                             *)

TypeOK ==
  /\ now \in 0..MaxTime
  /\ timer \in [Timers -> [life : {"none", "live", "freed"}, q : Queues \cup {Nobody}, runcount : Nat, period : {0} \cup Periods,
                           expire : Nat, destroy : BOOLEAN, event : BOOLEAN]]
  /\ queue \in [Queues -> [life : {"none", "live", "freed"}, timers : Seq(Timers), quit : BOOLEAN, event : BOOLEAN]]
  /\ cs \in [Queues -> Users \cup {Nobody}]
  /\ thread \in [Queues -> [pc : {"none", "wait", "woken", "expire", "submit", "run", "cleanup", "timeout", "free", "gone"},
                            deadline : Nat, timer : Timers \cup {Nobody}]]
  /\ items \in [Timers -> Nat] /\ running \in [Timers -> Nat] /\ returned \in [Timers -> Nat] /\ done \subseteq Timers
  /\ default_timer_queue \in Queues \cup {Nobody}
  /\ loc \in [Users -> [cursor : Timers \cup {End}, next : Timers \cup {End}]]
  /\ \A u \in Users : call[u] = NoCall \/ [call[u] EXCEPT !.q = Nobody] \in {[c EXCEPT !.q = Nobody] : c \in Calls(u)}
  /\ open \subseteq Timers \cup Queues

InThreadOf(x) == Cardinality({q \in Queues : thread[q].timer = x})

(* runcount is the number of callbacks that will come back for the timer: *)
(* in the pool, in a worker, in the thread of the queue, or about to be    *)
(* cleaned up.  It alone keeps a deleted timer, so one too few frees a     *)
(* timer in use and one too many leaves its deleter waiting.               *)
RuncountExact ==
  \A x \in Timers : timer[x].runcount = items[x] + running[x] + returned[x] + InThreadOf(x)

(* Whatever a callback, the thread of a queue or the loop of a deletion is *)
(* about to use still exists, and a queue is freed after all of its timers *)
(* and when nobody holds or wants its lock.                                *)
NoUseAfterFree ==
  /\ \A x \in Timers : items[x] + running[x] + returned[x] + InThreadOf(x) > 0 => timer[x].life = "live"
  /\ \A u \in Users : At(u, "destroy_loop") =>
       \A y \in {loc[u].cursor, loc[u].next} \ {End} : timer[y].life = "live"
  /\ \A x \in Timers : timer[x].life = "live" => queue[timer[x].q].life = "live"
  /\ \A q \in Queues : queue[q].life = "freed" =>
       \A u \in Users : Q(u) = q => pc[u] \in {"join", "default_read"}

(* The list of a queue holds its timers, each once, the next to expire     *)
(* first; a timer that is deleted and still running is behind all that may *)
(* yet fire (the comment "Make sure no destroyed timer masks an active     *)
(* timer at the head", and the assertion of queue_get_timeout).            *)
ListExact ==
  \A q \in Queues :
    LET l == queue[q].timers IN
    /\ ToSet(l) = {x \in Timers : timer[x].life = "live" /\ timer[x].q = q} /\ Len(l) = Cardinality(ToSet(l))
    /\ \A i, j \in DOMAIN l : i < j => timer[l[i]].expire <= timer[l[j]].expire
    /\ \A x \in ToSet(l) : timer[x].destroy => timer[x].expire = EXPIRE_NEVER

(* The assertion of queue_add_timer: when a queue is being deleted, and    *)
(* the deletion has left its lock, no timer of it can fire any more.       *)
QuitQuiet ==
  \A q \in Queues : queue[q].quit /\ Free(q) => \A x \in ToSet(queue[q].timers) : timer[x].destroy /\ timer[x].runcount > 0

(* The thread of a queue never sleeps past its first timer: while it is    *)
(* asleep, or on its way, and nobody has set its event, its deadline is no *)
(* later than the head of the list, whatever was added, moved or removed   *)
(* since it looked.                                                        *)
NoOversleep ==
  \A q \in Queues : AtQ(q, "wait") /\ ~queue[q].event /\ queue[q].timers # <<>>
                     => thread[q].deadline <= timer[Head(queue[q].timers)].expire

(* RtlDeleteTimer with INVALID_HANDLE_VALUE returns when the timer has no  *)
(* callback left: "wait until the timer is finished firing all pending     *)
(* callbacks before returning" (threadpool.c:1012).  A step of the caller  *)
(* that ends the call finds the timer gone and nothing of it in the pool.  *)
DeletedQuiet ==
  \A u \in Users : call[u].op = "delete_wait" /\ timer'[X(u)].event /\ ~At(u, "idle") /\ pc'[u] = "idle"
       => timer'[X(u)].life = "freed" /\ items'[X(u)] + running'[X(u)] = 0

(* A timer fires at most once per period, however late the thread is       *)
(* ("avoid trigger cascade if overloaded"): a timer is not left due by a   *)
(* step that fires it, unless its next time is now.                        *)
FiresOnce == \A x \in Timers : timer'[x].runcount > timer[x].runcount => timer'[x].expire >= now

(* No queue is lost with its thread: one that nobody has deleted is the    *)
(* default queue, or the program has its handle, or a call is about to     *)
(* store or delete it.  Two threads may both find no default queue.        *)
NoOrphan ==
  \A q \in Queues : queue[q].life = "live" /\ ~queue[q].quit
                     => q = default_timer_queue \/ q \in open \/ \E u \in Users : Q(u) = q /\ pc[u] \in {"default_cas", "delete_queue"}

(* WT_EXECUTEONLYONCE is supported (threadpool.c:920): such a timer has no *)
(* next time once a callback of it has been started.                       *)
OnceOnly == \A x \in OnlyOnce : timer[x].runcount > 0 => timer[x].expire = EXPIRE_NEVER
=============================================================================
