------------------------------- MODULE MCPool -------------------------------
(***************************************************************************)
(* The thread pool of ntdll, its I/O and wait objects and the older timer  *)
(* queues, in one state space: which part is checked is chosen in the      *)
(* first state and never changes.  The parts use the same variables, pc,   *)
(* call, left and the registers r1 to r12; a register that a part does not *)
(* use stays 0.  The program's threads are u1 and u2, workers w1 and w2,   *)
(* service threads s1 and s2, objects x1 to x4.                            *)
(***************************************************************************)
EXTENDS Integers, Sequences, FiniteSets

CONSTANT Parts  \* the parts to check, of DOMAIN Setting

VARIABLES part, pc, call, left, r1, r2, r3, r4, r5, r6, r7, r8, r9, r10, r11, r12

vars == <<part, pc, call, left, r1, r2, r3, r4, r5, r6, r7, r8, r9, r10, r11, r12>>

Users == {"u1", "u2"}
N == "nobody"
OnAll(calls) == calls \X {N}
On(calls, xs) == calls \X xs

(* Thread pools.                                                           *)
Pool(workers, kinds, members, periodic, fails, inside, calls, max, posts) ==
  [workers |-> workers, kinds |-> kinds, members |-> members, periodic |-> periodic, fails |-> fails,
   inside |-> inside, calls |-> calls, max |-> max, posts |-> posts]
PoolSetting ==
  [pool_work |->   \* posted work, waited for and cancelled while it runs, and a simple callback
     Pool({"w1", "w2"}, [x1 |-> "work", x2 |-> "simple"], {}, {}, FALSE, {"disassociate", "post"},
          [u1 |-> On({"alloc", "post", "wait_cancel", "release"}, {"x1"}) \cup OnAll({"release_pool"}),
           u2 |-> On({"post"}, {"x1"}) \cup On({"alloc"}, {"x2"})], [u1 |-> 4, u2 |-> 1], 2),
   pool_group |->  \* members of a group, which their callbacks release
     Pool({"w1"}, [x1 |-> "work", x2 |-> "simple"], {"x1", "x2"}, {}, FALSE, {"release"},
          [u1 |-> On({"alloc", "post", "release"}, {"x1"}) \cup OnAll({"release_group", "release_pool"}),
           u2 |-> On({"alloc"}, {"x2"}) \cup OnAll({"release_members", "cancel_members"})], [u1 |-> 5, u2 |-> 2], 2),
   pool_timer |->  \* a periodic timer, with threads that cannot always be started
     Pool({"w1", "w2"}, [x1 |-> "timer"], {"x1"}, {"x1"}, TRUE, {"long"},
          [u1 |-> On({"alloc", "arm", "fire", "disarm", "release"}, {"x1"}) \cup OnAll({"release_pool"}),
           u2 |-> On({"arm", "wait"}, {"x1"}) \cup OnAll({"release_members"})], [u1 |-> 4, u2 |-> 1], 1),
   pool_return |->
     Pool({"w1"}, [x1 |-> "work", x2 |-> "simple"], {"x2"}, {}, FALSE, {},
          [u1 |-> On({"alloc", "post", "wait", "release"}, {"x1"}) \cup OnAll({"release_pool"}),
           u2 |-> On({"alloc"}, {"x2"}) \cup OnAll({"release_members"})], [u1 |-> 4, u2 |-> 2], 1)]

(* I/O objects: x1 and x2 are operations here, y1 and y2 the objects.      *)
Io(ios, workers, memory, calls, max) ==
  [ios |-> ios, workers |-> workers, memory |-> memory, calls |-> calls, max |-> max]
IoSetting ==
  [io_one |->  \* an object that two threads use; callbacks are cancelled
     Io({"y1"}, {"w1", "w2"}, FALSE,
        [u1 |-> On({"alloc", "wait_cancel", "release"}, {"y1"}) \cup On({"start"}, {"x1"}),
         u2 |-> On({"start"}, {"x2"}) \cup On({"wait"}, {"y1"})], 5),
   io_two |->  \* two objects, whose groups are released
     Io({"y1", "y2"}, {"w1"}, TRUE,
        [u1 |-> On({"alloc", "wait", "release_members"}, {"y1"}) \cup On({"start"}, {"x1", "x2"}),
         u2 |-> On({"alloc", "wait", "cancel_members"}, {"y2"})], 4),
   io_return |->
     Io({"y1"}, {"w1"}, FALSE,
        [u1 |-> On({"alloc", "wait", "release"}, {"y1"}) \cup On({"start"}, {"x1"}),
         u2 |-> On({"start"}, {"x2"}) \cup On({"wait"}, {"y1"})], 4)]

(* Wait objects, for the events h and g.                                   *)
Wait(handles, buckets, once, inthread, timed, size, calls, max) ==
  [handles |-> handles, buckets |-> buckets, once |-> once, inthread |-> inthread, timed |-> timed, size |-> size,
   calls |-> calls, max |-> max]
WaitSetting ==
  [waitq_merge |->  \* four objects, one too many for a bucket, of which two leave again
     Wait([x1 |-> "h", x2 |-> "h", x3 |-> "h", x4 |-> "h"], {"s1", "s2"}, {"x1", "x2"}, {}, {}, 3,
          [u1 |-> On({"register"}, {"x1", "x2", "x3", "x4"}) \cup On({"deregister"}, {"x1"}),
           u2 |-> On({"deregister"}, {"x2"})], [u1 |-> 5, u2 |-> 1]),
   waitq_set |->    \* x1 is set again while its event is signaled; x2 runs in the bucket's thread
     Wait([x1 |-> "h", x2 |-> "g"], {"s1"}, {"x1"}, {"x2"}, {"x1"}, 3,
          [u1 |-> On({"register", "arm", "disarm", "deregister_wait"}, {"x1"}),
           u2 |-> On({"register", "deregister_wait"}, {"x2"}) \cup On({"signal"}, {"h", "g"})], [u1 |-> 3, u2 |-> 3]),
   waitq_inline |-> \* an object, with a timeout, whose callbacks run in the thread
     Wait([x1 |-> "h"], {"s1"}, {}, {"x1"}, {"x1"}, 1,
          [u1 |-> On({"register", "deregister_wait"}, {"x1"}), u2 |-> {<<"signal", "h">>}], [u1 |-> 2, u2 |-> 2]),
   waitq_return |->
     Wait([x1 |-> "h", x2 |-> "h"], {"s1"}, {"x2"}, {"x1"}, {"x2"}, 3,
          [u1 |-> On({"register", "deregister_wait"}, {"x1"}),
           u2 |-> On({"register", "deregister"}, {"x2"}) \cup {<<"signal", "h">>}], [u1 |-> 2, u2 |-> 2])]

(* Timer queues s1 and s2, with timers x1 and x2.                          *)
TimerQ(timers, queues, inthread, due, periods, inside, time, calls, max) ==
  [timers |-> timers, queues |-> queues, inthread |-> inthread, due |-> due, periods |-> periods, inside |-> inside,
   time |-> time, calls |-> calls, max |-> max]
Create(q, xs) == {<<"create", x, q>> : x \in xs}
Change(calls, xs) == calls \X xs \X {N}
TheQueue(calls) == calls \X {N} \X {"s1"}
TimerSetting ==
  [timerq_all |->   \* timers are changed and deleted while the queue is deleted
     TimerQ({"x1", "x2"}, {"s1"}, {"x2"}, {1}, {0, 1}, {"update", "delete", "create"}, 1,
            [u1 |-> TheQueue({"create_queue", "delete_queue", "delete_queue_wait"}) \cup Create("s1", {"x1", "x2"}),
             u2 |-> Change({"update", "delete", "delete_wait", "delete_event"}, {"x1"})], [u1 |-> 4, u2 |-> 1]),
   timerq_sleep |-> \* the thread sleeps while timers are added, moved and removed
     TimerQ({"x1", "x2"}, {"s1"}, {"x2"}, {0, 1}, {0, 1}, {}, 2,
            [u1 |-> TheQueue({"create_queue"}) \cup Create("s1", {"x1", "x2"}),
             u2 |-> Change({"update", "delete_wait"}, {"x1", "x2"})], [u1 |-> 3, u2 |-> 1]),
   timerq_default |-> \* two threads both find no default queue
     TimerQ({"x1", "x2"}, {"s1", "s2"}, {"x2"}, {0}, {0}, {}, 1,
            [u1 |-> Create("default", {"x1"}),
             u2 |-> Create("default", {"x2"}) \cup Change({"delete_wait"}, {"x1", "x2"})], [u1 |-> 1, u2 |-> 2]),
   timerq_return |->
     TimerQ({"x1"}, {"s1"}, {}, {1}, {0, 1}, {"update", "delete"}, 1,
            [u1 |-> TheQueue({"create_queue", "delete_queue", "delete_queue_wait"}) \cup Create("s1", {"x1"}),
             u2 |-> Change({"update", "delete", "delete_wait"}, {"x1"})], [u1 |-> 3, u2 |-> 1]),
   timerq_loop |->  \* a queue with two timers is deleted
     TimerQ({"x1", "x2"}, {"s1"}, {}, {0}, {0}, {}, 1,
            [u1 |-> TheQueue({"create_queue", "delete_queue", "delete_queue_wait"}) \cup Create("s1", {"x1", "x2"}),
             u2 |-> {}], [u1 |-> 4, u2 |-> 0])]

PoolParts == Parts \cap DOMAIN PoolSetting
IoParts == Parts \cap DOMAIN IoSetting
WaitParts == Parts \cap DOMAIN WaitSetting
TimerParts == Parts \cap DOMAIN TimerSetting
ASSUME Parts = PoolParts \cup IoParts \cup WaitParts \cup TimerParts

Pools(p) == INSTANCE ThreadPool WITH
  Workers <- PoolSetting[p].workers, Objects <- DOMAIN PoolSetting[p].kinds, KindOf <- PoolSetting[p].kinds,
  InGroup <- PoolSetting[p].members, PriorityOf <- [x \in DOMAIN PoolSetting[p].kinds |-> IF x = "x1" THEN 1 ELSE 0],
  Periodic <- PoolSetting[p].periodic, max_workers <- Cardinality(PoolSetting[p].workers),
  CreateFails <- PoolSetting[p].fails, CallsOf <- PoolSetting[p].calls, InCallback <- PoolSetting[p].inside,
  MaxCalls <- PoolSetting[p].max, MaxPosts <- PoolSetting[p].posts,
  pool <- r1, lists <- r2, obj <- r3, group <- r4, timers <- r5, holder <- r6, on <- r7, instance <- r8, tmp <- r9,
  done <- r10, handle <- r11, posts <- r12
Ios(p) == INSTANCE IoQueue WITH
  Workers <- IoSetting[p].workers, Ios <- IoSetting[p].ios, Ops <- {"x1", "x2"},
  IoOf <- [x1 |-> "y1", x2 |-> "y1"], CallsOf <- IoSetting[p].calls, MaxCalls <- IoSetting[p].max,
  Restarts <- FALSE, NoMemory <- IoSetting[p].memory, Width <- 2,
  obj <- r1, queue <- r2, thread <- r3, packet <- r4, op <- r5, ran <- r6, dropped <- r7, on <- r8, handle <- r9,
  job <- r10
Waits(p) == INSTANCE WaitQueue WITH
  Waits <- DOMAIN WaitSetting[p].handles, Buckets <- WaitSetting[p].buckets, Handles <- {"h", "g"},
  HandleOf <- WaitSetting[p].handles, Once <- WaitSetting[p].once, InThread <- WaitSetting[p].inthread,
  Timed <- WaitSetting[p].timed, AutoReset <- {"h", "g"}, max_objects <- WaitSetting[p].size,
  CallsOf <- WaitSetting[p].calls, MaxCalls <- WaitSetting[p].max,
  wait <- r1, bucket <- r2, buckets <- r3, cs <- r4, thread <- r5, event <- r6, on <- r7, handle <- r8
TimerQs(p) == INSTANCE TimerQueue WITH
  Timers <- TimerSetting[p].timers, Queues <- TimerSetting[p].queues, InThread <- TimerSetting[p].inthread,
  OnlyOnce <- {}, DueTimes <- TimerSetting[p].due, Periods <- TimerSetting[p].periods, EXPIRE_NEVER <- 99,
  CallsOf <- TimerSetting[p].calls, MaxCalls <- TimerSetting[p].max, CallbackCalls <- TimerSetting[p].inside,
  MaxTime <- TimerSetting[p].time,
  now <- r1, timer <- r2, queue <- r3, cs <- r4, thread <- r5, items <- r6, running <- r7, returned <- r8, done <- r9,
  default_timer_queue <- r10, loc <- r11, open <- r12

ASSUME /\ \A p \in PoolParts : Pools(p)!Assumptions
       /\ \A p \in IoParts : Ios(p)!Assumptions
       /\ \A p \in WaitParts : Waits(p)!Assumptions
       /\ \A p \in TimerParts : TimerQs(p)!Assumptions

Init == /\ part \in Parts
        /\ \/ \E p \in PoolParts : part = p /\ Pools(p)!Init
           \/ \E p \in IoParts : part = p /\ Ios(p)!Init /\ r11 = 0 /\ r12 = 0
           \/ \E p \in WaitParts : part = p /\ Waits(p)!Init /\ r9 = 0 /\ r10 = 0 /\ r11 = 0 /\ r12 = 0
           \/ \E p \in TimerParts : part = p /\ TimerQs(p)!Init

(* Action A of a part, which leaves the other registers alone.             *)
InPool(p, A) == part = p /\ A /\ UNCHANGED part
InIo(p, A) == part = p /\ A /\ UNCHANGED <<part, r11, r12>>
InWait(p, A) == part = p /\ A /\ UNCHANGED <<part, r9, r10, r11, r12>>
InTimer(p, A) == part = p /\ A /\ UNCHANGED part

Next == \/ \E p \in PoolParts : InPool(p, Pools(p)!Next)
        \/ \E p \in IoParts : InIo(p, Ios(p)!Next)
        \/ \E p \in WaitParts : InWait(p, Waits(p)!Next)
        \/ \E p \in TimerParts : InTimer(p, TimerQs(p)!Next)
Spec == Init /\ [][Next]_vars

-----------------------------------------------------------------------------
(* The fairness of the parts: threads run, whoever wants a critical        *)
(* section gets it in the end, callbacks return, operations complete and   *)
(* the clock runs.                                                         *)
UserStep(u) == \/ \E p \in PoolParts : InPool(p, Pools(p)!UserStep(u))
               \/ \E p \in IoParts : InIo(p, Ios(p)!UserStep(u))
               \/ \E p \in WaitParts : InWait(p, Waits(p)!UserStep(u))
               \/ \E p \in TimerParts : InTimer(p, TimerQs(p)!UserStep(u))
ServiceStep(s) == \/ \E p \in PoolParts : InPool(p, s = "s1" /\ Pools(p)!TimerStep)
                  \/ \E p \in WaitParts : InWait(p, s \in WaitSetting[p].buckets /\ Waits(p)!ThreadStep(s))
                  \/ \E p \in TimerParts : InTimer(p, s \in TimerSetting[p].queues /\ TimerQs(p)!ThreadStep(s))
WorkerStep(w) == \E p \in PoolParts : InPool(p, w \in PoolSetting[p].workers /\ Pools(p)!WorkerStep(w))
CleanupStep(x) == \E p \in TimerParts : InTimer(p, x \in TimerSetting[p].timers /\ TimerQs(p)!timer_cleanup_callback(x))
WorkStep(x) == \/ \E p \in IoParts : InIo(p, Ios(p)!complete(x))
               \/ \E p \in WaitParts : InWait(p, x \in DOMAIN WaitSetting[p].handles /\ Waits(p)!WorkerStep(x))
               \/ \E p \in TimerParts : InTimer(p, x \in TimerSetting[p].timers /\ TimerQs(p)!worker_start(x))
ReturnStep(x) == \/ \E p \in IoParts, w \in {"w1"} : InIo(p, x = "x1" /\ Ios(p)!WorkerStep(w))
                 \/ \E p \in TimerParts : InTimer(p, x \in TimerSetting[p].timers /\ TimerQs(p)!worker_return(x))
ClockStep == \/ \E p \in IoParts : InIo(p, Ios(p)!ThreadStep)
             \/ \E p \in TimerParts : InTimer(p, TimerQs(p)!elapse)
LiveSpec == /\ Spec /\ \A u \in Users : SF_vars(UserStep(u))
            /\ SF_vars(ServiceStep("s1")) /\ SF_vars(WorkerStep("w1"))
            /\ \A x \in {"x1", "x2"} : SF_vars(CleanupStep(x)) /\ WF_vars(WorkStep(x)) /\ WF_vars(ReturnStep(x))
            /\ WF_vars(ClockStep)

-----------------------------------------------------------------------------
(* The types of every part; no counter is below zero, and who is in a      *)
(* critical section is where the code holds it.                            *)
TypeOK == /\ \A p \in PoolParts : part = p => Pools(p)!TypeOK
          /\ \A p \in IoParts : part = p => Ios(p)!TypeOK
          /\ \A p \in WaitParts : part = p => Waits(p)!TypeOK
          /\ \A p \in TimerParts : part = p => TimerQs(p)!TypeOK

(* Counters and lists tell what threads and callbacks there really are:    *)
(* the references of a pool object and the pool's busy workers, an I/O     *)
(* object's operations under way and its queue's objects, the objects of a *)
(* wait bucket, the callbacks and the order of the timers of a queue.      *)
CountsExact ==
  /\ \A p \in PoolParts : part = p => Pools(p)!RefsExact /\ Pools(p)!BusyCounted
  /\ \A p \in IoParts : part = p => Ios(p)!CountsOutstanding /\ Ios(p)!ObjcountServed
  /\ \A p \in WaitParts : part = p => Waits(p)!BucketsExact /\ Waits(p)!PendingQueued /\ Waits(p)!SignalsPending
  /\ \A p \in TimerParts : part = p => TimerQs(p)!RuncountExact /\ TimerQs(p)!ListExact

(* Nothing is used after it was freed, however calls, callbacks and the    *)
(* service threads interleave: pools, groups and their objects, I/O        *)
(* objects with packets under way, wait objects in a bucket, timers, timer *)
(* queues; and no queue is lost with its thread.                           *)
NoUseAfterFree ==
  /\ \A p \in PoolParts : part = p => Pools(p)!DestroyedClean
  /\ \A p \in IoParts : part = p => Ios(p)!OutlivesIo
  /\ \A p \in WaitParts : part = p => Waits(p)!ObjectsLive
  /\ \A p \in TimerParts : part = p => TimerQs(p)!NoUseAfterFree /\ TimerQs(p)!NoOrphan

(* What the code asserts is true: in tp_object_submit, tp_object_execute,  *)
(* waitqueue_thread_proc (but for the next object of the list, which is    *)
(* NextWaits of WaitQueue) and queue_add_timer.                            *)
AssertionsHold ==
  /\ \A p \in PoolParts : part = p => Pools(p)!SubmitAsserts
  /\ \A p \in IoParts : part = p => Ios(p)!IoAsserts
  /\ \A p \in WaitParts : part = p => Waits(p)!WaitAsserts
  /\ \A p \in TimerParts : part = p => TimerQs(p)!QuitQuiet

(* When a cancellation that waits has returned, no callback comes any      *)
(* more: of an I/O operation it dropped, of a deregistered wait object, of *)
(* a deleted timer.                                                        *)
CancelledQuiet ==
  [][/\ \A p \in IoParts : part = p => \A i \in r7 : r6'[i] = r6[i]
     /\ \A p \in WaitParts : part = p => Waits(p)!DeregisteredQuiet'
     /\ \A p \in TimerParts : part = p => TimerQs(p)!DeletedQuiet]_vars

(* The thread of a timer queue never sleeps past its first timer, whatever *)
(* is added, moved or removed while it falls asleep.                       *)
NoOversleep == \A p \in TimerParts : part = p => TimerQs(p)!NoOversleep

(* A timer that fires late does not fire again for each period it missed.  *)
NoCascade == [][\A p \in TimerParts : part = p => TimerQs(p)!FiresOnce]_vars

-----------------------------------------------------------------------------
(* Every call returns, those that wait for callbacks too: TpWaitForWork,   *)
(* TpReleaseCleanupGroupMembers, TpWaitForIoCompletion,                    *)
(* RtlDeregisterWaitEx, RtlDeleteTimer and RtlDeleteTimerQueueEx.          *)
CallsReturn == \A u \in Users : pc[u] # "idle" ~> pc[u] = "idle"

(* What was posted runs or is cancelled, a signaled handle that an object  *)
(* waits for is not overlooked, and a timer that is due fires, is moved or *)
(* is deleted.                                                             *)
Due(x) == \/ \E p \in PoolParts : part = p /\ x \in DOMAIN PoolSetting[p].kinds /\ r3[x].pending > 0
          \/ \E p \in WaitParts : part = p /\ x \in DOMAIN WaitSetting[p].handles /\ Waits(p)!Unserved(x)
          \/ \E p \in TimerParts : part = p /\ x \in TimerSetting[p].timers /\ r2[x].life = "live" /\ r2[x].expire <= r1
WorkDone == \A x \in {"x1", "x2"} : Due(x) ~> ~Due(x)

(* What the program has released or deleted is freed in the end: a pool    *)
(* and its objects, I/O objects, wait objects, timer queues.               *)
Leaving == \/ \E p \in PoolParts : part = p /\ r1.shutdown /\ ~r1.freed
           \/ \E p \in PoolParts : part = p /\ \E x \in DOMAIN r3 : r11[x] = "closed" /\ r3[x].life = "live"
           \/ \E p \in IoParts : part = p /\ \E x \in DOMAIN r1 : r9[x] = "closed" /\ r1[x].life # "freed"
           \/ \E p \in WaitParts : part = p /\ \E x \in DOMAIN r1 : r8[x] = "closed" /\ r1[x].life # "freed"
           \/ \E p \in TimerParts : part = p /\ \E q \in DOMAIN r3 : r3[q].quit /\ r3[q].life # "freed"
ReleasedFreed == Leaving ~> ~Leaving
=============================================================================
