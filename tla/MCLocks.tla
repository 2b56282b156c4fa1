------------------------------ MODULE MCLocks ------------------------------
(***************************************************************************)
(* The locks of the PE side of ntdll, and the handle caches of its unix    *)
(* side that all synchronization goes through, in one state space: which   *)
(* part is checked is chosen in the first state and never changes.  The    *)
(* parts use the same variables, pc, call, left and the registers r1 to    *)
(* r12; a register that a part does not use stays 0.                       *)
(***************************************************************************)
EXTENDS Integers, Sequences

CONSTANT Parts  \* the parts to check, of DOMAIN Setting

VARIABLES part, pc, call, left, r1, r2, r3, r4, r5, r6, r7, r8, r9, r10, r11, r12

vars == <<part, pc, call, left, r1, r2, r3, r4, r5, r6, r7, r8, r9, r10, r11, r12>>

Acquires == {"exclusive", "shared", "try_exclusive", "try_shared"}
EnterLeave == {"enter", "leave"}
Own == <<1, 2, 3, 4>>
(* Two users of handles race with a thread that closes and opens them.     *)
UsersAndOpener == <<{"use"}, {"use"}, {"create", "close"}>>
(* Named objects: opened again, with fewer rights or protected, duplicated *)
(* in place or into a new handle, and closed, while another thread uses    *)
(* and closes handles.                                                     *)
UserAndOpener == <<{"use", "close"}, {"close", "dup", "create", "open"}>>

P(calls, max) == [calls |-> calls, max |-> max]
Crit(calls, max, spin, handle) == [calls |-> calls, max |-> max, spin |-> spin, handle |-> handle]
Caching(wfu, calls, max) == [wfu |-> wfu, calls |-> calls, max |-> max]
Once(calls, max, processes, addresses, disturbs) ==
  [calls |-> calls, max |-> max, processes |-> processes, addresses |-> addresses, disturbs |-> disturbs]

Setting ==
  [futex_wake  |->  \* threads 1 and 2 wait, 2 and 3 wake
     P(<<{"wait", "wait_timed"}, {"wait", "wake_one"}, {"wake_one", "wake_all"}>>, <<1, 1, 2>>),
   futex_store |->  \* every store is followed by a wake of all; stray alerts come from 3
     P(<<{"wait"}, {"wait", "wake_all"}, {"wake_all", "alert"}>>, <<1, 1, 2>>),
   futex_return |-> P(<<{"wait"}, {"wait", "wake_all"}, {"wake_all", "alert"}>>, <<1, 1, 1>>),
   srw_lock    |->  \* everybody acquires in every way
     P([t \in 1..3 |-> Acquires \cup {"release"}], <<2, 1, 1>>),
   srw_condition |->  \* two threads sleep, with the lock in either mode, one wakes all
     P(<<{"exclusive", "shared", "release", "sleep"}, {"exclusive", "shared", "release", "sleep"},
         {"exclusive", "release", "wake_all"}>>, <<2, 2, 1>>),
   srw_return  |->
     P(<<{"exclusive", "try_shared", "release", "sleep"}, {"exclusive", "release", "sleep"},
         {"try_exclusive", "release", "wake_one"}>>, <<2, 1, 1>>),
   crit_section |->  \* three threads enter, nest and leave; one of them also tries
     Crit(<<EnterLeave, EnterLeave \cup {"try"}, EnterLeave>>, <<3, 2, 1>>, 2, FALSE),
   crit_handle |-> Crit(<<EnterLeave, EnterLeave \cup {"try"}, EnterLeave>>, <<2, 1, 1>>, 0, TRUE),
   crit_condition |->  \* two threads sleep on a condition variable, the third wakes them
     Crit(<<EnterLeave \cup {"sleep"}, EnterLeave \cup {"sleep"}, EnterLeave \cup {"wake"}>>, <<2, 1, 1>>, 0, FALSE),
   crit_exit   |->  \* one thread ends the process while the others are anywhere
     Crit(<<EnterLeave \cup {"shutdown"}, EnterLeave, EnterLeave>>, <<1, 1, 1>>, 0, FALSE),
   once_wait   |-> Once([t \in 1..4 |-> {"execute"}], 1, [t \in 1..4 |-> "p"], Own, 0),
   once_mixed  |-> Once([t \in 1..3 |-> {"execute", "async", "check"}], 2, [t \in 1..3 |-> "p"], <<1, 2, 3>>, 0),
   once_processes |->  \* two processes with the same stack addresses use the one keyed event
     Once([t \in 1..4 |-> {"execute"}], 1, <<"p", "p", "q", "q">>, <<1, 2, 1, 2>>, 0),
   once_return |-> Once([t \in 1..3 |-> {"execute"}], 1, <<"p", "p", "q">>, <<1, 2, 1>>, 2),
   barrier     |-> [threads |-> 3, rounds |-> 2],
   barrier_four |-> [threads |-> 4, rounds |-> 2],
   resource    |-> P([t \in 1..3 |-> Acquires], 2),
   resource_return |-> P([t \in 1..3 |-> {"exclusive", "shared"}], 2),
   slist       |-> [calls |-> {"push", "push_list", "pop", "flush"}, entries |-> {"e1", "e2", "e3"}, max |-> 2],
   slist_return |-> [calls |-> {"push", "pop"}, entries |-> {"e1", "e2"}, max |-> 2],
   cache_ntsync |-> Caching(FALSE, UsersAndOpener, <<1, 1, 4>>),
   cache_wfusync |-> Caching(TRUE, UsersAndOpener, <<1, 1, 3>>),
   cache_dup   |-> Caching(FALSE, UserAndOpener, <<1, 4>>),
   cache_dup_wfusync |-> Caching(TRUE, UserAndOpener, <<1, 4>>),
   cache_return |-> Caching(TRUE, UserAndOpener, <<1, 3>>)]

Of(names) == Parts \cap names
FutexParts == Of({"futex_wake", "futex_store", "futex_return"})
SrwParts == Of({"srw_lock", "srw_condition", "srw_return"})
CritParts == Of({"crit_section", "crit_handle", "crit_condition", "crit_exit"})
OnceParts == Of({"once_wait", "once_mixed", "once_processes", "once_return"})
BarrierParts == Of({"barrier", "barrier_four"})
ResourceParts == Of({"resource", "resource_return"})
SListParts == Of({"slist", "slist_return"})
CacheParts == Of({"cache_ntsync", "cache_wfusync", "cache_dup", "cache_dup_wfusync", "cache_return"})

Futex(p) == INSTANCE Futex WITH
  Threads <- 1..3, Addrs <- {1, 2}, Values <- {0, 1}, TidsSize <- 1,
  CallsOf <- Setting[p].calls, MaxCalls <- Setting[p].max,
  mem <- r1, spin <- r2, linked <- r3, addr <- r4, alert <- r5, tids <- r6, found <- r7
Srw(p) == INSTANCE SrwLock WITH
  Threads <- 1..3, ShortSize <- 16, LongSize <- 8, CallsOf <- Setting[p].calls, MaxCalls <- Setting[p].max,
  exclusive_waiters <- r1, owners <- r2, cv <- r3, queue <- r4, hold <- r5, old <- r6
Section(p) == INSTANCE CritSect WITH
  Threads <- 1..3, HasHandle <- Setting[p].handle, SpinCount <- Setting[p].spin, MaxDepth <- 2,
  CallsOf <- Setting[p].calls, MaxCalls <- Setting[p].max,
  LockCount <- r1, RecursionCount <- r2, OwningThread <- r3, LockSemaphore <- r4, cv <- r5, queue <- r6,
  alive <- r7, shutdown <- r8, depth <- r9, spin <- r10, value <- r11
RunOnce(p) == INSTANCE RunOnce WITH
  Threads <- DOMAIN Setting[p].calls, ProcessOf <- Setting[p].processes, AddressOf <- Setting[p].addresses,
  CallsOf <- Setting[p].calls, MaxCalls <- Setting[p].max, MaxDisturbs <- Setting[p].disturbs,
  once <- r1, next <- r2, val <- r3, rest <- r4, queue <- r5, suspended <- r6, disturbs <- r7
Barrier(p) == INSTANCE Barrier WITH
  Threads <- 1..Setting[p].threads, Flag <- TRUE, Deleter <- {1}, Rounds <- Setting[p].rounds,
  reached_thread_count <- r1, structure_lock_count <- r2, waiting_thread_count <- r3, wait_barrier_complete <- r4,
  queue <- r5, ret <- r6, count <- r7, deleted <- r8, alarmed <- r9, entered <- r10, returned <- r11, leaders <- r12
Resource(p) == INSTANCE Resource WITH
  Threads <- 1..3, Ops <- Setting[p].calls[1], MaxCalls <- Setting[p].max,
  iNumberActive <- r1, uExclusiveWaiters <- r2, uSharedWaiters <- r3, hOwningThreadId <- r4,
  hExclusiveReleaseSemaphore <- r5, hSharedReleaseSemaphore <- r6, status <- r7, held <- r8
List(p) == INSTANCE SList WITH
  Threads <- 1..2, Entries <- Setting[p].entries, Null <- "null", Trash <- "trash", DepthSize <- 3, SeqSize <- 16,
  OpsOf <- [t \in 1..2 |-> Setting[p].calls], MaxCalls <- Setting[p].max,
  header <- r1, nxt <- r2, own <- r3, args <- r4, old <- r5, link <- r6, stack <- r7
Cache(p) == INSTANCE HandleCache WITH
  Wfu <- Setting[p].wfu, Threads <- DOMAIN Setting[p].calls, Handles <- {1, 2}, Tags <- {0}, Objects <- {1, 2}, Foreign <- {1},
  Fds <- {1, 2, 3}, UshortSize <- 16, CallsOf <- Setting[p].calls, MaxCalls <- Setting[p].max,
  table <- r1, live <- r2, refs <- r3, made <- r4, cache <- r5, wf <- r6, kind <- r7, fds <- r8, mutex <- r9,
  known <- r10, loc <- r11, result <- r12

ASSUME /\ \A p \in FutexParts : Futex(p)!Assumptions
       /\ \A p \in SrwParts : Srw(p)!Assumptions
       /\ \A p \in CritParts : Section(p)!Assumptions
       /\ \A p \in OnceParts : RunOnce(p)!Assumptions
       /\ \A p \in BarrierParts : Barrier(p)!Assumptions
       /\ \A p \in ResourceParts : Resource(p)!Assumptions
       /\ \A p \in SListParts : List(p)!Assumptions
       /\ \A p \in CacheParts : Cache(p)!Assumptions

Init ==
  /\ part \in Parts
  /\ \/ \E p \in FutexParts : part = p /\ Futex(p)!Init /\ r8 = 0 /\ r9 = 0 /\ r10 = 0 /\ r11 = 0 /\ r12 = 0
     \/ \E p \in SrwParts : part = p /\ Srw(p)!Init /\ r7 = 0 /\ r8 = 0 /\ r9 = 0 /\ r10 = 0 /\ r11 = 0 /\ r12 = 0
     \/ \E p \in CritParts : part = p /\ Section(p)!Init /\ r12 = 0
     \/ \E p \in OnceParts : part = p /\ RunOnce(p)!Init /\ r8 = 0 /\ r9 = 0 /\ r10 = 0 /\ r11 = 0 /\ r12 = 0
     \/ \E p \in BarrierParts : part = p /\ Barrier(p)!Init /\ call = 0 /\ left = 0
     \/ \E p \in ResourceParts : part = p /\ Resource(p)!Init /\ r9 = 0 /\ r10 = 0 /\ r11 = 0 /\ r12 = 0
     \/ \E p \in SListParts : part = p /\ List(p)!Init /\ r8 = 0 /\ r9 = 0 /\ r10 = 0 /\ r11 = 0 /\ r12 = 0
     \/ \E p \in CacheParts : part = p /\ Cache(p)!Init

(* Action A of a part, which leaves the other registers alone.             *)
InFutex(p, A) == part = p /\ A /\ UNCHANGED <<part, r8, r9, r10, r11, r12>>
InSrw(p, A) == part = p /\ A /\ UNCHANGED <<part, r7, r8, r9, r10, r11, r12>>
InCrit(p, A) == part = p /\ A /\ UNCHANGED <<part, r12>>
InOnce(p, A) == part = p /\ A /\ UNCHANGED <<part, r8, r9, r10, r11, r12>>
InBarrier(p, A) == part = p /\ A /\ UNCHANGED <<part, call, left>>
InResource(p, A) == part = p /\ A /\ UNCHANGED <<part, r9, r10, r11, r12>>
InSList(p, A) == part = p /\ A /\ UNCHANGED <<part, r8, r9, r10, r11, r12>>
InCache(p, A) == part = p /\ A /\ UNCHANGED part

Next == \/ \E p \in FutexParts : InFutex(p, Futex(p)!Next)
        \/ \E p \in SrwParts : InSrw(p, Srw(p)!Next)
        \/ \E p \in CritParts : InCrit(p, Section(p)!Next)
        \/ \E p \in OnceParts : InOnce(p, RunOnce(p)!Next)
        \/ \E p \in BarrierParts : InBarrier(p, Barrier(p)!Next)
        \/ \E p \in ResourceParts : InResource(p, Resource(p)!Next)
        \/ \E p \in SListParts : InSList(p, List(p)!Next)
        \/ \E p \in CacheParts : InCache(p, Cache(p)!Next)
Spec == Init /\ [][Next]_vars

-----------------------------------------------------------------------------
(* The fairness of the parts, which all ask that threads run.              *)
Runs(t) == \/ \E p \in FutexParts : InFutex(p, t \in DOMAIN pc /\ Futex(p)!Waiter(t))
           \/ \E p \in SrwParts : InSrw(p, t \in DOMAIN pc /\ Srw(p)!Step(t))
           \/ \E p \in CritParts : InCrit(p, t \in DOMAIN pc /\ Section(p)!Step(t))
           \/ \E p \in OnceParts : InOnce(p, t \in DOMAIN pc /\ RunOnce(p)!Step(t))
           \/ \E p \in BarrierParts : InBarrier(p, t \in DOMAIN pc /\ Barrier(p)!Step(t))
           \/ \E p \in ResourceParts : InResource(p, t \in DOMAIN pc /\ Resource(p)!Step(t))
           \/ \E p \in SListParts : InSList(p, t \in DOMAIN pc /\ List(p)!Step(t))
           \/ \E p \in CacheParts : InCache(p, t \in DOMAIN pc /\ Cache(p)!Step(t))
(* Wakers run, the program releases what it holds, and who is suspended is *)
(* resumed.                                                                *)
GivesBack(t) == \/ \E p \in FutexParts : InFutex(p, t \in DOMAIN pc /\ Futex(p)!Waker(t))
                \/ \E p \in SrwParts : InSrw(p, t \in DOMAIN pc /\ Srw(p)!Begin(t, "release"))
                \/ \E p \in CritParts : InCrit(p, t \in DOMAIN pc /\ Section(p)!Begin(t, "leave"))
                \/ \E p \in OnceParts : InOnce(p, t \in DOMAIN pc /\ RunOnce(p)!resume_thread(t))
                \/ \E p \in ResourceParts : InResource(p, t \in DOMAIN pc /\ Resource(p)!RtlReleaseResource(t))
(* Who tries again and again to get a spin lock, fd_cache_mutex or a       *)
(* semaphore gets it in the end.                                           *)
Obtains(t) == \/ \E p \in FutexParts : InFutex(p, t \in DOMAIN pc /\ Futex(p)!spin_lock(t))
              \/ \E p \in CritParts : InCrit(p, t \in DOMAIN pc /\ t \in r7 /\ Section(p)!wait_semaphore(t))
              \/ \E p \in CacheParts : InCache(p, t \in DOMAIN pc /\ Cache(p)!enter_section(t))
LiveSpec == Spec /\ \A t \in 1..3 : WF_vars(Runs(t)) /\ WF_vars(GivesBack(t)) /\ SF_vars(Obtains(t))

-----------------------------------------------------------------------------
(* The types of every part, and where its words and queues must agree with *)
(* the threads in it.                                                      *)
TypeOK ==
  /\ \A p \in FutexParts : part = p => Futex(p)!TypeOK
  /\ \A p \in SrwParts : part = p => Srw(p)!TypeOK
  /\ \A p \in CritParts : part = p => Section(p)!TypeOK
  /\ \A p \in OnceParts : part = p => RunOnce(p)!TypeOK
  /\ \A p \in BarrierParts : part = p => Barrier(p)!TypeOK
  /\ \A p \in ResourceParts : part = p => Resource(p)!TypeOK
  /\ \A p \in SListParts : part = p => List(p)!TypeOK
  /\ \A p \in CacheParts : part = p => Cache(p)!TypeOK

(* Nobody follows a pointer to something that is gone: the queue entry of  *)
(* RtlWaitOnAddress and the waiters' list of RtlRunOnceComplete lie on     *)
(* stacks of threads that are still in their call, and nobody looks at a   *)
(* barrier once RtlDeleteBarrier has returned.                             *)
NoDanglingPointer ==
  /\ \A p \in FutexParts : part = p => Futex(p)!EntriesLive
  /\ \A p \in OnceParts : part = p => RunOnce(p)!NodesLive
  /\ \A p \in BarrierParts : part = p => Barrier(p)!NoUseAfterDelete

(* No wake is lost: who sleeps by address is in the queue or about to be   *)
(* alerted, and not behind a value that has been stored and announced; who *)
(* sleeps for an SRW lock, a resource or a condition variable has somebody *)
(* before it who will wake it; who waits in RtlRunOnceBeginInitialize is   *)
(* at exactly one place of one list.                                       *)
NoLostWake ==
  /\ \A p \in FutexParts : part = p => Futex(p)!SleepersReachable
  /\ part = "futex_store" => Futex("futex_store")!StoreNotMissed
  /\ \A p \in SrwParts : part = p => Srw(p)!NoStuckWaiter
  /\ part = "srw_condition" => Srw("srw_condition")!WakeAllNotMissed
  /\ \A p \in ResourceParts : part = p => Resource(p)!NoStuckWaiter
  /\ \A p \in OnceParts : part = p => RunOnce(p)!WaiterListed

(* The words tell the truth about the threads: the two halves of an SRW    *)
(* lock, the counters of a resource, owner and recursion count of a        *)
(* critical section, the header and the links of an SList.                 *)
WordsExact ==
  /\ \A p \in SrwParts : part = p => Srw(p)!WordExact
  /\ \A p \in ResourceParts : part = p => Resource(p)!CountsExact
  /\ \A p \in CritParts : part = p => Section(p)!OwnerTold /\ Section(p)!CleanWhenFree
  /\ \A p \in SListParts : part = p => List(p)!ChainExact

(* One thread at most is in a critical section, which is passed on by one  *)
(* token, and an entry of an SList has one owner.                          *)
OneOwner ==
  /\ \A p \in CritParts : part = p => Section(p)!MutualExclusion /\ Section(p)!OneToken
  /\ \A p \in SListParts : part = p => List(p)!OneOwner

(* What the callers were promised: RtlWaitOnAddress keeps the queue of     *)
(* AddressWait, SRW locks and resources are readers-writer locks, RunOnce  *)
(* is a one-time initialization, RtlBarrier a rendezvous, and a call on a  *)
(* handle works on an object that the handle stood for during the call.    *)
KeepsPromise ==
  /\ \A p \in FutexParts : part = p => Futex(p)!Nt!Init
  /\ \A p \in SrwParts : part = p => Srw(p)!Lock!Init
  /\ \A p \in OnceParts : part = p => RunOnce(p)!OneTime!Init
  /\ \A p \in BarrierParts : part = p => Barrier(p)!Promise!Init
  /\ \A p \in ResourceParts : part = p => Resource(p)!Lock!Init
  /\ \A p \in CacheParts : part = p => Cache(p)!Nt!Init
  /\ [][/\ \A p \in FutexParts : part = p => UNCHANGED Futex(p)!Nt!vars \/ Futex(p)!Nt!Next
        /\ \A p \in SrwParts : part = p => UNCHANGED Srw(p)!Lock!vars \/ Srw(p)!Lock!Next
        /\ \A p \in OnceParts : part = p => UNCHANGED RunOnce(p)!OneTime!vars \/ RunOnce(p)!OneTime!Next
        /\ \A p \in BarrierParts : part = p => UNCHANGED Barrier(p)!Promise!vars \/ Barrier(p)!Promise!Next
        /\ \A p \in ResourceParts : part = p => UNCHANGED Resource(p)!Lock!vars \/ Resource(p)!Lock!Next
        /\ \A p \in CacheParts : part = p => UNCHANGED Cache(p)!Nt!vars \/ Cache(p)!Nt!Next]_vars

(* The count of an entry of inproc_sync_cache is its references, and every *)
(* open descriptor has one owner, which will close it.                     *)
ReferencesHeld ==
  \A p \in CacheParts : part = p => Cache(p)!ReferencesHeld /\ Cache(p)!FdOwnership

(* wfusync_cache agrees with the handle table of wineserver, whatever is   *)
(* closed, reused and duplicated while others use the entries.             *)
WfuCacheCoherent == \A p \in CacheParts : part = p => Cache(p)!WfuCacheCoherent

-----------------------------------------------------------------------------
(* t is in a call that must end.  A wait by address, and for a condition   *)
(* variable, must end only once it has been woken.                         *)
Busy(t) ==
  /\ t \in DOMAIN pc
  /\ \/ \E p \in FutexParts : part = p /\ Futex(p)!Progress(t) = "released"
     \/ \E p \in SrwParts : part = p /\ Srw(p)!Acquiring(t)
     \/ \E p \in CritParts : part = p /\ (Section(p)!Entering(t) \/ Section(p)!Roused(t))
     \/ \E p \in BarrierParts : part = p /\ Barrier(p)!Unfinished(t)
     \/ part \in OnceParts \cup ResourceParts \cup SListParts \cup CacheParts /\ pc[t] # "idle"

(* Every call that can return does, when threads run and give back what    *)
(* they hold: whoever wants a lock gets it, whoever is woken wakes, every  *)
(* round of a barrier ends and so does its deletion, every initialization  *)
(* is waited for to the end, no exchange on an SList fails for ever, and   *)
(* fd_cache_mutex is left on every path.                                   *)
CallsReturn == \A t \in 1..3 : Busy(t) ~> ~Busy(t)
=============================================================================
