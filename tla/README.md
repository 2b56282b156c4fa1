# A TLA+ model of synchronization in WineForge

WineForge is a fork of Wine for macOS. Most of it is Wine; what it adds to the
core is **WFUSync** (`WINEWFUSYNC=1`, README.md:285-302): events, semaphores and
mutexes whose state lives in memory shared by the Windows processes and
wineserver, so that most NT synchronization calls need no round trip to
wineserver. Windows programs reach it directly and through what ntdll builds
above it: handle caches, locks, the thread pool. This is the part of the program
where a wrong interleaving is silent, and the subject of this project.

The modules are written to be checked with TLC and proved about with TLAPS.
`PROJECT.json` maps every definition to the lines it models.

## Inventory

| Component | State | Operations | Talks to | What makes it correct |
|---|---|---|---|---|
| State word (`struct wfusync_state`) | `low`, `high`, `generation`, `type` with the bits LOCKED, SERVER_WAITERS, MULTI_WAITERS | atomic loads, stores, compare-and-swap, or/and of one bit | every process and wineserver | one party at a time inside it; a flag never lost to another's update |
| Client fast path (`dlls/ntdll/unix/wfusync.c`) | cache entry with the generation it knows; locals | set, reset, release, wait on one object; sleep on the address of `low`; fall back to wineserver | the word, `__ulock`/futex, wineserver requests | each call takes effect at most once; no wake lost; a status that is true |
| WFUSync in wineserver (`server/wfusync.c`, `event.c`, `semaphore.c`, `mutex.c`) | `server_waiters`, list of registered multi-waiters, abandoned-mutex list | signaled, satisfied, set, reset, release, abandon, add/remove server waiter, register/unregister, `try_wait_all`, destroy | the word, sleepers, the wait queue | what it decides on the word is still true when it acts |
| Wait queue and select (`server/thread.c`) | one queue per object, one wait per thread | `wait_on`, `check_wait`, `end_wait`, `wake_up`, `thread_timeout`, `kill_thread` | object operations | served in order, no thread left behind |
| Waits on several objects (client and server) | slot per waiter, registrations | register, sleep on the slot, `try_wait_all_local`, `wfusync_try_wait_all` | many words at once | all or nothing; no deadlock between ordered locks |
| Handle caches (`unix/sync.c`, `unix/wfusync.c`, `unix/server.c`) | entries by handle, reference counts, descriptors | lookup, insert, `NtClose`, `NtDuplicateObject` | wineserver's handle table, everything above | a call works on an object its handle stood for; every reference and descriptor is given back once |
| NT locks (`dlls/ntdll/sync.c`) | a word or two per lock, futex queues, stack nodes, wineserver's keyed event | wait on address and wakes, SRW locks, critical sections, condition variables, run-once, barriers, resources, SLists | each other, alerts, semaphores | exclusion; no lost wake; no pointer to a dead stack frame; every call returns |
| Thread pool (`dlls/ntdll/threadpool.c`) | pools, workers, objects, cleanup groups; queues and threads for I/O, waits, timers | allocate, post, set, wait, cancel, release, each against callbacks | critical sections, condition variables, completion ports, waits | no use after free; what the code asserts; a cancelled callback stays cancelled; everything is freed |
| Launcher policy, graphics backend selection, Steam bridge, PE patches | tables | string and path lookups at start | environment, files | not a protocol |
| Rest of wineserver, Mac driver, loader, heap, registry, message queues | as in Wine | as in Wine | | see "Not modelled" |

Hard behaviour: threads of many processes and wineserver interleave on one word;
wineserver runs one request at a time, but gives up no atomicity to the word; a
thread can be terminated anywhere; an object can be destroyed under a running
call; wakes go to whoever sleeps on an address, who may have given up; timeouts
race with wakes; queue entries and list nodes live on the stacks of threads that
may return; handles are reused; callbacks run while their objects are cancelled
and released. There is no persistence, so no crash recovery.

## Plan

Done: WFUSync objects (`WfuWord`, `WfuObject`, `NtObject`), waits on several objects
(`WfuMulti`, `NtMulti`), handle caches (`HandleCache`, `NtHandles`), the locks of
ntdll (`AddressQueue`, `AddressWait`, `Futex`, `RwLock`, `SrwLock`, `CritSect`,
`KeyedEvent`, `OneTimeInit`, `RunOnce`, `Rendezvous`, `Barrier`, `Resource`,
`SList`), the thread pool (`ThreadPool`, `IoQueue`, `WaitQueue`, `TimerQueue`).
Proofs: `WfuObject_proofs`, `WfuMulti_proofs`, `WfuMultiNt_proofs`, `SrwLock_proofs`,
`CritSect_proofs`, `Resource_proofs`, `Barrier_proofs`, `HandleCache_proofs`.

Left: termination of a thread in `WfuMulti`, the same object twice in one wait and
alertable waits are not modelled; what is model-checked and not proved is listed at the
end of "Proofs".

## Modules

In all modules a step is one atomic access to shared memory, one system call that
sleeps or wakes, one request to wineserver, or one critical section, whichever the
code does. `pc` says where a thread is; the label is the name of the function
or of the place in it. A call is chosen from the set `CallsOf[t]`, at most
`MaxCalls[t]` times; these bounds are the only ones, except where named.

### WFUSync objects

`WfuWord` - the word as a record (the 16-bit type field is split into type and
flags) and, as operators, what each operation computes on it: `Signaled`,
`Consumed`, `ReleaseRefused`, `Released`, `Abandoned`. The client and wineserver
implement the same functions twice; the model has one definition because both
texts compute the same (the differences, such as the client's INT_MAX test, are in
the actions). `Sum` and `Inc` keep the width of the C types.

`WfuObject` - one object, a set of client threads, multi-waiters, and
wineserver. A step is one atomic access to the word, or the kernel's
compare-and-sleep or wake, or a stretch of server code that touches nothing
shared. A critical section under LOCKED is three steps (lock, body, unlock); a
release is four, because wineserver may raise a flag between the second look at
the flags (`recheck`) and the change of the word (`signal`).

| Variable | Code |
|---|---|
| `word` | the state word |
| `pc`, `call`, `loc` | where each thread is, its NT call, its locals (`gen` = `entry->state.generation` as read, `first` = before the loop, `try` = first or second attempt of NtWaitForSingleObject, `expect` = the value slept on) |
| `cache_gen` | generation in the process's cache entry |
| `srv` | wineserver: program counter and locals of the request |
| `queue` | the object's wait queue |
| `slot`, `regs`, `reg_left` | multi-waiters' slots, registrations, and a bound on them |
| `left`, `doomed` | bound on calls; threads killed by wineserver that still run until SIGQUIT |

| Actions | Code |
|---|---|
| `Invoke`, `check`, `lock_state`, `lock_state_fails`, `consume`, `recheck`, `signal`, `unlock_state`, `refresh_cache_generation` | `wfusync_wait_event`, `_semaphore`, `_mutex`, `wfusync_set_event`, `wfusync_reset_event`, `wfusync_release_*` of the client |
| `wait_loop`, `load_owner`, `wait_address`, `wait_timeout`, `wait_interrupted` | the wait loops and `wfusync_wait_address` |
| `wake_address`, `check_multi`, `wake_wfusync_waiters` | after a release |
| `add_server_waiter`, `server_lock_state`, `server_signaled`, `server_satisfied`, `server_unlock_state`, `end_wait`, `thread_timeout` | `select_on`, `wait_on`, `check_wait`, `end_wait` |
| `start_request`, `server_signal`, `server_reset`, `server_abandon`, `server_wake_address`, `server_wake_multi`, `wake_up` | `event_op`, `release_semaphore`, `release_mutex`, `abandon_mutexes`, `wake_up` |
| `register_wait`, `register_check`, `unregister_wait` | `wfusync_register_wait`, `wfusync_unregister_wait` |
| `try_wait_all`, `wait_all_consume`, `wait_all_unguard` | `wfusync_try_wait_all` as this object sees it |
| `destroy`, `destroy_generation`, `kill_thread`, `sigquit` | `wfusync_destroy`, `kill_thread` |

What is abstracted: handles (a thread always names this object), the duration of
a timeout (a timed wait may end at any moment), the other objects of a WaitAny or
WaitAll (the verdict on them is a free choice), alertable waits and absolute
timeouts (`fast = FALSE`: they go straight to wineserver), queries, which change
nothing.

`NtObject` - the abstract specification: the same object as wineserver keeps it
with WFUSync off. An operation takes effect in one step between call and return,
with the arguments it was called with, and only a wait may return without an
effect, as long as the object has not been closed. `WfuObject!Nt` is this
specification under the mapping `count` = `low` (or `high` of a mutex), `owner`,
`abandoned` = sign of `low`, `closed` = the type is gone, `asked` = the call,
`status` = what the call has achieved. A wait that times out is not judged here:
`ZeroTimeoutTruthful` and the liveness properties do that.

### Waits on several objects

`WfuMulti` - objects, each a word of `WfuWord`, and threads that wait for all or any of
them, signal one, reset one, exit, or do `SignalObjectAndWait`. Variables: `word`,
`queue` per object; `pc`, `call`, `loc`, `left`, `slot`, `reg` per thread; `cache_gen`;
`srv` for wineserver. The client's actions are `gather`, the steps of
try_wait_all_local (`lock_all`, one word at a time in the order of the slots,
`eval_all`, `take_all`, `unlock_all`), the loop of WaitAny (`any_check`, `any_lock`,
`any_consume`), the sleep on the slot (`wait_slot`, `slot_woken`, `wait_timeout`,
`wait_interrupted`) and the signals (`signal_check` to `signal_multi`); wineserver's are
`select_on`, `enqueue`, `check_wait`, `satisfied`, `end_wait`, `server_signal` with
`wake_up`, the slot requests (`arm_slot`, `add_multi_waiter`, `register_check`,
`remove_multi_waiter`), try_wait_all (`guard`, `probe`, `server_take`, `unguard`) and
`abandon_mutexes`. A critical section of wineserver on one word is
one step, since nobody can tell the bit it holds from a spin. `NtMulti` is the abstract
specification: a wait for all takes everything in one step or nothing, a wait for any
takes one object, in the state it was in at that moment.

### Handle caches

`HandleCache` - wineserver's handle table (`table`, `live`, `refs`, `made`), the entries of
`inproc_sync_cache` (`cache`), with WFUSync those of `wfusync_cache` (`wf`, `kind`), the
descriptors (`fds`), `fd_cache_mutex` (`mutex`) and the calls in flight. Calls:
"use" (`get_inproc_sync` to `release_inproc_sync`, `NtSetEvent` standing for all
operations), "close" (`NtClose`, refused for protected handles), "dup"
(`NtDuplicateObject` with DUPLICATE_CLOSE_SOURCE in place or to a new handle), "create"
and "open". `NtHandles` is what callers are promised: a call works on an object that its
handle stood for at some moment of the call, or reports an invalid handle that was
invalid at some moment.

### Locks of ntdll

| Module | Code | State | Abstract specification |
|---|---|---|---|
| `Futex` | RtlWaitOnAddress, RtlWakeAddress*, alerts | memory, spin lock, entries on stacks, `tids` of a waker | `AddressWait`: a queue of sleepers per address |
| `AddressQueue` | operators for a sleep and a wake by address, which the modules below use | | |
| `SrwLock` | SRW locks, condition variables over them | the two halves of the word, `cv` | `RwLock`: readers or one writer |
| `CritSect` | critical sections with a handle or an address to wait on, condition variables over them, process shutdown | LockCount, RecursionCount, OwningThread, LockSemaphore | |
| `KeyedEvent`, `RunOnce` | RtlRunOnce* over the keyed event of `server/event.c`, threads suspended while they wait | the word, nodes on stacks, the queue of wineserver | `OneTimeInit`: one winner, everybody else sees its result |
| `Barrier` | RtlBarrier, RtlDeleteBarrier | the counters of the structure | `Rendezvous`: nobody leaves before all have come, one leader per round |
| `Resource` | RtlAcquireResource*, RtlReleaseResource | counters and two semaphores | `RwLock` |
| `SList` | RtlInterlocked*SList | header with depth and sequence, links, two loads of the header that need not belong together | |

### Thread pool

`ThreadPool` - one pool: `pool` (references, counters), `lists` (items by priority), `obj`,
`group`, `timers` with its thread, `holder` (who is inside pool->cs, group->cs,
timerqueue.cs), and for each thread what it works on. Users allocate, post, set
timers, wait, cancel and release, workers take, execute, sleep and end, callbacks
disassociate, run long, post and release.
`IoQueue` - I/O objects: the completion port, its thread, counts of pending, skipped and
completed operations. `WaitQueue` - wait objects: buckets with their threads, what each
thread collected for its wait, merging of buckets. `TimerQueue` - the older timer queues:
`timer`, `queue`, the clock `now`, the thread of each queue with its deadline, callbacks
in the pool, running and returned.

### Modules for TLC

`MCObjects`, `MCMulti`, `MCLocks` and `MCPool` put many instances into one state space. A
variable (`scenario` or `part`) is chosen in the first state and never changes; the
next-state relation and every property apply the instance it names, so that the state
spaces lie side by side and TLC explores each in full. In `MCLocks` and `MCPool` the
instances are of different modules and use the same variables under the names `pc`,
`call`, `left` and `r1` to `r12`; the `INSTANCE ... WITH` says which register stands for
which variable. A property of such a module is the conjunction of what the components
state under that idea (`NoLostWake` of `MCLocks`, for instance, of the futex, SRW lock,
resource and run-once modules). `MCWfuObject` and `MCWfuMulti` extend their component, for
liveness and for the properties that are proved of it. The modules `*_proofs`
hold the theorems; each extends the component it is about.

## What is checked

| Run | Module | Properties | Shows |
|---|---|---|---|
| `mutex` | `MCWfuObject` | `TypeOK`, `LockExclusion`, `SatisfiedStillSignaled`, `NoLostMultiWake`, `NtSpec` | a WFUSync mutex on every path, with an owner that exits, a thread that is killed anywhere, a multi-waiter and the last handle closed; the properties that are proved |
| `live_event` | `MCWfuObject` | `NoWaitStuckOnSignaled`, `ServerAnswers` | an auto-reset event set, reset and waited for: swallowed wakes are made good and wineserver's spin ends |
| `objects` | `MCObjects` | `NoLostMultiWake`, `NoLostAddressWake`, `DeadOwnsNothing`, `ImplementsNtObject`, `ZeroTimeoutTruthful` | each kind of WFUSync object, used on both paths, set, reset, pulsed, released, abandoned, with a WaitAny registration and the WaitAll guard, and a semaphore whose waiter is killed and whose last handle is closed: it is the plain object of wineserver |
| `multi` | `MCMulti` | `ImplementsNtMulti` | WaitAll and WaitAny over two objects of the same or of different kinds, on the local path, through slots and in wineserver, with SignalObjectAndWait and exit |
| `multi_live` | `MCWfuMulti` | `TypeOK`, `WordsExclusive`, `TakenStillSignaled`, `NoLeakedRegistration`, `ServerFlagExact`, `NoLostSlotWake`, `NoMultiWaitStuck`, `LocksObtained` | the properties that are proved; no wait for an event and a mutex stays asleep beside them, also when the owner of the mutex exits; locks wanted in opposite orders are obtained |
| `locks` | `MCLocks` | `TypeOK`, `NoDanglingPointer`, `NoLostWake`, `WordsExact`, `OneOwner`, `KeepsPromise`, `ReferencesHeld`, `WfuCacheCoherent` | the locks of ntdll and the handle caches, with the refinements of `AddressWait`, `RwLock`, `OneTimeInit`, `Rendezvous` and `NtHandles` |
| `locks_live` | `MCLocks` | `CallsReturn` | every call of theirs returns if threads run and give back what they hold |
| `pool` | `MCPool` | `TypeOK`, `CountsExact`, `NoUseAfterFree`, `AssertionsHold`, `NoOversleep`, `CancelledQuiet`, `NoCascade` | pool, I/O, wait and timer objects against calls, callbacks and service threads |
| `pool_live` | `MCPool` | `CallsReturn`, `WorkDone`, `ReleasedFreed` | calls that wait for callbacks return, work is done, what was released is freed |
| `server_killed` | `MCWfuObject` | `ServerAnswers` | **violated** |
| `zero_timeout_event` | `MCObjects` | `ZeroTimeoutTruthful` | **violated** |
| `multi_hand_over` | `MCWfuMulti` | `NoMultiWaitStuck` | **violated** |

The runs that find a violation state what the repository says and the code does
not do:

* `server_killed`: a thread terminated between lock and unlock leaves wineserver
  spinning on STATE_LOCKED.
* `zero_timeout_event`: polling a set event, or a semaphore with a count, can answer
  STATUS_TIMEOUT: the waits take a failed `wfusync_lock_state` for an unsignaled
  object, where the mutex wait falls back to wineserver.
* `multi_hand_over`: SignalObjectAndWait releases a mutex without waking the slots
  of multi-waiters, and a WaitAll without a timeout sleeps on beside free mutexes.

### Other deviations

These too come out of the modules when TLC is given the instance and the property
named here. The passing runs leave out the combination of calls that leads to them.

| Where | What the code does | Instance and property |
|---|---|---|
| `unix/wfusync.c:998` | the second of two ReleaseSemaphore in a row wakes nobody, so a thread sleeps beside a count for 10 ms, or times out beside it | `WfuObject`, semaphore, two releases, two infinite waits: `NoSleeperBehindCount` |
| `server/thread.c:1600` | a thread terminated from outside can take a mutex after `abandon_mutexes` and before SIGQUIT, and dies as its owner | `WfuObject`, mutex with `Killable`: `DeadOwnsNothing` |
| `unix/wfusync.c:767` | after the cache lock is dropped the slot index is read again: the wake goes to the object that reused the handle | `HandleCache`: `WakesWhatItSignaled` |
| `unix/wfusync.c:527` | wineserver ignores the low bits of a handle, wfusync_drop_handle compares them: NtClose of a tagged handle leaves the entry | `HandleCache`, `Tags = {0, 1}`: `WfuReportsValidObject` |
| `server/wfusync.c:471` | every get_inproc_sync_fd counts a reference in an unsigned short and only the destruction counts down | `HandleCache`, small `UshortSize`: `RefcountHeld` |
| `ntdll/sync.c:1424` | RtlDeleteBarrier may print that it was called too early when all threads have been released | `Barrier`: `AlarmIsTrue` |
| `threadpool.c:2126` | tp_object_cancel does not wake who waits for the callbacks it cancels | `ThreadPool`, u1 "wait", u2 "wait_cancel": calls do not return |
| `threadpool.c:2236` | pool->cs, group->cs and timerqueue.cs are taken in a circle | `ThreadPool`, a periodic timer in a group: `NoLockCycle` |
| `threadpool.c:2126` | a cancelled item stays counted in num_busy_workers, so workers are started that nobody needs | `ThreadPool`: `StartsIfRequired` |
| `threadpool.c:1665` | the completion of a cancelled operation is delivered for one started later | `IoQueue`, `Restarts = TRUE`: `CancelledNotDelivered` |
| `threadpool.c:1635` | a cancelled operation that completes before the release is waited for again: the object is never freed | `IoQueue`, "wait_cancel" then "release": released, never freed |
| `threadpool.c:2946` | a cleanup group frees an I/O object with operations in flight | `IoQueue`, "release_members" with two operations under way: `OutlivesIo` |
| `threadpool.c:2908` | the thread of the I/O queue may end while a group waits for a completion | `IoQueue`, "release_members": calls do not return |
| `threadpool.c:1366` | the scan of a bucket goes on with an entry it read before a callback ran | `WaitQueue`, a timed in-thread object and a second one: `NextWaits` |
| `threadpool.c:1413` | a signal taken for an object that was cleared and set again is ignored | `WaitQueue`, "arm" with the same handle: `SignalReported` |
| `threadpool.c:1352` | a timed object without WT_EXECUTEONLYONCE is not waited for in the round in which its timeout passed | `WaitQueue`, `Timed` not in `Once`: `Unserved` for ever |
| `threadpool.c:850` | RtlDeleteTimerQueueEx goes for ever round two timers with outstanding callbacks, with q->cs held | `MCPool`, part `timerq_loop`: `CallsReturn` |
| `threadpool.c:662` | WT_EXECUTEONLYONCE has no effect on a periodic timer | `TimerQueue`, `OnlyOnce = {x1}`: `OnceOnly` |

### Bounds

WFUSync objects: two or three threads, one to three calls each, one multi-waiter
that registers once, `IntMax = 7`, `UlongSize = 16`, semaphores of at most 3.
Three threads are one to signal, one to wait in wineserver and one to wait in the
fast path, the three roles that any of the hazards combines. Two releases in a
row, a recursive acquisition with its two releases, a reset after a set all fit
in two or three calls. A release of `UlongSize - 1` wraps the count. Waits on
several objects: two objects and three threads, two of which wait in opposite
orders. Handle caches: two handle numbers and two objects, so that a number is
used again for another object, and three or four calls of the thread that does so.
Locks: three threads (four for a list of three waiters, for two processes and for
the barrier), two rounds of a barrier, `TidsSize = 1` so that the waker's array is full
with one entry, three SList entries so that one can be popped, pushed and popped
again. Thread pool: two users, one or two workers, two objects, buckets of one to
three objects, two timers on a clock of two ticks. Every mutant of `PROJECT.json` is
caught within these bounds, and at least one for every component a property talks
about. Threads have different roles, so no symmetry is declared. Deadlock is not
checked: the calls are used up in the end, and an unlimited wait may legitimately
last for ever; `CallsReturn`, `NoWaitStuckOnSignaled` and `LocksObtained` ask instead
that nobody is stuck who should not be.

### Fairness

`WfuObject` and `WfuMulti` give weak fairness to every thread's own steps,
wineserver's steps and its timers (`thread_timeout`) and the delivery of SIGQUIT.
wineserver polls its clients, so it accepts each request: weakly fair in `WfuObject`,
where only it can take the request away, strongly fair in `WfuMulti`, where it is
busy with other requests in between. The end of a sleep by timeout
(`wait_timeout`) is strongly fair. The code arms the limit,
WFUSYNC_BLOCKING_FALLBACK_NS for an unlimited wait, anew whenever a signal has
cut the sleep short (wfusync.c:1224), so this is an assumption about the
environment: signals, which come from calls such as NtSuspendThread, do not hit
every one of an endless row of 10 ms sleeps of the same thread. With weak
fairness instead, TLC shows what would happen: a thread that is interrupted for
ever keeps taking the word, and another thread, or wineserver, that spins for
LOCKED loses the race each time. `lock_state` itself is only weakly fair, and
nothing makes threads call, register or close.

In `MCLocks` threads run (weak fairness of each thread's steps), release what they
hold and resume what they suspended (`GivesBack`, weak). Strong fairness (`Obtains`) is for
what several threads try again and again: the futex spin lock, `fd_cache_mutex`,
a token of the lock semaphore. In `MCPool` every step of a user, a worker or a
service thread may have to enter a critical section, and RtlEnterCriticalSection
serves its waiters in the end, hence strong fairness; callbacks return, operations
complete and the clock runs, with weak fairness. Which calls are made is never
asked for.

## What is proved

Every theorem holds for any sets of threads and calls and any bounds that satisfy
the named assumptions of its module (`Assumptions` for the locks; an instance in a
run satisfies them too). Each rests on an inductive invariant that TLC checked on
small instances before it was proved; the invariant is defined at the head of the
proof module, part by part.

### One WFUSync object: exclusion (`WfuObject_proofs`)

`WfuObject_proofs` proves, for every kind of object, any set of threads and
multi-waiters, any sets of calls and any bounds, from the named assumptions of
`WfuWord` and `WfuObject`:

* `TypeCorrect` - `Spec => []TypeOK`;
* `WordExclusive` - `Spec => []LockExclusion`: nobody shares the word;
* `VerdictHolds` - `Spec => []SatisfiedStillSignaled`: what `check_wait` found is
  still so in `end_wait`.

None of the three is inductive. `IInv` is the conjunction of

* `TypeOK`;
* `RequestOK` - a running request has a thread and `wake_up` a place in the
  queue (types need it: `srv.req` indexes `call`);
* `QueueOK` - while a waiter is being checked it is still queued, and nobody is
  queued while `try_wait_all` guards the word;
* `FlagOK` - SERVER_WAITERS is up while anybody is queued or the guard is up.
  This is what keeps threads out of the word in between the two locks;
* `LockOK` - wineserver works only on a live object, and LOCKED is up while
  anybody is inside, unless the object is gone;
* `LockExclusion`;
* `VerdictOK` - what `check_wait` found is still so, and no thread is inside.

The case that needs all of them is `lock_state`: a thread enters only if neither
bit is up, so by `LockOK` and `FlagOK` nobody is inside, nobody is queued and no
guard is up, and no verdict is outstanding. `wfusync_destroy` clears LOCKED under
a holder; exclusion survives because the type is gone for good with it and
`lock_state` looks at it. The proof has one lemma per group of steps for the types
and one for the rest, with one step per action.

### One WFUSync object: wakes (`WfuObject_proofs`, second part)

* `MultiWaitersWoken` - `QuietKilled => (Spec => []NoLostMultiWake)`;
* `SleepersWoken` - `QuietKilled => (Spec => []NoLostAddressWake)`.

`QuietKilled` says that a thread that may be terminated does not signal on the fast
path. It is needed: a thread that is killed between its release of the word and its
wake takes the wake with it, and nothing in the code makes it good. Such a thread may
still wait, be abandoned and signal through wineserver. The `mutex` run has the same
restriction.

On top of `IInv`, `WInv` says who owes a wake to whom: `QueuedOK` and `ServedOK` (who
is queued or served is in a request, so that nobody moves him behind wineserver's
back), `OpOK` (what a request is doing belongs to what it was started for), `OwesOK`
(a thread that has released the word on the fast path and has not yet told the
slots), `MultiOK` (MULTI_WAITERS is up while somebody is registered), and the two
that matter, `SlotsOK` and `SleepersOK`: a slot that was not written, or a thread
asleep on a set event, has somebody who owes the wake, or the registration still has
to look at the word. The hard case is `wfusync_register_wait` between a release and
its notification: the flag goes up before the check, so whichever is first, one of
the two sees the other.

### One WFUSync object: what its callers see (`WfuObject_proofs`, third part)

* `ObjectImplementsNt` - `Spec /\ []NoOverflow => NtSpec`: under the refinement
  mapping of `WfuObject` (the word without LOCKED, the flags and the generation; of a
  thread only what its call has been told so far), every behaviour is one of
  `NtObject`, the object that wineserver keeps alone.

`NoOverflow` says that a mutex has not been taken INT_MAX times. It is needed: the
client tests the recursion count before it adds to it, and so does `try_wait_all`, but
wineserver's own wait does not. No other hypothesis is made; threads may
be killed anywhere.

On top of `IInv`, `KilledOK` and `WInv`, `RInv` is the conjunction of

* `ValueOK` - the two halves of a mutex's word agree on whether it is owned, and a
  semaphore's limit stays;
* `RetOK` - what a call has been told at each place of the client's code. "Taken" is
  told only behind the write to the word, and whoever leaves for wineserver or for a
  sleep has taken nothing;
* `HandedOK` - a call that wineserver has been handed has had no effect yet, unless
  wineserver is satisfying it or carrying it out just now;
* `RunOK` - how far a request has come: a pulse has been "half" done between its set
  and its reset, and everything else is told once.

`HandedOK` is where "at most once" is decided. A fast path that gives up after it
has written the word and asks wineserver would break it, and so would an `end_wait`
that leaves its thread in the queue. Each step of `WfuObject` is
then of one of a few kinds, each with a lemma: it changes nothing its callers see, one
call takes the object, signals it, resets it, returns or dies, or the owner's death
abandons it.

### Waits on several objects (`WfuMulti_proofs`)

For any finite set of objects of any kinds, any set of threads, any calls that name each
object of a wait once, and any bounds:

* `MultiTypes` - `Spec => []TypeOK`;
* `MultiWordsExclusive` - `Spec => []WordsExclusive`: threads that hold many words share
  none, wineserver's guard covers no held word, and no way out leaves one locked;
* `MultiTakes` - `Spec => []TakenStillSignaled`: what a wait was found to get is there
  when it is taken, object by object, in a thread and in wineserver;
* `MultiServerFlag` - `Spec => []ServerFlagExact`;
* `MultiRegistrations` - `Spec => []NoLeakedRegistration`;
* `MultiSlotWakes` - `NoHandOver => (Spec => []NoLostSlotWake)`: nobody sleeps on a slot
  while an object he is registered on is signaled and nobody is about to wake him.

None is inductive, and they need each other. `IInv` is the conjunction of

* `TypeOK` and `WordsOK`, the types;
* `PlaceOK` - what the place of a thread says of its call and its loop;
* `RegisteredOK` - who may be registered, and that MULTI_WAITERS is exact;
* `LockedOK` - STATE_LOCKED is up exactly on the words that threads hold, and each
  has one holder;
* `ServedOK` - whom wineserver serves: a wait that starts or is checked
  (`WaitServed`), a request that signals (`SignalServed`), one about slots or the
  attempts of `try_wait_all` (`SlotServed`), and how far its loops have come;
* `QueuesOK` - a queued thread is in the queues of exactly its objects, in each
  once, except for those a wait being started or ended has yet to go through;
* `GuardOK` - nobody is queued on a guarded object and nobody holds its word;
* `ServerFlagExact`;
* `FoundOK` and `TakesOK` - what `check_wait`, `probe` or `eval_all` have seen
  signaled so far still is, and no thread is inside it.

The case that matters is a write of a thread to a word: it holds the word, so by
`LockedOK` it shares it with nobody, by `GuardOK` it is not guarded, and if it has been
found by wineserver then `FoundOK` says it is not locked at all. The converse case is a
thread that locks a word: it saw SERVER_WAITERS down, so by `ServerFlagExact` nobody is
queued and no guard is up, and by `QueuesOK` `check_wait` is not looking at it. The
order of the slots matters for liveness only: that order[] names each object once is a
lemma (`Sorted`), by counting the objects with no larger index.

Each action has a lemma. Those of threads go through one (`ClientStep`) on what a move
of a thread with at most one word does to everybody else; those of wineserver through
`ServerKeeps` and what the step leaves alone (`ServerMoves`, `ServerGoes`,
`ServerAnswers`, `TryMoves`).

`MultiSlotWakes` needs a second invariant, `SInv`, on top of `IInv`. `SlotsOK` names
who owes the wake of a set slot: a thread that has changed the word and not yet looked
at MULTI_WAITERS, or is on its way with the request (`ThreadOwes`); wineserver, between
a release and `wfusync_wake_waiters`, and for objects other than events only within the
`wake_up` that is part of the release (`ServerOwes`); or the registration itself, for the objects it has
yet to look at (`Registering`). `ValueOK` says that counts are not negative. A step
signals an object anew only where the code says it does (`ReleasedCalms`) and taking an
object never does (`ConsumedCalms`). A thread that finds MULTI_WAITERS down may go home
because of `RegisteredOK`: nobody is registered. `NoHandOver` - SignalObjectAndWait
signals no mutex - is what the theorem needs and the code does not have, see
`multi_hand_over`: `HandOverOK` carries it through `wake_up`.

### Waits on several objects: what their callers see (`WfuMultiNt_proofs`)

* `MultiImplementsNt` - `Spec /\ []NoOverflow => NtSpec`: client and server together
  implement `NtMulti`, in which a WaitAll takes everything at one moment or nothing.

The invariant is `RInv`, on top of `IInv`. `HalvesOK`: the two
halves of a mutex word agree on whether it is owned, and the limit of a semaphore stays
what it was. `RetOK`: what the place of a thread says of its call - that it has had no
effect yet, that it has taken its objects, that it was told of an abandoned mutex.
`HandedOK`: the same for a thread in wineserver's hands, where it depends on how far
the request is (the first half of SignalObjectAndWait done, taken, refused).
`AbandonOK`: of the mutexes that `abandon_mutexes` has passed the thread owns none.
`IdleOK`: an idle wineserver has nothing left of a request.

The argument is about `Taking(t)`, the objects that a WaitAll is in the middle of taking:
in the loop of `try_wait_all_local`, in wineserver's `end_wait`, or in `try_wait_all`.
The mapping (`View`) shows them taken already, so the step that enters the loop is the
abstract WaitAll and the steps of the loop stutter. By `LockedOK`, `GuardOK` and `FoundOK`
no object is being taken by two threads (`TakingView`), and by `TakenStillSignaled` the
loop finds what it was promised. Each step of a thread and of wineserver has a lemma; those
of wineserver show that it changes nothing for any thread but the one served (`Apart`).

`NoOverflow` - no mutex has been taken INT_MAX times by its owner - is needed because
`end_wait` of wineserver does not test the recursion count
(`wfusync_mutex_satisfied`), where the client and `try_wait_all` do.

### SRW lock (`SrwLock_proofs`)

* `SrwWordExact` - the halves of the word count exactly;
* `SrwIsRwLock` - `Spec => Lock!Spec`, the readers-writer lock `RwLock`.

Invariant `SInv`: `WordExact` with `HoldsOK` (who releases holds what it releases, who
acquires holds nothing) and `Exclusion`. The assumption that matters is that a short
can count the threads: exclusive_waiters is moved by 2 for each waiter. The proof uses
nothing of the queue of sleepers, so it holds with any lost or spurious wake.

### Critical section (`CritSect_proofs`)

* `SectionExcludes` - `[]MutualExclusion`, also across LdrShutdownProcess;
* `SectionHandedOn` - `[]OneToken`;
* `SectionTellsOwner` - `[]OwnerTold`.

Invariant `CInv`: `LocalOK` (where a thread that is inside can be, and what
OwningThread and RecursionCount say there), `ClaimOK` (LockCount covers the claims of
every thread) and, until the shutdown, `GlobalOK`: LockCount is the depth of the owner
plus the number of those who wait, and there is exactly one token when somebody waits
and nobody is inside. After the shutdown only `ClaimOK` remains of the counts, since
the ended threads have left theirs in LockCount; exclusion then follows from there
being one thread.

### Resource (`Resource_proofs`)

* `ResourceCounts` - `[]CountsExact`;
* `ResourceWakes` - `[]NoStuckWaiter`: no wake of the two semaphores is lost;
* `ResourceIsRwLock` - `Spec => Lock!Spec`, with a recursive writer.

Invariant `RInv`: both properties with `LocalOK` (a thread's depth and bounds) and
`WriterOK`: while somebody has the lock exclusively, iNumberActive is minus his depth,
hOwningThreadId names him, and no reader has been woken. The last part is what makes
"the woken readers are already counted" safe.

### Barrier (`Barrier_proofs`)

* `BarrierMeets` - `Spec => Promise!Spec`, the abstract barrier `Rendezvous`;
* `BarrierOutlivesUse` - `OneDeleter => []NoUseAfterDelete`: with one thread that
  deletes the barrier, as the interface demands.

Invariant `BInv`: at any time the threads are in some round r, and either gather for
it (`Gathering(r)`: reached_thread_count and waiting_thread_count count those who have
come, stragglers of round r - 1 are past the last counter) or all have reached it
(`Complete(r)`: waiting_thread_count counts those who have not left, nobody is between
the two increments, and at zero one thread is resetting); `LeaderOK` says that the last
complete round has had its leader or has him on his way out; `LockOK` that
structure_lock_count counts the threads within. Nothing of the queue is used.

### Handle caches (`HandleCache_proofs`)

For any number of threads, handles, objects and descriptors, with and without WFUSync:

* `CacheTypesOK` - `[]TypeOK`, the assertions in the code included;
* `ReferencesExact` - `[]ReferencesHeld`: the count of an entry is exact;
* `DescriptorsOwned` - `[]FdOwnership`: every open descriptor has one owner;
* `WfuCacheTruthful` - `OneTag => []WfuCacheCoherent`;
* `HandlesImplemented` - `OneTag => (Spec => Nt!Spec)`: the caches implement `NtHandles`.

`OneTag` says that with WFUSync programs leave the two low bits of their handles alone.
It is needed: with other bits NtClose leaves the entry of `wfusync_cache` behind (see
the deviation at `unix/wfusync.c:527`).

Invariant `HInv`, for the first three: `SectionOK` (who is inside fd_cache_mutex),
`PlaceOK` (whose code a place is), `HeldOK` (the references and descriptors a thread
has to give back), `EntryOK` (what the holder of the mutex knows of his entry),
`ReferencesHeld` and `FdOK`, which is `FdOwnership` owner by owner. The case that needs
all of it is the last release of an entry: the count goes to zero outside the mutex, so
the descriptor passes from the entry to the thread in the same step, and the next
`cache_inproc_sync` may reuse the entry before it is closed. `NInv`, for the other two,
relates the caches to wineserver's table: `CacheOK` and `StackOK` (an open entry, or a
struct just received, stands for what the handle stands for), `WfOK` (likewise in
`wfusync_cache`), `GoneOK` and `DroppedOK` (a handle that is being closed is out of
reach of both caches before wineserver is asked, so nobody can find it after the
handle was given away again). `ResultOK` says which uses have their result. The
refinement maps what a use works on to `Settled`; its proof has one lemma per step.
`UshortSize` must be at least 2, or the first client of an object already wraps its
count.

### Only model-checked

* All liveness: temporal reasoning under fairness is out of the prover's reach.
* The refinements of `AddressWait` and `OneTimeInit`, and everything about the thread
  pool.
* What depends on the contents of an address queue after a wake (`NoStuckWaiter` of
  `SrwLock`, types of the queues): it needs facts on `SelectSeq`, which the provers can
  only have by induction over sequences.
* `DeadOwnsNothing` of `WfuObject` is not true of every instance, and so not a theorem:
  wineserver counts the recursion of a mutex without a limit, and the count wraps after
  2^32 acquisitions by one owner. `CleanWhenFree` of `CritSect` needs sums over the
  threads that the shutdown ended.
* `ZeroTimeoutTruthful`, which is about the history of a call.

## Not modelled

* In the modelled parts. WFUSync: the objects of one wait are distinct; no handle is
  closed and no thread terminated in `WfuMulti`; whether an object has
  multi-waiters is a free choice in `WfuObject`'s address wakes of wineserver where
  the other objects decide; alertable waits and absolute timeouts go straight to
  wineserver; queries. Handle caches: events stand for every kind; the cache of
  unix file descriptors. Locks: a loop of compare-and-swap is one step except in
  `SList`, whose sequence number does not come round within one call; nobody
  releases a lock he does not hold; a barrier is used by exactly the threads it was
  made for; RtlDeleteResource and RtlDumpResource. Thread pool: programs use an
  object they have not released, and allocate each once; wait buckets for alertable
  waits; time is "may elapse", except for the clock of `TimerQueue`; debug output.
* ntsync. The driver is external and macOS does not have it; its handle cache is in
  `HandleCache`.
* The request protocol: wire I/O. A request is one atomic delivery, as wineserver
  handles one at a time.
* Launcher policy, graphics backend selection, PE patches: lookups in tables at
  start. Steam bridge: generated thunks.
* The rest of wineserver, of ntdll and the drivers, unchanged from Wine, and the
  thousands of DLLs of Wine, which are no part of what WineForge adds. The Windows
  API surface in these files is larger by orders of magnitude than the part where
  interleavings decide, so the share of lines that is modelled is small by nature.
