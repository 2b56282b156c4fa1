----------------------------- MODULE WfuObject -----------------------------
(***************************************************************************)
(* One WFUSync object shared by the threads of a process and wineserver.   *)
(*                                                                         *)
(* A thread first tries the operation itself on the shared word, under the *)
(* STATE_LOCKED bit (dlls/ntdll/unix/wfusync.c); it sleeps on the address  *)
(* of word.low, and hands the operation to wineserver whenever the word    *)
(* carries SERVER_WAITERS or MULTI_WAITERS, the generation is stale or the *)
(* type has changed.  wineserver (server/wfusync.c, event.c, mutex.c,      *)
(* semaphore.c, thread.c) runs one request at a time, but every access it  *)
(* makes to the word interleaves with the threads.                         *)
(*                                                                         *)
(* A step is one atomic access to the shared word, the kernel's wait or    *)
(* wake on the address, or a stretch of server code that touches only      *)
(* server memory.  Waits on several objects are seen from this one object: *)
(* MultiWaiters register slots on it, and the try_wait_all request guards  *)
(* it, with the verdict on the other objects left open.                    *)
(***************************************************************************)
EXTENDS WfuWord, Sequences, FiniteSets

CONSTANTS InitLow, InitHigh, \* arguments of create_wfusync
          CallsOf,           \* CallsOf[t]: the calls thread t may make
          MaxCalls,          \* bound: MaxCalls[t] calls made by thread t
          MultiWaiters,      \* threads in a WaitAny with this object among others
          MaxRegister,       \* bound: registrations by each of them
          Killable,          \* threads that NtTerminateThread may hit at any moment
          Closes             \* may the last handle be closed?

Whats == {"wait", "signal", "reset", "pulse", "tryall", "exit"}
Timeouts == {"zero", "timed", "infinite"}
Call == [what : Whats, timeout : Timeouts, fast : BOOLEAN, n : Nat]

ASSUME CallsAssumption == CallsOf \in [Threads -> SUBSET Call]
ASSUME InitAssumption == /\ InitLow \in Int /\ InitHigh \in Int
                         /\ Semaphore => InitLow \in 0..InitHigh /\ InitHigh <= IntMax
                         /\ Event => InitLow \in {0, 1}
                         /\ Mutex => \/ InitLow = 0 /\ InitHigh = 0
                                     \/ InitLow \in Threads /\ InitHigh = 1
ASSUME BoundAssumption == MaxCalls \in [Threads -> Nat] /\ MaxRegister \in Nat
ASSUME EnvironmentAssumption == Killable \subseteq Threads /\ Closes \in BOOLEAN

VARIABLES word,      \* the shared word
          pc,        \* where each thread is
          call,      \* the call each thread is making
          loc,       \* locals of that call
          left,      \* calls each thread may still make
          cache_gen, \* generation in the process's handle cache entry
          doomed,    \* threads killed whose SIGQUIT has not arrived
          srv,       \* wineserver: program counter and locals of the request
          queue,     \* the object's wait_queue in wineserver
          slot,      \* slot[m]: the word multi-waiter m sleeps on while it is 1
          regs,      \* multi-waiters linked in wfusync_waiters
          reg_left   \* registrations each multi-waiter may still make

client == <<pc, call, loc, left, doomed>>
multis == <<slot, regs, reg_left>>
vars == <<word, client, cache_gen, srv, queue, multis>>

ClientPCs == {"idle", "check", "lock", "body", "write", "unlock", "refresh", "loop", "owner",
              "sleep", "asleep", "wake", "multi", "notify", "request", "queued", "dead"}
ServerPCs == {"idle", "lock", "body", "unlock", "remove", "wakeaddr", "scan",
              "wakemulti", "regcheck", "guarded", "unguard", "destroyed"}
Rets == {"none", "success", "abandoned", "timeout", "error", "bail", "half"}
Fns == {"none", "signaled", "satisfied", "signal", "reset", "abandon"}

(* gen, first, try and expect are the C locals; prev is the word the       *)
(* critical section found, as far as it decides whom to wake; ret the      *)
(* NTSTATUS so far.                                                        *)
Loc == [gen : Nat, first : BOOLEAN, try : {1, 2}, expect : Int, wakes : BOOLEAN, ret : Rets]
Loc0 == [gen |-> 0, first |-> TRUE, try |-> 1, expect |-> 0, wakes |-> FALSE, ret |-> "none"]
NoCall == [what |-> "none", timeout |-> "zero", fast |-> FALSE, n |-> 0]

(* req: thread whose request runs (0: none); cur: thread whose wait is     *)
(* being checked; pos: place of wake_up in the queue, 0 in select_on's own *)
(* check; max: wakes wake_up may still make, 0 for no limit.               *)
Srv == [pc : ServerPCs, op : Fns, fn : Fns, req : Threads \cup {0}, cur : Threads \cup {0},
        pos : Nat, max : Nat, ok : BOOLEAN, wakes : BOOLEAN, m : MultiWaiters \cup {0}]
Srv0 == [pc |-> "idle", op |-> "none", fn |-> "none", req |-> 0, cur |-> 0,
         pos |-> 0, max |-> 0, ok |-> FALSE, wakes |-> FALSE, m |-> 0]

Live == word.type = Kind
Asleep == {t \in Threads : pc[t] = "asleep"}

Init == /\ word = create_wfusync(InitLow, InitHigh)
        /\ pc = [t \in Threads |-> "idle"]
        /\ call = [t \in Threads |-> NoCall]
        /\ loc = [t \in Threads |-> Loc0]
        /\ left = MaxCalls
        /\ cache_gen = 1
        /\ doomed = {}
        /\ srv = Srv0
        /\ queue = <<>>
        /\ slot = [m \in MultiWaiters |-> 0]
        /\ regs = {}
        /\ reg_left = [m \in MultiWaiters |-> MaxRegister]

-----------------------------------------------------------------------------
(* Threads.                                                                *)

Goto(t, where) == pc' = [pc EXCEPT ![t] = where]
SetRet(t, r) == loc' = [loc EXCEPT ![t].ret = r]

(* The call returns to the program.                                        *)
Return(t) == /\ Goto(t, "idle")
             /\ loc' = [loc EXCEPT ![t] = Loc0]
             /\ call' = [call EXCEPT ![t] = NoCall]

(* STATUS_NOT_IMPLEMENTED from the fast path: NtWaitForSingleObject tries  *)
(* it once more after inproc_wait, then everyone asks wineserver.          *)
Fallback(t) ==
  /\ IF call[t].what = "wait" /\ loc[t].try = 1
       THEN /\ Goto(t, "check")
            /\ loc' = [loc EXCEPT ![t] = [Loc0 EXCEPT !.try = 2]]
       ELSE /\ Goto(t, "request")
            /\ loc' = [loc EXCEPT ![t] = Loc0]
  /\ UNCHANGED call

ClientOnly == UNCHANGED <<left, doomed, srv, queue, multis>>

(* The program enters one of the NT calls.  An alertable wait, an absolute *)
(* timeout (fast = FALSE), NtPulseEvent, the try_wait_all request and      *)
(* thread exit do not touch the word on the client side.                   *)
Invoke(t) ==
  /\ pc[t] = "idle" /\ left[t] > 0 /\ Live
  /\ \E c \in CallsOf[t] :
       /\ c.what \in {"reset", "pulse"} => Event
       /\ call' = [call EXCEPT ![t] = c]
       /\ Goto(t, IF c.fast /\ c.what \in {"wait", "signal", "reset"} THEN "check" ELSE "request")
       /\ loc' = [loc EXCEPT ![t].gen = IF c.what = "tryall" THEN cache_gen ELSE @]
  /\ left' = [left EXCEPT ![t] = @ - 1]
  /\ UNCHANGED <<word, cache_gen, doomed, srv, queue, multis>>

(* The section under lock_wfusync_cache: cached generation, then flags.    *)
check(t) ==
  /\ pc[t] = "check"
  /\ IF HasWaiters(word) THEN Fallback(t)
     ELSE /\ Goto(t, "lock")
          /\ loc' = [loc EXCEPT ![t].gen = cache_gen]
          /\ UNCHANGED call
  /\ UNCHANGED <<word, cache_gen>> /\ ClientOnly

(* Mutants: wfusync_lock_state without the test of SERVER_WAITERS; without *)
(* the test of the type.                                                   *)
lock_state_despite_server(t) ==
  /\ pc[t] = "lock" /\ Live /\ ~word.locked
  /\ word' = [word EXCEPT !.locked = TRUE]
  /\ Goto(t, "body")
  /\ UNCHANGED <<call, loc, cache_gen>> /\ ClientOnly

lock_state_despite_type(t) ==
  /\ pc[t] = "lock" /\ ~word.locked /\ ~word.server
  /\ word' = [word EXCEPT !.locked = TRUE]
  /\ Goto(t, "body")
  /\ UNCHANGED <<call, loc, cache_gen>> /\ ClientOnly

(* wfusync_lock_state succeeds: neither LOCKED nor SERVER_WAITERS.         *)
lock_state(t) ==
  /\ pc[t] = "lock" /\ Live /\ ~word.locked /\ ~word.server
  /\ word' = [word EXCEPT !.locked = TRUE]
  /\ Goto(t, "body")
  /\ UNCHANGED <<call, loc, cache_gen>> /\ ClientOnly

(* Mutant: the mutex wait, too, takes the failure for an unsignaled object. *)
lock_state_fails_unnoticed(t) ==
  /\ pc[t] = "lock" /\ (~Live \/ word.server)
  /\ IF call[t].what # "wait" THEN Fallback(t)
     ELSE IF loc[t].first /\ call[t].timeout = "zero" THEN Return(t)
     ELSE /\ Goto(t, IF loc[t].first THEN "loop" ELSE "sleep")
          /\ UNCHANGED <<call, loc>>
  /\ UNCHANGED <<word, cache_gen>> /\ ClientOnly

(* wfusync_lock_state fails.  Only the mutex wait acts on the failure at   *)
(* once; the event and semaphore waits go on as if they had not been       *)
(* signaled.                                                               *)
lock_state_fails(t) ==
  /\ pc[t] = "lock" /\ (~Live \/ word.server)
  /\ IF call[t].what # "wait" \/ Mutex THEN Fallback(t)
     ELSE IF loc[t].first /\ call[t].timeout = "zero" THEN Return(t)
     ELSE /\ Goto(t, IF loc[t].first THEN "loop" ELSE "sleep")
          /\ UNCHANGED <<call, loc>>
  /\ UNCHANGED <<word, cache_gen>> /\ ClientOnly

(* consume_event_state, consume_semaphore_state, consume_mutex_state.      *)
consume(t) ==
  /\ pc[t] = "body" /\ call[t].what = "wait"
  /\ LET full == Mutex /\ word.low = t /\ word.high = IntMax
         taken == Signaled(word, t) /\ ~full
     IN /\ word' = IF taken THEN Consumed(word, t) ELSE word
        /\ SetRet(t, IF full THEN "bail" ELSE IF taken THEN ConsumedStatus(word) ELSE "timeout")
  /\ Goto(t, "unlock")
  /\ UNCHANGED <<call, cache_gen>> /\ ClientOnly

(* wfusync_set_event, wfusync_release_semaphore, wfusync_release_mutex and *)
(* wfusync_reset_event look at the generation and the flags again under    *)
(* the lock,                                                               *)
recheck(t) ==
  /\ pc[t] = "body" /\ call[t].what \in {"signal", "reset"}
  /\ IF word.generation # loc[t].gen \/ HasWaiters(word)
       THEN Goto(t, "unlock") /\ SetRet(t, "bail")
       ELSE Goto(t, "write") /\ UNCHANGED loc
  /\ UNCHANGED <<word, call, cache_gen>> /\ ClientOnly

(* and then change the word.  wineserver may raise a flag in between.      *)
signal(t) ==
  /\ pc[t] = "write"
  /\ LET n == call[t].n
         reset == call[t].what = "reset"
     IN \/ /\ reset
           /\ word' = [word EXCEPT !.low = 0]
           /\ SetRet(t, "success")
        \/ /\ ~reset /\ ReleaseRefused(word, t, n)
           /\ SetRet(t, "error") /\ UNCHANGED word
        \/ /\ ~reset /\ ~ReleaseRefused(word, t, n)
           /\ word' = Released(word, n)
           /\ loc' = [loc EXCEPT ![t].ret = "success", ![t].wakes = ReleaseWakes(word)]
  /\ Goto(t, "unlock")
  /\ UNCHANGED <<call, cache_gen>> /\ ClientOnly

(* What the caller does once the word is unlocked.                         *)
AfterUnlock(t) ==
  LET r == loc[t].ret IN
  CASE r = "bail" -> Fallback(t)
    [] r = "abandoned" -> Goto(t, "refresh") /\ UNCHANGED <<call, loc>>
    [] r = "success" /\ loc[t].wakes -> Goto(t, "wake") /\ UNCHANGED <<call, loc>>
    [] r = "error" \/ (r = "success" /\ ~loc[t].wakes) -> Return(t)
    [] OTHER -> \* STATUS_TIMEOUT
         IF ~loc[t].first
           THEN Goto(t, IF Mutex THEN "owner" ELSE "sleep") /\ UNCHANGED <<call, loc>>
         ELSE IF call[t].timeout = "zero" THEN Return(t)
         ELSE Goto(t, "loop") /\ UNCHANGED <<call, loc>>

(* Mutant: the early return to the server path forgets to unlock.          *)
unlock_state_unless_bail(t) ==
  /\ pc[t] = "unlock"
  /\ word' = [word EXCEPT !.locked = loc[t].ret = "bail"]
  /\ AfterUnlock(t)
  /\ UNCHANGED cache_gen /\ ClientOnly

(* wfusync_unlock_state.                                                   *)
unlock_state(t) ==
  /\ pc[t] = "unlock"
  /\ word' = [word EXCEPT !.locked = FALSE]
  /\ AfterUnlock(t)
  /\ UNCHANGED cache_gen /\ ClientOnly

(* wfusync_refresh_cache_generation after STATUS_ABANDONED.                *)
refresh_cache_generation(t) ==
  /\ pc[t] = "refresh"
  /\ cache_gen' = word.generation
  /\ Return(t)
  /\ UNCHANGED word /\ ClientOnly

(* Top of the wait loop.                                                   *)
wait_loop(t) ==
  /\ pc[t] = "loop"
  /\ IF word.generation # loc[t].gen \/ ~Live \/ HasWaiters(word) THEN Fallback(t)
     ELSE /\ Goto(t, "lock")
          /\ loc' = [loc EXCEPT ![t].first = FALSE, ![t].ret = "none"]
          /\ UNCHANGED call
  /\ UNCHANGED <<word, cache_gen>> /\ ClientOnly

(* The mutex wait sleeps on whatever owner it loads here.                  *)
load_owner(t) ==
  /\ pc[t] = "owner"
  /\ loc' = [loc EXCEPT ![t].expect = word.low]
  /\ Goto(t, "sleep")
  /\ UNCHANGED <<word, call, cache_gen>> /\ ClientOnly

(* wfusync_wait_address: the kernel compares low with the expected value   *)
(* and puts the thread to sleep, in one step.                              *)
wait_address(t) ==
  /\ pc[t] = "sleep"
  /\ Goto(t, IF word.low = loc[t].expect THEN "asleep" ELSE "loop")
  /\ UNCHANGED <<word, call, loc, cache_gen>> /\ ClientOnly

(* Mutant: a wait without a deadline sleeps until it is woken.             *)
wait_timeout_timed_only(t) ==
  /\ pc[t] \in {"sleep", "owner", "asleep"} /\ call[t].timeout = "timed" /\ Return(t)
  /\ UNCHANGED <<word, cache_gen>> /\ ClientOnly

(* The deadline has passed before or during the sleep; without a deadline  *)
(* the sleep ends after WFUSYNC_BLOCKING_FALLBACK_NS.                      *)
wait_timeout(t) ==
  /\ \/ pc[t] = "asleep" /\ call[t].timeout = "infinite" /\ Fallback(t)
     \/ pc[t] \in {"sleep", "owner", "asleep"} /\ call[t].timeout = "timed" /\ Return(t)
     \/ pc[t] = "sleep" /\ call[t].timeout = "timed" /\ Fallback(t) \* too long for __ulock_wait
  /\ UNCHANGED <<word, cache_gen>> /\ ClientOnly

(* EINTR ends the sleep as a wake would.                                   *)
wait_interrupted(t) ==
  /\ pc[t] = "asleep"
  /\ Goto(t, "loop")
  /\ UNCHANGED <<word, call, loc, cache_gen>> /\ ClientOnly

(* Wake one sleeper, or all of them: the threads then top the wait loop.   *)
WakeAddress(all, where) ==
  \E woken \in SUBSET Asleep :
    /\ IF all THEN woken = Asleep ELSE Cardinality(woken) = IF Asleep = {} THEN 0 ELSE 1
    /\ pc' = [t \in Threads |-> IF t \in woken THEN "loop" ELSE where[t]]

(* wfusync_wake_address after a release.                                   *)
wake_address(t) ==
  /\ pc[t] = "wake"
  /\ WakeAddress(WakesAll(call[t].n), [pc EXCEPT ![t] = "multi"])
  /\ UNCHANGED <<word, call, loc, cache_gen>> /\ ClientOnly

(* Mutant: MULTI_WAITERS is not looked at again after the release.         *)
check_multi_skipped(t) ==
  /\ pc[t] = "multi" /\ Return(t)
  /\ UNCHANGED <<word, cache_gen>> /\ ClientOnly

(* wfusync_has_multi_waiters after the wake.                               *)
check_multi(t) ==
  /\ pc[t] = "multi"
  /\ IF word.multi THEN Goto(t, "notify") /\ UNCHANGED <<call, loc>> ELSE Return(t)
  /\ UNCHANGED <<word, cache_gen>> /\ ClientOnly

(* SIGQUIT reaches a thread that wineserver has already killed.            *)
sigquit(t) ==
  /\ t \in doomed /\ pc[t] # "dead"
  /\ Goto(t, "dead")
  /\ UNCHANGED <<word, call, loc, cache_gen>> /\ ClientOnly

-----------------------------------------------------------------------------
(* wineserver.                                                             *)

ServerOnly == UNCHANGED <<left, cache_gen, multis>>

(* The request of thread t has been answered.                              *)
Reply(t) ==
  /\ srv' = Srv0
  /\ IF call[t].what = "exit" \/ t \in doomed
       THEN Goto(t, IF t \in doomed THEN pc[t] ELSE "dead") /\ UNCHANGED <<call, loc>>
       ELSE Return(t)

(* Mutant: add_queue without wfusync_add_server_waiter.                    *)
add_server_waiter_unflagged(t) ==
  /\ srv.pc = "idle" /\ pc[t] = "request" /\ call[t].what = "wait" /\ Live /\ t \notin doomed
  /\ queue' = Append(queue, t)
  /\ Goto(t, "queued")
  /\ srv' = [Srv0 EXCEPT !.pc = "lock", !.fn = "signaled", !.cur = t]
  /\ UNCHANGED <<word, call, loc, doomed>> /\ ServerOnly

(* select_on, wait_on: add_queue and wfusync_add_server_waiter, on the way *)
(* to check_wait.                                                          *)
add_server_waiter(t) ==
  /\ srv.pc = "idle" /\ pc[t] = "request" /\ call[t].what = "wait" /\ Live /\ t \notin doomed
  /\ queue' = Append(queue, t)
  /\ word' = [word EXCEPT !.server = TRUE]
  /\ Goto(t, "queued")
  /\ srv' = [Srv0 EXCEPT !.pc = "lock", !.fn = "signaled", !.cur = t]
  /\ UNCHANGED <<call, loc, doomed>> /\ ServerOnly

(* Mutant: a limit for auto-reset events alone, and -1 for "no limit".     *)
Max_minus_one(t) == IF Kind = "auto" THEN 1 ELSE -1

(* wake_up is limited to one thread for an auto-reset event and to the     *)
(* count for a semaphore.                                                  *)
Max(t) == CASE Kind = "auto" -> 1 [] Semaphore -> call[t].n [] OTHER -> 0

(* event_op, release_semaphore, release_mutex and terminate_thread of the  *)
(* caller itself start.                                                    *)
start_request(t) ==
  /\ srv.pc = "idle" /\ pc[t] = "request" /\ Live /\ t \notin doomed
  /\ \/ /\ call[t].what \in {"signal", "pulse"}
        /\ srv' = [Srv0 EXCEPT !.pc = "lock", !.op = "signal", !.fn = "signal",
                               !.req = t, !.max = Max(t)]
     \/ /\ call[t].what = "reset"
        /\ srv' = [Srv0 EXCEPT !.pc = "lock", !.op = "reset", !.fn = "reset",
                               !.req = t, !.max = Max(t)]
     \/ /\ call[t].what = "exit" /\ Mutex
        /\ srv' = [Srv0 EXCEPT !.pc = "lock", !.op = "abandon", !.fn = "abandon", !.req = t]
  /\ UNCHANGED <<word, client, queue>> /\ ServerOnly

(* A request on an object that is gone fails with STATUS_INVALID_HANDLE;   *)
(* the exit of a thread that can own nothing here has nothing to do.       *)
reply_at_once(t) ==
  /\ srv.pc = "idle" /\ pc[t] = "request" /\ t \notin doomed
  /\ ~Live \/ (call[t].what = "exit" /\ ~Mutex)
  /\ Reply(t)
  /\ UNCHANGED <<word, left, doomed, queue, cache_gen, multis>>

(* Mutant: wineserver does not wait for a thread to unlock.                *)
server_lock_state_unchecked ==
  /\ srv.pc = "lock"
  /\ word' = [word EXCEPT !.locked = TRUE]
  /\ srv' = [srv EXCEPT !.pc = "body"]
  /\ UNCHANGED <<client, queue>> /\ ServerOnly

(* lock_state of wineserver: it looks at LOCKED only.                      *)
server_lock_state ==
  /\ srv.pc = "lock" /\ ~word.locked
  /\ word' = [word EXCEPT !.locked = TRUE]
  /\ srv' = [srv EXCEPT !.pc = "body"]
  /\ UNCHANGED <<client, queue>> /\ ServerOnly

(* wfusync_event_signaled, _semaphore_signaled, _mutex_signaled.           *)
server_signaled ==
  /\ srv.pc = "body" /\ srv.fn = "signaled"
  /\ srv' = [srv EXCEPT !.pc = "unlock", !.ok = Signaled(word, srv.cur)]
  /\ UNCHANGED <<word, client, queue>> /\ ServerOnly

(* wfusync_event_satisfied, _semaphore_satisfied, _mutex_satisfied: each   *)
(* leaves an unsignaled object alone, and the wait is answered all the     *)
(* same.                                                                   *)
server_satisfied ==
  /\ srv.pc = "body" /\ srv.fn = "satisfied"
  /\ word' = IF Signaled(word, srv.cur) THEN Consumed(word, srv.cur) ELSE word
  /\ SetRet(srv.cur, IF Signaled(word, srv.cur) THEN ConsumedStatus(word) ELSE "success")
  /\ srv' = [srv EXCEPT !.pc = "unlock"]
  /\ UNCHANGED <<pc, call, doomed, queue>> /\ ServerOnly

(* wfusync_set_event, wfusync_release_semaphore, wfusync_release_mutex.    *)
server_signal ==
  /\ srv.pc = "body" /\ srv.fn = "signal"
  /\ LET t == srv.req
         refused == ReleaseRefused(word, t, call[t].n)
     IN /\ word' = IF refused THEN word ELSE Released(word, call[t].n)
        /\ SetRet(t, IF refused THEN "error" ELSE IF call[t].what = "pulse" THEN "half" ELSE "success")
        /\ srv' = [srv EXCEPT !.pc = "unlock", !.wakes = ~refused /\ ReleaseWakes(word)]
  /\ UNCHANGED <<pc, call, doomed, queue>> /\ ServerOnly

server_reset ==
  /\ srv.pc = "body" /\ srv.fn = "reset"
  /\ word' = [word EXCEPT !.low = 0]
  /\ SetRet(srv.req, "success")
  /\ srv' = [srv EXCEPT !.pc = "unlock"]
  /\ UNCHANGED <<pc, call, doomed, queue>> /\ ServerOnly

(* wfusync_abandon_mutex.                                                  *)
server_abandon ==
  /\ srv.pc = "body" /\ srv.fn = "abandon"
  /\ word' = IF Owns(word, srv.req) THEN Abandoned(word, srv.req) ELSE word
  /\ srv' = [srv EXCEPT !.pc = "unlock", !.wakes = Owns(word, srv.req)]
  /\ UNCHANGED <<client, queue>> /\ ServerOnly

(* unlock_state, and where the caller goes on.  check_wait of a waiter     *)
(* that is not signaled ends its wait when its timeout has passed.         *)
server_unlock_state ==
  /\ srv.pc = "unlock"
  /\ word' = [word EXCEPT !.locked = FALSE]
  /\ CASE srv.fn = "signaled" /\ srv.ok ->
            srv' = [srv EXCEPT !.pc = "lock", !.fn = "satisfied"] /\ UNCHANGED client
       [] srv.fn = "signaled" /\ ~srv.ok ->
            /\ \/ /\ call[srv.cur].timeout \in {"zero", "timed"}
                  /\ srv' = [srv EXCEPT !.pc = "remove"]
               \/ /\ call[srv.cur].timeout # "zero"
                  /\ srv' = IF srv.pos = 0 THEN Srv0
                            ELSE [srv EXCEPT !.pc = "scan", !.pos = @ + 1]
            /\ UNCHANGED client
       [] srv.fn = "satisfied" -> srv' = [srv EXCEPT !.pc = "remove"] /\ UNCHANGED client
       [] srv.fn = "reset" -> srv' = [srv EXCEPT !.pc = "scan", !.pos = 1] /\ UNCHANGED client
       [] srv.fn \in {"signal", "abandon"} ->
            IF srv.wakes THEN srv' = [srv EXCEPT !.pc = "wakeaddr"] /\ UNCHANGED client
            ELSE IF Event THEN srv' = [srv EXCEPT !.pc = "wakemulti"] /\ UNCHANGED client
            ELSE Reply(srv.req) /\ UNCHANGED <<left, doomed>>
  /\ UNCHANGED queue /\ ServerOnly

(* wake_address.  wfusync_set_event then wakes the multi-waiters itself;   *)
(* the callers of the others call wake_up first.  Abandonment wakes all.   *)
server_wake_address ==
  /\ srv.pc = "wakeaddr"
  /\ WakeAddress(srv.op = "abandon" \/ WakesAll(call[srv.req].n), pc)
  /\ srv' = [srv EXCEPT !.pc = IF Event THEN "wakemulti" ELSE "scan", !.pos = 1]
  /\ UNCHANGED <<word, call, loc, doomed, queue>> /\ ServerOnly

(* wake_waiters_for_object: every registered slot of this object.          *)
server_wake_multi ==
  /\ srv.pc = "wakemulti"
  /\ slot' = [m \in MultiWaiters |-> IF m \in regs THEN 0 ELSE slot[m]]
  /\ IF Event THEN srv' = [srv EXCEPT !.pc = "scan", !.pos = 1] /\ UNCHANGED client
     ELSE Reply(srv.req) /\ UNCHANGED <<left, doomed>>
  /\ UNCHANGED <<word, queue, left, cache_gen, regs, reg_left>>

(* Mutant: release_mutex and release_semaphore without wfusync_wake_waiters. *)
ScanDone_no_multi ==
  IF srv.op = "signal" /\ call[srv.req].what = "pulse"
    THEN srv' = [srv EXCEPT !.pc = "lock", !.op = "reset", !.fn = "reset", !.max = Max(srv.req)]
         /\ UNCHANGED client
  ELSE Reply(srv.req) /\ UNCHANGED <<left, doomed>>

(* wake_up has nobody left to wake: PULSE_EVENT goes on to its reset, a    *)
(* semaphore or mutex to wfusync_wake_waiters, and the request is done.    *)
ScanDone ==
  IF srv.op = "signal" /\ call[srv.req].what = "pulse"
    THEN srv' = [srv EXCEPT !.pc = "lock", !.op = "reset", !.fn = "reset", !.max = Max(srv.req)]
         /\ UNCHANGED client
  ELSE IF Event THEN Reply(srv.req) /\ UNCHANGED <<left, doomed>>
  ELSE srv' = [srv EXCEPT !.pc = "wakemulti"] /\ UNCHANGED client

(* wake_up: wake_thread of the next thread in the queue.                   *)
wake_up ==
  /\ srv.pc = "scan"
  /\ IF srv.pos > Len(queue) THEN ScanDone
     ELSE /\ srv' = [srv EXCEPT !.pc = "lock", !.fn = "signaled", !.cur = queue[srv.pos]]
          /\ UNCHANGED client
  /\ UNCHANGED <<word, queue>> /\ ServerOnly

(* list_remove of t's entry.                                               *)
Without(q, t) ==
  IF \E i \in 1..Len(q) : q[i] = t
    THEN LET i == CHOOSE j \in 1..Len(q) : q[j] = t
         IN SubSeq(q, 1, i - 1) \o SubSeq(q, i + 1, Len(q))
    ELSE q

(* Mutant: the flag goes with the first waiter that leaves.                *)
Dequeue_clears_flag(t) ==
  /\ queue' = Without(queue, t)
  /\ word' = [word EXCEPT !.server = FALSE]

(* remove_queue and wfusync_remove_server_waiter.                          *)
Dequeue(t) ==
  /\ queue' = Without(queue, t)
  /\ word' = [word EXCEPT !.server = Without(queue, t) # <<>>]

(* end_wait of srv.cur, whose thread goes on.  select_on is then done;     *)
(* wake_up starts again at the head, unless that was its last wake.        *)
end_wait ==
  /\ srv.pc = "remove"
  /\ Dequeue(srv.cur)
  /\ Return(srv.cur)
  /\ srv' = IF srv.pos = 0 THEN Srv0
            ELSE [srv EXCEPT !.pc = "scan", !.max = IF @ > 0 THEN @ - 1 ELSE 0,
                             !.pos = IF srv.max = 1 THEN Len(queue) ELSE 1,
                             !.cur = 0]
  /\ UNCHANGED doomed /\ ServerOnly

(* thread_timeout.                                                         *)
thread_timeout(t) ==
  /\ srv.pc = "idle" /\ pc[t] = "queued" /\ call[t].timeout = "timed"
  /\ Dequeue(t) /\ Return(t)
  /\ UNCHANGED <<srv, doomed>> /\ ServerOnly

(* NtTerminateThread from outside: kill_thread ends the wait of a queued   *)
(* thread and abandons its mutexes; SIGQUIT is sent after that.            *)
kill_thread(t) ==
  /\ srv.pc = "idle" /\ t \in Killable \ doomed /\ pc[t] # "dead" /\ Live
  /\ doomed' = doomed \cup {t}
  /\ IF pc[t] = "queued" THEN Dequeue(t) /\ Goto(t, "dead")
     ELSE UNCHANGED <<word, queue, pc>>
  /\ srv' = IF Mutex THEN [Srv0 EXCEPT !.pc = "lock", !.op = "abandon", !.fn = "abandon", !.req = t]
            ELSE srv
  /\ UNCHANGED <<call, loc>> /\ ServerOnly

(* wake_wfusync_waiters, the request of a thread that found MULTI_WAITERS. *)
wake_wfusync_waiters(t) ==
  /\ srv.pc = "idle" /\ pc[t] = "notify" /\ t \notin doomed
  /\ slot' = [m \in MultiWaiters |-> IF m \in regs THEN 0 ELSE slot[m]]
  /\ Return(t)
  /\ UNCHANGED <<word, left, doomed, cache_gen, srv, queue, regs, reg_left>>

(* wfusync_register_wait: arm the slot, flag the object, link the waiter;  *)
(* then look whether the object is signaled already.                       *)
register_wait(m) ==
  /\ srv.pc = "idle" /\ Live /\ m \notin regs /\ reg_left[m] > 0
  /\ slot' = [slot EXCEPT ![m] = 1]
  /\ word' = [word EXCEPT !.multi = TRUE]
  /\ regs' = regs \cup {m}
  /\ reg_left' = [reg_left EXCEPT ![m] = @ - 1]
  /\ srv' = [Srv0 EXCEPT !.pc = "regcheck", !.m = m]
  /\ UNCHANGED <<client, cache_gen, queue>>

(* Mutant: the registration does not look at the object.                   *)
register_unchecked ==
  /\ srv.pc = "regcheck"
  /\ srv' = Srv0
  /\ UNCHANGED <<word, client, cache_gen, queue, multis>>

register_check ==
  /\ srv.pc = "regcheck"
  /\ slot' = IF StateSignaled(word) THEN [slot EXCEPT ![srv.m] = 0] ELSE slot
  /\ srv' = Srv0
  /\ UNCHANGED <<word, client, cache_gen, queue, regs, reg_left>>

(* wfusync_unregister_wait.                                                *)
unregister_wait(m) ==
  /\ srv.pc = "idle" /\ m \in regs
  /\ regs' = regs \ {m}
  /\ word' = [word EXCEPT !.multi = @ /\ regs \ {m} # {}]
  /\ slot' = [slot EXCEPT ![m] = 0]
  /\ UNCHANGED <<client, cache_gen, srv, queue, reg_left>>

(* wfusync_try_wait_all, on this object: SERVER_WAITERS goes up as a guard *)
(* if nobody holds the word; the object is consumed if it and the others   *)
(* are signaled; the guard comes down.                                     *)
try_wait_all(t) ==
  /\ srv.pc = "idle" /\ pc[t] = "request" /\ call[t].what = "tryall" /\ Live /\ t \notin doomed
  /\ IF word.locked \/ word.server \/ word.generation # loc[t].gen
       THEN Reply(t) /\ UNCHANGED word
       ELSE /\ word' = [word EXCEPT !.server = TRUE]
            /\ srv' = [Srv0 EXCEPT !.pc = "guarded", !.req = t]
            /\ UNCHANGED <<pc, call, loc>>
  /\ UNCHANGED <<doomed, queue>> /\ ServerOnly

wait_all_consume ==
  /\ srv.pc = "guarded"
  /\ \/ /\ Signaled(word, srv.req) /\ ~(Mutex /\ word.low = srv.req /\ word.high = IntMax)
        /\ word' = Consumed(word, srv.req)
        /\ SetRet(srv.req, ConsumedStatus(word))
     \/ UNCHANGED <<word, loc>>
  /\ srv' = [srv EXCEPT !.pc = "unguard"]
  /\ UNCHANGED <<pc, call, doomed, queue>> /\ ServerOnly

wait_all_unguard ==
  /\ srv.pc = "unguard"
  /\ word' = [word EXCEPT !.server = FALSE]
  /\ Reply(srv.req)
  /\ UNCHANGED <<doomed, queue>> /\ ServerOnly

(* wfusync_destroy: the last reference is gone, so no wait is queued, but  *)
(* threads may be anywhere in the fast path.  The type goes first, and the *)
(* flag bits with it; then the generation.                                 *)
destroy ==
  /\ Closes /\ srv.pc = "idle" /\ Live /\ queue = <<>>
  /\ word' = [word EXCEPT !.type = "unknown", !.locked = FALSE, !.server = FALSE, !.multi = FALSE]
  /\ srv' = [Srv0 EXCEPT !.pc = "destroyed"]
  /\ UNCHANGED <<client, cache_gen, queue, multis>>

destroy_generation ==
  /\ srv.pc = "destroyed"
  /\ word' = [word EXCEPT !.generation = @ + 1]
  /\ srv' = Srv0
  /\ UNCHANGED <<client, cache_gen, queue, multis>>

-----------------------------------------------------------------------------
ThreadStep(t) ==
  \/ check(t) \/ lock_state(t) \/ lock_state_fails(t) \/ consume(t) \/ recheck(t) \/ signal(t)
  \/ unlock_state(t) \/ refresh_cache_generation(t) \/ wait_loop(t) \/ load_owner(t)
  \/ wait_address(t) \/ wake_address(t) \/ check_multi(t)

ServerStep ==
  \/ server_lock_state \/ server_signaled \/ server_satisfied \/ server_signal \/ server_reset
  \/ server_abandon \/ server_unlock_state \/ server_wake_address \/ server_wake_multi
  \/ wake_up \/ end_wait \/ register_check \/ wait_all_consume \/ wait_all_unguard
  \/ destroy_generation

ServerAccept(t) ==
  \/ add_server_waiter(t) \/ start_request(t) \/ reply_at_once(t) \/ wake_wfusync_waiters(t)
  \/ try_wait_all(t)

Environment ==
  \/ \E t \in Threads : Invoke(t) \/ wait_interrupted(t) \/ sigquit(t) \/ kill_thread(t)
  \/ \E m \in MultiWaiters : register_wait(m) \/ unregister_wait(m)
  \/ destroy

Next ==
  \/ \E t \in Threads : ThreadStep(t) \/ wait_timeout(t) \/ ServerAccept(t) \/ thread_timeout(t)
  \/ ServerStep
  \/ Environment

Spec == Init /\ [][Next]_vars

-----------------------------------------------------------------------------
TypeOK ==
  /\ word \in Word
  /\ pc \in [Threads -> ClientPCs]
  /\ call \in [Threads -> Call \cup {NoCall}]
  /\ loc \in [Threads -> Loc]
  /\ left \in [Threads -> Nat]
  /\ cache_gen \in Nat
  /\ doomed \subseteq Threads
  /\ srv \in Srv
  /\ queue \in Seq(Threads)
  /\ slot \in [MultiWaiters -> {0, 1}]
  /\ regs \subseteq MultiWaiters
  /\ reg_left \in [MultiWaiters -> Nat]

(* Threads, and wineserver, inside a critical section of the word: under   *)
(* STATE_LOCKED, or under the guard of try_wait_all.                       *)
Holders == {t \in Threads : pc[t] \in {"body", "write", "unlock"}}
ServerHolds == srv.pc \in {"body", "unlock", "guarded", "unguard"}

(* Nobody shares the word: not two threads, not a thread and wineserver,   *)
(* although wineserver ignores SERVER_WAITERS when it locks, does not lock *)
(* at all in try_wait_all, and clears the bit under a holder in            *)
(* wfusync_destroy.                                                        *)
LockExclusion ==
  /\ \A t, u \in Holders : t = u
  /\ ServerHolds => Holders = {}

(* wineserver decides in check_wait that a wait is satisfied and consumes  *)
(* the object later, in end_wait, under a second lock: the object must     *)
(* still be signaled then, because SERVER_WAITERS has kept all threads out *)
(* in between.  (end_wait does not look at what _satisfied finds.)         *)
SatisfiedStillSignaled ==
  srv.fn = "satisfied" /\ srv.pc \in {"lock", "body"} => Signaled(word, srv.cur)

(* A thread or wineserver is on its way to wake sleepers of the address.   *)
WakePending ==
  \/ \E t \in Threads : pc[t] = "wake" \/ (pc[t] = "unlock" /\ loc[t].wakes)
  \/ srv.pc = "wakeaddr" \/ (srv.pc = "unlock" /\ srv.wakes)

(* ... or of the slots of multi-waiters.                                   *)
NotifyPending ==
  \/ WakePending
  \/ \E t \in Threads : pc[t] \in {"multi", "notify"}
  \/ srv.op \in {"signal", "abandon"} /\ srv.pc # "idle"

(* A multi-waiter is never left asleep on a signaled object: it saw the    *)
(* object signaled when it registered, or the signaling thread sees        *)
(* MULTI_WAITERS, before or after it changes the word.                     *)
NoLostMultiWake ==
  \A m \in regs :
    slot[m] = 1 /\ StateSignaled(word) /\ Live =>
      NotifyPending \/ (srv.pc = "regcheck" /\ srv.m = m)

(* No thread sleeps on the address of a manual-reset event that is set,    *)
(* unless the wake that reaches all sleepers is still on its way.          *)
NoLostAddressWake ==
  Kind = "manual" /\ Live /\ word.low # 0 /\ Asleep # {} => WakePending

(* A thread that is awake in its wait and may still consume the object.    *)
ConsumerAwake ==
  \E t \in Threads : /\ call[t].what = "wait" /\ loc[t].ret \notin {"success", "abandoned"}
                     /\ pc[t] \notin {"asleep", "idle", "dead", "queued"}

(* "there cannot be any thread to wake up if the count is != 0"            *)
(* (server/semaphore.c, release_semaphore): so a release that finds a      *)
(* count may leave the sleepers alone, somebody is coming for the count.   *)
NoSleeperBehindCount ==
  Semaphore /\ word.low > 0 /\ Asleep # {} => WakePending \/ ConsumerAwake \/ srv.pc # "idle"

(* A mutex owned by a thread that terminates is abandoned, so that the     *)
(* next wait is told (kernel32/tests/sync.c, test_mutex_thread): no dead   *)
(* thread is left as the owner once wineserver has dealt with its death.   *)
DeadOwnsNothing ==
  Mutex /\ srv.pc = "idle" => \A t \in Threads : pc[t] = "dead" => word.low # t

-----------------------------------------------------------------------------
(* The object its callers see.                                             *)
Status(t) == IF pc[t] \in {"idle", "dead"} THEN pc[t]
             ELSE IF loc[t].ret \in {"success", "abandoned", "error", "half"} THEN loc[t].ret
             ELSE "pending"

Nt == INSTANCE NtObject WITH
        MaxCount <- InitHigh,
        InitCount <- IF Mutex THEN InitHigh ELSE InitLow,
        InitOwner <- IF Mutex THEN InitLow ELSE 0,
        count <- IF Mutex THEN word.high ELSE word.low,
        owner <- IF Mutex /\ word.low > 0 THEN word.low ELSE 0,
        abandoned <- Mutex /\ word.low < 0,
        closed <- ~Live,
        asked <- [t \in Threads |-> <<call[t].what, call[t].n>>],
        status <- [t \in Threads |-> Status(t)]

(* A WFUSync object is indistinguishable from the object that wineserver   *)
(* keeps alone: every call takes effect at most once, wherever it is       *)
(* carried out, on a state that allows it, and is told the truth; only a   *)
(* wait may return without an effect.                                      *)
NtSpec == Nt!Spec

-----------------------------------------------------------------------------
(* Fairness: a runnable thread runs, wineserver runs and serves whoever    *)
(* asks, and timers fire.  SF: of a thread's sleeps not every one is cut   *)
(* short by a signal.  (Each starts with the full 10 ms again, so this is  *)
(* an assumption about the signals.)                                       *)
Fairness ==
  /\ WF_vars(ServerStep)
  /\ \A t \in Threads : /\ WF_vars(ThreadStep(t)) /\ WF_vars(ServerAccept(t))
                        /\ WF_vars(thread_timeout(t)) /\ SF_vars(wait_timeout(t))
                        /\ WF_vars(sigquit(t))

FairSpec == Spec /\ Fairness

(* No wait lasts for ever on an object that stays signaled for it: whoever *)
(* slept through the wake, or never got one, reaches wineserver after      *)
(* WFUSYNC_BLOCKING_FALLBACK_NS and is served from there.                  *)
NoWaitStuckOnSignaled ==
  \A t \in Threads : []<>~(call[t].what = "wait" /\ pc[t] # "dead" /\ Signaled(word, t))

(* wineserver, which spins on STATE_LOCKED, gets through every request.    *)
ServerAnswers == srv.pc # "idle" ~> srv.pc = "idle"
=============================================================================
