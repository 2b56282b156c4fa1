------------------------------ MODULE WfuMulti ------------------------------
(***************************************************************************)
(* Several WFUSync objects, and threads that wait for all or any of them.  *)
(*                                                                         *)
(* NtWaitForMultipleObjects first works on the shared words itself         *)
(* (wfusync_wait_multiple of dlls/ntdll/unix/wfusync.c): WaitAll locks     *)
(* every word in the order of the slots and takes all or nothing, WaitAny  *)
(* tries one word after the other.  A thread that has to block registers   *)
(* with wineserver and sleeps on a slot of its own; for WaitAll wineserver *)
(* also tries on the thread's behalf (try_wait_all_wfusync).  What the     *)
(* fast path refuses goes to wineserver's own select (server/thread.c).    *)
(*                                                                         *)
(* A step touches one shared word at most once.  Critical sections of      *)
(* wineserver are one step, since nobody can tell the bit it holds from    *)
(* one it is about to take.  Threads that sleep in the fast path of a wait *)
(* on one object are the subject of WfuObject; here a wait on one object   *)
(* goes to wineserver.                                                     *)
(***************************************************************************)
EXTENDS Integers, Sequences, FiniteSets, SequencesExt

CONSTANTS Objs,      \* the objects, by the index of their slot in the shared file
          KindOf,    \* KindOf[o]: as in WfuWord
          Threads, IntMax, UlongSize,
          InitWord,  \* InitWord[o]: <<low, high>> given to create_wfusync
          CallsOf,   \* CallsOf[t]: the calls thread t may make
          MaxCalls   \* bound: MaxCalls[t] calls made by thread t

W(k) == INSTANCE WfuWord WITH Kind <- k

Waits == {"waitall", "waitany", "sigwait"}
Whats == Waits \cup {"signal", "reset", "exit"}
Timeouts == {"zero", "timed", "infinite"}

(* A call: the objects it waits for, in order, and the one it signals.     *)
Call == [what : Whats, objs : Seq(Objs), obj : Objs \cup {0}, timeout : Timeouts,
         fast : BOOLEAN, n : Nat]
NoCall == [what |-> "none", objs |-> <<>>, obj |-> 0, timeout |-> "zero", fast |-> FALSE, n |-> 0]

ASSUME ObjsAssumption == Objs \subseteq Nat \ {0} /\ IsFiniteSet(Objs)
ASSUME KindOfAssumption == KindOf \in [Objs -> {"auto", "manual", "semaphore", "mutex"}]
ASSUME ThreadsAssumption == Threads \subseteq Nat \ {0}
ASSUME WidthAssumption == IntMax \in Nat \ {0} /\ UlongSize = 2 * (IntMax + 1)
ASSUME InitAssumption ==
  /\ InitWord \in [Objs -> Int \X Int]
  /\ \A o \in Objs :
       CASE KindOf[o] = "mutex" -> InitWord[o] = <<0, 0>> \/ (InitWord[o][1] \in Threads /\ InitWord[o][2] = 1)
         [] KindOf[o] = "semaphore" -> InitWord[o][1] \in 0..InitWord[o][2] /\ InitWord[o][2] <= IntMax
         [] OTHER -> InitWord[o][1] \in {0, 1}
(* A wait is for at least one object and names none twice, an operation is *)
(* on an object, which NtResetEvent wants to be an event.                  *)
ASSUME CallsAssumption ==
  \A t \in Threads : \A c \in CallsOf[t] :
    /\ c \in Call
    /\ c.what \in Waits => c.objs # <<>>
    /\ c.what \in {"signal", "reset", "sigwait"} => c.obj \in Objs
    /\ c.what = "reset" => KindOf[c.obj] \in {"auto", "manual"}
    /\ \A i, j \in DOMAIN c.objs : i # j => c.objs[i] # c.objs[j]
ASSUME BoundAssumption == MaxCalls \in [Threads -> Nat]

VARIABLES word,      \* word[o]: the shared word of object o
          pc,        \* where each thread is
          call,      \* the call each thread is making
          loc,       \* locals of that call
          left,      \* calls each thread may still make
          cache_gen, \* cache_gen[o]: generation in the process's handle cache entry
          srv,       \* wineserver: program counter and locals of the request
          queue,     \* queue[o]: the object's wait_queue in wineserver
          slot,      \* slot[t]: the word thread t sleeps on while it is 1
          reg        \* reg[t]: objects t's entry in wfusync_waiters names

client == <<pc, call, loc, left, cache_gen>>
vars == <<word, client, srv, queue, slot, reg>>

Mutex(o) == KindOf[o] = "mutex"
Event(o) == KindOf[o] \in {"auto", "manual"}
Signaled(o, t) == W(KindOf[o])!Signaled(word[o], t)
StateSignaled(o) == W(KindOf[o])!StateSignaled(word[o])
Consumed(o, t) == W(KindOf[o])!Consumed(word[o], t)
ConsumedStatus(o) == W(KindOf[o])!ConsumedStatus(word[o])

(* A mutex its owner cannot take once more.                                *)
Full(o, t) == Mutex(o) /\ word[o].low = t /\ word[o].high = IntMax

(* i: the object a loop is at; gens: the generations gathered; phase:      *)
(* which consume_waitany_states of wfusync_wait_multiple this is; ret: the *)
(* NTSTATUS so far.                                                        *)
Loc0 == [i |-> 1, try |-> 1, phase |-> 1, gens |-> [o \in Objs |-> 0], ret |-> "none"]

(* req: thread whose request runs; cur: thread whose wait is checked; obj: *)
(* object being signaled; i: object a loop is at; guarded: objects under   *)
(* the guard of try_wait_all; pos and max: as in wake_up; tries: attempts; *)
(* todo: objects still to be registered or looked at.                      *)
Srv0 == [pc |-> "idle", req |-> 0, cur |-> 0, obj |-> 0, i |-> 1, guarded |-> 0, pos |-> 0,
         max |-> 0, tries |-> 0, ok |-> TRUE, ret |-> "none", todo |-> {}]

Init == /\ word = [o \in Objs |-> W(KindOf[o])!create_wfusync(InitWord[o][1], InitWord[o][2])]
        /\ pc = [t \in Threads |-> "idle"]
        /\ call = [t \in Threads |-> NoCall]
        /\ loc = [t \in Threads |-> Loc0]
        /\ left = MaxCalls
        /\ cache_gen = [o \in Objs |-> 1]
        /\ srv = Srv0
        /\ queue = [o \in Objs |-> <<>>]
        /\ slot = [t \in Threads |-> 0]
        /\ reg = [t \in Threads |-> {}]

-----------------------------------------------------------------------------
(* Threads.                                                                *)

Goto(t, where) == pc' = [pc EXCEPT ![t] = where]
SetLoc(t, l) == loc' = [loc EXCEPT ![t] = l]
Count(t) == Len(call[t].objs)
At(t) == call[t].objs[loc[t].i]

Return(t) == /\ Goto(t, "idle")
             /\ SetLoc(t, Loc0)
             /\ call' = [call EXCEPT ![t] = NoCall]

(* The operation has had its effect; the way back to the program is a step *)
(* of its own.                                                             *)
Finish(t, r) == Goto(t, "return") /\ SetLoc(t, [loc[t] EXCEPT !.ret = r]) /\ UNCHANGED call

(* STATUS_NOT_IMPLEMENTED: NtWaitForMultipleObjects calls                  *)
(* wfusync_wait_multiple a second time after inproc_wait, then everyone    *)
(* asks wineserver.                                                        *)
Fallback(t) ==
  /\ IF call[t].what \in {"waitall", "waitany"} /\ loc[t].try = 1
       THEN Goto(t, "gather") /\ SetLoc(t, [Loc0 EXCEPT !.try = 2])
       ELSE Goto(t, "request") /\ SetLoc(t, Loc0)
  /\ UNCHANGED call

ClientOnly == UNCHANGED <<left, srv, queue, slot, reg>>

(* Alertable waits, absolute timeouts, a wait for one object (fast =       *)
(* FALSE), SignalObjectAndWait and thread exit go to wineserver at once.   *)
Invoke(t) ==
  /\ pc[t] = "idle" /\ left[t] > 0
  /\ \E c \in CallsOf[t] :
       /\ call' = [call EXCEPT ![t] = c]
       /\ Goto(t, CASE c.fast /\ c.what \in {"waitall", "waitany"} -> "gather"
                    [] c.fast /\ c.what \in {"signal", "reset"} -> "signal"
                    [] OTHER -> "request")
  /\ left' = [left EXCEPT ![t] = @ - 1]
  /\ UNCHANGED <<word, loc, cache_gen, srv, queue, slot, reg>>

return(t) == pc[t] = "return" /\ Return(t) /\ UNCHANGED <<word, cache_gen>> /\ ClientOnly

(* The loop of wfusync_wait_multiple under lock_wfusync_cache.  WaitAll    *)
(* goes on in spite of MULTI_WAITERS.  A stale generation is brought up to *)
(* date for an abandoned mutex only.                                       *)
gather(t) ==
  /\ pc[t] = "gather"
  /\ LET o == At(t)
         stale == word[o].generation # cache_gen[o]
         refresh == stale /\ Mutex(o) /\ word[o].low < 0
         waiters == IF call[t].what = "waitall" THEN word[o].server
                    ELSE W(KindOf[o])!HasWaiters(word[o])
         next == IF call[t].what = "waitall" THEN "lock" ELSE "any_check"
     IN /\ cache_gen' = IF refresh THEN [cache_gen EXCEPT ![o] = word[o].generation] ELSE cache_gen
        /\ IF (stale /\ ~refresh) \/ waiters THEN Fallback(t)
           ELSE /\ Goto(t, IF loc[t].i = Count(t) THEN next ELSE "gather")
                /\ SetLoc(t, [loc[t] EXCEPT !.gens[o] = word[o].generation,
                                            !.i = IF @ = Count(t) THEN 1 ELSE @ + 1])
                /\ UNCHANGED call
  /\ UNCHANGED word /\ ClientOnly

-----------------------------------------------------------------------------
(* WaitAll: try_wait_all_local.                                            *)

(* Mutant: the words are locked in the caller's order.                     *)
Order_of_caller(t) == call[t].objs

(* order[]: the objects by the index of their slots.                       *)
ByIndex(objs) ==
  CHOOSE s \in [DOMAIN objs -> Range(objs)] : \A i, j \in DOMAIN objs : i < j => s[i] < s[j]
Order(t) == ByIndex(call[t].objs)

(* wfusync_lock_state of the next object: it spins on LOCKED and fails     *)
(* under SERVER_WAITERS.  A stale generation or a manual-reset event ends  *)
(* the attempt.                                                            *)
lock_all(t) ==
  /\ pc[t] = "lock"
  /\ LET o == Order(t)[loc[t].i] IN
     \/ /\ ~word[o].locked /\ ~word[o].server
        /\ word' = [word EXCEPT ![o].locked = TRUE]
        /\ IF word[o].generation # loc[t].gens[o] \/ KindOf[o] = "manual"
             THEN Goto(t, "unlock") /\ SetLoc(t, [loc[t] EXCEPT !.ret = "bail"])
           ELSE IF loc[t].i = Count(t) THEN Goto(t, "eval") /\ UNCHANGED loc
           ELSE SetLoc(t, [loc[t] EXCEPT !.i = @ + 1]) /\ UNCHANGED pc
     \/ /\ word[o].server
        /\ Goto(t, "unlock")
        /\ SetLoc(t, [loc[t] EXCEPT !.i = @ - 1, !.ret = "bail"])
        /\ UNCHANGED word
  /\ UNCHANGED <<call, cache_gen>> /\ ClientOnly

(* The first object, in the caller's order, that is not signaled or whose  *)
(* recursion count is at INT_MAX ends the attempt before anything is       *)
(* taken: what becomes of it with the objects up to the n-th.              *)
VerdictUpTo(t, n) ==
  LET objs == call[t].objs
      blocking == {i \in 1..n : ~Signaled(objs[i], t) \/ Full(objs[i], t)}
  IN IF blocking = {} THEN "none" ELSE IF Signaled(objs[Min(blocking)], t) THEN "bail" ELSE "timeout"

(* Mutant: the last object is taken for granted.                           *)
Verdict_but_last(t) == VerdictUpTo(t, Count(t) - 1)

Verdict(t) == VerdictUpTo(t, Count(t))

eval_all(t) ==
  /\ pc[t] = "eval"
  /\ IF Verdict(t) # "none"
       THEN Goto(t, "unlock") /\ SetLoc(t, [loc[t] EXCEPT !.ret = Verdict(t)])
       ELSE Goto(t, "take") /\ SetLoc(t, [loc[t] EXCEPT !.i = 1])
  /\ UNCHANGED <<word, call, cache_gen>> /\ ClientOnly

(* The first abandoned mutex makes the status of the whole wait.           *)
Worse(r, s) == IF r = "abandoned" THEN r ELSE s

take_all(t) ==
  /\ pc[t] = "take"
  /\ word' = [word EXCEPT ![At(t)] = Consumed(At(t), t)]
  /\ LET l == [loc[t] EXCEPT !.ret = Worse(@, ConsumedStatus(At(t)))] IN
     IF loc[t].i = Count(t) THEN Goto(t, "unlock") /\ SetLoc(t, l)
     ELSE SetLoc(t, [l EXCEPT !.i = @ + 1]) /\ UNCHANGED pc
  /\ UNCHANGED <<call, cache_gen>> /\ ClientOnly

(* Back in wfusync_wait_multiple.                                          *)
AfterLocal(t) ==
  LET l == [loc[t] EXCEPT !.i = 1] IN
  CASE l.ret = "abandoned" -> Goto(t, "refresh") /\ SetLoc(t, l) /\ UNCHANGED call
    [] l.ret = "success" \/ (l.ret = "timeout" /\ call[t].timeout = "zero") -> Return(t)
    [] OTHER -> Goto(t, "tryall") /\ SetLoc(t, [l EXCEPT !.ret = "none"]) /\ UNCHANGED call

(* done: the locks are released in the opposite order.                     *)
unlock_all(t) ==
  /\ pc[t] = "unlock"
  /\ word' = IF loc[t].i = 0 THEN word ELSE [word EXCEPT ![Order(t)[loc[t].i]].locked = FALSE]
  /\ IF loc[t].i <= 1 THEN AfterLocal(t)
     ELSE SetLoc(t, [loc[t] EXCEPT !.i = @ - 1]) /\ UNCHANGED <<pc, call>>
  /\ UNCHANGED cache_gen /\ ClientOnly

(* refresh_waitall_mutex_generations.                                      *)
refresh_all(t) ==
  /\ pc[t] = "refresh"
  /\ cache_gen' = IF Mutex(At(t)) THEN [cache_gen EXCEPT ![At(t)] = word[At(t)].generation]
                  ELSE cache_gen
  /\ IF loc[t].i = Count(t) THEN Return(t)
     ELSE SetLoc(t, [loc[t] EXCEPT !.i = @ + 1]) /\ UNCHANGED <<pc, call>>
  /\ UNCHANGED word /\ ClientOnly

-----------------------------------------------------------------------------
(* WaitAny.                                                                *)

(* consume_waitany_states is done; phase 1 ran before the registration,    *)
(* phase 2 under it, phase 3 after it.                                     *)
AnyDone(t, r) ==
  LET l == [loc[t] EXCEPT !.i = 1, !.ret = r] IN
  IF loc[t].phase = 2
    THEN /\ Goto(t, IF r = "timeout" THEN "sleep" ELSE "unregister")
         /\ SetLoc(t, l) /\ UNCHANGED call
  ELSE CASE r = "bail" -> Fallback(t)
         [] r = "timeout" /\ (loc[t].phase = 3 \/ call[t].timeout # "zero") ->
              Goto(t, "register") /\ SetLoc(t, l) /\ UNCHANGED call
         [] OTHER -> Finish(t, r)

any_check(t) ==
  /\ pc[t] = "any_check"
  /\ IF word[At(t)].generation # loc[t].gens[At(t)] THEN AnyDone(t, "bail")
     ELSE Goto(t, "any_lock") /\ UNCHANGED <<call, loc>>
  /\ UNCHANGED <<word, cache_gen>> /\ ClientOnly

any_lock(t) ==
  /\ pc[t] = "any_lock"
  /\ \/ /\ word[At(t)].server /\ AnyDone(t, "bail") /\ UNCHANGED word
     \/ /\ ~word[At(t)].server /\ ~word[At(t)].locked
        /\ word' = [word EXCEPT ![At(t)].locked = TRUE]
        /\ Goto(t, "any_consume") /\ UNCHANGED <<call, loc>>
  /\ UNCHANGED cache_gen /\ ClientOnly

(* Mutant: the scan goes on after an object has been consumed.             *)
AnyNext_greedy(t, r) ==
  IF loc[t].i < Count(t)
    THEN Goto(t, "any_check") /\ SetLoc(t, [loc[t] EXCEPT !.i = @ + 1]) /\ UNCHANGED call
  ELSE AnyDone(t, r)

(* The next object if this one was not signaled.                           *)
AnyNext(t, r) ==
  IF r = "timeout" /\ loc[t].i < Count(t)
    THEN Goto(t, "any_check") /\ SetLoc(t, [loc[t] EXCEPT !.i = @ + 1]) /\ UNCHANGED call
  ELSE IF r = "abandoned"
    THEN Goto(t, "any_refresh") /\ SetLoc(t, [loc[t] EXCEPT !.ret = r]) /\ UNCHANGED call
  ELSE AnyDone(t, r)

(* consume_event_state, consume_semaphore_state, consume_mutex_state, up   *)
(* to the unlock.                                                          *)
any_consume(t) ==
  /\ pc[t] = "any_consume"
  /\ LET o == At(t)
         taken == Signaled(o, t) /\ ~Full(o, t)
         now == IF taken THEN Consumed(o, t) ELSE word[o]
     IN /\ word' = [word EXCEPT ![o] = [now EXCEPT !.locked = FALSE]]
        /\ AnyNext(t, IF taken THEN ConsumedStatus(o) ELSE IF Full(o, t) THEN "bail" ELSE "timeout")
  /\ UNCHANGED cache_gen /\ ClientOnly

any_refresh(t) ==
  /\ pc[t] = "any_refresh"
  /\ cache_gen' = [cache_gen EXCEPT ![At(t)] = word[At(t)].generation]
  /\ AnyDone(t, "abandoned")
  /\ UNCHANGED word /\ ClientOnly

-----------------------------------------------------------------------------
(* Sleeping on the slot.                                                   *)

(* wake_wait_slot has stored 0, or will find nobody asleep: WaitAll asks   *)
(* again, WaitAny unregisters and looks at the objects.                    *)
Woken(t) ==
  /\ IF call[t].what = "waitall" THEN Goto(t, "tryall") /\ UNCHANGED loc
     ELSE Goto(t, "unregister") /\ SetLoc(t, [loc[t] EXCEPT !.ret = "woken"])
  /\ UNCHANGED <<word, call, cache_gen>> /\ ClientOnly

wait_slot(t) ==
  /\ pc[t] = "sleep"
  /\ IF slot[t] = 1 THEN Goto(t, "asleep") /\ UNCHANGED <<word, call, loc, cache_gen>> /\ ClientOnly
     ELSE Woken(t)

slot_woken(t) == pc[t] = "asleep" /\ slot[t] = 0 /\ Woken(t)

(* EINTR.                                                                  *)
wait_interrupted(t) == pc[t] = "asleep" /\ slot[t] = 1 /\ Woken(t)

(* Mutant: the wait ends without unregister_wfusync_wait.                  *)
GiveUp_registered(t, r) == Return(t)

GiveUp(t, r) == Goto(t, "unregister") /\ SetLoc(t, [loc[t] EXCEPT !.ret = r]) /\ UNCHANGED call

(* The deadline passes before or during the sleep, or is too far away for  *)
(* __ulock_wait.  Without a deadline WaitAny sleeps for                    *)
(* WFUSYNC_BLOCKING_FALLBACK_NS; WaitAll sleeps until it is woken.         *)
wait_timeout(t) ==
  /\ \/ pc[t] \in {"sleep", "asleep"} /\ call[t].timeout = "timed" /\ GiveUp(t, "timeout")
     \/ pc[t] = "sleep" /\ call[t].timeout = "timed" /\ GiveUp(t, "bail")
     \/ pc[t] = "asleep" /\ call[t].timeout = "infinite" /\ call[t].what = "waitany" /\ GiveUp(t, "bail")
  /\ UNCHANGED <<word, cache_gen>> /\ ClientOnly

-----------------------------------------------------------------------------
(* wfusync_set_event, wfusync_release_semaphore, wfusync_release_mutex and *)
(* wfusync_reset_event; WfuObject has their details.                       *)

signal_check(t) ==
  /\ pc[t] = "signal"
  /\ IF W(KindOf[call[t].obj])!HasWaiters(word[call[t].obj]) THEN Fallback(t)
     ELSE /\ Goto(t, "signal_lock") /\ UNCHANGED call
          /\ SetLoc(t, [loc[t] EXCEPT !.gens[call[t].obj] = cache_gen[call[t].obj]])
  /\ UNCHANGED <<word, cache_gen>> /\ ClientOnly

(* The lock and the second look at the generation and the flags; when that *)
(* fails the word is as it was.                                            *)
signal_lock(t) ==
  /\ pc[t] = "signal_lock"
  /\ LET o == call[t].obj IN
     \/ /\ word[o].server \/ (~word[o].locked /\ (word[o].multi \/ word[o].generation # loc[t].gens[o]))
        /\ Fallback(t) /\ UNCHANGED word
     \/ /\ ~W(KindOf[o])!HasWaiters(word[o]) /\ ~word[o].locked
        /\ word[o].generation = loc[t].gens[o]
        /\ word' = [word EXCEPT ![o].locked = TRUE]
        /\ Goto(t, "signal_write") /\ UNCHANGED <<call, loc>>
  /\ UNCHANGED cache_gen /\ ClientOnly

Refused(t) == W(KindOf[call[t].obj])!ReleaseRefused(word[call[t].obj], t, call[t].n)
Released(t) == IF call[t].what = "reset" THEN [word[call[t].obj] EXCEPT !.low = 0]
               ELSE W(KindOf[call[t].obj])!Released(word[call[t].obj], call[t].n)
ReleaseWakes(t) == call[t].what # "reset" /\ W(KindOf[call[t].obj])!ReleaseWakes(word[call[t].obj])

signal_write(t) ==
  /\ pc[t] = "signal_write"
  /\ LET o == call[t].obj IN
     IF Refused(t) THEN word' = [word EXCEPT ![o].locked = FALSE] /\ Finish(t, "error")
     ELSE /\ word' = [word EXCEPT ![o] = [Released(t) EXCEPT !.locked = FALSE]]
          /\ IF ReleaseWakes(t)
               THEN /\ Goto(t, "signal_multi") /\ UNCHANGED call
                    /\ SetLoc(t, [loc[t] EXCEPT !.ret = "success"])
               ELSE Finish(t, "success")
  /\ UNCHANGED cache_gen /\ ClientOnly

(* Mutant: MULTI_WAITERS is not looked at again after the release.         *)
signal_multi_skipped(t) ==
  /\ pc[t] = "signal_multi"
  /\ Return(t)
  /\ UNCHANGED <<word, cache_gen>> /\ ClientOnly

signal_multi(t) ==
  /\ pc[t] = "signal_multi"
  /\ IF word[call[t].obj].multi THEN Goto(t, "notify") /\ UNCHANGED <<call, loc>> ELSE Return(t)
  /\ UNCHANGED <<word, cache_gen>> /\ ClientOnly

-----------------------------------------------------------------------------
(* wineserver: select.                                                     *)

ServerOnly == UNCHANGED <<left, cache_gen>>
Registry == <<slot, reg>>
WObj(t, i) == call[t].objs[i]

(* Mutant: -1 for "no limit".                                              *)
MaxWakes_minus_one(o, n) == CASE KindOf[o] = "auto" -> 1 [] KindOf[o] = "semaphore" -> n [] OTHER -> -1

MaxWakes(o, n) == CASE KindOf[o] = "auto" -> 1 [] KindOf[o] = "semaphore" -> n [] OTHER -> 0

(* select_on: wait_on starts.                                              *)
select_on(t) ==
  /\ srv.pc = "idle" /\ pc[t] = "request" /\ call[t].what \in Waits
  /\ Goto(t, "queued")
  /\ srv' = [Srv0 EXCEPT !.pc = "enqueue", !.req = t, !.cur = t]
  /\ UNCHANGED <<word, call, loc, queue, Registry>> /\ ServerOnly

(* object_sync_add_queue of each object; SignalObjectAndWait then signals, *)
(* the others go to check_wait.                                            *)
enqueue ==
  /\ srv.pc = "enqueue"
  /\ LET t == srv.cur
         o == WObj(t, srv.i)
     IN /\ word' = [word EXCEPT ![o].server = TRUE]
        /\ queue' = [queue EXCEPT ![o] = Append(@, t)]
        /\ srv' = IF srv.i < Count(t) THEN [srv EXCEPT !.i = @ + 1]
                  ELSE IF call[t].what = "sigwait"
                    THEN [srv EXCEPT !.pc = "signal", !.obj = call[t].obj, !.max = MaxWakes(call[t].obj, 1)]
                  ELSE [srv EXCEPT !.pc = "check", !.i = 1]
  /\ UNCHANGED <<client, Registry>>

(* check_wait has found that srv.cur must go on waiting: unless its time   *)
(* is up, its thread stays queued, and wake_up goes on to the next.        *)
NotSatisfied ==
  \/ /\ call[srv.cur].timeout \in {"zero", "timed"}
     /\ srv' = [srv EXCEPT !.pc = "remove", !.i = 1]
  \/ /\ call[srv.cur].timeout # "zero"
     /\ srv' = IF srv.pos = 0 THEN Srv0 ELSE [srv EXCEPT !.pc = "scan", !.pos = @ + 1]

(* Mutant: SELECT_WAIT_ALL is taken for SELECT_WAIT.                       *)
SelectsAll_never(t) == FALSE

SelectsAll(t) == call[t].what = "waitall"

(* check_wait: SELECT_WAIT_ALL asks every object, the others stop at the   *)
(* first that is signaled.                                                 *)
check_wait ==
  /\ srv.pc = "check" /\ ~word[WObj(srv.cur, srv.i)].locked
  /\ LET t == srv.cur
         signaled == Signaled(WObj(t, srv.i), t)
         all == SelectsAll(t)
         last == srv.i = Count(t)
     IN \/ /\ all /\ last /\ srv.ok /\ signaled
           /\ srv' = [srv EXCEPT !.pc = "satisfy", !.i = 1]
        \/ /\ ~all /\ signaled
           /\ srv' = [srv EXCEPT !.pc = "satisfy"]
        \/ /\ ~last /\ (all \/ ~signaled)
           /\ srv' = [srv EXCEPT !.i = @ + 1, !.ok = @ /\ signaled]
        \/ /\ last /\ ~(signaled /\ (all => srv.ok)) /\ NotSatisfied
  /\ UNCHANGED <<word, client, queue, Registry>>

(* Mutant: only one object of a SELECT_WAIT_ALL is taken.                  *)
MoreToSatisfy_never(t) == FALSE

MoreToSatisfy(t) == SelectsAll(t) /\ srv.i < Count(t)

(* end_wait: object_sync_satisfied of the one object, or of each.          *)
satisfied ==
  /\ srv.pc = "satisfy" /\ ~word[WObj(srv.cur, srv.i)].locked
  /\ LET t == srv.cur
         o == WObj(t, srv.i)
     IN /\ word' = IF Signaled(o, t) THEN [word EXCEPT ![o] = Consumed(o, t)] ELSE word
        /\ SetLoc(t, [loc[t] EXCEPT !.ret = Worse(@, ConsumedStatus(o))])
        /\ srv' = IF MoreToSatisfy(t) THEN [srv EXCEPT !.i = @ + 1]
                  ELSE [srv EXCEPT !.pc = "remove", !.i = 1]
  /\ UNCHANGED <<pc, call, queue, Registry>> /\ ServerOnly

(* wake_up, from the head of the queue of srv.obj.                         *)
Rescan == [srv EXCEPT !.pc = "scan", !.pos = 1, !.cur = 0, !.i = 1, !.ok = TRUE]

(* Mutant: SERVER_WAITERS goes with the first waiter that leaves.          *)
StillQueued_never(o, t) == FALSE

StillQueued(o, t) == RemoveFirst(queue[o], t) # <<>>

(* end_wait: object_sync_remove_queue of each object, and the thread goes  *)
(* on.  One that woke itself up in SignalObjectAndWait has to see its      *)
(* request end first.                                                      *)
end_wait ==
  /\ srv.pc = "remove"
  /\ LET t == srv.cur
         o == WObj(t, srv.i)
         self == srv.pos > 0 /\ t = srv.req
     IN /\ queue' = [queue EXCEPT ![o] = RemoveFirst(@, t)]
        /\ word' = [word EXCEPT ![o].server = StillQueued(o, t)]
        /\ IF srv.i < Count(t) THEN srv' = [srv EXCEPT !.i = @ + 1] /\ UNCHANGED <<pc, call, loc>>
           ELSE /\ srv' = IF srv.pos = 0 THEN Srv0
                          ELSE [Rescan EXCEPT !.max = IF @ > 0 THEN @ - 1 ELSE 0,
                                              !.pos = IF srv.max = 1 THEN Len(queue[srv.obj]) + 1 ELSE 1]
                /\ IF self THEN Goto(t, "served") /\ UNCHANGED <<call, loc>> ELSE Return(t)
  /\ UNCHANGED Registry /\ ServerOnly

(* thread_timeout.                                                         *)
thread_timeout(t) ==
  /\ srv.pc = "idle" /\ pc[t] = "queued" /\ call[t].timeout = "timed"
  /\ srv' = [Srv0 EXCEPT !.pc = "remove", !.cur = t]
  /\ UNCHANGED <<word, client, queue, Registry>>

-----------------------------------------------------------------------------
(* wineserver: signaling.                                                  *)

(* event_op, release_semaphore, release_mutex; terminate_thread of the     *)
(* caller itself.                                                          *)
start_request(t) ==
  /\ srv.pc = "idle" /\ pc[t] = "request" /\ call[t].what \in {"signal", "reset", "exit"}
  /\ srv' = IF call[t].what = "exit" THEN [Srv0 EXCEPT !.pc = "abandon", !.req = t]
            ELSE [Srv0 EXCEPT !.pc = "signal", !.req = t, !.obj = call[t].obj,
                              !.max = MaxWakes(call[t].obj, call[t].n)]
  /\ UNCHANGED <<word, client, queue, Registry>>

(* A signal is done.  SignalObjectAndWait goes on to check_wait unless it  *)
(* woke itself up; abandon_mutexes goes on to the next mutex.              *)
SignalDone ==
  LET t == srv.req IN
  CASE call[t].what = "exit" -> srv' = [srv EXCEPT !.pc = "abandon"] /\ UNCHANGED <<pc, call, loc>>
    [] call[t].what = "sigwait" /\ pc[t] # "served" ->
         /\ srv' = [Srv0 EXCEPT !.pc = "check", !.req = t, !.cur = t]
         /\ UNCHANGED <<pc, call, loc>>
    [] OTHER -> srv' = Srv0 /\ Return(t)

(* wfusync_set_event, wfusync_reset_event, wfusync_release_semaphore and   *)
(* wfusync_release_mutex of server/wfusync.c.                              *)
server_signal ==
  /\ srv.pc = "signal" /\ ~word[srv.obj].locked
  /\ LET t == srv.req
         o == srv.obj
         l == [loc[t] EXCEPT !.ret = IF call[t].what = "sigwait" THEN "half" ELSE "success"]
     IN \/ /\ Refused(t)
           /\ IF call[t].what = "sigwait"
                THEN /\ srv' = [srv EXCEPT !.pc = "remove", !.i = 1]
                     /\ SetLoc(t, [loc[t] EXCEPT !.ret = "error"]) /\ UNCHANGED <<pc, call>>
                ELSE srv' = Srv0 /\ Finish(t, "error")
           /\ UNCHANGED word
        \/ /\ ~Refused(t)
           /\ word' = [word EXCEPT ![o] = Released(t)]
           /\ SetLoc(t, l) /\ UNCHANGED <<pc, call>>
           /\ srv' = IF Event(o) /\ call[t].what # "reset" THEN [srv EXCEPT !.pc = "multi"]
                     ELSE IF Event(o) \/ ReleaseWakes(t) THEN Rescan
                     ELSE [srv EXCEPT !.pc = "done"]
  /\ UNCHANGED <<queue, Registry>> /\ ServerOnly

(* wake_waiters_for_object: the slot of everyone registered on srv.obj.    *)
(* An event does this before wake_up, the others after it.                 *)
wake_waiters_for_object ==
  /\ srv.pc = "multi"
  /\ slot' = [t \in Threads |-> IF srv.obj \in reg[t] THEN 0 ELSE slot[t]]
  /\ srv' = IF Event(srv.obj) THEN Rescan ELSE [srv EXCEPT !.pc = "done"]
  /\ UNCHANGED <<word, client, queue, reg>>

(* Mutant: release_mutex does not call wfusync_wake_waiters either.        *)
ScanDone_no_multi == srv' = [srv EXCEPT !.pc = "done"]

(* wake_up is through.  mutex_signal, the signal operation of              *)
(* SignalObjectAndWait, does not call wfusync_wake_waiters.                *)
ScanDone ==
  srv' = [srv EXCEPT !.pc = IF Event(srv.obj) \/ (Mutex(srv.obj) /\ call[srv.req].what = "sigwait")
                              THEN "done" ELSE "multi"]

wake_up ==
  /\ srv.pc = "scan"
  /\ IF srv.pos > Len(queue[srv.obj]) THEN ScanDone
     ELSE srv' = [srv EXCEPT !.pc = "check", !.i = 1, !.ok = TRUE, !.cur = queue[srv.obj][srv.pos]]
  /\ UNCHANGED <<word, client, queue, Registry>>

signal_done ==
  /\ srv.pc = "done"
  /\ SignalDone
  /\ UNCHANGED <<word, queue, Registry>> /\ ServerOnly

(* Mutant: the walk over the mutexes ends at the first that is abandoned.  *)
LaterMutexes_none == IF srv.obj # 0 THEN {} ELSE {o \in Objs : Mutex(o)}

LaterMutexes == {o \in Objs : Mutex(o) /\ o > srv.obj}

(* abandon_mutexes: wfusync_abandon_mutex of every mutex in turn, each     *)
(* followed by wake_up and wfusync_wake_waiters if t owned it.             *)
abandon_mutexes ==
  LET t == srv.req
      o == Min(LaterMutexes)
  IN /\ srv.pc = "abandon"
     /\ \/ /\ LaterMutexes = {}
           /\ srv' = Srv0 /\ Goto(t, "dead") /\ UNCHANGED word
        \/ /\ LaterMutexes # {} /\ ~word[o].locked
           /\ IF W(KindOf[o])!Owns(word[o], t)
                THEN /\ word' = [word EXCEPT ![o] = W(KindOf[o])!Abandoned(@, t)]
                     /\ srv' = [Rescan EXCEPT !.obj = o, !.max = 0]
                ELSE srv' = [srv EXCEPT !.obj = o] /\ UNCHANGED word
           /\ UNCHANGED pc
     /\ UNCHANGED <<call, loc, queue, Registry>> /\ ServerOnly

(* wake_wfusync_waiters, the request of a thread that found MULTI_WAITERS. *)
wake_wfusync_waiters(t) ==
  /\ srv.pc = "idle" /\ pc[t] = "notify"
  /\ slot' = [u \in Threads |-> IF call[t].obj \in reg[u] THEN 0 ELSE slot[u]]
  /\ Return(t)
  /\ UNCHANGED <<word, srv, queue, reg>> /\ ServerOnly

-----------------------------------------------------------------------------
(* wineserver: registration of slots.                                      *)

(* The request of srv.req has been answered: the thread goes on with l.    *)
Answer(where, l) == /\ srv' = Srv0
                    /\ Goto(srv.req, where) /\ SetLoc(srv.req, l) /\ UNCHANGED call

(* register_wfusync_wait, unregister_wfusync_wait and try_wait_all_wfusync *)
(* start.  try_wait_all_wfusync drops an older registration of the slot.   *)
start_slot_request(t) ==
  /\ srv.pc = "idle" /\ pc[t] \in {"register", "unregister", "tryall"}
  /\ srv' = [Srv0 EXCEPT !.req = t,
                         !.pc = CASE pc[t] = "register" -> "arm"
                                  [] pc[t] = "tryall" /\ call[t].timeout = "zero" -> "guard"
                                  [] OTHER -> "unregister",
                         !.todo = IF pc[t] = "register" THEN Range(call[t].objs) ELSE {}]
  /\ UNCHANGED <<word, client, queue, Registry>>

(* wfusync_register_wait: the slot is armed,                               *)
arm_slot ==
  /\ srv.pc = "arm"
  /\ slot' = [slot EXCEPT ![srv.req] = 1]
  /\ srv' = [srv EXCEPT !.pc = "flag"]
  /\ UNCHANGED <<word, client, queue, reg>>

(* add_multi_waiter of each object,                                        *)
add_multi_waiter ==
  /\ srv.pc = "flag"
  /\ LET t == srv.req
         o == Min(srv.todo \ reg[t])
     IN /\ reg' = [reg EXCEPT ![t] = @ \cup {o}]
        /\ word' = [word EXCEPT ![o].multi = TRUE]
        /\ srv' = IF srv.todo \subseteq reg[t] \cup {o} THEN [srv EXCEPT !.pc = "regcheck"] ELSE srv
  /\ UNCHANGED <<client, queue, slot>>

(* The wait may begin: WaitAll got STATUS_PENDING.                         *)
Registered ==
  LET t == srv.req IN
  Answer(IF call[t].what = "waitall" THEN "sleep" ELSE "any_check", [loc[t] EXCEPT !.i = 1, !.phase = 2])

(* Mutant: only the first object is looked at.                             *)
LastToCheck_first(o) == TRUE

LastToCheck(o) == srv.todo = {o}

(* and wake_wait_slot if one of them is signaled already.                  *)
register_check ==
  /\ srv.pc = "regcheck"
  /\ LET o == Min(srv.todo) IN
     IF StateSignaled(o) THEN slot' = [slot EXCEPT ![srv.req] = 0] /\ Registered
     ELSE IF LastToCheck(o) THEN Registered /\ UNCHANGED slot
     ELSE srv' = [srv EXCEPT !.todo = @ \ {o}] /\ UNCHANGED <<pc, call, loc, slot>>
  /\ UNCHANGED <<word, queue, reg>> /\ ServerOnly

(* Mutant: MULTI_WAITERS goes with the first registration that ends.       *)
StillMulti_never(o, t) == FALSE

StillMulti(o, t) == \E u \in Threads \ {t} : o \in reg[u]

(* remove_waiter, with remove_multi_waiter of each object.                 *)
remove_multi_waiter ==
  /\ srv.pc = "unregister" /\ reg[srv.req] # {}
  /\ LET t == srv.req
         o == Min(reg[t])
     IN /\ reg' = [reg EXCEPT ![t] = @ \ {o}]
        /\ word' = [word EXCEPT ![o].multi = StillMulti(o, t)]
  /\ UNCHANGED <<client, srv, queue, slot>>

(* ... then wake_wait_slot.  try_wait_all_wfusync goes on to its attempts; *)
(* a thread that asked to be unregistered knows why.                       *)
unregistered ==
  /\ srv.pc = "unregister" /\ reg[srv.req] = {}
  /\ slot' = [slot EXCEPT ![srv.req] = 0]
  /\ LET t == srv.req IN
     CASE pc[t] = "tryall" -> srv' = [srv EXCEPT !.pc = "guard"] /\ UNCHANGED <<pc, call, loc>>
       [] pc[t] # "tryall" /\ loc[t].ret = "woken" -> Answer("any_check", [loc[t] EXCEPT !.phase = 3, !.ret = "none"])
       [] pc[t] # "tryall" /\ loc[t].ret = "bail" -> srv' = Srv0 /\ Fallback(t)
       [] OTHER -> srv' = Srv0 /\ Return(t)
  /\ UNCHANGED <<word, queue, reg>> /\ ServerOnly

-----------------------------------------------------------------------------
(* wineserver: try_wait_all_wfusync.                                       *)

GObj == WObj(srv.req, srv.i)
Stale(o) == word[o].generation # loc[srv.req].gens[o]
SrvNext(pcs) == [srv EXCEPT !.i = 1, !.pc = pcs]

(* Mutant: the guard goes up although a thread holds the word.             *)
GuardRefused_unlocked(o) == word[o].server \/ Stale(o)

GuardRefused(o) == word[o].locked \/ word[o].server \/ Stale(o)

(* wfusync_try_wait_all: SERVER_WAITERS goes up on every object, if it is  *)
(* neither locked nor flagged,                                             *)
guard ==
  /\ srv.pc = "guard"
  /\ IF GuardRefused(GObj)
       THEN srv' = [SrvNext("unguard") EXCEPT !.ret = "bail"] /\ UNCHANGED word
       ELSE /\ word' = [word EXCEPT ![GObj].server = TRUE]
            /\ srv' = [(IF srv.i = Count(srv.req) THEN SrvNext("probe") ELSE [srv EXCEPT !.i = @ + 1])
                       EXCEPT !.guarded = @ + 1]
  /\ UNCHANGED <<client, queue, Registry>>

(* every object is looked at,                                              *)
probe ==
  /\ srv.pc = "probe"
  /\ srv' = CASE ~Signaled(GObj, srv.req) -> [SrvNext("unguard") EXCEPT !.ret = "timeout"]
              [] Signaled(GObj, srv.req) /\ Full(GObj, srv.req) -> [SrvNext("unguard") EXCEPT !.ret = "bail"]
              [] OTHER -> IF srv.i = Count(srv.req) THEN SrvNext("take") ELSE [srv EXCEPT !.i = @ + 1]
  /\ UNCHANGED <<word, client, queue, Registry>>

(* every object is taken,                                                  *)
server_take ==
  /\ srv.pc = "take"
  /\ word' = [word EXCEPT ![GObj] = Consumed(GObj, srv.req)]
  /\ SetLoc(srv.req, [loc[srv.req] EXCEPT !.ret = Worse(@, ConsumedStatus(GObj))])
  /\ srv' = IF srv.i = Count(srv.req) THEN [SrvNext("unguard") EXCEPT !.ret = "success"]
            ELSE [srv EXCEPT !.i = @ + 1]
  /\ UNCHANGED <<pc, call, queue, Registry>> /\ ServerOnly

(* and the guards come down.                                               *)
unguard ==
  /\ srv.pc = "unguard" /\ srv.i <= srv.guarded
  /\ word' = [word EXCEPT ![GObj].server = FALSE]
  /\ srv' = [srv EXCEPT !.i = @ + 1]
  /\ UNCHANGED <<client, queue, Registry>>

(* The handler goes on with the status of the attempt.                     *)
attempt_done ==
  /\ srv.pc = "unguard" /\ srv.i > srv.guarded
  /\ LET t == srv.req
         r == srv.ret
     IN CASE r = "success" /\ loc[t].ret = "abandoned" -> Answer("refresh", [loc[t] EXCEPT !.i = 1])
          [] r = "timeout" /\ call[t].timeout # "zero" ->
               srv' = [SrvNext("unsignaled") EXCEPT !.guarded = 0] /\ UNCHANGED <<pc, call, loc>>
          [] r = "bail" -> srv' = Srv0 /\ Fallback(t)
          [] OTHER -> srv' = Srv0 /\ Return(t)
  /\ UNCHANGED <<word, queue, Registry>> /\ ServerOnly

(* get_wait_all_unsignaled, without a guard.  The registration follows if  *)
(* there is such an object, else another attempt, four in all.             *)
get_wait_all_unsignaled ==
  /\ srv.pc = "unsignaled"
  /\ LET todo == IF Signaled(GObj, srv.req) THEN srv.todo ELSE srv.todo \cup {GObj} IN
     IF GuardRefused(GObj)
       THEN srv' = Srv0 /\ Fallback(srv.req)
     ELSE IF srv.i < Count(srv.req)
       THEN srv' = [srv EXCEPT !.i = @ + 1, !.todo = todo] /\ UNCHANGED <<pc, call, loc>>
     ELSE IF todo # {} THEN srv' = [srv EXCEPT !.pc = "arm", !.todo = todo] /\ UNCHANGED <<pc, call, loc>>
     ELSE IF srv.tries = 3 THEN srv' = Srv0 /\ Fallback(srv.req)
     ELSE srv' = [SrvNext("guard") EXCEPT !.tries = @ + 1] /\ UNCHANGED <<pc, call, loc>>
  /\ UNCHANGED <<word, queue, Registry>> /\ ServerOnly

-----------------------------------------------------------------------------
ThreadStep(t) ==
  \/ return(t) \/ gather(t) \/ lock_all(t) \/ eval_all(t) \/ take_all(t) \/ unlock_all(t) \/ refresh_all(t)
  \/ any_check(t) \/ any_lock(t) \/ any_consume(t) \/ any_refresh(t)
  \/ wait_slot(t) \/ slot_woken(t)
  \/ signal_check(t) \/ signal_lock(t) \/ signal_write(t) \/ signal_multi(t)

ServerAccept(t) ==
  \/ select_on(t) \/ start_request(t) \/ start_slot_request(t) \/ wake_wfusync_waiters(t)

ServerStep ==
  \/ enqueue \/ check_wait \/ satisfied \/ end_wait
  \/ server_signal \/ wake_waiters_for_object \/ wake_up \/ signal_done \/ abandon_mutexes
  \/ arm_slot \/ add_multi_waiter \/ register_check \/ remove_multi_waiter \/ unregistered
  \/ guard \/ probe \/ server_take \/ unguard \/ attempt_done \/ get_wait_all_unsignaled

Next ==
  \/ \E t \in Threads : \/ Invoke(t) \/ ThreadStep(t) \/ wait_timeout(t) \/ wait_interrupted(t)
                        \/ ServerAccept(t) \/ thread_timeout(t)
  \/ ServerStep

Spec == Init /\ [][Next]_vars

-----------------------------------------------------------------------------
ClientPCs == {"idle", "return", "gather", "lock", "eval", "take", "unlock", "refresh", "tryall", "any_check",
              "any_lock", "any_consume", "any_refresh", "register", "unregister", "sleep", "asleep",
              "signal", "signal_lock", "signal_write", "signal_multi", "notify",
              "request", "queued", "served", "dead"}
ServerPCs == {"idle", "enqueue", "check", "satisfy", "remove", "signal", "multi", "scan", "done",
              "abandon", "arm", "flag", "regcheck", "unregister", "guard", "probe", "take",
              "unguard", "unsignaled"}
Rets == {"none", "success", "abandoned", "timeout", "bail", "woken", "half", "error"}

TypeOK ==
  /\ \A o \in Objs : word[o] \in W(KindOf[o])!Word
  /\ pc \in [Threads -> ClientPCs]
  /\ call \in [Threads -> Call \cup {NoCall}]
  /\ loc \in [Threads -> [i : Nat, try : {1, 2}, phase : 1..3, gens : [Objs -> Nat], ret : Rets]]
  /\ left \in [Threads -> Nat]
  /\ cache_gen \in [Objs -> Nat]
  /\ srv \in [pc : ServerPCs, req : Threads \cup {0}, cur : Threads \cup {0}, obj : Objs \cup {0},
              i : Nat, guarded : Nat, pos : Nat, max : Nat, tries : 0..3, ok : BOOLEAN,
              ret : Rets, todo : SUBSET Objs]
  /\ queue \in [Objs -> Seq(Threads)]
  /\ slot \in [Threads -> {0, 1}]
  /\ reg \in [Threads -> SUBSET Objs]

(* The words a thread holds STATE_LOCKED on, from the order in which it    *)
(* takes and releases them.                                                *)
Locked(t) ==
  CASE pc[t] = "lock" -> {Order(t)[i] : i \in 1..(loc[t].i - 1)}
    [] pc[t] = "unlock" -> {Order(t)[i] : i \in 1..loc[t].i}
    [] pc[t] \in {"eval", "take"} -> Range(call[t].objs)
    [] pc[t] = "any_consume" -> {At(t)}
    [] pc[t] = "signal_write" -> {call[t].obj}
    [] OTHER -> {}

(* The words wineserver works on in try_wait_all without locking them.     *)
Guarded == IF srv.pc \in {"probe", "take"} THEN Range(call[srv.req].objs)
           ELSE IF srv.pc = "guard" THEN {WObj(srv.req, i) : i \in 1..srv.guarded}
           ELSE IF srv.pc = "unguard" THEN {WObj(srv.req, i) : i \in srv.i..srv.guarded}
           ELSE {}

(* Two threads that hold several words share none, whatever orders they    *)
(* were asked for, nor does wineserver's guard cover a word a thread       *)
(* holds; and nobody forgets a lock on the way out.                        *)
WordsExclusive ==
  /\ \A t, u \in Threads : t # u => Locked(t) \cap Locked(u) = {}
  /\ \A t \in Threads : Locked(t) \cap Guarded = {}
  /\ \A o \in Objs : word[o].locked => \E t \in Threads : o \in Locked(t)

(* The objects a wait that wineserver has found satisfied will consume, or *)
(* a WaitAll in the middle of taking its objects will take next, are still *)
(* signaled for it.                                                        *)
ServerTakes == CASE srv.pc = "satisfy" /\ call[srv.cur].what = "waitall" ->
                      {WObj(srv.cur, i) : i \in srv.i..Count(srv.cur)}
                 [] srv.pc = "satisfy" /\ call[srv.cur].what # "waitall" -> {WObj(srv.cur, srv.i)}
                 [] srv.pc = "take" -> {WObj(srv.req, i) : i \in srv.i..Count(srv.req)}
                 [] OTHER -> {}
ServerTaker == IF srv.pc = "satisfy" THEN srv.cur ELSE srv.req
Takes(t) == IF pc[t] = "take" THEN {call[t].objs[i] : i \in loc[t].i..Count(t)} ELSE {}

TakenStillSignaled ==
  /\ \A o \in ServerTakes : Signaled(o, ServerTaker)
  /\ \A t \in Threads : \A o \in Takes(t) : Signaled(o, t)

(* A thread, or wineserver, is going to wake the slots registered on o.    *)
NotifyPending(o) ==
  \/ \E t \in Threads : pc[t] \in {"signal_multi", "notify"} /\ call[t].obj = o
  \/ srv.obj = o /\ IF Event(o) THEN srv.pc = "multi"
                    ELSE srv.pc \in {"scan", "check", "satisfy", "remove", "multi"}

(* Nobody who is registered sleeps while one of the objects named in the   *)
(* registration is signaled: the registration saw it, or whoever signaled  *)
(* it sees MULTI_WAITERS and tells wineserver.                             *)
NoLostSlotWake ==
  \A t \in Threads : \A o \in reg[t] :
    slot[t] = 1 /\ StateSignaled(o) =>
      NotifyPending(o) \/ (srv.req = t /\ srv.pc \in {"arm", "flag", "regcheck", "unregister"})

(* No call leaves a registration behind on any of its ways out, and        *)
(* MULTI_WAITERS, which sends every signal to wineserver, is up exactly    *)
(* while somebody is registered.                                           *)
NoLeakedRegistration ==
  /\ \A t \in Threads : pc[t] \in {"idle", "gather", "lock", "request", "queued", "return", "dead"} => reg[t] = {}
  /\ \A o \in Objs : word[o].multi <=> \E t \in Threads : o \in reg[t]

(* SERVER_WAITERS, which keeps all threads off a word, is up exactly while *)
(* somebody is queued on the object in wineserver or try_wait_all guards   *)
(* it.                                                                     *)
ServerFlagExact ==
  \A o \in Objs : word[o].server <=> queue[o] # <<>> \/ o \in Guarded

-----------------------------------------------------------------------------
(* The objects their callers see: what a WaitAll in the middle of taking   *)
(* its objects has not got to yet is gone already.                         *)
View(o) ==
  CASE o \in ServerTakes /\ call[ServerTaker].what = "waitall" -> Consumed(o, ServerTaker)
    [] \E t \in Threads : o \in Takes(t) -> Consumed(o, CHOOSE t \in Threads : o \in Takes(t))
    [] OTHER -> word[o]

(* ... and it has its status.                                              *)
TakeStatus(t, S) == IF loc[t].ret = "abandoned" \/ \E o \in S : ConsumedStatus(o) = "abandoned"
                      THEN "abandoned" ELSE "success"
Status(t) ==
  CASE pc[t] \in {"idle", "dead"} -> pc[t]
    [] pc[t] = "take" -> TakeStatus(t, Takes(t))
    [] ServerTakes # {} /\ ServerTaker = t /\ call[t].what = "waitall" -> TakeStatus(t, ServerTakes)
    [] OTHER -> IF loc[t].ret \in {"success", "abandoned", "error", "half"} THEN loc[t].ret
                ELSE "pending"

Nt == INSTANCE NtMulti WITH
        MaxCount <- [o \in Objs |-> InitWord[o][2]],
        InitCount <- [o \in Objs |-> InitWord[o][IF Mutex(o) THEN 2 ELSE 1]],
        InitOwner <- [o \in Objs |-> IF Mutex(o) THEN InitWord[o][1] ELSE 0],
        count <- [o \in Objs |-> IF Mutex(o) THEN View(o).high ELSE View(o).low],
        owner <- [o \in Objs |-> IF Mutex(o) /\ View(o).low > 0 THEN View(o).low ELSE 0],
        abandoned <- [o \in Objs |-> Mutex(o) /\ View(o).low < 0],
        asked <- call,
        status <- [t \in Threads |-> Status(t)]

(* Waits on several objects keep their promise on all paths: WaitAll takes *)
(* everything at one moment or nothing, WaitAny takes one object, no       *)
(* signal is lost or counted twice, and abandonment is told exactly once.  *)
NtSpec == Nt!Spec

-----------------------------------------------------------------------------
(* Fairness: a runnable thread runs, wineserver runs and serves whoever    *)
(* asks, and timers fire.  SF: of a thread's sleeps not every one is cut   *)
(* short by a signal.                                                      *)
Fairness ==
  /\ WF_vars(ServerStep)
  /\ \A t \in Threads : /\ WF_vars(ThreadStep(t)) /\ SF_vars(ServerAccept(t))
                        /\ WF_vars(thread_timeout(t)) /\ SF_vars(wait_timeout(t))

FairSpec == Spec /\ Fairness

(* No wait lasts for ever on objects that stay signaled for it, all of     *)
(* them for WaitAll, one for WaitAny.  A WaitAll without a timeout relies  *)
(* on being told: it does not look again after                             *)
(* WFUSYNC_BLOCKING_FALLBACK_NS.                                           *)
Satisfiable(t) ==
  LET S == Range(call[t].objs) IN
  \/ call[t].what = "waitall" /\ \A o \in S : Signaled(o, t)
  \/ call[t].what = "waitany" /\ \E o \in S : Signaled(o, t)

NoMultiWaitStuck == \A t \in Threads : []<>~Satisfiable(t)

(* Threads that lock several words, and wineserver, which spins on every   *)
(* one of them, do not block each other.                                   *)
LocksObtained ==
  /\ \A t \in Threads : pc[t] \in {"lock", "any_lock", "signal_lock"} ~> pc[t] \notin {"lock", "any_lock", "signal_lock"}
  /\ srv.pc # "idle" ~> srv.pc = "idle"
=============================================================================
