------------------------------ MODULE NtMulti ------------------------------
(***************************************************************************)
(* What waits on several events, semaphores and mutexes promise: WaitAll   *)
(* takes all of its objects in one step or none, WaitAny exactly one, and  *)
(* SignalObjectAndWait signals before it waits.  The objects are those     *)
(* wineserver keeps when WFUSync is off (event.c, semaphore.c, mutex.c).   *)
(* A wait may end without an effect, nothing else may.                     *)
(***************************************************************************)
EXTENDS Integers, Sequences

CONSTANTS Objs, KindOf, Threads, UlongSize, MaxCount, InitCount, InitOwner

VARIABLES count,     \* count[o]: event->signaled, sem->count or mutex->count
          owner,     \* owner[o]: mutex->owner, 0 for none
          abandoned, \* abandoned[o]: mutex->abandoned
          asked,     \* asked[t]: t's call, as in WfuMulti
          status     \* status[t]: what has become of it

object == <<count, owner, abandoned>>
vars == <<object, asked, status>>

Mutex(o) == KindOf[o] = "mutex"
Event(o) == KindOf[o] \in {"auto", "manual"}
Finished == {"success", "abandoned", "error"}

Init == /\ count = InitCount /\ owner = InitOwner
        /\ abandoned = [o \in Objs |-> FALSE]
        /\ status = [t \in Threads |-> "idle"]

Signaled(o, t) == IF Mutex(o) THEN count[o] = 0 \/ owner[o] = t ELSE count[o] > 0
Become(t, s) == status' = [status EXCEPT ![t] = s] /\ UNCHANGED asked

(* The satisfied operations of the objects in S, for thread t.             *)
Take(S, t) ==
  /\ \A o \in S : Signaled(o, t)
  /\ count' = [o \in Objs |-> IF o \notin S THEN count[o]
                              ELSE CASE KindOf[o] = "auto" -> 0
                                     [] KindOf[o] = "manual" -> count[o]
                                     [] KindOf[o] = "semaphore" -> count[o] - 1
                                     [] Mutex(o) -> count[o] + 1]
  /\ owner' = [o \in Objs |-> IF o \in S /\ Mutex(o) THEN t ELSE owner[o]]
  /\ abandoned' = [o \in Objs |-> abandoned[o] /\ o \notin S]
  /\ Become(t, IF \E o \in S : abandoned[o] THEN "abandoned" ELSE "success")

Waited(t) == {asked[t].objs[i] : i \in DOMAIN asked[t].objs}

WaitAll(t) == status[t] = "pending" /\ asked[t].what = "waitall" /\ Take(Waited(t), t)
WaitAny(t) == /\ \/ status[t] = "pending" /\ asked[t].what = "waitany"
                 \/ status[t] = "half"
              /\ \E o \in Waited(t) : Take({o}, t)

Sum(o, n) == (count[o] + n) % UlongSize

Refused(t, o) ==
  CASE Event(o) -> FALSE
    [] KindOf[o] = "semaphore" -> Sum(o, asked[t].n) < count[o] \/ Sum(o, asked[t].n) > MaxCount[o]
    [] Mutex(o) -> count[o] = 0 \/ owner[o] # t

(* SetEvent, ResetEvent, ReleaseSemaphore, ReleaseMutant.                  *)
Signal(t) ==
  LET o == asked[t].obj IN
  /\ status[t] = "pending" /\ asked[t].what \in {"signal", "sigwait", "reset"}
  /\ IF Refused(t, o) THEN Become(t, "error") /\ UNCHANGED object
     ELSE /\ count' = [count EXCEPT ![o] = CASE asked[t].what = "reset" -> 0
                                             [] asked[t].what # "reset" /\ Event(o) -> 1
                                             [] KindOf[o] = "semaphore" -> Sum(o, asked[t].n)
                                             [] Mutex(o) -> @ - 1]
          /\ owner' = IF Mutex(o) /\ count[o] = 1 THEN [owner EXCEPT ![o] = 0] ELSE owner
          /\ Become(t, IF asked[t].what = "sigwait" THEN "half" ELSE "success")
          /\ UNCHANGED abandoned

(* abandon_mutexes.                                                        *)
Abandon(t, o) ==
  /\ status[t] = "pending" /\ asked[t].what = "exit" /\ Mutex(o) /\ owner[o] = t
  /\ count' = [count EXCEPT ![o] = 0]
  /\ owner' = [owner EXCEPT ![o] = 0]
  /\ abandoned' = [abandoned EXCEPT ![o] = TRUE]
  /\ UNCHANGED <<asked, status>>

(* t turns to another call, or to none.                                    *)
Turn(t, s) ==
  /\ status' = [status EXCEPT ![t] = s]
  /\ \A u \in Threads \ {t} : asked'[u] = asked[u]
  /\ UNCHANGED object

Begin(t) == status[t] = "idle" /\ Turn(t, "pending")
End(t) == /\ \/ status[t] \in Finished \cup {"half"}
             \/ status[t] = "pending" /\ asked[t].what \in {"waitall", "waitany"}
          /\ Turn(t, "idle")
(* The thread is gone once nothing is left for it to abandon.              *)
Die(t) == /\ status[t] = "pending" /\ asked[t].what = "exit" /\ \A o \in Objs : owner[o] # t
          /\ Become(t, "dead") /\ UNCHANGED object

Next == \E t \in Threads :
          \/ Begin(t) \/ End(t) \/ WaitAll(t) \/ WaitAny(t) \/ Signal(t) \/ Die(t)
          \/ \E o \in Objs : Abandon(t, o)

Spec == Init /\ [][Next]_vars
=============================================================================
