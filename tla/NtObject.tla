----------------------------- MODULE NtObject -----------------------------
(***************************************************************************)
(* What an event, semaphore or mutex promises its callers: the object as   *)
(* wineserver keeps it when WFUSync is off (struct event_sync,             *)
(* semaphore_sync and mutex_sync without a wfusync).  Every operation      *)
(* takes effect in one step between its call and its return, and only a    *)
(* wait may return without an effect.                                      *)
(***************************************************************************)
EXTENDS Integers

CONSTANTS Kind, Threads, UlongSize, MaxCount, InitCount, InitOwner

VARIABLES count,     \* event->signaled, sem->count or mutex->count
          owner,     \* mutex->owner, 0 for none
          abandoned, \* mutex->abandoned
          closed,    \* the last handle has been closed
          asked,     \* asked[t]: t's call, <<what, n>>
          status     \* status[t]: what has become of it

object == <<count, owner, abandoned>>
vars == <<object, closed, asked, status>>

Finished == {"success", "abandoned", "error"}
Asked == {"none", "wait", "signal", "reset", "pulse", "tryall", "exit"} \X Nat

Event == Kind \in {"auto", "manual"}
Mutex == Kind = "mutex"

Init == /\ count = InitCount /\ owner = InitOwner /\ abandoned = FALSE
        /\ closed = FALSE
        /\ asked = [t \in Threads |-> <<"none", 0>>]
        /\ status = [t \in Threads |-> "idle"]

(* The signaled operations of the three objects.                           *)
Signaled(t) == IF Mutex THEN count = 0 \/ owner = t ELSE count > 0

Pending(t, whats) == status[t] = "pending" /\ asked[t][1] \in whats
Become(t, s) == status' = [status EXCEPT ![t] = s] /\ UNCHANGED <<closed, asked>>

(* event_sync_satisfied, semaphore_sync_satisfied, mutex_sync_satisfied    *)
(* with do_grab.                                                           *)
Satisfied(t) ==
  /\ Pending(t, {"wait", "tryall"}) /\ Signaled(t)
  /\ count' = CASE Kind = "auto" -> 0 [] Kind = "manual" -> count
                [] Kind = "semaphore" -> count - 1 [] Mutex -> count + 1
  /\ owner' = IF Mutex THEN t ELSE owner
  /\ abandoned' = FALSE
  /\ Become(t, IF abandoned THEN "abandoned" ELSE "success")

(* event_sync_signal; PULSE_EVENT goes on to reset the event.              *)
Set(t) ==
  /\ Event /\ Pending(t, {"signal", "pulse"})
  /\ count' = 1
  /\ Become(t, IF asked[t][1] = "pulse" THEN "half" ELSE "success")
  /\ UNCHANGED <<owner, abandoned>>

Reset(t) ==
  /\ Event /\ (Pending(t, {"reset"}) \/ status[t] = "half")
  /\ count' = 0
  /\ Become(t, "success")
  /\ UNCHANGED <<owner, abandoned>>

(* release_semaphore.                                                      *)
Sum(n) == (count + n) % UlongSize

ReleaseSemaphore(t) ==
  LET sum == Sum(asked[t][2]) IN
  /\ Kind = "semaphore" /\ Pending(t, {"signal"})
  /\ IF sum < count \/ sum > MaxCount
       THEN Become(t, "error") /\ UNCHANGED count
       ELSE Become(t, "success") /\ count' = sum
  /\ UNCHANGED <<owner, abandoned>>

(* do_release.                                                             *)
ReleaseMutex(t) ==
  /\ Mutex /\ Pending(t, {"signal"})
  /\ IF count = 0 \/ owner # t
       THEN Become(t, "error") /\ UNCHANGED <<count, owner>>
       ELSE /\ Become(t, "success")
            /\ count' = count - 1
            /\ owner' = IF count = 1 THEN 0 ELSE owner
  /\ UNCHANGED abandoned

(* abandon_mutexes: the owner dies.                                        *)
Abandon(t) ==
  /\ Mutex /\ owner = t
  /\ count' = 0 /\ owner' = 0 /\ abandoned' = TRUE
  /\ UNCHANGED <<closed, asked, status>>

(* t turns to another call, or to none.                                    *)
Turn(t, s) ==
  /\ status' = [status EXCEPT ![t] = s]
  /\ asked' \in [Threads -> Asked] /\ \A u \in Threads \ {t} : asked'[u] = asked[u]
  /\ UNCHANGED <<object, closed>>

(* A call starts; it ends after its effect, or without one if it is a wait *)
(* that times out or if the object is gone.  A thread may die anywhere.    *)
Begin(t) == status[t] = "idle" /\ Turn(t, "pending")
End(t) == /\ \/ status[t] \in Finished
             \/ Pending(t, {"wait", "tryall"})
             \/ status[t] = "pending" /\ closed
          /\ Turn(t, "idle")
Die(t) == Become(t, "dead") /\ UNCHANGED object
Close == ~closed /\ closed' = TRUE /\ UNCHANGED <<object, asked, status>>

Next == \/ \E t \in Threads :
             \/ Begin(t) \/ End(t) \/ Satisfied(t) \/ Set(t) \/ Reset(t)
             \/ ReleaseSemaphore(t) \/ ReleaseMutex(t) \/ Abandon(t) \/ Die(t)
        \/ Close

Spec == Init /\ [][Next]_vars
=============================================================================
