---------------------------- MODULE OneTimeInit ----------------------------
(***************************************************************************)
(* What one-time initialization promises of each of its objects.  A        *)
(* synchronous initialiser runs alone, and another may try after it        *)
(* failed; asynchronous ones run together and the first to finish decides. *)
(* After a success nobody starts again and the outcome does not change.    *)
(***************************************************************************)
CONSTANTS Threads, Objects,
          ObjectOf   \* ObjectOf[t]: the object that thread t initialises

VARIABLES state,     \* state[o]: "new", "sync", "async" or "done"
          running,   \* the threads that initialise
          outcome    \* outcome[o]: who succeeded

Nobody == "nobody"

vars == <<state, running, outcome>>

Init == /\ state = [o \in Objects |-> "new"] /\ running = {}
        /\ outcome = [o \in Objects |-> Nobody]

Become(t, s) == state' = [state EXCEPT ![ObjectOf[t]] = s]
Others(t) == {u \in running \ {t} : ObjectOf[u] = ObjectOf[t]}

StartSync(t) == /\ state[ObjectOf[t]] = "new" /\ Others(t) = {} /\ Become(t, "sync")
                /\ running' = running \cup {t} /\ UNCHANGED outcome

StartAsync(t) == /\ state[ObjectOf[t]] \in {"new", "async"} /\ Become(t, "async")
                 /\ running' = running \cup {t} /\ UNCHANGED outcome

Succeed(t) == /\ state[ObjectOf[t]] \in {"sync", "async"} /\ Become(t, "done")
              /\ outcome[ObjectOf[t]] = Nobody /\ outcome' = [outcome EXCEPT ![ObjectOf[t]] = t]

FailSync(t) == state[ObjectOf[t]] = "sync" /\ Others(t) = {} /\ Become(t, "new") /\ UNCHANGED outcome

Late(t) == state[ObjectOf[t]] = "done" /\ UNCHANGED <<state, outcome>>

Finish(t) == t \in running /\ running' = running \ {t} /\ (Succeed(t) \/ FailSync(t) \/ Late(t))

Next == \E t \in Threads : (t \notin running /\ (StartSync(t) \/ StartAsync(t))) \/ Finish(t)

Spec == Init /\ [][Next]_vars
====
