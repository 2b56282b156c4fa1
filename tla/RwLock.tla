------------------------------- MODULE RwLock -------------------------------
(***************************************************************************)
(* What a lock with shared and exclusive owners promises: an exclusive     *)
(* owner is the only one.  A thread that has the lock exclusively may be   *)
(* granted more; it gives back as often as it was granted.                 *)
(***************************************************************************)
EXTENDS Naturals

CONSTANTS Threads

VARIABLE held  \* held[t]: how t has the lock, and how often

Free == [mode |-> "none", depth |-> 0]

vars == held

Init == held = [t \in Threads |-> Free]

Others(t, modes) == \E u \in Threads \ {t} : held[u].mode \in modes

Exclusive(t) == /\ ~Others(t, {"shared", "exclusive"}) /\ held[t].mode # "shared"
                /\ held' = [held EXCEPT ![t] = [mode |-> "exclusive", depth |-> @.depth + 1]]

Shared(t) == /\ ~Others(t, {"exclusive"})
             /\ held' = [held EXCEPT ![t] =
                  [mode |-> IF @.mode = "exclusive" THEN "exclusive" ELSE "shared", depth |-> @.depth + 1]]

Release(t) == /\ held[t].depth > 0
              /\ held' = [held EXCEPT ![t] =
                   IF @.depth = 1 THEN Free ELSE [mode |-> @.mode, depth |-> @.depth - 1]]

Next == \E t \in Threads : Exclusive(t) \/ Shared(t) \/ Release(t)

Spec == Init /\ [][Next]_vars
====
