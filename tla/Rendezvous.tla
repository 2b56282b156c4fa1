---------------------------- MODULE Rendezvous -----------------------------
(***************************************************************************)
(* What a barrier promises, round after round: nobody leaves a round       *)
(* before all have arrived at it, and exactly one is told that it was the  *)
(* last.                                                                   *)
(***************************************************************************)
EXTENDS Naturals

CONSTANTS Threads

VARIABLES arrived,   \* arrived[t]: the rounds that t has arrived at
          gone,      \* gone[t]: the rounds that t has left
          leaders    \* the rounds whose leader has left

vars == <<arrived, gone, leaders>>

Init == arrived = [t \in Threads |-> 0] /\ gone = arrived /\ leaders = {}

Arrive(t) == /\ arrived[t] = gone[t]
             /\ arrived' = [arrived EXCEPT ![t] = @ + 1] /\ UNCHANGED <<gone, leaders>>

(* The last to leave a round sees to it that the round had a leader.       *)
Depart(t) ==
  LET r == arrived[t] IN
  /\ gone[t] < r
  /\ \A u \in Threads : arrived[u] >= r
  /\ \/ r \notin leaders /\ leaders' = leaders \cup {r}
     \/ leaders' = leaders
  /\ (\A u \in Threads \ {t} : gone[u] >= r) => r \in leaders'
  /\ gone' = [gone EXCEPT ![t] = r] /\ UNCHANGED arrived

Next == \E t \in Threads : Arrive(t) \/ Depart(t)

Spec == Init /\ [][Next]_vars
====
