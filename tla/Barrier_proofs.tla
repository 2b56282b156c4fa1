--------------------------- MODULE Barrier_proofs ---------------------------
(***************************************************************************)
(* Proofs that RtlBarrier is a barrier, round after round, and that        *)
(* RtlDeleteBarrier returns only when nobody uses the structure any more,  *)
(* for any number of threads and rounds.                                   *)
(***************************************************************************)
EXTENDS Barrier, FiniteSetTheorems, TLAPS

-----------------------------------------------------------------------------
(* The inductive invariant.  Who is queued on which address decides only   *)
(* when a thread looks again, so the queue is no part of it.               *)

Previous == {"previous", "previous_wait", "previous_sleep"}
Gathered == {"check", "check_wait", "check_sleep"}
Released == {"set_complete", "wake_complete", "leave"}
Resets == {"reset_complete", "reset_reached"}
Afters == {"wake_reached", "unlock", "wake_unlocked"}
Deleting == {"complain", "read_lock", "lock_wait", "lock_sleep", "end"}
Outside == {"idle"} \cup Deleting

At(S) == {t \in Threads : pc[t] \in S}

Types ==
  /\ reached_thread_count \in Nat /\ structure_lock_count \in Int /\ waiting_thread_count \in Int
  /\ pc \in [Threads -> Labels] /\ ret \in [Threads -> BOOLEAN] /\ deleted \in BOOLEAN
  /\ entered \in [Threads -> 0 .. Rounds] /\ returned \in [Threads -> Int]
  /\ leaders \subseteq Nat

(* What a thread has seen, and who deletes.                                *)
CallAt(t) ==
  /\ returned[t] = IF pc[t] \in Outside THEN entered[t] ELSE entered[t] - 1
  /\ pc[t] \notin Outside => entered[t] >= 1
  /\ pc[t] \in Deleting => t \in Deleter /\ entered[t] = Rounds
  /\ pc[t] \in Gathered => ~ret[t]
CallOK == \A t \in Threads : CallAt(t)

(* structure_lock_count counts who is inside the structure.                *)
Within == At(Labels \ (Outside \cup {"wake_unlocked"}))
LockOK == structure_lock_count = IF Flag THEN Cardinality(Within) ELSE 0

(* The rounds up to c are complete; the leader of round c has returned, or *)
(* is the one thread that is about to.                                     *)
Leading == {t \in At(Released \cup Resets \cup Afters) : ret[t]}
LeaderOK(c) ==
  /\ \A i \in leaders : i <= c
  /\ \/ Leading = {} /\ (c = 0 \/ c \in leaders)
     \/ c \notin leaders /\ \E t \in Threads : Leading = {t}

(* Threads gather for round r, and those of round r - 1 may still be on    *)
(* their way out.                                                          *)
GatheringAt(t, r) ==
  /\ pc[t] \notin Released \cup Resets
  /\ entered[t] = IF pc[t] \in Outside \cup Afters THEN r - 1 ELSE r
Gathering(r) ==
  /\ reached_thread_count < total_thread_count /\ reached_thread_count = Cardinality(At(Gathered))
  /\ waiting_thread_count = Cardinality(At(Gathered \cup {"reach"}))
  /\ \A t \in Threads : GatheringAt(t, r)
  /\ LeaderOK(r - 1)

(* All have reached round r, and leave it one after the other; those that  *)
(* have left may have come again.                                          *)
CompleteAt(t, r) ==
  /\ pc[t] \notin {"wait_count", "reach"}
  /\ entered[t] = IF pc[t] \in Previous THEN r + 1 ELSE r
Complete(r) ==
  /\ reached_thread_count = total_thread_count
  /\ waiting_thread_count = Cardinality(At(Gathered \cup Released))
  /\ \/ waiting_thread_count # 0 /\ At(Resets) = {}
     \/ waiting_thread_count = 0 /\ \E t \in Threads : At(Resets) = {t}
  /\ \A t \in Threads : CompleteAt(t, r)
  /\ LeaderOK(r)

RoundOK == \E r \in 1 .. Rounds + 1 : Gathering(r) \/ Complete(r)

(* The program deletes the barrier once.                                   *)
OneDeleter == \A t, u \in Deleter : t = u
DeletedOK == OneDeleter => NoUseAfterDelete

BInv == Types /\ CallOK /\ LockOK /\ DeletedOK /\ RoundOK

-----------------------------------------------------------------------------
(* Counting.                                                               *)

LEMMA Count ==
  ASSUME Assumptions, NEW A, A \subseteq Threads
  PROVE  /\ IsFiniteSet(A) /\ Cardinality(A) \in Nat /\ (Cardinality(A) = 0 <=> A = {})
         /\ \A t \in Threads \ A : Cardinality(A \cup {t}) = Cardinality(A) + 1
         /\ \A t \in A : Cardinality(A \ {t}) = Cardinality(A) - 1
         /\ Cardinality(A) <= total_thread_count /\ (Cardinality(A) = total_thread_count => A = Threads)
         /\ total_thread_count \in Nat \ {0}
  <1>1. IsFiniteSet(Threads) /\ Threads # {} BY DEF Assumptions, ThreadsAssumption
  <1>2. IsFiniteSet(A) BY <1>1, FS_Subset
  <1>3. Cardinality(A) \in Nat BY <1>2, FS_CardinalityType
  <1>4. Cardinality(A) = 0 <=> A = {} BY <1>2, FS_EmptySet
  <1>5. \A t \in Threads \ A : Cardinality(A \cup {t}) = Cardinality(A) + 1 BY <1>2, FS_AddElement
  <1>6. \A t \in A : Cardinality(A \ {t}) = Cardinality(A) - 1 BY <1>2, FS_RemoveElement
  <1>7. Cardinality(A) <= Cardinality(Threads) /\ (Cardinality(A) = Cardinality(Threads) => A = Threads)
    BY <1>1, FS_Subset
  <1>8. Cardinality(Threads) \in Nat \ {0} BY <1>1, FS_CardinalityType, FS_EmptySet
  <1> QED BY <1>2, <1>3, <1>4, <1>5, <1>6, <1>7, <1>8 DEF total_thread_count

(* The threads at some places, when t goes from one label to another.      *)
LEMMA AtMoved ==
  ASSUME Assumptions, Types, NEW t \in Threads, NEW l, Goto(t, l), NEW S
  PROVE  /\ Cardinality(At(S)) \in Nat /\ Cardinality(At(S)') \in Nat
         /\ (Cardinality(At(S)) = 0 <=> At(S) = {})
         /\ pc[t] \notin S /\ l \in S => Cardinality(At(S)') = Cardinality(At(S)) + 1 /\ At(S)' = At(S) \cup {t}
         /\ pc[t] \in S /\ l \notin S => Cardinality(At(S)') = Cardinality(At(S)) - 1 /\ At(S)' = At(S) \ {t}
         /\ (pc[t] \in S <=> l \in S) => At(S)' = At(S)
         /\ t \in At(S) <=> pc[t] \in S
  <1>1. pc' = [pc EXCEPT ![t] = l] BY DEF Goto
  <1>2. \A u \in Threads : pc'[u] = IF u = t THEN l ELSE pc[u] BY <1>1 DEF Types
  <1>3. At(S) \subseteq Threads /\ At(S)' \subseteq Threads BY DEF At
  <1>4. l \in S => At(S)' = At(S) \cup {t} BY <1>2 DEF At
  <1>5. l \notin S => At(S)' = At(S) \ {t} BY <1>2 DEF At
  <1>6. t \in At(S) <=> pc[t] \in S BY DEF At
  <1>7. Cardinality(At(S)) \in Nat /\ Cardinality(At(S)') \in Nat /\ (Cardinality(At(S)) = 0 <=> At(S) = {}) BY <1>3, Count
  <1>8. t \notin At(S) => Cardinality(At(S) \cup {t}) = Cardinality(At(S)) + 1 BY <1>3, Count
  <1>9. t \in At(S) => Cardinality(At(S) \ {t}) = Cardinality(At(S)) - 1 BY <1>3, Count
  <1>10. (t \in At(S) => At(S) \cup {t} = At(S)) /\ (t \notin At(S) => At(S) \ {t} = At(S)) OBVIOUS
  <1> HIDE DEF At
  <1> QED BY <1>4, <1>5, <1>6, <1>7, <1>8, <1>9, <1>10

(* What a step of t leaves alone.                                          *)
Others(t) == \A u \in Threads \ {t} : pc'[u] = pc[u] /\ entered'[u] = entered[u] /\ returned'[u] = returned[u] /\ ret'[u] = ret[u]

(* The labels are apart.                                                   *)
LEMMA Apart ==
  /\ \A l \in Previous : l \notin Gathered \cup Released \cup Resets \cup Afters \cup Outside \cup {"wait_count", "reach"}
  /\ \A l \in Gathered : l \notin Released \cup Resets \cup Afters \cup Outside \cup {"wait_count", "reach"}
  /\ \A l \in Released : l \notin Resets \cup Afters \cup Outside \cup {"wait_count", "reach"}
  /\ \A l \in Resets : l \notin Afters \cup Outside \cup {"wait_count", "reach"}
  /\ \A l \in Afters : l \notin Outside \cup {"wait_count", "reach"}
  /\ "wait_count" \notin Outside /\ "reach" \notin Outside
  BY DEF Previous, Gathered, Released, Resets, Afters, Outside, Deleting

(* Everybody has come to the round of a thread that is not waiting to come *)
(* in or gathering.                                                        *)
LEMMA AllEntered ==
  ASSUME Assumptions, BInv, NEW t \in Threads, pc[t] \in Outside \cup Afters, NEW u \in Threads
  PROVE  entered[u] >= entered[t]
  <1>0. PICK r \in 1 .. Rounds + 1 : Gathering(r) \/ Complete(r) BY DEF BInv, RoundOK
  <1>1. entered[t] \in Nat /\ entered[u] \in Nat /\ Rounds \in Nat BY DEF BInv, Types, Assumptions, RoundsAssumption
  <1>2. CASE Gathering(r)
    <2>1. GatheringAt(t, r) /\ GatheringAt(u, r) BY <1>2 DEF Gathering
    <2> QED BY <1>1, <2>1 DEF GatheringAt
  <1>3. CASE Complete(r)
    <2>1. CompleteAt(t, r) /\ CompleteAt(u, r) BY <1>3 DEF Complete
    <2>2. pc[t] \notin Previous BY Apart
    <2> QED BY <1>1, <2>1, <2>2 DEF CompleteAt
  <1> QED BY <1>0, <1>2, <1>3

-----------------------------------------------------------------------------
(* A thread that moves within a part of its call.                          *)

Parts == {Previous, Gathered, Released, Resets, {"wake_reached", "unlock"}, Outside}

Keeps == UNCHANGED <<reached_thread_count, structure_lock_count, waiting_thread_count, ret, entered, returned, leaders>>

LEMMA SameRound ==
  ASSUME Assumptions, BInv, NEW t \in Threads, NEW P \in Parts, pc[t] \in P, NEW l \in P, Goto(t, l), Keeps
  PROVE  RoundOK' /\ LockOK'
  <1>0. Types /\ pc' = [pc EXCEPT ![t] = l] BY DEF BInv, Goto
  <1>1. \A u \in Threads : pc'[u] = IF u = t THEN l ELSE pc[u] BY <1>0 DEF Types
  <1>2. \A S \in {Previous, Gathered, Released, Resets, Afters, Outside, {"wait_count", "reach"}, {"reach"}, {"wake_unlocked"}, Labels} :
          pc[t] \in S <=> l \in S
    BY Apart DEF Parts, Afters, Previous, Gathered, Released, Resets, Outside, Deleting, Labels
  <1>3. \A u \in Threads : \A S \in {Previous, Gathered, Released, Resets, Afters, Outside, {"wait_count", "reach"}, {"reach"}, {"wake_unlocked"}, Labels} :
          pc'[u] \in S <=> pc[u] \in S
    BY <1>1, <1>2
  <1>4. /\ At(Gathered)' = At(Gathered) /\ At(Gathered \cup {"reach"})' = At(Gathered \cup {"reach"})
        /\ At(Gathered \cup Released)' = At(Gathered \cup Released) /\ At(Resets)' = At(Resets)
        /\ At(Released \cup Resets \cup Afters)' = At(Released \cup Resets \cup Afters)
        /\ Within' = Within
    BY <1>3 DEF At, Within
  <1>5. Leading' = Leading BY <1>4 DEF Leading, Keeps
  <1>6. \A c : LeaderOK(c) => LeaderOK(c)' BY <1>5 DEF LeaderOK, Keeps
  <1>7. \A r : Gathering(r) => Gathering(r)'
    <2> SUFFICES ASSUME NEW r, Gathering(r) PROVE Gathering(r)' OBVIOUS
    <2>1. \A u \in Threads : GatheringAt(u, r)' BY <1>3 DEF Gathering, GatheringAt, Keeps
    <2>2. LeaderOK(r - 1)' BY <1>6 DEF Gathering
    <2> QED BY <1>4, <2>1, <2>2 DEF Gathering, Keeps
  <1>8. \A r : Complete(r) => Complete(r)'
    <2> SUFFICES ASSUME NEW r, Complete(r) PROVE Complete(r)' OBVIOUS
    <2>1. \A u \in Threads : CompleteAt(u, r)' BY <1>3 DEF Complete, CompleteAt, Keeps
    <2>2. LeaderOK(r)' BY <1>6 DEF Complete
    <2> QED BY <1>4, <2>1, <2>2 DEF Complete, Keeps
  <1> QED BY <1>4, <1>7, <1>8 DEF BInv, RoundOK, LockOK, Keeps

-----------------------------------------------------------------------------
(* Types, and what a thread has seen, step by step.                        *)

(* Steps within a part of the call.                                        *)
Inner(t) == \E P \in Parts : \E l \in P : pc[t] \in P /\ Goto(t, l) /\ Keeps

LEMMA WaitInner ==
  ASSUME NEW t \in Threads, RtlWaitOnAddress(t) \/ woken(t) \/ leave_wait(t)
  PROVE  Inner(t) /\ deleted' = deleted /\ pc[t] \in Previous \cup Gathered \cup {"lock_wait", "lock_sleep"}
         /\ (pc[t] \in {"lock_wait", "lock_sleep"} => \E l \in {"read_lock", "lock_sleep"} : Goto(t, l))
  <1>1. pc[t] \in {"previous_wait", "previous_sleep", "check_wait", "check_sleep", "lock_wait", "lock_sleep"}
    BY DEF RtlWaitOnAddress, woken, leave_wait, Waits, Sleepers, Sleep
  <1>2. Keeps /\ deleted' = deleted BY DEF RtlWaitOnAddress, woken, leave_wait, Keeps, fields, seen
  <1>3. Goto(t, Again[pc[t]]) \/ (pc[t] \in DOMAIN Waits /\ Goto(t, Sleep[pc[t]])) BY DEF RtlWaitOnAddress, woken, leave_wait
  <1>4. CASE pc[t] \in {"previous_wait", "previous_sleep"}
    <2>1. \E l \in Previous : Goto(t, l) BY <1>3, <1>4 DEF Again, Sleep, Waits, Previous
    <2> QED BY <1>2, <1>4, <2>1 DEF Inner, Parts, Previous
  <1>5. CASE pc[t] \in {"check_wait", "check_sleep"}
    <2>1. \E l \in Gathered : Goto(t, l) BY <1>3, <1>5 DEF Again, Sleep, Waits, Gathered
    <2> QED BY <1>2, <1>5, <2>1 DEF Inner, Parts, Gathered
  <1>6. CASE pc[t] \in {"lock_wait", "lock_sleep"}
    <2>1. \E l \in {"read_lock", "lock_sleep"} : Goto(t, l) BY <1>3, <1>6 DEF Again, Sleep, Waits
    <2> QED BY <1>2, <1>6, <2>1 DEF Inner, Parts, Outside, Deleting
  <1> QED BY <1>1, <1>4, <1>5, <1>6

(* The fields that the calls change.                                       *)
LEMMA NextTypes ==
  ASSUME Assumptions, Types, NEW t \in Threads, Step(t) \/ leave_wait(t)
  PROVE  Types'
  <1>1. Rounds \in Nat BY DEF Assumptions, RoundsAssumption
  <1>2. /\ reached_thread_count \in Nat /\ structure_lock_count \in Int /\ waiting_thread_count \in Int
        /\ pc \in [Threads -> Labels] /\ ret \in [Threads -> BOOLEAN] /\ deleted \in BOOLEAN
        /\ entered \in [Threads -> 0 .. Rounds] /\ returned \in [Threads -> Int] /\ leaders \subseteq Nat
    BY DEF Types
  <1>3. ASSUME NEW l \in Labels, Goto(t, l) PROVE pc' \in [Threads -> Labels] BY <1>2, <1>3 DEF Goto
  <1>4. ASSUME Inner(t), deleted' = deleted PROVE Types'
    <2>1. PICK P \in Parts : \E l \in P : pc[t] \in P /\ Goto(t, l) /\ Keeps BY <1>4 DEF Inner
    <2>2. P \subseteq Labels
      BY DEF Parts, Previous, Gathered, Released, Resets, Outside, Deleting, Labels
    <2>3. pc' \in [Threads -> Labels] BY <1>3, <2>1, <2>2
    <2> QED BY <1>2, <1>4, <2>1, <2>3 DEF Keeps, Types
  <1>5. CASE enter(t)
    <2>1. pc' \in [Threads -> Labels] BY <1>3, <1>5 DEF enter, Labels
    <2>2. entered' \in [Threads -> 0 .. Rounds]
      <3>1. entered[t] + 1 \in 0 .. Rounds BY <1>1, <1>2, <1>5 DEF enter
      <3> QED BY <1>2, <1>5, <3>1 DEF enter
    <2>3. ret' \in [Threads -> BOOLEAN] BY <1>2, <1>5 DEF enter
    <2> QED BY <1>2, <1>5, <2>1, <2>2, <2>3 DEF enter, Types
  <1>6. CASE previous(t) \/ set_complete(t) \/ wake_complete(t) \/ check(t) \/ reset_complete(t) \/ wake_reached(t)
    <2>1. pc' \in [Threads -> Labels]
      BY <1>3, <1>6 DEF previous, set_complete, wake_complete, check, reset_complete, wake_reached, Move, Labels
    <2> QED BY <1>2, <1>6, <2>1 DEF previous, set_complete, wake_complete, check, reset_complete, wake_reached, fields, seen, Types
  <1>7. CASE wait_count(t) \/ leave(t) \/ reset_reached(t)
    <2>1. pc' \in [Threads -> Labels] BY <1>3, <1>7 DEF wait_count, leave, reset_reached, Move, Labels
    <2>2. /\ reached_thread_count' \in Nat /\ waiting_thread_count' \in Int
          /\ UNCHANGED <<structure_lock_count, ret, deleted, entered, returned, leaders>>
      BY <1>2, <1>7 DEF wait_count, leave, reset_reached, seen
    <2> QED BY <1>2, <2>1, <2>2 DEF Types
  <1>8. CASE reach(t)
    <2>1. pc' \in [Threads -> Labels] BY <1>3, <1>8 DEF reach, Move, Labels
    <2>2. ret' \in [Threads -> BOOLEAN] BY <1>2, <1>8 DEF reach, AllReached
    <2>3. reached_thread_count' \in Nat /\ UNCHANGED <<structure_lock_count, waiting_thread_count, deleted, entered, returned, leaders>>
      BY <1>2, <1>8 DEF reach, seen
    <2> QED BY <1>2, <2>1, <2>2, <2>3 DEF Types
  <1>9. CASE unlock(t) \/ wake_unlocked(t)
    <2>1. pc' \in [Threads -> Labels] BY <1>3, <1>9 DEF unlock, wake_unlocked, Returns, Labels
    <2>2. returned' \in [Threads -> Int] /\ entered' = entered BY <1>2, <1>9 DEF unlock, wake_unlocked, Returns, seen
    <2>3. leaders' \subseteq Nat
      <3>1. entered[t] \in Nat BY <1>2
      <3> QED BY <1>2, <1>9, <3>1 DEF unlock, wake_unlocked, Returns, seen
    <2> QED BY <1>2, <1>9, <2>1, <2>2, <2>3 DEF unlock, wake_unlocked, fields, Types
  <1>10. CASE RtlDeleteBarrier(t)
    <2>1. pc' \in [Threads -> Labels] BY <1>3, <1>10 DEF RtlDeleteBarrier, delete_begin, complain, read_lock, Move, Labels
    <2>2. deleted' \in BOOLEAN BY <1>2, <1>10 DEF RtlDeleteBarrier, delete_begin, complain, read_lock
    <2> QED BY <1>2, <1>10, <2>1, <2>2 DEF RtlDeleteBarrier, delete_begin, complain, read_lock, fields, seen, Types
  <1>11. CASE RtlWaitOnAddress(t) \/ woken(t) \/ leave_wait(t) BY <1>4, <1>11, WaitInner
  <1> QED BY <1>5, <1>6, <1>7, <1>8, <1>9, <1>10, <1>11 DEF Step, RtlBarrier, Arriving, Leaving

LEMMA NextOthers ==
  ASSUME Types, NEW t \in Threads, Step(t) \/ leave_wait(t)
  PROVE  Others(t)
  <1>1. /\ pc \in [Threads -> Labels] /\ ret \in [Threads -> BOOLEAN]
        /\ entered \in [Threads -> 0 .. Rounds] /\ returned \in [Threads -> Int] BY DEF Types
  <1>2. CASE RtlWaitOnAddress(t) \/ woken(t) \/ leave_wait(t)
    <2>1. Inner(t) BY <1>2, WaitInner
    <2> QED BY <1>1, <2>1 DEF Inner, Keeps, Goto, Others
  <1>3. CASE enter(t) BY <1>1, <1>3 DEF enter, Goto, Others
  <1>4. CASE Arriving(t)
    BY <1>1, <1>4 DEF Arriving, previous, wait_count, reach, set_complete, wake_complete, check, Move, Goto, seen, Others
  <1>5. CASE Leaving(t)
    BY <1>1, <1>5 DEF Leaving, leave, reset_complete, reset_reached, wake_reached, unlock, wake_unlocked, Returns,
                      Move, Goto, seen, Others
  <1>6. CASE RtlDeleteBarrier(t)
    BY <1>1, <1>6 DEF RtlDeleteBarrier, delete_begin, complain, read_lock, Move, Goto, seen, Others
  <1> QED BY <1>2, <1>3, <1>4, <1>5, <1>6 DEF Step, RtlBarrier

LEMMA NextCall ==
  ASSUME Assumptions, BInv, NEW t \in Threads, Step(t) \/ leave_wait(t)
  PROVE  CallOK'
  <1>0. Types /\ Others(t) /\ CallAt(t) BY NextOthers DEF BInv, CallOK
  <1>1. /\ pc \in [Threads -> Labels] /\ ret \in [Threads -> BOOLEAN]
        /\ entered \in [Threads -> 0 .. Rounds] /\ returned \in [Threads -> Int] /\ Rounds \in Nat
        /\ entered[t] \in Nat /\ returned[t] \in Int
    BY <1>0 DEF Types, Assumptions, RoundsAssumption
  <1>2. ASSUME NEW u \in Threads \ {t} PROVE CallAt(u)'
    <2>1. CallAt(u) BY DEF BInv, CallOK
    <2> QED BY <1>0, <2>1 DEF CallAt, Others
  <1>3. ASSUME NEW l, Goto(t, l) PROVE pc'[t] = l BY <1>1, <1>3 DEF Goto
  (* A move within the call that sets nothing.                             *)
  <1>4. ASSUME NEW l, Goto(t, l), entered' = entered, returned' = returned, ret' = ret, pc[t] \notin Outside, l \notin Outside,
               l \in Gathered => pc[t] \in Gathered
        PROVE  CallAt(t)'
    <2>1. pc'[t] = l BY <1>3, <1>4
    <2>2. l \notin Deleting BY <1>4 DEF Outside
    <2> QED BY <1>0, <1>4, <2>1, <2>2 DEF CallAt
  <1>5. CallAt(t)'
    <2>1. CASE enter(t)
      <3>1. pc'[t] = "previous" /\ pc[t] = "idle" /\ entered'[t] = entered[t] + 1 /\ returned' = returned
        BY <1>1, <1>3, <2>1 DEF enter
      <3>2. pc[t] \in Outside /\ "previous" \notin Outside \cup Deleting \cup Gathered BY <3>1 DEF Outside, Deleting, Gathered
      <3> QED BY <1>0, <1>1, <3>1, <3>2 DEF CallAt
    <2>2. CASE previous(t) \/ wait_count(t) \/ set_complete(t) \/ wake_complete(t) \/ check(t)
      BY <1>4, <2>2 DEF previous, wait_count, set_complete, wake_complete, check, Move, seen, Outside, Deleting, Gathered
    <2>3. CASE reach(t)
      <3>1. PICK l \in {"set_complete", "check"} : Goto(t, l) /\ (l = "check" => ~AllReached(reached_thread_count + 1))
        BY <2>3 DEF reach, Move
      <3>2. pc'[t] = l /\ ret'[t] = AllReached(reached_thread_count + 1) BY <1>1, <1>3, <2>3, <3>1 DEF reach
      <3>3. entered' = entered /\ returned' = returned /\ pc[t] \notin Outside /\ l \notin Outside \cup Deleting
        BY <2>3 DEF reach, seen, Move, Outside, Deleting
      <3>4. l \in Gathered => l = "check" BY DEF Gathered
      <3> QED BY <1>0, <3>1, <3>2, <3>3, <3>4 DEF CallAt
    <2>4. CASE leave(t) \/ reset_complete(t) \/ reset_reached(t) \/ wake_reached(t)
      BY <1>4, <2>4 DEF leave, reset_complete, reset_reached, wake_reached, Move, seen, Outside, Deleting, Gathered
    <2>5. ASSUME Returns(t), pc[t] \in Afters PROVE CallAt(t)'
      <3>1. pc'[t] = "idle" /\ returned'[t] = entered[t] /\ entered' = entered BY <1>1, <1>3, <2>5 DEF Returns
      <3>2. "idle" \in Outside /\ "idle" \notin Deleting \cup Gathered BY DEF Outside, Deleting, Gathered
      <3> QED BY <3>1, <3>2 DEF CallAt
    <2>6. CASE unlock(t)
      <3>1. CASE Goto(t, "wake_unlocked") /\ UNCHANGED seen
        BY <1>4, <2>6, <3>1 DEF unlock, seen, Outside, Deleting, Gathered
      <3> QED BY <2>5, <2>6, <3>1 DEF unlock, Afters
    <2>7. CASE wake_unlocked(t) BY <2>5, <2>7 DEF wake_unlocked, Afters
    <2>8. ASSUME NEW l \in Deleting, Goto(t, l), pc[t] \in Outside, UNCHANGED seen, t \in Deleter, entered[t] = Rounds PROVE CallAt(t)'
      <3>1. pc'[t] = l BY <1>3, <2>8
      <3>2. l \in Outside /\ l \notin Gathered BY DEF Outside, Deleting, Gathered
      <3> QED BY <1>0, <2>8, <3>1, <3>2 DEF CallAt, seen
    <2>9. CASE delete_begin(t)
      <3>1. entered[t] = Rounds /\ pc[t] \in Outside BY <1>0, <2>9 DEF delete_begin, CallAt, Outside
      <3>2. \E l \in Deleting : Goto(t, l) BY <2>9 DEF delete_begin, Deleting
      <3> QED BY <2>8, <2>9, <3>1, <3>2 DEF delete_begin
    <2>10. CASE complain(t) \/ read_lock(t)
      <3>1. pc[t] \in Deleting BY <2>10 DEF complain, read_lock, Move, Deleting
      <3>2. \E l \in Deleting : Goto(t, l) BY <2>10 DEF complain, read_lock, Move, Deleting
      <3> QED BY <1>0, <2>8, <2>10, <3>1, <3>2 DEF complain, read_lock, CallAt, Outside
    <2>11. CASE RtlWaitOnAddress(t) \/ woken(t) \/ leave_wait(t)
      <3>1. PICK P \in Parts : \E l \in P : pc[t] \in P /\ Goto(t, l) /\ Keeps BY <2>11, WaitInner DEF Inner
      <3>2. PICK l \in P : pc[t] \in P /\ Goto(t, l) /\ Keeps BY <3>1
      <3>3. CASE P # Outside
        <4>1. pc[t] \notin Outside /\ l \notin Outside /\ (l \in Gathered => pc[t] \in Gathered)
          BY <3>2, <3>3, Apart DEF Parts, Outside, Deleting, Gathered, Previous, Released, Resets
        <4> QED BY <1>4, <3>2, <4>1 DEF Keeps
      <3>4. CASE P = Outside
        <4>1. pc[t] \in {"lock_wait", "lock_sleep"} BY <2>11, <3>2, <3>4, WaitInner, Apart
        <4>2. \E k \in Deleting : Goto(t, k) BY <2>11, <4>1, WaitInner DEF Deleting
        <4>3. pc[t] \in Deleting /\ pc[t] \in Outside BY <4>1 DEF Deleting, Outside
        <4> QED BY <1>0, <2>8, <3>2, <4>2, <4>3 DEF Keeps, seen, CallAt
      <3> QED BY <3>3, <3>4
    <2> QED BY <2>1, <2>2, <2>3, <2>4, <2>6, <2>7, <2>9, <2>10, <2>11 DEF Step, RtlBarrier, RtlDeleteBarrier, Arriving, Leaving
  <1> QED BY <1>2, <1>5 DEF CallOK

-----------------------------------------------------------------------------
(* The count of those inside, and the deletion.                            *)

LEMMA NextLock ==
  ASSUME Assumptions, BInv, NEW t \in Threads, Step(t) \/ leave_wait(t)
  PROVE  LockOK'
  <1> DEFINE W == Labels \ (Outside \cup {"wake_unlocked"})
  <1>0. Types /\ structure_lock_count \in Int /\ LockOK /\ Flag \in BOOLEAN BY DEF BInv, Types, Assumptions, DeleteAssumption
  <1>1. ASSUME NEW l, Goto(t, l), pc[t] \in W <=> l \in W, structure_lock_count' = structure_lock_count PROVE LockOK'
    <2>1. At(W)' = At(W) BY <1>0, <1>1, AtMoved
    <2> QED BY <1>0, <1>1, <2>1 DEF LockOK, Within
  <1>2. CASE enter(t)
    <2>1. Goto(t, "previous") /\ pc[t] \notin W /\ "previous" \in W BY <1>2 DEF enter, Outside, Deleting, Labels
    <2> HIDE DEF W
    <2>2. Cardinality(At(W)') = Cardinality(At(W)) + 1 BY <1>0, <2>1, AtMoved
    <2> QED BY <1>0, <1>2, <2>2 DEF LockOK, Within, enter, W
  <1>3. CASE Arriving(t) \/ leave(t) \/ reset_complete(t) \/ reset_reached(t) \/ wake_reached(t)
    <2>1. PICK l \in Labels : Goto(t, l) /\ pc[t] \in W /\ l \in W
      BY <1>3 DEF Arriving, previous, wait_count, reach, set_complete, wake_complete, check, leave, reset_complete, reset_reached,
                  wake_reached, Move, Labels, Outside, Deleting
    <2>2. structure_lock_count' = structure_lock_count
      BY <1>3 DEF Arriving, previous, wait_count, reach, set_complete, wake_complete, check, leave, reset_complete, reset_reached,
                  wake_reached, fields
    <2> QED BY <1>1, <2>1, <2>2
  <1>4. CASE unlock(t)
    <2>1. PICK l \in {"idle", "wake_unlocked"} : Goto(t, l) BY <1>4 DEF unlock, Returns
    <2>2. pc[t] \in W /\ l \notin W BY <1>4 DEF unlock, Outside, Deleting, Labels
    <2> HIDE DEF W
    <2>3. Cardinality(At(W)') = Cardinality(At(W)) - 1 BY <1>0, <2>1, <2>2, AtMoved
    <2> QED BY <1>0, <1>4, <2>3 DEF LockOK, Within, unlock, W
  <1>5. CASE wake_unlocked(t)
    <2>1. Goto(t, "idle") /\ pc[t] \notin W /\ "idle" \notin W BY <1>5 DEF wake_unlocked, Returns, Outside
    <2> QED BY <1>1, <1>5, <2>1 DEF wake_unlocked, fields
  <1>6. CASE RtlDeleteBarrier(t)
    <2>1. PICK l \in Outside : Goto(t, l) /\ pc[t] \in Outside
      BY <1>6 DEF RtlDeleteBarrier, delete_begin, complain, read_lock, Move, Outside, Deleting
    <2>2. structure_lock_count' = structure_lock_count BY <1>6 DEF RtlDeleteBarrier, delete_begin, complain, read_lock, fields
    <2> QED BY <1>1, <2>1, <2>2
  <1>7. CASE RtlWaitOnAddress(t) \/ woken(t) \/ leave_wait(t)
    <2>1. Inner(t) BY <1>7, WaitInner
    <2> QED BY <2>1, SameRound DEF Inner
  <1> QED BY <1>2, <1>3, <1>4, <1>5, <1>6, <1>7 DEF Step, RtlBarrier, Leaving

LEMMA NextDeleted ==
  ASSUME Assumptions, BInv, NEW t \in Threads, Step(t) \/ leave_wait(t)
  PROVE  DeletedOK'
  <1> SUFFICES ASSUME OneDeleter, deleted' PROVE NoUseAfterDelete' BY DEF DeletedOK, OneDeleter, NoUseAfterDelete
  <1>0. Types /\ Others(t) /\ NoUseAfterDelete BY NextOthers DEF BInv, DeletedOK
  <1>1. /\ pc \in [Threads -> Labels] /\ entered \in [Threads -> 0 .. Rounds] /\ Rounds \in Nat
    BY <1>0 DEF Types, Assumptions, RoundsAssumption
  <1>2. CASE deleted
    <2>1. \A u \in Threads : pc[u] \in {"idle", "wake_unlocked", "end"} /\ entered[u] = Rounds
      BY <1>0, <1>2 DEF NoUseAfterDelete
    <2>2. ~(RtlWaitOnAddress(t) \/ woken(t) \/ leave_wait(t))
      BY <2>1, WaitInner DEF Previous, Gathered
    <2>3. wake_unlocked(t)
      BY <1>1, <1>2, <2>1, <2>2 DEF Step, RtlBarrier, RtlDeleteBarrier, Arriving, Leaving, enter, previous, wait_count, reach,
           set_complete, wake_complete, check, leave, reset_complete, reset_reached, wake_reached, unlock, delete_begin,
           complain, read_lock, Move
    <2>4. pc'[t] = "idle" /\ entered' = entered BY <1>1, <2>3 DEF wake_unlocked, Returns, Goto
    <2> QED BY <1>0, <2>1, <2>4 DEF NoUseAfterDelete, Others
  <1>3. CASE ~deleted
    <2>1. read_lock(t) /\ structure_lock_count = 0 /\ pc'[t] = "end" /\ entered' = entered
      <3>1. ~(RtlWaitOnAddress(t) \/ woken(t) \/ leave_wait(t)) BY <1>3, WaitInner
      <3>2. read_lock(t)
        BY <1>3, <3>1 DEF Step, RtlBarrier, RtlDeleteBarrier, Arriving, Leaving, enter, previous, wait_count, reach,
             set_complete, wake_complete, check, leave, reset_complete, reset_reached, wake_reached, unlock, wake_unlocked,
             delete_begin, complain
      <3> QED BY <1>1, <1>3, <3>2 DEF read_lock, InUse, Goto, seen
    <2>2. pc[t] \in Deleting /\ pc[t] \in Outside BY <2>1 DEF read_lock, Deleting, Outside
    <2>3. t \in Deleter /\ entered[t] = Rounds /\ Flag
      BY <2>2 DEF BInv, CallOK, CallAt, Assumptions, DeleteAssumption
    <2>4. Within = {}
      <3>1. Within \subseteq Threads BY DEF Within, At
      <3>2. Cardinality(Within) = 0 BY <2>1, <2>3 DEF BInv, LockOK
      <3> QED BY <3>1, <3>2, Count
    <2>5. ASSUME NEW u \in Threads \ {t} PROVE pc'[u] \in {"idle", "wake_unlocked", "end"} /\ entered'[u] = Rounds
      <3>1. pc[u] \in Outside \cup {"wake_unlocked"} BY <1>1, <2>4 DEF Within, At
      <3>2. pc[u] \notin Deleting BY <2>3 DEF BInv, CallOK, CallAt, OneDeleter
      <3>3. entered[u] >= entered[t] BY <2>2, AllEntered
      <3>4. entered[u] = Rounds BY <1>1, <2>3, <3>3
      <3> QED BY <1>0, <3>1, <3>2, <3>4 DEF Others, Outside
    <2> QED BY <2>1, <2>3, <2>5 DEF NoUseAfterDelete
  <1> QED BY <1>2, <1>3

-----------------------------------------------------------------------------
(* The rounds.                                                             *)

Leads == Released \cup Resets \cup Afters

LEMMA LeadingMoved ==
  ASSUME Types, NEW t \in Threads, NEW l, Goto(t, l), Others(t)
  PROVE  /\ \A u \in Threads \ {t} : u \in Leading' <=> u \in Leading
         /\ t \in Leading' <=> l \in Leads /\ ret'[t]
         /\ t \in Leading <=> pc[t] \in Leads /\ ret[t]
         /\ Leading \subseteq Threads /\ Leading' \subseteq Threads
  <1>1. pc'[t] = l BY DEF Goto, Types
  <1> QED BY <1>1 DEF Leading, At, Leads, Others

(* A step that leaves the leaders and who leads alone.                     *)
LEMMA LeaderKept ==
  ASSUME NEW c, LeaderOK(c), Leading' = Leading, leaders' = leaders
  PROVE  LeaderOK(c)'
  BY DEF LeaderOK

(* A leader, or another thread, returns from round c.                      *)
LEMMA LeaderReturns ==
  ASSUME NEW c \in Nat, LeaderOK(c), NEW t \in Threads, Leading' = Leading \ {t}, NEW b, t \in Leading <=> b,
         leaders' = IF b THEN leaders \cup {c} ELSE leaders
  PROVE  LeaderOK(c)'
  <1>1. CASE b
    <2>1. leaders' = leaders \cup {c} /\ t \in Leading BY <1>1
    <2>2. \E u \in Threads : Leading = {u} BY <2>1 DEF LeaderOK
    <2>3. Leading' = {} BY <2>1, <2>2
    <2> QED BY <2>1, <2>3 DEF LeaderOK
  <1>2. CASE ~b
    <2>1. leaders' = leaders /\ Leading' = Leading BY <1>2
    <2> QED BY <2>1, LeaderKept
  <1> QED BY <1>1, <1>2

LEMMA EnterRound == ASSUME Assumptions, BInv, NEW t \in Threads, enter(t) PROVE RoundOK'
  <1>0. PICK r \in 1 .. Rounds + 1 : Gathering(r) \/ Complete(r) BY DEF BInv, RoundOK
  <1>1. Types /\ Others(t) /\ Goto(t, "previous") /\ pc[t] = "idle" BY NextOthers DEF BInv, enter, Step, RtlBarrier
  <1>2. pc'[t] = "previous" /\ entered'[t] = entered[t] + 1 /\ entered[t] \in Int /\ Rounds \in Nat
    BY <1>1 DEF enter, Goto, Types, Assumptions, RoundsAssumption
  <1>3. UNCHANGED <<reached_thread_count, waiting_thread_count, leaders>> BY DEF enter
  <1>4. \A S \in {Gathered, Gathered \cup {"reach"}, Gathered \cup Released, Resets, Leads} : At(S)' = At(S)
    <2>1. \A S \in {Gathered, Gathered \cup {"reach"}, Gathered \cup Released, Resets, Leads} : "idle" \notin S /\ "previous" \notin S
      BY DEF Gathered, Released, Resets, Leads, Afters
    <2> QED BY <1>1, <2>1, AtMoved
  <1>5. Leading' = Leading
    <2>1. "idle" \notin Leads /\ "previous" \notin Leads BY DEF Leads, Released, Resets, Afters
    <2> QED BY <1>1, <2>1, LeadingMoved
  <1>6. "idle" \in Outside /\ "previous" \in Previous BY DEF Outside, Previous
  <1>7. CASE Gathering(r)
    <2>1. GatheringAt(t, r)'
      <3>1. entered[t] = r - 1 BY <1>1, <1>6, <1>7 DEF Gathering, GatheringAt
      <3> QED BY <1>2, <1>6, <3>1, Apart DEF GatheringAt
    <2>2. \A u \in Threads \ {t} : GatheringAt(u, r)' BY <1>1, <1>7 DEF Gathering, GatheringAt, Others
    <2>3. LeaderOK(r - 1)' BY <1>3, <1>5, <1>7, LeaderKept DEF Gathering
    <2>4. Gathering(r)' BY <1>3, <1>4, <1>7, <2>1, <2>2, <2>3 DEF Gathering
    <2> QED BY <2>4 DEF RoundOK
  <1>8. CASE Complete(r)
    <2>1. CompleteAt(t, r)'
      <3>1. entered[t] = r BY <1>1, <1>6, <1>8, Apart DEF Complete, CompleteAt
      <3> QED BY <1>2, <1>6, <3>1, Apart DEF CompleteAt
    <2>2. \A u \in Threads \ {t} : CompleteAt(u, r)' BY <1>1, <1>8 DEF Complete, CompleteAt, Others
    <2>3. LeaderOK(r)' BY <1>3, <1>5, <1>8, LeaderKept DEF Complete
    <2>4. Complete(r)' BY <1>3, <1>4, <1>8, <2>1, <2>2, <2>3 DEF Complete
    <2> QED BY <2>4 DEF RoundOK
  <1> QED BY <1>0, <1>7, <1>8

(* A thread that gathers, before the last: it goes on to l.                *)
LEMMA GatherMoves ==
  ASSUME Assumptions, BInv, NEW t \in Threads, NEW r \in 1 .. Rounds + 1, Gathering(r), NEW l, Goto(t, l), Others(t),
         pc[t] \in {"previous", "wait_count", "reach"}, l \in {"wait_count", "reach", "check"}, entered' = entered, leaders' = leaders,
         reached_thread_count' = Cardinality(At(Gathered)'), reached_thread_count' < total_thread_count,
         waiting_thread_count' = Cardinality(At(Gathered \cup {"reach"})')
  PROVE  RoundOK'
  <1>1. Types /\ pc'[t] = l BY DEF BInv, Goto, Types
  <1>2. pc[t] \notin Outside \cup Afters \cup Leads /\ l \notin Outside \cup Afters \cup Leads \cup Released \cup Resets
    BY DEF Outside, Deleting, Afters, Leads, Released, Resets
  <1>3. GatheringAt(t, r)' BY <1>1, <1>2 DEF Gathering, GatheringAt
  <1>4. \A u \in Threads \ {t} : GatheringAt(u, r)' BY DEF Gathering, GatheringAt, Others
  <1>5. Leading' = Leading BY <1>1, <1>2, LeadingMoved
  <1>6. LeaderOK(r - 1)' BY <1>5, LeaderKept DEF Gathering
  <1>7. Gathering(r)' BY <1>3, <1>4, <1>6 DEF Gathering
  <1> QED BY <1>7 DEF RoundOK

LEMMA ArriveRound ==
  ASSUME Assumptions, BInv, NEW t \in Threads, (previous(t) /\ reached_thread_count < total_thread_count) \/ wait_count(t)
  PROVE  RoundOK'
  <1>0. PICK r \in 1 .. Rounds + 1 : Gathering(r) \/ Complete(r) BY DEF BInv, RoundOK
  <1>1. Types /\ Others(t) BY NextOthers DEF BInv, Step, RtlBarrier, Arriving
  <1>2. total_thread_count \in Nat BY Count
  <1>3. CASE previous(t) /\ reached_thread_count < total_thread_count
    <2>1. Gathering(r) BY <1>0, <1>2, <1>3 DEF Complete
    <2>2. Goto(t, "wait_count") /\ pc[t] = "previous" BY <1>3 DEF previous, Move
    <2>3. At(Gathered)' = At(Gathered) /\ At(Gathered \cup {"reach"})' = At(Gathered \cup {"reach"})
      BY <1>1, <2>2, AtMoved DEF Gathered
    <2>4. UNCHANGED <<reached_thread_count, waiting_thread_count, entered, leaders>> BY <1>3 DEF previous, fields, seen
    <2> QED BY <1>1, <1>3, <2>1, <2>2, <2>3, <2>4, GatherMoves DEF Gathering
  <1>4. CASE wait_count(t)
    <2>1. Goto(t, "reach") /\ pc[t] = "wait_count" BY <1>4 DEF wait_count, Move
    <2>2. Gathering(r) BY <1>0, <2>1 DEF Complete, CompleteAt
    <2>3. At(Gathered)' = At(Gathered) /\ Cardinality(At(Gathered \cup {"reach"})') = Cardinality(At(Gathered \cup {"reach"})) + 1
      BY <1>1, <2>1, AtMoved DEF Gathered
    <2>4. waiting_thread_count' = waiting_thread_count + 1 /\ UNCHANGED <<reached_thread_count, entered, leaders>>
      BY <1>4 DEF wait_count, seen
    <2> QED BY <1>1, <2>1, <2>2, <2>3, <2>4, GatherMoves DEF Gathering
  <1> QED BY <1>3, <1>4

(* A thread reaches the barrier, and the last one completes the round.     *)
LEMMA ReachRound == ASSUME Assumptions, BInv, NEW t \in Threads, reach(t) PROVE RoundOK'
  <1>0. PICK r \in 1 .. Rounds + 1 : Gathering(r) \/ Complete(r) BY DEF BInv, RoundOK
  <1>1. Types /\ Others(t) BY NextOthers DEF BInv, Step, RtlBarrier, Arriving
  <1>2. total_thread_count \in Nat \ {0} /\ reached_thread_count \in Nat BY <1>1, Count DEF Types
  <1>3. pc[t] = "reach" /\ reached_thread_count' = reached_thread_count + 1
        /\ UNCHANGED <<waiting_thread_count, entered, leaders>> BY DEF reach, Move, seen
  <1>4. Gathering(r) BY <1>0, <1>3 DEF Complete, CompleteAt
  <1>5. reached_thread_count = Cardinality(At(Gathered)) /\ reached_thread_count < total_thread_count
        /\ waiting_thread_count = Cardinality(At(Gathered \cup {"reach"})) BY <1>4 DEF Gathering
  <1>6. "reach" \notin Gathered BY DEF Gathered
  <1>7. CASE ~AllReached(reached_thread_count + 1)
    <2>1. Goto(t, "check") BY <1>7 DEF reach, Move
    <2>2. "check" \in Gathered BY DEF Gathered
    <2>3. Cardinality(At(Gathered)') = Cardinality(At(Gathered)) + 1 BY <1>1, <1>3, <1>6, <2>1, <2>2, AtMoved
    <2>4. At(Gathered \cup {"reach"})' = At(Gathered \cup {"reach"}) BY <1>1, <1>3, <2>1, <2>2, AtMoved
    <2>5. reached_thread_count' < total_thread_count BY <1>2, <1>3, <1>7 DEF AllReached
    <2> QED BY <1>1, <1>3, <1>4, <1>5, <2>1, <2>3, <2>4, <2>5, GatherMoves
  <1>8. CASE AllReached(reached_thread_count + 1)
    <2>1. Goto(t, "set_complete") /\ ret' = [ret EXCEPT ![t] = TRUE] BY <1>1, <1>8 DEF reach, Move, Types
    <2>2. pc'[t] = "set_complete" /\ ret'[t] BY <1>1, <2>1 DEF Goto, Types
    <2>3. At(Gathered) \cup {t} = Threads
      <3>1. At(Gathered) \subseteq Threads /\ t \notin At(Gathered) BY <1>3, <1>6 DEF At
      <3>2. Cardinality(At(Gathered) \cup {t}) = Cardinality(At(Gathered)) + 1 BY <3>1, Count
      <3>3. Cardinality(At(Gathered) \cup {t}) = total_thread_count BY <1>2, <1>5, <1>8, <3>2 DEF AllReached
      <3> QED BY <3>1, <3>3, Count
    <2>4. \A u \in Threads \ {t} : pc[u] \in Gathered /\ pc'[u] \in Gathered BY <1>1, <2>3 DEF At, Others
    <2>5. At(Gathered \cup {"reach"}) = Threads BY <1>3, <2>4 DEF At
    <2>6. At(Gathered \cup Released)' = Threads
      <3>1. pc'[t] \in Released BY <2>2 DEF Released
      <3> QED BY <2>4, <3>1 DEF At
    <2>7. At(Resets)' = {}
      <3>1. \A u \in Threads : pc'[u] \notin Resets BY <2>2, <2>4, Apart DEF Resets
      <3> QED BY <3>1 DEF At
    <2>8. \A u \in Threads : entered[u] = r BY <1>3, <1>4, <2>4, Apart DEF Gathering, GatheringAt, Afters, Outside, Deleting
    <2>9. \A u \in Threads : CompleteAt(u, r)'
      <3>1. \A u \in Threads : pc'[u] \notin Previous \cup {"wait_count", "reach"} BY <2>2, <2>4, Apart DEF Previous
      <3> QED BY <1>3, <2>8, <3>1 DEF CompleteAt
    <2>10. LeaderOK(r)'
      <3>1. \A u \in Threads \ {t} : u \notin Leading' BY <2>4, Apart DEF Leading, At
      <3>2. t \in Leading' BY <2>2 DEF Leading, At, Released
      <3>3. Leading' = {t} BY <1>1, <2>1, <3>1, <3>2, LeadingMoved
      <3>4. \A i \in leaders : i \in Nat /\ i <= r - 1 BY <1>1, <1>4 DEF Gathering, LeaderOK, Types
      <3>5. r \in Nat BY DEF Assumptions, RoundsAssumption
      <3>6. r \notin leaders /\ \A i \in leaders : i <= r BY <3>4, <3>5
      <3> QED BY <1>3, <3>3, <3>6 DEF LeaderOK
    <2>11. reached_thread_count' = total_thread_count BY <1>2, <1>3, <1>5, <1>8 DEF AllReached
    <2>12. waiting_thread_count' = total_thread_count /\ waiting_thread_count' # 0 BY <1>2, <1>3, <1>5, <2>5 DEF total_thread_count
    <2>13. Complete(r)' BY <2>6, <2>7, <2>9, <2>10, <2>11, <2>12 DEF Complete, total_thread_count
    <2> QED BY <2>13 DEF RoundOK
  <1> QED BY <1>7, <1>8

(* A thread finds the round complete.                                      *)
LEMMA CheckRound == ASSUME Assumptions, BInv, NEW t \in Threads, check(t), ~(reached_thread_count < total_thread_count) PROVE RoundOK'
  <1>0. PICK r \in 1 .. Rounds + 1 : Gathering(r) \/ Complete(r) BY DEF BInv, RoundOK
  <1>1. Types /\ Others(t) /\ CallAt(t) BY NextOthers DEF BInv, CallOK, Step, RtlBarrier, Arriving
  <1>2. Complete(r) BY <1>0 DEF Gathering
  <1>3. Goto(t, "leave") /\ pc[t] = "check" /\ UNCHANGED <<reached_thread_count, waiting_thread_count, entered, leaders, ret>>
    BY DEF check, Move, fields, seen
  <1>4. pc'[t] = "leave" BY <1>1, <1>3 DEF Goto, Types
  <1>5. "check" \in Gathered /\ "leave" \in Released BY DEF Gathered, Released
  <1>6. At(Gathered \cup Released)' = At(Gathered \cup Released) /\ At(Resets)' = At(Resets)
    BY <1>1, <1>3, <1>5, Apart, AtMoved
  <1>7. \A u \in Threads : CompleteAt(u, r)' BY <1>1, <1>2, <1>3, <1>4, <1>5, Apart DEF Complete, CompleteAt, Others
  <1>8. Leading' = Leading
    <2>1. ~ret[t] BY <1>1, <1>3, <1>5 DEF CallAt
    <2>2. t \notin Leading /\ t \notin Leading' BY <1>3, <2>1 DEF Leading
    <2> QED BY <1>1, <1>3, <2>2, LeadingMoved
  <1>9. LeaderOK(r)' BY <1>2, <1>3, <1>8, LeaderKept DEF Complete
  <1>10. Complete(r)' BY <1>2, <1>3, <1>6, <1>7, <1>9 DEF Complete
  <1> QED BY <1>10 DEF RoundOK

(* Within Leads a leader stays one.                                        *)
LEMMA StaysLeading ==
  ASSUME Types, NEW t \in Threads, NEW l \in Leads, pc[t] \in Leads, Goto(t, l), Others(t), ret' = ret
  PROVE  Leading' = Leading
  BY LeadingMoved

(* A thread leaves, and the last one prepares the next round.              *)
LEMMA LeaveRound == ASSUME Assumptions, BInv, NEW t \in Threads, leave(t) PROVE RoundOK'
  <1>0. PICK r \in 1 .. Rounds + 1 : Gathering(r) \/ Complete(r) BY DEF BInv, RoundOK
  <1>1. Types /\ Others(t) BY NextOthers DEF BInv, Step, RtlBarrier, Leaving
  <1>2. PICK l \in {"reset_complete", "unlock"} : Goto(t, l) /\ (l = "reset_complete" <=> waiting_thread_count = 1)
    BY DEF leave, Move
  <1>3. pc[t] = "leave" /\ waiting_thread_count' = waiting_thread_count - 1 /\ waiting_thread_count \in Int
        /\ UNCHANGED <<reached_thread_count, entered, leaders, ret>>
    BY <1>1 DEF leave, Move, seen, Types
  <1>4. pc'[t] = l BY <1>1, <1>2 DEF Goto, Types
  <1>5. "leave" \in Released /\ l \in Resets \cup Afters /\ (l \in Resets <=> l = "reset_complete") /\ "leave" \in Leads /\ l \in Leads
    BY DEF Released, Resets, Afters, Leads
  <1>6. Complete(r) BY <1>0, <1>3, <1>5 DEF Gathering, GatheringAt
  <1>7. l \notin Gathered \cup Released \cup Previous \cup {"wait_count", "reach"} BY <1>5, Apart
  <1>8. Cardinality(At(Gathered \cup Released)') = Cardinality(At(Gathered \cup Released)) - 1
        /\ Cardinality(At(Gathered \cup Released)) \in Nat /\ t \in At(Gathered \cup Released)
        /\ (Cardinality(At(Gathered \cup Released)) = 0 <=> At(Gathered \cup Released) = {})
    BY <1>1, <1>2, <1>3, <1>5, <1>7, AtMoved
  <1>9. waiting_thread_count # 0 /\ At(Resets) = {} BY <1>6, <1>8 DEF Complete
  <1>10. \/ waiting_thread_count' # 0 /\ At(Resets)' = {}
         \/ waiting_thread_count' = 0 /\ \E u \in Threads : At(Resets)' = {u}
    <2>1. pc[t] \notin Resets BY <1>3, <1>5, Apart
    <2>2. CASE l = "reset_complete"
      <3>1. At(Resets)' = At(Resets) \cup {t} BY <1>1, <1>2, <1>5, <2>1, <2>2, AtMoved
      <3>2. At(Resets)' = {t} BY <1>9, <3>1
      <3> QED BY <1>2, <1>3, <2>2, <3>2
    <2>3. CASE l # "reset_complete"
      <3>1. At(Resets)' = At(Resets) BY <1>1, <1>2, <1>5, <2>1, <2>3, AtMoved
      <3> QED BY <1>2, <1>3, <1>9, <2>3, <3>1
    <2> QED BY <2>2, <2>3
  <1>11. \A u \in Threads : CompleteAt(u, r)'
    <2>1. pc[t] \notin Previous BY <1>3, <1>5, Apart
    <2> QED BY <1>1, <1>3, <1>4, <1>6, <1>7, <2>1 DEF Complete, CompleteAt, Others
  <1>12. LeaderOK(r)'
    <2>1. Leading' = Leading BY <1>1, <1>2, <1>3, <1>5, StaysLeading
    <2> QED BY <1>3, <1>6, <2>1, LeaderKept DEF Complete
  <1>13. waiting_thread_count' = Cardinality(At(Gathered \cup Released)') BY <1>3, <1>6, <1>8 DEF Complete
  <1>14. Complete(r)' BY <1>3, <1>6, <1>10, <1>11, <1>12, <1>13 DEF Complete
  <1> QED BY <1>14 DEF RoundOK

(* The next round begins.                                                  *)
LEMMA ResetRound == ASSUME Assumptions, BInv, NEW t \in Threads, reset_reached(t) PROVE RoundOK'
  <1>0. PICK r \in 1 .. Rounds + 1 : Gathering(r) \/ Complete(r) BY DEF BInv, RoundOK
  <1>1. Types /\ Others(t) BY NextOthers DEF BInv, Step, RtlBarrier, Leaving
  <1>2. Goto(t, "wake_reached") /\ pc[t] = "reset_reached" /\ reached_thread_count' = 0
        /\ UNCHANGED <<waiting_thread_count, entered, leaders, ret>>
    BY DEF reset_reached, Move, seen
  <1>3. pc'[t] = "wake_reached" BY <1>1, <1>2 DEF Goto, Types
  <1>4. "reset_reached" \in Resets /\ "wake_reached" \in Afters /\ "reset_reached" \in Leads /\ "wake_reached" \in Leads
    BY DEF Resets, Afters, Leads
  <1>5. Complete(r) BY <1>0, <1>2, <1>4 DEF Gathering, GatheringAt
  <1>6. t \in At(Resets) BY <1>2, <1>4 DEF At
  <1>7. waiting_thread_count = 0 /\ At(Resets) = {t} BY <1>5, <1>6 DEF Complete
  <1>8. At(Gathered \cup Released) = {}
    <2>1. Cardinality(At(Gathered \cup Released)) = 0 BY <1>5, <1>7 DEF Complete
    <2>2. At(Gathered \cup Released) \subseteq Threads BY DEF At
    <2> QED BY <2>1, <2>2, Count
  <1>9. ASSUME NEW u \in Threads PROVE pc'[u] \in Previous \cup Afters \cup Outside
    <2>1. CASE u = t BY <1>3, <1>4, <2>1
    <2>2. CASE u # t
      <3>1. pc[u] \in Labels /\ pc'[u] = pc[u] BY <1>1, <2>2 DEF Types, Others
      <3>2. pc[u] \notin Gathered \cup Released \cup Resets BY <1>7, <1>8, <2>2 DEF At
      <3>3. pc[u] \notin {"wait_count", "reach"} BY <1>5 DEF Complete, CompleteAt
      <3> QED BY <3>1, <3>2, <3>3 DEF Labels, Previous, Afters, Outside, Deleting, Gathered, Released, Resets
    <2> QED BY <2>1, <2>2
  <1>10. At(Gathered)' = {} /\ At(Gathered \cup {"reach"})' = {}
    <2>1. \A u \in Threads : pc'[u] \notin Gathered \cup {"reach"} BY <1>9, Apart
    <2> QED BY <2>1 DEF At
  <1>11. r + 1 \in 1 .. Rounds + 1 /\ r \in Nat /\ (r + 1) - 1 = r
    <2>1. entered[t] = r BY <1>2, <1>4, <1>5, Apart DEF Complete, CompleteAt
    <2>2. entered[t] \in 0 .. Rounds /\ Rounds \in Nat BY <1>1 DEF Types, Assumptions, RoundsAssumption
    <2> QED BY <2>1, <2>2
  <1>12. \A u \in Threads : GatheringAt(u, r + 1)'
    <2> TAKE u \in Threads
    <2>1. CompleteAt(u, r) BY <1>5 DEF Complete
    <2>2. pc'[u] \in Previous \cup Afters \cup Outside BY <1>9
    <2>3. pc[u] \in Previous <=> pc'[u] \in Previous
      <3>1. CASE u = t BY <1>2, <1>3, <1>4, <3>1, Apart
      <3>2. CASE u # t BY <1>1, <3>2 DEF Others
      <3> QED BY <3>1, <3>2
    <2>4. entered'[u] = IF pc'[u] \in Previous THEN r + 1 ELSE r BY <1>2, <2>1, <2>3 DEF CompleteAt
    <2>5. pc'[u] \notin Released \cup Resets /\ (pc'[u] \in Previous <=> pc'[u] \notin Outside \cup Afters) BY <2>2, Apart
    <2> QED BY <1>11, <2>4, <2>5 DEF GatheringAt
  <1>13. LeaderOK((r + 1) - 1)'
    <2>1. Leading' = Leading BY <1>1, <1>2, <1>4, StaysLeading
    <2>2. LeaderOK(r)' BY <1>2, <1>5, <2>1, LeaderKept DEF Complete
    <2> QED BY <1>11, <2>2
  <1>14. Cardinality({}) = 0 BY FS_EmptySet
  <1>15. 0 < total_thread_count
    <2>1. {} \subseteq Threads OBVIOUS
    <2> QED BY <2>1, Count
  <1>16. Gathering(r + 1)' BY <1>2, <1>7, <1>10, <1>12, <1>13, <1>14, <1>15 DEF Gathering, total_thread_count
  <1> QED BY <1>11, <1>16 DEF RoundOK

(* A thread returns, and may be the leader.                                *)
LEMMA ReturnRound ==
  ASSUME Assumptions, BInv, NEW t \in Threads, unlock(t) \/ wake_unlocked(t)
  PROVE  RoundOK'
  <1>0. PICK r \in 1 .. Rounds + 1 : Gathering(r) \/ Complete(r) BY DEF BInv, RoundOK
  <1>1. Types /\ Others(t) BY NextOthers DEF BInv, Step, RtlBarrier, Leaving
  <1>2. PICK l \in {"idle", "wake_unlocked"} : /\ Goto(t, l)
          /\ leaders' = IF l = "idle" /\ ret[t] THEN leaders \cup {entered[t]} ELSE leaders
    BY DEF unlock, wake_unlocked, Returns, seen
  <1>3. pc[t] \in {"unlock", "wake_unlocked"} /\ UNCHANGED <<reached_thread_count, waiting_thread_count, entered, ret>>
    BY DEF unlock, wake_unlocked, Returns, seen, fields
  <1>4. pc'[t] = l BY <1>1, <1>2 DEF Goto, Types
  <1>5. pc[t] \in Afters /\ pc[t] \in Leads /\ l \in Outside \cup Afters /\ (l \in Leads <=> l # "idle")
    BY <1>3 DEF Afters, Leads, Outside, Released, Resets
  <1>6. \A S \in {Gathered, Gathered \cup {"reach"}, Gathered \cup Released, Resets} : At(S)' = At(S)
    <2>1. \A S \in {Gathered, Gathered \cup {"reach"}, Gathered \cup Released, Resets} : pc[t] \notin S /\ l \notin S
      BY <1>5, Apart
    <2> QED BY <1>1, <1>2, <2>1, AtMoved
  <1>7. ASSUME NEW c \in Nat, LeaderOK(c), entered[t] = c PROVE LeaderOK(c)'
    <2>1. CASE l = "idle"
      <3>1. t \notin Leading' /\ (t \in Leading <=> ret[t]) BY <1>1, <1>2, <1>5, <2>1, LeadingMoved
      <3>2. Leading' = Leading \ {t} BY <1>1, <1>2, <3>1, LeadingMoved
      <3>3. leaders' = IF ret[t] THEN leaders \cup {c} ELSE leaders BY <1>2, <1>7, <2>1
      <3> QED BY <1>7, <3>1, <3>2, <3>3, LeaderReturns
    <2>2. CASE l # "idle"
      <3>1. Leading' = Leading BY <1>1, <1>2, <1>3, <1>5, <2>2, StaysLeading
      <3> QED BY <1>2, <1>7, <2>2, <3>1, LeaderKept
    <2> QED BY <2>1, <2>2
  <1>8. r \in Nat /\ r - 1 \in Nat BY DEF Assumptions, RoundsAssumption
  <1>9. CASE Gathering(r)
    <2>1. \A u \in Threads : GatheringAt(u, r)' BY <1>1, <1>3, <1>4, <1>5, <1>9, Apart DEF Gathering, GatheringAt, Others
    <2>2. entered[t] = r - 1 BY <1>5, <1>9 DEF Gathering, GatheringAt
    <2>3. LeaderOK(r - 1)' BY <1>7, <1>8, <1>9, <2>2 DEF Gathering
    <2>4. Gathering(r)' BY <1>3, <1>6, <1>9, <2>1, <2>3 DEF Gathering
    <2> QED BY <2>4 DEF RoundOK
  <1>10. CASE Complete(r)
    <2>1. \A u \in Threads : CompleteAt(u, r)' BY <1>1, <1>3, <1>4, <1>5, <1>10, Apart DEF Complete, CompleteAt, Others
    <2>2. entered[t] = r BY <1>5, <1>10, Apart DEF Complete, CompleteAt
    <2>3. LeaderOK(r)' BY <1>7, <1>8, <1>10, <2>2 DEF Complete
    <2>4. Complete(r)' BY <1>3, <1>6, <1>10, <2>1, <2>3 DEF Complete
    <2> QED BY <2>4 DEF RoundOK
  <1> QED BY <1>0, <1>9, <1>10

LEMMA InnerRound == ASSUME Assumptions, BInv, NEW t \in Threads, Inner(t) PROVE RoundOK'
  BY SameRound DEF Inner

LEMMA NextRound ==
  ASSUME Assumptions, BInv, NEW t \in Threads, Step(t) \/ leave_wait(t)
  PROVE  RoundOK'
  <1>1. CASE previous(t) \/ check(t)
    <2>1. CASE previous(t) /\ ~(reached_thread_count < total_thread_count)
      <3>1. Goto(t, "previous_wait") /\ pc[t] = "previous" /\ Keeps BY <2>1 DEF previous, Move, Keeps, fields, seen
      <3>2. Inner(t) BY <3>1 DEF Inner, Parts, Previous
      <3> QED BY <3>2, InnerRound
    <2>2. CASE check(t) /\ reached_thread_count < total_thread_count
      <3>1. Goto(t, "check_wait") /\ pc[t] = "check" /\ Keeps BY <2>2 DEF check, Move, Keeps, fields, seen
      <3>2. Inner(t) BY <3>1 DEF Inner, Parts, Gathered
      <3> QED BY <3>2, InnerRound
    <2> QED BY <1>1, <2>1, <2>2, ArriveRound, CheckRound
  <1>2. CASE set_complete(t) \/ wake_complete(t)
    <2>1. Keeps BY <1>2 DEF set_complete, wake_complete, Keeps, fields, seen
    <2>2. pc[t] \in Released /\ \E l \in Released : Goto(t, l) BY <1>2 DEF set_complete, wake_complete, Move, Released
    <2>3. Inner(t) BY <2>1, <2>2 DEF Inner, Parts
    <2> QED BY <2>3, InnerRound
  <1>3. CASE reset_complete(t)
    <2>1. Keeps BY <1>3 DEF reset_complete, Keeps, seen
    <2>2. pc[t] \in Resets /\ \E l \in Resets : Goto(t, l) BY <1>3 DEF reset_complete, Move, Resets
    <2>3. Inner(t) BY <2>1, <2>2 DEF Inner, Parts
    <2> QED BY <2>3, InnerRound
  <1>4. CASE wake_reached(t)
    <2>1. Keeps BY <1>4 DEF wake_reached, Keeps, fields, seen
    <2>2. pc[t] \in {"wake_reached", "unlock"} /\ \E l \in {"wake_reached", "unlock"} : Goto(t, l) BY <1>4 DEF wake_reached, Move
    <2>3. Inner(t) BY <2>1, <2>2 DEF Inner, Parts
    <2> QED BY <2>3, InnerRound
  <1>5. CASE RtlDeleteBarrier(t)
    <2>1. Keeps BY <1>5 DEF RtlDeleteBarrier, delete_begin, complain, read_lock, Keeps, fields, seen
    <2>2. pc[t] \in Outside /\ \E l \in Outside : Goto(t, l)
      BY <1>5 DEF RtlDeleteBarrier, delete_begin, complain, read_lock, Move, Outside, Deleting
    <2>3. Inner(t) BY <2>1, <2>2 DEF Inner, Parts
    <2> QED BY <2>3, InnerRound
  <1>6. CASE RtlWaitOnAddress(t) \/ woken(t) \/ leave_wait(t) BY <1>6, WaitInner, InnerRound
  <1> QED BY <1>1, <1>2, <1>3, <1>4, <1>5, <1>6, EnterRound, ArriveRound, ReachRound, LeaveRound, ResetRound, ReturnRound
          DEF Step, RtlBarrier, Arriving, Leaving

-----------------------------------------------------------------------------
LEMMA InitBInv == ASSUME Assumptions, Init PROVE BInv
  <1>0. Rounds \in Nat /\ Flag \in BOOLEAN BY DEF Assumptions, RoundsAssumption, DeleteAssumption
  <1>1. \A t \in Threads : pc[t] = "idle" /\ entered[t] = 0 /\ returned[t] = 0 BY DEF Init
  <1>2. Types
    <2>1. pc \in [Threads -> Labels] /\ ret \in [Threads -> BOOLEAN] BY DEF Init, Labels
    <2>2. entered \in [Threads -> 0 .. Rounds] /\ returned \in [Threads -> Int] BY <1>0 DEF Init
    <2>3. reached_thread_count = 0 /\ structure_lock_count = 0 /\ waiting_thread_count = 0 /\ leaders = {} BY DEF Init
    <2>4. deleted \in BOOLEAN BY Zenon DEF Init
    <2> QED BY <2>1, <2>2, <2>3, <2>4 DEF Types
  <1>3. "idle" \in Outside /\ "idle" \notin Deleting \cup Gathered BY DEF Outside, Deleting, Gathered
  <1>4. CallOK BY <1>1, <1>3 DEF CallOK, CallAt
  <1>5. /\ At(Gathered) = {} /\ At(Gathered \cup {"reach"}) = {} /\ At(Released \cup Resets \cup Afters) = {} /\ Within = {}
    BY <1>1 DEF At, Within, Gathered, Released, Resets, Afters, Outside
  <1>6. Cardinality({}) = 0 BY FS_EmptySet
  <1>7. LockOK BY <1>5, <1>6 DEF LockOK, Init
  <1>8. DeletedOK BY DEF DeletedOK, NoUseAfterDelete, Init
  <1>9. Leading = {} /\ leaders = {} BY <1>5 DEF Leading, Init
  <1>10. LeaderOK(1 - 1) BY <1>9 DEF LeaderOK
  <1>11. \A t \in Threads : GatheringAt(t, 1)
    <2>1. "idle" \notin Released \cup Resets BY DEF Released, Resets
    <2> QED BY <1>1, <1>3, <2>1 DEF GatheringAt
  <1>12. 0 < total_thread_count
    <2>1. {} \subseteq Threads OBVIOUS
    <2>2. total_thread_count \in Nat \ {0} BY <2>1, Count
    <2> QED BY <2>2
  <1>13. Gathering(1) BY <1>5, <1>6, <1>10, <1>11, <1>12 DEF Gathering, Init
  <1>14. RoundOK BY <1>0, <1>13 DEF RoundOK
  <1> QED BY <1>2, <1>4, <1>7, <1>8, <1>14 DEF BInv

LEMMA NextBInv == ASSUME Assumptions, BInv, [Next]_vars PROVE BInv'
  <1>1. CASE Next
    <2>1. PICK t \in Threads : Step(t) \/ leave_wait(t) BY <1>1 DEF Next
    <2>2. Types' BY <2>1, NextTypes DEF BInv
    <2>3. CallOK' /\ LockOK' /\ DeletedOK' /\ RoundOK' BY <2>1, NextCall, NextLock, NextDeleted, NextRound
    <2> QED BY <2>2, <2>3 DEF BInv
  <1>2. CASE UNCHANGED vars
    <2>1. UNCHANGED <<reached_thread_count, structure_lock_count, waiting_thread_count, pc, ret, deleted, entered, returned, leaders>>
      BY <1>2 DEF vars, fields, seen
    <2>2. \A S : At(S)' = At(S) BY <2>1 DEF At
    <2>3. Leading' = Leading /\ Within' = Within BY <2>1, <2>2 DEF Leading, Within
    <2>4. Types' /\ CallOK' BY <2>1 DEF BInv, Types, CallOK, CallAt
    <2>5. LockOK' /\ DeletedOK' BY <2>1, <2>3 DEF BInv, LockOK, DeletedOK, NoUseAfterDelete, OneDeleter
    <2>6. \A c : LeaderOK(c) => LeaderOK(c)' BY <2>1, <2>3 DEF LeaderOK
    <2>7. \A r : Gathering(r) => Gathering(r)' BY <2>1, <2>2, <2>6 DEF Gathering, GatheringAt
    <2>8. \A r : Complete(r) => Complete(r)' BY <2>1, <2>2, <2>6 DEF Complete, CompleteAt
    <2>9. RoundOK' BY <2>7, <2>8 DEF BInv, RoundOK
    <2> QED BY <2>4, <2>5, <2>9 DEF BInv
  <1> QED BY <1>1, <1>2

LEMMA Inductive == Assumptions => (Spec => []BInv)
  <1> SUFFICES ASSUME Assumptions PROVE Spec => []BInv OBVIOUS
  <1>1. Init => BInv BY InitBInv
  <1>2. BInv /\ [Next]_vars => BInv' BY NextBInv
  <1> QED BY <1>1, <1>2, PTL DEF Spec

(* RtlDeleteBarrier, called by one thread after its last round, returns    *)
(* only when no thread will read or write the structure again, although    *)
(* others may still be on their way out of RtlBarrier when it is called.   *)
THEOREM BarrierOutlivesUse == Assumptions /\ OneDeleter => (Spec => []NoUseAfterDelete)
  <1> SUFFICES ASSUME Assumptions, OneDeleter PROVE Spec => []NoUseAfterDelete OBVIOUS
  <1>1. Spec => []BInv BY Inductive
  <1>2. BInv => NoUseAfterDelete BY DEF BInv, DeletedOK
  <1> QED BY <1>1, <1>2, PTL

(* A return is a departure of the abstract barrier: all have arrived, and  *)
(* of those who return one is told that it was the last.                   *)
LEMMA ReturnDeparts ==
  ASSUME Assumptions, BInv, NEW t \in Threads, pc[t] \in Afters, Returns(t)
  PROVE  Promise!Depart(t)
  <1> DEFINE r == entered[t]
  <1>1. Types /\ CallAt(t) /\ r \in Nat /\ Rounds \in Nat /\ r >= 1 /\ returned[t] = r - 1
    <2>1. pc[t] \notin Outside BY Apart
    <2> QED BY <2>1 DEF BInv, CallOK, CallAt, Types, Assumptions, RoundsAssumption
  <1>2. \A u \in Threads : entered[u] >= r BY AllEntered
  <1>3. LeaderOK(r)
    <2>0. PICK q \in 1 .. Rounds + 1 : Gathering(q) \/ Complete(q) BY DEF BInv, RoundOK
    <2>1. CASE Gathering(q)
      <3>1. r = q - 1 BY <2>1 DEF Gathering, GatheringAt
      <3> QED BY <2>1, <3>1 DEF Gathering
    <2>2. CASE Complete(q)
      <3>1. r = q BY <2>2, Apart DEF Complete, CompleteAt
      <3> QED BY <2>2, <3>1 DEF Complete
    <2> QED BY <2>0, <2>1, <2>2
  <1>4. leaders' = IF ret[t] THEN leaders \cup {r} ELSE leaders BY DEF Returns
  <1>5. t \in Leading <=> ret[t] BY DEF Leading, At
  <1>6. returned' = [returned EXCEPT ![t] = r] /\ entered' = entered BY DEF Returns
  <1>7. \/ r \notin leaders /\ leaders' = leaders \cup {r}
        \/ leaders' = leaders
    <2>1. ret[t] => r \notin leaders BY <1>5, <1>3 DEF LeaderOK
    <2> QED BY <1>4, <2>1
  <1>8. ASSUME \A u \in Threads \ {t} : returned[u] >= r PROVE r \in leaders'
    <2>1. CASE ret[t] BY <1>4, <2>1
    <2>2. CASE ~ret[t]
      <3>1. leaders' = leaders BY <1>4, <2>2
      <3>2. ASSUME r \notin leaders PROVE FALSE
        <4>1. PICK u \in Threads : Leading = {u} BY <1>1, <1>3, <3>2 DEF LeaderOK
        <4>2. u # t /\ u \in Leading BY <1>5, <2>2, <4>1
        <4>3. pc[u] \in Released \cup Resets \cup Afters BY <4>2 DEF Leading, At
        <4>4. pc[u] \notin Outside /\ pc[u] \notin Previous BY <4>3, Apart
        <4>5. returned[u] = entered[u] - 1 /\ entered[u] \in Nat BY <1>1, <4>4 DEF BInv, CallOK, CallAt, Types
        <4>6. entered[u] = r
          <5>0. PICK q \in 1 .. Rounds + 1 : Gathering(q) \/ Complete(q) BY DEF BInv, RoundOK
          <5>1. CASE Gathering(q)
            <6>1. r = q - 1 /\ pc[u] \in Afters BY <4>3, <5>1 DEF Gathering, GatheringAt
            <6> QED BY <5>1, <6>1 DEF Gathering, GatheringAt
          <5>2. CASE Complete(q) BY <4>4, <5>2, Apart DEF Complete, CompleteAt
          <5> QED BY <5>0, <5>1, <5>2
        <4>7. returned[u] >= r BY <1>8, <4>2
        <4> QED BY <1>1, <4>5, <4>6, <4>7
      <3> QED BY <3>1, <3>2
    <2> QED BY <2>1, <2>2
  <1>9. returned[t] < r BY <1>1
  <1> QED BY <1>2, <1>6, <1>7, <1>8, <1>9 DEF Promise!Depart

(* Every step is one of the abstract barrier, or changes nothing that a    *)
(* caller sees.                                                            *)
LEMMA RefineStep == ASSUME Assumptions, BInv, [Next]_vars PROVE [Promise!Next]_(Promise!vars)
  <1>1. CASE UNCHANGED vars BY <1>1 DEF vars, seen, Promise!vars
  <1>2. ASSUME NEW t \in Threads, enter(t) PROVE Promise!Arrive(t)
    <2>1. pc[t] \in Outside BY <1>2 DEF enter, Outside
    <2>2. entered[t] = returned[t] BY <2>1 DEF BInv, CallOK, CallAt
    <2> QED BY <1>2, <2>2 DEF enter, Promise!Arrive
  <1>3. ASSUME NEW t \in Threads, unlock(t) \/ wake_unlocked(t) PROVE Promise!Depart(t) \/ UNCHANGED seen
    <2>1. pc[t] \in Afters BY <1>3 DEF unlock, wake_unlocked, Afters
    <2>2. Returns(t) \/ UNCHANGED seen BY <1>3 DEF unlock, wake_unlocked
    <2> QED BY <2>1, <2>2, ReturnDeparts
  <1>4. ASSUME NEW t \in Threads, Step(t) \/ leave_wait(t), ~enter(t), ~unlock(t), ~wake_unlocked(t) PROVE UNCHANGED seen
    BY <1>4 DEF Step, RtlBarrier, RtlDeleteBarrier, Arriving, Leaving, previous, wait_count, reach,
         set_complete, wake_complete, check, leave, reset_complete, reset_reached, wake_reached, delete_begin, complain,
         read_lock, RtlWaitOnAddress, woken, leave_wait
  <1>5. CASE Next
    <2>1. PICK t \in Threads : Step(t) \/ leave_wait(t) BY <1>5 DEF Next
    <2>2. Promise!Arrive(t) \/ Promise!Depart(t) \/ UNCHANGED seen BY <1>2, <1>3, <1>4, <2>1
    <2> QED BY <2>2 DEF Promise!Next, Promise!vars, seen
  <1> QED BY <1>1, <1>5

(* RtlBarrier is a barrier, round after round: nobody returns from a round *)
(* before all have come to it, and exactly one of them is told that it was *)
(* the last, although threads of the next round arrive while those of the  *)
(* one before are still leaving the same structure.                        *)
THEOREM BarrierMeets == Assumptions => (Spec => Promise!Spec)
  <1> SUFFICES ASSUME Assumptions PROVE Spec => Promise!Spec OBVIOUS
  <1>1. Init => Promise!Init BY DEF Init, Promise!Init
  <1>2. BInv /\ [Next]_vars => [Promise!Next]_(Promise!vars) BY RefineStep
  <1>3. Spec => []BInv BY Inductive
  <1> QED BY <1>1, <1>2, <1>3, PTL DEF Spec, Promise!Spec
====
