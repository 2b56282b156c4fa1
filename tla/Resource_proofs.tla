-------------------------- MODULE Resource_proofs ---------------------------
(***************************************************************************)
(* Proofs that an RTL_RWLOCK counts right, leaves nobody asleep and is a   *)
(* readers-writer lock, for any number of threads and acquisitions.        *)
(***************************************************************************)
EXTENDS Resource, FiniteSetTheorems, TLAPS

-----------------------------------------------------------------------------
(* The inductive invariant.                                                *)

(* What a thread holds, is allowed and is about to do.                     *)
LocalAt(t) ==
  /\ held[t].mode = "none" <=> held[t].depth = 0
  /\ held[t].depth + left[t] + (IF pc[t] = "idle" THEN 0 ELSE 1) <= MaxCalls
  /\ pc[t] = "wait_exclusive" => call[t] = "exclusive"
  /\ pc[t] = "acquire_exclusive" => call[t] \in {"exclusive", "try_exclusive"}
LocalOK == \A t \in Threads : LocalAt(t)

(* A writer is alone: iNumberActive is minus its depth, hOwningThreadId    *)
(* names it, and no reader has been woken.                                 *)
Alone(w) ==
  /\ iNumberActive = -held[w].depth /\ hOwningThreadId = w
  /\ hSharedReleaseSemaphore = 0 /\ Called = {}
  /\ \A t \in Threads \ {w} : held[t].mode = "none"
WriterOK == \A w \in Threads : held[w].mode = "exclusive" => Alone(w)

RInv == TypeOK /\ LocalOK /\ WriterOK /\ CountsExact /\ NoStuckWaiter

-----------------------------------------------------------------------------
(* Counting.                                                               *)

LEMMA Count ==
  ASSUME Assumptions, NEW A, A \subseteq Threads
  PROVE  /\ IsFiniteSet(A) /\ Cardinality(A) \in Nat /\ (Cardinality(A) = 0 <=> A = {})
         /\ \A t \in Threads \ A : Cardinality(A \cup {t}) = Cardinality(A) + 1
         /\ \A t \in A : Cardinality(A \ {t}) = Cardinality(A) - 1
  <1>1. IsFiniteSet(Threads) BY DEF Assumptions, ThreadsAssumption
  <1>2. IsFiniteSet(A) BY <1>1, FS_Subset
  <1>3. Cardinality(A) \in Nat BY <1>2, FS_CardinalityType
  <1>4. Cardinality(A) = 0 <=> A = {} BY <1>2, FS_EmptySet
  <1>5. \A t \in Threads \ A : Cardinality(A \cup {t}) = Cardinality(A) + 1 BY <1>2, FS_AddElement
  <1>6. \A t \in A : Cardinality(A \ {t}) = Cardinality(A) - 1 BY <1>2, FS_RemoveElement
  <1> QED BY <1>2, <1>3, <1>4, <1>5, <1>6

(* The threads at a place, and those that have left it or come to it.      *)
LEMMA AtMoved ==
  ASSUME Assumptions, TypeOK, NEW t \in Threads, NEW l, Goto(t, l), NEW k
  PROVE  /\ Cardinality(At(k)) \in Nat /\ Cardinality(At(k)') \in Nat
         /\ k = l /\ pc[t] # l => Cardinality(At(k)') = Cardinality(At(k)) + 1
         /\ k # l /\ pc[t] = k => Cardinality(At(k)') = Cardinality(At(k)) - 1
         /\ k # l /\ pc[t] # k => At(k)' = At(k)
  <1>1. pc' = [pc EXCEPT ![t] = l] BY DEF Goto
  <1>2. \A u \in Threads : pc'[u] = IF u = t THEN l ELSE pc[u] BY <1>1 DEF TypeOK
  <1>3. At(k) \subseteq Threads /\ At(k)' \subseteq Threads BY DEF At
  <1>4. k = l => At(k)' = At(k) \cup {t} BY <1>2 DEF At
  <1>5. k # l => At(k)' = At(k) \ {t} BY <1>2 DEF At
  <1>6. t \in At(k) <=> pc[t] = k BY DEF At
  <1>7. Cardinality(At(k)) \in Nat /\ Cardinality(At(k)') \in Nat BY <1>3, Count
  <1>8. k = l /\ pc[t] # l => Cardinality(At(k)') = Cardinality(At(k)) + 1
    <2> SUFFICES ASSUME k = l, pc[t] # l PROVE Cardinality(At(k)') = Cardinality(At(k)) + 1 OBVIOUS
    <2>1. t \in Threads \ At(k) BY <1>6
    <2>2. Cardinality(At(k) \cup {t}) = Cardinality(At(k)) + 1 BY <2>1, <1>3, Count
    <2> QED BY <2>2, <1>4
  <1>9. k # l /\ pc[t] = k => Cardinality(At(k)') = Cardinality(At(k)) - 1
    <2> SUFFICES ASSUME k # l, pc[t] = k PROVE Cardinality(At(k)') = Cardinality(At(k)) - 1 OBVIOUS
    <2>1. t \in At(k) BY <1>6
    <2>2. Cardinality(At(k) \ {t}) = Cardinality(At(k)) - 1 BY <2>1, <1>3, Count
    <2> QED BY <2>2, <1>5
  <1>10. k # l /\ pc[t] # k => At(k)' = At(k) BY <1>5, <1>6
  <1> QED BY <1>7, <1>8, <1>9, <1>10

(* The readers that have been woken, likewise.                             *)
LEMMA CalledMoved ==
  ASSUME Assumptions, TypeOK, NEW t \in Threads, NEW l, Goto(t, l), NEW s \in BOOLEAN,
         status' = [status EXCEPT ![t] = s]
  PROVE  /\ Cardinality(Called) \in Nat /\ Cardinality(Called') \in Nat
         /\ (l = "acquire_shared" /\ s) /\ ~(pc[t] = "acquire_shared" /\ status[t])
              => Cardinality(Called') = Cardinality(Called) + 1
         /\ ~(l = "acquire_shared" /\ s) /\ (pc[t] = "acquire_shared" /\ status[t])
              => Cardinality(Called') = Cardinality(Called) - 1 /\ Called # {}
         /\ ~(l = "acquire_shared" /\ s) /\ ~(pc[t] = "acquire_shared" /\ status[t]) => Called' = Called
         /\ ~(l = "acquire_shared" /\ s) => Called' \subseteq Called
  <1>1. pc' = [pc EXCEPT ![t] = l] BY DEF Goto
  <1>2. \A u \in Threads : pc'[u] = IF u = t THEN l ELSE pc[u] BY <1>1 DEF TypeOK
  <1>3. \A u \in Threads : status'[u] = IF u = t THEN s ELSE status[u] BY DEF TypeOK
  <1>4. Called \subseteq Threads /\ Called' \subseteq Threads BY DEF Called, At
  <1>5. (l = "acquire_shared" /\ s) => Called' = Called \cup {t} BY <1>2, <1>3 DEF Called, At
  <1>6. ~(l = "acquire_shared" /\ s) => Called' = Called \ {t} BY <1>2, <1>3 DEF Called, At
  <1>7. t \in Called <=> pc[t] = "acquire_shared" /\ status[t] BY DEF Called, At
  <1>8. Cardinality(Called) \in Nat /\ Cardinality(Called') \in Nat BY <1>4, Count
  <1>9. t \notin Called => Cardinality(Called \cup {t}) = Cardinality(Called) + 1 BY <1>4, Count
  <1>10. t \in Called => Cardinality(Called \ {t}) = Cardinality(Called) - 1 BY <1>4, Count
  <1>11. t \notin Called => Called \ {t} = Called OBVIOUS
  <1> HIDE DEF Called, At
  <1> QED BY <1>5, <1>6, <1>7, <1>8, <1>9, <1>10, <1>11

LEMMA CalledLeft ==
  ASSUME Assumptions, TypeOK, NEW t \in Threads, NEW l, l # "acquire_shared", Goto(t, l), status' = status
  PROVE  /\ Called' \subseteq Called
         /\ ~(pc[t] = "acquire_shared" /\ status[t]) => Called' = Called
         /\ pc[t] = "acquire_shared" /\ status[t] => Cardinality(Called') = Cardinality(Called) - 1 /\ Called # {}
  <1>1. pc' = [pc EXCEPT ![t] = l] BY DEF Goto
  <1>2. \A u \in Threads : pc'[u] = IF u = t THEN l ELSE pc[u] BY <1>1 DEF TypeOK
  <1>3. Called \subseteq Threads BY DEF Called, At
  <1>4. Called' = Called \ {t} BY <1>2 DEF Called, At
  <1>5. t \in Called <=> pc[t] = "acquire_shared" /\ status[t] BY DEF Called, At
  <1>6. t \in Called => Cardinality(Called \ {t}) = Cardinality(Called) - 1 BY <1>3, Count
  <1> QED BY <1>4, <1>5, <1>6

(* What is held can be counted.                                            *)
LEMMA DepthsFinite ==
  ASSUME Assumptions, NEW m
  PROVE  IsFiniteSet(Depths(m)) /\ Cardinality(Depths(m)) \in Nat /\ (Cardinality(Depths(m)) = 0 <=> Depths(m) = {})
  <1>1. IsFiniteSet(Threads) BY DEF Assumptions, ThreadsAssumption
  <1>2. IsFiniteSet(1 .. MaxCalls) BY FS_Interval DEF Assumptions, BoundAssumption
  <1>3. IsFiniteSet(Threads \X (1 .. MaxCalls)) BY <1>1, <1>2, FS_Product
  <1>4. Depths(m) \subseteq Threads \X (1 .. MaxCalls) BY DEF Depths
  <1>5. IsFiniteSet(Depths(m)) BY <1>3, <1>4, FS_Subset
  <1> QED BY <1>5, FS_CardinalityType, FS_EmptySet

(* One more acquisition by t.                                              *)
LEMMA DepthsMore ==
  ASSUME Assumptions, TypeOK, NEW t \in Threads, NEW m \in {"shared", "exclusive"}, Granted(t, m),
         held[t].mode \in {"none", m}, held[t].mode = "none" <=> held[t].depth = 0, held[t].depth + 1 <= MaxCalls
  PROVE  /\ Cardinality(Depths(m)') = Cardinality(Depths(m)) + 1
         /\ \A n \in {"shared", "exclusive"} \ {m} : Depths(n)' = Depths(n)
  <1> DEFINE d == held[t].depth
  <1>1. d \in Nat /\ MaxCalls \in Nat BY DEF TypeOK, Assumptions, BoundAssumption
  <1>2. \A u \in Threads \ {t} : held'[u] = held[u] BY DEF Granted, TypeOK
  <1>3. held'[t] = [mode |-> m, depth |-> d + 1] BY DEF Granted, TypeOK
  <1>4. held'[t].mode = m /\ held'[t].depth = d + 1 BY <1>3
  <1> HIDE DEF d
  <1>5. Depths(m)' = Depths(m) \cup {<<t, d + 1>>}
    <2>1. <<t, d + 1>> \in Threads \X (1 .. MaxCalls) BY <1>1 DEF d
    <2>2. \A i \in 1 .. MaxCalls : i <= d + 1 <=> i <= d \/ i = d + 1 BY <1>1
    <2>3. \A i \in 1 .. MaxCalls : held[t].mode = "none" => ~(i <= d) BY <1>1 DEF d
    <2>4. \A u \in Threads, i \in 1 .. MaxCalls :
            (held'[u].mode = m /\ i <= held'[u].depth) <=> (held[u].mode = m /\ i <= held[u].depth) \/ (u = t /\ i = d + 1)
      <3> TAKE u \in Threads, i \in 1 .. MaxCalls
      <3>1. CASE u = t BY <3>1, <1>4, <2>2, <2>3 DEF d
      <3>2. CASE u # t BY <3>2, <1>2
      <3> QED BY <3>1, <3>2
    <2> QED BY <2>1, <2>4 DEF Depths
  <1>6. <<t, d + 1>> \notin Depths(m) BY <1>1 DEF Depths, d
  <1>7. Cardinality(Depths(m) \cup {<<t, d + 1>>}) = Cardinality(Depths(m)) + 1 BY <1>6, DepthsFinite, FS_AddElement
  <1>8. \A n \in {"shared", "exclusive"} \ {m} : Depths(n)' = Depths(n)
    <2> TAKE n \in {"shared", "exclusive"} \ {m}
    <2>1. \A u \in Threads, i \in 1 .. MaxCalls :
            (held'[u].mode = n /\ i <= held'[u].depth) <=> (held[u].mode = n /\ i <= held[u].depth)
      <3> TAKE u \in Threads, i \in 1 .. MaxCalls
      <3>1. CASE u = t BY <3>1, <1>4
      <3>2. CASE u # t BY <3>2, <1>2
      <3> QED BY <3>1, <3>2
    <2> QED BY <2>1 DEF Depths
  <1> QED BY <1>5, <1>7, <1>8

(* What RtlReleaseResource does to what t holds.                           *)
GivenBack(t) ==
  held' = [held EXCEPT ![t] = IF @.depth = 1 THEN Free ELSE [mode |-> @.mode, depth |-> @.depth - 1]]

(* One acquisition less.                                                   *)
LEMMA DepthsLess ==
  ASSUME Assumptions, TypeOK, NEW t \in Threads, NEW m \in {"shared", "exclusive"}, GivenBack(t),
         held[t].mode = m, held[t].depth > 0, held[t].depth <= MaxCalls
  PROVE  /\ Cardinality(Depths(m)') = Cardinality(Depths(m)) - 1
         /\ Depths(m) # {}
         /\ \A n \in {"shared", "exclusive"} \ {m} : Depths(n)' = Depths(n)
  <1> DEFINE d == held[t].depth
  <1>1. d \in Nat /\ MaxCalls \in Nat BY DEF TypeOK, Assumptions, BoundAssumption
  <1>2. \A u \in Threads \ {t} : held'[u] = held[u] BY DEF GivenBack, TypeOK
  <1>3. held'[t] = IF d = 1 THEN Free ELSE [mode |-> m, depth |-> d - 1] BY DEF GivenBack, TypeOK
  <1>4. held'[t].depth = d - 1 /\ held'[t].mode = IF d = 1 THEN "none" ELSE m BY <1>1, <1>3 DEF Free
  <1> HIDE DEF d
  <1>5. Depths(m)' = Depths(m) \ {<<t, d>>}
    <2>1. \A i \in 1 .. MaxCalls : i <= d - 1 <=> i <= d /\ i # d BY <1>1
    <2>2. \A i \in 1 .. MaxCalls : d = 1 => ~(i <= d /\ i # d) BY <1>1
    <2>3. \A u \in Threads, i \in 1 .. MaxCalls :
            (held'[u].mode = m /\ i <= held'[u].depth) <=> (held[u].mode = m /\ i <= held[u].depth) /\ ~(u = t /\ i = d)
      <3> TAKE u \in Threads, i \in 1 .. MaxCalls
      <3>1. CASE u = t BY <3>1, <1>4, <2>1, <2>2 DEF d
      <3>2. CASE u # t BY <3>2, <1>2
      <3> QED BY <3>1, <3>2
    <2> QED BY <2>3 DEF Depths
  <1>6. <<t, d>> \in Depths(m) BY <1>1 DEF Depths, d
  <1>7. Cardinality(Depths(m) \ {<<t, d>>}) = Cardinality(Depths(m)) - 1 BY <1>6, DepthsFinite, FS_RemoveElement
  <1>8. \A n \in {"shared", "exclusive"} \ {m} : Depths(n)' = Depths(n)
    <2> TAKE n \in {"shared", "exclusive"} \ {m}
    <2>1. \A u \in Threads, i \in 1 .. MaxCalls :
            (held'[u].mode = n /\ i <= held'[u].depth) <=> (held[u].mode = n /\ i <= held[u].depth)
      <3> TAKE u \in Threads, i \in 1 .. MaxCalls
      <3>1. CASE u = t BY <3>1, <1>4
      <3>2. CASE u # t BY <3>2, <1>2
      <3> QED BY <3>1, <3>2
    <2> QED BY <2>1 DEF Depths
  <1> QED BY <1>5, <1>6, <1>7, <1>8

-----------------------------------------------------------------------------
(* What the counters tell.                                                 *)

(* The counts of CountsExact are natural numbers.                          *)
LEMMA CountTypes ==
  ASSUME Assumptions, TypeOK
  PROVE  /\ Cardinality(Depths("shared")) \in Nat /\ Cardinality(Depths("exclusive")) \in Nat
         /\ Cardinality(Called) \in Nat /\ hSharedReleaseSemaphore \in Nat /\ iNumberActive \in Int
         /\ hExclusiveReleaseSemaphore \in Nat /\ uSharedWaiters \in Nat /\ uExclusiveWaiters \in Nat
         /\ \A k : Cardinality(At(k)) \in Nat
         /\ (Cardinality(Called) = 0 <=> Called = {})
  <1>1. Called \subseteq Threads /\ \A k : At(k) \subseteq Threads BY DEF Called, At
  <1>2. \A k : Cardinality(At(k)) \in Nat BY <1>1, Count
  <1>3. Cardinality(Called) \in Nat /\ (Cardinality(Called) = 0 <=> Called = {}) BY <1>1, Count
  <1>4. Cardinality(Depths("shared")) \in Nat /\ Cardinality(Depths("exclusive")) \in Nat BY DepthsFinite
  <1> QED BY <1>2, <1>3, <1>4 DEF TypeOK

(* Somebody holds the lock in a mode just if its depths are not empty.     *)
LEMMA HolderSeen ==
  ASSUME Assumptions, TypeOK, LocalOK, NEW m \in {"shared", "exclusive"}
  PROVE  Depths(m) # {} <=> \E t \in Threads : held[t].mode = m
  <1>1. ASSUME Depths(m) # {} PROVE \E t \in Threads : held[t].mode = m BY <1>1 DEF Depths
  <1>2. ASSUME NEW t \in Threads, held[t].mode = m PROVE Depths(m) # {}
    <2>1. held[t].depth \in Nat /\ left[t] \in Nat /\ MaxCalls \in Nat BY DEF TypeOK, Assumptions, BoundAssumption
    <2>2. held[t].depth # 0 /\ held[t].depth <= MaxCalls BY <1>2, <2>1 DEF LocalOK, LocalAt
    <2>3. 1 \in 1 .. MaxCalls /\ 1 <= held[t].depth BY <2>1, <2>2
    <2>4. <<t, 1>> \in Depths(m) BY <1>2, <2>3 DEF Depths
    <2> QED BY <2>4
  <1> QED BY <1>1, <1>2

(* Below zero there is a writer, the owner; from zero on there is none,    *)
(* and at zero there is nobody, awake or being woken.                      *)
LEMMA NumberTells ==
  ASSUME Assumptions, RInv
  PROVE  /\ iNumberActive < 0 => /\ hOwningThreadId \in Threads /\ held[hOwningThreadId].mode = "exclusive"
                                 /\ Alone(hOwningThreadId)
         /\ iNumberActive >= 0 => /\ \A t \in Threads : held[t].mode # "exclusive"
                                  /\ Depths("exclusive") = {} /\ Cardinality(Depths("exclusive")) = 0
         /\ iNumberActive = 0 => /\ \A t \in Threads : held[t].mode = "none"
                                 /\ Called = {} /\ hSharedReleaseSemaphore = 0
  <1> DEFINE nS == Cardinality(Depths("shared"))
             nX == Cardinality(Depths("exclusive"))
             nC == Cardinality(Called)
  <1>1. nS \in Nat /\ nX \in Nat /\ nC \in Nat /\ hSharedReleaseSemaphore \in Nat /\ iNumberActive \in Int
    BY CountTypes DEF RInv
  <1>2. iNumberActive = nS + nC + hSharedReleaseSemaphore - nX BY DEF RInv, CountsExact
  <1>3. (nX = 0 <=> Depths("exclusive") = {}) /\ (nS = 0 <=> Depths("shared") = {}) BY DepthsFinite
  <1>4. \A t \in Threads : held[t].mode \in {"none", "shared", "exclusive"} BY DEF RInv, TypeOK
  <1>5. Depths("exclusive") # {} <=> \E t \in Threads : held[t].mode = "exclusive" BY HolderSeen DEF RInv
  <1>6. Depths("shared") # {} <=> \E t \in Threads : held[t].mode = "shared" BY HolderSeen DEF RInv
  <1>7. nC = 0 <=> Called = {} BY CountTypes DEF RInv
  <1>8. ASSUME NEW t \in Threads, held[t].mode = "exclusive" PROVE iNumberActive < 0 /\ Alone(t) /\ hOwningThreadId = t
    <2>1. Alone(t) BY <1>8 DEF RInv, WriterOK
    <2>2. held[t].depth \in Nat /\ held[t].depth # 0 BY <1>8 DEF RInv, LocalOK, LocalAt, TypeOK
    <2> QED BY <2>1, <2>2 DEF Alone
  <1> HIDE DEF nS, nX, nC
  <1>9. iNumberActive < 0 => nX # 0 BY <1>1, <1>2
  <1>10. iNumberActive >= 0 => \A t \in Threads : held[t].mode # "exclusive" BY <1>8, <1>1
  <1>11. iNumberActive >= 0 => Depths("exclusive") = {} /\ nX = 0 BY <1>10, <1>5, <1>3
  <1>12. iNumberActive = 0 => nS = 0 /\ nC = 0 /\ hSharedReleaseSemaphore = 0 BY <1>1, <1>2, <1>11
  <1>13. iNumberActive = 0 => \A t \in Threads : held[t].mode = "none" BY <1>10, <1>12, <1>3, <1>6, <1>4, <1>1
  <1>14. iNumberActive < 0 => \E t \in Threads : held[t].mode = "exclusive" BY <1>9, <1>3, <1>5
  <1> QED BY <1>7, <1>8, <1>10, <1>11, <1>12, <1>13, <1>14 DEF nX

-----------------------------------------------------------------------------
(* Types and what a thread knows of itself, step by step.                  *)

Labels == {"idle", "acquire_exclusive", "acquire_shared", "wait_exclusive", "wait_shared"}
Held == [mode : {"none", "shared", "exclusive"}, depth : Nat]

(* A thread that moves and is granted nothing.                             *)
LEMMA MoveTypes ==
  ASSUME TypeOK, NEW t \in Threads, NEW l \in Labels, Goto(t, l),
         call' = call \/ call' = [call EXCEPT ![t] = "none"]
  PROVE  pc' \in [Threads -> Labels] /\ call' \in [Threads -> AllOps \cup {"none"}]
  <1>1. pc \in [Threads -> Labels] /\ call \in [Threads -> AllOps \cup {"none"}] BY DEF TypeOK, Labels
  <1> QED BY <1>1 DEF Goto

LEMMA GrantTypes ==
  ASSUME TypeOK, NEW t \in Threads, NEW m \in {"shared", "exclusive"}, Granted(t, m)
  PROVE  held' \in [Threads -> Held]
  <1>1. held \in [Threads -> Held] BY DEF TypeOK, Held
  <1>2. [mode |-> m, depth |-> held[t].depth + 1] \in Held BY <1>1 DEF Held
  <1> QED BY <1>1, <1>2 DEF Granted

LEMMA GiveTypes ==
  ASSUME TypeOK, NEW t \in Threads, GivenBack(t), held[t].depth > 0
  PROVE  held' \in [Threads -> Held]
  <1>1. held \in [Threads -> Held] BY DEF TypeOK, Held
  <1>2. [mode |-> held[t].mode, depth |-> held[t].depth - 1] \in Held BY <1>1 DEF Held
  <1>3. Free \in Held BY DEF Held, Free
  <1> QED BY <1>1, <1>2, <1>3 DEF GivenBack

(* What the counters become when the lock is given back.                   *)
LEMMA ReleaseTypes ==
  ASSUME TypeOK, release_shared \/ release_exclusive
  PROVE  /\ iNumberActive' \in Int /\ uExclusiveWaiters' \in Nat /\ uSharedWaiters' \in Nat
         /\ hOwningThreadId' \in Threads \cup {Nobody}
         /\ hExclusiveReleaseSemaphore' \in Nat /\ hSharedReleaseSemaphore' \in Nat
  BY DEF TypeOK, release_shared, release_exclusive, LastReader, wake_writer, wake_readers, WokenReaders,
         wake_nobody, sems, Nobody

LEMMA NextTypes == ASSUME Assumptions, TypeOK, Next PROVE TypeOK'
  <1> PICK t \in Threads : (\E op \in AllOps : Begin(t, op)) \/ Step(t) \/ RtlReleaseResource(t) BY DEF Next
  <1>0. TypeOK <=>
        /\ iNumberActive \in Int /\ uExclusiveWaiters \in Nat /\ uSharedWaiters \in Nat
        /\ hOwningThreadId \in Threads \cup {Nobody}
        /\ hExclusiveReleaseSemaphore \in Nat /\ hSharedReleaseSemaphore \in Nat
        /\ pc \in [Threads -> Labels] /\ call \in [Threads -> AllOps \cup {"none"}]
        /\ left \in [Threads -> 0 .. MaxCalls] /\ status \in [Threads -> BOOLEAN]
        /\ held \in [Threads -> Held]
    BY DEF TypeOK, Labels, Held
  <1>0a. (TypeOK <=>
        /\ iNumberActive \in Int /\ uExclusiveWaiters \in Nat /\ uSharedWaiters \in Nat
        /\ hOwningThreadId \in Threads \cup {Nobody}
        /\ hExclusiveReleaseSemaphore \in Nat /\ hSharedReleaseSemaphore \in Nat
        /\ pc \in [Threads -> Labels] /\ call \in [Threads -> AllOps \cup {"none"}]
        /\ left \in [Threads -> 0 .. MaxCalls] /\ status \in [Threads -> BOOLEAN]
        /\ held \in [Threads -> Held])'
    BY DEF TypeOK, Labels, Held
  <1>m. {"idle", "acquire_exclusive", "acquire_shared", "wait_exclusive", "wait_shared"} \subseteq Labels BY DEF Labels
  <1>1. ASSUME NEW op \in AllOps, Begin(t, op) PROVE TypeOK'
    <2>1. left[t] \in 0 .. MaxCalls /\ left[t] - 1 \in 0 .. MaxCalls /\ MaxCalls \in Nat
      BY <1>1, <1>0 DEF Begin, Assumptions, BoundAssumption
    <2>2. left' \in [Threads -> 0 .. MaxCalls] BY <1>0, <1>1, <2>1 DEF Begin
    <2>3. pc' \in [Threads -> Labels] /\ call' \in [Threads -> AllOps \cup {"none"}] /\ status' \in [Threads -> BOOLEAN]
      BY <1>0, <1>1, <1>m DEF Begin, Goto
    <2> QED BY <1>0, <1>0a, <1>1, <2>2, <2>3 DEF Begin, lock, sems
  <1>2. CASE acquire_again(t)
    <2>1. pc' \in [Threads -> Labels] /\ call' \in [Threads -> AllOps \cup {"none"}]
      BY <1>2, <1>m, MoveTypes DEF acquire_again, Return
    <2>2. held' \in [Threads -> Held] BY <1>2, GrantTypes DEF acquire_again
    <2> QED BY <1>0, <1>0a, <1>2, <2>1, <2>2 DEF acquire_again, sems
  <1>3. CASE acquire_exclusive(t)
    <2>1. pc' \in [Threads -> Labels] /\ call' \in [Threads -> AllOps \cup {"none"}]
      BY <1>3, <1>m, MoveTypes DEF acquire_exclusive, Return
    <2>2. held' \in [Threads -> Held] BY <1>0, <1>3, GrantTypes DEF acquire_exclusive
    <2> QED BY <1>0, <1>0a, <1>3, <2>1, <2>2 DEF acquire_exclusive, sems
  <1>4. CASE acquire_shared(t)
    <2>1. pc' \in [Threads -> Labels] /\ call' \in [Threads -> AllOps \cup {"none"}]
      BY <1>4, <1>m, MoveTypes DEF acquire_shared, Return
    <2>2. held' \in [Threads -> Held] BY <1>0, <1>4, GrantTypes DEF acquire_shared
    <2> QED BY <1>0, <1>0a, <1>4, <2>1, <2>2 DEF acquire_shared, sems
  <1>5. CASE wait_exclusive(t)
    <2>1. pc' \in [Threads -> Labels] /\ call' = call BY <1>5, <1>m, MoveTypes DEF wait_exclusive
    <2> QED BY <1>0, <1>0a, <1>5, <2>1 DEF wait_exclusive, lock
  <1>6. CASE wait_shared(t)
    <2>1. pc' \in [Threads -> Labels] /\ call' = call BY <1>6, <1>m, MoveTypes DEF wait_shared
    <2>2. status' \in [Threads -> BOOLEAN] BY <1>0, <1>6 DEF wait_shared
    <2> QED BY <1>0, <1>0a, <1>6, <2>1, <2>2 DEF wait_shared, lock
  <1>7. CASE RtlReleaseResource(t)
    <2>1. held' \in [Threads -> Held] BY <1>7, GiveTypes DEF RtlReleaseResource, GivenBack
    <2>2. /\ iNumberActive' \in Int /\ uExclusiveWaiters' \in Nat /\ uSharedWaiters' \in Nat
          /\ hOwningThreadId' \in Threads \cup {Nobody}
          /\ hExclusiveReleaseSemaphore' \in Nat /\ hSharedReleaseSemaphore' \in Nat
      BY <1>7, ReleaseTypes DEF RtlReleaseResource
    <2> QED BY <1>0, <1>0a, <1>7, <2>1, <2>2 DEF RtlReleaseResource
  <1> QED BY <1>1, <1>2, <1>3, <1>4, <1>5, <1>6, <1>7 DEF Step

LEMMA NextLocal == ASSUME Assumptions, RInv, Next PROVE LocalOK'
  <1> PICK t \in Threads : (\E op \in AllOps : Begin(t, op)) \/ Step(t) \/ RtlReleaseResource(t) BY DEF Next
  <1>1. LocalAt(t) /\ MaxCalls \in Nat /\ held[t].depth \in Nat /\ left[t] \in Nat
    BY DEF RInv, LocalOK, TypeOK, Assumptions, BoundAssumption
  <1>2. /\ pc \in [Threads -> Labels] /\ call \in [Threads -> AllOps \cup {"none"}]
        /\ left \in [Threads -> 0 .. MaxCalls] /\ held \in [Threads -> Held]
    BY DEF RInv, TypeOK, Labels, Held
  <1>3. ASSUME NEW u \in Threads \ {t} PROVE LocalAt(u)'
    <2>1. LocalAt(u) BY DEF RInv, LocalOK
    <2>2. pc'[u] = pc[u] /\ call'[u] = call[u]
      BY <1>2 DEF Step, Begin, acquire_again, acquire_exclusive, acquire_shared, wait_exclusive, wait_shared,
                  RtlReleaseResource, Return, Goto
    <2>3. left'[u] = left[u] /\ held'[u] = held[u]
      BY <1>2 DEF Step, Begin, acquire_again, acquire_exclusive, acquire_shared, wait_exclusive, wait_shared,
                  RtlReleaseResource, Granted
    <2> QED BY <2>1, <2>2, <2>3 DEF LocalAt
  <1>4. LocalAt(t)'
    <2>1. ASSUME NEW op \in AllOps, Begin(t, op) PROVE LocalAt(t)'
      <3>1. pc'[t] \in {"acquire_exclusive", "acquire_shared"} /\ left'[t] = left[t] - 1 /\ held' = held /\ pc[t] = "idle"
            /\ call'[t] = op /\ (pc'[t] = "acquire_exclusive" => op \in {"exclusive", "try_exclusive"})
        BY <1>2, <2>1 DEF Begin, Goto
      <3> QED BY <1>1, <3>1 DEF LocalAt
    <2>2. CASE acquire_again(t)
      <3>1. held[t].mode = "exclusive" BY <2>2, NumberTells DEF acquire_again, Recursive
      <3>2. pc'[t] = "idle" /\ pc[t] # "idle" /\ left' = left /\ held'[t] = [mode |-> "exclusive", depth |-> held[t].depth + 1]
        BY <1>2, <2>2 DEF acquire_again, Return, Goto, Granted
      <3>3. held'[t].mode = "exclusive" /\ held'[t].depth = held[t].depth + 1 BY <3>2
      <3> QED BY <1>1, <3>2, <3>3 DEF LocalAt
    <2>3. ASSUME NEW m \in {"shared", "exclusive"}, Granted(t, m), Return(t), left' = left, pc[t] # "idle" PROVE LocalAt(t)'
      <3>1. pc'[t] = "idle" /\ held'[t] = [mode |-> m, depth |-> held[t].depth + 1]
        BY <1>2, <2>3 DEF Return, Goto, Granted
      <3>2. held'[t].mode = m /\ held'[t].depth = held[t].depth + 1 BY <3>1
      <3> QED BY <1>1, <2>3, <3>1, <3>2 DEF LocalAt
    <2>4. ASSUME NEW l \in {"idle", "wait_shared", "acquire_shared"}, Goto(t, l), left' = left,
                 pc[t] # "idle", held' = held PROVE LocalAt(t)'
      <3>1. pc'[t] = l BY <1>2, <2>4 DEF Goto
      <3> QED BY <1>1, <2>4, <3>1 DEF LocalAt
    <2>5. CASE acquire_exclusive(t)
      <3>1. CASE Goto(t, "wait_exclusive")
        <4>1. pc'[t] = "wait_exclusive" BY <1>2, <3>1 DEF Goto
        <4>2. held' = held /\ Waits(t) /\ call' = call /\ left' = left /\ pc[t] # "idle"
          BY <1>2, <2>5, <4>1 DEF acquire_exclusive, Return, Goto
        <4>3. call[t] = "exclusive" BY <1>1, <2>5, <4>2 DEF acquire_exclusive, Waits, LocalAt
        <4> QED BY <1>1, <4>1, <4>2, <4>3 DEF LocalAt
      <3>2. CASE ~Goto(t, "wait_exclusive") BY <2>3, <2>4, <2>5, <3>2 DEF acquire_exclusive, Return
      <3> QED BY <3>1, <3>2
    <2>6. CASE acquire_shared(t) BY <2>3, <2>4, <2>6 DEF acquire_shared, Return
    <2>7. CASE wait_exclusive(t)
      <3>1. pc'[t] = "acquire_exclusive" /\ pc[t] = "wait_exclusive" /\ call' = call /\ left' = left /\ held' = held
        BY <1>2, <2>7 DEF wait_exclusive, Goto
      <3> QED BY <1>1, <3>1 DEF LocalAt
    <2>8. CASE wait_shared(t) BY <2>4, <2>8 DEF wait_shared
    <2>9. CASE RtlReleaseResource(t)
      <3>1. held[t].depth > 0 /\ pc' = pc /\ call' = call /\ left' = left BY <2>9 DEF RtlReleaseResource
      <3>2. held'[t] = IF held[t].depth = 1 THEN Free ELSE [mode |-> held[t].mode, depth |-> held[t].depth - 1]
        BY <1>2, <2>9 DEF RtlReleaseResource
      <3>3. held'[t].depth = held[t].depth - 1 /\ held'[t].mode = IF held[t].depth = 1 THEN "none" ELSE held[t].mode
        BY <1>1, <3>2 DEF Free
      <3> QED BY <1>1, <3>1, <3>3 DEF LocalAt
    <2> QED BY <2>1, <2>2, <2>5, <2>6, <2>7, <2>8, <2>9 DEF Step
  <1> QED BY <1>3, <1>4 DEF LocalOK

-----------------------------------------------------------------------------
(* The counters, step by step.                                             *)

Rest == WriterOK /\ CountsExact /\ NoStuckWaiter

(* A writer that has been woken or has just come.                          *)
Coming(t) == pc[t] = "acquire_exclusive" /\ Waits(t)

(* A step of t changes pc and call of no other thread.                     *)
Single(t) == \A u \in Threads \ {t} : pc'[u] = pc[u] /\ call'[u] = call[u]

LEMMA OneMoves ==
  ASSUME TypeOK, NEW t \in Threads, NEW l, Goto(t, l), call' = call \/ \E c : call' = [call EXCEPT ![t] = c]
  PROVE  Single(t) /\ pc'[t] = l
  <1>1. pc \in [Threads -> Labels] /\ call \in [Threads -> AllOps \cup {"none"}] BY DEF TypeOK, Labels
  <1> QED BY <1>1 DEF Single, Goto

LEMMA WayKept ==
  ASSUME NEW t \in Threads, Single(t), WriterOnItsWay, TypeOK, TypeOK',
         hExclusiveReleaseSemaphore' >= hExclusiveReleaseSemaphore, Coming(t) => Coming(t)'
  PROVE  WriterOnItsWay'
  <1>1. CASE hExclusiveReleaseSemaphore > 0
    <2>1. hExclusiveReleaseSemaphore' > 0 BY <1>1 DEF TypeOK
    <2> QED BY <2>1 DEF WriterOnItsWay
  <1>2. CASE \E u \in At("acquire_exclusive") : Waits(u)
    <2>1. PICK u \in Threads : Coming(u) BY <1>2 DEF At, Coming
    <2>2. Coming(u)' BY <2>1 DEF Coming, Single, Waits
    <2> QED BY <2>2 DEF WriterOnItsWay, At, Coming
  <1> QED BY <1>1, <1>2 DEF WriterOnItsWay

(* A thread that starts a call, or whose attempt fails.                    *)
LEMMA QuietRest ==
  ASSUME Assumptions, RInv, TypeOK', NEW t \in Threads, NEW l \in {"idle", "acquire_exclusive", "acquire_shared"}, Goto(t, l),
         pc[t] \notin {"wait_exclusive", "wait_shared"}, Single(t),
         UNCHANGED <<lock, sems, held>>, Called' = Called, Coming(t) => Coming(t)'
  PROVE  Rest'
  <1>1. At("wait_exclusive")' = At("wait_exclusive") /\ At("wait_shared")' = At("wait_shared") BY AtMoved DEF RInv
  <1>2. \A m : Depths(m)' = Depths(m) BY DEF Depths
  <1>3. WriterOK' BY DEF RInv, WriterOK, Alone, lock, sems
  <1>4. CountsExact' BY <1>1, <1>2 DEF RInv, CountsExact, lock, sems
  <1>5. WriterOnItsWay => WriterOnItsWay'
    <2>1. hExclusiveReleaseSemaphore' >= hExclusiveReleaseSemaphore BY DEF sems, RInv, TypeOK
    <2> QED BY <2>1, WayKept DEF RInv
  <1>6. NoStuckWaiter' BY <1>5 DEF RInv, NoStuckWaiter, lock, sems
  <1> QED BY <1>3, <1>4, <1>6 DEF Rest

LEMMA BeginRest == ASSUME Assumptions, RInv, TypeOK', NEW t \in Threads, NEW op \in AllOps, Begin(t, op) PROVE Rest'
  <1>0. TypeOK BY DEF RInv
  <1>1. PICK l \in {"acquire_exclusive", "acquire_shared"} : Goto(t, l) BY DEF Begin
  <1>2. pc[t] = "idle" /\ UNCHANGED <<lock, sems, held>> /\ status' = [status EXCEPT ![t] = FALSE] BY DEF Begin
  <1>3. Single(t) BY <1>0, <1>1, OneMoves DEF Begin
  <1>4. Called' = Called BY <1>0, <1>1, <1>2, CalledMoved
  <1>5. ~Coming(t) BY <1>2 DEF Coming
  <1> QED BY <1>1, <1>2, <1>3, <1>4, <1>5, QuietRest

(* The writer takes the lock once more.                                    *)
LEMMA AgainRest == ASSUME Assumptions, RInv, TypeOK', NEW t \in Threads, acquire_again(t) PROVE Rest'
  <1>0. TypeOK BY DEF RInv
  <1>1. iNumberActive < 0 /\ hOwningThreadId = t /\ Granted(t, "exclusive") /\ Goto(t, "idle")
        /\ iNumberActive' = iNumberActive - 1 /\ hOwningThreadId' = hOwningThreadId /\ status' = status
        /\ UNCHANGED <<sems, uExclusiveWaiters, uSharedWaiters>> /\ pc[t] \in {"acquire_exclusive", "acquire_shared"}
    BY DEF acquire_again, Recursive, Return
  <1>2. held[t].mode = "exclusive" /\ Alone(t) BY <1>1, NumberTells
  <1>3. held[t].depth \in Nat /\ held[t].depth + 1 <= MaxCalls /\ held[t].depth # 0
    <2>1. LocalAt(t) /\ held[t].depth \in Nat /\ left[t] \in Nat /\ MaxCalls \in Nat
      BY DEF RInv, LocalOK, TypeOK, Assumptions, BoundAssumption
    <2> QED BY <1>1, <1>2, <2>1 DEF LocalAt
  <1>4. Cardinality(Depths("exclusive")') = Cardinality(Depths("exclusive")) + 1 /\ Depths("shared")' = Depths("shared")
    BY <1>0, <1>1, <1>2, <1>3, DepthsMore
  <1>5. Called' = {}
    <2>1. Called = {} BY <1>2 DEF Alone
    <2>3. Called' \subseteq Called BY <1>0, <1>1, CalledLeft
    <2> QED BY <2>1, <2>3
  <1>6. \A u \in Threads \ {t} : held'[u] = held[u] /\ held[u].mode = "none"
    BY <1>0, <1>1, <1>2 DEF Granted, Alone, TypeOK
  <1>7. held'[t] = [mode |-> "exclusive", depth |-> held[t].depth + 1] BY <1>0, <1>1 DEF Granted, TypeOK
  <1>8. held'[t].mode = "exclusive" /\ held'[t].depth = held[t].depth + 1 BY <1>7
  <1>9. Alone(t)'
    <2>1. iNumberActive' = -held'[t].depth BY <1>1, <1>2, <1>3, <1>8 DEF Alone
    <2>2. hSharedReleaseSemaphore' = 0 /\ hOwningThreadId' = t BY <1>1, <1>2 DEF Alone, sems
    <2> QED BY <1>5, <1>6, <2>1, <2>2 DEF Alone
  <1>10. WriterOK' BY <1>6, <1>8, <1>9 DEF WriterOK
  <1>11. CountsExact'
    <2>1. At("wait_exclusive")' = At("wait_exclusive") /\ At("wait_shared")' = At("wait_shared")
      BY <1>0, <1>1, AtMoved
    <2>2. Called' = Called BY <1>2, <1>5 DEF Alone
    <2>3. iNumberActive' = Cardinality(Depths("shared")') + Cardinality(Called') + hSharedReleaseSemaphore'
                           - Cardinality(Depths("exclusive")')
      <3>1. iNumberActive = Cardinality(Depths("shared")) + Cardinality(Called) + hSharedReleaseSemaphore
                            - Cardinality(Depths("exclusive")) BY DEF RInv, CountsExact
      <3> QED BY <1>0, <1>1, <1>4, <2>2, <3>1, CountTypes DEF sems
    <2> QED BY <1>1, <1>8, <2>1, <2>3 DEF RInv, CountsExact, sems
  <1>12. NoStuckWaiter'
    <2>1. iNumberActive' < 0 BY <1>0, <1>1 DEF TypeOK
    <2> QED BY <2>1 DEF NoStuckWaiter
  <1> QED BY <1>10, <1>11, <1>12 DEF Rest

(* A writer takes the free lock.                                           *)
LEMMA TakeRest ==
  ASSUME Assumptions, RInv, TypeOK', NEW t \in Threads, acquire_exclusive(t), iNumberActive = 0
  PROVE  Rest'
  <1>0. TypeOK BY DEF RInv
  <1>1. Granted(t, "exclusive") /\ Goto(t, "idle") /\ iNumberActive' = -1 /\ hOwningThreadId' = t /\ status' = status
        /\ UNCHANGED <<sems, uExclusiveWaiters, uSharedWaiters>> /\ pc[t] = "acquire_exclusive"
    BY DEF acquire_exclusive, Return
  <1>2. (\A u \in Threads : held[u].mode = "none") /\ Called = {} /\ hSharedReleaseSemaphore = 0 BY NumberTells
  <1>3. held[t].depth = 0 /\ held[t].depth + 1 <= MaxCalls
    <2>1. LocalAt(t) /\ held[t].depth \in Nat /\ left[t] \in Nat /\ MaxCalls \in Nat
      BY DEF RInv, LocalOK, TypeOK, Assumptions, BoundAssumption
    <2> QED BY <1>1, <1>2, <2>1 DEF LocalAt
  <1>4. Cardinality(Depths("exclusive")') = Cardinality(Depths("exclusive")) + 1 /\ Depths("shared")' = Depths("shared")
    BY <1>0, <1>1, <1>2, <1>3, DepthsMore
  <1>5. Called' = {}
    <2>2. Called' \subseteq Called BY <1>0, <1>1, CalledLeft
    <2> QED BY <1>2, <2>2
  <1>6. \A u \in Threads \ {t} : held'[u] = held[u] /\ held[u].mode = "none" BY <1>0, <1>1, <1>2 DEF Granted, TypeOK
  <1>7. held'[t] = [mode |-> "exclusive", depth |-> held[t].depth + 1] BY <1>0, <1>1 DEF Granted, TypeOK
  <1>8. held'[t].mode = "exclusive" /\ held'[t].depth = 1 BY <1>3, <1>7
  <1>9. Alone(t)' BY <1>1, <1>2, <1>5, <1>6, <1>8 DEF Alone, sems
  <1>10. WriterOK' BY <1>6, <1>8, <1>9 DEF WriterOK
  <1>11. CountsExact'
    <2>1. At("wait_exclusive")' = At("wait_exclusive") /\ At("wait_shared")' = At("wait_shared")
      BY <1>0, <1>1, AtMoved
    <2>2. iNumberActive' = Cardinality(Depths("shared")') + Cardinality(Called') + hSharedReleaseSemaphore'
                           - Cardinality(Depths("exclusive")')
      <3>1. iNumberActive = Cardinality(Depths("shared")) + Cardinality(Called) + hSharedReleaseSemaphore
                            - Cardinality(Depths("exclusive")) BY DEF RInv, CountsExact
      <3>2. Cardinality(Called') = Cardinality(Called) BY <1>2, <1>5
      <3> QED BY <1>0, <1>1, <1>4, <3>1, <3>2, CountTypes DEF sems
    <2> QED BY <1>1, <1>8, <2>1, <2>2 DEF RInv, CountsExact, sems
  <1>12. NoStuckWaiter' BY <1>1 DEF NoStuckWaiter
  <1> QED BY <1>10, <1>11, <1>12 DEF Rest

(* A writer goes to sleep.                                                 *)
LEMMA SleepRest ==
  ASSUME Assumptions, RInv, TypeOK', NEW t \in Threads, acquire_exclusive(t), iNumberActive # 0, Waits(t)
  PROVE  Rest'
  <1>0. TypeOK BY DEF RInv
  <1>1. Goto(t, "wait_exclusive") /\ uExclusiveWaiters' = uExclusiveWaiters + 1 /\ pc[t] = "acquire_exclusive"
        /\ UNCHANGED <<iNumberActive, hOwningThreadId, held, uSharedWaiters, sems, status>>
    BY DEF acquire_exclusive
  <1>2. Called' = Called BY <1>0, <1>1, CalledLeft
  <1>3. \A m : Depths(m)' = Depths(m) BY <1>1 DEF Depths
  <1>4. At("wait_shared")' = At("wait_shared") /\ Cardinality(At("wait_exclusive")') = Cardinality(At("wait_exclusive")) + 1
    BY <1>0, <1>1, AtMoved
  <1>5. WriterOK' BY <1>1, <1>2 DEF RInv, WriterOK, Alone, sems
  <1>6. CountsExact'
    <2>1. uExclusiveWaiters' + hExclusiveReleaseSemaphore' = Cardinality(At("wait_exclusive")')
      <3>1. uExclusiveWaiters + hExclusiveReleaseSemaphore = Cardinality(At("wait_exclusive")) BY DEF RInv, CountsExact
      <3> QED BY <1>0, <1>1, <1>4, <3>1, CountTypes DEF sems
    <2> QED BY <1>1, <1>2, <1>3, <1>4, <2>1 DEF RInv, CountsExact, sems
  <1>7. NoStuckWaiter' BY <1>0, <1>1 DEF NoStuckWaiter, TypeOK
  <1> QED BY <1>5, <1>6, <1>7 DEF Rest

LEMMA ExclusiveRest == ASSUME Assumptions, RInv, TypeOK', NEW t \in Threads, acquire_exclusive(t) PROVE Rest'
  <1>1. CASE iNumberActive # 0 /\ ~Waits(t)
    <2>0. TypeOK BY DEF RInv
    <2>1. Return(t) /\ UNCHANGED <<lock, sems, held, status>> /\ pc[t] = "acquire_exclusive"
      BY <1>1 DEF acquire_exclusive, lock
    <2>2. Single(t) BY <2>0, <2>1, OneMoves DEF Return
    <2>3. Called' = Called BY <2>0, <2>1, CalledLeft DEF Return
    <2>4. ~Coming(t) BY <1>1 DEF Coming
    <2> QED BY <2>1, <2>2, <2>3, <2>4, QuietRest DEF Return
  <1> QED BY <1>1, TakeRest, SleepRest

(* A reader takes the lock, and counts itself unless it was woken.         *)
LEMMA ShareRest ==
  ASSUME Assumptions, RInv, TypeOK', NEW t \in Threads, acquire_shared(t), iNumberActive >= 0
  PROVE  Rest'
  <1>0. TypeOK BY DEF RInv
  <1>1. Granted(t, "shared") /\ Goto(t, "idle") /\ Return(t) /\ pc[t] = "acquire_shared"
        /\ iNumberActive' = (IF ~status[t] THEN iNumberActive + 1 ELSE iNumberActive)
        /\ UNCHANGED <<sems, uExclusiveWaiters, uSharedWaiters, hOwningThreadId, status>>
    BY DEF acquire_shared, Return, CountsItself
  <1>2. \A u \in Threads : held[u].mode # "exclusive" BY NumberTells
  <1>3. held[t].mode \in {"none", "shared"} /\ (held[t].mode = "none" <=> held[t].depth = 0) /\ held[t].depth + 1 <= MaxCalls
    <2>1. LocalAt(t) /\ held[t].depth \in Nat /\ left[t] \in Nat /\ MaxCalls \in Nat
      BY DEF RInv, LocalOK, TypeOK, Assumptions, BoundAssumption
    <2>2. held[t].mode \in {"none", "shared", "exclusive"} BY <1>0 DEF TypeOK
    <2> QED BY <1>1, <1>2, <2>1, <2>2 DEF LocalAt
  <1>4. Cardinality(Depths("shared")') = Cardinality(Depths("shared")) + 1 /\ Depths("exclusive")' = Depths("exclusive")
    BY <1>0, <1>1, <1>3, DepthsMore
  <1>5. At("wait_exclusive")' = At("wait_exclusive") /\ At("wait_shared")' = At("wait_shared") BY <1>0, <1>1, AtMoved
  <1>6. \A u \in Threads : held'[u].mode # "exclusive"
    <2>1. \A u \in Threads \ {t} : held'[u] = held[u] BY <1>0, <1>1 DEF Granted, TypeOK
    <2>2. held'[t] = [mode |-> "shared", depth |-> held[t].depth + 1] BY <1>0, <1>1 DEF Granted, TypeOK
    <2>3. held'[t].mode = "shared" BY <2>2
    <2> QED BY <1>2, <2>1, <2>3
  <1>7. WriterOK' BY <1>6 DEF WriterOK
  <1>8. /\ iNumberActive' = Cardinality(Depths("shared")') + Cardinality(Called') + hSharedReleaseSemaphore'
                           - Cardinality(Depths("exclusive")')
        /\ iNumberActive' > 0
    <2>1. iNumberActive = Cardinality(Depths("shared")) + Cardinality(Called) + hSharedReleaseSemaphore
                          - Cardinality(Depths("exclusive")) BY DEF RInv, CountsExact
    <2>2. Cardinality(Depths("exclusive")) = 0 BY NumberTells
    <2>3. CASE status[t]
      <3>1. Cardinality(Called') = Cardinality(Called) - 1 /\ Called # {} BY <1>0, <1>1, <2>3, CalledLeft
      <3>2. Cardinality(Called) > 0 BY <1>0, <3>1, CountTypes
      <3> QED BY <1>0, <1>1, <1>4, <2>1, <2>2, <2>3, <3>1, <3>2, CountTypes DEF sems
    <2>4. CASE ~status[t]
      <3>1. Called' = Called BY <1>0, <1>1, <2>4, CalledLeft
      <3> QED BY <1>0, <1>1, <1>4, <2>1, <2>2, <2>4, <3>1, CountTypes DEF sems
    <2> QED BY <2>3, <2>4
  <1>9. CountsExact' BY <1>0, <1>1, <1>5, <1>8, CountTypes DEF RInv, CountsExact, sems
  <1>10. WriterOnItsWay => WriterOnItsWay'
    <2>1. hExclusiveReleaseSemaphore' >= hExclusiveReleaseSemaphore BY <1>0, <1>1 DEF sems, TypeOK
    <2>2. Single(t) BY <1>0, <1>1, OneMoves DEF Return
    <2>3. ~Coming(t) BY <1>1 DEF Coming
    <2> QED BY <1>0, <2>1, <2>2, <2>3, WayKept
  <1>11. NoStuckWaiter'
    <2>1. uSharedWaiters > 0 => uExclusiveWaiters > 0 \/ WriterOnItsWay BY <1>0 DEF RInv, NoStuckWaiter, TypeOK
    <2> QED BY <1>0, <1>1, <1>8, <1>10, <2>1 DEF NoStuckWaiter
  <1> QED BY <1>7, <1>9, <1>11 DEF Rest

LEMMA SharedRest == ASSUME Assumptions, RInv, TypeOK', NEW t \in Threads, acquire_shared(t) PROVE Rest'
  <1>0. TypeOK /\ iNumberActive \in Int BY DEF RInv, TypeOK
  <1>1. CASE iNumberActive >= 0 BY <1>1, ShareRest
  <1>2. CASE iNumberActive < 0
    <2>0. ~(iNumberActive >= 0) BY <1>0, <1>2
    <2>1. Called = {} BY <1>2, NumberTells DEF Alone
    <2>2. UNCHANGED <<iNumberActive, held, uExclusiveWaiters, hOwningThreadId, sems, status>> /\ pc[t] = "acquire_shared"
      BY <2>0 DEF acquire_shared
    <2>3. ~status[t] BY <2>1, <2>2 DEF Called, At
    <2>4. CASE ~Waits(t)
      <3>1. Return(t) /\ uSharedWaiters' = uSharedWaiters BY <2>0, <2>4 DEF acquire_shared
      <3>2. Single(t) BY <1>0, <3>1, OneMoves DEF Return
      <3>3. Called' = Called BY <1>0, <2>2, <2>3, <3>1, CalledLeft DEF Return
      <3>4. ~Coming(t) BY <2>4 DEF Coming
      <3> QED BY <2>2, <3>1, <3>2, <3>3, <3>4, QuietRest DEF Return, lock
    <2>5. CASE Waits(t)
      <3>1. Goto(t, "wait_shared") /\ uSharedWaiters' = uSharedWaiters + 1 BY <2>0, <2>5 DEF acquire_shared
      <3>2. Called' = Called BY <1>0, <2>2, <2>3, <3>1, CalledLeft
      <3>3. \A m : Depths(m)' = Depths(m) BY <2>2 DEF Depths
      <3>4. At("wait_exclusive")' = At("wait_exclusive") /\ Cardinality(At("wait_shared")') = Cardinality(At("wait_shared")) + 1
        BY <1>0, <2>2, <3>1, AtMoved
      <3>5. WriterOK' BY <2>2, <3>2 DEF RInv, WriterOK, Alone, sems
      <3>6. uSharedWaiters' + hSharedReleaseSemaphore' = Cardinality(At("wait_shared")')
        <4>1. uSharedWaiters + hSharedReleaseSemaphore = Cardinality(At("wait_shared")) BY DEF RInv, CountsExact
        <4> QED BY <1>0, <2>2, <3>1, <3>4, <4>1, CountTypes DEF sems
      <3>7. CountsExact' BY <2>2, <3>2, <3>3, <3>4, <3>6 DEF RInv, CountsExact, sems
      <3>8. NoStuckWaiter' BY <1>0, <1>2, <2>2 DEF NoStuckWaiter
      <3> QED BY <3>5, <3>7, <3>8 DEF Rest
    <2> QED BY <2>4, <2>5
  <1> QED BY <1>0, <1>1, <1>2

(* A writer is woken.                                                      *)
LEMMA WakeExclusiveRest == ASSUME Assumptions, RInv, TypeOK', NEW t \in Threads, wait_exclusive(t) PROVE Rest'
  <1>0. TypeOK BY DEF RInv
  <1>1. Goto(t, "acquire_exclusive") /\ hExclusiveReleaseSemaphore' = hExclusiveReleaseSemaphore - 1
        /\ UNCHANGED <<lock, held, status, hSharedReleaseSemaphore, call>> /\ pc[t] = "wait_exclusive"
    BY DEF wait_exclusive
  <1>2. Called' = Called BY <1>0, <1>1, CalledLeft
  <1>3. \A m : Depths(m)' = Depths(m) BY <1>1 DEF Depths
  <1>4. At("wait_shared")' = At("wait_shared") /\ Cardinality(At("wait_exclusive")') = Cardinality(At("wait_exclusive")) - 1
    BY <1>0, <1>1, AtMoved
  <1>5. WriterOK' BY <1>1, <1>2 DEF RInv, WriterOK, Alone, lock
  <1>6. uExclusiveWaiters' + hExclusiveReleaseSemaphore' = Cardinality(At("wait_exclusive")')
    <2>1. uExclusiveWaiters + hExclusiveReleaseSemaphore = Cardinality(At("wait_exclusive")) BY DEF RInv, CountsExact
    <2> QED BY <1>0, <1>1, <1>4, <2>1, CountTypes DEF lock
  <1>7. CountsExact' BY <1>1, <1>2, <1>3, <1>4, <1>6 DEF RInv, CountsExact, lock
  <1>8. WriterOnItsWay'
    <2>1. pc'[t] = "acquire_exclusive" BY <1>0, <1>1, OneMoves
    <2>2. call'[t] = "exclusive" BY <1>1 DEF RInv, LocalOK, LocalAt
    <2> QED BY <2>1, <2>2 DEF WriterOnItsWay, At, Waits
  <1>9. NoStuckWaiter' BY <1>8 DEF NoStuckWaiter
  <1> QED BY <1>5, <1>7, <1>9 DEF Rest

(* A reader is woken: it stays counted.                                    *)
LEMMA WakeSharedRest == ASSUME Assumptions, RInv, TypeOK', NEW t \in Threads, wait_shared(t) PROVE Rest'
  <1>0. TypeOK BY DEF RInv
  <1>1. Goto(t, "acquire_shared") /\ hSharedReleaseSemaphore' = hSharedReleaseSemaphore - 1 /\ hSharedReleaseSemaphore > 0
        /\ UNCHANGED <<lock, held, hExclusiveReleaseSemaphore, call>> /\ pc[t] = "wait_shared"
        /\ status' = [status EXCEPT ![t] = TRUE]
    BY DEF wait_shared
  <1>2. Cardinality(Called') = Cardinality(Called) + 1 BY <1>0, <1>1, CalledMoved
  <1>3. \A m : Depths(m)' = Depths(m) BY <1>1 DEF Depths
  <1>4. At("wait_exclusive")' = At("wait_exclusive") /\ Cardinality(At("wait_shared")') = Cardinality(At("wait_shared")) - 1
    BY <1>0, <1>1, AtMoved
  <1>5. \A w \in Threads : held[w].mode # "exclusive" BY <1>0, <1>1 DEF RInv, WriterOK, Alone, TypeOK
  <1>6. WriterOK' BY <1>1, <1>5 DEF WriterOK
  <1>7. uSharedWaiters' + hSharedReleaseSemaphore' = Cardinality(At("wait_shared")')
    <2>1. uSharedWaiters + hSharedReleaseSemaphore = Cardinality(At("wait_shared")) BY DEF RInv, CountsExact
    <2> QED BY <1>0, <1>1, <1>4, <2>1, CountTypes DEF lock
  <1>8. iNumberActive' = Cardinality(Depths("shared")') + Cardinality(Called') + hSharedReleaseSemaphore'
                         - Cardinality(Depths("exclusive")')
    <2>1. iNumberActive = Cardinality(Depths("shared")) + Cardinality(Called) + hSharedReleaseSemaphore
                          - Cardinality(Depths("exclusive")) BY DEF RInv, CountsExact
    <2>2. Cardinality(Depths("shared")') = Cardinality(Depths("shared")) /\ Cardinality(Depths("exclusive")') = Cardinality(Depths("exclusive"))
      BY <1>3
    <2> QED BY <1>0, <1>1, <1>2, <2>1, <2>2, CountTypes DEF lock
  <1>9. CountsExact' BY <1>1, <1>4, <1>7, <1>8 DEF RInv, CountsExact, lock
  <1>10. WriterOnItsWay => WriterOnItsWay'
    <2>1. hExclusiveReleaseSemaphore' >= hExclusiveReleaseSemaphore BY <1>0, <1>1 DEF TypeOK
    <2>2. Single(t) BY <1>0, <1>1, OneMoves
    <2>3. ~Coming(t) BY <1>1 DEF Coming
    <2> QED BY <1>0, <2>1, <2>2, <2>3, WayKept
  <1>11. NoStuckWaiter' BY <1>1, <1>10 DEF RInv, NoStuckWaiter, lock
  <1> QED BY <1>6, <1>9, <1>11 DEF Rest

(* A reader gives back what it holds.                                      *)
LEMMA ReleaseSharedRest ==
  ASSUME Assumptions, RInv, TypeOK', NEW t \in Threads, RtlReleaseResource(t), release_shared
  PROVE  Rest'
  <1>0. TypeOK BY DEF RInv
  <1>1. iNumberActive > 0 /\ iNumberActive \in Int /\ GivenBack(t) /\ held[t].depth > 0 /\ UNCHANGED <<pc, call, status>>
    BY <1>0 DEF RtlReleaseResource, GivenBack, release_shared, TypeOK
  <1>2. \A u \in Threads : held[u].mode # "exclusive" BY <1>1, NumberTells
  <1>3. held[t].mode = "shared" /\ held[t].depth <= MaxCalls
    <2>1. LocalAt(t) /\ held[t].depth \in Nat /\ left[t] \in Nat /\ MaxCalls \in Nat
      BY DEF RInv, LocalOK, TypeOK, Assumptions, BoundAssumption
    <2>2. held[t].mode \in {"none", "shared", "exclusive"} BY <1>0 DEF TypeOK
    <2> QED BY <1>1, <1>2, <2>1, <2>2 DEF LocalAt
  <1>4. Cardinality(Depths("shared")') = Cardinality(Depths("shared")) - 1 /\ Depths("exclusive")' = Depths("exclusive")
    BY <1>0, <1>1, <1>3, DepthsLess
  <1>5. Called' = Called /\ \A k : At(k)' = At(k) BY <1>1 DEF Called, At
  <1>6. \A u \in Threads : held'[u].mode # "exclusive"
    <2>1. \A u \in Threads \ {t} : held'[u] = held[u] BY <1>0, <1>1 DEF GivenBack, TypeOK
    <2>2. held'[t] = IF held[t].depth = 1 THEN Free ELSE [mode |-> held[t].mode, depth |-> held[t].depth - 1]
      BY <1>0, <1>1 DEF GivenBack, TypeOK
    <2>3. held'[t].mode # "exclusive" BY <1>3, <2>2 DEF Free
    <2> QED BY <1>2, <2>1, <2>3
  <1>7. WriterOK' BY <1>6 DEF WriterOK
  <1>8. /\ iNumberActive' = iNumberActive - 1 /\ UNCHANGED <<uSharedWaiters, hSharedReleaseSemaphore>>
        /\ \/ UNCHANGED <<uExclusiveWaiters, hExclusiveReleaseSemaphore>> /\ (iNumberActive # 1 \/ ~(uExclusiveWaiters > 0))
           \/ /\ uExclusiveWaiters' = uExclusiveWaiters - 1
              /\ hExclusiveReleaseSemaphore' = hExclusiveReleaseSemaphore + 1
    BY <1>1 DEF release_shared, LastReader, wake_writer, wake_nobody, sems
  <1>9. iNumberActive' = Cardinality(Depths("shared")') + Cardinality(Called') + hSharedReleaseSemaphore'
                         - Cardinality(Depths("exclusive")')
    <2>1. iNumberActive = Cardinality(Depths("shared")) + Cardinality(Called) + hSharedReleaseSemaphore
                          - Cardinality(Depths("exclusive")) BY DEF RInv, CountsExact
    <2> QED BY <1>0, <1>4, <1>5, <1>8, <2>1, CountTypes
  <1>10. uExclusiveWaiters' + hExclusiveReleaseSemaphore' = Cardinality(At("wait_exclusive")')
    <2>1. uExclusiveWaiters + hExclusiveReleaseSemaphore = Cardinality(At("wait_exclusive")) BY DEF RInv, CountsExact
    <2>2. Cardinality(At("wait_exclusive")') = Cardinality(At("wait_exclusive")) BY <1>5
    <2> QED BY <1>0, <1>8, <2>1, <2>2, CountTypes
  <1>11. iNumberActive' >= 0 /\ ~(iNumberActive' < 0) BY <1>1, <1>8
  <1>12. uSharedWaiters' + hSharedReleaseSemaphore' = Cardinality(At("wait_shared")') BY <1>5, <1>8 DEF RInv, CountsExact
  <1>13. CountsExact' BY <1>9, <1>10, <1>11, <1>12 DEF CountsExact
  <1>14. NoStuckWaiter'
    <2>1. CASE hExclusiveReleaseSemaphore' = hExclusiveReleaseSemaphore + 1
      <3>1. hExclusiveReleaseSemaphore' > 0 BY <1>0, <2>1 DEF TypeOK
      <3> QED BY <3>1 DEF NoStuckWaiter, WriterOnItsWay
    <2>2. CASE UNCHANGED <<uExclusiveWaiters, hExclusiveReleaseSemaphore>> /\ (iNumberActive # 1 \/ ~(uExclusiveWaiters > 0))
      <3>1. WriterOnItsWay' <=> WriterOnItsWay BY <1>1, <1>5, <2>2 DEF WriterOnItsWay, Waits
      <3>2. uSharedWaiters > 0 => uExclusiveWaiters > 0 \/ WriterOnItsWay BY <1>1 DEF RInv, NoStuckWaiter
      <3>3. uExclusiveWaiters' > 0 => iNumberActive' # 0 BY <1>1, <1>8, <2>2
      <3> QED BY <1>8, <2>2, <3>1, <3>2, <3>3 DEF NoStuckWaiter
    <2> QED BY <1>8, <2>1, <2>2
  <1> QED BY <1>7, <1>13, <1>14 DEF Rest

(* The writer gives back what it holds, and at the end the lock.           *)
LEMMA ReleaseExclusiveRest ==
  ASSUME Assumptions, RInv, TypeOK', NEW t \in Threads, RtlReleaseResource(t), release_exclusive
  PROVE  Rest'
  <1>0. TypeOK BY DEF RInv
  <1>1. iNumberActive < 0 /\ iNumberActive \in Int /\ GivenBack(t) /\ held[t].depth > 0 /\ UNCHANGED <<pc, call, status>>
    BY <1>0 DEF RtlReleaseResource, GivenBack, release_exclusive, TypeOK
  <1>2. held[t].mode = "exclusive" /\ Alone(t) /\ held[t].depth \in Nat /\ held[t].depth <= MaxCalls
    <2>1. LocalAt(t) /\ held[t].depth \in Nat /\ left[t] \in Nat /\ MaxCalls \in Nat
      BY DEF RInv, LocalOK, TypeOK, Assumptions, BoundAssumption
    <2>2. held[t].mode # "none" /\ held[t].depth <= MaxCalls BY <1>1, <2>1 DEF LocalAt
    <2>3. Alone(hOwningThreadId) /\ held[hOwningThreadId].mode = "exclusive" BY <1>1, NumberTells
    <2>4. hOwningThreadId = t BY <2>2, <2>3 DEF Alone
    <2> QED BY <2>1, <2>2, <2>3, <2>4
  <1>3. Cardinality(Depths("exclusive")') = Cardinality(Depths("exclusive")) - 1 /\ Depths("shared")' = Depths("shared")
    BY <1>0, <1>1, <1>2, DepthsLess
  <1>4. Called' = Called /\ \A k : At(k)' = At(k) BY <1>1 DEF Called, At
  <1>5. \A u \in Threads \ {t} : held'[u].mode = "none" BY <1>0, <1>1, <1>2 DEF GivenBack, TypeOK, Alone
  <1>6. held'[t].depth = held[t].depth - 1 /\ held'[t].mode = IF held[t].depth = 1 THEN "none" ELSE "exclusive"
    <2>1. held'[t] = IF held[t].depth = 1 THEN Free ELSE [mode |-> held[t].mode, depth |-> held[t].depth - 1]
      BY <1>0, <1>1 DEF GivenBack, TypeOK
    <2> QED BY <1>2, <2>1 DEF Free
  <1>7. iNumberActive = -held[t].depth /\ hSharedReleaseSemaphore = 0 /\ Called = {} /\ hOwningThreadId = t BY <1>2 DEF Alone
  <1>8. iNumberActive = Cardinality(Depths("shared")) + Cardinality(Called) + hSharedReleaseSemaphore
                        - Cardinality(Depths("exclusive")) BY DEF RInv, CountsExact
  <1>9. uExclusiveWaiters + hExclusiveReleaseSemaphore = Cardinality(At("wait_exclusive"))
        /\ uSharedWaiters + hSharedReleaseSemaphore = Cardinality(At("wait_shared")) BY DEF RInv, CountsExact
  <1>10. CASE iNumberActive < -1
    <2>1. iNumberActive' = iNumberActive + 1 /\ UNCHANGED <<hOwningThreadId, uExclusiveWaiters, uSharedWaiters, sems>>
      BY <1>1, <1>10 DEF release_exclusive, wake_nobody
    <2>2. held[t].depth # 1 /\ held'[t].mode = "exclusive" BY <1>1, <1>2, <1>6, <1>7, <1>10
    <2>3. iNumberActive' = -held'[t].depth BY <1>1, <1>2, <1>6, <1>7, <2>1
    <2>4. WriterOK' BY <1>4, <1>5, <1>7, <2>1, <2>3 DEF WriterOK, Alone, sems
    <2>5. iNumberActive' = Cardinality(Depths("shared")') + Cardinality(Called') + hSharedReleaseSemaphore'
                           - Cardinality(Depths("exclusive")')
      BY <1>0, <1>3, <1>4, <1>8, <2>1, CountTypes DEF sems
    <2>6. CountsExact' BY <1>4, <1>7, <1>9, <2>1, <2>2, <2>5 DEF CountsExact, sems
    <2>7. iNumberActive' < 0 BY <1>1, <1>10, <2>1
    <2>8. NoStuckWaiter' BY <2>7, <1>0, <2>1 DEF NoStuckWaiter, TypeOK
    <2> QED BY <2>4, <2>6, <2>8 DEF Rest
  <1>11. CASE ~(iNumberActive < -1)
    <2>1. iNumberActive = -1 /\ held[t].depth = 1 /\ held'[t].mode = "none" BY <1>1, <1>2, <1>6, <1>7, <1>11
    <2>2. \A u \in Threads : held'[u].mode = "none" BY <1>5, <2>1
    <2>3. WriterOK' BY <2>2 DEF WriterOK
    <2>4. \/ uExclusiveWaiters > 0 /\ wake_writer
          \/ ~(uExclusiveWaiters > 0) /\ uSharedWaiters > 0 /\ wake_readers
          \/ ~(uExclusiveWaiters > 0) /\ ~(uSharedWaiters > 0) /\ wake_nobody(0)
      BY <1>11 DEF release_exclusive
    <2>5. /\ iNumberActive' = Cardinality(Depths("shared")') + Cardinality(Called') + hSharedReleaseSemaphore'
                             - Cardinality(Depths("exclusive")')
          /\ iNumberActive' >= 0 /\ ~(iNumberActive' < 0)
      <3>1. iNumberActive' = hSharedReleaseSemaphore' /\ hSharedReleaseSemaphore' \in Nat
        BY <1>0, <1>7, <2>4, CountTypes DEF wake_writer, wake_readers, wake_nobody, WokenReaders, sems
      <3>2. Cardinality(Depths("shared")) + Cardinality(Called) = Cardinality(Depths("exclusive")) - 1
        BY <1>0, <1>7, <1>8, <2>1, CountTypes
      <3> QED BY <1>0, <1>3, <1>4, <3>1, <3>2, CountTypes
    <2>6. /\ uExclusiveWaiters' + hExclusiveReleaseSemaphore' = Cardinality(At("wait_exclusive")')
          /\ uSharedWaiters' + hSharedReleaseSemaphore' = Cardinality(At("wait_shared")')
      <3>1. Cardinality(At("wait_exclusive")') = Cardinality(At("wait_exclusive")) /\ Cardinality(At("wait_shared")') = Cardinality(At("wait_shared"))
        BY <1>4
      <3> QED BY <1>0, <1>7, <1>9, <2>4, <3>1, CountTypes DEF wake_writer, wake_readers, wake_nobody, sems
    <2>7. CountsExact' BY <2>5, <2>6 DEF CountsExact
    <2>8. NoStuckWaiter'
      <3>1. CASE wake_writer
        <4>1. hExclusiveReleaseSemaphore' > 0 BY <1>0, <3>1 DEF wake_writer, TypeOK
        <4> QED BY <4>1 DEF NoStuckWaiter, WriterOnItsWay
      <3>2. CASE ~(uExclusiveWaiters > 0) /\ (wake_readers \/ (~(uSharedWaiters > 0) /\ wake_nobody(0)))
        <4>1. ~(uExclusiveWaiters' > 0) /\ ~(uSharedWaiters' > 0) BY <3>2 DEF wake_readers, wake_nobody
        <4> QED BY <4>1 DEF NoStuckWaiter
      <3> QED BY <2>4, <3>1, <3>2
    <2> QED BY <2>3, <2>7, <2>8 DEF Rest
  <1> QED BY <1>10, <1>11

-----------------------------------------------------------------------------
LEMMA InitRInv == ASSUME Assumptions, Init PROVE RInv
  <1>1. TypeOK BY DEF Init, TypeOK, Free, Nobody, Assumptions, BoundAssumption
  <1>2. \A t \in Threads : held[t].mode = "none" /\ held[t].depth = 0 /\ pc[t] = "idle" /\ left[t] = MaxCalls
    BY DEF Init, Free
  <1>3. LocalOK /\ WriterOK BY <1>2 DEF LocalOK, LocalAt, WriterOK, Assumptions, BoundAssumption
  <1>4. Called = {} /\ At("wait_exclusive") = {} /\ At("wait_shared") = {} BY <1>2 DEF Called, At
  <1>5. Depths("shared") = {} /\ Depths("exclusive") = {} BY <1>2 DEF Depths
  <1>6. Cardinality({}) = 0 BY FS_EmptySet
  <1>7. CountsExact BY <1>4, <1>5, <1>6 DEF CountsExact, Init
  <1>8. NoStuckWaiter BY DEF NoStuckWaiter, Init
  <1> QED BY <1>1, <1>3, <1>7, <1>8 DEF RInv

LEMMA NextRInv == ASSUME Assumptions, RInv, [Next]_vars PROVE RInv'
  <1>1. CASE Next
    <2>1. TypeOK' BY <1>1, NextTypes DEF RInv
    <2>2. LocalOK' BY <1>1, NextLocal
    <2>3. Rest'
      <3> PICK t \in Threads : (\E op \in AllOps : Begin(t, op)) \/ Step(t) \/ RtlReleaseResource(t) BY <1>1 DEF Next
      <3>1. CASE \E op \in AllOps : Begin(t, op) BY <2>1, <3>1, BeginRest
      <3>2. CASE Step(t)
        BY <2>1, <3>2, AgainRest, ExclusiveRest, SharedRest, WakeExclusiveRest, WakeSharedRest DEF Step
      <3>3. CASE RtlReleaseResource(t)
        BY <2>1, <3>3, ReleaseSharedRest, ReleaseExclusiveRest DEF RtlReleaseResource
      <3> QED BY <3>1, <3>2, <3>3
    <2> QED BY <2>1, <2>2, <2>3 DEF RInv, Rest
  <1>2. CASE UNCHANGED vars
    BY <1>2 DEF vars, lock, sems, RInv, TypeOK, LocalOK, LocalAt, WriterOK, Alone, Called, At, CountsExact, Depths,
                NoStuckWaiter, WriterOnItsWay, Waits
  <1> QED BY <1>1, <1>2

LEMMA Inductive == Assumptions => (Spec => []RInv)
  <1> SUFFICES ASSUME Assumptions PROVE Spec => []RInv OBVIOUS
  <1>1. Init => RInv BY InitRInv
  <1>2. RInv /\ [Next]_vars => RInv' BY NextRInv
  <1> QED BY <1>1, <1>2, PTL DEF Spec

(* The counters of the resource tell the truth: iNumberActive counts the   *)
(* readers, those that RtlReleaseResource has woken and counted included,  *)
(* or the depth of the writer, and everybody who sleeps is counted as a    *)
(* waiter or has a token of the semaphore he sleeps on.                    *)
THEOREM ResourceCounts == Assumptions => (Spec => []CountsExact)
  <1> SUFFICES ASSUME Assumptions PROVE Spec => []CountsExact OBVIOUS
  <1>1. Spec => []RInv BY Inductive
  <1>2. RInv => CountsExact BY DEF RInv
  <1> QED BY <1>1, <1>2, PTL

(* No wake is lost: who sleeps in RtlAcquireResourceExclusive or -Shared   *)
(* has an active owner before him, or a writer that has been woken and     *)
(* will give the lock back, although a woken writer competes again and may *)
(* lose.                                                                   *)
THEOREM ResourceWakes == Assumptions => (Spec => []NoStuckWaiter)
  <1> SUFFICES ASSUME Assumptions PROVE Spec => []NoStuckWaiter OBVIOUS
  <1>1. Spec => []RInv BY Inductive
  <1>2. RInv => NoStuckWaiter BY DEF RInv
  <1> QED BY <1>1, <1>2, PTL

(* Every step is one of the readers-writer lock, or changes nothing that   *)
(* a caller sees.                                                          *)
LEMMA RefineStep == ASSUME Assumptions, RInv, [Next]_vars PROVE [Lock!Next]_(Lock!vars)
  <1>0. TypeOK /\ iNumberActive \in Int BY DEF RInv, TypeOK
  <1>1. CASE UNCHANGED vars BY <1>1 DEF vars, Lock!vars
  <1>2. ASSUME NEW t \in Threads, NEW op \in AllOps, Begin(t, op) PROVE UNCHANGED held BY <1>2 DEF Begin
  <1>3. ASSUME NEW t \in Threads, acquire_again(t) PROVE Lock!Exclusive(t)
    <2>1. held[t].mode = "exclusive" /\ Alone(t) BY <1>3, NumberTells DEF acquire_again, Recursive
    <2> QED BY <1>3, <2>1 DEF acquire_again, Granted, Lock!Exclusive, Lock!Others, Alone
  <1>4. ASSUME NEW t \in Threads, acquire_exclusive(t) PROVE Lock!Exclusive(t) \/ UNCHANGED held
    <2>1. CASE iNumberActive = 0
      <3>1. \A u \in Threads : held[u].mode = "none" BY <2>1, NumberTells
      <3> QED BY <1>4, <2>1, <3>1 DEF acquire_exclusive, Granted, Lock!Exclusive, Lock!Others
    <2>2. CASE iNumberActive # 0 BY <1>4, <2>2 DEF acquire_exclusive
    <2> QED BY <2>1, <2>2
  <1>5. ASSUME NEW t \in Threads, acquire_shared(t) PROVE Lock!Shared(t) \/ UNCHANGED held
    <2>1. CASE iNumberActive >= 0
      <3>1. \A u \in Threads : held[u].mode # "exclusive" BY <2>1, NumberTells
      <3> QED BY <1>5, <2>1, <3>1 DEF acquire_shared, Granted, Lock!Shared, Lock!Others
    <2>2. CASE ~(iNumberActive >= 0) BY <1>5, <2>2 DEF acquire_shared
    <2> QED BY <2>1, <2>2
  <1>6. ASSUME NEW t \in Threads, wait_exclusive(t) \/ wait_shared(t) PROVE UNCHANGED held
    BY <1>6 DEF wait_exclusive, wait_shared
  <1>7. ASSUME NEW t \in Threads, RtlReleaseResource(t) PROVE Lock!Release(t)
    BY <1>7 DEF RtlReleaseResource, Lock!Release, Free, Lock!Free
  <1> QED BY <1>1, <1>2, <1>3, <1>4, <1>5, <1>6, <1>7 DEF Next, Step, Lock!Next, Lock!vars

(* RtlAcquireResourceExclusive, RtlAcquireResourceShared and               *)
(* RtlReleaseResource are a readers-writer lock with a recursive writer:   *)
(* whoever is told it has the lock exclusively is alone, also when the     *)
(* readers that were woken have not run yet.                               *)
THEOREM ResourceIsRwLock == Assumptions => (Spec => Lock!Spec)
  <1> SUFFICES ASSUME Assumptions PROVE Spec => Lock!Spec OBVIOUS
  <1>1. Init => Lock!Init BY DEF Init, Lock!Init, Free, Lock!Free
  <1>2. RInv /\ [Next]_vars => [Lock!Next]_(Lock!vars) BY RefineStep
  <1>3. Spec => []RInv BY Inductive
  <1> QED BY <1>1, <1>2, <1>3, PTL DEF Spec, Lock!Spec
====
