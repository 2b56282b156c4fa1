--------------------------- MODULE SrwLock_proofs ---------------------------
(***************************************************************************)
(* Proofs that the SRW lock counts right and is a readers-writer lock, for *)
(* any number of threads that the halves of the word can count.            *)
(***************************************************************************)
EXTENDS SrwLock, FiniteSetTheorems, TLAPS

-----------------------------------------------------------------------------
(* The inductive invariant.                                                *)

Modes == {"none", "shared", "exclusive"}
Types == /\ pc \in [Threads -> Labels] /\ call \in [Threads -> Ops \cup {"none"}]
         /\ hold \in [Threads -> Modes]

(* Who releases holds what it releases, who acquires or comes back from a  *)
(* wait holds nothing.                                                     *)
HoldsAt(t) ==
  /\ pc[t] = "re_cas" => hold[t] = "exclusive"
  /\ pc[t] = "rs_cas" => hold[t] = "shared"
  /\ pc[t] = "sleep" => hold[t] # "none"
  /\ pc[t] \in {"ae_add", "ae_try", "ae_wait", "ae_sleep", "as_try", "as_wait", "as_sleep", "try_exclusive",
                "try_shared", "re_wake", "rs_wake", "cv_wait", "cv_sleep"} => hold[t] = "none"
HoldsOK == \A t \in Threads : HoldsAt(t)

(* An exclusive owner is the only owner.                                   *)
Exclusion == \A t, u \in Threads : hold[t] = "exclusive" /\ hold[u] # "none" => t = u

SInv == Types /\ HoldsOK /\ Exclusion /\ WordExact

-----------------------------------------------------------------------------
(* Arithmetic of the halves of the word.                                   *)

(* A value that fits is not changed by the width.                          *)
LEMMA Fits == ASSUME NEW n \in Nat, NEW x \in 0 .. n - 1 PROVE x % n = x
  OBVIOUS

(* Bit 0 of a count of pairs and a bit.                                    *)
LEMMA Parity == ASSUME NEW w \in Nat PROVE ~HeldExclusive(2 * w) /\ HeldExclusive(2 * w + 1)
  BY DEF HeldExclusive

(* A set of threads can be counted, with one more and with one less.       *)
LEMMA Count ==
  ASSUME Assumptions, NEW A, A \subseteq Threads
  PROVE  /\ IsFiniteSet(A) /\ Cardinality(A) \in Nat /\ Cardinality(A) <= Cardinality(Threads)
         /\ Cardinality(Threads) \in Nat /\ (Cardinality(A) = 0 <=> A = {})
         /\ \A t \in Threads \ A : Cardinality(A \cup {t}) = Cardinality(A) + 1
         /\ \A t \in A : Cardinality(A \ {t}) = Cardinality(A) - 1
  <1>1. IsFiniteSet(Threads) BY DEF Assumptions, ThreadsAssumption
  <1>2. IsFiniteSet(A) /\ Cardinality(A) <= Cardinality(Threads) BY <1>1, FS_Subset
  <1>3. Cardinality(A) \in Nat /\ Cardinality(Threads) \in Nat BY <1>1, <1>2, FS_CardinalityType
  <1>4. Cardinality(A) = 0 <=> A = {} BY <1>2, FS_EmptySet
  <1>5. \A t \in Threads \ A : Cardinality(A \cup {t}) = Cardinality(A) + 1 BY <1>2, FS_AddElement
  <1>6. \A t \in A : Cardinality(A \ {t}) = Cardinality(A) - 1 BY <1>2, FS_RemoveElement
  <1> QED BY <1>2, <1>3, <1>4, <1>5, <1>6

(* The two halves hold every count of threads there can be.                *)
LEMMA Width ==
  ASSUME Assumptions
  PROVE  ShortSize \in Nat /\ Cardinality(Threads) \in Nat /\ ShortSize > 2 * Cardinality(Threads) + 1
  BY Count DEF Assumptions, WidthAssumption

(* There is at most one exclusive owner, and it is alone.                  *)
LEMMA OneExclusive ==
  ASSUME Assumptions, Types, Exclusion
  PROVE  /\ Cardinality(Holding("exclusive")) \in {0, 1}
         /\ Cardinality(Holding("exclusive")) = 1 => Cardinality(Holding("shared")) = 0
  <1>1. Holding("exclusive") \subseteq Threads /\ Holding("shared") \subseteq Threads BY DEF Holding
  <1>2. CASE Holding("exclusive") = {} BY <1>1, <1>2, FS_EmptySet
  <1>3. CASE Holding("exclusive") # {}
    <2>1. PICK t \in Threads : hold[t] = "exclusive" BY <1>3 DEF Holding
    <2>2. Holding("exclusive") = {t} /\ Holding("shared") = {} BY <2>1 DEF Holding, Exclusion
    <2> QED BY <2>2, FS_EmptySet, FS_Singleton
  <1> QED BY <1>2, <1>3

-----------------------------------------------------------------------------
(* What a step does to one thread.                                         *)
Alone(t) == \A u \in Threads \ {t} : pc'[u] = pc[u] /\ hold'[u] = hold[u]
WantPCs == {"ae_try", "ae_wait", "ae_sleep"}

(* A thread goes on and keeps what it holds.                               *)
LEMMA KeepsMove ==
  ASSUME SInv, NEW t \in Threads, NEW l \in Labels, Goto(t, l), UNCHANGED <<hold, word>>,
         call' \in [Threads -> Ops \cup {"none"}], HoldsAt(t)', pc[t] \in WantPCs <=> l \in WantPCs
  PROVE  SInv'
  <1>1. pc' = [pc EXCEPT ![t] = l] /\ pc \in [Threads -> Labels] BY DEF Goto, SInv, Types
  <1>2. Types' BY <1>1 DEF SInv, Types
  <1>3. HoldsOK' BY <1>1 DEF SInv, HoldsOK, HoldsAt
  <1>4. Exclusion' BY DEF SInv, Exclusion
  <1>5. WordExact'
    <2>1. Wanting' = Wanting BY <1>1 DEF Wanting, WantPCs
    <2>2. Holding("exclusive")' = Holding("exclusive") /\ Holding("shared")' = Holding("shared") BY DEF Holding
    <2> QED BY <2>1, <2>2 DEF SInv, WordExact, word
  <1> QED BY <1>2, <1>3, <1>4, <1>5 DEF SInv

(* A thread gets the lock or gives it back.                                *)
LEMMA HoldMove ==
  ASSUME SInv, NEW t \in Threads, NEW l \in Labels, Goto(t, l), NEW m \in Modes, Hold(t, m),
         call' \in [Threads -> Ops \cup {"none"}], HoldsAt(t)', WordExact',
         m = "exclusive" => \A u \in Threads : hold[u] = "none",
         m = "shared" => \A u \in Threads : hold[u] # "exclusive"
  PROVE  SInv'
  <1>1. /\ pc' = [pc EXCEPT ![t] = l] /\ pc \in [Threads -> Labels]
        /\ hold' = [hold EXCEPT ![t] = m] /\ hold \in [Threads -> Modes]
    BY DEF Goto, Hold, SInv, Types
  <1>2. Types' BY <1>1 DEF SInv, Types
  <1>3. HoldsOK' BY <1>1 DEF SInv, HoldsOK, HoldsAt
  <1>4. Exclusion' BY <1>1 DEF SInv, Exclusion, Modes
  <1> QED BY <1>2, <1>3, <1>4 DEF SInv

(* What the word says about the owners.                                    *)
LEMMA WordSays ==
  ASSUME Assumptions, SInv
  PROVE  /\ owners = 0 => \A u \in Threads : hold[u] = "none"
         /\ exclusive_waiters = 0 => \A u \in Threads : hold[u] # "exclusive"
  <1>1. /\ Holding("exclusive") \subseteq Threads /\ Holding("shared") \subseteq Threads
        /\ Wanting \subseteq Threads
    BY DEF Holding, Wanting
  <1>2. /\ Cardinality(Holding("exclusive")) \in Nat /\ Cardinality(Holding("shared")) \in Nat
        /\ Cardinality(Wanting) \in Nat
    BY <1>1, Count
  <1>3. /\ exclusive_waiters = 0 => Cardinality(Holding("exclusive")) = 0
        /\ owners = 0 => Cardinality(Holding("exclusive")) = 0 /\ Cardinality(Holding("shared")) = 0
    BY <1>2 DEF SInv, WordExact
  <1>4. /\ exclusive_waiters = 0 => Holding("exclusive") = {}
        /\ owners = 0 => Holding("exclusive") = {} /\ Holding("shared") = {}
    BY <1>1, <1>3, Count
  <1> QED BY <1>4 DEF Holding, SInv, Types, Modes

(* A call that returns, or one that goes on, leaves good calls.            *)
LEMMA Calls ==
  ASSUME SInv, NEW t \in Threads, UNCHANGED call \/ Return(t)
  PROVE  call' \in [Threads -> Ops \cup {"none"}]
  BY DEF SInv, Types, Return

(* ae_add counts the thread in.                                            *)
LEMMA AddSInv == ASSUME Assumptions, SInv, NEW t \in Threads, ae_add(t) PROVE SInv'
  <1>1. /\ pc[t] = "ae_add" /\ Goto(t, "ae_try") /\ UNCHANGED <<call, hold, owners>>
        /\ exclusive_waiters' = (exclusive_waiters + 2) % ShortSize
    BY DEF ae_add, Move
  <1>2. pc' = [pc EXCEPT ![t] = "ae_try"] /\ pc \in [Threads -> Labels] BY <1>1 DEF Goto, SInv, Types
  <1>3. Types' BY <1>1, <1>2 DEF SInv, Types, Labels
  <1>4. HoldsOK' BY <1>1, <1>2 DEF SInv, HoldsOK, HoldsAt
  <1>5. Exclusion' BY <1>1 DEF SInv, Exclusion
  <1>6. WordExact'
    <2>1. Wanting' = Wanting \cup {t} /\ t \notin Wanting /\ Wanting \subseteq Threads
      BY <1>1, <1>2 DEF Wanting
    <2>2. Holding("exclusive")' = Holding("exclusive") /\ Holding("shared")' = Holding("shared")
      BY <1>1 DEF Holding
    <2> DEFINE w == Cardinality(Wanting)
               x == Cardinality(Holding("exclusive"))
    <2>3. w \in Nat /\ Cardinality(Wanting') = w + 1 BY <2>1, Count
    <2>4. w + 1 <= Cardinality(Threads)
      <3>1. Wanting \cup {t} \subseteq Threads BY <2>1
      <3>2. Cardinality(Wanting \cup {t}) <= Cardinality(Threads) BY <3>1, Count
      <3> QED BY <2>1, <2>3, <3>2
    <2>5. x \in {0, 1} BY OneExclusive DEF SInv
    <2>6. exclusive_waiters = 2 * w + x BY DEF SInv, WordExact
    <2> HIDE DEF w, x
    <2>7. exclusive_waiters + 2 \in 0 .. ShortSize - 1 BY <2>3, <2>4, <2>5, <2>6, Width
    <2>8. exclusive_waiters' = exclusive_waiters + 2 BY <1>1, <2>7, Fits, Width
    <2>9. exclusive_waiters' = 2 * Cardinality(Wanting') + x BY <2>3, <2>5, <2>6, <2>8
    <2> QED BY <1>1, <2>2, <2>9 DEF SInv, WordExact, x
  <1> QED BY <1>3, <1>4, <1>5, <1>6 DEF SInv

(* The lock is taken exclusively, by a thread that was counted as wanting  *)
(* it or by one that only tries.                                           *)
LEMMA ExclusiveSInv ==
  ASSUME Assumptions, SInv, NEW t \in Threads, pc[t] \in {"ae_try", "try_exclusive"}, Return(t),
         owners = 0, owners' = 1, Hold(t, "exclusive"),
         exclusive_waiters' = Set(IF pc[t] = "ae_try" THEN (exclusive_waiters - 2) % ShortSize
                                  ELSE exclusive_waiters)
  PROVE  SInv'
  <1>1. /\ pc' = [pc EXCEPT ![t] = "idle"] /\ pc \in [Threads -> Labels] /\ Goto(t, "idle")
        /\ hold' = [hold EXCEPT ![t] = "exclusive"] /\ hold \in [Threads -> Modes]
    BY DEF Return, Goto, Hold, SInv, Types
  <1>2. \A u \in Threads : hold[u] = "none" BY WordSays
  <1>3. HoldsAt(t)' BY <1>1 DEF HoldsAt
  <1>4. WordExact'
    <2>1. Holding("exclusive")' = {t} /\ Holding("shared")' = {} /\ Holding("exclusive") = {}
      BY <1>1, <1>2 DEF Holding
    <2>2. Cardinality({t}) = 1 /\ Cardinality({}) = 0 BY FS_Singleton, FS_EmptySet
    <2>3. Wanting' = (IF pc[t] = "ae_try" THEN Wanting \ {t} ELSE Wanting)
          /\ (t \in Wanting <=> pc[t] = "ae_try") /\ Wanting \subseteq Threads
      BY <1>1 DEF Wanting
    <2> DEFINE w == Cardinality(Wanting)
               v == Cardinality(Wanting')
    <2>4. w \in Nat /\ v \in Nat /\ w <= Cardinality(Threads)
          /\ v = IF pc[t] = "ae_try" THEN w - 1 ELSE w
      <3>1. Wanting' \subseteq Threads BY <2>3
      <3> QED BY <2>3, <3>1, Count
    <2>5. exclusive_waiters = 2 * w
      <3>1. exclusive_waiters = 2 * w + Cardinality(Holding("exclusive")) BY DEF SInv, WordExact
      <3> HIDE DEF w
      <3> QED BY <2>1, <2>2, <2>4, <3>1
    <2> HIDE DEF w, v
    <2>6. exclusive_waiters' = 2 * v + 1
      <3>1. CASE pc[t] = "ae_try"
        <4>1. exclusive_waiters - 2 = 2 * v BY <2>4, <2>5, <3>1
        <4>2. 2 * v \in 0 .. ShortSize - 1 BY <2>4, <3>1, Width
        <4>3. (exclusive_waiters - 2) % ShortSize = 2 * v BY <4>1, <4>2, Fits, Width
        <4> QED BY <2>4, <3>1, <4>3, Parity DEF Set
      <3>2. CASE pc[t] # "ae_try" BY <2>4, <2>5, <3>2, Parity DEF Set
      <3> QED BY <3>1, <3>2
    <2>7. exclusive_waiters' = 2 * v + Cardinality(Holding("exclusive")') BY <2>1, <2>2, <2>6
    <2>8. owners' = Cardinality(Holding("exclusive")') + Cardinality(Holding("shared")')
      <3>1. Cardinality(Holding("exclusive")') = 1 /\ Cardinality(Holding("shared")') = 0 BY <2>1, <2>2, Zenon
      <3> QED BY <3>1
    <2> QED BY <2>7, <2>8 DEF WordExact, v
  <1> QED BY <1>1, <1>2, <1>3, <1>4, HoldMove, Calls DEF Labels, Modes

(* The lock is taken shared.                                               *)
LEMMA SharedSInv ==
  ASSUME Assumptions, SInv, NEW t \in Threads, pc[t] \in {"as_try", "try_shared"}, Return(t),
         exclusive_waiters = 0, owners' = (owners + 1) % ShortSize, Hold(t, "shared"), UNCHANGED exclusive_waiters
  PROVE  SInv'
  <1>1. /\ pc' = [pc EXCEPT ![t] = "idle"] /\ pc \in [Threads -> Labels] /\ Goto(t, "idle")
        /\ hold' = [hold EXCEPT ![t] = "shared"] /\ hold \in [Threads -> Modes]
    BY DEF Return, Goto, Hold, SInv, Types
  <1>2. \A u \in Threads : hold[u] # "exclusive" BY WordSays
  <1>3. HoldsAt(t)' BY <1>1 DEF HoldsAt
  <1>4. hold[t] = "none" BY DEF SInv, HoldsOK, HoldsAt
  <1>5. WordExact'
    <2>1. /\ Holding("exclusive")' = {} /\ Holding("exclusive") = {} /\ Wanting' = Wanting
          /\ Holding("shared")' = Holding("shared") \cup {t} /\ t \notin Holding("shared")
          /\ Holding("shared") \subseteq Threads /\ Holding("shared") \cup {t} \subseteq Threads
      BY <1>1, <1>2, <1>4 DEF Holding, Wanting
    <2> DEFINE n == Cardinality(Holding("shared"))
    <2>2. n \in Nat /\ Cardinality(Holding("shared")') = n + 1 /\ n + 1 <= Cardinality(Threads)
      BY <2>1, Count
    <2>z. Cardinality(Holding("exclusive")) = 0 /\ Cardinality(Holding("exclusive")') = 0
      BY <2>1, FS_EmptySet, Zenon
    <2>3. owners = n
      <3>1. owners = Cardinality(Holding("exclusive")) + n BY DEF SInv, WordExact
      <3> HIDE DEF n
      <3> QED BY <2>2, <2>z, <3>1
    <2> HIDE DEF n
    <2>4. owners + 1 \in 0 .. ShortSize - 1 BY <2>2, <2>3, Width
    <2>5. owners' = n + 1 BY <2>3, <2>4, Fits, Width
    <2>6. exclusive_waiters' = 2 * Cardinality(Wanting') + Cardinality(Holding("exclusive")')
      BY <2>1 DEF SInv, WordExact
    <2>7. owners' = Cardinality(Holding("exclusive")') + Cardinality(Holding("shared")')
      BY <2>2, <2>5, <2>z
    <2> QED BY <2>6, <2>7 DEF WordExact
  <1> QED BY <1>1, <1>2, <1>3, <1>5, HoldMove, Calls DEF Labels, Modes

(* It is given back.                                                       *)
LEMMA ReleaseSInv ==
  ASSUME Assumptions, SInv, NEW t \in Threads, release_exclusive(t) \/ release_shared(t) PROVE SInv'
  <1>1. CASE release_exclusive(t)
    <2>1. /\ pc[t] = "re_cas" /\ Goto(t, "re_wake") /\ UNCHANGED call /\ Hold(t, "none")
          /\ owners' = 0 /\ exclusive_waiters' = Clear(exclusive_waiters)
      BY <1>1 DEF release_exclusive, Move
    <2>2. /\ pc' = [pc EXCEPT ![t] = "re_wake"] /\ pc \in [Threads -> Labels]
          /\ hold' = [hold EXCEPT ![t] = "none"] /\ hold \in [Threads -> Modes]
      BY <2>1 DEF Goto, Hold, SInv, Types
    <2>3. HoldsAt(t)' BY <2>2 DEF HoldsAt
    <2>4. hold[t] = "exclusive" BY <2>1 DEF SInv, HoldsOK, HoldsAt
    <2>5. WordExact'
      <3>1. Holding("exclusive") = {t} /\ Holding("exclusive")' = {} /\ Holding("shared")' = {} /\ Wanting' = Wanting
        BY <2>1, <2>2, <2>4 DEF Holding, Wanting, SInv, Exclusion
      <3>2. Cardinality({t}) = 1 /\ Cardinality({}) = 0 BY FS_Singleton, FS_EmptySet
      <3> DEFINE w == Cardinality(Wanting)
      <3>3. w \in Nat BY Count DEF Wanting
      <3>4. exclusive_waiters = 2 * w + 1 BY <3>1, <3>2 DEF SInv, WordExact
      <3> HIDE DEF w
      <3>5. exclusive_waiters' = 2 * w BY <2>1, <3>3, <3>4, Parity DEF Clear
      <3>z. /\ Cardinality(Holding("exclusive")') = 0 /\ Cardinality(Holding("shared")') = 0
            /\ Cardinality(Wanting') = w
        BY <3>1, <3>2, Zenon DEF w
      <3>6. exclusive_waiters' = 2 * Cardinality(Wanting') + Cardinality(Holding("exclusive")')
        BY <3>3, <3>5, <3>z
      <3>7. owners' = Cardinality(Holding("exclusive")') + Cardinality(Holding("shared")')
        BY <2>1, <3>z
      <3> QED BY <3>6, <3>7 DEF WordExact
    <2> QED BY <2>1, <2>2, <2>3, <2>5, HoldMove, Calls DEF Labels, Modes
  <1>2. CASE release_shared(t)
    <2>1. /\ pc[t] = "rs_cas" /\ Goto(t, "rs_wake") /\ UNCHANGED <<call, exclusive_waiters>> /\ Hold(t, "none")
          /\ owners' = (owners - 1) % ShortSize
      BY <1>2 DEF release_shared, Move
    <2>2. /\ pc' = [pc EXCEPT ![t] = "rs_wake"] /\ pc \in [Threads -> Labels]
          /\ hold' = [hold EXCEPT ![t] = "none"] /\ hold \in [Threads -> Modes]
      BY <2>1 DEF Goto, Hold, SInv, Types
    <2>3. HoldsAt(t)' BY <2>2 DEF HoldsAt
    <2>4. hold[t] = "shared" BY <2>1 DEF SInv, HoldsOK, HoldsAt
    <2>5. WordExact'
      <3>1. /\ Holding("exclusive") = {} /\ Holding("exclusive")' = {} /\ Wanting' = Wanting
            /\ Holding("shared")' = Holding("shared") \ {t} /\ t \in Holding("shared")
            /\ Holding("shared") \subseteq Threads
        BY <2>1, <2>2, <2>4 DEF Holding, Wanting, SInv, Exclusion
      <3> DEFINE n == Cardinality(Holding("shared"))
      <3>2. n \in Nat /\ Cardinality(Holding("shared")') = n - 1 /\ n <= Cardinality(Threads) /\ n # 0
        BY <3>1, Count
      <3>z. Cardinality(Holding("exclusive")) = 0 /\ Cardinality(Holding("exclusive")') = 0
        BY <3>1, FS_EmptySet, Zenon
      <3>3. owners = n
        <4>1. owners = Cardinality(Holding("exclusive")) + n BY DEF SInv, WordExact
        <4> HIDE DEF n
        <4> QED BY <3>2, <3>z, <4>1
      <3> HIDE DEF n
      <3>4. owners - 1 \in 0 .. ShortSize - 1 BY <3>2, <3>3, Width
      <3>5. owners' = n - 1 BY <2>1, <3>3, <3>4, Fits, Width
      <3>6. exclusive_waiters' = 2 * Cardinality(Wanting') + Cardinality(Holding("exclusive")')
        BY <2>1, <3>1 DEF SInv, WordExact
      <3>7. owners' = Cardinality(Holding("exclusive")') + Cardinality(Holding("shared")')
        BY <3>2, <3>5, <3>z
      <3> QED BY <3>6, <3>7 DEF WordExact
    <2> QED BY <2>1, <2>2, <2>3, <2>5, HoldMove, Calls DEF Labels, Modes
  <1> QED BY <1>1, <1>2

-----------------------------------------------------------------------------
(* The steps that change who holds the lock, and how.                      *)
Granted(t, m) == /\ hold[t] = "none" /\ Hold(t, m)
                 /\ m = "exclusive" => \A u \in Threads : hold[u] = "none"
                 /\ m = "shared" => \A u \in Threads : hold[u] # "exclusive"
GivenBack(t) == hold[t] # "none" /\ Hold(t, "none")
Effect == \/ UNCHANGED hold
          \/ \E t \in Threads : GivenBack(t) \/ \E m \in {"shared", "exclusive"} : Granted(t, m)

(* Acquiring keeps the invariant and grants what may be granted.           *)
LEMMA AcquireSInv == ASSUME Assumptions, SInv, NEW t \in Threads, Acquires(t) PROVE SInv' /\ Effect
  <1>0. pc \in [Threads -> Labels] /\ HoldsAt(t) BY DEF SInv, Types, HoldsOK
  <1>1. CASE ae_add(t) BY <1>1, AddSInv DEF ae_add, Effect
  <1>2. ASSUME pc[t] \in {"ae_try", "try_exclusive"}, Return(t), owners = 0, owners' = 1, Hold(t, "exclusive"),
               exclusive_waiters' = Set(IF pc[t] = "ae_try" THEN (exclusive_waiters - 2) % ShortSize
                                        ELSE exclusive_waiters)
        PROVE  SInv' /\ Effect
    <2>1. SInv' BY <1>2, ExclusiveSInv
    <2>2. Granted(t, "exclusive") BY <1>0, <1>2, WordSays DEF Granted, HoldsAt
    <2> QED BY <2>1, <2>2 DEF Effect
  <1>3. ASSUME NEW l \in {"idle", "ae_wait", "as_wait"}, Goto(t, l), UNCHANGED <<hold, word>>,
               Return(t) \/ UNCHANGED call, pc[t] \in WantPCs <=> l \in WantPCs,
               hold[t] = "none"
        PROVE  SInv' /\ Effect
    <2>1. pc'[t] = l /\ hold'[t] = hold[t] BY <1>0, <1>3 DEF Goto
    <2>2. HoldsAt(t)' BY <1>3, <2>1 DEF HoldsAt
    <2>3. SInv' BY <1>3, <2>2, Calls, KeepsMove DEF Labels
    <2> QED BY <1>3, <2>3 DEF Effect
  <1>4. CASE RtlAcquireSRWLockExclusive(t)
    <2>1. pc[t] = "ae_try" /\ hold[t] = "none" BY <1>0, <1>4 DEF RtlAcquireSRWLockExclusive, HoldsAt
    <2>2. CASE owners = 0 BY <1>2, <1>4, <2>1, <2>2 DEF RtlAcquireSRWLockExclusive
    <2>3. CASE owners # 0 BY <1>3, <1>4, <2>1, <2>3 DEF RtlAcquireSRWLockExclusive, WantPCs, word
    <2> QED BY <2>2, <2>3
  <1>5. CASE RtlTryAcquireSRWLockExclusive(t)
    <2>1. pc[t] = "try_exclusive" /\ hold[t] = "none" /\ Return(t)
      BY <1>0, <1>5 DEF RtlTryAcquireSRWLockExclusive, HoldsAt
    <2>2. CASE owners = 0 BY <1>2, <1>5, <2>1, <2>2 DEF RtlTryAcquireSRWLockExclusive, GrantExclusive
    <2>3. CASE owners # 0
      BY <1>3, <1>5, <2>1, <2>3 DEF RtlTryAcquireSRWLockExclusive, GrantExclusive, WantPCs, word, Return
    <2> QED BY <2>2, <2>3
  <1>6. CASE RtlAcquireSRWLockShared(t)
    <2>1. pc[t] \in {"as_try", "try_shared"} /\ hold[t] = "none" /\ UNCHANGED exclusive_waiters
      BY <1>0, <1>6 DEF RtlAcquireSRWLockShared, HoldsAt
    <2>2. CASE exclusive_waiters = 0
      <3>1. owners' = (owners + 1) % ShortSize /\ Hold(t, "shared") /\ Return(t)
        BY <1>6, <2>2 DEF RtlAcquireSRWLockShared, GrantShared
      <3>2. SInv' BY <2>1, <2>2, <3>1, SharedSInv
      <3>3. Granted(t, "shared") BY <2>1, <2>2, <3>1, WordSays DEF Granted
      <3> QED BY <3>2, <3>3 DEF Effect
    <2>3. CASE exclusive_waiters # 0
      <3>1. /\ UNCHANGED <<hold, word>>
            /\ Return(t) \/ (Goto(t, "as_wait") /\ UNCHANGED call)
        BY <1>6, <2>1, <2>3 DEF RtlAcquireSRWLockShared, GrantShared, word
      <3> QED BY <1>3, <2>1, <3>1 DEF WantPCs, Return
    <2> QED BY <2>2, <2>3
  <1> QED BY <1>1, <1>4, <1>5, <1>6 DEF Acquires

(* The other steps move one thread, which keeps what it holds.             *)
LEMMA OtherSInv ==
  ASSUME SInv, NEW t \in Threads,
         \/ \E op \in Ops : Begin(t, op)
         \/ RtlReleaseSRWLockExclusive(t) \/ RtlReleaseSRWLockShared(t)
         \/ Condition(t) \/ RtlWaitOnAddress(t) \/ woken(t) \/ leave_wait(t)
  PROVE  SInv' /\ Effect
  <1>0. /\ pc \in [Threads -> Labels] /\ HoldsAt(t) /\ hold[t] \in Modes
        /\ call \in [Threads -> Ops \cup {"none"}]
    BY DEF SInv, Types, HoldsOK
  <1>1. ASSUME NEW l \in Labels, Goto(t, l), UNCHANGED <<hold, word>>,
               call' \in [Threads -> Ops \cup {"none"}], pc[t] \in WantPCs <=> l \in WantPCs,
               /\ l = "re_cas" => hold[t] = "exclusive"
               /\ l = "rs_cas" => hold[t] = "shared"
               /\ l = "sleep" => hold[t] # "none"
               /\ l \notin {"re_cas", "rs_cas", "sleep", "idle", "wake_one", "wake_all", "cv_wake"} => hold[t] = "none"
        PROVE  SInv' /\ Effect
    <2>1. pc'[t] = l /\ hold'[t] = hold[t] BY <1>0, <1>1 DEF Goto
    <2>2. HoldsAt(t)' BY <1>1, <2>1 DEF HoldsAt
    <2>3. SInv' BY <1>1, <2>2, KeepsMove
    <2> QED BY <1>1, <2>3 DEF Effect
  <1>2. ASSUME NEW op \in Ops, Begin(t, op) PROVE SInv' /\ Effect
    <2> DEFINE c == IF op = "sleep" THEN hold[t] ELSE op
               l == FirstStep(t, op)
    <2>1. /\ pc[t] = "idle" /\ Goto(t, l) /\ call' = [call EXCEPT ![t] = c] /\ UNCHANGED <<hold, word>>
          /\ op \in {"release", "sleep"} => hold[t] # "none"
          /\ op \in {"exclusive", "shared", "try_exclusive", "try_shared"} => hold[t] = "none"
      BY <1>2 DEF Begin
    <2>2. c \in Ops BY <1>0, <2>1 DEF Modes, Ops
    <2>3. call' \in [Threads -> Ops \cup {"none"}] BY <1>0, <2>1, <2>2
    <2>4. /\ l \in Labels /\ l \notin WantPCs
          /\ l = "re_cas" => hold[t] = "exclusive"
          /\ l = "rs_cas" => hold[t] = "shared"
          /\ l = "sleep" => hold[t] # "none"
          /\ l \notin {"re_cas", "rs_cas", "sleep", "idle", "wake_one", "wake_all", "cv_wake"} => hold[t] = "none"
      BY <1>0, <2>1 DEF FirstStep, Ops, Labels, WantPCs, Modes
    <2>5. pc[t] \notin WantPCs BY <2>1 DEF WantPCs
    <2> HIDE DEF l
    <2> QED BY <1>1, <2>1, <2>3, <2>4, <2>5
  <1>3. CASE RtlReleaseSRWLockExclusive(t) \/ RtlReleaseSRWLockShared(t)
    <2>1. /\ pc[t] \in {"re_wake", "rs_wake"} /\ Released(t) /\ UNCHANGED <<hold, word>>
      BY <1>3 DEF RtlReleaseSRWLockExclusive, RtlReleaseSRWLockShared
    <2>2. hold[t] = "none" BY <1>0, <2>1 DEF HoldsAt
    <2>3. CASE Return(t) BY <1>1, <2>1, <2>2, <2>3, Calls DEF Return, Labels, WantPCs
    <2>4. CASE Goto(t, "cv_wait") /\ UNCHANGED call BY <1>1, <2>1, <2>2, <2>4, Calls DEF Labels, WantPCs
    <2> QED BY <2>1, <2>3, <2>4 DEF Released
  <1>4. CASE Condition(t)
    <2>1. CASE RtlSleepConditionVariableSRW(t)
      <3>1. /\ pc[t] = "sleep" /\ Goto(t, IF hold[t] = "exclusive" THEN "re_cas" ELSE "rs_cas")
            /\ UNCHANGED <<call, hold, word>>
        BY <2>1 DEF RtlSleepConditionVariableSRW, Move
      <3>2. hold[t] \in {"shared", "exclusive"} BY <1>0, <3>1 DEF HoldsAt, Modes
      <3> QED BY <1>1, <3>1, <3>2, Calls DEF Labels, WantPCs
    <2>2. CASE cv_change(t)
      BY <1>1, <2>2, Calls DEF cv_change, Labels, WantPCs
    <2>3. CASE RtlWakeConditionVariable(t)
      BY <1>1, <2>3, Calls DEF RtlWakeConditionVariable, Return, Labels, WantPCs
    <2> QED BY <1>4, <2>1, <2>2, <2>3 DEF Condition
  <1>5. ASSUME pc[t] \in {"ae_wait", "as_wait", "cv_wait"} \cup Asleep3, UNCHANGED <<call, hold, word>>,
               Goto(t, Again(t)) \/ (pc[t] \notin Asleep3 /\ Goto(t, Sleeping(t)))
        PROVE  SInv' /\ Effect
    <2> DEFINE a == Again(t)
               b == Sleeping(t)
    <2>1. hold[t] = "none" BY <1>0, <1>5 DEF HoldsAt, Asleep3
    <2>2. a \in {"ae_try", "ae_add", "as_try"} /\ (pc[t] \in WantPCs <=> a \in WantPCs)
      BY <1>5 DEF Again, Asleep3, WantPCs
    <2>3. pc[t] \notin Asleep3 => b \in Asleep3 /\ (pc[t] \in WantPCs <=> b \in WantPCs)
      BY <1>5 DEF Sleeping, Asleep3, WantPCs
    <2> HIDE DEF a, b
    <2>4. CASE Goto(t, a) BY <1>1, <1>5, <2>1, <2>2, <2>4, Calls DEF Labels
    <2>5. CASE pc[t] \notin Asleep3 /\ Goto(t, b) BY <1>1, <1>5, <2>1, <2>3, <2>5, Calls DEF Labels, Asleep3
    <2> QED BY <1>5, <2>4, <2>5 DEF a, b
  <1>6. CASE RtlWaitOnAddress(t) BY <1>5, <1>6 DEF RtlWaitOnAddress, Asleep3
  <1>7. CASE woken(t) \/ leave_wait(t) BY <1>5, <1>7 DEF woken, leave_wait
  <1> QED BY <1>2, <1>3, <1>4, <1>6, <1>7

(* Every step keeps the invariant.                                         *)
LEMMA NextSInv == ASSUME Assumptions, SInv, [Next]_vars PROVE SInv' /\ Effect
  <1>1. ASSUME NEW t \in Threads, release_exclusive(t) \/ release_shared(t) PROVE SInv' /\ Effect
    <2>1. SInv' BY <1>1, ReleaseSInv
    <2>2. pc[t] \in {"re_cas", "rs_cas"} /\ Hold(t, "none")
      BY <1>1 DEF release_exclusive, release_shared, Move
    <2>3. GivenBack(t) BY <2>2 DEF SInv, HoldsOK, HoldsAt, GivenBack
    <2> QED BY <2>1, <2>3 DEF Effect
  <1>2. CASE UNCHANGED vars
    BY <1>2 DEF vars, word, SInv, Types, HoldsOK, HoldsAt, Exclusion, WordExact, Wanting, Holding, Effect
  <1> QED BY <1>1, <1>2, AcquireSInv, OtherSInv DEF Next, Step, Releases

LEMMA InitSInv == ASSUME Assumptions, Init PROVE SInv
  <1>1. Types /\ HoldsOK BY DEF Init, Types, HoldsOK, HoldsAt, Labels, Ops, Modes
  <1>2. Exclusion BY DEF Init, Exclusion
  <1>3. Wanting = {} /\ Holding("exclusive") = {} /\ Holding("shared") = {} BY DEF Init, Wanting, Holding
  <1>4. /\ Cardinality(Wanting) = 0 /\ Cardinality(Holding("exclusive")) = 0
        /\ Cardinality(Holding("shared")) = 0
    BY <1>3, FS_EmptySet, Zenon
  <1>5. WordExact BY <1>4 DEF Init, WordExact
  <1> QED BY <1>1, <1>2, <1>5 DEF SInv

-----------------------------------------------------------------------------
(* The lock as RwLock sees it.                                             *)
Held == [t \in Threads |-> [mode |-> hold[t], depth |-> IF hold[t] = "none" THEN 0 ELSE 1]]

(* The invariant holds at first, and every step keeps it and is a step of  *)
(* RwLock.                                                                 *)
LEMMA StepLock == ASSUME Assumptions, SInv, [Next]_vars PROVE [Lock!Next]_(Lock!vars)
  <1>0. Effect /\ hold \in [Threads -> Modes] BY NextSInv DEF SInv, Types
  <1>1. CASE UNCHANGED hold
    <2>1. Held' = Held BY <1>1 DEF Held
    <2> QED BY <2>1 DEF Held, Lock!vars
  <1>2. ASSUME NEW t \in Threads, GivenBack(t) PROVE Lock!Release(t)
    <2>1. hold' = [hold EXCEPT ![t] = "none"] /\ hold[t] # "none" BY <1>2 DEF GivenBack, Hold
    <2>2. Held[t].depth = 1 BY <2>1 DEF Held
    <2>3. Held' = [Held EXCEPT ![t] = Lock!Free] BY <1>0, <2>1 DEF Held, Lock!Free
    <2> QED BY <2>2, <2>3 DEF Held, Lock!Release
  <1>3. ASSUME NEW t \in Threads, Granted(t, "exclusive") PROVE Lock!Exclusive(t)
    <2>1. hold' = [hold EXCEPT ![t] = "exclusive"] /\ \A u \in Threads : hold[u] = "none"
      BY <1>3 DEF Granted, Hold
    <2>2. \A u \in Threads : Held[u].mode = "none" /\ Held[u].depth = 0 BY <2>1 DEF Held
    <2>3. Held' = [Held EXCEPT ![t] = [mode |-> "exclusive", depth |-> Held[t].depth + 1]]
      <3>1. Held' = [Held EXCEPT ![t] = [mode |-> "exclusive", depth |-> 1]] BY <1>0, <2>1 DEF Held
      <3>2. Held[t].depth + 1 = 1 BY <2>2
      <3> QED BY <3>1, <3>2, Zenon
    <2> QED BY <2>2, <2>3 DEF Held, Lock!Exclusive, Lock!Others
  <1>4. ASSUME NEW t \in Threads, Granted(t, "shared") PROVE Lock!Shared(t)
    <2>1. hold' = [hold EXCEPT ![t] = "shared"] /\ hold[t] = "none" /\ \A u \in Threads : hold[u] # "exclusive"
      BY <1>4 DEF Granted, Hold
    <2>2. Held[t].mode = "none" /\ Held[t].depth = 0 /\ \A u \in Threads : Held[u].mode # "exclusive"
      BY <2>1 DEF Held
    <2>3. Held' = [Held EXCEPT ![t] = [mode |-> "shared", depth |-> Held[t].depth + 1]]
      <3>1. Held' = [Held EXCEPT ![t] = [mode |-> "shared", depth |-> 1]] BY <1>0, <2>1 DEF Held
      <3>2. Held[t].depth + 1 = 1 BY <2>2
      <3> QED BY <3>1, <3>2, Zenon
    <2> QED BY <2>2, <2>3 DEF Held, Lock!Shared, Lock!Others
  <1> QED BY <1>0, <1>1, <1>2, <1>3, <1>4 DEF Effect, Lock!Next

(* The two halves of the word count exactly: exclusive_waiters the threads *)
(* inside RtlAcquireSRWLockExclusive and the owner bit, owners those who   *)
(* hold the lock; neither wraps, as long as a short can count the threads. *)
THEOREM SrwWordExact == Assumptions => (Spec => []WordExact)
  <1> SUFFICES ASSUME Assumptions PROVE Spec => []WordExact OBVIOUS
  <1>1. Init => SInv BY InitSInv
  <1>2. SInv /\ [Next]_vars => SInv' BY NextSInv
  <1>3. SInv => WordExact BY DEF SInv
  <1> QED BY <1>1, <1>2, <1>3, PTL DEF Spec

(* RtlAcquireSRWLock*, RtlTryAcquireSRWLock*, RtlReleaseSRWLock* and the   *)
(* release and re-acquisition inside RtlSleepConditionVariableSRW are a    *)
(* readers-writer lock: whoever is told it has the lock exclusively is     *)
(* alone, whatever the interleaving of the compare-exchanges, waits, wakes *)
(* and lost wakes.                                                         *)
THEOREM SrwIsRwLock == Assumptions => (Spec => Lock!Spec)
  <1> SUFFICES ASSUME Assumptions PROVE Spec => Lock!Spec OBVIOUS
  <1>1. Init => SInv BY InitSInv
  <1>2. SInv /\ [Next]_vars => SInv' BY NextSInv
  <1>3. Init => Lock!Init
    <2>1. Init => Held = [t \in Threads |-> Lock!Free] BY DEF Init, Held, Lock!Free
    <2> QED BY <2>1 DEF Held, Lock!Init
  <1>4. SInv /\ [Next]_vars => [Lock!Next]_(Lock!vars) BY StepLock
  <1> QED BY <1>1, <1>2, <1>3, <1>4, PTL DEF Spec, Lock!Spec
=============================================================================
