-------------------------- MODULE CritSect_proofs ---------------------------
(***************************************************************************)
(* Proofs that a critical section excludes, hands itself on by one token   *)
(* and tells its owner the truth, for any number of threads, with and      *)
(* without a semaphore handle, with and without spinning, across the       *)
(* shutdown of the process.                                                *)
(***************************************************************************)
EXTENDS CritSect, FiniteSetTheorems, TLAPS

-----------------------------------------------------------------------------
(* The inductive invariant.                                                *)

Types ==
  /\ LockCount \in Int /\ RecursionCount \in Int /\ OwningThread \in Threads \cup {0} /\ LockSemaphore \in Nat
  /\ shutdown \in BOOLEAN /\ pc \in [Threads -> Labels] /\ depth \in [Threads -> Nat]
  /\ call \in [Threads -> Ops \cup {"none"}]

(* The shutdown leaves one thread.                                         *)
AliveOK == IF shutdown THEN \E t \in Threads : alive = {t} ELSE alive = Threads

(* Where a thread can be that has the section, and how often it has it     *)
(* there; what OwningThread and RecursionCount say of it.                  *)
InsidePCs == {"idle", "try", "inc", "owned", "own", "leave", "dec", "disown", "count", "sleep", "wake", "cv_wake"}
LocalAt(t) ==
  /\ depth[t] > 0 => pc[t] \in InsidePCs
  /\ pc[t] \in {"own", "disown", "count", "sleep"} => depth[t] = 1
  /\ pc[t] = "leave" => depth[t] > 0
  /\ pc[t] = "dec" => depth[t] > 1
  /\ call[t] = "sleep" /\ depth[t] > 0 => depth[t] = 1 /\ pc[t] \in {"sleep", "leave", "disown", "count", "own"}
  /\ OwningThread = t <=> depth[t] > 0 /\ pc[t] \notin {"own", "count"}
  /\ depth[t] > 0 /\ pc[t] # "own" =>
       RecursionCount = IF pc[t] \in {"dec", "disown", "count"} THEN depth[t] - 1 ELSE depth[t]
LocalOK == \A t \in alive : LocalAt(t)

(* LockCount counts the claims of every thread.                            *)
WantPCs == {"owned", "wait", "token", "compare", "asleep"}
Claims(t) == depth[t] + (IF pc[t] \in WantPCs THEN 1 ELSE 0)
ClaimOK == \A t \in alive : LockCount + 1 >= Claims(t)

(* Until the shutdown one thread is inside, LockCount counts its entries   *)
(* and everybody who waits, and there is one token when somebody waits and *)
(* nobody is inside.                                                       *)
Busy == \E t \in Threads : depth[t] > 0
Exclusive == \A t, u \in Threads : depth[t] > 0 /\ depth[u] > 0 => t = u
CountOK == /\ \A t \in Threads : depth[t] > 0 => LockCount + 1 = depth[t] + Cardinality(Wanting)
           /\ ~Busy => LockCount + 1 = Cardinality(Wanting)
TokenOK == LockSemaphore + Cardinality(Handing) = IF ~Busy /\ Cardinality(Wanting) > 0 THEN 1 ELSE 0
GlobalOK == ~shutdown => Exclusive /\ CountOK /\ TokenOK

CInv == Types /\ AliveOK /\ LocalOK /\ ClaimOK /\ GlobalOK

-----------------------------------------------------------------------------
(* Counting threads.                                                       *)

LEMMA Count ==
  ASSUME Assumptions, NEW A, A \subseteq Threads
  PROVE  /\ IsFiniteSet(A) /\ Cardinality(A) \in Nat /\ (Cardinality(A) = 0 <=> A = {})
         /\ \A t \in Threads \ A : Cardinality(A \cup {t}) = Cardinality(A) + 1
         /\ \A t \in A : Cardinality(A \ {t}) = Cardinality(A) - 1
  <1>1. IsFiniteSet(Threads) BY DEF Assumptions, ThreadsAssumption
  <1>2. IsFiniteSet(A) BY <1>1, FS_Subset
  <1>3. Cardinality(A) \in Nat BY <1>2, FS_CardinalityType
  <1>4. Cardinality(A) = 0 <=> A = {} BY <1>2, FS_EmptySet
  <1>5. \A t \in Threads \ A : Cardinality(A \cup {t}) = Cardinality(A) + 1 BY <1>2, FS_AddElement
  <1>6. \A t \in A : Cardinality(A \ {t}) = Cardinality(A) - 1 BY <1>2, FS_RemoveElement
  <1> QED BY <1>2, <1>3, <1>4, <1>5, <1>6

(* How the counts change when a thread moves.                              *)
LEMMA Moved ==
  ASSUME Assumptions, Types, NEW t \in Threads, NEW l, Goto(t, l)
  PROVE  /\ Cardinality(Wanting) \in Nat /\ Cardinality(Wanting') \in Nat
         /\ Cardinality(Handing) \in Nat /\ Cardinality(Handing') \in Nat
         /\ Cardinality(Wanting') = Cardinality(Wanting) + (IF l \in WantPCs THEN 1 ELSE 0)
                                    - (IF pc[t] \in WantPCs THEN 1 ELSE 0)
         /\ Cardinality(Handing') = Cardinality(Handing) + (IF l = "unwait" THEN 1 ELSE 0)
                                    - (IF pc[t] = "unwait" THEN 1 ELSE 0)
  <1>1. pc' = [pc EXCEPT ![t] = l] /\ pc \in [Threads -> Labels] BY DEF Goto, Types
  <1>2. /\ Wanting \subseteq Threads /\ (t \in Wanting <=> pc[t] \in WantPCs)
        /\ Wanting' = IF l \in WantPCs THEN Wanting \cup {t} ELSE Wanting \ {t}
    BY <1>1 DEF Wanting, WantPCs
  <1>3. /\ Handing \subseteq Threads /\ (t \in Handing <=> pc[t] = "unwait")
        /\ Handing' = IF l = "unwait" THEN Handing \cup {t} ELSE Handing \ {t}
    BY <1>1 DEF Handing
  <1>4. ASSUME NEW A, A \subseteq Threads, NEW B, NEW b \in BOOLEAN,
               B = IF b THEN A \cup {t} ELSE A \ {t}
        PROVE  /\ Cardinality(A) \in Nat /\ Cardinality(B) \in Nat
               /\ Cardinality(B) = Cardinality(A) + (IF b THEN 1 ELSE 0) - (IF t \in A THEN 1 ELSE 0)
    <2>1. Cardinality(A) \in Nat BY <1>4, Count
    <2>2. B \subseteq Threads BY <1>4
    <2>3. Cardinality(B) \in Nat BY <2>2, Count
    <2>4. CASE b /\ t \notin A BY <1>4, <2>1, <2>3, <2>4, Count
    <2>5. CASE b /\ t \in A
      <3>1. B = A BY <1>4, <2>5
      <3> QED BY <2>1, <2>5, <3>1
    <2>6. CASE ~b /\ t \in A BY <1>4, <2>1, <2>3, <2>6, Count
    <2>7. CASE ~b /\ t \notin A
      <3>1. B = A BY <1>4, <2>7
      <3> QED BY <2>1, <2>7, <3>1
    <2> QED BY <2>1, <2>3, <2>4, <2>5, <2>6, <2>7
  <1> DEFINE a == l \in WantPCs
             b == l = "unwait"
  <1>5. a \in BOOLEAN /\ b \in BOOLEAN OBVIOUS
  <1>6. /\ Cardinality(Wanting) \in Nat /\ Cardinality(Wanting') \in Nat
        /\ Cardinality(Wanting') = Cardinality(Wanting) + (IF a THEN 1 ELSE 0) - (IF t \in Wanting THEN 1 ELSE 0)
    BY <1>2, <1>4, <1>5
  <1>7. /\ Cardinality(Handing) \in Nat /\ Cardinality(Handing') \in Nat
        /\ Cardinality(Handing') = Cardinality(Handing) + (IF b THEN 1 ELSE 0) - (IF t \in Handing THEN 1 ELSE 0)
    BY <1>3, <1>4, <1>5
  <1> QED BY <1>2, <1>3, <1>6, <1>7

-----------------------------------------------------------------------------
(* What a step of t, which then has the section d times, does to the       *)
(* books: t is inside after it, t goes out by it, or t stays out.          *)
Wn == Cardinality(Wanting)
Hn == Cardinality(Handing)
StaysIn(t, d) == /\ d > 0 /\ (depth[t] > 0 \/ ~Busy)
                 /\ LockCount' + 1 = d + Wn' /\ LockSemaphore' + Hn' = 0
GoesOut(t, d) == /\ d = 0 /\ depth[t] > 0
                 /\ LockCount' + 1 = Wn' /\ LockSemaphore' + Hn' = IF Wn' > 0 THEN 1 ELSE 0
StaysOut(t, d) == /\ d = 0 /\ depth[t] = 0
                  /\ LockCount' - LockCount = Wn' - Wn /\ LockSemaphore' + Hn' = LockSemaphore + Hn
                  /\ Busy \/ (Wn' > 0 <=> Wn > 0)
Books(t, d) == StaysIn(t, d) \/ GoesOut(t, d) \/ StaysOut(t, d)

LEMMA BooksKept ==
  ASSUME CInv, ~shutdown, NEW t \in Threads, NEW d \in Nat, depth' = [depth EXCEPT ![t] = d],
         Wn \in Nat, Wn' \in Nat, Hn \in Nat, Hn' \in Nat,
         LockCount' \in Int, LockSemaphore' \in Nat, Books(t, d)
  PROVE  Exclusive' /\ CountOK' /\ TokenOK'
  <1>1. /\ LockCount \in Int /\ LockSemaphore \in Nat /\ depth \in [Threads -> Nat]
        /\ \A u \in Threads : depth'[u] = IF u = t THEN d ELSE depth[u]
    BY DEF CInv, Types
  <1>2. Exclusive /\ CountOK /\ TokenOK BY DEF CInv, GlobalOK
  <1>3. Exclusive' BY <1>1, <1>2 DEF Books, StaysIn, GoesOut, StaysOut, Exclusive, Busy
  <1>4. CASE StaysIn(t, d)
    <2>1. Busy' /\ \A u \in Threads : depth'[u] > 0 => u = t BY <1>1, <1>3, <1>4 DEF Busy, Exclusive, StaysIn
    <2> QED BY <1>1, <1>3, <1>4, <2>1 DEF StaysIn, CountOK, TokenOK, Wn, Hn
  <1>5. CASE GoesOut(t, d)
    <2>1. ~Busy' /\ \A u \in Threads : depth'[u] = 0 BY <1>1, <1>2, <1>5 DEF Busy, Exclusive, GoesOut
    <2> QED BY <1>1, <1>3, <1>5, <2>1 DEF GoesOut, CountOK, TokenOK, Wn, Hn
  <1>6. CASE StaysOut(t, d)
    <2>1. depth' = depth BY <1>1, <1>6 DEF StaysOut
    <2>2. Busy' <=> Busy BY <2>1 DEF Busy
    <2>3. LockCount' - LockCount = Wn' - Wn /\ LockSemaphore' + Hn' = LockSemaphore + Hn
      BY <1>6 DEF StaysOut
    <2>4. CountOK'
      <3>1. ASSUME NEW u \in Threads, depth'[u] > 0 PROVE LockCount' + 1 = depth'[u] + Wn'
        <4>1. LockCount + 1 = depth[u] + Wn /\ depth[u] \in Nat BY <1>1, <1>2, <2>1, <3>1 DEF CountOK, Wn
        <4> QED BY <1>1, <2>1, <2>3, <4>1
      <3>2. ASSUME ~Busy' PROVE LockCount' + 1 = Cardinality(Wanting')
        <4>1. LockCount + 1 = Wn BY <1>2, <2>2, <3>2 DEF CountOK, Wn
        <4> QED BY <1>1, <2>3, <4>1 DEF Wn
      <3> QED BY <3>1, <3>2 DEF CountOK, Wn
    <2>5. TokenOK'
      <3>1. LockSemaphore + Hn = IF ~Busy /\ Wn > 0 THEN 1 ELSE 0 BY <1>2 DEF TokenOK, Wn, Hn
      <3>2. LockSemaphore' + Hn' = IF ~Busy' /\ Wn' > 0 THEN 1 ELSE 0 BY <1>6, <2>2, <2>3, <3>1 DEF StaysOut
      <3> QED BY <3>2 DEF TokenOK, Wn, Hn
    <2> QED BY <1>3, <2>4, <2>5
  <1> QED BY <1>4, <1>5, <1>6 DEF Books

(* Who has a claim is counted.                                             *)
AllClaimed == \A t \in Threads : LockCount + 1 >= Claims(t)
LEMMA Claimed ==
  Assumptions /\ Types /\ CountOK => AllClaimed
  <1> SUFFICES ASSUME Assumptions, Types, CountOK, NEW t \in Threads
               PROVE  LockCount + 1 >= Claims(t)
    BY DEF AllClaimed
  <1>1. Wanting \subseteq Threads BY DEF Wanting
  <1>2. Cardinality(Wanting) \in Nat /\ (Cardinality(Wanting) = 0 <=> Wanting = {}) BY <1>1, Count
  <1>3. pc[t] \in WantPCs => t \in Wanting BY DEF Wanting, WantPCs
  <1>4. pc[t] \in WantPCs => Cardinality(Wanting) >= 1 BY <1>2, <1>3
  <1>5. depth[t] \in Nat /\ LockCount \in Int BY DEF Types
  <1>6. LockCount + 1 = depth[t] + Cardinality(Wanting) \/ (depth[t] = 0 /\ LockCount + 1 >= Cardinality(Wanting))
    <2>1. CASE depth[t] > 0 BY <2>1 DEF CountOK
    <2>2. CASE depth[t] = 0 /\ ~Busy BY <1>2, <1>5, <2>2 DEF CountOK
    <2>3. CASE depth[t] = 0 /\ Busy
      <3>1. PICK u \in Threads : depth[u] > 0 BY <2>3 DEF Busy
      <3>2. depth[u] \in Nat /\ LockCount + 1 = depth[u] + Cardinality(Wanting) BY <3>1 DEF CountOK, Types
      <3> QED BY <1>2, <1>5, <2>3, <3>1, <3>2
    <2> QED BY <1>5, <2>1, <2>2, <2>3
  <1> QED BY <1>2, <1>4, <1>5, <1>6 DEF Claims

(* A thread alone moves, and the books are kept.                           *)
Lone(t, d) == /\ depth' = [depth EXCEPT ![t] = d] /\ UNCHANGED process
              /\ OwningThread' \in {OwningThread, t, 0}
              /\ depth[t] > 0 \/ UNCHANGED <<OwningThread, RecursionCount>>
              /\ call' \in [Threads -> Ops \cup {"none"}] /\ \A u \in Threads \ {t} : call'[u] = call[u]

LEMMA SectionMove ==
  ASSUME Assumptions, CInv, NEW t \in alive, NEW l \in Labels, Goto(t, l), NEW d \in Nat, Lone(t, d),
         LockCount' \in Int, RecursionCount' \in Int, LockSemaphore' \in Nat,
         LocalAt(t)', shutdown => LockCount' + 1 >= Claims(t)', ~shutdown => Books(t, d)
  PROVE  CInv'
  <1>1. /\ t \in Threads /\ pc' = [pc EXCEPT ![t] = l] /\ pc \in [Threads -> Labels]
        /\ depth \in [Threads -> Nat] /\ depth' = [depth EXCEPT ![t] = d]
        /\ UNCHANGED <<alive, shutdown>> /\ alive \subseteq Threads
    BY DEF CInv, Types, AliveOK, Goto, Lone, process
  <1>2. Types' BY <1>1, Zenon DEF CInv, Types, Lone
  <1>3. AliveOK' BY <1>1 DEF CInv, AliveOK
  <1>4. LocalOK'
    <2> SUFFICES ASSUME NEW u \in alive, u # t PROVE LocalAt(u)' BY <1>1 DEF LocalOK
    <2>1. ~shutdown BY <1>1 DEF CInv, AliveOK
    <2>2. LocalAt(u) BY DEF CInv, LocalOK
    <2>3. pc'[u] = pc[u] /\ depth'[u] = depth[u] /\ call'[u] = call[u] BY <1>1 DEF Lone
    <2>4. u # 0 BY <1>1 DEF Assumptions, ThreadsAssumption
    <2>5. depth[u] > 0 => ~(depth[t] > 0) BY <1>1, <2>1 DEF CInv, GlobalOK, Exclusive
    <2>6. depth[u] > 0 => UNCHANGED <<OwningThread, RecursionCount>> BY <2>5 DEF Lone
    <2>7. OwningThread' = u <=> OwningThread = u
      <3>1. CASE depth[u] > 0 BY <2>6, <3>1
      <3>2. CASE ~(depth[u] > 0)
        <4>1. OwningThread # u BY <2>2, <3>2 DEF LocalAt
        <4> QED BY <2>4, <4>1 DEF Lone
      <3> QED BY <3>1, <3>2
    <2> QED BY <2>2, <2>3, <2>6, <2>7 DEF LocalAt
  <1>5. GlobalOK'
    <2> SUFFICES ASSUME ~shutdown PROVE Exclusive' /\ CountOK' /\ TokenOK' BY <1>1 DEF GlobalOK
    <2>1. Wn \in Nat /\ Wn' \in Nat /\ Hn \in Nat /\ Hn' \in Nat BY <1>1, Moved DEF CInv, Wn, Hn
    <2> QED BY <1>1, <2>1, BooksKept
  <1>6. ClaimOK'
    <2>1. CASE shutdown
      <3>1. alive = {t} BY <1>1, <2>1 DEF CInv, AliveOK
      <3> QED BY <1>1, <2>1, <3>1 DEF ClaimOK
    <2>2. CASE ~shutdown
      <3>1. CountOK' BY <1>1, <1>5, <2>2 DEF GlobalOK
      <3>2. (Assumptions /\ Types /\ CountOK => AllClaimed)' BY Claimed, PTL
      <3>3. AllClaimed' BY <1>2, <3>1, <3>2
      <3> QED BY <1>1, <3>3 DEF ClaimOK, AllClaimed
    <2> QED BY <2>1, <2>2
  <1> QED BY <1>2, <1>3, <1>4, <1>5, <1>6 DEF CInv

-----------------------------------------------------------------------------
(* What the invariant says to the thread that moves.                       *)
LEMMA Known ==
  ASSUME Assumptions, CInv, NEW t \in alive
  PROVE  /\ t \in Threads /\ t # 0 /\ pc[t] \in Labels /\ depth[t] \in Nat /\ LocalAt(t)
         /\ LockCount \in Int /\ RecursionCount \in Int /\ LockSemaphore \in Nat
         /\ LockCount + 1 >= Claims(t)
  BY DEF CInv, Types, AliveOK, LocalOK, ClaimOK, Assumptions, ThreadsAssumption

(* What the books say before the shutdown.                                 *)
LEMMA BooksSay ==
  ASSUME Assumptions, CInv, ~shutdown, NEW t \in alive
  PROVE  /\ depth[t] > 0 => Busy /\ LockCount + 1 = depth[t] + Wn /\ LockSemaphore + Hn = 0
         /\ Busy => LockCount >= 0 /\ LockSemaphore + Hn = 0
         /\ ~Busy => LockCount + 1 = Wn + 0 /\ LockSemaphore + Hn = IF Wn > 0 THEN 1 ELSE 0
         /\ Wn \in Nat /\ Hn \in Nat
  <1>1. t \in Threads /\ LockCount \in Int /\ LockSemaphore \in Nat BY Known
  <1>2. CountOK /\ TokenOK BY DEF CInv, GlobalOK
  <1>3. Wanting \subseteq Threads /\ Handing \subseteq Threads BY DEF Wanting, Handing
  <1>4. Wn \in Nat /\ Hn \in Nat BY <1>3, Count DEF Wn, Hn
  <1>5. LockSemaphore + Hn = IF ~Busy /\ Wn > 0 THEN 1 ELSE 0 BY <1>2 DEF TokenOK, Wn, Hn
  <1>6. ASSUME Busy PROVE LockCount >= 0
    <2>1. PICK u \in Threads : depth[u] > 0 BY <1>6 DEF Busy
    <2>2. depth[u] \in Nat /\ LockCount + 1 = depth[u] + Wn BY <1>2, <2>1 DEF CountOK, Wn, CInv, Types
    <2> QED BY <1>1, <1>4, <2>1, <2>2
  <1>7. ASSUME ~Busy PROVE LockCount + 1 = Wn + 0 BY <1>2, <1>4, <1>7 DEF CountOK, Wn
  <1>8. ASSUME depth[t] > 0 PROVE Busy /\ LockCount + 1 = depth[t] + Wn BY <1>1, <1>2, <1>8 DEF CountOK, Busy, Wn
  <1> QED BY <1>4, <1>5, <1>6, <1>7, <1>8

CallKept(t) == call' \in [Threads -> Ops \cup {"none"}] /\ \A u \in Threads \ {t} : call'[u] = call[u]

LEMMA Calls ==
  ASSUME CInv, NEW t, NEW op \in Ops \cup {"none"}, UNCHANGED call \/ call' = [call EXCEPT ![t] = op]
  PROVE  CallKept(t)
  BY DEF CInv, Types, CallKept

(* A thread that only goes on.                                             *)
LEMMA QuietMove ==
  ASSUME Assumptions, CInv, NEW t \in alive, NEW l \in Labels, Goto(t, l), UNCHANGED <<section, depth, process>>,
         CallKept(t), LocalAt(t)', l \in WantPCs <=> pc[t] \in WantPCs, l = "unwait" <=> pc[t] = "unwait"
  PROVE  CInv'
  <1>1. UNCHANGED <<LockCount, RecursionCount, OwningThread, LockSemaphore, depth, process>> BY DEF section
  <1>2. t \in Threads /\ depth \in [Threads -> Nat] /\ pc \in [Threads -> Labels] BY Known DEF CInv, Types
  <1>3. Wn' = Wn + 0 /\ Hn' = Hn + 0
    BY <1>2, Moved DEF CInv, Wn, Hn
  <1>4. pc'[t] = l BY <1>2 DEF Goto
  <1>5. Lone(t, depth[t]) BY <1>1, <1>2 DEF Lone, CallKept
  <1>6. Claims(t)' = Claims(t) BY <1>1, <1>4 DEF Claims
  <1>7. ASSUME ~shutdown PROVE Books(t, depth[t])
    <2>1. CASE depth[t] > 0
      <3>1. Wn' + 0 = Wn BY <1>3, <1>7, BooksSay
      <3>2. LockCount' + 1 = depth[t] + Wn' BY <1>1, <1>2, <1>7, <2>1, <1>3, BooksSay, Known
      <3>3. LockSemaphore' + Hn' = 0 BY <1>1, <1>7, <2>1, <1>3, BooksSay, Known
      <3> QED BY <2>1, <3>2, <3>3 DEF Books, StaysIn
    <2>2. CASE ~(depth[t] > 0)
      <3>1. depth[t] = 0 BY <1>2, <2>2
      <3>2. Wn \in Nat /\ Hn \in Nat /\ LockCount \in Int /\ LockSemaphore \in Nat BY <1>7, BooksSay, Known
      <3>3. LockCount' - LockCount = Wn' - Wn /\ LockSemaphore' + Hn' = LockSemaphore + Hn /\ (Wn' > 0 <=> Wn > 0)
        BY <1>1, <1>3, <3>2
      <3> QED BY <3>1, <3>3 DEF Books, StaysOut
    <2> QED BY <2>1, <2>2
  <1>8. /\ depth[t] \in Nat /\ LockCount' \in Int /\ RecursionCount' \in Int /\ LockSemaphore' \in Nat
        /\ LockCount' + 1 >= Claims(t)'
    BY <1>1, <1>2, <1>6, Known
  <1> QED BY <1>5, <1>7, <1>8, SectionMove

-----------------------------------------------------------------------------
(* The ways in.                                                            *)

(* The count of a free section is exchanged.                               *)
LEMMA FreeEntry ==
  ASSUME Assumptions, CInv, NEW t \in alive, pc[t] \in {"try", "grab", "inc"}, LockCount = -1, LockCount' = 0,
         Enter1(t), Goto(t, "own"), UNCHANGED <<RecursionCount, OwningThread, LockSemaphore, process, call>>
  PROVE  CInv'
  <1>1. /\ t \in Threads /\ depth \in [Threads -> Nat] /\ pc \in [Threads -> Labels]
        /\ LocalAt(t) /\ depth[t] \in Nat /\ LockSemaphore \in Nat /\ RecursionCount \in Int
    BY Known DEF CInv, Types
  <1>2. depth[t] = 0 BY <1>1, Known DEF Claims, WantPCs
  <1>3. depth' = [depth EXCEPT ![t] = 1] BY <1>1, <1>2 DEF Enter1
  <1>4. pc'[t] = "own" /\ depth'[t] = 1 BY <1>1, <1>3 DEF Goto
  <1>5. Lone(t, 1) BY <1>3, Calls DEF Lone, CallKept
  <1>6. LocalAt(t)' BY <1>1, <1>2, <1>4 DEF LocalAt, InsidePCs
  <1>7. Claims(t)' = 1 BY <1>4 DEF Claims, WantPCs
  <1>10. Types BY DEF CInv
  <1>8. ASSUME ~shutdown PROVE Books(t, 1)
    <2>1. /\ Cardinality(Wanting') = Cardinality(Wanting) /\ Cardinality(Handing') = Cardinality(Handing)
          /\ Wn \in Nat /\ Hn \in Nat
      BY <1>1, <1>10, Moved DEF WantPCs, Wn, Hn
    <2>2. ~Busy /\ Wn = 0 /\ LockSemaphore + Hn = 0 BY <1>8, <2>1, BooksSay
    <2> QED BY <1>1, <2>1, <2>2 DEF Books, StaysIn, Wn, Hn
  <1>9. "own" \in Labels BY DEF Labels
  <1> QED BY <1>1, <1>5, <1>6, <1>7, <1>8, <1>9, SectionMove

(* The owner enters again; it may have counted itself before.              *)
LEMMA ReEntry ==
  ASSUME Assumptions, CInv, NEW t \in alive, pc[t] \in {"try", "owned"}, OwningThread = t,
         LockCount' = LockCount + (IF pc[t] = "try" THEN 1 ELSE 0), RecursionCount' = RecursionCount + 1,
         Enter1(t), Return(t), UNCHANGED <<OwningThread, LockSemaphore, process>>
  PROVE  CInv'
  <1>1. /\ t \in Threads /\ depth \in [Threads -> Nat] /\ pc \in [Threads -> Labels]
        /\ LocalAt(t) /\ depth[t] \in Nat /\ LockSemaphore \in Nat /\ RecursionCount \in Int /\ LockCount \in Int
        /\ call \in [Threads -> Ops \cup {"none"}]
    BY Known DEF CInv, Types
  <1>2. depth[t] > 0 /\ RecursionCount = depth[t] BY <1>1 DEF LocalAt
  <1> DEFINE d == depth[t] + 1
  <1>3. depth' = [depth EXCEPT ![t] = d] /\ d \in Nat /\ d > 1 BY <1>1, <1>2 DEF Enter1
  <1>4. pc'[t] = "idle" /\ depth'[t] = d /\ call'[t] = "none" BY <1>1, <1>3 DEF Return, Goto
  <1>5. CallKept(t) BY Calls DEF Return
  <1>6. Lone(t, d) BY <1>2, <1>3, <1>5 DEF Lone, CallKept
  <1>7. LocalAt(t)' BY <1>1, <1>2, <1>3, <1>4 DEF LocalAt, InsidePCs
  <1>8. LockCount' + 1 >= Claims(t)'
    <2>1. Claims(t)' = d BY <1>3, <1>4 DEF Claims, WantPCs
    <2>2. LockCount + 1 >= Claims(t) BY Known
    <2> QED BY <1>1, <2>1, <2>2 DEF Claims, WantPCs
  <1>9. ASSUME ~shutdown PROVE Books(t, d)
    <2>3. Types /\ Goto(t, "idle") BY DEF CInv, Return
    <2>1. /\ Cardinality(Wanting') = Cardinality(Wanting) - (IF pc[t] = "try" THEN 0 ELSE 1)
          /\ Cardinality(Handing') = Cardinality(Handing) /\ Wn \in Nat /\ Hn \in Nat
      BY <1>1, <2>3, Moved DEF WantPCs, Wn, Hn
    <2>2. LockCount + 1 = depth[t] + Wn /\ LockSemaphore + Hn = 0 BY <1>2, <1>9, BooksSay
    <2>4. LockCount' + 1 = d + Cardinality(Wanting')
      <3>1. depth[t] \in Nat /\ LockCount \in Int BY <1>1
      <3>2. CASE pc[t] = "try" BY <2>1, <2>2, <3>1, <3>2 DEF Wn, Hn
      <3>3. CASE pc[t] # "try" BY <2>1, <2>2, <3>1, <3>3 DEF Wn, Hn
      <3> QED BY <3>2, <3>3
    <2>5. LockSemaphore' + Cardinality(Handing') = 0 BY <1>1, <2>1, <2>2 DEF Hn
    <2> QED BY <1>2, <1>3, <2>4, <2>5 DEF Books, StaysIn, Wn, Hn
  <1>10. "idle" \in Labels /\ LockCount' \in Int /\ RecursionCount' \in Int BY <1>1 DEF Labels
  <1>11. Goto(t, "idle") BY DEF Return
  <1> HIDE DEF d
  <1> QED BY <1>1, <1>3, <1>6, <1>7, <1>8, <1>9, <1>10, <1>11, SectionMove

LEMMA TryCInv ==
  ASSUME Assumptions, CInv, NEW t \in alive, RtlTryEnterCriticalSection(t)
  PROVE  CInv'
  <1>1. pc[t] = "try" /\ UNCHANGED <<OwningThread, LockSemaphore, process>> /\ LockCount \in Int
    BY Known DEF RtlTryEnterCriticalSection
  <1>2. CASE LockCount = -1 BY <1>1, <1>2, FreeEntry DEF RtlTryEnterCriticalSection
  <1>3. CASE LockCount # -1 /\ OwningThread = t BY <1>1, <1>3, ReEntry DEF RtlTryEnterCriticalSection
  <1>4. CASE LockCount # -1 /\ OwningThread # t
    <2>1. UNCHANGED <<section, depth, process>> BY <1>4 DEF RtlTryEnterCriticalSection, section
    <2>2. PICK l \in {"idle", "spin"} : /\ Goto(t, l) /\ (l = "idle" => call[t] = "try")
                                        /\ UNCHANGED call \/ call' = [call EXCEPT ![t] = "none"]
                                        /\ l = "idle" => call' = [call EXCEPT ![t] = "none"]
                                        /\ l = "spin" => UNCHANGED call
      BY <1>4 DEF RtlTryEnterCriticalSection, Return
    <2>3. CallKept(t) BY <2>2, Calls
    <2>4. t \in Threads /\ LocalAt(t) /\ depth[t] \in Nat /\ pc \in [Threads -> Labels] BY Known DEF CInv, Types
    <2>9. Goto(t, l) BY <2>2
    <2>5. pc'[t] = l BY <2>9, <2>4 DEF Goto
    <2>6. depth[t] = 0 BY <1>1, <1>4, <2>4 DEF LocalAt
    <2>7. LocalAt(t)' BY <1>1, <2>1, <2>4, <2>5, <2>6 DEF LocalAt, section
    <2>8. l \in Labels /\ (l \in WantPCs <=> pc[t] \in WantPCs) /\ (l = "unwait" <=> pc[t] = "unwait")
      BY <1>1 DEF Labels, WantPCs
    <2>10. UNCHANGED <<section, depth, process>> BY <2>1
    <2> QED BY <2>3, <2>7, <2>8, <2>9, <2>10, QuietMove
  <1> QED BY <1>2, <1>3, <1>4

LEMMA SpinCInv ==
  ASSUME Assumptions, CInv, NEW t \in alive, spin_round(t) \/ spin_grab(t)
  PROVE  CInv'
  <1>1. pc[t] \in {"spin", "grab"} /\ LockCount \in Int /\ LocalAt(t) /\ t \in Threads
    BY Known DEF spin_round, spin_grab
  <1>2. CASE spin_grab(t) /\ LockCount = -1 BY <1>2, FreeEntry DEF spin_grab
  <1>3. CASE spin_round(t) \/ (spin_grab(t) /\ LockCount # -1)
    <2>1. UNCHANGED <<section, depth, process, call>> BY <1>3 DEF spin_round, spin_grab, section
    <2>2. PICK l \in {"inc", "grab", "spin"} : Goto(t, l) BY <1>3 DEF spin_round, spin_grab
    <2>3. CallKept(t) BY <2>1, Calls
    <2>4. depth[t] \in Nat /\ pc \in [Threads -> Labels] BY Known DEF CInv, Types
    <2>9. Goto(t, l) BY <2>2
    <2>5. pc'[t] = l BY <1>1, <2>9, <2>4 DEF Goto
    <2>6. depth[t] = 0 BY <1>1, <2>4 DEF LocalAt, InsidePCs
    <2>7. LocalAt(t)' BY <1>1, <2>1, <2>5, <2>6 DEF LocalAt, section
    <2>8. l \in Labels /\ (l \in WantPCs <=> pc[t] \in WantPCs) /\ (l = "unwait" <=> pc[t] = "unwait")
      BY <1>1 DEF Labels, WantPCs
    <2>10. UNCHANGED <<section, depth, process>> BY <2>1
    <2> QED BY <2>3, <2>7, <2>8, <2>9, <2>10, QuietMove
  <1> QED BY <1>2, <1>3

(* A thread that finds the section taken counts itself.                    *)
LEMMA IncCInv ==
  ASSUME Assumptions, CInv, NEW t \in alive, enter_inc(t)
  PROVE  CInv'
  <1>1. CASE LockCount = -1 BY <1>1, FreeEntry DEF enter_inc
  <1>2. CASE LockCount # -1
    <2>1. /\ pc[t] = "inc" /\ LockCount' = LockCount + 1 /\ Goto(t, "owned")
          /\ UNCHANGED <<RecursionCount, OwningThread, LockSemaphore, process, call, depth>>
      BY <1>2 DEF enter_inc
    <2>2. /\ t \in Threads /\ depth \in [Threads -> Nat] /\ pc \in [Threads -> Labels]
          /\ LocalAt(t) /\ depth[t] \in Nat /\ LockSemaphore \in Nat /\ RecursionCount \in Int /\ LockCount \in Int
      BY Known DEF CInv, Types
    <2>3. pc'[t] = "owned" BY <2>1, <2>2 DEF Goto
    <2>4. Lone(t, depth[t]) BY <2>1, <2>2, Calls DEF Lone, CallKept
    <2>5. LocalAt(t)' BY <2>1, <2>2, <2>3 DEF LocalAt, InsidePCs
    <2>6. LockCount' + 1 >= Claims(t)'
      <3>1. Claims(t)' = Claims(t) + 1 BY <2>1, <2>2, <2>3 DEF Claims, WantPCs
      <3>2. LockCount + 1 >= Claims(t) /\ Claims(t) \in Nat BY <2>2, Known DEF Claims
      <3> QED BY <2>1, <2>2, <3>1, <3>2
    <2>7. ASSUME ~shutdown PROVE Books(t, depth[t])
      <3>1. /\ Cardinality(Wanting') = Cardinality(Wanting) + 1
            /\ Cardinality(Handing') = Cardinality(Handing) /\ Wn \in Nat /\ Hn \in Nat
        <4>1. Types BY DEF CInv
        <4> QED BY <2>1, <2>2, <4>1, Moved DEF WantPCs, Wn, Hn
      <3>2. CASE depth[t] > 0
        <4>1. LockCount + 1 = depth[t] + Wn /\ LockSemaphore + Hn = 0 BY <2>7, <3>2, BooksSay
        <4>2. depth[t] \in Nat /\ LockCount \in Int BY <2>2
        <4>3. LockCount' + 1 = depth[t] + Cardinality(Wanting') BY <2>1, <3>1, <4>1, <4>2 DEF Wn
        <4>4. LockSemaphore' + Cardinality(Handing') = 0 BY <2>1, <3>1, <4>1 DEF Hn
        <4> QED BY <3>2, <4>3, <4>4 DEF Books, StaysIn, Wn, Hn
      <3>3. CASE depth[t] = 0
        <4>1. Busy \/ Wn > 0 BY <1>2, <2>2, <2>7, <3>1, BooksSay
        <4> QED BY <2>1, <2>2, <3>1, <3>3, <4>1 DEF Books, StaysOut, Wn, Hn
      <3> QED BY <2>2, <3>2, <3>3
    <2> QED BY <2>1, <2>2, <2>4, <2>5, <2>6, <2>7, SectionMove DEF Labels
  <1> QED BY <1>1, <1>2

LEMMA OwnedCInv ==
  ASSUME Assumptions, CInv, NEW t \in alive, RtlEnterCriticalSection(t)
  PROVE  CInv'
  <1>1. /\ pc[t] = "owned" /\ UNCHANGED <<LockCount, OwningThread, LockSemaphore, process>>
        /\ LockCount \in Int /\ LocalAt(t) /\ t \in Threads /\ depth[t] \in Nat /\ pc \in [Threads -> Labels]
    BY Known DEF RtlEnterCriticalSection, CInv, Types
  <1>2. CASE OwningThread = t
    <2>1. RecursionCount' = RecursionCount + 1 /\ Enter1(t) /\ Return(t) BY <1>2 DEF RtlEnterCriticalSection, IsOwner
    <2> QED BY <1>1, <1>2, <2>1, ReEntry
  <1>3. CASE OwningThread # t
    <2>1. Goto(t, "wait") /\ UNCHANGED <<section, depth, process, call>>
      BY <1>1, <1>3 DEF RtlEnterCriticalSection, IsOwner, section
    <2>2. CallKept(t) BY <2>1, Calls
    <2>3. pc'[t] = "wait" /\ depth[t] = 0 BY <1>1, <1>3, <2>1 DEF Goto, LocalAt
    <2>4. LocalAt(t)' BY <1>1, <2>1, <2>3 DEF LocalAt, section
    <2>5. /\ "wait" \in Labels /\ ("wait" \in WantPCs <=> pc[t] \in WantPCs)
          /\ ("wait" = "unwait" <=> pc[t] = "unwait")
      BY <1>1 DEF Labels, WantPCs
    <2> QED BY <2>1, <2>2, <2>4, <2>5, QuietMove
  <1> QED BY <1>2, <1>3

(* A thread whose claim is counted comes in, by the token or because       *)
(* nobody blocks any more.                                                 *)
LEMMA CountedEntry ==
  ASSUME Assumptions, CInv, NEW t \in alive, pc[t] \in {"wait", "token"}, Enter1(t), Goto(t, "own"),
         UNCHANGED <<LockCount, RecursionCount, OwningThread, process, call>>,
         LockSemaphore' \in Nat, ~shutdown => LockSemaphore > 0 /\ LockSemaphore' = LockSemaphore - 1
  PROVE  CInv'
  <1>1. /\ t \in Threads /\ depth \in [Threads -> Nat] /\ pc \in [Threads -> Labels]
        /\ LocalAt(t) /\ depth[t] \in Nat /\ LockSemaphore \in Nat /\ RecursionCount \in Int /\ LockCount \in Int
    BY Known DEF CInv, Types
  <1>2. depth[t] = 0 BY <1>1 DEF LocalAt, InsidePCs
  <1>3. depth' = [depth EXCEPT ![t] = 1] BY <1>1, <1>2 DEF Enter1
  <1>4. pc'[t] = "own" /\ depth'[t] = 1 BY <1>1, <1>3 DEF Goto
  <1>5. Lone(t, 1) BY <1>3, Calls DEF Lone, CallKept
  <1>6. LocalAt(t)' BY <1>1, <1>2, <1>4 DEF LocalAt, InsidePCs
  <1>7. LockCount' + 1 >= Claims(t)'
    <2>1. Claims(t)' = 1 BY <1>4 DEF Claims, WantPCs
    <2>2. Claims(t) = 1 BY <1>2 DEF Claims, WantPCs
    <2> QED BY <2>1, <2>2, Known
  <1>8. ASSUME ~shutdown PROVE Books(t, 1)
    <2>1. Types BY DEF CInv
    <2>2. /\ Cardinality(Wanting') = Cardinality(Wanting) - 1 /\ Cardinality(Handing') = Cardinality(Handing)
          /\ Wn \in Nat /\ Hn \in Nat
      BY <1>1, <2>1, Moved DEF WantPCs, Wn, Hn
    <2>3. ~Busy BY <1>1, <1>8, <2>2, BooksSay
    <2>4. LockCount + 1 = Wn + 0 /\ LockSemaphore + Hn = IF Wn > 0 THEN 1 ELSE 0 BY <1>8, <2>3, BooksSay
    <2>5. LockSemaphore = 1 /\ Hn = 0 BY <1>1, <1>8, <2>2, <2>4
    <2>6. LockCount' + 1 = 1 + Cardinality(Wanting') BY <1>1, <2>2, <2>4 DEF Wn
    <2>7. LockSemaphore' + Cardinality(Handing') = 0 BY <1>8, <2>2, <2>5 DEF Hn
    <2> QED BY <2>3, <2>6, <2>7 DEF Books, StaysIn, Wn, Hn
  <1>9. "own" \in Labels BY DEF Labels
  <1> QED BY <1>1, <1>5, <1>6, <1>7, <1>8, <1>9, SectionMove

LEMMA WaitCInv ==
  ASSUME Assumptions, CInv, NEW t \in alive, RtlpWaitForCriticalSection(t) \/ wait_semaphore(t)
  PROVE  CInv'
  <1>1. /\ pc[t] \in {"wait", "token"} /\ LocalAt(t) /\ t \in Threads /\ depth[t] \in Nat
        /\ pc \in [Threads -> Labels] /\ LockSemaphore \in Nat
    BY Known DEF RtlpWaitForCriticalSection, wait_semaphore, CInv, Types
  <1>2. CASE RtlpWaitForCriticalSection(t) /\ shutdown
    BY <1>1, <1>2, CountedEntry DEF RtlpWaitForCriticalSection, DontBlock, section
  <1>3. CASE wait_semaphore(t) /\ LockSemaphore > 0
    BY <1>1, <1>3, CountedEntry DEF wait_semaphore, Taken
  <1>4. CASE (RtlpWaitForCriticalSection(t) /\ ~shutdown) \/ (wait_semaphore(t) /\ ~(LockSemaphore > 0))
    <2>1. PICK l \in {"token", "compare"} : Goto(t, l)
      BY <1>4 DEF RtlpWaitForCriticalSection, wait_semaphore, DontBlock
    <2>2. UNCHANGED <<section, depth, process, call>>
      BY <1>4 DEF RtlpWaitForCriticalSection, wait_semaphore, DontBlock, section
    <2>3. CallKept(t) BY <2>2, Calls
    <2>4. pc'[t] = l BY <1>1, <2>1 DEF Goto
    <2>5. depth[t] = 0 BY <1>1 DEF LocalAt, InsidePCs
    <2>6. LocalAt(t)' BY <1>1, <2>2, <2>4, <2>5 DEF LocalAt, section
    <2>7. l \in Labels /\ (l \in WantPCs <=> pc[t] \in WantPCs) /\ (l = "unwait" <=> pc[t] = "unwait")
      BY <1>1 DEF Labels, WantPCs
    <2> QED BY <2>1, <2>2, <2>3, <2>6, <2>7, QuietMove
  <1> QED BY <1>2, <1>3, <1>4

LEMMA EnteredCInv ==
  ASSUME Assumptions, CInv, NEW t \in alive, entered(t)
  PROVE  CInv'
  <1>1. /\ pc[t] = "own" /\ OwningThread' = t /\ RecursionCount' = 1 /\ Goto(t, "idle")
        /\ call' = [call EXCEPT ![t] = "none"] /\ UNCHANGED <<LockCount, LockSemaphore, process, depth>>
    BY DEF entered, Return
  <1>2. /\ t \in Threads /\ depth \in [Threads -> Nat] /\ pc \in [Threads -> Labels]
        /\ LocalAt(t) /\ depth[t] = 1 /\ LockSemaphore \in Nat /\ LockCount \in Int
        /\ call \in [Threads -> Ops \cup {"none"}]
    BY <1>1, Known DEF CInv, Types, LocalAt
  <1>3. pc'[t] = "idle" /\ call'[t] = "none" BY <1>1, <1>2 DEF Goto
  <1>4. CallKept(t) BY <1>1, Calls
  <1>5. Lone(t, 1) BY <1>1, <1>2, <1>4 DEF Lone, CallKept
  <1>6. LocalAt(t)' BY <1>1, <1>2, <1>3 DEF LocalAt, InsidePCs
  <1>7. LockCount' + 1 >= Claims(t)'
    <2>1. Claims(t)' = Claims(t) BY <1>1, <1>3 DEF Claims, WantPCs
    <2> QED BY <1>1, <2>1, Known
  <1>8. ASSUME ~shutdown PROVE Books(t, 1)
    <2>1. Types BY DEF CInv
    <2>2. /\ Cardinality(Wanting') = Cardinality(Wanting) /\ Cardinality(Handing') = Cardinality(Handing)
          /\ Wn \in Nat /\ Hn \in Nat
      BY <1>1, <1>2, <2>1, Moved DEF WantPCs, Wn, Hn
    <2>3. LockCount + 1 = 1 + Wn /\ LockSemaphore + Hn = 0 BY <1>2, <1>8, BooksSay
    <2>4. LockCount' + 1 = 1 + Cardinality(Wanting') /\ LockSemaphore' + Cardinality(Handing') = 0
      BY <1>1, <2>2, <2>3 DEF Wn, Hn
    <2> QED BY <1>2, <2>4 DEF Books, StaysIn, Wn, Hn
  <1> QED BY <1>1, <1>2, <1>5, <1>6, <1>7, <1>8, SectionMove DEF Labels

-----------------------------------------------------------------------------
(* The ways out.                                                           *)

(* The owner writes the owner or the recursion count.                      *)
LEMMA OwnerMove ==
  ASSUME Assumptions, CInv, NEW t \in alive, depth[t] > 0, NEW l \in Labels, Goto(t, l),
         OwningThread' \in {OwningThread, 0}, RecursionCount' \in Int, LocalAt(t)',
         UNCHANGED <<LockCount, LockSemaphore, process, call, depth>>,
         pc[t] \notin WantPCs, l \notin WantPCs, pc[t] # "unwait", l # "unwait"
  PROVE  CInv'
  <1>1. /\ t \in Threads /\ depth \in [Threads -> Nat] /\ depth[t] \in Nat /\ pc \in [Threads -> Labels]
        /\ LockSemaphore \in Nat /\ LockCount \in Int
    BY Known DEF CInv, Types
  <1>2. Lone(t, depth[t]) BY <1>1, Calls DEF Lone, CallKept
  <1>3. LockCount' + 1 >= Claims(t)'
    <2>1. pc'[t] = l BY <1>1 DEF Goto
    <2>2. Claims(t)' = Claims(t) BY <2>1 DEF Claims
    <2> QED BY <2>2, Known
  <1>4. ASSUME ~shutdown PROVE Books(t, depth[t])
    <2>1. Types BY DEF CInv
    <2>2. /\ Cardinality(Wanting') = Cardinality(Wanting) /\ Cardinality(Handing') = Cardinality(Handing)
          /\ Wn \in Nat /\ Hn \in Nat
      BY <1>1, <2>1, Moved DEF Wn, Hn
    <2>3. LockCount + 1 = depth[t] + Wn /\ LockSemaphore + Hn = 0 BY <1>4, BooksSay
    <2>4. LockCount' + 1 = depth[t] + Cardinality(Wanting') /\ LockSemaphore' + Cardinality(Handing') = 0
      BY <2>2, <2>3 DEF Wn, Hn
    <2> QED BY <2>4 DEF Books, StaysIn, Wn, Hn
  <1> QED BY <1>1, <1>2, <1>3, <1>4, SectionMove

LEMMA LeaveCInv ==
  ASSUME Assumptions, CInv, NEW t \in alive, leave_recursion(t) \/ leave_owner(t)
  PROVE  CInv'
  <1>1. /\ t \in Threads /\ pc \in [Threads -> Labels] /\ LocalAt(t) /\ depth[t] \in Nat /\ RecursionCount \in Int
        /\ t # 0
    BY Known DEF CInv, Types
  <1>2. CASE leave_recursion(t)
    <2>1. /\ pc[t] = "leave" /\ RecursionCount' = RecursionCount - 1
          /\ UNCHANGED <<LockCount, OwningThread, LockSemaphore, process, call, depth>>
      BY <1>2 DEF leave_recursion, Move
    <2> DEFINE l == IF RecursionCount = 1 THEN "disown" ELSE "dec"
    <2>2. Goto(t, l) BY <1>2 DEF leave_recursion, Move
    <2>3. pc'[t] = l BY <1>1, <2>2 DEF Goto
    <2>4. depth[t] > 0 /\ RecursionCount = depth[t] BY <1>1, <2>1 DEF LocalAt
    <2>5. LocalAt(t)' BY <1>1, <2>1, <2>3, <2>4 DEF LocalAt, InsidePCs
    <2>6. l \in Labels /\ l \notin WantPCs /\ l # "unwait" /\ pc[t] \notin WantPCs /\ pc[t] # "unwait"
      BY <2>1 DEF Labels, WantPCs
    <2> HIDE DEF l
    <2> QED BY <1>1, <2>1, <2>2, <2>4, <2>5, <2>6, OwnerMove
  <1>3. CASE leave_owner(t)
    <2>1. /\ pc[t] = "disown" /\ Goto(t, "count") /\ OwningThread' = 0
          /\ UNCHANGED <<LockCount, RecursionCount, LockSemaphore, process, call, depth>>
      BY <1>3 DEF leave_owner, Move
    <2>2. pc'[t] = "count" BY <1>1, <2>1 DEF Goto
    <2>3. depth[t] = 1 BY <1>1, <2>1 DEF LocalAt
    <2>4. LocalAt(t)' BY <1>1, <2>1, <2>2, <2>3 DEF LocalAt, InsidePCs
    <2>5. /\ "count" \in Labels /\ "count" \notin WantPCs /\ pc[t] \notin WantPCs /\ pc[t] # "unwait"
      BY <2>1 DEF Labels, WantPCs
    <2> QED BY <1>1, <2>1, <2>3, <2>4, <2>5, OwnerMove
  <1> QED BY <1>2, <1>3

LEMMA InnerCInv ==
  ASSUME Assumptions, CInv, NEW t \in alive, leave_inner(t)
  PROVE  CInv'
  <1>1. /\ t \in Threads /\ depth \in [Threads -> Nat] /\ pc \in [Threads -> Labels]
        /\ LocalAt(t) /\ depth[t] \in Nat /\ LockSemaphore \in Nat /\ RecursionCount \in Int /\ LockCount \in Int
        /\ call \in [Threads -> Ops \cup {"none"}]
    BY Known DEF CInv, Types
  <1>2. /\ pc[t] = "dec" /\ LockCount' = LockCount - 1 /\ Leave1(t)
        /\ UNCHANGED <<RecursionCount, OwningThread, LockSemaphore, process>>
    BY DEF leave_inner
  <1>3. depth[t] > 1 /\ call[t] # "sleep" BY <1>1, <1>2 DEF LocalAt
  <1>4. Goto(t, "idle") /\ call' = [call EXCEPT ![t] = "none"] BY <1>3 DEF leave_inner, After, Return
  <1> DEFINE d == depth[t] - 1
  <1>5. depth' = [depth EXCEPT ![t] = d] /\ d \in Nat /\ d > 0 BY <1>1, <1>2, <1>3 DEF Leave1
  <1>6. pc'[t] = "idle" /\ depth'[t] = d /\ call'[t] = "none" BY <1>1, <1>4, <1>5 DEF Goto
  <1>7. CallKept(t) BY <1>4, Calls
  <1>8. Lone(t, d) BY <1>2, <1>3, <1>5, <1>7 DEF Lone, CallKept
  <1>9. LocalAt(t)' BY <1>1, <1>2, <1>3, <1>6 DEF LocalAt, InsidePCs
  <1>10. LockCount' + 1 >= Claims(t)'
    <2>1. Claims(t)' = d BY <1>5, <1>6 DEF Claims, WantPCs
    <2>2. Claims(t) = depth[t] BY <1>1, <1>2 DEF Claims, WantPCs
    <2>3. LockCount + 1 >= depth[t] BY <2>2, Known
    <2> QED BY <1>1, <1>2, <2>1, <2>3
  <1>11. ASSUME ~shutdown PROVE Books(t, d)
    <2>1. Types BY DEF CInv
    <2>2. /\ Cardinality(Wanting') = Cardinality(Wanting) /\ Cardinality(Handing') = Cardinality(Handing)
          /\ Wn \in Nat /\ Hn \in Nat
      BY <1>1, <1>2, <1>4, <2>1, Moved DEF WantPCs, Wn, Hn
    <2>3. LockCount + 1 = depth[t] + Wn /\ LockSemaphore + Hn = 0 BY <1>1, <1>3, <1>11, BooksSay
    <2>4. depth[t] \in Nat /\ LockCount \in Int BY <1>1
    <2>5. LockCount' + 1 = d + Cardinality(Wanting') BY <1>2, <2>2, <2>3, <2>4 DEF Wn
    <2>6. LockSemaphore' + Cardinality(Handing') = 0 BY <1>2, <2>2, <2>3 DEF Hn
    <2> QED BY <1>1, <1>3, <1>5, <2>5, <2>6 DEF Books, StaysIn, Wn, Hn
  <1>12. "idle" \in Labels /\ LockCount' \in Int /\ RecursionCount' \in Int /\ LockSemaphore' \in Nat
    BY <1>1, <1>2 DEF Labels
  <1> HIDE DEF d
  <1> QED BY <1>4, <1>5, <1>8, <1>9, <1>10, <1>11, <1>12, SectionMove

(* The last leave counts itself out and sees whether somebody waits.       *)
LEMMA CountCInv ==
  ASSUME Assumptions, CInv, NEW t \in alive, RtlLeaveCriticalSection(t)
  PROVE  CInv'
  <1>1. /\ t \in Threads /\ depth \in [Threads -> Nat] /\ pc \in [Threads -> Labels]
        /\ LocalAt(t) /\ LockSemaphore \in Nat /\ RecursionCount \in Int /\ LockCount \in Int
        /\ call \in [Threads -> Ops \cup {"none"}]
    BY Known DEF CInv, Types
  <1>2. /\ pc[t] = "count" /\ LockCount' = LockCount - 1 /\ Leave1(t)
        /\ UNCHANGED <<RecursionCount, OwningThread, LockSemaphore, process>>
    BY DEF RtlLeaveCriticalSection
  <1>3. depth[t] = 1 /\ OwningThread # t BY <1>1, <1>2 DEF LocalAt
  <1>4. PICK l \in {"unwait", "cv_compare", "idle"} :
           /\ Goto(t, l) /\ (l = "unwait" <=> LockCount - 1 >= 0)
           /\ UNCHANGED call \/ call' = [call EXCEPT ![t] = "none"]
    BY DEF RtlLeaveCriticalSection, SomeoneWaits, After, Return
  <1>5. depth' = [depth EXCEPT ![t] = 0] BY <1>1, <1>2, <1>3 DEF Leave1
  <1>6. Goto(t, l) /\ CallKept(t) BY <1>4, Calls
  <1>7. pc'[t] = l /\ depth'[t] = 0 BY <1>1, <1>5, <1>6 DEF Goto
  <1>8. Lone(t, 0) BY <1>2, <1>3, <1>5, <1>6 DEF Lone, CallKept
  <1>9. LocalAt(t)' BY <1>2, <1>3, <1>7 DEF LocalAt
  <1>10. LockCount' + 1 >= Claims(t)'
    <2>1. Claims(t)' = 0 BY <1>7 DEF Claims, WantPCs
    <2>2. Claims(t) = 1 BY <1>2, <1>3 DEF Claims, WantPCs
    <2>3. LockCount + 1 >= 1 BY <2>2, Known
    <2> QED BY <1>1, <1>2, <2>1, <2>3
  <1>11. ASSUME ~shutdown PROVE Books(t, 0)
    <2>1. Types BY DEF CInv
    <2>2. /\ Cardinality(Wanting') = Cardinality(Wanting) /\ Wn \in Nat /\ Hn \in Nat
          /\ Cardinality(Handing') = Cardinality(Handing) + IF l = "unwait" THEN 1 ELSE 0
      BY <1>1, <1>2, <1>6, <2>1, Moved DEF WantPCs, Wn, Hn
    <2>3. LockCount + 1 = 1 + Wn /\ LockSemaphore + Hn = 0 BY <1>3, <1>11, BooksSay
    <2>4. LockCount = Wn /\ LockSemaphore = 0 /\ Hn = 0 BY <1>1, <2>2, <2>3
    <2>5. LockCount' + 1 = Cardinality(Wanting') BY <1>2, <2>2, <2>4 DEF Wn
    <2>6. l = "unwait" <=> Cardinality(Wanting') > 0 BY <1>4, <2>2, <2>4 DEF Wn
    <2>7. LockSemaphore' + Cardinality(Handing') = IF Cardinality(Wanting') > 0 THEN 1 ELSE 0
      BY <1>2, <2>2, <2>4, <2>6 DEF Hn
    <2> QED BY <1>3, <2>5, <2>7 DEF Books, GoesOut, Wn, Hn
  <1>12. l \in Labels /\ LockCount' \in Int /\ RecursionCount' \in Int /\ LockSemaphore' \in Nat
    BY <1>1, <1>2 DEF Labels
  <1> QED BY <1>6, <1>8, <1>9, <1>10, <1>11, <1>12, SectionMove

(* The token is put down by who counted that somebody waits.               *)
LEMMA UnwaitCInv ==
  ASSUME Assumptions, CInv, NEW t \in alive, RtlpUnWaitCriticalSection(t)
  PROVE  CInv'
  <1>1. /\ t \in Threads /\ depth \in [Threads -> Nat] /\ pc \in [Threads -> Labels] /\ depth[t] \in Nat
        /\ LocalAt(t) /\ LockSemaphore \in Nat /\ RecursionCount \in Int /\ LockCount \in Int
    BY Known DEF CInv, Types
  <1>2. /\ pc[t] = "unwait" /\ UNCHANGED <<LockCount, RecursionCount, OwningThread, process, depth>>
        /\ LockSemaphore' \in {LockSemaphore + 1, 1}
    BY DEF RtlpUnWaitCriticalSection
  <1>3. PICK l \in {"notify", "cv_compare", "idle"} :
           Goto(t, l) /\ (UNCHANGED call \/ call' = [call EXCEPT ![t] = "none"])
    BY DEF RtlpUnWaitCriticalSection, After, Return
  <1>4. Goto(t, l) /\ CallKept(t) BY <1>3, Calls
  <1>5. pc'[t] = l /\ depth[t] = 0 BY <1>1, <1>2, <1>4 DEF Goto, LocalAt, InsidePCs
  <1>6. Lone(t, 0) BY <1>1, <1>2, <1>4, <1>5 DEF Lone, CallKept
  <1>7. LocalAt(t)' BY <1>1, <1>2, <1>5 DEF LocalAt
  <1>8. LockCount' + 1 >= Claims(t)'
    <2>1. Claims(t)' = 0 BY <1>2, <1>5 DEF Claims, WantPCs
    <2>2. Claims(t) = 0 BY <1>2, <1>5 DEF Claims, WantPCs
    <2> QED BY <1>2, <2>1, <2>2, Known
  <1>9. ASSUME ~shutdown PROVE Books(t, 0)
    <2>1. Types BY DEF CInv
    <2>2. /\ Cardinality(Wanting') = Cardinality(Wanting) /\ Wn \in Nat /\ Hn \in Nat
          /\ Cardinality(Handing') = Cardinality(Handing) - 1 /\ Cardinality(Handing') \in Nat
      BY <1>1, <1>2, <1>4, <2>1, Moved DEF WantPCs, Wn, Hn
    <2>3. LockSemaphore + Hn <= 1
      <3>1. CASE Busy BY <1>9, <3>1, BooksSay
      <3>2. CASE ~Busy BY <1>9, <3>2, <2>2, BooksSay
      <3> QED BY <3>1, <3>2
    <2>4. LockSemaphore = 0 /\ Hn = 1 BY <1>1, <2>2, <2>3 DEF Hn
    <2>7. LockSemaphore' = 1 BY <1>2, <2>4
    <2>8. Cardinality(Handing) = 1 /\ Cardinality(Handing') = 0 BY <2>2, <2>4 DEF Hn
    <2>5. LockSemaphore' + Cardinality(Handing') = LockSemaphore + Cardinality(Handing)
      BY <2>4, <2>7, <2>8
    <2>6. LockCount' - LockCount = Cardinality(Wanting') - Cardinality(Wanting) BY <1>1, <1>2, <2>2 DEF Wn
    <2> QED BY <1>5, <2>2, <2>5, <2>6 DEF Books, StaysOut, Wn, Hn
  <1>10. l \in Labels /\ LockSemaphore' \in Nat BY <1>1, <1>2 DEF Labels
  <1> QED BY <1>1, <1>2, <1>4, <1>6, <1>7, <1>8, <1>9, <1>10, SectionMove

-----------------------------------------------------------------------------
(* Everything else leaves the section alone.                               *)

(* A thread moves where nobody has the section.                            *)
LEMMA OutsideMove ==
  ASSUME Assumptions, CInv, NEW t \in alive, pc[t] \notin InsidePCs,
         NEW l \in Labels \ {"own", "disown", "count", "sleep", "leave", "dec"}, Goto(t, l),
         UNCHANGED <<section, depth, process>>, UNCHANGED call \/ call' = [call EXCEPT ![t] = "none"],
         l \in WantPCs <=> pc[t] \in WantPCs, l = "unwait" <=> pc[t] = "unwait"
  PROVE  CInv'
  <1>1. t \in Threads /\ pc \in [Threads -> Labels] /\ depth[t] \in Nat /\ LocalAt(t)
    BY Known DEF CInv, Types
  <1>2. pc'[t] = l /\ depth[t] = 0 BY <1>1 DEF Goto, LocalAt
  <1>3. CallKept(t) BY Calls
  <1>4. OwningThread' # t /\ depth'[t] = 0 BY <1>1, <1>2 DEF section, LocalAt
  <1>5. LocalAt(t)' BY <1>2, <1>4 DEF LocalAt
  <1> QED BY <1>3, <1>5, QuietMove

LEMMA QuietCInv ==
  ASSUME Assumptions, CInv, NEW t \in alive,
         unwait_wake(t) \/ Condition(t) \/ RtlWaitOnAddress(t) \/ woken(t) \/ leave_wait(t)
  PROVE  CInv'
  <1>1. t \in Threads /\ pc \in [Threads -> Labels] /\ depth[t] \in Nat /\ LocalAt(t)
        /\ call \in [Threads -> Ops \cup {"none"}]
    BY Known DEF CInv, Types
  <1>2. CASE unwait_wake(t)
    <2>1. pc[t] = "notify" /\ UNCHANGED <<section, depth, process>> BY <1>2 DEF unwait_wake
    <2>2. PICK l \in {"cv_compare", "idle"} :
             Goto(t, l) /\ (UNCHANGED call \/ call' = [call EXCEPT ![t] = "none"])
      BY <1>2 DEF unwait_wake, After, Return
    <2>3. /\ l \in Labels \ {"own", "disown", "count", "sleep", "leave", "dec"} /\ pc[t] \notin InsidePCs
          /\ (l \in WantPCs <=> pc[t] \in WantPCs) /\ (l = "unwait" <=> pc[t] = "unwait")
      BY <2>1 DEF Labels, WantPCs, InsidePCs
    <2> QED BY <2>1, <2>2, <2>3, OutsideMove
  <1>3. CASE RtlSleepConditionVariableCS(t) \/ cv_change(t)
    <2>1. PICK l \in {"leave", "cv_wake"} : Goto(t, l) /\ pc[t] = IF l = "leave" THEN "sleep" ELSE "wake"
      BY <1>3 DEF RtlSleepConditionVariableCS, cv_change, Move
    <2>2. UNCHANGED <<section, depth, process, call>> BY <1>3 DEF RtlSleepConditionVariableCS, cv_change, Move
    <2>3. pc'[t] = l BY <1>1, <2>1 DEF Goto
    <2>4. LocalAt(t)' BY <1>1, <2>1, <2>2, <2>3 DEF LocalAt, InsidePCs, section
    <2>5. /\ l \in Labels /\ (l \in WantPCs <=> pc[t] \in WantPCs) /\ (l = "unwait" <=> pc[t] = "unwait")
      BY <2>1 DEF Labels, WantPCs
    <2>6. CallKept(t) BY <2>2, Calls
    <2> QED BY <2>1, <2>2, <2>4, <2>5, <2>6, QuietMove
  <1>4. CASE RtlWakeConditionVariable(t)
    <2>1. /\ pc[t] = "cv_wake" /\ Goto(t, "idle") /\ call' = [call EXCEPT ![t] = "none"]
          /\ UNCHANGED <<section, depth, process>>
      BY <1>4 DEF RtlWakeConditionVariable, Return
    <2>2. pc'[t] = "idle" /\ call'[t] = "none" BY <1>1, <2>1 DEF Goto
    <2>3. LocalAt(t)' BY <1>1, <2>1, <2>2 DEF LocalAt, InsidePCs, section
    <2>4. /\ "idle" \in Labels /\ ("idle" \in WantPCs <=> pc[t] \in WantPCs)
          /\ ("idle" = "unwait" <=> pc[t] = "unwait")
      BY <2>1 DEF Labels, WantPCs
    <2>5. CallKept(t) BY <2>1, Calls
    <2> QED BY <2>1, <2>3, <2>4, <2>5, QuietMove
  <1>5. CASE RtlWaitOnAddress(t) \/ woken(t) \/ leave_wait(t)
    <2>1. UNCHANGED <<section, depth, process, call>> BY <1>5 DEF RtlWaitOnAddress, woken, leave_wait
    <2>2. PICK l \in {"asleep", "cv_asleep", "token", "try", "inc"} :
             /\ Goto(t, l) /\ pc[t] \in {"compare", "asleep", "cv_compare", "cv_asleep"}
             /\ (l \in {"asleep", "token"} <=> pc[t] \in {"compare", "asleep"})
      BY <1>5 DEF RtlWaitOnAddress, woken, leave_wait, Again, StartEnter
    <2>3. /\ l \in Labels \ {"own", "disown", "count", "sleep", "leave", "dec"} /\ pc[t] \notin InsidePCs
          /\ (l \in WantPCs <=> pc[t] \in WantPCs) /\ (l = "unwait" <=> pc[t] = "unwait")
      BY <2>2 DEF Labels, WantPCs, InsidePCs
    <2> QED BY <2>1, <2>2, <2>3, OutsideMove
  <1> QED BY <1>2, <1>3, <1>4, <1>5 DEF Condition

LEMMA BeginCInv ==
  ASSUME Assumptions, CInv, NEW t \in Threads, NEW op \in Ops, Begin(t, op)
  PROVE  CInv'
  <1>1. /\ t \in alive /\ pc \in [Threads -> Labels] /\ depth[t] \in Nat /\ LocalAt(t) /\ pc[t] = "idle"
        /\ call \in [Threads -> Ops \cup {"none"}]
    BY Known DEF CInv, Types, Begin
  <1> DEFINE l == IF op = "enter" THEN StartEnter ELSE op
  <1>2. /\ Goto(t, l) /\ call' = [call EXCEPT ![t] = op] /\ UNCHANGED <<section, depth, process>>
        /\ (op = "leave" => depth[t] > 0) /\ (op = "sleep" => depth[t] = 1)
    BY DEF Begin
  <1>3. /\ l \in {"try", "inc", "leave", "sleep", "wake"}
        /\ (l = "leave" <=> op = "leave") /\ (l = "sleep" <=> op = "sleep")
    BY DEF StartEnter, Begin, Ops
  <1> HIDE DEF l
  <1>4. pc'[t] = l /\ call'[t] = op BY <1>1, <1>2 DEF Goto
  <1>5. OwningThread' = OwningThread /\ RecursionCount' = RecursionCount /\ depth'[t] = depth[t] BY <1>2 DEF section
  <1>6. LocalAt(t)' BY <1>1, <1>2, <1>3, <1>4, <1>5 DEF LocalAt, InsidePCs
  <1>7. /\ l \in Labels /\ (l \in WantPCs <=> pc[t] \in WantPCs) /\ (l = "unwait" <=> pc[t] = "unwait")
    BY <1>1, <1>3 DEF Labels, WantPCs
  <1>8. CallKept(t) BY <1>2, Calls
  <1> QED BY <1>1, <1>2, <1>6, <1>7, <1>8, QuietMove

LEMMA ShutdownCInv ==
  ASSUME CInv, NEW t \in Threads, LdrShutdownProcess(t)
  PROVE  CInv'
  <1>1. /\ t \in alive /\ alive' = {t} /\ shutdown' = TRUE
        /\ UNCHANGED <<LockCount, RecursionCount, OwningThread, LockSemaphore, pc, call, depth>>
    BY DEF LdrShutdownProcess, section
  <1>2. Types' BY <1>1 DEF CInv, Types
  <1>3. AliveOK' BY <1>1 DEF AliveOK
  <1>4. LocalOK'
    <2>1. LocalAt(t) BY <1>1 DEF CInv, LocalOK
    <2>2. LocalAt(t)' BY <1>1, <2>1 DEF LocalAt
    <2> QED BY <1>1, <2>2 DEF LocalOK
  <1>5. ClaimOK'
    <2>1. LockCount + 1 >= Claims(t) BY <1>1 DEF CInv, ClaimOK
    <2>2. LockCount' + 1 >= Claims(t)' BY <1>1, <2>1 DEF Claims
    <2> QED BY <1>1, <2>2 DEF ClaimOK
  <1>6. GlobalOK' BY <1>1 DEF GlobalOK
  <1> QED BY <1>2, <1>3, <1>4, <1>5, <1>6 DEF CInv

-----------------------------------------------------------------------------
(* The theorems.                                                           *)

LEMMA InitCInv == ASSUME Assumptions, Init PROVE CInv
  <1>1. /\ LockCount = -1 /\ RecursionCount = 0 /\ OwningThread = 0 /\ LockSemaphore = 0 /\ alive = Threads
        /\ shutdown = FALSE /\ pc = [t \in Threads |-> "idle"] /\ call = [t \in Threads |-> "none"]
        /\ depth = [t \in Threads |-> 0] /\ 0 \notin Threads
    BY DEF Init, Assumptions, ThreadsAssumption
  <1>2. Types
    <2>1. LockCount \in Int BY <1>1
    <2>2. pc \in [Threads -> Labels] BY <1>1 DEF Labels
    <2>3. depth \in [Threads -> Nat] BY <1>1
    <2>4. call \in [Threads -> Ops \cup {"none"}] BY <1>1
    <2>5. RecursionCount \in Int /\ OwningThread \in Threads \cup {0} /\ LockSemaphore \in Nat BY <1>1
    <2>6. shutdown \in BOOLEAN BY <1>1, Zenon
    <2> QED BY <2>1, <2>2, <2>3, <2>4, <2>5, <2>6 DEF Types
  <1>3. AliveOK BY <1>1 DEF AliveOK
  <1>4. LocalOK
    <2> SUFFICES ASSUME NEW t \in Threads PROVE LocalAt(t) BY <1>1 DEF LocalOK
    <2>1. depth[t] = 0 /\ pc[t] = "idle" /\ OwningThread # t BY <1>1
    <2> QED BY <2>1 DEF LocalAt
  <1>5. ClaimOK
    <2> SUFFICES ASSUME NEW t \in Threads PROVE LockCount + 1 >= Claims(t) BY <1>1 DEF ClaimOK
    <2>1. depth[t] = 0 /\ pc[t] = "idle" BY <1>1
    <2>2. Claims(t) = 0 BY <2>1 DEF Claims, WantPCs
    <2> QED BY <1>1, <2>2
  <1>6. GlobalOK
    <2>1. Wanting = {} /\ Handing = {} BY <1>1 DEF Wanting, Handing
    <2>2. Cardinality(Wanting) = 0 /\ Cardinality(Handing) = 0 BY <2>1, FS_EmptySet, Zenon
    <2>3. ~Busy /\ Exclusive /\ \A t \in Threads : ~(depth[t] > 0) BY <1>1 DEF Busy, Exclusive
    <2>4. CountOK BY <1>1, <2>2, <2>3 DEF CountOK
    <2>5. TokenOK BY <1>1, <2>2, <2>3 DEF TokenOK
    <2> QED BY <2>3, <2>4, <2>5 DEF GlobalOK
  <1> QED BY <1>2, <1>3, <1>4, <1>5, <1>6 DEF CInv

LEMMA StutterCInv == ASSUME CInv, UNCHANGED vars PROVE CInv'
  <1>1. UNCHANGED <<LockCount, RecursionCount, OwningThread, LockSemaphore, alive, shutdown, pc, call, depth>>
    BY DEF vars, section, process
  <1>2. Types' BY <1>1 DEF CInv, Types
  <1>3. AliveOK' BY <1>1 DEF CInv, AliveOK
  <1>4. LocalOK' BY <1>1 DEF CInv, LocalOK, LocalAt
  <1>5. ClaimOK' BY <1>1 DEF CInv, ClaimOK, Claims
  <1>6. GlobalOK' BY <1>1 DEF CInv, GlobalOK, Exclusive, CountOK, TokenOK, Busy, Wanting, Handing
  <1> QED BY <1>2, <1>3, <1>4, <1>5, <1>6 DEF CInv

LEMMA NextCInv == ASSUME Assumptions, CInv, [Next]_vars PROVE CInv'
  <1>1. CASE UNCHANGED vars BY <1>1, StutterCInv
  <1>2. CASE Next
    <2>1. PICK t \in Threads : (\E op \in Ops : Begin(t, op)) \/ LdrShutdownProcess(t) \/ Step(t)
                               \/ (t \in alive /\ leave_wait(t))
      BY <1>2 DEF Next
    <2>2. CASE \E op \in Ops : Begin(t, op) BY <2>2, BeginCInv
    <2>3. CASE LdrShutdownProcess(t) BY <2>3, ShutdownCInv
    <2>4. CASE Step(t)
      <3>1. t \in alive BY <2>4 DEF Step
      <3>2. CASE Enters(t)
        BY <3>1, <3>2, TryCInv, SpinCInv, IncCInv, OwnedCInv, WaitCInv, EnteredCInv DEF Enters
      <3>3. CASE Leaves(t) BY <3>1, <3>3, LeaveCInv, InnerCInv, CountCInv, UnwaitCInv, QuietCInv DEF Leaves
      <3>4. CASE Condition(t) \/ RtlWaitOnAddress(t) \/ woken(t) BY <3>1, <3>4, QuietCInv
      <3> QED BY <2>4, <3>2, <3>3, <3>4 DEF Step
    <2>5. CASE t \in alive /\ leave_wait(t) BY <2>5, QuietCInv
    <2> QED BY <2>1, <2>2, <2>3, <2>4, <2>5
  <1> QED BY <1>1, <1>2

LEMMA Inductive == Assumptions => (Spec => []CInv)
  <1> SUFFICES ASSUME Assumptions PROVE Spec => []CInv OBVIOUS
  <1>1. Init => CInv BY InitCInv
  <1>2. CInv /\ [Next]_vars => CInv' BY NextCInv
  <1> QED BY <1>1, <1>2, PTL DEF Spec

(* RtlEnterCriticalSection lets one running thread in, however it came in, *)
(* and the shutdown of the process, after which nobody blocks, does not    *)
(* let a second one in.                                                    *)
THEOREM SectionExcludes == Assumptions => (Spec => []MutualExclusion)
  <1> SUFFICES ASSUME Assumptions PROVE Spec => []MutualExclusion OBVIOUS
  <1>1. ASSUME CInv PROVE MutualExclusion
    <2>1. CASE shutdown BY <1>1, <2>1 DEF CInv, AliveOK, MutualExclusion, Inside
    <2>2. CASE ~shutdown BY <1>1, <2>2 DEF CInv, GlobalOK, Exclusive, MutualExclusion, Inside
    <2> QED BY <2>1, <2>2
  <1>2. Spec => []CInv BY Inductive
  <1>3. CInv => MutualExclusion BY <1>1
  <1> QED BY <1>2, <1>3, PTL

(* Until the shutdown RtlpUnWaitCriticalSection passes the section on by   *)
(* one token, which is there only when nobody is inside, and LockCount     *)
(* counts everybody who wants to come in.                                  *)
THEOREM SectionHandedOn == Assumptions => (Spec => []OneToken)
  <1> SUFFICES ASSUME Assumptions PROVE Spec => []OneToken OBVIOUS
  <1>1. ASSUME CInv PROVE OneToken
    <2> SUFFICES ASSUME ~shutdown
                 PROVE  /\ LockSemaphore + Cardinality(Handing) <= 1
                        /\ LockSemaphore + Cardinality(Handing) = 1 => \A t \in Threads : depth[t] = 0
                        /\ Wanting # {} => LockCount >= 0
      BY DEF OneToken
    <2>1. Types /\ CountOK /\ TokenOK BY <1>1 DEF CInv, GlobalOK
    <2>2. LockSemaphore + Cardinality(Handing) <= 1 BY <2>1 DEF TokenOK
    <2>3. LockSemaphore + Cardinality(Handing) = 1 => \A t \in Threads : depth[t] = 0
      BY <2>1 DEF TokenOK, Busy, Types
    <2>4. ASSUME NEW t \in Wanting PROVE LockCount >= 0
      <3>1. t \in Threads /\ pc[t] \in WantPCs /\ LockCount \in Int /\ depth[t] \in Nat
        BY <2>1 DEF Wanting, WantPCs, Types
      <3>2. LockCount + 1 >= Claims(t) BY <2>1, <3>1, Claimed DEF AllClaimed
      <3> QED BY <3>1, <3>2 DEF Claims
    <2> QED BY <2>2, <2>3, <2>4
  <1>2. Spec => []CInv BY Inductive
  <1>3. CInv => OneToken BY <1>1
  <1> QED BY <1>2, <1>3, PTL

(* Between its calls RtlIsCriticalSectionLockedByThread tells a thread     *)
(* whether it is inside, and RecursionCount how often it entered.          *)
THEOREM SectionTellsOwner == Assumptions => (Spec => []OwnerTold)
  <1> SUFFICES ASSUME Assumptions PROVE Spec => []OwnerTold OBVIOUS
  <1>1. ASSUME CInv PROVE OwnerTold
    <2> SUFFICES ASSUME NEW t \in alive, pc[t] = "idle"
                 PROVE  /\ (OwningThread = t /\ RecursionCount # 0) <=> depth[t] > 0
                        /\ depth[t] > 0 => RecursionCount = depth[t]
      BY DEF OwnerTold
    <2>1. LocalAt(t) /\ depth[t] \in Nat BY <1>1, Known
    <2>2. depth[t] > 0 => RecursionCount = depth[t] BY <2>1 DEF LocalAt
    <2>3. OwningThread = t <=> depth[t] > 0 BY <2>1 DEF LocalAt
    <2> QED BY <2>1, <2>2, <2>3
  <1>2. Spec => []CInv BY Inductive
  <1>3. CInv => OwnerTold BY <1>1
  <1> QED BY <1>2, <1>3, PTL
=============================================================================
