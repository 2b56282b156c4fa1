-------------------------- MODULE WfuObject_proofs --------------------------
(***************************************************************************)
(* Proofs about WfuObject, for every kind of object, any set of threads    *)
(* and multi-waiters, any calls and any bounds: exclusion (IInv); no wake  *)
(* is lost, neither of a multi-waiter, which sleeps on its slot, nor of a  *)
(* thread that sleeps on the address of a manual-reset event (WInv);       *)
(* and a WFUSync object is, to its callers, the object wineserver keeps    *)
(* alone: WfuObject implements NtObject, as long as no thread takes a      *)
(* mutex INT_MAX times.                                                    *)
(***************************************************************************)
EXTENDS WfuObject, SequenceTheorems, TLAPS

-----------------------------------------------------------------------------
(* The inductive invariant.                                                *)

(* A request in progress has a thread behind it, and wake_up a place in    *)
(* the queue.                                                              *)
RequestOK ==
  /\ srv.op # "none" => srv.req \in Threads
  /\ srv.fn \in {"signal", "reset", "abandon"} => srv.op # "none"
  /\ srv.pc \in {"lock", "body", "unlock"} => srv.fn # "none"
  /\ srv.pos > 0 => srv.op # "none"
  /\ srv.pc \in {"scan", "wakeaddr", "wakemulti"} => srv.op # "none"
  /\ srv.pc = "scan" => srv.pos > 0
  /\ srv.pc \in {"guarded", "unguard"} => srv.req \in Threads

(* While a queued thread is being checked the queue is not empty.          *)
Checking == \/ srv.fn \in {"signaled", "satisfied"} /\ srv.pc \in {"lock", "body", "unlock"}
            \/ srv.pc = "remove"
QueueOK == /\ Checking => queue # <<>>
           /\ srv.pc \in {"guarded", "unguard"} => queue = <<>>

(* SERVER_WAITERS is up as long as it has to keep the threads out.         *)
FlagOK == queue # <<>> \/ srv.pc \in {"guarded", "unguard"} => word.server

(* STATE_LOCKED is up as long as somebody relies on it, unless the object  *)
(* is gone.                                                                *)
LockOK == /\ srv.pc \notin {"idle", "destroyed"} => Live
          /\ Live /\ (Holders # {} \/ srv.pc \in {"body", "unlock"}) => word.locked

(* What check_wait found stays true until end_wait acts on it.             *)
VerdictOK ==
  /\ srv.fn = "signaled" /\ srv.pc = "unlock" /\ srv.ok => Signaled(word, srv.cur)
  /\ srv.fn = "satisfied" /\ srv.pc \in {"lock", "body"} => Signaled(word, srv.cur) /\ Holders = {}

Safe == RequestOK /\ QueueOK /\ FlagOK /\ LockOK /\ LockExclusion /\ VerdictOK

IInv == TypeOK /\ Safe

-----------------------------------------------------------------------------
(* The operators on the word.                                              *)

(* Whether a wait can be satisfied is a yes or a no.                       *)
LEMMA SignaledType == ASSUME NEW w \in Word, NEW t \in Int PROVE Signaled(w, t) \in BOOLEAN
  <1>1. CASE Mutex BY <1>1, SMT DEF Signaled
  <1>2. CASE ~Mutex BY <1>2, SMT DEF Signaled
  <1> QED BY <1>1, <1>2

(* So is whether a release has to wake sleepers.                           *)
LEMMA ReleaseWakesType == ASSUME NEW w \in Word PROVE ReleaseWakes(w) \in BOOLEAN
  <1>1. CASE Mutex BY <1>1, SMT DEF ReleaseWakes
  <1>2. CASE ~Mutex BY <1>2, SMT DEF ReleaseWakes
  <1> QED BY <1>1, <1>2

(* A word with another low half is a word.                                 *)
LEMMA LowType == ASSUME NEW w \in Word, NEW n \in Int PROVE [w EXCEPT !.low = n] \in Word
  BY DEF Word

(* A word with another high half is a word.                                *)
LEMMA HighType == ASSUME NEW w \in Word, NEW n \in Int PROVE [w EXCEPT !.high = n] \in Word
  BY DEF Word

(* A word with another generation is a word.                               *)
LEMMA GenerationType == ASSUME NEW w \in Word, NEW n \in Nat PROVE [w EXCEPT !.generation = n] \in Word
  BY DEF Word

(* count + n, wrapped, is a number again.                                  *)
LEMMA SumType == ASSUME NEW w \in Word, NEW n \in Nat PROVE Sum(w, n) \in Int
  BY WidthAssumption DEF Sum, Word

(* A mutex that changes hands.                                             *)
Take(w, n, k, g) == [w EXCEPT !.low = n, !.high = k, !.generation = g]

(* A mutex that has changed hands is a word.                               *)
LEMMA TakeType ==
  ASSUME NEW w \in Word, NEW n \in Int, NEW k \in Int, NEW g \in Nat
  PROVE  Take(w, n, k, g) \in Word
  <1> DEFINE w1 == [w EXCEPT !.low = n]
             w2 == [w1 EXCEPT !.high = k]
  <1>1. w1 \in Word BY LowType
  <1>2. w2 \in Word BY <1>1, HighType
  <1>3. [w2 EXCEPT !.generation = g] \in Word BY <1>2, GenerationType
  <1> QED BY <1>3 DEF Take

(* A wait that is satisfied leaves a word.                                 *)
LEMMA ConsumedType == ASSUME NEW w \in Word, NEW t \in Int PROVE Consumed(w, t) \in Word
  <1>1. w.low \in Int /\ w.high \in Int /\ w.generation \in Nat
    BY DEF Word
  <1>2. CASE Kind = "auto"
    <2>1. Consumed(w, t) = [w EXCEPT !.low = 0] BY <1>2 DEF Consumed
    <2> QED BY <2>1, LowType
  <1>3. CASE Kind = "manual"
    <2>1. Consumed(w, t) = w BY <1>3 DEF Consumed
    <2> QED BY <2>1
  <1>4. CASE Kind = "semaphore"
    <2>1. Consumed(w, t) = [w EXCEPT !.low = w.low - 1] BY <1>4 DEF Consumed
    <2> QED BY <1>1, <2>1, LowType
  <1>5. CASE Kind = "mutex" /\ w.low = t
    <2>1. Consumed(w, t) = [w EXCEPT !.high = Inc(w.high)] BY <1>5 DEF Consumed
    <2>2. Inc(w.high) \in Int BY <1>1, WidthAssumption DEF Inc
    <2> QED BY <2>1, <2>2, HighType
  <1>6. CASE Kind = "mutex" /\ w.low # t
    <2> DEFINE g == IF w.low < 0 THEN w.generation + 1 ELSE w.generation
    <2>1. Consumed(w, t) = Take(w, t, 1, g)
      <3>1. Consumed(w, t) = [w EXCEPT !.low = t, !.high = 1,
                                       !.generation = IF w.low < 0 THEN @ + 1 ELSE @]
        BY <1>6 DEF Consumed
      <3> QED BY <3>1 DEF Take
    <2>2. g \in Nat BY <1>1
    <2> HIDE DEF g
    <2> QED BY <2>1, <2>2, TakeType
  <1> QED BY <1>2, <1>3, <1>4, <1>5, <1>6, KindAssumption

(* SetEvent, ReleaseSemaphore and ReleaseMutant leave a word.              *)
LEMMA ReleasedType == ASSUME NEW w \in Word, NEW n \in Nat PROVE Released(w, n) \in Word
  <1>1. w.low \in Int /\ w.high \in Int
    BY DEF Word
  <1>2. CASE Event
    <2>1. Released(w, n) = [w EXCEPT !.low = 1] BY <1>2 DEF Released, Event, Semaphore, Mutex
    <2> QED BY <2>1, LowType
  <1>3. CASE Semaphore
    <2>1. Released(w, n) = [w EXCEPT !.low = Sum(w, n)] BY <1>3 DEF Released, Event, Semaphore, Mutex
    <2> QED BY <2>1, SumType, LowType
  <1>4. CASE Mutex /\ w.high > 1
    <2>1. Released(w, n) = [w EXCEPT !.high = w.high - 1] BY <1>4 DEF Released, Event, Semaphore, Mutex
    <2> QED BY <1>1, <2>1, HighType
  <1>5. CASE Mutex /\ ~(w.high > 1)
    <2> DEFINE w1 == [w EXCEPT !.low = 0]
    <2>1. Released(w, n) = [w1 EXCEPT !.high = 0] BY <1>5 DEF Released, Event, Semaphore, Mutex
    <2>2. w1 \in Word BY LowType
    <2> HIDE DEF w1
    <2> QED BY <2>1, <2>2, HighType
  <1> QED BY <1>2, <1>3, <1>4, <1>5, KindAssumption DEF Event, Semaphore, Mutex

(* wfusync_abandon_mutex leaves a word.                                    *)
LEMMA AbandonedType == ASSUME NEW w \in Word, NEW t \in Int PROVE Abandoned(w, t) \in Word
  <1> DEFINE g == w.generation + 1
  <1>1. g \in Nat /\ -t \in Int BY DEF Word
  <1>2. Abandoned(w, t) = Take(w, -t, 0, g) BY DEF Abandoned, Take
  <1> HIDE DEF g
  <1> QED BY <1>1, <1>2, TakeType

(* A thread that leaves the queue leaves a queue.                          *)
LEMMA WithoutType ==
  ASSUME NEW q \in Seq(Threads), NEW t PROVE Without(q, t) \in Seq(Threads)
  <1>1. CASE \E i \in 1..Len(q) : q[i] = t
    <2> DEFINE i == CHOOSE j \in 1..Len(q) : q[j] = t
    <2>1. i \in 1..Len(q) BY <1>1
    <2>2. Without(q, t) = SubSeq(q, 1, i - 1) \o SubSeq(q, i + 1, Len(q))
      BY <1>1 DEF Without
    <2> HIDE DEF i
    <2>3. SubSeq(q, 1, i - 1) \in Seq(Threads) BY <2>1
    <2>4. SubSeq(q, i + 1, Len(q)) \in Seq(Threads) BY <2>1
    <2> QED BY <2>2, <2>3, <2>4
  <1>2. CASE ~ \E i \in 1..Len(q) : q[i] = t
    BY <1>2 DEF Without
  <1> QED BY <1>1, <1>2

-----------------------------------------------------------------------------
(* The pieces actions are made of keep the types.                          *)

ClientTyped == /\ pc \in [Threads -> ClientPCs]
               /\ call \in [Threads -> Call \cup {NoCall}]
               /\ loc \in [Threads -> Loc]

(* A thread's fresh locals are well typed.                                 *)
LEMMA Loc0Type == Loc0 \in Loc /\ [Loc0 EXCEPT !.try = 2] \in Loc
  <1>1. Loc0 \in Loc BY DEF Loc, Loc0, Rets
  <1> QED BY <1>1 DEF Loc

(* wineserver's locals between two requests are well typed.                *)
LEMMA Srv0Type == Srv0 \in Srv
  BY DEF Srv, Srv0, ServerPCs, Fns

(* The release count of a call is a number.                                *)
LEMMA CallType == ASSUME TypeOK, NEW t \in Threads PROVE call[t].n \in Nat
  BY DEF TypeOK, Call, NoCall

(* A thread moves to one of its program points.                            *)
LEMMA GotoType ==
  ASSUME TypeOK, NEW t, NEW where \in ClientPCs, Goto(t, where)
  PROVE  pc' \in [Threads -> ClientPCs]
  BY DEF TypeOK, Goto

(* A thread's result is one of the statuses.                               *)
LEMMA SetRetType ==
  ASSUME TypeOK, NEW t, NEW r \in Rets, SetRet(t, r)
  PROVE  loc' \in [Threads -> Loc]
  BY DEF TypeOK, SetRet, Loc

(* A call that returns leaves the thread well typed.                       *)
LEMMA ReturnType == ASSUME TypeOK, NEW t, Return(t) PROVE ClientTyped'
  <1>1. pc' \in [Threads -> ClientPCs] BY DEF TypeOK, Return, Goto, ClientPCs
  <1>2. loc' \in [Threads -> Loc] BY Loc0Type DEF TypeOK, Return
  <1>3. call' \in [Threads -> Call \cup {NoCall}] BY DEF TypeOK, Return
  <1> QED BY <1>1, <1>2, <1>3 DEF ClientTyped

(* So does one that falls back to wineserver.                              *)
LEMMA FallbackType == ASSUME TypeOK, NEW t, Fallback(t) PROVE ClientTyped'
  <1>1. pc' \in [Threads -> ClientPCs] BY DEF TypeOK, Fallback, Goto, ClientPCs
  <1>2. loc' \in [Threads -> Loc] BY Loc0Type DEF TypeOK, Fallback
  <1>3. call' \in [Threads -> Call \cup {NoCall}] BY DEF TypeOK, Fallback
  <1> QED BY <1>1, <1>2, <1>3 DEF ClientTyped

(* So does one that wineserver answers; the request is over then.          *)
LEMMA ReplyType ==
  ASSUME TypeOK, NEW t \in Threads, Reply(t) PROVE srv' = Srv0 /\ srv' \in Srv /\ ClientTyped'
  <1>1. srv' = Srv0 /\ srv' \in Srv BY Srv0Type DEF Reply
  <1>2. CASE call[t].what = "exit" \/ t \in doomed
    <2>1. pc' \in [Threads -> ClientPCs] BY <1>2 DEF TypeOK, Reply, Goto, ClientPCs
    <2>2. UNCHANGED <<call, loc>> BY <1>2 DEF Reply
    <2> QED BY <1>1, <2>1, <2>2 DEF TypeOK, ClientTyped
  <1>3. CASE ~(call[t].what = "exit" \/ t \in doomed)
    <2>1. Return(t) BY <1>3 DEF Reply
    <2> QED BY <1>1, <2>1, ReturnType
  <1> QED BY <1>2, <1>3

(* Threads woken from the address are at a program point again.            *)
LEMMA WakeAddressType ==
  ASSUME TypeOK, NEW all, NEW where \in [Threads -> ClientPCs], WakeAddress(all, where)
  PROVE  pc' \in [Threads -> ClientPCs]
  BY DEF WakeAddress, ClientPCs

(* A waiter that leaves the queue leaves a queue and a word.               *)
LEMMA DequeueType ==
  ASSUME TypeOK, NEW t, Dequeue(t) PROVE word' \in Word /\ queue' \in Seq(Threads)
  <1>1. queue' \in Seq(Threads) BY WithoutType DEF TypeOK, Dequeue
  <1>2. word' \in Word
    <2> DEFINE b == Without(queue, t) # <<>>
    <2>1. b \in BOOLEAN OBVIOUS
    <2>2. word' = [word EXCEPT !.server = b] BY DEF Dequeue
    <2> HIDE DEF b
    <2> QED BY <2>1, <2>2 DEF TypeOK, Word
  <1> QED BY <1>1, <1>2

(* A thread's locals may be replaced by others.                            *)
LEMMA LocType ==
  ASSUME TypeOK, NEW t, NEW l \in Loc, loc' = [loc EXCEPT ![t] = l]
  PROVE  loc' \in [Threads -> Loc]
  BY DEF TypeOK

(* Locals with another cached generation.                                  *)
LEMMA LocGenType == ASSUME NEW l \in Loc, NEW n \in Nat PROVE [l EXCEPT !.gen = n] \in Loc
  BY DEF Loc

(* Locals with another expected owner.                                     *)
LEMMA LocExpectType == ASSUME NEW l \in Loc, NEW n \in Int PROVE [l EXCEPT !.expect = n] \in Loc
  BY DEF Loc

(* Locals after a release.                                                 *)
LEMMA LocReleaseType ==
  ASSUME NEW l \in Loc, NEW r \in Rets, NEW b \in BOOLEAN
  PROVE  [l EXCEPT !.ret = r, !.wakes = b] \in Loc
  BY DEF Loc

(* Locals of a wait that goes round its loop again.                        *)
LEMMA LocLoopType ==
  ASSUME NEW l \in Loc, NEW r \in Rets, NEW b \in BOOLEAN
  PROVE  [l EXCEPT !.first = b, !.ret = r] \in Loc
  BY DEF Loc

(* A thread's step keeps the types if the parts it writes have theirs.     *)
LEMMA ClientTypeOK ==
  ASSUME TypeOK, ClientOnly, word' \in Word, cache_gen' \in Nat, ClientTyped' PROVE TypeOK'
  BY DEF TypeOK, ClientOnly, ClientTyped, multis

(* So does a step of wineserver.                                           *)
LEMMA ServerTypeOK ==
  ASSUME TypeOK, ServerOnly, word' \in Word, ClientTyped', srv' \in Srv,
         queue' \in Seq(Threads), doomed' \subseteq Threads
  PROVE  TypeOK'
  BY DEF TypeOK, ServerOnly, ClientTyped, multis

(* STATE_LOCKED is a bit of the word.                                      *)
LEMMA LockedType == ASSUME TypeOK, NEW b \in BOOLEAN PROVE [word EXCEPT !.locked = b] \in Word
  BY DEF TypeOK, Word

(* Every step of a thread keeps the types.                                 *)
LEMMA ThreadTypeOK == ASSUME TypeOK, NEW t \in Threads, ThreadStep(t) PROVE TypeOK'
  <1> USE DEF ClientTyped
  <1>0. word \in Word /\ cache_gen \in Nat /\ word.generation \in Nat /\ word.low \in Int
        /\ ClientTyped /\ t \in Int
    BY ThreadsAssumption DEF TypeOK, Word
  <1>1. CASE check(t)
    <2>1. ClientOnly /\ UNCHANGED <<word, cache_gen>> BY <1>1 DEF check
    <2>2. ClientTyped'
      <3>1. CASE HasWaiters(word) BY <1>1, <3>1, FallbackType DEF check
      <3>2. CASE ~HasWaiters(word)
        <4>1. pc' \in [Threads -> ClientPCs] BY <1>1, <3>2 DEF TypeOK, check, Goto, ClientPCs
        <4>2. loc' \in [Threads -> Loc]
          <5>1. loc' = [loc EXCEPT ![t].gen = cache_gen] BY <1>1, <3>2 DEF check
          <5>2. cache_gen \in Nat BY DEF TypeOK
          <5>3. [loc[t] EXCEPT !.gen = cache_gen] \in Loc BY <5>2, LocGenType DEF TypeOK
          <5> QED BY <5>1, <5>3, LocType
        <4> QED BY <1>0, <1>1, <3>2, <4>1, <4>2 DEF check
      <3> QED BY <3>1, <3>2
    <2> QED BY <1>0, <2>1, <2>2, ClientTypeOK
  <1>2. CASE lock_state(t)
    <2>1. ClientOnly /\ UNCHANGED <<call, loc, cache_gen>> BY <1>2 DEF lock_state
    <2>2. word' \in Word BY <1>2, LockedType DEF lock_state
    <2>3. pc' \in [Threads -> ClientPCs] BY <1>2 DEF TypeOK, lock_state, Goto, ClientPCs
    <2> QED BY <1>0, <2>1, <2>2, <2>3, ClientTypeOK
  <1>3. CASE lock_state_fails(t)
    <2>1. ClientOnly /\ UNCHANGED <<word, cache_gen>> BY <1>3 DEF lock_state_fails
    <2>2. \/ Fallback(t) \/ Return(t)
          \/ Goto(t, IF loc[t].first THEN "loop" ELSE "sleep") /\ UNCHANGED <<call, loc>>
      BY <1>3 DEF lock_state_fails
    <2>3. CASE Goto(t, IF loc[t].first THEN "loop" ELSE "sleep") /\ UNCHANGED <<call, loc>>
      <3>1. pc' \in [Threads -> ClientPCs] BY <2>3 DEF TypeOK, Goto, ClientPCs
      <3>2. ClientTyped' BY <1>0, <2>3, <3>1
      <3> QED BY <1>0, <2>1, <3>2, ClientTypeOK
    <2> QED BY <1>0, <2>1, <2>2, <2>3, FallbackType, ReturnType, ClientTypeOK
  <1>4. CASE consume(t)
    <2>1. ClientOnly /\ UNCHANGED <<call, cache_gen>> BY <1>4 DEF consume
    <2>2. word' \in Word BY <1>0, <1>4, ConsumedType DEF consume
    <2>3. pc' \in [Threads -> ClientPCs] BY <1>4 DEF TypeOK, consume, Goto, ClientPCs
    <2>4. \E r \in Rets : SetRet(t, r) BY <1>4 DEF consume, ConsumedStatus, Rets
    <2>5. loc' \in [Threads -> Loc] BY <2>4, SetRetType
    <2> QED BY <1>0, <2>1, <2>2, <2>3, <2>5, ClientTypeOK
  <1>5. CASE signal(t)
    <2>1. ClientOnly /\ UNCHANGED <<call, cache_gen>> BY <1>5 DEF signal
    <2>2. word' \in Word
      <3>1. \/ word' = word \/ word' = Released(word, call[t].n)
            \/ word' = [word EXCEPT !.low = 0]
        BY <1>5 DEF signal
      <3>2. CASE word' = [word EXCEPT !.low = 0] BY <1>0, <3>2 DEF Word
      <3> QED BY <1>0, <3>1, <3>2, ReleasedType, CallType
    <2>3. pc' \in [Threads -> ClientPCs] BY <1>5 DEF TypeOK, signal, Goto, ClientPCs
    <2>4. loc' \in [Threads -> Loc]
      <3>1. ReleaseWakes(word) \in BOOLEAN BY <1>0, ReleaseWakesType
      <3>2. \/ \E r \in Rets : SetRet(t, r)
            \/ loc' = [loc EXCEPT ![t].ret = "success", ![t].wakes = ReleaseWakes(word)]
        BY <1>5 DEF signal, Rets
      <3>3. CASE loc' = [loc EXCEPT ![t].ret = "success", ![t].wakes = ReleaseWakes(word)]
        <4> DEFINE b == ReleaseWakes(word)
        <4>1. b \in BOOLEAN BY <3>1
        <4>2. loc' = [loc EXCEPT ![t].ret = "success", ![t].wakes = b] BY <3>3
        <4> HIDE DEF b
        <4>3. [loc[t] EXCEPT !.ret = "success", !.wakes = b] \in Loc
          <5>1. loc[t] \in Loc /\ "success" \in Rets BY DEF TypeOK, Rets
          <5> QED BY <4>1, <5>1, LocReleaseType
        <4>4. loc' = [loc EXCEPT ![t] = [loc[t] EXCEPT !.ret = "success", !.wakes = b]]
          BY <4>2 DEF TypeOK
        <4> QED BY <4>3, <4>4, LocType
      <3> QED BY <3>2, <3>3, SetRetType
    <2> QED BY <1>0, <2>1, <2>2, <2>3, <2>4, ClientTypeOK
  <1>6. CASE unlock_state(t)
    <2>1. ClientOnly /\ UNCHANGED cache_gen BY <1>6 DEF unlock_state
    <2>2. word' \in Word BY <1>6, LockedType DEF unlock_state
    <2>3. ClientTyped'
      <3>1. \/ Fallback(t) \/ Return(t)
            \/ \E where \in ClientPCs : Goto(t, where) /\ UNCHANGED <<call, loc>>
        BY <1>6 DEF unlock_state, AfterUnlock, ClientPCs
      <3> QED BY <1>0, <3>1, FallbackType, ReturnType, GotoType
    <2> QED BY <1>0, <2>1, <2>2, <2>3, ClientTypeOK
  <1>7. CASE refresh_cache_generation(t)
    BY <1>0, <1>7, ReturnType, ClientTypeOK DEF refresh_cache_generation
  <1>8. CASE wait_loop(t)
    <2>1. ClientOnly /\ UNCHANGED <<word, cache_gen>> BY <1>8 DEF wait_loop
    <2>2. \/ Fallback(t)
          \/ /\ Goto(t, "lock") /\ UNCHANGED call
             /\ loc' = [loc EXCEPT ![t].first = FALSE, ![t].ret = "none"]
      BY <1>8 DEF wait_loop
    <2>3. CASE /\ Goto(t, "lock") /\ UNCHANGED call
               /\ loc' = [loc EXCEPT ![t].first = FALSE, ![t].ret = "none"]
      <3>1. pc' \in [Threads -> ClientPCs] BY <2>3 DEF TypeOK, Goto, ClientPCs
      <3>2. [loc[t] EXCEPT !.first = FALSE, !.ret = "none"] \in Loc
        <4>1. loc[t] \in Loc /\ "none" \in Rets BY DEF TypeOK, Rets
        <4> QED BY <4>1, LocLoopType
      <3>3. loc' = [loc EXCEPT ![t] = [loc[t] EXCEPT !.first = FALSE, !.ret = "none"]]
        BY <2>3 DEF TypeOK
      <3>4. loc' \in [Threads -> Loc] BY <3>2, <3>3, LocType
      <3> QED BY <1>0, <2>1, <2>3, <3>1, <3>4, ClientTypeOK
    <2> QED BY <1>0, <2>1, <2>2, <2>3, FallbackType, ClientTypeOK
  <1>9. CASE load_owner(t)
    <2>1. ClientOnly /\ UNCHANGED <<word, call, cache_gen>> BY <1>9 DEF load_owner
    <2>2. pc' \in [Threads -> ClientPCs] BY <1>9 DEF TypeOK, load_owner, Goto, ClientPCs
    <2>3. loc' \in [Threads -> Loc]
      <3>1. loc' = [loc EXCEPT ![t].expect = word.low] BY <1>9 DEF load_owner
      <3>2. word.low \in Int BY <1>0 DEF Word
      <3>3. [loc[t] EXCEPT !.expect = word.low] \in Loc BY <3>2, LocExpectType DEF TypeOK
      <3> QED BY <3>1, <3>3, LocType
    <2> QED BY <1>0, <2>1, <2>2, <2>3, ClientTypeOK
  <1>10. CASE wait_address(t)
    <2>1. ClientOnly /\ UNCHANGED <<word, call, loc, cache_gen>> BY <1>10 DEF wait_address
    <2>2. pc' \in [Threads -> ClientPCs] BY <1>10 DEF TypeOK, wait_address, Goto, ClientPCs
    <2> QED BY <1>0, <2>1, <2>2, ClientTypeOK
  <1>11. CASE wake_address(t)
    <2>1. ClientOnly /\ UNCHANGED <<word, call, loc, cache_gen>> BY <1>11 DEF wake_address
    <2> DEFINE where == [pc EXCEPT ![t] = "multi"]
    <2>2. where \in [Threads -> ClientPCs] BY <1>0 DEF ClientPCs
    <2>3. WakeAddress(WakesAll(call[t].n), where) BY <1>11 DEF wake_address
    <2> HIDE DEF where
    <2>4. pc' \in [Threads -> ClientPCs] BY <2>2, <2>3, WakeAddressType
    <2> QED BY <1>0, <2>1, <2>4, ClientTypeOK
  <1>12. CASE check_multi(t)
    <2>1. ClientOnly /\ UNCHANGED <<word, cache_gen>> BY <1>12 DEF check_multi
    <2>2. Return(t) \/ (Goto(t, "notify") /\ UNCHANGED <<call, loc>>) BY <1>12 DEF check_multi
    <2>3. ASSUME Goto(t, "notify") PROVE pc' \in [Threads -> ClientPCs]
      BY <2>3 DEF TypeOK, Goto, ClientPCs
    <2> QED BY <1>0, <2>1, <2>2, <2>3, ReturnType, ClientTypeOK
  <1>13. CASE recheck(t)
    <2>1. ClientOnly /\ UNCHANGED <<word, call, cache_gen>> BY <1>13 DEF recheck
    <2>2. Goto(t, "unlock") \/ Goto(t, "write") BY <1>13 DEF recheck
    <2>3. pc' \in [Threads -> ClientPCs] BY <2>2, GotoType DEF ClientPCs
    <2>4. UNCHANGED loc \/ \E r \in Rets : SetRet(t, r) BY <1>13 DEF recheck, Rets
    <2>5. loc' \in [Threads -> Loc] BY <1>0, <2>4, SetRetType
    <2> QED BY <1>0, <2>1, <2>3, <2>5, ClientTypeOK
  <1> QED BY <1>1, <1>2, <1>3, <1>4, <1>5, <1>6, <1>7, <1>8, <1>9, <1>10, <1>11, <1>12, <1>13
          DEF ThreadStep

(* SERVER_WAITERS and MULTI_WAITERS are bits of the word.                  *)
LEMMA FlagsType ==
  ASSUME TypeOK, NEW b \in BOOLEAN
  PROVE  [word EXCEPT !.server = b] \in Word /\ [word EXCEPT !.multi = b] \in Word
  BY DEF TypeOK, Word

(* The values wineserver's locals take inside a request.                   *)
LEMMA SrvPcType == ASSUME srv \in Srv, NEW p \in ServerPCs PROVE [srv EXCEPT !.pc = p] \in Srv
  BY DEF Srv

(* ... when wake_up moves to another place in the queue,                   *)
LEMMA SrvPosType ==
  ASSUME srv \in Srv, NEW p \in ServerPCs, NEW n \in Nat PROVE [srv EXCEPT !.pc = p, !.pos = n] \in Srv
  BY DEF Srv

(* A release leaves the server to unlock and then perhaps to wake.         *)
LEMMA SrvWakesType ==
  ASSUME srv \in Srv, NEW b \in BOOLEAN PROVE [srv EXCEPT !.pc = "unlock", !.wakes = b] \in Srv
  BY DEF Srv, ServerPCs

(* A wait that ended leaves the server scanning the queue.                 *)
LEMMA SrvScanType ==
  ASSUME srv \in Srv, NEW k \in Nat, NEW n \in Nat
  PROVE  [srv EXCEPT !.pc = "scan", !.max = k, !.pos = n, !.cur = 0] \in Srv
  BY DEF Srv, ServerPCs

(* ... when a request begins,                                              *)
LEMMA SrvRequestType ==
  ASSUME NEW fn \in Fns, NEW t \in Threads, NEW n \in Nat
  PROVE  [Srv0 EXCEPT !.pc = "lock", !.op = fn, !.fn = fn, !.req = t, !.max = n] \in Srv
  BY DEF Srv, Srv0, ServerPCs

(* ... when PULSE_EVENT goes on to its reset.                              *)
LEMMA SrvPulseType ==
  ASSUME srv \in Srv, NEW n \in Nat
  PROVE  [srv EXCEPT !.pc = "lock", !.op = "reset", !.fn = "reset", !.max = n] \in Srv
  BY DEF Srv, ServerPCs, Fns

(* The limit of wake_up is a number, 0 for no limit.                       *)
LEMMA MaxType == ASSUME TypeOK, NEW t \in Threads PROVE Max(t) \in Nat
  BY CallType, KindAssumption DEF Max, Semaphore

(* The requests that wineserver takes up keep the types.                   *)
LEMMA AcceptTypeOK ==
  ASSUME TypeOK, NEW t \in Threads, ServerAccept(t) \/ thread_timeout(t) PROVE TypeOK'
  <1> USE DEF ClientTyped
  <1>0. word \in Word /\ srv \in Srv /\ queue \in Seq(Threads) /\ doomed \subseteq Threads /\ ClientTyped
    BY DEF TypeOK
  <1>1. CASE add_server_waiter(t)
    <2>1. ServerOnly /\ UNCHANGED <<call, loc, doomed>> BY <1>1 DEF add_server_waiter
    <2>2. word' \in Word BY <1>1, FlagsType DEF add_server_waiter
    <2>3. pc' \in [Threads -> ClientPCs] BY <1>1 DEF TypeOK, add_server_waiter, Goto, ClientPCs
    <2>4. queue' \in Seq(Threads) BY <1>0, <1>1 DEF add_server_waiter
    <2>5. srv' \in Srv BY <1>1 DEF add_server_waiter, Srv, Srv0, ServerPCs, Fns
    <2> QED BY <1>0, <2>1, <2>2, <2>3, <2>4, <2>5, ServerTypeOK
  <1>2. CASE start_request(t)
    <2>1. ServerOnly /\ UNCHANGED <<word, client, queue>> BY <1>2 DEF start_request
    <2>2. Max(t) \in Nat BY MaxType
    <2>3. ASSUME call[t].what = "exit" PROVE srv' \in Srv
      <3>1. srv' = [Srv0 EXCEPT !.pc = "lock", !.op = "abandon", !.fn = "abandon", !.req = t]
        BY <1>2, <2>3 DEF start_request
      <3> QED BY <3>1 DEF Srv, Srv0, ServerPCs, Fns
    <2>4. ASSUME call[t].what # "exit" PROVE srv' \in Srv
      <3>1. PICK fn \in {"signal", "reset"} :
              srv' = [Srv0 EXCEPT !.pc = "lock", !.op = fn, !.fn = fn, !.req = t, !.max = Max(t)]
        BY <1>2, <2>4 DEF start_request
      <3>2. fn \in Fns BY DEF Fns
      <3> QED BY <2>2, <3>1, <3>2, SrvRequestType
    <2>5. srv' \in Srv BY <2>3, <2>4
    <2> QED BY <1>0, <2>1, <2>5, ServerTypeOK DEF client
  <1>3. CASE reply_at_once(t)
    <2>1. UNCHANGED <<word, left, doomed, queue, cache_gen, multis>> BY <1>3 DEF reply_at_once
    <2>2. srv' \in Srv /\ ClientTyped' BY <1>3, ReplyType DEF reply_at_once
    <2> QED BY <1>0, <2>1, <2>2, ServerTypeOK DEF ServerOnly
  <1>4. CASE wake_wfusync_waiters(t)
    <2>1. UNCHANGED <<word, left, doomed, cache_gen, srv, queue, regs, reg_left>>
      BY <1>4 DEF wake_wfusync_waiters
    <2>2. ClientTyped' BY <1>4, ReturnType DEF wake_wfusync_waiters
    <2>3. slot' \in [MultiWaiters -> {0, 1}] BY <1>4 DEF TypeOK, wake_wfusync_waiters
    <2> QED BY <2>1, <2>2, <2>3 DEF TypeOK
  <1>5. CASE try_wait_all(t)
    <2>1. ServerOnly /\ UNCHANGED <<doomed, queue>> BY <1>5 DEF try_wait_all
    <2>2. CASE Reply(t) /\ UNCHANGED word
      BY <1>0, <2>1, <2>2, ReplyType, ServerTypeOK
    <2>3. CASE /\ word' = [word EXCEPT !.server = TRUE] /\ UNCHANGED <<pc, call, loc>>
               /\ srv' = [Srv0 EXCEPT !.pc = "guarded", !.req = t]
      <3>1. word' \in Word BY <2>3, FlagsType
      <3>2. srv' \in Srv BY <2>3 DEF Srv, Srv0, ServerPCs, Fns
      <3> QED BY <1>0, <2>1, <2>3, <3>1, <3>2, ServerTypeOK
    <2> QED BY <1>5, <2>2, <2>3 DEF try_wait_all
  <1>6. CASE thread_timeout(t)
    <2>1. ServerOnly /\ UNCHANGED <<srv, doomed>> BY <1>6 DEF thread_timeout
    <2>2. Dequeue(t) /\ Return(t) BY <1>6 DEF thread_timeout
    <2> QED BY <1>0, <2>1, <2>2, DequeueType, ReturnType, ServerTypeOK
  <1> QED BY <1>1, <1>2, <1>3, <1>4, <1>5, <1>6 DEF ServerAccept

(* What threads, timers, signals, multi-waiters and closed handles do to   *)
(* the object keeps the types.                                             *)
LEMMA EnvironmentTypeOK ==
  ASSUME TypeOK, Environment \/ \E t \in Threads : wait_timeout(t) PROVE TypeOK'
  <1> USE DEF ClientTyped
  <1>0. word \in Word /\ srv \in Srv /\ queue \in Seq(Threads) /\ doomed \subseteq Threads
        /\ cache_gen \in Nat /\ ClientTyped
    BY DEF TypeOK
  <1>1. ASSUME NEW t \in Threads, Invoke(t) PROVE TypeOK'
    <2>1. UNCHANGED <<word, cache_gen, doomed, srv, queue, multis>> BY <1>1 DEF Invoke
    <2>2. left' \in [Threads -> Nat] BY <1>1 DEF TypeOK, Invoke
    <2>3. PICK c \in CallsOf[t] :
            /\ call' = [call EXCEPT ![t] = c]
            /\ Goto(t, IF c.fast /\ c.what \in {"wait", "signal", "reset"} THEN "check" ELSE "request")
            /\ loc' = [loc EXCEPT ![t].gen = IF c.what = "tryall" THEN cache_gen ELSE @]
      BY <1>1 DEF Invoke
    <2>4. c \in Call BY CallsAssumption
    <2>5. call' \in [Threads -> Call \cup {NoCall}] BY <1>0, <2>3, <2>4
    <2>6. pc' \in [Threads -> ClientPCs]
      <3>1. Goto(t, "check") \/ Goto(t, "request") BY <2>3
      <3> QED BY <3>1, GotoType DEF ClientPCs
    <2>7. loc' \in [Threads -> Loc] 
      <3> DEFINE g == IF c.what = "tryall" THEN cache_gen ELSE loc[t].gen
      <3>1. g \in Nat BY <1>0 DEF Loc
      <3>2. loc' = [loc EXCEPT ![t].gen = g] BY <2>3
      <3> HIDE DEF g
      <3> QED BY <1>0, <3>1, <3>2 DEF Loc
    <2> QED BY <2>1, <2>2, <2>5, <2>6, <2>7 DEF TypeOK, multis
  <1>2. ASSUME NEW t \in Threads, wait_interrupted(t) \/ sigquit(t) PROVE TypeOK'
    <2>1. ClientOnly /\ UNCHANGED <<word, call, loc, cache_gen>> BY <1>2 DEF wait_interrupted, sigquit
    <2>2. pc' \in [Threads -> ClientPCs] BY <1>2, GotoType DEF wait_interrupted, sigquit, ClientPCs
    <2> QED BY <1>0, <2>1, <2>2, ClientTypeOK
  <1>3. ASSUME NEW t \in Threads, wait_timeout(t) PROVE TypeOK'
    <2>1. ClientOnly /\ UNCHANGED <<word, cache_gen>> BY <1>3 DEF wait_timeout
    <2>2. Fallback(t) \/ Return(t) BY <1>3 DEF wait_timeout
    <2> QED BY <1>0, <2>1, <2>2, FallbackType, ReturnType, ClientTypeOK
  <1>4. ASSUME NEW t \in Threads, kill_thread(t) PROVE TypeOK'
    <2>1. ServerOnly /\ UNCHANGED <<call, loc>> /\ doomed' \subseteq Threads
      BY <1>0, <1>4 DEF kill_thread
    <2>2. word' \in Word /\ queue' \in Seq(Threads) /\ pc' \in [Threads -> ClientPCs]
      <3>1. CASE Dequeue(t) /\ Goto(t, "dead") BY <3>1, DequeueType, GotoType DEF ClientPCs
      <3>2. CASE UNCHANGED <<word, queue, pc>> BY <1>0, <3>2
      <3> QED BY <1>4, <3>1, <3>2 DEF kill_thread
    <2>3. srv' \in Srv BY <1>0, <1>4 DEF kill_thread, Srv, Srv0, ServerPCs, Fns
    <2> QED BY <1>0, <2>1, <2>2, <2>3, ServerTypeOK
  <1>5. ASSUME NEW m \in MultiWaiters, register_wait(m) PROVE TypeOK'
    <2>1. UNCHANGED <<client, cache_gen, queue>> BY <1>5 DEF register_wait
    <2>2. word' \in Word BY <1>5, FlagsType DEF register_wait
    <2>3. /\ slot' \in [MultiWaiters -> {0, 1}] /\ regs' \subseteq MultiWaiters
          /\ reg_left' \in [MultiWaiters -> Nat]
      BY <1>5 DEF TypeOK, register_wait
    <2>4. srv' \in Srv BY <1>5 DEF register_wait, Srv, Srv0, ServerPCs, Fns
    <2> QED BY <2>1, <2>2, <2>3, <2>4 DEF TypeOK, client
  <1>6. ASSUME NEW m \in MultiWaiters, unregister_wait(m) PROVE TypeOK'
    <2>1. UNCHANGED <<client, cache_gen, srv, queue, reg_left>> BY <1>6 DEF unregister_wait
    <2>2. word' \in Word
      <3> DEFINE b == word.multi /\ regs \ {m} # {}
      <3>1. b \in BOOLEAN OBVIOUS
      <3>2. word' = [word EXCEPT !.multi = b] BY <1>6 DEF unregister_wait
      <3> HIDE DEF b
      <3> QED BY <3>1, <3>2, FlagsType
    <2>3. slot' \in [MultiWaiters -> {0, 1}] /\ regs' \subseteq MultiWaiters
      BY <1>6 DEF TypeOK, unregister_wait
    <2> QED BY <2>1, <2>2, <2>3 DEF TypeOK, client
  <1>7. ASSUME destroy PROVE TypeOK'
    <2>1. UNCHANGED <<client, cache_gen, queue, multis>> BY <1>7 DEF destroy
    <2>2. word' \in Word
      <3>1. word' = [low |-> word.low, high |-> word.high, generation |-> word.generation,
                     type |-> "unknown", locked |-> FALSE, server |-> FALSE, multi |-> FALSE]
        BY <1>0, <1>7 DEF destroy, Word
      <3> QED BY <1>0, <3>1 DEF Word
    <2>3. srv' \in Srv BY <1>7 DEF destroy, Srv, Srv0, ServerPCs, Fns
    <2> QED BY <2>1, <2>2, <2>3 DEF TypeOK, client, multis
  <1> QED BY <1>1, <1>2, <1>3, <1>4, <1>5, <1>6, <1>7 DEF Environment

-----------------------------------------------------------------------------
(* Every step of wineserver inside a request keeps the types.              *)
LEMMA ServerTypeStep == ASSUME TypeOK, RequestOK, QueueOK, ServerStep PROVE TypeOK'
  <1> USE DEF ClientTyped
  <1>a. word \in Word /\ srv \in Srv /\ queue \in Seq(Threads) /\ doomed \subseteq Threads /\ ClientTyped
    BY DEF TypeOK
  <1>b. /\ srv.pc \in ServerPCs /\ srv.fn \in Fns /\ srv.pos \in Nat /\ srv.max \in Nat
        /\ srv.cur \in Threads \cup {0} /\ srv.req \in Threads \cup {0}
    BY <1>a DEF Srv
  <1>c. srv.cur \in Int /\ srv.req \in Int
    <2>1. \A t \in Threads \cup {0} : t \in Int BY ThreadsAssumption
    <2> QED BY <1>b, <2>1
  <1>0. /\ word \in Word /\ srv \in Srv /\ queue \in Seq(Threads) /\ doomed \subseteq Threads
        /\ srv.pc \in ServerPCs /\ srv.fn \in Fns /\ srv.cur \in Int /\ srv.pos \in Nat /\ srv.max \in Nat
        /\ srv.cur \in Threads \cup {0} /\ srv.req \in Int /\ ClientTyped
    BY <1>a, <1>b, <1>c
  <1>1. CASE server_lock_state
    <2>1. ServerOnly /\ UNCHANGED <<client, queue>> BY <1>1 DEF server_lock_state
    <2>2. word' \in Word BY <1>1, LockedType DEF server_lock_state
    <2>3. srv' \in Srv BY <1>0, <1>1 DEF server_lock_state, Srv, ServerPCs
    <2> QED BY <1>0, <2>1, <2>2, <2>3, ServerTypeOK DEF client
  <1>2. CASE server_signaled
    <2>1. ServerOnly /\ UNCHANGED <<word, client, queue>> BY <1>2 DEF server_signaled
    <2>2. Signaled(word, srv.cur) \in BOOLEAN BY <1>0, SignaledType
    <2>3. srv' = [srv EXCEPT !.pc = "unlock", !.ok = Signaled(word, srv.cur)] BY <1>2 DEF server_signaled
    <2>4. srv' \in Srv BY <1>0, <2>2, <2>3 DEF Srv, ServerPCs
    <2> QED BY <1>0, <2>1, <2>4, ServerTypeOK DEF client
  <1>3. CASE server_satisfied
    <2>1. ServerOnly /\ UNCHANGED <<pc, call, doomed, queue>> BY <1>3 DEF server_satisfied
    <2>2. word' \in Word
      <3>1. word' = word \/ word' = Consumed(word, srv.cur) BY <1>3 DEF server_satisfied
      <3> QED BY <1>0, <3>1, ConsumedType
    <2>3. \E r \in Rets : SetRet(srv.cur, r) BY <1>3 DEF server_satisfied, ConsumedStatus, Rets
    <2>4. loc' \in [Threads -> Loc] BY <2>3, SetRetType
    <2>5. srv' \in Srv BY <1>0, <1>3 DEF server_satisfied, Srv, ServerPCs
    <2> QED BY <1>0, <2>1, <2>2, <2>4, <2>5, ServerTypeOK
  <1>4. CASE server_signal
    <2>0. srv.req \in Threads BY <1>4 DEF server_signal, RequestOK
    <2>1. ServerOnly /\ UNCHANGED <<pc, call, doomed, queue>> BY <1>4 DEF server_signal
    <2>2. word' \in Word
      <3>1. word' = word \/ word' = Released(word, call[srv.req].n) BY <1>4 DEF server_signal
      <3> QED BY <1>0, <2>0, <3>1, ReleasedType, CallType
    <2>3. \E r \in Rets : SetRet(srv.req, r) BY <1>4 DEF server_signal, Rets
    <2>4. loc' \in [Threads -> Loc] BY <2>3, SetRetType
    <2>5. srv' \in Srv
      <3>1. \E b \in BOOLEAN : srv' = [srv EXCEPT !.pc = "unlock", !.wakes = b]
        <4> DEFINE b == ~ReleaseRefused(word, srv.req, call[srv.req].n) /\ ReleaseWakes(word)
        <4>1. b \in BOOLEAN OBVIOUS
        <4>2. srv' = [srv EXCEPT !.pc = "unlock", !.wakes = b] BY <1>4 DEF server_signal
        <4> HIDE DEF b
        <4> QED BY <4>1, <4>2
      <3>2. PICK b \in BOOLEAN : srv' = [srv EXCEPT !.pc = "unlock", !.wakes = b] BY <3>1
      <3> QED BY <1>0, <3>2, SrvWakesType
    <2> QED BY <1>0, <2>1, <2>2, <2>4, <2>5, ServerTypeOK
  <1>5. CASE server_reset
    <2>1. ServerOnly /\ UNCHANGED <<pc, call, doomed, queue>> BY <1>5 DEF server_reset
    <2>2. word' \in Word BY <1>0, <1>5, SMTT(20) DEF server_reset, Word
    <2>3. loc' \in [Threads -> Loc] BY <1>5, SetRetType DEF server_reset, Rets
    <2>4. srv' \in Srv BY <1>0, <1>5 DEF server_reset, Srv, ServerPCs
    <2> QED BY <1>0, <2>1, <2>2, <2>3, <2>4, ServerTypeOK
  <1>6. CASE server_abandon
    <2>1. ServerOnly /\ UNCHANGED <<client, queue>> BY <1>6 DEF server_abandon
    <2>2. word' \in Word
      <3>1. word' = word \/ word' = Abandoned(word, srv.req) BY <1>6 DEF server_abandon
      <3> QED BY <1>0, <3>1, AbandonedType
    <2>3. Owns(word, srv.req) \in BOOLEAN BY DEF Owns
    <2>4. srv' = [srv EXCEPT !.pc = "unlock", !.wakes = Owns(word, srv.req)] BY <1>6 DEF server_abandon
    <2>5. srv' \in Srv BY <1>0, <2>3, <2>4 DEF Srv, ServerPCs
    <2> QED BY <1>0, <2>1, <2>2, <2>5, ServerTypeOK DEF client
  <1>7. CASE server_unlock_state
    <2>1. ServerOnly /\ UNCHANGED <<queue, doomed>>
      BY <1>0, <1>7 DEF server_unlock_state, RequestOK, Fns, client
    <2>2. word' \in Word BY <1>7, LockedType DEF server_unlock_state
    <2>3. \/ UNCHANGED client /\ \/ \E p \in ServerPCs : srv' = [srv EXCEPT !.pc = p]
                                 \/ srv' = [srv EXCEPT !.pc = "lock", !.fn = "satisfied"]
                                 \/ srv' = Srv0
                                 \/ srv' = [srv EXCEPT !.pc = "scan", !.pos = srv.pos + 1]
                                 \/ srv' = [srv EXCEPT !.pc = "scan", !.pos = 1]
          \/ srv.req \in Threads /\ Reply(srv.req)
      BY <1>0, <1>7 DEF server_unlock_state, RequestOK, Fns, ServerPCs
    <2>4. CASE UNCHANGED client /\ \/ \E p \in ServerPCs : srv' = [srv EXCEPT !.pc = p]
                                   \/ srv' = [srv EXCEPT !.pc = "lock", !.fn = "satisfied"]
                                   \/ srv' = Srv0
                                   \/ srv' = [srv EXCEPT !.pc = "scan", !.pos = srv.pos + 1]
                                   \/ srv' = [srv EXCEPT !.pc = "scan", !.pos = 1]
      <3>1. ASSUME NEW p \in ServerPCs, srv' = [srv EXCEPT !.pc = p] PROVE srv' \in Srv
        BY <1>0, <3>1, SrvPcType
      <3>2. ASSUME srv' = [srv EXCEPT !.pc = "lock", !.fn = "satisfied"] PROVE srv' \in Srv
        BY <1>0, <3>2 DEF Srv, ServerPCs, Fns
      <3>3. ASSUME NEW n \in Nat, srv' = [srv EXCEPT !.pc = "scan", !.pos = n] PROVE srv' \in Srv
        BY <1>0, <3>3, SrvPosType DEF ServerPCs
      <3>4. srv.pos + 1 \in Nat /\ 1 \in Nat BY <1>0
      <3>5. srv' \in Srv BY <2>4, <3>1, <3>2, <3>3, <3>4, Srv0Type
      <3> QED BY <1>0, <2>1, <2>2, <2>4, <3>5, ServerTypeOK DEF client
    <2>5. CASE srv.req \in Threads /\ Reply(srv.req)
      BY <1>0, <2>1, <2>2, <2>5, ReplyType, ServerTypeOK
    <2> QED BY <2>3, <2>4, <2>5
  <1>8. CASE server_wake_address
    <2>1. ServerOnly /\ UNCHANGED <<word, call, loc, doomed, queue>> BY <1>8 DEF server_wake_address
    <2>2. pc' \in [Threads -> ClientPCs] BY <1>0, <1>8, WakeAddressType DEF server_wake_address
    <2>3. PICK p \in ServerPCs : srv' = [srv EXCEPT !.pc = p, !.pos = 1]
      BY <1>8 DEF server_wake_address, ServerPCs
    <2>4. srv' \in Srv BY <1>0, <2>3, SrvPosType
    <2> QED BY <1>0, <2>1, <2>2, <2>4, ServerTypeOK
  <1>9. CASE server_wake_multi
    <2>0. srv.req \in Threads BY <1>9 DEF server_wake_multi, RequestOK
    <2>1. UNCHANGED <<word, queue, left, cache_gen, regs, reg_left, doomed>>
      BY <1>9 DEF server_wake_multi, client
    <2>2. slot' \in [MultiWaiters -> {0, 1}] BY <1>9 DEF TypeOK, server_wake_multi
    <2>3. srv' \in Srv /\ ClientTyped'
      <3>1. CASE srv' = [srv EXCEPT !.pc = "scan", !.pos = 1] /\ UNCHANGED client
        <4>1. srv' \in Srv BY <1>0, <3>1 DEF Srv, ServerPCs
        <4> QED BY <1>0, <3>1, <4>1 DEF client
      <3>2. CASE Reply(srv.req) BY <2>0, <3>2, ReplyType
      <3> QED BY <1>9, <3>1, <3>2 DEF server_wake_multi
    <2> QED BY <2>1, <2>2, <2>3 DEF TypeOK
  <1>10. CASE wake_up
    <2>0. srv.req \in Threads BY <1>10 DEF wake_up, RequestOK
    <2>1. ServerOnly /\ UNCHANGED <<word, queue, doomed>> BY <1>10 DEF wake_up, ScanDone, client
    <2>2. srv' \in Srv /\ ClientTyped'
      <3>1. CASE srv.pos > Len(queue)
        <4>1. Max(srv.req) \in Nat BY <2>0, MaxType
        <4>2. \/ /\ UNCHANGED client
                 /\ \/ srv' = [srv EXCEPT !.pc = "lock", !.op = "reset", !.fn = "reset", !.max = Max(srv.req)]
                    \/ srv' = [srv EXCEPT !.pc = "wakemulti"]
              \/ Reply(srv.req)
          BY <1>10, <3>1 DEF wake_up, ScanDone
        <4>3. CASE /\ UNCHANGED client
                   /\ \/ srv' = [srv EXCEPT !.pc = "lock", !.op = "reset", !.fn = "reset", !.max = Max(srv.req)]
                      \/ srv' = [srv EXCEPT !.pc = "wakemulti"]
          <5>1. "wakemulti" \in ServerPCs BY DEF ServerPCs
          <5>2. srv' \in Srv BY <1>0, <4>1, <4>3, <5>1, SrvPulseType, SrvPcType
          <5> QED BY <1>0, <4>3, <5>2 DEF client
        <4> QED BY <2>0, <4>2, <4>3, ReplyType
      <3>2. CASE ~(srv.pos > Len(queue))
        <4>1. srv.pos \in 1..Len(queue) BY <1>0, <1>10, <3>2 DEF wake_up, RequestOK
        <4>2. queue[srv.pos] \in Threads BY <1>0, <4>1
        <4>3. UNCHANGED client /\ srv' = [srv EXCEPT !.pc = "lock", !.fn = "signaled", !.cur = queue[srv.pos]]
          BY <1>10, <3>2 DEF wake_up
        <4>4. srv' \in Srv BY <1>0, <4>2, <4>3 DEF Srv, ServerPCs, Fns
        <4> QED BY <1>0, <4>3, <4>4 DEF client
      <3> QED BY <3>1, <3>2
    <2> QED BY <1>0, <2>1, <2>2, ServerTypeOK
  <1>11. CASE end_wait
    <2>1. ServerOnly /\ UNCHANGED doomed BY <1>11 DEF end_wait
    <2>2. Dequeue(srv.cur) /\ Return(srv.cur) BY <1>11 DEF end_wait
    <2>3. srv' \in Srv
      <3> DEFINE max == IF srv.max > 0 THEN srv.max - 1 ELSE 0
                 pos == IF srv.max = 1 THEN Len(queue) ELSE 1
      <3>1. max \in Nat /\ pos \in Nat BY <1>0
      <3>2. srv' = Srv0 \/ srv' = [srv EXCEPT !.pc = "scan", !.max = max, !.pos = pos, !.cur = 0]
        BY <1>11 DEF end_wait
      <3> HIDE DEF max, pos
      <3>3. [srv EXCEPT !.pc = "scan", !.max = max, !.pos = pos, !.cur = 0] \in Srv
        BY <1>0, <3>1, SrvScanType
      <3> QED BY <3>2, <3>3, Srv0Type
    <2> QED BY <1>0, <2>1, <2>2, <2>3, DequeueType, ReturnType, ServerTypeOK
  <1>12. CASE register_check
    <2>1. UNCHANGED <<word, client, cache_gen, queue, regs, reg_left>> /\ srv' \in Srv
      BY <1>12, Srv0Type DEF register_check
    <2>2. slot' \in [MultiWaiters -> {0, 1}] BY <1>12 DEF TypeOK, register_check
    <2> QED BY <2>1, <2>2 DEF TypeOK, client
  <1>13. CASE wait_all_consume
    <2>1. ServerOnly /\ UNCHANGED <<pc, call, doomed, queue>> BY <1>13 DEF wait_all_consume
    <2>2. word' \in Word BY <1>0, <1>13, ConsumedType DEF wait_all_consume
    <2>3. UNCHANGED loc \/ \E r \in Rets : SetRet(srv.req, r)
      BY <1>13 DEF wait_all_consume, ConsumedStatus, Rets
    <2>4. loc' \in [Threads -> Loc] BY <1>0, <2>3, SetRetType
    <2>5. srv' \in Srv BY <1>0, <1>13 DEF wait_all_consume, Srv, ServerPCs
    <2> QED BY <1>0, <2>1, <2>2, <2>4, <2>5, ServerTypeOK
  <1>14. CASE wait_all_unguard
    <2>0. srv.req \in Threads BY <1>14 DEF wait_all_unguard, RequestOK
    <2>1. ServerOnly /\ UNCHANGED <<doomed, queue>> BY <1>14 DEF wait_all_unguard
    <2>2. word' \in Word BY <1>14, FlagsType DEF wait_all_unguard
    <2>3. srv' \in Srv /\ ClientTyped' BY <1>14, <2>0, ReplyType DEF wait_all_unguard
    <2> QED BY <1>0, <2>1, <2>2, <2>3, ServerTypeOK
  <1>15. CASE destroy_generation
    <2>1. UNCHANGED <<client, cache_gen, queue, multis>> /\ srv' \in Srv
      BY <1>15, Srv0Type DEF destroy_generation
    <2>2. word' \in Word
      <3> DEFINE g == word.generation + 1
      <3>1. g \in Nat BY <1>0 DEF Word
      <3>2. word' = [word EXCEPT !.generation = g] BY <1>15 DEF destroy_generation
      <3> HIDE DEF g
      <3> QED BY <1>0, <3>1, <3>2, GenerationType
    <2> QED BY <2>1, <2>2 DEF TypeOK, client, multis
  <1> QED BY <1>1, <1>2, <1>3, <1>4, <1>5, <1>6, <1>7, <1>8, <1>9, <1>10, <1>11, <1>12, <1>13, <1>14, <1>15
          DEF ServerStep

-----------------------------------------------------------------------------
(* Who holds the word.                                                     *)

(* A thread that goes elsewhere does not hold it any more, and nobody else *)
(* begins to.                                                              *)
LEMMA GotoHolders ==
  ASSUME TypeOK, NEW t, NEW where, where \notin {"body", "write", "unlock"}, Goto(t, where)
  PROVE  Holders' \subseteq Holders /\ t \notin Holders'
  BY DEF TypeOK, Goto, Holders

(* Nor does a thread whose call returns hold the word,                     *)
LEMMA ReturnHolders ==
  ASSUME TypeOK, NEW t, Return(t) PROVE Holders' \subseteq Holders /\ t \notin Holders'
  <1>1. Goto(t, "idle") BY DEF Return
  <1> QED BY <1>1, GotoHolders

(* nor one that falls back to wineserver.                                  *)
LEMMA FallbackHolders ==
  ASSUME TypeOK, NEW t, Fallback(t) PROVE Holders' \subseteq Holders /\ t \notin Holders'
  <1>1. Goto(t, "check") \/ Goto(t, "request") BY DEF Fallback
  <1> QED BY <1>1, GotoHolders

(* An answer of wineserver gives the word to nobody.                       *)
LEMMA ReplyHolders == ASSUME TypeOK, NEW t, Reply(t) PROVE Holders' \subseteq Holders
  <1>1. CASE t \in doomed
    <2>1. pc' = [pc EXCEPT ![t] = pc[t]] BY <1>1 DEF Reply, Goto
    <2> QED BY <2>1 DEF TypeOK, Holders
  <1>2. CASE t \notin doomed
    <2>1. Goto(t, "dead") \/ Return(t) BY <1>2 DEF Reply
    <2> QED BY <2>1, GotoHolders, ReturnHolders
  <1> QED BY <1>1, <1>2

(* A wake gives the word to nobody.                                        *)
LEMMA WakeAddressHolders ==
  ASSUME TypeOK, NEW all, NEW where, NEW t, where = pc \/ where = [pc EXCEPT ![t] = "multi"],
         WakeAddress(all, where)
  PROVE  Holders' \subseteq Holders
  <1>1. PICK woken \in SUBSET Asleep :
          pc' = [u \in Threads |-> IF u \in woken THEN "loop" ELSE where[u]]
    BY DEF WakeAddress
  <1>2. ASSUME NEW u \in Threads, pc'[u] \in {"body", "write", "unlock"}
        PROVE pc[u] \in {"body", "write", "unlock"}
    BY <1>1, <1>2 DEF TypeOK
  <1> QED BY <1>2 DEF Holders

(* The answer to a wait depends on the low half of the word.               *)
LEMMA SignaledLow ==
  ASSUME NEW w, NEW v, v.low = w.low, NEW t PROVE Signaled(v, t) <=> Signaled(w, t)
  <1>1. CASE Mutex BY <1>1 DEF Signaled
  <1>2. CASE ~Mutex BY <1>2 DEF Signaled
  <1> QED BY <1>1, <1>2

-----------------------------------------------------------------------------
(* How the kinds of step keep the invariant.                               *)

(* The flags and the lock stay as they are.                                *)
SameFlags == /\ word'.type = word.type /\ word'.locked = word.locked
             /\ word'.server = word.server

(* Steps that leave the word, the queue and wineserver alone; or end the   *)
(* request.                                                                *)
LEMMA QuietSafe ==
  ASSUME IInv, SameFlags, word'.low = word.low, queue' = queue, Holders' \subseteq Holders,
         srv' = srv \/ srv' = Srv0
  PROVE  Safe'
  <1>1. Signaled(word', srv.cur) <=> Signaled(word, srv.cur) BY SignaledLow
  <1>2. CASE srv' = srv
    BY <1>1, <1>2 DEF IInv, Safe, SameFlags, RequestOK, QueueOK, Checking, FlagOK, LockOK, Live,
                 LockExclusion, ServerHolds, VerdictOK
  <1>3. CASE srv' = Srv0
    <2>1. srv'.pc = "idle" /\ srv'.op = "none" /\ srv'.fn = "none" /\ srv'.pos = 0 BY <1>3 DEF Srv0
    <2> QED BY <2>1 DEF IInv, Safe, SameFlags, RequestOK, QueueOK, Checking, FlagOK, LockOK, Live,
                 LockExclusion, ServerHolds, VerdictOK
  <1> QED BY <1>2, <1>3

(* Steps of the thread that holds the word.                                *)
LEMMA BodySafe ==
  ASSUME IInv, NEW t \in Holders, SameFlags, srv' = srv, queue' = queue, Holders' \subseteq Holders
  PROVE  Safe'
  BY DEF IInv, Safe, SameFlags, RequestOK, QueueOK, Checking, FlagOK, LockOK, Live,
         LockExclusion, ServerHolds, VerdictOK

(* A wait that is satisfied touches neither type, LOCKED nor SERVER_WAITERS. *)
LEMMA ConsumedFlags ==
  ASSUME NEW w \in Word, NEW t
  PROVE  LET v == Consumed(w, t) IN v.type = w.type /\ v.locked = w.locked /\ v.server = w.server
  <1> DEFINE v == Consumed(w, t)
  <1>1. CASE Kind = "auto"
    <2>1. v = [w EXCEPT !.low = 0] BY <1>1 DEF Consumed
    <2> QED BY <2>1 DEF Word
  <1>2. CASE Kind = "manual"
    <2>1. v = w BY <1>2 DEF Consumed
    <2> QED BY <2>1
  <1>3. CASE Kind = "semaphore"
    <2>1. v = [w EXCEPT !.low = w.low - 1] BY <1>3 DEF Consumed
    <2> QED BY <2>1 DEF Word
  <1>4. CASE Kind = "mutex" /\ w.low = t
    <2>1. v = [w EXCEPT !.high = Inc(w.high)] BY <1>4 DEF Consumed
    <2> QED BY <2>1 DEF Word
  <1>5. CASE Kind = "mutex" /\ w.low # t
    <2> DEFINE g == IF w.low < 0 THEN w.generation + 1 ELSE w.generation
    <2>1. v = [w EXCEPT !.low = t, !.high = 1, !.generation = g] BY <1>5 DEF Consumed
    <2> HIDE DEF g
    <2> QED BY <2>1 DEF Word
  <1> QED BY <1>1, <1>2, <1>3, <1>4, <1>5, KindAssumption

(* A release touches neither type, LOCKED nor SERVER_WAITERS.              *)
LEMMA ReleasedFlags ==
  ASSUME NEW w \in Word, NEW n
  PROVE  LET v == Released(w, n) IN v.type = w.type /\ v.locked = w.locked /\ v.server = w.server
  <1> DEFINE v == Released(w, n)
  <1>1. CASE Event
    <2>1. v = [w EXCEPT !.low = 1] BY <1>1 DEF Released, Event, Semaphore, Mutex
    <2> QED BY <2>1 DEF Word
  <1>2. CASE Semaphore
    <2>1. v = [w EXCEPT !.low = Sum(w, n)] BY <1>2 DEF Released, Event, Semaphore, Mutex
    <2> QED BY <2>1 DEF Word
  <1>3. CASE Mutex
    <2>1. v = [w EXCEPT !.high = w.high - 1] \/ v = [w EXCEPT !.low = 0, !.high = 0]
      BY <1>3 DEF Released, Event, Semaphore, Mutex
    <2> QED BY <2>1 DEF Word
  <1> QED BY <1>1, <1>2, <1>3, KindAssumption DEF Event, Semaphore, Mutex

(* Nor does the abandonment of a mutex.                                    *)
LEMMA AbandonedFlags ==
  ASSUME NEW w \in Word, NEW t
  PROVE  LET v == Abandoned(w, t) IN v.type = w.type /\ v.locked = w.locked /\ v.server = w.server
  BY DEF Abandoned, Word

-----------------------------------------------------------------------------
(* Every step of a thread keeps the invariant.                             *)
LEMMA ThreadSafe == ASSUME IInv, NEW t \in Threads, ThreadStep(t) PROVE Safe'
  <1>0. TypeOK /\ word \in Word BY DEF IInv, TypeOK
  <1>1. ASSUME ClientOnly, word' = word, Holders' \subseteq Holders PROVE Safe'
    BY <1>1, QuietSafe DEF ClientOnly, SameFlags
  <1>2. CASE check(t)
    <2>1. Fallback(t) \/ Goto(t, "lock") BY <1>2 DEF check
    <2>2. Holders' \subseteq Holders BY <1>0, <2>1, FallbackHolders, GotoHolders
    <2> QED BY <1>1, <1>2, <2>2 DEF check
  <1>3. CASE lock_state(t)
    <2>1. srv' = srv /\ queue' = queue BY <1>3 DEF lock_state, ClientOnly
    <2>2. word.type = Kind /\ ~word.locked /\ ~word.server BY <1>3 DEF lock_state, Live
    <2>3. word' = [word EXCEPT !.locked = TRUE] BY <1>3 DEF lock_state
    <2>4. word'.type = word.type /\ word'.locked /\ word'.server = word.server BY <1>0, <2>3 DEF Word
    <2>5. Holders = {} /\ srv.pc \notin {"body", "unlock"} BY <2>2 DEF IInv, Safe, LockOK, Live
    <2>6. queue = <<>> /\ srv.pc \notin {"guarded", "unguard"} BY <2>2 DEF IInv, Safe, FlagOK
    <2>7. Holders' = {t}
      <3>1. pc' = [pc EXCEPT ![t] = "body"] BY <1>3 DEF lock_state, Goto
      <3> QED BY <1>0, <2>5, <3>1 DEF TypeOK, Holders
    <2>8. ~(srv.fn = "satisfied" /\ srv.pc = "lock") BY <2>6 DEF IInv, Safe, QueueOK, Checking
    <2> QED BY <2>1, <2>2, <2>4, <2>5, <2>6, <2>7, <2>8
            DEF IInv, Safe, RequestOK, QueueOK, Checking, FlagOK, LockOK, Live, LockExclusion,
                ServerHolds, VerdictOK
  <1>4. CASE lock_state_fails(t)
    <2>1. \/ Fallback(t) \/ Return(t) \/ Goto(t, "loop") \/ Goto(t, "sleep")
      BY <1>4 DEF lock_state_fails
    <2>2. Holders' \subseteq Holders BY <1>0, <2>1, FallbackHolders, GotoHolders, ReturnHolders
    <2> QED BY <1>1, <1>4, <2>2 DEF lock_state_fails
  <1>5. CASE consume(t) \/ recheck(t) \/ signal(t)
    <2>1. srv' = srv /\ queue' = queue BY <1>5 DEF consume, recheck, signal, ClientOnly
    <2>2. t \in Holders BY <1>5 DEF Holders, consume, recheck, signal
    <2>3. Holders' \subseteq Holders
      <3>1. pc' = [pc EXCEPT ![t] = "unlock"] \/ pc' = [pc EXCEPT ![t] = "write"] BY <1>5 DEF consume, recheck, signal, Goto
      <3> QED BY <1>0, <2>2, <3>1 DEF TypeOK, Holders
    <2>4. SameFlags
      <3>1. \/ word' = word \/ word' = Consumed(word, t) \/ word' = Released(word, call[t].n)
            \/ word' = [word EXCEPT !.low = 0]
        BY <1>5 DEF consume, recheck, signal
      <3>2. CASE word' = Consumed(word, t) BY <1>0, <3>2, ConsumedFlags DEF SameFlags
      <3>3. CASE word' = Released(word, call[t].n) BY <1>0, <3>3, ReleasedFlags DEF SameFlags
      <3>4. CASE word' = [word EXCEPT !.low = 0] BY <1>0, <3>4 DEF SameFlags, Word
      <3> QED BY <3>1, <3>2, <3>3, <3>4 DEF SameFlags
    <2> QED BY <2>1, <2>2, <2>3, <2>4, BodySafe
  <1>6. CASE unlock_state(t)
    <2>1. srv' = srv /\ queue' = queue BY <1>6 DEF unlock_state, ClientOnly
    <2>2. t \in Holders BY <1>6 DEF Holders, unlock_state
    <2>3. word' = [word EXCEPT !.locked = FALSE] BY <1>6 DEF unlock_state
    <2>4. word'.type = word.type /\ word'.server = word.server BY <1>0, <2>3 DEF Word
    <2>5. Holders' \subseteq Holders /\ t \notin Holders'
      <3>1. \/ Fallback(t) \/ Return(t)
            \/ \E where \in {"refresh", "wake", "owner", "sleep", "loop"} : Goto(t, where)
        BY <1>6 DEF unlock_state, AfterUnlock
      <3> QED BY <1>0, <3>1, FallbackHolders, ReturnHolders, GotoHolders
    <2>6. Holders' = {} BY <2>2, <2>5 DEF IInv, Safe, LockExclusion
    <2>7. srv.pc \notin {"body", "unlock", "guarded", "unguard"}
      BY <2>2 DEF IInv, Safe, LockExclusion, ServerHolds
    <2>8. ~(srv.fn = "satisfied" /\ srv.pc = "lock") BY <2>2 DEF IInv, Safe, VerdictOK
    <2> QED BY <2>1, <2>4, <2>6, <2>7, <2>8
            DEF IInv, Safe, RequestOK, QueueOK, Checking, FlagOK, LockOK, Live, LockExclusion,
                ServerHolds, VerdictOK
  <1>7. CASE refresh_cache_generation(t)
    <2>1. Holders' \subseteq Holders BY <1>0, <1>7, ReturnHolders DEF refresh_cache_generation
    <2> QED BY <1>1, <1>7, <2>1 DEF refresh_cache_generation
  <1>8. CASE wait_loop(t)
    <2>1. Fallback(t) \/ Goto(t, "lock") BY <1>8 DEF wait_loop
    <2>2. Holders' \subseteq Holders BY <1>0, <2>1, FallbackHolders, GotoHolders
    <2> QED BY <1>1, <1>8, <2>2 DEF wait_loop
  <1>9. CASE load_owner(t)
    <2>1. Holders' \subseteq Holders BY <1>0, <1>9, GotoHolders DEF load_owner
    <2> QED BY <1>1, <1>9, <2>1 DEF load_owner
  <1>10. CASE wait_address(t)
    <2>1. Goto(t, "asleep") \/ Goto(t, "loop") BY <1>10 DEF wait_address
    <2>2. Holders' \subseteq Holders BY <1>0, <2>1, GotoHolders
    <2> QED BY <1>1, <1>10, <2>2 DEF wait_address
  <1>11. CASE wake_address(t)
    <2> DEFINE where == [pc EXCEPT ![t] = "multi"]
    <2>1. WakeAddress(WakesAll(call[t].n), where) BY <1>11 DEF wake_address
    <2>2. Holders' \subseteq Holders BY <1>0, <2>1, WakeAddressHolders
    <2> QED BY <1>1, <1>11, <2>2 DEF wake_address
  <1>12. CASE check_multi(t)
    <2>1. Return(t) \/ Goto(t, "notify") BY <1>12 DEF check_multi
    <2>2. Holders' \subseteq Holders BY <1>0, <2>1, ReturnHolders, GotoHolders
    <2> QED BY <1>1, <1>12, <2>2 DEF check_multi
  <1> QED BY <1>2, <1>3, <1>4, <1>5, <1>6, <1>7, <1>8, <1>9, <1>10, <1>11, <1>12 DEF ThreadStep

(* A waiter leaves the queue: SERVER_WAITERS stays up for those behind it. *)
LEMMA DequeueFlags ==
  ASSUME TypeOK, NEW t, Dequeue(t)
  PROVE  /\ word'.type = word.type /\ word'.locked = word.locked /\ word'.low = word.low
         /\ queue' # <<>> => word'.server
  <1> DEFINE b == Without(queue, t) # <<>>
  <1>1. b \in BOOLEAN /\ (queue' # <<>> <=> b) BY DEF Dequeue
  <1>2. word' = [word EXCEPT !.server = b] BY DEF Dequeue
  <1> HIDE DEF b
  <1> QED BY <1>1, <1>2 DEF TypeOK, Word

(* A waiter that leaves between two requests keeps the invariant.          *)
LEMMA DequeueSafe ==
  ASSUME IInv, NEW t, Dequeue(t), Holders' \subseteq Holders, srv.pc = "idle", srv' = srv
  PROVE  Safe'
  <1>1. TypeOK BY DEF IInv
  <1>2. /\ word'.type = word.type /\ word'.locked = word.locked /\ word'.low = word.low
        /\ queue' # <<>> => word'.server
    BY <1>1, DequeueFlags
  <1> QED BY <1>2 DEF IInv, Safe, RequestOK, QueueOK, Checking, FlagOK, LockOK, Live, LockExclusion,
                     ServerHolds, VerdictOK

(* A request begins: wineserver is about to lock the word for it.          *)
LEMMA AcceptSafe ==
  ASSUME IInv, NEW t \in Threads, ServerAccept(t) \/ thread_timeout(t) PROVE Safe'
  <1>0. TypeOK /\ word \in Word /\ queue \in Seq(Threads) BY DEF IInv, TypeOK
  <1>1. CASE add_server_waiter(t)
    <2>1. word' = [word EXCEPT !.server = TRUE] BY <1>1 DEF add_server_waiter
    <2>2. word'.type = Kind /\ word'.locked = word.locked /\ word'.server /\ word.type = Kind
      BY <1>0, <1>1, <2>1 DEF Word, add_server_waiter, Live
    <2>3. queue' # <<>> BY <1>0, <1>1 DEF add_server_waiter
    <2>4. Holders' \subseteq Holders BY <1>0, <1>1, GotoHolders DEF add_server_waiter
    <2>5. srv' = [Srv0 EXCEPT !.pc = "lock", !.fn = "signaled", !.cur = t] BY <1>1 DEF add_server_waiter
    <2>6. srv'.pc = "lock" /\ srv'.op = "none" /\ srv'.fn = "signaled" /\ srv'.pos = 0
      BY <2>5 DEF Srv0
    <2> QED BY <2>2, <2>3, <2>4, <2>6
            DEF IInv, Safe, RequestOK, QueueOK, Checking, FlagOK, LockOK, Live, LockExclusion,
                ServerHolds, VerdictOK
  <1>2. CASE start_request(t)
    <2>1. word' = word /\ queue' = queue /\ Holders' = Holders /\ srv.pc = "idle" /\ word.type = Kind
      BY <1>2 DEF start_request, client, Holders, Live
    <2>2. PICK fn \in {"signal", "reset", "abandon"} :
            /\ srv'.pc = "lock" /\ srv'.op = fn /\ srv'.fn = fn /\ srv'.req = t /\ srv'.pos = 0
      <3> DEFINE mx == Max(t)
      <3>1. \/ srv' = [Srv0 EXCEPT !.pc = "lock", !.op = "signal", !.fn = "signal", !.req = t, !.max = mx]
            \/ srv' = [Srv0 EXCEPT !.pc = "lock", !.op = "reset", !.fn = "reset", !.req = t, !.max = mx]
            \/ srv' = [Srv0 EXCEPT !.pc = "lock", !.op = "abandon", !.fn = "abandon", !.req = t]
        BY <1>2 DEF start_request
      <3> HIDE DEF mx
      <3> QED BY <3>1 DEF Srv0
    <2> QED BY <2>1, <2>2
            DEF IInv, Safe, RequestOK, QueueOK, Checking, FlagOK, LockOK, Live, LockExclusion,
                ServerHolds, VerdictOK
  <1>3. CASE reply_at_once(t)
    <2>1. Holders' \subseteq Holders BY <1>0, <1>3, ReplyHolders DEF reply_at_once
    <2>2. srv' = Srv0 BY <1>3 DEF reply_at_once, Reply
    <2> QED BY <1>3, <2>1, <2>2, QuietSafe DEF reply_at_once, SameFlags
  <1>4. CASE wake_wfusync_waiters(t)
    <2>1. Holders' \subseteq Holders BY <1>0, <1>4, ReturnHolders DEF wake_wfusync_waiters
    <2> QED BY <1>4, <2>1, QuietSafe DEF wake_wfusync_waiters, SameFlags
  <1>5. CASE try_wait_all(t)
    <2>0. queue' = queue /\ word.type = Kind BY <1>5 DEF try_wait_all, Live
    <2>1. CASE Reply(t) /\ UNCHANGED word
      <3>1. Holders' \subseteq Holders BY <1>0, <2>1, ReplyHolders
      <3>2. srv' = Srv0 BY <2>1 DEF Reply
      <3> QED BY <2>0, <2>1, <3>1, <3>2, QuietSafe DEF SameFlags
    <2>2. CASE /\ ~word.locked /\ ~word.server
               /\ word' = [word EXCEPT !.server = TRUE] /\ UNCHANGED <<pc, call, loc>>
               /\ srv' = [Srv0 EXCEPT !.pc = "guarded", !.req = t]
      <3>1. word'.type = Kind /\ word'.locked = word.locked /\ word'.server BY <1>0, <2>0, <2>2 DEF Word
      <3>2. Holders' = Holders BY <2>2 DEF Holders
      <3>3. Holders = {} BY <2>0, <2>2 DEF IInv, Safe, LockOK, Live
      <3>4. queue = <<>> BY <2>2 DEF IInv, Safe, FlagOK
      <3>5. srv'.pc = "guarded" /\ srv'.op = "none" /\ srv'.fn = "none" /\ srv'.pos = 0 /\ srv'.req = t
        BY <2>2 DEF Srv0
      <3> QED BY <2>0, <3>1, <3>2, <3>3, <3>4, <3>5
              DEF IInv, Safe, RequestOK, QueueOK, Checking, FlagOK, LockOK, Live, LockExclusion,
                  ServerHolds, VerdictOK
    <2> QED BY <1>5, <2>1, <2>2 DEF try_wait_all
  <1>6. CASE thread_timeout(t)
    <2>1. srv' = srv /\ srv.pc = "idle" BY <1>6 DEF thread_timeout
    <2>2. Dequeue(t) /\ Holders' \subseteq Holders BY <1>0, <1>6, ReturnHolders DEF thread_timeout
    <2> QED BY <2>1, <2>2, DequeueSafe
  <1> QED BY <1>1, <1>2, <1>3, <1>4, <1>5, <1>6 DEF ServerAccept

(* The environment keeps the invariant.                                    *)
LEMMA EnvironmentSafe ==
  ASSUME IInv, Environment \/ \E t \in Threads : wait_timeout(t) PROVE Safe'
  <1>0. TypeOK /\ word \in Word /\ queue \in Seq(Threads) BY DEF IInv, TypeOK
  <1>1. ASSUME NEW t \in Threads, Invoke(t) PROVE Safe'
    <2>1. word' = word /\ queue' = queue /\ srv' = srv BY <1>1 DEF Invoke
    <2>2. Goto(t, "check") \/ Goto(t, "request") BY <1>1 DEF Invoke
    <2>3. Holders' \subseteq Holders BY <1>0, <2>2, GotoHolders
    <2> QED BY <2>1, <2>3, QuietSafe DEF SameFlags
  <1>2. ASSUME NEW t \in Threads, wait_interrupted(t) \/ sigquit(t) \/ wait_timeout(t) PROVE Safe'
    <2>1. word' = word /\ queue' = queue /\ srv' = srv
      BY <1>2 DEF wait_interrupted, sigquit, wait_timeout, ClientOnly
    <2>2. Goto(t, "loop") \/ Goto(t, "dead") \/ Fallback(t) \/ Return(t)
      BY <1>2 DEF wait_interrupted, sigquit, wait_timeout
    <2>3. Holders' \subseteq Holders BY <1>0, <2>2, GotoHolders, FallbackHolders, ReturnHolders
    <2> QED BY <2>1, <2>3, QuietSafe DEF SameFlags
  <1>3. ASSUME NEW t \in Threads, kill_thread(t) PROVE Safe'
    <2>1. srv.pc = "idle" /\ word.type = Kind BY <1>3 DEF kill_thread, Live
    <2>2. Holders' \subseteq Holders
      <3>1. Goto(t, "dead") \/ pc' = pc BY <1>3 DEF kill_thread
      <3> QED BY <1>0, <3>1, GotoHolders DEF Holders
    <2>3. word'.type = Kind /\ word'.locked = word.locked /\ (queue' # <<>> => word'.server)
      <3>1. CASE Dequeue(t) BY <1>0, <2>1, <3>1, DequeueFlags
      <3>2. CASE UNCHANGED <<word, queue>> BY <2>1, <3>2 DEF IInv, Safe, FlagOK
      <3> QED BY <1>3, <3>1, <3>2 DEF kill_thread
    <2>4. CASE Mutex
      <3>1. srv' = [Srv0 EXCEPT !.pc = "lock", !.op = "abandon", !.fn = "abandon", !.req = t]
        BY <1>3, <2>4 DEF kill_thread
      <3>2. srv'.pc = "lock" /\ srv'.op = "abandon" /\ srv'.fn = "abandon" /\ srv'.req = t /\ srv'.pos = 0
        BY <3>1 DEF Srv0
      <3> QED BY <2>1, <2>2, <2>3, <3>2
              DEF IInv, Safe, RequestOK, QueueOK, Checking, FlagOK, LockOK, Live, LockExclusion,
                  ServerHolds, VerdictOK
    <2>5. CASE ~Mutex
      <3>1. srv' = srv BY <1>3, <2>5 DEF kill_thread
      <3> QED BY <2>1, <2>2, <2>3, <3>1
              DEF IInv, Safe, RequestOK, QueueOK, Checking, FlagOK, LockOK, Live, LockExclusion,
                  ServerHolds, VerdictOK
    <2> QED BY <2>4, <2>5
  <1>4. ASSUME NEW m \in MultiWaiters, register_wait(m) PROVE Safe'
    <2>1. queue' = queue /\ Holders' = Holders /\ word.type = Kind /\ srv.pc = "idle"
      BY <1>4 DEF register_wait, client, Holders, Live
    <2>2. word' = [word EXCEPT !.multi = TRUE] BY <1>4 DEF register_wait
    <2>3. word'.type = word.type /\ word'.locked = word.locked /\ word'.server = word.server
      BY <1>0, <2>2 DEF Word
    <2>4. srv' = [Srv0 EXCEPT !.pc = "regcheck", !.m = m] BY <1>4 DEF register_wait
    <2>5. srv'.pc = "regcheck" /\ srv'.op = "none" /\ srv'.fn = "none" /\ srv'.pos = 0 BY <2>4 DEF Srv0
    <2> QED BY <2>1, <2>3, <2>5
            DEF IInv, Safe, RequestOK, QueueOK, Checking, FlagOK, LockOK, Live, LockExclusion,
                ServerHolds, VerdictOK
  <1>5. ASSUME NEW m \in MultiWaiters, unregister_wait(m) PROVE Safe'
    <2>1. queue' = queue /\ Holders' = Holders /\ srv' = srv BY <1>5 DEF unregister_wait, client, Holders
    <2> DEFINE b == word.multi /\ regs \ {m} # {}
    <2>2. word' = [word EXCEPT !.multi = b] BY <1>5 DEF unregister_wait
    <2> HIDE DEF b
    <2>3. SameFlags /\ word'.low = word.low BY <1>0, <2>2 DEF SameFlags, Word
    <2> QED BY <2>1, <2>3, QuietSafe
  <1>6. ASSUME destroy PROVE Safe'
    <2>1. queue' = queue /\ Holders' = Holders /\ srv.pc = "idle" /\ queue = <<>>
      BY <1>6 DEF destroy, client, Holders
    <2>2. word'.type = "unknown"
      <3>1. word' = [low |-> word.low, high |-> word.high, generation |-> word.generation,
                     type |-> "unknown", locked |-> FALSE, server |-> FALSE, multi |-> FALSE]
        BY <1>0, <1>6 DEF destroy, Word
      <3> QED BY <3>1
    <2>4. srv'.pc = "destroyed" /\ srv'.op = "none" /\ srv'.fn = "none" /\ srv'.pos = 0
      BY <1>6 DEF destroy, Srv0
    <2>3. Kind # "unknown" BY KindAssumption
    <2> QED BY <2>1, <2>2, <2>3, <2>4
            DEF IInv, Safe, RequestOK, QueueOK, Checking, FlagOK, LockOK, Live, LockExclusion,
                ServerHolds, VerdictOK
  <1> QED BY <1>1, <1>2, <1>3, <1>4, <1>5, <1>6 DEF Environment

(* Every step of wineserver inside a request keeps the invariant.          *)
LEMMA ServerSafe == ASSUME IInv, ServerStep PROVE Safe'
  <1>0. TypeOK /\ word \in Word /\ srv \in Srv /\ queue \in Seq(Threads) BY DEF IInv, TypeOK
  <1>1. srv.pos \in Nat /\ srv.fn \in Fns /\ srv.ok \in BOOLEAN BY <1>0 DEF Srv
  <1>2. srv.pc \notin {"idle", "destroyed"} => word.type = Kind BY DEF IInv, Safe, LockOK, Live
  <1>3. ASSUME srv.pc \in {"body", "unlock"} PROVE word.locked /\ Holders = {}
    BY <1>2, <1>3 DEF IInv, Safe, LockOK, Live, LockExclusion, ServerHolds
  <1>4. CASE server_lock_state
    <2>1. srv.pc = "lock" /\ ~word.locked /\ queue' = queue /\ Holders' = Holders
      BY <1>4 DEF server_lock_state, client, Holders
    <2>2. word' = [word EXCEPT !.locked = TRUE] BY <1>4 DEF server_lock_state
    <2>3. word'.type = word.type /\ word'.locked /\ word'.server = word.server /\ word'.low = word.low
      BY <1>0, <2>2 DEF Word
    <2>4. Holders = {} BY <1>2, <2>1 DEF IInv, Safe, LockOK, Live
    <2>5. srv' = [srv EXCEPT !.pc = "body"] BY <1>4 DEF server_lock_state
    <2>6. /\ srv'.pc = "body" /\ srv'.op = srv.op /\ srv'.fn = srv.fn /\ srv'.req = srv.req
          /\ srv'.pos = srv.pos /\ srv'.cur = srv.cur
      BY <1>0, <2>5 DEF Srv
    <2>7. Signaled(word', srv.cur) <=> Signaled(word, srv.cur) BY <2>3, SignaledLow
    <2> QED BY <1>2, <2>1, <2>3, <2>4, <2>6, <2>7
            DEF IInv, Safe, RequestOK, QueueOK, Checking, FlagOK, LockOK, Live, LockExclusion,
                ServerHolds, VerdictOK
  <1>5. CASE server_signaled
    <2>1. srv.pc = "body" /\ word' = word /\ queue' = queue /\ Holders' = Holders
      BY <1>5 DEF server_signaled, client, Holders
    <2> DEFINE ok == Signaled(word, srv.cur)
    <2>2. srv' = [srv EXCEPT !.pc = "unlock", !.ok = ok] BY <1>5 DEF server_signaled
    <2> HIDE DEF ok
    <2>3. /\ srv'.pc = "unlock" /\ srv'.op = srv.op /\ srv'.fn = srv.fn /\ srv'.req = srv.req
          /\ srv'.pos = srv.pos /\ srv'.cur = srv.cur /\ srv'.ok = ok
      BY <1>0, <2>2 DEF Srv
    <2>4. srv.fn = "signaled" BY <1>5 DEF server_signaled
    <2> QED BY <1>2, <1>3, <2>1, <2>3, <2>4
            DEF ok, IInv, Safe, RequestOK, QueueOK, Checking, FlagOK, LockOK, Live, LockExclusion,
                ServerHolds, VerdictOK
  <1>6. CASE server_satisfied \/ server_signal \/ server_reset \/ server_abandon
    <2>1. srv.pc = "body" /\ queue' = queue /\ Holders' = Holders
      BY <1>6 DEF server_satisfied, server_signal, server_reset, server_abandon, client, Holders
    <2>2. SameFlags
      <3>1. \/ word' = word \/ word' = Consumed(word, srv.cur) \/ word' = Released(word, call[srv.req].n)
            \/ word' = [word EXCEPT !.low = 0] \/ word' = Abandoned(word, srv.req)
        BY <1>6 DEF server_satisfied, server_signal, server_reset, server_abandon
      <3>2. CASE word' = Consumed(word, srv.cur) BY <1>0, <3>2, ConsumedFlags DEF SameFlags
      <3>3. CASE word' = Released(word, call[srv.req].n) BY <1>0, <3>3, ReleasedFlags DEF SameFlags
      <3>4. CASE word' = [word EXCEPT !.low = 0] BY <1>0, <3>4 DEF SameFlags, Word
      <3>5. CASE word' = Abandoned(word, srv.req) BY <1>0, <3>5, AbandonedFlags DEF SameFlags
      <3> QED BY <3>1, <3>2, <3>3, <3>4, <3>5 DEF SameFlags
    <2>3. /\ srv'.pc = "unlock" /\ srv'.op = srv.op /\ srv'.fn = srv.fn /\ srv'.req = srv.req
          /\ srv'.pos = srv.pos /\ srv'.cur = srv.cur /\ srv.fn # "signaled"
      <3>1. ASSUME NEW b, srv' = [srv EXCEPT !.pc = "unlock", !.wakes = b] \/ srv' = [srv EXCEPT !.pc = "unlock"]
            PROVE  /\ srv'.pc = "unlock" /\ srv'.op = srv.op /\ srv'.fn = srv.fn /\ srv'.req = srv.req
                   /\ srv'.pos = srv.pos /\ srv'.cur = srv.cur
        BY <1>0, <3>1 DEF Srv
      <3>2. srv.fn # "signaled" BY <1>6 DEF server_satisfied, server_signal, server_reset, server_abandon
      <3>3. \E b : srv' = [srv EXCEPT !.pc = "unlock", !.wakes = b] \/ srv' = [srv EXCEPT !.pc = "unlock"]
        BY <1>6, Zenon DEF server_satisfied, server_signal, server_reset, server_abandon
      <3> QED BY <3>1, <3>2, <3>3
    <2> QED BY <1>2, <1>3, <2>1, <2>2, <2>3
            DEF SameFlags, IInv, Safe, RequestOK, QueueOK, Checking, FlagOK, LockOK, Live,
                LockExclusion, ServerHolds, VerdictOK
  <1>7. CASE server_unlock_state
    <2>1. srv.pc = "unlock" /\ queue' = queue /\ Holders = {} /\ word.type = Kind
      BY <1>2, <1>3, <1>7 DEF server_unlock_state
    <2>2. word' = [word EXCEPT !.locked = FALSE] BY <1>7 DEF server_unlock_state
    <2>3. word'.type = word.type /\ word'.server = word.server /\ word'.low = word.low
      BY <1>0, <2>2 DEF Word
    <2>4. Signaled(word', srv.cur) <=> Signaled(word, srv.cur) BY <2>3, SignaledLow
    <2>5. CASE srv.fn = "signaled" /\ srv.ok
      <3>1. srv' = [srv EXCEPT !.pc = "lock", !.fn = "satisfied"] /\ Holders' = Holders
        BY <1>7, <2>5 DEF server_unlock_state, client, Holders
      <3>2. /\ srv'.pc = "lock" /\ srv'.op = srv.op /\ srv'.fn = "satisfied" /\ srv'.req = srv.req
            /\ srv'.pos = srv.pos /\ srv'.cur = srv.cur
        BY <1>0, <3>1 DEF Srv
      <3> QED BY <2>1, <2>3, <2>4, <2>5, <3>1, <3>2
              DEF IInv, Safe, RequestOK, QueueOK, Checking, FlagOK, LockOK, Live, LockExclusion,
                  ServerHolds, VerdictOK
    <2>6. ASSUME NEW p \in {"remove", "wakeaddr", "wakemulti"}, Holders' = Holders,
                 srv' = [srv EXCEPT !.pc = p],
                 p = "remove" <=> srv.fn \in {"signaled", "satisfied"}
          PROVE  Safe'
      <3>1. /\ srv'.pc = p /\ srv'.op = srv.op /\ srv'.fn = srv.fn /\ srv'.req = srv.req
            /\ srv'.pos = srv.pos
        BY <1>0, <2>6 DEF Srv
      <3>2. srv.fn # "none" BY <2>1 DEF IInv, Safe, RequestOK
      <3> QED BY <1>1, <2>1, <2>3, <2>6, <3>1, <3>2
              DEF Fns, IInv, Safe, RequestOK, QueueOK, Checking, FlagOK, LockOK, Live, LockExclusion,
                  ServerHolds, VerdictOK
    <2>7. ASSUME NEW n \in Nat, n > 0, Holders' = Holders, srv.op # "none",
                 srv' = [srv EXCEPT !.pc = "scan", !.pos = n]
          PROVE  Safe'
      <3>1. /\ srv'.pc = "scan" /\ srv'.op = srv.op /\ srv'.fn = srv.fn /\ srv'.req = srv.req /\ srv'.pos = n
        BY <1>0, <2>7 DEF Srv
      <3> QED BY <2>1, <2>3, <2>7, <3>1
              DEF IInv, Safe, RequestOK, QueueOK, Checking, FlagOK, LockOK, Live, LockExclusion,
                  ServerHolds, VerdictOK
    <2>8. ASSUME srv' = Srv0, Holders' \subseteq Holders PROVE Safe'
      <3>1. srv'.pc = "idle" /\ srv'.op = "none" /\ srv'.fn = "none" /\ srv'.pos = 0 BY <2>8 DEF Srv0
      <3> QED BY <2>1, <2>3, <2>8, <3>1
              DEF IInv, Safe, RequestOK, QueueOK, Checking, FlagOK, LockOK, Live, LockExclusion,
                  ServerHolds, VerdictOK
    <2>9. CASE srv.fn = "signaled" /\ ~srv.ok
      <3>1. Holders' = Holders BY <1>7, <2>9 DEF server_unlock_state, client, Holders
      <3>2. \/ srv' = [srv EXCEPT !.pc = "remove"]
            \/ srv.pos = 0 /\ srv' = Srv0
            \/ srv.pos # 0 /\ srv' = [srv EXCEPT !.pc = "scan", !.pos = srv.pos + 1]
        BY <1>7, <2>9 DEF server_unlock_state
      <3>3. CASE srv' = [srv EXCEPT !.pc = "remove"] BY <2>6, <2>9, <3>1, <3>3
      <3>4. CASE srv' = Srv0 BY <2>8, <3>1, <3>4
      <3>5. CASE srv.pos # 0 /\ srv' = [srv EXCEPT !.pc = "scan", !.pos = srv.pos + 1]
        <4>1. srv.op # "none" BY <1>1, <3>5 DEF IInv, Safe, RequestOK
        <4>2. srv.pos + 1 \in Nat /\ srv.pos + 1 > 0 BY <1>1
        <4> QED BY <2>7, <3>1, <3>5, <4>1, <4>2
      <3> QED BY <3>2, <3>3, <3>4, <3>5
    <2>10. CASE srv.fn = "satisfied"
      <3>1. Holders' = Holders /\ srv' = [srv EXCEPT !.pc = "remove"]
        BY <1>7, <2>10 DEF server_unlock_state, client, Holders
      <3> QED BY <2>6, <2>10, <3>1
    <2>11. CASE srv.fn = "reset"
      <3>1. Holders' = Holders /\ srv' = [srv EXCEPT !.pc = "scan", !.pos = 1]
        BY <1>7, <2>11 DEF server_unlock_state, client, Holders
      <3>2. srv.op # "none" BY <2>11 DEF IInv, Safe, RequestOK
      <3>3. 1 \in Nat /\ 1 > 0 OBVIOUS
      <3> QED BY <2>7, <3>1, <3>2, <3>3
    <2>12. CASE srv.fn \in {"signal", "abandon"}
      <3>1. \/ srv' = [srv EXCEPT !.pc = "wakeaddr"] /\ UNCHANGED client
            \/ srv' = [srv EXCEPT !.pc = "wakemulti"] /\ UNCHANGED client
            \/ Reply(srv.req)
        BY <1>7, <2>12 DEF server_unlock_state
      <3>2. CASE srv' = [srv EXCEPT !.pc = "wakeaddr"] /\ UNCHANGED client
        <4>1. Holders' = Holders BY <3>2 DEF client, Holders
        <4> QED BY <2>6, <2>12, <3>2, <4>1
      <3>3. CASE srv' = [srv EXCEPT !.pc = "wakemulti"] /\ UNCHANGED client
        <4>1. Holders' = Holders BY <3>3 DEF client, Holders
        <4> QED BY <2>6, <2>12, <3>3, <4>1
      <3>4. CASE Reply(srv.req)
        <4>1. Holders' \subseteq Holders /\ srv' = Srv0 BY <1>0, <3>4, ReplyHolders DEF Reply
        <4> QED BY <2>8, <4>1
      <3> QED BY <3>1, <3>2, <3>3, <3>4
    <2>13. srv.fn # "none" BY <2>1 DEF IInv, Safe, RequestOK
    <2> QED BY <1>1, <2>5, <2>9, <2>10, <2>11, <2>12, <2>13 DEF Fns
  <1>8. CASE server_wake_address
    <2>1. srv.pc = "wakeaddr" /\ word' = word /\ queue' = queue BY <1>8 DEF server_wake_address
    <2>2. Holders' \subseteq Holders
      <3>1. WakeAddress(srv.op = "abandon" \/ WakesAll(call[srv.req].n), pc) BY <1>8 DEF server_wake_address
      <3> QED BY <1>0, <3>1, WakeAddressHolders
    <2>3. PICK p \in {"wakemulti", "scan"} : srv' = [srv EXCEPT !.pc = p, !.pos = 1]
      BY <1>8 DEF server_wake_address
    <2>4. /\ srv'.pc = p /\ srv'.op = srv.op /\ srv'.fn = srv.fn /\ srv'.req = srv.req /\ srv'.pos = 1
      BY <1>0, <2>3 DEF Srv
    <2> QED BY <1>2, <2>1, <2>2, <2>4
            DEF IInv, Safe, RequestOK, QueueOK, Checking, FlagOK, LockOK, Live, LockExclusion,
                ServerHolds, VerdictOK
  <1>9. CASE server_wake_multi
    <2>1. srv.pc = "wakemulti" /\ word' = word /\ queue' = queue BY <1>9 DEF server_wake_multi
    <2>2. CASE srv' = [srv EXCEPT !.pc = "scan", !.pos = 1] /\ UNCHANGED client
      <3>1. /\ srv'.pc = "scan" /\ srv'.op = srv.op /\ srv'.fn = srv.fn /\ srv'.req = srv.req /\ srv'.pos = 1
        BY <1>0, <2>2 DEF Srv
      <3>2. Holders' = Holders BY <2>2 DEF client, Holders
      <3> QED BY <1>2, <2>1, <3>1, <3>2
              DEF IInv, Safe, RequestOK, QueueOK, Checking, FlagOK, LockOK, Live, LockExclusion,
                  ServerHolds, VerdictOK
    <2>3. CASE Reply(srv.req)
      <3>1. Holders' \subseteq Holders /\ srv' = Srv0 BY <1>0, <2>3, ReplyHolders DEF Reply
      <3> QED BY <2>1, <3>1, QuietSafe DEF SameFlags
    <2> QED BY <1>9, <2>2, <2>3 DEF server_wake_multi
  <1>10. CASE wake_up
    <2>1. srv.pc = "scan" /\ word' = word /\ queue' = queue BY <1>10 DEF wake_up
    <2>2. srv.pos > 0 /\ srv.op # "none" /\ srv.req \in Threads BY <2>1 DEF IInv, Safe, RequestOK
    <2>3. CASE Reply(srv.req)
      <3>1. Holders' \subseteq Holders /\ srv' = Srv0 BY <1>0, <2>3, ReplyHolders DEF Reply
      <3> QED BY <2>1, <3>1, QuietSafe DEF SameFlags
    <2>4. ASSUME UNCHANGED client, srv'.op # "none", srv'.req = srv.req, srv'.pos = srv.pos,
                 \/ srv'.pc = "lock" /\ srv'.fn = "signaled" /\ queue # <<>>
                 \/ srv'.pc = "lock" /\ srv'.fn = "reset"
                 \/ srv'.pc = "wakemulti"
          PROVE  Safe'
      <3>1. Holders' = Holders BY <2>4 DEF client, Holders
      <3> QED BY <1>2, <2>1, <2>2, <2>4, <3>1
              DEF IInv, Safe, RequestOK, QueueOK, Checking, FlagOK, LockOK, Live, LockExclusion,
                  ServerHolds, VerdictOK
    <2>5. CASE srv.pos > Len(queue) /\ ~Reply(srv.req)
      <3> DEFINE mx == Max(srv.req)
      <3>1. \/ srv' = [srv EXCEPT !.pc = "lock", !.op = "reset", !.fn = "reset", !.max = mx]
            \/ srv' = [srv EXCEPT !.pc = "wakemulti"]
        BY <1>10, <2>5 DEF wake_up, ScanDone
      <3> HIDE DEF mx
      <3>2. /\ srv'.op # "none" /\ srv'.req = srv.req /\ srv'.pos = srv.pos
            /\ (srv'.pc = "lock" /\ srv'.fn = "reset") \/ srv'.pc = "wakemulti"
        BY <1>0, <2>2, <3>1 DEF Srv
      <3>3. UNCHANGED client BY <1>10, <2>5 DEF wake_up, ScanDone
      <3> QED BY <2>4, <3>2, <3>3
    <2>6. CASE ~(srv.pos > Len(queue))
      <3> DEFINE q == queue[srv.pos]
      <3>1. srv' = [srv EXCEPT !.pc = "lock", !.fn = "signaled", !.cur = q] /\ UNCHANGED client
        BY <1>10, <2>6 DEF wake_up
      <3> HIDE DEF q
      <3>2. srv'.op = srv.op /\ srv'.req = srv.req /\ srv'.pos = srv.pos /\ srv'.pc = "lock" /\ srv'.fn = "signaled"
        BY <1>0, <3>1 DEF Srv
      <3>3. queue # <<>> BY <1>0, <1>1, <2>2, <2>6
      <3> QED BY <2>2, <2>4, <3>1, <3>2, <3>3
    <2> QED BY <2>3, <2>5, <2>6
  <1>11. CASE end_wait
    <2>1. srv.pc = "remove" /\ queue # <<>> BY <1>11 DEF end_wait, IInv, Safe, QueueOK, Checking
    <2>2. Holders' \subseteq Holders BY <1>0, <1>11, ReturnHolders DEF end_wait
    <2>3. /\ word'.type = word.type /\ word'.locked = word.locked
          /\ queue' # <<>> => word'.server
      BY <1>0, <1>11, DequeueFlags DEF end_wait
    <2>4. CASE srv.pos = 0
      <3>1. srv' = Srv0 BY <1>11, <2>4 DEF end_wait
      <3>2. srv'.pc = "idle" /\ srv'.op = "none" /\ srv'.fn = "none" /\ srv'.pos = 0 BY <3>1 DEF Srv0
      <3> QED BY <2>1, <2>2, <2>3, <3>2
              DEF IInv, Safe, RequestOK, QueueOK, Checking, FlagOK, LockOK, Live, LockExclusion,
                  ServerHolds, VerdictOK
    <2>5. CASE srv.pos # 0
      <3> DEFINE max == IF srv.max > 0 THEN srv.max - 1 ELSE 0
                 pos == IF srv.max = 1 THEN Len(queue) ELSE 1
      <3>1. pos > 0 BY <1>0, <2>1
      <3>2. srv' = [srv EXCEPT !.pc = "scan", !.max = max, !.pos = pos, !.cur = 0]
        BY <1>11, <2>5 DEF end_wait
      <3> HIDE DEF max, pos
      <3>3. srv'.pc = "scan" /\ srv'.op = srv.op /\ srv'.fn = srv.fn /\ srv'.req = srv.req /\ srv'.pos = pos
        BY <1>0, <3>2 DEF Srv
      <3>4. srv.op # "none" BY <1>1, <2>5 DEF IInv, Safe, RequestOK
      <3> QED BY <1>2, <2>1, <2>2, <2>3, <3>1, <3>3, <3>4
              DEF IInv, Safe, RequestOK, QueueOK, Checking, FlagOK, LockOK, Live, LockExclusion,
                  ServerHolds, VerdictOK
    <2> QED BY <2>4, <2>5
  <1>12. CASE register_check
    <2>1. word' = word /\ queue' = queue /\ Holders' = Holders /\ srv' = Srv0
      BY <1>12 DEF register_check, client, Holders
    <2> QED BY <2>1, QuietSafe DEF SameFlags
  <1>13. CASE wait_all_consume
    <2>1. srv.pc = "guarded" /\ queue' = queue /\ Holders' = Holders
      BY <1>13 DEF wait_all_consume, Holders
    <2>2. SameFlags
      <3>1. word' = word \/ word' = Consumed(word, srv.req) BY <1>13 DEF wait_all_consume
      <3> QED BY <1>0, <3>1, ConsumedFlags DEF SameFlags
    <2>3. srv' = [srv EXCEPT !.pc = "unguard"] BY <1>13 DEF wait_all_consume
    <2>4. srv'.pc = "unguard" /\ srv'.op = srv.op /\ srv'.fn = srv.fn /\ srv'.req = srv.req /\ srv'.pos = srv.pos
      BY <1>0, <2>3 DEF Srv
    <2> QED BY <1>2, <2>1, <2>2, <2>4
            DEF SameFlags, IInv, Safe, RequestOK, QueueOK, Checking, FlagOK, LockOK, Live,
                LockExclusion, ServerHolds, VerdictOK
  <1>14. CASE wait_all_unguard
    <2>1. srv.pc = "unguard" /\ queue' = queue BY <1>14 DEF wait_all_unguard
    <2>2. word' = [word EXCEPT !.server = FALSE] BY <1>14 DEF wait_all_unguard
    <2>3. word'.type = word.type /\ word'.locked = word.locked BY <1>0, <2>2 DEF Word
    <2>4. Holders' \subseteq Holders /\ srv' = Srv0 BY <1>0, <1>14, ReplyHolders DEF wait_all_unguard, Reply
    <2>5. srv'.pc = "idle" /\ srv'.op = "none" /\ srv'.fn = "none" /\ srv'.pos = 0 BY <2>4 DEF Srv0
    <2> QED BY <2>1, <2>3, <2>4, <2>5
            DEF IInv, Safe, RequestOK, QueueOK, Checking, FlagOK, LockOK, Live, LockExclusion,
                ServerHolds, VerdictOK
  <1>15. CASE destroy_generation
    <2>1. queue' = queue /\ Holders' = Holders /\ srv' = Srv0
      BY <1>15 DEF destroy_generation, client, Holders
    <2> DEFINE g == word.generation + 1
    <2>2. word' = [word EXCEPT !.generation = g] BY <1>15 DEF destroy_generation
    <2> HIDE DEF g
    <2>3. SameFlags /\ word'.low = word.low BY <1>0, <2>2 DEF SameFlags, Word
    <2> QED BY <2>1, <2>3, QuietSafe
  <1> QED BY <1>4, <1>5, <1>6, <1>7, <1>8, <1>9, <1>10, <1>11, <1>12, <1>13, <1>14, <1>15 DEF ServerStep

-----------------------------------------------------------------------------
(* The invariant is inductive.                                             *)

(* A new object satisfies it.                                              *)
LEMMA InitIInv == Init => IInv
  <1> SUFFICES ASSUME Init PROVE IInv OBVIOUS
  <1>1. TypeOK
    <2>1. word \in Word BY InitAssumption, KindAssumption DEF Init, create_wfusync, Word
    <2>2. pc \in [Threads -> ClientPCs] BY DEF Init, ClientPCs
    <2>3. call \in [Threads -> Call \cup {NoCall}] BY DEF Init
    <2>4. loc \in [Threads -> Loc] BY Loc0Type DEF Init
    <2>5. left \in [Threads -> Nat] /\ cache_gen \in Nat /\ doomed \subseteq Threads
      BY BoundAssumption DEF Init
    <2>6. srv \in Srv BY Srv0Type DEF Init
    <2>7. queue \in Seq(Threads) BY DEF Init
    <2>8. /\ slot \in [MultiWaiters -> {0, 1}] /\ regs \subseteq MultiWaiters
          /\ reg_left \in [MultiWaiters -> Nat]
      BY BoundAssumption DEF Init
    <2> QED BY <2>1, <2>2, <2>3, <2>4, <2>5, <2>6, <2>7, <2>8 DEF TypeOK
  <1>2. Holders = {} BY DEF Init, Holders
  <1>3. srv.pc = "idle" /\ srv.op = "none" /\ srv.fn = "none" /\ srv.pos = 0 BY DEF Init, Srv0
  <1>4. queue = <<>> BY DEF Init
  <1> QED BY <1>1, <1>2, <1>3, <1>4
          DEF IInv, Safe, RequestOK, QueueOK, Checking, FlagOK, LockOK, Live, LockExclusion,
              ServerHolds, VerdictOK

(* Every step keeps it.                                                    *)
LEMMA NextIInv == IInv /\ [Next]_vars => IInv'
  <1> SUFFICES ASSUME IInv, [Next]_vars PROVE IInv' OBVIOUS
  <1>0. TypeOK /\ RequestOK /\ QueueOK BY DEF IInv, Safe
  <1>1. ASSUME NEW t \in Threads, ThreadStep(t) PROVE IInv'
    BY <1>0, <1>1, ThreadTypeOK, ThreadSafe DEF IInv
  <1>2. ASSUME NEW t \in Threads, ServerAccept(t) \/ thread_timeout(t) PROVE IInv'
    BY <1>0, <1>2, AcceptTypeOK, AcceptSafe DEF IInv
  <1>3. CASE Environment \/ \E t \in Threads : wait_timeout(t)
    BY <1>0, <1>3, EnvironmentTypeOK, EnvironmentSafe DEF IInv
  <1>4. CASE ServerStep
    BY <1>0, <1>4, ServerTypeStep, ServerSafe DEF IInv
  <1>5. CASE UNCHANGED vars
    <2>1. TypeOK' BY <1>0, <1>5 DEF TypeOK, vars, client, multis
    <2>2. Safe'
      <3>1. word' = word /\ queue' = queue /\ srv' = srv /\ Holders' = Holders
        BY <1>5 DEF vars, client, Holders
      <3> QED BY <3>1, QuietSafe DEF SameFlags
    <2> QED BY <2>1, <2>2 DEF IInv
  <1> QED BY <1>1, <1>2, <1>3, <1>4, <1>5 DEF Next

(* So it holds for ever.                                                   *)
LEMMA Inductive == Spec => []IInv
  BY InitIInv, NextIInv, PTL DEF Spec

(* The variables keep their types: in particular wake_up never looks       *)
(* behind the end of the wait queue, no request runs without a thread, and *)
(* the state word never leaves its representation.                         *)
THEOREM TypeCorrect == Spec => []TypeOK
  <1>1. IInv => TypeOK BY DEF IInv
  <1> QED BY <1>1, Inductive, PTL

(* Two threads, or a thread and wineserver, are never both inside a        *)
(* critical section of the word (wfusync_lock_state, lock_state,           *)
(* wfusync_try_wait_all), for any number of threads, any calls, kills at   *)
(* any moment, and handles closed under running calls.                     *)
THEOREM WordExclusive == Spec => []LockExclusion
  <1>1. IInv => LockExclusion BY DEF IInv, Safe
  <1> QED BY <1>1, Inductive, PTL

(* Whatever check_wait finds signaled, end_wait still finds signaled when  *)
(* it consumes it under its second lock (server/wfusync.c,                 *)
(* wfusync_*_satisfied).                                                   *)
THEOREM VerdictHolds == Spec => []SatisfiedStillSignaled
  <1>1. IInv => SatisfiedStillSignaled BY DEF IInv, Safe, VerdictOK, SatisfiedStillSignaled
  <1> QED BY <1>1, Inductive, PTL

-----------------------------------------------------------------------------
(* Wakes: the inductive invariant, on top of IInv.                         *)

(* Queued threads wait to be released, each in one place of the queue, and *)
(* are not marked for SIGQUIT.                                             *)
QueuedOK ==
  /\ \A i \in 1..Len(queue) : pc[queue[i]] = "queued"
  /\ \A i, j \in 1..Len(queue) : queue[i] = queue[j] => i = j
  /\ \A t \in doomed : pc[t] # "queued"

(* So does the one being checked, and the thread whose request runs stays  *)
(* in it, unless that request is its termination by somebody else.         *)
ServedOK ==
  /\ Checking => srv.cur \in Threads /\ pc[srv.cur] = "queued"
  /\ srv.op # "none" \/ srv.pc \in {"guarded", "unguard"} =>
       \/ pc[srv.req] = "request" /\ srv.req \notin doomed
       \/ srv.op = "abandon" /\ srv.req \in doomed

(* What the request runs is part of what it was started for.               *)
OpOK ==
  /\ srv.fn \in {"signal", "reset", "abandon"} => srv.op = srv.fn
  /\ srv.pc \in {"wakeaddr", "wakemulti"} => srv.op \in {"signal", "abandon"}
  /\ srv.op # "none" /\ Checking => srv.pos > 0
  /\ srv.op = "reset" => Event
  /\ srv.op \in {"none", "signal", "reset", "abandon"}
  /\ srv.pc \in {"idle", "regcheck", "destroyed", "guarded", "unguard"} =>
       srv.op = "none" /\ srv.fn = "none"

(* A thread owes a wake from its change of the word until it has looked    *)
(* for multi-waiters; one that owes it has released the object itself.     *)
FastPCs == {"check", "lock", "body", "write", "unlock", "refresh", "loop", "owner", "sleep", "asleep",
            "wake", "multi", "notify"}
OwesAt(t) ==
  /\ loc[t].wakes => pc[t] \in {"unlock", "wake", "multi", "notify", "dead"}
  /\ loc[t].wakes => call[t] \in CallsOf[t] /\ call[t].what = "signal" /\ call[t].fast
  /\ pc[t] = "unlock" /\ loc[t].wakes => loc[t].ret = "success"
  /\ pc[t] \in FastPCs => call[t] \in CallsOf[t] /\ call[t].fast
  /\ pc[t] = "write" => call[t].what \in {"signal", "reset"}
  /\ pc[t] = "dead" /\ loc[t].wakes => t \in Killable
  /\ pc[t] = "owner" => Mutex
  /\ ~Mutex => loc[t].expect = 0
  /\ call[t].what \in {"reset", "pulse"} => Event
OwesOK == \A t \in Threads : OwesAt(t)

(* MULTI_WAITERS is up while a multi-waiter is registered, and a count is  *)
(* never negative.                                                         *)
MultiOK == /\ Live /\ regs # {} => word.multi
           /\ ~Mutex => word.low >= 0

(* wineserver has released or abandoned the object and has yet to wake the *)
(* slots.                                                                  *)
Notifies ==
  \/ srv.pc = "unlock" /\ srv.fn \in {"signal", "abandon"} /\ srv.wakes
  \/ srv.pc \in {"wakeaddr", "wakemulti"}
  \/ ~Event /\ srv.op \in {"signal", "abandon"} /\ (Checking \/ srv.pc = "scan")
SlotsOK ==
  \A m \in regs : slot[m] = 1 /\ StateSignaled(word) /\ Live =>
    Notifies \/ (\E t \in Threads : loc[t].wakes) \/ (srv.pc = "regcheck" /\ srv.m = m)

(* Somebody has set the event and has yet to wake its sleepers, or was     *)
(* killed before he could.                                                 *)
ServerWakes == \/ srv.pc = "unlock" /\ srv.fn \in {"signal", "abandon"} /\ srv.wakes
               \/ srv.pc = "wakeaddr"
Wakes == \/ ServerWakes
         \/ \E t \in Threads : loc[t].wakes /\ pc[t] \in {"unlock", "wake", "dead"}
SleepersOK == Kind = "manual" /\ Live /\ word.low # 0 /\ Asleep # {} => Wakes

(* Only threads that may be terminated are.                                *)
KilledOK == doomed \subseteq Killable

WInv == QueuedOK /\ ServedOK /\ OpOK /\ OwesOK /\ MultiOK /\ SlotsOK /\ SleepersOK

-----------------------------------------------------------------------------
(* What a step does to one thread, and to no other.                        *)
Alone(t) == \A u \in Threads \ {t} : pc'[u] = pc[u] /\ call'[u] = call[u] /\ loc'[u] = loc[u]

(* A thread that only moves.                                               *)
LEMMA GotoAlone ==
  ASSUME TypeOK, NEW t \in Threads, NEW where, Goto(t, where), UNCHANGED <<call, loc>>
  PROVE  Alone(t) /\ pc'[t] = where
  BY DEF TypeOK, Goto, Alone

(* A call that returns.                                                    *)
LEMMA ReturnAlone ==
  ASSUME TypeOK, NEW t \in Threads, Return(t)
  PROVE  Alone(t) /\ pc'[t] = "idle" /\ call'[t] = NoCall /\ loc'[t] = Loc0
  BY DEF TypeOK, Return, Goto, Alone

(* A call that goes to wineserver, or tries the fast path again.           *)
LEMMA FallbackAlone ==
  ASSUME TypeOK, NEW t \in Threads, Fallback(t)
  PROVE  /\ Alone(t) /\ pc'[t] \in {"check", "request"} /\ call'[t] = call[t]
         /\ loc'[t] = Loc0 \/ loc'[t] = [Loc0 EXCEPT !.try = 2]
  BY DEF TypeOK, Fallback, Goto, Alone

(* A result is noted.                                                      *)
LEMMA SetRetAlone ==
  ASSUME TypeOK, NEW t \in Threads, NEW r, SetRet(t, r)
  PROVE  /\ \A u \in Threads \ {t} : loc'[u] = loc[u]
         /\ loc'[t].ret = r /\ loc'[t].wakes = loc[t].wakes /\ loc'[t].expect = loc[t].expect
  BY DEF TypeOK, SetRet, Loc

(* Fresh locals owe nothing and expect nothing.                            *)
LEMMA FreshLocals ==
  ASSUME NEW l, l = Loc0 \/ l = [Loc0 EXCEPT !.try = 2] PROVE ~l.wakes /\ l.expect = 0
  BY DEF Loc0

-----------------------------------------------------------------------------
(* What the operations do to the low half of the word.                     *)

(* The flags other than those of the critical section.                     *)
SameObject == word'.type = word.type /\ word'.multi = word.multi

(* A satisfied wait signals nothing.                                       *)
LEMMA ConsumedLow ==
  ASSUME NEW w \in Word, NEW t \in Threads, Signaled(w, t), ~Mutex => w.low >= 0
  PROVE  LET v == Consumed(w, t)
         IN  /\ v.type = w.type /\ v.multi = w.multi
             /\ StateSignaled(v) => StateSignaled(w)
             /\ ~Mutex => v.low >= 0
             /\ Kind = "manual" => v.low = w.low
  <1> DEFINE v == Consumed(w, t)
  <1>0. w.low \in Int /\ t \in Nat \ {0} BY ThreadsAssumption DEF Word
  <1>1. CASE Kind = "auto"
    <2>1. v = [w EXCEPT !.low = 0] BY <1>1 DEF Consumed
    <2>2. v.type = w.type /\ v.multi = w.multi /\ v.low = 0 BY <2>1 DEF Word
    <2> QED BY <1>1, <2>2 DEF StateSignaled, Mutex
  <1>2. CASE Kind = "manual"
    <2>1. v = w BY <1>2 DEF Consumed
    <2> QED BY <2>1
  <1>3. CASE Kind = "semaphore"
    <2>1. v = [w EXCEPT !.low = w.low - 1] BY <1>3 DEF Consumed
    <2>2. v.type = w.type /\ v.multi = w.multi /\ v.low = w.low - 1 BY <2>1 DEF Word
    <2>3. w.low > 0 BY <1>3 DEF Signaled, Mutex
    <2> QED BY <1>0, <1>3, <2>2, <2>3 DEF StateSignaled, Mutex
  <1>4. CASE Kind = "mutex" /\ w.low = t
    <2>1. v = [w EXCEPT !.high = Inc(w.high)] BY <1>4 DEF Consumed
    <2>2. v.type = w.type /\ v.multi = w.multi /\ v.low = w.low BY <2>1 DEF Word
    <2> QED BY <1>4, <2>2 DEF StateSignaled, Mutex
  <1>5. CASE Kind = "mutex" /\ w.low # t
    <2> DEFINE g == IF w.low < 0 THEN w.generation + 1 ELSE w.generation
    <2>1. v = [w EXCEPT !.low = t, !.high = 1, !.generation = g] BY <1>5 DEF Consumed
    <2> HIDE DEF g
    <2>2. v.type = w.type /\ v.multi = w.multi /\ v.low = t BY <2>1 DEF Word
    <2> QED BY <1>0, <1>5, <2>2 DEF StateSignaled, Mutex
  <1> QED BY <1>1, <1>2, <1>3, <1>4, <1>5, KindAssumption

(* A release that signals an object wakes its sleepers.                    *)
LEMMA ReleasedLow ==
  ASSUME NEW w \in Word, NEW t \in Threads, NEW n \in Nat, ~ReleaseRefused(w, t, n), ~Mutex => w.low >= 0
  PROVE  LET v == Released(w, n)
         IN  /\ v.type = w.type /\ v.multi = w.multi
             /\ StateSignaled(v) => StateSignaled(w) \/ ReleaseWakes(w)
             /\ ~Mutex => v.low >= 0
             /\ Kind = "manual" => w.low # 0 \/ ReleaseWakes(w)
  <1> DEFINE v == Released(w, n)
  <1>0. w.low \in Int /\ w.high \in Int /\ t \in Nat \ {0} BY ThreadsAssumption DEF Word
  <1>1. CASE Event
    <2>1. v = [w EXCEPT !.low = 1] BY <1>1 DEF Released, Event, Semaphore, Mutex
    <2>2. v.type = w.type /\ v.multi = w.multi /\ v.low = 1 BY <2>1 DEF Word
    <2>3. w.low > 0 \/ w.low = 0 BY <1>0, <1>1 DEF Event, Mutex
    <2> QED BY <1>1, <2>2, <2>3 DEF StateSignaled, ReleaseWakes, Mutex, Event
  <1>2. CASE Semaphore
    <2>1. v = [w EXCEPT !.low = Sum(w, n)] BY <1>2 DEF Released, Event, Semaphore, Mutex
    <2>2. v.type = w.type /\ v.multi = w.multi /\ v.low = Sum(w, n) BY <2>1 DEF Word
    <2>3. Sum(w, n) >= 0 BY <1>0, WidthAssumption DEF Sum
    <2>4. w.low > 0 \/ w.low = 0 BY <1>0, <1>2 DEF Semaphore, Mutex
    <2> QED BY <1>2, <2>2, <2>3, <2>4 DEF StateSignaled, ReleaseWakes, Mutex, Semaphore
  <1>3. CASE Mutex /\ w.high > 1
    <2>1. v = [w EXCEPT !.high = w.high - 1] BY <1>3 DEF Released, Event, Semaphore, Mutex
    <2>2. v.type = w.type /\ v.multi = w.multi /\ v.low = w.low BY <2>1 DEF Word
    <2> QED BY <1>3, <2>2 DEF StateSignaled, Mutex
  <1>4. CASE Mutex /\ ~(w.high > 1)
    <2>1. v = [w EXCEPT !.low = 0, !.high = 0] BY <1>4 DEF Released, Event, Semaphore, Mutex
    <2>2. v.type = w.type /\ v.multi = w.multi BY <2>1 DEF Word
    <2>3. ReleaseWakes(w) BY <1>0, <1>4 DEF ReleaseWakes
    <2> QED BY <1>4, <2>2, <2>3 DEF Mutex
  <1> QED BY <1>1, <1>2, <1>3, <1>4, KindAssumption DEF Event, Semaphore, Mutex

(* What a state is asked for no thread depends on the low half.            *)
LEMMA StateSignaledLow ==
  ASSUME NEW w, NEW v, v.low = w.low PROVE StateSignaled(v) <=> StateSignaled(w)
  <1>1. CASE Mutex BY <1>1 DEF StateSignaled
  <1>2. CASE ~Mutex BY <1>2 DEF StateSignaled
  <1> QED BY <1>1, <1>2

-----------------------------------------------------------------------------
(* How the kinds of step keep the invariant.                               *)

(* One thread moves on and does what the others may rely on: it changes    *)
(* the word for the better only if it owes the wake from now on, and stops *)
(* owing it only if nobody is registered.                                  *)
LEMMA ThreadMove ==
  ASSUME IInv, WInv, NEW t \in Threads, Alone(t),
         UNCHANGED <<srv, queue, doomed, regs>>, \A m \in regs : slot'[m] = 1 => slot[m] = 1,
         pc[t] # "queued", pc[t] = "request" => t \in doomed, pc'[t] # "queued", OwesAt(t)',
         SameObject, ~Mutex => word'.low >= 0,
         StateSignaled(word') => StateSignaled(word) \/ loc'[t].wakes,
         loc[t].wakes => loc'[t].wakes \/ ~(Live /\ \E m \in regs : slot'[m] = 1),
         Kind = "manual" =>
           /\ word'.low # 0 => word.low # 0 \/ (loc'[t].wakes /\ pc'[t] = "unlock")
           /\ pc'[t] = "asleep" => word'.low = 0
           /\ loc[t].wakes /\ pc[t] \in {"unlock", "wake", "dead"} =>
                loc'[t].wakes /\ pc'[t] \in {"unlock", "wake", "dead"}
  PROVE  WInv'
  <1>0. TypeOK /\ queue \in Seq(Threads) /\ srv \in Srv BY DEF IInv, TypeOK
  <1>1. QueuedOK'
    <2>1. ASSUME NEW i \in 1..Len(queue) PROVE pc'[queue[i]] = "queued"
      <3>1. queue[i] \in Threads /\ pc[queue[i]] = "queued" BY <1>0 DEF WInv, QueuedOK
      <3> QED BY <3>1 DEF Alone
    <2>2. ASSUME NEW u \in doomed PROVE pc'[u] # "queued"
      <3>1. u \in Threads /\ pc[u] # "queued" BY <1>0 DEF TypeOK, WInv, QueuedOK
      <3> QED BY <3>1 DEF Alone
    <2> QED BY <2>1, <2>2 DEF WInv, QueuedOK
  <1>2. ServedOK'
    <2>1. Checking => srv.cur \in Threads /\ pc'[srv.cur] = "queued"
      BY DEF WInv, ServedOK, Alone
    <2>2. ASSUME srv.op # "none" \/ srv.pc \in {"guarded", "unguard"}
          PROVE  \/ pc'[srv.req] = "request" /\ srv.req \notin doomed
                 \/ srv.op = "abandon" /\ srv.req \in doomed
      <3>1. srv.req \in Threads BY <2>2 DEF IInv, Safe, RequestOK
      <3> QED BY <2>2, <3>1 DEF WInv, ServedOK, Alone
    <2> QED BY <2>1, <2>2 DEF ServedOK, Checking
  <1>3. OpOK' BY DEF WInv, OpOK, Checking
  <1>4. OwesOK'
    <2>1. ASSUME NEW u \in Threads, u # t PROVE OwesAt(u)'
      <3>1. OwesAt(u) BY DEF WInv, OwesOK
      <3>2. pc'[u] = pc[u] /\ call'[u] = call[u] /\ loc'[u] = loc[u] BY <2>1 DEF Alone
      <3> QED BY <3>1, <3>2 DEF OwesAt
    <2> QED BY <2>1 DEF OwesOK
  <1>5. MultiOK' BY DEF WInv, MultiOK, SameObject, Live
  <1>6. SlotsOK'
    <2> SUFFICES ASSUME NEW m \in regs, slot'[m] = 1, StateSignaled(word'), Live', ~Notifies,
                        ~(srv.pc = "regcheck" /\ srv.m = m)
                 PROVE  \E u \in Threads : loc'[u].wakes
      BY DEF SlotsOK, Notifies, Checking
    <2>1. Live /\ slot[m] = 1 BY DEF SameObject, Live
    <2>2. CASE StateSignaled(word)
      <3>1. PICK u \in Threads : loc[u].wakes BY <2>1, <2>2 DEF WInv, SlotsOK
      <3> QED BY <2>1, <3>1 DEF Alone
    <2>3. CASE loc'[t].wakes BY <2>3
    <2> QED BY <2>2, <2>3
  <1>7. SleepersOK'
    <2> SUFFICES ASSUME Kind = "manual", Live', word'.low # 0, Asleep' # {} PROVE Wakes'
      BY DEF SleepersOK
    <2>1. Live BY DEF SameObject, Live
    <2>2. CASE word.low # 0
      <3>1. Asleep # {} BY DEF Asleep, Alone
      <3>2. Wakes BY <2>1, <2>2, <3>1 DEF WInv, SleepersOK
      <3>3. CASE \E u \in Threads : loc[u].wakes /\ pc[u] \in {"unlock", "wake", "dead"}
        <4>1. PICK u \in Threads : loc[u].wakes /\ pc[u] \in {"unlock", "wake", "dead"} BY <3>3
        <4>2. loc'[u].wakes /\ pc'[u] \in {"unlock", "wake", "dead"} BY <4>1 DEF Alone
        <4> QED BY <4>2 DEF Wakes
      <3> QED BY <3>2, <3>3 DEF Wakes, ServerWakes
    <2>3. CASE loc'[t].wakes /\ pc'[t] = "unlock" BY <2>3 DEF Wakes
    <2> QED BY <2>2, <2>3
  <1> QED BY <1>1, <1>2, <1>3, <1>4, <1>5, <1>6, <1>7 DEF WInv

(* The flags that multi-waiters and sleepers look at stay.                 *)
SameLow == SameObject /\ word'.low = word.low
Others == UNCHANGED <<srv, queue, doomed, slot, regs>>

(* A thread that owes nothing leaves the fast path.                        *)
LEMMA LeaveMove ==
  ASSUME IInv, WInv, NEW t \in Threads, Others, SameLow, pc[t] \in FastPCs,
         Return(t) \/ Fallback(t),
         loc[t].wakes => ~(Live /\ regs # {}) /\ pc[t] \notin {"unlock", "wake"}
  PROVE  WInv'
  <1>0. TypeOK /\ OwesAt(t) BY DEF IInv, WInv, OwesOK
  <1>1. /\ Alone(t) /\ pc'[t] \in {"idle", "check", "request"}
        /\ (call'[t] = NoCall /\ pc'[t] = "idle") \/ call'[t] = call[t]
        /\ loc'[t] = Loc0 \/ loc'[t] = [Loc0 EXCEPT !.try = 2]
    BY <1>0, ReturnAlone, FallbackAlone
  <1>2. ~loc'[t].wakes /\ loc'[t].expect = 0 BY <1>1, FreshLocals
  <1>3. OwesAt(t)'
    <2>1. NoCall.what = "none" BY DEF NoCall
    <2> QED BY <1>0, <1>1, <1>2, <2>1 DEF OwesAt, FastPCs
  <1>4. (StateSignaled(word') <=> StateSignaled(word)) /\ (~Mutex => word'.low >= 0)
    BY StateSignaledLow DEF SameLow, WInv, MultiOK
  <1>5. pc[t] \notin {"queued", "request", "dead"} BY DEF FastPCs
  <1> QED BY <1>1, <1>2, <1>3, <1>4, <1>5, ThreadMove DEF SameLow, Others

(* A thread goes on in the fast path.                                      *)
LEMMA FastMove ==
  ASSUME IInv, WInv, NEW t \in Threads, Others, SameLow, pc[t] \in FastPCs, UNCHANGED call,
         NEW where, Goto(t, where), where \in FastPCs,
         where \in {"write", "owner"} => pc[t] = where \/ OwesAt(t)',
         \A u \in Threads \ {t} : loc'[u] = loc[u],
         loc'[t].wakes = loc[t].wakes, ~Mutex => loc'[t].expect = loc[t].expect,
         loc[t].wakes => where \in {"wake", "multi", "notify"},
         loc[t].wakes /\ pc[t] \in {"unlock", "wake"} => where = "wake",
         where = "asleep" /\ Kind = "manual" => word.low = 0
  PROVE  WInv'
  <1>0. TypeOK /\ OwesAt(t) BY DEF IInv, WInv, OwesOK
  <1>1. Alone(t) /\ pc'[t] = where
    BY <1>0 DEF TypeOK, Goto, Alone
  <1>2. OwesAt(t)'
    BY <1>0, <1>1 DEF OwesAt, FastPCs
  <1>4. (StateSignaled(word') <=> StateSignaled(word)) /\ (~Mutex => word'.low >= 0)
    BY StateSignaledLow DEF SameLow, WInv, MultiOK
  <1>5. pc[t] \notin {"queued", "request", "dead"} /\ where # "queued" BY DEF FastPCs
  <1> QED BY <1>1, <1>2, <1>4, <1>5, ThreadMove DEF SameLow, Others

(* LOCKED goes up or down.                                                 *)
LEMMA LockedLow ==
  ASSUME TypeOK, NEW b, word' = [word EXCEPT !.locked = b] PROVE SameLow
  BY DEF TypeOK, Word, SameLow, SameObject

-----------------------------------------------------------------------------
(* A release under the lock: the thread owes the wake if the word was not  *)
(* signaled before.                                                        *)
LEMMA SignalWake == ASSUME IInv, WInv, NEW t \in Threads, signal(t) PROVE WInv'
  <1>0. /\ TypeOK /\ word \in Word /\ word.low \in Int /\ loc[t] \in Loc /\ call[t].n \in Nat /\ OwesAt(t)
        /\ ~Mutex => word.low >= 0
    BY CallType DEF IInv, TypeOK, WInv, OwesOK, MultiOK, Word
  <1>1. /\ pc[t] = "write" /\ pc' = [pc EXCEPT ![t] = "unlock"] /\ call' = call
        /\ UNCHANGED <<srv, queue, doomed, slot, regs>>
    BY DEF signal, Goto, ClientOnly, multis
  <1>2. call[t] \in CallsOf[t] /\ call[t].fast /\ call[t].what \in {"signal", "reset"} /\ ~loc[t].wakes
    BY <1>0, <1>1 DEF OwesAt, FastPCs
  <1>3. pc'[t] = "unlock" /\ \A u \in Threads \ {t} : pc'[u] = pc[u] BY <1>0, <1>1 DEF TypeOK
  <1>4. CASE call[t].what = "reset" /\ word' = [word EXCEPT !.low = 0] /\ SetRet(t, "success")
    <2>1. word'.type = word.type /\ word'.multi = word.multi /\ word'.low = 0 BY <1>0, <1>4 DEF Word
    <2>2. Alone(t) /\ loc'[t].wakes = loc[t].wakes /\ loc'[t].expect = loc[t].expect
      BY <1>0, <1>1, <1>3, <1>4, SetRetAlone DEF Alone
    <2>3. ~Mutex BY <1>0, <1>4 DEF OwesAt, Event, Mutex
    <2>4. ~StateSignaled(word') BY <2>1, <2>3 DEF StateSignaled
    <2>5. OwesAt(t)' BY <1>0, <1>1, <1>2, <1>3, <2>2 DEF OwesAt, FastPCs
    <2> QED BY <1>1, <1>2, <1>3, <2>1, <2>2, <2>3, <2>4, <2>5, ThreadMove DEF SameObject
  <1>5. CASE SetRet(t, "error") /\ word' = word
    <2>2. Alone(t) /\ loc'[t].wakes = loc[t].wakes /\ loc'[t].expect = loc[t].expect
      BY <1>0, <1>1, <1>3, <1>5, SetRetAlone DEF Alone
    <2>5. OwesAt(t)' BY <1>0, <1>1, <1>2, <1>3, <2>2 DEF OwesAt, FastPCs
    <2> QED BY <1>0, <1>1, <1>2, <1>3, <1>5, <2>2, <2>5, ThreadMove DEF SameObject
  <1>6. CASE /\ call[t].what # "reset" /\ ~ReleaseRefused(word, t, call[t].n)
             /\ word' = Released(word, call[t].n)
             /\ loc' = [loc EXCEPT ![t].ret = "success", ![t].wakes = ReleaseWakes(word)]
    <2> DEFINE rw == ReleaseWakes(word)
    <2>0. loc' = [loc EXCEPT ![t].ret = "success", ![t].wakes = rw] BY <1>6
    <2>1. /\ word'.type = word.type /\ word'.multi = word.multi
          /\ StateSignaled(word') => StateSignaled(word) \/ rw
          /\ ~Mutex => word'.low >= 0
          /\ Kind = "manual" => word.low # 0 \/ rw
      BY <1>0, <1>6, ReleasedLow
    <2> HIDE DEF rw
    <2>2. /\ \A u \in Threads \ {t} : loc'[u] = loc[u]
          /\ loc'[t].wakes = rw /\ loc'[t].ret = "success" /\ loc'[t].expect = loc[t].expect
      BY <1>0, <2>0 DEF TypeOK, Loc
    <2>3. Alone(t) BY <1>1, <1>3, <2>2 DEF Alone
    <2>5. OwesAt(t)' BY <1>0, <1>1, <1>2, <1>3, <1>6, <2>2 DEF OwesAt, FastPCs
    <2> QED BY <1>1, <1>2, <1>3, <2>1, <2>2, <2>3, <2>5, ThreadMove DEF SameObject
  <1> QED BY <1>4, <1>5, <1>6 DEF signal

(* A wait that takes the object, or finds it unsignaled.                   *)
LEMMA ConsumeWake == ASSUME IInv, WInv, NEW t \in Threads, consume(t) PROVE WInv'
  <1>0. /\ TypeOK /\ word \in Word /\ OwesAt(t) /\ (~Mutex => word.low >= 0)
    BY DEF IInv, TypeOK, WInv, OwesOK, MultiOK
  <1>1. /\ pc[t] = "body" /\ pc' = [pc EXCEPT ![t] = "unlock"] /\ call' = call
        /\ UNCHANGED <<srv, queue, doomed, slot, regs>>
    BY DEF consume, Goto, ClientOnly, multis
  <1>2. call[t] \in CallsOf[t] /\ call[t].fast /\ ~loc[t].wakes BY <1>0, <1>1 DEF OwesAt, FastPCs
  <1>3. pc'[t] = "unlock" /\ \A u \in Threads \ {t} : pc'[u] = pc[u] BY <1>0, <1>1 DEF TypeOK
  <1>4. \E r : SetRet(t, r) BY DEF consume
  <1>5. Alone(t) /\ loc'[t].wakes = loc[t].wakes /\ loc'[t].expect = loc[t].expect
    BY <1>0, <1>1, <1>3, <1>4, SetRetAlone DEF Alone
  <1>6. word' = word \/ (Signaled(word, t) /\ word' = Consumed(word, t)) BY DEF consume
  <1>7. /\ word'.type = word.type /\ word'.multi = word.multi
        /\ StateSignaled(word') => StateSignaled(word)
        /\ ~Mutex => word'.low >= 0
        /\ Kind = "manual" => word'.low = word.low
    BY <1>0, <1>6, ConsumedLow
  <1>8. OwesAt(t)' BY <1>0, <1>1, <1>2, <1>3, <1>5 DEF OwesAt, FastPCs
  <1> QED BY <1>1, <1>2, <1>3, <1>5, <1>7, <1>8, ThreadMove DEF SameObject

(* The caller after the unlock: who owes a wake goes on to make it.        *)
LEMMA UnlockWake == ASSUME IInv, WInv, NEW t \in Threads, unlock_state(t) PROVE WInv'
  <1>0. TypeOK /\ OwesAt(t) BY DEF IInv, WInv, OwesOK
  <1>1. /\ pc[t] = "unlock" /\ word' = [word EXCEPT !.locked = FALSE] /\ AfterUnlock(t)
        /\ Others
    BY DEF unlock_state, ClientOnly, multis, Others
  <1>2. SameLow BY <1>0, <1>1, LockedLow
  <1>3. loc[t].wakes => loc[t].ret = "success" BY <1>0, <1>1 DEF OwesAt
  <1>4. CASE loc[t].wakes
    <2>1. Goto(t, "wake") /\ UNCHANGED <<call, loc>> BY <1>1, <1>3, <1>4 DEF AfterUnlock
    <2> QED BY <1>1, <1>2, <1>4, <2>1, FastMove DEF FastPCs
  <1>5. CASE ~loc[t].wakes
    <2>1. \/ Return(t) \/ Fallback(t)
          \/ \E where \in {"refresh", "sleep", "loop"} : Goto(t, where) /\ UNCHANGED <<call, loc>>
          \/ Mutex /\ Goto(t, "owner") /\ UNCHANGED <<call, loc>>
      BY <1>1, <1>5 DEF AfterUnlock
    <2>2. CASE Return(t) \/ Fallback(t) BY <1>1, <1>2, <1>5, <2>2, LeaveMove DEF FastPCs
    <2>3. ASSUME NEW where \in {"refresh", "sleep", "loop"}, Goto(t, where), UNCHANGED <<call, loc>>
          PROVE  WInv'
      BY <1>1, <1>2, <1>5, <2>3, FastMove DEF FastPCs
    <2>4. CASE Mutex /\ Goto(t, "owner") /\ UNCHANGED <<call, loc>>
      <3>1. pc'[t] = "owner" BY <1>0, <2>4 DEF TypeOK, Goto
      <3>2. OwesAt(t)' BY <1>0, <1>1, <1>5, <2>4, <3>1 DEF OwesAt, FastPCs
      <3> QED BY <1>1, <1>2, <1>5, <2>4, <3>2, FastMove DEF FastPCs
    <2> QED BY <2>1, <2>2, <2>3, <2>4
  <1> QED BY <1>4, <1>5

(* A wake moves sleepers to the top of their loops, all of them if it is   *)
(* meant for all.                                                          *)
LEMMA WokenMove ==
  ASSUME TypeOK, NEW all, NEW t, NEW where, where = pc \/ where = [pc EXCEPT ![t] = "multi"],
         WakeAddress(all, where)
  PROVE  /\ \A u \in Threads : pc'[u] = where[u] \/ (pc[u] = "asleep" /\ pc'[u] = "loop")
         /\ all => Asleep' = {}
  <1>1. PICK woken \in SUBSET Asleep :
          /\ all => woken = Asleep
          /\ pc' = [u \in Threads |-> IF u \in woken THEN "loop" ELSE where[u]]
    BY DEF WakeAddress
  <1>2. \A u \in Threads : pc'[u] = where[u] \/ (pc[u] = "asleep" /\ pc'[u] = "loop")
    BY <1>1 DEF Asleep
  <1>3. ASSUME all PROVE Asleep' = {}
    <2>1. ASSUME NEW u \in Threads PROVE pc'[u] # "asleep"
      <3>1. CASE u \in Asleep BY <1>1, <1>3, <3>1
      <3>2. CASE u \notin Asleep BY <1>1, <1>3, <3>2 DEF Asleep, TypeOK
      <3> QED BY <3>1, <3>2
    <2> QED BY <2>1 DEF Asleep
  <1> QED BY <1>2, <1>3

(* Threads are woken, and one that woke them goes on: what is said of the  *)
(* queue and of each thread stays true.                                    *)
LEMMA WokenThreads ==
  ASSUME IInv, WInv, NEW t \in Threads, UNCHANGED <<call, loc, queue, doomed>>,
         \A u \in Threads : \/ pc'[u] = pc[u] \/ (pc[u] = "asleep" /\ pc'[u] = "loop")
                            \/ u = t /\ pc[u] = "wake" /\ pc'[u] = "multi"
  PROVE  QueuedOK' /\ OwesOK'
  <1>0. TypeOK /\ queue \in Seq(Threads) BY DEF IInv, TypeOK
  <1>1. QueuedOK'
    <2>1. ASSUME NEW i \in 1..Len(queue) PROVE pc'[queue[i]] = "queued"
      <3>1. queue[i] \in Threads /\ pc[queue[i]] = "queued" BY <1>0 DEF WInv, QueuedOK
      <3> QED BY <3>1
    <2>2. ASSUME NEW u \in doomed PROVE pc'[u] # "queued"
      <3>1. u \in Threads /\ pc[u] # "queued" BY <1>0 DEF TypeOK, WInv, QueuedOK
      <3> QED BY <3>1
    <2> QED BY <2>1, <2>2 DEF WInv, QueuedOK
  <1>2. ASSUME NEW u \in Threads PROVE OwesAt(u)'
    <2>1. OwesAt(u) BY DEF WInv, OwesOK
    <2>2. call'[u] = call[u] /\ loc'[u] = loc[u] OBVIOUS
    <2> QED BY <2>1, <2>2 DEF OwesAt, FastPCs
  <1> QED BY <1>1, <1>2 DEF OwesOK

(* wfusync_wake_address after a release.                                   *)
LEMMA AddressWake == ASSUME IInv, WInv, NEW t \in Threads, wake_address(t) PROVE WInv'
  <1>0. TypeOK /\ OwesAt(t) BY DEF IInv, WInv, OwesOK
  <1> DEFINE where == [pc EXCEPT ![t] = "multi"]
             all == WakesAll(call[t].n)
  <1>1. /\ pc[t] = "wake" /\ WakeAddress(all, where) /\ UNCHANGED <<word, call, loc>>
        /\ UNCHANGED <<srv, queue, doomed, slot, regs>>
    BY DEF wake_address, ClientOnly, multis
  <1>2. /\ \A u \in Threads : pc'[u] = where[u] \/ (pc[u] = "asleep" /\ pc'[u] = "loop")
        /\ all => Asleep' = {}
    <2> HIDE DEF all
    <2> QED BY <1>0, <1>1, WokenMove
  <1>3. \A u \in Threads : \/ pc'[u] = pc[u] \/ (pc[u] = "asleep" /\ pc'[u] = "loop")
                           \/ u = t /\ pc[u] = "wake" /\ pc'[u] = "multi"
    BY <1>0, <1>1, <1>2 DEF TypeOK
  <1>4. QueuedOK' /\ OwesOK' BY <1>1, <1>3, WokenThreads
  <1>5. ServedOK'
    <2>1. Checking => srv.cur \in Threads /\ pc'[srv.cur] = "queued" BY <1>3 DEF WInv, ServedOK
    <2>2. ASSUME srv.op # "none" \/ srv.pc \in {"guarded", "unguard"}
          PROVE  \/ pc'[srv.req] = "request" /\ srv.req \notin doomed
                 \/ srv.op = "abandon" /\ srv.req \in doomed
      <3>1. srv.req \in Threads BY <2>2 DEF IInv, Safe, RequestOK
      <3> QED BY <1>3, <2>2, <3>1 DEF WInv, ServedOK
    <2> QED BY <1>1, <2>1, <2>2 DEF ServedOK, Checking
  <1>6. OpOK' /\ MultiOK' /\ SlotsOK'
    BY <1>1 DEF WInv, OpOK, Checking, MultiOK, Live, SlotsOK, Notifies
  <1>7. SleepersOK'
    <2>1. Kind = "manual" => all BY DEF WakesAll
    <2> QED BY <1>2, <2>1 DEF SleepersOK
  <1> QED BY <1>4, <1>5, <1>6, <1>7 DEF WInv

(* Every step of a thread keeps the invariant.                             *)
LEMMA ThreadWake == ASSUME IInv, WInv, NEW t \in Threads, ThreadStep(t) PROVE WInv'
  <1>0. TypeOK /\ OwesAt(t) /\ loc[t] \in Loc BY DEF IInv, WInv, OwesOK, TypeOK
  <1>1. ASSUME word' = word PROVE SameLow BY <1>1 DEF SameLow, SameObject
  <1>2. ClientOnly => Others BY DEF ClientOnly, Others, multis
  <1>3. CASE check(t)
    <2>0. Others /\ SameLow /\ pc[t] = "check" /\ ~loc[t].wakes
      BY <1>0, <1>1, <1>2, <1>3 DEF check, OwesAt
    <2>1. CASE Fallback(t) BY <2>0, <2>1, LeaveMove DEF FastPCs
    <2>2. CASE Goto(t, "lock") /\ loc' = [loc EXCEPT ![t].gen = cache_gen] /\ UNCHANGED call
      <3>1. /\ \A u \in Threads \ {t} : loc'[u] = loc[u]
            /\ loc'[t].wakes = loc[t].wakes /\ loc'[t].expect = loc[t].expect
        BY <1>0, <2>2 DEF TypeOK, Loc
      <3> QED BY <2>0, <2>2, <3>1, FastMove DEF FastPCs
    <2> QED BY <1>3, <2>1, <2>2 DEF check
  <1>4. CASE lock_state(t)
    <2>1. word' = [word EXCEPT !.locked = TRUE] /\ Goto(t, "body") /\ UNCHANGED <<call, loc>> /\ pc[t] = "lock"
      BY <1>4 DEF lock_state
    <2>2. Others /\ SameLow /\ ~loc[t].wakes
      BY <1>0, <1>2, <1>4, <2>1, LockedLow DEF lock_state, OwesAt
    <2> QED BY <2>1, <2>2, FastMove DEF FastPCs
  <1>5. CASE lock_state_fails(t)
    <2>0. Others /\ SameLow /\ pc[t] = "lock" /\ ~loc[t].wakes
      BY <1>0, <1>1, <1>2, <1>5 DEF lock_state_fails, OwesAt
    <2>1. CASE Fallback(t) \/ Return(t) BY <2>0, <2>1, LeaveMove DEF FastPCs
    <2>2. ASSUME NEW where \in {"loop", "sleep"}, Goto(t, where), UNCHANGED <<call, loc>> PROVE WInv'
      BY <2>0, <2>2, FastMove DEF FastPCs
    <2> QED BY <1>5, <2>1, <2>2 DEF lock_state_fails
  <1>6. CASE recheck(t)
    <2>0. Others /\ SameLow /\ pc[t] = "body" /\ call[t].what \in {"signal", "reset"} /\ ~loc[t].wakes /\ call' = call
      BY <1>0, <1>1, <1>2, <1>6 DEF recheck, OwesAt
    <2>1. CASE Goto(t, "unlock") /\ SetRet(t, "bail")
      <3>1. /\ \A u \in Threads \ {t} : loc'[u] = loc[u]
            /\ loc'[t].wakes = loc[t].wakes /\ loc'[t].expect = loc[t].expect
        BY <1>0, <2>1, SetRetAlone
      <3> QED BY <2>0, <2>1, <3>1, FastMove DEF FastPCs
    <2>2. CASE Goto(t, "write") /\ UNCHANGED loc
      <3>1. pc'[t] = "write" BY <1>0, <2>2 DEF TypeOK, Goto
      <3>2. OwesAt(t)' BY <1>0, <2>0, <2>2, <3>1 DEF OwesAt, FastPCs
      <3> QED BY <2>0, <2>2, <3>2, FastMove DEF FastPCs
    <2> QED BY <1>6, <2>1, <2>2 DEF recheck
  <1>7. CASE refresh_cache_generation(t)
    <2>0. Others /\ SameLow /\ pc[t] = "refresh" /\ ~loc[t].wakes /\ Return(t)
      BY <1>0, <1>1, <1>2, <1>7 DEF refresh_cache_generation, OwesAt
    <2> QED BY <2>0, LeaveMove DEF FastPCs
  <1>8. CASE wait_loop(t)
    <2>0. Others /\ SameLow /\ pc[t] = "loop" /\ ~loc[t].wakes
      BY <1>0, <1>1, <1>2, <1>8 DEF wait_loop, OwesAt
    <2>1. CASE Fallback(t) BY <2>0, <2>1, LeaveMove DEF FastPCs
    <2>2. CASE /\ Goto(t, "lock") /\ UNCHANGED call
               /\ loc' = [loc EXCEPT ![t].first = FALSE, ![t].ret = "none"]
      <3>1. /\ \A u \in Threads \ {t} : loc'[u] = loc[u]
            /\ loc'[t].wakes = loc[t].wakes /\ loc'[t].expect = loc[t].expect
        BY <1>0, <2>2 DEF TypeOK, Loc
      <3> QED BY <2>0, <2>2, <3>1, FastMove DEF FastPCs
    <2> QED BY <1>8, <2>1, <2>2 DEF wait_loop
  <1>9. CASE load_owner(t)
    <2>0. Others /\ SameLow /\ pc[t] = "owner" /\ ~loc[t].wakes /\ call' = call /\ Goto(t, "sleep") /\ Mutex
      BY <1>0, <1>1, <1>2, <1>9 DEF load_owner, OwesAt
    <2>1. loc' = [loc EXCEPT ![t].expect = word.low] BY <1>9 DEF load_owner
    <2>2. (\A u \in Threads \ {t} : loc'[u] = loc[u]) /\ loc'[t].wakes = loc[t].wakes
      BY <1>0, <2>1 DEF TypeOK, Loc
    <2> QED BY <2>0, <2>2, FastMove DEF FastPCs
  <1>10. CASE wait_address(t)
    <2>0. Others /\ SameLow /\ pc[t] = "sleep" /\ ~loc[t].wakes /\ UNCHANGED <<call, loc>>
      BY <1>0, <1>1, <1>2, <1>10 DEF wait_address, OwesAt
    <2>1. CASE Goto(t, "asleep") /\ word.low = loc[t].expect
      <3>1. Kind = "manual" => word.low = 0 BY <1>0, <2>1 DEF OwesAt, Mutex
      <3> QED BY <2>0, <2>1, <3>1, FastMove DEF FastPCs
    <2>2. CASE Goto(t, "loop") BY <2>0, <2>2, FastMove DEF FastPCs
    <2> QED BY <1>10, <2>1, <2>2 DEF wait_address
  <1>11. CASE check_multi(t)
    <2>0. Others /\ SameLow /\ pc[t] = "multi"
      BY <1>1, <1>2, <1>11 DEF check_multi
    <2>1. CASE word.multi
      <3>1. Goto(t, "notify") /\ UNCHANGED <<call, loc>> BY <1>11, <2>1 DEF check_multi
      <3> QED BY <2>0, <3>1, FastMove DEF FastPCs
    <2>2. CASE ~word.multi
      <3>1. Return(t) BY <1>11, <2>2 DEF check_multi
      <3>2. ~(Live /\ regs # {}) BY <2>2 DEF WInv, MultiOK
      <3> QED BY <2>0, <3>1, <3>2, LeaveMove DEF FastPCs
    <2> QED BY <2>1, <2>2
  <1> QED BY <1>3, <1>4, <1>5, <1>6, <1>7, <1>8, <1>9, <1>10, <1>11, SignalWake, ConsumeWake,
             UnlockWake, AddressWake DEF ThreadStep

-----------------------------------------------------------------------------
(* A thread that leaves the queue, which holds it once, is not in it any   *)
(* more; the others still are, once each.                                  *)
LEMMA WithoutQueued ==
  ASSUME NEW q \in Seq(Threads), NEW t, \A i, j \in 1..Len(q) : q[i] = q[j] => i = j
  PROVE  LET w == Without(q, t)
         IN  /\ \A i \in 1..Len(w) : w[i] # t /\ \E j \in 1..Len(q) : w[i] = q[j]
             /\ \A i, j \in 1..Len(w) : w[i] = w[j] => i = j
  <1> DEFINE w == Without(q, t)
  <1>1. CASE \E i \in 1..Len(q) : q[i] = t
    <2> DEFINE i == CHOOSE j \in 1..Len(q) : q[j] = t
    <2>1. i \in 1..Len(q) /\ q[i] = t BY <1>1
    <2> DEFINE a == SubSeq(q, 1, i - 1)
               b == SubSeq(q, i + 1, Len(q))
    <2>2. w = a \o b BY <1>1 DEF Without
    <2> HIDE DEF i, w
    <2>3. a \in Seq(Threads) /\ Len(a) = i - 1 /\ \A k \in 1..(i - 1) : a[k] = q[k] BY <2>1
    <2>4. b \in Seq(Threads) /\ Len(b) = Len(q) - i /\ \A k \in 1..(Len(q) - i) : b[k] = q[k + i]
      BY <2>1
    <2> HIDE DEF a, b
    <2>5. Len(w) = Len(q) - 1
      <3>1. Len(w) = Len(a) + Len(b) BY <2>2, <2>3, <2>4, ConcatProperties
      <3>2. Len(q) \in Nat /\ i \in Int BY <2>1
      <3> QED BY <2>3, <2>4, <3>1, <3>2
    <2>6. \A k \in 1..Len(w) : w[k] = IF k < i THEN q[k] ELSE q[k + 1]
      <3> SUFFICES ASSUME NEW k \in 1..Len(w) PROVE w[k] = IF k < i THEN q[k] ELSE q[k + 1] OBVIOUS
      <3>1. w[k] = IF k <= Len(a) THEN a[k] ELSE b[k - Len(a)] BY <2>1, <2>2, <2>3, <2>4, <2>5
      <3>2. CASE k < i BY <2>1, <2>3, <2>5, <3>1, <3>2
      <3>3. CASE ~(k < i)
        <4>1. k - Len(a) \in 1..(Len(q) - i) /\ ~(k <= Len(a)) BY <2>1, <2>3, <2>5, <3>3
        <4>2. b[k - Len(a)] = q[(k - Len(a)) + i] BY <2>4, <4>1
        <4>3. (k - Len(a)) + i = k + 1 BY <2>1, <2>3, <2>5
        <4> QED BY <3>1, <3>3, <4>1, <4>2, <4>3
      <3> QED BY <3>2, <3>3
    <2>7. ASSUME NEW k \in 1..Len(w) PROVE w[k] # t /\ \E j \in 1..Len(q) : w[k] = q[j]
      <3>1. k \in 1..Len(q) /\ k + 1 \in 1..Len(q) BY <2>5
      <3>2. CASE k < i
        <4>1. w[k] = q[k] /\ k # i BY <2>6, <3>2
        <4> QED BY <2>1, <3>1, <4>1
      <3>3. CASE ~(k < i)
        <4>1. w[k] = q[k + 1] /\ k + 1 # i BY <2>1, <2>6, <3>3
        <4> QED BY <2>1, <3>1, <4>1
      <3> QED BY <3>2, <3>3
    <2>8. ASSUME NEW k \in 1..Len(w), NEW l \in 1..Len(w), w[k] = w[l] PROVE k = l
      <3>1. k \in 1..Len(q) /\ k + 1 \in 1..Len(q) /\ l \in 1..Len(q) /\ l + 1 \in 1..Len(q) BY <2>5
      <3>2. w[k] = (IF k < i THEN q[k] ELSE q[k + 1]) /\ w[l] = (IF l < i THEN q[l] ELSE q[l + 1]) BY <2>6
      <3>3. CASE k < i /\ l < i BY <2>8, <3>1, <3>2, <3>3
      <3>4. CASE k < i /\ ~(l < i)
        <4>1. k = l + 1 BY <2>8, <3>1, <3>2, <3>4
        <4> QED BY <2>1, <3>4, <4>1
      <3>5. CASE ~(k < i) /\ l < i
        <4>1. k + 1 = l BY <2>8, <3>1, <3>2, <3>5
        <4> QED BY <2>1, <3>5, <4>1
      <3>6. CASE ~(k < i) /\ ~(l < i)
        <4>1. k + 1 = l + 1 BY <2>8, <3>1, <3>2, <3>6
        <4> QED BY <4>1
      <3> QED BY <3>3, <3>4, <3>5, <3>6
    <2> QED BY <2>7, <2>8 DEF w
  <1>2. CASE ~ \E i \in 1..Len(q) : q[i] = t
    <2>1. w = q BY <1>2 DEF Without
    <2> QED BY <1>2, <2>1
  <1> QED BY <1>1, <1>2

(* remove_queue keeps the queue in order.                                  *)
LEMMA DequeueQueued ==
  ASSUME IInv, WInv, NEW t \in Threads, Dequeue(t), pc'[t] # "queued",
         \A u \in Threads \ {t} : pc'[u] = pc[u], doomed' \subseteq doomed \cup {t}
  PROVE  QueuedOK' /\ SameLow
  <1>0. TypeOK /\ queue \in Seq(Threads) /\ word \in Word BY DEF IInv, TypeOK
  <1>1. queue' = Without(queue, t) BY DEF Dequeue
  <1>2. /\ \A i \in 1..Len(queue') : queue'[i] # t /\ \E j \in 1..Len(queue) : queue'[i] = queue[j]
        /\ \A i, j \in 1..Len(queue') : queue'[i] = queue'[j] => i = j
    BY <1>0, <1>1, WithoutQueued DEF WInv, QueuedOK
  <1>3. ASSUME NEW i \in 1..Len(queue') PROVE pc'[queue'[i]] = "queued"
    <2>1. PICK j \in 1..Len(queue) : queue'[i] = queue[j] BY <1>2
    <2>2. queue[j] \in Threads /\ pc[queue[j]] = "queued" BY <1>0 DEF WInv, QueuedOK
    <2> QED BY <1>2, <2>1, <2>2
  <1>4. \A u \in doomed' : pc'[u] # "queued" BY <1>0 DEF TypeOK, WInv, QueuedOK
  <1>5. SameLow
    <2> DEFINE b == Without(queue, t) # <<>>
    <2>1. word' = [word EXCEPT !.server = b] BY DEF Dequeue
    <2> HIDE DEF b
    <2> QED BY <1>0, <2>1 DEF Word, SameLow, SameObject
  <1> QED BY <1>2, <1>3, <1>4, <1>5 DEF QueuedOK

(* A queued thread is released from the queue, by its timeout, its         *)
(* satisfaction or its death.                                              *)
LEMMA ReleaseMove ==
  ASSUME IInv, WInv, NEW t \in Threads, pc[t] = "queued", Dequeue(t), UNCHANGED <<slot, regs>>,
         \/ Return(t) /\ UNCHANGED doomed
         \/ Goto(t, "dead") /\ UNCHANGED <<call, loc>> /\ doomed' = doomed \cup {t},
         ServedOK', OpOK', Notifies => Notifies', srv.pc # "regcheck",
         srv.pc \notin {"wakeaddr", "unlock"}
  PROVE  WInv'
  <1>0. TypeOK /\ OwesAt(t) BY DEF IInv, WInv, OwesOK
  <1>1. /\ Alone(t) /\ pc'[t] \in {"idle", "dead"} /\ (call'[t] = NoCall \/ call'[t] = call[t])
        /\ loc'[t] = Loc0 \/ loc'[t] = loc[t]
    BY <1>0, ReturnAlone, GotoAlone
  <1>2. ~loc[t].wakes BY <1>0 DEF OwesAt
  <1>3. ~loc'[t].wakes /\ (~Mutex => loc'[t].expect = 0)
    BY <1>0, <1>1, <1>2, FreshLocals DEF OwesAt
  <1>4. QueuedOK' /\ SameLow
    <2>1. doomed' \subseteq doomed \cup {t} OBVIOUS
    <2> QED BY <1>1, <2>1, DequeueQueued DEF Alone
  <1>5. OwesOK'
    <2>1. ASSUME NEW u \in Threads, u # t PROVE OwesAt(u)'
      <3>1. OwesAt(u) BY DEF WInv, OwesOK
      <3>2. pc'[u] = pc[u] /\ call'[u] = call[u] /\ loc'[u] = loc[u] BY <1>1, <2>1 DEF Alone
      <3> QED BY <3>1, <3>2 DEF OwesAt
    <2>2. OwesAt(t)'
      <3>1. NoCall.what = "none" BY DEF NoCall
      <3> QED BY <1>0, <1>1, <1>3, <3>1 DEF OwesAt, FastPCs
    <2> QED BY <2>1, <2>2 DEF OwesOK
  <1>6. MultiOK' BY <1>4 DEF WInv, MultiOK, SameLow, SameObject, Live
  <1>7. SlotsOK'
    <2> SUFFICES ASSUME NEW m \in regs, slot[m] = 1, StateSignaled(word'), Live', ~Notifies'
                 PROVE  \E u \in Threads : loc'[u].wakes
      BY DEF SlotsOK
    <2>1. StateSignaled(word) /\ Live BY <1>4, StateSignaledLow DEF SameLow, SameObject, Live
    <2>2. PICK u \in Threads : loc[u].wakes BY <2>1 DEF WInv, SlotsOK
    <2> QED BY <1>1, <1>2, <2>2 DEF Alone
  <1>8. SleepersOK'
    <2> SUFFICES ASSUME Kind = "manual", Live', word'.low # 0, Asleep' # {} PROVE Wakes'
      BY DEF SleepersOK
    <2>1. Live /\ word.low # 0 BY <1>4 DEF SameLow, SameObject, Live
    <2>2. Asleep # {} BY <1>1 DEF Asleep, Alone
    <2>3. PICK u \in Threads : loc[u].wakes /\ pc[u] \in {"unlock", "wake", "dead"}
      BY <2>1, <2>2 DEF WInv, SleepersOK, Wakes, ServerWakes
    <2>4. loc'[u].wakes /\ pc'[u] \in {"unlock", "wake", "dead"} BY <1>1, <1>2, <2>3 DEF Alone
    <2> QED BY <2>4 DEF Wakes
  <1> QED BY <1>4, <1>5, <1>6, <1>7, <1>8 DEF WInv

(* wineserver between two requests says nothing about anybody.             *)
LEMMA IdleServer ==
  ASSUME srv'.pc \in {"idle", "regcheck", "destroyed"}, srv'.op = "none", srv'.fn = "none"
  PROVE  ServedOK' /\ OpOK'
  BY DEF ServedOK, OpOK, Checking

(* A step that moves no thread.  What is signaled by it, or is left        *)
(* signaled by who has done with it, has somebody to wake those who wait   *)
(* for it.                                                                 *)
LEMMA ServerMove ==
  ASSUME IInv, WInv, UNCHANGED <<pc, call, queue>>, regs' \subseteq regs,
         \A u \in doomed' : pc[u] # "queued",
         \A u \in Threads : /\ loc'[u].wakes = loc[u].wakes /\ loc'[u].expect = loc[u].expect
                            /\ pc[u] = "unlock" => loc'[u].ret = loc[u].ret,
         ServedOK', OpOK', MultiOK', Live' => Live,
         \A m \in regs' : slot'[m] = 1 /\ StateSignaled(word') /\ Live' =>
           \/ Notifies' \/ (srv'.pc = "regcheck" /\ srv'.m = m)
           \/ slot[m] = 1 /\ StateSignaled(word) /\ ~Notifies /\ ~(srv.pc = "regcheck" /\ srv.m = m),
         Kind = "manual" /\ word'.low # 0 /\ Live' => ServerWakes' \/ (word.low # 0 /\ ~ServerWakes)
  PROVE  WInv'
  <1>1. QueuedOK' BY DEF WInv, QueuedOK
  <1>2. ASSUME NEW u \in Threads PROVE OwesAt(u)'
    <2>1. OwesAt(u) BY DEF WInv, OwesOK
    <2> QED BY <2>1 DEF OwesAt
  <1>3. SlotsOK'
    <2> SUFFICES ASSUME NEW m \in regs', slot'[m] = 1, StateSignaled(word'), Live', ~Notifies',
                        ~(srv'.pc = "regcheck" /\ srv'.m = m)
                 PROVE  \E u \in Threads : loc'[u].wakes
      BY DEF SlotsOK
    <2>1. PICK u \in Threads : loc[u].wakes BY DEF WInv, SlotsOK
    <2> QED BY <2>1
  <1>4. SleepersOK'
    <2> SUFFICES ASSUME Kind = "manual", Live', word'.low # 0, Asleep' # {}, ~ServerWakes' PROVE Wakes'
      BY DEF SleepersOK, Wakes
    <2>1. Asleep # {} BY DEF Asleep
    <2>2. PICK u \in Threads : loc[u].wakes /\ pc[u] \in {"unlock", "wake", "dead"}
      BY <2>1 DEF WInv, SleepersOK, Wakes
    <2> QED BY <2>2 DEF Wakes
  <1> QED BY <1>1, <1>2, <1>3, <1>4 DEF WInv, OwesOK

(* The environment keeps the invariant.                                    *)
LEMMA EnvironmentWake ==
  ASSUME IInv, WInv, KilledOK, Environment \/ \E t \in Threads : wait_timeout(t) PROVE WInv'
  <1>0. TypeOK /\ word \in Word /\ loc \in [Threads -> Loc] /\ srv \in Srv BY DEF IInv, TypeOK
  <1>s. ASSUME NEW w, w = Srv0 PROVE w.pc = "idle" /\ w.op = "none" /\ w.fn = "none"
    BY <1>s DEF Srv0
  <1>1. ASSUME NEW t \in Threads, Invoke(t) PROVE WInv'
    <2>0. OwesAt(t) BY DEF WInv, OwesOK
    <2>1. PICK c \in CallsOf[t] :
            /\ c.what \in {"reset", "pulse"} => Event
            /\ call' = [call EXCEPT ![t] = c]
            /\ Goto(t, IF c.fast /\ c.what \in {"wait", "signal", "reset"} THEN "check" ELSE "request")
            /\ loc' = [loc EXCEPT ![t].gen = IF c.what = "tryall" THEN cache_gen ELSE @]
      BY <1>1 DEF Invoke
    <2>2. pc[t] = "idle" /\ Others /\ word' = word BY <1>1 DEF Invoke, Others, multis
    <2>3. pc'[t] \in {"check", "request"} /\ (pc'[t] = "check" => c.fast) /\ \A u \in Threads \ {t} : pc'[u] = pc[u]
      BY <1>0, <2>1 DEF TypeOK, Goto
    <2>4. call'[t] = c /\ \A u \in Threads \ {t} : call'[u] = call[u] BY <1>0, <2>1 DEF TypeOK
    <2>5. /\ \A u \in Threads \ {t} : loc'[u] = loc[u]
          /\ loc'[t].wakes = loc[t].wakes /\ loc'[t].expect = loc[t].expect
      BY <1>0, <2>1 DEF Loc
    <2>6. Alone(t) BY <2>3, <2>4, <2>5 DEF Alone
    <2>7. ~loc[t].wakes BY <2>0, <2>2 DEF OwesAt
    <2>8. OwesAt(t)' BY <2>0, <2>1, <2>3, <2>4, <2>5, <2>7 DEF OwesAt, FastPCs
    <2>9. ~Mutex => word.low >= 0 BY DEF WInv, MultiOK
    <2> QED BY <2>2, <2>3, <2>5, <2>6, <2>7, <2>8, <2>9, ThreadMove DEF Others, SameObject
  <1>2. ASSUME NEW t \in Threads, wait_interrupted(t) \/ wait_timeout(t) PROVE WInv'
    <2>0. /\ OwesAt(t) /\ Others /\ SameLow /\ pc[t] \in {"asleep", "sleep", "owner"}
      BY <1>2 DEF WInv, OwesOK, wait_interrupted, wait_timeout, ClientOnly, Others, multis, SameLow, SameObject
    <2>1. ~loc[t].wakes BY <2>0 DEF OwesAt
    <2>2. CASE wait_interrupted(t)
      <3>1. Goto(t, "loop") /\ UNCHANGED <<call, loc>> BY <2>2 DEF wait_interrupted
      <3> QED BY <2>0, <2>1, <3>1, FastMove DEF FastPCs
    <2>3. CASE Return(t) \/ Fallback(t) BY <2>0, <2>1, <2>3, LeaveMove DEF FastPCs
    <2> QED BY <1>2, <2>2, <2>3 DEF wait_timeout
  <1>3. ASSUME NEW t \in Threads, sigquit(t) PROVE WInv'
    <2>0. /\ OwesAt(t) /\ t \in doomed /\ Others /\ word' = word /\ Goto(t, "dead") /\ UNCHANGED <<call, loc>>
      BY <1>3 DEF WInv, OwesOK, sigquit, ClientOnly, Others, multis
    <2>k. t \in Killable BY <2>0 DEF KilledOK
    <2>1. Alone(t) /\ pc'[t] = "dead" BY <1>0, <2>0, GotoAlone
    <2>2. OwesAt(t)' BY <2>0, <2>1, <2>k DEF OwesAt, FastPCs
    <2>3. pc[t] # "queued" /\ (~Mutex => word.low >= 0) BY <2>0 DEF WInv, QueuedOK, MultiOK
    <2> QED BY <2>0, <2>1, <2>2, <2>3, ThreadMove DEF Others, SameObject
  <1>4. ASSUME NEW t \in Threads, kill_thread(t) PROVE WInv'
    <2>0. /\ srv.pc = "idle" /\ doomed' = doomed \cup {t} /\ UNCHANGED <<call, loc, slot, regs>>
          /\ srv.op = "none" /\ srv.fn = "none"
      BY <1>4 DEF kill_thread, ServerOnly, multis, WInv, OpOK
    <2>1. ServedOK' /\ OpOK' /\ srv'.pc \in {"idle", "lock"} /\ srv'.fn \in {"none", "abandon"}
      <3>1. CASE Mutex
        <4>1. srv' = [Srv0 EXCEPT !.pc = "lock", !.op = "abandon", !.fn = "abandon", !.req = t]
          BY <1>4, <3>1 DEF kill_thread
        <4>2. srv'.pc = "lock" /\ srv'.op = "abandon" /\ srv'.fn = "abandon" /\ srv'.req = t
          BY <4>1 DEF Srv0
        <4> QED BY <2>0, <4>2 DEF ServedOK, OpOK, Checking
      <3>2. CASE ~Mutex
        <4>1. srv' = srv BY <1>4, <3>2 DEF kill_thread
        <4> QED BY <2>0, <4>1, IdleServer
      <3> QED BY <3>1, <3>2
    <2>2. ~Notifies /\ ~ServerWakes BY <2>0 DEF Notifies, Checking, ServerWakes
    <2>3. CASE pc[t] = "queued"
      <3>1. Dequeue(t) /\ Goto(t, "dead") BY <1>4, <2>3 DEF kill_thread
      <3> QED BY <2>0, <2>1, <2>2, <2>3, <3>1, ReleaseMove
    <2>4. CASE pc[t] # "queued"
      <3>1. UNCHANGED <<word, queue, pc>> BY <1>4, <2>4 DEF kill_thread
      <3>2. \A u \in doomed' : pc[u] # "queued" BY <2>0, <2>4 DEF WInv, QueuedOK
      <3>3. MultiOK' BY <2>0, <3>1 DEF WInv, MultiOK, Live
      <3>4. Live' => Live BY <3>1 DEF Live
      <3> QED BY <2>0, <2>1, <2>2, <3>1, <3>2, <3>3, <3>4, ServerMove
    <2> QED BY <2>3, <2>4
  <1>5. ASSUME NEW m \in MultiWaiters, register_wait(m) PROVE WInv'
    <2>0. /\ srv.pc = "idle" /\ UNCHANGED <<pc, call, loc, doomed, queue>> /\ regs' = regs \cup {m}
          /\ slot' = [slot EXCEPT ![m] = 1] /\ word' = [word EXCEPT !.multi = TRUE]
      BY <1>5 DEF register_wait, client
    <2>1. srv' = [Srv0 EXCEPT !.pc = "regcheck", !.m = m] BY <1>5 DEF register_wait
    <2>2. srv'.pc = "regcheck" /\ srv'.op = "none" /\ srv'.fn = "none" /\ srv'.m = m BY <2>1 DEF Srv0
    <2>3. word'.multi /\ word'.low = word.low /\ word'.type = word.type BY <1>0, <2>0 DEF Word
    <2>4. ServedOK' /\ OpOK' BY <2>2, IdleServer
    <2>5. ~Notifies /\ ~ServerWakes BY <2>0 DEF Notifies, Checking, ServerWakes
    <2>6. QueuedOK' /\ OwesOK' BY <2>0 DEF WInv, QueuedOK, OwesOK, OwesAt
    <2>7. MultiOK' BY <2>3 DEF WInv, MultiOK
    <2>8. SlotsOK'
      <3> SUFFICES ASSUME NEW n \in regs', slot'[n] = 1, StateSignaled(word'), Live', n # m
                   PROVE  \E u \in Threads : loc'[u].wakes
        BY <2>2 DEF SlotsOK
      <3>1. n \in regs /\ slot[n] = 1 BY <1>0, <2>0 DEF TypeOK
      <3>2. StateSignaled(word) /\ Live BY <2>3, StateSignaledLow DEF Live
      <3> QED BY <2>0, <2>5, <3>1, <3>2 DEF WInv, SlotsOK
    <2>9. SleepersOK'
      <3>1. Wakes => Wakes' BY <2>0, <2>5 DEF Wakes
      <3> QED BY <2>0, <2>3, <3>1 DEF WInv, SleepersOK, Live, Asleep
    <2> QED BY <2>4, <2>6, <2>7, <2>8, <2>9 DEF WInv
  <1>6. ASSUME NEW m \in MultiWaiters, unregister_wait(m) PROVE WInv'
    <2>0. /\ srv.pc = "idle" /\ UNCHANGED <<pc, call, loc, doomed, queue, srv>> /\ regs' = regs \ {m}
          /\ slot' = [slot EXCEPT ![m] = 0]
      BY <1>6 DEF unregister_wait, client
    <2> DEFINE b == word.multi /\ regs \ {m} # {}
    <2>1. word' = [word EXCEPT !.multi = b] BY <1>6 DEF unregister_wait
    <2>2. b \in BOOLEAN BY <1>0 DEF Word
    <2>3. regs' # {} /\ word.multi => b BY <2>0
    <2> HIDE DEF b
    <2>4. word'.multi = b /\ word'.low = word.low /\ word'.type = word.type BY <1>0, <2>1 DEF Word
    <2>5. srv.op = "none" /\ srv.fn = "none" BY <2>0 DEF WInv, OpOK
    <2>6. ServedOK' /\ OpOK' BY <2>0, <2>5, IdleServer
    <2>7. MultiOK'
      <3>1. Live' /\ regs' # {} => word.multi BY <2>0, <2>4 DEF WInv, MultiOK, Live
      <3> QED BY <2>3, <2>4, <3>1 DEF WInv, MultiOK
    <2>8. ~Notifies /\ ~ServerWakes BY <2>0 DEF Notifies, Checking, ServerWakes
    <2>9. \A n \in regs' : slot'[n] = slot[n] BY <1>0, <2>0 DEF TypeOK
    <2>10. (Live' => Live) /\ (StateSignaled(word') <=> StateSignaled(word)) BY <2>4, StateSignaledLow DEF Live
    <2>11. \A u \in doomed' : pc[u] # "queued" BY <2>0 DEF WInv, QueuedOK
    <2> QED BY <2>0, <2>4, <2>6, <2>7, <2>8, <2>9, <2>10, <2>11, ServerMove
  <1>7. ASSUME destroy PROVE WInv'
    <2>0. srv.pc = "idle" /\ UNCHANGED <<pc, call, loc, doomed, queue, slot, regs>>
      BY <1>7 DEF destroy, client, multis
    <2>1. ~Live' /\ word'.low = word.low
      <3>1. word' = [low |-> word.low, high |-> word.high, generation |-> word.generation,
                     type |-> "unknown", locked |-> FALSE, server |-> FALSE, multi |-> FALSE]
        BY <1>0, <1>7 DEF destroy, Word
      <3>2. Kind # "unknown" BY KindAssumption
      <3> QED BY <3>1, <3>2 DEF Live
    <2>2. srv'.pc = "destroyed" /\ srv'.op = "none" /\ srv'.fn = "none" BY <1>7 DEF destroy, Srv0
    <2>3. ServedOK' /\ OpOK' BY <2>2, IdleServer
    <2>4. MultiOK' BY <2>1 DEF WInv, MultiOK
    <2>5. \A u \in doomed' : pc[u] # "queued" BY <2>0 DEF WInv, QueuedOK
    <2> QED BY <2>0, <2>1, <2>3, <2>4, <2>5, ServerMove
  <1> QED BY <1>1, <1>2, <1>3, <1>4, <1>5, <1>6, <1>7 DEF Environment

(* wineserver answers the thread whose request it was, or nobody if that   *)
(* thread is being killed.                                                 *)
LEMMA ReplyMove ==
  ASSUME IInv, WInv, NEW t \in Threads, Reply(t), pc[t] = "request" \/ t \in doomed,
         UNCHANGED <<queue, doomed, regs>>, MultiOK', Live' => Live,
         \A m \in regs : slot'[m] = 1 /\ StateSignaled(word') /\ Live' =>
           slot[m] = 1 /\ StateSignaled(word) /\ ~Notifies /\ srv.pc # "regcheck",
         Kind = "manual" /\ word'.low # 0 /\ Live' => word.low # 0 /\ ~ServerWakes
  PROVE  WInv'
  <1>0. TypeOK /\ OwesAt(t) BY DEF IInv, WInv, OwesOK
  <1>1. srv'.pc = "idle" /\ srv'.op = "none" /\ srv'.fn = "none" BY DEF Reply, Srv0
  <1>2. ServedOK' /\ OpOK' BY <1>1, IdleServer
  <1>3. CASE t \in doomed
    <2>1. pc' = [pc EXCEPT ![t] = pc[t]] /\ UNCHANGED <<call, loc>> BY <1>3 DEF Reply, Goto
    <2>2. pc' = pc BY <1>0, <2>1 DEF TypeOK
    <2>3. \A u \in doomed' : pc[u] # "queued" BY DEF WInv, QueuedOK
    <2> QED BY <1>2, <2>1, <2>2, <2>3, ServerMove
  <1>4. CASE t \notin doomed
    <2>0. ~loc[t].wakes /\ pc[t] = "request" BY <1>0, <1>4 DEF OwesAt
    <2>1. /\ Alone(t) /\ pc'[t] \in {"idle", "dead"} /\ (call'[t] = NoCall \/ call'[t] = call[t])
          /\ loc'[t] = Loc0 \/ loc'[t] = loc[t]
      <3>1. Return(t) \/ (Goto(t, "dead") /\ UNCHANGED <<call, loc>>) BY <1>4 DEF Reply
      <3> QED BY <1>0, <3>1, ReturnAlone, GotoAlone
    <2>2. ~loc'[t].wakes /\ (~Mutex => loc'[t].expect = 0)
      BY <1>0, <2>0, <2>1, FreshLocals DEF OwesAt
    <2>3. QueuedOK'
      <3>1. ASSUME NEW i \in 1..Len(queue) PROVE pc'[queue[i]] = "queued"
        <4>1. queue[i] \in Threads /\ pc[queue[i]] = "queued" BY <1>0 DEF TypeOK, WInv, QueuedOK
        <4> QED BY <2>0, <2>1, <4>1 DEF Alone
      <3>2. ASSUME NEW u \in doomed PROVE pc'[u] # "queued"
        <4>1. u \in Threads /\ pc[u] # "queued" BY <1>0 DEF TypeOK, WInv, QueuedOK
        <4> QED BY <2>1, <4>1 DEF Alone
      <3> QED BY <3>1, <3>2 DEF WInv, QueuedOK
    <2>4. OwesOK'
      <3>1. ASSUME NEW u \in Threads, u # t PROVE OwesAt(u)'
        <4>1. OwesAt(u) BY DEF WInv, OwesOK
        <4>2. pc'[u] = pc[u] /\ call'[u] = call[u] /\ loc'[u] = loc[u] BY <2>1, <3>1 DEF Alone
        <4> QED BY <4>1, <4>2 DEF OwesAt
      <3>2. OwesAt(t)'
        <4>1. NoCall.what = "none" BY DEF NoCall
        <4> QED BY <1>0, <2>1, <2>2, <4>1 DEF OwesAt, FastPCs
      <3> QED BY <3>1, <3>2 DEF OwesOK
    <2>5. SlotsOK'
      <3> SUFFICES ASSUME NEW m \in regs, slot'[m] = 1, StateSignaled(word'), Live'
                   PROVE  \E u \in Threads : loc'[u].wakes
        BY DEF SlotsOK
      <3>1. PICK u \in Threads : loc[u].wakes BY DEF WInv, SlotsOK
      <3> QED BY <2>0, <2>1, <3>1 DEF Alone
    <2>6. SleepersOK'
      <3> SUFFICES ASSUME Kind = "manual", Live', word'.low # 0, Asleep' # {} PROVE Wakes'
        BY DEF SleepersOK
      <3>1. Asleep # {} BY <2>1 DEF Asleep, Alone
      <3>2. PICK u \in Threads : loc[u].wakes /\ pc[u] \in {"unlock", "wake", "dead"}
        BY <3>1 DEF WInv, SleepersOK, Wakes
      <3>3. loc'[u].wakes /\ pc'[u] \in {"unlock", "wake", "dead"} BY <2>0, <2>1, <3>2 DEF Alone
      <3> QED BY <3>3 DEF Wakes
    <2> QED BY <1>2, <2>3, <2>4, <2>5, <2>6 DEF WInv
  <1> QED BY <1>3, <1>4

(* SERVER_WAITERS goes up or down.                                         *)
LEMMA ServerFlagLow ==
  ASSUME TypeOK, NEW b, word' = [word EXCEPT !.server = b] PROVE SameLow
  BY DEF TypeOK, Word, SameLow, SameObject

(* A wait enters the queue.                                                *)
LEMMA EnqueueWake == ASSUME IInv, WInv, NEW t \in Threads, add_server_waiter(t) PROVE WInv'
  <1>0. TypeOK /\ queue \in Seq(Threads) /\ OwesAt(t) BY DEF IInv, TypeOK, WInv, OwesOK
  <1>1. /\ srv.pc = "idle" /\ pc[t] = "request" /\ t \notin doomed /\ queue' = Append(queue, t)
        /\ word' = [word EXCEPT !.server = TRUE] /\ Goto(t, "queued")
        /\ UNCHANGED <<call, loc, doomed, slot, regs>>
    BY DEF add_server_waiter, ServerOnly, multis
  <1>2. Alone(t) /\ pc'[t] = "queued" BY <1>0, <1>1, GotoAlone
  <1>3. SameLow BY <1>0, <1>1, ServerFlagLow
  <1>4. QueuedOK'
    <2>1. /\ Len(queue') = Len(queue) + 1 /\ queue'[Len(queue) + 1] = t /\ Len(queue) \in Nat
          /\ \A i \in 1..Len(queue) : queue'[i] = queue[i] /\ queue[i] \in Threads
      BY <1>0, <1>1
    <2>2. \A i \in 1..Len(queue) : pc[queue[i]] = "queued" /\ queue[i] # t
      BY <1>1 DEF WInv, QueuedOK
    <2>3. ASSUME NEW i \in 1..Len(queue') PROVE pc'[queue'[i]] = "queued"
      BY <1>2, <2>1, <2>2 DEF Alone
    <2>4. ASSUME NEW i \in 1..Len(queue'), NEW j \in 1..Len(queue'), queue'[i] = queue'[j] PROVE i = j
      BY <2>1, <2>2, <2>4 DEF WInv, QueuedOK
    <2>5. \A u \in doomed : pc'[u] # "queued" BY <1>0, <1>1, <1>2 DEF Alone, TypeOK, WInv, QueuedOK
    <2> QED BY <1>1, <2>3, <2>4, <2>5 DEF QueuedOK
  <1>5. ServedOK' /\ OpOK'
    <2>1. srv' = [Srv0 EXCEPT !.pc = "lock", !.fn = "signaled", !.cur = t] BY DEF add_server_waiter
    <2>2. srv'.pc = "lock" /\ srv'.fn = "signaled" /\ srv'.cur = t /\ srv'.op = "none" BY <2>1 DEF Srv0
    <2> QED BY <1>2, <2>2 DEF ServedOK, OpOK, Checking
  <1>6. OwesOK'
    <2>1. ASSUME NEW u \in Threads PROVE OwesAt(u)'
      <3>1. OwesAt(u) BY DEF WInv, OwesOK
      <3> QED BY <1>0, <1>1, <1>2, <3>1 DEF OwesAt, Alone, FastPCs
    <2> QED BY <2>1 DEF OwesOK
  <1>7. MultiOK' BY <1>1, <1>3 DEF WInv, MultiOK, SameLow, SameObject, Live
  <1>8. ~Notifies /\ ~ServerWakes BY <1>1 DEF Notifies, Checking, ServerWakes
  <1>9. Live' <=> Live BY <1>3 DEF Live, SameLow, SameObject
  <1>10. SlotsOK'
    <2>1. StateSignaled(word') <=> StateSignaled(word) BY <1>3, StateSignaledLow DEF SameLow
    <2> QED BY <1>1, <1>8, <1>9, <2>1 DEF WInv, SlotsOK
  <1>11. SleepersOK'
    <2>1. Asleep' \subseteq Asleep BY <1>2 DEF Asleep, Alone
    <2>2. ASSUME Wakes PROVE Wakes'
      <3>1. PICK u \in Threads : loc[u].wakes /\ pc[u] \in {"unlock", "wake", "dead"} BY <1>8, <2>2 DEF Wakes
      <3> QED BY <1>1, <1>2, <3>1 DEF Wakes, Alone
    <2> QED BY <1>3, <1>9, <2>1, <2>2 DEF WInv, SleepersOK, SameLow
  <1> QED BY <1>4, <1>5, <1>6, <1>7, <1>10, <1>11 DEF WInv

(* So do the other requests that wineserver takes up.                      *)
LEMMA AcceptWake ==
  ASSUME IInv, WInv, NEW t \in Threads, ServerAccept(t) \/ thread_timeout(t) PROVE WInv'
  <1>0. TypeOK /\ OwesAt(t) BY DEF IInv, WInv, OwesOK
  <1>1. ASSUME srv.pc = "idle"
        PROVE  ~Notifies /\ ~ServerWakes /\ srv.op = "none" /\ srv.fn = "none"
    BY <1>1 DEF Notifies, Checking, ServerWakes, WInv, OpOK
  <1>2. ASSUME word' = word PROVE SameLow BY <1>2 DEF SameLow, SameObject
  <1>3. ASSUME SameLow, UNCHANGED regs
        PROVE  MultiOK' /\ (Live' => Live) /\ (StateSignaled(word') <=> StateSignaled(word))
    BY <1>3, StateSignaledLow DEF WInv, MultiOK, SameLow, SameObject, Live
  <1>4. \A u \in doomed : pc[u] # "queued" BY DEF WInv, QueuedOK
  <1>5. CASE start_request(t)
    <2>1. /\ srv.pc = "idle" /\ pc[t] = "request" /\ t \notin doomed /\ word' = word
          /\ UNCHANGED <<pc, call, loc, doomed, queue, slot, regs>>
      BY <1>5 DEF start_request, ServerOnly, multis, client
    <2>2. ASSUME NEW f, NEW mx, srv' = [Srv0 EXCEPT !.pc = "lock", !.op = f, !.fn = f, !.req = t, !.max = mx]
          PROVE  srv'.pc = "lock" /\ srv'.op = f /\ srv'.fn = f /\ srv'.req = t
      BY <2>2 DEF Srv0
    <2>3. PICK f \in {"signal", "reset", "abandon"} :
            /\ f = "reset" => call[t].what = "reset"
            /\ srv'.pc = "lock" /\ srv'.op = f /\ srv'.fn = f /\ srv'.req = t
      <3>1. CASE call[t].what = "exit" /\ srv' = [Srv0 EXCEPT !.pc = "lock", !.op = "abandon", !.fn = "abandon", !.req = t]
        BY <3>1 DEF Srv0
      <3>2. CASE srv' = [Srv0 EXCEPT !.pc = "lock", !.op = "signal", !.fn = "signal", !.req = t, !.max = Max(t)]
        BY <2>2, <3>2, Zenon
      <3>3. CASE call[t].what = "reset" /\ srv' = [Srv0 EXCEPT !.pc = "lock", !.op = "reset", !.fn = "reset", !.req = t, !.max = Max(t)]
        BY <2>2, <3>3, Zenon
      <3> QED BY <1>5, <3>1, <3>2, <3>3 DEF start_request
    <2>4. ServedOK' /\ OpOK'
      BY <1>0, <2>1, <2>3 DEF ServedOK, OpOK, Checking, OwesAt
    <2> QED BY <1>1, <1>2, <1>3, <1>4, <2>1, <2>4, ServerMove
  <1>6. CASE reply_at_once(t)
    <2>1. /\ srv.pc = "idle" /\ pc[t] = "request" /\ Reply(t) /\ word' = word
          /\ UNCHANGED <<doomed, queue, slot, regs>>
      BY <1>6 DEF reply_at_once, multis
    <2> QED BY <1>1, <1>2, <1>3, <2>1, ReplyMove
  <1>7. CASE wake_wfusync_waiters(t)
    <2>1. /\ pc[t] = "notify" /\ Return(t) /\ UNCHANGED <<word, srv, queue, doomed, regs>>
          /\ slot' = [m \in MultiWaiters |-> IF m \in regs THEN 0 ELSE slot[m]]
      BY <1>7 DEF wake_wfusync_waiters
    <2>2. \A m \in regs : slot'[m] = 0 BY <1>0, <2>1 DEF TypeOK
    <2>3. Alone(t) /\ pc'[t] = "idle" /\ call'[t] = NoCall /\ loc'[t] = Loc0 BY <1>0, <2>1, ReturnAlone
    <2>4. ~loc'[t].wakes /\ loc'[t].expect = 0 BY <2>3, FreshLocals
    <2>5. OwesAt(t)'
      <3>1. NoCall.what = "none" BY DEF NoCall
      <3> QED BY <2>3, <2>4, <3>1 DEF OwesAt, FastPCs
    <2>6. ~Mutex => word.low >= 0 BY DEF WInv, MultiOK
    <2> QED BY <2>1, <2>2, <2>3, <2>4, <2>5, <2>6, ThreadMove DEF SameObject
  <1>8. CASE try_wait_all(t)
    <2>1. /\ srv.pc = "idle" /\ pc[t] = "request" /\ t \notin doomed
          /\ UNCHANGED <<doomed, queue, slot, regs>>
      BY <1>8 DEF try_wait_all, ServerOnly, multis
    <2>2. CASE Reply(t) /\ UNCHANGED word
      BY <1>1, <1>2, <1>3, <2>1, <2>2, ReplyMove
    <2>3. CASE /\ word' = [word EXCEPT !.server = TRUE] /\ UNCHANGED <<pc, call, loc>>
               /\ srv' = [Srv0 EXCEPT !.pc = "guarded", !.req = t]
      <3>1. SameLow BY <1>0, <2>3, ServerFlagLow
      <3>2. srv'.pc = "guarded" /\ srv'.op = "none" /\ srv'.fn = "none" /\ srv'.req = t BY <2>3 DEF Srv0
      <3>3. ServedOK' /\ OpOK' BY <2>1, <2>3, <3>2 DEF ServedOK, OpOK, Checking
      <3>4. word'.low = word.low BY <3>1 DEF SameLow
      <3> QED BY <1>1, <1>3, <1>4, <2>1, <2>3, <3>1, <3>3, <3>4, ServerMove
    <2> QED BY <1>8, <2>2, <2>3 DEF try_wait_all
  <1>9. CASE thread_timeout(t)
    <2>1. /\ srv.pc = "idle" /\ pc[t] = "queued" /\ Dequeue(t) /\ Return(t)
          /\ UNCHANGED <<srv, doomed, slot, regs>>
      BY <1>9 DEF thread_timeout, ServerOnly, multis
    <2>2. ServedOK' /\ OpOK' BY <1>1, <2>1, IdleServer
    <2> QED BY <1>1, <2>1, <2>2, ReleaseMove
  <1> QED BY <1>5, <1>6, <1>7, <1>8, <1>9, EnqueueWake DEF ServerAccept

-----------------------------------------------------------------------------
(* A step of wineserver that neither signals the object nor forgets whom   *)
(* it has yet to wake.                                                     *)
LEMMA QuietMove ==
  ASSUME IInv, WInv, SameLow, UNCHANGED <<pc, call, loc, doomed, queue, slot, regs>>,
         ServedOK', OpOK', Notifies => Notifies', ServerWakes => ServerWakes', srv.pc # "regcheck"
  PROVE  WInv'
  <1>1. \A u \in doomed' : pc[u] # "queued" BY DEF WInv, QueuedOK
  <1>2. /\ MultiOK' /\ (Live' => Live) /\ (StateSignaled(word') <=> StateSignaled(word))
        /\ word'.low = word.low
    BY StateSignaledLow DEF WInv, MultiOK, SameLow, SameObject, Live
  <1> QED BY <1>1, <1>2, ServerMove

(* A result is noted for a thread whose request wineserver is at work on.  *)
LEMMA NotedMove ==
  ASSUME IInv, WInv, NEW t \in Threads, pc[t] # "unlock", NEW r, SetRet(t, r),
         UNCHANGED <<pc, call, doomed, queue, slot, regs>>, ServedOK', OpOK',
         SameObject, ~Mutex => word'.low >= 0, srv.pc # "regcheck",
         StateSignaled(word') => Notifies' \/ (StateSignaled(word) /\ ~Notifies),
         Kind = "manual" /\ word'.low # 0 => ServerWakes' \/ (word.low # 0 /\ ~ServerWakes)
  PROVE  WInv'
  <1>0. TypeOK BY DEF IInv
  <1>1. \A u \in doomed' : pc[u] # "queued" BY DEF WInv, QueuedOK
  <1>2. MultiOK' /\ (Live' => Live) BY DEF WInv, MultiOK, SameObject, Live
  <1>3. /\ \A u \in Threads \ {t} : loc'[u] = loc[u]
        /\ loc'[t].wakes = loc[t].wakes /\ loc'[t].expect = loc[t].expect
    BY <1>0, SetRetAlone
  <1> QED BY <1>1, <1>2, <1>3, ServerMove

(* What wineserver does under the lock.                                    *)
LEMMA BodyWake ==
  ASSUME IInv, WInv, server_satisfied \/ server_signal \/ server_reset \/ server_abandon PROVE WInv'
  <1>0. /\ TypeOK /\ word \in Word /\ srv \in Srv /\ (~Mutex => word.low >= 0) /\ word.low \in Int
    BY DEF IInv, TypeOK, WInv, MultiOK, Word
  <1>1. CASE server_satisfied
    <2> DEFINE c == srv.cur
               r == IF Signaled(word, c) THEN ConsumedStatus(word) ELSE "success"
    <2>1. /\ srv.pc = "body" /\ srv.fn = "satisfied" /\ srv' = [srv EXCEPT !.pc = "unlock"] /\ SetRet(c, r)
          /\ word' = word \/ (Signaled(word, c) /\ word' = Consumed(word, c))
          /\ UNCHANGED <<pc, call, doomed, queue, slot, regs>>
      BY <1>1 DEF server_satisfied, ServerOnly, multis
    <2> HIDE DEF r
    <2>2. /\ srv'.pc = "unlock" /\ srv'.op = srv.op /\ srv'.fn = srv.fn /\ srv'.req = srv.req
          /\ srv'.cur = c /\ srv'.pos = srv.pos
      BY <1>0, <2>1 DEF Srv
    <2>3. Checking /\ Checking' BY <2>1, <2>2 DEF Checking
    <2>4. c \in Threads /\ pc[c] = "queued" BY <2>3 DEF WInv, ServedOK
    <2>5. ServedOK' /\ OpOK' BY <2>1, <2>2, <2>3 DEF WInv, ServedOK, OpOK, Checking
    <2>6. /\ SameObject /\ (StateSignaled(word') => StateSignaled(word))
          /\ (~Mutex => word'.low >= 0) /\ (Kind = "manual" => word'.low = word.low)
      BY <1>0, <2>1, <2>4, ConsumedLow DEF SameObject
    <2>7. ~ServerWakes /\ (Notifies => Notifies') BY <2>1, <2>2, <2>3 DEF ServerWakes, Notifies
    <2> QED BY <2>1, <2>4, <2>5, <2>6, <2>7, NotedMove
  <1>2. CASE server_signal
    <2> DEFINE t == srv.req
               n == call[t].n
               refused == ReleaseRefused(word, t, n)
               w == ~refused /\ ReleaseWakes(word)
               r == IF refused THEN "error" ELSE IF call[t].what = "pulse" THEN "half" ELSE "success"
    <2>1. /\ srv.pc = "body" /\ srv.fn = "signal" /\ srv' = [srv EXCEPT !.pc = "unlock", !.wakes = w]
          /\ SetRet(t, r) /\ word' = IF refused THEN word ELSE Released(word, n)
          /\ UNCHANGED <<pc, call, doomed, queue, slot, regs>>
      BY <1>2 DEF server_signal, ServerOnly, multis
    <2>2. srv.op = "signal" BY <2>1 DEF WInv, OpOK
    <2>3. t \in Threads /\ pc[t] = "request" BY <2>2 DEF IInv, Safe, RequestOK, WInv, ServedOK
    <2>4. n \in Nat BY <1>0, <2>3, CallType DEF TypeOK
    <2>5. /\ SameObject /\ (StateSignaled(word') => StateSignaled(word) \/ w)
          /\ (~Mutex => word'.low >= 0) /\ (Kind = "manual" => word'.low = word.low \/ word.low # 0 \/ w)
      <3>1. CASE refused BY <1>0, <2>1, <3>1 DEF SameObject
      <3>2. CASE ~refused BY <1>0, <2>1, <2>3, <2>4, <3>2, ReleasedLow DEF SameObject
      <3> QED BY <3>1, <3>2
    <2> HIDE DEF r, w, refused, n
    <2>6. /\ srv'.pc = "unlock" /\ srv'.op = srv.op /\ srv'.fn = srv.fn /\ srv'.req = srv.req
          /\ srv'.cur = srv.cur /\ srv'.pos = srv.pos /\ srv'.wakes = w
      BY <1>0, <2>1 DEF Srv
    <2>7. ServedOK' /\ OpOK' BY <2>1, <2>2, <2>3, <2>6 DEF WInv, ServedOK, OpOK, Checking
    <2>8. ~Notifies /\ ~ServerWakes /\ (w => Notifies' /\ ServerWakes')
      BY <2>1, <2>6 DEF Notifies, ServerWakes, Checking
    <2> QED BY <2>1, <2>3, <2>5, <2>7, <2>8, NotedMove
  <1>3. CASE server_reset
    <2> DEFINE t == srv.req
    <2>1. /\ srv.pc = "body" /\ srv.fn = "reset" /\ srv' = [srv EXCEPT !.pc = "unlock"]
          /\ SetRet(t, "success") /\ word' = [word EXCEPT !.low = 0]
          /\ UNCHANGED <<pc, call, doomed, queue, slot, regs>>
      BY <1>3 DEF server_reset, ServerOnly, multis
    <2>2. srv.op = "reset" /\ Event BY <2>1 DEF WInv, OpOK
    <2>3. t \in Threads /\ pc[t] = "request" BY <2>2 DEF IInv, Safe, RequestOK, WInv, ServedOK
    <2>4. word'.type = word.type /\ word'.multi = word.multi /\ word'.low = 0 BY <1>0, <2>1 DEF Word
    <2>5. ~StateSignaled(word') BY <2>2, <2>4 DEF StateSignaled, Event, Mutex
    <2>6. /\ srv'.pc = "unlock" /\ srv'.op = srv.op /\ srv'.fn = srv.fn /\ srv'.req = srv.req
          /\ srv'.cur = srv.cur /\ srv'.pos = srv.pos
      BY <1>0, <2>1 DEF Srv
    <2>7. ServedOK' /\ OpOK' BY <2>1, <2>2, <2>3, <2>6 DEF WInv, ServedOK, OpOK, Checking
    <2> QED BY <2>1, <2>3, <2>4, <2>5, <2>7, NotedMove DEF SameObject
  <1>4. CASE server_abandon
    <2> DEFINE t == srv.req
               o == Owns(word, t)
    <2>1. /\ srv.pc = "body" /\ srv.fn = "abandon" /\ srv' = [srv EXCEPT !.pc = "unlock", !.wakes = o]
          /\ word' = IF o THEN Abandoned(word, t) ELSE word
          /\ UNCHANGED <<pc, call, loc, doomed, queue, slot, regs>>
      BY <1>4 DEF server_abandon, ServerOnly, multis, client
    <2>2. srv.op = "abandon" BY <2>1 DEF WInv, OpOK
    <2>3. o => Mutex BY DEF Owns
    <2> HIDE DEF o
    <2>4. SameObject
      <3>1. CASE o
        <4> DEFINE g == word.generation + 1
        <4>1. word' = [word EXCEPT !.low = -t, !.high = 0, !.generation = g] BY <2>1, <3>1 DEF Abandoned
        <4> HIDE DEF g
        <4> QED BY <1>0, <4>1 DEF Word, SameObject
      <3>2. CASE ~o BY <2>1, <3>2 DEF SameObject
      <3> QED BY <3>1, <3>2
    <2>5. /\ srv'.pc = "unlock" /\ srv'.op = srv.op /\ srv'.fn = srv.fn /\ srv'.req = srv.req
          /\ srv'.cur = srv.cur /\ srv'.pos = srv.pos /\ srv'.wakes = o
      BY <1>0, <2>1 DEF Srv
    <2>6. ServedOK' /\ OpOK' BY <2>1, <2>2, <2>5 DEF WInv, ServedOK, OpOK, Checking
    <2>7. ~Notifies /\ ~ServerWakes /\ (o => Notifies')
      BY <2>1, <2>5 DEF Notifies, ServerWakes, Checking
    <2>8. MultiOK' /\ (Live' => Live) BY <1>0, <2>1, <2>3, <2>4 DEF WInv, MultiOK, SameObject, Live
    <2>9. \A u \in doomed' : pc[u] # "queued" BY <2>1 DEF WInv, QueuedOK
    <2>10. Kind = "manual" => ~o BY <2>3 DEF Mutex
    <2> QED BY <2>1, <2>6, <2>7, <2>8, <2>9, <2>10, ServerMove
  <1> QED BY <1>1, <1>2, <1>3, <1>4

(* The thread whose request runs is in it, or is being killed.             *)
LEMMA Requester ==
  ASSUME IInv, WInv, srv.op # "none" \/ srv.pc \in {"guarded", "unguard"}
  PROVE  srv.req \in Threads /\ (pc[srv.req] = "request" \/ srv.req \in doomed)
  BY DEF IInv, Safe, RequestOK, WInv, ServedOK

(* Where wineserver goes on after an unlock.                               *)
LEMMA ServerUnlockWake == ASSUME IInv, WInv, server_unlock_state PROVE WInv'
  <1>0. TypeOK /\ word \in Word /\ srv \in Srv BY DEF IInv, TypeOK
  <1>1. srv.pc = "unlock" /\ word' = [word EXCEPT !.locked = FALSE] /\ UNCHANGED <<queue, slot, regs>>
    BY DEF server_unlock_state, ServerOnly, multis
  <1>2. SameLow BY <1>0, <1>1, LockedLow
  <1>3. srv.fn # "none" BY <1>1 DEF IInv, Safe, RequestOK
  <1>4. CASE srv.fn \in {"signaled", "satisfied"}
    <2>1. Checking BY <1>1, <1>4 DEF Checking
    <2>2. UNCHANGED <<pc, call, loc, doomed>> BY <1>4 DEF server_unlock_state, client
    <2>3. ~ServerWakes BY <1>1, <1>4 DEF ServerWakes
    <2>4. CASE \/ srv' = [srv EXCEPT !.pc = "lock", !.fn = "satisfied"]
               \/ srv' = [srv EXCEPT !.pc = "remove"]
      <3>1. /\ srv'.op = srv.op /\ srv'.req = srv.req /\ srv'.cur = srv.cur /\ srv'.pos = srv.pos
            /\ \/ srv'.pc = "lock" /\ srv'.fn = "satisfied"
               \/ srv'.pc = "remove" /\ srv'.fn = srv.fn
        BY <1>0, <2>4 DEF Srv
      <3>2. Checking' BY <3>1 DEF Checking
      <3>3. Notifies => Notifies' BY <1>1, <1>4, <3>1, <3>2 DEF Notifies
      <3>4. ServedOK' /\ OpOK' BY <1>1, <1>4, <2>1, <2>2, <3>1 DEF WInv, ServedOK, OpOK
      <3> QED BY <1>1, <1>2, <2>2, <2>3, <3>3, <3>4, QuietMove
    <2>5. CASE srv.pos = 0 /\ srv' = Srv0
      <3>1. srv'.pc = "idle" /\ srv'.op = "none" /\ srv'.fn = "none" BY <2>5 DEF Srv0
      <3>2. srv.op = "none" BY <2>1, <2>5 DEF WInv, OpOK
      <3>3. ~Notifies BY <1>1, <1>4, <3>2 DEF Notifies
      <3>4. ServedOK' /\ OpOK' BY <3>1, IdleServer
      <3> QED BY <1>1, <1>2, <2>2, <2>3, <3>3, <3>4, QuietMove
    <2>6. CASE srv.pos # 0 /\ srv' = [srv EXCEPT !.pc = "scan", !.pos = @ + 1]
      <3>1. /\ srv'.op = srv.op /\ srv'.req = srv.req /\ srv'.pc = "scan" /\ srv'.fn = srv.fn
        BY <1>0, <2>6 DEF Srv
      <3>2. Notifies => Notifies' BY <1>1, <1>4, <3>1 DEF Notifies
      <3>3. ServedOK' /\ OpOK' BY <1>1, <1>4, <2>2, <3>1 DEF WInv, ServedOK, OpOK, Checking
      <3> QED BY <1>1, <1>2, <2>2, <2>3, <3>2, <3>3, QuietMove
    <2> QED BY <1>4, <2>4, <2>5, <2>6 DEF server_unlock_state
  <1>5. CASE srv.fn = "reset"
    <2>1. srv' = [srv EXCEPT !.pc = "scan", !.pos = 1] /\ UNCHANGED <<pc, call, loc, doomed>>
      BY <1>5 DEF server_unlock_state, client
    <2>2. srv'.op = srv.op /\ srv'.req = srv.req /\ srv'.pc = "scan" /\ srv'.fn = srv.fn
      BY <1>0, <2>1 DEF Srv
    <2>3. srv.op = "reset" BY <1>5 DEF WInv, OpOK
    <2>4. ~Notifies /\ ~ServerWakes BY <1>1, <1>5, <2>3 DEF Notifies, ServerWakes
    <2>5. ServedOK' /\ OpOK' BY <1>1, <1>5, <2>1, <2>2 DEF WInv, ServedOK, OpOK, Checking
    <2> QED BY <1>1, <1>2, <2>1, <2>4, <2>5, QuietMove
  <1>6. CASE srv.fn \in {"signal", "abandon"}
    <2>0. srv.op = srv.fn BY <1>6 DEF WInv, OpOK
    <2>1. ASSUME NEW p \in {"wakeaddr", "wakemulti"}, srv' = [srv EXCEPT !.pc = p], UNCHANGED client,
                 ~srv.wakes \/ p = "wakeaddr"
          PROVE  WInv'
      <3>1. srv'.op = srv.op /\ srv'.req = srv.req /\ srv'.pc = p /\ srv'.fn = srv.fn
        BY <1>0, <2>1 DEF Srv
      <3>2. Notifies' /\ (ServerWakes => ServerWakes') BY <1>1, <2>1, <3>1 DEF Notifies, ServerWakes
      <3>3. ServedOK' /\ OpOK' BY <1>1, <1>6, <2>0, <2>1, <3>1 DEF WInv, ServedOK, OpOK, Checking, client
      <3> QED BY <1>1, <1>2, <2>1, <3>2, <3>3, QuietMove DEF client
    <2>2. CASE srv.wakes
      <3>1. srv' = [srv EXCEPT !.pc = "wakeaddr"] /\ UNCHANGED client
        BY <1>6, <2>2 DEF server_unlock_state
      <3> QED BY <2>1, <3>1
    <2>3. CASE ~srv.wakes /\ Event
      <3>1. srv' = [srv EXCEPT !.pc = "wakemulti"] /\ UNCHANGED client
        BY <1>6, <2>3 DEF server_unlock_state
      <3> QED BY <2>1, <2>3, <3>1
    <2>4. CASE ~srv.wakes /\ ~Event
      <3>1. Reply(srv.req) /\ UNCHANGED doomed BY <1>6, <2>4 DEF server_unlock_state
      <3>2. srv.req \in Threads /\ (pc[srv.req] = "request" \/ srv.req \in doomed)
        BY <1>6, <2>0, Requester
      <3>3. ~Notifies /\ ~ServerWakes BY <1>1, <1>6, <2>4 DEF Notifies, ServerWakes, Checking
      <3>4. /\ MultiOK' /\ (Live' => Live) /\ (StateSignaled(word') <=> StateSignaled(word))
            /\ word'.low = word.low
        BY <1>1, <1>2, StateSignaledLow DEF WInv, MultiOK, SameLow, SameObject, Live
      <3> QED BY <1>1, <3>1, <3>2, <3>3, <3>4, ReplyMove
    <2> QED BY <2>2, <2>3, <2>4
  <1> QED BY <1>0, <1>3, <1>4, <1>5, <1>6 DEF Srv, Fns

(* wineserver wakes sleepers, and has the slots still to do.               *)
LEMMA ServerAddressWake == ASSUME IInv, WInv, server_wake_address PROVE WInv'
  <1>0. TypeOK /\ srv \in Srv BY DEF IInv, TypeOK
  <1> DEFINE all == srv.op = "abandon" \/ WakesAll(call[srv.req].n)
             p == IF Event THEN "wakemulti" ELSE "scan"
  <1>1. /\ srv.pc = "wakeaddr" /\ WakeAddress(all, pc) /\ srv' = [srv EXCEPT !.pc = p, !.pos = 1]
        /\ UNCHANGED <<word, call, loc, doomed, queue, slot, regs>>
    BY DEF server_wake_address, ServerOnly, multis
  <1>2. srv.op \in {"signal", "abandon"} BY <1>1 DEF WInv, OpOK
  <1>3. srv.req \in Threads /\ (pc[srv.req] = "request" \/ srv.req \in doomed)
    BY <1>2, Requester
  <1>4. /\ \A u \in Threads : pc'[u] = pc[u] \/ (pc[u] = "asleep" /\ pc'[u] = "loop")
        /\ all => Asleep' = {}
    <2> HIDE DEF all
    <2> QED BY <1>0, <1>1, WokenMove
  <1>5. QueuedOK' /\ OwesOK' BY <1>1, <1>3, <1>4, WokenThreads
  <1>6. srv'.pc = p /\ srv'.op = srv.op /\ srv'.req = srv.req /\ srv'.fn = srv.fn
    <2> HIDE DEF p
    <2> QED BY <1>0, <1>1 DEF Srv
  <1>7. Notifies' BY <1>2, <1>6 DEF Notifies
  <1>8. ServedOK' /\ OpOK'
    BY <1>1, <1>2, <1>3, <1>4, <1>6 DEF WInv, ServedOK, OpOK, Checking
  <1>9. MultiOK' /\ SlotsOK' BY <1>1, <1>7 DEF WInv, MultiOK, Live, SlotsOK
  <1>10. SleepersOK'
    <2>1. Kind = "manual" => all BY DEF WakesAll
    <2> QED BY <1>4, <2>1 DEF SleepersOK
  <1> QED BY <1>5, <1>8, <1>9, <1>10 DEF WInv

(* The end of wake_up.                                                     *)
LEMMA ScanDoneWake ==
  ASSUME IInv, WInv, srv.pc = "scan", ScanDone, UNCHANGED <<word, queue, slot, regs>> PROVE WInv'
  <1>0. TypeOK /\ srv \in Srv BY DEF IInv, TypeOK
  <1>1. srv.op # "none" BY DEF IInv, Safe, RequestOK
  <1>2. srv.req \in Threads /\ (pc[srv.req] = "request" \/ srv.req \in doomed) BY <1>1, Requester
  <1>3. SameLow BY DEF SameLow, SameObject
  <1>4. ~ServerWakes BY DEF ServerWakes
  <1>5. CASE srv.op = "signal" /\ call[srv.req].what = "pulse"
    <2> DEFINE mx == Max(srv.req)
    <2>1. /\ srv' = [srv EXCEPT !.pc = "lock", !.op = "reset", !.fn = "reset", !.max = mx]
          /\ UNCHANGED <<pc, call, loc, doomed>>
      BY <1>5 DEF ScanDone, client
    <2> HIDE DEF mx
    <2>2. srv'.pc = "lock" /\ srv'.op = "reset" /\ srv'.fn = "reset" /\ srv'.req = srv.req
      BY <1>0, <2>1 DEF Srv
    <2>3. Event BY <1>2, <1>5 DEF WInv, OwesOK, OwesAt
    <2>4. ~Notifies BY <2>3 DEF Notifies, Checking
    <2>5. ServedOK' /\ OpOK' BY <1>5, <2>1, <2>2, <2>3 DEF WInv, ServedOK, OpOK, Checking
    <2> QED BY <1>3, <1>4, <2>1, <2>4, <2>5, QuietMove
  <1>6. CASE ~(srv.op = "signal" /\ call[srv.req].what = "pulse") /\ Event
    <2>1. Reply(srv.req) /\ UNCHANGED doomed BY <1>6 DEF ScanDone
    <2>2. ~Notifies BY <1>6 DEF Notifies, Checking
    <2>3. MultiOK' /\ (Live' => Live) BY DEF WInv, MultiOK, Live
    <2> QED BY <1>2, <1>4, <2>1, <2>2, <2>3, ReplyMove
  <1>7. CASE ~(srv.op = "signal" /\ call[srv.req].what = "pulse") /\ ~Event
    <2>1. srv' = [srv EXCEPT !.pc = "wakemulti"] /\ UNCHANGED client BY <1>7 DEF ScanDone
    <2>2. srv'.pc = "wakemulti" /\ srv'.op = srv.op /\ srv'.fn = srv.fn /\ srv'.req = srv.req
      BY <1>0, <2>1 DEF Srv
    <2>3. srv.op \in {"signal", "abandon"} BY <1>1, <1>7 DEF WInv, OpOK
    <2>4. Notifies' BY <2>2 DEF Notifies
    <2>5. ServedOK' /\ OpOK' BY <2>1, <2>2, <2>3 DEF WInv, ServedOK, OpOK, Checking, client
    <2> QED BY <1>3, <1>4, <2>1, <2>4, <2>5, QuietMove DEF client
  <1> QED BY <1>5, <1>6, <1>7

(* wake_up, and the end of a wait that it, or select_on, has satisfied.    *)
LEMMA ScanWake == ASSUME IInv, WInv, wake_up \/ end_wait PROVE WInv'
  <1>0. TypeOK /\ srv \in Srv /\ queue \in Seq(Threads) BY DEF IInv, TypeOK
  <1>1. CASE wake_up
    <2>1. srv.pc = "scan" /\ UNCHANGED <<word, queue, slot, regs>> BY <1>1 DEF wake_up, ServerOnly, multis
    <2>2. CASE srv.pos > Len(queue)
      <3>1. ScanDone BY <1>1, <2>2 DEF wake_up
      <3> QED BY <2>1, <3>1, ScanDoneWake
    <2>3. CASE ~(srv.pos > Len(queue))
      <3> DEFINE c == queue[srv.pos]
      <3>1. /\ srv' = [srv EXCEPT !.pc = "lock", !.fn = "signaled", !.cur = c]
            /\ UNCHANGED <<pc, call, loc, doomed>>
        BY <1>1, <2>3 DEF wake_up, client
      <3>2. srv.pos \in 1..Len(queue) /\ srv.op # "none"
        BY <1>0, <2>1, <2>3 DEF IInv, Safe, RequestOK, Srv
      <3>3. c \in Threads /\ pc[c] = "queued" BY <1>0, <3>2 DEF WInv, QueuedOK
      <3> HIDE DEF c
      <3>4. /\ srv'.pc = "lock" /\ srv'.fn = "signaled" /\ srv'.cur = c /\ srv'.op = srv.op
            /\ srv'.req = srv.req /\ srv'.pos = srv.pos
        BY <1>0, <3>1 DEF Srv
      <3>5. Checking' BY <3>4 DEF Checking
      <3>6. ~ServerWakes /\ (Notifies => Notifies') BY <2>1, <3>4, <3>5 DEF ServerWakes, Notifies, Checking
      <3>7. ServedOK' /\ OpOK' BY <2>1, <3>1, <3>2, <3>3, <3>4 DEF WInv, ServedOK, OpOK, Checking
      <3>8. SameLow BY <2>1 DEF SameLow, SameObject
      <3> QED BY <2>1, <3>1, <3>6, <3>7, <3>8, QuietMove
    <2> QED BY <2>2, <2>3
  <1>2. CASE end_wait
    <2> DEFINE c == srv.cur
               mx == IF srv.max > 0 THEN srv.max - 1 ELSE 0
               ps == IF srv.max = 1 THEN Len(queue) ELSE 1
    <2>1. /\ srv.pc = "remove" /\ Dequeue(c) /\ Return(c) /\ UNCHANGED <<doomed, slot, regs>>
          /\ srv' = IF srv.pos = 0 THEN Srv0
                    ELSE [srv EXCEPT !.pc = "scan", !.max = mx, !.pos = ps, !.cur = 0]
      BY <1>2 DEF end_wait, ServerOnly, multis
    <2> HIDE DEF mx, ps
    <2>2. Checking BY <2>1 DEF Checking
    <2>3. c \in Threads /\ pc[c] = "queued" BY <2>2 DEF WInv, ServedOK
    <2>4. ServedOK' /\ OpOK' /\ (Notifies => Notifies')
      <3>1. CASE srv.pos = 0
        <4>1. srv'.pc = "idle" /\ srv'.op = "none" /\ srv'.fn = "none" BY <2>1, <3>1 DEF Srv0
        <4>2. srv.op = "none" BY <2>2, <3>1 DEF WInv, OpOK
        <4>3. ~Notifies BY <2>1, <4>2 DEF Notifies
        <4> QED BY <4>1, <4>3, IdleServer
      <3>2. CASE srv.pos # 0
        <4>1. srv'.pc = "scan" /\ srv'.op = srv.op /\ srv'.fn = srv.fn /\ srv'.req = srv.req
          BY <1>0, <2>1, <3>2 DEF Srv
        <4>2. Notifies => Notifies' BY <2>1, <4>1 DEF Notifies
        <4>3. srv.op # "none" BY <1>0, <3>2 DEF IInv, Safe, RequestOK, Srv
        <4>4. srv.req \in Threads BY <4>3, Requester
        <4>5. pc'[srv.req] = pc[srv.req] \/ srv.req = c BY <1>0, <2>1, <2>3, <4>4, ReturnAlone DEF Alone
        <4>6. ServedOK' BY <2>1, <2>3, <4>1, <4>3, <4>5 DEF WInv, ServedOK, Checking
        <4>7. OpOK' BY <2>1, <4>1 DEF WInv, OpOK, Checking
        <4> QED BY <4>2, <4>6, <4>7
      <3> QED BY <3>1, <3>2
    <2> QED BY <2>1, <2>3, <2>4, ReleaseMove
  <1> QED BY <1>1, <1>2

(* Every step of wineserver keeps the invariant.                           *)
LEMMA ServerWake == ASSUME IInv, WInv, ServerStep PROVE WInv'
  <1>0. /\ TypeOK /\ word \in Word /\ srv \in Srv /\ (~Mutex => word.low >= 0)
        /\ \A u \in doomed : pc[u] # "queued"
    BY DEF IInv, TypeOK, WInv, MultiOK, QueuedOK
  <1>1. CASE server_lock_state
    <2>1. /\ srv.pc = "lock" /\ word' = [word EXCEPT !.locked = TRUE] /\ srv' = [srv EXCEPT !.pc = "body"]
          /\ UNCHANGED <<pc, call, loc, doomed, queue, slot, regs>>
      BY <1>1 DEF server_lock_state, ServerOnly, multis, client
    <2>2. /\ srv'.pc = "body" /\ srv'.op = srv.op /\ srv'.fn = srv.fn /\ srv'.req = srv.req
          /\ srv'.cur = srv.cur /\ srv'.pos = srv.pos
      BY <1>0, <2>1 DEF Srv
    <2>3. SameLow BY <1>0, <2>1, LockedLow
    <2>4. ~ServerWakes /\ (Notifies => Notifies') BY <2>1, <2>2 DEF ServerWakes, Notifies, Checking
    <2>5. ServedOK' /\ OpOK' BY <2>1, <2>2 DEF WInv, ServedOK, OpOK, Checking
    <2> QED BY <2>1, <2>3, <2>4, <2>5, QuietMove
  <1>2. CASE server_signaled
    <2> DEFINE k == Signaled(word, srv.cur)
    <2>1. /\ srv.pc = "body" /\ srv.fn = "signaled" /\ srv' = [srv EXCEPT !.pc = "unlock", !.ok = k]
          /\ UNCHANGED <<word, pc, call, loc, doomed, queue, slot, regs>>
      BY <1>2 DEF server_signaled, ServerOnly, multis, client
    <2> HIDE DEF k
    <2>2. /\ srv'.pc = "unlock" /\ srv'.op = srv.op /\ srv'.fn = srv.fn /\ srv'.req = srv.req
          /\ srv'.cur = srv.cur /\ srv'.pos = srv.pos
      BY <1>0, <2>1 DEF Srv
    <2>3. SameLow BY <2>1 DEF SameLow, SameObject
    <2>4. ~ServerWakes /\ (Notifies => Notifies') BY <2>1, <2>2 DEF ServerWakes, Notifies, Checking
    <2>5. ServedOK' /\ OpOK' BY <2>1, <2>2 DEF WInv, ServedOK, OpOK, Checking
    <2> QED BY <2>1, <2>3, <2>4, <2>5, QuietMove
  <1>3. CASE server_wake_multi
    <2>1. /\ srv.pc = "wakemulti" /\ UNCHANGED <<word, queue, regs>>
          /\ slot' = [m \in MultiWaiters |-> IF m \in regs THEN 0 ELSE slot[m]]
      BY <1>3 DEF server_wake_multi
    <2>2. \A m \in regs : slot'[m] = 0 BY <1>0, <2>1 DEF TypeOK
    <2>3. srv.op \in {"signal", "abandon"} BY <2>1 DEF WInv, OpOK
    <2>4. MultiOK' /\ (Live' => Live) /\ ~ServerWakes BY <2>1 DEF WInv, MultiOK, Live, ServerWakes
    <2>5. CASE Event
      <3>1. srv' = [srv EXCEPT !.pc = "scan", !.pos = 1] /\ UNCHANGED <<pc, call, loc, doomed>>
        BY <1>3, <2>5 DEF server_wake_multi, client
      <3>2. srv'.pc = "scan" /\ srv'.op = srv.op /\ srv'.fn = srv.fn /\ srv'.req = srv.req
        BY <1>0, <3>1 DEF Srv
      <3>3. ServedOK' /\ OpOK' BY <2>1, <3>1, <3>2 DEF WInv, ServedOK, OpOK, Checking
      <3> QED BY <1>0, <2>1, <2>2, <2>4, <3>1, <3>3, ServerMove
    <2>6. CASE ~Event
      <3>1. Reply(srv.req) /\ UNCHANGED doomed BY <1>3, <2>6 DEF server_wake_multi
      <3>2. srv.req \in Threads /\ (pc[srv.req] = "request" \/ srv.req \in doomed) BY <2>3, Requester
      <3> QED BY <2>1, <2>2, <2>4, <3>1, <3>2, ReplyMove
    <2> QED BY <2>5, <2>6
  <1>4. CASE register_check
    <2>1. /\ srv.pc = "regcheck" /\ srv' = Srv0 /\ UNCHANGED <<word, pc, call, loc, doomed, queue, regs>>
          /\ slot' = IF StateSignaled(word) THEN [slot EXCEPT ![srv.m] = 0] ELSE slot
      BY <1>4 DEF register_check, client
    <2>2. srv'.pc = "idle" /\ srv'.op = "none" /\ srv'.fn = "none" BY <2>1 DEF Srv0
    <2>3. ServedOK' /\ OpOK' BY <2>2, IdleServer
    <2>4. ~Notifies /\ ~ServerWakes BY <2>1 DEF Notifies, ServerWakes, Checking
    <2>5. ASSUME NEW m \in regs, slot'[m] = 1, StateSignaled(word) PROVE slot[m] = 1 /\ m # srv.m
      BY <1>0, <2>1, <2>5 DEF TypeOK
    <2>6. MultiOK' /\ (Live' => Live) BY <2>1 DEF WInv, MultiOK, Live
    <2> QED BY <1>0, <2>1, <2>3, <2>4, <2>5, <2>6, ServerMove
  <1>5. CASE wait_all_consume
    <2> DEFINE t == srv.req
    <2>1. /\ srv.pc = "guarded" /\ srv' = [srv EXCEPT !.pc = "unguard"]
          /\ UNCHANGED <<pc, call, doomed, queue, slot, regs>>
      BY <1>5 DEF wait_all_consume, ServerOnly, multis
    <2>2. srv.op = "none" /\ srv.fn = "none" BY <2>1 DEF WInv, OpOK
    <2>3. t \in Threads /\ pc[t] = "request" BY <2>1, <2>2, Requester DEF WInv, ServedOK
    <2>4. srv'.pc = "unguard" /\ srv'.op = "none" /\ srv'.fn = "none" /\ srv'.req = srv.req
      BY <1>0, <2>1, <2>2 DEF Srv
    <2>5. ~Notifies /\ ~ServerWakes BY <2>1 DEF Notifies, ServerWakes, Checking
    <2>6. ServedOK' /\ OpOK' BY <2>1, <2>2, <2>4 DEF WInv, ServedOK, OpOK, Checking
    <2>7. CASE Signaled(word, t) /\ word' = Consumed(word, t) /\ SetRet(t, ConsumedStatus(word))
      <3>1. /\ SameObject /\ (StateSignaled(word') => StateSignaled(word))
            /\ (~Mutex => word'.low >= 0) /\ (Kind = "manual" => word'.low = word.low)
        BY <1>0, <2>3, <2>7, ConsumedLow DEF SameObject
      <3> DEFINE r == ConsumedStatus(word)
      <3>2. SetRet(t, r) BY <2>7
      <3> HIDE DEF r
      <3> QED BY <2>1, <2>3, <2>5, <2>6, <3>1, <3>2, NotedMove
    <2>8. CASE UNCHANGED <<word, loc>>
      <3>1. SameLow BY <2>8 DEF SameLow, SameObject
      <3> QED BY <2>1, <2>5, <2>6, <2>8, <3>1, QuietMove
    <2> QED BY <1>5, <2>7, <2>8 DEF wait_all_consume
  <1>6. CASE wait_all_unguard
    <2>1. /\ srv.pc = "unguard" /\ word' = [word EXCEPT !.server = FALSE] /\ Reply(srv.req)
          /\ UNCHANGED <<doomed, queue, slot, regs>>
      BY <1>6 DEF wait_all_unguard, ServerOnly, multis
    <2>2. srv.req \in Threads /\ (pc[srv.req] = "request" \/ srv.req \in doomed) BY <2>1, Requester
    <2>3. SameLow BY <1>0, <2>1, ServerFlagLow
    <2>4. ~Notifies /\ ~ServerWakes BY <2>1 DEF Notifies, ServerWakes, Checking
    <2>5. /\ MultiOK' /\ (Live' => Live) /\ (StateSignaled(word') <=> StateSignaled(word))
          /\ word'.low = word.low
      BY <2>1, <2>3, StateSignaledLow DEF WInv, MultiOK, SameLow, SameObject, Live
    <2> QED BY <2>1, <2>2, <2>4, <2>5, ReplyMove
  <1>7. CASE destroy_generation
    <2> DEFINE g == word.generation + 1
    <2>1. /\ srv.pc = "destroyed" /\ srv' = Srv0 /\ word' = [word EXCEPT !.generation = g]
          /\ UNCHANGED <<pc, call, loc, doomed, queue, slot, regs>>
      BY <1>7 DEF destroy_generation, client, multis
    <2> HIDE DEF g
    <2>2. srv'.pc = "idle" /\ srv'.op = "none" /\ srv'.fn = "none" BY <2>1 DEF Srv0
    <2>3. ServedOK' /\ OpOK' BY <2>2, IdleServer
    <2>4. ~Notifies /\ ~ServerWakes BY <2>1 DEF Notifies, ServerWakes, Checking
    <2>5. SameLow BY <1>0, <2>1 DEF SameLow, SameObject, Word
    <2> QED BY <2>1, <2>3, <2>4, <2>5, QuietMove
  <1> QED BY <1>1, <1>2, <1>3, <1>4, <1>5, <1>6, <1>7, BodyWake, ServerUnlockWake, ServerAddressWake,
             ScanWake DEF ServerStep

-----------------------------------------------------------------------------
(* The invariant holds at first.                                           *)
LEMMA InitWInv == ASSUME Init PROVE WInv /\ KilledOK
  <1>1. srv.pc = "idle" /\ srv.op = "none" /\ srv.fn = "none" BY DEF Init, Srv0
  <1>2. queue = <<>> /\ doomed = {} /\ regs = {} BY DEF Init
  <1>3. \A t \in Threads : pc[t] = "idle" /\ call[t] = NoCall /\ loc[t] = Loc0 BY DEF Init
  <1>4. QueuedOK /\ KilledOK BY <1>2 DEF QueuedOK, KilledOK
  <1>5. ServedOK /\ OpOK BY <1>1 DEF ServedOK, OpOK, Checking
  <1>6. OwesOK
    <2>1. ASSUME NEW t \in Threads PROVE OwesAt(t)
      <3>1. ~loc[t].wakes /\ loc[t].expect = 0 BY <1>3, FreshLocals
      <3>2. call[t].what = "none" BY <1>3 DEF NoCall
      <3> QED BY <1>3, <3>1, <3>2 DEF OwesAt, FastPCs
    <2> QED BY <2>1 DEF OwesOK
  <1>7. MultiOK /\ SlotsOK
    <2>1. ~Mutex => InitLow >= 0
      BY InitAssumption, KindAssumption DEF Mutex, Semaphore, Event
    <2>2. word.low = InitLow BY DEF Init, create_wfusync
    <2> QED BY <1>2, <2>1, <2>2 DEF MultiOK, SlotsOK
  <1>8. SleepersOK BY <1>3 DEF SleepersOK, Asleep
  <1> QED BY <1>4, <1>5, <1>6, <1>7, <1>8 DEF WInv

(* kill_thread alone marks a thread for SIGQUIT.                           *)
LEMMA NextKilled == ASSUME IInv, KilledOK, [Next]_vars PROVE KilledOK'
  <1>1. ASSUME NEW t \in Threads, ThreadStep(t) \/ wait_timeout(t) PROVE doomed' = doomed
    BY <1>1 DEF ThreadStep, wait_timeout, check, lock_state, lock_state_fails, consume, recheck, signal,
            unlock_state, refresh_cache_generation, wait_loop, load_owner, wait_address,
            wake_address, check_multi, ClientOnly
  <1>2. ASSUME NEW t \in Threads, ServerAccept(t) \/ thread_timeout(t) PROVE doomed' = doomed
    BY <1>2 DEF ServerAccept, thread_timeout, add_server_waiter, start_request, reply_at_once,
            wake_wfusync_waiters, try_wait_all, client
  <1>3. ASSUME server_lock_state \/ server_signaled \/ server_satisfied \/ server_signal \/ server_reset
               \/ server_abandon \/ server_wake_address \/ end_wait \/ register_check
               \/ wait_all_consume \/ wait_all_unguard \/ destroy_generation
        PROVE  doomed' = doomed
    BY <1>3 DEF server_lock_state, server_signaled, server_satisfied, server_signal, server_reset,
            server_abandon, server_wake_address, end_wait, register_check, wait_all_consume,
            wait_all_unguard, destroy_generation, client
  <1>4. ASSUME server_unlock_state \/ server_wake_multi \/ wake_up PROVE doomed' = doomed
    <2>1. CASE server_unlock_state
      <3>1. srv.fn \in {"signaled", "satisfied", "reset", "signal", "abandon"}
        BY <2>1 DEF server_unlock_state, IInv, TypeOK, Safe, RequestOK, Srv, Fns
      <3>2. CASE srv.fn \in {"signaled", "satisfied", "reset"} BY <2>1, <3>2 DEF server_unlock_state, client
      <3>3. CASE srv.fn \in {"signal", "abandon"} BY <2>1, <3>3 DEF server_unlock_state, client
      <3> QED BY <3>1, <3>2, <3>3
    <2>2. CASE server_wake_multi BY <2>2 DEF server_wake_multi, client
    <2>3. CASE wake_up BY <2>3 DEF wake_up, ScanDone, client
    <2> QED BY <1>4, <2>1, <2>2, <2>3
  <1>5. ASSUME Environment PROVE KilledOK'
    <2>1. ASSUME NEW t \in Threads, kill_thread(t) PROVE KilledOK' BY <2>1 DEF kill_thread, KilledOK
    <2>2. ASSUME NEW t \in Threads, Invoke(t) \/ wait_interrupted(t) \/ sigquit(t) PROVE KilledOK'
      BY <2>2 DEF Invoke, wait_interrupted, sigquit, ClientOnly, KilledOK
    <2>3. ASSUME NEW m \in MultiWaiters, register_wait(m) \/ unregister_wait(m) PROVE KilledOK'
      BY <2>3 DEF register_wait, unregister_wait, client, KilledOK
    <2>4. CASE destroy BY <2>4 DEF destroy, client, KilledOK
    <2> QED BY <1>5, <2>1, <2>2, <2>3, <2>4 DEF Environment
  <1>6. CASE UNCHANGED vars BY <1>6 DEF vars, client, KilledOK
  <1> QED BY <1>1, <1>2, <1>3, <1>4, <1>5, <1>6 DEF Next, ServerStep, KilledOK

(* Every step keeps the invariant.                                         *)
LEMMA NextWInv == ASSUME IInv, KilledOK, WInv, [Next]_vars PROVE WInv'
  <1>1. ASSUME NEW t \in Threads, ThreadStep(t) PROVE WInv' BY <1>1, ThreadWake
  <1>2. ASSUME NEW t \in Threads, ServerAccept(t) \/ thread_timeout(t) PROVE WInv' BY <1>2, AcceptWake
  <1>3. CASE Environment \/ \E t \in Threads : wait_timeout(t) BY <1>3, EnvironmentWake
  <1>4. CASE ServerStep BY <1>4, ServerWake
  <1>5. CASE UNCHANGED vars
    <2>1. UNCHANGED <<word, pc, call, loc, doomed, srv, queue, slot, regs>> BY <1>5 DEF vars, client, multis
    <2> QED BY <2>1
            DEF WInv, QueuedOK, ServedOK, OpOK, OwesOK, OwesAt, MultiOK, SlotsOK, SleepersOK, Checking,
                Notifies, Wakes, ServerWakes, Live, Asleep
  <1> QED BY <1>1, <1>2, <1>3, <1>4, <1>5 DEF Next

(* So it holds for ever.                                                   *)
LEMMA InductiveWake == Spec => [](IInv /\ KilledOK /\ WInv)
  <1>1. KilledOK /\ IInv /\ [Next]_vars => KilledOK' BY NextKilled
  <1>2. IInv /\ KilledOK /\ WInv /\ [Next]_vars => WInv' BY NextWInv
  <1>3. Init => WInv /\ KilledOK BY InitWInv
  <1> QED BY <1>1, <1>2, <1>3, InitIInv, NextIInv, PTL DEF Spec

-----------------------------------------------------------------------------
(* A thread that is killed from outside between its release of the object  *)
(* and the wake it owes takes the wake with it: that is what               *)
(* NtTerminateThread does.  The theorems are about programs that do not    *)
(* terminate the threads that signal on the fast path.                     *)
QuietKilled == \A t \in Killable : \A c \in CallsOf[t] : c.what = "signal" => ~c.fast

(* Then nobody who owes a wake is dead.                                    *)
LEMMA OwerAlive ==
  ASSUME QuietKilled, IInv, WInv, NEW t \in Threads, loc[t].wakes
  PROVE  pc[t] \in {"unlock", "wake", "multi", "notify"}
  <1>1. OwesAt(t) BY DEF WInv, OwesOK
  <1>2. pc[t] \in {"unlock", "wake", "multi", "notify", "dead"} BY <1>1 DEF OwesAt
  <1>3. call[t] \in CallsOf[t] /\ call[t].what = "signal" /\ call[t].fast BY <1>1 DEF OwesAt
  <1>4. t \notin Killable BY <1>3 DEF QuietKilled
  <1> QED BY <1>1, <1>2, <1>4 DEF OwesAt

(* A multi-waiter registered with wfusync_register_wait is never left      *)
(* asleep on a signaled object: either the registration saw the object     *)
(* signaled, or whoever releases or abandons it, thread or wineserver,     *)
(* finds MULTI_WAITERS after the release and wakes the slots, for any      *)
(* number of threads and multi-waiters and any interleaving of the two.    *)
THEOREM MultiWaitersWoken == QuietKilled => (Spec => []NoLostMultiWake)
  <1> SUFFICES ASSUME QuietKilled PROVE Spec => []NoLostMultiWake OBVIOUS
  <1>1. IInv /\ KilledOK /\ WInv => NoLostMultiWake
    <2> SUFFICES ASSUME IInv, WInv, NEW m \in regs, slot[m] = 1, StateSignaled(word), Live
                 PROVE  NotifyPending \/ (srv.pc = "regcheck" /\ srv.m = m)
      BY DEF NoLostMultiWake
    <2>1. CASE \E t \in Threads : loc[t].wakes
      <3>1. PICK t \in Threads : loc[t].wakes BY <2>1
      <3>2. pc[t] \in {"unlock", "wake", "multi", "notify"} BY <3>1, OwerAlive
      <3> QED BY <3>1, <3>2 DEF NotifyPending, WakePending
    <2>2. CASE Notifies
      <3>1. srv.op \in {"signal", "abandon"} BY <2>2 DEF Notifies, WInv, OpOK
      <3>2. srv.pc # "idle" BY <2>2 DEF Notifies, Checking
      <3> QED BY <3>1, <3>2 DEF NotifyPending
    <2> QED BY <2>1, <2>2 DEF WInv, SlotsOK
  <1> QED BY <1>1, InductiveWake, PTL

(* No thread sleeps in wfusync_wait_address on a manual-reset event that   *)
(* is set, unless the wake that reaches every sleeper is on its way: the   *)
(* kernel compares the word with the value the thread found before it      *)
(* lets it sleep, and NtSetEvent wakes after it changes the word.          *)
THEOREM SleepersWoken == QuietKilled => (Spec => []NoLostAddressWake)
  <1> SUFFICES ASSUME QuietKilled PROVE Spec => []NoLostAddressWake OBVIOUS
  <1>1. IInv /\ KilledOK /\ WInv => NoLostAddressWake
    <2> SUFFICES ASSUME IInv, WInv, Kind = "manual", Live, word.low # 0, Asleep # {} PROVE WakePending
      BY DEF NoLostAddressWake
    <2>1. Wakes BY DEF WInv, SleepersOK
    <2>2. CASE \E t \in Threads : loc[t].wakes /\ pc[t] \in {"unlock", "wake", "dead"}
      <3>1. PICK t \in Threads : loc[t].wakes /\ pc[t] \in {"unlock", "wake", "dead"} BY <2>2
      <3>2. pc[t] # "dead" BY <3>1, OwerAlive
      <3> QED BY <3>1, <3>2 DEF WakePending
    <2>3. CASE ServerWakes BY <2>3 DEF ServerWakes, WakePending
    <2> QED BY <2>1, <2>2, <2>3 DEF Wakes
  <1> QED BY <1>1, InductiveWake, PTL

-----------------------------------------------------------------------------
(* The implementation of NtObject.                                         *)

(* The recursion count of a mutex has not reached the end of a C int.      *)
NoOverflow == Mutex => word.high < IntMax

-----------------------------------------------------------------------------
(* The inductive invariant, on top of IInv and WInv.                       *)

(* The two halves of the word agree on whether a mutex is owned; the limit *)
(* of a semaphore stays.                                                   *)
ValueOK ==
  /\ Mutex => \/ word.low <= 0 /\ word.high = 0
              \/ word.low > 0 /\ word.high > 0
  /\ Semaphore => word.high = InitHigh

(* The call has had no effect yet; the wait has taken the object.          *)
Open == {"none", "timeout", "bail"}
Taken == {"success", "abandoned"}

(* What a thread's place in the client's code says of its call.            *)
RetAt(t) ==
  /\ pc[t] = "idle" => loc[t].ret = "none"
  /\ pc[t] \in {"check", "lock", "body", "write", "loop", "owner", "sleep", "asleep"} => loc[t].ret \in Open
  /\ pc[t] = "unlock" => loc[t].ret \in Taken \cup {"error", "timeout", "bail"}
  /\ pc[t] \in {"refresh", "wake", "multi", "notify"} => loc[t].ret \in Taken
  /\ \/ pc[t] \in {"loop", "owner", "sleep", "asleep", "queued"}
     \/ pc[t] = "unlock" /\ loc[t].ret = "timeout"
     => call[t].what = "wait"
RetOK == \A t \in Threads : RetAt(t)

(* wineserver has satisfied t's wait, or carries t's request out.          *)
Answered(t) == srv.cur = t /\ (srv.pc = "remove" \/ (srv.fn = "satisfied" /\ srv.pc = "unlock"))
Runs(t) == srv.req = t /\ (srv.op \in {"signal", "reset"} \/ srv.pc \in {"guarded", "unguard"})

(* A call handed to wineserver has had no effect before.                   *)
HandedAt(t) ==
  /\ pc[t] = "queued" => loc[t].ret \in Open \/ (Answered(t) /\ loc[t].ret \in Taken)
  /\ pc[t] = "request" => loc[t].ret \in Open \/ Runs(t)
HandedOK == \A t \in Threads : HandedAt(t)

(* How far the request being carried out has come.                         *)
Before(fn) == srv.fn = fn /\ srv.pc \in {"lock", "body"}
What == call[srv.req].what
Ret == loc[srv.req].ret
SignalOK == /\ What \in {"signal", "pulse"}
            /\ Before("signal") => Ret \in Open
            /\ ~Before("signal") => IF What = "pulse" THEN Ret = "half" ELSE Ret \in {"success", "error"}
ResetOK == /\ What \in {"reset", "pulse"}
           /\ Before("reset") => IF What = "pulse" THEN Ret = "half" ELSE Ret \in Open
           /\ ~Before("reset") => Ret = "success"
TryAllOK == What = "tryall" /\ Ret \in IF srv.pc = "guarded" THEN Open ELSE Open \cup Taken
RunOK ==
  /\ srv.op = "signal" => SignalOK
  /\ srv.op = "reset" => ResetOK
  /\ srv.op = "abandon" => What = "exit" \/ srv.req \in doomed
  /\ srv.pc \in {"guarded", "unguard"} => TryAllOK

RInv == ValueOK /\ RetOK /\ HandedOK /\ RunOK

-----------------------------------------------------------------------------
(* Steps of the abstract object, one thread at a time.                     *)

(* The abstract object: its count, its owner, its mark of abandonment.     *)
Count == IF Mutex THEN word.high ELSE word.low
Owner == IF Mutex /\ word.low > 0 THEN word.low ELSE 0
Marked == Mutex /\ word.low < 0

SameValue == /\ word'.low = word.low /\ word'.high = word.high
             /\ word'.type = word.type

(* t's status becomes s and its call stays; nobody else notices.           *)
Turns(t, s) == Status(t)' = s /\ \A u \in Threads \ {t} : Status(u)' = Status(u)
Becomes(t, s) == Turns(t, s) /\ call' = call

Step == Nt!Next \/ UNCHANGED Nt!vars

LEMMA StatusOf ==
  ASSUME NEW t \in Threads, NEW s, Turns(t, s)
  PROVE  [u \in Threads |-> Status(u)]' = [[u \in Threads |-> Status(u)] EXCEPT ![t] = s]
  BY DEF Turns, Status

LEMMA NtQuiet ==
  ASSUME SameValue, call' = call, \A u \in Threads : Status(u)' = Status(u)
  PROVE  UNCHANGED Nt!vars
  BY DEF SameValue, Nt!vars, Nt!object, Live, Status

LEMMA NtBecome ==
  ASSUME NEW t \in Threads, NEW s, Becomes(t, s), word'.type = word.type
  PROVE  Nt!Become(t, s)
  <1>1. [u \in Threads |-> Status(u)]' = [[u \in Threads |-> Status(u)] EXCEPT ![t] = s]
    BY StatusOf DEF Becomes
  <1> QED BY <1>1 DEF Nt!Become, Becomes, Live

LEMMA NtTurn ==
  ASSUME TypeOK', NEW t \in Threads, NEW s, Turns(t, s), SameValue,
         \A u \in Threads \ {t} : call'[u] = call[u]
  PROVE  Nt!Turn(t, s)
  <1>1. [u \in Threads |-> Status(u)]' = [[u \in Threads |-> Status(u)] EXCEPT ![t] = s]
    BY StatusOf
  <1>2. ASSUME NEW u \in Threads PROVE <<call'[u].what, call'[u].n>> \in Nt!Asked
    BY DEF TypeOK, Call, NoCall, Whats, Nt!Asked
  <1>3. [u \in Threads |-> <<call[u].what, call[u].n>>]' \in [Threads -> Nt!Asked]
    BY <1>2
  <1>4. UNCHANGED Nt!object /\ Live' = Live BY DEF SameValue, Nt!object, Live
  <1> QED BY <1>1, <1>3, <1>4 DEF Nt!Turn

(* A call begins, ends, or dies with its thread.                           *)
LEMMA NtBegin ==
  ASSUME TypeOK', NEW t \in Threads, Status(t) = "idle", Turns(t, "pending"), SameValue,
         \A u \in Threads \ {t} : call'[u] = call[u]
  PROVE  Step
  <1>1. Nt!Turn(t, "pending") BY NtTurn
  <1>2. Nt!Begin(t) BY <1>1 DEF Nt!Begin
  <1> QED BY <1>2 DEF Step, Nt!Next

MayEnd(t) ==
  \/ Status(t) \in {"success", "abandoned", "error"}
  \/ Status(t) = "pending" /\ (call[t].what \in {"wait", "tryall"} \/ ~Live)

LEMMA NtEnd ==
  ASSUME TypeOK', NEW t \in Threads, MayEnd(t), Turns(t, "idle"), SameValue,
         \A u \in Threads \ {t} : call'[u] = call[u]
  PROVE  Step
  <1>1. Nt!Turn(t, "idle") BY NtTurn
  <1>2. Nt!End(t) BY <1>1 DEF Nt!End, Nt!Pending, Nt!Finished, MayEnd
  <1> QED BY <1>2 DEF Step, Nt!Next

LEMMA NtDie ==
  ASSUME NEW t \in Threads, Becomes(t, "dead"), SameValue
  PROVE  Step
  <1>1. Nt!Become(t, "dead") BY NtBecome DEF SameValue
  <1>2. Nt!Die(t) BY <1>1 DEF Nt!Die, Nt!object, SameValue
  <1> QED BY <1>2 DEF Step, Nt!Next

(* A wait takes the object.                                                *)
LEMMA NtSatisfied ==
  ASSUME TypeOK, ValueOK, NEW t \in Threads, Status(t) = "pending", call[t].what \in {"wait", "tryall"},
         Signaled(word, t), Mutex /\ word.low = t => word.high # IntMax,
         word' = Consumed(word, t), word'.type = word.type, Becomes(t, ConsumedStatus(word))
  PROVE  Step
  <1>0. word.low \in Int /\ word.high \in Int /\ t \in Nat \ {0} /\ IntMax \in Nat \ {0}
    BY ThreadsAssumption, WidthAssumption DEF TypeOK, Word
  <1>1. Nt!Become(t, ConsumedStatus(word)) BY NtBecome
  <1>2. ConsumedStatus(word) = IF Mutex /\ word.low < 0 THEN "abandoned" ELSE "success"
    BY DEF ConsumedStatus
  <1>3. Nt!Pending(t, {"wait", "tryall"}) BY DEF Nt!Pending
  <1>4. CASE Kind = "auto"
    <2>1. word' = [word EXCEPT !.low = 0] BY <1>4 DEF Consumed
    <2>2. word'.low = 0 BY <2>1 DEF TypeOK, Word
    <2>3. Nt!Satisfied(t)
      BY <1>1, <1>2, <1>3, <1>4, <2>2 DEF Nt!Satisfied, Nt!Signaled, Nt!Mutex, Mutex, Signaled
    <2> QED BY <2>3 DEF Step, Nt!Next
  <1>5. CASE Kind = "manual"
    <2>1. word' = word BY <1>5 DEF Consumed
    <2>3. Nt!Satisfied(t)
      BY <1>1, <1>2, <1>3, <1>5, <2>1 DEF Nt!Satisfied, Nt!Signaled, Nt!Mutex, Mutex, Signaled
    <2> QED BY <2>3 DEF Step, Nt!Next
  <1>6. CASE Kind = "semaphore"
    <2>1. word' = [word EXCEPT !.low = word.low - 1] BY <1>6 DEF Consumed
    <2>2. word'.low = word.low - 1 BY <2>1 DEF TypeOK, Word
    <2>3. Nt!Satisfied(t)
      BY <1>1, <1>2, <1>3, <1>6, <2>2 DEF Nt!Satisfied, Nt!Signaled, Nt!Mutex, Mutex, Signaled
    <2> QED BY <2>3 DEF Step, Nt!Next
  <1>7. CASE Kind = "mutex" /\ word.low = t
    <2>1. word' = [word EXCEPT !.high = Inc(word.high)] BY <1>7 DEF Consumed
    <2>2. Inc(word.high) = word.high + 1 BY <1>7 DEF Inc, Mutex
    <2>3. word'.low = t /\ word'.high = word.high + 1 BY <1>7, <2>1, <2>2 DEF TypeOK, Word
    <2>4. Nt!Satisfied(t)
      BY <1>0, <1>1, <1>2, <1>3, <1>7, <2>3 DEF Nt!Satisfied, Nt!Signaled, Nt!Mutex, Mutex
    <2> QED BY <2>4 DEF Step, Nt!Next
  <1>8. CASE Kind = "mutex" /\ word.low # t
    <2> DEFINE g == IF word.low < 0 THEN word.generation + 1 ELSE word.generation
    <2>1. word' = [word EXCEPT !.low = t, !.high = 1, !.generation = g] BY <1>8 DEF Consumed
    <2> HIDE DEF g
    <2>2. word'.low = t /\ word'.high = 1 BY <2>1 DEF TypeOK, Word
    <2>3. word.low <= 0 /\ word.high = 0 BY <1>0, <1>8 DEF Signaled, Mutex, ValueOK
    <2>4. Nt!Satisfied(t)
      BY <1>0, <1>1, <1>2, <1>3, <1>8, <2>2, <2>3 DEF Nt!Satisfied, Nt!Signaled, Nt!Mutex, Mutex
    <2> QED BY <2>4 DEF Step, Nt!Next
  <1> QED BY <1>4, <1>5, <1>6, <1>7, <1>8, KindAssumption

(* SetEvent, ReleaseSemaphore and ReleaseMutant, done or refused.          *)
LEMMA NtReleased ==
  ASSUME TypeOK, ValueOK, NEW t \in Threads, Status(t) = "pending",
         call[t].what = "signal" \/ (call[t].what = "pulse" /\ Event),
         word' = IF ReleaseRefused(word, t, call[t].n) THEN word ELSE Released(word, call[t].n),
         word'.type = word.type,
         Becomes(t, IF ReleaseRefused(word, t, call[t].n) THEN "error"
                    ELSE IF call[t].what = "pulse" THEN "half" ELSE "success")
  PROVE  Step
  <1> DEFINE n == call[t].n
             refused == ReleaseRefused(word, t, n)
  <1>0. word.low \in Int /\ word.high \in Int /\ t \in Nat \ {0}
    BY ThreadsAssumption DEF TypeOK, Word
  <1>1. Nt!Become(t, IF refused THEN "error" ELSE IF call[t].what = "pulse" THEN "half" ELSE "success")
    BY NtBecome
  <1>2. CASE Event
    <2>1. ~refused BY <1>2 DEF ReleaseRefused, Event, Semaphore, Mutex
    <2>2. word' = [word EXCEPT !.low = 1] BY <1>2, <2>1 DEF Released, Event, Semaphore, Mutex
    <2>3. word'.low = 1 BY <2>2 DEF TypeOK, Word
    <2>4. Nt!Set(t)
      BY <1>1, <1>2, <2>1, <2>3 DEF Nt!Set, Nt!Pending, Nt!Event, Mutex, Event
    <2> QED BY <2>4 DEF Step, Nt!Next
  <1>3. CASE Semaphore
    <2>0. call[t].what = "signal" /\ ~Mutex /\ ~Event BY <1>3 DEF Semaphore, Event, Mutex
    <2>1. refused <=> Sum(word, n) < word.low \/ Sum(word, n) > InitHigh
      BY <1>3, <2>0 DEF ReleaseRefused, ValueOK
    <2>2. Sum(word, n) = (word.low + n) % UlongSize BY DEF Sum
    <2>3. CASE refused
      <3>1. Nt!ReleaseSemaphore(t)
        BY <1>1, <1>3, <2>0, <2>1, <2>2, <2>3
           DEF Nt!ReleaseSemaphore, Nt!Pending, Nt!Sum, Semaphore
      <3> QED BY <3>1 DEF Step, Nt!Next
    <2>4. CASE ~refused
      <3>1. word' = [word EXCEPT !.low = Sum(word, n)] BY <1>3, <2>0, <2>4 DEF Released
      <3>2. word'.low = Sum(word, n) BY <3>1 DEF TypeOK, Word
      <3>3. Nt!ReleaseSemaphore(t)
        BY <1>1, <1>3, <2>0, <2>1, <2>2, <2>4, <3>2
           DEF Nt!ReleaseSemaphore, Nt!Pending, Nt!Sum, Semaphore
      <3> QED BY <3>3 DEF Step, Nt!Next
    <2> QED BY <2>3, <2>4
  <1>4. CASE Mutex
    <2>0. call[t].what = "signal" /\ ~Semaphore /\ ~Event BY <1>4 DEF Semaphore, Event, Mutex
    <2>1. refused <=> word.low # t \/ word.high = 0 BY <1>4, <2>0 DEF ReleaseRefused
    <2>2. CASE refused
      <3>1. Nt!ReleaseMutex(t)
        BY <1>0, <1>1, <1>4, <2>0, <2>1, <2>2 DEF Nt!ReleaseMutex, Nt!Pending, Nt!Mutex, Mutex
      <3> QED BY <3>1 DEF Step, Nt!Next
    <2>3. CASE ~refused /\ word.high > 1
      <3>1. word' = [word EXCEPT !.high = word.high - 1] BY <2>0, <2>3, <1>4 DEF Released
      <3>2. word'.low = t /\ word'.high = word.high - 1 BY <2>1, <2>3, <3>1 DEF TypeOK, Word
      <3>3. Nt!ReleaseMutex(t)
        BY <1>0, <1>1, <1>4, <2>0, <2>1, <2>3, <3>2 DEF Nt!ReleaseMutex, Nt!Pending, Nt!Mutex, Mutex
      <3> QED BY <3>3 DEF Step, Nt!Next
    <2>4. CASE ~refused /\ ~(word.high > 1)
      <3>1. word' = [word EXCEPT !.low = 0, !.high = 0] BY <2>0, <2>4, <1>4 DEF Released
      <3>2. word'.low = 0 /\ word'.high = 0 BY <3>1 DEF TypeOK, Word
      <3>3. word.high = 1 BY <1>0, <1>4, <2>1, <2>4 DEF ValueOK
      <3>4. Nt!ReleaseMutex(t)
        BY <1>0, <1>1, <1>4, <2>0, <2>1, <2>4, <3>2, <3>3
           DEF Nt!ReleaseMutex, Nt!Pending, Nt!Mutex, Mutex
      <3> QED BY <3>4 DEF Step, Nt!Next
    <2> QED BY <2>2, <2>3, <2>4
  <1> QED BY <1>2, <1>3, <1>4, KindAssumption DEF Event, Semaphore, Mutex

(* NtResetEvent, and the second half of NtPulseEvent.                      *)
LEMMA NtReset ==
  ASSUME TypeOK, Event, NEW t \in Threads, Status(t) = "half" \/ (Status(t) = "pending" /\ call[t].what = "reset"),
         word' = [word EXCEPT !.low = 0], Becomes(t, "success")
  PROVE  Step
  <1>1. word'.low = 0 /\ word'.type = word.type BY DEF TypeOK, Word
  <1>2. Nt!Become(t, "success") BY <1>1, NtBecome
  <1>3. Nt!Reset(t) BY <1>1, <1>2 DEF Nt!Reset, Nt!Pending, Nt!Event, Event, Mutex
  <1> QED BY <1>3 DEF Step, Nt!Next

(* The owner of a mutex dies.                                              *)
LEMMA NtAbandon ==
  ASSUME TypeOK, NEW t \in Threads, Owns(word, t), word' = Abandoned(word, t),
         call' = call, \A u \in Threads : Status(u)' = Status(u)
  PROVE  Step
  <1>0. t \in Nat \ {0} BY ThreadsAssumption
  <1>1. word'.low = -t /\ word'.high = 0 /\ word'.type = word.type BY DEF Abandoned, TypeOK, Word
  <1>2. Mutex /\ word.low = t BY DEF Owns
  <1>3. Nt!Abandon(t)
    BY <1>0, <1>1, <1>2 DEF Nt!Abandon, Nt!Mutex, Mutex, Live, Status
  <1> QED BY <1>3 DEF Step, Nt!Next

-----------------------------------------------------------------------------
(* What the operations do to the two halves of the word.                   *)
LEMMA ValueSame == ASSUME ValueOK, SameValue PROVE ValueOK'
  BY DEF ValueOK, SameValue

LEMMA ValueReset == ASSUME TypeOK, ValueOK, Event, word' = [word EXCEPT !.low = 0] PROVE ValueOK'
  BY DEF ValueOK, Event, Mutex, Semaphore

LEMMA ValueConsumed ==
  ASSUME TypeOK, ValueOK, NEW t \in Threads, Signaled(word, t), Mutex /\ word.low = t => word.high # IntMax,
         word' = Consumed(word, t)
  PROVE  ValueOK'
  <1>0. word.low \in Int /\ word.high \in Int /\ t \in Nat \ {0}
    BY ThreadsAssumption DEF TypeOK, Word
  <1>1. CASE Event BY <1>1 DEF ValueOK, Event, Mutex, Semaphore
  <1>2. CASE Semaphore
    <2>1. word' = [word EXCEPT !.low = word.low - 1] BY <1>2 DEF Consumed, Semaphore
    <2>2. word'.high = word.high BY <2>1 DEF TypeOK, Word
    <2> QED BY <1>2, <2>2 DEF ValueOK, Mutex, Semaphore
  <1>3. CASE Mutex /\ word.low = t
    <2>1. word' = [word EXCEPT !.high = Inc(word.high)] BY <1>3 DEF Consumed, Mutex
    <2>2. word'.low = t /\ word'.high = word.high + 1 BY <1>0, <1>3, <2>1 DEF Inc, TypeOK, Word
    <2> QED BY <1>0, <1>3, <2>2 DEF ValueOK, Mutex, Semaphore
  <1>4. CASE Mutex /\ word.low # t
    <2> DEFINE g == IF word.low < 0 THEN word.generation + 1 ELSE word.generation
    <2>1. word' = [word EXCEPT !.low = t, !.high = 1, !.generation = g] BY <1>4 DEF Consumed, Mutex
    <2> HIDE DEF g
    <2>2. word'.low = t /\ word'.high = 1 BY <2>1 DEF TypeOK, Word
    <2> QED BY <1>0, <1>4, <2>2 DEF ValueOK, Mutex, Semaphore
  <1> QED BY <1>1, <1>2, <1>3, <1>4, KindAssumption DEF Event, Mutex, Semaphore

LEMMA ValueReleased ==
  ASSUME TypeOK, ValueOK, NEW t \in Threads, NEW n \in Nat,
         word' = IF ReleaseRefused(word, t, n) THEN word ELSE Released(word, n)
  PROVE  ValueOK'
  <1>0. word.low \in Int /\ word.high \in Int /\ t \in Nat \ {0}
    BY ThreadsAssumption DEF TypeOK, Word
  <1>1. CASE Event BY <1>1 DEF ValueOK, Event, Mutex, Semaphore
  <1>2. CASE ReleaseRefused(word, t, n) BY <1>2 DEF ValueOK
  <1>3. CASE Semaphore /\ ~ReleaseRefused(word, t, n)
    <2>1. word' = [word EXCEPT !.low = Sum(word, n)] BY <1>3 DEF Released, Semaphore, Event, Mutex
    <2>2. word'.high = word.high BY <2>1 DEF TypeOK, Word
    <2> QED BY <1>3, <2>2 DEF ValueOK, Mutex, Semaphore
  <1>4. CASE Mutex /\ ~ReleaseRefused(word, t, n) /\ word.high > 1
    <2>1. word' = [word EXCEPT !.high = word.high - 1] BY <1>4 DEF Released, Mutex, Semaphore, Event
    <2>2. word'.low = word.low /\ word'.high = word.high - 1 BY <2>1 DEF TypeOK, Word
    <2> QED BY <1>0, <1>4, <2>2 DEF ValueOK, Mutex, Semaphore
  <1>5. CASE Mutex /\ ~ReleaseRefused(word, t, n) /\ ~(word.high > 1)
    <2>1. word' = [word EXCEPT !.low = 0, !.high = 0] BY <1>5 DEF Released, Mutex, Semaphore, Event
    <2>2. word'.low = 0 /\ word'.high = 0 BY <2>1 DEF TypeOK, Word
    <2> QED BY <1>5, <2>2 DEF ValueOK, Mutex, Semaphore
  <1> QED BY <1>1, <1>2, <1>3, <1>4, <1>5, KindAssumption DEF Event, Mutex, Semaphore

LEMMA ValueAbandoned ==
  ASSUME TypeOK, NEW t \in Threads, Owns(word, t), word' = Abandoned(word, t)
  PROVE  ValueOK'
  <1>0. t \in Nat \ {0} BY ThreadsAssumption
  <1>1. word'.low = -t /\ word'.high = 0 BY DEF Abandoned, TypeOK, Word
  <1> QED BY <1>0, <1>1 DEF Owns, ValueOK, Mutex, Semaphore

(* LOCKED, the flags and the generation are no part of the value.          *)
LEMMA FlagsValue ==
  ASSUME TypeOK,
         \/ \E b : word' = [word EXCEPT !.locked = b]
         \/ \E b : word' = [word EXCEPT !.server = b]
         \/ \E b : word' = [word EXCEPT !.multi = b]
         \/ word' = word
  PROVE  SameValue
  BY DEF TypeOK, Word, SameValue

-----------------------------------------------------------------------------
(* How the kinds of step keep the invariant and map to the abstract object. *)
Good == RInv' /\ Step

LEMMA StatusPending ==
  ASSUME NEW t, pc[t] \notin {"idle", "dead"}, loc[t].ret \in Open PROVE Status(t) = "pending"
  BY DEF Status, Open
LEMMA StatusPendingNext ==
  ASSUME NEW t, pc'[t] \notin {"idle", "dead"}, loc'[t].ret \in Open PROVE Status(t)' = "pending"
  BY DEF Status, Open
LEMMA StatusDone ==
  ASSUME NEW t, pc[t] \notin {"idle", "dead"}, loc[t].ret \in {"success", "abandoned", "error", "half"}
  PROVE  Status(t) = loc[t].ret
  BY DEF Status
LEMMA StatusDoneNext ==
  ASSUME NEW t, pc'[t] \notin {"idle", "dead"}, loc'[t].ret \in {"success", "abandoned", "error", "half"}
  PROVE  Status(t)' = loc'[t].ret
  BY DEF Status
LEMMA AloneTurns ==
  ASSUME NEW t \in Threads, Alone(t), NEW s, Status(t)' = s
  PROVE  Turns(t, s) /\ \A u \in Threads \ {t} : call'[u] = call[u]
  BY DEF Alone, Turns, Status
LEMMA AloneCall ==
  ASSUME TypeOK, TypeOK', NEW t \in Threads, Alone(t), call'[t] = call[t]
  PROVE  call' = call
  <1>1. call \in [Threads -> Call \cup {NoCall}] /\ call' \in [Threads -> Call \cup {NoCall}]
    BY DEF TypeOK
  <1>2. \A u \in Threads : call'[u] = call[u] BY DEF Alone
  <1> QED BY <1>1, <1>2

(* One thread moves, in the client's code.                                 *)
LEMMA ClientMove ==
  ASSUME IInv, WInv, RInv, NEW t \in Threads, Alone(t), UNCHANGED <<srv, doomed>>,
         pc[t] = "request" => t \in doomed, RetAt(t)', HandedAt(t)'
  PROVE  RetOK' /\ HandedOK' /\ RunOK'
  <1>1. ASSUME NEW u \in Threads \ {t} PROVE RetAt(u)' /\ HandedAt(u)'
    <2>1. RetAt(u) /\ HandedAt(u) BY DEF RInv, RetOK, HandedOK
    <2>2. pc'[u] = pc[u] /\ call'[u] = call[u] /\ loc'[u] = loc[u] BY DEF Alone
    <2> QED BY <2>1, <2>2 DEF RetAt, HandedAt, Answered, Runs
  <1>2. RunOK'
    <2>1. CASE srv.op # "none" \/ srv.pc \in {"guarded", "unguard"}
      <3>0. srv.req \in Threads BY <2>1 DEF IInv, Safe, RequestOK
      <3>1. CASE srv.op = "abandon" /\ srv.req \in doomed
        <4>1. srv.pc \notin {"guarded", "unguard"} BY <3>1 DEF WInv, OpOK
        <4> QED BY <3>1, <4>1 DEF RunOK
      <3>2. CASE pc[srv.req] = "request" /\ srv.req \notin doomed
        <4>1. srv.req # t BY <3>2
        <4>2. What' = What /\ Ret' = Ret BY <3>0, <4>1 DEF Alone, What, Ret
        <4>3. RunOK BY DEF RInv
        <4> QED BY <4>2, <4>3 DEF RunOK, SignalOK, ResetOK, TryAllOK, Before
      <3> QED BY <2>1, <3>1, <3>2 DEF WInv, ServedOK
    <2>2. CASE srv.op = "none" /\ srv.pc \notin {"guarded", "unguard"} BY <2>2 DEF RunOK
    <2> QED BY <2>1, <2>2
  <1> QED BY <1>1, <1>2 DEF RetOK, HandedOK

(* Its call returns, or goes on elsewhere.                                 *)
LEMMA ReturnMove ==
  ASSUME IInv, IInv', WInv, RInv, NEW t \in Threads, Return(t), UNCHANGED <<srv, doomed>>,
         pc[t] # "request", SameValue, MayEnd(t)
  PROVE  Good
  <1>0. TypeOK /\ TypeOK' BY DEF IInv
  <1>1. Alone(t) /\ pc'[t] = "idle" /\ call'[t] = NoCall /\ loc'[t] = Loc0 BY <1>0, ReturnAlone
  <1>2. RetAt(t)' /\ HandedAt(t)' BY <1>1 DEF RetAt, HandedAt, Loc0
  <1>3. Status(t)' = "idle" BY <1>1 DEF Status
  <1>4. Step BY <1>0, <1>1, <1>3, AloneTurns, NtEnd
  <1> QED BY <1>1, <1>2, <1>4, ClientMove, ValueSame DEF Good, RInv

LEMMA QuietThread ==
  ASSUME IInv, IInv', WInv, RInv, NEW t \in Threads, Alone(t), call'[t] = call[t], UNCHANGED <<srv, doomed>>,
         pc[t] # "request", SameValue, Status(t)' = Status(t), RetAt(t)', HandedAt(t)'
  PROVE  Good
  <1>0. TypeOK /\ TypeOK' BY DEF IInv
  <1>1. call' = call BY <1>0, AloneCall
  <1>2. \A u \in Threads : Status(u)' = Status(u) BY DEF Alone, Status
  <1>3. Step BY <1>1, <1>2, NtQuiet DEF Step
  <1> QED BY <1>3, ClientMove, ValueSame DEF Good, RInv

LEMMA FallbackMove ==
  ASSUME IInv, IInv', WInv, RInv, NEW t \in Threads, Fallback(t), UNCHANGED <<srv, doomed>>,
         pc[t] \notin {"idle", "dead", "request"}, SameValue, loc[t].ret \in Open
  PROVE  Good
  <1>0. TypeOK BY DEF IInv
  <1>1. /\ Alone(t) /\ pc'[t] \in {"check", "request"} /\ call'[t] = call[t]
        /\ loc'[t] = Loc0 \/ loc'[t] = [Loc0 EXCEPT !.try = 2]
    BY <1>0, FallbackAlone
  <1>2. loc'[t].ret = "none" BY <1>1 DEF Loc0
  <1>3. RetAt(t)' /\ HandedAt(t)' BY <1>1, <1>2 DEF RetAt, HandedAt, Open
  <1>4. Status(t) = "pending" BY StatusPending
  <1>5. Status(t)' = "pending" BY <1>1, <1>2 DEF Status
  <1> QED BY <1>1, <1>3, <1>4, <1>5, QuietThread

(* One that goes on without an effect.                                     *)
LEMMA GotoMove ==
  ASSUME IInv, IInv', WInv, RInv, NEW t \in Threads, NEW where, Goto(t, where), call' = call,
         \A u \in Threads \ {t} : loc'[u] = loc[u], UNCHANGED <<srv, doomed>>,
         pc[t] \notin {"idle", "dead", "request"}, where \notin {"idle", "dead", "queued", "request"},
         SameValue, loc[t].ret \in Open, loc'[t].ret \in Open, RetAt(t)'
  PROVE  Good
  <1>0. TypeOK BY DEF IInv
  <1>1. Alone(t) /\ pc'[t] = where BY <1>0 DEF TypeOK, Goto, Alone
  <1>2. HandedAt(t)' BY <1>1 DEF HandedAt
  <1>3. Status(t) = "pending" BY StatusPending
  <1>4. Status(t)' = "pending" BY <1>1, StatusPendingNext
  <1> QED BY <1>1, <1>2, <1>3, <1>4, QuietThread

-----------------------------------------------------------------------------
(* The client's steps.                                                     *)
LEMMA ThreadRet == ASSUME RInv, NEW t \in Threads PROVE RetAt(t) /\ HandedAt(t)
  BY DEF RInv, RetOK, HandedOK

LEMMA ThreadSame ==
  ASSUME IInv, UNCHANGED word \/ word' = [word EXCEPT !.locked = TRUE] \/ word' = [word EXCEPT !.locked = FALSE]
  PROVE  SameValue
  <1>1. TypeOK BY DEF IInv
  <1> QED BY <1>1, FlagsValue

LEMMA ConsumeRefines == ASSUME IInv, IInv', WInv, RInv, NEW t \in Threads, consume(t) PROVE Good
  <1>0. TypeOK /\ TypeOK' /\ RetAt(t) /\ ValueOK BY ThreadRet DEF IInv, RInv
  <1>1. pc[t] = "body" /\ call[t].what = "wait" /\ loc[t].ret \in Open BY <1>0 DEF consume, RetAt
  <1>2. UNCHANGED <<call, srv, doomed>> /\ Goto(t, "unlock") BY DEF consume, ClientOnly
  <1>3. pc'[t] = "unlock" BY <1>0, <1>2 DEF TypeOK, Goto
  <1>4. Status(t) = "pending" BY <1>1, StatusPending
  <1> DEFINE full == Mutex /\ word.low = t /\ word.high = IntMax
             taken == Signaled(word, t) /\ ~full
             ret == IF full THEN "bail" ELSE IF taken THEN ConsumedStatus(word) ELSE "timeout"
  <1>5. word' = (IF taken THEN Consumed(word, t) ELSE word) /\ SetRet(t, ret) BY DEF consume
  <1>6. Alone(t) /\ loc'[t].ret = ret BY <1>0, <1>2, <1>5, SetRetAlone DEF TypeOK, Goto, Alone
  <1>7. CASE taken
    <2>1. ret = ConsumedStatus(word) /\ ret \in Taken BY <1>7 DEF ConsumedStatus, Taken
    <2>2. RetAt(t)' /\ HandedAt(t)' BY <1>1, <1>2, <1>3, <1>6, <2>1 DEF RetAt, HandedAt, Taken
    <2>3. Status(t)' = ConsumedStatus(word) BY <1>3, <1>6, <2>1, StatusDoneNext DEF Taken
    <2>4. word' = Consumed(word, t) /\ Signaled(word, t) BY <1>5, <1>7
    <2>5. word'.type = word.type BY <1>0, <2>4, ConsumedFlags, ThreadsAssumption DEF TypeOK
    <2>6. Mutex /\ word.low = t => word.high # IntMax BY <1>7
    <2>7. Becomes(t, ConsumedStatus(word)) BY <1>2, <1>6, <2>3, AloneTurns DEF Becomes
    <2> HIDE DEF taken, full, ret
    <2>8. Step BY <1>0, <1>1, <1>4, <2>4, <2>5, <2>6, <2>7, NtSatisfied
    <2>9. ValueOK' BY <1>0, <2>4, <2>6, ValueConsumed
    <2> QED BY <1>1, <1>2, <1>6, <2>2, <2>8, <2>9, ClientMove DEF Good, RInv
  <1>8. CASE ~taken
    <2>1. ret \in {"bail", "timeout"} BY <1>8
    <2>2. word' = word BY <1>5, <1>8
    <2>3. RetAt(t)' BY <1>1, <1>2, <1>3, <1>6, <2>1 DEF RetAt
    <2> HIDE DEF taken, full, ret
    <2>4. SameValue BY <2>2, ThreadSame
    <2> QED BY <1>1, <1>2, <1>6, <2>1, <2>3, <2>4, GotoMove DEF Open, Alone
  <1> QED BY <1>7, <1>8

LEMMA SignalRefines == ASSUME IInv, IInv', WInv, RInv, NEW t \in Threads, signal(t) PROVE Good
  <1>0. TypeOK /\ TypeOK' /\ RetAt(t) /\ ValueOK /\ OwesAt(t) BY ThreadRet DEF IInv, RInv, WInv, OwesOK
  <1>1. pc[t] = "write" /\ loc[t].ret \in Open BY <1>0 DEF signal, RetAt
  <1>2. call[t].what \in {"signal", "reset"} /\ (call[t].what = "reset" => Event) BY <1>0, <1>1 DEF OwesAt
  <1>3. UNCHANGED <<call, srv, doomed>> /\ Goto(t, "unlock") BY DEF signal, ClientOnly
  <1>4. pc'[t] = "unlock" BY <1>0, <1>3 DEF TypeOK, Goto
  <1>5. Status(t) = "pending" BY <1>1, StatusPending
  <1> DEFINE n == call[t].n
             refused == ReleaseRefused(word, t, n)
  <1>6. n \in Nat BY <1>0, CallType
  <1>7. CASE call[t].what = "reset"
    <2>1. word' = [word EXCEPT !.low = 0] /\ SetRet(t, "success") BY <1>7 DEF signal
    <2>2. Alone(t) /\ loc'[t].ret = "success" BY <1>0, <1>3, <2>1, SetRetAlone DEF TypeOK, Goto, Alone
    <2>3. RetAt(t)' /\ HandedAt(t)' BY <1>4, <2>2 DEF RetAt, HandedAt, Taken
    <2>4. Status(t)' = "success" BY <1>4, <2>2, StatusDoneNext
    <2>5. Becomes(t, "success") BY <1>3, <2>2, <2>4, AloneTurns DEF Becomes
    <2>6. Step BY <1>0, <1>2, <1>5, <1>7, <2>1, <2>5, NtReset
    <2>7. ValueOK' BY <1>0, <1>2, <1>7, <2>1, ValueReset
    <2> QED BY <1>1, <1>3, <2>2, <2>3, <2>6, <2>7, ClientMove DEF Good, RInv
  <1>8. CASE call[t].what = "signal"
    <2> DEFINE ret == IF refused THEN "error" ELSE "success"
    <2>1. /\ word' = IF refused THEN word ELSE Released(word, n)
          /\ refused => SetRet(t, "error")
          /\ ~refused => loc' = [loc EXCEPT ![t].ret = "success", ![t].wakes = ReleaseWakes(word)]
      BY <1>8 DEF signal
    <2>2. Alone(t) /\ loc'[t].ret = ret
      <3>1. CASE refused
        <4>1. SetRet(t, "error") BY <2>1, <3>1
        <4> QED BY <1>0, <1>3, <3>1, <4>1, SetRetAlone DEF TypeOK, Goto, Alone
      <3>2. CASE ~refused
        <4>1. loc' = [loc EXCEPT ![t].ret = "success", ![t].wakes = ReleaseWakes(word)] BY <2>1, <3>2
        <4>2. loc'[t].ret = "success" BY <1>0, <4>1 DEF TypeOK, Loc
        <4> QED BY <1>0, <1>3, <3>2, <4>1, <4>2 DEF TypeOK, Goto, Alone
      <3> QED BY <3>1, <3>2
    <2>3. RetAt(t)' /\ HandedAt(t)' BY <1>4, <2>2 DEF RetAt, HandedAt, Taken
    <2>4. Status(t)' = ret BY <1>4, <2>2, StatusDoneNext
    <2>5. Becomes(t, ret) BY <1>3, <2>2, <2>4, AloneTurns DEF Becomes
    <2>6. word'.type = word.type BY <1>0, <1>6, <2>1, ReleasedFlags DEF TypeOK
    <2>7. word' = (IF ReleaseRefused(word, t, call[t].n) THEN word ELSE Released(word, call[t].n)) BY <2>1
    <2>8. Becomes(t, IF ReleaseRefused(word, t, call[t].n) THEN "error"
                     ELSE IF call[t].what = "pulse" THEN "half" ELSE "success")
      BY <1>8, <2>5
    <2>9. Step BY <1>0, <1>5, <1>8, <2>6, <2>7, <2>8, NtReleased
    <2>10. ValueOK' BY <1>0, <1>6, <2>7, ValueReleased
    <2> QED BY <1>1, <1>3, <2>2, <2>3, <2>9, <2>10, ClientMove DEF Good, RInv
  <1> QED BY <1>2, <1>7, <1>8

LEMMA UnlockRefines == ASSUME IInv, IInv', WInv, RInv, NEW t \in Threads, unlock_state(t) PROVE Good
  <1>0. TypeOK /\ RetAt(t) BY ThreadRet DEF IInv
  <1>1. pc[t] = "unlock" /\ loc[t].ret \in Taken \cup {"error", "timeout", "bail"} BY <1>0 DEF unlock_state, RetAt
  <1>2. UNCHANGED <<srv, doomed>> /\ SameValue /\ AfterUnlock(t) BY ThreadSame DEF unlock_state, ClientOnly
  <1>3. CASE loc[t].ret = "bail"
    <2>1. Fallback(t) BY <1>2, <1>3 DEF AfterUnlock
    <2> QED BY <1>1, <1>2, <1>3, <2>1, FallbackMove DEF Open
  <1>4. CASE loc[t].ret \in {"success", "abandoned", "error"}
    <2>1. Status(t) = loc[t].ret BY <1>1, <1>4, StatusDone
    <2>2. CASE Return(t)
      <3>1. MayEnd(t) BY <1>4, <2>1 DEF MayEnd
      <3> QED BY <1>1, <1>2, <2>2, <3>1, ReturnMove
    <2>3. ASSUME NEW where \in {"refresh", "wake"}, Goto(t, where), UNCHANGED <<call, loc>>, loc[t].ret \in Taken
          PROVE  Good
      <3>1. Alone(t) /\ pc'[t] = where BY <1>0, <2>3, GotoAlone
      <3>2. RetAt(t)' /\ HandedAt(t)' BY <2>3, <3>1 DEF RetAt, HandedAt
      <3>3. Status(t)' = loc[t].ret BY <1>4, <2>3, <3>1 DEF Status
      <3> QED BY <1>1, <1>2, <2>1, <2>3, <3>1, <3>2, <3>3, QuietThread
    <2>4. \/ Return(t)
          \/ \E where \in {"refresh", "wake"} : Goto(t, where) /\ UNCHANGED <<call, loc>> /\ loc[t].ret \in Taken
      BY <1>2, <1>4 DEF AfterUnlock, Taken
    <2> QED BY <2>2, <2>3, <2>4
  <1>5. CASE loc[t].ret = "timeout"
    <2>1. call[t].what = "wait" /\ Status(t) = "pending" BY <1>0, <1>1, <1>5, StatusPending DEF RetAt, Open
    <2>2. \/ Return(t)
          \/ \E where \in {"owner", "sleep", "loop"} : Goto(t, where) /\ UNCHANGED <<call, loc>>
      BY <1>2, <1>5 DEF AfterUnlock
    <2>3. CASE Return(t) BY <1>1, <1>2, <2>1, <2>3, ReturnMove DEF MayEnd
    <2>4. ASSUME NEW where \in {"owner", "sleep", "loop"}, Goto(t, where), UNCHANGED <<call, loc>> PROVE Good
      <3>1. pc'[t] = where BY <1>0, <2>4 DEF TypeOK, Goto
      <3>2. RetAt(t)' BY <1>5, <2>1, <2>4, <3>1 DEF RetAt, Open
      <3> QED BY <1>1, <1>2, <1>5, <2>4, <3>2, GotoMove DEF Open
    <2> QED BY <2>2, <2>3, <2>4
  <1> QED BY <1>1, <1>3, <1>4, <1>5 DEF Taken

(* A wake moves sleepers to the top of their loop, where they wait still.  *)
LEMMA WokenRets ==
  ASSUME IInv, RInv, NEW all, NEW where \in [Threads -> ClientPCs], WakeAddress(all, where),
         NEW u \in Threads, UNCHANGED <<call, loc>>, where[u] = pc[u]
  PROVE  RetAt(u)' /\ Status(u)' = Status(u) /\ (srv' = srv => HandedAt(u)')
  <1>0. RetAt(u) /\ HandedAt(u) BY ThreadRet
  <1>1. \/ pc'[u] = pc[u]
        \/ pc[u] = "asleep" /\ pc'[u] = "loop"
    BY DEF WakeAddress, Asleep
  <1>2. RetAt(u)' BY <1>0, <1>1 DEF RetAt
  <1>3. srv' = srv => HandedAt(u)' BY <1>0, <1>1 DEF HandedAt, Answered, Runs
  <1>4. Status(u)' = Status(u) BY <1>1 DEF Status
  <1> QED BY <1>2, <1>3, <1>4

LEMMA AddressRefines == ASSUME IInv, IInv', WInv, RInv, NEW t \in Threads, wake_address(t) PROVE Good
  <1>0. TypeOK /\ RetAt(t) /\ HandedAt(t) BY ThreadRet DEF IInv
  <1>1. pc[t] = "wake" /\ loc[t].ret \in Taken BY <1>0 DEF wake_address, RetAt
  <1>2. UNCHANGED <<word, call, loc, srv, doomed>> BY DEF wake_address, ClientOnly
  <1> DEFINE where == [pc EXCEPT ![t] = "multi"]
  <1>3. where \in [Threads -> ClientPCs] /\ WakeAddress(WakesAll(call[t].n), where)
    BY <1>0 DEF TypeOK, ClientPCs, wake_address
  <1>4. pc'[t] = "multi" BY <1>0, <1>1 DEF wake_address, WakeAddress, Asleep, TypeOK
  <1>5. RetAt(t)' /\ HandedAt(t)' /\ Status(t)' = Status(t) BY <1>1, <1>2, <1>4 DEF RetAt, HandedAt, Status
  <1>6. ASSUME NEW u \in Threads \ {t} PROVE RetAt(u)' /\ HandedAt(u)' /\ Status(u)' = Status(u)
    <2>1. where[u] = pc[u] BY <1>0 DEF TypeOK
    <2> HIDE DEF where
    <2> QED BY <1>2, <1>3, <2>1, WokenRets
  <1>7. RetOK' /\ HandedOK' BY <1>5, <1>6 DEF RetOK, HandedOK
  <1>8. RunOK' BY <1>2 DEF RInv, RunOK, SignalOK, ResetOK, TryAllOK, Before, What, Ret
  <1>9. SameValue BY <1>2, ThreadSame
  <1>10. Step BY <1>2, <1>5, <1>6, <1>9, NtQuiet DEF Step
  <1> QED BY <1>7, <1>8, <1>9, <1>10, ValueSame DEF Good, RInv

LEMMA ThreadRefines == ASSUME IInv, IInv', WInv, RInv, NEW t \in Threads, ThreadStep(t) PROVE Good
  <1>0. TypeOK /\ RetAt(t) BY ThreadRet DEF IInv
  <1>1. CASE check(t)
    <2>1. pc[t] = "check" /\ SameValue /\ UNCHANGED <<srv, doomed>> BY <1>1, ThreadSame DEF check, ClientOnly
    <2>2. loc[t].ret \in Open BY <1>0, <2>1 DEF RetAt
    <2>3. CASE HasWaiters(word)
      <3>1. Fallback(t) BY <1>1, <2>3 DEF check
      <3> QED BY <2>1, <2>2, <3>1, FallbackMove
    <2>4. CASE ~HasWaiters(word)
      <3>1. Goto(t, "lock") /\ loc' = [loc EXCEPT ![t].gen = cache_gen] /\ call' = call BY <1>1, <2>4 DEF check
      <3>2. pc'[t] = "lock" /\ loc'[t].ret = loc[t].ret /\ \A u \in Threads \ {t} : loc'[u] = loc[u]
        BY <1>0, <3>1 DEF TypeOK, Goto, Loc
      <3>3. RetAt(t)' BY <2>2, <3>2 DEF RetAt
      <3> QED BY <2>1, <2>2, <3>1, <3>2, <3>3, GotoMove
    <2> QED BY <2>3, <2>4
  <1>2. CASE lock_state(t)
    <2>1. pc[t] = "lock" /\ SameValue /\ Goto(t, "body") /\ UNCHANGED <<srv, doomed, call, loc>>
      BY <1>2, ThreadSame DEF lock_state, ClientOnly
    <2>2. loc[t].ret \in Open BY <1>0, <2>1 DEF RetAt
    <2>3. pc'[t] = "body" BY <1>0, <2>1 DEF TypeOK, Goto
    <2>4. RetAt(t)' BY <2>1, <2>2, <2>3 DEF RetAt
    <2> QED BY <2>1, <2>2, <2>4, GotoMove
  <1>3. CASE lock_state_fails(t)
    <2>1. pc[t] = "lock" /\ SameValue /\ UNCHANGED <<srv, doomed>> BY <1>3, ThreadSame DEF lock_state_fails, ClientOnly
    <2>2. loc[t].ret \in Open /\ Status(t) = "pending" BY <1>0, <2>1, StatusPending DEF RetAt
    <2>3. CASE Fallback(t) BY <2>1, <2>2, <2>3, FallbackMove
    <2>4. CASE Return(t) /\ call[t].what = "wait" BY <2>1, <2>2, <2>4, ReturnMove DEF MayEnd
    <2>5. ASSUME NEW where \in {"loop", "sleep"}, Goto(t, where), UNCHANGED <<call, loc>>, call[t].what = "wait"
          PROVE  Good
      <3>1. pc'[t] = where BY <1>0, <2>5 DEF TypeOK, Goto
      <3>2. RetAt(t)' BY <2>2, <2>5, <3>1 DEF RetAt
      <3> QED BY <2>1, <2>2, <2>5, <3>2, GotoMove
    <2>6. \/ Fallback(t)
          \/ Return(t) /\ call[t].what = "wait"
          \/ \E where \in {"loop", "sleep"} : Goto(t, where) /\ UNCHANGED <<call, loc>> /\ call[t].what = "wait"
      BY <1>3 DEF lock_state_fails
    <2> QED BY <2>3, <2>4, <2>5, <2>6
  <1>4. CASE consume(t) BY <1>4, ConsumeRefines
  <1>5. CASE recheck(t)
    <2>1. pc[t] = "body" /\ SameValue /\ UNCHANGED <<srv, doomed, call>> BY <1>5, ThreadSame DEF recheck, ClientOnly
    <2>2. loc[t].ret \in Open BY <1>0, <2>1 DEF RetAt
    <2>3. CASE Goto(t, "unlock") /\ SetRet(t, "bail")
      <3>1. pc'[t] = "unlock" BY <1>0, <2>3 DEF TypeOK, Goto
      <3>2. loc'[t].ret = "bail" /\ \A u \in Threads \ {t} : loc'[u] = loc[u] BY <1>0, <2>3, SetRetAlone
      <3>3. RetAt(t)' BY <3>1, <3>2 DEF RetAt
      <3> QED BY <2>1, <2>2, <2>3, <3>2, <3>3, GotoMove DEF Open
    <2>4. CASE Goto(t, "write") /\ UNCHANGED loc
      <3>1. pc'[t] = "write" BY <1>0, <2>4 DEF TypeOK, Goto
      <3>2. RetAt(t)' BY <2>2, <2>4, <3>1 DEF RetAt
      <3> QED BY <2>1, <2>2, <2>4, <3>2, GotoMove
    <2> QED BY <1>5, <2>3, <2>4 DEF recheck
  <1>6. CASE signal(t) BY <1>6, SignalRefines
  <1>7. CASE unlock_state(t) BY <1>7, UnlockRefines
  <1>8. CASE refresh_cache_generation(t)
    <2>1. pc[t] = "refresh" /\ SameValue /\ Return(t) /\ UNCHANGED <<srv, doomed>>
      BY <1>8, ThreadSame DEF refresh_cache_generation, ClientOnly
    <2>2. loc[t].ret \in {"success", "abandoned"} BY <1>0, <2>1 DEF RetAt, Taken
    <2>3. MayEnd(t) BY <2>1, <2>2, StatusDone DEF MayEnd
    <2> QED BY <2>1, <2>3, ReturnMove
  <1>9. CASE wait_loop(t)
    <2>1. pc[t] = "loop" /\ SameValue /\ UNCHANGED <<srv, doomed>> BY <1>9, ThreadSame DEF wait_loop, ClientOnly
    <2>2. loc[t].ret \in Open BY <1>0, <2>1 DEF RetAt
    <2>3. CASE Fallback(t) BY <2>1, <2>2, <2>3, FallbackMove
    <2>4. CASE /\ Goto(t, "lock") /\ loc' = [loc EXCEPT ![t].first = FALSE, ![t].ret = "none"]
               /\ UNCHANGED call
      <3>1. pc'[t] = "lock" /\ loc'[t].ret = "none" /\ \A u \in Threads \ {t} : loc'[u] = loc[u]
        BY <1>0, <2>4 DEF TypeOK, Goto, Loc
      <3>2. RetAt(t)' BY <3>1 DEF RetAt, Open
      <3> QED BY <2>1, <2>2, <2>4, <3>1, <3>2, GotoMove DEF Open
    <2> QED BY <1>9, <2>3, <2>4 DEF wait_loop
  <1>10. CASE load_owner(t)
    <2>1. pc[t] = "owner" /\ SameValue /\ Goto(t, "sleep") /\ UNCHANGED <<srv, doomed, call>>
      BY <1>10, ThreadSame DEF load_owner, ClientOnly
    <2>2. loc[t].ret \in Open /\ call[t].what = "wait" BY <1>0, <2>1 DEF RetAt
    <2>3. pc'[t] = "sleep" /\ loc'[t].ret = loc[t].ret /\ \A u \in Threads \ {t} : loc'[u] = loc[u]
      BY <1>0, <1>10 DEF load_owner, TypeOK, Goto, Loc
    <2>4. RetAt(t)' BY <2>1, <2>2, <2>3 DEF RetAt
    <2> QED BY <2>1, <2>2, <2>3, <2>4, GotoMove
  <1>11. CASE wait_address(t)
    <2>1. pc[t] = "sleep" /\ SameValue /\ UNCHANGED <<srv, doomed, call, loc>>
      BY <1>11, ThreadSame DEF wait_address, ClientOnly
    <2>2. loc[t].ret \in Open /\ call[t].what = "wait" BY <1>0, <2>1 DEF RetAt
    <2>3. PICK where \in {"asleep", "loop"} : Goto(t, where) BY <1>11 DEF wait_address
    <2>4. pc'[t] = where BY <1>0, <2>3 DEF TypeOK, Goto
    <2>5. RetAt(t)' BY <2>1, <2>2, <2>4 DEF RetAt
    <2> QED BY <2>1, <2>2, <2>3, <2>5, GotoMove
  <1>12. CASE wake_address(t) BY <1>12, AddressRefines
  <1>13. CASE check_multi(t)
    <2>1. pc[t] = "multi" /\ SameValue /\ UNCHANGED <<srv, doomed>> BY <1>13, ThreadSame DEF check_multi, ClientOnly
    <2>2. loc[t].ret \in {"success", "abandoned"} BY <1>0, <2>1 DEF RetAt, Taken
    <2>3. Status(t) = loc[t].ret BY <2>1, <2>2, StatusDone
    <2>4. CASE Return(t)
      <3>1. MayEnd(t) BY <2>2, <2>3 DEF MayEnd
      <3> QED BY <2>1, <2>4, <3>1, ReturnMove
    <2>5. CASE Goto(t, "notify") /\ UNCHANGED <<call, loc>>
      <3>1. Alone(t) /\ pc'[t] = "notify" BY <1>0, <2>5, GotoAlone
      <3>2. RetAt(t)' /\ HandedAt(t)' BY <2>2, <2>5, <3>1 DEF RetAt, HandedAt, Taken
      <3>3. Status(t)' = Status(t) BY <2>1, <2>5, <3>1 DEF Status
      <3> QED BY <2>1, <2>5, <3>1, <3>2, <3>3, QuietThread
    <2> QED BY <1>13, <2>4, <2>5 DEF check_multi
  <1> QED BY <1>1, <1>2, <1>3, <1>4, <1>5, <1>6, <1>7, <1>8, <1>9, <1>10, <1>11, <1>12, <1>13 DEF ThreadStep

(* The deadline of a wait in the client's code passes.                     *)
LEMMA TimeoutRefines == ASSUME IInv, IInv', WInv, RInv, NEW t \in Threads, wait_timeout(t) PROVE Good
  <1>0. TypeOK /\ RetAt(t) BY ThreadRet DEF IInv
  <1>1. pc[t] \in {"sleep", "owner", "asleep"} /\ SameValue /\ UNCHANGED <<srv, doomed>>
    BY ThreadSame DEF wait_timeout, ClientOnly
  <1>2. loc[t].ret \in Open /\ call[t].what = "wait" /\ Status(t) = "pending"
    BY <1>0, <1>1, StatusPending DEF RetAt
  <1>3. CASE Fallback(t) BY <1>1, <1>2, <1>3, FallbackMove
  <1>4. CASE Return(t) BY <1>1, <1>2, <1>4, ReturnMove DEF MayEnd
  <1> QED BY <1>3, <1>4 DEF wait_timeout

-----------------------------------------------------------------------------
(* Steps of wineserver.                                                    *)

(* With every thread in its place and the value as it was.                 *)
LEMMA ServerQuiet ==
  ASSUME RInv, UNCHANGED <<pc, call, loc>>, SameValue, HandedOK', RunOK'
  PROVE  Good
  <1>1. RetOK' BY DEF RInv, RetOK, RetAt
  <1>2. \A u \in Threads : Status(u)' = Status(u) BY DEF Status
  <1>3. Step BY <1>2, NtQuiet DEF Step
  <1> QED BY <1>1, <1>3, ValueSame DEF Good, RInv

(* Whoever has an answer, or whose request runs, keeps it.                 *)
LEMMA HandedKept ==
  ASSUME RInv, NEW u \in Threads, pc'[u] = pc[u], loc'[u] = loc[u],
         Answered(u) => Answered(u)', Runs(u) => Runs(u)'
  PROVE  HandedAt(u)'
  <1>1. HandedAt(u) BY ThreadRet
  <1> QED BY <1>1 DEF HandedAt

LEMMA RetKept ==
  ASSUME RInv, NEW u \in Threads, pc'[u] = pc[u], loc'[u] = loc[u], call'[u] = call[u]
  PROVE  RetAt(u)'
  <1>1. RetAt(u) BY ThreadRet
  <1> QED BY <1>1 DEF RetAt

(* The request of t has been answered.                                     *)
LEMMA ReplyGood ==
  ASSUME IInv, IInv', WInv, RInv, NEW t \in Threads, Reply(t), doomed' = doomed, SameValue,
         \A u \in Threads : ~Answered(u), \A u \in Threads \ {t} : ~Runs(u), Runs(t) => t \notin doomed,
         call[t].what = "exit" \/ t \in doomed \/ MayEnd(t)
  PROVE  Good
  <1>0. TypeOK /\ TypeOK' BY DEF IInv
  <1>1. srv' = Srv0 BY DEF Reply
  <1>2. RunOK' BY <1>1 DEF RunOK, Srv0
  <1>3. CASE call[t].what = "exit" \/ t \in doomed
    <2> DEFINE where == IF t \in doomed THEN pc[t] ELSE "dead"
    <2>1. Goto(t, where) /\ UNCHANGED <<call, loc>> BY <1>3 DEF Reply
    <2>2. Alone(t) /\ pc'[t] = where BY <1>0, <2>1, GotoAlone
    <2>3. ASSUME NEW u \in Threads \ {t} PROVE RetAt(u)' /\ HandedAt(u)'
      <3>1. pc'[u] = pc[u] BY <2>2 DEF Alone
      <3> QED BY <2>1, <2>3, <3>1, HandedKept, RetKept
    <2>4. RetAt(t)' /\ HandedAt(t)'
      <3>1. CASE t \in doomed BY <2>1, <2>2, <3>1, HandedKept, RetKept
      <3>2. CASE t \notin doomed
        <4>1. pc'[t] = "dead" BY <2>2, <3>2
        <4> QED BY <4>1 DEF RetAt, HandedAt
      <3> QED BY <3>1, <3>2
    <2>5. Step
      <3>1. CASE t \in doomed
        <4>1. Status(t)' = Status(t) BY <2>1, <2>2, <3>1 DEF Status
        <4>2. \A u \in Threads : Status(u)' = Status(u) BY <2>2, <4>1 DEF Alone, Status
        <4> QED BY <2>1, <4>2, NtQuiet DEF Step
      <3>2. CASE t \notin doomed
        <4>1. Status(t)' = "dead" BY <2>2, <3>2 DEF Status
        <4>2. Becomes(t, "dead") BY <2>1, <2>2, <4>1, AloneTurns DEF Becomes
        <4> QED BY <4>2, NtDie
      <3> QED BY <3>1, <3>2
    <2> QED BY <1>2, <2>3, <2>4, <2>5, ValueSame DEF Good, RInv, RetOK, HandedOK
  <1>4. CASE ~(call[t].what = "exit" \/ t \in doomed)
    <2>1. Return(t) BY <1>4 DEF Reply
    <2>2. Alone(t) /\ pc'[t] = "idle" /\ call'[t] = NoCall /\ loc'[t] = Loc0 BY <1>0, <2>1, ReturnAlone
    <2>3. ASSUME NEW u \in Threads \ {t} PROVE RetAt(u)' /\ HandedAt(u)'
      <3>1. pc'[u] = pc[u] /\ call'[u] = call[u] /\ loc'[u] = loc[u] BY <2>2 DEF Alone
      <3> QED BY <2>3, <3>1, HandedKept, RetKept
    <2>4. RetAt(t)' /\ HandedAt(t)' BY <2>2 DEF RetAt, HandedAt, Loc0
    <2>5. Status(t)' = "idle" BY <2>2 DEF Status
    <2>6. Step BY <1>0, <1>4, <2>2, <2>5, AloneTurns, NtEnd
    <2> QED BY <1>2, <2>3, <2>4, <2>6, ValueSame DEF Good, RInv, RetOK, HandedOK
  <1> QED BY <1>3, <1>4

(* The wait of t has ended.                                                *)
LEMMA EndGood ==
  ASSUME IInv, IInv', WInv, RInv, NEW t \in Threads, pc[t] = "queued", Return(t), SameValue,
         \A u \in Threads \ {t} : (Answered(u) => Answered(u)') /\ (Runs(u) => Runs(u)'), RunOK'
  PROVE  Good
  <1>0. TypeOK /\ TypeOK' /\ RetAt(t) /\ HandedAt(t) BY ThreadRet DEF IInv
  <1>1. Alone(t) /\ pc'[t] = "idle" /\ call'[t] = NoCall /\ loc'[t] = Loc0 BY <1>0, ReturnAlone
  <1>2. ASSUME NEW u \in Threads \ {t} PROVE RetAt(u)' /\ HandedAt(u)'
    <2>1. pc'[u] = pc[u] /\ call'[u] = call[u] /\ loc'[u] = loc[u] BY <1>1 DEF Alone
    <2> QED BY <1>2, <2>1, HandedKept, RetKept
  <1>3. RetAt(t)' /\ HandedAt(t)' BY <1>1 DEF RetAt, HandedAt, Loc0
  <1>4. Status(t)' = "idle" BY <1>1 DEF Status
  <1>5. MayEnd(t)
    <2>1. CASE loc[t].ret \in Open
      <3>1. Status(t) = "pending" BY <2>1, StatusPending
      <3> QED BY <1>0, <3>1 DEF MayEnd, RetAt
    <2>2. CASE loc[t].ret \in Taken
      <3>1. Status(t) \in {"success", "abandoned"} BY <2>2 DEF Status, Taken
      <3> QED BY <3>1 DEF MayEnd
    <2> QED BY <1>0, <2>1, <2>2 DEF HandedAt
  <1>6. Step BY <1>0, <1>1, <1>4, <1>5, AloneTurns, NtEnd
  <1> QED BY <1>2, <1>3, <1>6, ValueSame DEF Good, RInv, RetOK, HandedOK

(* While wineserver is idle, nothing handed to it has had an effect.       *)
LEMMA IdleHanded ==
  ASSUME IInv, WInv, RInv, srv.pc \in {"idle", "regcheck", "destroyed"}, NEW u \in Threads
  PROVE  ~Answered(u) /\ ~Runs(u) /\ (pc[u] \in {"queued", "request"} => loc[u].ret \in Open)
  <1>1. srv.op = "none" /\ srv.fn = "none" BY DEF WInv, OpOK
  <1>2. ~Answered(u) /\ ~Runs(u) BY <1>1 DEF Answered, Runs
  <1>3. HandedAt(u) BY ThreadRet
  <1> QED BY <1>2, <1>3 DEF HandedAt

-----------------------------------------------------------------------------
(* What the program, signals and other processes do.                       *)
LEMMA InvokeRefines == ASSUME IInv, IInv', WInv, RInv, NEW t \in Threads, Invoke(t) PROVE Good
  <1>0. TypeOK /\ TypeOK' /\ RetAt(t) BY ThreadRet DEF IInv
  <1>1. pc[t] = "idle" /\ UNCHANGED <<word, srv, doomed>> BY DEF Invoke
  <1>2. PICK c \in CallsOf[t] :
          /\ call' = [call EXCEPT ![t] = c]
          /\ Goto(t, IF c.fast /\ c.what \in {"wait", "signal", "reset"} THEN "check" ELSE "request")
          /\ loc' = [loc EXCEPT ![t].gen = IF c.what = "tryall" THEN cache_gen ELSE @]
    BY DEF Invoke
  <1>3. Alone(t) /\ pc'[t] \in {"check", "request"} BY <1>0, <1>2 DEF Alone, TypeOK, Goto
  <1>4. loc'[t].ret = "none"
    <2>1. loc'[t].ret = loc[t].ret BY <1>0, <1>2 DEF TypeOK, Loc
    <2> QED BY <1>0, <1>1, <2>1 DEF RetAt
  <1>5. RetAt(t)' /\ HandedAt(t)' BY <1>3, <1>4 DEF RetAt, HandedAt, Open
  <1>6. SameValue BY <1>1, ThreadSame
  <1>7. Status(t) = "idle" BY <1>1 DEF Status
  <1>8. Status(t)' = "pending" BY <1>3, <1>4 DEF Status
  <1>9. Step BY <1>0, <1>3, <1>6, <1>7, <1>8, AloneTurns, NtBegin
  <1> QED BY <1>1, <1>3, <1>5, <1>6, <1>9, ClientMove, ValueSame DEF Good, RInv

LEMMA SigquitRefines == ASSUME IInv, IInv', WInv, RInv, NEW t \in Threads, sigquit(t) PROVE Good
  <1>0. TypeOK BY DEF IInv
  <1>1. t \in doomed /\ Goto(t, "dead") /\ UNCHANGED <<word, call, loc, srv, doomed>> BY DEF sigquit, ClientOnly
  <1>2. Alone(t) /\ pc'[t] = "dead" BY <1>0, <1>1, GotoAlone
  <1>3. RetAt(t)' /\ HandedAt(t)' BY <1>2 DEF RetAt, HandedAt
  <1>4. SameValue BY <1>1, ThreadSame
  <1>5. Status(t)' = "dead" BY <1>2 DEF Status
  <1>6. Becomes(t, "dead") BY <1>1, <1>2, <1>5, AloneTurns DEF Becomes
  <1>7. Step BY <1>4, <1>6, NtDie
  <1> QED BY <1>1, <1>2, <1>3, <1>4, <1>7, ClientMove, ValueSame DEF Good, RInv

LEMMA KillRefines == ASSUME IInv, IInv', WInv, RInv, NEW t \in Threads, kill_thread(t) PROVE Good
  <1>0. TypeOK BY DEF IInv
  <1>1. srv.pc = "idle" /\ doomed' = doomed \cup {t} /\ UNCHANGED <<call, loc>> BY DEF kill_thread
  <1>2. SameValue BY <1>0, FlagsValue DEF kill_thread, Dequeue
  <1>3. srv.op = "none" /\ srv.pc \notin {"guarded", "unguard"} BY <1>1 DEF WInv, OpOK
  <1>4. \/ srv' = srv
        \/ srv' = [Srv0 EXCEPT !.pc = "lock", !.op = "abandon", !.fn = "abandon", !.req = t]
    BY DEF kill_thread
  <1>5. RunOK'
    <2>1. CASE srv' = srv BY <1>3, <2>1 DEF RunOK
    <2>2. CASE srv' = [Srv0 EXCEPT !.pc = "lock", !.op = "abandon", !.fn = "abandon", !.req = t]
      <3>1. srv'.op = "abandon" /\ srv'.pc = "lock" /\ srv'.req = t BY <2>2 DEF Srv0
      <3> QED BY <1>1, <3>1 DEF RunOK
    <2> QED BY <1>4, <2>1, <2>2
  <1>6. ASSUME NEW u \in Threads, pc'[u] = pc[u] PROVE RetAt(u)' /\ HandedAt(u)'
    <2>1. ~Answered(u) /\ ~Runs(u) BY <1>1, IdleHanded
    <2> QED BY <1>1, <1>6, <2>1, HandedKept, RetKept
  <1>7. CASE UNCHANGED pc
    <2>1. HandedOK' BY <1>6, <1>7 DEF HandedOK
    <2> QED BY <1>1, <1>2, <1>5, <1>7, <2>1, ServerQuiet
  <1>8. CASE Goto(t, "dead")
    <2>1. Alone(t) /\ pc'[t] = "dead" BY <1>0, <1>1, <1>8, GotoAlone
    <2>2. RetAt(t)' /\ HandedAt(t)' BY <2>1 DEF RetAt, HandedAt
    <2>3. \A u \in Threads : RetAt(u)' /\ HandedAt(u)' BY <1>6, <2>1, <2>2 DEF Alone
    <2>4. Status(t)' = "dead" BY <2>1 DEF Status
    <2>5. Becomes(t, "dead") BY <1>1, <2>1, <2>4, AloneTurns DEF Becomes
    <2>6. Step BY <1>2, <2>5, NtDie
    <2> QED BY <1>2, <1>5, <2>3, <2>6, ValueSame DEF Good, RInv, RetOK, HandedOK
  <1> QED BY <1>7, <1>8 DEF kill_thread

(* A registration, and its end, are nothing to the object.                 *)
LEMMA RegisterRefines ==
  ASSUME IInv, WInv, RInv, NEW m \in MultiWaiters, register_wait(m) \/ unregister_wait(m) PROVE Good
  <1>0. TypeOK BY DEF IInv
  <1>1. SameValue BY <1>0, FlagsValue DEF register_wait, unregister_wait
  <1>2. UNCHANGED <<pc, call, loc, doomed>> BY DEF register_wait, unregister_wait, client
  <1>3. srv.pc = "idle" BY DEF register_wait, unregister_wait
  <1>4. HandedOK'
    <2> SUFFICES ASSUME NEW u \in Threads PROVE HandedAt(u)' BY DEF HandedOK
    <2>1. ~Answered(u) /\ ~Runs(u) BY <1>3, IdleHanded
    <2> QED BY <1>2, <2>1, HandedKept
  <1>5. srv'.op = "none" /\ srv'.pc \notin {"guarded", "unguard"}
    <2>1. CASE srv' = srv BY <1>3, <2>1 DEF WInv, OpOK
    <2>2. CASE srv' = [Srv0 EXCEPT !.pc = "regcheck", !.m = m] BY <2>2 DEF Srv0
    <2> QED BY <2>1, <2>2 DEF register_wait, unregister_wait
  <1>6. RunOK' BY <1>5 DEF RunOK
  <1> QED BY <1>1, <1>2, <1>4, <1>6, ServerQuiet

(* The last handle is closed.                                              *)
LEMMA DestroyRefines == ASSUME IInv, WInv, RInv, destroy PROVE Good
  <1>0. TypeOK BY DEF IInv
  <1>1. /\ word' = [word EXCEPT !.type = "unknown", !.locked = FALSE, !.server = FALSE, !.multi = FALSE]
        /\ srv.pc = "idle" /\ Live /\ UNCHANGED <<pc, call, loc>>
        /\ srv' = [Srv0 EXCEPT !.pc = "destroyed"]
    BY DEF destroy, client
  <1>2. word'.low = word.low /\ word'.high = word.high /\ word'.type = "unknown" BY <1>0, <1>1 DEF TypeOK, Word
  <1>3. ~Live' BY <1>2, KindAssumption DEF Live
  <1>4. \A u \in Threads : Status(u)' = Status(u) BY <1>1 DEF Status
  <1>5. Nt!Close BY <1>1, <1>2, <1>3, <1>4 DEF Nt!Close, Nt!object
  <1>6. HandedOK'
    <2> SUFFICES ASSUME NEW u \in Threads PROVE HandedAt(u)' BY DEF HandedOK
    <2>1. ~Answered(u) /\ ~Runs(u) BY <1>1, IdleHanded
    <2> QED BY <1>1, <2>1, HandedKept
  <1>7. RunOK' BY <1>1 DEF RunOK, Srv0
  <1>8. ValueOK' BY <1>2 DEF RInv, ValueOK
  <1>9. RetOK' BY <1>1 DEF RInv, RetOK, RetAt
  <1> QED BY <1>5, <1>6, <1>7, <1>8, <1>9 DEF Good, RInv, Step, Nt!Next

LEMMA EnvironmentRefines == ASSUME IInv, IInv', WInv, RInv, Environment PROVE Good
  <1>0. TypeOK BY DEF IInv
  <1>1. ASSUME NEW t \in Threads, wait_interrupted(t) PROVE Good
    <2>0. RetAt(t) BY ThreadRet
    <2>1. pc[t] = "asleep" /\ SameValue /\ Goto(t, "loop") /\ UNCHANGED <<srv, doomed, call, loc>>
      BY <1>1, ThreadSame DEF wait_interrupted, ClientOnly
    <2>2. loc[t].ret \in Open /\ call[t].what = "wait" BY <2>0, <2>1 DEF RetAt
    <2>3. pc'[t] = "loop" BY <1>0, <2>1 DEF TypeOK, Goto
    <2>4. RetAt(t)' BY <2>1, <2>2, <2>3 DEF RetAt
    <2> QED BY <2>1, <2>2, <2>4, GotoMove
  <1> QED BY <1>1, InvokeRefines, SigquitRefines, KillRefines, RegisterRefines, DestroyRefines DEF Environment

-----------------------------------------------------------------------------
(* wineserver takes a request.                                             *)
LEMMA EnqueueRefines == ASSUME IInv, IInv', WInv, RInv, NEW t \in Threads, add_server_waiter(t) PROVE Good
  <1>0. TypeOK /\ RetAt(t) /\ HandedAt(t) BY ThreadRet DEF IInv
  <1>1. /\ srv.pc = "idle" /\ pc[t] = "request" /\ call[t].what = "wait" /\ Goto(t, "queued")
        /\ UNCHANGED <<call, loc, doomed>>
        /\ srv' = [Srv0 EXCEPT !.pc = "lock", !.fn = "signaled", !.cur = t]
    BY DEF add_server_waiter
  <1>2. SameValue BY <1>0, FlagsValue DEF add_server_waiter
  <1>3. Alone(t) /\ pc'[t] = "queued" BY <1>0, <1>1, GotoAlone
  <1>4. loc[t].ret \in Open BY <1>1, IdleHanded
  <1>5. RetAt(t)' /\ HandedAt(t)' BY <1>1, <1>3, <1>4 DEF RetAt, HandedAt
  <1>6. ASSUME NEW u \in Threads \ {t} PROVE RetAt(u)' /\ HandedAt(u)'
    <2>1. pc'[u] = pc[u] BY <1>3 DEF Alone
    <2>2. ~Answered(u) /\ ~Runs(u) BY <1>1, IdleHanded
    <2> QED BY <1>1, <1>6, <2>1, <2>2, HandedKept, RetKept
  <1>7. RunOK' BY <1>1 DEF RunOK, Srv0
  <1>8. Status(t)' = Status(t) BY <1>1, <1>3 DEF Status
  <1>9. \A u \in Threads : Status(u)' = Status(u) BY <1>3, <1>8 DEF Alone, Status
  <1>10. Step BY <1>1, <1>2, <1>9, NtQuiet DEF Step
  <1> QED BY <1>2, <1>5, <1>6, <1>7, <1>10, ValueSame DEF Good, RInv, RetOK, HandedOK

LEMMA StartRefines == ASSUME IInv, IInv', WInv, RInv, NEW t \in Threads, start_request(t) PROVE Good
  <1>1. srv.pc = "idle" /\ pc[t] = "request" /\ UNCHANGED <<word, pc, call, loc, doomed>>
    BY DEF start_request, client
  <1>2. SameValue BY <1>1, ThreadSame
  <1>3. HandedOK'
    <2> SUFFICES ASSUME NEW u \in Threads PROVE HandedAt(u)' BY DEF HandedOK
    <2>1. ~Answered(u) /\ ~Runs(u) BY <1>1, IdleHanded
    <2> QED BY <1>1, <2>1, HandedKept
  <1>4. loc[t].ret \in Open BY <1>1, IdleHanded
  <1>5. RunOK'
    <2>1. CASE /\ call[t].what \in {"signal", "pulse"}
               /\ srv' = [Srv0 EXCEPT !.pc = "lock", !.op = "signal", !.fn = "signal",
                                      !.req = t, !.max = Max(t)]
      <3>1. srv'.pc = "lock" /\ srv'.op = "signal" /\ srv'.fn = "signal" /\ srv'.req = t BY <2>1 DEF Srv0
      <3> QED BY <1>1, <1>4, <2>1, <3>1 DEF RunOK, SignalOK, Before, What, Ret
    <2>2. CASE /\ call[t].what = "reset"
               /\ srv' = [Srv0 EXCEPT !.pc = "lock", !.op = "reset", !.fn = "reset",
                                      !.req = t, !.max = Max(t)]
      <3>1. srv'.pc = "lock" /\ srv'.op = "reset" /\ srv'.fn = "reset" /\ srv'.req = t BY <2>2 DEF Srv0
      <3> QED BY <1>1, <1>4, <2>2, <3>1 DEF RunOK, ResetOK, Before, What, Ret
    <2>3. CASE /\ call[t].what = "exit"
               /\ srv' = [Srv0 EXCEPT !.pc = "lock", !.op = "abandon", !.fn = "abandon", !.req = t]
      <3>1. srv'.pc = "lock" /\ srv'.op = "abandon" /\ srv'.req = t BY <2>3 DEF Srv0
      <3> QED BY <1>1, <2>3, <3>1 DEF RunOK, What
    <2> QED BY <2>1, <2>2, <2>3 DEF start_request
  <1> QED BY <1>1, <1>2, <1>3, <1>5, ServerQuiet

LEMMA AcceptRefines ==
  ASSUME IInv, IInv', WInv, RInv, NEW t \in Threads, ServerAccept(t) \/ thread_timeout(t) PROVE Good
  <1>0. TypeOK /\ RetAt(t) BY ThreadRet DEF IInv
  <1>1. CASE reply_at_once(t)
    <2>1. srv.pc = "idle" /\ pc[t] = "request" /\ Reply(t) /\ UNCHANGED <<word, doomed>>
      BY <1>1 DEF reply_at_once
    <2>2. \A u \in Threads : ~Answered(u) /\ ~Runs(u) BY <2>1, IdleHanded
    <2>3. SameValue BY <2>1, ThreadSame
    <2>4. Status(t) = "pending" BY <2>1, IdleHanded, StatusPending
    <2>5. call[t].what = "exit" \/ MayEnd(t) BY <1>1, <2>4 DEF reply_at_once, MayEnd
    <2> QED BY <2>1, <2>2, <2>3, <2>5, ReplyGood
  <1>2. CASE wake_wfusync_waiters(t)
    <2>1. pc[t] = "notify" /\ Return(t) /\ UNCHANGED <<word, srv, doomed>> BY <1>2 DEF wake_wfusync_waiters
    <2>2. loc[t].ret \in {"success", "abandoned"} BY <1>0, <2>1 DEF RetAt, Taken
    <2>3. MayEnd(t) BY <2>1, <2>2, StatusDone DEF MayEnd
    <2> QED BY <2>1, <2>3, ThreadSame, ReturnMove
  <1>3. CASE try_wait_all(t)
    <2>1. /\ srv.pc = "idle" /\ pc[t] = "request" /\ call[t].what = "tryall" /\ UNCHANGED doomed
      BY <1>3 DEF try_wait_all
    <2>2. ASSUME NEW u \in Threads PROVE ~Answered(u) /\ ~Runs(u) BY <2>1, IdleHanded
    <2>3. loc[t].ret \in Open BY <2>1, IdleHanded
    <2>4. CASE Reply(t) /\ UNCHANGED word
      <3>1. MayEnd(t) BY <2>1, <2>3, StatusPending DEF MayEnd
      <3> QED BY <2>1, <2>2, <2>4, <3>1, ThreadSame, ReplyGood
    <2>5. CASE /\ word' = [word EXCEPT !.server = TRUE] /\ UNCHANGED <<pc, call, loc>>
               /\ srv' = [Srv0 EXCEPT !.pc = "guarded", !.req = t]
      <3>1. SameValue BY <1>0, <2>5, FlagsValue
      <3>2. srv'.pc = "guarded" /\ srv'.req = t /\ srv'.op = "none" BY <2>5 DEF Srv0
      <3>3. RunOK' BY <2>1, <2>3, <2>5, <3>2 DEF RunOK, TryAllOK, What, Ret
      <3>4. HandedOK' BY <2>2, <2>5, HandedKept DEF HandedOK
      <3> QED BY <2>5, <3>1, <3>3, <3>4, ServerQuiet
    <2> QED BY <1>3, <2>4, <2>5 DEF try_wait_all
  <1>4. CASE thread_timeout(t)
    <2>1. srv.pc = "idle" /\ pc[t] = "queued" /\ Return(t) /\ UNCHANGED <<srv, doomed>> BY <1>4 DEF thread_timeout
    <2>2. SameValue BY <1>0, <1>4, FlagsValue DEF thread_timeout, Dequeue
    <2>3. call[t].what = "wait" /\ loc[t].ret \in Open BY <1>0, <2>1, IdleHanded DEF RetAt
    <2>4. MayEnd(t) BY <2>1, <2>3, StatusPending DEF MayEnd
    <2> QED BY <2>1, <2>2, <2>4, ReturnMove
  <1> QED BY <1>1, <1>2, <1>3, <1>4, EnqueueRefines, StartRefines DEF ServerAccept

-----------------------------------------------------------------------------
(* wineserver carries a request out.                                       *)

(* The request goes on as it was.                                          *)
SameRequest == /\ srv'.op = srv.op /\ srv'.req = srv.req
               /\ srv.pc \notin {"guarded", "unguard"} /\ srv'.pc \notin {"guarded", "unguard"}
               /\ srv.op \in {"signal", "reset"} => (Before(srv.op)' <=> Before(srv.op))

LEMMA RunKept ==
  ASSUME RInv, SameRequest, doomed' = doomed, srv.op # "none" /\ srv.req \notin doomed => What' = What /\ Ret' = Ret,
         srv.op \in {"signal", "reset"} => srv.req \notin doomed
  PROVE  RunOK'
  BY DEF RInv, RunOK, SameRequest, SignalOK, ResetOK, Before

LEMMA ServerMoves ==
  ASSUME IInv, WInv, RInv, UNCHANGED <<pc, call, loc, doomed>>, SameValue, SameRequest,
         \A u \in Threads : Answered(u) => Answered(u)'
  PROVE  Good
  <1>1. HandedOK'
    <2> SUFFICES ASSUME NEW u \in Threads PROVE HandedAt(u)' BY DEF HandedOK
    <2>1. Runs(u) => Runs(u)' BY DEF Runs, SameRequest
    <2> QED BY <2>1, HandedKept
  <1>2. What' = What /\ Ret' = Ret BY DEF What, Ret, SameRequest
  <1>3. srv.op \in {"signal", "reset"} => srv.req \notin doomed BY DEF WInv, ServedOK
  <1>4. RunOK' BY <1>2, <1>3, RunKept
  <1> QED BY <1>1, <1>4, ServerQuiet

(* ... or wineserver has none any more.                                    *)
LEMMA ServerRests ==
  ASSUME IInv, WInv, RInv, UNCHANGED <<pc, call, loc>>, SameValue, srv' = Srv0, srv.op = "none",
         srv.pc \notin {"guarded", "unguard"}, \A u \in Threads : ~Answered(u)
  PROVE  Good
  <1>1. HandedOK'
    <2> SUFFICES ASSUME NEW u \in Threads PROVE HandedAt(u)' BY DEF HandedOK
    <2>1. ~Runs(u) BY DEF Runs
    <2> QED BY <2>1, HandedKept
  <1>2. RunOK' BY DEF RunOK, Srv0
  <1> QED BY <1>1, <1>2, ServerQuiet

(* A request that is through is told its result.                           *)
LEMMA RequestDone ==
  ASSUME IInv, WInv, RInv, srv.op # "none", srv.pc \notin {"lock", "body", "guarded", "unguard"},
         srv.op = "signal" => What # "pulse"
  PROVE  LET t == srv.req
         IN  /\ t \in Threads
             /\ \A u \in Threads \ {t} : ~Runs(u)
             /\ Runs(t) => t \notin doomed
             /\ call[t].what = "exit" \/ t \in doomed \/ MayEnd(t)
  <1> DEFINE t == srv.req
  <1>1. t \in Threads /\ ((pc[t] = "request" /\ t \notin doomed) \/ (srv.op = "abandon" /\ t \in doomed))
    BY Requester DEF WInv, ServedOK
  <1>2. \A u \in Threads \ {t} : ~Runs(u) BY DEF Runs
  <1>3. Runs(t) => t \notin doomed BY <1>1 DEF Runs
  <1>4. ~Before("signal") /\ ~Before("reset") BY DEF Before
  <1>5. RunOK BY DEF RInv
  <1>6. CASE srv.op = "abandon" BY <1>1, <1>2, <1>3, <1>5, <1>6 DEF RunOK, What
  <1>7. CASE srv.op \in {"signal", "reset"}
    <2>1. loc[t].ret \in {"success", "error"} BY <1>4, <1>5, <1>7 DEF RunOK, SignalOK, ResetOK, Ret
    <2>2. Status(t) \in {"success", "error"} BY <1>1, <1>7, <2>1 DEF Status
    <2> QED BY <1>1, <1>2, <1>3, <2>2 DEF MayEnd
  <1>8. srv.op \in {"signal", "reset", "abandon"} BY DEF WInv, OpOK
  <1> QED BY <1>6, <1>7, <1>8

(* wineserver notes what it has done for thread t.                         *)
LEMMA NotedGood ==
  ASSUME IInv, IInv', WInv, RInv, NEW t \in Threads, NEW r, SetRet(t, r), UNCHANGED <<pc, call, doomed>>,
         pc[t] \in {"queued", "request"}, HandedAt(t)', RunOK', ValueOK',
         \A u \in Threads : (Answered(u) => Answered(u)') /\ (Runs(u) => Runs(u)'),
         Becomes(t, r) => Step, r \in {"success", "abandoned", "error", "half"}
  PROVE  Good
  <1>0. TypeOK BY DEF IInv
  <1>1. loc'[t].ret = r /\ \A u \in Threads \ {t} : loc'[u] = loc[u] BY <1>0, SetRetAlone
  <1>2. RetAt(t)'
    <2>1. RetAt(t) BY ThreadRet
    <2> QED BY <2>1 DEF RetAt
  <1>3. \A u \in Threads \ {t} : RetAt(u)' /\ HandedAt(u)' BY <1>1, HandedKept, RetKept
  <1>4. Alone(t) BY <1>1 DEF Alone
  <1>5. Status(t)' = r BY <1>1 DEF Status
  <1>6. Becomes(t, r) BY <1>4, <1>5, AloneTurns DEF Becomes
  <1> QED BY <1>2, <1>3, <1>6 DEF Good, RInv, RetOK, HandedOK

(* No queued thread is the one whose request runs.                         *)
LEMMA Apart ==
  ASSUME WInv, pc[srv.cur] = "queued", srv.op # "none" PROVE srv.req # srv.cur \/ srv.req \in doomed
  BY DEF WInv, ServedOK

LEMMA SatisfiedRefines == ASSUME IInv, IInv', WInv, RInv, NoOverflow, server_satisfied PROVE Good
  <1> DEFINE t == srv.cur
  <1>0. TypeOK /\ srv \in Srv /\ ValueOK BY DEF IInv, TypeOK, RInv
  <1>1. srv.pc = "body" /\ srv.fn = "satisfied" /\ srv' = [srv EXCEPT !.pc = "unlock"] /\ UNCHANGED <<pc, call, doomed>>
    BY DEF server_satisfied
  <1>2. Signaled(word, t) BY <1>1 DEF IInv, Safe, VerdictOK
  <1>3. t \in Threads /\ pc[t] = "queued" BY <1>1 DEF Checking, WInv, ServedOK
  <1>4. word' = Consumed(word, t) /\ SetRet(t, ConsumedStatus(word)) BY <1>2 DEF server_satisfied
  <1>5. srv'.pc = "unlock" /\ srv'.fn = "satisfied" /\ srv'.cur = t /\ srv'.op = srv.op /\ srv'.req = srv.req
    BY <1>0, <1>1 DEF Srv
  <1>6. RetAt(t) /\ HandedAt(t) BY <1>3, ThreadRet
  <1>7. loc[t].ret \in Open /\ call[t].what = "wait" BY <1>1, <1>3, <1>6 DEF RetAt, HandedAt, Answered
  <1>8. Status(t) = "pending" BY <1>3, <1>7, StatusPending
  <1>9. ConsumedStatus(word) \in Taken BY DEF ConsumedStatus, Taken
  <1>10. loc'[t].ret = ConsumedStatus(word) /\ \A u \in Threads \ {t} : loc'[u] = loc[u]
    BY <1>0, <1>3, <1>4, SetRetAlone
  <1>11. HandedAt(t)' BY <1>1, <1>3, <1>5, <1>9, <1>10 DEF HandedAt, Answered
  <1>12. word.high # IntMax \/ ~Mutex
    <2>1. word.high \in Int /\ IntMax \in Nat BY <1>0, WidthAssumption DEF TypeOK, Word
    <2> QED BY <2>1 DEF NoOverflow
  <1>13. word'.type = word.type BY <1>0, <1>3, <1>4, ConsumedFlags DEF TypeOK
  <1>14. ValueOK' BY <1>0, <1>2, <1>3, <1>4, <1>12, ValueConsumed
  <1>15. Becomes(t, ConsumedStatus(word)) => Step
    BY <1>0, <1>2, <1>3, <1>4, <1>7, <1>8, <1>12, <1>13, NtSatisfied
  <1>16. RunOK'
    <2>1. SameRequest BY <1>1, <1>5 DEF SameRequest, Before
    <2>2. srv.op # "none" /\ srv.req \notin doomed => What' = What /\ Ret' = Ret
      <3> SUFFICES ASSUME srv.op # "none", srv.req \notin doomed PROVE What' = What /\ Ret' = Ret OBVIOUS
      <3>1. srv.req \in Threads \ {t} BY <1>3, Apart, Requester
      <3> QED BY <1>1, <1>5, <1>10, <3>1 DEF What, Ret
    <2>3. srv.op \in {"signal", "reset"} => srv.req \notin doomed BY DEF WInv, ServedOK
    <2> QED BY <1>1, <2>1, <2>2, <2>3, RunKept
  <1>17. \A u \in Threads : (Answered(u) => Answered(u)') /\ (Runs(u) => Runs(u)')
    BY <1>1, <1>5 DEF Answered, Runs
  <1>18. ConsumedStatus(word) \in {"success", "abandoned", "error", "half"} BY <1>9 DEF Taken
  <1> QED BY <1>1, <1>3, <1>4, <1>11, <1>14, <1>15, <1>16, <1>17, <1>18, NotedGood

(* SetEvent, ReleaseSemaphore, ReleaseMutex and ResetEvent in wineserver.  *)
LEMMA OperationRefines == ASSUME IInv, IInv', WInv, RInv, server_signal \/ server_reset PROVE Good
  <1> DEFINE t == srv.req
             n == call[t].n
             refused == ReleaseRefused(word, t, n)
             r == IF srv.fn = "reset" THEN "success" ELSE IF refused THEN "error"
                  ELSE IF call[t].what = "pulse" THEN "half" ELSE "success"
  <1>0. TypeOK /\ srv \in Srv /\ ValueOK BY DEF IInv, TypeOK, RInv
  <1>1. srv.pc = "body" /\ srv.fn \in {"signal", "reset"} /\ UNCHANGED <<pc, call, doomed>>
    BY DEF server_signal, server_reset
  <1>2. srv.op = srv.fn BY <1>1 DEF WInv, OpOK
  <1>3. t \in Threads /\ pc[t] = "request" /\ t \notin doomed BY <1>1, <1>2, Requester DEF WInv, ServedOK
  <1>4. n \in Nat /\ OwesAt(t) BY <1>0, <1>3, CallType DEF WInv, OwesOK
  <1>5. /\ srv'.pc = "unlock" /\ srv'.fn = srv.fn /\ srv'.op = srv.op /\ srv'.req = srv.req
        /\ SetRet(t, r)
    BY <1>0, <1>1 DEF server_signal, server_reset, Srv
  <1>6. r \in {"success", "abandoned", "error", "half"} OBVIOUS
  <1>7. loc'[t].ret = r /\ What' = What /\ Ret' = r BY <1>0, <1>1, <1>3, <1>5, SetRetAlone DEF What, Ret
  <1>8. \A u \in Threads : (Answered(u) => Answered(u)') /\ (Runs(u) => Runs(u)')
    BY <1>1, <1>5 DEF Answered, Runs
  <1>9. HandedAt(t)'
    <2>1. Runs(t)' BY <1>1, <1>2, <1>5 DEF Runs
    <2> QED BY <1>1, <1>3, <1>5, <2>1 DEF HandedAt
  <1>10. CASE srv.fn = "signal"
    <2>1. SignalOK /\ Before("signal") BY <1>1, <1>2, <1>10 DEF RInv, RunOK, Before
    <2>2. What \in {"signal", "pulse"} /\ Ret \in Open BY <2>1 DEF SignalOK
    <2>3. Status(t) = "pending" BY <1>3, <2>2, StatusPending DEF Ret
    <2>4. word' = IF refused THEN word ELSE Released(word, n) BY <1>10 DEF server_signal, server_reset
    <2>5. word'.type = word.type BY <1>0, <2>4, ReleasedFlags DEF TypeOK
    <2>6. What = "pulse" => Event /\ ~refused
      BY <1>4 DEF OwesAt, What, ReleaseRefused, Event, Semaphore, Mutex
    <2>7. What = "signal" \/ (What = "pulse" /\ Event) BY <2>2, <2>6
    <2>8. r = IF refused THEN "error" ELSE IF call[t].what = "pulse" THEN "half" ELSE "success" BY <1>10
    <2>9. ValueOK' BY <1>0, <1>3, <1>4, <2>4, ValueReleased
    <2>10. Becomes(t, r) => Step BY <1>0, <1>3, <2>3, <2>4, <2>5, <2>7, <2>8, NtReleased DEF What
    <2>11. IF What = "pulse" THEN r = "half" ELSE r \in {"success", "error"} BY <2>6, <2>8 DEF What
    <2> HIDE DEF r, refused, n
    <2>12. RunOK' BY <1>2, <1>5, <1>7, <1>10, <2>2, <2>11 DEF RunOK, SignalOK, Before
    <2> QED BY <1>1, <1>3, <1>5, <1>6, <1>8, <1>9, <2>9, <2>10, <2>12, NotedGood
  <1>11. CASE srv.fn = "reset"
    <2>1. ResetOK /\ Before("reset") /\ Event BY <1>1, <1>2, <1>11 DEF RInv, RunOK, Before, WInv, OpOK
    <2>2. Status(t) = "half" \/ (Status(t) = "pending" /\ call[t].what = "reset")
      <3>1. CASE What = "pulse"
        <4>1. loc[t].ret = "half" BY <2>1, <3>1 DEF ResetOK, Ret
        <4> QED BY <1>3, <4>1 DEF Status
      <3>2. CASE What = "reset"
        <4>1. loc[t].ret \in Open BY <2>1, <3>2 DEF ResetOK, Ret
        <4> QED BY <1>3, <3>2, <4>1, StatusPending DEF What
      <3> QED BY <2>1, <3>1, <3>2 DEF ResetOK
    <2>3. word' = [word EXCEPT !.low = 0] BY <1>11 DEF server_signal, server_reset
    <2>4. r = "success" BY <1>11
    <2> HIDE DEF r, refused, n
    <2>5. ValueOK' BY <1>0, <2>1, <2>3, ValueReset
    <2>6. Becomes(t, r) => Step BY <1>0, <1>3, <2>1, <2>2, <2>3, <2>4, NtReset
    <2>7. What \in {"reset", "pulse"} BY <2>1 DEF ResetOK
    <2>8. RunOK' BY <1>2, <1>5, <1>7, <1>11, <2>4, <2>7 DEF RunOK, ResetOK, Before
    <2> QED BY <1>1, <1>3, <1>5, <1>6, <1>8, <1>9, <2>5, <2>6, <2>8, NotedGood
  <1> QED BY <1>1, <1>10, <1>11

LEMMA AbandonRefines == ASSUME IInv, IInv', WInv, RInv, server_abandon PROVE Good
  <1> DEFINE t == srv.req
  <1>0. TypeOK /\ srv \in Srv BY DEF IInv, TypeOK
  <1>1. srv.pc = "body" /\ srv.fn = "abandon" /\ UNCHANGED <<pc, call, loc, doomed>> BY DEF server_abandon, client
  <1>2. srv.op = "abandon" /\ t \in Threads BY <1>1, Requester DEF WInv, OpOK
  <1>3. srv'.pc = "unlock" /\ srv'.fn = "abandon" /\ srv'.op = srv.op /\ srv'.req = srv.req
    BY <1>0, <1>1 DEF server_abandon, Srv
  <1>4. SameRequest BY <1>1, <1>2, <1>3 DEF SameRequest
  <1>5. \A u \in Threads : Answered(u) => Answered(u)' BY <1>1 DEF Answered
  <1>6. CASE ~Owns(word, t)
    <2>1. SameValue BY <1>6, ThreadSame DEF server_abandon
    <2> QED BY <1>1, <1>4, <1>5, <2>1, ServerMoves
  <1>7. CASE Owns(word, t)
    <2>1. word' = Abandoned(word, t) BY <1>7 DEF server_abandon
    <2>2. ValueOK' BY <1>0, <1>2, <1>7, <2>1, ValueAbandoned
    <2>3. \A u \in Threads : Status(u)' = Status(u) BY <1>1 DEF Status
    <2>4. Step BY <1>0, <1>1, <1>2, <1>7, <2>1, <2>3, NtAbandon
    <2>5. RunOK'
      <3>1. What' = What /\ Ret' = Ret BY <1>1, <1>3 DEF What, Ret
      <3> QED BY <1>1, <1>2, <1>4, <3>1, RunKept
    <2>6. \A u \in Threads : RetAt(u)' /\ HandedAt(u)'
      <3>1. \A u \in Threads : Runs(u) => Runs(u)' BY <1>1, <1>2 DEF Runs
      <3> QED BY <1>1, <1>5, <3>1, HandedKept, RetKept
    <2> QED BY <2>2, <2>4, <2>5, <2>6 DEF Good, RInv, RetOK, HandedOK
  <1> QED BY <1>6, <1>7

(* Where wineserver goes on after an unlock.                               *)
LEMMA ServerUnlockRefines == ASSUME IInv, IInv', WInv, RInv, server_unlock_state PROVE Good
  <1>0. TypeOK /\ srv \in Srv BY DEF IInv, TypeOK
  <1>1. srv.pc = "unlock" /\ word' = [word EXCEPT !.locked = FALSE] BY DEF server_unlock_state
  <1>2. SameValue BY <1>1, ThreadSame
  <1>3. srv.fn # "none" /\ (srv.fn \in {"signal", "reset", "abandon"} => srv.op = srv.fn)
    BY <1>1 DEF IInv, Safe, RequestOK, WInv, OpOK
  <1>4. ASSUME UNCHANGED client, srv'.op = srv.op, srv'.req = srv.req,
               \/ srv'.pc = "lock" /\ srv'.fn = "satisfied"
               \/ srv'.pc \in {"remove", "scan", "wakeaddr", "wakemulti"},
               srv.fn = "satisfied" => srv'.pc = "remove" /\ srv'.cur = srv.cur
        PROVE  Good
    <2>1. SameRequest BY <1>1, <1>4 DEF SameRequest, Before
    <2>2. \A u \in Threads : Answered(u) => Answered(u)' BY <1>1, <1>4 DEF Answered
    <2> QED BY <1>2, <1>4, <2>1, <2>2, ServerMoves DEF client
  <1>5. CASE srv.fn = "signaled" /\ srv.ok
    <2>1. srv' = [srv EXCEPT !.pc = "lock", !.fn = "satisfied"] /\ UNCHANGED client
      BY <1>5 DEF server_unlock_state
    <2>2. srv'.op = srv.op /\ srv'.req = srv.req /\ srv'.pc = "lock" /\ srv'.fn = "satisfied"
      BY <1>0, <2>1 DEF Srv
    <2> QED BY <1>4, <1>5, <2>1, <2>2
  <1>6. CASE srv.fn = "signaled" /\ ~srv.ok
    <2>1. UNCHANGED client BY <1>6 DEF server_unlock_state
    <2>2. CASE srv' = [srv EXCEPT !.pc = "remove"]
      <3>1. srv'.op = srv.op /\ srv'.req = srv.req /\ srv'.pc = "remove" BY <1>0, <2>2 DEF Srv
      <3> QED BY <1>4, <1>6, <2>1, <3>1
    <2>3. CASE srv.pos # 0 /\ srv' = [srv EXCEPT !.pc = "scan", !.pos = @ + 1]
      <3>1. srv'.op = srv.op /\ srv'.req = srv.req /\ srv'.pc = "scan" BY <1>0, <2>3 DEF Srv
      <3> QED BY <1>4, <1>6, <2>1, <3>1
    <2>4. CASE srv.pos = 0 /\ srv' = Srv0
      <3>1. srv.op = "none" BY <1>1, <1>6, <2>4 DEF WInv, OpOK, Checking
      <3>2. \A u \in Threads : ~Answered(u) BY <1>1, <1>6 DEF Answered
      <3> QED BY <1>1, <1>2, <2>1, <2>4, <3>1, <3>2, ServerRests DEF client
    <2> QED BY <1>6, <2>2, <2>3, <2>4 DEF server_unlock_state
  <1>7. CASE srv.fn = "satisfied"
    <2>1. srv' = [srv EXCEPT !.pc = "remove"] /\ UNCHANGED client BY <1>7 DEF server_unlock_state
    <2>2. srv'.op = srv.op /\ srv'.req = srv.req /\ srv'.pc = "remove" /\ srv'.cur = srv.cur
      BY <1>0, <2>1 DEF Srv
    <2> QED BY <1>4, <2>1, <2>2
  <1>8. CASE srv.fn = "reset"
    <2>1. srv' = [srv EXCEPT !.pc = "scan", !.pos = 1] /\ UNCHANGED client BY <1>8 DEF server_unlock_state
    <2>2. srv'.op = srv.op /\ srv'.req = srv.req /\ srv'.pc = "scan" BY <1>0, <2>1 DEF Srv
    <2> QED BY <1>4, <1>8, <2>1, <2>2
  <1>9. CASE srv.fn \in {"signal", "abandon"}
    <2>1. CASE srv.wakes \/ Event
      <3>1. PICK p \in {"wakeaddr", "wakemulti"} : srv' = [srv EXCEPT !.pc = p] /\ UNCHANGED client
        BY <1>9, <2>1 DEF server_unlock_state
      <3>2. srv'.op = srv.op /\ srv'.req = srv.req /\ srv'.pc \in {"wakeaddr", "wakemulti"} BY <1>0, <3>1 DEF Srv
      <3> QED BY <1>4, <1>9, <3>1, <3>2
    <2>2. CASE ~srv.wakes /\ ~Event
      <3>1. Reply(srv.req) /\ UNCHANGED doomed BY <1>9, <2>2 DEF server_unlock_state
      <3>2. srv.op \in {"signal", "abandon"} BY <1>3, <1>9
      <3>3. srv.op = "signal" => What # "pulse"
        <4> SUFFICES ASSUME srv.op = "signal" PROVE What # "pulse" OBVIOUS
        <4>1. srv.req \in Threads BY Requester
        <4> QED BY <2>2, <4>1 DEF WInv, OwesOK, OwesAt, What
      <3>4. \A u \in Threads : ~Answered(u) BY <1>1, <1>9 DEF Answered
      <3> QED BY <1>1, <1>2, <3>1, <3>2, <3>3, <3>4, RequestDone, ReplyGood
    <2> QED BY <2>1, <2>2
  <1> QED BY <1>0, <1>3, <1>5, <1>6, <1>7, <1>8, <1>9 DEF Srv, Fns

LEMMA ServerAddressRefines == ASSUME IInv, IInv', WInv, RInv, server_wake_address PROVE Good
  <1>0. TypeOK /\ srv \in Srv BY DEF IInv, TypeOK
  <1> DEFINE all == srv.op = "abandon" \/ WakesAll(call[srv.req].n)
             p == IF Event THEN "wakemulti" ELSE "scan"
  <1>1. /\ srv.pc = "wakeaddr" /\ WakeAddress(all, pc) /\ srv' = [srv EXCEPT !.pc = p, !.pos = 1]
        /\ UNCHANGED <<word, call, loc, doomed>>
    BY DEF server_wake_address
  <1>2. p \in {"wakemulti", "scan"} OBVIOUS
  <1> HIDE DEF p, all
  <1>3. srv'.pc = p /\ srv'.op = srv.op /\ srv'.req = srv.req BY <1>0, <1>1 DEF Srv
  <1>4. pc \in [Threads -> ClientPCs] BY <1>0 DEF TypeOK
  <1>5. ASSUME NEW u \in Threads PROVE RetAt(u)' /\ HandedAt(u)' /\ Status(u)' = Status(u)
    <2>1. RetAt(u)' /\ Status(u)' = Status(u) BY <1>1, <1>4, WokenRets
    <2>2. pc'[u] = pc[u] \/ pc'[u] = "loop" BY <1>1 DEF WakeAddress
    <2>3. (Answered(u) => Answered(u)') /\ (Runs(u) => Runs(u)') BY <1>1, <1>2, <1>3 DEF Answered, Runs
    <2>4. HandedAt(u)'
      <3>1. CASE pc'[u] = pc[u] BY <1>1, <2>3, <3>1, HandedKept
      <3>2. CASE pc'[u] = "loop" BY <3>2 DEF HandedAt
      <3> QED BY <2>2, <3>1, <3>2
    <2> QED BY <2>1, <2>4
  <1>6. RunOK'
    <2>1. SameRequest BY <1>1, <1>2, <1>3 DEF SameRequest, Before
    <2>2. What' = What /\ Ret' = Ret BY <1>1, <1>3 DEF What, Ret
    <2>3. srv.op \in {"signal", "reset"} => srv.req \notin doomed BY DEF WInv, ServedOK
    <2> QED BY <1>1, <2>1, <2>2, <2>3, RunKept
  <1>7. SameValue BY <1>1, ThreadSame
  <1>8. Step BY <1>1, <1>5, <1>7, NtQuiet DEF Step
  <1> QED BY <1>5, <1>6, <1>7, <1>8, ValueSame DEF Good, RInv, RetOK, HandedOK

LEMMA MultiRefines == ASSUME IInv, IInv', WInv, RInv, server_wake_multi PROVE Good
  <1>0. TypeOK /\ srv \in Srv BY DEF IInv, TypeOK
  <1>1. srv.pc = "wakemulti" /\ UNCHANGED word BY DEF server_wake_multi
  <1>2. SameValue /\ \A u \in Threads : ~Answered(u)
    <2>1. SameValue BY <1>1, ThreadSame
    <2>2. srv.fn = "satisfied" => srv.pc # "unlock" BY <1>1
    <2> QED BY <1>1, <2>1, <2>2 DEF Answered
  <1>3. CASE Event
    <2>1. srv' = [srv EXCEPT !.pc = "scan", !.pos = 1] /\ UNCHANGED client BY <1>3 DEF server_wake_multi
    <2>2. srv'.pc = "scan" /\ srv'.op = srv.op /\ srv'.req = srv.req BY <1>0, <2>1 DEF Srv
    <2>3. SameRequest BY <1>1, <2>2 DEF SameRequest, Before
    <2> QED BY <1>2, <2>1, <2>3, ServerMoves DEF client
  <1>4. CASE ~Event
    <2>1. Reply(srv.req) /\ UNCHANGED doomed BY <1>4 DEF server_wake_multi
    <2>2. srv.op \in {"signal", "abandon"} BY <1>1 DEF WInv, OpOK
    <2>3. srv.op = "signal" => What # "pulse"
      <3> SUFFICES ASSUME srv.op = "signal" PROVE What # "pulse" OBVIOUS
      <3>1. srv.req \in Threads BY Requester
      <3> QED BY <1>4, <3>1 DEF WInv, OwesOK, OwesAt, What
    <2> QED BY <1>1, <1>2, <2>1, <2>2, <2>3, RequestDone, ReplyGood
  <1> QED BY <1>3, <1>4

LEMMA ScanRefines == ASSUME IInv, IInv', WInv, RInv, wake_up PROVE Good
  <1>0. TypeOK /\ srv \in Srv BY DEF IInv, TypeOK
  <1>1. srv.pc = "scan" /\ UNCHANGED word BY DEF wake_up
  <1>2. srv.op # "none" BY <1>1 DEF IInv, Safe, RequestOK
  <1>3. SameValue BY <1>1, ThreadSame
  <1>4. \A u \in Threads : ~Answered(u) BY <1>1 DEF Answered
  <1>5. CASE srv' = [srv EXCEPT !.pc = "lock", !.fn = "signaled", !.cur = queue[srv.pos]] /\ UNCHANGED client
    <2>1. srv'.pc = "lock" /\ srv'.fn = "signaled" /\ srv'.op = srv.op /\ srv'.req = srv.req
      BY <1>0, <1>5 DEF Srv
    <2>2. SameRequest BY <1>1, <2>1 DEF SameRequest, Before
    <2> QED BY <1>3, <1>4, <1>5, <2>2, ServerMoves DEF client
  <1>6. CASE /\ srv.op = "signal" /\ What = "pulse" /\ UNCHANGED client
             /\ srv' = [srv EXCEPT !.pc = "lock", !.op = "reset", !.fn = "reset", !.max = Max(srv.req)]
    <2>1. srv'.pc = "lock" /\ srv'.op = "reset" /\ srv'.fn = "reset" /\ srv'.req = srv.req BY <1>0, <1>6 DEF Srv
    <2>2. Ret = "half" BY <1>1, <1>6 DEF RInv, RunOK, SignalOK, Before
    <2>3. What' = "pulse" /\ Ret' = "half" BY <1>6, <2>1, <2>2 DEF What, Ret, client
    <2>4. RunOK' BY <2>1, <2>3 DEF RunOK, ResetOK, Before
    <2>5. HandedOK'
      <3> SUFFICES ASSUME NEW u \in Threads PROVE HandedAt(u)' BY DEF HandedOK
      <3>1. Runs(u) => Runs(u)' BY <1>1, <1>6, <2>1 DEF Runs
      <3> QED BY <1>4, <1>6, <3>1, HandedKept DEF client
    <2> QED BY <1>3, <1>6, <2>4, <2>5, ServerQuiet DEF client
  <1>7. CASE Reply(srv.req) /\ UNCHANGED doomed /\ ~(srv.op = "signal" /\ What = "pulse")
    BY <1>1, <1>2, <1>3, <1>4, <1>7, RequestDone, ReplyGood
  <1>8. CASE srv' = [srv EXCEPT !.pc = "wakemulti"] /\ UNCHANGED client
    <2>1. srv'.pc = "wakemulti" /\ srv'.op = srv.op /\ srv'.req = srv.req BY <1>0, <1>8 DEF Srv
    <2>2. SameRequest BY <1>1, <2>1 DEF SameRequest, Before
    <2> QED BY <1>3, <1>4, <1>8, <2>2, ServerMoves DEF client
  <1> QED BY <1>5, <1>6, <1>7, <1>8 DEF wake_up, ScanDone, What

LEMMA EndRefines == ASSUME IInv, IInv', WInv, RInv, end_wait PROVE Good
  <1> DEFINE t == srv.cur
             pos == IF srv.max = 1 THEN Len(queue) ELSE 1
             max == IF srv.max > 0 THEN srv.max - 1 ELSE 0
  <1>0. TypeOK /\ srv \in Srv BY DEF IInv, TypeOK
  <1>1. srv.pc = "remove" /\ Return(t) /\ doomed' = doomed BY DEF end_wait
  <1>2. SameValue BY <1>0, FlagsValue DEF end_wait, Dequeue
  <1>3. t \in Threads /\ pc[t] = "queued" BY <1>1 DEF Checking, WInv, ServedOK
  <1>4. \A u \in Threads \ {t} : ~Answered(u) BY DEF Answered
  <1>5. Alone(t) BY <1>0, <1>1, <1>3, ReturnAlone
  <1>6. CASE srv.pos = 0 /\ srv' = Srv0
    <2>1. srv.op = "none" BY <1>1, <1>6 DEF WInv, OpOK, Checking
    <2>2. RunOK' BY <1>6 DEF RunOK, Srv0
    <2>3. \A u \in Threads : ~Runs(u) BY <1>1, <2>1 DEF Runs
    <2> QED BY <1>1, <1>2, <1>3, <1>4, <2>2, <2>3, EndGood
  <1>7. CASE srv' = [srv EXCEPT !.pc = "scan", !.max = max, !.pos = pos, !.cur = 0]
    <2> HIDE DEF pos, max
    <2>1. srv'.pc = "scan" /\ srv'.op = srv.op /\ srv'.req = srv.req BY <1>0, <1>7 DEF Srv
    <2>2. \A u \in Threads : Runs(u) => Runs(u)' BY <1>1, <2>1 DEF Runs
    <2>3. SameRequest BY <1>1, <2>1 DEF SameRequest, Before
    <2>4. srv.op # "none" /\ srv.req \notin doomed => What' = What /\ Ret' = Ret
      <3> SUFFICES ASSUME srv.op # "none", srv.req \notin doomed PROVE What' = What /\ Ret' = Ret OBVIOUS
      <3>1. srv.req \in Threads \ {t} BY <1>3, Apart, Requester
      <3> QED BY <1>5, <2>1, <3>1 DEF Alone, What, Ret
    <2>5. srv.op \in {"signal", "reset"} => srv.req \notin doomed BY DEF WInv, ServedOK
    <2>6. RunOK' BY <1>1, <2>3, <2>4, <2>5, RunKept
    <2> QED BY <1>1, <1>2, <1>3, <1>4, <2>2, <2>6, EndGood
  <1> QED BY <1>6, <1>7 DEF end_wait

(* A WaitAll takes its objects under the guard.                            *)
LEMMA WaitAllRefines == ASSUME IInv, IInv', WInv, RInv, wait_all_consume \/ wait_all_unguard PROVE Good
  <1> DEFINE t == srv.req
  <1>0. TypeOK /\ srv \in Srv /\ ValueOK BY DEF IInv, TypeOK, RInv
  <1>1. srv.pc \in {"guarded", "unguard"} /\ UNCHANGED doomed BY DEF wait_all_consume, wait_all_unguard
  <1>2. srv.op = "none" /\ srv.fn = "none" BY <1>1 DEF WInv, OpOK
  <1>3. t \in Threads /\ pc[t] = "request" /\ t \notin doomed BY <1>1, <1>2, Requester DEF WInv, ServedOK
  <1>4. TryAllOK BY <1>1 DEF RInv, RunOK
  <1>5. call[t].what = "tryall" BY <1>4 DEF TryAllOK, What
  <1>6. \A u \in Threads : ~Answered(u) BY <1>1, <1>2 DEF Answered
  <1>7. CASE wait_all_consume
    <2>1. srv.pc = "guarded" /\ srv' = [srv EXCEPT !.pc = "unguard"] /\ UNCHANGED <<pc, call>>
      BY <1>7 DEF wait_all_consume
    <2>2. srv'.pc = "unguard" /\ srv'.op = "none" /\ srv'.req = srv.req BY <1>0, <1>2, <2>1 DEF Srv
    <2>3. loc[t].ret \in Open BY <1>4, <2>1 DEF TryAllOK, Ret
    <2>4. Status(t) = "pending" BY <1>3, <2>3, StatusPending
    <2>5. \A u \in Threads : Runs(u) => Runs(u)' BY <2>2 DEF Runs
    <2>6. CASE UNCHANGED <<word, loc>>
      <3>1. SameValue BY <2>6, ThreadSame
      <3>2. HandedOK' BY <1>6, <2>1, <2>5, <2>6, HandedKept DEF HandedOK
      <3>3. TryAllOK' BY <1>5, <2>1, <2>2, <2>3, <2>6 DEF TryAllOK, What, Ret
      <3>4. RunOK' BY <2>2, <3>3 DEF RunOK
      <3> QED BY <2>1, <2>6, <3>1, <3>2, <3>4, ServerQuiet
    <2>7. CASE /\ Signaled(word, t) /\ ~(Mutex /\ word.low = t /\ word.high = IntMax)
               /\ word' = Consumed(word, t) /\ SetRet(t, ConsumedStatus(word))
      <3>1. ConsumedStatus(word) \in {"success", "abandoned"} BY DEF ConsumedStatus
      <3>2. loc'[t].ret = ConsumedStatus(word) BY <1>0, <1>3, <2>7, SetRetAlone
      <3>3. TryAllOK' BY <1>5, <2>1, <2>2, <3>1, <3>2 DEF TryAllOK, What, Ret, Taken
      <3>4. RunOK' BY <2>2, <3>3 DEF RunOK
      <3>5. ValueOK' BY <1>0, <1>3, <2>7, ValueConsumed
      <3>6. word'.type = word.type BY <1>0, <1>3, <2>7, ConsumedFlags DEF TypeOK
      <3>7. Becomes(t, ConsumedStatus(word)) => Step
        BY <1>0, <1>3, <1>5, <2>4, <2>7, <3>6, NtSatisfied
      <3>8. HandedAt(t)'
        <4>1. Runs(t)' BY <2>2 DEF Runs
        <4> QED BY <1>3, <2>1, <2>2, <4>1 DEF HandedAt
      <3> QED BY <1>1, <1>3, <1>6, <2>1, <2>2, <2>5, <2>7, <3>1, <3>4, <3>5, <3>7, <3>8, NotedGood
    <2> QED BY <1>7, <2>6, <2>7 DEF wait_all_consume
  <1>8. CASE wait_all_unguard
    <2>1. srv.pc = "unguard" /\ Reply(t) BY <1>8 DEF wait_all_unguard
    <2>2. SameValue BY <1>0, <1>8, FlagsValue DEF wait_all_unguard
    <2>3. MayEnd(t)
      <3>1. loc[t].ret \in Open \cup Taken BY <1>4, <2>1 DEF TryAllOK, Ret
      <3>2. CASE loc[t].ret \in Open
        <4>1. Status(t) = "pending" BY <1>3, <3>2, StatusPending
        <4> QED BY <1>5, <4>1 DEF MayEnd
      <3>3. CASE loc[t].ret \in Taken
        <4>1. Status(t) \in {"success", "abandoned"} BY <1>3, <3>3 DEF Status, Taken
        <4> QED BY <4>1 DEF MayEnd
      <3> QED BY <3>1, <3>2, <3>3
    <2>4. \A u \in Threads \ {t} : ~Runs(u) BY DEF Runs
    <2> QED BY <1>1, <1>3, <1>6, <2>1, <2>2, <2>3, <2>4, ReplyGood
  <1> QED BY <1>7, <1>8

LEMMA ServerRefines == ASSUME IInv, IInv', WInv, RInv, NoOverflow, ServerStep PROVE Good
  <1>0. TypeOK /\ srv \in Srv BY DEF IInv, TypeOK
  <1>1. CASE server_lock_state
    <2>1. srv.pc = "lock" /\ srv' = [srv EXCEPT !.pc = "body"] /\ UNCHANGED client /\ SameValue
      BY <1>1, ThreadSame DEF server_lock_state
    <2>2. srv'.pc = "body" /\ srv'.op = srv.op /\ srv'.req = srv.req /\ srv'.fn = srv.fn BY <1>0, <2>1 DEF Srv
    <2>3. SameRequest BY <2>1, <2>2 DEF SameRequest, Before
    <2>4. \A u \in Threads : ~Answered(u) BY <2>1 DEF Answered
    <2> QED BY <2>1, <2>3, <2>4, ServerMoves DEF client
  <1>2. CASE server_signaled
    <2>1. /\ srv.pc = "body" /\ srv.fn = "signaled" /\ UNCHANGED client /\ SameValue
          /\ srv' = [srv EXCEPT !.pc = "unlock", !.ok = Signaled(word, srv.cur)]
      BY <1>2, ThreadSame DEF server_signaled
    <2>2. srv'.pc = "unlock" /\ srv'.op = srv.op /\ srv'.req = srv.req /\ srv'.fn = srv.fn BY <1>0, <2>1 DEF Srv
    <2>3. SameRequest BY <2>1, <2>2 DEF SameRequest, Before
    <2>4. \A u \in Threads : ~Answered(u) BY <2>1 DEF Answered
    <2> QED BY <2>1, <2>3, <2>4, ServerMoves DEF client
  <1>3. CASE register_check \/ destroy_generation
    <2>1. srv.pc \in {"regcheck", "destroyed"} /\ srv' = Srv0 /\ UNCHANGED client
      BY <1>3 DEF register_check, destroy_generation
    <2>2. SameValue
      <3>1. CASE register_check BY <3>1, ThreadSame DEF register_check
      <3>2. CASE destroy_generation
        <4>1. word' = [word EXCEPT !.generation = word.generation + 1] BY <3>2 DEF destroy_generation
        <4> QED BY <1>0, <4>1 DEF TypeOK, Word, SameValue
      <3> QED BY <1>3, <3>1, <3>2
    <2>3. srv.op = "none" BY <2>1 DEF WInv, OpOK
    <2>4. \A u \in Threads : ~Answered(u) BY <2>1, IdleHanded
    <2> QED BY <2>1, <2>2, <2>3, <2>4, ServerRests DEF client
  <1> QED BY <1>1, <1>2, <1>3, SatisfiedRefines, OperationRefines, AbandonRefines, ServerUnlockRefines,
             ServerAddressRefines, MultiRefines, ScanRefines, EndRefines, WaitAllRefines DEF ServerStep

-----------------------------------------------------------------------------
LEMMA InitRefines == ASSUME Init PROVE RInv /\ Nt!Init
  <1>1. RInv
    <2>1. /\ word.low = InitLow /\ word.high = InitHigh /\ srv = Srv0
          /\ \A t \in Threads : pc[t] = "idle" /\ loc[t] = Loc0
      BY DEF Init, create_wfusync
    <2>2. ValueOK BY <2>1, InitAssumption, ThreadsAssumption DEF ValueOK
    <2>3. RetOK /\ HandedOK BY <2>1 DEF RetOK, RetAt, HandedOK, HandedAt, Loc0
    <2>4. RunOK BY <2>1 DEF RunOK, Srv0
    <2> QED BY <2>2, <2>3, <2>4 DEF RInv
  <1>2. word.low = InitLow /\ word.high = InitHigh /\ word.type = Kind BY DEF Init, create_wfusync
  <1>3. ~(Mutex /\ InitLow < 0) /\ (Mutex /\ ~(InitLow > 0) => InitLow = 0)
    BY InitAssumption, ThreadsAssumption
  <1>4. [t \in Threads |-> <<call[t].what, call[t].n>>] = [t \in Threads |-> <<"none", 0>>]
    BY DEF Init, NoCall
  <1>5. [t \in Threads |-> Status(t)] = [t \in Threads |-> "idle"] BY DEF Init, Status
  <1>6. Nt!Init BY <1>2, <1>3, <1>4, <1>5 DEF Nt!Init, Live
  <1> QED BY <1>1, <1>6

LEMMA NextRefines ==
  ASSUME IInv, KilledOK, WInv, RInv, NoOverflow, [Next]_vars
  PROVE  Good
  <1>1. IInv' BY NextIInv
  <1>2. CASE Next BY <1>1, <1>2, ThreadRefines, TimeoutRefines, AcceptRefines, ServerRefines, EnvironmentRefines DEF Next
  <1>3. CASE UNCHANGED vars
    <2>1. UNCHANGED <<word, pc, call, loc, srv, doomed>> BY <1>3 DEF vars, client
    <2>2. SameValue BY <2>1 DEF SameValue
    <2>3. HandedOK' BY <2>1 DEF RInv, HandedOK, HandedAt, Answered, Runs
    <2>4. RunOK' BY <2>1 DEF RInv, RunOK, SignalOK, ResetOK, TryAllOK, Before, What, Ret
    <2> QED BY <2>1, <2>2, <2>3, <2>4, ServerQuiet
  <1> QED BY <1>2, <1>3

(* Whatever the threads and wineserver do to a WFUSync object, in the word *)
(* or by request, is a behaviour of the object wineserver keeps alone      *)
(* (server/event.c, semaphore.c, mutex.c without a wfusync): every call    *)
(* takes effect at most once, on a state that allows it, and is told the   *)
(* truth.  Only wineserver's wait does not test the recursion count of a   *)
(* mutex before it adds to it, so it must not have reached INT_MAX.        *)
THEOREM ObjectImplementsNt == Spec /\ []NoOverflow => NtSpec
  <1>1. Init => RInv /\ Nt!Init BY InitRefines
  <1>2. IInv /\ KilledOK /\ WInv /\ RInv /\ NoOverflow /\ [Next]_vars => RInv' /\ [Nt!Next]_(Nt!vars)
    BY NextRefines DEF Good, Step
  <1>3. Spec => [](IInv /\ KilledOK /\ WInv) BY InductiveWake
  <1> QED BY <1>1, <1>2, <1>3, PTL DEF Spec, NtSpec, Nt!Spec
=============================================================================
