-------------------------- MODULE WfuMulti_proofs --------------------------
(***************************************************************************)
(* Proofs about waits on several WFUSync objects, for any sets of objects  *)
(* and threads, any calls and any bounds: nobody shares a word with        *)
(* anybody, the flags in the words tell the truth about who waits, and     *)
(* what a wait was promised is there when it is taken.                     *)
(***************************************************************************)
EXTENDS WfuMulti, FiniteSetTheorems, SequenceTheorems, TLAPS

-----------------------------------------------------------------------------
(* The inductive invariant: threads.                                       *)

(* What the place where a thread is says of its call and its loop.         *)
AllPCs == {"lock", "eval", "take", "unlock", "refresh", "tryall"}
AnyPCs == {"any_check", "any_lock", "any_consume", "any_refresh", "register"}
SignalPCs == {"signal", "signal_lock", "signal_write", "signal_multi", "notify"}
PlaceAt(w, l, c) ==
  /\ w = "idle" => l = Loc0
  /\ w \in {"gather", "lock", "take", "refresh", "any_check", "any_lock", "any_consume", "any_refresh"} =>
       l.i \in 1..Len(c.objs)
  /\ w = "unlock" => l.i \in 0..Len(c.objs)
  /\ w = "eval" => l.i = Len(c.objs)
  /\ w \in {"sleep", "asleep", "unregister"} => l.i = 1
  /\ w = "unregister" /\ l.ret = "woken" => c.what = "waitany"
  /\ w \in AllPCs => c.what = "waitall"
  /\ w \in AnyPCs => c.what = "waitany"
  /\ w \in {"gather", "unregister", "sleep", "asleep"} => c.what \in {"waitall", "waitany"}
  /\ w \in SignalPCs => c.what \in {"signal", "reset"}
  /\ w = "queued" => c.what \in Waits
  /\ w = "served" => c.what = "sigwait"
PlaceOK == \A t \in Threads : /\ pc[t] # "idle" => call[t] \in CallsOf[t]
                              /\ PlaceAt(pc[t], loc[t], call[t])

(* Where a thread may be registered; with a zero timeout it never is.      *)
RegisteredAt(w, l, c) ==
  /\ \/ w \in {"sleep", "asleep", "unregister", "tryall"}
     \/ w \in {"any_check", "any_lock", "any_consume", "any_refresh"} /\ l.phase = 2
     \/ w = "register"
  /\ c.what = "waitall" => c.timeout # "zero"
RegisteredOK ==
  /\ \A t \in Threads : reg[t] # {} => RegisteredAt(pc[t], loc[t], call[t])
  /\ \A t \in Threads : pc[t] = "register" /\ reg[t] # {} => srv.req = t /\ srv.pc \in {"flag", "regcheck"}
  /\ \A o \in Objs : word[o].multi <=> \E t \in Threads : o \in reg[t]

(* STATE_LOCKED is up on the words that threads hold, and each has one     *)
(* holder.                                                                 *)
LockedOK ==
  /\ \A t \in Threads : \A o \in Locked(t) : word[o].locked
  /\ \A o \in Objs : word[o].locked => \E t \in Threads : o \in Locked(t)
  /\ \A t, u \in Threads : t # u => Locked(t) \cap Locked(u) = {}

(* The inductive invariant: wineserver.                                    *)

(* A thread is served: by a request that signals, or one about slots.      *)
Asking(u) == /\ u \in Threads
             /\ \/ pc[u] = "request" /\ call[u].what \in {"signal", "reset", "exit"}
                \/ pc[u] \in {"queued", "served"} /\ call[u].what = "sigwait"
SlotPCs == {"arm", "flag", "regcheck", "unregister", "guard", "probe", "take", "unguard", "unsignaled"}
TryPCs == {"guard", "probe", "take", "unguard", "unsignaled"}
WaitPCs == {"enqueue", "check", "satisfy", "remove"}
SignalingPCs == {"signal", "multi", "scan", "done", "abandon"}

WaitServed ==
  /\ srv.pc \in WaitPCs => srv.cur \in Threads /\ pc[srv.cur] = "queued" /\ srv.i \in 1..Count(srv.cur)
  /\ srv.pc = "enqueue" => srv.cur = srv.req /\ srv.pos = 0
SignalServed ==
  /\ srv.pos > 0 \/ srv.pc \in SignalingPCs => Asking(srv.req)
  /\ srv.pos > 0 \/ srv.pc \in {"signal", "multi", "scan"} => srv.obj \in Objs
  /\ srv.pc = "scan" => srv.pos > 0
  /\ srv.pc = "signal" => call[srv.req].what # "exit" /\ srv.pos = 0 /\ srv.obj = call[srv.req].obj
  /\ srv.pc = "signal" /\ call[srv.req].what = "sigwait" => srv.cur = srv.req /\ pc[srv.req] = "queued"
  /\ srv.pc = "abandon" => call[srv.req].what = "exit"
SlotServed ==
  /\ srv.pc \in SlotPCs => srv.req \in Threads /\ pc[srv.req] \in {"register", "unregister", "tryall"} /\ srv.pos = 0
  /\ srv.pc \in TryPCs => pc[srv.req] = "tryall"
  /\ srv.pc \in {"arm", "flag", "regcheck"} => /\ pc[srv.req] # "unregister"
                                               /\ srv.todo # {} /\ srv.todo \subseteq Range(call[srv.req].objs)
  /\ srv.pc \in {"arm", "flag", "regcheck"} /\ pc[srv.req] = "tryall" => call[srv.req].timeout # "zero"
  /\ srv.pc \in TryPCs \cup {"arm"} => reg[srv.req] = {}
  /\ srv.pc = "flag" => reg[srv.req] \subseteq srv.todo /\ reg[srv.req] # srv.todo
  /\ srv.pc \in {"guard", "probe", "take", "unsignaled"} => srv.i \in 1..Count(srv.req)
  /\ srv.pc = "unguard" => srv.guarded \in 0..Count(srv.req) /\ srv.i \in 1..(srv.guarded + 1)
  /\ srv.pc = "guard" => srv.i = srv.guarded + 1
  /\ srv.pc \in {"probe", "take"} => srv.guarded = Count(srv.req)
  /\ srv.pc = "unregister" => srv.i = 1 /\ srv.todo = {} /\ pc[srv.req] # "register"
  /\ srv.pc \in {"guard", "probe", "take", "unguard"} => srv.todo = {}
  /\ srv.pc \in {"unregister", "unsignaled"} => srv.guarded = 0
  /\ srv.pc = "unsignaled" => call[srv.req].timeout # "zero" /\ srv.todo \subseteq Range(call[srv.req].objs)

(* Queued threads are in the queues of all their objects, once, except     *)
(* while they are being queued or removed.                                 *)
Elsewhere(t, j) == /\ t = srv.cur
                   /\ \/ srv.pc = "enqueue" /\ j >= srv.i
                      \/ srv.pc = "remove" /\ j < srv.i
WaitsOn(t, o) == pc[t] = "queued" /\ \E j \in 1..Count(t) : WObj(t, j) = o /\ ~Elsewhere(t, j)
QueuesOK ==
  /\ \A o \in Objs : \A t \in Threads : (\E k \in 1..Len(queue[o]) : queue[o][k] = t) <=> WaitsOn(t, o)
  /\ \A o \in Objs : \A k, m \in 1..Len(queue[o]) : queue[o][k] = queue[o][m] => k = m

(* Nobody is queued where try_wait_all has its guard, and nobody holds the *)
(* word.                                                                   *)
GuardOK == \A o \in Guarded : queue[o] = <<>> /\ ~word[o].locked

(* What check_wait and probe have found so far still holds.                *)
Found ==
  IF srv.pc \in {"check", "satisfy"} /\ call[srv.cur].what = "waitall"
    THEN IF srv.pc = "satisfy" THEN {WObj(srv.cur, j) : j \in srv.i..Count(srv.cur)}
         ELSE IF srv.ok THEN {WObj(srv.cur, j) : j \in 1..(srv.i - 1)} ELSE {}
  ELSE IF srv.pc = "satisfy" THEN {WObj(srv.cur, srv.i)}
  ELSE IF srv.pc = "probe" THEN {WObj(srv.req, j) : j \in 1..(srv.i - 1)}
  ELSE IF srv.pc = "take" THEN {WObj(srv.req, j) : j \in srv.i..Count(srv.req)}
  ELSE {}
Finder == IF srv.pc \in {"check", "satisfy"} THEN srv.cur ELSE srv.req
FoundOK == \A o \in Found : ~word[o].locked /\ Signaled(o, Finder)
TakesOK == \A t \in Threads : \A o \in Takes(t) : Signaled(o, t)

WordsOK == word = [o \in Objs |-> word[o]]
ServedOK == WaitServed /\ SignalServed /\ SlotServed
IInv == TypeOK /\ WordsOK /\ PlaceOK /\ RegisteredOK /\ LockedOK /\ ServedOK /\ QueuesOK /\ GuardOK /\ ServerFlagExact
        /\ FoundOK /\ TakesOK

-----------------------------------------------------------------------------
(* order[] names the same objects, each once.                              *)
LEMMA Sorted ==
  ASSUME NEW objs \in Seq(Objs), \A i, j \in DOMAIN objs : i # j => objs[i] # objs[j]
  PROVE  LET s == ByIndex(objs) IN
         /\ s \in [1..Len(objs) -> Range(objs)]
         /\ \A i, j \in 1..Len(objs) : s[i] = s[j] => i = j
         /\ {s[i] : i \in 1..Len(objs)} = Range(objs)
  <1> DEFINE n == Len(objs)
             S == Range(objs)
             Up(o) == {p \in S : p <= o}
             r == [o \in S |-> Cardinality(Up(o))]
  <1>1. n \in Nat /\ DOMAIN objs = 1..n /\ S \subseteq Objs /\ S \subseteq Nat /\ objs \in [1..n -> S]
    BY ObjsAssumption DEF Range
  <1>2. objs \in Bijection(1..n, S)
    BY <1>1, Zenon DEF Bijection, Injection, Surjection, IsInjective, Range
  <1>3. IsFiniteSet(S) /\ Cardinality(S) = n
    BY <1>1, <1>2, FS_CountingElements, FS_NatBijection DEF ExistsBijection
  <1>4. \A o \in S : IsFiniteSet(Up(o)) /\ r[o] \in 1..n
    <2> TAKE o \in S
    <2>1. Up(o) \subseteq S OBVIOUS
    <2>2. IsFiniteSet(Up(o)) /\ Cardinality(Up(o)) <= n BY <1>3, <2>1, FS_Subset
    <2>3. o \in Up(o) BY <1>1
    <2>4. Cardinality(Up(o)) \in Nat /\ Cardinality(Up(o)) # 0 BY <2>2, <2>3, FS_CardinalityType, FS_EmptySet
    <2> QED BY <2>2, <2>4, <1>1
  <1>5. ASSUME NEW o \in S, NEW q \in S, o < q PROVE r[o] < r[q]
    <2>1. Up(o) \subseteq Up(q) /\ q \in Up(q) /\ q \notin Up(o) BY <1>1, <1>5
    <2>2. Up(o) # Up(q) BY <2>1
    <2> HIDE DEF Up
    <2>3. Cardinality(Up(o)) <= Cardinality(Up(q)) /\ Cardinality(Up(o)) # Cardinality(Up(q))
      BY <1>4, <2>1, <2>2, FS_Subset
    <2> QED BY <2>3, <1>4, <1>1
  <1> HIDE DEF r
  <1>6. \A o, q \in S : r[o] = r[q] => o = q
    <2> TAKE o, q \in S
    <2>0. r[o] \in 1..n /\ r[q] \in 1..n BY <1>4
    <2>1. o \in Nat /\ q \in Nat /\ r[o] \in Nat /\ r[q] \in Nat BY <1>1, <2>0
    <2>2. (o < q => r[o] < r[q]) /\ (q < o => r[q] < r[o]) BY <1>5
    <2> QED BY <2>1, <2>2
  <1>0. IsFiniteSet(1..n) /\ Cardinality(1..n) = n
    <2>1. 1 \in Int /\ n \in Int BY <1>1
    <2>2. Cardinality(1..n) = IF 1 > n THEN 0 ELSE n - 1 + 1 BY <2>1, FS_Interval
    <2> QED BY <2>1, <2>2, <1>1, FS_Interval, SMTT(20)
  <1>7. r \in [S -> 1..n] BY <1>4 DEF r
  <1>8. r \in Surjection(S, 1..n)
    <2>1. r \in Injection(S, 1..n) BY <1>6, <1>7 DEF Injection, IsInjective
    <2> QED BY <2>1, <1>0, <1>3, FS_Injection
  <1>9. \A i \in 1..n : \E o \in S : r[o] = i BY <1>8 DEF Surjection
  <1> DEFINE s == [i \in 1..n |-> CHOOSE o \in S : r[o] = i]
  <1>10. \A i \in 1..n : s[i] \in S /\ r[s[i]] = i BY <1>9
  <1> HIDE DEF s
  <1>11. ASSUME NEW i \in 1..n, NEW j \in 1..n, i < j PROVE s[i] < s[j]
    <2>1. s[j] < s[i] => r[s[j]] < r[s[i]] BY <1>5, <1>10
    <2>2. s[i] # s[j] BY <1>10, <1>11
    <2>3. s[i] \in Nat /\ s[j] \in Nat BY <1>1, <1>10
    <2>4. ~(s[j] < s[i]) BY <2>1, <1>10, <1>11, <1>1
    <2> QED BY <2>2, <2>3, <2>4
  <1>12. s \in [DOMAIN objs -> S] BY <1>1, <1>10 DEF s
  <1> DEFINE b == ByIndex(objs)
  <1>13. b \in [1..n -> S] /\ \A i, j \in 1..n : i < j => b[i] < b[j]
    BY <1>1, <1>11, <1>12 DEF ByIndex
  <1> HIDE DEF b
  <1>14. \A i, j \in 1..n : b[i] = b[j] => i = j
    <2> TAKE i, j \in 1..n
    <2>1. i \in Nat /\ j \in Nat /\ b[i] \in Nat /\ b[j] \in Nat BY <1>1, <1>13
    <2> QED BY <2>1, <1>13
  <1>15. b \in Surjection(1..n, S)
    <2>1. b \in Injection(1..n, S) BY <1>13, <1>14 DEF Injection, IsInjective
    <2> QED BY <2>1, <1>0, <1>3, FS_Injection
  <1>16. {b[i] : i \in 1..n} = S BY <1>13, <1>15 DEF Surjection
  <1> QED BY <1>13, <1>14, <1>16 DEF b

-----------------------------------------------------------------------------
(* Types, and the words of each kind of object.                            *)
Locs == [i : Nat, try : {1, 2}, phase : 1..3, gens : [Objs -> Nat], ret : Rets]
Calls == Call \cup {NoCall}
Srvs == [pc : ServerPCs, req : Threads \cup {0}, cur : Threads \cup {0}, obj : Objs \cup {0},
         i : Nat, guarded : Nat, pos : Nat, max : Nat, tries : 0..3, ok : BOOLEAN,
         ret : Rets, todo : SUBSET Objs]
Words(o) == [low : Int, high : Int, generation : Nat, type : {KindOf[o], "unknown"},
             locked : BOOLEAN, server : BOOLEAN, multi : BOOLEAN]
ThreadTypes == /\ pc \in [Threads -> ClientPCs] /\ call \in [Threads -> Calls] /\ loc \in [Threads -> Locs]
ClientTypes == left \in [Threads -> Nat] /\ cache_gen \in [Objs -> Nat]
ServerTypes == /\ srv \in Srvs /\ queue \in [Objs -> Seq(Threads)]
               /\ slot \in [Threads -> {0, 1}] /\ reg \in [Threads -> SUBSET Objs]
WordTypes == /\ \A o \in Objs : word[o] \in Words(o)
             /\ word = [o \in Objs |-> word[o]]

LEMMA TypeParts == TypeOK /\ WordsOK <=> ThreadTypes /\ ClientTypes /\ ServerTypes /\ WordTypes
  <1>1. \A o \in Objs : W(KindOf[o])!Word = Words(o) BY DEF W!Word, Words
  <1>2. TypeOK => ThreadTypes /\ ClientTypes BY DEF TypeOK, ThreadTypes, ClientTypes, Locs, Calls
  <1>3. TypeOK => ServerTypes BY DEF TypeOK, ServerTypes, Srvs
  <1>4. TypeOK /\ WordsOK => WordTypes BY <1>1 DEF TypeOK, WordsOK, WordTypes
  <1>5. WordTypes => WordsOK BY DEF WordsOK, WordTypes
  <1>6. ASSUME ThreadTypes, ClientTypes, ServerTypes, WordTypes PROVE TypeOK
    <2>1. \A o \in Objs : word[o] \in W(KindOf[o])!Word BY <1>1, <1>6 DEF WordTypes
    <2> QED BY <1>6, <2>1 DEF TypeOK, ThreadTypes, ClientTypes, ServerTypes, Locs, Calls, Srvs
  <1> QED BY <1>2, <1>3, <1>4, <1>5, <1>6

Kinds == {"auto", "manual", "semaphore", "mutex"}
(* The flags and the type of a word are left alone.                        *)
SameFlags(x, y) == x.locked = y.locked /\ x.server = y.server /\ x.multi = y.multi

Like(o, y, x) == y \in Words(o) /\ SameFlags(y, x)

LEMMA Updated ==
  ASSUME NEW o \in Objs, NEW x \in Words(o), NEW low \in Int, NEW high \in Int, NEW g \in Nat
  PROVE  /\ Like(o, x, x)
         /\ Like(o, [x EXCEPT !.low = low], x)
         /\ Like(o, [x EXCEPT !.high = high], x)
         /\ Like(o, [x EXCEPT !.low = low, !.high = high], x)
         /\ Like(o, [x EXCEPT !.low = low, !.high = high, !.generation = g], x)
  BY DEF Words, SameFlags, Like

LEMMA ConsumedWord ==
  ASSUME NEW o \in Objs, word[o] \in Words(o), NEW t \in Threads
  PROVE  Like(o, Consumed(o, t), word[o])
  <1>1. KindOf[o] \in Kinds BY KindOfAssumption DEF Kinds
  <1>2. t \in Int /\ IntMax \in Int BY ThreadsAssumption, WidthAssumption
  <1>3. \A n \in Int : W(KindOf[o])!Inc(n) \in Int BY <1>2 DEF W!Inc
  <1> DEFINE w == word[o]
  <1>4. w \in Words(o) OBVIOUS
  <1> HIDE DEF w
  <1>5. w.low \in Int /\ w.high \in Int /\ w.generation \in Nat BY <1>4 DEF Words
  <1>6. (IF w.low < 0 THEN w.generation + 1 ELSE w.generation) \in Nat BY <1>5
  <1>0. 0 \in Int /\ 1 \in Int OBVIOUS
  <1>7. CASE KindOf[o] = "auto"
    <2>1. Consumed(o, t) = [w EXCEPT !.low = 0] BY <1>7 DEF w, Consumed, W!Consumed
    <2>2. Like(o, [w EXCEPT !.low = 0], w) BY <1>0, <1>4, <1>5, Updated, Zenon
    <2> QED BY <2>1, <2>2 DEF w
  <1>8. CASE KindOf[o] = "manual" BY <1>8, <1>4, <1>5, Updated DEF w, Consumed, W!Consumed
  <1>9. CASE KindOf[o] = "semaphore"
    <2>1. w.low - 1 \in Int BY <1>5
    <2> QED BY <1>9, <1>4, <2>1, Updated DEF w, Consumed, W!Consumed
  <1>10. CASE KindOf[o] = "mutex"
    <2>1. Consumed(o, t) = IF w.low = t THEN [w EXCEPT !.high = W(KindOf[o])!Inc(w.high)]
                           ELSE [w EXCEPT !.low = t, !.high = 1,
                                          !.generation = IF w.low < 0 THEN w.generation + 1 ELSE w.generation]
      BY <1>10 DEF w, Consumed, W!Consumed
    <2>2. Like(o, [w EXCEPT !.high = W(KindOf[o])!Inc(w.high)], w) BY <1>3, <1>4, <1>5, Updated
    <2>3. Like(o, [w EXCEPT !.low = t, !.high = 1,
                            !.generation = IF w.low < 0 THEN w.generation + 1 ELSE w.generation], w)
      BY <1>0, <1>2, <1>4, <1>6, Updated, Zenon
    <2> QED BY <2>1, <2>2, <2>3 DEF w
  <1> QED BY <1>1, <1>7, <1>8, <1>9, <1>10 DEF Kinds

LEMMA ReleasedWord ==
  ASSUME NEW t \in Threads, call[t] \in Call, call[t].obj \in Objs, word[call[t].obj] \in Words(call[t].obj)
  PROVE  Like(call[t].obj, Released(t), word[call[t].obj])
  <1> DEFINE o == call[t].obj
             w == word[o]
             n == call[t].n
  <1>1. KindOf[o] \in Kinds BY KindOfAssumption DEF Kinds
  <1>2. n \in Nat /\ w.low \in Int /\ w.high \in Int BY DEF Call, Words
  <1>3. UlongSize \in Nat \ {0} BY WidthAssumption
  <1>4. W(KindOf[o])!Sum(w, n) \in Int BY <1>2, <1>3 DEF W!Sum
  <1>5. w \in Words(o) OBVIOUS
  <1>6. Released(t) = IF call[t].what = "reset" THEN [w EXCEPT !.low = 0] ELSE W(KindOf[o])!Released(w, n)
    BY DEF Released
  <1> HIDE DEF w, o, n
  <1>7. W(KindOf[o])!Released(w, n) \in {[w EXCEPT !.low = 1], [w EXCEPT !.low = W(KindOf[o])!Sum(w, n)],
                                         [w EXCEPT !.high = w.high - 1], [w EXCEPT !.low = 0, !.high = 0]}
    BY <1>1 DEF W!Released, W!Event, W!Semaphore, W!Mutex, Kinds
  <1>8. w.high - 1 \in Int BY <1>2
  <1>9. o \in Objs BY DEF o
  <1>10. \A low, high \in Int : Like(o, [w EXCEPT !.low = low], w) /\ Like(o, [w EXCEPT !.high = high], w)
                                /\ Like(o, [w EXCEPT !.low = low, !.high = high], w)
    BY <1>5, <1>9, Updated
  <1>11. Like(o, [w EXCEPT !.low = 1], w) /\ Like(o, [w EXCEPT !.low = 0], w)
         /\ Like(o, [w EXCEPT !.low = W(KindOf[o])!Sum(w, n)], w)
         /\ Like(o, [w EXCEPT !.high = w.high - 1], w) /\ Like(o, [w EXCEPT !.low = 0, !.high = 0], w)
    <2>1. 0 \in Int /\ 1 \in Int OBVIOUS
    <2> QED BY <2>1, <1>4, <1>8, <1>10, Zenon
  <1>12. Like(o, Released(t), w) BY <1>6, <1>7, <1>11
  <1> QED BY <1>12 DEF w, o

LEMMA AbandonedWord ==
  ASSUME NEW o \in Objs, NEW x \in Words(o), NEW t \in Threads
  PROVE  Like(o, W(KindOf[o])!Abandoned(x, t), x)
  <1>1. -t \in Int BY ThreadsAssumption
  <1>2. x.generation + 1 \in Nat BY DEF Words
  <1>3. W(KindOf[o])!Abandoned(x, t) = [x EXCEPT !.low = -t, !.high = 0, !.generation = x.generation + 1]
    BY DEF W!Abandoned
  <1>4. 0 \in Int OBVIOUS
  <1>5. Like(o, [x EXCEPT !.low = -t, !.high = 0, !.generation = x.generation + 1], x)
    BY <1>1, <1>2, <1>4, Updated, Zenon
  <1> QED BY <1>3, <1>5

(* Whether an object is signaled is a question of the count or owner.      *)
LEMMA SignaledLow ==
  ASSUME NEW o \in Objs, NEW t, word'[o].low = word[o].low
  PROVE  Signaled(o, t)' = Signaled(o, t)
  BY DEF Signaled, W!Signaled, W!Mutex

-----------------------------------------------------------------------------
(* A thread moves to w, with locals l and call c.                          *)
LockedAt(w, l, c) ==
  CASE w = "lock" -> {ByIndex(c.objs)[j] : j \in 1..(l.i - 1)}
    [] w = "unlock" -> {ByIndex(c.objs)[j] : j \in 1..l.i}
    [] w \in {"eval", "take"} -> Range(c.objs)
    [] w = "any_consume" -> {c.objs[l.i]}
    [] w = "signal_write" -> {c.obj}
    [] OTHER -> {}
TakesAt(w, l, c) == IF w = "take" THEN {c.objs[j] : j \in l.i..Len(c.objs)} ELSE {}

Served == {"request", "queued", "served", "register", "unregister", "tryall", "notify"}
Moves(t, w, l, c) == pc' = [pc EXCEPT ![t] = w] /\ loc' = [loc EXCEPT ![t] = l] /\ call' = [call EXCEPT ![t] = c]
Fits(t, w, l, c) == /\ w \in ClientPCs /\ l \in Locs /\ c \in Calls
                    /\ w # "idle" => c \in CallsOf[t]
                    /\ PlaceAt(w, l, c)

LEMMA ValuesAt ==
  ASSUME NEW t
  PROVE  Locked(t) = LockedAt(pc[t], loc[t], call[t]) /\ Takes(t) = TakesAt(pc[t], loc[t], call[t])
  BY DEF Locked, LockedAt, Takes, TakesAt, Order, At, Count

LEMMA Moved ==
  ASSUME ThreadTypes, NEW t \in Threads, NEW w, NEW l, NEW c, Moves(t, w, l, c)
  PROVE  /\ pc'[t] = w /\ loc'[t] = l /\ call'[t] = c
         /\ Locked(t)' = LockedAt(w, l, c) /\ Takes(t)' = TakesAt(w, l, c)
         /\ \A u \in Threads : u # t =>
              /\ pc'[u] = pc[u] /\ loc'[u] = loc[u] /\ call'[u] = call[u]
              /\ Locked(u)' = Locked(u) /\ Takes(u)' = Takes(u)
  <1>1. pc'[t] = w /\ loc'[t] = l /\ call'[t] = c BY DEF ThreadTypes, Moves
  <1>2. \A u \in Threads : u # t => pc'[u] = pc[u] /\ loc'[u] = loc[u] /\ call'[u] = call[u]
    BY DEF ThreadTypes, Moves
  <1>3. \A u : Locked(u)' = LockedAt(pc'[u], loc'[u], call'[u]) /\ Takes(u)' = TakesAt(pc'[u], loc'[u], call'[u])
    BY DEF Locked, LockedAt, Takes, TakesAt, Order, At, Count
  <1> QED BY <1>1, <1>2, <1>3, ValuesAt

LEMMA FitsPlace ==
  ASSUME ThreadTypes, PlaceOK, NEW t \in Threads, NEW w, NEW l, NEW c, Moves(t, w, l, c), Fits(t, w, l, c)
  PROVE  ThreadTypes' /\ PlaceOK'
  <1>1. ThreadTypes' BY DEF ThreadTypes, Moves, Fits
  <1>2. PlaceOK' BY Moved DEF PlaceOK, Fits
  <1> QED BY <1>1, <1>2

(* The calls of a thread at work.                                          *)
LEMMA CallAt ==
  ASSUME ThreadTypes, PlaceOK, NEW t \in Threads, pc[t] # "idle"
  PROVE  /\ call[t] \in Call /\ call[t].objs \in Seq(Objs) /\ Count(t) \in Nat /\ loc[t] \in Locs
         /\ \A j \in 1..Count(t) : WObj(t, j) \in Objs
         /\ \A j, k \in 1..Count(t) : WObj(t, j) = WObj(t, k) => j = k
         /\ call[t].what \in Waits => Count(t) > 0
         /\ call[t].what \in {"signal", "reset", "sigwait"} => call[t].obj \in Objs
         /\ Range(call[t].objs) = {WObj(t, j) : j \in 1..Count(t)}
         /\ call[t].what \in Whats
  <1>1. call[t] \in CallsOf[t] BY DEF PlaceOK
  <1>2. /\ call[t] \in Call
        /\ call[t].what \in Waits => call[t].objs # <<>>
        /\ call[t].what \in {"signal", "reset", "sigwait"} => call[t].obj \in Objs
        /\ \A i, j \in DOMAIN call[t].objs : i # j => call[t].objs[i] # call[t].objs[j]
    BY <1>1, CallsAssumption
  <1>3. call[t].objs \in Seq(Objs) /\ call[t].what \in Whats BY <1>2 DEF Call
  <1>4. Count(t) \in Nat /\ DOMAIN call[t].objs = 1..Count(t) BY <1>3 DEF Count
  <1>5. \A j \in 1..Count(t) : WObj(t, j) \in Objs BY <1>3, <1>4 DEF WObj, Count
  <1>6. call[t].objs # <<>> => Count(t) > 0 BY <1>3, <1>4, EmptySeq DEF Count
  <1>7. Range(call[t].objs) = {WObj(t, j) : j \in 1..Count(t)} BY <1>4 DEF Range, WObj
  <1>8. \A j, k \in 1..Count(t) : WObj(t, j) = WObj(t, k) => j = k BY <1>2, <1>4 DEF WObj
  <1> QED BY <1>2, <1>3, <1>4, <1>5, <1>6, <1>7, <1>8 DEF ThreadTypes

LEMMA OrderAt ==
  ASSUME ThreadTypes, PlaceOK, NEW t \in Threads, pc[t] # "idle"
  PROVE  /\ \A j \in 1..Count(t) : Order(t)[j] \in Objs
         /\ \A j, k \in 1..Count(t) : Order(t)[j] = Order(t)[k] => j = k
         /\ {Order(t)[j] : j \in 1..Count(t)} = Range(call[t].objs)
  <1> DEFINE objs == call[t].objs
  <1>1. objs \in Seq(Objs) /\ Count(t) = Len(objs) BY CallAt DEF Count
  <1>2. \A i, j \in DOMAIN objs : i # j => objs[i] # objs[j] BY CallsAssumption DEF PlaceOK
  <1> HIDE DEF objs
  <1>3. /\ ByIndex(objs) \in [1..Len(objs) -> Range(objs)]
        /\ \A i, j \in 1..Len(objs) : ByIndex(objs)[i] = ByIndex(objs)[j] => i = j
        /\ {ByIndex(objs)[i] : i \in 1..Len(objs)} = Range(objs)
    BY <1>1, <1>2, Sorted
  <1>4. Range(objs) \subseteq Objs BY <1>1 DEF Range
  <1>5. Order(t) = ByIndex(objs) BY DEF Order, objs
  <1> QED BY <1>1, <1>3, <1>4, <1>5 DEF objs

(* What thread t does to a word when it moves: nothing, or it works on one *)
(* that it holds or that it locks.                                         *)
WordMove(t, w, l, c) ==
  \/ UNCHANGED word /\ LockedAt(w, l, c) = Locked(t)
  \/ \E o \in Objs : \E x \in Words(o) :
       /\ word' = [word EXCEPT ![o] = x]
       /\ x.server = word[o].server /\ x.multi = word[o].multi
       /\ o \in Locked(t) \/ (~word[o].locked /\ ~word[o].server)
       /\ x.locked <=> o \in LockedAt(w, l, c)
       /\ \A p : p # o => (p \in LockedAt(w, l, c) <=> p \in Locked(t))

LEMMA WordMoved ==
  ASSUME WordTypes, LockedOK, NEW t \in Threads, NEW w, NEW l, NEW c, WordMove(t, w, l, c)
  PROVE  /\ WordTypes'
         /\ \A o \in Objs : word'[o].server = word[o].server /\ word'[o].multi = word[o].multi
         /\ \A o \in Objs : word[o].locked /\ o \notin Locked(t) => word'[o] = word[o] /\ o \notin LockedAt(w, l, c)
         /\ \A o \in Objs : ~word[o].locked /\ word[o].server => word'[o] = word[o]
         /\ \A o \in Objs : \/ word'[o].locked <=> o \in LockedAt(w, l, c)
                            \/ word'[o] = word[o] /\ (o \in LockedAt(w, l, c) <=> o \in Locked(t))
  <1>1. CASE UNCHANGED word /\ LockedAt(w, l, c) = Locked(t) BY <1>1 DEF WordTypes
  <1>2. ASSUME NEW o \in Objs, NEW x \in Words(o), word' = [word EXCEPT ![o] = x],
               x.server = word[o].server /\ x.multi = word[o].multi,
               o \in Locked(t) \/ (~word[o].locked /\ ~word[o].server),
               x.locked <=> o \in LockedAt(w, l, c),
               \A p : p # o => (p \in LockedAt(w, l, c) <=> p \in Locked(t))
        PROVE  /\ WordTypes'
               /\ \A p \in Objs : word'[p].server = word[p].server /\ word'[p].multi = word[p].multi
               /\ \A p \in Objs : word[p].locked /\ p \notin Locked(t) => word'[p] = word[p] /\ p \notin LockedAt(w, l, c)
               /\ \A p \in Objs : ~word[p].locked /\ word[p].server => word'[p] = word[p]
               /\ \A p \in Objs : \/ word'[p].locked <=> p \in LockedAt(w, l, c)
                                  \/ word'[p] = word[p] /\ (p \in LockedAt(w, l, c) <=> p \in Locked(t))
    <2>1. DOMAIN word = Objs BY DEF WordTypes
    <2>2. word'[o] = x /\ \A p \in Objs : p # o => word'[p] = word[p] BY <1>2, <2>1
    <2>3. WordTypes' BY <1>2, <2>1, <2>2 DEF WordTypes
    <2>4. o \in Locked(t) => word[o].locked BY DEF LockedOK
    <2> QED BY <1>2, <2>2, <2>3, <2>4
  <1> QED BY <1>1, <1>2, Zenon DEF WordMove

LEMMA LockedMoved ==
  ASSUME ThreadTypes, WordTypes, LockedOK, NEW t \in Threads, NEW w, NEW l, NEW c, Moves(t, w, l, c), WordMove(t, w, l, c),
         LockedAt(w, l, c) \subseteq Objs, \A u \in Threads : Locked(u) \subseteq Objs
  PROVE  LockedOK'
  <1>1. /\ Locked(t)' = LockedAt(w, l, c)
        /\ \A u \in Threads : u # t => Locked(u)' = Locked(u)
    BY Moved
  <1>2. \A u \in Threads : u # t => \A o \in Locked(u) : word[o].locked /\ o \notin Locked(t) BY DEF LockedOK
  <1>3. \A u \in Threads : u # t => \A o \in Locked(u) : word'[o] = word[o] /\ o \notin LockedAt(w, l, c)
    BY <1>2, WordMoved
  <1>4. \A o \in LockedAt(w, l, c) : word'[o].locked
    BY WordMoved DEF LockedOK
  <1>5. \A u \in Threads : \A o \in Locked(u)' : word'[o].locked BY <1>1, <1>2, <1>3, <1>4
  <1>6. \A o \in Objs : word'[o].locked => \E u \in Threads : o \in Locked(u)'
    <2> TAKE o \in Objs
    <2>1. CASE word'[o].locked <=> o \in LockedAt(w, l, c) BY <1>1, <2>1
    <2>2. CASE word'[o] = word[o] /\ (o \in LockedAt(w, l, c) <=> o \in Locked(t))
      <3> SUFFICES ASSUME word[o].locked PROVE \E u \in Threads : o \in Locked(u)' BY <2>2
      <3>1. PICK u \in Threads : o \in Locked(u) BY DEF LockedOK
      <3>2. CASE u = t BY <1>1, <2>2, <3>1, <3>2
      <3>3. CASE u # t BY <1>1, <3>1, <3>3
      <3> QED BY <3>2, <3>3
    <2> QED BY <2>1, <2>2, WordMoved
  <1>7. \A u, v \in Threads : u # v => Locked(u)' \cap Locked(v)' = {}
    <2> TAKE u, v \in Threads
    <2> HAVE u # v
    <2>1. CASE u = t BY <1>1, <1>3, <2>1
    <2>2. CASE v = t BY <1>1, <1>3, <2>2
    <2>3. CASE u # t /\ v # t BY <1>1, <2>3 DEF LockedOK
    <2> QED BY <2>1, <2>2, <2>3
  <1> QED BY <1>5, <1>6, <1>7 DEF LockedOK

LEMMA LockedIn ==
  ASSUME NEW t \in Threads, NEW w, NEW l, NEW c, Fits(t, w, l, c)
  PROVE  LockedAt(w, l, c) \subseteq Objs /\ TakesAt(w, l, c) \subseteq LockedAt(w, l, c)
  <1>1. CASE w \in {"lock", "unlock", "eval", "take", "any_consume", "signal_write"}
    <2> DEFINE n == Len(c.objs)
    <2>1. c \in CallsOf[t] BY <1>1 DEF Fits
    <2>2. /\ c \in Call /\ c.objs \in Seq(Objs)
          /\ c.what \in {"signal", "reset", "sigwait"} => c.obj \in Objs
          /\ \A i, j \in DOMAIN c.objs : i # j => c.objs[i] # c.objs[j]
      BY <2>1, CallsAssumption DEF Call
    <2>3. n \in Nat /\ DOMAIN c.objs = 1..n /\ Range(c.objs) \subseteq Objs BY <2>2 DEF Range
    <2>4. \A j \in 1..n : ByIndex(c.objs)[j] \in Objs BY <2>2, <2>3, Sorted
    <2>5. /\ w \in {"lock", "take", "any_consume"} => l.i \in 1..n
          /\ w = "unlock" => l.i \in 0..n
          /\ w = "signal_write" => c.what \in {"signal", "reset"}
      BY DEF Fits, PlaceAt, SignalPCs
    <2>6. \A j \in 1..n : c.objs[j] \in Objs /\ c.objs[j] \in Range(c.objs) BY <2>2, <2>3 DEF Range
    <2> HIDE DEF n
    <2>7. \A j : /\ w = "lock" /\ j \in 1..(l.i - 1) => j \in 1..n
                 /\ w = "unlock" /\ j \in 1..l.i => j \in 1..n
                 /\ w = "take" /\ j \in l.i..n => j \in 1..n
      BY <2>3, <2>5
    <2>8. CASE w = "lock" BY <2>4, <2>7, <2>8 DEF LockedAt, TakesAt
    <2>9. CASE w = "unlock" BY <2>4, <2>7, <2>9 DEF LockedAt, TakesAt
    <2>10. CASE w = "take" BY <2>3, <2>6, <2>7, <2>10 DEF LockedAt, TakesAt, n
    <2>11. CASE w = "eval" BY <2>3, <2>11 DEF LockedAt, TakesAt
    <2>12. CASE w \in {"any_consume", "signal_write"} BY <2>2, <2>5, <2>6, <2>12 DEF LockedAt, TakesAt
    <2> QED BY <1>1, <2>8, <2>9, <2>10, <2>11, <2>12
  <1>2. CASE w \notin {"lock", "unlock", "eval", "take", "any_consume", "signal_write"}
    BY <1>2 DEF LockedAt, TakesAt
  <1> QED BY <1>1, <1>2

LEMMA FitsNow ==
  ASSUME ThreadTypes, PlaceOK, NEW t \in Threads
  PROVE  /\ Fits(t, pc[t], loc[t], call[t])
         /\ Locked(t) \subseteq Objs /\ Takes(t) \subseteq Locked(t)
         /\ pc[t] \in Served \cup {"idle"} => Locked(t) = {}
  <1>1. Fits(t, pc[t], loc[t], call[t]) BY DEF Fits, ThreadTypes, PlaceOK
  <1>2. pc[t] \in Served \cup {"idle"} => Locked(t) = {} BY ValuesAt DEF LockedAt, Served
  <1> QED BY <1>1, <1>2, LockedIn, ValuesAt

(* The guard covers objects of the request.                                *)
LEMMA GuardedIn ==
  ASSUME ThreadTypes, ServerTypes, PlaceOK, ServedOK
  PROVE  /\ Guarded \subseteq Objs
         /\ srv.pc \in {"guard", "probe", "take", "unguard"} => Guarded \subseteq Range(call[srv.req].objs)
  <1>1. CASE srv.pc \in {"guard", "probe", "take", "unguard"}
    <2> DEFINE u == srv.req
               n == Count(u)
    <2>1. u \in Threads /\ pc[u] = "tryall" BY <1>1 DEF ServedOK, SlotServed, SlotPCs, TryPCs
    <2>2. n \in Nat /\ (\A j \in 1..n : WObj(u, j) \in Objs) /\ Range(call[u].objs) = {WObj(u, j) : j \in 1..n}
      BY <2>1, CallAt
    <2>3. srv.pc = "guard" => srv.i \in 1..n /\ srv.i = srv.guarded + 1 BY <1>1 DEF ServedOK, SlotServed, SlotPCs, TryPCs
    <2>4. srv.pc = "unguard" => srv.guarded \in 0..n /\ srv.i \in 1..(srv.guarded + 1)
      BY <1>1 DEF ServedOK, SlotServed, SlotPCs, TryPCs
    <2> HIDE DEF n, u
    <2>5. CASE srv.pc \in {"probe", "take"} BY <2>2, <2>5 DEF Guarded, u
    <2>6. CASE srv.pc = "unguard"
      <3>1. \A j \in srv.i..srv.guarded : j \in 1..n BY <2>2, <2>4, <2>6
      <3>2. Guarded = {WObj(u, j) : j \in srv.i..srv.guarded} BY <2>6 DEF Guarded, u
      <3> QED BY <3>1, <3>2, <2>2 DEF u
    <2>7. CASE srv.pc = "guard"
      <3>1. srv.i \in Nat BY <2>3, <2>7
      <3>2. \A j \in 1..srv.guarded : j \in 1..n
        <4>1. srv.guarded \in Nat BY DEF ServerTypes, Srvs
        <4> QED BY <4>1, <2>2, <2>3, <2>7
      <3>3. Guarded = {WObj(u, j) : j \in 1..srv.guarded} BY <2>7 DEF Guarded, u
      <3> QED BY <3>2, <3>3, <2>2 DEF u
    <2> QED BY <1>1, <2>5, <2>6, <2>7
  <1>2. CASE srv.pc \notin {"guard", "probe", "take", "unguard"} BY <1>2 DEF Guarded
  <1> QED BY <1>1, <1>2

(* wineserver's side when a thread that it does not serve moves.           *)
LEMMA ServerKept ==
  ASSUME ThreadTypes, ServerTypes, PlaceOK, RegisteredOK, ServedOK, QueuesOK, GuardOK, ServerFlagExact,
         NEW t \in Threads, NEW w, NEW l, NEW c, Moves(t, w, l, c),
         pc[t] \notin Served, w \notin {"queued", "served"},
         UNCHANGED <<srv, queue, slot, reg>>,
         \A o \in Objs : word'[o].server = word[o].server /\ word'[o].multi = word[o].multi,
         \A o \in Objs : ~word[o].locked /\ word[o].server => word'[o] = word[o],
         reg[t] # {} => RegisteredAt(w, l, c), w = "register" => reg[t] = {}
  PROVE  RegisteredOK' /\ ServedOK' /\ QueuesOK' /\ GuardOK' /\ ServerFlagExact' /\ Guarded' = Guarded
  <1>1. /\ pc'[t] = w /\ loc'[t] = l /\ call'[t] = c
        /\ \A u \in Threads : u # t => pc'[u] = pc[u] /\ loc'[u] = loc[u] /\ call'[u] = call[u]
    BY Moved
  <1>2. \A u \in Threads : pc[u] \in Served => pc'[u] = pc[u] /\ loc'[u] = loc[u] /\ call'[u] = call[u]
    BY <1>1
  <1>3. RegisteredOK' BY <1>1 DEF RegisteredOK
  <1>4. WaitServed'
    <2>1. srv.pc \in WaitPCs => pc'[srv.cur] = pc[srv.cur] /\ call'[srv.cur] = call[srv.cur]
      BY <1>2 DEF ServedOK, WaitServed, Served
    <2> QED BY <2>1 DEF ServedOK, WaitServed, Count
  <1>5. SignalServed'
    <2>1. ASSUME NEW u, Asking(u) PROVE Asking(u)' /\ call'[u] = call[u] /\ pc'[u] = pc[u]
      BY <2>1, <1>2 DEF Asking, Served
    <2> QED BY <2>1 DEF ServedOK, SignalServed, SignalingPCs
  <1>6. SlotServed'
    <2>1. CASE srv.pc \in SlotPCs
      <3>1. pc'[srv.req] = pc[srv.req] /\ call'[srv.req] = call[srv.req]
        BY <1>2, <2>1 DEF ServedOK, SlotServed, Served
      <3> QED BY <3>1, <2>1 DEF ServedOK, SlotServed, Count, SlotPCs, TryPCs
    <2>2. CASE srv.pc \notin SlotPCs BY <2>2 DEF SlotServed, SlotPCs, TryPCs
    <2> QED BY <2>1, <2>2
  <1>7. QueuesOK'
    <2>1. ASSUME NEW u \in Threads, NEW o PROVE WaitsOn(u, o)' <=> WaitsOn(u, o)
      <3>1. CASE u = t BY <3>1, <1>1 DEF WaitsOn, Served
      <3>2. CASE u # t BY <3>2, <1>1 DEF WaitsOn, Elsewhere, WObj, Count
      <3> QED BY <3>1, <3>2
    <2> QED BY <2>1 DEF QueuesOK
  <1>8. Guarded' = Guarded
    <2>1. CASE srv.pc \in {"guard", "probe", "take", "unguard"}
      <3>1. call'[srv.req] = call[srv.req]
        BY <1>2, <2>1 DEF ServedOK, SlotServed, Served, SlotPCs
      <3> QED BY <3>1 DEF Guarded, WObj
    <2>2. CASE srv.pc \notin {"guard", "probe", "take", "unguard"} BY <2>2 DEF Guarded
    <2> QED BY <2>1, <2>2
  <1>9. GuardOK' BY <1>8, GuardedIn DEF GuardOK, ServerFlagExact
  <1>10. ServerFlagExact' BY <1>8 DEF ServerFlagExact
  <1> QED BY <1>3, <1>4, <1>5, <1>6, <1>7, <1>8, <1>9, <1>10 DEF ServedOK

LEMMA Queued ==
  ASSUME ThreadTypes, ServerTypes, PlaceOK, QueuesOK, NEW t \in Threads, NEW o \in Objs, WaitsOn(t, o)
  PROVE  queue[o] # <<>>
  <1>1. PICK k \in 1..Len(queue[o]) : queue[o][k] = t BY DEF QueuesOK
  <1>2. Len(<<>>) = 0 OBVIOUS
  <1> QED BY <1>1, <1>2

LEMMA FoundIn ==
  ASSUME ThreadTypes, ServerTypes, PlaceOK, ServedOK, QueuesOK, ServerFlagExact
  PROVE  /\ Found \subseteq Objs
         /\ \A o \in Found : word[o].server
         /\ srv.pc \in {"check", "satisfy", "probe", "take"} => Finder \in Threads /\ pc[Finder] \in Served
  <1>1. CASE srv.pc \in {"check", "satisfy"}
    <2> DEFINE u == srv.cur
               n == Count(u)
    <2>1. u \in Threads /\ pc[u] = "queued" /\ srv.i \in 1..n BY <1>1 DEF ServedOK, WaitServed, WaitPCs
    <2>2. n \in Nat /\ (\A j \in 1..n : WObj(u, j) \in Objs) BY <2>1, CallAt
    <2>3. \A j \in 1..n : WaitsOn(u, WObj(u, j)) BY <1>1, <2>1 DEF WaitsOn, Elsewhere
    <2>4. \A j \in 1..n : word[WObj(u, j)].server BY <2>1, <2>2, <2>3, Queued DEF ServerFlagExact
    <2> HIDE DEF n, u
    <2>5. \A j \in srv.i..n : j \in 1..n BY <2>1, <2>2
    <2>6. \A j \in 1..(srv.i - 1) : j \in 1..n BY <2>1, <2>2
    <2>7. \A o \in Found : \E j \in 1..n : o = WObj(u, j)
      BY <1>1, <2>1, <2>5, <2>6 DEF Found, u, n
    <2>8. Finder = u BY <1>1 DEF Finder, u
    <2> QED BY <2>1, <2>2, <2>4, <2>7, <2>8 DEF Served
  <1>2. CASE srv.pc \in {"probe", "take"}
    <2> DEFINE u == srv.req
               n == Count(u)
    <2>1. u \in Threads /\ pc[u] = "tryall" /\ srv.i \in 1..n
      BY <1>2 DEF ServedOK, SlotServed, SlotPCs, TryPCs
    <2>2. n \in Nat /\ (\A j \in 1..n : WObj(u, j) \in Objs) /\ Range(call[u].objs) = {WObj(u, j) : j \in 1..n}
      BY <2>1, CallAt
    <2>3. Guarded = Range(call[u].objs) BY <1>2 DEF Guarded
    <2>4. \A j \in 1..n : word[WObj(u, j)].server BY <2>2, <2>3 DEF ServerFlagExact
    <2> HIDE DEF n, u
    <2>5. \A j \in srv.i..n : j \in 1..n BY <2>1, <2>2
    <2>6. \A j \in 1..(srv.i - 1) : j \in 1..n BY <2>1, <2>2
    <2>7. \A o \in Found : \E j \in 1..n : o = WObj(u, j)
      BY <1>2, <2>5, <2>6 DEF Found, u, n
    <2>8. Finder = u BY <1>2 DEF Finder, u
    <2> QED BY <2>1, <2>2, <2>4, <2>7, <2>8 DEF Served
  <1>3. CASE srv.pc \notin {"check", "satisfy", "probe", "take"} BY <1>3 DEF Found
  <1> QED BY <1>1, <1>2, <1>3

(* A step of a thread.                                                     *)
LEMMA ClientStep ==
  ASSUME IInv, NEW t \in Threads, NEW w, NEW l, NEW c, Moves(t, w, l, c), Fits(t, w, l, c), WordMove(t, w, l, c),
         pc[t] \notin Served, w \notin {"queued", "served"},
         UNCHANGED <<srv, queue, slot, reg>>, ClientTypes',
         reg[t] # {} => RegisteredAt(w, l, c), w = "register" => reg[t] = {},
         \A o \in TakesAt(w, l, c) : Signaled(o, t)'
  PROVE  IInv'
  <1>1. /\ ThreadTypes /\ ServerTypes /\ WordTypes
        /\ PlaceOK /\ RegisteredOK /\ LockedOK /\ ServedOK /\ QueuesOK /\ GuardOK /\ ServerFlagExact /\ FoundOK /\ TakesOK
    BY TypeParts DEF IInv
  <1>2. ThreadTypes' /\ PlaceOK' BY <1>1, FitsPlace
  <1>3. ServerTypes' BY <1>1 DEF ServerTypes
  <1>4. LockedAt(w, l, c) \subseteq Objs /\ \A u \in Threads : Locked(u) \subseteq Objs /\ Takes(u) \subseteq Locked(u)
    BY <1>1, LockedIn, FitsNow
  <1>5. LockedOK' BY <1>1, <1>4, LockedMoved
  <1>6. /\ WordTypes'
        /\ \A o \in Objs : word'[o].server = word[o].server /\ word'[o].multi = word[o].multi
        /\ \A o \in Objs : word[o].locked /\ o \notin Locked(t) => word'[o] = word[o]
        /\ \A o \in Objs : ~word[o].locked /\ word[o].server => word'[o] = word[o]
    BY <1>1, WordMoved
  <1>7. RegisteredOK' /\ ServedOK' /\ QueuesOK' /\ GuardOK' /\ ServerFlagExact' BY <1>1, <1>6, ServerKept
  <1>8. \A u \in Threads : u # t => pc'[u] = pc[u] /\ loc'[u] = loc[u] /\ call'[u] = call[u] /\ Takes(u)' = Takes(u)
    BY <1>1, Moved
  <1>9. FoundOK'
    <2>1. CASE srv.pc \in {"check", "satisfy", "probe", "take"}
      <3>1. Finder \in Threads /\ Finder # t BY <1>1, <2>1, FoundIn
      <3>2. call'[Finder] = call[Finder] BY <1>8, <3>1
      <3>3. Finder' = Finder BY DEF Finder
      <3>5. ASSUME srv.pc \in {"check", "satisfy"} PROVE Found' = Found
        <4>1. call'[srv.cur] = call[srv.cur] BY <3>2, <3>5 DEF Finder
        <4> QED BY <3>5, <4>1 DEF Found, WObj, Count
      <3>6. ASSUME srv.pc \in {"probe", "take"} PROVE Found' = Found
        <4>1. call'[srv.req] = call[srv.req] BY <3>2, <3>6 DEF Finder
        <4> QED BY <3>6, <4>1 DEF Found, WObj, Count
      <3>7. Found' = Found BY <2>1, <3>5, <3>6
      <3>4. \A o \in Found : word'[o] = word[o] BY <1>1, <1>6, FoundIn DEF FoundOK
      <3> QED BY <1>1, <3>3, <3>4, <3>7, FoundIn, SignaledLow DEF FoundOK
    <2>2. CASE srv.pc \notin {"check", "satisfy", "probe", "take"} BY <2>2 DEF Found, FoundOK
    <2> QED BY <2>1, <2>2
  <1>10. TakesOK'
    <2>1. \A o \in Takes(t)' : Signaled(o, t)' BY <1>1, Moved
    <2>2. ASSUME NEW u \in Threads, u # t, NEW o \in Takes(u) PROVE Signaled(o, u)'
      <3>1. o \in Objs /\ o \in Locked(u) /\ word[o].locked /\ o \notin Locked(t) BY <1>1, <1>4, <2>2 DEF LockedOK
      <3>2. word'[o] = word[o] BY <1>6, <3>1
      <3> QED BY <1>1, <2>2, <3>1, <3>2, SignaledLow DEF TakesOK
    <2> QED BY <1>8, <2>1, <2>2 DEF TakesOK
  <1>11. TypeOK' /\ WordsOK' BY <1>2, <1>3, <1>6, TypeParts, PTL
  <1> QED BY <1>2, <1>5, <1>7, <1>9, <1>10, <1>11 DEF IInv

-----------------------------------------------------------------------------
(* The steps of threads.                                                   *)
LEMMA Parts ==
  IInv => /\ ThreadTypes /\ ClientTypes /\ ServerTypes /\ WordTypes
          /\ PlaceOK /\ RegisteredOK /\ LockedOK /\ ServedOK /\ QueuesOK /\ GuardOK /\ ServerFlagExact /\ FoundOK /\ TakesOK
  BY TypeParts DEF IInv

LEMMA MovesBy ==
  ASSUME ThreadTypes, NEW t \in Threads, NEW w, NEW l
  PROVE  /\ Goto(t, w) /\ SetLoc(t, l) /\ UNCHANGED call => Moves(t, w, l, call[t])
         /\ Goto(t, w) /\ UNCHANGED <<call, loc>> => Moves(t, w, loc[t], call[t])
         /\ UNCHANGED <<pc, call>> /\ SetLoc(t, l) => Moves(t, pc[t], l, call[t])
         /\ Return(t) => Moves(t, "idle", Loc0, NoCall)
         /\ Finish(t, w) => Moves(t, "return", [loc[t] EXCEPT !.ret = w], call[t])
  BY DEF ThreadTypes, Goto, SetLoc, Return, Finish, Moves

LEMMA LocalTypes ==
  ASSUME NEW q \in Locs, NEW n \in Nat, NEW r \in Rets, NEW p \in 1..3
  PROVE  /\ Loc0 \in Locs /\ [Loc0 EXCEPT !.try = 2] \in Locs /\ Loc0.i = 1 /\ [Loc0 EXCEPT !.try = 2].i = 1
         /\ [q EXCEPT !.i = n] \in Locs /\ [q EXCEPT !.i = n].i = n /\ [q EXCEPT !.i = n].phase = q.phase
         /\ [q EXCEPT !.ret = r] \in Locs /\ [q EXCEPT !.ret = r].i = q.i /\ [q EXCEPT !.ret = r].phase = q.phase
         /\ [q EXCEPT !.i = n, !.ret = r] \in Locs /\ [q EXCEPT !.i = n, !.ret = r].i = n
         /\ [q EXCEPT !.i = n, !.ret = r].phase = q.phase
         /\ [q EXCEPT !.i = n, !.phase = p] \in Locs /\ [q EXCEPT !.i = n, !.phase = p].i = n
         /\ [q EXCEPT !.i = n, !.phase = p].phase = p
         /\ [q EXCEPT !.phase = p, !.ret = r] \in Locs /\ [q EXCEPT !.phase = p, !.ret = r].i = q.i
         /\ [q EXCEPT !.phase = p, !.ret = r].phase = p
  <1>1. Loc0 \in Locs /\ [Loc0 EXCEPT !.try = 2] \in Locs /\ Loc0.i = 1 /\ [Loc0 EXCEPT !.try = 2].i = 1
    BY DEF Loc0, Locs, Rets
  <1> QED BY <1>1 DEF Locs

Holding == {"lock", "unlock", "eval", "take", "any_consume", "signal_write"}

LEMMA Empty == ASSUME NEW w, w \notin Holding, NEW l, NEW c PROVE LockedAt(w, l, c) = {} /\ TakesAt(w, l, c) = {}
  BY DEF LockedAt, TakesAt, Holding

LEMMA IdleFits == ASSUME NEW t \in Threads PROVE Fits(t, "idle", Loc0, NoCall)
  <1>1. Loc0 \in Locs BY DEF Loc0, Locs, Rets
  <1> QED BY <1>1 DEF Fits, ClientPCs, Calls, PlaceAt, AllPCs, AnyPCs, SignalPCs

(* Between words.                                                          *)
LEMMA QuietStep ==
  ASSUME IInv, NEW t \in Threads, NEW w, NEW l, NEW c, Moves(t, w, l, c), Fits(t, w, l, c),
         pc[t] \notin Served \cup Holding, w \notin Holding \cup {"queued", "served"},
         UNCHANGED <<word, srv, queue, slot, reg>>, ClientTypes',
         reg[t] # {} => RegisteredAt(w, l, c), w = "register" => reg[t] = {}
  PROVE  IInv'
  <1>1. Locked(t) = {} BY ValuesAt, Empty
  <1>2. LockedAt(w, l, c) = {} /\ TakesAt(w, l, c) = {} BY Empty
  <1>3. WordMove(t, w, l, c) BY <1>1, <1>2 DEF WordMove
  <1> QED BY <1>2, <1>3, ClientStep

(* A thread is not registered outside its wait.                            *)
LEMMA NotRegistered ==
  ASSUME IInv, NEW t \in Threads
  PROVE  /\ reg[t] # {} => RegisteredAt(pc[t], loc[t], call[t])
         /\ pc[t] \notin {"sleep", "asleep", "unregister", "tryall", "register",
                          "any_check", "any_lock", "any_consume", "any_refresh"} => reg[t] = {}
         /\ pc[t] \in {"any_check", "any_lock", "any_consume", "any_refresh"} /\ loc[t].phase # 2 => reg[t] = {}
  BY Parts DEF RegisteredOK, RegisteredAt

LEMMA Fallen ==
  ASSUME ThreadTypes, PlaceOK, NEW t \in Threads, pc[t] # "idle", Fallback(t)
  PROVE  \E w \in {"gather", "request"} : \E l : Moves(t, w, l, call[t]) /\ Fits(t, w, l, call[t])
  <1>1. /\ call[t] \in CallsOf[t] /\ call[t] \in Calls /\ Count(t) \in Nat
        /\ call[t].what \in Waits => Count(t) > 0
    BY CallAt DEF PlaceOK, Calls
  <1>2. Loc0 \in Locs /\ [Loc0 EXCEPT !.try = 2] \in Locs /\ [Loc0 EXCEPT !.try = 2].i = 1
    BY DEF Loc0, Locs, Rets
  <1>3. CASE call[t].what \in {"waitall", "waitany"} /\ loc[t].try = 1
    <2>1. Moves(t, "gather", [Loc0 EXCEPT !.try = 2], call[t]) BY <1>3, MovesBy DEF Fallback
    <2>2. Fits(t, "gather", [Loc0 EXCEPT !.try = 2], call[t])
      BY <1>1, <1>2, <1>3 DEF Fits, PlaceAt, ClientPCs, AllPCs, AnyPCs, SignalPCs, Waits, Count
    <2> QED BY <2>1, <2>2
  <1>4. CASE ~(call[t].what \in {"waitall", "waitany"} /\ loc[t].try = 1)
    <2>1. Moves(t, "request", Loc0, call[t]) BY <1>4, MovesBy DEF Fallback
    <2>2. Fits(t, "request", Loc0, call[t])
      BY <1>1, <1>2 DEF Fits, PlaceAt, ClientPCs, AllPCs, AnyPCs, SignalPCs
    <2> QED BY <2>1, <2>2
  <1> QED BY <1>3, <1>4

LEMMA FallbackStep ==
  ASSUME IInv, NEW t \in Threads, pc[t] \notin Served \cup Holding \cup {"idle"}, reg[t] = {},
         Fallback(t), UNCHANGED <<word, srv, queue, slot, reg>>, ClientTypes'
  PROVE  IInv'
  <1>1. PICK w \in {"gather", "request"} : \E l : Moves(t, w, l, call[t]) /\ Fits(t, w, l, call[t])
    BY Parts, Fallen
  <1> QED BY <1>1, QuietStep DEF Holding

LEMMA ReturnStep ==
  ASSUME IInv, NEW t \in Threads, pc[t] \notin Served \cup Holding, reg[t] = {},
         Return(t), UNCHANGED <<word, srv, queue, slot, reg>>, ClientTypes'
  PROVE  IInv'
  <1>1. Moves(t, "idle", Loc0, NoCall) BY Parts, MovesBy
  <1> QED BY <1>1, IdleFits, QuietStep DEF Holding

AnyLoop == {"any_check", "any_lock", "any_consume", "any_refresh"}

(* Where consume_waitany_states ends.                                      *)
LEMMA AnyEnds ==
  ASSUME ThreadTypes, PlaceOK, RegisteredOK, NEW t \in Threads, pc[t] \in AnyLoop, NEW r \in Rets, AnyDone(t, r)
  PROVE  \E w \in {"sleep", "unregister", "gather", "request", "register", "return"} : \E l :
           /\ Moves(t, w, l, call[t]) /\ Fits(t, w, l, call[t])
           /\ reg[t] # {} => RegisteredAt(w, l, call[t])
           /\ w = "register" => reg[t] = {}
  <1> DEFINE l == [loc[t] EXCEPT !.i = 1, !.ret = r]
             m == [loc[t] EXCEPT !.ret = r]
  <1>1. /\ call[t] \in CallsOf[t] /\ call[t] \in Calls /\ loc[t] \in Locs /\ call[t].what = "waitany"
    BY CallAt DEF PlaceOK, PlaceAt, Calls, AnyLoop, AnyPCs
  <1>2. l \in Locs /\ m \in Locs
    <2>1. 1 \in Nat /\ 1 \in 1..3 OBVIOUS
    <2> QED BY <1>1, <2>1, LocalTypes, Zenon
  <1>3. reg[t] # {} => loc[t].phase = 2 BY DEF RegisteredOK, RegisteredAt, AnyLoop
  <1>2a. l.i = 1 BY <1>1 DEF Locs
  <1>4. \A w \in {"sleep", "unregister", "register"} : Fits(t, w, l, call[t])
    <2> HIDE DEF l
    <2> QED BY <1>1, <1>2, <1>2a DEF Fits, PlaceAt, ClientPCs, AllPCs, AnyPCs, SignalPCs
  <1>5. Fits(t, "return", m, call[t])
    BY <1>1, <1>2 DEF Fits, PlaceAt, ClientPCs, AllPCs, AnyPCs, SignalPCs
  <1>6. \A w \in {"sleep", "unregister"} : RegisteredAt(w, l, call[t]) BY <1>1 DEF RegisteredAt
  <1>7. Finish(t, r) => Moves(t, "return", m, call[t]) BY MovesBy
  <1>8. \A w : Goto(t, w) /\ SetLoc(t, l) /\ UNCHANGED call => Moves(t, w, l, call[t]) BY MovesBy
  <1> HIDE DEF m
  <1>9. CASE loc[t].phase = 2
    <2> DEFINE w == IF r = "timeout" THEN "sleep" ELSE "unregister"
    <2>1. Goto(t, w) /\ SetLoc(t, l) /\ UNCHANGED call BY <1>9 DEF AnyDone
    <2> HIDE DEF l
    <2>2. w \in {"sleep", "unregister"} OBVIOUS
    <2> QED BY <1>4, <1>6, <1>8, <2>1, <2>2
  <1>10. CASE loc[t].phase # 2
    <2>1. reg[t] = {} BY <1>3, <1>10
    <2>2. \/ Fallback(t)
          \/ Goto(t, "register") /\ SetLoc(t, l) /\ UNCHANGED call
          \/ Finish(t, r)
      BY <1>10 DEF AnyDone
    <2> HIDE DEF l
    <2>3. CASE Fallback(t)
      <3>1. PICK w \in {"gather", "request"} : \E q : Moves(t, w, q, call[t]) /\ Fits(t, w, q, call[t])
        BY <2>3, Fallen DEF AnyLoop
      <3> QED BY <3>1, <2>1
    <2>4. CASE Goto(t, "register") /\ SetLoc(t, l) /\ UNCHANGED call BY <2>4, <1>4, <1>8, <2>1
    <2>5. CASE Finish(t, r) BY <2>5, <1>5, <1>7, <2>1
    <2> QED BY <2>2, <2>3, <2>4, <2>5
  <1> QED BY <1>9, <1>10

LEMMA AnyDoneStep ==
  ASSUME IInv, NEW t \in Threads, pc[t] \in AnyLoop \ {"any_consume"}, NEW r \in Rets, AnyDone(t, r),
         UNCHANGED <<word, srv, queue, slot, reg>>, ClientTypes'
  PROVE  IInv'
  <1>1. PICK w \in {"sleep", "unregister", "gather", "request", "register", "return"} : \E l :
           /\ Moves(t, w, l, call[t]) /\ Fits(t, w, l, call[t])
           /\ reg[t] # {} => RegisteredAt(w, l, call[t])
           /\ w = "register" => reg[t] = {}
    BY Parts, AnyEnds
  <1>2. pc[t] \notin Served \cup Holding BY DEF AnyLoop, Served, Holding
  <1>3. w \notin Holding \cup {"queued", "served"} BY DEF Holding
  <1> QED BY <1>1, <1>2, <1>3, QuietStep

(* Generations in the cache are numbers, and the rest of the thread's      *)
(* bookkeeping stays as it is.                                             *)
LEMMA CacheTypes ==
  ASSUME ClientTypes, WordTypes, NEW o \in Objs, UNCHANGED left,
         UNCHANGED cache_gen \/ cache_gen' = [cache_gen EXCEPT ![o] = word[o].generation]
  PROVE  ClientTypes'
  <1>1. word[o].generation \in Nat BY DEF WordTypes, Words
  <1> QED BY <1>1 DEF ClientTypes

LEMMA AnyCheckStep == ASSUME IInv, NEW t \in Threads, any_check(t) PROVE IInv'
  <1>1. pc[t] = "any_check" /\ UNCHANGED <<word, srv, queue, slot, reg>> /\ ClientTypes'
    BY Parts DEF any_check, ClientOnly, ClientTypes
  <1>2. CASE AnyDone(t, "bail") BY <1>1, <1>2, AnyDoneStep DEF AnyLoop, Rets
  <1>3. CASE Goto(t, "any_lock") /\ UNCHANGED <<call, loc>>
    <2>1. Moves(t, "any_lock", loc[t], call[t]) BY <1>3, Parts, MovesBy
    <2>2. Fits(t, "any_lock", loc[t], call[t])
      BY <1>1, Parts, FitsNow DEF Fits, PlaceAt, ClientPCs, AllPCs, AnyPCs, SignalPCs
    <2>3. reg[t] # {} => RegisteredAt("any_lock", loc[t], call[t])
      BY <1>1, NotRegistered DEF RegisteredAt
    <2> QED BY <1>1, <2>1, <2>2, <2>3, QuietStep DEF Served, Holding
  <1> QED BY <1>2, <1>3 DEF any_check

LEMMA AnyRefreshStep == ASSUME IInv, NEW t \in Threads, any_refresh(t) PROVE IInv'
  <1>1. pc[t] = "any_refresh" /\ UNCHANGED <<word, left, srv, queue, slot, reg>> /\ AnyDone(t, "abandoned")
    BY DEF any_refresh, ClientOnly
  <1>2. At(t) \in Objs
    <2>1. loc[t].i \in 1..Count(t) BY <1>1, Parts DEF PlaceOK, PlaceAt, Count
    <2> QED BY <1>1, <2>1, Parts, CallAt DEF At, WObj
  <1>3. ClientTypes' BY <1>1, <1>2, Parts, CacheTypes DEF any_refresh
  <1> QED BY <1>1, <1>3, AnyDoneStep DEF AnyLoop, Rets

(* Where a call starts.                                                    *)
LEMMA Started ==
  ASSUME NEW t \in Threads, NEW c \in CallsOf[t], NEW l \in Locs, l.i = 1,
         NEW w \in {"gather", "signal", "request"},
         w = "gather" => c.what \in {"waitall", "waitany"},
         w = "signal" => c.what \in {"signal", "reset"}
  PROVE  Fits(t, w, l, c)
  <1>1. /\ c \in Call /\ c.objs \in Seq(Objs)
        /\ c.what \in Waits => c.objs # <<>>
    BY CallsAssumption DEF Call
  <1>2. Len(c.objs) \in Nat /\ (c.what \in Waits => Len(c.objs) > 0)
    BY <1>1, EmptySeq
  <1> QED BY <1>1, <1>2 DEF Fits, PlaceAt, ClientPCs, Calls, AllPCs, AnyPCs, SignalPCs, Waits

(* A call starts with the locals of none.                                  *)
LEMMA InvokeStep == ASSUME IInv, NEW t \in Threads, Invoke(t) PROVE IInv'
  <1>1. /\ pc[t] = "idle" /\ left[t] > 0
        /\ UNCHANGED <<word, loc, cache_gen, srv, queue, slot, reg>> /\ left' = [left EXCEPT ![t] = @ - 1]
    BY DEF Invoke
  <1>2. PICK c \in CallsOf[t] :
          /\ call' = [call EXCEPT ![t] = c]
          /\ Goto(t, CASE c.fast /\ c.what \in {"waitall", "waitany"} -> "gather"
                       [] c.fast /\ c.what \in {"signal", "reset"} -> "signal"
                       [] OTHER -> "request")
    BY <1>1 DEF Invoke
  <1>3. PICK w \in {"gather", "signal", "request"} :
          /\ Goto(t, w)
          /\ w = "gather" => c.what \in {"waitall", "waitany"}
          /\ w = "signal" => c.what \in {"signal", "reset"}
    <2>1. CASE c.fast /\ c.what \in {"waitall", "waitany"} BY <1>2, <2>1
    <2>2. CASE c.fast /\ c.what \in {"signal", "reset"}
      <3>1. ~(c.fast /\ c.what \in {"waitall", "waitany"}) BY <2>2
      <3> QED BY <1>2, <2>2, <3>1
    <2>3. CASE ~(c.fast /\ c.what \in {"waitall", "waitany"}) /\ ~(c.fast /\ c.what \in {"signal", "reset"})
      BY <1>2, <2>3
    <2> QED BY <2>1, <2>2, <2>3
  <1>4. ThreadTypes /\ loc[t] \in Locs /\ loc[t].i = 1 /\ reg[t] = {}
    BY <1>1, Parts, NotRegistered DEF ThreadTypes, PlaceOK, PlaceAt, Loc0
  <1>5. Moves(t, w, loc[t], c) BY <1>1, <1>2, <1>3, <1>4 DEF Moves, Goto, ThreadTypes
  <1>6. Fits(t, w, loc[t], c) BY <1>3, <1>4, Started
  <1>7. ClientTypes' BY <1>1, Parts DEF ClientTypes
  <1> QED BY <1>1, <1>4, <1>5, <1>6, <1>7, QuietStep DEF Served, Holding

LEMMA ReturnedStep == ASSUME IInv, NEW t \in Threads, return(t) PROVE IInv'
  <1>1. pc[t] = "return" /\ Return(t) /\ UNCHANGED <<word, cache_gen, left, srv, queue, slot, reg>>
    BY DEF return, ClientOnly
  <1>2. ClientTypes' BY <1>1, Parts DEF ClientTypes
  <1> QED BY <1>1, <1>2, NotRegistered, ReturnStep DEF Served, Holding

(* The object a loop is at.                                                *)
LEMMA ObjectAt ==
  ASSUME ThreadTypes, PlaceOK, NEW t \in Threads,
         pc[t] \in {"gather", "take", "refresh", "any_check", "any_lock", "any_consume", "any_refresh"}
  PROVE  At(t) \in Objs /\ loc[t].i \in 1..Count(t) /\ Count(t) \in Nat /\ At(t) = WObj(t, loc[t].i)
  <1>1. loc[t].i \in 1..Count(t) BY DEF PlaceOK, PlaceAt, Count
  <1> QED BY <1>1, CallAt DEF At, WObj

LEMMA GatherStep == ASSUME IInv, NEW t \in Threads, gather(t) PROVE IInv'
  <1> DEFINE o == At(t)
             next == IF call[t].what = "waitall" THEN "lock" ELSE "any_check"
             w == IF loc[t].i = Count(t) THEN next ELSE "gather"
             n == IF loc[t].i = Count(t) THEN 1 ELSE loc[t].i + 1
             l == [loc[t] EXCEPT !.gens[o] = word[o].generation, !.i = n]
  <1>1. pc[t] = "gather" /\ UNCHANGED <<word, left, srv, queue, slot, reg>> BY DEF gather, ClientOnly
  <1>2. o \in Objs /\ loc[t].i \in 1..Count(t) /\ Count(t) \in Nat BY <1>1, Parts, ObjectAt
  <1>3. reg[t] = {} BY <1>1, NotRegistered
  <1>4. ClientTypes'
    <2>1. UNCHANGED cache_gen \/ cache_gen' = [cache_gen EXCEPT ![o] = word[o].generation] BY DEF gather
    <2> HIDE DEF o
    <2> QED BY <1>1, <1>2, <2>1, Parts, CacheTypes
  <1>5. CASE Fallback(t) BY <1>1, <1>3, <1>4, <1>5, FallbackStep DEF Served, Holding
  <1>6. CASE Goto(t, w) /\ SetLoc(t, l) /\ UNCHANGED call
    <2>1. Moves(t, w, l, call[t])
      <3> HIDE DEF w, l
      <3> QED BY <1>6, Parts, MovesBy
    <2>2. l \in Locs /\ l.i = n
      <3>1. word[o].generation \in Nat /\ loc[t] \in Locs BY <1>2, Parts DEF WordTypes, Words, ThreadTypes
      <3>2. n \in Nat BY <1>2
      <3> HIDE DEF o, n
      <3> QED BY <3>1, <3>2, <1>2 DEF Locs
    <2>3. /\ call[t] \in CallsOf[t] /\ call[t] \in Calls /\ call[t].what \in {"waitall", "waitany"}
          /\ n \in 1..Len(call[t].objs) /\ w \in {"lock", "any_check", "gather"}
          /\ w = "lock" => n = 1 /\ call[t].what = "waitall"
          /\ w = "any_check" => call[t].what = "waitany"
      BY <1>1, <1>2, Parts, CallAt DEF PlaceOK, PlaceAt, Calls, Count
    <2>4. loc[t].i \in Nat BY <1>2
    <2> HIDE DEF l, n, w
    <2>5. Fits(t, w, l, call[t]) BY <2>2, <2>3 DEF Fits, PlaceAt, ClientPCs, AllPCs, AnyPCs, SignalPCs
    <2>6. Locked(t) = {} BY <1>1, ValuesAt, Empty DEF Holding
    <2>7. LockedAt(w, l, call[t]) = {} /\ TakesAt(w, l, call[t]) = {}
      <3>1. CASE w = "lock"
        <4>1. 1..(l.i - 1) = {} BY <2>2, <2>3, <3>1
        <4> QED BY <4>1, <3>1 DEF LockedAt, TakesAt
      <3>2. CASE w # "lock" BY <3>2, <2>3, Empty DEF Holding
      <3> QED BY <3>1, <3>2
    <2>8. WordMove(t, w, l, call[t]) BY <1>1, <2>6, <2>7 DEF WordMove
    <2> QED BY <1>1, <1>3, <1>4, <2>1, <2>3, <2>5, <2>7, <2>8, ClientStep DEF Served
  <1>7. Fallback(t) \/ (Goto(t, w) /\ SetLoc(t, l) /\ UNCHANGED call) BY DEF gather
  <1> QED BY <1>5, <1>6, <1>7

(* A word is written and its lock taken, kept or given back.               *)
LEMMA WordWritten ==
  ASSUME WordTypes, NEW t \in Threads, NEW w, NEW l, NEW c, NEW o \in Objs, NEW y, Like(o, y, word[o]),
         NEW b \in BOOLEAN, word' = [word EXCEPT ![o] = [y EXCEPT !.locked = b]],
         o \in Locked(t) \/ (~word[o].locked /\ ~word[o].server),
         LockedAt(w, l, c) = IF b THEN Locked(t) \cup {o} ELSE Locked(t) \ {o}
  PROVE  WordMove(t, w, l, c)
  <1> DEFINE x == [y EXCEPT !.locked = b]
  <1>1. x \in Words(o) /\ x.server = word[o].server /\ x.multi = word[o].multi /\ x.locked = b
    BY DEF Like, SameFlags, Words
  <1>2. word' = [word EXCEPT ![o] = x] OBVIOUS
  <1> HIDE DEF x
  <1> QED BY <1>1, <1>2 DEF WordMove

(* The locks of WaitAll, in the order of the slots.                        *)
LEMMA OrderedLocks ==
  ASSUME ThreadTypes, PlaceOK, NEW t \in Threads, pc[t] # "idle", NEW i \in 1..Count(t), NEW l
  PROVE  LET O(n) == {Order(t)[j] : j \in 1..n} IN
         /\ O(i) = O(i - 1) \cup {Order(t)[i]} /\ Order(t)[i] \in Objs
         /\ O(i - 1) = O(i) \ {Order(t)[i]}
         /\ O(0) = {} /\ O(Count(t)) = Range(call[t].objs)
         /\ l.i = i + 1 => LockedAt("lock", l, call[t]) = O(i)
         /\ LockedAt("unlock", l, call[t]) = O(l.i)
  <1> DEFINE O(n) == {Order(t)[j] : j \in 1..n}
  <1>1. /\ Count(t) \in Nat /\ i \in Nat
        /\ \A j \in 1..Count(t) : Order(t)[j] \in Objs
        /\ \A j, k \in 1..Count(t) : Order(t)[j] = Order(t)[k] => j = k
        /\ O(Count(t)) = Range(call[t].objs)
    <2>1. Count(t) \in Nat BY CallAt
    <2>2. i \in Nat BY <2>1
    <2>3. \A j \in 1..Count(t) : Order(t)[j] \in Objs BY OrderAt
    <2>4. \A j, k \in 1..Count(t) : Order(t)[j] = Order(t)[k] => j = k BY OrderAt
    <2>5. O(Count(t)) = Range(call[t].objs) BY OrderAt
    <2> QED BY <2>1, <2>2, <2>3, <2>4, <2>5
  <1>2. \A j : j \in 1..i <=> (j \in 1..(i - 1) \/ j = i) BY <1>1
  <1>3. \A j : j \in 1..i => j \in 1..Count(t) BY <1>1
  <1>4. i \notin 1..(i - 1) /\ 1..0 = {} BY <1>1
  <1>5. O(i) = O(i - 1) \cup {Order(t)[i]} BY <1>2
  <1>6. O(i - 1) = O(i) \ {Order(t)[i]}
    <2>1. \A j \in 1..(i - 1) : Order(t)[j] # Order(t)[i] BY <1>1, <1>2, <1>3, <1>4
    <2> QED BY <1>5, <2>1
  <1>7. O(0) = {} BY <1>4
  <1>8. l.i = i + 1 => LockedAt("lock", l, call[t]) = O(i)
    <2>1. (i + 1) - 1 = i BY <1>1
    <2> QED BY <2>1 DEF LockedAt, Order
  <1>9. LockedAt("unlock", l, call[t]) = O(l.i) BY SMTT(20) DEF LockedAt, Order
  <1> QED BY <1>1, <1>5, <1>6, <1>7, <1>8, <1>9

LEMMA LockAllStep == ASSUME IInv, NEW t \in Threads, lock_all(t) PROVE IInv'
  <1> DEFINE i == loc[t].i
             o == Order(t)[i]
             c == call[t]
             O(n) == {Order(t)[j] : j \in 1..n}
  <1>1. pc[t] = "lock" /\ UNCHANGED <<call, cache_gen, left, srv, queue, slot, reg>> BY DEF lock_all, ClientOnly
  <1>2. /\ i \in 1..Count(t) /\ Count(t) = Len(c.objs) /\ c.what = "waitall"
        /\ c \in CallsOf[t] /\ c \in Calls /\ loc[t] \in Locs /\ Count(t) \in Nat
    BY <1>1, Parts, CallAt DEF PlaceOK, PlaceAt, Calls, Count, AllPCs
  <1>3. /\ reg[t] = {} /\ ClientTypes' BY <1>1, NotRegistered, Parts DEF ClientTypes
  <1>4. \A q : /\ O(i) = O(i - 1) \cup {o} /\ o \in Objs /\ O(Count(t)) = Range(c.objs)
               /\ q.i = i + 1 => LockedAt("lock", q, c) = O(i)
               /\ LockedAt("unlock", q, c) = O(q.i)
    BY <1>1, <1>2, Parts, OrderedLocks, ZenonT(40)
  <1>5. Locked(t) = O(i - 1) BY <1>1, ValuesAt DEF LockedAt, Order
  <1>6. i \in Nat /\ i + 1 \in Nat /\ i - 1 \in Nat BY <1>2
  <1>7. ASSUME NEW w \in {"lock", "unlock", "eval"}, NEW l \in Locs,
               w = "lock" => l.i \in 1..Count(t), w = "unlock" => l.i \in 0..Count(t), w = "eval" => l.i = Count(t)
        PROVE  Fits(t, w, l, c) /\ TakesAt(w, l, c) = {}
    BY <1>2, <1>7 DEF Fits, PlaceAt, ClientPCs, AllPCs, AnyPCs, SignalPCs, TakesAt
  <1>8. ASSUME NEW w \in {"lock", "unlock", "eval"}, NEW l \in Locs, Moves(t, w, l, c), WordMove(t, w, l, c),
               w = "lock" => l.i \in 1..Count(t), w = "unlock" => l.i \in 0..Count(t), w = "eval" => l.i = Count(t)
        PROVE  IInv'
    <2>1. Fits(t, w, l, c) /\ TakesAt(w, l, c) = {} BY <1>7, <1>8
    <2> QED BY <1>1, <1>3, <1>8, <2>1, ClientStep DEF Served
  <1>9. "bail" \in Rets BY DEF Rets
  <1> HIDE DEF c, O
  <1>10. CASE /\ ~word[o].locked /\ ~word[o].server /\ word' = [word EXCEPT ![o].locked = TRUE]
              /\ IF word[o].generation # loc[t].gens[o] \/ KindOf[o] = "manual"
                   THEN Goto(t, "unlock") /\ SetLoc(t, [loc[t] EXCEPT !.ret = "bail"])
                 ELSE IF loc[t].i = Count(t) THEN Goto(t, "eval") /\ UNCHANGED loc
                 ELSE SetLoc(t, [loc[t] EXCEPT !.i = @ + 1]) /\ UNCHANGED pc
    <2>1. ASSUME NEW w, NEW l, LockedAt(w, l, c) = O(i) PROVE WordMove(t, w, l, c)
      <3>1. word[o] \in Words(o) /\ Like(o, word[o], word[o]) BY <1>4, Parts DEF WordTypes, Like, SameFlags
      <3>2. word' = [word EXCEPT ![o] = [word[o] EXCEPT !.locked = TRUE]] BY <1>10
      <3> HIDE DEF o
      <3>3. TRUE \in BOOLEAN OBVIOUS
      <3>4. LockedAt(w, l, c) = IF TRUE THEN Locked(t) \cup {o} ELSE Locked(t) \ {o} BY <1>4, <1>5, <2>1
      <3> QED BY <1>4, <1>10, <3>1, <3>2, <3>3, <3>4, Parts, WordWritten
    <2>2. CASE Goto(t, "unlock") /\ SetLoc(t, [loc[t] EXCEPT !.ret = "bail"])
      <3> DEFINE l == [loc[t] EXCEPT !.ret = "bail"]
      <3>1. Moves(t, "unlock", l, c) BY <1>1, <2>2, Parts, MovesBy DEF c
      <3>2. l \in Locs /\ l.i = i BY <1>2, <1>9 DEF Locs
      <3> HIDE DEF l
      <3>3. LockedAt("unlock", l, c) = O(i) BY <1>4, <3>2
      <3>4. l.i \in 0..Count(t) BY <1>2, <3>2
      <3> QED BY <1>8, <2>1, <3>1, <3>2, <3>3, <3>4
    <2>3. CASE i = Count(t) /\ Goto(t, "eval") /\ UNCHANGED loc
      <3>1. Moves(t, "eval", loc[t], c) BY <1>1, <2>3, Parts, MovesBy DEF c
      <3>2. LockedAt("eval", loc[t], c) = O(i) BY <1>4, <2>3 DEF LockedAt
      <3> QED BY <1>2, <1>8, <2>1, <2>3, <3>1, <3>2
    <2>4. CASE i # Count(t) /\ SetLoc(t, [loc[t] EXCEPT !.i = i + 1]) /\ UNCHANGED pc
      <3> DEFINE l == [loc[t] EXCEPT !.i = i + 1]
      <3>1. Moves(t, "lock", l, c) BY <1>1, <2>4, Parts, MovesBy DEF c
      <3>2. l \in Locs /\ l.i = i + 1 BY <1>2, <1>6 DEF Locs
      <3> HIDE DEF l
      <3>3. LockedAt("lock", l, c) = O(i) BY <1>4, <3>2
      <3>4. l.i \in 1..Count(t) BY <1>2, <2>4, <3>2
      <3> QED BY <1>8, <2>1, <3>1, <3>2, <3>3, <3>4
    <2> QED BY <1>10, <2>2, <2>3, <2>4
  <1>11. CASE /\ word[o].server /\ Goto(t, "unlock") /\ UNCHANGED word
              /\ SetLoc(t, [loc[t] EXCEPT !.i = @ - 1, !.ret = "bail"])
    <2> DEFINE l == [loc[t] EXCEPT !.i = i - 1, !.ret = "bail"]
    <2>1. Moves(t, "unlock", l, c) BY <1>1, <1>11, Parts, MovesBy DEF c
    <2>2. l \in Locs /\ l.i = i - 1 BY <1>2, <1>6, <1>9 DEF Locs
    <2> HIDE DEF l
    <2>3. LockedAt("unlock", l, c) = Locked(t) BY <1>4, <1>5, <2>2
    <2>4. WordMove(t, "unlock", l, c) BY <1>11, <2>3 DEF WordMove
    <2>5. l.i \in 0..Count(t) BY <1>2, <2>2
    <2> QED BY <1>8, <2>1, <2>2, <2>4, <2>5
  <1> QED BY <1>10, <1>11 DEF lock_all

(* Nothing is taken before everything has been found signaled.             *)
LEMMA EvalAllStep == ASSUME IInv, NEW t \in Threads, eval_all(t) PROVE IInv'
  <1> DEFINE c == call[t]
  <1>1. pc[t] = "eval" /\ UNCHANGED <<word, call, cache_gen, left, srv, queue, slot, reg>> BY DEF eval_all, ClientOnly
  <1>2. /\ loc[t].i = Count(t) /\ Count(t) = Len(c.objs) /\ c.what = "waitall" /\ Count(t) > 0
        /\ c \in CallsOf[t] /\ c \in Calls /\ loc[t] \in Locs /\ Count(t) \in Nat
        /\ Range(c.objs) = {WObj(t, j) : j \in 1..Count(t)}
        /\ \A j \in 1..Count(t) : WObj(t, j) \in Objs
    BY <1>1, Parts, CallAt DEF PlaceOK, PlaceAt, Calls, Count, AllPCs, Waits
  <1>3. reg[t] = {} /\ ClientTypes' BY <1>1, NotRegistered, Parts DEF ClientTypes
  <1>4. Locked(t) = Range(c.objs) BY <1>1, ValuesAt DEF LockedAt
  <1>5. CASE Verdict(t) # "none" /\ Goto(t, "unlock") /\ SetLoc(t, [loc[t] EXCEPT !.ret = Verdict(t)])
    <2> DEFINE l == [loc[t] EXCEPT !.ret = Verdict(t)]
    <2>1. Moves(t, "unlock", l, c) BY <1>1, <1>5, Parts, MovesBy
    <2>2. Verdict(t) \in Rets BY DEF Verdict, VerdictUpTo, Rets
    <2>3. l \in Locs /\ l.i = Count(t) BY <1>2, <2>2 DEF Locs
    <2> HIDE DEF l
    <2>4. LockedAt("unlock", l, c) = Range(c.objs)
      <3>1. Count(t) \in 1..Count(t) BY <1>2
      <3>2. /\ LockedAt("unlock", l, c) = {Order(t)[j] : j \in 1..l.i}
            /\ {Order(t)[j] : j \in 1..Count(t)} = Range(c.objs)
        BY <1>1, <3>1, Parts, OrderedLocks
      <3> QED BY <2>3, <3>2
    <2>5. WordMove(t, "unlock", l, c) /\ TakesAt("unlock", l, c) = {} BY <1>1, <1>4, <2>4 DEF WordMove, TakesAt
    <2>6. Fits(t, "unlock", l, c)
      BY <1>2, <2>3 DEF Fits, PlaceAt, ClientPCs, AllPCs, AnyPCs, SignalPCs
    <2> QED BY <1>1, <1>3, <2>1, <2>5, <2>6, ClientStep DEF Served
  <1>6. CASE Verdict(t) = "none" /\ Goto(t, "take") /\ SetLoc(t, [loc[t] EXCEPT !.i = 1])
    <2> DEFINE l == [loc[t] EXCEPT !.i = 1]
    <2>1. Moves(t, "take", l, c) BY <1>1, <1>6, Parts, MovesBy
    <2>2. l \in Locs /\ l.i = 1 BY <1>2 DEF Locs
    <2> HIDE DEF l
    <2>3. \A j \in 1..Count(t) : Signaled(WObj(t, j), t) BY <1>6 DEF Verdict, VerdictUpTo, WObj
    <2>4. TakesAt("take", l, c) = {WObj(t, j) : j \in 1..Count(t)} BY <1>2, <2>2 DEF TakesAt, WObj
    <2>5. \A o \in TakesAt("take", l, c) : Signaled(o, t)' BY <1>1, <1>2, <2>3, <2>4, SignaledLow
    <2>6. WordMove(t, "take", l, c) BY <1>1, <1>4 DEF WordMove, LockedAt
    <2>7. Fits(t, "take", l, c)
      BY <1>2, <2>2 DEF Fits, PlaceAt, ClientPCs, AllPCs, AnyPCs, SignalPCs
    <2> QED BY <1>1, <1>3, <2>1, <2>5, <2>6, <2>7, ClientStep DEF Served
  <1> QED BY <1>5, <1>6 DEF eval_all

LEMMA StatusTypes == ASSUME NEW o, NEW r \in Rets PROVE ConsumedStatus(o) \in Rets /\ Worse(r, ConsumedStatus(o)) \in Rets
  BY DEF ConsumedStatus, W!ConsumedStatus, Worse, Rets

(* Each object is taken once, under its lock.                              *)
LEMMA TakeAllStep == ASSUME IInv, NEW t \in Threads, take_all(t) PROVE IInv'
  <1> DEFINE c == call[t]
             i == loc[t].i
             o == At(t)
             x == Consumed(o, t)
             r == Worse(loc[t].ret, ConsumedStatus(o))
             l == [loc[t] EXCEPT !.ret = r]
             m == [loc[t] EXCEPT !.ret = r, !.i = i + 1]
  <1>1. /\ pc[t] = "take" /\ UNCHANGED <<call, cache_gen, left, srv, queue, slot, reg>>
        /\ word' = [word EXCEPT ![o] = x]
    BY DEF take_all, ClientOnly
  <1>2. /\ i \in 1..Count(t) /\ Count(t) = Len(c.objs) /\ c.what = "waitall" /\ o \in Objs /\ o = WObj(t, i)
        /\ c \in CallsOf[t] /\ c \in Calls /\ loc[t] \in Locs /\ Count(t) \in Nat
        /\ Range(c.objs) = {WObj(t, j) : j \in 1..Count(t)}
        /\ \A j \in 1..Count(t) : WObj(t, j) \in Objs
        /\ \A j, k \in 1..Count(t) : WObj(t, j) = WObj(t, k) => j = k
    BY <1>1, Parts, CallAt, ObjectAt DEF PlaceOK, PlaceAt, Calls, Count, AllPCs
  <1>3. reg[t] = {} /\ ClientTypes' BY <1>1, NotRegistered, Parts DEF ClientTypes
  <1>4. Locked(t) = Range(c.objs) /\ o \in Locked(t) BY <1>1, <1>2, ValuesAt DEF LockedAt
  <1>5. word[o].locked BY <1>4, Parts DEF LockedOK
  <1>6. Like(o, x, word[o]) BY <1>2, Parts, ConsumedWord DEF WordTypes
  <1>7. r \in Rets
    <2>1. loc[t].ret \in Rets BY <1>2 DEF Locs
    <2> QED BY <2>1, StatusTypes
  <1>8. i \in Nat /\ i + 1 \in Nat BY <1>2
  <1> HIDE DEF r, x
  <1>9. l \in Locs /\ l.i = i /\ m \in Locs /\ m.i = i + 1 BY <1>2, <1>7, <1>8 DEF Locs
  <1>10. ASSUME NEW w, NEW q, LockedAt(w, q, c) = Locked(t) PROVE WordMove(t, w, q, c)
    BY <1>1, <1>2, <1>4, <1>5, <1>6, <1>10 DEF WordMove, Like, SameFlags
  <1>11. CASE i = Count(t) /\ Goto(t, "unlock") /\ SetLoc(t, l)
    <2>1. Moves(t, "unlock", l, c) BY <1>1, <1>11, Parts, MovesBy
    <2> HIDE DEF l
    <2>2. LockedAt("unlock", l, c) = Range(c.objs)
      <3>1. /\ LockedAt("unlock", l, c) = {Order(t)[j] : j \in 1..l.i}
            /\ {Order(t)[j] : j \in 1..Count(t)} = Range(c.objs)
        BY <1>1, <1>2, Parts, OrderedLocks
      <3> QED BY <1>9, <1>11, <3>1
    <2>3. WordMove(t, "unlock", l, c) /\ TakesAt("unlock", l, c) = {} BY <1>4, <1>10, <2>2 DEF TakesAt
    <2>4. Fits(t, "unlock", l, c)
      BY <1>2, <1>9, <1>11 DEF Fits, PlaceAt, ClientPCs, AllPCs, AnyPCs, SignalPCs
    <2> QED BY <1>1, <1>3, <2>1, <2>3, <2>4, ClientStep DEF Served
  <1>12. CASE i # Count(t) /\ UNCHANGED pc /\ SetLoc(t, m)
    <2>1. Moves(t, "take", m, c) BY <1>1, <1>12, Parts, MovesBy
    <2> HIDE DEF m, i, c
    <2>2. WordMove(t, "take", m, c) BY <1>4, <1>10 DEF LockedAt
    <2>3. TakesAt("take", m, c) = {WObj(t, j) : j \in (i + 1)..Count(t)} BY <1>2, <1>9 DEF TakesAt, WObj, c
    <2>4. ASSUME NEW j \in (i + 1)..Count(t) PROVE Signaled(WObj(t, j), t)'
      <3>1. j \in 1..Count(t) /\ j # i /\ j \in i..Count(t) BY <1>2
      <3>2. WObj(t, j) \in Objs /\ WObj(t, j) # o BY <1>2, <3>1
      <3>3. word'[WObj(t, j)] = word[WObj(t, j)]
        <4> HIDE DEF o
        <4> QED BY <1>1, <3>2
      <3>4. WObj(t, j) \in Takes(t) BY <1>1, <3>1 DEF Takes, WObj, i
      <3>5. Signaled(WObj(t, j), t) BY <3>4, Parts DEF TakesOK
      <3>6. Signaled(WObj(t, j), t)' = W(KindOf[WObj(t, j)])!Signaled(word'[WObj(t, j)], t) BY <1>1 DEF Signaled, WObj
      <3> QED BY <3>3, <3>5, <3>6 DEF Signaled
    <2>5. Fits(t, "take", m, c)
      <3>1. m.i \in 1..Count(t) BY <1>2, <1>9, <1>12
      <3> QED BY <1>2, <1>9, <3>1 DEF Fits, PlaceAt, ClientPCs, AllPCs, AnyPCs, SignalPCs
    <2>6. \A p \in TakesAt("take", m, c) : Signaled(p, t)'
      <3> TAKE p \in TakesAt("take", m, c)
      <3>1. PICK j \in (i + 1)..Count(t) : p = WObj(t, j) BY <2>3
      <3>2. WObj(t, j)' = WObj(t, j) BY <1>1 DEF WObj
      <3>3. Signaled(p, t)' = Signaled(WObj(t, j), t)' BY <3>1, <3>2 DEF Signaled
      <3> QED BY <2>4, <3>3
    <2> QED BY <1>1, <1>3, <2>1, <2>2, <2>5, <2>6, ClientStep DEF Served, c
  <1> QED BY <1>11, <1>12 DEF take_all, r

(* The locks go in the opposite order, every one of them.                  *)
LEMMA UnlockAllStep == ASSUME IInv, NEW t \in Threads, unlock_all(t) PROVE IInv'
  <1> DEFINE c == call[t]
             i == loc[t].i
             o == Order(t)[i]
             O(n) == {Order(t)[j] : j \in 1..n}
  <1>1. pc[t] = "unlock" /\ UNCHANGED <<cache_gen, left, srv, queue, slot, reg>> BY DEF unlock_all, ClientOnly
  <1>2. /\ i \in 0..Count(t) /\ Count(t) = Len(c.objs) /\ c.what = "waitall" /\ Count(t) > 0
        /\ c \in CallsOf[t] /\ c \in Calls /\ loc[t] \in Locs /\ Count(t) \in Nat
    BY <1>1, Parts, CallAt DEF PlaceOK, PlaceAt, Calls, Count, AllPCs, Waits
  <1>3. reg[t] = {} /\ ClientTypes' BY <1>1, NotRegistered, Parts DEF ClientTypes
  <1>4. Locked(t) = O(i) BY <1>1, ValuesAt DEF LockedAt, Order
  <1>5. O(0) = {} OBVIOUS
  <1>6. ASSUME i # 0 PROVE /\ i \in 1..Count(t) /\ o \in Objs /\ o \in O(i) /\ O(i - 1) = O(i) \ {o}
                           /\ \A q : LockedAt("unlock", q, c) = O(q.i)
                           /\ word' = [word EXCEPT ![o] = [word[o] EXCEPT !.locked = FALSE]]
                           /\ Like(o, word[o], word[o])
    <2>1. i \in 1..Count(t) BY <1>2, <1>6
    <2>2. /\ O(i) = O(i - 1) \cup {o} /\ o \in Objs /\ O(i - 1) = O(i) \ {o}
          /\ \A q : LockedAt("unlock", q, c) = O(q.i)
      BY <1>1, <2>1, Parts, OrderedLocks
    <2>3. word' = [word EXCEPT ![o] = [word[o] EXCEPT !.locked = FALSE]] BY <1>6 DEF unlock_all
    <2>4. Like(o, word[o], word[o]) BY <2>2, Parts DEF WordTypes, Like, SameFlags
    <2> QED BY <2>1, <2>2, <2>3, <2>4
  <1> HIDE DEF O, c
  <1>8. CASE i <= 1 /\ AfterLocal(t)
    <2> DEFINE l == [loc[t] EXCEPT !.i = 1]
               m == [l EXCEPT !.ret = "none"]
    <2>1. l \in Locs /\ l.i = 1 /\ m \in Locs /\ m.i = 1 BY <1>2 DEF Locs, Rets
    <2>2. \/ Goto(t, "refresh") /\ SetLoc(t, l) /\ UNCHANGED call
          \/ Return(t)
          \/ Goto(t, "tryall") /\ SetLoc(t, m) /\ UNCHANGED call
      BY <1>8 DEF AfterLocal
    <2> HIDE DEF l, m
    <2>3. PICK w \in {"refresh", "idle", "tryall"}, q \in Locs, d \in {c, NoCall} :
            /\ Moves(t, w, q, d) /\ q.i = 1 /\ (w = "idle" => q = Loc0) /\ d = IF w = "idle" THEN NoCall ELSE c
      <3>1. Loc0.i = 1 /\ Loc0 \in Locs BY DEF Loc0, Locs, Rets
      <3>2. CASE Goto(t, "refresh") /\ SetLoc(t, l) /\ UNCHANGED call
        <4>1. Moves(t, "refresh", l, c) BY <3>2, Parts, MovesBy DEF c
        <4> QED BY <4>1, <2>1
      <3>3. CASE Return(t)
        <4>1. Moves(t, "idle", Loc0, NoCall) BY <3>3, Parts, MovesBy
        <4> QED BY <4>1, <3>1
      <3>4. CASE Goto(t, "tryall") /\ SetLoc(t, m) /\ UNCHANGED call
        <4>1. Moves(t, "tryall", m, c) BY <3>4, Parts, MovesBy DEF c
        <4> QED BY <4>1, <2>1
      <3> QED BY <2>2, <3>2, <3>3, <3>4
    <2>4. Fits(t, w, q, d)
      <3>1. CASE w = "idle" BY <3>1, <2>3, IdleFits
      <3>2. CASE w # "idle"
        <4>1. 1 \in 1..Count(t) BY <1>2
        <4> QED BY <1>2, <2>3, <3>2, <4>1 DEF Fits, PlaceAt, ClientPCs, AllPCs, AnyPCs, SignalPCs
      <3> QED BY <3>1, <3>2
    <2>5. LockedAt(w, q, d) = {} /\ TakesAt(w, q, d) = {} BY Empty DEF Holding
    <2>6. WordMove(t, w, q, d)
      <3>1. CASE i = 0
        <4>1. UNCHANGED word BY <3>1 DEF unlock_all
        <4> QED BY <1>4, <1>5, <2>5, <3>1, <4>1 DEF WordMove
      <3>2. CASE i # 0
        <4>1. i - 1 = 0 BY <1>2, <1>8, <3>2
        <4>2. LockedAt(w, q, d) = Locked(t) \ {o} /\ o \in Locked(t) BY <1>4, <1>5, <1>6, <2>5, <3>2, <4>1
        <4>3. LockedAt(w, q, d) = IF FALSE THEN Locked(t) \cup {o} ELSE Locked(t) \ {o} BY <4>2
        <4>4. FALSE \in BOOLEAN OBVIOUS
        <4> HIDE DEF o
        <4> QED BY <1>6, <3>2, <4>2, <4>3, <4>4, Parts, WordWritten
      <3> QED BY <3>1, <3>2
    <2> QED BY <1>1, <1>3, <2>3, <2>4, <2>5, <2>6, ClientStep DEF Served
  <1>9. CASE i > 1 /\ SetLoc(t, [loc[t] EXCEPT !.i = i - 1]) /\ UNCHANGED <<pc, call>>
    <2> DEFINE l == [loc[t] EXCEPT !.i = i - 1]
    <2>1. Moves(t, "unlock", l, c) BY <1>1, <1>9, Parts, MovesBy DEF c
    <2>2. i - 1 \in Nat /\ i - 1 \in 0..Count(t) /\ i # 0 BY <1>2, <1>9
    <2>3. l \in Locs /\ l.i = i - 1 BY <1>2, <2>2 DEF Locs
    <2> HIDE DEF l
    <2>4. LockedAt("unlock", l, c) = Locked(t) \ {o} /\ o \in Locked(t) BY <1>4, <1>6, <2>2, <2>3
    <2>5. WordMove(t, "unlock", l, c)
      <3>1. LockedAt("unlock", l, c) = IF FALSE THEN Locked(t) \cup {o} ELSE Locked(t) \ {o} BY <2>4
      <3>2. FALSE \in BOOLEAN OBVIOUS
      <3> HIDE DEF o
      <3> QED BY <1>6, <2>2, <2>4, <3>1, <3>2, Parts, WordWritten
    <2>6. Fits(t, "unlock", l, c) /\ TakesAt("unlock", l, c) = {}
      BY <1>2, <2>2, <2>3 DEF Fits, PlaceAt, ClientPCs, AllPCs, AnyPCs, SignalPCs, TakesAt
    <2> QED BY <1>1, <1>3, <2>1, <2>5, <2>6, ClientStep DEF Served
  <1>10. i <= 1 \/ i > 1 BY <1>2
  <1> QED BY <1>8, <1>9, <1>10 DEF unlock_all

LEMMA RefreshAllStep == ASSUME IInv, NEW t \in Threads, refresh_all(t) PROVE IInv'
  <1> DEFINE c == call[t]
             i == loc[t].i
             l == [loc[t] EXCEPT !.i = i + 1]
  <1>1. pc[t] = "refresh" /\ UNCHANGED <<word, left, srv, queue, slot, reg>> BY DEF refresh_all, ClientOnly
  <1>2. At(t) \in Objs /\ i \in 1..Count(t) /\ Count(t) \in Nat /\ Count(t) = Len(c.objs)
    BY <1>1, Parts, ObjectAt DEF Count
  <1>3. c \in CallsOf[t] /\ c \in Calls /\ loc[t] \in Locs /\ c.what = "waitall"
    BY <1>1, Parts, CallAt DEF PlaceOK, PlaceAt, Calls, AllPCs
  <1>4. ClientTypes' BY <1>1, <1>2, Parts, CacheTypes DEF refresh_all
  <1>5. reg[t] = {} BY <1>1, NotRegistered
  <1>6. CASE Return(t) BY <1>1, <1>4, <1>5, <1>6, ReturnStep DEF Served, Holding
  <1>7. CASE i # Count(t) /\ SetLoc(t, l) /\ UNCHANGED <<pc, call>>
    <2>1. Moves(t, "refresh", l, c) BY <1>1, <1>7, Parts, MovesBy
    <2>2. i + 1 \in Nat /\ i + 1 \in 1..Count(t) BY <1>2, <1>7
    <2>3. l \in Locs /\ l.i = i + 1 BY <1>3, <2>2 DEF Locs
    <2> HIDE DEF l
    <2>4. Fits(t, "refresh", l, c)
      BY <1>2, <1>3, <2>2, <2>3 DEF Fits, PlaceAt, ClientPCs, AllPCs, AnyPCs, SignalPCs
    <2> QED BY <1>1, <1>4, <1>5, <2>1, <2>4, QuietStep DEF Served, Holding
  <1> QED BY <1>6, <1>7 DEF refresh_all

LEMMA AnyLockStep == ASSUME IInv, NEW t \in Threads, any_lock(t) PROVE IInv'
  <1> DEFINE o == At(t)
             c == call[t]
  <1>1. pc[t] = "any_lock" /\ UNCHANGED <<cache_gen, left, srv, queue, slot, reg>> /\ ClientTypes'
    BY Parts DEF any_lock, ClientOnly, ClientTypes
  <1>2. CASE AnyDone(t, "bail") /\ UNCHANGED word BY <1>1, <1>2, AnyDoneStep DEF AnyLoop, Rets
  <1>3. CASE /\ ~word[o].server /\ ~word[o].locked /\ word' = [word EXCEPT ![o].locked = TRUE]
             /\ Goto(t, "any_consume") /\ UNCHANGED <<call, loc>>
    <2>1. Moves(t, "any_consume", loc[t], c) BY <1>3, Parts, MovesBy
    <2>2. Fits(t, "any_consume", loc[t], c)
      BY <1>1, Parts, FitsNow DEF Fits, PlaceAt, ClientPCs, AllPCs, AnyPCs, SignalPCs
    <2>3. reg[t] # {} => RegisteredAt("any_consume", loc[t], c) BY <1>1, NotRegistered DEF RegisteredAt
    <2>4. Locked(t) = {} BY <1>1, ValuesAt, Empty DEF Holding
    <2>5. LockedAt("any_consume", loc[t], c) = {o} /\ TakesAt("any_consume", loc[t], c) = {}
      BY DEF LockedAt, TakesAt, At
    <2>6. WordMove(t, "any_consume", loc[t], c)
      <3>1. o \in Objs BY <1>1, Parts, ObjectAt
      <3>2. Like(o, word[o], word[o]) BY <3>1, Parts DEF WordTypes, Like, SameFlags
      <3>3. word' = [word EXCEPT ![o] = [word[o] EXCEPT !.locked = TRUE]] BY <1>3
      <3>4. TRUE \in BOOLEAN OBVIOUS
      <3>5. LockedAt("any_consume", loc[t], c) = IF TRUE THEN Locked(t) \cup {o} ELSE Locked(t) \ {o} BY <2>4, <2>5
      <3> HIDE DEF o, c
      <3> QED BY <1>3, <3>1, <3>2, <3>3, <3>4, <3>5, Parts, WordWritten
    <2> QED BY <1>1, <2>1, <2>2, <2>3, <2>5, <2>6, ClientStep DEF Served
  <1> QED BY <1>2, <1>3 DEF any_lock

(* One object is consumed, or none, and its lock is given back.            *)
LEMMA AnyConsumeStep == ASSUME IInv, NEW t \in Threads, any_consume(t) PROVE IInv'
  <1> DEFINE o == At(t)
             c == call[t]
             i == loc[t].i
             taken == Signaled(o, t) /\ ~Full(o, t)
             now == IF taken THEN Consumed(o, t) ELSE word[o]
             r == IF taken THEN ConsumedStatus(o) ELSE IF Full(o, t) THEN "bail" ELSE "timeout"
  <1>1. /\ pc[t] = "any_consume" /\ UNCHANGED <<cache_gen, left, srv, queue, slot, reg>> /\ ClientTypes'
        /\ word' = [word EXCEPT ![o] = [now EXCEPT !.locked = FALSE]]
        /\ AnyNext(t, r)
    BY Parts DEF any_consume, ClientOnly, ClientTypes
  <1>2. o \in Objs /\ i \in 1..Count(t) /\ Count(t) \in Nat /\ Count(t) = Len(c.objs)
    BY <1>1, Parts, ObjectAt DEF Count
  <1>3. c \in CallsOf[t] /\ c \in Calls /\ loc[t] \in Locs /\ c.what = "waitany"
    BY <1>1, Parts, CallAt, SMTT(20) DEF PlaceOK, PlaceAt, Calls, AnyPCs
  <1>4. Locked(t) = {o} BY <1>1, ValuesAt DEF LockedAt, At
  <1>5. Like(o, now, word[o])
    <2>1. word[o] \in Words(o) BY <1>2, Parts DEF WordTypes
    <2>2. Like(o, Consumed(o, t), word[o]) BY <1>2, <2>1, ConsumedWord
    <2>3. Like(o, word[o], word[o]) BY <2>1 DEF Like, SameFlags
    <2> QED BY <2>2, <2>3
  <1>6. r \in Rets BY StatusTypes DEF Rets, ConsumedStatus, W!ConsumedStatus
  <1> HIDE DEF now, r
  <1>7. ASSUME NEW w, w \notin Holding, NEW l, NEW d PROVE WordMove(t, w, l, d) /\ TakesAt(w, l, d) = {}
    <2>1. LockedAt(w, l, d) = {} /\ TakesAt(w, l, d) = {} BY <1>7, Empty
    <2>2. LockedAt(w, l, d) = IF FALSE THEN Locked(t) \cup {o} ELSE Locked(t) \ {o} BY <1>4, <2>1
    <2>3. FALSE \in BOOLEAN /\ o \in Locked(t) BY <1>4
    <2> HIDE DEF o
    <2> QED BY <1>1, <1>2, <1>5, <2>1, <2>2, <2>3, Parts, WordWritten
  <1>8. reg[t] # {} => loc[t].phase = 2 /\ (c.what = "waitall" => c.timeout # "zero")
    BY <1>1, NotRegistered DEF RegisteredAt
  <1>9. CASE i < Count(t) /\ Goto(t, "any_check") /\ SetLoc(t, [loc[t] EXCEPT !.i = i + 1]) /\ UNCHANGED call
    <2> DEFINE l == [loc[t] EXCEPT !.i = i + 1]
    <2>1. Moves(t, "any_check", l, c) BY <1>9, Parts, MovesBy
    <2>2. i + 1 \in Nat /\ i + 1 \in 1..Count(t) BY <1>2, <1>9
    <2>3. l \in Locs /\ l.i = i + 1 /\ l.phase = loc[t].phase BY <1>3, <2>2 DEF Locs
    <2> HIDE DEF l
    <2>4. Fits(t, "any_check", l, c)
      BY <1>2, <1>3, <2>2, <2>3 DEF Fits, PlaceAt, ClientPCs, AllPCs, AnyPCs, SignalPCs
    <2>5. reg[t] # {} => RegisteredAt("any_check", l, c) BY <1>8, <2>3 DEF RegisteredAt
    <2> QED BY <1>1, <1>7, <2>1, <2>4, <2>5, ClientStep DEF Served, Holding
  <1>10. CASE Goto(t, "any_refresh") /\ SetLoc(t, [loc[t] EXCEPT !.ret = r]) /\ UNCHANGED call
    <2> DEFINE l == [loc[t] EXCEPT !.ret = r]
    <2>1. Moves(t, "any_refresh", l, c) BY <1>10, Parts, MovesBy
    <2>2. l \in Locs /\ l.i = i /\ l.phase = loc[t].phase BY <1>3, <1>6 DEF Locs
    <2> HIDE DEF l
    <2>3. Fits(t, "any_refresh", l, c)
      BY <1>2, <1>3, <2>2 DEF Fits, PlaceAt, ClientPCs, AllPCs, AnyPCs, SignalPCs
    <2>4. reg[t] # {} => RegisteredAt("any_refresh", l, c) BY <1>8, <2>2 DEF RegisteredAt
    <2> QED BY <1>1, <1>7, <2>1, <2>3, <2>4, ClientStep DEF Served, Holding
  <1>11. CASE AnyDone(t, r)
    <2>1. PICK w \in {"sleep", "unregister", "gather", "request", "register", "return"} : \E l :
             /\ Moves(t, w, l, call[t]) /\ Fits(t, w, l, call[t])
             /\ reg[t] # {} => RegisteredAt(w, l, call[t])
             /\ w = "register" => reg[t] = {}
      BY <1>1, <1>6, <1>11, Parts, AnyEnds DEF AnyLoop
    <2>2. w \notin Holding \cup {"queued", "served"} BY DEF Holding
    <2> QED BY <1>1, <1>7, <2>1, <2>2, ClientStep DEF Served
  <1> QED BY <1>1, <1>9, <1>10, <1>11 DEF AnyNext

-----------------------------------------------------------------------------
(* Sleeping and waking.                                                    *)
LEMMA SleeperMoves ==
  ASSUME IInv, NEW t \in Threads, pc[t] \in {"sleep", "asleep"}, NEW w \in {"asleep", "unregister", "tryall"},
         NEW r \in Rets, UNCHANGED <<word, srv, queue, slot, reg>>, ClientTypes', UNCHANGED call, Goto(t, w),
         (UNCHANGED loc /\ w # "unregister") \/ SetLoc(t, [loc[t] EXCEPT !.ret = r]),
         w = "tryall" => call[t].what = "waitall",
         w = "unregister" /\ r = "woken" => call[t].what = "waitany"
  PROVE  IInv'
  <1>1. /\ call[t].what \in {"waitall", "waitany"} /\ call[t] \in CallsOf[t] /\ call[t] \in Calls /\ loc[t] \in Locs
        /\ pc[t] \notin Served \cup Holding
    BY Parts, CallAt DEF PlaceOK, PlaceAt, Calls, Served, Holding
  <1>2. PICK l \in Locs : Moves(t, w, l, call[t]) /\ l.i = 1 /\ (w = "unregister" => l.ret = r)
    <2> DEFINE m == [loc[t] EXCEPT !.ret = r]
    <2>1. m \in Locs /\ m.i = loc[t].i /\ m.ret = r BY <1>1 DEF Locs
    <2>2. loc[t].i = 1 BY Parts DEF PlaceOK, PlaceAt
    <2>3. SetLoc(t, m) => Moves(t, w, m, call[t]) BY Parts, MovesBy
    <2>4. UNCHANGED loc => Moves(t, w, loc[t], call[t]) BY Parts, MovesBy
    <2> HIDE DEF m
    <2>5. CASE UNCHANGED loc /\ w # "unregister" BY <1>1, <2>2, <2>4, <2>5
    <2>6. CASE SetLoc(t, m) BY <2>1, <2>2, <2>3, <2>6
    <2> QED BY <2>5, <2>6 DEF m
  <1>3. Fits(t, w, l, call[t]) BY <1>1, <1>2 DEF Fits, PlaceAt, ClientPCs, AllPCs, AnyPCs, SignalPCs
  <1>4. reg[t] # {} => RegisteredAt(w, l, call[t]) BY NotRegistered DEF RegisteredAt
  <1> QED BY <1>1, <1>2, <1>3, <1>4, QuietStep DEF Holding

LEMMA WokenStep == ASSUME IInv, NEW t \in Threads, pc[t] \in {"sleep", "asleep"}, Woken(t) PROVE IInv'
  <1>1. UNCHANGED <<word, call, srv, queue, slot, reg>> /\ ClientTypes' BY Parts DEF Woken, ClientOnly, ClientTypes
  <1>2. \/ call[t].what = "waitall" /\ Goto(t, "tryall") /\ UNCHANGED loc
        \/ call[t].what # "waitall" /\ Goto(t, "unregister") /\ SetLoc(t, [loc[t] EXCEPT !.ret = "woken"])
    BY DEF Woken
  <1>3. "woken" \in Rets BY DEF Rets
  <1>4. call[t].what # "waitall" => call[t].what = "waitany" BY Parts DEF PlaceOK, PlaceAt
  <1> QED BY <1>1, <1>2, <1>3, <1>4, SleeperMoves

LEMMA WaitSlotStep == ASSUME IInv, NEW t \in Threads, wait_slot(t) PROVE IInv'
  <1>1. CASE Goto(t, "asleep") /\ UNCHANGED <<word, call, loc, cache_gen>> /\ ClientOnly
    <2>1. ClientTypes' BY <1>1, Parts DEF ClientOnly, ClientTypes
    <2>2. "woken" \in Rets BY DEF Rets
    <2> QED BY <1>1, <2>1, <2>2, SleeperMoves DEF wait_slot, ClientOnly
  <1> QED BY <1>1, WokenStep DEF wait_slot

LEMMA WaitTimeoutStep == ASSUME IInv, NEW t \in Threads, wait_timeout(t) PROVE IInv'
  <1>1. UNCHANGED <<word, srv, queue, slot, reg>> /\ ClientTypes' /\ pc[t] \in {"sleep", "asleep"}
    BY Parts DEF wait_timeout, ClientOnly, ClientTypes
  <1>2. PICK r \in Rets : GiveUp(t, r) /\ r # "woken" BY DEF wait_timeout, Rets
  <1> QED BY <1>1, <1>2, SleeperMoves DEF GiveUp

-----------------------------------------------------------------------------
(* Signaling.                                                              *)
LEMMA SignalAt ==
  ASSUME IInv, NEW t \in Threads, pc[t] \in SignalPCs \ {"notify"}
  PROVE  /\ call[t] \in CallsOf[t] /\ call[t] \in Call /\ call[t] \in Calls /\ call[t].what \in {"signal", "reset"}
         /\ call[t].obj \in Objs /\ word[call[t].obj] \in Words(call[t].obj) /\ loc[t] \in Locs /\ reg[t] = {}
         /\ \A w \in SignalPCs \cup {"return"}, l \in Locs : Fits(t, w, l, call[t])
  <1>1. /\ call[t] \in CallsOf[t] /\ call[t] \in Call /\ call[t] \in Calls /\ call[t].what \in {"signal", "reset"}
        /\ call[t].obj \in Objs /\ loc[t] \in Locs
    BY Parts, CallAt DEF PlaceOK, PlaceAt, Calls, SignalPCs
  <1>2. word[call[t].obj] \in Words(call[t].obj) BY <1>1, Parts DEF WordTypes
  <1>3. reg[t] = {} BY NotRegistered DEF SignalPCs
  <1>4. \A w \in SignalPCs \cup {"return"}, l \in Locs : Fits(t, w, l, call[t])
    BY <1>1 DEF Fits, PlaceAt, ClientPCs, AllPCs, AnyPCs, SignalPCs
  <1> QED BY <1>1, <1>2, <1>3, <1>4

LEMMA SignalCheckStep == ASSUME IInv, NEW t \in Threads, signal_check(t) PROVE IInv'
  <1> DEFINE o == call[t].obj
             l == [loc[t] EXCEPT !.gens[o] = cache_gen[o]]
  <1>1. pc[t] = "signal" /\ UNCHANGED <<word, cache_gen, left, srv, queue, slot, reg>> /\ ClientTypes'
    BY Parts DEF signal_check, ClientOnly, ClientTypes
  <1>2. /\ o \in Objs /\ loc[t] \in Locs /\ reg[t] = {}
        /\ \A w \in SignalPCs \cup {"return"}, q \in Locs : Fits(t, w, q, call[t])
    BY <1>1, SignalAt DEF SignalPCs
  <1>3. CASE Fallback(t) BY <1>1, <1>2, <1>3, FallbackStep DEF Served, Holding
  <1>4. CASE Goto(t, "signal_lock") /\ UNCHANGED call /\ SetLoc(t, l)
    <2>1. Moves(t, "signal_lock", l, call[t]) BY <1>4, Parts, MovesBy
    <2>2. l \in Locs
      <3>1. cache_gen[o] \in Nat BY <1>2, Parts DEF ClientTypes
      <3> HIDE DEF o
      <3> QED BY <1>2, <3>1 DEF Locs
    <2> HIDE DEF l
    <2>3. Fits(t, "signal_lock", l, call[t]) BY <1>2, <2>2 DEF SignalPCs
    <2> QED BY <1>1, <1>2, <2>1, <2>3, QuietStep DEF Served, Holding
  <1> QED BY <1>3, <1>4 DEF signal_check

LEMMA SignalLockStep == ASSUME IInv, NEW t \in Threads, signal_lock(t) PROVE IInv'
  <1> DEFINE o == call[t].obj
             c == call[t]
  <1>1. pc[t] = "signal_lock" /\ UNCHANGED <<cache_gen, left, srv, queue, slot, reg>> /\ ClientTypes'
    BY Parts DEF signal_lock, ClientOnly, ClientTypes
  <1>2. /\ o \in Objs /\ word[o] \in Words(o) /\ loc[t] \in Locs /\ reg[t] = {}
        /\ \A w \in SignalPCs \cup {"return"}, q \in Locs : Fits(t, w, q, c)
    BY <1>1, SignalAt DEF SignalPCs
  <1>3. CASE Fallback(t) /\ UNCHANGED word BY <1>1, <1>2, <1>3, FallbackStep DEF Served, Holding
  <1>4. CASE /\ ~W(KindOf[o])!HasWaiters(word[o]) /\ ~word[o].locked
             /\ word' = [word EXCEPT ![o].locked = TRUE]
             /\ Goto(t, "signal_write") /\ UNCHANGED <<call, loc>>
    <2>1. Moves(t, "signal_write", loc[t], c) BY <1>4, Parts, MovesBy
    <2>2. Fits(t, "signal_write", loc[t], c) BY <1>2 DEF SignalPCs
    <2>3. LockedAt("signal_write", loc[t], c) = {o} /\ TakesAt("signal_write", loc[t], c) = {}
      BY DEF LockedAt, TakesAt
    <2>4. Locked(t) = {} BY <1>1, ValuesAt, Empty DEF Holding
    <2>5. ~word[o].server BY <1>4 DEF W!HasWaiters
    <2>6. WordMove(t, "signal_write", loc[t], c)
      <3>1. Like(o, word[o], word[o]) BY <1>2 DEF Like, SameFlags
      <3>2. word' = [word EXCEPT ![o] = [word[o] EXCEPT !.locked = TRUE]] BY <1>4
      <3>3. TRUE \in BOOLEAN OBVIOUS
      <3>4. LockedAt("signal_write", loc[t], c) = IF TRUE THEN Locked(t) \cup {o} ELSE Locked(t) \ {o} BY <2>3, <2>4
      <3>5. ~word[o].locked BY <1>4
      <3> HIDE DEF o, c
      <3> QED BY <1>2, <2>5, <3>1, <3>2, <3>3, <3>4, <3>5, Parts, WordWritten
    <2> QED BY <1>1, <1>2, <2>1, <2>2, <2>3, <2>6, ClientStep DEF Served
  <1> QED BY <1>3, <1>4 DEF signal_lock

(* The object is signaled under its lock, and the lock given back.         *)
LEMMA SignalWriteStep == ASSUME IInv, NEW t \in Threads, signal_write(t) PROVE IInv'
  <1> DEFINE o == call[t].obj
             c == call[t]
  <1>1. pc[t] = "signal_write" /\ UNCHANGED <<cache_gen, left, srv, queue, slot, reg>> /\ ClientTypes'
    BY Parts DEF signal_write, ClientOnly, ClientTypes
  <1>2. /\ o \in Objs /\ word[o] \in Words(o) /\ loc[t] \in Locs /\ reg[t] = {} /\ c \in Call
        /\ \A w \in SignalPCs \cup {"return"}, q \in Locs : Fits(t, w, q, c)
    BY <1>1, SignalAt DEF SignalPCs
  <1>3. Locked(t) = {o} BY <1>1, ValuesAt DEF LockedAt
  <1>4. PICK y : Like(o, y, word[o]) /\ word' = [word EXCEPT ![o] = [y EXCEPT !.locked = FALSE]]
    <2>1. Like(o, word[o], word[o]) BY <1>2 DEF Like, SameFlags
    <2>2. Like(o, Released(t), word[o]) BY <1>2, ReleasedWord
    <2>3. CASE Refused(t)
      <3>1. word' = [word EXCEPT ![o] = [word[o] EXCEPT !.locked = FALSE]] BY <2>3 DEF signal_write
      <3> QED BY <2>1, <3>1
    <2>4. CASE ~Refused(t)
      <3>1. word' = [word EXCEPT ![o] = [Released(t) EXCEPT !.locked = FALSE]] BY <2>4 DEF signal_write
      <3> QED BY <2>2, <3>1
    <2> QED BY <2>3, <2>4
  <1>5. PICK w \in {"return", "signal_multi"}, l \in Locs : Moves(t, w, l, c)
    <2>1. \A r \in {"error", "success"} : [loc[t] EXCEPT !.ret = r] \in Locs BY <1>2 DEF Locs, Rets
    <2>2. \/ \E r \in {"error", "success"} : Finish(t, r)
          \/ Goto(t, "signal_multi") /\ UNCHANGED call /\ SetLoc(t, [loc[t] EXCEPT !.ret = "success"])
      BY DEF signal_write
    <2>3. ASSUME NEW r \in {"error", "success"}, Finish(t, r) PROVE Moves(t, "return", [loc[t] EXCEPT !.ret = r], c)
      BY <2>3, Parts, MovesBy
    <2>4. ASSUME Goto(t, "signal_multi") /\ UNCHANGED call /\ SetLoc(t, [loc[t] EXCEPT !.ret = "success"])
          PROVE  Moves(t, "signal_multi", [loc[t] EXCEPT !.ret = "success"], c)
      BY <2>4, Parts, MovesBy
    <2> QED BY <2>1, <2>2, <2>3, <2>4
  <1>6. LockedAt(w, l, c) = {} /\ TakesAt(w, l, c) = {} BY Empty DEF Holding
  <1>7. Fits(t, w, l, c) BY <1>2 DEF SignalPCs
  <1>8. WordMove(t, w, l, c)
    <2>1. LockedAt(w, l, c) = IF FALSE THEN Locked(t) \cup {o} ELSE Locked(t) \ {o} BY <1>3, <1>6
    <2>2. FALSE \in BOOLEAN /\ o \in Locked(t) BY <1>3
    <2> HIDE DEF o, c
    <2> QED BY <1>2, <1>4, <2>1, <2>2, Parts, WordWritten
  <1> QED BY <1>1, <1>2, <1>5, <1>6, <1>7, <1>8, ClientStep DEF Served

LEMMA SignalMultiStep == ASSUME IInv, NEW t \in Threads, signal_multi(t) PROVE IInv'
  <1>1. pc[t] = "signal_multi" /\ UNCHANGED <<word, left, cache_gen, srv, queue, slot, reg>> /\ ClientTypes'
    BY Parts DEF signal_multi, ClientOnly, ClientTypes
  <1>2. loc[t] \in Locs /\ reg[t] = {} /\ \A w \in SignalPCs \cup {"return"}, q \in Locs : Fits(t, w, q, call[t])
    BY <1>1, SignalAt DEF SignalPCs
  <1>3. CASE Return(t) BY <1>1, <1>2, <1>3, ReturnStep DEF Served, Holding
  <1>4. CASE Goto(t, "notify") /\ UNCHANGED <<call, loc>>
    <2>1. Moves(t, "notify", loc[t], call[t]) BY <1>4, Parts, MovesBy
    <2>2. Fits(t, "notify", loc[t], call[t]) BY <1>2 DEF SignalPCs
    <2> QED BY <1>1, <1>2, <2>1, <2>2, QuietStep DEF Served, Holding
  <1> QED BY <1>3, <1>4 DEF signal_multi

LEMMA ThreadStepKept == ASSUME IInv, NEW t \in Threads, ThreadStep(t) \/ wait_interrupted(t) PROVE IInv'
  <1>1. CASE slot_woken(t) \/ wait_interrupted(t) BY <1>1, WokenStep DEF slot_woken, wait_interrupted
  <1> QED BY <1>1, ReturnedStep, GatherStep, LockAllStep, EvalAllStep, TakeAllStep, UnlockAllStep, RefreshAllStep,
             AnyCheckStep, AnyLockStep, AnyConsumeStep, AnyRefreshStep, WaitSlotStep,
             SignalCheckStep, SignalLockStep, SignalWriteStep, SignalMultiStep DEF ThreadStep

-----------------------------------------------------------------------------
(* Lists and sets of wineserver.                                           *)
(* The loops over objects go by their index, from the least.               *)
LEMMA MinIn == ASSUME NEW S \in SUBSET Objs, S # {} PROVE Min(S) \in S
  <1>1. S \subseteq Nat BY ObjsAssumption
  <1>2. PICK x \in S : \A y \in S : <<y, x>> \notin OpToRel(<, Nat)
    BY <1>1, NatLessThanWellFounded, WFMin
  <1>3. \A y \in S : ~(y < x) BY <1>1, <1>2 DEF OpToRel
  <1>4. \A y \in S : x <= y BY <1>1, <1>3
  <1> QED BY <1>4 DEF Min

(* list_remove of an entry that is in the list once.                       *)
LEMMA Removed ==
  ASSUME NEW s \in Seq(Threads), NEW k \in 1..Len(s), \A j, m \in 1..Len(s) : s[j] = s[m] => j = m
  PROVE  /\ RemoveFirst(s, s[k]) \in Seq(Threads)
         /\ \A u : (\E j \in 1..Len(RemoveFirst(s, s[k])) : RemoveFirst(s, s[k])[j] = u)
                     <=> u # s[k] /\ \E j \in 1..Len(s) : s[j] = u
         /\ \A j, m \in 1..Len(RemoveFirst(s, s[k])) : RemoveFirst(s, s[k])[j] = RemoveFirst(s, s[k])[m] => j = m
  <1> DEFINE t == s[k]
             n == Len(s)
             a == SubSeq(s, 1, k - 1)
             b == SubSeq(s, k + 1, n)
             r == a \o b
  <1>1. RemoveFirst(s, t) = r
    <2>1. SelectInSeq(s, LAMBDA v : v = t) = k
      <3>1. {i \in 1..Len(s) : s[i] = t} = {k} OBVIOUS
      <3>2. Min({k}) = k BY DEF Min
      <3> QED BY <3>1, <3>2 DEF SelectInSeq
    <2> QED BY <2>1 DEF RemoveFirst, RemoveAt
  <1>2. n \in Nat /\ k \in Nat /\ k >= 1 /\ k <= n /\ \A j \in 1..n : s[j] \in Threads OBVIOUS
  <1>3. a \in Seq(Threads) /\ Len(a) = k - 1 /\ \A j \in 1..(k - 1) : a[j] = s[j]
    <2>1. 1 \in Int /\ k - 1 \in Int /\ \A j \in 1..(k - 1) : s[j] \in Threads BY <1>2
    <2>2. /\ a \in Seq(Threads) /\ Len(a) = (IF 1 <= k - 1 THEN k - 1 - 1 + 1 ELSE 0)
          /\ \A j \in 1..(k - 1 - 1 + 1) : a[j] = s[1 + j - 1]
      BY <2>1, SubSeqProperties
    <2> HIDE DEF a
    <2> QED BY <1>2, <2>2
  <1>4. b \in Seq(Threads) /\ Len(b) = n - k /\ \A j \in 1..(n - k) : b[j] = s[k + j]
    <2>1. k + 1 \in Int /\ n \in Int /\ \A j \in (k + 1)..n : s[j] \in Threads BY <1>2
    <2>2. /\ b \in Seq(Threads) /\ Len(b) = (IF k + 1 <= n THEN n - (k + 1) + 1 ELSE 0)
          /\ \A j \in 1..(n - (k + 1) + 1) : b[j] = s[(k + 1) + j - 1]
      BY <2>1, SubSeqProperties
    <2> HIDE DEF b, n
    <2> QED BY <1>2, <2>2
  <1>5. /\ r \in Seq(Threads) /\ Len(r) = n - 1
        /\ \A j \in 1..(n - 1) : r[j] = IF j < k THEN s[j] ELSE s[j + 1]
    <2>1. r \in Seq(Threads) /\ Len(r) = Len(a) + Len(b)
          /\ \A j \in 1..(Len(a) + Len(b)) : r[j] = IF j <= Len(a) THEN a[j] ELSE b[j - Len(a)]
      <3>1. a \in Seq(Threads) /\ b \in Seq(Threads) BY <1>3, <1>4
      <3> HIDE DEF a, b
      <3>2. /\ a \o b \in Seq(Threads) /\ Len(a \o b) = Len(a) + Len(b)
            /\ \A i \in 1 .. Len(a) + Len(b) : (a \o b)[i] = IF i <= Len(a) THEN a[i] ELSE b[i - Len(a)]
        BY <3>1, ConcatProperties
      <3> QED BY <3>2
    <2> HIDE DEF a, b, r, n
    <2>2. Len(a) + Len(b) = n - 1 BY <1>2, <1>3, <1>4
    <2>3. ASSUME NEW j \in 1..(n - 1) PROVE r[j] = IF j < k THEN s[j] ELSE s[j + 1]
      <3>1. j \in Nat /\ j >= 1 /\ j <= n - 1 BY <1>2
      <3>2. r[j] = IF j <= k - 1 THEN a[j] ELSE b[j - (k - 1)] BY <1>3, <2>1, <2>2
      <3>3. CASE j < k
        <4>1. j \in 1..(k - 1) /\ j <= k - 1 BY <1>2, <3>1, <3>3
        <4> QED BY <1>3, <3>2, <3>3, <4>1
      <3>4. CASE ~(j < k)
        <4>1. j - (k - 1) \in 1..(n - k) /\ ~(j <= k - 1) /\ k + (j - (k - 1)) = j + 1 BY <1>2, <3>1, <3>4
        <4> QED BY <1>4, <3>2, <3>4, <4>1
      <3> QED BY <3>3, <3>4
    <2> QED BY <2>1, <2>2, <2>3
  <1> HIDE DEF r, n
  <1>6. ASSUME NEW j \in 1..(n - 1) PROVE \E m \in 1..n : m # k /\ r[j] = s[m]
    <2>1. CASE j < k
      <3>1. j \in 1..n /\ j # k BY <1>2, <2>1
      <3> QED BY <1>5, <2>1, <3>1
    <2>2. CASE ~(j < k)
      <3>1. j + 1 \in 1..n /\ j + 1 # k BY <1>2, <2>2
      <3> QED BY <1>5, <2>2, <3>1
    <2> QED BY <2>1, <2>2
  <1>7. ASSUME NEW m \in 1..n, m # k PROVE \E j \in 1..(n - 1) : r[j] = s[m]
    <2>1. CASE m < k
      <3>1. m \in 1..(n - 1) BY <1>2, <2>1
      <3> QED BY <1>5, <2>1, <3>1
    <2>2. CASE ~(m < k)
      <3>1. m - 1 \in 1..(n - 1) /\ ~(m - 1 < k) /\ m - 1 + 1 = m BY <1>2, <1>7, <2>2
      <3> QED BY <1>5, <3>1
    <2> QED BY <2>1, <2>2
  <1>8. \A u : (\E j \in 1..(n - 1) : r[j] = u) <=> u # t /\ \E j \in 1..n : s[j] = u
    <2> TAKE u
    <2>1. ASSUME NEW j \in 1..(n - 1), r[j] = u PROVE u # t /\ \E m \in 1..n : s[m] = u
      <3>1. PICK m \in 1..n : m # k /\ r[j] = s[m] BY <1>6
      <3> QED BY <2>1, <3>1 DEF n
    <2>2. ASSUME u # t, NEW m \in 1..n, s[m] = u PROVE \E j \in 1..(n - 1) : r[j] = u BY <1>7, <2>2
    <2> QED BY <2>1, <2>2
  <1>9. ASSUME NEW j \in 1..(n - 1), NEW m \in 1..(n - 1), r[j] = r[m] PROVE j = m
    <2> DEFINE f(i) == IF i < k THEN i ELSE i + 1
    <2>1. f(j) \in 1..n /\ f(m) \in 1..n BY <1>2
    <2>2. r[j] = s[f(j)] /\ r[m] = s[f(m)] BY <1>5
    <2>3. f(j) = f(m)
      <3> HIDE DEF f
      <3> QED BY <1>9, <2>1, <2>2 DEF n
    <2> QED BY <1>2, <2>3
  <1> QED BY <1>1, <1>5, <1>8, <1>9 DEF n

-----------------------------------------------------------------------------
(* The steps of wineserver.                                                *)

(* What wineserver does to words: it leaves STATE_LOCKED alone, and the    *)
(* count or owner of what is locked.                                       *)
Calm == \A o \in Objs : /\ word'[o].locked = word[o].locked
                        /\ word[o].locked => word'[o].low = word[o].low

(* What it does to threads: one that it serves goes on.                    *)
Stays == UNCHANGED <<pc, loc, call>>
Serves(u, w, l, c) == /\ Moves(u, w, l, c) /\ Fits(u, w, l, c)
                      /\ pc[u] \in Served /\ w \notin Holding
Alone == ThreadTypes' /\ PlaceOK' /\ \A t \in Threads : Locked(t)' = Locked(t) /\ Takes(t)' = Takes(t)

LEMMA StaysAlone == ASSUME IInv, Stays PROVE Alone
  <1>1. ThreadTypes' /\ PlaceOK' BY Parts DEF Stays, ThreadTypes, PlaceOK
  <1>2. \A t \in Threads : Locked(t)' = Locked(t) /\ Takes(t)' = Takes(t)
    BY DEF Stays, Locked, Takes, Order, At, Count
  <1> QED BY <1>1, <1>2 DEF Alone

LEMMA ServesAlone == ASSUME IInv, NEW u \in Threads, NEW w, NEW l, NEW c, Serves(u, w, l, c) PROVE Alone
  <1>1. ThreadTypes' /\ PlaceOK' BY Parts, FitsPlace DEF Serves
  <1>2. Locked(u) = {} /\ Takes(u) = {} BY Parts, FitsNow DEF Serves
  <1>3. LockedAt(w, l, c) = {} /\ TakesAt(w, l, c) = {} BY Empty DEF Serves
  <1>4. \A t \in Threads : Locked(t)' = Locked(t) /\ Takes(t)' = Takes(t) BY <1>2, <1>3, Parts, Moved DEF Serves
  <1> QED BY <1>1, <1>4 DEF Alone

LEMMA WordPut ==
  ASSUME WordTypes, NEW o \in Objs, NEW x \in Words(o), word' = [word EXCEPT ![o] = x]
  PROVE  /\ WordTypes' /\ word'[o] = x /\ \A p \in Objs : p # o => word'[p] = word[p]
         /\ x.locked = word[o].locked /\ (word[o].locked => x.low = word[o].low) => Calm
  <1>1. DOMAIN word = Objs BY DEF WordTypes
  <1>2. word'[o] = x /\ \A p \in Objs : p # o => word'[p] = word[p] BY <1>1
  <1>3. WordTypes' BY <1>1, <1>2 DEF WordTypes
  <1> QED BY <1>2, <1>3 DEF Calm

LEMMA WordsStay == ASSUME WordTypes, UNCHANGED word PROVE WordTypes' /\ Calm
  BY DEF WordTypes, Calm

(* The rest of the invariant follows from what the steps do to the queues, *)
(* the slots and wineserver's own place.                                   *)
LEMMA ServerKeeps ==
  ASSUME IInv, Alone, WordTypes', Calm, ServerTypes', UNCHANGED <<left, cache_gen>>,
         RegisteredOK', ServedOK', QueuesOK', GuardOK', ServerFlagExact', FoundOK'
  PROVE  IInv'
  <1>1. ClientTypes' BY Parts DEF ClientTypes
  <1>2. TypeOK' /\ WordsOK' BY <1>1, TypeParts, PTL DEF Alone
  <1>3. \A t \in Threads : Locked(t) \subseteq Objs /\ Takes(t) \subseteq Locked(t) BY Parts, FitsNow
  <1>4. LockedOK' BY <1>3, Parts DEF LockedOK, Alone, Calm
  <1>5. TakesOK'
    <2> SUFFICES ASSUME NEW t \in Threads, NEW o \in Takes(t) PROVE Signaled(o, t)' BY DEF TakesOK, Alone
    <2>1. o \in Objs /\ o \in Locked(t) BY <1>3
    <2>2. word[o].locked /\ Signaled(o, t) BY <2>1, Parts DEF LockedOK, TakesOK
    <2>3. word'[o].low = word[o].low BY <2>1, <2>2 DEF Calm
    <2> QED BY <2>1, <2>2, <2>3, SignaledLow
  <1> QED BY <1>2, <1>4, <1>5 DEF IInv, Alone

(* Without a registration, or at the end of one.                           *)
LEMMA RegistrationsKept ==
  ASSUME IInv, ThreadTypes', UNCHANGED reg, \A o \in Objs : word'[o].multi = word[o].multi,
         srv.pc \notin {"flag", "regcheck"} \/ (srv'.pc \in {"flag", "regcheck"} /\ srv'.req = srv.req),
         \A t \in Threads : reg[t] # {} =>
           \/ pc'[t] = pc[t] /\ loc'[t] = loc[t] /\ call'[t] = call[t]
           \/ pc'[t] # "register" /\ RegisteredAt(pc'[t], loc'[t], call'[t])
  PROVE  RegisteredOK'
  BY Parts DEF RegisteredOK

(* Nothing but a wait that starts or ends moves entries of the queues.     *)
Settled == srv.pc \notin {"enqueue", "remove"} \/ (srv.pc = "remove" /\ srv.i = 1)
LEMMA QueuesKept ==
  ASSUME IInv, UNCHANGED queue, Settled, Settled',
         \A t \in Threads : /\ pc'[t] = "queued" <=> pc[t] = "queued"
                            /\ pc[t] = "queued" => call'[t] = call[t]
  PROVE  QueuesOK'
  <1>1. ASSUME NEW t \in Threads, NEW o PROVE WaitsOn(t, o)' <=> WaitsOn(t, o)
    <2>1. \A j \in 1..Count(t) : ~Elsewhere(t, j) BY DEF Settled, Elsewhere
    <2>2. \A j \in 1..Count(t)' : ~Elsewhere(t, j)'
      <3> TAKE j \in 1..Count(t)'
      <3>1. ~(j < 1) /\ srv'.pc # "enqueue" /\ (srv'.pc = "remove" => srv'.i = 1) BY DEF Settled
      <3> QED BY <3>1 DEF Elsewhere
    <2>3. pc[t] = "queued" => Count(t)' = Count(t) /\ \A j : WObj(t, j)' = WObj(t, j) BY DEF Count, WObj
    <2> QED BY <2>1, <2>2, <2>3 DEF WaitsOn
  <1> QED BY <1>1, Parts DEF QueuesOK

(* Outside try_wait_all there is no guard.                                 *)
Unguarded ==
  \/ srv.pc \notin {"guard", "probe", "take", "unguard"}
  \/ srv.pc = "guard" /\ srv.guarded = 0
  \/ srv.pc = "unguard" /\ srv.i \in Nat /\ srv.guarded \in Nat /\ srv.i > srv.guarded
LEMMA NoGuard == Unguarded => Guarded = {} BY DEF Unguarded, Guarded

LEMMA GuardsKept ==
  ASSUME IInv, Unguarded, Unguarded', \A o \in Objs : word'[o].server <=> queue'[o] # <<>>
  PROVE  GuardOK' /\ ServerFlagExact'
  <1>1. (Guarded = {})' BY NoGuard, PTL
  <1>2. Guarded' = {} BY <1>1
  <1> QED BY <1>2 DEF GuardOK, ServerFlagExact

LEMMA FlagsExact == ASSUME IInv, Unguarded PROVE \A o \in Objs : word[o].server <=> queue[o] # <<>>
  <1>1. Guarded = {} BY NoGuard
  <1> QED BY <1>1, Parts DEF ServerFlagExact

(* Nothing has been found yet.                                             *)
Searching == srv.pc \notin {"check", "satisfy", "probe", "take"} \/ (srv.pc \in {"check", "probe"} /\ srv.i = 1)
LEMMA NothingFound == Searching => FoundOK
  <1> SUFFICES ASSUME Searching PROVE Found = {} BY DEF FoundOK
  <1>1. 1..(1 - 1) = {} OBVIOUS
  <1> QED BY <1>1 DEF Searching, Found

(* The request is over.                                                    *)
LEMMA Over ==
  ASSUME srv' = Srv0
  PROVE  ServedOK' /\ Settled' /\ Unguarded' /\ FoundOK' /\ srv' \in Srvs
  <1>1. /\ srv'.pc = "idle" /\ srv'.pos = 0 BY DEF Srv0
  <1>2. ServedOK'
    BY <1>1 DEF ServedOK, WaitServed, SignalServed, SlotServed, SlotPCs, TryPCs, WaitPCs, SignalingPCs
  <1>3. Settled' /\ Unguarded' /\ Searching' BY <1>1 DEF Settled, Unguarded, Searching
  <1>4. srv' \in Srvs BY DEF Srv0, Srvs, ServerPCs, Rets
  <1> QED BY <1>2, <1>3, <1>4, NothingFound, PTL

LEMMA FreshRequest == Srv0 \in Srvs
  BY DEF Srv0, Srvs, ServerPCs, Rets

(* wineserver: select.                                                     *)
LEMMA WaiterAt ==
  ASSUME IInv, srv.pc \in WaitPCs
  PROVE  LET t == srv.cur IN
         /\ t \in Threads /\ pc[t] = "queued" /\ srv.i \in 1..Count(t) /\ Count(t) \in Nat /\ call[t].what \in Waits
         /\ call[t] \in CallsOf[t] /\ call[t] \in Call /\ call[t] \in Calls /\ loc[t] \in Locs /\ reg[t] = {}
         /\ WObj(t, srv.i) \in Objs /\ word[WObj(t, srv.i)] \in Words(WObj(t, srv.i))
         /\ \A j \in 1..Count(t) : WObj(t, j) \in Objs
         /\ \A j, k \in 1..Count(t) : WObj(t, j) = WObj(t, k) => j = k
         /\ call[t].what = "sigwait" => call[t].obj \in Objs
         /\ srv \in Srvs /\ srv.i \in Nat /\ Unguarded
         /\ srv.pos > 0 => Asking(srv.req) /\ srv.obj \in Objs
         /\ srv.pos \in Nat
  <1> DEFINE t == srv.cur
  <1>1. t \in Threads /\ pc[t] = "queued" /\ srv.i \in 1..Count(t) BY Parts DEF ServedOK, WaitServed
  <1>2. /\ call[t] \in CallsOf[t] /\ call[t] \in Call /\ call[t] \in Calls /\ loc[t] \in Locs /\ Count(t) \in Nat
        /\ call[t].what \in Waits
        /\ \A j \in 1..Count(t) : WObj(t, j) \in Objs
        /\ \A j, k \in 1..Count(t) : WObj(t, j) = WObj(t, k) => j = k
        /\ call[t].what = "sigwait" => call[t].obj \in Objs
    BY <1>1, Parts, CallAt DEF PlaceOK, PlaceAt, Calls
  <1>3. reg[t] = {} BY <1>1, NotRegistered
  <1>4. word[WObj(t, srv.i)] \in Words(WObj(t, srv.i)) BY <1>1, <1>2, Parts DEF WordTypes
  <1>5. srv \in Srvs /\ Unguarded BY Parts DEF ServerTypes, Unguarded, WaitPCs
  <1>6. srv.pos > 0 => Asking(srv.req) /\ srv.obj \in Objs BY Parts DEF ServedOK, SignalServed
  <1>7. srv.pos \in Nat /\ srv.i \in Nat BY <1>5 DEF Srvs
  <1> QED BY <1>1, <1>2, <1>3, <1>4, <1>5, <1>6, <1>7

LEMMA IdleServer == ASSUME IInv, srv.pc = "idle" PROVE Settled /\ Unguarded /\ srv.pc \notin {"flag", "regcheck"}
  BY DEF Settled, Unguarded

(* A thread that asks for something other than its slot.                   *)
LEMMA AskerAt ==
  ASSUME IInv, NEW t \in Threads, pc[t] \in {"request", "queued", "served"}
  PROVE  /\ call[t] \in CallsOf[t] /\ call[t] \in Call /\ call[t] \in Calls /\ loc[t] \in Locs /\ Count(t) \in Nat
         /\ call[t].what \in Waits => Count(t) > 0
         /\ call[t].what \in {"signal", "reset", "sigwait"} => call[t].obj \in Objs
         /\ call[t].n \in Nat /\ reg[t] = {} /\ call[t].what \in Whats
  <1>1. reg[t] = {} BY NotRegistered
  <1>2. call[t].n \in Nat
    <2>1. call[t] \in Call BY Parts, CallAt
    <2> QED BY <2>1 DEF Call
  <1> QED BY <1>1, <1>2, Parts, CallAt DEF PlaceOK, Calls

LEMMA SelectOnStep == ASSUME IInv, NEW t \in Threads, select_on(t) PROVE IInv'
  <1>1. /\ srv.pc = "idle" /\ pc[t] = "request" /\ call[t].what \in Waits /\ Goto(t, "queued")
        /\ srv' = [Srv0 EXCEPT !.pc = "enqueue", !.req = t, !.cur = t]
        /\ UNCHANGED <<word, call, loc, queue, slot, reg, left, cache_gen>>
    BY DEF select_on, Registry, ServerOnly
  <1>2. /\ call[t] \in CallsOf[t] /\ call[t] \in Calls /\ loc[t] \in Locs /\ Count(t) \in Nat
        /\ Count(t) > 0 /\ reg[t] = {}
    BY <1>1, AskerAt
  <1>3. /\ srv'.pc = "enqueue" /\ srv'.req = t /\ srv'.cur = t /\ srv'.i = 1 /\ srv'.pos = 0 BY <1>1 DEF Srv0
  <1>4. srv' \in Srvs BY <1>1, FreshRequest DEF Srvs, ServerPCs
  <1>5. Moves(t, "queued", loc[t], call[t]) BY <1>1, Parts, MovesBy
  <1>6. Fits(t, "queued", loc[t], call[t])
    BY <1>1, <1>2 DEF Fits, PlaceAt, ClientPCs, AllPCs, AnyPCs, SignalPCs
  <1>7. Serves(t, "queued", loc[t], call[t]) BY <1>1, <1>5, <1>6 DEF Serves, Served, Holding
  <1>8. Alone BY <1>7, ServesAlone
  <1>9. WordTypes' /\ Calm BY <1>1, Parts, WordsStay
  <1>10. ServerTypes' BY <1>1, <1>4, Parts DEF ServerTypes
  <1>11. /\ pc'[t] = "queued" /\ call'[t] = call[t]
         /\ \A u \in Threads : u # t => pc'[u] = pc[u] /\ loc'[u] = loc[u] /\ call'[u] = call[u]
    BY <1>5, Parts, Moved
  <1>12. RegisteredOK' BY <1>1, <1>2, <1>8, <1>11, RegistrationsKept DEF Alone
  <1>13. ServedOK'
    <2>1. 1 \in 1..Count(t)' BY <1>2, <1>11 DEF Count
    <2> QED BY <1>3, <1>11, <2>1
        DEF ServedOK, WaitServed, SignalServed, SlotServed, SlotPCs, TryPCs, WaitPCs, SignalingPCs
  <1>14. QueuesOK'
    <2>1. ASSUME NEW u \in Threads, NEW o PROVE WaitsOn(u, o)' <=> WaitsOn(u, o)
      <3>1. CASE u = t
        <4>1. \A j \in 1..Count(t)' : Elsewhere(t, j)' BY <1>2, <1>3, <1>11 DEF Elsewhere, Count
        <4> QED BY <1>1, <3>1, <4>1 DEF WaitsOn
      <3>2. CASE u # t
        <4>1. \A j : ~Elsewhere(u, j)' /\ ~Elsewhere(u, j) BY <1>1, <1>3, <3>2 DEF Elsewhere
        <4> QED BY <1>11, <3>2, <4>1 DEF WaitsOn, WObj, Count
      <3> QED BY <3>1, <3>2
    <2> QED BY <1>1, <2>1, Parts DEF QueuesOK
  <1>15. GuardOK' /\ ServerFlagExact'
    <2>1. Unguarded' BY <1>3 DEF Unguarded
    <2> QED BY <1>1, <2>1, IdleServer, FlagsExact, GuardsKept
  <1>16. FoundOK'
    <2>1. Searching' BY <1>3 DEF Searching
    <2> QED BY <2>1, NothingFound, PTL
  <1> QED BY <1>1, <1>8, <1>9, <1>10, <1>12, <1>13, <1>14, <1>15, <1>16, ServerKeeps

LEMMA EnqueueStep == ASSUME IInv, enqueue PROVE IInv'
  <1>0. PICK t \in Threads, i \in Nat, o \in Objs : t = srv.cur /\ i = srv.i /\ o = WObj(t, i)
    BY WaiterAt DEF enqueue, WaitPCs
  <1> DEFINE x == [word[o] EXCEPT !.server = TRUE]
  <1>1. /\ srv.pc = "enqueue" /\ word' = [word EXCEPT ![o] = x] /\ queue' = [queue EXCEPT ![o] = Append(@, t)]
        /\ UNCHANGED <<pc, call, loc, left, cache_gen, slot, reg>>
    BY <1>0 DEF enqueue, client, Registry
  <1>2. /\ t \in Threads /\ pc[t] = "queued" /\ i \in 1..Count(t) /\ Count(t) \in Nat /\ call[t].what \in Waits
        /\ call[t] \in Call /\ o \in Objs /\ word[o] \in Words(o)
        /\ \A j, k \in 1..Count(t) : WObj(t, j) = WObj(t, k) => j = k
        /\ call[t].what = "sigwait" => call[t].obj \in Objs
        /\ srv \in Srvs /\ i \in Nat /\ Unguarded
    BY <1>0, <1>1, WaiterAt DEF WaitPCs
  <1>3. t = srv.req /\ srv.pos = 0 BY <1>0, <1>1, Parts DEF ServedOK, WaitServed
  <1>4. Alone BY <1>1, StaysAlone DEF Stays
  <1>5. /\ WordTypes' /\ Calm /\ word'[o].server = TRUE /\ word'[o].multi = word[o].multi
        /\ \A p \in Objs : p # o => word'[p] = word[p]
    <2>1. /\ x \in Words(o) /\ x.server = TRUE /\ x.multi = word[o].multi
          /\ x.low = word[o].low /\ x.locked = word[o].locked
      BY <1>2 DEF Words
    <2> HIDE DEF x
    <2> QED BY <1>1, <1>2, <2>1, Parts, WordPut
  <1> HIDE DEF x
  <1>6. /\ queue' \in [Objs -> Seq(Threads)]
        /\ queue'[o] \in Seq(Threads) /\ queue'[o] # <<>> /\ Len(queue'[o]) = Len(queue[o]) + 1
        /\ \A k \in 1..Len(queue[o]) : queue'[o][k] = queue[o][k]
        /\ queue'[o][Len(queue[o]) + 1] = t
        /\ \A p \in Objs : p # o => queue'[p] = queue[p]
    <2>1. queue \in [Objs -> Seq(Threads)] /\ queue[o] \in Seq(Threads) BY <1>2, Parts DEF ServerTypes
    <2>2. queue'[o] = Append(queue[o], t) /\ \A p \in Objs : p # o => queue'[p] = queue[p] BY <1>1, <1>2, <2>1
    <2>3. /\ Append(queue[o], t) \in Seq(Threads) /\ Append(queue[o], t) # <<>>
          /\ Len(Append(queue[o], t)) = Len(queue[o]) + 1
          /\ \A k \in 1..Len(queue[o]) : Append(queue[o], t)[k] = queue[o][k]
          /\ Append(queue[o], t)[Len(queue[o]) + 1] = t
      BY <1>2, <2>1, AppendProperties
    <2> QED BY <1>1, <1>2, <2>1, <2>2, <2>3
  <1>7. \/ i < Count(t) /\ srv' = [srv EXCEPT !.i = i + 1]
        \/ /\ i = Count(t) /\ call[t].what = "sigwait"
           /\ srv' = [srv EXCEPT !.pc = "signal", !.obj = call[t].obj, !.max = MaxWakes(call[t].obj, 1)]
        \/ i = Count(t) /\ call[t].what # "sigwait" /\ srv' = [srv EXCEPT !.pc = "check", !.i = 1]
    BY <1>0, <1>2 DEF enqueue
  <1>8. /\ srv' \in Srvs /\ srv'.cur = t /\ srv'.req = t /\ srv'.pos = 0
        /\ srv'.pc = "enqueue" => i < Count(t) /\ srv'.i = i + 1
        /\ srv'.pc \in {"enqueue", "signal", "check"}
        /\ srv'.pc # "enqueue" => i = Count(t)
        /\ srv'.pc = "signal" => call[t].what = "sigwait" /\ srv'.obj \in Objs /\ srv'.obj = call[t].obj
        /\ srv'.pc = "check" => srv'.i = 1
    <2>1. i + 1 \in Nat /\ MaxWakes(call[t].obj, 1) \in Nat BY <1>2 DEF MaxWakes
    <2>2. CASE i < Count(t) /\ srv' = [srv EXCEPT !.i = i + 1] BY <1>0, <1>1, <1>2, <1>3, <2>1, <2>2 DEF Srvs
    <2>3. CASE /\ i = Count(t) /\ call[t].what = "sigwait"
               /\ srv' = [srv EXCEPT !.pc = "signal", !.obj = call[t].obj, !.max = MaxWakes(call[t].obj, 1)]
      <3> DEFINE m == MaxWakes(call[t].obj, 1)
                 q == call[t].obj
      <3>1. m \in Nat /\ q \in Objs BY <1>2, <2>1, <2>3
      <3>2. srv' = [srv EXCEPT !.pc = "signal", !.obj = q, !.max = m] BY <2>3
      <3>3. q = call[t].obj OBVIOUS
      <3> HIDE DEF m, q
      <3> QED BY <1>0, <1>2, <1>3, <2>3, <3>1, <3>2, <3>3, ZenonT(40) DEF Srvs, ServerPCs
    <2>4. CASE i = Count(t) /\ call[t].what # "sigwait" /\ srv' = [srv EXCEPT !.pc = "check", !.i = 1]
      BY <1>0, <1>2, <1>3, <2>4, ZenonT(40) DEF Srvs, ServerPCs
    <2> QED BY <1>7, <2>2, <2>3, <2>4
  <1>9. Count(t)' = Count(t) /\ \A u, j : WObj(u, j)' = WObj(u, j) BY <1>1, <1>8 DEF Count, WObj
  <1>10. ServerTypes' BY <1>1, <1>6, <1>8, Parts DEF ServerTypes
  <1>11. RegisteredOK' BY <1>1, <1>4, <1>5, RegistrationsKept DEF Alone
  <1>12. ServedOK'
    <2>1. srv'.pc \in {"enqueue", "check"} => srv'.i \in 1..Count(t) BY <1>2, <1>8
    <2>2. srv'.pc = "signal" => Asking(t)' BY <1>1, <1>2, <1>8 DEF Asking
    <2> QED BY <1>1, <1>2, <1>8, <1>9, <2>1, <2>2
        DEF ServedOK, WaitServed, SignalServed, SlotServed, SlotPCs, TryPCs, WaitPCs, SignalingPCs, Count
  <1>13. ASSUME NEW p \in Objs PROVE WaitsOn(t, p)' <=> WaitsOn(t, p) \/ p = o
    <2>1. \A j \in 1..Count(t) : ~Elsewhere(t, j) <=> j < i BY <1>0, <1>1, <1>2 DEF Elsewhere
    <2>2. \A j \in 1..Count(t) : ~Elsewhere(t, j)' <=> j < i \/ j = i
      <3> TAKE j \in 1..Count(t)
      <3>1. CASE srv'.pc = "enqueue" BY <1>2, <1>8, <3>1 DEF Elsewhere
      <3>2. CASE srv'.pc # "enqueue" BY <1>2, <1>8, <3>2 DEF Elsewhere
      <3> QED BY <3>1, <3>2
    <2> QED BY <1>0, <1>1, <1>2, <1>9, <2>1, <2>2 DEF WaitsOn, Count
  <1>14. ASSUME NEW u \in Threads, u # t, NEW p PROVE WaitsOn(u, p)' <=> WaitsOn(u, p)
    <2>1. \A j : ~Elsewhere(u, j)' /\ ~Elsewhere(u, j) BY <1>0, <1>8, <1>14 DEF Elsewhere
    <2> QED BY <1>1, <1>9, <2>1 DEF WaitsOn, Count
  <1>15. ~WaitsOn(t, o)
    <2>1. \A j \in 1..Count(t) : WObj(t, j) = o => j = i BY <1>0, <1>2
    <2>2. Elsewhere(t, i) BY <1>0, <1>1, <1>2 DEF Elsewhere
    <2> QED BY <2>1, <2>2 DEF WaitsOn
  <1>16. QueuesOK'
    <2>1. Len(queue[o]) \in Nat BY <1>2, Parts DEF ServerTypes
    <2>2. \A k : k \in 1..Len(queue'[o]) <=> k \in 1..Len(queue[o]) \/ k = Len(queue[o]) + 1 BY <1>6, <2>1
    <2>3. \A k \in 1..Len(queue[o]) : queue[o][k] # t BY <1>2, <1>15, Parts DEF QueuesOK
    <2>4. ASSUME NEW p \in Objs, NEW u \in Threads
          PROVE  (\E k \in 1..Len(queue'[p]) : queue'[p][k] = u) <=> WaitsOn(u, p)'
      <3>1. CASE p # o
        <4>1. WaitsOn(u, p)' <=> WaitsOn(u, p) BY <1>13, <1>14, <3>1
        <4>2. (\E k \in 1..Len(queue[p]) : queue[p][k] = u) <=> WaitsOn(u, p) BY Parts DEF QueuesOK
        <4>3. queue'[p] = queue[p] BY <1>6, <3>1
        <4> QED BY <4>1, <4>2, <4>3
      <3>2. CASE p = o
        <4>1. WaitsOn(u, o)' <=> WaitsOn(u, o) \/ u = t BY <1>2, <1>13, <1>14
        <4>2. (\E k \in 1..Len(queue[o]) : queue[o][k] = u) <=> WaitsOn(u, o) BY <1>2, Parts DEF QueuesOK
        <4> QED BY <1>6, <2>2, <3>2, <4>1, <4>2
      <3> QED BY <3>1, <3>2
    <2>5. ASSUME NEW p \in Objs, NEW k \in 1..Len(queue'[p]), NEW m \in 1..Len(queue'[p]), queue'[p][k] = queue'[p][m]
          PROVE  k = m
      <3>1. CASE p # o BY <1>6, <2>5, <3>1, Parts DEF QueuesOK
      <3>2. CASE p = o
        <4>1. \A a, b \in 1..Len(queue[o]) : queue[o][a] = queue[o][b] => a = b BY <1>2, Parts DEF QueuesOK
        <4> QED BY <1>6, <2>2, <2>3, <2>5, <3>2, <4>1
      <3> QED BY <3>1, <3>2
    <2> QED BY <2>4, <2>5 DEF QueuesOK
  <1>17. GuardOK' /\ ServerFlagExact'
    <2>1. Unguarded' BY <1>8 DEF Unguarded
    <2>2. \A p \in Objs : word'[p].server <=> queue'[p] # <<>> BY <1>2, <1>5, <1>6, FlagsExact
    <2> QED BY <1>2, <2>1, <2>2, GuardsKept
  <1>18. FoundOK'
    <2>1. Searching' BY <1>8 DEF Searching
    <2> QED BY <2>1, NothingFound, PTL
  <1> QED BY <1>1, <1>4, <1>5, <1>10, <1>11, <1>12, <1>16, <1>17, <1>18, ServerKeeps

(* The wait being checked goes on, or wake_up does.                        *)
LEMMA WaiterServed ==
  ASSUME srv'.pc \in {"check", "satisfy", "remove"}, srv'.cur \in Threads, pc'[srv'.cur] = "queued",
         srv'.i \in 1..Count(srv.cur)', srv'.pos > 0 => Asking(srv.req)' /\ srv'.obj \in Objs
  PROVE  ServedOK'
  BY DEF ServedOK, WaitServed, SignalServed, SlotServed, SlotPCs, TryPCs, WaitPCs, SignalingPCs

LEMMA ScanServed ==
  ASSUME srv'.pc = "scan", srv'.pos > 0, Asking(srv.req)', srv'.obj \in Objs
  PROVE  ServedOK'
  BY DEF ServedOK, WaitServed, SignalServed, SlotServed, SlotPCs, TryPCs, WaitPCs, SignalingPCs

LEMMA CheckWaitStep == ASSUME IInv, check_wait PROVE IInv'
  <1>0. PICK t \in Threads, i \in Nat, o \in Objs : t = srv.cur /\ i = srv.i /\ o = WObj(t, i)
    BY WaiterAt DEF check_wait, WaitPCs
  <1>1. /\ srv.pc = "check" /\ ~word[o].locked
        /\ UNCHANGED <<word, pc, call, loc, left, cache_gen, queue, slot, reg>>
    BY <1>0 DEF check_wait, client, Registry
  <1>2. /\ pc[t] = "queued" /\ i \in 1..Count(t) /\ Count(t) \in Nat
        /\ \A j \in 1..Count(t) : WObj(t, j) \in Objs
        /\ srv \in Srvs /\ Unguarded
        /\ srv.pos > 0 => Asking(srv.req) /\ srv.obj \in Objs
        /\ srv.pos \in Nat
    BY <1>0, <1>1, WaiterAt DEF WaitPCs
  <1> DEFINE all == call[t].what = "waitall"
             F(n) == {WObj(t, j) : j \in 1..n}
  <1>3. all /\ srv.ok => \A p \in F(i - 1) : ~word[p].locked /\ Signaled(p, t)
    BY <1>0, <1>1, Parts DEF FoundOK, Found, Finder
  <1>4. F(i) = F(i - 1) \cup {o} /\ 1..0 = {}
    <2>1. \A j : j \in 1..i <=> j \in 1..(i - 1) \/ j = i BY <1>2
    <2> QED BY <1>0, <2>1
  <1>5. \/ /\ all /\ i = Count(t) /\ srv.ok /\ Signaled(o, t)
           /\ srv' = [srv EXCEPT !.pc = "satisfy", !.i = 1]
        \/ ~all /\ Signaled(o, t) /\ srv' = [srv EXCEPT !.pc = "satisfy"]
        \/ i # Count(t) /\ srv' = [srv EXCEPT !.i = i + 1, !.ok = srv.ok /\ Signaled(o, t)] /\ (all \/ ~Signaled(o, t))
        \/ srv' = [srv EXCEPT !.pc = "remove", !.i = 1]
        \/ srv' = Srv0
        \/ srv.pos # 0 /\ srv' = [srv EXCEPT !.pc = "scan", !.pos = srv.pos + 1]
    BY <1>0 DEF check_wait, NotSatisfied, SelectsAll
  <1>6. Alone /\ WordTypes' /\ Calm BY <1>1, Parts, StaysAlone, WordsStay DEF Stays
  <1>7. RegisteredOK' BY <1>1, <1>6, RegistrationsKept DEF Alone
  <1>8. /\ Count(t)' = Count(t) /\ (\A u, j : WObj(u, j)' = WObj(u, j))
        /\ \A p \in Objs : \A u : Signaled(p, u)' <=> Signaled(p, u)
    BY <1>1 DEF Count, WObj, Signaled
  <1>9. ASSUME Settled', Unguarded', srv' \in Srvs, ServedOK', FoundOK' PROVE IInv'
    <2>1. ServerTypes' BY <1>1, <1>9, Parts DEF ServerTypes
    <2>2. Settled BY <1>1 DEF Settled
    <2>3. QueuesOK' BY <1>1, <1>9, <2>2, QueuesKept
    <2>4. GuardOK' /\ ServerFlagExact' BY <1>1, <1>2, <1>9, FlagsExact, GuardsKept
    <2> QED BY <1>1, <1>6, <1>7, <1>9, <2>1, <2>3, <2>4, ServerKeeps
  <1>10. ASSUME srv'.pc \in {"check", "satisfy", "remove", "scan"}, srv'.pc = "remove" => srv'.i = 1,
                srv'.pc # "scan" => srv'.i \in 1..Count(t) /\ srv'.cur = t /\ srv'.pos = srv.pos,
                srv'.pc = "scan" => srv.pos > 0 /\ srv'.pos > 0,
                srv'.req = srv.req /\ srv'.obj = srv.obj, srv' \in Srvs, FoundOK'
         PROVE  IInv'
    <2>1. Settled' /\ Unguarded' BY <1>10 DEF Settled, Unguarded
    <2>2. ServedOK'
      <3>0. Asking(srv.req) => Asking(srv.req)' BY <1>1, <1>10 DEF Asking
      <3>1. CASE srv'.pc = "scan" BY <1>2, <1>10, <3>0, <3>1, ScanServed
      <3>2. CASE srv'.pc # "scan"
        <4>1. Count(srv.cur)' = Count(t) BY <1>1, <1>10, <3>2 DEF Count
        <4> QED BY <1>1, <1>2, <1>10, <3>0, <3>2, <4>1, WaiterServed
      <3> QED BY <3>1, <3>2
    <2> QED BY <1>9, <1>10, <2>1, <2>2
  <1> HIDE DEF F
  <1>11. CASE all /\ i = Count(t) /\ srv.ok /\ Signaled(o, t) /\ srv' = [srv EXCEPT !.pc = "satisfy", !.i = 1]
    <2>1. /\ srv' \in Srvs /\ srv'.pc = "satisfy" /\ srv'.i = 1 /\ srv'.cur = t /\ srv'.pos = srv.pos
          /\ srv'.req = srv.req /\ srv'.obj = srv.obj
      BY <1>0, <1>2, <1>11 DEF Srvs, ServerPCs
    <2>2. Found' = F(i) /\ Finder' = t
      BY <1>1, <1>8, <1>11, <2>1 DEF Found, Finder, F, Count, WObj
    <2>3. FoundOK'
      <3>1. \A p \in F(i) : p \in Objs BY <1>2, <1>11 DEF F
      <3>2. \A p \in F(i) : ~word[p].locked /\ Signaled(p, t) BY <1>1, <1>3, <1>4, <1>11
      <3> QED BY <1>1, <1>8, <2>2, <3>1, <3>2 DEF FoundOK, Signaled
    <2>4. 1 \in 1..Count(t) BY <1>2
    <2> QED BY <1>10, <2>1, <2>3, <2>4
  <1>12. CASE ~all /\ Signaled(o, t) /\ srv' = [srv EXCEPT !.pc = "satisfy"]
    <2>1. /\ srv' \in Srvs /\ srv'.pc = "satisfy" /\ srv'.i = i /\ srv'.cur = t /\ srv'.pos = srv.pos
          /\ srv'.req = srv.req /\ srv'.obj = srv.obj
      BY <1>0, <1>2, <1>12 DEF Srvs, ServerPCs
    <2>2. Found' = {o} /\ Finder' = t
      BY <1>0, <1>1, <1>8, <1>12, <2>1 DEF Found, Finder, WObj
    <2>3. FoundOK' BY <1>1, <1>12, <2>2 DEF FoundOK, Signaled
    <2> QED BY <1>2, <1>10, <2>1, <2>3
  <1>13. CASE /\ i # Count(t) /\ (all \/ ~Signaled(o, t))
              /\ srv' = [srv EXCEPT !.i = i + 1, !.ok = srv.ok /\ Signaled(o, t)]
    <2> DEFINE ok == srv.ok /\ Signaled(o, t)
    <2>0. ok \in BOOLEAN /\ (ok => srv.ok /\ Signaled(o, t)) OBVIOUS
    <2>1. srv' = [srv EXCEPT !.i = i + 1, !.ok = ok] BY <1>13
    <2> HIDE DEF ok
    <2>2. /\ srv' \in Srvs /\ srv'.pc = "check" /\ srv'.i = i + 1 /\ srv'.cur = t /\ srv'.pos = srv.pos
          /\ srv'.req = srv.req /\ srv'.obj = srv.obj /\ srv'.ok = ok
      <3>1. i + 1 \in Nat OBVIOUS
      <3> QED BY <1>0, <1>1, <1>2, <2>0, <2>1, <3>1 DEF Srvs, ServerPCs
    <2>3. Found' = (IF all /\ ok THEN F(i) ELSE {}) /\ Finder' = t
      <3>1. srv'.i - 1 = i BY <1>2, <2>2
      <3> QED BY <1>1, <1>8, <2>2, <3>1 DEF Found, Finder, F, WObj
    <2>4. FoundOK'
      <3>1. CASE all /\ ok
        <4>1. \A p \in F(i) : ~word[p].locked /\ Signaled(p, t) BY <1>1, <1>3, <1>4, <2>0, <3>1
        <4> QED BY <1>1, <2>3, <3>1, <4>1 DEF FoundOK, Signaled
      <3>2. CASE ~(all /\ ok) BY <2>3, <3>2 DEF FoundOK
      <3> QED BY <3>1, <3>2
    <2>5. i + 1 \in 1..Count(t) BY <1>2, <1>13
    <2> QED BY <1>10, <2>2, <2>4, <2>5
  <1>14. CASE srv' = [srv EXCEPT !.pc = "remove", !.i = 1]
    <2>1. /\ srv' \in Srvs /\ srv'.pc = "remove" /\ srv'.i = 1 /\ srv'.cur = t /\ srv'.pos = srv.pos
          /\ srv'.req = srv.req /\ srv'.obj = srv.obj
      BY <1>0, <1>2, <1>14 DEF Srvs, ServerPCs
    <2>2. Searching' BY <2>1 DEF Searching
    <2>3. FoundOK' BY <2>2, NothingFound, PTL
    <2>4. 1 \in 1..Count(t) BY <1>2
    <2> QED BY <1>10, <2>1, <2>3, <2>4
  <1>15. CASE srv' = Srv0 BY <1>9, <1>15, Over
  <1>16. CASE srv.pos # 0 /\ srv' = [srv EXCEPT !.pc = "scan", !.pos = srv.pos + 1]
    <2>1. /\ srv' \in Srvs /\ srv'.pc = "scan" /\ srv'.pos = srv.pos + 1
          /\ srv'.req = srv.req /\ srv'.obj = srv.obj
      <3>1. srv.pos + 1 \in Nat BY <1>2
      <3> QED BY <1>2, <1>16, <3>1 DEF Srvs, ServerPCs
    <2>2. Searching' BY <2>1 DEF Searching
    <2>3. FoundOK' BY <2>2, NothingFound, PTL
    <2>4. srv.pos > 0 /\ srv'.pos > 0 BY <1>2, <1>16, <2>1
    <2> QED BY <1>10, <2>1, <2>3, <2>4
  <1> QED BY <1>5, <1>11, <1>12, <1>13, <1>14, <1>15, <1>16

LEMMA SatisfiedStep == ASSUME IInv, satisfied PROVE IInv'
  <1>0. PICK t \in Threads, i \in Nat, o \in Objs : t = srv.cur /\ i = srv.i /\ o = WObj(t, i)
    BY WaiterAt DEF satisfied, WaitPCs
  <1> DEFINE r == Worse(loc[t].ret, ConsumedStatus(o))
             l == [loc[t] EXCEPT !.ret = r]
             x == Consumed(o, t)
  <1>1. /\ srv.pc = "satisfy" /\ ~word[o].locked
        /\ UNCHANGED word \/ word' = [word EXCEPT ![o] = x]
        /\ SetLoc(t, l) /\ UNCHANGED <<pc, call, queue, slot, reg, left, cache_gen>>
    BY <1>0 DEF satisfied, ServerOnly, Registry
  <1>2. /\ pc[t] = "queued" /\ i \in 1..Count(t) /\ Count(t) \in Nat /\ call[t].what \in Waits
        /\ call[t] \in CallsOf[t] /\ call[t] \in Calls /\ loc[t] \in Locs /\ reg[t] = {} /\ word[o] \in Words(o)
        /\ \A j \in 1..Count(t) : WObj(t, j) \in Objs
        /\ \A j, k \in 1..Count(t) : WObj(t, j) = WObj(t, k) => j = k
        /\ srv \in Srvs /\ Unguarded
        /\ srv.pos > 0 => Asking(srv.req) /\ srv.obj \in Objs
    BY <1>0, <1>1, WaiterAt DEF WaitPCs
  <1>3. srv.pc = "satisfy" /\ ~word[o].locked BY <1>1
  <1>4. /\ WordTypes' /\ Calm /\ \A p \in Objs : p # o => word'[p] = word[p]
        /\ \A p \in Objs : word'[p].server = word[p].server /\ word'[p].multi = word[p].multi
    <2>1. Like(o, x, word[o]) BY <1>2, ConsumedWord
    <2> HIDE DEF x
    <2>2. CASE UNCHANGED word BY <2>2, Parts, WordsStay
    <2>3. CASE word' = [word EXCEPT ![o] = x]
      <3>1. x \in Words(o) /\ x.locked = word[o].locked /\ x.server = word[o].server /\ x.multi = word[o].multi
        BY <2>1 DEF Like, SameFlags
      <3>2. WordTypes' /\ word'[o] = x /\ (\A p \in Objs : p # o => word'[p] = word[p]) /\ Calm
        BY <1>3, <2>3, <3>1, Parts, WordPut
      <3> QED BY <3>1, <3>2
    <2> QED BY <1>1, <2>2, <2>3
  <1>5. l \in Locs
    <2>1. loc[t].ret \in Rets BY <1>2 DEF Locs
    <2>2. r \in Rets BY <2>1, StatusTypes
    <2> HIDE DEF r
    <2> QED BY <1>2, <2>2 DEF Locs
  <1> HIDE DEF l, x
  <1>6. Moves(t, "queued", l, call[t]) BY <1>1, <1>2, Parts, MovesBy
  <1>7. Fits(t, "queued", l, call[t])
    BY <1>2, <1>5 DEF Fits, PlaceAt, ClientPCs, AllPCs, AnyPCs, SignalPCs
  <1>8. Alone
    <2>1. Serves(t, "queued", l, call[t]) BY <1>2, <1>6, <1>7 DEF Serves, Served, Holding
    <2> QED BY <2>1, ServesAlone
  <1>9. /\ \A u \in Threads : u # t => pc'[u] = pc[u] /\ loc'[u] = loc[u] /\ call'[u] = call[u]
    BY <1>6, Parts, Moved
  <1>10. RegisteredOK' BY <1>1, <1>2, <1>3, <1>4, <1>8, <1>9, RegistrationsKept DEF Alone
  <1>11. \/ call[t].what = "waitall" /\ i < Count(t) /\ srv' = [srv EXCEPT !.i = i + 1]
         \/ srv' = [srv EXCEPT !.pc = "remove", !.i = 1]
    BY <1>0 DEF satisfied, MoreToSatisfy, SelectsAll
  <1>12. /\ srv' \in Srvs /\ srv'.cur = t /\ srv'.pos = srv.pos /\ srv'.req = srv.req /\ srv'.obj = srv.obj
         /\ srv'.i \in 1..Count(t)
         /\ \/ srv'.pc = "satisfy" /\ call[t].what = "waitall" /\ i < Count(t) /\ srv'.i = i + 1
            \/ srv'.pc = "remove" /\ srv'.i = 1
    <2>1. CASE call[t].what = "waitall" /\ i < Count(t) /\ srv' = [srv EXCEPT !.i = i + 1]
      <3>1. i + 1 \in Nat /\ i + 1 \in 1..Count(t) BY <1>2, <2>1
      <3> QED BY <1>0, <1>2, <1>3, <2>1, <3>1 DEF Srvs
    <2>2. CASE srv' = [srv EXCEPT !.pc = "remove", !.i = 1]
      <3>1. 1 \in Nat /\ 1 \in 1..Count(t) BY <1>2
      <3> QED BY <1>0, <1>2, <2>2, <3>1 DEF Srvs, ServerPCs
    <2> QED BY <1>11, <2>1, <2>2
  <1>13. ServedOK'
    <2>1. Asking(srv.req) => Asking(srv.req)' BY <1>1, <1>12 DEF Asking
    <2>2. Count(srv.cur)' = Count(t) BY <1>1, <1>12 DEF Count
    <2> QED BY <1>1, <1>2, <1>12, <2>1, <2>2, WaiterServed
  <1>14. QueuesOK'
    <2>1. Settled /\ Settled' BY <1>3, <1>12 DEF Settled
    <2> QED BY <1>1, <2>1, QueuesKept
  <1>15. GuardOK' /\ ServerFlagExact'
    <2>1. Unguarded' BY <1>12 DEF Unguarded
    <2> QED BY <1>1, <1>2, <1>4, <2>1, FlagsExact, GuardsKept
  <1>16. FoundOK'
    <2>1. CASE srv'.pc = "remove"
      <3>1. Searching' BY <2>1 DEF Searching
      <3> QED BY <3>1, NothingFound, PTL
    <2>2. CASE srv'.pc = "satisfy" /\ call[t].what = "waitall" /\ i < Count(t) /\ srv'.i = i + 1
      <3>1. Found' = {WObj(t, j) : j \in (i + 1)..Count(t)} /\ Finder' = t
        BY <1>1, <1>12, <2>2 DEF Found, Finder, WObj, Count
      <3>2. ASSUME NEW j \in (i + 1)..Count(t) PROVE ~word'[WObj(t, j)].locked /\ Signaled(WObj(t, j), t)'
        <4>1. j \in 1..Count(t) /\ j # i /\ j \in i..Count(t) BY <1>2
        <4>2. WObj(t, j) \in Objs /\ WObj(t, j) # o BY <1>0, <1>2, <4>1
        <4>3. WObj(t, j) \in Found /\ Finder = t BY <1>0, <1>3, <2>2, <4>1 DEF Found, Finder
        <4>4. PICK p \in Objs : p = WObj(t, j) BY <4>2
        <4>5. word'[p] = word[p] /\ ~word[p].locked /\ Signaled(p, t) BY <1>4, <4>2, <4>3, <4>4, Parts DEF FoundOK
        <4>6. Signaled(p, t)' BY <4>5, SignaledLow
        <4>7. WObj(t, j)' = p BY <1>1, <4>4 DEF WObj
        <4> QED BY <4>4, <4>5, <4>6, <4>7 DEF Signaled
      <3>3. ASSUME NEW p \in Found' PROVE ~word'[p].locked /\ Signaled(p, t)'
        <4>1. PICK j \in (i + 1)..Count(t) : p = WObj(t, j) BY <3>1
        <4>2. WObj(t, j)' = WObj(t, j) BY <1>1 DEF WObj
        <4> QED BY <3>2, <4>1, <4>2 DEF Signaled
      <3> QED BY <3>1, <3>3 DEF FoundOK, Signaled
    <2> QED BY <1>12, <2>1, <2>2
  <1>17. ServerTypes' BY <1>1, <1>12, Parts DEF ServerTypes
  <1> QED BY <1>1, <1>4, <1>8, <1>10, <1>13, <1>14, <1>15, <1>16, <1>17, ServerKeeps

LEMMA ThreadTimeoutStep == ASSUME IInv, NEW t \in Threads, thread_timeout(t) PROVE IInv'
  <1>1. /\ srv.pc = "idle" /\ pc[t] = "queued" /\ srv' = [Srv0 EXCEPT !.pc = "remove", !.cur = t]
        /\ UNCHANGED <<word, pc, call, loc, left, cache_gen, queue, slot, reg>>
    BY DEF thread_timeout, client, Registry
  <1>2. /\ srv' \in Srvs /\ srv'.pc = "remove" /\ srv'.i = 1 /\ srv'.cur = t /\ srv'.pos = 0
    <2>1. Srv0.pos = 0 /\ Srv0.i = 1 BY DEF Srv0
    <2> QED BY <1>1, <2>1, FreshRequest, ZenonT(40) DEF Srvs, ServerPCs
  <1>3. Alone /\ WordTypes' /\ Calm BY <1>1, Parts, StaysAlone, WordsStay DEF Stays
  <1>4. RegisteredOK' BY <1>1, <1>3, RegistrationsKept DEF Alone
  <1>5. ServedOK'
    <2>1. Count(t) \in Nat /\ Count(t) > 0 BY <1>1, Parts, AskerAt DEF PlaceOK, PlaceAt
    <2>2. Count(srv.cur)' = Count(t) BY <1>1, <1>2 DEF Count
    <2>3. srv'.i \in 1..Count(srv.cur)' BY <1>2, <2>1, <2>2
    <2> QED BY <1>1, <1>2, <2>3, WaiterServed
  <1>6. Settled /\ Unguarded /\ Settled' /\ Unguarded' /\ Searching'
    BY <1>1, <1>2 DEF Settled, Unguarded, Searching
  <1>7. QueuesOK' BY <1>1, <1>6, QueuesKept
  <1>8. GuardOK' /\ ServerFlagExact' BY <1>1, <1>6, FlagsExact, GuardsKept
  <1>9. FoundOK' BY <1>6, NothingFound, PTL
  <1>10. ServerTypes' BY <1>1, <1>2, Parts DEF ServerTypes
  <1> QED BY <1>1, <1>3, <1>4, <1>5, <1>7, <1>8, <1>9, <1>10, ServerKeeps

LEMMA EndWaitStep == ASSUME IInv, end_wait PROVE IInv'
  <1>0. PICK t \in Threads, i \in Nat, o \in Objs : t = srv.cur /\ i = srv.i /\ o = WObj(t, i)
    BY WaiterAt DEF end_wait, WaitPCs
  <1> DEFINE self == srv.pos > 0 /\ t = srv.req
             x == [word[o] EXCEPT !.server = StillQueued(o, t)]
             n == IF Rescan.max > 0 THEN Rescan.max - 1 ELSE 0
             pos == IF srv.max = 1 THEN Len(queue[srv.obj]) + 1 ELSE 1
  <1>1. /\ srv.pc = "remove" /\ word' = [word EXCEPT ![o] = x]
        /\ queue' = [queue EXCEPT ![o] = RemoveFirst(@, t)]
        /\ UNCHANGED <<slot, reg, left, cache_gen>>
        /\ \/ i < Count(t) /\ srv' = [srv EXCEPT !.i = i + 1] /\ Stays
           \/ /\ i = Count(t)
              /\ srv' = IF srv.pos = 0 THEN Srv0 ELSE [Rescan EXCEPT !.max = n, !.pos = pos]
              /\ IF self THEN Goto(t, "served") /\ UNCHANGED <<call, loc>> ELSE Return(t)
    <2>1. ~(i < Count(t)) => i = Count(t) BY <1>0, WaiterAt DEF end_wait, WaitPCs
    <2>2. /\ srv.pc = "remove" /\ word' = [word EXCEPT ![o] = x]
          /\ queue' = [queue EXCEPT ![o] = RemoveFirst(@, t)] /\ UNCHANGED <<slot, reg, left, cache_gen>>
      BY <1>0 DEF end_wait, Registry, ServerOnly
    <2>3. CASE i < Count(t)
      <3>1. srv' = [srv EXCEPT !.i = i + 1] /\ Stays BY <1>0, <2>3, Zenon DEF end_wait, Stays
      <3> QED BY <2>2, <2>3, <3>1
    <2>4. CASE ~(i < Count(t))
      <3>1. /\ srv' = IF srv.pos = 0 THEN Srv0 ELSE [Rescan EXCEPT !.max = n, !.pos = pos]
            /\ IF self THEN Goto(t, "served") /\ UNCHANGED <<call, loc>> ELSE Return(t)
        BY <1>0, <2>4, Zenon DEF end_wait
      <3> QED BY <2>1, <2>2, <2>4, <3>1
    <2> QED BY <2>3, <2>4
  <1>2. /\ pc[t] = "queued" /\ i \in 1..Count(t) /\ Count(t) \in Nat /\ call[t].what \in Waits
        /\ call[t] \in CallsOf[t] /\ call[t] \in Calls /\ loc[t] \in Locs /\ reg[t] = {} /\ word[o] \in Words(o)
        /\ \A j \in 1..Count(t) : WObj(t, j) \in Objs
        /\ \A j, k \in 1..Count(t) : WObj(t, j) = WObj(t, k) => j = k
        /\ srv \in Srvs /\ Unguarded
        /\ srv.pos > 0 => Asking(srv.req) /\ srv.obj \in Objs
        /\ srv.pos \in Nat
    BY <1>0, <1>1, WaiterAt DEF WaitPCs
  <1>3. /\ WordTypes' /\ Calm /\ (word'[o].server <=> queue'[o] # <<>>) /\ word'[o].multi = word[o].multi
        /\ \A p \in Objs : p # o => word'[p] = word[p]
    <2> DEFINE b == StillQueued(o, t)
    <2>1. b \in BOOLEAN BY DEF StillQueued
    <2>2. b <=> queue'[o] # <<>>
      <3>1. queue'[o] = RemoveFirst(queue[o], t) BY <1>1, Parts DEF ServerTypes
      <3> QED BY <3>1 DEF StillQueued
    <2>3. x = [word[o] EXCEPT !.server = b] OBVIOUS
    <2> HIDE DEF b, x
    <2>4. /\ x \in Words(o) /\ x.server = b /\ x.multi = word[o].multi
          /\ x.low = word[o].low /\ x.locked = word[o].locked
      BY <1>2, <2>1, <2>3 DEF Words
    <2> QED BY <1>1, <2>2, <2>4, Parts, WordPut
  <1> HIDE DEF x
  <1>4. PICK k \in 1..Len(queue[o]) : queue[o][k] = t
    <2>1. ~Elsewhere(t, i) BY <1>0, <1>1, <1>2 DEF Elsewhere
    <2>2. WaitsOn(t, o) BY <1>0, <1>2, <2>1 DEF WaitsOn
    <2> QED BY <2>2, Parts DEF QueuesOK
  <1>5. /\ queue' \in [Objs -> Seq(Threads)]
        /\ \A u : (\E m \in 1..Len(queue'[o]) : queue'[o][m] = u) <=> u # t /\ \E m \in 1..Len(queue[o]) : queue[o][m] = u
        /\ \A m, j \in 1..Len(queue'[o]) : queue'[o][m] = queue'[o][j] => m = j
        /\ \A p \in Objs : p # o => queue'[p] = queue[p]
    <2>1. queue \in [Objs -> Seq(Threads)] /\ queue[o] \in Seq(Threads) BY Parts DEF ServerTypes
    <2>2. queue'[o] = RemoveFirst(queue[o], t) /\ \A p \in Objs : p # o => queue'[p] = queue[p] BY <1>1, <2>1
    <2>3. \A m, j \in 1..Len(queue[o]) : queue[o][m] = queue[o][j] => m = j BY Parts DEF QueuesOK
    <2>3a. queue[o] \in Seq(Threads) /\ queue[o][k] = t BY <1>4, <2>1
    <2>4. /\ RemoveFirst(queue[o], t) \in Seq(Threads)
          /\ \A u : (\E m \in 1..Len(RemoveFirst(queue[o], t)) : RemoveFirst(queue[o], t)[m] = u)
                      <=> u # t /\ \E m \in 1..Len(queue[o]) : queue[o][m] = u
          /\ \A m, j \in 1..Len(RemoveFirst(queue[o], t)) :
               RemoveFirst(queue[o], t)[m] = RemoveFirst(queue[o], t)[j] => m = j
      <3> DEFINE s == queue[o]
      <3>1. s \in Seq(Threads) /\ k \in 1..Len(s) /\ s[k] = t /\ \A m, j \in 1..Len(s) : s[m] = s[j] => m = j
        BY <2>3, <2>3a
      <3> HIDE DEF s
      <3>2. /\ RemoveFirst(s, s[k]) \in Seq(Threads)
            /\ \A u : (\E j \in 1..Len(RemoveFirst(s, s[k])) : RemoveFirst(s, s[k])[j] = u)
                        <=> u # s[k] /\ \E j \in 1..Len(s) : s[j] = u
            /\ \A j, m \in 1..Len(RemoveFirst(s, s[k])) : RemoveFirst(s, s[k])[j] = RemoveFirst(s, s[k])[m] => j = m
        BY <3>1, Removed
      <3> QED BY <3>1, <3>2 DEF s
    <2> QED BY <1>1, <2>1, <2>2, <2>4
  <1>5a. ASSUME \A u \in Threads : \A p \in Objs : WaitsOn(u, p)' <=> WaitsOn(u, p) /\ ~(u = t /\ p = o)
         PROVE  QueuesOK'
    <2>1. ASSUME NEW p \in Objs, NEW u \in Threads
          PROVE  (\E m \in 1..Len(queue'[p]) : queue'[p][m] = u) <=> WaitsOn(u, p)'
      <3>1. (\E m \in 1..Len(queue[p]) : queue[p][m] = u) <=> WaitsOn(u, p) BY Parts DEF QueuesOK
      <3>2. CASE p = o BY <1>5, <1>5a, <3>1, <3>2
      <3>3. CASE p # o BY <1>5, <1>5a, <3>1, <3>3
      <3> QED BY <3>2, <3>3
    <2>2. ASSUME NEW p \in Objs, NEW m \in 1..Len(queue'[p]), NEW j \in 1..Len(queue'[p]), queue'[p][m] = queue'[p][j]
          PROVE  m = j
      <3>1. CASE p = o BY <1>5, <2>2, <3>1
      <3>2. CASE p # o BY <1>5, <2>2, <3>2, Parts DEF QueuesOK
      <3> QED BY <3>1, <3>2
    <2> QED BY <2>1, <2>2 DEF QueuesOK
  <1>6. CASE i < Count(t) /\ srv' = [srv EXCEPT !.i = i + 1] /\ Stays
    <2>1. /\ srv' \in Srvs /\ srv'.pc = "remove" /\ srv'.i = i + 1 /\ srv'.cur = t /\ srv'.pos = srv.pos
          /\ srv'.req = srv.req /\ srv'.obj = srv.obj
      BY <1>0, <1>1, <1>2, <1>6, SMTT(20) DEF Srvs
    <2>2. Alone BY <1>6, StaysAlone
    <2>3. RegisteredOK' BY <1>1, <1>3, <1>6, <2>2, RegistrationsKept DEF Alone, Stays
    <2>4. ServedOK'
      <3>1. Asking(srv.req) => Asking(srv.req)' BY <1>6, <2>1 DEF Asking, Stays
      <3>2. Count(srv.cur)' = Count(t) BY <1>6, <2>1 DEF Count, Stays
      <3>3. srv'.i \in 1..Count(srv.cur)' BY <1>2, <1>6, <2>1, <3>2
      <3> QED BY <1>2, <1>6, <2>1, <3>1, <3>3, WaiterServed DEF Stays
    <2>5. ASSUME NEW u \in Threads, NEW p \in Objs PROVE WaitsOn(u, p)' <=> WaitsOn(u, p) /\ ~(u = t /\ p = o)
      <3>1. Count(u)' = Count(u) /\ pc'[u] = pc[u] /\ \A j : WObj(u, j)' = WObj(u, j) BY <1>6 DEF Stays, Count, WObj
      <3>2. CASE u # t
        <4>1. \A j : ~Elsewhere(u, j)' /\ ~Elsewhere(u, j) BY <1>0, <2>1, <3>2 DEF Elsewhere
        <4> QED BY <3>1, <3>2, <4>1 DEF WaitsOn
      <3>3. CASE u = t
        <4>1. \A j \in 1..Count(t) : (~Elsewhere(t, j) <=> j >= i) BY <1>0, <1>1, <1>2 DEF Elsewhere
        <4>2. \A j \in 1..Count(t) : ~Elsewhere(t, j)' <=> j >= i /\ j # i BY <1>2, <2>1 DEF Elsewhere
        <4>3. \A j \in 1..Count(t) : WObj(t, j) = o <=> j = i BY <1>0, <1>2
        <4> QED BY <1>2, <3>1, <3>3, <4>1, <4>2, <4>3 DEF WaitsOn
      <3> QED BY <3>2, <3>3
    <2>6. QueuesOK' BY <1>5a, <2>5
    <2>7. Unguarded' /\ Searching' BY <2>1 DEF Unguarded, Searching
    <2>8. GuardOK' /\ ServerFlagExact' BY <1>2, <1>3, <1>5, <2>7, FlagsExact, GuardsKept
    <2>9. FoundOK' BY <2>7, NothingFound, PTL
    <2>10. ServerTypes' BY <1>1, <1>5, <2>1, Parts DEF ServerTypes
    <2> QED BY <1>1, <1>3, <2>2, <2>3, <2>4, <2>6, <2>8, <2>9, <2>10, ServerKeeps
  <1>7. CASE /\ i = Count(t)
             /\ srv' = IF srv.pos = 0 THEN Srv0 ELSE [Rescan EXCEPT !.max = n, !.pos = pos]
             /\ IF self THEN Goto(t, "served") /\ UNCHANGED <<call, loc>> ELSE Return(t)
    <2>1. PICK w \in {"served", "idle"} : \E l, c : Serves(t, w, l, c) /\ (w = "served" <=> self) /\ (self => c = call[t])
      <3>1. CASE self
        <4>1. Moves(t, "served", loc[t], call[t]) BY <1>7, <3>1, Parts, MovesBy
        <4>2. call[t].what = "sigwait" BY <1>2, <3>1 DEF Asking
        <4>3. Fits(t, "served", loc[t], call[t])
          BY <1>2, <4>2 DEF Fits, PlaceAt, ClientPCs, AllPCs, AnyPCs, SignalPCs
        <4> QED BY <1>2, <3>1, <4>1, <4>3 DEF Serves, Served, Holding
      <3>2. CASE ~self
        <4>1. Moves(t, "idle", Loc0, NoCall) BY <1>7, <3>2, Parts, MovesBy
        <4> QED BY <1>2, <3>2, <4>1, IdleFits DEF Serves, Served, Holding
      <3> QED BY <3>1, <3>2
    <2>1a. PICK l, c : Serves(t, w, l, c) /\ (w = "served" <=> self) /\ (self => c = call[t]) BY <2>1
    <2>2. /\ pc'[t] = w /\ call'[t] = c
          /\ \A u \in Threads : u # t => pc'[u] = pc[u] /\ loc'[u] = loc[u] /\ call'[u] = call[u]
      BY <2>1a, Parts, Moved DEF Serves
    <2>3. Alone BY <2>1a, ServesAlone
    <2>4. RegisteredOK' BY <1>1, <1>2, <1>3, <2>2, <2>3, RegistrationsKept DEF Alone
    <2>6. /\ srv' \in Srvs /\ ServedOK' /\ srv'.pc \notin {"enqueue", "remove"} /\ Unguarded' /\ FoundOK'
      <3>1. CASE srv.pos = 0
        <4>1. srv' = Srv0 BY <1>7, <3>1
        <4> QED BY <4>1, Over DEF Srv0
      <3>2. CASE srv.pos # 0
        <4>1. srv' = [Rescan EXCEPT !.max = n, !.pos = pos] BY <1>7, <3>2
        <4>2. n \in Nat /\ pos \in Nat /\ pos > 0
          <5>1. Rescan.max \in Nat /\ srv.obj \in Objs BY <1>2, <3>2 DEF Srvs, Rescan
          <5>2. Len(queue[srv.obj]) \in Nat BY <5>1, Parts DEF ServerTypes
          <5> QED BY <5>1, <5>2
        <4> HIDE DEF n, pos
        <4>3. srv' \in Srvs /\ srv'.pc = "scan" /\ srv'.pos = pos /\ srv'.req = srv.req /\ srv'.obj = srv.obj
          BY <1>2, <4>1, <4>2 DEF Rescan, Srvs, ServerPCs
        <4>4. Asking(srv.req)'
          <5>1. Asking(srv.req) /\ srv.req \in Threads BY <1>2, <3>2 DEF Asking
          <5>2. CASE srv.req = t
            <6>1. self BY <1>2, <3>2, <5>2
            <6> QED BY <1>2, <2>1a, <2>2, <4>3, <5>1, <5>2, <6>1 DEF Asking
          <5>3. CASE srv.req # t BY <2>2, <4>3, <5>1, <5>3 DEF Asking
          <5> QED BY <5>2, <5>3
        <4>5. ServedOK' BY <1>2, <3>2, <4>2, <4>3, <4>4, ScanServed
        <4>6. Unguarded' /\ Searching' BY <4>3 DEF Unguarded, Searching
        <4>7. FoundOK' BY <4>6, NothingFound, PTL
        <4> QED BY <4>3, <4>5, <4>6, <4>7
      <3> QED BY <3>1, <3>2
    <2>7. ASSUME NEW u \in Threads, NEW p \in Objs PROVE WaitsOn(u, p)' <=> WaitsOn(u, p) /\ ~(u = t /\ p = o)
      <3>1. CASE u # t
        <4>1. Count(u)' = Count(u) /\ pc'[u] = pc[u] /\ \A j : WObj(u, j)' = WObj(u, j)
          BY <2>2, <3>1 DEF Count, WObj
        <4>2. \A j : ~Elsewhere(u, j)' /\ ~Elsewhere(u, j) BY <1>0, <2>6, <3>1 DEF Elsewhere
        <4> QED BY <3>1, <4>1, <4>2 DEF WaitsOn
      <3>2. CASE u = t
        <4>1. \A j \in 1..Count(t) : ~Elsewhere(t, j) <=> j = i BY <1>0, <1>1, <1>2, <1>7 DEF Elsewhere
        <4>2. \A j \in 1..Count(t) : WObj(t, j) = o <=> j = i BY <1>0, <1>2
        <4> QED BY <2>1a, <2>2, <3>2, <4>1, <4>2 DEF WaitsOn
      <3> QED BY <3>1, <3>2
    <2>8. QueuesOK' BY <1>5a, <2>7
    <2>9. GuardOK' /\ ServerFlagExact' BY <1>2, <1>3, <1>5, <2>6, FlagsExact, GuardsKept
    <2>10. ServerTypes' BY <1>1, <1>5, <2>6, Parts DEF ServerTypes
    <2> QED BY <1>1, <1>3, <2>3, <2>4, <2>6, <2>8, <2>9, <2>10, ServerKeeps
  <1> QED BY <1>1, <1>6, <1>7
(* The steps that leave the words' flags, the queues and the registrations *)
(* as they are.                                                            *)
SameWordFlags == \A o \in Objs : word'[o].server = word[o].server /\ word'[o].multi = word[o].multi

LEMMA ServerMoves ==
  ASSUME IInv, Alone, WordTypes', Calm, SameWordFlags,
         UNCHANGED <<queue, reg, left, cache_gen>>, slot' \in [Threads -> {0, 1}], srv' \in Srvs, ServedOK', FoundOK',
         Settled, Settled', Unguarded, Unguarded',
         srv.pc \notin {"flag", "regcheck"} \/ (srv'.pc \in {"flag", "regcheck"} /\ srv'.req = srv.req),
         \A t \in Threads : reg[t] # {} =>
           \/ pc'[t] = pc[t] /\ loc'[t] = loc[t] /\ call'[t] = call[t]
           \/ pc'[t] # "register" /\ RegisteredAt(pc'[t], loc'[t], call'[t]),
         \A t \in Threads : /\ pc'[t] = "queued" <=> pc[t] = "queued"
                            /\ pc[t] = "queued" => call'[t] = call[t]
  PROVE  IInv'
  <1>1. ServerTypes' BY Parts DEF ServerTypes
  <1>2. RegisteredOK' BY RegistrationsKept DEF Alone, SameWordFlags
  <1>3. QueuesOK' BY QueuesKept
  <1>4. GuardOK' /\ ServerFlagExact' BY FlagsExact, GuardsKept DEF SameWordFlags
  <1> QED BY <1>1, <1>2, <1>3, <1>4, ServerKeeps

(* ... nor is a thread served,                                             *)
LEMMA ServerGoes ==
  ASSUME IInv, Stays, UNCHANGED <<word, queue, reg, left, cache_gen>>, slot' \in [Threads -> {0, 1}], srv' \in Srvs,
         ServedOK', Searching', Settled, Settled', Unguarded, Unguarded',
         srv.pc \notin {"flag", "regcheck"} \/ (srv'.pc \in {"flag", "regcheck"} /\ srv'.req = srv.req)
  PROVE  IInv'
  <1>1. Alone /\ WordTypes' /\ Calm BY Parts, StaysAlone, WordsStay
  <1>2. FoundOK' BY NothingFound, PTL
  <1> QED BY <1>1, <1>2, ServerMoves DEF Stays, SameWordFlags

(* ... or the request ends and its thread goes on.                         *)
LEMMA ServerAnswers ==
  ASSUME IInv, NEW u \in Threads, NEW w, NEW l, NEW c, Serves(u, w, l, c), pc[u] # "queued", w # "queued",
         UNCHANGED <<word, queue, reg, left, cache_gen>>, slot' \in [Threads -> {0, 1}], srv' = Srv0,
         Settled, Unguarded, srv.pc \notin {"flag", "regcheck"},
         reg[u] # {} => w # "register" /\ RegisteredAt(w, l, c)
  PROVE  IInv'
  <1>1. Alone /\ WordTypes' /\ Calm BY Parts, ServesAlone, WordsStay
  <1>2. /\ pc'[u] = w /\ loc'[u] = l /\ call'[u] = c
        /\ \A t \in Threads : t # u => pc'[t] = pc[t] /\ loc'[t] = loc[t] /\ call'[t] = call[t]
    BY Parts, Moved DEF Serves
  <1>3. ServedOK' /\ Settled' /\ Unguarded' /\ FoundOK' /\ srv' \in Srvs BY Over
  <1> QED BY <1>1, <1>2, <1>3, ServerMoves DEF SameWordFlags

(* wineserver: signaling.                                                  *)
LEMMA SignalingServed ==
  ASSUME srv'.pc \in {"multi", "scan", "done", "abandon"}, Asking(srv.req)',
         srv'.obj \in Objs \/ (srv'.pos = 0 /\ srv'.pc \in {"done", "abandon"}),
         srv'.pc = "scan" => srv'.pos > 0, srv'.pc = "abandon" => call'[srv'.req].what = "exit"
  PROVE  ServedOK'
  BY DEF ServedOK, WaitServed, SignalServed, SlotServed, SlotPCs, TryPCs, WaitPCs, SignalingPCs

LEMMA StartRequestStep == ASSUME IInv, NEW t \in Threads, start_request(t) PROVE IInv'
  <1>1. /\ srv.pc = "idle" /\ pc[t] = "request" /\ call[t].what \in {"signal", "reset", "exit"}
        /\ UNCHANGED <<word, pc, call, loc, left, cache_gen, queue, slot, reg>>
    BY DEF start_request, client, Registry
  <1> DEFINE q == call[t].obj
             m == MaxWakes(q, call[t].n)
  <1>2. call[t].what # "exit" => q \in Objs /\ m \in Nat BY <1>1, AskerAt DEF MaxWakes
  <1>3. \/ call[t].what = "exit" /\ srv' = [Srv0 EXCEPT !.pc = "abandon", !.req = t]
        \/ call[t].what # "exit" /\ srv' = [Srv0 EXCEPT !.pc = "signal", !.req = t, !.obj = q, !.max = m]
    BY DEF start_request
  <1>3a. q = call[t].obj OBVIOUS
  <1> HIDE DEF q, m
  <1>4. /\ srv' \in Srvs /\ srv'.req = t /\ srv'.pos = 0
        /\ \/ srv'.pc = "abandon" /\ call[t].what = "exit"
           \/ srv'.pc = "signal" /\ srv'.obj \in Objs /\ srv'.obj = call[t].obj /\ call[t].what # "exit"
    <2>1. Srv0.pos = 0 BY DEF Srv0
    <2>2. CASE call[t].what = "exit" /\ srv' = [Srv0 EXCEPT !.pc = "abandon", !.req = t]
      BY <2>1, <2>2, FreshRequest, ZenonT(40) DEF Srvs, ServerPCs
    <2>3. CASE call[t].what # "exit" /\ srv' = [Srv0 EXCEPT !.pc = "signal", !.req = t, !.obj = q, !.max = m]
      BY <1>2, <1>3a, <2>1, <2>3, FreshRequest, ZenonT(40) DEF Srvs, ServerPCs
    <2> QED BY <1>3, <2>2, <2>3
  <1>5. ServedOK'
    <2>1. Asking(srv.req)' BY <1>1, <1>4 DEF Asking
    <2> QED BY <1>1, <1>4, <2>1
        DEF ServedOK, WaitServed, SignalServed, SlotServed, SlotPCs, TryPCs, WaitPCs, SignalingPCs
  <1>6. Settled' /\ Unguarded' /\ Searching' BY <1>4 DEF Settled, Unguarded, Searching
  <1>7. slot' \in [Threads -> {0, 1}] BY <1>1, Parts DEF ServerTypes
  <1> QED BY <1>1, <1>4, <1>5, <1>6, <1>7, IdleServer, ServerGoes DEF Stays

(* The thread that is served while an object is signaled.                  *)
LEMMA SignalerAt ==
  ASSUME IInv, srv.pc \in SignalingPCs
  PROVE  /\ srv \in Srvs /\ srv.req \in Threads /\ Asking(srv.req) /\ Settled /\ Unguarded
         /\ call[srv.req] \in Call /\ call[srv.req] \in Calls /\ call[srv.req] \in CallsOf[srv.req]
         /\ loc[srv.req] \in Locs /\ reg[srv.req] = {} /\ Count(srv.req) \in Nat
         /\ pc[srv.req] \in {"request", "queued", "served"}
         /\ call[srv.req].what \in {"signal", "reset", "sigwait"} => call[srv.req].obj \in Objs
         /\ call[srv.req].what \in Waits => Count(srv.req) > 0
         /\ srv.pc \in {"signal", "multi", "scan"} \/ srv.pos > 0 => srv.obj \in Objs
         /\ srv.pos \in Nat /\ (srv.pc = "scan" => srv.pos > 0)
  <1>1. Asking(srv.req) /\ srv.req \in Threads BY Parts DEF ServedOK, SignalServed, Asking
  <1>2. pc[srv.req] \in {"request", "queued", "served"} BY <1>1 DEF Asking
  <1>3. srv \in Srvs /\ Settled /\ Unguarded BY Parts DEF ServerTypes, Settled, Unguarded, SignalingPCs
  <1>4. /\ srv.pc \in {"signal", "multi", "scan"} \/ srv.pos > 0 => srv.obj \in Objs
        /\ srv.pos \in Nat /\ (srv.pc = "scan" => srv.pos > 0)
    BY <1>3, Parts DEF ServedOK, SignalServed, Srvs
  <1> QED BY <1>1, <1>2, <1>3, <1>4, AskerAt

LEMMA RescanServes ==
  ASSUME srv \in Srvs, srv' = Rescan
  PROVE  /\ srv' \in Srvs /\ srv'.pc = "scan" /\ srv'.pos = 1 /\ srv'.req = srv.req /\ srv'.obj = srv.obj
         /\ Settled' /\ Unguarded' /\ Searching'
  <1>1. srv' \in Srvs /\ srv'.pc = "scan" /\ srv'.pos = 1 /\ srv'.req = srv.req /\ srv'.obj = srv.obj
    BY DEF Rescan, Srvs, ServerPCs
  <1> QED BY <1>1 DEF Settled, Unguarded, Searching

LEMMA ServerSignalStep == ASSUME IInv, server_signal PROVE IInv'
  <1>0. PICK t \in Threads, o \in Objs : t = srv.req /\ o = srv.obj
    BY SignalerAt DEF server_signal, SignalingPCs
  <1> DEFINE c == call[t]
             y == Released(t)
  <1>1. /\ srv.pc = "signal" /\ ~word[o].locked /\ UNCHANGED <<queue, slot, reg, left, cache_gen>>
        /\ \/ /\ Refused(t) /\ c.what = "sigwait" /\ srv' = [srv EXCEPT !.pc = "remove", !.i = 1]
              /\ SetLoc(t, [loc[t] EXCEPT !.ret = "error"]) /\ UNCHANGED <<pc, call, word>>
           \/ c.what # "sigwait" /\ srv' = Srv0 /\ Finish(t, "error") /\ UNCHANGED word
           \/ /\ word' = [word EXCEPT ![o] = y] /\ UNCHANGED <<pc, call>>
              /\ \E r \in {"half", "success"} : SetLoc(t, [loc[t] EXCEPT !.ret = r])
              /\ \/ srv' = [srv EXCEPT !.pc = "multi"]
                 \/ srv' = Rescan
                 \/ srv' = [srv EXCEPT !.pc = "done"]
    BY <1>0 DEF server_signal, Registry, ServerOnly
  <1>2. /\ srv \in Srvs /\ Asking(t) /\ Settled /\ Unguarded /\ c \in Call /\ c \in Calls /\ c \in CallsOf[t]
        /\ loc[t] \in Locs /\ reg[t] = {} /\ Count(t) \in Nat /\ pc[t] \in {"request", "queued", "served"}
        /\ c.what \in Waits => Count(t) > 0
    BY <1>0, <1>1, SignalerAt DEF SignalingPCs
  <1>3. /\ srv.pos = 0 /\ c.what # "exit" /\ (c.what = "sigwait" => srv.cur = t /\ pc[t] = "queued")
        /\ srv.pc = "signal"
    BY <1>0, <1>1, Parts DEF ServedOK, SignalServed
  <1>4. slot' \in [Threads -> {0, 1}] BY <1>1, Parts DEF ServerTypes
  <1>5. \A r \in {"half", "success", "error"} : [loc[t] EXCEPT !.ret = r] \in Locs BY <1>2 DEF Locs, Rets
  <1>6. \A l \in Locs : Fits(t, pc[t], l, c)
    BY <1>2, Parts DEF Fits, PlaceOK, PlaceAt, ClientPCs, AllPCs, AnyPCs, SignalPCs
  <1>7. ASSUME NEW l \in Locs, SetLoc(t, l), UNCHANGED <<pc, call>>
        PROVE  /\ Serves(t, pc[t], l, c) /\ Alone /\ pc' = pc /\ call' = call
               /\ \A u \in Threads : u # t => loc'[u] = loc[u]
    <2>1. Moves(t, pc[t], l, c) BY <1>7, Parts, MovesBy
    <2>2. Serves(t, pc[t], l, c) BY <1>2, <1>6, <2>1 DEF Serves, Served, Holding
    <2> QED BY <1>7, <2>1, <2>2, Parts, ServesAlone, Moved
  <1>8. CASE /\ c.what = "sigwait" /\ srv' = [srv EXCEPT !.pc = "remove", !.i = 1]
             /\ SetLoc(t, [loc[t] EXCEPT !.ret = "error"]) /\ UNCHANGED <<pc, call, word>>
    <2>1. Alone /\ pc' = pc /\ call' = call /\ \A u \in Threads : u # t => loc'[u] = loc[u]
      BY <1>5, <1>7, <1>8
    <2>2. /\ srv' \in Srvs /\ srv'.pc = "remove" /\ srv'.i = 1 /\ srv'.cur = t /\ srv'.pos = 0
      BY <1>0, <1>2, <1>3, <1>8, ZenonT(40) DEF Srvs, ServerPCs
    <2>3. ServedOK'
      <3>1. Count(t) > 0 /\ Count(t)' = Count(t) BY <1>2, <1>8, <2>1 DEF Waits, Count
      <3>2. srv'.i \in 1..Count(srv.cur)' BY <1>2, <2>2, <3>1
      <3> QED BY <1>3, <1>8, <2>1, <2>2, <3>2, WaiterServed
    <2>4. Settled' /\ Unguarded' /\ Searching' BY <2>2 DEF Settled, Unguarded, Searching
    <2>5. FoundOK' BY <2>4, NothingFound, PTL
    <2>6. WordTypes' /\ Calm BY <1>8, Parts, WordsStay
    <2> QED BY <1>1, <1>2, <1>3, <1>4, <1>8, <2>1, <2>2, <2>3, <2>4, <2>5, <2>6, ServerMoves DEF SameWordFlags
  <1>9. CASE c.what # "sigwait" /\ srv' = Srv0 /\ Finish(t, "error") /\ UNCHANGED word
    <2>1. Moves(t, "return", [loc[t] EXCEPT !.ret = "error"], c) BY <1>9, Parts, MovesBy
    <2>2. Fits(t, "return", [loc[t] EXCEPT !.ret = "error"], c)
      BY <1>2, <1>5 DEF Fits, PlaceAt, ClientPCs, AllPCs, AnyPCs, SignalPCs
    <2>3. pc[t] = "request" BY <1>2, <1>9 DEF Asking
    <2>4. Serves(t, "return", [loc[t] EXCEPT !.ret = "error"], c) BY <2>1, <2>2, <2>3 DEF Serves, Served, Holding
    <2> QED BY <1>1, <1>2, <1>3, <1>4, <1>9, <2>3, <2>4, ServerAnswers
  <1>10. CASE /\ word' = [word EXCEPT ![o] = y] /\ UNCHANGED <<pc, call>>
              /\ \E r \in {"half", "success"} : SetLoc(t, [loc[t] EXCEPT !.ret = r])
              /\ \/ srv' = [srv EXCEPT !.pc = "multi"]
                 \/ srv' = Rescan
                 \/ srv' = [srv EXCEPT !.pc = "done"]
    <2>1. Alone /\ pc' = pc /\ call' = call /\ \A u \in Threads : u # t => loc'[u] = loc[u]
      BY <1>5, <1>7, <1>10
    <2>2. WordTypes' /\ Calm /\ SameWordFlags
      <3>0. o = c.obj BY <1>0, <1>3, Parts DEF ServedOK, SignalServed
      <3>1. word[o] \in Words(o) /\ c.obj \in Objs BY <3>0, Parts DEF WordTypes
      <3>2. Like(o, y, word[o]) BY <1>2, <3>0, <3>1, ReleasedWord
      <3> HIDE DEF y
      <3>3. y \in Words(o) /\ y.locked = word[o].locked /\ y.server = word[o].server /\ y.multi = word[o].multi
        BY <3>2 DEF Like, SameFlags
      <3>4. WordTypes' /\ word'[o] = y /\ (\A p \in Objs : p # o => word'[p] = word[p]) /\ Calm
        BY <1>1, <1>10, <3>3, Parts, WordPut
      <3> QED BY <3>3, <3>4 DEF SameWordFlags
    <2>3. /\ srv' \in Srvs /\ srv'.pc \in {"multi", "scan", "done"} /\ srv'.req = t /\ srv'.obj = o
          /\ (srv'.pc = "scan" => srv'.pos > 0)
      <3>1. CASE srv' = Rescan BY <1>0, <1>2, <3>1, RescanServes
      <3>2. CASE srv' \in {[srv EXCEPT !.pc = "multi"], [srv EXCEPT !.pc = "done"]}
        BY <1>0, <1>2, <3>2 DEF Srvs, ServerPCs
      <3> QED BY <1>10, <3>1, <3>2
    <2>4. ServedOK'
      <3>1. Asking(srv.req)' BY <1>2, <2>1, <2>3 DEF Asking
      <3> QED BY <2>3, <3>1, SignalingServed
    <2>5. Settled' /\ Unguarded' /\ Searching' BY <2>3 DEF Settled, Unguarded, Searching
    <2>6. FoundOK' BY <2>5, NothingFound, PTL
    <2> QED BY <1>1, <1>2, <1>3, <1>4, <2>1, <2>2, <2>3, <2>4, <2>5, <2>6, ServerMoves
  <1> QED BY <1>1, <1>8, <1>9, <1>10

LEMMA WakeWaitersStep == ASSUME IInv, wake_waiters_for_object PROVE IInv'
  <1>1. /\ srv.pc = "multi" /\ UNCHANGED <<word, pc, call, loc, left, cache_gen, queue, reg>>
        /\ slot' = [t \in Threads |-> IF srv.obj \in reg[t] THEN 0 ELSE slot[t]]
        /\ srv' = Rescan \/ srv' = [srv EXCEPT !.pc = "done"]
    BY DEF wake_waiters_for_object, client
  <1>2. srv \in Srvs /\ Asking(srv.req) /\ Settled /\ Unguarded /\ srv.obj \in Objs
    BY <1>1, SignalerAt DEF SignalingPCs
  <1>3. slot' \in [Threads -> {0, 1}] BY <1>1, Parts DEF ServerTypes
  <1>4. /\ srv' \in Srvs /\ srv'.pc \in {"scan", "done"} /\ srv'.req = srv.req /\ srv'.obj = srv.obj
        /\ (srv'.pc = "scan" => srv'.pos > 0)
    <2>1. CASE srv' = Rescan BY <1>2, <2>1, RescanServes
    <2>2. CASE srv' = [srv EXCEPT !.pc = "done"] BY <1>2, <2>2 DEF Srvs, ServerPCs
    <2> QED BY <1>1, <2>1, <2>2
  <1>5. ServedOK'
    <2>1. Asking(srv.req)' BY <1>1, <1>2, <1>4 DEF Asking
    <2> QED BY <1>2, <1>4, <2>1, SignalingServed
  <1>6. Settled' /\ Unguarded' /\ Searching' BY <1>4 DEF Settled, Unguarded, Searching
  <1> QED BY <1>1, <1>2, <1>3, <1>4, <1>5, <1>6, ServerGoes DEF Stays

LEMMA WakeUpStep == ASSUME IInv, wake_up PROVE IInv'
  <1>0. PICK o \in Objs, k \in Nat : o = srv.obj /\ k = srv.pos
    BY SignalerAt DEF wake_up, SignalingPCs
  <1>1. /\ srv.pc = "scan" /\ UNCHANGED <<word, pc, call, loc, left, cache_gen, queue, slot, reg>>
        /\ \/ srv' = [srv EXCEPT !.pc = "done"] \/ srv' = [srv EXCEPT !.pc = "multi"]
           \/ /\ ~(k > Len(queue[o]))
              /\ srv' = [srv EXCEPT !.pc = "check", !.i = 1, !.ok = TRUE, !.cur = queue[o][k]]
    <2>1. srv.pc = "scan" /\ UNCHANGED <<word, pc, call, loc, left, cache_gen, queue, slot, reg>>
      BY DEF wake_up, client, Registry
    <2>2. CASE k > Len(queue[o]) BY <1>0, <2>1, <2>2 DEF wake_up, ScanDone
    <2>3. CASE ~(k > Len(queue[o])) BY <1>0, <2>1, <2>3 DEF wake_up
    <2> QED BY <2>2, <2>3
  <1>2. /\ srv \in Srvs /\ Asking(srv.req) /\ Settled /\ Unguarded /\ k > 0 /\ slot \in [Threads -> {0, 1}]
        /\ queue[o] \in Seq(Threads)
    BY <1>0, <1>1, SignalerAt, Parts DEF SignalingPCs, ServerTypes
  <1>3. ASSUME srv' \in Srvs, ServedOK', Settled', Unguarded', Searching' PROVE IInv'
    BY <1>1, <1>2, <1>3, ServerGoes DEF Stays
  <1>4. Asking(srv.req) /\ srv'.req = srv.req => Asking(srv.req)' BY <1>1 DEF Asking
  <1>5. CASE srv' \in {[srv EXCEPT !.pc = "done"], [srv EXCEPT !.pc = "multi"]}
    <2>1. srv' \in Srvs /\ srv'.pc \in {"multi", "done"} /\ srv'.req = srv.req /\ srv'.obj = o
      BY <1>0, <1>2, <1>5 DEF Srvs, ServerPCs
    <2>2. ServedOK' BY <1>2, <1>4, <2>1, SignalingServed
    <2>3. Settled' /\ Unguarded' /\ Searching' BY <2>1 DEF Settled, Unguarded, Searching
    <2> QED BY <1>3, <2>1, <2>2, <2>3
  <1>6. CASE ~(k > Len(queue[o])) /\ srv' = [srv EXCEPT !.pc = "check", !.i = 1, !.ok = TRUE, !.cur = queue[o][k]]
    <2>1. k \in 1..Len(queue[o]) BY <1>2, <1>6
    <2>2. PICK u \in Threads : u = queue[o][k] BY <1>2, <2>1
    <2>3. WaitsOn(u, o) BY <2>1, <2>2, Parts DEF QueuesOK
    <2>4. pc[u] = "queued" /\ Count(u) \in Nat /\ Count(u) > 0
      <3>1. pc[u] = "queued" BY <2>3 DEF WaitsOn
      <3> QED BY <3>1, AskerAt, Parts DEF PlaceOK, PlaceAt
    <2>5. srv' = [srv EXCEPT !.pc = "check", !.i = 1, !.ok = TRUE, !.cur = u] BY <1>6, <2>2
    <2>6. /\ srv' \in Srvs /\ srv'.pc = "check" /\ srv'.i = 1 /\ srv'.cur = u /\ srv'.req = srv.req /\ srv'.obj = o
      BY <1>0, <1>2, <2>5 DEF Srvs, ServerPCs
    <2>7. ServedOK'
      <3>1. Count(srv.cur)' = Count(u) BY <1>1, <2>6 DEF Count
      <3>2. srv'.i \in 1..Count(srv.cur)' BY <2>4, <2>6, <3>1
      <3> QED BY <1>1, <1>2, <1>4, <2>4, <2>6, <3>2, WaiterServed
    <2>8. Settled' /\ Unguarded' /\ Searching' BY <2>6 DEF Settled, Unguarded, Searching
    <2> QED BY <1>3, <2>6, <2>7, <2>8
  <1> QED BY <1>1, <1>5, <1>6

LEMMA SignalDoneStep == ASSUME IInv, signal_done PROVE IInv'
  <1>0. PICK t \in Threads : t = srv.req BY SignalerAt DEF signal_done, SignalingPCs
  <1>1. /\ srv.pc = "done" /\ UNCHANGED <<word, left, cache_gen, queue, slot, reg>>
        /\ \/ call[t].what = "exit" /\ srv' = [srv EXCEPT !.pc = "abandon"] /\ Stays
           \/ /\ call[t].what = "sigwait" /\ pc[t] # "served"
              /\ srv' = [Srv0 EXCEPT !.pc = "check", !.req = t, !.cur = t] /\ Stays
           \/ (call[t].what # "sigwait" \/ pc[t] = "served") /\ srv' = Srv0 /\ Return(t)
    BY <1>0 DEF signal_done, SignalDone, Registry, ServerOnly, Stays
  <1>2. /\ srv \in Srvs /\ Asking(t) /\ Settled /\ Unguarded /\ reg[t] = {} /\ Count(t) \in Nat
        /\ call[t].what \in Waits => Count(t) > 0
        /\ srv.pos > 0 => srv.obj \in Objs
        /\ srv.pos \in Nat
        /\ slot \in [Threads -> {0, 1}]
    BY <1>0, <1>1, SignalerAt, Parts DEF SignalingPCs, ServerTypes
  <1>3. CASE call[t].what = "exit" /\ srv' = [srv EXCEPT !.pc = "abandon"] /\ Stays
    <2>1. /\ srv' \in Srvs /\ srv'.pc = "abandon" /\ srv'.req = t /\ srv'.obj = srv.obj /\ srv'.pos = srv.pos
      BY <1>0, <1>2, <1>3 DEF Srvs, ServerPCs
    <2>2. Asking(srv.req)' BY <1>2, <1>3, <2>1 DEF Asking, Stays
    <2>3. srv'.obj \in Objs \/ srv'.pos = 0 BY <1>2, <2>1
    <2>4. ServedOK' BY <1>3, <2>1, <2>2, <2>3, SignalingServed DEF Stays
    <2>5. Settled' /\ Unguarded' /\ Searching' BY <2>1 DEF Settled, Unguarded, Searching
    <2> QED BY <1>1, <1>2, <1>3, <2>1, <2>4, <2>5, ServerGoes
  <1>4. CASE /\ call[t].what = "sigwait" /\ pc[t] # "served"
             /\ srv' = [Srv0 EXCEPT !.pc = "check", !.req = t, !.cur = t] /\ Stays
    <2>1. /\ srv' \in Srvs /\ srv'.pc = "check" /\ srv'.cur = t /\ srv'.i = 1 /\ srv'.pos = 0
      <3>1. Srv0.i = 1 /\ Srv0.pos = 0 BY DEF Srv0
      <3> QED BY <1>4, <3>1, FreshRequest, ZenonT(40) DEF Srvs, ServerPCs
    <2>2. ServedOK'
      <3>1. pc'[t] = "queued" BY <1>2, <1>4 DEF Asking, Stays
      <3>2. Count(srv.cur)' = Count(t) /\ Count(t) > 0 BY <1>2, <1>4, <2>1 DEF Count, Stays, Waits
      <3>3. srv'.i \in 1..Count(srv.cur)' BY <1>2, <2>1, <3>2
      <3> QED BY <2>1, <3>1, <3>3, WaiterServed
    <2>3. Settled' /\ Unguarded' /\ Searching' BY <2>1 DEF Settled, Unguarded, Searching
    <2> QED BY <1>1, <1>2, <1>4, <2>1, <2>2, <2>3, ServerGoes
  <1>5. CASE (call[t].what # "sigwait" \/ pc[t] = "served") /\ srv' = Srv0 /\ Return(t)
    <2>1. Moves(t, "idle", Loc0, NoCall) BY <1>5, Parts, MovesBy
    <2>2. pc[t] \in {"request", "served"} BY <1>2, <1>5 DEF Asking
    <2>3. Serves(t, "idle", Loc0, NoCall) BY <2>1, <2>2, IdleFits DEF Serves, Served, Holding
    <2> QED BY <1>1, <1>2, <1>5, <2>2, <2>3, ServerAnswers
  <1> QED BY <1>1, <1>3, <1>4, <1>5

LEMMA WakeWfusyncStep == ASSUME IInv, NEW t \in Threads, wake_wfusync_waiters(t) PROVE IInv'
  <1>1. /\ srv.pc = "idle" /\ pc[t] = "notify" /\ Return(t)
        /\ slot' = [u \in Threads |-> IF call[t].obj \in reg[u] THEN 0 ELSE slot[u]]
        /\ UNCHANGED <<word, srv, queue, reg, left, cache_gen>>
    BY DEF wake_wfusync_waiters, ServerOnly
  <1>2. slot' \in [Threads -> {0, 1}] /\ reg[t] = {} BY <1>1, Parts, NotRegistered DEF ServerTypes
  <1>3. Moves(t, "idle", Loc0, NoCall) BY <1>1, Parts, MovesBy
  <1>4. Serves(t, "idle", Loc0, NoCall) BY <1>1, <1>3, IdleFits DEF Serves, Served, Holding
  <1>5. Alone /\ WordTypes' /\ Calm BY <1>1, <1>4, Parts, ServesAlone, WordsStay
  <1>6. \A u \in Threads : u # t => pc'[u] = pc[u] /\ loc'[u] = loc[u] /\ call'[u] = call[u]
    BY <1>3, Parts, Moved
  <1>7. pc'[t] = "idle" BY <1>3, Parts, Moved
  <1>8. /\ ServedOK' /\ Settled' /\ Unguarded' /\ Searching' /\ srv' \in Srvs
    <2>1. srv.pos = 0 \/ Asking(srv.req) BY Parts DEF ServedOK, SignalServed, ServerTypes, Srvs
    <2>2. Asking(srv.req) => Asking(srv.req)' BY <1>1, <1>6, <1>7 DEF Asking
    <2>3. srv.pos > 0 => call'[srv.req] = call[srv.req] BY <1>1, <1>6, Parts DEF ServedOK, SignalServed, Asking
    <2>4. ServedOK'
      BY <1>1, <2>2, Parts DEF ServedOK, WaitServed, SignalServed, SlotServed, SlotPCs, TryPCs, WaitPCs, SignalingPCs
    <2> QED BY <1>1, <2>4, Parts DEF Settled, Unguarded, Searching, ServerTypes
  <1>9. FoundOK' BY <1>8, NothingFound, PTL
  <1> QED BY <1>1, <1>2, <1>5, <1>6, <1>7, <1>8, <1>9, IdleServer, ServerMoves DEF SameWordFlags

LEMMA AbandonStep == ASSUME IInv, abandon_mutexes PROVE IInv'
  <1>0. PICK t \in Threads : t = srv.req BY SignalerAt DEF abandon_mutexes, SignalingPCs
  <1>1. srv.pc = "abandon" /\ UNCHANGED <<call, loc, queue, slot, reg, left, cache_gen>>
    BY DEF abandon_mutexes, Registry, ServerOnly
  <1>2. /\ srv \in Srvs /\ Asking(t) /\ Settled /\ Unguarded /\ reg[t] = {} /\ loc[t] \in Locs
        /\ call[t] \in Calls /\ call[t] \in CallsOf[t] /\ slot \in [Threads -> {0, 1}]
    BY <1>0, <1>1, SignalerAt, Parts DEF SignalingPCs, ServerTypes
  <1>3. call[t].what = "exit" BY <1>0, <1>1, Parts DEF ServedOK, SignalServed
  <1>4. pc[t] = "request" BY <1>2, <1>3 DEF Asking
  <1>5. CASE LaterMutexes = {} /\ srv' = Srv0 /\ Goto(t, "dead") /\ UNCHANGED word
    <2>1. Moves(t, "dead", loc[t], call[t]) BY <1>1, <1>5, Parts, MovesBy
    <2>2. Fits(t, "dead", loc[t], call[t])
      BY <1>2 DEF Fits, PlaceAt, ClientPCs, AllPCs, AnyPCs, SignalPCs
    <2>3. Serves(t, "dead", loc[t], call[t]) BY <1>4, <2>1, <2>2 DEF Serves, Served, Holding
    <2> QED BY <1>1, <1>2, <1>4, <1>5, <2>3, ServerAnswers
  <1>6. CASE LaterMutexes # {}
    <2>0. PICK o \in Objs : o = Min(LaterMutexes)
      <3>1. LaterMutexes \in SUBSET Objs BY DEF LaterMutexes
      <3> QED BY <1>6, <3>1, MinIn
    <2> DEFINE x == W(KindOf[o])!Abandoned(word[o], t)
    <2>1. /\ ~word[o].locked /\ UNCHANGED pc
          /\ \/ word' = [word EXCEPT ![o] = x] /\ srv' = [Rescan EXCEPT !.obj = o, !.max = 0]
             \/ UNCHANGED word /\ srv' = [srv EXCEPT !.obj = o]
      <3>1. DOMAIN word = Objs BY Parts DEF WordTypes
      <3> QED BY <1>0, <1>6, <2>0, <3>1 DEF abandon_mutexes
    <2>2. WordTypes' /\ Calm /\ SameWordFlags
      <3>1. word[o] \in Words(o) BY Parts DEF WordTypes
      <3>2. Like(o, x, word[o]) BY <3>1, AbandonedWord
      <3> HIDE DEF x
      <3>3. x \in Words(o) /\ x.locked = word[o].locked /\ x.server = word[o].server /\ x.multi = word[o].multi
        BY <3>2 DEF Like, SameFlags
      <3>4. CASE word' = [word EXCEPT ![o] = x]
        <4>1. WordTypes' /\ word'[o] = x /\ (\A p \in Objs : p # o => word'[p] = word[p]) /\ Calm
          BY <2>1, <3>3, <3>4, Parts, WordPut
        <4> QED BY <3>3, <4>1 DEF SameWordFlags
      <3>5. CASE UNCHANGED word BY <3>5, Parts, WordsStay DEF SameWordFlags
      <3> QED BY <2>1, <3>4, <3>5
    <2> HIDE DEF x
    <2>3. /\ srv' \in Srvs /\ srv'.pc \in {"scan", "abandon"} /\ srv'.req = t /\ srv'.obj = o
          /\ (srv'.pc = "scan" => srv'.pos > 0)
      <3> DEFINE R == Rescan
      <3>0. R \in Srvs /\ R.pc = "scan" /\ R.pos = 1 /\ R.req = t BY <1>0, <1>2 DEF Rescan, Srvs, ServerPCs
      <3>1. CASE srv' = [R EXCEPT !.obj = o, !.max = 0]
        <4>1. PICK q \in Srvs : q = R /\ q.pc = "scan" /\ q.pos = 1 /\ q.req = t BY <3>0
        <4>2. srv' = [q EXCEPT !.obj = o, !.max = 0] BY <3>1, <4>1
        <4> HIDE DEF R
        <4>3. srv' \in Srvs BY <4>2 DEF Srvs
        <4>4. srv'.pc = "scan" /\ srv'.pos = 1 /\ srv'.req = t /\ srv'.obj = o BY <4>1, <4>2 DEF Srvs
        <4> QED BY <4>3, <4>4
      <3>2. CASE srv' = [srv EXCEPT !.obj = o] BY <1>0, <1>1, <1>2, <3>2 DEF Srvs
      <3> QED BY <2>1, <3>1, <3>2
    <2>4. Stays BY <1>1, <2>1 DEF Stays
    <2>5. ServedOK'
      <3>1. Asking(srv.req)' BY <1>2, <2>3, <2>4 DEF Asking, Stays
      <3> QED BY <1>3, <2>3, <2>4, <3>1, SignalingServed DEF Stays
    <2>6. Settled' /\ Unguarded' /\ Searching' BY <2>3 DEF Settled, Unguarded, Searching
    <2>7. FoundOK' BY <2>6, NothingFound, PTL
    <2> QED BY <1>1, <1>2, <2>2, <2>3, <2>4, <2>5, <2>6, <2>7, StaysAlone, ServerMoves DEF Stays
  <1>7. LaterMutexes = {} => srv' = Srv0 /\ Goto(t, "dead") /\ UNCHANGED word BY <1>0 DEF abandon_mutexes
  <1> QED BY <1>5, <1>6, <1>7

-----------------------------------------------------------------------------
(* wineserver: slots.                                                      *)
LEMMA StartSlotStep == ASSUME IInv, NEW t \in Threads, start_slot_request(t) PROVE IInv'
  <1> DEFINE S == IF pc[t] = "register" THEN Range(call[t].objs) ELSE {}
  <1>1. /\ srv.pc = "idle" /\ pc[t] \in {"register", "unregister", "tryall"}
        /\ \/ pc[t] = "register" /\ srv' = [Srv0 EXCEPT !.req = t, !.pc = "arm", !.todo = S]
           \/ pc[t] = "tryall" /\ call[t].timeout = "zero" /\ srv' = [Srv0 EXCEPT !.req = t, !.pc = "guard", !.todo = S]
           \/ /\ pc[t] = "unregister" \/ (pc[t] = "tryall" /\ call[t].timeout # "zero")
              /\ srv' = [Srv0 EXCEPT !.req = t, !.pc = "unregister", !.todo = S]
        /\ UNCHANGED <<word, pc, call, loc, left, cache_gen, queue, slot, reg>>
    BY DEF start_slot_request, client, Registry
  <1>2. /\ call[t].what \in {"waitall", "waitany"} /\ Count(t) \in Nat /\ Count(t) > 0
        /\ Range(call[t].objs) = {WObj(t, j) : j \in 1..Count(t)} /\ \A j \in 1..Count(t) : WObj(t, j) \in Objs
    BY <1>1, CallAt, Parts DEF PlaceOK, PlaceAt, AllPCs, AnyPCs, Waits
  <1>3. S \in SUBSET Objs /\ (pc[t] = "register" => S # {} /\ S \subseteq Range(call[t].objs))
        /\ (pc[t] # "register" => S = {})
    <2>1. 1 \in 1..Count(t) BY <1>2
    <2> QED BY <1>2, <2>1
  <1> HIDE DEF S
  <1>4. /\ srv' \in Srvs /\ srv'.req = t /\ srv'.pos = 0 /\ srv'.i = 1 /\ srv'.guarded = 0 /\ srv'.todo = S
        /\ \/ srv'.pc = "arm" /\ pc[t] = "register"
           \/ srv'.pc = "guard" /\ pc[t] = "tryall" /\ call[t].timeout = "zero"
           \/ srv'.pc = "unregister" /\ pc[t] # "register"
    <2>1. Srv0.pos = 0 /\ Srv0.i = 1 /\ Srv0.guarded = 0 BY DEF Srv0
    <2>2. ASSUME NEW w \in {"arm", "guard", "unregister"}, srv' = [Srv0 EXCEPT !.req = t, !.pc = w, !.todo = S]
          PROVE  /\ srv' \in Srvs /\ srv'.req = t /\ srv'.pos = 0 /\ srv'.i = 1 /\ srv'.guarded = 0
                 /\ srv'.todo = S /\ srv'.pc = w
      BY <1>3, <2>1, <2>2, FreshRequest DEF Srvs, ServerPCs
    <2> QED BY <1>1, <2>2
  <1>5. reg[t] # {} => pc[t] = "unregister" \/ (pc[t] = "tryall" /\ call[t].timeout # "zero")
    <2>1. pc[t] = "register" => reg[t] = {} BY <1>1, Parts DEF RegisteredOK
    <2>2. pc[t] = "tryall" => call[t].what = "waitall" BY Parts DEF PlaceOK, PlaceAt, AllPCs
    <2> QED BY <1>1, <2>1, <2>2, NotRegistered DEF RegisteredAt
  <1>6. ServedOK'
    <2>1. 1 \in 1..Count(t) /\ Count(t)' = Count(t) BY <1>1, <1>2 DEF Count
    <2>2. WaitServed' /\ SignalServed' BY <1>4 DEF WaitServed, SignalServed, WaitPCs, SignalingPCs
    <2>3. SlotServed'
      <3>1. CASE srv'.pc = "arm" BY <1>1, <1>3, <1>4, <1>5, <3>1 DEF SlotServed, SlotPCs, TryPCs
      <3>2. CASE srv'.pc = "guard" BY <1>1, <1>3, <1>4, <1>5, <2>1, <3>2 DEF SlotServed, SlotPCs, TryPCs
      <3>3. CASE srv'.pc = "unregister" BY <1>1, <1>3, <1>4, <3>3 DEF SlotServed, SlotPCs, TryPCs
      <3> QED BY <1>4, <3>1, <3>2, <3>3
    <2> QED BY <2>2, <2>3 DEF ServedOK
  <1>7. Settled' /\ Unguarded' /\ Searching' BY <1>4 DEF Settled, Unguarded, Searching
  <1>8. slot' \in [Threads -> {0, 1}] BY <1>1, Parts DEF ServerTypes
  <1> QED BY <1>1, <1>4, <1>6, <1>7, <1>8, IdleServer, ServerGoes DEF Stays

(* The thread whose slot it is about.                                      *)
LEMMA SlotAt ==
  ASSUME IInv, srv.pc \in SlotPCs
  PROVE  LET t == srv.req IN
         /\ srv \in Srvs /\ t \in Threads /\ pc[t] \in {"register", "unregister", "tryall"} /\ srv.pos = 0
         /\ call[t] \in CallsOf[t] /\ call[t] \in Calls /\ loc[t] \in Locs /\ Count(t) \in Nat /\ Count(t) > 0
         /\ (\A j \in 1..Count(t) : WObj(t, j) \in Objs)
         /\ (\A j, k \in 1..Count(t) : WObj(t, j) = WObj(t, k) => j = k)
         /\ Range(call[t].objs) = {WObj(t, j) : j \in 1..Count(t)} /\ Range(call[t].objs) \subseteq Objs
         /\ (pc[t] = "register" => call[t].what = "waitany") /\ (pc[t] = "tryall" => call[t].what = "waitall")
         /\ call[t].what \in {"waitall", "waitany"}
         /\ Settled /\ slot \in [Threads -> {0, 1}] /\ reg[t] \in SUBSET Objs
  <1>1. /\ srv \in Srvs /\ srv.req \in Threads /\ pc[srv.req] \in {"register", "unregister", "tryall"} /\ srv.pos = 0
        /\ slot \in [Threads -> {0, 1}]
    BY Parts DEF ServedOK, SlotServed, ServerTypes
  <1>2. /\ pc[srv.req] = "register" => call[srv.req].what = "waitany"
        /\ pc[srv.req] = "tryall" => call[srv.req].what = "waitall"
        /\ call[srv.req].what \in {"waitall", "waitany"}
        /\ call[srv.req] \in CallsOf[srv.req]
    BY <1>1, Parts DEF PlaceOK, PlaceAt, AllPCs, AnyPCs
  <1>3. /\ call[srv.req] \in Calls /\ loc[srv.req] \in Locs /\ Count(srv.req) \in Nat /\ Count(srv.req) > 0
        /\ \A j \in 1..Count(srv.req) : WObj(srv.req, j) \in Objs
        /\ \A j, k \in 1..Count(srv.req) : WObj(srv.req, j) = WObj(srv.req, k) => j = k
        /\ Range(call[srv.req].objs) = {WObj(srv.req, j) : j \in 1..Count(srv.req)}
    BY <1>1, <1>2, Parts, CallAt DEF Waits, Calls
  <1>4. Settled BY DEF Settled, SlotPCs
  <1>5. reg[srv.req] \in SUBSET Objs BY <1>1, Parts DEF ServerTypes
  <1> QED BY <1>1, <1>2, <1>3, <1>4, <1>5

LEMMA ArmStep == ASSUME IInv, arm_slot PROVE IInv'
  <1>1. /\ srv.pc = "arm" /\ slot' = [slot EXCEPT ![srv.req] = 1] /\ srv' = [srv EXCEPT !.pc = "flag"]
        /\ UNCHANGED <<word, pc, call, loc, left, cache_gen, queue, reg>>
    BY DEF arm_slot, client
  <1>2. srv \in Srvs /\ Settled /\ slot \in [Threads -> {0, 1}] BY <1>1, SlotAt DEF SlotPCs
  <1>3. /\ srv' \in Srvs /\ srv'.pc = "flag" /\ srv'.req = srv.req /\ srv'.todo = srv.todo /\ srv'.pos = srv.pos
    BY <1>1, <1>2 DEF Srvs, ServerPCs
  <1>4. ServedOK'
    <2>1. WaitServed' /\ SignalServed' BY <1>1, <1>3, SlotAt DEF WaitServed, SignalServed, WaitPCs, SignalingPCs, SlotPCs
    <2>2. SlotServed' BY <1>1, <1>3, Parts DEF ServedOK, SlotServed, SlotPCs, TryPCs
    <2> QED BY <2>1, <2>2 DEF ServedOK
  <1>5. Unguarded /\ Settled' /\ Unguarded' /\ Searching' BY <1>1, <1>3 DEF Settled, Unguarded, Searching
  <1>6. slot' \in [Threads -> {0, 1}] BY <1>1, <1>2
  <1> QED BY <1>1, <1>2, <1>3, <1>4, <1>5, <1>6, ServerGoes DEF Stays

LEMMA AddWaiterStep == ASSUME IInv, add_multi_waiter PROVE IInv'
  <1>0. PICK t \in Threads : t = srv.req BY SlotAt DEF add_multi_waiter, SlotPCs
  <1>1. /\ srv.pc = "flag" /\ UNCHANGED <<pc, call, loc, left, cache_gen, queue, slot>>
    BY DEF add_multi_waiter, client
  <1>2. /\ srv \in Srvs /\ Settled /\ slot \in [Threads -> {0, 1}] /\ reg[t] \in SUBSET Objs /\ srv.pos = 0
        /\ pc[t] \in {"register", "unregister", "tryall"}
        /\ pc[t] = "register" => call[t].what = "waitany"
    BY <1>0, <1>1, SlotAt DEF SlotPCs
  <1>3. /\ srv.todo \subseteq Range(call[t].objs) /\ reg[t] \subseteq srv.todo /\ reg[t] # srv.todo /\ srv.todo # {}
        /\ pc[t] # "unregister" /\ (pc[t] = "tryall" => call[t].timeout # "zero")
    BY <1>0, <1>1, Parts DEF ServedOK, SlotServed
  <1>4. PICK o \in Objs : o = Min(srv.todo \ reg[t]) /\ o \in srv.todo
    <2>1. srv.todo \in SUBSET Objs BY <1>2 DEF Srvs
    <2>2. srv.todo \ reg[t] \in SUBSET Objs /\ srv.todo \ reg[t] # {} BY <1>3, <2>1
    <2> QED BY <2>2, MinIn
  <1> DEFINE x == [word[o] EXCEPT !.multi = TRUE]
  <1>5. /\ reg' = [reg EXCEPT ![t] = reg[t] \cup {o}] /\ word' = [word EXCEPT ![o] = x]
        /\ IF srv.todo \subseteq reg[t] \cup {o} THEN srv' = [srv EXCEPT !.pc = "regcheck"] ELSE srv' = srv
    BY <1>0, <1>4 DEF add_multi_waiter
  <1>6. /\ WordTypes' /\ Calm /\ word'[o].multi = TRUE /\ word'[o].server = word[o].server
        /\ \A p \in Objs : p # o => word'[p] = word[p]
    <2>1. word[o] \in Words(o) BY Parts DEF WordTypes
    <2>2. /\ x \in Words(o) /\ x.multi = TRUE /\ x.server = word[o].server
          /\ x.low = word[o].low /\ x.locked = word[o].locked
      BY <2>1 DEF Words
    <2> HIDE DEF x
    <2> QED BY <1>5, <2>2, Parts, WordPut
  <1> HIDE DEF x
  <1>7. reg' \in [Threads -> SUBSET Objs] /\ reg'[t] = reg[t] \cup {o} /\ \A u \in Threads : u # t => reg'[u] = reg[u]
    BY <1>2, <1>5, Parts DEF ServerTypes
  <1>8. /\ srv' \in Srvs /\ srv'.pc \in {"flag", "regcheck"} /\ srv'.req = t /\ srv'.todo = srv.todo /\ srv'.pos = 0
        /\ srv'.pc = "flag" => ~(srv.todo \subseteq reg[t] \cup {o})
    <2>1. CASE srv.todo \subseteq reg[t] \cup {o} BY <1>0, <1>2, <1>5, <2>1 DEF Srvs, ServerPCs
    <2>2. CASE ~(srv.todo \subseteq reg[t] \cup {o}) BY <1>0, <1>1, <1>2, <1>5, <2>2
    <2> QED BY <2>1, <2>2
  <1>9. Alone BY <1>1, StaysAlone DEF Stays
  <1>10. RegisteredOK'
    <2>1. ASSUME NEW u \in Threads, reg'[u] # {}
          PROVE  /\ RegisteredAt(pc'[u], loc'[u], call'[u])
                 /\ pc'[u] = "register" => srv'.req = u /\ srv'.pc \in {"flag", "regcheck"}
      <3>1. CASE u = t BY <1>1, <1>2, <1>3, <1>8, <3>1 DEF RegisteredAt
      <3>2. CASE u # t BY <1>0, <1>1, <1>7, <2>1, <3>2, Parts DEF RegisteredOK
      <3> QED BY <3>1, <3>2
    <2>2. ASSUME NEW p \in Objs PROVE word'[p].multi <=> \E u \in Threads : p \in reg'[u]
      <3>1. CASE p = o BY <1>6, <1>7, <3>1
      <3>2. CASE p # o
        <4>1. \A u \in Threads : p \in reg'[u] <=> p \in reg[u] BY <1>7, <3>2
        <4> QED BY <1>6, <3>2, <4>1, Parts DEF RegisteredOK
      <3> QED BY <3>1, <3>2
    <2> QED BY <2>1, <2>2 DEF RegisteredOK
  <1>11. ServedOK'
    <2>1. WaitServed' /\ SignalServed' BY <1>8 DEF WaitServed, SignalServed, WaitPCs, SignalingPCs
    <2>2. SlotServed' BY <1>1, <1>2, <1>3, <1>4, <1>7, <1>8 DEF SlotServed, SlotPCs, TryPCs
    <2> QED BY <2>1, <2>2 DEF ServedOK
  <1>12. Settled' /\ Unguarded' /\ Searching' /\ Unguarded BY <1>1, <1>8 DEF Settled, Unguarded, Searching
  <1>13. FoundOK' BY <1>12, NothingFound, PTL
  <1>14. QueuesOK' BY <1>1, <1>2, <1>12, QueuesKept
  <1>15. GuardOK' /\ ServerFlagExact'
    <2>1. \A p \in Objs : word'[p].server <=> queue'[p] # <<>> BY <1>1, <1>6, <1>12, FlagsExact
    <2> QED BY <1>12, <2>1, GuardsKept
  <1>16. ServerTypes' BY <1>1, <1>7, <1>8, Parts DEF ServerTypes
  <1> QED BY <1>1, <1>6, <1>9, <1>10, <1>11, <1>13, <1>14, <1>15, <1>16, ServerKeeps

LEMMA RegisterCheckStep == ASSUME IInv, register_check PROVE IInv'
  <1>0. PICK t \in Threads : t = srv.req BY SlotAt DEF register_check, SlotPCs
  <1> DEFINE l == [loc[t] EXCEPT !.i = 1, !.phase = 2]
             w == IF call[t].what = "waitall" THEN "sleep" ELSE "any_check"
  <1>1. /\ srv.pc = "regcheck" /\ UNCHANGED <<word, left, cache_gen, queue, reg>>
        /\ \/ /\ slot' = [slot EXCEPT ![t] = 0] \/ slot' = slot
              /\ srv' = Srv0 /\ Goto(t, w) /\ SetLoc(t, l) /\ UNCHANGED call
           \/ /\ srv' = [srv EXCEPT !.todo = srv.todo \ {Min(srv.todo)}]
              /\ srv.todo # {Min(srv.todo)} /\ Stays /\ slot' = slot
    BY <1>0 DEF register_check, Registered, Answer, LastToCheck, ServerOnly, Stays
  <1>2. /\ srv \in Srvs /\ Settled /\ slot \in [Threads -> {0, 1}] /\ srv.pos = 0
        /\ pc[t] \in {"register", "unregister", "tryall"} /\ call[t].what \in {"waitall", "waitany"}
        /\ pc[t] = "register" => call[t].what = "waitany"
        /\ call[t] \in CallsOf[t] /\ call[t] \in Calls /\ loc[t] \in Locs /\ Count(t) \in Nat /\ Count(t) > 0
    BY <1>0, <1>1, SlotAt DEF SlotPCs
  <1>3. /\ srv.todo \subseteq Range(call[t].objs) /\ srv.todo # {}
        /\ pc[t] # "unregister" /\ (pc[t] = "tryall" => call[t].timeout # "zero")
    BY <1>0, <1>1, Parts DEF ServedOK, SlotServed
  <1>4. Unguarded BY <1>1 DEF Unguarded
  <1>5. slot' \in [Threads -> {0, 1}] BY <1>1, <1>2
  <1>6. CASE srv' = Srv0 /\ Goto(t, w) /\ SetLoc(t, l) /\ UNCHANGED call
    <2>1. Moves(t, w, l, call[t]) BY <1>6, Parts, MovesBy
    <2>2. l \in Locs /\ l.i = 1 /\ l.phase = 2
      <3>1. 1 \in Nat /\ 2 \in 1..3 OBVIOUS
      <3> QED BY <1>2, <3>1 DEF Locs
    <2>3. w \in {"sleep", "any_check"} /\ (w = "any_check" => call[t].what = "waitany") BY <1>2
    <2> HIDE DEF l, w
    <2>4. 1 \in 1..Len(call[t].objs) BY <1>2 DEF Count
    <2>5. Fits(t, w, l, call[t])
      BY <1>2, <2>2, <2>3, <2>4 DEF Fits, PlaceAt, ClientPCs, AllPCs, AnyPCs, SignalPCs
    <2>6. Serves(t, w, l, call[t]) BY <1>2, <2>1, <2>3, <2>5 DEF Serves, Served, Holding
    <2>7. Alone BY <2>6, ServesAlone
    <2>8. /\ pc'[t] = w /\ loc'[t] = l /\ call'[t] = call[t]
          /\ \A u \in Threads : u # t => pc'[u] = pc[u] /\ loc'[u] = loc[u] /\ call'[u] = call[u]
      BY <2>1, Parts, Moved
    <2>9. RegisteredAt(w, l, call[t]) BY <1>2, <1>3, <2>2, <2>3 DEF RegisteredAt
    <2>10. RegisteredOK'
      <3>1. ASSUME NEW u \in Threads, reg'[u] # {}
            PROVE  RegisteredAt(pc'[u], loc'[u], call'[u]) /\ pc'[u] # "register"
        <4>1. CASE u = t BY <2>3, <2>8, <2>9, <4>1
        <4>2. CASE u # t BY <1>0, <1>1, <2>8, <3>1, <4>2, Parts DEF RegisteredOK
        <4> QED BY <4>1, <4>2
      <3> QED BY <1>1, <3>1, Parts DEF RegisteredOK
    <2>11. ServedOK' /\ Settled' /\ Unguarded' /\ FoundOK' /\ srv' \in Srvs BY <1>6, Over
    <2>12. WordTypes' /\ Calm BY <1>1, Parts, WordsStay
    <2>13. \A u \in Threads : /\ pc'[u] = "queued" <=> pc[u] = "queued"
                              /\ pc[u] = "queued" => call'[u] = call[u]
      BY <1>2, <2>3, <2>8
    <2>14. QueuesOK' BY <1>1, <1>2, <2>11, <2>13, QueuesKept
    <2>15. GuardOK' /\ ServerFlagExact' BY <1>1, <1>4, <2>11, FlagsExact, GuardsKept
    <2>16. ServerTypes' BY <1>1, <1>5, <2>11, Parts DEF ServerTypes
    <2> QED BY <1>1, <2>7, <2>10, <2>11, <2>12, <2>14, <2>15, <2>16, ServerKeeps
  <1>7. CASE /\ srv' = [srv EXCEPT !.todo = srv.todo \ {Min(srv.todo)}]
             /\ srv.todo # {Min(srv.todo)} /\ Stays /\ slot' = slot
    <2> DEFINE S == srv.todo \ {Min(srv.todo)}
    <2>1. S \subseteq srv.todo /\ S # {} /\ S \in SUBSET Objs
      <3>1. srv.todo \in SUBSET Objs BY <1>2 DEF Srvs
      <3> QED BY <1>3, <1>7, <3>1, MinIn
    <2>2. srv' = [srv EXCEPT !.todo = S] BY <1>7
    <2> HIDE DEF S
    <2>3. srv' \in Srvs /\ srv'.pc = "regcheck" /\ srv'.req = t /\ srv'.pos = 0 /\ srv'.todo = S
      BY <1>0, <1>1, <1>2, <2>1, <2>2 DEF Srvs
    <2>4. ServedOK'
      <3>1. WaitServed' /\ SignalServed' BY <2>3 DEF WaitServed, SignalServed, WaitPCs, SignalingPCs
      <3>2. SlotServed' BY <1>2, <1>3, <1>7, <2>1, <2>3 DEF SlotServed, SlotPCs, TryPCs, Stays
      <3> QED BY <3>1, <3>2 DEF ServedOK
    <2>5. Settled' /\ Unguarded' /\ Searching' BY <2>3 DEF Settled, Unguarded, Searching
    <2> QED BY <1>0, <1>1, <1>2, <1>4, <1>5, <1>7, <2>3, <2>4, <2>5, ServerGoes
  <1> QED BY <1>1, <1>6, <1>7

LEMMA RemoveWaiterStep == ASSUME IInv, remove_multi_waiter PROVE IInv'
  <1>0. PICK t \in Threads : t = srv.req BY SlotAt DEF remove_multi_waiter, SlotPCs
  <1>1. /\ srv.pc = "unregister" /\ reg[t] # {} /\ UNCHANGED <<pc, call, loc, left, cache_gen, srv, queue, slot>>
    BY <1>0 DEF remove_multi_waiter, client
  <1>2. /\ srv \in Srvs /\ Settled /\ slot \in [Threads -> {0, 1}] /\ reg[t] \in SUBSET Objs
    BY <1>0, <1>1, SlotAt DEF SlotPCs
  <1>3. PICK o \in Objs : o = Min(reg[t]) BY <1>1, <1>2, MinIn
  <1> DEFINE b == StillMulti(o, t)
             x == [word[o] EXCEPT !.multi = b]
  <1>4. reg' = [reg EXCEPT ![t] = reg[t] \ {o}] /\ word' = [word EXCEPT ![o] = x]
    BY <1>0, <1>3 DEF remove_multi_waiter
  <1>5. /\ WordTypes' /\ Calm /\ (word'[o].multi <=> StillMulti(o, t)) /\ word'[o].server = word[o].server
        /\ \A p \in Objs : p # o => word'[p] = word[p]
    <2>1. word[o] \in Words(o) BY Parts DEF WordTypes
    <2>2. b \in BOOLEAN /\ (b <=> StillMulti(o, t)) BY DEF StillMulti
    <2> HIDE DEF b
    <2>3. /\ x \in Words(o) /\ x.multi = b /\ x.server = word[o].server
          /\ x.low = word[o].low /\ x.locked = word[o].locked
      BY <2>1, <2>2 DEF Words
    <2> HIDE DEF x
    <2> QED BY <1>4, <2>2, <2>3, Parts, WordPut
  <1> HIDE DEF x, b
  <1>6. reg' \in [Threads -> SUBSET Objs] /\ reg'[t] = reg[t] \ {o} /\ \A u \in Threads : u # t => reg'[u] = reg[u]
    BY <1>2, <1>4, Parts DEF ServerTypes
  <1>7. Alone BY <1>1, StaysAlone DEF Stays
  <1>8. RegisteredOK'
    <2>1. \A u \in Threads : reg'[u] # {} => reg[u] # {} BY <1>6
    <2>2. ASSUME NEW p \in Objs PROVE word'[p].multi <=> \E u \in Threads : p \in reg'[u]
      <3>1. CASE p = o
        <4>1. StillMulti(o, t) <=> \E u \in Threads : o \in reg'[u] BY <1>6 DEF StillMulti
        <4> QED BY <1>5, <3>1, <4>1
      <3>2. CASE p # o
        <4>1. \A u \in Threads : p \in reg'[u] <=> p \in reg[u] BY <1>6, <3>2
        <4> QED BY <1>5, <3>2, <4>1, Parts DEF RegisteredOK
      <3> QED BY <3>1, <3>2
    <2> QED BY <1>1, <2>1, <2>2, Parts DEF RegisteredOK
  <1>9. ServedOK' BY <1>1, Parts
        DEF ServedOK, WaitServed, SignalServed, SlotServed, SlotPCs, TryPCs, WaitPCs, SignalingPCs, Asking
  <1>10. Settled' /\ Unguarded' /\ Searching' /\ Unguarded BY <1>1, <1>2 DEF Settled, Unguarded, Searching
  <1>11. FoundOK' BY <1>10, NothingFound, PTL
  <1>12. QueuesOK' BY <1>1, <1>2, <1>10, QueuesKept
  <1>13. GuardOK' /\ ServerFlagExact'
    <2>1. \A p \in Objs : word'[p].server <=> queue'[p] # <<>> BY <1>1, <1>5, <1>10, FlagsExact
    <2> QED BY <1>10, <2>1, GuardsKept
  <1>14. ServerTypes' BY <1>1, <1>6, Parts DEF ServerTypes
  <1> QED BY <1>1, <1>5, <1>7, <1>8, <1>9, <1>11, <1>12, <1>13, <1>14, ServerKeeps

(* The request is answered, or given up.                                   *)
LEMMA Answers ==
  ASSUME IInv, srv.pc \in SlotPCs \ {"flag", "regcheck"}, Unguarded, reg[srv.req] = {}, srv' = Srv0,
         UNCHANGED <<word, queue, reg, left, cache_gen>>, slot' \in [Threads -> {0, 1}],
         \/ Return(srv.req)
         \/ Fallback(srv.req)
         \/ \E w \in {"any_check", "refresh"} : \E l \in Locs :
              /\ Goto(srv.req, w) /\ SetLoc(srv.req, l) /\ UNCHANGED call /\ l.i = 1
              /\ w = "any_check" => call[srv.req].what = "waitany"
              /\ w = "refresh" => call[srv.req].what = "waitall"
  PROVE  IInv'
  <1>0. PICK t \in Threads : t = srv.req BY SlotAt
  <1>1. /\ pc[t] \in {"register", "unregister", "tryall"} /\ Settled /\ call[t] \in CallsOf[t] /\ call[t] \in Calls
        /\ Count(t) \in Nat /\ Count(t) > 0 /\ call[t].what \in {"waitall", "waitany"} /\ reg[t] = {}
    BY <1>0, SlotAt
  <1>2. ASSUME NEW w, NEW l, NEW c, Moves(t, w, l, c), Fits(t, w, l, c), w \notin Holding \cup {"queued"}
        PROVE  IInv'
    <2>1. Serves(t, w, l, c) BY <1>1, <1>2 DEF Serves, Served
    <2> QED BY <1>1, <1>2, <2>1, ServerAnswers
  <1>3. CASE Return(t)
    <2>1. Moves(t, "idle", Loc0, NoCall) BY <1>3, Parts, MovesBy
    <2> QED BY <1>2, <2>1, IdleFits DEF Holding
  <1>4. CASE Fallback(t)
    <2>1. PICK w \in {"gather", "request"} : \E l : Moves(t, w, l, call[t]) /\ Fits(t, w, l, call[t])
      BY <1>1, <1>4, Parts, Fallen
    <2> QED BY <1>2, <2>1 DEF Holding
  <1>5. ASSUME NEW w \in {"any_check", "refresh"}, NEW l \in Locs,
               Goto(t, w), SetLoc(t, l), UNCHANGED call, l.i = 1,
               w = "any_check" => call[t].what = "waitany", w = "refresh" => call[t].what = "waitall"
        PROVE  IInv'
    <2>1. Moves(t, w, l, call[t]) BY <1>5, Parts, MovesBy
    <2>2. 1 \in 1..Len(call[t].objs) BY <1>1 DEF Count
    <2>3. Fits(t, w, l, call[t])
      BY <1>1, <1>5, <2>2 DEF Fits, PlaceAt, ClientPCs, AllPCs, AnyPCs, SignalPCs
    <2> QED BY <1>2, <2>1, <2>3 DEF Holding
  <1> QED BY <1>0, <1>3, <1>4, <1>5

LEMMA TryServed ==
  ASSUME srv'.pc \in {"guard", "probe", "take", "unguard"}, srv'.req \in Threads, pc'[srv'.req] = "tryall",
         srv'.pos = 0, srv'.todo = {}, reg'[srv'.req] = {},
         srv'.pc = "guard" => srv'.i = srv'.guarded + 1,
         srv'.pc # "unguard" => srv'.i \in 1..Count(srv.req)',
         srv'.pc \in {"probe", "take"} => srv'.guarded = Count(srv.req)',
         srv'.pc = "unguard" => srv'.guarded \in 0..Count(srv.req)' /\ srv'.i \in 1..(srv'.guarded + 1)
  PROVE  ServedOK'
  <1>1. WaitServed' /\ SignalServed' BY DEF WaitServed, SignalServed, WaitPCs, SignalingPCs
  <1>2. SlotServed' BY DEF SlotServed, SlotPCs, TryPCs
  <1> QED BY <1>1, <1>2 DEF ServedOK

LEMMA UnregisteredStep == ASSUME IInv, unregistered PROVE IInv'
  <1>0. PICK t \in Threads : t = srv.req BY SlotAt DEF unregistered, SlotPCs
  <1>1. /\ srv.pc = "unregister" /\ reg[t] = {} /\ UNCHANGED <<word, left, cache_gen, queue, reg>>
        /\ slot' = [slot EXCEPT ![t] = 0]
        /\ \/ pc[t] = "tryall" /\ srv' = [srv EXCEPT !.pc = "guard"] /\ Stays
           \/ /\ pc[t] # "tryall" /\ loc[t].ret = "woken" /\ srv' = Srv0
              /\ Goto(t, "any_check") /\ SetLoc(t, [loc[t] EXCEPT !.phase = 3, !.ret = "none"]) /\ UNCHANGED call
           \/ srv' = Srv0 /\ Fallback(t)
           \/ srv' = Srv0 /\ Return(t)
    BY <1>0 DEF unregistered, Answer, ServerOnly, Stays
  <1>2. /\ srv \in Srvs /\ Settled /\ slot \in [Threads -> {0, 1}] /\ srv.pos = 0
        /\ pc[t] \in {"register", "unregister", "tryall"} /\ call[t].what \in {"waitall", "waitany"}
        /\ loc[t] \in Locs /\ Count(t) \in Nat /\ Count(t) > 0
    BY <1>0, <1>1, SlotAt DEF SlotPCs
  <1>3. srv.i = 1 /\ srv.guarded = 0 /\ srv.todo = {} /\ pc[t] # "register" BY <1>0, <1>1, Parts DEF ServedOK, SlotServed
  <1>4. Unguarded BY <1>1 DEF Unguarded
  <1>5. slot' \in [Threads -> {0, 1}] BY <1>1, <1>2
  <1>6. CASE pc[t] = "tryall" /\ srv' = [srv EXCEPT !.pc = "guard"] /\ Stays
    <2>1. srv' \in Srvs /\ srv'.pc = "guard" /\ srv'.i = 1 /\ srv'.guarded = 0 /\ srv'.req = t /\ srv'.pos = 0
          /\ srv'.todo = {}
      BY <1>0, <1>2, <1>3, <1>6 DEF Srvs, ServerPCs
    <2>2. Count(srv.req)' = Count(t) BY <1>6, <2>1 DEF Stays, Count
    <2>3. srv'.i \in 1..Count(srv.req)' /\ srv'.i = srv'.guarded + 1 BY <1>2, <2>1, <2>2
    <2>4. ServedOK' BY <1>1, <1>6, <2>1, <2>3, TryServed DEF Stays
    <2>5. Settled' /\ Unguarded' /\ Searching' BY <2>1 DEF Settled, Unguarded, Searching
    <2> QED BY <1>1, <1>2, <1>4, <1>5, <1>6, <2>1, <2>4, <2>5, ServerGoes
  <1>7. CASE /\ pc[t] # "tryall" /\ loc[t].ret = "woken" /\ srv' = Srv0
             /\ Goto(t, "any_check") /\ SetLoc(t, [loc[t] EXCEPT !.phase = 3, !.ret = "none"]) /\ UNCHANGED call
    <2> DEFINE l == [loc[t] EXCEPT !.phase = 3, !.ret = "none"]
    <2>1. pc[t] = "unregister" BY <1>2, <1>3, <1>7
    <2>2. loc[t].i = 1 /\ call[t].what = "waitany" BY <1>7, <2>1, Parts DEF PlaceOK, PlaceAt
    <2>3. l \in Locs /\ l.i = 1
      <3>1. 3 \in 1..3 /\ "none" \in Rets BY DEF Rets
      <3> QED BY <1>2, <2>2, <3>1 DEF Locs
    <2>4. SetLoc(t, l) BY <1>7
    <2> HIDE DEF l
    <2>5. srv.pc \in SlotPCs \ {"flag", "regcheck"} BY <1>1 DEF SlotPCs
    <2> QED BY <1>0, <1>1, <1>4, <1>5, <1>7, <2>2, <2>3, <2>4, <2>5, Answers
  <1>8. CASE srv' = Srv0 /\ (Fallback(t) \/ Return(t))
    <2>1. srv.pc \in SlotPCs \ {"flag", "regcheck"} BY <1>1 DEF SlotPCs
    <2> QED BY <1>0, <1>1, <1>4, <1>5, <1>8, <2>1, Answers
  <1> QED BY <1>1, <1>6, <1>7, <1>8

-----------------------------------------------------------------------------
(* wineserver: the attempts of try_wait_all_wfusync.                       *)
GuardPCs == {"guard", "probe", "take", "unguard"}

LEMMA TryAt ==
  ASSUME IInv, srv.pc \in TryPCs
  PROVE  LET t == srv.req IN
         /\ srv \in Srvs /\ t \in Threads /\ pc[t] = "tryall" /\ srv.pos = 0 /\ reg[t] = {} /\ Settled
         /\ call[t] \in CallsOf[t] /\ call[t] \in Calls /\ loc[t] \in Locs /\ call[t].what = "waitall"
         /\ Count(t) \in Nat /\ Count(t) > 0 /\ srv.i \in Nat /\ srv.guarded \in Nat
         /\ (\A j \in 1..Count(t) : WObj(t, j) \in Objs)
         /\ (\A j, k \in 1..Count(t) : WObj(t, j) = WObj(t, k) => j = k)
         /\ Range(call[t].objs) = {WObj(t, j) : j \in 1..Count(t)}
         /\ slot \in [Threads -> {0, 1}]
         /\ (srv.pc # "unguard" => srv.i \in 1..Count(t))
         /\ (srv.pc = "guard" => srv.i = srv.guarded + 1)
         /\ (srv.pc \in {"probe", "take"} => srv.guarded = Count(t))
         /\ (srv.pc = "unguard" => srv.guarded \in 0..Count(t) /\ srv.i \in 1..(srv.guarded + 1))
         /\ (srv.pc \in GuardPCs => srv.todo = {})
  <1>1. srv.pc \in SlotPCs BY DEF TryPCs, SlotPCs
  <1>2. srv \in Srvs /\ srv.i \in Nat /\ srv.guarded \in Nat BY <1>1, SlotAt DEF Srvs
  <1>3. /\ pc[srv.req] = "tryall" /\ reg[srv.req] = {}
        /\ (srv.pc # "unguard" => srv.i \in 1..Count(srv.req))
        /\ (srv.pc = "guard" => srv.i = srv.guarded + 1)
        /\ (srv.pc \in {"probe", "take"} => srv.guarded = Count(srv.req))
        /\ (srv.pc = "unguard" => srv.guarded \in 0..Count(srv.req) /\ srv.i \in 1..(srv.guarded + 1))
        /\ (srv.pc \in GuardPCs => srv.todo = {})
    BY Parts DEF ServedOK, SlotServed, TryPCs, GuardPCs
  <1> QED BY <1>1, <1>2, <1>3, SlotAt

(* What is guarded: the objects from a-th to the b-th.                     *)
Part(t, a, b) == {WObj(t, j) : j \in a..b}
LEMMA GuardedPart ==
  srv.pc \in GuardPCs /\ Range(call[srv.req].objs) = Part(srv.req, 1, Count(srv.req)) =>
    Guarded = Part(srv.req, IF srv.pc = "unguard" THEN srv.i ELSE 1,
                            IF srv.pc \in {"probe", "take"} THEN Count(srv.req) ELSE srv.guarded)
  BY DEF Guarded, Part, GuardPCs

(* An attempt goes on: the guard, the words and what was found are left to *)
(* be shown.                                                               *)
LEMMA TryMoves ==
  ASSUME IInv, srv.pc \in GuardPCs, Alone, WordTypes', Calm, UNCHANGED <<pc, call, queue, slot, reg, left, cache_gen>>,
         \A o \in Objs : word'[o].multi = word[o].multi,
         \A t \in Threads : reg[t] # {} => loc'[t] = loc[t],
         srv' \in Srvs, srv'.pc \in GuardPCs, srv'.req = srv.req, srv'.pos = 0, srv'.todo = {},
         srv'.pc = "guard" => srv'.i = srv'.guarded + 1,
         srv'.pc # "unguard" => srv'.i \in 1..Count(srv.req),
         srv'.pc \in {"probe", "take"} => srv'.guarded = Count(srv.req),
         srv'.pc = "unguard" => srv'.guarded \in 0..Count(srv.req) /\ srv'.i \in 1..(srv'.guarded + 1),
         GuardOK', ServerFlagExact', FoundOK'
  PROVE  IInv'
  <1>1. /\ srv.req \in Threads /\ pc[srv.req] = "tryall" /\ reg[srv.req] = {} /\ Settled
    BY TryAt DEF TryPCs, GuardPCs
  <1>2. Count(srv.req)' = Count(srv.req) BY DEF Count
  <1>3. ServedOK' BY <1>1, <1>2, TryServed DEF GuardPCs
  <1>4. Settled' BY DEF Settled, GuardPCs
  <1>5. QueuesOK' BY <1>1, <1>4, QueuesKept
  <1>6. RegisteredOK' BY RegistrationsKept DEF Alone, GuardPCs
  <1>7. ServerTypes' BY Parts DEF ServerTypes
  <1> QED BY <1>3, <1>5, <1>6, <1>7, ServerKeeps

(* The guard stays as it is.                                               *)
LEMMA GuardsStay ==
  ASSUME IInv, Guarded' = Guarded, UNCHANGED queue,
         \A o \in Objs : word'[o].server = word[o].server /\ word'[o].locked = word[o].locked
  PROVE  GuardOK' /\ ServerFlagExact'
  <1>1. Guarded \subseteq Objs BY Parts, GuardedIn
  <1> QED BY <1>1, Parts DEF GuardOK, ServerFlagExact

LEMMA GuardedNext ==
  ASSUME IInv, srv.pc \in TryPCs, UNCHANGED call, srv'.pc \in GuardPCs, srv'.req = srv.req
  PROVE  Guarded' = Part(srv.req, IF srv'.pc = "unguard" THEN srv'.i ELSE 1,
                                  IF srv'.pc \in {"probe", "take"} THEN Count(srv.req) ELSE srv'.guarded)
  <1>1. Range(call'[srv'.req].objs) = Part(srv.req, 1, Count(srv.req)) BY TryAt DEF Part
  <1>2. \A u, a, b : Part(u, a, b)' = Part(u, a, b) /\ Count(u)' = Count(u) BY DEF Part, WObj, Count
  <1>3. (srv.pc \in GuardPCs /\ Range(call[srv.req].objs) = Part(srv.req, 1, Count(srv.req)) =>
           Guarded = Part(srv.req, IF srv.pc = "unguard" THEN srv.i ELSE 1,
                          IF srv.pc \in {"probe", "take"} THEN Count(srv.req) ELSE srv.guarded))'
    BY GuardedPart, PTL
  <1> QED BY <1>1, <1>2, <1>3

LEMMA GuardStep == ASSUME IInv, guard PROVE IInv'
  <1>0. PICK t \in Threads, i \in Nat, o \in Objs : t = srv.req /\ i = srv.i /\ o = WObj(t, i)
    BY TryAt DEF guard, TryPCs
  <1> DEFINE n == Count(t)
             x == [word[o] EXCEPT !.server = TRUE]
  <1>1. /\ srv \in Srvs /\ pc[t] = "tryall" /\ srv.pos = 0 /\ reg[t] = {} /\ n \in Nat /\ i \in 1..n
        /\ i = srv.guarded + 1 /\ srv.guarded \in Nat /\ srv.todo = {} /\ srv.pc = "guard" /\ srv.pc \in TryPCs /\ srv.pc \in GuardPCs
        /\ \A j \in 1..n : WObj(t, j) \in Objs
        /\ Range(call[t].objs) = Part(t, 1, n)
    BY <1>0, TryAt DEF guard, TryPCs, GuardPCs, Part
  <1>2. UNCHANGED <<pc, call, loc, queue, slot, reg, left, cache_gen>> BY DEF guard, client, Registry
  <1>3. Alone BY <1>2, StaysAlone DEF Stays
  <1>4. Guarded = Part(t, 1, i - 1)
    <2>1. i - 1 = srv.guarded BY <1>1
    <2> QED BY <1>0, <1>1, <2>1, GuardedPart DEF GuardPCs
  <1>5. CASE UNCHANGED word /\ srv' = [SrvNext("unguard") EXCEPT !.ret = "bail"]
    <2>1. /\ srv' \in Srvs /\ srv'.pc = "unguard" /\ srv'.i = 1 /\ srv'.guarded = srv.guarded /\ srv'.req = t
          /\ srv'.pos = 0 /\ srv'.todo = {}
      BY <1>0, <1>1, <1>5, ZenonT(40) DEF SrvNext, Srvs, ServerPCs, Rets
    <2>2. srv'.guarded \in 0..n /\ srv'.i \in 1..(srv'.guarded + 1) BY <1>1, <2>1
    <2>3. Guarded' = Guarded
      <3>1. Guarded' = Part(t, 1, srv.guarded) BY <1>0, <1>1, <1>2, <2>1, GuardedNext DEF GuardPCs
      <3>2. i - 1 = srv.guarded BY <1>1
      <3> QED BY <1>4, <3>1, <3>2
    <2>4. GuardOK' /\ ServerFlagExact' BY <1>2, <1>5, <2>3, GuardsStay
    <2>5. Searching' BY <2>1 DEF Searching
    <2>6. FoundOK' BY <2>5, NothingFound, PTL
    <2>7. WordTypes' /\ Calm BY <1>5, Parts, WordsStay
    <2> QED BY <1>0, <1>1, <1>2, <1>3, <1>5, <2>1, <2>2, <2>4, <2>6, <2>7, TryMoves DEF GuardPCs
  <1>6. CASE /\ ~GuardRefused(o) /\ word' = [word EXCEPT ![o] = x]
             /\ srv' = [(IF i = n THEN SrvNext("probe") ELSE [srv EXCEPT !.i = i + 1]) EXCEPT !.guarded = @ + 1]
    <2>1. /\ srv' \in Srvs /\ srv'.guarded = i /\ srv'.req = t /\ srv'.pos = 0 /\ srv'.todo = {}
          /\ \/ i = n /\ srv'.pc = "probe" /\ srv'.i = 1
             \/ i # n /\ srv'.pc = "guard" /\ srv'.i = i + 1
      <3>1. i + 1 \in Nat /\ srv.guarded + 1 = i BY <1>1
      <3>2. CASE i = n
        <4>1. srv' = [SrvNext("probe") EXCEPT !.guarded = i] BY <1>1, <1>6, <3>1, <3>2 DEF SrvNext, Srvs
        <4> QED BY <1>0, <1>1, <3>1, <3>2, <4>1, ZenonT(40) DEF SrvNext, Srvs, ServerPCs
      <3>3. CASE i # n
        <4>1. srv' = [[srv EXCEPT !.i = i + 1] EXCEPT !.guarded = i] BY <1>1, <1>6, <3>1, <3>3 DEF Srvs
        <4> HIDE DEF n
        <4> QED BY <1>0, <1>1, <3>1, <3>3, <4>1, ZenonT(40) DEF Srvs, ServerPCs
      <3> QED BY <3>2, <3>3
    <2>2. /\ srv'.pc = "guard" => srv'.i = srv'.guarded + 1
          /\ srv'.i \in 1..n
          /\ srv'.pc = "probe" => srv'.guarded = n
      BY <1>1, <2>1
    <2>3. Guarded' = Part(t, 1, i) BY <1>0, <1>1, <1>2, <2>1, GuardedNext DEF GuardPCs
    <2>4. Guarded' = Guarded \cup {o}
      <3>1. \A j : j \in 1..i <=> j \in 1..(i - 1) \/ j = i BY <1>1
      <3> QED BY <1>0, <1>4, <2>3, <3>1 DEF Part
    <2>5. /\ WordTypes' /\ Calm /\ word'[o].server = TRUE /\ word'[o].multi = word[o].multi
          /\ word'[o].locked = word[o].locked /\ \A p \in Objs : p # o => word'[p] = word[p]
      <3>1. word[o] \in Words(o) BY Parts DEF WordTypes
      <3>2. /\ x \in Words(o) /\ x.server = TRUE /\ x.multi = word[o].multi
            /\ x.low = word[o].low /\ x.locked = word[o].locked
        BY <3>1 DEF Words
      <3> HIDE DEF x
      <3> QED BY <1>6, <3>2, Parts, WordPut
    <2>6. ~word[o].locked /\ queue[o] = <<>>
      <3>1. ~word[o].locked /\ ~word[o].server BY <1>6 DEF GuardRefused
      <3> QED BY <3>1, Parts DEF ServerFlagExact
    <2>7. Guarded \subseteq Objs BY Parts, GuardedIn
    <2>8. GuardOK'
      <3>1. ASSUME NEW p \in Guarded' PROVE queue'[p] = <<>> /\ ~word'[p].locked
        <4>1. CASE p = o BY <1>2, <2>5, <2>6, <4>1
        <4>2. CASE p # o BY <1>2, <2>4, <2>5, <2>7, <4>2, Parts DEF GuardOK
        <4> QED BY <4>1, <4>2
      <3> QED BY <3>1 DEF GuardOK
    <2>9. ServerFlagExact'
      <3>1. ASSUME NEW p \in Objs PROVE word'[p].server <=> queue'[p] # <<>> \/ p \in Guarded'
        <4>1. CASE p = o BY <2>4, <2>5, <4>1
        <4>2. CASE p # o BY <1>2, <2>4, <2>5, <4>2, Parts DEF ServerFlagExact
        <4> QED BY <4>1, <4>2
      <3> QED BY <3>1 DEF ServerFlagExact
    <2>10. Searching' BY <2>1 DEF Searching
    <2>11. FoundOK' BY <2>10, NothingFound, PTL
    <2>12. \A p \in Objs : word'[p].multi = word[p].multi BY <2>5
    <2>13. srv'.pc \in {"guard", "probe"} BY <2>1
    <2> HIDE DEF n
    <2> QED BY <1>0, <1>1, <1>2, <1>3, <2>1, <2>2, <2>5, <2>8, <2>9, <2>11, <2>12, <2>13, TryMoves DEF GuardPCs, n
  <1> QED BY <1>0, <1>5, <1>6 DEF guard, GObj

LEMMA ProbeStep == ASSUME IInv, probe PROVE IInv'
  <1>0. PICK t \in Threads, i \in Nat, o \in Objs : t = srv.req /\ i = srv.i /\ o = WObj(t, i)
    BY TryAt DEF probe, TryPCs
  <1> DEFINE n == Count(t)
  <1>1. /\ srv \in Srvs /\ pc[t] = "tryall" /\ srv.pos = 0 /\ reg[t] = {} /\ n \in Nat /\ n > 0 /\ i \in 1..n
        /\ srv.guarded = n /\ srv.todo = {} /\ srv.pc = "probe" /\ srv.pc \in TryPCs /\ srv.pc \in GuardPCs
        /\ Range(call[t].objs) = Part(t, 1, n)
    BY <1>0, TryAt DEF probe, TryPCs, GuardPCs, Part
  <1>2. UNCHANGED <<word, pc, call, loc, queue, slot, reg, left, cache_gen>> BY DEF probe, client, Registry
  <1>3. Alone /\ WordTypes' /\ Calm BY <1>2, Parts, StaysAlone, WordsStay DEF Stays
  <1>4. Guarded = Part(t, 1, n) BY <1>0, <1>1, GuardedPart DEF GuardPCs
  <1>5. /\ srv' \in Srvs /\ srv'.guarded = n /\ srv'.req = t /\ srv'.pos = 0 /\ srv'.todo = {}
        /\ \/ srv'.pc = "unguard" /\ srv'.i = 1
           \/ srv'.pc = "take" /\ srv'.i = 1 /\ i = n /\ Signaled(o, t)
           \/ srv'.pc = "probe" /\ srv'.i = i + 1 /\ i # n /\ Signaled(o, t)
    <2>1. \/ \E r \in {"timeout", "bail"} : srv' = [SrvNext("unguard") EXCEPT !.ret = r]
          \/ Signaled(o, t) /\ i = n /\ srv' = SrvNext("take")
          \/ Signaled(o, t) /\ i # n /\ srv' = [srv EXCEPT !.i = i + 1]
      BY <1>0 DEF probe, GObj
    <2>2. CASE \E r \in {"timeout", "bail"} : srv' = [SrvNext("unguard") EXCEPT !.ret = r]
      <3>1. PICK r \in {"timeout", "bail"} : srv' = [SrvNext("unguard") EXCEPT !.ret = r] BY <2>2
      <3> QED BY <1>0, <1>1, <3>1, ZenonT(40) DEF SrvNext, Srvs, ServerPCs, Rets
    <2>3. CASE Signaled(o, t) /\ i = n /\ srv' = SrvNext("take")
      BY <1>0, <1>1, <2>3, ZenonT(40) DEF SrvNext, Srvs, ServerPCs
    <2>4. CASE Signaled(o, t) /\ i # n /\ srv' = [srv EXCEPT !.i = i + 1]
      <3>1. i + 1 \in Nat BY <1>0
      <3> HIDE DEF n
      <3> QED BY <1>0, <1>1, <2>4, <3>1 DEF Srvs, ServerPCs
    <2> QED BY <2>1, <2>2, <2>3, <2>4
  <1>6. /\ srv'.pc \in {"unguard", "take", "probe"}
        /\ srv'.pc # "unguard" => srv'.i \in 1..n
        /\ srv'.pc = "unguard" => srv'.guarded \in 0..n /\ srv'.i \in 1..(srv'.guarded + 1)
    BY <1>1, <1>5
  <1>7. Guarded' = Guarded BY <1>0, <1>1, <1>2, <1>4, <1>5, GuardedNext DEF GuardPCs
  <1>8. GuardOK' /\ ServerFlagExact' BY <1>2, <1>7, GuardsStay
  <1>9. FoundOK'
    <2>1. o \in Guarded BY <1>0, <1>1, <1>4 DEF Part
    <2>2. ~word[o].locked BY <2>1, Parts DEF GuardOK
    <2>3. \A j \in 1..(i - 1) : ~word[WObj(t, j)].locked /\ Signaled(WObj(t, j), t)
      BY <1>0, <1>1, Parts DEF FoundOK, Found, Finder
    <2>4. CASE srv'.pc = "unguard"
      <3>1. Searching' BY <2>4 DEF Searching
      <3> QED BY <3>1, NothingFound, PTL
    <2>5. CASE srv'.pc # "unguard"
      <3>1. /\ Signaled(o, t)
            /\ \/ srv'.pc = "take" /\ srv'.i = 1 /\ i = n
               \/ srv'.pc = "probe" /\ srv'.i = i + 1
        BY <1>5, <2>5
      <3>2. Found' = {WObj(t, j) : j \in 1..i}
        <4>1. CASE srv'.pc = "take" /\ srv'.i = 1 /\ i = n
          <5> QED BY <1>0, <1>2, <1>5, <4>1 DEF Found, WObj, Count
        <4>2. CASE srv'.pc = "probe" /\ srv'.i = i + 1
          <5>1. srv'.i - 1 = i BY <1>0, <4>2
          <5> QED BY <1>0, <1>2, <1>5, <4>2, <5>1 DEF Found, WObj
        <4> QED BY <3>1, <4>1, <4>2
      <3>3. Finder' = t BY <1>5, <3>1 DEF Finder
      <3>4. \A j \in 1..i : j \in 1..(i - 1) \/ j = i BY <1>1
      <3>5. \A j \in 1..i : ~word[WObj(t, j)].locked /\ Signaled(WObj(t, j), t) BY <1>0, <2>2, <2>3, <3>1, <3>4
      <3>6. \A p : Signaled(p, t)' = Signaled(p, t) BY <1>2 DEF Signaled, W!Signaled
      <3>7. ASSUME NEW p \in Found' PROVE ~word'[p].locked /\ Signaled(p, Finder)'
        <4>1. PICK j \in 1..i : p = WObj(t, j) BY <3>2
        <4>2. ~word[p].locked /\ Signaled(p, t)' BY <3>5, <3>6, <4>1
        <4> QED BY <1>2, <3>3, <4>2 DEF Signaled
      <3> QED BY <3>7 DEF FoundOK
    <2> QED BY <2>4, <2>5
  <1> HIDE DEF n
  <1> QED BY <1>0, <1>1, <1>2, <1>3, <1>5, <1>6, <1>8, <1>9, TryMoves DEF GuardPCs, n

LEMMA ServerTakeStep == ASSUME IInv, server_take PROVE IInv'
  <1>0. PICK t \in Threads, i \in Nat, o \in Objs : t = srv.req /\ i = srv.i /\ o = WObj(t, i)
    BY TryAt DEF server_take, TryPCs
  <1> DEFINE n == Count(t)
             r == Worse(loc[t].ret, ConsumedStatus(o))
             l == [loc[t] EXCEPT !.ret = r]
             x == Consumed(o, t)
  <1>1. /\ srv \in Srvs /\ pc[t] = "tryall" /\ srv.pos = 0 /\ reg[t] = {} /\ n \in Nat /\ n > 0 /\ i \in 1..n
        /\ srv.guarded = n /\ srv.todo = {} /\ srv.pc = "take" /\ srv.pc \in TryPCs /\ srv.pc \in GuardPCs
        /\ call[t] \in CallsOf[t] /\ call[t] \in Calls /\ loc[t] \in Locs /\ call[t].what = "waitall"
        /\ \A j \in 1..n : WObj(t, j) \in Objs
        /\ \A j, k \in 1..n : WObj(t, j) = WObj(t, k) => j = k
        /\ Range(call[t].objs) = Part(t, 1, n)
    BY <1>0, TryAt DEF server_take, TryPCs, GuardPCs, Part
  <1>2. /\ word' = [word EXCEPT ![o] = x] /\ SetLoc(t, l)
        /\ UNCHANGED <<pc, call, queue, slot, reg, left, cache_gen>>
    BY <1>0 DEF server_take, GObj, ServerOnly, Registry
  <1>3. Guarded = Part(t, 1, n) BY <1>0, <1>1, GuardedPart DEF GuardPCs
  <1>4. ~word[o].locked
    <2>1. o \in Guarded BY <1>0, <1>1, <1>3 DEF Part
    <2> QED BY <2>1, Parts DEF GuardOK
  <1>5. /\ WordTypes' /\ Calm /\ \A p \in Objs : p # o => word'[p] = word[p]
        /\ \A p \in Objs : SameFlags(word'[p], word[p])
    <2>1. word[o] \in Words(o) BY Parts DEF WordTypes
    <2>2. Like(o, x, word[o]) BY <2>1, ConsumedWord
    <2> HIDE DEF x
    <2>3. x \in Words(o) /\ SameFlags(x, word[o]) /\ x.locked = word[o].locked BY <2>2 DEF Like, SameFlags
    <2>4. WordTypes' /\ word'[o] = x /\ (\A p \in Objs : p # o => word'[p] = word[p]) /\ Calm
      BY <1>2, <1>4, <2>3, Parts, WordPut
    <2>5. \A p \in Objs : SameFlags(word'[p], word[p]) BY <2>3, <2>4 DEF SameFlags
    <2> QED BY <2>4, <2>5
  <1>6. l \in Locs
    <2>1. loc[t].ret \in Rets BY <1>1 DEF Locs
    <2>2. r \in Rets BY <2>1, StatusTypes
    <2> HIDE DEF r
    <2> QED BY <1>1, <2>2 DEF Locs
  <1> HIDE DEF l, x
  <1>7. Moves(t, "tryall", l, call[t]) BY <1>1, <1>2, Parts, MovesBy
  <1>8. Fits(t, "tryall", l, call[t])
    BY <1>1, <1>6 DEF Fits, PlaceAt, ClientPCs, AllPCs, AnyPCs, SignalPCs
  <1>9. Alone
    <2>1. Serves(t, "tryall", l, call[t]) BY <1>1, <1>7, <1>8 DEF Serves, Served, Holding
    <2> QED BY <2>1, ServesAlone
  <1>10. \A u \in Threads : reg[u] # {} => loc'[u] = loc[u] BY <1>1, <1>7, Parts, Moved
  <1>11. /\ srv' \in Srvs /\ srv'.guarded = n /\ srv'.req = t /\ srv'.pos = 0 /\ srv'.todo = {}
         /\ \/ srv'.pc = "unguard" /\ srv'.i = 1
            \/ srv'.pc = "take" /\ srv'.i = i + 1 /\ i # n
    <2>1. \/ srv' = [SrvNext("unguard") EXCEPT !.ret = "success"]
          \/ i # n /\ srv' = [srv EXCEPT !.i = i + 1]
      BY <1>0 DEF server_take
    <2>2. CASE srv' = [SrvNext("unguard") EXCEPT !.ret = "success"]
      BY <1>0, <1>1, <2>2, ZenonT(40) DEF SrvNext, Srvs, ServerPCs, Rets
    <2>3. CASE i # n /\ srv' = [srv EXCEPT !.i = i + 1]
      <3>1. i + 1 \in Nat BY <1>0
      <3> HIDE DEF n
      <3> QED BY <1>0, <1>1, <2>3, <3>1 DEF Srvs, ServerPCs
    <2> QED BY <2>1, <2>2, <2>3
  <1>12. /\ srv'.pc \in {"unguard", "take"}
         /\ srv'.pc # "unguard" => srv'.i \in 1..n
         /\ srv'.pc = "unguard" => srv'.guarded \in 0..n /\ srv'.i \in 1..(srv'.guarded + 1)
    BY <1>1, <1>11
  <1>13. Guarded' = Guarded BY <1>0, <1>1, <1>2, <1>3, <1>11, GuardedNext DEF GuardPCs
  <1>14. GuardOK' /\ ServerFlagExact' BY <1>2, <1>5, <1>13, GuardsStay DEF SameFlags
  <1>15. \A p \in Objs : word'[p].multi = word[p].multi BY <1>5 DEF SameFlags
  <1>16. FoundOK'
    <2>1. CASE srv'.pc = "unguard"
      <3>1. Searching' BY <2>1 DEF Searching
      <3> QED BY <3>1, NothingFound, PTL
    <2>2. CASE srv'.pc = "take" /\ srv'.i = i + 1 /\ i # n
      <3>1. Found' = {WObj(t, j) : j \in (i + 1)..n} /\ Finder' = t
        BY <1>2, <1>11, <2>2 DEF Found, Finder, WObj, Count
      <3>2. ASSUME NEW j \in (i + 1)..n PROVE ~word'[WObj(t, j)].locked /\ Signaled(WObj(t, j), t)'
        <4>1. j \in 1..n /\ j # i /\ j \in i..n BY <1>1
        <4>2. i \in 1..n BY <1>1
        <4> HIDE DEF n
        <4>3. WObj(t, j) \in Objs /\ WObj(t, j) # o BY <1>0, <1>1, <4>1, <4>2
        <4>4. WObj(t, j) \in Found /\ Finder = t BY <1>0, <1>1, <4>1 DEF Found, Finder, n
        <4>5. PICK p \in Objs : p = WObj(t, j) BY <4>3
        <4>6. word'[p] = word[p] /\ ~word[p].locked /\ Signaled(p, t) BY <1>5, <4>3, <4>4, <4>5, Parts DEF FoundOK
        <4>7. Signaled(p, t)' BY <4>6, SignaledLow
        <4>8. WObj(t, j)' = p BY <1>2, <4>5 DEF WObj
        <4> QED BY <4>5, <4>6, <4>7, <4>8 DEF Signaled
      <3>3. ASSUME NEW p \in Found' PROVE ~word'[p].locked /\ Signaled(p, t)'
        <4>1. PICK j \in (i + 1)..n : p = WObj(t, j) BY <3>1
        <4>2. WObj(t, j)' = WObj(t, j) BY <1>2 DEF WObj
        <4> QED BY <3>2, <4>1, <4>2 DEF Signaled
      <3> QED BY <3>1, <3>3 DEF FoundOK, Signaled
    <2> QED BY <1>11, <2>1, <2>2
  <1> HIDE DEF n
  <1> QED BY <1>0, <1>1, <1>2, <1>5, <1>9, <1>10, <1>11, <1>12, <1>14, <1>15, <1>16, TryMoves DEF GuardPCs, n

LEMMA UnguardStep == ASSUME IInv, unguard PROVE IInv'
  <1>0. PICK t \in Threads, i \in Nat, g \in Nat : t = srv.req /\ i = srv.i /\ g = srv.guarded
    BY TryAt DEF unguard, TryPCs
  <1> DEFINE n == Count(t)
  <1>1. /\ srv \in Srvs /\ pc[t] = "tryall" /\ srv.pos = 0 /\ reg[t] = {} /\ n \in Nat
        /\ g \in 0..n /\ i \in 1..g /\ srv.todo = {} /\ srv.pc = "unguard" /\ srv.pc \in TryPCs /\ srv.pc \in GuardPCs
        /\ \A j \in 1..n : WObj(t, j) \in Objs
        /\ \A j, k \in 1..n : WObj(t, j) = WObj(t, k) => j = k
        /\ Range(call[t].objs) = Part(t, 1, n)
    <2>1. srv.pc = "unguard" /\ i <= g BY <1>0 DEF unguard
    <2>2. g \in 0..n /\ i \in 1..(g + 1) BY <1>0, <2>1, TryAt DEF TryPCs
    <2>3. i \in 1..g BY <2>1, <2>2
    <2> QED BY <1>0, <2>1, <2>2, <2>3, TryAt DEF TryPCs, GuardPCs, Part
  <1>2. PICK o \in Objs : o = WObj(t, i)
    <2>1. i \in 1..n BY <1>1
    <2> QED BY <1>1, <2>1
  <1> DEFINE x == [word[o] EXCEPT !.server = FALSE]
  <1>3. /\ word' = [word EXCEPT ![o] = x] /\ srv' = [srv EXCEPT !.i = i + 1]
        /\ UNCHANGED <<pc, call, loc, queue, slot, reg, left, cache_gen>>
    BY <1>0, <1>2 DEF unguard, GObj, client, Registry
  <1>4. Alone BY <1>3, StaysAlone DEF Stays
  <1>5. Guarded = Part(t, i, g) BY <1>0, <1>1, GuardedPart DEF GuardPCs
  <1>6. /\ srv' \in Srvs /\ srv'.pc = "unguard" /\ srv'.i = i + 1 /\ srv'.guarded = g /\ srv'.req = t
        /\ srv'.pos = 0 /\ srv'.todo = {}
    <2>1. i + 1 \in Nat BY <1>0
    <2> HIDE DEF n
    <2> QED BY <1>0, <1>1, <1>3, <2>1 DEF Srvs, ServerPCs
  <1>7. i + 1 \in 1..(g + 1) BY <1>1
  <1>8. Guarded' = Guarded \ {o}
    <2>1. Guarded' = Part(t, i + 1, g) BY <1>0, <1>1, <1>3, <1>6, GuardedNext DEF GuardPCs
    <2>2. \A j : j \in i..g <=> j = i \/ j \in (i + 1)..g BY <1>1
    <2>3. \A j \in (i + 1)..g : j \in 1..n /\ j # i BY <1>1
    <2>4. i \in 1..n BY <1>1
    <2> HIDE DEF n
    <2>5. \A j \in (i + 1)..g : WObj(t, j) # o BY <1>1, <1>2, <2>3, <2>4
    <2> QED BY <1>2, <1>5, <2>1, <2>2, <2>5 DEF Part
  <1>9. /\ WordTypes' /\ Calm /\ word'[o].server = FALSE /\ word'[o].multi = word[o].multi
        /\ word'[o].locked = word[o].locked /\ \A p \in Objs : p # o => word'[p] = word[p]
    <2>1. word[o] \in Words(o) BY Parts DEF WordTypes
    <2>2. /\ x \in Words(o) /\ x.server = FALSE /\ x.multi = word[o].multi
          /\ x.low = word[o].low /\ x.locked = word[o].locked
      BY <2>1 DEF Words
    <2> HIDE DEF x
    <2> QED BY <1>3, <2>2, Parts, WordPut
  <1>10. queue[o] = <<>>
    <2>1. i \in i..g BY <1>1
    <2>2. o \in Guarded BY <1>2, <1>5, <2>1 DEF Part
    <2> QED BY <2>2, Parts DEF GuardOK
  <1>11. Guarded \subseteq Objs BY Parts, GuardedIn
  <1>12. GuardOK'
    <2>1. ASSUME NEW p \in Guarded' PROVE queue'[p] = <<>> /\ ~word'[p].locked
      BY <1>3, <1>8, <1>9, <1>11, Parts DEF GuardOK
    <2> QED BY <2>1 DEF GuardOK
  <1>13. ServerFlagExact'
    <2>1. ASSUME NEW p \in Objs PROVE word'[p].server <=> queue'[p] # <<>> \/ p \in Guarded'
      <3>1. CASE p = o BY <1>3, <1>8, <1>9, <1>10, <3>1
      <3>2. CASE p # o BY <1>3, <1>8, <1>9, <3>2, Parts DEF ServerFlagExact
      <3> QED BY <3>1, <3>2
    <2> QED BY <2>1 DEF ServerFlagExact
  <1>14. Searching' BY <1>6 DEF Searching
  <1>15. FoundOK' BY <1>14, NothingFound, PTL
  <1>16. \A p \in Objs : word'[p].multi = word[p].multi BY <1>9
  <1> HIDE DEF n
  <1> QED BY <1>0, <1>1, <1>3, <1>4, <1>6, <1>7, <1>9, <1>12, <1>13, <1>15, <1>16, TryMoves DEF GuardPCs, n

LEMMA AttemptDoneStep == ASSUME IInv, attempt_done PROVE IInv'
  <1>0. PICK t \in Threads : t = srv.req BY TryAt DEF attempt_done, TryPCs
  <1>1. /\ srv.pc = "unguard" /\ srv.i > srv.guarded /\ UNCHANGED <<word, left, cache_gen, queue, slot, reg>>
        /\ \/ srv' = Srv0 /\ Goto(t, "refresh") /\ SetLoc(t, [loc[t] EXCEPT !.i = 1]) /\ UNCHANGED call
           \/ call[t].timeout # "zero" /\ srv' = [SrvNext("unsignaled") EXCEPT !.guarded = 0] /\ Stays
           \/ srv' = Srv0 /\ Fallback(t)
           \/ srv' = Srv0 /\ Return(t)
    BY <1>0 DEF attempt_done, Answer, ServerOnly, Registry, Stays
  <1>2. /\ srv \in Srvs /\ pc[t] = "tryall" /\ srv.pos = 0 /\ reg[t] = {} /\ Settled /\ loc[t] \in Locs
        /\ call[t].what = "waitall" /\ Count(t) \in Nat /\ Count(t) > 0 /\ srv.i \in Nat /\ srv.guarded \in Nat
        /\ slot \in [Threads -> {0, 1}] /\ srv.todo = {}
    BY <1>0, <1>1, TryAt DEF TryPCs, GuardPCs
  <1>3. Unguarded BY <1>1, <1>2 DEF Unguarded
  <1>4. slot' \in [Threads -> {0, 1}] BY <1>1, <1>2
  <1>5. srv.pc \in SlotPCs \ {"flag", "regcheck"} BY <1>1 DEF SlotPCs
  <1>6. CASE srv' = Srv0 /\ Goto(t, "refresh") /\ SetLoc(t, [loc[t] EXCEPT !.i = 1]) /\ UNCHANGED call
    <2> DEFINE l == [loc[t] EXCEPT !.i = 1]
    <2>1. l \in Locs /\ l.i = 1 BY <1>2 DEF Locs
    <2>2. SetLoc(t, l) BY <1>6
    <2> HIDE DEF l
    <2> QED BY <1>0, <1>1, <1>2, <1>3, <1>4, <1>5, <1>6, <2>1, <2>2, Answers
  <1>7. CASE srv' = Srv0 /\ (Fallback(t) \/ Return(t))
    BY <1>0, <1>1, <1>2, <1>3, <1>4, <1>5, <1>7, Answers
  <1>8. CASE call[t].timeout # "zero" /\ srv' = [SrvNext("unsignaled") EXCEPT !.guarded = 0] /\ Stays
    <2>1. /\ srv' \in Srvs /\ srv'.pc = "unsignaled" /\ srv'.i = 1 /\ srv'.guarded = 0 /\ srv'.req = t
          /\ srv'.pos = 0 /\ srv'.todo = {}
      <3>1. 0 \in Nat /\ 1 \in Nat /\ "unsignaled" \in ServerPCs BY DEF ServerPCs
      <3>2. PICK q \in Srvs : q = SrvNext("unsignaled") BY <1>2, <3>1 DEF SrvNext, Srvs
      <3>3. q.pc = "unsignaled" /\ q.i = 1 /\ q.req = t /\ q.pos = 0 /\ q.todo = {}
        BY <1>0, <1>2, <3>2 DEF SrvNext, Srvs
      <3>4. srv' = [q EXCEPT !.guarded = 0] BY <1>8, <3>2
      <3> QED BY <3>1, <3>3, <3>4 DEF Srvs
    <2>2. Count(srv.req)' = Count(t) BY <1>8, <2>1 DEF Stays, Count
    <2>3. srv'.i \in 1..Count(srv.req)' BY <1>2, <2>1, <2>2
    <2>4. ServedOK'
      <3>1. WaitServed' /\ SignalServed' BY <2>1 DEF WaitServed, SignalServed, WaitPCs, SignalingPCs
      <3>2. SlotServed' BY <1>1, <1>2, <1>8, <2>1, <2>3 DEF SlotServed, SlotPCs, TryPCs, Stays
      <3> QED BY <3>1, <3>2 DEF ServedOK
    <2>5. Settled' /\ Unguarded' /\ Searching' BY <2>1 DEF Settled, Unguarded, Searching
    <2> QED BY <1>1, <1>2, <1>3, <1>4, <1>8, <2>1, <2>4, <2>5, ServerGoes
  <1> QED BY <1>1, <1>6, <1>7, <1>8

LEMMA UnsignaledStep == ASSUME IInv, get_wait_all_unsignaled PROVE IInv'
  <1>0. PICK t \in Threads, i \in Nat, o \in Objs : t = srv.req /\ i = srv.i /\ o = WObj(t, i)
    BY TryAt DEF get_wait_all_unsignaled, TryPCs
  <1>1. /\ srv.pc = "unsignaled" /\ UNCHANGED <<word, left, cache_gen, queue, slot, reg>>
        /\ \E T \in {srv.todo, srv.todo \cup {o}} :
           \/ srv' = Srv0 /\ Fallback(t)
           \/ i < Count(t) /\ srv' = [srv EXCEPT !.i = i + 1, !.todo = T] /\ Stays
           \/ T # {} /\ srv' = [srv EXCEPT !.pc = "arm", !.todo = T] /\ Stays
           \/ T = {} /\ srv.tries # 3 /\ srv' = [SrvNext("guard") EXCEPT !.tries = srv.tries + 1] /\ Stays
    <2>1. srv.pc = "unsignaled" /\ UNCHANGED <<word, left, cache_gen, queue, slot, reg>>
      BY DEF get_wait_all_unsignaled, ServerOnly, Registry
    <2> DEFINE T == IF Signaled(o, t) THEN srv.todo ELSE srv.todo \cup {o}
    <2>2. T \in {srv.todo, srv.todo \cup {o}} OBVIOUS
    <2>3. o = GObj BY <1>0 DEF GObj
    <2>4. \/ srv' = Srv0 /\ Fallback(t)
          \/ i < Count(t) /\ srv' = [srv EXCEPT !.i = i + 1, !.todo = T] /\ Stays
          \/ T # {} /\ srv' = [srv EXCEPT !.pc = "arm", !.todo = T] /\ Stays
          \/ T = {} /\ srv.tries # 3 /\ srv' = [SrvNext("guard") EXCEPT !.tries = srv.tries + 1] /\ Stays
      BY <1>0, <2>3 DEF get_wait_all_unsignaled, Stays, SrvNext
    <2> HIDE DEF T
    <2> QED BY <2>1, <2>2, <2>4
  <1>2. /\ srv \in Srvs /\ pc[t] = "tryall" /\ srv.pos = 0 /\ reg[t] = {} /\ Settled /\ loc[t] \in Locs
        /\ call[t].what = "waitall" /\ Count(t) \in Nat /\ Count(t) > 0 /\ i \in 1..Count(t)
        /\ slot \in [Threads -> {0, 1}]
        /\ Range(call[t].objs) = {WObj(t, j) : j \in 1..Count(t)}
    BY <1>0, <1>1, TryAt DEF TryPCs
  <1>3. srv.guarded = 0 /\ call[t].timeout # "zero" /\ srv.todo \subseteq Range(call[t].objs)
    BY <1>0, <1>1, Parts DEF ServedOK, SlotServed
  <1>4. Unguarded BY <1>1 DEF Unguarded
  <1>5. slot' \in [Threads -> {0, 1}] BY <1>1, <1>2
  <1>6. o \in Range(call[t].objs) BY <1>0, <1>2
  <1>7. PICK T \in {srv.todo, srv.todo \cup {o}} :
           \/ srv' = Srv0 /\ Fallback(t)
           \/ i < Count(t) /\ srv' = [srv EXCEPT !.i = i + 1, !.todo = T] /\ Stays
           \/ T # {} /\ srv' = [srv EXCEPT !.pc = "arm", !.todo = T] /\ Stays
           \/ T = {} /\ srv.tries # 3 /\ srv' = [SrvNext("guard") EXCEPT !.tries = srv.tries + 1] /\ Stays
    BY <1>1
  <1>8. T \subseteq Range(call[t].objs) /\ T \in SUBSET Objs
    <2>1. srv.todo \in SUBSET Objs BY <1>2 DEF Srvs
    <2> QED BY <1>3, <1>6, <1>7, <2>1
  <1>9. CASE srv' = Srv0 /\ Fallback(t)
    <2>1. srv.pc \in SlotPCs \ {"flag", "regcheck"} BY <1>1 DEF SlotPCs
    <2> QED BY <1>0, <1>1, <1>2, <1>4, <1>5, <1>9, <2>1, Answers
  <1>10. CASE i < Count(t) /\ srv' = [srv EXCEPT !.i = i + 1, !.todo = T] /\ Stays
    <2>1. i + 1 \in Nat /\ i + 1 \in 1..Count(t) BY <1>2, <1>10
    <2>2. /\ srv' \in Srvs /\ srv'.pc = "unsignaled" /\ srv'.i = i + 1 /\ srv'.guarded = 0 /\ srv'.req = t
          /\ srv'.pos = 0 /\ srv'.todo = T
      BY <1>0, <1>1, <1>2, <1>3, <1>8, <1>10, <2>1 DEF Srvs
    <2>3. Count(srv.req)' = Count(t) BY <1>10, <2>2 DEF Stays, Count
    <2>4. ServedOK'
      <3>1. WaitServed' /\ SignalServed' BY <2>2 DEF WaitServed, SignalServed, WaitPCs, SignalingPCs
      <3>2. SlotServed' BY <1>1, <1>2, <1>3, <1>8, <1>10, <2>1, <2>2, <2>3 DEF SlotServed, SlotPCs, TryPCs, Stays
      <3> QED BY <3>1, <3>2 DEF ServedOK
    <2>5. Settled' /\ Unguarded' /\ Searching' BY <2>2 DEF Settled, Unguarded, Searching
    <2> QED BY <1>1, <1>2, <1>4, <1>5, <1>10, <2>2, <2>4, <2>5, ServerGoes
  <1>11. CASE T # {} /\ srv' = [srv EXCEPT !.pc = "arm", !.todo = T] /\ Stays
    <2>1. srv' \in Srvs /\ srv'.pc = "arm" /\ srv'.req = t /\ srv'.pos = 0 /\ srv'.todo = T
      BY <1>0, <1>2, <1>8, <1>11, ZenonT(40) DEF Srvs, ServerPCs
    <2>2. ServedOK'
      <3>1. WaitServed' /\ SignalServed' BY <2>1 DEF WaitServed, SignalServed, WaitPCs, SignalingPCs
      <3>2. SlotServed' BY <1>1, <1>2, <1>3, <1>8, <1>11, <2>1 DEF SlotServed, SlotPCs, TryPCs, Stays
      <3> QED BY <3>1, <3>2 DEF ServedOK
    <2>3. Settled' /\ Unguarded' /\ Searching' BY <2>1 DEF Settled, Unguarded, Searching
    <2> QED BY <1>1, <1>2, <1>4, <1>5, <1>11, <2>1, <2>2, <2>3, ServerGoes
  <1>12. CASE T = {} /\ srv.tries # 3 /\ srv' = [SrvNext("guard") EXCEPT !.tries = srv.tries + 1] /\ Stays
    <2>1. srv.todo = {} BY <1>7, <1>12
    <2>2. srv.tries + 1 \in 0..3
      <3>1. srv.tries \in 0..3 BY <1>2 DEF Srvs
      <3> QED BY <1>12, <3>1
    <2>3. /\ srv' \in Srvs /\ srv'.pc = "guard" /\ srv'.i = 1 /\ srv'.guarded = 0 /\ srv'.req = t
          /\ srv'.pos = 0 /\ srv'.todo = {}
      BY <1>0, <1>2, <1>3, <1>12, <2>1, <2>2 DEF SrvNext, Srvs, ServerPCs
    <2>4. Count(srv.req)' = Count(t) BY <1>12, <2>3 DEF Stays, Count
    <2>5. srv'.i \in 1..Count(srv.req)' /\ srv'.i = srv'.guarded + 1 BY <1>2, <2>3, <2>4
    <2>6. ServedOK' BY <1>1, <1>2, <1>12, <2>3, <2>5, TryServed DEF Stays
    <2>7. Settled' /\ Unguarded' /\ Searching' BY <2>3 DEF Settled, Unguarded, Searching
    <2> QED BY <1>1, <1>2, <1>4, <1>5, <1>12, <2>3, <2>6, <2>7, ServerGoes
  <1> QED BY <1>7, <1>9, <1>10, <1>11, <1>12

-----------------------------------------------------------------------------
(* The invariant holds.                                                    *)
LEMMA StutterStep == ASSUME IInv, UNCHANGED vars PROVE IInv'
  <1>1. UNCHANGED <<word, pc, call, loc, left, cache_gen, srv, queue, slot, reg>> BY DEF vars, client
  <1>2. Alone /\ WordTypes' /\ Calm BY <1>1, Parts, StaysAlone, WordsStay DEF Stays
  <1>3. ServerTypes' BY <1>1, Parts DEF ServerTypes
  <1>4. RegisteredOK' BY <1>1, Parts DEF RegisteredOK
  <1>5. WaitServed' BY <1>1, Parts DEF ServedOK, WaitServed, Count
  <1>6. SignalServed' BY <1>1, Parts DEF ServedOK, SignalServed, Asking
  <1>7. SlotServed' BY <1>1, Parts DEF ServedOK, SlotServed, Count
  <1>8. QueuesOK' BY <1>1, Parts DEF QueuesOK, WaitsOn, WObj, Count, Elsewhere
  <1>9. GuardOK' /\ ServerFlagExact'
    <2>1. Guarded' = Guarded BY <1>1 DEF Guarded, WObj
    <2> QED BY <1>1, <2>1, GuardsStay
  <1>10. FoundOK'
    <2>1. Found' = Found /\ Finder' = Finder BY <1>1 DEF Found, Finder, WObj, Count
    <2>2. Found \subseteq Objs BY Parts, FoundIn
    <2>3. ASSUME NEW o \in Found PROVE ~word'[o].locked /\ Signaled(o, Finder)'
      <3>1. ~word[o].locked /\ Signaled(o, Finder) BY Parts DEF FoundOK
      <3>2. PICK u : u = Finder OBVIOUS
      <3>3. Signaled(o, u)' BY <1>1, <2>2, <3>1, <3>2, SignaledLow
      <3> QED BY <1>1, <2>1, <3>1, <3>2, <3>3 DEF Signaled
    <2> QED BY <2>1, <2>3 DEF FoundOK
  <1> QED BY <1>1, <1>2, <1>3, <1>4, <1>5, <1>6, <1>7, <1>8, <1>9, <1>10, ServerKeeps DEF ServedOK

LEMMA InitInv == Init => IInv
  <1> SUFFICES ASSUME Init PROVE IInv OBVIOUS
  <1>1. ThreadTypes /\ ClientTypes /\ \A t \in Threads : pc[t] = "idle" /\ loc[t] = Loc0
    <2>1. Loc0 \in Locs
      <3>1. [o \in Objs |-> 0] \in [Objs -> Nat] OBVIOUS
      <3>2. 1 \in 1..3 /\ 1 \in {1, 2} /\ 1 \in Nat /\ "none" \in Rets BY DEF Rets
      <3> QED BY <3>1, <3>2 DEF Loc0, Locs
    <2>2. "idle" \in ClientPCs /\ NoCall \in Calls BY DEF ClientPCs, Calls
    <2>3. pc = [t \in Threads |-> "idle"] /\ call = [t \in Threads |-> NoCall] /\ loc = [t \in Threads |-> Loc0]
          /\ left = MaxCalls /\ cache_gen = [o \in Objs |-> 1]
      BY DEF Init
    <2>4. 1 \in Nat OBVIOUS
    <2> QED BY <2>1, <2>2, <2>3, <2>4, BoundAssumption DEF ThreadTypes, ClientTypes
  <1>2. ServerTypes /\ srv.pc = "idle" /\ srv.pos = 0
    <2>1. srv = Srv0 /\ queue = [o \in Objs |-> <<>>] /\ slot = [t \in Threads |-> 0] /\ reg = [t \in Threads |-> {}]
      BY DEF Init
    <2>2. srv \in Srvs /\ srv.pc = "idle" /\ srv.pos = 0 BY <2>1, FreshRequest DEF Srv0
    <2>3. <<>> \in Seq(Threads) OBVIOUS
    <2> QED BY <2>1, <2>2, <2>3 DEF ServerTypes
  <1>3. WordTypes /\ \A o \in Objs : ~word[o].locked /\ ~word[o].server /\ ~word[o].multi
    <2>1. word = [o \in Objs |-> W(KindOf[o])!create_wfusync(InitWord[o][1], InitWord[o][2])] BY DEF Init
    <2>2. ASSUME NEW o \in Objs
          PROVE  word[o] \in Words(o) /\ ~word[o].locked /\ ~word[o].server /\ ~word[o].multi
      <3>1. word[o] = [low |-> InitWord[o][1], high |-> InitWord[o][2], generation |-> 1, type |-> KindOf[o],
                       locked |-> FALSE, server |-> FALSE, multi |-> FALSE]
        BY <2>1 DEF W!create_wfusync
      <3>2. InitWord[o][1] \in Int /\ InitWord[o][2] \in Int /\ 1 \in Nat BY InitAssumption
      <3> QED BY <3>1, <3>2 DEF Words
    <2>3. word = [o \in Objs |-> word[o]] BY <2>1
    <2> QED BY <2>2, <2>3 DEF WordTypes
  <1>4. TypeOK /\ WordsOK BY <1>1, <1>2, <1>3, TypeParts
  <1>5. PlaceOK BY <1>1 DEF PlaceOK, PlaceAt, AllPCs, AnyPCs, SignalPCs
  <1>6. \A t \in Threads : Locked(t) = {} /\ Takes(t) = {} BY <1>1 DEF Locked, Takes
  <1>7. LockedOK /\ TakesOK BY <1>3, <1>6 DEF LockedOK, TakesOK
  <1>8. \A t \in Threads : reg[t] = {} BY DEF Init
  <1>9. RegisteredOK BY <1>1, <1>3, <1>8 DEF RegisteredOK
  <1>10. ServedOK
    BY <1>2 DEF ServedOK, WaitServed, SignalServed, SlotServed, SlotPCs, TryPCs, WaitPCs, SignalingPCs
  <1>11. \A o \in Objs : queue[o] = <<>> BY DEF Init
  <1>12. QueuesOK
    <2>1. \A t \in Threads, o \in Objs : ~WaitsOn(t, o) BY <1>1 DEF WaitsOn
    <2>2. 1..Len(<<>>) = {} OBVIOUS
    <2> QED BY <1>11, <2>1, <2>2 DEF QueuesOK
  <1>13. Guarded = {} /\ Searching BY <1>2 DEF Guarded, Searching
  <1>14. GuardOK /\ ServerFlagExact BY <1>3, <1>11, <1>13 DEF GuardOK, ServerFlagExact
  <1>15. FoundOK BY <1>13, NothingFound
  <1> QED BY <1>4, <1>5, <1>7, <1>9, <1>10, <1>12, <1>14, <1>15 DEF IInv

LEMMA NextStep == IInv /\ [Next]_vars => IInv'
  <1> SUFFICES ASSUME IInv, [Next]_vars PROVE IInv' OBVIOUS
  <1>1. ASSUME NEW t \in Threads, ServerAccept(t) PROVE IInv'
    BY <1>1, SelectOnStep, StartRequestStep, StartSlotStep, WakeWfusyncStep DEF ServerAccept
  <1>2. ASSUME ServerStep PROVE IInv'
    BY <1>2, EnqueueStep, CheckWaitStep, SatisfiedStep, EndWaitStep, ServerSignalStep, WakeWaitersStep, WakeUpStep,
       SignalDoneStep, AbandonStep, ArmStep, AddWaiterStep, RegisterCheckStep, RemoveWaiterStep, UnregisteredStep,
       GuardStep, ProbeStep, ServerTakeStep, UnguardStep, AttemptDoneStep, UnsignaledStep DEF ServerStep
  <1> QED BY <1>1, <1>2, InvokeStep, ThreadStepKept, WaitTimeoutStep, ThreadTimeoutStep, StutterStep DEF Next

LEMMA Invariant == Spec => []IInv
  <1> QED BY InitInv, NextStep, PTL DEF Spec

(* Every variable stays in its type (the structures of                     *)
(* wfusync_wait_multiple, struct thread_wait and struct wfusync_waiter).   *)
THEOREM MultiTypes == Spec => []TypeOK
  <1>1. IInv => TypeOK BY DEF IInv
  <1> QED BY <1>1, Invariant, PTL

(* Threads that hold several words share none, in whatever order their     *)
(* callers name the objects, nor does wineserver's guard cover a held      *)
(* word, and no way out forgets a lock (try_wait_all_local,                *)
(* wfusync_try_wait_all).                                                  *)
THEOREM MultiWordsExclusive == Spec => []WordsExclusive
  <1>1. IInv => WordsExclusive BY Parts, GuardedIn DEF LockedOK, GuardOK, WordsExclusive
  <1> QED BY <1>1, Invariant, PTL

(* SERVER_WAITERS is up exactly while somebody is queued on the object in  *)
(* wineserver or its guard is (object_sync_add_queue,                      *)
(* object_sync_remove_queue, wfusync_try_wait_all).                        *)
THEOREM MultiServerFlag == Spec => []ServerFlagExact
  <1>1. IInv => ServerFlagExact BY DEF IInv
  <1> QED BY <1>1, Invariant, PTL

(* No way out of a call leaves a registration behind, and MULTI_WAITERS is *)
(* up exactly while somebody is registered (add_multi_waiter,              *)
(* remove_multi_waiter).                                                   *)
THEOREM MultiRegistrations == Spec => []NoLeakedRegistration
  <1>1. IInv => NoLeakedRegistration BY Parts DEF RegisteredOK, RegisteredAt, NoLeakedRegistration
  <1> QED BY <1>1, Invariant, PTL

(* What a wait was found to get is still there when it is taken, object by *)
(* object: in a thread under its locks (try_wait_all_local), in wineserver *)
(* under the queues or the guard (check_wait, end_wait,                    *)
(* wfusync_try_wait_all).                                                  *)
THEOREM MultiTakes == Spec => []TakenStillSignaled
  <1>1. ASSUME IInv PROVE TakenStillSignaled
    <2>1. ASSUME NEW o \in ServerTakes PROVE o \in Found /\ ServerTaker = Finder
      BY DEF ServerTakes, Found, ServerTaker, Finder
    <2>2. \A o \in Found : Signaled(o, Finder) BY <1>1, Parts DEF FoundOK
    <2>3. \A o \in ServerTakes : Signaled(o, ServerTaker) BY <2>1, <2>2
    <2>4. \A t \in Threads : \A o \in Takes(t) : Signaled(o, t) BY <1>1, Parts DEF TakesOK
    <2> QED BY <2>3, <2>4 DEF TakenStillSignaled
  <1> QED BY <1>1, Invariant, PTL

-----------------------------------------------------------------------------
(* No wake of a slot is lost: the inductive invariant.                     *)

(* Counts are not negative.                                                *)
ValueOK == \A o \in Objs : ~Mutex(o) => word[o].low \in Nat

(* wineserver wakes the slots registered on o before it is done with what  *)
(* it is doing.                                                            *)
ServerOwes(o) ==
  /\ srv.obj = o
  /\ IF Event(o) THEN srv.pc = "multi"
     ELSE srv.pc \in {"scan", "multi"} \/ (srv.pos > 0 /\ srv.pc \in {"check", "satisfy", "remove"})
ThreadOwes(u, o) == pc[u] \in {"signal_multi", "notify"} /\ call[u].obj = o
Owed(o) == ServerOwes(o) \/ \E u \in Threads : ThreadOwes(u, o)

(* The registration of t has not looked at o, or is being dropped.         *)
Registering(t, o) == /\ srv.req = t
                     /\ srv.pc \in {"arm", "flag", "unregister"} \/ (srv.pc = "regcheck" /\ o \in srv.todo)

SlotsOK == \A t \in Threads : \A o \in reg[t] :
             slot[t] = 1 /\ StateSignaled(o) => Owed(o) \/ Registering(t, o)

(* SignalObjectAndWait releases no mutex, whose wake_up would be the end   *)
(* of it.                                                                  *)
NoHandOver == \A t \in Threads : \A c \in CallsOf[t] : c.what = "sigwait" => ~Mutex(c.obj)
HandOverOK == srv.pos > 0 /\ call[srv.req].what = "sigwait" => ~Mutex(srv.obj)

SInv == ValueOK /\ HandOverOK /\ SlotsOK

LEMMA StateLow ==
  ASSUME NEW o \in Objs
  PROVE  /\ StateSignaled(o) <=> IF Mutex(o) THEN word[o].low <= 0 ELSE word[o].low > 0
         /\ StateSignaled(o)' <=> IF Mutex(o) THEN word'[o].low <= 0 ELSE word'[o].low > 0
  BY DEF StateSignaled, W!StateSignaled, W!Mutex, Mutex

(* A word that is not signaled anew.                                       *)
Calms(o) == /\ StateSignaled(o)' => StateSignaled(o)
            /\ ~Mutex(o) => word'[o].low \in Nat
LEMMA SameLow ==
  ASSUME ValueOK, NEW o \in Objs, word'[o].low = word[o].low
  PROVE  Calms(o)
  BY StateLow DEF Calms, ValueOK

LEMMA ConsumedCalms ==
  ASSUME ValueOK, NEW o \in Objs, word[o] \in Words(o), NEW t \in Threads, Signaled(o, t), word'[o].low = Consumed(o, t).low
  PROVE  Calms(o)
  <1>1. KindOf[o] \in Kinds BY KindOfAssumption DEF Kinds
  <1>2. t \in Nat \ {0} BY ThreadsAssumption
  <1> DEFINE w == word[o]
  <1>3. w \in Words(o) /\ w.low \in Int BY DEF Words
  <1>4. word'[o].low = W(KindOf[o])!Consumed(w, t).low BY DEF Consumed
  <1>5. W(KindOf[o])!Signaled(w, t) BY DEF Signaled
  <1>6. ~Mutex(o) => w.low \in Nat BY DEF ValueOK
  <1>7. StateSignaled(o) <=> IF Mutex(o) THEN w.low <= 0 ELSE w.low > 0 BY StateLow
  <1>8. StateSignaled(o)' <=> IF Mutex(o) THEN word'[o].low <= 0 ELSE word'[o].low > 0 BY StateLow
  <1> HIDE DEF w
  <1>9. CASE KindOf[o] = "mutex"
    <2>1. Mutex(o) BY <1>9 DEF Mutex
    <2>2. word'[o].low = t BY <1>3, <1>4, <1>9 DEF W!Consumed, Words
    <2> QED BY <1>2, <1>8, <2>1, <2>2 DEF Calms
  <1>10. CASE KindOf[o] # "mutex"
    <2>1. ~Mutex(o) BY <1>10 DEF Mutex
    <2>2. w.low > 0 BY <1>5, <1>10 DEF W!Signaled, W!Mutex
    <2>3. word'[o].low \in {0, w.low, w.low - 1}
      BY <1>1, <1>3, <1>4, <1>10 DEF W!Consumed, Words, Kinds
    <2> QED BY <1>6, <1>7, <1>8, <2>1, <2>2, <2>3 DEF Calms
  <1> QED BY <1>9, <1>10

(* A signal makes its object signaled anew only if it says so.             *)
LEMMA ReleasedCalms ==
  ASSUME ValueOK, NEW t \in Threads, call[t] \in CallsOf[t], NEW o \in Objs, o = call[t].obj, word[o] \in Words(o),
         call[t].what \in {"signal", "reset", "sigwait"}, word'[o].low = Released(t).low
  PROVE  /\ ~Mutex(o) => word'[o].low \in Nat
         /\ ~ReleaseWakes(t) => Calms(o)
  <1> DEFINE w == word[o]
             n == call[t].n
  <1>1. KindOf[o] \in Kinds /\ n \in Nat /\ (call[t].what = "reset" => Event(o))
    BY KindOfAssumption, CallsAssumption DEF Kinds, Call, Event
  <1>2. w \in Words(o) /\ w.low \in Int /\ w.high \in Int BY DEF Words
  <1>3. UlongSize \in Nat \ {0} BY WidthAssumption
  <1>4. word'[o].low = IF call[t].what = "reset" THEN [w EXCEPT !.low = 0].low ELSE W(KindOf[o])!Released(w, n).low
    BY DEF Released
  <1>5. ReleaseWakes(t) <=> call[t].what # "reset" /\ W(KindOf[o])!ReleaseWakes(w) BY DEF ReleaseWakes
  <1>6. ~Mutex(o) => w.low \in Nat BY DEF ValueOK
  <1>7. StateSignaled(o) <=> IF Mutex(o) THEN w.low <= 0 ELSE w.low > 0 BY StateLow
  <1>8. StateSignaled(o)' <=> IF Mutex(o) THEN word'[o].low <= 0 ELSE word'[o].low > 0 BY StateLow
  <1> HIDE DEF w, n
  <1>9. CASE KindOf[o] = "mutex"
    <2>1. Mutex(o) /\ ~Event(o) BY <1>9 DEF Mutex, Event
    <2>2. ~W(KindOf[o])!ReleaseWakes(w) => w.high > 1 BY <1>2, <1>9 DEF W!ReleaseWakes, W!Mutex
    <2>3. w.high > 1 => word'[o].low = w.low
      BY <1>1, <1>2, <1>4, <1>9, <2>1 DEF W!Released, W!Event, W!Semaphore, W!Mutex, Words
    <2> QED BY <1>1, <1>5, <1>7, <1>8, <2>1, <2>2, <2>3 DEF Calms
  <1>10. CASE KindOf[o] = "semaphore"
    <2>1. ~Mutex(o) /\ ~Event(o) BY <1>10 DEF Mutex, Event
    <2>2. ~W(KindOf[o])!ReleaseWakes(w) => w.low # 0 BY <1>10 DEF W!ReleaseWakes, W!Mutex
    <2>5. W(KindOf[o])!Released(w, n) = [w EXCEPT !.low = W(KindOf[o])!Sum(w, n)]
      BY <1>10 DEF W!Released, W!Event, W!Semaphore, W!Mutex
    <2>3. word'[o].low = W(KindOf[o])!Sum(w, n) BY <1>1, <1>2, <1>4, <2>1, <2>5 DEF Words
    <2>4. W(KindOf[o])!Sum(w, n) \in Nat
      <3>1. w.low + n \in Int BY <1>1, <1>2
      <3> QED BY <1>3, <3>1 DEF W!Sum
    <2> QED BY <1>1, <1>5, <1>6, <1>7, <1>8, <2>1, <2>2, <2>3, <2>4 DEF Calms
  <1>11. CASE Event(o)
    <2>1. ~Mutex(o) BY <1>11 DEF Mutex, Event
    <2>2. word'[o].low = IF call[t].what = "reset" THEN 0 ELSE 1
      <3>1. W(KindOf[o])!Released(w, n) = [w EXCEPT !.low = 1] BY <1>11 DEF W!Released, W!Event, W!Semaphore, W!Mutex, Event
      <3> QED BY <1>2, <1>4, <3>1 DEF Words
    <2>3. ~W(KindOf[o])!ReleaseWakes(w) => w.low # 0 BY <1>11 DEF W!ReleaseWakes, W!Mutex, Event
    <2> QED BY <1>5, <1>6, <1>7, <1>8, <1>11, <2>1, <2>2, <2>3 DEF Calms
  <1> QED BY <1>1, <1>9, <1>10, <1>11 DEF Kinds, Event

(* The slots when a thread or wineserver moves: nobody sets one, nobody is *)
(* registered on more, and what is owed is still owed.                     *)
LEMMA SlotsKept ==
  ASSUME SlotsOK, reg \in [Threads -> SUBSET Objs],
         \A t \in Threads : reg'[t] \subseteq reg[t] /\ (slot'[t] = 1 => slot[t] = 1),
         \A t \in Threads : \A o \in reg'[t] : slot'[t] = 1 =>
           /\ StateSignaled(o)' => StateSignaled(o) \/ Owed(o)'
           /\ Owed(o) => Owed(o)'
           /\ StateSignaled(o)' /\ Registering(t, o) => Registering(t, o)'
  PROVE  SlotsOK'
  <1> SUFFICES ASSUME NEW t \in Threads, NEW o \in reg'[t], slot'[t] = 1, StateSignaled(o)'
               PROVE  Owed(o)' \/ Registering(t, o)'
    BY DEF SlotsOK
  <1>1. o \in reg[t] /\ slot[t] = 1 OBVIOUS
  <1> QED BY <1>1 DEF SlotsOK

-----------------------------------------------------------------------------
(* Steps of threads.                                                       *)
Others(t) == \A u \in Threads : u # t => pc'[u] = pc[u] /\ call'[u] = call[u]
LEMMA ThreadSlots ==
  ASSUME IInv, SInv, NEW t \in Threads, Others(t), pc[t] \notin Served \cup {"signal_multi"},
         UNCHANGED <<srv, slot, reg>>,
         \A o \in Objs : Calms(o) \/ ((~Mutex(o) => word'[o].low \in Nat) /\ ThreadOwes(t, o)')
  PROVE  SInv'
  <1>1. ValueOK' BY DEF ValueOK, Calms
  <1>2. HandOverOK'
    <2>1. srv.pos > 0 => srv.req # t BY Parts DEF ServedOK, SignalServed, Asking, Served
    <2>2. srv.pos > 0 => srv.req \in Threads BY Parts DEF ServedOK, SignalServed, Asking
    <2> QED BY <2>1, <2>2 DEF SInv, HandOverOK, Others
  <1>3. reg \in [Threads -> SUBSET Objs] BY Parts DEF ServerTypes
  <1>4. \A u \in Threads, o \in Objs : ThreadOwes(u, o) => ThreadOwes(u, o)'
    BY DEF ThreadOwes, Others, Served
  <1>5. \A o \in Objs : Owed(o) => Owed(o)' BY <1>4 DEF Owed, ServerOwes
  <1>6. \A o \in Objs : StateSignaled(o)' => StateSignaled(o) \/ Owed(o)' BY DEF Calms, Owed
  <1>7. \A u \in Threads, o \in Objs : Registering(u, o) => Registering(u, o)' BY DEF Registering
  <1>8. SlotsOK' BY <1>3, <1>5, <1>6, <1>7, SlotsKept DEF SInv
  <1> QED BY <1>1, <1>2, <1>8 DEF SInv

LEMMA MoveAlone ==
  ASSUME ThreadTypes, NEW t \in Threads, NEW w, NEW l
  PROVE  /\ (Goto(t, w) \/ UNCHANGED pc) /\ UNCHANGED call => Others(t)
         /\ Return(t) \/ Finish(t, w) \/ Fallback(t) \/ GiveUp(t, w) \/ AnyDone(t, w) \/ AnyNext(t, w) \/ AfterLocal(t) => Others(t)
  <1>1. /\ (Goto(t, w) \/ UNCHANGED pc) /\ UNCHANGED call => Others(t)
        /\ Return(t) \/ Finish(t, w) \/ Fallback(t) \/ GiveUp(t, w) => Others(t)
    BY DEF ThreadTypes, Others, Goto, Return, Finish, Fallback, GiveUp
  <1>2. ASSUME NEW r PROVE AnyDone(t, r) => Others(t)
    BY DEF ThreadTypes, Others, AnyDone, Goto, Finish, Fallback
  <1>3. AfterLocal(t) => Others(t) BY DEF ThreadTypes, Others, AfterLocal, Goto, Return
  <1>4. AnyNext(t, w) => Others(t) BY <1>2 DEF ThreadTypes, Others, AnyNext, Goto
  <1> QED BY <1>1, <1>2, <1>3, <1>4

LEMMA QuietSlots ==
  ASSUME IInv, SInv, NEW t \in Threads, Others(t), pc[t] \notin Served \cup {"signal_multi"},
         UNCHANGED <<srv, slot, reg>>, \A o \in Objs : word'[o].low = word[o].low
  PROVE  SInv'
  <1>1. \A o \in Objs : Calms(o) BY SameLow DEF SInv
  <1> QED BY <1>1, ThreadSlots

(* Locks, flags and generations leave the count and the owner alone.       *)
LEMMA FlagsOnly ==
  ASSUME WordTypes, NEW q, NEW b,
         \/ UNCHANGED word
         \/ word' = [word EXCEPT ![q].locked = b]
         \/ word' = [word EXCEPT ![q].server = b]
         \/ word' = [word EXCEPT ![q].multi = b]
  PROVE  \A o \in Objs : word'[o].low = word[o].low
  <1> SUFFICES ASSUME NEW o \in Objs PROVE word'[o].low = word[o].low OBVIOUS
  <1>1. word[o] \in Words(o) /\ word = [p \in Objs |-> word[p]] BY DEF WordTypes
  <1>2. CASE q = o BY <1>1, <1>2 DEF Words
  <1>3. CASE q # o BY <1>1, <1>3
  <1> QED BY <1>2, <1>3

LEMMA QuietThreads ==
  ASSUME IInv, SInv, NEW t \in Threads,
         \/ Invoke(t) \/ return(t) \/ gather(t) \/ eval_all(t) \/ refresh_all(t) \/ any_check(t)
         \/ any_refresh(t) \/ wait_slot(t) \/ slot_woken(t) \/ wait_interrupted(t) \/ wait_timeout(t) \/ signal_check(t)
  PROVE  SInv'
  <1>0. ThreadTypes BY Parts
  <1>1. /\ UNCHANGED <<word, srv, slot, reg>> /\ pc[t] \notin Served \cup {"signal_multi"}
    BY DEF Invoke, return, gather, eval_all, refresh_all, any_check, any_refresh, wait_slot, slot_woken,
           wait_interrupted, wait_timeout, signal_check, Woken, ClientOnly, Served
  <1>2. Others(t)
    <2>1. CASE Invoke(t) BY <2>1, <1>0 DEF Invoke, Goto, Others, ThreadTypes
    <2>2. CASE return(t) BY <2>2, <1>0, MoveAlone DEF return
    <2>3. CASE gather(t) BY <2>3, <1>0, MoveAlone DEF gather
    <2>4. CASE eval_all(t) BY <2>4, <1>0, MoveAlone DEF eval_all
    <2>5. CASE refresh_all(t) BY <2>5, <1>0, MoveAlone DEF refresh_all
    <2>6. CASE any_check(t) BY <2>6, <1>0, MoveAlone DEF any_check
    <2>7. CASE any_refresh(t) BY <2>7, <1>0, MoveAlone DEF any_refresh
    <2>8. CASE wait_slot(t) \/ slot_woken(t) \/ wait_interrupted(t)
      BY <2>8, <1>0, MoveAlone DEF wait_slot, slot_woken, wait_interrupted, Woken
    <2>9. CASE wait_timeout(t) BY <2>9, <1>0, MoveAlone DEF wait_timeout
    <2>10. CASE signal_check(t) BY <2>10, <1>0, MoveAlone DEF signal_check
    <2> QED BY <2>1, <2>2, <2>3, <2>4, <2>5, <2>6, <2>7, <2>8, <2>9, <2>10
  <1> QED BY <1>1, <1>2, QuietSlots

LEMMA LockingThreads ==
  ASSUME IInv, SInv, NEW t \in Threads, lock_all(t) \/ unlock_all(t) \/ any_lock(t) \/ signal_lock(t)
  PROVE  SInv'
  <1>0. ThreadTypes /\ WordTypes BY Parts, SMTT(20)
  <1>1. /\ UNCHANGED <<srv, slot, reg>> /\ pc[t] \notin Served \cup {"signal_multi"}
    BY DEF lock_all, unlock_all, any_lock, signal_lock, ClientOnly, Served
  <1>2. Others(t)
    <2>1. CASE lock_all(t) BY <2>1, <1>0, MoveAlone DEF lock_all
    <2>2. CASE unlock_all(t) BY <2>2, <1>0, MoveAlone DEF unlock_all
    <2>3. CASE any_lock(t) BY <2>3, <1>0, MoveAlone DEF any_lock
    <2>4. CASE signal_lock(t) BY <2>4, <1>0, MoveAlone DEF signal_lock
    <2> QED BY <2>1, <2>2, <2>3, <2>4
  <1>3. \A o \in Objs : word'[o].low = word[o].low
    <2>1. \E q, b : UNCHANGED word \/ word' = [word EXCEPT ![q].locked = b]
      BY DEF lock_all, unlock_all, any_lock, signal_lock
    <2> QED BY <1>0, <2>1, FlagsOnly, SMTT(20)
  <1> QED BY <1>1, <1>2, <1>3, QuietSlots

(* Writes of counts and owners.                                            *)
LEMMA TakingThreads ==
  ASSUME IInv, SInv, NEW t \in Threads, take_all(t) \/ any_consume(t)
  PROVE  SInv'
  <1>0. ThreadTypes /\ WordTypes /\ PlaceOK BY Parts
  <1>1. /\ UNCHANGED <<srv, slot, reg>> /\ pc[t] \notin Served \cup {"signal_multi"}
    BY DEF take_all, any_consume, ClientOnly, Served
  <1>2. Others(t)
    <2>1. CASE take_all(t) BY <2>1, <1>0, MoveAlone DEF take_all
    <2>2. CASE any_consume(t) BY <2>2, <1>0, MoveAlone DEF any_consume
    <2> QED BY <2>1, <2>2
  <1>3. PICK o \in Objs : o = At(t) /\ o = WObj(t, loc[t].i) /\ loc[t].i \in 1..Count(t)
    BY <1>0, ObjectAt DEF take_all, any_consume
  <1>4. word[o] \in Words(o) /\ word = [p \in Objs |-> word[p]] /\ Consumed(o, t) \in Words(o)
    BY <1>0, ConsumedWord DEF WordTypes, Like
  <1>5. \/ word' = [word EXCEPT ![o] = Consumed(o, t)] /\ Signaled(o, t)
        \/ word' = [word EXCEPT ![o] = [Consumed(o, t) EXCEPT !.locked = FALSE]] /\ Signaled(o, t)
        \/ word' = [word EXCEPT ![o] = [word[o] EXCEPT !.locked = FALSE]]
    <2>1. CASE take_all(t)
      <3>1. loc[t].i \in loc[t].i..Count(t)
        <4>1. loc[t] \in Locs /\ pc[t] # "idle" BY <2>1, <1>0 DEF take_all, ThreadTypes
        <4>2. Count(t) \in Nat BY <4>1, <1>0, CallAt
        <4> QED BY <1>3, <4>2
      <3>2. o \in Takes(t) BY <2>1, <1>3, <3>1 DEF take_all, Takes, WObj
      <3>3. Signaled(o, t) BY <3>2, Parts DEF TakesOK
      <3> QED BY <2>1, <1>3, <3>3 DEF take_all
    <2>2. CASE any_consume(t) BY <2>2, <1>3 DEF any_consume
    <2> QED BY <2>1, <2>2
  <1>6. \/ word'[o].low = Consumed(o, t).low /\ Signaled(o, t)
        \/ word'[o].low = word[o].low
    <2> DEFINE y == Consumed(o, t)
               w == word[o]
    <2>1. y \in Words(o) /\ w \in Words(o) BY <1>4
    <2>2. \/ word'[o] = y /\ Signaled(o, t)
          \/ word'[o] = [y EXCEPT !.locked = FALSE] /\ Signaled(o, t)
          \/ word'[o] = [w EXCEPT !.locked = FALSE]
      BY <1>4, <1>5
    <2> HIDE DEF y, w
    <2>3. (word'[o].low = y.low /\ Signaled(o, t)) \/ word'[o].low = w.low BY <2>1, <2>2 DEF Words
    <2> QED BY <2>3 DEF y, w
  <1>7. \A p \in Objs : p # o => word'[p].low = word[p].low BY <1>4, <1>5
  <1>8. \A p \in Objs : Calms(p) BY <1>4, <1>6, <1>7, SameLow, ConsumedCalms DEF SInv
  <1> QED BY <1>1, <1>2, <1>8, ThreadSlots

LEMMA SignalingThreads ==
  ASSUME IInv, SInv, NEW t \in Threads, signal_write(t)
  PROVE  SInv'
  <1>0. ThreadTypes /\ WordTypes BY Parts
  <1>1. UNCHANGED <<srv, slot, reg>> /\ pc[t] = "signal_write" BY DEF signal_write, ClientOnly
  <1>2. Others(t) BY <1>0, MoveAlone DEF signal_write
  <1>3. PICK o \in Objs : o = call[t].obj /\ call[t] \in CallsOf[t] /\ call[t] \in Call /\ call[t].what \in {"signal", "reset"}
    BY <1>1, SignalAt DEF SignalPCs
  <1>4. word[o] \in Words(o) /\ word = [p \in Objs |-> word[p]] /\ Released(t) \in Words(o)
    BY <1>0, <1>3, ReleasedWord DEF WordTypes, Like
  <1>5. \/ word' = [word EXCEPT ![o].locked = FALSE]
        \/ word' = [word EXCEPT ![o] = [Released(t) EXCEPT !.locked = FALSE]]
    BY <1>3 DEF signal_write
  <1>6. CASE word' = [word EXCEPT ![o].locked = FALSE]
    <2>1. \A p \in Objs : Calms(p) BY <1>0, <1>6, FlagsOnly, SameLow DEF SInv
    <2> QED BY <1>1, <1>2, <2>1, ThreadSlots DEF Served
  <1>7. CASE word' = [word EXCEPT ![o] = [Released(t) EXCEPT !.locked = FALSE]] /\ ~Refused(t)
    <2> DEFINE y == Released(t)
    <2>1. word'[o] = [y EXCEPT !.locked = FALSE] BY <1>4, <1>7
    <2>2. word'[o].low = y.low
      <3> HIDE DEF y
      <3> QED BY <1>4, <2>1 DEF Words, y
    <2>3. \A p \in Objs : p # o => Calms(p) BY <1>4, <1>7, SameLow DEF SInv
    <2>4. /\ ~Mutex(o) => word'[o].low \in Nat
          /\ ~ReleaseWakes(t) => Calms(o)
      BY <1>3, <1>4, <2>2, ReleasedCalms DEF SInv
    <2>5. ReleaseWakes(t) => ThreadOwes(t, o)'
      BY <1>0, <1>3, <1>4, <1>7 DEF signal_write, Goto, ThreadOwes, ThreadTypes
    <2>6. Calms(o) \/ ((~Mutex(o) => word'[o].low \in Nat) /\ ThreadOwes(t, o)') BY <2>4, <2>5
    <2> QED BY <1>1, <1>2, <2>3, <2>6, ThreadSlots DEF Served
  <1> QED BY <1>3, <1>5, <1>6, <1>7 DEF signal_write

LEMMA NoticingThreads == ASSUME IInv, SInv, NEW t \in Threads, signal_multi(t) PROVE SInv'
  <1>0. ThreadTypes /\ ServerTypes BY Parts
  <1>1. UNCHANGED <<word, srv, slot, reg>> /\ pc[t] = "signal_multi" BY DEF signal_multi, ClientOnly
  <1>2. Others(t) BY <1>0, MoveAlone DEF signal_multi
  <1>3. \A u \in Threads, o \in Objs : o \in reg[u] /\ ThreadOwes(t, o) => ThreadOwes(t, o)'
    <2>1. \A u \in Threads, o \in Objs : o \in reg[u] => word[o].multi BY Parts DEF RegisteredOK
    <2>2. word[call[t].obj].multi => pc'[t] = "notify" /\ call' = call
      BY <1>0 DEF signal_multi, Goto, ThreadTypes
    <2> QED BY <2>1, <2>2 DEF ThreadOwes
  <1>4. \A u \in Threads, o \in Objs : o \in reg[u] /\ Owed(o) => Owed(o)'
    <2>1. \A o \in Objs : ServerOwes(o) => ServerOwes(o)' BY <1>1 DEF ServerOwes
    <2>2. \A v \in Threads, o \in Objs : v # t /\ ThreadOwes(v, o) => ThreadOwes(v, o)' BY <1>2 DEF Others, ThreadOwes
    <2> QED BY <1>3, <2>1, <2>2 DEF Owed
  <1>5. \A o \in Objs : StateSignaled(o)' <=> StateSignaled(o) BY <1>1 DEF StateSignaled
  <1>6. \A u \in Threads, o \in Objs : Registering(u, o) => Registering(u, o)' BY <1>1 DEF Registering
  <1>7. SlotsOK' BY <1>0, <1>1, <1>4, <1>5, <1>6, SlotsKept DEF SInv, ServerTypes
  <1>8. ValueOK' BY <1>1 DEF SInv, ValueOK
  <1>9. HandOverOK'
    <2>1. srv.pos > 0 => srv.req # t /\ srv.req \in Threads BY <1>1, Parts DEF ServedOK, SignalServed, Asking
    <2> QED BY <1>1, <1>2, <2>1 DEF SInv, HandOverOK, Others
  <1> QED BY <1>7, <1>8, <1>9 DEF SInv

-----------------------------------------------------------------------------
(* Steps of wineserver.                                                    *)
DebtorsStay == \A u \in Threads : pc[u] \in {"signal_multi", "notify"} => pc'[u] = pc[u] /\ call'[u] = call[u]
LEMMA ServerSlots ==
  ASSUME IInv, SInv, DebtorsStay, HandOverOK',
         \A t \in Threads : reg'[t] \subseteq reg[t] /\ (slot'[t] = 1 => slot[t] = 1),
         \A o \in Objs : ~Mutex(o) => word'[o].low \in Nat,
         \A o \in Objs : StateSignaled(o)' => StateSignaled(o) \/ ServerOwes(o)',
         \A o \in Objs : ServerOwes(o) => ServerOwes(o)',
         \A t \in Threads : \A o \in reg'[t] : slot'[t] = 1 /\ StateSignaled(o)' /\ Registering(t, o) => Registering(t, o)'
  PROVE  SInv'
  <1>1. ValueOK' BY DEF ValueOK
  <1>2. reg \in [Threads -> SUBSET Objs] BY Parts DEF ServerTypes
  <1>3. \A u \in Threads, o \in Objs : ThreadOwes(u, o) => ThreadOwes(u, o)' BY DEF ThreadOwes, DebtorsStay
  <1>4. \A o \in Objs : Owed(o) => Owed(o)' BY <1>3 DEF Owed
  <1>5. \A o \in Objs : StateSignaled(o)' => StateSignaled(o) \/ Owed(o)' BY DEF Owed
  <1>6. \A t \in Threads : \A o \in reg'[t] : o \in Objs BY <1>2
  <1>7. SlotsOK' BY <1>2, <1>4, <1>5, <1>6, SlotsKept DEF SInv
  <1> QED BY <1>1, <1>7 DEF SInv

(* wineserver owes nobody anything.                                        *)
Debtless == srv.pc \in {"idle", "enqueue", "signal", "done", "abandon"} \cup TryPCs
LEMMA DebtlessSlots ==
  ASSUME IInv, SInv, Debtless, DebtorsStay, HandOverOK', UNCHANGED <<slot, reg>>, \A o \in Objs : Calms(o)
  PROVE  SInv'
  <1>1. \A o \in Objs : ~ServerOwes(o) /\ \A t \in Threads : ~Registering(t, o)
    BY DEF Debtless, ServerOwes, Registering, TryPCs
  <1>2. reg \in [Threads -> SUBSET Objs] BY Parts DEF ServerTypes
  <1> QED BY <1>1, <1>2, ServerSlots DEF Calms

LEMMA Debtors ==
  ASSUME ThreadTypes, NEW t \in Threads, pc[t] \notin {"signal_multi", "notify"},
         Others(t) \/ UNCHANGED <<pc, call>>
  PROVE  DebtorsStay
  BY DEF Others, DebtorsStay

LEMMA Calming == ASSUME SInv, \A o \in Objs : word'[o].low = word[o].low PROVE \A o \in Objs : Calms(o)
  BY SameLow DEF SInv

LEMMA Accepting ==
  ASSUME IInv, SInv, NEW t \in Threads, select_on(t) \/ start_request(t) \/ start_slot_request(t) \/ thread_timeout(t)
  PROVE  SInv'
  <1>0. ThreadTypes BY Parts
  <1>1. UNCHANGED <<word, slot, reg>> /\ srv.pc = "idle" /\ pc[t] \notin {"signal_multi", "notify"}
    BY DEF select_on, start_request, start_slot_request, thread_timeout, Registry
  <1>2. DebtorsStay
    <2>1. Others(t) \/ UNCHANGED <<pc, call>>
      BY <1>0, MoveAlone DEF select_on, start_request, start_slot_request, thread_timeout, client
    <2> QED BY <1>0, <1>1, <2>1, Debtors
  <1>3. srv'.pos = 0
    BY DEF select_on, start_request, start_slot_request, thread_timeout, Srv0
  <1>4. \A o \in Objs : Calms(o) BY <1>1, Calming
  <1> QED BY <1>1, <1>2, <1>3, <1>4, DebtlessSlots DEF Debtless, HandOverOK

LEMMA EnqueueSlots == ASSUME IInv, SInv, enqueue PROVE SInv'
  <1>0. ThreadTypes /\ WordTypes BY Parts
  <1>1. UNCHANGED <<slot, reg, pc, call>> /\ srv.pc = "enqueue" BY DEF enqueue, Registry, client
  <1>2. srv \in Srvs /\ srv.pos = 0 BY <1>1, WaiterAt, Parts DEF WaitPCs, ServedOK, WaitServed
  <1>3. srv'.pos = 0
    <2>1. \A m, q : /\ [srv EXCEPT !.i = @ + 1].pos = srv.pos /\ [srv EXCEPT !.pc = "check", !.i = 1].pos = srv.pos
                    /\ [srv EXCEPT !.pc = "signal", !.obj = q, !.max = m].pos = srv.pos
      BY <1>2 DEF Srvs
    <2> QED BY <1>2, <2>1 DEF enqueue
  <1>4. \A o \in Objs : Calms(o) BY <1>0, FlagsOnly, Calming DEF enqueue
  <1> QED BY <1>1, <1>3, <1>4, DebtlessSlots DEF Debtless, HandOverOK, DebtorsStay

(* wake_up goes on with the same object.                                   *)
Waking == {"check", "satisfy", "remove", "scan"}
GoesOn == srv'.obj = srv.obj /\ srv'.req = srv.req /\ srv'.pos > 0 /\ srv'.pc \in Waking
LEMMA WakingSlots ==
  ASSUME IInv, SInv, srv.pc \in Waking, srv.pos > 0 => GoesOn, srv.pos = 0 => srv'.pos = 0,
         DebtorsStay, srv.pos > 0 => UNCHANGED call \/ call'[srv.req] = call[srv.req],
         UNCHANGED <<slot, reg>>, \A o \in Objs : Calms(o)
  PROVE  SInv'
  <1>1. srv.pos \in Nat BY Parts DEF ServerTypes, Srvs
  <1>2. HandOverOK'
    <2>1. CASE srv.pos = 0 BY <2>1 DEF HandOverOK
    <2>2. CASE srv.pos > 0
      <3>1. call'[srv'.req] = call[srv.req] /\ srv'.obj = srv.obj BY <2>2 DEF GoesOn
      <3> QED BY <2>2, <3>1 DEF SInv, HandOverOK
    <2> QED BY <1>1, <2>1, <2>2
  <1>3. \A o \in Objs : ServerOwes(o) => ServerOwes(o)'
    <2>1. srv.pc = "scan" => srv.pos > 0 BY Parts DEF ServedOK, SignalServed
    <2> QED BY <2>1 DEF ServerOwes, Waking, GoesOn
  <1>4. \A t \in Threads, o \in Objs : ~Registering(t, o) BY DEF Registering, Waking
  <1>5. reg \in [Threads -> SUBSET Objs] BY Parts DEF ServerTypes
  <1> QED BY <1>2, <1>3, <1>4, <1>5, ServerSlots DEF Calms

LEMMA CheckWaitSlots == ASSUME IInv, SInv, check_wait PROVE SInv'
  <1>1. UNCHANGED <<word, slot, reg, pc, call>> /\ srv.pc = "check" BY DEF check_wait, Registry, client
  <1>2. srv \in Srvs /\ srv.pos \in Nat /\ srv.i \in Nat BY <1>1, WaiterAt DEF WaitPCs
  <1>3. /\ srv'.pos = 0 => srv' = Srv0 \/ srv.pos = 0
        /\ srv.pos > 0 => GoesOn
        /\ srv.pos = 0 => srv'.pos = 0
    <2>1. \/ srv' = [srv EXCEPT !.pc = "satisfy", !.i = 1]
          \/ srv' = [srv EXCEPT !.pc = "satisfy"]
          \/ \E b : srv' = [srv EXCEPT !.i = @ + 1, !.ok = b]
          \/ srv' = [srv EXCEPT !.pc = "remove", !.i = 1]
          \/ srv.pos = 0 /\ srv' = Srv0
          \/ srv.pos # 0 /\ srv' = [srv EXCEPT !.pc = "scan", !.pos = @ + 1]
      BY DEF check_wait, NotSatisfied
    <2>2. Srv0.pos = 0 /\ srv.pos + 1 > 0 BY <1>2 DEF Srv0
    <2>3. CASE \E b : srv' = [srv EXCEPT !.i = @ + 1, !.ok = b] BY <1>1, <1>2, <2>3 DEF Srvs, GoesOn, Waking
    <2>4. CASE srv' = [srv EXCEPT !.pc = "satisfy", !.i = 1] \/ srv' = [srv EXCEPT !.pc = "satisfy"]
      BY <1>1, <1>2, <2>4 DEF Srvs, GoesOn, Waking
    <2>5. CASE srv' = [srv EXCEPT !.pc = "remove", !.i = 1] BY <1>1, <1>2, <2>5 DEF Srvs, GoesOn, Waking
    <2>6. CASE srv.pos # 0 /\ srv' = [srv EXCEPT !.pc = "scan", !.pos = @ + 1]
      BY <1>1, <1>2, <2>2, <2>6 DEF Srvs, GoesOn, Waking
    <2>7. CASE srv.pos = 0 /\ srv' = Srv0 BY <1>2, <2>2, <2>7
    <2> QED BY <2>1, <2>3, <2>4, <2>5, <2>6, <2>7
  <1>4. \A o \in Objs : Calms(o) BY <1>1, Calming
  <1> QED BY <1>1, <1>3, <1>4, WakingSlots DEF Waking, DebtorsStay

LEMMA SatisfiedSlots == ASSUME IInv, SInv, satisfied PROVE SInv'
  <1>0. ThreadTypes /\ WordTypes BY Parts
  <1>1. UNCHANGED <<slot, reg, pc, call>> /\ srv.pc = "satisfy" BY DEF satisfied, Registry
  <1>2. srv \in Srvs /\ srv.pos \in Nat /\ srv.cur \in Threads /\ WObj(srv.cur, srv.i) \in Objs
    BY <1>1, WaiterAt DEF WaitPCs
  <1>3. (srv.pos > 0 => GoesOn) /\ (srv.pos = 0 => srv'.pos = 0)
    <2>1. srv' = [srv EXCEPT !.i = @ + 1] \/ srv' = [srv EXCEPT !.pc = "remove", !.i = 1] BY DEF satisfied
    <2>2. CASE srv' = [srv EXCEPT !.i = @ + 1] BY <1>1, <1>2, <2>2 DEF Srvs, GoesOn, Waking
    <2>3. CASE srv' = [srv EXCEPT !.pc = "remove", !.i = 1] BY <1>1, <1>2, <2>3 DEF Srvs, GoesOn, Waking
    <2> QED BY <2>1, <2>2, <2>3
  <1>4. PICK t \in Threads, o \in Objs : t = srv.cur /\ o = WObj(srv.cur, srv.i) BY <1>2
  <1>5. word[o] \in Words(o) /\ word = [p \in Objs |-> word[p]] BY <1>0 DEF WordTypes
  <1>6. word' = word \/ (Signaled(o, t) /\ word' = [word EXCEPT ![o] = Consumed(o, t)]) BY <1>4 DEF satisfied
  <1>7. \A p \in Objs : Calms(p) BY <1>5, <1>6, SameLow, ConsumedCalms DEF SInv
  <1> QED BY <1>1, <1>3, <1>7, WakingSlots DEF Waking, DebtorsStay

LEMMA EndWaitSlots == ASSUME IInv, SInv, end_wait PROVE SInv'
  <1>0. ThreadTypes /\ WordTypes BY Parts
  <1>1. UNCHANGED <<slot, reg>> /\ srv.pc = "remove" BY DEF end_wait, Registry
  <1>2. srv \in Srvs /\ srv.pos \in Nat /\ srv.cur \in Threads /\ pc[srv.cur] = "queued" BY <1>1, WaiterAt DEF WaitPCs
  <1>3. PICK t \in Threads : t = srv.cur /\ pc[t] = "queued" BY <1>2
  <1>4. \/ UNCHANGED <<pc, call>>
        \/ t = srv.req /\ srv.pos > 0 /\ Goto(t, "served") /\ UNCHANGED call
        \/ ~(srv.pos > 0 /\ t = srv.req) /\ Return(t)
    BY <1>3 DEF end_wait
  <1>5. Others(t)
    <2>1. UNCHANGED <<pc, call>> => Others(t) BY DEF Others
    <2> QED BY <1>0, <1>4, <2>1, MoveAlone
  <1>6. DebtorsStay BY <1>0, <1>3, <1>5, Debtors
  <1>7. srv.pos > 0 => UNCHANGED call \/ call'[srv.req] = call[srv.req]
    <2>1. srv.pos > 0 => srv.req \in Threads BY Parts DEF ServedOK, SignalServed, Asking
    <2> QED BY <1>4, <1>5, <2>1 DEF Others
  <1>8. (srv.pos > 0 => GoesOn) /\ (srv.pos = 0 => srv'.pos = 0)
    <2> DEFINE n == IF srv.max = 1 THEN Len(queue[srv.obj]) + 1 ELSE 1
               m == IF srv.max > 0 THEN srv.max - 1 ELSE 0
    <2>1. \/ srv' = [srv EXCEPT !.i = @ + 1]
          \/ srv.pos = 0 /\ srv' = Srv0
          \/ srv.pos # 0 /\ srv' = [Rescan EXCEPT !.max = m, !.pos = n]
      BY <1>2 DEF end_wait, Rescan, Srvs
    <2>2. CASE srv' = [srv EXCEPT !.i = @ + 1] BY <1>1, <1>2, <2>2 DEF Srvs, GoesOn, Waking
    <2>3. CASE srv.pos = 0 /\ srv' = Srv0 BY <1>2, <2>3 DEF Srv0
    <2>4. CASE srv.pos # 0 /\ srv' = [Rescan EXCEPT !.max = m, !.pos = n]
      <3>1. srv.obj \in Objs BY <1>2, <2>4, Parts DEF ServedOK, SignalServed
      <3>2. n > 0 BY <3>1, Parts DEF ServerTypes
      <3> HIDE DEF n, m
      <3> QED BY <1>2, <2>4, <3>2 DEF Rescan, Srvs, GoesOn, Waking
    <2> QED BY <2>1, <2>2, <2>3, <2>4
  <1>9. \A o \in Objs : Calms(o) BY <1>0, FlagsOnly, Calming DEF end_wait
  <1> QED BY <1>1, <1>6, <1>7, <1>8, <1>9, WakingSlots DEF Waking

LEMMA WakeUpSlots == ASSUME IInv, SInv, wake_up PROVE SInv'
  <1>1. UNCHANGED <<word, slot, reg, pc, call>> /\ srv.pc = "scan" BY DEF wake_up, Registry, client
  <1>2. srv \in Srvs /\ srv.pos \in Nat /\ srv.pos > 0 BY <1>1, SignalerAt DEF SignalingPCs
  <1>3. PICK p \in {"check", "multi", "done"} :
             /\ srv'.pc = p /\ srv'.obj = srv.obj /\ srv'.req = srv.req /\ srv'.pos = srv.pos
             /\ p = "done" => Event(srv.obj) \/ (Mutex(srv.obj) /\ call[srv.req].what = "sigwait")
    <2>1. \/ srv' = [srv EXCEPT !.pc = "check", !.i = 1, !.ok = TRUE, !.cur = queue[srv.obj][srv.pos]]
          \/ srv' = [srv EXCEPT !.pc = "multi"]
          \/ /\ srv' = [srv EXCEPT !.pc = "done"]
             /\ Event(srv.obj) \/ (Mutex(srv.obj) /\ call[srv.req].what = "sigwait")
      BY DEF wake_up, ScanDone
    <2>2. CASE srv' = [srv EXCEPT !.pc = "check", !.i = 1, !.ok = TRUE, !.cur = queue[srv.obj][srv.pos]]
      BY <1>2, <2>2 DEF Srvs
    <2>3. CASE srv' = [srv EXCEPT !.pc = "multi"] BY <1>2, <2>3 DEF Srvs
    <2>4. CASE /\ srv' = [srv EXCEPT !.pc = "done"]
               /\ Event(srv.obj) \/ (Mutex(srv.obj) /\ call[srv.req].what = "sigwait")
      BY <1>2, <2>4 DEF Srvs
    <2> QED BY <2>1, <2>2, <2>3, <2>4
  <1>4. HandOverOK' BY <1>1, <1>2, <1>3 DEF SInv, HandOverOK, Mutex
  <1>5. \A o \in Objs : ServerOwes(o) => ServerOwes(o)'
    <2>1. p = "done" => Event(srv.obj) BY <1>2, <1>3 DEF SInv, HandOverOK, Mutex, Event
    <2> QED BY <1>1, <1>2, <1>3, <2>1 DEF ServerOwes, Event
  <1>6. \A t \in Threads, o \in Objs : ~Registering(t, o) BY <1>1 DEF Registering
  <1>7. reg \in [Threads -> SUBSET Objs] BY Parts DEF ServerTypes
  <1>8. \A o \in Objs : Calms(o) BY <1>1, Calming
  <1> QED BY <1>1, <1>4, <1>5, <1>6, <1>7, <1>8, ServerSlots DEF Calms, DebtorsStay

LEMMA SignalDoneSlots == ASSUME IInv, SInv, signal_done PROVE SInv'
  <1>0. ThreadTypes BY Parts
  <1>1. UNCHANGED <<word, slot, reg>> /\ srv.pc = "done" BY DEF signal_done, Registry
  <1>2. srv \in Srvs /\ srv.req \in Threads /\ pc[srv.req] \in {"request", "queued", "served"}
    BY <1>1, SignalerAt DEF SignalingPCs
  <1>3. UNCHANGED <<pc, call>> \/ Return(srv.req) BY DEF signal_done, SignalDone
  <1>4. Others(srv.req)
    <2>1. PICK t \in Threads : t = srv.req BY <1>2
    <2>2. UNCHANGED <<pc, call>> => Others(t) BY DEF Others
    <2>3. Return(t) => Others(t) BY <1>0, MoveAlone
    <2> QED BY <1>3, <2>1, <2>2, <2>3
  <1>5. DebtorsStay BY <1>0, <1>2, <1>4, Debtors
  <1>6. srv'.pos = 0 \/ (UNCHANGED call /\ srv'.pos = srv.pos /\ srv'.obj = srv.obj /\ srv'.req = srv.req)
    <2>1. \/ srv' = [srv EXCEPT !.pc = "abandon"] /\ UNCHANGED call
          \/ srv' = [Srv0 EXCEPT !.pc = "check", !.req = srv.req, !.cur = srv.req]
          \/ srv' = Srv0
      BY DEF signal_done, SignalDone
    <2>2. CASE srv' = [srv EXCEPT !.pc = "abandon"] /\ UNCHANGED call BY <1>2, <2>2 DEF Srvs
    <2>3. [Srv0 EXCEPT !.pc = "check", !.req = srv.req, !.cur = srv.req].pos = 0 /\ Srv0.pos = 0 BY DEF Srv0
    <2> QED BY <2>1, <2>2, <2>3
  <1>7. HandOverOK' BY <1>6 DEF SInv, HandOverOK
  <1>8. \A o \in Objs : Calms(o) BY <1>1, Calming
  <1> QED BY <1>1, <1>5, <1>7, <1>8, DebtlessSlots DEF Debtless

LEMMA ServerSignalSlots == ASSUME NoHandOver, IInv, SInv, server_signal PROVE SInv'
  <1>0. ThreadTypes /\ WordTypes BY Parts
  <1>1. UNCHANGED <<slot, reg>> /\ srv.pc = "signal" BY DEF server_signal, Registry
  <1>2. /\ srv \in Srvs /\ srv.req \in Threads /\ pc[srv.req] \in {"request", "queued", "served"} /\ srv.obj \in Objs
        /\ call[srv.req] \in CallsOf[srv.req] /\ call[srv.req] \in Call
        /\ call[srv.req].what \in {"signal", "reset", "sigwait"}
        /\ srv.pos = 0 /\ srv.obj = call[srv.req].obj
    BY <1>1, SignalerAt, Parts DEF SignalingPCs, Asking, ServedOK, SignalServed
  <1>3. PICK t \in Threads, o \in Objs : t = srv.req /\ o = srv.obj BY <1>2
  <1>4. Others(t)
    <2>1. UNCHANGED call /\ (UNCHANGED pc \/ Goto(t, "return")) BY <1>3 DEF server_signal, Finish
    <2> QED BY <1>0, <2>1, MoveAlone
  <1>5. DebtorsStay BY <1>0, <1>2, <1>3, <1>4, Debtors
  <1>6. call' = call BY DEF server_signal, Finish
  <1>7. HandOverOK'
    <2>1. call[t].what = "sigwait" => ~Mutex(o) BY <1>2, <1>3 DEF NoHandOver
    <2>2. \/ srv'.pos = 0
          \/ srv'.obj = srv.obj /\ srv'.req = srv.req
      <3>1. \/ srv' = [srv EXCEPT !.pc = "remove", !.i = 1]
            \/ srv' = Srv0
            \/ srv' = [srv EXCEPT !.pc = "multi"]
            \/ srv' = [srv EXCEPT !.pc = "done"]
            \/ srv' = Rescan
        BY DEF server_signal
      <3>2. CASE srv' = [srv EXCEPT !.pc = "remove", !.i = 1] BY <1>2, <3>2 DEF Srvs
      <3>3. CASE srv' = [srv EXCEPT !.pc = "multi"] \/ srv' = [srv EXCEPT !.pc = "done"] BY <1>2, <3>3 DEF Srvs
      <3>4. CASE srv' = Rescan BY <1>2, <3>4, RescanServes
      <3> QED BY <3>1, <3>2, <3>3, <3>4 DEF Srv0
    <2> QED BY <1>3, <1>6, <2>1, <2>2 DEF HandOverOK
  <1>8. \A q \in Objs : ~ServerOwes(q) /\ \A u \in Threads : ~Registering(u, q) BY <1>1 DEF ServerOwes, Registering
  <1>9. CASE Refused(t)
    <2>1. UNCHANGED word BY <1>3, <1>9 DEF server_signal
    <2>2. \A q \in Objs : Calms(q) BY <2>1, Calming
    <2> QED BY <1>1, <1>5, <1>7, <2>2, DebtlessSlots DEF Debtless
  <1>10. CASE ~Refused(t)
    <2>1. word' = [word EXCEPT ![o] = Released(t)] BY <1>3, <1>10 DEF server_signal
    <2>2. word[o] \in Words(o) /\ word = [p \in Objs |-> word[p]] BY <1>0 DEF WordTypes
    <2>3. word'[o].low = Released(t).low /\ \A p \in Objs : p # o => word'[p].low = word[p].low BY <2>1, <2>2
    <2>4. \A p \in Objs : p # o => Calms(p) BY <2>3, SameLow DEF SInv
    <2>5. /\ ~Mutex(o) => word'[o].low \in Nat
          /\ ~ReleaseWakes(t) => Calms(o)
      BY <1>2, <1>3, <2>2, <2>3, ReleasedCalms DEF SInv
    <2>6. ReleaseWakes(t) => ServerOwes(o)'
      <3>1. ReleaseWakes(t) => call[t].what # "reset" BY DEF ReleaseWakes
      <3>2. CASE Event(o) /\ call[t].what # "reset"
        <4>1. srv' = [srv EXCEPT !.pc = "multi"] BY <1>3, <1>10, <3>2 DEF server_signal
        <4> QED BY <1>2, <1>3, <3>2, <4>1 DEF Srvs, ServerOwes
      <3>3. CASE ~Event(o) /\ ReleaseWakes(t)
        <4>1. srv' = Rescan BY <1>3, <1>10, <3>3 DEF server_signal
        <4>2. srv'.pc = "scan" /\ srv'.obj = o BY <1>2, <1>3, <4>1, RescanServes
        <4> QED BY <3>3, <4>2 DEF ServerOwes
      <3> QED BY <3>1, <3>2, <3>3
    <2>7. reg \in [Threads -> SUBSET Objs] BY Parts DEF ServerTypes
    <2>8. \A p \in Objs : ~Mutex(p) => word'[p].low \in Nat BY <2>4, <2>5 DEF Calms
    <2>9. \A p \in Objs : StateSignaled(p)' => StateSignaled(p) \/ ServerOwes(p)' BY <2>4, <2>5, <2>6 DEF Calms
    <2> QED BY <1>1, <1>5, <1>7, <1>8, <2>7, <2>8, <2>9, ServerSlots
  <1> QED BY <1>9, <1>10

LEMMA AbandonSlots == ASSUME IInv, SInv, abandon_mutexes PROVE SInv'
  <1>0. ThreadTypes /\ WordTypes BY Parts
  <1>1. UNCHANGED <<slot, reg, call>> /\ srv.pc = "abandon" BY DEF abandon_mutexes, Registry
  <1>2. /\ srv \in Srvs /\ srv.req \in Threads /\ pc[srv.req] \in {"request", "queued", "served"} /\ srv.pos \in Nat
        /\ call[srv.req].what = "exit"
    BY <1>1, SignalerAt, Parts DEF SignalingPCs, ServedOK, SignalServed
  <1>3. PICK t \in Threads : t = srv.req BY <1>2
  <1>4. DebtorsStay
    <2>1. UNCHANGED pc \/ Goto(t, "dead") BY <1>3 DEF abandon_mutexes
    <2>2. Others(t) BY <1>0, <1>1, <2>1, MoveAlone
    <2> QED BY <1>0, <1>2, <1>3, <2>2, Debtors
  <1>5. \A o \in Objs : ~ServerOwes(o) /\ \A u \in Threads : ~Registering(u, o) BY <1>1 DEF ServerOwes, Registering
  <1>6. CASE LaterMutexes = {}
    <2>1. srv' = Srv0 /\ UNCHANGED word BY <1>6 DEF abandon_mutexes
    <2>2. \A o \in Objs : Calms(o) BY <2>1, Calming
    <2> QED BY <1>1, <1>4, <2>1, <2>2, DebtlessSlots DEF Debtless, HandOverOK, Srv0
  <1>7. CASE LaterMutexes # {}
    <2>1. PICK o \in Objs : o = Min(LaterMutexes) /\ Mutex(o)
      <3>1. LaterMutexes \in SUBSET Objs BY DEF LaterMutexes
      <3>2. Min(LaterMutexes) \in LaterMutexes BY <1>7, <3>1, MinIn
      <3> QED BY <3>2 DEF LaterMutexes
    <2>2. CASE W(KindOf[o])!Owns(word[o], t)
      <3>1. /\ word' = [word EXCEPT ![o] = W(KindOf[o])!Abandoned(word[o], t)]
            /\ srv' = [Rescan EXCEPT !.obj = o, !.max = 0]
        BY <1>3, <1>7, <2>1, <2>2 DEF abandon_mutexes
      <3>2. srv'.pc = "scan" /\ srv'.obj = o /\ srv'.req = srv.req BY <1>2, <3>1 DEF Rescan, Srvs
      <3>3. HandOverOK' BY <1>1, <1>2, <3>2 DEF HandOverOK
      <3>4. ServerOwes(o)' BY <2>1, <3>2 DEF ServerOwes, Mutex, Event
      <3>5. \A p \in Objs : p # o => Calms(p) BY <3>1, SameLow DEF SInv
      <3>6. reg \in [Threads -> SUBSET Objs] BY Parts DEF ServerTypes
      <3> QED BY <1>1, <1>4, <1>5, <2>1, <3>3, <3>4, <3>5, <3>6, ServerSlots DEF Calms
    <2>3. CASE ~W(KindOf[o])!Owns(word[o], t)
      <3>1. UNCHANGED word /\ srv' = [srv EXCEPT !.obj = o] BY <1>3, <1>7, <2>1, <2>3 DEF abandon_mutexes
      <3>2. srv'.req = srv.req BY <1>2, <3>1 DEF Srvs
      <3>3. HandOverOK' BY <1>1, <1>2, <3>2 DEF HandOverOK
      <3>4. \A p \in Objs : Calms(p) BY <3>1, Calming
      <3> QED BY <1>1, <1>4, <3>3, <3>4, DebtlessSlots DEF Debtless
    <2> QED BY <2>2, <2>3
  <1> QED BY <1>6, <1>7

(* wfusync_wake_waiters stores 0 in the slots that are owed a wake.        *)
LEMMA WakeSlots ==
  ASSUME IInv, SInv, NEW o \in Objs, slot' = [t \in Threads |-> IF o \in reg[t] THEN 0 ELSE slot[t]],
         UNCHANGED <<word, reg>>, HandOverOK',
         \A p \in Objs : p # o => (Owed(p) => Owed(p)'), \A t \in Threads, p \in Objs : ~Registering(t, p)
  PROVE  SInv'
  <1>1. ValueOK' BY DEF SInv, ValueOK
  <1>2. SlotsOK'
    <2>1. reg \in [Threads -> SUBSET Objs] BY Parts DEF ServerTypes
    <2>2. ASSUME NEW t \in Threads, NEW p \in reg[t], slot'[t] = 1, StateSignaled(p)' PROVE Owed(p)'
      <3>1. p # o /\ p \in Objs /\ slot[t] = 1 BY <2>1, <2>2
      <3>2. StateSignaled(p) BY <2>2 DEF StateSignaled
      <3>3. Owed(p) BY <2>2, <3>1, <3>2 DEF SInv, SlotsOK
      <3> QED BY <3>1, <3>3
    <2> QED BY <2>2 DEF SlotsOK
  <1> QED BY <1>1, <1>2 DEF SInv

LEMMA WakeWaitersSlots == ASSUME IInv, SInv, wake_waiters_for_object PROVE SInv'
  <1>1. UNCHANGED <<word, reg, pc, call>> /\ srv.pc = "multi" BY DEF wake_waiters_for_object, client
  <1>2. srv \in Srvs /\ srv.req \in Threads /\ srv.obj \in Objs BY <1>1, SignalerAt DEF SignalingPCs
  <1>3. PICK o \in Objs : o = srv.obj BY <1>2
  <1>4. HandOverOK'
    <2>1. CASE Event(o)
      <3>1. srv'.obj = o BY <1>2, <1>3, <2>1, RescanServes DEF wake_waiters_for_object
      <3> QED BY <2>1, <3>1 DEF HandOverOK, Mutex, Event
    <2>2. CASE ~Event(o)
      <3>1. srv' = [srv EXCEPT !.pc = "done"] BY <1>3, <2>2 DEF wake_waiters_for_object
      <3>2. srv'.obj = srv.obj /\ srv'.pos = srv.pos /\ srv'.req = srv.req BY <1>2, <3>1 DEF Srvs
      <3> QED BY <1>1, <3>2 DEF HandOverOK, SInv, Mutex
    <2> QED BY <2>1, <2>2
  <1>5. \A p \in Objs : p # o => (Owed(p) => Owed(p)') BY <1>1, <1>3 DEF Owed, ServerOwes, ThreadOwes
  <1>6. \A t \in Threads, p \in Objs : ~Registering(t, p) BY <1>1 DEF Registering
  <1>7. slot' = [t \in Threads |-> IF o \in reg[t] THEN 0 ELSE slot[t]] BY <1>3 DEF wake_waiters_for_object
  <1> QED BY <1>1, <1>4, <1>5, <1>6, <1>7, WakeSlots

LEMMA NotifySlots == ASSUME IInv, SInv, NEW t \in Threads, wake_wfusync_waiters(t) PROVE SInv'
  <1>0. ThreadTypes BY Parts
  <1>1. UNCHANGED <<word, srv, reg>> /\ srv.pc = "idle" /\ pc[t] = "notify" /\ Return(t) BY DEF wake_wfusync_waiters
  <1>2. PICK o \in Objs : o = call[t].obj
    <2>1. call[t] \in CallsOf[t] /\ call[t].what \in {"signal", "reset"}
      BY <1>1, Parts DEF PlaceOK, PlaceAt, SignalPCs
    <2> QED BY <2>1, CallsAssumption
  <1>3. Others(t) BY <1>0, <1>1, MoveAlone
  <1>4. HandOverOK'
    <2>1. srv.pos > 0 => srv.req \in Threads /\ srv.req # t BY <1>1, Parts DEF ServedOK, SignalServed, Asking
    <2> QED BY <1>1, <1>3, <2>1 DEF HandOverOK, SInv, Others
  <1>5. \A p \in Objs : p # o => (Owed(p) => Owed(p)')
    <2>1. \A p \in Objs : ServerOwes(p) => ServerOwes(p)' BY <1>1 DEF ServerOwes
    <2>2. \A p \in Objs, u \in Threads : p # o /\ ThreadOwes(u, p) => ThreadOwes(u, p)'
      BY <1>2, <1>3 DEF Others, ThreadOwes
    <2> QED BY <2>1, <2>2 DEF Owed
  <1>6. \A u \in Threads, p \in Objs : ~Registering(u, p) BY <1>1 DEF Registering
  <1>7. slot' = [u \in Threads |-> IF o \in reg[u] THEN 0 ELSE slot[u]] BY <1>2 DEF wake_wfusync_waiters
  <1> QED BY <1>1, <1>4, <1>5, <1>6, <1>7, WakeSlots

-----------------------------------------------------------------------------
(* Steps of wineserver that register slots.                                *)
LEMMA SlotSlots ==
  ASSUME IInv, SInv, srv.pc \in SlotPCs, DebtorsStay, srv'.pos = 0, \A o \in Objs : Calms(o),
         reg' \in [Threads -> SUBSET Objs], NEW t \in Threads, t = srv.req,
         \A u \in Threads : u # t => reg'[u] = reg[u] /\ slot'[u] = slot[u],
         \A o \in reg'[t] : slot'[t] = 1 /\ StateSignaled(o)' =>
           Registering(t, o)' \/ (slot[t] = 1 /\ o \in reg[t] /\ ~Registering(t, o))
  PROVE  SInv'
  <1>1. ValueOK' BY DEF ValueOK, Calms
  <1>2. HandOverOK' BY DEF HandOverOK
  <1>3. SlotsOK'
    <2> SUFFICES ASSUME NEW u \in Threads, NEW o \in reg'[u], slot'[u] = 1, StateSignaled(o)'
                 PROVE  Owed(o)' \/ Registering(u, o)'
      BY DEF SlotsOK
    <2>1. o \in Objs OBVIOUS
    <2>2. StateSignaled(o) BY <2>1 DEF Calms
    <2>3. Owed(o) => Owed(o)'
      <3>1. ~ServerOwes(o) BY DEF ServerOwes, SlotPCs
      <3>2. \A v \in Threads : ThreadOwes(v, o) => ThreadOwes(v, o)' BY DEF ThreadOwes, DebtorsStay
      <3> QED BY <3>1, <3>2 DEF Owed
    <2>4. CASE u # t
      <3>1. ~Registering(u, o) /\ o \in reg[u] /\ slot[u] = 1 BY <2>4 DEF Registering
      <3> QED BY <2>2, <2>3, <3>1 DEF SInv, SlotsOK
    <2>5. CASE u = t BY <2>2, <2>3, <2>5 DEF SInv, SlotsOK
    <2> QED BY <2>4, <2>5
  <1> QED BY <1>1, <1>2, <1>3 DEF SInv

LEMMA ArmSlots == ASSUME IInv, SInv, arm_slot PROVE SInv'
  <1>0. PICK t \in Threads : t = srv.req BY SlotAt DEF arm_slot, SlotPCs
  <1>1. /\ srv.pc = "arm" /\ slot' = [slot EXCEPT ![t] = 1] /\ srv' = [srv EXCEPT !.pc = "flag"]
        /\ UNCHANGED <<word, pc, call, reg>>
    BY <1>0 DEF arm_slot, client
  <1>2. srv \in Srvs /\ srv.pos = 0 /\ srv.pc \in SlotPCs /\ slot \in [Threads -> {0, 1}] BY <1>1, SlotAt DEF SlotPCs
  <1>3. reg[t] = {} /\ reg \in [Threads -> SUBSET Objs] BY <1>0, <1>1, Parts DEF ServedOK, SlotServed, ServerTypes
  <1>4. srv'.pos = 0 BY <1>1, <1>2 DEF Srvs
  <1>5. \A o \in Objs : Calms(o) BY <1>1, Calming
  <1> QED BY <1>0, <1>1, <1>2, <1>3, <1>4, <1>5, SlotSlots DEF DebtorsStay

LEMMA AddWaiterSlots == ASSUME IInv, SInv, add_multi_waiter PROVE SInv'
  <1>0. PICK t \in Threads : t = srv.req BY SlotAt DEF add_multi_waiter, SlotPCs
  <1>1. srv.pc = "flag" /\ UNCHANGED <<pc, call, slot>> BY DEF add_multi_waiter, client
  <1>2. /\ srv \in Srvs /\ srv.pos = 0 /\ srv.pc \in SlotPCs /\ reg[t] \in SUBSET Objs /\ srv.todo \in SUBSET Objs
        /\ reg \in [Threads -> SUBSET Objs]
    BY <1>0, <1>1, SlotAt, Parts DEF SlotPCs, ServerTypes, Srvs
  <1>3. reg[t] \subseteq srv.todo /\ reg[t] # srv.todo BY <1>0, <1>1, Parts DEF ServedOK, SlotServed
  <1>4. PICK o \in srv.todo \ reg[t] : o = Min(srv.todo \ reg[t])
    <2>1. srv.todo \ reg[t] \in SUBSET Objs /\ srv.todo \ reg[t] # {} BY <1>2, <1>3
    <2> QED BY <2>1, MinIn
  <1>5. /\ reg' = [reg EXCEPT ![t] = reg[t] \cup {o}] /\ word' = [word EXCEPT ![o].multi = TRUE]
        /\ srv' = srv \/ srv' = [srv EXCEPT !.pc = "regcheck"]
    BY <1>0, <1>4 DEF add_multi_waiter
  <1>6. /\ srv'.pos = 0 /\ srv'.pc \in {"flag", "regcheck"} /\ srv'.todo = srv.todo /\ srv'.req = t
    BY <1>0, <1>1, <1>2, <1>5 DEF Srvs
  <1>7. reg' \in [Threads -> SUBSET Objs] /\ reg'[t] \subseteq srv.todo /\ \A u \in Threads : u # t => reg'[u] = reg[u]
    BY <1>2, <1>3, <1>4, <1>5
  <1>8. \A p \in Objs : Calms(p)
    <2>1. WordTypes BY Parts
    <2> QED BY <1>2, <1>4, <1>5, <2>1, FlagsOnly, Calming
  <1>9. \A p \in reg'[t] : Registering(t, p)' BY <1>6, <1>7 DEF Registering
  <1> QED BY <1>0, <1>1, <1>2, <1>6, <1>7, <1>8, <1>9, SlotSlots DEF DebtorsStay

LEMMA RegisterCheckSlots == ASSUME IInv, SInv, register_check PROVE SInv'
  <1>0. PICK t \in Threads : t = srv.req BY SlotAt DEF register_check, SlotPCs
  <1>1. srv.pc = "regcheck" /\ UNCHANGED <<word, reg>> BY DEF register_check
  <1>2. /\ srv \in Srvs /\ srv.pos = 0 /\ srv.pc \in SlotPCs /\ slot \in [Threads -> {0, 1}]
        /\ pc[t] \in {"register", "unregister", "tryall"} /\ reg \in [Threads -> SUBSET Objs]
    BY <1>0, <1>1, SlotAt, Parts DEF SlotPCs, ServerTypes
  <1>3. PICK o : o = Min(srv.todo) OBVIOUS
  <1>4. \/ StateSignaled(o) /\ slot' = [slot EXCEPT ![t] = 0] /\ Registered
        \/ ~StateSignaled(o) /\ srv.todo = {o} /\ Registered /\ UNCHANGED slot
        \/ ~StateSignaled(o) /\ srv' = [srv EXCEPT !.todo = srv.todo \ {o}] /\ UNCHANGED <<pc, call, slot>>
    BY <1>0, <1>3 DEF register_check, LastToCheck
  <1>5. Registered => srv' = Srv0 /\ UNCHANGED call /\ \E w \in {"sleep", "any_check"} : Goto(t, w)
    BY <1>0 DEF Registered, Answer
  <1>6. DebtorsStay
    <2>1. ThreadTypes BY Parts
    <2>2. Others(t) \/ UNCHANGED <<pc, call>> BY <1>4, <1>5, <2>1, MoveAlone
    <2> QED BY <1>2, <2>1, <2>2, Debtors
  <1>7. srv'.pos = 0
    <2>1. Srv0.pos = 0 BY DEF Srv0
    <2>2. CASE srv' = [srv EXCEPT !.todo = srv.todo \ {o}] BY <1>2, <2>2 DEF Srvs
    <2> QED BY <1>4, <1>5, <2>1, <2>2
  <1>8. \A p \in Objs : Calms(p) BY <1>1, Calming
  <1>9. \A u \in Threads : u # t => slot'[u] = slot[u] BY <1>2, <1>4
  <1>10. ASSUME NEW p \in reg'[t], slot'[t] = 1, StateSignaled(p)'
         PROVE  Registering(t, p)' \/ (slot[t] = 1 /\ p \in reg[t] /\ ~Registering(t, p))
    <2>1. StateSignaled(p) BY <1>1, <1>10 DEF StateSignaled
    <2>2. ~StateSignaled(o) /\ p # o /\ slot[t] = 1 /\ p \in reg[t] BY <1>1, <1>2, <1>4, <1>10, <2>1
    <2>3. CASE p \in srv.todo
      <3>1. srv' = [srv EXCEPT !.todo = srv.todo \ {o}] BY <1>4, <2>2, <2>3
      <3>2. srv'.req = t /\ srv'.pc = "regcheck" /\ p \in srv'.todo BY <1>0, <1>1, <1>2, <2>2, <2>3, <3>1 DEF Srvs
      <3> QED BY <3>2 DEF Registering
    <2>4. CASE p \notin srv.todo BY <1>1, <2>2, <2>4 DEF Registering
    <2> QED BY <2>3, <2>4
  <1> QED BY <1>0, <1>1, <1>2, <1>6, <1>7, <1>8, <1>9, <1>10, SlotSlots

LEMMA RemoveWaiterSlots == ASSUME IInv, SInv, remove_multi_waiter PROVE SInv'
  <1>0. PICK t \in Threads : t = srv.req BY SlotAt DEF remove_multi_waiter, SlotPCs
  <1>1. srv.pc = "unregister" /\ reg[t] # {} /\ UNCHANGED <<srv, pc, call, slot>>
    BY <1>0 DEF remove_multi_waiter, client
  <1>2. srv.pos = 0 /\ srv.pc \in SlotPCs /\ reg[t] \in SUBSET Objs /\ reg \in [Threads -> SUBSET Objs]
    BY <1>0, <1>1, SlotAt, Parts DEF SlotPCs, ServerTypes
  <1>3. PICK o \in Objs : o = Min(reg[t]) BY <1>1, <1>2, MinIn
  <1>4. /\ reg' = [reg EXCEPT ![t] = reg[t] \ {o}] /\ word' = [word EXCEPT ![o].multi = StillMulti(o, t)]
    BY <1>0, <1>3 DEF remove_multi_waiter
  <1>5. \A p \in Objs : Calms(p)
    <2>1. WordTypes BY Parts
    <2> QED BY <1>4, <2>1, FlagsOnly, Calming
  <1>6. reg' \in [Threads -> SUBSET Objs] /\ \A u \in Threads : u # t => reg'[u] = reg[u] BY <1>2, <1>4
  <1>7. \A p \in Objs : Registering(t, p)' BY <1>0, <1>1 DEF Registering
  <1> QED BY <1>0, <1>1, <1>2, <1>5, <1>6, <1>7, SlotSlots DEF DebtorsStay

LEMMA UnregisteredSlots == ASSUME IInv, SInv, unregistered PROVE SInv'
  <1>0. PICK t \in Threads : t = srv.req BY SlotAt DEF unregistered, SlotPCs
  <1>1. /\ srv.pc = "unregister" /\ reg[t] = {} /\ UNCHANGED <<word, reg>> /\ slot' = [slot EXCEPT ![t] = 0]
        /\ \/ UNCHANGED <<pc, call>> /\ srv' = [srv EXCEPT !.pc = "guard"]
           \/ srv' = Srv0 /\ Goto(t, "any_check") /\ UNCHANGED call
           \/ srv' = Srv0 /\ (Fallback(t) \/ Return(t))
    BY <1>0 DEF unregistered, Answer
  <1>2. /\ srv \in Srvs /\ srv.pos = 0 /\ srv.pc \in SlotPCs /\ slot \in [Threads -> {0, 1}]
        /\ pc[t] \in {"register", "unregister", "tryall"} /\ reg \in [Threads -> SUBSET Objs]
    BY <1>0, <1>1, SlotAt, Parts DEF SlotPCs, ServerTypes
  <1>3. srv'.pos = 0
    <2>1. Srv0.pos = 0 BY DEF Srv0
    <2>2. CASE srv' = [srv EXCEPT !.pc = "guard"] BY <1>2, <2>2 DEF Srvs
    <2> QED BY <1>1, <2>1, <2>2
  <1>4. DebtorsStay
    <2>1. ThreadTypes BY Parts
    <2>2. Others(t) \/ UNCHANGED <<pc, call>> BY <1>1, <2>1, MoveAlone
    <2> QED BY <1>2, <2>1, <2>2, Debtors
  <1>5. \A p \in Objs : Calms(p) BY <1>1, Calming
  <1>6. \A u \in Threads : u # t => slot'[u] = slot[u] BY <1>1, <1>2
  <1> QED BY <1>0, <1>1, <1>2, <1>3, <1>4, <1>5, <1>6, SlotSlots

-----------------------------------------------------------------------------
(* Steps of try_wait_all_wfusync.                                          *)
LEMMA TrySlots ==
  ASSUME IInv, SInv, srv.pc \in TryPCs, NEW t \in Threads, t = srv.req, UNCHANGED <<slot, reg>>, srv'.pos = 0,
         UNCHANGED <<pc, call>> \/ Fallback(t) \/ Return(t) \/ (Goto(t, "refresh") /\ UNCHANGED call),
         \A o \in Objs : Calms(o)
  PROVE  SInv'
  <1>1. ThreadTypes BY Parts
  <1>2. pc[t] = "tryall" BY TryAt
  <1>3. Others(t) \/ UNCHANGED <<pc, call>> BY <1>1, MoveAlone
  <1>4. DebtorsStay BY <1>1, <1>2, <1>3, Debtors
  <1> QED BY <1>4, DebtlessSlots DEF Debtless, HandOverOK

LEMMA TryPlace ==
  ASSUME srv \in Srvs, srv.pos = 0, NEW p, NEW r, NEW n,
         \/ srv' = Srv0
         \/ srv' = [srv EXCEPT !.i = n]
         \/ srv' = [srv EXCEPT !.i = n, !.todo = r]
         \/ srv' = [srv EXCEPT !.pc = p, !.todo = r]
         \/ srv' = [[srv EXCEPT !.i = n] EXCEPT !.guarded = r]
         \/ srv' = SrvNext(p)
         \/ srv' = [SrvNext(p) EXCEPT !.ret = r]
         \/ srv' = [SrvNext(p) EXCEPT !.guarded = r]
         \/ srv' = [SrvNext(p) EXCEPT !.tries = r]
  PROVE  srv'.pos = 0
  <1>1. CASE srv' = Srv0 BY <1>1 DEF Srv0
  <1>2. CASE srv' = [srv EXCEPT !.i = n] BY <1>2 DEF Srvs
  <1>3. CASE srv' = [srv EXCEPT !.i = n, !.todo = r] BY <1>3 DEF Srvs
  <1>4. CASE srv' = [srv EXCEPT !.pc = p, !.todo = r] BY <1>4 DEF Srvs
  <1>5. CASE srv' = [[srv EXCEPT !.i = n] EXCEPT !.guarded = r] BY <1>5 DEF Srvs
  <1>6. CASE srv' = SrvNext(p) BY <1>6 DEF SrvNext, Srvs
  <1>7. CASE srv' = [SrvNext(p) EXCEPT !.ret = r] BY <1>7 DEF SrvNext, Srvs
  <1>8. CASE srv' = [SrvNext(p) EXCEPT !.guarded = r] BY <1>8 DEF SrvNext, Srvs
  <1>9. CASE srv' = [SrvNext(p) EXCEPT !.tries = r] BY <1>9 DEF SrvNext, Srvs
  <1> QED BY <1>1, <1>2, <1>3, <1>4, <1>5, <1>6, <1>7, <1>8, <1>9

LEMMA GuardSlots == ASSUME IInv, SInv, guard \/ probe \/ unguard PROVE SInv'
  <1>0. PICK t \in Threads, o \in Objs : t = srv.req /\ o = GObj
    <2>1. guard \/ probe => srv.pc \in TryPCs /\ srv.pc # "unguard" BY DEF guard, probe, TryPCs
    <2>2. unguard => srv.pc \in TryPCs /\ srv.pc = "unguard" /\ srv.i <= srv.guarded BY DEF unguard, TryPCs
    <2>3. srv.pc \in TryPCs BY <2>1, <2>2
    <2>4. srv.i \in 1..Count(srv.req) BY <2>1, <2>2, TryAt
    <2> QED BY <2>3, <2>4, TryAt DEF GObj
  <1>1. srv.pc \in TryPCs /\ UNCHANGED <<slot, reg, pc, call>> BY DEF guard, probe, unguard, TryPCs, client, Registry
  <1>2. srv \in Srvs /\ srv.pos = 0 BY <1>1, TryAt
  <1>3. srv'.pos = 0
    <2>1. CASE guard
      <3> DEFINE n == srv.guarded + 1
                 i == srv.i + 1
      <3>1. \/ srv' = [SrvNext("unguard") EXCEPT !.ret = "bail"]
            \/ srv' = [SrvNext("probe") EXCEPT !.guarded = n]
            \/ srv' = [[srv EXCEPT !.i = i] EXCEPT !.guarded = n]
        BY <1>2, <2>1 DEF guard, SrvNext, Srvs
      <3> HIDE DEF n, i
      <3> QED BY <1>2, <3>1, TryPlace, Zenon
    <2>2. CASE probe BY <1>2, <2>2, TryPlace DEF probe
    <2>3. CASE unguard BY <1>2, <2>3, TryPlace DEF unguard
    <2> QED BY <2>1, <2>2, <2>3
  <1>4. \A q \in Objs : Calms(q)
    <2>1. WordTypes BY Parts
    <2>2. \/ UNCHANGED word
          \/ \E b : word' = [word EXCEPT ![o].server = b]
      BY <1>0 DEF guard, probe, unguard
    <2> QED BY <2>1, <2>2, FlagsOnly, Calming
  <1> QED BY <1>0, <1>1, <1>3, <1>4, TrySlots

LEMMA ServerTakeSlots == ASSUME IInv, SInv, server_take PROVE SInv'
  <1>0. PICK t \in Threads, o \in Objs : t = srv.req /\ o = GObj /\ o = WObj(t, srv.i)
    BY TryAt DEF server_take, TryPCs, GObj
  <1>1. srv.pc = "take" /\ UNCHANGED <<slot, reg, pc, call>> /\ word' = [word EXCEPT ![o] = Consumed(o, t)]
    BY <1>0 DEF server_take, Registry
  <1>2. srv \in Srvs /\ srv.pos = 0 /\ srv.i \in 1..Count(t) /\ Count(t) \in Nat BY <1>0, <1>1, TryAt DEF TryPCs
  <1>3. srv'.pos = 0 BY <1>2, TryPlace DEF server_take
  <1>4. Signaled(o, t)
    <2>1. o \in Found BY <1>0, <1>1, <1>2 DEF Found
    <2> QED BY <1>0, <1>1, <2>1, Parts DEF FoundOK, Finder
  <1>5. word[o] \in Words(o) /\ word = [p \in Objs |-> word[p]] BY Parts DEF WordTypes
  <1>6. \A p \in Objs : Calms(p) BY <1>1, <1>4, <1>5, SameLow, ConsumedCalms DEF SInv
  <1> QED BY <1>0, <1>1, <1>3, <1>6, TrySlots DEF TryPCs

LEMMA AttemptSlots == ASSUME IInv, SInv, attempt_done \/ get_wait_all_unsignaled PROVE SInv'
  <1>0. PICK t \in Threads : t = srv.req BY TryAt DEF attempt_done, get_wait_all_unsignaled, TryPCs
  <1>1. srv.pc \in TryPCs /\ UNCHANGED <<word, slot, reg>> BY DEF attempt_done, get_wait_all_unsignaled, TryPCs, Registry
  <1>2. srv \in Srvs /\ srv.pos = 0 BY <1>1, TryAt
  <1>3. srv'.pos = 0
    <2>1. CASE attempt_done
      <3>1. srv' = Srv0 \/ srv' = [SrvNext("unsignaled") EXCEPT !.guarded = 0] BY <2>1 DEF attempt_done, Answer
      <3> QED BY <1>2, <3>1, TryPlace, Zenon
    <2>2. CASE get_wait_all_unsignaled
      <3> DEFINE T == IF Signaled(GObj, t) THEN srv.todo ELSE srv.todo \cup {GObj}
                 i == srv.i + 1
                 n == srv.tries + 1
      <3>1. \/ srv' = Srv0
            \/ srv' = [srv EXCEPT !.i = i, !.todo = T]
            \/ srv' = [srv EXCEPT !.pc = "arm", !.todo = T]
            \/ srv' = [SrvNext("guard") EXCEPT !.tries = n]
        BY <1>0, <2>2 DEF get_wait_all_unsignaled, SrvNext
      <3> HIDE DEF T, i, n
      <3> QED BY <1>2, <3>1, TryPlace, Zenon
    <2> QED BY <2>1, <2>2
  <1>4. UNCHANGED <<pc, call>> \/ Fallback(t) \/ Return(t) \/ (Goto(t, "refresh") /\ UNCHANGED call)
    BY <1>0 DEF attempt_done, get_wait_all_unsignaled, Answer
  <1>5. \A p \in Objs : Calms(p) BY <1>1, Calming
  <1> QED BY <1>0, <1>1, <1>3, <1>4, <1>5, TrySlots

-----------------------------------------------------------------------------
(* No wake of a slot is lost.                                              *)
LEMMA StutterSlots == ASSUME SInv, UNCHANGED vars PROVE SInv'
  <1>1. UNCHANGED <<word, pc, call, srv, slot, reg>> BY DEF vars, client
  <1>2. \A o : StateSignaled(o)' <=> StateSignaled(o) BY <1>1 DEF StateSignaled
  <1>3. \A o : Owed(o)' <=> Owed(o) BY <1>1 DEF Owed, ServerOwes, ThreadOwes
  <1>4. \A t, o : Registering(t, o)' <=> Registering(t, o) BY <1>1 DEF Registering
  <1> QED BY <1>1, <1>2, <1>3, <1>4 DEF SInv, ValueOK, HandOverOK, SlotsOK

LEMMA InitSlots == Init => SInv
  <1> SUFFICES ASSUME Init PROVE SInv OBVIOUS
  <1>1. ValueOK
    <2> SUFFICES ASSUME NEW o \in Objs, ~Mutex(o) PROVE word[o].low \in Nat BY DEF ValueOK
    <2>1. word[o].low = InitWord[o][1] BY DEF Init, W!create_wfusync
    <2>2. KindOf[o] \in Kinds /\ KindOf[o] # "mutex" BY KindOfAssumption DEF Kinds, Mutex
    <2>3. InitWord[o][1] \in Int /\ InitWord[o][2] \in Int BY InitAssumption
    <2>4. InitWord[o][1] \in Nat
      <3>1. CASE KindOf[o] = "semaphore"
        <4>1. InitWord[o][1] \in 0..InitWord[o][2] BY <3>1, InitAssumption
        <4> QED BY <2>3, <4>1
      <3>2. CASE KindOf[o] # "semaphore"
        <4>1. InitWord[o][1] \in {0, 1} BY <2>2, <3>2, InitAssumption
        <4> QED BY <4>1
      <3> QED BY <3>1, <3>2
    <2> QED BY <2>1, <2>4
  <1>2. HandOverOK BY DEF Init, Srv0, HandOverOK
  <1>3. SlotsOK BY DEF Init, SlotsOK
  <1> QED BY <1>1, <1>2, <1>3 DEF SInv

LEMMA NextSlots == NoHandOver /\ IInv /\ SInv /\ [Next]_vars => SInv'
  <1> SUFFICES ASSUME NoHandOver, IInv, SInv, [Next]_vars PROVE SInv' OBVIOUS
  <1>1. ASSUME NEW t \in Threads, Invoke(t) \/ ThreadStep(t) \/ wait_timeout(t) \/ wait_interrupted(t) PROVE SInv'
    BY <1>1, QuietThreads, LockingThreads, TakingThreads, SignalingThreads, NoticingThreads DEF ThreadStep
  <1>2. ASSUME NEW t \in Threads, ServerAccept(t) \/ thread_timeout(t) PROVE SInv'
    BY <1>2, Accepting, NotifySlots DEF ServerAccept
  <1>3. ASSUME ServerStep PROVE SInv'
    BY <1>3, EnqueueSlots, CheckWaitSlots, SatisfiedSlots, EndWaitSlots, ServerSignalSlots, WakeWaitersSlots,
       WakeUpSlots, SignalDoneSlots, AbandonSlots, ArmSlots, AddWaiterSlots, RegisterCheckSlots, RemoveWaiterSlots,
       UnregisteredSlots, GuardSlots, ServerTakeSlots, AttemptSlots DEF ServerStep
  <1> QED BY <1>1, <1>2, <1>3, StutterSlots DEF Next

(* Nobody who is registered sleeps on a slot while an object named in the  *)
(* registration is signaled, unless somebody is about to wake it           *)
(* (wfusync_register_wait, wfusync_wake_waiters, wfusync_op_release): as   *)
(* long as SignalObjectAndWait signals no mutex, for mutex_signal, unlike  *)
(* release_mutex, does not call wfusync_wake_waiters.                      *)
THEOREM MultiSlotWakes == NoHandOver => (Spec => []NoLostSlotWake)
  <1>1. IInv /\ SInv => NoLostSlotWake
    <2> SUFFICES ASSUME IInv, SInv, NEW t \in Threads, NEW o \in reg[t], slot[t] = 1, StateSignaled(o)
                 PROVE  NotifyPending(o) \/ (srv.req = t /\ srv.pc \in {"arm", "flag", "regcheck", "unregister"})
      BY DEF NoLostSlotWake
    <2>1. Owed(o) \/ Registering(t, o) BY DEF SInv, SlotsOK
    <2>2. Owed(o) => NotifyPending(o) BY DEF Owed, ServerOwes, ThreadOwes, NotifyPending
    <2> QED BY <2>1, <2>2 DEF Registering
  <1> SUFFICES ASSUME NoHandOver PROVE Spec => []NoLostSlotWake OBVIOUS
  <1>2. IInv /\ SInv /\ [Next]_vars => SInv' BY NextSlots
  <1> QED BY <1>1, <1>2, InitInv, NextStep, InitSlots, PTL DEF Spec
=============================================================================
