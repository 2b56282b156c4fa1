------------------------- MODULE WfuMultiNt_proofs -------------------------
(***************************************************************************)
(* Proof that WfuMulti implements NtMulti: to its callers a wait on        *)
(* several WFUSync objects is a wait on the objects wineserver keeps       *)
(* alone, as long as no thread takes a mutex INT_MAX times.                *)
(***************************************************************************)
EXTENDS WfuMulti_proofs

-----------------------------------------------------------------------------
(* The inductive invariant, on top of IInv.                                *)

(* No thread has taken a mutex INT_MAX times.                              *)
NoOverflow == \A o \in Objs : Mutex(o) => word[o].high < IntMax

(* The two halves of a word agree on whether a mutex is owned; the limit   *)
(* of a semaphore stays.                                                   *)
HalfOK(o, w) ==
  /\ Mutex(o) => \/ w.low <= 0 /\ w.high = 0
                 \/ w.low > 0 /\ w.high > 0
  /\ KindOf[o] = "semaphore" => w.high = InitWord[o][2]
HalvesOK == \A o \in Objs : HalfOK(o, word[o])

(* The call has had no effect yet; the wait has taken what it waited for.  *)
Open == {"none", "timeout", "bail", "woken"}
Taken == {"success", "abandoned"}

(* What a thread's place in the client's code says of its call.            *)
OpenPCs == {"gather", "lock", "eval", "signal", "signal_lock", "signal_write", "any_check", "any_lock",
            "any_consume", "register", "sleep", "asleep"}
RetAt(w, r, a) ==
  /\ w \in OpenPCs => r \in Open
  /\ w \in {"take", "unlock", "unregister"} => r \in Open \cup Taken
  /\ w \in {"refresh", "any_refresh"} => r = "abandoned"
  /\ w \in {"signal_multi", "notify"} => r = "success"
  /\ w = "return" => r \in Taken \cup {"error"} \/ (r \in Open /\ a = "waitany")
RetOK == \A t \in Threads : RetAt(pc[t], loc[t].ret, call[t].what)

(* ... and wineserver's place in the request s, when the thread has made   *)
(* one.                                                                    *)
HandedAt(t, w, r, a, s) ==
  /\ w = "tryall" => r \in IF s.req = t /\ s.pc = "unguard" /\ s.ret = "success" THEN Taken
                           ELSE IF s.req = t /\ s.pc = "take" THEN Open \cup Taken ELSE Open
  /\ w = "served" => r \in Taken \cup {"half"}
  /\ w = "queued" => \/ r \in Open /\ (a = "sigwait" => s.req = t /\ s.pc \in {"enqueue", "signal"})
                     \/ r = "half" /\ a = "sigwait" /\ ~(s.req = t /\ s.pc \in {"enqueue", "signal"})
                     \/ r \in Taken /\ s.cur = t /\ (s.pc = "remove" \/ (s.pc = "satisfy" /\ a = "waitall"))
                     \/ r = "error" /\ a = "sigwait" /\ s.cur = t /\ s.pc = "remove" /\ s.pos = 0
  /\ w = "request" => IF a # "exit" /\ s.req = t /\ (s.pos > 0 \/ s.pc \in {"multi", "scan", "done"})
                        THEN r = "success" ELSE r \in Open
HandedOK == \A t \in Threads : HandedAt(t, pc[t], loc[t].ret, call[t].what, srv)

(* abandon_mutexes has got to srv.obj: the thread owns nothing before it.  *)
AbandonOK ==
  srv.pos > 0 \/ srv.pc \in SignalingPCs =>
    (call[srv.req].what = "exit" => \A o \in Objs : Mutex(o) /\ o <= srv.obj => word[o].low # srv.req)
IdleOK == srv.pc = "idle" => srv = Srv0

RInv == HalvesOK /\ RetOK /\ HandedOK /\ AbandonOK /\ IdleOK

-----------------------------------------------------------------------------
(* What the operations do to the two halves of a word.                     *)
Same(x, y) == x.low = y.low /\ x.high = y.high

LEMMA SameHalf == ASSUME NEW o, NEW x, NEW y, HalfOK(o, x), Same(y, x) PROVE HalfOK(o, y)
  BY DEF HalfOK, Same

(* What a wait makes of the value x of o.                                  *)
TakenTo(o, t, x, y) ==
  /\ IF Mutex(o) THEN x.high = 0 \/ x.low = t ELSE x.low > 0
  /\ KindOf[o] = "auto" => y.low = 0
  /\ KindOf[o] = "manual" => y.low = x.low
  /\ KindOf[o] = "semaphore" => y.low = x.low - 1
  /\ Mutex(o) => y.low = t /\ y.high = x.high + 1

LEMMA TakenHalf ==
  ASSUME NEW o \in Objs, word[o] \in Words(o), HalfOK(o, word[o]), NEW t \in Threads, Signaled(o, t),
         Mutex(o) => word[o].high < IntMax
  PROVE  HalfOK(o, Consumed(o, t)) /\ TakenTo(o, t, word[o], Consumed(o, t))
  <1> DEFINE x == word[o]
             y == Consumed(o, t)
  <1>0. x.low \in Int /\ x.high \in Int /\ t \in Nat \ {0} /\ IntMax \in Nat \ {0} /\ x \in Words(o)
    BY ThreadsAssumption, WidthAssumption DEF Words
  <1>1. y = W(KindOf[o])!Consumed(x, t) /\ W(KindOf[o])!Signaled(x, t) BY DEF Consumed, Signaled
  <1>2. HalfOK(o, x) /\ (Mutex(o) => x.high < IntMax) OBVIOUS
  <1> HIDE DEF x, y
  <1>3. CASE KindOf[o] = "auto"
    <2>1. y = [x EXCEPT !.low = 0] BY <1>1, <1>3 DEF W!Consumed
    <2>2. y.low = 0 BY <1>0, <2>1 DEF Words
    <2> QED BY <1>0, <1>1, <1>3, <2>2 DEF x, y, W!Signaled, W!Mutex, Mutex, HalfOK, TakenTo
  <1>4. CASE KindOf[o] = "manual"
    <2>1. y = x BY <1>1, <1>4 DEF W!Consumed
    <2> QED BY <1>0, <1>1, <1>4, <2>1 DEF x, y, W!Signaled, W!Mutex, Mutex, HalfOK, TakenTo
  <1>5. CASE KindOf[o] = "semaphore"
    <2>1. y = [x EXCEPT !.low = x.low - 1] BY <1>1, <1>5 DEF W!Consumed
    <2>2. y.low = x.low - 1 /\ y.high = x.high BY <1>0, <2>1 DEF Words
    <2> QED BY <1>0, <1>1, <1>2, <1>5, <2>2 DEF x, y, W!Signaled, W!Mutex, Mutex, HalfOK, TakenTo
  <1>6. CASE KindOf[o] = "mutex" /\ x.low = t
    <2>1. W(KindOf[o])!Inc(x.high) = x.high + 1 BY <1>0, <1>2, <1>6 DEF W!Inc, Mutex
    <2>2. y = [x EXCEPT !.high = x.high + 1] BY <1>1, <1>6, <2>1 DEF W!Consumed
    <2>3. y.low = t /\ y.high = x.high + 1 BY <1>0, <1>6, <2>2 DEF Words
    <2> QED BY <1>0, <1>2, <1>6, <2>3 DEF x, y, Mutex, HalfOK, TakenTo
  <1>7. CASE KindOf[o] = "mutex" /\ x.low # t
    <2> DEFINE g == IF x.low < 0 THEN x.generation + 1 ELSE x.generation
    <2>1. y = [x EXCEPT !.low = t, !.high = 1, !.generation = g] BY <1>1, <1>7 DEF W!Consumed
    <2> HIDE DEF g
    <2>2. y.low = t /\ y.high = 1 BY <1>0, <2>1 DEF Words
    <2>3. x.low <= 0 /\ x.high = 0 BY <1>0, <1>1, <1>2, <1>7 DEF W!Signaled, W!Mutex, Mutex, HalfOK, TakenTo
    <2> QED BY <1>0, <1>7, <2>2, <2>3 DEF x, y, Mutex, HalfOK, TakenTo
  <1> QED BY <1>3, <1>4, <1>5, <1>6, <1>7, KindOfAssumption

(* SetEvent, ResetEvent, ReleaseSemaphore and ReleaseMutant.               *)
ReleasedTo(o, t, c, x, y) ==
  /\ Event(o) => y.low = IF c.what = "reset" THEN 0 ELSE 1
  /\ c.what = "reset" => Event(o)
  /\ KindOf[o] = "semaphore" => y.low = (x.low + c.n) % UlongSize
  /\ Mutex(o) => /\ x.low = t /\ x.high > 0 /\ y.high = x.high - 1
                 /\ y.low = IF x.high = 1 THEN 0 ELSE t
RefusedTo(o, t, c, x) ==
  CASE Event(o) -> FALSE
    [] KindOf[o] = "semaphore" -> LET s == (x.low + c.n) % UlongSize IN s < x.low \/ s > InitWord[o][2]
    [] Mutex(o) -> x.low # t \/ x.high = 0

LEMMA ReleasedHalf ==
  ASSUME NEW t \in Threads, call[t] \in CallsOf[t], call[t].what \in {"signal", "reset", "sigwait"},
         NEW o \in Objs, o = call[t].obj, word[o] \in Words(o), HalfOK(o, word[o]), ~Refused(t)
  PROVE  HalfOK(o, Released(t)) /\ ReleasedTo(o, t, call[t], word[o], Released(t))
  <1> DEFINE x == word[o]
             y == Released(t)
             n == call[t].n
  <1>0. x.low \in Int /\ x.high \in Int /\ t \in Nat \ {0} /\ x \in Words(o)
    BY ThreadsAssumption DEF Words
  <1>1. /\ y = IF call[t].what = "reset" THEN [x EXCEPT !.low = 0] ELSE W(KindOf[o])!Released(x, n)
        /\ ~W(KindOf[o])!ReleaseRefused(x, t, n)
    BY DEF Released, Refused
  <1>2. HalfOK(o, x) OBVIOUS
  <1>3. call[t].what = "reset" => Event(o) BY CallsAssumption DEF Event
  <1> HIDE DEF x, y
  <1>4. CASE call[t].what = "reset"
    <2>1. y.low = 0 BY <1>0, <1>1, <1>4 DEF Words
    <2> QED BY <1>3, <1>4, <2>1 DEF n, x, y, HalfOK, ReleasedTo, Event, Mutex
  <1>5. CASE Event(o) /\ call[t].what # "reset"
    <2>1. y = [x EXCEPT !.low = 1] BY <1>1, <1>5 DEF W!Released, W!Event, W!Semaphore, W!Mutex, Event
    <2>2. y.low = 1 BY <1>0, <2>1 DEF Words
    <2> QED BY <1>5, <2>2 DEF n, x, y, HalfOK, ReleasedTo, Event, Mutex
  <1>6. CASE KindOf[o] = "semaphore"
    <2>1. call[t].what # "reset" BY <1>3, <1>6 DEF Event
    <2>2. y = [x EXCEPT !.low = W(KindOf[o])!Sum(x, n)]
      BY <1>1, <1>6, <2>1 DEF W!Released, W!Event, W!Semaphore, W!Mutex
    <2>3. y.low = W(KindOf[o])!Sum(x, n) /\ y.high = x.high BY <1>0, <2>2 DEF Words
    <2>4. W(KindOf[o])!Sum(x, n) = (x.low + n) % UlongSize BY DEF W!Sum
    <2> QED BY <1>2, <1>6, <2>1, <2>3, <2>4 DEF n, x, y, HalfOK, ReleasedTo, Event, Mutex
  <1>7. CASE Mutex(o)
    <2>1. call[t].what # "reset" /\ KindOf[o] = "mutex" BY <1>3, <1>7 DEF Event, Mutex
    <2>2. x.low = t /\ x.high # 0
      BY <1>1, <2>1 DEF W!ReleaseRefused, W!Event, W!Semaphore, W!Mutex
    <2>3. x.high > 0 BY <1>0, <1>2, <1>7, <2>2 DEF HalfOK
    <2>4. y = IF x.high > 1 THEN [x EXCEPT !.high = x.high - 1] ELSE [x EXCEPT !.low = 0, !.high = 0]
      BY <1>1, <2>1 DEF W!Released, W!Event, W!Semaphore, W!Mutex
    <2>5. CASE x.high > 1
      <3>1. y.low = t /\ y.high = x.high - 1 BY <1>0, <2>2, <2>4, <2>5 DEF Words
      <3> QED BY <1>0, <2>1, <2>2, <2>3, <2>5, <3>1 DEF n, x, y, HalfOK, ReleasedTo, Event, Mutex
    <2>6. CASE ~(x.high > 1)
      <3>1. y.low = 0 /\ y.high = 0 BY <1>0, <2>4, <2>6 DEF Words
      <3>2. x.high = 1 BY <1>0, <2>3, <2>6
      <3> QED BY <1>0, <2>1, <2>2, <3>1, <3>2 DEF n, x, y, HalfOK, ReleasedTo, Event, Mutex
    <2> QED BY <2>5, <2>6
  <1> QED BY <1>4, <1>5, <1>6, <1>7, KindOfAssumption DEF Event, Mutex

(* What refuses a release.                                                 *)
LEMMA RefusedHalf ==
  ASSUME NEW t \in Threads, NEW o \in Objs, o = call[t].obj, word[o] \in Words(o), HalfOK(o, word[o])
  PROVE  Refused(t) <=> RefusedTo(o, t, call[t], word[o])
  <1>1. Refused(t) <=> W(KindOf[o])!ReleaseRefused(word[o], t, call[t].n) BY DEF Refused
  <1>2. KindOf[o] = "semaphore" => word[o].high = InitWord[o][2] BY DEF HalfOK
  <1>3. CASE Event(o) BY <1>1, <1>3 DEF W!ReleaseRefused, W!Event, W!Semaphore, W!Mutex, Event, Mutex, RefusedTo
  <1>4. CASE KindOf[o] = "semaphore"
    BY <1>1, <1>2, <1>4 DEF W!ReleaseRefused, W!Event, W!Semaphore, W!Mutex, W!Sum, Event, Mutex, RefusedTo
  <1>5. CASE Mutex(o) BY <1>1, <1>5 DEF W!ReleaseRefused, W!Event, W!Semaphore, W!Mutex, Event, Mutex, RefusedTo
  <1> QED BY <1>3, <1>4, <1>5, KindOfAssumption DEF Event, Mutex

LEMMA AbandonedHalf ==
  ASSUME NEW t \in Threads, NEW o \in Objs, word[o] \in Words(o), HalfOK(o, word[o])
  PROVE  LET x == word[o]
             y == W(KindOf[o])!Abandoned(x, t)
         IN /\ W(KindOf[o])!Owns(x, t) => Mutex(o) /\ x.low = t
            /\ Mutex(o) /\ ~W(KindOf[o])!Owns(x, t) => x.low # t
            /\ y.low = -t /\ y.high = 0 /\ y.low < 0
            /\ Mutex(o) => HalfOK(o, y)
  <1>0. t \in Nat \ {0} BY ThreadsAssumption
  <1>1. word[o].low \in Int /\ word[o].high \in Int BY DEF Words
  <1>2. W(KindOf[o])!Abandoned(word[o], t).low = -t /\ W(KindOf[o])!Abandoned(word[o], t).high = 0
    BY DEF W!Abandoned, Words
  <1> QED BY <1>0, <1>1, <1>2 DEF W!Owns, W!Mutex, Mutex, HalfOK

-----------------------------------------------------------------------------
(* What callers see: the objects t is taking at this moment are gone.      *)
Taking(t) == IF pc[t] = "take" THEN Takes(t)
             ELSE IF ServerTaker = t /\ call[t].what = "waitall" THEN ServerTakes ELSE {}
Plain(w, r) == IF w \in {"idle", "dead"} THEN w
               ELSE IF r \in {"success", "abandoned", "error", "half"} THEN r ELSE "pending"

LEMMA ServerTaking ==
  ASSUME IInv, ServerTakes # {}
  PROVE  /\ ServerTakes = Found /\ ServerTaker = Finder /\ ServerTaker \in Threads
         /\ pc[ServerTaker] \in {"queued", "tryall"} /\ srv.pc \in {"satisfy", "take"}
         /\ srv.pc = "take" => call[ServerTaker].what = "waitall"
  <1>1. srv.pc \in {"satisfy", "take"} BY DEF ServerTakes
  <1>2. CASE srv.pc = "satisfy"
    <2>1. srv.cur \in Threads /\ pc[srv.cur] = "queued" BY <1>2, WaiterAt DEF WaitPCs
    <2> QED BY <1>2, <2>1 DEF ServerTakes, ServerTaker, Found, Finder
  <1>3. CASE srv.pc = "take"
    <2>1. srv.req \in Threads /\ pc[srv.req] = "tryall" /\ call[srv.req].what = "waitall" BY <1>3, TryAt DEF TryPCs
    <2> QED BY <1>3, <2>1 DEF ServerTakes, ServerTaker, Found, Finder
  <1> QED BY <1>1, <1>2, <1>3

(* Nobody else is at an object somebody is taking.                         *)
TakingOK ==
  /\ \A t \in Threads : Taking(t) \subseteq Objs
  /\ \A t \in Threads : \A o \in Taking(t) :
       /\ Signaled(o, t) /\ View(o) = Consumed(o, t)
       /\ \A u \in Threads : u # t => o \notin Taking(u)
  /\ \A o \in Objs : (\A t \in Threads : o \notin Taking(t)) => View(o) = word[o]
  /\ \A t \in Threads : Taking(t) # {} => call[t].what = "waitall" /\ pc[t] \in {"take", "queued", "tryall"}
  /\ \A t \in Threads : \A o \in Taking(t) : word[o].locked => pc[t] = "take"

LEMMA TakingView == ASSUME IInv PROVE TakingOK
  <1>0. ThreadTypes /\ PlaceOK /\ LockedOK /\ ServerTypes /\ ServedOK /\ QueuesOK /\ ServerFlagExact /\ FoundOK /\ TakesOK
    BY Parts
  <1>1. \A t \in Threads : Takes(t) \subseteq Locked(t) /\ Locked(t) \subseteq Objs BY <1>0, FitsNow
  <1>2. \A t \in Threads : \A o \in Takes(t) : word[o].locked /\ Signaled(o, t) /\ o \in Objs /\ pc[t] = "take"
    BY <1>0, <1>1 DEF LockedOK, TakesOK, Takes
  <1>3. \A t, u \in Threads : \A o \in Takes(t) : u # t => o \notin Takes(u) BY <1>0, <1>1 DEF LockedOK
  <1>4. \A o \in ServerTakes : ~word[o].locked /\ Signaled(o, ServerTaker) /\ o \in Objs
    BY <1>0, FoundIn, ServerTaking DEF FoundOK
  <1>5. \A t \in Threads : \A o \in Takes(t) : o \notin ServerTakes BY <1>2, <1>4
  <1>6. ASSUME NEW t \in Threads, NEW o \in Taking(t)
        PROVE  /\ o \in Objs /\ Signaled(o, t) /\ call[t].what = "waitall" /\ pc[t] \in {"take", "queued", "tryall"}
               /\ word[o].locked => pc[t] = "take"
               /\ \/ o \in Takes(t)
                  \/ o \in ServerTakes /\ ServerTaker = t
    <2>1. CASE pc[t] = "take"
      <3>1. o \in Takes(t) BY <2>1 DEF Taking
      <3>2. call[t].what = "waitall" BY <1>0, <2>1 DEF PlaceOK, PlaceAt, AllPCs
      <3> QED BY <1>2, <2>1, <3>1, <3>2
    <2>2. CASE pc[t] # "take"
      <3>1. o \in ServerTakes /\ ServerTaker = t /\ call[t].what = "waitall" BY <2>2 DEF Taking
      <3> QED BY <1>4, <3>1, ServerTaking
    <2> QED BY <2>1, <2>2
  <1>7. ASSUME NEW t \in Threads, NEW o \in Taking(t), NEW u \in Threads, u # t PROVE o \notin Taking(u)
    BY <1>3, <1>5, <1>6, <1>7
  <1>8. ASSUME NEW t \in Threads, NEW o \in Taking(t) PROVE View(o) = Consumed(o, t)
    <2>1. CASE o \in Takes(t)
      <3>1. o \notin ServerTakes BY <1>5, <2>1
      <3>2. t = CHOOSE u \in Threads : o \in Takes(u) BY <1>3, <2>1
      <3>3. View(o) = Consumed(o, CHOOSE u \in Threads : o \in Takes(u)) BY <2>1, <3>1 DEF View
      <3> QED BY <3>2, <3>3
    <2>2. CASE o \in ServerTakes /\ ServerTaker = t
      <3>1. call[ServerTaker].what = "waitall" BY <1>6, <2>2
      <3>2. View(o) = Consumed(o, ServerTaker)
        <4>1. ~\E u \in Threads : o \in Takes(u) BY <1>5, <2>2
        <4> QED BY <2>2, <3>1, <4>1 DEF View
      <3> QED BY <2>2, <3>2
    <2> QED BY <1>6, <2>1, <2>2
  <1>9. ASSUME NEW o \in Objs, \A t \in Threads : o \notin Taking(t) PROVE View(o) = word[o]
    <2>1. \A t \in Threads : o \notin Takes(t) BY <1>9 DEF Taking, Takes
    <2>2. ~(o \in ServerTakes /\ call[ServerTaker].what = "waitall")
      <3> SUFFICES ASSUME o \in ServerTakes, call[ServerTaker].what = "waitall" PROVE FALSE OBVIOUS
      <3>1. PICK t \in Threads : t = ServerTaker BY ServerTaking
      <3>2. pc[t] # "take" BY <3>1, ServerTaking
      <3>3. o \in Taking(t) BY <3>1, <3>2 DEF Taking
      <3> QED BY <1>9, <3>3
    <2> QED BY <2>1, <2>2 DEF View
  <1> QED BY <1>6, <1>7, <1>8, <1>9 DEF TakingOK

LEMMA TakingAt ==
  /\ IInv => TakingOK
  /\ IInv' => TakingOK'
  <1>1. IInv => TakingOK BY TakingView
  <1> QED BY <1>1, PTL

StatusOK ==
  \A t \in Threads :
    /\ pc[t] = "take" => Taking(t) # {}
    /\ Status(t) = IF Taking(t) = {} THEN Plain(pc[t], loc[t].ret) ELSE TakeStatus(t, Taking(t))

LEMMA StatusView == ASSUME IInv PROVE StatusOK
  <1> SUFFICES ASSUME NEW t \in Threads
               PROVE  /\ pc[t] = "take" => Taking(t) # {}
                      /\ Status(t) = IF Taking(t) = {} THEN Plain(pc[t], loc[t].ret) ELSE TakeStatus(t, Taking(t))
    BY DEF StatusOK
  <1>1. ASSUME pc[t] = "take" PROVE Taking(t) # {}
    <2>1. At(t) \in Objs /\ loc[t].i \in 1..Count(t) /\ Count(t) \in Nat BY <1>1, Parts, ObjectAt
    <2>2. loc[t].i \in loc[t].i..Count(t) BY <2>1
    <2> QED BY <1>1, <2>2 DEF Taking, Takes
  <1>2. Taking(t) # {} => pc[t] \notin {"idle", "dead"} BY TakingAt DEF TakingOK
  <1>3. CASE pc[t] = "take"
    <2>1. ~(ServerTakes # {} /\ ServerTaker = t /\ call[t].what = "waitall") BY <1>3, ServerTaking
    <2>2. Status(t) = TakeStatus(t, Takes(t)) BY <1>3, <2>1 DEF Status
    <2> QED BY <1>1, <1>3, <2>2 DEF Taking
  <1>4. CASE pc[t] # "take" BY <1>2, <1>4 DEF Status, Taking, Plain
  <1> QED BY <1>1, <1>3, <1>4

LEMMA StatusAt ==
  /\ IInv => StatusOK
  /\ IInv' => StatusOK'
  <1>1. IInv => StatusOK BY StatusView
  <1> QED BY <1>1, PTL

-----------------------------------------------------------------------------
(* Steps of the abstract objects, one thread at a time.                    *)
SameView(o) == (View(o).low)' = View(o).low /\ (View(o).high)' = View(o).high

(* t's status becomes s and its call stays; nobody else notices.           *)
Turns(t, s) == Status(t)' = s /\ \A u \in Threads : u # t => Status(u)' = Status(u)
Becomes(t, s) == Turns(t, s) /\ call' = call

Step == Nt!Next \/ UNCHANGED Nt!vars

LEMMA StatusOf ==
  ASSUME NEW t \in Threads, NEW s, Turns(t, s)
  PROVE  [u \in Threads |-> Status(u)]' = [[u \in Threads |-> Status(u)] EXCEPT ![t] = s]
  BY DEF Turns

LEMMA NtKept == ASSUME \A o \in Objs : SameView(o) PROVE UNCHANGED Nt!object
  BY DEF SameView, Nt!object

LEMMA NtQuiet ==
  ASSUME \A o \in Objs : SameView(o), call' = call, \A u \in Threads : Status(u)' = Status(u)
  PROVE  Step
  <1>1. [u \in Threads |-> Status(u)]' = [u \in Threads |-> Status(u)] OBVIOUS
  <1>2. UNCHANGED Nt!vars BY <1>1, NtKept DEF Nt!vars
  <1> QED BY <1>2 DEF Step

LEMMA NtBecome == ASSUME NEW t \in Threads, NEW s, Becomes(t, s) PROVE Nt!Become(t, s)
  BY StatusOf DEF Becomes, Nt!Become

LEMMA NtTurn ==
  ASSUME NEW t \in Threads, NEW s, Turns(t, s), \A o \in Objs : SameView(o),
         \A u \in Threads : u # t => call'[u] = call[u]
  PROVE  Nt!Turn(t, s)
  BY StatusOf, NtKept DEF Nt!Turn

(* A call begins, ends, or dies with its thread.                           *)
LEMMA NtBegin ==
  ASSUME NEW t \in Threads, Status(t) = "idle", Turns(t, "pending"), \A o \in Objs : SameView(o),
         \A u \in Threads : u # t => call'[u] = call[u]
  PROVE  Step
  <1>1. Nt!Turn(t, "pending") BY NtTurn
  <1>2. Nt!Begin(t) BY <1>1 DEF Nt!Begin
  <1> QED BY <1>2 DEF Step, Nt!Next

MayEnd(t) == \/ Status(t) \in {"success", "abandoned", "error", "half"}
             \/ Status(t) = "pending" /\ call[t].what \in {"waitall", "waitany"}

LEMMA NtEnd ==
  ASSUME NEW t \in Threads, MayEnd(t), Turns(t, "idle"), \A o \in Objs : SameView(o),
         \A u \in Threads : u # t => call'[u] = call[u]
  PROVE  Step
  <1>1. Nt!Turn(t, "idle") BY NtTurn
  <1>2. Nt!End(t) BY <1>1 DEF Nt!End, Nt!Finished, MayEnd
  <1> QED BY <1>2 DEF Step, Nt!Next

LEMMA NtDie ==
  ASSUME NEW t \in Threads, Status(t) = "pending", call[t].what = "exit", Becomes(t, "dead"),
         \A o \in Objs : SameView(o) /\ (Mutex(o) => View(o).low # t)
  PROVE  Step
  <1>0. t \in Nat \ {0} BY ThreadsAssumption
  <1>1. Nt!Become(t, "dead") BY NtBecome
  <1>2. UNCHANGED Nt!object BY NtKept
  <1>3. Nt!Die(t) BY <1>0, <1>1, <1>2 DEF Nt!Die
  <1> QED BY <1>3 DEF Step, Nt!Next

(* A wait takes the objects in S.                                          *)
LEMMA NtTake ==
  ASSUME NEW t \in Threads, NEW S \in SUBSET Objs,
         \A o \in S : TakenTo(o, t, View(o), View(o)'), \A o \in Objs \ S : SameView(o),
         Becomes(t, IF \E o \in S : Mutex(o) /\ View(o).low < 0 THEN "abandoned" ELSE "success")
  PROVE  Nt!Take(S, t)
  <1>0. t \in Nat \ {0} BY ThreadsAssumption
  <1> DEFINE count == [o \in Objs |-> IF Mutex(o) THEN View(o).high ELSE View(o).low]
             owner == [o \in Objs |-> IF Mutex(o) /\ View(o).low > 0 THEN View(o).low ELSE 0]
             abandoned == [o \in Objs |-> Mutex(o) /\ View(o).low < 0]
  <1>1. \A o \in S : IF Mutex(o) THEN count[o] = 0 \/ owner[o] = t ELSE count[o] > 0
    BY <1>0 DEF TakenTo
  <1>2. count' = [o \in Objs |-> IF o \notin S THEN count[o]
                                 ELSE CASE KindOf[o] = "auto" -> 0
                                        [] KindOf[o] = "manual" -> count[o]
                                        [] KindOf[o] = "semaphore" -> count[o] - 1
                                        [] Mutex(o) -> count[o] + 1]
    <2>1. ASSUME NEW o \in Objs
          PROVE  (IF Mutex(o) THEN View(o).high ELSE View(o).low)' =
                   IF o \notin S THEN count[o] ELSE CASE KindOf[o] = "auto" -> 0
                                                      [] KindOf[o] = "manual" -> count[o]
                                                      [] KindOf[o] = "semaphore" -> count[o] - 1
                                                      [] Mutex(o) -> count[o] + 1
      <3>1. CASE o \notin S BY <3>1 DEF SameView, Mutex
      <3>2. CASE o \in S
        <4>1. TakenTo(o, t, View(o), View(o)') BY <3>2
        <4> QED BY <3>2, <4>1, KindOfAssumption DEF TakenTo, Mutex
      <3> QED BY <3>1, <3>2
    <2> QED BY <2>1
  <1>3. owner' = [o \in Objs |-> IF o \in S /\ Mutex(o) THEN t ELSE owner[o]]
    <2>1. ASSUME NEW o \in Objs
          PROVE  (IF Mutex(o) /\ View(o).low > 0 THEN View(o).low ELSE 0)' =
                   IF o \in S /\ Mutex(o) THEN t ELSE owner[o]
      <3>1. CASE o \notin S BY <3>1 DEF SameView, Mutex
      <3>2. CASE o \in S
        <4>1. TakenTo(o, t, View(o), View(o)') BY <3>2
        <4> QED BY <1>0, <3>2, <4>1 DEF TakenTo, Mutex
      <3> QED BY <3>1, <3>2
    <2> QED BY <2>1
  <1>4. abandoned' = [o \in Objs |-> abandoned[o] /\ o \notin S]
    <2>1. ASSUME NEW o \in Objs PROVE (Mutex(o) /\ View(o).low < 0)' = (abandoned[o] /\ o \notin S)
      <3>1. CASE o \notin S BY <3>1 DEF SameView, Mutex
      <3>2. CASE o \in S
        <4>1. TakenTo(o, t, View(o), View(o)') BY <3>2
        <4> QED BY <1>0, <3>2, <4>1 DEF TakenTo, Mutex
      <3> QED BY <3>1, <3>2
    <2> QED BY <2>1
  <1>5. Nt!Become(t, IF \E o \in S : abandoned[o] THEN "abandoned" ELSE "success") BY NtBecome
  <1>6. \A o : Nt!Mutex(o) <=> Mutex(o) BY DEF Nt!Mutex, Mutex
  <1> QED BY <1>1, <1>2, <1>3, <1>4, <1>5, <1>6, Zenon DEF Nt!Take, Nt!Signaled, Nt!Mutex, Mutex

LEMMA NtWaitAll ==
  ASSUME NEW t \in Threads, call[t].objs \in Seq(Objs), Status(t) = "pending", call[t].what = "waitall",
         NEW S \in SUBSET Objs, S = {WObj(t, j) : j \in 1..Count(t)},
         \A o \in S : TakenTo(o, t, View(o), View(o)'), \A o \in Objs \ S : SameView(o),
         Becomes(t, IF \E o \in S : Mutex(o) /\ View(o).low < 0 THEN "abandoned" ELSE "success")
  PROVE  Step
  <1>1. Nt!Take(S, t) BY NtTake
  <1>2. S = Nt!Waited(t) BY DEF Nt!Waited, WObj, Count
  <1>3. Nt!WaitAll(t) BY <1>1, <1>2 DEF Nt!WaitAll
  <1> QED BY <1>3 DEF Step, Nt!Next

LEMMA NtWaitAny ==
  ASSUME NEW t \in Threads, call[t].objs \in Seq(Objs),
         Status(t) = "half" \/ (Status(t) = "pending" /\ call[t].what = "waitany"),
         NEW j \in 1..Count(t), NEW o \in Objs, o = WObj(t, j),
         TakenTo(o, t, View(o), View(o)'), \A p \in Objs : p # o => SameView(p),
         Becomes(t, IF Mutex(o) /\ View(o).low < 0 THEN "abandoned" ELSE "success")
  PROVE  Step
  <1>1. Nt!Take({o}, t) BY NtTake
  <1>2. o \in Nt!Waited(t) BY DEF Nt!Waited, WObj, Count
  <1>3. Nt!WaitAny(t) BY <1>1, <1>2 DEF Nt!WaitAny
  <1> QED BY <1>3 DEF Step, Nt!Next

(* An operation on an object, done or refused.                             *)
LEMMA NtSignal ==
  ASSUME NEW t \in Threads, call[t] \in CallsOf[t], Status(t) = "pending",
         call[t].what \in {"signal", "reset", "sigwait"}, NEW o \in Objs, o = call[t].obj,
         \A p \in Objs : p # o => SameView(p), HalfOK(o, View(o)),
         IF RefusedTo(o, t, call[t], View(o)) THEN SameView(o) /\ Becomes(t, "error")
         ELSE /\ ReleasedTo(o, t, call[t], View(o), View(o)')
              /\ Becomes(t, IF call[t].what = "sigwait" THEN "half" ELSE "success")
  PROVE  Step
  <1>0. t \in Nat \ {0} BY ThreadsAssumption
  <1> DEFINE count == [p \in Objs |-> IF Mutex(p) THEN View(p).high ELSE View(p).low]
             owner == [p \in Objs |-> IF Mutex(p) /\ View(p).low > 0 THEN View(p).low ELSE 0]
             abandoned == [p \in Objs |-> Mutex(p) /\ View(p).low < 0]
             refused == RefusedTo(o, t, call[t], View(o))
             sum == (count[o] + call[t].n) % UlongSize
  <1>1. refused <=> CASE Event(o) -> FALSE
                      [] KindOf[o] = "semaphore" -> sum < count[o] \/ sum > InitWord[o][2]
                      [] Mutex(o) -> count[o] = 0 \/ owner[o] # t
    BY <1>0, KindOfAssumption DEF RefusedTo, Mutex, Event
  <1>2. Nt!Refused(t, o) <=> refused
    BY <1>1, KindOfAssumption DEF Nt!Refused, Nt!Event, Nt!Mutex, Nt!Sum, Event, Mutex
  <1>3. CASE refused
    <2>1. Becomes(t, "error") /\ \A p \in Objs : SameView(p) BY <1>3
    <2>2. Nt!Become(t, "error") /\ UNCHANGED Nt!object BY <2>1, NtBecome, NtKept
    <2>3. Nt!Signal(t) BY <1>2, <1>3, <2>2 DEF Nt!Signal
    <2> QED BY <2>3 DEF Step, Nt!Next
  <1>4. CASE ~refused
    <2> DEFINE s == IF call[t].what = "sigwait" THEN "half" ELSE "success"
    <2>1. ReleasedTo(o, t, call[t], View(o), View(o)') /\ Becomes(t, s) BY <1>4
    <2>2. Nt!Become(t, s) BY <2>1, NtBecome
    <2>3. count' = [count EXCEPT ![o] = CASE call[t].what = "reset" -> 0
                                          [] call[t].what # "reset" /\ Event(o) -> 1
                                          [] KindOf[o] = "semaphore" -> sum
                                          [] Mutex(o) -> count[o] - 1]
      <3>1. (IF Mutex(o) THEN View(o).high ELSE View(o).low)' =
              CASE call[t].what = "reset" -> 0
                [] call[t].what # "reset" /\ Event(o) -> 1
                [] KindOf[o] = "semaphore" -> sum
                [] Mutex(o) -> count[o] - 1
        BY <2>1, KindOfAssumption DEF ReleasedTo, Mutex, Event
      <3>2. \A p \in Objs : p # o =>
              (IF Mutex(p) THEN View(p).high ELSE View(p).low)' = (IF Mutex(p) THEN View(p).high ELSE View(p).low)
        BY DEF SameView, Mutex
      <3> QED BY <3>1, <3>2
    <2>4. owner' = IF Mutex(o) /\ count[o] = 1 THEN [owner EXCEPT ![o] = 0] ELSE owner
      <3>1. (IF Mutex(o) /\ View(o).low > 0 THEN View(o).low ELSE 0)' =
              IF Mutex(o) /\ count[o] = 1 THEN 0 ELSE owner[o]
        BY <1>0, <2>1 DEF ReleasedTo, Mutex
      <3>2. \A p \in Objs : p # o =>
              (IF Mutex(p) /\ View(p).low > 0 THEN View(p).low ELSE 0)' =
                (IF Mutex(p) /\ View(p).low > 0 THEN View(p).low ELSE 0)
        BY DEF SameView, Mutex
      <3> QED BY <3>1, <3>2
    <2>5. abandoned' = abandoned
      <3>1. (Mutex(o) /\ View(o).low < 0)' = (Mutex(o) /\ View(o).low < 0)
        BY <1>0, <2>1 DEF ReleasedTo, Mutex
      <3>2. \A p \in Objs : p # o => (Mutex(p) /\ View(p).low < 0)' = (Mutex(p) /\ View(p).low < 0)
        BY DEF SameView, Mutex
      <3> QED BY <3>1, <3>2
    <2>6. /\ \A p : Nt!Mutex(p) <=> Mutex(p)
          /\ \A p : Nt!Event(p) <=> Event(p)
      BY DEF Nt!Mutex, Mutex, Nt!Event, Event
    <2>7. call[t].obj = o /\ Nt!Sum(o, call[t].n) = sum BY DEF Nt!Sum, Nt!Mutex, Mutex
    <2>8. Status(t) = "pending" /\ [u \in Threads |-> Status(u)][t] = "pending" OBVIOUS
    <2>9. count' = [count EXCEPT ![o] = CASE call[t].what = "reset" -> 0
                                          [] call[t].what # "reset" /\ Nt!Event(o) -> 1
                                          [] KindOf[o] = "semaphore" -> Nt!Sum(o, call[t].n)
                                          [] Nt!Mutex(o) -> count[o] - 1]
      <3> DEFINE v == CASE call[t].what = "reset" -> 0
                        [] call[t].what # "reset" /\ Event(o) -> 1
                        [] KindOf[o] = "semaphore" -> sum
                        [] Mutex(o) -> count[o] - 1
                 w == CASE call[t].what = "reset" -> 0
                        [] call[t].what # "reset" /\ Nt!Event(o) -> 1
                        [] KindOf[o] = "semaphore" -> Nt!Sum(o, call[t].n)
                        [] Nt!Mutex(o) -> count[o] - 1
      <3>1. v = w
        <4> HIDE DEF count, sum
        <4> QED BY <2>6, <2>7
      <3>2. count' = [count EXCEPT ![o] = v] BY <2>3
      <3> HIDE DEF v, count
      <3> QED BY <3>1, <3>2
    <2>10. owner' = IF Nt!Mutex(o) /\ count[o] = 1 THEN [owner EXCEPT ![o] = 0] ELSE owner BY <2>4, <2>6
    <2>11. Nt!Signal(t) BY <1>2, <1>4, <2>2, <2>5, <2>7, <2>8, <2>9, <2>10, Zenon DEF Nt!Signal
    <2> QED BY <2>11 DEF Step, Nt!Next
  <1> QED BY <1>3, <1>4

(* The owner of a mutex dies.                                              *)
LEMMA NtAbandon ==
  ASSUME NEW t \in Threads, Status(t) = "pending", call[t].what = "exit", NEW o \in Objs, Mutex(o), View(o).low = t,
         (View(o).low)' = -t, (View(o).high)' = 0, \A p \in Objs : p # o => SameView(p),
         call' = call, \A u \in Threads : Status(u)' = Status(u)
  PROVE  Step
  <1>0. t \in Nat \ {0} BY ThreadsAssumption
  <1> DEFINE count == [p \in Objs |-> IF Mutex(p) THEN View(p).high ELSE View(p).low]
             owner == [p \in Objs |-> IF Mutex(p) /\ View(p).low > 0 THEN View(p).low ELSE 0]
             abandoned == [p \in Objs |-> Mutex(p) /\ View(p).low < 0]
  <1>1. count' = [count EXCEPT ![o] = 0] BY DEF SameView, Mutex
  <1>2. owner' = [owner EXCEPT ![o] = 0]
    <2>1. (IF Mutex(o) /\ View(o).low > 0 THEN View(o).low ELSE 0)' = 0 BY <1>0 DEF Mutex
    <2> QED BY <2>1 DEF SameView, Mutex
  <1>3. abandoned' = [abandoned EXCEPT ![o] = TRUE]
    <2>1. (Mutex(o) /\ View(o).low < 0)' = TRUE BY <1>0 DEF Mutex
    <2> QED BY <2>1 DEF SameView, Mutex
  <1>4. [u \in Threads |-> Status(u)]' = [u \in Threads |-> Status(u)] OBVIOUS
  <1>5. Nt!Abandon(t, o) BY <1>0, <1>1, <1>2, <1>3, <1>4 DEF Nt!Abandon, Nt!Mutex, Mutex
  <1> QED BY <1>5 DEF Step, Nt!Next

-----------------------------------------------------------------------------
(* What a step leaves alone.                                               *)
SameWord(o) == Same(word'[o], word[o])
Only(t) == \A u \in Threads : u # t => pc'[u] = pc[u] /\ loc'[u] = loc[u] /\ call'[u] = call[u]

LEMMA ConsumedSame ==
  ASSUME NEW o \in Objs, word[o] \in Words(o), word'[o] \in Words(o), SameWord(o), NEW t
  PROVE  /\ Same(Consumed(o, t)', Consumed(o, t)) /\ (Signaled(o, t)' <=> Signaled(o, t))
         /\ ConsumedStatus(o)' = ConsumedStatus(o)
  <1> DEFINE x == word[o]
             y == word'[o]
  <1>1. x \in Words(o) /\ y \in Words(o) /\ x.low = y.low /\ x.high = y.high BY DEF SameWord, Same
  <1>2. Signaled(o, t)' = Signaled(o, t) BY SignaledLow DEF SameWord, Same
  <1>3. ConsumedStatus(o)' = ConsumedStatus(o) BY <1>1 DEF ConsumedStatus, W!ConsumedStatus, W!Mutex
  <1>4. Consumed(o, t)' = W(KindOf[o])!Consumed(y, t) /\ Consumed(o, t) = W(KindOf[o])!Consumed(x, t)
    BY DEF Consumed
  <1> HIDE DEF x, y
  <1>5. Same(W(KindOf[o])!Consumed(y, t), W(KindOf[o])!Consumed(x, t))
    <2>1. CASE KindOf[o] = "auto" BY <1>1, <2>1 DEF W!Consumed, Words, Same
    <2>2. CASE KindOf[o] = "manual" BY <1>1, <2>2 DEF W!Consumed, Words, Same
    <2>3. CASE KindOf[o] = "semaphore" BY <1>1, <2>3 DEF W!Consumed, Words, Same
    <2>4. CASE KindOf[o] = "mutex" /\ x.low = t BY <1>1, <2>4 DEF W!Consumed, W!Inc, Words, Same
    <2>5. CASE KindOf[o] = "mutex" /\ x.low # t BY <1>1, <2>5 DEF W!Consumed, Words, Same
    <2> QED BY <2>1, <2>2, <2>3, <2>4, <2>5, KindOfAssumption
  <1> QED BY <1>2, <1>3, <1>4, <1>5

LEMMA ViewKept ==
  ASSUME IInv, IInv', NEW o \in Objs, SameWord(o), \A t \in Threads : o \in Taking(t)' <=> o \in Taking(t)
  PROVE  SameView(o)
  <1>1. word[o] \in Words(o) /\ word'[o] \in Words(o)
    <2>1. WordTypes /\ WordTypes' BY Parts, PTL
    <2> QED BY <2>1 DEF WordTypes
  <1>2. CASE \E t \in Threads : o \in Taking(t)
    <2>1. PICK t \in Threads : o \in Taking(t) BY <1>2
    <2>2. View(o) = Consumed(o, t) BY <2>1, TakingAt DEF TakingOK
    <2>3. View(o)' = Consumed(o, t)' BY <2>1, TakingAt DEF TakingOK
    <2>4. Same(Consumed(o, t)', Consumed(o, t)) BY <1>1, ConsumedSame
    <2> QED BY <2>2, <2>3, <2>4 DEF SameView, Same
  <1>3. CASE ~\E t \in Threads : o \in Taking(t)
    <2>1. View(o) = word[o] BY <1>3, TakingAt DEF TakingOK
    <2>2. View(o)' = word'[o] BY <1>3, TakingAt DEF TakingOK
    <2> QED BY <2>1, <2>2 DEF SameView, SameWord, Same
  <1> QED BY <1>2, <1>3

LEMMA StatusKept ==
  ASSUME IInv, IInv', NEW t \in Threads, pc'[t] = pc[t], loc'[t].ret = loc[t].ret, Taking(t)' = Taking(t),
         \A o \in Taking(t) : SameWord(o)
  PROVE  Status(t)' = Status(t)
  <1>1. WordTypes /\ WordTypes' BY Parts, PTL
  <1>2. \A o \in Taking(t) : ConsumedStatus(o)' = ConsumedStatus(o)
    BY <1>1, ConsumedSame, TakingAt DEF TakingOK, WordTypes
  <1>3. TakeStatus(t, Taking(t))' = TakeStatus(t, Taking(t)) BY <1>2 DEF TakeStatus
  <1> QED BY <1>3, StatusAt DEF StatusOK

-----------------------------------------------------------------------------
(* Whose objects are being taken, after a step of one thread, ...          *)
ServerStill == \/ srv' = srv /\ (srv.pc \in {"satisfy", "take"} => call'[ServerTaker] = call[ServerTaker])
               \/ srv.pc \notin {"satisfy", "take"} /\ srv'.pc \notin {"satisfy", "take"}

LEMMA ServerTakesStill ==
  ASSUME ServerStill
  PROVE  /\ ServerTakes' = ServerTakes
         /\ ServerTakes # {} => ServerTaker' = ServerTaker
  <1>1. CASE srv.pc \notin {"satisfy", "take"} /\ srv'.pc \notin {"satisfy", "take"} BY <1>1 DEF ServerTakes
  <1>2. CASE srv' = srv /\ srv.pc \notin {"satisfy", "take"} BY <1>2 DEF ServerTakes
  <1>3. CASE srv' = srv /\ srv.pc = "satisfy"
    <2>1. ServerTaker = srv.cur /\ ServerTaker' = srv.cur BY <1>3 DEF ServerTaker
    <2>2. call'[srv.cur] = call[srv.cur] BY <1>3, <2>1 DEF ServerStill
    <2> QED BY <1>3, <2>1, <2>2 DEF ServerTakes, WObj, Count
  <1>4. CASE srv' = srv /\ srv.pc = "take"
    <2>1. ServerTaker = srv.req /\ ServerTaker' = srv.req BY <1>4 DEF ServerTaker
    <2>2. call'[srv.req] = call[srv.req] BY <1>4, <2>1 DEF ServerStill
    <2> QED BY <1>4, <2>1, <2>2 DEF ServerTakes, WObj, Count
  <1> QED BY <1>1, <1>2, <1>3, <1>4 DEF ServerStill

LEMMA TakingStill ==
  ASSUME IInv, ServerStill, NEW u \in Threads,
         \/ pc'[u] = pc[u] /\ loc'[u].i = loc[u].i /\ call'[u] = call[u]
         \/ pc[u] # "take" /\ pc'[u] # "take" /\ ~(ServerTakes # {} /\ ServerTaker = u)
  PROVE  Taking(u)' = Taking(u)
  <1>1. ServerTakes' = ServerTakes /\ (ServerTakes # {} => ServerTaker' = ServerTaker) BY ServerTakesStill
  <1>2. CASE pc'[u] = pc[u] /\ loc'[u].i = loc[u].i /\ call'[u] = call[u]
    <2>1. Takes(u)' = Takes(u) BY <1>2 DEF Takes, Count
    <2> QED BY <1>1, <1>2, <2>1 DEF Taking
  <1>3. CASE pc[u] # "take" /\ pc'[u] # "take" /\ ~(ServerTakes # {} /\ ServerTaker = u)
    BY <1>1, <1>3 DEF Taking
  <1> QED BY <1>2, <1>3

(* ... what the others see of it.                                          *)
LEMMA OthersTurn ==
  ASSUME IInv, IInv', NEW t \in Threads, Only(t), \A u \in Threads : u # t => Taking(u)' = Taking(u),
         \A o \in Objs : SameWord(o) \/ \A u \in Threads : u # t => o \notin Taking(u)
  PROVE  \A u \in Threads : u # t => Status(u)' = Status(u)
  <1> SUFFICES ASSUME NEW u \in Threads, u # t PROVE Status(u)' = Status(u) OBVIOUS
  <1>1. \A o \in Taking(u) : SameWord(o) BY TakingAt DEF TakingOK
  <1>2. pc'[u] = pc[u] /\ loc'[u].ret = loc[u].ret BY DEF Only
  <1> QED BY <1>1, <1>2, StatusKept

(* Threads that ask wineserver for nothing are not in its hands.           *)
LEMMA NotServed ==
  ASSUME IInv, NEW t \in Threads, pc[t] \notin {"queued", "served", "request", "tryall"}
  PROVE  /\ ~(srv.req = t /\ (srv.pos > 0 \/ srv.pc \in SignalingPCs \cup TryPCs))
         /\ ~(srv.cur = t /\ srv.pc \in WaitPCs)
         /\ ~(ServerTakes # {} /\ ServerTaker = t)
  <1>1. ASSUME srv.req = t, srv.pos > 0 \/ srv.pc \in SignalingPCs PROVE FALSE
    BY <1>1, Parts DEF ServedOK, SignalServed, Asking
  <1>2. ASSUME srv.req = t, srv.pc \in TryPCs PROVE FALSE BY <1>2, TryAt
  <1>3. ASSUME srv.cur = t, srv.pc \in WaitPCs PROVE FALSE BY <1>3, WaiterAt
  <1> QED BY <1>1, <1>2, <1>3, ServerTaking

-----------------------------------------------------------------------------
(* How the kinds of step keep the invariant and map to the abstract objects. *)
Good == RInv' /\ Step

(* Where a call that nobody serves may be.                                 *)
Rest(w, r, a) == /\ RetAt(w, r, a) /\ w \notin {"queued", "served"}
                 /\ w \in {"tryall", "request"} => r \in Open

LEMMA RestHanded ==
  ASSUME NEW t, NEW w, NEW r, NEW a, NEW s, Rest(w, r, a),
         ~(s.req = t /\ (s.pos > 0 \/ s.pc \in SignalingPCs \cup TryPCs))
  PROVE  HandedAt(t, w, r, a, s)
  BY DEF Rest, HandedAt, SignalingPCs, TryPCs

LEMMA ThreadKeeps ==
  ASSUME IInv, RInv, NEW t \in Threads, Only(t), srv' = srv, pc[t] \notin {"queued", "served", "request", "tryall"},
         Rest(pc'[t], loc'[t].ret, call'[t].what), HalvesOK',
         \A o \in Objs : Mutex(o) => word'[o].low \in {word[o].low, t, 0}
  PROVE  RInv'
  <1>1. RetOK'
    <2>1. RetAt(pc'[t], loc'[t].ret, call'[t].what) BY DEF Rest
    <2> QED BY <2>1 DEF RInv, RetOK, Only
  <1>2. HandedOK'
    <2>1. HandedAt(t, pc'[t], loc'[t].ret, call'[t].what, srv) BY NotServed, RestHanded
    <2>2. \A u \in Threads : HandedAt(u, pc[u], loc[u].ret, call[u].what, srv) BY DEF RInv, HandedOK
    <2>3. \A u \in Threads : HandedAt(u, pc'[u], loc'[u].ret, call'[u].what, srv') BY <2>1, <2>2 DEF Only
    <2> QED BY <2>3 DEF HandedOK
  <1>3. AbandonOK'
    <2> SUFFICES ASSUME srv.pos > 0 \/ srv.pc \in SignalingPCs, call'[srv.req].what = "exit",
                        NEW o \in Objs, Mutex(o), o <= srv.obj
                 PROVE  word'[o].low # srv.req
      BY DEF AbandonOK, Mutex
    <2>1. srv.req \in Threads /\ srv.req # t BY NotServed, Parts DEF ServedOK, SignalServed, Asking
    <2>2. word[o].low # srv.req BY <2>1 DEF RInv, AbandonOK, Only
    <2>3. srv.req # 0 BY <2>1, ThreadsAssumption
    <2> QED BY <2>1, <2>2, <2>3
  <1>4. IdleOK' BY DEF RInv, IdleOK
  <1> QED BY <1>1, <1>2, <1>3, <1>4 DEF RInv

LEMMA HalvesSame ==
  ASSUME HalvesOK, \A o \in Objs : SameWord(o) PROVE HalvesOK'
  <1>1. \A o \in Objs : HalfOK(o, word'[o]) BY SameHalf DEF HalvesOK, SameWord
  <1> QED BY <1>1 DEF HalvesOK, HalfOK

LEMMA SameCalls ==
  ASSUME IInv, IInv', NEW t \in Threads, Only(t), call'[t] = call[t]
  PROVE  call' = call
  <1>1. ThreadTypes /\ ThreadTypes' BY Parts, PTL
  <1>2. \A u \in Threads : call'[u] = call[u] BY DEF Only
  <1> QED BY <1>1, <1>2 DEF ThreadTypes

Client == {"idle", "return", "gather", "lock", "eval", "unlock", "refresh", "any_check", "any_lock", "any_consume",
           "any_refresh", "sleep", "asleep", "signal", "signal_lock", "signal_write", "signal_multi", "notify"}

LEMMA ThreadView ==
  ASSUME IInv, IInv', NEW t \in Threads, Only(t), srv' = srv, pc[t] \in Client, pc'[t] # "take"
  PROVE  /\ \A u \in Threads : Taking(u)' = Taking(u)
         /\ Taking(t) = {} /\ Taking(t)' = {}
         /\ Status(t) = Plain(pc[t], loc[t].ret) /\ Status(t)' = Plain(pc'[t], loc'[t].ret)
  <1>1. pc[t] \notin {"queued", "served", "request", "tryall", "take"} BY DEF Client
  <1>2. ~(ServerTakes # {} /\ ServerTaker = t) BY <1>1, NotServed
  <1>3. ServerStill
    <2>1. CASE srv.pc = "satisfy"
      <3>1. ServerTaker = srv.cur /\ srv.cur \in Threads BY <2>1, WaiterAt DEF ServerTaker, WaitPCs
      <3>2. srv.cur # t BY <1>1, <2>1, NotServed DEF WaitPCs
      <3> QED BY <2>1, <3>1, <3>2 DEF ServerStill, Only
    <2>2. CASE srv.pc = "take"
      <3>1. ServerTaker = srv.req /\ srv.req \in Threads BY <2>2, TryAt DEF ServerTaker, TryPCs
      <3>2. srv.req # t BY <1>1, <2>2, NotServed DEF TryPCs
      <3> QED BY <2>2, <3>1, <3>2 DEF ServerStill, Only
    <2> QED BY <2>1, <2>2 DEF ServerStill
  <1>4. \A u \in Threads : Taking(u)' = Taking(u)
    <2>1. Taking(t)' = Taking(t) BY <1>1, <1>2, <1>3, TakingStill
    <2>2. ASSUME NEW u \in Threads, u # t PROVE Taking(u)' = Taking(u) BY <1>3, <2>2, TakingStill DEF Only
    <2> QED BY <2>1, <2>2
  <1>5. Taking(t) = {} BY <1>1, <1>2 DEF Taking
  <1> QED BY <1>4, <1>5, StatusAt DEF StatusOK

(* A step of the client that does not touch a count or an owner: the call  *)
(* is where it was, or it ends.                                            *)
LEMMA ThreadGood ==
  ASSUME IInv, IInv', RInv, NEW t \in Threads, Only(t), srv' = srv, pc[t] \in Client, pc'[t] # "take",
         Rest(pc'[t], loc'[t].ret, call'[t].what), \A o \in Objs : SameWord(o),
         \/ call'[t] = call[t] /\ Plain(pc'[t], loc'[t].ret) = Plain(pc[t], loc[t].ret)
         \/ pc'[t] = "idle" /\ MayEnd(t)
  PROVE  Good
  <1>1. /\ \A u \in Threads : Taking(u)' = Taking(u)
        /\ Status(t) = Plain(pc[t], loc[t].ret) /\ Status(t)' = Plain(pc'[t], loc'[t].ret)
    BY ThreadView
  <1>2. \A u \in Threads : u # t => Status(u)' = Status(u) BY <1>1, OthersTurn
  <1>3. \A o \in Objs : SameView(o) BY <1>1, ViewKept
  <1>4. RInv'
    <2>1. HalvesOK' BY HalvesSame DEF RInv
    <2>2. \A o \in Objs : word'[o].low = word[o].low BY DEF SameWord, Same
    <2>3. pc[t] \notin {"queued", "served", "request", "tryall"} BY DEF Client
    <2> QED BY <2>1, <2>2, <2>3, ThreadKeeps
  <1>5. CASE call'[t] = call[t] /\ Plain(pc'[t], loc'[t].ret) = Plain(pc[t], loc[t].ret)
    <2>1. call' = call BY <1>5, SameCalls
    <2>2. \A u \in Threads : Status(u)' = Status(u) BY <1>1, <1>2, <1>5
    <2>3. Step BY <1>3, <2>1, <2>2, NtQuiet
    <2> QED BY <1>4, <2>3 DEF Good
  <1>6. CASE pc'[t] = "idle" /\ MayEnd(t)
    <2>1. Turns(t, "idle") BY <1>1, <1>2, <1>6 DEF Turns, Plain
    <2>2. Step BY <1>3, <1>6, <2>1, NtEnd DEF Only
    <2> QED BY <1>4, <2>2 DEF Good
  <1> QED BY <1>5, <1>6

(* The words as far as callers see them: LOCKED, the flags and the         *)
(* generation are no part of it.                                           *)
LEMMA FlagsValue ==
  ASSUME WordTypes, NEW q, NEW b,
         \/ UNCHANGED word
         \/ word' = [word EXCEPT ![q].locked = b]
         \/ word' = [word EXCEPT ![q].server = b]
         \/ word' = [word EXCEPT ![q].multi = b]
  PROVE  \A o \in Objs : SameWord(o)
  <1> SUFFICES ASSUME NEW o \in Objs PROVE Same(word'[o], word[o]) BY DEF SameWord
  <1>1. word[o] \in Words(o) /\ word = [p \in Objs |-> word[p]] BY DEF WordTypes
  <1>2. CASE q = o BY <1>1, <1>2 DEF Words, Same
  <1>3. CASE q # o BY <1>1, <1>3 DEF Same
  <1> QED BY <1>2, <1>3

(* The ways out of a step.                                                 *)
LEMMA OnlyMoves ==
  ASSUME ThreadTypes, NEW t \in Threads, NEW w, NEW l
  PROVE  /\ Goto(t, w) /\ SetLoc(t, l) /\ UNCHANGED call =>
              Only(t) /\ pc'[t] = w /\ loc'[t] = l /\ call'[t] = call[t]
         /\ Goto(t, w) /\ UNCHANGED <<call, loc>> =>
              Only(t) /\ pc'[t] = w /\ loc'[t] = loc[t] /\ call'[t] = call[t]
         /\ UNCHANGED <<pc, call>> /\ SetLoc(t, l) =>
              Only(t) /\ pc'[t] = pc[t] /\ loc'[t] = l /\ call'[t] = call[t]
         /\ Return(t) => Only(t) /\ pc'[t] = "idle" /\ loc'[t].ret = "none"
         /\ UNCHANGED <<pc, call, loc>> => Only(t) /\ pc'[t] = pc[t] /\ loc'[t] = loc[t] /\ call'[t] = call[t]
         /\ loc[t] \in Locs
  BY DEF ThreadTypes, Only, Goto, SetLoc, Return, Loc0

LEMMA FallbackMoves ==
  ASSUME ThreadTypes, NEW t \in Threads, Fallback(t)
  PROVE  /\ Only(t) /\ pc'[t] \in {"gather", "request"} /\ loc'[t].ret = "none" /\ call'[t] = call[t]
         /\ Rest(pc'[t], loc'[t].ret, call'[t].what) /\ Plain(pc'[t], loc'[t].ret) = "pending"
  <1>1. Only(t) /\ pc'[t] \in {"gather", "request"} /\ loc'[t].ret = "none" /\ call'[t] = call[t]
    <2>1. CASE call[t].what \in {"waitall", "waitany"} /\ loc[t].try = 1
      BY <2>1, OnlyMoves DEF Fallback, Loc0
    <2>2. CASE ~(call[t].what \in {"waitall", "waitany"} /\ loc[t].try = 1)
      BY <2>2, OnlyMoves DEF Fallback, Loc0
    <2> QED BY <2>1, <2>2
  <1> QED BY <1>1 DEF Rest, RetAt, Open, Plain

LEMMA AnyDoneMoves ==
  ASSUME ThreadTypes, NEW t \in Threads, call[t].what = "waitany", NEW r \in Taken \cup {"timeout", "bail"}, AnyDone(t, r)
  PROVE  /\ Only(t) /\ pc'[t] # "take" /\ call'[t] = call[t]
         /\ Rest(pc'[t], loc'[t].ret, call'[t].what)
         /\ Plain(pc'[t], loc'[t].ret) = IF r \in Taken THEN r ELSE "pending"
  <1> DEFINE l == [loc[t] EXCEPT !.i = 1, !.ret = r]
  <1>1. l.ret = r /\ [loc[t] EXCEPT !.ret = r].ret = r BY DEF ThreadTypes, Locs
  <1>2. r \in Taken \/ (r \in {"timeout", "bail"} /\ r \notin Taken) BY DEF Taken
  <1>3. CASE loc[t].phase = 2
    <2>1. Goto(t, IF r = "timeout" THEN "sleep" ELSE "unregister") /\ SetLoc(t, l) /\ UNCHANGED call
      BY <1>3 DEF AnyDone
    <2> HIDE DEF l
    <2>2. /\ Only(t) /\ pc'[t] = (IF r = "timeout" THEN "sleep" ELSE "unregister")
          /\ loc'[t].ret = r /\ call'[t] = call[t]
      BY <1>1, <2>1, OnlyMoves
    <2> QED BY <1>2, <2>2 DEF Rest, RetAt, OpenPCs, Open, Taken, Plain
  <1>4. CASE loc[t].phase # 2 /\ r = "bail"
    <2>1. Fallback(t) BY <1>4 DEF AnyDone
    <2>2. /\ Only(t) /\ pc'[t] \in {"gather", "request"} /\ call'[t] = call[t]
          /\ Rest(pc'[t], loc'[t].ret, call'[t].what) /\ Plain(pc'[t], loc'[t].ret) = "pending"
      BY <2>1, FallbackMoves
    <2> QED BY <1>4, <2>2 DEF Taken
  <1>5. CASE loc[t].phase # 2 /\ r = "timeout" /\ (loc[t].phase = 3 \/ call[t].timeout # "zero")
    <2>1. Goto(t, "register") /\ SetLoc(t, l) /\ UNCHANGED call BY <1>5 DEF AnyDone
    <2> HIDE DEF l
    <2>2. Only(t) /\ pc'[t] = "register" /\ loc'[t].ret = r /\ call'[t] = call[t] BY <1>1, <2>1, OnlyMoves
    <2> QED BY <1>2, <1>5, <2>2 DEF Rest, RetAt, OpenPCs, Open, Taken, Plain
  <1>6. CASE loc[t].phase # 2 /\ r # "bail" /\ ~(r = "timeout" /\ (loc[t].phase = 3 \/ call[t].timeout # "zero"))
    <2>1. Finish(t, r) BY <1>6 DEF AnyDone
    <2> DEFINE m == [loc[t] EXCEPT !.ret = r]
    <2>2. Goto(t, "return") /\ SetLoc(t, m) /\ UNCHANGED call BY <2>1 DEF Finish
    <2>4. m.ret = r BY <1>1
    <2> HIDE DEF m
    <2>3. Only(t) /\ pc'[t] = "return" /\ loc'[t].ret = r /\ call'[t] = call[t] BY <2>2, <2>4, OnlyMoves
    <2> QED BY <1>2, <2>3 DEF Rest, RetAt, OpenPCs, Open, Taken, Plain
  <1> QED BY <1>3, <1>4, <1>5, <1>6

LEMMA StatusHere ==
  ASSUME IInv, NEW t \in Threads, pc[t] \in Client
  PROVE  Status(t) = Plain(pc[t], loc[t].ret)
  <1>1. Taking(t) = {} BY NotServed DEF Taking, Client
  <1> QED BY <1>1, StatusAt DEF StatusOK

LEMMA Here ==
  ASSUME IInv, RInv, NEW t \in Threads
  PROVE  /\ RetAt(pc[t], loc[t].ret, call[t].what)
         /\ pc[t] \in OpenPCs => loc[t].ret \in Open
         /\ pc[t] \notin {"idle", "dead"} /\ loc[t].ret \in Open => Plain(pc[t], loc[t].ret) = "pending"
         /\ pc[t] \in AnyLoop => call[t].what = "waitany"
  <1>1. RetAt(pc[t], loc[t].ret, call[t].what) BY DEF RInv, RetOK
  <1>2. pc[t] \in AnyLoop => call[t].what = "waitany"
    <2>1. PlaceAt(pc[t], loc[t], call[t]) BY Parts DEF PlaceOK
    <2> QED BY <2>1 DEF PlaceAt, AnyPCs, AnyLoop
  <1> QED BY <1>1, <1>2 DEF RetAt, Plain, Open

LEMMA ReturnGood ==
  ASSUME IInv, IInv', RInv, NEW t \in Threads, Return(t), srv' = srv, pc[t] \in Client \ {"idle"},
         \A o \in Objs : SameWord(o),
         \/ loc[t].ret \in {"success", "abandoned", "error", "half"}
         \/ loc[t].ret \in Open /\ call[t].what \in {"waitall", "waitany"}
  PROVE  Good
  <1>1. Only(t) /\ pc'[t] = "idle" /\ loc'[t].ret = "none" BY Parts, OnlyMoves
  <1>2. Rest(pc'[t], loc'[t].ret, call'[t].what) BY <1>1 DEF Rest, RetAt, OpenPCs
  <1>3. Status(t) = Plain(pc[t], loc[t].ret) /\ pc[t] \notin {"idle", "dead"} BY StatusHere DEF Client
  <1>4. MayEnd(t) BY <1>3 DEF MayEnd, Plain, Open
  <1> QED BY <1>1, <1>2, <1>4, ThreadGood

(* The call has no effect yet.                                             *)
LEMMA OpenGood ==
  ASSUME IInv, IInv', RInv, NEW t \in Threads, Only(t), srv' = srv, pc[t] \in Client \ {"idle"}, loc[t].ret \in Open,
         \A o \in Objs : SameWord(o), call'[t] = call[t], loc'[t].ret \in Open,
         pc'[t] \in OpenPCs \cup {"unlock", "unregister", "tryall", "request"}
  PROVE  Good
  <1>1. Rest(pc'[t], loc'[t].ret, call'[t].what) BY DEF Rest, RetAt, OpenPCs
  <1>2. Plain(pc'[t], loc'[t].ret) = "pending" BY DEF Plain, OpenPCs, Open
  <1>3. Plain(pc[t], loc[t].ret) = "pending" BY DEF Plain, Client, Open
  <1>4. pc'[t] # "take" BY DEF OpenPCs
  <1> QED BY <1>1, <1>2, <1>3, <1>4, ThreadGood

LEMMA FallbackGood ==
  ASSUME IInv, IInv', RInv, NEW t \in Threads, Fallback(t), srv' = srv, pc[t] \in Client \ {"idle"}, loc[t].ret \in Open,
         \A o \in Objs : SameWord(o)
  PROVE  Good
  <1>1. Only(t) /\ pc'[t] \in {"gather", "request"} /\ loc'[t].ret = "none" /\ call'[t] = call[t]
    BY Parts, FallbackMoves
  <1>2. loc'[t].ret \in Open BY <1>1 DEF Open
  <1> QED BY <1>1, <1>2, OpenGood DEF OpenPCs

LEMMA AnyDoneGood ==
  ASSUME IInv, IInv', RInv, NEW t \in Threads, NEW r \in Taken \cup {"timeout", "bail"}, AnyDone(t, r), srv' = srv,
         pc[t] \in AnyLoop, \A o \in Objs : SameWord(o),
         IF r \in Taken THEN loc[t].ret = r ELSE loc[t].ret \in Open
  PROVE  Good
  <1>1. ThreadTypes /\ call[t].what = "waitany" BY Parts, Here
  <1>2. /\ Only(t) /\ pc'[t] # "take" /\ call'[t] = call[t]
        /\ Rest(pc'[t], loc'[t].ret, call'[t].what)
        /\ Plain(pc'[t], loc'[t].ret) = IF r \in Taken THEN r ELSE "pending"
    BY <1>1, AnyDoneMoves
  <1>3. Plain(pc[t], loc[t].ret) = IF r \in Taken THEN r ELSE "pending" BY DEF Plain, AnyLoop, Taken, Open
  <1>4. pc[t] \in Client BY DEF AnyLoop, Client
  <1> QED BY <1>2, <1>3, <1>4, ThreadGood

-----------------------------------------------------------------------------
(* Steps of threads.                                                       *)
LEMMA InvokeGood == ASSUME IInv, IInv', RInv, NEW t \in Threads, Invoke(t) PROVE Good
  <1>0. ThreadTypes BY Parts
  <1>1. /\ pc[t] = "idle" /\ srv' = srv /\ word' = word /\ loc' = loc BY DEF Invoke
  <1>2. PICK c \in CallsOf[t] :
          /\ call' = [call EXCEPT ![t] = c]
          /\ Goto(t, CASE c.fast /\ c.what \in {"waitall", "waitany"} -> "gather"
                       [] c.fast /\ c.what \in {"signal", "reset"} -> "signal"
                       [] OTHER -> "request")
    BY DEF Invoke
  <1>3. Only(t) /\ pc'[t] \in {"gather", "signal", "request"} BY <1>0, <1>1, <1>2 DEF ThreadTypes, Only, Goto
  <1>4. loc'[t].ret = "none"
    <2>1. loc[t] = Loc0 BY <1>1, Parts DEF PlaceOK, PlaceAt
    <2> QED BY <1>1, <2>1 DEF Loc0
  <1>5. Rest(pc'[t], loc'[t].ret, call'[t].what) BY <1>3, <1>4 DEF Rest, RetAt, OpenPCs, Open
  <1>6. pc[t] \in Client /\ pc'[t] # "take" BY <1>1, <1>3 DEF Client
  <1>7. /\ \A u \in Threads : Taking(u)' = Taking(u)
        /\ Status(t) = "idle" /\ Status(t)' = "pending"
    BY <1>1, <1>3, <1>4, <1>6, ThreadView DEF Plain
  <1>8. \A o \in Objs : SameWord(o) BY <1>1 DEF SameWord, Same
  <1>9. \A u \in Threads : u # t => Status(u)' = Status(u) BY <1>3, <1>7, <1>8, OthersTurn
  <1>10. \A o \in Objs : SameView(o) BY <1>7, <1>8, ViewKept
  <1>11. Step BY <1>3, <1>7, <1>9, <1>10, NtBegin DEF Turns, Only
  <1>12. RInv'
    <2>1. HalvesOK' BY <1>8, HalvesSame DEF RInv
    <2>2. \A o \in Objs : word'[o].low = word[o].low BY <1>1
    <2> QED BY <1>1, <1>3, <1>5, <2>1, <2>2, ThreadKeeps
  <1> QED BY <1>11, <1>12 DEF Good

LEMMA ReturnedGood == ASSUME IInv, IInv', RInv, NEW t \in Threads, return(t) PROVE Good
  <1>1. pc[t] = "return" /\ Return(t) /\ srv' = srv /\ word' = word BY DEF return, ClientOnly
  <1>2. \A o \in Objs : SameWord(o) BY <1>1 DEF SameWord, Same
  <1>3. loc[t].ret \in Taken \cup {"error"} \/ (loc[t].ret \in Open /\ call[t].what = "waitany")
    BY <1>1, Here DEF RetAt
  <1> QED BY <1>1, <1>2, <1>3, ReturnGood DEF Client, Taken

LEMMA GatherGood == ASSUME IInv, IInv', RInv, NEW t \in Threads, gather(t) PROVE Good
  <1>1. pc[t] = "gather" /\ srv' = srv /\ word' = word BY DEF gather, ClientOnly
  <1>2. \A o \in Objs : SameWord(o) BY <1>1 DEF SameWord, Same
  <1>3. ThreadTypes /\ loc[t] \in Locs /\ loc[t].ret \in Open BY <1>1, Parts, Here DEF ThreadTypes, OpenPCs
  <1>4. CASE Fallback(t) BY <1>1, <1>2, <1>3, <1>4, FallbackGood DEF Client
  <1>5. CASE ~Fallback(t)
    <2>1. PICK w \in {"lock", "any_check", "gather"}, o \in {At(t)}, n \in {1, loc[t].i + 1}, g \in {word[At(t)].generation} :
            /\ Goto(t, w) /\ UNCHANGED call
            /\ SetLoc(t, [loc[t] EXCEPT !.gens[o] = g, !.i = n])
      BY <1>5 DEF gather
    <2> DEFINE l == [loc[t] EXCEPT !.gens[o] = g, !.i = n]
    <2>2. l.ret = loc[t].ret BY <1>3 DEF Locs
    <2>3. Goto(t, w) /\ UNCHANGED call /\ SetLoc(t, l) BY <2>1
    <2> HIDE DEF l
    <2>4. Only(t) /\ pc'[t] = w /\ loc'[t].ret = loc[t].ret /\ call'[t] = call[t] BY <1>3, <2>2, <2>3, OnlyMoves
    <2> QED BY <1>1, <1>2, <1>3, <2>4, OpenGood DEF OpenPCs, Client
  <1> QED BY <1>4, <1>5

LEMMA LockAllGood == ASSUME IInv, IInv', RInv, NEW t \in Threads, lock_all(t) PROVE Good
  <1>0. WordTypes /\ ThreadTypes /\ loc[t] \in Locs BY Parts DEF ThreadTypes
  <1>1. pc[t] = "lock" /\ srv' = srv /\ UNCHANGED call BY DEF lock_all, ClientOnly
  <1>2. loc[t].ret \in Open BY <1>1, Here DEF OpenPCs
  <1>3. \A o \in Objs : SameWord(o)
    <2>1. UNCHANGED word \/ word' = [word EXCEPT ![Order(t)[loc[t].i]].locked = TRUE] BY DEF lock_all
    <2> QED BY <1>0, <2>1, FlagsValue
  <1> DEFINE l1 == [loc[t] EXCEPT !.ret = "bail"]
             l2 == [loc[t] EXCEPT !.i = loc[t].i + 1]
             l3 == [loc[t] EXCEPT !.i = loc[t].i - 1, !.ret = "bail"]
  <1>4. l1.ret = "bail" /\ l2.ret = loc[t].ret /\ l3.ret = "bail" BY <1>0 DEF Locs
  <1>5. \/ Goto(t, "unlock") /\ SetLoc(t, l1)
        \/ Goto(t, "eval") /\ UNCHANGED loc
        \/ SetLoc(t, l2) /\ UNCHANGED pc
        \/ Goto(t, "unlock") /\ SetLoc(t, l3)
    BY DEF lock_all
  <1> HIDE DEF l1, l2, l3
  <1>6. Only(t) /\ pc'[t] \in {"unlock", "eval", "lock"} /\ loc'[t].ret \in {"bail", loc[t].ret} /\ call'[t] = call[t]
    BY <1>0, <1>1, <1>4, <1>5, OnlyMoves
  <1> QED BY <1>1, <1>2, <1>3, <1>6, OpenGood DEF OpenPCs, Open, Client

(* A WaitAll takes all of its objects, in the eyes of the others.          *)
LEMMA StartTaking ==
  ASSUME IInv, IInv', RInv, NoOverflow, NEW t \in Threads, \A o \in Objs : SameWord(o), call' = call, Only(t),
         call[t].what = "waitall", pc[t] # "idle", Plain(pc[t], loc[t].ret) = "pending",
         Taking(t) = {}, Taking(t)' = {WObj(t, j) : j \in 1..Count(t)},
         \A u \in Threads : u # t => Taking(u)' = Taking(u), loc'[t].ret \in Open
  PROVE  Step
  <1>0. /\ call[t].objs \in Seq(Objs) /\ Count(t) \in Nat /\ Count(t) > 0
        /\ \A j \in 1..Count(t) : WObj(t, j) \in Objs
    BY Parts, CallAt DEF Waits
  <1>1. PICK S \in SUBSET Objs : S = {WObj(t, j) : j \in 1..Count(t)}
    <2>1. {WObj(t, j) : j \in 1..Count(t)} \in SUBSET Objs BY <1>0
    <2> QED BY <2>1
  <1>2. Taking(t)' = S /\ S # {} BY <1>0, <1>1
  <1>3. WordTypes /\ WordTypes' BY Parts, PTL
  <1>4. ASSUME NEW o \in S PROVE TakenTo(o, t, View(o), View(o)') /\ View(o) = word[o]
    <2>1. o \in Objs /\ word[o] \in Words(o) /\ word'[o] \in Words(o) /\ SameWord(o) BY <1>3 DEF WordTypes
    <2>2. Signaled(o, t)' /\ View(o)' = Consumed(o, t)' /\ (\A u \in Threads : u # t => o \notin Taking(u)')
      BY <1>2, TakingAt DEF TakingOK
    <2>3. \A u \in Threads : o \notin Taking(u) BY <2>2
    <2>4. View(o) = word[o] BY <2>1, <2>3, TakingAt DEF TakingOK
    <2>5. Same(Consumed(o, t)', Consumed(o, t)) /\ Signaled(o, t) BY <2>1, <2>2, ConsumedSame
    <2>6. TakenTo(o, t, word[o], Consumed(o, t))
      BY <2>1, <2>5, TakenHalf DEF RInv, HalvesOK, NoOverflow
    <2>7. TakenTo(o, t, word[o], Consumed(o, t)') BY <2>5, <2>6 DEF TakenTo, Same
    <2> QED BY <2>2, <2>4, <2>7
  <1>5. ASSUME NEW o \in Objs \ S PROVE SameView(o)
    <2>1. \A u \in Threads : o \in Taking(u)' <=> o \in Taking(u) BY <1>2
    <2> QED BY <2>1, ViewKept
  <1>6. Status(t) = "pending" BY StatusAt DEF StatusOK
  <1>7. Status(t)' = IF \E o \in S : Mutex(o) /\ View(o).low < 0 THEN "abandoned" ELSE "success"
    <2>1. Status(t)' = TakeStatus(t, Taking(t))' BY <1>2, StatusAt DEF StatusOK
    <2>2. \A o \in S : ConsumedStatus(o)' = ConsumedStatus(o) BY <1>3, ConsumedSame DEF WordTypes
    <2>3. \A o \in S : ConsumedStatus(o) = "abandoned" <=> Mutex(o) /\ View(o).low < 0
      BY <1>4 DEF ConsumedStatus, W!ConsumedStatus, W!Mutex, Mutex
    <2>4. loc'[t].ret # "abandoned" BY DEF Open
    <2> QED BY <1>2, <2>1, <2>2, <2>3, <2>4 DEF TakeStatus
  <1>8. \A u \in Threads : u # t => Status(u)' = Status(u) BY OthersTurn
  <1>9. Becomes(t, IF \E o \in S : Mutex(o) /\ View(o).low < 0 THEN "abandoned" ELSE "success")
    BY <1>7, <1>8 DEF Becomes, Turns
  <1> QED BY <1>0, <1>1, <1>4, <1>5, <1>6, <1>9, NtWaitAll

(* ... and gets to one of them.                                            *)
LEMMA TakingOne ==
  ASSUME IInv, IInv', NEW t \in Threads, NEW o \in Taking(t), Same(word'[o], Consumed(o, t)),
         \A p \in Objs : p # o => SameWord(p), call' = call, Only(t), pc'[t] \notin {"idle", "dead"},
         Taking(t)' = Taking(t) \ {o}, \A u \in Threads : u # t => Taking(u)' = Taking(u),
         loc'[t].ret = Worse(loc[t].ret, ConsumedStatus(o))
  PROVE  Step
  <1>0. /\ o \in Objs /\ View(o) = Consumed(o, t)
        /\ \A u \in Threads : u # t => o \notin Taking(u)
    BY TakingAt DEF TakingOK
  <1>1. WordTypes /\ WordTypes' BY Parts, PTL
  <1>2. \A p \in Objs : SameView(p)
    <2>1. CASE TRUE
      <3>1. \A u \in Threads : o \notin Taking(u)' BY <1>0
      <3>2. View(o)' = word'[o] BY <1>0, <3>1, TakingAt DEF TakingOK
      <3>3. SameView(o) BY <1>0, <3>2 DEF SameView, Same
      <3>4. ASSUME NEW p \in Objs, p # o PROVE SameView(p)
        <4>1. \A u \in Threads : p \in Taking(u)' <=> p \in Taking(u) BY <3>4
        <4> QED BY <3>4, <4>1, ViewKept
      <3> QED BY <3>3, <3>4
    <2> QED BY <2>1
  <1>3. \A u \in Threads : u # t => Status(u)' = Status(u) BY <1>0, OthersTurn
  <1>4. Status(t)' = Status(t)
    <2>1. Status(t) = TakeStatus(t, Taking(t)) BY StatusAt DEF StatusOK
    <2>2. \A p \in Taking(t)' : ConsumedStatus(p)' = ConsumedStatus(p)
      BY <1>1, ConsumedSame, TakingAt DEF WordTypes, TakingOK
    <2>3. \A p \in Taking(t) : p = o \/ p \in Taking(t)' OBVIOUS
    <2>4. ConsumedStatus(o) \in {"success", "abandoned"} BY DEF ConsumedStatus, W!ConsumedStatus
    <2>5. loc'[t].ret \in {"success", "abandoned"}
          /\ (loc'[t].ret = "abandoned" <=> loc[t].ret = "abandoned" \/ ConsumedStatus(o) = "abandoned")
      BY <2>4 DEF Worse
    <2>6. CASE Taking(t)' = {}
      <3>1. Status(t)' = loc'[t].ret BY <2>5, <2>6, StatusAt DEF StatusOK, Plain
      <3> QED BY <2>1, <2>3, <2>5, <2>6, <3>1 DEF TakeStatus
    <2>7. CASE Taking(t)' # {}
      <3>1. Status(t)' = TakeStatus(t, Taking(t))' BY <2>7, StatusAt DEF StatusOK
      <3> QED BY <2>1, <2>2, <2>3, <2>5, <3>1 DEF TakeStatus
    <2> QED BY <2>6, <2>7
  <1>5. \A u \in Threads : Status(u)' = Status(u) BY <1>3, <1>4
  <1> QED BY <1>2, <1>5, NtQuiet

(* A count or an owner that a wait takes.                                  *)
LEMMA WordTaken ==
  ASSUME IInv, RInv, NoOverflow, NEW t \in Threads, NEW o \in Objs, Signaled(o, t), Same(word'[o], Consumed(o, t)),
         \A p \in Objs : p # o => SameWord(p)
  PROVE  /\ HalvesOK' /\ TakenTo(o, t, word[o], word'[o])
         /\ \A p \in Objs : Mutex(p) => word'[p].low \in {word[p].low, t, 0}
  <1>1. HalfOK(o, Consumed(o, t)) /\ TakenTo(o, t, word[o], Consumed(o, t))
    BY Parts, TakenHalf DEF WordTypes, RInv, HalvesOK, NoOverflow
  <1>2. HalfOK(o, word'[o]) /\ TakenTo(o, t, word[o], word'[o]) BY <1>1, SameHalf DEF TakenTo, Same
  <1>3. \A p \in Objs : HalfOK(p, word'[p]) BY <1>2, SameHalf DEF RInv, HalvesOK, SameWord
  <1>4. \A p \in Objs : Mutex(p) => word'[p].low \in {word[p].low, t, 0} BY <1>2 DEF TakenTo, SameWord, Same
  <1> QED BY <1>2, <1>3, <1>4 DEF HalvesOK, HalfOK

(* A step of a thread leaves alone what the others take.                   *)
LEMMA OthersTake ==
  ASSUME IInv, NEW t \in Threads, Only(t), srv' = srv, pc[t] \notin {"queued", "served", "request", "tryall"}
  PROVE  /\ ServerStill /\ \A u \in Threads : u # t => Taking(u)' = Taking(u)
         /\ Taking(t)' = IF pc'[t] = "take" THEN Takes(t)' ELSE {}
  <1>1. ~(ServerTakes # {} /\ ServerTaker = t) BY NotServed
  <1>2. ServerStill
    <2>1. CASE srv.pc = "satisfy"
      <3>1. ServerTaker = srv.cur /\ srv.cur \in Threads BY <2>1, WaiterAt DEF ServerTaker, WaitPCs
      <3>2. srv.cur # t BY <2>1, NotServed DEF WaitPCs
      <3> QED BY <2>1, <3>1, <3>2 DEF ServerStill, Only
    <2>2. CASE srv.pc = "take"
      <3>1. ServerTaker = srv.req /\ srv.req \in Threads BY <2>2, TryAt DEF ServerTaker, TryPCs
      <3>2. srv.req # t BY <2>2, NotServed DEF TryPCs
      <3> QED BY <2>2, <3>1, <3>2 DEF ServerStill, Only
    <2> QED BY <2>1, <2>2 DEF ServerStill
  <1>3. \A u \in Threads : u # t => Taking(u)' = Taking(u) BY <1>2, TakingStill DEF Only
  <1>4. ServerTakes' = ServerTakes /\ (ServerTakes # {} => ServerTaker' = ServerTaker) BY <1>2, ServerTakesStill
  <1> QED BY <1>1, <1>2, <1>3, <1>4 DEF Taking

LEMMA NextPart ==
  ASSUME NEW t, NEW n \in Nat, NEW i \in 1..n, \A j, k \in 1..n : WObj(t, j) = WObj(t, k) => j = k
  PROVE  /\ Part(t, i + 1, n) = Part(t, i, n) \ {WObj(t, i)} /\ WObj(t, i) \in Part(t, i, n)
         /\ i = n => Part(t, i, n) \ {WObj(t, i)} = {}
  <1>1. \A j \in i..n : j \in 1..n /\ (j = i \/ j \in (i + 1)..n) OBVIOUS
  <1>2. \A j \in (i + 1)..n : j \in i..n /\ j # i OBVIOUS
  <1>3. i \in i..n OBVIOUS
  <1>4. i = n => \A j \in i..n : j = i OBVIOUS
  <1> QED BY <1>1, <1>2, <1>3, <1>4 DEF Part

LEMMA EvalAllGood == ASSUME IInv, IInv', RInv, NoOverflow, NEW t \in Threads, eval_all(t) PROVE Good
  <1>0. ThreadTypes /\ loc[t] \in Locs BY Parts DEF ThreadTypes
  <1>1. pc[t] = "eval" /\ srv' = srv /\ UNCHANGED <<word, call>> BY DEF eval_all, ClientOnly
  <1>2. loc[t].ret \in Open BY <1>1, Here DEF OpenPCs
  <1>3. \A o \in Objs : SameWord(o) BY <1>1 DEF SameWord, Same
  <1>4. CASE Verdict(t) # "none" /\ Goto(t, "unlock") /\ SetLoc(t, [loc[t] EXCEPT !.ret = Verdict(t)])
    <2> DEFINE l == [loc[t] EXCEPT !.ret = Verdict(t)]
    <2>1. l.ret = Verdict(t) /\ Verdict(t) \in {"bail", "timeout"} BY <1>0, <1>4 DEF Locs, Verdict, VerdictUpTo
    <2>2. Goto(t, "unlock") /\ SetLoc(t, l) BY <1>4
    <2> HIDE DEF l
    <2>3. Only(t) /\ pc'[t] = "unlock" /\ loc'[t].ret \in {"bail", "timeout"} /\ call'[t] = call[t]
      BY <1>0, <1>1, <2>1, <2>2, OnlyMoves
    <2> QED BY <1>1, <1>2, <1>3, <2>3, OpenGood DEF Open, Client
  <1>5. CASE Goto(t, "take") /\ SetLoc(t, [loc[t] EXCEPT !.i = 1])
    <2> DEFINE l == [loc[t] EXCEPT !.i = 1]
    <2>1. l.ret = loc[t].ret /\ l.i = 1 BY <1>0 DEF Locs
    <2>2. Goto(t, "take") /\ SetLoc(t, l) BY <1>5
    <2> HIDE DEF l
    <2>3. Only(t) /\ pc'[t] = "take" /\ loc'[t].ret = loc[t].ret /\ call'[t] = call[t] /\ loc'[t].i = 1
      BY <1>0, <1>1, <2>1, <2>2, OnlyMoves
    <2>4. Taking(t)' = Takes(t)' /\ \A u \in Threads : u # t => Taking(u)' = Taking(u)
      BY <1>1, <2>3, OthersTake
    <2>5. Takes(t)' = {WObj(t, j) : j \in 1..Count(t)} BY <1>1, <2>3 DEF Takes, WObj, Count
    <2>6. Taking(t) = {} BY <1>1, NotServed DEF Taking
    <2>7. call[t].what = "waitall" BY <1>1, Parts DEF PlaceOK, PlaceAt, AllPCs
    <2>8. Plain(pc[t], loc[t].ret) = "pending" BY <1>1, <1>2 DEF Plain, Open
    <2>9. Step BY <1>1, <1>2, <1>3, <2>3, <2>4, <2>5, <2>6, <2>7, <2>8, StartTaking
    <2>10. RInv'
      <3>1. Rest(pc'[t], loc'[t].ret, call'[t].what) BY <1>2, <2>3 DEF Rest, RetAt, OpenPCs
      <3>2. HalvesOK' BY <1>3, HalvesSame DEF RInv
      <3>3. \A o \in Objs : word'[o].low = word[o].low BY <1>1
      <3> QED BY <1>1, <2>3, <3>1, <3>2, <3>3, ThreadKeeps
    <2> QED BY <2>9, <2>10 DEF Good
  <1> QED BY <1>4, <1>5 DEF eval_all

LEMMA TakeAllGood == ASSUME IInv, IInv', RInv, NoOverflow, NEW t \in Threads, take_all(t) PROVE Good
  <1>1. pc[t] = "take" /\ srv' = srv /\ UNCHANGED call BY DEF take_all, ClientOnly
  <1>2. /\ loc[t].i \in 1..Count(t) /\ At(t) \in Objs /\ At(t) = WObj(t, loc[t].i) /\ loc[t] \in Locs /\ Count(t) \in Nat
        /\ \A j, k \in 1..Count(t) : WObj(t, j) = WObj(t, k) => j = k
    BY <1>1, Parts, CallAt, ObjectAt
  <1>3. PICK o \in Objs : o = At(t) BY <1>2
  <1>4. Taking(t) = Part(t, loc[t].i, Count(t)) BY <1>1 DEF Taking, Takes, Part, WObj
  <1>0. /\ Part(t, loc[t].i + 1, Count(t)) = Taking(t) \ {o} /\ o \in Taking(t)
        /\ loc[t].i = Count(t) => Taking(t) \ {o} = {}
    <2> DEFINE i == loc[t].i
               n == Count(t)
    <2>1. i \in 1..n /\ n \in Nat /\ (\A j, k \in 1..n : WObj(t, j) = WObj(t, k) => j = k) BY <1>2
    <2>2. WObj(t, i) = o /\ Part(t, i, n) = Taking(t) BY <1>2, <1>3, <1>4
    <2> HIDE DEF i, n
    <2>3. /\ Part(t, i + 1, n) = Part(t, i, n) \ {WObj(t, i)} /\ WObj(t, i) \in Part(t, i, n)
          /\ i = n => Part(t, i, n) \ {WObj(t, i)} = {}
      BY <2>1, NextPart
    <2>4. Part(t, i + 1, n) = Taking(t) \ {o} /\ o \in Taking(t) /\ (i = n => Taking(t) \ {o} = {}) BY <2>2, <2>3
    <2> QED BY <2>4 DEF i, n
  <1>5. o \in Taking(t) /\ Signaled(o, t) BY <1>0, TakingAt DEF TakingOK
  <1>6. Same(word'[o], Consumed(o, t)) /\ \A p \in Objs : p # o => SameWord(p)
    <2>1. word' = [word EXCEPT ![o] = Consumed(o, t)] BY <1>3 DEF take_all
    <2>2. word = [p \in Objs |-> word[p]] BY Parts DEF WordTypes
    <2>3. word'[o] = Consumed(o, t) /\ \A p \in Objs : p # o => word'[p] = word[p] BY <2>1, <2>2
    <2> QED BY <2>3 DEF Same, SameWord
  <1>7. HalvesOK' /\ \A p \in Objs : Mutex(p) => word'[p].low \in {word[p].low, t, 0} BY <1>5, <1>6, WordTaken
  <1> DEFINE r == Worse(loc[t].ret, ConsumedStatus(o))
             l == [loc[t] EXCEPT !.ret = r]
             m == [loc[t] EXCEPT !.ret = r, !.i = loc[t].i + 1]
  <1>8. l.ret = r /\ m.ret = r /\ m.i = loc[t].i + 1 BY <1>2 DEF Locs
  <1>9. r \in Taken
    <2>1. ConsumedStatus(o) \in Taken BY DEF ConsumedStatus, W!ConsumedStatus, Taken
    <2> QED BY <2>1 DEF Worse, Taken
  <1>10. \/ loc[t].i = Count(t) /\ Goto(t, "unlock") /\ SetLoc(t, l)
         \/ loc[t].i # Count(t) /\ UNCHANGED pc /\ SetLoc(t, m)
    BY <1>2, <1>3 DEF take_all, Locs
  <1> HIDE DEF l, m, r
  <1>11. /\ Only(t) /\ loc'[t].ret = r /\ call'[t] = call[t]
         /\ \/ loc[t].i = Count(t) /\ pc'[t] = "unlock"
            \/ loc[t].i # Count(t) /\ pc'[t] = "take" /\ loc'[t].i = loc[t].i + 1
    BY <1>1, <1>8, <1>10, Parts, OnlyMoves
  <1>12. /\ \A u \in Threads : u # t => Taking(u)' = Taking(u)
         /\ Taking(t)' = IF pc'[t] = "take" THEN Takes(t)' ELSE {}
    BY <1>1, <1>11, OthersTake
  <1>13. Taking(t)' = Taking(t) \ {o}
    <2>1. CASE loc[t].i = Count(t) /\ pc'[t] = "unlock" BY <1>0, <1>12, <2>1
    <2>2. CASE pc'[t] = "take" /\ loc'[t].i = loc[t].i + 1
      <3>1. Takes(t)' = Part(t, loc[t].i + 1, Count(t)) BY <1>1, <2>2 DEF Takes, Part, WObj, Count
      <3> QED BY <1>0, <1>12, <2>2, <3>1
    <2> QED BY <1>11, <2>1, <2>2
  <1>14. Step BY <1>1, <1>5, <1>6, <1>11, <1>12, <1>13, TakingOne DEF r
  <1>15. Rest(pc'[t], loc'[t].ret, call'[t].what) BY <1>9, <1>11 DEF Rest, RetAt, OpenPCs
  <1>16. RInv' BY <1>1, <1>7, <1>11, <1>15, ThreadKeeps
  <1> QED BY <1>14, <1>16 DEF Good

LEMMA UnlockAllGood == ASSUME IInv, IInv', RInv, NEW t \in Threads, unlock_all(t) PROVE Good
  <1>0. WordTypes /\ ThreadTypes /\ loc[t] \in Locs BY Parts DEF ThreadTypes
  <1>1. pc[t] = "unlock" /\ srv' = srv BY DEF unlock_all, ClientOnly
  <1>2. loc[t].ret \in Open \cup Taken /\ call[t].what = "waitall" /\ pc[t] \in Client \ {"idle"}
    <2>1. PlaceAt(pc[t], loc[t], call[t]) BY Parts DEF PlaceOK
    <2> QED BY <1>1, <2>1, Here DEF RetAt, PlaceAt, AllPCs, Client
  <1>3. \A o \in Objs : SameWord(o)
    <2>1. UNCHANGED word \/ word' = [word EXCEPT ![Order(t)[loc[t].i]].locked = FALSE] BY DEF unlock_all
    <2> QED BY <1>0, <2>1, FlagsValue
  <1> DEFINE l == [loc[t] EXCEPT !.i = 1]
             m == [l EXCEPT !.ret = "none"]
             n == [loc[t] EXCEPT !.i = loc[t].i - 1]
  <1>4. l.ret = loc[t].ret /\ m.ret = "none" /\ n.ret = loc[t].ret BY <1>0 DEF Locs
  <1>5. \/ loc[t].ret = "abandoned" /\ Goto(t, "refresh") /\ SetLoc(t, l) /\ UNCHANGED call
        \/ loc[t].ret \in {"success", "timeout"} /\ Return(t)
        \/ loc[t].ret \notin Taken /\ Goto(t, "tryall") /\ SetLoc(t, m) /\ UNCHANGED call
        \/ SetLoc(t, n) /\ UNCHANGED <<pc, call>>
    <2>1. CASE AfterLocal(t) BY <1>4, <2>1 DEF AfterLocal, Taken
    <2>2. CASE SetLoc(t, n) /\ UNCHANGED <<pc, call>> BY <2>2
    <2> QED BY <2>1, <2>2 DEF unlock_all
  <1> HIDE DEF l, m, n
  <1>6. CASE loc[t].ret = "abandoned" /\ Goto(t, "refresh") /\ SetLoc(t, l) /\ UNCHANGED call
    <2>1. Only(t) /\ pc'[t] = "refresh" /\ loc'[t].ret = "abandoned" /\ call'[t] = call[t] BY <1>0, <1>4, <1>6, OnlyMoves
    <2>2. Rest(pc'[t], loc'[t].ret, call'[t].what) BY <2>1 DEF Rest, RetAt, OpenPCs
    <2>3. Plain(pc'[t], loc'[t].ret) = Plain(pc[t], loc[t].ret) BY <1>1, <1>6, <2>1 DEF Plain
    <2> QED BY <1>1, <1>2, <1>3, <2>1, <2>2, <2>3, ThreadGood
  <1>7. CASE loc[t].ret \in {"success", "timeout"} /\ Return(t)
    BY <1>1, <1>2, <1>3, <1>7, ReturnGood DEF Open
  <1>8. CASE loc[t].ret \notin Taken /\ Goto(t, "tryall") /\ SetLoc(t, m) /\ UNCHANGED call
    <2>1. Only(t) /\ pc'[t] = "tryall" /\ loc'[t].ret = "none" /\ call'[t] = call[t] BY <1>0, <1>4, <1>8, OnlyMoves
    <2>2. loc'[t].ret \in Open /\ loc[t].ret \in Open BY <1>2, <1>8, <2>1 DEF Open
    <2> QED BY <1>1, <1>2, <1>3, <2>1, <2>2, OpenGood
  <1>9. CASE SetLoc(t, n) /\ UNCHANGED <<pc, call>>
    <2>1. Only(t) /\ pc'[t] = "unlock" /\ loc'[t].ret = loc[t].ret /\ call'[t] = call[t] BY <1>0, <1>1, <1>4, <1>9, OnlyMoves
    <2>2. Rest(pc'[t], loc'[t].ret, call'[t].what) BY <1>2, <2>1 DEF Rest, RetAt, OpenPCs
    <2> QED BY <1>1, <1>2, <1>3, <2>1, <2>2, ThreadGood
  <1> QED BY <1>5, <1>6, <1>7, <1>8, <1>9

LEMMA RefreshAllGood == ASSUME IInv, IInv', RInv, NEW t \in Threads, refresh_all(t) PROVE Good
  <1>0. ThreadTypes /\ loc[t] \in Locs BY Parts DEF ThreadTypes
  <1>1. pc[t] = "refresh" /\ srv' = srv /\ UNCHANGED word BY DEF refresh_all, ClientOnly
  <1>2. loc[t].ret = "abandoned" /\ pc[t] \in Client \ {"idle"} BY <1>1, Here DEF RetAt, Client
  <1>3. \A o \in Objs : SameWord(o) BY <1>1 DEF SameWord, Same
  <1>4. CASE Return(t) BY <1>1, <1>2, <1>3, <1>4, ReturnGood
  <1>5. CASE SetLoc(t, [loc[t] EXCEPT !.i = loc[t].i + 1]) /\ UNCHANGED <<pc, call>>
    <2> DEFINE l == [loc[t] EXCEPT !.i = loc[t].i + 1]
    <2>1. l.ret = loc[t].ret /\ SetLoc(t, l) BY <1>0, <1>5 DEF Locs
    <2> HIDE DEF l
    <2>2. Only(t) /\ pc'[t] = "refresh" /\ loc'[t].ret = "abandoned" /\ call'[t] = call[t]
      BY <1>0, <1>1, <1>2, <1>5, <2>1, OnlyMoves
    <2>3. Rest(pc'[t], loc'[t].ret, call'[t].what) BY <2>2 DEF Rest, RetAt, OpenPCs
    <2>4. Plain(pc'[t], loc'[t].ret) = Plain(pc[t], loc[t].ret) BY <1>1, <1>2, <2>2 DEF Plain
    <2> QED BY <1>1, <1>2, <1>3, <2>2, <2>3, <2>4, ThreadGood
  <1> QED BY <1>4, <1>5 DEF refresh_all

LEMMA AnyCheckGood == ASSUME IInv, IInv', RInv, NEW t \in Threads, any_check(t) PROVE Good
  <1>1. pc[t] = "any_check" /\ srv' = srv /\ UNCHANGED word BY DEF any_check, ClientOnly
  <1>2. loc[t].ret \in Open /\ pc[t] \in Client \ {"idle"} /\ pc[t] \in AnyLoop
    BY <1>1, Here DEF OpenPCs, Client, AnyLoop
  <1>3. \A o \in Objs : SameWord(o) BY <1>1 DEF SameWord, Same
  <1>4. CASE AnyDone(t, "bail")
    <2>1. "bail" \in Taken \cup {"timeout", "bail"} /\ "bail" \notin Taken BY DEF Taken
    <2> QED BY <1>1, <1>2, <1>3, <1>4, <2>1, AnyDoneGood
  <1>5. CASE Goto(t, "any_lock") /\ UNCHANGED <<call, loc>>
    <2>1. Only(t) /\ pc'[t] = "any_lock" /\ loc'[t] = loc[t] /\ call'[t] = call[t] BY <1>5, Parts, OnlyMoves
    <2> QED BY <1>1, <1>2, <1>3, <2>1, OpenGood DEF OpenPCs
  <1> QED BY <1>4, <1>5 DEF any_check

LEMMA AnyLockGood == ASSUME IInv, IInv', RInv, NEW t \in Threads, any_lock(t) PROVE Good
  <1>1. pc[t] = "any_lock" /\ srv' = srv BY DEF any_lock, ClientOnly
  <1>2. loc[t].ret \in Open /\ pc[t] \in Client \ {"idle"} /\ pc[t] \in AnyLoop
    BY <1>1, Here DEF OpenPCs, Client, AnyLoop
  <1>3. \A o \in Objs : SameWord(o)
    <2>1. UNCHANGED word \/ word' = [word EXCEPT ![At(t)].locked = TRUE] BY DEF any_lock
    <2> QED BY <2>1, Parts, FlagsValue
  <1>4. CASE AnyDone(t, "bail")
    <2>1. "bail" \in Taken \cup {"timeout", "bail"} /\ "bail" \notin Taken BY DEF Taken
    <2> QED BY <1>1, <1>2, <1>3, <1>4, <2>1, AnyDoneGood
  <1>5. CASE Goto(t, "any_consume") /\ UNCHANGED <<call, loc>>
    <2>1. Only(t) /\ pc'[t] = "any_consume" /\ loc'[t] = loc[t] /\ call'[t] = call[t] BY <1>5, Parts, OnlyMoves
    <2> QED BY <1>1, <1>2, <1>3, <2>1, OpenGood DEF OpenPCs
  <1> QED BY <1>4, <1>5 DEF any_lock

LEMMA AnyRefreshGood == ASSUME IInv, IInv', RInv, NEW t \in Threads, any_refresh(t) PROVE Good
  <1>1. pc[t] = "any_refresh" /\ srv' = srv /\ UNCHANGED word /\ AnyDone(t, "abandoned") BY DEF any_refresh, ClientOnly
  <1>2. loc[t].ret = "abandoned" /\ pc[t] \in AnyLoop BY <1>1, Here DEF RetAt, AnyLoop
  <1>3. \A o \in Objs : SameWord(o) BY <1>1 DEF SameWord, Same
  <1>4. "abandoned" \in Taken BY DEF Taken
  <1> QED BY <1>1, <1>2, <1>3, <1>4, AnyDoneGood

(* A WaitAny, or the wait of SignalObjectAndWait, takes its one object.    *)
LEMMA WaitTakes ==
  ASSUME IInv, IInv', RInv, NoOverflow, NEW t \in Threads, NEW j \in 1..Count(t), NEW o \in Objs, o = WObj(t, j),
         Signaled(o, t), Same(word'[o], Consumed(o, t)), \A p \in Objs : p # o => SameWord(p), call' = call, Only(t),
         pc[t] # "idle", \A u \in Threads : Taking(u)' = Taking(u) /\ o \notin Taking(u), Taking(t) = {},
         \/ Plain(pc[t], loc[t].ret) = "half"
         \/ Plain(pc[t], loc[t].ret) = "pending" /\ call[t].what = "waitany",
         Plain(pc'[t], loc'[t].ret) = ConsumedStatus(o)
  PROVE  Step
  <1>1. call[t].objs \in Seq(Objs) BY Parts, CallAt
  <1>2. TakenTo(o, t, word[o], word'[o]) BY WordTaken
  <1>3. View(o) = word[o] /\ View(o)' = word'[o] BY TakingAt DEF TakingOK
  <1>4. \A p \in Objs : p # o => SameView(p) BY ViewKept
  <1>5. Status(t) = Plain(pc[t], loc[t].ret) /\ Status(t)' = ConsumedStatus(o) BY StatusAt DEF StatusOK
  <1>6. ConsumedStatus(o) = IF Mutex(o) /\ View(o).low < 0 THEN "abandoned" ELSE "success"
    BY <1>3 DEF ConsumedStatus, W!ConsumedStatus, W!Mutex, Mutex
  <1>7. \A u \in Threads : u # t => Status(u)' = Status(u) BY OthersTurn
  <1>8. Becomes(t, IF Mutex(o) /\ View(o).low < 0 THEN "abandoned" ELSE "success") BY <1>5, <1>6, <1>7 DEF Becomes, Turns
  <1>9. TakenTo(o, t, View(o), View(o)') BY <1>2, <1>3
  <1>10. Status(t) = "half" \/ (Status(t) = "pending" /\ call[t].what = "waitany") BY <1>5
  <1> QED BY <1>1, <1>4, <1>8, <1>9, <1>10, NtWaitAny

(* What a thread that holds the word of o sees is the word.                *)
LEMMA HeldView ==
  ASSUME IInv, NEW t \in Threads, pc[t] \in {"any_consume", "signal_write"}, NEW o \in Locked(t)
  PROVE  o \in Objs /\ \A u \in Threads : o \notin Taking(u)
  <1>1. o \in Objs /\ word[o].locked BY Parts, FitsNow DEF LockedOK
  <1>2. ASSUME NEW u \in Threads, o \in Taking(u) PROVE FALSE
    <2>1. pc[u] = "take" BY <1>1, <1>2, TakingAt DEF TakingOK
    <2>2. o \in Takes(u) BY <1>2, <2>1 DEF Taking
    <2>3. o \in Locked(u) BY <2>2, Parts, FitsNow
    <2> QED BY <2>1, <2>3, Parts DEF LockedOK
  <1> QED BY <1>1, <1>2

LEMMA AnyConsumeGood == ASSUME IInv, IInv', RInv, NoOverflow, NEW t \in Threads, any_consume(t) PROVE Good
  <1>0. WordTypes /\ ThreadTypes /\ loc[t] \in Locs BY Parts DEF ThreadTypes
  <1>1. pc[t] = "any_consume" /\ srv' = srv BY DEF any_consume, ClientOnly
  <1>2. /\ loc[t].ret \in Open /\ pc[t] \in Client \ {"idle"} /\ pc[t] \in AnyLoop /\ call[t].what = "waitany"
        /\ Plain(pc[t], loc[t].ret) = "pending" /\ pc[t] \notin {"queued", "served", "request", "tryall"}
    BY <1>1, Here DEF OpenPCs, Client, AnyLoop
  <1>3. PICK o \in Objs : o = At(t) BY <1>1, Parts, ObjectAt
  <1>4. loc[t].i \in 1..Count(t) /\ o = WObj(t, loc[t].i) BY <1>1, <1>3, Parts, ObjectAt
  <1>5. word[o] \in Words(o) BY <1>0 DEF WordTypes
  <1>6. CASE Signaled(o, t) /\ ~Full(o, t)
    <2> DEFINE x == Consumed(o, t)
               r == ConsumedStatus(o)
               l == [loc[t] EXCEPT !.ret = r]
    <2>1. x \in Words(o) BY <1>5, ConsumedWord DEF Like
    <2>2. r \in Taken BY DEF ConsumedStatus, W!ConsumedStatus, Taken
    <2>3. word' = [word EXCEPT ![o] = [x EXCEPT !.locked = FALSE]] /\ AnyNext(t, r)
      BY <1>3, <1>6 DEF any_consume
    <2>4. l.ret = r BY <1>0 DEF Locs
    <2> HIDE DEF x, l, r
    <2>5. Same(word'[o], x) /\ \A p \in Objs : p # o => SameWord(p)
      <3>1. [x EXCEPT !.locked = FALSE].low = x.low /\ [x EXCEPT !.locked = FALSE].high = x.high BY <2>1 DEF Words
      <3>2. word'[o] = [x EXCEPT !.locked = FALSE] /\ \A p \in Objs : p # o => word'[p] = word[p]
        BY <1>0, <2>3 DEF WordTypes
      <3> QED BY <3>1, <3>2 DEF Same, SameWord
    <2>6. /\ Only(t) /\ pc'[t] # "take" /\ call'[t] = call[t] /\ Rest(pc'[t], loc'[t].ret, call'[t].what)
          /\ Plain(pc'[t], loc'[t].ret) = r
      <3>1. CASE r = "abandoned" /\ Goto(t, "any_refresh") /\ SetLoc(t, l) /\ UNCHANGED call
        <4>1. Only(t) /\ pc'[t] = "any_refresh" /\ loc'[t].ret = r /\ call'[t] = call[t] BY <1>0, <2>4, <3>1, OnlyMoves
        <4> QED BY <3>1, <4>1 DEF Rest, RetAt, OpenPCs, Plain
      <3>2. CASE AnyDone(t, r) BY <1>0, <1>2, <2>2, <3>2, AnyDoneMoves
      <3> QED BY <2>2, <2>3, <3>1, <3>2 DEF AnyNext, Taken, l
    <2>7. \A u \in Threads : Taking(u)' = Taking(u) BY <1>1, <1>2, <2>6, ThreadView
    <2>8. o \in Locked(t) BY <1>1, <1>3 DEF Locked
    <2>9. Taking(t) = {} BY <1>1, <1>2, <2>6, ThreadView
    <2>10. \A u \in Threads : o \notin Taking(u) BY <1>1, <2>8, HeldView
    <2>11. call' = call BY <2>6, SameCalls
    <2>12. Step BY <1>1, <1>2, <1>4, <1>6, <2>5, <2>6, <2>7, <2>9, <2>10, <2>11, WaitTakes DEF x, r
    <2>13. HalvesOK' /\ \A p \in Objs : Mutex(p) => word'[p].low \in {word[p].low, t, 0} BY <1>6, <2>5, WordTaken DEF x
    <2>14. RInv' BY <1>1, <1>2, <2>6, <2>13, ThreadKeeps
    <2> QED BY <2>12, <2>14 DEF Good
  <1>7. CASE ~(Signaled(o, t) /\ ~Full(o, t))
    <2>1. PICK r \in {"bail", "timeout"} : AnyNext(t, r)
      BY <1>3, <1>7 DEF any_consume
    <2>2. \A p \in Objs : SameWord(p)
      <3>1. word' = [word EXCEPT ![o].locked = FALSE] BY <1>3, <1>7 DEF any_consume
      <3> QED BY <1>0, <3>1, FlagsValue
    <2>3. CASE Goto(t, "any_check") /\ SetLoc(t, [loc[t] EXCEPT !.i = loc[t].i + 1]) /\ UNCHANGED call
      <3> DEFINE l == [loc[t] EXCEPT !.i = loc[t].i + 1]
      <3>1. l.ret = loc[t].ret /\ SetLoc(t, l) BY <1>0, <2>3 DEF Locs
      <3> HIDE DEF l
      <3>2. Only(t) /\ pc'[t] = "any_check" /\ loc'[t].ret = loc[t].ret /\ call'[t] = call[t]
        BY <1>0, <2>3, <3>1, OnlyMoves
      <3> QED BY <1>1, <1>2, <2>2, <3>2, OpenGood DEF OpenPCs
    <2>4. CASE AnyDone(t, r)
      <3>1. r \in Taken \cup {"timeout", "bail"} /\ r \notin Taken BY DEF Taken
      <3> QED BY <1>1, <1>2, <2>2, <2>4, <3>1, AnyDoneGood
    <2> QED BY <2>1, <2>3, <2>4 DEF AnyNext
  <1> QED BY <1>6, <1>7

(* The call goes on somewhere else, still without an effect.               *)
LEMMA OpenMoves ==
  ASSUME IInv, IInv', RInv, NEW t \in Threads, srv' = srv, UNCHANGED call, pc[t] \in Client \ {"idle"}, loc[t].ret \in Open,
         \A o \in Objs : SameWord(o), NEW w \in OpenPCs \cup {"unregister", "tryall"}, NEW r \in Open,
         Goto(t, w), UNCHANGED loc \/ SetLoc(t, [loc[t] EXCEPT !.ret = r])
  PROVE  Good
  <1>0. ThreadTypes /\ loc[t] \in Locs BY Parts DEF ThreadTypes
  <1> DEFINE l == [loc[t] EXCEPT !.ret = r]
  <1>1. l.ret = r BY <1>0 DEF Locs
  <1>2. UNCHANGED loc \/ SetLoc(t, l) OBVIOUS
  <1> HIDE DEF l
  <1>3. Only(t) /\ pc'[t] = w /\ loc'[t].ret \in Open /\ call'[t] = call[t] BY <1>0, <1>1, <1>2, OnlyMoves
  <1> QED BY <1>3, OpenGood

LEMMA SleeperGood ==
  ASSUME IInv, IInv', RInv, NEW t \in Threads, wait_slot(t) \/ slot_woken(t) \/ wait_interrupted(t) \/ wait_timeout(t)
  PROVE  Good
  <1>1. pc[t] \in {"sleep", "asleep"} /\ srv' = srv /\ word' = word /\ UNCHANGED call
    BY DEF wait_slot, slot_woken, wait_interrupted, wait_timeout, Woken, GiveUp, ClientOnly
  <1>2. loc[t].ret \in Open /\ pc[t] \in Client \ {"idle"} BY <1>1, Here DEF OpenPCs, Client
  <1>3. \A o \in Objs : SameWord(o) BY <1>1 DEF SameWord, Same
  <1>4. \E w \in OpenPCs \cup {"unregister", "tryall"}, r \in Open :
          Goto(t, w) /\ (UNCHANGED loc \/ SetLoc(t, [loc[t] EXCEPT !.ret = r]))
    <2>1. CASE Goto(t, "asleep") /\ UNCHANGED loc BY <2>1 DEF OpenPCs, Open
    <2>2. CASE Goto(t, "tryall") /\ UNCHANGED loc BY <2>2 DEF OpenPCs, Open
    <2>3. CASE Goto(t, "unregister") /\ SetLoc(t, [loc[t] EXCEPT !.ret = "woken"]) BY <2>3 DEF OpenPCs, Open
    <2>4. CASE GiveUp(t, "timeout") BY <2>4 DEF GiveUp, OpenPCs, Open
    <2>5. CASE GiveUp(t, "bail") BY <2>5 DEF GiveUp, OpenPCs, Open
    <2> QED BY <2>1, <2>2, <2>3, <2>4, <2>5 DEF wait_slot, slot_woken, wait_interrupted, wait_timeout, Woken
  <1> QED BY <1>1, <1>2, <1>3, <1>4, OpenMoves

LEMMA SignalCheckGood == ASSUME IInv, IInv', RInv, NEW t \in Threads, signal_check(t) PROVE Good
  <1>0. ThreadTypes /\ loc[t] \in Locs BY Parts DEF ThreadTypes
  <1>1. pc[t] = "signal" /\ srv' = srv /\ word' = word BY DEF signal_check, ClientOnly
  <1>2. loc[t].ret \in Open /\ pc[t] \in Client \ {"idle"} BY <1>1, Here DEF OpenPCs, Client
  <1>3. \A o \in Objs : SameWord(o) BY <1>1 DEF SameWord, Same
  <1>4. CASE Fallback(t) BY <1>1, <1>2, <1>3, <1>4, FallbackGood
  <1>5. CASE ~Fallback(t)
    <2> DEFINE l == [loc[t] EXCEPT !.gens[call[t].obj] = cache_gen[call[t].obj]]
    <2>1. Goto(t, "signal_lock") /\ UNCHANGED call /\ SetLoc(t, l) BY <1>5 DEF signal_check
    <2>2. l.ret = loc[t].ret BY <1>0 DEF Locs
    <2> HIDE DEF l
    <2>3. Only(t) /\ pc'[t] = "signal_lock" /\ loc'[t].ret = loc[t].ret /\ call'[t] = call[t]
      BY <1>0, <2>1, <2>2, OnlyMoves
    <2> QED BY <1>1, <1>2, <1>3, <2>3, OpenGood DEF OpenPCs
  <1> QED BY <1>4, <1>5

LEMMA SignalLockGood == ASSUME IInv, IInv', RInv, NEW t \in Threads, signal_lock(t) PROVE Good
  <1>1. pc[t] = "signal_lock" /\ srv' = srv BY DEF signal_lock, ClientOnly
  <1>2. loc[t].ret \in Open /\ pc[t] \in Client \ {"idle"} BY <1>1, Here DEF OpenPCs, Client
  <1>3. \A o \in Objs : SameWord(o)
    <2>1. UNCHANGED word \/ word' = [word EXCEPT ![call[t].obj].locked = TRUE] BY DEF signal_lock
    <2> QED BY <2>1, Parts, FlagsValue
  <1>4. CASE Fallback(t) BY <1>1, <1>2, <1>3, <1>4, FallbackGood
  <1>5. CASE Goto(t, "signal_write") /\ UNCHANGED <<call, loc>>
    BY <1>1, <1>2, <1>3, <1>5, OpenMoves DEF OpenPCs
  <1> QED BY <1>4, <1>5 DEF signal_lock

LEMMA SignalMultiGood == ASSUME IInv, IInv', RInv, NEW t \in Threads, signal_multi(t) PROVE Good
  <1>1. pc[t] = "signal_multi" /\ srv' = srv /\ word' = word BY DEF signal_multi, ClientOnly
  <1>2. loc[t].ret = "success" /\ pc[t] \in Client \ {"idle"} BY <1>1, Here DEF RetAt, Client
  <1>3. \A o \in Objs : SameWord(o) BY <1>1 DEF SameWord, Same
  <1>4. CASE Return(t) BY <1>1, <1>2, <1>3, <1>4, ReturnGood
  <1>5. CASE Goto(t, "notify") /\ UNCHANGED <<call, loc>>
    <2>1. Only(t) /\ pc'[t] = "notify" /\ loc'[t].ret = "success" /\ call'[t] = call[t] BY <1>2, <1>5, Parts, OnlyMoves
    <2>2. Rest(pc'[t], loc'[t].ret, call'[t].what) BY <2>1 DEF Rest, RetAt, OpenPCs
    <2>3. Plain(pc'[t], loc'[t].ret) = Plain(pc[t], loc[t].ret) BY <1>1, <1>2, <2>1 DEF Plain
    <2> QED BY <1>1, <1>2, <1>3, <2>1, <2>2, <2>3, ThreadGood
  <1> QED BY <1>4, <1>5 DEF signal_multi

(* An operation on an object that nobody is taking.                        *)
LEMMA Signals ==
  ASSUME IInv, IInv', RInv, NEW t \in Threads, pc[t] # "idle", call[t].what \in {"signal", "reset", "sigwait"},
         NEW o \in Objs, o = call[t].obj, \A p \in Objs : p # o => SameWord(p), call' = call, Only(t),
         \A u \in Threads : Taking(u)' = Taking(u) /\ o \notin Taking(u), Taking(t) = {},
         Plain(pc[t], loc[t].ret) = "pending",
         IF Refused(t) THEN SameWord(o) /\ Plain(pc'[t], loc'[t].ret) = "error"
         ELSE /\ Same(word'[o], Released(t))
              /\ Plain(pc'[t], loc'[t].ret) = IF call[t].what = "sigwait" THEN "half" ELSE "success"
  PROVE  /\ Step /\ HalvesOK'
         /\ \A p \in Objs : Mutex(p) => word'[p].low \in {word[p].low, t, 0}
  <1>1. call[t] \in CallsOf[t] BY Parts DEF PlaceOK
  <1>2. word[o] \in Words(o) /\ HalfOK(o, word[o]) BY Parts DEF WordTypes, RInv, HalvesOK
  <1>3. Refused(t) <=> RefusedTo(o, t, call[t], word[o]) BY <1>2, RefusedHalf
  <1>4. View(o) = word[o] /\ View(o)' = word'[o] BY TakingAt DEF TakingOK
  <1>5. \A p \in Objs : p # o => SameView(p) BY ViewKept
  <1>6. Status(t) = "pending" /\ Status(t)' = Plain(pc'[t], loc'[t].ret) BY StatusAt DEF StatusOK
  <1>7. \A u \in Threads : u # t => Status(u)' = Status(u) BY OthersTurn
  <1>8. Becomes(t, Plain(pc'[t], loc'[t].ret)) BY <1>6, <1>7 DEF Becomes, Turns
  <1>9. HalfOK(o, View(o)) BY <1>2, <1>4
  <1>10. CASE Refused(t)
    <2>1. SameView(o) BY <1>4, <1>10 DEF SameView, SameWord, Same
    <2>2. Becomes(t, "error") BY <1>8, <1>10
    <2>3. RefusedTo(o, t, call[t], View(o)) BY <1>3, <1>4, <1>10
    <2>4. Step BY <1>1, <1>5, <1>6, <1>9, <2>1, <2>2, <2>3, NtSignal
    <2>5. \A p \in Objs : SameWord(p) BY <1>10
    <2>6. HalvesOK' BY <2>5, HalvesSame DEF RInv
    <2> QED BY <2>4, <2>5, <2>6 DEF SameWord, Same
  <1>11. CASE ~Refused(t)
    <2>1. HalfOK(o, Released(t)) /\ ReleasedTo(o, t, call[t], word[o], Released(t)) BY <1>1, <1>2, <1>11, ReleasedHalf
    <2>2. HalfOK(o, word'[o]) /\ ReleasedTo(o, t, call[t], word[o], word'[o])
      BY <1>11, <2>1, SameHalf DEF ReleasedTo, Same
    <2>3. ReleasedTo(o, t, call[t], View(o), View(o)') BY <1>4, <2>2
    <2>4. Becomes(t, IF call[t].what = "sigwait" THEN "half" ELSE "success") BY <1>8, <1>11
    <2>5. ~RefusedTo(o, t, call[t], View(o)) BY <1>3, <1>4, <1>11
    <2>6. Step BY <1>1, <1>5, <1>6, <1>9, <2>3, <2>4, <2>5, NtSignal
    <2>7. \A p \in Objs : HalfOK(p, word'[p]) BY <2>2, SameHalf DEF RInv, HalvesOK, SameWord
    <2>8. \A p \in Objs : Mutex(p) => word'[p].low \in {word[p].low, t, 0} BY <2>2 DEF ReleasedTo, SameWord, Same
    <2> QED BY <2>6, <2>7, <2>8 DEF HalvesOK, HalfOK
  <1> QED BY <1>10, <1>11

LEMMA SignalWriteGood == ASSUME IInv, IInv', RInv, NEW t \in Threads, signal_write(t) PROVE Good
  <1>0. WordTypes /\ ThreadTypes /\ loc[t] \in Locs BY Parts DEF ThreadTypes
  <1>1. pc[t] = "signal_write" /\ srv' = srv BY DEF signal_write, ClientOnly
  <1>2. /\ pc[t] \in Client \ {"idle"} /\ Plain(pc[t], loc[t].ret) = "pending" /\ call[t].what \in {"signal", "reset"}
        /\ pc[t] \notin {"queued", "served", "request", "tryall"}
    BY <1>1, Here, SignalAt DEF OpenPCs, Client, SignalPCs
  <1>3. PICK o \in Objs : o = call[t].obj BY <1>1, SignalAt DEF SignalPCs
  <1>4. call[t] \in Call /\ word[o] \in Words(o) BY <1>1, <1>3, SignalAt DEF SignalPCs
  <1> DEFINE y == Released(t)
             e == [loc[t] EXCEPT !.ret = "error"]
             s == [loc[t] EXCEPT !.ret = "success"]
  <1>5. y \in Words(o) BY <1>3, <1>4, ReleasedWord DEF Like
  <1>6. e.ret = "error" /\ s.ret = "success" BY <1>0 DEF Locs
  <1>7. \/ Refused(t) /\ word' = [word EXCEPT ![o].locked = FALSE] /\ Goto(t, "return") /\ SetLoc(t, e) /\ UNCHANGED call
        \/ /\ ~Refused(t) /\ word' = [word EXCEPT ![o] = [y EXCEPT !.locked = FALSE]]
           /\ Goto(t, "signal_multi") \/ Goto(t, "return")
           /\ SetLoc(t, s) /\ UNCHANGED call
    BY <1>3 DEF signal_write, Finish
  <1> HIDE DEF y, e, s
  <1>8. /\ Only(t) /\ call'[t] = call[t]
        /\ \/ Refused(t) /\ pc'[t] = "return" /\ loc'[t].ret = "error"
           \/ ~Refused(t) /\ pc'[t] \in {"signal_multi", "return"} /\ loc'[t].ret = "success"
    BY <1>0, <1>6, <1>7, OnlyMoves
  <1>9. /\ \A p \in Objs : p # o => SameWord(p)
        /\ Refused(t) => SameWord(o)
        /\ ~Refused(t) => Same(word'[o], y)
    <2>1. CASE Refused(t)
      <3>1. word' = [word EXCEPT ![o].locked = FALSE] BY <1>7, <2>1
      <3>2. \A p \in Objs : SameWord(p) BY <1>0, <3>1, FlagsValue
      <3> QED BY <2>1, <3>2
    <2>2. CASE ~Refused(t)
      <3>1. word' = [word EXCEPT ![o] = [y EXCEPT !.locked = FALSE]] BY <1>7, <2>2
      <3>2. [y EXCEPT !.locked = FALSE].low = y.low /\ [y EXCEPT !.locked = FALSE].high = y.high BY <1>5 DEF Words
      <3>3. word'[o] = [y EXCEPT !.locked = FALSE] /\ \A p \in Objs : p # o => word'[p] = word[p]
        BY <1>0, <3>1 DEF WordTypes
      <3> QED BY <2>2, <3>2, <3>3 DEF Same, SameWord
    <2> QED BY <2>1, <2>2
  <1>10. \A u \in Threads : Taking(u)' = Taking(u) BY <1>1, <1>2, <1>8, ThreadView
  <1>11. Taking(t) = {} BY <1>1, <1>2, <1>8, ThreadView
  <1>12. o \in Locked(t) BY <1>1, <1>3 DEF Locked
  <1>13. \A u \in Threads : o \notin Taking(u) BY <1>1, <1>12, HeldView
  <1>14. call' = call BY <1>8, SameCalls
  <1>15. Plain(pc'[t], loc'[t].ret) = IF Refused(t) THEN "error" ELSE "success" BY <1>8 DEF Plain
  <1>16. /\ Step /\ HalvesOK'
         /\ \A p \in Objs : Mutex(p) => word'[p].low \in {word[p].low, t, 0}
    BY <1>2, <1>3, <1>8, <1>9, <1>10, <1>11, <1>13, <1>14, <1>15, Signals DEF y
  <1>17. Rest(pc'[t], loc'[t].ret, call'[t].what) BY <1>8 DEF Rest, RetAt, OpenPCs, Taken
  <1>18. RInv' BY <1>1, <1>2, <1>8, <1>16, <1>17, ThreadKeeps
  <1> QED BY <1>16, <1>18 DEF Good

LEMMA ThreadsGood ==
  ASSUME IInv, IInv', RInv, NoOverflow, NEW t \in Threads,
         Invoke(t) \/ ThreadStep(t) \/ wait_timeout(t) \/ wait_interrupted(t)
  PROVE  Good
  BY InvokeGood, ReturnedGood, GatherGood, LockAllGood, EvalAllGood, TakeAllGood, UnlockAllGood, RefreshAllGood,
     AnyCheckGood, AnyLockGood, AnyConsumeGood, AnyRefreshGood, SleeperGood,
     SignalCheckGood, SignalLockGood, SignalWriteGood, SignalMultiGood
  DEF ThreadStep

-----------------------------------------------------------------------------
(* Steps of wineserver.                                                    *)

(* The request of u has had its effect.                                    *)
Pursued(u, s) == s.req = u /\ (s.pos > 0 \/ s.pc \in {"multi", "scan", "done"})

(* Between the places s and z of wineserver nothing is done for u.         *)
Idle(u, s) == /\ ~(s.req = u /\ s.pc \in {"enqueue", "signal", "take", "unguard"})
              /\ ~(s.cur = u /\ s.pc \in {"satisfy", "remove"})
Apart(u, s, z) == Idle(u, s) /\ Idle(u, z) /\ (Pursued(u, s) <=> Pursued(u, z))

LEMMA ApartHanded ==
  ASSUME NEW u, NEW w, NEW r, NEW a, NEW s, NEW z, HandedAt(u, w, r, a, s), Apart(u, s, z)
  PROVE  HandedAt(u, w, r, a, z)
  BY DEF HandedAt, Apart, Idle, Pursued

(* Only t's request is worked on, or its wait while an object is signaled. *)
LEMMA OneServed ==
  ASSUME NEW t \in Threads, NEW s, NEW z,
         \/ s.req \in {t, 0} /\ z.req \in {t, 0}
         \/ s.req = z.req /\ s.pos > 0 /\ z.pos > 0 /\ {s.pc, z.pc} \subseteq {"check", "satisfy", "remove", "scan"}
         \/ s.pos = 0 /\ z.pos = 0 /\ {s.pc, z.pc} \subseteq {"check", "satisfy", "remove", "idle"},
         s.pc \in {"satisfy", "remove"} => s.cur = t,
         z.pc \in {"satisfy", "remove"} => z.cur = t
  PROVE  \A u \in Threads : u # t => Apart(u, s, z)
  <1>1. 0 \notin Threads BY ThreadsAssumption
  <1> QED BY <1>1 DEF Apart, Idle, Pursued

LEMMA RequestKeeps ==
  ASSUME RInv, HalvesOK', AbandonOK', IdleOK', NEW t \in Threads, Only(t),
         RetAt(pc'[t], loc'[t].ret, call'[t].what), HandedAt(t, pc'[t], loc'[t].ret, call'[t].what, srv'),
         \A u \in Threads : u # t => Apart(u, srv, srv')
  PROVE  RInv'
  <1>1. RetOK' BY DEF RInv, RetOK, Only
  <1>2. \A u \in Threads : HandedAt(u, pc[u], loc[u].ret, call[u].what, srv) BY DEF RInv, HandedOK
  <1>3. \A u \in Threads : u # t => HandedAt(u, pc'[u], loc'[u].ret, call'[u].what, srv')
    BY <1>2, ApartHanded DEF Only
  <1>4. HandedOK' BY <1>3 DEF HandedOK
  <1> QED BY <1>1, <1>4 DEF RInv

(* abandon_mutexes stays where it is.                                      *)
LEMMA AbandonKept ==
  ASSUME IInv, RInv,
         \/ srv'.pos = 0 /\ srv'.pc \notin SignalingPCs
         \/ call'[srv'.req].what # "exit"
         \/ /\ srv'.req = srv.req /\ srv'.obj = srv.obj /\ (srv.pos > 0 \/ srv.pc \in SignalingPCs)
            /\ call'[srv.req] = call[srv.req]
            /\ \A o \in Objs : Mutex(o) => word'[o].low = word[o].low \/ word'[o].low = 0 \/ word'[o].low # srv.req
  PROVE  AbandonOK'
  <1>1. CASE srv'.pos = 0 /\ srv'.pc \notin SignalingPCs BY <1>1 DEF AbandonOK
  <1>2. CASE /\ srv'.req = srv.req /\ srv'.obj = srv.obj /\ (srv.pos > 0 \/ srv.pc \in SignalingPCs)
             /\ call'[srv.req] = call[srv.req]
             /\ \A o \in Objs : Mutex(o) => word'[o].low = word[o].low \/ word'[o].low = 0 \/ word'[o].low # srv.req
    <2>1. srv.req \in Threads BY <1>2, Parts DEF ServedOK, SignalServed, Asking
    <2>2. srv.req # 0 BY <2>1, ThreadsAssumption
    <2> QED BY <1>2, <2>2 DEF RInv, AbandonOK, Mutex
  <1>3. CASE call'[srv'.req].what # "exit" BY <1>3 DEF AbandonOK
  <1> QED BY <1>1, <1>2, <1>3

(* A step that touches no count and no owner.                              *)
LEMMA ServerGood ==
  ASSUME IInv, IInv', RInv, NEW t \in Threads, Only(t), \A o \in Objs : SameWord(o), pc[t] \notin {"idle", "dead"},
         \A u \in Threads : Taking(u)' = Taking(u), Taking(t) = {},
         \/ call'[t] = call[t] /\ Plain(pc'[t], loc'[t].ret) = Plain(pc[t], loc[t].ret)
         \/ /\ pc'[t] = "idle"
            /\ loc[t].ret \in {"success", "abandoned", "error", "half"} \/ call[t].what \in {"waitall", "waitany"},
         RetAt(pc'[t], loc'[t].ret, call'[t].what), HandedAt(t, pc'[t], loc'[t].ret, call'[t].what, srv'),
         \A u \in Threads : u # t => Apart(u, srv, srv'),
         \/ srv'.pos = 0 /\ srv'.pc \notin SignalingPCs
         \/ call'[srv'.req].what # "exit"
         \/ /\ srv'.req = srv.req /\ srv'.obj = srv.obj /\ (srv.pos > 0 \/ srv.pc \in SignalingPCs)
            /\ call'[srv.req] = call[srv.req],
         srv'.pc = "idle" => srv' = Srv0
  PROVE  Good
  <1>1. Status(t) = Plain(pc[t], loc[t].ret) /\ Status(t)' = Plain(pc'[t], loc'[t].ret) BY StatusAt DEF StatusOK
  <1>2. \A u \in Threads : u # t => Status(u)' = Status(u) BY OthersTurn
  <1>3. \A o \in Objs : SameView(o) BY ViewKept
  <1>4. HalvesOK' BY HalvesSame DEF RInv
  <1>5. \A o \in Objs : word'[o].low = word[o].low BY DEF SameWord, Same
  <1>6. AbandonOK' BY <1>5, AbandonKept
  <1>7. IdleOK' BY DEF IdleOK
  <1>8. RInv' BY <1>4, <1>6, <1>7, RequestKeeps
  <1>9. CASE call'[t] = call[t] /\ Plain(pc'[t], loc'[t].ret) = Plain(pc[t], loc[t].ret)
    <2>1. call' = call BY <1>9, SameCalls
    <2>2. \A u \in Threads : Status(u)' = Status(u) BY <1>1, <1>2, <1>9
    <2>3. Step BY <1>3, <2>1, <2>2, NtQuiet
    <2> QED BY <1>8, <2>3 DEF Good
  <1>10. CASE /\ pc'[t] = "idle"
              /\ loc[t].ret \in {"success", "abandoned", "error", "half"} \/ call[t].what \in {"waitall", "waitany"}
    <2>1. Turns(t, "idle") BY <1>1, <1>2, <1>10 DEF Turns, Plain
    <2>2. MayEnd(t) BY <1>1, <1>10 DEF MayEnd, Plain
    <2>3. Step BY <1>3, <2>1, <2>2, NtEnd DEF Only
    <2> QED BY <1>8, <2>3 DEF Good
  <1> QED BY <1>9, <1>10

(* Nobody takes anything while wineserver is elsewhere.                    *)
LEMMA TakingElsewhere ==
  ASSUME IInv, NEW t \in Threads, Only(t), pc[t] # "take", pc'[t] # "take",
         srv.pc \notin {"satisfy", "take"}, srv'.pc \notin {"satisfy", "take"}
  PROVE  (\A u \in Threads : Taking(u)' = Taking(u)) /\ Taking(t) = {}
  <1>1. ServerStill BY DEF ServerStill
  <1>2. ServerTakes = {} BY DEF ServerTakes
  <1>3. Taking(t)' = Taking(t) BY <1>1, <1>2, TakingStill
  <1>4. \A u \in Threads : u # t => Taking(u)' = Taking(u) BY <1>1, TakingStill DEF Only
  <1> QED BY <1>2, <1>3, <1>4 DEF Taking

LEMMA FreeView ==
  ASSUME IInv, NEW o \in Objs, ~word[o].locked, srv.pc \notin {"satisfy", "take"} \/ call[ServerTaker].what # "waitall"
  PROVE  \A u \in Threads : o \notin Taking(u)
  <1> SUFFICES ASSUME NEW u \in Threads, o \in Taking(u) PROVE FALSE OBVIOUS
  <1>1. pc[u] = "take"
    <2>1. ServerTakes = {} \/ call[ServerTaker].what # "waitall" BY DEF ServerTakes
    <2> QED BY <2>1 DEF Taking
  <1>2. o \in Takes(u) BY <1>1 DEF Taking
  <1>3. word[o].locked BY <1>2, Parts, FitsNow DEF LockedOK
  <1> QED BY <1>3

(* One request, and no object is being taken.                              *)
LEMMA RequestGood ==
  ASSUME IInv, IInv', RInv, NEW t \in Threads, Only(t), \A o \in Objs : SameWord(o),
         pc[t] \notin {"idle", "dead", "take"}, pc'[t] # "take",
         srv.pc \notin {"satisfy", "take"}, srv'.pc \notin {"satisfy", "take"},
         srv.req \in {t, 0} /\ srv'.req \in {t, 0}, srv.pc = "remove" => srv.cur = t, srv'.pc = "remove" => srv'.cur = t,
         \/ call'[t] = call[t] /\ Plain(pc'[t], loc'[t].ret) = Plain(pc[t], loc[t].ret)
         \/ /\ pc'[t] = "idle"
            /\ loc[t].ret \in {"success", "abandoned", "error", "half"} \/ call[t].what \in {"waitall", "waitany"},
         RetAt(pc'[t], loc'[t].ret, call'[t].what), HandedAt(t, pc'[t], loc'[t].ret, call'[t].what, srv'),
         \/ srv'.pos = 0 /\ srv'.pc \notin SignalingPCs
         \/ call'[srv'.req].what # "exit"
         \/ /\ srv'.req = srv.req /\ srv'.obj = srv.obj /\ (srv.pos > 0 \/ srv.pc \in SignalingPCs)
            /\ call'[srv.req] = call[srv.req],
         srv'.pc = "idle" => srv' = Srv0
  PROVE  Good
  <1>1. (\A u \in Threads : Taking(u)' = Taking(u)) /\ Taking(t) = {} BY TakingElsewhere
  <1>2. \A u \in Threads : u # t => Apart(u, srv, srv') BY OneServed
  <1> QED BY <1>1, <1>2, ServerGood

LEMMA StaysGood ==
  ASSUME IInv, IInv', RInv, NEW t \in Threads, UNCHANGED <<pc, loc, call>>, \A o \in Objs : SameWord(o),
         pc[t] \notin {"idle", "dead", "take"},
         srv.pc \notin {"satisfy", "take"}, srv'.pc \notin {"satisfy", "take"},
         srv.req \in {t, 0} /\ srv'.req \in {t, 0}, srv.pc = "remove" => srv.cur = t, srv'.pc = "remove" => srv'.cur = t,
         HandedAt(t, pc[t], loc[t].ret, call[t].what, srv'),
         \/ srv'.pos = 0 /\ srv'.pc \notin SignalingPCs
         \/ call[srv'.req].what # "exit"
         \/ srv'.req = srv.req /\ srv'.obj = srv.obj /\ (srv.pos > 0 \/ srv.pc \in SignalingPCs),
         srv'.pc = "idle" => srv' = Srv0
  PROVE  Good
  <1>1. Only(t) BY DEF Only
  <1>2. RetAt(pc'[t], loc'[t].ret, call'[t].what) BY Here
  <1>3. /\ pc'[t] # "take" /\ call'[t] = call[t] /\ Plain(pc'[t], loc'[t].ret) = Plain(pc[t], loc[t].ret)
        /\ HandedAt(t, pc'[t], loc'[t].ret, call'[t].what, srv') /\ call'[srv.req] = call[srv.req]
    OBVIOUS
  <1>4. call'[srv'.req].what = call[srv'.req].what OBVIOUS
  <1> QED BY <1>1, <1>2, <1>3, <1>4, RequestGood

LEMMA HandedHere ==
  ASSUME RInv, NEW t \in Threads
  PROVE  /\ HandedAt(t, pc[t], loc[t].ret, call[t].what, srv)
         /\ srv.pc = "idle" => srv = Srv0
  BY DEF RInv, HandedOK, IdleOK

(* A request is taken up.                                                  *)
LEMMA SelectOnGood == ASSUME IInv, IInv', RInv, NEW t \in Threads, select_on(t) PROVE Good
  <1>1. /\ srv.pc = "idle" /\ pc[t] = "request" /\ call[t].what \in Waits /\ Goto(t, "queued") /\ UNCHANGED <<word, call, loc>>
        /\ srv' = [Srv0 EXCEPT !.pc = "enqueue", !.req = t, !.cur = t]
    BY DEF select_on
  <1>2. srv = Srv0 /\ HandedAt(t, pc[t], loc[t].ret, call[t].what, Srv0) BY <1>1, HandedHere
  <1>3. /\ srv.req = 0 /\ srv.pos = 0 /\ srv'.pc = "enqueue" /\ srv'.req = t /\ srv'.cur = t /\ srv'.pos = 0
        /\ Srv0.pc = "idle" /\ Srv0.req = 0 /\ Srv0.pos = 0
    BY <1>1, <1>2 DEF Srv0
  <1>4. Only(t) /\ pc'[t] = "queued" /\ loc'[t] = loc[t] /\ call'[t] = call[t] BY <1>1, Parts, OnlyMoves
  <1>5. loc[t].ret \in Open BY <1>1, <1>2, <1>3 DEF HandedAt
  <1>6. \A o \in Objs : SameWord(o) BY <1>1 DEF SameWord, Same
  <1>7. RetAt(pc'[t], loc'[t].ret, call'[t].what) BY <1>4 DEF RetAt, OpenPCs
  <1>8. HandedAt(t, pc'[t], loc'[t].ret, call'[t].what, srv') BY <1>3, <1>4, <1>5 DEF HandedAt
  <1>9. Plain(pc'[t], loc'[t].ret) = Plain(pc[t], loc[t].ret) BY <1>1, <1>4 DEF Plain
  <1> QED BY <1>1, <1>3, <1>4, <1>6, <1>7, <1>8, <1>9, RequestGood DEF SignalingPCs

LEMMA StartSlotGood == ASSUME IInv, IInv', RInv, NEW t \in Threads, start_slot_request(t) PROVE Good
  <1>1. /\ srv.pc = "idle" /\ pc[t] \in {"register", "unregister", "tryall"} /\ UNCHANGED <<word, pc, call, loc>>
        /\ srv'.req = t /\ srv'.pc \in {"arm", "guard", "unregister"} /\ srv'.pos = 0 /\ srv'.cur = 0
    BY DEF start_slot_request, Srv0, client
  <1>2. srv = Srv0 /\ HandedAt(t, pc[t], loc[t].ret, call[t].what, Srv0) BY <1>1, HandedHere
  <1>3. srv.req = 0 /\ srv.pos = 0 /\ Srv0.pc = "idle" BY <1>2 DEF Srv0
  <1>4. HandedAt(t, pc[t], loc[t].ret, call[t].what, srv') BY <1>1, <1>2, <1>3 DEF HandedAt
  <1>5. \A o \in Objs : SameWord(o) BY <1>1 DEF SameWord, Same
  <1> QED BY <1>1, <1>3, <1>4, <1>5, StaysGood DEF SignalingPCs

LEMMA ThreadTimeoutGood == ASSUME IInv, IInv', RInv, NEW t \in Threads, thread_timeout(t) PROVE Good
  <1>1. /\ srv.pc = "idle" /\ pc[t] = "queued" /\ UNCHANGED <<word, pc, call, loc>>
        /\ srv'.req = 0 /\ srv'.pc = "remove" /\ srv'.pos = 0 /\ srv'.cur = t
    BY DEF thread_timeout, Srv0, client
  <1>2. srv = Srv0 /\ HandedAt(t, pc[t], loc[t].ret, call[t].what, Srv0) BY <1>1, HandedHere
  <1>3. srv.req = 0 /\ srv.pos = 0 /\ Srv0.pc = "idle" /\ Srv0.req = 0 BY <1>2 DEF Srv0
  <1>4. t # 0 BY ThreadsAssumption
  <1>5. HandedAt(t, pc[t], loc[t].ret, call[t].what, srv') BY <1>1, <1>2, <1>3, <1>4 DEF HandedAt
  <1>6. \A o \in Objs : SameWord(o) BY <1>1 DEF SameWord, Same
  <1> QED BY <1>1, <1>3, <1>5, <1>6, StaysGood DEF SignalingPCs

LEMMA NotifyGood == ASSUME IInv, IInv', RInv, NEW t \in Threads, wake_wfusync_waiters(t) PROVE Good
  <1>1. pc[t] = "notify" /\ Return(t) /\ srv' = srv /\ word' = word BY DEF wake_wfusync_waiters
  <1>2. loc[t].ret = "success" /\ pc[t] \in Client \ {"idle"} BY <1>1, Here DEF RetAt, Client
  <1>3. \A o \in Objs : SameWord(o) BY <1>1 DEF SameWord, Same
  <1> QED BY <1>1, <1>2, <1>3, ReturnGood

LEMMA StartRequestGood == ASSUME IInv, IInv', RInv, NEW t \in Threads, start_request(t) PROVE Good
  <1>1. /\ srv.pc = "idle" /\ pc[t] = "request" /\ call[t].what \in {"signal", "reset", "exit"} /\ UNCHANGED <<word, pc, call, loc>>
        /\ srv'.req = t /\ srv'.pos = 0 /\ srv'.cur = 0
        /\ \/ call[t].what = "exit" /\ srv'.pc = "abandon" /\ srv'.obj = 0
           \/ call[t].what # "exit" /\ srv'.pc = "signal"
    BY DEF start_request, Srv0, client
  <1>2. srv = Srv0 /\ HandedAt(t, pc[t], loc[t].ret, call[t].what, Srv0) BY <1>1, HandedHere
  <1>3. srv.req = 0 /\ srv.pos = 0 /\ srv.cur = 0 /\ Srv0.pc = "idle" /\ Srv0.req = 0 /\ Srv0.pos = 0 BY <1>2 DEF Srv0
  <1>4. loc[t].ret \in Open BY <1>1, <1>2, <1>3 DEF HandedAt
  <1>5. HandedAt(t, pc[t], loc[t].ret, call[t].what, srv') BY <1>1, <1>4 DEF HandedAt
  <1>6. \A o \in Objs : SameWord(o) BY <1>1 DEF SameWord, Same
  <1>7. Only(t) /\ pc[t] # "take" /\ pc'[t] # "take" /\ srv.pc \notin {"satisfy", "take"} /\ srv'.pc \notin {"satisfy", "take"}
    BY <1>1 DEF Only
  <1>8. (\A u \in Threads : Taking(u)' = Taking(u)) BY <1>7, TakingElsewhere
  <1>9. \A u \in Threads : u # t => Apart(u, srv, srv') BY <1>1, <1>3, OneServed
  <1>10. \A u \in Threads : Status(u)' = Status(u)
    BY <1>1, <1>6, <1>8, StatusKept, TakingAt DEF TakingOK
  <1>11. \A o \in Objs : SameView(o) BY <1>6, <1>8, ViewKept
  <1>12. Step BY <1>1, <1>10, <1>11, NtQuiet
  <1>13. AbandonOK'
    <2>1. \A o \in Objs : o \in Nat \ {0} BY ObjsAssumption
    <2>2. \A o \in Objs : ~(o <= 0) BY <2>1
    <2> QED BY <1>1, <2>2 DEF AbandonOK, SignalingPCs
  <1>14. RInv'
    <2>1. HalvesOK' BY <1>6, HalvesSame DEF RInv
    <2>2. IdleOK' BY <1>1 DEF IdleOK
    <2>3. RetAt(pc'[t], loc'[t].ret, call'[t].what) /\ HandedAt(t, pc'[t], loc'[t].ret, call'[t].what, srv') BY <1>1, <1>5, Here
    <2> QED BY <1>7, <1>9, <1>13, <2>1, <2>2, <2>3, RequestKeeps
  <1> QED BY <1>12, <1>14 DEF Good

LEMMA EnqueueGood == ASSUME IInv, IInv', RInv, enqueue PROVE Good
  <1>1. PICK t \in Threads : t = srv.cur /\ srv.req = t /\ srv.pc = "enqueue" /\ srv.pos = 0 /\ pc[t] = "queued" /\ srv \in Srvs
    BY Parts, WaiterAt DEF enqueue, WaitPCs, ServedOK, WaitServed
  <1>2. UNCHANGED <<pc, loc, call>> BY DEF enqueue, client
  <1>3. \A o \in Objs : SameWord(o)
    <2>1. word' = [word EXCEPT ![WObj(t, srv.i)].server = TRUE] BY <1>1 DEF enqueue
    <2> QED BY <2>1, Parts, FlagsValue
  <1>4. /\ srv'.req = t /\ srv'.cur = t /\ srv'.pos = 0
        /\ \/ srv'.pc = "enqueue"
           \/ srv'.pc = "signal" /\ call[t].what = "sigwait"
           \/ srv'.pc = "check" /\ call[t].what # "sigwait"
    <2>1. \/ srv' = [srv EXCEPT !.i = srv.i + 1]
          \/ /\ call[t].what = "sigwait"
             /\ srv' = [srv EXCEPT !.pc = "signal", !.obj = call[t].obj, !.max = MaxWakes(call[t].obj, 1)]
          \/ call[t].what # "sigwait" /\ srv' = [srv EXCEPT !.pc = "check", !.i = 1]
      BY <1>1 DEF enqueue
    <2> QED BY <1>1, <2>1 DEF Srvs
  <1>5. HandedAt(t, pc[t], loc[t].ret, call[t].what, srv) BY HandedHere
  <1>6. loc[t].ret \in Open BY <1>1, <1>5 DEF HandedAt
  <1>7. HandedAt(t, pc[t], loc[t].ret, call[t].what, srv') BY <1>1, <1>4, <1>6 DEF HandedAt
  <1>8. (srv'.pos = 0 /\ srv'.pc \notin SignalingPCs) \/ call[srv'.req].what # "exit" BY <1>4 DEF SignalingPCs
  <1> QED BY <1>1, <1>2, <1>3, <1>4, <1>7, <1>8, StaysGood

(* Requests about slots.                                                   *)
LEMMA SlotRet ==
  ASSUME IInv, RInv, srv.pc \in SlotPCs
  PROVE  LET t == srv.req IN
         /\ t \in Threads /\ pc[t] \in {"register", "unregister", "tryall"} /\ call[t].what \in {"waitall", "waitany"}
         /\ srv.pos = 0 /\ srv \in Srvs
         /\ srv.pc \notin {"take", "unguard"} /\ pc[t] # "unregister" => loc[t].ret \in Open
         /\ loc[t].ret \in Open \cup Taken
         /\ srv.pc = "unguard" /\ srv.ret # "success" => loc[t].ret \in Open
         /\ srv.pc = "unguard" /\ srv.ret = "success" => loc[t].ret \in Taken
  <1>1. PICK t \in Threads : t = srv.req /\ pc[t] \in {"register", "unregister", "tryall"}
    BY SlotAt
  <1>2. HandedAt(t, pc[t], loc[t].ret, call[t].what, srv) BY HandedHere
  <1>3. pc[t] = "tryall" =>
          loc[t].ret \in IF srv.pc = "unguard" /\ srv.ret = "success" THEN Taken
                         ELSE IF srv.pc = "take" THEN Open \cup Taken ELSE Open
    BY <1>1, <1>2 DEF HandedAt
  <1>4. /\ pc[t] = "register" => loc[t].ret \in Open
        /\ pc[t] = "unregister" => loc[t].ret \in Open \cup Taken
    BY Here DEF OpenPCs, RetAt
  <1>5. srv.pc = "unguard" => pc[t] = "tryall" BY <1>1, TryAt DEF TryPCs
  <1>6. call[t].what \in {"waitall", "waitany"} /\ srv.pos = 0 /\ srv \in Srvs BY <1>1, SlotAt
  <1> QED BY <1>1, <1>3, <1>4, <1>5, <1>6

LEMMA SlotStays ==
  ASSUME IInv, IInv', RInv, srv.pc \in SlotPCs \ {"take"}, UNCHANGED <<pc, loc, call>>, \A o \in Objs : SameWord(o),
         srv'.req = srv.req, srv'.pos = 0, srv'.pc \in SlotPCs \ {"take"},
         \/ srv.pc # "unguard" /\ (srv'.pc = "unguard" => srv'.ret # "success")
         \/ srv.pc = "unguard" /\ srv'.ret = srv.ret /\ (srv'.pc # "unguard" => srv.ret # "success")
  PROVE  Good
  <1>1. PICK t \in Threads : t = srv.req BY SlotRet
  <1>2. pc[t] \in {"register", "unregister", "tryall"} BY <1>1, SlotRet
  <1>4. /\ srv.pc \notin {"take", "unguard"} /\ pc[t] # "unregister" => loc[t].ret \in Open
        /\ srv.pc = "unguard" /\ srv.ret # "success" => loc[t].ret \in Open
        /\ srv.pc = "unguard" /\ srv.ret = "success" => loc[t].ret \in Taken
    BY <1>1, SlotRet
  <1>5. pc[t] = "tryall" =>
          loc[t].ret \in IF srv'.pc = "unguard" /\ srv'.ret = "success" THEN Taken ELSE Open
    <2>1. CASE srv.pc = "unguard" BY <1>4, <2>1
    <2>2. CASE srv.pc # "unguard"
      <3>1. srv.pc \notin {"take", "unguard"} BY <2>2
      <3>2. ~(srv'.pc = "unguard" /\ srv'.ret = "success") BY <2>2
      <3> QED BY <1>4, <3>1, <3>2
    <2> QED BY <2>1, <2>2
  <1>3. HandedAt(t, pc[t], loc[t].ret, call[t].what, srv') BY <1>1, <1>2, <1>5 DEF HandedAt
  <1> QED BY <1>1, <1>2, <1>3, StaysGood DEF SlotPCs, SignalingPCs

LEMMA SlotEnds ==
  ASSUME IInv, IInv', RInv, srv.pc \in SlotPCs \ {"take"}, UNCHANGED word, srv' = Srv0, NEW t \in Threads, t = srv.req,
         \/ Return(t)
         \/ Fallback(t) /\ loc[t].ret \in Open
         \/ /\ Only(t) /\ call'[t] = call[t] /\ Rest(pc'[t], loc'[t].ret, call'[t].what) /\ pc'[t] # "take"
            /\ Plain(pc'[t], loc'[t].ret) = Plain(pc[t], loc[t].ret)
  PROVE  Good
  <1>1. /\ pc[t] \in {"register", "unregister", "tryall"} /\ call[t].what \in {"waitall", "waitany"}
        /\ srv.pc \notin {"satisfy", "take", "remove"}
    BY SlotRet DEF SlotPCs
  <1>2. srv'.req = 0 /\ srv'.pc = "idle" /\ srv'.pos = 0 /\ Srv0.pos = 0 /\ Srv0.pc = "idle" BY DEF Srv0
  <1>3. \A o \in Objs : SameWord(o) BY DEF SameWord, Same
  <1>4. CASE Return(t)
    <2>1. Only(t) /\ pc'[t] = "idle" BY <1>4, Parts, OnlyMoves
    <2>2. RetAt(pc'[t], loc'[t].ret, call'[t].what) /\ HandedAt(t, pc'[t], loc'[t].ret, call'[t].what, srv')
      BY <2>1 DEF RetAt, OpenPCs, HandedAt
    <2> QED BY <1>1, <1>2, <1>3, <2>1, <2>2, RequestGood DEF SignalingPCs
  <1>5. ASSUME Only(t), call'[t] = call[t], Rest(pc'[t], loc'[t].ret, call'[t].what), pc'[t] # "take",
               Plain(pc'[t], loc'[t].ret) = Plain(pc[t], loc[t].ret)
        PROVE  Good
    <2>1. RetAt(pc'[t], loc'[t].ret, call'[t].what) BY <1>5 DEF Rest
    <2>2. HandedAt(t, pc'[t], loc'[t].ret, call'[t].what, srv') BY <1>2, <1>5, RestHanded DEF SignalingPCs, TryPCs
    <2> QED BY <1>1, <1>2, <1>3, <1>5, <2>1, <2>2, RequestGood DEF SignalingPCs
  <1>6. CASE Fallback(t) /\ loc[t].ret \in Open
    <2>1. /\ Only(t) /\ pc'[t] \in {"gather", "request"} /\ call'[t] = call[t]
          /\ Rest(pc'[t], loc'[t].ret, call'[t].what) /\ Plain(pc'[t], loc'[t].ret) = "pending"
      BY <1>6, Parts, FallbackMoves
    <2>2. Plain(pc[t], loc[t].ret) = "pending" BY <1>1, <1>6 DEF Plain, Open
    <2> QED BY <1>5, <2>1, <2>2
  <1> QED BY <1>4, <1>5, <1>6

LEMMA SlotStepsGood ==
  ASSUME IInv, IInv', RInv, arm_slot \/ add_multi_waiter \/ remove_multi_waiter
  PROVE  Good
  <1>1. srv.pc \in SlotPCs \ {"take", "unguard"} /\ UNCHANGED <<pc, loc, call>>
    BY DEF arm_slot, add_multi_waiter, remove_multi_waiter, client, SlotPCs
  <1>2. srv \in Srvs /\ srv.pos = 0 BY <1>1, SlotRet
  <1>3. \A o \in Objs : SameWord(o)
    <2>1. PICK q, b : \/ UNCHANGED word
                      \/ word' = [word EXCEPT ![q].multi = b]
      BY DEF arm_slot, add_multi_waiter, remove_multi_waiter
    <2> QED BY <2>1, Parts, FlagsValue
  <1>4. srv'.req = srv.req /\ srv'.pos = 0 /\ srv'.pc \in SlotPCs \ {"take", "unguard"}
    <2>1. srv' = srv \/ srv' = [srv EXCEPT !.pc = "flag"] \/ srv' = [srv EXCEPT !.pc = "regcheck"]
      BY DEF arm_slot, add_multi_waiter, remove_multi_waiter
    <2> QED BY <1>1, <1>2, <2>1 DEF Srvs, SlotPCs
  <1> QED BY <1>1, <1>3, <1>4, SlotStays

LEMMA RegisterCheckGood == ASSUME IInv, IInv', RInv, register_check PROVE Good
  <1>1. PICK t \in Threads : t = srv.req /\ pc[t] \in {"register", "tryall"} /\ loc[t].ret \in Open
    <2>1. srv.pc = "regcheck" /\ srv.pc \in SlotPCs BY DEF register_check, SlotPCs
    <2>2. pc[srv.req] # "unregister" BY <2>1, Parts DEF ServedOK, SlotServed
    <2> QED BY <2>1, <2>2, SlotRet
  <1>2. srv.pc = "regcheck" /\ srv.pc \in SlotPCs \ {"take", "unguard"} /\ UNCHANGED word BY DEF register_check, SlotPCs
  <1>3. srv \in Srvs /\ srv.pos = 0 /\ loc[t] \in Locs BY <1>1, <1>2, SlotRet, Parts DEF ThreadTypes
  <1>4. CASE Registered
    <2> DEFINE l == [loc[t] EXCEPT !.i = 1, !.phase = 2]
    <2>1. PICK w \in {"sleep", "any_check"} : Goto(t, w) /\ SetLoc(t, l) /\ UNCHANGED call /\ srv' = Srv0
      BY <1>1, <1>4 DEF Registered, Answer
    <2>2. l.ret = loc[t].ret BY <1>3 DEF Locs
    <2> HIDE DEF l
    <2>3. Only(t) /\ pc'[t] = w /\ loc'[t].ret = loc[t].ret /\ call'[t] = call[t] BY <2>1, <2>2, Parts, OnlyMoves
    <2>4. Rest(pc'[t], loc'[t].ret, call'[t].what) BY <1>1, <2>3 DEF Rest, RetAt, OpenPCs
    <2>5. Plain(pc'[t], loc'[t].ret) = Plain(pc[t], loc[t].ret) BY <1>1, <2>3 DEF Plain
    <2> QED BY <1>1, <1>2, <2>1, <2>3, <2>4, <2>5, SlotEnds
  <1>5. CASE ~Registered
    <2>1. UNCHANGED <<pc, call, loc>> /\ \E o : srv' = [srv EXCEPT !.todo = @ \ {o}] BY <1>5 DEF register_check
    <2>2. srv'.req = srv.req /\ srv'.pos = 0 /\ srv'.pc = srv.pc BY <1>3, <2>1 DEF Srvs
    <2>3. \A o \in Objs : SameWord(o) BY <1>2 DEF SameWord, Same
    <2> QED BY <1>2, <2>1, <2>2, <2>3, SlotStays
  <1> QED BY <1>4, <1>5

LEMMA UnregisteredGood == ASSUME IInv, IInv', RInv, unregistered PROVE Good
  <1>1. srv.pc = "unregister" /\ srv.pc \in SlotPCs \ {"take", "unguard"} /\ UNCHANGED word BY DEF unregistered, SlotPCs
  <1>2. PICK t \in Threads : t = srv.req /\ pc[t] \in {"unregister", "tryall"} /\ loc[t].ret \in Open \cup Taken
    <2>1. pc[srv.req] # "register" BY <1>1, Parts DEF ServedOK, SlotServed
    <2> QED BY <1>1, <2>1, SlotRet
  <1>3. srv \in Srvs /\ srv.pos = 0 /\ loc[t] \in Locs BY <1>1, <1>2, SlotRet, Parts DEF ThreadTypes
  <1>4. CASE srv' = [srv EXCEPT !.pc = "guard"] /\ UNCHANGED <<pc, call, loc>>
    <2>1. srv'.req = srv.req /\ srv'.pos = 0 /\ srv'.pc = "guard" BY <1>3, <1>4 DEF Srvs
    <2>2. \A o \in Objs : SameWord(o) BY <1>1 DEF SameWord, Same
    <2> QED BY <1>1, <1>4, <2>1, <2>2, SlotStays DEF SlotPCs
  <1>5. CASE loc[t].ret = "woken" /\ pc[t] = "unregister" /\ Answer("any_check", [loc[t] EXCEPT !.phase = 3, !.ret = "none"])
    <2> DEFINE l == [loc[t] EXCEPT !.phase = 3, !.ret = "none"]
    <2>1. Goto(t, "any_check") /\ SetLoc(t, l) /\ UNCHANGED call /\ srv' = Srv0 BY <1>2, <1>5 DEF Answer
    <2>2. l.ret = "none" BY <1>3 DEF Locs
    <2> HIDE DEF l
    <2>3. Only(t) /\ pc'[t] = "any_check" /\ loc'[t].ret = "none" /\ call'[t] = call[t] BY <2>1, <2>2, Parts, OnlyMoves
    <2>4. Rest(pc'[t], loc'[t].ret, call'[t].what) BY <2>3 DEF Rest, RetAt, OpenPCs, Open
    <2>5. Plain(pc'[t], loc'[t].ret) = Plain(pc[t], loc[t].ret) BY <1>5, <2>3 DEF Plain
    <2> QED BY <1>1, <1>2, <2>1, <2>3, <2>4, <2>5, SlotEnds
  <1>6. CASE srv' = Srv0 /\ loc[t].ret = "bail" /\ Fallback(t)
    <2>1. loc[t].ret \in Open BY <1>6 DEF Open
    <2> QED BY <1>1, <1>2, <1>6, <2>1, SlotEnds
  <1>7. CASE srv' = Srv0 /\ Return(t) BY <1>1, <1>2, <1>7, SlotEnds
  <1> QED BY <1>2, <1>4, <1>5, <1>6, <1>7 DEF unregistered

LEMMA GuardGood == ASSUME IInv, IInv', RInv, guard PROVE Good
  <1>1. srv.pc = "guard" /\ srv.pc \in SlotPCs \ {"take", "unguard"} /\ UNCHANGED <<pc, loc, call>>
    BY DEF guard, client, SlotPCs
  <1>2. srv \in Srvs /\ srv.pos = 0 BY <1>1, SlotRet
  <1>3. \A o \in Objs : SameWord(o)
    <2>1. UNCHANGED word \/ word' = [word EXCEPT ![GObj].server = TRUE] BY DEF guard
    <2> QED BY <2>1, Parts, FlagsValue
  <1>4. /\ srv'.req = srv.req /\ srv'.pos = 0 /\ srv'.pc \in {"guard", "probe", "unguard"}
        /\ srv'.pc = "unguard" => srv'.ret # "success"
    <2>1. CASE srv' = [SrvNext("unguard") EXCEPT !.ret = "bail"] BY <1>2, <2>1 DEF SrvNext, Srvs
    <2>2. CASE srv' = [SrvNext("probe") EXCEPT !.guarded = @ + 1] BY <1>2, <2>2 DEF SrvNext, Srvs
    <2>3. CASE srv' = [[srv EXCEPT !.i = @ + 1] EXCEPT !.guarded = @ + 1] BY <1>1, <1>2, <2>3 DEF Srvs
    <2> QED BY <2>1, <2>2, <2>3 DEF guard
  <1> QED BY <1>1, <1>3, <1>4, SlotStays DEF SlotPCs

LEMMA UnguardGood == ASSUME IInv, IInv', RInv, unguard PROVE Good
  <1>1. srv.pc = "unguard" /\ srv.pc \in SlotPCs \ {"take"} /\ UNCHANGED <<pc, loc, call>>
    BY DEF unguard, client, SlotPCs
  <1>2. srv \in Srvs /\ srv.pos = 0 BY <1>1, SlotRet
  <1>3. \A o \in Objs : SameWord(o)
    <2>1. word' = [word EXCEPT ![GObj].server = FALSE] BY DEF unguard
    <2> QED BY <2>1, Parts, FlagsValue
  <1>4. srv'.req = srv.req /\ srv'.pos = 0 /\ srv'.pc = srv.pc /\ srv'.ret = srv.ret BY <1>2 DEF unguard, Srvs
  <1> QED BY <1>1, <1>3, <1>4, SlotStays

(* Who takes what when only wineserver moves.                              *)
LEMMA TakesOnly ==
  ASSUME NEW u
  PROVE  /\ srv.pc \notin {"satisfy", "take"} \/ ServerTaker # u \/ call[u].what # "waitall" => Taking(u) = Takes(u)
         /\ srv'.pc \notin {"satisfy", "take"} \/ ServerTaker' # u \/ call'[u].what # "waitall" => Taking(u)' = Takes(u)'
         /\ pc'[u] = pc[u] /\ loc'[u].i = loc[u].i /\ call'[u] = call[u] => Takes(u)' = Takes(u)
  BY DEF Taking, Takes, ServerTakes, Count

LEMMA TryTakes ==
  /\ srv.pc = "take" /\ pc[srv.req] # "take" /\ call[srv.req].what = "waitall" =>
       Taking(srv.req) = Part(srv.req, srv.i, Count(srv.req))
  /\ srv'.pc = "take" /\ pc'[srv'.req] # "take" /\ call'[srv'.req].what = "waitall" =>
       Taking(srv.req)' = Part(srv.req, srv.i, Count(srv.req))'
  BY DEF Taking, ServerTakes, ServerTaker, Part

LEMMA ProbeGood == ASSUME IInv, IInv', RInv, NoOverflow, probe PROVE Good
  <1>1. srv.pc = "probe" /\ srv.pc \in SlotPCs \ {"take", "unguard"} /\ UNCHANGED <<word, pc, loc, call>>
    BY DEF probe, client, SlotPCs
  <1>2. PICK t \in Threads :
          /\ t = srv.req /\ pc[t] = "tryall" /\ loc[t].ret \in Open /\ call[t].what = "waitall"
          /\ srv.pos = 0 /\ srv \in Srvs
    BY <1>1, SlotRet, TryAt DEF TryPCs
  <1>3. \A o \in Objs : SameWord(o) BY <1>1 DEF SameWord, Same
  <1>4. \/ /\ srv'.req = srv.req /\ srv'.pos = 0 /\ srv'.pc \in {"probe", "unguard"}
           /\ srv'.pc = "unguard" => srv'.ret # "success"
        \/ srv' = SrvNext("take")
    <2>1. CASE srv' = [SrvNext("unguard") EXCEPT !.ret = "timeout"] BY <1>2, <2>1 DEF SrvNext, Srvs
    <2>2. CASE srv' = [SrvNext("unguard") EXCEPT !.ret = "bail"] BY <1>2, <2>2 DEF SrvNext, Srvs
    <2>3. CASE srv' = [srv EXCEPT !.i = @ + 1] BY <1>1, <1>2, <2>3 DEF Srvs
    <2>4. CASE srv' = SrvNext("take") BY <2>4
    <2> QED BY <2>1, <2>2, <2>3, <2>4 DEF probe
  <1>5. CASE /\ srv'.req = srv.req /\ srv'.pos = 0 /\ srv'.pc \in {"probe", "unguard"}
             /\ srv'.pc = "unguard" => srv'.ret # "success"
    BY <1>1, <1>3, <1>5, SlotStays DEF SlotPCs
  <1>6. CASE srv' = SrvNext("take")
    <2>1. srv'.pc = "take" /\ srv'.req = t /\ srv'.i = 1 /\ srv'.pos = 0 BY <1>2, <1>6 DEF SrvNext, Srvs
    <2>2. Only(t) BY <1>1 DEF Only
    <2>3. Taking(t) = {}
      <3>1. Taking(t) = Takes(t) BY <1>1, TakesOnly
      <3> QED BY <1>2, <3>1 DEF Takes
    <2>4. Taking(t)' = {WObj(t, j) : j \in 1..Count(t)}
      <3>1. Taking(t)' = Part(srv.req, srv.i, Count(srv.req))' BY <1>1, <1>2, <2>1, TryTakes
      <3>2. Part(srv.req, srv.i, Count(srv.req))' = {WObj(t, j) : j \in 1..Count(t)}
        BY <1>1, <2>1 DEF Part, WObj, Count
      <3> QED BY <3>1, <3>2
    <2>5. \A u \in Threads : u # t => Taking(u)' = Taking(u)
      <3> SUFFICES ASSUME NEW u \in Threads, u # t PROVE Taking(u)' = Taking(u) OBVIOUS
      <3>1. Taking(u) = Takes(u) /\ Takes(u)' = Takes(u) BY <1>1, TakesOnly
      <3>2. ServerTaker' # u BY <2>1 DEF ServerTaker
      <3>3. Taking(u)' = Takes(u)' BY <3>2, TakesOnly
      <3> QED BY <3>1, <3>3
    <2>6. Plain(pc[t], loc[t].ret) = "pending" BY <1>2 DEF Plain, Open
    <2>7. Step BY <1>1, <1>2, <1>3, <2>2, <2>3, <2>4, <2>5, <2>6, StartTaking
    <2>8. RInv'
      <3>1. HalvesOK' BY <1>3, HalvesSame DEF RInv
      <3>2. IdleOK' BY <2>1 DEF IdleOK
      <3>3. AbandonOK' BY <2>1 DEF AbandonOK, SignalingPCs
      <3>4. RetAt(pc'[t], loc'[t].ret, call'[t].what) BY <1>1, Here
      <3>5. HandedAt(t, pc'[t], loc'[t].ret, call'[t].what, srv') BY <1>1, <1>2, <2>1 DEF HandedAt
      <3>6. \A u \in Threads : u # t => Apart(u, srv, srv') BY <1>1, <1>2, <2>1, OneServed
      <3> QED BY <2>2, <3>1, <3>2, <3>3, <3>4, <3>5, <3>6, RequestKeeps
    <2> QED BY <2>7, <2>8 DEF Good
  <1> QED BY <1>4, <1>5, <1>6

LEMMA ServerTakeGood == ASSUME IInv, IInv', RInv, NoOverflow, server_take PROVE Good
  <1>1. srv.pc = "take" /\ srv.pc \in SlotPCs /\ UNCHANGED <<pc, call>> BY DEF server_take, SlotPCs
  <1>2. PICK t \in Threads : t = srv.req BY <1>1, SlotRet
  <1>3. /\ pc[t] = "tryall" /\ call[t].what = "waitall" /\ srv.pos = 0 /\ srv \in Srvs
        /\ srv.i \in 1..Count(t) /\ Count(t) \in Nat /\ loc[t] \in Locs
        /\ \A j, k \in 1..Count(t) : WObj(t, j) = WObj(t, k) => j = k
        /\ \A j \in 1..Count(t) : WObj(t, j) \in Objs
    BY <1>1, <1>2, SlotAt, TryAt, Parts DEF TryPCs, ServedOK, SlotServed
  <1>4. PICK o \in Objs : o = WObj(t, srv.i) BY <1>3
  <1>5. Taking(t) = Part(t, srv.i, Count(t)) BY <1>1, <1>2, <1>3, TryTakes
  <1>0. /\ Part(t, srv.i + 1, Count(t)) = Taking(t) \ {o} /\ o \in Taking(t)
        /\ srv.i = Count(t) => Taking(t) \ {o} = {}
    <2> DEFINE i == srv.i
               n == Count(t)
    <2>1. i \in 1..n /\ n \in Nat /\ (\A j, k \in 1..n : WObj(t, j) = WObj(t, k) => j = k) BY <1>3
    <2>2. WObj(t, i) = o /\ Part(t, i, n) = Taking(t) BY <1>4, <1>5
    <2> HIDE DEF i, n
    <2>3. /\ Part(t, i + 1, n) = Part(t, i, n) \ {WObj(t, i)} /\ WObj(t, i) \in Part(t, i, n)
          /\ i = n => Part(t, i, n) \ {WObj(t, i)} = {}
      BY <2>1, NextPart
    <2>4. Part(t, i + 1, n) = Taking(t) \ {o} /\ o \in Taking(t) /\ (i = n => Taking(t) \ {o} = {}) BY <2>2, <2>3
    <2> QED BY <2>4 DEF i, n
  <1>6. o \in Taking(t) /\ Signaled(o, t) BY <1>0, TakingAt DEF TakingOK
  <1>7. Same(word'[o], Consumed(o, t)) /\ \A p \in Objs : p # o => SameWord(p)
    <2>1. word' = [word EXCEPT ![o] = Consumed(o, t)] BY <1>2, <1>4 DEF server_take, GObj
    <2>2. word = [p \in Objs |-> word[p]] BY Parts DEF WordTypes
    <2>3. word'[o] = Consumed(o, t) /\ \A p \in Objs : p # o => word'[p] = word[p] BY <2>1, <2>2
    <2> QED BY <2>3 DEF Same, SameWord
  <1>8. HalvesOK' BY <1>6, <1>7, WordTaken
  <1> DEFINE r == Worse(loc[t].ret, ConsumedStatus(o))
             l == [loc[t] EXCEPT !.ret = r]
  <1>9. l.ret = r /\ l.i = loc[t].i BY <1>3 DEF Locs
  <1>10. r \in Taken
    <2>1. ConsumedStatus(o) \in Taken BY DEF ConsumedStatus, W!ConsumedStatus, Taken
    <2> QED BY <2>1 DEF Worse, Taken
  <1>11. SetLoc(t, l) BY <1>2, <1>4 DEF server_take, GObj
  <1> HIDE DEF l, r
  <1>12. Only(t) /\ pc'[t] = pc[t] /\ loc'[t].ret = r /\ call'[t] = call[t]
    BY <1>1, <1>9, <1>11, Parts, OnlyMoves
  <1>13. /\ srv'.req = t /\ srv'.pos = 0
         /\ \/ srv.i = Count(t) /\ srv'.pc = "unguard" /\ srv'.ret = "success"
            \/ srv.i # Count(t) /\ srv'.pc = "take" /\ srv'.i = srv.i + 1
    <2>1. CASE srv.i = Count(t) /\ srv' = [SrvNext("unguard") EXCEPT !.ret = "success"] BY <1>2, <1>3, <2>1 DEF SrvNext, Srvs
    <2>2. CASE srv.i # Count(t) /\ srv' = [srv EXCEPT !.i = @ + 1] BY <1>1, <1>2, <1>3, <2>2 DEF Srvs
    <2> QED BY <1>2, <2>1, <2>2 DEF server_take
  <1>14. \A u \in Threads : u # t => Taking(u)' = Taking(u)
    <2> SUFFICES ASSUME NEW u \in Threads, u # t PROVE Taking(u)' = Taking(u) OBVIOUS
    <2>1. ServerTaker # u /\ ServerTaker' # u
      <3>1. ServerTaker = srv.req BY <1>1 DEF ServerTaker
      <3>2. ServerTaker' = srv'.req BY <1>13 DEF ServerTaker
      <3> QED BY <1>2, <1>13, <3>1, <3>2
    <2>2. Taking(u) = Takes(u) /\ Taking(u)' = Takes(u)' BY <2>1, TakesOnly
    <2>3. Takes(u)' = Takes(u) BY <1>12, TakesOnly DEF Only
    <2> QED BY <2>2, <2>3
  <1>15. Taking(t)' = Taking(t) \ {o}
    <2>1. CASE srv.i = Count(t) /\ srv'.pc = "unguard"
      <3>1. Taking(t)' = Takes(t)' BY <2>1, TakesOnly
      <3>2. Takes(t)' = {} BY <1>3, <1>12 DEF Takes
      <3> QED BY <1>0, <2>1, <3>1, <3>2
    <2>2. CASE srv'.pc = "take" /\ srv'.i = srv.i + 1
      <3>1. Taking(srv.req)' = Part(srv.req, srv.i, Count(srv.req))' BY <1>3, <1>12, <1>13, <2>2, TryTakes
      <3>2. Taking(t)' = Part(t, srv.i + 1, Count(t)) BY <1>1, <1>13, <2>2, <3>1 DEF Part, WObj, Count
      <3> QED BY <1>0, <3>2
    <2> QED BY <1>13, <2>1, <2>2
  <1>16. pc'[t] \notin {"idle", "dead"} BY <1>3, <1>12
  <1>17. Step BY <1>1, <1>6, <1>7, <1>12, <1>14, <1>15, <1>16, TakingOne DEF r
  <1>18. RInv'
    <2>1. IdleOK' BY <1>13 DEF IdleOK
    <2>2. AbandonOK' BY <1>13 DEF AbandonOK, SignalingPCs
    <2>3. RetAt(pc'[t], loc'[t].ret, call'[t].what) BY <1>3, <1>12 DEF RetAt, OpenPCs
    <2>4. HandedAt(t, pc'[t], loc'[t].ret, call'[t].what, srv') BY <1>3, <1>10, <1>12, <1>13 DEF HandedAt
    <2>5. \A u \in Threads : u # t => Apart(u, srv, srv') BY <1>1, <1>2, <1>13, OneServed
    <2> QED BY <1>8, <1>12, <2>1, <2>2, <2>3, <2>4, <2>5, RequestKeeps
  <1> QED BY <1>17, <1>18 DEF Good

LEMMA AttemptDoneGood == ASSUME IInv, IInv', RInv, attempt_done PROVE Good
  <1>1. srv.pc = "unguard" /\ srv.pc \in SlotPCs \ {"take"} /\ UNCHANGED word BY DEF attempt_done, SlotPCs
  <1>2. PICK t \in Threads : t = srv.req BY <1>1, SlotRet
  <1>3. /\ pc[t] = "tryall" /\ srv.pos = 0 /\ srv \in Srvs /\ loc[t] \in Locs
        /\ srv.ret # "success" => loc[t].ret \in Open
        /\ srv.ret = "success" => loc[t].ret \in Taken
    BY <1>1, <1>2, SlotRet, TryAt DEF TryPCs
  <1>4. CASE srv.ret = "success" /\ loc[t].ret = "abandoned" /\ Answer("refresh", [loc[t] EXCEPT !.i = 1])
    <2> DEFINE l == [loc[t] EXCEPT !.i = 1]
    <2>1. Goto(t, "refresh") /\ SetLoc(t, l) /\ UNCHANGED call /\ srv' = Srv0 BY <1>2, <1>4 DEF Answer
    <2>2. l.ret = loc[t].ret BY <1>3 DEF Locs
    <2> HIDE DEF l
    <2>3. Only(t) /\ pc'[t] = "refresh" /\ loc'[t].ret = loc[t].ret /\ call'[t] = call[t] BY <2>1, <2>2, Parts, OnlyMoves
    <2>4. Rest(pc'[t], loc'[t].ret, call'[t].what) BY <1>4, <2>3 DEF Rest, RetAt, OpenPCs
    <2>5. Plain(pc'[t], loc'[t].ret) = Plain(pc[t], loc[t].ret) BY <1>3, <2>3 DEF Plain
    <2> QED BY <1>1, <1>2, <2>1, <2>3, <2>4, <2>5, SlotEnds
  <1>5. CASE /\ srv.ret = "timeout" /\ srv' = [SrvNext("unsignaled") EXCEPT !.guarded = 0]
             /\ UNCHANGED <<pc, call, loc>>
    <2>1. srv'.req = srv.req /\ srv'.pos = 0 /\ srv'.pc = "unsignaled" /\ srv'.ret = srv.ret
      BY <1>3, <1>5 DEF SrvNext, Srvs
    <2>2. \A o \in Objs : SameWord(o) BY <1>1 DEF SameWord, Same
    <2> QED BY <1>1, <1>5, <2>1, <2>2, SlotStays DEF SlotPCs
  <1>6. CASE srv.ret = "bail" /\ srv' = Srv0 /\ Fallback(t) BY <1>1, <1>2, <1>3, <1>6, SlotEnds
  <1>7. CASE srv' = Srv0 /\ Return(t) BY <1>1, <1>2, <1>7, SlotEnds
  <1> QED BY <1>2, <1>4, <1>5, <1>6, <1>7 DEF attempt_done

LEMMA UnsignaledGood == ASSUME IInv, IInv', RInv, get_wait_all_unsignaled PROVE Good
  <1>1. srv.pc = "unsignaled" /\ srv.pc \in SlotPCs \ {"take", "unguard"} /\ UNCHANGED word
    BY DEF get_wait_all_unsignaled, SlotPCs
  <1>2. PICK t \in Threads : t = srv.req BY <1>1, SlotRet
  <1>3. pc[t] = "tryall" /\ srv.pos = 0 /\ srv \in Srvs /\ loc[t].ret \in Open
    BY <1>1, <1>2, SlotRet, TryAt DEF TryPCs
  <1>4. CASE srv' = Srv0 /\ Fallback(t) BY <1>1, <1>2, <1>3, <1>4, SlotEnds
  <1>5. ASSUME NEW m, UNCHANGED <<pc, call, loc>>,
               \/ srv' = [srv EXCEPT !.i = srv.i + 1, !.todo = m]
               \/ srv' = [srv EXCEPT !.pc = "arm", !.todo = m]
               \/ srv' = [SrvNext("guard") EXCEPT !.tries = srv.tries + 1]
        PROVE  Good
    <2>1. srv'.req = srv.req /\ srv'.pos = 0 /\ srv'.pc \in {"unsignaled", "arm", "guard"}
      <3>1. CASE srv' = [srv EXCEPT !.i = srv.i + 1, !.todo = m] BY <1>1, <1>3, <3>1 DEF Srvs
      <3>2. CASE srv' = [srv EXCEPT !.pc = "arm", !.todo = m] BY <1>1, <1>3, <3>2 DEF Srvs
      <3>3. CASE srv' = [SrvNext("guard") EXCEPT !.tries = srv.tries + 1] BY <1>3, <3>3 DEF SrvNext, Srvs
      <3> QED BY <1>5, <3>1, <3>2, <3>3
    <2>2. \A o \in Objs : SameWord(o) BY <1>1 DEF SameWord, Same
    <2> QED BY <1>1, <1>5, <2>1, <2>2, SlotStays DEF SlotPCs
  <1>6. [SrvNext("guard") EXCEPT !.tries = @ + 1] = [SrvNext("guard") EXCEPT !.tries = srv.tries + 1]
    BY <1>3 DEF SrvNext, Srvs
  <1> DEFINE todo == IF Signaled(GObj, t) THEN srv.todo ELSE srv.todo \cup {GObj}
  <1>7. \/ srv' = Srv0 /\ Fallback(t)
        \/ /\ UNCHANGED <<pc, call, loc>>
           /\ \/ srv' = [srv EXCEPT !.i = srv.i + 1, !.todo = todo]
              \/ srv' = [srv EXCEPT !.pc = "arm", !.todo = todo]
              \/ srv' = [SrvNext("guard") EXCEPT !.tries = srv.tries + 1]
    BY <1>2, <1>6 DEF get_wait_all_unsignaled
  <1> HIDE DEF todo
  <1> QED BY <1>4, <1>5, <1>7

(* Waits in wineserver.                                                    *)
LEMMA WaitParts ==
  /\ srv.pc = "satisfy" /\ pc[srv.cur] # "take" /\ call[srv.cur].what = "waitall" =>
       Taking(srv.cur) = Part(srv.cur, srv.i, Count(srv.cur))
  /\ srv'.pc = "satisfy" /\ pc'[srv'.cur] # "take" /\ call'[srv'.cur].what = "waitall" =>
       Taking(srv.cur)' = Part(srv.cur, srv.i, Count(srv.cur))'
  BY DEF Taking, ServerTakes, ServerTaker, Part

(* What it says of the call whose wait it looks at.                        *)
LEMMA WaitRet ==
  ASSUME IInv, RInv, srv.pc \in {"check", "satisfy", "remove"}
  PROVE  LET t == srv.cur IN
         /\ t \in Threads /\ pc[t] = "queued" /\ call[t].what \in Waits /\ srv \in Srvs /\ loc[t] \in Locs
         /\ \/ loc[t].ret \in Open /\ call[t].what \in {"waitall", "waitany"}
            \/ loc[t].ret = "half" /\ call[t].what = "sigwait"
            \/ loc[t].ret \in Taken /\ (srv.pc = "remove" \/ (srv.pc = "satisfy" /\ call[t].what = "waitall"))
            \/ loc[t].ret = "error" /\ call[t].what = "sigwait" /\ srv.pc = "remove" /\ srv.pos = 0
         /\ srv.pos > 0 => /\ Asking(srv.req) /\ srv.req \in Threads /\ (srv.req = t => call[t].what = "sigwait")
                           /\ call[srv.req].what = "exit" => srv.req # t
  <1>1. PICK t \in Threads : t = srv.cur /\ pc[t] = "queued" /\ call[t].what \in Waits /\ srv \in Srvs /\ loc[t] \in Locs
    BY WaiterAt DEF WaitPCs
  <1>2. HandedAt(t, pc[t], loc[t].ret, call[t].what, srv) BY HandedHere
  <1>3. srv.pos > 0 => Asking(srv.req) BY Parts DEF ServedOK, SignalServed
  <1> QED BY <1>1, <1>2, <1>3 DEF HandedAt, Waits, Asking

LEMMA CheckWaitGood == ASSUME IInv, IInv', RInv, NoOverflow, check_wait PROVE Good
  <1>1. srv.pc = "check" /\ UNCHANGED <<word, pc, loc, call>> BY DEF check_wait, client
  <1>2. PICK t \in Threads : t = srv.cur BY <1>1, WaitRet
  <1>3. /\ pc[t] = "queued" /\ call[t].what \in Waits /\ srv \in Srvs
        /\ \/ loc[t].ret \in Open /\ call[t].what \in {"waitall", "waitany"}
           \/ loc[t].ret = "half" /\ call[t].what = "sigwait"
    BY <1>1, <1>2, WaitRet
  <1>4. \A o \in Objs : SameWord(o) BY <1>1 DEF SameWord, Same
  <1>5. Only(t) BY <1>1 DEF Only
  <1>6. Taking(t) = {} /\ \A u \in Threads : Taking(u) = Takes(u)
    <2>1. \A u \in Threads : Taking(u) = Takes(u) BY <1>1, TakesOnly
    <2> QED BY <1>3, <2>1 DEF Takes
  <1>7. RetAt(pc'[t], loc'[t].ret, call'[t].what) BY <1>1, Here
  <1>8. srv'.pc \notin {"enqueue", "signal"} => HandedAt(t, pc'[t], loc'[t].ret, call'[t].what, srv')
    BY <1>1, <1>3 DEF HandedAt
  <1>9. /\ srv'.pc = "idle" => srv' = Srv0
        /\ \/ srv'.pos = 0 /\ srv.pos = 0 /\ srv'.pc \in {"idle", "check", "satisfy", "remove"}
           \/ /\ srv.pos > 0 /\ srv'.pos > 0 /\ srv'.req = srv.req /\ srv'.obj = srv.obj
              /\ srv'.pc \in {"check", "satisfy", "remove", "scan"}
        /\ srv'.pc \in {"check", "satisfy", "remove"} => srv'.cur = t
        /\ srv'.pc = "satisfy" => \/ call[t].what = "waitall" /\ srv'.i = 1
                                  \/ call[t].what # "waitall"
    <2>1. srv.pos \in Nat /\ Srv0.pos = 0 /\ Srv0.pc = "idle" BY <1>3 DEF Srvs, Srv0
    <2>2. CASE call[t].what = "waitall" /\ srv' = [srv EXCEPT !.pc = "satisfy", !.i = 1] BY <1>2, <1>3, <2>1, <2>2 DEF Srvs
    <2>3. CASE call[t].what # "waitall" /\ srv' = [srv EXCEPT !.pc = "satisfy"] BY <1>2, <1>3, <2>1, <2>3 DEF Srvs
    <2>4. ASSUME NEW b, srv' = [srv EXCEPT !.i = srv.i + 1, !.ok = b]
          PROVE  srv'.pc = "check" /\ srv'.pos = srv.pos /\ srv'.req = srv.req /\ srv'.obj = srv.obj /\ srv'.cur = srv.cur
      BY <1>1, <1>3, <2>4 DEF Srvs
    <2>5. CASE NotSatisfied
      <3>1. CASE srv' = [srv EXCEPT !.pc = "remove", !.i = 1] BY <1>2, <1>3, <2>1, <3>1 DEF Srvs
      <3>2. CASE srv.pos = 0 /\ srv' = Srv0 BY <2>1, <3>2
      <3>3. CASE srv.pos # 0 /\ srv' = [srv EXCEPT !.pc = "scan", !.pos = @ + 1] BY <1>3, <2>1, <3>3 DEF Srvs
      <3> QED BY <2>5, <3>1, <3>2, <3>3 DEF NotSatisfied
    <2>6. \/ call[t].what = "waitall" /\ srv' = [srv EXCEPT !.pc = "satisfy", !.i = 1]
          \/ call[t].what # "waitall" /\ srv' = [srv EXCEPT !.pc = "satisfy"]
          \/ \E b : srv' = [srv EXCEPT !.i = srv.i + 1, !.ok = b]
          \/ NotSatisfied
      BY <1>2 DEF check_wait, SelectsAll
    <2>7. CASE \E b : srv' = [srv EXCEPT !.i = srv.i + 1, !.ok = b]
      <3>1. PICK b : srv' = [srv EXCEPT !.i = srv.i + 1, !.ok = b] BY <2>7
      <3>2. srv'.pc = "check" /\ srv'.pos = srv.pos /\ srv'.req = srv.req /\ srv'.obj = srv.obj /\ srv'.cur = srv.cur
        BY <2>4, <3>1
      <3> QED BY <1>1, <1>2, <2>1, <3>2
    <2> QED BY <2>2, <2>3, <2>5, <2>6, <2>7
  <1>10. HandedAt(t, pc'[t], loc'[t].ret, call'[t].what, srv') BY <1>8, <1>9
  <1>11. \A u \in Threads : u # t => Apart(u, srv, srv') BY <1>1, <1>2, <1>9, OneServed
  <1>12. \A u \in Threads : u # t => Taking(u)' = Taking(u)
    <2> SUFFICES ASSUME NEW u \in Threads, u # t PROVE Taking(u)' = Taking(u) OBVIOUS
    <2>1. srv'.pc \notin {"satisfy", "take"} \/ ServerTaker' # u BY <1>9 DEF ServerTaker
    <2>2. Taking(u)' = Takes(u)' BY <2>1, TakesOnly
    <2>3. Takes(u)' = Takes(u) BY <1>1, TakesOnly
    <2> QED BY <1>6, <2>2, <2>3
  <1>13. CASE srv'.pc = "satisfy" /\ call[t].what = "waitall"
    <2>1. Taking(t)' = {WObj(t, j) : j \in 1..Count(t)}
      <3>1. Taking(srv.cur)' = Part(srv.cur, srv.i, Count(srv.cur))' BY <1>1, <1>3, <1>9, <1>13, WaitParts
      <3> QED BY <1>1, <1>9, <1>13, <3>1 DEF Part, WObj, Count
    <2>2. Plain(pc[t], loc[t].ret) = "pending" /\ loc[t].ret \in Open BY <1>3, <1>13 DEF Plain, Open
    <2>3. Step BY <1>1, <1>3, <1>4, <1>5, <1>6, <1>12, <1>13, <2>1, <2>2, StartTaking
    <2>4. RInv'
      <3>1. HalvesOK' BY <1>4, HalvesSame DEF RInv
      <3>2. IdleOK' BY <1>9 DEF IdleOK
      <3>3. AbandonOK'
        <4>1. \A o \in Objs : word'[o].low = word[o].low BY <1>1
        <4> QED BY <1>1, <1>9, <1>13, <4>1, AbandonKept DEF SignalingPCs
      <3> QED BY <1>5, <1>7, <1>10, <1>11, <3>1, <3>2, <3>3, RequestKeeps
    <2> QED BY <2>3, <2>4 DEF Good
  <1>14. CASE ~(srv'.pc = "satisfy" /\ call[t].what = "waitall")
    <2>1. Taking(t)' = Taking(t)
      <3>1. srv'.pc \notin {"satisfy", "take"} \/ call'[t].what # "waitall" BY <1>1, <1>9, <1>14
      <3>2. Taking(t)' = Takes(t)' BY <3>1, TakesOnly
      <3>3. Takes(t)' = Takes(t) BY <1>1, TakesOnly
      <3> QED BY <1>6, <3>2, <3>3
    <2>2. \A u \in Threads : Taking(u)' = Taking(u) BY <1>12, <2>1
    <2>3. pc[t] \notin {"idle", "dead"} /\ call'[t] = call[t] /\ Plain(pc'[t], loc'[t].ret) = Plain(pc[t], loc[t].ret)
      BY <1>1, <1>3
    <2>4. \/ srv'.pos = 0 /\ srv'.pc \notin SignalingPCs
          \/ /\ srv'.req = srv.req /\ srv'.obj = srv.obj /\ (srv.pos > 0 \/ srv.pc \in SignalingPCs)
             /\ call'[srv.req] = call[srv.req]
      BY <1>1, <1>9 DEF SignalingPCs
    <2>5. srv'.pc = "idle" => srv' = Srv0 BY <1>9
    <2> QED BY <1>4, <1>5, <1>6, <1>7, <1>10, <1>11, <2>2, <2>3, <2>4, <2>5, ServerGood
  <1> QED BY <1>13, <1>14

LEMMA SatisfiedGood == ASSUME IInv, IInv', RInv, NoOverflow, satisfied PROVE Good
  <1>1. srv.pc = "satisfy" /\ UNCHANGED <<pc, call>> BY DEF satisfied
  <1>2. PICK t \in Threads : t = srv.cur BY <1>1, WaitRet
  <1>3. /\ pc[t] = "queued" /\ srv \in Srvs /\ loc[t] \in Locs
        /\ \/ call[t].what = "waitall" /\ loc[t].ret \in Open \cup Taken
           \/ call[t].what = "waitany" /\ loc[t].ret \in Open
           \/ call[t].what = "sigwait" /\ loc[t].ret = "half"
        /\ srv.i \in 1..Count(t) /\ Count(t) \in Nat
        /\ \A j, k \in 1..Count(t) : WObj(t, j) = WObj(t, k) => j = k
        /\ \A j \in 1..Count(t) : WObj(t, j) \in Objs
    BY <1>1, <1>2, WaitRet, WaiterAt DEF WaitPCs
  <1>4. PICK o \in Objs : o = WObj(t, srv.i) BY <1>3
  <1>5. ~word[o].locked /\ Signaled(o, t)
    <2>1. o \in Found
      <3>1. srv.i \in srv.i..Count(t) BY <1>3
      <3> QED BY <1>1, <1>2, <1>4, <3>1 DEF Found
    <2>2. Finder = t BY <1>1, <1>2 DEF Finder
    <2> QED BY <2>1, <2>2, Parts DEF FoundOK
  <1>6. Same(word'[o], Consumed(o, t)) /\ \A p \in Objs : p # o => SameWord(p)
    <2>1. word' = [word EXCEPT ![o] = Consumed(o, t)] BY <1>2, <1>4, <1>5 DEF satisfied
    <2>2. word = [p \in Objs |-> word[p]] BY Parts DEF WordTypes
    <2>3. word'[o] = Consumed(o, t) /\ \A p \in Objs : p # o => word'[p] = word[p] BY <2>1, <2>2
    <2> QED BY <2>3 DEF Same, SameWord
  <1>7. HalvesOK' /\ \A p \in Objs : Mutex(p) => word'[p].low \in {word[p].low, t, 0} BY <1>5, <1>6, WordTaken
  <1> DEFINE r == Worse(loc[t].ret, ConsumedStatus(o))
             l == [loc[t] EXCEPT !.ret = r]
  <1>8. l.ret = r /\ l.i = loc[t].i BY <1>3 DEF Locs
  <1>9. r \in Taken /\ (loc[t].ret # "abandoned" => r = ConsumedStatus(o))
    <2>1. ConsumedStatus(o) \in Taken BY DEF ConsumedStatus, W!ConsumedStatus, Taken
    <2> QED BY <2>1 DEF Worse, Taken
  <1>10. SetLoc(t, l) BY <1>2, <1>4 DEF satisfied
  <1> HIDE DEF l
  <1>11. Only(t) /\ pc'[t] = pc[t] /\ loc'[t].ret = r /\ call'[t] = call[t] BY <1>1, <1>8, <1>10, Parts, OnlyMoves
  <1>12. /\ srv'.cur = t /\ srv'.req = srv.req /\ srv'.obj = srv.obj /\ srv'.pos = srv.pos /\ srv.pos \in Nat
         /\ \/ call[t].what = "waitall" /\ srv.i # Count(t) /\ srv'.pc = "satisfy" /\ srv'.i = srv.i + 1
            \/ srv'.pc = "remove" /\ (call[t].what = "waitall" => srv.i = Count(t))
    <2>1. CASE call[t].what = "waitall" /\ srv.i < Count(t) /\ srv' = [srv EXCEPT !.i = @ + 1]
      BY <1>1, <1>2, <1>3, <2>1 DEF Srvs
    <2>2. CASE ~(call[t].what = "waitall" /\ srv.i < Count(t)) /\ srv' = [srv EXCEPT !.pc = "remove", !.i = 1]
      BY <1>2, <1>3, <2>2 DEF Srvs
    <2> QED BY <1>2, <2>1, <2>2 DEF satisfied, MoreToSatisfy, SelectsAll
  <1>13. \A u \in Threads : u # t => Taking(u)' = Taking(u)
    <2> SUFFICES ASSUME NEW u \in Threads, u # t PROVE Taking(u)' = Taking(u) OBVIOUS
    <2>1. ServerTaker # u /\ (srv'.pc \notin {"satisfy", "take"} \/ ServerTaker' # u)
      <3>1. ServerTaker = srv.cur BY <1>1 DEF ServerTaker
      <3>2. srv'.pc = "satisfy" => ServerTaker' = srv'.cur BY DEF ServerTaker
      <3> QED BY <1>2, <1>12, <3>1, <3>2
    <2>2. Taking(u) = Takes(u) /\ Taking(u)' = Takes(u)' BY <2>1, TakesOnly
    <2>3. Takes(u)' = Takes(u) BY <1>11, TakesOnly DEF Only
    <2> QED BY <2>2, <2>3
  <1>14. Takes(t) = {} /\ Takes(t)' = {} BY <1>3, <1>11 DEF Takes
  <1>15. ASSUME call[t].what = "waitall" PROVE Step
    <2>1. Taking(t) = Part(t, srv.i, Count(t)) BY <1>1, <1>2, <1>3, <1>15, WaitParts
    <2>2. /\ Part(t, srv.i + 1, Count(t)) = Taking(t) \ {o} /\ o \in Taking(t)
          /\ srv.i = Count(t) => Taking(t) \ {o} = {}
      <3> DEFINE i == srv.i
                 n == Count(t)
      <3>1. i \in 1..n /\ n \in Nat /\ (\A j, k \in 1..n : WObj(t, j) = WObj(t, k) => j = k) BY <1>3
      <3>2. WObj(t, i) = o /\ Part(t, i, n) = Taking(t) BY <1>4, <2>1
      <3> HIDE DEF i, n
      <3>3. /\ Part(t, i + 1, n) = Part(t, i, n) \ {WObj(t, i)} /\ WObj(t, i) \in Part(t, i, n)
            /\ i = n => Part(t, i, n) \ {WObj(t, i)} = {}
        BY <3>1, NextPart
      <3>4. Part(t, i + 1, n) = Taking(t) \ {o} /\ o \in Taking(t) /\ (i = n => Taking(t) \ {o} = {}) BY <3>2, <3>3
      <3> QED BY <3>4 DEF i, n
    <2>3. Taking(t)' = Taking(t) \ {o}
      <3>1. CASE srv'.pc = "satisfy" /\ srv'.i = srv.i + 1
        <4>1. Taking(srv.cur)' = Part(srv.cur, srv.i, Count(srv.cur))' BY <1>3, <1>11, <1>12, <1>15, <3>1, WaitParts
        <4>2. Taking(t)' = Part(t, srv.i + 1, Count(t)) BY <1>1, <1>12, <3>1, <4>1 DEF Part, WObj, Count
        <4> QED BY <2>2, <4>2
      <3>2. CASE srv'.pc = "remove" /\ srv.i = Count(t)
        <4>1. Taking(t)' = Takes(t)' BY <3>2, TakesOnly
        <4> QED BY <1>14, <2>2, <3>2, <4>1
      <3> QED BY <1>12, <1>15, <3>1, <3>2
    <2>4. pc'[t] \notin {"idle", "dead"} BY <1>3, <1>11
    <2> QED BY <1>1, <1>6, <1>11, <1>13, <2>2, <2>3, <2>4, TakingOne
  <1>16. ASSUME call[t].what # "waitall" PROVE Step
    <2>1. \A u \in Threads : o \notin Taking(u)
      <3>1. ServerTaker = t BY <1>1, <1>2 DEF ServerTaker
      <3> QED BY <1>5, <1>16, <3>1, FreeView
    <2>2. Taking(t) = {} /\ Taking(t)' = {} BY <1>11, <1>14, <1>16, TakesOnly
    <2>3. \A u \in Threads : Taking(u)' = Taking(u) BY <1>13, <2>2
    <2>4. pc[t] # "idle" /\ pc'[t] \notin {"idle", "dead"} BY <1>3, <1>11
    <2>5. \/ Plain(pc[t], loc[t].ret) = "half"
          \/ Plain(pc[t], loc[t].ret) = "pending" /\ call[t].what = "waitany"
      BY <1>3, <1>16 DEF Plain, Open
    <2>6. Plain(pc'[t], loc'[t].ret) = ConsumedStatus(o)
      <3>1. loc[t].ret # "abandoned" BY <1>3, <1>16 DEF Open
      <3> QED BY <1>9, <1>11, <2>4, <3>1 DEF Plain, Taken
    <2>7. srv.i \in 1..Count(t) BY <1>3
    <2> QED BY <1>1, <1>4, <1>5, <1>6, <1>11, <2>1, <2>2, <2>3, <2>4, <2>5, <2>6, <2>7, WaitTakes
  <1>17. Step BY <1>15, <1>16
  <1>18. RInv'
    <2>1. IdleOK' BY <1>12 DEF IdleOK
    <2>2. AbandonOK'
      <3>1. CASE srv.pos = 0
        <4>1. srv'.pos = 0 /\ srv'.pc \notin SignalingPCs BY <1>12, <3>1 DEF SignalingPCs
        <4> QED BY <4>1, AbandonKept
      <3>2. CASE srv.pos > 0 /\ call[srv.req].what # "exit"
        <4>1. call'[srv'.req].what # "exit" BY <1>1, <1>12, <3>2
        <4> QED BY <4>1, AbandonKept
      <3>3. CASE srv.pos > 0 /\ call[srv.req].what = "exit"
        <4>1. srv.req # t BY <1>1, <1>2, <3>3, WaitRet
        <4>2. \A p \in Objs : Mutex(p) => word'[p].low = word[p].low \/ word'[p].low = 0 \/ word'[p].low # srv.req
          BY <1>7, <4>1
        <4> QED BY <1>1, <1>12, <3>3, <4>2, AbandonKept
      <3> QED BY <1>12, <3>1, <3>2, <3>3
    <2>3. RetAt(pc'[t], loc'[t].ret, call'[t].what) BY <1>3, <1>11 DEF RetAt, OpenPCs
    <2>4. HandedAt(t, pc'[t], loc'[t].ret, call'[t].what, srv') BY <1>3, <1>9, <1>11, <1>12 DEF HandedAt
    <2>5. \A u \in Threads : u # t => Apart(u, srv, srv') BY <1>1, <1>2, <1>12, OneServed
    <2> QED BY <1>7, <1>11, <2>1, <2>2, <2>3, <2>4, <2>5, RequestKeeps
  <1> QED BY <1>17, <1>18 DEF Good

LEMMA EndWaitGood == ASSUME IInv, IInv', RInv, end_wait PROVE Good
  <1>1. srv.pc = "remove" BY DEF end_wait
  <1>2. PICK t \in Threads : t = srv.cur BY <1>1, WaitRet
  <1>3. /\ pc[t] = "queued" /\ call[t].what \in Waits /\ srv \in Srvs /\ srv.pos \in Nat
        /\ \/ loc[t].ret \in Open /\ call[t].what \in {"waitall", "waitany"}
           \/ loc[t].ret = "half" /\ call[t].what = "sigwait"
           \/ loc[t].ret \in Taken
           \/ loc[t].ret = "error" /\ call[t].what = "sigwait" /\ srv.pos = 0
        /\ srv.pos > 0 => srv.req \in Threads /\ (srv.req = t => call[t].what = "sigwait")
    BY <1>1, <1>2, WaitRet DEF Srvs
  <1>4. \A o \in Objs : SameWord(o)
    <2>1. word' = [word EXCEPT ![WObj(t, srv.i)].server = StillQueued(WObj(t, srv.i), t)] BY <1>2 DEF end_wait
    <2> QED BY <2>1, Parts, FlagsValue
  <1> DEFINE self == srv.pos > 0 /\ t = srv.req
             z == [Rescan EXCEPT !.max = IF @ > 0 THEN @ - 1 ELSE 0,
                                 !.pos = IF srv.max = 1 THEN Len(queue[srv.obj]) + 1 ELSE 1]
  <1>5. \/ UNCHANGED <<pc, call, loc>> /\ srv' = [srv EXCEPT !.i = srv.i + 1]
        \/ self /\ Goto(t, "served") /\ UNCHANGED <<call, loc>> /\ srv' = z
        \/ ~self /\ Return(t) /\ srv' = IF srv.pos = 0 THEN Srv0 ELSE z
    BY <1>2 DEF end_wait
  <1>6. z.pc = "scan" /\ z.req = srv.req /\ z.obj = srv.obj /\ (srv.pos > 0 => z.pos > 0)
    <2>1. srv.pos > 0 => Len(queue[srv.obj]) \in Nat
      <3>1. srv.pos > 0 => srv.obj \in Objs BY <1>1, WaiterAt DEF WaitPCs
      <3> QED BY <3>1, Parts DEF ServerTypes
    <2>2. z.pos = IF srv.max = 1 THEN Len(queue[srv.obj]) + 1 ELSE 1 BY <1>3 DEF Rescan, Srvs
    <2> QED BY <1>3, <2>1, <2>2 DEF Rescan, Srvs
  <1>7. Srv0.pos = 0 /\ Srv0.pc = "idle" BY DEF Srv0
  <1> HIDE DEF z
  <1>8. CASE UNCHANGED <<pc, call, loc>> /\ srv' = [srv EXCEPT !.i = srv.i + 1]
    <2>1. /\ srv'.pc = "remove" /\ srv'.pos = srv.pos /\ srv'.req = srv.req /\ srv'.obj = srv.obj /\ srv'.cur = t
      BY <1>1, <1>2, <1>3, <1>8 DEF Srvs
    <2>2. Only(t) BY <1>8 DEF Only
    <2>3. RetAt(pc'[t], loc'[t].ret, call'[t].what) BY <1>8, Here
    <2>4. HandedAt(t, pc'[t], loc'[t].ret, call'[t].what, srv') BY <1>3, <1>8, <2>1 DEF HandedAt
    <2>5. \A u \in Threads : u # t => Apart(u, srv, srv') BY <1>1, <1>2, <1>3, <2>1, OneServed
    <2>6. (\A u \in Threads : Taking(u)' = Taking(u)) /\ Taking(t) = {} BY <1>1, <1>3, <1>8, <2>1, <2>2, TakingElsewhere
    <2>7. pc[t] \notin {"idle", "dead"} /\ call'[t] = call[t] /\ Plain(pc'[t], loc'[t].ret) = Plain(pc[t], loc[t].ret)
      BY <1>3, <1>8
    <2>8. \/ srv'.pos = 0 /\ srv'.pc \notin SignalingPCs
          \/ /\ srv'.req = srv.req /\ srv'.obj = srv.obj /\ (srv.pos > 0 \/ srv.pc \in SignalingPCs)
             /\ call'[srv.req] = call[srv.req]
      BY <1>3, <1>8, <2>1 DEF SignalingPCs
    <2>9. srv'.pc # "idle" BY <2>1
    <2> QED BY <1>4, <2>2, <2>3, <2>4, <2>5, <2>6, <2>7, <2>8, <2>9, ServerGood
  <1>9. CASE self /\ Goto(t, "served") /\ UNCHANGED <<call, loc>> /\ srv' = z
    <2>1. Only(t) /\ pc'[t] = "served" /\ loc'[t] = loc[t] /\ call'[t] = call[t] BY <1>9, Parts, OnlyMoves
    <2>2. loc[t].ret \in Taken \cup {"half"} BY <1>3, <1>9
    <2>3. RetAt(pc'[t], loc'[t].ret, call'[t].what) BY <2>1 DEF RetAt, OpenPCs
    <2>4. HandedAt(t, pc'[t], loc'[t].ret, call'[t].what, srv') BY <2>1, <2>2 DEF HandedAt
    <2>5. \A u \in Threads : u # t => Apart(u, srv, srv') BY <1>1, <1>2, <1>6, <1>9, OneServed
    <2>6. (\A u \in Threads : Taking(u)' = Taking(u)) /\ Taking(t) = {}
      BY <1>1, <1>3, <1>6, <1>9, <2>1, TakingElsewhere
    <2>7. pc[t] \notin {"idle", "dead"} /\ Plain(pc'[t], loc'[t].ret) = Plain(pc[t], loc[t].ret) BY <1>3, <2>1 DEF Plain
    <2>8. call'[srv'.req].what # "exit" BY <1>3, <1>6, <1>9, <2>1
    <2>9. srv'.pc # "idle" BY <1>6, <1>9
    <2> QED BY <1>4, <2>1, <2>3, <2>4, <2>5, <2>6, <2>7, <2>8, <2>9, ServerGood
  <1>10. CASE ~self /\ Return(t) /\ srv' = IF srv.pos = 0 THEN Srv0 ELSE z
    <2>1. Only(t) /\ pc'[t] = "idle" BY <1>10, Parts, OnlyMoves
    <2>2. /\ RetAt(pc'[t], loc'[t].ret, call'[t].what)
          /\ HandedAt(t, pc'[t], loc'[t].ret, call'[t].what, srv')
      BY <2>1 DEF RetAt, OpenPCs, HandedAt
    <2>3. srv'.pc \notin {"satisfy", "take", "remove"} BY <1>6, <1>7, <1>10
    <2>4. \A u \in Threads : u # t => Apart(u, srv, srv')
      <3>1. \/ srv.req = srv'.req /\ srv.pos > 0 /\ srv'.pos > 0 /\ {srv.pc, srv'.pc} \subseteq {"check", "satisfy", "remove", "scan"}
            \/ srv.pos = 0 /\ srv'.pos = 0 /\ {srv.pc, srv'.pc} \subseteq {"check", "satisfy", "remove", "idle"}
        BY <1>1, <1>3, <1>6, <1>7, <1>10
      <3> QED BY <1>2, <2>3, <3>1, OneServed
    <2>5. (\A u \in Threads : Taking(u)' = Taking(u)) /\ Taking(t) = {} BY <1>1, <1>3, <2>1, <2>3, TakingElsewhere
    <2>6. /\ pc[t] \notin {"idle", "dead"}
          /\ loc[t].ret \in {"success", "abandoned", "error", "half"} \/ call[t].what \in {"waitall", "waitany"}
      BY <1>3 DEF Taken
    <2>7. \/ srv'.pos = 0 /\ srv'.pc \notin SignalingPCs
          \/ /\ srv'.req = srv.req /\ srv'.obj = srv.obj /\ (srv.pos > 0 \/ srv.pc \in SignalingPCs)
             /\ call'[srv.req] = call[srv.req]
      <3>1. CASE srv.pos = 0 BY <1>7, <1>10, <3>1 DEF SignalingPCs
      <3>2. CASE srv.pos > 0 BY <1>3, <1>6, <1>10, <2>1, <3>2 DEF Only
      <3> QED BY <1>3, <3>1, <3>2
    <2>8. srv'.pc = "idle" => srv' = Srv0 BY <1>6, <1>10
    <2> QED BY <1>4, <2>1, <2>2, <2>4, <2>5, <2>6, <2>7, <2>8, ServerGood
  <1> QED BY <1>5, <1>8, <1>9, <1>10

(* Signals: the request of srv.req.                                        *)
LEMMA SignalerRet ==
  ASSUME IInv, RInv, srv.pc \in SignalingPCs
  PROVE  LET t == srv.req IN
         /\ t \in Threads /\ srv \in Srvs /\ srv.pos \in Nat /\ pc[t] \in {"request", "queued", "served"}
         /\ pc[t] = "request" => call[t].what \in {"signal", "reset", "exit"}
         /\ pc[t] \in {"queued", "served"} => call[t].what = "sigwait"
         /\ srv.pc = "signal" => loc[t].ret \in Open
         /\ srv.pc \in {"multi", "scan", "done"} =>
              /\ pc[t] = "request" /\ call[t].what # "exit" => loc[t].ret = "success"
              /\ pc[t] = "request" /\ call[t].what = "exit" => loc[t].ret \in Open
              /\ pc[t] = "queued" => loc[t].ret = "half"
              /\ pc[t] = "served" => loc[t].ret \in Taken \cup {"half"}
         /\ srv.pc = "abandon" => pc[t] = "request" /\ call[t].what = "exit" /\ loc[t].ret \in Open
  <1>1. PICK t \in Threads : t = srv.req BY SignalerAt
  <1>2. srv \in Srvs /\ srv.pos \in Nat /\ Asking(t) BY <1>1, SignalerAt
  <1>3. HandedAt(t, pc[t], loc[t].ret, call[t].what, srv) BY HandedHere
  <1>4. /\ srv.pc = "signal" => srv.pos = 0 /\ (call[t].what = "sigwait" => pc[t] = "queued")
        /\ srv.pc = "abandon" => call[t].what = "exit"
    BY <1>1, Parts DEF ServedOK, SignalServed
  <1>5. srv.pc = "abandon" => pc[t] = "request" BY <1>2, <1>4 DEF Asking
  <1>6. ASSUME pc[t] = "request"
        PROVE  /\ srv.pc = "signal" => loc[t].ret \in Open
               /\ srv.pc \in {"multi", "scan", "done"} /\ call[t].what # "exit" => loc[t].ret = "success"
               /\ call[t].what = "exit" => loc[t].ret \in Open
    BY <1>1, <1>3, <1>4, <1>6 DEF HandedAt
  <1>7. ASSUME pc[t] = "queued", call[t].what = "sigwait"
        PROVE  /\ srv.pc = "signal" => loc[t].ret \in Open
               /\ srv.pc \in {"multi", "scan", "done"} => loc[t].ret = "half"
    BY <1>1, <1>3, <1>7 DEF HandedAt
  <1>8. pc[t] = "served" => loc[t].ret \in Taken \cup {"half"} BY <1>3 DEF HandedAt
  <1> QED BY <1>1, <1>2, <1>4, <1>5, <1>6, <1>7, <1>8 DEF Asking

(* The signal goes on.                                                     *)
LEMMA SignalStays ==
  ASSUME IInv, IInv', RInv, srv.pc \in {"multi", "scan", "done"}, UNCHANGED <<pc, loc, call>>, UNCHANGED word,
         srv'.req = srv.req,
         \/ /\ srv'.pc \in {"multi", "scan", "done"} \/ (srv'.pc = "check" /\ srv'.pos > 0)
            /\ srv'.obj = srv.obj
         \/ srv'.pc = "abandon" /\ srv'.obj = srv.obj /\ call[srv.req].what = "exit"
         \/ srv'.pc = "check" /\ srv'.pos = 0 /\ call[srv.req].what = "sigwait" /\ pc[srv.req] = "queued"
  PROVE  Good
  <1>1. PICK t \in Threads : t = srv.req BY SignalerRet DEF SignalingPCs
  <1>2. /\ pc[t] \in {"request", "queued", "served"}
        /\ pc[t] = "request" => call[t].what \in {"signal", "reset", "exit"}
        /\ pc[t] \in {"queued", "served"} => call[t].what = "sigwait"
        /\ pc[t] = "request" /\ call[t].what # "exit" => loc[t].ret = "success"
        /\ pc[t] = "request" /\ call[t].what = "exit" => loc[t].ret \in Open
        /\ pc[t] = "queued" => loc[t].ret = "half"
        /\ pc[t] = "served" => loc[t].ret \in Taken \cup {"half"}
    BY <1>1, SignalerRet DEF SignalingPCs
  <1>3. \A o \in Objs : SameWord(o) BY DEF SameWord, Same
  <1>4. HandedAt(t, pc[t], loc[t].ret, call[t].what, srv')
    <2>1. CASE pc[t] = "request" BY <1>1, <1>2, <2>1 DEF HandedAt
    <2>2. CASE pc[t] = "queued" BY <1>1, <1>2, <2>2 DEF HandedAt
    <2>3. CASE pc[t] = "served" BY <1>1, <1>2, <2>3 DEF HandedAt
    <2> QED BY <1>2, <2>1, <2>2, <2>3
  <1>5. \/ srv'.pos = 0 /\ srv'.pc \notin SignalingPCs
        \/ srv'.req = srv.req /\ srv'.obj = srv.obj /\ srv.pc \in SignalingPCs
    BY DEF SignalingPCs
  <1> QED BY <1>1, <1>2, <1>3, <1>4, <1>5, StaysGood

LEMMA WakeWaitersGood == ASSUME IInv, IInv', RInv, wake_waiters_for_object PROVE Good
  <1>1. srv.pc = "multi" /\ UNCHANGED <<pc, loc, call, word>> BY DEF wake_waiters_for_object, client
  <1>2. srv \in Srvs BY <1>1, SignalerRet DEF SignalingPCs
  <1>3. srv'.req = srv.req /\ srv'.obj = srv.obj /\ srv'.pc \in {"scan", "done"}
    <2>1. srv' = Rescan \/ srv' = [srv EXCEPT !.pc = "done"] BY DEF wake_waiters_for_object
    <2>2. CASE srv' = Rescan BY <1>2, <2>2, RescanServes
    <2>3. CASE srv' = [srv EXCEPT !.pc = "done"] BY <1>2, <2>3 DEF Srvs
    <2> QED BY <2>1, <2>2, <2>3
  <1> QED BY <1>1, <1>3, SignalStays

LEMMA WakeUpGood == ASSUME IInv, IInv', RInv, wake_up PROVE Good
  <1>1. srv.pc = "scan" /\ UNCHANGED <<pc, loc, call, word>> BY DEF wake_up, client
  <1>2. srv \in Srvs /\ srv.pos > 0 BY <1>1, SignalerAt DEF SignalingPCs
  <1>3. /\ srv'.req = srv.req /\ srv'.obj = srv.obj
        /\ srv'.pc \in {"multi", "done"} \/ (srv'.pc = "check" /\ srv'.pos > 0)
    <2>1. \/ srv' = [srv EXCEPT !.pc = "check", !.i = 1, !.ok = TRUE, !.cur = queue[srv.obj][srv.pos]]
          \/ srv' = [srv EXCEPT !.pc = "multi"]
          \/ srv' = [srv EXCEPT !.pc = "done"]
      BY DEF wake_up, ScanDone
    <2>2. CASE srv' = [srv EXCEPT !.pc = "check", !.i = 1, !.ok = TRUE, !.cur = queue[srv.obj][srv.pos]]
      BY <1>2, <2>2 DEF Srvs
    <2>3. CASE srv' = [srv EXCEPT !.pc = "multi"] BY <1>2, <2>3 DEF Srvs
    <2>4. CASE srv' = [srv EXCEPT !.pc = "done"] BY <1>2, <2>4 DEF Srvs
    <2> QED BY <2>1, <2>2, <2>3, <2>4
  <1> QED BY <1>1, <1>3, SignalStays

LEMMA SignalDoneGood == ASSUME IInv, IInv', RInv, signal_done PROVE Good
  <1>1. srv.pc = "done" /\ word' = word BY DEF signal_done
  <1>2. PICK t \in Threads : t = srv.req BY <1>1, SignalerRet DEF SignalingPCs
  <1>3. /\ srv \in Srvs /\ pc[t] \in {"request", "queued", "served"}
        /\ pc[t] \in {"queued", "served"} => call[t].what = "sigwait"
        /\ pc[t] = "request" => call[t].what \in {"signal", "reset", "exit"}
        /\ pc[t] = "request" /\ call[t].what # "exit" => loc[t].ret = "success"
        /\ pc[t] = "served" => loc[t].ret \in Taken \cup {"half"}
    BY <1>1, <1>2, SignalerRet DEF SignalingPCs
  <1>4. CASE call[t].what = "exit"
    <2>1. srv' = [srv EXCEPT !.pc = "abandon"] /\ UNCHANGED <<pc, call, loc>>
      BY <1>2, <1>4 DEF signal_done, SignalDone
    <2>2. srv'.pc = "abandon" /\ srv'.obj = srv.obj /\ srv'.req = srv.req BY <1>3, <2>1 DEF Srvs
    <2> QED BY <1>1, <1>2, <1>4, <2>1, <2>2, SignalStays
  <1>5. CASE call[t].what = "sigwait" /\ pc[t] # "served"
    <2>1. srv' = [Srv0 EXCEPT !.pc = "check", !.req = t, !.cur = t] /\ UNCHANGED <<pc, call, loc>>
      BY <1>2, <1>5 DEF signal_done, SignalDone
    <2>2. srv'.pc = "check" /\ srv'.pos = 0 /\ srv'.req = srv.req BY <1>2, <2>1 DEF Srv0
    <2>3. pc[t] = "queued" BY <1>3, <1>5
    <2> QED BY <1>1, <1>2, <1>5, <2>1, <2>2, <2>3, SignalStays
  <1>6. CASE call[t].what # "exit" /\ ~(call[t].what = "sigwait" /\ pc[t] # "served")
    <2>1. srv' = Srv0 /\ Return(t) BY <1>2, <1>6 DEF signal_done, SignalDone
    <2>2. Only(t) /\ pc'[t] = "idle" BY <2>1, Parts, OnlyMoves
    <2>3. loc[t].ret \in {"success", "abandoned", "error", "half"} BY <1>3, <1>6 DEF Taken
    <2>4. \A o \in Objs : SameWord(o) BY <1>1 DEF SameWord, Same
    <2>5. RetAt(pc'[t], loc'[t].ret, call'[t].what) /\ HandedAt(t, pc'[t], loc'[t].ret, call'[t].what, srv')
      BY <2>2 DEF RetAt, OpenPCs, HandedAt
    <2>6. srv'.pc = "idle" /\ srv'.pos = 0 /\ srv'.req = 0 BY <2>1 DEF Srv0
    <2>7. srv'.pc \notin SignalingPCs BY <2>6 DEF SignalingPCs
    <2> QED BY <1>1, <1>2, <1>3, <2>1, <2>2, <2>3, <2>4, <2>5, <2>6, <2>7, RequestGood
  <1> QED BY <1>4, <1>5, <1>6

(* abandon_mutexes goes through the mutexes in their order.                *)
LEMMA LaterLeast ==
  ASSUME srv \in Srvs, LaterMutexes # {}
  PROVE  LET o == Min(LaterMutexes) IN
         /\ o \in Objs /\ Mutex(o)
         /\ \A p \in Objs : Mutex(p) /\ p <= o => p = o \/ p <= srv.obj
  <1>1. LaterMutexes \in SUBSET Objs BY DEF LaterMutexes
  <1>2. LaterMutexes \subseteq Nat BY <1>1, ObjsAssumption
  <1>3. PICK x \in LaterMutexes : \A y \in LaterMutexes : <<y, x>> \notin OpToRel(<, Nat)
    BY <1>2, NatLessThanWellFounded, WFMin
  <1>4. \A y \in LaterMutexes : x <= y
    <2>1. \A y \in LaterMutexes : ~(y < x) BY <1>2, <1>3 DEF OpToRel
    <2> QED BY <1>2, <2>1
  <1>5. Min(LaterMutexes) \in LaterMutexes /\ \A y \in LaterMutexes : Min(LaterMutexes) <= y BY <1>4 DEF Min
  <1>6. PICK o \in Objs : o = Min(LaterMutexes) BY <1>1, <1>5
  <1>7. \A p \in Objs : Mutex(p) /\ p <= o => p = o \/ p <= srv.obj
    <2> SUFFICES ASSUME NEW p \in Objs, Mutex(p), p <= o, p # o PROVE p <= srv.obj OBVIOUS
    <2>0. srv.obj \in Objs \cup {0} BY DEF Srvs
    <2>1. p \in Nat /\ o \in Nat /\ srv.obj \in Nat
      <3>1. \A q \in Objs \cup {0} : q \in Nat BY ObjsAssumption
      <3> QED BY <2>0, <3>1
    <2>2. p \notin LaterMutexes BY <1>5, <1>6, <2>1
    <2> QED BY <2>1, <2>2 DEF LaterMutexes
  <1> QED BY <1>5, <1>6, <1>7 DEF LaterMutexes

LEMMA AbandonGood == ASSUME IInv, IInv', RInv, NoOverflow, abandon_mutexes PROVE Good
  <1>0. ThreadTypes /\ WordTypes BY Parts
  <1>1. srv.pc = "abandon" /\ UNCHANGED <<call, loc>> BY DEF abandon_mutexes
  <1>2. PICK t \in Threads : t = srv.req BY <1>1, SignalerRet DEF SignalingPCs
  <1>3. srv \in Srvs /\ pc[t] = "request" /\ call[t].what = "exit" /\ loc[t].ret \in Open
    BY <1>1, <1>2, SignalerRet DEF SignalingPCs
  <1>4. \A p \in Objs : Mutex(p) /\ p <= srv.obj => word[p].low # t
    BY <1>1, <1>2, <1>3 DEF RInv, AbandonOK, SignalingPCs
  <1>5. t \in Nat \ {0} /\ t # 0 BY ThreadsAssumption
  <1>6. Only(t) /\ pc'[t] # "take" /\ call'[t] = call[t]
    <2>1. UNCHANGED pc \/ Goto(t, "dead") BY <1>2 DEF abandon_mutexes
    <2>2. CASE UNCHANGED pc BY <1>1, <1>3, <2>2 DEF Only
    <2>3. CASE Goto(t, "dead") BY <1>0, <1>1, <2>3, OnlyMoves
    <2> QED BY <2>1, <2>2, <2>3
  <1>7. CASE LaterMutexes = {}
    <2>1. srv' = Srv0 /\ Goto(t, "dead") /\ UNCHANGED word BY <1>2, <1>7 DEF abandon_mutexes
    <2>2. pc'[t] = "dead" BY <1>0, <1>1, <2>1, OnlyMoves
    <2>3. srv'.pc = "idle" /\ srv'.pos = 0 /\ srv'.req = 0 BY <2>1 DEF Srv0
    <2>4. \A o \in Objs : SameWord(o) BY <2>1 DEF SameWord, Same
    <2>5. (\A u \in Threads : Taking(u)' = Taking(u)) /\ Taking(t) = {} BY <1>1, <1>3, <1>6, <2>3, TakingElsewhere
    <2>6. Status(t) = "pending" /\ Status(t)' = "dead"
      <3>1. Status(t) = Plain(pc[t], loc[t].ret) /\ Status(t)' = Plain(pc'[t], loc'[t].ret)
        BY <2>5, StatusAt DEF StatusOK
      <3> QED BY <1>3, <2>2, <3>1 DEF Plain, Open
    <2>7. Becomes(t, "dead")
      <3>1. \A u \in Threads : u # t => Status(u)' = Status(u) BY <1>6, <2>4, <2>5, OthersTurn
      <3> QED BY <1>1, <2>6, <3>1 DEF Becomes, Turns
    <2>8. \A o \in Objs : SameView(o) BY <2>4, <2>5, ViewKept
    <2>9. ASSUME NEW o \in Objs, Mutex(o) PROVE View(o).low # t
      <3>0. srv.obj \in Objs \cup {0} BY <1>3 DEF Srvs
      <3>1. \A q \in Objs \cup {0} : q \in Nat BY ObjsAssumption
      <3>2. word[o].low # t
        <4>1. o \in Nat /\ srv.obj \in Nat BY <3>0, <3>1
        <4>2. o \notin LaterMutexes BY <1>7
        <4> QED BY <1>4, <2>9, <4>1, <4>2 DEF LaterMutexes
      <3>3. CASE \A u \in Threads : o \notin Taking(u) BY <3>2, <3>3, TakingAt DEF TakingOK
      <3>4. ASSUME NEW u \in Threads, o \in Taking(u) PROVE View(o).low # t
        <4>1. u # t /\ Signaled(o, u) /\ View(o) = Consumed(o, u) BY <2>5, <3>4, TakingAt DEF TakingOK
        <4>2. word[o] \in Words(o) /\ HalfOK(o, word[o]) /\ word[o].high < IntMax
          BY <1>0, <2>9 DEF WordTypes, RInv, HalvesOK, NoOverflow
        <4>3. TakenTo(o, u, word[o], Consumed(o, u)) BY <4>1, <4>2, TakenHalf
        <4> QED BY <2>9, <4>1, <4>3 DEF TakenTo
      <3> QED BY <3>3, <3>4
    <2>10. Step BY <1>3, <2>6, <2>7, <2>8, <2>9, NtDie
    <2>11. RInv'
      <3>1. HalvesOK' BY <2>4, HalvesSame DEF RInv
      <3>2. AbandonOK' BY <2>3 DEF AbandonOK, SignalingPCs
      <3>3. IdleOK' BY <2>1 DEF IdleOK
      <3>4. RetAt(pc'[t], loc'[t].ret, call'[t].what) /\ HandedAt(t, pc'[t], loc'[t].ret, call'[t].what, srv')
        BY <2>2 DEF RetAt, OpenPCs, HandedAt
      <3>5. \A u \in Threads : u # t => Apart(u, srv, srv') BY <1>1, <1>2, <2>3, OneServed
      <3> QED BY <1>6, <3>1, <3>2, <3>3, <3>4, <3>5, RequestKeeps
    <2> QED BY <2>10, <2>11 DEF Good
  <1>8. CASE LaterMutexes # {}
    <2>0. PICK o \in Objs : /\ o = Min(LaterMutexes) /\ Mutex(o)
                            /\ \A p \in Objs : Mutex(p) /\ p <= o => p = o \/ p <= srv.obj
      BY <1>3, <1>8, LaterLeast
    <2> DEFINE x == W(KindOf[o])!Abandoned(word[o], t)
               owns == W(KindOf[o])!Owns(word[o], t)
    <2>1. /\ ~word[o].locked /\ UNCHANGED pc
          /\ owns => word' = [word EXCEPT ![o] = x] /\ srv' = [Rescan EXCEPT !.obj = o, !.max = 0]
          /\ ~owns => UNCHANGED word /\ srv' = [srv EXCEPT !.obj = o]
      <3>1. DOMAIN word = Objs BY <1>0 DEF WordTypes
      <3> QED BY <1>2, <1>8, <2>0, <3>1 DEF abandon_mutexes
    <2>2. word[o] \in Words(o) /\ HalfOK(o, word[o]) BY <1>0 DEF WordTypes, RInv, HalvesOK
    <2>3. /\ owns => word[o].low = t
          /\ ~owns => word[o].low # t
          /\ x.low = -t /\ x.high = 0 /\ HalfOK(o, x)
      BY <2>0, <2>2, AbandonedHalf
    <2> HIDE DEF x, owns
    <2>4. /\ owns => word'[o] = x
          /\ \A p \in Objs : p # o \/ ~owns => word'[p] = word[p]
      BY <1>0, <2>1 DEF WordTypes
    <2>5. srv'.pc \in {"scan", "abandon"} /\ srv'.req = t /\ srv'.obj = o
      <3>1. CASE owns
        <4>0. Rescan \in Srvs /\ Rescan.pc = "scan" /\ Rescan.req = t BY <1>2, <1>3 DEF Rescan, Srvs, ServerPCs
        <4>1. PICK q \in Srvs : q = Rescan /\ q.pc = "scan" /\ q.req = t BY <4>0
        <4>2. srv' = [q EXCEPT !.obj = o, !.max = 0] BY <2>1, <3>1, <4>1
        <4> QED BY <4>1, <4>2 DEF Srvs
      <3>2. CASE ~owns BY <1>1, <1>2, <1>3, <2>1, <3>2 DEF Srvs
      <3> QED BY <3>1, <3>2
    <2>6. (\A u \in Threads : Taking(u)' = Taking(u)) /\ Taking(t) = {} BY <1>1, <1>3, <1>6, <2>5, TakingElsewhere
    <2>7. \A p \in Objs : p # o \/ ~owns => SameWord(p) BY <2>4 DEF SameWord, Same
    <2>8. \A u \in Threads : o \notin Taking(u) BY <1>1, <2>1, FreeView
    <2>9. \A p \in Objs : p # o \/ ~owns => SameView(p) BY <2>6, <2>7, ViewKept
    <2>10. Status(t) = "pending" /\ Status(t)' = "pending"
      <3>1. Status(t) = Plain(pc[t], loc[t].ret) /\ Status(t)' = Plain(pc'[t], loc'[t].ret)
        BY <2>6, StatusAt DEF StatusOK
      <3> QED BY <1>1, <1>3, <2>1, <3>1 DEF Plain, Open
    <2>11. \A u \in Threads : Status(u)' = Status(u)
      <3>1. \A p \in Objs : SameWord(p) \/ \A u \in Threads : u # t => p \notin Taking(u) BY <2>7, <2>8
      <3>2. \A u \in Threads : u # t => Status(u)' = Status(u) BY <1>6, <2>6, <3>1, OthersTurn
      <3> QED BY <2>10, <3>2
    <2>12. Step
      <3>1. CASE owns
        <4>1. View(o) = word[o] /\ View(o)' = word'[o] BY <2>6, <2>8, TakingAt DEF TakingOK
        <4>2. View(o).low = t /\ (View(o).low)' = -t /\ (View(o).high)' = 0 BY <2>3, <2>4, <3>1, <4>1
        <4> QED BY <1>1, <1>3, <2>0, <2>9, <2>10, <2>11, <4>2, NtAbandon
      <3>2. CASE ~owns BY <1>1, <2>9, <2>11, <3>2, NtQuiet
      <3> QED BY <3>1, <3>2
    <2>13. RInv'
      <3>1. \A p \in Objs : HalfOK(p, word'[p]) BY <2>3, <2>4 DEF RInv, HalvesOK
      <3>2. HalvesOK' BY <3>1 DEF HalvesOK, HalfOK
      <3>3. ASSUME NEW p \in Objs, Mutex(p), p <= o PROVE word'[p].low # t
        <4>1. CASE p = o
          <5>1. CASE owns
            <6>1. word'[p].low = -t BY <2>3, <2>4, <4>1, <5>1
            <6> QED BY <1>5, <6>1
          <5>2. CASE ~owns BY <2>3, <2>4, <4>1, <5>2
          <5> QED BY <5>1, <5>2
        <4>2. CASE p # o BY <1>4, <2>0, <2>4, <3>3, <4>2
        <4> QED BY <4>1, <4>2
      <3>4. AbandonOK' BY <2>5, <3>3 DEF AbandonOK, Mutex
      <3>5. IdleOK' BY <2>5 DEF IdleOK
      <3>6. RetAt(pc'[t], loc'[t].ret, call'[t].what) BY <1>1, <2>1, Here
      <3>7. HandedAt(t, pc'[t], loc'[t].ret, call'[t].what, srv') BY <1>1, <1>3, <2>1 DEF HandedAt
      <3>8. \A u \in Threads : u # t => Apart(u, srv, srv') BY <1>1, <1>2, <2>5, OneServed
      <3> QED BY <1>6, <3>2, <3>4, <3>5, <3>6, <3>7, <3>8, RequestKeeps
    <2> QED BY <2>12, <2>13 DEF Good
  <1> QED BY <1>7, <1>8

LEMMA ServerSignalGood == ASSUME IInv, IInv', RInv, server_signal PROVE Good
  <1>0. ThreadTypes /\ WordTypes BY Parts
  <1>1. srv.pc = "signal" /\ ~word[srv.obj].locked BY DEF server_signal
  <1>2. /\ srv.req \in Threads /\ srv.obj \in Objs /\ srv.obj = call[srv.req].obj /\ srv.pos = 0 /\ srv \in Srvs
        /\ call[srv.req].what # "exit" /\ (call[srv.req].what = "sigwait" => srv.cur = srv.req /\ pc[srv.req] = "queued")
        /\ call[srv.req] \in CallsOf[srv.req] /\ call[srv.req] \in Call
    BY <1>1, SignalerAt, Parts DEF SignalingPCs, ServedOK, SignalServed
  <1>3. PICK t \in Threads, o \in Objs : t = srv.req /\ o = srv.obj BY <1>2
  <1>4. /\ pc[t] \in {"request", "queued"} /\ call[t].what \in {"signal", "reset", "sigwait"} /\ loc[t].ret \in Open
        /\ call[t].what = "sigwait" <=> pc[t] = "queued"
    BY <1>1, <1>2, <1>3, SignalerRet DEF SignalingPCs
  <1>5. word[o] \in Words(o) BY <1>0 DEF WordTypes
  <1> DEFINE y == Released(t)
             e == [loc[t] EXCEPT !.ret = "error"]
             l == [loc[t] EXCEPT !.ret = IF call[t].what = "sigwait" THEN "half" ELSE "success"]
  <1>6. e.ret = "error" /\ l.ret = IF call[t].what = "sigwait" THEN "half" ELSE "success"
    BY <1>0 DEF ThreadTypes, Locs
  <1>7. \/ /\ Refused(t) /\ word' = word
           /\ \/ /\ call[t].what = "sigwait" /\ srv' = [srv EXCEPT !.pc = "remove", !.i = 1]
                 /\ SetLoc(t, e) /\ UNCHANGED <<pc, call>>
              \/ call[t].what # "sigwait" /\ srv' = Srv0 /\ Goto(t, "return") /\ SetLoc(t, e) /\ UNCHANGED call
        \/ /\ ~Refused(t) /\ word' = [word EXCEPT ![o] = y]
           /\ SetLoc(t, l) /\ UNCHANGED <<pc, call>>
           /\ \/ srv' = [srv EXCEPT !.pc = "multi"]
              \/ srv' = Rescan
              \/ srv' = [srv EXCEPT !.pc = "done"]
    BY <1>3 DEF server_signal, Finish
  <1> HIDE DEF y, e, l
  <1>8. \/ /\ Refused(t) /\ call[t].what = "sigwait"
           /\ srv'.pc = "remove" /\ srv'.req = t /\ srv'.cur = t /\ srv'.pos = 0 /\ srv'.pc # "idle"
        \/ /\ Refused(t) /\ call[t].what # "sigwait" /\ srv' = Srv0 /\ srv'.pc = "idle" /\ srv'.req = 0 /\ srv'.pos = 0
        \/ ~Refused(t) /\ srv'.pc \in {"multi", "scan", "done"} /\ srv'.req = t
    <2>1. CASE srv' = [srv EXCEPT !.pc = "remove", !.i = 1] /\ Refused(t) /\ call[t].what = "sigwait"
      BY <1>2, <1>3, <2>1 DEF Srvs
    <2>2. CASE srv' = Srv0 /\ Refused(t) /\ call[t].what # "sigwait" BY <2>2 DEF Srv0
    <2>3. CASE ~Refused(t) /\ (srv' = [srv EXCEPT !.pc = "multi"] \/ srv' = [srv EXCEPT !.pc = "done"])
      BY <1>2, <1>3, <2>3 DEF Srvs
    <2>4. CASE ~Refused(t) /\ srv' = Rescan BY <1>2, <1>3, <2>4, RescanServes
    <2> QED BY <1>7, <2>1, <2>2, <2>3, <2>4
  <1>9. /\ Only(t) /\ call'[t] = call[t]
        /\ \/ Refused(t) /\ call[t].what = "sigwait" /\ pc'[t] = "queued" /\ loc'[t].ret = "error"
           \/ Refused(t) /\ call[t].what # "sigwait" /\ pc'[t] = "return" /\ loc'[t].ret = "error"
           \/ /\ ~Refused(t) /\ pc'[t] = pc[t]
              /\ loc'[t].ret = IF call[t].what = "sigwait" THEN "half" ELSE "success"
    BY <1>0, <1>4, <1>6, <1>7, OnlyMoves
  <1>10. /\ \A p \in Objs : p # o => SameWord(p)
         /\ Refused(t) => SameWord(o)
         /\ ~Refused(t) => Same(word'[o], y)
    <2>1. CASE Refused(t)
      <3>1. word' = word BY <1>7, <2>1
      <3> QED BY <2>1, <3>1 DEF SameWord, Same
    <2>2. CASE ~Refused(t)
      <3>1. word' = [word EXCEPT ![o] = y] BY <1>7, <2>2
      <3>2. word'[o] = y /\ \A p \in Objs : p # o => word'[p] = word[p] BY <1>0, <3>1 DEF WordTypes
      <3> QED BY <2>2, <3>2 DEF SameWord, Same
    <2> QED BY <2>1, <2>2
  <1>11. pc[t] # "take" /\ pc'[t] # "take" /\ srv'.pc \notin {"satisfy", "take"} BY <1>4, <1>8, <1>9
  <1>12. (\A u \in Threads : Taking(u)' = Taking(u)) /\ Taking(t) = {} BY <1>1, <1>9, <1>11, TakingElsewhere
  <1>13. \A u \in Threads : o \notin Taking(u) BY <1>1, <1>3, FreeView
  <1>14. call' = call BY <1>9, SameCalls
  <1>15. Plain(pc[t], loc[t].ret) = "pending" BY <1>4 DEF Plain, Open
  <1>16. Plain(pc'[t], loc'[t].ret) = IF Refused(t) THEN "error"
                                      ELSE IF call[t].what = "sigwait" THEN "half" ELSE "success"
    BY <1>4, <1>9 DEF Plain
  <1>17. /\ Step /\ HalvesOK'
    BY <1>2, <1>3, <1>4, <1>9, <1>10, <1>12, <1>13, <1>14, <1>15, <1>16, Signals DEF y
  <1>18. RInv'
    <2>1. \/ srv'.pos = 0 /\ srv'.pc \notin SignalingPCs
          \/ call'[srv'.req].what # "exit"
      BY <1>4, <1>8, <1>9 DEF SignalingPCs
    <2>2. AbandonOK' BY <2>1, AbandonKept
    <2>3. IdleOK' BY <1>8 DEF IdleOK
    <2>4. RetAt(pc'[t], loc'[t].ret, call'[t].what) BY <1>4, <1>9 DEF RetAt, OpenPCs
    <2>5. HandedAt(t, pc'[t], loc'[t].ret, call'[t].what, srv')
      <3>1. CASE Refused(t) /\ call[t].what = "sigwait" BY <1>8, <1>9, <3>1 DEF HandedAt
      <3>2. CASE Refused(t) /\ call[t].what # "sigwait" BY <1>9, <3>2 DEF HandedAt
      <3>3. CASE ~Refused(t) BY <1>4, <1>8, <1>9, <3>3 DEF HandedAt
      <3> QED BY <3>1, <3>2, <3>3
    <2>6. \A u \in Threads : u # t => Apart(u, srv, srv')
      <3>1. srv.req \in {t, 0} /\ srv'.req \in {t, 0} BY <1>3, <1>8
      <3>2. srv'.pc \in {"satisfy", "remove"} => srv'.cur = t BY <1>8
      <3> QED BY <1>1, <3>1, <3>2, OneServed
    <2> QED BY <1>9, <1>17, <2>2, <2>3, <2>4, <2>5, <2>6, RequestKeeps
  <1> QED BY <1>17, <1>18 DEF Good

LEMMA ServersGood == ASSUME IInv, IInv', RInv, NoOverflow, ServerStep PROVE Good
  BY EnqueueGood, CheckWaitGood, SatisfiedGood, EndWaitGood, ServerSignalGood, WakeWaitersGood, WakeUpGood,
     SignalDoneGood, AbandonGood, SlotStepsGood, RegisterCheckGood, UnregisteredGood, GuardGood, ProbeGood,
     ServerTakeGood, UnguardGood, AttemptDoneGood, UnsignaledGood
  DEF ServerStep

-----------------------------------------------------------------------------
LEMMA StutterGood == ASSUME IInv, IInv', RInv, UNCHANGED vars PROVE Good
  <1>1. UNCHANGED <<word, pc, call, loc, srv>> BY DEF vars, client
  <1>2. \A o \in Objs : SameWord(o) BY <1>1 DEF SameWord, Same
  <1>3. ServerStill BY <1>1 DEF ServerStill
  <1>4. \A u \in Threads : Taking(u)' = Taking(u) BY <1>1, <1>3, TakingStill
  <1>5. \A u \in Threads : Status(u)' = Status(u) BY <1>1, <1>2, <1>4, StatusKept, TakingAt DEF TakingOK
  <1>6. \A o \in Objs : SameView(o) BY <1>2, <1>4, ViewKept
  <1>7. Step BY <1>1, <1>5, <1>6, NtQuiet
  <1>8. HalvesOK' BY <1>2, HalvesSame DEF RInv
  <1>9. RetOK' /\ HandedOK' BY <1>1 DEF RInv, RetOK, HandedOK
  <1>10. AbandonOK' /\ IdleOK' BY <1>1 DEF RInv, AbandonOK, IdleOK, Mutex
  <1> QED BY <1>7, <1>8, <1>9, <1>10 DEF Good, RInv

LEMMA InitRefines == ASSUME Init PROVE RInv /\ Nt!Init
  <1>1. /\ \A t \in Threads : pc[t] = "idle" /\ loc[t] = Loc0
        /\ srv = Srv0 /\ srv.pc = "idle" /\ srv.pos = 0
        /\ \A o \in Objs : word[o].low = InitWord[o][1] /\ word[o].high = InitWord[o][2]
    BY DEF Init, Srv0, W!create_wfusync
  <1>2. ASSUME NEW o \in Objs
        PROVE  HalfOK(o, word[o]) /\ (Mutex(o) => InitWord[o][1] >= 0)
    <2>1. CASE Mutex(o)
      <3>1. CASE InitWord[o] = <<0, 0>> BY <1>1, <2>1, <3>1 DEF HalfOK, Mutex
      <3>2. CASE InitWord[o][1] \in Threads /\ InitWord[o][2] = 1
        <4>1. PICK t \in Threads : t = InitWord[o][1] BY <3>2
        <4>2. t \in Nat \ {0} BY ThreadsAssumption
        <4>3. word[o].low = t /\ word[o].high = 1 BY <1>1, <3>2, <4>1
        <4> QED BY <2>1, <4>1, <4>2, <4>3 DEF HalfOK, Mutex
      <3> QED BY <2>1, <3>1, <3>2, InitAssumption DEF Mutex
    <2>2. CASE ~Mutex(o) BY <1>1, <2>2 DEF HalfOK, Mutex
    <2> QED BY <2>1, <2>2
  <1>3. RInv
    <2>1. HalvesOK BY <1>2 DEF HalvesOK
    <2>2. RetOK /\ HandedOK BY <1>1 DEF RetOK, RetAt, OpenPCs, HandedOK, HandedAt
    <2>3. AbandonOK BY <1>1 DEF AbandonOK, SignalingPCs
    <2>4. IdleOK BY <1>1 DEF IdleOK
    <2> QED BY <2>1, <2>2, <2>3, <2>4 DEF RInv
  <1>4. \A o \in Objs : View(o) = word[o]
    <2>1. ServerTakes = {} BY <1>1 DEF ServerTakes
    <2>2. \A t \in Threads : Takes(t) = {} BY <1>1 DEF Takes
    <2> QED BY <2>1, <2>2 DEF View
  <1>5. [o \in Objs |-> IF Mutex(o) THEN View(o).high ELSE View(o).low]
          = [o \in Objs |-> InitWord[o][IF Mutex(o) THEN 2 ELSE 1]]
    BY <1>1, <1>4
  <1>6. [o \in Objs |-> IF Mutex(o) /\ View(o).low > 0 THEN View(o).low ELSE 0]
          = [o \in Objs |-> IF Mutex(o) THEN InitWord[o][1] ELSE 0]
    <2>1. ASSUME NEW o \in Objs, Mutex(o) PROVE (IF View(o).low > 0 THEN View(o).low ELSE 0) = InitWord[o][1]
      <3>1. View(o).low = InitWord[o][1] /\ InitWord[o][1] >= 0 /\ InitWord[o][1] \in Int
        BY <1>1, <1>2, <1>4, <2>1, InitAssumption
      <3> QED BY <3>1
    <2> QED BY <2>1
  <1>7. [o \in Objs |-> Mutex(o) /\ View(o).low < 0] = [o \in Objs |-> FALSE]
    <2>1. ASSUME NEW o \in Objs, Mutex(o) PROVE ~(View(o).low < 0)
      <3>1. View(o).low = InitWord[o][1] /\ InitWord[o][1] >= 0 /\ InitWord[o][1] \in Int
        BY <1>1, <1>2, <1>4, <2>1, InitAssumption
      <3> QED BY <3>1
    <2> QED BY <2>1
  <1>8. [t \in Threads |-> Status(t)] = [t \in Threads |-> "idle"]
    <2>1. ServerTakes = {} BY <1>1 DEF ServerTakes
    <2>2. ASSUME NEW t \in Threads PROVE Status(t) = "idle" BY <1>1, <2>1 DEF Status
    <2> QED BY <2>2
  <1>9. Nt!Init BY <1>5, <1>6, <1>7, <1>8 DEF Nt!Init
  <1> QED BY <1>3, <1>9

LEMMA NextRefines == ASSUME IInv, RInv, NoOverflow, [Next]_vars PROVE Good
  <1>1. IInv' BY NextStep
  <1>2. ASSUME NEW t \in Threads, Invoke(t) \/ ThreadStep(t) \/ wait_timeout(t) \/ wait_interrupted(t) PROVE Good
    BY <1>1, <1>2, ThreadsGood
  <1>3. ASSUME NEW t \in Threads, ServerAccept(t) \/ thread_timeout(t) PROVE Good
    BY <1>1, <1>3, SelectOnGood, StartRequestGood, StartSlotGood, NotifyGood, ThreadTimeoutGood DEF ServerAccept
  <1>4. ASSUME ServerStep PROVE Good BY <1>1, <1>4, ServersGood
  <1> QED BY <1>1, <1>2, <1>3, <1>4, StutterGood DEF Next

(* Waits on several objects (wfusync_wait_multiple, wait_on,               *)
(* try_wait_all_wfusync) and the operations next to them keep the promise  *)
(* of the objects wineserver keeps alone: a WaitAll takes all its objects  *)
(* at one moment or none, though client and server take them one by one, a *)
(* WaitAny and the second half of SignalObjectAndWait take one, nothing is *)
(* taken or signaled twice, and one wait is told of an abandoned mutex.    *)
(* Only wineserver's end_wait (wfusync_mutex_satisfied) does not test the  *)
(* recursion count of a mutex, so it must not have reached INT_MAX.        *)
THEOREM MultiImplementsNt == Spec /\ []NoOverflow => NtSpec
  <1>1. Init => RInv /\ Nt!Init BY InitRefines
  <1>2. IInv /\ RInv /\ NoOverflow /\ [Next]_vars => RInv' /\ [Nt!Next]_(Nt!vars)
    BY NextRefines DEF Good, Step
  <1> QED BY <1>1, <1>2, Invariant, PTL DEF Spec, NtSpec, Nt!Spec
=============================================================================
