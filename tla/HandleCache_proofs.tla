------------------------- MODULE HandleCache_proofs --------------------------
(***************************************************************************)
(* Proofs about the handle caches of a process: the reference counts of    *)
(* inproc_sync_cache are exact, every descriptor has one owner, what the   *)
(* caches say of an open handle is true, and so a use of a handle works on *)
(* what the handle stands for (NtHandles), for any number of threads,      *)
(* handles, objects and descriptors.                                       *)
(***************************************************************************)
EXTENDS HandleCache, FiniteSetTheorems, TLAPS

(* With WFUSync, the program leaves the two low bits of its handles alone. *)
OneTag == Wfu => Tags = {0}

-----------------------------------------------------------------------------
(* The inductive invariant of the entries and their descriptors.           *)

(* fd_cache_mutex is held.                                                 *)
InSection(t) ==
  \/ pc[t] \in {"leave", "request", "receive", "insert", "publish", "set_closed", "close_req", "drop_kind", "drop"}
  \/ Closing(t) /\ pc[t] \in {"lookup", "check", "dec", "close_fd"}
  \/ pc[t] \in {"dec", "close_fd"} /\ loc[t].cont = "request"
SectionOK == \A t \in Threads : InSection(t) => mutex = t

(* Whose code a place is, and where it goes on.                            *)
Ours == {"have", "act", "request", "receive", "insert", "publish",
         "kind", "entry", "word", "wake", "warm", "cached_state", "server"}
Theirs == {"set_closed", "close_req", "drop_kind", "drop"}
Shared == {"enter", "lookup", "check", "leave", "dec", "close_fd", "return"}
PlaceAt(t) ==
  /\ pc[t] \notin {"idle", "return", "create", "open"} => H(t) \in Handles
  /\ pc[t] \in Ours => call[t].op = "use"
  /\ pc[t] \in Theirs => Closing(t)
  /\ pc[t] \in Shared => Closing(t) \/ call[t].op = "use"
  /\ pc[t] \in {"idle", "create", "open", "mark"} => call[t].op \notin {"use", "close", "dup"}
  /\ pc[t] \in {"dec", "close_fd"} => IF Closing(t) THEN loc[t].cont = "close_req"
                                      ELSE loc[t].cont \in {"request", "enter", "return", "kind", "server"}
  /\ pc[t] = "leave" /\ ~Closing(t) => loc[t].cont \in {"have", "server", "return"}
  /\ pc[t] \in {"receive", "insert", "publish"} => loc[t].cont = "have"
PlaceOK == \A t \in Threads : PlaceAt(t)

(* What a thread has taken: a reference of the entry, a descriptor of its  *)
(* own, or one it is about to close.                                       *)
Has(t) == pc[t] \in {"have", "act"} \/ (pc[t] = "leave" /\ ~Closing(t) /\ loc[t].cont = "have")
HeldAt(t) ==
  /\ pc[t] # "close_fd" => loc[t].saved = 0
  /\ loc[t].held > 0 => loc[t].stack.fd = 0
  /\ pc[t] \in {"check", "set_closed"} => loc[t].held = 1
  /\ Has(t) => loc[t].held = 1 \/ (loc[t].held = 0 /\ loc[t].stack.fd # 0)
  /\ pc[t] = "dec" => loc[t].held > 0 \/ loc[t].stack.fd # 0
  /\ pc[t] = "close_fd" => loc[t].held < 2 /\ loc[t].stack.fd = 0
  /\ pc[t] \in {"receive", "insert", "publish"} => loc[t].held = 0 /\ loc[t].stack.fd # 0
  /\ pc[t] \in Labels \ {"check", "set_closed", "have", "act", "dec", "close_fd", "receive", "insert", "publish"}
       /\ ~Has(t) => loc[t].held = 0 /\ loc[t].stack.fd = 0
HeldOK == \A t \in Threads : HeldAt(t)

(* What the holder of the mutex knows of the entry of its handle.          *)
EntryAt(t) ==
  /\ pc[t] = "publish" => /\ cache[H(t)].ref = 0 /\ ~cache[H(t)].closed
                          /\ cache[H(t)].fd = loc[t].stack.fd /\ cache[H(t)].acc = loc[t].stack.acc
  /\ pc[t] = "set_closed" => ~cache[H(t)].closed
EntryOK == /\ \A t \in Threads : EntryAt(t)
           /\ \A h \in Handles : cache[h].ref > 0 => cache[h].fd # 0

(* FdOwnership, kind of owner by kind of owner.                            *)
EntryOwns(h, d) == cache[h].ref > 0 /\ cache[h].fd = d
StackOwns(t, d) == loc[t].stack.fd = d
CloserOwns(t, d) == loc[t].saved = d
FdAt(d) ==
  /\ fds[d] # 0 <=> \/ \E h \in Handles : EntryOwns(h, d)
                    \/ \E t \in Threads : StackOwns(t, d) \/ CloserOwns(t, d)
  /\ \A h, i \in Handles : EntryOwns(h, d) /\ EntryOwns(i, d) => h = i
  /\ \A h \in Handles, t \in Threads : EntryOwns(h, d) => ~StackOwns(t, d) /\ ~CloserOwns(t, d)
  /\ \A t, u \in Threads : /\ StackOwns(t, d) => ~CloserOwns(u, d)
                           /\ StackOwns(t, d) /\ StackOwns(u, d) => t = u
                           /\ CloserOwns(t, d) /\ CloserOwns(u, d) => t = u
FdOK == \A d \in Fds : FdAt(d)

HInv == TypeOK /\ SectionOK /\ PlaceOK /\ HeldOK /\ EntryOK /\ ReferencesHeld /\ FdOK

-----------------------------------------------------------------------------
(* The inductive invariant of what the caches say.                         *)

(* An open entry stands for what the handle stands for; one that is being  *)
(* closed is out of reach before wineserver is asked.                      *)
TableOK == \A h \in Handles : table[h].obj = 0 => table[h] = Nothing
CacheOK == \A h \in Handles : cache[h].ref > 0 /\ ~cache[h].closed =>
             fds[cache[h].fd] = table[h].obj /\ cache[h].acc = table[h].acc
StackAt(t) == pc[t] \in {"receive", "insert", "publish"} =>
  fds[loc[t].stack.fd] = table[H(t)].obj /\ loc[t].stack.acc = table[H(t)].acc
StackOK == \A t \in Threads : StackAt(t)
GoneAt(t) == pc[t] \in {"dec", "close_fd", "close_req"} /\ Closing(t) =>
  cache[H(t)].ref = 0 \/ cache[H(t)].closed
GoneOK == \A t \in Threads : GoneAt(t)

(* Likewise the entries of wfusync_cache.                                  *)
WfOK == \A h \in Handles : wf[h].valid =>
          /\ Wfu /\ wf[h].handle = 4 * h
          /\ wf[h].obj = table[h].obj /\ wf[h].acc = table[h].acc /\ table[h].obj # 0
DroppedAt(t) == Wfu /\ Closing(t) /\ pc[t] \in {"lookup", "check", "set_closed", "dec", "close_fd", "close_req"} =>
  ~wf[H(t)].valid
DroppedOK == \A t \in Threads : DroppedAt(t)

NInv == TableOK /\ CacheOK /\ StackOK /\ GoneOK /\ WfOK /\ DroppedOK

(* What a use has come to.                                                 *)
Answered(t) == \/ pc[t] \in {"wake", "return"}
               \/ pc[t] \in {"dec", "close_fd", "leave"} /\ loc[t].cont = "return"
ResultAt(t) ==
  /\ call[t].op = "use" => H(t) \in Handles /\ (Answered(t) <=> result[t] # Pending)
  /\ pc[t] = "act" => Settled(t).acc
  /\ pc[t] = "word" => loc[t].obj # 0
  /\ Wfu => pc[t] # "act"
  /\ ~Wfu => /\ pc[t] \notin {"kind", "entry", "word", "wake", "warm", "cached_state", "server"}
             /\ ~Closing(t) /\ pc[t] \in {"dec", "close_fd", "leave"} => loc[t].cont \notin {"kind", "server"}
ResultOK == \A t \in Threads : ResultAt(t)

-----------------------------------------------------------------------------
(* Types.                                                                  *)
Locals == [stack : [fd : Fds \cup {0}, acc : BOOLEAN], held : 0..2, saved : Fds \cup {0},
           obj : Objects \cup {0}, woke : Objects \cup {-1, 0}, cont : Labels, again : BOOLEAN]
Entries == [ref : Nat, fd : Fds \cup {0}, acc : BOOLEAN, closed : BOOLEAN]
WfEntries == [handle : Int, local : BOOLEAN, valid : BOOLEAN, obj : Objects \cup {0}, acc : BOOLEAN]
Rows == [obj : Objects \cup {0}, acc : BOOLEAN, prot : BOOLEAN]
Asked == [op : Ops \cup {"none"}, h : Handles \cup {0}, tag : Tags]
Results == [what : Outcomes, obj : Objects \cup {0}]

ServerTypes == /\ table \in [Handles -> Rows] /\ live \subseteq Objects /\ made \in Nat
               /\ refs \in [Objects -> 0 .. UshortSize - 1]
CacheTypes == /\ cache \in [Handles -> Entries] /\ wf \in [Handles -> WfEntries]
              /\ kind \in [Handles -> {"unknown", "event"}] /\ fds \in [Fds -> Objects \cup {0}]
              /\ mutex \in Threads \cup {0} /\ known \subseteq Handles
ThreadTypes == /\ pc \in [Threads -> Labels] /\ call \in [Threads -> Asked] /\ left \in [Threads -> Nat]
               /\ loc \in [Threads -> Locals]
ResultTypes == result \in [Threads -> Results]
PublishType == \A t \in Threads : pc[t] = "publish" => cache[H(t)].ref = 0

LEMMA TypeParts ==
  TypeOK <=> ServerTypes /\ CacheTypes /\ ThreadTypes /\ ResultTypes /\ PublishType
  BY DEF TypeOK, ServerTypes, CacheTypes, ThreadTypes, ResultTypes, PublishType, Locals, Entries, WfEntries,
         Rows, Asked, Results

(* What the records that steps store are made of.                          *)
LEMMA Stored ==
  /\ Nothing \in Rows /\ NoEntry \in Entries /\ NoWf \in WfEntries /\ NoLocals \in Locals
  /\ Pending \in Results
  BY DEF Nothing, Rows, NoEntry, Entries, NoWf, WfEntries, Pending, Results, Outcomes, NoLocals, NoSync, Locals, Labels

(* Locals of which cont, again, obj or woke is set.                        *)
Quiet(r, q) == r \in Locals /\ r.held = q.held /\ r.stack = q.stack /\ r.saved = q.saved
LEMMA LocalsCont == ASSUME NEW q \in Locals, NEW c \in Labels PROVE Quiet([q EXCEPT !.cont = c], q)
  BY DEF Quiet, Locals
LEMMA LocalsAgain == ASSUME NEW q \in Locals, NEW c \in Labels PROVE Quiet([q EXCEPT !.cont = c, !.again = TRUE], q)
  BY DEF Quiet, Locals
LEMMA LocalsObj == ASSUME NEW q \in Locals, NEW o \in Objects \cup {0} PROVE Quiet([q EXCEPT !.obj = o], q)
  BY DEF Quiet, Locals
LEMMA LocalsWoke == ASSUME NEW q \in Locals, NEW o \in Objects \cup {-1, 0} PROVE Quiet([q EXCEPT !.woke = o], q)
  BY DEF Quiet, Locals

-----------------------------------------------------------------------------
(* A step of one thread: where it goes, with which locals and call.        *)
Goes(t, l, r, c) == /\ pc' = [pc EXCEPT ![t] = l] /\ loc' = [loc EXCEPT ![t] = r]
                    /\ call' = [call EXCEPT ![t] = c]
Only(t) == \A u \in Threads \ {t} : pc'[u] = pc[u] /\ loc'[u] = loc[u] /\ call'[u] = call[u]
LeftTypes == left \in [Threads -> Nat]

(* What a step leaves in order apart from the thread's own part.           *)
OtherTypes == ServerTypes /\ CacheTypes /\ ResultTypes /\ LeftTypes

LEMMA Went ==
  ASSUME ThreadTypes, NEW t \in Threads, NEW l \in Labels, NEW r \in Locals, NEW c \in Asked,
         Goes(t, l, r, c), LeftTypes'
  PROVE  /\ pc'[t] = l /\ loc'[t] = r /\ call'[t] = c /\ Only(t) /\ ThreadTypes'
         /\ H(t)' = c.h /\ (Closing(t)' <=> c.op \in {"close", "dup"})
         /\ \A u \in Threads \ {t} : H(u)' = H(u) /\ (Closing(u)' <=> Closing(u))
  <1>1. pc'[t] = l /\ loc'[t] = r /\ call'[t] = c /\ Only(t) BY DEF Goes, Only, ThreadTypes
  <1>2. ThreadTypes' BY DEF Goes, ThreadTypes, LeftTypes
  <1> QED BY <1>1, <1>2 DEF H, Closing, Only

(* Unchanged locals and calls.                                             *)
LEMMA SameLocals ==
  ASSUME ThreadTypes, NEW t \in Threads
  PROVE  loc = [loc EXCEPT ![t] = loc[t]] /\ call = [call EXCEPT ![t] = call[t]]
         /\ loc[t] \in Locals /\ call[t] \in Asked /\ pc[t] \in Labels
  BY DEF ThreadTypes

(* The parts of the invariant about each thread.                           *)
LEMMA SectionStep ==
  ASSUME Assumptions, SectionOK, NEW t \in Threads, Only(t), InSection(t)' => mutex' = t,
         mutex' = mutex \/ mutex \in {0, t}
  PROVE  SectionOK'
  <1>1. 0 \notin Threads BY DEF Assumptions, ThreadsAssumption
  <1>2. ASSUME NEW u \in Threads \ {t}, InSection(u)' PROVE mutex' = u
    <2>1. InSection(u) BY <1>2 DEF InSection, Only, Closing
    <2>2. mutex = u BY <2>1 DEF SectionOK
    <2> QED BY <2>2, <1>1
  <1> QED BY <1>2 DEF SectionOK

LEMMA PlaceStep ==
  ASSUME PlaceOK, NEW t \in Threads, Only(t), PlaceAt(t)' PROVE PlaceOK'
  <1>1. ASSUME NEW u \in Threads \ {t} PROVE PlaceAt(u)'
    BY DEF PlaceOK, PlaceAt, Only, Closing, H
  <1> QED BY <1>1 DEF PlaceOK

LEMMA HeldStep ==
  ASSUME HeldOK, NEW t \in Threads, Only(t), HeldAt(t)' PROVE HeldOK'
  <1>1. ASSUME NEW u \in Threads \ {t} PROVE HeldAt(u)'
    BY DEF HeldOK, HeldAt, Has, Only, Closing
  <1> QED BY <1>1 DEF HeldOK

(* References: what a thread holds is what its entry counts.               *)
Refs(h) == Cardinality(Holders(h)) + Cardinality(Closers(h))

LEMMA Count ==
  ASSUME Assumptions, NEW A, A \subseteq Threads
  PROVE  /\ IsFiniteSet(A) /\ Cardinality(A) \in Nat /\ (Cardinality(A) = 0 <=> A = {})
         /\ \A t \in Threads \ A : Cardinality(A \cup {t}) = Cardinality(A) + 1
         /\ \A t \in A : Cardinality(A \ {t}) = Cardinality(A) - 1
  <1>1. IsFiniteSet(Threads) BY DEF Assumptions, ThreadsAssumption
  <1>2. IsFiniteSet(A) BY <1>1, FS_Subset
  <1>3. Cardinality(A) \in Nat BY <1>2, FS_CardinalityType
  <1>4. Cardinality(A) = 0 <=> A = {} BY <1>2, FS_EmptySet
  <1>5. \A t \in Threads \ A : Cardinality(A \cup {t}) = Cardinality(A) + 1 BY <1>2, FS_AddElement
  <1>6. \A t \in A : Cardinality(A \ {t}) = Cardinality(A) - 1 BY <1>2, FS_RemoveElement
  <1> QED BY <1>2, <1>3, <1>4, <1>5, <1>6

LEMMA RefsHeld ==
  ASSUME Assumptions, ThreadTypes, NEW h
  PROVE  Refs(h) \in Nat /\ \A t \in Threads : H(t) = h => Refs(h) >= loc[t].held
  <1>1. Holders(h) \subseteq Threads /\ Closers(h) \subseteq Threads BY DEF Holders, Closers
  <1>2. Cardinality(Holders(h)) \in Nat /\ Cardinality(Closers(h)) \in Nat BY <1>1, Count
  <1>3. ASSUME NEW t \in Threads, H(t) = h PROVE Refs(h) >= loc[t].held
    <2>1. loc[t].held \in 0..2 BY DEF ThreadTypes, Locals
    <2>2. loc[t].held >= 1 => Cardinality(Holders(h)) # 0
      <3>1. loc[t].held >= 1 => t \in Holders(h) BY <1>3 DEF Holders
      <3> QED BY <3>1, <1>1, Count
    <2>3. loc[t].held = 2 => Cardinality(Closers(h)) # 0
      <3>1. loc[t].held = 2 => t \in Closers(h) BY <1>3 DEF Closers
      <3> QED BY <3>1, <1>1, Count
    <2> QED BY <2>1, <2>2, <2>3, <1>2 DEF Refs
  <1> QED BY <1>2, <1>3 DEF Refs

(* A thread takes or gives references, through the handle of its call.     *)
LEMMA RefsMoved ==
  ASSUME Assumptions, ThreadTypes, ThreadTypes', NEW t \in Threads, Only(t),
         H(t)' = H(t) \/ (loc[t].held = 0 /\ loc'[t].held = 0), NEW h
  PROVE  Refs(h)' = IF h = H(t) THEN Refs(h) + loc'[t].held - loc[t].held ELSE Refs(h)
  <1>1. Holders(h) \subseteq Threads /\ Closers(h) \subseteq Threads BY DEF Holders, Closers
  <1>2. Holders(h)' \subseteq Threads /\ Closers(h)' \subseteq Threads BY DEF Holders, Closers
  <1>3. Cardinality(Holders(h)) \in Nat /\ Cardinality(Closers(h)) \in Nat BY <1>1, Count
  <1>4. \A u \in Threads \ {t} : H(u)' = H(u) /\ loc'[u] = loc[u] BY DEF Only, H
  <1>5. loc[t].held \in 0..2 /\ loc'[t].held \in 0..2 BY DEF ThreadTypes, Locals
  <1>6. Cardinality(Holders(h)') = Cardinality(Holders(h))
          + (IF h = H(t) /\ loc[t].held = 0 /\ loc'[t].held > 0 THEN 1 ELSE 0)
          - (IF h = H(t) /\ loc[t].held > 0 /\ loc'[t].held = 0 THEN 1 ELSE 0)
    <2>1. CASE h = H(t) /\ loc[t].held = 0 /\ loc'[t].held > 0
      <3>1. t \in Threads \ Holders(h) BY <2>1 DEF Holders
      <3>2. Holders(h)' = Holders(h) \cup {t} BY <2>1, <1>4, <1>5 DEF Holders
      <3>3. Cardinality(Holders(h) \cup {t}) = Cardinality(Holders(h)) + 1 BY <3>1, <1>1, Count
      <3> QED BY <3>2, <3>3, <2>1, <1>3
    <2>2. CASE h = H(t) /\ loc[t].held > 0 /\ loc'[t].held = 0
      <3>1. t \in Holders(h) BY <2>2, <1>5 DEF Holders
      <3>2. Holders(h)' = Holders(h) \ {t} BY <2>2, <1>4, <1>5 DEF Holders
      <3>3. Cardinality(Holders(h) \ {t}) = Cardinality(Holders(h)) - 1 BY <3>1, <1>1, Count
      <3> QED BY <3>2, <3>3, <2>2, <1>3
    <2>3. CASE ~(h = H(t) /\ loc[t].held = 0 /\ loc'[t].held > 0) /\ ~(h = H(t) /\ loc[t].held > 0 /\ loc'[t].held = 0)
      <3>1. Holders(h)' = Holders(h) BY <2>3, <1>4, <1>5 DEF Holders
      <3> QED BY <3>1, <2>3, <1>3
    <2> QED BY <2>1, <2>2, <2>3
  <1>7. Cardinality(Closers(h)') = Cardinality(Closers(h))
          + (IF h = H(t) /\ loc[t].held < 2 /\ loc'[t].held = 2 THEN 1 ELSE 0)
          - (IF h = H(t) /\ loc[t].held = 2 /\ loc'[t].held < 2 THEN 1 ELSE 0)
    <2>1. CASE h = H(t) /\ loc[t].held < 2 /\ loc'[t].held = 2
      <3>1. t \in Threads \ Closers(h) BY <2>1 DEF Closers
      <3>2. Closers(h)' = Closers(h) \cup {t} BY <2>1, <1>4, <1>5 DEF Closers
      <3>3. Cardinality(Closers(h) \cup {t}) = Cardinality(Closers(h)) + 1 BY <3>1, <1>1, Count
      <3> QED BY <3>2, <3>3, <2>1, <1>3
    <2>2. CASE h = H(t) /\ loc[t].held = 2 /\ loc'[t].held < 2
      <3>1. t \in Closers(h) BY <2>2, <1>5 DEF Closers
      <3>2. Closers(h)' = Closers(h) \ {t} BY <2>2, <1>4, <1>5 DEF Closers
      <3>3. Cardinality(Closers(h) \ {t}) = Cardinality(Closers(h)) - 1 BY <3>1, <1>1, Count
      <3> QED BY <3>2, <3>3, <2>2, <1>3
    <2>3. CASE ~(h = H(t) /\ loc[t].held < 2 /\ loc'[t].held = 2) /\ ~(h = H(t) /\ loc[t].held = 2 /\ loc'[t].held < 2)
      <3>1. Closers(h)' = Closers(h) BY <2>3, <1>4, <1>5 DEF Closers
      <3> QED BY <3>1, <2>3, <1>3
    <2> QED BY <2>1, <2>2, <2>3
  <1>8. Refs(h)' = Cardinality(Holders(h)') + Cardinality(Closers(h)') BY DEF Refs
  <1>9. Refs(h) = Cardinality(Holders(h)) + Cardinality(Closers(h)) BY DEF Refs
  <1> DEFINE a == loc[t].held
             b == loc'[t].held
  <1> HIDE DEF a, b
  <1>10. a \in {0, 1, 2} /\ b \in {0, 1, 2} BY <1>5 DEF a, b
  <1>11. Refs(h)' = IF h = H(t) THEN Refs(h) + b - a ELSE Refs(h)
    BY <1>3, <1>6, <1>7, <1>8, <1>9, <1>10 DEF a, b
  <1> QED BY <1>11 DEF a, b

(* The count of an entry, references of the handle included.               *)
Kept(e) == IF e.ref > 0 /\ ~e.closed THEN 1 ELSE 0
LEMMA RefsExact == ReferencesHeld <=> \A h \in Handles : cache[h].ref = Refs(h) + Kept(cache[h])
  BY DEF ReferencesHeld, Refs, Kept

-----------------------------------------------------------------------------
(* Steps that leave the entries and the descriptors alone.                 *)
Calm(t) == /\ UNCHANGED <<cache, fds>>
           /\ loc'[t].held = loc[t].held /\ loc'[t].stack.fd = loc[t].stack.fd /\ loc'[t].saved = loc[t].saved
           /\ H(t)' = H(t) \/ loc[t].held = 0
           /\ pc'[t] \notin {"publish", "set_closed"}

LEMMA CalmStep ==
  ASSUME Assumptions, HInv, ThreadTypes', NEW t \in Threads, Only(t), Calm(t)
  PROVE  EntryOK' /\ ReferencesHeld' /\ FdOK'
  <1>1. EntryOK'
    <2>1. ASSUME NEW u \in Threads PROVE EntryAt(u)'
      <3>1. CASE u = t BY <3>1 DEF Calm, EntryAt
      <3>2. CASE u # t
        <4>1. EntryAt(u) BY DEF HInv, EntryOK
        <4> QED BY <4>1, <3>2 DEF EntryAt, Only, H, Calm
      <3> QED BY <3>1, <3>2
    <2>2. \A h \in Handles : cache'[h].ref > 0 => cache'[h].fd # 0 BY DEF HInv, EntryOK, Calm
    <2> QED BY <2>1, <2>2 DEF EntryOK
  <1>2. ThreadTypes BY TypeParts DEF HInv
  <1>3. ReferencesHeld'
    <2>1. ASSUME NEW h \in Handles PROVE Refs(h)' = Refs(h)
      <3>1. H(t)' = H(t) \/ (loc[t].held = 0 /\ loc'[t].held = 0) BY DEF Calm
      <3>2. Refs(h)' = IF h = H(t) THEN Refs(h) + loc'[t].held - loc[t].held ELSE Refs(h)
        BY <1>2, <3>1, RefsMoved
      <3>3. loc'[t].held = loc[t].held /\ loc[t].held \in Int /\ Refs(h) \in Nat
        BY <1>2, RefsHeld, SMTT(20) DEF Calm, ThreadTypes, Locals
      <3> QED BY <3>2, <3>3
    <2>2. \A h \in Handles : cache[h].ref = Refs(h) + Kept(cache[h]) BY RefsExact DEF HInv
    <2>3. \A h \in Handles : cache'[h].ref = Refs(h)' + Kept(cache'[h]) BY <2>1, <2>2 DEF Calm
    <2> QED BY <2>3 DEF ReferencesHeld, Refs, Kept
  <1>4. FdOK'
    <2>1. \A u \in Threads, d \in Fds : /\ StackOwns(u, d)' <=> StackOwns(u, d)
                                        /\ CloserOwns(u, d)' <=> CloserOwns(u, d)
      BY DEF StackOwns, CloserOwns, Only, Calm
    <2>2. \A h \in Handles, d \in Fds : EntryOwns(h, d)' <=> EntryOwns(h, d) BY DEF EntryOwns, Calm
    <2>3. fds' = fds BY DEF Calm
    <2>4. ASSUME NEW d \in Fds PROVE FdAt(d)'
      <3>1. FdAt(d) BY DEF HInv, FdOK
      <3> QED BY <3>1, <2>1, <2>2, <2>3 DEF FdAt
    <2> QED BY <2>4 DEF FdOK
  <1> QED BY <1>1, <1>3, <1>4

(* The invariant from its parts.                                           *)
LEMMA Assemble ==
  ASSUME Assumptions, HInv, NEW t \in Threads, Only(t), ThreadTypes', OtherTypes',
         InSection(t)' => mutex' = t, mutex' = mutex \/ mutex \in {0, t},
         PlaceAt(t)', HeldAt(t)', EntryOK', ReferencesHeld', FdOK'
  PROVE  HInv'
  <1>1. SectionOK' BY SectionStep DEF HInv
  <1>2. PlaceOK' /\ HeldOK' BY PlaceStep, HeldStep DEF HInv
  <1>3. PublishType' BY DEF EntryOK, EntryAt, PublishType
  <1>4. TypeOK' BY <1>3, TypeParts, PTL DEF OtherTypes
  <1> QED BY <1>1, <1>2, <1>4 DEF HInv

LEMMA CalmMove ==
  ASSUME Assumptions, HInv, NEW t \in Threads, NEW l \in Labels \ {"publish", "set_closed"}, NEW r \in Locals,
         NEW c \in Asked, Goes(t, l, r, c), OtherTypes', UNCHANGED <<cache, fds>>,
         r.held = loc[t].held, r.stack.fd = loc[t].stack.fd, r.saved = loc[t].saved, c.h = H(t) \/ loc[t].held = 0,
         mutex' = mutex \/ mutex \in {0, t},
         pc'[t] = l /\ loc'[t] = r /\ call'[t] = c /\ H(t)' = c.h /\ (Closing(t)' <=> c.op \in {"close", "dup"})
           => (InSection(t)' => mutex' = t) /\ PlaceAt(t)' /\ HeldAt(t)'
  PROVE  HInv'
  <1>1. ThreadTypes /\ LeftTypes' BY TypeParts DEF HInv, OtherTypes
  <1>2. pc'[t] = l /\ loc'[t] = r /\ call'[t] = c /\ Only(t) /\ ThreadTypes'
        /\ H(t)' = c.h /\ (Closing(t)' <=> c.op \in {"close", "dup"})
    BY <1>1, Went
  <1>3. Calm(t) BY <1>2 DEF Calm
  <1>4. EntryOK' /\ ReferencesHeld' /\ FdOK' BY <1>2, <1>3, CalmStep
  <1>5. (InSection(t)' => mutex' = t) /\ PlaceAt(t)' /\ HeldAt(t)' BY <1>2
  <1> QED BY <1>2, <1>4, <1>5, Assemble

(* What the invariant says of the thread that moves.                       *)
LEMMA Here ==
  ASSUME HInv, NEW t \in Threads
  PROVE  /\ PlaceAt(t) /\ HeldAt(t) /\ EntryAt(t) /\ (InSection(t) => mutex = t)
         /\ ThreadTypes /\ OtherTypes
         /\ loc[t] \in Locals /\ call[t] \in Asked /\ pc[t] \in Labels
         /\ loc = [loc EXCEPT ![t] = loc[t]] /\ call = [call EXCEPT ![t] = call[t]]
  <1>1. ThreadTypes /\ OtherTypes BY TypeParts DEF HInv, OtherTypes, ThreadTypes, LeftTypes
  <1>2. PlaceAt(t) /\ HeldAt(t) /\ EntryAt(t) /\ (InSection(t) => mutex = t)
    BY DEF HInv, PlaceOK, HeldOK, EntryOK, SectionOK
  <1> QED BY <1>1, <1>2, SameLocals

(* fd_cache_mutex.                                                         *)
LEMMA EnterStep ==
  ASSUME Assumptions, HInv, NEW t \in Threads, enter_section(t)
  PROVE  HInv'
  <1> DEFINE l == IF Closing(t) /\ Wfu THEN "drop_kind" ELSE "lookup"
  <1>1. Goes(t, l, loc[t], call[t]) BY Here DEF enter_section, Move, Goto, Goes
  <1>2. OtherTypes'
    BY Here DEF enter_section, Move, OtherTypes, ServerTypes, CacheTypes, ResultTypes, LeftTypes, server, caches
  <1>3. l \in Labels \ {"publish", "set_closed"} BY DEF Labels
  <1>4. ASSUME pc'[t] = l, loc'[t] = loc[t], call'[t] = call[t], H(t)' = call[t].h,
               Closing(t)' <=> call[t].op \in {"close", "dup"}
        PROVE  (InSection(t)' => mutex' = t) /\ PlaceAt(t)' /\ HeldAt(t)'
    BY <1>4, Here DEF enter_section, Move, Labels, PlaceAt, HeldAt, Has, H, Closing, Ours, Theirs, Shared
  <1> QED BY <1>1, <1>2, <1>3, <1>4, Here, CalmMove DEF enter_section, H, caches

LEMMA LeaveStep ==
  ASSUME Assumptions, HInv, NEW t \in Threads, leave_section(t)
  PROVE  HInv'
  <1> DEFINE l == IF Closing(t) THEN "return" ELSE loc[t].cont
  <1>1. Goes(t, l, loc[t], call[t]) BY Here DEF leave_section, Move, Goto, Keep, Goes
  <1>2. OtherTypes'
    BY Here, Stored DEF leave_section, Move, OtherTypes, ServerTypes, CacheTypes, ResultTypes, LeftTypes, server, caches
  <1>3. l \in Labels \ {"publish", "set_closed"} BY Here DEF Labels, PlaceAt, leave_section, Closing, Move
  <1>4. ASSUME pc'[t] = l, loc'[t] = loc[t], call'[t] = call[t], H(t)' = call[t].h,
               Closing(t)' <=> call[t].op \in {"close", "dup"}
        PROVE  (InSection(t)' => mutex' = t) /\ PlaceAt(t)' /\ HeldAt(t)'
    BY <1>4, Here DEF leave_section, Move, InSection, Labels, PlaceAt, HeldAt, Has, H, Closing, Ours, Theirs, Shared
  <1> QED BY <1>1, <1>2, <1>3, <1>4, Here, CalmMove DEF leave_section, Move, H, caches, InSection

(* wfusync_cache_inproc_sync, and what uses the result.                    *)
LEMMA ReceiveStep ==
  ASSUME Assumptions, HInv, NEW t \in Threads, wfusync_cache_inproc_sync(t)
  PROVE  HInv'
  <1> DEFINE l == "insert"
  <1>1. Goes(t, l, loc[t], call[t]) BY Here DEF wfusync_cache_inproc_sync, Move, Goto, Keep, Goes
  <1>2. OtherTypes'
    <2>1. fds[loc[t].stack.fd] \in Objects \cup {0} /\ loc[t].stack.acc \in BOOLEAN
      BY Here DEF wfusync_cache_inproc_sync, Move, HeldAt, OtherTypes, CacheTypes, Locals
    <2>2. Value(t) \in Int
      BY Here DEF Value, H, Asked, Assumptions, TagsAssumption, HandlesAssumption
    <2> DEFINE e == [handle |-> Value(t), local |-> wf[H(t)].handle = Value(t) /\ wf[H(t)].local,
                     valid |-> TRUE, obj |-> fds[loc[t].stack.fd], acc |-> loc[t].stack.acc]
    <2>5. e \in WfEntries BY <2>1, <2>2 DEF WfEntries
    <2>6. wf' = IF Wfu THEN [wf EXCEPT ![H(t)] = e] ELSE wf BY DEF wfusync_cache_inproc_sync
    <2> HIDE DEF e
    <2>3. wf' \in [Handles -> WfEntries] BY Here, <2>5, <2>6 DEF OtherTypes, CacheTypes
    <2>4. kind' \in [Handles -> {"unknown", "event"}]
      BY Here DEF wfusync_cache_inproc_sync, OtherTypes, CacheTypes
    <2> QED BY Here, <2>3, <2>4
          DEF wfusync_cache_inproc_sync, Move, OtherTypes, ServerTypes, CacheTypes, ResultTypes, LeftTypes, server
  <1>3. l \in Labels \ {"publish", "set_closed"} BY Here DEF Labels, PlaceAt, wfusync_cache_inproc_sync, Closing, Move
  <1>4. ASSUME pc'[t] = l, loc'[t] = loc[t], call'[t] = call[t], H(t)' = call[t].h,
               Closing(t)' <=> call[t].op \in {"close", "dup"}
        PROVE  (InSection(t)' => mutex' = t) /\ PlaceAt(t)' /\ HeldAt(t)'
    BY <1>4, Here DEF wfusync_cache_inproc_sync, Move, InSection, Labels, PlaceAt, HeldAt, Has, H, Closing, Ours, Theirs, Shared
  <1> QED BY <1>1, <1>2, <1>3, <1>4, Here, CalmMove DEF wfusync_cache_inproc_sync, Move, H, caches

(* wfusync_drop_handle.                                                    *)
LEMMA DropKindStep ==
  ASSUME Assumptions, HInv, NEW t \in Threads, drop_kind(t)
  PROVE  HInv'
  <1> DEFINE l == "drop"
  <1>1. Goes(t, l, loc[t], call[t]) BY Here DEF drop_kind, Move, Goto, Keep, Goes
  <1>2. OtherTypes'
    BY Here, Stored DEF drop_kind, Move, OtherTypes, ServerTypes, CacheTypes, ResultTypes, LeftTypes, server, caches
  <1>3. l \in Labels \ {"publish", "set_closed"} BY Here DEF Labels, PlaceAt, drop_kind, Closing, Move
  <1>4. ASSUME pc'[t] = l, loc'[t] = loc[t], call'[t] = call[t], H(t)' = call[t].h,
               Closing(t)' <=> call[t].op \in {"close", "dup"}
        PROVE  (InSection(t)' => mutex' = t) /\ PlaceAt(t)' /\ HeldAt(t)'
    BY <1>4, Here DEF drop_kind, Move, InSection, Labels, PlaceAt, HeldAt, Has, H, Closing, Ours, Theirs, Shared
  <1> QED BY <1>1, <1>2, <1>3, <1>4, Here, CalmMove DEF drop_kind, Move, H, caches

LEMMA DropStep ==
  ASSUME Assumptions, HInv, NEW t \in Threads, wfusync_drop_handle(t)
  PROVE  HInv'
  <1> DEFINE l == "lookup"
  <1>1. Goes(t, l, loc[t], call[t]) BY Here DEF wfusync_drop_handle, Move, Goto, Keep, Goes
  <1>2. OtherTypes'
    BY Here, Stored DEF wfusync_drop_handle, Move, OtherTypes, ServerTypes, CacheTypes, ResultTypes, LeftTypes, server, caches
  <1>3. l \in Labels \ {"publish", "set_closed"} BY Here DEF Labels, PlaceAt, wfusync_drop_handle, Closing, Move
  <1>4. ASSUME pc'[t] = l, loc'[t] = loc[t], call'[t] = call[t], H(t)' = call[t].h,
               Closing(t)' <=> call[t].op \in {"close", "dup"}
        PROVE  (InSection(t)' => mutex' = t) /\ PlaceAt(t)' /\ HeldAt(t)'
    BY <1>4, Here DEF wfusync_drop_handle, Move, InSection, Labels, PlaceAt, HeldAt, Has, H, Closing, Ours, Theirs, Shared
  <1> QED BY <1>1, <1>2, <1>3, <1>4, Here, CalmMove DEF wfusync_drop_handle, Move, H, caches

(* The fast path of WFUSync.                                               *)
LEMMA KindStep ==
  ASSUME Assumptions, HInv, NEW t \in Threads, wfusync_handle_kind_matches(t)
  PROVE  HInv'
  <1> DEFINE l == IF kind[H(t)] = "event" THEN "entry" ELSE NotImplemented(t)
  <1>1. Goes(t, l, loc[t], call[t]) BY Here DEF wfusync_handle_kind_matches, Move, Goto, Keep, Goes
  <1>2. OtherTypes'
    BY Here, Stored DEF wfusync_handle_kind_matches, Move, OtherTypes, ServerTypes, CacheTypes, ResultTypes, LeftTypes, server, caches
  <1>3. l \in Labels \ {"publish", "set_closed"} BY Here DEF Labels, PlaceAt, NotImplemented
  <1>4. ASSUME pc'[t] = l, loc'[t] = loc[t], call'[t] = call[t], H(t)' = call[t].h,
               Closing(t)' <=> call[t].op \in {"close", "dup"}
        PROVE  (InSection(t)' => mutex' = t) /\ PlaceAt(t)' /\ HeldAt(t)'
    BY <1>4, Here DEF wfusync_handle_kind_matches, Move, InSection, Labels, PlaceAt, HeldAt, Has, H, Closing, Ours, Theirs, Shared, NotImplemented
  <1> QED BY <1>1, <1>2, <1>3, <1>4, Here, CalmMove DEF wfusync_handle_kind_matches, Move, H, caches, NotImplemented

LEMMA ServerStep ==
  ASSUME Assumptions, HInv, NEW t \in Threads, event_op(t)
  PROVE  HInv'
  <1> DEFINE l == "return"
  <1>1. Goes(t, l, loc[t], call[t]) BY Here DEF event_op, Move, Goto, Keep, Goes
  <1>2. OtherTypes'
    <2>1. table[H(t)].obj \in Objects \cup {0}
      BY Here DEF event_op, Move, PlaceAt, Labels, OtherTypes, ServerTypes, Rows
    <2>2. result' \in [Threads -> Results]
      BY Here, <2>1 DEF event_op, Finish, OtherTypes, ResultTypes, Results, Outcomes
    <2> QED BY Here, <2>2 DEF event_op, Move, OtherTypes, ServerTypes, CacheTypes, ResultTypes, LeftTypes, server, caches
  <1>3. l \in Labels \ {"publish", "set_closed"} BY Here DEF Labels, PlaceAt, event_op, Closing, Move
  <1>4. ASSUME pc'[t] = l, loc'[t] = loc[t], call'[t] = call[t], H(t)' = call[t].h,
               Closing(t)' <=> call[t].op \in {"close", "dup"}
        PROVE  (InSection(t)' => mutex' = t) /\ PlaceAt(t)' /\ HeldAt(t)'
    BY <1>4, Here DEF event_op, Move, InSection, Labels, PlaceAt, HeldAt, Has, H, Closing, Ours, Theirs, Shared
  <1> QED BY <1>1, <1>2, <1>3, <1>4, Here, CalmMove DEF event_op, Move, H, caches

(* The call returns.                                                       *)
LEMMA EndStep ==
  ASSUME Assumptions, HInv, NEW t \in Threads, Ends(t)
  PROVE  HInv'
  <1> DEFINE l == "idle"
             r == NoLocals
             c == NoCall
  <1>1. Goes(t, l, r, c) BY Here DEF Ends, Return, Goto, Keep, Goes
  <1>2. OtherTypes'
    BY Here, Stored DEF Ends, Return, OtherTypes, ServerTypes, CacheTypes, ResultTypes, LeftTypes, server, caches
  <1>3. l \in Labels \ {"publish", "set_closed"} BY Here DEF Labels, PlaceAt, Ends, Closing, Return
  <1>4. r \in Locals BY Here, Stored DEF Labels, Locals
  <1>5. c \in Asked BY Here DEF Ends, Return, Asked, Ops, HInv, TypeOK, NoCall, Assumptions, TagsAssumption
  <1>6. ASSUME pc'[t] = l, loc'[t] = r, call'[t] = c, H(t)' = c.h,
               Closing(t)' <=> c.op \in {"close", "dup"}
        PROVE  (InSection(t)' => mutex' = t) /\ PlaceAt(t)' /\ HeldAt(t)'
    BY <1>6, Here DEF Ends, Return, InSection, Labels, PlaceAt, HeldAt, Has, H, Closing, Ours, Theirs, Shared, NoLocals, NoSync, NoCall
  <1> QED BY <1>1, <1>2, <1>3, <1>4, <1>5, <1>6, Here, CalmMove DEF Ends, Return, H, caches, HeldAt, Has, Labels, NoLocals, NoSync, NoCall

(* get_cached_inproc_sync, get_inproc_sync and its callers.                *)
LEMMA RefusedStep ==
  ASSUME Assumptions, HInv, NEW t \in Threads, Refused(t), check_closed(t)
  PROVE  HInv'
  <1> DEFINE l == "dec"
             r == [loc[t] EXCEPT !.cont = Missed(t)]
  <1>1. Goes(t, l, r, call[t]) BY Here DEF check_closed, Goto, Keep, Goes
  <1>2. OtherTypes'
    BY Here, Stored DEF check_closed, OtherTypes, ServerTypes, CacheTypes, ResultTypes, LeftTypes, server, caches
  <1>3. l \in Labels \ {"publish", "set_closed"} BY Here DEF Labels, PlaceAt, check_closed, Closing
  <1>4. Quiet(r, loc[t])
    <2>1. Missed(t) \in Labels BY DEF Labels, Missed
    <2> QED BY <2>1, Here, LocalsCont
  <1>5. ASSUME pc'[t] = l, loc'[t] = r, call'[t] = call[t], H(t)' = call[t].h,
               Closing(t)' <=> call[t].op \in {"close", "dup"}
        PROVE  (InSection(t)' => mutex' = t) /\ PlaceAt(t)' /\ HeldAt(t)'
    BY <1>5, Here DEF check_closed, InSection, Labels, PlaceAt, HeldAt, Has, H, Closing, Ours, Theirs, Shared, Missed
  <1> QED BY <1>1, <1>2, <1>3, <1>4, <1>5, Here, CalmMove DEF check_closed, H, caches, Quiet, Missed

LEMMA AcceptedStep ==
  ASSUME Assumptions, HInv, NEW t \in Threads, ~Refused(t), ~Closing(t), check_closed(t)
  PROVE  HInv'
  <1> DEFINE l == IF mutex = t THEN "leave" ELSE "have"
             r == [loc[t] EXCEPT !.cont = "have"]
  <1>1. Goes(t, l, r, call[t]) BY Here DEF check_closed, Goto, Keep, Goes
  <1>2. OtherTypes'
    BY Here, Stored DEF check_closed, OtherTypes, ServerTypes, CacheTypes, ResultTypes, LeftTypes, server, caches
  <1>3. l \in Labels \ {"publish", "set_closed"} BY Here DEF Labels, PlaceAt, check_closed, Closing
  <1>4. Quiet(r, loc[t])
    <2>1. "have" \in Labels BY DEF Labels
    <2> QED BY <2>1, Here, LocalsCont
  <1>5. ASSUME pc'[t] = l, loc'[t] = r, call'[t] = call[t], H(t)' = call[t].h,
               Closing(t)' <=> call[t].op \in {"close", "dup"}
        PROVE  (InSection(t)' => mutex' = t) /\ PlaceAt(t)' /\ HeldAt(t)'
    BY <1>5, Here DEF check_closed, InSection, Labels, PlaceAt, HeldAt, Has, H, Closing, Ours, Theirs, Shared
  <1> QED BY <1>1, <1>2, <1>3, <1>4, <1>5, Here, CalmMove DEF check_closed, H, caches, Quiet

LEMMA RightsStep ==
  ASSUME Assumptions, HInv, NEW t \in Threads, Sync(t).acc /\ ~Wfu, get_inproc_sync(t)
  PROVE  HInv'
  <1> DEFINE l == "act"
  <1>1. Goes(t, l, loc[t], call[t]) BY Here DEF get_inproc_sync, Goto, Keep, Goes
  <1>2. OtherTypes'
    BY Here, Stored DEF get_inproc_sync, OtherTypes, ServerTypes, CacheTypes, ResultTypes, LeftTypes, server, caches
  <1>3. l \in Labels \ {"publish", "set_closed"} BY Here DEF Labels, PlaceAt, get_inproc_sync, Closing
  <1>4. ASSUME pc'[t] = l, loc'[t] = loc[t], call'[t] = call[t], H(t)' = call[t].h,
               Closing(t)' <=> call[t].op \in {"close", "dup"}
        PROVE  (InSection(t)' => mutex' = t) /\ PlaceAt(t)' /\ HeldAt(t)'
    BY <1>4, Here DEF get_inproc_sync, InSection, Labels, PlaceAt, HeldAt, Has, H, Closing, Ours, Theirs, Shared
  <1> QED BY <1>1, <1>2, <1>3, <1>4, Here, CalmMove DEF get_inproc_sync, H, caches

LEMMA NoRightsStep ==
  ASSUME Assumptions, HInv, NEW t \in Threads, ~(Sync(t).acc /\ ~Wfu), get_inproc_sync(t)
  PROVE  HInv'
  <1> DEFINE l == "dec"
             r == [loc[t] EXCEPT !.cont = IF ~Wfu THEN "return" ELSE IF Sync(t).acc THEN "kind" ELSE "server", !.again = TRUE]
  <1>1. Goes(t, l, r, call[t]) BY Here DEF get_inproc_sync, Goto, Keep, Goes
  <1>2. OtherTypes'
    <2>1. result' \in [Threads -> Results]
      BY Here DEF get_inproc_sync, Finish, OtherTypes, ResultTypes, Results, Outcomes, Locals
    <2> QED BY Here, <2>1 DEF get_inproc_sync, OtherTypes, ServerTypes, CacheTypes, ResultTypes, LeftTypes, server, caches
  <1>3. l \in Labels \ {"publish", "set_closed"} BY Here DEF Labels, PlaceAt, get_inproc_sync, Closing
  <1>4. Quiet(r, loc[t])
    <2>1. (IF ~Wfu THEN "return" ELSE IF Sync(t).acc THEN "kind" ELSE "server") \in Labels BY DEF Labels
    <2> QED BY <2>1, Here, LocalsAgain
  <1>5. ASSUME pc'[t] = l, loc'[t] = r, call'[t] = call[t], H(t)' = call[t].h,
               Closing(t)' <=> call[t].op \in {"close", "dup"}
        PROVE  (InSection(t)' => mutex' = t) /\ PlaceAt(t)' /\ HeldAt(t)'
    BY <1>5, Here DEF get_inproc_sync, InSection, Labels, PlaceAt, HeldAt, Has, H, Closing, Ours, Theirs, Shared
  <1> QED BY <1>1, <1>2, <1>3, <1>4, <1>5, Here, CalmMove DEF get_inproc_sync, H, caches, Quiet

(* Who holds a reference uses an entry that has a descriptor.              *)
LEMMA RefsFd ==
  ASSUME Assumptions, HInv, NEW t \in Threads, loc[t].held > 0
  PROVE  H(t) \in Handles /\ cache[H(t)].ref > 0 /\ cache[H(t)].fd \in Fds
  <1>1. H(t) \in Handles BY Here DEF PlaceAt, HeldAt, Has, Labels
  <1>2. Refs(H(t)) >= loc[t].held /\ Refs(H(t)) \in Nat BY Here, RefsHeld
  <1>3. cache[H(t)].ref = Refs(H(t)) + Kept(cache[H(t)]) BY <1>1, RefsExact DEF HInv
  <1>4. Kept(cache[H(t)]) \in {0, 1} BY DEF Kept
  <1>5. loc[t].held \in Nat BY Here DEF Locals
  <1>6. cache[H(t)].ref > 0 BY <1>2, <1>3, <1>4, <1>5
  <1>7. cache[H(t)].fd # 0 BY <1>1, <1>6 DEF HInv, EntryOK
  <1>8. cache[H(t)].fd \in Fds \cup {0} BY <1>1, Here DEF OtherTypes, CacheTypes, Entries
  <1> QED BY <1>1, <1>6, <1>7, <1>8

LEMMA ActStep ==
  ASSUME Assumptions, HInv, NEW t \in Threads, act(t)
  PROVE  HInv'
  <1> DEFINE l == "dec"
             r == [loc[t] EXCEPT !.cont = "return"]
  <1>1. Goes(t, l, r, call[t]) BY Here DEF act, Move, Goto, Keep, Goes
  <1>2. OtherTypes'
    <2>1. Sync(t).fd \in Fds
      <3>1. loc[t].held > 0 => cache[H(t)].fd \in Fds /\ cache[H(t)].ref > 0 BY RefsFd
      <3> QED BY <3>1, Here DEF act, Move, Sync, Has, HeldAt, Locals
    <2>2. fds[Sync(t).fd] \in Objects \cup {0} BY <2>1, Here DEF OtherTypes, CacheTypes
    <2>3. result' \in [Threads -> Results]
      BY Here, <2>2 DEF act, Finish, OtherTypes, ResultTypes, Results, Outcomes
    <2> QED BY Here, <2>3 DEF act, Move, OtherTypes, ServerTypes, CacheTypes, ResultTypes, LeftTypes, server, caches
  <1>3. l \in Labels \ {"publish", "set_closed"} BY Here DEF Labels, PlaceAt, act, Closing, Move
  <1>4. Quiet(r, loc[t])
    <2>1. "return" \in Labels BY DEF Labels
    <2> QED BY <2>1, Here, LocalsCont
  <1>5. ASSUME pc'[t] = l, loc'[t] = r, call'[t] = call[t], H(t)' = call[t].h,
               Closing(t)' <=> call[t].op \in {"close", "dup"}
        PROVE  (InSection(t)' => mutex' = t) /\ PlaceAt(t)' /\ HeldAt(t)'
    BY <1>5, Here DEF act, Move, InSection, Labels, PlaceAt, HeldAt, Has, H, Closing, Ours, Theirs, Shared
  <1> QED BY <1>1, <1>2, <1>3, <1>4, <1>5, Here, CalmMove DEF act, Move, H, caches, Quiet

LEMMA EntryLeftStep ==
  ASSUME Assumptions, HInv, NEW t \in Threads, Goto(t, NotImplemented(t)), UNCHANGED <<loc, result>>, get_local_event_state_locked(t)
  PROVE  HInv'
  <1> DEFINE l == NotImplemented(t)
  <1>1. Goes(t, l, loc[t], call[t]) BY Here DEF get_local_event_state_locked, Goto, Keep, Goes
  <1>2. OtherTypes'
    BY Here, Stored DEF get_local_event_state_locked, OtherTypes, ServerTypes, CacheTypes, ResultTypes, LeftTypes, server, caches
  <1>3. l \in Labels \ {"publish", "set_closed"} BY Here DEF Labels, PlaceAt, NotImplemented
  <1>4. ASSUME pc'[t] = l, loc'[t] = loc[t], call'[t] = call[t], H(t)' = call[t].h,
               Closing(t)' <=> call[t].op \in {"close", "dup"}
        PROVE  (InSection(t)' => mutex' = t) /\ PlaceAt(t)' /\ HeldAt(t)'
    BY <1>4, Here DEF get_local_event_state_locked, InSection, Labels, PlaceAt, HeldAt, Has, H, Closing, Ours, Theirs, Shared, NotImplemented
  <1> QED BY <1>1, <1>2, <1>3, <1>4, Here, CalmMove DEF get_local_event_state_locked, H, caches, NotImplemented

LEMMA EntryDeniedStep ==
  ASSUME Assumptions, HInv, NEW t \in Threads, Goto(t, "return"), Finish(t, "denied", 0), UNCHANGED loc, get_local_event_state_locked(t)
  PROVE  HInv'
  <1> DEFINE l == "return"
  <1>1. Goes(t, l, loc[t], call[t]) BY Here DEF get_local_event_state_locked, Goto, Keep, Goes
  <1>2. OtherTypes'
    <2>1. result' \in [Threads -> Results]
      BY Here DEF get_local_event_state_locked, Finish, OtherTypes, ResultTypes, Results, Outcomes, Locals
    <2> QED BY Here, <2>1 DEF get_local_event_state_locked, OtherTypes, ServerTypes, CacheTypes, ResultTypes, LeftTypes, server, caches
  <1>3. l \in Labels \ {"publish", "set_closed"} BY Here DEF Labels, PlaceAt, get_local_event_state_locked, Closing
  <1>4. ASSUME pc'[t] = l, loc'[t] = loc[t], call'[t] = call[t], H(t)' = call[t].h,
               Closing(t)' <=> call[t].op \in {"close", "dup"}
        PROVE  (InSection(t)' => mutex' = t) /\ PlaceAt(t)' /\ HeldAt(t)'
    BY <1>4, Here DEF get_local_event_state_locked, InSection, Labels, PlaceAt, HeldAt, Has, H, Closing, Ours, Theirs, Shared
  <1> QED BY <1>1, <1>2, <1>3, <1>4, Here, CalmMove DEF get_local_event_state_locked, H, caches

LEMMA EntryFoundStep ==
  ASSUME Assumptions, HInv, NEW t \in Threads, Goto(t, "word"), UNCHANGED result, Keep(t, [loc[t] EXCEPT !.obj = wf[H(t)].obj]), get_local_event_state_locked(t)
  PROVE  HInv'
  <1> DEFINE l == "word"
             r == [loc[t] EXCEPT !.obj = wf[H(t)].obj]
  <1>1. Goes(t, l, r, call[t]) BY Here DEF get_local_event_state_locked, Goto, Keep, Goes
  <1>2. OtherTypes'
    BY Here, Stored DEF get_local_event_state_locked, OtherTypes, ServerTypes, CacheTypes, ResultTypes, LeftTypes, server, caches
  <1>3. l \in Labels \ {"publish", "set_closed"} BY Here DEF Labels, PlaceAt, get_local_event_state_locked, Closing
  <1>4. Quiet(r, loc[t])
    <2>1. wf[H(t)].obj \in Objects \cup {0}
      BY Here DEF get_local_event_state_locked, PlaceAt, Labels, OtherTypes, CacheTypes, WfEntries
    <2> QED BY <2>1, Here, LocalsObj
  <1>5. ASSUME pc'[t] = l, loc'[t] = r, call'[t] = call[t], H(t)' = call[t].h,
               Closing(t)' <=> call[t].op \in {"close", "dup"}
        PROVE  (InSection(t)' => mutex' = t) /\ PlaceAt(t)' /\ HeldAt(t)'
    BY <1>5, Here DEF get_local_event_state_locked, InSection, Labels, PlaceAt, HeldAt, Has, H, Closing, Ours, Theirs, Shared
  <1> QED BY <1>1, <1>2, <1>3, <1>4, <1>5, Here, CalmMove DEF get_local_event_state_locked, H, caches, Quiet

LEMMA WordLeftStep ==
  ASSUME Assumptions, HInv, NEW t \in Threads, Goto(t, NotImplemented(t)), UNCHANGED result, wfusync_set_event(t)
  PROVE  HInv'
  <1> DEFINE l == NotImplemented(t)
  <1>1. Goes(t, l, loc[t], call[t]) BY Here DEF wfusync_set_event, Goto, Keep, Goes
  <1>2. OtherTypes'
    BY Here, Stored DEF wfusync_set_event, OtherTypes, ServerTypes, CacheTypes, ResultTypes, LeftTypes, server, caches
  <1>3. l \in Labels \ {"publish", "set_closed"} BY Here DEF Labels, PlaceAt, NotImplemented
  <1>4. ASSUME pc'[t] = l, loc'[t] = loc[t], call'[t] = call[t], H(t)' = call[t].h,
               Closing(t)' <=> call[t].op \in {"close", "dup"}
        PROVE  (InSection(t)' => mutex' = t) /\ PlaceAt(t)' /\ HeldAt(t)'
    BY <1>4, Here DEF wfusync_set_event, InSection, Labels, PlaceAt, HeldAt, Has, H, Closing, Ours, Theirs, Shared, NotImplemented
  <1> QED BY <1>1, <1>2, <1>3, <1>4, Here, CalmMove DEF wfusync_set_event, H, caches, NotImplemented

LEMMA WordSetStep ==
  ASSUME Assumptions, HInv, NEW t \in Threads, Goto(t, "wake"), Finish(t, "done", loc[t].obj), wfusync_set_event(t)
  PROVE  HInv'
  <1> DEFINE l == "wake"
  <1>1. Goes(t, l, loc[t], call[t]) BY Here DEF wfusync_set_event, Goto, Keep, Goes
  <1>2. OtherTypes'
    <2>1. result' \in [Threads -> Results]
      BY Here DEF wfusync_set_event, Finish, OtherTypes, ResultTypes, Results, Outcomes, Locals
    <2> QED BY Here, <2>1 DEF wfusync_set_event, OtherTypes, ServerTypes, CacheTypes, ResultTypes, LeftTypes, server, caches
  <1>3. l \in Labels \ {"publish", "set_closed"} BY Here DEF Labels, PlaceAt, wfusync_set_event, Closing
  <1>4. ASSUME pc'[t] = l, loc'[t] = loc[t], call'[t] = call[t], H(t)' = call[t].h,
               Closing(t)' <=> call[t].op \in {"close", "dup"}
        PROVE  (InSection(t)' => mutex' = t) /\ PlaceAt(t)' /\ HeldAt(t)'
    BY <1>4, Here DEF wfusync_set_event, InSection, Labels, PlaceAt, HeldAt, Has, H, Closing, Ours, Theirs, Shared
  <1> QED BY <1>1, <1>2, <1>3, <1>4, Here, CalmMove DEF wfusync_set_event, H, caches

LEMMA WakeStep ==
  ASSUME Assumptions, HInv, NEW t \in Threads, Keep(t, [loc[t] EXCEPT !.woke = wf[H(t)].obj]), wfusync_wake_waiters(t)
  PROVE  HInv'
  <1> DEFINE l == "return"
             r == [loc[t] EXCEPT !.woke = wf[H(t)].obj]
  <1>1. Goes(t, l, r, call[t]) BY Here DEF wfusync_wake_waiters, Move, Goto, Keep, Goes
  <1>2. OtherTypes'
    BY Here, Stored DEF wfusync_wake_waiters, Move, OtherTypes, ServerTypes, CacheTypes, ResultTypes, LeftTypes, server, caches
  <1>3. l \in Labels \ {"publish", "set_closed"} BY Here DEF Labels, PlaceAt, wfusync_wake_waiters, Closing, Move
  <1>4. Quiet(r, loc[t])
    <2>1. wf[H(t)].obj \in Objects \cup {-1, 0}
      BY Here DEF wfusync_wake_waiters, Move, PlaceAt, Labels, OtherTypes, CacheTypes, WfEntries
    <2> QED BY <2>1, Here, LocalsWoke
  <1>5. ASSUME pc'[t] = l, loc'[t] = r, call'[t] = call[t], H(t)' = call[t].h,
               Closing(t)' <=> call[t].op \in {"close", "dup"}
        PROVE  (InSection(t)' => mutex' = t) /\ PlaceAt(t)' /\ HeldAt(t)'
    BY <1>5, Here DEF wfusync_wake_waiters, Move, InSection, Labels, PlaceAt, HeldAt, Has, H, Closing, Ours, Theirs, Shared
  <1> QED BY <1>1, <1>2, <1>3, <1>4, <1>5, Here, CalmMove DEF wfusync_wake_waiters, Move, H, caches, Quiet

LEMMA NoWakeStep ==
  ASSUME Assumptions, HInv, NEW t \in Threads, UNCHANGED loc, wfusync_wake_waiters(t)
  PROVE  HInv'
  <1> DEFINE l == "return"
  <1>1. Goes(t, l, loc[t], call[t]) BY Here DEF wfusync_wake_waiters, Move, Goto, Keep, Goes
  <1>2. OtherTypes'
    BY Here, Stored DEF wfusync_wake_waiters, Move, OtherTypes, ServerTypes, CacheTypes, ResultTypes, LeftTypes, server, caches
  <1>3. l \in Labels \ {"publish", "set_closed"} BY Here DEF Labels, PlaceAt, wfusync_wake_waiters, Closing, Move
  <1>4. ASSUME pc'[t] = l, loc'[t] = loc[t], call'[t] = call[t], H(t)' = call[t].h,
               Closing(t)' <=> call[t].op \in {"close", "dup"}
        PROVE  (InSection(t)' => mutex' = t) /\ PlaceAt(t)' /\ HeldAt(t)'
    BY <1>4, Here DEF wfusync_wake_waiters, Move, InSection, Labels, PlaceAt, HeldAt, Has, H, Closing, Ours, Theirs, Shared
  <1> QED BY <1>1, <1>2, <1>3, <1>4, Here, CalmMove DEF wfusync_wake_waiters, Move, H, caches

LEMMA WarmStep ==
  ASSUME Assumptions, HInv, NEW t \in Threads, pc[t] = "warm", warm_wfusync_event_cache(t)
  PROVE  HInv'
  <1> DEFINE l == IF kind[H(t)] = "event" THEN "cached_state" ELSE "server"
  <1>1. Goes(t, l, loc[t], call[t]) BY Here DEF warm_wfusync_event_cache, Move, Goto, Keep, Goes
  <1>2. OtherTypes'
    BY Here, Stored DEF warm_wfusync_event_cache, Move, OtherTypes, ServerTypes, CacheTypes, ResultTypes, LeftTypes, server, caches
  <1>3. l \in Labels \ {"publish", "set_closed"} BY Here DEF Labels, PlaceAt, warm_wfusync_event_cache, Closing, Move
  <1>4. ASSUME pc'[t] = l, loc'[t] = loc[t], call'[t] = call[t], H(t)' = call[t].h,
               Closing(t)' <=> call[t].op \in {"close", "dup"}
        PROVE  (InSection(t)' => mutex' = t) /\ PlaceAt(t)' /\ HeldAt(t)'
    BY <1>4, Here DEF warm_wfusync_event_cache, Move, InSection, Labels, PlaceAt, HeldAt, Has, H, Closing, Ours, Theirs, Shared
  <1> QED BY <1>1, <1>2, <1>3, <1>4, Here, CalmMove DEF warm_wfusync_event_cache, Move, H, caches

LEMMA CachedStateStep ==
  ASSUME Assumptions, HInv, NEW t \in Threads, pc[t] = "cached_state", warm_wfusync_event_cache(t)
  PROVE  HInv'
  <1> DEFINE l == IF wf[H(t)].valid /\ wf[H(t)].handle = Value(t) THEN "server" ELSE "lookup"
  <1>1. Goes(t, l, loc[t], call[t]) BY Here DEF warm_wfusync_event_cache, Move, Goto, Keep, Goes
  <1>2. OtherTypes'
    BY Here, Stored DEF warm_wfusync_event_cache, Move, OtherTypes, ServerTypes, CacheTypes, ResultTypes, LeftTypes, server, caches
  <1>3. l \in Labels \ {"publish", "set_closed"} BY Here DEF Labels, PlaceAt, warm_wfusync_event_cache, Closing, Move
  <1>4. ASSUME pc'[t] = l, loc'[t] = loc[t], call'[t] = call[t], H(t)' = call[t].h,
               Closing(t)' <=> call[t].op \in {"close", "dup"}
        PROVE  (InSection(t)' => mutex' = t) /\ PlaceAt(t)' /\ HeldAt(t)'
    BY <1>4, Here DEF warm_wfusync_event_cache, Move, InSection, Labels, PlaceAt, HeldAt, Has, H, Closing, Ours, Theirs, Shared
  <1> QED BY <1>1, <1>2, <1>3, <1>4, Here, CalmMove DEF warm_wfusync_event_cache, Move, H, caches

(* wineserver's table: a step leaves it in order if it stores a row and    *)
(* releases an object.                                                     *)
LEMMA Released ==
  ASSUME Assumptions, ServerTypes, NEW tab, NEW o \in Objects, release_object(tab, o), UNCHANGED made,
         table' \in [Handles -> Rows]
  PROVE  ServerTypes'
  <1>1. \A n \in Int : n % UshortSize \in 0 .. UshortSize - 1 BY DEF Assumptions, WidthAssumption
  <1>2. refs' \in [Objects -> 0 .. UshortSize - 1]
    <2>1. (refs[o] - 1) % UshortSize \in 0 .. UshortSize - 1 BY <1>1 DEF ServerTypes
    <2>2. refs' = refs \/ refs' = [refs EXCEPT ![o] = (refs[o] - 1) % UshortSize] BY DEF release_object
    <2> QED BY <2>1, <2>2 DEF ServerTypes
  <1>3. live' \subseteq Objects BY DEF release_object, ServerTypes
  <1> QED BY <1>2, <1>3 DEF ServerTypes

(* A call begins.                                                          *)
LEMMA BeginStep ==
  ASSUME Assumptions, HInv, NEW t \in Threads, NEW op \in Ops, NEW h \in Handles \cup {0}, NEW g \in Tags,
         Begin(t, op, h, g)
  PROVE  HInv'
  <1> DEFINE l == FirstStep(op)
             c == [op |-> op, h |-> h, tag |-> g]
  <1>1. Goes(t, l, NoLocals, c) BY DEF Begin, Goto, Keep, Goes
  <1>2. OtherTypes'
    <2>1. result' \in [Threads -> Results] BY Here, Stored DEF Begin, OtherTypes, ResultTypes
    <2>2. left' \in [Threads -> Nat] BY Here DEF Begin, OtherTypes, LeftTypes
    <2>3. known' \subseteq Handles BY Here DEF Begin, OtherTypes, CacheTypes
    <2> QED BY Here, <2>1, <2>2, <2>3
          DEF Begin, OtherTypes, ServerTypes, CacheTypes, ResultTypes, LeftTypes, server, caches
  <1>3. l \in Labels \ {"publish", "set_closed"} /\ l \notin {"leave", "request", "receive", "insert", "close_req",
          "drop_kind", "drop", "check", "dec", "close_fd", "have", "act"}
    BY DEF Labels, FirstStep, Ops
  <1>4. c \in Asked BY DEF Asked
  <1>5. ASSUME pc'[t] = l, loc'[t] = NoLocals, call'[t] = c, H(t)' = c.h,
               Closing(t)' <=> c.op \in {"close", "dup"}
        PROVE  (InSection(t)' => mutex' = t) /\ PlaceAt(t)' /\ HeldAt(t)'
    <2>1. op \in {"use", "close", "dup"} => h \in Handles BY Here DEF Begin, OtherTypes, CacheTypes
    <2>2. ~InSection(t)' BY <1>3, <1>5 DEF InSection, FirstStep, Ops
    <2>3. PlaceAt(t)' BY <1>3, <1>5, <2>1 DEF PlaceAt, FirstStep, Ours, Theirs, Shared, Ops
    <2>4. HeldAt(t)' BY <1>3, <1>5 DEF HeldAt, Has, NoLocals, NoSync
    <2> QED BY <2>2, <2>3, <2>4
  <1>6. loc[t].held = 0 /\ loc[t].stack.fd = 0 /\ loc[t].saved = 0 BY Here DEF Begin, HeldAt, Has, Labels
  <1> QED BY <1>1, <1>2, <1>3, <1>4, <1>5, <1>6, Here, Stored, CalmMove DEF Begin, NoLocals, NoSync, caches

(* The program opens handles.                                              *)
LEMMA CreateStep ==
  ASSUME Assumptions, HInv, NEW t \in Threads, NtCreateEvent(t)
  PROVE  HInv'
  <1>0. PICK h \in Handles : Open(t, h, [obj |-> made + 1, acc |-> TRUE, prot |-> FALSE]) BY DEF NtCreateEvent
  <1> DEFINE c == [call[t] EXCEPT !.h = h]
  <1>1. Goes(t, "mark", loc[t], c) BY Here, <1>0 DEF NtCreateEvent, Open, Goto, Goes
  <1>2. OtherTypes'
    <2>1. table' \in [Handles -> Rows] /\ UNCHANGED left BY Here, <1>0 DEF Open, OtherTypes, ServerTypes, Rows, NtCreateEvent
    <2>2. refs' \in [Objects -> 0 .. UshortSize - 1]
      <3>1. 1 \in 0 .. UshortSize - 1 BY DEF Assumptions, WidthAssumption
      <3> QED BY Here, <3>1 DEF NtCreateEvent, OtherTypes, ServerTypes, Assumptions, WidthAssumption
    <2> QED BY Here, <2>1, <2>2
          DEF NtCreateEvent, OtherTypes, ServerTypes, CacheTypes, ResultTypes, LeftTypes, caches
  <1>3. c \in Asked /\ c.op = call[t].op /\ c.h = h BY Here DEF Asked
  <1>4. ASSUME pc'[t] = "mark", loc'[t] = loc[t], call'[t] = c, H(t)' = c.h,
               Closing(t)' <=> c.op \in {"close", "dup"}
        PROVE  (InSection(t)' => mutex' = t) /\ PlaceAt(t)' /\ HeldAt(t)'
    BY <1>3, <1>4, Here DEF NtCreateEvent, InSection, Labels, PlaceAt, HeldAt, Has, Ours, Theirs, Shared
  <1>5. loc[t].held = 0 BY Here DEF NtCreateEvent, HeldAt, Has, Labels
  <1>6. "mark" \in Labels \ {"publish", "set_closed"} BY DEF Labels
  <1> QED BY <1>1, <1>2, <1>3, <1>4, <1>5, <1>6, Here, CalmMove DEF NtCreateEvent, caches

LEMMA OpenStep ==
  ASSUME Assumptions, HInv, NEW t \in Threads, NtOpenEvent(t)
  PROVE  HInv'
  <1>0. PICK h \in Handles, o \in live, a \in BOOLEAN, p \in BOOLEAN : Open(t, h, [obj |-> o, acc |-> a, prot |-> p])
    BY DEF NtOpenEvent
  <1> DEFINE c == [call[t] EXCEPT !.h = h]
  <1>1. Goes(t, "mark", loc[t], c) BY Here, <1>0 DEF NtOpenEvent, Open, Goto, Goes
  <1>2. OtherTypes'
    <2>1. table' \in [Handles -> Rows] /\ UNCHANGED left
      BY Here, <1>0 DEF Open, OtherTypes, ServerTypes, Rows
    <2> QED BY Here, <2>1
          DEF NtOpenEvent, OtherTypes, ServerTypes, CacheTypes, ResultTypes, LeftTypes, caches
  <1>3. c \in Asked /\ c.op = call[t].op /\ c.h = h BY Here DEF Asked
  <1>4. ASSUME pc'[t] = "mark", loc'[t] = loc[t], call'[t] = c, H(t)' = c.h,
               Closing(t)' <=> c.op \in {"close", "dup"}
        PROVE  (InSection(t)' => mutex' = t) /\ PlaceAt(t)' /\ HeldAt(t)'
    BY <1>3, <1>4, Here DEF NtOpenEvent, InSection, Labels, PlaceAt, HeldAt, Has, Ours, Theirs, Shared
  <1>5. loc[t].held = 0 BY Here DEF NtOpenEvent, HeldAt, Has, Labels
  <1>6. "mark" \in Labels \ {"publish", "set_closed"} BY DEF Labels
  <1> QED BY <1>1, <1>2, <1>3, <1>4, <1>5, <1>6, Here, CalmMove DEF NtOpenEvent, caches

LEMMA OpenFailsStep ==
  ASSUME Assumptions, HInv, NEW t \in Threads, OpenFails(t)
  PROVE  HInv'
  <1> DEFINE l == "idle"
             r == NoLocals
             c == NoCall
  <1>1. Goes(t, l, r, c) BY Here DEF OpenFails, Return, Goto, Keep, Goes
  <1>2. OtherTypes'
    BY Here, Stored DEF OpenFails, Return, OtherTypes, ServerTypes, CacheTypes, ResultTypes, LeftTypes, server, caches
  <1>3. l \in Labels \ {"publish", "set_closed"} BY Here DEF Labels, PlaceAt, OpenFails, Closing, Return
  <1>4. r \in Locals BY Stored
  <1>5. c \in Asked BY Here DEF OpenFails, Return, Asked, Ops, HInv, TypeOK, NoCall, Assumptions, TagsAssumption
  <1>6. ASSUME pc'[t] = l, loc'[t] = r, call'[t] = c, H(t)' = c.h,
               Closing(t)' <=> c.op \in {"close", "dup"}
        PROVE  (InSection(t)' => mutex' = t) /\ PlaceAt(t)' /\ HeldAt(t)'
    BY <1>6, Here DEF OpenFails, Return, InSection, Labels, PlaceAt, HeldAt, Has, H, Closing, Ours, Theirs, Shared, NoLocals, NoSync, NoCall
  <1> QED BY <1>1, <1>2, <1>3, <1>4, <1>5, <1>6, Here, CalmMove DEF OpenFails, Return, H, caches, HeldAt, Has, Labels, NoLocals, NoSync, NoCall

LEMMA MarkStep ==
  ASSUME Assumptions, HInv, NEW t \in Threads, wfusync_mark_local_event(t)
  PROVE  HInv'
  <1> DEFINE l == "idle"
             r == NoLocals
             c == NoCall
  <1>1. Goes(t, l, r, c) BY Here DEF wfusync_mark_local_event, Return, Goto, Keep, Goes
  <1>2. OtherTypes'
    <2>1. Value(t) \in Int
      BY Here DEF Value, H, Asked, Assumptions, TagsAssumption, HandlesAssumption
    <2>2. H(t) \in Handles BY Here DEF wfusync_mark_local_event, PlaceAt, Labels
    <2> DEFINE e == [IF wf[H(t)].handle = Value(t) THEN wf[H(t)] ELSE NoWf EXCEPT !.handle = Value(t), !.local = TRUE]
    <2>3. wf[H(t)] \in WfEntries BY <2>2, Here DEF OtherTypes, CacheTypes
    <2>4. (IF wf[H(t)].handle = Value(t) THEN wf[H(t)] ELSE NoWf) \in WfEntries BY <2>3, Stored
    <2>5. e \in WfEntries BY <2>1, <2>4 DEF WfEntries
    <2>6. wf' = IF Wfu THEN [wf EXCEPT ![H(t)] = e] ELSE wf BY DEF wfusync_mark_local_event
    <2> HIDE DEF e
    <2>7. wf' \in [Handles -> WfEntries] BY Here, <2>5, <2>6 DEF OtherTypes, CacheTypes
    <2>8. kind' \in [Handles -> {"unknown", "event"}] /\ known' \subseteq Handles /\ left' = left
      BY Here, <2>2 DEF wfusync_mark_local_event, Return, OtherTypes, CacheTypes
    <2> QED BY Here, <2>7, <2>8
          DEF wfusync_mark_local_event, OtherTypes, ServerTypes, CacheTypes, ResultTypes, LeftTypes, server
  <1>3. l \in Labels \ {"publish", "set_closed"} BY Here DEF Labels, PlaceAt, wfusync_mark_local_event, Closing, Return
  <1>4. r \in Locals BY Stored
  <1>5. c \in Asked BY Here DEF wfusync_mark_local_event, Return, Asked, Ops, HInv, TypeOK, NoCall, Assumptions, TagsAssumption
  <1>6. ASSUME pc'[t] = l, loc'[t] = r, call'[t] = c, H(t)' = c.h,
               Closing(t)' <=> c.op \in {"close", "dup"}
        PROVE  (InSection(t)' => mutex' = t) /\ PlaceAt(t)' /\ HeldAt(t)'
    BY <1>6, Here DEF wfusync_mark_local_event, Return, InSection, Labels, PlaceAt, HeldAt, Has, H, Closing, Ours, Theirs, Shared, NoLocals, NoSync, NoCall
  <1> QED BY <1>1, <1>2, <1>3, <1>4, <1>5, <1>6, Here, CalmMove DEF wfusync_mark_local_event, Return, H, caches, HeldAt, Has, Labels, NoLocals, NoSync, NoCall

(* wineserver closes or duplicates a handle.                               *)
LEMMA CloseHandleStep ==
  ASSUME Assumptions, HInv, NEW t \in Threads, close_handle(t)
  PROVE  HInv'
  <1> DEFINE l == "leave"
  <1>1. Goes(t, l, loc[t], call[t]) BY Here DEF close_handle, Goto, Keep, Goes
  <1>2. OtherTypes'
    <2>1. H(t) \in Handles BY Here DEF close_handle, PlaceAt, Labels
    <2>2. known' \subseteq Handles BY Here, <2>1 DEF close_handle, OtherTypes, CacheTypes
    <2>3. ServerTypes'
      <3>1. CASE table[H(t)].obj = 0 \/ table[H(t)].prot BY Here, <3>1 DEF close_handle, OtherTypes, ServerTypes
      <3>2. CASE ~(table[H(t)].obj = 0 \/ table[H(t)].prot)
        <4>1. table' = [table EXCEPT ![H(t)] = Nothing] /\ release_object(table', table[H(t)].obj) /\ made' = made
          BY <3>2 DEF close_handle
        <4>2. table' \in [Handles -> Rows] BY <4>1, Here, Stored DEF OtherTypes, ServerTypes
        <4>3. table[H(t)].obj \in Objects BY <3>2, <2>1, Here DEF OtherTypes, ServerTypes, Rows
        <4> QED BY <4>1, <4>2, <4>3, Here, Released DEF OtherTypes
      <3> QED BY <3>1, <3>2
    <2> QED BY Here, <2>2, <2>3 DEF close_handle, OtherTypes, CacheTypes, ResultTypes, LeftTypes, caches
  <1>3. l \in Labels \ {"publish", "set_closed"} BY Here DEF Labels, PlaceAt, close_handle, Closing
  <1>4. ASSUME pc'[t] = l, loc'[t] = loc[t], call'[t] = call[t], H(t)' = call[t].h,
               Closing(t)' <=> call[t].op \in {"close", "dup"}
        PROVE  (InSection(t)' => mutex' = t) /\ PlaceAt(t)' /\ HeldAt(t)'
    BY <1>4, Here DEF close_handle, InSection, Labels, PlaceAt, HeldAt, Has, H, Closing, Ours, Theirs, Shared
  <1> QED BY <1>1, <1>2, <1>3, <1>4, Here, CalmMove DEF close_handle, H, caches

(* The four ways of duplicate_handle.                                      *)
Copy(t, a) == [obj |-> table[H(t)].obj, acc |-> a, prot |-> FALSE]
DupRefused(t) == /\ table[H(t)].obj = 0
                 /\ UNCHANGED <<table, live, refs, known>>
DupInPlace(t, a) == /\ table[H(t)].obj # 0
                    /\ table' = [table EXCEPT ![H(t)] = Copy(t, a)]
                    /\ known' = known \cup {H(t)}
                    /\ UNCHANGED <<live, refs>>
DupElsewhere(t, a, h) ==
  /\ table[H(t)].obj # 0 /\ table[h].obj = 0
  /\ table' = [table EXCEPT ![h] = Copy(t, a), ![H(t)] = IF table[H(t)].prot THEN table[H(t)] ELSE Nothing]
  /\ known' = known \cup {h} \cup (IF table[H(t)].prot THEN {H(t)} ELSE {})
  /\ UNCHANGED <<live, refs>>
DupFull(t) ==
  /\ table[H(t)].obj # 0
  /\ table' = IF table[H(t)].prot THEN table ELSE [table EXCEPT ![H(t)] = Nothing]
  /\ known' = IF table[H(t)].prot THEN known \cup {H(t)} ELSE known
  /\ release_object(table', table[H(t)].obj)

LEMMA DupCases ==
  ASSUME NEW t \in Threads, dup_handle(t)
  PROVE  \/ DupRefused(t) \/ DupFull(t)
         \/ \E a \in BOOLEAN : DupInPlace(t, a) \/ \E h \in Handles : DupElsewhere(t, a, h)
  <1> USE DEF DupRefused, DupFull, DupInPlace, DupElsewhere, Copy, alloc_entry
  <1> QED BY Zenon DEF dup_handle

LEMMA DupRows ==
  ASSUME Assumptions, HInv, NEW t \in Threads, dup_handle(t)
  PROVE  ServerTypes' /\ known' \subseteq Handles
  <1>1. H(t) \in Handles BY Here DEF dup_handle, PlaceAt, Labels
  <1>2. table \in [Handles -> Rows] /\ known \subseteq Handles /\ ServerTypes /\ made' = made
    BY Here DEF OtherTypes, ServerTypes, CacheTypes, dup_handle
  <1>3. CASE DupRefused(t) BY <1>2, <1>3 DEF DupRefused, ServerTypes
  <1>4. CASE DupFull(t)
    <2>1. table' \in [Handles -> Rows] /\ table[H(t)].obj \in Objects /\ known' \subseteq Handles
      BY <1>1, <1>2, <1>4, Stored DEF DupFull, Rows
    <2> QED BY <1>2, <1>4, <2>1, Released DEF DupFull
  <1>5. ASSUME NEW a \in BOOLEAN, DupInPlace(t, a) PROVE ServerTypes' /\ known' \subseteq Handles
    <2>1. Copy(t, a) \in Rows BY <1>1, <1>2 DEF Copy, Rows
    <2> QED BY <1>1, <1>2, <1>5, <2>1 DEF DupInPlace, ServerTypes
  <1>6. ASSUME NEW a \in BOOLEAN, NEW h \in Handles, DupElsewhere(t, a, h)
        PROVE  ServerTypes' /\ known' \subseteq Handles
    <2>1. Copy(t, a) \in Rows /\ table[H(t)] \in Rows BY <1>1, <1>2 DEF Copy, Rows
    <2> QED BY <1>1, <1>2, <1>6, <2>1, Stored DEF DupElsewhere, ServerTypes
  <1> QED BY <1>3, <1>4, <1>5, <1>6, DupCases

LEMMA DuplicateStep ==
  ASSUME Assumptions, HInv, NEW t \in Threads, dup_handle(t)
  PROVE  HInv'
  <1> DEFINE l == "leave"
  <1>1. Goes(t, l, loc[t], call[t]) BY Here DEF dup_handle, Goto, Keep, Goes
  <1>2. OtherTypes'
    <2>1. ServerTypes' /\ known' \subseteq Handles BY Here, DupRows DEF OtherTypes, CacheTypes, ServerTypes
    <2> QED BY Here, <2>1 DEF dup_handle, OtherTypes, CacheTypes, ResultTypes, LeftTypes, caches
  <1>3. l \in Labels \ {"publish", "set_closed"} BY Here DEF Labels, PlaceAt, dup_handle, Closing
  <1>4. ASSUME pc'[t] = l, loc'[t] = loc[t], call'[t] = call[t], H(t)' = call[t].h,
               Closing(t)' <=> call[t].op \in {"close", "dup"}
        PROVE  (InSection(t)' => mutex' = t) /\ PlaceAt(t)' /\ HeldAt(t)'
    BY <1>4, Here DEF dup_handle, InSection, Labels, PlaceAt, HeldAt, Has, H, Closing, Ours, Theirs, Shared
  <1> QED BY <1>1, <1>2, <1>3, <1>4, Here, CalmMove DEF dup_handle, H, caches

-----------------------------------------------------------------------------
(* Steps that change an entry or a descriptor.                             *)

LEMMA MissStep ==
  ASSUME Assumptions, HInv, NEW t \in Threads, cache[H(t)].ref = 0, interlocked_inc_if_nonzero(t)
  PROVE  HInv'
  <1> DEFINE l == Missed(t)
  <1>1. Goes(t, l, loc[t], call[t]) BY Here DEF interlocked_inc_if_nonzero, Goto, Keep, Goes
  <1>2. OtherTypes'
    BY Here, Stored DEF interlocked_inc_if_nonzero, OtherTypes, ServerTypes, CacheTypes, ResultTypes, LeftTypes, server, caches
  <1>3. l \in Labels \ {"publish", "set_closed"} BY Here DEF Labels, PlaceAt, Missed
  <1>4. ASSUME pc'[t] = l, loc'[t] = loc[t], call'[t] = call[t], H(t)' = call[t].h,
               Closing(t)' <=> call[t].op \in {"close", "dup"}
        PROVE  (InSection(t)' => mutex' = t) /\ PlaceAt(t)' /\ HeldAt(t)'
    BY <1>4, Here DEF interlocked_inc_if_nonzero, InSection, Labels, PlaceAt, HeldAt, Has, H, Closing, Ours, Theirs, Shared, Missed
  <1> QED BY <1>1, <1>2, <1>3, <1>4, Here, CalmMove DEF interlocked_inc_if_nonzero, H, caches, Missed

LEMMA NoObjectStep ==
  ASSUME Assumptions, HInv, NEW t \in Threads, table[H(t)].obj = 0, get_server_inproc_sync(t)
  PROVE  HInv'
  <1> DEFINE l == "leave"
             r == [loc[t] EXCEPT !.cont = IF Wfu THEN "server" ELSE "return"]
  <1>1. Goes(t, l, r, call[t]) BY Here DEF get_server_inproc_sync, Goto, Keep, Goes
  <1>2. OtherTypes'
    <2>1. result' \in [Threads -> Results]
      BY Here DEF get_server_inproc_sync, Finish, OtherTypes, ResultTypes, Results, Outcomes
    <2> QED BY Here, <2>1
          DEF get_server_inproc_sync, OtherTypes, ServerTypes, CacheTypes, ResultTypes, LeftTypes, server
  <1>3. l \in Labels \ {"publish", "set_closed"} BY Here DEF Labels, PlaceAt, get_server_inproc_sync, Closing
  <1>4. Quiet(r, loc[t])
    <2>1. (IF Wfu THEN "server" ELSE "return") \in Labels BY DEF Labels
    <2> QED BY <2>1, Here, LocalsCont
  <1>5. ASSUME pc'[t] = l, loc'[t] = r, call'[t] = call[t], H(t)' = call[t].h,
               Closing(t)' <=> call[t].op \in {"close", "dup"}
        PROVE  (InSection(t)' => mutex' = t) /\ PlaceAt(t)' /\ HeldAt(t)'
    BY <1>5, Here DEF get_server_inproc_sync, InSection, Labels, PlaceAt, HeldAt, Has, H, Closing, Ours, Theirs, Shared
  <1> QED BY <1>1, <1>2, <1>3, <1>4, <1>5, Here, CalmMove DEF get_server_inproc_sync, H, caches, Quiet

LEMMA InUseStep ==
  ASSUME Assumptions, HInv, NEW t \in Threads, InUse(t), cache_inproc_sync(t)
  PROVE  HInv'
  <1> DEFINE l == "leave"
  <1>1. Goes(t, l, loc[t], call[t]) BY Here DEF cache_inproc_sync, Goto, Keep, Goes
  <1>2. OtherTypes'
    BY Here, Stored DEF cache_inproc_sync, OtherTypes, ServerTypes, CacheTypes, ResultTypes, LeftTypes, server, caches
  <1>3. l \in Labels \ {"publish", "set_closed"} BY Here DEF Labels, PlaceAt, cache_inproc_sync, Closing
  <1>4. ASSUME pc'[t] = l, loc'[t] = loc[t], call'[t] = call[t], H(t)' = call[t].h,
               Closing(t)' <=> call[t].op \in {"close", "dup"}
        PROVE  (InSection(t)' => mutex' = t) /\ PlaceAt(t)' /\ HeldAt(t)'
    BY <1>4, Here DEF cache_inproc_sync, InSection, Labels, PlaceAt, HeldAt, Has, H, Closing, Ours, Theirs, Shared
  <1> QED BY <1>1, <1>2, <1>3, <1>4, Here, CalmMove DEF cache_inproc_sync, H, caches

(* The kinds of step that are left, in which the call stays the same.      *)
LEMMA Moves ==
  ASSUME Assumptions, HInv, NEW t \in Threads, NEW l \in Labels, NEW r \in Locals,
         Goes(t, l, r, call[t]), OtherTypes', UNCHANGED mutex
  PROVE  /\ pc'[t] = l /\ loc'[t] = r /\ call'[t] = call[t] /\ Only(t) /\ ThreadTypes'
         /\ H(t)' = H(t) /\ (Closing(t)' <=> Closing(t))
         /\ (InSection(t)' => mutex' = t) /\ PlaceAt(t)' /\ HeldAt(t)' /\ EntryOK' /\ ReferencesHeld' /\ FdOK'
              => HInv'
  <1>1. ThreadTypes /\ LeftTypes' BY Here DEF OtherTypes
  <1>2. pc'[t] = l /\ loc'[t] = r /\ call'[t] = call[t] /\ Only(t) /\ ThreadTypes' BY <1>1, Here, Went
  <1>3. H(t)' = H(t) /\ (Closing(t)' <=> Closing(t)) BY <1>2 DEF H, Closing
  <1> QED BY <1>2, <1>3, Assemble

(* What another thread knows of an entry survives while it is the entry of *)
(* another handle, or is used but not changed, or is the mutex holder's.   *)
LEMMA EntryStep ==
  ASSUME Assumptions, HInv, NEW t \in Threads, Only(t), NEW h \in Handles, NEW e \in Entries,
         cache' = [cache EXCEPT ![h] = e], EntryAt(t)', e.ref > 0 => e.fd # 0,
         mutex = t \/ (cache[h].ref # 0 /\ e.closed = cache[h].closed)
  PROVE  EntryOK'
  <1>1. cache \in [Handles -> Entries] BY Here DEF OtherTypes, CacheTypes
  <1>2. ASSUME NEW u \in Threads \ {t} PROVE EntryAt(u)'
    <2>1. EntryAt(u) /\ PlaceAt(u) /\ (InSection(u) => mutex = u) BY Here
    <2>2. pc[u] \in {"publish", "set_closed"} => mutex = u /\ H(u) \in Handles
      BY <2>1 DEF InSection, PlaceAt, Labels
    <2>3. pc'[u] = pc[u] /\ loc'[u] = loc[u] /\ H(u)' = H(u) BY DEF Only, H
    <2>4. mutex = t => pc[u] \notin {"publish", "set_closed"} BY <2>2
    <2>5. cache[h].ref # 0 /\ pc[u] = "publish" => H(u) # h BY <2>1 DEF EntryAt
    <2> QED BY <1>1, <2>1, <2>2, <2>3, <2>4, <2>5 DEF EntryAt
  <1>3. \A i \in Handles : cache'[i].ref > 0 => cache'[i].fd # 0 BY <1>1 DEF HInv, EntryOK
  <1> QED BY <1>2, <1>3 DEF EntryOK

(* The count of the thread's entry moves with what the thread holds.       *)
LEMMA RefStep ==
  ASSUME Assumptions, HInv, NEW t \in Threads, Only(t), ThreadTypes', H(t)' = H(t), H(t) \in Handles,
         NEW e \in Entries, cache' = [cache EXCEPT ![H(t)] = e],
         e.ref = cache[H(t)].ref - Kept(cache[H(t)]) + loc'[t].held - loc[t].held + Kept(e)
  PROVE  ReferencesHeld'
  <1>1. ThreadTypes /\ cache \in [Handles -> Entries] BY Here DEF OtherTypes, CacheTypes
  <1>2. ASSUME NEW h \in Handles PROVE cache'[h].ref = Refs(h)' + Kept(cache'[h])
    <2>1. Refs(h)' = IF h = H(t) THEN Refs(h) + loc'[t].held - loc[t].held ELSE Refs(h)
      BY <1>1, RefsMoved
    <2>2. cache[h].ref = Refs(h) + Kept(cache[h]) BY RefsExact DEF HInv
    <2>6. loc[t] \in Locals /\ loc'[t] \in Locals BY <1>1 DEF ThreadTypes
    <2>7. loc[t].held \in Int /\ loc'[t].held \in Int BY <2>6 DEF Locals
    <2>3. Refs(h) \in Nat BY <1>1, RefsHeld
    <2>4. CASE h # H(t)
      <3>1. cache'[h] = cache[h] BY <1>1, <2>4
      <3> QED BY <2>1, <2>2, <2>4, <3>1
    <2>5. CASE h = H(t)
      <3>1. cache'[h] = e BY <1>1, <2>5
      <3>2. Kept(e) \in {0, 1} /\ Kept(cache[h]) \in {0, 1} BY DEF Kept
      <3> HIDE DEF Kept
      <3> QED BY <2>1, <2>2, <2>3, <2>5, <2>7, <3>1, <3>2
    <2> QED BY <2>4, <2>5
  <1> QED BY <1>2 DEF ReferencesHeld, Refs, Kept

(* Without a change of the count likewise.                                 *)
LEMMA NoRefStep ==
  ASSUME Assumptions, HInv, NEW t \in Threads, Only(t), ThreadTypes', H(t)' = H(t),
         cache' = cache, loc'[t].held = loc[t].held
  PROVE  ReferencesHeld'
  <1>1. ThreadTypes BY Here
  <1>2. ASSUME NEW h \in Handles PROVE cache'[h].ref = Refs(h)' + Kept(cache'[h])
    <2>1. Refs(h)' = IF h = H(t) THEN Refs(h) + loc'[t].held - loc[t].held ELSE Refs(h)
      BY <1>1, RefsMoved
    <2>2. cache[h].ref = Refs(h) + Kept(cache[h]) BY RefsExact DEF HInv
    <2>3. Refs(h) \in Nat /\ loc[t].held \in Int BY <1>1, RefsHeld, SMTT(20) DEF ThreadTypes, Locals
    <2> QED BY <2>1, <2>2, <2>3
  <1> QED BY <1>2 DEF ReferencesHeld, Refs, Kept

(* Nobody owns another descriptor than before.                             *)
LEMMA SameFds ==
  ASSUME Assumptions, HInv, NEW t \in Threads, Only(t), fds' = fds,
         \A h \in Handles, d \in Fds : EntryOwns(h, d)' <=> EntryOwns(h, d),
         loc'[t].stack.fd = loc[t].stack.fd, loc'[t].saved = loc[t].saved
  PROVE  FdOK'
  <1>1. \A u \in Threads, d \in Fds : /\ StackOwns(u, d)' <=> StackOwns(u, d)
                                      /\ CloserOwns(u, d)' <=> CloserOwns(u, d)
    BY DEF StackOwns, CloserOwns, Only
  <1>2. ASSUME NEW d \in Fds PROVE FdAt(d)'
    <2>1. FdAt(d) BY DEF HInv, FdOK
    <2> QED BY <2>1, <1>1 DEF FdAt
  <1> QED BY <1>2 DEF FdOK

(* Locals of which held, or a descriptor, changes.                         *)
LEMMA LocalsHeld ==
  ASSUME NEW q \in Locals, NEW n \in 0..2
  PROVE  /\ [q EXCEPT !.held = n] \in Locals /\ [q EXCEPT !.held = n].held = n
         /\ [q EXCEPT !.held = n].stack = q.stack /\ [q EXCEPT !.held = n].saved = q.saved
         /\ [q EXCEPT !.held = n].cont = q.cont
  BY DEF Locals
LEMMA LocalsClosing ==
  ASSUME NEW q \in Locals, NEW r, r = [q EXCEPT !.held = ToRelease, !.cont = "close_req"]
  PROVE  r \in Locals /\ r.held = 2 /\ r.cont = "close_req" /\ r.stack = q.stack /\ r.saved = q.saved
  <1>1. "close_req" \in Labels BY DEF Labels
  <1> DEFINE p == [q EXCEPT !.held = 2]
  <1>2. 2 \in 0..2 OBVIOUS
  <1>3. p \in Locals /\ p.held = 2 /\ p.stack = q.stack /\ p.saved = q.saved BY <1>2, LocalsHeld
  <1>4. r = [p EXCEPT !.cont = "close_req"] BY DEF ToRelease, Locals
  <1> HIDE DEF p
  <1>5. r.cont = "close_req" BY <1>3, <1>4 DEF Locals
  <1>6. Quiet([p EXCEPT !.cont = "close_req"], p) BY <1>1, <1>3, LocalsCont
  <1> QED BY <1>3, <1>4, <1>5, <1>6 DEF Quiet

(* get_cached_inproc_sync takes a reference.                               *)
LEMMA HitStep ==
  ASSUME Assumptions, HInv, NEW t \in Threads, interlocked_inc_if_nonzero(t), cache[H(t)].ref # 0
  PROVE  HInv'
  <1> DEFINE r == [loc[t] EXCEPT !.held = 1]
             e == [cache[H(t)] EXCEPT !.ref = @ + 1]
  <1>1. Goes(t, "check", r, call[t]) BY Here DEF interlocked_inc_if_nonzero, Goto, Keep, Goes
  <1>2. H(t) \in Handles /\ cache[H(t)] \in Entries /\ loc[t].held = 0 /\ loc[t].stack.fd = 0 /\ loc[t].saved = 0
    BY Here DEF interlocked_inc_if_nonzero, PlaceAt, HeldAt, Has, Labels, OtherTypes, CacheTypes
  <1>3. /\ e \in Entries /\ e.ref = cache[H(t)].ref + 1 /\ e.fd = cache[H(t)].fd /\ e.closed = cache[H(t)].closed
        /\ cache[H(t)].ref \in Nat
    BY <1>2 DEF Entries
  <1>4. r \in Locals /\ r.held = 1 /\ r.stack = loc[t].stack /\ r.saved = loc[t].saved
    <2>1. 1 \in 0..2 OBVIOUS
    <2> QED BY <2>1, Here, LocalsHeld
  <1>5. cache' = [cache EXCEPT ![H(t)] = e] BY DEF interlocked_inc_if_nonzero
  <1> HIDE DEF e, r
  <1>6. OtherTypes'
    <2>1. cache' \in [Handles -> Entries] BY <1>3, <1>5, Here DEF OtherTypes, CacheTypes
    <2> QED BY Here, <2>1
          DEF interlocked_inc_if_nonzero, OtherTypes, ServerTypes, CacheTypes, ResultTypes, LeftTypes, server
  <1>7. "check" \in Labels /\ UNCHANGED <<mutex, fds>> BY DEF Labels, interlocked_inc_if_nonzero
  <1>8. /\ pc'[t] = "check" /\ loc'[t] = r /\ call'[t] = call[t] /\ Only(t) /\ ThreadTypes'
        /\ H(t)' = H(t) /\ (Closing(t)' <=> Closing(t))
    BY <1>1, <1>4, <1>6, <1>7, Moves
  <1>9. InSection(t)' => mutex' = t
    BY <1>7, <1>8, Here DEF interlocked_inc_if_nonzero, InSection
  <1>10. PlaceAt(t)' /\ HeldAt(t)'
    BY <1>2, <1>4, <1>8, Here
       DEF interlocked_inc_if_nonzero, PlaceAt, HeldAt, Has, Labels, Ours, Theirs, Shared
  <1>11. EntryOK'
    <2>1. EntryAt(t)' BY <1>8 DEF EntryAt
    <2>2. cache[H(t)].ref > 0 BY <1>3
    <2>3. cache[H(t)].fd # 0 BY <2>2, <1>2 DEF HInv, EntryOK
    <2> QED BY <2>1, <2>3, <1>2, <1>3, <1>5, <1>8, EntryStep
  <1>12. ReferencesHeld'
    <2>1. Kept(e) = Kept(cache[H(t)]) /\ Kept(e) \in {0, 1} BY <1>3 DEF Kept
    <2>2. e.ref = cache[H(t)].ref - Kept(cache[H(t)]) + loc'[t].held - loc[t].held + Kept(e)
      BY <2>1, <1>2, <1>3, <1>4, <1>8
    <2> QED BY <2>2, <1>2, <1>3, <1>5, <1>8, RefStep
  <1>13. FdOK'
    <2>1. \A h \in Handles, d \in Fds : EntryOwns(h, d)' <=> EntryOwns(h, d)
      BY <1>2, <1>3, <1>5, Here DEF EntryOwns, OtherTypes, CacheTypes
    <2> QED BY <2>1, <1>4, <1>7, <1>8, SameFds
  <1> QED BY <1>1, <1>4, <1>6, <1>7, <1>9, <1>10, <1>11, <1>12, <1>13, Moves

(* close_inproc_sync.                                                      *)
LEMMA FoundOpenStep ==
  ASSUME Assumptions, HInv, NEW t \in Threads, check_closed(t), ~Refused(t), Closing(t)
  PROVE  HInv'
  <1>1. Goes(t, "set_closed", loc[t], call[t]) BY Here DEF check_closed, Goto, Keep, Goes
  <1>2. H(t) \in Handles /\ cache[H(t)] \in Entries /\ loc[t].held = 1 /\ loc[t].stack.fd = 0 /\ loc[t].saved = 0
    BY Here DEF check_closed, PlaceAt, HeldAt, Has, Labels, OtherTypes, CacheTypes
  <1>3. OtherTypes'
    BY Here DEF check_closed, OtherTypes, ServerTypes, CacheTypes, ResultTypes, LeftTypes, server, caches
  <1>4. "set_closed" \in Labels /\ UNCHANGED <<mutex, fds, cache>> BY DEF Labels, check_closed, caches
  <1>5. /\ pc'[t] = "set_closed" /\ loc'[t] = loc[t] /\ call'[t] = call[t] /\ Only(t) /\ ThreadTypes'
        /\ H(t)' = H(t) /\ (Closing(t)' <=> Closing(t))
    BY <1>1, <1>3, <1>4, Here, Moves
  <1>6. mutex = t BY Here DEF check_closed, InSection
  <1>7. PlaceAt(t)' /\ HeldAt(t)'
    BY <1>2, <1>5, Here DEF check_closed, PlaceAt, HeldAt, Has, Labels, Ours, Theirs, Shared
  <1>8. EntryOK'
    <2>1. EntryAt(t)' BY <1>4, <1>5 DEF EntryAt, Refused
    <2>2. cache' = [cache EXCEPT ![H(t)] = cache[H(t)]] BY <1>4, Here DEF OtherTypes, CacheTypes
    <2>3. cache[H(t)].ref > 0 => cache[H(t)].fd # 0 BY <1>2 DEF HInv, EntryOK
    <2> QED BY <2>1, <2>2, <2>3, <1>2, <1>5, <1>6, EntryStep
  <1>9. ReferencesHeld' BY <1>4, <1>5, NoRefStep
  <1>10. FdOK'
    <2>1. \A h \in Handles, d \in Fds : EntryOwns(h, d)' <=> EntryOwns(h, d) BY <1>4 DEF EntryOwns
    <2> QED BY <2>1, <1>4, <1>5, SameFds
  <1> QED BY <1>1, <1>3, <1>4, <1>6, <1>7, <1>8, <1>9, <1>10, Here, Moves

LEMMA SetClosedStep ==
  ASSUME Assumptions, HInv, NEW t \in Threads, close_inproc_sync(t)
  PROVE  HInv'
  <1> DEFINE r == [loc[t] EXCEPT !.held = ToRelease, !.cont = "close_req"]
             e == [cache[H(t)] EXCEPT !.closed = TRUE]
  <1>1. Goes(t, "dec", r, call[t]) BY Here DEF close_inproc_sync, Move, Goto, Keep, Goes
  <1>2. H(t) \in Handles /\ cache[H(t)] \in Entries /\ loc[t].held = 1 /\ loc[t].stack.fd = 0 /\ loc[t].saved = 0
    BY Here DEF close_inproc_sync, Move, PlaceAt, HeldAt, Has, Labels, OtherTypes, CacheTypes
  <1>3. /\ e \in Entries /\ e.ref = cache[H(t)].ref /\ e.fd = cache[H(t)].fd /\ e.closed = TRUE
        /\ cache[H(t)].ref \in Nat
    BY <1>2 DEF Entries
  <1>4. r \in Locals /\ r.held = 2 /\ r.cont = "close_req" /\ r.stack = loc[t].stack /\ r.saved = loc[t].saved
    BY Here, LocalsClosing
  <1>5. cache' = [cache EXCEPT ![H(t)] = e] BY DEF close_inproc_sync
  <1> HIDE DEF e, r
  <1>6. OtherTypes'
    <2>1. cache' \in [Handles -> Entries] BY <1>3, <1>5, Here DEF OtherTypes, CacheTypes
    <2> QED BY Here, <2>1
          DEF close_inproc_sync, Move, OtherTypes, ServerTypes, CacheTypes, ResultTypes, LeftTypes, server
  <1>7. "dec" \in Labels /\ UNCHANGED <<mutex, fds>> BY DEF Labels, close_inproc_sync
  <1>8. /\ pc'[t] = "dec" /\ loc'[t] = r /\ call'[t] = call[t] /\ Only(t) /\ ThreadTypes'
        /\ H(t)' = H(t) /\ (Closing(t)' <=> Closing(t))
    BY <1>1, <1>4, <1>6, <1>7, Moves
  <1>9. mutex = t /\ Closing(t) BY Here DEF close_inproc_sync, Move, InSection, PlaceAt, Theirs
  <1>10. PlaceAt(t)' /\ HeldAt(t)'
    BY <1>2, <1>4, <1>8, <1>9, Here DEF PlaceAt, HeldAt, Has, Labels, Ours, Theirs, Shared
  <1>11. cache[H(t)].ref > 0 /\ cache[H(t)].fd \in Fds BY <1>2, RefsFd
  <1>12. EntryOK'
    <2>1. EntryAt(t)' BY <1>8 DEF EntryAt
    <2>2. 0 \notin Fds BY DEF Assumptions, FdsAssumption
    <2> QED BY <2>1, <2>2, <1>2, <1>3, <1>5, <1>8, <1>9, <1>11, EntryStep
  <1>13. ReferencesHeld'
    <2>1. ~cache[H(t)].closed BY Here DEF close_inproc_sync, Move, EntryAt
    <2>2. Kept(e) = 0 /\ Kept(cache[H(t)]) = 1 BY <2>1, <1>3, <1>11 DEF Kept
    <2>3. e.ref = cache[H(t)].ref - Kept(cache[H(t)]) + loc'[t].held - loc[t].held + Kept(e)
      BY <2>2, <1>2, <1>3, <1>4, <1>8
    <2> QED BY <2>3, <1>2, <1>3, <1>5, <1>8, RefStep
  <1>14. FdOK'
    <2>1. \A h \in Handles, d \in Fds : EntryOwns(h, d)' <=> EntryOwns(h, d)
      BY <1>2, <1>3, <1>5, Here DEF EntryOwns, OtherTypes, CacheTypes
    <2> QED BY <2>1, <1>4, <1>7, <1>8, SameFds
  <1> QED BY <1>1, <1>4, <1>6, <1>7, <1>9, <1>10, <1>12, <1>13, <1>14, Moves

(* cache_inproc_sync: the entry is written, then published.                *)
LEMMA InsertStep ==
  ASSUME Assumptions, HInv, NEW t \in Threads, cache_inproc_sync(t), ~InUse(t)
  PROVE  HInv'
  <1> DEFINE e == [ref |-> cache[H(t)].ref, fd |-> loc[t].stack.fd, acc |-> loc[t].stack.acc, closed |-> FALSE]
  <1>1. Goes(t, "publish", loc[t], call[t]) BY Here DEF cache_inproc_sync, Goto, Goes
  <1>2. H(t) \in Handles /\ cache[H(t)] \in Entries /\ cache[H(t)].ref = 0
    BY Here DEF cache_inproc_sync, InUse, PlaceAt, Labels, OtherTypes, CacheTypes
  <1>3. e \in Entries /\ e.ref = 0 /\ e.fd = loc[t].stack.fd /\ e.acc = loc[t].stack.acc /\ ~e.closed
    BY <1>2, Here DEF Entries, Locals
  <1>4. cache' = [cache EXCEPT ![H(t)] = e] BY DEF cache_inproc_sync, InUse
  <1> HIDE DEF e
  <1>5. cache'[H(t)] = e BY <1>2, <1>4, Here DEF OtherTypes, CacheTypes
  <1>6. OtherTypes'
    <2>1. cache' \in [Handles -> Entries] BY <1>3, <1>4, Here DEF OtherTypes, CacheTypes
    <2> QED BY Here, <2>1 DEF cache_inproc_sync, OtherTypes, ServerTypes, CacheTypes, ResultTypes, LeftTypes, server
  <1>7. "publish" \in Labels /\ UNCHANGED <<mutex, fds>> BY DEF Labels, cache_inproc_sync
  <1>8. /\ pc'[t] = "publish" /\ loc'[t] = loc[t] /\ call'[t] = call[t] /\ Only(t) /\ ThreadTypes'
        /\ H(t)' = H(t) /\ (Closing(t)' <=> Closing(t))
    BY <1>1, <1>6, <1>7, Here, Moves
  <1>9. mutex = t BY Here DEF cache_inproc_sync, InSection
  <1>10. PlaceAt(t)' /\ HeldAt(t)'
    BY <1>8, Here DEF cache_inproc_sync, PlaceAt, HeldAt, Has, Labels, Ours, Theirs, Shared
  <1>11. EntryOK'
    <2>1. EntryAt(t)' BY <1>3, <1>5, <1>8 DEF EntryAt
    <2>2. ~(e.ref > 0) BY <1>3
    <2> QED BY <2>1, <2>2, <1>2, <1>3, <1>4, <1>8, <1>9, EntryStep
  <1>12. ReferencesHeld'
    <2>1. Kept(e) = 0 /\ Kept(cache[H(t)]) = 0 BY <1>2, <1>3 DEF Kept
    <2>2. loc[t].held \in Int BY Here DEF Locals
    <2>3. e.ref = cache[H(t)].ref - Kept(cache[H(t)]) + loc'[t].held - loc[t].held + Kept(e)
      BY <2>1, <2>2, <1>2, <1>3, <1>8
    <2> QED BY <2>3, <1>2, <1>3, <1>4, <1>8, RefStep
  <1>13. FdOK'
    <2>1. \A h \in Handles, d \in Fds : EntryOwns(h, d)' <=> EntryOwns(h, d)
      BY <1>2, <1>3, <1>4, Here DEF EntryOwns, OtherTypes, CacheTypes
    <2> QED BY <2>1, <1>7, <1>8, SameFds
  <1> QED BY <1>1, <1>6, <1>7, <1>8, <1>9, <1>10, <1>11, <1>12, <1>13, Here, Moves

LEMMA LocalsPublished ==
  ASSUME NEW q \in Locals, NEW r, r = [q EXCEPT !.stack = NoSync, !.held = 1]
  PROVE  r \in Locals /\ r.held = 1 /\ r.stack.fd = 0 /\ r.saved = q.saved /\ r.cont = q.cont
  <1>1. NoSync \in [fd : Fds \cup {0}, acc : BOOLEAN] /\ NoSync.fd = 0 BY DEF NoSync
  <1>2. 1 \in 0..2 OBVIOUS
  <1> QED BY <1>1, <1>2 DEF Locals

LEMMA PublishStep ==
  ASSUME Assumptions, HInv, NEW t \in Threads, publish(t)
  PROVE  HInv'
  <1> DEFINE r == [loc[t] EXCEPT !.stack = NoSync, !.held = 1]
             e == [cache[H(t)] EXCEPT !.ref = 2]
  <1>1. Goes(t, "leave", r, call[t]) BY Here DEF publish, Move, Goto, Keep, Goes
  <1>2. /\ H(t) \in Handles /\ cache[H(t)] \in Entries /\ cache[H(t)].ref = 0 /\ ~cache[H(t)].closed
        /\ cache[H(t)].fd = loc[t].stack.fd /\ loc[t].held = 0 /\ loc[t].stack.fd # 0 /\ loc[t].saved = 0
        /\ loc[t].cont = "have" /\ ~Closing(t)
    BY Here DEF publish, Move, PlaceAt, HeldAt, EntryAt, Labels, Ours, Closing, OtherTypes, CacheTypes
  <1>3. e \in Entries /\ e.ref = 2 /\ e.fd = loc[t].stack.fd /\ ~e.closed BY <1>2 DEF Entries
  <1>4. r \in Locals /\ r.held = 1 /\ r.stack.fd = 0 /\ r.saved = 0 /\ r.cont = "have"
    BY <1>2, Here, LocalsPublished
  <1>5. cache' = [cache EXCEPT ![H(t)] = e] BY DEF publish
  <1> HIDE DEF e, r
  <1>6. OtherTypes'
    <2>1. cache' \in [Handles -> Entries] BY <1>3, <1>5, Here DEF OtherTypes, CacheTypes
    <2> QED BY Here, <2>1 DEF publish, Move, OtherTypes, ServerTypes, CacheTypes, ResultTypes, LeftTypes, server
  <1>7. "leave" \in Labels /\ UNCHANGED <<mutex, fds>> BY DEF Labels, publish
  <1>8. /\ pc'[t] = "leave" /\ loc'[t] = r /\ call'[t] = call[t] /\ Only(t) /\ ThreadTypes'
        /\ H(t)' = H(t) /\ (Closing(t)' <=> Closing(t))
    BY <1>1, <1>4, <1>6, <1>7, Moves
  <1>9. mutex = t BY Here DEF publish, Move, InSection
  <1>10. PlaceAt(t)' /\ HeldAt(t)'
    BY <1>2, <1>4, <1>8, Here DEF publish, Move, PlaceAt, HeldAt, Has, Labels, Ours, Theirs, Shared
  <1>11. EntryOK'
    <2>1. EntryAt(t)' BY <1>8 DEF EntryAt
    <2> QED BY <2>1, <1>2, <1>3, <1>5, <1>8, <1>9, EntryStep
  <1>12. ReferencesHeld'
    <2>1. Kept(e) = 1 /\ Kept(cache[H(t)]) = 0 BY <1>2, <1>3 DEF Kept
    <2>2. e.ref = cache[H(t)].ref - Kept(cache[H(t)]) + loc'[t].held - loc[t].held + Kept(e)
      BY <2>1, <1>2, <1>3, <1>4, <1>8
    <2> QED BY <2>2, <1>2, <1>3, <1>5, <1>8, RefStep
  <1>13. FdOK'
    <2> DEFINE own == loc[t].stack.fd
    <2> HIDE DEF own
    <2>1. \A u \in Threads, d \in Fds : /\ StackOwns(u, d)' <=> StackOwns(u, d) /\ u # t
                                        /\ CloserOwns(u, d)' <=> CloserOwns(u, d)
                                        /\ StackOwns(t, d) <=> d = own
      <3>1. 0 \notin Fds BY DEF Assumptions, FdsAssumption
      <3> QED BY <3>1, <1>2, <1>4, <1>8 DEF StackOwns, CloserOwns, Only, own
    <2>2. \A h \in Handles, d \in Fds : EntryOwns(h, d)' <=> EntryOwns(h, d) \/ (h = H(t) /\ d = own)
      BY <1>2, <1>3, <1>5, Here DEF EntryOwns, OtherTypes, CacheTypes, own
    <2>3. fds' = fds /\ H(t) \in Handles BY <1>2, <1>7
    <2>4. ASSUME NEW d \in Fds PROVE FdAt(d)'
      <3>1. FdAt(d) BY DEF HInv, FdOK
      <3>2. ~EntryOwns(H(t), d) BY <1>2, Here DEF EntryOwns
      <3> QED BY <3>1, <3>2, <2>1, <2>2, <2>3 DEF FdAt
    <2> QED BY <2>4 DEF FdOK
  <1> QED BY <1>1, <1>4, <1>6, <1>7, <1>8, <1>9, <1>10, <1>11, <1>12, <1>13, Here, Moves

(* release_inproc_sync.                                                    *)
LEMMA LocalsOwn ==
  ASSUME NEW q \in Locals, NEW r, r = [q EXCEPT !.saved = q.stack.fd, !.stack = NoSync]
  PROVE  r \in Locals /\ r.held = q.held /\ r.stack.fd = 0 /\ r.saved = q.stack.fd /\ r.cont = q.cont
  <1>1. NoSync \in [fd : Fds \cup {0}, acc : BOOLEAN] /\ NoSync.fd = 0 BY DEF NoSync
  <1>2. q.stack.fd \in Fds \cup {0} BY DEF Locals
  <1> QED BY <1>1, <1>2 DEF Locals

LEMMA OwnFdStep ==
  ASSUME Assumptions, HInv, NEW t \in Threads, release_inproc_sync(t), loc[t].held = 0
  PROVE  HInv'
  <1> DEFINE r == [loc[t] EXCEPT !.saved = loc[t].stack.fd, !.stack = NoSync]
             own == loc[t].stack.fd
  <1>1. Goes(t, "close_fd", r, call[t]) BY Here DEF release_inproc_sync, Goto, Keep, Goes
  <1>2. H(t) \in Handles /\ loc[t].saved = 0 /\ loc[t].stack.fd # 0
    BY Here DEF release_inproc_sync, PlaceAt, HeldAt, Labels
  <1>3. r \in Locals /\ r.held = 0 /\ r.stack.fd = 0 /\ r.saved = own /\ r.cont = loc[t].cont BY Here, LocalsOwn
  <1> HIDE DEF r, own
  <1>4. OtherTypes'
    BY Here DEF release_inproc_sync, OtherTypes, ServerTypes, CacheTypes, ResultTypes, LeftTypes, server
  <1>5. "close_fd" \in Labels /\ UNCHANGED <<mutex, fds, cache>> BY DEF Labels, release_inproc_sync
  <1>6. /\ pc'[t] = "close_fd" /\ loc'[t] = r /\ call'[t] = call[t] /\ Only(t) /\ ThreadTypes'
        /\ H(t)' = H(t) /\ (Closing(t)' <=> Closing(t))
    BY <1>1, <1>3, <1>4, <1>5, Moves
  <1>7. InSection(t)' => mutex' = t BY <1>3, <1>5, <1>6, Here DEF release_inproc_sync, InSection
  <1>8. PlaceAt(t)' /\ HeldAt(t)'
    BY <1>2, <1>3, <1>6, Here DEF release_inproc_sync, PlaceAt, HeldAt, Has, Labels, Ours, Theirs, Shared
  <1>9. EntryOK'
    <2>1. ASSUME NEW u \in Threads PROVE EntryAt(u)'
      <3>1. EntryAt(u) BY Here
      <3> QED BY <3>1, <1>5, <1>6 DEF EntryAt, Only, H
    <2> QED BY <2>1, <1>5 DEF HInv, EntryOK
  <1>10. ReferencesHeld' BY <1>3, <1>5, <1>6, NoRefStep
  <1>11. FdOK'
    <2>1. \A u \in Threads, d \in Fds : /\ StackOwns(u, d)' <=> StackOwns(u, d) /\ u # t
                                        /\ CloserOwns(u, d)' <=> CloserOwns(u, d) \/ (u = t /\ d = own)
                                        /\ StackOwns(t, d) <=> d = own
                                        /\ ~CloserOwns(t, d)
      <3>1. 0 \notin Fds BY DEF Assumptions, FdsAssumption
      <3> QED BY <3>1, <1>2, <1>3, <1>6 DEF StackOwns, CloserOwns, Only, own
    <2>2. \A h \in Handles, d \in Fds : EntryOwns(h, d)' <=> EntryOwns(h, d) BY <1>5 DEF EntryOwns
    <2>3. fds' = fds BY <1>5
    <2>4. ASSUME NEW d \in Fds PROVE FdAt(d)'
      <3>1. FdAt(d) BY DEF HInv, FdOK
      <3> QED BY <3>1, <2>1, <2>2, <2>3 DEF FdAt
    <2> QED BY <2>4 DEF FdOK
  <1> QED BY <1>1, <1>3, <1>4, <1>5, <1>7, <1>8, <1>9, <1>10, <1>11, Moves

(* A reference is given back; the last one leaves the descriptor to close. *)
LEMMA GiveBackStep ==
  ASSUME Assumptions, HInv, NEW t \in Threads, release_inproc_sync(t), loc[t].held # 0
  PROVE  HInv'
  <1> DEFINE last == cache[H(t)].ref = 1
             d == IF last THEN cache[H(t)].fd ELSE 0
             r == [loc[t] EXCEPT !.saved = d, !.held = @ - 1]
             l == IF last THEN "close_fd" ELSE IF loc[t].held = 2 THEN "dec" ELSE loc[t].cont
             e == [cache[H(t)] EXCEPT !.ref = @ - 1]
  <1>1. Goes(t, l, r, call[t]) BY Here DEF release_inproc_sync, Goto, Keep, Goes
  <1>2. /\ H(t) \in Handles /\ cache[H(t)] \in Entries /\ loc[t].saved = 0 /\ loc[t].stack.fd = 0
        /\ loc[t].held \in {1, 2} /\ loc[t].held > 0 /\ pc[t] = "dec"
    BY Here DEF release_inproc_sync, PlaceAt, HeldAt, Labels, OtherTypes, CacheTypes, Locals
  <1>3. cache[H(t)].ref > 0 /\ cache[H(t)].fd \in Fds /\ cache[H(t)].ref \in Nat
    BY <1>2, RefsFd DEF Entries
  <1>4. e \in Entries /\ e.ref = cache[H(t)].ref - 1 /\ e.fd = cache[H(t)].fd /\ e.closed = cache[H(t)].closed
    BY <1>2, <1>3 DEF Entries
  <1>5. r \in Locals /\ r.held = loc[t].held - 1 /\ r.stack = loc[t].stack /\ r.saved = d /\ r.cont = loc[t].cont
    <2>1. d \in Fds \cup {0} BY <1>3
    <2> HIDE DEF d, last
    <2>2. loc[t] \in Locals /\ r = [loc[t] EXCEPT !.saved = d, !.held = @ - 1] BY Here
    <2> HIDE DEF r
    <2>3. loc[t].held - 1 \in 0..2 BY <1>2
    <2> QED BY <2>1, <2>2, <2>3 DEF Locals
  <1>6. cache' = [cache EXCEPT ![H(t)] = e] BY <1>2 DEF release_inproc_sync
  <1> HIDE DEF e, r
  <1>7. OtherTypes'
    <2>1. cache' \in [Handles -> Entries] BY <1>4, <1>6, Here DEF OtherTypes, CacheTypes
    <2> QED BY Here, <2>1
          DEF release_inproc_sync, OtherTypes, ServerTypes, CacheTypes, ResultTypes, LeftTypes, server
  <1>8. l \in Labels /\ UNCHANGED <<mutex, fds>> BY <1>2, Here DEF Labels, release_inproc_sync, Locals
  <1>9. /\ pc'[t] = l /\ loc'[t] = r /\ call'[t] = call[t] /\ Only(t) /\ ThreadTypes'
        /\ H(t)' = H(t) /\ (Closing(t)' <=> Closing(t))
    BY <1>1, <1>5, <1>7, <1>8, Moves
  <1>10. loc[t].cont \in {"request", "enter", "return", "kind", "server", "close_req"}
         /\ (loc[t].cont = "close_req" <=> Closing(t))
    BY <1>2, Here DEF PlaceAt
  <1>11. InSection(t)' => mutex' = t BY <1>2, <1>5, <1>8, <1>9, <1>10, Here DEF InSection
  <1>12. PlaceAt(t)' /\ HeldAt(t)'
    <2>1. PlaceAt(t)' BY <1>2, <1>5, <1>9, <1>10, Here DEF PlaceAt, Labels, Ours, Theirs, Shared
    <2>2. r.held \in {0, 1} /\ (loc[t].held = 2 <=> r.held = 1) BY <1>2, <1>5
    <2>3. d # 0 => last OBVIOUS
    <2> HIDE DEF d, last
    <2>4. HeldAt(t)' BY <1>2, <1>5, <1>9, <1>10, <2>2, <2>3, Here DEF HeldAt, Has, Labels
    <2> QED BY <2>1, <2>4
  <1>13. EntryOK'
    <2>1. EntryAt(t)' BY <1>9, <1>10 DEF EntryAt
    <2>2. 0 \notin Fds /\ cache[H(t)].ref # 0 BY <1>3 DEF Assumptions, FdsAssumption
    <2>3. e.fd # 0 BY <2>2, <1>3, <1>4
    <2> QED BY <2>1, <2>2, <2>3, <1>2, <1>4, <1>6, <1>9, EntryStep
  <1>14. ReferencesHeld'
    <2>1. Kept(e) = Kept(cache[H(t)]) /\ Kept(e) \in {0, 1}
      <3>1. CASE ~last BY <3>1, <1>3, <1>4 DEF Kept
      <3>2. CASE last
        <4>1. Refs(H(t)) >= loc[t].held /\ Refs(H(t)) \in Nat BY Here, RefsHeld
        <4>2. cache[H(t)].ref = Refs(H(t)) + Kept(cache[H(t)]) BY <1>2, RefsExact DEF HInv
        <4>3. Kept(cache[H(t)]) \in {0, 1} BY DEF Kept
        <4>4. Kept(cache[H(t)]) = 0 BY <1>2, <3>2, <4>1, <4>2, <4>3
        <4>5. Kept(e) = 0 BY <3>2, <1>4 DEF Kept
        <4> QED BY <4>4, <4>5
      <3> QED BY <3>1, <3>2
    <2>2. loc'[t].held = loc[t].held - 1 /\ loc[t].held \in Int BY <1>2, <1>5, <1>9
    <2>3. e.ref = cache[H(t)].ref - Kept(cache[H(t)]) + loc'[t].held - loc[t].held + Kept(e)
      BY <2>1, <2>2, <1>3, <1>4
    <2> QED BY <2>3, <1>2, <1>4, <1>6, <1>9, RefStep
  <1>15. FdOK'
    <2>1. \A u \in Threads, f \in Fds : /\ StackOwns(u, f)' <=> StackOwns(u, f)
                                        /\ CloserOwns(u, f)' <=> CloserOwns(u, f) \/ (u = t /\ f = d)
                                        /\ ~CloserOwns(t, f)
      <3>1. 0 \notin Fds BY DEF Assumptions, FdsAssumption
      <3> QED BY <3>1, <1>2, <1>5, <1>9 DEF StackOwns, CloserOwns, Only
    <2>2. \A h \in Handles, f \in Fds : /\ EntryOwns(h, f)' <=> EntryOwns(h, f) /\ ~(h = H(t) /\ last)
                                        /\ last => (EntryOwns(H(t), f) <=> f = d)
      <3>1. e.ref > 0 <=> ~last BY <1>3, <1>4
      <3> QED BY <3>1, <1>2, <1>3, <1>4, <1>6, Here DEF EntryOwns, OtherTypes, CacheTypes
    <2>3. fds' = fds BY <1>8
    <2>4. 0 \notin Fds /\ (~last => d = 0) BY DEF Assumptions, FdsAssumption
    <2> HIDE DEF d, last
    <2>5. ASSUME NEW f \in Fds PROVE FdAt(f)'
      <3>1. FdAt(f) BY DEF HInv, FdOK
      <3> QED BY <3>1, <2>1, <2>2, <2>3, <2>4, <1>2 DEF FdAt
    <2> QED BY <2>5 DEF FdOK
  <1> QED BY <1>1, <1>5, <1>7, <1>8, <1>11, <1>12, <1>13, <1>14, <1>15, Moves

(* close( fd ): the closer owned it alone.                                 *)
LEMMA CloseFdStep ==
  ASSUME Assumptions, HInv, NEW t \in Threads, close_fd(t)
  PROVE  HInv'
  <1> DEFINE d == loc[t].saved
             r == [loc[t] EXCEPT !.saved = 0]
             l == IF loc[t].held > 0 THEN "dec" ELSE loc[t].cont
  <1>1. Goes(t, l, r, call[t]) BY Here DEF close_fd, Goto, Keep, Goes
  <1>2. H(t) \in Handles /\ loc[t].stack.fd = 0 /\ loc[t].held \in {0, 1} /\ pc[t] = "close_fd"
    BY Here DEF close_fd, PlaceAt, HeldAt, Labels, Locals
  <1>3. r \in Locals /\ r.held = loc[t].held /\ r.stack = loc[t].stack /\ r.saved = 0 /\ r.cont = loc[t].cont
    BY Here DEF Locals
  <1> HIDE DEF r
  <1>4. fds' = [fds EXCEPT ![d] = 0] /\ UNCHANGED <<cache, mutex>> BY DEF close_fd, ToClose
  <1>5. OtherTypes'
    <2>1. fds' \in [Fds -> Objects \cup {0}] BY <1>4, Here DEF OtherTypes, CacheTypes
    <2> QED BY Here, <2>1 DEF close_fd, OtherTypes, ServerTypes, CacheTypes, ResultTypes, LeftTypes, server
  <1>6. l \in Labels BY Here DEF Labels, Locals
  <1>7. /\ pc'[t] = l /\ loc'[t] = r /\ call'[t] = call[t] /\ Only(t) /\ ThreadTypes'
        /\ H(t)' = H(t) /\ (Closing(t)' <=> Closing(t))
    BY <1>1, <1>3, <1>4, <1>5, <1>6, Moves
  <1>8. loc[t].cont \in {"request", "enter", "return", "kind", "server", "close_req"}
        /\ (loc[t].cont = "close_req" <=> Closing(t))
    BY <1>2, Here DEF PlaceAt
  <1>9. InSection(t)' => mutex' = t BY <1>2, <1>3, <1>4, <1>7, <1>8, Here DEF InSection
  <1>10. PlaceAt(t)' /\ HeldAt(t)'
    <2>1. PlaceAt(t)' BY <1>2, <1>3, <1>7, <1>8, Here DEF PlaceAt, Labels, Ours, Theirs, Shared
    <2>2. HeldAt(t)' BY <1>2, <1>3, <1>7, <1>8, Here DEF HeldAt, Has, Labels
    <2> QED BY <2>1, <2>2
  <1>11. EntryOK'
    <2>1. ASSUME NEW u \in Threads PROVE EntryAt(u)'
      <3>1. EntryAt(u) BY Here
      <3>2. l \notin {"publish", "set_closed"} BY <1>8
      <3> HIDE DEF l
      <3> QED BY <3>1, <3>2, <1>4, <1>7 DEF EntryAt, Only, H
    <2> QED BY <2>1, <1>4 DEF HInv, EntryOK
  <1>12. ReferencesHeld' BY <1>3, <1>4, <1>7, NoRefStep
  <1>13. FdOK'
    <2>1. \A u \in Threads, f \in Fds : /\ StackOwns(u, f)' <=> StackOwns(u, f)
                                        /\ CloserOwns(u, f)' <=> CloserOwns(u, f) /\ u # t
                                        /\ CloserOwns(t, f) <=> f = d
      <3>1. 0 \notin Fds BY DEF Assumptions, FdsAssumption
      <3> QED BY <3>1, <1>3, <1>7 DEF StackOwns, CloserOwns, Only
    <2>2. \A h \in Handles, f \in Fds : EntryOwns(h, f)' <=> EntryOwns(h, f) BY <1>4 DEF EntryOwns
    <2>3. \A f \in Fds : fds'[f] = IF f = d THEN 0 ELSE fds[f]
      BY <1>4, Here DEF OtherTypes, CacheTypes
    <2> HIDE DEF d
    <2>4. ASSUME NEW f \in Fds PROVE FdAt(f)'
      <3>1. FdAt(f) BY DEF HInv, FdOK
      <3> QED BY <3>1, <2>1, <2>2, <2>3 DEF FdAt
    <2> QED BY <2>4 DEF FdOK
  <1> QED BY <1>1, <1>3, <1>4, <1>5, <1>6, <1>9, <1>10, <1>11, <1>12, <1>13, Moves

(* receive_fd: the kernel gives a free number.                             *)
LEMMA ReceivedStep ==
  ASSUME Assumptions, HInv, NEW t \in Threads, get_server_inproc_sync(t), table[H(t)].obj # 0
  PROVE  HInv'
  <1>0. PICK d \in Fds :
          /\ fds[d] = 0
          /\ refs' = IF Wfu THEN [refs EXCEPT ![table[H(t)].obj] = (@ + 1) % UshortSize] ELSE refs
          /\ fds' = [fds EXCEPT ![d] = table[H(t)].obj]
          /\ Keep(t, [loc[t] EXCEPT !.stack = [fd |-> d, acc |-> table[H(t)].acc], !.cont = "have"])
          /\ Goto(t, "receive") /\ UNCHANGED result
    BY DEF get_server_inproc_sync
  <1> DEFINE o == table[H(t)].obj
             s == [fd |-> d, acc |-> table[H(t)].acc]
             r == [loc[t] EXCEPT !.stack = s, !.cont = "have"]
  <1>1. Goes(t, "receive", r, call[t]) BY <1>0, Here, ZenonT(40) DEF get_server_inproc_sync, Goto, Keep, Goes
  <1>2. /\ H(t) \in Handles /\ loc[t].stack.fd = 0 /\ loc[t].held = 0 /\ loc[t].saved = 0
        /\ table[H(t)] \in Rows /\ pc[t] = "request" /\ mutex = t /\ ~Closing(t) /\ call[t].op = "use"
    BY Here DEF get_server_inproc_sync, PlaceAt, HeldAt, Has, Labels, Ours, InSection, OtherTypes, ServerTypes, Closing
  <1>3. o \in Objects BY <1>2 DEF Rows
  <1>4. r \in Locals /\ r.held = 0 /\ r.stack.fd = d /\ r.saved = 0 /\ r.cont = "have"
    <2>1. s \in [fd : Fds \cup {0}, acc : BOOLEAN] /\ s.fd = d BY <1>2 DEF Rows
    <2>2. "have" \in Labels BY DEF Labels
    <2> HIDE DEF s
    <2> QED BY <2>1, <2>2, <1>2, Here DEF Locals
  <1> HIDE DEF r, s
  <1>5. OtherTypes'
    <2>1. fds' \in [Fds -> Objects \cup {0}] BY <1>0, <1>3, Here DEF OtherTypes, CacheTypes
    <2>2. refs' \in [Objects -> 0 .. UshortSize - 1]
      <3>1. refs[o] \in Int BY <1>3, Here DEF OtherTypes, ServerTypes
      <3>2. \A n \in Int : n % UshortSize \in 0 .. UshortSize - 1 BY DEF Assumptions, WidthAssumption
      <3>3. (refs[o] + 1) % UshortSize \in 0 .. UshortSize - 1 BY <3>1, <3>2
      <3> QED BY <1>0, <1>3, <3>3, Here DEF OtherTypes, ServerTypes
    <2>3. UNCHANGED <<table, live, made, cache, wf, kind, mutex, known, left, result>>
      BY <1>0 DEF get_server_inproc_sync
    <2> QED BY Here, <2>1, <2>2, <2>3 DEF OtherTypes, ServerTypes, CacheTypes, ResultTypes, LeftTypes
  <1>6. "receive" \in Labels /\ UNCHANGED <<mutex, cache>> BY DEF Labels, get_server_inproc_sync
  <1>7. /\ pc'[t] = "receive" /\ loc'[t] = r /\ call'[t] = call[t] /\ Only(t) /\ ThreadTypes'
        /\ H(t)' = H(t) /\ (Closing(t)' <=> Closing(t))
    BY <1>1, <1>4, <1>5, <1>6, Moves
  <1>8. 0 \notin Objects /\ 0 \notin Fds BY DEF Assumptions, ObjectsAssumption, FdsAssumption
  <1>9. PlaceAt(t)' /\ HeldAt(t)'
    BY <1>2, <1>4, <1>7, <1>8, Here DEF PlaceAt, HeldAt, Has, Labels, Ours, Theirs, Shared
  <1>10. EntryOK'
    <2>1. ASSUME NEW u \in Threads PROVE EntryAt(u)'
      <3>1. EntryAt(u) BY Here
      <3> QED BY <3>1, <1>6, <1>7 DEF EntryAt, Only, H
    <2> QED BY <2>1, <1>6 DEF HInv, EntryOK
  <1>11. ReferencesHeld' BY <1>2, <1>4, <1>6, <1>7, NoRefStep
  <1>12. FdOK'
    <2>1. \A u \in Threads, f \in Fds : /\ StackOwns(u, f)' <=> StackOwns(u, f) \/ (u = t /\ f = d)
                                        /\ CloserOwns(u, f)' <=> CloserOwns(u, f)
      BY <1>2, <1>4, <1>7, <1>8 DEF StackOwns, CloserOwns, Only
    <2>2. \A h \in Handles, f \in Fds : EntryOwns(h, f)' <=> EntryOwns(h, f) BY <1>6 DEF EntryOwns
    <2>3. \A f \in Fds : fds'[f] = IF f = d THEN o ELSE fds[f] BY <1>0, Here DEF OtherTypes, CacheTypes
    <2>4. o # 0 /\ fds[d] = 0 BY <1>0, <1>3, <1>8
    <2> HIDE DEF o
    <2>5. ASSUME NEW f \in Fds PROVE FdAt(f)'
      <3>1. FdAt(f) BY DEF HInv, FdOK
      <3> QED BY <3>1, <2>1, <2>2, <2>3, <2>4 DEF FdAt
    <2> QED BY <2>5 DEF FdOK
  <1> QED BY <1>1, <1>2, <1>4, <1>5, <1>6, <1>9, <1>10, <1>11, <1>12, Moves, SMTT(20)

-----------------------------------------------------------------------------
LEMMA InitHInv == ASSUME Assumptions, Init PROVE HInv
  <1>1. TypeOK
    <2>1. ServerTypes BY Stored DEF Init, ServerTypes, Assumptions, WidthAssumption
    <2>2. CacheTypes BY Stored DEF Init, CacheTypes
    <2>3. ThreadTypes
      <3>1. NoCall \in Asked BY DEF NoCall, Asked, Assumptions, TagsAssumption
      <3> QED BY <3>1, Stored DEF Init, ThreadTypes, Labels, Assumptions, BoundAssumption
    <2>4. ResultTypes BY Stored DEF Init, ResultTypes
    <2>5. PublishType BY DEF Init, PublishType
    <2> QED BY <2>1, <2>2, <2>3, <2>4, <2>5, TypeParts
  <1>2. SectionOK BY DEF Init, SectionOK, InSection, Closing, NoCall
  <1>3. PlaceOK BY DEF Init, PlaceOK, PlaceAt, Closing, NoCall, Ours, Theirs, Shared
  <1>4. HeldOK BY DEF Init, HeldOK, HeldAt, Has, NoLocals, NoSync
  <1>5. EntryOK BY DEF Init, EntryOK, EntryAt, NoEntry
  <1>6. ReferencesHeld
    <2>1. ASSUME NEW h \in Handles PROVE cache[h].ref = Refs(h) + Kept(cache[h])
      <3>1. Holders(h) = {} /\ Closers(h) = {} BY DEF Init, Holders, Closers, NoLocals
      <3>2. Cardinality({}) = 0 BY FS_EmptySet
      <3> QED BY <3>1, <3>2 DEF Init, NoEntry, Refs, Kept
    <2> QED BY <2>1, RefsExact
  <1>7. FdOK
    <2>1. 0 \notin Fds BY DEF Assumptions, FdsAssumption
    <2> QED BY <2>1 DEF Init, FdOK, FdAt, EntryOwns, StackOwns, CloserOwns, NoEntry, NoLocals, NoSync
  <1> QED BY <1>1, <1>2, <1>3, <1>4, <1>5, <1>6, <1>7 DEF HInv

LEMMA NextHInv == ASSUME Assumptions, HInv, [Next]_vars PROVE HInv'
  <1>1. ASSUME UNCHANGED vars PROVE HInv'
    <2> USE <1>1 DEF vars, server, caches, thread, H, Closing
    <2>1. TypeOK' BY DEF HInv, TypeOK
    <2>2. SectionOK' /\ PlaceOK' /\ HeldOK' /\ EntryOK'
      BY DEF HInv, SectionOK, InSection, PlaceOK, PlaceAt, HeldOK, HeldAt, Has, EntryOK, EntryAt
    <2>3. ReferencesHeld'
      <3>1. \A h \in Handles : Holders(h)' = Holders(h) /\ Closers(h)' = Closers(h) BY DEF Holders, Closers
      <3> QED BY <3>1 DEF HInv, ReferencesHeld
    <2>4. FdOK' BY DEF HInv, FdOK, FdAt, EntryOwns, StackOwns, CloserOwns
    <2> QED BY <2>1, <2>2, <2>3, <2>4 DEF HInv
  <1>2. ASSUME NEW t \in Threads, Program(t) PROVE HInv'
    BY <1>2, BeginStep DEF Program
  <1>3. ASSUME NEW t \in Threads, Lookup(t) PROVE HInv'
    <2>1. CASE interlocked_inc_if_nonzero(t) BY <2>1, MissStep, HitStep
    <2>2. CASE check_closed(t) BY <2>2, RefusedStep, AcceptedStep, FoundOpenStep
    <2>3. CASE get_server_inproc_sync(t) BY <2>3, NoObjectStep, ReceivedStep
    <2>4. CASE cache_inproc_sync(t) BY <2>4, InUseStep, InsertStep
    <2>5. CASE get_inproc_sync(t) BY <2>5, RightsStep, NoRightsStep
    <2> QED BY <1>3, <2>1, <2>2, <2>3, <2>4, <2>5, EnterStep, LeaveStep, ReceiveStep, PublishStep DEF Lookup
  <1>4. ASSUME NEW t \in Threads, Release(t) PROVE HInv'
    BY <1>4, OwnFdStep, GiveBackStep, CloseFdStep, SetClosedStep DEF Release
  <1>5. ASSUME NEW t \in Threads, FastPath(t) PROVE HInv'
    <2>1. CASE get_local_event_state_locked(t)
      BY <2>1, EntryLeftStep, EntryDeniedStep, EntryFoundStep DEF get_local_event_state_locked
    <2>2. CASE wfusync_set_event(t) BY <2>2, WordLeftStep, WordSetStep DEF wfusync_set_event
    <2>3. CASE wfusync_wake_waiters(t) BY <2>3, WakeStep, NoWakeStep DEF wfusync_wake_waiters
    <2>4. CASE warm_wfusync_event_cache(t)
      BY <2>4, WarmStep, CachedStateStep DEF warm_wfusync_event_cache, Move
    <2> QED BY <1>5, <2>1, <2>2, <2>3, <2>4, KindStep, ServerStep DEF FastPath
  <1>6. ASSUME NEW t \in Threads, Closes(t) PROVE HInv'
    BY <1>6, DropKindStep, DropStep, CloseHandleStep, DuplicateStep DEF Closes
  <1>7. ASSUME NEW t \in Threads, Opens(t) PROVE HInv'
    BY <1>7, CreateStep, OpenStep, OpenFailsStep, MarkStep DEF Opens
  <1> QED BY <1>1, <1>2, <1>3, <1>4, <1>5, <1>6, <1>7, ActStep, EndStep DEF Next, Step

LEMMA InductiveHInv == Assumptions => (Spec => []HInv)
  <1> SUFFICES ASSUME Assumptions PROVE Spec => []HInv OBVIOUS
  <1>1. Init => HInv BY InitHInv
  <1>2. HInv /\ [Next]_vars => HInv' BY NextHInv
  <1> QED BY <1>1, <1>2, PTL DEF Spec

LEMMA FdParts == FdOK => FdOwnership
  <1> SUFFICES ASSUME FdOK PROVE FdOwnership OBVIOUS
  <1>1. ASSUME NEW d \in Fds
        PROVE  /\ fds[d] # 0 <=> \E p \in Owners : Owns(p, d)
               /\ \A p, q \in Owners : Owns(p, d) /\ Owns(q, d) => p = q
    <2>1. FdAt(d) BY DEF FdOK
    <2>2. \A h \in Handles : <<"entry", h>> \in Owners /\ (Owns(<<"entry", h>>, d) <=> EntryOwns(h, d))
      BY DEF Owners, Owns, EntryOwns
    <2>3. \A t \in Threads : /\ <<"stack", t>> \in Owners /\ (Owns(<<"stack", t>>, d) <=> StackOwns(t, d))
                             /\ <<"closer", t>> \in Owners /\ (Owns(<<"closer", t>>, d) <=> CloserOwns(t, d))
      BY DEF Owners, Owns, StackOwns, CloserOwns
    <2>4. \A p \in Owners : \/ \E h \in Handles : p = <<"entry", h>>
                            \/ \E t \in Threads : p = <<"stack", t>> \/ p = <<"closer", t>>
      BY DEF Owners
    <2>5. fds[d] # 0 <=> \E p \in Owners : Owns(p, d)
      <3> HIDE DEF Owners, Owns, EntryOwns, StackOwns, CloserOwns
      <3>1. fds[d] # 0 => \E p \in Owners : Owns(p, d) BY <2>1, <2>2, <2>3 DEF FdAt
      <3>2. ASSUME NEW p \in Owners, Owns(p, d) PROVE fds[d] # 0 BY <3>2, <2>1, <2>2, <2>3, <2>4, ZenonT(40) DEF FdAt
      <3> QED BY <3>1, <3>2
    <2>6. ASSUME NEW p \in Owners, NEW q \in Owners, Owns(p, d), Owns(q, d) PROVE p = q
      <3>1. CASE \E h \in Handles : p = <<"entry", h>>
        <4>1. PICK h \in Handles : p = <<"entry", h>> BY <3>1
        <4>2. EntryOwns(h, d) BY <4>1, <2>2, <2>6
        <4>3. \A t \in Threads : q # <<"stack", t>> /\ q # <<"closer", t>> BY <4>2, <2>1, <2>3, <2>6 DEF FdAt
        <4>4. PICK i \in Handles : q = <<"entry", i>> BY <4>3, <2>4
        <4>5. EntryOwns(i, d) BY <4>4, <2>2, <2>6
        <4> QED BY <4>1, <4>2, <4>4, <4>5, <2>1 DEF FdAt
      <3>2. CASE \E t \in Threads : p = <<"stack", t>>
        <4>1. PICK t \in Threads : p = <<"stack", t>> BY <3>2
        <4>2. StackOwns(t, d) BY <4>1, <2>3, <2>6
        <4>3. /\ \A h \in Handles : q # <<"entry", h>>
              /\ \A u \in Threads : q # <<"closer", u>>
          BY <4>2, <2>1, <2>2, <2>3, <2>6 DEF FdAt
        <4>4. PICK u \in Threads : q = <<"stack", u>> BY <4>3, <2>4
        <4>5. StackOwns(u, d) BY <4>4, <2>3, <2>6
        <4> QED BY <4>1, <4>2, <4>4, <4>5, <2>1 DEF FdAt
      <3>3. CASE \E t \in Threads : p = <<"closer", t>>
        <4>1. PICK t \in Threads : p = <<"closer", t>> BY <3>3
        <4>2. CloserOwns(t, d) BY <4>1, <2>3, <2>6
        <4>3. /\ \A h \in Handles : q # <<"entry", h>>
              /\ \A u \in Threads : q # <<"stack", u>>
          BY <4>2, <2>1, <2>2, <2>3, <2>6 DEF FdAt
        <4>4. PICK u \in Threads : q = <<"closer", u>> BY <4>3, <2>4
        <4>5. CloserOwns(u, d) BY <4>4, <2>3, <2>6
        <4> QED BY <4>1, <4>2, <4>4, <4>5, <2>1 DEF FdAt
      <3> QED BY <3>1, <3>2, <3>3, <2>4
    <2> QED BY <2>5, <2>6
  <1> QED BY <1>1 DEF FdOwnership

(* The types, and the assertions of cache_inproc_sync and                  *)
(* release_inproc_sync (dlls/ntdll/unix/sync.c): an entry has no reference *)
(* when it is published, and no count goes below zero.                     *)
THEOREM CacheTypesOK == Assumptions => (Spec => []TypeOK)
  <1>1. HInv => TypeOK BY DEF HInv
  <1> QED BY <1>1, InductiveHInv, PTL

(* The count of an entry of inproc_sync_cache is exact: one reference for  *)
(* a handle that is not closed, and those that threads have yet to release *)
(* (get_cached_inproc_sync, close_inproc_sync, release_inproc_sync).       *)
THEOREM ReferencesExact == Assumptions => (Spec => []ReferencesHeld)
  <1>1. HInv => ReferencesHeld BY DEF HInv
  <1> QED BY <1>1, InductiveHInv, PTL

(* No descriptor is leaked, and none is closed that the kernel has given   *)
(* to somebody else: each has one owner, an entry, a struct on a thread's  *)
(* stack or a thread about to close it (release_inproc_sync).              *)
THEOREM DescriptorsOwned == Assumptions => (Spec => []FdOwnership)
  <1>1. HInv => FdOwnership BY FdParts DEF HInv
  <1> QED BY <1>1, InductiveHInv, PTL

-----------------------------------------------------------------------------
(* What the caches say, and what the uses of a handle come to.             *)
Row(h) == [obj |-> table[h].obj, acc |-> table[h].acc]
NotFound == [obj |-> 0, acc |-> FALSE]
NStep == Nt!Next \/ UNCHANGED Nt!vars
Good == NInv' /\ ResultOK' /\ NStep
Inv == HInv /\ NInv /\ ResultOK

(* What Settled says, by the place of the use.                             *)
BySync(t) == call[t].op = "use" /\ (pc[t] \in {"receive", "insert", "publish", "have", "act"}
                                    \/ (pc[t] = "leave" /\ loc[t].cont = "have"))
LEMMA SettledBy ==
  ASSUME NEW t
  PROVE  /\ BySync(t) => Settled(t) = [obj |-> fds[Sync(t).fd], acc |-> Sync(t).acc]
         /\ call[t].op = "use" /\ pc[t] = "word" => Settled(t) = [obj |-> loc[t].obj, acc |-> TRUE]
         /\ ~BySync(t) /\ ~(call[t].op = "use" /\ pc[t] = "word") => Settled(t) = NotFound
  BY DEF Settled, BySync, NotFound

LEMMA Gone ==
  ASSUME ThreadTypes, NEW t \in Threads, NEW l, NEW r, NEW c, Goes(t, l, r, c)
  PROVE  /\ pc'[t] = l /\ loc'[t] = r /\ call'[t] = c /\ Only(t)
         /\ H(t)' = c.h /\ (Closing(t)' <=> c.op \in {"close", "dup"})
  BY DEF Goes, Only, ThreadTypes, H, Closing

(* The descriptor a use works on is open, and it or its entry owns it.     *)
LEMMA SyncFd ==
  ASSUME Assumptions, HInv, NEW t \in Threads, BySync(t)
  PROVE  /\ Sync(t).fd \in Fds /\ fds[Sync(t).fd] # 0 /\ fds[Sync(t).fd] \in Objects
         /\ IF loc[t].held > 0 THEN EntryOwns(H(t), Sync(t).fd) /\ H(t) \in Handles ELSE StackOwns(t, Sync(t).fd)
  <1>1. ~Closing(t) BY DEF BySync, Closing
  <1>2. loc[t].held = 0 => loc[t].stack.fd \in Fds BY <1>1, Here DEF BySync, HeldAt, Has, Locals
  <1>3. loc[t].held > 0 => H(t) \in Handles /\ cache[H(t)].ref > 0 /\ cache[H(t)].fd \in Fds BY RefsFd
  <1>4. loc[t].held = 0 \/ loc[t].held > 0 BY Here DEF Locals
  <1>5. Sync(t).fd = IF loc[t].held > 0 THEN cache[H(t)].fd ELSE loc[t].stack.fd BY DEF Sync
  <1>6. Sync(t).fd \in Fds BY <1>2, <1>3, <1>4, <1>5
  <1>7. IF loc[t].held > 0 THEN EntryOwns(H(t), Sync(t).fd) /\ H(t) \in Handles ELSE StackOwns(t, Sync(t).fd)
    BY <1>3, <1>5 DEF EntryOwns, StackOwns
  <1>8. FdAt(Sync(t).fd) BY <1>6 DEF HInv, FdOK
  <1>9. fds[Sync(t).fd] # 0 BY <1>7, <1>8 DEF FdAt
  <1> QED BY <1>6, <1>7, <1>9, Here DEF OtherTypes, CacheTypes

(* What the other threads have settled on stays.                           *)
LEMMA SettledStays ==
  ASSUME Assumptions, HInv, NEW t \in Threads, Only(t), NEW u \in Threads \ {t},
         \A h \in Handles : cache[h].ref > 0 => cache'[h].fd = cache[h].fd /\ cache'[h].acc = cache[h].acc,
         \A d \in Fds : fds[d] # 0 => fds'[d] = fds[d] \/ CloserOwns(t, d)
  PROVE  Settled(u)' = Settled(u)
  <1>1. pc'[u] = pc[u] /\ loc'[u] = loc[u] /\ call'[u] = call[u] BY DEF Only
  <1>2. CASE ~BySync(u)
    <2>1. ~BySync(u)' BY <1>1, <1>2 DEF BySync
    <2> QED BY <2>1, <1>1, <1>2 DEF Settled, BySync
  <1>3. CASE BySync(u)
    <2>1. BySync(u)' BY <1>1, <1>3 DEF BySync
    <2>2. loc[u].held > 0 => H(u) \in Handles /\ cache[H(u)].ref > 0 BY RefsFd
    <2>3. Sync(u)' = Sync(u) BY <1>1, <2>2 DEF Sync, H
    <2>4. Sync(u).fd \in Fds /\ fds[Sync(u).fd] # 0 BY <1>3, SyncFd
    <2>5. FdAt(Sync(u).fd) BY <2>4 DEF HInv, FdOK
    <2>6. ~CloserOwns(t, Sync(u).fd) BY <1>3, <2>5, SyncFd DEF FdAt
    <2>7. fds'[Sync(u)'.fd] = fds[Sync(u).fd] BY <2>3, <2>4, <2>6
    <2>8. Settled(u) = [obj |-> fds[Sync(u).fd], acc |-> Sync(u).acc] BY <1>3, SettledBy
    <2>9. Settled(u)' = [obj |-> fds'[Sync(u)'.fd], acc |-> Sync(u)'.acc]
      BY <2>1 DEF Settled, BySync
    <2> QED BY <2>3, <2>7, <2>8, <2>9
  <1> QED BY <1>2, <1>3

LEMMA ResultStep ==
  ASSUME ResultOK, NEW t \in Threads, Only(t), ResultAt(t)',
         \A u \in Threads \ {t} : result'[u] = result[u] /\ Settled(u)' = Settled(u)
  PROVE  ResultOK'
  <1>1. ASSUME NEW u \in Threads \ {t} PROVE ResultAt(u)'
    <2>1. ResultAt(u) BY DEF ResultOK
    <2>2. pc'[u] = pc[u] /\ loc'[u] = loc[u] /\ call'[u] = call[u] BY DEF Only
    <2> QED BY <2>1, <2>2 DEF ResultAt, Answered, H, Closing
  <1> QED BY <1>1 DEF ResultOK

(* How a step of a use maps to NtHandles: it settles, forgets, or comes to *)
(* a result.                                                               *)
Finds(t) == /\ result' = result
            /\ \/ Settled(t)' \in {Settled(t), NotFound}
               \/ call[t].op = "use" /\ result[t] = Pending /\ Settled(t)' = Row(H(t))
Works(t) == /\ call[t].op = "use" /\ result[t] = Pending /\ Settled(t)' = NotFound
            /\ \E x \in {Row(H(t))} \cup (IF Settled(t).obj # 0 THEN {Settled(t)} ELSE {}) :
                  result' = [result EXCEPT ![t] = Nt!Outcome(x)]

Asking(t) == IF call[t].op = "use" THEN H(t) ELSE 0
LEMMA Mapped ==
  ASSUME ThreadTypes, NEW t \in Threads, Only(t), \A u \in Threads \ {t} : Settled(u)' = Settled(u)
  PROVE  /\ [u \in Threads |-> Settled(u)]' = [[u \in Threads |-> Settled(u)] EXCEPT ![t] = Settled(t)']
         /\ [u \in Threads |-> Asking(u)]' = [[u \in Threads |-> Asking(u)] EXCEPT ![t] = Asking(t)']
  <1>1. \A u \in Threads \ {t} : Asking(u)' = Asking(u) BY DEF Only, Asking, H
  <1> QED BY <1>1

LEMMA TurnStep ==
  ASSUME Assumptions, Inv, NEW t \in Threads, Only(t), table' = table, call' = call,
         \A u \in Threads \ {t} : Settled(u)' = Settled(u), Finds(t) \/ Works(t)
  PROVE  NStep
  <1> DEFINE F == [u \in Threads |-> Settled(u)]
             A == [u \in Threads |-> Asking(u)]
             T == [h \in Handles |-> Row(h)]
  <1>1. ThreadTypes /\ ResultAt(t) BY Here DEF Inv, ResultOK
  <1>2. F' = [F EXCEPT ![t] = Settled(t)'] BY <1>1, Mapped
  <1>3. A' = A BY DEF Asking, H
  <1>4. T' = T BY DEF Row
  <1>5. call[t].op = "use" => A[t] # 0 /\ A[t] = H(t) /\ T[A[t]] = Row(H(t))
    <2>1. 0 \notin Handles BY DEF Assumptions, HandlesAssumption
    <2> QED BY <2>1, <1>1 DEF Asking, ResultAt
  <1>6. F[t] = Settled(t) OBVIOUS
  <1> HIDE DEF F, A, T
  <1>7. CASE Finds(t) /\ Settled(t)' = Settled(t)
    <2>1. F' = F BY <1>2, <1>6, <1>7 DEF F
    <2>2. result' = result BY <1>7 DEF Finds
    <2>3. UNCHANGED Nt!vars BY <2>1, <2>2, <1>3, <1>4 DEF Nt!vars, F, A, T, Asking, Row
    <2> QED BY <2>3 DEF NStep
  <1>8. CASE Finds(t) /\ Settled(t)' = NotFound
    <2>1. Nt!Forget(t)
      BY <1>2, <1>3, <1>4, <1>8 DEF Nt!Forget, Nt!NotFound, NotFound, Finds, F, A, T, Asking, Row
    <2> QED BY <2>1 DEF NStep, Nt!Next
  <1>9. CASE Finds(t) /\ call[t].op = "use" /\ result[t] = Pending /\ Settled(t)' = Row(H(t))
    <2>1. Nt!Find(t)
      BY <1>2, <1>3, <1>4, <1>5, <1>9 DEF Nt!Find, Nt!Pending, Pending, Finds, F, A, T, Asking, Row
    <2> QED BY <2>1 DEF NStep, Nt!Next
  <1>10. CASE Works(t)
    <2>1. PICK x \in {Row(H(t))} \cup (IF Settled(t).obj # 0 THEN {Settled(t)} ELSE {}) :
             result' = [result EXCEPT ![t] = Nt!Outcome(x)]
      BY <1>10 DEF Works
    <2>2. A[t] # 0 /\ result[t] = Nt!Pending /\ F' = [F EXCEPT ![t] = Nt!NotFound] /\ A' = A /\ T' = T
      BY <1>2, <1>3, <1>4, <1>5, <1>10 DEF Works, Nt!NotFound, NotFound, Nt!Pending, Pending
    <2>3. \/ F[t].obj # 0 /\ result' = [result EXCEPT ![t] = Nt!Outcome(F[t])]
          \/ result' = [result EXCEPT ![t] = Nt!Outcome(T[A[t]])]
      BY <2>1, <1>5, <1>6, <1>10 DEF Works
    <2>4. Nt!Work(t) BY <2>2, <2>3 DEF Nt!Work, F, A, T, Asking, Row
    <2> QED BY <2>4 DEF NStep, Nt!Next
  <1> QED BY <1>7, <1>8, <1>9, <1>10 DEF Finds

(* What the caches say stays true in a step that leaves them alone.        *)
LEMMA SteadyNInv ==
  ASSUME Inv, NEW t \in Threads, Only(t), UNCHANGED <<table, cache, fds, wf>>,
         StackAt(t)', GoneAt(t)', DroppedAt(t)'
  PROVE  NInv'
  <1>1. ASSUME NEW u \in Threads \ {t} PROVE StackAt(u)' /\ GoneAt(u)' /\ DroppedAt(u)'
    <2>1. StackAt(u) /\ GoneAt(u) /\ DroppedAt(u) BY DEF Inv, NInv, StackOK, GoneOK, DroppedOK
    <2> QED BY <2>1 DEF Only, StackAt, GoneAt, DroppedAt, Closing, H
  <1>2. TableOK' /\ CacheOK' /\ WfOK' BY DEF Inv, NInv, TableOK, CacheOK, WfOK
  <1> QED BY <1>1, <1>2 DEF NInv, StackOK, GoneOK, DroppedOK

LEMMA SteadyStep ==
  ASSUME Assumptions, Inv, NEW t \in Threads, Only(t), UNCHANGED <<table, cache, fds, wf>>, call' = call,
         StackAt(t)', GoneAt(t)', DroppedAt(t)', ResultAt(t)', Finds(t) \/ Works(t)
  PROVE  Good
  <1>1. \A u \in Threads \ {t} : Settled(u)' = Settled(u) BY SettledStays DEF Inv
  <1>2. \A u \in Threads \ {t} : result'[u] = result[u]
    <2>1. result \in [Threads -> Results] BY Here DEF Inv, OtherTypes, ResultTypes
    <2>2. CASE Finds(t) BY <2>2 DEF Finds
    <2>3. CASE Works(t) BY <2>1, <2>3 DEF Works
    <2> QED BY <2>2, <2>3
  <1> QED BY <1>1, <1>2, TurnStep, SteadyNInv, ResultStep DEF Good, Inv

(* What the invariant says of the thread that moves.                       *)
LEMMA HereToo ==
  ASSUME Assumptions, Inv, NEW t \in Threads
  PROVE  /\ PlaceAt(t) /\ HeldAt(t) /\ EntryAt(t) /\ (InSection(t) => mutex = t) /\ HInv /\ ThreadTypes
         /\ StackAt(t) /\ GoneAt(t) /\ DroppedAt(t) /\ ResultAt(t)
         /\ pc[t] \in Labels /\ loc[t] \in Locals /\ call[t] \in Asked
         /\ loc = [loc EXCEPT ![t] = loc[t]] /\ call = [call EXCEPT ![t] = call[t]]
  BY Here DEF Inv, NInv, StackOK, GoneOK, DroppedOK, ResultOK


(* The same of a place l with the locals r, while the caches stay.         *)
Through(r, c) == IF r.held > 0 THEN [fd |-> cache[c.h].fd, acc |-> cache[c.h].acc] ELSE r.stack
Meant(l, r, c) ==
  IF c.op = "use" /\ (l \in {"receive", "insert", "publish", "have", "act"} \/ (l = "leave" /\ r.cont = "have"))
  THEN [obj |-> fds[Through(r, c).fd], acc |-> Through(r, c).acc]
  ELSE IF c.op = "use" /\ l = "word" THEN [obj |-> r.obj, acc |-> TRUE] ELSE NotFound
Over(l, r) == l \in {"wake", "return"} \/ (l \in {"dec", "close_fd", "leave"} /\ r.cont = "return")
Fits(t, l, r) ==
  /\ l \in {"receive", "insert", "publish"} =>
       fds[r.stack.fd] = table[H(t)].obj /\ r.stack.acc = table[H(t)].acc
  /\ l \in {"dec", "close_fd", "close_req"} /\ Closing(t) => cache[H(t)].ref = 0 \/ cache[H(t)].closed
  /\ Wfu /\ Closing(t) /\ l \in {"lookup", "check", "set_closed", "dec", "close_fd", "close_req"} => ~wf[H(t)].valid
  /\ l = "act" => ~Wfu /\ Meant(l, r, call[t]).acc
  /\ l = "word" => r.obj # 0
  /\ ~Wfu => /\ l \notin {"kind", "entry", "word", "wake", "warm", "cached_state", "server"}
             /\ ~Closing(t) /\ l \in {"dec", "close_fd", "leave"} => r.cont \notin {"kind", "server"}

LEMMA MeantHere ==
  ASSUME NEW t PROVE Settled(t) = Meant(pc[t], loc[t], call[t]) /\ (Answered(t) <=> Over(pc[t], loc[t]))
  BY DEF Settled, Meant, Through, Sync, H, NotFound, Answered, Over

LEMMA MeantNext ==
  ASSUME NEW t, UNCHANGED <<cache, fds>>, NEW l, NEW r, NEW c, pc'[t] = l, loc'[t] = r, call'[t] = c
  PROVE  Settled(t)' = Meant(l, r, c) /\ (Answered(t)' <=> Over(l, r))
  BY DEF Settled, Meant, Through, Sync, H, NotFound, Answered, Over

LEMMA SteadyMove ==
  ASSUME Assumptions, Inv, NEW t \in Threads, NEW l, NEW r, Goes(t, l, r, call[t]),
         UNCHANGED <<table, cache, fds, wf>>, Fits(t, l, r),
         call[t].op = "use" => (Over(l, r) <=> result'[t] # Pending),
         \/ result' = result /\ (\/ Meant(l, r, call[t]) \in {Settled(t), NotFound}
                                 \/ /\ call[t].op = "use" /\ result[t] = Pending
                                    /\ Meant(l, r, call[t]) = Row(H(t)))
         \/ /\ call[t].op = "use" /\ result[t] = Pending /\ Meant(l, r, call[t]) = NotFound
            /\ \E x \in {Row(H(t))} \cup (IF Settled(t).obj # 0 THEN {Settled(t)} ELSE {}) :
                  result' = [result EXCEPT ![t] = Nt!Outcome(x)]
  PROVE  Good
  <1>1. pc'[t] = l /\ loc'[t] = r /\ call'[t] = call[t] /\ Only(t) /\ H(t)' = H(t) /\ (Closing(t)' <=> Closing(t))
    BY HereToo, Gone DEF H, Closing
  <1>2. call' = call BY HereToo DEF Goes
  <1>3. Settled(t)' = Meant(l, r, call[t]) /\ (Answered(t)' <=> Over(l, r)) BY <1>1, MeantNext
  <1>4. StackAt(t)' /\ GoneAt(t)' /\ DroppedAt(t)' BY <1>1 DEF Fits, StackAt, GoneAt, DroppedAt
  <1>5. ResultAt(t)' BY <1>1, <1>3, HereToo DEF Fits, ResultAt
  <1>6. Finds(t) \/ Works(t) BY <1>3 DEF Finds, Works
  <1> QED BY <1>1, <1>2, <1>4, <1>5, <1>6, SteadyStep


(* The steps that leave the caches alone, in the order of the code.        *)
LEMMA EnterGood ==
  ASSUME Assumptions, Inv, NEW t \in Threads, enter_section(t)
  PROVE  Good
  <1> DEFINE l == IF Closing(t) /\ Wfu THEN "drop_kind" ELSE "lookup"
             r == loc[t]
  <1>1. Goes(t, l, r, call[t]) BY HereToo DEF enter_section, Move, Goto, Goes
  <1>2. pc[t] = "enter" /\ UNCHANGED <<table, cache, fds, wf, result>>
    BY DEF enter_section, Move, server, caches
  <1>3. Fits(t, l, r) BY <1>2, HereToo DEF Fits
  <1>4. ~Over(l, r) /\ ~Over(pc[t], r) /\ Meant(l, r, call[t]) = NotFound BY <1>2 DEF Over, Meant
  <1>5. call[t].op = "use" => result[t] = Pending BY <1>4, HereToo, MeantHere DEF ResultAt
  <1> QED BY <1>1, <1>2, <1>3, <1>4, <1>5, SteadyMove

LEMMA LeaveGood ==
  ASSUME Assumptions, Inv, NEW t \in Threads, leave_section(t)
  PROVE  Good
  <1> DEFINE l == IF Closing(t) THEN "return" ELSE loc[t].cont
             r == loc[t]
  <1>1. Goes(t, l, r, call[t]) BY HereToo DEF leave_section, Move, Goto, Goes
  <1>2. pc[t] = "leave" /\ UNCHANGED <<table, cache, fds, wf, result>>
    BY DEF leave_section, Move, server, caches
  <1>3. ~Closing(t) => l \in {"have", "server", "return"} BY <1>2, HereToo DEF PlaceAt
  <1>4. Fits(t, l, r) BY <1>2, <1>3, HereToo DEF Fits, ResultAt
  <1>5. call[t].op = "use" => ~Closing(t) BY DEF Closing
  <1>6. call[t].op = "use" => (Over(l, r) <=> Over(pc[t], r)) BY <1>2, <1>3, <1>5 DEF Over
  <1>7. Meant(l, r, call[t]) = Settled(t) BY <1>2, <1>3, <1>5, MeantHere DEF Meant
  <1>8. call[t].op = "use" => (Over(l, r) <=> result[t] # Pending) BY <1>6, HereToo, MeantHere DEF ResultAt
  <1> QED BY <1>1, <1>2, <1>4, <1>7, <1>8, SteadyMove

LEMMA RefusedGood ==
  ASSUME Assumptions, Inv, NEW t \in Threads, Refused(t), check_closed(t)
  PROVE  Good
  <1> DEFINE l == "dec"
             r == [loc[t] EXCEPT !.cont = Missed(t)]
  <1>1. Goes(t, l, r, call[t]) BY HereToo DEF check_closed, Goto, Keep, Goes
  <1>2. pc[t] = "check" /\ UNCHANGED <<table, cache, fds, wf, result>> BY DEF check_closed, server, caches
  <1>3. r.cont = Missed(t) /\ Missed(t) \in {"close_req", "request", "enter"} BY HereToo DEF Locals, Missed
  <1>4. Fits(t, l, r) BY <1>2, <1>3, HereToo DEF Fits, DroppedAt, Refused
  <1>5. ~Over(l, r) /\ ~Over(pc[t], loc[t]) /\ Meant(l, r, call[t]) = NotFound BY <1>2, <1>3 DEF Over, Meant
  <1>6. call[t].op = "use" => result[t] = Pending BY <1>5, HereToo, MeantHere DEF ResultAt
  <1> QED BY <1>1, <1>2, <1>4, <1>5, <1>6, SteadyMove

LEMMA AcceptedGood ==
  ASSUME Assumptions, Inv, NEW t \in Threads, ~Refused(t), ~Closing(t), check_closed(t)
  PROVE  Good
  <1> DEFINE l == IF mutex = t THEN "leave" ELSE "have"
             r == [loc[t] EXCEPT !.cont = "have"]
  <1>1. Goes(t, l, r, call[t]) BY HereToo DEF check_closed, Goto, Keep, Goes
  <1>2. pc[t] = "check" /\ UNCHANGED <<table, cache, fds, wf, result>> BY DEF check_closed, server, caches
  <1>3. r.cont = "have" /\ r.held = 1 BY <1>2, HereToo DEF Locals, HeldAt
  <1>4. H(t) \in Handles /\ cache[H(t)].ref > 0
    <2>1. loc[t].held > 0 BY <1>2, HereToo DEF HeldAt
    <2> QED BY <2>1, RefsFd DEF Inv
  <1>5. fds[cache[H(t)].fd] = table[H(t)].obj /\ cache[H(t)].acc = table[H(t)].acc
    BY <1>4 DEF Refused, Inv, NInv, CacheOK
  <1>6. call[t].op = "use" BY <1>2, HereToo DEF PlaceAt, Shared
  <1>7. Meant(l, r, call[t]) = Row(H(t)) BY <1>3, <1>5, <1>6 DEF Meant, Through, Row, H
  <1>8. Fits(t, l, r) BY <1>3 DEF Fits
  <1>9. ~Over(l, r) /\ ~Over(pc[t], loc[t]) BY <1>2, <1>3 DEF Over
  <1>10. result[t] = Pending BY <1>6, <1>9, HereToo, MeantHere DEF ResultAt
  <1> QED BY <1>1, <1>2, <1>6, <1>7, <1>8, <1>9, <1>10, SteadyMove

LEMMA FoundOpenGood ==
  ASSUME Assumptions, Inv, NEW t \in Threads, ~Refused(t), Closing(t), check_closed(t)
  PROVE  Good
  <1> DEFINE l == "set_closed"
             r == loc[t]
  <1>1. Goes(t, l, r, call[t]) BY HereToo DEF check_closed, Goto, Keep, Goes
  <1>2. pc[t] = "check" /\ UNCHANGED <<table, cache, fds, wf, result>> BY DEF check_closed, server, caches
  <1>3. call[t].op # "use" BY DEF Closing
  <1>4. Fits(t, l, r) BY <1>2, HereToo DEF Fits, DroppedAt
  <1>5. Meant(l, r, call[t]) = NotFound BY <1>3 DEF Meant
  <1> QED BY <1>1, <1>2, <1>3, <1>4, <1>5, SteadyMove


(* What a use that holds an object has settled on.                         *)
LEMMA UseSettled ==
  ASSUME Assumptions, Inv, NEW t \in Threads, BySync(t)
  PROVE  /\ Settled(t) = [obj |-> fds[Sync(t).fd], acc |-> Sync(t).acc]
         /\ Settled(t).obj \in Objects /\ Settled(t).obj # 0 /\ Settled(t).acc = Sync(t).acc
  <1>1. fds[Sync(t).fd] # 0 /\ fds[Sync(t).fd] \in Objects BY SyncFd DEF Inv
  <1>2. Settled(t) = [obj |-> fds[Sync(t).fd], acc |-> Sync(t).acc] BY SettledBy
  <1> QED BY <1>1, <1>2

LEMMA RightsGood ==
  ASSUME Assumptions, Inv, NEW t \in Threads, Sync(t).acc, ~Wfu, get_inproc_sync(t)
  PROVE  Good
  <1> DEFINE l == "act"
             r == loc[t]
  <1>1. Goes(t, l, r, call[t]) BY HereToo DEF get_inproc_sync, Goto, Keep, Goes
  <1>2. pc[t] = "have" /\ UNCHANGED <<table, cache, fds, wf, result>> BY DEF get_inproc_sync, server, caches
  <1>3. call[t].op = "use" BY <1>2, HereToo DEF PlaceAt, Ours
  <1>4. Settled(t).acc BY <1>2, <1>3, UseSettled DEF BySync
  <1>5. Meant(l, r, call[t]) = Settled(t) BY <1>2, <1>3, MeantHere DEF Meant
  <1>6. Fits(t, l, r) BY <1>4, <1>5 DEF Fits
  <1>7. ~Over(l, r) /\ ~Over(pc[t], loc[t]) BY <1>2 DEF Over
  <1>8. result[t] = Pending BY <1>3, <1>7, HereToo, MeantHere DEF ResultAt
  <1> QED BY <1>1, <1>2, <1>5, <1>6, <1>7, <1>8, SteadyMove

LEMMA NoRightsGood ==
  ASSUME Assumptions, Inv, NEW t \in Threads, ~(Sync(t).acc /\ ~Wfu), get_inproc_sync(t)
  PROVE  Good
  <1> DEFINE k == IF ~Wfu THEN "return" ELSE IF Sync(t).acc THEN "kind" ELSE "server"
             l == "dec"
             r == [loc[t] EXCEPT !.cont = k, !.again = TRUE]
  <1>1. Goes(t, l, r, call[t]) BY HereToo DEF get_inproc_sync, Goto, Keep, Goes
  <1>2. pc[t] = "have" /\ UNCHANGED <<table, cache, fds, wf>> BY DEF get_inproc_sync, server, caches
  <1>3. call[t].op = "use" /\ ~Closing(t) BY <1>2, HereToo DEF PlaceAt, Ours, Closing
  <1>4. r.cont = k BY HereToo DEF Locals
  <1>5. Fits(t, l, r) BY <1>3, <1>4 DEF Fits
  <1>6. Meant(l, r, call[t]) = NotFound BY DEF Meant
  <1>7. ~Over(pc[t], loc[t]) /\ (Over(l, r) <=> ~Wfu) BY <1>2, <1>4 DEF Over
  <1>8. result[t] = Pending BY <1>3, <1>7, HereToo, MeantHere DEF ResultAt
  <1>9. CASE Wfu
    <2>1. result' = result BY <1>9 DEF get_inproc_sync
    <2> QED BY <2>1, <1>1, <1>2, <1>5, <1>6, <1>7, <1>8, <1>9, SteadyMove
  <1>10. CASE ~Wfu
    <2>1. Settled(t).obj # 0 /\ ~Settled(t).acc BY <1>2, <1>3, <1>10, UseSettled DEF BySync
    <2>2. Nt!Outcome(Settled(t)) = [what |-> "denied", obj |-> 0] BY <2>1 DEF Nt!Outcome
    <2>3. result' = [result EXCEPT ![t] = [what |-> "denied", obj |-> 0]]
      BY <1>10 DEF get_inproc_sync, Finish
    <2>4. result'[t] # Pending BY <2>3, HereToo, Here DEF Pending, OtherTypes, ResultTypes
    <2>5. Settled(t) \in {Row(H(t))} \cup (IF Settled(t).obj # 0 THEN {Settled(t)} ELSE {}) BY <2>1
    <2> QED BY <2>2, <2>3, <2>4, <2>5, <1>1, <1>2, <1>3, <1>5, <1>6, <1>7, <1>8, <1>10, SteadyMove
  <1> QED BY <1>9, <1>10

LEMMA ActGood ==
  ASSUME Assumptions, Inv, NEW t \in Threads, act(t)
  PROVE  Good
  <1> DEFINE l == "dec"
             r == [loc[t] EXCEPT !.cont = "return"]
  <1>1. Goes(t, l, r, call[t]) BY HereToo DEF act, Move, Goto, Keep, Goes
  <1>2. pc[t] = "act" /\ UNCHANGED <<table, cache, fds, wf>> BY DEF act, Move, server, caches
  <1>3. call[t].op = "use" /\ ~Closing(t) BY <1>2, HereToo DEF PlaceAt, Ours, Closing
  <1>4. r.cont = "return" BY HereToo DEF Locals
  <1>5. Fits(t, l, r) BY <1>3, <1>4 DEF Fits
  <1>6. Meant(l, r, call[t]) = NotFound BY DEF Meant
  <1>7. ~Over(pc[t], loc[t]) /\ Over(l, r) BY <1>2, <1>4 DEF Over
  <1>8. result[t] = Pending BY <1>3, <1>7, HereToo, MeantHere DEF ResultAt
  <1>9. /\ Settled(t).obj # 0 /\ Settled(t).acc /\ Settled(t).obj = fds[Sync(t).fd]
    BY <1>2, <1>3, UseSettled, HereToo DEF BySync, ResultAt
  <1>10. Nt!Outcome(Settled(t)) = [what |-> "done", obj |-> fds[Sync(t).fd]] BY <1>9 DEF Nt!Outcome
  <1>11. result' = [result EXCEPT ![t] = [what |-> "done", obj |-> fds[Sync(t).fd]]] BY DEF act, Finish
  <1>12. result'[t] # Pending BY <1>11, HereToo, Here DEF Pending, OtherTypes, ResultTypes
  <1>13. Settled(t) \in {Row(H(t))} \cup (IF Settled(t).obj # 0 THEN {Settled(t)} ELSE {}) BY <1>9
  <1> QED BY <1>1, <1>2, <1>3, <1>5, <1>6, <1>7, <1>8, <1>10, <1>11, <1>12, <1>13, SteadyMove

LEMMA ServerGood ==
  ASSUME Assumptions, Inv, NEW t \in Threads, event_op(t)
  PROVE  Good
  <1> DEFINE l == "return"
             r == loc[t]
             e == table[H(t)]
             o == [what |-> IF e.obj = 0 THEN "invalid" ELSE IF e.acc THEN "done" ELSE "denied",
                   obj |-> IF e.obj # 0 /\ e.acc THEN e.obj ELSE 0]
  <1>1. Goes(t, l, r, call[t]) BY HereToo DEF event_op, Move, Goto, Keep, Goes
  <1>2. pc[t] = "server" /\ UNCHANGED <<table, cache, fds, wf>> BY DEF event_op, Move, server, caches
  <1>3. call[t].op = "use" /\ ~Closing(t) BY <1>2, HereToo DEF PlaceAt, Ours, Closing
  <1>5. Fits(t, l, r) BY <1>3 DEF Fits
  <1>6. Meant(l, r, call[t]) = NotFound BY DEF Meant
  <1>7. ~Over(pc[t], loc[t]) /\ Over(l, r) BY <1>2 DEF Over
  <1>8. result[t] = Pending BY <1>3, <1>7, HereToo, MeantHere DEF ResultAt
  <1>9. Nt!Outcome(Row(H(t))) = o BY DEF Nt!Outcome, Row
  <1>10. result' = [result EXCEPT ![t] = o] BY DEF event_op, Finish
  <1>11. result'[t] # Pending BY <1>10, HereToo, Here DEF Pending, OtherTypes, ResultTypes
  <1> HIDE DEF o
  <1> QED BY <1>1, <1>2, <1>3, <1>5, <1>6, <1>7, <1>8, <1>9, <1>10, <1>11, SteadyMove


(* A use goes on, with nothing settled.                                    *)
LEMMA GoOn ==
  ASSUME Assumptions, Inv, NEW t \in Threads, NEW l, NEW r, Goes(t, l, r, call[t]), call[t].op = "use",
         l \in {"entry", "server", "warm", "cached_state", "lookup"}, l # "lookup" => Wfu,
         UNCHANGED <<table, cache, fds, wf, result>>, result[t] = Pending
  PROVE  Good
  <1>1. ~Closing(t) BY DEF Closing
  <1>2. Fits(t, l, r) BY <1>1 DEF Fits
  <1>3. ~Over(l, r) /\ Meant(l, r, call[t]) = NotFound BY DEF Over, Meant
  <1> QED BY <1>2, <1>3, SteadyMove

LEMMA FastHere ==
  ASSUME Assumptions, Inv, NEW t \in Threads, pc[t] \in {"kind", "entry", "word", "wake", "warm", "cached_state"}
  PROVE  Wfu /\ call[t].op = "use" /\ ~Closing(t) /\ H(t) \in Handles
         /\ (pc[t] # "wake" => result[t] = Pending) /\ (pc[t] = "wake" => result[t] # Pending)
  <1>1. call[t].op = "use" /\ ~Closing(t) BY HereToo DEF PlaceAt, Ours, Closing
  <1>2. Wfu BY HereToo DEF ResultAt
  <1>3. Over(pc[t], loc[t]) <=> pc[t] = "wake" BY DEF Over
  <1> QED BY <1>1, <1>2, <1>3, HereToo, MeantHere DEF ResultAt

LEMMA KindGood ==
  ASSUME Assumptions, Inv, NEW t \in Threads, wfusync_handle_kind_matches(t)
  PROVE  Good
  <1> DEFINE l == IF kind[H(t)] = "event" THEN "entry" ELSE NotImplemented(t)
             r == loc[t]
  <1>1. Goes(t, l, r, call[t]) BY HereToo DEF wfusync_handle_kind_matches, Move, Goto, Goes
  <1>2. pc[t] = "kind" /\ UNCHANGED <<table, cache, fds, wf, result>>
    BY DEF wfusync_handle_kind_matches, Move, server, caches
  <1>3. l \in {"entry", "server", "warm"} BY DEF NotImplemented
  <1> QED BY <1>1, <1>2, <1>3, FastHere, GoOn

LEMMA WarmGood ==
  ASSUME Assumptions, Inv, NEW t \in Threads, warm_wfusync_event_cache(t)
  PROVE  Good
  <1> DEFINE k == IF kind[H(t)] = "event" THEN "cached_state" ELSE "server"
             l == IF wf[H(t)].valid /\ wf[H(t)].handle = Value(t) THEN "server" ELSE "lookup"
             r == loc[t]
  <1>1. UNCHANGED <<table, cache, fds, wf, result>> BY DEF warm_wfusync_event_cache, server, caches
  <1>2. CASE Move(t, "warm", k)
    <2>1. Goes(t, k, r, call[t]) /\ pc[t] = "warm"
      BY <1>2, HereToo DEF warm_wfusync_event_cache, Move, Goto, Goes
    <2>2. k \in {"cached_state", "server"} OBVIOUS
    <2> QED BY <1>1, <2>1, <2>2, FastHere, GoOn
  <1>3. CASE Move(t, "cached_state", l)
    <2>1. Goes(t, l, r, call[t]) /\ pc[t] = "cached_state"
      BY <1>3, HereToo DEF warm_wfusync_event_cache, Move, Goto, Goes
    <2>2. l \in {"lookup", "server"} OBVIOUS
    <2> QED BY <1>1, <2>1, <2>2, FastHere, GoOn
  <1> QED BY <1>2, <1>3 DEF warm_wfusync_event_cache

(* What the entry of wfusync_cache says is what the handle stands for.     *)
LEMMA EntryLeftGood ==
  ASSUME Assumptions, Inv, NEW t \in Threads, pc[t] = "entry", Goto(t, NotImplemented(t)), loc' = loc, call' = call,
         UNCHANGED <<table, cache, fds, wf, result>>
  PROVE  Good
  <1>1. Goes(t, NotImplemented(t), loc[t], call[t]) BY HereToo DEF Goto, Goes
  <1>2. NotImplemented(t) \in {"server", "warm"} BY DEF NotImplemented
  <1> QED BY <1>1, <1>2, FastHere, GoOn

LEMMA EntryDeniedGood ==
  ASSUME Assumptions, Inv, NEW t \in Threads, pc[t] = "entry", Usable(t), ~wf[H(t)].acc, Goto(t, "return"),
         Finish(t, "denied", 0), loc' = loc, call' = call, UNCHANGED <<table, cache, fds, wf>>
  PROVE  Good
  <1> DEFINE l == "return"
             r == loc[t]
             o == [what |-> "denied", obj |-> 0]
  <1>1. Goes(t, l, r, call[t]) BY HereToo DEF Goto, Goes
  <1>2. H(t) \in Handles /\ call[t].op = "use" /\ ~Closing(t) /\ Wfu /\ result[t] = Pending BY FastHere
  <1>3. table[H(t)].obj # 0 /\ ~table[H(t)].acc BY <1>2 DEF Usable, Inv, NInv, WfOK
  <1>4. Nt!Outcome(Row(H(t))) = o BY <1>3 DEF Nt!Outcome, Row
  <1>5. result' = [result EXCEPT ![t] = o] BY DEF Finish
  <1>6. result'[t] # Pending BY <1>5, HereToo, Here DEF Pending, OtherTypes, ResultTypes
  <1>7. Fits(t, l, r) BY <1>2 DEF Fits
  <1>8. Over(l, r) /\ Meant(l, r, call[t]) = NotFound BY DEF Over, Meant
  <1> HIDE DEF o
  <1> QED BY <1>1, <1>2, <1>4, <1>5, <1>6, <1>7, <1>8, SteadyMove

LEMMA EntryFoundGood ==
  ASSUME Assumptions, Inv, NEW t \in Threads, pc[t] = "entry", Usable(t), wf[H(t)].acc, Goto(t, "word"),
         Keep(t, [loc[t] EXCEPT !.obj = wf[H(t)].obj]), call' = call, UNCHANGED <<table, cache, fds, wf, result>>
  PROVE  Good
  <1> DEFINE l == "word"
             r == [loc[t] EXCEPT !.obj = wf[H(t)].obj]
  <1>1. Goes(t, l, r, call[t]) BY HereToo DEF Goto, Keep, Goes
  <1>2. H(t) \in Handles /\ call[t].op = "use" /\ ~Closing(t) /\ Wfu /\ result[t] = Pending BY FastHere
  <1>3. table[H(t)].obj # 0 /\ table[H(t)].acc = wf[H(t)].acc /\ wf[H(t)].obj = table[H(t)].obj
    BY <1>2 DEF Usable, Inv, NInv, WfOK
  <1>4. wf[H(t)].acc = TRUE
    BY <1>2, HereToo, Here DEF OtherTypes, CacheTypes, WfEntries
  <1>5. r.obj = table[H(t)].obj BY <1>3, HereToo DEF Locals
  <1>6. Fits(t, l, r) BY <1>2, <1>3, <1>5 DEF Fits
  <1>7. ~Over(l, r) BY DEF Over
  <1>8. Meant(l, r, call[t]) = [obj |-> r.obj, acc |-> TRUE] BY <1>2 DEF Meant
  <1> HIDE DEF r
  <1>9. Meant(l, r, call[t]) = Row(H(t)) BY <1>3, <1>4, <1>5, <1>8 DEF Row
  <1> QED BY <1>1, <1>2, <1>6, <1>7, <1>9, SteadyMove

LEMMA EntryGood ==
  ASSUME Assumptions, Inv, NEW t \in Threads, get_local_event_state_locked(t)
  PROVE  Good
  <1>1. pc[t] = "entry" /\ call' = call /\ UNCHANGED <<table, cache, fds, wf>>
    BY DEF get_local_event_state_locked, server, caches
  <1> QED BY <1>1, EntryLeftGood, EntryDeniedGood, EntryFoundGood DEF get_local_event_state_locked


LEMMA WordLeftGood ==
  ASSUME Assumptions, Inv, NEW t \in Threads, pc[t] = "word", Goto(t, NotImplemented(t)), loc' = loc, call' = call,
         UNCHANGED <<table, cache, fds, wf, result>>
  PROVE  Good
  <1>1. Goes(t, NotImplemented(t), loc[t], call[t]) BY HereToo DEF Goto, Goes
  <1>2. NotImplemented(t) \in {"server", "warm"} BY DEF NotImplemented
  <1> QED BY <1>1, <1>2, FastHere, GoOn

LEMMA WordSetGood ==
  ASSUME Assumptions, Inv, NEW t \in Threads, pc[t] = "word", Goto(t, "wake"), Finish(t, "done", loc[t].obj),
         loc' = loc, call' = call, UNCHANGED <<table, cache, fds, wf>>
  PROVE  Good
  <1> DEFINE l == "wake"
             r == loc[t]
             o == [what |-> "done", obj |-> loc[t].obj]
  <1>1. Goes(t, l, r, call[t]) BY HereToo DEF Goto, Goes
  <1>2. call[t].op = "use" /\ ~Closing(t) /\ Wfu /\ result[t] = Pending BY FastHere
  <1>3. loc[t].obj # 0 BY HereToo DEF ResultAt
  <1>4. Settled(t) = [obj |-> loc[t].obj, acc |-> TRUE] BY <1>2, SettledBy
  <1>5. Settled(t).obj # 0 /\ Nt!Outcome(Settled(t)) = o BY <1>3, <1>4 DEF Nt!Outcome
  <1>6. Settled(t) \in {Row(H(t))} \cup (IF Settled(t).obj # 0 THEN {Settled(t)} ELSE {}) BY <1>5
  <1>7. result' = [result EXCEPT ![t] = o] BY DEF Finish
  <1>8. result'[t] # Pending BY <1>7, HereToo, Here DEF Pending, OtherTypes, ResultTypes
  <1>9. Fits(t, l, r) BY <1>2 DEF Fits
  <1>10. Over(l, r) /\ Meant(l, r, call[t]) = NotFound BY DEF Over, Meant
  <1> HIDE DEF o
  <1> QED BY <1>1, <1>2, <1>5, <1>6, <1>7, <1>8, <1>9, <1>10, SteadyMove

LEMMA WordGood ==
  ASSUME Assumptions, Inv, NEW t \in Threads, wfusync_set_event(t)
  PROVE  Good
  <1>1. pc[t] = "word" /\ call' = call /\ loc' = loc /\ UNCHANGED <<table, cache, fds, wf>>
    BY DEF wfusync_set_event, server, caches
  <1> QED BY <1>1, WordLeftGood, WordSetGood DEF wfusync_set_event

LEMMA WakeGood ==
  ASSUME Assumptions, Inv, NEW t \in Threads, wfusync_wake_waiters(t)
  PROVE  Good
  <1> DEFINE l == "return"
  <1>1. pc[t] = "wake" /\ Goto(t, l) /\ call' = call /\ UNCHANGED <<table, cache, fds, wf, result>>
    BY DEF wfusync_wake_waiters, Move, server, caches
  <1>2. call[t].op = "use" /\ ~Closing(t) /\ Wfu /\ result[t] # Pending BY <1>1, FastHere
  <1>3. ASSUME NEW r, Keep(t, r) PROVE Good
    <2>1. Goes(t, l, r, call[t]) BY <1>1, <1>3, HereToo DEF Goto, Keep, Goes
    <2>2. Fits(t, l, r) BY <1>2 DEF Fits
    <2>3. Over(l, r) /\ Meant(l, r, call[t]) = NotFound BY DEF Over, Meant
    <2> QED BY <1>1, <1>2, <2>1, <2>2, <2>3, SteadyMove
  <1>4. loc' = loc => Keep(t, loc[t]) BY HereToo DEF Keep
  <1> QED BY <1>3, <1>4 DEF wfusync_wake_waiters

(* get_cached_inproc_sync finds no entry.                                  *)
LEMMA MissGood ==
  ASSUME Assumptions, Inv, NEW t \in Threads, cache[H(t)].ref = 0, interlocked_inc_if_nonzero(t)
  PROVE  Good
  <1> DEFINE l == Missed(t)
             r == loc[t]
  <1>1. Goes(t, l, r, call[t]) BY HereToo DEF interlocked_inc_if_nonzero, Goto, Goes
  <1>2. pc[t] = "lookup" /\ UNCHANGED <<table, cache, fds, wf, result>>
    BY DEF interlocked_inc_if_nonzero, server
  <1>3. l \in {"close_req", "request", "enter"} BY DEF Missed
  <1>4. Fits(t, l, r) BY <1>2, <1>3, HereToo DEF Fits, DroppedAt
  <1>5. ~Over(l, r) /\ ~Over(pc[t], loc[t]) /\ Meant(l, r, call[t]) = NotFound BY <1>2, <1>3 DEF Over, Meant
  <1>6. call[t].op = "use" => result[t] = Pending BY <1>5, HereToo, MeantHere DEF ResultAt
  <1> QED BY <1>1, <1>2, <1>4, <1>5, <1>6, SteadyMove

(* wineserver knows no object of the handle.                               *)
LEMMA NoObjectGood ==
  ASSUME Assumptions, Inv, NEW t \in Threads, table[H(t)].obj = 0, get_server_inproc_sync(t)
  PROVE  Good
  <1> DEFINE k == IF Wfu THEN "server" ELSE "return"
             l == "leave"
             r == [loc[t] EXCEPT !.cont = k]
             o == [what |-> "invalid", obj |-> 0]
  <1>1. Goes(t, l, r, call[t]) BY HereToo DEF get_server_inproc_sync, Goto, Keep, Goes
  <1>2. pc[t] = "request" /\ UNCHANGED <<table, cache, fds, wf>> BY DEF get_server_inproc_sync
  <1>3. call[t].op = "use" /\ ~Closing(t) BY <1>2, HereToo DEF PlaceAt, Ours, Closing
  <1>4. r.cont = k BY HereToo DEF Locals
  <1>5. Fits(t, l, r) BY <1>3, <1>4 DEF Fits
  <1>6. Meant(l, r, call[t]) = NotFound BY <1>4 DEF Meant
  <1>7. ~Over(pc[t], loc[t]) /\ (Over(l, r) <=> ~Wfu) BY <1>2, <1>4 DEF Over
  <1>8. result[t] = Pending BY <1>3, <1>7, HereToo, MeantHere DEF ResultAt
  <1>9. CASE Wfu
    <2>1. result' = result BY <1>9 DEF get_server_inproc_sync
    <2> QED BY <2>1, <1>1, <1>2, <1>5, <1>6, <1>7, <1>8, <1>9, SteadyMove
  <1>10. CASE ~Wfu
    <2>1. Nt!Outcome(Row(H(t))) = o BY DEF Nt!Outcome, Row
    <2>2. result' = [result EXCEPT ![t] = o] BY <1>10 DEF get_server_inproc_sync, Finish
    <2>3. result'[t] # Pending BY <2>2, HereToo, Here DEF Pending, OtherTypes, ResultTypes
    <2> HIDE DEF o
    <2> QED BY <2>1, <2>2, <2>3, <1>1, <1>2, <1>3, <1>5, <1>6, <1>7, <1>8, <1>10, SteadyMove
  <1> QED BY <1>9, <1>10

LEMMA InUseGood ==
  ASSUME Assumptions, Inv, NEW t \in Threads, InUse(t), cache_inproc_sync(t)
  PROVE  Good
  <1> DEFINE l == "leave"
             r == loc[t]
  <1>1. Goes(t, l, r, call[t]) BY HereToo DEF cache_inproc_sync, Goto, Goes
  <1>2. pc[t] = "insert" /\ UNCHANGED <<table, cache, fds, wf, result>> BY DEF cache_inproc_sync, server
  <1>3. call[t].op = "use" /\ ~Closing(t) BY <1>2, HereToo DEF PlaceAt, Ours, Closing
  <1>4. r.cont = "have" BY <1>2, HereToo DEF PlaceAt
  <1>5. Fits(t, l, r) BY <1>3, <1>4 DEF Fits
  <1>6. Meant(l, r, call[t]) = Settled(t) BY <1>2, <1>3, <1>4, MeantHere DEF Meant
  <1>7. ~Over(l, r) /\ ~Over(pc[t], loc[t]) BY <1>2, <1>4 DEF Over
  <1>8. result[t] = Pending BY <1>3, <1>7, HereToo, MeantHere DEF ResultAt
  <1> QED BY <1>1, <1>2, <1>3, <1>5, <1>6, <1>7, <1>8, SteadyMove

(* The descriptor of a use that is in no entry.                            *)
LEMMA OwnFdGood ==
  ASSUME Assumptions, Inv, NEW t \in Threads, loc[t].held = 0, release_inproc_sync(t)
  PROVE  Good
  <1> DEFINE l == "close_fd"
             r == [loc[t] EXCEPT !.saved = loc[t].stack.fd, !.stack = NoSync]
  <1>1. Goes(t, l, r, call[t]) BY HereToo DEF release_inproc_sync, Goto, Keep, Goes
  <1>2. pc[t] = "dec" /\ UNCHANGED <<table, cache, fds, wf, result>> BY DEF release_inproc_sync, server
  <1>3. r.cont = loc[t].cont BY HereToo DEF Locals
  <1>4. Fits(t, l, r) BY <1>2, <1>3, HereToo DEF Fits, GoneAt, DroppedAt, ResultAt
  <1>5. (Over(l, r) <=> Over(pc[t], loc[t])) /\ Meant(l, r, call[t]) = NotFound BY <1>2, <1>3 DEF Over, Meant
  <1>6. call[t].op = "use" => (Over(l, r) <=> result[t] # Pending) BY <1>5, HereToo, MeantHere DEF ResultAt
  <1> QED BY <1>1, <1>2, <1>4, <1>5, <1>6, SteadyMove

LEMMA DropKindGood ==
  ASSUME Assumptions, Inv, NEW t \in Threads, drop_kind(t)
  PROVE  Good
  <1> DEFINE l == "drop"
             r == loc[t]
  <1>1. Goes(t, l, r, call[t]) BY HereToo DEF drop_kind, Move, Goto, Goes
  <1>2. pc[t] = "drop_kind" /\ UNCHANGED <<table, cache, fds, wf, result>> BY DEF drop_kind, Move, server
  <1>3. call[t].op # "use" BY <1>2, HereToo DEF PlaceAt, Theirs, Closing
  <1>4. Fits(t, l, r) BY DEF Fits
  <1>5. Meant(l, r, call[t]) = NotFound BY DEF Meant
  <1> QED BY <1>1, <1>2, <1>3, <1>4, <1>5, SteadyMove


(* The steps of a call that change an entry or a descriptor.               *)
LEMMA FindsStep ==
  ASSUME Assumptions, Inv, NEW t \in Threads, Only(t), table' = table, call' = call, Finds(t), ResultAt(t)',
         \A h \in Handles : cache[h].ref > 0 => cache'[h].fd = cache[h].fd /\ cache'[h].acc = cache[h].acc,
         \A d \in Fds : fds[d] # 0 => fds'[d] = fds[d] \/ CloserOwns(t, d)
  PROVE  ResultOK' /\ NStep
  <1>1. \A u \in Threads \ {t} : Settled(u)' = Settled(u) BY SettledStays DEF Inv
  <1>2. result' = result BY DEF Finds
  <1> QED BY <1>1, <1>2, TurnStep, ResultStep DEF Inv

LEMMA CacheNInv ==
  ASSUME Assumptions, Inv, NEW t \in Threads, Only(t), UNCHANGED <<table, fds, wf>>, H(t) \in Handles,
         NEW e, cache' = [cache EXCEPT ![H(t)] = e],
         e.ref > 0 /\ ~e.closed => fds[e.fd] = table[H(t)].obj /\ e.acc = table[H(t)].acc,
         mutex = t \/ (cache[H(t)].ref = 0 \/ cache[H(t)].closed => e.ref = 0 \/ e.closed),
         StackAt(t)', GoneAt(t)', DroppedAt(t)'
  PROVE  NInv'
  <1>1. \A h \in Handles : cache'[h] = IF h = H(t) THEN e ELSE cache[h]
    BY HereToo, Here DEF OtherTypes, CacheTypes
  <1>2. TableOK' /\ WfOK' BY DEF Inv, NInv, TableOK, WfOK
  <1>3. CacheOK' BY <1>1 DEF Inv, NInv, CacheOK
  <1>4. ASSUME NEW u \in Threads \ {t} PROVE StackAt(u)' /\ DroppedAt(u)'
    <2>1. StackAt(u) /\ DroppedAt(u) BY HereToo
    <2> QED BY <2>1 DEF Only, StackAt, DroppedAt, Closing, H
  <1>5. ASSUME NEW u \in Threads \ {t} PROVE GoneAt(u)'
    <2>1. GoneAt(u) /\ (InSection(u) => mutex = u) /\ PlaceAt(u) BY HereToo
    <2>2. pc'[u] = pc[u] /\ H(u)' = H(u) /\ (Closing(u)' <=> Closing(u)) BY DEF Only, H, Closing
    <2>3. CASE ~(pc[u] \in {"dec", "close_fd", "close_req"} /\ Closing(u)) BY <2>2, <2>3 DEF GoneAt
    <2>4. CASE pc[u] \in {"dec", "close_fd", "close_req"} /\ Closing(u)
      <3>1. mutex # t /\ H(u) \in Handles BY <2>1, <2>4 DEF InSection, PlaceAt
      <3>2. cache'[H(u)].ref = 0 \/ cache'[H(u)].closed BY <1>1, <2>1, <2>4, <3>1 DEF GoneAt
      <3> QED BY <2>2, <3>2 DEF GoneAt
    <2> QED BY <2>3, <2>4
  <1> QED BY <1>2, <1>3, <1>4, <1>5 DEF NInv, StackOK, GoneOK, DroppedOK

LEMMA HitGood ==
  ASSUME Assumptions, Inv, NEW t \in Threads, interlocked_inc_if_nonzero(t), cache[H(t)].ref # 0
  PROVE  Good
  <1> DEFINE r == [loc[t] EXCEPT !.held = 1]
             e == [cache[H(t)] EXCEPT !.ref = @ + 1]
  <1>1. Goes(t, "check", r, call[t]) BY HereToo DEF interlocked_inc_if_nonzero, Goto, Keep, Goes
  <1>2. H(t) \in Handles /\ cache[H(t)] \in Entries /\ pc[t] = "lookup"
    BY HereToo, Here DEF interlocked_inc_if_nonzero, PlaceAt, Labels, OtherTypes, CacheTypes
  <1>3. /\ e.ref = cache[H(t)].ref + 1 /\ e.fd = cache[H(t)].fd /\ e.closed = cache[H(t)].closed
        /\ e.acc = cache[H(t)].acc /\ cache[H(t)].ref \in Nat
    BY <1>2 DEF Entries
  <1>4. cache' = [cache EXCEPT ![H(t)] = e] /\ UNCHANGED <<table, fds, wf, call, result>>
    BY DEF interlocked_inc_if_nonzero, server
  <1> HIDE DEF e, r
  <1>5. pc'[t] = "check" /\ Only(t) /\ H(t)' = H(t) /\ (Closing(t)' <=> Closing(t))
    BY <1>1, <1>4, HereToo, Gone DEF H, Closing
  <1>6. cache[H(t)].ref > 0 BY <1>3
  <1>7. NInv'
    <2>1. e.ref > 0 /\ ~e.closed => fds[e.fd] = table[H(t)].obj /\ e.acc = table[H(t)].acc
      BY <1>2, <1>3, <1>6 DEF Inv, NInv, CacheOK
    <2>2. cache[H(t)].ref = 0 \/ cache[H(t)].closed => e.ref = 0 \/ e.closed BY <1>3, <1>6
    <2>3. StackAt(t)' /\ GoneAt(t)' BY <1>5 DEF StackAt, GoneAt
    <2>4. DroppedAt(t)' BY <1>2, <1>4, <1>5, HereToo DEF DroppedAt
    <2> QED BY <2>1, <2>2, <2>3, <2>4, <1>2, <1>4, <1>5, CacheNInv
  <1>8. Settled(t)' = NotFound /\ ~Answered(t)' /\ ~Answered(t)
    BY <1>2, <1>5 DEF Settled, NotFound, Answered
  <1>9. ResultAt(t)' BY <1>2, <1>4, <1>5, <1>8, HereToo DEF ResultAt
  <1>10. Finds(t) BY <1>4, <1>8 DEF Finds
  <1>11. \A h \in Handles : cache'[h].fd = cache[h].fd /\ cache'[h].acc = cache[h].acc
    BY <1>2, <1>3, <1>4, HereToo, Here DEF OtherTypes, CacheTypes
  <1> QED BY <1>4, <1>5, <1>7, <1>9, <1>10, <1>11, FindsStep DEF Good

LEMMA SetClosedGood ==
  ASSUME Assumptions, Inv, NEW t \in Threads, close_inproc_sync(t)
  PROVE  Good
  <1> DEFINE r == [loc[t] EXCEPT !.held = ToRelease, !.cont = "close_req"]
             e == [cache[H(t)] EXCEPT !.closed = TRUE]
  <1>1. Goes(t, "dec", r, call[t]) BY HereToo DEF close_inproc_sync, Move, Goto, Keep, Goes
  <1>2. H(t) \in Handles /\ cache[H(t)] \in Entries /\ pc[t] = "set_closed" /\ Closing(t)
    BY HereToo, Here DEF close_inproc_sync, Move, PlaceAt, Theirs, Labels, OtherTypes, CacheTypes
  <1>3. e.ref = cache[H(t)].ref /\ e.fd = cache[H(t)].fd /\ e.closed = TRUE /\ e.acc = cache[H(t)].acc
    BY <1>2 DEF Entries
  <1>4. r.cont = "close_req" BY HereToo DEF Locals
  <1>5. cache' = [cache EXCEPT ![H(t)] = e] /\ UNCHANGED <<table, fds, wf, call, result>>
    BY DEF close_inproc_sync, Move, server
  <1> HIDE DEF e, r
  <1>6. pc'[t] = "dec" /\ loc'[t] = r /\ Only(t) /\ H(t)' = H(t) /\ (Closing(t)' <=> Closing(t))
    BY <1>1, <1>5, HereToo, Gone DEF H, Closing
  <1>7. \A h \in Handles : cache'[h] = IF h = H(t) THEN e ELSE cache[h]
    BY <1>5, HereToo, Here DEF OtherTypes, CacheTypes
  <1>8. NInv'
    <2>1. StackAt(t)' BY <1>6 DEF StackAt
    <2>2. GoneAt(t)' BY <1>2, <1>3, <1>6, <1>7 DEF GoneAt
    <2>3. DroppedAt(t)' BY <1>2, <1>5, <1>6, HereToo DEF DroppedAt
    <2> QED BY <2>1, <2>2, <2>3, <1>2, <1>3, <1>5, <1>6, CacheNInv
  <1>9. call[t].op # "use" BY <1>2 DEF Closing
  <1>10. Settled(t)' = NotFound BY <1>5, <1>9 DEF Settled, NotFound
  <1>11. ResultAt(t)' BY <1>4, <1>5, <1>6, <1>9 DEF ResultAt
  <1>12. Finds(t) BY <1>5, <1>10 DEF Finds
  <1>13. \A h \in Handles : cache'[h].fd = cache[h].fd /\ cache'[h].acc = cache[h].acc BY <1>3, <1>7
  <1> QED BY <1>5, <1>6, <1>8, <1>11, <1>12, <1>13, FindsStep DEF Good


LEMMA InsertGood ==
  ASSUME Assumptions, Inv, NEW t \in Threads, cache_inproc_sync(t), ~InUse(t)
  PROVE  Good
  <1> DEFINE e == [ref |-> cache[H(t)].ref, fd |-> loc[t].stack.fd, acc |-> loc[t].stack.acc, closed |-> FALSE]
  <1>1. Goes(t, "publish", loc[t], call[t]) BY HereToo DEF cache_inproc_sync, Goto, Goes
  <1>2. H(t) \in Handles /\ cache[H(t)].ref = 0 /\ pc[t] = "insert" /\ mutex = t /\ loc[t].held = 0
        /\ call[t].op = "use" /\ ~Closing(t)
    BY HereToo DEF cache_inproc_sync, InUse, PlaceAt, HeldAt, Ours, Closing, InSection
  <1>3. e.ref = 0 BY <1>2
  <1>4. cache' = [cache EXCEPT ![H(t)] = e] /\ UNCHANGED <<table, fds, wf, call, result>>
    BY DEF cache_inproc_sync, InUse, server
  <1>5. \A h \in Handles : cache'[h] = IF h = H(t) THEN e ELSE cache[h]
    BY <1>4, HereToo, Here DEF OtherTypes, CacheTypes
  <1> HIDE DEF e
  <1>6. pc'[t] = "publish" /\ loc'[t] = loc[t] /\ Only(t) /\ H(t)' = H(t) /\ (Closing(t)' <=> Closing(t))
    BY <1>1, <1>4, HereToo, Gone DEF H, Closing
  <1>7. NInv'
    <2>1. StackAt(t)' BY <1>2, <1>4, <1>6, HereToo DEF StackAt
    <2>2. GoneAt(t)' /\ DroppedAt(t)' BY <1>6 DEF GoneAt, DroppedAt
    <2>3. ~(e.ref > 0) BY <1>3
    <2> QED BY <2>1, <2>2, <2>3, <1>2, <1>4, <1>6, CacheNInv
  <1>8. ~Answered(t)' /\ ~Answered(t) BY <1>2, <1>6 DEF Answered
  <1>9. Settled(t)' = Settled(t)
    <2>1. Sync(t)' = Sync(t) BY <1>2, <1>6 DEF Sync
    <2> QED BY <2>1, <1>2, <1>4, <1>6 DEF Settled
  <1>10. ResultAt(t)' BY <1>2, <1>4, <1>6, <1>8, HereToo DEF ResultAt
  <1>11. Finds(t) BY <1>4, <1>9 DEF Finds
  <1>12. \A h \in Handles : cache[h].ref > 0 => cache'[h] = cache[h] BY <1>2, <1>5
  <1> QED BY <1>4, <1>6, <1>7, <1>10, <1>11, <1>12, FindsStep DEF Good

LEMMA PublishGood ==
  ASSUME Assumptions, Inv, NEW t \in Threads, publish(t)
  PROVE  Good
  <1> DEFINE r == [loc[t] EXCEPT !.stack = NoSync, !.held = 1]
             e == [cache[H(t)] EXCEPT !.ref = 2]
  <1>1. Goes(t, "leave", r, call[t]) BY HereToo DEF publish, Move, Goto, Keep, Goes
  <1>2. /\ H(t) \in Handles /\ cache[H(t)] \in Entries /\ cache[H(t)].ref = 0
        /\ cache[H(t)].fd = loc[t].stack.fd /\ cache[H(t)].acc = loc[t].stack.acc
        /\ pc[t] = "publish" /\ mutex = t /\ loc[t].held = 0 /\ loc[t].cont = "have"
        /\ call[t].op = "use" /\ ~Closing(t)
    BY HereToo, Here DEF publish, Move, PlaceAt, HeldAt, EntryAt, Ours, Closing, InSection, OtherTypes, CacheTypes
  <1>3. e.ref = 2 /\ e.fd = loc[t].stack.fd /\ e.acc = loc[t].stack.acc BY <1>2 DEF Entries
  <1>4. r.held = 1 /\ r.cont = "have" BY <1>2, HereToo, LocalsPublished
  <1>5. cache' = [cache EXCEPT ![H(t)] = e] /\ UNCHANGED <<table, fds, wf, call, result>>
    BY DEF publish, Move, server
  <1> HIDE DEF e, r
  <1>6. \A h \in Handles : cache'[h] = IF h = H(t) THEN e ELSE cache[h]
    BY <1>5, HereToo, Here DEF OtherTypes, CacheTypes
  <1>7. pc'[t] = "leave" /\ loc'[t] = r /\ Only(t) /\ H(t)' = H(t) /\ (Closing(t)' <=> Closing(t))
    BY <1>1, <1>5, HereToo, Gone DEF H, Closing
  <1>8. NInv'
    <2>1. e.ref > 0 /\ ~e.closed => fds[e.fd] = table[H(t)].obj /\ e.acc = table[H(t)].acc
      BY <1>2, <1>3, HereToo DEF StackAt
    <2>2. StackAt(t)' /\ GoneAt(t)' /\ DroppedAt(t)' BY <1>7 DEF StackAt, GoneAt, DroppedAt
    <2> QED BY <2>1, <2>2, <1>2, <1>5, <1>7, CacheNInv
  <1>9. ~Answered(t)' /\ ~Answered(t) BY <1>2, <1>4, <1>7 DEF Answered
  <1>10. Settled(t)' = Settled(t)
    <2>1. Sync(t).fd = loc[t].stack.fd /\ Sync(t).acc = loc[t].stack.acc BY <1>2 DEF Sync
    <2>2. Sync(t)'.fd = loc[t].stack.fd /\ Sync(t)'.acc = loc[t].stack.acc
      BY <1>2, <1>3, <1>4, <1>6, <1>7 DEF Sync
    <2> QED BY <2>1, <2>2, <1>2, <1>4, <1>5, <1>7 DEF Settled
  <1>11. ResultAt(t)' BY <1>2, <1>4, <1>5, <1>7, <1>9, HereToo DEF ResultAt
  <1>12. Finds(t) BY <1>5, <1>10 DEF Finds
  <1>13. \A h \in Handles : cache[h].ref > 0 => cache'[h] = cache[h] BY <1>2, <1>6
  <1> QED BY <1>5, <1>7, <1>8, <1>11, <1>12, <1>13, FindsStep DEF Good

LEMMA GiveBackGood ==
  ASSUME Assumptions, Inv, NEW t \in Threads, release_inproc_sync(t), loc[t].held # 0
  PROVE  Good
  <1> DEFINE last == cache[H(t)].ref = 1
             d == IF last THEN cache[H(t)].fd ELSE 0
             r == [loc[t] EXCEPT !.saved = d, !.held = @ - 1]
             l == IF last THEN "close_fd" ELSE IF loc[t].held = 2 THEN "dec" ELSE loc[t].cont
             e == [cache[H(t)] EXCEPT !.ref = @ - 1]
  <1>1. Goes(t, l, r, call[t]) BY HereToo DEF release_inproc_sync, Goto, Keep, Goes
  <1>2. /\ H(t) \in Handles /\ cache[H(t)] \in Entries /\ loc[t].held > 0 /\ pc[t] = "dec"
        /\ loc[t].cont \in {"request", "enter", "return", "kind", "server", "close_req"}
        /\ (Closing(t) <=> loc[t].cont = "close_req")
    BY HereToo, Here DEF release_inproc_sync, PlaceAt, OtherTypes, CacheTypes, Locals
  <1>3. cache[H(t)].ref > 0 /\ cache[H(t)].ref \in Nat BY <1>2, RefsFd DEF Entries, Inv
  <1>4. e.ref = cache[H(t)].ref - 1 /\ e.fd = cache[H(t)].fd /\ e.closed = cache[H(t)].closed
        /\ e.acc = cache[H(t)].acc
    BY <1>2 DEF Entries
  <1>5. r.cont = loc[t].cont BY HereToo DEF Locals
  <1>6. cache' = [cache EXCEPT ![H(t)] = e] /\ UNCHANGED <<table, fds, wf, call, result>>
    BY <1>2 DEF release_inproc_sync, server
  <1> HIDE DEF e, r, d
  <1>7. \A h \in Handles : cache'[h] = IF h = H(t) THEN e ELSE cache[h]
    BY <1>6, HereToo, Here DEF OtherTypes, CacheTypes
  <1>8. pc'[t] = l /\ loc'[t] = r /\ Only(t) /\ H(t)' = H(t) /\ (Closing(t)' <=> Closing(t))
    BY <1>1, <1>6, HereToo, Gone DEF H, Closing
  <1>9. l \in {"close_fd", "dec", "request", "enter", "return", "kind", "server", "close_req"}
        /\ (l \in {"close_fd", "dec"} \/ l = loc[t].cont)
    BY <1>2
  <1> HIDE DEF l, last
  <1>10. NInv'
    <2>1. e.ref > 0 /\ ~e.closed => fds[e.fd] = table[H(t)].obj /\ e.acc = table[H(t)].acc
      BY <1>2, <1>3, <1>4 DEF Inv, NInv, CacheOK
    <2>2. cache[H(t)].ref = 0 \/ cache[H(t)].closed => e.ref = 0 \/ e.closed BY <1>3, <1>4
    <2>3. StackAt(t)' BY <1>8, <1>9 DEF StackAt
    <2>4. GoneAt(t)'
      <3>1. Closing(t) => cache[H(t)].ref = 0 \/ cache[H(t)].closed BY <1>2, HereToo DEF GoneAt
      <3> QED BY <3>1, <2>2, <1>2, <1>7, <1>8 DEF GoneAt
    <2>5. DroppedAt(t)' BY <1>2, <1>6, <1>8, HereToo DEF DroppedAt
    <2> QED BY <2>1, <2>2, <2>3, <2>4, <2>5, <1>2, <1>6, <1>8, CacheNInv
  <1>11. (Answered(t)' <=> Answered(t)) /\ Settled(t)' = NotFound /\ Settled(t) = NotFound
    <2>1. Answered(t)' <=> loc[t].cont = "return" BY <1>2, <1>5, <1>8, <1>9 DEF Answered
    <2>2. Answered(t) <=> loc[t].cont = "return" BY <1>2 DEF Answered
    <2> QED BY <2>1, <2>2, <1>2, <1>5, <1>8, <1>9 DEF Settled, NotFound
  <1>12. ResultAt(t)'
    <2>1. ResultAt(t) BY HereToo
    <2> QED BY <2>1, <1>2, <1>5, <1>6, <1>8, <1>9, <1>11 DEF ResultAt
  <1>13. Finds(t) BY <1>6, <1>11 DEF Finds
  <1>14. \A h \in Handles : cache'[h].fd = cache[h].fd /\ cache'[h].acc = cache[h].acc BY <1>4, <1>7
  <1> QED BY <1>6, <1>8, <1>10, <1>12, <1>13, <1>14, FindsStep DEF Good


LEMMA FdNInv ==
  ASSUME Assumptions, Inv, NEW t \in Threads, Only(t), UNCHANGED <<table, cache, wf>>,
         \A d \in Fds : fds[d] # 0 => fds'[d] = fds[d] \/ CloserOwns(t, d),
         StackAt(t)', GoneAt(t)', DroppedAt(t)'
  PROVE  NInv'
  <1>1. TableOK' /\ WfOK' BY DEF Inv, NInv, TableOK, WfOK
  <1>2. CacheOK'
    <2>1. ASSUME NEW h \in Handles, cache[h].ref > 0 PROVE fds'[cache[h].fd] = fds[cache[h].fd]
      <3>1. cache[h].fd \in Fds \cup {0} BY HereToo, Here DEF OtherTypes, CacheTypes, Entries
      <3>2. cache[h].fd \in Fds BY <2>1, <3>1 DEF Inv, HInv, EntryOK
      <3>3. FdAt(cache[h].fd) /\ EntryOwns(h, cache[h].fd) BY <2>1, <3>2 DEF Inv, HInv, FdOK, EntryOwns
      <3>4. fds[cache[h].fd] # 0 /\ ~CloserOwns(t, cache[h].fd) BY <3>3 DEF FdAt
      <3> QED BY <3>2, <3>4
    <2> QED BY <2>1 DEF Inv, NInv, CacheOK
  <1>3. ASSUME NEW u \in Threads \ {t} PROVE StackAt(u)'
    <2>1. StackAt(u) /\ HeldAt(u) /\ loc[u] \in Locals BY HereToo
    <2>2. pc'[u] = pc[u] /\ loc'[u] = loc[u] /\ H(u)' = H(u) BY DEF Only, H
    <2>3. ASSUME pc[u] \in {"receive", "insert", "publish"} PROVE fds'[loc[u].stack.fd] = fds[loc[u].stack.fd]
      <3>1. loc[u].stack.fd \in Fds BY <2>1, <2>3 DEF HeldAt, Locals
      <3>2. FdAt(loc[u].stack.fd) /\ StackOwns(u, loc[u].stack.fd) BY <3>1 DEF Inv, HInv, FdOK, StackOwns
      <3>3. fds[loc[u].stack.fd] # 0 /\ ~CloserOwns(t, loc[u].stack.fd) BY <3>2 DEF FdAt
      <3> QED BY <3>1, <3>3
    <2> QED BY <2>1, <2>2, <2>3 DEF StackAt
  <1>4. ASSUME NEW u \in Threads \ {t} PROVE GoneAt(u)' /\ DroppedAt(u)'
    <2>1. GoneAt(u) /\ DroppedAt(u) BY HereToo
    <2> QED BY <2>1 DEF Only, GoneAt, DroppedAt, Closing, H
  <1> QED BY <1>1, <1>2, <1>3, <1>4 DEF NInv, StackOK, GoneOK, DroppedOK

LEMMA CloseFdGood ==
  ASSUME Assumptions, Inv, NEW t \in Threads, close_fd(t)
  PROVE  Good
  <1> DEFINE r == [loc[t] EXCEPT !.saved = 0]
             l == IF loc[t].held > 0 THEN "dec" ELSE loc[t].cont
  <1>1. Goes(t, l, r, call[t]) BY HereToo DEF close_fd, Goto, Keep, Goes
  <1>2. /\ pc[t] = "close_fd"
        /\ loc[t].cont \in {"request", "enter", "return", "kind", "server", "close_req"}
        /\ (Closing(t) <=> loc[t].cont = "close_req")
    BY HereToo DEF close_fd, PlaceAt
  <1>3. r.cont = loc[t].cont BY HereToo DEF Locals
  <1> HIDE DEF r
  <1>4. fds' = [fds EXCEPT ![loc[t].saved] = 0] /\ UNCHANGED <<table, cache, wf, call, result>>
    BY DEF close_fd, ToClose, server
  <1>5. \A d \in Fds : fds'[d] = fds[d] \/ CloserOwns(t, d)
    BY <1>4, HereToo, Here DEF OtherTypes, CacheTypes, CloserOwns
  <1>6. pc'[t] = l /\ loc'[t] = r /\ Only(t) /\ H(t)' = H(t) /\ (Closing(t)' <=> Closing(t))
    BY <1>1, <1>4, HereToo, Gone DEF H, Closing
  <1>7. l \in {"dec", "request", "enter", "return", "kind", "server", "close_req"}
        /\ (l = "dec" \/ l = loc[t].cont)
    BY <1>2
  <1> HIDE DEF l
  <1>8. NInv'
    <2>1. StackAt(t)' BY <1>6, <1>7 DEF StackAt
    <2>2. GoneAt(t)' BY <1>2, <1>4, <1>6, HereToo DEF GoneAt
    <2>3. DroppedAt(t)' BY <1>2, <1>4, <1>6, HereToo DEF DroppedAt
    <2> QED BY <2>1, <2>2, <2>3, <1>4, <1>5, <1>6, FdNInv
  <1>9. (Answered(t)' <=> Answered(t)) /\ Settled(t)' = NotFound
    <2>1. Answered(t)' <=> loc[t].cont = "return" BY <1>2, <1>3, <1>6, <1>7 DEF Answered
    <2>2. Answered(t) <=> loc[t].cont = "return" BY <1>2 DEF Answered
    <2> QED BY <2>1, <2>2, <1>6, <1>7 DEF Settled, NotFound
  <1>10. ResultAt(t)'
    <2>1. ResultAt(t) BY HereToo
    <2> QED BY <2>1, <1>2, <1>3, <1>4, <1>6, <1>7, <1>9 DEF ResultAt
  <1>11. Finds(t) BY <1>4, <1>9 DEF Finds
  <1> QED BY <1>4, <1>5, <1>6, <1>8, <1>10, <1>11, FindsStep DEF Good

LEMMA ReceivedGood ==
  ASSUME Assumptions, Inv, NEW t \in Threads, get_server_inproc_sync(t), table[H(t)].obj # 0
  PROVE  Good
  <1>0. PICK d \in Fds :
          /\ fds[d] = 0
          /\ fds' = [fds EXCEPT ![d] = table[H(t)].obj]
          /\ Keep(t, [loc[t] EXCEPT !.stack = [fd |-> d, acc |-> table[H(t)].acc], !.cont = "have"])
          /\ Goto(t, "receive") /\ UNCHANGED result
    BY DEF get_server_inproc_sync
  <1> DEFINE s == [fd |-> d, acc |-> table[H(t)].acc]
             r == [loc[t] EXCEPT !.stack = s, !.cont = "have"]
  <1>1. Goes(t, "receive", r, call[t]) BY <1>0, HereToo DEF get_server_inproc_sync, Goto, Keep, Goes
  <1>2. pc[t] = "request" /\ ~Closing(t) /\ call[t].op = "use" /\ loc[t].held = 0
        /\ UNCHANGED <<table, cache, wf, call, result>>
    BY <1>0, HereToo DEF get_server_inproc_sync, PlaceAt, HeldAt, Has, Labels, Ours, Closing
  <1>3. r.held = 0 /\ r.stack = s BY <1>2, HereToo DEF Locals
  <1>4. pc'[t] = "receive" /\ loc'[t] = r /\ Only(t) /\ H(t)' = H(t) /\ (Closing(t)' <=> Closing(t))
    BY <1>1, <1>2, HereToo, Gone DEF H, Closing
  <1>5. fds'[d] = table[H(t)].obj /\ \A f \in Fds : fds[f] # 0 => fds'[f] = fds[f]
    BY <1>0, HereToo, Here DEF OtherTypes, CacheTypes
  <1> HIDE DEF r
  <1>6. NInv'
    <2>1. StackAt(t)' BY <1>2, <1>3, <1>4, <1>5 DEF StackAt
    <2>2. GoneAt(t)' /\ DroppedAt(t)' BY <1>4 DEF GoneAt, DroppedAt
    <2> QED BY <2>1, <2>2, <1>2, <1>4, <1>5, FdNInv
  <1>7. ~Answered(t) /\ ~Answered(t)' BY <1>2, <1>4 DEF Answered
  <1>8. Settled(t)' = Row(H(t))
    <2>1. Sync(t)' = s BY <1>3, <1>4 DEF Sync
    <2> QED BY <2>1, <1>2, <1>4, <1>5 DEF Settled, Row
  <1>9. result[t] = Pending BY <1>2, <1>7, HereToo DEF ResultAt
  <1>10. ResultAt(t)' BY <1>2, <1>4, <1>7, HereToo DEF ResultAt
  <1>11. Finds(t) BY <1>2, <1>8, <1>9 DEF Finds
  <1> QED BY <1>2, <1>4, <1>5, <1>6, <1>10, <1>11, FindsStep, SMTT(20) DEF Good


(* The steps that change an entry of wfusync_cache.                        *)
LEMMA WfNInv ==
  ASSUME Assumptions, Inv, NEW t \in Threads, Only(t), UNCHANGED <<table, cache, fds>>, WfOK',
         \A h \in Handles : wf'[h].valid => wf[h].valid \/ (h = H(t) /\ mutex = t),
         StackAt(t)', GoneAt(t)', DroppedAt(t)'
  PROVE  NInv'
  <1>1. TableOK' /\ CacheOK' BY DEF Inv, NInv, TableOK, CacheOK
  <1>2. ASSUME NEW u \in Threads \ {t} PROVE StackAt(u)' /\ GoneAt(u)'
    <2>1. StackAt(u) /\ GoneAt(u) BY HereToo
    <2> QED BY <2>1 DEF Only, StackAt, GoneAt, Closing, H
  <1>3. ASSUME NEW u \in Threads \ {t} PROVE DroppedAt(u)'
    <2>1. DroppedAt(u) /\ (InSection(u) => mutex = u) /\ PlaceAt(u) BY HereToo
    <2>2. pc'[u] = pc[u] /\ H(u)' = H(u) /\ (Closing(u)' <=> Closing(u)) BY DEF Only, H, Closing
    <2> QED BY <2>1, <2>2 DEF DroppedAt, InSection, PlaceAt
  <1> QED BY <1>1, <1>2, <1>3 DEF NInv, StackOK, GoneOK, DroppedOK

LEMMA Written ==
  ASSUME Assumptions, OneTag, Wfu, Inv, NEW t \in Threads PROVE Value(t) = 4 * H(t)
  <1>1. call[t].tag = 0 BY HereToo DEF OneTag, Asked
  <1>2. H(t) \in Nat BY HereToo DEF H, Asked, Assumptions, HandlesAssumption
  <1> QED BY <1>1, <1>2 DEF Value

LEMMA ReceiveGood ==
  ASSUME Assumptions, OneTag, Inv, NEW t \in Threads, wfusync_cache_inproc_sync(t)
  PROVE  Good
  <1> DEFINE e == [handle |-> Value(t), local |-> wf[H(t)].handle = Value(t) /\ wf[H(t)].local,
                   valid |-> TRUE, obj |-> fds[loc[t].stack.fd], acc |-> loc[t].stack.acc]
  <1>1. Goes(t, "insert", loc[t], call[t]) BY HereToo DEF wfusync_cache_inproc_sync, Move, Goto, Goes
  <1>2. /\ pc[t] = "receive" /\ ~Closing(t) /\ call[t].op = "use" /\ H(t) \in Handles /\ mutex = t
        /\ loc[t].held = 0 /\ UNCHANGED <<table, cache, fds, call, loc, result>>
    BY HereToo DEF wfusync_cache_inproc_sync, Move, PlaceAt, HeldAt, Ours, Closing, InSection, server
  <1>3. fds[loc[t].stack.fd] = table[H(t)].obj /\ loc[t].stack.acc = table[H(t)].acc
    BY <1>2, HereToo DEF StackAt
  <1>4. table[H(t)].obj # 0
    <2>1. fds[Sync(t).fd] # 0 BY <1>2, SyncFd DEF BySync, Inv
    <2> QED BY <2>1, <1>2, <1>3 DEF Sync
  <1>5. wf' = IF Wfu THEN [wf EXCEPT ![H(t)] = e] ELSE wf BY DEF wfusync_cache_inproc_sync
  <1>6. e.valid /\ e.obj = table[H(t)].obj /\ e.acc = table[H(t)].acc /\ e.handle = Value(t) BY <1>3
  <1> HIDE DEF e
  <1>7. \A h \in Handles : wf'[h] = IF Wfu /\ h = H(t) THEN e ELSE wf[h]
    BY <1>5, HereToo, Here DEF OtherTypes, CacheTypes
  <1>8. pc'[t] = "insert" /\ loc'[t] = loc[t] /\ Only(t) /\ H(t)' = H(t) /\ (Closing(t)' <=> Closing(t))
    BY <1>1, <1>2, HereToo, Gone DEF H, Closing
  <1>9. NInv'
    <2>1. WfOK'
      <3>1. ASSUME NEW h \in Handles, wf'[h].valid
            PROVE  Wfu /\ wf'[h].handle = 4 * h /\ wf'[h].obj = table[h].obj /\ wf'[h].acc = table[h].acc
                   /\ table[h].obj # 0
        <4>1. CASE Wfu /\ h = H(t) BY <4>1, <1>4, <1>6, <1>7, Written
        <4>2. CASE ~(Wfu /\ h = H(t)) BY <4>2, <3>1, <1>7 DEF Inv, NInv, WfOK
        <4> QED BY <4>1, <4>2
      <3> QED BY <3>1, <1>2 DEF WfOK
    <2>2. \A h \in Handles : wf'[h].valid => wf[h].valid \/ (h = H(t) /\ mutex = t) BY <1>2, <1>7
    <2>3. StackAt(t)' BY <1>2, <1>3, <1>8 DEF StackAt
    <2>4. GoneAt(t)' /\ DroppedAt(t)' BY <1>8 DEF GoneAt, DroppedAt
    <2> QED BY <2>1, <2>2, <2>3, <2>4, <1>2, <1>8, WfNInv
  <1>10. ~Answered(t) /\ ~Answered(t)' BY <1>2, <1>8 DEF Answered
  <1>11. Settled(t)' = Settled(t)
    <2>1. Sync(t)' = Sync(t) BY <1>2, <1>8 DEF Sync
    <2> QED BY <2>1, <1>2, <1>8 DEF Settled
  <1>12. ResultAt(t)' BY <1>2, <1>8, <1>10, HereToo DEF ResultAt
  <1>13. Finds(t) BY <1>2, <1>11 DEF Finds
  <1> QED BY <1>2, <1>8, <1>9, <1>12, <1>13, FindsStep DEF Good

LEMMA DropGood ==
  ASSUME Assumptions, OneTag, Inv, NEW t \in Threads, wfusync_drop_handle(t)
  PROVE  Good
  <1>1. Goes(t, "lookup", loc[t], call[t]) BY HereToo DEF wfusync_drop_handle, Move, Goto, Goes
  <1>2. /\ pc[t] = "drop" /\ Closing(t) /\ H(t) \in Handles /\ UNCHANGED <<table, cache, fds, call, loc, result>>
        /\ wf' = IF Dropped(t) THEN [wf EXCEPT ![H(t)] = NoWf] ELSE wf
    BY HereToo DEF wfusync_drop_handle, Move, PlaceAt, Theirs, server
  <1>3. \A h \in Handles : wf'[h] = IF Dropped(t) /\ h = H(t) THEN NoWf ELSE wf[h]
    BY <1>2, HereToo, Here DEF OtherTypes, CacheTypes
  <1>4. pc'[t] = "lookup" /\ Only(t) /\ H(t)' = H(t) /\ (Closing(t)' <=> Closing(t))
    BY <1>1, <1>2, HereToo, Gone DEF H, Closing
  <1>5. \A h \in Handles : wf'[h].valid => wf[h].valid /\ wf'[h] = wf[h] BY <1>3 DEF NoWf
  <1>6. NInv'
    <2>1. WfOK' BY <1>2, <1>5 DEF Inv, NInv, WfOK
    <2>2. StackAt(t)' /\ GoneAt(t)' BY <1>4 DEF StackAt, GoneAt
    <2>3. DroppedAt(t)'
      <3>1. Wfu => ~wf'[H(t)].valid
        <4>1. CASE Dropped(t) BY <4>1, <1>2, <1>3 DEF NoWf
        <4>2. ASSUME ~Dropped(t), Wfu, wf[H(t)].valid PROVE FALSE
          <5>1. wf[H(t)].handle = 4 * H(t) BY <4>2, <1>2 DEF Inv, NInv, WfOK
          <5>2. wf[H(t)].handle = Value(t) BY <4>2, <5>1, Written
          <5> QED BY <4>2, <5>2 DEF Dropped
        <4> QED BY <4>1, <4>2, <1>2, <1>3
      <3> QED BY <3>1, <1>4 DEF DroppedAt
    <2> QED BY <2>1, <2>2, <2>3, <1>2, <1>4, <1>5, WfNInv
  <1>7. call[t].op # "use" BY <1>2 DEF Closing
  <1>8. Settled(t)' = NotFound BY <1>2, <1>7 DEF Settled, NotFound
  <1>9. ResultAt(t)' BY <1>2, <1>4, <1>7 DEF ResultAt
  <1>10. Finds(t) BY <1>2, <1>8 DEF Finds
  <1> QED BY <1>2, <1>4, <1>6, <1>9, <1>10, FindsStep DEF Good


(* A call begins and ends.                                                 *)
LEMMA BeginGood ==
  ASSUME Assumptions, Inv, NEW t \in Threads, NEW op \in Ops, NEW h \in Handles \cup {0}, NEW g \in Tags,
         Begin(t, op, h, g)
  PROVE  Good
  <1> DEFINE c == [op |-> op, h |-> h, tag |-> g]
             F == [u \in Threads |-> Settled(u)]
             A == [u \in Threads |-> Asking(u)]
             T == [i \in Handles |-> Row(i)]
  <1>1. Goes(t, FirstStep(op), NoLocals, c) BY DEF Begin, Goto, Keep, Goes
  <1>2. /\ pc[t] = "idle" /\ UNCHANGED <<table, cache, fds, wf>>
        /\ result' = [result EXCEPT ![t] = Pending] /\ (op \in {"use", "close", "dup"} => h \in Handles)
    BY HereToo, Here DEF Begin, server, caches, OtherTypes, CacheTypes
  <1>3. call[t].op \notin {"use", "close", "dup"} BY <1>2, HereToo DEF PlaceAt
  <1>4. pc'[t] = FirstStep(op) /\ loc'[t] = NoLocals /\ call'[t] = c /\ Only(t) /\ H(t)' = h
        /\ (Closing(t)' <=> op \in {"close", "dup"})
    BY <1>1, HereToo, Gone
  <1>5. /\ op = "use" => FirstStep(op) \in {"kind", "lookup"} /\ (~Wfu => FirstStep(op) = "lookup")
        /\ op \in {"close", "dup"} => FirstStep(op) = "enter"
        /\ op \notin {"use", "close", "dup"} => FirstStep(op) \in {"create", "open"}
    BY DEF FirstStep, Ops
  <1>6. NInv'
    <2>1. StackAt(t)' /\ GoneAt(t)' /\ DroppedAt(t)' BY <1>4, <1>5 DEF StackAt, GoneAt, DroppedAt, Ops
    <2> QED BY <2>1, <1>2, <1>4, SteadyNInv
  <1>7. Settled(t) = NotFound BY <1>3 DEF Settled, NotFound
  <1>8. Settled(t)' = NotFound /\ ~Answered(t)' BY <1>4, <1>5 DEF Settled, NotFound, Answered, Ops
  <1>9. \A u \in Threads \ {t} : Settled(u)' = Settled(u) BY <1>2, <1>4, SettledStays DEF Inv
  <1>10. result'[t] = Pending /\ \A u \in Threads \ {t} : result'[u] = result[u]
    BY <1>2, HereToo, Here DEF OtherTypes, ResultTypes
  <1>11. ResultOK'
    <2>1. ResultAt(t)' BY <1>2, <1>4, <1>5, <1>8, <1>10 DEF ResultAt, Ops
    <2> QED BY <2>1, <1>4, <1>9, <1>10, ResultStep DEF Inv
  <1>12. NStep
    <2>1. F' = [F EXCEPT ![t] = Settled(t)'] /\ A' = [A EXCEPT ![t] = Asking(t)']
      BY <1>4, <1>9, HereToo, Mapped
    <2>2. F' = F BY <2>1, <1>7, <1>8
    <2>3. T' = T BY <1>2 DEF Row
    <2>4. A[t] = 0 /\ Asking(t)' = IF op = "use" THEN h ELSE 0 BY <1>3, <1>4 DEF Asking
    <2>5. CASE op = "use"
      <3>1. A' = [A EXCEPT ![t] = h] /\ h \in Handles BY <2>1, <2>4, <2>5, <1>2
      <3>2. Nt!Begin(t)
        BY <3>1, <2>2, <2>3, <2>4, <1>2 DEF Nt!Begin, Nt!Pending, Pending, F, A, T, Asking, Row
      <3> QED BY <3>2 DEF NStep, Nt!Next
    <2>6. CASE op # "use"
      <3>1. A' = A BY <2>1, <2>4, <2>6
      <3>2. Nt!Other(t)
        BY <3>1, <2>2, <2>3, <2>4, <1>2 DEF Nt!Other, Nt!Pending, Pending, F, A, T, Asking, Row
      <3> QED BY <3>2 DEF NStep, Nt!Next
    <2> QED BY <2>5, <2>6
  <1> QED BY <1>6, <1>11, <1>12 DEF Good

LEMMA Returned ==
  ASSUME Assumptions, Inv, NEW t \in Threads, NEW new, Return(t, new), UNCHANGED <<table, cache, fds, result>>,
         Settled(t) = NotFound, call[t].op = "use" => result[t] # Pending
  PROVE  /\ pc'[t] = "idle" /\ Only(t) /\ StackAt(t)' /\ GoneAt(t)' /\ DroppedAt(t)'
         /\ ResultOK' /\ NStep
  <1> DEFINE F == [u \in Threads |-> Settled(u)]
             A == [u \in Threads |-> Asking(u)]
             T == [i \in Handles |-> Row(i)]
  <1>1. Goes(t, "idle", NoLocals, NoCall) BY DEF Return, Goto, Keep, Goes
  <1>2. pc'[t] = "idle" /\ loc'[t] = NoLocals /\ call'[t] = NoCall /\ Only(t) BY <1>1, HereToo, Gone
  <1>3. NoCall.op \notin {"use", "close", "dup"} BY DEF NoCall
  <1>4. StackAt(t)' /\ GoneAt(t)' /\ DroppedAt(t)' BY <1>2 DEF StackAt, GoneAt, DroppedAt
  <1>5. Settled(t)' = NotFound BY <1>2, <1>3 DEF Settled, NotFound
  <1>6. \A u \in Threads \ {t} : Settled(u)' = Settled(u) BY <1>2, SettledStays DEF Inv
  <1>7. ResultOK'
    <2>1. ResultAt(t)' BY <1>2, <1>3 DEF ResultAt
    <2> QED BY <2>1, <1>2, <1>6, ResultStep DEF Inv
  <1>8. NStep
    <2>1. F' = [F EXCEPT ![t] = Settled(t)'] /\ A' = [A EXCEPT ![t] = Asking(t)']
      BY <1>2, <1>6, HereToo, Mapped
    <2>2. F' = F BY <2>1, <1>5
    <2>3. T' = T BY DEF Row
    <2>4. Asking(t)' = 0 BY <1>2, <1>3 DEF Asking
    <2>5. CASE call[t].op = "use"
      <3>1. 0 \notin Handles /\ H(t) \in Handles /\ A[t] = H(t)
        BY <2>5, HereToo DEF Assumptions, HandlesAssumption, ResultAt, Asking
      <3>2. Nt!End(t)
        BY <3>1, <2>1, <2>2, <2>3, <2>4, <2>5 DEF Nt!End, Nt!Pending, Pending, F, A, T, Asking, Row
      <3> QED BY <3>2 DEF NStep, Nt!Next
    <2>6. CASE call[t].op # "use"
      <3>1. A' = A BY <2>1, <2>4, <2>6 DEF Asking
      <3>2. UNCHANGED Nt!vars BY <3>1, <2>2, <2>3 DEF Nt!vars, F, A, T, Asking, Row
      <3> QED BY <3>2 DEF NStep
    <2> QED BY <2>5, <2>6
  <1> QED BY <1>2, <1>4, <1>7, <1>8

LEMMA EndsGood ==
  ASSUME Assumptions, Inv, NEW t \in Threads, Ends(t)
  PROVE  Good
  <1>1. pc[t] = "return" /\ Return(t, {}) /\ UNCHANGED <<table, cache, fds, wf, result>>
    BY DEF Ends, server, caches
  <1>2. Settled(t) = NotFound /\ Answered(t) BY <1>1 DEF Settled, NotFound, Answered
  <1>3. call[t].op = "use" => result[t] # Pending BY <1>2, HereToo DEF ResultAt
  <1> QED BY <1>1, <1>2, <1>3, Returned, SteadyNInv DEF Good

LEMMA OpenFailsGood ==
  ASSUME Assumptions, Inv, NEW t \in Threads, OpenFails(t)
  PROVE  Good
  <1>1. pc[t] \in {"create", "open"} /\ Return(t, {}) /\ UNCHANGED <<table, cache, fds, wf, result>>
    BY DEF OpenFails, server, caches
  <1>2. call[t].op # "use" BY <1>1, HereToo DEF PlaceAt
  <1>3. Settled(t) = NotFound BY <1>2 DEF Settled, NotFound
  <1> QED BY <1>1, <1>2, <1>3, Returned, SteadyNInv DEF Good

LEMMA MarkGood ==
  ASSUME Assumptions, OneTag, Inv, NEW t \in Threads, wfusync_mark_local_event(t)
  PROVE  Good
  <1>1. pc[t] = "mark" /\ Return(t, {H(t)}) /\ UNCHANGED <<table, cache, fds, result>>
    BY DEF wfusync_mark_local_event, server
  <1>2. call[t].op # "use" /\ H(t) \in Handles BY <1>1, HereToo DEF PlaceAt
  <1>3. Settled(t) = NotFound BY <1>2 DEF Settled, NotFound
  <1>4. pc'[t] = "idle" /\ Only(t) /\ StackAt(t)' /\ GoneAt(t)' /\ DroppedAt(t)' /\ ResultOK' /\ NStep
    BY <1>1, <1>2, <1>3, Returned
  <1>5. \A h \in Handles : wf'[h].valid => wf[h].valid /\ wf'[h].handle = wf[h].handle
                             /\ wf'[h].obj = wf[h].obj /\ wf'[h].acc = wf[h].acc
    <2>1. wf[H(t)] \in WfEntries /\ wf \in [Handles -> WfEntries]
      BY <1>2, HereToo, Here DEF OtherTypes, CacheTypes
    <2> DEFINE w == [wf[H(t)] EXCEPT !.handle = Value(t), !.local = TRUE]
               n == [NoWf EXCEPT !.handle = Value(t), !.local = TRUE]
               e == [IF wf[H(t)].handle = Value(t) THEN wf[H(t)] ELSE NoWf EXCEPT !.handle = Value(t), !.local = TRUE]
    <2>2. w.valid = wf[H(t)].valid /\ w.obj = wf[H(t)].obj /\ w.acc = wf[H(t)].acc /\ w.handle = Value(t)
      BY <2>1 DEF WfEntries
    <2>3. ~n.valid BY DEF NoWf
    <2>4. e = IF wf[H(t)].handle = Value(t) THEN w ELSE n OBVIOUS
    <2>5. wf' = IF Wfu THEN [wf EXCEPT ![H(t)] = e] ELSE wf BY DEF wfusync_mark_local_event
    <2> HIDE DEF w, n, e
    <2>6. \A h \in Handles : wf'[h] = IF Wfu /\ h = H(t) THEN e ELSE wf[h] BY <2>1, <2>5
    <2> QED BY <2>2, <2>3, <2>4, <2>6
  <1>6. WfOK' BY <1>1, <1>5 DEF Inv, NInv, WfOK
  <1>7. NInv' BY <1>1, <1>4, <1>5, <1>6, WfNInv
  <1> QED BY <1>4, <1>7 DEF Good


(* The steps that change wineserver's table: only rows that nothing speaks *)
(* of.                                                                     *)
Loose(t, h) == /\ ~(cache[h].ref > 0 /\ ~cache[h].closed) /\ ~wf[h].valid
               /\ \A u \in Threads \ {t} : H(u) = h => pc[u] \notin {"receive", "insert", "publish"}

LEMMA FreeLoose ==
  ASSUME Assumptions, Inv, NEW t \in Threads, NEW h \in Handles, table[h].obj = 0
  PROVE  Loose(t, h)
  <1>1. ASSUME cache[h].ref > 0, ~cache[h].closed PROVE FALSE
    <2>1. cache[h].fd \in Fds \cup {0} BY HereToo, Here DEF OtherTypes, CacheTypes, Entries
    <2>2. cache[h].fd \in Fds BY <1>1, <2>1 DEF Inv, HInv, EntryOK
    <2>3. FdAt(cache[h].fd) /\ EntryOwns(h, cache[h].fd) BY <1>1, <2>2 DEF Inv, HInv, FdOK, EntryOwns
    <2>4. fds[cache[h].fd] # 0 BY <2>3 DEF FdAt
    <2> QED BY <1>1, <2>4 DEF Inv, NInv, CacheOK
  <1>2. ~wf[h].valid BY DEF Inv, NInv, WfOK
  <1>3. ASSUME NEW u \in Threads \ {t}, H(u) = h, pc[u] \in {"receive", "insert", "publish"} PROVE FALSE
    <2>1. StackAt(u) /\ HeldAt(u) /\ loc[u] \in Locals BY HereToo
    <2>2. loc[u].stack.fd \in Fds BY <1>3, <2>1 DEF HeldAt, Locals
    <2>3. FdAt(loc[u].stack.fd) /\ StackOwns(u, loc[u].stack.fd) BY <2>2 DEF Inv, HInv, FdOK, StackOwns
    <2>4. fds[loc[u].stack.fd] # 0 BY <2>3 DEF FdAt
    <2> QED BY <1>3, <2>1, <2>4 DEF StackAt
  <1> QED BY <1>1, <1>2, <1>3 DEF Loose

LEMMA ClosedLoose ==
  ASSUME Assumptions, Inv, NEW t \in Threads, pc[t] = "close_req"
  PROVE  Loose(t, H(t)) /\ H(t) \in Handles /\ Closing(t)
  <1>1. H(t) \in Handles /\ Closing(t) /\ mutex = t BY HereToo DEF PlaceAt, Theirs, InSection
  <1>2. cache[H(t)].ref = 0 \/ cache[H(t)].closed BY <1>1, HereToo DEF GoneAt
  <1>3. ~wf[H(t)].valid
    <2>1. Wfu => ~wf[H(t)].valid BY <1>1, HereToo DEF DroppedAt
    <2> QED BY <2>1, <1>1 DEF Inv, NInv, WfOK
  <1>4. \A u \in Threads \ {t} : pc[u] \notin {"receive", "insert", "publish"}
    <2>1. \A u \in Threads : InSection(u) => mutex = u BY HereToo
    <2> QED BY <2>1, <1>1 DEF InSection
  <1>5. ~(cache[H(t)].ref > 0 /\ ~cache[H(t)].closed)
    <2>1. ~(0 > 0) OBVIOUS
    <2> QED BY <1>2, <2>1
  <1> QED BY <1>1, <1>3, <1>4, <1>5 DEF Loose

LEMMA TableStep ==
  ASSUME Assumptions, Inv, NEW t \in Threads, Only(t), UNCHANGED <<cache, fds, wf, result>>,
         call[t].op # "use", call'[t].op # "use", pc'[t] \in {"mark", "leave"},
         pc'[t] = "leave" => Closing(t)',
         table' \in [Handles -> Rows], \A h \in Handles : table'[h].obj = 0 => table'[h] = Nothing,
         \A h \in Handles : table'[h] = table[h] \/ Loose(t, h)
  PROVE  Good
  <1> DEFINE F == [u \in Threads |-> Settled(u)]
             A == [u \in Threads |-> Asking(u)]
             T == [i \in Handles |-> Row(i)]
  <1>1. NInv'
    <2>1. TableOK' BY DEF TableOK
    <2>2. CacheOK' BY DEF Inv, NInv, CacheOK, Loose
    <2>3. WfOK'
      <3>1. ASSUME NEW h \in Handles, wf[h].valid PROVE table'[h] = table[h] BY <3>1 DEF Loose
      <3> QED BY <3>1 DEF Inv, NInv, WfOK
    <2>4. ASSUME NEW u \in Threads \ {t} PROVE StackAt(u)' /\ GoneAt(u)' /\ DroppedAt(u)'
      <3>1. StackAt(u) /\ GoneAt(u) /\ DroppedAt(u) /\ PlaceAt(u) BY HereToo
      <3>2. pc'[u] = pc[u] /\ loc'[u] = loc[u] /\ H(u)' = H(u) /\ (Closing(u)' <=> Closing(u))
        BY DEF Only, H, Closing
      <3>3. pc[u] \in {"receive", "insert", "publish"} => table'[H(u)] = table[H(u)]
        BY <3>1 DEF PlaceAt, Loose
      <3>4. StackAt(u)' BY <3>1, <3>2, <3>3 DEF StackAt
      <3>5. GoneAt(u)' /\ DroppedAt(u)' BY <3>1, <3>2 DEF GoneAt, DroppedAt
      <3> QED BY <3>4, <3>5
    <2>5. StackAt(t)' /\ GoneAt(t)' /\ DroppedAt(t)' BY DEF StackAt, GoneAt, DroppedAt
    <2> QED BY <2>1, <2>2, <2>3, <2>4, <2>5 DEF NInv, StackOK, GoneOK, DroppedOK
  <1>2. Settled(t) = NotFound /\ Settled(t)' = NotFound BY DEF Settled, NotFound
  <1>3. \A u \in Threads \ {t} : Settled(u)' = Settled(u) BY SettledStays DEF Inv
  <1>4. ResultOK'
    <2>1. ResultAt(t)' BY DEF ResultAt
    <2> QED BY <2>1, <1>3, ResultStep DEF Inv
  <1>5. NStep
    <2>1. F' = [F EXCEPT ![t] = Settled(t)'] /\ A' = [A EXCEPT ![t] = Asking(t)']
      BY <1>3, HereToo, Mapped
    <2>2. Asking(t) = 0 /\ Asking(t)' = 0 BY DEF Asking
    <2>3. F' = F /\ A' = A BY <2>1, <2>2, <1>2
    <2>4. \A h \in Handles : T'[h] = Nt!Closed \/ T'[h].obj \in Objects
      <3>1. ASSUME NEW h \in Handles PROVE T'[h] = Nt!Closed \/ T'[h].obj \in Objects
        <4>1. T'[h] = [obj |-> table'[h].obj, acc |-> table'[h].acc] BY DEF Row
        <4>2. table'[h] \in Rows OBVIOUS
        <4>3. CASE table'[h].obj = 0 BY <4>1, <4>3 DEF Nothing, Nt!Closed
        <4>4. CASE table'[h].obj # 0 BY <4>1, <4>2, <4>4 DEF Rows
        <4> QED BY <4>3, <4>4
      <3> QED BY <3>1
    <2>5. Nt!Change
      <3>1. Handles \in SUBSET Handles /\ Handles \ Handles = {} OBVIOUS
      <3> QED BY <3>1, <2>3, <2>4 DEF Nt!Change, F, A, T, Asking, Row
    <2> QED BY <2>5 DEF NStep, Nt!Next
  <1> QED BY <1>1, <1>4, <1>5 DEF Good


LEMMA OpenGood ==
  ASSUME Assumptions, Inv, NEW t \in Threads, pc[t] \in {"create", "open"}, NEW h \in Handles, NEW e \in Rows,
         e.obj # 0, Open(t, h, e), loc' = loc, UNCHANGED <<cache, fds, wf, result>>
  PROVE  Good
  <1> DEFINE c == [call[t] EXCEPT !.h = h]
  <1>1. Goes(t, "mark", loc[t], c) BY HereToo DEF Open, Goto, Goes
  <1>2. c.op = call[t].op BY HereToo DEF Asked
  <1> HIDE DEF c
  <1>3. pc'[t] = "mark" /\ call'[t] = c /\ Only(t) BY <1>1, HereToo, Gone
  <1>4. call[t].op # "use" BY HereToo DEF PlaceAt
  <1>5. table[h].obj = 0 /\ table \in [Handles -> Rows] /\ table' = [table EXCEPT ![h] = e]
    BY HereToo, Here DEF Open, alloc_entry, OtherTypes, ServerTypes
  <1>6. table' \in [Handles -> Rows] /\ \A i \in Handles : table'[i] = IF i = h THEN e ELSE table[i] BY <1>5
  <1>7. \A i \in Handles : table'[i].obj = 0 => table'[i] = Nothing BY <1>6 DEF Inv, NInv, TableOK
  <1>8. \A i \in Handles : table'[i] = table[i] \/ Loose(t, i) BY <1>5, <1>6, FreeLoose
  <1> QED BY <1>2, <1>3, <1>4, <1>6, <1>7, <1>8, TableStep

LEMMA OpensGood ==
  ASSUME Assumptions, OneTag, Inv, NEW t \in Threads, Opens(t)
  PROVE  Good
  <1>1. 0 \notin Objects BY DEF Assumptions, ObjectsAssumption
  <1>2. CASE NtCreateEvent(t)
    <2>1. PICK h \in Handles : Open(t, h, [obj |-> made + 1, acc |-> TRUE, prot |-> FALSE])
      BY <1>2 DEF NtCreateEvent
    <2>2. /\ pc[t] = "create" /\ made + 1 \in Objects /\ made + 1 # 0
          /\ loc' = loc /\ UNCHANGED <<cache, fds, wf, result>>
      BY <1>1, <1>2 DEF NtCreateEvent, caches
    <2> DEFINE e == [obj |-> made + 1, acc |-> TRUE, prot |-> FALSE]
    <2>3. e \in Rows /\ e.obj # 0 BY <2>2 DEF Rows
    <2> QED BY <2>1, <2>2, <2>3, OpenGood
  <1>3. CASE NtOpenEvent(t)
    <2>1. PICK h \in Handles, o \in live, a \in BOOLEAN, p \in BOOLEAN :
             Open(t, h, [obj |-> o, acc |-> a, prot |-> p])
      BY <1>3 DEF NtOpenEvent
    <2>2. pc[t] = "open" /\ loc' = loc /\ UNCHANGED <<cache, fds, wf, result>> BY <1>3 DEF NtOpenEvent, caches
    <2> DEFINE e == [obj |-> o, acc |-> a, prot |-> p]
    <2>3. o \in Objects BY HereToo, Here DEF OtherTypes, ServerTypes
    <2>4. e \in Rows /\ e.obj # 0 BY <1>1, <2>3 DEF Rows
    <2> QED BY <2>1, <2>2, <2>4, OpenGood
  <1> QED BY <1>2, <1>3, OpenFailsGood, MarkGood DEF Opens

LEMMA CloseReqGood ==
  ASSUME Assumptions, Inv, NEW t \in Threads, pc[t] = "close_req", Goto(t, "leave"), loc' = loc, call' = call,
         UNCHANGED <<cache, fds, wf, result>>,
         table' \in [Handles -> Rows], \A h \in Handles : table'[h].obj = 0 => table'[h] = Nothing,
         \A h \in Handles : table'[h] = table[h] \/ h = H(t) \/ table[h].obj = 0
  PROVE  Good
  <1>1. Goes(t, "leave", loc[t], call[t]) BY HereToo DEF Goto, Goes
  <1>2. pc'[t] = "leave" /\ call'[t] = call[t] /\ Only(t) /\ (Closing(t)' <=> Closing(t))
    BY <1>1, HereToo, Gone DEF Closing
  <1>3. Loose(t, H(t)) /\ Closing(t) BY ClosedLoose
  <1>4. call[t].op # "use" BY <1>3 DEF Closing
  <1>5. \A h \in Handles : table'[h] = table[h] \/ Loose(t, h) BY <1>3, FreeLoose
  <1> QED BY <1>2, <1>3, <1>4, <1>5, TableStep

LEMMA CloseHandleGood ==
  ASSUME Assumptions, Inv, NEW t \in Threads, close_handle(t)
  PROVE  Good
  <1>1. pc[t] = "close_req" /\ Goto(t, "leave") /\ loc' = loc /\ call' = call /\ UNCHANGED <<cache, fds, wf, result>>
        /\ (table' = table \/ table' = [table EXCEPT ![H(t)] = Nothing])
    BY DEF close_handle, caches
  <1>2. table \in [Handles -> Rows] /\ Nothing \in Rows BY HereToo, Here, Stored DEF OtherTypes, ServerTypes
  <1>3. \A h \in Handles : table[h].obj = 0 => table[h] = Nothing BY DEF Inv, NInv, TableOK
  <1>4. table' \in [Handles -> Rows] /\ \A h \in Handles : table'[h] = table[h] \/ (h = H(t) /\ table'[h] = Nothing)
    BY <1>1, <1>2
  <1> QED BY <1>1, <1>3, <1>4, CloseReqGood

LEMMA DuplicateGood ==
  ASSUME Assumptions, Inv, NEW t \in Threads, dup_handle(t)
  PROVE  Good
  <1>1. pc[t] = "close_req" /\ Goto(t, "leave") /\ loc' = loc /\ call' = call /\ UNCHANGED <<cache, fds, wf, result>>
    BY DEF dup_handle, caches
  <1>2. table \in [Handles -> Rows] /\ table' \in [Handles -> Rows] /\ H(t) \in Handles
    BY <1>1, HereToo, Here, DupRows, ClosedLoose DEF OtherTypes, ServerTypes, Inv
  <1>3. \A h \in Handles : table[h].obj = 0 => table[h] = Nothing BY DEF Inv, NInv, TableOK
  <1>4. \A h \in Handles : /\ table'[h].obj = 0 => table'[h] = Nothing
                           /\ table'[h] = table[h] \/ h = H(t) \/ table[h].obj = 0
    <2>1. CASE DupRefused(t) BY <1>3, <2>1 DEF DupRefused
    <2>2. CASE DupFull(t) BY <1>2, <1>3, <2>2 DEF DupFull
    <2>3. ASSUME NEW a \in BOOLEAN, DupInPlace(t, a)
          PROVE  \A h \in Handles : /\ table'[h].obj = 0 => table'[h] = Nothing
                                    /\ table'[h] = table[h] \/ h = H(t) \/ table[h].obj = 0
      <3>1. Copy(t, a).obj # 0 /\ table' = [table EXCEPT ![H(t)] = Copy(t, a)] BY <2>3 DEF DupInPlace, Copy
      <3> QED BY <3>1, <1>2, <1>3
    <2>4. ASSUME NEW a \in BOOLEAN, NEW i \in Handles, DupElsewhere(t, a, i)
          PROVE  \A h \in Handles : /\ table'[h].obj = 0 => table'[h] = Nothing
                                    /\ table'[h] = table[h] \/ h = H(t) \/ table[h].obj = 0
      <3> DEFINE o == IF table[H(t)].prot THEN table[H(t)] ELSE Nothing
      <3>1. Copy(t, a).obj # 0 /\ table[i].obj = 0 /\ i # H(t)
            /\ table' = [table EXCEPT ![i] = Copy(t, a), ![H(t)] = o]
        BY <2>4 DEF DupElsewhere, Copy
      <3>2. o.obj = 0 => o = Nothing BY <1>2, <1>3
      <3> HIDE DEF o
      <3>3. \A h \in Handles : table'[h] = IF h = H(t) THEN o ELSE IF h = i THEN Copy(t, a) ELSE table[h]
        BY <3>1, <1>2
      <3> QED BY <3>1, <3>2, <3>3, <1>3
    <2> QED BY <2>1, <2>2, <2>3, <2>4, DupCases
  <1> QED BY <1>1, <1>2, <1>4, CloseReqGood


-----------------------------------------------------------------------------
LEMMA InitInv == ASSUME Assumptions, Init PROVE NInv /\ ResultOK /\ Nt!Init
  <1>1. NoCall.op \notin {"use", "close", "dup"} BY DEF NoCall
  <1>2. TableOK /\ CacheOK /\ StackOK /\ GoneOK /\ WfOK /\ DroppedOK
    BY DEF Init, TableOK, CacheOK, StackOK, StackAt, GoneOK, GoneAt, WfOK, DroppedOK, DroppedAt,
           NoEntry, NoWf
  <1>3. ResultOK BY <1>1 DEF Init, ResultOK, ResultAt
  <1>4. \A t \in Threads : call[t].op # "use" /\ Settled(t) = NotFound
    BY <1>1 DEF Init, Settled, NotFound
  <1>5. Nt!Init
    BY <1>4 DEF Init, Nt!Init, Nt!Closed, Nt!NotFound, Nt!Pending, NotFound, Pending, Nothing
  <1> QED BY <1>2, <1>3, <1>5 DEF NInv

LEMMA NextGood == ASSUME Assumptions, OneTag, Inv, [Next]_vars PROVE Good
  <1>1. ASSUME UNCHANGED vars PROVE Good
    <2> USE <1>1 DEF vars, server, caches, thread, H, Closing
    <2>1. NInv'
      BY DEF Inv, NInv, TableOK, CacheOK, StackOK, StackAt, GoneOK, GoneAt, WfOK, DroppedOK, DroppedAt
    <2>2. \A t \in Threads : Settled(t)' = Settled(t) BY DEF Settled, Sync
    <2>3. ResultOK' BY <2>2 DEF Inv, ResultOK, ResultAt, Answered
    <2>4. UNCHANGED Nt!vars BY <2>2 DEF Nt!vars
    <2> QED BY <2>1, <2>3, <2>4 DEF Good, NStep
  <1>2. ASSUME NEW t \in Threads, Program(t) PROVE Good
    BY <1>2, BeginGood DEF Program
  <1>3. ASSUME NEW t \in Threads, Lookup(t) PROVE Good
    <2>1. CASE interlocked_inc_if_nonzero(t) BY <2>1, MissGood, HitGood
    <2>2. CASE check_closed(t) BY <2>2, RefusedGood, AcceptedGood, FoundOpenGood
    <2>3. CASE get_server_inproc_sync(t) BY <2>3, NoObjectGood, ReceivedGood
    <2>4. CASE cache_inproc_sync(t) BY <2>4, InUseGood, InsertGood
    <2>5. CASE get_inproc_sync(t) BY <2>5, RightsGood, NoRightsGood
    <2> QED BY <1>3, <2>1, <2>2, <2>3, <2>4, <2>5, EnterGood, LeaveGood, ReceiveGood, PublishGood DEF Lookup
  <1>4. ASSUME NEW t \in Threads, Release(t) PROVE Good
    BY <1>4, OwnFdGood, GiveBackGood, CloseFdGood, SetClosedGood DEF Release
  <1>5. ASSUME NEW t \in Threads, FastPath(t) PROVE Good
    BY <1>5, KindGood, EntryGood, WordGood, WakeGood, WarmGood, ServerGood DEF FastPath
  <1>6. ASSUME NEW t \in Threads, Closes(t) PROVE Good
    BY <1>6, DropKindGood, DropGood, CloseHandleGood, DuplicateGood DEF Closes
  <1>7. ASSUME NEW t \in Threads, Opens(t) PROVE Good BY <1>7, OpensGood
  <1> QED BY <1>1, <1>2, <1>3, <1>4, <1>5, <1>6, <1>7, ActGood, EndsGood DEF Next, Step

LEMMA InductiveInv == Assumptions /\ OneTag => (Spec => []Inv)
  <1> SUFFICES ASSUME Assumptions, OneTag PROVE Spec => []Inv OBVIOUS
  <1>1. Init => Inv BY InitHInv, InitInv DEF Inv
  <1>2. Inv /\ [Next]_vars => Inv' BY NextGood, NextHInv DEF Inv, Good
  <1> QED BY <1>1, <1>2, PTL DEF Spec

(* What wfusync_cache says of a handle is what wineserver's table says of  *)
(* it, from wfusync_cache_inproc_sync until wfusync_drop_handle, provided  *)
(* the program leaves the low bits of its handles alone (fd_cache_mutex in *)
(* get_inproc_sync and NtClose).                                           *)
THEOREM WfuCacheTruthful == Assumptions /\ OneTag => (Spec => []WfuCacheCoherent)
  <1> SUFFICES ASSUME Assumptions, OneTag PROVE Spec => []WfuCacheCoherent OBVIOUS
  <1>1. Inv => WfuCacheCoherent BY DEF Inv, NInv, WfOK, WfuCacheCoherent
  <1> QED BY <1>1, InductiveInv, PTL

(* A use of a handle works on an object that the handle stood for during   *)
(* the call, with the rights it then had, and fails only when it stood for *)
(* nothing or lacked the right (comment of get_cached_inproc_sync: "in     *)
(* which case we have to report that valid object").                       *)
THEOREM HandlesImplemented == Assumptions /\ OneTag => (Spec => Nt!Spec)
  <1> SUFFICES ASSUME Assumptions, OneTag PROVE Spec => Nt!Spec OBVIOUS
  <1>1. Init => Nt!Init BY InitInv
  <1>2. Inv /\ [Next]_vars => [Nt!Next]_(Nt!vars) BY NextGood DEF Good, NStep
  <1> QED BY <1>1, <1>2, InductiveInv, PTL DEF Spec, Nt!Spec
=============================================================================
