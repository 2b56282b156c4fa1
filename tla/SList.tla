-------------------------------- MODULE SList --------------------------------
(***************************************************************************)
(* Interlocked singly linked lists, RtlInterlocked*SList of                *)
(* dlls/ntdll/sync.c: a lock-free stack whose header is a pointer, a depth *)
(* and a sequence number.  A thread copies the header in two loads, which  *)
(* need not belong together, prepares a new one and exchanges it if the    *)
(* copy is still what the header holds.  RtlInterlockedPopEntrySList reads *)
(* the link of an entry that another thread may meanwhile have popped and  *)
(* overwritten or freed, in which case the load faults and is ignored.     *)
(***************************************************************************)
EXTENDS Integers, Sequences, SequencesExt, FiniteSets

CONSTANTS Threads, Entries, Null,
          Trash,      \* what the link of an entry holds once its owner has used the memory
          DepthSize,  \* number of values of the depth
          SeqSize,    \* number of values of the sequence number
          OpsOf,      \* OpsOf[t]: the calls thread t makes
          MaxCalls    \* bound on the calls of each thread

AllOps == {"push", "push_list", "pop", "flush"}

EntriesAssumption == Null \notin Entries /\ Trash \notin Entries /\ Trash # Null
(* No sequence number comes back while a call is under way.                *)
WidthAssumption == /\ DepthSize \in Nat \ {0} /\ IsFiniteSet(Threads)
                   /\ SeqSize \in Nat /\ SeqSize > MaxCalls * Cardinality(Threads)
CallsAssumption == OpsOf \in [Threads -> SUBSET AllOps] /\ MaxCalls \in Nat

(* What an instance must satisfy.                                         *)
Assumptions == /\ EntriesAssumption /\ WidthAssumption /\ CallsAssumption

VARIABLES header,   \* the list, as [next, depth, seq]
          nxt,      \* nxt[e]: the link of entry e
          own,      \* own[t]: the entries that thread t may use
          pc, call, left,
          args,     \* args[t]: the entries t's call puts on the list, in order
          old,      \* old[t]: t's copy of the header
          link,     \* link[t]: the link that t has read, of old[t].next
          stack     \* what the list holds: the entries in order

vars == <<header, nxt, own, pc, call, left, args, old, link, stack>>

Empty == [next |-> Null, depth |-> 0, seq |-> 0]

(* RtlInitializeSListHead, and the entries dealt out.                      *)
Init == /\ header = Empty /\ nxt = [e \in Entries |-> Trash] /\ stack = <<>>
        /\ own \in [Threads -> SUBSET Entries]
        /\ \A e \in Entries : \E t \in Threads : e \in own[t] /\ \A u \in Threads \ {t} : e \notin own[u]
        /\ pc = [t \in Threads |-> "idle"] /\ call = [t \in Threads |-> "none"]
        /\ left = [t \in Threads |-> MaxCalls] /\ args = [t \in Threads |-> <<>>]
        /\ old = [t \in Threads |-> Empty] /\ link = [t \in Threads |-> Null]

Goto(t, l) == pc' = [pc EXCEPT ![t] = l]
Return(t) == /\ Goto(t, "idle") /\ call' = [call EXCEPT ![t] = "none"]
             /\ old' = [old EXCEPT ![t] = Empty] /\ link' = [link EXCEPT ![t] = Null]

(* The call of t with entries es, which are linked to each other.          *)
Start(t, op, es) ==
  /\ pc[t] = "idle" /\ op \in OpsOf[t] /\ left[t] > 0
  /\ left' = [left EXCEPT ![t] = @ - 1]
  /\ call' = [call EXCEPT ![t] = op] /\ args' = [args EXCEPT ![t] = es]
  /\ own' = [own EXCEPT ![t] = @ \ ToSet(es)]
  /\ nxt' = [e \in Entries |-> IF \E i \in 1 .. Len(es) - 1 : es[i] = e
                               THEN es[(CHOOSE i \in 1 .. Len(es) - 1 : es[i] = e) + 1] ELSE nxt[e]]
  /\ Goto(t, IF op = "flush" THEN "flush_look" ELSE "copy")
  /\ UNCHANGED <<header, old, link, stack>>

Begin(t) ==
  \/ \E op \in {"pop", "flush"} : Start(t, op, <<>>)
  \/ \E e \in own[t] : Start(t, "push", <<e>>)
  \/ \E e \in own[t] : \E f \in own[t] \ {e} : Start(t, "push_list", <<e, f>>)

(* The owner of an entry uses or frees its memory.                         *)
reuse(t, e) == /\ pc[t] = "idle" /\ e \in own[t] /\ nxt[e] # Trash
               /\ nxt' = [nxt EXCEPT ![e] = Trash]
               /\ UNCHANGED <<header, own, pc, call, left, args, old, link, stack>>

---------------------------------------------------------------------------
(* old = *list, in two loads of which either may come first.               *)

flush_look(t) ==
  /\ pc[t] = "flush_look"
  /\ IF header.next = Null THEN Return(t) ELSE Goto(t, "copy") /\ UNCHANGED <<call, old, link>>
  /\ UNCHANGED <<header, nxt, own, left, args, stack>>

CopyNext(t) == old' = [old EXCEPT ![t].next = header.next]
CopyCounts(t) == old' = [old EXCEPT ![t].depth = header.depth, ![t].seq = header.seq]

copy(t) ==
  /\ \/ pc[t] = "copy" /\ CopyNext(t) /\ Goto(t, "copy_counts")
     \/ pc[t] = "copy" /\ CopyCounts(t) /\ Goto(t, "copy_next")
     \/ pc[t] = "copy_next" /\ CopyNext(t) /\ Goto(t, "prepare")
     \/ pc[t] = "copy_counts" /\ CopyCounts(t) /\ Goto(t, "prepare")
  /\ UNCHANGED <<header, nxt, own, call, left, args, link, stack>>

(* A push links its last entry; a pop finds the list empty, or reads the   *)
(* link of the first entry, of which a freed one gives nothing defined.    *)
prepare_push(t) ==
  /\ call[t] \in {"push", "push_list"} /\ Goto(t, "exchange")
  /\ nxt' = [nxt EXCEPT ![Last(args[t])] = old[t].next] /\ UNCHANGED <<call, old, link>>
prepare_pop(t) ==
  /\ call[t] = "pop" /\ UNCHANGED nxt
  /\ IF old[t].next = Null THEN Return(t)
     ELSE /\ Goto(t, "exchange") /\ UNCHANGED <<call, old>>
          /\ \/ link' = [link EXCEPT ![t] = nxt[old[t].next]]
             \/ nxt[old[t].next] = Trash /\ UNCHANGED link
prepare_flush(t) == call[t] = "flush" /\ Goto(t, "exchange") /\ UNCHANGED <<nxt, call, old, link>>

prepare(t) ==
  /\ pc[t] = "prepare" /\ (prepare_push(t) \/ prepare_pop(t) \/ prepare_flush(t))
  /\ UNCHANGED <<header, own, left, args, stack>>

---------------------------------------------------------------------------
(* InterlockedCompareExchange128 of the header that the call has prepared. *)

(* Mutant: changes are not numbered.                                       *)
NextSequence_none(t) == old[t].seq
NextSequence(t) == (old[t].seq + 1) % SeqSize
(* Mutant: the depth is not kept to its width.                             *)
NextDepth_wide(t) == CASE call[t] \in {"push", "push_list"} -> old[t].depth + Len(args[t])
                       [] call[t] = "pop" -> old[t].depth - 1
                       [] call[t] = "flush" -> 0
NextDepth(t) == CASE call[t] \in {"push", "push_list"} -> (old[t].depth + Len(args[t])) % DepthSize
                  [] call[t] = "pop" -> (old[t].depth - 1) % DepthSize
                  [] call[t] = "flush" -> 0
NextFirst(t) == CASE call[t] \in {"push", "push_list"} -> args[t][1]
                  [] call[t] = "pop" -> link[t]
                  [] call[t] = "flush" -> Null

(* What the call has done to the list, and the entries it returns.         *)
Taken(t) == CASE call[t] = "pop" -> {old[t].next} [] call[t] = "flush" -> ToSet(stack) [] OTHER -> {}
Left(t) == CASE call[t] \in {"push", "push_list"} -> args[t] \o stack
             [] call[t] = "pop" -> SelectSeq(stack, LAMBDA e : e # old[t].next)
             [] call[t] = "flush" -> <<>>

(* Mutant: a pop stores what it has prepared in any case.                  *)
Same_pop(t) == header = old[t] \/ call[t] = "pop"
Same(t) == header = old[t]

(* Mutant: a call that failed tries again with the copy it has.            *)
Retry_stale == "prepare"
Retry == "copy"

exchange(t) ==
  /\ pc[t] = "exchange"
  /\ IF Same(t)
     THEN /\ header' = [next |-> NextFirst(t), depth |-> NextDepth(t), seq |-> NextSequence(t)]
          /\ stack' = Left(t) /\ own' = [own EXCEPT ![t] = @ \cup Taken(t)]
          /\ args' = [args EXCEPT ![t] = <<>>] /\ Return(t)
     ELSE Goto(t, Retry) /\ UNCHANGED <<header, stack, own, args, call, old, link>>
  /\ UNCHANGED <<nxt, left>>

---------------------------------------------------------------------------
Step(t) == flush_look(t) \/ copy(t) \/ prepare(t) \/ exchange(t)
Next == \E t \in Threads : Begin(t) \/ Step(t) \/ \E e \in Entries : reuse(t, e)

Spec == Init /\ [][Next]_vars

(* A thread runs until its exchange succeeds.                              *)
LiveSpec == Spec /\ \A t \in Threads : WF_vars(Step(t))

---------------------------------------------------------------------------
(* Properties.                                                             *)

Links == Entries \cup {Null, Trash}
Headers == [next : Links, depth : 0 .. DepthSize - 1, seq : 0 .. SeqSize - 1]

(* Types.                                                                  *)
TypeOK ==
  /\ header \in Headers /\ nxt \in [Entries -> Links] /\ own \in [Threads -> SUBSET Entries]
  /\ pc \in [Threads -> {"idle", "flush_look", "copy", "copy_next", "copy_counts", "prepare", "exchange"}]
  /\ call \in [Threads -> AllOps \cup {"none"}] /\ left \in [Threads -> 0 .. MaxCalls]
  /\ args \in [Threads -> Seq(Entries)] /\ stack \in Seq(Entries)
  /\ old \in [Threads -> Headers] /\ link \in [Threads -> Links]

(* The header and the links are a chain of exactly the entries that were   *)
(* put on the list and not taken: no entry is lost by a pop that read a    *)
(* link of an entry somebody else had.                                     *)
Follow(e) == IF e = Null THEN header.next ELSE nxt[e]
ChainExact ==
  LET path == <<Null>> \o stack IN
  /\ \A i \in 1 .. Len(path) : Follow(path[i]) = IF i = Len(path) THEN Null ELSE path[i + 1]
  /\ header.depth = Len(stack) % DepthSize

(* An entry has one owner: the list, the call that is about to put it      *)
(* there, or a thread.                                                     *)
Places(e) == {<<"own", t>> : t \in {t \in Threads : e \in own[t]}}
             \cup {<<"arg", t>> : t \in {t \in Threads : e \in ToSet(args[t])}}
             \cup {<<"list", i>> : i \in {i \in DOMAIN stack : stack[i] = e}}
OneOwner == \A e \in Entries : Cardinality(Places(e)) = 1

====
