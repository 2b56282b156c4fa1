------------------------------- MODULE Futex -------------------------------
(***************************************************************************)
(* RtlWaitOnAddress, RtlWakeAddressSingle and RtlWakeAddressAll of         *)
(* dlls/ntdll/sync.c over the alerts of dlls/ntdll/unix/sync.c.  A waiter  *)
(* links an entry on its own stack into the queue of its address, and      *)
(* sleeps until its thread is alerted; a waker takes entries out and       *)
(* alerts their threads after it has dropped the queue's lock.  The alert  *)
(* of a thread is one flag, which anybody may set, so a waiter may also    *)
(* wake for an alert that was meant for an earlier wait.  The addresses of *)
(* the model share one queue, as addresses with the same hash do.          *)
(***************************************************************************)
EXTENDS Integers, Sequences, SequencesExt, FiniteSets

CONSTANTS Threads,
          Addrs,     \* addresses, not 0
          Values,    \* what an address may hold
          TidsSize,  \* entries of the array tids of RtlWakeAddressAll
          CallsOf,   \* CallsOf[t]: the calls thread t makes
          MaxCalls   \* bound: MaxCalls[t] calls made by thread t

Ops == {"wait", "wait_timed", "wake_one", "wake_all", "alert"}

ThreadsAssumption == 0 \notin Threads
AddrsAssumption == 0 \notin Addrs /\ Addrs # {}
TidsAssumption == TidsSize \in Nat \ {0}
CallsAssumption == CallsOf \in [Threads -> SUBSET Ops]
BoundAssumption == MaxCalls \in [Threads -> Nat]

(* What an instance must satisfy.                                         *)
Assumptions == /\ ThreadsAssumption /\ AddrsAssumption /\ TidsAssumption
               /\ CallsAssumption /\ BoundAssumption

VARIABLES mem,     \* mem[a]: the value at address a
          spin,    \* holder of queue->lock, 0 for none
          linked,  \* queue->queue: the threads whose entries are in it
          addr,    \* addr[t]: the member addr of t's entry, 0 for NULL
          alert,   \* threads whose alert is pending
          pc, call, left,
          tids,    \* tids[t]: the threads a wake has yet to alert
          found    \* found[t]: the entry a wake has just taken out

vars == <<mem, spin, linked, addr, alert, pc, call, left, tids, found>>

NoCall == [op |-> "none", addr |-> 0, cmp |-> 0, timed |-> FALSE]

Init == /\ mem \in [Addrs -> Values] /\ spin = 0 /\ linked = <<>>
        /\ addr = [t \in Threads |-> 0] /\ alert = {}
        /\ pc = [t \in Threads |-> "idle"] /\ call = [t \in Threads |-> NoCall]
        /\ left = MaxCalls
        /\ tids = [t \in Threads |-> <<>>] /\ found = [t \in Threads |-> 0]

Goto(t, l) == pc' = [pc EXCEPT ![t] = l]
Move(t, from, to) == pc[t] = from /\ Goto(t, to) /\ UNCHANGED <<call, left>>
Return(t) == Goto(t, "idle") /\ call' = [call EXCEPT ![t] = NoCall] /\ UNCHANGED left

Begins(t, op) == /\ pc[t] = "idle" /\ left[t] > 0 /\ op \in CallsOf[t]
                 /\ left' = [left EXCEPT ![t] = @ - 1]

---------------------------------------------------------------------------
(* RtlWaitOnAddress.                                                       *)

RtlWaitOnAddress(t, a, v, timed) ==
  /\ Begins(t, IF timed THEN "wait_timed" ELSE "wait")
  /\ call' = [call EXCEPT ![t] = [op |-> "wait", addr |-> a, cmp |-> v, timed |-> timed]]
  /\ addr' = [addr EXCEPT ![t] = a]
  /\ Goto(t, "w_lock")
  /\ UNCHANGED <<mem, spin, linked, alert, tids, found>>

(* Mutant: the lock is taken without a look at its value.                  *)
spin_lock_blind(t) ==
  /\ spin' = t
  /\ \/ Move(t, "w_lock", "compare") \/ Move(t, "r_lock", "unlink") \/ Move(t, "k_lock", "scan")
  /\ UNCHANGED <<mem, linked, addr, alert, tids, found>>

spin_lock(t) ==
  /\ spin = 0 /\ spin' = t
  /\ \/ Move(t, "w_lock", "compare") \/ Move(t, "r_lock", "unlink") \/ Move(t, "k_lock", "scan")
  /\ UNCHANGED <<mem, linked, addr, alert, tids, found>>

(* Mutant: the value is not looked at again under the lock.                *)
Differs_never(t) == FALSE
Differs(t) == mem[call[t].addr] # call[t].cmp

(* Mutant: list_add_head.                                                  *)
list_add_head(t) == <<t>> \o linked
list_add_tail(t) == Append(linked, t)

compare_addr(t) ==
  /\ pc[t] = "compare" /\ spin' = 0
  /\ IF Differs(t) THEN Return(t) /\ UNCHANGED linked
     ELSE linked' = list_add_tail(t) /\ Goto(t, "sleep") /\ UNCHANGED <<call, left>>
  /\ UNCHANGED <<mem, addr, alert, tids, found>>

(* NtWaitForAlertByThreadId: alerted, or its time is over; a late alert is *)
(* then left for the next wait of the thread.                              *)
NtWaitForAlertByThreadId(t) ==
  /\ Move(t, "sleep", "check")
  /\ \/ t \in alert /\ alert' = alert \ {t}
     \/ call[t].timed /\ UNCHANGED alert
  /\ UNCHANGED <<mem, spin, linked, addr, tids, found>>

(* Is the entry still in the queue?  Looked at without the lock first.     *)
(* Mutant: an alert is taken for a wake of this wait.                      *)
StillLinked_never(t) == FALSE
StillLinked(t) == addr[t] # 0

check_entry(t) ==
  /\ pc[t] = "check"
  /\ IF StillLinked(t) THEN Goto(t, "r_lock") /\ UNCHANGED <<call, left>> ELSE Return(t)
  /\ UNCHANGED <<mem, spin, linked, addr, alert, tids, found>>

list_remove(t) ==
  /\ pc[t] = "unlink" /\ spin' = 0 /\ Return(t)
  /\ linked' = IF addr[t] # 0 THEN SelectSeq(linked, LAMBDA u : u # t) ELSE linked
  /\ UNCHANGED <<mem, addr, alert, tids, found>>

---------------------------------------------------------------------------
(* RtlWakeAddressSingle and RtlWakeAddressAll; the program has stored a    *)
(* value before it calls them.                                             *)

RtlWakeAddress(t, op, a, v) ==
  /\ Begins(t, op)
  /\ call' = [call EXCEPT ![t] = [op |-> op, addr |-> a, cmp |-> 0, timed |-> FALSE]]
  /\ mem' = [mem EXCEPT ![a] = v]
  /\ Goto(t, "k_lock")
  /\ UNCHANGED <<spin, linked, addr, alert, tids, found>>

Matching(t) == {i \in DOMAIN linked : addr[linked[i]] = call[t].addr}

(* The next entry of the address: its tid is kept and it is taken out.     *)
scan(t) ==
  /\ pc[t] = "scan"
  /\ \/ Matching(t) = {} /\ Goto(t, "unlock") /\ UNCHANGED <<linked, found>>
     \/ \E i \in Matching(t) :
           /\ \A j \in Matching(t) : i <= j
           /\ found' = [found EXCEPT ![t] = linked[i]]
           /\ linked' = RemoveAt(linked, i)
           /\ Goto(t, "clear")
  /\ UNCHANGED <<mem, spin, addr, alert, call, left, tids>>

(* WritePointerRelease( &entry->addr, NULL ): from here on the waiter may  *)
(* return and its stack be used for something else.                        *)
clear_addr(t) ==
  /\ pc[t] = "clear"
  /\ addr' = [addr EXCEPT ![found[t]] = 0]
  /\ IF Len(tids[t]) = TidsSize THEN Goto(t, "flush") /\ UNCHANGED <<tids, found>>
     ELSE /\ tids' = [tids EXCEPT ![t] = Append(@, found[t])]
          /\ found' = [found EXCEPT ![t] = 0]
          /\ Goto(t, IF call[t].op = "wake_one" THEN "unlock" ELSE "scan")
  /\ UNCHANGED <<mem, spin, linked, alert, call, left>>

(* The array is full: its threads are alerted with the lock held, and the  *)
(* array is used again from the start.                                     *)
(* Mutant: the entry that did not fit is forgotten.                        *)
Restarted_empty(t) == <<>>
Restarted(t) == <<found[t]>>

flush(t) ==
  /\ pc[t] = "flush" /\ UNCHANGED <<mem, spin, linked, addr, call, left>>
  /\ IF tids[t] # <<>>
     THEN /\ alert' = alert \cup {Head(tids[t])}
          /\ tids' = [tids EXCEPT ![t] = Tail(@)]
          /\ UNCHANGED <<found, pc>>
     ELSE /\ tids' = [tids EXCEPT ![t] = Restarted(t)]
          /\ found' = [found EXCEPT ![t] = 0]
          /\ Goto(t, "scan") /\ UNCHANGED alert

spin_unlock(t) ==
  /\ Move(t, "unlock", "notify") /\ spin' = 0
  /\ UNCHANGED <<mem, linked, addr, alert, tids, found>>

(* NtAlertMultipleThreadByThreadId.                                        *)
notify(t) ==
  /\ pc[t] = "notify" /\ UNCHANGED <<mem, spin, linked, addr, found>>
  /\ IF tids[t] = <<>> THEN Return(t) /\ UNCHANGED <<alert, tids>>
     ELSE /\ alert' = alert \cup {Head(tids[t])}
          /\ tids' = [tids EXCEPT ![t] = Tail(@)]
          /\ UNCHANGED <<pc, call, left>>

(* The program alerts a thread itself.                                     *)
NtAlertThreadByThreadId(t, u) ==
  /\ Begins(t, "alert") /\ alert' = alert \cup {u}
  /\ UNCHANGED <<mem, spin, linked, addr, pc, call, tids, found>>

---------------------------------------------------------------------------
Program(t) == \/ \E a \in Addrs, v \in Values :
                    \/ \E timed \in BOOLEAN : RtlWaitOnAddress(t, a, v, timed)
                    \/ \E op \in {"wake_one", "wake_all"} : RtlWakeAddress(t, op, a, v)
              \/ \E u \in Threads : NtAlertThreadByThreadId(t, u)

Waiter(t) == compare_addr(t) \/ NtWaitForAlertByThreadId(t) \/ check_entry(t) \/ list_remove(t)
Waker(t) == scan(t) \/ clear_addr(t) \/ flush(t) \/ spin_unlock(t) \/ notify(t)

Next == \E t \in Threads : Program(t) \/ spin_lock(t) \/ Waiter(t) \/ Waker(t)

Spec == Init /\ [][Next]_vars

(* A thread that can go on does, and gets the spin lock in the end, since  *)
(* every holder drops it.                                                  *)
Fairness == \A t \in Threads : WF_vars(Waiter(t)) /\ WF_vars(Waker(t)) /\ SF_vars(spin_lock(t))
LiveSpec == Spec /\ Fairness

---------------------------------------------------------------------------
(* Properties.                                                             *)

Labels == {"idle", "w_lock", "compare", "sleep", "check", "r_lock", "unlink",
           "k_lock", "scan", "clear", "flush", "unlock", "notify"}

(* Types, and the spin lock is held in the sections it guards.             *)
TypeOK ==
  /\ mem \in [Addrs -> Values] /\ spin \in Threads \cup {0}
  /\ linked \in Seq(Threads) /\ addr \in [Threads -> Addrs \cup {0}]
  /\ alert \subseteq Threads /\ pc \in [Threads -> Labels]
  /\ \A t \in Threads : /\ call[t].op \in {"none", "wait", "wake_one", "wake_all"}
                        /\ call[t].addr \in Addrs \cup {0}
                        /\ tids[t] \in Seq(Threads) /\ Len(tids[t]) <= TidsSize
                        /\ found[t] \in Threads \cup {0}
                        /\ pc[t] \in {"compare", "unlink", "scan", "clear", "flush", "unlock"} => spin = t

(* The entry is on the waiter's stack: whatever is linked, and whatever a  *)
(* waker is about to write to, belongs to a wait that has not returned.    *)
OnStack(u) == pc[u] \in {"sleep", "check", "r_lock", "unlink"}
EntriesLive ==
  /\ \A i \in DOMAIN linked : OnStack(linked[i]) /\ addr[linked[i]] # 0
  /\ \A i, j \in DOMAIN linked : linked[i] = linked[j] => i = j
  /\ \A w \in Threads : pc[w] = "clear" => /\ OnStack(found[w]) /\ addr[found[w]] # 0
                                            /\ found[w] \notin Range(linked)

(* A waiter that still sleeps although the value has changed will be woken *)
(* by a call that is on its way: the comparison and the link are made      *)
(* under the lock that the waker takes after it has stored the value.      *)
StoreNotMissed ==
  \A i \in DOMAIN linked :
     mem[call[linked[i]].addr] # call[linked[i]].cmp =>
        \E w \in Threads : /\ call[w].op \in {"wake_one", "wake_all"} /\ call[w].addr = call[linked[i]].addr
                           /\ pc[w] \in {"k_lock", "scan", "clear", "flush"}

(* The entry of a waiter that sleeps without an alert on its way is in the *)
(* queue, where the next wake finds it.                                    *)
SleepersReachable ==
  \A t \in Threads : pc[t] = "sleep" =>
     \/ t \in Range(linked) \/ t \in alert
     \/ \E w \in Threads : t \in Range(tids[w]) \/ found[w] = t

(* The code keeps the queue that AddressWait promises.                     *)
Progress(t) ==
  CASE pc[t] = "idle" -> "idle"
    [] pc[t] \in {"w_lock", "compare"} -> "waiting"
    [] OnStack(t) -> IF t \in Range(linked) THEN "asleep" ELSE "released"
    [] call[t].op = "wake_one" -> IF pc[t] \in {"k_lock", "scan"} THEN "waking" ELSE "done"
    [] OTHER -> IF pc[t] \in {"unlock", "notify"} THEN "done" ELSE "waking"

Nt == INSTANCE AddressWait WITH
        queue <- [i \in DOMAIN linked |-> [who |-> linked[i], on |-> call[linked[i]].addr]],
        state <- [t \in Threads |-> Progress(t)]
====
