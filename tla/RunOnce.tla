------------------------------ MODULE RunOnce ------------------------------
(***************************************************************************)
(* One-time initialization, RtlRunOnce* of dlls/ntdll/sync.c, over the     *)
(* keyed event of wineserver.  Each process has one RTL_RUN_ONCE: a word   *)
(* whose low two bits are the state (0 new, 1 in progress, 2 done, 3 in    *)
(* progress asynchronously) and whose other bits are, in state 1, the      *)
(* address of the last waiter's stack variable `next', which holds the     *)
(* address of the one before, and in state 2 the context.                  *)
(*                                                                         *)
(* A loop that ends with a successful InterlockedCompareExchangePointer    *)
(* is one step: what it does depends only on the value exchanged.          *)
(***************************************************************************)
EXTENDS KeyedEvent, Integers, FiniteSets

CONSTANTS AddressOf,    \* AddressOf[t]: where t's `next' is, in the memory of its process
          CallsOf,      \* CallsOf[t]: the calls thread t makes
          MaxCalls,     \* bound on the calls of each thread
          MaxDisturbs   \* bound on suspensions and system APCs together

Null == 0
Processes == {ProcessOf[t] : t \in Threads}
Ops == {"execute", "async", "check"}

AddressAssumption ==
  /\ DOMAIN ProcessOf = Threads /\ AddressOf \in [Threads -> Nat \ {Null}]
  /\ \A t, u \in Threads : ProcessOf[t] = ProcessOf[u] /\ AddressOf[t] = AddressOf[u] => t = u
CallsAssumption == CallsOf \in [Threads -> SUBSET Ops]
BoundAssumption == MaxCalls \in Nat /\ MaxDisturbs \in Nat

(* What an instance must satisfy.                                         *)
Assumptions == /\ AddressAssumption /\ CallsAssumption /\ BoundAssumption

VARIABLES once,       \* once[p]: the word of process p, as [bits, ptr]
          next,       \* next[t]: t's stack variable
          val, rest,  \* of RtlRunOnceComplete: the waiter to release, and *(ULONG_PTR *)val
          queue, suspended, disturbs,
          pc, call, left

server == <<queue, suspended, disturbs>>
vars == <<once, next, val, rest, server, pc, call, left>>

Init == /\ once = [p \in Processes |-> [bits |-> 0, ptr |-> Null]]
        /\ next = [t \in Threads |-> Null] /\ val = next /\ rest = next
        /\ queue = <<>> /\ suspended = {} /\ disturbs = 0
        /\ pc = [t \in Threads |-> "idle"] /\ call = [t \in Threads |-> "none"]
        /\ left = [t \in Threads |-> MaxCalls]

Once(t) == once[ProcessOf[t]]
SetOnce(t, b, p) == once' = [once EXCEPT ![ProcessOf[t]] = [bits |-> b, ptr |-> p]]
At(t, l) == pc[t] = l /\ t \notin suspended
Goto(t, l) == pc' = [pc EXCEPT ![t] = l]
Return(t) == Goto(t, "idle") /\ call' = [call EXCEPT ![t] = "none"]

(* The context that t stores is its own.                                   *)
Context(t) == AddressOf[t]

Begin(t, op) ==
  /\ At(t, "idle") /\ op \in CallsOf[t] /\ left[t] > 0
  /\ Goto(t, "begin") /\ call' = [call EXCEPT ![t] = op] /\ left' = [left EXCEPT ![t] = @ - 1]
  /\ UNCHANGED <<once, next, val, rest, server>>

---------------------------------------------------------------------------
(* RtlRunOnceBeginInitialize.                                              *)

(* RTL_RUN_ONCE_CHECK_ONLY, a state in which the call ends: done, or one   *)
(* that the flags do not fit.                                              *)
begin_return(t) ==
  /\ At(t, "begin")
  /\ \/ call[t] = "check"
     \/ Once(t).bits = 2
     \/ Once(t).bits = 1 /\ call[t] = "async"
     \/ Once(t).bits = 3 /\ call[t] = "execute"
  /\ Return(t)
  /\ UNCHANGED <<once, next, val, rest, server, left>>

(* STATUS_PENDING: the thread initialises.                                 *)
begin_pending(t) ==
  /\ At(t, "begin") /\ call[t] # "check"
  /\ \/ Once(t).bits = 0 /\ SetOnce(t, IF call[t] = "async" THEN 3 ELSE 1, Null)
     \/ Once(t).bits = 3 /\ call[t] = "async" /\ UNCHANGED once
  /\ Goto(t, "init")
  /\ UNCHANGED <<next, val, rest, server, call, left>>

(* In progress: the thread puts itself in front of the waiters.            *)
(* Mutant: the waiters that were there are not linked.                     *)
Link_alone(t) == Null
Link(t) == Once(t).ptr

begin_wait(t) ==
  /\ At(t, "begin") /\ call[t] = "execute" /\ Once(t).bits = 1
  /\ next' = [next EXCEPT ![t] = Link(t)]
  /\ SetOnce(t, 1, AddressOf[t])
  /\ Goto(t, "ke_wait")
  /\ UNCHANGED <<val, rest, server, call, left>>

---------------------------------------------------------------------------
(* RtlRunOnceComplete, at the end of func in RtlRunOnceExecuteOnce or by   *)
(* the asynchronous caller itself.                                         *)

(* Mutant: a late asynchronous caller overwrites the outcome.              *)
complete_async_again(t) ==
  /\ At(t, "init") /\ call[t] = "async" /\ Return(t) /\ SetOnce(t, 2, Context(t))
  /\ UNCHANGED <<next, val, rest, server, left>>
complete_async(t) ==
  /\ At(t, "init") /\ call[t] = "async" /\ Return(t)
  /\ IF Once(t).bits = 3 THEN SetOnce(t, 2, Context(t)) ELSE UNCHANGED once
  /\ UNCHANGED <<next, val, rest, server, left>>

complete(t, failed) ==
  /\ At(t, "init") /\ call[t] = "execute" /\ Once(t).bits = 1
  /\ IF failed THEN SetOnce(t, 0, Null) ELSE SetOnce(t, 2, Context(t))
  /\ val' = [val EXCEPT ![t] = Once(t).ptr]
  /\ IF Once(t).ptr = Null THEN Return(t) ELSE Goto(t, "read_next") /\ UNCHANGED call
  /\ UNCHANGED <<next, rest, server, left>>

Node(t, a) == CHOOSE u \in Threads : ProcessOf[u] = ProcessOf[t] /\ AddressOf[u] = a

read_next(t) ==
  /\ At(t, "read_next") /\ Goto(t, "ke_release")
  /\ rest' = [rest EXCEPT ![t] = next[Node(t, val[t])]]
  /\ UNCHANGED <<once, next, val, server, call, left>>

(* Mutant: the link is read after its thread was released.                 *)
Rest_late(t) == next[Node(t, val[t])]
Rest(t) == rest[t]

next_waiter(t) ==
  /\ At(t, "released")
  /\ ~Queued(queue, t)
  /\ val' = [val EXCEPT ![t] = Rest(t)]
  /\ IF val'[t] = Null THEN Return(t) ELSE Goto(t, "read_next") /\ UNCHANGED call
  /\ UNCHANGED <<once, next, rest, server, left>>

---------------------------------------------------------------------------
(* NtWaitForKeyedEvent and NtReleaseKeyedEvent: a request to wineserver,   *)
(* which answers when the thread has left the queue.                       *)

NtWaitForKeyedEvent(t) ==
  /\ At(t, "ke_wait") /\ Goto(t, "waited")
  /\ queue' = Select(queue, Entry(t, "wait", AddressOf[t]), suspended)
  /\ UNCHANGED <<once, next, val, rest, suspended, disturbs, call, left>>

waited(t) ==
  /\ At(t, "waited") /\ ~Queued(queue, t)
  /\ Goto(t, "begin")
  /\ UNCHANGED <<once, next, val, rest, server, call, left>>

NtReleaseKeyedEvent(t) ==
  /\ At(t, "ke_release") /\ Goto(t, "released")
  /\ queue' = Select(queue, Entry(t, "release", val[t]), suspended)
  /\ UNCHANGED <<once, next, val, rest, suspended, disturbs, call, left>>

(* A system APC ends the wait; after it server_select asks again.          *)
(* Mutant: the wait returns instead.                                       *)
asks_again_not(t) == IF pc[t] = "waited" THEN "begin" ELSE "ke_release"
asks_again(t) == IF pc[t] = "waited" THEN "ke_wait" ELSE "ke_release"

system_apc(t) ==
  /\ disturbs < MaxDisturbs /\ disturbs' = disturbs + 1
  /\ Queued(queue, t) /\ t \notin suspended
  /\ queue' = Without(queue, t)
  /\ Goto(t, asks_again(t))
  /\ UNCHANGED <<once, next, val, rest, suspended, call, left>>

suspend_thread(t) ==
  /\ disturbs < MaxDisturbs /\ disturbs' = disturbs + 1
  /\ t \notin suspended /\ suspended' = suspended \cup {t}
  /\ UNCHANGED <<once, next, val, rest, queue, pc, call, left>>

(* Mutant: a thread that is resumed does not look again.                   *)
resume_thread_quiet(t) ==
  /\ t \in suspended /\ suspended' = suspended \ {t}
  /\ UNCHANGED <<once, next, val, rest, queue, disturbs, pc, call, left>>
resume_thread(t) ==
  /\ t \in suspended /\ suspended' = suspended \ {t}
  /\ queue' = Resumed(queue, t, suspended')
  /\ UNCHANGED <<once, next, val, rest, disturbs, pc, call, left>>

---------------------------------------------------------------------------
Step(t) == \/ begin_return(t) \/ begin_pending(t) \/ begin_wait(t)
           \/ complete_async(t) \/ (\E failed \in BOOLEAN : complete(t, failed))
           \/ read_next(t) \/ next_waiter(t)
           \/ NtWaitForKeyedEvent(t) \/ waited(t) \/ NtReleaseKeyedEvent(t)

Next == \E t \in Threads : \/ (\E op \in Ops : Begin(t, op)) \/ Step(t)
                           \/ system_apc(t) \/ suspend_thread(t) \/ resume_thread(t)

Spec == Init /\ [][Next]_vars

(* Threads run, func returns, and who is suspended is resumed.             *)
Fairness == \A t \in Threads : WF_vars(Step(t)) /\ WF_vars(resume_thread(t))
LiveSpec == Spec /\ Fairness

---------------------------------------------------------------------------
(* Properties.                                                             *)

(* Types; a queued thread is in its keyed event call.                      *)
TypeOK ==
  /\ once \in [Processes -> [bits : 0 .. 3, ptr : Nat]]
  /\ next \in [Threads -> Nat] /\ val \in [Threads -> Nat] /\ rest \in [Threads -> Nat]
  /\ queue \in Seq([who : Threads, op : {"wait", "release"}, key : Nat])
  /\ suspended \subseteq Threads /\ disturbs \in 0 .. MaxDisturbs
  /\ pc \in [Threads -> {"idle", "begin", "init", "ke_wait", "waited", "read_next", "ke_release", "released"}]
  /\ call \in [Threads -> Ops \cup {"none"}] /\ left \in [Threads -> 0 .. MaxCalls]
  /\ \A i \in DOMAIN queue :
        pc[queue[i].who] = IF queue[i].op = "wait" THEN "waited" ELSE "released"

Waiting(t) == pc[t] = "ke_wait" \/ (pc[t] = "waited" /\ Queued(queue, t))
Releasing(t) == pc[t] \in {"read_next", "ke_release"} \/ (pc[t] = "released" /\ Queued(queue, t))

(* RtlRunOnceComplete follows addresses of other threads' stacks: the      *)
(* thread whose variable it reads or releases is still in its wait.        *)
NodesLive == \A t \in Threads : Releasing(t) => Waiting(Node(t, val[t]))

(* A waiter is in exactly one list, at one place: the word, the link of    *)
(* another waiter that is not read yet, or what a completing thread still  *)
(* has to release.                                                         *)
References(t) ==
  LET Here == {u \in Threads : ProcessOf[u] = ProcessOf[t]}
      a == AddressOf[t]
      Passed == {Node(c, val[c]) : c \in {c \in Here : pc[c] \in {"ke_release", "released"} /\ Releasing(c)}}
  IN {<<"once">> : x \in {x \in {t} : Once(t).bits = 1 /\ Once(t).ptr = a}}
     \cup {<<"next", u>> : u \in {u \in Here : Waiting(u) /\ u \notin Passed /\ next[u] = a}}
     \cup {<<"val", c>> : c \in {c \in Here : Releasing(c) /\ val[c] = a}}
     \cup {<<"rest", c>> : c \in {c \in Here : pc[c] \in {"ke_release", "released"} /\ rest[c] = a}}
WaiterListed == \A t \in Threads : Waiting(t) => Cardinality(References(t)) = 1

(* Each process has a one-time initialization.                             *)
Owner(p, a) == CHOOSE t \in Threads : ProcessOf[t] = p /\ AddressOf[t] = a
OneTime == INSTANCE OneTimeInit WITH
  Objects <- Processes, ObjectOf <- ProcessOf,
  state <- [p \in Processes |-> <<"new", "sync", "done", "async">>[once[p].bits + 1]],
  running <- {t \in Threads : pc[t] = "init"},
  outcome <- [p \in Processes |-> IF once[p].bits = 2 THEN Owner(p, once[p].ptr) ELSE "nobody"]
====
