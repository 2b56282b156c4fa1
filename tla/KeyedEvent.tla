----------------------------- MODULE KeyedEvent -----------------------------
(***************************************************************************)
(* wineserver's keyed event, of server/event.c: a queue of the threads     *)
(* that wait on a key or release one.  A wait and a release of the same    *)
(* key in the same process leave together.  Each operator gives the queue  *)
(* after one request, which wineserver handles without an interruption.    *)
(***************************************************************************)
EXTENDS Naturals, Sequences, SequencesExt

CONSTANTS Threads,
          ProcessOf    \* ProcessOf[t]: the process of thread t

Entry(t, o, k) == [who |-> t, op |-> o, key |-> k]

matching_op(op) == IF op = "wait" THEN "release" ELSE "wait"

(* Mutant: the process of the entry is not looked at.                      *)
SameProcess_any(t, u) == TRUE
SameProcess(t, u) == ProcessOf[t] = ProcessOf[u]

(* keyed_event_signaled: the entries of q that entry e can leave with.     *)
Partners(q, e, suspended) ==
  {i \in DOMAIN q : /\ q[i].who # e.who /\ SameProcess(q[i].who, e.who)
                    /\ q[i].op = matching_op(e.op) /\ q[i].key = e.key
                    /\ q[i].who \notin suspended}

Without(q, t) == SelectSeq(q, LAMBDA f : f.who # t)
FirstOf(S) == CHOOSE i \in S : \A j \in S : i <= j

(* check_wait on behalf of e, which is queued: it leaves with its partner. *)
keyed_event_signaled(q, e, suspended) ==
  LET P == Partners(q, e, suspended)
  IN IF P = {} \/ e.who \in suspended THEN q
     ELSE Without(Without(q, q[FirstOf(P)].who), e.who)

(* select_on.                                                              *)
Select(q, e, suspended) == keyed_event_signaled(Append(q, e), e, suspended)

Queued(q, t) == \E i \in DOMAIN q : q[i].who = t

(* resume_thread calls wake_thread, which checks the wait again.           *)
Resumed(q, t, suspended) ==
  IF Queued(q, t)
  THEN LET i == CHOOSE j \in DOMAIN q : q[j].who = t IN keyed_event_signaled(q, q[i], suspended)
  ELSE q
====
