---------------------------- MODULE AddressQueue ----------------------------
(***************************************************************************)
(* The queue behind RtlWaitOnAddress and RtlWakeAddress* of                *)
(* dlls/ntdll/sync.c, as its callers see it: who waits, on which address,  *)
(* in the order of arrival.  Futex shows that the code keeps such a queue. *)
(***************************************************************************)
EXTENDS Naturals, Sequences, SequencesExt

(* RtlWaitOnAddress queues the thread.                                     *)
Wait(q, t, a) == Append(q, [who |-> t, on |-> a])

On(q, a) == {i \in DOMAIN q : q[i].on = a}
First(q, a) == CHOOSE i \in On(q, a) : \A j \in On(q, a) : i <= j

(* RtlWakeAddressSingle takes the first waiter of the address out,         *)
(* RtlWakeAddressAll all of them.                                          *)
WakeSingle(q, a) == IF On(q, a) = {} THEN q ELSE RemoveAt(q, First(q, a))
WakeAll(q, a) == SelectSeq(q, LAMBDA e : e.on # a)

(* A waiter takes itself out when its time is over or its alert was not    *)
(* for this wait.                                                          *)
Leave(q, t) == SelectSeq(q, LAMBDA e : e.who # t)

Asleep(q) == {q[i].who : i \in DOMAIN q}
====
