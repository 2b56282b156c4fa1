---------------------------- MODULE AddressWait ----------------------------
(***************************************************************************)
(* What the Win32 futexes promise (comment at dlls/ntdll/sync.c:813: "They *)
(* are also fair"): a thread goes to sleep only while the value is the one *)
(* it expected, waiters of an address are woken in the order they came, a  *)
(* wake takes one waiter whenever there is one, and a wake of all leaves   *)
(* none that was there.  A waiter may always leave by itself.              *)
(***************************************************************************)
EXTENDS AddressQueue

CONSTANTS Threads, Addrs, Values

VARIABLES mem,    \* mem[a]: the value at address a
          queue,  \* the waiters
          call,   \* call[t]: the call t has made
          state   \* state[t]: how far it has come

vars == <<mem, queue, call, state>>

Init == /\ mem \in [Addrs -> Values]
        /\ queue = <<>>
        /\ state = [t \in Threads |-> "idle"]
        /\ \A t \in Threads : call[t].op = "none"

Become(t, s) == state' = [state EXCEPT ![t] = s]

Call(t) == /\ state[t] = "idle"
           /\ \/ Become(t, "waiting") /\ call'[t].op = "wait" /\ UNCHANGED mem
              \/ /\ Become(t, "waking") /\ call'[t].op \in {"wake_one", "wake_all"}
                 /\ \E v \in Values : mem' = [mem EXCEPT ![call'[t].addr] = v]
           /\ \A u \in Threads \ {t} : call'[u] = call[u]
           /\ UNCHANGED queue

Matches(t) == mem[call[t].addr] = call[t].cmp

Sleep(t) == /\ state[t] = "waiting" /\ Matches(t) /\ Become(t, "asleep")
            /\ queue' = Wait(queue, t, call[t].addr)
            /\ UNCHANGED <<mem, call>>

(* A wake takes waiters out, from the front.                               *)
Wake(w) ==
  /\ state[w] = "waking" /\ UNCHANGED <<mem, call>>
  /\ LET a == call[w].addr
         hit == On(queue, a) # {}
         one == call[w].op = "wake_one"
         u == queue[First(queue, a)].who
     IN  /\ queue' = WakeSingle(queue, a)
         /\ state' = [t \in Threads |->
                        IF t = w THEN IF hit /\ ~one THEN "waking" ELSE "done"
                        ELSE IF hit /\ t = u THEN "released" ELSE state[t]]

Return(t) ==
  /\ \/ state[t] = "waiting" /\ ~Matches(t)
     \/ state[t] \in {"asleep", "released", "done"}
  /\ Become(t, "idle") /\ call'[t].op = "none"
  /\ \A u \in Threads \ {t} : call'[u] = call[u]
  /\ queue' = Leave(queue, t)
  /\ UNCHANGED mem

Next == \E t \in Threads : Call(t) \/ Sleep(t) \/ Wake(t) \/ Return(t)

Spec == Init /\ [][Next]_vars
====
