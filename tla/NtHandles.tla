----------------------------- MODULE NtHandles -----------------------------
(***************************************************************************)
(* What a handle promises to the calls that use it: a call works on an     *)
(* object that its handle stood for at some moment of the call, with the   *)
(* rights the handle had at that moment, however many threads close and    *)
(* open handles meanwhile, and it fails only if at such a moment the       *)
(* handle stood for nothing or lacked the right.                           *)
(***************************************************************************)
CONSTANTS Threads, Handles, Objects

VARIABLES table,  \* table[h]: object and rights of handle h
          asked,  \* asked[t]: the handle t's call uses, 0 when there is none
          found,  \* found[t]: the object and rights the call has settled on
          result  \* result[t]: what the call came to

vars == <<table, asked, found, result>>

NotFound == [obj |-> 0, acc |-> FALSE]
Pending == [what |-> "pending", obj |-> 0]
Closed == [obj |-> 0, acc |-> FALSE]

Init == /\ table = [h \in Handles |-> Closed]
        /\ asked = [t \in Threads |-> 0]
        /\ found = [t \in Threads |-> NotFound]
        /\ result = [t \in Threads |-> Pending]

Outcome(e) == IF e.obj = 0 THEN [what |-> "invalid", obj |-> 0]
              ELSE IF ~e.acc THEN [what |-> "denied", obj |-> 0]
              ELSE [what |-> "done", obj |-> e.obj]

Begin(t) == /\ asked[t] = 0
            /\ \E h \in Handles : asked' = [asked EXCEPT ![t] = h]
            /\ result' = [result EXCEPT ![t] = Pending]
            /\ UNCHANGED <<table, found>>

(* Settle on what the handle stands for now, or forget it to look again.   *)
Find(t) == /\ asked[t] # 0 /\ result[t] = Pending
           /\ found' = [found EXCEPT ![t] = [obj |-> table[asked[t]].obj, acc |-> table[asked[t]].acc]]
           /\ UNCHANGED <<table, asked, result>>

Forget(t) == found' = [found EXCEPT ![t] = NotFound] /\ UNCHANGED <<table, asked, result>>

Work(t) == /\ asked[t] # 0 /\ result[t] = Pending
           /\ \/ found[t].obj # 0 /\ result' = [result EXCEPT ![t] = Outcome(found[t])]
              \/ result' = [result EXCEPT ![t] = Outcome(table[asked[t]])]
           /\ found' = [found EXCEPT ![t] = NotFound]
           /\ UNCHANGED <<table, asked>>

End(t) == /\ asked[t] # 0 /\ result[t] # Pending
          /\ asked' = [asked EXCEPT ![t] = 0]
          /\ UNCHANGED <<table, found, result>>

(* Calls that open, duplicate or close handles.                            *)
Change == /\ \E S \in SUBSET Handles :
                /\ \A h \in Handles \ S : table'[h] = table[h]
                /\ \A h \in S : table'[h] = Closed \/ table'[h].obj \in Objects
          /\ UNCHANGED <<asked, found, result>>

(* A call that is not a use clears the result of the last one.             *)
Other(t) == /\ asked[t] = 0 /\ result' = [result EXCEPT ![t] = Pending]
            /\ UNCHANGED <<table, asked, found>>

Next == Change \/ \E t \in Threads : Begin(t) \/ Find(t) \/ Forget(t) \/ Work(t) \/ End(t) \/ Other(t)

Spec == Init /\ [][Next]_vars
====
