---------------------------- MODULE HandleCache ----------------------------
(***************************************************************************)
(* How a process gets from a handle to the synchronization object it names *)
(* without asking wineserver: the reference-counted entries of             *)
(* inproc_sync_cache (dlls/ntdll/unix/sync.c), with WFUSync also the       *)
(* entries and kinds of wfusync_cache (dlls/ntdll/unix/wfusync.c), both    *)
(* filled by get_inproc_sync and emptied by NtClose, while the handle      *)
(* table itself is wineserver's (server/handle.c).                         *)
(*                                                                         *)
(* A call that names an object is "use" (NtSetEvent stands for all of      *)
(* them); it races with "close" (NtClose) and "dup" (NtDuplicateObject     *)
(* with DUPLICATE_CLOSE_SOURCE in one process) of its handle, and with     *)
(* "create" and "open", which may be given the number of a closed handle.  *)
(* Wfu says which system it is: TRUE for WFUSync, where a use works on the *)
(* shared word and reaches the reference-counted entry only to fill the    *)
(* caches, FALSE for ntsync, where it works on the entry's descriptor.     *)
(***************************************************************************)
EXTENDS Integers, FiniteSets

CONSTANTS Wfu,        \* do_wfusync() and no ntsync device, or the reverse
          Threads,    \* threads of the process
          Handles,    \* handles, by their index in the table
          Tags,       \* values of the two low bits the program puts into a handle
          Objects,    \* objects, by the index of their slot
          Foreign,    \* objects that another process keeps alive
          Fds,        \* numbers of unix file descriptors
          UshortSize, \* number of values of the C unsigned short
          CallsOf,    \* CallsOf[t]: the kinds of call thread t makes
          MaxCalls    \* bound: MaxCalls[t] calls made by thread t

Ops == {"use", "close", "dup", "create", "open"}

WfuAssumption == Wfu \in BOOLEAN
ThreadsAssumption == Threads \subseteq Nat \ {0} /\ IsFiniteSet(Threads)
HandlesAssumption == Handles \subseteq Nat \ {0}
ObjectsAssumption == Objects \subseteq Nat \ {0} /\ Foreign \subseteq Objects
FdsAssumption == Fds \subseteq Nat \ {0}
TagsAssumption == 0 \in Tags /\ Tags \subseteq 0..3
WidthAssumption == UshortSize \in Nat \ {0, 1}
CallsAssumption == CallsOf \in [Threads -> SUBSET Ops]
BoundAssumption == MaxCalls \in [Threads -> Nat]

(* What an instance must satisfy.                                         *)
Assumptions == /\ WfuAssumption /\ ThreadsAssumption /\ HandlesAssumption
               /\ ObjectsAssumption /\ FdsAssumption /\ TagsAssumption
               /\ WidthAssumption /\ CallsAssumption /\ BoundAssumption

VARIABLES table,    \* wineserver: table[h], the object and rights handle h stands for
          live,     \* wineserver: objects that exist
          refs,     \* wineserver: refs[o], refcount of the object's shared state
          made,     \* number of objects made, next_shm_idx
          cache,    \* inproc_sync_cache
          wf,       \* wfusync_cache
          kind,     \* wfusync_handle_kinds
          fds,      \* fds[d]: the object descriptor d stands for, 0 when closed
          mutex,    \* holder of fd_cache_mutex, 0 for none
          known,    \* handles the program holds and has not closed
          pc, call, left,
          loc,      \* locals of the call
          result    \* what a use came to

server == <<table, live, refs, made>>
caches == <<cache, wf, kind, fds>>
thread == <<pc, call, left, loc>>
vars == <<server, caches, mutex, known, thread, result>>

Nothing == [obj |-> 0, acc |-> FALSE, prot |-> FALSE]
NoCall == [op |-> "none", h |-> 0, tag |-> 0]
NoSync == [fd |-> 0, acc |-> FALSE]
NoLocals == [stack |-> NoSync, held |-> 0, saved |-> 0, obj |-> 0, woke |-> -1,
             cont |-> "idle", again |-> FALSE]
NoEntry == [ref |-> 0, fd |-> 0, acc |-> FALSE, closed |-> FALSE]
NoWf == [handle |-> -1, local |-> FALSE, valid |-> FALSE, obj |-> 0, acc |-> FALSE]
Pending == [what |-> "pending", obj |-> 0]
Outcomes == {"pending", "done", "invalid", "denied"}

Init == /\ table = [h \in Handles |-> Nothing] /\ live = {} /\ refs = [o \in Objects |-> 0] /\ made = 0
        /\ cache = [h \in Handles |-> NoEntry] /\ wf = [h \in Handles |-> NoWf]
        /\ kind = [h \in Handles |-> "unknown"] /\ fds = [d \in Fds |-> 0]
        /\ mutex = 0 /\ known = {}
        /\ pc = [t \in Threads |-> "idle"] /\ call = [t \in Threads |-> NoCall]
        /\ left = MaxCalls /\ loc = [t \in Threads |-> NoLocals]
        /\ result = [t \in Threads |-> Pending]

H(t) == call[t].h

(* The value of the handle as the program wrote it.                        *)
Value(t) == 4 * H(t) + call[t].tag

Goto(t, l) == pc' = [pc EXCEPT ![t] = l]
Keep(t, l) == loc' = [loc EXCEPT ![t] = l]
Move(t, from, to) == pc[t] = from /\ Goto(t, to) /\ UNCHANGED <<call, left>>

Finish(t, what, o) == result' = [result EXCEPT ![t] = [what |-> what, obj |-> o]]

---------------------------------------------------------------------------
(* Calls the program makes.  It names only handles it holds, and closes    *)
(* each once; another thread may be using the handle.                      *)

FirstStep(op) ==
  CASE op = "use" -> IF Wfu THEN "kind" ELSE "lookup"
    [] op \in {"close", "dup"} -> "enter"
    [] OTHER -> op

Begin(t, op, h, g) ==
  /\ pc[t] = "idle" /\ left[t] > 0 /\ op \in CallsOf[t]
  /\ IF op \in {"use", "close", "dup"} THEN h \in known ELSE h = 0 /\ g = 0
  /\ known' = IF op \in {"close", "dup"} THEN known \ {h} ELSE known
  /\ call' = [call EXCEPT ![t] = [op |-> op, h |-> h, tag |-> g]]
  /\ left' = [left EXCEPT ![t] = @ - 1]
  /\ Goto(t, FirstStep(op)) /\ Keep(t, NoLocals)
  /\ result' = [result EXCEPT ![t] = Pending]
  /\ UNCHANGED <<server, caches, mutex>>

(* Return to the program, with the handles in new.                         *)
Return(t, new) ==
  /\ Goto(t, "idle") /\ Keep(t, NoLocals) /\ UNCHANGED left
  /\ call' = [call EXCEPT ![t] = NoCall]
  /\ known' = known \cup new

Ends(t) == pc[t] = "return" /\ Return(t, {}) /\ UNCHANGED <<server, caches, mutex, result>>

---------------------------------------------------------------------------
(* wineserver's handle table.                                              *)

(* alloc_entry: the first free entry.                                      *)
alloc_entry(h) == /\ table[h].obj = 0
                  /\ \A i \in Handles : i < h => table[i].obj # 0

Open(t, h, entry) ==
  /\ alloc_entry(h)
  /\ table' = [table EXCEPT ![h] = entry]
  /\ call' = [call EXCEPT ![t].h = h]
  /\ Goto(t, "mark") /\ UNCHANGED left

(* NtCreateEvent: a new object in a slot of its own (alloc_state_slot).    *)
NtCreateEvent(t) ==
  /\ pc[t] = "create" /\ made + 1 \in Objects
  /\ \E h \in Handles : Open(t, h, [obj |-> made + 1, acc |-> TRUE, prot |-> FALSE])
  /\ made' = made + 1 /\ live' = live \cup {made + 1}
  /\ refs' = [refs EXCEPT ![made + 1] = 1]
  /\ UNCHANGED <<caches, mutex, known, loc, result>>

(* NtOpenEvent of an object that exists, with the rights it asks for.      *)
NtOpenEvent(t) ==
  /\ pc[t] = "open"
  /\ \E h \in Handles, o \in live, a, p \in BOOLEAN :
        Open(t, h, [obj |-> o, acc |-> a, prot |-> p])
  /\ UNCHANGED <<live, refs, made, caches, mutex, known, loc, result>>

(* No handle or no object left: the call fails.                            *)
OpenFails(t) ==
  /\ \/ pc[t] = "create" /\ made + 1 \notin Objects
     \/ pc[t] = "open" /\ live = {}
     \/ pc[t] \in {"create", "open"} /\ \A h \in Handles : table[h].obj # 0
  /\ Return(t, {})
  /\ UNCHANGED <<server, caches, mutex, result>>

(* release_object: an object without a handle goes, and with it its        *)
(* shared state (wfusync_destroy).                                         *)
release_object(tab, o) ==
  IF o \in Foreign \/ \E h \in Handles : tab[h].obj = o
  THEN UNCHANGED <<live, refs>>
  ELSE live' = live \ {o} /\ refs' = [refs EXCEPT ![o] = (@ - 1) % UshortSize]

(* close_handle of wineserver.                                             *)
close_handle(t) ==
  /\ pc[t] = "close_req" /\ call[t].op = "close" /\ Goto(t, "leave")
  /\ IF table[H(t)].obj = 0 \/ table[H(t)].prot
     THEN UNCHANGED <<table, live, refs>>
     ELSE /\ table' = [table EXCEPT ![H(t)] = Nothing]
          /\ release_object(table', table[H(t)].obj)
  /\ known' = IF table[H(t)].prot THEN known \cup {H(t)} ELSE known
  /\ UNCHANGED <<made, caches, mutex, call, left, loc, result>>

(* duplicate_handle: rights the handle has are kept in place, more rights  *)
(* or a protected handle need a new entry.                                 *)
InPlace(h, a) == (a => table[h].acc) /\ ~table[h].prot

dup_handle(t) ==
  /\ pc[t] = "close_req" /\ call[t].op = "dup" /\ Goto(t, "leave")
  /\ \E a \in BOOLEAN :
        LET old == table[H(t)]
            new == [obj |-> old.obj, acc |-> a, prot |-> FALSE]
        IN  \/ /\ old.obj = 0
               /\ UNCHANGED <<table, live, refs, known>>
            \/ /\ old.obj # 0 /\ InPlace(H(t), a)
               /\ table' = [table EXCEPT ![H(t)] = new]
               /\ known' = known \cup {H(t)}
               /\ UNCHANGED <<live, refs>>
            \/ /\ old.obj # 0 /\ ~InPlace(H(t), a)
               /\ \E h \in Handles :
                     /\ alloc_entry(h)
                     /\ table' = [table EXCEPT ![h] = new,
                                               ![H(t)] = IF old.prot THEN old ELSE Nothing]
                     /\ known' = known \cup {h} \cup (IF old.prot THEN {H(t)} ELSE {})
               /\ UNCHANGED <<live, refs>>
            \/ /\ old.obj # 0 /\ ~InPlace(H(t), a) /\ \A h \in Handles : table[h].obj # 0
               /\ table' = IF old.prot THEN table ELSE [table EXCEPT ![H(t)] = Nothing]
               /\ known' = IF old.prot THEN known \cup {H(t)} ELSE known
               /\ release_object(table', old.obj)
  /\ UNCHANGED <<made, caches, mutex, call, left, loc, result>>

---------------------------------------------------------------------------
(* The reference-counted entries: get_inproc_sync, close_inproc_sync.      *)

Closing(t) == call[t].op \in {"close", "dup"}

(* Where the caller of get_cached_inproc_sync goes when it returns NULL.   *)
Missed(t) == IF Closing(t) THEN "close_req" ELSE IF mutex = t THEN "request" ELSE "enter"

(* get_cached_inproc_sync: the reference is taken only when there is one.  *)
interlocked_inc_if_nonzero(t) ==
  /\ pc[t] = "lookup"
  /\ IF cache[H(t)].ref = 0
     THEN Goto(t, Missed(t)) /\ UNCHANGED <<cache, loc>>
     ELSE /\ cache' = [cache EXCEPT ![H(t)].ref = @ + 1]
          /\ Goto(t, "check") /\ Keep(t, [loc[t] EXCEPT !.held = 1])
  /\ UNCHANGED <<server, wf, kind, fds, mutex, known, call, left, result>>

(* ... and given back when the handle it was taken through is closed.      *)
(* Mutant: a closed entry is used like an open one. *)
Refused_never(t) == FALSE
Refused(t) == cache[H(t)].closed

check_closed(t) ==
  /\ pc[t] = "check"
  /\ IF Refused(t) THEN Goto(t, "dec") /\ Keep(t, [loc[t] EXCEPT !.cont = Missed(t)])
     ELSE IF Closing(t) THEN Goto(t, "set_closed") /\ UNCHANGED loc
     ELSE /\ Goto(t, IF mutex = t THEN "leave" ELSE "have")
          /\ Keep(t, [loc[t] EXCEPT !.cont = "have"])
  /\ UNCHANGED <<server, caches, mutex, known, call, left, result>>

(* fd_cache_mutex.                                                         *)
enter_section(t) ==
  /\ mutex = 0 /\ mutex' = t
  /\ Move(t, "enter", IF Closing(t) /\ Wfu THEN "drop_kind" ELSE "lookup")
  /\ UNCHANGED <<server, caches, known, loc, result>>

leave_section(t) ==
  /\ mutex' = 0
  /\ Move(t, "leave", IF Closing(t) THEN "return" ELSE loc[t].cont)
  /\ UNCHANGED <<server, caches, known, loc, result>>

(* get_server_inproc_sync: wineserver takes a reference of the shared      *)
(* state for the process and sends a descriptor, the lowest free number.   *)
get_server_inproc_sync(t) ==
  /\ pc[t] = "request" /\ UNCHANGED <<table, live, made, cache, wf, kind, mutex, known, call, left>>
  /\ \/ /\ table[H(t)].obj = 0
        /\ Goto(t, "leave") /\ UNCHANGED <<refs, fds>>
        /\ Keep(t, [loc[t] EXCEPT !.cont = IF Wfu THEN "server" ELSE "return"])
        /\ IF Wfu THEN UNCHANGED result ELSE Finish(t, "invalid", 0)
     \/ \E d \in Fds :
        /\ table[H(t)].obj # 0 /\ fds[d] = 0 /\ \A e \in Fds : e < d => fds[e] # 0
        /\ refs' = IF Wfu THEN [refs EXCEPT ![table[H(t)].obj] = (@ + 1) % UshortSize] ELSE refs
        /\ fds' = [fds EXCEPT ![d] = table[H(t)].obj]
        /\ Keep(t, [loc[t] EXCEPT !.stack = [fd |-> d, acc |-> table[H(t)].acc], !.cont = "have"])
        /\ Goto(t, "receive") /\ UNCHANGED result

(* wfusync_cache_inproc_sync, on the way.                                  *)
wfusync_cache_inproc_sync(t) ==
  /\ Move(t, "receive", "insert")
  /\ IF ~Wfu THEN UNCHANGED <<wf, kind>>
     ELSE /\ wf' = [wf EXCEPT ![H(t)] =
                [handle |-> Value(t), local |-> wf[H(t)].handle = Value(t) /\ wf[H(t)].local,
                 valid |-> TRUE, obj |-> fds[loc[t].stack.fd], acc |-> loc[t].stack.acc]]
          /\ kind' = [kind EXCEPT ![H(t)] = "event"]
  /\ UNCHANGED <<server, cache, fds, mutex, known, loc, result>>

(* cache_inproc_sync: not while an earlier object's entry is in use.       *)
(* Mutant: an entry in use is overwritten. *)
InUse_never(t) == FALSE
InUse(t) == cache[H(t)].ref # 0

cache_inproc_sync(t) ==
  /\ pc[t] = "insert"
  /\ IF InUse(t) THEN Goto(t, "leave") /\ UNCHANGED cache
     ELSE /\ cache' = [cache EXCEPT ![H(t)] =
                [ref |-> @.ref, fd |-> loc[t].stack.fd, acc |-> loc[t].stack.acc, closed |-> FALSE]]
          /\ Goto(t, "publish")
  /\ UNCHANGED <<server, wf, kind, fds, mutex, known, call, left, loc, result>>

(* One reference for the handle, one for the caller.                       *)
publish(t) ==
  /\ Move(t, "publish", "leave")
  /\ cache' = [cache EXCEPT ![H(t)].ref = 2]
  /\ Keep(t, [loc[t] EXCEPT !.stack = NoSync, !.held = 1])
  /\ UNCHANGED <<server, wf, kind, fds, mutex, known, result>>

(* The struct get_inproc_sync returned.                                    *)
Sync(t) == IF loc[t].held > 0 THEN [fd |-> cache[H(t)].fd, acc |-> cache[H(t)].acc] ELSE loc[t].stack

(* The rights are checked; WFUSync only wanted the caches filled.          *)
get_inproc_sync(t) ==
  /\ pc[t] = "have"
  /\ IF Sync(t).acc /\ ~Wfu THEN Goto(t, "act") /\ UNCHANGED <<loc, result>>
     ELSE /\ Goto(t, "dec")
          /\ Keep(t, [loc[t] EXCEPT !.cont = IF ~Wfu THEN "return" ELSE IF Sync(t).acc THEN "kind" ELSE "server",
                                    !.again = TRUE])
          /\ IF Wfu THEN UNCHANGED result ELSE Finish(t, "denied", 0)
  /\ UNCHANGED <<server, caches, mutex, known, call, left>>

(* The ioctl on the descriptor (linux_set_event_obj and its like).         *)
act(t) ==
  /\ Move(t, "act", "dec")
  /\ Keep(t, [loc[t] EXCEPT !.cont = "return"])
  /\ Finish(t, "done", fds[Sync(t).fd])
  /\ UNCHANGED <<server, caches, mutex, known>>

(* release_inproc_sync: the descriptor is read before the decrement, and   *)
(* closed by whoever takes the count to zero.                              *)
release_inproc_sync(t) ==
  /\ pc[t] = "dec"
  /\ IF loc[t].held = 0
     THEN /\ Goto(t, "close_fd") /\ UNCHANGED cache
          /\ Keep(t, [loc[t] EXCEPT !.saved = loc[t].stack.fd, !.stack = NoSync])
     ELSE /\ cache' = [cache EXCEPT ![H(t)].ref = @ - 1]
          /\ Keep(t, [loc[t] EXCEPT !.saved = IF cache[H(t)].ref = 1 THEN cache[H(t)].fd ELSE 0,
                                    !.held = @ - 1])
          /\ Goto(t, IF cache[H(t)].ref = 1 THEN "close_fd"
                     ELSE IF loc[t].held = 2 THEN "dec" ELSE loc[t].cont)
  /\ UNCHANGED <<server, wf, kind, fds, mutex, known, call, left, result>>

(* Mutant: the descriptor is read after the decrement. *)
ToClose_late(t) == cache[H(t)].fd
ToClose(t) == loc[t].saved

close_fd(t) ==
  /\ pc[t] = "close_fd"
  /\ fds' = [fds EXCEPT ![ToClose(t)] = 0]
  /\ Keep(t, [loc[t] EXCEPT !.saved = 0])
  /\ Goto(t, IF loc[t].held > 0 THEN "dec" ELSE loc[t].cont)
  /\ UNCHANGED <<server, cache, wf, kind, mutex, known, call, left, result>>

(* close_inproc_sync: once for the reference just taken, once for the      *)
(* handle.                                                                 *)
(* Mutant: only the reference just taken is released. *)
ToRelease_one == 1
ToRelease == 2

close_inproc_sync(t) ==
  /\ Move(t, "set_closed", "dec")
  /\ cache' = [cache EXCEPT ![H(t)].closed = TRUE]
  /\ Keep(t, [loc[t] EXCEPT !.held = ToRelease, !.cont = "close_req"])
  /\ UNCHANGED <<server, wf, kind, fds, mutex, known, result>>

---------------------------------------------------------------------------
(* The cache of WFUSync.                                                   *)

(* wfusync_mark_local_event: the event came from this process.             *)
wfusync_mark_local_event(t) ==
  /\ pc[t] = "mark"
  /\ IF ~Wfu THEN UNCHANGED <<wf, kind>>
     ELSE /\ wf' = [wf EXCEPT ![H(t)] =
                [IF wf[H(t)].handle = Value(t) THEN wf[H(t)] ELSE NoWf
                   EXCEPT !.handle = Value(t), !.local = TRUE]]
          /\ kind' = [kind EXCEPT ![H(t)] = "event"]
  /\ Return(t, {H(t)})
  /\ UNCHANGED <<server, cache, fds, mutex, result>>

(* wfusync_drop_handle: the kind first, then the entry under its lock.     *)
drop_kind(t) ==
  /\ Move(t, "drop_kind", "drop")
  /\ kind' = [kind EXCEPT ![H(t)] = "unknown"]
  /\ UNCHANGED <<server, cache, wf, fds, mutex, known, loc, result>>

(* Mutant: the entry is left in place. *)
Dropped_never(t) == FALSE
Dropped(t) == wf[H(t)].handle = Value(t)

wfusync_drop_handle(t) ==
  /\ Move(t, "drop", "lookup")
  /\ wf' = IF Dropped(t) THEN [wf EXCEPT ![H(t)] = NoWf] ELSE wf
  /\ UNCHANGED <<server, cache, kind, fds, mutex, known, loc, result>>

(* What NtSetEvent does after STATUS_NOT_IMPLEMENTED: warm the cache once, *)
(* then ask wineserver.                                                    *)
NotImplemented(t) == IF loc[t].again THEN "server" ELSE "warm"

wfusync_handle_kind_matches(t) ==
  /\ Move(t, "kind", IF kind[H(t)] = "event" THEN "entry" ELSE NotImplemented(t))
  /\ UNCHANGED <<server, caches, mutex, known, loc, result>>

(* get_local_event_state_locked; an object with waiters in wineserver is   *)
(* left to it.                                                             *)
Usable(t) == wf[H(t)].local /\ wf[H(t)].valid /\ wf[H(t)].handle = Value(t)

get_local_event_state_locked(t) ==
  /\ pc[t] = "entry"
  /\ \/ ~Usable(t) /\ Goto(t, NotImplemented(t)) /\ UNCHANGED <<loc, result>>
     \/ Usable(t) /\ ~wf[H(t)].acc /\ Goto(t, "return") /\ Finish(t, "denied", 0) /\ UNCHANGED loc
     \/ Usable(t) /\ wf[H(t)].acc /\ Goto(t, NotImplemented(t)) /\ UNCHANGED <<loc, result>>
     \/ /\ Usable(t) /\ wf[H(t)].acc /\ Goto(t, "word") /\ UNCHANGED result
        /\ Keep(t, [loc[t] EXCEPT !.obj = wf[H(t)].obj])
  /\ UNCHANGED <<server, caches, mutex, known, call, left>>

(* The critical section of the word (WfuObject).  wineserver changes type  *)
(* and generation of the word of an object that is gone; a waiter may have *)
(* come.                                                                   *)
wfusync_set_event(t) ==
  /\ pc[t] = "word"
  /\ \/ Goto(t, NotImplemented(t)) /\ UNCHANGED result
     \/ loc[t].obj \in live /\ Finish(t, "done", loc[t].obj) /\ Goto(t, "wake")
  /\ UNCHANGED <<server, caches, mutex, known, call, left, loc>>

(* After the word is unlocked: a multi-waiter may have registered for it.  *)
(* Which object's waiters wineserver is told to wake is read from the      *)
(* entry, whose lock is not held.                                          *)
wfusync_wake_waiters(t) ==
  /\ Move(t, "wake", "return")
  /\ \/ Keep(t, [loc[t] EXCEPT !.woke = wf[H(t)].obj])
     \/ UNCHANGED loc
  /\ UNCHANGED <<server, caches, mutex, known, result>>

(* warm_wfusync_event_cache.                                               *)
warm_wfusync_event_cache(t) ==
  /\ \/ Move(t, "warm", IF kind[H(t)] = "event" THEN "cached_state" ELSE "server")
     \/ Move(t, "cached_state", IF wf[H(t)].valid /\ wf[H(t)].handle = Value(t) THEN "server" ELSE "lookup")
  /\ UNCHANGED <<server, caches, mutex, known, loc, result>>

(* event_op, on the object the handle names now.                           *)
event_op(t) ==
  /\ Move(t, "server", "return")
  /\ LET e == table[H(t)]
     IN  Finish(t, IF e.obj = 0 THEN "invalid" ELSE IF e.acc THEN "done" ELSE "denied",
                IF e.obj # 0 /\ e.acc THEN e.obj ELSE 0)
  /\ UNCHANGED <<server, caches, mutex, known, loc>>

---------------------------------------------------------------------------
Program(t) == \E op \in Ops, h \in Handles \cup {0}, g \in Tags : Begin(t, op, h, g)

Lookup(t) == \/ interlocked_inc_if_nonzero(t) \/ check_closed(t)
             \/ enter_section(t) \/ leave_section(t)
             \/ get_server_inproc_sync(t) \/ wfusync_cache_inproc_sync(t)
             \/ cache_inproc_sync(t) \/ publish(t) \/ get_inproc_sync(t)

Release(t) == release_inproc_sync(t) \/ close_fd(t) \/ close_inproc_sync(t)

FastPath(t) == \/ wfusync_handle_kind_matches(t) \/ get_local_event_state_locked(t)
               \/ wfusync_set_event(t) \/ wfusync_wake_waiters(t)
               \/ warm_wfusync_event_cache(t) \/ event_op(t)

Closes(t) == drop_kind(t) \/ wfusync_drop_handle(t) \/ close_handle(t) \/ dup_handle(t)

Opens(t) == NtCreateEvent(t) \/ NtOpenEvent(t) \/ OpenFails(t) \/ wfusync_mark_local_event(t)

Step(t) == Lookup(t) \/ Release(t) \/ act(t) \/ FastPath(t) \/ Closes(t) \/ Opens(t) \/ Ends(t)

Next == \E t \in Threads : Program(t) \/ Step(t)

Spec == Init /\ [][Next]_vars

(* A thread that can go on does; the section is entered by each thread     *)
(* that waits for it, since each holder leaves it.                         *)
Fairness == \A t \in Threads : WF_vars(Step(t)) /\ SF_vars(enter_section(t))
LiveSpec == Spec /\ Fairness

---------------------------------------------------------------------------
(* Properties.                                                             *)

Labels == {"idle", "return", "create", "open", "mark", "enter", "leave", "lookup", "check", "request",
           "receive", "insert", "publish", "have", "act", "dec", "close_fd", "set_closed", "close_req",
           "drop_kind", "drop", "kind", "entry", "word", "wake", "warm", "cached_state", "server"}

(* Types; the assertions of cache_inproc_sync and release_inproc_sync that *)
(* a published entry had no references and that the count never goes below *)
(* zero are the conjuncts on publish and on ref.                           *)
TypeOK ==
  /\ table \in [Handles -> [obj : Objects \cup {0}, acc : BOOLEAN, prot : BOOLEAN]]
  /\ live \subseteq Objects /\ made \in Nat
  /\ refs \in [Objects -> 0 .. UshortSize - 1]
  /\ cache \in [Handles -> [ref : Nat, fd : Fds \cup {0}, acc : BOOLEAN, closed : BOOLEAN]]
  /\ wf \in [Handles -> [handle : Int, local : BOOLEAN, valid : BOOLEAN,
                         obj : Objects \cup {0}, acc : BOOLEAN]]
  /\ kind \in [Handles -> {"unknown", "event"}]
  /\ fds \in [Fds -> Objects \cup {0}]
  /\ mutex \in Threads \cup {0} /\ known \subseteq Handles
  /\ pc \in [Threads -> Labels]
  /\ call \in [Threads -> [op : Ops \cup {"none"}, h : Handles \cup {0}, tag : Tags]]
  /\ left \in [Threads -> Nat]
  /\ loc \in [Threads -> [stack : [fd : Fds \cup {0}, acc : BOOLEAN], held : 0..2, saved : Fds \cup {0},
                          obj : Objects \cup {0}, woke : Objects \cup {-1, 0}, cont : Labels, again : BOOLEAN]]
  /\ result \in [Threads -> [what : Outcomes, obj : Objects \cup {0}]]
  /\ \A t \in Threads : pc[t] = "publish" => cache[H(t)].ref = 0

(* An entry's count is its references: one for a handle that is not        *)
(* closed, and those the threads have yet to release.  A closed entry is   *)
(* not kept for good, so the handle can be cached again.                   *)
Holders(h) == {t \in Threads : H(t) = h /\ loc[t].held >= 1}
Closers(h) == {t \in Threads : H(t) = h /\ loc[t].held = 2}
ReferencesHeld ==
  \A h \in Handles :
     cache[h].ref = Cardinality(Holders(h)) + Cardinality(Closers(h))
                    + IF cache[h].ref > 0 /\ ~cache[h].closed THEN 1 ELSE 0

(* Every open descriptor has one owner, which will close it, and no owner  *)
(* has a closed one: close( fd ) of release_inproc_sync never closes a     *)
(* number the kernel has given to something else, and none is leaked.      *)
Owners == ({"entry"} \X Handles) \cup ({"stack", "closer"} \X Threads)
Owns(p, d) == CASE p[1] = "entry" -> cache[p[2]].ref > 0 /\ cache[p[2]].fd = d
                [] p[1] = "stack" -> loc[p[2]].stack.fd = d
                [] p[1] = "closer" -> loc[p[2]].saved = d
FdOwnership ==
  \A d \in Fds : /\ fds[d] # 0 <=> \E p \in Owners : Owns(p, d)
                 /\ \A p, q \in Owners : Owns(p, d) /\ Owns(q, d) => p = q

(* Without WFUSync's cache or with it, a use of a handle works on what the *)
(* handle stood for during the call (comment of get_cached_inproc_sync:    *)
(* "in which case we have to report that valid object").                   *)
Settled(t) ==
  IF call[t].op # "use" THEN [obj |-> 0, acc |-> FALSE]
  ELSE IF \/ pc[t] \in {"receive", "insert", "publish", "have", "act"}
          \/ pc[t] = "leave" /\ loc[t].cont = "have"
  THEN [obj |-> fds[Sync(t).fd], acc |-> Sync(t).acc]
  ELSE IF pc[t] = "word" THEN [obj |-> loc[t].obj, acc |-> TRUE]
  ELSE [obj |-> 0, acc |-> FALSE]

Nt == INSTANCE NtHandles WITH
        table <- [h \in Handles |-> [obj |-> table[h].obj, acc |-> table[h].acc]],
        asked <- [t \in Threads |-> IF call[t].op = "use" THEN H(t) ELSE 0],
        found <- [t \in Threads |-> Settled(t)]
(* What wfusync_cache says of a handle is what wineserver's table says of  *)
(* it, until wfusync_drop_handle has cleared it (the comment of            *)
(* get_inproc_sync: fd_cache_mutex is to "prevent the object from being    *)
(* cached again between close_inproc_sync() and close_handle").            *)
WfuCacheCoherent ==
  \A h \in Handles : wf[h].local /\ wf[h].valid => wf[h].obj = table[h].obj

(* A handle that is open, marked as an event of this process and found in  *)
(* wfusync_cache is not taken for another object (sync.c of a handle that  *)
(* was reused: "we have to report that valid object").                     *)
WfuReportsValidObject ==
  \A h \in known : kind[h] = "event" /\ wf[h].local /\ wf[h].valid => wf[h].obj = table[h].obj

(* wake_wfusync_waiters is sent for the object that was signaled           *)
(* (protocol.def: "Wake WFUSync WaitAny wait slots for a signaled object").*)
WakesWhatItSignaled ==
  \A t \in Threads : pc[t] = "return" /\ loc[t].woke # -1 => loc[t].woke = result[t].obj

(* The reference count in the shared state of an object that exists is not *)
(* zero: the assertion of wfusync_grab_object and wfusync_destroy.         *)
RefcountHeld == \A o \in live : refs[o] # 0

====
