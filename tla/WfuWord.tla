------------------------------ MODULE WfuWord ------------------------------
(***************************************************************************)
(* The shared state word of a WFUSync object (struct wfusync_state of      *)
(* server/wfusync.c, struct wfusync_shared_state of                        *)
(* dlls/ntdll/unix/wfusync.h) and what the operations compute on it.       *)
(* The 16-bit type field is split into the object type and its three       *)
(* flag bits LOCKED, SERVER_WAITERS and MULTI_WAITERS.                     *)
(*                                                                         *)
(*   event      low = signaled            high = manual reset              *)
(*   semaphore  low = count               high = maximum                   *)
(*   mutex      low = owner tid, 0 when free, -tid when abandoned by tid   *)
(*              high = recursion count                                     *)
(***************************************************************************)
EXTENDS Integers

CONSTANTS Kind,      \* which object: "auto" or "manual" event, "semaphore", "mutex"
          Threads,   \* thread ids
          IntMax,    \* INT_MAX of the C int
          UlongSize  \* number of values of the C unsigned int

ASSUME KindAssumption == Kind \in {"auto", "manual", "semaphore", "mutex"}
ASSUME ThreadsAssumption == Threads \subseteq Nat \ {0}
ASSUME WidthAssumption == IntMax \in Nat \ {0} /\ UlongSize = 2 * (IntMax + 1)

Event == Kind \in {"auto", "manual"}
Mutex == Kind = "mutex"
Semaphore == Kind = "semaphore"

Word == [low : Int, high : Int, generation : Nat, type : {Kind, "unknown"},
         locked : BOOLEAN, server : BOOLEAN, multi : BOOLEAN]

(* create_wfusync: the word of a new object.                               *)
create_wfusync(low, high) ==
  [low |-> low, high |-> high, generation |-> 1, type |-> Kind,
   locked |-> FALSE, server |-> FALSE, multi |-> FALSE]

(* wfusync_has_server_waiters of the client tests both flags.              *)
HasWaiters(w) == w.server \/ w.multi

(* Can thread t's wait be satisfied now?                                   *)
Signaled(w, t) ==
  IF Mutex THEN w.low = 0 \/ w.low = t \/ w.low < 0 ELSE w.low > 0

(* wfusync_state_signaled: the same question asked for no thread.          *)
StateSignaled(w) == IF Mutex THEN w.low <= 0 ELSE w.low > 0

(* count + 1 in a C int.                                                   *)
Inc(n) == IF n = IntMax THEN -IntMax - 1 ELSE n + 1

(* Mutant: every event is reset by a wait.                                 *)
Consumed_resets(w, t) ==
  CASE Kind \in {"auto", "manual"} -> [w EXCEPT !.low = 0]
    [] Kind = "semaphore" -> [w EXCEPT !.low = @ - 1]
    [] Kind = "mutex" -> [w EXCEPT !.low = t, !.high = 1]

(* The word after thread t's wait has been satisfied (t is Signaled).      *)
Consumed(w, t) ==
  CASE Kind = "auto" -> [w EXCEPT !.low = 0]
    [] Kind = "manual" -> w
    [] Kind = "semaphore" -> [w EXCEPT !.low = @ - 1]
    [] Kind = "mutex" ->
         IF w.low = t THEN [w EXCEPT !.high = Inc(@)]
         ELSE [w EXCEPT !.low = t, !.high = 1,
                        !.generation = IF w.low < 0 THEN @ + 1 ELSE @]

(* Mutant: STATUS_ABANDONED is not reported.                               *)
ConsumedStatus_silent(w) == "success"

ConsumedStatus(w) == IF Mutex /\ w.low < 0 THEN "abandoned" ELSE "success"

(* The new count of a semaphore released by n, in unsigned arithmetic.     *)
Sum(w, n) == (w.low + n) % UlongSize

(* Mutant: no test for the wrap-around of the sum.                         *)
ReleaseRefused_wraps(w, t, n) ==
  CASE Event -> FALSE
    [] Semaphore -> Sum(w, n) > w.high
    [] Mutex -> w.low # t \/ w.high = 0

(* STATUS_SEMAPHORE_LIMIT_EXCEEDED and STATUS_MUTANT_NOT_OWNED.            *)
ReleaseRefused(w, t, n) ==
  CASE Event -> FALSE
    [] Semaphore -> Sum(w, n) < w.low \/ Sum(w, n) > w.high
    [] Mutex -> w.low # t \/ w.high = 0

(* The word after SetEvent, ReleaseSemaphore(n) or ReleaseMutant.          *)
Released(w, n) ==
  CASE Event -> [w EXCEPT !.low = 1]
    [] Semaphore -> [w EXCEPT !.low = Sum(w, n)]
    [] Mutex -> IF w.high > 1 THEN [w EXCEPT !.high = @ - 1]
                ELSE [w EXCEPT !.low = 0, !.high = 0]

(* Does the release of w have to wake sleepers?  (!previous, !old_count,   *)
(* recursion count not above 1)                                            *)
ReleaseWakes(w) == IF Mutex THEN w.high <= 1 ELSE w.low = 0

(* Mutant: a manual-reset event wakes one sleeper.                         *)
WakesAll_never(n) == Semaphore /\ n > 1

(* Does the wake reach every sleeper, or one of them?                      *)
WakesAll(n) == Kind = "manual" \/ (Semaphore /\ n > 1)

(* Mutant: a mutex taken twice is not abandoned.                           *)
Owns_once(w, t) == Mutex /\ w.low = t /\ w.high = 1

(* wfusync_abandon_mutex of the dying thread t.                            *)
Owns(w, t) == Mutex /\ w.low = t /\ w.high # 0
Abandoned(w, t) == [w EXCEPT !.low = -t, !.high = 0, !.generation = @ + 1]
=============================================================================
