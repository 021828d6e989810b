--------------------------- MODULE ThreadLocals ---------------------------
(***************************************************************************)
(* What a thread has of its own: the id ThreadIdGuard registers for it     *)
(* (port/detail/ThreadIdGuard.cpp), the objects made by init_thread_local  *)
(* (port/thread_local), and its cell of a ThreadLocalStorage, through      *)
(* ThreadSafeCounter.h.  ThreadPthread::run_thread orders them: the guard  *)
(* is constructed, the function runs, clear_thread_locals destroys the     *)
(* objects, the guard is destroyed.                                        *)
(*                                                                         *)
(* The thread-local object of the model counts itself, as the caches of    *)
(* the code do: its construction adds 1 to the counter, its destruction    *)
(* takes 1 away, each in the cell of the thread's id at that moment.       *)
(***************************************************************************)
EXTENDS Integers, FiniteSets, FiniteSetsExt

CONSTANTS Threads, MaxThreadId,   \* cells 0..MaxThreadId - 1 (ThreadLocalStorage: 128)
          Slots,                  \* thread_local pointers (raw_ptr)
          MaxStarts               \* thread starts in a behaviour

VARIABLES unused_thread_ids_, max_thread_id_,   \* ThreadIdManager
          thread_id_,   \* of each thread, 0 when it has none
          state,        \* of each thread: "out", "run", "clear"
          raw_ptr,      \* raw_ptr[t]: its slots that are not null
          destructors,  \* thread_local_destructors of each thread: slots, in order
          cells,        \* tls_: the counter's cell of each id
          sum,          \* sum: [next: cell to read, res, low: the counter when it began]
          total,        \* history: what has been added, less what was taken away
          starts

vars == <<unused_thread_ids_, max_thread_id_, thread_id_, state, raw_ptr, destructors, cells, sum, total, starts>>
ids == <<unused_thread_ids_, max_thread_id_, thread_id_, state, starts>>
locals == <<raw_ptr, destructors>>
Ids == 0..(MaxThreadId - 1)
NoSum == [next |-> 0, res |-> 0, low |-> 0, drop |-> 0]

Init == /\ unused_thread_ids_ = {} /\ max_thread_id_ = 0
        /\ thread_id_ = [t \in Threads |-> 0] /\ state = [t \in Threads |-> "out"]
        /\ raw_ptr = [t \in Threads |-> {}] /\ destructors = [t \in Threads |-> {}]
        /\ cells = [i \in Ids |-> 0] /\ sum = NoSum /\ total = 0 /\ starts = 0

\* register_thread and set_thread_id, at the start of run_thread
Start(t) ==
  /\ state[t] = "out" /\ starts < MaxStarts
  /\ LET id == IF unused_thread_ids_ = {} THEN max_thread_id_ + 1 ELSE Min(unused_thread_ids_)
     IN  /\ thread_id_' = [thread_id_ EXCEPT ![t] = id]
         /\ max_thread_id_' = IF unused_thread_ids_ = {} THEN id ELSE max_thread_id_
         /\ unused_thread_ids_' = unused_thread_ids_ \ {id}
  /\ state' = [state EXCEPT ![t] = "run"] /\ starts' = starts + 1
  /\ UNCHANGED <<locals, cells, sum, total>>

\* ThreadSafeMultiCounter::add
add(t, diff) == /\ cells' = [cells EXCEPT ![thread_id_[t]] = @ + diff]
                /\ total' = total + diff
                /\ sum' = IF diff < 0 THEN [sum EXCEPT !.drop = @ - diff] ELSE sum

\* init_thread_local: nothing when the pointer is set.  clear_thread_locals
\* CHECKs that no destructor calls it.
InitLocal(t, s) ==
  /\ state[t] = "run" /\ s \notin raw_ptr[t]
  /\ raw_ptr' = [raw_ptr EXCEPT ![t] = @ \cup {s}]
  /\ destructors' = [destructors EXCEPT ![t] = @ \cup {s}]
  /\ add(t, 1) /\ UNCHANGED ids

\* clear_thread_locals: one destructor of the list
Destroy(t) ==
  /\ state[t] = "clear"
  /\ \E s \in destructors[t]:
       /\ destructors' = [destructors EXCEPT ![t] = @ \ {s}]
       /\ raw_ptr' = [raw_ptr EXCEPT ![t] = @ \ {s}]
  /\ add(t, -1) /\ UNCHANGED ids

Finish(t) == /\ state[t] = "run" /\ state' = [state EXCEPT ![t] = "clear"]
             /\ UNCHANGED <<unused_thread_ids_, max_thread_id_, thread_id_, starts, locals, cells, sum, total>>

\* The mutant gives the id back before the objects are gone.
ExitEarly(t) ==
  /\ state[t] = "clear"
  /\ unused_thread_ids_' = unused_thread_ids_ \cup {thread_id_[t]}
  /\ thread_id_' = [thread_id_ EXCEPT ![t] = 0] /\ state' = [state EXCEPT ![t] = "out"]
  /\ UNCHANGED <<max_thread_id_, starts, locals, cells, sum, total>>

\* unregister_thread and set_thread_id(0), when run_thread returns
Exit(t) ==
  /\ state[t] = "clear" /\ destructors[t] = {}
  /\ unused_thread_ids_' = unused_thread_ids_ \cup {thread_id_[t]}
  /\ thread_id_' = [thread_id_ EXCEPT ![t] = 0] /\ state' = [state EXCEPT ![t] = "out"]
  /\ UNCHANGED <<max_thread_id_, starts, locals, cells, sum, total>>

\* ThreadSafeMultiCounter::sum, one cell at a time
SumCell ==
  /\ sum' = IF sum.next = MaxThreadId THEN NoSum
            ELSE [sum EXCEPT !.next = @ + 1, !.res = @ + cells[sum.next],
                             !.low = IF sum.next = 0 THEN total ELSE @,
                             !.drop = IF sum.next = 0 THEN 0 ELSE @]
  /\ UNCHANGED <<ids, locals, cells, total>>

Next == SumCell \/ \E t \in Threads:
          Start(t) \/ Finish(t) \/ Exit(t) \/ Destroy(t) \/ \E s \in Slots: InitLocal(t, s)
Spec == Init /\ [][Next]_vars

\* Running threads have ids of their own, as small as can be: every id in use
\* is at most the number of threads that ever ran at once, and fits the cells
\* (register_thread, unregister_thread; ThreadLocalStorage's CHECK).
IdsAreOwn ==
  LET running == {t \in Threads: state[t] # "out"}
  IN  /\ \A t, u \in running: t # u => thread_id_[t] # thread_id_[u]
      /\ {thread_id_[t] : t \in running} = (1..max_thread_id_) \ unused_thread_ids_
      /\ max_thread_id_ < MaxThreadId

\* A thread's objects die under its own id and leave nothing behind: a cell
\* holds the live objects of the thread that has its id, and is zero, for the
\* next thread that gets it, when none has.
CellsAreOwn == \A i \in Ids:
  IF \E t \in Threads: i # 0 /\ thread_id_[t] = i
    THEN \E t \in Threads: thread_id_[t] = i /\ cells[i] = Cardinality(raw_ptr[t])
    ELSE cells[i] = 0

\* sum reads the cells while they change: it may miss what is added and count
\* what is taken away meanwhile, and nothing else.
SumIsNear == sum.next = MaxThreadId => sum.res \in (sum.low - sum.drop)..(total + sum.drop)
============================================================================
