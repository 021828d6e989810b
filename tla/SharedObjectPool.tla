------------------------- MODULE SharedObjectPool -------------------------
(***************************************************************************)
(* td/utils/SharedObjectPool.h over td/utils/MpscLinkQueue.h.  One thread  *)
(* allocates: it reuses the oldest freed Raw or makes a new one.  Any      *)
(* thread copies, moves and resets SharedPtrs; the thread whose decrement  *)
(* reaches zero destroys the object and pushes its Raw, intrusively, on    *)
(* the free queue, a stack the allocating thread takes whole and reverses. *)
(***************************************************************************)
EXTENDS Integers, Sequences

CONSTANTS Threads,      \* each has one SharedPtr it works on
          Pool,         \* the thread that calls alloc and calc_free_size
          Raws,         \* Raws make_unique may return
          MaxObjects    \* objects constructed in a behaviour

Null == 0

VARIABLES allocated,    \* allocated_
          next,         \* next[r]: Node::next_ of Raw r
          head,         \* MpscLinkQueueImpl::head_
          rhead, rtail, \* free_queue_reader_: Reader::head_, Reader::tail_
          adding,       \* node, head and tail of Reader::add
          cnt,          \* ref_cnt_
          data,         \* the object in option_data_, 0 when there is none
          ptr,          \* ptr[t]: SharedPtr::raw_ of thread t, with the object it was made for
          objects,      \* objects constructed so far
          freed,        \* history: Raws pushed and not yet reused, in the order of the pushes
          at            \* at[t]: <<step, raw, head seen or object of the new pointer>>

vars == <<allocated, next, head, rhead, rtail, adding, cnt, data, ptr, objects, freed, at>>
queue == <<next, head, rhead, rtail, adding, freed>>
Idle == <<"idle", Null, Null>>
Empty == [raw |-> Null, obj |-> 0]
NotAdding == [node |-> Null, head |-> Null, tail |-> Null]
Goto(t, step) == at' = [at EXCEPT ![t] = step]

Init == /\ allocated = {} /\ head = Null /\ rhead = Null /\ rtail = Null /\ adding = NotAdding
        /\ next = [r \in Raws |-> Null] /\ cnt = [r \in Raws |-> 0]
        /\ data = [r \in Raws |-> 0] /\ objects = 0 /\ freed = <<>>
        /\ ptr = [t \in Threads |-> Empty] /\ at = [t \in Threads |-> Idle]

----------------------------------------------------------------------------
\* MpscLinkQueueImpl

\* pop_all, by calc_free_size or at the start of alloc_raw: an exchange, then
\* Reader::add, whose nodes nobody else can reach.  It has nothing to do when
\* the stack was empty.
PopAll(t, step, then) ==
  /\ at[t] = Idle
  /\ head' = Null
  /\ IF head = Null THEN Goto(t, then) /\ UNCHANGED adding
     ELSE Goto(t, step) /\ adding' = [node |-> head, head |-> Null, tail |-> head]
  /\ UNCHANGED <<allocated, next, rhead, rtail, cnt, data, ptr, objects, freed>>

\* the loop of add: one more node points back
Turn(t) ==
  /\ at[t][1] \in {"count", "take"} /\ adding.node # Null
  /\ next' = [next EXCEPT ![adding.node] = adding.head]
  /\ adding' = [node |-> next[adding.node], head |-> adding.node, tail |-> adding.tail]
  /\ UNCHANGED <<allocated, head, rhead, rtail, cnt, data, ptr, objects, freed, at>>

\* the end of add: the reversed list goes behind what is unread
Link(t) ==
  /\ at[t][1] \in {"count", "take"} /\ adding.node = Null
  /\ rhead' = IF rhead = Null THEN adding.head ELSE rhead
  /\ next' = IF rhead = Null THEN next ELSE [next EXCEPT ![rtail] = adding.head]
  /\ rtail' = adding.tail
  /\ adding' = NotAdding
  /\ Goto(t, IF at[t][1] = "count" THEN Idle ELSE <<"alloc", Null, Null>>)
  /\ UNCHANGED <<allocated, head, cnt, data, ptr, objects, freed>>

calc_free_size(t) == t = Pool /\ head # Null /\ PopAll(t, <<"count", Null, Null>>, Idle)

\* push: the load of head_ and the store to next_, again when the exchange fails
PushLoad(t) ==
  /\ at[t][1] = "free"
  /\ next' = [next EXCEPT ![at[t][2]] = head]
  /\ Goto(t, <<"push", at[t][2], head>>)
  /\ UNCHANGED <<allocated, head, rhead, rtail, adding, cnt, data, ptr, objects, freed>>

PushCas(t) ==
  LET r == at[t][2] IN
  /\ at[t][1] = "push"
  /\ IF head = at[t][3]
       THEN head' = r /\ freed' = Append(freed, r) /\ Goto(t, Idle) /\ UNCHANGED next
       ELSE /\ next' = [next EXCEPT ![r] = head] /\ Goto(t, <<"push", r, head>>)
            /\ UNCHANGED <<head, freed>>
  /\ UNCHANGED <<allocated, rhead, rtail, adding, cnt, data, ptr, objects>>

----------------------------------------------------------------------------
\* SharedObjectPool

\* alloc: free_queue_.pop_all, in alloc_raw
Alloc(t) == /\ t = Pool /\ ptr[t] = Empty /\ objects < MaxObjects
            /\ PopAll(t, <<"take", Null, Null>>, <<"alloc", Null, Null>>)

Constructed(t, r) ==
  /\ objects' = objects + 1
  /\ data' = [data EXCEPT ![r] = objects']
  /\ cnt' = [cnt EXCEPT ![r] = @ + 1]
  /\ ptr' = [ptr EXCEPT ![t] = [raw |-> r, obj |-> objects']]
  /\ Goto(t, Idle)

\* Reader::read
AllocFreed(t) ==
  /\ at[t][1] = "alloc" /\ rhead # Null
  /\ rhead' = next[rhead] /\ freed' = Tail(freed)
  /\ Constructed(t, rhead)
  /\ UNCHANGED <<allocated, next, head, rtail, adding>>

AllocNew(t) ==
  /\ at[t][1] = "alloc" /\ rhead = Null
  /\ \E r \in Raws \ allocated: allocated' = allocated \cup {r} /\ Constructed(t, r)
  /\ UNCHANGED queue

----------------------------------------------------------------------------
\* SharedPtr

\* The copy assignment: u's pointer becomes a copy of t's, which is counted
\* before u lets go of its own.
Copy(t, u) ==
  /\ t # u /\ at[t] = Idle /\ at[u] = Idle /\ ptr[t] # Empty
  /\ cnt' = [cnt EXCEPT ![ptr[t].raw] = @ + 1]
  /\ at' = [at EXCEPT ![u] = <<"reset", ptr[t].raw, ptr[t].obj>>]
  /\ UNCHANGED <<allocated, queue, data, ptr, objects>>

\* The mutant leaves other.raw_ as it was.
MovePtrKeeps(t, u) ==
  /\ t # u /\ at[t] = Idle /\ at[u] = Idle /\ ptr[t] # Empty
  /\ at' = [at EXCEPT ![u] = <<"reset", ptr[t].raw, ptr[t].obj>>]
  /\ UNCHANGED <<allocated, queue, cnt, data, ptr, objects>>

\* The move assignment: reset(other.raw_); other.raw_ = nullptr.
MovePtr(t, u) ==
  /\ t # u /\ at[t] = Idle /\ at[u] = Idle /\ ptr[t] # Empty
  /\ at' = [at EXCEPT ![u] = <<"reset", ptr[t].raw, ptr[t].obj>>]
  /\ ptr' = [ptr EXCEPT ![t] = Empty]
  /\ UNCHANGED <<allocated, queue, cnt, data, objects>>

\* The destructor and reset().
Release(t) ==
  /\ at[t] = Idle /\ ptr[t] # Empty /\ Goto(t, <<"reset", Null, 0>>)
  /\ UNCHANGED <<allocated, queue, cnt, data, ptr, objects>>

\* reset(new_raw): the decrement; the last one owns the object.
Reset(t) ==
  LET r == ptr[t].raw IN
  /\ at[t][1] = "reset"
  /\ ptr' = [ptr EXCEPT ![t] = [raw |-> at[t][2], obj |-> at[t][3]]]
  /\ cnt' = IF r = Null THEN cnt ELSE [cnt EXCEPT ![r] = @ - 1]
  /\ Goto(t, IF r # Null /\ cnt[r] = 1 THEN <<"destroy", r, Null>> ELSE Idle)
  /\ UNCHANGED <<allocated, queue, data, objects>>

\* destroy_data; the Deleter then calls free_raw
Destroy(t) ==
  /\ at[t][1] = "destroy"
  /\ data' = [data EXCEPT ![at[t][2]] = 0]
  /\ Goto(t, <<"free", at[t][2], Null>>)
  /\ UNCHANGED <<allocated, queue, cnt, ptr, objects>>

Next == \E t \in Threads:
  \/ Alloc(t) \/ calc_free_size(t) \/ Turn(t) \/ Link(t) \/ AllocFreed(t) \/ AllocNew(t)
  \/ Release(t) \/ Reset(t) \/ Destroy(t) \/ PushLoad(t) \/ PushCas(t)
  \/ \E u \in Threads: Copy(t, u) \/ MovePtr(t, u)

Spec == Init /\ [][Next]_vars

----------------------------------------------------------------------------
Refers(t, r) == ptr[t].raw = r \/ (at[t][1] = "reset" /\ at[t][2] = r)
Releases(t, r) == at[t][1] \in {"destroy", "free", "push"} /\ at[t][2] = r

\* A SharedPtr refers to the object it was made for, constructed and not yet
\* destroyed, whatever other threads reset and whatever Raw is reused.
PtrIsAlive == \A t \in Threads: ptr[t] # Empty => data[ptr[t].raw] = ptr[t].obj

\* Raws a + 1 to b of freed are a list that begins at first, the oldest first,
\* or the newest first.
OldestFirst(a, b, first) ==
  /\ first = IF a = b THEN Null ELSE freed[a + 1]
  /\ \A i \in a + 1 .. b : next[freed[i]] = IF i = b THEN Null ELSE freed[i + 1]
NewestFirst(a, b, first) ==
  /\ first = IF a = b THEN Null ELSE freed[b]
  /\ \A i \in a + 1 .. b : next[freed[i]] = IF i = a + 1 THEN Null ELSE freed[i - 1]

\* The free queue is the Raws in the order in which they were pushed: the
\* reader's list, what add has still to reverse and what it has reversed, then
\* the stack; alloc_raw takes the oldest.
FreeIsFifo ==
  \E k, j, l \in 0 .. Len(freed) :
    /\ k <= j /\ j <= l
    /\ OldestFirst(0, k, rhead)
    /\ NewestFirst(k, j, adding.node) /\ OldestFirst(j, l, adding.head)
    /\ NewestFirst(l, Len(freed), head)
    /\ k > 0 => rtail = freed[k]
    /\ l > k => adding.tail = freed[l]

\* Every Raw is referred to, on its way to the free queue, or on it once: what
\* ~SharedObjectPool and the destructor of SharedPtrRaw CHECK when all
\* pointers are gone.
NoneLost ==
  /\ \A i, j \in 1 .. Len(freed) : freed[i] = freed[j] => i = j
  /\ \A r \in Raws :
       LET isFree == \E i \in 1 .. Len(freed) : freed[i] = r
           flying == \E t \in Threads : Releases(t, r)
           used == \E t \in Threads : Refers(t, r)
       IN  /\ r \in allocated <=> isFree \/ flying \/ used
           /\ ~(isFree /\ flying) /\ ~(isFree /\ used) /\ ~(flying /\ used)
           /\ isFree => cnt[r] = 0 /\ data[r] = 0
============================================================================
