--------------------------- MODULE StealingQueue ---------------------------
(***************************************************************************)
(* td::StealingQueue (td/utils/StealingQueue.h) under the threads of       *)
(* test/StealingQueue.cpp: each owns a queue and, in a loop, gets an item  *)
(* by local_pop, from the global queue or by steal, and pushes the items   *)
(* that come of it; what overflows goes to the global queue.               *)
(*                                                                         *)
(* Every access to head_ or tail_ of a queue that another thread may       *)
(* change, and every copy of one slot, is one step.  The slots from tail_  *)
(* on are written only by the owner and read only by thieves whose         *)
(* compare_exchange fails, so the store to such a slot joins the step that *)
(* comes before or after it.                                               *)
(***************************************************************************)
EXTENDS Integers, Sequences, FiniteSetTheorems, TLAPS

CONSTANTS
  Threads,
  N,         (* the capacity of a queue, a power of 2                        *)
  Items,
  Roots,     (* the items the global queue starts with                       *)
  Children,  (* Children[x]: what a thread pushes after it has got x         *)
  Nothing

(* An item comes of at most one other, and once; those of the global queue  *)
(* come of none.                                                            *)
StealingOK ==
  /\ N \in Nat \ {0}
  /\ Nothing \notin Items
  /\ Roots \subseteq Items
  /\ Children \in [Items -> Seq(Items)]
  /\ \A x, y \in Items : \A k \in DOMAIN Children[x], l \in DOMAIN Children[y] :
       Children[x][k] = Children[y][l] => x = y /\ k = l
  /\ \A x \in Items : \A k \in DOMAIN Children[x] : Children[x][k] \notin Roots

VARIABLES
  head,      (* head_                                                        *)
  tail,      (* tail_                                                        *)
  buf,       (* buf_                                                         *)
  gq,        (* the global queue                                             *)
  pc,
  item,      (* the item a thread has got, or is pushing                     *)
  todo,      (* what it still has to push                                    *)
  h,         (* its copy of its own head_                                    *)
  victim,    (* other                                                        *)
  oh,        (* its copy of other.head_                                      *)
  n,         (* how many items it steals or overflows                        *)
  i,
  got        (* how often each item was got                                  *)

queueVars == <<head, tail, buf, gq>>
stealVars == <<victim, oh, n, i>>
vars == <<queueVars, pc, item, todo, h, stealVars, got>>

Init ==
  /\ head = [t \in Threads |-> 0]
  /\ tail = [t \in Threads |-> 0]
  /\ buf = [t \in Threads |-> [s \in 0 .. (N - 1) |-> Nothing]]
  /\ gq = Roots
  /\ pc = [t \in Threads |-> "find"]
  /\ item = [t \in Threads |-> Nothing]
  /\ todo = [t \in Threads |-> <<>>]
  /\ h = [t \in Threads |-> 0]
  /\ victim = [t \in Threads |-> t]
  /\ oh = [t \in Threads |-> 0]
  /\ n = [t \in Threads |-> 0]
  /\ i = [t \in Threads |-> 0]
  /\ got = [x \in Items |-> 0]

Goto(t, l) == pc' = [pc EXCEPT ![t] = l]
Slot(t, k) == buf[t][k % N]
SetSlot(t, k, x) == buf' = [buf EXCEPT ![t][k % N] = x]

(* The thread has x: it counts it and goes on to push what comes of it.     *)
Got(t, x) ==
  /\ got' = [got EXCEPT ![x] = @ + 1]
  /\ item' = [item EXCEPT ![t] = Nothing]
  /\ todo' = [todo EXCEPT ![t] = Children[x]]
  /\ Goto(t, "work")

AllGot == \A x \in Items : got[x] > 0

----------------------------------------------------------------------------
(* "while (got_sum.load() != sum)"                                          *)
Stop(t) ==
  /\ pc[t] = "find" /\ AllGot
  /\ Goto(t, "done")
  /\ UNCHANGED <<queueVars, item, todo, h, stealVars, got>>

(* local_pop: head_ and the slot it points at.                              *)
PopLoad(t) ==
  /\ pc[t] = "find" /\ ~AllGot
  /\ h' = [h EXCEPT ![t] = head[t]]
  /\ Goto(t, IF head[t] = tail[t] THEN "global" ELSE "pop")
  /\ UNCHANGED <<queueVars, item, todo, stealVars, got>>

(* Its compare_exchange; when a thief was faster, it returns false.         *)
PopCas(t) ==
  /\ pc[t] = "pop"
  /\ IF head[t] = h[t]
       THEN head' = [head EXCEPT ![t] = h[t] + 1] /\ Got(t, Slot(t, h[t]))
       ELSE Goto(t, "global") /\ UNCHANGED <<head, item, todo, got>>
  /\ UNCHANGED <<tail, buf, gq, h, stealVars>>

(* gq.try_pop                                                               *)
GlobalPop(t) ==
  /\ pc[t] = "global"
  /\ \/ \E x \in gq : gq' = gq \ {x} /\ Got(t, x) /\ UNCHANGED victim
     \/ /\ gq = {}
        /\ \E u \in Threads : victim' = [victim EXCEPT ![t] = u]
        /\ Goto(t, "steal")
        /\ UNCHANGED <<gq, item, todo, got>>
  /\ UNCHANGED <<head, tail, buf, h, oh, n, i>>

----------------------------------------------------------------------------
(* steal: head_, and its own tail_, which nobody else changes.              *)
StealHead(t) ==
  /\ pc[t] = "steal"
  /\ h' = [h EXCEPT ![t] = head[t]]
  /\ Goto(t, "steal_head")
  /\ UNCHANGED <<queueVars, item, todo, stealVars, got>>

StealOtherHead(t) ==
  /\ pc[t] = "steal_head"
  /\ oh' = [oh EXCEPT ![t] = head[victim[t]]]
  /\ Goto(t, "steal_tail")
  /\ UNCHANGED <<queueVars, item, todo, h, victim, n, i, got>>

(* Half of the other queue, rounded up, but no more than there is room for. *)
StealCount(t) ==
  LET size == tail[victim[t]] - oh[t]
      half == size - size \div 2
      room == h[t] + N - tail[t]
  IN  IF half < room THEN half ELSE room

(* other.tail_, compared with an other.head_ that may be old by now.        *)
StealOtherTail(t) ==
  /\ pc[t] = "steal_tail"
  /\ LET size == tail[victim[t]] - oh[t] IN
     \/ /\ size \notin 0 .. N
        /\ Goto(t, "steal")
        /\ UNCHANGED <<n, i>>
     \/ /\ size \in 0 .. N
        /\ StealCount(t) = 0
        /\ Goto(t, "find")
        /\ UNCHANGED <<n, i>>
     \/ /\ size \in 0 .. N
        /\ StealCount(t) # 0
        /\ n' = [n EXCEPT ![t] = StealCount(t)]
        /\ i' = [i EXCEPT ![t] = 0]
        /\ Goto(t, "copy")
  /\ UNCHANGED <<queueVars, item, todo, h, victim, oh, got>>

(* One slot of the other queue goes to one slot past the end of its own.    *)
StealCopy(t) ==
  /\ pc[t] = "copy"
  /\ SetSlot(t, i[t] + tail[t], Slot(victim[t], i[t] + oh[t]))
  /\ i' = [i EXCEPT ![t] = @ + 1]
  /\ Goto(t, IF i[t] + 1 < n[t] THEN "copy" ELSE "steal_cas")
  /\ UNCHANGED <<head, tail, gq, item, todo, h, victim, oh, n, got>>

(* Mutant: the thief takes what it has copied, though it may be gone.       *)
StealBlindly(t) ==
  /\ pc[t] = "steal_cas"
  /\ head' = [head EXCEPT ![victim[t]] = oh[t] + n[t]]
  /\ Goto(t, "keep")
  /\ UNCHANGED <<tail, buf, gq, item, todo, h, stealVars, got>>

StealCas(t) ==
  /\ pc[t] = "steal_cas"
  /\ IF head[victim[t]] = oh[t]
       THEN head' = [head EXCEPT ![victim[t]] = oh[t] + n[t]] /\ Goto(t, "keep")
       ELSE Goto(t, "steal") /\ UNCHANGED head
  /\ UNCHANGED <<tail, buf, gq, item, todo, h, stealVars, got>>

(* It returns the last item and publishes the others.                       *)
StealKeep(t) ==
  /\ pc[t] = "keep"
  /\ tail' = [tail EXCEPT ![t] = @ + n[t] - 1]
  /\ Got(t, Slot(t, tail[t] + n[t] - 1))
  /\ UNCHANGED <<head, buf, gq, h, stealVars>>

----------------------------------------------------------------------------
(* The next local_push, or the next round of the loop.                      *)
Work(t) ==
  /\ pc[t] = "work"
  /\ IF todo[t] = <<>>
       THEN Goto(t, "find") /\ UNCHANGED <<item, todo>>
       ELSE /\ item' = [item EXCEPT ![t] = Head(todo[t])]
            /\ todo' = [todo EXCEPT ![t] = Tail(@)]
            /\ Goto(t, "push")
  /\ UNCHANGED <<queueVars, h, stealVars, got>>

(* local_push: is there room behind the current head_?                      *)
PushLoad(t) ==
  /\ pc[t] = "push"
  /\ h' = [h EXCEPT ![t] = head[t]]
  /\ Goto(t, IF tail[t] - head[t] < N THEN "store" ELSE "overflow_cas")
  /\ UNCHANGED <<queueVars, item, todo, stealVars, got>>

(* The slot, then tail_.                                                    *)
PushStore(t) ==
  /\ pc[t] = "store"
  /\ SetSlot(t, tail[t], item[t])
  /\ tail' = [tail EXCEPT ![t] = @ + 1]
  /\ item' = [item EXCEPT ![t] = Nothing]
  /\ Goto(t, "work")
  /\ UNCHANGED <<head, gq, todo, h, stealVars, got>>

(* A full queue: the owner takes N/2 + 1 items off its head.                *)
OverflowCas(t) ==
  /\ pc[t] = "overflow_cas"
  /\ IF head[t] = h[t]
       THEN /\ head' = [head EXCEPT ![t] = @ + N \div 2 + 1]
            /\ n' = [n EXCEPT ![t] = N \div 2 + 1]
            /\ i' = [i EXCEPT ![t] = 0]
            /\ Goto(t, "overflow")
       ELSE Goto(t, "push") /\ UNCHANGED <<head, n, i>>
  /\ UNCHANGED <<tail, buf, gq, item, todo, h, victim, oh, got>>

(* overflow_f for each of them ...                                          *)
Overflow(t) ==
  /\ pc[t] = "overflow"
  /\ i[t] < n[t]
  /\ gq' = gq \cup {Slot(t, i[t] + h[t])}
  /\ i' = [i EXCEPT ![t] = @ + 1]
  /\ UNCHANGED <<head, tail, buf, pc, item, todo, h, victim, oh, n, got>>

(* ... and for the value itself.                                            *)
OverflowValue(t) ==
  /\ pc[t] = "overflow"
  /\ i[t] = n[t]
  /\ gq' = gq \cup {item[t]}
  /\ item' = [item EXCEPT ![t] = Nothing]
  /\ Goto(t, "work")
  /\ UNCHANGED <<head, tail, buf, todo, h, stealVars, got>>

Step(t) ==
  \/ Stop(t) \/ PopLoad(t) \/ PopCas(t) \/ GlobalPop(t)
  \/ StealHead(t) \/ StealOtherHead(t) \/ StealOtherTail(t)
  \/ StealCopy(t) \/ StealCas(t) \/ StealKeep(t)
  \/ Work(t) \/ PushLoad(t) \/ PushStore(t)
  \/ OverflowCas(t) \/ Overflow(t) \/ OverflowValue(t)

Finished == (\A t \in Threads : pc[t] = "done") /\ UNCHANGED vars

Next == (\E t \in Threads : Step(t)) \/ Finished

Spec == Init /\ [][Next]_vars

----------------------------------------------------------------------------
Pcs == {"find", "pop", "global", "steal", "steal_head", "steal_tail", "copy", "steal_cas",
        "keep", "work", "push", "store", "overflow_cas", "overflow", "done"}

TypeOK ==
  /\ head \in [Threads -> Nat]
  /\ tail \in [Threads -> Nat]
  /\ buf \in [Threads -> [0 .. (N - 1) -> Items \cup {Nothing}]]
  /\ gq \subseteq Items
  /\ pc \in [Threads -> Pcs]
  /\ item \in [Threads -> Items \cup {Nothing}]
  /\ todo \in [Threads -> Seq(Items)]
  /\ h \in [Threads -> Nat]
  /\ victim \in [Threads -> Threads]
  /\ oh \in [Threads -> Nat]
  /\ n \in [Threads -> 0 .. (N \div 2 + 1)]
  /\ i \in [Threads -> Nat]
  /\ \A t \in Threads : i[t] <= n[t]
  /\ got \in [Items -> Nat]

(* The queue is never longer than its ring, whoever moves its ends.         *)
Fits == \A t \in Threads : tail[t] - head[t] \in 0 .. N

(* The indices of queue t whose slots hold items nobody else has: the queue *)
(* itself, what its owner has stolen and not published, what overflows.     *)
Owned(t) ==
  (head[t] .. (tail[t] - 1))
    \cup (IF pc[t] = "keep" THEN tail[t] .. (tail[t] + n[t] - 1) ELSE {})
    \cup (IF pc[t] = "overflow" THEN (h[t] + i[t]) .. (h[t] + n[t] - 1) ELSE {})

(* Where x is now.                                                          *)
InQueue(x) ==
  UNION {{<<"queue", t, k>> : k \in {k \in Owned(t) : Slot(t, k) = x}} : t \in Threads}
InTodo(x) ==
  UNION {{<<"todo", t, k>> : k \in {k \in DOMAIN todo[t] : todo[t][k] = x}} : t \in Threads}
Places(x) ==
  InQueue(x) \cup InTodo(x)
    \cup {<<"hand", t>> : t \in {t \in Threads : item[t] = x}}
    \cup (IF x \in gq THEN {<<"global">>} ELSE {})

Spawned(x) ==
  x \in Roots \/ \E y \in Items : got[y] > 0 /\ \E k \in DOMAIN Children[y] : Children[y][k] = x

(* "got_sum.load() != sum" (test/StealingQueue.cpp) ends the round exactly  *)
(* when every item has been got once: each item that exists is in one place *)
(* or has been got, and once, whatever the owner, the thieves and the       *)
(* overflow do to a queue at the same time.                                 *)
EachOnce == \A x \in Items : got[x] + Cardinality(Places(x)) = IF Spawned(x) THEN 1 ELSE 0

(* All of it: in every state the queues fit in their rings and no item is   *)
(* lost or handed out twice.                                                *)
StealingHolds == TypeOK /\ Fits /\ EachOnce

(* The round ends: every item is got and every thread leaves the loop.      *)
EveryoneFinishes == <>(AllGot /\ \A t \in Threads : pc[t] = "done")

----------------------------------------------------------------------------
(* The proofs, for every number of threads, every size of the rings, and    *)
(* whatever items the items make: nothing is lost or handed out twice, and  *)
(* no queue holds more than its ring.                                       *)
(*                                                                          *)
(* The argument is about places (At): each item that was made is in one of  *)
(* them, a position of a queue between its head and tail, the list of what  *)
(* a thread still has to push, its hand, the global queue, or got.  What a  *)
(* thief has copied counts as a place of its own only after the             *)
(* compare_exchange of head_ has succeeded.  That succeeds when head_ is    *)
(* what the thief has read, and then the copies are still right (Thief):    *)
(* the owner writes only past its tail, which is less than a ring ahead of  *)
(* head_, so positions between them have different slots (ModEq).           *)

(* The rings: no end overtakes the other, and a copy of head_ is behind.    *)
Ends(t) ==
  /\ head[t] <= tail[t]
  /\ tail[t] <= head[t] + N
  /\ h[t] <= head[t]

(* What a thread has in its hands and still has to do at each place of its  *)
(* program.                                                                 *)
Local(t) ==
  /\ pc[t] \in {"push", "store", "overflow_cas", "overflow"} <=> item[t] # Nothing
  /\ pc[t] \notin {"work", "push", "store", "overflow_cas", "overflow"} => todo[t] = <<>>
  /\ pc[t] = "pop" => h[t] < tail[t]
  /\ pc[t] = "store" => tail[t] - h[t] < N
  /\ pc[t] = "overflow_cas" => tail[t] - h[t] >= N
  /\ pc[t] = "overflow" => /\ n[t] = N \div 2 + 1
                           /\ h[t] + n[t] <= head[t]
                           /\ tail[t] = h[t] + N
  /\ pc[t] \in {"steal_head", "steal_tail"} => tail[t] <= h[t] + N
  /\ pc[t] \in {"copy", "steal_cas", "keep"} => n[t] > 0 /\ tail[t] + n[t] <= h[t] + N
  /\ pc[t] = "copy" => i[t] < n[t]
  /\ pc[t] = "steal_cas" => i[t] = n[t]

(* A thief: as long as the head_ it has read is the current one, what it    *)
(* has counted is in the other queue and what it has copied is still there. *)
Thief(t) ==
  /\ pc[t] \in {"steal_tail", "copy", "steal_cas"} => oh[t] <= head[victim[t]]
  /\ pc[t] \in {"copy", "steal_cas"} /\ head[victim[t]] = oh[t] =>
       /\ oh[t] + n[t] <= tail[victim[t]]
       /\ \A j \in 0 .. (i[t] - 1) : Slot(t, tail[t] + j) = Slot(victim[t], oh[t] + j)

(* Item x is there: in a queue, in what a thread still has to push, in its  *)
(* hand, in the global queue, or got.                                       *)
At(a, t, k, x) ==
  \/ a = "queue" /\ t \in Threads /\ k \in Owned(t) /\ Slot(t, k) = x
  \/ a = "todo" /\ t \in Threads /\ k \in DOMAIN todo[t] /\ todo[t][k] = x
  \/ a = "hand" /\ t \in Threads /\ k = 0 /\ item[t] = x
  \/ a = "global" /\ t = Nothing /\ k = 0 /\ x \in gq
  \/ a = "got" /\ t = Nothing /\ k = 0 /\ got[x] > 0

Kinds == {"queue", "todo", "hand", "global", "got"}
Wheres == Threads \cup {Nothing}

Unique ==
  \A x \in Items : \A a, b \in Kinds : \A t, u \in Wheres : \A k, l \in Nat :
    At(a, t, k, x) /\ At(b, u, l, x) => a = b /\ t = u /\ k = l
Somewhere ==
  \A x \in Items : Spawned(x) <=> \E a \in Kinds, t \in Wheres, k \in Nat : At(a, t, k, x)
GotOnce == \A x \in Items : got[x] <= 1
Real == \A t \in Threads : \A k \in Owned(t) : Slot(t, k) \in Items

Placed == Unique /\ Somewhere /\ GotOnce /\ Real

Inv ==
  /\ TypeOK
  /\ \A t \in Threads : Ends(t) /\ Local(t) /\ Thief(t)
  /\ Placed

----------------------------------------------------------------------------
(* A slot number is one of the ring's.                                      *)
LEMMA ModRange == ASSUME StealingOK, NEW a \in Nat PROVE a % N \in 0 .. (N - 1)
BY DEF StealingOK

(* Two positions that are less than a ring apart and have the same slot are *)
(* one.                                                                     *)
LEMMA ModEq ==
  ASSUME StealingOK, NEW a \in Nat, NEW b \in Nat, a % N = b % N, a < b + N, b < a + N
  PROVE  a = b
<1>1. \A k \in Nat : k \div N \in Nat /\ k = N * (k \div N) + (k % N)
  BY DEF StealingOK
<1>2. PICK q \in Nat : a = N * q + (a % N)
  BY <1>1
<1>3. PICK r \in Nat : b = N * r + (b % N)
  BY <1>1
<1>4. a - b = N * (q - r)
  BY <1>2, <1>3 DEF StealingOK
<1>5. q - r < 1
  <2>1. CASE q - r >= 1
    <3>1. N * (q - r) >= N
      BY <2>1 DEF StealingOK
    <3> QED BY <3>1, <1>4 DEF StealingOK
  <2> QED BY <2>1
<1>6. q - r > -1
  <2>1. CASE q - r <= -1
    <3>1. N * (q - r) <= -N
      BY <2>1 DEF StealingOK
    <3> QED BY <3>1, <1>4 DEF StealingOK
  <2> QED BY <2>1
<1> QED BY <1>4, <1>5, <1>6 DEF StealingOK

(* Half of the ring and one more is not more than all of it.                *)
LEMMA HalfOfN == ASSUME StealingOK PROVE N \div 2 + 1 <= N /\ N \div 2 \in Nat
BY DEF StealingOK

----------------------------------------------------------------------------
(* The steps of a thread, one for each way through an action.               *)

Stopping(t) ==
  /\ pc[t] = "find"
  /\ pc' = [pc EXCEPT ![t] = "done"]
  /\ UNCHANGED <<head, tail, buf, gq, item, todo, h, victim, oh, n, i, got>>

PopEmpty(t) ==
  /\ pc[t] = "find"
  /\ head[t] = tail[t]
  /\ pc' = [pc EXCEPT ![t] = "global"]
  /\ h' = [h EXCEPT ![t] = head[t]]
  /\ UNCHANGED <<head, tail, buf, gq, item, todo, victim, oh, n, i, got>>

PopSees(t) ==
  /\ pc[t] = "find"
  /\ head[t] # tail[t]
  /\ pc' = [pc EXCEPT ![t] = "pop"]
  /\ h' = [h EXCEPT ![t] = head[t]]
  /\ UNCHANGED <<head, tail, buf, gq, item, todo, victim, oh, n, i, got>>

PopTakes(t) ==
  /\ pc[t] = "pop"
  /\ head[t] = h[t]
  /\ head' = [head EXCEPT ![t] = h[t] + 1]
  /\ pc' = [pc EXCEPT ![t] = "work"]
  /\ item' = [item EXCEPT ![t] = Nothing]
  /\ todo' = [todo EXCEPT ![t] = Children[Slot(t, h[t])]]
  /\ got' = [got EXCEPT ![Slot(t, h[t])] = @ + 1]
  /\ UNCHANGED <<tail, buf, gq, h, victim, oh, n, i>>

PopLoses(t) ==
  /\ pc[t] = "pop"
  /\ head[t] # h[t]
  /\ pc' = [pc EXCEPT ![t] = "global"]
  /\ UNCHANGED <<head, tail, buf, gq, item, todo, h, victim, oh, n, i, got>>

GlobalTakes(t, x) ==
  /\ pc[t] = "global"
  /\ x \in gq
  /\ gq' = gq \ {x}
  /\ pc' = [pc EXCEPT ![t] = "work"]
  /\ item' = [item EXCEPT ![t] = Nothing]
  /\ todo' = [todo EXCEPT ![t] = Children[x]]
  /\ got' = [got EXCEPT ![x] = @ + 1]
  /\ UNCHANGED <<head, tail, buf, h, victim, oh, n, i>>

GlobalEmpty(t, w) ==
  /\ pc[t] = "global"
  /\ w \in Threads
  /\ pc' = [pc EXCEPT ![t] = "steal"]
  /\ victim' = [victim EXCEPT ![t] = w]
  /\ UNCHANGED <<head, tail, buf, gq, item, todo, h, oh, n, i, got>>

StealBegins(t) ==
  /\ pc[t] = "steal"
  /\ pc' = [pc EXCEPT ![t] = "steal_head"]
  /\ h' = [h EXCEPT ![t] = head[t]]
  /\ UNCHANGED <<head, tail, buf, gq, item, todo, victim, oh, n, i, got>>

StealLooks(t) ==
  /\ pc[t] = "steal_head"
  /\ pc' = [pc EXCEPT ![t] = "steal_tail"]
  /\ oh' = [oh EXCEPT ![t] = head[victim[t]]]
  /\ UNCHANGED <<head, tail, buf, gq, item, todo, h, victim, n, i, got>>

StealAgain(t) ==
  /\ pc[t] = "steal_tail"
  /\ pc' = [pc EXCEPT ![t] = "steal"]
  /\ UNCHANGED <<head, tail, buf, gq, item, todo, h, victim, oh, n, i, got>>

StealNothing(t) ==
  /\ pc[t] = "steal_tail"
  /\ pc' = [pc EXCEPT ![t] = "find"]
  /\ UNCHANGED <<head, tail, buf, gq, item, todo, h, victim, oh, n, i, got>>

StealCounts(t) ==
  /\ pc[t] = "steal_tail"
  /\ tail[victim[t]] - oh[t] \in 0 .. N
  /\ StealCount(t) # 0
  /\ pc' = [pc EXCEPT ![t] = "copy"]
  /\ n' = [n EXCEPT ![t] = StealCount(t)]
  /\ i' = [i EXCEPT ![t] = 0]
  /\ UNCHANGED <<head, tail, buf, gq, item, todo, h, victim, oh, got>>

StealCopies(t) ==
  /\ pc[t] = "copy"
  /\ buf' = [buf EXCEPT ![t] = [buf[t] EXCEPT ![(i[t] + tail[t]) % N] = Slot(victim[t], i[t] + oh[t])]]
  /\ pc' = [pc EXCEPT ![t] = IF i[t] + 1 < n[t] THEN "copy" ELSE "steal_cas"]
  /\ i' = [i EXCEPT ![t] = i[t] + 1]
  /\ UNCHANGED <<head, tail, gq, item, todo, h, victim, oh, n, got>>

StealWins(t) ==
  /\ pc[t] = "steal_cas"
  /\ head[victim[t]] = oh[t]
  /\ head' = [head EXCEPT ![victim[t]] = oh[t] + n[t]]
  /\ pc' = [pc EXCEPT ![t] = "keep"]
  /\ UNCHANGED <<tail, buf, gq, item, todo, h, victim, oh, n, i, got>>

StealLoses(t) ==
  /\ pc[t] = "steal_cas"
  /\ head[victim[t]] # oh[t]
  /\ pc' = [pc EXCEPT ![t] = "steal"]
  /\ UNCHANGED <<head, tail, buf, gq, item, todo, h, victim, oh, n, i, got>>

StealKeeps(t) ==
  /\ pc[t] = "keep"
  /\ tail' = [tail EXCEPT ![t] = tail[t] + n[t] - 1]
  /\ pc' = [pc EXCEPT ![t] = "work"]
  /\ item' = [item EXCEPT ![t] = Nothing]
  /\ todo' = [todo EXCEPT ![t] = Children[Slot(t, tail[t] + n[t] - 1)]]
  /\ got' = [got EXCEPT ![Slot(t, tail[t] + n[t] - 1)] = @ + 1]
  /\ UNCHANGED <<head, buf, gq, h, victim, oh, n, i>>

WorkDone(t) ==
  /\ pc[t] = "work"
  /\ todo[t] = <<>>
  /\ pc' = [pc EXCEPT ![t] = "find"]
  /\ UNCHANGED <<head, tail, buf, gq, item, todo, h, victim, oh, n, i, got>>

WorkNext(t) ==
  /\ pc[t] = "work"
  /\ todo[t] # <<>>
  /\ pc' = [pc EXCEPT ![t] = "push"]
  /\ item' = [item EXCEPT ![t] = Head(todo[t])]
  /\ todo' = [todo EXCEPT ![t] = Tail(todo[t])]
  /\ UNCHANGED <<head, tail, buf, gq, h, victim, oh, n, i, got>>

PushFits(t) ==
  /\ pc[t] = "push"
  /\ tail[t] - head[t] < N
  /\ pc' = [pc EXCEPT ![t] = "store"]
  /\ h' = [h EXCEPT ![t] = head[t]]
  /\ UNCHANGED <<head, tail, buf, gq, item, todo, victim, oh, n, i, got>>

PushFull(t) ==
  /\ pc[t] = "push"
  /\ ~(tail[t] - head[t] < N)
  /\ pc' = [pc EXCEPT ![t] = "overflow_cas"]
  /\ h' = [h EXCEPT ![t] = head[t]]
  /\ UNCHANGED <<head, tail, buf, gq, item, todo, victim, oh, n, i, got>>

PushStores(t) ==
  /\ pc[t] = "store"
  /\ tail' = [tail EXCEPT ![t] = tail[t] + 1]
  /\ buf' = [buf EXCEPT ![t] = [buf[t] EXCEPT ![tail[t] % N] = item[t]]]
  /\ pc' = [pc EXCEPT ![t] = "work"]
  /\ item' = [item EXCEPT ![t] = Nothing]
  /\ UNCHANGED <<head, gq, todo, h, victim, oh, n, i, got>>

OverflowTakes(t) ==
  /\ pc[t] = "overflow_cas"
  /\ head[t] = h[t]
  /\ head' = [head EXCEPT ![t] = head[t] + N \div 2 + 1]
  /\ pc' = [pc EXCEPT ![t] = "overflow"]
  /\ n' = [n EXCEPT ![t] = N \div 2 + 1]
  /\ i' = [i EXCEPT ![t] = 0]
  /\ UNCHANGED <<tail, buf, gq, item, todo, h, victim, oh, got>>

OverflowLoses(t) ==
  /\ pc[t] = "overflow_cas"
  /\ head[t] # h[t]
  /\ pc' = [pc EXCEPT ![t] = "push"]
  /\ UNCHANGED <<head, tail, buf, gq, item, todo, h, victim, oh, n, i, got>>

OverflowMoves(t) ==
  /\ pc[t] = "overflow"
  /\ i[t] < n[t]
  /\ gq' = gq \cup {Slot(t, i[t] + h[t])}
  /\ i' = [i EXCEPT ![t] = i[t] + 1]
  /\ UNCHANGED <<head, tail, buf, pc, item, todo, h, victim, oh, n, got>>

OverflowEnds(t) ==
  /\ pc[t] = "overflow"
  /\ i[t] = n[t]
  /\ gq' = gq \cup {item[t]}
  /\ pc' = [pc EXCEPT ![t] = "work"]
  /\ item' = [item EXCEPT ![t] = Nothing]
  /\ UNCHANGED <<head, tail, buf, todo, h, victim, oh, n, i, got>>

Ways(t) ==
  \/ Stopping(t)
  \/ PopEmpty(t)
  \/ PopSees(t)
  \/ PopTakes(t)
  \/ PopLoses(t)
  \/ \E x \in Items : GlobalTakes(t, x)
  \/ \E w \in Threads : GlobalEmpty(t, w)
  \/ StealBegins(t)
  \/ StealLooks(t)
  \/ StealAgain(t)
  \/ StealNothing(t)
  \/ StealCounts(t)
  \/ StealCopies(t)
  \/ StealWins(t)
  \/ StealLoses(t)
  \/ StealKeeps(t)
  \/ WorkDone(t)
  \/ WorkNext(t)
  \/ PushFits(t)
  \/ PushFull(t)
  \/ PushStores(t)
  \/ OverflowTakes(t)
  \/ OverflowLoses(t)
  \/ OverflowMoves(t)
  \/ OverflowEnds(t)

(* A step of a thread is one of them.                                       *)
LEMMA StepWays ==
  ASSUME StealingOK, TypeOK, NEW t \in Threads, Step(t)
  PROVE  Ways(t)
<1>1. CASE Stop(t)
  BY <1>1 DEF Ways, TypeOK, Stop, queueVars, stealVars, Goto, Stopping
<1>2. CASE PopLoad(t)
  <2>1. CASE head[t] = tail[t]
    BY <1>2, <2>1 DEF Ways, TypeOK, PopLoad, queueVars, stealVars, Goto, PopEmpty
  <2>2. CASE head[t] # tail[t]
    BY <1>2, <2>2 DEF Ways, TypeOK, PopLoad, queueVars, stealVars, Goto, PopSees
  <2> QED BY <2>1, <2>2
<1>3. CASE PopCas(t)
  <2>1. CASE head[t] = h[t]
    BY <1>3, <2>1 DEF Ways, TypeOK, PopCas, Got, stealVars, Goto, PopTakes
  <2>2. CASE head[t] # h[t]
    BY <1>3, <2>2 DEF Ways, TypeOK, PopCas, Got, stealVars, Goto, PopLoses
  <2> QED BY <2>1, <2>2
<1>4. CASE GlobalPop(t)
  <2>1. ASSUME NEW x \in gq, gq' = gq \ {x}, Got(t, x), UNCHANGED victim
        PROVE  GlobalTakes(t, x) /\ x \in Items
    BY <1>4, <2>1 DEF TypeOK, GlobalPop, Got, Goto, GlobalTakes
  <2>2. ASSUME NEW w \in Threads, victim' = [victim EXCEPT ![t] = w], Goto(t, "steal"),
               UNCHANGED <<gq, item, todo, got>>
        PROVE  GlobalEmpty(t, w)
    BY <1>4, <2>2 DEF TypeOK, GlobalPop, Goto, GlobalEmpty
  <2> QED BY <1>4, <2>1, <2>2 DEF GlobalPop, Ways
<1>5. CASE StealHead(t)
  BY <1>5 DEF Ways, TypeOK, StealHead, queueVars, stealVars, Goto, StealBegins
<1>6. CASE StealOtherHead(t)
  BY <1>6 DEF Ways, TypeOK, StealOtherHead, queueVars, Goto, StealLooks
<1>7. CASE StealOtherTail(t)
  <2>1. StealAgain(t) \/ StealNothing(t) \/ StealCounts(t)
    BY <1>7 DEF StealOtherTail, Goto, queueVars, StealAgain, StealNothing, StealCounts
  <2> QED BY <2>1 DEF Ways
<1>8. CASE StealCopy(t)
  BY <1>8 DEF Ways, TypeOK, StealCopy, SetSlot, Goto, StealCopies
<1>9. CASE StealCas(t)
  <2>1. CASE head[victim[t]] = oh[t]
    BY <1>9, <2>1 DEF Ways, TypeOK, StealCas, stealVars, Goto, StealWins
  <2>2. CASE head[victim[t]] # oh[t]
    BY <1>9, <2>2 DEF Ways, TypeOK, StealCas, stealVars, Goto, StealLoses
  <2> QED BY <2>1, <2>2
<1>10. CASE StealKeep(t)
  BY <1>10 DEF Ways, TypeOK, StealKeep, Got, stealVars, Goto, StealKeeps
<1>11. CASE Work(t)
  <2>1. CASE todo[t] = <<>>
    BY <1>11, <2>1 DEF Ways, TypeOK, Work, queueVars, stealVars, Goto, WorkDone
  <2>2. CASE todo[t] # <<>>
    BY <1>11, <2>2 DEF Ways, TypeOK, Work, queueVars, stealVars, Goto, WorkNext
  <2> QED BY <2>1, <2>2
<1>12. CASE PushLoad(t)
  <2>1. CASE tail[t] - head[t] < N
    BY <1>12, <2>1 DEF Ways, TypeOK, PushLoad, queueVars, stealVars, Goto, PushFits
  <2>2. CASE ~(tail[t] - head[t] < N)
    BY <1>12, <2>2 DEF Ways, TypeOK, PushLoad, queueVars, stealVars, Goto, PushFull
  <2> QED BY <2>1, <2>2
<1>13. CASE PushStore(t)
  BY <1>13 DEF Ways, TypeOK, PushStore, SetSlot, stealVars, Goto, PushStores
<1>14. CASE OverflowCas(t)
  <2>1. CASE head[t] = h[t]
    BY <1>14, <2>1 DEF Ways, TypeOK, OverflowCas, Goto, OverflowTakes
  <2>2. CASE head[t] # h[t]
    BY <1>14, <2>2 DEF Ways, TypeOK, OverflowCas, Goto, OverflowLoses
  <2> QED BY <2>1, <2>2
<1>15. CASE Overflow(t)
  BY <1>15 DEF Ways, TypeOK, Overflow, OverflowMoves
<1>16. CASE OverflowValue(t)
  BY <1>16 DEF Ways, TypeOK, OverflowValue, stealVars, Goto, OverflowEnds
<1> QED BY <1>1, <1>2, <1>3, <1>4, <1>5, <1>6, <1>7, <1>8, <1>9, <1>10, <1>11, <1>12, <1>13, <1>14, <1>15, <1>16
           DEF Step

----------------------------------------------------------------------------
(* What a step of t leaves alone of every other thread.                     *)
Others(t) ==
  \A u \in Threads \ {t} :
    /\ tail'[u] = tail[u] /\ buf'[u] = buf[u] /\ pc'[u] = pc[u]
    /\ item'[u] = item[u] /\ todo'[u] = todo[u] /\ h'[u] = h[u]
    /\ victim'[u] = victim[u] /\ oh'[u] = oh[u] /\ n'[u] = n[u] /\ i'[u] = i[u]

(* A step of a thread changes of another thread only its head_.             *)
LEMMA OthersKept ==
  ASSUME StealingOK, TypeOK, NEW t \in Threads, Step(t)
  PROVE  Others(t)
<1>0. TypeOK
  OBVIOUS
<1>1. CASE Stopping(t)
  BY <1>0, <1>1 DEF TypeOK, Others, Stopping
<1>2. CASE PopEmpty(t)
  BY <1>0, <1>2 DEF TypeOK, Others, PopEmpty
<1>3. CASE PopSees(t)
  BY <1>0, <1>3 DEF TypeOK, Others, PopSees
<1>4. CASE PopTakes(t)
  BY <1>0, <1>4 DEF TypeOK, Others, PopTakes
<1>5. CASE PopLoses(t)
  BY <1>0, <1>5 DEF TypeOK, Others, PopLoses
<1>6. ASSUME NEW x \in Items, GlobalTakes(t, x)
      PROVE  Others(t)
  BY <1>0, <1>6 DEF TypeOK, Others, GlobalTakes
<1>7. ASSUME NEW w \in Threads, GlobalEmpty(t, w)
      PROVE  Others(t)
  BY <1>0, <1>7 DEF TypeOK, Others, GlobalEmpty
<1>8. CASE StealBegins(t)
  BY <1>0, <1>8 DEF TypeOK, Others, StealBegins
<1>9. CASE StealLooks(t)
  BY <1>0, <1>9 DEF TypeOK, Others, StealLooks
<1>10. CASE StealAgain(t)
  BY <1>0, <1>10 DEF TypeOK, Others, StealAgain
<1>11. CASE StealNothing(t)
  BY <1>0, <1>11 DEF TypeOK, Others, StealNothing
<1>12. CASE StealCounts(t)
  BY <1>0, <1>12 DEF TypeOK, Others, StealCounts
<1>13. CASE StealCopies(t)
  BY <1>0, <1>13 DEF TypeOK, Others, StealCopies
<1>14. CASE StealWins(t)
  BY <1>0, <1>14 DEF TypeOK, Others, StealWins
<1>15. CASE StealLoses(t)
  BY <1>0, <1>15 DEF TypeOK, Others, StealLoses
<1>16. CASE StealKeeps(t)
  BY <1>0, <1>16 DEF TypeOK, Others, StealKeeps
<1>17. CASE WorkDone(t)
  BY <1>0, <1>17 DEF TypeOK, Others, WorkDone
<1>18. CASE WorkNext(t)
  BY <1>0, <1>18 DEF TypeOK, Others, WorkNext
<1>19. CASE PushFits(t)
  BY <1>0, <1>19 DEF TypeOK, Others, PushFits
<1>20. CASE PushFull(t)
  BY <1>0, <1>20 DEF TypeOK, Others, PushFull
<1>21. CASE PushStores(t)
  BY <1>0, <1>21 DEF TypeOK, Others, PushStores
<1>22. CASE OverflowTakes(t)
  BY <1>0, <1>22 DEF TypeOK, Others, OverflowTakes
<1>23. CASE OverflowLoses(t)
  BY <1>0, <1>23 DEF TypeOK, Others, OverflowLoses
<1>24. CASE OverflowMoves(t)
  BY <1>0, <1>24 DEF TypeOK, Others, OverflowMoves
<1>25. CASE OverflowEnds(t)
  BY <1>0, <1>25 DEF TypeOK, Others, OverflowEnds
<1> QED
  BY StepWays, <1>0, <1>1, <1>2, <1>3, <1>4, <1>5, <1>6, <1>7, <1>8, <1>9, <1>10, <1>11, <1>12, <1>13, <1>14,
     <1>15, <1>16, <1>17, <1>18, <1>19, <1>20, <1>21, <1>22, <1>23, <1>24, <1>25 DEF Ways

(* The numbers of a thread, and its victim.                                 *)
LEMMA Numbers ==
  ASSUME StealingOK, TypeOK, NEW t \in Threads
  PROVE  /\ head[t] \in Nat /\ tail[t] \in Nat /\ h[t] \in Nat /\ oh[t] \in Nat
         /\ n[t] \in Nat /\ i[t] \in Nat /\ i[t] <= n[t]
         /\ victim[t] \in Threads /\ N \in Nat \ {0}
BY HalfOfN DEF TypeOK, StealingOK

(* The indices of the items a thread owns.                                  *)
LEMMA OwnedIs ==
  ASSUME StealingOK, TypeOK, NEW t \in Threads, NEW k
  PROVE  k \in Owned(t) <=>
           /\ k \in Nat
           /\ \/ head[t] <= k /\ k < tail[t]
              \/ pc[t] = "keep" /\ tail[t] <= k /\ k < tail[t] + n[t]
              \/ pc[t] = "overflow" /\ h[t] + i[t] <= k /\ k < h[t] + n[t]
BY Numbers DEF Owned

(* The same after a step.                                                   *)
LEMMA OwnedIsNext ==
  ASSUME StealingOK, TypeOK', NEW t \in Threads, NEW k
  PROVE  k \in Owned(t)' <=>
           /\ k \in Nat
           /\ \/ head'[t] <= k /\ k < tail'[t]
              \/ pc'[t] = "keep" /\ tail'[t] <= k /\ k < tail'[t] + n'[t]
              \/ pc'[t] = "overflow" /\ h'[t] + i'[t] <= k /\ k < h'[t] + n'[t]
<1>1. /\ head'[t] \in Nat /\ tail'[t] \in Nat /\ h'[t] \in Nat
      /\ n'[t] \in Nat /\ i'[t] \in Nat
  BY HalfOfN DEF TypeOK
<1> QED BY <1>1 DEF Owned

(* A slot has an item or nothing.                                           *)
LEMMA SlotType ==
  ASSUME StealingOK, TypeOK, NEW t \in Threads, NEW k \in Nat
  PROVE  Slot(t, k) \in Items \cup {Nothing}
<1>1. k % N \in 0 .. (N - 1)
  BY ModRange
<1>2. buf[t] \in [0 .. (N - 1) -> Items \cup {Nothing}]
  BY DEF TypeOK
<1> QED BY <1>1, <1>2 DEF Slot

(* The variables have their types.                                          *)
LEMMA TypeStep ==
  ASSUME StealingOK, Inv, NEW t \in Threads, Step(t)
  PROVE  TypeOK'
<1>0. TypeOK /\ Ends(t) /\ Local(t) /\ \A k \in Owned(t) : Slot(t, k) \in Items
  BY DEF Inv, Placed, Real
<1>nat. /\ head[t] \in Nat /\ tail[t] \in Nat /\ h[t] \in Nat /\ oh[t] \in Nat
      /\ n[t] \in Nat /\ i[t] \in Nat /\ i[t] <= n[t]
      /\ victim[t] \in Threads /\ N \in Nat \ {0}
  BY <1>0, Numbers
<1>head. head \in [Threads -> Nat]
  BY <1>0 DEF TypeOK
<1>tail. tail \in [Threads -> Nat]
  BY <1>0 DEF TypeOK
<1>buf. buf \in [Threads -> [0 .. (N - 1) -> Items \cup {Nothing}]]
  BY <1>0 DEF TypeOK
<1>gq. gq \subseteq Items
  BY <1>0 DEF TypeOK
<1>pc. pc \in [Threads -> Pcs]
  BY <1>0 DEF TypeOK
<1>item. item \in [Threads -> Items \cup {Nothing}]
  BY <1>0 DEF TypeOK
<1>todo. todo \in [Threads -> Seq(Items)]
  BY <1>0 DEF TypeOK
<1>h. h \in [Threads -> Nat]
  BY <1>0 DEF TypeOK
<1>victim. victim \in [Threads -> Threads]
  BY <1>0 DEF TypeOK
<1>oh. oh \in [Threads -> Nat]
  BY <1>0 DEF TypeOK
<1>n. n \in [Threads -> 0 .. (N \div 2 + 1)]
  BY <1>0 DEF TypeOK
<1>i. i \in [Threads -> Nat]
  BY <1>0 DEF TypeOK
<1>got. got \in [Items -> Nat]
  BY <1>0 DEF TypeOK
<1>1. CASE Stopping(t)
  BY <1>0, <1>1 DEF TypeOK, Pcs, Stopping
<1>2. CASE PopEmpty(t)
  BY <1>0, <1>2 DEF TypeOK, Pcs, PopEmpty
<1>3. CASE PopSees(t)
  BY <1>0, <1>3 DEF TypeOK, Pcs, PopSees
<1>4. CASE PopTakes(t)
  <2>1. h[t] \in Owned(t) /\ Slot(t, h[t]) \in Items
    BY <1>0, <1>nat, <1>4, OwnedIs DEF Ends, Local, PopTakes
  <2>2. Children[Slot(t, h[t])] \in Seq(Items)
    BY <2>1 DEF StealingOK
  <2>3. head' \in [Threads -> Nat]
    BY <1>head, <1>oh, <1>nat, <1>head, <1>4, <2>1, <2>2 DEF PopTakes
  <2>4. pc' \in [Threads -> Pcs]
    BY <1>pc, <1>4, <2>1, <2>2 DEF PopTakes, Pcs
  <2>5. item' \in [Threads -> Items \cup {Nothing}]
    BY <1>item, <1>4, <2>1, <2>2, <1>todo DEF PopTakes
  <2>6. todo' \in [Threads -> Seq(Items)]
    BY <1>todo, <1>4, <2>2 DEF PopTakes
  <2>7. got' \in [Items -> Nat]
    BY <1>got, <1>4, <2>1, <2>2 DEF PopTakes
  <2> QED BY <1>0, <1>4, <2>3, <2>4, <2>5, <2>6, <2>7 DEF TypeOK, PopTakes
<1>5. CASE PopLoses(t)
  BY <1>0, <1>5 DEF TypeOK, Pcs, PopLoses
<1>6. ASSUME NEW x \in Items, GlobalTakes(t, x)
      PROVE  TypeOK'
  <2>1. x \in Items
    BY <1>6
  <2>2. Children[x] \in Seq(Items)
    BY DEF StealingOK
  <2>3. gq' \subseteq Items
    BY <1>gq, <1>6, <2>1, <2>2 DEF GlobalTakes
  <2>4. pc' \in [Threads -> Pcs]
    BY <1>pc, <1>6, <2>1, <2>2 DEF GlobalTakes, Pcs
  <2>5. item' \in [Threads -> Items \cup {Nothing}]
    BY <1>item, <1>6, <2>1, <2>2, <1>todo DEF GlobalTakes
  <2>6. todo' \in [Threads -> Seq(Items)]
    BY <1>todo, <1>6, <2>2 DEF GlobalTakes
  <2>7. got' \in [Items -> Nat]
    BY <1>got, <1>6, <2>1, <2>2 DEF GlobalTakes
  <2> QED BY <1>0, <1>6, <2>3, <2>4, <2>5, <2>6, <2>7 DEF TypeOK, GlobalTakes
<1>7. ASSUME NEW w \in Threads, GlobalEmpty(t, w)
      PROVE  TypeOK'
  BY <1>0, <1>7 DEF TypeOK, Pcs, GlobalEmpty
<1>8. CASE StealBegins(t)
  BY <1>0, <1>8 DEF TypeOK, Pcs, StealBegins
<1>9. CASE StealLooks(t)
  BY <1>0, <1>9 DEF TypeOK, Pcs, StealLooks
<1>10. CASE StealAgain(t)
  BY <1>0, <1>10 DEF TypeOK, Pcs, StealAgain
<1>11. CASE StealNothing(t)
  BY <1>0, <1>11 DEF TypeOK, Pcs, StealNothing
<1>12. CASE StealCounts(t)
  <2>0. tail[victim[t]] \in Nat /\ tail[t] <= h[t] + N
    BY <1>0, <1>nat, <1>12, Numbers DEF Local, StealCounts
  <2>1. StealCount(t) \in Int /\ StealCount(t) <= N \div 2 + 1
    BY <2>0, <1>nat, <1>12 DEF StealCount, StealCounts
  <2>2. StealCount(t) >= 0
    BY <2>0, <1>nat, <1>12 DEF StealCount, StealCounts
  <2>3. pc' \in [Threads -> Pcs]
    BY <1>pc, <1>12, <2>0, <2>1, <2>2 DEF StealCounts, Pcs
  <2>4. n' \in [Threads -> 0 .. (N \div 2 + 1)]
    BY <1>n, <1>nat, <1>12, <2>0, <2>1, <2>2 DEF StealCounts
  <2>5. i' \in [Threads -> Nat]
    BY <1>i, <1>12, <2>0, <2>1, <2>2 DEF StealCounts
  <2>6. \A u \in Threads : i'[u] <= n'[u]
    BY <1>i, <1>nat, <1>0, <1>12, <2>0, <2>1, <2>2 DEF TypeOK, StealCounts
  <2> QED BY <1>0, <1>12, <2>3, <2>4, <2>5, <2>6 DEF TypeOK, StealCounts
<1>13. CASE StealCopies(t)
  <2>1. i[t] < n[t] /\ i[t] + tail[t] \in Nat /\ i[t] + oh[t] \in Nat
    BY <1>0, <1>nat, <1>13 DEF Local, StealCopies
  <2>2. (i[t] + tail[t]) % N \in 0 .. (N - 1) /\ (i[t] + oh[t]) % N \in 0 .. (N - 1)
    BY <2>1, ModRange
  <2>3. Slot(victim[t], i[t] + oh[t]) \in Items \cup {Nothing}
    BY <1>0, <1>nat, <2>1, SlotType
  <2>4. buf' \in [Threads -> [0 .. (N - 1) -> Items \cup {Nothing}]]
    BY <1>buf, <1>13, <2>1, <2>2, <2>3, <1>item DEF StealCopies
  <2>5. pc' \in [Threads -> Pcs]
    BY <1>pc, <1>13, <2>1, <2>2, <2>3 DEF StealCopies, Pcs
  <2>6. i' \in [Threads -> Nat]
    BY <1>i, <1>13, <2>1, <2>2, <2>3 DEF StealCopies
  <2>7. \A u \in Threads : i'[u] <= n'[u]
    <3>1. n' = n /\ i' = [i EXCEPT ![t] = i[t] + 1]
      BY <1>13 DEF StealCopies
    <3>2. \A u \in Threads : i[u] <= n[u]
      BY <1>0 DEF TypeOK
    <3> QED BY <1>i, <1>nat, <2>1, <3>1, <3>2
  <2> QED BY <1>0, <1>13, <2>4, <2>5, <2>6, <2>7 DEF TypeOK, StealCopies
<1>14. CASE StealWins(t)
  <2>1. head' \in [Threads -> Nat]
    BY <1>head, <1>oh, <1>nat, <1>head, <1>14 DEF StealWins
  <2>2. pc' \in [Threads -> Pcs]
    BY <1>pc, <1>14 DEF StealWins, Pcs
  <2> QED BY <1>0, <1>14, <2>1, <2>2 DEF TypeOK, StealWins
<1>15. CASE StealLoses(t)
  BY <1>0, <1>15 DEF TypeOK, Pcs, StealLoses
<1>16. CASE StealKeeps(t)
  <2>1. tail[t] + n[t] - 1 \in Owned(t) /\ Slot(t, tail[t] + n[t] - 1) \in Items
    BY <1>0, <1>nat, <1>16, OwnedIs, SMTT(30) DEF Local, StealKeeps
  <2>2. Children[Slot(t, tail[t] + n[t] - 1)] \in Seq(Items)
    BY <2>1 DEF StealingOK
  <2>3. n[t] > 0
    BY <1>0, <1>16 DEF Local, StealKeeps
  <2>4. tail' \in [Threads -> Nat]
    BY <1>tail, <1>16, <2>1, <2>2, <2>3, <1>nat DEF StealKeeps
  <2>5. pc' \in [Threads -> Pcs]
    BY <1>pc, <1>16, <2>1, <2>2, <2>3 DEF StealKeeps, Pcs
  <2>6. item' \in [Threads -> Items \cup {Nothing}]
    BY <1>item, <1>16, <2>1, <2>2, <2>3, <1>todo DEF StealKeeps
  <2>7. todo' \in [Threads -> Seq(Items)]
    BY <1>todo, <1>16, <2>2 DEF StealKeeps
  <2>8. got' \in [Items -> Nat]
    BY <1>got, <1>16, <2>1, <2>2, <2>3 DEF StealKeeps
  <2> QED BY <1>0, <1>16, <2>4, <2>5, <2>6, <2>7, <2>8 DEF TypeOK, StealKeeps
<1>17. CASE WorkDone(t)
  BY <1>0, <1>17 DEF TypeOK, Pcs, WorkDone
<1>18. CASE WorkNext(t)
  <2>1. pc' \in [Threads -> Pcs]
    BY <1>pc, <1>18 DEF WorkNext, Pcs
  <2>2. item' \in [Threads -> Items \cup {Nothing}]
    BY <1>item, <1>18, <1>todo DEF WorkNext
  <2>3. todo' \in [Threads -> Seq(Items)]
    BY <1>todo, <1>18 DEF WorkNext
  <2> QED BY <1>0, <1>18, <2>1, <2>2, <2>3 DEF TypeOK, WorkNext
<1>19. CASE PushFits(t)
  BY <1>0, <1>19 DEF TypeOK, Pcs, PushFits
<1>20. CASE PushFull(t)
  BY <1>0, <1>20 DEF TypeOK, Pcs, PushFull
<1>21. CASE PushStores(t)
  <2>1. tail[t] % N \in 0 .. (N - 1)
    BY <1>0, ModRange DEF TypeOK
  <2>2. tail' \in [Threads -> Nat]
    BY <1>tail, <1>21, <2>1, <1>nat DEF PushStores
  <2>3. buf' \in [Threads -> [0 .. (N - 1) -> Items \cup {Nothing}]]
    BY <1>buf, <1>21, <2>1, <1>item DEF PushStores
  <2>4. pc' \in [Threads -> Pcs]
    BY <1>pc, <1>21, <2>1 DEF PushStores, Pcs
  <2>5. item' \in [Threads -> Items \cup {Nothing}]
    BY <1>item, <1>21, <2>1, <1>todo DEF PushStores
  <2> QED BY <1>0, <1>21, <2>2, <2>3, <2>4, <2>5 DEF TypeOK, PushStores
<1>22. CASE OverflowTakes(t)
  <2>1. head' \in [Threads -> Nat]
    BY <1>head, <1>oh, <1>nat, <1>head, <1>22, HalfOfN DEF OverflowTakes
  <2>2. pc' \in [Threads -> Pcs]
    BY <1>pc, <1>22 DEF OverflowTakes, Pcs
  <2>3. n' \in [Threads -> 0 .. (N \div 2 + 1)]
    BY <1>n, <1>nat, <1>22, HalfOfN DEF OverflowTakes
  <2>4. i' \in [Threads -> Nat]
    BY <1>i, <1>22 DEF OverflowTakes
  <2>5. \A u \in Threads : i'[u] <= n'[u]
    BY <1>i, <1>nat, <1>0, <1>22, HalfOfN DEF TypeOK, OverflowTakes
  <2> QED BY <1>0, <1>22, <2>1, <2>2, <2>3, <2>4, <2>5 DEF TypeOK, OverflowTakes
<1>23. CASE OverflowLoses(t)
  BY <1>0, <1>23 DEF TypeOK, Pcs, OverflowLoses
<1>24. CASE OverflowMoves(t)
  <2>1. Slot(t, i[t] + h[t]) \in Items
    BY <1>0, <1>nat, <1>24, OwnedIs DEF Local, OverflowMoves
  <2>2. gq' \subseteq Items
    BY <1>gq, <1>24, <2>1 DEF OverflowMoves
  <2>3. i' \in [Threads -> Nat]
    BY <1>i, <1>24, <2>1 DEF OverflowMoves
  <2>4. \A u \in Threads : i'[u] <= n'[u]
    BY <1>i, <1>nat, <1>0, <1>24, <2>1 DEF TypeOK, OverflowMoves
  <2> QED BY <1>0, <1>24, <2>2, <2>3, <2>4 DEF TypeOK, OverflowMoves
<1>25. CASE OverflowEnds(t)
  <2>1. item[t] \in Items
    BY <1>0, <1>25 DEF Local, OverflowEnds, TypeOK
  <2>2. gq' \subseteq Items
    BY <1>gq, <1>25, <2>1 DEF OverflowEnds
  <2>3. pc' \in [Threads -> Pcs]
    BY <1>pc, <1>25, <2>1 DEF OverflowEnds, Pcs
  <2>4. item' \in [Threads -> Items \cup {Nothing}]
    BY <1>item, <1>25, <2>1, <1>todo DEF OverflowEnds
  <2> QED BY <1>0, <1>25, <2>2, <2>3, <2>4 DEF TypeOK, OverflowEnds
<1> QED
  BY StepWays, <1>0, <1>1, <1>2, <1>3, <1>4, <1>5, <1>6, <1>7, <1>8, <1>9, <1>10, <1>11, <1>12, <1>13, <1>14,
     <1>15, <1>16, <1>17, <1>18, <1>19, <1>20, <1>21, <1>22, <1>23, <1>24, <1>25 DEF Ways

----------------------------------------------------------------------------
(* head_ only grows, and so does tail_; a full steal or an overflow leaves  *)
(* head_ at tail_ or before.                                                *)
LEMMA EndsGrow ==
  ASSUME StealingOK, Inv, NEW t \in Threads, Step(t)
  PROVE  \A u \in Threads : /\ head[u] <= head'[u] /\ tail[u] <= tail'[u]
                            /\ head'[u] <= tail'[u] /\ tail'[u] <= head'[u] + N
<1>0. TypeOK /\ Local(t) /\ Thief(t)
  BY DEF Inv
<1>1a. \A u \in Threads : head[u] <= tail[u] /\ tail[u] <= head[u] + N /\ h[u] <= head[u]
  BY DEF Inv, Ends
<1>nat. \A u \in Threads :
          /\ head[u] \in Nat /\ tail[u] \in Nat /\ h[u] \in Nat /\ oh[u] \in Nat
          /\ n[u] \in Nat /\ i[u] \in Nat /\ i[u] <= n[u]
          /\ victim[u] \in Threads /\ N \in Nat \ {0}
  BY <1>0, Numbers
<1>head. head \in [Threads -> Nat]
  BY <1>0 DEF TypeOK
<1>tail. tail \in [Threads -> Nat]
  BY <1>0 DEF TypeOK
<1>1. CASE Stopping(t)
  BY <1>1, <1>1a, <1>nat DEF Stopping
<1>2. CASE PopEmpty(t)
  BY <1>2, <1>1a, <1>nat DEF PopEmpty
<1>3. CASE PopSees(t)
  BY <1>3, <1>1a, <1>nat DEF PopSees
<1>4. CASE PopTakes(t)
  <2>1. h[t] < tail[t]
    BY <1>0, <1>4 DEF Local, PopTakes
  <2> QED BY <1>1a, <1>nat, <1>head, <1>tail, <1>4, <2>1 DEF PopTakes
<1>5. CASE PopLoses(t)
  BY <1>5, <1>1a, <1>nat DEF PopLoses
<1>6. ASSUME NEW x \in Items, GlobalTakes(t, x)
      PROVE  \A u \in Threads : /\ head[u] <= head'[u] /\ tail[u] <= tail'[u]
                                    /\ head'[u] <= tail'[u] /\ tail'[u] <= head'[u] + N
  BY <1>6, <1>1a, <1>nat DEF GlobalTakes
<1>7. ASSUME NEW w \in Threads, GlobalEmpty(t, w)
      PROVE  \A u \in Threads : /\ head[u] <= head'[u] /\ tail[u] <= tail'[u]
                                    /\ head'[u] <= tail'[u] /\ tail'[u] <= head'[u] + N
  BY <1>7, <1>1a, <1>nat DEF GlobalEmpty
<1>8. CASE StealBegins(t)
  BY <1>8, <1>1a, <1>nat DEF StealBegins
<1>9. CASE StealLooks(t)
  BY <1>9, <1>1a, <1>nat DEF StealLooks
<1>10. CASE StealAgain(t)
  BY <1>10, <1>1a, <1>nat DEF StealAgain
<1>11. CASE StealNothing(t)
  BY <1>11, <1>1a, <1>nat DEF StealNothing
<1>12. CASE StealCounts(t)
  BY <1>12, <1>1a, <1>nat DEF StealCounts
<1>13. CASE StealCopies(t)
  BY <1>13, <1>1a, <1>nat DEF StealCopies
<1>14. CASE StealWins(t)
  <2>1. oh[t] + n[t] <= tail[victim[t]]
    BY <1>0, <1>14 DEF Thief, StealWins
  <2> QED BY <1>1a, <1>nat, <1>head, <1>tail, <1>14, <2>1 DEF StealWins
<1>15. CASE StealLoses(t)
  BY <1>15, <1>1a, <1>nat DEF StealLoses
<1>16. CASE StealKeeps(t)
  <2>1. n[t] > 0 /\ tail[t] + n[t] <= h[t] + N
    BY <1>0, <1>16 DEF Local, StealKeeps
  <2> QED BY <1>1a, <1>nat, <1>head, <1>tail, <1>16, <2>1 DEF StealKeeps
<1>17. CASE WorkDone(t)
  BY <1>17, <1>1a, <1>nat DEF WorkDone
<1>18. CASE WorkNext(t)
  BY <1>18, <1>1a, <1>nat DEF WorkNext
<1>19. CASE PushFits(t)
  BY <1>19, <1>1a, <1>nat DEF PushFits
<1>20. CASE PushFull(t)
  BY <1>20, <1>1a, <1>nat DEF PushFull
<1>21. CASE PushStores(t)
  <2>1. tail[t] - h[t] < N
    BY <1>0, <1>21 DEF Local, PushStores
  <2> QED BY <1>1a, <1>nat, <1>head, <1>tail, <1>21, <2>1 DEF PushStores
<1>22. CASE OverflowTakes(t)
  <2>1. tail[t] - h[t] >= N
    BY <1>0, <1>22 DEF Local, OverflowTakes
  <2> QED BY <1>1a, <1>nat, <1>head, <1>tail, <1>22, <2>1, HalfOfN DEF OverflowTakes
<1>23. CASE OverflowLoses(t)
  BY <1>23, <1>1a, <1>nat DEF OverflowLoses
<1>24. CASE OverflowMoves(t)
  BY <1>24, <1>1a, <1>nat DEF OverflowMoves
<1>25. CASE OverflowEnds(t)
  BY <1>25, <1>1a, <1>nat DEF OverflowEnds
<1> QED
  BY StepWays, <1>0, <1>1, <1>2, <1>3, <1>4, <1>5, <1>6, <1>7, <1>8, <1>9, <1>10, <1>11, <1>12, <1>13, <1>14,
     <1>15, <1>16, <1>17, <1>18, <1>19, <1>20, <1>21, <1>22, <1>23, <1>24, <1>25 DEF Ways

(* A slot that is in a queue, and one that its owner has stolen or takes    *)
(* out, is not written before it has left it.                               *)
LEMMA KeptSlots ==
  ASSUME StealingOK, Inv, NEW t \in Threads, Step(t), NEW u \in Threads, NEW k \in Owned(u)
  PROVE  buf'[u][k % N] = Slot(u, k)
<1>0. TypeOK /\ Local(t) /\ Ends(t)
  BY DEF Inv
<1>nat. \A v \in Threads :
          /\ head[v] \in Nat /\ tail[v] \in Nat /\ h[v] \in Nat /\ oh[v] \in Nat
          /\ n[v] \in Nat /\ i[v] \in Nat /\ i[v] <= n[v]
          /\ victim[v] \in Threads /\ N \in Nat \ {0}
  BY <1>0, Numbers
<1>buf. buf \in [Threads -> [0 .. (N - 1) -> Items \cup {Nothing}]]
  BY <1>0 DEF TypeOK
<1>1. CASE Stopping(t)
  BY <1>1 DEF Slot, Stopping
<1>2. CASE PopEmpty(t)
  BY <1>2 DEF Slot, PopEmpty
<1>3. CASE PopSees(t)
  BY <1>3 DEF Slot, PopSees
<1>4. CASE PopTakes(t)
  BY <1>4 DEF Slot, PopTakes
<1>5. CASE PopLoses(t)
  BY <1>5 DEF Slot, PopLoses
<1>6. ASSUME NEW x \in Items, GlobalTakes(t, x)
      PROVE  buf'[u][k % N] = Slot(u, k)
  BY <1>6 DEF Slot, GlobalTakes
<1>7. ASSUME NEW w \in Threads, GlobalEmpty(t, w)
      PROVE  buf'[u][k % N] = Slot(u, k)
  BY <1>7 DEF Slot, GlobalEmpty
<1>8. CASE StealBegins(t)
  BY <1>8 DEF Slot, StealBegins
<1>9. CASE StealLooks(t)
  BY <1>9 DEF Slot, StealLooks
<1>10. CASE StealAgain(t)
  BY <1>10 DEF Slot, StealAgain
<1>11. CASE StealNothing(t)
  BY <1>11 DEF Slot, StealNothing
<1>12. CASE StealCounts(t)
  BY <1>12 DEF Slot, StealCounts
<1>13. CASE StealCopies(t)
  <2>1. CASE u # t
    BY <1>13, <1>buf, <2>1 DEF Slot, StealCopies
  <2>2. CASE u = t
    <3>1. i[t] < n[t] /\ tail[t] + n[t] <= h[t] + N
      BY <1>0, <1>13 DEF Local, StealCopies
    <3>2. k \in Nat /\ head[t] <= k /\ k < tail[t]
      BY <1>0, <1>13, <2>2, OwnedIs DEF StealCopies
    <3>3. i[t] + tail[t] \in Nat /\ k < i[t] + tail[t] /\ i[t] + tail[t] < k + N /\ N \in Nat
      BY <1>0, <1>nat, <3>1, <3>2 DEF Ends
    <3>4. (i[t] + tail[t]) % N # k % N
      BY <3>2, <3>3, ModEq
    <3>5. buf'[t] = [buf[t] EXCEPT ![(i[t] + tail[t]) % N] = Slot(victim[t], i[t] + oh[t])]
      BY <1>13, <1>buf DEF StealCopies
    <3>6. (i[t] + tail[t]) % N \in 0 .. (N - 1) /\ k % N \in 0 .. (N - 1)
      BY <3>2, <3>3, ModRange
    <3> QED BY <2>2, <3>4, <3>5, <3>6, <1>buf DEF Slot
  <2> QED BY <2>1, <2>2
<1>14. CASE StealWins(t)
  BY <1>14 DEF Slot, StealWins
<1>15. CASE StealLoses(t)
  BY <1>15 DEF Slot, StealLoses
<1>16. CASE StealKeeps(t)
  BY <1>16 DEF Slot, StealKeeps
<1>17. CASE WorkDone(t)
  BY <1>17 DEF Slot, WorkDone
<1>18. CASE WorkNext(t)
  BY <1>18 DEF Slot, WorkNext
<1>19. CASE PushFits(t)
  BY <1>19 DEF Slot, PushFits
<1>20. CASE PushFull(t)
  BY <1>20 DEF Slot, PushFull
<1>21. CASE PushStores(t)
  <2>1. CASE u # t
    BY <1>21, <1>buf, <2>1 DEF Slot, PushStores
  <2>2. CASE u = t
    <3>1. tail[t] - h[t] < N
      BY <1>0, <1>21 DEF Local, PushStores
    <3>2. k \in Nat /\ head[t] <= k /\ k < tail[t]
      BY <1>0, <1>21, <2>2, OwnedIs DEF PushStores
    <3>3. tail[t] \in Nat /\ k < tail[t] /\ tail[t] < k + N /\ N \in Nat
      BY <1>0, <1>nat, <3>1, <3>2 DEF Ends
    <3>4. (tail[t]) % N # k % N
      BY <3>2, <3>3, ModEq
    <3>5. buf'[t] = [buf[t] EXCEPT ![(tail[t]) % N] = item[t]]
      BY <1>21, <1>buf DEF PushStores
    <3>6. (tail[t]) % N \in 0 .. (N - 1) /\ k % N \in 0 .. (N - 1)
      BY <3>2, <3>3, ModRange
    <3> QED BY <2>2, <3>4, <3>5, <3>6, <1>buf DEF Slot
  <2> QED BY <2>1, <2>2
<1>22. CASE OverflowTakes(t)
  BY <1>22 DEF Slot, OverflowTakes
<1>23. CASE OverflowLoses(t)
  BY <1>23 DEF Slot, OverflowLoses
<1>24. CASE OverflowMoves(t)
  BY <1>24 DEF Slot, OverflowMoves
<1>25. CASE OverflowEnds(t)
  BY <1>25 DEF Slot, OverflowEnds
<1> QED
  BY StepWays, <1>0, <1>1, <1>2, <1>3, <1>4, <1>5, <1>6, <1>7, <1>8, <1>9, <1>10, <1>11, <1>12, <1>13, <1>14,
     <1>15, <1>16, <1>17, <1>18, <1>19, <1>20, <1>21, <1>22, <1>23, <1>24, <1>25 DEF Ways

(* The ends of every queue stay in order.                                   *)
LEMMA EndsStep ==
  ASSUME StealingOK, Inv, NEW t \in Threads, Step(t)
  PROVE  \A u \in Threads : Ends(u)'
<1>0. TypeOK /\ TypeOK'
  BY TypeStep DEF Inv
<1>1a. \A u \in Threads : head[u] <= head'[u] /\ head'[u] <= tail'[u] /\ tail'[u] <= head'[u] + N
  BY EndsGrow
<1>1b. \A u \in Threads : h[u] <= head[u]
  BY DEF Inv, Ends
<1>1c. \A u \in Threads : head[u] \in Nat /\ h[u] \in Nat /\ head'[u] \in Nat /\ h'[u] \in Nat
  BY <1>0 DEF TypeOK
<1>1d. \A u \in Threads : h'[u] = h[u] \/ h'[u] = head[u]
  <2> SUFFICES ASSUME NEW u \in Threads
               PROVE  h'[u] = h[u] \/ h'[u] = head[u]
    OBVIOUS
  <2>1. CASE u # t
    BY <1>0, <2>1, OthersKept DEF Others
  <2>2. CASE u = t
    <3>1. CASE Stopping(t)
      BY <3>1, <1>0 DEF Stopping
    <3>2. CASE PopEmpty(t)
      BY <3>2, <1>0 DEF PopEmpty, TypeOK
    <3>3. CASE PopSees(t)
      BY <3>3, <1>0 DEF PopSees, TypeOK
    <3>4. CASE PopTakes(t)
      BY <3>4, <1>0 DEF PopTakes
    <3>5. CASE PopLoses(t)
      BY <3>5, <1>0 DEF PopLoses
    <3>6. ASSUME NEW x \in Items, GlobalTakes(t, x)
          PROVE  h'[t] = h[t] \/ h'[t] = head[t]
      BY <3>6 DEF GlobalTakes
    <3>7. ASSUME NEW w \in Threads, GlobalEmpty(t, w)
          PROVE  h'[t] = h[t] \/ h'[t] = head[t]
      BY <3>7 DEF GlobalEmpty
    <3>8. CASE StealBegins(t)
      BY <3>8, <1>0 DEF StealBegins, TypeOK
    <3>9. CASE StealLooks(t)
      BY <3>9, <1>0 DEF StealLooks
    <3>10. CASE StealAgain(t)
      BY <3>10, <1>0 DEF StealAgain
    <3>11. CASE StealNothing(t)
      BY <3>11, <1>0 DEF StealNothing
    <3>12. CASE StealCounts(t)
      BY <3>12, <1>0 DEF StealCounts
    <3>13. CASE StealCopies(t)
      BY <3>13, <1>0 DEF StealCopies
    <3>14. CASE StealWins(t)
      BY <3>14, <1>0 DEF StealWins
    <3>15. CASE StealLoses(t)
      BY <3>15, <1>0 DEF StealLoses
    <3>16. CASE StealKeeps(t)
      BY <3>16, <1>0 DEF StealKeeps
    <3>17. CASE WorkDone(t)
      BY <3>17, <1>0 DEF WorkDone
    <3>18. CASE WorkNext(t)
      BY <3>18, <1>0 DEF WorkNext
    <3>19. CASE PushFits(t)
      BY <3>19, <1>0 DEF PushFits, TypeOK
    <3>20. CASE PushFull(t)
      BY <3>20, <1>0 DEF PushFull, TypeOK
    <3>21. CASE PushStores(t)
      BY <3>21, <1>0 DEF PushStores
    <3>22. CASE OverflowTakes(t)
      BY <3>22, <1>0 DEF OverflowTakes
    <3>23. CASE OverflowLoses(t)
      BY <3>23, <1>0 DEF OverflowLoses
    <3>24. CASE OverflowMoves(t)
      BY <3>24, <1>0 DEF OverflowMoves
    <3>25. CASE OverflowEnds(t)
      BY <3>25, <1>0 DEF OverflowEnds
    <3> QED BY <1>0, <2>2, StepWays, <3>1, <3>2, <3>3, <3>4, <3>5, <3>6, <3>7, <3>8, <3>9, <3>10, <3>11, <3>12,
               <3>13, <3>14, <3>15, <3>16, <3>17, <3>18, <3>19, <3>20, <3>21, <3>22, <3>23, <3>24, <3>25
               DEF Ways
  <2> QED BY <2>1, <2>2
<1> QED BY <1>1a, <1>1b, <1>1c, <1>1d DEF Ends

(* What the thread itself has in its hands.                                 *)
LEMMA OwnLocalStep ==
  ASSUME StealingOK, Inv, NEW t \in Threads, Step(t)
  PROVE  Local(t)'
<1>0. TypeOK /\ Local(t) /\ Ends(t)
  BY DEF Inv
<1>0a. /\ head[t] \in Nat /\ tail[t] \in Nat /\ h[t] \in Nat /\ oh[t] \in Nat
       /\ n[t] \in Nat /\ i[t] \in Nat /\ i[t] <= n[t]
       /\ victim[t] \in Threads /\ N \in Nat \ {0}
  BY <1>0, Numbers
<1>0b. Nothing \notin Items /\ Roots \subseteq Items /\ gq \subseteq Items
  BY <1>0 DEF TypeOK, StealingOK
<1>head. head \in [Threads -> Nat]
  BY <1>0 DEF TypeOK
<1>tail. tail \in [Threads -> Nat]
  BY <1>0 DEF TypeOK
<1>pc. pc \in [Threads -> Pcs]
  BY <1>0 DEF TypeOK
<1>item. item \in [Threads -> Items \cup {Nothing}]
  BY <1>0 DEF TypeOK
<1>todo. todo \in [Threads -> Seq(Items)]
  BY <1>0 DEF TypeOK
<1>h. h \in [Threads -> Nat]
  BY <1>0 DEF TypeOK
<1>victim. victim \in [Threads -> Threads]
  BY <1>0 DEF TypeOK
<1>oh. oh \in [Threads -> Nat]
  BY <1>0 DEF TypeOK
<1>n. n \in [Threads -> 0 .. (N \div 2 + 1)]
  BY <1>0 DEF TypeOK
<1>i. i \in [Threads -> Nat]
  BY <1>0 DEF TypeOK
<1>1. CASE Stopping(t)
  <2>3. pc'[t] = "done"
    BY <1>1, <1>pc DEF Stopping
  <2>4. UNCHANGED <<head, tail, item, todo, h, victim, oh, n, i>> /\ pc[t] = "find"
    BY <1>1 DEF Stopping
  <2> QED BY <1>0, <1>0a, <1>0b, <2>3, <2>4 DEF Local, Ends
<1>2. CASE PopEmpty(t)
  <2>3. h'[t] = head[t] /\ pc'[t] = "global"
    BY <1>2, <1>h, <1>pc DEF PopEmpty
  <2>4. UNCHANGED <<head, tail, item, todo, victim, oh, n, i>> /\ pc[t] = "find" /\ head[t] = tail[t]
    BY <1>2 DEF PopEmpty
  <2> QED BY <1>0, <1>0a, <1>0b, <2>3, <2>4 DEF Local, Ends
<1>3. CASE PopSees(t)
  <2>3. h'[t] = head[t] /\ pc'[t] = "pop"
    BY <1>3, <1>h, <1>pc DEF PopSees
  <2>4. UNCHANGED <<head, tail, item, todo, victim, oh, n, i>> /\ pc[t] = "find" /\ head[t] # tail[t]
    BY <1>3 DEF PopSees
  <2> QED BY <1>0, <1>0a, <1>0b, <2>3, <2>4 DEF Local, Ends
<1>4. CASE PopTakes(t)
  <2>3. head'[t] = h[t] + 1 /\ pc'[t] = "work" /\ item'[t] = Nothing /\ todo'[t] = Children[Slot(t, h[t])]
    BY <1>4, <1>head, <1>pc, <1>item, <1>todo DEF PopTakes
  <2>4. UNCHANGED <<tail, h, victim, oh, n, i>> /\ pc[t] = "pop" /\ head[t] = h[t]
    BY <1>4 DEF PopTakes
  <2> QED BY <1>0, <1>0a, <1>0b, <2>3, <2>4 DEF Local, Ends
<1>5. CASE PopLoses(t)
  <2>3. pc'[t] = "global"
    BY <1>5, <1>pc DEF PopLoses
  <2>4. UNCHANGED <<head, tail, item, todo, h, victim, oh, n, i>> /\ pc[t] = "pop" /\ head[t] # h[t]
    BY <1>5 DEF PopLoses
  <2> QED BY <1>0, <1>0a, <1>0b, <2>3, <2>4 DEF Local, Ends
<1>6. ASSUME NEW x \in Items, GlobalTakes(t, x)
      PROVE  Local(t)'
  <2>3. pc'[t] = "work" /\ item'[t] = Nothing /\ todo'[t] = Children[x]
    BY <1>6, <1>pc, <1>item, <1>todo DEF GlobalTakes
  <2>4. UNCHANGED <<head, tail, h, victim, oh, n, i>> /\ pc[t] = "global" /\ x \in gq
    BY <1>6 DEF GlobalTakes
  <2> QED BY <1>0, <1>0a, <1>0b, <2>3, <2>4 DEF Local, Ends
<1>7. ASSUME NEW w \in Threads, GlobalEmpty(t, w)
      PROVE  Local(t)'
  <2>3. victim'[t] = w /\ pc'[t] = "steal"
    BY <1>7, <1>victim, <1>pc DEF GlobalEmpty
  <2>4. UNCHANGED <<head, tail, item, todo, h, oh, n, i>> /\ pc[t] = "global" /\ w \in Threads
    BY <1>7 DEF GlobalEmpty
  <2> QED BY <1>0, <1>0a, <1>0b, <2>3, <2>4 DEF Local, Ends
<1>8. CASE StealBegins(t)
  <2>3. h'[t] = head[t] /\ pc'[t] = "steal_head"
    BY <1>8, <1>h, <1>pc DEF StealBegins
  <2>4. UNCHANGED <<head, tail, item, todo, victim, oh, n, i>> /\ pc[t] = "steal"
    BY <1>8 DEF StealBegins
  <2> QED BY <1>0, <1>0a, <1>0b, <2>3, <2>4 DEF Local, Ends
<1>9. CASE StealLooks(t)
  <2>3. oh'[t] = head[victim[t]] /\ pc'[t] = "steal_tail"
    BY <1>9, <1>oh, <1>pc DEF StealLooks
  <2>4. UNCHANGED <<head, tail, item, todo, h, victim, n, i>> /\ pc[t] = "steal_head"
    BY <1>9 DEF StealLooks
  <2> QED BY <1>0, <1>0a, <1>0b, <2>3, <2>4 DEF Local, Ends
<1>10. CASE StealAgain(t)
  <2>3. pc'[t] = "steal"
    BY <1>10, <1>pc DEF StealAgain
  <2>4. UNCHANGED <<head, tail, item, todo, h, victim, oh, n, i>> /\ pc[t] = "steal_tail"
    BY <1>10 DEF StealAgain
  <2> QED BY <1>0, <1>0a, <1>0b, <2>3, <2>4 DEF Local, Ends
<1>11. CASE StealNothing(t)
  <2>3. pc'[t] = "find"
    BY <1>11, <1>pc DEF StealNothing
  <2>4. UNCHANGED <<head, tail, item, todo, h, victim, oh, n, i>> /\ pc[t] = "steal_tail"
    BY <1>11 DEF StealNothing
  <2> QED BY <1>0, <1>0a, <1>0b, <2>3, <2>4 DEF Local, Ends
<1>12. CASE StealCounts(t)
  <2>1. tail[victim[t]] \in Nat /\ tail[t] <= h[t] + N
    BY <1>0, <1>0a, <1>12, Numbers DEF Local, StealCounts
  <2>2. StealCount(t) > 0 /\ tail[t] + StealCount(t) <= h[t] + N
    BY <2>1, <1>0a, <1>12 DEF StealCount, StealCounts
  <2>3. n'[t] = StealCount(t) /\ i'[t] = 0 /\ pc'[t] = "copy"
    BY <1>12, <1>n, <1>i, <1>pc DEF StealCounts
  <2>4. /\ UNCHANGED <<head, tail, item, todo, h, victim, oh>> /\ pc[t] = "steal_tail"
        /\ tail[victim[t]] - oh[t] \in 0 .. N /\ StealCount(t) # 0
    BY <1>12 DEF StealCounts
  <2> QED BY <1>0, <1>0a, <1>0b, <2>3, <2>4, <2>2 DEF Local, Ends
<1>13. CASE StealCopies(t)
  <2>3. i'[t] = i[t] + 1 /\ pc'[t] = IF i[t] + 1 < n[t] THEN "copy" ELSE "steal_cas"
    BY <1>13, <1>i, <1>pc DEF StealCopies
  <2>4. UNCHANGED <<head, tail, item, todo, h, victim, oh, n>> /\ pc[t] = "copy"
    BY <1>13 DEF StealCopies
  <2> QED BY <1>0, <1>0a, <1>0b, <2>3, <2>4 DEF Local, Ends
<1>14. CASE StealWins(t)
  <2>3. head[t] <= head'[t] /\ pc'[t] = "keep"
    BY <1>14, EndsGrow, <1>head, <1>pc DEF StealWins
  <2>4. /\ UNCHANGED <<tail, item, todo, h, victim, oh, n, i>> /\ pc[t] = "steal_cas"
        /\ head[victim[t]] = oh[t]
    BY <1>14 DEF StealWins
  <2> QED BY <1>0, <1>0a, <1>0b, <2>3, <2>4 DEF Local, Ends
<1>15. CASE StealLoses(t)
  <2>3. pc'[t] = "steal"
    BY <1>15, <1>pc DEF StealLoses
  <2>4. /\ UNCHANGED <<head, tail, item, todo, h, victim, oh, n, i>> /\ pc[t] = "steal_cas"
        /\ head[victim[t]] # oh[t]
    BY <1>15 DEF StealLoses
  <2> QED BY <1>0, <1>0a, <1>0b, <2>3, <2>4 DEF Local, Ends
<1>16. CASE StealKeeps(t)
  <2>3. /\ tail'[t] = tail[t] + n[t] - 1 /\ pc'[t] = "work" /\ item'[t] = Nothing
        /\ todo'[t] = Children[Slot(t, tail[t] + n[t] - 1)]
    BY <1>16, <1>tail, <1>pc, <1>item, <1>todo DEF StealKeeps
  <2>4. UNCHANGED <<head, h, victim, oh, n, i>> /\ pc[t] = "keep"
    BY <1>16 DEF StealKeeps
  <2> QED BY <1>0, <1>0a, <1>0b, <2>3, <2>4 DEF Local, Ends
<1>17. CASE WorkDone(t)
  <2>3. pc'[t] = "find"
    BY <1>17, <1>pc DEF WorkDone
  <2>4. UNCHANGED <<head, tail, item, todo, h, victim, oh, n, i>> /\ pc[t] = "work" /\ todo[t] = <<>>
    BY <1>17 DEF WorkDone
  <2> QED BY <1>0, <1>0a, <1>0b, <2>3, <2>4 DEF Local, Ends
<1>18. CASE WorkNext(t)
  <2>1. Head(todo[t]) \in Items
    BY <1>todo, <1>18 DEF WorkNext
  <2>3. pc'[t] = "push" /\ item'[t] = Head(todo[t]) /\ todo'[t] = Tail(todo[t])
    BY <1>18, <1>pc, <1>item, <1>todo DEF WorkNext
  <2>4. UNCHANGED <<head, tail, h, victim, oh, n, i>> /\ pc[t] = "work" /\ todo[t] # <<>>
    BY <1>18 DEF WorkNext
  <2> QED BY <1>0, <1>0a, <1>0b, <2>3, <2>4, <2>1 DEF Local, Ends
<1>19. CASE PushFits(t)
  <2>3. h'[t] = head[t] /\ pc'[t] = "store"
    BY <1>19, <1>h, <1>pc DEF PushFits
  <2>4. UNCHANGED <<head, tail, item, todo, victim, oh, n, i>> /\ pc[t] = "push" /\ tail[t] - head[t] < N
    BY <1>19 DEF PushFits
  <2> QED BY <1>0, <1>0a, <1>0b, <2>3, <2>4 DEF Local, Ends
<1>20. CASE PushFull(t)
  <2>3. h'[t] = head[t] /\ pc'[t] = "overflow_cas"
    BY <1>20, <1>h, <1>pc DEF PushFull
  <2>4. UNCHANGED <<head, tail, item, todo, victim, oh, n, i>> /\ pc[t] = "push" /\ ~(tail[t] - head[t] < N)
    BY <1>20 DEF PushFull
  <2> QED BY <1>0, <1>0a, <1>0b, <2>3, <2>4 DEF Local, Ends
<1>21. CASE PushStores(t)
  <2>3. tail'[t] = tail[t] + 1 /\ item'[t] = Nothing /\ pc'[t] = "work"
    BY <1>21, <1>tail, <1>item, <1>pc DEF PushStores
  <2>4. UNCHANGED <<head, todo, h, victim, oh, n, i>> /\ pc[t] = "store"
    BY <1>21 DEF PushStores
  <2> QED BY <1>0, <1>0a, <1>0b, <2>3, <2>4 DEF Local, Ends
<1>22. CASE OverflowTakes(t)
  <2>3. head'[t] = head[t] + N \div 2 + 1 /\ n'[t] = N \div 2 + 1 /\ i'[t] = 0 /\ pc'[t] = "overflow"
    BY <1>22, <1>head, <1>n, <1>i, <1>pc DEF OverflowTakes
  <2>4. UNCHANGED <<tail, item, todo, h, victim, oh>> /\ pc[t] = "overflow_cas" /\ head[t] = h[t]
    BY <1>22 DEF OverflowTakes
  <2> QED BY <1>0, <1>0a, <1>0b, <2>3, <2>4, HalfOfN DEF Local, Ends
<1>23. CASE OverflowLoses(t)
  <2>3. pc'[t] = "push"
    BY <1>23, <1>pc DEF OverflowLoses
  <2>4. /\ UNCHANGED <<head, tail, item, todo, h, victim, oh, n, i>> /\ pc[t] = "overflow_cas"
        /\ head[t] # h[t]
    BY <1>23 DEF OverflowLoses
  <2> QED BY <1>0, <1>0a, <1>0b, <2>3, <2>4 DEF Local, Ends
<1>24. CASE OverflowMoves(t)
  <2>3. i'[t] = i[t] + 1
    BY <1>24, <1>i DEF OverflowMoves
  <2>4. UNCHANGED <<head, tail, pc, item, todo, h, victim, oh, n>> /\ pc[t] = "overflow" /\ i[t] < n[t]
    BY <1>24 DEF OverflowMoves
  <2> QED BY <1>0, <1>0a, <1>0b, <2>3, <2>4 DEF Local, Ends
<1>25. CASE OverflowEnds(t)
  <2>3. item'[t] = Nothing /\ pc'[t] = "work"
    BY <1>25, <1>item, <1>pc DEF OverflowEnds
  <2>4. UNCHANGED <<head, tail, todo, h, victim, oh, n, i>> /\ pc[t] = "overflow" /\ i[t] = n[t]
    BY <1>25 DEF OverflowEnds
  <2> QED BY <1>0, <1>0a, <1>0b, <2>3, <2>4 DEF Local, Ends
<1> QED
  BY StepWays, <1>0, <1>1, <1>2, <1>3, <1>4, <1>5, <1>6, <1>7, <1>8, <1>9, <1>10, <1>11, <1>12, <1>13, <1>14,
     <1>15, <1>16, <1>17, <1>18, <1>19, <1>20, <1>21, <1>22, <1>23, <1>24, <1>25 DEF Ways

(* What any thread has in its hands.                                        *)
LEMMA LocalStep ==
  ASSUME StealingOK, Inv, NEW t \in Threads, Step(t)
  PROVE  \A u \in Threads : Local(u)'
<1> SUFFICES ASSUME NEW u \in Threads
             PROVE  Local(u)'
  OBVIOUS
<1>1. CASE u = t
  BY <1>1, OwnLocalStep
<1>2. CASE u # t
  <2>1. /\ tail'[u] = tail[u] /\ pc'[u] = pc[u] /\ item'[u] = item[u] /\ todo'[u] = todo[u]
        /\ h'[u] = h[u] /\ n'[u] = n[u] /\ i'[u] = i[u]
    BY <1>2, OthersKept DEF Others, Inv
  <2>2. head[u] <= head'[u]
    BY EndsGrow
  <2>3. /\ head[u] \in Nat /\ tail[u] \in Nat /\ h[u] \in Nat /\ n[u] \in Nat /\ i[u] \in Nat
        /\ N \in Nat \ {0}
    BY Numbers DEF Inv
  <2>4. head'[u] \in Nat
    BY TypeStep DEF TypeOK
  <2>5. Local(u)
    BY DEF Inv
  <2> QED BY <2>1, <2>2, <2>3, <2>4, <2>5 DEF Local
<1> QED BY <1>1, <1>2

(* What another thief knows stays true while the head_ it has read is the   *)
(* current one.                                                             *)
LEMMA OtherThiefStep ==
  ASSUME StealingOK, Inv, NEW t \in Threads, Step(t), NEW u \in Threads, u # t
  PROVE  Thief(u)'
<1> DEFINE v == victim[u]
<1>1. /\ tail'[u] = tail[u] /\ buf'[u] = buf[u] /\ pc'[u] = pc[u] /\ victim'[u] = victim[u]
      /\ oh'[u] = oh[u] /\ n'[u] = n[u] /\ i'[u] = i[u]
  BY OthersKept DEF Others, Inv
<1>2. /\ v \in Threads /\ head[v] \in Nat /\ tail[v] \in Nat /\ tail[u] \in Nat /\ oh[u] \in Nat
      /\ n[u] \in Nat /\ i[u] \in Nat /\ i[u] <= n[u]
  BY Numbers DEF Inv
<1>3. head'[v] \in Nat /\ tail'[v] \in Nat
  BY <1>2, TypeStep DEF TypeOK
<1>4. head[v] <= head'[v] /\ tail[v] <= tail'[v]
  BY <1>2, EndsGrow
<1>5. Thief(u)
  BY DEF Inv
<1>6. pc[u] \in {"steal_tail", "copy", "steal_cas"} => oh[u] <= head'[v]
  BY <1>2, <1>3, <1>4, <1>5 DEF Thief
<1>7. ASSUME pc[u] \in {"copy", "steal_cas"}, head'[v] = oh[u]
      PROVE  /\ oh[u] + n[u] <= tail'[v]
             /\ \A j \in 0 .. (i[u] - 1) : buf[u][(tail[u] + j) % N] = buf'[v][(oh[u] + j) % N]
  <2>1. head[v] = oh[u]
    BY <1>2, <1>3, <1>4, <1>5, <1>7 DEF Thief
  <2>2. /\ oh[u] + n[u] <= tail[v]
        /\ \A j \in 0 .. (i[u] - 1) : Slot(u, tail[u] + j) = Slot(v, oh[u] + j)
    BY <1>5, <1>7, <2>1 DEF Thief
  <2>3. ASSUME NEW j \in 0 .. (i[u] - 1)
        PROVE  buf'[v][(oh[u] + j) % N] = Slot(v, oh[u] + j)
    <3>1. oh[u] + j \in Owned(v)
      BY <1>2, <2>1, <2>2, OwnedIs DEF Inv
    <3> QED BY <1>2, <3>1, KeptSlots
  <2> QED BY <1>2, <1>3, <1>4, <2>2, <2>3 DEF Slot
<1> QED BY <1>1, <1>6, <1>7 DEF Thief, Slot

(* What a thief that moves knows.                                           *)
LEMMA OwnThiefStep ==
  ASSUME StealingOK, Inv, NEW t \in Threads, Step(t)
  PROVE  Thief(t)'
<1>0. TypeOK /\ Local(t) /\ Thief(t) /\ \A u \in Threads : Ends(u)
  BY DEF Inv
<1>nat. \A u \in Threads :
          /\ head[u] \in Nat /\ tail[u] \in Nat /\ h[u] \in Nat /\ oh[u] \in Nat
          /\ n[u] \in Nat /\ i[u] \in Nat /\ i[u] <= n[u]
          /\ victim[u] \in Threads /\ N \in Nat \ {0}
  BY <1>0, Numbers
<1>buf. buf \in [Threads -> [0 .. (N - 1) -> Items \cup {Nothing}]]
  BY <1>0 DEF TypeOK
<1>pc. pc \in [Threads -> Pcs]
  BY <1>0 DEF TypeOK
<1>victim. victim \in [Threads -> Threads]
  BY <1>0 DEF TypeOK
<1>oh. oh \in [Threads -> Nat]
  BY <1>0 DEF TypeOK
<1>n. n \in [Threads -> 0 .. (N \div 2 + 1)]
  BY <1>0 DEF TypeOK
<1>i. i \in [Threads -> Nat]
  BY <1>0 DEF TypeOK
<1>1. CASE Stopping(t)
  <2>1. pc'[t] \notin {"steal_tail", "copy", "steal_cas"}
    BY <1>1, <1>pc DEF Stopping
  <2> QED BY <2>1 DEF Thief
<1>2. CASE PopEmpty(t)
  <2>1. pc'[t] \notin {"steal_tail", "copy", "steal_cas"}
    BY <1>2, <1>pc DEF PopEmpty
  <2> QED BY <2>1 DEF Thief
<1>3. CASE PopSees(t)
  <2>1. pc'[t] \notin {"steal_tail", "copy", "steal_cas"}
    BY <1>3, <1>pc DEF PopSees
  <2> QED BY <2>1 DEF Thief
<1>4. CASE PopTakes(t)
  <2>1. pc'[t] \notin {"steal_tail", "copy", "steal_cas"}
    BY <1>4, <1>pc DEF PopTakes
  <2> QED BY <2>1 DEF Thief
<1>5. CASE PopLoses(t)
  <2>1. pc'[t] \notin {"steal_tail", "copy", "steal_cas"}
    BY <1>5, <1>pc DEF PopLoses
  <2> QED BY <2>1 DEF Thief
<1>6. ASSUME NEW x \in Items, GlobalTakes(t, x)
      PROVE  Thief(t)'
  <2>1. pc'[t] \notin {"steal_tail", "copy", "steal_cas"}
    BY <1>6, <1>pc DEF GlobalTakes
  <2> QED BY <2>1 DEF Thief
<1>7. ASSUME NEW w \in Threads, GlobalEmpty(t, w)
      PROVE  Thief(t)'
  <2>1. pc'[t] \notin {"steal_tail", "copy", "steal_cas"}
    BY <1>7, <1>pc DEF GlobalEmpty
  <2> QED BY <2>1 DEF Thief
<1>8. CASE StealBegins(t)
  <2>1. pc'[t] \notin {"steal_tail", "copy", "steal_cas"}
    BY <1>8, <1>pc DEF StealBegins
  <2> QED BY <2>1 DEF Thief
<1>9. CASE StealLooks(t)
  <2>1. oh'[t] = head[victim[t]] /\ pc'[t] = "steal_tail" /\ UNCHANGED <<head, victim>>
    BY <1>9, <1>oh, <1>pc DEF StealLooks
  <2> QED BY <2>1, <1>nat DEF Thief
<1>10. CASE StealAgain(t)
  <2>1. pc'[t] \notin {"steal_tail", "copy", "steal_cas"}
    BY <1>10, <1>pc DEF StealAgain
  <2> QED BY <2>1 DEF Thief
<1>11. CASE StealNothing(t)
  <2>1. pc'[t] \notin {"steal_tail", "copy", "steal_cas"}
    BY <1>11, <1>pc DEF StealNothing
  <2> QED BY <2>1 DEF Thief
<1>12. CASE StealCounts(t)
  <2>1. /\ n'[t] = StealCount(t) /\ i'[t] = 0 /\ pc'[t] = "copy"
        /\ UNCHANGED <<head, tail, victim, oh>>
    BY <1>12, <1>n, <1>i, <1>pc DEF StealCounts
  <2>2. oh[t] <= head[victim[t]]
    BY <1>0, <1>12 DEF Thief, StealCounts
  <2>3. oh[t] + StealCount(t) <= tail[victim[t]]
    BY <1>nat, <1>12 DEF StealCount, StealCounts
  <2> QED BY <2>1, <2>2, <2>3 DEF Thief
<1>13. CASE StealCopies(t)
  <2> DEFINE v == victim[t]
  <2>1. /\ i'[t] = i[t] + 1 /\ pc'[t] \in {"copy", "steal_cas"}
        /\ UNCHANGED <<head, tail, victim, oh, n>>
    BY <1>13, <1>i, <1>pc DEF StealCopies
  <2>2. oh[t] <= head[v]
    BY <1>0, <1>13 DEF Thief, StealCopies
  <2>3. ASSUME head[v] = oh[t]
        PROVE  /\ oh[t] + n[t] <= tail[v]
               /\ \A j \in 0 .. i[t] : buf'[t][(tail[t] + j) % N] = buf'[v][(oh[t] + j) % N]
    <3>1. /\ oh[t] + n[t] <= tail[v]
          /\ \A j \in 0 .. (i[t] - 1) : Slot(t, tail[t] + j) = Slot(v, oh[t] + j)
      BY <1>0, <1>13, <2>3 DEF Thief, StealCopies
    <3>2. i[t] < n[t] /\ tail[t] + n[t] <= h[t] + N
      BY <1>0, <1>13 DEF Local, StealCopies
    <3>3. h[t] <= head[t] /\ head[t] <= tail[t]
      BY <1>0 DEF Ends
    <3>4. ASSUME NEW j \in 0 .. i[t]
          PROVE  buf'[v][(oh[t] + j) % N] = Slot(v, oh[t] + j)
      <4>1. oh[t] + j \in Owned(v)
        BY <1>0, <1>nat, <2>3, <3>1, <3>2, OwnedIs
      <4> QED BY <1>nat, <4>1, KeptSlots
    <3>5. buf'[t] = [buf[t] EXCEPT ![(i[t] + tail[t]) % N] = Slot(v, i[t] + oh[t])]
      BY <1>13, <1>buf DEF StealCopies
    <3>6. (i[t] + tail[t]) % N \in 0 .. (N - 1)
      BY <1>nat, ModRange
    <3>7. buf'[t][(tail[t] + i[t]) % N] = Slot(v, oh[t] + i[t])
      <4>1. i[t] + tail[t] = tail[t] + i[t] /\ i[t] + oh[t] = oh[t] + i[t]
        BY <1>nat
      <4>2. DOMAIN buf[t] = 0 .. (N - 1)
        BY <1>buf
      <4>3. buf'[t][(i[t] + tail[t]) % N] = Slot(v, i[t] + oh[t])
        BY <3>5, <3>6, <4>2
      <4> QED BY <4>1, <4>3
    <3>8. ASSUME NEW j \in 0 .. (i[t] - 1)
          PROVE  buf'[t][(tail[t] + j) % N] = Slot(t, tail[t] + j)
      <4>1. /\ tail[t] + j \in Nat /\ i[t] + tail[t] \in Nat /\ N \in Nat
            /\ tail[t] + j < i[t] + tail[t] /\ i[t] + tail[t] < tail[t] + j + N
        BY <1>nat, <3>2, <3>3
      <4>2. (tail[t] + j) % N # (i[t] + tail[t]) % N
        BY <4>1, ModEq
      <4>3. (tail[t] + j) % N \in 0 .. (N - 1)
        BY <4>1, ModRange
      <4> QED BY <2>1, <3>5, <3>6, <4>2, <4>3, <1>buf DEF Slot
    <3>9. \A j \in 0 .. i[t] : j = i[t] \/ j \in 0 .. (i[t] - 1)
      BY <1>nat
    <3>10. i[t] \in Nat
      BY <1>nat
    <3>11. ASSUME NEW j \in 0 .. i[t]
           PROVE  buf'[t][(tail[t] + j) % N] = Slot(v, oh[t] + j)
      BY <3>1, <3>7, <3>8, <3>9
    <3> QED BY <3>1, <3>4, <3>11
  <2>4. i'[t] - 1 = i[t]
    BY <1>nat, <2>1
  <2>5. head'[victim'[t]] = oh'[t] =>
          /\ oh'[t] + n'[t] <= tail'[victim'[t]]
          /\ \A j \in 0 .. (i'[t] - 1) :
               buf'[t][(tail'[t] + j) % N] = buf'[victim'[t]][(oh'[t] + j) % N]
    BY <2>1, <2>3, <2>4
  <2> QED BY <2>1, <2>2, <2>5 DEF Thief, Slot
<1>14. CASE StealWins(t)
  <2>1. pc'[t] \notin {"steal_tail", "copy", "steal_cas"}
    BY <1>14, <1>pc DEF StealWins
  <2> QED BY <2>1 DEF Thief
<1>15. CASE StealLoses(t)
  <2>1. pc'[t] \notin {"steal_tail", "copy", "steal_cas"}
    BY <1>15, <1>pc DEF StealLoses
  <2> QED BY <2>1 DEF Thief
<1>16. CASE StealKeeps(t)
  <2>1. pc'[t] \notin {"steal_tail", "copy", "steal_cas"}
    BY <1>16, <1>pc DEF StealKeeps
  <2> QED BY <2>1 DEF Thief
<1>17. CASE WorkDone(t)
  <2>1. pc'[t] \notin {"steal_tail", "copy", "steal_cas"}
    BY <1>17, <1>pc DEF WorkDone
  <2> QED BY <2>1 DEF Thief
<1>18. CASE WorkNext(t)
  <2>1. pc'[t] \notin {"steal_tail", "copy", "steal_cas"}
    BY <1>18, <1>pc DEF WorkNext
  <2> QED BY <2>1 DEF Thief
<1>19. CASE PushFits(t)
  <2>1. pc'[t] \notin {"steal_tail", "copy", "steal_cas"}
    BY <1>19, <1>pc DEF PushFits
  <2> QED BY <2>1 DEF Thief
<1>20. CASE PushFull(t)
  <2>1. pc'[t] \notin {"steal_tail", "copy", "steal_cas"}
    BY <1>20, <1>pc DEF PushFull
  <2> QED BY <2>1 DEF Thief
<1>21. CASE PushStores(t)
  <2>1. pc'[t] \notin {"steal_tail", "copy", "steal_cas"}
    BY <1>21, <1>pc DEF PushStores
  <2> QED BY <2>1 DEF Thief
<1>22. CASE OverflowTakes(t)
  <2>1. pc'[t] \notin {"steal_tail", "copy", "steal_cas"}
    BY <1>22, <1>pc DEF OverflowTakes
  <2> QED BY <2>1 DEF Thief
<1>23. CASE OverflowLoses(t)
  <2>1. pc'[t] \notin {"steal_tail", "copy", "steal_cas"}
    BY <1>23, <1>pc DEF OverflowLoses
  <2> QED BY <2>1 DEF Thief
<1>24. CASE OverflowMoves(t)
  <2>1. pc'[t] \notin {"steal_tail", "copy", "steal_cas"}
    BY <1>24, <1>pc DEF OverflowMoves
  <2> QED BY <2>1 DEF Thief
<1>25. CASE OverflowEnds(t)
  <2>1. pc'[t] \notin {"steal_tail", "copy", "steal_cas"}
    BY <1>25, <1>pc DEF OverflowEnds
  <2> QED BY <2>1 DEF Thief
<1> QED
  BY StepWays, <1>0, <1>1, <1>2, <1>3, <1>4, <1>5, <1>6, <1>7, <1>8, <1>9, <1>10, <1>11, <1>12, <1>13, <1>14,
     <1>15, <1>16, <1>17, <1>18, <1>19, <1>20, <1>21, <1>22, <1>23, <1>24, <1>25 DEF Ways

----------------------------------------------------------------------------
(* A queue whose head_ stays and whose owner does not move keeps its items. *)
LEMMA OwnedOfOthers ==
  ASSUME StealingOK, NEW t \in Threads, Others(t), NEW u \in Threads, u # t, head'[u] = head[u]
  PROVE  Owned(u)' = Owned(u)
<1>1. tail'[u] = tail[u] /\ pc'[u] = pc[u] /\ h'[u] = h[u] /\ n'[u] = n[u] /\ i'[u] = i[u]
  BY DEF Others
<1> QED BY <1>1 DEF Owned

(* Nothing has moved.                                                       *)
LEMMA NothingMoves ==
  ASSUME StealingOK, Placed, \A u \in Threads : Owned(u)' = Owned(u),
         \A u \in Threads : \A k \in Owned(u) : buf'[u][k % N] = Slot(u, k),
         UNCHANGED <<todo, item, gq, got>>
  PROVE  Placed'
<1>1. \A x, a, u, k : At(a, u, k, x)' <=> At(a, u, k, x)
  BY DEF At, Slot
<1>2. \A x : Spawned(x)' <=> Spawned(x)
  BY DEF Spawned
<1>3. Unique'
  BY <1>1 DEF Placed, Unique
<1>4. Somewhere'
  BY <1>1, <1>2 DEF Placed, Somewhere
<1>5. GotOnce' /\ Real'
  BY DEF Placed, GotOnce, Real, Slot
<1> QED BY <1>3, <1>4, <1>5 DEF Placed

(* Item y goes from a place to another.                                     *)
Moves(y, a0, t0, k0, a1, t1, k1) ==
  \A x \in Items, a \in Kinds, u \in Wheres, k \in Nat :
    At(a, u, k, x)' <=> \/ At(a, u, k, x) /\ ~(x = y /\ a = a0 /\ u = t0 /\ k = k0)
                        \/ x = y /\ a = a1 /\ u = t1 /\ k = k1

(* One item goes from a place to another.                                   *)
LEMMA OneMoves ==
  ASSUME StealingOK, Placed, got' = got,
         NEW y \in Items, NEW a0 \in Kinds, NEW t0 \in Wheres, NEW k0 \in Nat,
         NEW a1 \in Kinds, NEW t1 \in Wheres, NEW k1 \in Nat, At(a0, t0, k0, y),
         Moves(y, a0, t0, k0, a1, t1, k1)
  PROVE  Unique' /\ Somewhere' /\ GotOnce'
<1>0. \A x \in Items, a \in Kinds, u \in Wheres, k \in Nat :
        At(a, u, k, x)' <=> \/ At(a, u, k, x) /\ ~(x = y /\ a = a0 /\ u = t0 /\ k = k0)
                            \/ x = y /\ a = a1 /\ u = t1 /\ k = k1
  BY DEF Moves
<1>1. \A x : Spawned(x)' <=> Spawned(x)
  BY DEF Spawned
<1>2. Unique'
  BY <1>0 DEF Placed, Unique
<1>3. Somewhere'
  <2> SUFFICES ASSUME NEW x \in Items
               PROVE  Spawned(x) <=> \E a \in Kinds, u \in Wheres, k \in Nat : At(a, u, k, x)'
    BY <1>1 DEF Somewhere
  <2>1. Spawned(x) <=> \E a \in Kinds, u \in Wheres, k \in Nat : At(a, u, k, x)
    BY DEF Placed, Somewhere
  <2>2. CASE x = y
    BY <1>0, <2>1, <2>2
  <2>3. CASE x # y
    BY <1>0, <2>1, <2>3
  <2> QED BY <2>2, <2>3
<1>4. GotOnce'
  BY DEF Placed, GotOnce
<1> QED BY <1>2, <1>3, <1>4

(* Item y leaves a queue or the global queue.                               *)
Leaves(y, a0, t0, k0) ==
  \A x \in Items, a \in {"queue", "global"}, u \in Wheres, k \in Nat :
    At(a, u, k, x)' <=> At(a, u, k, x) /\ ~(x = y /\ a = a0 /\ u = t0 /\ k = k0)

(* One item is got, and what comes of it is to be pushed.                   *)
LEMMA OneIsGot ==
  ASSUME StealingOK, TypeOK, Placed, NEW t \in Threads, todo[t] = <<>>, item[t] = Nothing,
         NEW y \in Items, NEW a0 \in {"queue", "global"}, NEW t0 \in Wheres, NEW k0 \in Nat,
         At(a0, t0, k0, y),
         got' = [got EXCEPT ![y] = @ + 1],
         todo' = [todo EXCEPT ![t] = Children[y]],
         item' = [item EXCEPT ![t] = Nothing],
         Leaves(y, a0, t0, k0)
  PROVE  Unique' /\ Somewhere' /\ GotOnce'
<1> DEFINE C == Children[y]
<1>0. /\ got \in [Items -> Nat] /\ todo \in [Threads -> Seq(Items)]
      /\ item \in [Threads -> Items \cup {Nothing}] /\ C \in Seq(Items)
      /\ a0 \in Kinds /\ Nothing \in Wheres /\ Threads \subseteq Wheres
  BY DEF TypeOK, Kinds, Wheres, StealingOK
<1>1. got[y] = 0
  <2>1. CASE got[y] > 0
    <3>1. At("got", Nothing, 0, y)
      BY <2>1 DEF At
    <3>2. "got" \in Kinds
      BY DEF Kinds
    <3>3. "got" = a0
      BY <1>0, <3>1, <3>2 DEF Placed, Unique
    <3> QED BY <3>3
  <2> QED BY <1>0, <2>1
<1>2. Spawned(y)
  BY <1>0 DEF Placed, Somewhere
<1>3. ASSUME NEW k \in DOMAIN C
      PROVE  C[k] \in Items /\ ~Spawned(C[k])
  <2>1. C[k] \in Items
    BY <1>0
  <2>2. C[k] \notin Roots
    BY DEF StealingOK
  <2>3. ASSUME NEW z \in Items, got[z] > 0, NEW l \in DOMAIN Children[z], Children[z][l] = C[k]
        PROVE  FALSE
    <3>1. z = y
      BY <2>3 DEF StealingOK
    <3> QED BY <1>0, <1>1, <2>3, <3>1
  <2> QED BY <2>1, <2>2, <2>3 DEF Spawned
<1>4. \A k \in DOMAIN C : \A a \in Kinds, u \in Wheres, l \in Nat : ~At(a, u, l, C[k])
  BY <1>3 DEF Placed, Somewhere
<1>5. \A k, l \in DOMAIN C : C[k] = C[l] => k = l
  BY DEF StealingOK
<1>6. DOMAIN C \subseteq Nat
  BY <1>0
<1>7. ASSUME NEW x \in Items, NEW a \in Kinds, NEW u \in Wheres, NEW k \in Nat
      PROVE  At(a, u, k, x)' <=> \/ At(a, u, k, x) /\ ~(x = y /\ a = a0 /\ u = t0 /\ k = k0)
                                 \/ x = y /\ a = "got" /\ u = Nothing /\ k = 0
                                 \/ a = "todo" /\ u = t /\ k \in DOMAIN C /\ C[k] = x
  <2>1. CASE a \in {"queue", "global"}
    BY <2>1 DEF Leaves
  <2>2. CASE a = "todo"
    <3>1. \A z \in Threads : todo'[z] = IF z = t THEN C ELSE todo[z]
      BY <1>0
    <3>2. DOMAIN todo[t] = {}
      OBVIOUS
    <3> QED BY <2>2, <3>1, <3>2 DEF At
  <2>3. CASE a = "hand"
    <3>1. \A z \in Threads : item'[z] = item[z]
      BY <1>0
    <3> QED BY <2>3, <3>1 DEF At
  <2>4. CASE a = "got"
    <3>1. got'[x] = IF x = y THEN 1 ELSE got[x]
      BY <1>0, <1>1
    <3> QED BY <2>4, <3>1, <1>1 DEF At
  <2> QED BY <2>1, <2>2, <2>3, <2>4 DEF Kinds
<1>8. Unique'
  <2> SUFFICES ASSUME NEW x \in Items, NEW a \in Kinds, NEW b \in Kinds, NEW u \in Wheres,
                      NEW v \in Wheres, NEW k \in Nat, NEW l \in Nat,
                      At(a, u, k, x)', At(b, v, l, x)'
               PROVE  a = b /\ u = v /\ k = l
    BY DEF Unique
  <2>1. CASE x = y
    <3>1. \A m \in DOMAIN C : C[m] # y
      BY <1>2, <1>3
    <3>2. \A d \in Kinds, z \in Wheres, m \in Nat : At(d, z, m, y) => d = a0 /\ z = t0 /\ m = k0
      BY <1>0 DEF Placed, Unique
    <3> QED BY <1>7, <2>1, <3>1, <3>2
  <2>2. CASE x # y /\ \E m \in DOMAIN C : C[m] = x
    BY <1>4, <1>5, <1>7, <2>2
  <2>3. CASE x # y /\ ~\E m \in DOMAIN C : C[m] = x
    <3>1. At(a, u, k, x) /\ At(b, v, l, x)
      BY <1>7, <2>3
    <3> QED BY <3>1 DEF Placed, Unique
  <2> QED BY <2>1, <2>2, <2>3
<1>9. Somewhere'
  <2> SUFFICES ASSUME NEW x \in Items
               PROVE  Spawned(x)' <=> \E a \in Kinds, u \in Wheres, k \in Nat : At(a, u, k, x)'
    BY DEF Somewhere
  <2>1. Spawned(x)' <=> Spawned(x) \/ \E k \in DOMAIN C : C[k] = x
    <3>1. \A z \in Items : got'[z] > 0 <=> got[z] > 0 \/ z = y
      BY <1>0, <1>1
    <3> QED BY <3>1 DEF Spawned
  <2>2. Spawned(x) <=> \E a \in Kinds, u \in Wheres, k \in Nat : At(a, u, k, x)
    BY DEF Placed, Somewhere
  <2>3. CASE x = y
    <3>1. At("got", Nothing, 0, x)' /\ "got" \in Kinds /\ Nothing \in Wheres /\ 0 \in Nat
      BY <1>0, <1>7, <2>3 DEF Kinds
    <3> QED BY <1>2, <2>1, <2>3, <3>1
  <2>4. CASE x # y
    <3>1. ASSUME NEW a \in Kinds, NEW u \in Wheres, NEW k \in Nat, At(a, u, k, x)
          PROVE  At(a, u, k, x)'
      BY <1>7, <2>4, <3>1
    <3>2. ASSUME NEW k \in DOMAIN C, C[k] = x
          PROVE  At("todo", t, k, x)' /\ "todo" \in Kinds /\ t \in Wheres /\ k \in Nat
      BY <1>0, <1>6, <1>7, <3>2 DEF Kinds
    <3>3. ASSUME NEW a \in Kinds, NEW u \in Wheres, NEW k \in Nat, At(a, u, k, x)'
          PROVE  At(a, u, k, x) \/ \E m \in DOMAIN C : C[m] = x
      BY <1>7, <2>4, <3>3
    <3> QED BY <2>1, <2>2, <3>1, <3>2, <3>3
  <2> QED BY <2>3, <2>4
<1>10. GotOnce'
  BY <1>0, <1>1 DEF Placed, GotOnce
<1> QED BY <1>8, <1>9, <1>10

(* Every item stays in one place, or leaves it for another.                 *)
LEMMA PlacedStep ==
  ASSUME StealingOK, Inv, NEW t \in Threads, Step(t)
  PROVE  Placed'
<1>0. TypeOK /\ TypeOK' /\ Placed /\ Local(t) /\ Thief(t) /\ Others(t)
  BY TypeStep, OthersKept DEF Inv
<1>0a. \A u \in Threads : \A k \in Owned(u) : buf'[u][k % N] = Slot(u, k)
  BY KeptSlots
<1>0b. \A u \in Threads : /\ head[u] <= tail[u] /\ h[u] <= head[u]
                          /\ tail[u] <= head[u] + N
  BY DEF Inv, Ends
<1>0c. /\ \A u \in Threads : \A k \in Owned(u) : Slot(u, k) \in Items
       /\ Threads \subseteq Wheres /\ Nothing \in Wheres
  BY <1>0 DEF Placed, Real, Wheres
<1>0d. \A u \in Threads : Owned(u) \subseteq Nat
  BY <1>0, OwnedIs
<1>nat. \A u \in Threads :
          /\ head[u] \in Nat /\ tail[u] \in Nat /\ h[u] \in Nat /\ oh[u] \in Nat
          /\ n[u] \in Nat /\ i[u] \in Nat /\ i[u] <= n[u]
          /\ victim[u] \in Threads /\ N \in Nat \ {0}
  BY <1>0, Numbers
<1>head. head \in [Threads -> Nat]
  BY <1>0 DEF TypeOK
<1>tail. tail \in [Threads -> Nat]
  BY <1>0 DEF TypeOK
<1>buf. buf \in [Threads -> [0 .. (N - 1) -> Items \cup {Nothing}]]
  BY <1>0 DEF TypeOK
<1>pc. pc \in [Threads -> Pcs]
  BY <1>0 DEF TypeOK
<1>item. item \in [Threads -> Items \cup {Nothing}]
  BY <1>0 DEF TypeOK
<1>todo. todo \in [Threads -> Seq(Items)]
  BY <1>0 DEF TypeOK
<1>h. h \in [Threads -> Nat]
  BY <1>0 DEF TypeOK
<1>n. n \in [Threads -> 0 .. (N \div 2 + 1)]
  BY <1>0 DEF TypeOK
<1>i. i \in [Threads -> Nat]
  BY <1>0 DEF TypeOK
<1>got. got \in [Items -> Nat]
  BY <1>0 DEF TypeOK
<1>1. CASE Stopping(t)
  <2>1. pc[t] \notin {"keep", "overflow"} /\ pc'[t] \notin {"keep", "overflow"}
    BY <1>1, <1>pc DEF Stopping
  <2>2. UNCHANGED <<head, tail, todo, item, gq, got>>
    BY <1>1 DEF Stopping
  <2>3. Owned(t)' = Owned(t)
    BY <2>1, <2>2 DEF Owned
  <2>4. \A u \in Threads : Owned(u)' = Owned(u)
    BY <1>0, <2>2, <2>3, OwnedOfOthers
  <2> QED BY <1>0, <1>0a, <2>2, <2>4, NothingMoves
<1>2. CASE PopEmpty(t)
  <2>1. pc[t] \notin {"keep", "overflow"} /\ pc'[t] \notin {"keep", "overflow"}
    BY <1>2, <1>pc DEF PopEmpty
  <2>2. UNCHANGED <<head, tail, todo, item, gq, got>>
    BY <1>2 DEF PopEmpty
  <2>3. Owned(t)' = Owned(t)
    BY <2>1, <2>2 DEF Owned
  <2>4. \A u \in Threads : Owned(u)' = Owned(u)
    BY <1>0, <2>2, <2>3, OwnedOfOthers
  <2> QED BY <1>0, <1>0a, <2>2, <2>4, NothingMoves
<1>3. CASE PopSees(t)
  <2>1. pc[t] \notin {"keep", "overflow"} /\ pc'[t] \notin {"keep", "overflow"}
    BY <1>3, <1>pc DEF PopSees
  <2>2. UNCHANGED <<head, tail, todo, item, gq, got>>
    BY <1>3 DEF PopSees
  <2>3. Owned(t)' = Owned(t)
    BY <2>1, <2>2 DEF Owned
  <2>4. \A u \in Threads : Owned(u)' = Owned(u)
    BY <1>0, <2>2, <2>3, OwnedOfOthers
  <2> QED BY <1>0, <1>0a, <2>2, <2>4, NothingMoves
<1>4. CASE PopTakes(t)
  <2> DEFINE y == Slot(t, h[t])
  <2>1. /\ pc[t] = "pop" /\ pc'[t] = "work" /\ head[t] = h[t] /\ head'[t] = h[t] + 1
        /\ UNCHANGED <<tail, buf, gq>>
    BY <1>4, <1>pc, <1>head DEF PopTakes
  <2>2. h[t] < tail[t] /\ todo[t] = <<>> /\ item[t] = Nothing
    BY <1>0, <2>1 DEF Local
  <2>3. \A u \in Threads, m \in Nat : m \in Owned(u)' <=> m \in Owned(u) /\ ~(u = t /\ m = h[t])
    <3>1. \A m \in Nat : m \in Owned(t)' <=> m \in Owned(t) /\ m # h[t]
      BY <1>0, <1>nat, <2>1, <2>2, OwnedIs, OwnedIsNext
    <3>2. \A u \in Threads \ {t} : Owned(u)' = Owned(u)
      <4>1. \A u \in Threads \ {t} : head'[u] = head[u]
        BY <1>4, <1>head DEF PopTakes
      <4> QED BY <1>0, <4>1, OwnedOfOthers
    <3> QED BY <3>1, <3>2
  <2>4. h[t] \in Owned(t) /\ h[t] \in Nat
    BY <1>0, <1>nat, <2>1, <2>2, OwnedIs
  <2>5. At("queue", t, h[t], y) /\ y \in Items
    BY <1>0c, <2>4 DEF At
  <2>6. Leaves(y, "queue", t, h[t])
    BY <2>1, <2>3 DEF At, Leaves, Slot
  <2>7. /\ got' = [got EXCEPT ![y] = @ + 1] /\ todo' = [todo EXCEPT ![t] = Children[y]]
        /\ item' = [item EXCEPT ![t] = Nothing]
    BY <1>4 DEF PopTakes
  <2>8. Unique' /\ Somewhere' /\ GotOnce'
    BY <1>0, <1>0c, <2>2, <2>4, <2>5, <2>6, <2>7, OneIsGot
  <2>9. Real'
    BY <1>0c, <1>0, <2>1, <2>3, OwnedIsNext DEF Real, Slot
  <2> QED BY <2>8, <2>9 DEF Placed
<1>5. CASE PopLoses(t)
  <2>1. pc[t] \notin {"keep", "overflow"} /\ pc'[t] \notin {"keep", "overflow"}
    BY <1>5, <1>pc DEF PopLoses
  <2>2. UNCHANGED <<head, tail, todo, item, gq, got>>
    BY <1>5 DEF PopLoses
  <2>3. Owned(t)' = Owned(t)
    BY <2>1, <2>2 DEF Owned
  <2>4. \A u \in Threads : Owned(u)' = Owned(u)
    BY <1>0, <2>2, <2>3, OwnedOfOthers
  <2> QED BY <1>0, <1>0a, <2>2, <2>4, NothingMoves
<1>6. ASSUME NEW x \in Items, GlobalTakes(t, x)
      PROVE  Placed'
  <2>1. /\ pc[t] = "global" /\ pc'[t] = "work" /\ x \in gq /\ gq' = gq \ {x}
        /\ UNCHANGED <<head, tail, buf>>
    BY <1>6, <1>pc DEF GlobalTakes
  <2>2. todo[t] = <<>> /\ item[t] = Nothing
    BY <1>0, <2>1 DEF Local
  <2>3. \A u \in Threads : Owned(u)' = Owned(u)
    <3>1. Owned(t)' = Owned(t)
      BY <1>6, <2>1 DEF Owned
    <3> QED BY <1>0, <2>1, <3>1, OwnedOfOthers
  <2>z. PICK z \in Nat : z = 0
    OBVIOUS
  <2>4. At("global", Nothing, z, x)
    BY <2>1, <2>z DEF At
  <2>5. \A y \in Items, a \in {"queue", "global"}, u \in Wheres, m \in Nat :
          At(a, u, m, y)' <=> At(a, u, m, y) /\ ~(y = x /\ a = "global" /\ u = Nothing /\ m = z)
    BY <2>1, <2>3, <2>z DEF At, Slot
  <2>6. /\ got' = [got EXCEPT ![x] = @ + 1] /\ todo' = [todo EXCEPT ![t] = Children[x]]
        /\ item' = [item EXCEPT ![t] = Nothing]
    BY <1>6 DEF GlobalTakes
  <2>7. Unique' /\ Somewhere' /\ GotOnce'
    <3>1. ASSUME NEW t0 \in Wheres, NEW k0 \in Nat, t0 = Nothing, k0 = z
          PROVE  Unique' /\ Somewhere' /\ GotOnce'
      <4>1. At("global", t0, k0, x)
        BY <2>4, <3>1
      <4>2. Leaves(x, "global", t0, k0)
        BY <2>5, <3>1 DEF Leaves
      <4>3. /\ TypeOK /\ Placed /\ "global" \in {"queue", "global"}
            /\ x \in Items /\ t0 \in Wheres /\ k0 \in Nat
        BY <1>0, <1>6, <3>1
      <4> QED BY <2>2, <2>6, <4>1, <4>2, <4>3, OneIsGot
    <3> QED BY <1>0c, <3>1
  <2>8. Real'
    BY <1>0c, <2>1, <2>3 DEF Real, Slot
  <2> QED BY <2>7, <2>8 DEF Placed
<1>7. ASSUME NEW w \in Threads, GlobalEmpty(t, w)
      PROVE  Placed'
  <2>1. pc[t] \notin {"keep", "overflow"} /\ pc'[t] \notin {"keep", "overflow"}
    BY <1>7, <1>pc DEF GlobalEmpty
  <2>2. UNCHANGED <<head, tail, todo, item, gq, got>>
    BY <1>7 DEF GlobalEmpty
  <2>3. Owned(t)' = Owned(t)
    BY <2>1, <2>2 DEF Owned
  <2>4. \A u \in Threads : Owned(u)' = Owned(u)
    BY <1>0, <2>2, <2>3, OwnedOfOthers
  <2> QED BY <1>0, <1>0a, <2>2, <2>4, NothingMoves
<1>8. CASE StealBegins(t)
  <2>1. pc[t] \notin {"keep", "overflow"} /\ pc'[t] \notin {"keep", "overflow"}
    BY <1>8, <1>pc DEF StealBegins
  <2>2. UNCHANGED <<head, tail, todo, item, gq, got>>
    BY <1>8 DEF StealBegins
  <2>3. Owned(t)' = Owned(t)
    BY <2>1, <2>2 DEF Owned
  <2>4. \A u \in Threads : Owned(u)' = Owned(u)
    BY <1>0, <2>2, <2>3, OwnedOfOthers
  <2> QED BY <1>0, <1>0a, <2>2, <2>4, NothingMoves
<1>9. CASE StealLooks(t)
  <2>1. pc[t] \notin {"keep", "overflow"} /\ pc'[t] \notin {"keep", "overflow"}
    BY <1>9, <1>pc DEF StealLooks
  <2>2. UNCHANGED <<head, tail, todo, item, gq, got>>
    BY <1>9 DEF StealLooks
  <2>3. Owned(t)' = Owned(t)
    BY <2>1, <2>2 DEF Owned
  <2>4. \A u \in Threads : Owned(u)' = Owned(u)
    BY <1>0, <2>2, <2>3, OwnedOfOthers
  <2> QED BY <1>0, <1>0a, <2>2, <2>4, NothingMoves
<1>10. CASE StealAgain(t)
  <2>1. pc[t] \notin {"keep", "overflow"} /\ pc'[t] \notin {"keep", "overflow"}
    BY <1>10, <1>pc DEF StealAgain
  <2>2. UNCHANGED <<head, tail, todo, item, gq, got>>
    BY <1>10 DEF StealAgain
  <2>3. Owned(t)' = Owned(t)
    BY <2>1, <2>2 DEF Owned
  <2>4. \A u \in Threads : Owned(u)' = Owned(u)
    BY <1>0, <2>2, <2>3, OwnedOfOthers
  <2> QED BY <1>0, <1>0a, <2>2, <2>4, NothingMoves
<1>11. CASE StealNothing(t)
  <2>1. pc[t] \notin {"keep", "overflow"} /\ pc'[t] \notin {"keep", "overflow"}
    BY <1>11, <1>pc DEF StealNothing
  <2>2. UNCHANGED <<head, tail, todo, item, gq, got>>
    BY <1>11 DEF StealNothing
  <2>3. Owned(t)' = Owned(t)
    BY <2>1, <2>2 DEF Owned
  <2>4. \A u \in Threads : Owned(u)' = Owned(u)
    BY <1>0, <2>2, <2>3, OwnedOfOthers
  <2> QED BY <1>0, <1>0a, <2>2, <2>4, NothingMoves
<1>12. CASE StealCounts(t)
  <2>1. pc[t] \notin {"keep", "overflow"} /\ pc'[t] \notin {"keep", "overflow"}
    BY <1>12, <1>pc DEF StealCounts
  <2>2. UNCHANGED <<head, tail, todo, item, gq, got>>
    BY <1>12 DEF StealCounts
  <2>3. Owned(t)' = Owned(t)
    BY <2>1, <2>2 DEF Owned
  <2>4. \A u \in Threads : Owned(u)' = Owned(u)
    BY <1>0, <2>2, <2>3, OwnedOfOthers
  <2> QED BY <1>0, <1>0a, <2>2, <2>4, NothingMoves
<1>13. CASE StealCopies(t)
  <2>1. pc[t] \notin {"keep", "overflow"} /\ pc'[t] \notin {"keep", "overflow"}
    BY <1>13, <1>pc DEF StealCopies
  <2>2. UNCHANGED <<head, tail, todo, item, gq, got>>
    BY <1>13 DEF StealCopies
  <2>3. Owned(t)' = Owned(t)
    BY <2>1, <2>2 DEF Owned
  <2>4. \A u \in Threads : Owned(u)' = Owned(u)
    BY <1>0, <2>2, <2>3, OwnedOfOthers
  <2> QED BY <1>0, <1>0a, <2>2, <2>4, NothingMoves
<1>14. CASE StealWins(t)
  <2> DEFINE v == victim[t]
  <2>1. /\ pc[t] = "steal_cas" /\ pc'[t] = "keep" /\ head[v] = oh[t] /\ v \in Threads
        /\ \A u \in Threads : head'[u] = IF u = v THEN oh[t] + n[t] ELSE head[u]
        /\ UNCHANGED <<tail, buf, gq, item, todo, h, n, i, got>>
    BY <1>14, <1>nat, <1>pc, <1>head DEF StealWins
  <2>2. /\ n[t] > 0 /\ i[t] = n[t]
    BY <1>0, <2>1 DEF Local
  <2>3. /\ oh[t] + n[t] <= tail[v]
        /\ \A j \in 0 .. (n[t] - 1) : Slot(t, tail[t] + j) = Slot(v, oh[t] + j)
    BY <1>0, <2>1, <2>2 DEF Thief
  <2>3a. \A u \in Threads : pc[u] = "overflow" => h[u] + n[u] <= head[u]
    BY DEF Inv, Local
  <2> HIDE DEF v
  <2>4. \A u \in Threads, m \in Nat :
          m \in Owned(u)' <=> \/ m \in Owned(u) /\ ~(u = v /\ oh[t] <= m /\ m < oh[t] + n[t])
                              \/ u = t /\ tail[t] <= m /\ m < tail[t] + n[t]
    <3> SUFFICES ASSUME NEW u \in Threads, NEW m \in Nat
                 PROVE  m \in Owned(u)' <=>
                          \/ m \in Owned(u) /\ ~(u = v /\ oh[t] <= m /\ m < oh[t] + n[t])
                          \/ u = t /\ tail[t] <= m /\ m < tail[t] + n[t]
      OBVIOUS
    <3>1. m \in Owned(u) <=> \/ head[u] <= m /\ m < tail[u]
                             \/ pc[u] = "keep" /\ tail[u] <= m /\ m < tail[u] + n[u]
                             \/ pc[u] = "overflow" /\ h[u] + i[u] <= m /\ m < h[u] + n[u]
      BY <1>0, OwnedIs
    <3>2. m \in Owned(u)' <=> \/ head'[u] <= m /\ m < tail[u]
                              \/ pc'[u] = "keep" /\ tail[u] <= m /\ m < tail[u] + n[u]
                              \/ pc[u] = "overflow" /\ h[u] + i[u] <= m /\ m < h[u] + n[u]
      <4>1. pc'[u] = "overflow" <=> pc[u] = "overflow"
        BY <1>0, <2>1 DEF Others
      <4> QED BY <1>0, <2>1, <4>1, OwnedIsNext
    <3>3. pc'[u] = "keep" <=> pc[u] = "keep" \/ u = t
      BY <1>0, <2>1 DEF Others
    <3>4. /\ head[u] <= tail[u] /\ (pc[u] = "overflow" => h[u] + n[u] <= head[u])
          /\ tail[t] \in Nat /\ n[t] \in Nat /\ tail[u] \in Nat /\ n[u] \in Nat /\ head[u] \in Nat
          /\ oh[t] \in Nat /\ h[u] \in Nat /\ i[u] \in Nat
      BY <1>0b, <1>nat, <2>3a
    <3>5. CASE u = v
      <4>1. head[u] = oh[t] /\ head'[u] = oh[t] + n[t] /\ oh[t] + n[t] <= tail[u]
        BY <2>1, <2>3, <3>5
      <4> QED BY <2>1, <3>1, <3>2, <3>3, <3>4, <3>5, <4>1
    <3>6. CASE u # v
      <4>1. head'[u] = head[u]
        BY <2>1, <3>6
      <4> QED BY <2>1, <3>1, <3>2, <3>3, <3>4, <3>6, <4>1
    <3> QED BY <3>5, <3>6
  <2>5. \A m \in Nat : oh[t] <= m /\ m < oh[t] + n[t] => m \in Owned(v)
    BY <1>0, <1>nat, <2>1, <2>3, OwnedIs
  <2>6. \A m \in Nat : tail[t] <= m /\ m < tail[t] + n[t] =>
          /\ m \notin Owned(t)
          /\ oh[t] + (m - tail[t]) \in Nat
          /\ oh[t] <= oh[t] + (m - tail[t]) /\ oh[t] + (m - tail[t]) < oh[t] + n[t]
          /\ Slot(t, m) = Slot(v, oh[t] + (m - tail[t]))
    <3> SUFFICES ASSUME NEW m \in Nat, tail[t] <= m, m < tail[t] + n[t]
                 PROVE  /\ m \notin Owned(t)
                        /\ oh[t] + (m - tail[t]) \in Nat
                        /\ oh[t] <= oh[t] + (m - tail[t])
                        /\ oh[t] + (m - tail[t]) < oh[t] + n[t]
                        /\ Slot(t, m) = Slot(v, oh[t] + (m - tail[t]))
      OBVIOUS
    <3>1. m \notin Owned(t)
      BY <1>0, <1>nat, <2>1, OwnedIs
    <3>2. m - tail[t] \in 0 .. (n[t] - 1) /\ tail[t] + (m - tail[t]) = m
      BY <1>nat
    <3>3. Slot(t, tail[t] + (m - tail[t])) = Slot(v, oh[t] + (m - tail[t]))
      BY <2>3, <3>2
    <3> QED BY <1>nat, <3>1, <3>2, <3>3
  <2>7. \A x, a, u, m : a # "queue" => (At(a, u, m, x)' <=> At(a, u, m, x))
    BY <2>1 DEF At
  <2>8. \A x \in Items, u \in Wheres, m \in Nat :
          At("queue", u, m, x)' <=>
            \/ /\ At("queue", u, m, x)
               /\ ~(u = v /\ oh[t] <= m /\ m < oh[t] + n[t])
            \/ /\ u = t /\ tail[t] <= m /\ m < tail[t] + n[t]
               /\ At("queue", v, oh[t] + (m - tail[t]), x)
    BY <2>1, <2>4, <2>5, <2>6 DEF At, Slot
  <2>9. Unique'
    <3> SUFFICES ASSUME NEW x \in Items, NEW a \in Kinds, NEW b \in Kinds, NEW u \in Wheres,
                        NEW z \in Wheres, NEW k \in Nat, NEW l \in Nat,
                        At(a, u, k, x)', At(b, z, l, x)'
                 PROVE  a = b /\ u = z /\ k = l
      BY DEF Unique
    <3>1. \A c, d \in Kinds, w1, w2 \in Wheres, m, p \in Nat :
            At(c, w1, m, x) /\ At(d, w2, p, x) => c = d /\ w1 = w2 /\ m = p
      BY <1>0 DEF Placed, Unique
    <3>2. v \in Wheres /\ "queue" \in Kinds
      BY <1>0c, <2>1 DEF Kinds
    <3>3. CASE At(a, u, k, x) /\ At(b, z, l, x)
      BY <3>1, <3>3
    <3>3a. \A m \in Nat : tail[t] <= m /\ m < tail[t] + n[t] =>
             /\ oh[t] + (m - tail[t]) \in Nat /\ oh[t] <= oh[t] + (m - tail[t])
             /\ oh[t] + (m - tail[t]) < oh[t] + n[t]
      BY <2>6
    <3>4. CASE /\ a = "queue" /\ u = t /\ tail[t] <= k /\ k < tail[t] + n[t]
               /\ At("queue", v, oh[t] + (k - tail[t]), x)
      <4>1. CASE b = "queue" /\ z = t /\ tail[t] <= l /\ l < tail[t] + n[t]
                 /\ At("queue", v, oh[t] + (l - tail[t]), x)
        <5>1. oh[t] + (k - tail[t]) = oh[t] + (l - tail[t])
          BY <2>6, <3>1, <3>2, <3>4, <4>1
        <5> QED BY <1>nat, <3>4, <4>1, <5>1
      <4>2. CASE At(b, z, l, x) /\ ~(b = "queue" /\ z = v /\ oh[t] <= l /\ l < oh[t] + n[t])
        <5>1. PICK p \in Nat : p = oh[t] + (k - tail[t])
          BY <3>3a, <3>4
        <5>2. oh[t] <= p /\ p < oh[t] + n[t] /\ At("queue", v, p, x)
          BY <3>3a, <3>4, <5>1
        <5>3. b = "queue" /\ z = v /\ l = p
          BY <3>1, <3>2, <4>2, <5>2
        <5> QED BY <4>2, <5>2, <5>3
      <4> QED BY <2>7, <2>8, <4>1, <4>2
    <3>5. CASE /\ b = "queue" /\ z = t /\ tail[t] <= l /\ l < tail[t] + n[t]
               /\ At("queue", v, oh[t] + (l - tail[t]), x)
      <4>1. CASE At(a, u, k, x) /\ ~(a = "queue" /\ u = v /\ oh[t] <= k /\ k < oh[t] + n[t])
        <5>1. PICK p \in Nat : p = oh[t] + (l - tail[t])
          BY <3>3a, <3>5
        <5>2. oh[t] <= p /\ p < oh[t] + n[t] /\ At("queue", v, p, x)
          BY <3>3a, <3>5, <5>1
        <5>3. a = "queue" /\ u = v /\ k = p
          BY <3>1, <3>2, <4>1, <5>2
        <5> QED BY <4>1, <5>2, <5>3
      <4> QED BY <2>7, <2>8, <3>4, <4>1
    <3> QED BY <2>7, <2>8, <3>3, <3>4, <3>5
  <2>10. Somewhere'
    <3> SUFFICES ASSUME NEW x \in Items
                 PROVE  Spawned(x)' <=> \E a \in Kinds, u \in Wheres, m \in Nat : At(a, u, m, x)'
      BY DEF Somewhere
    <3>1. Spawned(x)' <=> \E a \in Kinds, u \in Wheres, m \in Nat : At(a, u, m, x)
      BY <1>0, <2>1 DEF Placed, Somewhere, Spawned
    <3>2. v \in Wheres /\ t \in Wheres /\ "queue" \in Kinds
      BY <1>0c, <2>1 DEF Kinds
    <3>3. ASSUME NEW a \in Kinds, NEW u \in Wheres, NEW m \in Nat, At(a, u, m, x)'
          PROVE  \E b \in Kinds, z \in Wheres, l \in Nat : At(b, z, l, x)
      BY <2>6, <2>7, <2>8, <3>2, <3>3
    <3>4. ASSUME NEW a \in Kinds, NEW u \in Wheres, NEW m \in Nat, At(a, u, m, x)
          PROVE  \E b \in Kinds, z \in Wheres, l \in Nat : At(b, z, l, x)'
      <4>1. CASE a = "queue" /\ u = v /\ oh[t] <= m /\ m < oh[t] + n[t]
        <5>1. PICK p \in Nat : p = tail[t] + (m - oh[t])
          BY <1>nat, <4>1
        <5>2. tail[t] <= p /\ p < tail[t] + n[t] /\ oh[t] + (p - tail[t]) = m
          BY <1>nat, <4>1, <5>1
        <5>3. At("queue", v, oh[t] + (p - tail[t]), x)
          BY <3>4, <4>1, <5>2
        <5>4. At("queue", t, p, x)'
          BY <2>8, <3>2, <5>2, <5>3
        <5> QED BY <3>2, <5>4
      <4>2. CASE ~(a = "queue" /\ u = v /\ oh[t] <= m /\ m < oh[t] + n[t])
        BY <2>7, <2>8, <3>4, <4>2
      <4> QED BY <4>1, <4>2
    <3> QED BY <3>1, <3>3, <3>4
  <2>11. GotOnce'
    BY <1>0, <2>1 DEF Placed, GotOnce
  <2>12. Real'
    BY <1>0, <1>0c, <2>1, <2>4, <2>5, <2>6, OwnedIsNext DEF Real, Slot
  <2> QED BY <2>9, <2>10, <2>11, <2>12 DEF Placed
<1>15. CASE StealLoses(t)
  <2>1. pc[t] \notin {"keep", "overflow"} /\ pc'[t] \notin {"keep", "overflow"}
    BY <1>15, <1>pc DEF StealLoses
  <2>2. UNCHANGED <<head, tail, todo, item, gq, got>>
    BY <1>15 DEF StealLoses
  <2>3. Owned(t)' = Owned(t)
    BY <2>1, <2>2 DEF Owned
  <2>4. \A u \in Threads : Owned(u)' = Owned(u)
    BY <1>0, <2>2, <2>3, OwnedOfOthers
  <2> QED BY <1>0, <1>0a, <2>2, <2>4, NothingMoves
<1>16. CASE StealKeeps(t)
  <2> DEFINE last == tail[t] + n[t] - 1
             y == Slot(t, tail[t] + n[t] - 1)
  <2>1. /\ pc[t] = "keep" /\ pc'[t] = "work" /\ tail'[t] = last /\ UNCHANGED <<head, buf, gq>>
    BY <1>16, <1>pc, <1>tail DEF StealKeeps
  <2>2. n[t] > 0 /\ todo[t] = <<>> /\ item[t] = Nothing
    BY <1>0, <2>1 DEF Local
  <2>3. \A u \in Threads, m \in Nat : m \in Owned(u)' <=> m \in Owned(u) /\ ~(u = t /\ m = last)
    <3>1. \A m \in Nat : m \in Owned(t)' <=> m \in Owned(t) /\ m # last
      <4>1. \A m \in Nat :
              m \in Owned(t) <=> \/ head[t] <= m /\ m < tail[t]
                                 \/ tail[t] <= m /\ m < tail[t] + n[t]
        BY <1>0, <1>nat, <2>1, OwnedIs
      <4>2. \A m \in Nat : m \in Owned(t)' <=> head[t] <= m /\ m < last
        BY <1>0, <1>nat, <2>1, OwnedIsNext
      <4>3. head[t] \in Nat /\ tail[t] \in Nat /\ n[t] \in Nat /\ head[t] <= tail[t] /\ n[t] > 0
        BY <1>0b, <1>nat, <2>2
      <4>4. ASSUME NEW m \in Nat
            PROVE  m \in Owned(t)' <=> m \in Owned(t) /\ m # last
        <5>1. m \in Owned(t) <=> head[t] <= m /\ m <= last
          BY <4>1, <4>3
        <5>2. m \in Owned(t)' <=> head[t] <= m /\ m < last
          BY <4>2
        <5>3. last \in Int
          BY <4>3
        <5> HIDE DEF last
        <5> QED BY <5>1, <5>2, <5>3
      <4> QED BY <4>4
    <3>2. \A u \in Threads \ {t} : Owned(u)' = Owned(u)
      BY <1>0, <2>1, OwnedOfOthers
    <3> QED BY <3>1, <3>2
  <2>4. last \in Owned(t) /\ last \in Nat
    <3>1. last \in Nat /\ tail[t] <= last /\ last < tail[t] + n[t]
      BY <1>nat, <2>2
    <3> QED BY <1>0, <2>1, <3>1, OwnedIs
  <2>5. At("queue", t, last, y) /\ y \in Items
    BY <1>0c, <2>4 DEF At
  <2>6. Leaves(y, "queue", t, last)
    BY <2>1, <2>3 DEF At, Leaves, Slot
  <2>7. /\ got' = [got EXCEPT ![y] = @ + 1] /\ todo' = [todo EXCEPT ![t] = Children[y]]
        /\ item' = [item EXCEPT ![t] = Nothing]
    BY <1>16 DEF StealKeeps
  <2> HIDE DEF last, y
  <2>8. Unique' /\ Somewhere' /\ GotOnce'
    BY <1>0, <1>0c, <2>2, <2>4, <2>5, <2>6, <2>7, OneIsGot
  <2>9. Real'
    BY <1>0c, <1>0, <2>1, <2>3, OwnedIsNext DEF Real, Slot
  <2> QED BY <2>8, <2>9 DEF Placed
<1>17. CASE WorkDone(t)
  <2>1. pc[t] \notin {"keep", "overflow"} /\ pc'[t] \notin {"keep", "overflow"}
    BY <1>17, <1>pc DEF WorkDone
  <2>2. UNCHANGED <<head, tail, todo, item, gq, got>>
    BY <1>17 DEF WorkDone
  <2>3. Owned(t)' = Owned(t)
    BY <2>1, <2>2 DEF Owned
  <2>4. \A u \in Threads : Owned(u)' = Owned(u)
    BY <1>0, <2>2, <2>3, OwnedOfOthers
  <2> QED BY <1>0, <1>0a, <2>2, <2>4, NothingMoves
<1>18. CASE WorkNext(t)
  <2> DEFINE y == Head(todo[t])
  <2>1. /\ pc[t] = "work" /\ pc'[t] = "push" /\ todo[t] # <<>>
        /\ UNCHANGED <<head, tail, buf, gq, h, i, n, got>>
    BY <1>18, <1>pc DEF WorkNext
  <2>2. /\ \A u \in Threads : item'[u] = IF u = t THEN y ELSE item[u]
        /\ \A u \in Threads : todo'[u] = IF u = t THEN Tail(todo[t]) ELSE todo[u]
    BY <1>18, <1>item, <1>todo DEF WorkNext
  <2>3. item[t] = Nothing
    BY <1>0, <2>1 DEF Local
  <2>4. /\ \A m \in Nat : m \in DOMAIN Tail(todo[t]) <=> m # 0 /\ m + 1 \in DOMAIN todo[t]
        /\ \A m \in DOMAIN Tail(todo[t]) : Tail(todo[t])[m] = todo[t][m + 1]
        /\ 1 \in DOMAIN todo[t] /\ todo[t][1] = y /\ DOMAIN todo[t] \subseteq Nat \ {0}
    BY <1>todo, <2>1
  <2>5. \A u \in Threads : Owned(u)' = Owned(u)
    BY <1>0, <2>1, OwnedOfOthers DEF Owned
  <2>6. ASSUME NEW x \in Items, NEW a \in Kinds, NEW u \in Wheres, NEW m \in Nat
        PROVE  At(a, u, m, x)' <=>
                 \/ a = "todo" /\ u = t /\ m # 0 /\ At("todo", t, m + 1, x)
                 \/ a = "hand" /\ u = t /\ m = 0 /\ At("todo", t, 1, x)
                 \/ ~(a \in {"todo", "hand"} /\ u = t) /\ At(a, u, m, x)
    <3>1. CASE a \in {"queue", "global", "got"}
      BY <2>1, <2>5, <3>1 DEF At, Slot
    <3>2. CASE a = "todo"
      BY <2>2, <2>4, <3>2 DEF At
    <3>3. CASE a = "hand"
      BY <2>2, <2>4, <3>3 DEF At
    <3> QED BY <3>1, <3>2, <3>3 DEF Kinds
  <2>7. /\ \A x \in Items, m \in Nat : ~At("hand", t, m, x)
        /\ \A x \in Items : ~At("todo", t, 0, x)
        /\ "todo" \in Kinds /\ "hand" \in Kinds /\ t \in Wheres
    BY <1>0c, <2>3, <2>4 DEF At, Kinds, StealingOK
  <2>8. Unique'
    <3> SUFFICES ASSUME NEW x \in Items, NEW a \in Kinds, NEW b \in Kinds, NEW u \in Wheres,
                        NEW v \in Wheres, NEW k \in Nat, NEW l \in Nat,
                        At(a, u, k, x)', At(b, v, l, x)'
                 PROVE  a = b /\ u = v /\ k = l
      BY DEF Unique
    <3>1. \A c, d \in Kinds, z, w \in Wheres, m, p \in Nat :
            At(c, z, m, x) /\ At(d, w, p, x) => c = d /\ z = w /\ m = p
      BY <1>0 DEF Placed, Unique
    <3>2. k + 1 \in Nat /\ l + 1 \in Nat /\ 1 \in Nat /\ (k + 1 = l + 1 => k = l)
          /\ (k # 0 => k + 1 # 1) /\ (l # 0 => l + 1 # 1)
      OBVIOUS
    <3>3. CASE At("todo", t, k + 1, x) /\ a = "todo" /\ u = t /\ k # 0
      BY <2>6, <2>7, <3>1, <3>2, <3>3
    <3>4. CASE At("todo", t, 1, x) /\ a = "hand" /\ u = t /\ k = 0
      BY <2>6, <2>7, <3>1, <3>2, <3>4
    <3>5. CASE At(a, u, k, x) /\ ~(a \in {"todo", "hand"} /\ u = t)
      BY <2>6, <2>7, <3>1, <3>2, <3>5
    <3> QED BY <2>6, <3>3, <3>4, <3>5
  <2>9. Somewhere'
    <3> SUFFICES ASSUME NEW x \in Items
                 PROVE  Spawned(x)' <=> \E a \in Kinds, u \in Wheres, m \in Nat : At(a, u, m, x)'
      BY DEF Somewhere
    <3>1. Spawned(x)' <=> \E a \in Kinds, u \in Wheres, m \in Nat : At(a, u, m, x)
      BY <1>0, <2>1 DEF Placed, Somewhere, Spawned
    <3>2. ASSUME NEW a \in Kinds, NEW u \in Wheres, NEW m \in Nat, At(a, u, m, x)'
          PROVE  \E b \in Kinds, v \in Wheres, l \in Nat : At(b, v, l, x)
      <4>1. m + 1 \in Nat /\ 1 \in Nat
        OBVIOUS
      <4> QED BY <2>6, <2>7, <3>2, <4>1
    <3>3. ASSUME NEW a \in Kinds, NEW u \in Wheres, NEW m \in Nat, At(a, u, m, x)
          PROVE  \E b \in Kinds, v \in Wheres, l \in Nat : At(b, v, l, x)'
      <4>1. CASE ~(a \in {"todo", "hand"} /\ u = t)
        BY <2>6, <3>3, <4>1
      <4>2. CASE a = "todo" /\ u = t /\ m = 1
        <5>1. At("hand", t, 0, x)'
          BY <2>6, <2>7, <3>3, <4>2
        <5> QED BY <2>7, <5>1
      <4>3. CASE a = "todo" /\ u = t /\ m > 1
        <5>1. m - 1 \in Nat /\ m - 1 # 0 /\ (m - 1) + 1 = m
          BY <4>3
        <5>2. At("todo", t, m - 1, x)'
          BY <2>6, <2>7, <3>3, <4>3, <5>1
        <5> QED BY <2>7, <5>1, <5>2
      <4>4. m = 0 \/ m = 1 \/ m > 1
        OBVIOUS
      <4> QED BY <2>7, <3>3, <4>1, <4>2, <4>3, <4>4
    <3> QED BY <3>1, <3>2, <3>3
  <2>10. GotOnce' /\ Real'
    BY <1>0, <2>1, <2>5 DEF Placed, GotOnce, Real, Slot
  <2> QED BY <2>8, <2>9, <2>10 DEF Placed
<1>19. CASE PushFits(t)
  <2>1. pc[t] \notin {"keep", "overflow"} /\ pc'[t] \notin {"keep", "overflow"}
    BY <1>19, <1>pc DEF PushFits
  <2>2. UNCHANGED <<head, tail, todo, item, gq, got>>
    BY <1>19 DEF PushFits
  <2>3. Owned(t)' = Owned(t)
    BY <2>1, <2>2 DEF Owned
  <2>4. \A u \in Threads : Owned(u)' = Owned(u)
    BY <1>0, <2>2, <2>3, OwnedOfOthers
  <2> QED BY <1>0, <1>0a, <2>2, <2>4, NothingMoves
<1>20. CASE PushFull(t)
  <2>1. pc[t] \notin {"keep", "overflow"} /\ pc'[t] \notin {"keep", "overflow"}
    BY <1>20, <1>pc DEF PushFull
  <2>2. UNCHANGED <<head, tail, todo, item, gq, got>>
    BY <1>20 DEF PushFull
  <2>3. Owned(t)' = Owned(t)
    BY <2>1, <2>2 DEF Owned
  <2>4. \A u \in Threads : Owned(u)' = Owned(u)
    BY <1>0, <2>2, <2>3, OwnedOfOthers
  <2> QED BY <1>0, <1>0a, <2>2, <2>4, NothingMoves
<1>21. CASE PushStores(t)
  <2> DEFINE y == item[t]
  <2>1. /\ pc[t] = "store" /\ pc'[t] = "work" /\ tail'[t] = tail[t] + 1
        /\ buf'[t] = [buf[t] EXCEPT ![tail[t] % N] = y] /\ UNCHANGED <<head, gq, todo, got>>
    BY <1>21, <1>pc, <1>tail, <1>buf DEF PushStores
  <2>2. \A u \in Threads : item'[u] = IF u = t THEN Nothing ELSE item[u]
    BY <1>21, <1>item DEF PushStores
  <2>3. y \in Items /\ y # Nothing
    BY <1>0, <1>item, <2>1 DEF Local
  <2>4. \A u \in Threads, m \in Nat : m \in Owned(u)' <=> m \in Owned(u) \/ (u = t /\ m = tail[t])
    <3>1. \A m \in Nat : m \in Owned(t)' <=> m \in Owned(t) \/ m = tail[t]
      BY <1>0, <1>0b, <1>nat, <2>1, OwnedIs, OwnedIsNext
    <3>2. \A u \in Threads \ {t} : Owned(u)' = Owned(u)
      BY <1>0, <2>1, OwnedOfOthers
    <3> QED BY <3>1, <3>2
  <2>5. tail[t] \notin Owned(t) /\ tail[t] \in Nat
    BY <1>0, <1>nat, <2>1, OwnedIs
  <2>6. buf'[t][tail[t] % N] = y
    BY <1>buf, <2>1, <2>5, ModRange
  <2>z. PICK z \in Nat : z = 0
    OBVIOUS
  <2>7. At("hand", t, z, y) /\ "hand" \in Kinds /\ "queue" \in Kinds
    BY <2>z DEF At, Kinds
  <2>8. ASSUME NEW x \in Items, NEW a \in Kinds, NEW u \in Wheres, NEW m \in Nat
        PROVE  At(a, u, m, x)' <=> \/ At(a, u, m, x) /\ ~(x = y /\ a = "hand" /\ u = t /\ m = z)
                                   \/ x = y /\ a = "queue" /\ u = t /\ m = tail[t]
    <3>1. CASE a = "queue"
      BY <1>0a, <2>4, <2>5, <2>6, <3>1 DEF At, Slot
    <3>2. CASE a = "hand"
      <4>1. x # Nothing
        BY DEF StealingOK
      <4> QED BY <2>2, <2>z, <3>2, <4>1 DEF At
    <3>3. CASE a \in {"todo", "global", "got"}
      BY <2>1, <3>3 DEF At
    <3> QED BY <3>1, <3>2, <3>3 DEF Kinds
  <2>9. Unique' /\ Somewhere' /\ GotOnce'
    <3>1. ASSUME NEW y0 \in Items, NEW t0 \in Wheres, NEW k0 \in Nat, NEW t1 \in Wheres,
                 NEW k1 \in Nat, y0 = y, t0 = t, k0 = z, t1 = t, k1 = tail[t]
          PROVE  Unique' /\ Somewhere' /\ GotOnce'
      <4>1. /\ At("hand", t0, k0, y0) /\ "hand" \in Kinds /\ "queue" \in Kinds
            /\ y0 \in Items /\ t0 \in Wheres /\ k0 \in Nat /\ t1 \in Wheres /\ k1 \in Nat
            /\ Placed /\ got' = got
        BY <1>0, <2>7, <2>1, <3>1
      <4>2. Moves(y0, "hand", t0, k0, "queue", t1, k1)
        BY <2>8, <3>1 DEF Moves
      <4> QED BY <4>1, <4>2, OneMoves
    <3> QED BY <1>0c, <2>3, <2>5, <3>1
  <2>10. Real'
    BY <1>0, <1>0a, <1>0c, <2>3, <2>4, <2>6, OwnedIsNext DEF Real, Slot
  <2> QED BY <2>9, <2>10 DEF Placed
<1>22. CASE OverflowTakes(t)
  <2>1. /\ pc[t] = "overflow_cas" /\ pc'[t] = "overflow" /\ head[t] = h[t]
        /\ head'[t] = head[t] + N \div 2 + 1 /\ n'[t] = N \div 2 + 1 /\ i'[t] = 0
        /\ UNCHANGED <<tail, h, gq, item, todo, got>>
    BY <1>22, <1>pc, <1>head, <1>n, <1>i DEF OverflowTakes
  <2>2. tail[t] - h[t] >= N
    BY <1>0, <2>1 DEF Local
  <2>3. \A m : m \in Owned(t)' <=> m \in Owned(t)
    BY <1>0, <1>0b, <1>nat, <2>1, <2>2, HalfOfN, OwnedIs, OwnedIsNext
  <2>4. \A u \in Threads \ {t} : Owned(u)' = Owned(u)
    <3>1. \A u \in Threads \ {t} : head'[u] = head[u]
      BY <1>22, <1>head DEF OverflowTakes
    <3> QED BY <1>0, <3>1, OwnedOfOthers
  <2>5. \A u \in Threads : Owned(u)' = Owned(u)
    <3>1. Owned(t)' = Owned(t)
      BY <2>3
    <3> QED BY <2>4, <3>1
  <2> QED BY <1>0, <1>0a, <2>1, <2>5, NothingMoves
<1>23. CASE OverflowLoses(t)
  <2>1. pc[t] \notin {"keep", "overflow"} /\ pc'[t] \notin {"keep", "overflow"}
    BY <1>23, <1>pc DEF OverflowLoses
  <2>2. UNCHANGED <<head, tail, todo, item, gq, got>>
    BY <1>23 DEF OverflowLoses
  <2>3. Owned(t)' = Owned(t)
    BY <2>1, <2>2 DEF Owned
  <2>4. \A u \in Threads : Owned(u)' = Owned(u)
    BY <1>0, <2>2, <2>3, OwnedOfOthers
  <2> QED BY <1>0, <1>0a, <2>2, <2>4, NothingMoves
<1>24. CASE OverflowMoves(t)
  <2> DEFINE p == i[t] + h[t]
             y == Slot(t, i[t] + h[t])
  <2>1. /\ pc[t] = "overflow" /\ i[t] < n[t] /\ i'[t] = i[t] + 1 /\ gq' = gq \cup {y}
        /\ UNCHANGED <<head, tail, buf, pc, item, todo, h, n, got>>
    BY <1>24, <1>i DEF OverflowMoves
  <2>2. h[t] + n[t] <= head[t]
    BY <1>0, <2>1 DEF Local
  <2>3. \A u \in Threads, m \in Nat : m \in Owned(u)' <=> m \in Owned(u) /\ ~(u = t /\ m = p)
    <3>1. \A m \in Nat : m \in Owned(t)' <=> m \in Owned(t) /\ m # p
      BY <1>0, <1>nat, <2>1, <2>2, OwnedIs, OwnedIsNext
    <3>2. \A u \in Threads \ {t} : Owned(u)' = Owned(u)
      BY <1>0, <2>1, OwnedOfOthers
    <3> QED BY <3>1, <3>2
  <2>4. p \in Owned(t) /\ p \in Nat
    BY <1>0, <1>nat, <2>1, OwnedIs
  <2>5. At("queue", t, p, y) /\ y \in Items /\ "queue" \in Kinds /\ "global" \in Kinds
    BY <1>0c, <2>4 DEF At, Kinds
  <2>z. PICK z \in Nat : z = 0
    OBVIOUS
  <2> HIDE DEF p
  <2>6. ASSUME NEW x \in Items, NEW a \in Kinds, NEW u \in Wheres, NEW m \in Nat
        PROVE  At(a, u, m, x)' <=> \/ At(a, u, m, x) /\ ~(x = y /\ a = "queue" /\ u = t /\ m = p)
                                   \/ x = y /\ a = "global" /\ u = Nothing /\ m = z
    <3>1. CASE a = "queue"
      BY <2>1, <2>3, <2>5, <3>1 DEF At, Slot
    <3>2. CASE a = "global"
      BY <2>1, <2>z, <3>2 DEF At
    <3>3. CASE a \in {"todo", "hand", "got"}
      BY <2>1, <3>3 DEF At
    <3> QED BY <3>1, <3>2, <3>3 DEF Kinds
  <2>7. Unique' /\ Somewhere' /\ GotOnce'
    <3>1. ASSUME NEW y0 \in Items, NEW t0 \in Wheres, NEW k0 \in Nat, NEW t1 \in Wheres,
                 NEW k1 \in Nat, y0 = y, t0 = t, k0 = p, t1 = Nothing, k1 = z
          PROVE  Unique' /\ Somewhere' /\ GotOnce'
      <4>1. /\ At("queue", t0, k0, y0) /\ "queue" \in Kinds /\ "global" \in Kinds
            /\ y0 \in Items /\ t0 \in Wheres /\ k0 \in Nat /\ t1 \in Wheres /\ k1 \in Nat
            /\ Placed /\ got' = got
        BY <1>0, <2>5, <2>1, <3>1
      <4>2. Moves(y0, "queue", t0, k0, "global", t1, k1)
        BY <2>6, <3>1 DEF Moves
      <4> QED BY <4>1, <4>2, OneMoves
    <3> QED BY <1>0c, <2>4, <2>5, <3>1
  <2>8. Real'
    BY <1>0, <1>0c, <2>1, <2>3, OwnedIsNext DEF Real, Slot
  <2> QED BY <2>7, <2>8 DEF Placed
<1>25. CASE OverflowEnds(t)
  <2> DEFINE y == item[t]
  <2>1. /\ pc[t] = "overflow" /\ pc'[t] = "work" /\ i[t] = n[t] /\ gq' = gq \cup {y}
        /\ UNCHANGED <<head, tail, buf, todo, h, i, n, got>>
    BY <1>25, <1>pc DEF OverflowEnds
  <2>2. \A u \in Threads : item'[u] = IF u = t THEN Nothing ELSE item[u]
    BY <1>25, <1>item DEF OverflowEnds
  <2>3. y \in Items /\ y # Nothing
    BY <1>0, <1>item, <2>1 DEF Local
  <2>4. \A u \in Threads, m \in Nat : m \in Owned(u)' <=> m \in Owned(u)
    <3>1. \A m \in Nat : m \in Owned(t)' <=> m \in Owned(t)
      BY <1>0, <1>nat, <2>1, OwnedIs, OwnedIsNext
    <3>2. \A u \in Threads \ {t} : Owned(u)' = Owned(u)
      BY <1>0, <2>1, OwnedOfOthers
    <3> QED BY <3>1, <3>2
  <2>z. PICK z \in Nat : z = 0
    OBVIOUS
  <2>5. At("hand", t, z, y) /\ "hand" \in Kinds /\ "global" \in Kinds
    BY <2>z DEF At, Kinds
  <2>6. ASSUME NEW x \in Items, NEW a \in Kinds, NEW u \in Wheres, NEW m \in Nat
        PROVE  At(a, u, m, x)' <=> \/ At(a, u, m, x) /\ ~(x = y /\ a = "hand" /\ u = t /\ m = z)
                                   \/ x = y /\ a = "global" /\ u = Nothing /\ m = z
    <3>1. CASE a = "queue"
      BY <2>1, <2>4, <3>1 DEF At, Slot
    <3>2. CASE a = "global"
      BY <2>1, <2>z, <3>2 DEF At
    <3>3. CASE a = "hand"
      <4>1. x # Nothing
        BY DEF StealingOK
      <4> QED BY <2>2, <2>z, <3>3, <4>1 DEF At
    <3>4. CASE a \in {"todo", "got"}
      BY <2>1, <3>4 DEF At
    <3> QED BY <3>1, <3>2, <3>3, <3>4 DEF Kinds
  <2>7. Unique' /\ Somewhere' /\ GotOnce'
    <3>1. ASSUME NEW y0 \in Items, NEW t0 \in Wheres, NEW k0 \in Nat, NEW t1 \in Wheres,
                 NEW k1 \in Nat, y0 = y, t0 = t, k0 = z, t1 = Nothing, k1 = z
          PROVE  Unique' /\ Somewhere' /\ GotOnce'
      <4>1. /\ At("hand", t0, k0, y0) /\ "hand" \in Kinds /\ "global" \in Kinds
            /\ y0 \in Items /\ t0 \in Wheres /\ k0 \in Nat /\ t1 \in Wheres /\ k1 \in Nat
            /\ Placed /\ got' = got
        BY <1>0, <2>5, <2>1, <3>1
      <4>2. Moves(y0, "hand", t0, k0, "global", t1, k1)
        BY <2>6, <3>1 DEF Moves
      <4> QED BY <4>1, <4>2, OneMoves
    <3> QED BY <1>0c, <2>3, <3>1
  <2>8. Real'
    BY <1>0, <1>0c, <2>1, <2>4, OwnedIsNext DEF Real, Slot
  <2> QED BY <2>7, <2>8 DEF Placed
<1> QED
  BY StepWays, <1>0, <1>1, <1>2, <1>3, <1>4, <1>5, <1>6, <1>7, <1>8, <1>9, <1>10, <1>11, <1>12, <1>13, <1>14,
     <1>15, <1>16, <1>17, <1>18, <1>19, <1>20, <1>21, <1>22, <1>23, <1>24, <1>25 DEF Ways

----------------------------------------------------------------------------
(* The first state.                                                         *)
LEMMA InvInit == ASSUME StealingOK PROVE Init => Inv
<1> SUFFICES ASSUME Init
             PROVE  Inv
  OBVIOUS
<1>1. N \in Nat \ {0} /\ N \div 2 + 1 \in Nat /\ 0 \in 0 .. (N \div 2 + 1) /\ Nothing \notin Items
  BY HalfOfN DEF StealingOK
<1>2. TypeOK
  <2>1. /\ head \in [Threads -> Nat] /\ tail \in [Threads -> Nat] /\ h \in [Threads -> Nat]
        /\ oh \in [Threads -> Nat] /\ i \in [Threads -> Nat]
        /\ \A t \in Threads : i[t] <= n[t]
        /\ n \in [Threads -> 0 .. (N \div 2 + 1)]
    BY <1>1 DEF Init
  <2>2. /\ buf \in [Threads -> [0 .. (N - 1) -> Items \cup {Nothing}]]
        /\ item \in [Threads -> Items \cup {Nothing}] /\ victim \in [Threads -> Threads]
    BY DEF Init
  <2>3. todo \in [Threads -> Seq(Items)]
    <3>1. <<>> \in Seq(Items)
      OBVIOUS
    <3>2. todo = [t \in Threads |-> <<>>]
      BY DEF Init
    <3> QED BY <3>1, <3>2
  <2>4. gq \subseteq Items /\ pc \in [Threads -> Pcs] /\ got \in [Items -> Nat]
    BY DEF Init, Pcs, StealingOK
  <2> QED BY <2>1, <2>2, <2>3, <2>4 DEF TypeOK
<1>3. \A t \in Threads : Ends(t) /\ Local(t) /\ Thief(t)
  BY <1>1 DEF Init, Ends, Local, Thief
<1>4. \A t \in Threads : Owned(t) = {}
  BY DEF Init, Owned
<1>5. \A x \in Items, a \in Kinds, t \in Wheres, k \in Nat :
        At(a, t, k, x) <=> a = "global" /\ t = Nothing /\ k = 0 /\ x \in Roots
  BY <1>1, <1>4 DEF Init, At
<1>6. Unique
  BY <1>5 DEF Unique
<1>7. Somewhere
  <2>1. \A x : Spawned(x) <=> x \in Roots
    BY DEF Init, Spawned
  <2>2. "global" \in Kinds /\ Nothing \in Wheres /\ 0 \in Nat
    BY DEF Kinds, Wheres
  <2> QED BY <1>5, <2>1, <2>2 DEF Somewhere
<1>8. GotOnce
  BY DEF Init, GotOnce
<1>9. Real
  BY <1>4 DEF Real
<1> QED BY <1>2, <1>3, <1>6, <1>7, <1>8, <1>9 DEF Inv, Placed

(* Every step keeps the invariant.                                          *)
LEMMA InvStep == ASSUME StealingOK PROVE Inv /\ [Next]_vars => Inv'
<1> SUFFICES ASSUME Inv, [Next]_vars
             PROVE  Inv'
  OBVIOUS
<1>1. ASSUME NEW t \in Threads, Step(t)
      PROVE  Inv'
  <2>1. TypeOK' /\ Placed'
    BY <1>1, TypeStep, PlacedStep
  <2>2. \A u \in Threads : Ends(u)' /\ Local(u)'
    BY <1>1, EndsStep, LocalStep
  <2>3. ASSUME NEW u \in Threads
        PROVE  Thief(u)'
    BY <1>1, <2>3, OwnThiefStep, OtherThiefStep
  <2> QED BY <2>1, <2>2, <2>3 DEF Inv
<1>2. CASE UNCHANGED vars
  <2>1. /\ UNCHANGED <<head, tail, buf, gq, pc, item, todo, h>>
        /\ UNCHANGED <<victim, oh, n, i, got>>
    BY <1>2 DEF vars, queueVars, stealVars
  <2>2. TypeOK'
    BY <2>1 DEF Inv, TypeOK
  <2>3. ASSUME NEW u \in Threads
        PROVE  Ends(u)' /\ Local(u)' /\ Thief(u)'
    <3>1. Ends(u) /\ Local(u) /\ Thief(u)
      BY DEF Inv
    <3> QED BY <2>1, <3>1 DEF Ends, Local, Thief, Slot
  <2>4. \A u \in Threads : Owned(u)' = Owned(u)
    BY <2>1 DEF Owned
  <2>5. Placed'
    BY <2>1, <2>4, NothingMoves DEF Inv, Slot
  <2> QED BY <2>2, <2>3, <2>5 DEF Inv
<1> QED BY <1>1, <1>2 DEF Next, Finished

(* The queues fit in their rings.                                           *)
LEMMA InvFits == ASSUME StealingOK PROVE Inv => Fits
<1> SUFFICES ASSUME Inv, NEW t \in Threads
             PROVE  tail[t] - head[t] \in 0 .. N
  BY DEF Fits
<1>1. head[t] \in Nat /\ tail[t] \in Nat /\ N \in Nat
  BY Numbers DEF Inv
<1>2. head[t] <= tail[t] /\ tail[t] <= head[t] + N
  BY DEF Inv, Ends
<1> QED BY <1>1, <1>2

(* The places of an item, one by one.                                       *)
LEMMA PlacesAre ==
  ASSUME StealingOK, NEW x, NEW p
  PROVE  p \in Places(x) <=>
           \/ \E t \in Threads : \E k \in Owned(t) : Slot(t, k) = x /\ p = <<"queue", t, k>>
           \/ \E t \in Threads : \E k \in DOMAIN todo[t] : todo[t][k] = x /\ p = <<"todo", t, k>>
           \/ \E t \in Threads : item[t] = x /\ p = <<"hand", t>>
           \/ x \in gq /\ p = <<"global">>
<1>1. p \in InQueue(x) <=>
        \E t \in Threads : \E k \in Owned(t) : Slot(t, k) = x /\ p = <<"queue", t, k>>
  BY DEF InQueue
<1>2. p \in InTodo(x) <=>
        \E t \in Threads : \E k \in DOMAIN todo[t] : todo[t][k] = x /\ p = <<"todo", t, k>>
  BY DEF InTodo
<1> QED BY <1>1, <1>2 DEF Places

(* An item that exists has a single place or was got, and no other has one. *)
LEMMA InvEachOnce == ASSUME StealingOK PROVE Inv => EachOnce
<1> SUFFICES ASSUME Inv, NEW x \in Items
             PROVE  got[x] + Cardinality(Places(x)) = IF Spawned(x) THEN 1 ELSE 0
  BY DEF EachOnce
<1>0. TypeOK /\ Placed /\ got[x] \in Nat /\ got[x] <= 1
  BY DEF Inv, TypeOK, Placed, GotOnce
<1>1. /\ \A t \in Threads : Owned(t) \subseteq Nat /\ DOMAIN todo[t] \subseteq Nat
      /\ Threads \subseteq Wheres /\ Nothing \in Wheres /\ 0 \in Nat
      /\ "queue" \in Kinds /\ "todo" \in Kinds /\ "hand" \in Kinds /\ "global" \in Kinds
      /\ "got" \in Kinds
  <2>1. \A t \in Threads : Owned(t) \subseteq Nat
    BY <1>0, OwnedIs
  <2>2. \A t \in Threads : todo[t] \in Seq(Items)
    BY <1>0 DEF TypeOK
  <2> QED BY <2>1, <2>2 DEF Wheres, Kinds
<1>2. Spawned(x) <=> \E a \in Kinds, t \in Wheres, k \in Nat : At(a, t, k, x)
  BY <1>0 DEF Placed, Somewhere
<1>3. \A a, b \in Kinds, t, u \in Wheres, k, l \in Nat :
        At(a, t, k, x) /\ At(b, u, l, x) => a = b /\ t = u /\ k = l
  BY <1>0 DEF Placed, Unique
<1>4. got[x] > 0 <=> At("got", Nothing, 0, x)
  BY DEF At
<1>5. ASSUME NEW p \in Places(x)
      PROVE  \E a \in Kinds \ {"got"}, t \in Wheres, k \in Nat : At(a, t, k, x)
  <2>1. CASE \E t \in Threads : \E k \in Owned(t) : Slot(t, k) = x /\ p = <<"queue", t, k>>
    BY <1>1, <2>1 DEF At
  <2>2. CASE \E t \in Threads : \E k \in DOMAIN todo[t] : todo[t][k] = x /\ p = <<"todo", t, k>>
    BY <1>1, <2>2 DEF At
  <2>3. CASE \E t \in Threads : item[t] = x /\ p = <<"hand", t>>
    BY <1>1, <2>3 DEF At
  <2>4. CASE x \in gq /\ p = <<"global">>
    BY <1>1, <2>4 DEF At
  <2> QED BY <1>5, <2>1, <2>2, <2>3, <2>4, PlacesAre
<1>6. ASSUME NEW p \in Places(x), NEW q \in Places(x)
      PROVE  p = q
  <2> DEFINE Is(r, a, t, k) == /\ a = "queue" => r = <<"queue", t, k>>
                               /\ a = "todo" => r = <<"todo", t, k>>
                               /\ a = "hand" => r = <<"hand", t>>
                               /\ a = "global" => r = <<"global">>
  <2>1. ASSUME NEW r \in Places(x)
        PROVE  \E a \in Kinds \ {"got"}, t \in Wheres, k \in Nat : At(a, t, k, x) /\ Is(r, a, t, k)
    <3>1. CASE \E t \in Threads : \E k \in Owned(t) : Slot(t, k) = x /\ r = <<"queue", t, k>>
      BY <1>1, <3>1 DEF At
    <3>2. CASE \E t \in Threads : \E k \in DOMAIN todo[t] : todo[t][k] = x /\ r = <<"todo", t, k>>
      BY <1>1, <3>2 DEF At
    <3>3. CASE \E t \in Threads : item[t] = x /\ r = <<"hand", t>>
      BY <1>1, <3>3 DEF At
    <3>4. CASE x \in gq /\ r = <<"global">>
      BY <1>1, <3>4 DEF At
    <3> QED BY <2>1, <3>1, <3>2, <3>3, <3>4, PlacesAre
  <2>2. PICK a \in Kinds \ {"got"}, t \in Wheres, k \in Nat : At(a, t, k, x) /\ Is(p, a, t, k)
    BY <2>1
  <2>3. PICK b \in Kinds \ {"got"}, u \in Wheres, l \in Nat : At(b, u, l, x) /\ Is(q, b, u, l)
    BY <2>1
  <2>4. a = b /\ t = u /\ k = l
    BY <1>3, <2>2, <2>3
  <2>5. Is(q, a, t, k)
    BY <2>3, <2>4
  <2> QED BY <2>2, <2>5 DEF Kinds
<1>7. ASSUME NEW a \in Kinds \ {"got"}, NEW t \in Wheres, NEW k \in Nat, At(a, t, k, x)
      PROVE  \E p : p \in Places(x)
  <2>1. CASE a = "queue"
    <3>1. t \in Threads /\ k \in Owned(t) /\ Slot(t, k) = x
      BY <1>7, <2>1 DEF At
    <3>2. <<"queue", t, k>> \in Places(x)
      BY <3>1, PlacesAre
    <3> QED BY <3>2
  <2>2. CASE a = "todo"
    <3>1. t \in Threads /\ k \in DOMAIN todo[t] /\ todo[t][k] = x
      BY <1>7, <2>2 DEF At
    <3>2. <<"todo", t, k>> \in Places(x)
      BY <3>1, PlacesAre
    <3> QED BY <3>2
  <2>3. CASE a = "hand"
    <3>1. t \in Threads /\ item[t] = x
      BY <1>7, <2>3 DEF At
    <3>2. <<"hand", t>> \in Places(x)
      BY <3>1, PlacesAre
    <3> QED BY <3>2
  <2>4. CASE a = "global"
    <3>1. x \in gq
      BY <1>7, <2>4 DEF At
    <3>2. <<"global">> \in Places(x)
      BY <3>1, PlacesAre
    <3> QED BY <3>2
  <2> QED BY <1>7, <2>1, <2>2, <2>3, <2>4 DEF Kinds
<1>8. Cardinality({}) = 0 /\ \A p : Cardinality({p}) = 1
  BY FS_EmptySet, FS_Singleton
<1>9. CASE got[x] > 0
  <2>1. got[x] = 1 /\ Spawned(x)
    BY <1>0, <1>1, <1>2, <1>4, <1>9
  <2>2. Places(x) = {}
    BY <1>1, <1>3, <1>4, <1>5, <1>9
  <2> QED BY <1>8, <2>1, <2>2
<1>10. CASE got[x] = 0 /\ Places(x) = {}
  <2>1. \A a \in Kinds, t \in Wheres, k \in Nat : ~At(a, t, k, x)
    <3>1. \A t \in Wheres, k \in Nat : ~At("got", t, k, x)
      BY <1>10 DEF At
    <3> QED BY <1>7, <1>10, <3>1
  <2> QED BY <1>2, <1>8, <1>10, <2>1
<1>11. CASE got[x] = 0 /\ Places(x) # {}
  <2>1. PICK p : p \in Places(x)
    BY <1>11
  <2>2. Places(x) = {p}
    BY <1>6, <2>1
  <2>3. Spawned(x)
    BY <1>2, <1>5, <2>1
  <2>4. Cardinality(Places(x)) = 1
    BY <1>8, <2>2
  <2> QED BY <1>11, <2>3, <2>4
<1> QED BY <1>0, <1>9, <1>10, <1>11

(* The invariant holds.                                                     *)
LEMMA Invariant == ASSUME StealingOK PROVE Spec => []Inv
<1>1. Init => Inv
  BY InvInit
<1>2. Inv /\ [Next]_vars => Inv'
  BY InvStep
<1> QED BY <1>1, <1>2, PTL DEF Spec

(* StealingHolds: whatever the owners, the thieves and the overflow do, no  *)
(* queue is longer than its ring, and each item is got once or is in one    *)
(* place, so that the sum of test/StealingQueue.cpp ends a round exactly    *)
(* when every item has been got once.                                       *)
THEOREM StealingHoldsCorrect == ASSUME StealingOK PROVE Spec => []StealingHolds
<1>1. Inv => StealingHolds
  BY InvFits, InvEachOnce DEF Inv, StealingHolds
<1> QED BY <1>1, Invariant, PTL
=============================================================================
