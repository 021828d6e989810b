------------------------------ MODULE MCPools ------------------------------
(***************************************************************************)
(* What threads share without a lock, or with a short one: AtomicRead (the *)
(* module this one extends), the two object pools, the hash map, tokens,   *)
(* thread ids and thread locals, lists.  They do not interact, so a        *)
(* behaviour is of one of them, named by part.  The one that nothing is    *)
(* proved of has the variables v1, v2, ...; the others have theirs.        *)
(***************************************************************************)
EXTENDS AtomicRead, Sequences, FiniteSetTheorems, WellFoundedInduction, TLAPS

CONSTANTS PoolThreads, Creators, Storages, MaxObjects,   \* of ObjectPool
          LocalThreads, MaxThreadId, Slots, MaxStarts,   \* of ThreadLocals
          Nodes, Owner,                                  \* of TsList
          Sources, Tokens, MaxRaws,                      \* of CancellationToken
          PtrThreads, Pool, Raws, MaxAllocs              \* of SharedObjectPool

VARIABLES part,   \* the component that this behaviour is of
          head, next, gen, data, made, objects, own, weak, poolAt,   \* the variables of ObjectPool
          unused_thread_ids_, max_thread_id_, thread_id_, state, raw_ptr,    \* those of
          destructors, cells, sum, total, starts,                            \* ThreadLocals
          ringNext, ringPrev, linked, ringData, ringAt, elements, queue,     \* of TsList
          raws, is_cancelled, source, token,                                 \* of CancellationToken
          allocated, rawNext, rawHead, rhead, rtail, adding, cnt, rawData,   \* of SharedObjectPool
          ptr, rawObjects, freed, rawAt,
          v1, v2, v3, v4, v5, v6, v7, v8, v9, v10        \* those of ConcurrentHashMap
poolVars == <<head, next, gen, data, made, objects, own, weak, poolAt>>
localVars == <<unused_thread_ids_, max_thread_id_, thread_id_, state, raw_ptr, destructors, cells, sum,
               total, starts>>
listVars == <<ringNext, ringPrev, linked, ringData, ringAt, elements, queue>>
tokenVars == <<raws, is_cancelled, source, token>>
ptrVars == <<allocated, rawNext, rawHead, rhead, rtail, adding, cnt, rawData, ptr, rawObjects, freed,
             rawAt>>
mapVars == <<v1, v2, v3, v4, v5, v6, v7, v8, v9, v10>>
mc_vars == <<part, vars, poolVars, localVars, listVars, tokenVars, ptrVars, mapVars>>

\* two threads insert key 1 while the table grows, a third looks keys up
MapCalls == << <<<<"insert", 1, 11>>, <<"insert", 2, 12>>>>, <<<<"insert", 1, 21>>>>,
               <<<<"find", 1>>, <<"find", 2>>>> >>

Objects == INSTANCE ObjectPool WITH Threads <- PoolThreads, at <- poolAt
Shared == INSTANCE SharedObjectPool WITH
  Threads <- PtrThreads, MaxObjects <- MaxAllocs, next <- rawNext, head <- rawHead, data <- rawData,
  objects <- rawObjects, at <- rawAt
Map == INSTANCE ConcurrentHashMap WITH
  Threads <- {1, 2, 3}, Calls <- MapCalls, Chunk <- 1, hash_map_ <- v1, tables <- v2,
  migrate_cnt_ <- v3, migrate_generation_ <- v4, migrate_from <- v5, migrate_to <- v6, pos <- v7,
  at <- v8, done <- v9, won <- v10
Token == INSTANCE CancellationToken
Locals == INSTANCE ThreadLocals WITH Threads <- LocalThreads
List == INSTANCE TsList WITH
  next <- ringNext, prev <- ringPrev, data <- ringData, at <- ringAt
MCOwner == [n \in {1, 2, 3} |-> IF n = 3 THEN 2 ELSE 1]

MCInit ==
  /\ Init /\ Objects!Init /\ Locals!Init /\ List!Init /\ Token!Init /\ Shared!Init
  /\ \/ part \in {"AtomicRead", "Objects", "Locals", "List", "Token", "Shared"}
        /\ v1 = 0 /\ v2 = 0 /\ v3 = 0 /\ v4 = 0 /\ v5 = 0 /\ v6 = 0 /\ v7 = 0 /\ v8 = 0 /\ v9 = 0
        /\ v10 = 0
     \/ part = "Map" /\ Map!Init
MCNext ==
  /\ UNCHANGED part
  /\ \/ /\ part = "AtomicRead" /\ Next
        /\ UNCHANGED <<poolVars, localVars, listVars, tokenVars, ptrVars, mapVars>>
     \/ /\ part = "Objects" /\ Objects!Next
        /\ UNCHANGED <<vars, localVars, listVars, tokenVars, ptrVars, mapVars>>
     \/ /\ part = "Locals" /\ Locals!Next
        /\ UNCHANGED <<vars, poolVars, listVars, tokenVars, ptrVars, mapVars>>
     \/ /\ part = "List" /\ List!Next
        /\ UNCHANGED <<vars, poolVars, localVars, tokenVars, ptrVars, mapVars>>
     \/ /\ part = "Token" /\ Token!Next
        /\ UNCHANGED <<vars, poolVars, localVars, listVars, ptrVars, mapVars>>
     \/ /\ part = "Shared" /\ Shared!Next
        /\ UNCHANGED <<vars, poolVars, localVars, listVars, tokenVars, mapVars>>
     \/ /\ part = "Map" /\ Map!Next
        /\ UNCHANGED <<vars, poolVars, localVars, listVars, tokenVars, ptrVars>>
MCSpec == MCInit /\ [][MCNext]_mc_vars
\* the fairness of ConcurrentHashMap and of AtomicRead, each while it is the part that runs
MCFairSpec ==
  /\ MCSpec
  /\ \A t \in {1, 2, 3} : WF_(Map!vars)(part = "Map" /\ Map!Step(t))
  /\ WF_vars(part = "AtomicRead" /\ (WriteWord \/ do_unlock))
  /\ \A r \in Readers : WF_vars(part = "AtomicRead" /\ Read(r))

(* A weak pointer that is alive reads its own object, and every storage is *)
(* free or with one thread (ObjectPool).                                   *)
ObjectsHold == part = "Objects" => Objects!AliveReadIsOwn /\ Objects!EachInOnePlace

(* A SharedPtr keeps its object, freed Raws are used again in their order  *)
(* and none is lost (SharedObjectPool, MpscLinkQueue).                     *)
SharedHold == part = "Shared" => Shared!PtrIsAlive /\ Shared!FreeIsFifo /\ Shared!NoneLost

(* Insertions and lookups of one key agree, and a migration loses nothing  *)
(* (ConcurrentHashMap).                                                    *)
MapHolds == part = "Map" => Map!ResultsAgree /\ Map!CurrentIsComplete

(* A thread's id and counter cells are its own while it lives and clean    *)
(* when they are used again (ThreadIdGuard, thread_local, counters).       *)
LocalsHold == part = "Locals" => Locals!IdsAreOwn /\ Locals!CellsAreOwn /\ Locals!SumIsNear

(* A list is its elements in order whoever puts, removes, moves and takes  *)
(* them, a get between two looks of a node's thread at its own node        *)
(* included, up to a CHECK that fails (TsList, List); a token can be       *)
(* cancelled by one source, and is when that is gone (CancellationToken).  *)
LinksHold ==
  /\ part = "List" => List!RingIsQueue /\ List!OnlyGetFails
  /\ part = "Token" => Token!UncancelledHasSource /\ Token!SourcesAreDistinct

(* "CHECK(!ListNode::empty() || is_root)" (TsList.h), of a node whose      *)
(* thread has just seen it in the list: it fails when get takes the node   *)
(* between that look and the lock.                                         *)
ListChecksHold == part = "List" => List!ChecksHold

(* Every insertion and lookup of the map returns, and every read of an     *)
(* AtomicRead that is copying ends.                                        *)
PoolsMove ==
  /\ part = "Map" ~> part = "Map" /\ \A t \in {1, 2, 3} : v9[t] = Len(MapCalls[t])
  /\ \A r \in Readers : at[r].step = "copy" ~> at[r].step \in {"done", "idle"}

----------------------------------------------------------------------------
(* Proofs: AtomicRead                                                      *)

(* While no writer is inside every word is of the last write that ended;   *)
(* while one is, the words it has written are of the next.                 *)
ValueInv ==
  /\ version \in Nat /\ value \in [Words -> Nat] /\ todo \subseteq Words
  /\ version % 2 = 0 => todo = {}
  /\ \A w \in Words: value[w] = IF version % 2 = 1 /\ w \notin todo THEN Complete + 1 ELSE Complete

(* What is known of reader r: as long as the version is the one it began   *)
(* with, the words it has copied are of the write that ended last then.    *)
ReaderInv(r) ==
  /\ at[r] \in [step: {"idle", "retry", "copy", "done"}, before: Nat, dest: [Words -> Nat],
                todo: SUBSET Words, from: Nat]
  /\ at[r].from <= Complete
  /\ at[r].step = "copy" =>
       /\ at[r].before % 2 = 0 /\ at[r].before <= version /\ at[r].from <= at[r].before \div 2
       /\ version = at[r].before => \A w \in Words \ at[r].todo: at[r].dest[w] = at[r].before \div 2
  /\ at[r].step = "done" => \E n \in at[r].from..Complete: at[r].dest = [w \in Words |-> n]

IInv == ValueInv /\ DOMAIN at = Readers /\ \A r \in Readers: ReaderInv(r)

(* do_lock, the writes of words and do_unlock keep what is known of the    *)
(* value; the version only grows and only do_lock leaves an even one.      *)
LEMMA WriterSteps ==
  ASSUME ValueInv, do_lock \/ WriteWord \/ do_unlock
  PROVE  /\ ValueInv' /\ at' = at /\ version <= version' /\ Complete <= Complete'
         /\ version' # version \/ version % 2 = 1
<1>1. CASE do_lock
  BY <1>1 DEF do_lock, ValueInv, Complete
<1>2. CASE WriteWord
  BY <1>2 DEF WriteWord, ValueInv, Complete
<1>3. CASE do_unlock
  BY <1>3 DEF do_unlock, ValueInv, Complete
<1> QED BY <1>1, <1>2, <1>3

(* A reader that a step leaves alone knows what it knew.                   *)
LEMMA ReaderKept ==
  ASSUME NEW r \in Readers, ReaderInv(r), ValueInv, ValueInv', at'[r] = at[r],
         version <= version', Complete <= Complete'
  PROVE  ReaderInv(r)'
<1>0. Complete \in Nat /\ Complete' \in Nat /\ version \in Nat /\ version' \in Nat
  <2>1. version \in Nat /\ version' \in Nat
    BY DEF ValueInv
  <2>2. \A n \in Nat : n \div 2 \in Nat
    OBVIOUS
  <2>3. Complete \in Nat
    BY <2>1, <2>2 DEF Complete
  <2>4. Complete' \in Nat
    BY <2>1, <2>2 DEF Complete
  <2> QED BY <2>1, <2>3, <2>4
<1>1. at'[r].from <= Complete'
  BY <1>0 DEF ReaderInv
<1>2. ASSUME at'[r].step = "copy"
      PROVE  /\ at'[r].before % 2 = 0 /\ at'[r].before <= version' /\ at'[r].from <= at'[r].before \div 2
             /\ version' = at'[r].before => \A w \in Words \ at'[r].todo: at'[r].dest[w] = at'[r].before \div 2
  <2>1. at[r].before \in Nat /\ at[r].before <= version
    BY <1>2 DEF ReaderInv
  <2>2. version' = at[r].before => version = at[r].before
    BY <2>1, <1>0
  <2> QED BY <1>0, <1>2, <2>1, <2>2 DEF ReaderInv
<1>3. ASSUME at'[r].step = "done"
      PROVE  \E n \in at'[r].from..Complete': at'[r].dest = [w \in Words |-> n]
  <2>1. PICK n \in at[r].from..Complete: at[r].dest = [w \in Words |-> n]
    BY <1>3 DEF ReaderInv
  <2>2. n \in at'[r].from..Complete'
    BY <2>1, <1>0 DEF ReaderInv
  <2> QED BY <2>1, <2>2
<1> QED BY <1>1, <1>2, <1>3 DEF ReaderInv

(* The steps of one reader: a copy that ends with the version it began     *)
(* with has taken all its words from one write.                            *)
LEMMA ReaderSteps ==
  ASSUME NEW r \in Readers, IInv, Read(r)
  PROVE  ReaderInv(r)'
<1> USE DEF IInv, Idle
<1>0. ValueInv /\ ReaderInv(r) /\ version' = version /\ Complete' = Complete
  BY DEF Read, Begin, Copy, End, Return, Complete
<1>1. CASE Begin(r)
  <2>1. at'[r] = [step |-> IF version % 2 = 0 THEN "copy" ELSE "retry", before |-> version,
                  dest |-> [w \in Words |-> 0], todo |-> Words,
                  from |-> IF at[r].step = "idle" THEN Complete ELSE at[r].from]
    BY <1>1 DEF Begin
  <2>2. version \in Nat /\ Complete \in Nat /\ Complete = version \div 2
        /\ at[r].from \in Nat /\ at[r].from <= Complete
    BY <1>0 DEF ValueInv, ReaderInv, Complete
  <2>3. at'[r].from \in Nat /\ at'[r].from <= Complete
    BY <2>1, <2>2
  <2>4. at'[r].step = "copy" => version % 2 = 0
    BY <2>1
  <2>5. at'[r] \in [step: {"idle", "retry", "copy", "done"}, before: Nat, dest: [Words -> Nat],
                    todo: SUBSET Words, from: Nat]
    BY <2>1, <2>2, <2>3
  <2> QED BY <1>0, <2>1, <2>2, <2>3, <2>4, <2>5 DEF ReaderInv
<1>2. CASE Copy(r)
  <2>1. PICK w \in at[r].todo: at' = [at EXCEPT ![r].dest[w] = value[w], ![r].todo = @ \ {w}]
    BY <1>2 DEF Copy
  <2>2. at'[r] = [at[r] EXCEPT !.dest = [at[r].dest EXCEPT ![w] = value[w]], !.todo = at[r].todo \ {w}]
    BY <2>1, <1>0 DEF ReaderInv
  <2>3. at[r].step = "copy" /\ w \in Words /\ value[w] \in Nat
    BY <1>0, <1>2, <2>1 DEF Copy, ReaderInv, ValueInv
  <2>4. version = at[r].before => value[w] = at[r].before \div 2
    BY <1>0, <2>3 DEF ReaderInv, ValueInv, Complete
  <2>5. at[r].dest \in [Words -> Nat] /\ at[r].todo \in SUBSET Words
    BY <1>0 DEF ReaderInv
  <2>6. at'[r].dest \in [Words -> Nat] /\ at'[r].todo \in SUBSET Words
    BY <2>2, <2>3, <2>5
  <2>7. \A v \in Words \ at'[r].todo: v = w \/ v \in Words \ at[r].todo
    BY <2>2
  <2>8. \A v \in Words: at'[r].dest[v] = IF v = w THEN value[w] ELSE at[r].dest[v]
    BY <2>2, <2>3, <2>5
  <2>9. /\ at'[r].step = "copy" /\ at'[r].before = at[r].before /\ at'[r].from = at[r].from
        /\ at'[r] \in [step: {"idle", "retry", "copy", "done"}, before: Nat, dest: [Words -> Nat],
                       todo: SUBSET Words, from: Nat]
    BY <1>0, <2>2, <2>3, <2>6 DEF ReaderInv
  <2>10. version = at[r].before => \A v \in Words \ at'[r].todo: at'[r].dest[v] = at[r].before \div 2
    BY <1>0, <2>3, <2>4, <2>7, <2>8 DEF ReaderInv
  <2> QED BY <1>0, <2>3, <2>9, <2>10 DEF ReaderInv
<1>3. CASE End(r)
  <2>1. CASE version # at[r].before
    BY <1>0, <1>3, <2>1 DEF End, ReaderInv
  <2>2. CASE version = at[r].before
    <3>1. at[r].dest = [w \in Words |-> Complete]
      BY <1>0, <1>3, <2>2 DEF End, ReaderInv, Complete
    <3>2. Complete \in at[r].from..Complete
      BY <1>0, <1>3, <2>2 DEF End, ReaderInv, ValueInv, Complete
    <3> QED BY <1>0, <1>3, <2>2, <3>1, <3>2 DEF End, ReaderInv
  <2> QED BY <2>1, <2>2
<1>4. CASE Return(r)
  BY <1>0, <1>4 DEF Return, ReaderInv, ValueInv, Complete
<1> QED BY <1>1, <1>2, <1>3, <1>4 DEF Read

(* A read returns the words of one write, for any number of readers, words *)
(* and writes (AtomicRead::read against do_lock and do_unlock).            *)
THEOREM ReadsOneWrite == Spec => []ReadIsOneWrite
<1>1. Init => IInv
  BY DEF Init, IInv, ValueInv, ReaderInv, Idle, Complete
<1>2. IInv /\ [Next]_vars => IInv'
  <2> SUFFICES ASSUME IInv, [Next]_vars PROVE IInv'
    OBVIOUS
  <2>1. CASE do_lock \/ WriteWord \/ do_unlock
    BY <2>1, WriterSteps, ReaderKept DEF IInv
  <2>2. ASSUME NEW r \in Readers, Read(r) PROVE IInv'
    <3>1. /\ version' = version /\ value' = value /\ todo' = todo /\ DOMAIN at' = Readers
          /\ \A q \in Readers \ {r}: at'[q] = at[q]
      BY <2>2 DEF IInv, Read, Begin, Copy, End, Return
    <3>2. ReaderInv(r)'
      BY <2>2, ReaderSteps
    <3>3. ValueInv' /\ Complete' = Complete
      BY <3>1 DEF IInv, ValueInv, Complete
    <3>4. ASSUME NEW q \in Readers \ {r} PROVE ReaderInv(q)'
      BY <3>1, <3>3 DEF IInv, ReaderInv, ValueInv, Complete
    <3> QED BY <3>1, <3>2, <3>3, <3>4 DEF IInv
  <2>3. CASE UNCHANGED vars
    BY <2>3 DEF vars, IInv, ValueInv, ReaderInv, Complete
  <2> QED BY <2>1, <2>2, <2>3 DEF Next
<1>3. IInv => ReadIsOneWrite
  BY DEF IInv, ReaderInv, ReadIsOneWrite
<1> QED BY <1>1, <1>2, <1>3, PTL DEF Spec

----------------------------------------------------------------------------
(* Proofs: ObjectPool                                                      *)

(* ObjectPool: the addresses are none of the marks, and one thread at most  *)
(* creates: "only one thread, so no aba problem".                           *)
PoolOK == Objects!Null \notin Storages /\ \A t, u \in Creators : t = u
ASSUME PoolAssumption == PoolOK

PoolSteps == {"idle", "loaded", "pop", "reload", "got", "init", "clear", "clearing", "release", "push",
              "seen", "used"}
Takes == {"loaded", "pop", "reload", "got", "init"}
Holds == {"got", "init", "clear", "clearing", "release", "push"}

PoolTypes ==
  /\ head \in Storages \cup {Objects!Null}
  /\ next \in [Storages -> Storages \cup {Objects!Null}]
  /\ gen \in [Storages -> Nat] /\ DOMAIN data = Storages
  /\ made \subseteq Storages
  /\ own \in [PoolThreads -> Storages \cup {Objects!Null}]
  /\ DOMAIN weak = PoolThreads /\ DOMAIN poolAt = PoolThreads
  /\ \A t \in PoolThreads :
       /\ weak[t].s \in Storages \cup {Objects!Null} /\ weak[t].g \in Int
       /\ poolAt[t][1] \in PoolSteps

(* The storage a thread holds, in its owner or in its call.                 *)
InHand(t) == IF poolAt[t][1] \in Holds THEN poolAt[t][2] ELSE own[t]
Hands == [t \in PoolThreads |-> InHand(t)]

(* Objects!From, with its list of nexts: Null is where a list ends.         *)
Below(nx, x) ==
  {s \in Storages : \A F \in SUBSET Storages :
     x \in F \cup {Objects!Null} /\ (\A y \in F : nx[y] \in F \cup {Objects!Null}) => s \in F}
NextMap(nx) == nx \in [Storages -> Storages \cup {Objects!Null}]
OnList == Below(next, head)

(* What a thread that creates or releases knows.                            *)
CallOK ==
  \A t \in PoolThreads :
    /\ poolAt[t][1] \in Takes => t \in Creators
    /\ poolAt[t][1] \in Takes \cup Holds => own[t] = Objects!Null
    /\ poolAt[t][1] \in Holds => poolAt[t][2] \in Storages
    /\ poolAt[t][1] \in {"loaded", "pop"} => poolAt[t][2] \in OnList
    /\ poolAt[t][1] = "pop" => poolAt[t][3] = next[poolAt[t][2]]
    /\ poolAt[t][1] = "push" => poolAt[t][3] = next[poolAt[t][2]]

(* Storages on a list f and in hands h: each of M is in one place.          *)
Placed(f, h, M) ==
  /\ f \subseteq M /\ \A t \in PoolThreads : h[t] \in M \cup {Objects!Null}
  /\ \A s \in M : s \in f \/ \E t \in PoolThreads : h[t] = s
  /\ \A t \in PoolThreads : h[t] \notin f
  /\ \A t, u \in PoolThreads : h[t] # Objects!Null /\ h[t] = h[u] => t = u

PlacedOK == Placed(OnList, Hands, made)

(* The free list ends.                                                      *)
ListOK == \A s \in OnList : s \notin Below(next, next[s])

(* A weak pointer of the present generation has an owner and sees the       *)
(* object it was taken from.                                                *)
WeakOK ==
  \A t \in PoolThreads : LET w == weak[t] IN
    /\ w.s # Objects!Null =>
         /\ w.g <= gen[w.s]
         /\ w.g = gen[w.s] => data[w.s] = w.obj /\ \E u \in PoolThreads : own[u] = w.s
    /\ poolAt[t][1] = "seen" => w.s # Objects!Null /\ (w.g = gen[w.s] => poolAt[t][2] = w.obj)
    /\ poolAt[t][1] = "used" => poolAt[t][2] = w.obj

ObjectsInv == PoolTypes /\ CallOK /\ PlacedOK /\ ListOK /\ WeakOK

(* What is reached from a storage is closed, and nothing less is.           *)
LEMMA BelowClosed ==
  ASSUME NEW nx, NextMap(nx), NEW x \in Storages \cup {Objects!Null}
  PROVE  /\ Below(nx, x) \subseteq Storages
         /\ x \in Below(nx, x) \cup {Objects!Null}
         /\ \A y \in Below(nx, x) : nx[y] \in Below(nx, x) \cup {Objects!Null}
<1>1. Below(nx, x) \subseteq Storages /\ x \in Below(nx, x) \cup {Objects!Null}
  BY DEF Below
<1>2. ASSUME NEW y \in Below(nx, x), nx[y] # Objects!Null PROVE nx[y] \in Below(nx, x)
  <2>1. nx[y] \in Storages
    BY <1>1, <1>2 DEF NextMap
  <2>2. ASSUME NEW F \in SUBSET Storages, x \in F \cup {Objects!Null},
               \A z \in F : nx[z] \in F \cup {Objects!Null}
        PROVE  nx[y] \in F
    <3>1. y \in F
      BY <2>2 DEF Below
    <3> QED BY <3>1, <2>2, <1>2
  <2> QED BY <2>1, <2>2 DEF Below
<1> QED BY <1>1, <1>2

(* Nothing that is closed and has x is smaller.                             *)
LEMMA BelowLeast ==
  ASSUME NEW nx, NEW x, NEW F \in SUBSET Storages, x \in F \cup {Objects!Null},
         \A y \in F : nx[y] \in F \cup {Objects!Null}
  PROVE  Below(nx, x) \subseteq F
BY DEF Below

(* From a storage one comes to it, and to what its next reaches.            *)
LEMMA BelowStep ==
  ASSUME PoolOK, NEW nx, NextMap(nx), NEW x \in Storages
  PROVE  Below(nx, x) = {x} \cup Below(nx, nx[x])
<1> DEFINE B == Below(nx, x)
           C == Below(nx, nx[x])
<1>0. nx[x] \in Storages \cup {Objects!Null} /\ x # Objects!Null
  BY DEF NextMap, PoolOK
<1>1. /\ B \in SUBSET Storages /\ x \in B /\ nx[x] \in B \cup {Objects!Null}
      /\ \A y \in B : nx[y] \in B \cup {Objects!Null}
  BY <1>0, BelowClosed
<1>2. /\ C \in SUBSET Storages /\ nx[x] \in C \cup {Objects!Null}
      /\ \A y \in C : nx[y] \in C \cup {Objects!Null}
  BY <1>0, BelowClosed
<1> HIDE DEF B, C
<1>3. C \subseteq B
  BY <1>1, BelowLeast DEF C
<1>4. B \subseteq {x} \cup C
  <2>1. {x} \cup C \in SUBSET Storages /\ \A y \in {x} \cup C : nx[y] \in ({x} \cup C) \cup {Objects!Null}
    BY <1>2
  <2> QED BY <2>1, BelowLeast DEF B
<1> QED BY <1>1, <1>3, <1>4 DEF B, C

(* A next that is not on the way does not matter.                           *)
LEMMA BelowSame ==
  ASSUME NEW nx, NextMap(nx), NEW ny, NextMap(ny), NEW x \in Storages \cup {Objects!Null},
         \A y \in Below(nx, x) : ny[y] = nx[y]
  PROVE  Below(ny, x) = Below(nx, x)
<1> DEFINE B == Below(nx, x)
           C == Below(ny, x)
<1>1. /\ B \in SUBSET Storages /\ x \in B \cup {Objects!Null}
      /\ \A y \in B : nx[y] \in B \cup {Objects!Null}
  BY BelowClosed
<1>2. /\ C \in SUBSET Storages /\ x \in C \cup {Objects!Null}
      /\ \A y \in C : ny[y] \in C \cup {Objects!Null}
  BY BelowClosed
<1> HIDE DEF B, C
<1>3. \A y \in B : ny[y] = nx[y]
  BY DEF B
<1>4. C \subseteq B
  BY <1>1, <1>3, BelowLeast DEF C
<1>5. B \subseteq C
  BY <1>2, <1>3, <1>4, BelowLeast DEF B
<1> QED BY <1>4, <1>5 DEF B, C

(* The nexts of a list's own storages stay in it.                           *)
LEMMA BelowInside ==
  ASSUME NEW nx, NextMap(nx), NEW x \in Storages \cup {Objects!Null}, NEW y \in Below(nx, x)
  PROVE  nx[y] \in Storages \cup {Objects!Null} /\ Below(nx, nx[y]) \subseteq Below(nx, x)
<1>1. /\ Below(nx, x) \in SUBSET Storages
      /\ \A z \in Below(nx, x) : nx[z] \in Below(nx, x) \cup {Objects!Null}
  BY BelowClosed
<1> QED BY <1>1, BelowLeast DEF NextMap

(* Where the places move: a new storage.                                    *)
LEMMA PlacedNew ==
  ASSUME PoolOK, NEW f, NEW h, NEW M, Placed(f, h, M), M \subseteq Storages,
         NEW t \in PoolThreads, h[t] = Objects!Null, NEW s \in Storages, s \notin M,
         NEW k, k[t] = s, \A u \in PoolThreads : u # t => k[u] = h[u]
  PROVE  Placed(f, k, M \cup {s})
BY DEF Placed, PoolOK

(* One that is taken off the list.                                          *)
LEMMA PlacedTaken ==
  ASSUME PoolOK, NEW f, NEW h, NEW M, Placed(f, h, M), M \subseteq Storages,
         NEW t \in PoolThreads, h[t] = Objects!Null, NEW s \in f, NEW g, g = f \ {s},
         NEW k, k[t] = s, \A u \in PoolThreads : u # t => k[u] = h[u]
  PROVE  Placed(g, k, M)
BY DEF Placed, PoolOK

(* One whose owner is moved.                                                *)
LEMMA PlacedMoved ==
  ASSUME PoolOK, NEW f, NEW h, NEW M, Placed(f, h, M), M \subseteq Storages,
         NEW t \in PoolThreads, NEW u \in PoolThreads, t # u, h[u] = Objects!Null,
         NEW k, k[t] = Objects!Null, k[u] = h[t], \A v \in PoolThreads : v \notin {t, u} => k[v] = h[v],
         Objects!Null \notin f
  PROVE  Placed(f, k, M)
BY DEF Placed, PoolOK

(* One that is released.                                                    *)
LEMMA PlacedBack ==
  ASSUME PoolOK, NEW f, NEW h, NEW M, Placed(f, h, M), M \subseteq Storages,
         NEW t \in PoolThreads, NEW s \in Storages, h[t] = s, NEW g, g = f \cup {s},
         NEW k, k[t] = Objects!Null, \A u \in PoolThreads : u # t => k[u] = h[u]
  PROVE  Placed(g, k, M)
BY DEF Placed, PoolOK

(* And nothing.                                                             *)
LEMMA PlacedSame ==
  ASSUME NEW f, NEW h, NEW M, Placed(f, h, M), NEW k, \A u \in PoolThreads : k[u] = h[u]
  PROVE  Placed(f, k, M)
BY DEF Placed

(* What a step leaves as it was.                                            *)
LEMMA SameList ==
  ASSUME UNCHANGED <<head, next>>
  PROVE  OnList' = OnList /\ (ListOK => ListOK')
<1>1. OnList' = OnList
  BY DEF OnList, Below
<1>2. \A s : Below(next, next[s])' = Below(next, next[s])
  BY DEF Below
<1> QED BY <1>1, <1>2 DEF ListOK

(* Nor do places change where list, storages and hands do not.              *)
LEMMA SamePlaces ==
  ASSUME PlacedOK, OnList' = OnList, UNCHANGED made, \A u \in PoolThreads : InHand(u)' = InHand(u)
  PROVE  PlacedOK'
<1>1. \A u \in PoolThreads : (Hands')[u] = Hands[u]
  BY DEF Hands
<1>2. Placed(OnList, Hands, made)
  BY DEF PlacedOK
<1>3. Placed(OnList, Hands', made)
  BY <1>1, <1>2, PlacedSame
<1> QED BY <1>3 DEF PlacedOK

(* Nor weak pointers where their storages do not.                           *)
LEMMA SameWeak ==
  ASSUME WeakOK, UNCHANGED <<weak, gen, data, own>>,
         \A u \in PoolThreads : poolAt'[u][1] \in {"seen", "used"} => poolAt'[u] = poolAt[u]
  PROVE  WeakOK'
BY DEF WeakOK

(* A thread that is between its calls holds what its owner does.            *)
LEMMA IdleHands ==
  ASSUME NEW t \in PoolThreads, poolAt[t] = Objects!Idle
  PROVE  poolAt[t][1] = "idle" /\ InHand(t) = own[t]
BY DEF Objects!Idle, InHand, Holds

(* A new storage goes to the hand that asked for it.                        *)
LEMMA NewStorageKeeps ==
  ASSUME PoolOK, ObjectsInv, NEW t \in PoolThreads, Objects!NewStorage(t)
  PROVE  ObjectsInv'
<1>1. PICK s \in Storages \ made : made' = made \cup {s} /\ Objects!Goto(t, <<"got", s, Objects!Null>>)
  BY DEF Objects!NewStorage
<1>2. /\ poolAt'[t] = <<"got", s, Objects!Null>> /\ DOMAIN poolAt' = PoolThreads
      /\ \A u \in PoolThreads : u # t => poolAt'[u] = poolAt[u]
  BY <1>1 DEF Objects!Goto, ObjectsInv, PoolTypes
<1>3. /\ UNCHANGED <<head, next, gen, data, own, weak>> /\ t \in Creators /\ own[t] = Objects!Null
      /\ poolAt[t] = Objects!Idle
  BY DEF Objects!NewStorage
<1>4. PoolTypes'
  BY <1>1, <1>2, <1>3 DEF ObjectsInv, PoolTypes, PoolSteps
<1>5. OnList' = OnList /\ ListOK'
  BY <1>3, SameList DEF ObjectsInv
<1>6. CallOK'
  BY <1>2, <1>3, <1>5 DEF ObjectsInv, CallOK, Takes, Holds
<1>7. PlacedOK'
  <2>1. InHand(t) = Objects!Null /\ InHand(t)' = s
    BY <1>2, <1>3, IdleHands DEF InHand, Holds
  <2>2. \A u \in PoolThreads : u # t => InHand(u)' = InHand(u)
    BY <1>2, <1>3 DEF InHand
  <2>3. Hands[t] = Objects!Null /\ (Hands')[t] = s /\ \A u \in PoolThreads : u # t => (Hands')[u] = Hands[u]
    BY <2>1, <2>2 DEF Hands
  <2>4. Placed(OnList, Hands, made) /\ made \subseteq Storages
    BY DEF ObjectsInv, PlacedOK, PoolTypes
  <2>5. Placed(OnList, Hands', made \cup {s})
    BY <2>3, <2>4, PlacedNew
  <2> QED BY <2>5, <1>1, <1>5 DEF PlacedOK
<1>8. WeakOK'
  BY <1>2, <1>3, SameWeak DEF ObjectsInv
<1> QED BY <1>4, <1>5, <1>6, <1>7, <1>8 DEF ObjectsInv

(* The first load of a pop: the head is on the list.                        *)
LEMMA PopLoadKeeps ==
  ASSUME PoolOK, ObjectsInv, NEW t \in PoolThreads, Objects!PopLoad(t)
  PROVE  ObjectsInv'
<1>1. /\ UNCHANGED <<head, next, gen, data, made, own, weak>> /\ t \in Creators /\ own[t] = Objects!Null
      /\ head # Objects!Null /\ poolAt[t][1] \in {"idle", "reload"}
  BY DEF Objects!PopLoad, Objects!Idle
<1>2. /\ poolAt'[t] = <<"loaded", head, Objects!Null>> /\ DOMAIN poolAt' = PoolThreads
      /\ \A u \in PoolThreads : u # t => poolAt'[u] = poolAt[u]
  BY DEF Objects!PopLoad, Objects!Goto, ObjectsInv, PoolTypes
<1>3. PoolTypes'
  BY <1>1, <1>2 DEF ObjectsInv, PoolTypes, PoolSteps
<1>4. OnList' = OnList /\ ListOK' /\ head \in OnList
  <2>1. NextMap(next) /\ head \in Storages \cup {Objects!Null}
    BY DEF ObjectsInv, PoolTypes, NextMap
  <2>2. head \in OnList
    BY <2>1, <1>1, BelowClosed DEF OnList
  <2> QED BY <2>2, <1>1, SameList DEF ObjectsInv
<1>5. CallOK'
  BY <1>1, <1>2, <1>4 DEF ObjectsInv, CallOK, Takes, Holds
<1>6. PlacedOK'
  <2>1. \A u \in PoolThreads : InHand(u)' = InHand(u)
    BY <1>1, <1>2 DEF InHand, Holds
  <2> QED BY <2>1, <1>1, <1>4, SamePlaces DEF ObjectsInv
<1>7. WeakOK'
  BY <1>1, <1>2, SameWeak DEF ObjectsInv
<1> QED BY <1>3, <1>4, <1>5, <1>6, <1>7 DEF ObjectsInv

(* The second: its next is read while it is there.                          *)
LEMMA PopNextKeeps ==
  ASSUME PoolOK, ObjectsInv, NEW t \in PoolThreads, Objects!PopNext(t)
  PROVE  ObjectsInv'
<1>1. UNCHANGED <<head, next, gen, data, made, own, weak>> /\ poolAt[t][1] = "loaded"
  BY DEF Objects!PopNext
<1>2. /\ poolAt'[t] = <<"pop", poolAt[t][2], next[poolAt[t][2]]>> /\ DOMAIN poolAt' = PoolThreads
      /\ \A u \in PoolThreads : u # t => poolAt'[u] = poolAt[u]
  BY DEF Objects!PopNext, Objects!Goto, ObjectsInv, PoolTypes
<1>3. PoolTypes'
  BY <1>1, <1>2 DEF ObjectsInv, PoolTypes, PoolSteps
<1>4. OnList' = OnList /\ ListOK'
  BY <1>1, SameList DEF ObjectsInv
<1>5. CallOK'
  BY <1>1, <1>2, <1>4 DEF ObjectsInv, CallOK, Takes, Holds
<1>6. PlacedOK'
  <2>1. \A u \in PoolThreads : InHand(u)' = InHand(u)
    BY <1>1, <1>2 DEF InHand, Holds
  <2> QED BY <2>1, <1>1, <1>4, SamePlaces DEF ObjectsInv
<1>7. WeakOK'
  BY <1>1, <1>2, SameWeak DEF ObjectsInv
<1> QED BY <1>3, <1>4, <1>5, <1>6, <1>7 DEF ObjectsInv

(* Nobody takes storages beside the one creator.                            *)
LEMMA TakesAlone ==
  ASSUME PoolOK, CallOK, NEW t \in PoolThreads, poolAt[t][1] \in Takes, NEW u \in PoolThreads, u # t
  PROVE  poolAt[u][1] \notin Takes
BY DEF PoolOK, CallOK

(* The pop takes the first storage and leaves the rest: what it read of it  *)
(* is still so.                                                             *)
LEMMA PopCasKeeps ==
  ASSUME PoolOK, ObjectsInv, NEW t \in PoolThreads, Objects!PopCas(t)
  PROVE  ObjectsInv'
<1>1. UNCHANGED <<next, gen, data, made, own, weak>> /\ poolAt[t][1] = "pop"
  BY DEF Objects!PopCas
<1>2. /\ t \in Creators /\ own[t] = Objects!Null /\ poolAt[t][2] \in OnList
      /\ poolAt[t][3] = next[poolAt[t][2]]
      /\ \A u \in PoolThreads : u # t => poolAt[u][1] \notin Takes
  BY <1>1, TakesAlone DEF ObjectsInv, CallOK, Takes
<1>3. /\ NextMap(next) /\ head \in Storages \cup {Objects!Null} /\ OnList \subseteq Storages
      /\ OnList \subseteq made /\ made \subseteq Storages
  <2>1. NextMap(next) /\ head \in Storages \cup {Objects!Null}
    BY DEF ObjectsInv, PoolTypes, NextMap
  <2> QED BY <2>1, BelowClosed DEF OnList, ObjectsInv, PlacedOK, Placed, PoolTypes
<1>4. CASE head = poolAt[t][2]
  <2>1. /\ poolAt'[t] = <<"got", head, Objects!Null>> /\ DOMAIN poolAt' = PoolThreads
        /\ \A u \in PoolThreads : u # t => poolAt'[u] = poolAt[u]
    BY <1>4 DEF Objects!PopCas, Objects!Goto, ObjectsInv, PoolTypes
  <2>2. head' = next[head] /\ head \in Storages /\ head # Objects!Null
    BY <1>2, <1>3, <1>4 DEF Objects!PopCas, PoolOK
  <2>3. OnList' = OnList \ {head}
    <3>1. OnList = {head} \cup Below(next, next[head])
      BY <1>3, <2>2, BelowStep DEF OnList
    <3>2. head \notin Below(next, next[head])
      BY <3>1 DEF ObjectsInv, ListOK
    <3>3. OnList' = Below(next, next[head])
      BY <1>1, <2>2 DEF OnList, Below
    <3> QED BY <3>1, <3>2, <3>3
  <2>4. PoolTypes'
    <3>1. head' \in Storages \cup {Objects!Null}
      BY <1>3, <2>2 DEF NextMap
    <3> QED BY <3>1, <1>1, <2>1 DEF ObjectsInv, PoolTypes, PoolSteps
  <2>5. CallOK'
    BY <1>1, <1>2, <2>1, <2>2 DEF ObjectsInv, CallOK, Takes, Holds
  <2>6. ListOK'
    <3>1. \A s : Below(next, next[s])' = Below(next, next[s])
      BY <1>1 DEF Below
    <3> QED BY <3>1, <2>3 DEF ObjectsInv, ListOK
  <2>7. PlacedOK'
    <3>1. InHand(t) = Objects!Null /\ InHand(t)' = head
      BY <1>1, <1>2, <2>1 DEF InHand, Holds
    <3>2. \A u \in PoolThreads : u # t => InHand(u)' = InHand(u)
      BY <1>1, <2>1 DEF InHand
    <3>3. /\ Hands[t] = Objects!Null /\ (Hands')[t] = head
          /\ \A u \in PoolThreads : u # t => (Hands')[u] = Hands[u]
      BY <3>1, <3>2 DEF Hands
    <3>4. Placed(OnList, Hands, made) /\ head \in OnList
      BY <1>2, <1>4 DEF ObjectsInv, PlacedOK
    <3>5. Placed(OnList', Hands', made)
      BY <3>3, <3>4, <2>3, <1>3, PlacedTaken
    <3> QED BY <3>5, <1>1 DEF PlacedOK
  <2>8. WeakOK'
    BY <1>1, <2>1, SameWeak DEF ObjectsInv
  <2> QED BY <2>4, <2>5, <2>6, <2>7, <2>8 DEF ObjectsInv
<1>5. CASE head # poolAt[t][2]
  <2>1. /\ poolAt'[t] = <<"reload", Objects!Null, Objects!Null>> /\ DOMAIN poolAt' = PoolThreads
        /\ \A u \in PoolThreads : u # t => poolAt'[u] = poolAt[u]
    BY <1>5 DEF Objects!PopCas, Objects!Goto, ObjectsInv, PoolTypes
  <2>2. UNCHANGED head
    BY <1>5 DEF Objects!PopCas
  <2>3. OnList' = OnList /\ ListOK'
    BY <1>1, <2>2, SameList DEF ObjectsInv
  <2>4. PoolTypes'
    BY <1>1, <2>1, <2>2 DEF ObjectsInv, PoolTypes, PoolSteps
  <2>5. CallOK'
    BY <1>1, <1>2, <2>1, <2>3 DEF ObjectsInv, CallOK, Takes, Holds
  <2>6. PlacedOK'
    <3>1. \A u \in PoolThreads : InHand(u)' = InHand(u)
      BY <1>1, <2>1 DEF InHand, Holds
    <3> QED BY <3>1, <1>1, <2>3, SamePlaces DEF ObjectsInv
  <2>7. WeakOK'
    BY <1>1, <2>1, SameWeak DEF ObjectsInv
  <2> QED BY <2>3, <2>4, <2>5, <2>6, <2>7 DEF ObjectsInv
<1> QED BY <1>4, <1>5

(* A storage that a call holds has no owner, so no weak pointer is alive    *)
(* that would see its data change.                                          *)
LEMMA HeldIsUnowned ==
  ASSUME CallOK, PlacedOK, PoolOK, NEW t \in PoolThreads, poolAt[t][1] \in Holds
  PROVE  /\ poolAt[t][2] \in Storages /\ own[t] = Objects!Null /\ InHand(t) = poolAt[t][2]
         /\ \A u \in PoolThreads : own[u] # poolAt[t][2]
<1>1. /\ poolAt[t][2] \in Storages /\ own[t] = Objects!Null /\ InHand(t) = poolAt[t][2]
      /\ poolAt[t][2] # Objects!Null
  BY DEF CallOK, InHand, PoolOK
<1>2. ASSUME NEW u \in PoolThreads, own[u] = poolAt[t][2] PROVE FALSE
  <2>1. InHand(u) = own[u]
    BY <1>1, <1>2 DEF CallOK, InHand
  <2>2. Hands[u] = Hands[t] /\ Hands[u] # Objects!Null
    BY <1>1, <1>2, <2>1 DEF Hands
  <2>3. u = t
    BY <2>2 DEF PlacedOK, Placed
  <2> QED BY <1>1, <1>2, <2>3
<1> QED BY <1>1, <1>2

(* The data of a storage without owner is nobody's to read.                 *)
LEMMA SameWeakButData ==
  ASSUME WeakOK, PoolTypes, UNCHANGED <<weak, gen, own>>, NEW s \in Storages,
         \A u \in PoolThreads : own[u] # s, \A x \in Storages : x # s => data'[x] = data[x],
         \A u \in PoolThreads : poolAt'[u][1] \in {"seen", "used"} => poolAt'[u] = poolAt[u]
  PROVE  WeakOK'
BY DEF WeakOK, PoolTypes

(* init_data begins to write a storage that has no owner.                   *)
LEMMA InitDataKeeps ==
  ASSUME PoolOK, ObjectsInv, NEW t \in PoolThreads, Objects!InitData(t)
  PROVE  ObjectsInv'
<1>1. UNCHANGED <<head, next, gen, made, own, weak>> /\ poolAt[t][1] = "got"
  BY DEF Objects!InitData
<1>2. /\ poolAt'[t] = <<"init", poolAt[t][2], objects'>> /\ DOMAIN poolAt' = PoolThreads
      /\ \A u \in PoolThreads : u # t => poolAt'[u] = poolAt[u]
  BY DEF Objects!InitData, Objects!Goto, ObjectsInv, PoolTypes
<1>3. /\ poolAt[t][2] \in Storages /\ \A u \in PoolThreads : own[u] # poolAt[t][2]
      /\ t \in Creators /\ own[t] = Objects!Null
  BY <1>1, HeldIsUnowned DEF Holds, Takes, ObjectsInv, CallOK
<1>4. DOMAIN data' = Storages /\ \A x \in Storages : x # poolAt[t][2] => data'[x] = data[x]
  BY DEF Objects!InitData, ObjectsInv, PoolTypes
<1>5. PoolTypes'
  BY <1>1, <1>2, <1>4 DEF ObjectsInv, PoolTypes, PoolSteps
<1>6. OnList' = OnList /\ ListOK'
  BY <1>1, SameList DEF ObjectsInv
<1>7. CallOK'
  BY <1>1, <1>2, <1>3, <1>6 DEF ObjectsInv, CallOK, Takes, Holds
<1>8. PlacedOK'
  <2>1. \A u \in PoolThreads : InHand(u)' = InHand(u)
    BY <1>1, <1>2 DEF InHand, Holds
  <2> QED BY <2>1, <1>1, <1>6, SamePlaces DEF ObjectsInv
<1>9. WeakOK'
  <2>1. \A u \in PoolThreads : poolAt'[u][1] \in {"seen", "used"} => poolAt'[u] = poolAt[u]
    BY <1>2
  <2> QED BY <2>1, <1>1, <1>3, <1>4, SameWeakButData DEF ObjectsInv
<1> QED BY <1>5, <1>6, <1>7, <1>8, <1>9 DEF ObjectsInv

(* It ends, and the owner is there with the data.                           *)
LEMMA CreatedKeeps ==
  ASSUME PoolOK, ObjectsInv, NEW t \in PoolThreads, Objects!Created(t)
  PROVE  ObjectsInv'
<1>1. UNCHANGED <<head, next, gen, made, weak>> /\ poolAt[t][1] = "init"
  BY DEF Objects!Created
<1>2. /\ poolAt'[t] = Objects!Idle /\ poolAt'[t][1] = "idle" /\ DOMAIN poolAt' = PoolThreads
      /\ \A u \in PoolThreads : u # t => poolAt'[u] = poolAt[u]
  BY DEF Objects!Created, Objects!Goto, Objects!Idle, ObjectsInv, PoolTypes
<1>3. /\ poolAt[t][2] \in Storages /\ \A u \in PoolThreads : own[u] # poolAt[t][2]
      /\ own[t] = Objects!Null /\ InHand(t) = poolAt[t][2]
  BY <1>1, HeldIsUnowned DEF Holds, ObjectsInv
<1>4. DOMAIN data' = Storages /\ \A x \in Storages : x # poolAt[t][2] => data'[x] = data[x]
  BY DEF Objects!Created, ObjectsInv, PoolTypes
<1>5. /\ own' \in [PoolThreads -> Storages \cup {Objects!Null}] /\ own'[t] = poolAt[t][2]
      /\ \A u \in PoolThreads : u # t => own'[u] = own[u]
  BY <1>3 DEF Objects!Created, ObjectsInv, PoolTypes
<1>6. PoolTypes'
  BY <1>1, <1>2, <1>4, <1>5 DEF ObjectsInv, PoolTypes, PoolSteps
<1>7. OnList' = OnList /\ ListOK'
  BY <1>1, SameList DEF ObjectsInv
<1>8. CallOK'
  BY <1>1, <1>2, <1>5, <1>7 DEF ObjectsInv, CallOK, Takes, Holds
<1>9. PlacedOK'
  <2>1. InHand(t)' = InHand(t)
    BY <1>2, <1>3, <1>5 DEF InHand, Holds
  <2>2. \A u \in PoolThreads : InHand(u)' = InHand(u)
    BY <2>1, <1>2, <1>5 DEF InHand
  <2> QED BY <2>2, <1>1, <1>7, SamePlaces DEF ObjectsInv
<1>10. WeakOK'
  BY <1>1, <1>2, <1>3, <1>4, <1>5 DEF ObjectsInv, WeakOK, PoolTypes
<1> QED BY <1>6, <1>7, <1>8, <1>9, <1>10 DEF ObjectsInv

(* create_empty: the same without data.                                     *)
LEMMA CreateEmptyKeeps ==
  ASSUME PoolOK, ObjectsInv, NEW t \in PoolThreads, Objects!CreateEmpty(t)
  PROVE  ObjectsInv'
<1>1. UNCHANGED <<head, next, gen, data, made, weak>> /\ poolAt[t][1] = "got"
  BY DEF Objects!CreateEmpty
<1>2. /\ poolAt'[t] = Objects!Idle /\ poolAt'[t][1] = "idle" /\ DOMAIN poolAt' = PoolThreads
      /\ \A u \in PoolThreads : u # t => poolAt'[u] = poolAt[u]
  BY DEF Objects!CreateEmpty, Objects!Goto, Objects!Idle, ObjectsInv, PoolTypes
<1>3. /\ poolAt[t][2] \in Storages /\ own[t] = Objects!Null /\ InHand(t) = poolAt[t][2]
  BY <1>1, HeldIsUnowned DEF Holds, ObjectsInv
<1>4. /\ own' \in [PoolThreads -> Storages \cup {Objects!Null}] /\ own'[t] = poolAt[t][2]
      /\ \A u \in PoolThreads : u # t => own'[u] = own[u]
  BY <1>3 DEF Objects!CreateEmpty, ObjectsInv, PoolTypes
<1>5. PoolTypes'
  BY <1>1, <1>2, <1>4 DEF ObjectsInv, PoolTypes, PoolSteps
<1>6. OnList' = OnList /\ ListOK'
  BY <1>1, SameList DEF ObjectsInv
<1>7. CallOK'
  BY <1>1, <1>2, <1>4, <1>6 DEF ObjectsInv, CallOK, Takes, Holds
<1>8. PlacedOK'
  <2>1. InHand(t)' = InHand(t)
    BY <1>2, <1>3, <1>4 DEF InHand, Holds
  <2>2. \A u \in PoolThreads : InHand(u)' = InHand(u)
    BY <2>1, <1>2, <1>4 DEF InHand
  <2> QED BY <2>2, <1>1, <1>6, SamePlaces DEF ObjectsInv
<1>9. WeakOK'
  <2>1. ASSUME NEW w \in PoolThreads, own[w] # Objects!Null PROVE own'[w] = own[w]
    BY <2>1, <1>3, <1>4
  <2> QED BY <2>1, <1>1, <1>2 DEF ObjectsInv, WeakOK, PoolTypes
<1> QED BY <1>5, <1>6, <1>7, <1>8, <1>9 DEF ObjectsInv

(* destroy_data is first a new generation: weak pointers to the storage are *)
(* dead from here on, whatever becomes of its data.                         *)
LEMMA ResetKeeps ==
  ASSUME PoolOK, ObjectsInv, NEW t \in PoolThreads, Objects!Reset(t)
  PROVE  ObjectsInv'
<1>1. /\ UNCHANGED <<head, next, data, made, weak>> /\ poolAt[t] = Objects!Idle
      /\ own[t] # Objects!Null /\ own[t] \in Storages
  BY DEF Objects!Reset, ObjectsInv, PoolTypes
<1>2. /\ poolAt'[t] = <<"clear", own[t], Objects!Null>> /\ DOMAIN poolAt' = PoolThreads
      /\ \A u \in PoolThreads : u # t => poolAt'[u] = poolAt[u]
  BY DEF Objects!Reset, Objects!Goto, ObjectsInv, PoolTypes
<1>3. /\ own' \in [PoolThreads -> Storages \cup {Objects!Null}] /\ own'[t] = Objects!Null
      /\ \A u \in PoolThreads : u # t => own'[u] = own[u]
  BY DEF Objects!Reset, ObjectsInv, PoolTypes
<1>4. /\ gen' \in [Storages -> Nat] /\ gen'[own[t]] = gen[own[t]] + 1
      /\ \A x \in Storages : x # own[t] => gen'[x] = gen[x]
  BY <1>1 DEF Objects!Reset, ObjectsInv, PoolTypes
<1>5. PoolTypes'
  BY <1>1, <1>2, <1>3, <1>4 DEF ObjectsInv, PoolTypes, PoolSteps
<1>6. OnList' = OnList /\ ListOK'
  BY <1>1, SameList DEF ObjectsInv
<1>7. CallOK'
  BY <1>1, <1>2, <1>3, <1>6 DEF ObjectsInv, CallOK, Takes, Holds
<1>8. PlacedOK'
  <2>1. InHand(t)' = InHand(t)
    BY <1>1, <1>2, IdleHands DEF InHand, Holds
  <2>2. \A u \in PoolThreads : InHand(u)' = InHand(u)
    BY <2>1, <1>2, <1>3 DEF InHand
  <2> QED BY <2>2, <1>1, <1>6, SamePlaces DEF ObjectsInv
<1>9. WeakOK'
  <2>1. ASSUME NEW v \in PoolThreads, weak[v].s # Objects!Null
        PROVE  /\ weak[v].g <= gen'[weak[v].s]
               /\ weak[v].g = gen'[weak[v].s] => weak[v].g = gen[weak[v].s] /\ weak[v].s # own[t]
    <3>1. /\ weak[v].s \in Storages /\ weak[v].g \in Int /\ gen[weak[v].s] \in Nat
          /\ weak[v].g <= gen[weak[v].s]
      BY <2>1 DEF ObjectsInv, PoolTypes, WeakOK
    <3> QED BY <3>1, <1>4
  <2>2. ASSUME NEW v \in PoolThreads, weak[v].s # Objects!Null, weak[v].g = gen'[weak[v].s]
        PROVE  data[weak[v].s] = weak[v].obj /\ \E u \in PoolThreads : own'[u] = weak[v].s
    BY <2>1, <2>2, <1>3 DEF ObjectsInv, WeakOK
  <2>3. ASSUME NEW v \in PoolThreads, poolAt'[v][1] \in {"seen", "used"} PROVE poolAt'[v] = poolAt[v]
    BY <2>3, <1>2
  <2>4. ASSUME NEW v \in PoolThreads, poolAt'[v][1] = "seen"
        PROVE  weak[v].s # Objects!Null /\ (weak[v].g = gen'[weak[v].s] => poolAt'[v][2] = weak[v].obj)
    BY <2>1, <2>3, <2>4 DEF ObjectsInv, WeakOK
  <2>5. ASSUME NEW v \in PoolThreads, poolAt'[v][1] = "used" PROVE poolAt'[v][2] = weak[v].obj
    BY <2>3, <2>5 DEF ObjectsInv, WeakOK
  <2> QED BY <2>1, <2>2, <2>4, <2>5, <1>1 DEF WeakOK
<1> QED BY <1>5, <1>6, <1>7, <1>8, <1>9 DEF ObjectsInv

(* The rest of destroy_data writes what nobody owns.                        *)
LEMMA ClearDataKeeps ==
  ASSUME PoolOK, ObjectsInv, NEW t \in PoolThreads, Objects!ClearData(t)
  PROVE  ObjectsInv'
<1>1. UNCHANGED <<head, next, gen, made, own, weak>> /\ poolAt[t][1] \in {"clear", "clearing"}
  BY DEF Objects!ClearData
<1>2. /\ poolAt'[t][1] \in {"clearing", "release"} /\ poolAt'[t][2] = poolAt[t][2]
      /\ DOMAIN poolAt' = PoolThreads
      /\ \A u \in PoolThreads : u # t => poolAt'[u] = poolAt[u]
  BY DEF Objects!ClearData, Objects!Goto, ObjectsInv, PoolTypes
<1>3. /\ poolAt[t][2] \in Storages /\ \A u \in PoolThreads : own[u] # poolAt[t][2]
  BY <1>1, HeldIsUnowned DEF Holds, ObjectsInv
<1>4. DOMAIN data' = Storages /\ \A x \in Storages : x # poolAt[t][2] => data'[x] = data[x]
  BY DEF Objects!ClearData, ObjectsInv, PoolTypes
<1>5. PoolTypes'
  BY <1>1, <1>2, <1>4 DEF ObjectsInv, PoolTypes, PoolSteps
<1>6. OnList' = OnList /\ ListOK'
  BY <1>1, SameList DEF ObjectsInv
<1>7. CallOK'
  BY <1>1, <1>2, <1>3, <1>6 DEF ObjectsInv, CallOK, Takes, Holds
<1>8. PlacedOK'
  <2>1. \A u \in PoolThreads : InHand(u)' = InHand(u)
    BY <1>1, <1>2 DEF InHand, Holds
  <2> QED BY <2>1, <1>1, <1>6, SamePlaces DEF ObjectsInv
<1>9. WeakOK'
  <2>1. \A u \in PoolThreads : poolAt'[u][1] \in {"seen", "used"} => poolAt'[u] = poolAt[u]
    BY <1>2
  <2> QED BY <2>1, <1>1, <1>3, <1>4, SameWeakButData DEF ObjectsInv
<1> QED BY <1>5, <1>6, <1>7, <1>8, <1>9 DEF ObjectsInv

(* The next of a storage in hand is on nobody's way.                        *)
LEMMA PushLoadKeeps ==
  ASSUME PoolOK, ObjectsInv, NEW t \in PoolThreads, Objects!PushLoad(t)
  PROVE  ObjectsInv'
<1>1. UNCHANGED <<head, gen, data, made, own, weak>> /\ poolAt[t][1] = "release"
  BY DEF Objects!PushLoad
<1>2. /\ poolAt'[t] = <<"push", poolAt[t][2], head>> /\ DOMAIN poolAt' = PoolThreads
      /\ \A u \in PoolThreads : u # t => poolAt'[u] = poolAt[u]
  BY DEF Objects!PushLoad, Objects!Goto, ObjectsInv, PoolTypes
<1>3. poolAt[t][2] \in Storages /\ InHand(t) = poolAt[t][2] /\ poolAt[t][2] # Objects!Null
  BY <1>1, HeldIsUnowned DEF Holds, ObjectsInv, PoolOK
<1>4. /\ next' \in [Storages -> Storages \cup {Objects!Null}] /\ next'[poolAt[t][2]] = head
      /\ \A x \in Storages : x # poolAt[t][2] => next'[x] = next[x]
  BY <1>3 DEF Objects!PushLoad, ObjectsInv, PoolTypes
<1>5. /\ NextMap(next) /\ NextMap(next') /\ head \in Storages \cup {Objects!Null}
      /\ OnList \subseteq Storages
  <2>1. NextMap(next) /\ NextMap(next') /\ head \in Storages \cup {Objects!Null}
    BY <1>4 DEF ObjectsInv, PoolTypes, NextMap
  <2> QED BY <2>1, BelowClosed DEF OnList
<1>6. \A y \in OnList : next'[y] = next[y]
  <2>1. Hands[t] \notin OnList
    BY DEF ObjectsInv, PlacedOK, Placed
  <2>2. poolAt[t][2] \notin OnList
    BY <2>1, <1>3 DEF Hands
  <2> QED BY <2>2, <1>4, <1>5
<1>7. OnList' = OnList
  <2>1. Below(next', head) = Below(next, head)
    BY <1>5, <1>6, BelowSame DEF OnList
  <2> QED BY <2>1, <1>1 DEF OnList, Below
<1>8. ListOK'
  <2>1. ASSUME NEW s \in OnList PROVE s \notin Below(next', next'[s])
    <3>1. next[s] \in Storages \cup {Objects!Null} /\ Below(next, next[s]) \subseteq OnList
      BY <1>5, BelowInside DEF OnList
    <3>2. \A y \in Below(next, next[s]) : next'[y] = next[y]
      BY <3>1, <1>6
    <3>3. Below(next', next[s]) = Below(next, next[s])
      BY <3>1, <3>2, <1>5, BelowSame
    <3> QED BY <3>3, <1>6 DEF ObjectsInv, ListOK
  <2>2. \A s : Below(next, next[s])' = Below(next', next'[s])
    BY DEF Below
  <2> QED BY <2>1, <2>2, <1>7 DEF ListOK
<1>9. PoolTypes'
  BY <1>1, <1>2, <1>4 DEF ObjectsInv, PoolTypes, PoolSteps
<1>10. CallOK'
  <2>1. ASSUME NEW u \in PoolThreads, u # t, poolAt[u][1] = "push"
        PROVE  next'[poolAt[u][2]] = next[poolAt[u][2]]
    <3>1. InHand(u) = poolAt[u][2] /\ poolAt[u][2] \in Storages
      BY <2>1, HeldIsUnowned DEF Holds, ObjectsInv
    <3>2. Hands[t] # Hands[u]
      BY <2>1, <1>3 DEF ObjectsInv, PlacedOK, Placed, Hands
    <3> QED BY <3>1, <3>2, <1>3, <1>4 DEF Hands
  <2> QED BY <2>1, <1>1, <1>2, <1>3, <1>4, <1>6, <1>7 DEF ObjectsInv, CallOK, Takes, Holds
<1>11. PlacedOK'
  <2>1. \A u \in PoolThreads : InHand(u)' = InHand(u)
    BY <1>1, <1>2 DEF InHand, Holds
  <2> QED BY <2>1, <1>1, <1>7, SamePlaces DEF ObjectsInv
<1>12. WeakOK'
  BY <1>1, <1>2, SameWeak DEF ObjectsInv
<1> QED BY <1>7, <1>8, <1>9, <1>10, <1>11, <1>12 DEF ObjectsInv

(* The push puts its storage before the list its next was set to.           *)
LEMMA PushCasKeeps ==
  ASSUME PoolOK, ObjectsInv, NEW t \in PoolThreads, Objects!PushCas(t)
  PROVE  ObjectsInv'
<1>1. UNCHANGED <<next, gen, data, made, own, weak>> /\ poolAt[t][1] = "push"
  BY DEF Objects!PushCas
<1>2. /\ poolAt[t][2] \in Storages /\ InHand(t) = poolAt[t][2] /\ poolAt[t][2] # Objects!Null
      /\ own[t] = Objects!Null /\ poolAt[t][3] = next[poolAt[t][2]]
  BY <1>1, HeldIsUnowned DEF Holds, ObjectsInv, PoolOK, CallOK
<1>3. CASE head = poolAt[t][3]
  <2> DEFINE s == poolAt[t][2]
  <2>1. /\ poolAt'[t] = Objects!Idle /\ poolAt'[t][1] = "idle" /\ DOMAIN poolAt' = PoolThreads
        /\ \A u \in PoolThreads : u # t => poolAt'[u] = poolAt[u]
    BY <1>3 DEF Objects!PushCas, Objects!Goto, Objects!Idle, ObjectsInv, PoolTypes
  <2>2. head' = s /\ head = next[s]
    BY <1>2, <1>3 DEF Objects!PushCas
  <2>3. NextMap(next) /\ made \subseteq Storages
    BY DEF ObjectsInv, PoolTypes, NextMap
  <2>4. s \notin OnList /\ Placed(OnList, Hands, made) /\ Hands[t] = s
    BY <1>2 DEF ObjectsInv, PlacedOK, Placed, Hands
  <2>5. OnList' = OnList \cup {s}
    <3>1. Below(next, s) = {s} \cup Below(next, next[s])
      BY <1>2, <2>3, BelowStep
    <3>2. OnList' = Below(next, s)
      BY <1>1, <2>2 DEF OnList, Below
    <3> QED BY <3>1, <3>2, <2>2 DEF OnList
  <2>6. PoolTypes'
    BY <1>1, <1>2, <2>1, <2>2 DEF ObjectsInv, PoolTypes, PoolSteps
  <2>7. CallOK'
    BY <1>1, <2>1, <2>5 DEF ObjectsInv, CallOK, Takes, Holds
  <2>8. ListOK'
    <3>1. \A x : Below(next, next[x])' = Below(next, next[x])
      BY <1>1 DEF Below
    <3>2. Below(next, next[s]) = OnList
      BY <2>2 DEF OnList
    <3> QED BY <3>1, <3>2, <2>4, <2>5 DEF ObjectsInv, ListOK
  <2>9. PlacedOK'
    <3>1. InHand(t)' = Objects!Null
      BY <1>1, <1>2, <2>1 DEF InHand, Holds
    <3>2. \A u \in PoolThreads : u # t => InHand(u)' = InHand(u)
      BY <1>1, <2>1 DEF InHand
    <3>3. (Hands')[t] = Objects!Null /\ \A u \in PoolThreads : u # t => (Hands')[u] = Hands[u]
      BY <3>1, <3>2 DEF Hands
    <3>4. Placed(OnList', Hands', made)
      BY <3>3, <2>3, <2>4, <2>5, <1>2, PlacedBack
    <3> QED BY <3>4, <1>1 DEF PlacedOK
  <2>10. WeakOK'
    BY <1>1, <2>1, SameWeak DEF ObjectsInv
  <2> QED BY <2>6, <2>7, <2>8, <2>9, <2>10 DEF ObjectsInv
<1>4. CASE head # poolAt[t][3]
  <2>1. /\ poolAt'[t] = <<"release", poolAt[t][2], Objects!Null>> /\ DOMAIN poolAt' = PoolThreads
        /\ \A u \in PoolThreads : u # t => poolAt'[u] = poolAt[u]
    BY <1>4 DEF Objects!PushCas, Objects!Goto, ObjectsInv, PoolTypes
  <2>2. UNCHANGED head
    BY <1>4 DEF Objects!PushCas
  <2>3. OnList' = OnList /\ ListOK'
    BY <1>1, <2>2, SameList DEF ObjectsInv
  <2>4. PoolTypes'
    BY <1>1, <2>1, <2>2 DEF ObjectsInv, PoolTypes, PoolSteps
  <2>5. CallOK'
    BY <1>1, <1>2, <2>1, <2>3 DEF ObjectsInv, CallOK, Takes, Holds
  <2>6. PlacedOK'
    <3>1. \A u \in PoolThreads : InHand(u)' = InHand(u)
      BY <1>1, <2>1 DEF InHand, Holds
    <3> QED BY <3>1, <1>1, <2>3, SamePlaces DEF ObjectsInv
  <2>7. WeakOK'
    BY <1>1, <2>1, SameWeak DEF ObjectsInv
  <2> QED BY <2>3, <2>4, <2>5, <2>6, <2>7 DEF ObjectsInv
<1> QED BY <1>3, <1>4

(* The reader of a weak pointer: what it saw is the pointer's object if the *)
(* generation has not moved since.                                          *)
LEMMA ReaderKeeps ==
  ASSUME PoolOK, ObjectsInv, NEW t \in PoolThreads,
         Objects!Read(t) \/ Objects!Check(t) \/ Objects!Used(t)
  PROVE  ObjectsInv'
<1>1. /\ UNCHANGED <<head, next, gen, data, made, own>>
      /\ poolAt[t][1] \in {"idle", "seen", "used"}
  BY DEF Objects!Read, Objects!Check, Objects!Used, Objects!Idle
<1>2. /\ poolAt'[t][1] \in {"idle", "seen", "used"} /\ DOMAIN poolAt' = PoolThreads
      /\ \A u \in PoolThreads : u # t => poolAt'[u] = poolAt[u]
  BY DEF Objects!Read, Objects!Check, Objects!Used, Objects!Goto, Objects!Idle, ObjectsInv, PoolTypes
<1>3. /\ DOMAIN weak' = PoolThreads /\ weak'[t] \in {weak[t], Objects!NoWeak}
      /\ \A u \in PoolThreads : u # t => weak'[u] = weak[u]
  BY DEF Objects!Read, Objects!Check, Objects!Used, ObjectsInv, PoolTypes
<1>4. Objects!NoWeak.s = Objects!Null /\ Objects!NoWeak.g \in Int
  BY DEF Objects!NoWeak
<1>5. PoolTypes'
  <2>1. \A u \in PoolThreads : weak'[u].s \in Storages \cup {Objects!Null} /\ weak'[u].g \in Int
    BY <1>3, <1>4 DEF ObjectsInv, PoolTypes
  <2> QED BY <2>1, <1>1, <1>2, <1>3 DEF ObjectsInv, PoolTypes, PoolSteps
<1>6. OnList' = OnList /\ ListOK'
  BY <1>1, SameList DEF ObjectsInv
<1>7. CallOK'
  BY <1>1, <1>2, <1>6 DEF ObjectsInv, CallOK, Takes, Holds
<1>8. PlacedOK'
  <2>1. \A u \in PoolThreads : InHand(u)' = InHand(u)
    BY <1>1, <1>2 DEF InHand, Holds
  <2> QED BY <2>1, <1>1, <1>6, SamePlaces DEF ObjectsInv
<1>9. WeakOK'
  <2>1. ASSUME NEW v \in PoolThreads, weak'[v].s # Objects!Null PROVE weak'[v] = weak[v]
    BY <2>1, <1>3, <1>4
  <2>2. ASSUME poolAt'[t][1] = "seen"
        PROVE  /\ weak'[t].s # Objects!Null
               /\ weak'[t].g = gen[weak'[t].s] => poolAt'[t][2] = weak'[t].obj
    <3>1. Objects!Read(t)
      BY <2>2 DEF Objects!Check, Objects!Used, Objects!Goto, Objects!Idle, ObjectsInv, PoolTypes
    <3>2. poolAt'[t][2] = data[weak[t].s] /\ weak[t].s # Objects!Null /\ weak' = weak
      BY <3>1 DEF Objects!Read, Objects!Goto, ObjectsInv, PoolTypes
    <3> QED BY <3>2 DEF ObjectsInv, WeakOK
  <2>3. ASSUME poolAt'[t][1] = "used" PROVE poolAt'[t][2] = weak'[t].obj
    <3>1. Objects!Check(t) /\ Objects!is_alive(weak[t])
      BY <2>3 DEF Objects!Check, Objects!Read, Objects!Used, Objects!Goto, Objects!Idle, ObjectsInv, PoolTypes
    <3>2. poolAt'[t][2] = poolAt[t][2] /\ weak' = weak /\ poolAt[t][1] = "seen"
      BY <3>1 DEF Objects!Check, Objects!Goto, ObjectsInv, PoolTypes
    <3> QED BY <3>1, <3>2 DEF ObjectsInv, WeakOK, Objects!is_alive
  <2> QED BY <2>1, <2>2, <2>3, <1>1, <1>2, <1>3 DEF ObjectsInv, WeakOK
<1> QED BY <1>5, <1>6, <1>7, <1>8, <1>9 DEF ObjectsInv

(* A moved owner takes its storage along.                                   *)
LEMMA MoveKeeps ==
  ASSUME PoolOK, ObjectsInv, NEW t \in PoolThreads, NEW u \in PoolThreads, Objects!Move(t, u)
  PROVE  ObjectsInv'
<1>1. /\ UNCHANGED <<head, next, gen, data, made, weak, poolAt>> /\ t # u
      /\ poolAt[t] = Objects!Idle /\ poolAt[u] = Objects!Idle /\ own[u] = Objects!Null
  BY DEF Objects!Move
<1>2. poolAt[t][1] = "idle" /\ poolAt[u][1] = "idle" /\ InHand(t) = own[t] /\ InHand(u) = own[u]
  BY <1>1, IdleHands
<1>3. /\ own' \in [PoolThreads -> Storages \cup {Objects!Null}]
      /\ own'[t] = Objects!Null /\ own'[u] = own[t]
      /\ \A v \in PoolThreads : v \notin {t, u} => own'[v] = own[v]
  BY <1>1 DEF Objects!Move, ObjectsInv, PoolTypes, PoolOK
<1>4. PoolTypes'
  BY <1>1, <1>3 DEF ObjectsInv, PoolTypes
<1>5. OnList' = OnList /\ ListOK'
  BY <1>1, SameList DEF ObjectsInv
<1>6. CallOK'
  BY <1>1, <1>2, <1>3, <1>5 DEF ObjectsInv, CallOK, Takes, Holds
<1>7. PlacedOK'
  <2>1. InHand(t)' = Objects!Null /\ InHand(u)' = InHand(t)
    BY <1>1, <1>2, <1>3 DEF InHand, Holds
  <2>2. \A v \in PoolThreads : v \notin {t, u} => InHand(v)' = InHand(v)
    BY <1>1, <1>3 DEF InHand
  <2>3. /\ (Hands')[t] = Objects!Null /\ (Hands')[u] = Hands[t] /\ Hands[u] = Objects!Null
        /\ \A v \in PoolThreads : v \notin {t, u} => (Hands')[v] = Hands[v]
    BY <2>1, <2>2, <1>1, <1>2 DEF Hands
  <2>4. Placed(OnList, Hands, made) /\ made \subseteq Storages /\ Objects!Null \notin OnList
    BY DEF ObjectsInv, PlacedOK, PoolTypes, Placed, PoolOK
  <2>5. Placed(OnList, Hands', made)
    BY <2>3, <2>4, <1>1, PlacedMoved
  <2> QED BY <2>5, <1>1, <1>5 DEF PlacedOK
<1>8. WeakOK'
  <2>1. ASSUME NEW s \in Storages, NEW v \in PoolThreads, own[v] = s PROVE \E x \in PoolThreads : own'[x] = s
    BY <2>1, <1>1, <1>3 DEF PoolOK
  <2>2. ASSUME NEW v \in PoolThreads PROVE weak[v].s \in Storages \cup {Objects!Null}
    BY DEF ObjectsInv, PoolTypes
  <2> QED BY <2>1, <2>2, <1>1 DEF ObjectsInv, WeakOK
<1> QED BY <1>4, <1>5, <1>6, <1>7, <1>8 DEF ObjectsInv

(* A new weak pointer has the generation and the object of its owner.       *)
LEMMA GetWeakKeeps ==
  ASSUME PoolOK, ObjectsInv, NEW t \in PoolThreads, NEW u \in PoolThreads, Objects!GetWeak(t, u)
  PROVE  ObjectsInv'
<1>1. /\ UNCHANGED <<head, next, gen, data, made, own, poolAt>>
      /\ poolAt[u][1] = "idle" /\ own[t] \in Storages
  BY IdleHands DEF Objects!GetWeak, ObjectsInv, PoolTypes
<1>2. /\ DOMAIN weak' = PoolThreads /\ \A v \in PoolThreads : v # u => weak'[v] = weak[v]
      /\ weak'[u].s = own[t] /\ weak'[u].g = gen[own[t]] /\ weak'[u].obj = data[own[t]]
  BY DEF Objects!GetWeak, ObjectsInv, PoolTypes
<1>3. gen[own[t]] \in Nat
  BY <1>1 DEF ObjectsInv, PoolTypes
<1>4. PoolTypes'
  BY <1>1, <1>2, <1>3 DEF ObjectsInv, PoolTypes
<1>5. OnList' = OnList /\ ListOK'
  BY <1>1, SameList DEF ObjectsInv
<1>6. CallOK'
  BY <1>1, <1>5 DEF ObjectsInv, CallOK
<1>7. PlacedOK'
  <2>1. \A v \in PoolThreads : InHand(v)' = InHand(v)
    BY <1>1 DEF InHand
  <2> QED BY <2>1, <1>1, <1>5, SamePlaces DEF ObjectsInv
<1>8. WeakOK'
  BY <1>1, <1>2, <1>3 DEF ObjectsInv, WeakOK
<1> QED BY <1>4, <1>5, <1>6, <1>7, <1>8 DEF ObjectsInv

(* The empty pool.                                                          *)
LEMMA ObjectsInit ==
  ASSUME PoolOK, Objects!Init
  PROVE  ObjectsInv
<1>1. poolAt = [t \in PoolThreads |-> Objects!Idle] /\ own = [t \in PoolThreads |-> Objects!Null]
  BY DEF Objects!Init
<1>2. \A t \in PoolThreads : poolAt[t][1] = "idle" /\ InHand(t) = Objects!Null
  BY <1>1, IdleHands
<1>3. OnList = {}
  <2>1. head = Objects!Null
    BY DEF Objects!Init
  <2>2. ASSUME NEW s \in OnList PROVE FALSE
    <3> DEFINE F == {}
    <3>1. F \in SUBSET Storages /\ head \in F \cup {Objects!Null}
      BY <2>1
    <3>2. \A y \in F : next[y] \in F \cup {Objects!Null}
      OBVIOUS
    <3>3. s \notin F
      OBVIOUS
    <3> HIDE DEF F
    <3> QED BY <3>1, <3>2, <3>3 DEF OnList, Below
  <2> QED BY <2>2
<1>4. Objects!NoWeak.s = Objects!Null /\ Objects!NoWeak.g = -1
  BY DEF Objects!NoWeak
<1>5. weak = [t \in PoolThreads |-> Objects!NoWeak]
  BY DEF Objects!Init
<1>6. PoolTypes
  BY <1>1, <1>2, <1>4, <1>5 DEF Objects!Init, PoolTypes, PoolSteps
<1>7. CallOK /\ ListOK
  BY <1>2, <1>3 DEF CallOK, ListOK, Takes, Holds
<1>8. PlacedOK
  BY <1>2, <1>3 DEF PlacedOK, Placed, Hands, Objects!Init
<1>9. WeakOK
  BY <1>2, <1>4, <1>5 DEF WeakOK
<1> QED BY <1>6, <1>7, <1>8, <1>9 DEF ObjectsInv

(* A step that is not the pool's.                                           *)
LEMMA ObjectsStays ==
  ASSUME ObjectsInv, UNCHANGED poolVars
  PROVE  ObjectsInv'
<1>1. UNCHANGED <<head, next, gen, data, made, own, weak, poolAt>>
  BY DEF poolVars
<1>2. PoolTypes'
  BY <1>1 DEF ObjectsInv, PoolTypes
<1>3. OnList' = OnList /\ ListOK'
  BY <1>1, SameList DEF ObjectsInv
<1>4. CallOK'
  BY <1>1, <1>3 DEF ObjectsInv, CallOK
<1>5. PlacedOK'
  <2>1. \A u \in PoolThreads : InHand(u)' = InHand(u)
    BY <1>1 DEF InHand
  <2> QED BY <2>1, <1>1, <1>3, SamePlaces DEF ObjectsInv
<1>6. WeakOK'
  BY <1>1, SameWeak DEF ObjectsInv
<1> QED BY <1>2, <1>3, <1>4, <1>5, <1>6 DEF ObjectsInv

(* And those that are.                                                      *)
LEMMA ObjectsStep ==
  ASSUME PoolOK, ObjectsInv, Objects!Next
  PROVE  ObjectsInv'
<1>1. PICK t \in PoolThreads :
        \/ Objects!NewStorage(t) \/ Objects!PopLoad(t) \/ Objects!PopNext(t) \/ Objects!PopCas(t)
        \/ Objects!InitData(t) \/ Objects!Created(t) \/ Objects!CreateEmpty(t)
        \/ Objects!Reset(t) \/ Objects!ClearData(t) \/ Objects!PushLoad(t) \/ Objects!PushCas(t)
        \/ Objects!Read(t) \/ Objects!Check(t) \/ Objects!Used(t)
        \/ \E u \in PoolThreads : Objects!Move(t, u) \/ Objects!GetWeak(t, u)
  BY DEF Objects!Next
<1>2. CASE \/ Objects!NewStorage(t) \/ Objects!PopLoad(t) \/ Objects!PopNext(t) \/ Objects!PopCas(t)
  BY <1>2, NewStorageKeeps, PopLoadKeeps, PopNextKeeps, PopCasKeeps
<1>3. CASE Objects!InitData(t) \/ Objects!Created(t) \/ Objects!CreateEmpty(t)
  BY <1>3, InitDataKeeps, CreatedKeeps, CreateEmptyKeeps
<1>4. CASE \/ Objects!Reset(t) \/ Objects!ClearData(t) \/ Objects!PushLoad(t) \/ Objects!PushCas(t)
  BY <1>4, ResetKeeps, ClearDataKeeps, PushLoadKeeps, PushCasKeeps
<1>5. CASE Objects!Read(t) \/ Objects!Check(t) \/ Objects!Used(t)
  BY <1>5, ReaderKeeps
<1>6. CASE \E u \in PoolThreads : Objects!Move(t, u) \/ Objects!GetWeak(t, u)
  BY <1>6, MoveKeeps, GetWeakKeeps
<1> QED BY <1>1, <1>2, <1>3, <1>4, <1>5, <1>6

(* The model's words for it.                                                *)
LEMMA ObjectsSays ==
  ASSUME PoolOK, ObjectsInv
  PROVE  Objects!AliveReadIsOwn /\ Objects!EachInOnePlace
<1>1. Objects!AliveReadIsOwn
  BY DEF ObjectsInv, WeakOK, Objects!AliveReadIsOwn
<1>2. Objects!FreeList = OnList
  BY DEF Objects!FreeList, Objects!From, OnList, Below
<1>3. ASSUME NEW t \in PoolThreads PROVE Objects!Held(t) = {Hands[t]} \ {Objects!Null}
  <2>1. CASE poolAt[t][1] \in {"got", "init", "clear", "clearing", "release", "push"}
    <3>1. own[t] = Objects!Null /\ Hands[t] = poolAt[t][2]
      BY <2>1 DEF ObjectsInv, CallOK, Holds, Hands, InHand
    <3> QED BY <2>1, <3>1 DEF Objects!Held
  <2>2. CASE poolAt[t][1] \notin {"got", "init", "clear", "clearing", "release", "push"}
    <3>1. Hands[t] = own[t]
      BY <2>2 DEF Holds, Hands, InHand
    <3> QED BY <2>2, <3>1 DEF Objects!Held
  <2> QED BY <2>1, <2>2
<1>4. Placed(OnList, Hands, made) /\ Objects!Null \notin made
  BY DEF ObjectsInv, PlacedOK, PoolTypes, PoolOK
<1>5. OnList \cup UNION {Objects!Held(t) : t \in PoolThreads} = made
  <2>1. ASSUME NEW s \in OnList \cup UNION {Objects!Held(t) : t \in PoolThreads} PROVE s \in made
    BY <1>3, <1>4 DEF Placed
  <2>2. ASSUME NEW s \in made, s \notin OnList PROVE s \in UNION {Objects!Held(t) : t \in PoolThreads}
    <3>1. PICK t \in PoolThreads : Hands[t] = s
      BY <2>2, <1>4 DEF Placed
    <3>2. s \in Objects!Held(t)
      BY <3>1, <1>3, <1>4
    <3> QED BY <3>2
  <2> QED BY <2>1, <2>2
<1>6. /\ \A t \in PoolThreads : Objects!Held(t) \cap OnList = {}
      /\ \A t, u \in PoolThreads : t # u => Objects!Held(t) \cap Objects!Held(u) = {}
  BY <1>3, <1>4 DEF Placed
<1> QED BY <1>1, <1>2, <1>5, <1>6 DEF Objects!EachInOnePlace

(* ObjectPool, for every number of threads, of storages and of objects: a   *)
(* weak pointer that is_alive declares valid was read as the object it was  *)
(* taken from, and every storage is on the free list or with one thread.    *)
THEOREM ObjectsHoldCorrect == MCSpec => []ObjectsHold
<1> DEFINE I == part = "Objects" => ObjectsInv
<1>1. MCInit => I
  BY PoolAssumption, ObjectsInit DEF MCInit
<1>2. I /\ [MCNext]_mc_vars => I'
  <2> SUFFICES ASSUME I, [MCNext]_mc_vars PROVE I'
    OBVIOUS
  <2>1. CASE UNCHANGED mc_vars
    BY <2>1, ObjectsStays DEF mc_vars
  <2>2. CASE MCNext
    <3>1. UNCHANGED part
      BY <2>2 DEF MCNext
    <3>2. ASSUME part = "Objects" PROVE ObjectsInv'
      BY <2>2, <3>2, PoolAssumption, ObjectsStep DEF MCNext
    <3> QED BY <3>1, <3>2
  <2> QED BY <2>1, <2>2
<1>3. I => ObjectsHold
  BY PoolAssumption, ObjectsSays DEF ObjectsHold
<1> QED BY <1>1, <1>2, <1>3, PTL DEF MCSpec

----------------------------------------------------------------------------
(* Proofs: ThreadLocals                                                    *)

(* ThreadLocals: there are more cells than threads, as ThreadLocalStorage   *)
(* CHECKs.                                                                  *)
LocalsOK == IsFiniteSet(LocalThreads) /\ IsFiniteSet(Slots) /\ MaxThreadId \in Nat
            /\ Cardinality(LocalThreads) < MaxThreadId
ASSUME LocalsAssumption == LocalsOK

LocalsTypes ==
  /\ max_thread_id_ \in Nat /\ max_thread_id_ < MaxThreadId
  /\ unused_thread_ids_ \subseteq 1 .. max_thread_id_
  /\ thread_id_ \in [LocalThreads -> Nat]
  /\ state \in [LocalThreads -> {"out", "run", "clear"}]
  /\ raw_ptr \in [LocalThreads -> SUBSET Slots] /\ destructors = raw_ptr
  /\ cells \in [0 .. MaxThreadId - 1 -> Int] /\ total \in Int
  /\ sum \in [next : 0 .. MaxThreadId, res : Int, low : Int, drop : Nat]

(* The ids in use are those of the threads that run, one each.              *)
IdsInv ==
  /\ \A t \in LocalThreads : state[t] = "out" => thread_id_[t] = 0 /\ raw_ptr[t] = {}
  /\ \A t \in LocalThreads : state[t] # "out" =>
       thread_id_[t] \in 1 .. max_thread_id_ /\ thread_id_[t] \notin unused_thread_ids_
  /\ \A i \in 1 .. max_thread_id_ : i \in unused_thread_ids_ \/ \E t \in LocalThreads : thread_id_[t] = i
  /\ \A t, u \in LocalThreads : state[t] # "out" /\ thread_id_[t] = thread_id_[u] => t = u

(* A cell has what its thread holds, and nothing when it has none.          *)
CellsInv ==
  /\ \A t \in LocalThreads : state[t] # "out" => cells[thread_id_[t]] = Cardinality(raw_ptr[t])
  /\ \A i \in 0 .. MaxThreadId - 1 :
       i = 0 \/ (\A t \in LocalThreads : thread_id_[t] # i) => cells[i] = 0

(* P[n] is the sum of the first n cells.  What sum has of those it has      *)
(* read is at most what is in them now and what was taken away since it     *)
(* began; with what is in the others it is at least what there was then,    *)
(* less that.                                                               *)
SumsOf(m, c) == {P \in [0 .. m -> Int] : P[0] = 0 /\ \A i \in 0 .. m - 1 : P[i + 1] = P[i] + c[i]}
Sums == SumsOf(MaxThreadId, cells)
SumIs(P) ==
  /\ total = P[MaxThreadId]
  /\ sum.next = 0 => sum.res = 0
  /\ sum.next > 0 => /\ sum.res <= P[sum.next] + sum.drop
                     /\ sum.low - sum.drop <= sum.res + total - P[sum.next]
SumInv == \E P \in Sums : SumIs(P)

LocalsInv == LocalsTypes /\ IdsInv /\ CellsInv /\ SumInv

(* The operators that ThreadLocals has from the libraries.                  *)
LEMMA LocalsCardinality == \A S : Locals!Cardinality(S) = Cardinality(S)
<1> TAKE S
<1> QED BY DEF Locals!Cardinality, Cardinality

(* A set of numbers that is not empty has a least one.                      *)
LEMMA LeastNumber ==
  ASSUME NEW S, S \subseteq Nat, S # {}
  PROVE  \E m \in S : \A k \in S : m <= k
<1> DEFINE R == OpToRel(<, Nat)
<1>1. IsWellFoundedOn(R, Nat)
  BY NatLessThanWellFounded DEF OpToRel
<1>2. \A x, y \in Nat : <<x, y>> \in R <=> x < y
  BY DEF OpToRel
<1> HIDE DEF R
<1>3. PICK m \in S : \A k \in S : <<k, m>> \notin R
  BY <1>1, WFMin
<1>4. \A k \in S : m <= k
  <2> TAKE k \in S
  <2>1. ~(k < m)
    BY <1>2, <1>3
  <2> QED BY <2>1
<1> QED BY <1>4

(* Min of ThreadLocals finds it.                                            *)
LEMMA LocalsMin ==
  ASSUME NEW S, S \subseteq Nat, S # {}
  PROVE  Locals!Min(S) \in S
BY LeastNumber DEF Locals!Min

(* When every id up to the largest is in use, the thread that starts is one *)
(* more than they are.                                                      *)
LEMMA RoomForOne ==
  ASSUME LocalsOK, LocalsTypes, IdsInv, unused_thread_ids_ = {},
         NEW t \in LocalThreads, state[t] = "out"
  PROVE  max_thread_id_ + 1 < MaxThreadId
<1> DEFINE R == LocalThreads \ {t}
<1>1. /\ IsFiniteSet(R) /\ Cardinality(R) = Cardinality(LocalThreads) - 1
      /\ Cardinality(R) \in Nat /\ Cardinality(LocalThreads) \in Nat
  BY FS_RemoveElement, FS_CardinalityType DEF LocalsOK
<1>2. CASE max_thread_id_ = 0
  BY <1>1, <1>2 DEF LocalsOK
<1>3. CASE max_thread_id_ # 0
  <2> DEFINE m == max_thread_id_
             f == [u \in R |-> IF thread_id_[u] \in 1 .. m THEN thread_id_[u] ELSE 1]
  <2>1. m \in Nat /\ m # 0
    BY <1>3 DEF LocalsTypes
  <2>2. f \in [R -> 1 .. m]
    BY <2>1
  <2>3. ASSUME NEW i \in 1 .. m PROVE \E u \in R : f[u] = i
    <3>1. PICK u \in LocalThreads : thread_id_[u] = i
      BY DEF IdsInv
    <3>2. u # t
      BY <3>1, <2>1 DEF IdsInv
    <3> QED BY <3>1, <3>2
  <2>4. f \in Surjection(R, 1 .. m)
    BY <2>2, <2>3 DEF Surjection
  <2>5. Cardinality(1 .. m) <= Cardinality(R)
    BY <2>4, <1>1, FS_Surjection
  <2>6. Cardinality(1 .. m) = m
    BY <2>1, FS_Interval
  <2> QED BY <2>1, <2>5, <2>6, <1>1 DEF LocalsOK
<1> QED BY <1>2, <1>3

(* The ids are cells, and none of them is the cell 0.                       *)
LEMMA IdsAreCells ==
  ASSUME LocalsOK, LocalsTypes, IdsInv, NEW t \in LocalThreads, state[t] # "out"
  PROVE  thread_id_[t] \in 0 .. MaxThreadId - 1 /\ thread_id_[t] # 0
BY DEF LocalsOK, LocalsTypes, IdsInv

(* One of the m cells c changes by d, to e ...                              *)
Moves(m, c, e, id, d) ==
  /\ id \in 0 .. m - 1 /\ c \in [0 .. m - 1 -> Int] /\ e \in [0 .. m - 1 -> Int]
  /\ e[id] = c[id] + d /\ \A i \in 0 .. m - 1 : i # id => e[i] = c[i]

(* ... and so do the sums that have it.                                     *)
LEMMA SumsMove ==
  ASSUME NEW m \in Nat, NEW c, NEW P \in SumsOf(m, c), NEW id, NEW d \in Int, NEW e, Moves(m, c, e, id, d)
  PROVE  \E Q \in SumsOf(m, e) : \A n \in 0 .. m : Q[n] = P[n] + (IF n > id THEN d ELSE 0)
<1> DEFINE Q == [n \in 0 .. m |-> P[n] + (IF n > id THEN d ELSE 0)]
<1>0. /\ P \in [0 .. m -> Int] /\ P[0] = 0 /\ \A i \in 0 .. m - 1 : P[i + 1] = P[i] + c[i]
      /\ id \in 0 .. m - 1 /\ c \in [0 .. m - 1 -> Int]
      /\ e[id] = c[id] + d /\ \A i \in 0 .. m - 1 : i # id => e[i] = c[i]
  BY DEF SumsOf, Moves
<1>2. \A n \in 0 .. m : Q[n] = P[n] + (IF n > id THEN d ELSE 0)
  OBVIOUS
<1>1. Q \in [0 .. m -> Int] /\ Q[0] = 0
  <2>1. \A n \in 0 .. m : P[n] + (IF n > id THEN d ELSE 0) \in Int
    <3> TAKE n \in 0 .. m
    <3>1. P[n] \in Int /\ (IF n > id THEN d ELSE 0) \in Int
      BY <1>0
    <3> QED BY <3>1
  <2>2. 0 \in 0 .. m /\ ~(0 > id)
    BY <1>0
  <2>3. Q[0] = P[0] + 0
    BY <2>2
  <2>4. Q \in [0 .. m -> Int]
    BY <2>1
  <2>5. P[0] + 0 = 0
    BY <1>0
  <2> HIDE DEF Q
  <2> QED BY <2>3, <2>4, <2>5
<1> HIDE DEF Q
<1>3. ASSUME NEW i \in 0 .. m - 1 PROVE Q[i + 1] = Q[i] + e[i]
  <2>1. i \in 0 .. m /\ i + 1 \in 0 .. m
    OBVIOUS
  <2>2. c[i] \in Int /\ P[i] \in Int /\ P[i + 1] = P[i] + c[i]
    BY <2>1, <1>0
  <2>3. Q[i + 1] = P[i + 1] + (IF i + 1 > id THEN d ELSE 0) /\ Q[i] = P[i] + (IF i > id THEN d ELSE 0)
    BY <2>1, <1>2
  <2>4. CASE i = id
    <3>1. i + 1 > id /\ ~(i > id) /\ e[i] = c[i] + d
      BY <2>4, <1>0
    <3>2. Q[i + 1] = (P[i] + c[i]) + d /\ Q[i] = P[i] + 0
      BY <2>2, <2>3, <3>1
    <3> QED BY <2>2, <3>1, <3>2
  <2>5. CASE i # id
    <3>1. e[i] = c[i] /\ (i + 1 > id <=> i > id)
      <4>1. \A x, y \in Int : x # y => (x + 1 > y <=> x > y)
        OBVIOUS
      <4>2. i \in Int /\ id \in Int
        BY <1>0
      <4> QED BY <4>1, <4>2, <2>5, <1>0
    <3>2. CASE i > id
      <4>1. Q[i + 1] = (P[i] + c[i]) + d /\ Q[i] = P[i] + d
        BY <2>2, <2>3, <3>1, <3>2
      <4> QED BY <2>2, <3>1, <4>1
    <3>3. CASE ~(i > id)
      <4>1. Q[i + 1] = (P[i] + c[i]) + 0 /\ Q[i] = P[i] + 0
        BY <2>2, <2>3, <3>1, <3>3
      <4> QED BY <2>2, <3>1, <4>1
    <3> QED BY <3>2, <3>3
  <2> QED BY <2>4, <2>5
<1> QED BY <1>1, <1>2, <1>3 DEF SumsOf

(* What add does to the sums.                                               *)
LEMMA AddKeepsSum ==
  ASSUME LocalsOK, LocalsTypes, IdsInv, SumInv, NEW t \in LocalThreads, state[t] # "out",
         NEW d \in {1, -1}, Locals!add(t, d)
  PROVE  /\ SumInv' /\ cells' \in [0 .. MaxThreadId - 1 -> Int] /\ total' \in Int
         /\ sum' \in [next : 0 .. MaxThreadId, res : Int, low : Int, drop : Nat]
         /\ cells'[thread_id_[t]] = cells[thread_id_[t]] + d
         /\ \A i \in 0 .. MaxThreadId - 1 : i # thread_id_[t] => cells'[i] = cells[i]
<1> DEFINE id == thread_id_[t]
<1>1. id \in 0 .. MaxThreadId - 1 /\ MaxThreadId \in Nat
  BY IdsAreCells DEF LocalsOK
<1>2. /\ cells \in [0 .. MaxThreadId - 1 -> Int] /\ total \in Int
      /\ sum \in [next : 0 .. MaxThreadId, res : Int, low : Int, drop : Nat]
  BY DEF LocalsTypes
<1>3. /\ cells' = [cells EXCEPT ![id] = cells[id] + d] /\ total' = total + d
      /\ sum' = IF d < 0 THEN [sum EXCEPT !.drop = sum.drop - d] ELSE sum
  BY DEF Locals!add
<1>4. /\ cells' \in [0 .. MaxThreadId - 1 -> Int] /\ cells'[id] = cells[id] + d
      /\ \A i \in 0 .. MaxThreadId - 1 : i # id => cells'[i] = cells[i]
  BY <1>1, <1>2, <1>3
<1>5. /\ sum'.next = sum.next /\ sum'.res = sum.res /\ sum'.low = sum.low
      /\ sum'.drop = IF d < 0 THEN sum.drop + 1 ELSE sum.drop
      /\ sum' \in [next : 0 .. MaxThreadId, res : Int, low : Int, drop : Nat]
  <2>1. CASE d < 0
    BY <1>2, <1>3, <2>1
  <2>2. CASE ~(d < 0)
    BY <1>2, <1>3, <2>2
  <2> QED BY <2>1, <2>2
<1>6. PICK P \in Sums : SumIs(P)
  BY DEF SumInv
<1>7. /\ P \in [0 .. MaxThreadId -> Int] /\ P[0] = 0
      /\ \A i \in 0 .. MaxThreadId - 1 : P[i + 1] = P[i] + cells[i]
  BY DEF Sums, SumsOf
<1>8. PICK Q \in SumsOf(MaxThreadId, cells') :
        \A n \in 0 .. MaxThreadId : Q[n] = P[n] + (IF n > id THEN d ELSE 0)
  <2>1. d \in Int
    OBVIOUS
  <2>2. Moves(MaxThreadId, cells, cells', id, d)
    BY <1>1, <1>2, <1>4 DEF Moves
  <2> HIDE DEF id
  <2> QED BY <2>1, <2>2, <1>1, <1>6, SumsMove DEF Sums
<1>9. Q \in [0 .. MaxThreadId -> Int]
  BY <1>8 DEF SumsOf
<1>10. Q \in Sums'
  BY <1>8 DEF Sums, SumsOf
<1>11. SumIs(Q)'
  <2>1. P[MaxThreadId] = total /\ P[sum.next] \in Int /\ sum.next \in 0 .. MaxThreadId
    BY <1>1, <1>2, <1>6, <1>7 DEF SumIs
  <2>2. total' = Q[MaxThreadId]
    BY <1>1, <1>3, <1>8, <1>9, <2>1
  <2>3. Q[sum.next] = P[sum.next] + (IF sum.next > id THEN d ELSE 0) /\ Q[sum.next] \in Int
    BY <1>8, <1>9, <2>1
  <2>4. /\ sum.next = 0 => sum.res = 0
        /\ sum.next > 0 => /\ sum.res <= P[sum.next] + sum.drop
                           /\ sum.low - sum.drop <= sum.res + total - P[sum.next]
    BY <1>6 DEF SumIs
  <2>5. sum.res \in Int /\ sum.low \in Int /\ sum.drop \in Nat
    BY <1>2
  <2>6. sum.next > 0 => /\ sum.res <= Q[sum.next] + sum'.drop
                        /\ sum.low - sum'.drop <= sum.res + total' - Q[sum.next]
    <3> HAVE sum.next > 0
    <3> DEFINE r == sum.res  k == sum.drop  l == sum.low  p == P[sum.next]  q == Q[sum.next]
    <3>1. r <= p + k /\ l - k <= r + total - p
      BY <2>4
    <3>2. q = p + d \/ q = p
      BY <2>1, <2>3
    <3>3. r \in Int /\ k \in Int /\ l \in Int /\ p \in Int /\ q \in Int /\ total \in Int
      BY <2>1, <2>3, <2>5, <1>2
    <3>4. sum'.drop = (IF d < 0 THEN k + 1 ELSE k) /\ total' = total + d
      BY <1>3, <1>5
    <3> HIDE DEF r, k, l, p, q
    <3>5. r <= q + sum'.drop /\ l - sum'.drop <= r + total' - q
      <4>1. CASE d = 1
        <5>1. sum'.drop = k /\ total' = total + 1 /\ (q = p + 1 \/ q = p)
          BY <3>2, <3>4, <4>1
        <5> QED BY <5>1, <3>1, <3>3
      <4>2. CASE d = -1
        <5>1. sum'.drop = k + 1 /\ total' = total + (-1) /\ (q = p + (-1) \/ q = p)
          BY <3>2, <3>4, <4>2
        <5> QED BY <5>1, <3>1, <3>3
      <4> QED BY <4>1, <4>2
    <3> QED BY <3>5 DEF r, k, l, p, q
  <2> QED BY <2>2, <2>4, <2>6, <1>5 DEF SumIs
<1>12. SumInv'
  BY <1>10, <1>11 DEF SumInv
<1>13. total' \in Int
  BY <1>2, <1>3
<1> QED BY <1>4, <1>5, <1>12, <1>13

(* Where sum, cells and total are as they were, so is what is known of them.*)
LEMMA SameSum ==
  ASSUME SumInv, UNCHANGED <<cells, sum, total>>
  PROVE  SumInv'
BY DEF SumInv, Sums, SumsOf, SumIs

(* sum takes the next cell, or begins again.                                *)
LEMMA SumCellKeeps ==
  ASSUME LocalsOK, LocalsInv, Locals!SumCell
  PROVE  LocalsInv'
<1>1. /\ UNCHANGED <<unused_thread_ids_, max_thread_id_, thread_id_, state, starts, raw_ptr, destructors,
                     cells, total>>
  BY DEF Locals!SumCell, Locals!ids, Locals!locals
<1>2. /\ MaxThreadId \in Nat /\ total \in Int /\ cells \in [0 .. MaxThreadId - 1 -> Int]
      /\ sum \in [next : 0 .. MaxThreadId, res : Int, low : Int, drop : Nat]
  BY DEF LocalsOK, LocalsInv, LocalsTypes
<1>3. PICK P \in Sums : SumIs(P)
  BY DEF LocalsInv, SumInv
<1>4. /\ P \in [0 .. MaxThreadId -> Int] /\ P[0] = 0
      /\ \A i \in 0 .. MaxThreadId - 1 : P[i + 1] = P[i] + cells[i]
      /\ P \in Sums'
  BY <1>1 DEF Sums, SumsOf
<1>5. sum' \in [next : 0 .. MaxThreadId, res : Int, low : Int, drop : Nat] /\ SumIs(P)'
  <2>1. CASE sum.next = MaxThreadId
    <3>1. sum' = [next |-> 0, res |-> 0, low |-> 0, drop |-> 0]
      BY <2>1 DEF Locals!SumCell, Locals!NoSum
    <3> QED BY <3>1, <1>1, <1>2, <1>3 DEF SumIs
  <2>2. CASE sum.next # MaxThreadId
    <3> DEFINE n == sum.next
    <3>1. sum' = [sum EXCEPT !.next = n + 1, !.res = sum.res + cells[n],
                             !.low = IF n = 0 THEN total ELSE sum.low,
                             !.drop = IF n = 0 THEN 0 ELSE sum.drop]
      BY <2>2 DEF Locals!SumCell
    <3>2. /\ n \in 0 .. MaxThreadId - 1 /\ n + 1 \in 0 .. MaxThreadId /\ n + 1 > 0 /\ cells[n] \in Int
          /\ P[n] \in Int /\ P[n + 1] = P[n] + cells[n]
      <4>1. n \in 0 .. MaxThreadId - 1 /\ n + 1 \in 0 .. MaxThreadId /\ n + 1 > 0 /\ n \in 0 .. MaxThreadId
        <5>1. n \in 0 .. MaxThreadId
          BY <1>2
        <5> QED BY <5>1, <1>2, <2>2
      <4> HIDE DEF n
      <4> QED BY <4>1, <1>2, <1>4
    <3>3. /\ sum'.next = n + 1 /\ sum'.res = sum.res + cells[n]
          /\ sum'.low = (IF n = 0 THEN total ELSE sum.low)
          /\ sum'.drop = (IF n = 0 THEN 0 ELSE sum.drop)
      BY <1>2, <3>1
    <3>4. sum' \in [next : 0 .. MaxThreadId, res : Int, low : Int, drop : Nat]
      <4>1. /\ sum.res \in Int /\ sum.low \in Int /\ sum.drop \in Nat
        BY <1>2
      <4>2. /\ sum.res + cells[n] \in Int /\ (IF n = 0 THEN total ELSE sum.low) \in Int
            /\ (IF n = 0 THEN 0 ELSE sum.drop) \in Nat
        BY <4>1, <3>2, <1>2
      <4> QED BY <4>2, <3>1, <3>2, <1>2
    <3>5. /\ total = P[MaxThreadId] /\ (n = 0 => sum.res = 0)
          /\ n > 0 => /\ sum.res <= P[n] + sum.drop
                      /\ sum.low - sum.drop <= sum.res + total - P[n]
      BY <1>3 DEF SumIs
    <3>6. /\ sum.res \in Int /\ sum.low \in Int /\ sum.drop \in Nat
      BY <1>2
    <3>7. /\ sum'.res <= P[n + 1] + sum'.drop
          /\ sum'.low - sum'.drop <= sum'.res + total - P[n + 1]
      <4>1. CASE n = 0
        <5>1. sum.res = 0 /\ P[n] = 0 /\ sum'.low = total /\ sum'.drop = 0
          BY <4>1, <3>3, <3>5, <1>4
        <5>2. P[n + 1] = cells[n] /\ sum'.res = cells[n]
          BY <5>1, <3>2, <3>3
        <5> HIDE DEF n
        <5>3. total - 0 <= cells[n] + total - cells[n] /\ cells[n] <= cells[n] + 0
          BY <3>2, <1>2
        <5> QED BY <5>1, <5>2, <5>3
      <4>2. CASE n > 0
        <5>1. \A r, p, d, l, c, z \in Int :
                r <= p + d /\ l - d <= r + z - p => r + c <= (p + c) + d /\ l - d <= (r + c) + z - (p + c)
          OBVIOUS
        <5>2. sum'.low = sum.low /\ sum'.drop = sum.drop /\ sum.drop \in Int
          BY <4>2, <3>3, <3>6
        <5>3. sum.res <= P[n] + sum.drop /\ sum.low - sum.drop <= sum.res + total - P[n]
          BY <4>2, <3>5
        <5> HIDE DEF n
        <5>4. /\ sum.res + cells[n] <= (P[n] + cells[n]) + sum.drop
              /\ sum.low - sum.drop <= (sum.res + cells[n]) + total - (P[n] + cells[n])
          BY <5>1, <5>2, <5>3, <3>2, <3>6, <1>2
        <5> QED BY <5>2, <5>4, <3>2, <3>3
      <4> QED BY <4>1, <4>2, <3>2
    <3> QED BY <3>2, <3>3, <3>4, <3>5, <3>7, <1>1 DEF SumIs
  <2> QED BY <2>1, <2>2
<1>6. LocalsTypes'
  BY <1>1, <1>2, <1>5 DEF LocalsInv, LocalsTypes
<1>7. IdsInv'
  BY <1>1 DEF LocalsInv, IdsInv
<1>8. CellsInv'
  BY <1>1 DEF LocalsInv, CellsInv
<1> QED BY <1>4, <1>5, <1>6, <1>7, <1>8 DEF LocalsInv, SumInv

(* What a thread that starts is given is nobody's, and its cell is clean.   *)
LEMMA StartKeeps ==
  ASSUME LocalsOK, LocalsInv, NEW t \in LocalThreads, Locals!Start(t)
  PROVE  LocalsInv'
<1> DEFINE free == unused_thread_ids_
           id == IF free = {} THEN max_thread_id_ + 1 ELSE Locals!Min(free)
<1>0. LocalsTypes /\ IdsInv /\ CellsInv /\ SumInv
  BY DEF LocalsInv
<1>1. /\ state[t] = "out" /\ thread_id_' = [thread_id_ EXCEPT ![t] = id]
      /\ max_thread_id_' = (IF free = {} THEN id ELSE max_thread_id_) /\ unused_thread_ids_' = free \ {id}
      /\ state' = [state EXCEPT ![t] = "run"] /\ UNCHANGED <<raw_ptr, destructors, cells, sum, total>>
  BY DEF Locals!Start, Locals!locals
<1>2. /\ max_thread_id_ \in Nat /\ max_thread_id_ < MaxThreadId /\ free \subseteq 1 .. max_thread_id_
      /\ thread_id_[t] = 0 /\ raw_ptr[t] = {} /\ MaxThreadId \in Nat
  BY <1>0, <1>1 DEF LocalsTypes, IdsInv, LocalsOK
<1>3. /\ max_thread_id_' \in Nat /\ max_thread_id_' < MaxThreadId /\ max_thread_id_ <= max_thread_id_'
      /\ id \in 1 .. max_thread_id_' /\ unused_thread_ids_' \subseteq 1 .. max_thread_id_'
      /\ \A i \in 1 .. max_thread_id_' : i = id \/ i \in 1 .. max_thread_id_
      /\ \A u \in LocalThreads : thread_id_[u] # id
  <2>1. CASE free = {}
    <3>1. max_thread_id_ + 1 < MaxThreadId
      BY <1>0, <1>1, <2>1, RoomForOne
    <3>2. id = max_thread_id_ + 1 /\ max_thread_id_' = max_thread_id_ + 1
      BY <1>1, <2>1
    <3>3. \A u \in LocalThreads : thread_id_[u] = 0 \/ thread_id_[u] \in 1 .. max_thread_id_
      BY <1>0 DEF IdsInv
    <3>4. unused_thread_ids_' = {}
      BY <1>1, <2>1
    <3> HIDE DEF id
    <3> QED BY <1>2, <3>1, <3>2, <3>3, <3>4
  <2>2. CASE free # {}
    <3>1. id \in free
      <4>1. free \subseteq Nat
        BY <1>2
      <4> QED BY <2>2, <4>1, LocalsMin
    <3>2. max_thread_id_' = max_thread_id_
      BY <1>1, <2>2
    <3>3. \A u \in LocalThreads : thread_id_[u] = 0 \/ thread_id_[u] \notin free
      BY <1>0 DEF IdsInv
    <3> HIDE DEF id
    <3> QED BY <1>1, <1>2, <3>1, <3>2, <3>3
  <2> QED BY <2>1, <2>2
<1> HIDE DEF id
<1>4. /\ thread_id_' \in [LocalThreads -> Nat] /\ thread_id_'[t] = id
      /\ \A u \in LocalThreads : u # t => thread_id_'[u] = thread_id_[u]
      /\ state' \in [LocalThreads -> {"out", "run", "clear"}] /\ state'[t] = "run"
      /\ \A u \in LocalThreads : u # t => state'[u] = state[u]
  BY <1>0, <1>1, <1>3 DEF LocalsTypes
<1>5. LocalsTypes'
  BY <1>0, <1>1, <1>3, <1>4 DEF LocalsTypes
<1>6. IdsInv'
  <2>1. ASSUME NEW u \in LocalThreads, state'[u] # "out"
        PROVE  thread_id_'[u] \in 1 .. max_thread_id_' /\ thread_id_'[u] \notin unused_thread_ids_'
    <3>1. CASE u = t
      BY <3>1, <1>1, <1>3, <1>4
    <3>2. CASE u # t
      <4>1. thread_id_[u] \in 1 .. max_thread_id_ /\ thread_id_[u] \notin free
        BY <2>1, <3>2, <1>0, <1>4 DEF IdsInv
      <4> QED BY <4>1, <3>2, <1>1, <1>2, <1>3, <1>4
    <3> QED BY <3>1, <3>2
  <2>2. ASSUME NEW i \in 1 .. max_thread_id_', i \notin unused_thread_ids_'
        PROVE  \E u \in LocalThreads : thread_id_'[u] = i
    <3>1. CASE i = id
      BY <3>1, <1>4
    <3>2. CASE i # id
      <4>1. i \in 1 .. max_thread_id_ /\ i \notin free
        BY <2>2, <3>2, <1>1, <1>3
      <4>2. PICK u \in LocalThreads : thread_id_[u] = i
        BY <4>1, <1>0 DEF IdsInv
      <4>3. u # t
        BY <4>1, <4>2, <1>2
      <4> QED BY <4>2, <4>3, <1>4
    <3> QED BY <3>1, <3>2
  <2>3. ASSUME NEW u \in LocalThreads, NEW v \in LocalThreads, state'[u] # "out",
               thread_id_'[u] = thread_id_'[v]
        PROVE  u = v
    BY <2>3, <1>0, <1>3, <1>4 DEF IdsInv
  <2> QED BY <2>1, <2>2, <2>3, <1>0, <1>1, <1>4 DEF IdsInv
<1>7. CellsInv'
  <2>1. id \in 0 .. MaxThreadId - 1 /\ id # 0
    BY <1>2, <1>3
  <2>2. cells[id] = 0
    BY <2>1, <1>0, <1>3 DEF CellsInv
  <2>3. Cardinality(raw_ptr[t]) = 0
    BY <1>2, FS_EmptySet
  <2>4. ASSUME NEW i \in 0 .. MaxThreadId - 1, i = 0 \/ \A u \in LocalThreads : thread_id_'[u] # i
        PROVE  cells[i] = 0
    <3>1. i = 0 \/ \A u \in LocalThreads : u # t => thread_id_[u] # i
      BY <2>4, <1>4
    <3> QED BY <3>1, <1>0, <1>2 DEF CellsInv
  <2> QED BY <2>2, <2>3, <2>4, <1>0, <1>1, <1>4 DEF CellsInv
<1>8. SumInv'
  BY <1>0, <1>1, SameSum
<1> QED BY <1>5, <1>6, <1>7, <1>8 DEF LocalsInv

(* An object is made for a slot that has none.                              *)
LEMMA InitLocalKeeps ==
  ASSUME LocalsOK, LocalsInv, NEW t \in LocalThreads, NEW s \in Slots, Locals!InitLocal(t, s)
  PROVE  LocalsInv'
<1>0. LocalsTypes /\ IdsInv /\ CellsInv /\ SumInv
  BY DEF LocalsInv
<1>1. /\ state[t] = "run" /\ s \notin raw_ptr[t] /\ Locals!add(t, 1)
      /\ raw_ptr' = [raw_ptr EXCEPT ![t] = raw_ptr[t] \cup {s}]
      /\ destructors' = [destructors EXCEPT ![t] = destructors[t] \cup {s}]
      /\ UNCHANGED <<unused_thread_ids_, max_thread_id_, thread_id_, state>>
  BY DEF Locals!InitLocal, Locals!ids
<1>2. /\ SumInv' /\ cells' \in [0 .. MaxThreadId - 1 -> Int] /\ total' \in Int
      /\ sum' \in [next : 0 .. MaxThreadId, res : Int, low : Int, drop : Nat]
      /\ cells'[thread_id_[t]] = cells[thread_id_[t]] + 1
      /\ \A i \in 0 .. MaxThreadId - 1 : i # thread_id_[t] => cells'[i] = cells[i]
  BY <1>0, <1>1, AddKeepsSum
<1>3. /\ raw_ptr' \in [LocalThreads -> SUBSET Slots] /\ destructors' = raw_ptr'
      /\ raw_ptr'[t] = raw_ptr[t] \cup {s} /\ \A u \in LocalThreads : u # t => raw_ptr'[u] = raw_ptr[u]
  BY <1>0, <1>1 DEF LocalsTypes
<1>4. Cardinality(raw_ptr'[t]) = Cardinality(raw_ptr[t]) + 1
  <2>1. IsFiniteSet(raw_ptr[t])
    BY <1>0, FS_Subset DEF LocalsOK, LocalsTypes
  <2> QED BY <2>1, <1>1, <1>3, FS_AddElement
<1>5. LocalsTypes' /\ IdsInv'
  BY <1>0, <1>1, <1>2, <1>3 DEF LocalsTypes, IdsInv
<1>6. CellsInv'
  <2>1. thread_id_[t] \in 0 .. MaxThreadId - 1 /\ thread_id_[t] # 0
    BY <1>0, <1>1, IdsAreCells
  <2>2. ASSUME NEW u \in LocalThreads, state[u] # "out" PROVE cells'[thread_id_[u]] = Cardinality(raw_ptr'[u])
    <3>1. CASE u = t
      BY <3>1, <1>0, <1>1, <1>2, <1>4 DEF CellsInv
    <3>2. CASE u # t
      <4>1. thread_id_[u] \in 0 .. MaxThreadId - 1 /\ thread_id_[u] # thread_id_[t]
        BY <2>2, <3>2, <1>0, IdsAreCells DEF IdsInv
      <4> QED BY <2>2, <3>2, <4>1, <1>0, <1>2, <1>3 DEF CellsInv
    <3> QED BY <3>1, <3>2
  <2> QED BY <2>1, <2>2, <1>0, <1>1, <1>2 DEF CellsInv
<1> QED BY <1>2, <1>5, <1>6 DEF LocalsInv

(* The destructor of one object.                                            *)
LEMMA DestroyKeeps ==
  ASSUME LocalsOK, LocalsInv, NEW t \in LocalThreads, Locals!Destroy(t)
  PROVE  LocalsInv'
<1>0. LocalsTypes /\ IdsInv /\ CellsInv /\ SumInv
  BY DEF LocalsInv
<1>1. PICK s \in destructors[t] :
        /\ destructors' = [destructors EXCEPT ![t] = destructors[t] \ {s}]
        /\ raw_ptr' = [raw_ptr EXCEPT ![t] = raw_ptr[t] \ {s}]
  BY DEF Locals!Destroy
<1>2. /\ state[t] = "clear" /\ Locals!add(t, -1)
      /\ UNCHANGED <<unused_thread_ids_, max_thread_id_, thread_id_, state>>
  BY DEF Locals!Destroy, Locals!ids
<1>3. /\ SumInv' /\ cells' \in [0 .. MaxThreadId - 1 -> Int] /\ total' \in Int
      /\ sum' \in [next : 0 .. MaxThreadId, res : Int, low : Int, drop : Nat]
      /\ cells'[thread_id_[t]] = cells[thread_id_[t]] + (-1)
      /\ \A i \in 0 .. MaxThreadId - 1 : i # thread_id_[t] => cells'[i] = cells[i]
  BY <1>0, <1>2, AddKeepsSum
<1>4. /\ raw_ptr' \in [LocalThreads -> SUBSET Slots] /\ destructors' = raw_ptr' /\ s \in raw_ptr[t]
      /\ raw_ptr'[t] = raw_ptr[t] \ {s} /\ \A u \in LocalThreads : u # t => raw_ptr'[u] = raw_ptr[u]
  BY <1>0, <1>1 DEF LocalsTypes
<1>5. Cardinality(raw_ptr'[t]) = Cardinality(raw_ptr[t]) + (-1)
  <2>1. IsFiniteSet(raw_ptr[t])
    BY <1>0, FS_Subset DEF LocalsOK, LocalsTypes
  <2>2. Cardinality(raw_ptr[t]) \in Nat
    BY <2>1, FS_CardinalityType
  <2>3. Cardinality(raw_ptr'[t]) = Cardinality(raw_ptr[t]) - 1
    BY <2>1, <1>4, FS_RemoveElement
  <2> QED BY <2>2, <2>3
<1>6. LocalsTypes' /\ IdsInv'
  BY <1>0, <1>2, <1>3, <1>4 DEF LocalsTypes, IdsInv
<1>7. CellsInv'
  <2>1. thread_id_[t] \in 0 .. MaxThreadId - 1 /\ thread_id_[t] # 0
    BY <1>0, <1>2, IdsAreCells
  <2>2. ASSUME NEW u \in LocalThreads, state[u] # "out" PROVE cells'[thread_id_[u]] = Cardinality(raw_ptr'[u])
    <3>1. CASE u = t
      BY <3>1, <1>0, <1>2, <1>3, <1>5 DEF CellsInv
    <3>2. CASE u # t
      <4>1. thread_id_[u] \in 0 .. MaxThreadId - 1 /\ thread_id_[u] # thread_id_[t]
        BY <2>2, <3>2, <1>0, IdsAreCells DEF IdsInv
      <4> QED BY <2>2, <3>2, <4>1, <1>0, <1>3, <1>4 DEF CellsInv
    <3> QED BY <3>1, <3>2
  <2> QED BY <2>1, <2>2, <1>0, <1>2, <1>3 DEF CellsInv
<1> QED BY <1>3, <1>6, <1>7 DEF LocalsInv

(* The function of a thread returns.                                        *)
LEMMA FinishKeeps ==
  ASSUME LocalsOK, LocalsInv, NEW t \in LocalThreads, Locals!Finish(t)
  PROVE  LocalsInv'
<1>0. LocalsTypes /\ IdsInv /\ CellsInv /\ SumInv
  BY DEF LocalsInv
<1>1. /\ state[t] = "run" /\ state' = [state EXCEPT ![t] = "clear"]
      /\ UNCHANGED <<unused_thread_ids_, max_thread_id_, thread_id_, raw_ptr, destructors, cells, sum, total>>
  BY DEF Locals!Finish, Locals!locals
<1>2. /\ state' \in [LocalThreads -> {"out", "run", "clear"}]
      /\ \A u \in LocalThreads : state'[u] = "out" <=> state[u] = "out"
  BY <1>0, <1>1 DEF LocalsTypes
<1>3. LocalsTypes'
  BY <1>0, <1>1, <1>2 DEF LocalsTypes
<1>4. IdsInv' /\ CellsInv'
  BY <1>0, <1>1, <1>2 DEF IdsInv, CellsInv
<1>5. SumInv'
  BY <1>0, <1>1, SameSum
<1> QED BY <1>3, <1>4, <1>5 DEF LocalsInv

(* What a thread that ends gives back is clean: its objects are gone.       *)
LEMMA ExitKeeps ==
  ASSUME LocalsOK, LocalsInv, NEW t \in LocalThreads, Locals!Exit(t)
  PROVE  LocalsInv'
<1>0. LocalsTypes /\ IdsInv /\ CellsInv /\ SumInv
  BY DEF LocalsInv
<1>1. /\ state[t] = "clear" /\ destructors[t] = {} /\ thread_id_' = [thread_id_ EXCEPT ![t] = 0]
      /\ unused_thread_ids_' = unused_thread_ids_ \cup {thread_id_[t]}
      /\ state' = [state EXCEPT ![t] = "out"]
      /\ UNCHANGED <<max_thread_id_, raw_ptr, destructors, cells, sum, total>>
  BY DEF Locals!Exit, Locals!locals
<1>2. /\ thread_id_' \in [LocalThreads -> Nat] /\ thread_id_'[t] = 0
      /\ \A u \in LocalThreads : u # t => thread_id_'[u] = thread_id_[u]
      /\ state' \in [LocalThreads -> {"out", "run", "clear"}] /\ state'[t] = "out"
      /\ \A u \in LocalThreads : u # t => state'[u] = state[u]
      /\ raw_ptr[t] = {}
  BY <1>0, <1>1 DEF LocalsTypes
<1>3. /\ thread_id_[t] \in 1 .. max_thread_id_ /\ thread_id_[t] \in 0 .. MaxThreadId - 1
      /\ \A u \in LocalThreads : u # t => thread_id_[u] # thread_id_[t]
  BY <1>0, <1>1, IdsAreCells DEF IdsInv
<1>4. LocalsTypes'
  BY <1>0, <1>1, <1>2, <1>3 DEF LocalsTypes
<1>5. IdsInv'
  <2>1. ASSUME NEW i \in 1 .. max_thread_id_, i \notin unused_thread_ids_'
        PROVE  \E u \in LocalThreads : thread_id_'[u] = i
    <3>1. PICK u \in LocalThreads : thread_id_[u] = i
      BY <2>1, <1>0, <1>1 DEF IdsInv
    <3>2. u # t
      BY <2>1, <3>1, <1>1
    <3> QED BY <3>1, <3>2, <1>2
  <2>2. ASSUME NEW u \in LocalThreads, state'[u] # "out"
        PROVE  thread_id_'[u] \in 1 .. max_thread_id_ /\ thread_id_'[u] \notin unused_thread_ids_'
    BY <2>2, <1>0, <1>1, <1>2, <1>3 DEF IdsInv
  <2>3. ASSUME NEW u \in LocalThreads, NEW v \in LocalThreads, state'[u] # "out",
               thread_id_'[u] = thread_id_'[v]
        PROVE  u = v
    <3>1. u # t /\ state[u] # "out" /\ thread_id_[u] # 0
      BY <2>3, <1>0, <1>2, IdsAreCells
    <3>2. v # t
      BY <2>3, <3>1, <1>2
    <3> QED BY <2>3, <3>1, <3>2, <1>0, <1>2 DEF IdsInv
  <2> QED BY <2>1, <2>2, <2>3, <1>0, <1>1, <1>2 DEF IdsInv
<1>6. CellsInv'
  <2>1. cells[thread_id_[t]] = 0
    BY <1>0, <1>1, <1>2, FS_EmptySet DEF CellsInv
  <2>2. ASSUME NEW i \in 0 .. MaxThreadId - 1, i = 0 \/ \A u \in LocalThreads : thread_id_'[u] # i
        PROVE  cells[i] = 0
    <3>1. CASE i = thread_id_[t]
      BY <3>1, <2>1
    <3>2. CASE i # thread_id_[t]
      <4>1. i = 0 \/ \A u \in LocalThreads : thread_id_[u] # i
        BY <2>2, <3>2, <1>2
      <4> QED BY <4>1, <1>0 DEF CellsInv
    <3> QED BY <3>1, <3>2
  <2> QED BY <2>2, <1>0, <1>1, <1>2 DEF CellsInv
<1>7. SumInv'
  BY <1>0, <1>1, SameSum
<1> QED BY <1>4, <1>5, <1>6, <1>7 DEF LocalsInv

(* Nothing has run.                                                         *)
LEMMA LocalsInit ==
  ASSUME LocalsOK, Locals!Init
  PROVE  LocalsInv
<1>1. /\ unused_thread_ids_ = {} /\ max_thread_id_ = 0
      /\ thread_id_ = [t \in LocalThreads |-> 0] /\ state = [t \in LocalThreads |-> "out"]
      /\ raw_ptr = [t \in LocalThreads |-> {}] /\ destructors = [t \in LocalThreads |-> {}]
      /\ cells = [i \in 0 .. MaxThreadId - 1 |-> 0] /\ total = 0
      /\ sum = [next |-> 0, res |-> 0, low |-> 0, drop |-> 0]
  BY DEF Locals!Init, Locals!Ids, Locals!NoSum
<1>2. 0 < MaxThreadId /\ MaxThreadId \in Nat
  <2>1. Cardinality(LocalThreads) \in Nat
    BY FS_CardinalityType DEF LocalsOK
  <2> QED BY <2>1 DEF LocalsOK
<1>3. LocalsTypes
  BY <1>1, <1>2 DEF LocalsTypes
<1>4. IdsInv /\ CellsInv
  BY <1>1 DEF IdsInv, CellsInv
<1>5. SumInv
  <2> DEFINE P == [n \in 0 .. MaxThreadId |-> 0]
  <2>1. P \in [0 .. MaxThreadId -> Int] /\ P[0] = 0 /\ P[MaxThreadId] = 0
    BY <1>2
  <2>2. ASSUME NEW i \in 0 .. MaxThreadId - 1 PROVE P[i + 1] = P[i] + cells[i]
    <3>1. i \in 0 .. MaxThreadId /\ i + 1 \in 0 .. MaxThreadId /\ cells[i] = 0
      BY <1>1, <1>2
    <3> QED BY <3>1
  <2> HIDE DEF P
  <2>3. P \in Sums
    BY <2>1, <2>2 DEF Sums, SumsOf
  <2>4. SumIs(P)
    BY <1>1, <2>1 DEF SumIs
  <2> QED BY <2>3, <2>4 DEF SumInv
<1> QED BY <1>3, <1>4, <1>5 DEF LocalsInv

(* A step that is not of ThreadLocals.                                      *)
LEMMA LocalsStays ==
  ASSUME LocalsInv, UNCHANGED localVars
  PROVE  LocalsInv'
<1>1. UNCHANGED <<unused_thread_ids_, max_thread_id_, thread_id_, state, raw_ptr, destructors, cells,
                  sum, total>>
  BY DEF localVars
<1>2. LocalsTypes'
  BY <1>1 DEF LocalsInv, LocalsTypes
<1>3. IdsInv' /\ CellsInv'
  BY <1>1 DEF LocalsInv, IdsInv, CellsInv
<1>4. SumInv'
  BY <1>1, SameSum DEF LocalsInv
<1> QED BY <1>2, <1>3, <1>4 DEF LocalsInv

(* And those that are.                                                      *)
LEMMA LocalsStep ==
  ASSUME LocalsOK, LocalsInv, Locals!Next
  PROVE  LocalsInv'
<1>1. CASE Locals!SumCell
  BY <1>1, SumCellKeeps
<1>2. CASE \E t \in LocalThreads :
             \/ Locals!Start(t) \/ Locals!Finish(t) \/ Locals!Exit(t) \/ Locals!Destroy(t)
             \/ \E s \in Slots : Locals!InitLocal(t, s)
  BY <1>2, StartKeeps, FinishKeeps, ExitKeeps, DestroyKeeps, InitLocalKeeps
<1> QED BY <1>1, <1>2 DEF Locals!Next

(* What the model says of it.                                               *)
LEMMA LocalsSays ==
  ASSUME LocalsOK, LocalsInv
  PROVE  Locals!IdsAreOwn /\ Locals!CellsAreOwn /\ Locals!SumIsNear
<1>0. LocalsTypes /\ IdsInv /\ CellsInv /\ SumInv
  BY DEF LocalsInv
<1>1. Locals!IdsAreOwn
  <2> DEFINE running == {t \in LocalThreads : state[t] # "out"}
  <2>1. \A t, u \in running : t # u => thread_id_[t] # thread_id_[u]
    BY <1>0 DEF IdsInv
  <2>2. {thread_id_[t] : t \in running} = (1 .. max_thread_id_) \ unused_thread_ids_
    <3>1. ASSUME NEW t \in running PROVE thread_id_[t] \in (1 .. max_thread_id_) \ unused_thread_ids_
      BY <1>0 DEF IdsInv
    <3>2. ASSUME NEW i \in (1 .. max_thread_id_) \ unused_thread_ids_ PROVE \E t \in running : thread_id_[t] = i
      <4>1. PICK t \in LocalThreads : thread_id_[t] = i
        BY <1>0 DEF IdsInv
      <4>2. state[t] # "out"
        BY <4>1, <1>0 DEF IdsInv, LocalsTypes
      <4> QED BY <4>1, <4>2
    <3> QED BY <3>1, <3>2
  <2> QED BY <2>1, <2>2, <1>0 DEF Locals!IdsAreOwn, LocalsTypes
<1>2. Locals!CellsAreOwn
  <2>1. ASSUME NEW i \in 0 .. MaxThreadId - 1, NEW t \in LocalThreads, i # 0, thread_id_[t] = i
        PROVE  cells[i] = Cardinality(raw_ptr[t])
    BY <2>1, <1>0 DEF IdsInv, CellsInv
  <2>2. ASSUME NEW i \in 0 .. MaxThreadId - 1, ~\E t \in LocalThreads : i # 0 /\ thread_id_[t] = i
        PROVE  cells[i] = 0
    BY <2>2, <1>0 DEF CellsInv
  <2> QED BY <2>1, <2>2, LocalsCardinality DEF Locals!CellsAreOwn, Locals!Ids
<1>3. Locals!SumIsNear
  <2> SUFFICES ASSUME sum.next = MaxThreadId PROVE sum.res \in (sum.low - sum.drop) .. (total + sum.drop)
    BY DEF Locals!SumIsNear
  <2>1. PICK P \in Sums : SumIs(P)
    BY <1>0 DEF SumInv
  <2>2. /\ sum.res \in Int /\ sum.low \in Int /\ sum.drop \in Int /\ total \in Int /\ MaxThreadId > 0
    <3>1. Cardinality(LocalThreads) \in Nat
      BY FS_CardinalityType DEF LocalsOK
    <3> QED BY <3>1, <1>0 DEF LocalsOK, LocalsTypes
  <2>3. P[MaxThreadId] = total /\ sum.res <= total + sum.drop /\ sum.low - sum.drop <= sum.res + total - total
    BY <2>1, <2>2 DEF SumIs
  <2> QED BY <2>2, <2>3
<1> QED BY <1>1, <1>2, <1>3

(* ThreadLocals, for every number of threads, of slots and of starts, and   *)
(* of cells as long as they are more than the threads: running threads have *)
(* ids of their own, a cell is clean when a thread gets it, and the sum is  *)
(* what the counter was, but for what changed while it was read.            *)
THEOREM LocalsHoldCorrect == MCSpec => []LocalsHold
<1> DEFINE I == part = "Locals" => LocalsInv
<1>1. MCInit => I
  BY LocalsAssumption, LocalsInit DEF MCInit
<1>2. I /\ [MCNext]_mc_vars => I'
  <2> SUFFICES ASSUME I, [MCNext]_mc_vars PROVE I'
    OBVIOUS
  <2>1. CASE UNCHANGED mc_vars
    BY <2>1, LocalsStays DEF mc_vars
  <2>2. CASE MCNext
    <3>1. UNCHANGED part
      BY <2>2 DEF MCNext
    <3>2. ASSUME part = "Locals" PROVE LocalsInv'
      BY <2>2, <3>2, LocalsAssumption, LocalsStep DEF MCNext
    <3> QED BY <3>1, <3>2
  <2> QED BY <2>1, <2>2
<1>3. I => LocalsHold
  BY LocalsAssumption, LocalsSays DEF LocalsHold
<1> QED BY <1>1, <1>2, <1>3, PTL DEF MCSpec

----------------------------------------------------------------------------
(* Proofs: TsList                                                          *)

(* TsList: the root is none of the nodes.  CancellationToken: a bound on    *)
(* the flags that are made.                                                *)
RingOK == List!Root \notin Nodes
TokenOK == MaxRaws \in Nat
ASSUME LinksAssumption == RingOK /\ TokenOK

(* Links nx and pv are the ring of the m nodes of r, from the root to the   *)
(* root, and the other nodes are linked to themselves.                      *)
RingLinks == [List!Ring -> List!Ring]
IsRing(nx, pv, r, m) ==
  /\ m \in Nat /\ nx \in RingLinks /\ pv \in RingLinks
  /\ r \in [0 .. m + 1 -> List!Ring] /\ r[0] = List!Root /\ r[m + 1] = List!Root
  /\ \A i \in 1 .. m : r[i] \in Nodes
  /\ \A i, j \in 1 .. m : r[i] = r[j] => i = j
  /\ \A i \in 0 .. m : nx[r[i]] = r[i + 1] /\ pv[r[i + 1]] = r[i]
  /\ \A n \in Nodes : (\A i \in 1 .. m : r[i] # n) => nx[n] = n /\ pv[n] = n
Less(r, m, j) == [i \in 0 .. m |-> IF i < j THEN r[i] ELSE r[i + 1]]
More(r, m, j, x) == [i \in 0 .. m + 2 |-> IF i <= j THEN r[i] ELSE IF i = j + 1 THEN x ELSE r[i - 1]]

(* No two places of a ring are the same, but the root at both ends.         *)
LEMMA RingPlaces ==
  ASSUME RingOK, NEW nx, NEW pv, NEW r, NEW m, IsRing(nx, pv, r, m)
  PROVE  /\ \A i, j \in 0 .. m : r[i] = r[j] => i = j
         /\ \A i, j \in 1 .. m + 1 : r[i] = r[j] => i = j
<1>1. m \in Nat
  BY DEF IsRing
<1>2. \A i \in 1 .. m : r[i] # List!Root
  BY DEF IsRing, RingOK
<1>3. \A i \in 0 .. m : i = 0 \/ i \in 1 .. m
  BY <1>1
<1>4. \A i \in 1 .. m + 1 : i = m + 1 \/ i \in 1 .. m
  BY <1>1
<1> QED BY <1>2, <1>3, <1>4 DEF IsRing

(* ListNode::remove, of the node at place j.                                *)
LEMMA RingOut ==
  ASSUME RingOK, NEW nx, NEW pv, NEW r, NEW m, IsRing(nx, pv, r, m), NEW j \in 1 .. m,
         NEW mx, NEW mv,
         mx = [nx EXCEPT ![pv[r[j]]] = nx[r[j]], ![r[j]] = r[j]],
         mv = [pv EXCEPT ![nx[r[j]]] = pv[r[j]], ![r[j]] = r[j]]
  PROVE  IsRing(mx, mv, Less(r, m, j), m - 1)
<1> DEFINE s == Less(r, m, j)
<1>1. /\ m \in Nat /\ nx \in RingLinks /\ pv \in RingLinks
      /\ r \in [0 .. m + 1 -> List!Ring] /\ r[0] = List!Root /\ r[m + 1] = List!Root
      /\ \A i \in 1 .. m : r[i] \in Nodes
      /\ \A i \in 0 .. m : nx[r[i]] = r[i + 1] /\ pv[r[i + 1]] = r[i]
      /\ \A n \in Nodes : (\A i \in 1 .. m : r[i] # n) => nx[n] = n /\ pv[n] = n
  BY DEF IsRing
<1>2. /\ \A i, k \in 0 .. m : r[i] = r[k] => i = k
      /\ \A i, k \in 1 .. m + 1 : r[i] = r[k] => i = k
  BY RingPlaces
<1>3. /\ j - 1 \in 0 .. m /\ j \in 0 .. m /\ j + 1 \in 1 .. m + 1 /\ (j - 1) + 1 = j /\ j \in 1 .. m + 1
      /\ j - 1 \in 0 .. m + 1 /\ j + 1 \in 0 .. m + 1 /\ m - 1 \in Nat /\ (m - 1) + 1 = m
  BY <1>1
<1>4. /\ nx[r[j]] = r[j + 1] /\ pv[r[j]] = r[j - 1]
      /\ r[j] \in List!Ring /\ r[j - 1] \in List!Ring /\ r[j + 1] \in List!Ring
  <2>1. nx[r[j]] = r[j + 1]
    BY <1>1, <1>3
  <2>2. pv[r[(j - 1) + 1]] = r[j - 1]
    BY <1>1, <1>3
  <2> QED BY <2>1, <2>2, <1>1, <1>3
<1>5. r[j - 1] # r[j] /\ r[j + 1] # r[j]
  <2>1. j - 1 # j /\ j + 1 # j
    BY <1>3
  <2> QED BY <2>1, <1>2, <1>3
<1>6. /\ mx \in RingLinks /\ mx[r[j - 1]] = r[j + 1] /\ mx[r[j]] = r[j]
      /\ \A n \in List!Ring : n # r[j - 1] /\ n # r[j] => mx[n] = nx[n]
  BY <1>1, <1>4, <1>5 DEF RingLinks
<1>7. /\ mv \in RingLinks /\ mv[r[j + 1]] = r[j - 1] /\ mv[r[j]] = r[j]
      /\ \A n \in List!Ring : n # r[j + 1] /\ n # r[j] => mv[n] = pv[n]
  BY <1>1, <1>4, <1>5 DEF RingLinks
<1>8. /\ \A i \in 0 .. m : i < j => s[i] = r[i]
      /\ \A i \in 0 .. m : ~(i < j) => s[i] = r[i + 1]
  BY DEF Less
<1>9. s \in [0 .. m -> List!Ring]
  <2>1. \A i \in 0 .. m : r[i] \in List!Ring /\ r[i + 1] \in List!Ring
    BY <1>1
  <2> QED BY <2>1 DEF Less
<1>10. s[0] = List!Root /\ s[m] = List!Root
  <2>1. 0 \in 0 .. m /\ 0 < j /\ m \in 0 .. m /\ ~(m < j)
    BY <1>1
  <2> QED BY <2>1, <1>1, <1>8
<1> HIDE DEF s
<1>11. ASSUME NEW i \in 1 .. m - 1
       PROVE  s[i] \in Nodes /\ s[i] # r[j] /\ \E k \in 1 .. m : s[i] = r[k] /\ k = (IF i < j THEN i ELSE i + 1)
  <2>1. i \in 0 .. m /\ i \in 1 .. m /\ i + 1 \in 1 .. m
    BY <1>1
  <2>2. CASE i < j
    <3>1. s[i] = r[i] /\ i # j
      BY <2>1, <2>2, <1>8
    <3> QED BY <2>1, <2>2, <3>1, <1>1, <1>2, <1>3
  <2>3. CASE ~(i < j)
    <3>1. s[i] = r[i + 1] /\ i + 1 # j
      BY <2>1, <2>3, <1>8
    <3> QED BY <2>1, <2>3, <3>1, <1>1, <1>2, <1>3
  <2> QED BY <2>2, <2>3
<1>12. ASSUME NEW i \in 1 .. m - 1, NEW k \in 1 .. m - 1, s[i] = s[k] PROVE i = k
  <2>1. PICK x \in 1 .. m : s[i] = r[x] /\ x = (IF i < j THEN i ELSE i + 1)
    BY <1>11
  <2>2. PICK y \in 1 .. m : s[k] = r[y] /\ y = (IF k < j THEN k ELSE k + 1)
    BY <1>11
  <2>3. x = y
    BY <2>1, <2>2, <1>12 DEF IsRing
  <2> QED BY <2>1, <2>2, <2>3
<1>13. ASSUME NEW i \in 0 .. m - 1 PROVE mx[s[i]] = s[i + 1] /\ mv[s[i + 1]] = s[i]
  <2>0. i \in 0 .. m /\ i + 1 \in 0 .. m /\ i + 1 \in 1 .. m + 1
    BY <1>1
  <2>1. CASE i + 1 < j
    <3>1. i < j /\ s[i] = r[i] /\ s[i + 1] = r[i + 1]
      BY <2>0, <2>1, <1>8
    <3>2. i # j - 1 /\ i # j /\ i + 1 # j + 1 /\ i + 1 # j
      BY <2>0, <2>1
    <3>3. r[i] # r[j - 1] /\ r[i] # r[j] /\ r[i + 1] # r[j + 1] /\ r[i + 1] # r[j]
      BY <2>0, <3>2, <1>2, <1>3
    <3>4. r[i] \in List!Ring /\ r[i + 1] \in List!Ring
      BY <1>9, <3>1, <2>0
    <3> QED BY <2>0, <3>1, <3>3, <3>4, <1>1, <1>6, <1>7
  <2>2. CASE i + 1 = j
    <3>1. i < j /\ ~(i + 1 < j) /\ i = j - 1 /\ (i + 1) + 1 = j + 1
      BY <2>0, <2>2
    <3>2. s[i] = r[j - 1] /\ s[i + 1] = r[j + 1]
      BY <2>0, <3>1, <1>8
    <3> QED BY <3>2, <1>6, <1>7
  <2>3. CASE ~(i + 1 < j) /\ i + 1 # j
    <3>1. ~(i < j) /\ ~(i + 1 < j) /\ (i + 1) + 1 \in 1 .. m + 1
      BY <2>0, <2>3, <1>1
    <3>2. s[i] = r[i + 1] /\ s[i + 1] = r[(i + 1) + 1]
      BY <2>0, <3>1, <1>8
    <3>3. i + 1 # j - 1 /\ i + 1 # j /\ (i + 1) + 1 # j + 1 /\ (i + 1) + 1 # j
      BY <2>0, <2>3
    <3>4. r[i + 1] # r[j - 1] /\ r[i + 1] # r[j] /\ r[(i + 1) + 1] # r[j + 1] /\ r[(i + 1) + 1] # r[j]
      BY <2>0, <3>1, <3>3, <1>2, <1>3
    <3>5. r[i + 1] \in List!Ring /\ r[(i + 1) + 1] \in List!Ring
      BY <1>9, <3>2, <2>0
    <3>6. nx[r[i + 1]] = r[(i + 1) + 1] /\ pv[r[(i + 1) + 1]] = r[i + 1]
      BY <1>1, <2>0
    <3> QED BY <3>2, <3>4, <3>5, <3>6, <1>6, <1>7
  <2> QED BY <2>1, <2>2, <2>3
<1>14. ASSUME NEW n \in Nodes, \A i \in 1 .. m - 1 : s[i] # n PROVE mx[n] = n /\ mv[n] = n
  <2>1. CASE n = r[j]
    BY <2>1, <1>6, <1>7
  <2>2. CASE n # r[j]
    <3>1. ASSUME NEW i \in 1 .. m PROVE r[i] # n
      <4>1. CASE i = j
        BY <4>1, <2>2
      <4>2. CASE i < j
        <5>1. i \in 1 .. m - 1 /\ i \in 0 .. m
          BY <4>2, <1>1
        <5> QED BY <4>2, <5>1, <1>8, <1>14
      <4>3. CASE i > j
        <5>1. i - 1 \in 1 .. m - 1 /\ i - 1 \in 0 .. m /\ (i - 1) + 1 = i /\ ~(i - 1 < j)
          BY <4>3, <1>1
        <5>2. s[i - 1] = r[i]
          BY <5>1, <1>8
        <5> QED BY <5>1, <5>2, <1>14
      <4> QED BY <4>1, <4>2, <4>3
    <3>2. nx[n] = n /\ pv[n] = n
      BY <3>1, <1>1
    <3>3. n # List!Root /\ n \in List!Ring
      BY DEF RingOK, List!Ring
    <3>4. n # r[j - 1]
      <4>1. j - 1 = 0 \/ j - 1 \in 1 .. m
        BY <1>3
      <4> QED BY <4>1, <3>1, <3>3, <1>1
    <3>5. n # r[j + 1]
      <4>1. j + 1 = m + 1 \/ j + 1 \in 1 .. m
        BY <1>3
      <4> QED BY <4>1, <3>1, <3>3, <1>1
    <3> QED BY <2>2, <3>2, <3>3, <3>4, <3>5, <1>6, <1>7
  <2> QED BY <2>1, <2>2
<1> QED BY <1>3, <1>6, <1>7, <1>9, <1>10, <1>11, <1>12, <1>13, <1>14 DEF IsRing, s

(* ListNode::put_unsafe, of a node that is outside, after place j.          *)
LEMMA RingIn ==
  ASSUME RingOK, NEW nx, NEW pv, NEW r, NEW m, IsRing(nx, pv, r, m), NEW j \in 0 .. m,
         NEW x \in Nodes, \A i \in 1 .. m : r[i] # x, NEW mx, NEW mv,
         mx = [nx EXCEPT ![x] = nx[r[j]], ![r[j]] = x],
         mv = [pv EXCEPT ![nx[r[j]]] = x, ![x] = r[j]]
  PROVE  IsRing(mx, mv, More(r, m, j, x), m + 1)
<1> DEFINE s == More(r, m, j, x)
<1>1. /\ m \in Nat /\ nx \in RingLinks /\ pv \in RingLinks
      /\ r \in [0 .. m + 1 -> List!Ring] /\ r[0] = List!Root /\ r[m + 1] = List!Root
      /\ \A i \in 1 .. m : r[i] \in Nodes
      /\ \A i \in 0 .. m : nx[r[i]] = r[i + 1] /\ pv[r[i + 1]] = r[i]
      /\ \A n \in Nodes : (\A i \in 1 .. m : r[i] # n) => nx[n] = n /\ pv[n] = n
  BY DEF IsRing
<1>2. /\ \A i, k \in 0 .. m : r[i] = r[k] => i = k
      /\ \A i, k \in 1 .. m + 1 : r[i] = r[k] => i = k
  BY RingPlaces
<1>3. /\ j \in 0 .. m /\ j + 1 \in 1 .. m + 1 /\ j + 1 \in 0 .. m + 1 /\ j \in 0 .. m + 1
      /\ m + 1 \in Nat /\ (m + 1) + 1 = m + 2
  BY <1>1
<1>4. /\ nx[r[j]] = r[j + 1] /\ r[j] \in List!Ring /\ r[j + 1] \in List!Ring
      /\ x \in List!Ring /\ x # List!Root
  BY <1>1, <1>3 DEF List!Ring, RingOK
<1>5. \A i \in 0 .. m + 1 : r[i] # x
  <2> TAKE i \in 0 .. m + 1
  <2>1. i = 0 \/ i = m + 1 \/ i \in 1 .. m
    BY <1>1
  <2> QED BY <2>1, <1>1, <1>4
<1>6. r[j] # x /\ r[j + 1] # x
  BY <1>3, <1>5
<1>7. /\ mx \in RingLinks /\ mx[r[j]] = x /\ mx[x] = r[j + 1]
      /\ \A n \in List!Ring : n # x /\ n # r[j] => mx[n] = nx[n]
  BY <1>1, <1>4, <1>6 DEF RingLinks
<1>8. /\ mv \in RingLinks /\ mv[r[j + 1]] = x /\ mv[x] = r[j]
      /\ \A n \in List!Ring : n # x /\ n # r[j + 1] => mv[n] = pv[n]
  BY <1>1, <1>4, <1>6 DEF RingLinks
<1>9. /\ \A i \in 0 .. m + 2 : i <= j => s[i] = r[i]
      /\ \A i \in 0 .. m + 2 : i = j + 1 => s[i] = x
      /\ \A i \in 0 .. m + 2 : i > j + 1 => s[i] = r[i - 1]
  <2>1. \A i \in 0 .. m + 2 : (i = j + 1 => ~(i <= j)) /\ (i > j + 1 => ~(i <= j) /\ i # j + 1)
    BY <1>3
  <2> QED BY <2>1 DEF More
<1>10. s \in [0 .. m + 2 -> List!Ring]
  <2>1. ASSUME NEW i \in 0 .. m + 2
        PROVE  (IF i <= j THEN r[i] ELSE IF i = j + 1 THEN x ELSE r[i - 1]) \in List!Ring
    <3>1. CASE i <= j
      <4>1. i \in 0 .. m + 1
        BY <3>1, <1>3
      <4> QED BY <3>1, <4>1, <1>1
    <3>2. CASE ~(i <= j) /\ i = j + 1
      BY <3>2, <1>4
    <3>3. CASE ~(i <= j) /\ i # j + 1
      <4>1. i - 1 \in 0 .. m + 1
        BY <3>3, <1>1, <1>3
      <4> QED BY <3>3, <4>1, <1>1
    <3> QED BY <3>1, <3>2, <3>3
  <2> QED BY <2>1 DEF More
<1>11. s[0] = List!Root /\ s[m + 2] = List!Root
  <2>1. 0 \in 0 .. m + 2 /\ 0 <= j /\ m + 2 \in 0 .. m + 2 /\ m + 2 > j + 1 /\ (m + 2) - 1 = m + 1
    BY <1>1, <1>3
  <2>2. s[m + 2] = r[m + 1]
    BY <2>1, <1>9
  <2> QED BY <2>1, <2>2, <1>1, <1>9
<1> HIDE DEF s
<1>12. ASSUME NEW i \in 1 .. m + 1
       PROVE  /\ s[i] \in Nodes
              /\ \/ i = j + 1 /\ s[i] = x
                 \/ \E k \in 1 .. m : s[i] = r[k] /\ i # j + 1 /\ k = (IF i <= j THEN i ELSE i - 1)
  <2>0. i \in 0 .. m + 2
    BY <1>1
  <2>1. CASE i <= j
    <3>1. i \in 1 .. m /\ i # j + 1
      BY <2>1, <1>1, <1>3
    <3> QED BY <2>0, <2>1, <3>1, <1>1, <1>9
  <2>2. CASE i = j + 1
    BY <2>0, <2>2, <1>9
  <2>3. CASE i > j + 1
    <3>1. i - 1 \in 1 .. m /\ i # j + 1 /\ ~(i <= j)
      BY <2>3, <1>1, <1>3
    <3> QED BY <2>0, <2>3, <3>1, <1>1, <1>9
  <2>4. i <= j \/ i = j + 1 \/ i > j + 1
    BY <1>3
  <2> QED BY <2>1, <2>2, <2>3, <2>4
<1>13. ASSUME NEW i \in 1 .. m + 1, NEW k \in 1 .. m + 1, s[i] = s[k] PROVE i = k
  <2>1. CASE i = j + 1
    <3>1. s[i] = x
      BY <2>1, <1>12, <1>5
    <3>2. ASSUME NEW y \in 1 .. m PROVE s[k] # r[y]
      BY <3>1, <1>13
    <3>3. k = j + 1
      BY <3>2, <1>12
    <3> QED BY <2>1, <3>3
  <2>2. CASE i # j + 1
    <3>1. PICK y \in 1 .. m : s[i] = r[y] /\ y = (IF i <= j THEN i ELSE i - 1)
      BY <2>2, <1>12
    <3>2. s[k] # x
      BY <3>1, <1>13
    <3>3. PICK z \in 1 .. m : s[k] = r[z] /\ k # j + 1 /\ z = (IF k <= j THEN k ELSE k - 1)
      BY <3>2, <1>12
    <3>4. y = z
      BY <3>1, <3>3, <1>13 DEF IsRing
    <3> QED BY <2>2, <3>1, <3>3, <3>4, <1>3
  <2> QED BY <2>1, <2>2
<1>14. ASSUME NEW i \in 0 .. m + 1 PROVE mx[s[i]] = s[i + 1] /\ mv[s[i + 1]] = s[i]
  <2>0. i \in 0 .. m + 2 /\ i + 1 \in 0 .. m + 2
    BY <1>1
  <2>1. CASE i < j
    <3>1. i <= j /\ i + 1 <= j /\ i # j /\ i + 1 # j + 1 /\ i \in 0 .. m /\ i + 1 \in 1 .. m + 1
          /\ i + 1 \in 0 .. m + 1 /\ i \in 0 .. m + 1
      BY <2>1, <1>1, <1>3
    <3>2. s[i] = r[i] /\ s[i + 1] = r[i + 1]
      BY <2>0, <3>1, <1>9
    <3>3. r[i] # r[j] /\ r[i + 1] # r[j + 1] /\ r[i] # x /\ r[i + 1] # x
      BY <3>1, <1>2, <1>3, <1>5
    <3>4. r[i] \in List!Ring /\ r[i + 1] \in List!Ring /\ nx[r[i]] = r[i + 1] /\ pv[r[i + 1]] = r[i]
      BY <3>1, <1>1
    <3> QED BY <3>2, <3>3, <3>4, <1>7, <1>8
  <2>2. CASE i = j
    <3>1. i <= j /\ i + 1 = j + 1
      BY <2>2, <1>3
    <3>2. s[i] = r[j] /\ s[i + 1] = x
      BY <2>0, <2>2, <3>1, <1>9
    <3> QED BY <3>2, <1>7, <1>8
  <2>3. CASE i = j + 1
    <3>1. i + 1 > j + 1 /\ (i + 1) - 1 = j + 1
      BY <2>3, <1>3
    <3>2. s[i] = x /\ s[i + 1] = r[j + 1]
      BY <2>0, <2>3, <3>1, <1>9
    <3> QED BY <3>2, <1>7, <1>8
  <2>4. CASE i > j + 1
    <3>1. /\ i + 1 > j + 1 /\ (i + 1) - 1 = i /\ (i - 1) + 1 = i /\ i - 1 \in 0 .. m /\ i \in 1 .. m + 1
          /\ i - 1 # j /\ i # j + 1 /\ i - 1 \in 0 .. m + 1
      BY <2>4, <1>1, <1>3
    <3>2. s[i] = r[i - 1] /\ s[i + 1] = r[i]
      BY <2>0, <2>4, <3>1, <1>9
    <3>3. r[i - 1] # r[j] /\ r[i] # r[j + 1] /\ r[i - 1] # x /\ r[i] # x
      BY <3>1, <1>2, <1>3, <1>5
    <3>4. r[i - 1] \in List!Ring /\ r[i] \in List!Ring
      BY <3>1, <1>1
    <3>5. nx[r[i - 1]] = r[(i - 1) + 1] /\ pv[r[(i - 1) + 1]] = r[i - 1]
      BY <3>1, <1>1
    <3> QED BY <3>1, <3>2, <3>3, <3>4, <3>5, <1>7, <1>8
  <2>5. i < j \/ i = j \/ i = j + 1 \/ i > j + 1
    BY <1>3
  <2> QED BY <2>1, <2>2, <2>3, <2>4, <2>5
<1>15. ASSUME NEW n \in Nodes, \A i \in 1 .. m + 1 : s[i] # n PROVE mx[n] = n /\ mv[n] = n
  <2>1. n # x
    <3>1. j + 1 \in 0 .. m + 2
      BY <1>1, <1>3
    <3>2. s[j + 1] = x
      BY <3>1, <1>9
    <3> QED BY <3>2, <1>3, <1>15
  <2>2. ASSUME NEW i \in 1 .. m PROVE r[i] # n
    <3>1. CASE i <= j
      <4>1. i \in 1 .. m + 1 /\ i \in 0 .. m + 2
        BY <1>1
      <4> QED BY <3>1, <4>1, <1>9, <1>15
    <3>2. CASE ~(i <= j)
      <4>1. i + 1 \in 1 .. m + 1 /\ i + 1 \in 0 .. m + 2 /\ i + 1 > j + 1 /\ (i + 1) - 1 = i
        BY <3>2, <1>1, <1>3
      <4>2. s[i + 1] = r[i]
        BY <4>1, <1>9
      <4> QED BY <4>1, <4>2, <1>15
    <3> QED BY <3>1, <3>2
  <2>3. nx[n] = n /\ pv[n] = n
    BY <2>2, <1>1
  <2>4. n # List!Root /\ n \in List!Ring
    BY DEF RingOK, List!Ring
  <2>5. n # r[j] /\ n # r[j + 1]
    <3>1. j = 0 \/ j \in 1 .. m
      BY <1>1
    <3>2. j + 1 = m + 1 \/ j + 1 \in 1 .. m
      BY <1>1
    <3> QED BY <3>1, <3>2, <2>2, <2>4, <1>1
  <2> QED BY <2>1, <2>3, <2>4, <2>5, <1>7, <1>8
<1> QED BY <1>3, <1>7, <1>8, <1>10, <1>11, <1>12, <1>13, <1>14, <1>15 DEF IsRing, s

(* The elements q of the list are those of the nodes of the ring r, in      *)
(* order, and ln is the set of these nodes.                                 *)
IsList(nx, pv, r, m, q, dt, ln) ==
  /\ IsRing(nx, pv, r, m) /\ q \in Seq(Nat) /\ Len(q) = m
  /\ \A i \in 1 .. m : dt[r[i]] = q[i]
  /\ ln = {r[i] : i \in 1 .. m}

(* The links after the removal of n and after the insertion of x, and the   *)
(* elements without the one at place j and with e after it.                *)
Unlinks(nx, pv, n, mx, mv) ==
  /\ mx = [nx EXCEPT ![pv[n]] = nx[n], ![n] = n]
  /\ mv = [pv EXCEPT ![nx[n]] = pv[n], ![n] = n]
Inserts(nx, pv, a, x, mx, mv) ==
  /\ mx = [nx EXCEPT ![x] = nx[a], ![a] = x]
  /\ mv = [pv EXCEPT ![nx[a]] = x, ![x] = a]
Shorter(q, m, j, p) ==
  /\ p \in Seq(Nat) /\ Len(p) = m - 1
  /\ \A i \in 1 .. m - 1 : p[i] = (IF i < j THEN q[i] ELSE q[i + 1])
Longer(q, m, j, e, p) ==
  /\ p \in Seq(Nat) /\ Len(p) = m + 1
  /\ \A i \in 1 .. m + 1 : p[i] = (IF i <= j THEN q[i] ELSE IF i = j + 1 THEN e ELSE q[i - 1])

(* A function of the first naturals is the sequence of its values.          *)
LEMMA IsSequence ==
  ASSUME NEW k \in Nat, NEW f \in [1 .. k -> Nat]
  PROVE  f \in Seq(Nat) /\ Len(f) = k
OBVIOUS

(* The list without the node at place j.                                    *)
LEMMA ListOut ==
  ASSUME RingOK, NEW nx, NEW pv, NEW r, NEW m, NEW q, NEW dt, NEW ln, IsList(nx, pv, r, m, q, dt, ln),
         NEW j \in 1 .. m, NEW mx, NEW mv,
         Unlinks(nx, pv, r[j], mx, mv), NEW p, Shorter(q, m, j, p)
  PROVE  IsList(mx, mv, Less(r, m, j), m - 1, p, dt, ln \ {r[j]})
<1> DEFINE s == Less(r, m, j)
<1>0. IsRing(nx, pv, r, m) /\ m \in Nat /\ \A i \in 1 .. m : dt[r[i]] = q[i]
  BY DEF IsList, IsRing
<1>1. IsRing(mx, mv, s, m - 1)
  BY <1>0, RingOut DEF Unlinks
<1>2. \A i \in 1 .. m - 1 : i \in 0 .. m /\ i \in 1 .. m /\ i + 1 \in 1 .. m
  BY <1>0
<1>3. \A i \in 1 .. m - 1 : s[i] = (IF i < j THEN r[i] ELSE r[i + 1])
  BY <1>2 DEF Less
<1> HIDE DEF s
<1>4. \A i \in 1 .. m - 1 : dt[s[i]] = p[i]
  BY <1>0, <1>2, <1>3 DEF Shorter
<1>5. ASSUME NEW n, n \in ln \ {r[j]} PROVE \E i \in 1 .. m - 1 : n = s[i]
  <2>1. PICK i \in 1 .. m : n = r[i]
    BY <1>5 DEF IsList
  <2>2. i # j
    BY <2>1, <1>5
  <2>3. CASE i < j
    <3>1. i \in 1 .. m - 1
      BY <2>3, <1>0
    <3> QED BY <2>1, <2>3, <3>1, <1>3
  <2>4. CASE i > j
    <3>1. i - 1 \in 1 .. m - 1 /\ ~(i - 1 < j) /\ (i - 1) + 1 = i
      BY <2>4, <1>0
    <3>2. s[i - 1] = r[i]
      BY <3>1, <1>3
    <3> QED BY <2>1, <3>1, <3>2
  <2> QED BY <2>2, <2>3, <2>4
<1>6. ASSUME NEW i \in 1 .. m - 1 PROVE s[i] \in ln \ {r[j]}
  <2>1. PICK k \in 1 .. m : s[i] = r[k] /\ k # j
    <3>1. CASE i < j
      BY <3>1, <1>2, <1>3
    <3>2. CASE ~(i < j)
      <4>1. i + 1 # j /\ i + 1 \in 1 .. m
        BY <3>2, <1>2
      <4> QED BY <4>1, <3>2, <1>3
    <3> QED BY <3>1, <3>2
  <2>2. r[k] # r[j]
    BY <2>1, <1>0 DEF IsRing
  <2> QED BY <2>1, <2>2 DEF IsList
<1>7. ln \ {r[j]} = {s[i] : i \in 1 .. m - 1}
  BY <1>5, <1>6
<1>8. p \in Seq(Nat) /\ Len(p) = m - 1
  BY DEF Shorter
<1> QED BY <1>1, <1>4, <1>7, <1>8 DEF IsList, s

(* The list with a new node after place j.                                  *)
LEMMA ListIn ==
  ASSUME RingOK, NEW nx, NEW pv, NEW r, NEW m, NEW q, NEW dt, NEW ln, IsList(nx, pv, r, m, q, dt, ln),
         NEW j \in 0 .. m, NEW x \in Nodes \ ln, NEW mx, NEW mv,
         Inserts(nx, pv, r[j], x, mx, mv), NEW et, \A n \in ln : et[n] = dt[n],
         NEW p, Longer(q, m, j, et[x], p)
  PROVE  IsList(mx, mv, More(r, m, j, x), m + 1, p, et, ln \cup {x})
<1> DEFINE s == More(r, m, j, x)
<1>0. IsRing(nx, pv, r, m) /\ m \in Nat /\ (\A i \in 1 .. m : dt[r[i]] = q[i] /\ r[i] \in ln)
      /\ ln = {r[i] : i \in 1 .. m}
  BY DEF IsList, IsRing
<1>1. IsRing(mx, mv, s, m + 1)
  <2>1. \A i \in 1 .. m : r[i] # x
    BY <1>0
  <2> QED BY <2>1, <1>0, RingIn DEF Inserts
<1>2. \A i \in 1 .. m + 1 : /\ i \in 0 .. m + 2
                            /\ i <= j => i \in 1 .. m /\ i # j + 1
                            /\ ~(i <= j) /\ i # j + 1 => i - 1 \in 1 .. m
  <2> TAKE i \in 1 .. m + 1
  <2>1. i \in 0 .. m + 2
    BY <1>0
  <2>2. i <= j => i \in 1 .. m /\ i # j + 1
    BY <1>0
  <2>3. ~(i <= j) /\ i # j + 1 => i - 1 \in 1 .. m
    BY <1>0
  <2> QED BY <2>1, <2>2, <2>3
<1>3. \A i \in 1 .. m + 1 : s[i] = (IF i <= j THEN r[i] ELSE IF i = j + 1 THEN x ELSE r[i - 1])
  BY <1>2 DEF More
<1> HIDE DEF s
<1>4. \A i \in 1 .. m + 1 : et[s[i]] = p[i]
  <2> TAKE i \in 1 .. m + 1
  <2>1. CASE i <= j
    BY <2>1, <1>0, <1>2, <1>3 DEF Longer
  <2>2. CASE ~(i <= j) /\ i = j + 1
    BY <2>2, <1>0, <1>2, <1>3 DEF Longer
  <2>3. CASE ~(i <= j) /\ i # j + 1
    <3>1. s[i] = r[i - 1] /\ p[i] = q[i - 1] /\ i - 1 \in 1 .. m
      BY <2>3, <1>2, <1>3 DEF Longer
    <3>2. r[i - 1] \in ln /\ dt[r[i - 1]] = q[i - 1]
      BY <3>1, <1>0
    <3> QED BY <3>1, <3>2
  <2> QED BY <2>1, <2>2, <2>3
<1>5. ASSUME NEW n, n \in ln \cup {x} PROVE \E i \in 1 .. m + 1 : n = s[i]
  <2>1. CASE n = x
    <3>1. j + 1 \in 1 .. m + 1 /\ ~(j + 1 <= j)
      BY <1>0
    <3> QED BY <2>1, <3>1, <1>3
  <2>2. CASE n # x
    <3>1. PICK i \in 1 .. m : n = r[i]
      BY <2>2, <1>5, <1>0
    <3>2. CASE i <= j
      <4>1. i \in 1 .. m + 1
        BY <1>0
      <4> QED BY <3>1, <3>2, <4>1, <1>3
    <3>3. CASE ~(i <= j)
      <4>1. i + 1 \in 1 .. m + 1 /\ ~(i + 1 <= j) /\ i + 1 # j + 1 /\ (i + 1) - 1 = i
        BY <3>3, <1>0
      <4>2. s[i + 1] = r[i]
        BY <4>1, <1>3
      <4> QED BY <3>1, <4>1, <4>2
    <3> QED BY <3>2, <3>3
  <2> QED BY <2>1, <2>2
<1>6. ASSUME NEW i \in 1 .. m + 1 PROVE s[i] \in ln \cup {x}
  BY <1>0, <1>2, <1>3
<1>7. ln \cup {x} = {s[i] : i \in 1 .. m + 1}
  BY <1>5, <1>6
<1>8. p \in Seq(Nat) /\ Len(p) = m + 1
  BY DEF Longer
<1> QED BY <1>1, <1>4, <1>7, <1>8 DEF IsList, s

Operations == {"idle", "remove", "move", "check"} \X
              {"idle", "look", "validate", "again", "lock", "failed"} \X List!Ring \X List!Ring
ListTypes ==
  /\ elements \in Nat /\ ringData \in [Nodes -> Nat] /\ linked \subseteq Nodes
  /\ ringAt \in [List!Threads -> Operations]
(* No two nodes have the same element, and a node of the list has one.      *)
DataInv ==
  /\ \A n \in Nodes : ringData[n] <= elements
  /\ \A n, o \in Nodes : ringData[n] = ringData[o] /\ ringData[n] # 0 => n = o
  /\ \A n \in linked : ringData[n] # 0
(* A thread works on its own nodes, and moves to one that is in no list; a  *)
(* CHECK fails of a node that is in none either.                            *)
Mine(t, a, ln) ==
  a[2] # "idle" =>
    /\ a[3] \in Nodes /\ Owner[a[3]] = t
    /\ a[1] = "move" => a[4] \in Nodes \ ln /\ Owner[a[4]] = t /\ a[4] # a[3]
    /\ a[2] = "failed" => a[3] \notin ln
RemovesInv == \A t \in List!Threads : Mine(t, ringAt[t], linked)
Stepped(t, s) == <<ringAt[t][1], s, ringAt[t][3], ringAt[t][4]>>
RingInv == \E r \in [0 .. Len(queue) + 1 -> List!Ring] :
             IsList(ringNext, ringPrev, r, Len(queue), queue, ringData, linked)
ListInv == ListTypes /\ DataInv /\ RemovesInv /\ RingInv

(* The elements without the one at place j.                                 *)
LEMMA WithoutOne ==
  ASSUME NEW q \in Seq(Nat), NEW m \in Nat, Len(q) = m, NEW j \in 1 .. m,
         \A i \in 1 .. m : q[i] = q[j] => i = j
  PROVE  Shorter(q, m, j, List!Without(q, q[j]))
<1> DEFINE k == CHOOSE i \in 1 .. m : q[i] = q[j]
           p == [i \in 1 .. m - 1 |-> IF i < j THEN q[i] ELSE q[i + 1]]
<1>1. k \in 1 .. m /\ q[k] = q[j]
  OBVIOUS
<1>2. k = j
  BY <1>1
<1> HIDE DEF k
<1>3. List!Without(q, q[j]) = p
  BY <1>2 DEF List!Without, k
<1>4. p \in [1 .. m - 1 -> Nat]
  <2>1. ASSUME NEW i \in 1 .. m - 1 PROVE (IF i < j THEN q[i] ELSE q[i + 1]) \in Nat
    <3>1. i \in 1 .. m /\ i + 1 \in 1 .. m
      OBVIOUS
    <3>2. q[i] \in Nat /\ q[i + 1] \in Nat
      BY <3>1
    <3> QED BY <3>2
  <2> QED BY <2>1
<1>5. m - 1 \in Nat
  OBVIOUS
<1>6. \A i \in 1 .. m - 1 : p[i] = (IF i < j THEN q[i] ELSE q[i + 1])
  OBVIOUS
<1> HIDE DEF p
<1>7. p \in Seq(Nat) /\ Len(p) = m - 1
  BY <1>4, <1>5, IsSequence
<1> QED BY <1>3, <1>6, <1>7 DEF Shorter

(* The nodes of a list: each has its place.                                 *)
LEMMA Place ==
  ASSUME NEW nx, NEW pv, NEW r, NEW m, NEW q, NEW dt, NEW ln, IsList(nx, pv, r, m, q, dt, ln), NEW n \in ln
  PROVE  \E j \in 1 .. m : n = r[j]
BY DEF IsList

(* A node of the list is not linked to itself.                              *)
LEMMA LinkedIsNotAlone ==
  ASSUME RingOK, ListInv, NEW n \in linked
  PROVE  ~List!Alone(n)
<1> DEFINE m == Len(queue)
<1>1. PICK r \in [0 .. m + 1 -> List!Ring] : IsList(ringNext, ringPrev, r, m, queue, ringData, linked)
  BY DEF ListInv, RingInv
<1>2. /\ m \in Nat /\ r[m + 1] = List!Root
      /\ \A i \in 1 .. m : r[i] \in Nodes
      /\ \A i, j \in 1 .. m : r[i] = r[j] => i = j
      /\ \A i \in 0 .. m : ringNext[r[i]] = r[i + 1]
      /\ linked = {r[i] : i \in 1 .. m}
  BY <1>1 DEF IsList, IsRing
<1> HIDE DEF m
<1>3. PICK j \in 1 .. m : n = r[j]
  BY <1>2
<1>4. j \in 0 .. m /\ j + 1 \in 1 .. m + 1 /\ j # j + 1
  BY <1>2
<1>5. ringNext[r[j]] = r[j + 1]
  BY <1>4, <1>2
<1>6. r[j] # r[j + 1]
  <2>1. CASE j + 1 = m + 1
    BY <2>1, <1>2 DEF RingOK
  <2>2. CASE j + 1 # m + 1
    <3>1. j + 1 \in 1 .. m
      BY <2>2, <1>4, <1>2
    <3> QED BY <3>1, <1>4, <1>2
  <2> QED BY <2>1, <2>2
<1> QED BY <1>3, <1>5, <1>6 DEF List!Alone

(* A step of thread t, which links no node of another one.                  *)
LEMMA OthersStay ==
  ASSUME ListTypes, RemovesInv, NEW t \in List!Threads, NEW a \in Operations, NEW L,
         ringAt' = [ringAt EXCEPT ![t] = a], linked' = L, Mine(t, a, L),
         \A x \in L : x \in linked \/ Owner[x] = t
  PROVE  RemovesInv' /\ ringAt' \in [List!Threads -> Operations]
<1>1. ringAt \in [List!Threads -> Operations]
  BY DEF ListTypes
<1>2. ASSUME NEW u \in List!Threads PROVE Mine(u, ringAt'[u], L)
  <2>1. CASE u = t
    BY <2>1, <1>1
  <2>2. CASE u # t
    <3>1. ringAt'[u] = ringAt[u] /\ Mine(u, ringAt[u], linked)
      BY <2>2, <1>1 DEF RemovesInv
    <3> QED BY <2>2, <3>1 DEF Mine
  <2> QED BY <2>1, <2>2
<1> QED BY <1>1, <1>2 DEF RemovesInv, List!Threads

(* What a thread does next with its nodes.                                  *)
LEMMA NextIsMine ==
  ASSUME ListTypes, RemovesInv, NEW t \in List!Threads, ringAt[t][2] # "idle"
  PROVE  /\ Mine(t, List!Idle, linked) /\ List!Idle \in Operations
         /\ \A s \in {"look", "validate", "again", "lock", "failed"} :
              /\ Stepped(t, s) \in Operations
              /\ (s = "failed" => ringAt[t][3] \notin linked) => Mine(t, Stepped(t, s), linked)
<1>1. ringAt[t] \in Operations /\ Mine(t, ringAt[t], linked)
  BY DEF ListTypes, RemovesInv
<1>2. Mine(t, List!Idle, linked) /\ List!Idle \in Operations
  BY DEF Mine, List!Idle, Operations, List!Ring, List!Root
<1>3. ASSUME NEW s \in {"look", "validate", "again", "lock", "failed"}
      PROVE  /\ Stepped(t, s) \in Operations
             /\ (s = "failed" => ringAt[t][3] \notin linked) => Mine(t, Stepped(t, s), linked)
  BY <1>1 DEF Operations, Mine, Stepped
<1> QED BY <1>2, <1>3

(* A step that leaves the list and the data alone.                          *)
LEMMA OnlyTheThread ==
  ASSUME ListInv, NEW t \in List!Threads, NEW a \in Operations, Mine(t, a, linked),
         ringAt' = [ringAt EXCEPT ![t] = a],
         UNCHANGED <<ringNext, ringPrev, linked, ringData, elements, queue>>
  PROVE  ListInv'
<1>1. ListTypes /\ DataInv /\ RemovesInv /\ RingInv
  BY DEF ListInv
<1>2. RemovesInv' /\ ringAt' \in [List!Threads -> Operations]
  BY <1>1, OthersStay
<1>3. ListTypes'
  BY <1>1, <1>2 DEF ListTypes, List!Threads, Operations, List!Ring
<1>4. DataInv' /\ RingInv'
  BY <1>1 DEF DataInv, RingInv, List!Ring
<1> QED BY <1>2, <1>3, <1>4 DEF ListInv

(* TsListNode::remove begins.                                               *)
LEMMA BeginRemoveKeeps ==
  ASSUME RingOK, ListInv, NEW n \in Nodes, List!BeginRemove(n)
  PROVE  ListInv'
<1> DEFINE a == <<"remove", "validate", n, List!Root>>
<1>1. /\ Owner[n] \in List!Threads /\ ringAt' = [ringAt EXCEPT ![Owner[n]] = a]
      /\ UNCHANGED <<ringNext, ringPrev, linked, ringData, elements, queue>>
  BY DEF List!BeginRemove, List!Looks, List!Goto, List!Threads
<1>2. a \in Operations /\ Mine(Owner[n], a, linked)
  BY DEF Operations, Mine, List!Ring
<1> QED BY <1>1, <1>2, OnlyTheThread

(* put looks at its node.                                                   *)
LEMMA LookKeeps ==
  ASSUME RingOK, ListInv, NEW t \in List!Threads, List!Look(t)
  PROVE  ListInv'
<1> DEFINE n == ringAt[t][3]
           a == IF n \in linked THEN <<"check", "validate", n, List!Root>> ELSE List!Idle
<1>1. /\ ringAt[t][2] = "look" /\ ringAt' = [ringAt EXCEPT ![t] = a]
      /\ UNCHANGED <<ringNext, ringPrev, linked, ringData, elements, queue>>
  BY DEF List!Look, List!Looks, List!Goto
<1>2. ringAt[t] \in Operations /\ Mine(t, ringAt[t], linked) /\ linked \subseteq Nodes
  BY DEF ListInv, ListTypes, RemovesInv
<1>3. CASE n \in linked
  <2>1. n \in Nodes /\ Owner[n] = t
    BY <1>2, <1>3, <1>1 DEF Mine
  <2>2. a \in Operations /\ Mine(t, a, linked)
    BY <1>3, <2>1 DEF Operations, Mine, List!Ring
  <2> QED BY <1>1, <2>2, OnlyTheThread
<1>4. CASE n \notin linked
  <2>1. a \in Operations /\ Mine(t, a, linked)
    BY <1>4 DEF Mine, List!Idle, Operations, List!Ring, List!Root
  <2> QED BY <1>1, <2>1, OnlyTheThread
<1> QED BY <1>3, <1>4

(* validate goes on under the lock.                                         *)
LEMMA ValidateKeeps ==
  ASSUME RingOK, ListInv, NEW t \in List!Threads, List!Validate(t)
  PROVE  ListInv'
<1>1. ringAt[t][2] = "validate" /\ ListTypes /\ RemovesInv
  BY DEF ListInv, List!Validate
<1>2. UNCHANGED <<ringNext, ringPrev, linked, ringData, elements, queue>>
  BY DEF List!Validate
<1>3. CASE List!Alone(ringAt[t][3])
  <2>1. ringAt[t][3] \notin linked
    BY <1>3, LinkedIsNotAlone
  <2>2. ringAt' = [ringAt EXCEPT ![t] = Stepped(t, "failed")]
    BY <1>3 DEF List!Validate, List!To, List!Goto, Stepped
  <2> QED BY <1>1, <1>2, <2>1, <2>2, NextIsMine, OnlyTheThread
<1>4. CASE ~List!Alone(ringAt[t][3]) /\ ringAt[t][1] = "check"
  <2>1. ringAt' = [ringAt EXCEPT ![t] = List!Idle]
    BY <1>4 DEF List!Validate, List!Goto
  <2> QED BY <1>1, <1>2, <2>1, NextIsMine, OnlyTheThread
<1>5. CASE ~List!Alone(ringAt[t][3]) /\ ringAt[t][1] # "check"
  <2>1. ringAt' = [ringAt EXCEPT ![t] = Stepped(t, "again")]
    BY <1>5 DEF List!Validate, List!To, List!Goto, Stepped
  <2> QED BY <1>1, <1>2, <2>1, NextIsMine, OnlyTheThread
<1> QED BY <1>3, <1>4, <1>5

(* The elements of different nodes of a list are different.                 *)
LEMMA DifferentElements ==
  ASSUME ListTypes, DataInv, NEW r, NEW m, IsList(ringNext, ringPrev, r, m, queue, ringData, linked)
  PROVE  \A i, j \in 1 .. m : queue[i] = queue[j] => i = j
<1>1. \A i \in 1 .. m : r[i] \in linked /\ ringData[r[i]] = queue[i]
  BY DEF IsList
<1>2. \A i, j \in 1 .. m : r[i] = r[j] => i = j
  BY DEF IsList, IsRing
<1>3. \A n, o \in linked : ringData[n] = ringData[o] => n = o
  BY DEF ListTypes, DataInv
<1> QED BY <1>1, <1>2, <1>3

(* The locked half of TsListNode::remove.                                   *)
LEMMA RemoveLockedKeeps ==
  ASSUME RingOK, ListInv, NEW t \in List!Threads, List!RemoveLocked(t)
  PROVE  ListInv'
<1> DEFINE n == ringAt[t][3]
           m == Len(queue)
<1>0. /\ ListTypes /\ DataInv /\ RemovesInv /\ RingInv /\ ringAt[t][2] = "lock" /\ n \in Nodes
      /\ ringNext' = [ringNext EXCEPT ![ringPrev[n]] = ringNext[n], ![n] = n]
      /\ ringPrev' = [ringPrev EXCEPT ![ringNext[n]] = ringPrev[n], ![n] = n]
      /\ linked' = linked \ {n}
      /\ queue' = IF n \in linked THEN List!Without(queue, ringData[n]) ELSE queue
      /\ ringAt' = [ringAt EXCEPT ![t] = List!Idle]
      /\ UNCHANGED <<ringData, elements>>
  BY DEF ListInv, List!RemoveLocked, List!Goto, List!Becomes, List!Out, List!Links, RemovesInv, Mine
<1> HIDE DEF n
<1>1. RemovesInv' /\ ringAt' \in [List!Threads -> Operations]
  <2> DEFINE a == List!Idle
             l == linked \ {n}
  <2>1. a \in Operations /\ Mine(t, a, l)
    BY DEF Mine, List!Idle, Operations, List!Ring, List!Root
  <2>2. /\ ListTypes /\ RemovesInv /\ ringAt' = [ringAt EXCEPT ![t] = a] /\ linked' = l
        /\ \A x \in l : x \in linked
    BY <1>0
  <2> HIDE DEF a, l
  <2> QED BY <2>1, <2>2, OthersStay
<1>2. ListTypes' /\ DataInv'
  BY <1>0, <1>1 DEF ListTypes, DataInv, List!Threads, Operations, List!Ring
<1>4. ASSUME n \in linked PROVE RingInv'
  <2>1. PICK r \in [0 .. m + 1 -> List!Ring] : IsList(ringNext, ringPrev, r, m, queue, ringData, linked)
    BY <1>0 DEF RingInv
  <2>2. PICK j \in 1 .. m : n = r[j]
    BY <1>4, <2>1, Place
  <2>3. queue \in Seq(Nat) /\ m \in Nat /\ ringData[n] = queue[j]
    BY <2>1, <2>2 DEF IsList
  <2>9. \A i \in 1 .. m : queue[i] = queue[j] => i = j
    <3> HIDE DEF m
    <3>1. \A i, k \in 1 .. m : queue[i] = queue[k] => i = k
      BY <1>0, <2>1, DifferentElements
    <3> QED BY <3>1
  <2>4. Shorter(queue, m, j, queue')
    <3>1. queue' = List!Without(queue, queue[j])
      BY <1>0, <1>4, <2>3
    <3> HIDE DEF m
    <3>2. Len(queue) = m
      BY DEF m
    <3> QED BY <2>3, <2>9, <3>1, <3>2, WithoutOne
  <2>5. Unlinks(ringNext, ringPrev, r[j], ringNext', ringPrev')
    BY <1>0, <2>2 DEF Unlinks
  <2> HIDE DEF m
  <2>6. IsList(ringNext', ringPrev', Less(r, m, j), m - 1, queue', ringData, linked \ {r[j]})
    BY <2>1, <2>4, <2>5, ListOut
  <2>7. IsList(ringNext', ringPrev', Less(r, m, j), Len(queue'), queue', ringData', linked')
    <3>1. Len(queue') = m - 1
      BY <2>4 DEF Shorter
    <3> QED BY <2>2, <2>6, <3>1, <1>0
  <2>8. Less(r, m, j) \in [0 .. Len(queue') + 1 -> List!Ring]
    BY <2>7 DEF IsList, IsRing
  <2> QED BY <2>7, <2>8 DEF RingInv, List!Ring
<1>5. ASSUME n \notin linked PROVE RingInv'
  <2>1. PICK r \in [0 .. m + 1 -> List!Ring] : IsList(ringNext, ringPrev, r, m, queue, ringData, linked)
    BY <1>0 DEF RingInv
  <2>2. ringNext[n] = n /\ ringPrev[n] = n /\ ringNext \in RingLinks /\ ringPrev \in RingLinks
    BY <1>0, <1>5, <2>1 DEF IsList, IsRing
  <2>3. ringNext' = ringNext /\ ringPrev' = ringPrev /\ linked' = linked /\ queue' = queue
    BY <1>0, <1>5, <2>2 DEF RingLinks
  <2> QED BY <1>0, <2>3 DEF RingInv, List!Ring
<1> QED BY <1>1, <1>2, <1>4, <1>5 DEF ListInv

(* TsList::get.                                                             *)
LEMMA GetKeeps ==
  ASSUME RingOK, ListInv, List!get
  PROVE  ListInv'
<1> DEFINE n == ringPrev[List!Root]
           m == Len(queue)
<1>0. /\ ListTypes /\ DataInv /\ RemovesInv /\ RingInv /\ n # List!Root
      /\ ringNext' = [ringNext EXCEPT ![ringPrev[n]] = ringNext[n], ![n] = n]
      /\ ringPrev' = [ringPrev EXCEPT ![ringNext[n]] = ringPrev[n], ![n] = n]
      /\ linked' = linked \ {n} /\ queue' = SubSeq(queue, 1, Len(queue) - 1)
      /\ UNCHANGED <<ringData, elements, ringAt>>
  BY DEF ListInv, List!get, List!Becomes, List!Out, List!Links
<1>1. ListTypes'
  BY <1>0 DEF ListTypes, List!Threads, Operations, List!Ring
<1>2. DataInv'
  BY <1>0 DEF DataInv
<1>3. RemovesInv'
  BY <1>0 DEF RemovesInv, Mine, List!Threads
<1>4. RingInv'
  <2>1. PICK r \in [0 .. m + 1 -> List!Ring] : IsList(ringNext, ringPrev, r, m, queue, ringData, linked)
    BY <1>0 DEF RingInv
  <2>2. /\ m \in Nat /\ r[0] = List!Root /\ r[m + 1] = List!Root /\ queue \in Seq(Nat)
        /\ \A i \in 0 .. m : ringPrev[r[i + 1]] = r[i]
    BY <2>1 DEF IsList, IsRing
  <2>3. n = r[m]
    <3>1. m \in 0 .. m
      BY <2>2
    <3> QED BY <3>1, <2>2
  <2>4. m \in 1 .. m
    BY <1>0, <2>2, <2>3
  <2>5. Shorter(queue, m, m, queue')
    <3>1. m - 1 \in Nat /\ m - 1 <= m
      BY <2>2, <2>4
    <3>2. queue' = SubSeq(queue, 1, m - 1)
      BY <1>0
    <3>3. queue' \in Seq(Nat)
      BY <3>1, <3>2, <2>2
    <3>4. Len(queue') = m - 1
      <4> HIDE DEF m
      <4>1. Len(SubSeq(queue, 1, m - 1)) = IF 1 <= m - 1 THEN ((m - 1) - 1) + 1 ELSE 0
        BY <3>1, <2>2
      <4> QED BY <4>1, <3>1, <3>2, <2>2
    <3>5. \A i \in 1 .. m - 1 : queue'[i] = queue[i]
      BY <3>1, <3>2, <2>2
    <3>6. \A i \in 1 .. m - 1 : i < m
      BY <2>2
    <3> QED BY <3>3, <3>4, <3>5, <3>6 DEF Shorter
  <2> HIDE DEF n
  <2>6. Unlinks(ringNext, ringPrev, r[m], ringNext', ringPrev')
    BY <1>0, <2>3 DEF Unlinks
  <2> HIDE DEF m
  <2>7. IsList(ringNext', ringPrev', Less(r, m, m), m - 1, queue', ringData, linked \ {r[m]})
    BY <2>1, <2>4, <2>5, <2>6, ListOut
  <2>8. IsList(ringNext', ringPrev', Less(r, m, m), Len(queue'), queue', ringData', linked')
    <3>1. Len(queue') = m - 1
      BY <2>5 DEF Shorter
    <3> QED BY <2>3, <2>7, <3>1, <1>0
  <2>9. Less(r, m, m) \in [0 .. Len(queue') + 1 -> List!Ring]
    BY <2>8 DEF IsList, IsRing
  <2> QED BY <2>8, <2>9 DEF RingInv, List!Ring
<1> QED BY <1>1, <1>2, <1>3, <1>4 DEF ListInv

(* put and put_back: a node that is in no list takes a new element to the   *)
(* place after j.                                                           *)
LEMMA PutNewKeeps ==
  ASSUME RingOK, ListInv, NEW n \in Nodes, NEW a, NEW p, List!PutNew(n, a, p), NEW b \in Operations,
         ringAt' = [ringAt EXCEPT ![Owner[n]] = b], Mine(Owner[n], b, linked \cup {n}),
         \A r, m : IsList(ringNext, ringPrev, r, m, queue, ringData, linked) =>
           \E j \in 0 .. m : a = r[j] /\ Longer(queue, m, j, elements + 1, p)
  PROVE  ListInv'
<1>0. /\ ListTypes /\ DataInv /\ RemovesInv /\ RingInv /\ n \notin linked
      /\ elements' = elements + 1 /\ ringData' = [ringData EXCEPT ![n] = elements + 1]
      /\ ringNext' = [ringNext EXCEPT ![n] = ringNext[a], ![a] = n]
      /\ ringPrev' = [ringPrev EXCEPT ![ringNext[a]] = n, ![n] = a]
      /\ linked' = linked \cup {n} /\ queue' = p /\ Owner[n] \in List!Threads
  BY DEF ListInv, List!Threads, List!PutNew, List!Becomes, List!In, List!Links
<1>1. /\ elements \in Nat /\ ringData \in [Nodes -> Nat] /\ ringData' \in [Nodes -> Nat]
      /\ ringData'[n] = elements + 1 /\ \A o \in Nodes : o # n => ringData'[o] = ringData[o]
  BY <1>0 DEF ListTypes
<1>2. RemovesInv' /\ ListTypes'
  <2>1. \A x \in linked \cup {n} : x \in linked \/ Owner[x] = Owner[n]
    OBVIOUS
  <2>2. RemovesInv' /\ ringAt' \in [List!Threads -> Operations]
    BY <1>0, <2>1, OthersStay
  <2> QED BY <1>0, <1>1, <2>2 DEF ListTypes, List!Threads, Operations, List!Ring
<1>3. DataInv'
  <2>1. \A o \in Nodes : ringData[o] \in Nat /\ ringData[o] <= elements
    BY <1>0, <1>1 DEF DataInv
  <2>2. \A o \in Nodes : ringData'[o] <= elements'
    BY <2>1, <1>0, <1>1
  <2>3. \A o \in Nodes : ringData[o] # elements + 1
    BY <2>1, <1>1
  <2>4. ASSUME NEW o \in Nodes, NEW u \in Nodes, ringData'[o] = ringData'[u], ringData'[o] # 0 PROVE o = u
    <3>1. CASE o = n \/ u = n
      BY <3>1, <2>3, <2>4, <1>1
    <3>2. CASE o # n /\ u # n
      BY <3>2, <2>4, <1>0, <1>1 DEF DataInv
    <3> QED BY <3>1, <3>2
  <2>5. \A o \in linked' : ringData'[o] # 0
    BY <1>0, <1>1 DEF DataInv, ListTypes
  <2> QED BY <2>2, <2>4, <2>5 DEF DataInv
<1>5. RingInv'
  <2> DEFINE m == Len(queue)
  <2>1. PICK r \in [0 .. m + 1 -> List!Ring] : IsList(ringNext, ringPrev, r, m, queue, ringData, linked)
    BY <1>0 DEF RingInv
  <2> HIDE DEF m
  <2>2. PICK j \in 0 .. m : a = r[j] /\ Longer(queue, m, j, elements + 1, p)
    BY <2>1
  <2>3. Inserts(ringNext, ringPrev, r[j], n, ringNext', ringPrev')
    BY <1>0, <2>2 DEF Inserts
  <2>4. Longer(queue, m, j, ringData'[n], queue') /\ n \in Nodes \ linked
    BY <1>0, <1>1, <2>2
  <2>5. \A o \in linked : ringData'[o] = ringData[o]
    BY <1>0, <1>1 DEF ListTypes
  <2>6. IsList(ringNext', ringPrev', More(r, m, j, n), m + 1, queue', ringData', linked \cup {n})
    BY <2>1, <2>3, <2>4, <2>5, ListIn
  <2>7. IsList(ringNext', ringPrev', More(r, m, j, n), Len(queue'), queue', ringData', linked')
    <3>1. Len(queue') = m + 1
      BY <2>4 DEF Longer
    <3> QED BY <2>6, <3>1, <1>0
  <2>8. More(r, m, j, n) \in [0 .. Len(queue') + 1 -> List!Ring]
    BY <2>7 DEF IsList, IsRing
  <2> QED BY <2>7, <2>8 DEF RingInv, List!Ring
<1> QED BY <1>2, <1>3, <1>5 DEF ListInv

(* put is before the first element, after the root.                         *)
LEMMA PutKeeps ==
  ASSUME RingOK, ListInv, NEW n \in Nodes, List!put(n)
  PROVE  ListInv'
<1>1. ASSUME NEW r, NEW m, IsList(ringNext, ringPrev, r, m, queue, ringData, linked)
      PROVE  \E j \in 0 .. m : List!Root = r[j] /\ Longer(queue, m, j, elements + 1, <<elements + 1>> \o queue)
  <2>1. r[0] = List!Root /\ m \in Nat /\ queue \in Seq(Nat) /\ Len(queue) = m /\ elements + 1 \in Nat
    BY <1>1 DEF IsList, IsRing, ListInv, ListTypes
  <2> DEFINE p == <<elements + 1>> \o queue
  <2>2. p \in Seq(Nat)
    BY <2>1
  <2>3. Len(p) = m + 1
    BY <2>1
  <2>4. p[1] = elements + 1
    BY <2>1
  <2>5. ASSUME NEW i \in 1 .. m + 1, i # 1 PROVE p[i] = queue[i - 1]
    BY <2>1, <2>5
  <2>6. \A i \in 1 .. m + 1 : ~(i <= 0) /\ (i = 1 <=> i = 0 + 1)
    BY <2>1
  <2> HIDE DEF p
  <2>7. Longer(queue, m, 0, elements + 1, p)
    BY <2>2, <2>3, <2>4, <2>5, <2>6 DEF Longer
  <2>8. 0 \in 0 .. m
    BY <2>1
  <2> QED BY <2>1, <2>7, <2>8 DEF p
<1> DEFINE b == <<"check", "look", n, List!Root>>
<1>2. /\ List!PutNew(n, List!Root, <<elements + 1>> \o queue)
      /\ ringAt' = [ringAt EXCEPT ![Owner[n]] = b]
  BY DEF List!put, List!Goto
<1>3. b \in Operations /\ Mine(Owner[n], b, linked \cup {n})
  BY DEF Operations, Mine, List!Ring
<1> QED BY <1>1, <1>2, <1>3, PutNewKeeps

(* put_back is after the last one.                                          *)
LEMMA PutBackKeeps ==
  ASSUME RingOK, ListInv, NEW n \in Nodes, List!put_back(n)
  PROVE  ListInv'
<1>1. ASSUME NEW r, NEW m, IsList(ringNext, ringPrev, r, m, queue, ringData, linked)
      PROVE  \E j \in 0 .. m : /\ ringPrev[List!Root] = r[j]
                               /\ Longer(queue, m, j, elements + 1, Append(queue, elements + 1))
  <2>1. /\ r[m + 1] = List!Root /\ m \in Nat /\ queue \in Seq(Nat) /\ Len(queue) = m /\ elements + 1 \in Nat
        /\ \A i \in 0 .. m : ringPrev[r[i + 1]] = r[i]
    BY <1>1 DEF IsList, IsRing, ListInv, ListTypes
  <2>2. m \in 0 .. m
    BY <2>1
  <2> DEFINE p == Append(queue, elements + 1)
  <2>3. p \in Seq(Nat) /\ Len(p) = m + 1 /\ p[m + 1] = elements + 1
    BY <2>1
  <2>4. ASSUME NEW i \in 1 .. m + 1, i <= m PROVE p[i] = queue[i]
    BY <2>1, <2>4
  <2>5. \A i \in 1 .. m + 1 : i <= m \/ i = m + 1
    BY <2>1
  <2> HIDE DEF p
  <2>6. Longer(queue, m, m, elements + 1, p)
    BY <2>1, <2>3, <2>4, <2>5 DEF Longer
  <2> QED BY <2>1, <2>2, <2>6 DEF p
<1>2. /\ List!PutNew(n, ringPrev[List!Root], Append(queue, elements + 1))
      /\ ringAt' = ringAt /\ ringAt[Owner[n]] = List!Idle /\ Owner[n] \in List!Threads
  BY DEF List!put_back, List!PutNew, List!IsIdle, List!Threads
<1> DEFINE b == List!Idle
           a == ringPrev[List!Root]
           p == Append(queue, elements + 1)
<1>3. b \in Operations /\ Mine(Owner[n], b, linked \cup {n})
  BY DEF Mine, List!Idle, Operations, List!Ring, List!Root
<1>4. ringAt' = [ringAt EXCEPT ![Owner[n]] = b]
  BY <1>2 DEF ListInv, ListTypes
<1>5. \A r, m : IsList(ringNext, ringPrev, r, m, queue, ringData, linked) =>
        \E j \in 0 .. m : a = r[j] /\ Longer(queue, m, j, elements + 1, p)
  BY <1>1
<1>6. List!PutNew(n, a, p)
  BY <1>2
<1> HIDE DEF a, b, p
<1> QED BY <1>3, <1>4, <1>5, <1>6, PutNewKeeps

(* A move from a node that is in no list.                                   *)
LEMMA MoveOutsideKeeps ==
  ASSUME RingOK, ListInv, NEW n \in Nodes, NEW o \in Nodes, n \notin linked, o \notin linked,
         List!DataMoves(n, o), UNCHANGED <<ringNext, ringPrev, linked, queue>>
  PROVE  RingInv'
<1> DEFINE m == Len(queue)
<1>0. /\ ListTypes /\ RingInv
      /\ ringData' = [ringData EXCEPT ![n] = ringData[o], ![o] = 0]
  BY DEF ListInv, List!DataMoves
<1>1. PICK r \in [0 .. m + 1 -> List!Ring] : IsList(ringNext, ringPrev, r, m, queue, ringData, linked)
  BY <1>0 DEF RingInv
<1>2. \A i \in 1 .. m : ringData'[r[i]] = ringData[r[i]]
  <2>1. \A x \in linked : ringData'[x] = ringData[x]
    BY <1>0 DEF ListTypes
  <2>2. \A i \in 1 .. m : r[i] \in linked
    BY <1>1 DEF IsList
  <2> QED BY <2>1, <2>2
<1>3. IsList(ringNext, ringPrev, r, m, queue, ringData', linked)
  BY <1>1, <1>2 DEF IsList
<1> QED BY <1>0, <1>1, <1>3 DEF RingInv, List!Ring

(* init_from of a node of a list: the new one is where the old one was.     *)
LEMMA MoveInsideKeeps ==
  ASSUME RingOK, ListInv, NEW n \in Nodes, NEW o \in Nodes, n # o, n \notin linked, o \in linked,
         List!Becomes(List!In(List!Out(List!Links, o), ringPrev[o], n)), List!DataMoves(n, o),
         linked' = (linked \ {o}) \cup {n}, queue' = queue
  PROVE  RingInv'
<1> DEFINE m == Len(queue)
           a == ringPrev[o]
           mx == [ringNext EXCEPT ![ringPrev[o]] = ringNext[o], ![o] = o]
           mv == [ringPrev EXCEPT ![ringNext[o]] = ringPrev[o], ![o] = o]
<1>0. /\ ListTypes /\ DataInv /\ RingInv
      /\ ringData' = [ringData EXCEPT ![n] = ringData[o], ![o] = 0]
      /\ ringNext' = [mx EXCEPT ![n] = mx[a], ![a] = n]
      /\ ringPrev' = [mv EXCEPT ![mx[a]] = n, ![n] = a]
  BY DEF ListInv, List!DataMoves, List!Becomes, List!In, List!Out, List!Links
<1>1. PICK r \in [0 .. m + 1 -> List!Ring] : IsList(ringNext, ringPrev, r, m, queue, ringData, linked)
  BY <1>0 DEF RingInv
<1>2. PICK j \in 1 .. m : o = r[j]
  BY <1>1, Place
<1>3. Unlinks(ringNext, ringPrev, r[j], mx, mv)
  BY <1>2 DEF Unlinks
<1>4. Inserts(mx, mv, a, n, ringNext', ringPrev')
  BY <1>0 DEF Inserts
<1>5. /\ m \in Nat /\ queue \in Seq(Nat) /\ Len(queue) = m /\ ringData[o] = queue[j]
      /\ \A i \in 0 .. m : ringPrev[r[i + 1]] = r[i]
  BY <1>1, <1>2 DEF IsList, IsRing
<1> HIDE DEF m, mx, mv
<1> DEFINE p == [i \in 1 .. m - 1 |-> IF i < j THEN queue[i] ELSE queue[i + 1]]
           s == Less(r, m, j)
<1>6. Shorter(queue, m, j, p)
  <2>1. ASSUME NEW i \in 1 .. m - 1 PROVE (IF i < j THEN queue[i] ELSE queue[i + 1]) \in Nat
    <3>1. i \in 1 .. m /\ i + 1 \in 1 .. m
      BY <1>5
    <3>2. queue[i] \in Nat /\ queue[i + 1] \in Nat
      BY <3>1, <1>5
    <3> QED BY <3>2
  <2>2. p \in [1 .. m - 1 -> Nat] /\ m - 1 \in Nat
    BY <2>1, <1>5
  <2>3. p \in Seq(Nat) /\ Len(p) = m - 1
    <3> HIDE DEF p
    <3> QED BY <2>2, IsSequence
  <2> QED BY <2>3 DEF Shorter
<1>7. \A i \in 1 .. m - 1 : p[i] = (IF i < j THEN queue[i] ELSE queue[i + 1])
  OBVIOUS
<1> HIDE DEF p
<1>8. IsList(mx, mv, s, m - 1, p, ringData, linked \ {r[j]})
  BY <1>1, <1>3, <1>6, ListOut
<1>9. a = s[j - 1] /\ j - 1 \in 0 .. m - 1
  <2>1. j - 1 \in 0 .. m - 1 /\ j - 1 \in 0 .. m /\ j - 1 < j /\ (j - 1) + 1 = j
    BY <1>5
  <2>2. s[j - 1] = r[j - 1]
    BY <2>1 DEF Less
  <2>3. ringPrev[r[(j - 1) + 1]] = r[j - 1]
    BY <2>1, <1>5
  <2> QED BY <2>1, <2>2, <2>3, <1>2
<1> HIDE DEF a, s
<1>10. Inserts(mx, mv, s[j - 1], n, ringNext', ringPrev')
  BY <1>4, <1>9
<1>11. Longer(p, m - 1, j - 1, ringData'[n], queue)
  <2>1. ringData'[n] = queue[j]
    BY <1>0, <1>5 DEF ListTypes
  <2>2. ASSUME NEW i \in 1 .. m
        PROVE  queue[i] = (IF i <= j - 1 THEN p[i] ELSE IF i = (j - 1) + 1 THEN queue[j] ELSE p[i - 1])
    <3>1. CASE i <= j - 1
      <4>1. i < j /\ i \in 1 .. m - 1
        BY <3>1, <1>5
      <4> QED BY <3>1, <4>1, <1>7
    <3>2. CASE ~(i <= j - 1) /\ i = j
      BY <3>2
    <3>3. CASE ~(i <= j - 1) /\ i # j
      <4>1. i - 1 \in 1 .. m - 1 /\ ~(i - 1 < j) /\ (i - 1) + 1 = i /\ i # (j - 1) + 1
        BY <3>3, <1>5
      <4>2. p[i - 1] = queue[i]
        BY <4>1, <1>7
      <4> QED BY <3>3, <4>1, <4>2
    <3> QED BY <3>1, <3>2, <3>3
  <2>3. (m - 1) + 1 = m
    BY <1>5
  <2> QED BY <2>1, <2>2, <2>3, <1>5 DEF Longer
<1>12. \A x \in linked \ {r[j]} : ringData'[x] = ringData[x]
  BY <1>0, <1>2 DEF ListTypes
<1>13. n \in Nodes \ (linked \ {r[j]})
  BY <1>0
<1>14. IsList(ringNext', ringPrev', More(s, m - 1, j - 1, n), (m - 1) + 1, queue, ringData',
              (linked \ {r[j]}) \cup {n})
  BY <1>8, <1>9, <1>10, <1>11, <1>12, <1>13, ListIn
<1>15. IsList(ringNext', ringPrev', More(s, m - 1, j - 1, n), Len(queue'), queue', ringData', linked')
  <2>1. (m - 1) + 1 = Len(queue') /\ queue' = queue /\ linked' = (linked \ {r[j]}) \cup {n}
    BY <1>0, <1>2, <1>5
  <2> QED BY <2>1, <1>14
<1>16. More(s, m - 1, j - 1, n) \in [0 .. Len(queue') + 1 -> List!Ring]
  BY <1>15 DEF IsList, IsRing
<1> QED BY <1>15, <1>16 DEF RingInv, List!Ring

(* The data goes with the node.                                             *)
LEMMA DataMovesKeeps ==
  ASSUME ListInv, NEW n \in Nodes, NEW o \in Nodes, n # o, n \notin linked, List!DataMoves(n, o),
         elements' = elements,
         linked' = (IF o \in linked THEN (linked \ {o}) \cup {n} ELSE linked)
  PROVE  DataInv' /\ ringData' \in [Nodes -> Nat]
<1>0. /\ ListTypes /\ DataInv
      /\ ringData' = [ringData EXCEPT ![n] = ringData[o], ![o] = 0]
  BY DEF ListInv, List!DataMoves
<1>1. /\ ringData' \in [Nodes -> Nat] /\ ringData'[n] = ringData[o] /\ ringData'[o] = 0
      /\ \A x \in Nodes : x # n /\ x # o => ringData'[x] = ringData[x]
  BY <1>0 DEF ListTypes
<1>2. \A x \in Nodes : ringData'[x] <= elements'
  BY <1>0, <1>1 DEF DataInv, ListTypes
<1>3. ASSUME NEW x \in Nodes, NEW y \in Nodes, ringData'[x] = ringData'[y], ringData'[x] # 0 PROVE x = y
  BY <1>3, <1>0, <1>1 DEF DataInv
<1>4. \A x \in linked' : ringData'[x] # 0
  BY <1>0, <1>1 DEF DataInv, ListTypes
<1> QED BY <1>1, <1>2, <1>3, <1>4 DEF DataInv

(* A move whose source is in no list: data alone.                           *)
LEMMA OnlyDataMoves ==
  ASSUME RingOK, ListInv, NEW n \in Nodes, NEW o \in Nodes, n # o, n \notin linked, o \notin linked,
         List!DataMoves(n, o), NEW t \in List!Threads, ringAt' = [ringAt EXCEPT ![t] = List!Idle],
         UNCHANGED <<ringNext, ringPrev, linked, queue, elements>>
  PROVE  ListInv'
<1>1. ListTypes /\ RemovesInv
  BY DEF ListInv
<1>2. RingInv'
  BY MoveOutsideKeeps
<1>3. DataInv' /\ ringData' \in [Nodes -> Nat]
  BY DataMovesKeeps
<1>4. RemovesInv' /\ ringAt' \in [List!Threads -> Operations]
  <2>1. List!Idle \in Operations /\ Mine(t, List!Idle, linked)
    BY DEF Mine, List!Idle, Operations, List!Ring, List!Root
  <2> QED BY <1>1, <2>1, OthersStay
<1> QED BY <1>1, <1>2, <1>3, <1>4 DEF ListInv, ListTypes, List!Threads, Operations, List!Ring

(* The second look of remove and of a move.                                 *)
LEMMA LookAgainKeeps ==
  ASSUME RingOK, ListInv, NEW t \in List!Threads, List!LookAgain(t)
  PROVE  ListInv'
<1>1. /\ ringAt[t][2] = "again" /\ ListTypes /\ RemovesInv
      /\ UNCHANGED <<ringNext, ringPrev, linked, elements, queue>>
  BY DEF ListInv, List!LookAgain
<1>2. CASE ringAt[t][3] \in linked
  <2>1. ringAt' = [ringAt EXCEPT ![t] = Stepped(t, "lock")] /\ ringData' = ringData
    BY <1>2 DEF List!LookAgain, List!To, List!Goto, Stepped
  <2> QED BY <1>1, <2>1, NextIsMine, OnlyTheThread
<1>3. CASE ringAt[t][3] \notin linked /\ ringAt[t][1] # "move"
  <2>1. ringAt' = [ringAt EXCEPT ![t] = List!Idle] /\ ringData' = ringData
    BY <1>3 DEF List!LookAgain, List!Goto
  <2> QED BY <1>1, <2>1, NextIsMine, OnlyTheThread
<1>4. CASE ringAt[t][3] \notin linked /\ ringAt[t][1] = "move"
  <2>1. ringAt' = [ringAt EXCEPT ![t] = List!Idle] /\ List!DataMoves(ringAt[t][4], ringAt[t][3])
    BY <1>4 DEF List!LookAgain, List!Goto
  <2>2. /\ ringAt[t][3] \in Nodes /\ ringAt[t][4] \in Nodes \ linked /\ ringAt[t][4] # ringAt[t][3]
    BY <1>1, <1>4 DEF RemovesInv, Mine
  <2> QED BY <1>1, <1>4, <2>1, <2>2, OnlyDataMoves
<1> QED BY <1>2, <1>3, <1>4

(* The move constructor and assignment look at their source, ...            *)
LEMMA BeginMoveKeeps ==
  ASSUME RingOK, ListInv, NEW n \in Nodes, NEW o \in Nodes, List!BeginMove(n, o)
  PROVE  ListInv'
<1> DEFINE t == Owner[n]
           a == <<"move", "validate", o, n>>
<1>1. /\ t \in List!Threads /\ n # o /\ n \notin linked /\ Owner[o] = t
      /\ UNCHANGED <<ringNext, ringPrev, linked, elements, queue>>
  BY DEF List!BeginMove, List!Threads
<1>2. CASE o \in linked
  <2>1. ringAt' = [ringAt EXCEPT ![t] = a] /\ ringData' = ringData
    BY <1>2 DEF List!BeginMove, List!Looks, List!Goto
  <2>2. a \in Operations /\ Mine(t, a, linked)
    BY <1>1 DEF Operations, Mine, List!Ring
  <2> QED BY <1>1, <2>1, <2>2, OnlyTheThread
<1>3. CASE o \notin linked
  <2>1. ringAt' = [ringAt EXCEPT ![t] = List!Idle] /\ List!DataMoves(n, o)
    BY <1>3 DEF List!BeginMove, List!Looks, List!Goto
  <2> QED BY <1>1, <1>3, <2>1, OnlyDataMoves
<1> QED BY <1>2, <1>3

(* ... and take its place under the lock.                                   *)
LEMMA MoveLockedKeeps ==
  ASSUME RingOK, ListInv, NEW t \in List!Threads, List!MoveLocked(t)
  PROVE  ListInv'
<1> DEFINE o == ringAt[t][3]
           n == ringAt[t][4]
           a == <<"check", "look", n, List!Root>>
<1>1. /\ ringAt[t][2] = "lock" /\ ringAt[t][1] = "move" /\ ListTypes /\ RemovesInv
      /\ UNCHANGED <<elements, queue>>
  BY DEF ListInv, List!MoveLocked
<1>2. o \in Nodes /\ Owner[o] = t /\ n \in Nodes \ linked /\ Owner[n] = t /\ n # o
  BY <1>1 DEF RemovesInv, Mine
<1>3. CASE o \in linked
  <2>1. /\ List!Becomes(List!In(List!Out(List!Links, o), ringPrev[o], n)) /\ List!DataMoves(n, o)
        /\ linked' = (linked \ {o}) \cup {n} /\ ringAt' = [ringAt EXCEPT ![t] = a]
    BY <1>3 DEF List!MoveLocked, List!Goto
  <2> HIDE DEF o, n
  <2>2. RingInv'
    BY <1>1, <1>2, <1>3, <2>1, MoveInsideKeeps
  <2>3. DataInv' /\ ringData' \in [Nodes -> Nat]
    BY <1>1, <1>2, <1>3, <2>1, DataMovesKeeps
  <2>4. RemovesInv' /\ ringAt' \in [List!Threads -> Operations]
    <3>1. a \in Operations /\ Mine(t, a, (linked \ {o}) \cup {n})
      BY <1>2 DEF Operations, Mine, List!Ring
    <3>2. \A x \in (linked \ {o}) \cup {n} : x \in linked \/ Owner[x] = t
      BY <1>2
    <3> QED BY <1>1, <2>1, <3>1, <3>2, OthersStay
  <2>5. ListTypes'
    BY <1>1, <1>2, <2>1, <2>3, <2>4 DEF ListTypes, List!Threads, Operations, List!Ring
  <2> QED BY <2>2, <2>3, <2>4, <2>5 DEF ListInv
<1>4. CASE o \notin linked
  <2>1. /\ ringAt' = [ringAt EXCEPT ![t] = Stepped(t, "failed")]
        /\ UNCHANGED <<ringNext, ringPrev, linked, ringData>>
    BY <1>4 DEF List!MoveLocked, List!To, List!Goto, Stepped
  <2> QED BY <1>1, <1>4, <2>1, NextIsMine, OnlyTheThread
<1> QED BY <1>3, <1>4

(* An empty list is the root alone.                                         *)
LEMMA RingInit ==
  ASSUME RingOK, List!Init
  PROVE  ListInv
<1> DEFINE r == [i \in 0 .. 1 |-> List!Root]
<1>0. /\ ringNext = [n \in List!Ring |-> n] /\ ringPrev = [n \in List!Ring |-> n] /\ linked = {}
      /\ ringData = [n \in Nodes |-> 0] /\ elements = 0 /\ queue = <<>>
      /\ ringAt = [t \in List!Threads |-> List!Idle]
  BY DEF List!Init
<1>1. ListTypes /\ DataInv /\ RemovesInv
  BY <1>0 DEF ListTypes, DataInv, RemovesInv, Mine, Operations, List!Idle, List!Ring, List!Root
<1>2. queue \in Seq(Nat) /\ Len(queue) = 0 /\ 0 + 1 = 1
  BY <1>0
<1>3. /\ r \in [0 .. 1 -> List!Ring] /\ r[0] = List!Root /\ r[1] = List!Root
      /\ \A i \in 0 .. 0 : i = 0
      /\ \A i \in 1 .. 0 : FALSE
  BY DEF List!Ring
<1>4. /\ ringNext \in RingLinks /\ ringPrev \in RingLinks
      /\ \A n \in List!Ring : ringNext[n] = n /\ ringPrev[n] = n
  BY <1>0 DEF RingLinks
<1>5. List!Root \in List!Ring /\ Nodes \subseteq List!Ring
  BY DEF List!Ring
<1> HIDE DEF r
<1>6. IsRing(ringNext, ringPrev, r, 0)
  <2>1. \A i \in 0 .. 0 : ringNext[r[i]] = r[i + 1] /\ ringPrev[r[i + 1]] = r[i]
    BY <1>3, <1>4, <1>5
  <2> QED BY <2>1, <1>3, <1>4, <1>5 DEF IsRing
<1>7. IsList(ringNext, ringPrev, r, 0, queue, ringData, linked)
  <2>1. linked = {r[i] : i \in 1 .. 0}
    BY <1>0, <1>3
  <2> QED BY <2>1, <1>2, <1>3, <1>6 DEF IsList
<1>8. RingInv
  BY <1>2, <1>3, <1>7 DEF RingInv
<1> QED BY <1>1, <1>8 DEF ListInv

(* Steps of other parts leave the list alone.                               *)
LEMMA RingStays ==
  ASSUME ListInv, UNCHANGED listVars
  PROVE  ListInv'
<1>0. UNCHANGED <<ringNext, ringPrev, linked, ringData, ringAt, elements, queue>>
  BY DEF listVars
<1>1. ListTypes' /\ DataInv' /\ RemovesInv'
  BY <1>0 DEF ListInv, ListTypes, DataInv, RemovesInv, Mine, Operations, List!Threads, List!Ring
<1>2. RingInv'
  BY <1>0 DEF ListInv, RingInv, List!Ring
<1> QED BY <1>1, <1>2 DEF ListInv

(* Every step of the list keeps what is known of it.                        *)
LEMMA ListStep ==
  ASSUME RingOK, ListInv, List!Next
  PROVE  ListInv'
<1>1. CASE List!get
  BY <1>1, GetKeeps
<1>2. CASE \E n \in Nodes : \/ List!BeginRemove(n) \/ List!put(n) \/ List!put_back(n)
                            \/ \E o \in Nodes : List!BeginMove(n, o)
  BY <1>2, BeginRemoveKeeps, PutKeeps, PutBackKeeps, BeginMoveKeeps
<1>3. CASE \E t \in List!Threads : \/ List!Look(t) \/ List!Validate(t) \/ List!LookAgain(t)
                                  \/ List!RemoveLocked(t) \/ List!MoveLocked(t)
  BY <1>3, LookKeeps, ValidateKeeps, LookAgainKeeps, RemoveLockedKeeps, MoveLockedKeeps
<1> QED BY <1>1, <1>2, <1>3 DEF List!Next

(* What the model says of it.                                               *)
LEMMA ListSays ==
  ASSUME RingOK, ListInv
  PROVE  List!RingIsQueue /\ List!OnlyGetFails
<1> DEFINE m == Len(queue)
<1>0. ListTypes /\ RemovesInv
  BY DEF ListInv
<1>1. PICK r \in [0 .. m + 1 -> List!Ring] : IsList(ringNext, ringPrev, r, m, queue, ringData, linked)
  BY DEF ListInv, RingInv
<1>2. /\ m \in Nat /\ r[0] = List!Root /\ r[m + 1] = List!Root
      /\ \A i \in 1 .. m : r[i] \in Nodes
      /\ \A i, j \in 1 .. m : r[i] = r[j] => i = j
      /\ \A i \in 0 .. m : ringNext[r[i]] = r[i + 1] /\ ringPrev[r[i + 1]] = r[i]
      /\ \A n \in Nodes : (\A i \in 1 .. m : r[i] # n) => ringNext[n] = n /\ ringPrev[n] = n
      /\ \A i \in 1 .. m : ringData[r[i]] = queue[i]
      /\ linked = {r[i] : i \in 1 .. m}
  BY <1>1 DEF IsList, IsRing
<1>3. List!RingIsQueue
  <2> DEFINE nodes == [i \in 1 .. m |-> r[i]]
             s == [i \in 0 .. m + 1 |-> IF i \in 1 .. m THEN nodes[i] ELSE List!Root]
  <2>1. nodes \in [1 .. m -> Nodes] /\ \A i \in 1 .. m : nodes[i] = r[i]
    BY <1>2
  <2>2. ASSUME NEW i \in 0 .. m + 1 PROVE s[i] = r[i]
    <3>1. i = 0 \/ i = m + 1 \/ i \in 1 .. m
      BY <1>2
    <3> QED BY <3>1, <1>2, <2>1
  <2>3. \A i \in 0 .. m : ringNext[s[i]] = s[i + 1] /\ ringPrev[s[i + 1]] = s[i]
    <3> HIDE DEF s
    <3>1. \A i \in 0 .. m : i \in 0 .. m + 1 /\ i + 1 \in 0 .. m + 1
      BY <1>2
    <3> QED BY <3>1, <2>2, <1>2
  <2>4. /\ \A i, j \in 1 .. m : nodes[i] = nodes[j] => i = j
        /\ \A i \in 1 .. m : ringData[nodes[i]] = queue[i]
        /\ linked = {nodes[i] : i \in 1 .. m}
    BY <2>1, <1>2
  <2>5. \A n \in Nodes \ linked : ringNext[n] = n /\ ringPrev[n] = n
    BY <1>2
  <2> QED BY <2>1, <2>3, <2>4, <2>5 DEF List!RingIsQueue
<1>4. List!OnlyGetFails
  BY <1>0 DEF List!OnlyGetFails, RemovesInv, Mine
<1> QED BY <1>3, <1>4

----------------------------------------------------------------------------
(* Proofs: CancellationToken                                               *)

(* A flag is set when it was made and no source holds it, and each source   *)
(* has a flag of its own.                                                   *)
TokenInv ==
  /\ raws \in 0 .. MaxRaws /\ is_cancelled \in [1 .. MaxRaws -> BOOLEAN]
  /\ source \in [Sources -> 0 .. raws] /\ token \in [Tokens -> 0 .. raws]
  /\ \A i \in 1 .. MaxRaws : is_cancelled[i] <=> (i <= raws /\ \A s \in Sources : source[s] # i)
  /\ \A s, o \in Sources : source[s] = source[o] => s = o \/ source[s] = 0

(* What cancel, the destructor and an assignment do to the flags: that of   *)
(* the source is set, which no other source holds.                          *)
LEMMA CancelSets ==
  ASSUME TokenOK, TokenInv, NEW s \in Sources, NEW f, f = Token!Cancelled(s)
  PROVE  /\ f \in [1 .. MaxRaws -> BOOLEAN]
         /\ \A i \in 1 .. MaxRaws : f[i] <=> (i <= raws /\ \A o \in Sources : o # s => source[o] # i)
<1>0. source[s] \in 0 .. raws /\ raws \in 0 .. MaxRaws /\ is_cancelled \in [1 .. MaxRaws -> BOOLEAN]
  BY DEF TokenInv
<1>1. CASE source[s] = 0
  <2>1. f = is_cancelled
    BY <1>1 DEF Token!Cancelled, Token!Null
  <2>2. \A i \in 1 .. MaxRaws : source[s] # i
    BY <1>1
  <2> QED BY <2>1, <2>2 DEF TokenInv
<1>2. CASE source[s] # 0
  <2>1. f = [is_cancelled EXCEPT ![source[s]] = TRUE]
    BY <1>2 DEF Token!Cancelled, Token!Null
  <2>2. source[s] \in 1 .. MaxRaws /\ source[s] <= raws
    BY <1>0, <1>2 DEF TokenOK
  <2>3. f \in [1 .. MaxRaws -> BOOLEAN] /\ (f[source[s]] <=> TRUE)
        /\ \A i \in 1 .. MaxRaws : i # source[s] => (f[i] <=> is_cancelled[i])
    BY <2>1, <2>2, <1>0
  <2>4. \A o \in Sources : o # s => source[o] # source[s]
    BY <1>2 DEF TokenInv
  <2>5. ASSUME NEW i \in 1 .. MaxRaws
        PROVE  f[i] <=> (i <= raws /\ \A o \in Sources : o # s => source[o] # i)
    <3>1. CASE i = source[s]
      BY <3>1, <2>2, <2>3, <2>4
    <3>2. CASE i # source[s]
      <4>1. f[i] <=> is_cancelled[i]
        BY <3>2, <2>3
      <4>2. is_cancelled[i] <=> (i <= raws /\ \A o \in Sources : source[o] # i)
        BY DEF TokenInv
      <4> QED BY <3>2, <4>1, <4>2
    <3> QED BY <3>1, <3>2
  <2> QED BY <2>3, <2>5
<1> QED BY <1>1, <1>2

(* No flag has been made.                                                   *)
LEMMA TokenInit ==
  ASSUME TokenOK, Token!Init
  PROVE  TokenInv
BY DEF TokenOK, Token!Init, Token!Null, TokenInv

(* Steps of other parts leave the flags alone.                              *)
LEMMA TokenStays ==
  ASSUME TokenInv, UNCHANGED tokenVars
  PROVE  TokenInv'
BY DEF TokenInv, tokenVars

(* A token of a source: of the flag it holds, or of a new one.              *)
LEMMA GetTokenKeeps ==
  ASSUME TokenOK, TokenInv, NEW s \in Sources, NEW t \in Tokens, Token!get_cancellation_token(s, t)
  PROVE  TokenInv'
<1> DEFINE i == IF source[s] = 0 THEN raws + 1 ELSE source[s]
<1>0. /\ i <= MaxRaws /\ raws' = (IF source[s] = 0 THEN i ELSE raws)
      /\ source' = [source EXCEPT ![s] = i] /\ token' = [token EXCEPT ![t] = i]
      /\ is_cancelled' = is_cancelled
  BY DEF Token!get_cancellation_token, Token!Null
<1>1. /\ raws \in 0 .. MaxRaws /\ source \in [Sources -> 0 .. raws] /\ token \in [Tokens -> 0 .. raws]
      /\ source[s] \in 0 .. raws /\ is_cancelled \in [1 .. MaxRaws -> BOOLEAN]
  BY DEF TokenInv
<1>2. /\ raws' \in 0 .. MaxRaws /\ raws <= raws' /\ i \in 1 .. raws'
      /\ (source[s] = 0 => i = raws + 1 /\ raws' = raws + 1)
      /\ (source[s] # 0 => i = source[s] /\ raws' = raws)
  BY <1>0, <1>1 DEF TokenOK
<1> HIDE DEF i
<1>3. source' \in [Sources -> 0 .. raws'] /\ token' \in [Tokens -> 0 .. raws']
  <2>1. 0 .. raws \subseteq 0 .. raws' /\ i \in 0 .. raws'
    BY <1>1, <1>2
  <2> QED BY <2>1, <1>0, <1>1
<1>4. source'[s] = i /\ \A o \in Sources : o # s => source'[o] = source[o]
  BY <1>0, <1>1
<1>5. \A o \in Sources : o # s => source[o] # i
  <2> TAKE o \in Sources
  <2>1. source[o] \in 0 .. raws
    BY <1>1
  <2> QED BY <2>1, <1>1, <1>2 DEF TokenInv
<1>6. ASSUME NEW k \in 1 .. MaxRaws
      PROVE  is_cancelled'[k] <=> (k <= raws' /\ \A o \in Sources : source'[o] # k)
  <2>1. is_cancelled[k] <=> (k <= raws /\ \A o \in Sources : source[o] # k)
    BY DEF TokenInv
  <2>2. CASE k = i
    <3>1. ~(k <= raws) \/ source[s] = k
      BY <2>2, <1>1, <1>2
    <3> QED BY <2>1, <2>2, <3>1, <1>0, <1>4
  <2>3. CASE k # i
    <3>1. k <= raws' <=> k <= raws
      BY <2>3, <1>1, <1>2
    <3>2. source[s] # k
      BY <2>3, <1>1, <1>2
    <3>3. (\A o \in Sources : source'[o] # k) <=> (\A o \in Sources : source[o] # k)
      BY <2>3, <3>2, <1>4
    <3> QED BY <2>1, <3>1, <3>3, <1>0
  <2> QED BY <2>2, <2>3
<1>7. \A u, o \in Sources : source'[u] = source'[o] => u = o \/ source'[u] = 0
  BY <1>4, <1>5 DEF TokenInv
<1> QED BY <1>0, <1>1, <1>2, <1>3, <1>6, <1>7 DEF TokenInv

(* cancel, and the assignment of a source to itself.                        *)
LEMMA CancelKeeps ==
  ASSUME TokenOK, TokenInv, NEW s \in Sources, is_cancelled' = Token!Cancelled(s),
         source' = [source EXCEPT ![s] = 0], UNCHANGED <<raws, token>>
  PROVE  TokenInv'
<1>1. /\ is_cancelled' \in [1 .. MaxRaws -> BOOLEAN]
      /\ \A i \in 1 .. MaxRaws : is_cancelled'[i] <=> (i <= raws /\ \A o \in Sources : o # s => source[o] # i)
  BY CancelSets
<1>2. raws \in 0 .. MaxRaws /\ source \in [Sources -> 0 .. raws]
  BY DEF TokenInv
<1>3. /\ source' \in [Sources -> 0 .. raws] /\ source'[s] = 0
      /\ \A o \in Sources : o # s => source'[o] = source[o]
  BY <1>2
<1>4. ASSUME NEW i \in 1 .. MaxRaws
      PROVE  is_cancelled'[i] <=> (i <= raws /\ \A o \in Sources : source'[o] # i)
  <2>1. i # 0
    OBVIOUS
  <2> QED BY <2>1, <1>1, <1>3
<1>5. \A u, o \in Sources : source'[u] = source'[o] => u = o \/ source'[u] = 0
  BY <1>3 DEF TokenInv
<1> QED BY <1>1, <1>2, <1>3, <1>4, <1>5 DEF TokenInv

(* The move assignment of another source passes its flag on.                *)
LEMMA MoveSourceKeeps ==
  ASSUME TokenOK, TokenInv, NEW s \in Sources, NEW o \in Sources, Token!MoveSource(s, o)
  PROVE  TokenInv'
<1>0. is_cancelled' = Token!Cancelled(s) /\ UNCHANGED <<raws, token>>
      /\ source' = (IF s = o THEN [source EXCEPT ![s] = 0] ELSE [source EXCEPT ![s] = source[o], ![o] = 0])
  BY DEF Token!MoveSource, Token!Null
<1>1. CASE s = o
  BY <1>0, <1>1, CancelKeeps
<1>2. CASE s # o
  <2>1. /\ is_cancelled' \in [1 .. MaxRaws -> BOOLEAN]
        /\ \A i \in 1 .. MaxRaws : is_cancelled'[i] <=> (i <= raws /\ \A u \in Sources : u # s => source[u] # i)
    BY <1>0, CancelSets
  <2>2. raws \in 0 .. MaxRaws /\ source \in [Sources -> 0 .. raws]
    BY DEF TokenInv
  <2>3. /\ source' \in [Sources -> 0 .. raws] /\ source'[s] = source[o] /\ source'[o] = 0
        /\ \A u \in Sources : u # s /\ u # o => source'[u] = source[u]
    BY <2>2, <1>0, <1>2
  <2>4. ASSUME NEW i \in 1 .. MaxRaws
        PROVE  is_cancelled'[i] <=> (i <= raws /\ \A u \in Sources : source'[u] # i)
    <3>1. i # 0
      OBVIOUS
    <3>2. (\A u \in Sources : source'[u] # i) <=> (\A u \in Sources : u # s => source[u] # i)
      BY <3>1, <1>2, <2>3
    <3> QED BY <3>2, <2>1
  <2>5. ASSUME NEW u \in Sources, NEW v \in Sources, source'[u] = source'[v], u # v, source'[u] # 0 PROVE FALSE
    <3>1. \A x, y \in Sources : source[x] = source[y] => x = y \/ source[x] = 0
      BY DEF TokenInv
    <3>2. u # o /\ v # o
      BY <2>3, <2>5
    <3>3. CASE u = s
      <4>1. source[o] = source[v] /\ source[o] # 0
        BY <3>2, <3>3, <2>3, <2>5
      <4> QED BY <3>1, <3>2, <4>1
    <3>4. CASE v = s
      <4>1. source[o] = source[u] /\ source[o] # 0
        BY <3>2, <3>4, <2>3, <2>5
      <4> QED BY <3>1, <3>2, <4>1
    <3>5. CASE u # s /\ v # s
      BY <3>1, <3>2, <3>5, <2>3, <2>5
    <3> QED BY <3>3, <3>4, <3>5
  <2> QED BY <1>0, <2>1, <2>2, <2>3, <2>4, <2>5 DEF TokenInv
<1> QED BY <1>1, <1>2

(* Every step of sources and tokens keeps what is known of them.            *)
LEMMA TokenStep ==
  ASSUME TokenOK, TokenInv, Token!Next
  PROVE  TokenInv'
<1>1. CASE \E s \in Sources : Token!cancel(s)
  BY <1>1, CancelKeeps DEF Token!cancel, Token!Null
<1>2. CASE \E s \in Sources, t \in Tokens : Token!get_cancellation_token(s, t)
  BY <1>2, GetTokenKeeps
<1>3. CASE \E s, o \in Sources : Token!MoveSource(s, o)
  BY <1>3, MoveSourceKeeps
<1>4. CASE \E t, u \in Tokens : t # u /\ Token!CopyToken(t, u)
  BY <1>4 DEF Token!CopyToken, TokenInv
<1> QED BY <1>1, <1>2, <1>3, <1>4 DEF Token!Next

(* What the model says of them.                                             *)
LEMMA TokenSays ==
  ASSUME TokenOK, TokenInv
  PROVE  Token!UncancelledHasSource /\ Token!SourcesAreDistinct
<1>1. ASSUME NEW t \in Tokens, token[t] # 0
      PROVE  Token!IsCancelled(t) <=> \A s \in Sources : source[s] # token[t]
  <2>1. token[t] \in 1 .. MaxRaws /\ token[t] <= raws
    BY <1>1 DEF TokenInv, TokenOK
  <2> QED BY <2>1, <1>1 DEF Token!IsCancelled, Token!Null, TokenInv
<1>2. Token!UncancelledHasSource
  BY <1>1 DEF Token!UncancelledHasSource, Token!Null
<1> QED BY <1>2 DEF Token!SourcesAreDistinct, Token!Null, TokenInv

(* TsList and CancellationToken, for every number of nodes and threads, of  *)
(* sources, tokens and flags: read either way round the list is the         *)
(* elements put and not yet taken, in order, whoever puts, moves, removes   *)
(* and takes them; and a token is uncancelled exactly while one source      *)
(* holds its flag.                                                          *)
THEOREM LinksHoldCorrect == MCSpec => []LinksHold
<1> DEFINE I == (part = "List" => ListInv) /\ (part = "Token" => TokenInv)
<1>1. MCInit => I
  BY LinksAssumption, RingInit, TokenInit DEF MCInit
<1>2. I /\ [MCNext]_mc_vars => I'
  <2> SUFFICES ASSUME I, [MCNext]_mc_vars PROVE I'
    OBVIOUS
  <2>1. CASE UNCHANGED mc_vars
    BY <2>1, RingStays, TokenStays DEF mc_vars
  <2>2. CASE MCNext
    <3>1. UNCHANGED part
      BY <2>2 DEF MCNext
    <3>2. ASSUME part = "List" PROVE ListInv'
      BY <2>2, <3>2, LinksAssumption, ListStep DEF MCNext
    <3>3. ASSUME part = "Token" PROVE TokenInv'
      BY <2>2, <3>3, LinksAssumption, TokenStep DEF MCNext
    <3> QED BY <3>1, <3>2, <3>3
  <2> QED BY <2>1, <2>2
<1>3. I => LinksHold
  BY LinksAssumption, ListSays, TokenSays DEF LinksHold
<1> QED BY <1>1, <1>2, <1>3, PTL DEF MCSpec
----------------------------------------------------------------------------
(* Proofs: SharedObjectPool                                                *)

(* SharedObjectPool: no Raw is at the address 0, and the threads are        *)
(* finitely many.                                                           *)
PtrsOK == Shared!Null \notin Raws /\ IsFiniteSet(PtrThreads)
ASSUME PtrsAssumption == PtrsOK

Reversing == {"count", "take"}
Allocating == {"take", "alloc"}
Flying == {"destroy", "free", "push"}

PtrTypes ==
  /\ allocated \subseteq Raws /\ freed \in Seq(Raws)
  /\ DOMAIN rawNext = Raws /\ DOMAIN rawData = Raws /\ DOMAIN cnt = Raws
  /\ DOMAIN ptr = PtrThreads /\ DOMAIN rawAt = PtrThreads

(* What the pointers of threads refer to, and what those they are assigned  *)
(* will refer to.                                                           *)
Owned == [t \in PtrThreads |-> ptr[t].raw]
Coming == [t \in PtrThreads |-> IF rawAt[t][1] = "reset" THEN rawAt[t][2] ELSE Shared!Null]

(* ref_cnt_ counts both, and both refer to the object they were made for.   *)
HeldBy(h, r) == Cardinality({t \in PtrThreads : h[t] = r})
CountOK == \A r \in Raws : cnt[r] = HeldBy(Owned, r) + HeldBy(Coming, r)
AliveOK ==
  \A t \in PtrThreads :
    /\ ptr[t] = Shared!Empty \/ (ptr[t].raw \in Raws /\ rawData[ptr[t].raw] = ptr[t].obj)
    /\ rawAt[t][1] = "reset" =>
         \/ rawAt[t][2] = Shared!Null /\ rawAt[t][3] = 0
         \/ rawAt[t][2] \in Raws /\ rawData[rawAt[t][2]] = rawAt[t][3]

(* Only Pool allocates, with an empty pointer, and add works on something.  *)
CallersOK ==
  /\ \A t \in PtrThreads :
       /\ rawAt[t][1] \in Reversing \cup Allocating => t = Pool
       /\ rawAt[t][1] \in Allocating => ptr[t] = Shared!Empty
       /\ rawAt[t][1] \in Reversing => adding.node # Shared!Null \/ adding.head # Shared!Null
  /\ (\A t \in PtrThreads : rawAt[t][1] \notin Reversing) =>
       adding.node = Shared!Null /\ adding.head = Shared!Null

(* A Raw that is not referred to is on its way to the queue or on it, and   *)
(* has no object there.                                                     *)
FreeRaws == {freed[i] : i \in 1 .. Len(freed)}
WayOK ==
  /\ \A t \in PtrThreads : rawAt[t][1] \in Flying =>
       /\ rawAt[t][2] \in allocated /\ cnt[rawAt[t][2]] = 0 /\ rawAt[t][2] \notin FreeRaws
       /\ rawAt[t][1] # "destroy" => rawData[rawAt[t][2]] = 0
       /\ rawAt[t][1] = "push" => rawNext[rawAt[t][2]] = rawAt[t][3]
  /\ \A t, u \in PtrThreads :
       rawAt[t][1] \in Flying /\ rawAt[u][1] \in Flying /\ rawAt[t][2] = rawAt[u][2] => t = u
FreeOK ==
  /\ \A i, j \in 1 .. Len(freed) : freed[i] = freed[j] => i = j
  /\ \A i \in 1 .. Len(freed) : freed[i] \in allocated /\ cnt[freed[i]] = 0 /\ rawData[freed[i]] = 0
SomewhereOK ==
  /\ \A r \in Raws \ allocated : cnt[r] = 0
  /\ \A r \in allocated : cnt[r] = 0 => r \in FreeRaws \/ \E t \in PtrThreads : Shared!Releases(t, r)

SharedInv == /\ PtrTypes /\ CountOK /\ AliveOK /\ CallersOK /\ WayOK /\ FreeOK /\ SomewhereOK
             /\ Shared!FreeIsFifo

(* Shared!OldestFirst and NewestFirst of any list.                          *)
Up(nx, f, a, b, first) ==
  /\ first = IF a = b THEN Shared!Null ELSE f[a + 1]
  /\ \A i \in a + 1 .. b : nx[f[i]] = IF i = b THEN Shared!Null ELSE f[i + 1]
Down(nx, f, a, b, first) ==
  /\ first = IF a = b THEN Shared!Null ELSE f[b]
  /\ \A i \in a + 1 .. b : nx[f[i]] = IF i = a + 1 THEN Shared!Null ELSE f[i - 1]
Fifo(nx, f, n, k, j, l, rh, rt, ad, top) ==
  /\ k \in 0 .. n /\ j \in 0 .. n /\ l \in 0 .. n /\ k <= j /\ j <= l
  /\ Up(nx, f, 0, k, rh) /\ Down(nx, f, k, j, ad.node) /\ Up(nx, f, j, l, ad.head) /\ Down(nx, f, l, n, top)
  /\ (k > 0 => rt = f[k]) /\ (l > k => ad.tail = f[l])
IsFifo == \E k, j, l \in Nat : Fifo(rawNext, freed, Len(freed), k, j, l, rhead, rtail, adding, rawHead)

(* Raws a + 1 to b are the same, with the same next_; or one place on.      *)
Same(nx, ny, f, g, a, b) == \A i \in a + 1 .. b : g[i] = f[i] /\ ny[f[i]] = nx[f[i]]
Later(f, g, a, b) == \A i \in a + 1 .. b : g[i] = f[i + 1]

(* A list that a step leaves alone.                                         *)
LEMMA UpSame ==
  ASSUME NEW nx, NEW ny, NEW f, NEW g, NEW a \in Nat, NEW b \in Nat, NEW x, a <= b,
         Same(nx, ny, f, g, a, b), Up(nx, f, a, b, x)
  PROVE  Up(ny, g, a, b, x)
<1>1. x = IF a = b THEN Shared!Null ELSE g[a + 1]
  <2>1. a # b => a + 1 \in a + 1 .. b
    OBVIOUS
  <2> QED BY <2>1 DEF Up, Same
<1>2. ASSUME NEW i \in a + 1 .. b PROVE ny[g[i]] = IF i = b THEN Shared!Null ELSE g[i + 1]
  <2>1. i # b => i + 1 \in a + 1 .. b
    OBVIOUS
  <2>2. nx[f[i]] = IF i = b THEN Shared!Null ELSE f[i + 1]
    BY DEF Up
  <2>3. g[i] = f[i] /\ ny[f[i]] = nx[f[i]]
    BY DEF Same
  <2>4. i # b => g[i + 1] = f[i + 1]
    BY <2>1 DEF Same
  <2> QED BY <2>2, <2>3, <2>4
<1> QED BY <1>1, <1>2 DEF Up

(* The same of a list with the newest first.                                *)
LEMMA DownSame ==
  ASSUME NEW nx, NEW ny, NEW f, NEW g, NEW a \in Nat, NEW b \in Nat, NEW x, a <= b,
         Same(nx, ny, f, g, a, b), Down(nx, f, a, b, x)
  PROVE  Down(ny, g, a, b, x)
<1>1. x = IF a = b THEN Shared!Null ELSE g[b]
  <2>1. a # b => b \in a + 1 .. b
    OBVIOUS
  <2> QED BY <2>1 DEF Down, Same
<1>2. ASSUME NEW i \in a + 1 .. b PROVE ny[g[i]] = IF i = a + 1 THEN Shared!Null ELSE g[i - 1]
  <2>1. i # a + 1 => i - 1 \in a + 1 .. b
    OBVIOUS
  <2>2. nx[f[i]] = IF i = a + 1 THEN Shared!Null ELSE f[i - 1]
    BY DEF Down
  <2>3. g[i] = f[i] /\ ny[f[i]] = nx[f[i]]
    BY DEF Same
  <2>4. i # a + 1 => g[i - 1] = f[i - 1]
    BY <2>1 DEF Same
  <2> QED BY <2>2, <2>3, <2>4
<1> QED BY <1>1, <1>2 DEF Down

(* The same list when its oldest is taken from the queue.                   *)
LEMMA UpShift ==
  ASSUME NEW nx, NEW f, NEW g, NEW a \in Nat, NEW b \in Nat, NEW x, a <= b,
         Later(f, g, a, b), Up(nx, f, a + 1, b + 1, x)
  PROVE  Up(nx, g, a, b, x)
<1>1. x = IF a = b THEN Shared!Null ELSE g[a + 1]
  <2>1. a # b => a + 1 \in a + 1 .. b
    OBVIOUS
  <2>2. a = b <=> a + 1 = b + 1
    OBVIOUS
  <2>3. a # b => g[a + 1] = f[(a + 1) + 1]
    BY <2>1 DEF Later
  <2> QED BY <2>2, <2>3 DEF Up
<1>2. ASSUME NEW i \in a + 1 .. b PROVE nx[g[i]] = IF i = b THEN Shared!Null ELSE g[i + 1]
  <2>1. (i # b => i + 1 \in a + 1 .. b) /\ i + 1 \in (a + 1) + 1 .. b + 1 /\ (i + 1 = b + 1 <=> i = b)
    OBVIOUS
  <2>2. nx[f[i + 1]] = IF i + 1 = b + 1 THEN Shared!Null ELSE f[(i + 1) + 1]
    BY <2>1 DEF Up
  <2>3. g[i] = f[i + 1] /\ (i # b => g[i + 1] = f[(i + 1) + 1])
    BY <2>1 DEF Later
  <2> QED BY <2>1, <2>2, <2>3
<1> QED BY <1>1, <1>2 DEF Up

(* The same of a list with the newest first.                                *)
LEMMA DownShift ==
  ASSUME NEW nx, NEW f, NEW g, NEW a \in Nat, NEW b \in Nat, NEW x, a <= b,
         Later(f, g, a, b), Down(nx, f, a + 1, b + 1, x)
  PROVE  Down(nx, g, a, b, x)
<1>1. x = IF a = b THEN Shared!Null ELSE g[b]
  <2>1. a # b => b \in a + 1 .. b
    OBVIOUS
  <2>2. a = b <=> a + 1 = b + 1
    OBVIOUS
  <2> QED BY <2>1, <2>2 DEF Down, Later
<1>2. ASSUME NEW i \in a + 1 .. b PROVE nx[g[i]] = IF i = a + 1 THEN Shared!Null ELSE g[i - 1]
  <2>1. /\ (i # a + 1 => i - 1 \in a + 1 .. b) /\ i + 1 \in (a + 1) + 1 .. b + 1
        /\ (i + 1 = (a + 1) + 1 <=> i = a + 1) /\ (i + 1) - 1 = i /\ (i - 1) + 1 = i
    OBVIOUS
  <2>2. nx[f[i + 1]] = IF i + 1 = (a + 1) + 1 THEN Shared!Null ELSE f[(i + 1) - 1]
    BY <2>1 DEF Down
  <2>3. g[i] = f[i + 1] /\ (i # a + 1 => g[i - 1] = f[(i - 1) + 1])
    BY <2>1 DEF Later
  <2> QED BY <2>1, <2>2, <2>3
<1> QED BY <1>1, <1>2 DEF Down

(* What the queue is made of.                                               *)
LEMMA FreedIs ==
  ASSUME PtrTypes
  PROVE  Len(freed) \in Nat /\ \A i \in 1 .. Len(freed) : freed[i] \in Raws
BY DEF PtrTypes

(* Shared!FreeIsFifo is a statement about these lists.                      *)
LEMMA FifoIs ==
  ASSUME PtrTypes
  PROVE  Shared!FreeIsFifo <=> IsFifo
<1>1. Len(freed) \in Nat
  BY FreedIs
<1>2. ASSUME Shared!FreeIsFifo PROVE IsFifo
  <2>1. PICK k, j, l \in 0 .. Len(freed) :
          /\ k <= j /\ j <= l /\ Shared!OldestFirst(0, k, rhead)
          /\ Shared!NewestFirst(k, j, adding.node) /\ Shared!OldestFirst(j, l, adding.head)
          /\ Shared!NewestFirst(l, Len(freed), rawHead)
          /\ (k > 0 => rtail = freed[k]) /\ (l > k => adding.tail = freed[l])
    BY <1>2 DEF Shared!FreeIsFifo
  <2>2. Fifo(rawNext, freed, Len(freed), k, j, l, rhead, rtail, adding, rawHead)
    BY <2>1 DEF Fifo, Up, Down, Shared!OldestFirst, Shared!NewestFirst
  <2>3. k \in Nat /\ j \in Nat /\ l \in Nat
    BY <2>1, <1>1
  <2> QED BY <2>2, <2>3 DEF IsFifo
<1>3. ASSUME IsFifo PROVE Shared!FreeIsFifo
  <2>1. PICK k, j, l \in Nat : Fifo(rawNext, freed, Len(freed), k, j, l, rhead, rtail, adding, rawHead)
    BY <1>3 DEF IsFifo
  <2>2. /\ k \in 0 .. Len(freed) /\ j \in 0 .. Len(freed) /\ l \in 0 .. Len(freed) /\ k <= j /\ j <= l
        /\ Shared!OldestFirst(0, k, rhead)
        /\ Shared!NewestFirst(k, j, adding.node) /\ Shared!OldestFirst(j, l, adding.head)
        /\ Shared!NewestFirst(l, Len(freed), rawHead)
        /\ (k > 0 => rtail = freed[k]) /\ (l > k => adding.tail = freed[l])
    BY <2>1 DEF Fifo, Up, Down, Shared!OldestFirst, Shared!NewestFirst
  <2> QED BY <2>2 DEF Shared!FreeIsFifo
<1> QED BY <1>2, <1>3

(* A step that writes the next_ of a Raw that is not on the queue.          *)
LEMMA OffQueue ==
  ASSUME PtrTypes, IsFifo, UNCHANGED <<freed, rhead, rtail, adding, rawHead>>,
         \A i \in 1 .. Len(freed) : rawNext'[freed[i]] = rawNext[freed[i]]
  PROVE  IsFifo'
<1> DEFINE n == Len(freed)
<1>1. n \in Nat
  BY FreedIs
<1>2. PICK k, j, l \in Nat : Fifo(rawNext, freed, n, k, j, l, rhead, rtail, adding, rawHead)
  BY DEF IsFifo
<1>3. k <= j /\ j <= l /\ l <= n
  BY <1>1, <1>2 DEF Fifo
<1>4. \A i \in 1 .. n : freed[i] = freed[i] /\ rawNext'[freed[i]] = rawNext[freed[i]]
  OBVIOUS
<1> HIDE DEF n
<1>5. ASSUME NEW a \in Nat, NEW b \in Nat, b <= n
      PROVE  Same(rawNext, rawNext', freed, freed, a, b)
  <2>1. \A i \in a + 1 .. b : i \in 1 .. n
    BY <1>1, <1>5
  <2> QED BY <2>1, <1>4 DEF Same
<1>6. /\ Up(rawNext, freed, 0, k, rhead) /\ Down(rawNext, freed, k, j, adding.node)
      /\ Up(rawNext, freed, j, l, adding.head) /\ Down(rawNext, freed, l, n, rawHead)
  BY <1>2 DEF Fifo
<1>7. 0 \in Nat /\ 0 <= k /\ k <= n /\ j <= n
  BY <1>1, <1>3
<1>8. Up(rawNext', freed, 0, k, rhead)
  BY <1>5, <1>6, <1>7, UpSame
<1>9. Down(rawNext', freed, k, j, adding.node)
  BY <1>3, <1>5, <1>6, <1>7, DownSame
<1>10. Up(rawNext', freed, j, l, adding.head)
  BY <1>3, <1>5, <1>6, UpSame
<1>11. Down(rawNext', freed, l, n, rawHead)
  <2>1. Same(rawNext, rawNext', freed, freed, l, n)
    <3>1. n <= n
      BY <1>1
    <3> QED BY <3>1, <1>1, <1>5
  <2> QED BY <2>1, <1>1, <1>3, <1>6, DownSame
<1>12. Fifo(rawNext', freed, n, k, j, l, rhead, rtail, adding, rawHead)
  BY <1>2, <1>8, <1>9, <1>10, <1>11 DEF Fifo
<1>13. IsFifo' <=> \E a, b, c \in Nat : Fifo(rawNext', freed, n, a, b, c, rhead, rtail, adding, rawHead)
  BY DEF IsFifo, n
<1> QED BY <1>12, <1>13

(* The exchange of push: a Raw that points to the top becomes the top.      *)
LEMMA PushFifo ==
  ASSUME PtrTypes, IsFifo, NEW r \in Raws, rawNext[r] = rawHead, rawHead' = r,
         freed' = Append(freed, r), UNCHANGED <<rawNext, rhead, rtail, adding>>
  PROVE  IsFifo'
<1> DEFINE n == Len(freed)
           f == freed'
           m == n + 1
<1>1. n \in Nat /\ m \in Nat /\ m = n + 1 /\ n <= m
  BY FreedIs
<1>2. PICK k, j, l \in Nat : Fifo(rawNext, freed, n, k, j, l, rhead, rtail, adding, rawHead)
  BY DEF IsFifo
<1>3. k <= j /\ j <= l /\ l <= n /\ 0 <= k /\ 0 \in Nat
  BY <1>1, <1>2 DEF Fifo
<1>4. Len(f) = m /\ f[m] = r /\ \A i \in 1 .. n : f[i] = freed[i]
  BY DEF PtrTypes
<1>5. IsFifo' <=> \E a, b, c \in Nat : Fifo(rawNext, f, Len(f), a, b, c, rhead, rtail, adding, r)
  BY DEF IsFifo
<1> HIDE DEF n, f, m
<1>6. /\ Up(rawNext, freed, 0, k, rhead) /\ Down(rawNext, freed, k, j, adding.node)
      /\ Up(rawNext, freed, j, l, adding.head) /\ Down(rawNext, freed, l, n, rawHead)
  BY <1>2 DEF Fifo
<1>7. ASSUME NEW a \in Nat, NEW b \in Nat, b <= n
      PROVE  Same(rawNext, rawNext, freed, f, a, b)
  <2>1. \A i \in a + 1 .. b : i \in 1 .. n
    BY <1>1, <1>7
  <2> QED BY <2>1, <1>4 DEF Same
<1>8. k <= n /\ j <= n /\ n <= n
  BY <1>1, <1>3
<1>9. Up(rawNext, f, 0, k, rhead)
  BY <1>3, <1>6, <1>7, <1>8, UpSame
<1>10. Down(rawNext, f, k, j, adding.node)
  BY <1>3, <1>6, <1>7, <1>8, DownSame
<1>11. Up(rawNext, f, j, l, adding.head)
  BY <1>3, <1>6, <1>7, UpSame
<1>12. Down(rawNext, f, l, n, rawHead)
  BY <1>1, <1>3, <1>6, <1>7, <1>8, DownSame
<1>13. Down(rawNext, f, l, m, r)
  <2>1. l # m
    BY <1>1, <1>3
  <2>2. ASSUME NEW i \in l + 1 .. m PROVE rawNext[f[i]] = IF i = l + 1 THEN Shared!Null ELSE f[i - 1]
    <3>1. CASE i = m
      <4>1. rawNext[f[i]] = rawHead /\ i - 1 = n
        BY <3>1, <1>1, <1>4
      <4>2. rawHead = IF l = n THEN Shared!Null ELSE f[n]
        BY <1>12 DEF Down
      <4>3. l = n <=> i = l + 1
        BY <3>1, <1>1
      <4> QED BY <4>1, <4>2, <4>3
    <3>2. CASE i # m
      <4>1. i \in l + 1 .. n
        BY <3>2, <1>1
      <4> QED BY <4>1, <1>12 DEF Down
    <3> QED BY <3>1, <3>2
  <2> QED BY <2>1, <2>2, <1>4 DEF Down
<1>14. (k > 0 => rtail = f[k]) /\ (l > k => adding.tail = f[l])
  <2>1. (k > 0 => rtail = freed[k] /\ k \in 1 .. n) /\ (l > k => adding.tail = freed[l] /\ l \in 1 .. n)
    BY <1>1, <1>2, <1>3 DEF Fifo
  <2> QED BY <2>1, <1>4
<1>15. k \in 0 .. m /\ j \in 0 .. m /\ l \in 0 .. m
  BY <1>1, <1>3
<1>16. Fifo(rawNext, f, m, k, j, l, rhead, rtail, adding, r)
  BY <1>3, <1>9, <1>10, <1>11, <1>13, <1>14, <1>15 DEF Fifo
<1> QED BY <1>4, <1>5, <1>16

(* Outside of add there is nothing between the reader's list and the stack. *)
LEMMA NothingBetween ==
  ASSUME PtrsOK, PtrTypes, NEW k \in Nat, NEW j \in Nat, NEW l \in Nat,
         Fifo(rawNext, freed, Len(freed), k, j, l, rhead, rtail, adding, rawHead)
  PROVE  /\ adding.node = Shared!Null => k = j
         /\ adding.head = Shared!Null => j = l
         /\ rhead = Shared!Null => k = 0
         /\ rawHead = Shared!Null => l = Len(freed)
<1> DEFINE n == Len(freed)
<1>1. n \in Nat /\ \A i \in 1 .. n : freed[i] \in Raws /\ freed[i] # Shared!Null
  BY FreedIs DEF PtrsOK
<1>2. /\ k <= j /\ j <= l /\ l <= n
      /\ Up(rawNext, freed, 0, k, rhead) /\ Down(rawNext, freed, k, j, adding.node)
      /\ Up(rawNext, freed, j, l, adding.head) /\ Down(rawNext, freed, l, n, rawHead)
  BY <1>1 DEF Fifo
<1> HIDE DEF n
<1>3. adding.node = Shared!Null => k = j
  <2>1. k # j => j \in 1 .. n /\ adding.node = freed[j]
    BY <1>1, <1>2 DEF Down
  <2> QED BY <2>1, <1>1
<1>4. adding.head = Shared!Null => j = l
  <2>1. j # l => j + 1 \in 1 .. n /\ adding.head = freed[j + 1]
    BY <1>1, <1>2 DEF Up
  <2> QED BY <2>1, <1>1
<1>5. rhead = Shared!Null => k = 0
  <2>1. 0 # k => 0 + 1 \in 1 .. n /\ rhead = freed[0 + 1]
    BY <1>1, <1>2 DEF Up
  <2> QED BY <2>1, <1>1
<1>6. rawHead = Shared!Null => l = n
  <2>1. l # n => n \in 1 .. n /\ rawHead = freed[n]
    BY <1>1, <1>2 DEF Down
  <2> QED BY <2>1, <1>1
<1> QED BY <1>3, <1>4, <1>5, <1>6 DEF n

(* pop_all: what was the stack is now what add has to reverse.              *)
LEMMA ExchangeFifo ==
  ASSUME PtrsOK, PtrTypes, IsFifo, adding.node = Shared!Null, adding.head = Shared!Null,
         rawHead' = Shared!Null, UNCHANGED <<rawNext, freed, rhead, rtail>>,
         adding' = [node |-> rawHead, head |-> Shared!Null, tail |-> rawHead]
  PROVE  IsFifo'
<1> DEFINE n == Len(freed)
<1>1. n \in Nat /\ n <= n
  BY FreedIs
<1>2. PICK k, j, l \in Nat : Fifo(rawNext, freed, n, k, j, l, rhead, rtail, adding, rawHead)
  BY DEF IsFifo
<1>3. k = j /\ j = l
  BY <1>2, NothingBetween
<1>4. IsFifo' <=> \E a, b, c \in Nat : Fifo(rawNext, freed, n, a, b, c, rhead, rtail, adding', Shared!Null)
  BY DEF IsFifo
<1> HIDE DEF n
<1>5. k <= n /\ Up(rawNext, freed, 0, k, rhead) /\ Down(rawNext, freed, k, n, rawHead) /\ (k > 0 => rtail = freed[k])
  BY <1>1, <1>2, <1>3 DEF Fifo
<1>6. Up(rawNext, freed, n, n, Shared!Null) /\ Down(rawNext, freed, n, n, Shared!Null)
  BY <1>1 DEF Up, Down
<1>7. n > k => rawHead = freed[n]
  BY <1>1, <1>5 DEF Down
<1>8. k \in 0 .. n /\ n \in 0 .. n
  BY <1>1, <1>5
<1>9. Fifo(rawNext, freed, n, k, n, n, rhead, rtail, adding', Shared!Null)
  BY <1>1, <1>5, <1>6, <1>7, <1>8 DEF Fifo
<1> QED BY <1>1, <1>4, <1>9

(* One round of the loop of add.                                            *)
LEMMA TurnFifo ==
  ASSUME PtrsOK, PtrTypes, FreeOK, IsFifo, adding.node # Shared!Null,
         rawNext' = [rawNext EXCEPT ![adding.node] = adding.head],
         adding' = [node |-> rawNext[adding.node], head |-> adding.node, tail |-> adding.tail],
         UNCHANGED <<freed, rhead, rtail, rawHead>>
  PROVE  IsFifo' /\ DOMAIN rawNext' = Raws /\ adding.node \in Raws /\ adding.node \in FreeRaws
<1> DEFINE n == Len(freed)
<1>1. n \in Nat /\ \A i \in 1 .. n : freed[i] \in Raws
  BY FreedIs
<1>2. PICK k, j, l \in Nat : Fifo(rawNext, freed, n, k, j, l, rhead, rtail, adding, rawHead)
  BY DEF IsFifo
<1>3. k <= j /\ j <= l /\ l <= n /\ 0 <= k /\ 0 \in Nat /\ j <= n /\ k <= n
  BY <1>1, <1>2 DEF Fifo
<1>4. IsFifo' <=> \E a, b, c \in Nat : Fifo(rawNext', freed, n, a, b, c, rhead, rtail, adding', rawHead)
  BY DEF IsFifo
<1>5. \A a, b \in 1 .. n : freed[a] = freed[b] => a = b
  BY DEF FreeOK
<1>6. /\ Up(rawNext, freed, 0, k, rhead) /\ Down(rawNext, freed, k, j, adding.node)
      /\ Up(rawNext, freed, j, l, adding.head) /\ Down(rawNext, freed, l, n, rawHead)
      /\ (k > 0 => rtail = freed[k]) /\ (l > k => adding.tail = freed[l])
  BY <1>2 DEF Fifo
<1>7. k # j /\ j \in 1 .. n /\ adding.node = freed[j]
  <2>1. k # j
    BY <1>6 DEF Down
  <2>2. j \in 1 .. n
    BY <2>1, <1>1, <1>3
  <2> QED BY <2>1, <2>2, <1>6 DEF Down
<1>8. adding.node \in FreeRaws /\ adding.node \in Raws
  BY <1>1, <1>7 DEF FreeRaws, n
<1> HIDE DEF n
<1> DEFINE i0 == j - 1
<1>9. i0 \in Nat /\ k <= i0 /\ i0 <= l /\ i0 <= n /\ i0 + 1 = j /\ i0 # l
  BY <1>1, <1>3, <1>7
<1>10. /\ DOMAIN rawNext' = Raws /\ rawNext'[freed[j]] = adding.head
       /\ \A i \in 1 .. n : i # j => rawNext'[freed[i]] = rawNext[freed[i]]
  BY <1>1, <1>5, <1>7 DEF PtrTypes
<1>11. /\ adding'.node = rawNext[freed[j]] /\ adding'.head = freed[j] /\ adding'.tail = adding.tail
  BY <1>7
<1> HIDE DEF i0
<1>12. ASSUME NEW a \in Nat, NEW b \in Nat, b <= n, j \notin a + 1 .. b
       PROVE  Same(rawNext, rawNext', freed, freed, a, b)
  <2>1. \A i \in a + 1 .. b : i \in 1 .. n /\ i # j
    BY <1>1, <1>12
  <2> QED BY <2>1, <1>10 DEF Same
<1>13. Up(rawNext', freed, 0, k, rhead)
  <2>1. j \notin 0 + 1 .. k
    BY <1>1, <1>3, <1>7
  <2>2. Same(rawNext, rawNext', freed, freed, 0, k)
    BY <2>1, <1>3, <1>12
  <2> QED BY <2>2, <1>3, <1>6, UpSame
<1>14. Down(rawNext', freed, k, i0, adding'.node)
  <2>1. Down(rawNext, freed, k, i0, adding'.node)
    <3>1. adding'.node = IF j = k + 1 THEN Shared!Null ELSE freed[j - 1]
      <4>1. j \in k + 1 .. j
        BY <1>3, <1>7
      <4> QED BY <4>1, <1>6, <1>11 DEF Down
    <3>2. (j = k + 1 <=> k = i0) /\ j - 1 = i0
      BY <1>3, <1>9
    <3>3. \A i \in k + 1 .. i0 : i \in k + 1 .. j
      BY <1>3, <1>9
    <3> QED BY <3>1, <3>2, <3>3, <1>6 DEF Down
  <2>2. j \notin k + 1 .. i0
    BY <1>3, <1>9
  <2>3. Same(rawNext, rawNext', freed, freed, k, i0)
    BY <2>2, <1>9, <1>12
  <2> QED BY <2>1, <2>3, <1>9, DownSame
<1>15. Up(rawNext', freed, i0, l, adding'.head)
  <2>1. j \notin j + 1 .. l
    BY <1>3
  <2>2. Up(rawNext', freed, j, l, adding.head)
    <3>1. Same(rawNext, rawNext', freed, freed, j, l)
      BY <2>1, <1>3, <1>12
    <3> QED BY <3>1, <1>3, <1>6, UpSame
  <2>3. adding'.head = freed[i0 + 1] /\ i0 # l
    BY <1>9, <1>11
  <2>4. ASSUME NEW i \in i0 + 1 .. l PROVE rawNext'[freed[i]] = IF i = l THEN Shared!Null ELSE freed[i + 1]
    <3>1. CASE i = j
      <4>1. rawNext'[freed[i]] = IF j = l THEN Shared!Null ELSE freed[j + 1]
        BY <3>1, <1>10, <2>2 DEF Up
      <4> QED BY <3>1, <4>1
    <3>2. CASE i # j
      <4>1. i \in j + 1 .. l
        BY <3>2, <1>3, <1>9
      <4> QED BY <4>1, <2>2 DEF Up
    <3> QED BY <3>1, <3>2
  <2> QED BY <2>3, <2>4 DEF Up
<1>16. Down(rawNext', freed, l, n, rawHead)
  <2>1. j \notin l + 1 .. n /\ n <= n
    BY <1>1, <1>3
  <2>2. Same(rawNext, rawNext', freed, freed, l, n)
    BY <2>1, <1>1, <1>12
  <2> QED BY <2>2, <1>1, <1>3, <1>6, DownSame
<1>17. l > k => adding'.tail = freed[l]
  BY <1>6, <1>11
<1>18. k \in 0 .. n /\ i0 \in 0 .. n /\ l \in 0 .. n
  BY <1>1, <1>3, <1>9
<1>19. Fifo(rawNext', freed, n, k, i0, l, rhead, rtail, adding', rawHead)
  BY <1>6, <1>9, <1>13, <1>14, <1>15, <1>16, <1>17, <1>18 DEF Fifo
<1> QED BY <1>4, <1>8, <1>9, <1>10, <1>19

(* The end of add: what was reversed goes behind the reader's list.         *)
LEMMA LinkFifo ==
  ASSUME PtrsOK, PtrTypes, FreeOK, IsFifo, adding.node = Shared!Null, adding.head # Shared!Null,
         rhead' = (IF rhead = Shared!Null THEN adding.head ELSE rhead),
         rawNext' = (IF rhead = Shared!Null THEN rawNext ELSE [rawNext EXCEPT ![rtail] = adding.head]),
         rtail' = adding.tail, adding' = Shared!NotAdding, UNCHANGED <<freed, rawHead>>
  PROVE  /\ IsFifo' /\ DOMAIN rawNext' = Raws
         /\ \A r \in Raws : r \in FreeRaws \/ rawNext'[r] = rawNext[r]
<1> DEFINE n == Len(freed)
<1>1. n \in Nat /\ \A i \in 1 .. n : freed[i] \in Raws /\ freed[i] # Shared!Null
  BY FreedIs DEF PtrsOK
<1>2. PICK k, j, l \in Nat : Fifo(rawNext, freed, n, k, j, l, rhead, rtail, adding, rawHead)
  BY DEF IsFifo
<1>3. k = j /\ k <= l /\ l <= n /\ 0 <= k /\ 0 \in Nat /\ k <= n /\ 0 <= l
  BY <1>1, <1>2, NothingBetween DEF Fifo
<1>4. IsFifo' <=> \E a, b, c \in Nat : Fifo(rawNext', freed, n, a, b, c, rhead', rtail', adding', rawHead)
  BY DEF IsFifo
<1>5. \A a, b \in 1 .. n : freed[a] = freed[b] => a = b
  BY DEF FreeOK
<1>6. /\ Up(rawNext, freed, 0, k, rhead) /\ Up(rawNext, freed, k, l, adding.head)
      /\ Down(rawNext, freed, l, n, rawHead)
      /\ (k > 0 => rtail = freed[k]) /\ (l > k => adding.tail = freed[l])
  BY <1>2, <1>3 DEF Fifo
<1>7. \A r \in Raws : (\E i \in 1 .. n : freed[i] = r) => r \in FreeRaws
  BY DEF FreeRaws
<1> HIDE DEF n
<1>8. l # k /\ adding.head = freed[k + 1] /\ k + 1 \in 1 .. n /\ adding.tail = freed[l] /\ l > k
  <2>1. l # k
    BY <1>6 DEF Up
  <2>2. l > k
    BY <2>1, <1>3
  <2>3. k + 1 \in 1 .. n
    BY <2>2, <1>1, <1>3
  <2> QED BY <2>1, <2>2, <2>3, <1>6 DEF Up
<1>9. rhead = Shared!Null <=> k = 0
  <2>1. k # 0 => 0 + 1 \in 1 .. n
    BY <1>1, <1>3
  <2> QED BY <2>1, <1>1, <1>6 DEF Up
<1>10. DOMAIN rawNext' = Raws
  BY DEF PtrTypes
<1>11. k # 0 => /\ k \in 1 .. n /\ rawNext'[freed[k]] = freed[k + 1]
                /\ \A r \in Raws : r # freed[k] => rawNext'[r] = rawNext[r]
  <2> SUFFICES ASSUME k # 0 PROVE /\ k \in 1 .. n /\ rawNext'[freed[k]] = freed[k + 1]
                                  /\ \A r \in Raws : r # freed[k] => rawNext'[r] = rawNext[r]
    OBVIOUS
  <2>1. k \in 1 .. n /\ k > 0
    BY <1>1, <1>3
  <2>2. rtail = freed[k] /\ rawNext' = [rawNext EXCEPT ![rtail] = adding.head]
    BY <2>1, <1>6, <1>9
  <2> QED BY <2>1, <2>2, <1>1, <1>8 DEF PtrTypes
<1>12. k = 0 => rawNext' = rawNext
  BY <1>9
<1>13. \A r \in Raws : r \in FreeRaws \/ rawNext'[r] = rawNext[r]
  BY <1>1, <1>7, <1>11, <1>12
<1>14. \A i \in 1 .. n : i # k => rawNext'[freed[i]] = rawNext[freed[i]]
  BY <1>1, <1>5, <1>11, <1>12
<1>15. Up(rawNext', freed, k, l, adding.head)
  <2>1. \A i \in k + 1 .. l : i \in 1 .. n /\ i # k
    BY <1>1, <1>3
  <2>2. Same(rawNext, rawNext', freed, freed, k, l)
    BY <2>1, <1>14 DEF Same
  <2> QED BY <2>2, <1>3, <1>6, UpSame
<1>16. Down(rawNext', freed, l, n, rawHead)
  <2>1. \A i \in l + 1 .. n : i \in 1 .. n /\ i # k
    BY <1>1, <1>3
  <2>2. Same(rawNext, rawNext', freed, freed, l, n)
    BY <2>1, <1>14 DEF Same
  <2> QED BY <2>2, <1>1, <1>3, <1>6, DownSame
<1>17. Up(rawNext', freed, 0, l, rhead')
  <2>1. rhead' = IF 0 = l THEN Shared!Null ELSE freed[0 + 1]
    <3>1. l # 0
      BY <1>3, <1>8
    <3>2. k = 0 => rhead' = freed[0 + 1]
      BY <1>8, <1>9
    <3>3. k # 0 => rhead' = freed[0 + 1]
      BY <1>6, <1>9 DEF Up
    <3> QED BY <3>1, <3>2, <3>3
  <2>2. ASSUME NEW i \in 0 + 1 .. l PROVE rawNext'[freed[i]] = IF i = l THEN Shared!Null ELSE freed[i + 1]
    <3>1. CASE i = k
      <4>1. k # 0 /\ i # l
        BY <3>1, <1>3, <1>8
      <4> QED BY <3>1, <4>1, <1>11
    <3>2. CASE i # k /\ i \in 0 + 1 .. k
      <4>1. i \in 1 .. n /\ i # l
        BY <3>2, <1>1, <1>3
      <4>2. rawNext[freed[i]] = freed[i + 1]
        BY <3>2, <1>6 DEF Up
      <4> QED BY <3>2, <4>1, <4>2, <1>14
    <3>3. CASE i # k /\ i \notin 0 + 1 .. k
      <4>1. i \in k + 1 .. l
        BY <3>3, <1>3
      <4> QED BY <4>1, <1>15 DEF Up
    <3> QED BY <3>1, <3>2, <3>3
  <2> QED BY <2>1, <2>2 DEF Up
<1>18. /\ adding'.node = Shared!Null /\ adding'.head = Shared!Null
       /\ Down(rawNext', freed, l, l, adding'.node) /\ Up(rawNext', freed, l, l, adding'.head)
  <2>1. l + 1 .. l = {}
    BY <1>3
  <2> QED BY <2>1 DEF Shared!NotAdding, Up, Down
<1>19. l \in 0 .. n /\ l <= l /\ ~(l > l)
  BY <1>1, <1>3
<1>20. Fifo(rawNext', freed, n, l, l, l, rhead', rtail', adding', rawHead)
  BY <1>8, <1>16, <1>17, <1>18, <1>19 DEF Fifo
<1> QED BY <1>4, <1>10, <1>13, <1>20

(* read, outside of add: the oldest leaves the queue.                       *)
LEMMA ReadFifo ==
  ASSUME PtrsOK, PtrTypes, IsFifo, adding.node = Shared!Null, adding.head = Shared!Null,
         rhead # Shared!Null, rhead' = rawNext[rhead], freed' = Tail(freed),
         UNCHANGED <<rawNext, rawHead, rtail, adding>>
  PROVE  /\ IsFifo' /\ freed' \in Seq(Raws) /\ Len(freed) \in Nat /\ Len(freed) > 0
         /\ rhead = freed[1] /\ rhead \in Raws /\ Len(freed') = Len(freed) - 1
         /\ \A i \in 1 .. Len(freed') : freed'[i] = freed[i + 1]
<1> DEFINE n == Len(freed)
           m == n - 1
           f == freed'
<1>1. n \in Nat /\ \A i \in 1 .. n : freed[i] \in Raws
  BY FreedIs
<1>2. PICK k, j, l \in Nat : Fifo(rawNext, freed, n, k, j, l, rhead, rtail, adding, rawHead)
  BY DEF IsFifo
<1>3. k = j /\ j = l /\ l <= n
  BY <1>1, <1>2, NothingBetween DEF Fifo
<1>4. /\ Up(rawNext, freed, 0, k, rhead) /\ Down(rawNext, freed, k, n, rawHead)
      /\ (k > 0 => rtail = freed[k])
  BY <1>2, <1>3 DEF Fifo
<1>5. k # 0 /\ k > 0 /\ n > 0
  <2>1. k # 0
    BY <1>4 DEF Up
  <2> QED BY <2>1, <1>1, <1>3
<1>6. freed # <<>>
  BY <1>5
<1>7. f \in Seq(Raws) /\ Len(f) = m /\ \A i \in 1 .. m : f[i] = freed[i + 1]
  BY <1>6 DEF PtrTypes
<1>8. IsFifo' <=> \E a, b, c \in Nat : Fifo(rawNext, f, Len(f), a, b, c, rhead', rtail, adding, rawHead)
  BY DEF IsFifo
<1>9. rhead = freed[1] /\ rhead \in Raws
  <2>1. rhead = freed[0 + 1] /\ 0 + 1 = 1 /\ 1 \in 1 .. n
    BY <1>1, <1>4, <1>5 DEF Up
  <2> QED BY <2>1, <1>1
<1> DEFINE h == k - 1
<1>10. /\ h \in Nat /\ m \in Nat /\ h <= m /\ h + 1 = k /\ m + 1 = n /\ 0 <= h /\ 0 \in Nat
       /\ (h = 0 <=> k = 1)
  BY <1>1, <1>3, <1>5
<1> HIDE DEF n, m, f, h
<1>11. Up(rawNext, freed, 0 + 1, h + 1, rhead')
  <2>1. 1 \in 0 + 1 .. k /\ 0 + 1 = 1
    BY <1>5
  <2>2. rhead' = IF 1 = k THEN Shared!Null ELSE freed[1 + 1]
    BY <2>1, <1>4, <1>9 DEF Up
  <2>3. \A i \in (0 + 1) + 1 .. k : i \in 0 + 1 .. k
    BY <1>5
  <2>4. \A i \in (0 + 1) + 1 .. k : rawNext[freed[i]] = IF i = k THEN Shared!Null ELSE freed[i + 1]
    BY <2>3, <1>4 DEF Up
  <2> QED BY <2>1, <2>2, <2>4, <1>10 DEF Up
<1>12. Up(rawNext, f, 0, h, rhead')
  <2>1. \A i \in 0 + 1 .. h : i \in 1 .. m
    BY <1>10
  <2>2. Later(freed, f, 0, h)
    BY <2>1, <1>7 DEF Later
  <2> QED BY <2>2, <1>10, <1>11, UpShift
<1>13. Down(rawNext, f, h, m, rawHead)
  <2>1. \A i \in h + 1 .. m : i \in 1 .. m
    BY <1>10
  <2>2. Later(freed, f, h, m)
    BY <2>1, <1>7 DEF Later
  <2>3. Down(rawNext, freed, h + 1, m + 1, rawHead)
    BY <1>4, <1>10
  <2> QED BY <2>2, <2>3, <1>10, DownShift
<1>14. Down(rawNext, f, h, h, adding.node) /\ Up(rawNext, f, h, h, adding.head)
  <2>1. h + 1 .. h = {}
    BY <1>10
  <2> QED BY <2>1 DEF Up, Down
<1>15. h > 0 => rtail = f[h]
  <2>1. h > 0 => h \in 1 .. m
    BY <1>10
  <2> QED BY <2>1, <1>4, <1>5, <1>7, <1>10
<1>16. h \in 0 .. m /\ h <= h /\ ~(h > h)
  BY <1>10
<1>17. Fifo(rawNext, f, m, h, h, h, rhead', rtail, adding, rawHead)
  BY <1>12, <1>13, <1>14, <1>15, <1>16 DEF Fifo
<1>18. IsFifo'
  BY <1>7, <1>8, <1>10, <1>17
<1> QED BY <1>1, <1>5, <1>7, <1>9, <1>18 DEF n, m, f

OnlyAt(t, h, g) == \A u \in PtrThreads : u # t => g[u] = h[u]

(* A count of holders changes by one when one of them gets or leaves it.    *)
LEMMA RefsMove ==
  ASSUME PtrsOK, NEW h, NEW g, NEW t \in PtrThreads, OnlyAt(t, h, g), NEW r
  PROVE  /\ HeldBy(h, r) \in Nat
         /\ HeldBy(g, r) = HeldBy(h, r) + (IF g[t] = r THEN 1 ELSE 0) - (IF h[t] = r THEN 1 ELSE 0)
<1> DEFINE H == {u \in PtrThreads : h[u] = r}
           G == {u \in PtrThreads : g[u] = r}
<1>1. IsFiniteSet(H) /\ Cardinality(H) \in Nat
  BY FS_Subset, FS_CardinalityType DEF PtrsOK
<1>2. t \in H <=> h[t] = r
  OBVIOUS
<1>3. G = IF g[t] = r THEN H \cup {t} ELSE H \ {t}
  BY DEF OnlyAt
<1>4. HeldBy(h, r) = Cardinality(H) /\ HeldBy(g, r) = Cardinality(G)
  BY DEF HeldBy
<1> HIDE DEF H, G
<1>5. CASE g[t] = r
  <2>1. Cardinality(G) = IF t \in H THEN Cardinality(H) ELSE Cardinality(H) + 1
    BY <1>1, <1>3, <1>5, FS_AddElement
  <2> QED BY <1>1, <1>2, <1>4, <1>5, <2>1
<1>6. CASE g[t] # r
  <2>1. Cardinality(G) = IF t \in H THEN Cardinality(H) - 1 ELSE Cardinality(H)
    BY <1>1, <1>3, <1>6, FS_RemoveElement
  <2> QED BY <1>1, <1>2, <1>4, <1>6, <2>1
<1> QED BY <1>5, <1>6

(* A Raw is not counted exactly when nobody holds it.                       *)
LEMMA RefsNone ==
  ASSUME PtrsOK, NEW h, NEW r
  PROVE  HeldBy(h, r) \in Nat /\ (HeldBy(h, r) = 0 <=> \A t \in PtrThreads : h[t] # r)
<1> DEFINE H == {u \in PtrThreads : h[u] = r}
<1>1. IsFiniteSet(H) /\ Cardinality(H) \in Nat
  BY FS_Subset, FS_CardinalityType DEF PtrsOK
<1>2. Cardinality(H) = 0 <=> H = {}
  BY <1>1, FS_EmptySet
<1> QED BY <1>1, <1>2 DEF HeldBy

(* The count of a Raw is 0 when nobody refers to it.                        *)
LEMMA CountIs ==
  ASSUME PtrsOK, CountOK, NEW r \in Raws
  PROVE  cnt[r] \in Nat /\ (cnt[r] = 0 <=> \A t \in PtrThreads : ~Shared!Refers(t, r))
<1>1. cnt[r] = HeldBy(Owned, r) + HeldBy(Coming, r)
  BY DEF CountOK
<1>2. /\ HeldBy(Owned, r) \in Nat /\ (HeldBy(Owned, r) = 0 <=> \A t \in PtrThreads : Owned[t] # r)
      /\ HeldBy(Coming, r) \in Nat /\ (HeldBy(Coming, r) = 0 <=> \A t \in PtrThreads : Coming[t] # r)
  BY RefsNone
<1>3. cnt[r] = 0 <=> HeldBy(Owned, r) = 0 /\ HeldBy(Coming, r) = 0
  BY <1>1, <1>2
<1>4. \A t \in PtrThreads : Shared!Refers(t, r) <=> Owned[t] = r \/ Coming[t] = r
  BY DEF PtrsOK, Owned, Coming, Shared!Refers
<1>5. cnt[r] \in Nat
  BY <1>1, <1>2
<1> QED BY <1>2, <1>3, <1>4, <1>5

(* Thread t goes to a step, and the others stay.                            *)
Goes(t, step) ==
  /\ DOMAIN rawAt' = PtrThreads /\ rawAt'[t] = step
  /\ \A u \in PtrThreads : u # t => rawAt'[u] = rawAt[u]
(* A Goto changes the step of one thread only.                              *)
LEMMA GoesTo ==
  ASSUME PtrTypes, NEW t \in PtrThreads, NEW step, Shared!Goto(t, step)
  PROVE  Goes(t, step)
BY DEF PtrTypes, Shared!Goto, Goes

(* What Pool alone does with the queue, between its calls and in add.       *)
Quiet == {"idle", "count", "take", "alloc"}
(* A step of Pool with the queue leaves counts, objects and ways as they are. *)
LEMMA QuietKeeps ==
  ASSUME SharedInv, NEW t \in PtrThreads, NEW step, Goes(t, step), rawAt[t][1] \in Quiet, step[1] \in Quiet,
         UNCHANGED <<allocated, cnt, rawData, ptr, freed>>, DOMAIN rawNext' = Raws,
         \A r \in Raws : r \in FreeRaws \/ rawNext'[r] = rawNext[r]
  PROVE  PtrTypes' /\ CountOK' /\ AliveOK' /\ WayOK' /\ FreeOK' /\ SomewhereOK'
<1> USE DEF Goes, Quiet
<1>1. PtrTypes'
  BY DEF SharedInv, PtrTypes
<1>2. Owned' = Owned
  BY DEF Owned
<1>3. Coming' = Coming
  BY DEF Coming
<1>4. CountOK'
  BY <1>2, <1>3 DEF SharedInv, CountOK
<1>5. AliveOK'
  BY DEF SharedInv, AliveOK
<1>6. FreeRaws' = FreeRaws
  BY DEF FreeRaws
<1>7. \A u \in PtrThreads : rawAt'[u][1] \in Flying => u # t /\ rawAt'[u] = rawAt[u]
  BY DEF Flying
<1>8. WayOK'
  <2>1. ASSUME NEW u \in PtrThreads, rawAt'[u][1] \in Flying
        PROVE  /\ rawAt'[u][2] \in allocated' /\ cnt'[rawAt'[u][2]] = 0 /\ rawAt'[u][2] \notin FreeRaws'
               /\ rawAt'[u][1] # "destroy" => rawData'[rawAt'[u][2]] = 0
               /\ rawAt'[u][1] = "push" => rawNext'[rawAt'[u][2]] = rawAt'[u][3]
    <3>1. rawAt'[u] = rawAt[u] /\ rawAt[u][1] \in Flying
      BY <1>7, <2>1
    <3>2. /\ rawAt[u][2] \in allocated /\ cnt[rawAt[u][2]] = 0 /\ rawAt[u][2] \notin FreeRaws
          /\ rawAt[u][1] # "destroy" => rawData[rawAt[u][2]] = 0
          /\ rawAt[u][1] = "push" => rawNext[rawAt[u][2]] = rawAt[u][3]
      BY <3>1 DEF SharedInv, WayOK
    <3>3. rawNext'[rawAt[u][2]] = rawNext[rawAt[u][2]]
      BY <3>2 DEF SharedInv, PtrTypes
    <3>4. rawAt'[u][2] \notin FreeRaws'
      BY <3>1, <3>2, <1>6
    <3> QED BY <3>1, <3>2, <3>3, <3>4
  <2>2. ASSUME NEW u \in PtrThreads, NEW v \in PtrThreads, rawAt'[u][1] \in Flying, rawAt'[v][1] \in Flying,
               rawAt'[u][2] = rawAt'[v][2]
        PROVE  u = v
    BY <2>2, <1>7 DEF SharedInv, WayOK
  <2> QED BY <2>1, <2>2 DEF WayOK
<1>9. FreeOK'
  BY DEF SharedInv, FreeOK
<1>10. SomewhereOK'
  <2>1. \A r, u : u \in PtrThreads /\ Shared!Releases(u, r) => Shared!Releases(u, r)'
    BY DEF Shared!Releases
  <2> QED BY <2>1, <1>6 DEF SharedInv, SomewhereOK
<1> QED BY <1>1, <1>4, <1>5, <1>8, <1>9, <1>10

(* The queue after a step.                                                  *)
LEMMA FifoAfter ==
  ASSUME PtrTypes', IsFifo'
  PROVE  Shared!FreeIsFifo'
<1>1. PtrTypes' => (Shared!FreeIsFifo' <=> IsFifo')
  BY FifoIs, PTL
<1> QED BY <1>1

(* pop_all, whoever calls it.                                               *)
LEMMA PopAllKeeps ==
  ASSUME PtrsOK, SharedInv, NEW t \in PtrThreads, t = Pool, NEW step, NEW then, Shared!PopAll(t, step, then),
         \/ step[1] = "count" /\ then[1] = "idle"
         \/ step[1] = "take" /\ then[1] = "alloc" /\ ptr[t] = Shared!Empty
  PROVE  SharedInv'
<1>0. rawAt[t][1] = "idle"
  BY DEF Shared!PopAll, Shared!Idle
<1>1. \A u \in PtrThreads : rawAt[u][1] \notin Reversing
  <2>1. \A u \in PtrThreads : rawAt[u][1] \in Reversing => u = t
    BY DEF SharedInv, CallersOK
  <2> QED BY <2>1, <1>0 DEF Reversing
<1>2. adding.node = Shared!Null /\ adding.head = Shared!Null
  BY <1>1 DEF SharedInv, CallersOK
<1>3. rawHead' = Shared!Null /\ UNCHANGED <<allocated, rawNext, rhead, rtail, cnt, rawData, ptr, rawObjects, freed>>
  BY DEF Shared!PopAll
<1>4. PtrTypes /\ IsFifo
  BY FifoIs DEF SharedInv
<1>5. DOMAIN rawNext' = Raws /\ \A r \in Raws : r \in FreeRaws \/ rawNext'[r] = rawNext[r]
  BY <1>3, <1>4 DEF PtrTypes
<1>6. CASE rawHead = Shared!Null
  <2>1. Goes(t, then) /\ UNCHANGED adding
    BY <1>4, <1>6, GoesTo DEF Shared!PopAll
  <2>2. PtrTypes' /\ CountOK' /\ AliveOK' /\ WayOK' /\ FreeOK' /\ SomewhereOK'
    BY <2>1, <1>0, <1>3, <1>5, QuietKeeps DEF Quiet
  <2>3. CallersOK'
    BY <2>1, <1>2, <1>1, <1>3 DEF Goes, SharedInv, CallersOK, Reversing, Allocating
  <2>4. Shared!FreeIsFifo'
    <3>1. IsFifo'
      BY <2>1, <1>3, <1>4, <1>6 DEF IsFifo
    <3> QED BY <3>1, <2>2, FifoAfter
  <2> QED BY <2>2, <2>3, <2>4 DEF SharedInv
<1>7. CASE rawHead # Shared!Null
  <2>1. Goes(t, step) /\ adding' = [node |-> rawHead, head |-> Shared!Null, tail |-> rawHead]
    BY <1>4, <1>7, GoesTo DEF Shared!PopAll
  <2>2. PtrTypes' /\ CountOK' /\ AliveOK' /\ WayOK' /\ FreeOK' /\ SomewhereOK'
    BY <2>1, <1>0, <1>3, <1>5, QuietKeeps DEF Quiet
  <2>3. CallersOK'
    <3>1. rawAt'[t][1] \in {"count", "take"} /\ adding'.node # Shared!Null
      BY <2>1, <1>7 DEF Goes
    <3> QED BY <3>1, <2>1, <1>3, <1>1 DEF Goes, SharedInv, CallersOK, Reversing, Allocating
  <2>4. IsFifo'
    BY <2>1, <1>2, <1>3, <1>4, ExchangeFifo
  <2>5. Shared!FreeIsFifo'
    BY <2>2, <2>4, FifoAfter
  <2> QED BY <2>2, <2>3, <2>5 DEF SharedInv
<1> QED BY <1>6, <1>7

(* One round of the loop of add.                                            *)
LEMMA TurnKeeps ==
  ASSUME PtrsOK, SharedInv, NEW t \in PtrThreads, Shared!Turn(t)
  PROVE  SharedInv'
<1>0. /\ rawAt[t][1] \in Reversing /\ adding.node # Shared!Null
      /\ rawNext' = [rawNext EXCEPT ![adding.node] = adding.head]
      /\ adding' = [node |-> rawNext[adding.node], head |-> adding.node, tail |-> adding.tail]
      /\ UNCHANGED <<allocated, rawHead, rhead, rtail, cnt, rawData, ptr, rawObjects, freed, rawAt>>
  BY DEF Shared!Turn, Reversing
<1>1. PtrTypes /\ FreeOK /\ IsFifo
  BY FifoIs DEF SharedInv
<1>2. IsFifo' /\ DOMAIN rawNext' = Raws /\ adding.node \in Raws /\ adding.node \in FreeRaws
  BY <1>0, <1>1, TurnFifo
<1>3. \A r \in Raws : r \in FreeRaws \/ rawNext'[r] = rawNext[r]
  BY <1>0, <1>1, <1>2 DEF PtrTypes
<1>4. Goes(t, rawAt[t]) /\ rawAt[t][1] \in Quiet
  BY <1>0, <1>1 DEF Goes, PtrTypes, Reversing, Quiet
<1>5. PtrTypes' /\ CountOK' /\ AliveOK' /\ WayOK' /\ FreeOK' /\ SomewhereOK'
  BY <1>0, <1>2, <1>3, <1>4, QuietKeeps
<1>6. CallersOK'
  <2>1. adding'.head # Shared!Null
    BY <1>0
  <2> QED BY <2>1, <1>0 DEF SharedInv, CallersOK
<1> QED BY <1>2, <1>5, <1>6, FifoAfter DEF SharedInv

(* The end of add.                                                          *)
LEMMA LinkKeeps ==
  ASSUME PtrsOK, SharedInv, NEW t \in PtrThreads, Shared!Link(t)
  PROVE  SharedInv'
<1> DEFINE step == IF rawAt[t][1] = "count" THEN Shared!Idle ELSE <<"alloc", Shared!Null, Shared!Null>>
<1>0. /\ rawAt[t][1] \in Reversing /\ adding.node = Shared!Null
      /\ rhead' = (IF rhead = Shared!Null THEN adding.head ELSE rhead)
      /\ rawNext' = (IF rhead = Shared!Null THEN rawNext ELSE [rawNext EXCEPT ![rtail] = adding.head])
      /\ rtail' = adding.tail /\ adding' = Shared!NotAdding
      /\ UNCHANGED <<allocated, rawHead, cnt, rawData, ptr, rawObjects, freed>>
  BY DEF Shared!Link, Reversing
<1>1. PtrTypes /\ FreeOK /\ IsFifo
  BY FifoIs DEF SharedInv
<1>2. Goes(t, step)
  BY <1>1, GoesTo DEF Shared!Link
<1>3. step[1] = IF rawAt[t][1] = "count" THEN "idle" ELSE "alloc"
  BY DEF Shared!Idle
<1> HIDE DEF step
<1>4. adding.head # Shared!Null
  BY <1>0 DEF SharedInv, CallersOK
<1>5. /\ IsFifo' /\ DOMAIN rawNext' = Raws
      /\ \A r \in Raws : r \in FreeRaws \/ rawNext'[r] = rawNext[r]
  BY <1>0, <1>1, <1>4, LinkFifo
<1>6. rawAt[t][1] \in Quiet /\ step[1] \in Quiet
  BY <1>0, <1>3 DEF Reversing, Quiet
<1>7. PtrTypes' /\ CountOK' /\ AliveOK' /\ WayOK' /\ FreeOK' /\ SomewhereOK'
  BY <1>0, <1>2, <1>5, <1>6, QuietKeeps
<1>8. CallersOK'
  <2>1. adding'.node = Shared!Null /\ adding'.head = Shared!Null
    BY <1>0 DEF Shared!NotAdding
  <2>2. rawAt'[t] = step /\ \A u \in PtrThreads : u # t => rawAt'[u] = rawAt[u]
    BY <1>2 DEF Goes
  <2>3. t = Pool /\ (rawAt[t][1] = "take" => ptr[t] = Shared!Empty)
    BY <1>0 DEF SharedInv, CallersOK, Reversing, Allocating
  <2>4. \A u \in PtrThreads : u # t => rawAt[u][1] \notin Reversing
    BY <2>3 DEF SharedInv, CallersOK
  <2> QED BY <2>1, <2>2, <2>3, <2>4, <1>0, <1>3 DEF SharedInv, CallersOK, Reversing, Allocating
<1> QED BY <1>5, <1>7, <1>8, FifoAfter DEF SharedInv

(* What a thread does that is not in alloc or calc_free_size.               *)
LEMMA CallersKept ==
  ASSUME CallersOK, NEW t \in PtrThreads, NEW step, Goes(t, step), UNCHANGED adding,
         rawAt[t][1] \notin Reversing, step[1] \notin Reversing \cup Allocating,
         \A u \in PtrThreads : rawAt[u][1] \in Allocating => u = t \/ ptr'[u] = ptr[u]
  PROVE  CallersOK'
<1>1. rawAt'[t] = step /\ \A u \in PtrThreads : u # t => rawAt'[u] = rawAt[u]
  BY DEF Goes
<1>2. (\A u \in PtrThreads : rawAt'[u][1] \notin Reversing) => \A u \in PtrThreads : rawAt[u][1] \notin Reversing
  BY <1>1
<1> QED BY <1>1, <1>2 DEF CallersOK

(* The steps of push that leave the queue as it is: the next_ of the Raw    *)
(* that is pushed follows the top.                                          *)
LEMMA AimKeeps ==
  ASSUME PtrsOK, SharedInv, NEW t \in PtrThreads, rawAt[t][1] \in {"free", "push"},
         rawNext' = [rawNext EXCEPT ![rawAt[t][2]] = rawHead],
         Goes(t, <<"push", rawAt[t][2], rawHead>>),
         UNCHANGED <<allocated, rawHead, rhead, rtail, adding, cnt, rawData, ptr, rawObjects, freed>>
  PROVE  SharedInv'
<1> DEFINE r == rawAt[t][2]
<1>1. PtrTypes /\ IsFifo
  BY FifoIs DEF SharedInv
<1>2. r \in allocated /\ r \in Raws /\ cnt[r] = 0 /\ r \notin FreeRaws /\ rawData[r] = 0
  BY <1>1 DEF SharedInv, WayOK, Flying, PtrTypes
<1>3. /\ rawAt'[t][1] = "push" /\ rawAt'[t][2] = r /\ rawAt'[t][3] = rawHead
      /\ \A u \in PtrThreads : u # t => rawAt'[u] = rawAt[u]
  BY DEF Goes
<1>4. DOMAIN rawNext' = Raws /\ rawNext'[r] = rawHead /\ \A s \in Raws : s # r => rawNext'[s] = rawNext[s]
  BY <1>1, <1>2 DEF PtrTypes
<1>5. r = rawAt[t][2]
  OBVIOUS
<1> HIDE DEF r
<1>6. PtrTypes'
  BY <1>1, <1>4 DEF Goes, PtrTypes
<1>7. IsFifo'
  <2>1. \A i \in 1 .. Len(freed) : rawNext'[freed[i]] = rawNext[freed[i]]
    BY <1>1, <1>2, <1>4, FreedIs DEF FreeRaws
  <2> QED BY <2>1, <1>1, OffQueue
<1>8. Owned' = Owned /\ Coming' = Coming
  <2>1. \A u \in PtrThreads : (rawAt'[u][1] = "reset" <=> rawAt[u][1] = "reset") /\ rawAt'[u][2] = rawAt[u][2]
    BY <1>3, <1>5
  <2> QED BY <2>1 DEF Owned, Coming
<1>9. CountOK'
  BY <1>8 DEF SharedInv, CountOK
<1>10. AliveOK'
  BY <1>3 DEF SharedInv, AliveOK
<1>11. CallersOK'
  BY CallersKept DEF SharedInv, Reversing, Allocating
<1>12. FreeRaws' = FreeRaws
  BY DEF FreeRaws
<1>13. WayOK'
  <2>1. ASSUME NEW u \in PtrThreads, u # t, rawAt'[u][1] \in Flying
        PROVE  /\ rawAt'[u][2] \in allocated' /\ cnt'[rawAt'[u][2]] = 0 /\ rawAt'[u][2] \notin FreeRaws'
               /\ rawAt'[u][1] # "destroy" => rawData'[rawAt'[u][2]] = 0
               /\ rawAt'[u][1] = "push" => rawNext'[rawAt'[u][2]] = rawAt'[u][3]
               /\ rawAt'[u][2] # r
    <3>1. rawAt'[u] = rawAt[u] /\ rawAt[u][1] \in Flying
      BY <1>3, <2>1
    <3>2. /\ rawAt[u][2] \in allocated /\ cnt[rawAt[u][2]] = 0 /\ rawAt[u][2] \notin FreeRaws
          /\ rawAt[u][1] # "destroy" => rawData[rawAt[u][2]] = 0
          /\ rawAt[u][1] = "push" => rawNext[rawAt[u][2]] = rawAt[u][3]
          /\ rawAt[u][2] # r
      BY <3>1, <2>1, <1>5 DEF SharedInv, WayOK, Flying
    <3>3. rawNext'[rawAt[u][2]] = rawNext[rawAt[u][2]]
      BY <3>2, <1>1, <1>4 DEF PtrTypes
    <3>4. rawAt'[u][2] \notin FreeRaws'
      BY <3>1, <3>2, <1>12
    <3> QED BY <3>1, <3>2, <3>3, <3>4
  <2>2. /\ rawAt'[t][2] \in allocated' /\ cnt'[rawAt'[t][2]] = 0 /\ rawAt'[t][2] \notin FreeRaws'
        /\ rawData'[rawAt'[t][2]] = 0 /\ rawNext'[rawAt'[t][2]] = rawAt'[t][3]
    BY <1>2, <1>3, <1>4, <1>12
  <2>3. ASSUME NEW u \in PtrThreads, NEW v \in PtrThreads, rawAt'[u][1] \in Flying, rawAt'[v][1] \in Flying,
               rawAt'[u][2] = rawAt'[v][2]
        PROVE  u = v
    <3>1. CASE u = t \/ v = t
      BY <3>1, <2>1, <2>3, <1>3
    <3>2. CASE u # t /\ v # t
      BY <3>2, <2>3, <1>3 DEF SharedInv, WayOK
    <3> QED BY <3>1, <3>2
  <2> QED BY <2>1, <2>2, <2>3 DEF WayOK
<1>14. FreeOK'
  BY DEF SharedInv, FreeOK
<1>15. SomewhereOK'
  <2>1. \A s, u : u \in PtrThreads /\ Shared!Releases(u, s) => Shared!Releases(u, s)'
    BY <1>3, <1>5 DEF Shared!Releases
  <2> QED BY <2>1, <1>12 DEF SharedInv, SomewhereOK
<1> QED BY <1>6, <1>7, <1>9, <1>10, <1>11, <1>13, <1>14, <1>15, FifoAfter DEF SharedInv

(* push loads the top and stores it in next_.                               *)
LEMMA SharedPushLoadKeeps ==
  ASSUME PtrsOK, SharedInv, NEW t \in PtrThreads, Shared!PushLoad(t)
  PROVE  SharedInv'
<1>1. Goes(t, <<"push", rawAt[t][2], rawHead>>)
  BY GoesTo DEF Shared!PushLoad, SharedInv
<1> QED BY <1>1, AimKeeps DEF Shared!PushLoad

(* What the counts become when t's pointer changes and what is to come in   *)
(* u's does.                                                                *)
LEMMA CountMove ==
  ASSUME PtrsOK, CountOK, NEW t \in PtrThreads, NEW u \in PtrThreads, NEW o, NEW c, NEW r \in Raws,
         OnlyAt(t, Owned, o), OnlyAt(u, Coming, c)
  PROVE  /\ cnt[r] \in Nat
         /\ HeldBy(o, r) + HeldBy(c, r) =
              cnt[r] + ((IF o[t] = r THEN 1 ELSE 0) - (IF Owned[t] = r THEN 1 ELSE 0))
                     + ((IF c[u] = r THEN 1 ELSE 0) - (IF Coming[u] = r THEN 1 ELSE 0))
<1>1. /\ HeldBy(Owned, r) \in Nat
      /\ HeldBy(o, r) = HeldBy(Owned, r) + (IF o[t] = r THEN 1 ELSE 0) - (IF Owned[t] = r THEN 1 ELSE 0)
  BY RefsMove
<1>2. /\ HeldBy(Coming, r) \in Nat
      /\ HeldBy(c, r) = HeldBy(Coming, r) + (IF c[u] = r THEN 1 ELSE 0) - (IF Coming[u] = r THEN 1 ELSE 0)
  BY RefsMove
<1>3. cnt[r] = HeldBy(Owned, r) + HeldBy(Coming, r)
  BY DEF CountOK
<1> QED BY <1>1, <1>2, <1>3

(* The exchange of push: it succeeds when the top is the one seen.          *)
LEMMA SharedPushCasKeeps ==
  ASSUME PtrsOK, SharedInv, NEW t \in PtrThreads, Shared!PushCas(t)
  PROVE  SharedInv'
<1> DEFINE r == rawAt[t][2]
<1>1. PtrTypes /\ IsFifo /\ rawAt[t][1] = "push"
  BY FifoIs DEF SharedInv, Shared!PushCas
<1>2. UNCHANGED <<allocated, rhead, rtail, adding, cnt, rawData, ptr, rawObjects>>
  BY DEF Shared!PushCas
<1>3. CASE rawHead # rawAt[t][3]
  <2>1. Goes(t, <<"push", r, rawHead>>)
    BY <1>1, <1>3, GoesTo DEF Shared!PushCas
  <2>2. rawNext' = [rawNext EXCEPT ![r] = rawHead] /\ UNCHANGED <<rawHead, freed>>
    BY <1>3 DEF Shared!PushCas
  <2> QED BY <2>1, <2>2, <1>1, <1>2, AimKeeps
<1>4. CASE rawHead = rawAt[t][3]
  <2>1. Goes(t, Shared!Idle)
    BY <1>1, <1>4, GoesTo DEF Shared!PushCas
  <2>2. rawHead' = r /\ freed' = Append(freed, r) /\ rawNext' = rawNext
    BY <1>4 DEF Shared!PushCas
  <2>3. /\ r \in allocated /\ r \in Raws /\ cnt[r] = 0 /\ r \notin FreeRaws /\ rawData[r] = 0
        /\ rawNext[r] = rawHead
    BY <1>1, <1>4 DEF SharedInv, WayOK, Flying, PtrTypes
  <2>4. rawAt'[t][1] = "idle" /\ \A u \in PtrThreads : u # t => rawAt'[u] = rawAt[u]
    BY <2>1 DEF Goes, Shared!Idle
  <2>5. r = rawAt[t][2]
    OBVIOUS
  <2> HIDE DEF r
  <2>6. IsFifo'
    BY <2>2, <2>3, <1>1, <1>2, PushFifo
  <2>7. PtrTypes'
    BY <2>1, <2>2, <2>3, <1>1, <1>2 DEF PtrTypes, Goes
  <2>8. /\ Len(freed) \in Nat /\ Len(freed') = Len(freed) + 1 /\ freed'[Len(freed) + 1] = r
        /\ \A i \in 1 .. Len(freed) : freed'[i] = freed[i]
    BY <2>2, <1>1 DEF PtrTypes
  <2>9. FreeRaws' = FreeRaws \cup {r}
    <3>1. ASSUME NEW x \in FreeRaws' PROVE x \in FreeRaws \cup {r}
      <4>1. PICK i \in 1 .. Len(freed') : x = freed'[i]
        BY <3>1 DEF FreeRaws
      <4>2. i = Len(freed) + 1 \/ i \in 1 .. Len(freed)
        BY <4>1, <2>8
      <4> QED BY <4>1, <4>2, <2>8 DEF FreeRaws
    <3>2. ASSUME NEW x \in FreeRaws PROVE x \in FreeRaws'
      <4>1. PICK i \in 1 .. Len(freed) : x = freed[i]
        BY <3>2 DEF FreeRaws
      <4>2. i \in 1 .. Len(freed') /\ x = freed'[i]
        BY <4>1, <2>8
      <4> QED BY <4>2 DEF FreeRaws
    <3>3. r \in FreeRaws'
      <4>1. Len(freed) + 1 \in 1 .. Len(freed')
        BY <2>8
      <4> QED BY <4>1, <2>8 DEF FreeRaws
    <3> QED BY <3>1, <3>2, <3>3
  <2>10. FreeOK'
    <3>1. \A i \in 1 .. Len(freed) : freed[i] # r
      BY <2>3 DEF FreeRaws
    <3>2. \A i \in 1 .. Len(freed') : i = Len(freed) + 1 \/ i \in 1 .. Len(freed)
      BY <2>8
    <3>3. ASSUME NEW i \in 1 .. Len(freed'), NEW j \in 1 .. Len(freed'), freed'[i] = freed'[j] PROVE i = j
      BY <3>1, <3>2, <3>3, <2>8 DEF SharedInv, FreeOK
    <3>4. \A i \in 1 .. Len(freed') : freed'[i] \in allocated /\ cnt[freed'[i]] = 0 /\ rawData[freed'[i]] = 0
      BY <3>2, <2>3, <2>8 DEF SharedInv, FreeOK
    <3> QED BY <3>3, <3>4, <1>2 DEF FreeOK
  <2>11. Owned' = Owned /\ Coming' = Coming
    <3>1. \A u \in PtrThreads : (IF rawAt'[u][1] = "reset" THEN rawAt'[u][2] ELSE Shared!Null) =
                                (IF rawAt[u][1] = "reset" THEN rawAt[u][2] ELSE Shared!Null)
      BY <2>4, <1>1
    <3> QED BY <3>1, <1>2 DEF Owned, Coming
  <2>12. CountOK'
    BY <2>11, <1>2 DEF SharedInv, CountOK
  <2>13. AliveOK'
    BY <2>4, <1>2 DEF SharedInv, AliveOK
  <2>14. CallersOK'
    BY <2>1, <1>1, <1>2, CallersKept DEF SharedInv, Reversing, Allocating, Shared!Idle
  <2>15. WayOK'
    <3>1. \A u \in PtrThreads : rawAt'[u][1] \in Flying => u # t /\ rawAt'[u] = rawAt[u]
      BY <2>4 DEF Flying
    <3>2. ASSUME NEW u \in PtrThreads, rawAt'[u][1] \in Flying
          PROVE  /\ rawAt'[u][2] \in allocated' /\ cnt'[rawAt'[u][2]] = 0 /\ rawAt'[u][2] \notin FreeRaws'
                 /\ rawAt'[u][1] # "destroy" => rawData'[rawAt'[u][2]] = 0
                 /\ rawAt'[u][1] = "push" => rawNext'[rawAt'[u][2]] = rawAt'[u][3]
      <4>1. u # t /\ rawAt'[u] = rawAt[u] /\ rawAt[u][1] \in Flying
        BY <3>1, <3>2
      <4>2. rawAt[u][2] # r
        BY <4>1, <2>5, <1>1 DEF SharedInv, WayOK, Flying
      <4>3. /\ rawAt[u][2] \in allocated /\ cnt[rawAt[u][2]] = 0 /\ rawAt[u][2] \notin FreeRaws
            /\ rawAt[u][1] # "destroy" => rawData[rawAt[u][2]] = 0
            /\ rawAt[u][1] = "push" => rawNext[rawAt[u][2]] = rawAt[u][3]
        BY <4>1 DEF SharedInv, WayOK
      <4> QED BY <4>1, <4>2, <4>3, <2>2, <2>9, <1>2
    <3>3. ASSUME NEW u \in PtrThreads, NEW v \in PtrThreads, rawAt'[u][1] \in Flying, rawAt'[v][1] \in Flying,
                 rawAt'[u][2] = rawAt'[v][2]
          PROVE  u = v
      BY <3>1, <3>3 DEF SharedInv, WayOK
    <3> QED BY <3>2, <3>3 DEF WayOK
  <2>16. SomewhereOK'
    <3>1. ASSUME NEW x \in allocated, cnt[x] = 0
          PROVE  x \in FreeRaws' \/ \E u \in PtrThreads : Shared!Releases(u, x)'
      <4>1. CASE x \in FreeRaws \/ x = r
        BY <4>1, <2>9
      <4>2. CASE x \notin FreeRaws /\ x # r
        <5>1. PICK u \in PtrThreads : Shared!Releases(u, x)
          BY <4>2, <3>1 DEF SharedInv, SomewhereOK
        <5>2. u # t
          BY <5>1, <4>2, <2>5 DEF Shared!Releases
        <5>3. Shared!Releases(u, x)'
          BY <5>1, <5>2, <2>4 DEF Shared!Releases
        <5> QED BY <5>3
      <4> QED BY <4>1, <4>2
    <3>2. \A x \in Raws \ allocated : cnt[x] = 0
      BY DEF SharedInv, SomewhereOK
    <3> QED BY <3>1, <3>2, <1>2 DEF SomewhereOK
  <2> QED BY <2>6, <2>7, <2>10, <2>12, <2>13, <2>14, <2>15, <2>16, FifoAfter DEF SharedInv
<1> QED BY <1>3, <1>4

(* A pointer to a Raw that nobody referred to and that was not on its way.  *)
LEMMA ConstructedKeeps ==
  ASSUME PtrsOK, SharedInv, NEW t \in PtrThreads, NEW r \in Raws, Shared!Constructed(t, r),
         rawAt[t][1] = "alloc", cnt[r] = 0, \A u \in PtrThreads : ~Shared!Releases(u, r),
         allocated' = allocated \cup {r}, UNCHANGED <<rawNext, adding>>,
         freed' \in Seq(Raws), FreeRaws' = FreeRaws \ {r},
         \A i, j \in 1 .. Len(freed') : freed'[i] = freed'[j] => i = j
  PROVE  PtrTypes' /\ CountOK' /\ AliveOK' /\ CallersOK' /\ WayOK' /\ FreeOK' /\ SomewhereOK'
<1>1. PtrTypes /\ ptr[t] = Shared!Empty
  BY DEF SharedInv, CallersOK, Allocating
<1>2. Goes(t, Shared!Idle)
  BY <1>1, GoesTo DEF Shared!Constructed
<1>3. rawAt'[t][1] = "idle" /\ \A u \in PtrThreads : u # t => rawAt'[u] = rawAt[u]
  BY <1>2 DEF Goes, Shared!Idle
<1>4. /\ DOMAIN ptr' = PtrThreads /\ ptr'[t].raw = r /\ ptr'[t].obj = rawData'[r]
      /\ \A u \in PtrThreads : u # t => ptr'[u] = ptr[u]
      /\ DOMAIN rawData' = Raws /\ \A x \in Raws : x # r => rawData'[x] = rawData[x]
      /\ DOMAIN cnt' = Raws /\ cnt'[r] = cnt[r] + 1 /\ \A x \in Raws : x # r => cnt'[x] = cnt[x]
  BY <1>1 DEF Shared!Constructed, PtrTypes
<1>5. PtrTypes'
  BY <1>1, <1>2, <1>4 DEF PtrTypes, Goes
<1>6. \A u \in PtrThreads : ptr[u].raw # r /\ (rawAt[u][1] = "reset" => rawAt[u][2] # r)
  BY CountIs DEF SharedInv, Shared!Refers
<1>7. CountOK'
  <2>1. /\ OnlyAt(t, Owned, Owned') /\ OnlyAt(t, Coming, Coming')
        /\ Owned'[t] = r /\ Owned[t] = Shared!Null /\ Coming'[t] = Shared!Null /\ Coming[t] = Shared!Null
    BY <1>1, <1>3, <1>4 DEF OnlyAt, Owned, Coming, Shared!Empty
  <2>2. ASSUME NEW x \in Raws PROVE cnt'[x] = HeldBy(Owned', x) + HeldBy(Coming', x)
    <3>1. /\ cnt[x] \in Nat
          /\ HeldBy(Owned', x) + HeldBy(Coming', x) =
               cnt[x] + ((IF Owned'[t] = x THEN 1 ELSE 0) - (IF Owned[t] = x THEN 1 ELSE 0))
                      + ((IF Coming'[t] = x THEN 1 ELSE 0) - (IF Coming[t] = x THEN 1 ELSE 0))
      BY <2>1, CountMove DEF SharedInv
    <3>2. x # Shared!Null
      BY DEF PtrsOK
    <3>3. HeldBy(Owned', x) + HeldBy(Coming', x) = cnt[x] + (IF r = x THEN 1 ELSE 0)
      BY <3>1, <3>2, <2>1
    <3> QED BY <3>1, <3>3, <1>4
  <2> QED BY <2>2 DEF CountOK
<1>8. AliveOK'
  <2>1. ASSUME NEW u \in PtrThreads, u # t
        PROVE  /\ ptr'[u] = Shared!Empty \/ (ptr'[u].raw \in Raws /\ rawData'[ptr'[u].raw] = ptr'[u].obj)
               /\ rawAt'[u][1] = "reset" =>
                    \/ rawAt'[u][2] = Shared!Null /\ rawAt'[u][3] = 0
                    \/ rawAt'[u][2] \in Raws /\ rawData'[rawAt'[u][2]] = rawAt'[u][3]
    BY <2>1, <1>3, <1>4, <1>6 DEF SharedInv, AliveOK
  <2>2. ptr'[t].raw \in Raws /\ rawData'[ptr'[t].raw] = ptr'[t].obj /\ rawAt'[t][1] # "reset"
    BY <1>3, <1>4
  <2> QED BY <2>1, <2>2 DEF AliveOK
<1>9. CallersOK'
  <2>1. \A u \in PtrThreads : rawAt[u][1] \in Allocating => u = t \/ ptr'[u] = ptr[u]
    BY <1>4
  <2>2. rawAt[t][1] \notin Reversing /\ Shared!Idle[1] \notin Reversing \cup Allocating
    BY DEF Reversing, Allocating, Shared!Idle
  <2> QED BY <2>1, <2>2, <1>2, CallersKept DEF SharedInv
<1>10. WayOK'
  <2>1. \A u \in PtrThreads : rawAt'[u][1] \in Flying => u # t /\ rawAt'[u] = rawAt[u]
    BY <1>3 DEF Flying
  <2>2. ASSUME NEW u \in PtrThreads, rawAt'[u][1] \in Flying
        PROVE  /\ rawAt'[u][2] \in allocated' /\ cnt'[rawAt'[u][2]] = 0 /\ rawAt'[u][2] \notin FreeRaws'
               /\ rawAt'[u][1] # "destroy" => rawData'[rawAt'[u][2]] = 0
               /\ rawAt'[u][1] = "push" => rawNext'[rawAt'[u][2]] = rawAt'[u][3]
    <3>1. u # t /\ rawAt'[u] = rawAt[u] /\ rawAt[u][1] \in Flying
      BY <2>1, <2>2
    <3>2. rawAt[u][2] # r
      BY <3>1 DEF Shared!Releases, Flying
    <3>3. /\ rawAt[u][2] \in allocated /\ cnt[rawAt[u][2]] = 0 /\ rawAt[u][2] \notin FreeRaws
          /\ rawAt[u][1] # "destroy" => rawData[rawAt[u][2]] = 0
          /\ rawAt[u][1] = "push" => rawNext[rawAt[u][2]] = rawAt[u][3]
      BY <3>1 DEF SharedInv, WayOK
    <3>4. rawAt[u][2] \in Raws
      BY <3>3, <1>1 DEF PtrTypes
    <3> QED BY <3>1, <3>2, <3>3, <3>4, <1>4
  <2>3. ASSUME NEW u \in PtrThreads, NEW v \in PtrThreads, rawAt'[u][1] \in Flying, rawAt'[v][1] \in Flying,
               rawAt'[u][2] = rawAt'[v][2]
        PROVE  u = v
    BY <2>1, <2>3 DEF SharedInv, WayOK
  <2> QED BY <2>2, <2>3 DEF WayOK
<1>11. FreeOK'
  <2>1. ASSUME NEW i \in 1 .. Len(freed')
        PROVE  freed'[i] \in allocated' /\ cnt'[freed'[i]] = 0 /\ rawData'[freed'[i]] = 0
    <3>1. freed'[i] \in FreeRaws /\ freed'[i] # r
      BY DEF FreeRaws
    <3>2. freed'[i] \in allocated /\ cnt[freed'[i]] = 0 /\ rawData[freed'[i]] = 0
      BY <3>1 DEF SharedInv, FreeOK, FreeRaws
    <3>3. freed'[i] \in Raws
      BY <3>2, <1>1 DEF PtrTypes
    <3> QED BY <3>1, <3>2, <3>3, <1>4
  <2> QED BY <2>1 DEF FreeOK
<1>12. SomewhereOK'
  <2>1. cnt'[r] # 0
    BY <1>4
  <2>2. ASSUME NEW x \in Raws \ allocated' PROVE cnt'[x] = 0
    BY <1>4 DEF SharedInv, SomewhereOK
  <2>3. ASSUME NEW x \in allocated', cnt'[x] = 0
        PROVE  x \in FreeRaws' \/ \E u \in PtrThreads : Shared!Releases(u, x)'
    <3>1. x # r /\ x \in allocated /\ x \in Raws
      BY <2>1, <2>3, <1>1 DEF PtrTypes
    <3>2. CASE x \in FreeRaws
      BY <3>1, <3>2
    <3>3. CASE x \notin FreeRaws
      <4>1. PICK u \in PtrThreads : Shared!Releases(u, x)
        BY <3>1, <3>3, <2>3, <1>4 DEF SharedInv, SomewhereOK
      <4>2. u # t
        BY <4>1 DEF Shared!Releases
      <4>3. Shared!Releases(u, x)'
        BY <4>1, <4>2, <1>3 DEF Shared!Releases
      <4> QED BY <4>3
    <3> QED BY <3>2, <3>3
  <2> QED BY <2>2, <2>3 DEF SomewhereOK
<1> QED BY <1>5, <1>7, <1>8, <1>9, <1>10, <1>11, <1>12

(* alloc_raw takes the oldest Raw of the queue.                             *)
LEMMA AllocFreedKeeps ==
  ASSUME PtrsOK, SharedInv, NEW t \in PtrThreads, Shared!AllocFreed(t)
  PROVE  SharedInv'
<1>1. PtrTypes /\ IsFifo /\ FreeOK
  BY FifoIs DEF SharedInv
<1>2. /\ rawAt[t][1] = "alloc" /\ rhead # Shared!Null /\ rhead' = rawNext[rhead] /\ freed' = Tail(freed)
      /\ Shared!Constructed(t, rhead) /\ UNCHANGED <<allocated, rawNext, rawHead, rtail, adding>>
  BY DEF Shared!AllocFreed
<1>3. adding.node = Shared!Null /\ adding.head = Shared!Null
  <2>1. \A u \in PtrThreads : rawAt[u][1] \in Reversing \cup Allocating => u = t
    BY <1>2 DEF SharedInv, CallersOK, Allocating
  <2>2. rawAt[t][1] \notin Reversing
    BY <1>2 DEF Reversing
  <2> QED BY <2>1, <2>2 DEF SharedInv, CallersOK
<1>4. /\ IsFifo' /\ freed' \in Seq(Raws) /\ Len(freed) \in Nat /\ Len(freed) > 0
      /\ rhead = freed[1] /\ rhead \in Raws /\ Len(freed') = Len(freed) - 1
      /\ \A i \in 1 .. Len(freed') : freed'[i] = freed[i + 1]
  BY <1>1, <1>2, <1>3, ReadFifo
<1>5. 1 \in 1 .. Len(freed) /\ rhead \in FreeRaws /\ rhead \in allocated /\ cnt[rhead] = 0
  <2>1. 1 \in 1 .. Len(freed)
    BY <1>4
  <2> QED BY <2>1, <1>1, <1>4 DEF FreeOK, FreeRaws
<1>6. \A i \in 1 .. Len(freed') : i + 1 \in 1 .. Len(freed) /\ i + 1 # 1
  BY <1>4
<1>7. ASSUME NEW i \in 1 .. Len(freed'), NEW j \in 1 .. Len(freed'), freed'[i] = freed'[j] PROVE i = j
  <2>1. i + 1 = j + 1
    BY <1>1, <1>4, <1>6, <1>7 DEF FreeOK
  <2> QED BY <2>1
<1>8. FreeRaws' = FreeRaws \ {rhead}
  <2>1. ASSUME NEW x \in FreeRaws' PROVE x \in FreeRaws \ {rhead}
    <3>1. PICK i \in 1 .. Len(freed') : x = freed'[i]
      BY <2>1 DEF FreeRaws
    <3>2. x = freed[i + 1] /\ i + 1 \in 1 .. Len(freed) /\ i + 1 # 1
      BY <3>1, <1>4, <1>6
    <3>3. x # freed[1]
      BY <3>2, <1>1, <1>5 DEF FreeOK
    <3> QED BY <3>2, <3>3, <1>4 DEF FreeRaws
  <2>2. ASSUME NEW x \in FreeRaws, x # rhead PROVE x \in FreeRaws'
    <3>1. PICK i \in 1 .. Len(freed) : x = freed[i]
      BY <2>2 DEF FreeRaws
    <3>2. i # 1
      BY <3>1, <2>2, <1>4
    <3>3. i - 1 \in 1 .. Len(freed') /\ (i - 1) + 1 = i
      BY <3>2, <1>4
    <3>4. freed'[i - 1] = freed[(i - 1) + 1]
      BY <3>3, <1>4
    <3> QED BY <3>1, <3>3, <3>4 DEF FreeRaws
  <2> QED BY <2>1, <2>2
<1>9. \A u \in PtrThreads : ~Shared!Releases(u, rhead)
  BY <1>5 DEF SharedInv, WayOK, Flying, Shared!Releases
<1>10. allocated' = allocated \cup {rhead}
  BY <1>2, <1>5
<1>11. PtrTypes' /\ CountOK' /\ AliveOK' /\ CallersOK' /\ WayOK' /\ FreeOK' /\ SomewhereOK'
  BY <1>2, <1>4, <1>5, <1>7, <1>8, <1>9, <1>10, ConstructedKeeps
<1> QED BY <1>4, <1>11, FifoAfter DEF SharedInv

(* Or makes a new one.                                                      *)
LEMMA AllocNewKeeps ==
  ASSUME PtrsOK, SharedInv, NEW t \in PtrThreads, Shared!AllocNew(t)
  PROVE  SharedInv'
<1>1. PtrTypes /\ IsFifo /\ FreeOK
  BY FifoIs DEF SharedInv
<1>2. PICK r \in Raws \ allocated : allocated' = allocated \cup {r} /\ Shared!Constructed(t, r)
  BY DEF Shared!AllocNew
<1>3. rawAt[t][1] = "alloc" /\ UNCHANGED <<rawNext, rawHead, rhead, rtail, adding, freed>>
  BY DEF Shared!AllocNew, Shared!queue
<1>4. cnt[r] = 0
  BY <1>2 DEF SharedInv, SomewhereOK
<1>5. \A u \in PtrThreads : ~Shared!Releases(u, r)
  BY <1>2 DEF SharedInv, WayOK, Flying, Shared!Releases
<1>6. FreeRaws' = FreeRaws /\ r \notin FreeRaws
  BY <1>1, <1>2, <1>3 DEF FreeRaws, FreeOK
<1>7. freed' \in Seq(Raws) /\ \A i, j \in 1 .. Len(freed') : freed'[i] = freed'[j] => i = j
  BY <1>1, <1>3 DEF PtrTypes, FreeOK
<1>8. FreeRaws' = FreeRaws \ {r}
  BY <1>6
<1>9. PtrTypes' /\ CountOK' /\ AliveOK' /\ CallersOK' /\ WayOK' /\ FreeOK' /\ SomewhereOK'
  BY <1>2, <1>3, <1>4, <1>5, <1>7, <1>8, ConstructedKeeps
<1>10. IsFifo'
  BY <1>1, <1>3 DEF IsFifo
<1> QED BY <1>9, <1>10, FifoAfter DEF SharedInv

(* What is known of the queue and of Raws on their way, after a step of a   *)
(* pointer that destroys nothing.                                           *)
LEMMA WayStays ==
  ASSUME SharedInv, UNCHANGED <<allocated, rawNext, rawHead, rhead, rtail, adding, freed, rawData>>,
         DOMAIN cnt' = Raws, DOMAIN ptr' = PtrThreads, DOMAIN rawAt' = PtrThreads,
         \A u \in PtrThreads : rawAt'[u] = rawAt[u] \/ (rawAt'[u][1] \notin Flying /\ rawAt[u][1] \notin Flying),
         \A x \in Raws : cnt[x] = 0 <=> cnt'[x] = 0
  PROVE  PtrTypes' /\ WayOK' /\ FreeOK' /\ SomewhereOK' /\ Shared!FreeIsFifo'
<1>1. PtrTypes' /\ PtrTypes
  BY DEF SharedInv, PtrTypes
<1>2. FreeRaws' = FreeRaws
  BY DEF FreeRaws
<1>3. Shared!FreeIsFifo'
  <2>1. IsFifo
    BY <1>1, FifoIs DEF SharedInv
  <2>2. IsFifo'
    BY <2>1 DEF IsFifo
  <2> QED BY <1>1, <2>2, FifoAfter
<1>4. \A u \in PtrThreads : rawAt'[u][1] \in Flying => rawAt'[u] = rawAt[u]
  OBVIOUS
<1>5. WayOK'
  <2>1. ASSUME NEW u \in PtrThreads, rawAt'[u][1] \in Flying
        PROVE  /\ rawAt'[u][2] \in allocated' /\ cnt'[rawAt'[u][2]] = 0 /\ rawAt'[u][2] \notin FreeRaws'
               /\ rawAt'[u][1] # "destroy" => rawData'[rawAt'[u][2]] = 0
               /\ rawAt'[u][1] = "push" => rawNext'[rawAt'[u][2]] = rawAt'[u][3]
    <3>1. rawAt'[u] = rawAt[u] /\ rawAt[u][1] \in Flying
      BY <1>4, <2>1
    <3>2. /\ rawAt[u][2] \in allocated /\ cnt[rawAt[u][2]] = 0 /\ rawAt[u][2] \notin FreeRaws
          /\ rawAt[u][1] # "destroy" => rawData[rawAt[u][2]] = 0
          /\ rawAt[u][1] = "push" => rawNext[rawAt[u][2]] = rawAt[u][3]
      BY <3>1 DEF SharedInv, WayOK
    <3>3. cnt'[rawAt[u][2]] = 0
      BY <3>2, <1>1 DEF PtrTypes
    <3> QED BY <3>1, <3>2, <3>3, <1>2
  <2>2. ASSUME NEW u \in PtrThreads, NEW v \in PtrThreads, rawAt'[u][1] \in Flying, rawAt'[v][1] \in Flying,
               rawAt'[u][2] = rawAt'[v][2]
        PROVE  u = v
    BY <1>4, <2>2 DEF SharedInv, WayOK
  <2> QED BY <2>1, <2>2 DEF WayOK
<1>6. FreeOK'
  <2>1. \A i \in 1 .. Len(freed) : freed[i] \in Raws /\ freed[i] \in allocated /\ cnt[freed[i]] = 0 /\ rawData[freed[i]] = 0
    BY <1>1 DEF SharedInv, FreeOK, PtrTypes
  <2> QED BY <2>1 DEF SharedInv, FreeOK
<1>7. SomewhereOK'
  <2>1. ASSUME NEW x \in allocated, cnt'[x] = 0
        PROVE  x \in FreeRaws \/ \E u \in PtrThreads : Shared!Releases(u, x)'
    <3>1. cnt[x] = 0
      BY <2>1, <1>1 DEF PtrTypes
    <3>2. CASE x \notin FreeRaws
      <4>1. PICK u \in PtrThreads : Shared!Releases(u, x)
        BY <3>1, <3>2 DEF SharedInv, SomewhereOK
      <4>2. Shared!Releases(u, x)'
        BY <4>1 DEF Shared!Releases, Flying
      <4> QED BY <4>2
    <3> QED BY <3>2
  <2> QED BY <2>1, <1>2 DEF SharedInv, SomewhereOK
<1> QED BY <1>1, <1>3, <1>5, <1>6, <1>7

(* The copy: counted before u lets go of its own.                           *)
LEMMA CopyKeeps ==
  ASSUME PtrsOK, SharedInv, NEW t \in PtrThreads, NEW u \in PtrThreads, Shared!Copy(t, u)
  PROVE  SharedInv'
<1> DEFINE r == ptr[t].raw
<1>1. PtrTypes
  BY DEF SharedInv
<1>2. /\ r \in Raws /\ rawData[r] = ptr[t].obj /\ rawAt[u][1] = "idle"
      /\ cnt' = [cnt EXCEPT ![r] = @ + 1]
      /\ UNCHANGED <<allocated, rawNext, rawHead, rhead, rtail, adding, freed, rawData, ptr, rawObjects>>
  BY DEF Shared!Copy, Shared!queue, Shared!Idle, SharedInv, AliveOK
<1>3. /\ DOMAIN rawAt' = PtrThreads
      /\ rawAt'[u][1] = "reset" /\ rawAt'[u][2] = r /\ rawAt'[u][3] = ptr[t].obj
      /\ \A v \in PtrThreads : v # u => rawAt'[v] = rawAt[v]
      /\ Goes(u, <<"reset", r, ptr[t].obj>>)
  BY <1>1 DEF Shared!Copy, PtrTypes, Goes
<1>4. cnt[r] \in Nat /\ cnt[r] # 0
  BY <1>2, CountIs DEF SharedInv, Shared!Refers
<1>5. r = ptr[t].raw
  OBVIOUS
<1> HIDE DEF r
<1>6. DOMAIN cnt' = Raws /\ cnt'[r] = cnt[r] + 1 /\ \A x \in Raws : x # r => cnt'[x] = cnt[x]
  BY <1>1, <1>2 DEF PtrTypes
<1>7. \A x \in Raws : cnt[x] = 0 <=> cnt'[x] = 0
  BY <1>4, <1>6
<1>8. PtrTypes' /\ WayOK' /\ FreeOK' /\ SomewhereOK' /\ Shared!FreeIsFifo'
  <2>1. \A v \in PtrThreads : rawAt'[v] = rawAt[v] \/ (rawAt'[v][1] \notin Flying /\ rawAt[v][1] \notin Flying)
    BY <1>2, <1>3 DEF Flying
  <2>2. DOMAIN ptr' = PtrThreads
    BY <1>1, <1>2 DEF PtrTypes
  <2> QED BY <2>1, <2>2, <1>2, <1>3, <1>6, <1>7, WayStays
<1>9. CountOK'
  <2>1. /\ OnlyAt(u, Owned, Owned') /\ OnlyAt(u, Coming, Coming') /\ Owned'[u] = Owned[u]
        /\ Coming'[u] = r /\ Coming[u] = Shared!Null
    BY <1>2, <1>3 DEF OnlyAt, Owned, Coming
  <2>2. ASSUME NEW x \in Raws PROVE cnt'[x] = HeldBy(Owned', x) + HeldBy(Coming', x)
    <3>1. /\ cnt[x] \in Nat
          /\ HeldBy(Owned', x) + HeldBy(Coming', x) =
               cnt[x] + ((IF Owned'[u] = x THEN 1 ELSE 0) - (IF Owned[u] = x THEN 1 ELSE 0))
                      + ((IF Coming'[u] = x THEN 1 ELSE 0) - (IF Coming[u] = x THEN 1 ELSE 0))
      BY <2>1, CountMove DEF SharedInv
    <3>2. x # Shared!Null
      BY DEF PtrsOK
    <3>3. HeldBy(Owned', x) + HeldBy(Coming', x) = cnt[x] + (IF r = x THEN 1 ELSE 0)
      BY <3>1, <3>2, <2>1
    <3> QED BY <3>1, <3>3, <1>6
  <2> QED BY <2>2 DEF CountOK
<1>10. AliveOK'
  BY <1>2, <1>3, <1>5 DEF SharedInv, AliveOK
<1>11. CallersOK'
  BY <1>2, <1>3, CallersKept DEF SharedInv, Reversing, Allocating
<1> QED BY <1>8, <1>9, <1>10, <1>11 DEF SharedInv

(* The move: the pointer that is moved from is empty.                       *)
LEMMA SharedMoveKeeps ==
  ASSUME PtrsOK, SharedInv, NEW t \in PtrThreads, NEW u \in PtrThreads, Shared!MovePtr(t, u)
  PROVE  SharedInv'
<1> DEFINE r == ptr[t].raw
<1>1. PtrTypes
  BY DEF SharedInv
<1>2. /\ r \in Raws /\ rawData[r] = ptr[t].obj /\ rawAt[u][1] = "idle" /\ rawAt[t][1] = "idle" /\ t # u
      /\ UNCHANGED <<allocated, rawNext, rawHead, rhead, rtail, adding, freed, rawData, cnt, rawObjects>>
  BY DEF Shared!MovePtr, Shared!queue, Shared!Idle, SharedInv, AliveOK
<1>3. /\ DOMAIN rawAt' = PtrThreads
      /\ rawAt'[u][1] = "reset" /\ rawAt'[u][2] = r /\ rawAt'[u][3] = ptr[t].obj
      /\ \A v \in PtrThreads : v # u => rawAt'[v] = rawAt[v]
      /\ Goes(u, <<"reset", r, ptr[t].obj>>)
      /\ DOMAIN ptr' = PtrThreads /\ ptr'[t] = Shared!Empty
      /\ \A v \in PtrThreads : v # t => ptr'[v] = ptr[v]
  BY <1>1 DEF Shared!MovePtr, PtrTypes, Goes
<1>5. r = ptr[t].raw
  OBVIOUS
<1> HIDE DEF r
<1>8. PtrTypes' /\ WayOK' /\ FreeOK' /\ SomewhereOK' /\ Shared!FreeIsFifo'
  <2>1. \A v \in PtrThreads : rawAt'[v] = rawAt[v] \/ (rawAt'[v][1] \notin Flying /\ rawAt[v][1] \notin Flying)
    BY <1>2, <1>3 DEF Flying
  <2>2. DOMAIN cnt' = Raws
    BY <1>1, <1>2 DEF PtrTypes
  <2>3. \A x \in Raws : cnt[x] = 0 <=> cnt'[x] = 0
    BY <1>2
  <2> QED BY <2>1, <2>2, <2>3, <1>2, <1>3, WayStays
<1>9. CountOK'
  <2>1. /\ OnlyAt(t, Owned, Owned') /\ OnlyAt(u, Coming, Coming')
        /\ Owned'[t] = Shared!Null /\ Owned[t] = r /\ Coming'[u] = r /\ Coming[u] = Shared!Null
    BY <1>2, <1>3, <1>5 DEF OnlyAt, Owned, Coming, Shared!Empty
  <2>2. ASSUME NEW x \in Raws PROVE cnt'[x] = HeldBy(Owned', x) + HeldBy(Coming', x)
    <3>1. /\ cnt[x] \in Nat
          /\ HeldBy(Owned', x) + HeldBy(Coming', x) =
               cnt[x] + ((IF Owned'[t] = x THEN 1 ELSE 0) - (IF Owned[t] = x THEN 1 ELSE 0))
                      + ((IF Coming'[u] = x THEN 1 ELSE 0) - (IF Coming[u] = x THEN 1 ELSE 0))
      BY <2>1, CountMove DEF SharedInv
    <3>2. x # Shared!Null
      BY DEF PtrsOK
    <3>3. HeldBy(Owned', x) + HeldBy(Coming', x) = cnt[x]
      BY <3>1, <3>2, <2>1
    <3> QED BY <3>3, <1>2
  <2> QED BY <2>2 DEF CountOK
<1>10. AliveOK'
  BY <1>2, <1>3 DEF SharedInv, AliveOK
<1>11. CallersOK'
  <2>1. \A v \in PtrThreads : rawAt[v][1] \in Allocating => v = u \/ ptr'[v] = ptr[v]
    BY <1>2, <1>3 DEF Allocating
  <2> QED BY <2>1, <1>2, <1>3, CallersKept DEF SharedInv, Reversing, Allocating
<1> QED BY <1>8, <1>9, <1>10, <1>11 DEF SharedInv

(* reset() begins.                                                          *)
LEMMA ReleaseKeeps ==
  ASSUME PtrsOK, SharedInv, NEW t \in PtrThreads, Shared!Release(t)
  PROVE  SharedInv'
<1>1. PtrTypes
  BY DEF SharedInv
<1>2. /\ rawAt[t][1] = "idle"
      /\ UNCHANGED <<allocated, rawNext, rawHead, rhead, rtail, adding, freed, rawData, cnt, ptr, rawObjects>>
  BY DEF Shared!Release, Shared!queue, Shared!Idle
<1>3. Goes(t, <<"reset", Shared!Null, 0>>)
  BY <1>1, GoesTo DEF Shared!Release
<1>4. /\ DOMAIN rawAt' = PtrThreads
      /\ rawAt'[t][1] = "reset" /\ rawAt'[t][2] = Shared!Null /\ rawAt'[t][3] = 0
      /\ \A v \in PtrThreads : v # t => rawAt'[v] = rawAt[v]
  BY <1>3 DEF Goes
<1>5. PtrTypes' /\ WayOK' /\ FreeOK' /\ SomewhereOK' /\ Shared!FreeIsFifo'
  <2>1. \A v \in PtrThreads : rawAt'[v] = rawAt[v] \/ (rawAt'[v][1] \notin Flying /\ rawAt[v][1] \notin Flying)
    BY <1>2, <1>4 DEF Flying
  <2>2. DOMAIN cnt' = Raws /\ DOMAIN ptr' = PtrThreads /\ \A x \in Raws : cnt[x] = 0 <=> cnt'[x] = 0
    BY <1>1, <1>2 DEF PtrTypes
  <2> QED BY <2>1, <2>2, <1>2, <1>4, WayStays
<1>6. CountOK'
  <2>1. \A v \in PtrThreads : (IF rawAt'[v][1] = "reset" THEN rawAt'[v][2] ELSE Shared!Null) =
                              (IF rawAt[v][1] = "reset" THEN rawAt[v][2] ELSE Shared!Null)
    BY <1>2, <1>4
  <2>2. Owned' = Owned /\ Coming' = Coming
    BY <2>1, <1>2 DEF Owned, Coming
  <2> QED BY <2>2, <1>2 DEF SharedInv, CountOK
<1>7. AliveOK'
  BY <1>2, <1>4 DEF SharedInv, AliveOK
<1>8. CallersOK'
  BY <1>2, <1>3, CallersKept DEF SharedInv, Reversing, Allocating
<1> QED BY <1>5, <1>6, <1>7, <1>8 DEF SharedInv

(* reset: the decrement that reaches 0 leaves the Raw to its thread.        *)
LEMMA SharedResetKeeps ==
  ASSUME PtrsOK, SharedInv, NEW t \in PtrThreads, Shared!Reset(t)
  PROVE  SharedInv'
<1> DEFINE r == ptr[t].raw
           s == rawAt[t][2]
           last == r # Shared!Null /\ cnt[r] = 1
           step == IF last THEN <<"destroy", r, Shared!Null>> ELSE Shared!Idle
<1>1. PtrTypes
  BY DEF SharedInv
<1>2. /\ rawAt[t][1] = "reset" /\ (r = Shared!Null \/ (r \in Raws /\ rawData[r] = ptr[t].obj))
      /\ (s = Shared!Null /\ rawAt[t][3] = 0) \/ (s \in Raws /\ rawData[s] = rawAt[t][3])
      /\ cnt' = (IF r = Shared!Null THEN cnt ELSE [cnt EXCEPT ![r] = @ - 1])
      /\ UNCHANGED <<allocated, rawNext, rawHead, rhead, rtail, adding, freed, rawData, rawObjects>>
  BY DEF Shared!Reset, Shared!queue, Shared!Empty, SharedInv, AliveOK
<1>3. /\ DOMAIN ptr' = PtrThreads /\ ptr'[t].raw = s /\ ptr'[t] = [raw |-> s, obj |-> rawAt[t][3]]
      /\ \A v \in PtrThreads : v # t => ptr'[v] = ptr[v]
  BY <1>1 DEF Shared!Reset, PtrTypes
<1>4. Goes(t, step)
  BY <1>1, GoesTo DEF Shared!Reset
<1>5. /\ (last => rawAt'[t][1] = "destroy" /\ rawAt'[t][2] = r) /\ (~last => rawAt'[t][1] = "idle")
      /\ \A v \in PtrThreads : v # t => rawAt'[v] = rawAt[v]
      /\ DOMAIN rawAt' = PtrThreads /\ step[1] \in {"destroy", "idle"}
  BY <1>4 DEF Goes, Shared!Idle
<1>6. /\ r = ptr[t].raw /\ s = rawAt[t][2] /\ (last <=> r # Shared!Null /\ cnt[r] = 1)
      /\ \A x \in Raws : x # Shared!Null
  BY DEF PtrsOK
<1> HIDE DEF r, s, last, step
<1>7. r \in Raws => cnt[r] \in Nat /\ cnt[r] # 0
  BY <1>6, CountIs DEF SharedInv, Shared!Refers
<1>8. /\ DOMAIN cnt' = Raws /\ (r \in Raws => cnt'[r] = cnt[r] - 1)
      /\ \A x \in Raws : x # r => cnt'[x] = cnt[x]
  BY <1>1, <1>2, <1>6 DEF PtrTypes
<1>9. CountOK'
  <2>1. /\ OnlyAt(t, Owned, Owned') /\ OnlyAt(t, Coming, Coming')
        /\ Owned'[t] = s /\ Owned[t] = r /\ Coming'[t] = Shared!Null /\ Coming[t] = s
    BY <1>2, <1>3, <1>5, <1>6 DEF OnlyAt, Owned, Coming
  <2>2. ASSUME NEW x \in Raws PROVE cnt'[x] = HeldBy(Owned', x) + HeldBy(Coming', x)
    <3>1. /\ cnt[x] \in Nat
          /\ HeldBy(Owned', x) + HeldBy(Coming', x) =
               cnt[x] + ((IF Owned'[t] = x THEN 1 ELSE 0) - (IF Owned[t] = x THEN 1 ELSE 0))
                      + ((IF Coming'[t] = x THEN 1 ELSE 0) - (IF Coming[t] = x THEN 1 ELSE 0))
      <4>1. OnlyAt(t, Owned, Owned') /\ OnlyAt(t, Coming, Coming') /\ CountOK
        BY <2>1 DEF SharedInv
      <4> QED BY <4>1, CountMove
    <3>2. HeldBy(Owned', x) + HeldBy(Coming', x) = cnt[x] - (IF r = x THEN 1 ELSE 0)
      BY <3>1, <2>1, <1>6
    <3> QED BY <3>1, <3>2, <1>8
  <2> QED BY <2>2 DEF CountOK
<1>10. AliveOK'
  <2>1. ptr'[t] = Shared!Empty \/ (ptr'[t].raw \in Raws /\ rawData[ptr'[t].raw] = ptr'[t].obj)
    BY <1>2, <1>3 DEF Shared!Empty, Shared!Null
  <2>2. rawAt'[t][1] # "reset"
    BY <1>5
  <2> QED BY <2>1, <2>2, <1>2, <1>3, <1>5 DEF SharedInv, AliveOK
<1>11. CallersOK'
  <2>1. \A v \in PtrThreads : rawAt[v][1] \in Allocating => v = t \/ ptr'[v] = ptr[v]
    BY <1>3
  <2>2. rawAt[t][1] \notin Reversing /\ step[1] \notin Reversing \cup Allocating
    BY <1>2, <1>5 DEF Reversing, Allocating
  <2> QED BY <2>1, <2>2, <1>2, <1>4, CallersKept DEF SharedInv
<1>12. CASE ~last
  <2>1. \A v \in PtrThreads : rawAt'[v] = rawAt[v] \/ (rawAt'[v][1] \notin Flying /\ rawAt[v][1] \notin Flying)
    BY <1>2, <1>5, <1>12 DEF Flying
  <2>2. \A x \in Raws : cnt[x] = 0 <=> cnt'[x] = 0
    <3>1. r \in Raws => cnt[r] # 1
      BY <1>6, <1>12
    <3>2. r \in Raws => cnt'[r] # 0
      BY <3>1, <1>7, <1>8
    <3> QED BY <3>2, <1>7, <1>8
  <2>3. PtrTypes' /\ WayOK' /\ FreeOK' /\ SomewhereOK' /\ Shared!FreeIsFifo'
    BY <2>1, <2>2, <1>2, <1>3, <1>5, <1>8, WayStays
  <2> QED BY <2>3, <1>9, <1>10, <1>11 DEF SharedInv
<1>13. CASE last
  <2>1. r \in Raws /\ cnt[r] = 1 /\ cnt'[r] = 0 /\ rawAt'[t][1] = "destroy" /\ rawAt'[t][2] = r
    BY <1>2, <1>5, <1>6, <1>7, <1>8, <1>13
  <2>2. PtrTypes' /\ FreeRaws' = FreeRaws
    BY <1>1, <1>2, <1>3, <1>5, <1>8 DEF PtrTypes, FreeRaws
  <2>3. r \in allocated /\ r \notin FreeRaws
    BY <2>1 DEF SharedInv, SomewhereOK, FreeOK, FreeRaws
  <2>4. ASSUME NEW u \in PtrThreads, u # t, rawAt'[u][1] \in Flying
        PROVE  /\ rawAt'[u][2] \in allocated' /\ cnt'[rawAt'[u][2]] = 0 /\ rawAt'[u][2] \notin FreeRaws'
               /\ rawAt'[u][1] # "destroy" => rawData'[rawAt'[u][2]] = 0
               /\ rawAt'[u][1] = "push" => rawNext'[rawAt'[u][2]] = rawAt'[u][3]
               /\ rawAt'[u][2] # r
    <3>1. rawAt'[u] = rawAt[u] /\ rawAt[u][1] \in Flying
      BY <2>4, <1>5
    <3>2. /\ rawAt[u][2] \in allocated /\ cnt[rawAt[u][2]] = 0 /\ rawAt[u][2] \notin FreeRaws
          /\ rawAt[u][1] # "destroy" => rawData[rawAt[u][2]] = 0
          /\ rawAt[u][1] = "push" => rawNext[rawAt[u][2]] = rawAt[u][3]
      BY <3>1 DEF SharedInv, WayOK
    <3>3. rawAt[u][2] # r /\ rawAt[u][2] \in Raws
      BY <3>2, <2>1, <1>1 DEF PtrTypes
    <3>4. cnt'[rawAt[u][2]] = 0
      BY <3>2, <3>3, <1>8
    <3> QED BY <3>1, <3>2, <3>3, <3>4, <2>2, <1>2
  <2>5. WayOK'
    <3>1. ASSUME NEW u \in PtrThreads, NEW v \in PtrThreads, rawAt'[u][1] \in Flying, rawAt'[v][1] \in Flying,
                 rawAt'[u][2] = rawAt'[v][2]
          PROVE  u = v
      <4>1. CASE u = t \/ v = t
        BY <4>1, <3>1, <2>1, <2>4
      <4>2. CASE u # t /\ v # t
        BY <4>2, <3>1, <1>5 DEF SharedInv, WayOK
      <4> QED BY <4>1, <4>2
    <3> QED BY <3>1, <2>1, <2>2, <2>3, <2>4, <1>2 DEF WayOK
  <2>6. FreeOK'
    <3>1. \A i \in 1 .. Len(freed) :
            /\ freed[i] \in Raws /\ freed[i] \in allocated /\ cnt[freed[i]] = 0 /\ rawData[freed[i]] = 0
            /\ freed[i] # r
      BY <2>1, <1>1 DEF SharedInv, FreeOK, PtrTypes
    <3> QED BY <3>1, <1>2, <1>8 DEF SharedInv, FreeOK
  <2>7. SomewhereOK'
    <3>1. ASSUME NEW x \in allocated, cnt'[x] = 0
          PROVE  x \in FreeRaws \/ \E u \in PtrThreads : Shared!Releases(u, x)'
      <4>1. CASE x = r
        <5>1. Shared!Releases(t, x)'
          BY <4>1, <2>1 DEF Shared!Releases
        <5> QED BY <5>1
      <4>2. CASE x # r /\ x \notin FreeRaws
        <5>1. cnt[x] = 0
          BY <4>2, <3>1, <1>1, <1>8 DEF PtrTypes
        <5>2. PICK u \in PtrThreads : Shared!Releases(u, x)
          BY <4>2, <5>1 DEF SharedInv, SomewhereOK
        <5>3. u # t
          BY <5>2, <1>2 DEF Shared!Releases
        <5>4. Shared!Releases(u, x)'
          BY <5>2, <5>3, <1>5 DEF Shared!Releases
        <5> QED BY <5>4
      <4> QED BY <4>1, <4>2
    <3>2. \A x \in Raws \ allocated : cnt'[x] = 0
      BY <2>3, <1>8 DEF SharedInv, SomewhereOK
    <3> QED BY <3>1, <3>2, <2>2, <1>2 DEF SomewhereOK
  <2>8. Shared!FreeIsFifo'
    <3>1. IsFifo
      BY <1>1, FifoIs DEF SharedInv
    <3>2. IsFifo'
      BY <3>1, <1>2 DEF IsFifo
    <3> QED BY <3>2, <2>2, FifoAfter
  <2> QED BY <2>2, <2>5, <2>6, <2>7, <2>8, <1>9, <1>10, <1>11 DEF SharedInv
<1> QED BY <1>12, <1>13

(* The object is destroyed when nobody refers to it.                        *)
LEMMA DestroyRawKeeps ==
  ASSUME PtrsOK, SharedInv, NEW t \in PtrThreads, Shared!Destroy(t)
  PROVE  SharedInv'
<1> DEFINE r == rawAt[t][2]
<1>1. PtrTypes
  BY DEF SharedInv
<1>2. /\ rawAt[t][1] = "destroy" /\ rawData' = [rawData EXCEPT ![r] = 0]
      /\ UNCHANGED <<allocated, rawNext, rawHead, rhead, rtail, adding, freed, cnt, ptr, rawObjects>>
  BY DEF Shared!Destroy, Shared!queue
<1>3. Goes(t, <<"free", r, Shared!Null>>)
  BY <1>1, GoesTo DEF Shared!Destroy
<1>4. /\ DOMAIN rawAt' = PtrThreads /\ rawAt'[t][1] = "free" /\ rawAt'[t][2] = r
      /\ \A v \in PtrThreads : v # t => rawAt'[v] = rawAt[v]
  BY <1>3 DEF Goes
<1>5. r \in allocated /\ r \in Raws /\ cnt[r] = 0 /\ r \notin FreeRaws
  BY <1>1, <1>2 DEF SharedInv, WayOK, Flying, PtrTypes
<1>6. r = rawAt[t][2]
  OBVIOUS
<1> HIDE DEF r
<1>7. DOMAIN rawData' = Raws /\ rawData'[r] = 0 /\ \A x \in Raws : x # r => rawData'[x] = rawData[x]
  BY <1>1, <1>2, <1>5 DEF PtrTypes
<1>8. PtrTypes' /\ FreeRaws' = FreeRaws
  BY <1>1, <1>2, <1>4, <1>7 DEF PtrTypes, FreeRaws
<1>9. \A u \in PtrThreads : ptr[u].raw # r /\ (rawAt[u][1] = "reset" => rawAt[u][2] # r)
  BY <1>5, CountIs DEF SharedInv, Shared!Refers
<1>10. CountOK'
  <2>1. \A v \in PtrThreads : (IF rawAt'[v][1] = "reset" THEN rawAt'[v][2] ELSE Shared!Null) =
                              (IF rawAt[v][1] = "reset" THEN rawAt[v][2] ELSE Shared!Null)
    BY <1>2, <1>4
  <2>2. Owned' = Owned /\ Coming' = Coming
    BY <2>1, <1>2 DEF Owned, Coming
  <2> QED BY <2>2, <1>2 DEF SharedInv, CountOK
<1>11. AliveOK'
  BY <1>2, <1>4, <1>7, <1>9 DEF SharedInv, AliveOK
<1>12. CallersOK'
  BY <1>2, <1>3, CallersKept DEF SharedInv, Reversing, Allocating
<1>13. WayOK'
  <2>1. ASSUME NEW u \in PtrThreads, u # t, rawAt'[u][1] \in Flying
        PROVE  /\ rawAt'[u][2] \in allocated' /\ cnt'[rawAt'[u][2]] = 0 /\ rawAt'[u][2] \notin FreeRaws'
               /\ rawAt'[u][1] # "destroy" => rawData'[rawAt'[u][2]] = 0
               /\ rawAt'[u][1] = "push" => rawNext'[rawAt'[u][2]] = rawAt'[u][3]
               /\ rawAt'[u][2] # r
    <3>1. rawAt'[u] = rawAt[u] /\ rawAt[u][1] \in Flying
      BY <2>1, <1>4
    <3>2. /\ rawAt[u][2] \in allocated /\ cnt[rawAt[u][2]] = 0 /\ rawAt[u][2] \notin FreeRaws
          /\ rawAt[u][1] # "destroy" => rawData[rawAt[u][2]] = 0
          /\ rawAt[u][1] = "push" => rawNext[rawAt[u][2]] = rawAt[u][3]
      BY <3>1 DEF SharedInv, WayOK
    <3>3. rawAt[u][2] # r /\ rawAt[u][2] \in Raws
      BY <3>1, <3>2, <2>1, <1>1, <1>2, <1>6 DEF SharedInv, WayOK, Flying, PtrTypes
    <3> QED BY <3>1, <3>2, <3>3, <1>2, <1>7, <1>8
  <2>2. ASSUME NEW u \in PtrThreads, NEW v \in PtrThreads, rawAt'[u][1] \in Flying, rawAt'[v][1] \in Flying,
               rawAt'[u][2] = rawAt'[v][2]
        PROVE  u = v
    <3>1. CASE u = t \/ v = t
      BY <3>1, <2>1, <2>2, <1>4
    <3>2. CASE u # t /\ v # t
      BY <3>2, <2>2, <1>4 DEF SharedInv, WayOK
    <3> QED BY <3>1, <3>2
  <2>3. /\ rawAt'[t][2] \in allocated' /\ cnt'[rawAt'[t][2]] = 0 /\ rawAt'[t][2] \notin FreeRaws'
        /\ rawData'[rawAt'[t][2]] = 0 /\ rawAt'[t][1] # "push"
    BY <1>2, <1>4, <1>5, <1>7, <1>8
  <2> QED BY <2>1, <2>2, <2>3 DEF WayOK
<1>14. FreeOK'
  <2>1. \A i \in 1 .. Len(freed) :
          freed[i] \in Raws /\ freed[i] \in allocated /\ cnt[freed[i]] = 0 /\ rawData[freed[i]] = 0
    BY <1>1 DEF SharedInv, FreeOK, PtrTypes
  <2> QED BY <2>1, <1>2, <1>7 DEF SharedInv, FreeOK
<1>15. SomewhereOK'
  <2>1. \A x, u : u \in PtrThreads /\ Shared!Releases(u, x) => Shared!Releases(u, x)'
    BY <1>2, <1>4, <1>6 DEF Shared!Releases
  <2> QED BY <2>1, <1>2, <1>8 DEF SharedInv, SomewhereOK
<1>16. Shared!FreeIsFifo'
  <2>1. IsFifo
    BY <1>1, FifoIs DEF SharedInv
  <2>2. IsFifo'
    BY <2>1, <1>2 DEF IsFifo
  <2> QED BY <2>2, <1>8, FifoAfter
<1> QED BY <1>8, <1>10, <1>11, <1>12, <1>13, <1>14, <1>15, <1>16 DEF SharedInv

(* The empty pool.                                                          *)
LEMMA SharedInit ==
  ASSUME PtrsOK, Shared!Init
  PROVE  SharedInv
<1>1. /\ allocated = {} /\ rawHead = Shared!Null /\ rhead = Shared!Null
      /\ adding.node = Shared!Null /\ adding.head = Shared!Null
      /\ rawNext = [r \in Raws |-> Shared!Null] /\ cnt = [r \in Raws |-> 0] /\ rawData = [r \in Raws |-> 0]
      /\ freed = <<>> /\ ptr = [t \in PtrThreads |-> Shared!Empty]
      /\ rawAt = [t \in PtrThreads |-> Shared!Idle]
  BY DEF Shared!Init, Shared!NotAdding
<1>2. \A t \in PtrThreads : rawAt[t][1] = "idle" /\ ptr[t] = Shared!Empty /\ ptr[t].raw = Shared!Null
  BY <1>1 DEF Shared!Idle, Shared!Empty
<1>3. Len(freed) = 0 /\ FreeRaws = {} /\ freed \in Seq(Raws)
  BY <1>1 DEF FreeRaws
<1>4. PtrTypes
  BY <1>1, <1>3 DEF PtrTypes
<1>5. CountOK
  <2> SUFFICES ASSUME NEW r \in Raws PROVE cnt[r] = HeldBy(Owned, r) + HeldBy(Coming, r)
    BY DEF CountOK
  <2>1. \A t \in PtrThreads : Owned[t] # r /\ Coming[t] # r
    BY <1>2 DEF Owned, Coming, PtrsOK
  <2>2. HeldBy(Owned, r) = 0 /\ HeldBy(Coming, r) = 0
    BY <2>1, RefsNone
  <2> QED BY <2>2, <1>1
<1>6. AliveOK /\ CallersOK /\ WayOK
  BY <1>1, <1>2 DEF AliveOK, CallersOK, WayOK, Reversing, Allocating, Flying
<1>7. FreeOK /\ SomewhereOK
  BY <1>1, <1>3 DEF FreeOK, SomewhereOK
<1>8. Shared!FreeIsFifo
  <2>1. 0 \in Nat /\ 0 \in 0 .. 0 /\ 0 <= 0 /\ ~(0 > 0)
    OBVIOUS
  <2>2. \A x : x \notin 0 + 1 .. 0
    OBVIOUS
  <2>3. /\ Up(rawNext, freed, 0, 0, rhead) /\ Down(rawNext, freed, 0, 0, adding.node)
        /\ Up(rawNext, freed, 0, 0, adding.head) /\ Down(rawNext, freed, 0, 0, rawHead)
    BY <2>2, <1>1 DEF Up, Down
  <2>4. Fifo(rawNext, freed, 0, 0, 0, 0, rhead, rtail, adding, rawHead)
    BY <2>1, <2>3 DEF Fifo
  <2>5. IsFifo
    BY <2>1, <2>4, <1>3 DEF IsFifo
  <2> QED BY <2>5, <1>4, FifoIs
<1> QED BY <1>4, <1>5, <1>6, <1>7, <1>8 DEF SharedInv

(* A step that is not the pool's.                                           *)
LEMMA SharedStays ==
  ASSUME SharedInv, UNCHANGED ptrVars
  PROVE  SharedInv'
<1>1. UNCHANGED <<allocated, rawNext, rawHead, rhead, rtail, adding, cnt, rawData, ptr, rawObjects, freed, rawAt>>
  BY DEF ptrVars
<1>2. PtrTypes' /\ WayOK' /\ FreeOK' /\ SomewhereOK' /\ Shared!FreeIsFifo'
  <2>1. DOMAIN cnt' = Raws /\ DOMAIN ptr' = PtrThreads /\ DOMAIN rawAt' = PtrThreads
    BY <1>1 DEF SharedInv, PtrTypes
  <2> QED BY <2>1, <1>1, WayStays
<1>3. Owned' = Owned /\ Coming' = Coming
  BY <1>1 DEF Owned, Coming
<1>4. CountOK' /\ AliveOK' /\ CallersOK'
  BY <1>1, <1>3 DEF SharedInv, CountOK, AliveOK, CallersOK
<1> QED BY <1>2, <1>4 DEF SharedInv

(* And those that are.                                                      *)
LEMMA SharedStep ==
  ASSUME PtrsOK, SharedInv, Shared!Next
  PROVE  SharedInv'
<1>1. PICK t \in PtrThreads :
        \/ Shared!Alloc(t) \/ Shared!calc_free_size(t) \/ Shared!Turn(t) \/ Shared!Link(t)
        \/ Shared!AllocFreed(t) \/ Shared!AllocNew(t)
        \/ Shared!Release(t) \/ Shared!Reset(t) \/ Shared!Destroy(t) \/ Shared!PushLoad(t) \/ Shared!PushCas(t)
        \/ \E u \in PtrThreads : Shared!Copy(t, u) \/ Shared!MovePtr(t, u)
  BY DEF Shared!Next
<1>2. CASE Shared!Alloc(t)
  <2>1. /\ t = Pool /\ ptr[t] = Shared!Empty
        /\ Shared!PopAll(t, <<"take", Shared!Null, Shared!Null>>, <<"alloc", Shared!Null, Shared!Null>>)
    BY <1>2 DEF Shared!Alloc
  <2> QED BY <2>1, PopAllKeeps
<1>3. CASE Shared!calc_free_size(t)
  <2>1. t = Pool /\ Shared!PopAll(t, <<"count", Shared!Null, Shared!Null>>, Shared!Idle) /\ Shared!Idle[1] = "idle"
    BY <1>3 DEF Shared!calc_free_size, Shared!Idle
  <2> QED BY <2>1, PopAllKeeps
<1>4. CASE Shared!Turn(t) \/ Shared!Link(t) \/ Shared!AllocFreed(t) \/ Shared!AllocNew(t)
  BY <1>4, TurnKeeps, LinkKeeps, AllocFreedKeeps, AllocNewKeeps
<1>5. CASE \/ Shared!Release(t) \/ Shared!Reset(t) \/ Shared!Destroy(t) \/ Shared!PushLoad(t) \/ Shared!PushCas(t)
  BY <1>5, ReleaseKeeps, SharedResetKeeps, DestroyRawKeeps, SharedPushLoadKeeps, SharedPushCasKeeps
<1>6. CASE \E u \in PtrThreads : Shared!Copy(t, u) \/ Shared!MovePtr(t, u)
  BY <1>6, CopyKeeps, SharedMoveKeeps
<1> QED BY <1>1, <1>2, <1>3, <1>4, <1>5, <1>6

(* The model's words for it.                                                *)
LEMMA SharedSays ==
  ASSUME PtrsOK, SharedInv
  PROVE  Shared!PtrIsAlive /\ Shared!FreeIsFifo /\ Shared!NoneLost
<1>1. Shared!PtrIsAlive
  BY DEF SharedInv, AliveOK, Shared!PtrIsAlive
<1>2. ASSUME NEW r \in Raws, NEW used, NEW flying, NEW isFree,
             used <=> \E t \in PtrThreads : Shared!Refers(t, r),
             flying <=> \E t \in PtrThreads : Shared!Releases(t, r),
             isFree <=> \E i \in 1 .. Len(freed) : freed[i] = r
      PROVE  /\ (r \in allocated <=> isFree \/ flying \/ used)
             /\ ~(isFree /\ flying) /\ ~(isFree /\ used) /\ ~(flying /\ used)
             /\ (isFree => cnt[r] = 0 /\ rawData[r] = 0)
  <2>1. cnt[r] = 0 <=> ~used
    BY <1>2, CountIs DEF SharedInv
  <2>2. isFree <=> r \in FreeRaws
    BY <1>2 DEF FreeRaws
  <2>3. isFree => r \in allocated /\ cnt[r] = 0 /\ rawData[r] = 0
    BY <1>2 DEF SharedInv, FreeOK
  <2>4. flying => r \in allocated /\ cnt[r] = 0 /\ ~isFree
    BY <1>2, <2>2 DEF SharedInv, WayOK, Flying, Shared!Releases
  <2>5. used => r \in allocated
    BY <2>1 DEF SharedInv, SomewhereOK
  <2>6. r \in allocated => isFree \/ flying \/ used
    BY <1>2, <2>1, <2>2 DEF SharedInv, SomewhereOK
  <2> QED BY <2>1, <2>3, <2>4, <2>5, <2>6
<1>3. \A i, j \in 1 .. Len(freed) : freed[i] = freed[j] => i = j
  BY DEF SharedInv, FreeOK
<1>4. Shared!NoneLost
  BY <1>2, <1>3 DEF Shared!NoneLost
<1> QED BY <1>1, <1>4 DEF SharedInv

(* SharedObjectPool over MpscLinkQueue, for every number of threads, Raws   *)
(* and objects: a SharedPtr refers to the object it was made for, the free  *)
(* queue, whatever add has reversed of it, has the Raws in the order of the *)
(* pushes, and every Raw is referred to, on its way there or there.         *)
THEOREM SharedHoldCorrect == MCSpec => []SharedHold
<1> DEFINE I == part = "Shared" => SharedInv
<1>1. MCInit => I
  BY PtrsAssumption, SharedInit DEF MCInit
<1>2. I /\ [MCNext]_mc_vars => I'
  <2> SUFFICES ASSUME I, [MCNext]_mc_vars PROVE I'
    OBVIOUS
  <2>1. CASE UNCHANGED mc_vars
    BY <2>1, SharedStays DEF mc_vars
  <2>2. CASE MCNext
    <3>1. UNCHANGED part
      BY <2>2 DEF MCNext
    <3>2. ASSUME part = "Shared" PROVE SharedInv'
      BY <2>2, <3>2, PtrsAssumption, SharedStep DEF MCNext
    <3> QED BY <3>1, <3>2
  <2> QED BY <2>1, <2>2
<1>3. I => SharedHold
  BY PtrsAssumption, SharedSays DEF SharedHold
<1> QED BY <1>1, <1>2, <1>3, PTL DEF MCSpec
============================================================================
