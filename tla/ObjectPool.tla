---------------------------- MODULE ObjectPool ----------------------------
(***************************************************************************)
(* td/utils/ObjectPool.h.  Storages are never freed while the pool lives,  *)
(* so a weak pointer is a generation and an address: it reads the object   *)
(* first and asks afterwards whether the read was valid.  Storages return  *)
(* to a lock-free stack from any thread and leave it from one thread only  *)
(* ("only one thread, so no aba problem").                                 *)
(*                                                                         *)
(* Every atomic operation on head_ and generation is one step.  A write of *)
(* the data takes two, and a read between them sees Torn.  Generations do  *)
(* not wrap here (int32 in the code).  An owner is moved only into an      *)
(* empty owner: OwnerPtr's move assignment does not reset what it replaces.*)
(***************************************************************************)
EXTENDS Integers

CONSTANTS Threads,      \* threads, each with one OwnerPtr and one WeakPtr
          Creators,     \* those that call create: the code wants one
          Storages,     \* addresses new Storage() returns
          MaxObjects    \* objects created in a behaviour

Null == 0
Cleared == 0            \* data after clear()
Torn == -1              \* data while it is being assigned or cleared

VARIABLES head,         \* head_
          next, gen, data,          \* the fields of each Storage
          made,         \* storages allocated so far (storage_count_ is its size)
          objects,      \* objects created so far: names the next one
          own,          \* own[t]: OwnerPtr::storage_ of the owner t holds
          weak,         \* weak[t]: WeakPtr, with the object it was taken from
          at            \* at[t]: what t is doing: <<step, storage, head seen>>

vars == <<head, next, gen, data, made, objects, own, weak, at>>
Idle == <<"idle", Null, Null>>
NoWeak == [g |-> -1, s |-> Null, obj |-> Cleared]

Init == /\ head = Null /\ made = {} /\ objects = 0
        /\ next = [s \in Storages |-> Null]
        /\ gen = [s \in Storages |-> 1]
        /\ data = [s \in Storages |-> Cleared]
        /\ own = [t \in Threads |-> Null]
        /\ weak = [t \in Threads |-> NoWeak]
        /\ at = [t \in Threads |-> Idle]

Goto(t, step) == at' = [at EXCEPT ![t] = step]

----------------------------------------------------------------------------
\* create, create_empty: get_storage, then init_data

\* get_storage on an empty free list: new Storage()
NewStorage(t) ==
  /\ t \in Creators /\ at[t] = Idle /\ own[t] = Null /\ head = Null
  /\ objects < MaxObjects
  /\ \E s \in Storages \ made: made' = made \cup {s} /\ Goto(t, <<"got", s, Null>>)
  /\ UNCHANGED <<head, next, gen, data, objects, own, weak>>

\* get_storage: the load of head_ before its loop and in it
PopLoad(t) ==
  /\ t \in Creators /\ own[t] = Null /\ head # Null
  /\ (at[t] = Idle /\ objects < MaxObjects) \/ at[t][1] = "reload"
  /\ Goto(t, <<"loaded", head, Null>>)
  /\ UNCHANGED <<head, next, gen, data, made, objects, own, weak>>

PopNext(t) ==
  /\ at[t][1] = "loaded"
  /\ Goto(t, <<"pop", at[t][2], next[at[t][2]]>>)
  /\ UNCHANGED <<head, next, gen, data, made, objects, own, weak>>

PopCas(t) ==
  /\ at[t][1] = "pop"
  /\ IF head = at[t][2] THEN head' = at[t][3] /\ Goto(t, <<"got", at[t][2], Null>>)
                        ELSE UNCHANGED head /\ Goto(t, <<"reload", Null, Null>>)
  /\ UNCHANGED <<next, gen, data, made, objects, own, weak>>

\* create: Storage::init_data begins
InitData(t) ==
  /\ at[t][1] = "got"
  /\ objects' = objects + 1
  /\ data' = [data EXCEPT ![at[t][2]] = Torn]
  /\ Goto(t, <<"init", at[t][2], objects'>>)
  /\ UNCHANGED <<head, next, gen, made, own, weak>>

Created(t) ==
  /\ at[t][1] = "init"
  /\ data' = [data EXCEPT ![at[t][2]] = at[t][3]]
  /\ own' = [own EXCEPT ![t] = at[t][2]]
  /\ Goto(t, Idle)
  /\ UNCHANGED <<head, next, gen, made, objects, weak>>

CreateEmpty(t) ==
  /\ at[t][1] = "got"
  /\ objects' = objects + 1
  /\ own' = [own EXCEPT ![t] = at[t][2]]
  /\ Goto(t, Idle)
  /\ UNCHANGED <<head, next, gen, data, made, weak>>

----------------------------------------------------------------------------
\* OwnerPtr

\* The move constructor and the move assignment.
Move(t, u) ==
  /\ t # u /\ at[t] = Idle /\ at[u] = Idle /\ own[t] # Null /\ own[u] = Null
  /\ own' = [own EXCEPT ![u] = own[t], ![t] = Null]
  /\ UNCHANGED <<head, next, gen, data, made, objects, weak, at>>

GetWeak(t, u) ==
  /\ at[t] = Idle /\ at[u] = Idle /\ own[t] # Null
  /\ weak' = [weak EXCEPT ![u] = [g |-> gen[own[t]], s |-> own[t], obj |-> data[own[t]]]]
  /\ UNCHANGED <<head, next, gen, data, made, objects, own, at>>

\* reset (and the destructor): storage_ is nulled, then ObjectPool::release;
\* Storage::destroy_data publishes the new generation before it clears the data
Reset(t) ==
  /\ at[t] = Idle /\ own[t] # Null
  /\ own' = [own EXCEPT ![t] = Null]
  /\ gen' = [gen EXCEPT ![own[t]] = @ + 1]
  /\ Goto(t, <<"clear", own[t], Null>>)
  /\ UNCHANGED <<head, next, data, made, objects, weak>>

ClearData(t) ==
  /\ at[t][1] \in {"clear", "clearing"}
  /\ IF at[t][1] = "clear"
       THEN data' = [data EXCEPT ![at[t][2]] = Torn] /\ Goto(t, <<"clearing", at[t][2], Null>>)
       ELSE data' = [data EXCEPT ![at[t][2]] = Cleared] /\ Goto(t, <<"release", at[t][2], Null>>)
  /\ UNCHANGED <<head, next, gen, made, objects, own, weak>>

\* release_storage
PushLoad(t) ==
  /\ at[t][1] = "release"
  /\ next' = [next EXCEPT ![at[t][2]] = head]
  /\ Goto(t, <<"push", at[t][2], head>>)
  /\ UNCHANGED <<head, gen, data, made, objects, own, weak>>

\* The mutant stores the head without comparing it.
PushCasBlind(t) ==
  /\ at[t][1] = "push" /\ head' = at[t][2] /\ Goto(t, Idle)
  /\ UNCHANGED <<next, gen, data, made, objects, own, weak>>

PushCas(t) ==
  /\ at[t][1] = "push"
  /\ IF head = at[t][3] THEN head' = at[t][2] /\ Goto(t, Idle)
                        ELSE UNCHANGED head /\ Goto(t, <<"release", at[t][2], Null>>)
  /\ UNCHANGED <<next, gen, data, made, objects, own, weak>>

----------------------------------------------------------------------------
\* WeakPtr: "1. Read an object 2. Check if read was valid via is_alive"

Read(t) ==
  /\ at[t] = Idle /\ weak[t].s # Null
  /\ Goto(t, <<"seen", data[weak[t].s], Null>>)
  /\ UNCHANGED <<head, next, gen, data, made, objects, own, weak>>

is_alive(w) == w.s # Null /\ w.g = gen[w.s]

\* A read that was not valid is dropped, and so is the pointer (clear()).
Check(t) ==
  /\ at[t][1] = "seen"
  /\ IF is_alive(weak[t]) THEN Goto(t, <<"used", at[t][2], Null>>) /\ UNCHANGED weak
                          ELSE Goto(t, Idle) /\ weak' = [weak EXCEPT ![t] = NoWeak]
  /\ UNCHANGED <<head, next, gen, data, made, objects, own>>

Used(t) ==
  /\ at[t][1] = "used" /\ Goto(t, Idle)
  /\ UNCHANGED <<head, next, gen, data, made, objects, own, weak>>

Next == \E t \in Threads:
  \/ NewStorage(t) \/ PopLoad(t) \/ PopNext(t) \/ PopCas(t)
  \/ InitData(t) \/ Created(t) \/ CreateEmpty(t)
  \/ Reset(t) \/ ClearData(t) \/ PushLoad(t) \/ PushCas(t)
  \/ Read(t) \/ Check(t) \/ Used(t)
  \/ \E u \in Threads: Move(t, u) \/ GetWeak(t, u)

Spec == Init /\ [][Next]_vars

----------------------------------------------------------------------------
\* The storages on the free list, from head_: the smallest set that has it and
\* with a storage its next.
From(x) ==
  {s \in Storages : \A F \in SUBSET Storages :
     x \in F \cup {Null} /\ (\A y \in F : next[y] \in F \cup {Null}) => s \in F}
FreeList == From(head)
Held(t) == ({own[t]} \cup IF at[t][1] \in {"got", "init", "clear", "clearing", "release", "push"}
                            THEN {at[t][2]} ELSE {}) \ {Null}

\* A read that is_alive declared valid saw the object the weak pointer was
\* taken from, whole: never its successor in the same storage, never a value
\* being cleared (WeakPtr::is_alive against destroy_data, create).
AliveReadIsOwn == \A t \in Threads: at[t][1] = "used" => at[t][2] = weak[t].obj

\* Every storage is on the free list or with exactly one thread, so none is
\* handed out twice and ~ObjectPool, which frees the list and checks that
\* storage_count_ is zero, loses none.
EachInOnePlace ==
  /\ FreeList \cup UNION {Held(t) : t \in Threads} = made
  /\ \A t \in Threads: Held(t) \cap FreeList = {}
  /\ \A t, u \in Threads: t # u => Held(t) \cap Held(u) = {}
============================================================================
