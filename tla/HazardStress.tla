---------------------------- MODULE HazardStress ----------------------------
(***************************************************************************)
(* HazardPointers under the client its contract is written for, the one of *)
(* test/HazardPointers.cpp: shared atomic pointers, threads that protect   *)
(* and read what they point to, and that replace a node by a new one with  *)
(* compare_exchange and retire the old one.  What retire() receives is     *)
(* already out of every shared pointer.                                    *)
(***************************************************************************)
EXTENDS HazardPointers, TLC, FiniteSetTheorems, TLAPS

CONSTANT Srcs   (* the shared pointers, nodes[i].name_ in the test          *)

ASSUME SrcsAssumption == Srcs # {}

VARIABLES
  src,     (* src[s]: the std::atomic<std::string *>                        *)
  pc,      (* where each thread is                                          *)
  at,      (* the pointer the thread works on in this iteration             *)
  fresh    (* new_str                                                       *)

vars == <<hpVars, protectVars, src, pc, at, fresh>>

Init ==
  /\ HpInit
  /\ heap = {}
  /\ src = [s \in Srcs |-> NoNode]
  /\ pc = [t \in Threads |-> "out"]
  /\ at = [t \in Threads |-> CHOOSE s \in Srcs : TRUE]
  /\ fresh = [t \in Threads |-> NoNode]

Goto(t, l) == pc' = [pc EXCEPT ![t] = l]

(* Holder(hp, thread_id, 0): CHECKs that the slot is free and reserves it.  *)
OpenHolder(t) ==
  /\ pc[t] = "out"
  /\ hazard[t] = NoNode
  /\ StoreHazard(t, Reserved)
  /\ Goto(t, "idle")
  /\ UNCHANGED <<heap, scanVars, src, protectVars, at, fresh>>

(* ~Holder.                                                                 *)
CloseHolder(t) ==
  /\ pc[t] = "idle"
  /\ StoreHazard(t, NoNode)
  /\ Goto(t, "out")
  /\ UNCHANGED <<heap, scanVars, src, protectVars, at, fresh>>

(* A random shared pointer, then do_protect with saved = nullptr.           *)
Begin(t) ==
  /\ pc[t] = "idle"
  /\ \E s \in Srcs : at' = [at EXCEPT ![t] = s]
  /\ ProtectBegin(t)
  /\ Goto(t, "load")
  /\ UNCHANGED <<hpVars, src, loaded, fresh>>

(* The loop condition of do_protect: the pointer changed since the store.   *)
ProtectLoad(t) ==
  /\ pc[t] = "load"
  /\ ProtectChanged(t, src[at[t]])
  /\ Goto(t, "store")
  /\ UNCHANGED <<hpVars, src, at, fresh>>

(* Mutant: do_protect does not load the pointer again after the store.      *)
ProtectStoreOnce(t) ==
  /\ pc[t] = "store"
  /\ ProtectStores(t)
  /\ Goto(t, "use")
  /\ UNCHANGED <<heap, scanVars, src, at, fresh>>

(* The body of the loop of do_protect.                                      *)
ProtectStore(t) ==
  /\ pc[t] = "store"
  /\ ProtectStores(t)
  /\ Goto(t, "load")
  /\ UNCHANGED <<heap, scanVars, src, at, fresh>>

(* The pointer still is what the slot holds: do_protect returns it.         *)
ProtectReturn(t) ==
  /\ pc[t] = "load"
  /\ src[at[t]] = saved[t]
  /\ Goto(t, "use")
  /\ UNCHANGED <<hpVars, src, protectVars, at, fresh>>

(* *str is read, then holder.clear(); this iteration replaces nothing.      *)
UseAndClear(t) ==
  /\ pc[t] = "use"
  /\ StoreHazard(t, NoNode)
  /\ Goto(t, "idle")
  /\ UNCHANGED <<heap, scanVars, src, protectVars, at, fresh>>

(* The same, and new std::string for the replacement.                       *)
UseAndAlloc(t) ==
  /\ pc[t] = "use"
  /\ StoreHazard(t, NoNode)
  /\ \E n \in Nodes \ heap :
       /\ fresh' = [fresh EXCEPT ![t] = n]
       /\ heap' = heap \cup {n}
  /\ Goto(t, "swap")
  /\ UNCHANGED <<scanVars, src, protectVars, at>>

(* Mutant: retire() lacks its test for nullptr.                             *)
SwapOkRetiresNull(t) ==
  /\ pc[t] = "swap"
  /\ src[at[t]] = saved[t]
  /\ src' = [src EXCEPT ![at[t]] = fresh[t]]
  /\ fresh' = [fresh EXCEPT ![t] = NoNode]
  /\ RetireBegin(t, {saved[t]})
  /\ Goto(t, "retire")
  /\ UNCHANGED <<heap, hazard, protectVars, at>>

(* compare_exchange(str, new_str) succeeds: retire(thread_id, str).         *)
SwapOk(t) ==
  /\ pc[t] = "swap"
  /\ src[at[t]] = saved[t]
  /\ src' = [src EXCEPT ![at[t]] = fresh[t]]
  /\ fresh' = [fresh EXCEPT ![t] = NoNode]
  /\ RetireBegin(t, {saved[t]} \ {NoNode})
  /\ Goto(t, "retire")
  /\ UNCHANGED <<heap, hazard, protectVars, at>>

(* Mutant: the new string is not deleted.                                   *)
SwapFailLeaks(t) ==
  /\ pc[t] = "swap"
  /\ src[at[t]] # saved[t]
  /\ fresh' = [fresh EXCEPT ![t] = NoNode]
  /\ Goto(t, "idle")
  /\ UNCHANGED <<heap, hazard, scanVars, src, protectVars, at>>

(* It fails: delete new_str.                                                *)
SwapFail(t) ==
  /\ pc[t] = "swap"
  /\ src[at[t]] # saved[t]
  /\ heap' = heap \ {fresh[t]}
  /\ fresh' = [fresh EXCEPT ![t] = NoNode]
  /\ Goto(t, "idle")
  /\ UNCHANGED <<hazard, scanVars, src, protectVars, at>>

(* The pass of retire() over to_delete_.                                    *)
RetireScan(t) ==
  /\ pc[t] \in {"retire", "gc"}
  /\ ScanStep(t)
  /\ UNCHANGED <<hazard, src, pc, protectVars, at, fresh>>

RetireEnd(t) ==
  /\ pc[t] \in {"retire", "gc"}
  /\ ScanDone(t)
  /\ Goto(t, IF pc[t] = "gc" THEN "out" ELSE "idle")
  /\ UNCHANGED <<hpVars, src, protectVars, at, fresh>>

(* retire(thread_id) without a pointer, by a thread without a Holder.       *)
Gc(t) ==
  /\ pc[t] = "out"
  /\ RetireBegin(t, {})
  /\ Goto(t, "gc")
  /\ UNCHANGED <<heap, hazard, src, protectVars, at, fresh>>

Step(t) ==
  \/ OpenHolder(t) \/ CloseHolder(t) \/ Begin(t)
  \/ ProtectLoad(t) \/ ProtectStore(t) \/ ProtectReturn(t)
  \/ UseAndClear(t) \/ UseAndAlloc(t) \/ SwapOk(t) \/ SwapFail(t)
  \/ RetireScan(t) \/ RetireEnd(t) \/ Gc(t)

Next == \E t \in Threads : Step(t)

Spec == Init /\ [][Next]_vars

----------------------------------------------------------------------------
TypeOK ==
  /\ HpTypeOK
  /\ src \in [Srcs -> Nodes \cup {NoNode}]
  /\ pc \in [Threads -> {"out", "idle", "load", "store", "use", "swap", "retire", "gc"}]
  /\ at \in [Threads -> Srcs]
  /\ fresh \in [Threads -> Nodes \cup {NoNode}]

(* What do_protect returned may be read: the object exists as long as the   *)
(* thread works with it, whoever unlinks and retires it meanwhile.          *)
ProtectedIsLive ==
  \A t \in Threads : pc[t] = "use" /\ saved[t] # NoNode => saved[t] \in heap

Linked == {src[s] : s \in Srcs} \ {NoNode}
Fresh == {fresh[t] : t \in Threads} \ {NoNode}
Retired == UNION {toDelete[t] : t \in Threads}

(* Every object that exists is reachable or waits for its deletion exactly  *)
(* once: no leak, no double delete, no deletion of a reachable object.      *)
OwnedOnce ==
  /\ heap = Linked \cup Fresh \cup Retired
  /\ Linked \cap Retired = {}
  /\ Fresh \cap (Linked \cup Retired) = {}
  /\ \A t, u \in Threads : t # u => toDelete[t] \cap toDelete[u] = {}

(* retire() leaves at most two nodes per other thread behind: the one its   *)
(* slot held when the pass began, and one it had already loaded and stored  *)
(* before its re-read.  The bound the stress tests assume is one per thread. *)
BoundedGarbage ==
  \A t \in Threads :
    pc[t] \notin {"retire", "gc"} => Cardinality(toDelete[t]) <= 2 * (ThreadsN - 1)

(* For TLC: addresses are interchangeable; thread ids are not, because     *)
(* retire() reads the slots in their order.                                *)
Symmetry == Permutations(Nodes)

----------------------------------------------------------------------------
(* The proofs, for every number of threads, of addresses and of shared     *)
(* pointers: what protect() returned is not deleted before the slot is     *)
(* cleared, every object has exactly one owner, and retire() leaves at most *)
(* two nodes per other thread behind.                                       *)

(* A pass of retire() examines members of the thread's own to_delete_, each *)
(* once, and only runs inside retire().                                     *)
PassOK ==
  \A t \in Threads :
    /\ todo[t] \subseteq toDelete[t]
    /\ cand[t] # NoNode => cand[t] \in toDelete[t] \ todo[t]
    /\ pc[t] \notin {"retire", "gc"} => cand[t] = NoNode

(* A reachable object exists, is reachable from one pointer, and is nobody's *)
(* new or retired one.                                                      *)
LinkedOK ==
  \A s \in Srcs : src[s] # NoNode =>
    /\ src[s] \in heap
    /\ \A r \in Srcs : src[r] = src[s] => r = s
    /\ \A t \in Threads : src[s] # fresh[t] /\ src[s] \notin toDelete[t]

(* A new object exists, belongs to one thread and is not retired.           *)
FreshOK ==
  \A t \in Threads :
    /\ fresh[t] # NoNode <=> pc[t] = "swap"
    /\ fresh[t] # NoNode =>
         /\ fresh[t] \in heap
         /\ \A u \in Threads : fresh[u] = fresh[t] => u = t
         /\ \A u \in Threads : fresh[t] \notin toDelete[u]

(* A retired object exists and one thread retired it.                       *)
RetiredOK ==
  \A t \in Threads :
    /\ toDelete[t] \subseteq heap
    /\ \A u \in Threads : t # u => toDelete[t] \cap toDelete[u] = {}

Reachable(n) == \E s \in Srcs : src[s] = n
IsFresh(n) == \E t \in Threads : fresh[t] = n
IsRetired(n) == \E t \in Threads : n \in toDelete[t]

(* Every object is in somebody's hands.                                     *)
NoLeak == \A n \in heap : Reachable(n) \/ IsFresh(n) \/ IsRetired(n)

(* The slot shows what do_protect last stored.                              *)
HeldOK ==
  \A t \in Threads :
    saved[t] # NoNode /\ pc[t] \in {"load", "store", "use"} => hazard[t] = saved[t]

(* What do_protect returned is reachable or retired, not deleted.           *)
LiveOK ==
  \A t \in Threads :
    pc[t] = "use" /\ saved[t] # NoNode => Reachable(saved[t]) \/ IsRetired(saved[t])

(* No pass that examines what do_protect returned has gone past the slot.   *)
AheadOK ==
  \A t, u \in Threads :
    pc[t] = "use" /\ saved[t] # NoNode /\ cand[u] = saved[t] => idx[u] <= t

IInv ==
  PassOK /\ LinkedOK /\ FreshOK /\ RetiredOK /\ NoLeak /\ HeldOK /\ LiveOK /\ AheadOK

----------------------------------------------------------------------------
(* The argument for BoundedGarbage.  What a pass has still to examine can   *)
(* only be kept for a slot that shows it, and only what another thread had  *)
(* loaded before it was unlinked can still come into a slot: each thread    *)
(* has at most two such claims, and a claim is gone when it has kept a node. *)
Unexamined(u) == todo[u] \cup ({cand[u]} \ {NoNode})
Kept(u) == toDelete[u] \ Unexamined(u)
Slots(u) == (Threads \ {u}) \X {"hazard", "loaded"}
Claim(u, c) ==
  \/ c[2] = "hazard" /\ hazard[c[1]] \in Unexamined(u)
  \/ c[2] = "loaded" /\ pc[c[1]] = "store" /\ loaded[c[1]] \in Unexamined(u)
Claims(u) == {c \in Slots(u) : Claim(u, c)}

(* A thread that works with no protected node shows none.                   *)
ClearOK ==
  \A t \in Threads : pc[t] \in {"swap", "retire", "gc", "out"} => hazard[t] = NoNode

(* What a pass has kept and what it may still have to keep.                 *)
KeptOK ==
  \A u \in Threads :
    pc[u] \in {"retire", "gc"} => Cardinality(Kept(u)) + Cardinality(Claims(u)) <= 2 * (ThreadsN - 1)

GarbageInv == ClearOK /\ KeptOK /\ BoundedGarbage

----------------------------------------------------------------------------
USE DEF Threads

(* Each step leaves every variable in its range: the slots hold an address, *)
(* nullptr or the mark of a fresh Holder, the pass stays inside to_delete_. *)
LEMMA TypeStep == TypeOK /\ [Next]_vars => TypeOK'
<1> SUFFICES ASSUME TypeOK, [Next]_vars PROVE TypeOK'
  OBVIOUS
<1> USE ThreadsNAssumption, NodesAssumption DEF TypeOK, HpTypeOK, Goto, StoreHazard, RetireBegin,
                                                ProtectBegin, ProtectChanged, ProtectStores, protectVars
<1>1. CASE UNCHANGED vars
  BY <1>1 DEF vars, hpVars, scanVars
<1>2. ASSUME NEW t \in Threads, Step(t) PROVE TypeOK'
  <2>1. CASE OpenHolder(t)
    BY <1>2, <2>1 DEF OpenHolder, vars, hpVars, scanVars
  <2>2. CASE CloseHolder(t)
    BY <1>2, <2>2 DEF CloseHolder, vars, hpVars, scanVars
  <2>3. CASE Begin(t)
    BY <1>2, <2>3 DEF Begin, vars, hpVars, scanVars
  <2>4. CASE ProtectLoad(t)
    BY <1>2, <2>4 DEF ProtectLoad, vars, hpVars, scanVars
  <2>5. CASE ProtectStore(t)
    BY <1>2, <2>5 DEF ProtectStore, vars, hpVars, scanVars
  <2>6. CASE ProtectReturn(t)
    BY <1>2, <2>6 DEF ProtectReturn, vars, hpVars, scanVars
  <2>7. CASE UseAndClear(t)
    BY <1>2, <2>7 DEF UseAndClear, vars, hpVars, scanVars
  <2>8. CASE UseAndAlloc(t)
    BY <1>2, <2>8 DEF UseAndAlloc, vars, hpVars, scanVars
  <2>9. CASE SwapOk(t)
    BY <1>2, <2>9 DEF SwapOk, vars, hpVars, scanVars
  <2>10. CASE SwapFail(t)
    BY <1>2, <2>10 DEF SwapFail, vars, hpVars, scanVars
  <2>11. CASE RetireScan(t)
    <3>1. CASE ScanPick(t)
      BY <2>11, <3>1 DEF RetireScan, ScanPick
    <3>2. CASE ScanProtected(t)
      BY <2>11, <3>2 DEF RetireScan, ScanProtected
    <3>3. CASE ScanPass(t)
      BY <2>11, <3>3, SMTT(30) DEF RetireScan, ScanPass
    <3>4. CASE ScanFree(t)
      BY <2>11, <3>4 DEF RetireScan, ScanFree
    <3> QED
      BY <2>11, <3>1, <3>2, <3>3, <3>4 DEF RetireScan, ScanStep
  <2>12. CASE RetireEnd(t)
    BY <1>2, <2>12 DEF RetireEnd, vars, hpVars, scanVars
  <2>13. CASE Gc(t)
    BY <1>2, <2>13 DEF Gc, vars, hpVars, scanVars
  <2> QED
    BY <1>2, <2>1, <2>2, <2>3, <2>4, <2>5, <2>6, <2>7, <2>8, <2>9, <2>10, <2>11, <2>12, <2>13 DEF Step
<1> QED
  BY <1>1, <1>2 DEF Next

(* Type correctness of the hazard pointers under their client.              *)
THEOREM TypeCorrect == Spec => []TypeOK
<1>1. Init => TypeOK
  BY ThreadsNAssumption, NodesAssumption, SrcsAssumption DEF Init, HpInit, TypeOK, HpTypeOK
<1> QED
  BY <1>1, TypeStep, PTL DEF Spec

(* Each step keeps the inductive invariant: one step per action, and under  *)
(* it one per conjunct that the action can disturb.                         *)
LEMMA InvStep == TypeOK /\ IInv /\ [Next]_vars => IInv'
<1> SUFFICES ASSUME TypeOK, IInv, [Next]_vars PROVE IInv'
  OBVIOUS
<1> USE ThreadsNAssumption, NodesAssumption
        DEF TypeOK, HpTypeOK, IInv, Goto, StoreHazard, RetireBegin, ProtectBegin, ProtectChanged,
            ProtectStores, hpVars, scanVars, protectVars
<1>1. ASSUME UNCHANGED vars PROVE IInv'
  <2>1. (PassOK /\ LinkedOK /\ FreshOK /\ RetiredOK)'
    BY <1>1 DEF vars, PassOK, LinkedOK, FreshOK, RetiredOK
  <2>2. (NoLeak /\ HeldOK /\ LiveOK /\ AheadOK)'
    BY <1>1 DEF vars, NoLeak, HeldOK, LiveOK, AheadOK, Reachable, IsFresh, IsRetired
  <2> QED
    BY <2>1, <2>2
<1>2. ASSUME NEW t \in Threads, Step(t) PROVE IInv'
  <2>1. CASE OpenHolder(t)
    <3>1. (LinkedOK /\ RetiredOK /\ NoLeak)'
      BY <2>1 DEF OpenHolder, LinkedOK, RetiredOK, NoLeak, Reachable, IsFresh, IsRetired
    <3>2. PassOK'
      <4>1. UNCHANGED <<todo, toDelete, cand>>
        BY <2>1 DEF OpenHolder
      <4>2. \A u \in Threads : pc[u] \notin {"retire", "gc"} <=> pc'[u] \notin {"retire", "gc"}
        BY <2>1 DEF OpenHolder
      <4>3. PassOK
        OBVIOUS
      <4> QED
        BY <4>1, <4>2, <4>3, Zenon DEF PassOK
    <3>3. FreshOK'
      BY <2>1 DEF OpenHolder, FreshOK, LinkedOK, RetiredOK
    <3>4. HeldOK'
      BY <2>1 DEF OpenHolder, HeldOK
    <3>5. LiveOK'
      BY <2>1 DEF OpenHolder, LiveOK, Reachable, IsRetired
    <3>6. AheadOK'
      BY <2>1 DEF OpenHolder, AheadOK, PassOK, HeldOK, LinkedOK
    <3> QED
      BY <3>1, <3>2, <3>3, <3>4, <3>5, <3>6
  <2>2. CASE CloseHolder(t)
    <3>1. (LinkedOK /\ RetiredOK /\ NoLeak)'
      BY <2>2 DEF CloseHolder, LinkedOK, RetiredOK, NoLeak, Reachable, IsFresh, IsRetired
    <3>2. PassOK'
      BY <2>2 DEF CloseHolder, PassOK
    <3>3. FreshOK'
      BY <2>2 DEF CloseHolder, FreshOK, LinkedOK, RetiredOK
    <3>4. HeldOK'
      BY <2>2 DEF CloseHolder, HeldOK
    <3>5. LiveOK'
      BY <2>2 DEF CloseHolder, LiveOK, Reachable, IsRetired
    <3>6. AheadOK'
      BY <2>2 DEF CloseHolder, AheadOK, PassOK, HeldOK, LinkedOK
    <3> QED
      BY <3>1, <3>2, <3>3, <3>4, <3>5, <3>6
  <2>3. CASE Begin(t)
    <3>1. (LinkedOK /\ RetiredOK /\ NoLeak)'
      BY <2>3 DEF Begin, LinkedOK, RetiredOK, NoLeak, Reachable, IsFresh, IsRetired
    <3>2. PassOK'
      BY <2>3 DEF Begin, PassOK
    <3>3. FreshOK'
      BY <2>3 DEF Begin, FreshOK, LinkedOK, RetiredOK
    <3>4. HeldOK'
      BY <2>3 DEF Begin, HeldOK
    <3>5. LiveOK'
      BY <2>3 DEF Begin, LiveOK, Reachable, IsRetired
    <3>6. AheadOK'
      BY <2>3 DEF Begin, AheadOK, PassOK, HeldOK, LinkedOK
    <3> QED
      BY <3>1, <3>2, <3>3, <3>4, <3>5, <3>6
  <2>4. CASE ProtectLoad(t)
    <3>1. (LinkedOK /\ RetiredOK /\ NoLeak)'
      <4>1. UNCHANGED <<src, heap, fresh, toDelete>>
        BY <2>4 DEF ProtectLoad
      <4>2. LinkedOK /\ RetiredOK /\ NoLeak
        OBVIOUS
      <4> QED
        BY <4>1, <4>2, Zenon DEF LinkedOK, RetiredOK, NoLeak, Reachable, IsFresh, IsRetired
    <3>2. PassOK'
      <4>1. UNCHANGED <<todo, toDelete, cand>>
        BY <2>4 DEF ProtectLoad
      <4>2. \A u \in Threads : pc[u] \notin {"retire", "gc"} <=> pc'[u] \notin {"retire", "gc"}
        BY <2>4 DEF ProtectLoad
      <4>3. PassOK
        OBVIOUS
      <4> QED
        BY <4>1, <4>2, <4>3, Zenon DEF PassOK
    <3>3. FreshOK'
      BY <2>4 DEF ProtectLoad, FreshOK, LinkedOK, RetiredOK
    <3>4. HeldOK'
      BY <2>4 DEF ProtectLoad, HeldOK
    <3>5. LiveOK'
      BY <2>4 DEF ProtectLoad, LiveOK, Reachable, IsRetired
    <3>6. AheadOK'
      BY <2>4 DEF ProtectLoad, AheadOK, PassOK, HeldOK, LinkedOK
    <3> QED
      BY <3>1, <3>2, <3>3, <3>4, <3>5, <3>6
  <2>5. CASE ProtectStore(t)
    <3>1. (LinkedOK /\ RetiredOK /\ NoLeak)'
      BY <2>5 DEF ProtectStore, LinkedOK, RetiredOK, NoLeak, Reachable, IsFresh, IsRetired
    <3>2. PassOK'
      BY <2>5 DEF ProtectStore, PassOK
    <3>3. FreshOK'
      BY <2>5 DEF ProtectStore, FreshOK, LinkedOK, RetiredOK
    <3>4. HeldOK'
      BY <2>5 DEF ProtectStore, HeldOK
    <3>5. LiveOK'
      BY <2>5 DEF ProtectStore, LiveOK, Reachable, IsRetired
    <3>6. AheadOK'
      BY <2>5 DEF ProtectStore, AheadOK, PassOK, HeldOK, LinkedOK
    <3> QED
      BY <3>1, <3>2, <3>3, <3>4, <3>5, <3>6
  <2>6. CASE ProtectReturn(t)
    <3>1. (LinkedOK /\ RetiredOK /\ NoLeak)'
      BY <2>6 DEF ProtectReturn, LinkedOK, RetiredOK, NoLeak, Reachable, IsFresh, IsRetired
    <3>2. PassOK'
      BY <2>6 DEF ProtectReturn, PassOK
    <3>3. FreshOK'
      BY <2>6 DEF ProtectReturn, FreshOK, LinkedOK, RetiredOK
    <3>4. HeldOK'
      BY <2>6 DEF ProtectReturn, HeldOK
    <3>5. LiveOK'
      BY <2>6 DEF ProtectReturn, LiveOK, Reachable, IsRetired
    <3>6. AheadOK'
      BY <2>6 DEF ProtectReturn, AheadOK, PassOK, HeldOK, LinkedOK
    <3> QED
      BY <3>1, <3>2, <3>3, <3>4, <3>5, <3>6
  <2>7. CASE UseAndClear(t)
    <3>1. (LinkedOK /\ RetiredOK /\ NoLeak)'
      BY <2>7 DEF UseAndClear, LinkedOK, RetiredOK, NoLeak, Reachable, IsFresh, IsRetired
    <3>2. PassOK'
      BY <2>7 DEF UseAndClear, PassOK
    <3>3. FreshOK'
      BY <2>7 DEF UseAndClear, FreshOK, LinkedOK, RetiredOK
    <3>4. HeldOK'
      BY <2>7 DEF UseAndClear, HeldOK
    <3>5. LiveOK'
      BY <2>7 DEF UseAndClear, LiveOK, Reachable, IsRetired
    <3>6. AheadOK'
      BY <2>7 DEF UseAndClear, AheadOK, PassOK, HeldOK, LinkedOK
    <3> QED
      BY <3>1, <3>2, <3>3, <3>4, <3>5, <3>6
  <2>8. CASE UseAndAlloc(t)
    <3>1. PassOK'
      BY <2>8 DEF UseAndAlloc, PassOK
    <3>2. LinkedOK'
      BY <2>8 DEF UseAndAlloc, LinkedOK, PassOK, RetiredOK
    <3>3. FreshOK'
      BY <2>8 DEF UseAndAlloc, FreshOK, LinkedOK, RetiredOK
    <3>4. RetiredOK'
      BY <2>8 DEF UseAndAlloc, RetiredOK, PassOK, LinkedOK, FreshOK
    <3>5. NoLeak'
      <4>1. PICK n \in Nodes \ heap : /\ fresh' = [fresh EXCEPT ![t] = n]
                                     /\ heap' = heap \cup {n}
        BY <2>8 DEF UseAndAlloc
      <4>2. fresh[t] = NoNode
        BY <2>8 DEF UseAndAlloc, FreshOK
      <4>3. ASSUME NEW m \in heap PROVE (Reachable(m) \/ IsFresh(m) \/ IsRetired(m))'
        <5>1. Reachable(m) => Reachable(m)'
          BY <2>8 DEF UseAndAlloc, Reachable
        <5>2. IsFresh(m) => IsFresh(m)'
          BY <4>1, <4>2 DEF IsFresh
        <5>3. IsRetired(m) => IsRetired(m)'
          BY <2>8 DEF UseAndAlloc, IsRetired
        <5> QED
          BY <5>1, <5>2, <5>3 DEF NoLeak
      <4>4. IsFresh(n)'
        BY <4>1 DEF IsFresh
      <4> QED
        BY <4>1, <4>3, <4>4 DEF NoLeak
    <3>6. HeldOK'
      BY <2>8 DEF UseAndAlloc, HeldOK
    <3>7. LiveOK'
      BY <2>8 DEF UseAndAlloc, LiveOK, Reachable, IsRetired
    <3>8. AheadOK'
      BY <2>8 DEF UseAndAlloc, AheadOK, PassOK, HeldOK, LinkedOK
    <3> QED
      BY <3>1, <3>2, <3>3, <3>4, <3>5, <3>6, <3>7, <3>8
  <2>9. CASE SwapOk(t)
    <3>1. PassOK'
      BY <2>9 DEF SwapOk, PassOK
    <3>2. LinkedOK'
      <4>1. fresh[t] # NoNode /\ src[at[t]] = saved[t]
        BY <2>9 DEF SwapOk, FreshOK
      <4>2. ASSUME NEW s \in Srcs, src'[s] # NoNode, s = at[t]
            PROVE  /\ src'[s] \in heap'
                   /\ \A r \in Srcs : src'[r] = src'[s] => r = s
                   /\ \A u \in Threads : src'[s] # fresh'[u] /\ src'[s] \notin toDelete'[u]
        BY <2>9, <4>1, <4>2 DEF SwapOk, LinkedOK, FreshOK
      <4>3. ASSUME NEW s \in Srcs, src'[s] # NoNode, s # at[t]
            PROVE  /\ src'[s] \in heap'
                   /\ \A r \in Srcs : src'[r] = src'[s] => r = s
                   /\ \A u \in Threads : src'[s] # fresh'[u] /\ src'[s] \notin toDelete'[u]
        BY <2>9, <4>1, <4>3 DEF SwapOk, LinkedOK, FreshOK
      <4> QED
        BY <4>2, <4>3 DEF LinkedOK
    <3>3. FreshOK'
      BY <2>9 DEF SwapOk, FreshOK, LinkedOK, RetiredOK
    <3>4. RetiredOK'
      BY <2>9 DEF SwapOk, RetiredOK, PassOK, LinkedOK, FreshOK
    <3>5. NoLeak'
      <4> SUFFICES ASSUME NEW m \in heap PROVE (Reachable(m) \/ IsFresh(m) \/ IsRetired(m))'
        BY <2>9 DEF SwapOk, NoLeak
      <4>1. Reachable(m) => (Reachable(m) \/ IsRetired(m))'
        BY <2>9 DEF SwapOk, Reachable, IsRetired
      <4>2. IsFresh(m) => (IsFresh(m) \/ Reachable(m))'
        BY <2>9 DEF SwapOk, IsFresh, Reachable
      <4>3. IsRetired(m) => IsRetired(m)'
        BY <2>9 DEF SwapOk, IsRetired
      <4> QED
        BY <4>1, <4>2, <4>3 DEF NoLeak
    <3>6. HeldOK'
      BY <2>9 DEF SwapOk, HeldOK
    <3>7. LiveOK'
      <4> SUFFICES ASSUME NEW u \in Threads, pc'[u] = "use", saved'[u] # NoNode
                   PROVE  (Reachable(saved[u]) \/ IsRetired(saved[u]))'
        BY <2>9 DEF SwapOk, LiveOK
      <4>1. Reachable(saved[u]) => (Reachable(saved[u]) \/ IsRetired(saved[u]))'
        BY <2>9 DEF SwapOk, Reachable, IsRetired
      <4>2. IsRetired(saved[u]) => IsRetired(saved[u])'
        BY <2>9 DEF SwapOk, IsRetired
      <4> QED
        BY <2>9, <4>1, <4>2 DEF SwapOk, LiveOK
    <3>8. AheadOK'
      BY <2>9 DEF SwapOk, AheadOK, PassOK, HeldOK, LinkedOK
    <3> QED
      BY <3>1, <3>2, <3>3, <3>4, <3>5, <3>6, <3>7, <3>8
  <2>10. CASE SwapFail(t)
    <3>1. PassOK'
      <4>1. UNCHANGED <<todo, toDelete, cand>>
        BY <2>10 DEF SwapFail
      <4>2. \A u \in Threads : pc[u] \notin {"retire", "gc"} <=> pc'[u] \notin {"retire", "gc"}
        BY <2>10 DEF SwapFail
      <4>3. PassOK
        OBVIOUS
      <4> QED
        BY <4>1, <4>2, <4>3, Zenon DEF PassOK
    <3>2. LinkedOK'
      BY <2>10 DEF SwapFail, LinkedOK, PassOK, RetiredOK
    <3>3. FreshOK'
      BY <2>10 DEF SwapFail, FreshOK, LinkedOK, RetiredOK
    <3>4. RetiredOK'
      BY <2>10 DEF SwapFail, RetiredOK, PassOK, LinkedOK, FreshOK
    <3>5. NoLeak'
      <4> SUFFICES ASSUME NEW m \in heap, m # fresh[t]
                   PROVE  (Reachable(m) \/ IsFresh(m) \/ IsRetired(m))'
        BY <2>10 DEF SwapFail, NoLeak
      <4>1. Reachable(m) => Reachable(m)'
        BY <2>10 DEF SwapFail, Reachable
      <4>2. IsFresh(m) => IsFresh(m)'
        BY <2>10 DEF SwapFail, IsFresh
      <4>3. IsRetired(m) => IsRetired(m)'
        BY <2>10 DEF SwapFail, IsRetired
      <4> QED
        BY <4>1, <4>2, <4>3 DEF NoLeak
    <3>6. HeldOK'
      BY <2>10 DEF SwapFail, HeldOK
    <3>7. LiveOK'
      BY <2>10 DEF SwapFail, LiveOK, Reachable, IsRetired
    <3>8. AheadOK'
      BY <2>10 DEF SwapFail, AheadOK, PassOK, HeldOK, LinkedOK
    <3> QED
      BY <3>1, <3>2, <3>3, <3>4, <3>5, <3>6, <3>7, <3>8
  <2>11. CASE RetireScan(t)
    <3>1. CASE ScanPick(t)
      <4>1. (LinkedOK /\ FreshOK /\ RetiredOK /\ HeldOK)'
        BY <2>11, <3>1 DEF RetireScan, ScanPick, LinkedOK, FreshOK, RetiredOK, HeldOK
      <4>2. (NoLeak /\ LiveOK)'
        BY <2>11, <3>1 DEF RetireScan, ScanPick, NoLeak, LiveOK, Reachable, IsFresh, IsRetired
      <4>3. PassOK'
        BY <2>11, <3>1 DEF RetireScan, ScanPick, PassOK
      <4>4. AheadOK'
        BY <2>11, <3>1 DEF RetireScan, ScanPick, AheadOK, PassOK, HeldOK, LinkedOK
      <4> QED
        BY <4>1, <4>2, <4>3, <4>4
    <3>2. CASE ScanProtected(t)
      <4>1. (LinkedOK /\ FreshOK /\ RetiredOK /\ HeldOK)'
        BY <2>11, <3>2 DEF RetireScan, ScanProtected, LinkedOK, FreshOK, RetiredOK, HeldOK
      <4>2. (NoLeak /\ LiveOK)'
        BY <2>11, <3>2 DEF RetireScan, ScanProtected, NoLeak, LiveOK, Reachable, IsFresh, IsRetired
      <4>3. PassOK'
        BY <2>11, <3>2 DEF RetireScan, ScanProtected, PassOK
      <4>4. AheadOK'
        BY <2>11, <3>2 DEF RetireScan, ScanProtected, AheadOK, PassOK, HeldOK, LinkedOK
      <4> QED
        BY <4>1, <4>2, <4>3, <4>4
    <3>3. CASE ScanPass(t)
      <4>1. (LinkedOK /\ FreshOK /\ RetiredOK /\ HeldOK)'
        BY <2>11, <3>3 DEF RetireScan, ScanPass, LinkedOK, FreshOK, RetiredOK, HeldOK
      <4>2. (NoLeak /\ LiveOK)'
        BY <2>11, <3>3 DEF RetireScan, ScanPass, NoLeak, LiveOK, Reachable, IsFresh, IsRetired
      <4>3. PassOK'
        BY <2>11, <3>3 DEF RetireScan, ScanPass, PassOK
      <4>4. AheadOK'
        BY <2>11, <3>3 DEF RetireScan, ScanPass, AheadOK, PassOK, HeldOK, LinkedOK
      <4> QED
        BY <4>1, <4>2, <4>3, <4>4
    <3>4. CASE ScanFree(t)
      <4>1. PassOK'
        BY <2>11, <3>4 DEF RetireScan, ScanFree, PassOK
      <4>2. LinkedOK'
        BY <2>11, <3>4 DEF RetireScan, ScanFree, LinkedOK, PassOK, RetiredOK
      <4>3. FreshOK'
        <5>1. cand[t] \in toDelete[t]
          BY <3>4 DEF ScanFree, PassOK
        <5>2. \A u \in Threads : fresh[u] # cand[t]
          BY <3>4, <5>1 DEF ScanFree, FreshOK
        <5> QED
          BY <2>11, <3>4, <5>2 DEF RetireScan, ScanFree, FreshOK
      <4>4. RetiredOK'
        BY <2>11, <3>4 DEF RetireScan, ScanFree, RetiredOK, PassOK, LinkedOK, FreshOK
      <4>5. NoLeak'
        <5> SUFFICES ASSUME NEW m \in heap, m # cand[t]
                     PROVE  (Reachable(m) \/ IsFresh(m) \/ IsRetired(m))'
          BY <3>4 DEF ScanFree, NoLeak
        <5>1. Reachable(m) => Reachable(m)'
          BY <2>11 DEF RetireScan, Reachable
        <5>2. IsFresh(m) => IsFresh(m)'
          BY <2>11 DEF RetireScan, IsFresh
        <5>3. IsRetired(m) => IsRetired(m)'
          BY <3>4 DEF ScanFree, IsRetired
        <5> QED
          BY <5>1, <5>2, <5>3 DEF NoLeak
      <4>6. HeldOK'
        BY <2>11, <3>4 DEF RetireScan, ScanFree, HeldOK
      <4>7. LiveOK'
        <5> SUFFICES ASSUME NEW u \in Threads, pc[u] = "use", saved[u] # NoNode
                     PROVE  (Reachable(saved[u]) \/ IsRetired(saved[u]))'
          BY <2>11 DEF RetireScan, LiveOK
        <5>1. saved[u] # cand[t]
          BY <3>4 DEF ScanFree, AheadOK
        <5>2. Reachable(saved[u]) => Reachable(saved[u])'
          BY <2>11 DEF RetireScan, Reachable
        <5>3. IsRetired(saved[u]) => IsRetired(saved[u])'
          BY <2>11, <3>4, <5>1 DEF RetireScan, ScanFree, IsRetired
        <5> QED
          BY <5>2, <5>3 DEF LiveOK
      <4>8. AheadOK'
        BY <2>11, <3>4 DEF RetireScan, ScanFree, AheadOK, PassOK, HeldOK, LinkedOK
      <4> QED
        BY <4>1, <4>2, <4>3, <4>4, <4>5, <4>6, <4>7, <4>8
    <3> QED
      BY <2>11, <3>1, <3>2, <3>3, <3>4 DEF RetireScan, ScanStep
  <2>12. CASE RetireEnd(t)
    <3>1. (LinkedOK /\ RetiredOK /\ NoLeak)'
      BY <2>12 DEF RetireEnd, ScanDone, LinkedOK, RetiredOK, NoLeak, Reachable, IsFresh, IsRetired
    <3>2. PassOK'
      BY <2>12 DEF RetireEnd, ScanDone, PassOK
    <3>3. FreshOK'
      BY <2>12 DEF RetireEnd, ScanDone, FreshOK, LinkedOK, RetiredOK
    <3>4. HeldOK'
      BY <2>12 DEF RetireEnd, ScanDone, HeldOK
    <3>5. LiveOK'
      BY <2>12 DEF RetireEnd, ScanDone, LiveOK, Reachable, IsRetired
    <3>6. AheadOK'
      BY <2>12 DEF RetireEnd, ScanDone, AheadOK, PassOK, HeldOK, LinkedOK
    <3> QED
      BY <3>1, <3>2, <3>3, <3>4, <3>5, <3>6
  <2>13. CASE Gc(t)
    <3>1. PassOK'
      BY <2>13 DEF Gc, PassOK
    <3>2. LinkedOK'
      BY <2>13 DEF Gc, LinkedOK, PassOK, RetiredOK
    <3>3. FreshOK'
      BY <2>13 DEF Gc, FreshOK, LinkedOK, RetiredOK
    <3>4. RetiredOK'
      BY <2>13 DEF Gc, RetiredOK, PassOK, LinkedOK, FreshOK
    <3>5. NoLeak'
      <4>1. toDelete' = toDelete
        BY <2>13 DEF Gc
      <4> QED
        BY <2>13, <4>1 DEF Gc, NoLeak, Reachable, IsFresh, IsRetired
    <3>6. HeldOK'
      BY <2>13 DEF Gc, HeldOK
    <3>7. LiveOK'
      BY <2>13 DEF Gc, LiveOK, Reachable, IsRetired
    <3>8. AheadOK'
      BY <2>13 DEF Gc, AheadOK, PassOK, HeldOK, LinkedOK
    <3> QED
      BY <3>1, <3>2, <3>3, <3>4, <3>5, <3>6, <3>7, <3>8
  <2> QED
    BY <1>2, <2>1, <2>2, <2>3, <2>4, <2>5, <2>6, <2>7, <2>8, <2>9, <2>10, <2>11, <2>12, <2>13 DEF Step
<1> QED
  BY <1>1, <1>2 DEF Next

(* The inductive invariant holds in every reachable state.                  *)
LEMMA InvCorrect == Spec => [](TypeOK /\ IInv)
<1>1. Init => TypeOK /\ IInv
  <2> SUFFICES ASSUME Init PROVE TypeOK /\ IInv
    OBVIOUS
  <2>1. TypeOK
    BY ThreadsNAssumption, NodesAssumption, SrcsAssumption DEF Init, HpInit, TypeOK, HpTypeOK
  <2>2. PassOK /\ LinkedOK /\ FreshOK /\ RetiredOK /\ NoLeak /\ HeldOK /\ LiveOK /\ AheadOK
    BY DEF Init, HpInit, PassOK, LinkedOK, FreshOK, RetiredOK, NoLeak, HeldOK, LiveOK, AheadOK
  <2> QED
    BY <2>1, <2>2 DEF IInv
<1> QED
  BY <1>1, TypeStep, InvStep, PTL DEF Spec

(* What do_protect returned exists for as long as the thread works with it, *)
(* whoever unlinks and retires it meanwhile.                                *)
THEOREM ProtectedIsLiveCorrect == Spec => []ProtectedIsLive
<1>1. TypeOK /\ IInv => ProtectedIsLive
  BY DEF TypeOK, HpTypeOK, IInv, LinkedOK, RetiredOK, LiveOK, Reachable, IsRetired, ProtectedIsLive
<1> QED
  BY <1>1, InvCorrect, PTL

(* No leak, no second delete and no deletion of a reachable object.         *)
THEOREM OwnedOnceCorrect == Spec => []OwnedOnce
<1>1. TypeOK /\ IInv => OwnedOnce
  <2> SUFFICES ASSUME TypeOK, IInv PROVE OwnedOnce
    OBVIOUS
  <2> USE NodesAssumption DEF TypeOK, HpTypeOK, IInv, Linked, Fresh, Retired
  <2>1. heap \subseteq Linked \cup Fresh \cup Retired
    BY DEF NoLeak, Reachable, IsFresh, IsRetired
  <2>2. Linked \subseteq heap /\ Fresh \subseteq heap /\ Retired \subseteq heap
    BY DEF LinkedOK, FreshOK, RetiredOK
  <2>3. Linked \cap Retired = {} /\ Linked \cap Fresh = {}
    BY DEF LinkedOK
  <2>4. Fresh \cap Retired = {}
    BY DEF FreshOK
  <2>5. \A t, u \in Threads : t # u => toDelete[t] \cap toDelete[u] = {}
    BY DEF RetiredOK
  <2> QED
    BY <2>1, <2>2, <2>3, <2>4, <2>5 DEF OwnedOnce
<1> QED
  BY <1>1, InvCorrect, PTL

(* Each other thread has two claims at most: its slot and what it loaded.   *)
LEMMA SlotsBound ==
  ASSUME NEW u \in Threads
  PROVE  IsFiniteSet(Slots(u)) /\ Cardinality(Slots(u)) = 2 * (ThreadsN - 1)
<1> DEFINE Others == Threads \ {u}
<1>1. IsFiniteSet(Threads) /\ Cardinality(Threads) = ThreadsN
  BY ThreadsNAssumption, FS_Interval
<1>2. IsFiniteSet(Others) /\ Cardinality(Others) = ThreadsN - 1
  BY <1>1, FS_RemoveElement
<1>3. IsFiniteSet({"hazard", "loaded"}) /\ Cardinality({"hazard", "loaded"}) = 2
  <2>1. IsFiniteSet({"hazard"}) /\ Cardinality({"hazard"}) = 1
    BY FS_Singleton
  <2>2. {"hazard"} \cup {"loaded"} = {"hazard", "loaded"} /\ "loaded" \notin {"hazard"}
    OBVIOUS
  <2>3. /\ IsFiniteSet({"hazard"} \cup {"loaded"})
        /\ Cardinality({"hazard"} \cup {"loaded"}) = Cardinality({"hazard"}) + 1
    BY <2>1, <2>2, FS_AddElement
  <2> QED
    BY <2>1, <2>2, <2>3
<1>4. /\ IsFiniteSet(Others \X {"hazard", "loaded"})
      /\ Cardinality(Others \X {"hazard", "loaded"}) = Cardinality(Others) * Cardinality({"hazard", "loaded"})
  BY <1>2, <1>3, FS_Product
<1>5. (ThreadsN - 1) * 2 = 2 * (ThreadsN - 1)
  BY ThreadsNAssumption
<1> QED
  BY <1>2, <1>3, <1>4, <1>5 DEF Slots

(* What is a part of a finite set is finite and no larger.                  *)
LEMMA PartOf ==
  ASSUME NEW S, IsFiniteSet(S), NEW T \in SUBSET S
  PROVE  /\ IsFiniteSet(T)
         /\ Cardinality(S) \in Nat
         /\ Cardinality(T) \in Nat
         /\ Cardinality(T) <= Cardinality(S)
BY FS_Subset, FS_CardinalityType

(* What a pass keeps and the claims on what it has not examined are finite. *)
LEMMA KeptFinite ==
  ASSUME TypeOK, NEW u \in Threads
  PROVE  /\ IsFiniteSet(Kept(u)) /\ Cardinality(Kept(u)) \in Nat
         /\ IsFiniteSet(Claims(u)) /\ Cardinality(Claims(u)) \in Nat
<1>1. Kept(u) \in SUBSET Nodes
  BY DEF TypeOK, HpTypeOK, Kept
<1>2. Claims(u) \in SUBSET Slots(u)
  BY DEF Claims
<1> QED
  BY <1>1, <1>2, SlotsBound, PartOf, NodesAssumption

(* A step that keeps no more and gives rise to no claim keeps the bound.    *)
LEMMA NoMoreKept ==
  ASSUME TypeOK, KeptOK, NEW u \in Threads, pc[u] \in {"retire", "gc"},
         Kept(u)' \subseteq Kept(u), Claims(u)' \subseteq Claims(u)
  PROVE  (Cardinality(Kept(u)) + Cardinality(Claims(u)) <= 2 * (ThreadsN - 1))'
<1> DEFINE K == Kept(u)'
           C == Claims(u)'
<1>1. /\ IsFiniteSet(Kept(u)) /\ Cardinality(Kept(u)) \in Nat
      /\ IsFiniteSet(Claims(u)) /\ Cardinality(Claims(u)) \in Nat
  BY KeptFinite
<1>2. Cardinality(Kept(u)) + Cardinality(Claims(u)) <= 2 * (ThreadsN - 1)
  BY DEF KeptOK
<1>3. K \in SUBSET Kept(u) /\ C \in SUBSET Claims(u)
  OBVIOUS
<1> HIDE DEF K, C
<1>4. Cardinality(K) \in Nat /\ Cardinality(K) <= Cardinality(Kept(u))
  BY <1>1, <1>3, PartOf
<1>5. Cardinality(C) \in Nat /\ Cardinality(C) <= Cardinality(Claims(u))
  BY <1>1, <1>3, PartOf
<1>6. Cardinality(K) + Cardinality(C) <= 2 * (ThreadsN - 1)
  BY <1>1, <1>2, <1>4, <1>5, ThreadsNAssumption
<1> QED
  BY <1>6 DEF K, C

(* A claim that moves from what was loaded into the slot stays one claim.   *)
LEMMA ClaimMoves ==
  ASSUME NEW S, IsFiniteSet(S), NEW a \in S, NEW b, NEW T \in SUBSET ((S \ {a}) \cup {b})
  PROVE  /\ IsFiniteSet(T)
         /\ Cardinality(T) \in Nat
         /\ Cardinality(T) <= Cardinality(S)
<1>1. IsFiniteSet(S \ {a}) /\ Cardinality(S \ {a}) = Cardinality(S) - 1
  BY FS_RemoveElement
<1>2. /\ IsFiniteSet((S \ {a}) \cup {b})
      /\ Cardinality((S \ {a}) \cup {b}) <= Cardinality(S \ {a}) + 1
  BY <1>1, FS_AddElement, FS_CardinalityType
<1>3. Cardinality(T) \in Nat /\ IsFiniteSet(T) /\ Cardinality(T) <= Cardinality((S \ {a}) \cup {b})
  BY <1>2, PartOf
<1> QED
  BY <1>1, <1>2, <1>3, FS_CardinalityType

(* A pass that keeps the node it has examined keeps one more.               *)
LEMMA OneMore ==
  ASSUME NEW S, IsFiniteSet(S), NEW x, NEW T \in SUBSET (S \cup {x})
  PROVE  Cardinality(T) \in Nat /\ Cardinality(T) <= Cardinality(S) + 1
<1>1. /\ IsFiniteSet(S \cup {x})
      /\ Cardinality(S \cup {x}) = IF x \in S THEN Cardinality(S) ELSE Cardinality(S) + 1
  BY FS_AddElement
<1>2. Cardinality(S) \in Nat
  BY FS_CardinalityType
<1>3. Cardinality(T) \in Nat /\ Cardinality(S \cup {x}) \in Nat /\ Cardinality(T) <= Cardinality(S \cup {x})
  BY <1>1, PartOf
<1> QED
  BY <1>1, <1>2, <1>3

(* A pass that begins has kept nothing and has at most two claims of each   *)
(* other thread to fear.                                                    *)
LEMMA PassBegins ==
  ASSUME NEW u \in Threads, Kept(u)' = {}
  PROVE  (Cardinality(Kept(u)) + Cardinality(Claims(u)) <= 2 * (ThreadsN - 1))'
<1> DEFINE C == Claims(u)'
<1>1. C \in SUBSET Slots(u)
  BY DEF Claims, Slots
<1> HIDE DEF C
<1>2. Cardinality(C) \in Nat /\ Cardinality(C) <= 2 * (ThreadsN - 1)
  BY <1>1, PartOf, SlotsBound
<1>3. Cardinality({}) = 0
  BY FS_EmptySet
<1>4. Cardinality(Kept(u)') = 0
  BY <1>3
<1> QED
  BY <1>2, <1>4 DEF C

(* Each step keeps the bound: for a pass that goes on, what is kept and the *)
(* claims; for a thread outside of retire(), its to_delete_.                *)
LEMMA GarbageStep == TypeOK /\ IInv /\ GarbageInv /\ [Next]_vars => GarbageInv'
<1> SUFFICES ASSUME TypeOK, IInv, GarbageInv, [Next]_vars PROVE GarbageInv'
  OBVIOUS
<1> USE ThreadsNAssumption, NodesAssumption DEF Goto, StoreHazard, RetireBegin, ProtectBegin, ProtectChanged,
        ProtectStores, hpVars, scanVars, protectVars
<1>1. KeptOK /\ ClearOK /\ BoundedGarbage /\ PassOK /\ LinkedOK
  BY DEF GarbageInv, IInv
<1>2. ASSUME UNCHANGED vars PROVE GarbageInv'
  BY <1>1, <1>2 DEF vars, GarbageInv, ClearOK, KeptOK, BoundedGarbage, Kept, Claims, Claim, Unexamined
<1>3. ASSUME NEW t \in Threads, Step(t) PROVE GarbageInv'
  <2>1. CASE OpenHolder(t) \/ CloseHolder(t) \/ UseAndClear(t) \/ UseAndAlloc(t)
    <3>1. ClearOK'
      <4>1. CASE OpenHolder(t)
        BY <1>1, <4>1 DEF OpenHolder, ClearOK, TypeOK, HpTypeOK
      <4>2. CASE CloseHolder(t)
        BY <1>1, <4>2 DEF CloseHolder, ClearOK, TypeOK, HpTypeOK
      <4>3. CASE UseAndClear(t)
        BY <1>1, <4>3 DEF UseAndClear, ClearOK, TypeOK, HpTypeOK
      <4>4. CASE UseAndAlloc(t)
        BY <1>1, <4>4 DEF UseAndAlloc, ClearOK, TypeOK, HpTypeOK
      <4> QED
        BY <2>1, <4>1, <4>2, <4>3, <4>4
    <3>2. KeptOK'
      <4> SUFFICES ASSUME NEW u \in Threads, (pc[u] \in {"retire", "gc"})'
                   PROVE  (Cardinality(Kept(u)) + Cardinality(Claims(u)) <= 2 * (ThreadsN - 1))'
        BY DEF KeptOK
      <4>1. pc[u] \in {"retire", "gc"} /\ Unexamined(u)' = Unexamined(u) /\ Kept(u)' = Kept(u)
        BY <2>1 DEF OpenHolder, CloseHolder, UseAndClear, UseAndAlloc, Kept, Unexamined, TypeOK, HpTypeOK
      <4>2. hazard'[t] \notin Unexamined(u)
        BY <2>1 DEF OpenHolder, CloseHolder, UseAndClear, UseAndAlloc, Unexamined, TypeOK, HpTypeOK
      <4>3. /\ loaded' = loaded
            /\ \A v \in Threads : /\ pc'[v] = "store" => pc[v] = "store"
                                  /\ v # t => hazard'[v] = hazard[v]
        BY <2>1 DEF OpenHolder, CloseHolder, UseAndClear, UseAndAlloc, TypeOK, HpTypeOK
      <4>4. Claims(u)' \subseteq Claims(u)
        <5> SUFFICES ASSUME NEW c \in Slots(u), Claim(u, c)' PROVE Claim(u, c)
          BY DEF Claims, Slots
        <5>1. c[1] \in Threads
          BY DEF Slots
        <5>2. CASE c[2] = "hazard" /\ hazard'[c[1]] \in Unexamined(u)
          <6>1. c[1] # t
            BY <4>2, <5>2
          <6> QED
            BY <4>3, <5>1, <5>2, <6>1 DEF Claim
        <5>3. CASE c[2] = "loaded" /\ pc'[c[1]] = "store" /\ loaded'[c[1]] \in Unexamined(u)
          BY <4>3, <5>1, <5>3 DEF Claim
        <5> QED
          BY <4>1, <5>2, <5>3 DEF Claim
      <4> QED
        BY <1>1, <4>1, <4>4, NoMoreKept
    <3>3. BoundedGarbage'
      <4> SUFFICES ASSUME NEW u \in Threads, pc'[u] \notin {"retire", "gc"}
                   PROVE  pc[u] \notin {"retire", "gc"} /\ toDelete'[u] = toDelete[u]
        BY <1>1 DEF BoundedGarbage
      <4> QED
        BY <2>1 DEF OpenHolder, CloseHolder, UseAndClear, UseAndAlloc, TypeOK, HpTypeOK
    <3> QED
      BY <3>1, <3>2, <3>3 DEF GarbageInv
  <2>2. CASE Begin(t) \/ ProtectReturn(t) \/ SwapFail(t)
    <3>1. ClearOK'
      BY <1>1, <2>2 DEF Begin, ProtectReturn, SwapFail, ClearOK, TypeOK, HpTypeOK
    <3>2. KeptOK'
      <4> SUFFICES ASSUME NEW u \in Threads, (pc[u] \in {"retire", "gc"})'
                   PROVE  (Cardinality(Kept(u)) + Cardinality(Claims(u)) <= 2 * (ThreadsN - 1))'
        BY DEF KeptOK
      <4>1. pc[u] \in {"retire", "gc"} /\ Unexamined(u)' = Unexamined(u) /\ Kept(u)' = Kept(u)
        BY <2>2 DEF Begin, ProtectReturn, SwapFail, Kept, Unexamined, TypeOK, HpTypeOK
      <4>2. Claims(u)' \subseteq Claims(u)
        BY <2>2, <4>1 DEF Begin, ProtectReturn, SwapFail, Claims, Claim, Slots, TypeOK, HpTypeOK
      <4> QED
        BY <1>1, <4>1, <4>2, NoMoreKept
    <3>3. BoundedGarbage'
      <4> SUFFICES ASSUME NEW u \in Threads, pc'[u] \notin {"retire", "gc"}
                   PROVE  pc[u] \notin {"retire", "gc"} /\ toDelete'[u] = toDelete[u]
        BY <1>1 DEF BoundedGarbage
      <4> QED
        BY <2>2 DEF Begin, ProtectReturn, SwapFail, TypeOK, HpTypeOK
    <3> QED
      BY <3>1, <3>2, <3>3 DEF GarbageInv
  <2>3. CASE ProtectLoad(t)
    <3>1. ClearOK'
      BY <1>1, <2>3 DEF ProtectLoad, ClearOK, TypeOK, HpTypeOK
    <3>2. KeptOK'
      <4> SUFFICES ASSUME NEW u \in Threads, (pc[u] \in {"retire", "gc"})'
                   PROVE  (Cardinality(Kept(u)) + Cardinality(Claims(u)) <= 2 * (ThreadsN - 1))'
        BY DEF KeptOK
      <4>1. pc[u] \in {"retire", "gc"} /\ Unexamined(u)' = Unexamined(u) /\ Kept(u)' = Kept(u)
        BY <2>3 DEF ProtectLoad, Kept, Unexamined, TypeOK, HpTypeOK
      <4>2. loaded'[t] \notin Unexamined(u)
        BY <1>1, <2>3 DEF ProtectLoad, Unexamined, LinkedOK, PassOK, TypeOK, HpTypeOK
      <4>3. Claims(u)' \subseteq Claims(u)
        BY <2>3, <4>1, <4>2 DEF ProtectLoad, Claims, Claim, Slots, TypeOK, HpTypeOK
      <4> QED
        BY <1>1, <4>1, <4>3, NoMoreKept
    <3>3. BoundedGarbage'
      <4> SUFFICES ASSUME NEW u \in Threads, pc'[u] \notin {"retire", "gc"}
                   PROVE  pc[u] \notin {"retire", "gc"} /\ toDelete'[u] = toDelete[u]
        BY <1>1 DEF BoundedGarbage
      <4> QED
        BY <2>3 DEF ProtectLoad, TypeOK, HpTypeOK
    <3> QED
      BY <3>1, <3>2, <3>3 DEF GarbageInv
  <2>4. CASE ProtectStore(t)
    <3>1. ClearOK'
      BY <1>1, <2>4 DEF ProtectStore, ClearOK, TypeOK, HpTypeOK
    <3>2. KeptOK'
      <4> SUFFICES ASSUME NEW u \in Threads, (pc[u] \in {"retire", "gc"})'
                   PROVE  (Cardinality(Kept(u)) + Cardinality(Claims(u)) <= 2 * (ThreadsN - 1))'
        BY DEF KeptOK
      <4> DEFINE l == <<t, "loaded">>
                 h == <<t, "hazard">>
                 C == Claims(u)'
      <4>1. pc[u] \in {"retire", "gc"} /\ Unexamined(u)' = Unexamined(u) /\ Kept(u)' = Kept(u)
        BY <2>4 DEF ProtectStore, Kept, Unexamined, TypeOK, HpTypeOK
      <4>2. \A c \in Slots(u) : c # h /\ Claim(u, c)' => Claim(u, c) /\ c # l
        BY <2>4, <4>1 DEF ProtectStore, Claim, Slots, TypeOK, HpTypeOK
      <4>3. h \in C => l \in Claims(u)
        BY <2>4, <4>1 DEF ProtectStore, Claims, Claim, Slots, TypeOK, HpTypeOK
      <4>4. CASE h \notin C
        <5>1. C \subseteq Claims(u)
          BY <4>2, <4>4 DEF Claims
        <5> QED
          BY <1>1, <4>1, <5>1, NoMoreKept
      <4>5. CASE h \in C
        <5>1. C \in SUBSET ((Claims(u) \ {l}) \cup {h})
          BY <4>2 DEF Claims
        <5>2. l \in Claims(u)
          BY <4>3, <4>5
        <5> HIDE DEF l, h, C
        <5>3. /\ IsFiniteSet(Kept(u)) /\ Cardinality(Kept(u)) \in Nat
              /\ IsFiniteSet(Claims(u)) /\ Cardinality(Claims(u)) \in Nat
          BY KeptFinite
        <5>4. Cardinality(C) \in Nat /\ Cardinality(C) <= Cardinality(Claims(u))
          BY <5>1, <5>2, <5>3, ClaimMoves
        <5>5. Cardinality(Kept(u)) + Cardinality(Claims(u)) <= 2 * (ThreadsN - 1)
          BY <1>1, <4>1 DEF KeptOK
        <5>6. Cardinality(Kept(u)) + Cardinality(C) <= 2 * (ThreadsN - 1)
          BY <5>3, <5>4, <5>5
        <5> QED
          BY <4>1, <5>6 DEF C
      <4> QED
        BY <4>4, <4>5
    <3>3. BoundedGarbage'
      <4> SUFFICES ASSUME NEW u \in Threads, pc'[u] \notin {"retire", "gc"}
                   PROVE  pc[u] \notin {"retire", "gc"} /\ toDelete'[u] = toDelete[u]
        BY <1>1 DEF BoundedGarbage
      <4> QED
        BY <2>4 DEF ProtectStore, TypeOK, HpTypeOK
    <3> QED
      BY <3>1, <3>2, <3>3 DEF GarbageInv
  <2>5. CASE SwapOk(t) \/ Gc(t)
    <3>1. ClearOK'
      BY <1>1, <2>5 DEF SwapOk, Gc, ClearOK, TypeOK, HpTypeOK
    <3>2. KeptOK'
      <4> SUFFICES ASSUME NEW u \in Threads, (pc[u] \in {"retire", "gc"})'
                   PROVE  (Cardinality(Kept(u)) + Cardinality(Claims(u)) <= 2 * (ThreadsN - 1))'
        BY DEF KeptOK
      <4>1. CASE u = t
        <5>1. Kept(u)' = {}
          BY <2>5, <4>1 DEF SwapOk, Gc, Kept, Unexamined, TypeOK, HpTypeOK
        <5> QED
          BY <5>1, PassBegins
      <4>2. CASE u # t
        <5>1. pc[u] \in {"retire", "gc"} /\ Unexamined(u)' = Unexamined(u) /\ Kept(u)' = Kept(u)
          BY <2>5, <4>2 DEF SwapOk, Gc, Kept, Unexamined, TypeOK, HpTypeOK
        <5>2. Claims(u)' \subseteq Claims(u)
          BY <2>5, <5>1 DEF SwapOk, Gc, Claims, Claim, Slots, TypeOK, HpTypeOK
        <5> QED
          BY <1>1, <5>1, <5>2, NoMoreKept
      <4> QED
        BY <4>1, <4>2
    <3>3. BoundedGarbage'
      <4> SUFFICES ASSUME NEW u \in Threads, pc'[u] \notin {"retire", "gc"}
                   PROVE  pc[u] \notin {"retire", "gc"} /\ toDelete'[u] = toDelete[u]
        BY <1>1 DEF BoundedGarbage
      <4> QED
        BY <2>5 DEF SwapOk, Gc, TypeOK, HpTypeOK
    <3> QED
      BY <3>1, <3>2, <3>3 DEF GarbageInv
  <2>6. CASE RetireScan(t)
    <3>1. ClearOK'
      BY <1>1, <2>6 DEF RetireScan, ClearOK
    <3>2. KeptOK'
      <4> SUFFICES ASSUME NEW u \in Threads, (pc[u] \in {"retire", "gc"})'
                   PROVE  (Cardinality(Kept(u)) + Cardinality(Claims(u)) <= 2 * (ThreadsN - 1))'
        BY DEF KeptOK
      <4>1. pc[u] \in {"retire", "gc"}
        BY <2>6 DEF RetireScan
      <4>2. CASE u # t
        <5>1. Unexamined(u)' = Unexamined(u) /\ Kept(u)' = Kept(u)
          BY <2>6, <4>2 DEF RetireScan, ScanStep, ScanPick, ScanProtected, ScanPass, ScanFree, Kept,
                            Unexamined, TypeOK, HpTypeOK
        <5>2. Claims(u)' \subseteq Claims(u)
          BY <2>6, <5>1 DEF RetireScan, Claims, Claim
        <5> QED
          BY <1>1, <4>1, <5>1, <5>2, NoMoreKept
      <4>3. CASE u = t /\ ScanPick(t)
        <5>1. Unexamined(u)' \subseteq Unexamined(u) /\ Kept(u)' \subseteq Kept(u)
          BY <1>1, <4>3 DEF ScanPick, Kept, Unexamined, PassOK, TypeOK, HpTypeOK
        <5>2. Claims(u)' \subseteq Claims(u)
          BY <2>6, <5>1 DEF RetireScan, Claims, Claim
        <5> QED
          BY <1>1, <4>1, <5>1, <5>2, NoMoreKept
      <4>4. CASE u = t /\ ScanPass(t)
        <5>1. Unexamined(u)' \subseteq Unexamined(u) /\ Kept(u)' \subseteq Kept(u)
          BY <1>1, <4>4 DEF ScanPass, Kept, Unexamined, PassOK, TypeOK, HpTypeOK
        <5>2. Claims(u)' \subseteq Claims(u)
          BY <2>6, <5>1 DEF RetireScan, Claims, Claim
        <5> QED
          BY <1>1, <4>1, <5>1, <5>2, NoMoreKept
      <4>5. CASE u = t /\ ScanFree(t)
        <5>1. Unexamined(u)' \subseteq Unexamined(u) /\ Kept(u)' \subseteq Kept(u)
          BY <1>1, <4>5 DEF ScanFree, Kept, Unexamined, PassOK, TypeOK, HpTypeOK
        <5>2. Claims(u)' \subseteq Claims(u)
          BY <2>6, <5>1 DEF RetireScan, Claims, Claim
        <5> QED
          BY <1>1, <4>1, <5>1, <5>2, NoMoreKept
      <4>6. CASE u = t /\ ScanProtected(t)
        <5> DEFINE k == cand[t]
                   h == <<idx[t], "hazard">>
                   K == Kept(u)'
                   C == Claims(u)'
        <5>1. hazard[u] = NoNode
          BY <1>1, <2>6, <4>6 DEF RetireScan, ClearOK
        <5>2. k \in Unexamined(u) /\ k \notin Unexamined(u)' /\ Unexamined(u)' \subseteq Unexamined(u)
          BY <1>1, <4>6 DEF ScanProtected, Unexamined, PassOK, TypeOK, HpTypeOK
        <5>3. K \in SUBSET (Kept(u) \cup {k})
          BY <4>6 DEF ScanProtected, Kept, Unexamined, TypeOK, HpTypeOK
        <5>4. idx[t] \in Threads \ {u} /\ hazard[idx[t]] = k
          BY <4>6, <5>1 DEF ScanProtected, TypeOK, HpTypeOK
        <5>5. h \in Claims(u)
          BY <5>2, <5>4 DEF Claims, Claim, Slots
        <5>6. C \subseteq Claims(u)
          BY <2>6, <5>2 DEF RetireScan, Claims, Claim
        <5>7. h \notin C
          BY <2>6, <5>2, <5>4 DEF RetireScan, Claims, Claim
        <5>8. C \in SUBSET (Claims(u) \ {h})
          BY <5>6, <5>7
        <5> HIDE DEF k, h, K, C
        <5>9. /\ IsFiniteSet(Kept(u)) /\ Cardinality(Kept(u)) \in Nat
              /\ IsFiniteSet(Claims(u)) /\ Cardinality(Claims(u)) \in Nat
          BY KeptFinite
        <5>10. Cardinality(Kept(u)) + Cardinality(Claims(u)) <= 2 * (ThreadsN - 1)
          BY <1>1, <4>1 DEF KeptOK
        <5>11. Cardinality(K) \in Nat /\ Cardinality(K) <= Cardinality(Kept(u)) + 1
          BY <5>3, <5>9, OneMore
        <5>13. IsFiniteSet(Claims(u) \ {h}) /\ Cardinality(Claims(u) \ {h}) = Cardinality(Claims(u)) - 1
          BY <5>5, <5>9, FS_RemoveElement
        <5>14. Cardinality(C) \in Nat /\ Cardinality(C) <= Cardinality(Claims(u) \ {h})
          BY <5>8, <5>13, PartOf
        <5>15. Cardinality(K) + Cardinality(C) <= 2 * (ThreadsN - 1)
          BY <5>9, <5>10, <5>11, <5>13, <5>14
        <5> QED
          BY <5>15 DEF K, C
      <4> QED
        BY <2>6, <4>2, <4>3, <4>4, <4>5, <4>6 DEF RetireScan, ScanStep
    <3>3. BoundedGarbage'
      <4> SUFFICES ASSUME NEW u \in Threads, pc[u] \notin {"retire", "gc"}
                   PROVE  toDelete'[u] = toDelete[u]
        BY <1>1, <2>6 DEF RetireScan, BoundedGarbage
      <4> QED
        BY <2>6 DEF RetireScan, ScanStep, ScanPick, ScanProtected, ScanPass, ScanFree, TypeOK, HpTypeOK
    <3> QED
      BY <3>1, <3>2, <3>3 DEF GarbageInv
  <2>7. CASE RetireEnd(t)
    <3>1. ClearOK'
      BY <1>1, <2>7 DEF RetireEnd, ClearOK, TypeOK, HpTypeOK, ScanDone
    <3>2. KeptOK'
      <4> SUFFICES ASSUME NEW u \in Threads, (pc[u] \in {"retire", "gc"})'
                   PROVE  (Cardinality(Kept(u)) + Cardinality(Claims(u)) <= 2 * (ThreadsN - 1))'
        BY DEF KeptOK
      <4>1. pc[u] \in {"retire", "gc"} /\ Unexamined(u)' = Unexamined(u) /\ Kept(u)' = Kept(u)
        BY <2>7 DEF RetireEnd, Kept, Unexamined, TypeOK, HpTypeOK
      <4>2. Claims(u)' \subseteq Claims(u)
        BY <2>7, <4>1 DEF RetireEnd, Claims, Claim, Slots, TypeOK, HpTypeOK
      <4> QED
        BY <1>1, <4>1, <4>2, NoMoreKept
    <3>3. BoundedGarbage'
      <4> SUFFICES ASSUME NEW u \in Threads, pc'[u] \notin {"retire", "gc"}
                   PROVE  Cardinality(toDelete[u]) <= 2 * (ThreadsN - 1)
        BY <2>7 DEF RetireEnd, BoundedGarbage
      <4>1. CASE u = t
        <5>1. Kept(t) = toDelete[t]
          BY <2>7 DEF RetireEnd, ScanDone, Kept, Unexamined, TypeOK, HpTypeOK
        <5>2. Cardinality(Kept(t)) + Cardinality(Claims(t)) <= 2 * (ThreadsN - 1)
          BY <1>1, <2>7 DEF RetireEnd, KeptOK
        <5>3. Cardinality(Kept(t)) \in Nat /\ Cardinality(Claims(t)) \in Nat
          BY KeptFinite
        <5> QED
          BY <4>1, <5>1, <5>2, <5>3
      <4>2. CASE u # t
        BY <1>1, <2>7, <4>2 DEF RetireEnd, BoundedGarbage, TypeOK, HpTypeOK
      <4> QED
        BY <4>1, <4>2
    <3> QED
      BY <3>1, <3>2, <3>3 DEF GarbageInv
  <2> QED
    BY <1>3, <2>1, <2>2, <2>3, <2>4, <2>5, <2>6, <2>7 DEF Step
<1> QED
  BY <1>2, <1>3 DEF Next

(* retire() leaves at most two nodes per other thread in to_delete_: the    *)
(* one its slot showed when the pass began and the one it had loaded by     *)
(* then; whatever it loads later is not in to_delete_.                      *)
THEOREM BoundedGarbageCorrect == Spec => []BoundedGarbage
<1>1. Init => GarbageInv
  <2> SUFFICES ASSUME Init PROVE GarbageInv
    OBVIOUS
  <2>1. \A u \in Threads : Cardinality(toDelete[u]) = 0
    BY FS_EmptySet DEF Init, HpInit
  <2>2. 0 <= 2 * (ThreadsN - 1)
    BY ThreadsNAssumption
  <2>3. BoundedGarbage
    BY <2>1, <2>2 DEF BoundedGarbage
  <2>4. ClearOK /\ KeptOK
    BY DEF Init, HpInit, ClearOK, KeptOK
  <2> QED
    BY <2>3, <2>4 DEF GarbageInv
<1>2. GarbageInv => BoundedGarbage
  BY DEF GarbageInv
<1> QED
  BY <1>1, <1>2, GarbageStep, InvCorrect, PTL DEF Spec
=============================================================================
