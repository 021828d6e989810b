--------------------------- MODULE HazardPointers ---------------------------
(***************************************************************************)
(* td::HazardPointers<T, 1> (td/utils/HazardPointers.h): the mechanism     *)
(* alone.  A client module EXTENDS this one, decides when a slot is        *)
(* written and when a node is retired, and owns the program counters.      *)
(*                                                                         *)
(* Every atomic access of the class is one step: the store of a hazard     *)
(* slot, and, in retire(), each single load of another thread's slot.      *)
(* is_protected() reads the slots in index order and not at one instant;   *)
(* the windows between those loads are what the clients are checked for.   *)
(*                                                                         *)
(* to_delete_ is a vector in the code.  Its order only decides which node  *)
(* is examined first, so it is a set here and the next one is any of those *)
(* the pass has not examined.  T * is an address: a node that is deleted   *)
(* leaves heap and the allocator may hand its address out again.           *)
(***************************************************************************)
EXTENDS Naturals, FiniteSets

CONSTANTS
  ThreadsN,  (* threads_n, the constructor's argument                        *)
  Nodes,     (* addresses the allocator can return                          *)
  NoNode,    (* nullptr                                                     *)
  Reserved   (* reinterpret_cast<T *>(1), what a fresh Holder stores        *)

ASSUME ThreadsNAssumption == ThreadsN \in Nat \ {0}
ASSUME NodesAssumption ==
  /\ IsFiniteSet(Nodes)
  /\ NoNode \notin Nodes
  /\ Reserved \notin Nodes
  /\ Reserved # NoNode

Threads == 0 .. (ThreadsN - 1)

VARIABLES
  heap,      (* addresses of the objects that exist                         *)
  hazard,    (* threads_[t].hazard_[0]                                      *)
  toDelete,  (* threads_[t].to_delete_                                      *)
  todo,      (* members of to_delete_ this pass of retire() has not examined *)
  cand,      (* the one it examines (it->get()), NoNode between two          *)
  idx,       (* the thread whose slot is_protected() loads next             *)
  saved,     (* do_protect's saved, and what it returned                    *)
  loaded     (* do_protect's to_save                                        *)

scanVars == <<toDelete, todo, cand, idx>>
hpVars == <<heap, hazard, scanVars>>
protectVars == <<saved, loaded>>

HpInit ==
  /\ hazard = [t \in Threads |-> NoNode]
  /\ toDelete = [t \in Threads |-> {}]
  /\ todo = [t \in Threads |-> {}]
  /\ cand = [t \in Threads |-> NoNode]
  /\ idx = [t \in Threads |-> 0]
  /\ saved = [t \in Threads |-> NoNode]
  /\ loaded = [t \in Threads |-> NoNode]

HpTypeOK ==
  /\ heap \in SUBSET Nodes
  /\ hazard \in [Threads -> Nodes \cup {NoNode, Reserved}]
  /\ toDelete \in [Threads -> SUBSET Nodes]
  /\ todo \in [Threads -> SUBSET Nodes]
  /\ cand \in [Threads -> Nodes \cup {NoNode}]
  /\ idx \in [Threads -> 0 .. ThreadsN]
  /\ saved \in [Threads -> Nodes \cup {NoNode}]
  /\ loaded \in [Threads -> Nodes \cup {NoNode}]

----------------------------------------------------------------------------
(* A store to the thread's own slot: in do_protect, do_clear, Holder.       *)
StoreHazard(t, v) == hazard' = [hazard EXCEPT ![t] = v]

(* do_protect(slot, p) starts with saved = nullptr.                         *)
ProtectBegin(t) == saved' = [saved EXCEPT ![t] = NoNode]

(* Its loop condition: p has changed since the last store; v is p's value.  *)
ProtectChanged(t, v) ==
  /\ v # saved[t]
  /\ loaded' = [loaded EXCEPT ![t] = v]
  /\ UNCHANGED saved

(* The body of its loop.                                                    *)
ProtectStores(t) ==
  /\ StoreHazard(t, loaded[t])
  /\ saved' = [saved EXCEPT ![t] = loaded[t]]
  /\ UNCHANGED loaded

(* retire(t, ptr) up to its loop; ps is {ptr}, or {} for nullptr.           *)
RetireBegin(t, ps) ==
  /\ toDelete' = [toDelete EXCEPT ![t] = @ \cup ps]
  /\ todo' = [todo EXCEPT ![t] = toDelete[t] \cup ps]
  /\ UNCHANGED <<cand, idx>>

(* The loop moves to the next element and calls is_protected on it.         *)
ScanPick(t) ==
  /\ cand[t] = NoNode
  /\ \E p \in todo[t] :
       /\ cand' = [cand EXCEPT ![t] = p]
       /\ todo' = [todo EXCEPT ![t] = @ \ {p}]
  /\ idx' = [idx EXCEPT ![t] = 0]
  /\ UNCHANGED <<heap, toDelete>>

(* Mutant: retire() breaks out of its loop at the first protected node.     *)
ScanProtectedStops(t) ==
  /\ cand[t] # NoNode
  /\ idx[t] < ThreadsN
  /\ hazard[idx[t]] = cand[t]
  /\ cand' = [cand EXCEPT ![t] = NoNode]
  /\ todo' = [todo EXCEPT ![t] = {}]
  /\ UNCHANGED <<heap, toDelete, idx>>

(* One load of is_protected finds the candidate: it stays in to_delete_.    *)
ScanProtected(t) ==
  /\ cand[t] # NoNode
  /\ idx[t] < ThreadsN
  /\ hazard[idx[t]] = cand[t]
  /\ cand' = [cand EXCEPT ![t] = NoNode]
  /\ UNCHANGED <<heap, toDelete, todo, idx>>

(* One load of is_protected finds something else: on to the next thread.    *)
ScanPass(t) ==
  /\ cand[t] # NoNode
  /\ idx[t] < ThreadsN
  /\ hazard[idx[t]] # cand[t]
  /\ idx' = [idx EXCEPT ![t] = @ + 1]
  /\ UNCHANGED <<heap, toDelete, todo, cand>>

(* No slot held it: it->reset() runs the deleter, erase() drops the entry.  *)
ScanFree(t) ==
  /\ cand[t] # NoNode
  /\ idx[t] = ThreadsN
  /\ heap' = heap \ {cand[t]}
  /\ toDelete' = [toDelete EXCEPT ![t] = @ \ {cand[t]}]
  /\ cand' = [cand EXCEPT ![t] = NoNode]
  /\ UNCHANGED <<todo, idx>>

ScanStep(t) == ScanPick(t) \/ ScanProtected(t) \/ ScanPass(t) \/ ScanFree(t)

(* retire() has reached the end of to_delete_.                              *)
ScanDone(t) == cand[t] = NoNode /\ todo[t] = {}
=============================================================================
