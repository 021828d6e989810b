-------------------------- MODULE EpochReclamation --------------------------
(***************************************************************************)
(* td::EpochBasedMemoryReclamation (td/utils/EpochBasedMemoryReclamation.h) *)
(* under the threads of test/EpochBasedMemoryReclamation.cpp: each locks,  *)
(* reads and replaces the node of a shared pointer for some rounds, then   *)
(* calls retire_sync() and unlock().                                       *)
(*                                                                         *)
(* ThreadData::epoch is 2 * e + 1 when idle and 2 * e when not: e is loc   *)
(* and the lowest bit is idle; both change in the same step.  Every load   *)
(* or store of an atomic is a step; what a thread does to its own bags     *)
(* goes with the store that follows.                                       *)
(***************************************************************************)
EXTENDS Naturals, FiniteSets

CONSTANTS
  ThreadsN,  (* threads_.size()                                              *)
  Nodes,     (* addresses                                                    *)
  NoNode,    (* nullptr                                                      *)
  ToSkip,    (* what to_skip starts from, 30 in the code                     *)
  Rounds     (* Rounds[t]: iterations of a loop, 1000000 in the test         *)

ASSUME ThreadsNAssumption == ThreadsN \in Nat \ {0}
ASSUME NodesAssumption == NoNode \notin Nodes
ASSUME ToSkipAssumption == ToSkip \in Nat

Threads == 0 .. (ThreadsN - 1)

MaxBags == 3
Bags == 0 .. (MaxBags - 1)

VARIABLES
  epoch,     (* epoch_                                                       *)
  loc,       (* threads_[t].epoch / 2                                        *)
  idle,      (* threads_[t].epoch % 2 = 1                                    *)
  skip,      (* to_skip                                                      *)
  checked,   (* checked_thread_i                                             *)
  bagI,      (* bag_i                                                        *)
  bags,      (* to_delete                                                    *)
  got,       (* the epoch a thread has loaded and not yet stored             *)
  op,        (* the operation it is in: lock, retire or sync                 *)
  pc,
  heap,      (* the objects that exist                                       *)
  src,       (* the shared pointer, name_ of a node in the test              *)
  str,       (* what the thread has loaded from it                           *)
  round,     (* i                                                            *)
  pin        (* auxiliary: epoch_ when the thread last stored its epoch      *)

ownVars == <<skip, checked, bagI, bags>>
clientVars == <<src, str, round>>
vars == <<epoch, loc, idle, ownVars, got, op, pc, heap, clientVars, pin>>

Init ==
  /\ epoch = 1
  /\ loc = [t \in Threads |-> 0]
  /\ idle = [t \in Threads |-> TRUE]
  /\ skip = [t \in Threads |-> 0]
  /\ checked = [t \in Threads |-> 0]
  /\ bagI = [t \in Threads |-> 0]
  /\ bags = [t \in Threads |-> [b \in Bags |-> {}]]
  /\ got = [t \in Threads |-> 0]
  /\ op = [t \in Threads |-> "lock"]
  /\ pc = [t \in Threads |-> "load"]
  /\ heap = {}
  /\ src = NoNode
  /\ str = [t \in Threads |-> NoNode]
  /\ round = [t \in Threads |-> 0]
  /\ pin = [t \in Threads |-> 0]

Goto(t, l) == pc' = [pc EXCEPT ![t] = l]
Undeleted(bs) == UNION {bs[b] : b \in Bags}
NextBag(b) == (b + 1) % MaxBags

(* set_epoch: a new epoch starts the checks again and clears the bag that   *)
(* was filled two epochs ago; then the thread publishes it, no longer idle. *)
SetEpoch(t, e) ==
  LET next == NextBag(bagI[t]) IN
  /\ IF loc[t] # e
       THEN /\ checked' = [checked EXCEPT ![t] = 0]
            /\ bagI' = [bagI EXCEPT ![t] = next]
            /\ heap' = heap \ bags[t][next]
            /\ bags' = [bags EXCEPT ![t][next] = {}]
       ELSE UNCHANGED <<checked, bagI, heap, bags>>
  /\ loc' = [loc EXCEPT ![t] = e]
  /\ idle' = [idle EXCEPT ![t] = FALSE]
  /\ pin' = [pin EXCEPT ![t] = epoch]

(* idle(): the lowest bit of the epoch is set.                              *)
GoIdle(t) == idle' = [idle EXCEPT ![t] = TRUE]

(* step_check() returns: lock() does too, retire() loops while the answer   *)
(* is yes and its bags hold something.                                      *)
Return(t, ok, bs) ==
  CASE op[t] = "lock" -> Goto(t, "in")
    [] op[t] = "retire" -> Goto(t, IF ok /\ Undeleted(bs) # {} THEN "check" ELSE "swap")
    [] op[t] = "sync" -> Goto(t, IF ok /\ Undeleted(bs) # {} THEN "check" ELSE "rest")

----------------------------------------------------------------------------
(* lock() and retire() begin with a load of the global epoch.               *)
LoadEpoch(t) ==
  /\ pc[t] = "load"
  /\ got' = [got EXCEPT ![t] = epoch]
  /\ Goto(t, "set")
  /\ UNCHANGED <<epoch, loc, idle, ownVars, op, heap, clientVars, pin>>

(* lock(): publish it; check one thread if this epoch is new or it is time. *)
LockSet(t) ==
  /\ pc[t] = "set"
  /\ op[t] = "lock"
  /\ SetEpoch(t, got[t])
  /\ IF loc[t] # got[t] \/ skip[t] = 0
       THEN skip' = [skip EXCEPT ![t] = ToSkip] /\ Goto(t, "check")
       ELSE skip' = [skip EXCEPT ![t] = @ - 1] /\ Goto(t, "in")
  /\ UNCHANGED <<epoch, got, op, clientVars>>

NewEpochResetsSkip(t, e) ==
  skip' = IF loc[t] # e THEN [skip EXCEPT ![t] = 0] ELSE skip

(* retire(): publish it and check.                                          *)
RetireSet(t) ==
  /\ pc[t] = "set"
  /\ op[t] \in {"retire", "sync"}
  /\ SetEpoch(t, got[t])
  /\ NewEpochResetsSkip(t, got[t])
  /\ Goto(t, "check")
  /\ UNCHANGED <<epoch, got, op, clientVars>>

Quiescent(t, e) == idle[t] \/ loc[t] = e

(* Mutant: a thread that has published any epoch passes the check.          *)
CheckAny(t) ==
  /\ pc[t] = "check"
  /\ checked' = [checked EXCEPT ![t] = @ + 1]
  /\ IF checked[t] + 1 = ThreadsN THEN Goto(t, "cas") ELSE Return(t, TRUE, bags[t])
  /\ UNCHANGED <<epoch, loc, idle, skip, bagI, bags, got, op, heap, clientVars, pin>>

(* step_check(): the next thread is idle or in this epoch.                  *)
CheckPass(t) ==
  /\ pc[t] = "check"
  /\ Quiescent(checked[t], loc[t])
  /\ checked' = [checked EXCEPT ![t] = @ + 1]
  /\ IF checked[t] + 1 = ThreadsN THEN Goto(t, "cas") ELSE Return(t, TRUE, bags[t])
  /\ UNCHANGED <<epoch, loc, idle, skip, bagI, bags, got, op, heap, clientVars, pin>>

CheckFail(t) ==
  /\ pc[t] = "check"
  /\ ~Quiescent(checked[t], loc[t])
  /\ Return(t, FALSE, bags[t])
  /\ UNCHANGED <<epoch, loc, idle, ownVars, got, op, heap, clientVars, pin>>

(* All threads have passed: compare_exchange the global epoch; either way   *)
(* the thread knows the current one.                                        *)
Advance(t) ==
  /\ pc[t] = "cas"
  /\ epoch' = IF epoch = loc[t] THEN epoch + 1 ELSE epoch
  /\ got' = [got EXCEPT ![t] = epoch']
  /\ Goto(t, "reset")
  /\ UNCHANGED <<loc, idle, ownVars, op, heap, clientVars, pin>>

(* ... and publishes it.                                                    *)
ResetEpoch(t) ==
  /\ pc[t] = "reset"
  /\ SetEpoch(t, got[t])
  /\ NewEpochResetsSkip(t, got[t])
  /\ Return(t, TRUE, bags'[t])
  /\ UNCHANGED <<epoch, got, op, clientVars>>

(* retire_sync(): idle, until nothing is left to delete.                    *)
Rest(t) ==
  /\ pc[t] = "rest"
  /\ GoIdle(t)
  /\ Goto(t, IF Undeleted(bags[t]) = {} THEN "unlock" ELSE "load")
  /\ UNCHANGED <<epoch, loc, ownVars, got, op, heap, clientVars, pin>>

(* unlock(); the thread ends, or locks again before its next round.         *)
Unlock(t) ==
  /\ pc[t] = "unlock"
  /\ GoIdle(t)
  /\ op' = [op EXCEPT ![t] = IF @ = "sync" THEN "sync" ELSE "lock"]
  /\ Goto(t, IF op[t] = "sync" THEN "done" ELSE "load")
  /\ UNCHANGED <<epoch, loc, ownVars, got, heap, clientVars, pin>>

----------------------------------------------------------------------------
(* A round begins: node.name_.load().                                       *)
LoadNode(t) ==
  /\ pc[t] = "in"
  /\ round[t] < Rounds[t]
  /\ round' = [round EXCEPT ![t] = @ + 1]
  /\ str' = [str EXCEPT ![t] = src]
  /\ Goto(t, "use")
  /\ UNCHANGED <<epoch, loc, idle, ownVars, got, op, heap, src, pin>>

(* *str is read; then, every hundredth time, retire().                      *)
UseNode(t) ==
  /\ pc[t] = "use"
  /\ \/ Goto(t, "swap") /\ UNCHANGED op
     \/ Goto(t, "load") /\ op' = [op EXCEPT ![t] = "retire"]
  /\ UNCHANGED <<epoch, loc, idle, ownVars, got, heap, clientVars, pin>>

(* The pointer is left alone in this round.                                 *)
KeepNode(t) ==
  /\ pc[t] = "swap"
  /\ str' = [str EXCEPT ![t] = NoNode]
  /\ Goto(t, "in")
  /\ UNCHANGED <<epoch, loc, idle, ownVars, got, op, heap, src, round, pin>>

(* A new node replaces it, and the old one goes to the current bag.  When   *)
(* compare_exchange fails the new node is deleted at once.                  *)
SwapNode(t) ==
  /\ pc[t] = "swap"
  /\ \E n \in Nodes \ heap :
       IF src = str[t]
         THEN /\ src' = n
              /\ heap' = heap \cup {n}
              /\ bags' = [bags EXCEPT ![t][bagI[t]] = @ \cup ({str[t]} \ {NoNode})]
         ELSE UNCHANGED <<src, heap, bags>>
  /\ str' = [str EXCEPT ![t] = NoNode]
  /\ Goto(t, "in")
  /\ UNCHANGED <<epoch, loc, idle, skip, checked, bagI, got, op, round, pin>>

(* Between two rounds a thread may unlock() and lock() again.               *)
Relock(t) ==
  /\ pc[t] = "in"
  /\ round[t] < Rounds[t]
  /\ round' = [round EXCEPT ![t] = @ + 1]
  /\ Goto(t, "unlock")
  /\ UNCHANGED <<epoch, loc, idle, ownVars, got, op, heap, src, str, pin>>

(* The loop is over: retire_sync().                                         *)
Leave(t) ==
  /\ pc[t] = "in"
  /\ round[t] = Rounds[t]
  /\ op' = [op EXCEPT ![t] = "sync"]
  /\ Goto(t, "load")
  /\ UNCHANGED <<epoch, loc, idle, ownVars, got, heap, clientVars, pin>>

Step(t) ==
  \/ LoadEpoch(t) \/ LockSet(t) \/ RetireSet(t)
  \/ CheckPass(t) \/ CheckFail(t) \/ Advance(t) \/ ResetEpoch(t)
  \/ Rest(t) \/ Unlock(t)
  \/ LoadNode(t) \/ UseNode(t) \/ KeepNode(t) \/ SwapNode(t) \/ Relock(t) \/ Leave(t)

Finished == (\A t \in Threads : pc[t] = "done") /\ UNCHANGED vars

Next == (\E t \in Threads : Step(t)) \/ Finished

Spec == Init /\ [][Next]_vars

----------------------------------------------------------------------------
Pcs == {"load", "set", "check", "cas", "reset", "rest", "unlock", "in", "use", "swap", "done"}

TypeOK ==
  /\ epoch \in Nat
  /\ loc \in [Threads -> Nat]
  /\ idle \in [Threads -> BOOLEAN]
  /\ skip \in [Threads -> 0 .. ToSkip]
  /\ checked \in [Threads -> 0 .. ThreadsN]
  /\ \A t \in Threads : checked[t] = ThreadsN => pc[t] \in {"cas", "reset"}
  /\ bagI \in [Threads -> Bags]
  /\ bags \in [Threads -> [Bags -> SUBSET Nodes]]
  /\ got \in [Threads -> Nat]
  /\ op \in [Threads -> {"lock", "retire", "sync"}]
  /\ pc \in [Threads -> Pcs]
  /\ heap \in SUBSET Nodes
  /\ src \in Nodes \cup {NoNode}
  /\ str \in [Threads -> Nodes \cup {NoNode}]
  /\ round \in [Threads -> Nat]
  /\ pin \in [Threads -> Nat]

(* What a locked thread has loaded exists until its next quiescent point,   *)
(* though others unlink and retire it and go through epochs meanwhile.      *)
LoadedIsLive == \A t \in Threads : pc[t] = "use" /\ str[t] # NoNode => str[t] \in heap

(* A thread that is not idle holds the epoch back: it advances at most once *)
(* after the thread published, even when what it published was stale.       *)
EpochHeldBack == \A t \in Threads : ~idle[t] => epoch <= pin[t] + 1

(* Every object is linked or in exactly one bag of one thread.              *)
BagsOwn ==
  /\ heap = ({src} \ {NoNode}) \cup UNION {Undeleted(bags[t]) : t \in Threads}
  /\ \A t, u \in Threads, b, c \in Bags :
       /\ src \notin bags[t][b]
       /\ <<t, b>> # <<u, c>> => bags[t][b] \cap bags[u][c] = {}

(* A thread that has come out of retire_sync() left nothing to delete:      *)
(* to_delete_size_unsafe() is 0 at the end of the test.                     *)
NothingLeft == \A t \in Threads : pc[t] = "done" => Undeleted(bags[t]) = {}

(* The safety of the reclamation: nothing is freed while it is read, the    *)
(* epoch waits for who is active, nothing leaks or is deleted twice, and    *)
(* retire_sync() leaves nothing.                                            *)
EpochHolds == TypeOK /\ LoadedIsLive /\ EpochHeldBack /\ BagsOwn /\ NothingLeft

(* Every retire_sync() comes to its end.                                    *)
EveryoneFinishes == \A t \in Threads : <>(pc[t] = "done")
=============================================================================
