------------------------------ MODULE SyncProofs ------------------------------
(***************************************************************************)
(* Proofs about the components of MCSync: epoch-based reclamation for any  *)
(* number of threads, nodes and rounds, and the two waiters for any number *)
(* of workers, writers and units of work, as MCSync combines them.         *)
(*                                                                         *)
(* Epochs: a thread that is not idle keeps the global epoch within one of  *)
(* the epoch at which it published (pin).  What another thread unlinks     *)
(* while it reads goes to a bag that is cleared when that thread has       *)
(* published three new epochs since, the first of which it loads after the *)
(* unlinking: the third is two more than the reader's stamp, and the       *)
(* global epoch cannot be that far.                                        *)
(*                                                                         *)
(* Waiters: a worker that sleeps is in sleepers_, taken out of it by a     *)
(* notifier that will unpark it, or unparked, one of the three; the state  *)
(* of a slot says where its worker may be; and when work is left and no    *)
(* writer is about to tell of it, some worker will look at the work again. *)
(* The eager waiter: then nobody is said to be asleep, and the worker that *)
(* has the claim has not looked in vain since it made it.                  *)
(***************************************************************************)
EXTENDS MCSync, FiniteSetTheorems, SequenceTheorems, TLAPS


(* What a thread publishes was the global epoch when the thread loaded it,  *)
(* and it is newer than the last one when the compare_exchange is behind it. *)
StampOK ==
  \A t \in Threads :
    /\ loc[t] <= pin[t]
    /\ pin[t] <= epoch
    /\ pc[t] \in {"set", "reset"} => loc[t] <= got[t] /\ got[t] <= epoch
    /\ pc[t] = "reset" => loc[t] # got[t]

(* Between lock() and unlock() a thread has published and is not idle.      *)
ActiveOK ==
  \A t \in Threads : pc[t] \in {"check", "cas", "reset", "in", "use", "swap"} => ~idle[t]

(* The threads that have passed a check are idle, or have published since   *)
(* the epoch began that the check is for.                                   *)
CheckedOK ==
  \A t \in Threads :
    /\ pc[t] = "cas" => checked[t] = ThreadsN
    /\ loc[t] = epoch => \A u \in Threads : u < checked[t] => idle[u] \/ pin[u] = epoch

(* A node exists exactly when it is linked or in a bag, of one thread.      *)
OwnerOK ==
  /\ src # NoNode => src \in heap
  /\ \A t \in Threads, b \in Bags : bags[t][b] \subseteq heap
  /\ \A n \in heap : n = src \/ \E t \in Threads, b \in Bags : n \in bags[t][b]
  /\ \A t \in Threads, b \in Bags : src \notin bags[t][b]
  /\ \A t, u \in Threads, b, c \in Bags :
       <<t, b>> # <<u, c>> => bags[t][b] \cap bags[u][c] = {}

(* What a thread reads is linked or in a bag.                               *)
HeldOK == \A t \in Threads : pc[t] = "use" /\ str[t] # NoNode => str[t] \in heap

(* How old the bag of u is that holds what t reads: the current one, filled *)
(* before u loads the epoch that it publishes next, the one before it, or   *)
(* the one that is cleared next.                                            *)
AgeOK ==
  \A t, u \in Threads : pc[t] = "use" =>
    /\ str[t] \in bags[u][bagI[u]] /\ pc[u] \in {"set", "reset"} => pin[t] <= got[u]
    /\ str[t] \in bags[u][NextBag(NextBag(bagI[u]))] => pin[t] <= loc[u]
    /\ str[t] \in bags[u][NextBag(bagI[u])] => pin[t] < loc[u]

(* A thread leaves the loop of retire_sync() with empty bags.               *)
DoneOK ==
  \A t \in Threads :
    /\ pc[t] \in {"in", "use", "swap"} => op[t] # "sync"
    /\ pc[t] = "rest" => op[t] = "sync"
    /\ pc[t] = "done" => op[t] = "sync"
    /\ pc[t] \in {"unlock", "done"} /\ op[t] = "sync" => \A b \in Bags : bags[t][b] = {}

IInv ==
  /\ StampOK /\ ActiveOK /\ CheckedOK /\ EpochHeldBack
  /\ OwnerOK /\ HeldOK /\ AgeOK /\ DoneOK

----------------------------------------------------------------------------
(* Three bags, used in turn.                                                *)
LEMMA BagCycle ==
  \A b \in Bags :
    /\ NextBag(b) \in Bags /\ NextBag(NextBag(b)) \in Bags
    /\ NextBag(b) # b /\ NextBag(NextBag(b)) # b
    /\ NextBag(NextBag(b)) # NextBag(b)
    /\ NextBag(NextBag(NextBag(b))) = b
BY DEF Bags, MaxBags, NextBag

(* The numbers of the threads.                                              *)
LEMMA ThreadNumbers ==
  /\ ThreadsN \in Nat
  /\ \A t \in Threads : t \in Nat /\ t < ThreadsN
  /\ \A k \in Nat : k < ThreadsN => k \in Threads
BY ThreadsNAssumption DEF Threads

(* A counter that is not at its bound stays in its range.                   *)
LEMMA InRange ==
  ASSUME NEW m \in Nat, NEW k \in 0 .. m
  PROVE  /\ k # m => k + 1 \in 0 .. m
         /\ k # 0 => k - 1 \in 0 .. m
         /\ m \in 0 .. m
OBVIOUS

(* Where step_check() returns to, in each of the three operations.          *)
LEMMA Returns ==
  ASSUME TypeOK, NEW t \in Threads, NEW ok, NEW bs, Return(t, ok, bs)
  PROVE  \E l \in {"in", "check", "swap", "rest"} :
           /\ Goto(t, l)
           /\ l = "in" => op[t] = "lock"
           /\ l = "swap" => op[t] = "retire"
           /\ l = "rest" => op[t] = "sync"
<1>1. CASE op[t] = "lock"
  BY <1>1 DEF Return
<1>2. CASE op[t] = "retire"
  BY <1>2 DEF Return
<1>3. CASE op[t] = "sync"
  BY <1>3 DEF Return
<1> QED
  BY <1>1, <1>2, <1>3 DEF TypeOK

(* What the publication of an epoch changes: nothing but the stamps when it *)
(* is the one published last, and otherwise also the checks and the bags.   *)
LEMMA Published ==
  ASSUME TypeOK, NEW t \in Threads, NEW e \in Nat, SetEpoch(t, e)
  PROVE  /\ loc' = [loc EXCEPT ![t] = e] /\ loc' \in [Threads -> Nat]
         /\ idle' = [idle EXCEPT ![t] = FALSE] /\ idle' \in [Threads -> BOOLEAN]
         /\ pin' = [pin EXCEPT ![t] = epoch] /\ pin' \in [Threads -> Nat]
         /\ loc[t] = e => UNCHANGED <<checked, bagI, heap, bags>>
         /\ loc[t] # e =>
              /\ checked' = [checked EXCEPT ![t] = 0]
              /\ bagI' = [bagI EXCEPT ![t] = NextBag(bagI[t])]
              /\ heap' = heap \ bags[t][NextBag(bagI[t])]
              /\ \A u \in Threads, b \in Bags :
                   bags'[u][b] = IF u = t /\ b = NextBag(bagI[t]) THEN {} ELSE bags[u][b]
         /\ checked' \in [Threads -> 0 .. ThreadsN]
         /\ bagI' \in [Threads -> Bags]
         /\ heap' \in SUBSET Nodes
         /\ bags' \in [Threads -> [Bags -> SUBSET Nodes]]
<1> DEFINE next == NextBag(bagI[t])
<1>1. next \in Bags
  BY BagCycle DEF TypeOK
<1>2. /\ loc' = [loc EXCEPT ![t] = e] /\ idle' = [idle EXCEPT ![t] = FALSE]
      /\ pin' = [pin EXCEPT ![t] = epoch]
  BY DEF SetEpoch
<1>3. /\ loc' \in [Threads -> Nat] /\ idle' \in [Threads -> BOOLEAN] /\ pin' \in [Threads -> Nat]
  BY <1>2 DEF TypeOK
<1>4. CASE loc[t] = e
  BY <1>2, <1>3, <1>4 DEF SetEpoch, TypeOK
<1>5. CASE loc[t] # e
  <2>1. /\ checked' = [checked EXCEPT ![t] = 0] /\ bagI' = [bagI EXCEPT ![t] = next]
        /\ heap' = heap \ bags[t][next] /\ bags' = [bags EXCEPT ![t][next] = {}]
    BY <1>5 DEF SetEpoch
  <2>2. 0 \in 0 .. ThreadsN
    BY ThreadNumbers
  <2>3. checked' \in [Threads -> 0 .. ThreadsN] /\ bagI' \in [Threads -> Bags] /\ heap' \in SUBSET Nodes
    BY <1>1, <2>1, <2>2 DEF TypeOK
  <2>4. bags' \in [Threads -> [Bags -> SUBSET Nodes]]
    BY <1>1, <2>1 DEF TypeOK
  <2>5. \A u \in Threads, b \in Bags : bags'[u][b] = IF u = t /\ b = next THEN {} ELSE bags[u][b]
    BY <1>1, <2>1 DEF TypeOK
  <2> QED
    BY <1>2, <1>3, <1>5, <2>1, <2>3, <2>4, <2>5
<1> QED
  BY <1>4, <1>5

(* Each step leaves every variable in its range: the bags hold addresses,   *)
(* the counter of checked threads stops at their number.                    *)
LEMMA TypeStep == TypeOK /\ StampOK /\ [Next]_vars => TypeOK'
<1> SUFFICES ASSUME TypeOK, StampOK, [Next]_vars PROVE TypeOK'
  OBVIOUS
<1> USE DEF TypeOK, Pcs, Goto, ownVars, clientVars
<1>1. CASE UNCHANGED vars
  BY <1>1 DEF vars
<1>2. ASSUME NEW t \in Threads, Step(t) PROVE TypeOK'
  <2>1. CASE LoadEpoch(t)
    BY <2>1 DEF LoadEpoch
  <2>2. CASE LockSet(t)
    <3>1. got[t] \in Nat /\ SetEpoch(t, got[t])
      BY <2>2 DEF LockSet
    <3>2. /\ loc' \in [Threads -> Nat] /\ idle' \in [Threads -> BOOLEAN] /\ pin' \in [Threads -> Nat]
          /\ checked' \in [Threads -> 0 .. ThreadsN] /\ bagI' \in [Threads -> Bags]
          /\ heap' \in SUBSET Nodes /\ bags' \in [Threads -> [Bags -> SUBSET Nodes]]
      BY <3>1, Published
    <3>3. \E l \in {"in", "check", "swap", "rest"} : Goto(t, l)
      BY <2>2, Returns DEF LockSet
    <3>4. pc' \in [Threads -> Pcs]
      BY <3>3
    <3>5. skip' \in [Threads -> 0 .. ToSkip]
      <4>1. skip[t] \in 0 .. ToSkip /\ ToSkip \in 0 .. ToSkip
        BY ToSkipAssumption
      <4>2. CASE skip' = [skip EXCEPT ![t] = ToSkip]
        BY <4>1, <4>2
      <4>3. CASE skip[t] # 0 /\ skip' = [skip EXCEPT ![t] = skip[t] - 1]
        <5>1. skip[t] - 1 \in 0 .. ToSkip
          BY <4>1, <4>3, ToSkipAssumption, InRange
        <5> QED
          BY <4>3, <5>1
      <4> QED
        BY <2>2, <4>2, <4>3 DEF LockSet
    <3>6. \A u \in Threads : checked'[u] = ThreadsN => pc'[u] \in {"cas", "reset"}
      BY <2>2, <3>1, <3>3, Published, ThreadNumbers DEF LockSet, StampOK
    <3> QED
      BY <2>2, <3>2, <3>4, <3>5, <3>6 DEF LockSet
  <2>3. CASE RetireSet(t)
    <3>1. got[t] \in Nat /\ SetEpoch(t, got[t])
      BY <2>3 DEF RetireSet
    <3>2. /\ loc' \in [Threads -> Nat] /\ idle' \in [Threads -> BOOLEAN] /\ pin' \in [Threads -> Nat]
          /\ checked' \in [Threads -> 0 .. ThreadsN] /\ bagI' \in [Threads -> Bags]
          /\ heap' \in SUBSET Nodes /\ bags' \in [Threads -> [Bags -> SUBSET Nodes]]
      BY <3>1, Published
    <3>3. \E l \in {"in", "check", "swap", "rest"} : Goto(t, l)
      BY <2>3, Returns DEF RetireSet
    <3>4. pc' \in [Threads -> Pcs]
      BY <3>3
    <3>5. skip' \in [Threads -> 0 .. ToSkip]
      BY <2>3, ToSkipAssumption DEF RetireSet, NewEpochResetsSkip
    <3>6. \A u \in Threads : checked'[u] = ThreadsN => pc'[u] \in {"cas", "reset"}
      BY <2>3, <3>1, <3>3, Published, ThreadNumbers DEF RetireSet, StampOK
    <3> QED
      BY <2>3, <3>2, <3>4, <3>5, <3>6 DEF RetireSet
  <2>4. CASE CheckPass(t)
    <3>1. checked[t] + 1 \in 0 .. ThreadsN
      <4>1. checked[t] \in 0 .. ThreadsN /\ checked[t] # ThreadsN
        BY <2>4 DEF CheckPass
      <4> QED
        BY <4>1, ThreadNumbers, InRange
    <3>2. /\ checked' = [checked EXCEPT ![t] = checked[t] + 1]
          /\ checked' \in [Threads -> 0 .. ThreadsN]
      BY <2>4, <3>1 DEF CheckPass
    <3>3. \E l \in {"in", "check", "swap", "rest", "cas"} : Goto(t, l) /\ (checked[t] + 1 = ThreadsN => l = "cas")
      BY <2>4, Returns DEF CheckPass
    <3>4. \A u \in Threads : checked'[u] = ThreadsN => pc'[u] \in {"cas", "reset"}
      BY <3>2, <3>3
    <3> QED
      BY <2>4, <3>2, <3>3, <3>4 DEF CheckPass
  <2>5. CASE CheckFail(t)
    <3>1. PICK l \in {"in", "check", "swap", "rest"} : Goto(t, l)
      BY <2>5, Returns DEF CheckFail
    <3> QED
      BY <2>5, <3>1 DEF CheckFail
  <2>6. CASE Advance(t)
    BY <2>6 DEF Advance
  <2>7. CASE ResetEpoch(t)
    <3>1. got[t] \in Nat /\ SetEpoch(t, got[t])
      BY <2>7 DEF ResetEpoch
    <3>2. /\ loc' \in [Threads -> Nat] /\ idle' \in [Threads -> BOOLEAN] /\ pin' \in [Threads -> Nat]
          /\ checked' \in [Threads -> 0 .. ThreadsN] /\ bagI' \in [Threads -> Bags]
          /\ heap' \in SUBSET Nodes /\ bags' \in [Threads -> [Bags -> SUBSET Nodes]]
      BY <3>1, Published
    <3>3. \E l \in {"in", "check", "swap", "rest"} : Goto(t, l)
      BY <2>7, Returns DEF ResetEpoch
    <3>4. pc' \in [Threads -> Pcs]
      BY <3>3
    <3>5. skip' \in [Threads -> 0 .. ToSkip]
      BY <2>7, ToSkipAssumption DEF ResetEpoch, NewEpochResetsSkip
    <3>6. \A u \in Threads : checked'[u] = ThreadsN => pc'[u] \in {"cas", "reset"}
      BY <2>7, <3>1, <3>3, Published, ThreadNumbers DEF ResetEpoch, StampOK
    <3> QED
      BY <2>7, <3>2, <3>4, <3>5, <3>6 DEF ResetEpoch
  <2>8. CASE Rest(t)
    BY <2>8 DEF Rest, GoIdle
  <2>9. CASE Unlock(t)
    BY <2>9 DEF Unlock, GoIdle
  <2>10. CASE LoadNode(t)
    BY <2>10 DEF LoadNode
  <2>11. CASE UseNode(t)
    BY <2>11 DEF UseNode
  <2>12. CASE KeepNode(t)
    BY <2>12 DEF KeepNode
  <2>13. CASE SwapNode(t)
    <3>1. PICK m \in Nodes \ heap :
            IF src = str[t]
              THEN /\ src' = m
                   /\ heap' = heap \cup {m}
                   /\ bags' = [bags EXCEPT ![t][bagI[t]] = @ \cup ({str[t]} \ {NoNode})]
              ELSE UNCHANGED <<src, heap, bags>>
      BY <2>13 DEF SwapNode
    <3>2. bags[t][bagI[t]] \cup ({str[t]} \ {NoNode}) \in SUBSET Nodes
      OBVIOUS
    <3>3. bags' \in [Threads -> [Bags -> SUBSET Nodes]]
      <4> DEFINE bag == bags[t][bagI[t]] \cup ({str[t]} \ {NoNode})
      <4>1. CASE src = str[t]
        <5>1. [bags[t] EXCEPT ![bagI[t]] = bag] \in [Bags -> SUBSET Nodes]
          BY <3>2
        <5>2. bags' = [bags EXCEPT ![t] = [bags[t] EXCEPT ![bagI[t]] = bag]]
          BY <3>1, <4>1
        <5> QED
          BY <5>1, <5>2
      <4>2. CASE src # str[t]
        BY <3>1, <4>2
      <4> QED
        BY <4>1, <4>2
    <3>4. heap' \in SUBSET Nodes /\ src' \in Nodes \cup {NoNode}
      BY <3>1
    <3>5. str' \in [Threads -> Nodes \cup {NoNode}] /\ pc' \in [Threads -> Pcs]
      BY <2>13 DEF SwapNode
    <3> QED
      BY <2>13, <3>3, <3>4, <3>5 DEF SwapNode
  <2>14. CASE Relock(t)
    BY <2>14 DEF Relock
  <2>15. CASE Leave(t)
    BY <2>15 DEF Leave
  <2> QED
    BY <1>2, <2>1, <2>2, <2>3, <2>4, <2>5, <2>6, <2>7, <2>8, <2>9, <2>10, <2>11, <2>12, <2>13, <2>14, <2>15
       DEF Step
<1>3. CASE Finished
  BY <1>3 DEF Finished, vars
<1> QED
  BY <1>1, <1>2, <1>3 DEF Next

(* The publication of an epoch keeps the inductive invariant, whichever of  *)
(* lock(), retire() and step_check() does it.                               *)
LEMMA PublicationStep ==
  ASSUME TypeOK, IInv, NEW t \in Threads, pc[t] \in {"set", "reset"}, SetEpoch(t, got[t]),
         NEW l \in {"in", "check", "swap", "rest"}, Goto(t, l),
         l \in {"in", "swap"} => op[t] # "sync", l = "rest" => op[t] = "sync",
         UNCHANGED <<epoch, got, op, src, str>>
  PROVE  IInv'
<1> DEFINE next == NextBag(bagI[t])
<1>1. /\ got[t] \in Nat /\ loc[t] \in Nat /\ epoch \in Nat
      /\ loc[t] <= got[t] /\ got[t] <= epoch
  BY DEF TypeOK, IInv, StampOK
<1>2. /\ loc' = [loc EXCEPT ![t] = got[t]] /\ idle' = [idle EXCEPT ![t] = FALSE]
      /\ pin' = [pin EXCEPT ![t] = epoch]
      /\ loc[t] = got[t] => UNCHANGED <<checked, bagI, heap, bags>>
      /\ loc[t] # got[t] =>
           /\ checked' = [checked EXCEPT ![t] = 0]
           /\ bagI' = [bagI EXCEPT ![t] = next]
           /\ heap' = heap \ bags[t][next]
           /\ \A u \in Threads, b \in Bags :
                bags'[u][b] = IF u = t /\ b = next THEN {} ELSE bags[u][b]
  BY <1>1, Published
<1>3. pc' = [pc EXCEPT ![t] = l]
  BY DEF Goto
<1>4. bagI[t] \in Bags /\ next \in Bags
  BY BagCycle DEF TypeOK
<1>5. StampOK'
  BY <1>1, <1>2, <1>3 DEF TypeOK, IInv, StampOK
<1>6. ActiveOK'
  BY <1>2, <1>3 DEF TypeOK, IInv, ActiveOK
<1>7. CheckedOK'
  BY <1>1, <1>2, <1>3, ThreadNumbers DEF TypeOK, IInv, CheckedOK
<1>8. EpochHeldBack'
  BY <1>1, <1>2 DEF TypeOK, IInv, EpochHeldBack
<1>9. \A u \in Threads : pc[u] = "use" => str[u] \notin bags[t][next] \/ loc[t] = got[t]
  <2> SUFFICES ASSUME NEW u \in Threads, pc[u] = "use", str[u] \in bags[t][next], loc[t] < got[t]
               PROVE  FALSE
    BY <1>1
  <2>1. pin[u] < loc[t]
    BY DEF IInv, AgeOK
  <2>2. epoch <= pin[u] + 1
    BY DEF IInv, ActiveOK, EpochHeldBack
  <2>3. pin[u] \in Nat /\ loc[t] \in Nat
    BY DEF TypeOK
  <2> QED
    BY <1>1, <2>1, <2>2, <2>3
<1>10. OwnerOK'
  <2>1. CASE loc[t] = got[t]
    BY <1>2, <2>1 DEF IInv, OwnerOK
  <2>2. CASE loc[t] # got[t]
    BY <1>2, <1>4, <2>2 DEF IInv, OwnerOK
  <2> QED
    BY <2>1, <2>2
<1>11. HeldOK'
  BY <1>2, <1>3, <1>9 DEF TypeOK, IInv, HeldOK
<1>12. AgeOK'
  <2> SUFFICES ASSUME NEW u \in Threads, NEW v \in Threads, pc'[u] = "use"
               PROVE  /\ (str[u] \in bags[v][bagI[v]] /\ pc[v] \in {"set", "reset"} => pin[u] <= got[v])'
                      /\ (str[u] \in bags[v][NextBag(NextBag(bagI[v]))] => pin[u] <= loc[v])'
                      /\ (str[u] \in bags[v][NextBag(bagI[v])] => pin[u] < loc[v])'
    BY DEF AgeOK
  <2>1. u # t /\ pc[u] = "use" /\ pin'[u] = pin[u]
    BY <1>2, <1>3 DEF TypeOK
  <2>2. CASE v # t \/ loc[t] = got[t]
    BY <1>2, <1>3, <2>1, <2>2, BagCycle DEF TypeOK, IInv, AgeOK
  <2>3. CASE v = t /\ loc[t] # got[t]
    <3>1. /\ bagI'[v] = next /\ loc'[v] = got[t] /\ pc'[v] = l
          /\ NextBag(NextBag(next)) = bagI[t] /\ NextBag(next) = NextBag(NextBag(bagI[t]))
          /\ NextBag(next) # next /\ NextBag(NextBag(next)) # next
          /\ NextBag(next) \in Bags /\ NextBag(NextBag(next)) \in Bags
      BY <1>2, <1>3, <1>4, <2>3, BagCycle DEF TypeOK
    <3>2. /\ bags'[v][NextBag(NextBag(next))] = bags[t][bagI[t]]
          /\ bags'[v][NextBag(next)] = bags[t][NextBag(NextBag(bagI[t]))]
      BY <1>2, <2>3, <3>1
    <3>3. str[u] \in bags[t][bagI[t]] => pin[u] <= got[t]
      BY <2>1 DEF IInv, AgeOK
    <3>4. str[u] \in bags[t][NextBag(NextBag(bagI[t]))] => pin[u] <= loc[t]
      BY <2>1 DEF IInv, AgeOK
    <3>5. pin[u] \in Nat /\ loc[t] \in Nat
      BY DEF TypeOK
    <3>6. loc[t] < got[t]
      BY <1>1, <2>3, <3>5
    <3> QED
      BY <1>1, <2>1, <3>1, <3>2, <3>3, <3>4, <3>5, <3>6
  <2> QED
    BY <2>2, <2>3
<1>13. DoneOK'
  BY <1>2, <1>3, <1>4 DEF TypeOK, IInv, DoneOK
<1> QED
  BY <1>5, <1>6, <1>7, <1>8, <1>10, <1>11, <1>12, <1>13 DEF IInv

(* Each step keeps the inductive invariant: one step per action, and under  *)
(* it one per conjunct, or per group of those that it cannot disturb.       *)
LEMMA InvStep == TypeOK /\ IInv /\ [Next]_vars => IInv'
<1> SUFFICES ASSUME TypeOK, IInv, [Next]_vars PROVE IInv'
  OBVIOUS
<1> USE DEF Goto, ownVars, clientVars
<1>1. ASSUME UNCHANGED vars PROVE IInv'
  BY <1>1 DEF vars, IInv, StampOK, ActiveOK, CheckedOK, EpochHeldBack, OwnerOK, HeldOK, AgeOK, DoneOK
<1>2. ASSUME NEW t \in Threads, Step(t) PROVE IInv'
  <2>1. CASE LoadEpoch(t)
    <3>1. (StampOK /\ ActiveOK /\ CheckedOK /\ EpochHeldBack)'
      BY <2>1 DEF TypeOK, IInv, LoadEpoch, StampOK, ActiveOK, CheckedOK, EpochHeldBack
    <3>2. (OwnerOK /\ HeldOK)'
      BY <2>1 DEF TypeOK, IInv, LoadEpoch, OwnerOK, HeldOK
    <3>3. AgeOK'
      BY <2>1 DEF TypeOK, IInv, LoadEpoch, AgeOK, StampOK
    <3>4. DoneOK'
      BY <2>1 DEF TypeOK, IInv, LoadEpoch, DoneOK, Undeleted
    <3> QED
      BY <3>1, <3>2, <3>3, <3>4 DEF IInv
  <2>2. CASE LockSet(t)
    <3>1. PICK l \in {"in", "check", "swap", "rest"} :
            /\ Goto(t, l)
            /\ l \in {"in", "swap"} => op[t] # "sync"
            /\ l = "rest" => op[t] = "sync"
      BY <2>2, Returns DEF LockSet
    <3>2. pc[t] \in {"set", "reset"} /\ SetEpoch(t, got[t]) /\ UNCHANGED <<epoch, got, op, src, str>>
      BY <2>2 DEF LockSet
    <3> QED
      BY <3>1, <3>2, PublicationStep
  <2>3. CASE RetireSet(t)
    <3>1. PICK l \in {"in", "check", "swap", "rest"} :
            /\ Goto(t, l)
            /\ l \in {"in", "swap"} => op[t] # "sync"
            /\ l = "rest" => op[t] = "sync"
      BY <2>3, Returns DEF RetireSet
    <3>2. pc[t] \in {"set", "reset"} /\ SetEpoch(t, got[t]) /\ UNCHANGED <<epoch, got, op, src, str>>
      BY <2>3 DEF RetireSet
    <3> QED
      BY <3>1, <3>2, PublicationStep
  <2>4. CASE CheckPass(t)
    <3>0. \E l \in {"in", "check", "swap", "rest", "cas"} :
            /\ pc' = [pc EXCEPT ![t] = l]
            /\ l \in {"in", "swap"} => op[t] # "sync"
            /\ l = "rest" => op[t] = "sync"
            /\ l = "cas" => checked[t] + 1 = ThreadsN
      BY <2>4, Returns DEF CheckPass, TypeOK
    <3>1. (StampOK /\ ActiveOK)'
      BY <3>0, <2>4 DEF TypeOK, IInv, CheckPass, Quiescent, StampOK, ActiveOK
    <3>2. CheckedOK'
      <4>1. checked' = [checked EXCEPT ![t] = checked[t] + 1] /\ UNCHANGED <<epoch, loc, idle, pin>>
        BY <2>4 DEF CheckPass
      <4>2. checked[t] \in Nat
        BY ThreadNumbers DEF TypeOK
      <4>3. \A u \in Threads : pc'[u] = "cas" => checked'[u] = ThreadsN
        BY <3>0, <4>1 DEF TypeOK, IInv, CheckedOK
      <4>4. loc[t] = epoch => idle[checked[t]] \/ checked[t] \notin Threads \/ pin[checked[t]] = epoch
        <5> SUFFICES ASSUME loc[t] = epoch, checked[t] \in Threads, ~idle[checked[t]]
                     PROVE  pin[checked[t]] = epoch
          OBVIOUS
        <5>1. loc[checked[t]] = epoch
          BY <2>4 DEF CheckPass, Quiescent
        <5>2. /\ loc[checked[t]] <= pin[checked[t]] /\ pin[checked[t]] <= epoch
              /\ pin[checked[t]] \in Nat /\ epoch \in Nat
          BY DEF TypeOK, IInv, StampOK
        <5> QED
          BY <5>1, <5>2
      <4>5. \A u \in Threads : u < checked[t] + 1 => u < checked[t] \/ u = checked[t]
        BY <4>2, ThreadNumbers
      <4>6. \A u, v \in Threads : loc'[u] = epoch' /\ v < checked'[u] => idle'[v] \/ pin'[v] = epoch'
        BY <4>1, <4>4, <4>5 DEF TypeOK, IInv, CheckedOK
      <4> QED
        BY <4>3, <4>6 DEF CheckedOK
    <3>3. EpochHeldBack'
      BY <3>0, <2>4 DEF TypeOK, IInv, CheckPass, Quiescent, EpochHeldBack
    <3>4. (OwnerOK /\ HeldOK)'
      BY <3>0, <2>4 DEF TypeOK, IInv, CheckPass, Quiescent, OwnerOK, HeldOK
    <3>5. AgeOK'
      BY <3>0, <2>4 DEF TypeOK, IInv, CheckPass, Quiescent, AgeOK, StampOK
    <3>6. DoneOK'
      BY <3>0, <2>4 DEF TypeOK, IInv, CheckPass, Quiescent, DoneOK, Undeleted
    <3> QED
      BY <3>1, <3>2, <3>3, <3>4, <3>5, <3>6 DEF IInv
  <2>5. CASE CheckFail(t)
    <3>0. \E l \in {"in", "check", "swap", "rest", "cas"} :
            /\ pc' = [pc EXCEPT ![t] = l]
            /\ l \in {"in", "swap"} => op[t] # "sync"
            /\ l = "rest" => op[t] = "sync"
            /\ l = "cas" => checked[t] + 1 = ThreadsN
      BY <2>5, Returns DEF CheckFail, TypeOK
    <3>1. (StampOK /\ ActiveOK)'
      BY <3>0, <2>5 DEF TypeOK, IInv, CheckFail, Quiescent, StampOK, ActiveOK
    <3>2. CheckedOK'
      <4>1. \A u \in Threads : pc'[u] = "cas" => pc[u] = "cas"
        <5>1. PICK l \in {"in", "check", "swap", "rest"} : pc' = [pc EXCEPT ![t] = l]
          BY <2>5, Returns DEF CheckFail
        <5> QED
          BY <5>1 DEF TypeOK
      <4> QED
        BY <4>1, <2>5 DEF IInv, CheckFail, CheckedOK
    <3>3. EpochHeldBack'
      BY <3>0, <2>5 DEF TypeOK, IInv, CheckFail, Quiescent, EpochHeldBack
    <3>4. (OwnerOK /\ HeldOK)'
      BY <3>0, <2>5 DEF TypeOK, IInv, CheckFail, Quiescent, OwnerOK, HeldOK
    <3>5. AgeOK'
      BY <3>0, <2>5 DEF TypeOK, IInv, CheckFail, Quiescent, AgeOK, StampOK
    <3>6. DoneOK'
      BY <3>0, <2>5 DEF TypeOK, IInv, CheckFail, Quiescent, DoneOK, Undeleted
    <3> QED
      BY <3>1, <3>2, <3>3, <3>4, <3>5, <3>6 DEF IInv
  <2>6. CASE Advance(t)
    <3>1. (StampOK /\ ActiveOK)'
      BY <2>6 DEF TypeOK, IInv, Advance, StampOK, ActiveOK
    <3>2. CheckedOK'
      BY <2>6 DEF TypeOK, IInv, Advance, CheckedOK, StampOK
    <3>3. EpochHeldBack'
      <4>1. epoch' = (IF epoch = loc[t] THEN epoch + 1 ELSE epoch) /\ UNCHANGED <<idle, pin>>
        BY <2>6 DEF Advance
      <4>2. checked[t] = ThreadsN
        BY <2>6 DEF IInv, CheckedOK, Advance
      <4>3. ASSUME NEW u \in Threads, ~idle[u], epoch = loc[t] PROVE pin[u] = epoch
        BY <4>2, <4>3, ThreadNumbers DEF IInv, CheckedOK
      <4>4. epoch \in Nat /\ \A u \in Threads : pin[u] \in Nat
        BY DEF TypeOK
      <4> QED
        BY <4>1, <4>3, <4>4 DEF IInv, EpochHeldBack
    <3>4. (OwnerOK /\ HeldOK)'
      BY <2>6 DEF TypeOK, IInv, Advance, OwnerOK, HeldOK
    <3>5. AgeOK'
      BY <2>6 DEF TypeOK, IInv, Advance, AgeOK, StampOK
    <3>6. DoneOK'
      BY <2>6 DEF TypeOK, IInv, Advance, DoneOK, Undeleted
    <3> QED
      BY <3>1, <3>2, <3>3, <3>4, <3>5, <3>6 DEF IInv
  <2>7. CASE ResetEpoch(t)
    <3>1. PICK l \in {"in", "check", "swap", "rest"} :
            /\ Goto(t, l)
            /\ l \in {"in", "swap"} => op[t] # "sync"
            /\ l = "rest" => op[t] = "sync"
      BY <2>7, Returns DEF ResetEpoch
    <3>2. pc[t] \in {"set", "reset"} /\ SetEpoch(t, got[t]) /\ UNCHANGED <<epoch, got, op, src, str>>
      BY <2>7 DEF ResetEpoch
    <3> QED
      BY <3>1, <3>2, PublicationStep
  <2>8. CASE Rest(t)
    <3>1. (StampOK /\ ActiveOK /\ CheckedOK /\ EpochHeldBack)'
      BY <2>8 DEF TypeOK, IInv, Rest, GoIdle, StampOK, ActiveOK, CheckedOK, EpochHeldBack
    <3>2. (OwnerOK /\ HeldOK)'
      BY <2>8 DEF TypeOK, IInv, Rest, GoIdle, OwnerOK, HeldOK
    <3>3. AgeOK'
      BY <2>8 DEF TypeOK, IInv, Rest, GoIdle, AgeOK, StampOK
    <3>4. DoneOK'
      BY <2>8 DEF TypeOK, IInv, Rest, GoIdle, DoneOK, Undeleted
    <3> QED
      BY <3>1, <3>2, <3>3, <3>4 DEF IInv
  <2>9. CASE Unlock(t)
    <3>1. (StampOK /\ ActiveOK /\ CheckedOK /\ EpochHeldBack)'
      BY <2>9 DEF TypeOK, IInv, Unlock, GoIdle, StampOK, ActiveOK, CheckedOK, EpochHeldBack
    <3>2. (OwnerOK /\ HeldOK)'
      BY <2>9 DEF TypeOK, IInv, Unlock, GoIdle, OwnerOK, HeldOK
    <3>3. AgeOK'
      BY <2>9 DEF TypeOK, IInv, Unlock, GoIdle, AgeOK, StampOK
    <3>4. DoneOK'
      BY <2>9 DEF TypeOK, IInv, Unlock, GoIdle, DoneOK, Undeleted
    <3> QED
      BY <3>1, <3>2, <3>3, <3>4 DEF IInv
  <2>10. CASE LoadNode(t)
    <3>1. (StampOK /\ ActiveOK /\ CheckedOK /\ EpochHeldBack)'
      BY <2>10 DEF TypeOK, IInv, LoadNode, StampOK, ActiveOK, CheckedOK, EpochHeldBack
    <3>2. (OwnerOK /\ HeldOK)'
      BY <2>10 DEF TypeOK, IInv, LoadNode, OwnerOK, HeldOK
    <3>3. AgeOK'
      <4>1. /\ str' = [str EXCEPT ![t] = src] /\ pc' = [pc EXCEPT ![t] = "use"]
            /\ UNCHANGED <<loc, bagI, bags, got, pin>>
        BY <2>10 DEF LoadNode
      <4>2. \A u \in Threads : /\ src \notin bags[u][bagI[u]]
                               /\ src \notin bags[u][NextBag(bagI[u])]
                               /\ src \notin bags[u][NextBag(NextBag(bagI[u]))]
        BY BagCycle DEF TypeOK, IInv, OwnerOK
      <4> QED
        BY <2>10, <4>1, <4>2 DEF TypeOK, IInv, AgeOK, LoadNode
    <3>4. DoneOK'
      BY <2>10 DEF TypeOK, IInv, LoadNode, DoneOK, Undeleted
    <3> QED
      BY <3>1, <3>2, <3>3, <3>4 DEF IInv
  <2>11. CASE UseNode(t)
    <3>1. (StampOK /\ ActiveOK /\ CheckedOK /\ EpochHeldBack)'
      BY <2>11 DEF TypeOK, IInv, UseNode, StampOK, ActiveOK, CheckedOK, EpochHeldBack
    <3>2. (OwnerOK /\ HeldOK)'
      BY <2>11 DEF TypeOK, IInv, UseNode, OwnerOK, HeldOK
    <3>3. AgeOK'
      BY <2>11 DEF TypeOK, IInv, UseNode, AgeOK, StampOK
    <3>4. DoneOK'
      BY <2>11 DEF TypeOK, IInv, UseNode, DoneOK, Undeleted
    <3> QED
      BY <3>1, <3>2, <3>3, <3>4 DEF IInv
  <2>12. CASE KeepNode(t)
    <3>1. (StampOK /\ ActiveOK /\ CheckedOK /\ EpochHeldBack)'
      BY <2>12 DEF TypeOK, IInv, KeepNode, StampOK, ActiveOK, CheckedOK, EpochHeldBack
    <3>2. (OwnerOK /\ HeldOK)'
      BY <2>12 DEF TypeOK, IInv, KeepNode, OwnerOK, HeldOK
    <3>3. AgeOK'
      BY <2>12 DEF TypeOK, IInv, KeepNode, AgeOK, StampOK
    <3>4. DoneOK'
      BY <2>12 DEF TypeOK, IInv, KeepNode, DoneOK, Undeleted
    <3> QED
      BY <3>1, <3>2, <3>3, <3>4 DEF IInv
  <2>13. CASE SwapNode(t)
    <3>1. (StampOK /\ ActiveOK /\ CheckedOK /\ EpochHeldBack)'
      BY <2>13 DEF TypeOK, IInv, SwapNode, StampOK, ActiveOK, CheckedOK, EpochHeldBack
    <3>2. OwnerOK'
      <4>1. CASE src = str[t]
        <5>1. PICK m \in Nodes \ heap :
                /\ src' = m
                /\ heap' = heap \cup {m}
                /\ bags' = [bags EXCEPT ![t][bagI[t]] = @ \cup ({src} \ {NoNode})]
          BY <2>13, <4>1 DEF SwapNode
        <5>2. \A u \in Threads, b \in Bags :
                bags'[u][b] = IF u = t /\ b = bagI[t] THEN bags[u][b] \cup ({src} \ {NoNode}) ELSE bags[u][b]
          BY <5>1 DEF TypeOK
        <5>3. bagI[t] \in Bags
          BY DEF TypeOK
        <5>4. (src # NoNode => src \in heap)' /\ \A u \in Threads, b \in Bags : bags'[u][b] \subseteq heap'
          BY <5>1, <5>2 DEF IInv, OwnerOK
        <5>5. \A n \in heap' : n = src' \/ \E u \in Threads, b \in Bags : n \in bags'[u][b]
          <6> SUFFICES ASSUME NEW n \in heap, n # src' PROVE \E u \in Threads, b \in Bags : n \in bags'[u][b]
            BY <5>1
          <6>1. CASE n = src
            BY <5>2, <5>3, <6>1, NodesAssumption DEF TypeOK
          <6>2. CASE n # src
            <7>1. PICK u \in Threads, b \in Bags : n \in bags[u][b]
              BY <6>2 DEF IInv, OwnerOK
            <7> QED
              BY <5>2, <7>1
          <6> QED
            BY <6>1, <6>2
        <5>6. \A u \in Threads, b \in Bags : src' \notin bags'[u][b]
          BY <5>1, <5>2 DEF IInv, OwnerOK
        <5>7. \A u, v \in Threads, b, c \in Bags : <<u, b>> # <<v, c>> => bags'[u][b] \cap bags'[v][c] = {}
          <6> SUFFICES ASSUME NEW u \in Threads, NEW v \in Threads, NEW b \in Bags, NEW c \in Bags,
                              <<u, b>> # <<v, c>>
                       PROVE  bags'[u][b] \cap bags'[v][c] = {}
            OBVIOUS
          <6>1. bags[u][b] \cap bags[v][c] = {} /\ src \notin bags[u][b] /\ src \notin bags[v][c]
            BY DEF IInv, OwnerOK
          <6>2. /\ bags'[u][b] = IF u = t /\ b = bagI[t] THEN bags[u][b] \cup ({src} \ {NoNode}) ELSE bags[u][b]
                /\ bags'[v][c] = IF v = t /\ c = bagI[t] THEN bags[v][c] \cup ({src} \ {NoNode}) ELSE bags[v][c]
            BY <5>2
          <6>3. ~(u = t /\ b = bagI[t] /\ v = t /\ c = bagI[t])
            OBVIOUS
          <6> QED
            BY <6>1, <6>2, <6>3
        <5> QED
          BY <5>4, <5>5, <5>6, <5>7 DEF OwnerOK
      <4>2. CASE src # str[t]
        BY <2>13, <4>2 DEF IInv, SwapNode, OwnerOK
      <4> QED
        BY <4>1, <4>2
    <3>3. HeldOK'
      BY <2>13 DEF TypeOK, IInv, SwapNode, HeldOK, OwnerOK
    <3>4. AgeOK'
      <4>1. /\ \A u \in Threads : pc'[u] = "use" => u # t /\ pc[u] = "use" /\ str'[u] = str[u]
            /\ \A u \in Threads : pc'[u] \in {"set", "reset"} => u # t /\ pc[u] \in {"set", "reset"}
            /\ UNCHANGED <<loc, bagI, got, pin>>
        BY <2>13 DEF TypeOK, SwapNode
      <4>2. \A u \in Threads, b \in Bags : bags'[u][b] # bags[u][b] => u = t /\ b = bagI[t]
        <5>1. CASE src = str[t]
          <6>1. bags' = [bags EXCEPT ![t][bagI[t]] = @ \cup ({str[t]} \ {NoNode})]
            BY <2>13, <5>1 DEF SwapNode
          <6> QED
            BY <6>1 DEF TypeOK
        <5>2. CASE src # str[t]
          BY <2>13, <5>2 DEF SwapNode
        <5> QED
          BY <5>1, <5>2
      <4>3. pc'[t] = "in"
        BY <2>13 DEF TypeOK, SwapNode
      <4>4. \A u \in Threads : /\ NextBag(bagI[u]) \in Bags /\ NextBag(bagI[u]) # bagI[u]
                               /\ NextBag(NextBag(bagI[u])) \in Bags /\ NextBag(NextBag(bagI[u])) # bagI[u]
                               /\ bagI[u] \in Bags
        BY BagCycle DEF TypeOK
      <4>5. \A u \in Threads : /\ bags'[u][NextBag(bagI[u])] = bags[u][NextBag(bagI[u])]
                               /\ bags'[u][NextBag(NextBag(bagI[u]))] = bags[u][NextBag(NextBag(bagI[u]))]
                               /\ u # t => bags'[u][bagI[u]] = bags[u][bagI[u]]
        BY <4>2, <4>4
      <4> QED
        BY <4>1, <4>5 DEF IInv, AgeOK
    <3>5. DoneOK'
      BY <2>13 DEF TypeOK, IInv, SwapNode, DoneOK, Undeleted
    <3> QED
      BY <3>1, <3>2, <3>3, <3>4, <3>5 DEF IInv
  <2>14. CASE Relock(t)
    <3>1. (StampOK /\ ActiveOK /\ CheckedOK /\ EpochHeldBack)'
      BY <2>14 DEF TypeOK, IInv, Relock, StampOK, ActiveOK, CheckedOK, EpochHeldBack
    <3>2. (OwnerOK /\ HeldOK)'
      BY <2>14 DEF TypeOK, IInv, Relock, OwnerOK, HeldOK
    <3>3. AgeOK'
      BY <2>14 DEF TypeOK, IInv, Relock, AgeOK, StampOK
    <3>4. DoneOK'
      BY <2>14 DEF TypeOK, IInv, Relock, DoneOK, Undeleted
    <3> QED
      BY <3>1, <3>2, <3>3, <3>4 DEF IInv
  <2>15. CASE Leave(t)
    <3>1. (StampOK /\ ActiveOK /\ CheckedOK /\ EpochHeldBack)'
      BY <2>15 DEF TypeOK, IInv, Leave, StampOK, ActiveOK, CheckedOK, EpochHeldBack
    <3>2. (OwnerOK /\ HeldOK)'
      BY <2>15 DEF TypeOK, IInv, Leave, OwnerOK, HeldOK
    <3>3. AgeOK'
      BY <2>15 DEF TypeOK, IInv, Leave, AgeOK, StampOK
    <3>4. DoneOK'
      BY <2>15 DEF TypeOK, IInv, Leave, DoneOK, Undeleted
    <3> QED
      BY <3>1, <3>2, <3>3, <3>4 DEF IInv
  <2> QED
    BY <1>2, <2>1, <2>2, <2>3, <2>4, <2>5, <2>6, <2>7, <2>8, <2>9, <2>10, <2>11, <2>12, <2>13, <2>14, <2>15
       DEF Step
<1>3. CASE Finished
  BY <1>1, <1>3 DEF Finished
<1> QED
  BY <1>1, <1>2, <1>3 DEF Next

(* The inductive invariant holds throughout.                                *)
LEMMA Invariant == Spec => [](TypeOK /\ IInv)
<1>1. Init => TypeOK /\ IInv
  <2> SUFFICES ASSUME Init PROVE TypeOK /\ IInv
    OBVIOUS
  <2>1. TypeOK
    <3>1. 0 \in 0 .. ToSkip /\ 0 \in 0 .. ThreadsN /\ 0 # ThreadsN
      BY ToSkipAssumption, ThreadsNAssumption
    <3>2. 0 \in Bags
      BY DEF Bags, MaxBags
    <3> QED
      BY <3>1, <3>2 DEF Init, TypeOK, Pcs
  <2>2. StampOK /\ ActiveOK /\ CheckedOK /\ EpochHeldBack
    BY DEF Init, StampOK, ActiveOK, CheckedOK, EpochHeldBack
  <2>3. OwnerOK /\ HeldOK /\ AgeOK /\ DoneOK
    BY BagCycle DEF Init, OwnerOK, HeldOK, AgeOK, DoneOK
  <2> QED
    BY <2>1, <2>2, <2>3 DEF IInv
<1>2. TypeOK /\ IInv /\ [Next]_vars => (TypeOK /\ IInv)'
  BY TypeStep, InvStep DEF IInv
<1> QED
  BY <1>1, <1>2, PTL DEF Spec

(* What the inductive invariant says of the state, in the words of the      *)
(* specification.                                                           *)
LEMMA InvMeaning == TypeOK /\ IInv => LoadedIsLive /\ EpochHeldBack /\ BagsOwn /\ NothingLeft
<1> SUFFICES ASSUME TypeOK, IInv PROVE LoadedIsLive /\ EpochHeldBack /\ BagsOwn /\ NothingLeft
  OBVIOUS
<1>1. LoadedIsLive /\ EpochHeldBack
  BY DEF IInv, HeldOK, LoadedIsLive
<1>2. heap = ({src} \ {NoNode}) \cup UNION {Undeleted(bags[t]) : t \in Threads}
  <2>1. \A m : m \in UNION {Undeleted(bags[t]) : t \in Threads} <=> \E t \in Threads, b \in Bags : m \in bags[t][b]
    BY DEF Undeleted
  <2>2. NoNode \notin heap
    BY NodesAssumption DEF TypeOK
  <2> QED
    BY <2>1, <2>2 DEF IInv, OwnerOK
<1>3. BagsOwn
  BY <1>2 DEF IInv, OwnerOK, BagsOwn
<1>4. NothingLeft
  BY DEF IInv, DoneOK, NothingLeft, Undeleted
<1> QED
  BY <1>1, <1>3, <1>4

(* Type correctness of the reclamation and its client.                      *)
THEOREM TypeCorrect == Spec => []TypeOK
BY Invariant, PTL

(* No thread reads a node that has been deleted, however long it stays      *)
(* between lock() and unlock() and however stale an epoch it published.     *)
THEOREM LoadedIsLiveCorrect == Spec => []LoadedIsLive
BY Invariant, InvMeaning, PTL

(* A thread that is not idle holds the global epoch within one of the epoch *)
(* at which it published.                                                   *)
THEOREM EpochHeldBackCorrect == Spec => []EpochHeldBack
BY Invariant, InvMeaning, PTL

(* No leak and no double delete: a node is linked or in one bag of one      *)
(* thread, as long as it exists.                                            *)
THEOREM BagsOwnCorrect == Spec => []BagsOwn
BY Invariant, InvMeaning, PTL

(* to_delete_size_unsafe() is 0 after the last retire_sync().               *)
THEOREM NothingLeftCorrect == Spec => []NothingLeft
BY Invariant, InvMeaning, PTL

(* All of it, as the run of the small instance checks it.                   *)
THEOREM EpochHoldsCorrect == Spec => []EpochHolds
BY Invariant, InvMeaning, PTL DEF EpochHolds
(* What the threads of a program are: finitely many workers, at least one,  *)
(* that are no writers.                                                     *)
SleepyThreadsOK ==
  /\ IsFiniteSet(Workers) /\ Workers # {} /\ Workers \cap Writers = {}
  /\ Sleepy!Nobody \notin Workers \cup Writers
  /\ IsFiniteSet(Writers) /\ EndPos \in Nat /\ WriteCnt \in Nat \ {0}


(* Threads of the eager waiter, and the numbers of its rounds.              *)
EagerThreadsOK ==
  /\ IsFiniteSet(EagerWriters) /\ EagerWorkers \cap EagerWriters = {}
  /\ Eager!Nobody \notin EagerWorkers \cup EagerWriters
  /\ EagerWriteCnt \in Nat \ {0} /\ EagerEndPos \in Nat
  /\ RoundsTillSleepy \in Nat /\ RoundsTillAsleep \in Nat /\ RoundsTillSleepy < RoundsTillAsleep


----------------------------------------------------------------------------
(* What both waiters' threads have read and published.                      *)

(* What the writers P have published, each its c[p] of at most K times.     *)
Units(P, K, c) == {e \in P \X (1 .. K) : e[2] <= c[e[1]]}

(* The positions r and y[v] of readers W, and how often writers P at l have *)
(* published; A is where the writers are inside notify().                   *)
ClientAt(W, P, K, E, A, l, n, r, y, c) ==
  /\ r \in 0 .. E /\ y \in [W -> 0 .. E] /\ c \in [P -> 0 .. K]
  /\ n = Cardinality(Units(P, K, c))
  /\ \A v \in W : l[v] = "take" => y[v] # E
  /\ \A p \in P : l[p] \in A \cup {"publish", "done"} /\ (l[p] = "publish" => c[p] < K)

(* The count of the writer a goes up by one, which is still allowed.        *)
OneMore(P, K, a, c, d) ==
  /\ c \in [P -> 0 .. K] /\ d \in [P -> 0 .. K] /\ c[a] < K
  /\ \A p \in P : d[p] = IF p = a THEN c[p] + 1 ELSE c[p]

(* A writer's step publishes one unit of work more.                         *)
LEMMA UnitsGrow ==
  ASSUME NEW P, IsFiniteSet(P), NEW K \in Nat, NEW c, NEW d, NEW p \in P, OneMore(P, K, p, c, d)
  PROVE  Cardinality(Units(P, K, d)) = Cardinality(Units(P, K, c)) + 1
<1> DEFINE S == Units(P, K, c)
           T == Units(P, K, d)
           e == <<p, c[p] + 1>>
<1>1. /\ d \in [P -> 0 .. K] /\ c \in [P -> 0 .. K] /\ c[p] \in 0 .. K /\ c[p] < K
      /\ d[p] = c[p] + 1 /\ \A q \in P : q # p => d[q] = c[q]
  BY DEF OneMore
<1>2. e \notin S /\ T = S \cup {e}
  <2>1. e \in P \X (1 .. K) /\ e[1] = p /\ e[2] = c[p] + 1
    BY <1>1
  <2>2. \A a \in P \X (1 .. K) : a[1] \in P /\ a[2] \in 1 .. K /\ a = <<a[1], a[2]>>
    OBVIOUS
  <2>3. \A a \in P \X (1 .. K) : a[2] <= d[a[1]] <=> a[2] <= c[a[1]] \/ a = e
    <3> SUFFICES ASSUME NEW a \in P \X (1 .. K) PROVE a[2] <= d[a[1]] <=> a[2] <= c[a[1]] \/ a = e
      OBVIOUS
    <3>1. CASE a[1] = p
      BY <1>1, <2>2, <3>1
    <3>2. CASE a[1] # p
      BY <1>1, <2>2, <3>2
    <3> QED
      BY <3>1, <3>2
  <2> QED
    BY <1>1, <2>1, <2>3 DEF Units
<1>3. IsFiniteSet(S)
  <2>1. S \in SUBSET (P \X (1 .. K))
    BY DEF Units
  <2>2. IsFiniteSet(1 .. K)
    BY FS_Interval
  <2> QED
    BY <2>1, <2>2, FS_Product, FS_Subset
<1> HIDE DEF S, T, e
<1> QED
  <2>1. Cardinality(T) = Cardinality(S) + 1
    BY <1>2, <1>3, FS_AddElement
  <2> QED
    BY <1>1, <2>1 DEF S, T

(* It is never more than all of them may publish.                           *)
LEMMA UnitsBound ==
  ASSUME NEW P, IsFiniteSet(P), NEW K \in Nat, NEW c
  PROVE  Cardinality(Units(P, K, c)) \in 0 .. K * Cardinality(P)
<1>1. Units(P, K, c) \in SUBSET (P \X (1 .. K))
  BY DEF Units
<1>2. IsFiniteSet(1 .. K) /\ Cardinality(1 .. K) = K
  BY FS_Interval
<1>3. IsFiniteSet(P \X (1 .. K)) /\ Cardinality(P \X (1 .. K)) = Cardinality(P) * K
  BY <1>2, FS_Product
<1>4. Cardinality(Units(P, K, c)) <= Cardinality(P) * K /\ IsFiniteSet(Units(P, K, c))
  BY <1>1, <1>3, FS_Subset
<1>5. Cardinality(Units(P, K, c)) \in Nat /\ Cardinality(P) \in Nat
  BY <1>4, FS_CardinalityType
<1>6. Cardinality(P) * K = K * Cardinality(P)
  BY <1>5
<1> QED
  BY <1>4, <1>5, <1>6

(* The waiter sends threads on from l to k as the client may go on: to take *)
(* only from a position that is not the end, and to publish only what is    *)
(* left to publish.                                                         *)
Goes(W, P, K, E, A, l, y, c, k) ==
  /\ \A v \in W : k[v] = "take" => l[v] = "take" \/ y[v] # E
  /\ \A p \in P : k[p] # l[p] => k[p] \in A \cup {"publish", "done"} /\ (k[p] = "publish" => c[p] < K)

(* Steps of the waiter leave the client's variables alone.                  *)
LEMMA ClientWaits ==
  ASSUME NEW W, NEW P, NEW K, NEW E, NEW A, NEW l, NEW n, NEW r, NEW y, NEW c, NEW k,
         ClientAt(W, P, K, E, A, l, n, r, y, c), Goes(W, P, K, E, A, l, y, c, k)
  PROVE  ClientAt(W, P, K, E, A, k, n, r, y, c)
BY DEF ClientAt, Goes

(* The threads other than a stay where they are.                            *)
Only(W, P, a, l, k) == \A b \in W \cup P : b # a => k[b] = l[b]

(* Steps of the client: a reader looks, compares or takes.                  *)
LEMMA ClientReads ==
  ASSUME NEW W, NEW P, NEW K \in Nat, NEW E \in Nat, NEW A, NEW l, NEW n, NEW r, NEW y, NEW c,
         NEW k, NEW s, NEW z, NEW a \in W, W \cap P = {},
         ClientAt(W, P, K, E, A, l, n, r, y, c), Only(W, P, a, l, k), k[a] # "take",
         \/ z = [y EXCEPT ![a] = r] /\ s = r
         \/ z = y /\ s = r
         \/ z = y /\ l[a] = "take" /\ s \in {r, y[a] + 1}
  PROVE  ClientAt(W, P, K, E, A, k, n, s, z, c)
<1>1. /\ r \in 0 .. E /\ y \in [W -> 0 .. E] /\ c \in [P -> 0 .. K]
      /\ n = Cardinality(Units(P, K, c))
      /\ \A v \in W : l[v] = "take" => y[v] # E
      /\ \A p \in P : l[p] \in A \cup {"publish", "done"} /\ (l[p] = "publish" => c[p] < K)
      /\ \A v \in W : v # a => k[v] = l[v]
      /\ \A p \in P : k[p] = l[p]
  BY DEF ClientAt, Only
<1>2. s \in 0 .. E
  BY <1>1
<1>3. z \in [W -> 0 .. E] /\ \A v \in W : v # a => z[v] = y[v]
  BY <1>1
<1> QED
  BY <1>1, <1>2, <1>3 DEF ClientAt

(* A writer publishes, and goes to notify().                                *)
LEMMA ClientWrites ==
  ASSUME NEW W, NEW P, NEW K \in Nat, NEW E \in Nat, NEW A, NEW l, NEW n, NEW r, NEW y, NEW c,
         NEW k, NEW m, NEW d, NEW a \in P, IsFiniteSet(P), W \cap P = {}, "notify" \in A,
         ClientAt(W, P, K, E, A, l, n, r, y, c), Only(W, P, a, l, k), k[a] = "notify",
         OneMore(P, K, a, c, d), m = n + 1
  PROVE  ClientAt(W, P, K, E, A, k, m, r, y, d)
<1>1. /\ r \in 0 .. E /\ y \in [W -> 0 .. E] /\ d \in [P -> 0 .. K]
      /\ n = Cardinality(Units(P, K, c))
      /\ \A v \in W : l[v] = "take" => y[v] # E
      /\ \A p \in P : l[p] \in A \cup {"publish", "done"} /\ (l[p] = "publish" => c[p] < K)
      /\ \A v \in W : k[v] = l[v]
      /\ \A p \in P : p # a => k[p] = l[p] /\ d[p] = c[p]
  BY DEF ClientAt, Only, OneMore
<1>2. Cardinality(Units(P, K, d)) = Cardinality(Units(P, K, c)) + 1
  BY UnitsGrow
<1> QED
  BY <1>1, <1>2 DEF ClientAt

(* The client of the sleepy waiter, in its own variables.                   *)
SleepyClient == ClientAt(Workers, Writers, WriteCnt, EndPos, Sleepy!NotifyPcs, wpc, writePos, readPos, pos, cnt)

(* A step of any thread of the sleepy waiter keeps its client in order.     *)
LEMMA SleepyClientStep == ASSUME SleepyThreadsOK, Sleepy!IInv, SleepyClient, Sleepy!Next PROVE SleepyClient'
<1>t. wpc \in [Sleepy!Procs -> Sleepy!WorkerPcs \cup Sleepy!NotifyPcs \cup {"publish", "done"}]
  BY DEF Sleepy!IInv, Sleepy!Types
<1>c. /\ ClientAt(Workers, Writers, WriteCnt, EndPos, Sleepy!NotifyPcs, wpc, writePos, readPos, pos, cnt)
      /\ readPos \in 0 .. EndPos /\ pos \in [Workers -> 0 .. EndPos] /\ cnt \in [Writers -> 0 .. WriteCnt]
  BY DEF SleepyClient, ClientAt
<1>p. /\ EndPos \in Nat /\ WriteCnt \in Nat /\ IsFiniteSet(Writers) /\ Workers \cap Writers = {}
      /\ "notify" \in Sleepy!NotifyPcs /\ "take" \notin Sleepy!NotifyPcs
      /\ \A v \in Workers : v \in Sleepy!Procs /\ v \notin Writers
      /\ \A p \in Writers : p \in Sleepy!Procs /\ p \notin Workers
      /\ \A p \in Sleepy!Procs : p \in Workers \/ p \in Writers
  BY DEF SleepyThreadsOK, Sleepy!Procs, Sleepy!NotifyPcs
<1>g. ASSUME writePos' = writePos, readPos' = readPos, pos' = pos, cnt' = cnt,
             Goes(Workers, Writers, WriteCnt, EndPos, Sleepy!NotifyPcs, wpc, pos, cnt, wpc')
      PROVE  SleepyClient'
  <2>1. writePos' = writePos /\ readPos' = readPos /\ pos' = pos /\ cnt' = cnt
    BY <1>g
  <2>2. ClientAt(Workers, Writers, WriteCnt, EndPos, Sleepy!NotifyPcs, wpc', writePos, readPos, pos, cnt)
    BY <1>c, <1>g, ClientWaits
  <2> QED
    BY <2>1, <2>2 DEF SleepyClient
<1>1. ASSUME NEW w \in Workers, Sleepy!Look(w) PROVE SleepyClient'
  <2>1. writePos' = writePos /\ readPos' = readPos /\ pos' = [pos EXCEPT ![w] = readPos] /\ cnt' = cnt
    BY <1>1 DEF Sleepy!Look
  <2>2. wpc'[w] # "take" /\ Only(Workers, Writers, w, wpc, wpc')
    BY <1>1, <1>t, <1>p DEF Sleepy!Look, Sleepy!Goto, Only
  <2> QED
    BY <1>c, <1>p, <2>1, <2>2, ClientReads DEF SleepyClient
<1>2. ASSUME NEW w \in Workers, Sleepy!Compare(w) PROVE SleepyClient'
  <2>1. writePos' = writePos /\ readPos' = readPos /\ pos' = pos /\ cnt' = cnt
    BY <1>2 DEF Sleepy!Compare, Sleepy!clientVars
  <2>2. wpc'[w] # "take" /\ Only(Workers, Writers, w, wpc, wpc')
    BY <1>2, <1>t, <1>p DEF Sleepy!Compare, Sleepy!Goto, Only
  <2> QED
    BY <1>c, <1>p, <2>1, <2>2, ClientReads DEF SleepyClient
<1>3. ASSUME NEW w \in Workers, Sleepy!Take(w) PROVE SleepyClient'
  <2>1. writePos' = writePos /\ readPos' \in {readPos, pos[w] + 1} /\ pos' = pos /\ cnt' = cnt
    BY <1>3 DEF Sleepy!Take
  <2>2. wpc[w] = "take" /\ wpc'[w] # "take" /\ Only(Workers, Writers, w, wpc, wpc')
    BY <1>3, <1>t, <1>p DEF Sleepy!Take, Sleepy!Goto, Only
  <2> QED
    BY <1>c, <1>p, <2>1, <2>2, ClientReads DEF SleepyClient
<1>4. ASSUME NEW p \in Writers, Sleepy!Publish(p) PROVE SleepyClient'
  <2>1. writePos' = writePos + 1 /\ readPos' = readPos /\ pos' = pos /\ cnt' = [cnt EXCEPT ![p] = cnt[p] + 1]
    BY <1>4 DEF Sleepy!Publish
  <2>3. OneMore(Writers, WriteCnt, p, cnt, cnt')
    <3>1. cnt[p] < WriteCnt
      BY <1>4, <1>c DEF Sleepy!Publish, ClientAt
    <3> QED
      BY <1>c, <1>p, <2>1, <3>1 DEF OneMore
  <2>2. wpc[p] = "publish" /\ wpc'[p] = "notify" /\ Only(Workers, Writers, p, wpc, wpc')
    BY <1>4, <1>t, <1>p DEF Sleepy!Publish, Sleepy!Goto, Only
  <2> QED
    BY <1>c, <1>p, <2>1, <2>2, <2>3, ClientWrites DEF SleepyClient
<1>5. ASSUME NEW w \in Workers, Sleepy!WaitFromWork(w) PROVE SleepyClient'
  <2>1. writePos' = writePos /\ readPos' = readPos /\ pos' = pos /\ cnt' = cnt
    BY <1>5 DEF Sleepy!WaitFromWork, Sleepy!clientVars
  <2>2. (wpc'[w] = "take" => pos[w] # EndPos) /\ \A q \in Sleepy!Procs : q # w => wpc'[q] = wpc[q]
    BY <1>5, <1>t, <1>p DEF Sleepy!WaitFromWork, Sleepy!Goto
  <2>3. Goes(Workers, Writers, WriteCnt, EndPos, Sleepy!NotifyPcs, wpc, pos, cnt, wpc')
    BY <1>p, <2>2 DEF Goes
  <2> QED
    BY <1>g, <2>1, <2>3
<1>6. ASSUME NEW w \in Workers, Sleepy!WaitFromSearch(w) PROVE SleepyClient'
  <2>1. writePos' = writePos /\ readPos' = readPos /\ pos' = pos /\ cnt' = cnt
    BY <1>6 DEF Sleepy!WaitFromSearch, Sleepy!clientVars
  <2>2. (wpc'[w] = "take" => pos[w] # EndPos) /\ \A q \in Sleepy!Procs : q # w => wpc'[q] = wpc[q]
    BY <1>6, <1>t, <1>p DEF Sleepy!WaitFromSearch, Sleepy!Goto
  <2>3. Goes(Workers, Writers, WriteCnt, EndPos, Sleepy!NotifyPcs, wpc, pos, cnt, wpc')
    BY <1>p, <2>2 DEF Goes
  <2> QED
    BY <1>g, <2>1, <2>3
<1>7. ASSUME NEW w \in Workers, Sleepy!WaitFromSleep(w) PROVE SleepyClient'
  <2>1. writePos' = writePos /\ readPos' = readPos /\ pos' = pos /\ cnt' = cnt
    BY <1>7 DEF Sleepy!WaitFromSleep, Sleepy!clientVars
  <2>2. (wpc'[w] = "take" => pos[w] # EndPos) /\ \A q \in Sleepy!Procs : q # w => wpc'[q] = wpc[q]
    BY <1>7, <1>t, <1>p DEF Sleepy!WaitFromSleep, Sleepy!Goto
  <2>3. Goes(Workers, Writers, WriteCnt, EndPos, Sleepy!NotifyPcs, wpc, pos, cnt, wpc')
    BY <1>p, <2>2 DEF Goes
  <2> QED
    BY <1>g, <2>1, <2>3
<1>8. ASSUME NEW w \in Workers, Sleepy!Enlist(w) PROVE SleepyClient'
  <2>1. writePos' = writePos /\ readPos' = readPos /\ pos' = pos /\ cnt' = cnt
    BY <1>8 DEF Sleepy!Enlist, Sleepy!clientVars
  <2>2. (wpc'[w] = "take" => pos[w] # EndPos) /\ \A q \in Sleepy!Procs : q # w => wpc'[q] = wpc[q]
    BY <1>8, <1>t, <1>p DEF Sleepy!Enlist, Sleepy!Goto
  <2>3. Goes(Workers, Writers, WriteCnt, EndPos, Sleepy!NotifyPcs, wpc, pos, cnt, wpc')
    BY <1>p, <2>2 DEF Goes
  <2> QED
    BY <1>g, <2>1, <2>3
<1>9. ASSUME NEW w \in Workers, Sleepy!Park(w) PROVE SleepyClient'
  <2>1. writePos' = writePos /\ readPos' = readPos /\ pos' = pos /\ cnt' = cnt
    BY <1>9 DEF Sleepy!Park, Sleepy!clientVars
  <2>2. (wpc'[w] = "take" => pos[w] # EndPos) /\ \A q \in Sleepy!Procs : q # w => wpc'[q] = wpc[q]
    BY <1>9, <1>t, <1>p DEF Sleepy!Park, Sleepy!Goto
  <2>3. Goes(Workers, Writers, WriteCnt, EndPos, Sleepy!NotifyPcs, wpc, pos, cnt, wpc')
    BY <1>p, <2>2 DEF Goes
  <2> QED
    BY <1>g, <2>1, <2>3
<1>10. ASSUME NEW w \in Workers, Sleepy!StopFromWork(w) PROVE SleepyClient'
  <2>1. writePos' = writePos /\ readPos' = readPos /\ pos' = pos /\ cnt' = cnt
    BY <1>10 DEF Sleepy!StopFromWork, Sleepy!clientVars
  <2>2. (wpc'[w] = "take" => pos[w] # EndPos) /\ \A q \in Sleepy!Procs : q # w => wpc'[q] = wpc[q]
    BY <1>10, <1>t, <1>p DEF Sleepy!StopFromWork, Sleepy!Goto, Sleepy!AfterStop
  <2>3. Goes(Workers, Writers, WriteCnt, EndPos, Sleepy!NotifyPcs, wpc, pos, cnt, wpc')
    BY <1>p, <2>2 DEF Goes
  <2> QED
    BY <1>g, <2>1, <2>3
<1>11. ASSUME NEW w \in Workers, Sleepy!StopFromSearch(w) PROVE SleepyClient'
  <2>1. writePos' = writePos /\ readPos' = readPos /\ pos' = pos /\ cnt' = cnt
    BY <1>11 DEF Sleepy!StopFromSearch, Sleepy!clientVars
  <2>2. (wpc'[w] = "take" => pos[w] # EndPos) /\ \A q \in Sleepy!Procs : q # w => wpc'[q] = wpc[q]
    BY <1>11, <1>t, <1>p DEF Sleepy!StopFromSearch, Sleepy!Goto
  <2>3. Goes(Workers, Writers, WriteCnt, EndPos, Sleepy!NotifyPcs, wpc, pos, cnt, wpc')
    BY <1>p, <2>2 DEF Goes
  <2> QED
    BY <1>g, <2>1, <2>3
<1>12. ASSUME NEW w \in Workers, Sleepy!StopFromSleep(w) PROVE SleepyClient'
  <2>1. writePos' = writePos /\ readPos' = readPos /\ pos' = pos /\ cnt' = cnt
    BY <1>12 DEF Sleepy!StopFromSleep, Sleepy!clientVars
  <2>2. (wpc'[w] = "take" => pos[w] # EndPos) /\ \A q \in Sleepy!Procs : q # w => wpc'[q] = wpc[q]
    BY <1>12, <1>t, <1>p DEF Sleepy!StopFromSleep, Sleepy!Goto
  <2>3. Goes(Workers, Writers, WriteCnt, EndPos, Sleepy!NotifyPcs, wpc, pos, cnt, wpc')
    BY <1>p, <2>2 DEF Goes
  <2> QED
    BY <1>g, <2>1, <2>3
<1>13. ASSUME NEW w \in Workers, Sleepy!Delist(w) PROVE SleepyClient'
  <2>1. writePos' = writePos /\ readPos' = readPos /\ pos' = pos /\ cnt' = cnt
    BY <1>13 DEF Sleepy!Delist, Sleepy!clientVars
  <2>2. (wpc'[w] = "take" => pos[w] # EndPos) /\ \A q \in Sleepy!Procs : q # w => wpc'[q] = wpc[q]
    BY <1>13, <1>t, <1>p DEF Sleepy!Delist, Sleepy!Goto
  <2>3. Goes(Workers, Writers, WriteCnt, EndPos, Sleepy!NotifyPcs, wpc, pos, cnt, wpc')
    BY <1>p, <2>2 DEF Goes
  <2> QED
    BY <1>g, <2>1, <2>3
<1>14. ASSUME NEW w \in Workers, Sleepy!CancelPark(w) PROVE SleepyClient'
  <2>1. writePos' = writePos /\ readPos' = readPos /\ pos' = pos /\ cnt' = cnt
    BY <1>14 DEF Sleepy!CancelPark, Sleepy!clientVars
  <2>2. (wpc'[w] = "take" => pos[w] # EndPos) /\ \A q \in Sleepy!Procs : q # w => wpc'[q] = wpc[q]
    BY <1>14, <1>t, <1>p DEF Sleepy!CancelPark, Sleepy!Goto
  <2>3. Goes(Workers, Writers, WriteCnt, EndPos, Sleepy!NotifyPcs, wpc, pos, cnt, wpc')
    BY <1>p, <2>2 DEF Goes
  <2> QED
    BY <1>g, <2>1, <2>3
<1>15. ASSUME NEW w \in Workers, Sleepy!Leave(w) PROVE SleepyClient'
  <2>1. writePos' = writePos /\ readPos' = readPos /\ pos' = pos /\ cnt' = cnt
    BY <1>15 DEF Sleepy!Leave, Sleepy!clientVars
  <2>2. (wpc'[w] = "take" => pos[w] # EndPos) /\ \A q \in Sleepy!Procs : q # w => wpc'[q] = wpc[q]
    BY <1>15, <1>t, <1>p DEF Sleepy!Leave, Sleepy!Goto, Sleepy!AfterStop
  <2>3. Goes(Workers, Writers, WriteCnt, EndPos, Sleepy!NotifyPcs, wpc, pos, cnt, wpc')
    BY <1>p, <2>2 DEF Goes
  <2> QED
    BY <1>g, <2>1, <2>3
<1>16. ASSUME NEW a \in Sleepy!Procs, Sleepy!NotifySkip(a) PROVE SleepyClient'
  <2>1. writePos' = writePos /\ readPos' = readPos /\ pos' = pos /\ cnt' = cnt
    BY <1>16 DEF Sleepy!NotifySkip, Sleepy!clientVars
  <2>2. /\ a \in Workers /\ wpc'[a] = "take" => pos[a] # EndPos
        /\ a \in Writers => wpc'[a] \in Sleepy!NotifyPcs \cup {"publish", "done"}
        /\ a \in Writers /\ wpc'[a] = "publish" => cnt[a] < WriteCnt
        /\ \A q \in Sleepy!Procs : q # a => wpc'[q] = wpc[q]
    BY <1>16, <1>t, <1>p DEF Sleepy!NotifySkip, Sleepy!ReturnFromNotify, Sleepy!Goto, Sleepy!AfterNotify,
       Sleepy!AfterStop, Sleepy!NotifyPcs
  <2>3. Goes(Workers, Writers, WriteCnt, EndPos, Sleepy!NotifyPcs, wpc, pos, cnt, wpc')
    BY <1>p, <2>2 DEF Goes
  <2> QED
    BY <1>g, <2>1, <2>3
<1>17. ASSUME NEW a \in Sleepy!Procs, Sleepy!NotifySlow(a) PROVE SleepyClient'
  <2>1. writePos' = writePos /\ readPos' = readPos /\ pos' = pos /\ cnt' = cnt
    BY <1>17 DEF Sleepy!NotifySlow, Sleepy!clientVars
  <2>2. /\ a \in Workers /\ wpc'[a] = "take" => pos[a] # EndPos
        /\ a \in Writers => wpc'[a] \in Sleepy!NotifyPcs \cup {"publish", "done"}
        /\ a \in Writers /\ wpc'[a] = "publish" => cnt[a] < WriteCnt
        /\ \A q \in Sleepy!Procs : q # a => wpc'[q] = wpc[q]
    BY <1>17, <1>t, <1>p DEF Sleepy!NotifySlow, Sleepy!Goto, Sleepy!NotifyPcs
  <2>3. Goes(Workers, Writers, WriteCnt, EndPos, Sleepy!NotifyPcs, wpc, pos, cnt, wpc')
    BY <1>p, <2>2 DEF Goes
  <2> QED
    BY <1>g, <2>1, <2>3
<1>18. ASSUME NEW a \in Sleepy!Procs, Sleepy!NotifyLock(a) PROVE SleepyClient'
  <2>1. writePos' = writePos /\ readPos' = readPos /\ pos' = pos /\ cnt' = cnt
    BY <1>18 DEF Sleepy!NotifyLock, Sleepy!clientVars
  <2>2. /\ a \in Workers /\ wpc'[a] = "take" => pos[a] # EndPos
        /\ a \in Writers => wpc'[a] \in Sleepy!NotifyPcs \cup {"publish", "done"}
        /\ a \in Writers /\ wpc'[a] = "publish" => cnt[a] < WriteCnt
        /\ \A q \in Sleepy!Procs : q # a => wpc'[q] = wpc[q]
    BY <1>18, <1>t, <1>p DEF Sleepy!NotifyLock, Sleepy!Goto, Sleepy!NotifyPcs
  <2>3. Goes(Workers, Writers, WriteCnt, EndPos, Sleepy!NotifyPcs, wpc, pos, cnt, wpc')
    BY <1>p, <2>2 DEF Goes
  <2> QED
    BY <1>g, <2>1, <2>3
<1>19. ASSUME NEW a \in Sleepy!Procs, Sleepy!NotifyGiveUp(a) PROVE SleepyClient'
  <2>1. writePos' = writePos /\ readPos' = readPos /\ pos' = pos /\ cnt' = cnt
    BY <1>19 DEF Sleepy!NotifyGiveUp, Sleepy!clientVars
  <2>2. /\ a \in Workers /\ wpc'[a] = "take" => pos[a] # EndPos
        /\ a \in Writers => wpc'[a] \in Sleepy!NotifyPcs \cup {"publish", "done"}
        /\ a \in Writers /\ wpc'[a] = "publish" => cnt[a] < WriteCnt
        /\ \A q \in Sleepy!Procs : q # a => wpc'[q] = wpc[q]
    BY <1>19, <1>t, <1>p DEF Sleepy!NotifyGiveUp, Sleepy!ReturnFromNotify, Sleepy!Goto, Sleepy!AfterNotify,
       Sleepy!AfterStop, Sleepy!NotifyPcs
  <2>3. Goes(Workers, Writers, WriteCnt, EndPos, Sleepy!NotifyPcs, wpc, pos, cnt, wpc')
    BY <1>p, <2>2 DEF Goes
  <2> QED
    BY <1>g, <2>1, <2>3
<1>20. ASSUME NEW a \in Sleepy!Procs, Sleepy!NotifyChoose(a) PROVE SleepyClient'
  <2>1. writePos' = writePos /\ readPos' = readPos /\ pos' = pos /\ cnt' = cnt
    BY <1>20 DEF Sleepy!NotifyChoose, Sleepy!clientVars
  <2>2. /\ a \in Workers /\ wpc'[a] = "take" => pos[a] # EndPos
        /\ a \in Writers => wpc'[a] \in Sleepy!NotifyPcs \cup {"publish", "done"}
        /\ a \in Writers /\ wpc'[a] = "publish" => cnt[a] < WriteCnt
        /\ \A q \in Sleepy!Procs : q # a => wpc'[q] = wpc[q]
    BY <1>20, <1>t, <1>p DEF Sleepy!NotifyChoose, Sleepy!Goto, Sleepy!NotifyPcs
  <2>3. Goes(Workers, Writers, WriteCnt, EndPos, Sleepy!NotifyPcs, wpc, pos, cnt, wpc')
    BY <1>p, <2>2 DEF Goes
  <2> QED
    BY <1>g, <2>1, <2>3
<1>21. ASSUME NEW a \in Sleepy!Procs, Sleepy!NotifyPop(a) PROVE SleepyClient'
  <2>1. writePos' = writePos /\ readPos' = readPos /\ pos' = pos /\ cnt' = cnt
    BY <1>21 DEF Sleepy!NotifyPop, Sleepy!clientVars
  <2>2. /\ a \in Workers /\ wpc'[a] = "take" => pos[a] # EndPos
        /\ a \in Writers => wpc'[a] \in Sleepy!NotifyPcs \cup {"publish", "done"}
        /\ a \in Writers /\ wpc'[a] = "publish" => cnt[a] < WriteCnt
        /\ \A q \in Sleepy!Procs : q # a => wpc'[q] = wpc[q]
    BY <1>21, <1>t, <1>p DEF Sleepy!NotifyPop, Sleepy!Goto, Sleepy!NotifyPcs
  <2>3. Goes(Workers, Writers, WriteCnt, EndPos, Sleepy!NotifyPcs, wpc, pos, cnt, wpc')
    BY <1>p, <2>2 DEF Goes
  <2> QED
    BY <1>g, <2>1, <2>3
<1>22. ASSUME NEW a \in Sleepy!Procs, Sleepy!Unpark(a) PROVE SleepyClient'
  <2>1. writePos' = writePos /\ readPos' = readPos /\ pos' = pos /\ cnt' = cnt
    BY <1>22 DEF Sleepy!Unpark, Sleepy!clientVars
  <2>2. /\ a \in Workers /\ wpc'[a] = "take" => pos[a] # EndPos
        /\ a \in Writers => wpc'[a] \in Sleepy!NotifyPcs \cup {"publish", "done"}
        /\ a \in Writers /\ wpc'[a] = "publish" => cnt[a] < WriteCnt
        /\ \A q \in Sleepy!Procs : q # a => wpc'[q] = wpc[q]
    BY <1>22, <1>t, <1>p DEF Sleepy!Unpark, Sleepy!ReturnFromNotify, Sleepy!Goto, Sleepy!AfterNotify,
       Sleepy!AfterStop, Sleepy!NotifyPcs
  <2>3. Goes(Workers, Writers, WriteCnt, EndPos, Sleepy!NotifyPcs, wpc, pos, cnt, wpc')
    BY <1>p, <2>2 DEF Goes
  <2> QED
    BY <1>g, <2>1, <2>3
<1>23. CASE Sleepy!Finished
  BY <1>23 DEF Sleepy!Finished, Sleepy!vars, Sleepy!clientVars, SleepyClient
<1> QED
  BY <1>p, <1>1, <1>2, <1>3, <1>4, <1>5, <1>6, <1>7, <1>8, <1>9, <1>10, <1>11, <1>12, <1>13, <1>14, <1>15,
     <1>16, <1>17, <1>18, <1>19, <1>20, <1>21, <1>22, <1>23 DEF Sleepy!Next, Sleepy!ClientCalls,
     Sleepy!ClientStep, Sleepy!Worker, Sleepy!Notify

(* The client of the eager waiter, in its own variables.                   *)
EagerClient ==
  ClientAt(EagerWorkers, EagerWriters, EagerWriteCnt, EagerEndPos, Eager!NotifyPcs,
           wpc, writePos, readPos, pos, cnt)

(* A step of any thread of the eager waiter keeps its client in order.     *)
LEMMA EagerClientStep == ASSUME EagerThreadsOK, Eager!IInv, EagerClient, Eager!Next PROVE EagerClient'
<1>t. wpc \in [Eager!Procs -> Eager!WorkerPcs \cup Eager!NotifyPcs \cup {"publish", "done"}]
  BY DEF Eager!IInv, Eager!Types
<1>c. /\ ClientAt(EagerWorkers, EagerWriters, EagerWriteCnt, EagerEndPos, Eager!NotifyPcs,
                  wpc, writePos, readPos, pos, cnt)
      /\ readPos \in 0 .. EagerEndPos
      /\ pos \in [EagerWorkers -> 0 .. EagerEndPos] /\ cnt \in [EagerWriters -> 0 .. EagerWriteCnt]
  BY DEF EagerClient, ClientAt
<1>p. /\ EagerEndPos \in Nat /\ EagerWriteCnt \in Nat
      /\ IsFiniteSet(EagerWriters) /\ EagerWorkers \cap EagerWriters = {}
      /\ "notify" \in Eager!NotifyPcs /\ "take" \notin Eager!NotifyPcs
      /\ \A v \in EagerWorkers : v \in Eager!Procs /\ v \notin EagerWriters
      /\ \A p \in EagerWriters : p \in Eager!Procs /\ p \notin EagerWorkers
      /\ \A p \in Eager!Procs : p \in EagerWorkers \/ p \in EagerWriters
  BY DEF EagerThreadsOK, Eager!Procs, Eager!NotifyPcs
<1>g. ASSUME writePos' = writePos, readPos' = readPos, pos' = pos, cnt' = cnt,
             Goes(EagerWorkers, EagerWriters, EagerWriteCnt, EagerEndPos, Eager!NotifyPcs,
                  wpc, pos, cnt, wpc')
      PROVE  EagerClient'
  <2>1. writePos' = writePos /\ readPos' = readPos /\ pos' = pos /\ cnt' = cnt
    BY <1>g
  <2>2. ClientAt(EagerWorkers, EagerWriters, EagerWriteCnt, EagerEndPos, Eager!NotifyPcs,
                 wpc', writePos, readPos, pos, cnt)
    BY <1>c, <1>g, ClientWaits
  <2> QED
    BY <2>1, <2>2 DEF EagerClient
<1>1. ASSUME NEW w \in EagerWorkers, Eager!Look(w) PROVE EagerClient'
  <2>1. writePos' = writePos /\ readPos' = readPos /\ pos' = [pos EXCEPT ![w] = readPos] /\ cnt' = cnt
    BY <1>1 DEF Eager!Look
  <2>2. wpc'[w] # "take" /\ Only(EagerWorkers, EagerWriters, w, wpc, wpc')
    BY <1>1, <1>t, <1>p DEF Eager!Look, Eager!Goto, Only
  <2> QED
    BY <1>c, <1>p, <2>1, <2>2, ClientReads DEF EagerClient
<1>2. ASSUME NEW w \in EagerWorkers, Eager!Compare(w) PROVE EagerClient'
  <2>1. writePos' = writePos /\ readPos' = readPos /\ pos' = pos /\ cnt' = cnt
    BY <1>2 DEF Eager!Compare, Eager!clientVars
  <2>2. wpc'[w] # "take" /\ Only(EagerWorkers, EagerWriters, w, wpc, wpc')
    BY <1>2, <1>t, <1>p DEF Eager!Compare, Eager!Goto, Only
  <2> QED
    BY <1>c, <1>p, <2>1, <2>2, ClientReads DEF EagerClient
<1>3. ASSUME NEW w \in EagerWorkers, Eager!Take(w) PROVE EagerClient'
  <2>1. writePos' = writePos /\ readPos' \in {readPos, pos[w] + 1} /\ pos' = pos /\ cnt' = cnt
    BY <1>3 DEF Eager!Take
  <2>2. wpc[w] = "take" /\ wpc'[w] # "take" /\ Only(EagerWorkers, EagerWriters, w, wpc, wpc')
    BY <1>3, <1>t, <1>p DEF Eager!Take, Eager!Goto, Only
  <2> QED
    BY <1>c, <1>p, <2>1, <2>2, ClientReads DEF EagerClient
<1>4. ASSUME NEW p \in EagerWriters, Eager!Publish(p) PROVE EagerClient'
  <2>1. writePos' = writePos + 1 /\ readPos' = readPos /\ pos' = pos /\ cnt' = [cnt EXCEPT ![p] = cnt[p] + 1]
    BY <1>4 DEF Eager!Publish
  <2>3. OneMore(EagerWriters, EagerWriteCnt, p, cnt, cnt')
    <3>1. cnt[p] < EagerWriteCnt
      BY <1>4, <1>c DEF Eager!Publish, ClientAt
    <3> QED
      BY <1>c, <1>p, <2>1, <3>1 DEF OneMore
  <2>2. wpc[p] = "publish" /\ wpc'[p] = "notify" /\ Only(EagerWorkers, EagerWriters, p, wpc, wpc')
    BY <1>4, <1>t, <1>p DEF Eager!Publish, Eager!Goto, Only
  <2> QED
    BY <1>c, <1>p, <2>1, <2>2, <2>3, ClientWrites DEF EagerClient
<1>5. ASSUME NEW w \in EagerWorkers, Eager!WaitSpin(w) PROVE EagerClient'
  <2>1. writePos' = writePos /\ readPos' = readPos /\ pos' = pos /\ cnt' = cnt
    BY <1>5 DEF Eager!WaitSpin, Eager!clientVars
  <2>2. (wpc'[w] = "take" => pos[w] # EagerEndPos) /\ \A q \in Eager!Procs : q # w => wpc'[q] = wpc[q]
    BY <1>5, <1>t, <1>p DEF Eager!WaitSpin, Eager!Goto
  <2>3. Goes(EagerWorkers, EagerWriters, EagerWriteCnt, EagerEndPos, Eager!NotifyPcs, wpc, pos, cnt, wpc')
    BY <1>p, <2>2 DEF Goes
  <2> QED
    BY <1>g, <2>1, <2>3
<1>6. ASSUME NEW w \in EagerWorkers, Eager!WaitLoad(w) PROVE EagerClient'
  <2>1. writePos' = writePos /\ readPos' = readPos /\ pos' = pos /\ cnt' = cnt
    BY <1>6 DEF Eager!WaitLoad, Eager!clientVars
  <2>2. (wpc'[w] = "take" => pos[w] # EagerEndPos) /\ \A q \in Eager!Procs : q # w => wpc'[q] = wpc[q]
    BY <1>6, <1>t, <1>p DEF Eager!WaitLoad, Eager!Goto
  <2>3. Goes(EagerWorkers, EagerWriters, EagerWriteCnt, EagerEndPos, Eager!NotifyPcs, wpc, pos, cnt, wpc')
    BY <1>p, <2>2 DEF Goes
  <2> QED
    BY <1>g, <2>1, <2>3
<1>7. ASSUME NEW w \in EagerWorkers, Eager!Claim(w) PROVE EagerClient'
  <2>1. writePos' = writePos /\ readPos' = readPos /\ pos' = pos /\ cnt' = cnt
    BY <1>7 DEF Eager!Claim, Eager!clientVars
  <2>2. (wpc'[w] = "take" => pos[w] # EagerEndPos) /\ \A q \in Eager!Procs : q # w => wpc'[q] = wpc[q]
    BY <1>7, <1>t, <1>p DEF Eager!Claim, Eager!Goto
  <2>3. Goes(EagerWorkers, EagerWriters, EagerWriteCnt, EagerEndPos, Eager!NotifyPcs, wpc, pos, cnt, wpc')
    BY <1>p, <2>2 DEF Goes
  <2> QED
    BY <1>g, <2>1, <2>3
<1>8. ASSUME NEW w \in EagerWorkers, Eager!WaitSleepy(w) PROVE EagerClient'
  <2>1. writePos' = writePos /\ readPos' = readPos /\ pos' = pos /\ cnt' = cnt
    BY <1>8 DEF Eager!WaitSleepy, Eager!clientVars
  <2>2. (wpc'[w] = "take" => pos[w] # EagerEndPos) /\ \A q \in Eager!Procs : q # w => wpc'[q] = wpc[q]
    BY <1>8, <1>t, <1>p DEF Eager!WaitSleepy, Eager!Goto
  <2>3. Goes(EagerWorkers, EagerWriters, EagerWriteCnt, EagerEndPos, Eager!NotifyPcs, wpc, pos, cnt, wpc')
    BY <1>p, <2>2 DEF Goes
  <2> QED
    BY <1>g, <2>1, <2>3
<1>9. ASSUME NEW w \in EagerWorkers, Eager!WaitAsleep(w) PROVE EagerClient'
  <2>1. writePos' = writePos /\ readPos' = readPos /\ pos' = pos /\ cnt' = cnt
    BY <1>9 DEF Eager!WaitAsleep, Eager!clientVars
  <2>2. (wpc'[w] = "take" => pos[w] # EagerEndPos) /\ \A q \in Eager!Procs : q # w => wpc'[q] = wpc[q]
    BY <1>9, <1>t, <1>p DEF Eager!WaitAsleep, Eager!Goto
  <2>3. Goes(EagerWorkers, EagerWriters, EagerWriteCnt, EagerEndPos, Eager!NotifyPcs, wpc, pos, cnt, wpc')
    BY <1>p, <2>2 DEF Goes
  <2> QED
    BY <1>g, <2>1, <2>3
<1>10. ASSUME NEW w \in EagerWorkers, Eager!SleepLock(w) PROVE EagerClient'
  <2>1. writePos' = writePos /\ readPos' = readPos /\ pos' = pos /\ cnt' = cnt
    BY <1>10 DEF Eager!SleepLock, Eager!clientVars
  <2>2. (wpc'[w] = "take" => pos[w] # EagerEndPos) /\ \A q \in Eager!Procs : q # w => wpc'[q] = wpc[q]
    BY <1>10, <1>t, <1>p DEF Eager!SleepLock, Eager!Goto
  <2>3. Goes(EagerWorkers, EagerWriters, EagerWriteCnt, EagerEndPos, Eager!NotifyPcs, wpc, pos, cnt, wpc')
    BY <1>p, <2>2 DEF Goes
  <2> QED
    BY <1>g, <2>1, <2>3
<1>11. ASSUME NEW w \in EagerWorkers, Eager!SleepCas(w) PROVE EagerClient'
  <2>1. writePos' = writePos /\ readPos' = readPos /\ pos' = pos /\ cnt' = cnt
    BY <1>11 DEF Eager!SleepCas, Eager!clientVars
  <2>2. (wpc'[w] = "take" => pos[w] # EagerEndPos) /\ \A q \in Eager!Procs : q # w => wpc'[q] = wpc[q]
    BY <1>11, <1>t, <1>p DEF Eager!SleepCas, Eager!Goto
  <2>3. Goes(EagerWorkers, EagerWriters, EagerWriteCnt, EagerEndPos, Eager!NotifyPcs, wpc, pos, cnt, wpc')
    BY <1>p, <2>2 DEF Goes
  <2> QED
    BY <1>g, <2>1, <2>3
<1>12. ASSUME NEW w \in EagerWorkers, Eager!CvWait(w) PROVE EagerClient'
  <2>1. writePos' = writePos /\ readPos' = readPos /\ pos' = pos /\ cnt' = cnt
    BY <1>12 DEF Eager!CvWait, Eager!clientVars
  <2>2. (wpc'[w] = "take" => pos[w] # EagerEndPos) /\ \A q \in Eager!Procs : q # w => wpc'[q] = wpc[q]
    BY <1>12, <1>t, <1>p DEF Eager!CvWait, Eager!Goto
  <2>3. Goes(EagerWorkers, EagerWriters, EagerWriteCnt, EagerEndPos, Eager!NotifyPcs, wpc, pos, cnt, wpc')
    BY <1>p, <2>2 DEF Goes
  <2> QED
    BY <1>g, <2>1, <2>3
<1>13. ASSUME NEW w \in EagerWorkers, Eager!CvSpurious(w) PROVE EagerClient'
  <2>1. writePos' = writePos /\ readPos' = readPos /\ pos' = pos /\ cnt' = cnt
    BY <1>13 DEF Eager!CvSpurious, Eager!clientVars
  <2>2. (wpc'[w] = "take" => pos[w] # EagerEndPos) /\ \A q \in Eager!Procs : q # w => wpc'[q] = wpc[q]
    BY <1>13, <1>t, <1>p DEF Eager!CvSpurious, Eager!Goto
  <2>3. Goes(EagerWorkers, EagerWriters, EagerWriteCnt, EagerEndPos, Eager!NotifyPcs, wpc, pos, cnt, wpc')
    BY <1>p, <2>2 DEF Goes
  <2> QED
    BY <1>g, <2>1, <2>3
<1>14. ASSUME NEW w \in EagerWorkers, Eager!CvReturn(w) PROVE EagerClient'
  <2>1. writePos' = writePos /\ readPos' = readPos /\ pos' = pos /\ cnt' = cnt
    BY <1>14 DEF Eager!CvReturn, Eager!clientVars
  <2>2. (wpc'[w] = "take" => pos[w] # EagerEndPos) /\ \A q \in Eager!Procs : q # w => wpc'[q] = wpc[q]
    BY <1>14, <1>t, <1>p DEF Eager!CvReturn, Eager!Goto
  <2>3. Goes(EagerWorkers, EagerWriters, EagerWriteCnt, EagerEndPos, Eager!NotifyPcs, wpc, pos, cnt, wpc')
    BY <1>p, <2>2 DEF Goes
  <2> QED
    BY <1>g, <2>1, <2>3
<1>15. ASSUME NEW w \in EagerWorkers, Eager!StopWait(w) PROVE EagerClient'
  <2>1. writePos' = writePos /\ readPos' = readPos /\ pos' = pos /\ cnt' = cnt
    BY <1>15 DEF Eager!StopWait, Eager!clientVars
  <2>2. (wpc'[w] = "take" => pos[w] # EagerEndPos) /\ \A q \in Eager!Procs : q # w => wpc'[q] = wpc[q]
    BY <1>15, <1>t, <1>p DEF Eager!StopWait, Eager!Goto, Eager!AfterStop
  <2>3. Goes(EagerWorkers, EagerWriters, EagerWriteCnt, EagerEndPos, Eager!NotifyPcs, wpc, pos, cnt, wpc')
    BY <1>p, <2>2 DEF Goes
  <2> QED
    BY <1>g, <2>1, <2>3
<1>16. ASSUME NEW a \in Eager!Procs, Eager!NotifyLoad(a) PROVE EagerClient'
  <2>1. writePos' = writePos /\ readPos' = readPos /\ pos' = pos /\ cnt' = cnt
    BY <1>16 DEF Eager!NotifyLoad, Eager!clientVars
  <2>2. /\ a \in EagerWorkers /\ wpc'[a] = "take" => pos[a] # EagerEndPos
        /\ a \in EagerWriters => wpc'[a] \in Eager!NotifyPcs \cup {"publish", "done"}
        /\ a \in EagerWriters /\ wpc'[a] = "publish" => cnt[a] < EagerWriteCnt
        /\ \A q \in Eager!Procs : q # a => wpc'[q] = wpc[q]
    BY <1>16, <1>t, <1>p DEF Eager!NotifyLoad, Eager!Goto, Eager!AfterNotify, Eager!AfterStop, Eager!NotifyPcs
  <2>3. Goes(EagerWorkers, EagerWriters, EagerWriteCnt, EagerEndPos, Eager!NotifyPcs, wpc, pos, cnt, wpc')
    BY <1>p, <2>2 DEF Goes
  <2> QED
    BY <1>g, <2>1, <2>3
<1>17. ASSUME NEW a \in Eager!Procs, Eager!NotifyExchange(a) PROVE EagerClient'
  <2>1. writePos' = writePos /\ readPos' = readPos /\ pos' = pos /\ cnt' = cnt
    BY <1>17 DEF Eager!NotifyExchange, Eager!clientVars
  <2>2. /\ a \in EagerWorkers /\ wpc'[a] = "take" => pos[a] # EagerEndPos
        /\ a \in EagerWriters => wpc'[a] \in Eager!NotifyPcs \cup {"publish", "done"}
        /\ a \in EagerWriters /\ wpc'[a] = "publish" => cnt[a] < EagerWriteCnt
        /\ \A q \in Eager!Procs : q # a => wpc'[q] = wpc[q]
    BY <1>17, <1>t, <1>p DEF Eager!NotifyExchange, Eager!Goto, Eager!AfterNotify, Eager!AfterStop,
       Eager!NotifyPcs
  <2>3. Goes(EagerWorkers, EagerWriters, EagerWriteCnt, EagerEndPos, Eager!NotifyPcs, wpc, pos, cnt, wpc')
    BY <1>p, <2>2 DEF Goes
  <2> QED
    BY <1>g, <2>1, <2>3
<1>18. ASSUME NEW a \in Eager!Procs, Eager!NotifyAll(a) PROVE EagerClient'
  <2>1. writePos' = writePos /\ readPos' = readPos /\ pos' = pos /\ cnt' = cnt
    BY <1>18 DEF Eager!NotifyAll, Eager!clientVars
  <2>2. /\ a \in EagerWorkers /\ wpc'[a] = "take" => pos[a] # EagerEndPos
        /\ a \in EagerWriters => wpc'[a] \in Eager!NotifyPcs \cup {"publish", "done"}
        /\ a \in EagerWriters /\ wpc'[a] = "publish" => cnt[a] < EagerWriteCnt
        /\ \A q \in Eager!Procs : q # a => wpc'[q] = IF wpc[q] = "blocked" THEN "relock" ELSE wpc[q]
    BY <1>18, <1>t, <1>p DEF Eager!NotifyAll, Eager!Goto, Eager!AfterNotify, Eager!AfterStop, Eager!NotifyPcs
  <2>3. \A q \in EagerWriters : wpc[q] # "blocked"
    BY <1>c DEF ClientAt, Eager!NotifyPcs
  <2>4. Goes(EagerWorkers, EagerWriters, EagerWriteCnt, EagerEndPos, Eager!NotifyPcs, wpc, pos, cnt, wpc')
    BY <1>p, <2>2, <2>3 DEF Goes
  <2> QED
    BY <1>g, <2>1, <2>4
<1>19. CASE Eager!Finished
  BY <1>19 DEF Eager!Finished, Eager!vars, Eager!clientVars, EagerClient
<1> QED
  BY <1>p, <1>1, <1>2, <1>3, <1>4, <1>5, <1>6, <1>7, <1>8, <1>9, <1>10, <1>11, <1>12, <1>13, <1>14, <1>15,
     <1>16, <1>17, <1>18, <1>19 DEF Eager!Next, Eager!ClientCalls, Eager!ClientStep, Eager!Wait, Eager!Notify
(* The waiter counts as the library does.                                   *)
LEMMA SleepyCardinality ==
  ASSUME NEW S
  PROVE  Sleepy!Cardinality(S) = Cardinality(S)
BY Zenon DEF Sleepy!Cardinality, Cardinality, IsFiniteSet, Sleepy!IsFiniteSet

(* push_back of a slot that is not in the list.                             *)
LEMMA Joins ==
  ASSUME NEW s \in Seq(Workers), NEW e \in Workers, Sleepy!IsInjective(s), ~Sleepy!Has(s, e)
  PROVE  /\ Append(s, e) \in Seq(Workers) /\ Len(Append(s, e)) = Len(s) + 1 /\ Sleepy!IsInjective(Append(s, e))
         /\ \A v : Sleepy!Has(Append(s, e), v) <=> v = e \/ Sleepy!Has(s, v)
<1> DEFINE t == Append(s, e)
<1>1. /\ t \in Seq(Workers) /\ Len(t) = Len(s) + 1 /\ Len(s) \in Nat /\ DOMAIN s = 1 .. Len(s)
      /\ DOMAIN t = 1 .. Len(s) + 1
  OBVIOUS
<1>2. (\A i \in 1 .. Len(s) : t[i] = s[i]) /\ t[Len(s) + 1] = e
  OBVIOUS
<1> HIDE DEF t
<1>3. Sleepy!IsInjective(t)
  BY <1>1, <1>2 DEF Sleepy!IsInjective, Sleepy!Has
<1>4. ASSUME NEW v PROVE Sleepy!Has(t, v) <=> v = e \/ Sleepy!Has(s, v)
  BY <1>1, <1>2 DEF Sleepy!Has
<1> QED
  BY <1>3, <1>4 DEF t

(* erase of a slot, and pop_back.                                           *)
LEMMA Leaves ==
  ASSUME NEW s \in Seq(Workers), NEW k \in DOMAIN s, Sleepy!IsInjective(s),
         NEW t, t = Sleepy!RemoveAt(s, k) \/ (k = Len(s) /\ t = Sleepy!Front(s))
  PROVE  /\ t \in Seq(Workers) /\ Len(t) = Len(s) - 1 /\ Sleepy!IsInjective(t)
         /\ \A v : Sleepy!Has(t, v) <=> v # s[k] /\ Sleepy!Has(s, v)
<1>1. Len(s) \in Nat /\ DOMAIN s = 1 .. Len(s) /\ k \in 1 .. Len(s)
  OBVIOUS
<1>2. /\ t \in Seq(Workers) /\ Len(t) = Len(s) - 1
      /\ \A i \in 1 .. Len(s) - 1 : t[i] = IF i < k THEN s[i] ELSE s[i + 1]
  <2>1. CASE t = Sleepy!RemoveAt(s, k)
    <3> DEFINE a == SubSeq(s, 1, k - 1)
               b == SubSeq(s, k + 1, Len(s))
    <3>1. a \in Seq(Workers) /\ Len(a) = k - 1 /\ \A i \in 1 .. k - 1 : a[i] = s[i]
      BY <1>1
    <3>2. b \in Seq(Workers) /\ Len(b) = Len(s) - k /\ \A i \in 1 .. Len(s) - k : b[i] = s[i + k]
      BY <1>1
    <3>3. t = a \o b
      BY <2>1 DEF Sleepy!RemoveAt
    <3> HIDE DEF a, b
    <3>a. a \in Seq(Workers) /\ b \in Seq(Workers)
      BY <3>1, <3>2
    <3>b. /\ t \in Seq(Workers) /\ Len(t) = Len(a) + Len(b)
          /\ \A i \in 1 .. Len(a) + Len(b) : t[i] = IF i <= Len(a) THEN a[i] ELSE b[i - Len(a)]
      BY <3>3, <3>a
    <3>4. t \in Seq(Workers) /\ Len(t) = Len(s) - 1
      BY <3>1, <3>2, <3>b
    <3>5. ASSUME NEW i \in 1 .. Len(s) - 1 PROVE t[i] = IF i < k THEN s[i] ELSE s[i + 1]
      <4>1. CASE i < k
        <5>1. i \in 1 .. Len(a) + Len(b) /\ i <= Len(a) /\ i \in 1 .. k - 1
          BY <3>1, <4>1
        <5>2. t[i] = a[i] /\ a[i] = s[i]
          BY <3>1, <3>b, <5>1
        <5> QED
          BY <4>1, <5>2
      <4>2. CASE i >= k
        <5>1. i - (k - 1) \in 1 .. Len(s) - k /\ i \in 1 .. Len(a) + Len(b) /\ ~(i <= Len(a))
          BY <3>1, <3>2, <4>2
        <5>a. t[i] = b[i - (k - 1)]
          BY <3>1, <3>b, <5>1
        <5>2. b[i - (k - 1)] = s[(i - (k - 1)) + k]
          BY <3>2, <5>1
        <5>3. (i - (k - 1)) + k = i + 1 /\ ~(i < k)
          BY <4>2
        <5> QED
          BY <5>a, <5>2, <5>3
      <4> QED
        BY <4>1, <4>2
    <3> QED
      BY <3>4, <3>5
  <2>2. CASE k = Len(s) /\ t = Sleepy!Front(s)
    BY <2>2 DEF Sleepy!Front
  <2> QED
    BY <2>1, <2>2
<1>3. DOMAIN t = 1 .. Len(s) - 1
  BY <1>2
<1>4. Sleepy!IsInjective(t)
  <2> SUFFICES ASSUME NEW i \in 1 .. Len(s) - 1, NEW j \in 1 .. Len(s) - 1, t[i] = t[j] PROVE i = j
    BY <1>3 DEF Sleepy!IsInjective
  <2> DEFINE At(n) == IF n < k THEN n ELSE n + 1
  <2>1. t[i] = s[At(i)] /\ t[j] = s[At(j)]
    BY <1>2
  <2>2. At(i) \in DOMAIN s /\ At(j) \in DOMAIN s
    BY <1>1
  <2>3. At(i) = At(j)
    BY <2>1, <2>2 DEF Sleepy!IsInjective
  <2> QED
    BY <1>1, <2>3
<1>5. ASSUME NEW v, NEW i \in DOMAIN t, t[i] = v PROVE v # s[k] /\ Sleepy!Has(s, v)
  <2>1. CASE i < k
    BY <1>2, <1>3, <1>5 DEF Sleepy!Has, Sleepy!IsInjective
  <2>2. CASE i >= k
    <3>1. i + 1 \in DOMAIN s /\ s[i + 1] = v /\ i + 1 # k
      BY <1>2, <1>5, <2>2
    <3> QED
      BY <3>1 DEF Sleepy!Has, Sleepy!IsInjective
  <2> QED
    BY <1>3, <2>1, <2>2
<1>6. ASSUME NEW v, NEW j \in DOMAIN s, s[j] = v, v # s[k] PROVE Sleepy!Has(t, v)
  <2>1. CASE j < k
    <3>1. j \in DOMAIN t /\ t[j] = v
      BY <1>2, <1>6, <2>1
    <3> QED
      BY <3>1 DEF Sleepy!Has
  <2>2. CASE j > k
    <3>1. j - 1 \in DOMAIN t /\ t[j - 1] = v
      BY <1>2, <1>6, <2>2
    <3> QED
      BY <3>1 DEF Sleepy!Has
  <2> QED
    BY <1>6, <2>1, <2>2
<1> QED
  BY <1>2, <1>4, <1>5, <1>6 DEF Sleepy!Has

(* One worker more or less is counted.                                      *)
LEMMA Recount ==
  ASSUME SleepyThreadsOK, NEW C \in SUBSET Workers, NEW D \in SUBSET Workers, NEW w \in Workers,
         \A v \in Workers : v # w => (v \in D <=> v \in C)
  PROVE  /\ Cardinality(C) \in Nat /\ Cardinality(D) \in Nat
         /\ (w \in D <=> w \in C) => Cardinality(D) = Cardinality(C)
         /\ w \in D /\ w \notin C => Cardinality(D) = Cardinality(C) + 1
         /\ w \notin D /\ w \in C => Cardinality(D) = Cardinality(C) - 1
<1>1. IsFiniteSet(C) /\ IsFiniteSet(D) /\ Cardinality(C) \in Nat /\ Cardinality(D) \in Nat
  BY FS_Subset, FS_CardinalityType DEF SleepyThreadsOK
<1>2. CASE w \in D <=> w \in C
  <2>1. C = D
    BY <1>2
  <2> QED
    BY <1>1, <1>2
<1>3. CASE w \in D /\ w \notin C
  <2>1. D = C \cup {w}
    BY <1>3
  <2> QED
    BY <1>1, <1>3, FS_AddElement
<1>4. CASE w \notin D /\ w \in C
  <2>1. D = C \ {w}
    BY <1>4
  <2> QED
    BY <1>1, <1>4, FS_RemoveElement
<1> QED
  BY <1>2, <1>3, <1>4

(* Who is counted when one is, and when another one is too.                 *)
LEMMA Counts ==
  ASSUME SleepyThreadsOK, Sleepy!StateCounts
  PROVE  /\ state.searching \in Nat
         /\ state.searching > 0 => \E v \in Workers : Sleepy!Counted(v)
         /\ \A w \in Workers : Sleepy!Counted(w) => state.searching > 0
         /\ \A w \in Workers : Sleepy!Counted(w) /\ state.searching # 1 =>
                \E v \in Workers : v # w /\ Sleepy!Counted(v)
<1> DEFINE C == {v \in Workers : Sleepy!Counted(v)}
<1>1. C \subseteq Workers /\ state.searching = Cardinality(C) /\ \A v \in Workers : v \in C <=> Sleepy!Counted(v)
  BY SleepyCardinality DEF Sleepy!StateCounts
<1> HIDE DEF C
<1>2. IsFiniteSet(C) /\ Cardinality(C) \in Nat
  BY <1>1, FS_Subset, FS_CardinalityType DEF SleepyThreadsOK
<1>3. Cardinality(C) = 0 <=> C = {}
  BY <1>2, FS_EmptySet
<1>4. ASSUME NEW w \in Workers, Sleepy!Counted(w), state.searching # 1,
             ~\E v \in Workers : v # w /\ Sleepy!Counted(v)
      PROVE  FALSE
  <2>1. C = {w}
    BY <1>1, <1>4
  <2> QED
    BY <1>1, <1>4, FS_Singleton
<1> QED
  BY <1>1, <1>2, <1>3, <1>4

(* The counters still add up when what is counted of one worker changes,    *)
(* and state_ by as much.                                                   *)
LEMMA Tally ==
  ASSUME SleepyThreadsOK, Sleepy!StateCounts, NEW w \in Workers, state'.parked = Len(sleepers'),
         \A v \in Workers : v # w => (Sleepy!Counted(v)' <=> Sleepy!Counted(v)),
         \/ ~Sleepy!Counted(w) /\ Sleepy!Counted(w)' /\ state'.searching = state.searching + 1
         \/ Sleepy!Counted(w) /\ ~Sleepy!Counted(w)' /\ state'.searching = state.searching - 1
  PROVE  Sleepy!StateCounts'
<1> DEFINE C == {v \in Workers : Sleepy!Counted(v)}
           D == {v \in Workers : Sleepy!Counted(v)'}
<1>1. /\ C \in SUBSET Workers /\ D \in SUBSET Workers /\ state.searching = Cardinality(C)
      /\ \A v \in Workers : (v \in C <=> Sleepy!Counted(v)) /\ (v \in D <=> Sleepy!Counted(v)')
  BY SleepyCardinality DEF Sleepy!StateCounts
<1>2. Sleepy!StateCounts' <=> /\ state'.parked = Len(sleepers')
                       /\ state'.searching = Cardinality(D)
  BY SleepyCardinality DEF Sleepy!StateCounts
<1> HIDE DEF C, D
<1>3. /\ w \in D /\ w \notin C => Cardinality(D) = Cardinality(C) + 1
      /\ w \notin D /\ w \in C => Cardinality(D) = Cardinality(C) - 1
  BY <1>1, Recount
<1> QED
  BY <1>1, <1>2, <1>3

(* And when nothing of that changes.                                        *)
LEMMA TallySame ==
  ASSUME Sleepy!StateCounts, state' = state, sleepers' = sleepers,
         \A v \in Workers : Sleepy!Counted(v)' <=> Sleepy!Counted(v)
  PROVE  Sleepy!StateCounts'
<1>1. {v \in Workers : Sleepy!Counted(v)'} = {v \in Workers : Sleepy!Counted(v)}
  OBVIOUS
<1>2. Sleepy!StateCounts' <=> /\ state'.parked = Len(sleepers')
                       /\ state'.searching = Cardinality({v \in Workers : Sleepy!Counted(v)'})
  BY SleepyCardinality DEF Sleepy!StateCounts
<1> QED
  BY <1>1, SleepyCardinality DEF Sleepy!StateCounts

(* A step of any thread keeps the inductive invariant: one step per action, *)
(* and under it one per conjunct.                                           *)
LEMMA SleepyStep == ASSUME SleepyThreadsOK, Sleepy!IInv, Sleepy!Next PROVE Sleepy!IInv'
<1>0. Sleepy!Types /\ Sleepy!SlotOK /\ Sleepy!MutexOK /\ Sleepy!SleepOK /\ Sleepy!StateCounts /\ Sleepy!WorkOK
  BY DEF Sleepy!IInv
<1>t. /\ state \in [parked : Int, searching : Int] /\ mutex \in Sleepy!Procs \cup {Sleepy!Nobody}
      /\ sleepers \in Seq(Workers) /\ Sleepy!IsInjective(sleepers)
      /\ slot \in [Workers -> {"Search", "Work", "Sleep"}] /\ flag \in [Workers -> BOOLEAN]
      /\ wpc \in [Sleepy!Procs -> Sleepy!WorkerPcs \cup Sleepy!NotifyPcs \cup {"publish", "done"}]
      /\ target \in [Sleepy!Procs -> Workers \cup {Sleepy!Nobody}]
      /\ readPos \in Nat /\ writePos \in Nat /\ pos \in [Workers -> Nat]
  BY <1>0 DEF Sleepy!Types
<1>p. /\ Sleepy!Nobody \notin Workers \cup Writers /\ EndPos \in Nat /\ \E v \in Workers : TRUE
      /\ \A v \in Workers : v \in Sleepy!Procs /\ v \notin Writers
      /\ \A p \in Writers : p \in Sleepy!Procs /\ p \notin Workers
      /\ \A p \in Sleepy!Procs : p \in Workers \/ p \in Writers
  BY DEF SleepyThreadsOK, Sleepy!Procs
<1>r. /\ \A v : /\ (v \in Sleepy!Range(sleepers) <=> Sleepy!Listed(v))
                /\ (v \in Sleepy!Range(sleepers') <=> Sleepy!Listed(v)')
      /\ sleepers' = sleepers => \A v : Sleepy!Listed(v)' <=> Sleepy!Listed(v)
      /\ target' = target => \A v : Sleepy!Taken(v)' <=> Sleepy!Taken(v)
  BY DEF Sleepy!Range, Sleepy!Listed, Sleepy!Has, Sleepy!Taken
<1>c. /\ state.searching \in Nat
      /\ state.searching > 0 => \E v \in Workers : Sleepy!Counted(v)
      /\ \A w \in Workers : Sleepy!Counted(w) => state.searching > 0
      /\ \A w \in Workers : Sleepy!Counted(w) /\ state.searching # 1 =>
             \E v \in Workers : v # w /\ Sleepy!Counted(v)
  BY <1>0, Counts
<1>q. \A v \in Workers : Sleepy!Counted(v) /\ wpc[v] \in {"wait", "park"} => ~Sleepy!Listed(v)
  BY <1>0, <1>r DEF Sleepy!Counted, Sleepy!SleepOK, Sleepy!Asleep
<1>a. state.parked = Len(sleepers) /\ Len(sleepers) \in Nat /\ DOMAIN sleepers = 1 .. Len(sleepers)
  BY <1>0, SleepyCardinality DEF Sleepy!StateCounts
<1>1. ASSUME NEW w \in Workers, Sleepy!Look(w), UNCHANGED Sleepy!waiterVars PROVE Sleepy!IInv'
  <2>1. UNCHANGED <<state, mutex, sleepers, slot, flag, target, writePos, readPos, cnt>>
    BY <1>1 DEF Sleepy!Look, Sleepy!waiterVars
  <2>2. /\ wpc[w] = "look" /\ wpc' = [wpc EXCEPT ![w] = wpc'[w]]
        /\ wpc'[w] \in {"stop", "compare"}
    BY <1>1, <1>t, <1>p DEF Sleepy!Look, Sleepy!waiterVars, Sleepy!clientVars, Sleepy!Goto, Sleepy!SetSlot,
       Sleepy!AddState, Sleepy!AfterStop
  <2>3. pos' = [pos EXCEPT ![w] = readPos]
    BY <1>1 DEF Sleepy!Look
  <2>4. Sleepy!Types'
    BY <1>0, <1>t, <1>p, <1>r, <2>1, <2>2, <2>3, ZenonT(60) DEF Sleepy!Types, Sleepy!WorkerPcs
  <2>5. Sleepy!SlotOK'
    BY <1>0, <1>t, <1>p, <2>1, <2>2, <2>3 DEF Sleepy!SlotOK, Sleepy!NotifyPcs
  <2>6. Sleepy!MutexOK'
    BY <1>0, <1>t, <2>1, <2>2 DEF Sleepy!MutexOK
  <2>7. Sleepy!SleepOK'
    BY <1>0, <1>t, <1>p, <1>r, <2>1, <2>2 DEF Sleepy!SleepOK, Sleepy!Asleep
  <2>8. \A v \in Workers : Sleepy!Counted(v)' <=> Sleepy!Counted(v)
    BY <1>t, <1>p, <2>1, <2>2 DEF Sleepy!Counted, Sleepy!NotifyPcs
  <2>9. Sleepy!StateCounts'
    BY <1>0, <2>1, <2>8, TallySame
  <2>10. Sleepy!WorkOK'
    BY <2>1, <2>2, <2>3 DEF Sleepy!WorkOK, Sleepy!Resting, Sleepy!SlotOK
  <2> QED
    BY <2>4, <2>5, <2>6, <2>7, <2>9, <2>10 DEF Sleepy!IInv
<1>2. ASSUME NEW w \in Workers, Sleepy!Compare(w), UNCHANGED Sleepy!waiterVars PROVE Sleepy!IInv'
  <2>1. UNCHANGED <<state, mutex, sleepers, slot, flag, target, writePos, readPos, pos, cnt>>
    BY <1>2 DEF Sleepy!Compare, Sleepy!waiterVars, Sleepy!clientVars
  <2>2. /\ wpc[w] = "compare" /\ wpc' = [wpc EXCEPT ![w] = wpc'[w]]
        /\ wpc'[w] \in {"wait", "stop"}
    BY <1>2, <1>t, <1>p DEF Sleepy!Compare, Sleepy!waiterVars, Sleepy!clientVars, Sleepy!Goto, Sleepy!SetSlot,
       Sleepy!AddState, Sleepy!AfterStop
  <2>3. wpc'[w] = "wait" => pos[w] = writePos
    BY <1>2 DEF Sleepy!Compare, Sleepy!Goto
  <2>4. Sleepy!Types'
    BY <1>0, <1>r, <2>1, <2>2, <2>3 DEF Sleepy!Types, Sleepy!WorkerPcs
  <2>5. Sleepy!SlotOK'
    BY <1>0, <1>t, <1>p, <2>1, <2>2 DEF Sleepy!SlotOK, Sleepy!NotifyPcs
  <2>6. Sleepy!MutexOK'
    BY <1>0, <1>t, <2>1, <2>2 DEF Sleepy!MutexOK
  <2>7. Sleepy!SleepOK'
    BY <1>0, <1>t, <1>p, <1>r, <2>1, <2>2 DEF Sleepy!SleepOK, Sleepy!Asleep
  <2>8. \A v \in Workers : Sleepy!Counted(v)' <=> Sleepy!Counted(v)
    BY <1>t, <1>p, <2>1, <2>2 DEF Sleepy!Counted, Sleepy!NotifyPcs
  <2>9. Sleepy!StateCounts'
    BY <1>0, <2>1, <2>8, TallySame
  <2>10. Sleepy!WorkOK'
    BY <1>0, <1>t, <2>1, <2>2, <2>3 DEF Sleepy!WorkOK, Sleepy!Resting, Sleepy!SlotOK
  <2> QED
    BY <2>4, <2>5, <2>6, <2>7, <2>9, <2>10 DEF Sleepy!IInv
<1>3. ASSUME NEW w \in Workers, Sleepy!Take(w), UNCHANGED Sleepy!waiterVars PROVE Sleepy!IInv'
  <2>1. UNCHANGED <<state, mutex, sleepers, slot, flag, target, writePos, pos, cnt>>
    BY <1>3 DEF Sleepy!Take, Sleepy!waiterVars
  <2>2. /\ wpc[w] = "take" /\ wpc' = [wpc EXCEPT ![w] = wpc'[w]]
        /\ wpc'[w] = "look"
    BY <1>3, <1>t, <1>p DEF Sleepy!Take, Sleepy!waiterVars, Sleepy!clientVars, Sleepy!Goto, Sleepy!SetSlot,
       Sleepy!AddState, Sleepy!AfterStop
  <2>3. readPos' = readPos \/ (readPos = pos[w] /\ readPos' = readPos + 1)
    BY <1>3 DEF Sleepy!Take
  <2>4. readPos' \in Nat /\ readPos <= readPos'
    BY <1>t, <2>3
  <2>5. Sleepy!Types'
    BY <1>0, <1>t, <1>p, <1>r, <2>1, <2>2, <2>3, <2>4, ZenonT(60) DEF Sleepy!Types, Sleepy!WorkerPcs
  <2>6. Sleepy!SlotOK'
    BY <1>0, <1>t, <1>p, <2>1, <2>2, <2>3 DEF Sleepy!SlotOK, Sleepy!NotifyPcs
  <2>7. Sleepy!MutexOK'
    BY <1>0, <1>t, <2>1, <2>2 DEF Sleepy!MutexOK
  <2>8. Sleepy!SleepOK'
    BY <1>0, <1>t, <1>p, <1>r, <2>1, <2>2 DEF Sleepy!SleepOK, Sleepy!Asleep
  <2>9. \A v \in Workers : Sleepy!Counted(v)' <=> Sleepy!Counted(v)
    BY <1>0, <1>t, <1>p, <2>1, <2>2 DEF Sleepy!Counted, Sleepy!SlotOK
  <2>10. Sleepy!StateCounts'
    BY <1>0, <2>1, <2>9, TallySame
  <2>11. Sleepy!WorkOK'
    BY <1>p, <1>r, <2>1, <2>2, <2>3, <2>4 DEF Sleepy!WorkOK, Sleepy!Resting, Sleepy!SlotOK, Sleepy!SleepOK
  <2> QED
    BY <2>5, <2>6, <2>7, <2>8, <2>10, <2>11 DEF Sleepy!IInv
<1>4. ASSUME NEW p \in Sleepy!Procs, Sleepy!Publish(p), UNCHANGED Sleepy!waiterVars PROVE Sleepy!IInv'
  <2>1. UNCHANGED <<state, mutex, sleepers, slot, flag, target, readPos, pos>>
    BY <1>4 DEF Sleepy!Publish, Sleepy!waiterVars
  <2>2. /\ wpc[p] = "publish" /\ wpc' = [wpc EXCEPT ![p] = wpc'[p]]
        /\ wpc'[p] = "notify"
    BY <1>4, <1>t DEF Sleepy!Publish, Sleepy!Goto
  <2>3. writePos' = writePos + 1 /\ p \in Writers
    BY <1>4, <1>0, <1>p DEF Sleepy!Publish, Sleepy!SlotOK
  <2>4. Sleepy!Types'
    <3>1. wpc' \in [Sleepy!Procs -> Sleepy!WorkerPcs \cup Sleepy!NotifyPcs \cup {"publish", "done"}]
      BY <1>t, <1>p, <2>2 DEF Sleepy!NotifyPcs
    <3>2. writePos' \in Nat
      BY <1>t, <2>3
    <3> QED
      BY <1>t, <2>1, <3>1, <3>2 DEF Sleepy!Types
  <2>5. Sleepy!SlotOK'
    BY <1>0, <1>t, <1>p, <2>1, <2>2 DEF Sleepy!SlotOK
  <2>6. Sleepy!MutexOK'
    BY <1>0, <1>t, <2>1, <2>2 DEF Sleepy!MutexOK
  <2>7. Sleepy!SleepOK'
    BY <1>0, <1>t, <1>p, <1>r, <2>1, <2>2 DEF Sleepy!SleepOK, Sleepy!Asleep
  <2>8. \A v \in Workers : Sleepy!Counted(v)' <=> Sleepy!Counted(v)
    BY <1>t, <1>p, <2>1, <2>2, <2>3 DEF Sleepy!Counted
  <2>9. Sleepy!StateCounts'
    BY <1>0, <2>1, <2>8, TallySame
  <2>10. Sleepy!WorkOK'
    BY <2>2, <2>3 DEF Sleepy!WorkOK, Sleepy!NotifyPcs
  <2> QED
    BY <2>4, <2>5, <2>6, <2>7, <2>9, <2>10 DEF Sleepy!IInv
<1>5. ASSUME NEW w \in Workers, Sleepy!WaitFromWork(w) PROVE Sleepy!IInv'
  <2>1. UNCHANGED <<mutex, sleepers, flag, target, writePos, readPos, pos, cnt>>
    BY <1>5 DEF Sleepy!WaitFromWork, Sleepy!clientVars
  <2>2. /\ wpc[w] = "wait" /\ wpc' = [wpc EXCEPT ![w] = wpc'[w]]
        /\ wpc'[w] = "look"
    BY <1>5, <1>t, <1>p DEF Sleepy!WaitFromWork, Sleepy!waiterVars, Sleepy!clientVars, Sleepy!Goto,
       Sleepy!SetSlot, Sleepy!AddState, Sleepy!AfterStop
  <2>3. slot[w] = "Work" /\ slot' = [slot EXCEPT ![w] = "Search"]
    BY <1>5 DEF Sleepy!WaitFromWork, Sleepy!SetSlot
  <2>4. /\ state' \in [parked : Int, searching : Int]
        /\ state' = [parked |-> state.parked, searching |-> state.searching + 1]
        /\ state'.parked = state.parked /\ state'.searching = state.searching + 1
    BY <1>5, <1>t DEF Sleepy!WaitFromWork, Sleepy!AddState
  <2>5. Sleepy!Types'
    BY <1>0, <1>r, <2>1, <2>2, <2>3, <2>4 DEF Sleepy!Types, Sleepy!WorkerPcs
  <2>6. Sleepy!SlotOK'
    BY <1>0, <1>t, <1>p, <2>1, <2>2, <2>3 DEF Sleepy!SlotOK
  <2>7. Sleepy!MutexOK'
    BY <1>0, <1>t, <2>1, <2>2 DEF Sleepy!MutexOK
  <2>8. Sleepy!SleepOK'
    BY <1>0, <1>t, <1>p, <1>r, <2>1, <2>2, <2>3 DEF Sleepy!SleepOK, Sleepy!Asleep
  <2>9. \A v \in Workers : v # w => (Sleepy!Counted(v)' <=> Sleepy!Counted(v))
    BY <1>t, <1>p, <2>1, <2>2, <2>3 DEF Sleepy!Counted
  <2>10. ~Sleepy!Counted(w) /\ Sleepy!Counted(w)'
    BY <1>t, <2>2, <2>3 DEF Sleepy!Counted, Sleepy!NotifyPcs
  <2>11. Sleepy!StateCounts'
    BY <1>0, <1>a, <2>9, <2>10, <2>1, <2>4, Tally
  <2>12. Sleepy!WorkOK'
    BY <2>1, <2>2 DEF Sleepy!WorkOK, Sleepy!Resting, Sleepy!SleepOK
  <2> QED
    BY <2>5, <2>6, <2>7, <2>8, <2>11, <2>12 DEF Sleepy!IInv
<1>6. ASSUME NEW w \in Workers, Sleepy!WaitFromSearch(w) PROVE Sleepy!IInv'
  <2>1. UNCHANGED <<state, mutex, sleepers, flag, target, writePos, readPos, pos, cnt>>
    BY <1>6 DEF Sleepy!WaitFromSearch, Sleepy!clientVars
  <2>2. /\ wpc[w] = "wait" /\ wpc' = [wpc EXCEPT ![w] = wpc'[w]]
        /\ wpc'[w] = "enlist"
    BY <1>6, <1>t, <1>p DEF Sleepy!WaitFromSearch, Sleepy!waiterVars, Sleepy!clientVars, Sleepy!Goto,
       Sleepy!SetSlot, Sleepy!AddState, Sleepy!AfterStop
  <2>3. slot[w] = "Search" /\ slot' = [slot EXCEPT ![w] = "Sleep"]
    BY <1>6 DEF Sleepy!WaitFromSearch, Sleepy!SetSlot
  <2>4. Sleepy!Types'
    BY <1>0, <1>t, <1>p, <1>r, <2>1, <2>2, <2>3, ZenonT(60) DEF Sleepy!Types, Sleepy!WorkerPcs
  <2>5. Sleepy!SlotOK'
    BY <1>0, <1>t, <1>p, <2>1, <2>2, <2>3 DEF Sleepy!SlotOK, Sleepy!NotifyPcs
  <2>6. Sleepy!MutexOK'
    BY <1>0, <1>t, <2>1, <2>2 DEF Sleepy!MutexOK
  <2>7. Sleepy!SleepOK'
    BY <1>0, <1>t, <1>p, <1>r, <2>1, <2>2, <2>3 DEF Sleepy!SleepOK, Sleepy!Asleep
  <2>8. \A v \in Workers : Sleepy!Counted(v)' <=> Sleepy!Counted(v)
    BY <1>t, <1>p, <2>1, <2>2, <2>3 DEF Sleepy!Counted, Sleepy!NotifyPcs
  <2>9. Sleepy!StateCounts'
    BY <1>0, <2>1, <2>8, TallySame
  <2>10. Sleepy!WorkOK'
    BY <1>p, <2>2 DEF Sleepy!WorkOK, Sleepy!Resting
  <2> QED
    BY <2>4, <2>5, <2>6, <2>7, <2>9, <2>10 DEF Sleepy!IInv
<1>7. ASSUME NEW w \in Workers, Sleepy!WaitFromSleep(w) PROVE Sleepy!IInv'
  <2>1. UNCHANGED <<state, mutex, sleepers, slot, flag, target, writePos, readPos, pos, cnt>>
    BY <1>7 DEF Sleepy!WaitFromSleep, Sleepy!waiterVars, Sleepy!clientVars
  <2>2. /\ wpc[w] = "wait" /\ wpc' = [wpc EXCEPT ![w] = wpc'[w]]
        /\ wpc'[w] = "park"
    BY <1>7, <1>t, <1>p DEF Sleepy!WaitFromSleep, Sleepy!waiterVars, Sleepy!clientVars, Sleepy!Goto,
       Sleepy!SetSlot, Sleepy!AddState, Sleepy!AfterStop
  <2>3. slot[w] = "Sleep"
    BY <1>7 DEF Sleepy!WaitFromSleep
  <2>4. Sleepy!Types'
    BY <1>0, <1>p, <2>1, <2>2, <2>3, ZenonT(60) DEF Sleepy!Types, Sleepy!WorkerPcs
  <2>5. Sleepy!SlotOK'
    BY <1>0, <1>t, <1>p, <2>1, <2>2, <2>3 DEF Sleepy!SlotOK, Sleepy!NotifyPcs
  <2>6. Sleepy!MutexOK'
    BY <1>0, <1>t, <2>1, <2>2 DEF Sleepy!MutexOK
  <2>7. Sleepy!SleepOK'
    BY <1>0, <1>t, <1>p, <1>r, <2>1, <2>2 DEF Sleepy!SleepOK, Sleepy!Asleep
  <2>8. \A v \in Workers : Sleepy!Counted(v)' <=> Sleepy!Counted(v)
    BY <1>t, <1>p, <2>1, <2>2, <2>3 DEF Sleepy!Counted, Sleepy!SleepOK, Sleepy!Asleep
  <2>9. Sleepy!StateCounts'
    BY <1>0, <2>1, <2>8, TallySame
  <2>10. Sleepy!WorkOK'
    BY <1>0, <1>t, <1>p, <1>r, <2>1, <2>2, <2>3 DEF Sleepy!WorkOK, Sleepy!Resting, Sleepy!SlotOK, Sleepy!SleepOK
  <2> QED
    BY <2>4, <2>5, <2>6, <2>7, <2>9, <2>10 DEF Sleepy!IInv
<1>8. ASSUME NEW w \in Workers, Sleepy!Enlist(w) PROVE Sleepy!IInv'
  <2>1. UNCHANGED <<mutex, slot, flag, target, writePos, readPos, pos, cnt>>
    BY <1>8 DEF Sleepy!Enlist, Sleepy!clientVars
  <2>2. /\ wpc[w] = "enlist" /\ wpc' = [wpc EXCEPT ![w] = wpc'[w]]
        /\ wpc'[w] \in {"look", "park"}
    BY <1>8, <1>t, <1>p DEF Sleepy!Enlist, Sleepy!waiterVars, Sleepy!clientVars, Sleepy!Goto, Sleepy!SetSlot,
       Sleepy!AddState, Sleepy!AfterStop
  <2>3. /\ state' \in [parked : Int, searching : Int]
        /\ state' = [parked |-> state.parked + 1, searching |-> state.searching - 1]
        /\ state'.parked = state.parked + 1 /\ state'.searching = state.searching - 1
    BY <1>8, <1>t DEF Sleepy!Enlist, Sleepy!AddState
  <2>4. mutex = Sleepy!Nobody /\ (wpc'[w] = "park" => state.searching # 1)
    BY <1>8 DEF Sleepy!Enlist, Sleepy!Goto
  <2>5. sleepers' = Append(sleepers, w) /\ ~Sleepy!Listed(w)
    BY <1>8, <1>0 DEF Sleepy!Enlist, Sleepy!SleepOK, Sleepy!Asleep
  <2>6. /\ sleepers' \in Seq(Workers) /\ Len(sleepers') = Len(sleepers) + 1 /\ Sleepy!IsInjective(sleepers')
        /\ \A v : Sleepy!Listed(v)' <=> v = w \/ Sleepy!Listed(v)
    BY <1>t, <2>5, Joins DEF Sleepy!Listed
  <2>7. Sleepy!Types'
    <3>1. wpc' \in [Sleepy!Procs -> Sleepy!WorkerPcs \cup Sleepy!NotifyPcs \cup {"publish", "done"}]
      BY <1>t, <1>p, <2>2 DEF Sleepy!WorkerPcs
    <3> QED
      BY <1>t, <2>1, <2>3, <2>6, <3>1 DEF Sleepy!Types
  <2>8. Sleepy!SlotOK'
    BY <1>0, <1>t, <1>p, <2>1, <2>2 DEF Sleepy!SlotOK, Sleepy!NotifyPcs
  <2>9. Sleepy!MutexOK'
    BY <1>0, <1>t, <1>p, <2>1, <2>2, <2>4 DEF Sleepy!MutexOK
  <2>10. Sleepy!SleepOK'
    BY <1>0, <1>t, <1>p, <1>r, <2>1, <2>2, <2>6 DEF Sleepy!SleepOK, Sleepy!Asleep, Sleepy!SlotOK
  <2>11. \A v \in Workers : v # w => (Sleepy!Counted(v)' <=> Sleepy!Counted(v))
    BY <1>t, <1>p, <1>r, <2>1, <2>2, <2>6 DEF Sleepy!Counted
  <2>12. Sleepy!Counted(w) /\ ~Sleepy!Counted(w)'
    BY <1>0, <1>r, <2>1, <2>2, <2>6 DEF Sleepy!Counted, Sleepy!SlotOK
  <2>13. Sleepy!StateCounts'
    BY <1>0, <1>a, <2>11, <2>12, <2>3, <2>6, Tally
  <2>14. Sleepy!WorkOK'
    <3>1. CASE wpc'[w] = "look"
      BY <3>1 DEF Sleepy!WorkOK, Sleepy!Resting
    <3>2. CASE wpc'[w] = "park"
      <4>1. Sleepy!Counted(w)
        BY <2>12
      <4>2. PICK v \in Workers : v # w /\ Sleepy!Counted(v)
        BY <1>c, <2>4, <3>2, <4>1
      <4>3. ~Sleepy!Resting(v)'
        BY <1>p, <1>q, <1>t, <2>2, <2>6, <4>2 DEF Sleepy!Resting
      <4> QED
        BY <4>3 DEF Sleepy!WorkOK
    <3> QED
      BY <2>2, <3>1, <3>2
  <2> QED
    BY <2>7, <2>8, <2>9, <2>10, <2>13, <2>14 DEF Sleepy!IInv
<1>9. ASSUME NEW w \in Workers, Sleepy!Park(w) PROVE Sleepy!IInv'
  <2>1. UNCHANGED <<state, mutex, sleepers, target, writePos, readPos, pos, cnt>>
    BY <1>9 DEF Sleepy!Park, Sleepy!clientVars
  <2>2. /\ wpc[w] = "park" /\ wpc' = [wpc EXCEPT ![w] = wpc'[w]]
        /\ wpc'[w] = "look"
    BY <1>9, <1>t, <1>p DEF Sleepy!Park, Sleepy!waiterVars, Sleepy!clientVars, Sleepy!Goto, Sleepy!SetSlot,
       Sleepy!AddState, Sleepy!AfterStop
  <2>3. slot' = [slot EXCEPT ![w] = "Search"]
    BY <1>9 DEF Sleepy!Park, Sleepy!SetSlot
  <2>4. flag[w] /\ flag' = [flag EXCEPT ![w] = FALSE]
    BY <1>9 DEF Sleepy!Park
  <2>5. Sleepy!Types'
    <3>1. wpc' \in [Sleepy!Procs -> Sleepy!WorkerPcs \cup Sleepy!NotifyPcs \cup {"publish", "done"}]
      BY <1>t, <1>p, <2>2 DEF Sleepy!WorkerPcs
    <3>2. /\ slot' \in [Workers -> {"Search", "Work", "Sleep"}]
          /\ flag' \in [Workers -> BOOLEAN]
      BY <1>t, <2>3, <2>4
    <3> QED
      BY <1>t, <2>1, <3>1, <3>2 DEF Sleepy!Types
  <2>6. Sleepy!SlotOK'
    BY <1>0, <1>t, <1>p, <2>1, <2>2, <2>3 DEF Sleepy!SlotOK
  <2>7. Sleepy!MutexOK'
    BY <1>0, <1>t, <2>1, <2>2 DEF Sleepy!MutexOK
  <2>8. Sleepy!SleepOK'
    BY <1>0, <1>t, <1>p, <1>r, <2>1, <2>2, <2>3, <2>4 DEF Sleepy!SleepOK, Sleepy!Asleep
  <2>9. \A v \in Workers : Sleepy!Counted(v)' <=> Sleepy!Counted(v)
    BY <1>0, <1>t, <1>p, <1>r, <2>1, <2>2, <2>3, <2>4 DEF Sleepy!Counted, Sleepy!SlotOK, Sleepy!SleepOK,
       Sleepy!NotifyPcs
  <2>10. Sleepy!StateCounts'
    BY <1>0, <2>1, <2>9, TallySame
  <2>11. Sleepy!WorkOK'
    BY <1>p, <2>1, <2>2, <2>3 DEF Sleepy!WorkOK, Sleepy!Resting
  <2> QED
    BY <2>5, <2>6, <2>7, <2>8, <2>10, <2>11 DEF Sleepy!IInv
<1>10. ASSUME NEW w \in Workers, Sleepy!StopFromWork(w) PROVE Sleepy!IInv'
  <2>1. UNCHANGED <<state, mutex, sleepers, slot, flag, target, writePos, readPos, pos, cnt>>
    BY <1>10 DEF Sleepy!StopFromWork, Sleepy!waiterVars, Sleepy!clientVars
  <2>2. /\ wpc[w] = "stop" /\ wpc' = [wpc EXCEPT ![w] = wpc'[w]]
        /\ wpc'[w] \in {"take", "done"}
    BY <1>10, <1>t, <1>p DEF Sleepy!StopFromWork, Sleepy!waiterVars, Sleepy!clientVars, Sleepy!Goto,
       Sleepy!SetSlot, Sleepy!AddState, Sleepy!AfterStop
  <2>3. slot[w] = "Work"
    BY <1>10 DEF Sleepy!StopFromWork
  <2>4. Sleepy!Types'
    BY <1>0, <1>p, <2>1, <2>2, <2>3, ZenonT(60) DEF Sleepy!Types, Sleepy!WorkerPcs
  <2>5. Sleepy!SlotOK'
    BY <1>0, <1>t, <1>p, <2>1, <2>2, <2>3 DEF Sleepy!SlotOK, Sleepy!NotifyPcs
  <2>6. Sleepy!MutexOK'
    BY <1>0, <1>t, <2>1, <2>2 DEF Sleepy!MutexOK
  <2>7. Sleepy!SleepOK'
    BY <1>0, <1>t, <1>p, <1>r, <2>1, <2>2 DEF Sleepy!SleepOK, Sleepy!Asleep
  <2>8. \A v \in Workers : Sleepy!Counted(v)' <=> Sleepy!Counted(v)
    BY <1>t, <1>p, <2>1, <2>2, <2>3 DEF Sleepy!Counted
  <2>9. Sleepy!StateCounts'
    BY <1>0, <2>1, <2>8, TallySame
  <2>10. Sleepy!WorkOK'
    BY <1>p, <2>2, <2>3 DEF Sleepy!WorkOK, Sleepy!Resting, Sleepy!SlotOK
  <2> QED
    BY <2>4, <2>5, <2>6, <2>7, <2>9, <2>10 DEF Sleepy!IInv
<1>11. ASSUME NEW w \in Workers, Sleepy!StopFromSearch(w) PROVE Sleepy!IInv'
  <2>1. UNCHANGED <<state, mutex, sleepers, slot, flag, target, writePos, readPos, pos, cnt>>
    BY <1>11 DEF Sleepy!StopFromSearch, Sleepy!waiterVars, Sleepy!clientVars
  <2>2. /\ wpc[w] = "stop" /\ wpc' = [wpc EXCEPT ![w] = wpc'[w]]
        /\ wpc'[w] = "leave"
    BY <1>11, <1>t, <1>p DEF Sleepy!StopFromSearch, Sleepy!waiterVars, Sleepy!clientVars, Sleepy!Goto,
       Sleepy!SetSlot, Sleepy!AddState, Sleepy!AfterStop
  <2>3. slot[w] = "Search"
    BY <1>11 DEF Sleepy!StopFromSearch
  <2>4. Sleepy!Types'
    BY <1>0, <1>p, <2>1, <2>2, <2>3, ZenonT(60) DEF Sleepy!Types, Sleepy!WorkerPcs
  <2>5. Sleepy!SlotOK'
    BY <1>0, <1>t, <1>p, <2>1, <2>2, <2>3 DEF Sleepy!SlotOK
  <2>6. Sleepy!MutexOK'
    BY <1>0, <1>t, <2>1, <2>2 DEF Sleepy!MutexOK
  <2>7. Sleepy!SleepOK'
    BY <1>0, <1>t, <1>p, <1>r, <2>1, <2>2 DEF Sleepy!SleepOK, Sleepy!Asleep
  <2>8. \A v \in Workers : Sleepy!Counted(v)' <=> Sleepy!Counted(v)
    BY <1>t, <1>p, <2>1, <2>2, <2>3 DEF Sleepy!Counted, Sleepy!NotifyPcs
  <2>9. Sleepy!StateCounts'
    BY <1>0, <2>1, <2>8, TallySame
  <2>10. Sleepy!WorkOK'
    BY <2>1, <2>2 DEF Sleepy!WorkOK, Sleepy!Resting, Sleepy!SlotOK
  <2> QED
    BY <2>4, <2>5, <2>6, <2>7, <2>9, <2>10 DEF Sleepy!IInv
<1>12. ASSUME NEW w \in Workers, Sleepy!StopFromSleep(w) PROVE Sleepy!IInv'
  <2>1. UNCHANGED <<state, mutex, sleepers, flag, target, writePos, readPos, pos, cnt>>
    BY <1>12 DEF Sleepy!StopFromSleep, Sleepy!clientVars
  <2>2. /\ wpc[w] = "stop" /\ wpc' = [wpc EXCEPT ![w] = wpc'[w]]
        /\ wpc'[w] = "delist"
    BY <1>12, <1>t, <1>p DEF Sleepy!StopFromSleep, Sleepy!waiterVars, Sleepy!clientVars, Sleepy!Goto,
       Sleepy!SetSlot, Sleepy!AddState, Sleepy!AfterStop
  <2>3. slot[w] = "Sleep" /\ slot' = [slot EXCEPT ![w] = "Work"]
    BY <1>12 DEF Sleepy!StopFromSleep, Sleepy!SetSlot
  <2>4. Sleepy!Types'
    BY <1>0, <1>t, <1>p, <1>r, <2>1, <2>2, <2>3, ZenonT(60) DEF Sleepy!Types, Sleepy!WorkerPcs
  <2>5. Sleepy!SlotOK'
    BY <1>0, <1>t, <1>p, <2>1, <2>2, <2>3 DEF Sleepy!SlotOK, Sleepy!NotifyPcs
  <2>6. Sleepy!MutexOK'
    BY <1>0, <1>t, <2>1, <2>2 DEF Sleepy!MutexOK
  <2>7. Sleepy!SleepOK'
    BY <1>0, <1>t, <1>p, <1>r, <2>1, <2>2, <2>3 DEF Sleepy!SleepOK, Sleepy!Asleep
  <2>8. \A v \in Workers : Sleepy!Counted(v)' <=> Sleepy!Counted(v)
    BY <1>t, <1>p, <2>1, <2>2, <2>3 DEF Sleepy!Counted
  <2>9. Sleepy!StateCounts'
    BY <1>0, <2>1, <2>8, TallySame
  <2>10. Sleepy!WorkOK'
    BY <1>p, <1>r, <2>1, <2>2 DEF Sleepy!WorkOK, Sleepy!Resting, Sleepy!SlotOK, Sleepy!SleepOK
  <2> QED
    BY <2>4, <2>5, <2>6, <2>7, <2>9, <2>10 DEF Sleepy!IInv
<1>13. ASSUME NEW w \in Workers, Sleepy!Delist(w) PROVE Sleepy!IInv'
  <2>1. UNCHANGED <<mutex, slot, flag, target, writePos, readPos, pos, cnt>>
    BY <1>13 DEF Sleepy!Delist, Sleepy!clientVars
  <2>2. /\ wpc[w] = "delist" /\ wpc' = [wpc EXCEPT ![w] = wpc'[w]]
        /\ wpc'[w] = "leave"
    BY <1>13, <1>t, <1>p DEF Sleepy!Delist, Sleepy!waiterVars, Sleepy!clientVars, Sleepy!Goto, Sleepy!SetSlot,
       Sleepy!AddState, Sleepy!AfterStop
  <2>3. /\ state' \in [parked : Int, searching : Int]
        /\ state' = [parked |-> state.parked - 1, searching |-> state.searching + 1]
        /\ state'.parked = state.parked - 1 /\ state'.searching = state.searching + 1
    BY <1>13, <1>t DEF Sleepy!Delist, Sleepy!AddState
  <2>4. mutex = Sleepy!Nobody /\ Sleepy!Listed(w)
    BY <1>13 DEF Sleepy!Delist, Sleepy!Listed, Sleepy!Has
  <2>5. /\ sleepers' \in Seq(Workers) /\ Len(sleepers') = Len(sleepers) - 1 /\ Sleepy!IsInjective(sleepers')
        /\ \A v : Sleepy!Listed(v)' <=> v # w /\ Sleepy!Listed(v)
    <3>1. PICK i \in DOMAIN sleepers : sleepers[i] = w /\ sleepers' = Sleepy!RemoveAt(sleepers, i)
      BY <1>13 DEF Sleepy!Delist
    <3>2. /\ Sleepy!RemoveAt(sleepers, i) \in Seq(Workers) /\ Len(Sleepy!RemoveAt(sleepers, i)) = Len(sleepers) - 1
          /\ Sleepy!IsInjective(Sleepy!RemoveAt(sleepers, i))
          /\ \A v : Sleepy!Has(Sleepy!RemoveAt(sleepers, i), v) <=> v # sleepers[i] /\ Sleepy!Has(sleepers, v)
      BY <1>t, Leaves
    <3> QED
      BY <3>1, <3>2 DEF Sleepy!Listed
  <2>6. Sleepy!Types'
    <3>1. wpc' \in [Sleepy!Procs -> Sleepy!WorkerPcs \cup Sleepy!NotifyPcs \cup {"publish", "done"}]
      BY <1>t, <1>p, <2>2 DEF Sleepy!WorkerPcs
    <3> QED
      BY <1>t, <2>1, <2>3, <2>5, <3>1 DEF Sleepy!Types
  <2>7. Sleepy!SlotOK'
    BY <1>0, <1>t, <1>p, <2>1, <2>2 DEF Sleepy!SlotOK, Sleepy!NotifyPcs
  <2>8. Sleepy!MutexOK'
    BY <1>0, <1>t, <1>p, <2>1, <2>2, <2>4 DEF Sleepy!MutexOK
  <2>9. Sleepy!SleepOK'
    BY <1>0, <1>t, <1>p, <1>r, <2>1, <2>2, <2>4, <2>5 DEF Sleepy!SleepOK, Sleepy!Asleep, Sleepy!SlotOK
  <2>10. \A v \in Workers : v # w => (Sleepy!Counted(v)' <=> Sleepy!Counted(v))
    BY <1>t, <1>p, <1>r, <2>1, <2>2, <2>5 DEF Sleepy!Counted
  <2>11. ~Sleepy!Counted(w) /\ Sleepy!Counted(w)'
    BY <1>0, <1>r, <2>2, <2>4 DEF Sleepy!Counted, Sleepy!SlotOK
  <2>12. Sleepy!StateCounts'
    BY <1>0, <1>a, <2>10, <2>11, <2>3, <2>5, Tally
  <2>13. Sleepy!WorkOK'
    BY <2>5 DEF Sleepy!WorkOK, Sleepy!Resting
  <2> QED
    BY <2>6, <2>7, <2>8, <2>9, <2>12, <2>13 DEF Sleepy!IInv
<1>14. ASSUME NEW w \in Workers, Sleepy!CancelPark(w) PROVE Sleepy!IInv'
  <2>1. UNCHANGED <<state, mutex, sleepers, slot, target, writePos, readPos, pos, cnt>>
    BY <1>14 DEF Sleepy!CancelPark, Sleepy!clientVars
  <2>2. /\ wpc[w] = "delist" /\ wpc' = [wpc EXCEPT ![w] = wpc'[w]]
        /\ wpc'[w] = "leave"
    BY <1>14, <1>t, <1>p DEF Sleepy!CancelPark, Sleepy!waiterVars, Sleepy!clientVars, Sleepy!Goto,
       Sleepy!SetSlot, Sleepy!AddState, Sleepy!AfterStop
  <2>3. flag' = [flag EXCEPT ![w] = FALSE] /\ ~Sleepy!Listed(w) /\ mutex = Sleepy!Nobody
    BY <1>14, <1>r DEF Sleepy!CancelPark
  <2>4. \A v \in Workers : ~Sleepy!Taken(v)
    BY <1>0, <1>p, <2>3 DEF Sleepy!Taken, Sleepy!MutexOK
  <2>5. Sleepy!Types'
    BY <1>0, <1>p, <1>r, <2>1, <2>2, <2>3, <2>4 DEF Sleepy!Types, Sleepy!WorkerPcs
  <2>6. Sleepy!SlotOK'
    BY <1>0, <1>t, <1>p, <2>1, <2>2 DEF Sleepy!SlotOK, Sleepy!NotifyPcs
  <2>7. Sleepy!MutexOK'
    BY <1>0, <1>t, <2>1, <2>2 DEF Sleepy!MutexOK
  <2>8. Sleepy!SleepOK'
    BY <1>0, <1>t, <1>p, <1>r, <2>1, <2>2, <2>3, <2>4 DEF Sleepy!SleepOK, Sleepy!Asleep, Sleepy!SlotOK
  <2>9. \A v \in Workers : Sleepy!Counted(v)' <=> Sleepy!Counted(v)
    BY <1>t, <1>p, <1>r, <2>1, <2>2, <2>3 DEF Sleepy!Counted
  <2>10. Sleepy!StateCounts'
    BY <1>0, <2>1, <2>9, TallySame
  <2>11. Sleepy!WorkOK'
    BY <1>r, <2>1, <2>3 DEF Sleepy!WorkOK, Sleepy!Resting
  <2> QED
    BY <2>5, <2>6, <2>7, <2>8, <2>10, <2>11 DEF Sleepy!IInv
<1>15. ASSUME NEW w \in Workers, Sleepy!Leave(w) PROVE Sleepy!IInv'
  <2>1. UNCHANGED <<mutex, sleepers, flag, target, writePos, readPos, pos, cnt>>
    BY <1>15 DEF Sleepy!Leave, Sleepy!clientVars
  <2>2. /\ wpc[w] = "leave" /\ wpc' = [wpc EXCEPT ![w] = wpc'[w]]
        /\ wpc'[w] \in {"notify", "take", "done"}
    BY <1>15, <1>t, <1>p DEF Sleepy!Leave, Sleepy!Goto, Sleepy!AfterStop
  <2>3. /\ state' \in [parked : Int, searching : Int]
        /\ state' = [parked |-> state.parked, searching |-> state.searching - 1]
        /\ state'.parked = state.parked /\ state'.searching = state.searching - 1
    BY <1>15, <1>t DEF Sleepy!Leave, Sleepy!AddState
  <2>4. slot' = [slot EXCEPT ![w] = slot'[w]] /\ slot'[w] = IF wpc'[w] = "notify" THEN "Search" ELSE "Work"
    BY <1>15, <1>t, <1>p DEF Sleepy!Leave, Sleepy!Goto, Sleepy!SetSlot, Sleepy!AfterStop
  <2>5. slot' \in [Workers -> {"Search", "Work", "Sleep"}]
    BY <1>t, <2>4
  <2>6. wpc' \in [Sleepy!Procs -> Sleepy!WorkerPcs \cup Sleepy!NotifyPcs \cup {"publish", "done"}]
    BY <1>p, <1>t, <2>2 DEF Sleepy!WorkerPcs, Sleepy!NotifyPcs
  <2>7. Sleepy!Types'
    BY <1>t, <2>1, <2>3, <2>5, <2>6 DEF Sleepy!Types
  <2>8. Sleepy!SlotOK'
    BY <1>0, <1>t, <1>p, <2>1, <2>2, <2>4 DEF Sleepy!SlotOK, Sleepy!NotifyPcs
  <2>9. Sleepy!MutexOK'
    BY <1>0, <1>t, <2>1, <2>2 DEF Sleepy!MutexOK
  <2>10. Sleepy!SleepOK'
    BY <1>0, <1>t, <1>p, <1>r, <2>1, <2>2, <2>4 DEF Sleepy!SleepOK, Sleepy!Asleep, Sleepy!SlotOK
  <2>11. \A v \in Workers : v # w => (Sleepy!Counted(v)' <=> Sleepy!Counted(v))
    BY <1>t, <1>p, <2>1, <2>2, <2>4 DEF Sleepy!Counted
  <2>12. Sleepy!Counted(w) /\ ~Sleepy!Counted(w)'
    BY <2>2, <2>4 DEF Sleepy!Counted, Sleepy!NotifyPcs
  <2>13. Sleepy!StateCounts'
    BY <1>0, <1>a, <2>11, <2>12, <2>1, <2>3, Tally
  <2>14. Sleepy!WorkOK'
    BY <1>r, <2>1, <2>2, <2>4, <2>5, <2>6 DEF Sleepy!WorkOK, Sleepy!Resting, Sleepy!SlotOK, Sleepy!SleepOK
  <2> QED
    BY <2>7, <2>8, <2>9, <2>10, <2>13, <2>14 DEF Sleepy!IInv
<1>16. ASSUME NEW p \in Sleepy!Procs, Sleepy!NotifySkip(p) PROVE Sleepy!IInv'
  <2>1. UNCHANGED <<state, mutex, sleepers, flag, target, writePos, readPos, pos, cnt>>
    BY <1>16 DEF Sleepy!NotifySkip, Sleepy!clientVars
  <2>2. wpc[p] = "notify"
    BY <1>16 DEF Sleepy!NotifySkip
  <2>3. /\ (p \in Workers => wpc'[p] \in {"take", "done"} /\ slot'[p] = "Work")
        /\ (p \in Writers => wpc'[p] \in {"publish", "done"})
        /\ wpc' = [wpc EXCEPT ![p] = wpc'[p]]
    BY <1>16, <1>t, <1>p DEF Sleepy!NotifySkip, Sleepy!Goto, Sleepy!AfterStop, Sleepy!AfterNotify,
       Sleepy!ReturnFromNotify
  <2>4. /\ slot' \in [Workers -> {"Search", "Work", "Sleep"}]
        /\ \A v \in Workers : v # p => slot'[v] = slot[v] /\ wpc'[v] = wpc[v]
    BY <1>16, <1>t DEF Sleepy!NotifySkip, Sleepy!Goto, Sleepy!ReturnFromNotify
  <2>5. state.searching > 0 \/ state.parked = 0
    BY <1>16 DEF Sleepy!NotifySkip
  <2>6. \A v \in Workers : Sleepy!Asleep(v)' <=> Sleepy!Asleep(v)
    BY <1>0, <2>2, <2>3, <2>4 DEF Sleepy!Asleep, Sleepy!SlotOK, Sleepy!NotifyPcs
  <2>7. wpc' \in [Sleepy!Procs -> Sleepy!WorkerPcs \cup Sleepy!NotifyPcs \cup {"publish", "done"}]
    BY <1>p, <1>t, <2>3 DEF Sleepy!WorkerPcs
  <2>8. Sleepy!Types'
    BY <1>0, <2>1, <2>4, <2>7 DEF Sleepy!Types
  <2>9. Sleepy!SlotOK'
    BY <1>0, <2>1, <2>3, <2>4 DEF Sleepy!SlotOK, Sleepy!NotifyPcs
  <2>10. Sleepy!MutexOK'
    BY <1>0, <1>t, <1>p, <2>1, <2>2, <2>3 DEF Sleepy!MutexOK
  <2>11. Sleepy!SleepOK'
    BY <1>0, <1>r, <2>1, <2>6 DEF Sleepy!SleepOK
  <2>12. \A v \in Workers : Sleepy!Counted(v)' <=> Sleepy!Counted(v)
    BY <1>0, <2>1, <2>2, <2>3, <2>4 DEF Sleepy!Counted, Sleepy!SlotOK, Sleepy!NotifyPcs
  <2>13. Sleepy!StateCounts'
    BY <1>0, <2>1, <2>12, TallySame
  <2>14. Sleepy!WorkOK'
    <3>1. CASE p \in Workers
      BY <2>3, <3>1 DEF Sleepy!WorkOK, Sleepy!Resting
    <3>2. CASE p \notin Workers
      <4>1. \A v \in Workers : wpc'[v] = wpc[v]
        BY <3>2, <2>4
      <4>2. \E v \in Workers : Sleepy!Counted(v) \/ ~Sleepy!Listed(v)
        BY <1>a, <1>c, <1>p, <2>5 DEF Sleepy!Listed, Sleepy!Has
      <4>3. \E v \in Workers : ~Sleepy!Resting(v)'
        BY <1>q, <1>r, <2>1, <4>1, <4>2 DEF Sleepy!Resting
      <4> QED
        BY <4>3 DEF Sleepy!WorkOK
    <3> QED
      BY <3>1, <3>2
  <2> QED
    BY <2>8, <2>9, <2>10, <2>11, <2>13, <2>14 DEF Sleepy!IInv
<1>17. ASSUME NEW p \in Sleepy!Procs, Sleepy!NotifySlow(p) PROVE Sleepy!IInv'
  <2>1. UNCHANGED <<state, mutex, sleepers, slot, flag, target, writePos, readPos, pos, cnt>>
    BY <1>17 DEF Sleepy!NotifySlow, Sleepy!waiterVars, Sleepy!clientVars
  <2>2. /\ wpc[p] = "notify" /\ wpc' = [wpc EXCEPT ![p] = wpc'[p]]
        /\ wpc'[p] = "lock"
    BY <1>17, <1>t DEF Sleepy!NotifySlow, Sleepy!Goto
  <2>3. Sleepy!Types'
    BY <1>0, <1>p, <2>1, <2>2, ZenonT(60) DEF Sleepy!Types, Sleepy!NotifyPcs
  <2>4. Sleepy!SlotOK'
    BY <1>0, <1>t, <1>p, <2>1, <2>2 DEF Sleepy!SlotOK, Sleepy!NotifyPcs
  <2>5. Sleepy!MutexOK'
    BY <1>0, <1>t, <2>1, <2>2 DEF Sleepy!MutexOK
  <2>6. Sleepy!SleepOK'
    BY <1>0, <1>t, <1>p, <1>r, <2>1, <2>2 DEF Sleepy!SleepOK, Sleepy!Asleep
  <2>7. \A v \in Workers : Sleepy!Counted(v)' <=> Sleepy!Counted(v)
    BY <1>t, <1>p, <2>1, <2>2 DEF Sleepy!Counted, Sleepy!NotifyPcs
  <2>8. Sleepy!StateCounts'
    BY <1>0, <2>1, <2>7, TallySame
  <2>9. Sleepy!WorkOK'
    BY <1>p, <2>1, <2>2 DEF Sleepy!WorkOK, Sleepy!Resting, Sleepy!SlotOK, Sleepy!NotifyPcs
  <2> QED
    BY <2>3, <2>4, <2>5, <2>6, <2>8, <2>9 DEF Sleepy!IInv
<1>18. ASSUME NEW p \in Sleepy!Procs, Sleepy!NotifyLock(p) PROVE Sleepy!IInv'
  <2>1. UNCHANGED <<state, sleepers, slot, flag, target, writePos, readPos, pos, cnt>>
    BY <1>18 DEF Sleepy!NotifyLock, Sleepy!clientVars
  <2>2. /\ wpc[p] = "lock" /\ wpc' = [wpc EXCEPT ![p] = wpc'[p]]
        /\ wpc'[p] = "locked"
    BY <1>18, <1>t DEF Sleepy!NotifyLock, Sleepy!Goto
  <2>3. mutex = Sleepy!Nobody /\ mutex' = p
    BY <1>18 DEF Sleepy!NotifyLock
  <2>4. Sleepy!Types'
    BY <1>0, <2>1, <2>2, <2>3 DEF Sleepy!Types, Sleepy!NotifyPcs
  <2>5. Sleepy!SlotOK'
    BY <1>0, <1>t, <1>p, <2>1, <2>2 DEF Sleepy!SlotOK, Sleepy!NotifyPcs
  <2>6. Sleepy!MutexOK'
    BY <1>0, <1>t, <1>p, <2>1, <2>2, <2>3 DEF Sleepy!MutexOK
  <2>7. Sleepy!SleepOK'
    BY <1>0, <1>t, <1>p, <1>r, <2>1, <2>2 DEF Sleepy!SleepOK, Sleepy!Asleep
  <2>8. \A v \in Workers : Sleepy!Counted(v)' <=> Sleepy!Counted(v)
    BY <1>t, <1>p, <2>1, <2>2 DEF Sleepy!Counted, Sleepy!NotifyPcs
  <2>9. Sleepy!StateCounts'
    BY <1>0, <2>1, <2>8, TallySame
  <2>10. Sleepy!WorkOK'
    BY <1>p, <1>r, <2>1, <2>2, <2>3 DEF Sleepy!WorkOK, Sleepy!Resting, Sleepy!SleepOK, Sleepy!NotifyPcs
  <2> QED
    BY <2>4, <2>5, <2>6, <2>7, <2>9, <2>10 DEF Sleepy!IInv
<1>19. ASSUME NEW p \in Sleepy!Procs, Sleepy!NotifyGiveUp(p) PROVE Sleepy!IInv'
  <2>1. UNCHANGED <<state, sleepers, flag, target, writePos, readPos, pos, cnt>>
    BY <1>19 DEF Sleepy!NotifyGiveUp, Sleepy!clientVars
  <2>2. wpc[p] = "locked"
    BY <1>19 DEF Sleepy!NotifyGiveUp
  <2>3. /\ (p \in Workers => wpc'[p] \in {"take", "done"} /\ slot'[p] = "Work")
        /\ (p \in Writers => wpc'[p] \in {"publish", "done"})
        /\ wpc' = [wpc EXCEPT ![p] = wpc'[p]]
    BY <1>19, <1>t, <1>p DEF Sleepy!NotifyGiveUp, Sleepy!Goto, Sleepy!AfterStop, Sleepy!AfterNotify,
       Sleepy!ReturnFromNotify
  <2>4. /\ slot' \in [Workers -> {"Search", "Work", "Sleep"}]
        /\ \A v \in Workers : v # p => slot'[v] = slot[v] /\ wpc'[v] = wpc[v]
    BY <1>19, <1>t DEF Sleepy!NotifyGiveUp, Sleepy!Goto, Sleepy!ReturnFromNotify
  <2>5. mutex' = Sleepy!Nobody /\ (state.searching > 0 \/ sleepers = <<>>)
    BY <1>19 DEF Sleepy!NotifyGiveUp
  <2>6. \A v \in Workers : Sleepy!Asleep(v)' <=> Sleepy!Asleep(v)
    BY <1>0, <2>2, <2>3, <2>4 DEF Sleepy!Asleep, Sleepy!SlotOK, Sleepy!NotifyPcs
  <2>7. wpc' \in [Sleepy!Procs -> Sleepy!WorkerPcs \cup Sleepy!NotifyPcs \cup {"publish", "done"}]
    BY <1>p, <1>t, <2>3 DEF Sleepy!WorkerPcs
  <2>8. Sleepy!Types'
    BY <1>t, <2>1, <2>4, <2>5, <2>7 DEF Sleepy!Types
  <2>9. Sleepy!SlotOK'
    BY <1>0, <2>1, <2>3, <2>4 DEF Sleepy!SlotOK, Sleepy!NotifyPcs
  <2>10. Sleepy!MutexOK'
    BY <1>0, <1>t, <1>p, <2>1, <2>2, <2>3, <2>5 DEF Sleepy!MutexOK
  <2>11. Sleepy!SleepOK'
    BY <1>0, <1>r, <2>1, <2>6 DEF Sleepy!SleepOK
  <2>12. \A v \in Workers : Sleepy!Counted(v)' <=> Sleepy!Counted(v)
    BY <1>0, <2>1, <2>2, <2>3, <2>4 DEF Sleepy!Counted, Sleepy!SlotOK, Sleepy!NotifyPcs
  <2>13. Sleepy!StateCounts'
    BY <1>0, <2>1, <2>12, TallySame
  <2>14. Sleepy!WorkOK'
    <3>1. CASE p \in Workers
      BY <2>3, <3>1 DEF Sleepy!WorkOK, Sleepy!Resting
    <3>2. CASE p \notin Workers
      <4>1. \A v \in Workers : wpc'[v] = wpc[v]
        BY <3>2, <2>4
      <4>2. \E v \in Workers : Sleepy!Counted(v) \/ ~Sleepy!Listed(v)
        BY <1>c, <1>p, <2>5 DEF Sleepy!Listed, Sleepy!Has
      <4>3. \E v \in Workers : ~Sleepy!Resting(v)'
        BY <1>q, <1>r, <2>1, <4>1, <4>2 DEF Sleepy!Resting
      <4> QED
        BY <4>3 DEF Sleepy!WorkOK
    <3> QED
      BY <3>1, <3>2
  <2> QED
    BY <2>8, <2>9, <2>10, <2>11, <2>13, <2>14 DEF Sleepy!IInv
<1>20. ASSUME NEW p \in Sleepy!Procs, Sleepy!NotifyChoose(p) PROVE Sleepy!IInv'
  <2>1. UNCHANGED <<state, mutex, sleepers, slot, flag, target, writePos, readPos, pos, cnt>>
    BY <1>20 DEF Sleepy!NotifyChoose, Sleepy!waiterVars, Sleepy!clientVars
  <2>2. /\ wpc[p] = "locked" /\ wpc' = [wpc EXCEPT ![p] = wpc'[p]]
        /\ wpc'[p] = "pop"
    BY <1>20, <1>t DEF Sleepy!NotifyChoose, Sleepy!Goto
  <2>3. sleepers # <<>>
    BY <1>20 DEF Sleepy!NotifyChoose
  <2>4. Sleepy!Types'
    BY <1>0, <1>p, <2>1, <2>2, ZenonT(60) DEF Sleepy!Types, Sleepy!NotifyPcs
  <2>5. Sleepy!SlotOK'
    BY <1>0, <1>t, <1>p, <2>1, <2>2 DEF Sleepy!SlotOK, Sleepy!NotifyPcs
  <2>6. Sleepy!MutexOK'
    BY <1>0, <1>t, <2>1, <2>2, <2>3 DEF Sleepy!MutexOK
  <2>7. Sleepy!SleepOK'
    BY <1>0, <1>t, <1>p, <1>r, <2>1, <2>2 DEF Sleepy!SleepOK, Sleepy!Asleep
  <2>8. \A v \in Workers : Sleepy!Counted(v)' <=> Sleepy!Counted(v)
    BY <1>t, <1>p, <2>1, <2>2 DEF Sleepy!Counted, Sleepy!NotifyPcs
  <2>9. Sleepy!StateCounts'
    BY <1>0, <2>1, <2>8, TallySame
  <2>10. Sleepy!WorkOK'
    BY <1>p, <1>r, <2>1, <2>2, <2>3 DEF Sleepy!WorkOK, Sleepy!Resting, Sleepy!NotifyPcs
  <2> QED
    BY <2>4, <2>5, <2>6, <2>7, <2>9, <2>10 DEF Sleepy!IInv
<1>21. ASSUME NEW p \in Sleepy!Procs, Sleepy!NotifyPop(p) PROVE Sleepy!IInv'
  <2>1. UNCHANGED <<mutex, slot, flag, writePos, readPos, pos, cnt>>
    BY <1>21 DEF Sleepy!NotifyPop, Sleepy!clientVars
  <2>2. /\ wpc[p] = "pop" /\ wpc' = [wpc EXCEPT ![p] = wpc'[p]]
        /\ wpc'[p] = "unpark"
    BY <1>21, <1>t DEF Sleepy!NotifyPop, Sleepy!Goto
  <2>3. /\ state' \in [parked : Int, searching : Int]
        /\ state' = [parked |-> state.parked - 1, searching |-> state.searching + 1]
        /\ state'.parked = state.parked - 1 /\ state'.searching = state.searching + 1
    BY <1>21, <1>t DEF Sleepy!NotifyPop, Sleepy!AddState
  <2>4. /\ mutex = p /\ sleepers # <<>>
        /\ target[p] = Sleepy!Nobody /\ \A q \in Sleepy!Procs : target[q] = Sleepy!Nobody
    BY <1>0, <2>2 DEF Sleepy!MutexOK
  <2>5. PICK z \in Workers : /\ Sleepy!Listed(z) /\ target' = [target EXCEPT ![p] = z] /\ sleepers' \in Seq(Workers)
                    /\ Len(sleepers') = Len(sleepers) - 1 /\ Sleepy!IsInjective(sleepers')
                    /\ \A u : Sleepy!Listed(u)' <=> u # z /\ Sleepy!Listed(u)
    <3>1. Len(sleepers) \in DOMAIN sleepers /\ sleepers[Len(sleepers)] \in Workers
      BY <1>t, <2>4
    <3>2. /\ Sleepy!Front(sleepers) \in Seq(Workers) /\ Len(Sleepy!Front(sleepers)) = Len(sleepers) - 1
          /\ Sleepy!IsInjective(Sleepy!Front(sleepers))
          /\ \A u : Sleepy!Has(Sleepy!Front(sleepers), u) <=> u # sleepers[Len(sleepers)] /\ Sleepy!Has(sleepers, u)
      BY <1>t, <3>1, Leaves
    <3>3. sleepers' = Sleepy!Front(sleepers) /\ target' = [target EXCEPT ![p] = sleepers[Len(sleepers)]]
      BY <1>21 DEF Sleepy!NotifyPop, Sleepy!Last
    <3>4. Sleepy!Has(sleepers, sleepers[Len(sleepers)])
      BY <3>1 DEF Sleepy!Has
    <3> QED
      BY <3>1, <3>2, <3>3, <3>4 DEF Sleepy!Listed
  <2>6. \A u \in Workers : ~Sleepy!Taken(u) /\ (Sleepy!Taken(u)' <=> u = z)
    BY <1>t, <1>p, <2>4, <2>5 DEF Sleepy!Taken
  <2>7. target' \in [Sleepy!Procs -> Workers \cup {Sleepy!Nobody}] /\ state'.parked = Len(sleepers')
    BY <1>a, <1>t, <2>3, <2>5
  <2>8. Sleepy!Types'
    BY <1>t, <2>1, <2>2, <2>3, <2>5 DEF Sleepy!Types, Sleepy!NotifyPcs
  <2>9. Sleepy!SlotOK'
    BY <1>0, <1>t, <1>p, <2>1, <2>2 DEF Sleepy!SlotOK, Sleepy!NotifyPcs
  <2>10. Sleepy!MutexOK'
    BY <1>0, <1>t, <1>p, <2>1, <2>2, <2>5 DEF Sleepy!MutexOK
  <2>11. Sleepy!SleepOK'
    BY <1>0, <1>t, <1>p, <2>1, <2>2, <2>5, <2>6 DEF Sleepy!SleepOK, Sleepy!Asleep
  <2>12. \A v \in Workers : v # z => (Sleepy!Counted(v)' <=> Sleepy!Counted(v))
    BY <1>t, <1>p, <1>r, <2>1, <2>2, <2>5 DEF Sleepy!Counted, Sleepy!Asleep, Sleepy!NotifyPcs
  <2>13. ~Sleepy!Counted(z) /\ Sleepy!Counted(z)'
    BY <1>0, <1>t, <1>p, <1>r, <2>1, <2>2, <2>5 DEF Sleepy!Counted, Sleepy!SlotOK, Sleepy!SleepOK, Sleepy!Asleep
  <2>14. Sleepy!StateCounts'
    BY <1>0, <1>a, <2>12, <2>13, <2>3, <2>5, Tally
  <2>15. Sleepy!WorkOK'
    BY <2>5 DEF Sleepy!WorkOK, Sleepy!Resting
  <2> QED
    BY <2>8, <2>9, <2>10, <2>11, <2>14, <2>15 DEF Sleepy!IInv
<1>22. ASSUME NEW p \in Sleepy!Procs, Sleepy!Unpark(p) PROVE Sleepy!IInv'
  <2>1. UNCHANGED <<state, sleepers, writePos, readPos, pos, cnt>>
    BY <1>22 DEF Sleepy!Unpark, Sleepy!clientVars
  <2>2. wpc[p] = "unpark"
    BY <1>22 DEF Sleepy!Unpark
  <2>3. /\ (p \in Workers => wpc'[p] \in {"take", "done"} /\ slot'[p] = "Work")
        /\ (p \in Writers => wpc'[p] \in {"publish", "done"})
        /\ wpc' = [wpc EXCEPT ![p] = wpc'[p]]
    BY <1>22, <1>t, <1>p DEF Sleepy!Unpark, Sleepy!Goto, Sleepy!AfterStop, Sleepy!AfterNotify,
       Sleepy!ReturnFromNotify
  <2>4. /\ slot' \in [Workers -> {"Search", "Work", "Sleep"}]
        /\ \A v \in Workers : v # p => slot'[v] = slot[v] /\ wpc'[v] = wpc[v]
    BY <1>22, <1>t DEF Sleepy!Unpark, Sleepy!Goto, Sleepy!ReturnFromNotify
  <2>5. mutex' = Sleepy!Nobody /\ mutex = p /\ \A q \in Sleepy!Procs : target[q] # Sleepy!Nobody => q = p
    BY <1>22, <1>0 DEF Sleepy!Unpark, Sleepy!MutexOK
  <2>6. /\ target[p] \in Workers /\ flag' = [flag EXCEPT ![target[p]] = TRUE]
        /\ target' = [target EXCEPT ![p] = Sleepy!Nobody]
    BY <1>22, <1>0, <1>t DEF Sleepy!Unpark, Sleepy!MutexOK
  <2>7. \A q \in Sleepy!Procs : target'[q] = Sleepy!Nobody
    BY <1>t, <2>5, <2>6
  <2>8. \A v \in Workers : ~Sleepy!Taken(v)' /\ (Sleepy!Taken(v) <=> v = target[p])
    BY <1>t, <1>p, <2>5, <2>6 DEF Sleepy!Taken
  <2>9. \A v \in Workers : Sleepy!Asleep(v)' <=> Sleepy!Asleep(v)
    BY <1>0, <2>2, <2>3, <2>4 DEF Sleepy!Asleep, Sleepy!SlotOK, Sleepy!NotifyPcs
  <2>10. wpc' \in [Sleepy!Procs -> Sleepy!WorkerPcs \cup Sleepy!NotifyPcs \cup {"publish", "done"}]
    BY <1>p, <1>t, <2>3 DEF Sleepy!WorkerPcs
  <2>11. /\ flag' \in [Workers -> BOOLEAN]
         /\ target' \in [Sleepy!Procs -> Workers \cup {Sleepy!Nobody}]
         /\ mutex' = Sleepy!Nobody
    BY <1>t, <2>5, <2>6
  <2>12. \A v \in Workers : flag'[v] = IF v = target[p] THEN TRUE ELSE flag[v]
    BY <1>t, <2>6
  <2>13. Sleepy!Types'
    BY <1>t, <2>1, <2>4, <2>10, <2>11 DEF Sleepy!Types
  <2>14. Sleepy!SlotOK'
    BY <1>0, <2>1, <2>3, <2>4 DEF Sleepy!SlotOK, Sleepy!NotifyPcs
  <2>15. Sleepy!MutexOK'
    BY <1>0, <1>t, <1>p, <2>3, <2>5, <2>6 DEF Sleepy!MutexOK
  <2>16. Sleepy!SleepOK'
    BY <1>0, <1>r, <2>1, <2>6, <2>8, <2>9, <2>12 DEF Sleepy!SleepOK
  <2>17. \A v \in Workers : Sleepy!Counted(v)' <=> Sleepy!Counted(v)
    BY <1>0, <2>1, <2>2, <2>3, <2>4 DEF Sleepy!Counted, Sleepy!SlotOK, Sleepy!NotifyPcs
  <2>18. Sleepy!StateCounts'
    BY <1>0, <2>1, <2>17, TallySame
  <2>19. Sleepy!WorkOK'
    BY <1>0, <1>r, <2>1, <2>6, <2>8 DEF Sleepy!WorkOK, Sleepy!Resting, Sleepy!SleepOK
  <2> QED
    BY <2>13, <2>14, <2>15, <2>16, <2>18, <2>19 DEF Sleepy!IInv
<1>23. CASE Sleepy!Finished
  BY <1>23 DEF Sleepy!Finished, Sleepy!vars, Sleepy!waiterVars, Sleepy!clientVars, Sleepy!IInv, Sleepy!Types,
     Sleepy!SlotOK, Sleepy!MutexOK, Sleepy!SleepOK, Sleepy!Asleep, Sleepy!Listed, Sleepy!Taken,
     Sleepy!StateCounts, Sleepy!Counted, Sleepy!WorkOK, Sleepy!Resting
<1> QED
  BY <1>1, <1>2, <1>3, <1>4, <1>5, <1>6, <1>7, <1>8, <1>9, <1>10, <1>11, <1>12, <1>13, <1>14, <1>15, <1>16,
     <1>17, <1>18, <1>19, <1>20, <1>21, <1>22, <1>23 DEF Sleepy!Next, Sleepy!ClientCalls, Sleepy!ClientStep,
     Sleepy!Worker, Sleepy!Notify

(* A step of any thread keeps the inductive invariant of the eager waiter.  *)
LEMMA EagerStep == ASSUME EagerThreadsOK, Eager!IInv, Eager!Next PROVE Eager!IInv'
<1>0. Eager!Types /\ Eager!PlaceOK /\ Eager!SleeperIsSeen /\ Eager!WorkOK
  BY DEF Eager!IInv
<1>t. /\ state \in [worker : EagerWorkers \cup {Eager!Nobody}, asleep : BOOLEAN]
      /\ seen \in [EagerWorkers -> [worker : EagerWorkers \cup {Eager!Nobody}, asleep : BOOLEAN]]
      /\ yields \in [EagerWorkers -> 0 .. RoundsTillAsleep]
      /\ mutex \in EagerWorkers \cup {Eager!Nobody}
      /\ wpc \in [Eager!Procs -> Eager!WorkerPcs \cup Eager!NotifyPcs \cup {"publish", "done"}]
      /\ readPos \in Nat /\ writePos \in Nat /\ pos \in [EagerWorkers -> Nat]
  BY <1>0 DEF Eager!Types
<1>p. /\ Eager!Nobody \notin Eager!Procs /\ Eager!Nobody \notin EagerWorkers
      /\ EagerEndPos \in Nat /\ EagerWriteCnt \in Nat
      /\ RoundsTillSleepy \in Nat /\ RoundsTillAsleep \in Nat /\ RoundsTillSleepy < RoundsTillAsleep
      /\ \A v \in EagerWorkers : v \in Eager!Procs /\ v \notin EagerWriters
      /\ \A p \in EagerWriters : p \in Eager!Procs /\ p \notin EagerWorkers
      /\ \A p \in Eager!Procs : p \in EagerWorkers \/ p \in EagerWriters
  BY DEF EagerThreadsOK, Eager!Procs
<1>s. /\ Eager!Awake \in [worker : EagerWorkers \cup {Eager!Nobody}, asleep : BOOLEAN]
      /\ Eager!Asleep \in [worker : EagerWorkers \cup {Eager!Nobody}, asleep : BOOLEAN]
      /\ Eager!Awake.worker = Eager!Nobody /\ ~Eager!Awake.asleep
      /\ Eager!Asleep.worker = Eager!Nobody /\ Eager!Asleep.asleep
  BY DEF Eager!Awake, Eager!Asleep
<1>1. ASSUME NEW w \in EagerWorkers, Eager!Look(w), UNCHANGED Eager!waiterVars PROVE Eager!IInv'
  <2>1. UNCHANGED <<state, seen, yields, mutex, writePos, readPos>>
    BY <1>1 DEF Eager!Look, Eager!Load, Eager!SetYields, Eager!waiterVars, Eager!clientVars
  <2>2. /\ wpc[w] = "look" /\ wpc' = [wpc EXCEPT ![w] = wpc'[w]]
        /\ wpc'[w] \in {"stop", "compare"}
    BY <1>1, <1>t, <1>p DEF Eager!Look, Eager!Goto, Eager!SetYields, Eager!Load, Eager!Forget, Eager!HasWorker,
       Eager!StillSleepy, Eager!AfterStop, Eager!AfterNotify, Eager!Awake, Eager!waiterVars, Eager!clientVars
  <2>3. pos' = [pos EXCEPT ![w] = readPos]
    BY <1>1, <1>t, <1>p DEF Eager!Look, Eager!Goto, Eager!SetYields, Eager!Load, Eager!Forget, Eager!HasWorker,
       Eager!StillSleepy, Eager!AfterStop, Eager!AfterNotify, Eager!Awake, Eager!waiterVars, Eager!clientVars
  <2>4. Eager!Types'
    BY <1>0, <1>t, <1>p, <1>s, <2>1, <2>2, <2>3 DEF Eager!Types, Eager!PlaceOK, Eager!WorkerPcs, Eager!NotifyPcs
  <2>5. Eager!PlaceOK'
    BY <1>0, <1>t, <1>p, <1>s, <2>1, <2>2, <2>3 DEF Eager!PlaceOK
  <2>6. Eager!SleeperIsSeen'
    BY <1>0, <1>t, <1>p, <1>s, <2>1, <2>2, <2>3 DEF Eager!SleeperIsSeen
  <2>7. Eager!WorkOK'
    BY <1>0, <1>t, <1>p, <1>s, <2>1, <2>2, <2>3 DEF Eager!WorkOK, Eager!Untold, Eager!PlaceOK
  <2> QED
    BY <2>4, <2>5, <2>6, <2>7 DEF Eager!IInv
<1>2. ASSUME NEW w \in EagerWorkers, Eager!Compare(w), UNCHANGED Eager!waiterVars PROVE Eager!IInv'
  <2>1. UNCHANGED <<state, seen, yields, mutex, writePos, readPos, pos>>
    BY <1>2 DEF Eager!Compare, Eager!Load, Eager!SetYields, Eager!waiterVars, Eager!clientVars
  <2>2. /\ wpc[w] = "compare" /\ wpc' = [wpc EXCEPT ![w] = wpc'[w]]
        /\ wpc'[w] \in {"wait", "stop"}
    BY <1>2, <1>t, <1>p DEF Eager!Compare, Eager!Goto, Eager!SetYields, Eager!Load, Eager!Forget,
       Eager!HasWorker, Eager!StillSleepy, Eager!AfterStop, Eager!AfterNotify, Eager!Awake, Eager!waiterVars,
       Eager!clientVars
  <2>3. wpc'[w] = "wait" => pos[w] = writePos
    BY <1>2, <1>t, <1>p DEF Eager!Compare, Eager!Goto, Eager!SetYields, Eager!Load, Eager!Forget,
       Eager!HasWorker, Eager!StillSleepy, Eager!AfterStop, Eager!AfterNotify, Eager!Awake, Eager!waiterVars,
       Eager!clientVars
  <2>4. Eager!Types'
    BY <1>0, <1>t, <1>p, <1>s, <2>1, <2>2, <2>3 DEF Eager!Types, Eager!PlaceOK, Eager!WorkerPcs, Eager!NotifyPcs
  <2>5. Eager!PlaceOK'
    BY <1>0, <1>t, <1>p, <1>s, <2>1, <2>2, <2>3 DEF Eager!PlaceOK
  <2>6. Eager!SleeperIsSeen'
    BY <1>0, <1>t, <1>p, <1>s, <2>1, <2>2, <2>3 DEF Eager!SleeperIsSeen
  <2>7. Eager!WorkOK'
    BY <1>0, <1>t, <1>p, <1>s, <2>1, <2>2, <2>3 DEF Eager!WorkOK, Eager!Untold, Eager!PlaceOK
  <2> QED
    BY <2>4, <2>5, <2>6, <2>7 DEF Eager!IInv
<1>3. ASSUME NEW w \in EagerWorkers, Eager!Take(w), UNCHANGED Eager!waiterVars PROVE Eager!IInv'
  <2>1. UNCHANGED <<state, seen, yields, mutex, writePos, pos>>
    BY <1>3 DEF Eager!Take, Eager!Load, Eager!SetYields, Eager!waiterVars, Eager!clientVars
  <2>2. /\ wpc[w] = "take" /\ wpc' = [wpc EXCEPT ![w] = wpc'[w]]
        /\ wpc'[w] = "look"
    BY <1>3, <1>t, <1>p DEF Eager!Take, Eager!Goto, Eager!SetYields, Eager!Load, Eager!Forget, Eager!HasWorker,
       Eager!StillSleepy, Eager!AfterStop, Eager!AfterNotify, Eager!Awake, Eager!waiterVars, Eager!clientVars
  <2>3. readPos' = readPos \/ (readPos = pos[w] /\ readPos' = readPos + 1)
    BY <1>3, <1>t, <1>p DEF Eager!Take, Eager!Goto, Eager!SetYields, Eager!Load, Eager!Forget, Eager!HasWorker,
       Eager!StillSleepy, Eager!AfterStop, Eager!AfterNotify, Eager!Awake, Eager!waiterVars, Eager!clientVars
  <2>4. Eager!Types'
    BY <1>0, <1>t, <1>p, <1>s, <2>1, <2>2, <2>3 DEF Eager!Types, Eager!PlaceOK, Eager!WorkerPcs, Eager!NotifyPcs
  <2>5. Eager!PlaceOK'
    BY <1>0, <1>t, <1>p, <1>s, <2>1, <2>2, <2>3 DEF Eager!PlaceOK
  <2>6. Eager!SleeperIsSeen'
    BY <1>0, <1>t, <1>p, <1>s, <2>1, <2>2, <2>3 DEF Eager!SleeperIsSeen
  <2>7. Eager!WorkOK'
    BY <1>0, <1>t, <1>p, <1>s, <2>1, <2>2, <2>3 DEF Eager!WorkOK, Eager!Untold, Eager!PlaceOK
  <2> QED
    BY <2>4, <2>5, <2>6, <2>7 DEF Eager!IInv
<1>4. ASSUME NEW p \in Eager!Procs, Eager!Publish(p), UNCHANGED Eager!waiterVars PROVE Eager!IInv'
  <2>1. UNCHANGED <<state, seen, yields, mutex, readPos, pos>>
    BY <1>4 DEF Eager!Publish, Eager!Load, Eager!SetYields, Eager!waiterVars, Eager!clientVars
  <2>2. /\ wpc[p] = "publish" /\ wpc' = [wpc EXCEPT ![p] = wpc'[p]]
        /\ wpc'[p] = "notify"
    BY <1>4, <1>t, <1>p DEF Eager!Publish, Eager!Goto, Eager!SetYields, Eager!Load, Eager!Forget,
       Eager!HasWorker, Eager!StillSleepy, Eager!AfterStop, Eager!AfterNotify, Eager!Awake, Eager!waiterVars,
       Eager!clientVars
  <2>3. writePos' = writePos + 1
    BY <1>4, <1>t, <1>p DEF Eager!Publish, Eager!Goto, Eager!SetYields, Eager!Load, Eager!Forget,
       Eager!HasWorker, Eager!StillSleepy, Eager!AfterStop, Eager!AfterNotify, Eager!Awake, Eager!waiterVars,
       Eager!clientVars
  <2>4. Eager!Types'
    BY <1>0, <1>t, <1>p, <1>s, <2>1, <2>2, <2>3 DEF Eager!Types, Eager!PlaceOK, Eager!WorkerPcs, Eager!NotifyPcs
  <2>5. Eager!PlaceOK'
    BY <1>0, <1>t, <1>p, <1>s, <2>1, <2>2, <2>3 DEF Eager!PlaceOK
  <2>6. Eager!SleeperIsSeen'
    BY <1>0, <1>t, <1>p, <1>s, <2>1, <2>2, <2>3 DEF Eager!SleeperIsSeen
  <2>7. Eager!WorkOK'
    BY <1>0, <1>t, <1>p, <1>s, <2>1, <2>2, <2>3 DEF Eager!WorkOK, Eager!Untold, Eager!PlaceOK
  <2> QED
    BY <2>4, <2>5, <2>6, <2>7 DEF Eager!IInv
<1>5. ASSUME NEW w \in EagerWorkers, Eager!WaitSpin(w) PROVE Eager!IInv'
  <2>1. UNCHANGED <<state, seen, mutex, writePos, readPos, pos>>
    BY <1>5 DEF Eager!WaitSpin, Eager!Load, Eager!SetYields, Eager!waiterVars, Eager!clientVars
  <2>2. /\ wpc[w] = "wait" /\ wpc' = [wpc EXCEPT ![w] = wpc'[w]]
        /\ wpc'[w] = "look"
    BY <1>5, <1>t, <1>p DEF Eager!WaitSpin, Eager!Goto, Eager!SetYields, Eager!Load, Eager!Forget,
       Eager!HasWorker, Eager!StillSleepy, Eager!AfterStop, Eager!AfterNotify, Eager!Awake, Eager!waiterVars,
       Eager!clientVars
  <2>3. yields[w] < RoundsTillSleepy /\ yields' = [yields EXCEPT ![w] = yields[w] + 1]
    BY <1>5, <1>t, <1>p DEF Eager!WaitSpin, Eager!Goto, Eager!SetYields, Eager!Load, Eager!Forget,
       Eager!HasWorker, Eager!StillSleepy, Eager!AfterStop, Eager!AfterNotify, Eager!Awake, Eager!waiterVars,
       Eager!clientVars
  <2>4. Eager!Types'
    BY <1>0, <1>t, <1>p, <1>s, <2>1, <2>2, <2>3 DEF Eager!Types, Eager!PlaceOK, Eager!WorkerPcs, Eager!NotifyPcs
  <2>5. Eager!PlaceOK'
    BY <1>0, <1>t, <1>p, <1>s, <2>1, <2>2, <2>3 DEF Eager!PlaceOK
  <2>6. Eager!SleeperIsSeen'
    BY <1>0, <1>t, <1>p, <1>s, <2>1, <2>2, <2>3 DEF Eager!SleeperIsSeen
  <2>7. Eager!WorkOK'
    BY <1>0, <1>t, <1>p, <1>s, <2>1, <2>2, <2>3 DEF Eager!WorkOK, Eager!Untold, Eager!PlaceOK
  <2> QED
    BY <2>4, <2>5, <2>6, <2>7 DEF Eager!IInv
<1>6. ASSUME NEW w \in EagerWorkers, Eager!WaitLoad(w) PROVE Eager!IInv'
  <2>1. UNCHANGED <<state, mutex, writePos, readPos, pos>>
    BY <1>6 DEF Eager!WaitLoad, Eager!Load, Eager!SetYields, Eager!waiterVars, Eager!clientVars
  <2>2. /\ wpc[w] = "wait" /\ wpc' = [wpc EXCEPT ![w] = wpc'[w]]
        /\ wpc'[w] \in {"look", "claim"}
    BY <1>6, <1>t, <1>p DEF Eager!WaitLoad, Eager!Goto, Eager!SetYields, Eager!Load, Eager!Forget,
       Eager!HasWorker, Eager!StillSleepy, Eager!AfterStop, Eager!AfterNotify, Eager!Awake, Eager!waiterVars,
       Eager!clientVars
  <2>3. yields[w] = RoundsTillSleepy /\ (yields' = yields \/ yields' = [yields EXCEPT ![w] = 0])
    BY <1>6, <1>t, <1>p DEF Eager!WaitLoad, Eager!Goto, Eager!SetYields, Eager!Load, Eager!Forget,
       Eager!HasWorker, Eager!StillSleepy, Eager!AfterStop, Eager!AfterNotify, Eager!Awake, Eager!waiterVars,
       Eager!clientVars
  <2>4. wpc'[w] = "claim" => yields' = yields
    BY <1>6, <1>t, <1>p DEF Eager!WaitLoad, Eager!Goto, Eager!SetYields, Eager!Load, Eager!Forget,
       Eager!HasWorker, Eager!StillSleepy, Eager!AfterStop, Eager!AfterNotify, Eager!Awake, Eager!waiterVars,
       Eager!clientVars
  <2>5. seen' = seen \/ seen' = [seen EXCEPT ![w] = state]
    BY <1>6, <1>t, <1>p DEF Eager!WaitLoad, Eager!Goto, Eager!SetYields, Eager!Load, Eager!Forget,
       Eager!HasWorker, Eager!StillSleepy, Eager!AfterStop, Eager!AfterNotify, Eager!Awake, Eager!waiterVars,
       Eager!clientVars
  <2>6. Eager!Types'
    BY <1>0, <1>t, <1>p, <1>s, <2>1, <2>2, <2>3, <2>4, <2>5 DEF Eager!Types, Eager!PlaceOK, Eager!WorkerPcs,
       Eager!NotifyPcs
  <2>7. Eager!PlaceOK'
    BY <1>0, <1>t, <1>p, <1>s, <2>1, <2>2, <2>3, <2>4, <2>5 DEF Eager!PlaceOK
  <2>8. Eager!SleeperIsSeen'
    BY <1>0, <1>t, <1>p, <1>s, <2>1, <2>2, <2>3, <2>4, <2>5 DEF Eager!SleeperIsSeen
  <2>9. Eager!WorkOK'
    BY <1>0, <1>t, <1>p, <1>s, <2>1, <2>2, <2>3, <2>4, <2>5 DEF Eager!WorkOK, Eager!Untold, Eager!PlaceOK
  <2> QED
    BY <2>6, <2>7, <2>8, <2>9 DEF Eager!IInv
<1>7. ASSUME NEW w \in EagerWorkers, Eager!Claim(w) PROVE Eager!IInv'
  <2>1. UNCHANGED <<mutex, writePos, readPos, pos>>
    BY <1>7 DEF Eager!Claim, Eager!Load, Eager!SetYields, Eager!waiterVars, Eager!clientVars
  <2>2. /\ wpc[w] = "claim" /\ wpc' = [wpc EXCEPT ![w] = wpc'[w]]
        /\ wpc'[w] = "look"
    BY <1>7, <1>t, <1>p DEF Eager!Claim, Eager!Goto, Eager!SetYields, Eager!Load, Eager!Forget, Eager!HasWorker,
       Eager!StillSleepy, Eager!AfterStop, Eager!AfterNotify, Eager!Awake, Eager!waiterVars, Eager!clientVars
  <2>3. yields' = [yields EXCEPT ![w] = yields[w] + 1] \/ yields' = [yields EXCEPT ![w] = 0]
    BY <1>7, <1>t, <1>p DEF Eager!Claim, Eager!Goto, Eager!SetYields, Eager!Load, Eager!Forget, Eager!HasWorker,
       Eager!StillSleepy, Eager!AfterStop, Eager!AfterNotify, Eager!Awake, Eager!waiterVars, Eager!clientVars
  <2>4. state' = state \/ state' = [state EXCEPT !.worker = w]
    BY <1>7, <1>t, <1>p DEF Eager!Claim, Eager!Goto, Eager!SetYields, Eager!Load, Eager!Forget, Eager!HasWorker,
       Eager!StillSleepy, Eager!AfterStop, Eager!AfterNotify, Eager!Awake, Eager!waiterVars, Eager!clientVars
  <2>5. seen' = [seen EXCEPT ![w] = Eager!Awake]
    BY <1>7, <1>t, <1>p DEF Eager!Claim, Eager!Goto, Eager!SetYields, Eager!Load, Eager!Forget, Eager!HasWorker,
       Eager!StillSleepy, Eager!AfterStop, Eager!AfterNotify, Eager!Awake, Eager!waiterVars, Eager!clientVars
  <2>6. Eager!Types'
    BY <1>0, <1>t, <1>p, <1>s, <2>1, <2>2, <2>3, <2>4, <2>5 DEF Eager!Types, Eager!PlaceOK, Eager!WorkerPcs,
       Eager!NotifyPcs
  <2>7. Eager!PlaceOK'
    BY <1>0, <1>t, <1>p, <1>s, <2>1, <2>2, <2>3, <2>4, <2>5 DEF Eager!PlaceOK
  <2>8. Eager!SleeperIsSeen'
    BY <1>0, <1>t, <1>p, <1>s, <2>1, <2>2, <2>3, <2>4, <2>5 DEF Eager!SleeperIsSeen
  <2>9. Eager!WorkOK'
    BY <1>0, <1>t, <1>p, <1>s, <2>1, <2>2, <2>3, <2>4, <2>5 DEF Eager!WorkOK, Eager!Untold, Eager!PlaceOK
  <2> QED
    BY <2>6, <2>7, <2>8, <2>9 DEF Eager!IInv
<1>8. ASSUME NEW w \in EagerWorkers, Eager!WaitSleepy(w) PROVE Eager!IInv'
  <2>1. UNCHANGED <<state, seen, mutex, writePos, readPos, pos>>
    BY <1>8 DEF Eager!WaitSleepy, Eager!Load, Eager!SetYields, Eager!waiterVars, Eager!clientVars
  <2>2. /\ wpc[w] = "wait" /\ wpc' = [wpc EXCEPT ![w] = wpc'[w]]
        /\ wpc'[w] = "look"
    BY <1>8, <1>t, <1>p DEF Eager!WaitSleepy, Eager!Goto, Eager!SetYields, Eager!Load, Eager!Forget,
       Eager!HasWorker, Eager!StillSleepy, Eager!AfterStop, Eager!AfterNotify, Eager!Awake, Eager!waiterVars,
       Eager!clientVars
  <2>3. \/ yields[w] < RoundsTillAsleep /\ yields' = [yields EXCEPT ![w] = yields[w] + 1]
        \/ yields' = [yields EXCEPT ![w] = 0]
    BY <1>8, <1>t, <1>p DEF Eager!WaitSleepy, Eager!Goto, Eager!SetYields, Eager!Load, Eager!Forget,
       Eager!HasWorker, Eager!StillSleepy, Eager!AfterStop, Eager!AfterNotify, Eager!Awake, Eager!waiterVars,
       Eager!clientVars
  <2>4. Eager!Types'
    BY <1>0, <1>t, <1>p, <1>s, <2>1, <2>2, <2>3 DEF Eager!Types, Eager!PlaceOK, Eager!WorkerPcs, Eager!NotifyPcs
  <2>5. Eager!PlaceOK'
    BY <1>0, <1>t, <1>p, <1>s, <2>1, <2>2, <2>3 DEF Eager!PlaceOK
  <2>6. Eager!SleeperIsSeen'
    BY <1>0, <1>t, <1>p, <1>s, <2>1, <2>2, <2>3 DEF Eager!SleeperIsSeen
  <2>7. Eager!WorkOK'
    BY <1>0, <1>t, <1>p, <1>s, <2>1, <2>2, <2>3 DEF Eager!WorkOK, Eager!Untold, Eager!PlaceOK
  <2> QED
    BY <2>4, <2>5, <2>6, <2>7 DEF Eager!IInv
<1>9. ASSUME NEW w \in EagerWorkers, Eager!WaitAsleep(w) PROVE Eager!IInv'
  <2>1. UNCHANGED <<state, mutex, writePos, readPos, pos>>
    BY <1>9 DEF Eager!WaitAsleep, Eager!Load, Eager!SetYields, Eager!waiterVars, Eager!clientVars
  <2>2. /\ wpc[w] = "wait" /\ wpc' = [wpc EXCEPT ![w] = wpc'[w]]
        /\ wpc'[w] \in {"lock", "look"}
    BY <1>9, <1>t, <1>p DEF Eager!WaitAsleep, Eager!Goto, Eager!SetYields, Eager!Load, Eager!Forget,
       Eager!HasWorker, Eager!StillSleepy, Eager!AfterStop, Eager!AfterNotify, Eager!Awake, Eager!waiterVars,
       Eager!clientVars
  <2>3. \/ wpc'[w] = "lock" /\ state.worker = w /\ seen' = [seen EXCEPT ![w] = state] /\ yields' = yields
        \/ wpc'[w] = "look" /\ seen' = seen /\ yields' = [yields EXCEPT ![w] = 0]
    BY <1>9, <1>t, <1>p DEF Eager!WaitAsleep, Eager!Goto, Eager!SetYields, Eager!Load, Eager!Forget,
       Eager!HasWorker, Eager!StillSleepy, Eager!AfterStop, Eager!AfterNotify, Eager!Awake, Eager!waiterVars,
       Eager!clientVars
  <2>4. Eager!Types'
    BY <1>0, <1>t, <1>p, <1>s, <2>1, <2>2, <2>3 DEF Eager!Types, Eager!PlaceOK, Eager!WorkerPcs, Eager!NotifyPcs
  <2>5. Eager!PlaceOK'
    BY <1>0, <1>t, <1>p, <1>s, <2>1, <2>2, <2>3 DEF Eager!PlaceOK
  <2>6. Eager!SleeperIsSeen'
    BY <1>0, <1>t, <1>p, <1>s, <2>1, <2>2, <2>3 DEF Eager!SleeperIsSeen
  <2>7. Eager!WorkOK'
    BY <1>0, <1>t, <1>p, <1>s, <2>1, <2>2, <2>3 DEF Eager!WorkOK, Eager!Untold, Eager!PlaceOK
  <2> QED
    BY <2>4, <2>5, <2>6, <2>7 DEF Eager!IInv
<1>10. ASSUME NEW w \in EagerWorkers, Eager!SleepLock(w) PROVE Eager!IInv'
  <2>1. UNCHANGED <<state, seen, yields, writePos, readPos, pos>>
    BY <1>10 DEF Eager!SleepLock, Eager!Load, Eager!SetYields, Eager!waiterVars, Eager!clientVars
  <2>2. /\ wpc[w] = "lock" /\ wpc' = [wpc EXCEPT ![w] = wpc'[w]]
        /\ wpc'[w] = "cas"
    BY <1>10, <1>t, <1>p DEF Eager!SleepLock, Eager!Goto, Eager!SetYields, Eager!Load, Eager!Forget,
       Eager!HasWorker, Eager!StillSleepy, Eager!AfterStop, Eager!AfterNotify, Eager!Awake, Eager!waiterVars,
       Eager!clientVars
  <2>3. mutex = Eager!Nobody /\ mutex' = w
    BY <1>10, <1>t, <1>p DEF Eager!SleepLock, Eager!Goto, Eager!SetYields, Eager!Load, Eager!Forget,
       Eager!HasWorker, Eager!StillSleepy, Eager!AfterStop, Eager!AfterNotify, Eager!Awake, Eager!waiterVars,
       Eager!clientVars
  <2>4. Eager!Types'
    BY <1>0, <1>t, <1>p, <1>s, <2>1, <2>2, <2>3 DEF Eager!Types, Eager!PlaceOK, Eager!WorkerPcs, Eager!NotifyPcs
  <2>5. Eager!PlaceOK'
    BY <1>0, <1>t, <1>p, <1>s, <2>1, <2>2, <2>3 DEF Eager!PlaceOK
  <2>6. Eager!SleeperIsSeen'
    BY <1>0, <1>t, <1>p, <1>s, <2>1, <2>2, <2>3 DEF Eager!SleeperIsSeen
  <2>7. Eager!WorkOK'
    BY <1>0, <1>t, <1>p, <1>s, <2>1, <2>2, <2>3 DEF Eager!WorkOK, Eager!Untold, Eager!PlaceOK
  <2> QED
    BY <2>4, <2>5, <2>6, <2>7 DEF Eager!IInv
<1>11. ASSUME NEW w \in EagerWorkers, Eager!SleepCas(w) PROVE Eager!IInv'
  <2>1. UNCHANGED <<writePos, readPos, pos>>
    BY <1>11 DEF Eager!SleepCas, Eager!Load, Eager!SetYields, Eager!waiterVars, Eager!clientVars
  <2>2. /\ wpc[w] = "cas" /\ wpc' = [wpc EXCEPT ![w] = wpc'[w]]
        /\ wpc'[w] \in {"enter", "look"}
    BY <1>11, <1>t, <1>p DEF Eager!SleepCas, Eager!Goto, Eager!SetYields, Eager!Load, Eager!Forget,
       Eager!HasWorker, Eager!StillSleepy, Eager!AfterStop, Eager!AfterNotify, Eager!Awake, Eager!waiterVars,
       Eager!clientVars
  <2>3. \/ /\ wpc'[w] = "enter" /\ state = seen[w] /\ state' = Eager!Asleep
           /\ yields' = yields /\ mutex' = mutex
        \/ /\ wpc'[w] = "look" /\ state' = state /\ mutex' = Eager!Nobody
           /\ yields' = [yields EXCEPT ![w] = 0]
    BY <1>11, <1>t, <1>p DEF Eager!SleepCas, Eager!Goto, Eager!SetYields, Eager!Load, Eager!Forget,
       Eager!HasWorker, Eager!StillSleepy, Eager!AfterStop, Eager!AfterNotify, Eager!Awake, Eager!waiterVars,
       Eager!clientVars
  <2>4. seen' = [seen EXCEPT ![w] = Eager!Awake]
    BY <1>11, <1>t, <1>p DEF Eager!SleepCas, Eager!Goto, Eager!SetYields, Eager!Load, Eager!Forget,
       Eager!HasWorker, Eager!StillSleepy, Eager!AfterStop, Eager!AfterNotify, Eager!Awake, Eager!waiterVars,
       Eager!clientVars
  <2>5. Eager!Types'
    BY <1>0, <1>t, <1>p, <1>s, <2>1, <2>2, <2>3, <2>4 DEF Eager!Types, Eager!PlaceOK, Eager!WorkerPcs,
       Eager!NotifyPcs
  <2>6. Eager!PlaceOK'
    BY <1>0, <1>t, <1>p, <1>s, <2>1, <2>2, <2>3, <2>4 DEF Eager!PlaceOK
  <2>7. Eager!SleeperIsSeen'
    BY <1>0, <1>t, <1>p, <1>s, <2>1, <2>2, <2>3, <2>4 DEF Eager!SleeperIsSeen
  <2>8. Eager!WorkOK'
    BY <1>0, <1>t, <1>p, <1>s, <2>1, <2>2, <2>3, <2>4 DEF Eager!WorkOK, Eager!Untold, Eager!PlaceOK
  <2> QED
    BY <2>5, <2>6, <2>7, <2>8 DEF Eager!IInv
<1>12. ASSUME NEW w \in EagerWorkers, Eager!CvWait(w) PROVE Eager!IInv'
  <2>1. UNCHANGED <<state, seen, yields, writePos, readPos, pos>>
    BY <1>12 DEF Eager!CvWait, Eager!Load, Eager!SetYields, Eager!waiterVars, Eager!clientVars
  <2>2. /\ wpc[w] = "enter" /\ wpc' = [wpc EXCEPT ![w] = wpc'[w]]
        /\ wpc'[w] = "blocked"
    BY <1>12, <1>t, <1>p DEF Eager!CvWait, Eager!Goto, Eager!SetYields, Eager!Load, Eager!Forget,
       Eager!HasWorker, Eager!StillSleepy, Eager!AfterStop, Eager!AfterNotify, Eager!Awake, Eager!waiterVars,
       Eager!clientVars
  <2>3. mutex' = Eager!Nobody
    BY <1>12, <1>t, <1>p DEF Eager!CvWait, Eager!Goto, Eager!SetYields, Eager!Load, Eager!Forget,
       Eager!HasWorker, Eager!StillSleepy, Eager!AfterStop, Eager!AfterNotify, Eager!Awake, Eager!waiterVars,
       Eager!clientVars
  <2>4. Eager!Types'
    BY <1>0, <1>t, <1>p, <1>s, <2>1, <2>2, <2>3 DEF Eager!Types, Eager!PlaceOK, Eager!WorkerPcs, Eager!NotifyPcs
  <2>5. Eager!PlaceOK'
    BY <1>0, <1>t, <1>p, <1>s, <2>1, <2>2, <2>3 DEF Eager!PlaceOK
  <2>6. Eager!SleeperIsSeen'
    BY <1>0, <1>t, <1>p, <1>s, <2>1, <2>2, <2>3 DEF Eager!SleeperIsSeen
  <2>7. Eager!WorkOK'
    BY <1>0, <1>t, <1>p, <1>s, <2>1, <2>2, <2>3 DEF Eager!WorkOK, Eager!Untold, Eager!PlaceOK
  <2> QED
    BY <2>4, <2>5, <2>6, <2>7 DEF Eager!IInv
<1>13. ASSUME NEW w \in EagerWorkers, Eager!CvSpurious(w) PROVE Eager!IInv'
  <2>1. UNCHANGED <<state, seen, yields, mutex, writePos, readPos, pos>>
    BY <1>13 DEF Eager!CvSpurious, Eager!Load, Eager!SetYields, Eager!waiterVars, Eager!clientVars
  <2>2. /\ wpc[w] = "blocked" /\ wpc' = [wpc EXCEPT ![w] = wpc'[w]]
        /\ wpc'[w] = "relock"
    BY <1>13, <1>t, <1>p DEF Eager!CvSpurious, Eager!Goto, Eager!SetYields, Eager!Load, Eager!Forget,
       Eager!HasWorker, Eager!StillSleepy, Eager!AfterStop, Eager!AfterNotify, Eager!Awake, Eager!waiterVars,
       Eager!clientVars
  <2>3. Eager!Types'
    BY <1>0, <1>t, <1>p, <1>s, <2>1, <2>2 DEF Eager!Types, Eager!PlaceOK, Eager!WorkerPcs, Eager!NotifyPcs
  <2>4. Eager!PlaceOK'
    BY <1>0, <1>t, <1>p, <1>s, <2>1, <2>2 DEF Eager!PlaceOK
  <2>5. Eager!SleeperIsSeen'
    BY <1>0, <1>t, <1>p, <1>s, <2>1, <2>2 DEF Eager!SleeperIsSeen
  <2>6. Eager!WorkOK'
    BY <1>0, <1>t, <1>p, <1>s, <2>1, <2>2 DEF Eager!WorkOK, Eager!Untold, Eager!PlaceOK
  <2> QED
    BY <2>3, <2>4, <2>5, <2>6 DEF Eager!IInv
<1>14. ASSUME NEW w \in EagerWorkers, Eager!CvReturn(w) PROVE Eager!IInv'
  <2>1. UNCHANGED <<state, seen, mutex, writePos, readPos, pos>>
    BY <1>14 DEF Eager!CvReturn, Eager!Load, Eager!SetYields, Eager!waiterVars, Eager!clientVars
  <2>2. /\ wpc[w] = "relock" /\ wpc' = [wpc EXCEPT ![w] = wpc'[w]]
        /\ wpc'[w] = "look"
    BY <1>14, <1>t, <1>p DEF Eager!CvReturn, Eager!Goto, Eager!SetYields, Eager!Load, Eager!Forget,
       Eager!HasWorker, Eager!StillSleepy, Eager!AfterStop, Eager!AfterNotify, Eager!Awake, Eager!waiterVars,
       Eager!clientVars
  <2>3. mutex = Eager!Nobody /\ yields' = [yields EXCEPT ![w] = 0]
    BY <1>14, <1>t, <1>p DEF Eager!CvReturn, Eager!Goto, Eager!SetYields, Eager!Load, Eager!Forget,
       Eager!HasWorker, Eager!StillSleepy, Eager!AfterStop, Eager!AfterNotify, Eager!Awake, Eager!waiterVars,
       Eager!clientVars
  <2>4. Eager!Types'
    BY <1>0, <1>t, <1>p, <1>s, <2>1, <2>2, <2>3 DEF Eager!Types, Eager!PlaceOK, Eager!WorkerPcs, Eager!NotifyPcs
  <2>5. Eager!PlaceOK'
    BY <1>0, <1>t, <1>p, <1>s, <2>1, <2>2, <2>3 DEF Eager!PlaceOK
  <2>6. Eager!SleeperIsSeen'
    BY <1>0, <1>t, <1>p, <1>s, <2>1, <2>2, <2>3 DEF Eager!SleeperIsSeen
  <2>7. Eager!WorkOK'
    BY <1>0, <1>t, <1>p, <1>s, <2>1, <2>2, <2>3 DEF Eager!WorkOK, Eager!Untold, Eager!PlaceOK
  <2> QED
    BY <2>4, <2>5, <2>6, <2>7 DEF Eager!IInv
<1>15. ASSUME NEW w \in EagerWorkers, Eager!StopWait(w) PROVE Eager!IInv'
  <2>1. UNCHANGED <<state, seen, mutex, writePos, readPos, pos>>
    BY <1>15 DEF Eager!StopWait, Eager!Load, Eager!SetYields, Eager!waiterVars, Eager!clientVars
  <2>2. /\ wpc[w] = "stop" /\ wpc' = [wpc EXCEPT ![w] = wpc'[w]]
        /\ wpc'[w] \in {"exchange", "done", "take"}
    BY <1>15, <1>t, <1>p DEF Eager!StopWait, Eager!Goto, Eager!SetYields, Eager!Load, Eager!Forget,
       Eager!HasWorker, Eager!StillSleepy, Eager!AfterStop, Eager!AfterNotify, Eager!Awake, Eager!waiterVars,
       Eager!clientVars
  <2>3. yields' = [yields EXCEPT ![w] = 0]
    BY <1>15, <1>t, <1>p DEF Eager!StopWait, Eager!Goto, Eager!SetYields, Eager!Load, Eager!Forget,
       Eager!HasWorker, Eager!StillSleepy, Eager!AfterStop, Eager!AfterNotify, Eager!Awake, Eager!waiterVars,
       Eager!clientVars
  <2>4. Eager!Types'
    BY <1>0, <1>t, <1>p, <1>s, <2>1, <2>2, <2>3 DEF Eager!Types, Eager!PlaceOK, Eager!WorkerPcs, Eager!NotifyPcs
  <2>5. Eager!PlaceOK'
    BY <1>0, <1>t, <1>p, <1>s, <2>1, <2>2, <2>3 DEF Eager!PlaceOK
  <2>6. Eager!SleeperIsSeen'
    BY <1>0, <1>t, <1>p, <1>s, <2>1, <2>2, <2>3 DEF Eager!SleeperIsSeen
  <2>7. Eager!WorkOK'
    BY <1>0, <1>t, <1>p, <1>s, <2>1, <2>2, <2>3 DEF Eager!WorkOK, Eager!Untold, Eager!PlaceOK
  <2> QED
    BY <2>4, <2>5, <2>6, <2>7 DEF Eager!IInv
<1>16. ASSUME NEW p \in Eager!Procs, Eager!NotifyLoad(p) PROVE Eager!IInv'
  <2>1. UNCHANGED <<state, seen, yields, mutex, writePos, readPos, pos>>
    BY <1>16 DEF Eager!NotifyLoad, Eager!Load, Eager!SetYields, Eager!waiterVars, Eager!clientVars
  <2>2. /\ wpc[p] = "notify" /\ wpc' = [wpc EXCEPT ![p] = wpc'[p]]
        /\ wpc'[p] \in {"exchange", "publish", "done", "take"}
    BY <1>16, <1>t, <1>p DEF Eager!NotifyLoad, Eager!Goto, Eager!SetYields, Eager!Load, Eager!Forget,
       Eager!HasWorker, Eager!StillSleepy, Eager!AfterStop, Eager!AfterNotify, Eager!Awake, Eager!waiterVars,
       Eager!clientVars
  <2>3. wpc'[p] # "exchange" => state = Eager!Awake
    BY <1>16, <1>t, <1>p DEF Eager!NotifyLoad, Eager!Goto, Eager!SetYields, Eager!Load, Eager!Forget,
       Eager!HasWorker, Eager!StillSleepy, Eager!AfterStop, Eager!AfterNotify, Eager!Awake, Eager!waiterVars,
       Eager!clientVars
  <2>4. wpc'[p] = "publish" => p \notin EagerWorkers
    BY <1>16, <1>t, <1>p DEF Eager!NotifyLoad, Eager!Goto, Eager!SetYields, Eager!Load, Eager!Forget,
       Eager!HasWorker, Eager!StillSleepy, Eager!AfterStop, Eager!AfterNotify, Eager!Awake, Eager!waiterVars,
       Eager!clientVars
  <2>5. Eager!Types'
    BY <1>0, <1>t, <1>p, <1>s, <2>1, <2>2, <2>3, <2>4 DEF Eager!Types, Eager!PlaceOK, Eager!WorkerPcs,
       Eager!NotifyPcs
  <2>6. Eager!PlaceOK'
    BY <1>0, <1>t, <1>p, <1>s, <2>1, <2>2, <2>3, <2>4 DEF Eager!PlaceOK
  <2>7. Eager!SleeperIsSeen'
    BY <1>0, <1>t, <1>p, <1>s, <2>1, <2>2, <2>3, <2>4 DEF Eager!SleeperIsSeen
  <2>8. Eager!WorkOK'
    BY <1>0, <1>t, <1>p, <1>s, <2>1, <2>2, <2>3, <2>4 DEF Eager!WorkOK, Eager!Untold, Eager!PlaceOK
  <2> QED
    BY <2>5, <2>6, <2>7, <2>8 DEF Eager!IInv
<1>17. ASSUME NEW p \in Eager!Procs, Eager!NotifyExchange(p) PROVE Eager!IInv'
  <2>1. UNCHANGED <<seen, yields, mutex, writePos, readPos, pos>>
    BY <1>17 DEF Eager!NotifyExchange, Eager!Load, Eager!SetYields, Eager!waiterVars, Eager!clientVars
  <2>2. /\ wpc[p] = "exchange" /\ wpc' = [wpc EXCEPT ![p] = wpc'[p]]
        /\ wpc'[p] \in {"guard", "publish", "done", "take"}
    BY <1>17, <1>t, <1>p DEF Eager!NotifyExchange, Eager!Goto, Eager!SetYields, Eager!Load, Eager!Forget,
       Eager!HasWorker, Eager!StillSleepy, Eager!AfterStop, Eager!AfterNotify, Eager!Awake, Eager!waiterVars,
       Eager!clientVars
  <2>3. state' = Eager!Awake /\ (state.asleep => wpc'[p] = "guard")
    BY <1>17, <1>t, <1>p DEF Eager!NotifyExchange, Eager!Goto, Eager!SetYields, Eager!Load, Eager!Forget,
       Eager!HasWorker, Eager!StillSleepy, Eager!AfterStop, Eager!AfterNotify, Eager!Awake, Eager!waiterVars,
       Eager!clientVars
  <2>4. wpc'[p] = "publish" => p \notin EagerWorkers
    BY <1>17, <1>t, <1>p DEF Eager!NotifyExchange, Eager!Goto, Eager!SetYields, Eager!Load, Eager!Forget,
       Eager!HasWorker, Eager!StillSleepy, Eager!AfterStop, Eager!AfterNotify, Eager!Awake, Eager!waiterVars,
       Eager!clientVars
  <2>5. Eager!Types'
    BY <1>0, <1>t, <1>p, <1>s, <2>1, <2>2, <2>3, <2>4 DEF Eager!Types, Eager!PlaceOK, Eager!WorkerPcs,
       Eager!NotifyPcs
  <2>6. Eager!PlaceOK'
    BY <1>0, <1>t, <1>p, <1>s, <2>1, <2>2, <2>3, <2>4 DEF Eager!PlaceOK
  <2>7. Eager!SleeperIsSeen'
    BY <1>0, <1>t, <1>p, <1>s, <2>1, <2>2, <2>3, <2>4 DEF Eager!SleeperIsSeen
  <2>8. Eager!WorkOK'
    BY <1>0, <1>t, <1>p, <1>s, <2>1, <2>2, <2>3, <2>4 DEF Eager!WorkOK, Eager!Untold, Eager!PlaceOK
  <2> QED
    BY <2>5, <2>6, <2>7, <2>8 DEF Eager!IInv
<1>18. ASSUME NEW p \in Eager!Procs, Eager!NotifyAll(p) PROVE Eager!IInv'
  <2>1. UNCHANGED <<state, seen, yields, mutex, writePos, readPos, pos>>
    BY <1>18 DEF Eager!NotifyAll, Eager!waiterVars, Eager!clientVars
  <2>2. /\ wpc[p] = "guard" /\ mutex = Eager!Nobody
        /\ wpc'[p] \in {"publish", "done", "take"} /\ (wpc'[p] = "publish" => p \notin EagerWorkers)
        /\ \A q \in Eager!Procs : q # p => wpc'[q] = IF wpc[q] = "blocked" THEN "relock" ELSE wpc[q]
    BY <1>18, <1>t, <1>p DEF Eager!NotifyAll, Eager!AfterNotify, Eager!AfterStop
  <2>3. wpc' \in [Eager!Procs -> Eager!WorkerPcs \cup Eager!NotifyPcs \cup {"publish", "done"}]
    <3>1. wpc' = [q \in Eager!Procs |-> wpc'[q]]
      BY <1>18 DEF Eager!NotifyAll
    <3>2. \A q \in Eager!Procs : wpc'[q] \in Eager!WorkerPcs \cup Eager!NotifyPcs \cup {"publish", "done"}
      BY <1>t, <2>2 DEF Eager!WorkerPcs
    <3> QED
      BY <3>1, <3>2
  <2>4. Eager!Types'
    BY <1>t, <2>1, <2>3 DEF Eager!Types
  <2>5. Eager!PlaceOK'
    BY <1>0, <1>t, <1>p, <2>1, <2>2 DEF Eager!PlaceOK
  <2>6. Eager!SleeperIsSeen'
    <3>1. \A v \in EagerWorkers : wpc[v] # "enter"
      BY <1>0, <1>p, <2>2 DEF Eager!PlaceOK
    <3>2. \A v \in EagerWorkers : wpc'[v] \notin {"enter", "blocked"}
      BY <1>p, <2>2, <3>1
    <3> QED
      BY <3>2 DEF Eager!SleeperIsSeen
  <2>7. Eager!WorkOK'
    BY <1>0, <1>t, <1>p, <2>1, <2>2 DEF Eager!WorkOK, Eager!Untold
  <2> QED
    BY <2>4, <2>5, <2>6, <2>7 DEF Eager!IInv
<1>19. CASE Eager!Finished
  BY <1>19 DEF Eager!Finished, Eager!vars, Eager!waiterVars, Eager!clientVars, Eager!IInv, Eager!Types,
     Eager!PlaceOK, Eager!SleeperIsSeen, Eager!WorkOK, Eager!Untold
<1> QED
  BY <1>1, <1>2, <1>3, <1>4, <1>5, <1>6, <1>7, <1>8, <1>9, <1>10, <1>11, <1>12, <1>13, <1>14, <1>15, <1>16,
     <1>17, <1>18, <1>19 DEF Eager!Next, Eager!ClientCalls, Eager!ClientStep, Eager!Wait, Eager!Notify

----------------------------------------------------------------------------
(* What the inductive invariants say.                                       *)

(* The waiter counts as the library does.                                   *)
LEMMA EagerCardinality ==
  ASSUME NEW S
  PROVE  Eager!Cardinality(S) = Cardinality(S)
BY Zenon DEF Eager!Cardinality, Cardinality, IsFiniteSet, Eager!IsFiniteSet

(* What is published keeps below what the writers may publish.              *)
LEMMA ClientBounds ==
  ASSUME NEW W, NEW P, NEW K \in Nat, NEW E \in Nat, NEW A, NEW l, NEW n, NEW r, NEW y, NEW c,
         IsFiniteSet(P), ClientAt(W, P, K, E, A, l, n, r, y, c)
  PROVE  /\ n \in 0 .. K * Cardinality(P) /\ r \in 0 .. E /\ y \in [W -> 0 .. E] /\ c \in [P -> 0 .. K]
         /\ \A p \in P : l[p] \in A \cup {"publish", "done"}
<1>1. Cardinality(Units(P, K, c)) \in 0 .. K * Cardinality(P)
  BY UnitsBound
<1> QED
  BY <1>1 DEF ClientAt

(* Nothing is published at the start.                                       *)
LEMMA ClientStarts ==
  ASSUME NEW W, NEW P, NEW K \in Nat, K # 0, NEW E \in Nat, NEW A, NEW l, NEW y, NEW c,
         y = [v \in W |-> 0], c = [p \in P |-> 0],
         \A v \in W : l[v] # "take", \A p \in P : l[p] = "publish"
  PROVE  ClientAt(W, P, K, E, A, l, 0, 0, y, c)
<1>1. Units(P, K, c) = {}
  <2>1. \A e \in P \X (1 .. K) : e[1] \in P /\ e[2] \in 1 .. K
    OBVIOUS
  <2> QED
    BY <2>1 DEF Units
<1>2. Cardinality(Units(P, K, c)) = 0
  BY <1>1, FS_EmptySet
<1>3. y \in [W -> 0 .. E] /\ c \in [P -> 0 .. K] /\ \A p \in P : c[p] = 0
  OBVIOUS
<1> QED
  BY <1>2, <1>3 DEF ClientAt

(* The sleepy waiter's types follow from the invariants.                    *)
LEMMA SleepyTypes == ASSUME SleepyThreadsOK, Sleepy!IInv, SleepyClient PROVE Sleepy!TypeOK
<1>1. /\ Sleepy!Types /\ Sleepy!SlotOK /\ Sleepy!StateCounts
      /\ IsFiniteSet(Workers) /\ IsFiniteSet(Writers) /\ WriteCnt \in Nat /\ EndPos \in Nat
  BY DEF Sleepy!IInv, SleepyThreadsOK
<1>2. Len(sleepers) \in 0 .. Cardinality(Workers)
  <2>1. /\ sleepers \in Seq(Workers) /\ Len(sleepers) \in Nat /\ DOMAIN sleepers = 1 .. Len(sleepers)
        /\ sleepers \in [1 .. Len(sleepers) -> Workers]
    BY <1>1 DEF Sleepy!Types
  <2>2. sleepers \in Injection(1 .. Len(sleepers), Workers)
    <3>1. Sleepy!IsInjective(sleepers)
      BY <1>1 DEF Sleepy!Types
    <3>2. \A i, j \in 1 .. Len(sleepers) : sleepers[i] = sleepers[j] => i = j
      BY <2>1, <3>1 DEF Sleepy!IsInjective
    <3> QED
      BY <2>1, <3>2 DEF Injection, IsInjective
  <2>3. Cardinality(1 .. Len(sleepers)) <= Cardinality(Workers)
    BY <1>1, <2>2, FS_Injection
  <2>4. Cardinality(1 .. Len(sleepers)) = Len(sleepers) /\ Cardinality(Workers) \in Nat
    <3>1. PICK n \in Nat : n = Len(sleepers)
      BY <2>1
    <3>2. Cardinality(1 .. n) = n
      BY FS_Interval
    <3>3. Cardinality(Workers) \in Nat
      BY <1>1, FS_CardinalityType
    <3> QED
      BY <3>1, <3>2, <3>3
  <2> QED
    BY <2>1, <2>3, <2>4
<1>3. state.searching \in 0 .. Cardinality(Workers)
  <2> DEFINE C == {w \in Workers : Sleepy!Counted(w)}
  <2>1. C \in SUBSET Workers /\ state.searching = Cardinality(C)
    BY <1>1, SleepyCardinality DEF Sleepy!StateCounts
  <2> HIDE DEF C
  <2>2. IsFiniteSet(C) /\ Cardinality(C) <= Cardinality(Workers)
    BY <1>1, <2>1, FS_Subset
  <2>3. Cardinality(C) \in Nat /\ Cardinality(Workers) \in Nat
    BY <1>1, <2>2, FS_CardinalityType
  <2> QED
    BY <2>1, <2>2, <2>3
<1>4. state \in [parked : 0 .. Sleepy!Cardinality(Workers), searching : 0 .. Sleepy!Cardinality(Workers)]
  <2>1. state \in [parked : Int, searching : Int] /\ state.parked = Len(sleepers)
    BY <1>1 DEF Sleepy!Types, Sleepy!StateCounts
  <2> QED
    BY <1>2, <1>3, <2>1, SleepyCardinality
<1>5. /\ writePos \in 0 .. WriteCnt * Cardinality(Writers) /\ readPos \in 0 .. EndPos
      /\ pos \in [Workers -> 0 .. EndPos] /\ cnt \in [Writers -> 0 .. WriteCnt]
      /\ \A p \in Writers : wpc[p] \in Sleepy!NotifyPcs \cup {"publish", "done"}
  BY <1>1, ClientBounds DEF SleepyClient
<1>6. Sleepy!ClientTypeOK
  BY <1>5, SleepyCardinality DEF Sleepy!ClientTypeOK
<1>7. \A w \in Workers : wpc[w] \in Sleepy!WorkerPcs \cup Sleepy!NotifyPcs \cup {"done"}
  BY <1>1 DEF Sleepy!Types, Sleepy!SlotOK, Sleepy!Procs
<1>8. /\ mutex \in Sleepy!Procs \cup {Sleepy!Nobody} /\ sleepers \in Seq(Workers)
      /\ Len(sleepers) <= Sleepy!Cardinality(Workers)
      /\ slot \in [Workers -> {"Search", "Work", "Sleep"}] /\ flag \in [Workers -> BOOLEAN]
      /\ target \in [Sleepy!Procs -> Workers \cup {Sleepy!Nobody}]
  BY <1>1, <1>2, SleepyCardinality DEF Sleepy!Types
<1> QED
  BY <1>4, <1>5, <1>6, <1>7, <1>8 DEF Sleepy!TypeOK

(* The sleepy waiter starts with its invariants.                            *)
LEMMA SleepyStart == ASSUME SleepyThreadsOK, Sleepy!Init PROVE Sleepy!IInv /\ SleepyClient
<1> USE DEF SleepyThreadsOK
<1>1. /\ wpc = [p \in Sleepy!Procs |-> IF p \in Workers THEN "look" ELSE "publish"]
      /\ writePos = 0 /\ readPos = 0 /\ pos = [w \in Workers |-> 0]
      /\ state = [parked |-> 0, searching |-> 0] /\ mutex = Sleepy!Nobody /\ sleepers = <<>>
      /\ slot = [w \in Workers |-> "Work"] /\ flag = [w \in Workers |-> FALSE]
      /\ target = [p \in Sleepy!Procs |-> Sleepy!Nobody]
  BY DEF Sleepy!Init, Sleepy!ClientInit
<1>2. /\ \A w \in Workers : w \in Sleepy!Procs /\ wpc[w] = "look" /\ slot[w] = "Work"
      /\ \A p \in Sleepy!Procs : p # Sleepy!Nobody /\ wpc[p] \in {"look", "publish"} /\ target[p] = Sleepy!Nobody
  BY <1>1 DEF SleepyThreadsOK, Sleepy!Procs
<1>3. \A w \in Workers : ~Sleepy!Counted(w) /\ ~Sleepy!Asleep(w) /\ ~Sleepy!Listed(w) /\ ~Sleepy!Taken(w)
  BY <1>1, <1>2 DEF Sleepy!Counted, Sleepy!Asleep, Sleepy!Listed, Sleepy!Has, Sleepy!Taken
<1>4. Sleepy!Types
  BY <1>1 DEF Sleepy!Types, Sleepy!WorkerPcs, Sleepy!IsInjective
<1>5. Sleepy!SlotOK /\ Sleepy!MutexOK
  BY <1>1, <1>2 DEF Sleepy!SlotOK, Sleepy!MutexOK, Sleepy!NotifyPcs
<1>6. Sleepy!SleepOK /\ Sleepy!WorkOK
  BY <1>1, <1>3 DEF Sleepy!SleepOK, Sleepy!WorkOK
<1>7. Sleepy!StateCounts
  <2>1. {w \in Workers : Sleepy!Counted(w)} = {} /\ Cardinality({}) = 0
    BY <1>3, FS_EmptySet
  <2> QED
    BY <1>1, <2>1, SleepyCardinality DEF Sleepy!StateCounts
<1>8. Sleepy!IInv
  BY <1>4, <1>5, <1>6, <1>7 DEF Sleepy!IInv
<1>9. SleepyClient
  <2>1. writePos = 0 /\ readPos = 0 /\ pos = [w \in Workers |-> 0] /\ cnt = [p \in Writers |-> 0]
    BY DEF Sleepy!Init, Sleepy!ClientInit
  <2>2. (\A w \in Workers : wpc[w] # "take") /\ \A p \in Writers : wpc[p] = "publish"
    BY <1>1 DEF Sleepy!Procs
  <2>3. WriteCnt \in Nat /\ WriteCnt # 0 /\ EndPos \in Nat
    OBVIOUS
  <2>4. ClientAt(Workers, Writers, WriteCnt, EndPos, Sleepy!NotifyPcs, wpc, 0, 0, pos, cnt)
    BY <2>1, <2>2, <2>3, ClientStarts
  <2> QED
    BY <2>1, <2>4 DEF SleepyClient
<1> QED
  BY <1>8, <1>9

(* The eager waiter starts with its invariants.                             *)
LEMMA EagerStart == ASSUME EagerThreadsOK, Eager!Init PROVE Eager!IInv /\ EagerClient
<1> USE DEF EagerThreadsOK
<1>1. /\ wpc = [p \in Eager!Procs |-> IF p \in EagerWorkers THEN "look" ELSE "publish"]
      /\ writePos = 0 /\ readPos = 0 /\ pos = [w \in EagerWorkers |-> 0] /\ cnt = [p \in EagerWriters |-> 0]
      /\ state = Eager!Awake /\ seen = [w \in EagerWorkers |-> Eager!Awake]
      /\ yields = [w \in EagerWorkers |-> 0] /\ mutex = Eager!Nobody
  BY DEF Eager!Init, Eager!ClientInit
<1>2. /\ \A w \in EagerWorkers : w \in Eager!Procs /\ wpc[w] = "look"
      /\ \A p \in EagerWriters : p \in Eager!Procs /\ wpc[p] = "publish"
  BY <1>1 DEF Eager!Procs
<1>3. Eager!Types
  BY <1>1 DEF Eager!Types, Eager!WorkerPcs, Eager!Awake
<1>4. Eager!PlaceOK
  BY <1>1, <1>2 DEF Eager!PlaceOK
<1>5. Eager!SleeperIsSeen
  BY <1>2 DEF Eager!SleeperIsSeen
<1>6. Eager!WorkOK
  BY <1>1 DEF Eager!WorkOK, Eager!Untold
<1>7. EagerClient
  <2>1. EagerWriteCnt \in Nat /\ EagerWriteCnt # 0 /\ EagerEndPos \in Nat
    OBVIOUS
  <2>2. (\A w \in EagerWorkers : wpc[w] # "take") /\ \A p \in EagerWriters : wpc[p] = "publish"
    BY <1>2
  <2>3. ClientAt(EagerWorkers, EagerWriters, EagerWriteCnt, EagerEndPos, Eager!NotifyPcs, wpc, 0, 0, pos, cnt)
    BY <1>1, <2>1, <2>2, ClientStarts
  <2> QED
    BY <1>1, <2>3 DEF EagerClient
<1> QED
  BY <1>3, <1>4, <1>5, <1>6, <1>7 DEF Eager!IInv

(* The eager waiter: the types, that sleepers are seen and that no wake-up  *)
(* is lost follow from the invariants.                                      *)
LEMMA EagerMeaning ==
  ASSUME EagerThreadsOK, Eager!IInv, EagerClient
  PROVE  Eager!TypeOK /\ Eager!SleeperIsSeen /\ Eager!NoLostWakeup
<1>1. /\ Eager!Types /\ Eager!PlaceOK /\ Eager!SleeperIsSeen /\ Eager!WorkOK
      /\ IsFiniteSet(EagerWriters) /\ EagerWriteCnt \in Nat /\ EagerEndPos \in Nat
  BY DEF Eager!IInv, EagerThreadsOK
<1>2. /\ writePos \in 0 .. EagerWriteCnt * Cardinality(EagerWriters) /\ readPos \in 0 .. EagerEndPos
      /\ pos \in [EagerWorkers -> 0 .. EagerEndPos] /\ cnt \in [EagerWriters -> 0 .. EagerWriteCnt]
      /\ \A p \in EagerWriters : wpc[p] \in Eager!NotifyPcs \cup {"publish", "done"}
  BY <1>1, ClientBounds DEF EagerClient
<1>3. Eager!TypeOK
  <2>1. Eager!ClientTypeOK
    BY <1>2, EagerCardinality DEF Eager!ClientTypeOK
  <2>2. \A w \in EagerWorkers : wpc[w] \in Eager!WorkerPcs \cup Eager!NotifyPcs \cup {"done"}
    BY <1>1 DEF Eager!Types, Eager!PlaceOK, Eager!Procs
  <2> QED
    BY <1>1, <1>2, <2>1, <2>2 DEF Eager!TypeOK, Eager!Types, Eager!WorkerPcs
<1>4. Eager!NoLostWakeup
  <2> SUFFICES ASSUME Eager!WorkPending(Eager!NotifyPcs), \A w \in EagerWorkers : wpc[w] # "guard"
               PROVE  \A w \in EagerWorkers : wpc[w] \notin {"enter", "blocked"}
    BY DEF Eager!NoLostWakeup
  <2>1. \A p \in EagerWriters : wpc[p] \notin {"notify", "exchange", "guard"}
    BY DEF Eager!WorkPending, Eager!NotifyPcs
  <2>2. ~state.asleep
    BY <1>1, <2>1 DEF Eager!WorkPending, Eager!Untold, Eager!WorkOK
  <2>3. \A p \in Eager!Procs : wpc[p] # "guard"
    BY <2>1 DEF Eager!Procs
  <2> QED
    BY <1>1, <2>2, <2>3 DEF Eager!SleeperIsSeen
<1> QED
  BY <1>1, <1>3, <1>4

(* The sleepy waiter: its CHECKs and that no wake-up is lost.               *)
LEMMA SleepyMeaning ==
  ASSUME SleepyThreadsOK, Sleepy!IInv
  PROVE  Sleepy!StateCounts /\ Sleepy!SlotChecks /\ Sleepy!MainInvariant /\ Sleepy!CloseChecks
<1>1. Sleepy!IInv => Sleepy!SlotChecks
  <2> SUFFICES ASSUME Sleepy!IInv PROVE Sleepy!SlotChecks
    OBVIOUS
  <2>1. Sleepy!Types /\ Sleepy!SlotOK /\ Sleepy!MutexOK /\ Sleepy!SleepOK /\ Sleepy!StateCounts
    BY DEF Sleepy!IInv
  <2>2. \A w \in Workers : w \in Sleepy!Range(sleepers) <=> Sleepy!Listed(w)
    BY DEF Sleepy!Range, Sleepy!Listed, Sleepy!Has
  <2>3. \A w \in Workers : wpc[w] \in {"enlist", "leave"} => state.searching # 0
    <3>1. \A w \in Workers : wpc[w] \in {"enlist", "leave"} => Sleepy!Counted(w)
      BY <2>1 DEF Sleepy!Counted, Sleepy!SlotOK
    <3> QED
      BY <2>1, <3>1, Counts
  <2>4. \A w \in Workers : wpc[w] = "enlist" => ~flag[w] /\ w \notin Sleepy!Range(sleepers)
    BY <2>1, <2>2 DEF Sleepy!SleepOK, Sleepy!Asleep
  <2>5. mutex = Sleepy!Nobody => \A w \in Workers : ~Sleepy!Taken(w)
    BY <2>1 DEF Sleepy!MutexOK, Sleepy!Taken, SleepyThreadsOK, Sleepy!Procs
  <2>6. \A w \in Workers : wpc[w] = "delist" /\ mutex = Sleepy!Nobody => w \in Sleepy!Range(sleepers) \/ flag[w]
    BY <2>1, <2>2, <2>5 DEF Sleepy!SleepOK, Sleepy!Asleep
  <2>7. ASSUME NEW w \in Workers, flag[w]
        PROVE  w \notin Sleepy!Range(sleepers) /\ wpc[w] \in {"look", "compare", "wait", "park", "stop", "delist"}
    <3>1. Sleepy!Asleep(w) /\ ~Sleepy!Listed(w)
      BY <2>1, <2>7 DEF Sleepy!SleepOK
    <3>2. wpc[w] \in Sleepy!WorkerPcs \cup Sleepy!NotifyPcs \cup {"publish", "done"}
      BY <2>1 DEF Sleepy!Types, Sleepy!Procs
    <3> QED
      BY <2>1, <2>2, <3>1, <3>2 DEF Sleepy!Asleep, Sleepy!SlotOK, Sleepy!WorkerPcs
  <2> QED
    BY <2>1, <2>3, <2>4, <2>6, <2>7 DEF Sleepy!SlotChecks, Sleepy!Types
<1>2. Sleepy!IInv => Sleepy!MainInvariant
  <2> SUFFICES ASSUME Sleepy!IInv, Sleepy!WorkPending(Sleepy!NotifyPcs), \A w \in Workers : wpc[w] = "park" /\ ~flag[w]
               PROVE  FALSE
    BY DEF Sleepy!MainInvariant
  <2>1. PICK w \in Workers : ~Sleepy!Resting(w)
    BY DEF Sleepy!IInv, Sleepy!WorkOK, Sleepy!WorkPending
  <2>2. ~Sleepy!Listed(w) /\ Sleepy!Asleep(w) /\ ~flag[w]
    BY <2>1 DEF Sleepy!IInv, Sleepy!Resting, Sleepy!SlotOK, Sleepy!Asleep
  <2>3. PICK p \in Sleepy!Procs : target[p] = w
    BY <2>2 DEF Sleepy!IInv, Sleepy!SleepOK, Sleepy!Taken
  <2>4. wpc[p] = "unpark"
    BY <2>3 DEF Sleepy!IInv, Sleepy!MutexOK, SleepyThreadsOK, Sleepy!Procs
  <2>5. p \in Writers /\ wpc[p] \notin Sleepy!NotifyPcs
    BY <2>4 DEF Sleepy!WorkPending, Sleepy!Procs
  <2> QED
    BY <2>4, <2>5 DEF Sleepy!NotifyPcs
<1>3. Sleepy!IInv => Sleepy!CloseChecks
  <2> SUFFICES ASSUME Sleepy!IInv, Sleepy!AllDone
               PROVE  state = [parked |-> 0, searching |-> 0] /\ sleepers = <<>>
    BY DEF Sleepy!CloseChecks
  <2>1. Sleepy!Types /\ Sleepy!SlotOK /\ Sleepy!SleepOK /\ Sleepy!StateCounts
    BY DEF Sleepy!IInv
  <2>2. \A w \in Workers : wpc[w] = "done"
    BY DEF Sleepy!AllDone, Sleepy!Procs
  <2>3. \A w \in Workers : ~Sleepy!Counted(w) /\ ~Sleepy!Listed(w)
    BY <2>1, <2>2 DEF Sleepy!Counted, Sleepy!SlotOK, Sleepy!SleepOK, Sleepy!Asleep
  <2>4. sleepers = <<>>
    <3>1. sleepers \in Seq(Workers)
      BY <2>1 DEF Sleepy!Types
    <3>2. \A i \in DOMAIN sleepers : sleepers[i] \in Workers /\ Sleepy!Listed(sleepers[i])
      BY <3>1 DEF Sleepy!Listed, Sleepy!Has
    <3> QED
      BY <2>3, <3>1, <3>2
  <2>5. {w \in Workers : Sleepy!Counted(w)} = {} /\ Cardinality({}) = 0
    BY <2>3, FS_EmptySet
  <2>6. state.parked = 0 /\ state.searching = 0
    BY <2>1, <2>4, <2>5, SleepyCardinality DEF Sleepy!StateCounts
  <2>7. state = [parked |-> state.parked, searching |-> state.searching]
    BY <2>1 DEF Sleepy!Types
  <2> QED
    BY <2>4, <2>6, <2>7
<1> QED
  BY <1>1, <1>2, <1>3 DEF Sleepy!IInv

----------------------------------------------------------------------------
(* Both waiters, whichever the behaviour is of.                             *)
WaitersInv ==
  /\ part = "Sleepy" => Sleepy!IInv /\ SleepyClient
  /\ part = "Eager" => Eager!IInv /\ EagerClient

(* No wake-up is lost by either waiter of MpmcWaiter.h, for every number of *)
(* workers, writers, units of work and rounds: published work has a worker  *)
(* that is awake or a notify() on its way; the counts of state_, the list   *)
(* of sleepers and the unpark flags agree, the CHECKs of wait(), stop_wait()*)
(* and close() pass, and a sleeper is seen by who has to wake it.           *)
THEOREM WaitersHoldCorrect ==
  ASSUME SleepyThreadsOK, EagerThreadsOK
  PROVE  MCSpec => []WaitersHold
<1>1. MCInit => WaitersInv
  BY SleepyStart, EagerStart DEF MCInit, WaitersInv
<1>2. WaitersInv /\ MCNext => WaitersInv'
  <2> SUFFICES ASSUME WaitersInv, MCNext PROVE WaitersInv'
    OBVIOUS
  <2>1. part' = part
    BY DEF MCNext
  <2>2. CASE part = "Sleepy"
    <3>1. Sleepy!Next /\ Sleepy!IInv /\ SleepyClient
      BY <2>2 DEF MCNext, WaitersInv
    <3>2. Sleepy!IInv' /\ SleepyClient'
      BY <3>1, SleepyStep, SleepyClientStep
    <3> QED
      BY <2>1, <2>2, <3>2 DEF WaitersInv
  <2>3. CASE part = "Eager"
    <3>1. Eager!Next /\ Eager!IInv /\ EagerClient
      BY <2>3 DEF MCNext, WaitersInv
    <3>2. Eager!IInv' /\ EagerClient'
      BY <3>1, EagerStep, EagerClientStep
    <3> QED
      BY <2>1, <2>3, <3>2 DEF WaitersInv
  <2> QED
    BY <2>1, <2>2, <2>3 DEF WaitersInv
<1>3. WaitersInv /\ UNCHANGED mc_vars => WaitersInv'
  <2> SUFFICES ASSUME WaitersInv, UNCHANGED mc_vars PROVE WaitersInv'
    OBVIOUS
  <2>1. /\ part' = part /\ wpc' = wpc /\ writePos' = writePos /\ readPos' = readPos /\ pos' = pos /\ cnt' = cnt
        /\ state' = state /\ mutex' = mutex /\ sleepers' = sleepers /\ slot' = slot /\ flag' = flag
        /\ target' = target /\ seen' = seen /\ yields' = yields
    BY DEF mc_vars, waitVars, sleepyVars, eagerVars
  <2>2. (Sleepy!IInv => Sleepy!IInv') /\ (SleepyClient => SleepyClient')
    BY <2>1 DEF Sleepy!IInv, Sleepy!Types, Sleepy!SlotOK, Sleepy!MutexOK, Sleepy!SleepOK, Sleepy!Asleep,
       Sleepy!Listed, Sleepy!Taken, Sleepy!StateCounts, Sleepy!Counted, Sleepy!WorkOK, Sleepy!Resting,
       SleepyClient
  <2>3. (Eager!IInv => Eager!IInv') /\ (EagerClient => EagerClient')
    BY <2>1 DEF Eager!IInv, Eager!Types, Eager!PlaceOK, Eager!SleeperIsSeen, Eager!WorkOK, Eager!Untold,
       EagerClient
  <2> QED
    BY <2>1, <2>2, <2>3 DEF WaitersInv
<1>4. WaitersInv => WaitersHold
  BY SleepyTypes, SleepyMeaning, EagerMeaning DEF WaitersInv, WaitersHold
<1> QED
  BY <1>1, <1>2, <1>3, <1>4, PTL DEF MCSpec
----------------------------------------------------------------------------
(* A step that changes no variable of StealingQueue keeps its invariant.    *)
LEMMA ThievesStay ==
  ASSUME Thieves!StealingOK, Thieves!Inv, UNCHANGED stealVars
  PROVE  Thieves!Inv'
<1>1. UNCHANGED Thieves!vars
  BY DEF stealVars, Thieves!vars, Thieves!queueVars, Thieves!stealVars
<1> QED BY <1>1, Thieves!InvStep

(* StealingHolds, for any threads, any size of the queues, and whatever     *)
(* items the items make: while owners push, pop and throw half of a queue   *)
(* out, and others steal from it, no queue outgrows its ring, and each item *)
(* is in one place until it is got, once.                                   *)
THEOREM StealingHoldsCorrect ==
  ASSUME Thieves!StealingOK
  PROVE  MCSpec => []StealingHolds
<1> DEFINE Kept == part = "Thieves" => Thieves!Inv
<1>1. MCInit => Kept
  <2>1. Thieves!Init => Thieves!Inv
    BY Thieves!InvInit
  <2> QED BY <2>1 DEF MCInit
<1>2. Kept /\ [MCNext]_mc_vars => Kept'
  <2> SUFFICES ASSUME Kept, [MCNext]_mc_vars, part' = "Thieves" PROVE Thieves!Inv'
    OBVIOUS
  <2>1. CASE MCNext
    <3>1. part = "Thieves" /\ Thieves!Next
      BY <2>1 DEF MCNext
    <3> QED BY <3>1, Thieves!InvStep
  <2>2. CASE UNCHANGED mc_vars
    <3>1. part = "Thieves" /\ UNCHANGED stealVars
      BY <2>2 DEF mc_vars
    <3> QED BY <3>1, ThievesStay
  <2> QED BY <2>1, <2>2
<1>3. Kept => StealingHolds
  <2>1. Thieves!Inv => Thieves!StealingHolds
    BY Thieves!InvFits, Thieves!InvEachOnce DEF Thieves!Inv, Thieves!StealingHolds
  <2> QED BY <2>1 DEF StealingHolds
<1> QED BY <1>1, <1>2, <1>3, PTL DEF MCSpec
=============================================================================
