---------------------------- MODULE SharedSlice ----------------------------
(***************************************************************************)
(* td/utils/SharedSlice.h: a block of bytes with an atomic reference       *)
(* count.  A SharedSlice only reads it and may be cloned to other threads; *)
(* a UniqueSharedSlice may write it.  Turning the first into the second    *)
(* asks the count whether anybody else is left and copies when there is.   *)
(***************************************************************************)
EXTENDS Integers, FiniteSetTheorems, TLAPS

CONSTANTS Threads, Blocks, MaxWrites

ASSUME ThreadsAssumption == IsFiniteSet(Threads)
ASSUME BlocksAssumption == 0 \notin Blocks   \* nullptr
ASSUME MaxWritesAssumption == MaxWrites \in Nat

VARIABLES block,    \* refcnt_ (0: freed) and contents of each block
          shared,   \* the SharedSlice of each thread, 0 when null
          unique,   \* its UniqueSharedSlice
          turning,  \* the answer of is_unique() to a conversion under way
          seen,     \* what a thread read when it got its SharedSlice
          writes    \* the number of writes so far

vars == <<block, shared, unique, turning, seen, writes>>

Free == {b \in Blocks : block[b].refs = 0}
Dec(b) == [block EXCEPT ![b].refs = @ - 1]

Init ==
  /\ block = [b \in Blocks |-> [refs |-> 0, data |-> 0]]
  /\ shared = [t \in Threads |-> 0] /\ unique = [t \in Threads |-> 0]
  /\ turning = [t \in Threads |-> "no"] /\ seen = [t \in Threads |-> 0]
  /\ writes = 0

(* UnsafeSharedSlice::create.                                               *)
Create(t) ==
  /\ unique[t] = 0 /\ turning[t] = "no"
  /\ \E b \in Free : /\ block' = [block EXCEPT ![b] = [refs |-> 1, data |-> 0]]
                     /\ unique' = [unique EXCEPT ![t] = b]
  /\ UNCHANGED <<shared, turning, seen, writes>>

(* as_mutable_slice of a UniqueSharedSlice, and a write through it.         *)
Mutate(t) ==
  /\ unique[t] # 0 /\ writes < MaxWrites
  /\ writes' = writes + 1
  /\ block' = [block EXCEPT ![unique[t]].data = writes + 1]
  /\ UNCHANGED <<shared, unique, turning, seen>>

(* SharedSlice(UniqueSharedSlice).                                          *)
Share(t) ==
  /\ unique[t] # 0 /\ shared[t] = 0
  /\ shared' = [shared EXCEPT ![t] = unique[t]]
  /\ seen' = [seen EXCEPT ![t] = block[unique[t]].data]
  /\ unique' = [unique EXCEPT ![t] = 0]
  /\ UNCHANGED <<block, turning, writes>>

(* clone() by t, handed to u.                                               *)
Clone(t, u) ==
  /\ shared[t] # 0 /\ turning[t] = "no" /\ shared[u] = 0
  /\ block' = [block EXCEPT ![shared[t]].refs = @ + 1]
  /\ shared' = [shared EXCEPT ![u] = shared[t]]
  /\ seen' = [seen EXCEPT ![u] = block[shared[t]].data]
  /\ UNCHANGED <<unique, turning, writes>>

(* clear(): the last reference deletes the block.                           *)
ClearShared(t) ==
  /\ shared[t] # 0 /\ turning[t] = "no"
  /\ block' = Dec(shared[t])
  /\ shared' = [shared EXCEPT ![t] = 0]
  /\ UNCHANGED <<unique, turning, seen, writes>>
ClearUnique(t) ==
  /\ unique[t] # 0
  /\ block' = Dec(unique[t])
  /\ unique' = [unique EXCEPT ![t] = 0]
  /\ UNCHANGED <<shared, turning, seen, writes>>

(* UniqueSharedSlice(SharedSlice): is_unique() first, then what it said.    *)
AskNobody(t) ==
  /\ shared[t] # 0 /\ unique[t] = 0 /\ turning[t] = "no"
  /\ turning' = [turning EXCEPT ![t] = "take"]
  /\ UNCHANGED <<block, shared, unique, seen, writes>>
AskUnique(t) ==
  /\ shared[t] # 0 /\ unique[t] = 0 /\ turning[t] = "no"
  /\ turning' = [turning EXCEPT ![t] = IF block[shared[t]].refs = 1 THEN "take" ELSE "copy"]
  /\ UNCHANGED <<block, shared, unique, seen, writes>>
TakeOver(t) ==
  /\ turning[t] = "take"
  /\ unique' = [unique EXCEPT ![t] = shared[t]]
  /\ shared' = [shared EXCEPT ![t] = 0]
  /\ turning' = [turning EXCEPT ![t] = "no"]
  /\ UNCHANGED <<block, seen, writes>>
Copy(t) ==
  /\ turning[t] = "copy"
  /\ \E b \in Free :
       /\ block' = [Dec(shared[t]) EXCEPT ![b] = [refs |-> 1, data |-> block[shared[t]].data]]
       /\ unique' = [unique EXCEPT ![t] = b]
  /\ shared' = [shared EXCEPT ![t] = 0]
  /\ turning' = [turning EXCEPT ![t] = "no"]
  /\ UNCHANGED <<seen, writes>>

Next == \E t \in Threads :
  \/ Create(t) \/ Mutate(t) \/ Share(t) \/ ClearShared(t) \/ ClearUnique(t)
  \/ AskUnique(t) \/ TakeOver(t) \/ Copy(t) \/ \E u \in Threads : Clone(t, u)
Spec == Init /\ [][Next]_vars

TypeOK ==
  /\ block \in [Blocks -> [refs : Nat, data : 0 .. MaxWrites]]
  /\ shared \in [Threads -> Blocks \cup {0}]
  /\ unique \in [Threads -> Blocks \cup {0}]
  /\ turning \in [Threads -> {"no", "take", "copy"}]
  /\ seen \in [Threads -> 0 .. MaxWrites]
  /\ writes \in 0 .. MaxWrites

(* Whoever writes through a UniqueSharedSlice, a thread goes on reading     *)
(* from its SharedSlice what it read when it got it.                        *)
SharedIsConstant == \A t \in Threads : shared[t] # 0 => block[shared[t]].data = seen[t]

(* A block lives as long as somebody holds it, and no longer.               *)
HeldBy(held, b) == Cardinality({t \in Threads : held[t] = b})
HeldIsAlive == \A b \in Blocks : block[b].refs = HeldBy(shared, b) + HeldBy(unique, b)

(* The safety of the class: readers see no write, and the count is that of  *)
(* the slices.                                                              *)
SliceHolds == TypeOK /\ SharedIsConstant /\ HeldIsAlive

----------------------------------------------------------------------------
(* What can be written to has no other holder.                              *)
UniqueOK ==
  \A t \in Threads : unique[t] # 0 =>
    \A u \in Threads : shared[u] # unique[t] /\ (unique[u] = unique[t] => u = t)

(* A conversion has a SharedSlice and no UniqueSharedSlice; when is_unique  *)
(* said yes it is still the only one, for who could clone it is converting. *)
TurningOK ==
  \A t \in Threads : turning[t] # "no" =>
    /\ shared[t] # 0 /\ unique[t] = 0
    /\ turning[t] = "take" => \A u \in Threads : shared[u] = shared[t] => u = t

IInv == HeldIsAlive /\ UniqueOK /\ TurningOK /\ SharedIsConstant

(* A count of holders changes by one when one of them gets or leaves it.    *)
LEMMA Recount ==
  ASSUME NEW held \in [Threads -> Blocks \cup {0}], NEW new \in [Threads -> Blocks \cup {0}],
         NEW t \in Threads, \A u \in Threads : u # t => new[u] = held[u], NEW b \in Blocks
  PROVE  HeldBy(new, b) =
           HeldBy(held, b) + (IF new[t] = b THEN 1 ELSE 0) - (IF held[t] = b THEN 1 ELSE 0)
<1> DEFINE H == {u \in Threads : held[u] = b}
           N == {u \in Threads : new[u] = b}
<1>1. IsFiniteSet(H) /\ Cardinality(H) \in Nat
  BY ThreadsAssumption, FS_Subset, FS_CardinalityType
<1>2. t \in H <=> held[t] = b
  OBVIOUS
<1>3. N = IF new[t] = b THEN H \cup {t} ELSE H \ {t}
  OBVIOUS
<1>4. HeldBy(held, b) = Cardinality(H) /\ HeldBy(new, b) = Cardinality(N)
  BY DEF HeldBy
<1> HIDE DEF H, N
<1>5. CASE new[t] = b
  <2>1. Cardinality(N) = IF t \in H THEN Cardinality(H) ELSE Cardinality(H) + 1
    BY <1>1, <1>3, <1>5, FS_AddElement
  <2> QED
    BY <1>1, <1>2, <1>4, <1>5, <2>1
<1>6. CASE new[t] # b
  <2>1. Cardinality(N) = IF t \in H THEN Cardinality(H) - 1 ELSE Cardinality(H)
    BY <1>1, <1>3, <1>6, FS_RemoveElement
  <2> QED
    BY <1>1, <1>2, <1>4, <1>6, <2>1
<1> QED
  BY <1>5, <1>6

(* A block that nobody holds has no holder, and who holds one alone is it.  *)
LEMMA Holders ==
  ASSUME NEW held \in [Threads -> Blocks \cup {0}], NEW b \in Blocks
  PROVE  /\ HeldBy(held, b) \in Nat
         /\ HeldBy(held, b) = 0 <=> \A t \in Threads : held[t] # b
         /\ HeldBy(held, b) = 1 => \A t, u \in Threads : held[t] = b /\ held[u] = b => u = t
<1> DEFINE H == {u \in Threads : held[u] = b}
<1>1. IsFiniteSet(H) /\ Cardinality(H) \in Nat
  BY ThreadsAssumption, FS_Subset, FS_CardinalityType
<1>2. Cardinality(H) = 0 <=> H = {}
  BY <1>1, FS_EmptySet
<1>3. Cardinality(H) = 1 => \E u : H = {u}
  BY <1>1, FS_Singleton
<1>4. \A t \in Threads : t \in H <=> held[t] = b
  OBVIOUS
<1>5. H \subseteq Threads
  OBVIOUS
<1>6. HeldBy(held, b) = Cardinality(H)
  BY DEF HeldBy
<1> HIDE DEF H
<1> QED
  BY <1>1, <1>2, <1>3, <1>4, <1>5, <1>6

(* The count of a block that is held is not 0, a free one has no holder,    *)
(* and a count of 1 is that of the only SharedSlice.                        *)
LEMMA Counted ==
  ASSUME TypeOK, HeldIsAlive, NEW b \in Blocks
  PROVE  /\ block[b].refs \in Nat
         /\ \A t \in Threads : shared[t] = b \/ unique[t] = b => block[b].refs # 0
         /\ block[b].refs = 1 => \A t, u \in Threads : shared[t] = b /\ shared[u] = b => u = t
<1>1. block[b].refs = HeldBy(shared, b) + HeldBy(unique, b)
  BY DEF HeldIsAlive
<1>2. /\ HeldBy(shared, b) \in Nat
      /\ HeldBy(shared, b) = 0 <=> \A t \in Threads : shared[t] # b
      /\ HeldBy(shared, b) = 1 => \A t, u \in Threads : shared[t] = b /\ shared[u] = b => u = t
  BY Holders DEF TypeOK
<1>3. /\ HeldBy(unique, b) \in Nat
      /\ HeldBy(unique, b) = 0 <=> \A t \in Threads : unique[t] # b
  BY Holders DEF TypeOK
<1>4. block[b].refs = 1 => HeldBy(shared, b) = 1 \/ HeldBy(shared, b) = 0
  BY <1>1, <1>2, <1>3
<1>5. block[b].refs = 0 => HeldBy(shared, b) = 0 /\ HeldBy(unique, b) = 0
  BY <1>1, <1>2, <1>3
<1>6. block[b].refs \in Nat
  BY <1>1, <1>2, <1>3
<1> QED
  BY <1>2, <1>3, <1>4, <1>5, <1>6

(* What a step does to the count and the contents of a block.               *)
LEMMA Counts ==
  ASSUME TypeOK, NEW b \in Blocks
  PROVE  /\ block[b].data \in 0 .. MaxWrites
         /\ Dec(b) = [block EXCEPT ![b] = [refs |-> block[b].refs - 1, data |-> block[b].data]]
         /\ [block EXCEPT ![b].refs = @ + 1] =
              [block EXCEPT ![b] = [refs |-> block[b].refs + 1, data |-> block[b].data]]
         /\ \A n : [block EXCEPT ![b].data = n] =
              [block EXCEPT ![b] = [refs |-> block[b].refs, data |-> n]]
<1>1. block[b] \in [refs : Nat, data : 0 .. MaxWrites]
  BY DEF TypeOK
<1>2. block[b] = [refs |-> block[b].refs, data |-> block[b].data]
  BY <1>1
<1>3. [block[b] EXCEPT !.refs = @ - 1] = [refs |-> block[b].refs - 1, data |-> block[b].data]
  BY <1>1
<1>4. [block[b] EXCEPT !.refs = @ + 1] = [refs |-> block[b].refs + 1, data |-> block[b].data]
  BY <1>1
<1>5. \A n : [block[b] EXCEPT !.data = n] = [refs |-> block[b].refs, data |-> n]
  BY <1>1
<1> QED
  BY <1>1, <1>3, <1>4, <1>5 DEF Dec

(* Each step keeps the types and the inductive invariant: one step per      *)
(* action, and under it one per conjunct.                                   *)
LEMMA InvStep == TypeOK /\ IInv /\ [Next]_vars => TypeOK' /\ IInv'
<1> SUFFICES ASSUME TypeOK, IInv, [Next]_vars PROVE TypeOK' /\ IInv'
  OBVIOUS
<1>1. HeldIsAlive /\ UniqueOK /\ TurningOK /\ SharedIsConstant
  BY DEF IInv
<1>2. \A b \in Blocks : b # 0
  BY BlocksAssumption
<1>3. CASE UNCHANGED vars
  BY <1>3 DEF vars, TypeOK, IInv, HeldIsAlive, UniqueOK, TurningOK, SharedIsConstant
<1>5. shared \in [Threads -> Blocks \cup {0}] /\ unique \in [Threads -> Blocks \cup {0}]
  BY DEF TypeOK
<1>4. ASSUME NEW t \in Threads, NEW u \in Threads,
             \/ Create(t) \/ Mutate(t) \/ Share(t) \/ ClearShared(t) \/ ClearUnique(t)
             \/ AskUnique(t) \/ TakeOver(t) \/ Copy(t) \/ Clone(t, u)
      PROVE  TypeOK' /\ IInv'
  <2>1. CASE Create(t)
    <3>0. PICK b \in Free : /\ block' = [block EXCEPT ![b] = [refs |-> 1, data |-> 0]]
                            /\ unique' = [unique EXCEPT ![t] = b]
      BY <2>1 DEF Create
    <3>1. /\ unique[t] = 0 /\ turning[t] = "no" /\ shared' = shared /\ turning' = turning /\ seen' = seen
          /\ writes' = writes
      BY <2>1 DEF Create
    <3>2. b \in Blocks /\ block[b].refs = 0 /\ \A v \in Threads : shared[v] # b /\ unique[v] # b
      BY <1>1, Counted DEF Free
    <3>3. block' = [block EXCEPT ![b] = [refs |-> 1, data |-> 0]] /\ unique' = [unique EXCEPT ![t] = b]
      BY <3>0
    <3>4. TypeOK'
      BY <3>1, <3>2, <3>3, MaxWritesAssumption DEF TypeOK
    <3>5. HeldIsAlive'
      <4> SUFFICES ASSUME NEW c \in Blocks
                   PROVE  block'[c].refs = HeldBy(shared', c) + HeldBy(unique', c)
        BY DEF HeldIsAlive
      <4>1. block[c].refs = HeldBy(shared, c) + HeldBy(unique, c)
        BY <1>1 DEF HeldIsAlive
      <4>2. HeldBy(unique', c) = HeldBy(unique, c) + (IF b = c THEN 1 ELSE 0) - (IF unique[t] = c THEN 1 ELSE 0)
        <5>1. unique' \in [Threads -> Blocks \cup {0}]
          BY <3>4 DEF TypeOK
        <5>2. unique'[t] = b /\ \A v \in Threads : v # t => unique'[v] = unique[v]
          BY <1>5, <3>3
        <5>3. HeldBy(unique', c) = HeldBy(unique, c) + (IF unique'[t] = c THEN 1 ELSE 0) - (IF unique[t] = c THEN 1 ELSE 0)
          BY <1>5, <5>1, <5>2, Recount
        <5> QED
          BY <5>2, <5>3
      <4>3. HeldBy(shared, c) \in Nat /\ HeldBy(unique, c) \in Nat
        BY Holders DEF TypeOK
      <4> QED
        BY <1>2, <4>1, <4>2, <4>3, <3>1, <3>2, <3>3 DEF TypeOK
    <3>6. UniqueOK'
      BY <1>1, <3>1, <3>2, <3>3 DEF UniqueOK
    <3>7. TurningOK'
      BY <1>1, <3>1, <3>3 DEF TurningOK
    <3>8. SharedIsConstant'
      BY <1>1, <3>1, <3>2, <3>3 DEF SharedIsConstant
    <3> QED
      BY <3>4, <3>5, <3>6, <3>7, <3>8 DEF IInv
  <2>2. CASE Mutate(t)
    <3>1. /\ unique[t] \in Blocks /\ writes < MaxWrites /\ writes' = writes + 1 /\ shared' = shared
          /\ unique' = unique /\ turning' = turning /\ seen' = seen
      BY <2>2 DEF Mutate, TypeOK
    <3>2. block' = [block EXCEPT ![unique[t]] = [refs |-> block[unique[t]].refs, data |-> writes + 1]]
      BY <2>2, <3>1, Counts DEF Mutate
    <3>3. TypeOK'
      BY <3>1, <3>2, MaxWritesAssumption DEF TypeOK
    <3>4. HeldIsAlive'
      <4> SUFFICES ASSUME NEW c \in Blocks
                   PROVE  block'[c].refs = HeldBy(shared', c) + HeldBy(unique', c)
        BY DEF HeldIsAlive
      <4>1. block[c].refs = HeldBy(shared, c) + HeldBy(unique, c)
        BY <1>1 DEF HeldIsAlive
      <4>2. HeldBy(shared, c) \in Nat /\ HeldBy(unique, c) \in Nat
        BY Holders DEF TypeOK
      <4> QED
        BY <4>1, <3>1, <3>2
    <3>5. UniqueOK'
      BY <1>1, <3>1 DEF UniqueOK
    <3>6. TurningOK'
      BY <1>1, <3>1 DEF TurningOK
    <3>7. SharedIsConstant'
      BY <1>1, <3>1, <3>2 DEF SharedIsConstant, UniqueOK
    <3> QED
      BY <3>3, <3>4, <3>5, <3>6, <3>7 DEF IInv
  <2>3. CASE Share(t)
    <3>1. unique[t] \in Blocks /\ shared[t] = 0 /\ block' = block /\ turning' = turning /\ writes' = writes
      BY <2>3 DEF Share, TypeOK
    <3>2. /\ shared' = [shared EXCEPT ![t] = unique[t]] /\ unique' = [unique EXCEPT ![t] = 0]
          /\ seen' = [seen EXCEPT ![t] = block[unique[t]].data]
      BY <2>3 DEF Share
    <3>3. TypeOK'
      BY <3>1, <3>2 DEF TypeOK
    <3>4. HeldIsAlive'
      <4> SUFFICES ASSUME NEW c \in Blocks
                   PROVE  block'[c].refs = HeldBy(shared', c) + HeldBy(unique', c)
        BY DEF HeldIsAlive
      <4>1. block[c].refs = HeldBy(shared, c) + HeldBy(unique, c)
        BY <1>1 DEF HeldIsAlive
      <4>2. HeldBy(shared', c) = HeldBy(shared, c) + (IF unique[t] = c THEN 1 ELSE 0) - (IF shared[t] = c THEN 1 ELSE 0)
        <5>1. shared' \in [Threads -> Blocks \cup {0}]
          BY <3>3 DEF TypeOK
        <5>2. shared'[t] = unique[t] /\ \A v \in Threads : v # t => shared'[v] = shared[v]
          BY <1>5, <3>2
        <5> QED
          BY <1>5, <5>1, <5>2, Recount
      <4>3. HeldBy(unique', c) = HeldBy(unique, c) + (IF 0 = c THEN 1 ELSE 0) - (IF unique[t] = c THEN 1 ELSE 0)
        <5>1. unique' \in [Threads -> Blocks \cup {0}]
          BY <3>3 DEF TypeOK
        <5>2. unique'[t] = 0 /\ \A v \in Threads : v # t => unique'[v] = unique[v]
          BY <1>5, <3>2
        <5> QED
          BY <1>5, <5>1, <5>2, Recount
      <4>4. HeldBy(shared, c) \in Nat /\ HeldBy(unique, c) \in Nat
        BY Holders DEF TypeOK
      <4> QED
        BY <4>1, <4>2, <4>3, <4>4, <3>1
    <3>5. UniqueOK'
      BY <1>1, <3>2 DEF UniqueOK, TypeOK
    <3>6. TurningOK'
      BY <1>1, <3>1, <3>2 DEF TurningOK, UniqueOK
    <3>7. SharedIsConstant'
      BY <1>1, <3>1, <3>2 DEF SharedIsConstant, TypeOK
    <3> QED
      BY <3>3, <3>4, <3>5, <3>6, <3>7 DEF IInv
  <2>4. CASE ClearShared(t)
    <3>1. /\ shared[t] \in Blocks /\ turning[t] = "no" /\ unique' = unique /\ turning' = turning
          /\ seen' = seen /\ writes' = writes
      BY <2>4 DEF ClearShared, TypeOK
    <3>2. /\ block' = [block EXCEPT ![shared[t]] = [refs |-> block[shared[t]].refs - 1, data |-> block[shared[t]].data]]
          /\ shared' = [shared EXCEPT ![t] = 0]
      BY <2>4, <3>1, Counts DEF ClearShared
    <3>3. /\ block[shared[t]].refs \in Nat /\ block[shared[t]].refs # 0
          /\ block[shared[t]].data \in 0 .. MaxWrites
      BY <1>1, <3>1, Counted, Counts
    <3>4. TypeOK'
      <4>1. [refs |-> block[shared[t]].refs - 1, data |-> block[shared[t]].data] \in [refs : Nat, data : 0 .. MaxWrites]
        BY <3>3
      <4> QED
        BY <4>1, <3>1, <3>2 DEF TypeOK
    <3>5. HeldIsAlive'
      <4> SUFFICES ASSUME NEW c \in Blocks
                   PROVE  block'[c].refs = HeldBy(shared', c) + HeldBy(unique', c)
        BY DEF HeldIsAlive
      <4>1. block[c].refs = HeldBy(shared, c) + HeldBy(unique, c)
        BY <1>1 DEF HeldIsAlive
      <4>2. HeldBy(shared', c) = HeldBy(shared, c) + (IF 0 = c THEN 1 ELSE 0) - (IF shared[t] = c THEN 1 ELSE 0)
        <5>1. shared' \in [Threads -> Blocks \cup {0}]
          BY <3>4 DEF TypeOK
        <5>2. shared'[t] = 0 /\ \A v \in Threads : v # t => shared'[v] = shared[v]
          BY <1>5, <3>2
        <5> QED
          BY <1>5, <5>1, <5>2, Recount
      <4>3. HeldBy(shared, c) \in Nat /\ HeldBy(unique, c) \in Nat
        BY Holders DEF TypeOK
      <4> QED
        BY <1>2, <4>1, <4>2, <4>3, <3>1, <3>2 DEF TypeOK
    <3>6. UniqueOK'
      BY <1>1, <3>1, <3>2 DEF UniqueOK
    <3>7. TurningOK'
      BY <1>1, <3>1, <3>2 DEF TurningOK
    <3>8. SharedIsConstant'
      BY <1>1, <3>1, <3>2 DEF SharedIsConstant
    <3> QED
      BY <3>4, <3>5, <3>6, <3>7, <3>8 DEF IInv
  <2>5. CASE ClearUnique(t)
    <3>1. unique[t] \in Blocks /\ shared' = shared /\ turning' = turning /\ seen' = seen /\ writes' = writes
      BY <2>5 DEF ClearUnique, TypeOK
    <3>2. /\ block' = [block EXCEPT ![unique[t]] = [refs |-> block[unique[t]].refs - 1, data |-> block[unique[t]].data]]
          /\ unique' = [unique EXCEPT ![t] = 0]
      BY <2>5, <3>1, Counts DEF ClearUnique
    <3>3. /\ block[unique[t]].refs \in Nat /\ block[unique[t]].refs # 0
          /\ block[unique[t]].data \in 0 .. MaxWrites
      BY <1>1, <3>1, Counted, Counts
    <3>4. TypeOK'
      <4>1. [refs |-> block[unique[t]].refs - 1, data |-> block[unique[t]].data] \in [refs : Nat, data : 0 .. MaxWrites]
        BY <3>3
      <4> QED
        BY <4>1, <3>1, <3>2 DEF TypeOK
    <3>5. HeldIsAlive'
      <4> SUFFICES ASSUME NEW c \in Blocks
                   PROVE  block'[c].refs = HeldBy(shared', c) + HeldBy(unique', c)
        BY DEF HeldIsAlive
      <4>1. block[c].refs = HeldBy(shared, c) + HeldBy(unique, c)
        BY <1>1 DEF HeldIsAlive
      <4>2. HeldBy(unique', c) = HeldBy(unique, c) + (IF 0 = c THEN 1 ELSE 0) - (IF unique[t] = c THEN 1 ELSE 0)
        <5>1. unique' \in [Threads -> Blocks \cup {0}]
          BY <3>4 DEF TypeOK
        <5>2. unique'[t] = 0 /\ \A v \in Threads : v # t => unique'[v] = unique[v]
          BY <1>5, <3>2
        <5> QED
          BY <1>5, <5>1, <5>2, Recount
      <4>3. HeldBy(shared, c) \in Nat /\ HeldBy(unique, c) \in Nat
        BY Holders DEF TypeOK
      <4> QED
        BY <1>2, <4>1, <4>2, <4>3, <3>1, <3>2 DEF TypeOK
    <3>6. UniqueOK'
      BY <1>1, <3>1, <3>2 DEF UniqueOK
    <3>7. TurningOK'
      BY <1>1, <3>1, <3>2 DEF TurningOK
    <3>8. SharedIsConstant'
      BY <1>1, <3>1, <3>2 DEF SharedIsConstant
    <3> QED
      BY <3>4, <3>5, <3>6, <3>7, <3>8 DEF IInv
  <2>6. CASE AskUnique(t)
    <3>1. /\ shared[t] \in Blocks /\ unique[t] = 0 /\ block' = block /\ shared' = shared /\ unique' = unique
          /\ seen' = seen /\ writes' = writes
      BY <2>6 DEF AskUnique, TypeOK
    <3>2. turning' = [turning EXCEPT ![t] = IF block[shared[t]].refs = 1 THEN "take" ELSE "copy"]
      BY <2>6 DEF AskUnique
    <3>3. block[shared[t]].refs = 1 => \A v \in Threads : shared[v] = shared[t] => v = t
      BY <1>1, <3>1, Counted
    <3>4. TypeOK'
      BY <3>1, <3>2 DEF TypeOK
    <3>5. HeldIsAlive'
      <4> SUFFICES ASSUME NEW c \in Blocks
                   PROVE  block'[c].refs = HeldBy(shared', c) + HeldBy(unique', c)
        BY DEF HeldIsAlive
      <4>1. block[c].refs = HeldBy(shared, c) + HeldBy(unique, c)
        BY <1>1 DEF HeldIsAlive
      <4>2. HeldBy(shared, c) \in Nat /\ HeldBy(unique, c) \in Nat
        BY Holders DEF TypeOK
      <4> QED
        BY <4>1, <3>1
    <3>6. UniqueOK'
      BY <1>1, <3>1 DEF UniqueOK
    <3>7. TurningOK'
      BY <1>1, <1>2, <3>1, <3>2, <3>3 DEF TurningOK
    <3>8. SharedIsConstant'
      BY <1>1, <3>1 DEF SharedIsConstant
    <3> QED
      BY <3>4, <3>5, <3>6, <3>7, <3>8 DEF IInv
  <2>7. CASE TakeOver(t)
    <3>1. shared[t] \in Blocks /\ unique[t] = 0 /\ block' = block /\ seen' = seen /\ writes' = writes
      BY <1>1, <2>7 DEF TakeOver, TurningOK, TypeOK
    <3>2. /\ shared' = [shared EXCEPT ![t] = 0] /\ unique' = [unique EXCEPT ![t] = shared[t]]
          /\ turning' = [turning EXCEPT ![t] = "no"]
      BY <2>7 DEF TakeOver
    <3>3. \A v \in Threads : (shared[v] = shared[t] => v = t) /\ unique[v] # shared[t]
      BY <1>1, <2>7 DEF TakeOver, TurningOK, UniqueOK
    <3>4. TypeOK'
      BY <3>1, <3>2 DEF TypeOK
    <3>5. HeldIsAlive'
      <4> SUFFICES ASSUME NEW c \in Blocks
                   PROVE  block'[c].refs = HeldBy(shared', c) + HeldBy(unique', c)
        BY DEF HeldIsAlive
      <4>1. block[c].refs = HeldBy(shared, c) + HeldBy(unique, c)
        BY <1>1 DEF HeldIsAlive
      <4>2. HeldBy(shared', c) = HeldBy(shared, c) + (IF 0 = c THEN 1 ELSE 0) - (IF shared[t] = c THEN 1 ELSE 0)
        <5>1. shared' \in [Threads -> Blocks \cup {0}]
          BY <3>4 DEF TypeOK
        <5>2. shared'[t] = 0 /\ \A v \in Threads : v # t => shared'[v] = shared[v]
          BY <1>5, <3>2
        <5> QED
          BY <1>5, <5>1, <5>2, Recount
      <4>3. HeldBy(unique', c) = HeldBy(unique, c) + (IF shared[t] = c THEN 1 ELSE 0) - (IF unique[t] = c THEN 1 ELSE 0)
        <5>1. unique' \in [Threads -> Blocks \cup {0}]
          BY <3>4 DEF TypeOK
        <5>2. unique'[t] = shared[t] /\ \A v \in Threads : v # t => unique'[v] = unique[v]
          BY <1>5, <3>2
        <5> QED
          BY <1>5, <5>1, <5>2, Recount
      <4>4. HeldBy(shared, c) \in Nat /\ HeldBy(unique, c) \in Nat
        BY Holders DEF TypeOK
      <4> QED
        BY <4>1, <4>2, <4>3, <4>4, <3>1
    <3>6. UniqueOK'
      BY <1>1, <3>2, <3>3 DEF UniqueOK, TypeOK
    <3>7. TurningOK'
      BY <1>1, <3>2 DEF TurningOK, TypeOK
    <3>8. SharedIsConstant'
      BY <1>1, <3>1, <3>2 DEF SharedIsConstant
    <3> QED
      BY <3>4, <3>5, <3>6, <3>7, <3>8 DEF IInv
  <2>8. CASE Copy(t)
    <3>0. PICK b \in Free : /\ block' = [Dec(shared[t]) EXCEPT ![b] = [refs |-> 1, data |-> block[shared[t]].data]]
                            /\ unique' = [unique EXCEPT ![t] = b]
      BY <2>8 DEF Copy
    <3>1. shared[t] \in Blocks /\ unique[t] = 0 /\ seen' = seen /\ writes' = writes
      BY <1>1, <2>8 DEF Copy, TurningOK, TypeOK
    <3>2. /\ block[shared[t]].refs \in Nat /\ block[shared[t]].refs # 0
          /\ block[shared[t]].data \in 0 .. MaxWrites
      BY <1>1, <3>1, Counted, Counts
    <3>3. /\ b \in Blocks /\ b # shared[t] /\ block[b].refs = 0
          /\ \A v \in Threads : shared[v] # b /\ unique[v] # b
      BY <1>1, Counted DEF Free
    <3>4. Dec(shared[t]) = [block EXCEPT ![shared[t]] = [refs |-> block[shared[t]].refs - 1, data |-> block[shared[t]].data]]
      BY <3>1, Counts
    <3>5. /\ block' = [block EXCEPT ![shared[t]] = [refs |-> block[shared[t]].refs - 1, data |-> block[shared[t]].data],
                                  ![b] = [refs |-> 1, data |-> block[shared[t]].data]]
          /\ shared' = [shared EXCEPT ![t] = 0] /\ unique' = [unique EXCEPT ![t] = b]
          /\ turning' = [turning EXCEPT ![t] = "no"]
      BY <2>8, <3>0, <3>4 DEF Copy
    <3>6. TypeOK'
      <4>1. [refs |-> block[shared[t]].refs - 1, data |-> block[shared[t]].data] \in [refs : Nat, data : 0 .. MaxWrites]
        BY <3>2
      <4>2. [refs |-> 1, data |-> block[shared[t]].data] \in [refs : Nat, data : 0 .. MaxWrites]
        BY <3>2
      <4> QED
        BY <3>1, <3>2, <3>3, <3>5 DEF TypeOK
    <3>7. HeldIsAlive'
      <4> SUFFICES ASSUME NEW c \in Blocks
                   PROVE  block'[c].refs = HeldBy(shared', c) + HeldBy(unique', c)
        BY DEF HeldIsAlive
      <4>1. block[c].refs = HeldBy(shared, c) + HeldBy(unique, c)
        BY <1>1 DEF HeldIsAlive
      <4>2. HeldBy(shared', c) = HeldBy(shared, c) + (IF 0 = c THEN 1 ELSE 0) - (IF shared[t] = c THEN 1 ELSE 0)
        <5>1. shared' \in [Threads -> Blocks \cup {0}]
          BY <3>6 DEF TypeOK
        <5>2. shared'[t] = 0 /\ \A v \in Threads : v # t => shared'[v] = shared[v]
          BY <1>5, <3>5
        <5> QED
          BY <1>5, <5>1, <5>2, Recount
      <4>3. HeldBy(unique', c) = HeldBy(unique, c) + (IF b = c THEN 1 ELSE 0) - (IF unique[t] = c THEN 1 ELSE 0)
        <5>1. unique' \in [Threads -> Blocks \cup {0}]
          BY <3>6 DEF TypeOK
        <5>2. unique'[t] = b /\ \A v \in Threads : v # t => unique'[v] = unique[v]
          BY <1>5, <3>5
        <5>3. HeldBy(unique', c) = HeldBy(unique, c) + (IF unique'[t] = c THEN 1 ELSE 0) - (IF unique[t] = c THEN 1 ELSE 0)
          BY <1>5, <5>1, <5>2, Recount
        <5> QED
          BY <5>2, <5>3
      <4>4. HeldBy(shared, c) \in Nat /\ HeldBy(unique, c) \in Nat
        BY Holders DEF TypeOK
      <4> QED
        BY <4>1, <4>2, <4>3, <4>4, <3>1, <3>3, <3>5 DEF TypeOK
    <3>8. UniqueOK'
      BY <1>1, <3>3, <3>5 DEF UniqueOK
    <3>9. TurningOK'
      BY <1>1, <3>5 DEF TurningOK, TypeOK
    <3>10. SharedIsConstant'
      BY <1>1, <3>1, <3>3, <3>5 DEF SharedIsConstant, TypeOK
    <3> QED
      BY <3>6, <3>7, <3>8, <3>9, <3>10 DEF IInv
  <2>9. CASE Clone(t, u)
    <3>1. /\ shared[t] \in Blocks /\ turning[t] = "no" /\ shared[u] = 0 /\ unique' = unique
          /\ turning' = turning /\ writes' = writes
      BY <2>9 DEF Clone, TypeOK
    <3>2. /\ block' = [block EXCEPT ![shared[t]] = [refs |-> block[shared[t]].refs + 1, data |-> block[shared[t]].data]]
          /\ shared' = [shared EXCEPT ![u] = shared[t]]
          /\ seen' = [seen EXCEPT ![u] = block[shared[t]].data]
      BY <2>9, <3>1, Counts DEF Clone
    <3>3. block[shared[t]].refs \in Nat /\ block[shared[t]].data \in 0 .. MaxWrites
      BY <1>1, <3>1, Counted, Counts
    <3>4. TypeOK'
      BY <3>1, <3>2 DEF TypeOK
    <3>5. HeldIsAlive'
      <4> SUFFICES ASSUME NEW c \in Blocks
                   PROVE  block'[c].refs = HeldBy(shared', c) + HeldBy(unique', c)
        BY DEF HeldIsAlive
      <4>1. block[c].refs = HeldBy(shared, c) + HeldBy(unique, c)
        BY <1>1 DEF HeldIsAlive
      <4>2. HeldBy(shared', c) = HeldBy(shared, c) + (IF shared[t] = c THEN 1 ELSE 0) - (IF shared[u] = c THEN 1 ELSE 0)
        <5>1. shared' \in [Threads -> Blocks \cup {0}]
          BY <3>4 DEF TypeOK
        <5>2. shared'[u] = shared[t] /\ \A v \in Threads : v # u => shared'[v] = shared[v]
          BY <1>5, <3>2
        <5> QED
          BY <1>5, <5>1, <5>2, Recount
      <4>3. HeldBy(shared, c) \in Nat /\ HeldBy(unique, c) \in Nat
        BY Holders DEF TypeOK
      <4> QED
        BY <1>2, <4>1, <4>2, <4>3, <3>1, <3>2 DEF TypeOK
    <3>6. UniqueOK'
      BY <1>1, <3>1, <3>2 DEF UniqueOK
    <3>7. TurningOK'
      BY <1>1, <3>1, <3>2 DEF TurningOK
    <3>8. SharedIsConstant'
      BY <1>1, <3>2 DEF SharedIsConstant, TypeOK
    <3> QED
      BY <3>4, <3>5, <3>6, <3>7, <3>8 DEF IInv
  <2> QED
    BY <1>4, <2>1, <2>2, <2>3, <2>4, <2>5, <2>6, <2>7, <2>8, <2>9
<1> QED
  BY <1>3, <1>4 DEF Next

(* The inductive invariant holds in every reachable state.                  *)
LEMMA Invariant == Spec => [](TypeOK /\ IInv)
<1>1. Init => TypeOK /\ IInv
  <2> SUFFICES ASSUME Init PROVE TypeOK /\ IInv
    OBVIOUS
  <2>1. TypeOK
    BY MaxWritesAssumption DEF Init, TypeOK
  <2>2. HeldIsAlive
    <3> SUFFICES ASSUME NEW b \in Blocks PROVE block[b].refs = HeldBy(shared, b) + HeldBy(unique, b)
      BY DEF HeldIsAlive
    <3>1. \A t \in Threads : shared[t] # b /\ unique[t] # b
      BY BlocksAssumption DEF Init
    <3>2. HeldBy(shared, b) = 0 /\ HeldBy(unique, b) = 0
      BY <2>1, <3>1, Holders DEF TypeOK
    <3>3. block[b].refs = 0
      BY DEF Init
    <3> QED
      BY <3>2, <3>3
  <2>3. UniqueOK /\ TurningOK /\ SharedIsConstant
    BY DEF Init, UniqueOK, TurningOK, SharedIsConstant
  <2> QED
    BY <2>1, <2>2, <2>3 DEF IInv
<1> QED
  BY <1>1, InvStep, PTL DEF Spec

(* A reader never sees a write: the last owner of a SharedSlice may turn it *)
(* into one it writes to, but is_unique() says so of the last owner only;   *)
(* and the count of a block is the number of its slices.                    *)
THEOREM SliceHoldsCorrect == Spec => []SliceHolds
<1>1. TypeOK /\ IInv => SliceHolds
  BY DEF IInv, SliceHolds
<1> QED
  BY <1>1, Invariant, PTL
=============================================================================
