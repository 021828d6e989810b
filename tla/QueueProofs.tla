---------------------------- MODULE QueueProofs ----------------------------
(***************************************************************************)
(* Proofs about the pollable queues.                                       *)
(*                                                                         *)
(* MpscPollableQueue, for every set of writers and every number of values: *)
(* its types, the promise to a waiting reader, and that each of its steps  *)
(* is a step of FifoChannel or leaves it alone.                            *)
(*                                                                         *)
(* PollQueue, for every number of values, every size of the rings and every *)
(* width of the positions: its types, that a slot is read only after it was *)
(* written, and the same promise, for a writer that flushes only what it   *)
(* has put.  Three arguments carry it.  All positions of a block are       *)
(* measured from the one the writer has last seen the reader at; from      *)
(* there the reader's, the published and the writer's follow each other    *)
(* within one ring (OrderOK, RoomOK).  An unwritten slot is one the writer *)
(* has not come to in its first round (DataOK).  And whatever the reader   *)
(* has missed when it gives up, the writer has still to tell it, or has    *)
(* told, and then the event is there or the reader looks again (SignalOK). *)
(***************************************************************************)
EXTENDS MCQueues, SequenceTheorems, TLAPS

(* The lock is held exactly by the thread that works under it.              *)
LockOK ==
  /\ \A w \in Writers : lock = w <=> pc[w] = "push"
  /\ lock = Reader <=> pc[Reader] = "look"

(* The second round comes after the first.                                  *)
AgainOK == pc[Reader] = "retry" => again = 0

(* The reader gets what it has, and asks for more when it has nothing.      *)
VectorOK ==
  /\ pc[Reader] = "get" => readerVector # <<>>
  /\ pc[Reader] \in {"look", "retry", "wait"} => readerVector = <<>>

(* A writer under the lock has a value to put.                              *)
PutOK == \A w \in Writers : pc[w] = "push" => put[w] < Puts

IInv == TypeOK /\ LockOK /\ AgainOK /\ VectorOK /\ PutOK /\ WaitsForASignal

(* What a queue holds after push_back is one value longer.                  *)
LEMMA AppendIsPut ==
  ASSUME NEW S, NEW s \in Seq(S), NEW t \in Seq(S), NEW v \in S
  PROVE  /\ s \o Append(t, v) \in Seq(S)
         /\ Channel!IsStrictPrefix(s \o t, s \o Append(t, v))
<1> DEFINE q == s \o t
           r == s \o Append(t, v)
<1>1. q \in Seq(S) /\ r \in Seq(S)
  OBVIOUS
<1>2. Len(q) = Len(s) + Len(t) /\ Len(r) = Len(q) + 1
  OBVIOUS
<1>3. \A i \in 1 .. Len(q) : q[i] = r[i]
  OBVIOUS
<1>4. Len(q) \in Nat /\ Len(q) <= Len(r)
  BY <1>1, <1>2
<1>5. SubSeq(r, 1, Len(q)) = q
  BY <1>1, <1>3, <1>4, SMTT(30)
<1>6. Channel!IsPrefix(q, r)
  BY <1>1, <1>4, <1>5 DEF Channel!IsPrefix
<1> QED BY <1>1, <1>2, <1>4, <1>6 DEF Channel!IsStrictPrefix

(* Types, and the facts an invariant needs besides, hold at the start.      *)
LEMMA InitInv == Init => IInv
<1> SUFFICES ASSUME Init PROVE IInv
  OBVIOUS
<1> USE WritersAssumption DEF Init, Procs, WriterPcs, ReaderPcs
<1>1. put \in [Writers -> 0 .. Puts]
  OBVIOUS
<1>2. writerVector \in Seq(Values) /\ readerVector \in Seq(Values) /\ got \in Seq(Values)
  OBVIOUS
<1>3. fd \in Nat
  BY DEF FdInit
<1>4. pc \in [Procs -> WriterPcs \cup ReaderPcs]
  OBVIOUS
<1>5. (\A w \in Writers : pc[w] = "put") /\ pc[Reader] = "call"
  OBVIOUS
<1>6. TypeOK
  <2>1. lock \in Procs \cup {Nobody} /\ again \in 0 .. 1
    OBVIOUS
  <2>2. waitFd \in BOOLEAN
    OBVIOUS
  <2>3. (\A w \in Writers : pc[w] \in WriterPcs) /\ pc[Reader] \in ReaderPcs
    BY <1>5
  <2> HIDE DEF Init, Procs, WriterPcs, ReaderPcs
  <2> QED BY <1>1, <1>2, <1>3, <1>4, <2>1, <2>2, <2>3 DEF TypeOK
<1>7. LockOK /\ AgainOK /\ VectorOK /\ PutOK /\ WaitsForASignal
  BY <1>5 DEF LockOK, AgainOK, VectorOK, PutOK, WaitsForASignal
<1> QED BY <1>6, <1>7 DEF IInv

(* Every step keeps the types.                                              *)
LEMMA TypeStep == IInv /\ [Next]_vars => TypeOK'
<1> SUFFICES ASSUME IInv, [Next]_vars PROVE TypeOK'
  OBVIOUS
<1> USE WritersAssumption DEF IInv, TypeOK, Goto, Lock, Unlock, Procs, WriterPcs, ReaderPcs, lockVars
<1>1. ASSUME NEW w \in Writers, WriterLock(w) PROVE TypeOK'
  BY <1>1 DEF WriterLock
<1>2. ASSUME NEW w \in Writers, WriterPush(w) PROVE TypeOK'
  <2>1. put[w] + 1 \in 1 .. Puts
    BY <1>2 DEF WriterPush, PutOK
  <2>2. <<w, put[w] + 1>> \in Values
    BY <2>1 DEF Values
  <2>3. writerVector' \in Seq(Values)
    BY <1>2, <2>2 DEF WriterPush
  <2>4. put' \in [Writers -> 0 .. Puts]
    BY <1>2, <2>1 DEF WriterPush
  <2> QED BY <1>2, <2>3, <2>4 DEF WriterPush
<1>3. ASSUME NEW w \in Writers, WriterSignal(w) PROVE TypeOK'
  BY <1>3 DEF WriterSignal, FdRelease
<1>4. CASE ReaderReady
  BY <1>4 DEF ReaderReady
<1>5. CASE ReaderLock
  BY <1>5 DEF ReaderLock, AgainOK
<1>6. CASE ReaderSwap
  BY <1>6 DEF ReaderSwap
<1>7. CASE ReaderAcquire
  BY <1>7 DEF ReaderAcquire, FdAcquire
<1>8. CASE ReaderReturnsZero
  BY <1>8 DEF ReaderReturnsZero
<1>9. CASE ReaderWake
  BY <1>9 DEF ReaderWake
<1>10. CASE ReaderTimeout
  BY <1>10 DEF ReaderTimeout
<1>11. CASE ReaderGet
  <2>1. readerVector # <<>>
    BY <1>11 DEF ReaderGet, VectorOK
  <2>2. Head(readerVector) \in Values /\ Tail(readerVector) \in Seq(Values)
    BY <2>1
  <2>3. got' \in Seq(Values) /\ readerVector' \in Seq(Values)
    BY <1>11, <2>2 DEF ReaderGet
  <2> QED BY <1>11, <2>3 DEF ReaderGet
<1>12. CASE UNCHANGED vars
  BY <1>12 DEF vars
<1> QED
  BY <1>1, <1>2, <1>3, <1>4, <1>5, <1>6, <1>7, <1>8, <1>9, <1>10, <1>11, <1>12
  DEF Next, Writer, ReaderStep

(* Every step keeps the lock with its holder, the round of the reader, what *)
(* it has in its hands, and the writer's right to put.                      *)
LEMMA PlaceStep == IInv /\ [Next]_vars => LockOK' /\ AgainOK' /\ VectorOK' /\ PutOK'
<1> SUFFICES ASSUME IInv, [Next]_vars PROVE LockOK' /\ AgainOK' /\ VectorOK' /\ PutOK'
  OBVIOUS
<1> USE WritersAssumption
    DEF IInv, TypeOK, Goto, Lock, Unlock, Procs, WriterPcs, ReaderPcs, lockVars, LockOK, AgainOK,
        VectorOK, PutOK
<1>1. ASSUME NEW w \in Writers, WriterLock(w)
      PROVE  LockOK' /\ AgainOK' /\ VectorOK' /\ PutOK'
  BY <1>1 DEF WriterLock
<1>2. ASSUME NEW w \in Writers, WriterPush(w)
      PROVE  LockOK' /\ AgainOK' /\ VectorOK' /\ PutOK'
  BY <1>2 DEF WriterPush
<1>3. ASSUME NEW w \in Writers, WriterSignal(w)
      PROVE  LockOK' /\ AgainOK' /\ VectorOK' /\ PutOK'
  BY <1>3 DEF WriterSignal
<1>4. CASE ReaderReady
  BY <1>4 DEF ReaderReady
<1>5. CASE ReaderLock
  BY <1>5 DEF ReaderLock
<1>6. CASE ReaderSwap
  BY <1>6 DEF ReaderSwap
<1>7. CASE ReaderAcquire
  BY <1>7 DEF ReaderAcquire
<1>8. CASE ReaderReturnsZero
  BY <1>8 DEF ReaderReturnsZero
<1>9. CASE ReaderWake
  BY <1>9 DEF ReaderWake
<1>10. CASE ReaderTimeout
  BY <1>10 DEF ReaderTimeout
<1>11. CASE ReaderGet
  BY <1>11 DEF ReaderGet
<1>12. CASE UNCHANGED vars
  BY <1>12 DEF vars
<1> QED
  BY <1>1, <1>2, <1>3, <1>4, <1>5, <1>6, <1>7, <1>8, <1>9, <1>10, <1>11, <1>12
  DEF Next, Writer, ReaderStep

(* Every step keeps the promise to a waiting reader: only the reader drains *)
(* the event fd, and a writer that resets the flag signals.                 *)
LEMMA SignalStep == IInv /\ [Next]_vars => WaitsForASignal'
<1> SUFFICES ASSUME IInv, [Next]_vars PROVE WaitsForASignal'
  OBVIOUS
<1> USE WritersAssumption
    DEF IInv, TypeOK, Goto, Lock, Unlock, Procs, WriterPcs, ReaderPcs, lockVars, WaitsForASignal,
        FdReady
<1>1. ASSUME NEW w \in Writers, WriterLock(w) PROVE WaitsForASignal'
  BY <1>1 DEF WriterLock
<1>2. ASSUME NEW w \in Writers, WriterPush(w) PROVE WaitsForASignal'
  <2>1. CASE waitFd
    BY <1>2, <2>1 DEF WriterPush
  <2>2. CASE ~waitFd
    BY <1>2, <2>2 DEF WriterPush
  <2> QED BY <2>1, <2>2
<1>3. ASSUME NEW w \in Writers, WriterSignal(w) PROVE WaitsForASignal'
  BY <1>3 DEF WriterSignal, FdRelease
<1>4. CASE ReaderReady
  BY <1>4 DEF ReaderReady
<1>5. CASE ReaderLock
  BY <1>5 DEF ReaderLock
<1>6. CASE ReaderSwap
  BY <1>6 DEF ReaderSwap
<1>7. CASE ReaderAcquire
  BY <1>7 DEF ReaderAcquire
<1>8. CASE ReaderReturnsZero
  BY <1>8 DEF ReaderReturnsZero
<1>9. CASE ReaderWake
  BY <1>9 DEF ReaderWake
<1>10. CASE ReaderTimeout
  BY <1>10 DEF ReaderTimeout
<1>11. CASE ReaderGet
  BY <1>11 DEF ReaderGet
<1>12. CASE UNCHANGED vars
  BY <1>12 DEF vars
<1> QED
  BY <1>1, <1>2, <1>3, <1>4, <1>5, <1>6, <1>7, <1>8, <1>9, <1>10, <1>11, <1>12
  DEF Next, Writer, ReaderStep

(* The invariant all the results below rest on.                             *)
THEOREM Invariant == Spec => []IInv
<1>1. IInv /\ [Next]_vars => IInv'
  BY TypeStep, PlaceStep, SignalStep DEF IInv
<1> QED BY InitInv, <1>1, PTL DEF Spec

(* Every variable keeps its type; the loop of reader_wait_nonblock ends     *)
(* before its UNREACHABLE().                                                *)
THEOREM TypeCorrect == Spec => []TypeOK
<1>1. IInv => TypeOK
  BY DEF IInv
<1> QED BY Invariant, <1>1, PTL

(* A reader that was told to wait has or will get its signal.               *)
THEOREM WaitsForASignalCorrect == Spec => []WaitsForASignal
<1>1. IInv => WaitsForASignal
  BY DEF IInv
<1> QED BY Invariant, <1>1, PTL

(* A step of the queue puts one value, takes the oldest one, or neither.    *)
LEMMA ChannelStep == IInv /\ [Next]_vars => [Channel!Next]_(Channel!vars)
<1> DEFINE queue == readerVector \o writerVector
<1> SUFFICES ASSUME IInv, [Next]_vars PROVE [Channel!Next]_(Channel!vars)
  OBVIOUS
<1> USE DEF IInv, TypeOK
<1>1. ASSUME NEW w \in Writers, WriterPush(w) PROVE Channel!Put
  <2>1. put[w] + 1 \in 1 .. Puts
    BY <1>1, WritersAssumption DEF WriterPush, PutOK
  <2>2. <<w, put[w] + 1>> \in Values
    BY <2>1 DEF Values
  <2>3. queue' = readerVector \o Append(writerVector, <<w, put[w] + 1>>)
    BY <1>1 DEF WriterPush
  <2>4. queue' \in Seq(Values) /\ Channel!IsStrictPrefix(queue, queue')
    BY <2>2, <2>3, AppendIsPut
  <2> QED BY <1>1, <2>4 DEF WriterPush, Channel!Put
<1>2. CASE ReaderGet
  <2>1. readerVector # <<>>
    BY <1>2 DEF ReaderGet, VectorOK
  <2>2. queue # <<>> /\ Head(queue) = Head(readerVector)
    BY <2>1
  <2>3. Tail(queue) = Tail(readerVector) \o writerVector
    BY <2>1
  <2>4. got' = Append(got, Head(queue))
    BY <1>2, <2>2 DEF ReaderGet
  <2>5. queue' = Tail(readerVector) \o writerVector
    BY <1>2 DEF ReaderGet, lockVars
  <2> QED BY <2>2, <2>3, <2>4, <2>5 DEF Channel!Take, Channel!Next
<1>3. CASE ReaderSwap
  <2>1. readerVector = <<>>
    BY <1>3 DEF ReaderSwap, VectorOK
  <2>2. queue' = queue
    BY <1>3, <2>1 DEF ReaderSwap
  <2> QED BY <1>3, <2>2 DEF ReaderSwap, Channel!vars
<1>4. ASSUME UNCHANGED <<readerVector, writerVector, got>> PROVE UNCHANGED Channel!vars
  BY <1>4 DEF Channel!vars
<1>5. ASSUME NEW w \in Writers, WriterLock(w) \/ WriterSignal(w)
      PROVE  UNCHANGED <<readerVector, writerVector, got>>
  BY <1>5 DEF WriterLock, WriterSignal, lockVars
<1>6. ASSUME \/ ReaderReady \/ ReaderLock \/ ReaderAcquire \/ ReaderReturnsZero
             \/ ReaderWake \/ ReaderTimeout \/ UNCHANGED vars
      PROVE  UNCHANGED <<readerVector, writerVector, got>>
  BY <1>6 DEF ReaderReady, ReaderLock, ReaderAcquire, ReaderReturnsZero, ReaderWake,
              ReaderTimeout, lockVars, vars
<1> QED
  BY <1>1, <1>2, <1>3, <1>4, <1>5, <1>6 DEF Next, Writer, ReaderStep, Channel!Next

(* The queue implements the safety of a first-in first-out channel: values  *)
(* are neither lost nor doubled nor reordered.                              *)
THEOREM ImplementsChannel == Spec => IsAChannel
<1>1. Init => Channel!Init
  BY DEF Init, Channel!Init
<1> QED BY Invariant, <1>1, ChannelStep, PTL DEF Spec, IsAChannel, Channel!Spec

----------------------------------------------------------------------------
(* The sizes of PollQueue: the ring is a part of what a position counts to. *)
PollOK ==
  /\ PollPuts \in Nat
  /\ PollSize \in Nat \ {0} /\ PollModulus \in Nat /\ PollSize < PollModulus
  /\ PollTries \in Nat \ {0}

(* The blocks of the chain: all but the last are closed, only the first may *)
(* have been read from, and only the first and the last may be empty.       *)
ChainOK ==
  /\ \A k \in 1 .. Len(blocks) : blocks[k].closed <=> k < Len(blocks)
  /\ \A k \in 2 .. Len(blocks) : blocks[k].r = 0
  /\ \A k \in 2 .. (Len(blocks) - 1) : blocks[k].w # 0

(* The writer's positions in the last block: what it has seen of the        *)
(* reader, what it has published, where it writes, one ring at most.        *)
RoomOK ==
  /\ Poll!Dist(wSeen, blocks[Len(blocks)].w) <= Poll!Dist(wSeen, wPos)
  /\ Poll!Dist(wSeen, wPos) <= PollSize
  /\ Len(blocks) > 1 => wSeen = 0
  /\ wpc = "fill" => Poll!Dist(wSeen, wPos) < PollSize
  /\ wpc \in {"publish", "close"} => Poll!Dist(wSeen, wPos) = PollSize

(* What the writer has not published makes it dirty.                        *)
DirtyOK ==
  /\ wpc = "close" => blocks[Len(blocks)].w = wPos
  /\ wpc \in {"fill", "publish", "close"} => next <= PollPuts
  /\ ~dirty => blocks[Len(blocks)].w = wPos
  /\ dirty /\ wpc \in {"put", "flush"} => blocks[Len(blocks)].w # wPos
  /\ wpc = "flush" => dirty
  /\ wpc \in {"check", "signal"} => ~dirty

(* In a block that both use, the reader is between what the writer has seen *)
(* of it and what the writer has published.                                 *)
OrderOK ==
  Len(blocks) = 1 =>
    /\ Poll!Dist(wSeen, blocks[1].r) <= Poll!Dist(wSeen, rPos)
    /\ Poll!Dist(wSeen, rPos) <= Poll!Dist(wSeen, rSeen)
    /\ Poll!Dist(wSeen, rSeen) <= Poll!Dist(wSeen, blocks[1].w)

(* Where the reader leaves a block, and when its wait_state_ is odd.        *)
ReaderOK ==
  /\ rpc = "update again" => blocks[1].closed
  /\ rpc = "next" => blocks[1].closed /\ rPos = blocks[1].w
  /\ rpc \in {"update", "closed", "update again", "next"} => (Poll!Odd <=> for # "wait")
  /\ rpc \in {"acquire", "undo", "wait"} => Poll!Odd
  /\ rpc \in {"announce", "get"} => ~Poll!Odd

(* A slot that has not been written is ahead of the writer, in its first    *)
(* round of the ring.                                                       *)
DataOK ==
  \A k \in 1 .. Len(blocks), s \in 0 .. (PollSize - 1) :
    blocks[k].data[s] = 0 => ~blocks[k].closed /\ s >= wPos /\ wSeen <= wPos

(* There is something for the reader.                                       *)
HasUnread == rPos # blocks[1].w \/ (Len(blocks) > 1 /\ blocks[2].w # 0)

(* The writer has given a signal since the reader began to wait.            *)
Told == Poll!Odd /\ wWait = waitState

(* The writer has not seen states that the reader has not had.              *)
StatesOK == oldWait <= waitState /\ wWait <= waitState

(* A flush that began while the reader waited has published something.      *)
PublishedOK ==
  wpc \in {"check", "signal"} /\ Poll!Odd /\ oldWait = waitState => HasUnread

(* Of a signal that was given there is the event, or a look of the reader   *)
(* that will find what it was for.                                          *)
Looks ==
  \/ rpc = "undo"
  \/ for = "woken" /\ rpc \in {"update", "update again", "next"}
  \/ for = "woken" /\ rpc = "closed" /\ Len(blocks) > 1
ToldOK == Told => HasUnread /\ (Poll!FdReady \/ Looks)

(* What a reader that will wait has looked for too early, the writer is     *)
(* going to tell it.                                                        *)
Misses == rpc = "wait" \/ (rpc = "closed" /\ for = "woken" /\ Len(blocks) = 1)
Flushes == wpc # "put" \/ dirty
TellsOK == HasUnread /\ Misses => Poll!FdReady \/ Flushes

SignalOK == StatesOK /\ PublishedOK /\ ToldOK /\ TellsOK

PollInv ==
  /\ Poll!TypeOK
  /\ ChainOK /\ RoomOK /\ DirtyOK /\ OrderOK /\ ReaderOK /\ DataOK /\ SignalOK

PollBlock ==
  [w : Poll!Positions, r : Poll!Positions, closed : BOOLEAN,
   data : [0 .. (PollSize - 1) -> Poll!Values \cup {0}]]

(* How many positions there are from a position to a later one.             *)
LEMMA DistIs ==
  ASSUME PollOK, NEW i \in Poll!Positions, NEW j \in Poll!Positions
  PROVE  Poll!Dist(i, j) = IF i <= j THEN j - i ELSE j + PollModulus - i
<1> USE DEF PollOK, Poll!Positions
<1>1. \A k \in Nat : k < PollModulus => k % PollModulus = k
  BY SMTT(30)
<1>2. \A k \in Nat : k < PollModulus => (k + PollModulus) % PollModulus = k
  BY SMTT(30)
<1>3. CASE i <= j
  <2>1. j - i \in Nat /\ j - i < PollModulus
    BY <1>3
  <2>2. j + PollModulus - i = (j - i) + PollModulus
    OBVIOUS
  <2> QED BY <1>3, <2>1, <2>2, <1>2 DEF Poll!Dist
<1>4. CASE ~(i <= j)
  <2>1. j + PollModulus - i \in Nat /\ j + PollModulus - i < PollModulus
    BY <1>4
  <2> QED BY <1>4, <2>1, <1>1 DEF Poll!Dist
<1> QED BY <1>3, <1>4

(* The next position.                                                       *)
LEMMA UpIs ==
  ASSUME PollOK, NEW i \in Poll!Positions
  PROVE  /\ Poll!Up(i) \in Poll!Positions
         /\ Poll!Up(i) = IF i + 1 = PollModulus THEN 0 ELSE i + 1
<1> USE DEF PollOK, Poll!Positions, Poll!Up
<1>1. CASE i + 1 = PollModulus
  <2>1. PollModulus % PollModulus = 0
    BY SMTT(30)
  <2> QED BY <1>1, <2>1
<1>2. CASE i + 1 # PollModulus
  <2>1. (i + 1) % PollModulus = i + 1
    BY <1>2, SMTT(30)
  <2> QED BY <1>2, <2>1
<1> QED BY <1>1, <1>2

(* Distances from one position order the others.                            *)
LEMMA DistOrders ==
  ASSUME PollOK, NEW i \in Poll!Positions, NEW j \in Poll!Positions, NEW k \in Poll!Positions
  PROVE  /\ Poll!Dist(i, j) \in Nat /\ Poll!Dist(i, j) < PollModulus
         /\ Poll!Dist(i, i) = 0
         /\ Poll!Dist(0, j) = j
         /\ Poll!Dist(i, j) = Poll!Dist(i, k) => j = k
         /\ Poll!Dist(i, j) = 0 => i = j
         /\ Poll!Dist(i, j) + 1 < PollModulus => Poll!Dist(i, Poll!Up(j)) = Poll!Dist(i, j) + 1
         /\ Poll!Dist(i, j) <= Poll!Dist(i, k) => Poll!Dist(j, k) = Poll!Dist(i, k) - Poll!Dist(i, j)
<1>1. /\ Poll!Dist(i, j) = IF i <= j THEN j - i ELSE j + PollModulus - i
      /\ Poll!Dist(i, k) = IF i <= k THEN k - i ELSE k + PollModulus - i
      /\ Poll!Dist(j, k) = IF j <= k THEN k - j ELSE k + PollModulus - j
  BY DistIs
<1>6. i \in Nat /\ Poll!Dist(i, i) = IF i <= i THEN i - i ELSE i + PollModulus - i
  BY DistIs DEF Poll!Positions, PollOK
<1>7. Poll!Dist(i, i) = 0
  BY <1>6
<1>2. 0 \in Poll!Positions /\ PollModulus \in Nat
  BY DEF PollOK, Poll!Positions
<1>3. Poll!Dist(0, j) = IF 0 <= j THEN j - 0 ELSE j + PollModulus - 0
  BY <1>2, DistIs
<1>4. /\ Poll!Up(j) \in Poll!Positions
      /\ Poll!Up(j) = IF j + 1 = PollModulus THEN 0 ELSE j + 1
  BY UpIs
<1>5. Poll!Dist(i, Poll!Up(j)) = IF i <= Poll!Up(j) THEN Poll!Up(j) - i ELSE Poll!Up(j) + PollModulus - i
  BY <1>4, DistIs
<1> QED BY <1>1, <1>2, <1>3, <1>4, <1>5, <1>7 DEF Poll!Positions

(* A position has a slot.                                                   *)
LEMMA SlotIs ==
  ASSUME PollOK, NEW i \in Poll!Positions
  PROVE  /\ i % PollSize \in 0 .. (PollSize - 1)
         /\ i % PollSize <= i
         /\ i < PollSize => i % PollSize = i
<1>1. \A k \in Nat : k % PollSize \in 0 .. (PollSize - 1)
  BY SMTT(30) DEF PollOK
<1>2. \A k \in Nat : k < PollSize => k % PollSize = k
  BY SMTT(30) DEF PollOK
<1>3. \A k \in Nat : k % PollSize <= k
  <2> SUFFICES ASSUME NEW k \in Nat PROVE k % PollSize <= k
    OBVIOUS
  <2>1. CASE k < PollSize
    BY <2>1, <1>2
  <2>2. CASE ~(k < PollSize)
    BY <2>2, <1>1 DEF PollOK
  <2> QED BY <2>1, <2>2
<1>4. i \in Nat
  BY DEF Poll!Positions, PollOK
<1> QED BY <1>1, <1>2, <1>3, <1>4

(* What is nearer than a position that is not behind is not beyond it.      *)
LEMMA DistBelow ==
  ASSUME PollOK, NEW i \in Poll!Positions, NEW j \in Poll!Positions, NEW k \in Poll!Positions,
         i <= k, Poll!Dist(i, j) <= Poll!Dist(i, k)
  PROVE  j <= k /\ Poll!Dist(i, k) = k - i
<1>1. /\ Poll!Dist(i, j) = IF i <= j THEN j - i ELSE j + PollModulus - i
      /\ Poll!Dist(i, k) = IF i <= k THEN k - i ELSE k + PollModulus - i
  BY DistIs
<1>2. PollModulus \in Nat
  BY DEF PollOK
<1> QED BY <1>1, <1>2 DEF Poll!Positions

(* Distances tell positions apart.                                          *)
LEMMA DistSame ==
  ASSUME PollOK, NEW i \in Poll!Positions, NEW j \in Poll!Positions, NEW k \in Poll!Positions,
         Poll!Dist(i, j) = Poll!Dist(i, k)
  PROVE  j = k
BY DistOrders

(* The types that the steps need.                                           *)
PollTyped ==
  /\ blocks \in Seq(PollBlock) /\ Len(blocks) \in Nat /\ Len(blocks) >= 1
  /\ \A k \in 1 .. Len(blocks) :
       /\ blocks[k] \in PollBlock
       /\ blocks[k].w \in Poll!Positions /\ blocks[k].r \in Poll!Positions
       /\ blocks[k].closed \in BOOLEAN
       /\ blocks[k].data \in [0 .. (PollSize - 1) -> Poll!Values \cup {0}]
  /\ wPos \in Poll!Positions /\ wSeen \in Poll!Positions
  /\ rPos \in Poll!Positions /\ rSeen \in Poll!Positions
  /\ 0 \in Poll!Positions
  /\ PollSize \in Nat /\ PollModulus \in Nat /\ PollSize >= 1 /\ PollSize < PollModulus

(* The types of the component give those of its parts.                      *)
LEMMA PollTypes == ASSUME PollOK, Poll!TypeOK PROVE PollTyped
<1>1. blocks \in Seq(PollBlock) /\ blocks # <<>>
  BY DEF Poll!TypeOK, PollBlock
<1>2. \A k \in 1 .. Len(blocks) : blocks[k] \in PollBlock
  BY <1>1
<1>3. \A b \in PollBlock :
        /\ b.w \in Poll!Positions /\ b.r \in Poll!Positions /\ b.closed \in BOOLEAN
        /\ b.data \in [0 .. (PollSize - 1) -> Poll!Values \cup {0}]
  BY DEF PollBlock
<1>4. Len(blocks) \in Nat /\ Len(blocks) >= 1
  BY <1>1
<1>5. /\ wPos \in Poll!Positions /\ wSeen \in Poll!Positions
      /\ rPos \in Poll!Positions /\ rSeen \in Poll!Positions
  BY DEF Poll!TypeOK
<1>6. /\ 0 \in Poll!Positions
      /\ PollSize \in Nat /\ PollModulus \in Nat /\ PollSize >= 1 /\ PollSize < PollModulus
  BY DEF PollOK, Poll!Positions
<1>7. \A k \in 1 .. Len(blocks) :
        /\ blocks[k].w \in Poll!Positions /\ blocks[k].r \in Poll!Positions
        /\ blocks[k].closed \in BOOLEAN
        /\ blocks[k].data \in [0 .. (PollSize - 1) -> Poll!Values \cup {0}]
  BY <1>2, <1>3
<1> QED BY <1>1, <1>2, <1>4, <1>5, <1>6, <1>7 DEF PollTyped

(* The writer's access to the last block.                                   *)
LEMMA TailSet ==
  ASSUME NEW s \in Seq(PollBlock), Len(s) >= 1, NEW b \in PollBlock,
         NEW t, t = [s EXCEPT ![Len(s)] = b]
  PROVE  /\ t \in Seq(PollBlock) /\ Len(t) = Len(s)
         /\ t[Len(s)] = b
         /\ \A k \in 1 .. Len(s) : k # Len(s) => t[k] = s[k]
OBVIOUS

(* writer_put_unsafe                                                        *)
LEMMA PutStep == ASSUME PollOK, PollInv, Poll!WriterPut PROVE PollInv'
<1> DEFINE L == Len(blocks)
           old == blocks[L]
           new == [old EXCEPT !.data[wPos % PollSize] = next]
<1>0. /\ Poll!TypeOK /\ ChainOK /\ RoomOK /\ DirtyOK /\ OrderOK /\ ReaderOK /\ DataOK /\ SignalOK
  BY DEF PollInv
<1>t. PollTyped
  BY <1>0, PollTypes
<1> USE DEF PollTyped
<1>1. /\ blocks' = [blocks EXCEPT ![L] = new]
      /\ wPos' = Poll!Up(wPos) /\ next' = next + 1 /\ dirty' = TRUE /\ wpc' = "put"
      /\ UNCHANGED <<pollFd, wSeen, wWait, oldWait, rPos, rSeen, waitState, rpc, for, tries, pollGot>>
  BY DEF Poll!WriterPut, Poll!SetTail, Poll!TailBlock, Poll!readerVars
<1>2. next \in 1 .. PollPuts /\ next \in Poll!Values
  <2>1. next \in 1 .. (PollPuts + 1) /\ PollPuts \in Nat
    BY <1>0 DEF Poll!TypeOK, PollOK
  <2>2. next <= PollPuts
    BY <1>0 DEF Poll!WriterPut, DirtyOK
  <2> QED BY <2>1, <2>2 DEF Poll!Values
<1>3. wPos % PollSize \in 0 .. (PollSize - 1)
  BY <1>t, SlotIs
<1>4. /\ new \in PollBlock
      /\ new.w = old.w /\ new.r = old.r /\ new.closed = old.closed
      /\ new.data = [old.data EXCEPT ![wPos % PollSize] = next]
  <2>1. old \in PollBlock
    BY <1>t
  <2>2. [old.data EXCEPT ![wPos % PollSize] = next] \in [0 .. (PollSize - 1) -> Poll!Values \cup {0}]
    BY <1>t, <1>2, <1>3
  <2>3. new = [old EXCEPT !.data = [old.data EXCEPT ![wPos % PollSize] = next]]
    BY <2>1 DEF PollBlock
  <2> QED BY <2>1, <2>2, <2>3 DEF PollBlock
<1>5. /\ blocks' \in Seq(PollBlock) /\ Len(blocks') = L /\ blocks'[L] = new
      /\ \A k \in 1 .. L : k # L => blocks'[k] = blocks[k]
  <2> HIDE DEF new
  <2> QED BY <1>1, <1>4, <1>t, TailSet
<1>6. \A k \in 1 .. L :
        /\ blocks'[k].w = blocks[k].w /\ blocks'[k].r = blocks[k].r
        /\ blocks'[k].closed = blocks[k].closed
        /\ k # L => blocks'[k].data = blocks[k].data
  BY <1>4, <1>5, <1>t
<1>7. blocks'[L].data = [old.data EXCEPT ![wPos % PollSize] = next]
  BY <1>4, <1>5
<1> HIDE DEF new, old
<1>8. Poll!Dist(wSeen, wPos) < PollSize
  <2>1. CASE wpc = "fill"
    BY <2>1, <1>0 DEF RoomOK
  <2>2. CASE wpc # "fill"
    <3>1. Poll!Dist(wSeen, wPos) # PollSize
      BY <2>2 DEF Poll!WriterPut, Poll!WriterFull
    <3>2. Poll!Dist(wSeen, wPos) <= PollSize /\ Poll!Dist(wSeen, wPos) \in Nat
      BY <1>0, <1>t, DistOrders DEF RoomOK
    <3> QED BY <3>1, <3>2, <1>t
  <2> QED BY <2>1, <2>2
<1>9. /\ Poll!Up(wPos) \in Poll!Positions
      /\ Poll!Dist(wSeen, Poll!Up(wPos)) = Poll!Dist(wSeen, wPos) + 1
      /\ Poll!Dist(wSeen, wPos) \in Nat /\ Poll!Dist(wSeen, old.w) \in Nat
      /\ Poll!Up(wPos) = IF wPos + 1 = PollModulus THEN 0 ELSE wPos + 1
  <2>1. old.w \in Poll!Positions
    BY <1>t DEF old
  <2>2. Poll!Dist(wSeen, wPos) \in Nat /\ Poll!Dist(wSeen, old.w) \in Nat
    BY <1>t, <2>1, DistOrders
  <2>3. Poll!Dist(wSeen, wPos) + 1 < PollModulus
    BY <1>t, <1>8, <2>2
  <2>4. Poll!Dist(wSeen, Poll!Up(wPos)) = Poll!Dist(wSeen, wPos) + 1
    BY <1>t, <2>3, DistOrders
  <2> QED BY <1>t, <2>2, <2>4, UpIs
<1>10. Poll!TypeOK'
  <2>1. blocks' # <<>> /\ next' \in 1 .. (PollPuts + 1) /\ PollPuts \in Nat
    <3>1. Len(blocks') # 0
      BY <1>5, <1>t
    <3>2. PollPuts \in Nat /\ next + 1 \in 1 .. (PollPuts + 1)
      BY <1>2 DEF PollOK
    <3> QED BY <3>1, <3>2, <1>1, <1>5
  <2> QED BY <1>0, <1>1, <1>5, <1>9, <2>1 DEF Poll!TypeOK, PollBlock
<1>11. ChainOK'
  <2>1. \A k \in 1 .. L : blocks'[k].closed <=> k < L
    BY <1>0, <1>6 DEF ChainOK
  <2>2. \A k \in 2 .. L : k \in 1 .. L /\ (k \in 2 .. (L - 1) => k < L)
    BY <1>t
  <2>3. \A k \in 2 .. L : blocks'[k].r = 0
    BY <1>0, <1>6, <2>2 DEF ChainOK
  <2>4. \A k \in 2 .. (L - 1) : k \in 1 .. L
    BY <1>t
  <2>5. \A k \in 2 .. (L - 1) : blocks'[k].w # 0
    BY <1>0, <1>6, <2>4 DEF ChainOK
  <2> QED BY <2>1, <2>3, <2>5, <1>5 DEF ChainOK
<1>12. RoomOK'
  <2>1. blocks'[L].w = old.w
    BY <1>6, <1>t DEF old
  <2>2. Poll!Dist(wSeen, old.w) <= Poll!Dist(wSeen, wPos)
    BY <1>0 DEF RoomOK, old
  <2>3. Poll!Dist(wSeen, old.w) <= Poll!Dist(wSeen, Poll!Up(wPos))
    BY <1>9, <2>2
  <2>4. Poll!Dist(wSeen, Poll!Up(wPos)) <= PollSize
    BY <1>8, <1>9, <1>t
  <2>5. L > 1 => wSeen = 0
    BY <1>0 DEF RoomOK
  <2> QED BY <1>1, <1>5, <2>1, <2>3, <2>4, <2>5 DEF RoomOK
<1>13. DirtyOK'
  <2>1. blocks'[L].w # wPos'
    BY <1>0, <1>1, <1>6, <1>9, <1>t DEF RoomOK, old
  <2> QED BY <2>1, <1>1, <1>5 DEF DirtyOK
<1>14. OrderOK'
  BY <1>0, <1>1, <1>5, <1>6, <1>t DEF OrderOK
<1>15. ReaderOK'
  <2>1. blocks'[1].closed = blocks[1].closed /\ blocks'[1].w = blocks[1].w
    BY <1>6, <1>t
  <2> QED BY <1>0, <1>1, <2>1 DEF ReaderOK, Poll!Odd
<1>16. DataOK'
  <2> SUFFICES ASSUME NEW k \in 1 .. L, NEW s \in 0 .. (PollSize - 1), blocks'[k].data[s] = 0
               PROVE  ~blocks'[k].closed /\ s >= wPos' /\ wSeen' <= wPos'
    BY <1>5 DEF DataOK
  <2>1. k = L
    BY <1>0, <1>6, <1>t DEF DataOK, ChainOK
  <2>2. old.data[s] = 0 /\ s # wPos % PollSize
    BY <2>1, <1>2, <1>3, <1>7, <1>t DEF old
  <2>3. ~blocks[k].closed /\ s >= wPos /\ wSeen <= wPos
    BY <2>1, <2>2, <1>0 DEF DataOK, old
  <2>4. wPos % PollSize = wPos
    <3>1. wPos \in Nat /\ wPos < PollSize
      BY <2>3, <1>t DEF Poll!Positions
    <3> QED BY <3>1, <1>t, SlotIs
  <2>5. s >= wPos + 1 /\ wPos + 1 # PollModulus
    BY <2>2, <2>3, <2>4, <1>t DEF Poll!Positions
  <2>6. Poll!Up(wPos) = wPos + 1
    BY <2>5, <1>9
  <2> QED BY <2>3, <2>5, <2>6, <1>1, <1>6, <1>t DEF Poll!Positions
<1>17. SignalOK'
  <2>1. blocks'[1].w = blocks[1].w /\ (L > 1 => blocks'[2].w = blocks[2].w)
    BY <1>6, <1>t
  <2>2. HasUnread' <=> HasUnread
    BY <1>1, <1>5, <2>1 DEF HasUnread
  <2>3. /\ Told' <=> Told
        /\ Looks' <=> Looks
        /\ Poll!FdReady' <=> Poll!FdReady
        /\ Flushes'
    BY <1>1, <1>5 DEF Told, Looks, Poll!FdReady, Poll!Odd, Flushes
  <2> QED BY <1>0, <1>1, <2>2, <2>3 DEF SignalOK, StatesOK, PublishedOK, ToldOK, TellsOK
<1> QED BY <1>10, <1>11, <1>12, <1>13, <1>14, <1>15, <1>16, <1>17 DEF PollInv

(* reader_update returns, without a value.                                  *)
LEMMA FoundNothing ==
  ASSUME PollOK, Poll!TypeOK, Poll!UpdateFoundNothing
  PROVE  /\ tries' \in 0 .. PollTries
         /\ \/ for = "wait" /\ rpc' \in {"update", "announce"}
            \/ for = "recheck" /\ rpc' = "acquire"
            \/ for = "woken" /\ rpc' = "wait"
<1>1. for \in {"wait", "recheck", "woken"} /\ tries \in 0 .. PollTries /\ PollTries \in Nat
  BY DEF Poll!TypeOK, PollOK
<1>2. CASE for = "wait" /\ tries < PollTries
  BY <1>1, <1>2 DEF Poll!UpdateFoundNothing
<1>3. CASE ~(for = "wait" /\ tries < PollTries)
  BY <1>1, <1>3 DEF Poll!UpdateFoundNothing
<1> QED BY <1>2, <1>3

(* The steps that leave the chain and the positions alone.                  *)
LEMMA QuietStep ==
  ASSUME PollOK, PollInv,
         \/ Poll!FlushBegin \/ Poll!FlushCheck \/ Poll!FlushSignal \/ Poll!ReaderCall
         \/ Poll!UpdateClosed \/ Poll!ReaderAnnounce \/ Poll!ReaderAcquire \/ Poll!ReaderUndo
         \/ Poll!ReaderWake \/ Poll!ReaderTimeout
  PROVE  ~IdleFlush => PollInv'
<1> SUFFICES ASSUME ~IdleFlush PROVE PollInv'
  OBVIOUS
<1>0. /\ Poll!TypeOK /\ ChainOK /\ RoomOK /\ DirtyOK /\ OrderOK /\ ReaderOK /\ DataOK /\ SignalOK
  BY DEF PollInv
<1>t. /\ Len(blocks) \in Nat /\ Len(blocks) >= 1
      /\ waitState \in Nat /\ wWait \in Nat /\ oldWait \in Nat /\ pollFd \in Nat /\ dirty \in BOOLEAN
  BY <1>0, PollTypes DEF PollTyped, Poll!TypeOK
<1>u. UNCHANGED <<blocks, wPos, wSeen, rPos, rSeen, next, dirty, pollGot>>
  BY DEF Poll!FlushBegin, Poll!FlushCheck, Poll!FlushSignal, Poll!ReaderCall, Poll!UpdateClosed,
         Poll!ReaderAnnounce, Poll!ReaderAcquire, Poll!ReaderUndo, Poll!ReaderWake, Poll!ReaderTimeout,
         Poll!writerVars, Poll!readerVars
<1>1. ChainOK' /\ OrderOK' /\ DataOK' /\ (HasUnread' <=> HasUnread)
  BY <1>0, <1>u DEF ChainOK, OrderOK, DataOK, HasUnread
<1>2. SUFFICES Poll!TypeOK' /\ RoomOK' /\ DirtyOK' /\ ReaderOK' /\ SignalOK'
  BY <1>1 DEF PollInv
<1>3. (waitState % 2 = 1 <=> (waitState + 1) % 2 # 1) /\ waitState + 1 \in Nat
  BY <1>t
<1> USE DEF Poll!writerVars, Poll!readerVars
<1>4. CASE Poll!FlushBegin
  <2>1. Poll!TypeOK'
    BY <1>4, <1>0, <1>t, <1>u DEF Poll!TypeOK, Poll!FlushBegin, PollOK
  <2>2. RoomOK' /\ DirtyOK'
    BY <1>4, <1>0, <1>u DEF RoomOK, DirtyOK, Poll!FlushBegin
  <2>3. ReaderOK'
    BY <1>4, <1>0, <1>u, <1>3 DEF ReaderOK, Poll!Odd, Poll!FlushBegin
  <2>4. (Told' <=> Told) /\ (Poll!FdReady' <=> Poll!FdReady)
    BY <1>4 DEF Told, Poll!Odd, Poll!FdReady, Poll!FlushBegin
  <2>5. /\ oldWait' = waitState /\ waitState' = waitState /\ wWait' = wWait
        /\ wpc' = "flush" /\ rpc' = rpc /\ for' = for
    BY <1>4 DEF Poll!FlushBegin
  <2>6. SignalOK'
    <3>1. StatesOK' /\ PublishedOK'
      BY <1>0, <1>t, <2>5 DEF SignalOK, StatesOK, PublishedOK
    <3>2. (Looks' <=> Looks) /\ Flushes'
      BY <1>u, <2>5 DEF Looks, Flushes
    <3> QED BY <1>0, <1>1, <2>4, <3>1, <3>2 DEF SignalOK, ToldOK, TellsOK
  <2> QED BY <2>1, <2>2, <2>3, <2>6
<1>5. CASE Poll!FlushCheck
  <2>1. Poll!TypeOK'
    BY <1>5, <1>0, <1>t, <1>u DEF Poll!TypeOK, Poll!FlushCheck, PollOK
  <2>2. RoomOK' /\ DirtyOK'
    BY <1>5, <1>0, <1>u DEF RoomOK, DirtyOK, Poll!FlushCheck
  <2>3. ReaderOK'
    BY <1>5, <1>0, <1>u, <1>3 DEF ReaderOK, Poll!Odd, Poll!FlushCheck
  <2>4. (Told' <=> Told) /\ (Poll!FdReady' <=> Poll!FdReady) /\ (Poll!Odd' <=> Poll!Odd)
    BY <1>5 DEF Told, Poll!Odd, Poll!FdReady, Poll!FlushCheck
  <2>5. /\ oldWait' = oldWait /\ waitState' = waitState /\ wWait' = wWait
        /\ rpc' = rpc /\ for' = for
    BY <1>5 DEF Poll!FlushCheck
  <2>6. /\ wpc = "check" /\ wpc' \in {"put", "signal"}
        /\ wpc' = "put" => ~Poll!Odd \/ Told
    BY <1>5 DEF Poll!FlushCheck, Told
  <2>7. /\ rpc = "wait" => Poll!Odd
        /\ rpc = "closed" /\ for = "woken" => Poll!Odd
    BY <1>0 DEF ReaderOK
  <2>8. SignalOK'
    <3>1. StatesOK'
      BY <1>0, <2>5 DEF SignalOK, StatesOK
    <3>2. PublishedOK'
      BY <1>0, <1>1, <2>4, <2>5, <2>6 DEF SignalOK, PublishedOK
    <3>3. (Looks' <=> Looks) /\ (Misses' <=> Misses)
      BY <1>u, <2>5 DEF Looks, Misses
    <3>4. ToldOK'
      BY <1>0, <1>1, <2>4, <3>3 DEF SignalOK, ToldOK
    <3>5. Told /\ Misses => Poll!FdReady
      <4>1. ~(Looks /\ Misses)
        <5>1. ~(Len(blocks) > 1 /\ Len(blocks) = 1)
          <6>1. \A m \in Nat : ~(m > 1 /\ m = 1)
            OBVIOUS
          <6> QED BY <1>t, <6>1
        <5> QED BY <5>1 DEF Looks, Misses
      <4> QED BY <1>0, <4>1 DEF SignalOK, ToldOK
    <3>6. Misses => Poll!Odd
      BY <2>7 DEF Misses
    <3>7. TellsOK'
      BY <2>4, <2>6, <3>3, <3>5, <3>6 DEF TellsOK, Flushes
    <3> QED BY <3>1, <3>2, <3>4, <3>7 DEF SignalOK
  <2> QED BY <2>1, <2>2, <2>3, <2>8
<1>6. CASE Poll!FlushSignal
  <2>0. /\ pollFd' = pollFd + 1 /\ wWait' = oldWait /\ wpc = "signal" /\ wpc' = "put"
        /\ UNCHANGED <<oldWait, waitState, rpc, for, tries>>
    BY <1>6 DEF Poll!FlushSignal, Poll!FdRelease
  <2>1. Poll!TypeOK'
    <3>1. pollFd' \in Nat /\ wWait' \in Nat
      BY <2>0, <1>t
    <3> QED BY <2>0, <3>1, <1>0, <1>u DEF Poll!TypeOK
  <2>2. RoomOK' /\ DirtyOK'
    BY <2>0, <1>0, <1>u DEF RoomOK, DirtyOK
  <2>3. ReaderOK'
    BY <2>0, <1>0, <1>u, <1>3 DEF ReaderOK, Poll!Odd
  <2>4. (Told' => oldWait = waitState) /\ Poll!FdReady' /\ (Told' => Poll!Odd)
    BY <2>0, <1>t DEF Told, Poll!FdReady, Poll!Odd
  <2>5. SignalOK'
    <3>1. StatesOK' /\ PublishedOK'
      BY <1>0, <2>0 DEF SignalOK, StatesOK, PublishedOK
    <3>2. Told' => HasUnread'
      BY <1>0, <1>1, <2>0, <2>4 DEF SignalOK, PublishedOK
    <3> QED BY <2>4, <3>1, <3>2 DEF SignalOK, ToldOK, TellsOK
  <2> QED BY <2>1, <2>2, <2>3, <2>5
<1>7. CASE Poll!ReaderCall
  <2>1. Poll!TypeOK'
    BY <1>7, <1>0, <1>t, <1>u DEF Poll!TypeOK, Poll!ReaderCall, PollOK
  <2>2. RoomOK' /\ DirtyOK'
    BY <1>7, <1>0, <1>u DEF RoomOK, DirtyOK, Poll!ReaderCall
  <2>3. ReaderOK'
    BY <1>7, <1>0, <1>u, <1>3 DEF ReaderOK, Poll!Odd, Poll!ReaderCall
  <2>4. SignalOK'
    BY <1>7, <1>0, <1>t, <1>u, <1>1, <1>3 DEF SignalOK, StatesOK, PublishedOK, ToldOK, TellsOK, Looks,
                                              Misses, Flushes, ReaderOK, DirtyOK, ChainOK, Told, Poll!Odd,
                                              Poll!FdReady, Poll!ReaderCall
  <2> QED BY <2>1, <2>2, <2>3, <2>4
<1>8. CASE Poll!UpdateClosed
  <2>0. rpc = "closed" /\ UNCHANGED <<pollFd, waitState, wWait, oldWait, wpc, for>>
    BY <1>8 DEF Poll!UpdateClosed
  <2>1. /\ tries' \in 0 .. PollTries
        /\ \/ blocks[1].closed /\ rpc' = "update again"
           \/ ~blocks[1].closed /\ for = "wait" /\ rpc' \in {"update", "announce"}
           \/ ~blocks[1].closed /\ for = "recheck" /\ rpc' = "acquire"
           \/ ~blocks[1].closed /\ for = "woken" /\ rpc' = "wait"
    <3>1. CASE blocks[1].closed
      BY <1>8, <1>0, <3>1 DEF Poll!UpdateClosed, Poll!HeadBlock, Poll!TypeOK
    <3>2. CASE ~blocks[1].closed
      BY <1>8, <1>0, <3>2, FoundNothing DEF Poll!UpdateClosed, Poll!HeadBlock
    <3> QED BY <3>1, <3>2
  <2>2. Poll!TypeOK'
    BY <2>0, <2>1, <1>0, <1>t, <1>u DEF Poll!TypeOK
  <2>3. RoomOK' /\ DirtyOK'
    BY <2>0, <1>0, <1>u DEF RoomOK, DirtyOK
  <2>4. Poll!Odd' <=> Poll!Odd
    BY <2>0 DEF Poll!Odd
  <2>5. Poll!Odd <=> for # "wait"
    BY <2>0, <1>0 DEF ReaderOK
  <2>6. ReaderOK'
    BY <2>0, <2>1, <2>4, <2>5, <1>u DEF ReaderOK
  <2>7. (Told' <=> Told) /\ (Poll!FdReady' <=> Poll!FdReady) /\ (Told => Poll!Odd)
    BY <2>0 DEF Told, Poll!FdReady, Poll!Odd
  <2>8. blocks[1].closed <=> 1 < Len(blocks)
    BY <1>0, <1>t DEF ChainOK
  <2>9. SignalOK'
    <3>1. StatesOK' /\ PublishedOK'
      BY <1>0, <1>1, <2>0, <2>4 DEF SignalOK, StatesOK, PublishedOK
    <3>2. Told /\ ~Looks => Poll!FdReady
      BY <1>0 DEF SignalOK, ToldOK
    <3>3. Told => Poll!FdReady \/ Looks'
      <4>1. Looks /\ Told => blocks[1].closed /\ for = "woken"
        BY <2>0, <2>8 DEF Looks
      <4>2. blocks[1].closed /\ for = "woken" => Looks'
        BY <2>0, <2>1 DEF Looks
      <4> QED BY <3>2, <4>1, <4>2
    <3>4. ToldOK'
      BY <1>0, <1>1, <2>7, <3>3 DEF SignalOK, ToldOK
    <3>5. Misses' => Misses
      <4>1. \A m \in Nat : m >= 1 /\ ~(1 < m) => m = 1
        OBVIOUS
      <4>2. ~blocks[1].closed => Len(blocks) = 1
        BY <2>8, <1>t, <4>1
      <4> QED BY <4>2, <2>0, <2>1 DEF Misses
    <3>6. Flushes' <=> Flushes
      BY <2>0, <1>u DEF Flushes
    <3>7. TellsOK'
      BY <1>0, <1>1, <2>7, <3>5, <3>6 DEF SignalOK, TellsOK
    <3> QED BY <3>1, <3>4, <3>7 DEF SignalOK
  <2> QED BY <2>2, <2>3, <2>6, <2>9
<1>9. CASE Poll!ReaderAnnounce
  <2>1. Poll!TypeOK'
    BY <1>9, <1>0, <1>t, <1>u DEF Poll!TypeOK, Poll!ReaderAnnounce, PollOK
  <2>2. RoomOK' /\ DirtyOK'
    BY <1>9, <1>0, <1>u DEF RoomOK, DirtyOK, Poll!ReaderAnnounce
  <2>3. ReaderOK'
    BY <1>9, <1>0, <1>u, <1>3 DEF ReaderOK, Poll!Odd, Poll!ReaderAnnounce
  <2>4. SignalOK'
    BY <1>9, <1>0, <1>t, <1>u, <1>1, <1>3 DEF SignalOK, StatesOK, PublishedOK, ToldOK, TellsOK, Looks,
                                              Misses, Flushes, ReaderOK, DirtyOK, ChainOK, Told, Poll!Odd,
                                              Poll!FdReady, Poll!ReaderAnnounce
  <2> QED BY <2>1, <2>2, <2>3, <2>4
<1>10. CASE Poll!ReaderAcquire
  <2>1. Poll!TypeOK'
    BY <1>10, <1>0, <1>t, <1>u DEF Poll!TypeOK, Poll!ReaderAcquire, Poll!FdAcquire, PollOK
  <2>2. RoomOK' /\ DirtyOK'
    BY <1>10, <1>0, <1>u DEF RoomOK, DirtyOK, Poll!ReaderAcquire
  <2>3. ReaderOK'
    BY <1>10, <1>0, <1>u, <1>3 DEF ReaderOK, Poll!Odd, Poll!ReaderAcquire, Poll!FdAcquire
  <2>4. SignalOK'
    BY <1>10, <1>0, <1>t, <1>u, <1>1, <1>3 DEF SignalOK, StatesOK, PublishedOK, ToldOK, TellsOK, Looks,
                                               Misses, Flushes, ReaderOK, DirtyOK, ChainOK, Told, Poll!Odd,
                                               Poll!FdReady, Poll!ReaderAcquire, Poll!FdAcquire
  <2> QED BY <2>1, <2>2, <2>3, <2>4
<1>11. CASE Poll!ReaderUndo
  <2>1. Poll!TypeOK'
    BY <1>11, <1>0, <1>t, <1>u DEF Poll!TypeOK, Poll!ReaderUndo, PollOK
  <2>2. RoomOK' /\ DirtyOK'
    BY <1>11, <1>0, <1>u DEF RoomOK, DirtyOK, Poll!ReaderUndo
  <2>3. ReaderOK'
    BY <1>11, <1>0, <1>u, <1>3 DEF ReaderOK, Poll!Odd, Poll!ReaderUndo
  <2>4. SignalOK'
    BY <1>11, <1>0, <1>t, <1>u, <1>1, <1>3 DEF SignalOK, StatesOK, PublishedOK, ToldOK, TellsOK, Looks,
                                               Misses, Flushes, ReaderOK, DirtyOK, ChainOK, Told, Poll!Odd,
                                               Poll!FdReady, Poll!ReaderUndo
  <2> QED BY <2>1, <2>2, <2>3, <2>4
<1>12. CASE Poll!ReaderWake
  <2>1. Poll!TypeOK'
    BY <1>12, <1>0, <1>t, <1>u DEF Poll!TypeOK, Poll!ReaderWake, PollOK
  <2>2. RoomOK' /\ DirtyOK'
    BY <1>12, <1>0, <1>u DEF RoomOK, DirtyOK, Poll!ReaderWake
  <2>3. ReaderOK'
    BY <1>12, <1>0, <1>u, <1>3 DEF ReaderOK, Poll!Odd, Poll!ReaderWake
  <2>4. SignalOK'
    BY <1>12, <1>0, <1>t, <1>u, <1>1, <1>3 DEF SignalOK, StatesOK, PublishedOK, ToldOK, TellsOK, Looks,
                                               Misses, Flushes, ReaderOK, DirtyOK, ChainOK, Told, Poll!Odd,
                                               Poll!FdReady, Poll!ReaderWake
  <2> QED BY <2>1, <2>2, <2>3, <2>4
<1>13. CASE Poll!ReaderTimeout
  <2>1. Poll!TypeOK'
    BY <1>13, <1>0, <1>t, <1>u DEF Poll!TypeOK, Poll!ReaderTimeout, PollOK
  <2>2. RoomOK' /\ DirtyOK'
    BY <1>13, <1>0, <1>u DEF RoomOK, DirtyOK, Poll!ReaderTimeout
  <2>3. ReaderOK'
    BY <1>13, <1>0, <1>u, <1>3 DEF ReaderOK, Poll!Odd, Poll!ReaderTimeout
  <2>4. SignalOK'
    BY <1>13, <1>0, <1>t, <1>u, <1>1, <1>3 DEF SignalOK, StatesOK, PublishedOK, ToldOK, TellsOK, Looks,
                                               Misses, Flushes, ReaderOK, DirtyOK, ChainOK, Told, Poll!Odd,
                                               Poll!FdReady, Poll!ReaderTimeout
  <2> QED BY <2>1, <2>2, <2>3, <2>4
<1> QED BY <1>4, <1>5, <1>6, <1>7, <1>8, <1>9, <1>10, <1>11, <1>12, <1>13

(* writer_update                                                            *)
LEMMA UpdateStep == ASSUME PollOK, PollInv, Poll!WriterUpdate PROVE PollInv'
<1> DEFINE L == Len(blocks)
           r0 == blocks[L].r
           w0 == blocks[L].w
<1>0. /\ Poll!TypeOK /\ ChainOK /\ RoomOK /\ DirtyOK /\ OrderOK /\ ReaderOK /\ DataOK /\ SignalOK
  BY DEF PollInv
<1>t. PollTyped
  BY <1>0, PollTypes
<1> USE DEF PollTyped
<1>1. /\ wSeen' = r0 /\ wpc' = IF Poll!Dist(r0, wPos) = PollSize THEN "publish" ELSE "fill"
      /\ wpc = "put" /\ next <= PollPuts
  BY DEF Poll!WriterUpdate, Poll!TailBlock
<1>u. UNCHANGED <<pollFd, blocks, wPos, wWait, oldWait, next, dirty, rPos, rSeen, waitState, rpc, for,
                  tries, pollGot>>
  BY DEF Poll!WriterUpdate, Poll!readerVars
<1>2. r0 \in Poll!Positions /\ w0 \in Poll!Positions
  BY <1>t
<1>3. Poll!Dist(wSeen, r0) <= Poll!Dist(wSeen, w0)
  <2>1. CASE L = 1
    <3>1. \A x \in Poll!Positions : Poll!Dist(wSeen, x) \in Nat
      BY <1>t, DistOrders
    <3> QED BY <2>1, <3>1, <1>0, <1>t DEF OrderOK
  <2>2. CASE L # 1
    <3>1. r0 = 0 /\ wSeen = 0
      <4>1. L > 1 /\ L \in 2 .. L
        <5>1. \A m \in Nat : m >= 1 /\ m # 1 => m > 1 /\ m \in 2 .. m
          OBVIOUS
        <5> QED BY <2>2, <5>1, <1>t
      <4> QED BY <4>1, <1>0 DEF ChainOK, RoomOK
    <3>2. Poll!Dist(wSeen, wSeen) = 0 /\ Poll!Dist(wSeen, w0) \in Nat
      BY <1>2, <1>t, DistOrders
    <3> QED BY <3>1, <3>2
  <2> QED BY <2>1, <2>2
<1>4. \A x \in Poll!Positions :
        /\ Poll!Dist(wSeen, x) \in Nat /\ Poll!Dist(r0, x) \in Nat
        /\ Poll!Dist(wSeen, r0) <= Poll!Dist(wSeen, x) =>
             Poll!Dist(r0, x) = Poll!Dist(wSeen, x) - Poll!Dist(wSeen, r0)
  <2> SUFFICES ASSUME NEW x \in Poll!Positions
               PROVE  /\ Poll!Dist(wSeen, x) \in Nat /\ Poll!Dist(r0, x) \in Nat
                      /\ Poll!Dist(wSeen, r0) <= Poll!Dist(wSeen, x) =>
                           Poll!Dist(r0, x) = Poll!Dist(wSeen, x) - Poll!Dist(wSeen, r0)
    OBVIOUS
  <2>1. wSeen \in Poll!Positions
    BY <1>t
  <2> QED BY <2>1, <1>2, DistOrders
<1>5. Poll!Dist(wSeen, w0) <= Poll!Dist(wSeen, wPos) /\ Poll!Dist(wSeen, wPos) <= PollSize
  BY <1>0 DEF RoomOK
<1>6. Poll!Dist(wSeen, r0) <= Poll!Dist(wSeen, wPos)
  <2>1. Poll!Dist(wSeen, r0) \in Nat /\ Poll!Dist(wSeen, w0) \in Nat /\ Poll!Dist(wSeen, wPos) \in Nat
    BY <1>2, <1>4, <1>t
  <2>2. \A a, b, c \in Nat : a <= b /\ b <= c => a <= c
    OBVIOUS
  <2> QED BY <2>1, <2>2, <1>3, <1>5
<1>7. /\ Poll!Dist(r0, w0) = Poll!Dist(wSeen, w0) - Poll!Dist(wSeen, r0)
      /\ Poll!Dist(r0, wPos) = Poll!Dist(wSeen, wPos) - Poll!Dist(wSeen, r0)
  BY <1>2, <1>3, <1>4, <1>6, <1>t
<1>8. Poll!Dist(r0, w0) <= Poll!Dist(r0, wPos) /\ Poll!Dist(r0, wPos) <= PollSize
  BY <1>2, <1>4, <1>5, <1>7, <1>t, SMTT(30)
<1>9. Poll!TypeOK'
  BY <1>0, <1>1, <1>2, <1>u DEF Poll!TypeOK
<1>10. ChainOK' /\ ReaderOK'
  BY <1>0, <1>u DEF ChainOK, ReaderOK, Poll!Odd
<1>11. RoomOK'
  <2>1. L > 1 => r0 = 0
    BY <1>0, <1>t DEF ChainOK
  <2>2. wpc' = "fill" => Poll!Dist(r0, wPos) < PollSize
    BY <1>1, <1>4, <1>8, <1>t
  <2>3. wpc' \in {"publish", "close"} => Poll!Dist(r0, wPos) = PollSize
    BY <1>1
  <2> QED BY <1>1, <1>u, <1>8, <2>1, <2>2, <2>3 DEF RoomOK
<1>12. DirtyOK'
  BY <1>0, <1>1, <1>u DEF DirtyOK
<1>13. OrderOK'
  <2> SUFFICES ASSUME L = 1
               PROVE  /\ Poll!Dist(r0, blocks[1].r) <= Poll!Dist(r0, rPos)
                      /\ Poll!Dist(r0, rPos) <= Poll!Dist(r0, rSeen)
                      /\ Poll!Dist(r0, rSeen) <= Poll!Dist(r0, blocks[1].w)
    BY <1>1, <1>u DEF OrderOK
  <2>1. /\ Poll!Dist(wSeen, r0) <= Poll!Dist(wSeen, rPos)
        /\ Poll!Dist(wSeen, rPos) <= Poll!Dist(wSeen, rSeen)
        /\ Poll!Dist(wSeen, rSeen) <= Poll!Dist(wSeen, w0)
    BY <1>0 DEF OrderOK
  <2>2. Poll!Dist(wSeen, r0) <= Poll!Dist(wSeen, rSeen)
    BY <2>1, <1>2, <1>4, <1>t, SMTT(30)
  <2>3. /\ Poll!Dist(r0, rPos) = Poll!Dist(wSeen, rPos) - Poll!Dist(wSeen, r0)
        /\ Poll!Dist(r0, rSeen) = Poll!Dist(wSeen, rSeen) - Poll!Dist(wSeen, r0)
    BY <2>1, <2>2, <1>4, <1>t
  <2>4. Poll!Dist(r0, r0) = 0
    BY <1>2, DistOrders
  <2>5. \A a, b, c, d \in Nat : (d <= a /\ a <= b /\ b <= c) => 0 <= a - d /\ a - d <= b - d /\ b - d <= c - d
    OBVIOUS
  <2>6. /\ Poll!Dist(wSeen, r0) \in Nat /\ Poll!Dist(wSeen, rPos) \in Nat
        /\ Poll!Dist(wSeen, rSeen) \in Nat /\ Poll!Dist(wSeen, w0) \in Nat
    BY <1>2, <1>4, <1>t
  <2> QED BY <2>1, <2>3, <2>4, <2>5, <2>6, <1>7
<1>14. DataOK'
  <2> SUFFICES ASSUME NEW k \in 1 .. L, NEW s \in 0 .. (PollSize - 1), blocks[k].data[s] = 0
               PROVE  ~blocks[k].closed /\ s >= wPos /\ r0 <= wPos
    BY <1>1, <1>u DEF DataOK
  <2>1. ~blocks[k].closed /\ s >= wPos /\ wSeen <= wPos
    BY <1>0 DEF DataOK
  <2>2. r0 <= wPos
    BY <2>1, <1>2, <1>6, <1>t, DistBelow
  <2> QED BY <2>1, <2>2
<1>15. SignalOK'
  <2>1. /\ HasUnread' <=> HasUnread
        /\ Told' <=> Told
        /\ Looks' <=> Looks
        /\ Poll!FdReady' <=> Poll!FdReady
        /\ Flushes' /\ wpc' \notin {"check", "signal"}
    BY <1>1, <1>u DEF HasUnread, Told, Looks, Poll!FdReady, Poll!Odd, Flushes
  <2> QED BY <1>0, <1>u, <2>1 DEF SignalOK, StatesOK, PublishedOK, ToldOK, TellsOK
<1> QED BY <1>9, <1>10, <1>11, <1>12, <1>13, <1>14, <1>15 DEF PollInv

(* What is written is published: in the last block, of a chain that is      *)
(* otherwise as before.                                                     *)
LEMMA Publishes ==
  ASSUME PollOK, PollInv,
         blocks' = [blocks EXCEPT ![Len(blocks)] = [blocks[Len(blocks)] EXCEPT !.w = wPos]],
         UNCHANGED <<wPos, wSeen, rPos, rSeen, waitState, rpc, for>>
  PROVE  /\ blocks' \in Seq(PollBlock) /\ Len(blocks') = Len(blocks) /\ blocks' # <<>>
         /\ blocks'[Len(blocks)].w = wPos
         /\ ChainOK' /\ OrderOK' /\ ReaderOK' /\ DataOK'
         /\ HasUnread \/ blocks[Len(blocks)].w # wPos => HasUnread'
<1> DEFINE L == Len(blocks)
           old == blocks[L]
           new == [old EXCEPT !.w = wPos]
<1>0. /\ Poll!TypeOK /\ ChainOK /\ RoomOK /\ DirtyOK /\ OrderOK /\ ReaderOK /\ DataOK /\ SignalOK
  BY DEF PollInv
<1>t. PollTyped
  BY <1>0, PollTypes
<1> USE DEF PollTyped
<1>1. /\ new \in PollBlock
      /\ new.w = wPos /\ new.r = old.r /\ new.closed = old.closed /\ new.data = old.data
  <2>1. old \in PollBlock
    BY <1>t
  <2> QED BY <2>1, <1>t DEF PollBlock
<1>2. /\ blocks' \in Seq(PollBlock) /\ Len(blocks') = L /\ blocks'[L] = new
      /\ \A k \in 1 .. L : k # L => blocks'[k] = blocks[k]
  <2> HIDE DEF new
  <2>1. blocks' = [blocks EXCEPT ![L] = new]
    BY DEF new
  <2>2. blocks \in Seq(PollBlock) /\ L >= 1 /\ new \in PollBlock
    BY <1>1, <1>t
  <2> QED BY <2>1, <2>2, TailSet
<1>3. \A k \in 1 .. L :
        /\ blocks'[k].w = IF k = L THEN wPos ELSE blocks[k].w
        /\ blocks'[k].r = blocks[k].r
        /\ blocks'[k].closed = blocks[k].closed
        /\ blocks'[k].data = blocks[k].data
  BY <1>1, <1>2, <1>t
<1> HIDE DEF new
<1>4. blocks' # <<>>
  <2>1. Len(blocks') # 0
    BY <1>2, <1>t
  <2> QED BY <2>1, <1>2
<1>5. ChainOK'
  <2>1. \A k \in 1 .. L : blocks'[k].closed <=> k < L
    BY <1>0, <1>3 DEF ChainOK
  <2>2. (\A k \in 2 .. L : blocks'[k].r = 0) /\ (\A k \in 2 .. (L - 1) : blocks'[k].w # 0)
    BY <1>0, <1>3, <1>t DEF ChainOK
  <2> QED BY <2>1, <2>2, <1>2 DEF ChainOK
<1>6. old.w \in Poll!Positions
  BY <1>t
<1>7. Poll!Dist(wSeen, old.w) <= Poll!Dist(wSeen, wPos)
  BY <1>0 DEF RoomOK
<1>8. \A x \in Poll!Positions : Poll!Dist(wSeen, x) \in Nat
  BY <1>t, DistOrders
<1>9. OrderOK'
  <2> SUFFICES ASSUME L = 1
               PROVE  /\ Poll!Dist(wSeen, blocks'[1].r) <= Poll!Dist(wSeen, rPos)
                      /\ Poll!Dist(wSeen, rPos) <= Poll!Dist(wSeen, rSeen)
                      /\ Poll!Dist(wSeen, rSeen) <= Poll!Dist(wSeen, blocks'[1].w)
    BY <1>2 DEF OrderOK
  <2>1. blocks'[1].r = old.r /\ blocks'[1].w = wPos
    BY <1>3
  <2>2. /\ Poll!Dist(wSeen, old.r) <= Poll!Dist(wSeen, rPos)
        /\ Poll!Dist(wSeen, rPos) <= Poll!Dist(wSeen, rSeen)
        /\ Poll!Dist(wSeen, rSeen) <= Poll!Dist(wSeen, old.w)
    BY <1>0 DEF OrderOK
  <2> QED BY <2>1, <2>2, <1>6, <1>7, <1>8, <1>t
<1>10. ReaderOK'
  <2>1. blocks'[1].closed = blocks[1].closed
    BY <1>3, <1>t
  <2>2. blocks[1].closed => blocks'[1].w = blocks[1].w
    BY <1>0, <1>3, <1>t DEF ChainOK
  <2> QED BY <2>1, <2>2, <1>0 DEF ReaderOK, Poll!Odd
<1>11. DataOK'
  BY <1>0, <1>2, <1>3 DEF DataOK
<1>12. ASSUME HasUnread \/ old.w # wPos PROVE HasUnread'
  <2>1. CASE L = 1
    <3>1. rPos # blocks[1].w \/ old.w # wPos
      BY <1>12, <2>1 DEF HasUnread
    <3>2. Poll!Dist(wSeen, rPos) <= Poll!Dist(wSeen, old.w)
      BY <2>1, <1>0, <1>6, <1>8, <1>t DEF OrderOK
    <3>3. rPos = wPos => Poll!Dist(wSeen, old.w) = Poll!Dist(wSeen, wPos)
      BY <3>2, <1>6, <1>7, <1>8, <1>t
    <3>4. Poll!Dist(wSeen, old.w) = Poll!Dist(wSeen, wPos) => old.w = wPos
      BY <1>6, <1>t, DistSame
    <3>5. rPos # wPos
      BY <2>1, <3>1, <3>3, <3>4
    <3>6. blocks'[1].w = wPos
      BY <2>1, <1>3
    <3> QED BY <3>5, <3>6 DEF HasUnread
  <2>2. CASE L = 2
    <3>1. wSeen = 0
      BY <2>2, <1>0 DEF RoomOK
    <3>2. Poll!Dist(0, old.w) = old.w /\ Poll!Dist(0, wPos) = wPos
      BY <1>6, <1>t, DistOrders
    <3>3. old.w <= wPos
      BY <3>1, <3>2, <1>7
    <3>4. rPos # blocks[1].w \/ wPos # 0
      <4>1. old.w # 0 \/ old.w # wPos => wPos # 0
        BY <3>3, <1>6, <1>t DEF Poll!Positions
      <4> QED BY <4>1, <1>12, <2>2 DEF HasUnread
    <3>5. blocks'[1].w = blocks[1].w /\ blocks'[2].w = wPos
      BY <2>2, <1>3
    <3> QED BY <3>4, <3>5, <2>2, <1>2 DEF HasUnread
  <2>3. CASE L > 2
    <3>1. blocks'[2].w = blocks[2].w
      BY <2>3, <1>3
    <3>2. blocks[2].w # 0
      BY <2>3, <1>0, <1>t DEF ChainOK
    <3> QED BY <2>3, <3>1, <3>2, <1>2, <1>t DEF HasUnread
  <2>4. \A m \in Nat : m >= 1 => m = 1 \/ m = 2 \/ m > 2
    OBVIOUS
  <2> QED BY <2>1, <2>2, <2>3, <2>4, <1>t
<1>13. blocks'[L].w = wPos
  BY <1>1, <1>2
<1> QED BY <1>2, <1>4, <1>5, <1>9, <1>10, <1>11, <1>12, <1>13

(* The last block is full and published.                                    *)
LEMMA PublishStep == ASSUME PollOK, PollInv, Poll!WriterPublish PROVE PollInv'
<1>0. /\ Poll!TypeOK /\ ChainOK /\ RoomOK /\ DirtyOK /\ OrderOK /\ ReaderOK /\ DataOK /\ SignalOK
  BY DEF PollInv
<1>1. /\ blocks' = [blocks EXCEPT ![Len(blocks)] = [blocks[Len(blocks)] EXCEPT !.w = wPos]]
      /\ wpc = "publish" /\ wpc' = "close"
  BY DEF Poll!WriterPublish, Poll!SetTail, Poll!TailBlock
<1>u. UNCHANGED <<pollFd, wPos, wSeen, wWait, oldWait, next, dirty, rPos, rSeen, waitState, rpc, for,
                  tries, pollGot>>
  BY DEF Poll!WriterPublish, Poll!readerVars
<1>2. /\ blocks' \in Seq(PollBlock) /\ Len(blocks') = Len(blocks) /\ blocks' # <<>>
      /\ blocks'[Len(blocks)].w = wPos
      /\ ChainOK' /\ OrderOK' /\ ReaderOK' /\ DataOK'
      /\ HasUnread => HasUnread'
  BY <1>1, <1>u, Publishes
<1>3. Poll!TypeOK'
  BY <1>0, <1>1, <1>2, <1>u DEF Poll!TypeOK, PollBlock
<1>4. RoomOK'
  <2>1. Poll!Dist(wSeen, wPos) <= Poll!Dist(wSeen, wPos)
    BY <1>0, PollTypes, DistOrders DEF PollTyped
  <2> QED BY <1>0, <1>1, <1>2, <1>u, <2>1 DEF RoomOK
<1>5. DirtyOK'
  BY <1>0, <1>1, <1>2, <1>u DEF DirtyOK
<1>6. SignalOK'
  <2>1. /\ Told' <=> Told
        /\ Looks' <=> Looks
        /\ Poll!FdReady' <=> Poll!FdReady
        /\ Flushes' /\ wpc' \notin {"check", "signal"}
    BY <1>1, <1>2, <1>u DEF Told, Looks, Poll!FdReady, Poll!Odd, Flushes
  <2> QED BY <1>0, <1>2, <1>u, <2>1 DEF SignalOK, StatesOK, PublishedOK, ToldOK, TellsOK
<1> QED BY <1>2, <1>3, <1>4, <1>5, <1>6 DEF PollInv

(* writer_flush publishes.                                                  *)
LEMMA FlushStep == ASSUME PollOK, PollInv, Poll!FlushPublish PROVE PollInv'
<1>0. /\ Poll!TypeOK /\ ChainOK /\ RoomOK /\ DirtyOK /\ OrderOK /\ ReaderOK /\ DataOK /\ SignalOK
  BY DEF PollInv
<1>1. /\ blocks' = [blocks EXCEPT ![Len(blocks)] = [blocks[Len(blocks)] EXCEPT !.w = wPos]]
      /\ wpc = "flush" /\ wpc' = "check" /\ dirty' = FALSE
  BY DEF Poll!FlushPublish, Poll!SetTail, Poll!TailBlock
<1>u. UNCHANGED <<pollFd, wPos, wSeen, wWait, oldWait, next, rPos, rSeen, waitState, rpc, for,
                  tries, pollGot>>
  BY DEF Poll!FlushPublish, Poll!readerVars
<1>2. /\ blocks' \in Seq(PollBlock) /\ Len(blocks') = Len(blocks) /\ blocks' # <<>>
      /\ blocks'[Len(blocks)].w = wPos
      /\ ChainOK' /\ OrderOK' /\ ReaderOK' /\ DataOK'
      /\ blocks[Len(blocks)].w # wPos => HasUnread'
  BY <1>1, <1>u, Publishes
<1>3. HasUnread'
  BY <1>0, <1>1, <1>2 DEF DirtyOK
<1>4. Poll!TypeOK'
  BY <1>0, <1>1, <1>2, <1>u DEF Poll!TypeOK, PollBlock
<1>5. RoomOK'
  <2>1. Poll!Dist(wSeen, wPos) <= Poll!Dist(wSeen, wPos)
    BY <1>0, PollTypes, DistOrders DEF PollTyped
  <2> QED BY <1>0, <1>1, <1>2, <1>u, <2>1 DEF RoomOK
<1>6. DirtyOK'
  BY <1>0, <1>1, <1>2, <1>u DEF DirtyOK
<1>7. SignalOK'
  <2>1. /\ Told' <=> Told
        /\ Looks' <=> Looks
        /\ Poll!FdReady' <=> Poll!FdReady
        /\ Flushes'
    BY <1>1, <1>2, <1>u DEF Told, Looks, Poll!FdReady, Poll!Odd, Flushes
  <2> QED BY <1>0, <1>3, <1>u, <2>1 DEF SignalOK, StatesOK, PublishedOK, ToldOK, TellsOK
<1> QED BY <1>2, <1>4, <1>5, <1>6, <1>7 DEF PollInv

(* The full block is closed, and followed by a new one.                     *)
LEMMA CloseStep == ASSUME PollOK, PollInv, Poll!WriterClose PROVE PollInv'
<1> DEFINE L == Len(blocks)
           old == blocks[L]
           new == [old EXCEPT !.closed = TRUE]
           mid == [blocks EXCEPT ![L] = new]
           fresh == Poll!NewBlock
<1>0. /\ Poll!TypeOK /\ ChainOK /\ RoomOK /\ DirtyOK /\ OrderOK /\ ReaderOK /\ DataOK /\ SignalOK
  BY DEF PollInv
<1>t. PollTyped
  BY <1>0, PollTypes
<1> USE DEF PollTyped
<1>1. /\ blocks' = Append(mid, fresh) /\ wPos' = 0 /\ wSeen' = 0 /\ wpc = "close" /\ wpc' = "fill"
  <2>1. mid = [blocks EXCEPT ![Len(blocks)].closed = TRUE]
    BY <1>t
  <2> QED BY <2>1 DEF Poll!WriterClose
<1>u. UNCHANGED <<pollFd, wWait, oldWait, next, dirty, rPos, rSeen, waitState, rpc, for, tries, pollGot>>
  BY DEF Poll!WriterClose, Poll!readerVars
<1>2. /\ new \in PollBlock
      /\ new.w = old.w /\ new.r = old.r /\ new.closed = TRUE /\ new.data = old.data
  <2>1. old \in PollBlock
    BY <1>t
  <2> QED BY <2>1 DEF PollBlock
<1>3. /\ fresh \in PollBlock
      /\ fresh.w = 0 /\ fresh.r = 0 /\ fresh.closed = FALSE
      /\ \A s \in 0 .. (PollSize - 1) : fresh.data[s] = 0
  BY <1>t DEF Poll!NewBlock, PollBlock
<1>4. /\ mid \in Seq(PollBlock) /\ Len(mid) = L /\ mid[L] = new
      /\ \A k \in 1 .. L : k # L => mid[k] = blocks[k]
  <2> HIDE DEF new
  <2>1. blocks \in Seq(PollBlock) /\ L >= 1 /\ new \in PollBlock
    BY <1>2, <1>t
  <2> QED BY <2>1, TailSet
<1> HIDE DEF new, mid, fresh
<1>5. /\ blocks' \in Seq(PollBlock) /\ Len(blocks') = L + 1 /\ blocks'[L + 1] = fresh
      /\ \A k \in 1 .. L : blocks'[k] = mid[k]
  BY <1>1, <1>3, <1>4, <1>t
<1>6. \A k \in 1 .. L :
        /\ blocks'[k].w = blocks[k].w /\ blocks'[k].r = blocks[k].r
        /\ blocks'[k].closed = TRUE
        /\ blocks'[k].data = blocks[k].data
  <2> SUFFICES ASSUME NEW k \in 1 .. L
               PROVE  /\ blocks'[k].w = blocks[k].w /\ blocks'[k].r = blocks[k].r
                      /\ blocks'[k].closed = TRUE
                      /\ blocks'[k].data = blocks[k].data
    OBVIOUS
  <2>1. CASE k = L
    BY <2>1, <1>2, <1>4, <1>5
  <2>2. CASE k # L
    <3>1. blocks'[k] = blocks[k]
      BY <2>2, <1>4, <1>5
    <3>2. k < L
      BY <2>2, <1>t
    <3>3. blocks[k].closed
      BY <3>2, <1>0 DEF ChainOK
    <3> QED BY <3>1, <3>3, <1>t
  <2> QED BY <2>1, <2>2
<1>7. \A k \in 1 .. (L + 1) : k \in 1 .. L \/ k = L + 1
  BY <1>t
<1>8. old.w = wPos /\ Poll!Dist(wSeen, wPos) = PollSize
  BY <1>0, <1>1 DEF DirtyOK, RoomOK
<1>9. Poll!Dist(0, 0) = 0
  BY <1>t, DistOrders
<1>10. Poll!TypeOK'
  <2>1. blocks' # <<>>
    <3>1. Len(blocks') # 0
      BY <1>5, <1>t
    <3> QED BY <3>1, <1>5
  <2> QED BY <2>1, <1>0, <1>1, <1>5, <1>t, <1>u DEF Poll!TypeOK, PollBlock
<1>11. ChainOK'
  <2>1. \A k \in 1 .. (L + 1) : blocks'[k].closed <=> k < L + 1
    BY <1>3, <1>5, <1>6, <1>7, <1>t
  <2>2. \A k \in 2 .. (L + 1) : blocks'[k].r = 0
    <3> SUFFICES ASSUME NEW k \in 2 .. (L + 1) PROVE blocks'[k].r = 0
      OBVIOUS
    <3>1. CASE k = L + 1
      BY <3>1, <1>3, <1>5
    <3>2. CASE k # L + 1
      <4>1. k \in 1 .. L /\ k \in 2 .. L
        BY <3>2, <1>t
      <4> QED BY <4>1, <1>0, <1>6 DEF ChainOK
    <3> QED BY <3>1, <3>2
  <2>3. \A k \in 2 .. L : blocks'[k].w # 0
    <3> SUFFICES ASSUME NEW k \in 2 .. L PROVE blocks'[k].w # 0
      OBVIOUS
    <3>1. CASE k = L
      <4>1. wSeen = 0
        <5>1. L > 1
          BY <3>1, <1>t
        <5> QED BY <5>1, <1>0 DEF RoomOK
      <4>2. wPos # 0
        BY <4>1, <1>8, <1>9, <1>t
      <4>3. blocks'[k].w = old.w
        BY <3>1, <1>6, <1>t
      <4> QED BY <4>2, <4>3, <1>8
    <3>2. CASE k # L
      <4>1. k \in 1 .. L /\ k \in 2 .. (L - 1)
        BY <3>2, <1>t
      <4> QED BY <4>1, <1>0, <1>6 DEF ChainOK
    <3> QED BY <3>1, <3>2
  <2>4. (L + 1) - 1 = L
    BY <1>t
  <2> QED BY <2>1, <2>2, <2>3, <2>4, <1>5 DEF ChainOK
<1>12. RoomOK'
  <2>1. blocks'[L + 1].w = 0
    BY <1>3, <1>5
  <2> QED BY <2>1, <1>1, <1>5, <1>9, <1>t DEF RoomOK
<1>13. DirtyOK'
  <2>1. blocks'[L + 1].w = 0
    BY <1>3, <1>5
  <2> QED BY <2>1, <1>0, <1>1, <1>5, <1>u DEF DirtyOK
<1>14. OrderOK'
  <2>1. L + 1 # 1
    BY <1>t
  <2> QED BY <2>1, <1>5 DEF OrderOK
<1>15. ReaderOK'
  <2>1. blocks'[1].closed /\ blocks'[1].w = blocks[1].w
    BY <1>6, <1>t
  <2> QED BY <2>1, <1>0, <1>u DEF ReaderOK, Poll!Odd
<1>16. DataOK'
  <2> SUFFICES ASSUME NEW k \in 1 .. (L + 1), NEW s \in 0 .. (PollSize - 1), blocks'[k].data[s] = 0
               PROVE  ~blocks'[k].closed /\ s >= 0
    BY <1>1, <1>5 DEF DataOK
  <2>1. k \notin 1 .. L
    <3> SUFFICES ASSUME k \in 1 .. L PROVE FALSE
      OBVIOUS
    <3>1. blocks[k].data[s] = 0
      BY <1>6
    <3>2. ~blocks[k].closed /\ s >= wPos /\ wSeen <= wPos
      BY <3>1, <1>0 DEF DataOK
    <3>3. Poll!Dist(wSeen, wPos) <= Poll!Dist(wSeen, wPos)
      BY <1>8, <1>t
    <3>4. Poll!Dist(wSeen, wPos) = wPos - wSeen
      BY <3>2, <3>3, <1>t, DistBelow
    <3> QED BY <3>2, <3>4, <1>8, <1>t DEF Poll!Positions
  <2> QED BY <2>1, <1>3, <1>5, <1>7
<1>17. SignalOK'
  <2>1. HasUnread => HasUnread'
    <3>1. blocks'[1].w = blocks[1].w /\ (L > 1 => blocks'[2].w = blocks[2].w /\ L + 1 > 1)
      BY <1>6, <1>t
    <3> QED BY <3>1, <1>5, <1>u DEF HasUnread
  <2>2. Looks => Looks'
    <3>1. L > 1 => L + 1 > 1
      BY <1>t
    <3> QED BY <3>1, <1>5, <1>u DEF Looks
  <2>3. (Told' <=> Told) /\ (Poll!FdReady' <=> Poll!FdReady) /\ Flushes' /\ wpc' \notin {"check", "signal"}
    BY <1>1, <1>u DEF Told, Poll!FdReady, Poll!Odd, Flushes
  <2> QED BY <1>0, <1>u, <2>1, <2>2, <2>3 DEF SignalOK, StatesOK, PublishedOK, ToldOK, TellsOK
<1> QED BY <1>10, <1>11, <1>12, <1>13, <1>14, <1>15, <1>16, <1>17 DEF PollInv

(* reader_update loads writer_.i of the head.                               *)
LEMMA LoadStep == ASSUME PollOK, PollInv, Poll!UpdateLoad PROVE PollInv'
<1> DEFINE w0 == blocks[1].w
<1>0. /\ Poll!TypeOK /\ ChainOK /\ RoomOK /\ DirtyOK /\ OrderOK /\ ReaderOK /\ DataOK /\ SignalOK
  BY DEF PollInv
<1>t. PollTyped
  BY <1>0, PollTypes
<1> USE DEF PollTyped
<1>1. rpc \in {"update", "update again"} /\ rSeen' = w0
  BY DEF Poll!UpdateLoad, Poll!HeadBlock
<1>2. \/ w0 # rPos /\ rpc' = IF for = "wait" THEN "get" ELSE "undo"
      \/ w0 = rPos /\ rpc = "update" /\ rpc' = "closed"
      \/ w0 = rPos /\ rpc = "update again" /\ rpc' = "next"
  BY <1>1 DEF Poll!UpdateLoad, Poll!UpdateFound, Poll!HeadBlock
<1>u. UNCHANGED <<pollFd, blocks, wPos, wSeen, wWait, oldWait, next, dirty, wpc, rPos, waitState, for,
                  tries, pollGot>>
  <2>1. tries' = tries
    BY <1>1 DEF Poll!UpdateLoad, Poll!UpdateFound
  <2> QED BY <2>1 DEF Poll!UpdateLoad, Poll!writerVars
<1>3. w0 \in Poll!Positions
  BY <1>t
<1>4. Poll!TypeOK'
  BY <1>0, <1>1, <1>2, <1>3, <1>u DEF Poll!TypeOK
<1>5. ChainOK' /\ RoomOK' /\ DirtyOK' /\ DataOK' /\ (HasUnread' <=> HasUnread)
  BY <1>0, <1>u DEF ChainOK, RoomOK, DirtyOK, DataOK, HasUnread
<1>6. OrderOK'
  <2>1. \A x \in Poll!Positions : Poll!Dist(wSeen, x) \in Nat
    BY <1>t, DistOrders
  <2> SUFFICES ASSUME Len(blocks) = 1
               PROVE  /\ Poll!Dist(wSeen, blocks[1].r) <= Poll!Dist(wSeen, rPos)
                      /\ Poll!Dist(wSeen, rPos) <= Poll!Dist(wSeen, w0)
                      /\ Poll!Dist(wSeen, w0) <= Poll!Dist(wSeen, w0)
    BY <1>1, <1>u DEF OrderOK
  <2> QED BY <2>1, <1>0, <1>3, <1>t DEF OrderOK
<1>7. (Poll!Odd <=> for # "wait") /\ (Poll!Odd' <=> Poll!Odd) /\ (rpc = "update again" => blocks[1].closed)
  BY <1>0, <1>1, <1>u DEF ReaderOK, Poll!Odd
<1>8. ReaderOK'
  BY <1>2, <1>7, <1>u DEF ReaderOK
<1>9. SignalOK'
  <2>1. (Told' <=> Told) /\ (Poll!FdReady' <=> Poll!FdReady) /\ (Flushes' <=> Flushes) /\ (Told => Poll!Odd)
    BY <1>u DEF Told, Poll!FdReady, Poll!Odd, Flushes
  <2>2. StatesOK' /\ PublishedOK'
    BY <1>0, <1>5, <1>7, <1>u DEF SignalOK, StatesOK, PublishedOK
  <2>3. w0 = rPos /\ HasUnread => Len(blocks) > 1
    BY DEF HasUnread
  <2>4. ToldOK'
    <3> SUFFICES ASSUME Told PROVE HasUnread /\ (Poll!FdReady \/ Looks')
      BY <1>5, <2>1 DEF ToldOK
    <3>1. HasUnread /\ (Poll!FdReady \/ Looks)
      BY <1>0 DEF SignalOK, ToldOK
    <3>2. Looks => for = "woken"
      BY <1>1 DEF Looks
    <3>3. for = "woken" => Looks'
      BY <1>2, <1>u, <2>3, <3>1 DEF Looks
    <3> QED BY <3>1, <3>2, <3>3
  <2>5. TellsOK'
    <3>1. Misses' => w0 = rPos /\ Len(blocks) = 1
      BY <1>2, <1>u DEF Misses
    <3>2. ~(Len(blocks) > 1 /\ Len(blocks) = 1)
      <4>1. \A m \in Nat : ~(m > 1 /\ m = 1)
        OBVIOUS
      <4> QED BY <4>1, <1>t
    <3> QED BY <3>1, <3>2, <2>3, <1>5 DEF TellsOK
  <2> QED BY <2>2, <2>4, <2>5 DEF SignalOK
<1> QED BY <1>4, <1>5, <1>6, <1>8, <1>9 DEF PollInv

(* The head is deleted, and the next block looked at.                       *)
LEMMA NextStep == ASSUME PollOK, PollInv, Poll!UpdateNext PROVE PollInv'
<1> DEFINE L == Len(blocks)
           w0 == blocks[2].w
<1>0. /\ Poll!TypeOK /\ ChainOK /\ RoomOK /\ DirtyOK /\ OrderOK /\ ReaderOK /\ DataOK /\ SignalOK
  BY DEF PollInv
<1>t. PollTyped
  BY <1>0, PollTypes
<1> USE DEF PollTyped
<1>1. rpc = "next" /\ blocks' = Tail(blocks) /\ rPos' = 0 /\ rSeen' = w0
  BY DEF Poll!UpdateNext
<1>2. /\ tries' \in 0 .. PollTries
      /\ \/ w0 # 0 /\ rpc' = IF for = "wait" THEN "get" ELSE "undo"
         \/ w0 = 0 /\ for = "wait" /\ rpc' \in {"update", "announce"}
         \/ w0 = 0 /\ for = "recheck" /\ rpc' = "acquire"
         \/ w0 = 0 /\ for = "woken" /\ rpc' = "wait"
  <2>1. CASE w0 # 0
    BY <2>1, <1>0 DEF Poll!UpdateNext, Poll!UpdateFound, Poll!TypeOK
  <2>2. CASE w0 = 0
    BY <2>2, <1>0, FoundNothing DEF Poll!UpdateNext
  <2> QED BY <2>1, <2>2
<1>u. UNCHANGED <<pollFd, wPos, wSeen, wWait, oldWait, next, dirty, wpc, waitState, for, pollGot>>
  BY DEF Poll!UpdateNext, Poll!writerVars
<1>3. blocks[1].closed /\ rPos = blocks[1].w /\ (Poll!Odd <=> for # "wait")
  BY <1>0, <1>1 DEF ReaderOK
<1>4. L > 1 /\ L - 1 \in Nat /\ L - 1 >= 1
  <2>1. 1 < L
    BY <1>0, <1>3, <1>t DEF ChainOK
  <2> QED BY <2>1, <1>t
<1>5. /\ blocks' \in Seq(PollBlock) /\ Len(blocks') = L - 1
      /\ \A k \in 1 .. (L - 1) : blocks'[k] = blocks[k + 1]
  BY <1>1, <1>4, <1>t
<1>6. w0 \in Poll!Positions /\ wSeen = 0 /\ Poll!Dist(0, 0) = 0
  <2>1. 2 \in 1 .. L
    BY <1>4, <1>t
  <2>2. wSeen = 0
    BY <1>0, <1>4 DEF RoomOK
  <2> QED BY <2>1, <2>2, <1>t, DistOrders
<1>7. blocks'[L - 1] = blocks[L] /\ blocks'[1] = blocks[2]
  <2>1. L - 1 \in 1 .. (L - 1) /\ 1 \in 1 .. (L - 1) /\ (L - 1) + 1 = L
    BY <1>4, <1>t
  <2> QED BY <2>1, <1>5
<1>8. Poll!TypeOK'
  <2>1. blocks' # <<>>
    <3>1. Len(blocks') # 0
      BY <1>4, <1>5
    <3> QED BY <3>1, <1>5
  <2>2. rpc' \in {"call", "update", "closed", "update again", "next", "announce", "acquire", "undo",
                  "wait", "get"}
    BY <1>2
  <2> QED BY <2>1, <2>2, <1>0, <1>1, <1>2, <1>5, <1>6, <1>t, <1>u DEF Poll!TypeOK, PollBlock
<1>9. ChainOK'
  <2>1. \A k \in 1 .. (L - 1) : k + 1 \in 1 .. L /\ k + 1 \in 2 .. L /\ (k < L - 1 <=> k + 1 < L)
    BY <1>4, <1>t
  <2>2. \A k \in 1 .. (L - 1) : blocks'[k].closed <=> k < L - 1
    BY <2>1, <1>0, <1>5 DEF ChainOK
  <2>3. \A k \in 2 .. (L - 1) : blocks'[k].r = 0
    <3> SUFFICES ASSUME NEW k \in 2 .. (L - 1) PROVE blocks'[k].r = 0
      OBVIOUS
    <3>1. k \in 1 .. (L - 1)
      BY <1>4
    <3> QED BY <3>1, <2>1, <1>0, <1>5 DEF ChainOK
  <2>4. \A k \in 2 .. ((L - 1) - 1) : blocks'[k].w # 0
    <3> SUFFICES ASSUME NEW k \in 2 .. ((L - 1) - 1) PROVE blocks'[k].w # 0
      OBVIOUS
    <3>1. k \in 1 .. (L - 1) /\ k + 1 \in 2 .. (L - 1)
      BY <1>4, <1>t
    <3> QED BY <3>1, <1>0, <1>5 DEF ChainOK
  <2> QED BY <2>2, <2>3, <2>4, <1>5 DEF ChainOK
<1>10. RoomOK'
  BY <1>0, <1>4, <1>5, <1>6, <1>7, <1>u DEF RoomOK
<1>11. DirtyOK'
  BY <1>0, <1>5, <1>7, <1>u DEF DirtyOK
<1>12. OrderOK'
  <2>1. blocks'[1].r = 0
    <3>1. 2 \in 2 .. L
      BY <1>4, <1>t
    <3> QED BY <3>1, <1>0, <1>7 DEF ChainOK
  <2>2. Poll!Dist(0, w0) \in Nat
    BY <1>6, <1>t, DistOrders
  <2> QED BY <2>1, <2>2, <1>1, <1>6, <1>7, <1>u DEF OrderOK
<1>13. Poll!Odd' <=> Poll!Odd
  BY <1>u DEF Poll!Odd
<1>14. ReaderOK'
  BY <1>2, <1>3, <1>13, <1>u DEF ReaderOK
<1>15. DataOK'
  <2> SUFFICES ASSUME NEW k \in 1 .. (L - 1), NEW s \in 0 .. (PollSize - 1), blocks'[k].data[s] = 0
               PROVE  ~blocks'[k].closed /\ s >= wPos /\ wSeen <= wPos
    BY <1>5, <1>u DEF DataOK
  <2>1. k + 1 \in 1 .. L
    BY <1>4, <1>t
  <2> QED BY <2>1, <1>0, <1>5 DEF DataOK
<1>16. (HasUnread => w0 # 0) /\ (w0 # 0 => HasUnread') /\ (w0 = 0 => ~HasUnread')
  <2>1. HasUnread => w0 # 0
    BY <1>3 DEF HasUnread
  <2>2. w0 # 0 => HasUnread'
    BY <1>1, <1>7 DEF HasUnread
  <2>3. w0 = 0 => ~HasUnread'
    <3> SUFFICES ASSUME w0 = 0, L - 1 > 1 PROVE FALSE
      BY <1>1, <1>5, <1>7 DEF HasUnread
    <3>1. 2 \in 2 .. (L - 1)
      BY <1>t
    <3> QED BY <3>1, <1>0 DEF ChainOK
  <2> QED BY <2>1, <2>2, <2>3
<1>17. SignalOK'
  <2>1. (Told' <=> Told) /\ (Poll!FdReady' <=> Poll!FdReady) /\ (Told => Poll!Odd)
    BY <1>u DEF Told, Poll!FdReady, Poll!Odd
  <2>2. StatesOK' /\ PublishedOK'
    BY <1>0, <1>13, <1>16, <1>u DEF SignalOK, StatesOK, PublishedOK
  <2>3. ToldOK'
    <3>1. Told => HasUnread
      BY <1>0 DEF SignalOK, ToldOK
    <3>2. w0 # 0 /\ Told => Looks'
      BY <1>2, <1>3, <2>1 DEF Looks
    <3> QED BY <3>1, <3>2, <2>1, <1>16 DEF ToldOK
  <2>4. TellsOK'
    BY <1>2, <1>16 DEF TellsOK, Misses
  <2> QED BY <2>2, <2>3, <2>4 DEF SignalOK
<1> QED BY <1>8, <1>9, <1>10, <1>11, <1>12, <1>14, <1>15, <1>17 DEF PollInv


(* reader_get_unsafe: what is got was put.                                  *)
LEMMA GetStep == ASSUME PollOK, PollInv, Poll!ReaderGet PROVE PollInv'
<1> DEFINE s == rPos % PollSize
           D(x) == Poll!Dist(wSeen, x)
<1>0. /\ Poll!TypeOK /\ ChainOK /\ RoomOK /\ DirtyOK /\ OrderOK /\ ReaderOK /\ DataOK /\ SignalOK
  BY DEF PollInv
<1>t. PollTyped
  BY <1>0, PollTypes
<1> USE DEF PollTyped
<1>1. /\ rpc = "get" /\ rPos # rSeen /\ rPos' = Poll!Up(rPos)
      /\ pollGot' = Append(pollGot, blocks[1].data[s])
  BY DEF Poll!ReaderGet, Poll!HeadBlock
<1>u. UNCHANGED <<pollFd, blocks, wPos, wSeen, wWait, oldWait, next, dirty, wpc, rSeen, waitState, rpc,
                  for, tries>>
  BY DEF Poll!ReaderGet, Poll!writerVars
<1>2. s \in 0 .. (PollSize - 1) /\ s <= rPos
  BY <1>t, SlotIs
<1>3. \A x \in Poll!Positions : D(x) \in Nat /\ D(x) < PollModulus
  BY <1>t, DistOrders
<1>4. ASSUME Len(blocks) = 1
      PROVE  /\ D(blocks[1].r) <= D(rPos) /\ D(rPos) < D(rSeen)
             /\ D(rSeen) <= D(blocks[1].w) /\ D(blocks[1].w) <= D(wPos)
  <2>1. /\ D(blocks[1].r) <= D(rPos) /\ D(rPos) <= D(rSeen)
        /\ D(rSeen) <= D(blocks[1].w) /\ D(blocks[1].w) <= D(wPos)
    BY <1>4, <1>0 DEF OrderOK, RoomOK
  <2>2. D(rPos) # D(rSeen)
    BY <1>1, <1>t, DistSame
  <2>3. D(rPos) \in Nat /\ D(rSeen) \in Nat
    BY <1>3, <1>t
  <2> QED BY <2>1, <2>2, <2>3
<1>5. blocks[1].data[s] # 0
  <2> SUFFICES ASSUME blocks[1].data[s] = 0 PROVE FALSE
    OBVIOUS
  <2>1. 1 \in 1 .. Len(blocks)
    BY <1>t
  <2>2. ~blocks[1].closed /\ s >= wPos /\ wSeen <= wPos
    BY <2>1, <1>0, <1>2 DEF DataOK
  <2>3. Len(blocks) = 1
    <3>1. ~(1 < Len(blocks))
      BY <2>1, <2>2, <1>0 DEF ChainOK
    <3>2. \A m \in Nat : m >= 1 /\ ~(1 < m) => m = 1
      OBVIOUS
    <3> QED BY <3>1, <3>2, <1>t
  <2>4. D(rPos) < D(wPos)
    <3>1. D(rPos) \in Nat /\ D(rSeen) \in Nat /\ D(blocks[1].w) \in Nat /\ D(wPos) \in Nat
      BY <1>3, <1>t, <2>1
    <3> QED BY <3>1, <1>4, <2>3
  <2>5. rPos <= wPos
    <3>1. D(rPos) <= D(wPos)
      <4>1. D(rPos) \in Nat /\ D(wPos) \in Nat
        BY <1>3, <1>t
      <4> QED BY <4>1, <2>4
    <3> QED BY <3>1, <2>2, <1>t, DistBelow
  <2>6. rPos # wPos
    BY <2>4, <1>3, <1>t
  <2> QED BY <2>2, <2>5, <2>6, <1>2, <1>t DEF Poll!Positions
<1>6. Poll!TypeOK'
  <2>1. pollGot' \in Seq(Poll!Values)
    <3>1. blocks[1].data[s] \in Poll!Values
      <4>1. blocks[1].data \in [0 .. (PollSize - 1) -> Poll!Values \cup {0}]
        BY <1>t
      <4> QED BY <4>1, <1>2, <1>5
    <3>2. pollGot \in Seq(Poll!Values)
      BY <1>0 DEF Poll!TypeOK
    <3> QED BY <3>1, <3>2, <1>1
  <2>2. rPos' \in Poll!Positions
    BY <1>1, <1>t, UpIs
  <2> QED BY <2>1, <2>2, <1>0, <1>u DEF Poll!TypeOK
<1>7. ChainOK' /\ RoomOK' /\ DirtyOK' /\ DataOK'
  BY <1>0, <1>u DEF ChainOK, RoomOK, DirtyOK, DataOK
<1>8. OrderOK'
  <2> SUFFICES ASSUME Len(blocks) = 1
               PROVE  /\ D(blocks[1].r) <= D(Poll!Up(rPos))
                      /\ D(Poll!Up(rPos)) <= D(rSeen)
                      /\ D(rSeen) <= D(blocks[1].w)
    BY <1>1, <1>u DEF OrderOK
  <2>1. D(blocks[1].r) \in Nat /\ D(rPos) \in Nat /\ D(rSeen) \in Nat /\ D(rSeen) < PollModulus
    BY <1>3, <1>t
  <2>2. /\ D(blocks[1].r) <= D(rPos) /\ D(rPos) < D(rSeen) /\ D(rSeen) <= D(blocks[1].w)
    BY <1>4
  <2>3. D(rPos) + 1 < PollModulus
    BY <2>1, <2>2, <1>t
  <2>4. D(Poll!Up(rPos)) = D(rPos) + 1
    BY <2>3, <1>t, DistOrders
  <2> QED BY <2>1, <2>2, <2>4
<1>9. ~Poll!Odd /\ ReaderOK'
  <2>1. ~Poll!Odd
    BY <1>0, <1>1 DEF ReaderOK
  <2> QED BY <2>1, <1>1, <1>u DEF ReaderOK, Poll!Odd
<1>10. SignalOK'
  BY <1>0, <1>1, <1>9, <1>u
     DEF SignalOK, StatesOK, PublishedOK, ToldOK, TellsOK, Told, Misses, Poll!Odd
<1> QED BY <1>6, <1>7, <1>8, <1>9, <1>10 DEF PollInv

(* reader_flush, or none.                                                   *)
LEMMA FlushReadStep == ASSUME PollOK, PollInv, Poll!ReaderFlush PROVE PollInv'
<1> DEFINE L == Len(blocks)
           new == [blocks[1] EXCEPT !.r = rPos]
<1>0. /\ Poll!TypeOK /\ ChainOK /\ RoomOK /\ DirtyOK /\ OrderOK /\ ReaderOK /\ DataOK /\ SignalOK
  BY DEF PollInv
<1>t. PollTyped
  BY <1>0, PollTypes
<1> USE DEF PollTyped
<1>1. rpc = "get" /\ rPos = rSeen /\ rpc' = "call"
  BY DEF Poll!ReaderFlush
<1>2. blocks' = blocks \/ blocks' = [blocks EXCEPT ![1] = new]
  BY <1>t DEF Poll!ReaderFlush
<1>u. UNCHANGED <<pollFd, wPos, wSeen, wWait, oldWait, next, dirty, wpc, rPos, rSeen, waitState,
                  for, tries, pollGot>>
  BY DEF Poll!ReaderFlush, Poll!writerVars
<1>3. /\ new \in PollBlock
      /\ new.w = blocks[1].w /\ new.r = rPos /\ new.closed = blocks[1].closed
      /\ new.data = blocks[1].data
  <2>1. blocks[1] \in PollBlock
    BY <1>t
  <2> QED BY <2>1, <1>t DEF PollBlock
<1> HIDE DEF new
<1>4. /\ blocks' \in Seq(PollBlock) /\ Len(blocks') = L
      /\ blocks'[1] \in {blocks[1], new}
      /\ \A k \in 2 .. L : blocks'[k] = blocks[k]
  <2>1. CASE blocks' = blocks
    BY <2>1, <1>t
  <2>2. CASE blocks' = [blocks EXCEPT ![1] = new]
    BY <2>2, <1>3, <1>t
  <2> QED BY <1>2, <2>1, <2>2
<1>5. \A k \in 1 .. L :
        /\ blocks'[k].w = blocks[k].w /\ blocks'[k].closed = blocks[k].closed
        /\ blocks'[k].data = blocks[k].data
  <2> SUFFICES ASSUME NEW k \in 1 .. L
               PROVE  /\ blocks'[k].w = blocks[k].w /\ blocks'[k].closed = blocks[k].closed
                      /\ blocks'[k].data = blocks[k].data
    OBVIOUS
  <2>1. CASE k = 1
    BY <2>1, <1>3, <1>4
  <2>2. CASE k # 1
    <3>1. k \in 2 .. L
      BY <2>2
    <3> QED BY <3>1, <1>4
  <2> QED BY <2>1, <2>2
<1>6. 1 \in 1 .. L /\ L \in 1 .. L /\ blocks'[1].r \in {blocks[1].r, rPos}
  BY <1>3, <1>4, <1>t
<1>7. Poll!TypeOK'
  <2>1. blocks' # <<>>
    <3>1. Len(blocks') # 0
      BY <1>4, <1>t
    <3> QED BY <3>1, <1>4
  <2> QED BY <2>1, <1>0, <1>1, <1>4, <1>u DEF Poll!TypeOK, PollBlock
<1>8. ChainOK'
  <2>1. \A k \in 2 .. (L - 1) : k \in 1 .. L
    BY <1>t
  <2> QED BY <2>1, <1>0, <1>4, <1>5 DEF ChainOK
<1>9. RoomOK' /\ DirtyOK' /\ DataOK'
  BY <1>0, <1>4, <1>5, <1>6, <1>u DEF RoomOK, DirtyOK, DataOK
<1>10. OrderOK'
  <2> SUFFICES ASSUME L = 1
               PROVE  /\ Poll!Dist(wSeen, blocks'[1].r) <= Poll!Dist(wSeen, rPos)
                      /\ Poll!Dist(wSeen, rPos) <= Poll!Dist(wSeen, rSeen)
                      /\ Poll!Dist(wSeen, rSeen) <= Poll!Dist(wSeen, blocks[1].w)
    BY <1>4, <1>5, <1>6, <1>u DEF OrderOK
  <2>1. Poll!Dist(wSeen, rPos) \in Nat
    BY <1>t, DistOrders
  <2> QED BY <2>1, <1>0, <1>6 DEF OrderOK
<1>11. ~Poll!Odd /\ ReaderOK'
  <2>1. ~Poll!Odd
    BY <1>0, <1>1 DEF ReaderOK
  <2> QED BY <2>1, <1>1, <1>u DEF ReaderOK, Poll!Odd
<1>12. SignalOK'
  BY <1>0, <1>1, <1>11, <1>u
     DEF SignalOK, StatesOK, PublishedOK, ToldOK, TellsOK, Told, Misses, Poll!Odd
<1> QED BY <1>7, <1>8, <1>9, <1>10, <1>11, <1>12 DEF PollInv

(* The queue is empty, and nobody waits.                                    *)
LEMMA PollStarts == ASSUME PollOK, Poll!Init PROVE PollInv
<1>1. /\ blocks = <<Poll!NewBlock>> /\ wPos = 0 /\ wSeen = 0 /\ rPos = 0 /\ rSeen = 0
      /\ waitState = 0 /\ wWait = 0 /\ oldWait = 0 /\ wpc = "put" /\ rpc = "call"
      /\ for = "wait" /\ tries = 0 /\ next = 1 /\ dirty = FALSE /\ pollGot = <<>> /\ pollFd = 0
  BY DEF Poll!Init, Poll!FdInit
<1>2. PollSize \in Nat /\ PollModulus \in Nat /\ PollSize >= 1 /\ PollSize < PollModulus
      /\ PollPuts \in Nat /\ PollTries \in Nat
  BY DEF PollOK
<1>3. 0 \in Poll!Positions
  BY <1>2 DEF Poll!Positions
<1>4. /\ Poll!NewBlock \in PollBlock
      /\ Poll!NewBlock.w = 0 /\ Poll!NewBlock.r = 0 /\ Poll!NewBlock.closed = FALSE
  BY <1>3 DEF Poll!NewBlock, PollBlock
<1>5. blocks \in Seq(PollBlock) /\ Len(blocks) = 1 /\ blocks[1] = Poll!NewBlock /\ blocks # <<>>
  BY <1>1, <1>4
<1>6. Poll!Dist(0, 0) = 0
  BY <1>3, DistOrders
<1>7. Poll!TypeOK
  <2>1. 1 \in 1 .. (PollPuts + 1) /\ 0 \in 0 .. PollTries /\ 0 \in Nat
    BY <1>2
  <2>2. <<>> \in Seq(Poll!Values)
    OBVIOUS
  <2> QED BY <2>1, <2>2, <1>1, <1>3, <1>5 DEF Poll!TypeOK, PollBlock
<1>8. ChainOK
  BY <1>4, <1>5 DEF ChainOK
<1>9. RoomOK /\ DirtyOK /\ OrderOK
  BY <1>1, <1>2, <1>4, <1>5, <1>6 DEF RoomOK, DirtyOK, OrderOK
<1>10. DataOK
  BY <1>1, <1>4, <1>5 DEF DataOK
<1>11. ReaderOK
  BY <1>1 DEF ReaderOK
<1>12. SignalOK
  <2>1. 0 % 2 # 1
    OBVIOUS
  <2>2. ~Poll!Odd
    BY <2>1, <1>1 DEF Poll!Odd
  <2>3. ~HasUnread
    BY <1>1, <1>4, <1>5 DEF HasUnread
  <2> QED BY <2>2, <2>3, <1>1 DEF SignalOK, StatesOK, PublishedOK, ToldOK, TellsOK, Told
<1> QED BY <1>7, <1>8, <1>9, <1>10, <1>11, <1>12 DEF PollInv

(* A step of the queue.                                                     *)
LEMMA PollSteps == ASSUME PollOK, ~IdleFlush, PollInv, Poll!Next PROVE PollInv'
<1>1. CASE Poll!WriterStep
  BY <1>1, PutStep, UpdateStep, PublishStep, CloseStep, FlushStep, QuietStep DEF Poll!WriterStep
<1>2. CASE Poll!ReaderStep \/ Poll!ReaderTimeout
  BY <1>2, LoadStep, NextStep, GetStep, FlushReadStep, QuietStep DEF Poll!ReaderStep
<1> QED BY <1>1, <1>2 DEF Poll!Next

(* The steps of the other components.                                       *)
LEMMA PollStays == ASSUME PollInv, UNCHANGED pollVars PROVE PollInv'
<1>u. UNCHANGED <<pollFd, blocks, wPos, wSeen, rPos, rSeen, waitState, wWait, oldWait, wpc, rpc, for,
                  tries, next, dirty, pollGot>>
  BY DEF pollVars
<1>0. /\ Poll!TypeOK /\ ChainOK /\ RoomOK /\ DirtyOK /\ OrderOK /\ ReaderOK /\ DataOK /\ SignalOK
  BY DEF PollInv
<1>1. Poll!TypeOK'
  BY <1>0, <1>u DEF Poll!TypeOK
<1>2. ChainOK' /\ RoomOK' /\ DirtyOK' /\ OrderOK' /\ DataOK'
  BY <1>0, <1>u DEF ChainOK, RoomOK, DirtyOK, OrderOK, DataOK
<1>3. (Poll!Odd' <=> Poll!Odd) /\ (HasUnread' <=> HasUnread)
  BY <1>u DEF Poll!Odd, HasUnread
<1>4. ReaderOK'
  BY <1>0, <1>3, <1>u DEF ReaderOK
<1>5. SignalOK'
  <2>1. /\ Told' <=> Told
        /\ Poll!FdReady' <=> Poll!FdReady
        /\ Looks' <=> Looks
        /\ Misses' <=> Misses
        /\ Flushes' <=> Flushes
    BY <1>3, <1>u DEF Told, Poll!FdReady, Looks, Misses, Flushes
  <2>2. StatesOK' /\ PublishedOK'
    BY <1>0, <1>3, <1>u DEF SignalOK, StatesOK, PublishedOK
  <2> QED BY <1>0, <1>3, <2>1, <2>2 DEF SignalOK, ToldOK, TellsOK
<1> QED BY <1>1, <1>2, <1>4, <1>5 DEF PollInv

(* Of a chain without values nothing is unread.                             *)
LEMMA NothingThere == ASSUME PollOK, PollInv, ~HasUnread PROVE Poll!NothingUnread
<1>0. Poll!TypeOK /\ ChainOK
  BY DEF PollInv
<1>t. PollTyped
  BY <1>0, PollTypes
<1> USE DEF PollTyped
<1> SUFFICES ASSUME NEW k \in 1 .. Len(blocks) PROVE Poll!UnreadOf(k) = <<>>
  BY DEF Poll!NothingUnread
<1>1. Poll!From(k) \in Poll!Positions
  BY <1>t DEF Poll!From
<1>2. Poll!From(k) = blocks[k].w
  <2>1. CASE k = 1
    BY <2>1 DEF Poll!From, HasUnread
  <2>2. CASE k # 1
    <3>1. k > 1 /\ Len(blocks) > 1
      BY <2>2, <1>t
    <3>2. blocks[2].w = 0
      BY <3>1 DEF HasUnread
    <3>3. k = 2
      <4> SUFFICES ASSUME k # 2 PROVE FALSE
        OBVIOUS
      <4>1. 2 \in 2 .. (Len(blocks) - 1)
        BY <3>1, <1>t
      <4> QED BY <4>1, <3>2, <1>0 DEF ChainOK
    <3> QED BY <3>2, <3>3 DEF Poll!From
  <2> QED BY <2>1, <2>2
<1>3. Poll!Dist(Poll!From(k), blocks[k].w) = 0
  BY <1>1, <1>2, DistOrders
<1> QED BY <1>3 DEF Poll!UnreadOf

(* A reader of PollQueue that was told to wait while there are values has   *)
(* its signal, when the writer flushes only what it has put.                *)
THEOREM PollHoldsCorrect == ASSUME PollOK, ~IdleFlush PROVE MCSpec => []PollHolds
<1>1. MCInit => (part = "Poll" => PollInv)
  BY PollStarts DEF MCInit
<1>2. (part = "Poll" => PollInv) /\ [MCNext]_mc_vars => (part = "Poll" => PollInv)'
  <2> SUFFICES ASSUME part = "Poll" => PollInv, [MCNext]_mc_vars, part' = "Poll" PROVE PollInv'
    OBVIOUS
  <2>1. CASE MCNext
    <3>1. part = "Poll"
      BY <2>1 DEF MCNext
    <3>2. Poll!Next
      BY <2>1, <3>1 DEF MCNext
    <3> QED BY <3>1, <3>2, PollSteps
  <2>2. CASE UNCHANGED mc_vars
    <3>1. part = "Poll" /\ UNCHANGED pollVars
      BY <2>2 DEF mc_vars
    <3> QED BY <3>1, PollStays
  <2> QED BY <2>1, <2>2
<1>3. (part = "Poll" => PollInv) => PollHolds
  <2> SUFFICES ASSUME PollInv PROVE Poll!TypeOK /\ Poll!WaitsForASignal
    BY DEF PollHolds
  <2>1. Poll!TypeOK /\ SignalOK
    BY DEF PollInv
  <2>2. rpc = "wait" /\ wpc = "put" /\ ~dirty /\ HasUnread => Poll!FdReady
    BY <2>1 DEF SignalOK, TellsOK, Misses, Flushes
  <2> QED BY <2>1, <2>2, NothingThere DEF Poll!WaitsForASignal
<1> QED BY <1>1, <1>2, <1>3, PTL DEF MCSpec
=============================================================================
