------------------------------ MODULE MCQueues ------------------------------
(***************************************************************************)
(* The queues between threads: MpscPollableQueue (the module this one      *)
(* extends), PollQueue, and MpmcQueue (three threads over few addresses,   *)
(* and two that help each other).  They do not interact, so a behaviour is *)
(* of one of them, named by part.  PollQueue has variables of its own; the *)
(* others take turns in using v1, v2, ...                                  *)
(***************************************************************************)
EXTENDS MpscPollableQueue, TLC

CONSTANTS
  Parts,       \* the components that run
  PollPuts,    \* values the writer of PollQueue puts
  PollSize, PollModulus, PollTries,   \* buffer_size(), 2^32, and the calls of a reader_wait
  IdleFlush,   \* whether it flushes when it has put nothing new
  MpmcNodes, MpmcPushes, MpmcPops   \* addresses, pushes and pops of the three threads of MpmcQueue

VARIABLES part,   \* the component that this behaviour is of
          pollFd, blocks, wPos, wSeen, rPos, rSeen, waitState, wWait, oldWait, wpc, rpc, for,
          tries, next, dirty, pollGot,   \* the variables of PollQueue
          v1, v2, v3, v4, v5, v6, v7, v8, v9, v10, v11, v12, v13, v14, v15, v16, v17   \* those of the others
pollVars == <<pollFd, blocks, wPos, wSeen, rPos, rSeen, waitState, wWait, oldWait, wpc, rpc, for,
              tries, next, dirty, pollGot>>
shared == <<v1, v2, v3, v4, v5, v6, v7, v8, v9, v10, v11, v12, v13, v14, v15, v16, v17>>
mc_vars == <<part, vars, pollVars, shared>>

\* thread 0 writes and 1 and 2 read; thread 0 reads and 1 and 2 write
OneWriter == (0 :> 2) @@ (1 :> 0) @@ (2 :> 0)
TwoReaders == (0 :> 0) @@ (1 :> 1) @@ (2 :> 1)
TwoWriters == (0 :> 0) @@ (1 :> 1) @@ (2 :> 1)
OneReader == (0 :> 1) @@ (1 :> 0) @@ (2 :> 0)
\* both write, and then 1 reads
BothPush == (0 :> 2) @@ (1 :> 1)
ReadAll == (0 :> 0) @@ (1 :> 3)
TheThread == <<Reader, "w1", "w2">>

Poll == INSTANCE PollQueue WITH
  Puts <- PollPuts, Size <- PollSize, Modulus <- PollModulus, Tries <- PollTries, fd <- pollFd,
  got <- pollGot
Mpmc == INSTANCE MpmcQueue WITH
  ThreadsN <- 3, Nodes <- MpmcNodes, NoNode <- 0, Reserved <- 9, Size <- 1, Pushes <- MpmcPushes,
  Pops <- MpmcPops, MaxReads <- 0, heap <- v1, hazard <- v2, toDelete <- v3, todo <- v4, cand <- v5,
  idx <- v6, saved <- v7, loaded <- v8, node <- v9, writePos <- v10, readPos <- v11, pc <- v12,
  pos <- v13, other <- v14, pushed <- v15, popped <- v16, missed <- v17
Helping == INSTANCE MpmcQueue WITH
  ThreadsN <- 2, Nodes <- 1 .. 4, NoNode <- 0, Reserved <- 9, Size <- 1, Pushes <- BothPush,
  Pops <- ReadAll, MaxReads <- 0, heap <- v1, hazard <- v2, toDelete <- v3, todo <- v4, cand <- v5,
  idx <- v6, saved <- v7, loaded <- v8, node <- v9, writePos <- v10, readPos <- v11, pc <- v12,
  pos <- v13, other <- v14, pushed <- v15, popped <- v16, missed <- v17
Old == INSTANCE MpmcQueue WITH
  ThreadsN <- 3, Nodes <- 1 .. 2, NoNode <- 0, Reserved <- 9, Size <- 1, Pushes <- OneWriter,
  Pops <- TwoReaders, MaxReads <- 2, heap <- v1, hazard <- v2, toDelete <- v3, todo <- v4,
  cand <- v5, idx <- v6, saved <- v7, loaded <- v8, node <- v9, writePos <- v10, readPos <- v11,
  pc <- v12, pos <- v13, other <- v14, pushed <- v15, popped <- v16, missed <- v17
OldBoth == INSTANCE MpmcQueue WITH
  ThreadsN <- 2, Nodes <- 1 .. 3, NoNode <- 0, Reserved <- 9, Size <- 1, Pushes <- BothPush,
  Pops <- ReadAll, MaxReads <- 2, heap <- v1, hazard <- v2, toDelete <- v3, todo <- v4, cand <- v5,
  idx <- v6, saved <- v7, loaded <- v8, node <- v9, writePos <- v10, readPos <- v11, pc <- v12,
  pos <- v13, other <- v14, pushed <- v15, popped <- v16, missed <- v17

MCInit ==
  /\ part \in Parts /\ Init /\ Poll!Init
  /\ \/ part \in {"Mpsc", "Poll"}
        /\ v1 = 0 /\ v2 = 0 /\ v3 = 0 /\ v4 = 0 /\ v5 = 0 /\ v6 = 0 /\ v7 = 0 /\ v8 = 0 /\ v9 = 0
        /\ v10 = 0 /\ v11 = 0 /\ v12 = 0 /\ v13 = 0 /\ v14 = 0 /\ v15 = 0 /\ v16 = 0 /\ v17 = 0
     \* addresses and threads that differ in nothing are taken in order
     \/ part = "Mpmc" /\ Mpmc!Init /\ v10 = 1
     \/ part = "Helping" /\ Helping!Init /\ v10 = 1
     \/ part = "Old" /\ Old!Init /\ v10 = 1
     \/ part = "OldBoth" /\ OldBoth!Init /\ v10 = 1
MCNext ==
  /\ UNCHANGED part
  /\ \/ part = "Mpsc" /\ Next /\ UNCHANGED <<pollVars, shared>>
     \/ part = "Poll" /\ Poll!Next /\ UNCHANGED <<vars, shared>>
     \/ part = "Mpmc" /\ Mpmc!Next /\ (3 \in v1' \ v1 => 2 \in v1) /\ UNCHANGED <<vars, pollVars>>
     \/ part = "Helping" /\ Helping!Next /\ UNCHANGED <<vars, pollVars>>
     \/ part = "Old" /\ Old!OldNext /\ UNCHANGED <<vars, pollVars>>
     \/ part = "OldBoth" /\ OldBoth!OldNext /\ UNCHANGED <<vars, pollVars>>
MCSpec == MCInit /\ [][MCNext]_mc_vars
\* a step of the thread with number i
Runs(i) ==
  \/ part = "Mpsc" /\ Step(TheThread[i]) /\ UNCHANGED <<part, pollVars, shared>>
  \/ part = "Poll" /\ i = 1 /\ Poll!ReaderStep /\ UNCHANGED <<part, vars, shared>>
  \/ part = "Poll" /\ i = 2 /\ Poll!WriterStep /\ UNCHANGED <<part, vars, shared>>
  \/ part = "Helping" /\ i \in {1, 2} /\ Helping!Step(i - 1) /\ UNCHANGED <<part, vars, pollVars>>
Locks(i) == part = "Mpsc" /\ TakesLock(TheThread[i]) /\ UNCHANGED <<part, pollVars, shared>>
\* the fairness of MpscPollableQueue, PollQueue and MpmcQueue
MCFairSpec == MCSpec /\ \A i \in 1 .. 3 : WF_mc_vars(Runs(i)) /\ SF_mc_vars(Locks(i))

(* A reader that was told to wait while there are values has its signal,   *)
(* in the chain of rings as well; what it reads is what was written        *)
(* (PollQueue).                                                            *)
PollHolds == part = "Poll" => Poll!TypeOK /\ Poll!WaitsForASignal

(* No deleted block is touched, no value is lost or doubled, and try_pop() *)
(* returns false only if no value was there during all of its call         *)
(* (MpmcQueue and MpmcQueueOld over HazardPointers).                       *)
MpmcHolds ==
  /\ part = "Mpmc" => Mpmc!TypeOK /\ Mpmc!NoUseAfterFree /\ Mpmc!Conserved /\ Mpmc!EmptyIsHonest
  /\ part = "Helping" => Helping!Conserved
  /\ part = "Old" => Old!OldUseAfterFree /\ Old!Conserved /\ Old!EmptyIsHonest
  /\ part = "OldBoth" => OldBoth!OldUseAfterFree /\ OldBoth!Conserved /\ OldBoth!EmptyIsHonest

(* PollQueue implements the channel too: a step puts values, takes the     *)
(* oldest or leaves it alone.  What is put in either is taken without the  *)
(* help of the timeout, and every push and pop of MpmcQueue ends.          *)
QueuesMove ==
  /\ [][part = "Poll" => Poll!Channel!Next \/ UNCHANGED Poll!Channel!vars]_mc_vars
  /\ <> /\ part = "Mpsc" => AllGot
        /\ part = "Poll" => Poll!AllGot
        /\ part = "Helping" => Helping!AllDone

(* "if 0 is returned than it is useless to rerun it before fd is ready to  *)
(* read" (PollQueue), when the writer flushes again without a new value.   *)
PollWaitsForASignal == part = "Poll" => Poll!WaitsForASignal

(* The values of the test of MpmcQueue, when two threads write.            *)
MpmcConserved == part = "Mpmc" => Mpmc!Conserved
============================================================================
