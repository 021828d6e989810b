------------------------------- MODULE MCSync -------------------------------
(***************************************************************************)
(* How threads wait for work, share it, and when memory may be freed: the  *)
(* two waiters of MpmcWaiter.h under the same client (the sleepy one       *)
(* twice: with few units of work, and as Chain with many), StealingQueue   *)
(* (as Overflow two threads and a queue that overflows, as Thieves threads *)
(* that also steal from each other), and epoch-based reclamation (the      *)
(* module this one extends).  They do not interact, so a behaviour is of   *)
(* one of them, named by part, and the waiters take turns in using the     *)
(* variables of their client, state and mutex.                             *)
(***************************************************************************)
EXTENDS EpochReclamation, TLC

CONSTANTS
  Workers, Writers, WriteCnt, EndPos,                        \* of the sleepy waiter
  EagerWorkers, EagerWriters, EagerWriteCnt, EagerEndPos,    \* of the eager one
  RoundsTillSleepy, RoundsTillAsleep,
  StealThreads, StealSize,      \* the threads of StealingQueue and the capacity of a queue
  StealItems, StealRoots, StealChildren, NoItem   \* what they get, and what comes of it

VARIABLES part,                                 \* the component that this behaviour is of
          wpc, writePos, readPos, pos, cnt,     \* the client of a waiter
          state, mutex,                         \* of both waiters
          sleepers, slot, flag, target,         \* of the sleepy one
          seen, yields,                         \* of the eager one
          sHead, sTail, sBuf, sGq, sPc, sItem, sTodo, sH, sVictim, sOh, sN, sI, sGot   \* StealingQueue
sleepyVars == <<sleepers, slot, flag, target>>
eagerVars == <<seen, yields>>
waitVars == <<wpc, writePos, readPos, pos, cnt, state, mutex>>
stealVars == <<sHead, sTail, sBuf, sGq, sPc, sItem, sTodo, sH, sVictim, sOh, sN, sI, sGot>>
mc_vars == <<part, vars, waitVars, sleepyVars, eagerVars, stealVars>>

TwoAndOne == (0 :> 2) @@ (1 :> 1)
\* the first of n items is split in the others
Split(n) == [x \in 1 .. n |-> IF x = 1 THEN [k \in 1 .. (n - 1) |-> k + 1] ELSE <<>>]
SplitInFour == Split(4)
Thread == <<"w1", "w2", "w3", "p1">>

Sleepy == INSTANCE MpmcSleepyWaiter WITH pc <- wpc, x <- pos
Chain == INSTANCE MpmcSleepyWaiter WITH
  Workers <- {"w1", "w2"}, Writers <- {"p1"}, WriteCnt <- 3, EndPos <- 3, pc <- wpc, x <- pos
Eager == INSTANCE MpmcEagerWaiter WITH
  Workers <- EagerWorkers, Writers <- EagerWriters, WriteCnt <- EagerWriteCnt,
  EndPos <- EagerEndPos, pc <- wpc, x <- pos
Overflow == INSTANCE StealingQueue WITH
  Threads <- {1, 2}, N <- 4, Items <- 1 .. 6, Roots <- {1}, Children <- Split(6), Nothing <- 0,
  head <- sHead, tail <- sTail, buf <- sBuf, gq <- sGq, pc <- sPc, item <- sItem, todo <- sTodo,
  h <- sH, victim <- sVictim, oh <- sOh, n <- sN, i <- sI, got <- sGot
Thieves == INSTANCE StealingQueue WITH
  Threads <- StealThreads, N <- StealSize, Items <- StealItems, Roots <- StealRoots,
  Children <- StealChildren, Nothing <- NoItem,
  head <- sHead, tail <- sTail, buf <- sBuf, gq <- sGq, pc <- sPc, item <- sItem, todo <- sTodo,
  h <- sH, victim <- sVictim, oh <- sOh, n <- sN, i <- sI, got <- sGot
\* threads that differ in nothing: the first takes the root
FirstTakes ==
  LET first == CHOOSE t \in StealThreads : TRUE
  IN  \A x \in StealRoots : sGot'[x] > sGot[x] => sPc[first] # "work" /\ sPc'[first] = "work"

NoSteal ==
  /\ sHead = 0 /\ sTail = 0 /\ sBuf = 0 /\ sGq = 0 /\ sPc = 0 /\ sItem = 0 /\ sTodo = 0 /\ sH = 0
  /\ sVictim = 0 /\ sOh = 0 /\ sN = 0 /\ sI = 0 /\ sGot = 0
NoWait ==
  /\ wpc = 0 /\ writePos = 0 /\ readPos = 0 /\ pos = 0 /\ cnt = 0 /\ state = 0 /\ mutex = 0
  /\ sleepers = 0 /\ slot = 0 /\ flag = 0 /\ target = 0 /\ seen = 0 /\ yields = 0
MCInit ==
  /\ Init
  /\ \/ part = "Epoch" /\ NoWait /\ NoSteal
     \/ part = "Sleepy" /\ Sleepy!Init /\ seen = 0 /\ yields = 0 /\ NoSteal
     \/ part = "Chain" /\ Chain!Init /\ seen = 0 /\ yields = 0 /\ NoSteal
     \/ part = "Eager" /\ Eager!Init /\ sleepers = 0 /\ slot = 0 /\ flag = 0 /\ target = 0 /\ NoSteal
     \/ part = "Overflow" /\ Overflow!Init /\ NoWait
     \/ part = "Thieves" /\ Thieves!Init /\ NoWait
MCNext ==
  /\ UNCHANGED part
  /\ \/ part = "Epoch" /\ Next /\ UNCHANGED <<waitVars, sleepyVars, eagerVars, stealVars>>
     \/ part = "Sleepy" /\ Sleepy!Next /\ UNCHANGED <<eagerVars, stealVars>> /\ UNCHANGED vars
     \/ part = "Chain" /\ Chain!Next /\ UNCHANGED <<eagerVars, stealVars>> /\ UNCHANGED vars
     \/ part = "Eager" /\ Eager!Next /\ UNCHANGED <<sleepyVars, stealVars>> /\ UNCHANGED vars
     \/ part = "Overflow" /\ Overflow!Next /\ UNCHANGED <<vars, waitVars, sleepyVars, eagerVars>>
     \/ part = "Thieves" /\ Thieves!Next /\ FirstTakes /\ UNCHANGED <<vars, waitVars, sleepyVars, eagerVars>>
MCSpec == MCInit /\ [][MCNext]_mc_vars
\* a step of the thread with number i
Runs(i) ==
  /\ UNCHANGED <<part, eagerVars, vars>>
  /\ \/ part = "Sleepy" /\ i \in 1 .. 4 /\ Sleepy!Step(Thread[i]) /\ UNCHANGED stealVars
     \/ part = "Chain" /\ i \in {1, 2, 4} /\ Chain!Step(Thread[i]) /\ UNCHANGED stealVars
     \/ part = "Overflow" /\ i \in {1, 2} /\ Overflow!Step(i) /\ UNCHANGED <<waitVars, sleepyVars>>
\* the fairness of EpochReclamation, MpmcSleepyWaiter and StealingQueue, each while it is the part that runs
MCFairSpec ==
  /\ MCSpec
  /\ \A t \in Threads : WF_vars(part = "Epoch" /\ Step(t))
  /\ \A i \in 1 .. 4 : WF_mc_vars(Runs(i))

(* No wake-up is lost: published work always has a worker that is awake or *)
(* about to be, in both waiters; the counters packed in state_, the list   *)
(* of sleepers and the flags of the slots agree, with the CHECKs of the    *)
(* sleepy waiter at their places.                                          *)
WaitersHold ==
  /\ part = "Sleepy" => /\ Sleepy!TypeOK
                        /\ Sleepy!StateCounts
                        /\ Sleepy!SlotChecks
                        /\ Sleepy!MainInvariant
                        /\ Sleepy!CloseChecks
  /\ part = "Eager" => Eager!TypeOK /\ Eager!SleeperIsSeen /\ Eager!NoLostWakeup

(* In every state the stealing queues fit in their rings, and an item is   *)
(* in one place or has been got, once: nothing that is pushed, popped,     *)
(* stolen and thrown over at the same time is lost or handed out twice.    *)
StealingHolds == part = "Thieves" => Thieves!StealingHolds

(* The same with many units of work for few workers.  Every retire_sync()  *)
(* comes to its end (EpochReclamation), and all work is taken and every    *)
(* worker leaves, woken by a notify() of the writer or by the stop_wait()  *)
(* of another worker (MpmcSleepyWaiter).  No item of StealingQueue is lost *)
(* with overflows either, and each is got, and every thread leaves.        *)
SyncFinishes ==
  /\ [](part = "Chain" => /\ Chain!TypeOK
                          /\ Chain!StateCounts
                          /\ Chain!SlotChecks
                          /\ Chain!MainInvariant
                          /\ Chain!CloseChecks)
  /\ [](part = "Overflow" => Overflow!StealingHolds)
  /\ <> /\ part = "Epoch" => \A t \in Threads : pc[t] = "done"
        /\ part = "Sleepy" => readPos = EndPos /\ Sleepy!AllDone
        /\ part = "Chain" => readPos = 3 /\ Chain!AllDone
        /\ part = "Overflow" => Overflow!AllGot /\ \A t \in {1, 2} : sPc[t] = "done"
============================================================================
