--------------------------- MODULE MpmcEagerWaiter ---------------------------
(***************************************************************************)
(* td::MpmcEagerWaiter (td/utils/MpmcWaiter.h) under WaiterClient.         *)
(*                                                                         *)
(* state_ is an atomic integer of two parts, the bit "asleep" and the id   *)
(* of the worker that is about to sleep; it is a record here.  Accesses    *)
(* are sequentially consistent; condition_variable_ may wake a thread      *)
(* spuriously.                                                             *)
(***************************************************************************)
EXTENDS WaiterClient

CONSTANTS
  RoundsTillSleepy,  (* less than                                            *)
  RoundsTillAsleep

Nobody == "nobody"

VARIABLES
  state,     (* state_: [worker, asleep]                                     *)
  seen,      (* a worker's copy of it, the local variable of wait()          *)
  yields,    (* Slot::yields                                                 *)
  mutex      (* who holds mutex_                                             *)

waiterVars == <<state, seen, yields, mutex>>
vars == <<waiterVars, pc, clientVars>>

Awake == [worker |-> Nobody, asleep |-> FALSE]
Asleep == [worker |-> Nobody, asleep |-> TRUE]

Init ==
  /\ ClientInit
  /\ state = Awake
  /\ seen = [w \in Workers |-> Awake]
  /\ yields = [w \in Workers |-> 0]
  /\ mutex = Nobody

SetYields(w, n) == yields' = [yields EXCEPT ![w] = n]
Load(w) == seen' = [seen EXCEPT ![w] = state]
Forget(w) == seen' = [seen EXCEPT ![w] = Awake]   (* wait() returns *)
HasWorker(s) == s.worker # Nobody
StillSleepy(s, w) == s.worker = w

----------------------------------------------------------------------------
(* The first rounds of wait() only yield.                                   *)
WaitSpin(w) ==
  /\ pc[w] = "wait"
  /\ yields[w] < RoundsTillSleepy
  /\ SetYields(w, yields[w] + 1)
  /\ Goto(w, "look")
  /\ UNCHANGED <<state, seen, mutex, clientVars>>

(* The round that tries to become the sleepy worker, if there is none.      *)
WaitLoad(w) ==
  /\ pc[w] = "wait"
  /\ yields[w] = RoundsTillSleepy
  /\ IF HasWorker(state)
       THEN UNCHANGED seen /\ SetYields(w, 0) /\ Goto(w, "look")
       ELSE Load(w) /\ UNCHANGED yields /\ Goto(w, "claim")
  /\ UNCHANGED <<state, mutex, clientVars>>

(* compare_exchange with with_worker(): the asleep bit stays.               *)
Claim(w) ==
  /\ pc[w] = "claim"
  /\ IF state = seen[w]
       THEN state' = [state EXCEPT !.worker = w] /\ SetYields(w, yields[w] + 1)
       ELSE UNCHANGED state /\ SetYields(w, 0)
  /\ Goto(w, "look")
  /\ Forget(w)
  /\ UNCHANGED <<mutex, clientVars>>

(* The sleepy worker searches for some more rounds unless it was notified.  *)
WaitSleepy(w) ==
  /\ pc[w] = "wait"
  /\ RoundsTillSleepy < yields[w] /\ yields[w] < RoundsTillAsleep
  /\ SetYields(w, IF StillSleepy(state, w) THEN yields[w] + 1 ELSE 0)
  /\ Goto(w, "look")
  /\ UNCHANGED <<state, seen, mutex, clientVars>>

(* The last round: if it was not notified, it goes to sleep.                *)
WaitAsleep(w) ==
  /\ pc[w] = "wait"
  /\ yields[w] >= RoundsTillAsleep
  /\ IF StillSleepy(state, w)
       THEN Load(w) /\ UNCHANGED yields /\ Goto(w, "lock")
       ELSE UNCHANGED seen /\ SetYields(w, 0) /\ Goto(w, "look")
  /\ UNCHANGED <<state, mutex, clientVars>>

SleepLock(w) ==
  /\ pc[w] = "lock"
  /\ mutex = Nobody
  /\ mutex' = w
  /\ Goto(w, "cas")
  /\ UNCHANGED <<state, seen, yields, clientVars>>

(* compare_exchange to asleep(), under the lock; notified, it returns.      *)
SleepCas(w) ==
  /\ pc[w] = "cas"
  /\ IF state = seen[w]
       THEN state' = Asleep /\ Goto(w, "enter") /\ UNCHANGED <<yields, mutex>>
       ELSE UNCHANGED state /\ Goto(w, "look") /\ SetYields(w, 0) /\ mutex' = Nobody
  /\ Forget(w)
  /\ UNCHANGED clientVars

(* condition_variable_.wait releases the lock and blocks.                   *)
CvWait(w) ==
  /\ pc[w] = "enter"
  /\ mutex' = Nobody
  /\ Goto(w, "blocked")
  /\ UNCHANGED <<state, seen, yields, clientVars>>

(* It returns, whether notified or spuriously, after it has the lock again. *)
CvSpurious(w) ==
  /\ pc[w] = "blocked"
  /\ Goto(w, "relock")
  /\ UNCHANGED <<waiterVars, clientVars>>

CvReturn(w) ==
  /\ pc[w] = "relock"
  /\ mutex = Nobody
  /\ SetYields(w, 0)
  /\ Goto(w, "look")
  /\ UNCHANGED <<state, seen, mutex, clientVars>>

(* stop_wait(): the sleepy worker wakes the others.                         *)
StopWait(w) ==
  /\ pc[w] = "stop"
  /\ SetYields(w, 0)
  /\ Goto(w, IF yields[w] > RoundsTillSleepy THEN "exchange" ELSE AfterStop(w))
  /\ UNCHANGED <<state, seen, mutex, clientVars>>

----------------------------------------------------------------------------
(* notify() returns at once when nobody is sleepy or asleep.                *)
NotifyLoad(p) ==
  /\ pc[p] = "notify"
  /\ Goto(p, IF state = Awake THEN AfterNotify(p) ELSE "exchange")
  /\ UNCHANGED <<waiterVars, clientVars>>

(* notify_cold(): the exchange tells it whether somebody is asleep.         *)
NotifyExchange(p) ==
  /\ pc[p] = "exchange"
  /\ state' = Awake
  /\ Goto(p, IF state.asleep THEN "guard" ELSE AfterNotify(p))
  /\ UNCHANGED <<seen, yields, mutex, clientVars>>

(* Mutant: notify_one instead of notify_all.                                *)
NotifyOne(p) ==
  /\ pc[p] = "guard"
  /\ mutex = Nobody
  /\ \/ \E w \in Workers :
          pc[w] = "blocked" /\ pc' = [pc EXCEPT ![p] = AfterNotify(p), ![w] = "relock"]
     \/ (\A w \in Workers : pc[w] # "blocked") /\ Goto(p, AfterNotify(p))
  /\ UNCHANGED <<waiterVars, clientVars>>

(* Under the lock: notify_all.                                              *)
NotifyAll(p) ==
  /\ pc[p] = "guard"
  /\ mutex = Nobody
  /\ pc' = [q \in Procs |-> IF q = p THEN AfterNotify(p)
                            ELSE IF pc[q] = "blocked" THEN "relock" ELSE pc[q]]
  /\ UNCHANGED <<waiterVars, clientVars>>

----------------------------------------------------------------------------
Wait(w) ==
  \/ WaitSpin(w) \/ WaitLoad(w) \/ Claim(w) \/ WaitSleepy(w) \/ WaitAsleep(w)
  \/ SleepLock(w) \/ SleepCas(w) \/ CvWait(w) \/ CvReturn(w) \/ StopWait(w)
Notify(p) == NotifyLoad(p) \/ NotifyExchange(p) \/ NotifyAll(p)
ClientCalls(p) == ClientStep(p) /\ UNCHANGED waiterVars
Step(p) == ClientCalls(p) \/ Notify(p) \/ (p \in Workers /\ Wait(p))

Finished == AllDone /\ UNCHANGED vars

Next ==
  \/ \E p \in Procs : ClientCalls(p)
  \/ \E p \in Procs : Notify(p)
  \/ \E w \in Workers : Wait(w)
  \/ \E w \in Workers : CvSpurious(w)
  \/ Finished

Spec == Init /\ [][Next]_vars

----------------------------------------------------------------------------
NotifyPcs == {"notify", "exchange", "guard"}

TypeOK ==
  /\ state \in [worker : Workers \cup {Nobody}, asleep : BOOLEAN]
  /\ seen \in [Workers -> [worker : Workers \cup {Nobody}, asleep : BOOLEAN]]
  /\ yields \in [Workers -> 0 .. RoundsTillAsleep]
  /\ mutex \in Workers \cup {Nobody}
  /\ \A w \in Workers :
       pc[w] \in {"look", "compare", "take", "wait", "claim", "lock", "cas", "enter", "blocked",
                  "relock", "stop", "done"} \cup NotifyPcs
  /\ \A p \in Writers : pc[p] \in NotifyPcs \cup {"publish", "done"}
  /\ ClientTypeOK

(* Nobody sleeps unseen: while a thread is blocked or about to be, state_   *)
(* says so, or a notifier that saw it is on its way to notify_all.          *)
SleeperIsSeen ==
  (\E w \in Workers : pc[w] \in {"enter", "blocked"})
    => state.asleep \/ \E p \in Procs : pc[p] = "guard"

(* Nobody sleeps on published work: between a worker's last search and its  *)
(* wait no wake-up is lost, whoever else notifies, claims or wakes up.      *)
NoLostWakeup ==
  WorkPending(NotifyPcs) /\ (\A w \in Workers : pc[w] # "guard")
    => \A w \in Workers : pc[w] \notin {"enter", "blocked"}

----------------------------------------------------------------------------
(* The inductive invariant.                                                 *)

WorkerPcs == {"look", "compare", "take", "wait", "claim", "lock", "cas", "enter", "blocked",
              "relock", "stop"}

Types ==
  /\ state \in [worker : Workers \cup {Nobody}, asleep : BOOLEAN]
  /\ seen \in [Workers -> [worker : Workers \cup {Nobody}, asleep : BOOLEAN]]
  /\ yields \in [Workers -> 0 .. RoundsTillAsleep]
  /\ mutex \in Workers \cup {Nobody}
  /\ pc \in [Procs -> WorkerPcs \cup NotifyPcs \cup {"publish", "done"}]
  /\ readPos \in Nat /\ writePos \in Nat /\ x \in [Workers -> Nat]

(* The mutex is held around the last compare_exchange and until the wait,   *)
(* which a worker only comes to when it has read its own claim.             *)
PlaceOK ==
  \A w \in Workers :
    /\ pc[w] \in {"cas", "enter"} <=> mutex = w
    /\ pc[w] = "claim" => yields[w] = RoundsTillSleepy
    /\ pc[w] \in {"lock", "cas"} => seen[w].worker = w
    /\ pc[w] # "publish"
    /\ x[w] <= readPos

(* Work that is left and no writer is about to tell of.                     *)
Untold ==
  /\ readPos < writePos
  /\ readPos < EndPos
  /\ \A p \in Writers : pc[p] \notin {"notify", "exchange"}

(* Then nobody is said to be asleep, and the worker with the claim has not  *)
(* looked in vain since it made the claim.                                  *)
WorkOK ==
  Untold =>
    /\ ~state.asleep
    /\ \A w \in Workers : state.worker = w => pc[w] \notin {"wait", "lock", "cas"}

IInv == Types /\ PlaceOK /\ SleeperIsSeen /\ WorkOK
=============================================================================
