-------------------------- MODULE MpmcSleepyWaiter --------------------------
(***************************************************************************)
(* td::MpmcSleepyWaiter (td/utils/MpmcWaiter.h) under WaiterClient.        *)
(*                                                                         *)
(* state_ packs two counters in one atomic integer; it is a record here    *)
(* and every read-modify-write of it is one step.  sleepers_ is only used  *)
(* under sleepers_mutex_: a critical section with a single access to       *)
(* state_ is one step, taken when the mutex is free; notify(), which loads *)
(* state_, subtracts from it and unparks, holds it over several.           *)
(***************************************************************************)
EXTENDS WaiterClient, SequencesExt

Nobody == "nobody"

VARIABLES
  state,     (* state_: [parked, searching]                                  *)
  mutex,     (* who holds sleepers_mutex_                                    *)
  sleepers,  (* sleepers_                                                    *)
  slot,      (* Slot::state_                                                 *)
  flag,      (* Slot::unpark_flag_                                           *)
  target     (* the sleeper notify() has taken from sleepers_                *)

waiterVars == <<state, mutex, sleepers, slot, flag, target>>
vars == <<waiterVars, pc, clientVars>>

Init ==
  /\ ClientInit
  /\ state = [parked |-> 0, searching |-> 0]
  /\ mutex = Nobody
  /\ sleepers = <<>>
  /\ slot = [w \in Workers |-> "Work"]
  /\ flag = [w \in Workers |-> FALSE]
  /\ target = [p \in Procs |-> Nobody]

SetSlot(w, s) == slot' = [slot EXCEPT ![w] = s]
AddState(dParked, dSearching) ==
  state' = [parked |-> state.parked + dParked, searching |-> state.searching + dSearching]

(* notify() returns; called by stop_wait(), the worker ends in state Work.  *)
ReturnFromNotify(p) ==
  /\ Goto(p, AfterNotify(p))
  /\ slot' = [w \in Workers |-> IF w = p THEN "Work" ELSE slot[w]]

----------------------------------------------------------------------------
(* wait() in state Work: start to search.                                   *)
WaitFromWork(w) ==
  /\ pc[w] = "wait"
  /\ slot[w] = "Work"
  /\ AddState(0, 1)
  /\ SetSlot(w, "Search")
  /\ Goto(w, "look")
  /\ UNCHANGED <<mutex, sleepers, flag, target, clientVars>>

(* wait() in state Search: the slot is Sleep before the lock is taken.      *)
WaitFromSearch(w) ==
  /\ pc[w] = "wait"
  /\ slot[w] = "Search"
  /\ SetSlot(w, "Sleep")
  /\ Goto(w, "enlist")
  /\ UNCHANGED <<state, mutex, sleepers, flag, target, clientVars>>

(* Under the mutex: searching becomes parked, the slot joins sleepers_.  The *)
(* last worker to search returns, to search once more before it parks.      *)
Enlist(w) ==
  /\ pc[w] = "enlist"
  /\ mutex = Nobody
  /\ AddState(1, -1)
  /\ sleepers' = Append(sleepers, w)
  /\ Goto(w, IF state.searching = 1 THEN "look" ELSE "park")
  /\ UNCHANGED <<mutex, slot, flag, target, clientVars>>

(* wait() in state Sleep, after that last search.                           *)
WaitFromSleep(w) ==
  /\ pc[w] = "wait"
  /\ slot[w] = "Sleep"
  /\ Goto(w, "park")
  /\ UNCHANGED <<waiterVars, clientVars>>

(* park() returns when unpark_flag_ is set, and resets it.                  *)
Park(w) ==
  /\ pc[w] = "park"
  /\ flag[w]
  /\ flag' = [flag EXCEPT ![w] = FALSE]
  /\ SetSlot(w, "Search")
  /\ Goto(w, "look")
  /\ UNCHANGED <<state, mutex, sleepers, target, clientVars>>

(* stop_wait() in state Work.                                               *)
StopFromWork(w) ==
  /\ pc[w] = "stop"
  /\ slot[w] = "Work"
  /\ Goto(w, AfterStop(w))
  /\ UNCHANGED <<waiterVars, clientVars>>

(* stop_wait() in state Search goes on to count itself out.                 *)
StopFromSearch(w) ==
  /\ pc[w] = "stop"
  /\ slot[w] = "Search"
  /\ Goto(w, "leave")
  /\ UNCHANGED <<waiterVars, clientVars>>

(* stop_wait() in state Sleep takes the lock.                               *)
StopFromSleep(w) ==
  /\ pc[w] = "stop"
  /\ slot[w] = "Sleep"
  /\ SetSlot(w, "Work")
  /\ Goto(w, "delist")
  /\ UNCHANGED <<state, mutex, sleepers, flag, target, clientVars>>

(* The worker is in sleepers_: it leaves it and counts as searching again.  *)
Delist(w) ==
  /\ pc[w] = "delist"
  /\ mutex = Nobody
  /\ \E i \in DOMAIN sleepers : sleepers[i] = w /\ sleepers' = RemoveAt(sleepers, i)
  /\ AddState(-1, 1)
  /\ Goto(w, "leave")
  /\ UNCHANGED <<mutex, slot, flag, target, clientVars>>

(* Somebody notified it meanwhile: cancel_park().                           *)
CancelPark(w) ==
  /\ pc[w] = "delist"
  /\ mutex = Nobody
  /\ w \notin Range(sleepers)
  /\ flag' = [flag EXCEPT ![w] = FALSE]
  /\ Goto(w, "leave")
  /\ UNCHANGED <<state, mutex, sleepers, slot, target, clientVars>>

(* Mutant: the last worker that stops searching notifies nobody.            *)
LeaveQuietly(w) ==
  /\ pc[w] = "leave"
  /\ AddState(0, -1)
  /\ SetSlot(w, "Work")
  /\ Goto(w, AfterStop(w))
  /\ UNCHANGED <<mutex, sleepers, flag, target, clientVars>>

(* The rest of stop_wait(): the last worker that searched calls notify().   *)
Leave(w) ==
  /\ pc[w] = "leave"
  /\ AddState(0, -1)
  /\ IF state.searching = 1
       THEN SetSlot(w, "Search") /\ Goto(w, "notify")
       ELSE SetSlot(w, "Work") /\ Goto(w, AfterStop(w))
  /\ UNCHANGED <<mutex, sleepers, flag, target, clientVars>>

----------------------------------------------------------------------------
(* notify(): somebody searches or nobody is parked.                         *)
NotifySkip(p) ==
  /\ pc[p] = "notify"
  /\ state.searching > 0 \/ state.parked = 0
  /\ ReturnFromNotify(p)
  /\ UNCHANGED <<state, mutex, sleepers, flag, target, clientVars>>

(* notify(): otherwise it takes the lock, which may be busy for a while.    *)
NotifySlow(p) ==
  /\ pc[p] = "notify"
  /\ state.searching = 0 /\ state.parked # 0
  /\ Goto(p, "lock")
  /\ UNCHANGED <<waiterVars, clientVars>>

NotifyLock(p) ==
  /\ pc[p] = "lock"
  /\ mutex = Nobody
  /\ mutex' = p
  /\ Goto(p, "locked")
  /\ UNCHANGED <<state, sleepers, slot, flag, target, clientVars>>

(* The second look at state_, under the lock.                               *)
NotifyGiveUp(p) ==
  /\ pc[p] = "locked"
  /\ state.searching > 0 \/ sleepers = <<>>
  /\ mutex' = Nobody
  /\ ReturnFromNotify(p)
  /\ UNCHANGED <<state, sleepers, flag, target, clientVars>>

NotifyChoose(p) ==
  /\ pc[p] = "locked"
  /\ state.searching = 0 /\ sleepers # <<>>
  /\ Goto(p, "pop")
  /\ UNCHANGED <<waiterVars, clientVars>>

(* The last sleeper leaves sleepers_ and counts as searching.               *)
NotifyPop(p) ==
  /\ pc[p] = "pop"
  /\ target' = [target EXCEPT ![p] = Last(sleepers)]
  /\ sleepers' = Front(sleepers)
  /\ AddState(-1, 1)
  /\ Goto(p, "unpark")
  /\ UNCHANGED <<mutex, slot, flag, clientVars>>

(* sleeper->unpark(), then the lock is released.                            *)
Unpark(p) ==
  /\ pc[p] = "unpark"
  /\ flag' = [flag EXCEPT ![target[p]] = TRUE]
  /\ target' = [target EXCEPT ![p] = Nobody]
  /\ mutex' = Nobody
  /\ ReturnFromNotify(p)
  /\ UNCHANGED <<state, sleepers, clientVars>>

Notify(p) ==
  \/ NotifySkip(p) \/ NotifySlow(p) \/ NotifyLock(p) \/ NotifyGiveUp(p)
  \/ NotifyChoose(p) \/ NotifyPop(p) \/ Unpark(p)

----------------------------------------------------------------------------
Worker(w) ==
  \/ WaitFromWork(w) \/ WaitFromSearch(w) \/ WaitFromSleep(w) \/ Enlist(w) \/ Park(w)
  \/ StopFromWork(w) \/ StopFromSearch(w) \/ StopFromSleep(w)
  \/ Delist(w) \/ CancelPark(w) \/ Leave(w)

ClientCalls(p) == ClientStep(p) /\ UNCHANGED waiterVars

(* All threads have returned: the round of the test is over.                *)
Finished == AllDone /\ UNCHANGED vars

Next ==
  \/ \E p \in Procs : ClientCalls(p)
  \/ \E w \in Workers : Worker(w)
  \/ \E p \in Procs : Notify(p)
  \/ Finished

Spec == Init /\ [][Next]_vars

(* What a thread does next: every thread is scheduled again and again, so   *)
(* runs assume weak fairness of Step(p) for each p.                         *)
Step(p) == ClientCalls(p) \/ Notify(p) \/ (p \in Workers /\ Worker(p))

----------------------------------------------------------------------------
NotifyPcs == {"notify", "lock", "locked", "pop", "unpark"}
WorkerPcs == {"look", "compare", "take", "wait", "enlist", "park", "stop", "delist", "leave"}

TypeOK ==
  /\ state \in [parked : 0 .. Cardinality(Workers), searching : 0 .. Cardinality(Workers)]
  /\ mutex \in Procs \cup {Nobody}
  /\ sleepers \in Seq(Workers) /\ Len(sleepers) <= Cardinality(Workers)
  /\ slot \in [Workers -> {"Search", "Work", "Sleep"}]
  /\ flag \in [Workers -> BOOLEAN]
  /\ \A w \in Workers : pc[w] \in WorkerPcs \cup NotifyPcs \cup {"done"}
  /\ \A p \in Writers : pc[p] \in NotifyPcs \cup {"publish", "done"}
  /\ target \in [Procs -> Workers \cup {Nobody}]
  /\ ClientTypeOK

(* Workers that state_ counts as searching: those that search, those about  *)
(* to join sleepers_, and those a notifier took out of it.                  *)
Counted(w) ==
  \/ slot[w] = "Search" /\ pc[w] \notin NotifyPcs
  \/ slot[w] = "Sleep" /\ (pc[w] = "enlist" \/ w \notin Range(sleepers))
  \/ pc[w] = "delist" /\ w \notin Range(sleepers)
  \/ pc[w] = "leave"

(* state_ counts the workers: the two halves, changed at different places   *)
(* by the worker itself and by whoever notifies it, always add up.          *)
StateCounts ==
  /\ state.parked = Len(sleepers)
  /\ state.searching = Cardinality({w \in Workers : Counted(w)})

(* The CHECKs of wait() and stop_wait(): who stops to search is counted, a  *)
(* slot joins sleepers_ without a pending unpark, is in it once, and one    *)
(* that left it without its own doing has been unparked.                    *)
SlotChecks ==
  /\ IsInjective(sleepers)
  /\ \A w \in Workers :
       /\ pc[w] \in {"enlist", "leave"} => state.searching # 0
       /\ pc[w] = "enlist" => ~flag[w] /\ w \notin Range(sleepers)
       /\ pc[w] = "delist" /\ mutex = Nobody => (w \in Range(sleepers) \/ flag[w])
       /\ flag[w] => w \notin Range(sleepers) /\ pc[w] \in {"look", "compare", "wait", "park", "stop", "delist"}

(* "Main invariant: After notify is called there should be at least on      *)
(* worker in Search or Work state": while published work is not taken and   *)
(* no writer is between its write and the return of its notify(), some      *)
(* worker is not blocked in park().                                         *)
MainInvariant ==
  WorkPending(NotifyPcs) => \E w \in Workers : ~(pc[w] = "park" /\ ~flag[w])

(* The CHECKs of close(), which the test calls when all have returned.      *)
CloseChecks ==
  AllDone => state = [parked |-> 0, searching |-> 0] /\ sleepers = <<>>

(* All the work is taken and every worker comes to its end, woken by the    *)
(* last notify() of a writer or by the stop_wait() of another worker.       *)
EveryoneFinishes == <>(readPos = EndPos /\ AllDone)

----------------------------------------------------------------------------
(* The inductive invariant.                                                 *)

Types ==
  /\ state \in [parked : Int, searching : Int]
  /\ mutex \in Procs \cup {Nobody}
  /\ sleepers \in Seq(Workers) /\ IsInjective(sleepers)
  /\ slot \in [Workers -> {"Search", "Work", "Sleep"}]
  /\ flag \in [Workers -> BOOLEAN]
  /\ pc \in [Procs -> WorkerPcs \cup NotifyPcs \cup {"publish", "done"}]
  /\ target \in [Procs -> Workers \cup {Nobody}]
  /\ readPos \in Nat /\ writePos \in Nat /\ x \in [Workers -> Nat]

(* Where a worker may be, in which state of its slot, and that the work it  *)
(* has seen was there.                                                      *)
SlotOK ==
  \A w \in Workers :
    /\ pc[w] \in {"take", "done", "delist"} => slot[w] = "Work"
    /\ pc[w] \in NotifyPcs => slot[w] = "Search"
    /\ pc[w] \in {"enlist", "park"} => slot[w] = "Sleep"
    /\ pc[w] = "leave" => slot[w] # "Sleep"
    /\ pc[w] # "publish"
    /\ x[w] <= readPos

(* notify() holds the mutex from its second look to the unpark, so the list *)
(* it has looked at stays as it is.                                         *)
MutexOK ==
  \A p \in Procs :
    /\ pc[p] \in {"locked", "pop", "unpark"} <=> mutex = p
    /\ pc[p] = "pop" => sleepers # <<>>
    /\ target[p] # Nobody <=> pc[p] = "unpark"

(* A worker that has gone to sleep and not come back yet: in sleepers_,     *)
(* taken out of it by a notifier that will unpark it, or unparked, one of   *)
(* the three.                                                               *)
Asleep(w) == (slot[w] = "Sleep" /\ pc[w] # "enlist") \/ pc[w] = "delist"
Has(list, w) == \E i \in DOMAIN list : list[i] = w
Listed(w) == Has(sleepers, w)
Taken(w) == \E p \in Procs : target[p] = w
SleepOK ==
  \A w \in Workers :
    /\ Asleep(w) <=> Listed(w) \/ Taken(w) \/ flag[w]
    /\ ~(Listed(w) /\ flag[w])
    /\ Taken(w) => ~Listed(w) /\ ~flag[w]

(* The worker will not look at the work again before it is notified.        *)
Resting(w) == pc[w] \in {"wait", "park"} /\ Listed(w)

(* Work that is left has a writer that will look at state_, or a worker     *)
(* that will look at the work or call notify() itself.                      *)
WorkOK ==
  readPos < writePos /\ readPos < EndPos =>
    \/ \E p \in Writers : pc[p] \in NotifyPcs
    \/ \E w \in Workers : ~Resting(w)

IInv == Types /\ SlotOK /\ MutexOK /\ SleepOK /\ StateCounts /\ WorkOK
=============================================================================
