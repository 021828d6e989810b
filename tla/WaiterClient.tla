---------------------------- MODULE WaiterClient ----------------------------
(***************************************************************************)
(* The threads of test/MpmcWaiter.cpp (test_waiter_stress): a writer       *)
(* publishes a unit of work and calls notify(); a reader that finds none   *)
(* calls wait(), one that finds some calls stop_wait() and takes it.       *)
(*                                                                         *)
(* A module of a waiter EXTENDS this one.  pc is shared: the client leaves *)
(* a thread at "wait", "stop" or "notify", where the waiter takes over,    *)
(* and the waiter ends at "look" (from wait) or at AfterStop, AfterNotify. *)
(***************************************************************************)
EXTENDS Integers, FiniteSets

CONSTANTS
  Workers,   (* readers, each with a Slot                                    *)
  Writers,   (* disjoint from Workers                                        *)
  WriteCnt,  (* write_cnt: how often each writer publishes                   *)
  EndPos     (* end_pos: the work after which the readers stop, at most      *)
             (* WriteCnt * Cardinality(Writers)                              *)

Procs == Workers \cup Writers

VARIABLES
  pc,
  writePos,  (* write_pos                                                    *)
  readPos,   (* read_pos                                                     *)
  x,         (* a reader's copy of read_pos                                  *)
  cnt        (* how often a writer has published                             *)

clientVars == <<writePos, readPos, x, cnt>>

ClientInit ==
  /\ pc = [p \in Procs |-> IF p \in Workers THEN "look" ELSE "publish"]
  /\ writePos = 0
  /\ readPos = 0
  /\ x = [w \in Workers |-> 0]
  /\ cnt = [p \in Writers |-> 0]

Goto(p, l) == pc' = [pc EXCEPT ![p] = l]

(* Where stop_wait() and notify() return to.                                *)
AfterStop(w) == IF x[w] = EndPos THEN "done" ELSE "take"
AfterNotify(p) ==
  IF p \in Workers THEN AfterStop(p) ELSE IF cnt[p] < WriteCnt THEN "publish" ELSE "done"

(* write_pos.fetch_add, then notify().                                      *)
Publish(p) ==
  /\ pc[p] = "publish"
  /\ writePos' = writePos + 1
  /\ cnt' = [cnt EXCEPT ![p] = @ + 1]
  /\ Goto(p, "notify")
  /\ UNCHANGED <<readPos, x>>

(* A reader loads read_pos, and stops at end_pos.                           *)
Look(w) ==
  /\ pc[w] = "look"
  /\ x' = [x EXCEPT ![w] = readPos]
  /\ Goto(w, IF readPos = EndPos THEN "stop" ELSE "compare")
  /\ UNCHANGED <<writePos, readPos, cnt>>

(* It compares with write_pos and finds nothing, or work.                   *)
Compare(w) ==
  /\ pc[w] = "compare"
  /\ Goto(w, IF x[w] = writePos THEN "wait" ELSE "stop")
  /\ UNCHANGED clientVars

(* compare_exchange of read_pos: the work may be another reader's by now.   *)
Take(w) ==
  /\ pc[w] = "take"
  /\ readPos' = IF readPos = x[w] THEN x[w] + 1 ELSE readPos
  /\ Goto(w, "look")
  /\ UNCHANGED <<writePos, x, cnt>>

ClientStep(p) == IF p \in Workers THEN Look(p) \/ Compare(p) \/ Take(p) ELSE Publish(p)

AllDone == \A p \in Procs : pc[p] = "done"

ClientTypeOK ==
  /\ writePos \in 0 .. WriteCnt * Cardinality(Writers)
  /\ readPos \in 0 .. EndPos
  /\ x \in [Workers -> 0 .. EndPos]
  /\ cnt \in [Writers -> 0 .. WriteCnt]

(* Published work that nobody has taken, all of its notify() calls returned. *)
WorkPending(notifyPcs) ==
  /\ readPos < writePos
  /\ readPos < EndPos
  /\ \A p \in Writers : pc[p] \notin notifyPcs
=============================================================================
