----------------------------- MODULE MpmcQueue -----------------------------
(***************************************************************************)
(* td::MpmcQueue (td/utils/MpmcQueue.h): blocks of fetch-and-add tickets,  *)
(* linked in a list whose nodes HazardPointers reclaims.  A thread pushes  *)
(* a number of values, then it pop()s a number; a writer of the test is a  *)
(* thread that pops none, a reader one that pushes none.                   *)
(*                                                                         *)
(* Every atomic access is one step.  A OneValue is Empty, Taken or holds a *)
(* value: set_value and get_value are decided by their compare_exchange    *)
(* and their exchange.  An address may be handed out again after delete.   *)
(* What a thread does to a node that was deleted is undefined: it may hit  *)
(* memory nobody reads, and the model takes that outcome (Stray).          *)
(* OldSpec is td::MpmcQueueOld, of the same file.                          *)
(***************************************************************************)
EXTENDS HazardPointers, Sequences

CONSTANTS
  Size,      (* block.data.size(), 1024 in the code                          *)
  Pushes,    (* Pushes[t]: values thread t pushes                            *)
  Pops,      (* Pops[t]: values it pops after that                           *)
  MaxReads   (* MpmcQueueOld: readers of a full block without a next one take *)
             (* tickets without end                                          *)

Values == UNION {{t} \X (1 .. Pushes[t]) : t \in Threads}
Empty == << >>
Taken == <<"Taken">>
Slots == 0 .. (Size - 1)

VARIABLES
  node,      (* node[n]: w, r (the block's positions), data and next         *)
  writePos,  (* write_pos_                                                   *)
  readPos,   (* read_pos_                                                    *)
  pc,
  pos,       (* the ticket of the thread, or the write_pos it compares with  *)
  other,     (* next, or new_node                                            *)
  pushed,    (* its pushes that have returned                                *)
  popped,    (* what its pop() calls have returned                           *)
  missed     (* auxiliary: values in the queue, free to be taken, during all *)
             (* of its current try_pop()                                     *)

memVars == <<node, writePos, readPos>>
localVars == <<pos, other>>
doneVars == <<pushed, popped>>
vars == <<hpVars, protectVars, memVars, pc, localVars, doneVars, missed>>

NewNode(w, d0) ==
  [w |-> w, r |-> 0, next |-> NoNode, data |-> [i \in Slots |-> IF i = 0 THEN d0 ELSE Empty]]
Deleted == NewNode(0, Empty)

Init ==
  \E n \in Nodes :
    /\ HpInit
    /\ heap = {n}
    /\ node = [m \in Nodes |-> NewNode(0, Empty)]
    /\ writePos = n
    /\ readPos = n
    /\ pc = [t \in Threads |-> "idle"]
    /\ pos = [t \in Threads |-> 0]
    /\ other = [t \in Threads |-> NoNode]
    /\ pushed = [t \in Threads |-> 0]
    /\ popped = [t \in Threads |-> <<>>]
    /\ missed = [t \in Threads |-> {}]

Goto(t, l) == pc' = [pc EXCEPT ![t] = l]
Value(t) == <<t, pushed[t] + 1>>

(* The node the thread has protected, and whether it still exists.          *)
At(t) == saved[t]
Stray(t) == At(t) \notin heap

SetNode(n, r) == node' = [node EXCEPT ![n] = r]
SetPos(t, p) == pos' = [pos EXCEPT ![t] = p]
SetOther(t, n) == other' = [other EXCEPT ![t] = n]

(* push and try_pop return.                                                 *)
DropLocals(t) ==
  /\ SetPos(t, 0) /\ SetOther(t, NoNode)
  /\ saved' = [saved EXCEPT ![t] = NoNode]
  /\ loaded' = [loaded EXCEPT ![t] = NoNode]
  /\ Goto(t, "idle")

----------------------------------------------------------------------------
(* protect(thread_id, 0, write_pos_) or (..., read_pos_), at the head of    *)
(* the loop of push and of try_pop.                                         *)
Writing(t) == pushed[t] < Pushes[t]
ToProtect(t) == IF Writing(t) THEN writePos ELSE readPos

Protect(t) ==
  /\ \/ pc[t] = "load" /\ ProtectChanged(t, ToProtect(t)) /\ Goto(t, "store")
          /\ UNCHANGED <<hazard, pos, other>>
     \/ pc[t] = "store" /\ ProtectStores(t) /\ Goto(t, "load")
          /\ UNCHANGED <<pos, other>>
     \/ pc[t] = "load" /\ ToProtect(t) = saved[t] /\ Goto(t, IF Writing(t) THEN "claim" ELSE "peek")
          /\ UNCHANGED <<hazard, protectVars, pos, other>>
  /\ UNCHANGED <<heap, scanVars, memVars, doneVars>>

(* The loop starts again.                                                   *)
Again(t) == Goto(t, "load") /\ ProtectBegin(t) /\ UNCHANGED loaded

----------------------------------------------------------------------------
PushBegin(t) ==
  /\ pc[t] = "idle" /\ Writing(t)
  /\ Again(t)
  /\ UNCHANGED <<hpVars, memVars, localVars, doneVars>>

(* block.write_pos++                                                        *)
PushClaim(t) ==
  /\ pc[t] = "claim"
  /\ IF Stray(t)
       THEN UNCHANGED <<node, pos>> /\ Goto(t, "pushed")
       ELSE /\ SetNode(At(t), [node[At(t)] EXCEPT !.w = @ + 1])
            /\ SetPos(t, node[At(t)].w)
            /\ Goto(t, IF node[At(t)].w < Size THEN "set" ELSE "next")
  /\ UNCHANGED <<hpVars, protectVars, writePos, readPos, other, doneVars>>

(* set_value: the slot is the value's unless a reader was faster.           *)
PushSet(t) ==
  /\ pc[t] = "set"
  /\ IF Stray(t) \/ node[At(t)].data[pos[t]] = Empty
       THEN /\ Goto(t, "pushed")
            /\ UNCHANGED protectVars
            /\ IF Stray(t) THEN UNCHANGED node
               ELSE SetNode(At(t), [node[At(t)] EXCEPT !.data[pos[t]] = Value(t)])
       ELSE Again(t) /\ UNCHANGED node
  /\ UNCHANGED <<hpVars, writePos, readPos, localVars, doneVars>>

(* node->next.load(), of a full block                                       *)
PushNext(t) ==
  /\ pc[t] = "next"
  /\ IF Stray(t) THEN UNCHANGED other /\ Goto(t, "pushed")
     ELSE /\ SetOther(t, node[At(t)].next)
          /\ Goto(t, IF node[At(t)].next = NoNode THEN "alloc" ELSE "help")
  /\ UNCHANGED <<hpVars, protectVars, memVars, pos, doneVars>>

(* new Node, with the value in its first slot                               *)
PushAlloc(t) ==
  /\ pc[t] = "alloc"
  /\ \E n \in Nodes \ heap :
       /\ heap' = heap \cup {n}
       /\ SetNode(n, NewNode(1, Value(t)))
       /\ SetOther(t, n)
  /\ Goto(t, "link")
  /\ UNCHANGED <<hazard, scanVars, protectVars, writePos, readPos, pos, doneVars>>

(* node->next.compare_exchange(null, new_node); delete it if that fails.    *)
PushLink(t) ==
  /\ pc[t] = "link"
  /\ IF Stray(t) THEN Goto(t, "pushed") /\ UNCHANGED <<heap, node, protectVars>>
     ELSE IF node[At(t)].next = NoNode
       THEN /\ SetNode(At(t), [node[At(t)] EXCEPT !.next = other[t]])
            /\ Goto(t, "swing")
            /\ UNCHANGED <<heap, protectVars>>
       ELSE /\ heap' = heap \ {other[t]}
            /\ SetNode(other[t], Deleted)
            /\ Again(t)
  /\ UNCHANGED <<hazard, scanVars, writePos, readPos, localVars, doneVars>>

(* write_pos_.compare_exchange(node, new_node), and push is done.           *)
PushSwing(t) ==
  /\ pc[t] = "swing"
  /\ writePos' = IF writePos = At(t) THEN other[t] ELSE writePos
  /\ Goto(t, "pushed")
  /\ UNCHANGED <<hpVars, protectVars, node, readPos, localVars, doneVars>>

(* The same for a node another writer has linked; then from the start.      *)
PushHelp(t) ==
  /\ pc[t] = "help"
  /\ writePos' = IF writePos = At(t) THEN other[t] ELSE writePos
  /\ Again(t)
  /\ UNCHANGED <<hpVars, node, readPos, localVars, doneVars>>

(* SCOPE_EXIT: clear(thread_id, 0).                                         *)
PushEnd(t) ==
  /\ pc[t] = "pushed"
  /\ StoreHazard(t, NoNode)
  /\ pushed' = [pushed EXCEPT ![t] = @ + 1]
  /\ DropLocals(t)
  /\ UNCHANGED <<heap, scanVars, memVars, popped>>

Push(t) ==
  \/ PushBegin(t) \/ PushClaim(t) \/ PushSet(t) \/ PushNext(t) \/ PushAlloc(t)
  \/ PushLink(t) \/ PushSwing(t) \/ PushHelp(t) \/ PushEnd(t)

----------------------------------------------------------------------------
PopBegin(t) ==
  /\ pc[t] = "idle" /\ ~Writing(t) /\ Len(popped[t]) < Pops[t]
  /\ Again(t)
  /\ UNCHANGED <<hpVars, memVars, localVars, doneVars>>

(* block.write_pos <= block.read_pos: the left operand, then the right.     *)
PopPeekWrite(t) ==
  /\ pc[t] = "peek"
  /\ SetPos(t, IF Stray(t) THEN 0 ELSE node[At(t)].w)
  /\ Goto(t, "peek2")
  /\ UNCHANGED <<hpVars, protectVars, memVars, other, doneVars>>

PopPeekRead(t) ==
  /\ pc[t] = "peek2"
  /\ Goto(t, IF ~Stray(t) /\ pos[t] <= node[At(t)].r THEN "peek3" ELSE "take")
  /\ UNCHANGED <<hpVars, protectVars, memVars, localVars, doneVars>>

(* ... and there is no next node: try_pop returns false.                    *)
PopPeekNext(t) ==
  /\ pc[t] = "peek3"
  /\ Goto(t, IF ~Stray(t) /\ node[At(t)].next = NoNode THEN "empty" ELSE "take")
  /\ UNCHANGED <<hpVars, protectVars, memVars, localVars, doneVars>>

(* block.read_pos++                                                         *)
PopClaim(t) ==
  /\ pc[t] = "take"
  /\ IF Stray(t) THEN UNCHANGED <<node, pos>> /\ Goto(t, "empty")
     ELSE /\ SetNode(At(t), [node[At(t)] EXCEPT !.r = @ + 1])
          /\ SetPos(t, node[At(t)].r)
          /\ Goto(t, IF node[At(t)].r < Size THEN "get" ELSE "follow")
  /\ UNCHANGED <<hpVars, protectVars, writePos, readPos, other, doneVars>>

(* get_value: what is not there now will never be in this slot.             *)
PopGet(t) ==
  /\ pc[t] = "get"
  /\ IF Stray(t) THEN Goto(t, "empty") /\ UNCHANGED <<node, popped, protectVars>>
     ELSE LET v == node[At(t)].data[pos[t]] IN
       /\ SetNode(At(t), [node[At(t)] EXCEPT !.data[pos[t]] = Taken])
       /\ IF v = Empty
            THEN Again(t) /\ UNCHANGED popped
            ELSE /\ popped' = [popped EXCEPT ![t] = Append(@, v)]
                 /\ Goto(t, "popped")
                 /\ UNCHANGED protectVars
  /\ UNCHANGED <<hpVars, writePos, readPos, localVars, pushed>>

(* node->next.load(), of a block whose slots all have their reader          *)
PopNext(t) ==
  /\ pc[t] = "follow"
  /\ SetOther(t, IF Stray(t) THEN NoNode ELSE node[At(t)].next)
  /\ Goto(t, IF Stray(t) \/ node[At(t)].next = NoNode THEN "empty" ELSE "advance")
  /\ UNCHANGED <<hpVars, protectVars, memVars, pos, doneVars>>

(* read_pos_.compare_exchange(node, next)                                   *)
PopAdvance(t) ==
  /\ pc[t] = "advance"
  /\ IF readPos = At(t)
       THEN readPos' = other[t] /\ Goto(t, "clear") /\ UNCHANGED protectVars
       ELSE Again(t) /\ UNCHANGED readPos
  /\ UNCHANGED <<hpVars, node, writePos, localVars, doneVars>>

(* Mutant: the node is deleted at once instead of retired.                  *)
PopDeletes(t) ==
  /\ pc[t] = "clear"
  /\ StoreHazard(t, NoNode)
  /\ heap' = heap \ {At(t)}
  /\ SetNode(At(t), Deleted)
  /\ Goto(t, "scan")
  /\ UNCHANGED <<scanVars, protectVars, writePos, readPos, localVars, doneVars>>

(* clear, then retire(thread_id, node)                                      *)
PopRetire(t) ==
  /\ pc[t] = "clear"
  /\ StoreHazard(t, NoNode)
  /\ RetireBegin(t, {At(t)})
  /\ Goto(t, "scan")
  /\ UNCHANGED <<heap, protectVars, memVars, localVars, doneVars>>

PopScan(t) ==
  /\ pc[t] = "scan"
  /\ \/ ScanStep(t) /\ UNCHANGED <<protectVars, pc>>
     \/ ScanDone(t) /\ Again(t) /\ UNCHANGED <<heap, scanVars>>
  /\ node' = [n \in Nodes |-> IF n \in heap' THEN node[n] ELSE Deleted]
  /\ UNCHANGED <<hazard, writePos, readPos, localVars, doneVars>>

(* SCOPE_EXIT: clear(thread_id, 0); pop() tries again after a miss.         *)
PopEnd(t) ==
  /\ pc[t] \in {"popped", "empty"}
  /\ StoreHazard(t, NoNode)
  /\ DropLocals(t)
  /\ UNCHANGED <<heap, scanVars, memVars, doneVars>>

Pop(t) ==
  \/ PopBegin(t) \/ PopPeekWrite(t) \/ PopPeekRead(t) \/ PopPeekNext(t) \/ PopClaim(t)
  \/ PopGet(t) \/ PopNext(t) \/ PopAdvance(t) \/ PopRetire(t) \/ PopScan(t) \/ PopEnd(t)

----------------------------------------------------------------------------
(* The nodes from read_pos_ on.                                             *)
Chain ==
  LET from[k \in 0 .. Cardinality(Nodes)] ==
        IF k = 0 THEN {readPos}
        ELSE from[k - 1] \cup ({node[n].next : n \in from[k - 1]} \ {NoNode})
  IN  from[Cardinality(Nodes)]

(* The slots somebody will look into: those no reader has the ticket of,    *)
(* and those whose reader has the ticket and has not come for it yet.       *)
Untaken == {s \in Chain \X Slots : s[2] >= node[s[1]].r}
Tickets == {<<At(t), pos[t]>> : t \in {u \in Threads : pc[u] = "get"}}
With(v, slots) == {s \in slots : node[s[1]].data[s[2]] = v}

(* The pushed values that any reader may take.                              *)
FreeValues == {v \in Values : v[2] <= pushed[v[1]] /\ With(v, Untaken) # {}}

TrackMissed ==
  missed' = [t \in Threads |->
    IF pc'[t] = "idle" \/ Writing(t) THEN {}
    ELSE IF pc[t] = "idle" THEN FreeValues' ELSE missed[t] \cap FreeValues']

AllDone == \A t \in Threads : pc[t] = "idle" /\ ~Writing(t) /\ Len(popped[t]) = Pops[t]

Finished == AllDone /\ UNCHANGED vars

Step(t) == (Protect(t) \/ Push(t) \/ Pop(t)) /\ TrackMissed

Next == (\E t \in Threads : Step(t)) \/ Finished

Spec == Init /\ [][Next]_vars

----------------------------------------------------------------------------
TypeOK ==
  /\ HpTypeOK
  /\ node \in [Nodes -> [w : Nat, r : Nat, next : Nodes \cup {NoNode},
                         data : [Slots -> Values \cup {Empty, Taken}]]]
  /\ writePos \in Nodes
  /\ readPos \in Nodes
  /\ pos \in [Threads -> Nat]
  /\ other \in [Threads -> Nodes \cup {NoNode}]
  /\ pushed \in [Threads -> Nat]
  /\ \A t \in Threads : popped[t] \in Seq(Values) /\ Len(popped[t]) <= Pops[t]
  /\ missed \in [Threads -> SUBSET Values]

(* No thread touches a node that has been deleted.                          *)
InNode == {"claim", "set", "next", "link", "peek", "peek2", "peek3", "take", "get", "follow"}
NoUseAfterFree == \A t \in Threads : pc[t] \in InNode => At(t) \in heap

(* "LOG_CHECK(all.size() == n * qn)" and the comparison of all[i] with the  *)
(* pushed values (test/MpmcQueue.cpp): a value whose push has returned is   *)
(* in one slot that a reader will look into, or was popped once.            *)
Deliveries(v) == {d \in Threads \X (1 .. Cardinality(Values)) :
                    d[2] <= Len(popped[d[1]]) /\ popped[d[1]][d[2]] = v}
Conserved ==
  \A v \in Values :
    LET n == Cardinality(With(v, Untaken \cup Tickets)) + Cardinality(Deliveries(v))
    IN  IF v[2] <= pushed[v[1]] THEN n = 1 ELSE n <= 1

(* try_pop returns false only if no value was there for it all the time,    *)
(* from its call to its return.                                             *)
EmptyIsHonest == \A t \in Threads : pc[t] = "empty" => missed[t] = {}

(* Every push and every pop of a value that arrives comes to its end.       *)
EveryoneFinishes == <>AllDone

----------------------------------------------------------------------------
(* td::MpmcQueueOld: the same list of nodes around MpmcQueueBlock, whose    *)
(* push() and try_pop() try one slot after another before they come back to *)
(* the list.  Steps the two queues share are those above; a thread that     *)
(* touches a deleted node violates OldUseAfterFree, and what it does then   *)
(* is not modelled.                                                         *)

(* MpmcQueueBlock::push: the next slot when a reader was faster.            *)
OldSet(t) ==
  /\ pc[t] = "set"
  /\ IF node[At(t)].data[pos[t]] = Empty
       THEN Goto(t, "pushed") /\ SetNode(At(t), [node[At(t)] EXCEPT !.data[pos[t]] = Value(t)])
       ELSE Goto(t, "claim") /\ UNCHANGED node
  /\ UNCHANGED <<hpVars, protectVars, writePos, readPos, localVars, doneVars>>
BlockPush(t) == PushClaim(t) \/ OldSet(t)

(* The compare_exchange of node->next_ fails: the new node is popped and    *)
(* deleted, and next is what another writer has linked.                     *)
OldLinkFails(t) ==
  /\ pc[t] = "link" /\ node[At(t)].next # NoNode
  /\ heap' = heap \ {other[t]} /\ SetNode(other[t], Deleted)
  /\ SetOther(t, node[At(t)].next) /\ Goto(t, "help")
  /\ UNCHANGED <<hazard, scanVars, protectVars, writePos, readPos, pos, doneVars>>
OldLink(t) == (PushLink(t) /\ node[At(t)].next = NoNode) \/ OldLinkFails(t)

OldPush(t) ==
  \/ PushBegin(t) \/ BlockPush(t) \/ PushNext(t) \/ PushAlloc(t) \/ OldLink(t)
  \/ PushSwing(t) \/ PushHelp(t) \/ PushEnd(t)

----------------------------------------------------------------------------
(* write_pos_ <= read_pos_ && read_pos_ < nodes_.size(): three loads        *)
OldPeekRead(t) ==
  /\ pc[t] = "peek2"
  /\ Goto(t, IF pos[t] <= node[At(t)].r THEN "peek3" ELSE "take")
  /\ UNCHANGED <<hpVars, protectVars, memVars, localVars, doneVars>>
OldPeekSize(t) ==
  /\ pc[t] = "peek3"
  /\ Goto(t, IF node[At(t)].r < Size THEN "empty" ELSE "take")
  /\ UNCHANGED <<hpVars, protectVars, memVars, localVars, doneVars>>
OldGet(t) ==
  /\ pc[t] = "get"
  /\ LET v == node[At(t)].data[pos[t]]
     IN  /\ SetNode(At(t), [node[At(t)] EXCEPT !.data[pos[t]] = Taken])
         /\ IF v = Empty THEN Goto(t, "recheck") /\ UNCHANGED popped
            ELSE Goto(t, "popped") /\ popped' = [popped EXCEPT ![t] = Append(@, v)]
  /\ UNCHANGED <<hpVars, protectVars, writePos, readPos, localVars, pushed>>
(* The slot had no value: no writer may have taken a ticket after it.       *)
OldRecheck(t) ==
  /\ pc[t] = "recheck"
  /\ Goto(t, IF node[At(t)].w <= pos[t] + 1 THEN "empty" ELSE "peek")
  /\ UNCHANGED <<hpVars, protectVars, memVars, localVars, doneVars>>
BlockTryPop(t) ==
  \/ PopPeekWrite(t) \/ OldPeekRead(t) \/ OldPeekSize(t)
  \/ PopClaim(t) /\ node[At(t)].r < MaxReads
  \/ OldGet(t) \/ OldRecheck(t)

OldPop(t) ==
  \/ PopBegin(t) \/ BlockTryPop(t) \/ PopNext(t) \/ PopAdvance(t) \/ PopRetire(t)
  \/ PopScan(t) \/ PopEnd(t)

OldNext == \E t \in Threads : (Protect(t) \/ OldPush(t) \/ OldPop(t)) /\ TrackMissed
OldSpec == Init /\ [][OldNext]_vars

----------------------------------------------------------------------------
(* No deleted node is touched by either loop inside of a block.             *)
OldUseAfterFree == \A t \in Threads : pc[t] \in InNode \cup {"recheck"} => At(t) \in heap
=============================================================================
