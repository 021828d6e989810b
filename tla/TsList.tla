------------------------------- MODULE TsList -------------------------------
(***************************************************************************)
(* td/utils/TsList.h over td/utils/List.h: an intrusive doubly linked ring *)
(* around a root whose mutex guards it.  Each node belongs to a thread,    *)
(* which links, unlinks, moves and destroys it; TsList::get takes the      *)
(* oldest node from any thread.                                            *)
(*                                                                         *)
(* A region under the lock is one step.  Before each of them the node's    *)
(* thread reads parent without it (empty, and the look for the lock): get  *)
(* may come between that look and the region.  Those reads race with the   *)
(* stores of get; each is taken to return a value that parent has then.    *)
(***************************************************************************)
EXTENDS Integers, FiniteSets, Sequences

CONSTANTS Nodes, Owner          \* Owner[n]: the thread of node n

Root == 0
Ring == Nodes \cup {Root}
Threads == {Owner[n] : n \in Nodes}

VARIABLES next, prev,           \* ListNode, of the nodes and the root
          linked,               \* nodes whose parent is the list
          data,                 \* data_, an element's name, 0 when moved from
          at,                   \* at[t]: <<operation, step, node, the node it moves to>>
          elements,             \* elements made so far
          queue                 \* history: the elements in the list, newest first
vars == <<next, prev, linked, data, at, elements, queue>>
Idle == <<"idle", "idle", Root, Root>>

Init == /\ next = [n \in Ring |-> n] /\ prev = [n \in Ring |-> n]
        /\ linked = {} /\ data = [n \in Nodes |-> 0] /\ elements = 0 /\ queue = <<>>
        /\ at = [t \in Threads |-> Idle]

\* A sequence of different elements without one of them.
Without(q, e) == LET k == CHOOSE i \in 1..Len(q): q[i] = e
                 IN  [i \in 1..(Len(q) - 1) |-> IF i < k THEN q[i] ELSE q[i + 1]]
Goto(t, step) == at' = [at EXCEPT ![t] = step]
To(t, step) == Goto(t, <<at[t][1], step, at[t][3], at[t][4]>>)    \* of the same operation
IsIdle(n) == at[Owner[n]] = Idle

\* ListNode::empty, remove and put_unsafe (x becomes the successor of after)
Alone(n) == next[n] = n
OutUncleared(l, n) ==   \* a mutant: the node keeps its own links
  [next |-> [l.next EXCEPT ![l.prev[n]] = l.next[n]],
   prev |-> [l.prev EXCEPT ![l.next[n]] = l.prev[n]]]
Out(l, n) ==
  [next |-> [l.next EXCEPT ![l.prev[n]] = l.next[n], ![n] = n],
   prev |-> [l.prev EXCEPT ![l.next[n]] = l.prev[n], ![n] = n]]
In(l, after, x) ==
  [next |-> [l.next EXCEPT ![x] = l.next[after], ![after] = x],
   prev |-> [l.prev EXCEPT ![l.next[after]] = x, ![x] = after]]
Links == [next |-> next, prev |-> prev]
Becomes(l) == next' = l.next /\ prev' = l.prev

\* validate looks at parent: a node outside passes, as it is linked to itself
Looks(t, op, n, to) ==
  Goto(t, IF n \in linked THEN <<op, "validate", n, to>> ELSE Idle)
BeginRemove(n) ==
  /\ IsIdle(n) /\ n \in linked /\ Looks(Owner[n], "remove", n, Root)
  /\ UNCHANGED <<next, prev, linked, data, elements, queue>>

\* ... and under the lock it CHECKs the links.  When get was faster it fails.
Validate(t) ==
  /\ at[t][2] = "validate"
  /\ IF Alone(at[t][3]) THEN To(t, "failed")
     ELSE IF at[t][1] = "check" THEN Goto(t, Idle) ELSE To(t, "again")
  /\ UNCHANGED <<next, prev, linked, data, elements, queue>>

\* The data of a node, and only that when the node is in no list.
DataMoves(n, other) == data' = [data EXCEPT ![n] = data[other], ![other] = 0]

\* "if (empty())" after validate: nothing to unlink any more
LookAgain(t) ==
  /\ at[t][2] = "again"
  /\ IF at[t][3] \in linked THEN To(t, "lock") ELSE Goto(t, Idle)
  /\ IF at[t][1] = "move" /\ at[t][3] \notin linked
       THEN DataMoves(at[t][4], at[t][3]) ELSE UNCHANGED data
  /\ UNCHANGED <<next, prev, linked, elements, queue>>

\* The rest of remove, which leaves a node alone that get has taken.
RemoveLocked(t) ==
  LET n == at[t][3] IN
  /\ at[t][1] = "remove" /\ at[t][2] = "lock"
  /\ Becomes(Out(Links, n)) /\ linked' = linked \ {n}
  /\ queue' = IF n \in linked THEN Without(queue, data[n]) ELSE queue
  /\ Goto(t, Idle) /\ UNCHANGED <<data, elements>>

\* put and put_back on the root, of a node with a new element; put validates
\* the node at its end, from here on without the lock
PutNew(n, after, q) ==
  /\ IsIdle(n) /\ n \notin linked /\ elements < Cardinality(Nodes) + 1
  /\ elements' = elements + 1 /\ data' = [data EXCEPT ![n] = elements']
  /\ Becomes(In(Links, after, n)) /\ linked' = linked \cup {n} /\ queue' = q
put(n) ==
  PutNew(n, Root, <<elements + 1>> \o queue) /\ Goto(Owner[n], <<"check", "look", n, Root>>)
put_back(n) == PutNew(n, prev[Root], Append(queue, elements + 1)) /\ UNCHANGED at
Look(t) ==
  /\ at[t][2] = "look" /\ Looks(t, "check", at[t][3], Root)
  /\ UNCHANGED <<next, prev, linked, data, elements, queue>>

\* The move constructor and the move assignment of a node that is in no list:
\* init_from, under other's lock, puts n where other was, and validate looks
\* at n.  If get has taken other in the meantime init_from would make a ring
\* of the two without a parent, and validate's CHECK ends the process.
BeginMove(n, other) ==
  /\ n # other /\ Owner[n] = Owner[other] /\ IsIdle(n) /\ n \notin linked
  /\ Looks(Owner[n], "move", other, n)
  /\ IF other \in linked THEN UNCHANGED data ELSE DataMoves(n, other)
  /\ UNCHANGED <<next, prev, linked, elements, queue>>
MoveLocked(t) ==
  LET other == at[t][3]  n == at[t][4] IN
  /\ at[t][1] = "move" /\ at[t][2] = "lock"
  /\ \/ /\ other \in linked
        /\ Becomes(In(Out(Links, other), prev[other], n)) /\ DataMoves(n, other)
        /\ linked' = (linked \ {other}) \cup {n}
        /\ Goto(t, <<"check", "look", n, Root>>)
     \/ /\ other \notin linked
        /\ To(t, "failed") /\ UNCHANGED <<next, prev, linked, data>>
  /\ UNCHANGED <<elements, queue>>

\* TsList::get: the node before the root
get ==
  LET n == prev[Root] IN
  /\ n # Root
  /\ Becomes(Out(Links, n)) /\ linked' = linked \ {n}
  /\ queue' = SubSeq(queue, 1, Len(queue) - 1) /\ UNCHANGED <<data, at, elements>>

\* No CHECK has failed, which ends the process.
ChecksHold == \A t \in Threads: at[t][2] # "failed"

Next ==
  /\ ChecksHold
  /\ \/ get
     \/ \E n \in Nodes: BeginRemove(n) \/ put(n) \/ put_back(n) \/ \E o \in Nodes: BeginMove(n, o)
     \/ \E t \in Threads: Look(t) \/ Validate(t) \/ LookAgain(t) \/ RemoveLocked(t) \/ MoveLocked(t)
Spec == Init /\ [][Next]_vars

----------------------------------------------------------------------------
\* Read either way round, the ring is the elements put and not yet taken, in
\* order: a move leaves an element where it is (init_from), get takes the
\* oldest, and a node outside is linked to itself.
RingIsQueue == \E nodes \in [1..Len(queue) -> Nodes]:
  LET r == [i \in 0..(Len(queue) + 1) |-> IF i \in 1..Len(queue) THEN nodes[i] ELSE Root]
  IN  /\ \A i \in 0..Len(queue): next[r[i]] = r[i + 1] /\ prev[r[i + 1]] = r[i]
      /\ \A i, j \in 1..Len(queue): nodes[i] = nodes[j] => i = j
      /\ \A i \in 1..Len(queue): data[nodes[i]] = queue[i]
      /\ linked = {nodes[i] : i \in 1..Len(queue)}
      /\ \A n \in Nodes \ linked: next[n] = n /\ prev[n] = n

\* A CHECK of validate fails only of a node that get has taken.
OnlyGetFails == \A t \in Threads: at[t][2] = "failed" => at[t][3] \notin linked
============================================================================
