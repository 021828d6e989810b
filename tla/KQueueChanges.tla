--------------------------- MODULE KQueueChanges ---------------------------
(***************************************************************************)
(* The change list of td/utils/port/detail/KQueue.cpp: subscriptions are   *)
(* collected in events_ and handed to kevent() later, by a run or when the *)
(* list is full, so that a descriptor may be unsubscribed or closed, and   *)
(* its number given to another one, while its changes are still there.     *)
(* One thread does all of it.  kevent() is external: EV_ADD and EV_DELETE  *)
(* change the filters of a number, close() forgets them.                   *)
(***************************************************************************)
EXTENDS Integers, Sequences, SequencesExt

CONSTANTS Fds, MaxNodes,   \* numbers of descriptors, PollableFds made in all
          EventsSize       \* events_.size()

VARIABLES node,      \* the PollableFd a number belongs to, 0 when it is closed
          made,      \* PollableFds made
          listed,    \* nodes in list_root_
          events,    \* the first changes_n_ entries of events_
          filters,   \* of the kernel: [Fds -> [{"read", "write"} -> node or 0]]
          given,     \* the nodes of the events of the last run
          failed     \* errno of a kevent() that would be fatal: LOG_IF(FATAL, ...)
vars == <<node, made, listed, events, filters, given, failed>>
Filter == {"read", "write"}
NoFilters == [f \in Filter |-> 0]

Init == /\ node = [fd \in Fds |-> 0] /\ made = 0 /\ listed = {} /\ events = <<>>
        /\ filters = [fd \in Fds |-> NoFilters] /\ given = {} /\ failed = {}

Change(ident, filter, flag, udata) == [ident |-> ident, filter |-> filter, flag |-> flag, udata |-> udata]

\* kevent() over a change list: filters after it, and the errors it stops with
apply(k, c) ==
  IF node[c.ident] = 0 THEN [k EXCEPT !.errno = @ \cup {"EBADF"}]
  ELSE IF c.flag = "add" THEN [k EXCEPT !.filters[c.ident][c.filter] = c.udata]
  ELSE IF k.filters[c.ident][c.filter] = 0 THEN [k EXCEPT !.errno = @ \cup {"ENOENT"}]
  ELSE [k EXCEPT !.filters[c.ident][c.filter] = 0]
kevent(k, changes) == FoldLeft(apply, k, changes)
\* update and flush_changes: what is fatal, given may_fail
Kernel == [filters |-> filters, errno |-> {}, fatal |-> failed]
flush(k, changes, may_fail) ==
  LET r == kevent(k, changes)
  IN  [r EXCEPT !.errno = {}, !.fatal = @ \cup (r.errno \ (IF may_fail THEN {"ENOENT"} ELSE {}))]
Becomes(k) == filters' = k.filters /\ failed' = k.fatal

----------------------------------------------------------------------------
Open(fd) ==
  /\ node[fd] = 0 /\ made < MaxNodes /\ made' = made + 1 /\ node' = [node EXCEPT ![fd] = made + 1]
  /\ UNCHANGED <<listed, events, filters, given, failed>>

\* add_change, which flushes a full list before it appends
add_change(s, c) ==
  IF Len(s.events) = EventsSize THEN [k |-> flush(s.k, s.events, FALSE), events |-> <<c>>]
  ELSE [s EXCEPT !.events = Append(@, c)]
Subscribe(fd, flags) ==
  /\ node[fd] # 0 /\ node[fd] \notin listed /\ listed' = listed \cup {node[fd]}
  /\ LET wanted == SelectSeq(<<"read", "write">>, LAMBDA f : f \in flags)
         adds == [i \in 1..Len(wanted) |-> Change(fd, wanted[i], "add", node[fd])]
         s == FoldLeft(add_change, [k |-> Kernel, events |-> events], adds)
     IN  Becomes(s.k) /\ events' = s.events
  /\ UNCHANGED <<node, made, given>>

\* the node leaves list_root_ when the PollableFd of fd_ref.lock() is destroyed
Unsubscribe(fd) ==
  /\ node[fd] \in listed /\ listed' = listed \ {node[fd]}
  /\ LET delete(f) == << Change(fd, f, "delete", 0) >>
     IN  Becomes(flush(flush(flush(Kernel, events, FALSE), delete("read"), TRUE), delete("write"), TRUE))
  /\ events' = <<>> /\ UNCHANGED <<node, made, given>>

\* invalidate drops the changes of the number; the order of the others is lost
invalidate(changes, fd) == SelectSeq(changes, LAMBDA c : c.ident # fd)
\* The mutant leaves the changes where they are.
CloseUnflushed(fd) ==
  /\ node[fd] \in listed /\ listed' = listed \ {node[fd]}
  /\ filters' = [filters EXCEPT ![fd] = NoFilters] /\ node' = [node EXCEPT ![fd] = 0]
  /\ UNCHANGED <<made, events, given, failed>>

\* unsubscribe_before_close, and the close()
CloseSubscribed(fd) ==
  /\ node[fd] \in listed /\ listed' = listed \ {node[fd]}
  /\ LET k == flush(Kernel, invalidate(events, fd), FALSE)
     IN  filters' = [k.filters EXCEPT ![fd] = NoFilters] /\ failed' = k.fatal
  /\ events' = <<>> /\ node' = [node EXCEPT ![fd] = 0] /\ UNCHANGED <<made, given>>
Close(fd) ==
  /\ node[fd] # 0 /\ node[fd] \notin listed
  /\ node' = [node EXCEPT ![fd] = 0] /\ filters' = [filters EXCEPT ![fd] = NoFilters]
  /\ UNCHANGED <<made, listed, events, given, failed>>

\* run: the changes are made, and some filters report
Run ==
  /\ LET k == flush(Kernel, events, FALSE)
     IN  /\ Becomes(k)
         /\ \E fired \in SUBSET {p \in Fds \X Filter : k.filters[p[1]][p[2]] # 0} :
              given' = {k.filters[p[1]][p[2]] : p \in fired}
  /\ events' = <<>> /\ UNCHANGED <<node, made, listed>>

Next == \/ \E fd \in Fds : Open(fd) \/ Unsubscribe(fd) \/ CloseSubscribed(fd) \/ Close(fd)
        \/ \E fd \in Fds, flags \in SUBSET Filter \ {{}} : Subscribe(fd, flags)
        \/ Run
Spec == Init /\ [][Next]_vars

----------------------------------------------------------------------------
TypeOK == events \in Seq([ident : Fds, filter : Filter, flag : {"add", "delete"}, udata : 0..MaxNodes])

(* No kevent() fails in a way that ends the program.                       *)
NothingFatal == failed = {} /\ Len(events) <= EventsSize

(* The events of a run carry nodes that are in list_root_: never one that  *)
(* was unsubscribed or whose descriptor was closed, not even when its      *)
(* number is in use again.                                                 *)
EventsAreOfSubscribers ==
  [][Run => given' \subseteq listed]_vars

(* A subscription is in the kernel or in the list, with the right node.    *)
SubscribedIsKept ==
  \A fd \in Fds : node[fd] \in listed =>
    \E f \in Filter : filters[fd][f] = node[fd] \/ Change(fd, f, "add", node[fd]) \in Range(events)
============================================================================
