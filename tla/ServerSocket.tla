--------------------------- MODULE ServerSocket ---------------------------
(***************************************************************************)
(* A listening socket (port/ServerSocketFd.cpp).  On Windows the thread of *)
(* Iocp::loop keeps one AcceptEx pending and queues what it accepts for    *)
(* the owner; on posix the owner accepts from the kernel's backlog itself, *)
(* told by the poll thread.  The kernels are external.                     *)
(***************************************************************************)
EXTENDS Integers, Sequences, PollableFd

CONSTANTS MaxConnections, MaxErrors

VARIABLES
  kind,      \* "windows" or "posix"
  sock,      \* [refcnt, close_flag, read_active]; posix uses none of it
  info, errors,
  queue,     \* completions of the port
  pending,   \* AcceptEx is pending
  backlog,   \* connections the kernel holds (posix), and accepted_ (Windows)
  arrived, accepted, broken,    \* connections so far, returned by accept(), errors so far
  edge,      \* posix: the poll thread has an event to deliver
  iocp, client
vars == <<kind, sock, info, errors, queue, pending, backlog, arrived, accepted, broken, edge, iocp, client>>
counts == <<arrived, accepted, broken>>

Init ==
  /\ kind \in {"windows", "posix"} /\ info = Extract(NewInfo) /\ errors = 0
  /\ sock = [refcnt |-> 2, close_flag |-> FALSE, read_active |-> FALSE]
  /\ queue = IF kind = "windows" THEN <<"kick">> ELSE <<>>     \* notify_iocp_read
  /\ pending = FALSE /\ backlog = <<>> /\ arrived = 0 /\ accepted = <<>> /\ broken = 0
  /\ edge = FALSE /\ iocp = "idle" /\ client = "open"

----------------------------------------------------------------------------
\* Windows: AcceptEx ends

Connects ==
  /\ pending /\ arrived < MaxConnections /\ ~sock.close_flag
  /\ arrived' = arrived + 1 /\ pending' = FALSE /\ queue' = Append(queue, "read")
  /\ UNCHANGED <<kind, sock, info, errors, backlog, accepted, broken, edge, iocp, client>>
Fails ==
  /\ pending /\ (sock.close_flag \/ broken < MaxErrors)
  /\ pending' = FALSE /\ queue' = Append(queue, "error")
  /\ broken' = IF sock.close_flag THEN broken ELSE broken + 1
  /\ UNCHANGED <<kind, sock, info, errors, backlog, arrived, accepted, edge, iocp, client>>

\* on_iocp
Left == [sock EXCEPT !.refcnt = @ - 1]
Ignored == sock.refcnt = 1 \/ sock.close_flag
Begin == iocp = "idle" /\ queue # <<>> /\ queue' = Tail(queue) /\ UNCHANGED <<kind, counts, edge, client>>
Ignore == Begin /\ Ignored /\ sock' = Left /\ UNCHANGED <<info, errors, pending, backlog, iocp>>
OnError ==
  /\ Begin /\ ~Ignored /\ Head(queue) = "error" /\ sock' = Left
  /\ errors' = errors + 1 /\ iocp' = "on_error" /\ UNCHANGED <<info, pending, backlog>>
AddErrorFlag ==
  /\ iocp = "on_error" /\ info' = write_flags(info, {"Error"}) /\ iocp' = "idle"
  /\ UNCHANGED <<kind, sock, errors, queue, pending, backlog, counts, edge, client>>
OnClose ==
  /\ Begin /\ ~Ignored /\ Head(queue) = "close" /\ sock' = [Left EXCEPT !.close_flag = TRUE]
  /\ UNCHANGED <<info, errors, pending, backlog, iocp>>
OnRead ==    \* an accept has ended: its socket is queued, or is not usable
  /\ Begin /\ ~Ignored /\ Head(queue) \in {"read", "kick"}
  /\ sock' = [Left EXCEPT !.read_active = FALSE] /\ UNCHANGED <<info, pending>>
  /\ IF ~sock.read_active THEN iocp' = "loop_read" /\ UNCHANGED <<backlog, errors>>
     ELSE \/ backlog' = Append(backlog, arrived) /\ iocp' = "accepted" /\ UNCHANGED errors
          \/ errors' = errors + 1 /\ iocp' = "on_error" /\ UNCHANGED backlog
AddReadFlag ==
  /\ iocp = "accepted" /\ info' = write_flags(info, {"Read"}) /\ iocp' = "loop_read"
  /\ UNCHANGED <<kind, sock, errors, queue, pending, backlog, counts, edge, client>>
LoopRead ==
  /\ iocp = "loop_read"
  /\ \/ /\ sock' = [sock EXCEPT !.refcnt = @ + 1, !.read_active = TRUE]
        /\ pending' = TRUE /\ iocp' = "idle" /\ UNCHANGED errors
     \/ errors' = errors + 1 /\ iocp' = "on_error" /\ UNCHANGED <<sock, pending>>
  /\ UNCHANGED <<kind, info, queue, backlog, counts, edge, client>>
Port == Ignore \/ OnError \/ AddErrorFlag \/ OnClose \/ OnRead \/ AddReadFlag \/ LoopRead

----------------------------------------------------------------------------
\* posix: the kernel and the poll thread

Arrives ==
  /\ kind = "posix" /\ arrived < MaxConnections /\ arrived' = arrived + 1
  /\ backlog' = Append(backlog, arrived + 1) /\ edge' = TRUE
  /\ UNCHANGED <<kind, sock, info, errors, queue, pending, accepted, broken, iocp, client>>
PollThread ==
  /\ edge /\ edge' = FALSE /\ info' = write_flags(info, {"Read"})
  /\ UNCHANGED <<kind, sock, errors, queue, pending, backlog, counts, iocp, client>>

----------------------------------------------------------------------------
\* The owner, who goes on accepting while the flags say Read

Sync ==
  /\ client = "open" /\ info.to_write # {} /\ info' = flush(info)
  /\ UNCHANGED <<kind, sock, errors, queue, pending, backlog, counts, edge, iocp, client>>
Accept ==
  /\ client = "open" /\ "Read" \in info.flags
  /\ IF backlog # <<>> THEN accepted' = Append(accepted, Head(backlog)) /\ backlog' = Tail(backlog)
                            /\ UNCHANGED info
     ELSE info' = clear_flags(info, {"Read"}) /\ UNCHANGED <<accepted, backlog>>
  /\ UNCHANGED <<kind, sock, errors, queue, pending, arrived, broken, edge, iocp, client>>
AcceptFails ==    \* posix: EMFILE and the like
  /\ client = "open" /\ kind = "posix" /\ "Read" \in info.flags /\ broken < MaxErrors
  /\ broken' = broken + 1 /\ info' = add_flags(clear_flags(info, {"Read"}), {"Close"})
  /\ UNCHANGED <<kind, sock, errors, queue, pending, backlog, arrived, accepted, edge, iocp, client>>
GetPendingError ==
  /\ client = "open" /\ kind = "windows" /\ "Error" \in info.flags
  /\ IF errors > 0 THEN errors' = errors - 1 /\ UNCHANGED info
     ELSE info' = clear_flags(info, {"Error"}) /\ UNCHANGED errors
  /\ UNCHANGED <<kind, sock, queue, pending, backlog, counts, edge, iocp, client>>
Close ==
  /\ client = "open" /\ kind = "windows" /\ client' = "closed" /\ queue' = Append(queue, "close")
  /\ UNCHANGED <<kind, sock, info, errors, pending, backlog, counts, edge, iocp>>

Next == \/ Connects \/ Fails \/ Port \/ Arrives \/ PollThread
        \/ Sync \/ Accept \/ AcceptFails \/ GetPendingError \/ Close
Spec == Init /\ [][Next]_vars
FairSpec == Spec /\ WF_vars(Port) /\ WF_vars(PollThread) /\ WF_vars(Sync) /\ WF_vars(Accept)
                 /\ WF_vars(sock.close_flag /\ Fails)

----------------------------------------------------------------------------
TypeOK == info \in Info /\ sock.refcnt \in Nat /\ errors \in Nat /\ pending \in BOOLEAN

(* The references are the owner's, the port's and the pending AcceptEx's;  *)
(* loop_read starts an accept only when none is active (its CHECK).        *)
RefsAreExact ==
  kind = "windows" =>
    /\ sock.refcnt = Len(queue) + (IF pending THEN 1 ELSE 0) + (IF client = "closed" THEN 0 ELSE 1)
    /\ iocp = "loop_read" => ~sock.read_active
    /\ pending => sock.read_active

(* A connection that can be accepted is announced, unless accept() has     *)
(* failed: then the owner is told to close.                                *)
Announced ==
  backlog # <<>> => \/ "Read" \in info.flags \cup info.to_write \/ edge \/ iocp = "accepted"
                    \/ "Close" \in info.flags

(* Connections are returned in order, none twice.                          *)
AcceptedInOrder == \A i, j \in 1..Len(accepted \o backlog) :
                     i < j => (accepted \o backlog)[i] < (accepted \o backlog)[j]

(* A closed socket is deleted.                                             *)
ClosedIsDeleted == client = "closed" ~> sock.refcnt = 0
============================================================================
