---------------------------- MODULE IocpSocket ----------------------------
(***************************************************************************)
(* A socket on Windows (SocketFdImpl of port/SocketFd.cpp): its owner      *)
(* reads, writes and closes in one thread, and the thread of Iocp::loop    *)
(* runs on_iocp for each completion, in the order of the port's queue.     *)
(* Winsock is external: at most one WSARecv (or ConnectEx) and one         *)
(* WSASend are pending, and each ends with a completion.  Data is counted  *)
(* in pieces.                                                              *)
(***************************************************************************)
EXTENDS Integers, Sequences, SequencesExt, PollableFd

CONSTANTS MaxWrites, MaxIn    \* calls of write(), pieces the peer sends

VARIABLES
  sock,     \* the fields of SocketFdImpl; alive until "delete this"
  info,     \* PollableFdInfo
  errors,   \* Len(pending_errors_)
  queue,    \* completions of the port: <<overlapped, size>>, size -1 for an error
  pending,  \* operations winsock holds, of {"read", "write"}
  in,       \* [sent, got, read]: by the peer, in input_writer_, by the owner
  out,      \* [appended, synced, sending, sent]: output_writer_, output_reader_;
            \* history: [missed, failed], see RestIsKnown
  iocp,     \* where the thread of the port is
  client    \* where the owner is
vars == <<sock, info, errors, queue, pending, in, out, iocp, client>>
data == <<in, out>>

Init ==
  /\ \E connect \in BOOLEAN :    \* SocketFdImpl(native_fd, addr) or SocketFdImpl(native_fd)
       /\ pending = IF connect THEN {"read"} ELSE {}
       /\ queue = IF connect THEN <<>> ELSE << <<"read", 0>> >>
  /\ sock = [refcnt |-> 2, close_flag |-> FALSE, connected |-> FALSE, read_active |-> TRUE,
             write_active |-> FALSE, write_waiting |-> FALSE, alive |-> TRUE]
  /\ info = Extract(add_flags(NewInfo, {"Write"})) /\ errors = 0
  /\ in = [sent |-> 0, got |-> 0, read |-> 0]
  /\ out = [appended |-> 0, synced |-> 0, sending |-> 0, sent |-> 0, missed |-> FALSE, failed |-> FALSE]
  /\ iocp = "idle" /\ client = "idle"

IocpHasLock == iocp \in {"write_locked", "write_waits"}

----------------------------------------------------------------------------
\* Winsock

Completes(op, size) ==
  /\ op \in pending /\ pending' = pending \ {op}
  /\ queue' = Append(queue, <<op, size>>)
  /\ UNCHANGED <<sock, info, errors, iocp, client>>
Connects == ~sock.connected /\ Completes("read", 0) /\ UNCHANGED data
Receives ==
  /\ sock.connected /\ in.sent < MaxIn /\ ~sock.close_flag
  /\ in' = [in EXCEPT !.sent = @ + 1] /\ Completes("read", 1) /\ UNCHANGED out
PeerCloses == sock.connected /\ ~sock.close_flag /\ Completes("read", 0) /\ UNCHANGED data
Sends == ~sock.close_flag /\ Completes("write", out.sending) /\ UNCHANGED data
\* a broken connection, or set_native_fd({})
Fails == \E op \in pending : Completes(op, -1) /\ UNCHANGED data

----------------------------------------------------------------------------
\* The thread of the port

add_flags_from_poll(flags) == info' = write_flags(info, flags)
\* loop_read, and on_error when WSARecv fails at once; its return under close_flag_
\* never happens: on_iocp has looked, and only this thread sets the flag
LoopRead(s, then, onerror) ==
  \/ /\ sock' = [s EXCEPT !.refcnt = @ + 1, !.read_active = TRUE]
     /\ pending' = pending \cup {"read"} /\ iocp' = then /\ UNCHANGED errors
  \/ sock' = s /\ errors' = errors + 1 /\ iocp' = onerror /\ UNCHANGED pending

\* dec_refcnt and the dispatch of on_iocp
Begin == iocp = "idle" /\ queue # <<>> /\ sock.alive /\ queue' = Tail(queue) /\ UNCHANGED <<in, client>>
Left == [sock EXCEPT !.refcnt = @ - 1, !.alive = sock.refcnt > 1]
Ignored == sock.refcnt = 1 \/ sock.close_flag

Ignore == Begin /\ Ignored /\ sock' = Left /\ UNCHANGED <<info, errors, pending, out, iocp>>
OnError ==
  /\ Begin /\ ~Ignored /\ Head(queue)[2] = -1
  /\ sock' = Left /\ errors' = errors + 1 /\ iocp' = "on_error"
  /\ out' = [out EXCEPT !.failed = @ \/ Head(queue)[1] = "write"]
  /\ UNCHANGED <<info, pending>>
AddErrorFlag ==
  /\ iocp \in {"on_error", "on_error_write"} /\ add_flags_from_poll({"Error"})
  /\ iocp' = IF iocp = "on_error" THEN "idle" ELSE "write"
  /\ UNCHANGED <<sock, errors, queue, pending, data, client>>
OnConnected ==
  /\ Begin /\ ~Ignored /\ ~sock.connected /\ Head(queue) = <<"read", 0>>
  /\ LoopRead([Left EXCEPT !.connected = TRUE, !.read_active = FALSE], "write", "on_error_write")
  /\ UNCHANGED <<info, out>>
OnRead ==    \* confirm_append; the flag and loop_read are the next step
  /\ iocp = "idle" /\ queue # <<>> /\ sock.alive /\ ~Ignored /\ sock.connected
  /\ Head(queue)[1] = "read" /\ Head(queue)[2] >= 0
  /\ queue' = Tail(queue) /\ sock' = [Left EXCEPT !.read_active = FALSE]
  /\ IF Head(queue)[2] = 0 THEN add_flags_from_poll({"Close"}) /\ UNCHANGED <<in, iocp>>
     ELSE in' = [in EXCEPT !.got = @ + 1] /\ iocp' = "read" /\ UNCHANGED info
  /\ UNCHANGED <<errors, pending, out, client>>
AddReadFlag ==
  /\ iocp = "read" /\ add_flags_from_poll({"Read"}) /\ iocp' = "read_flagged"
  /\ UNCHANGED <<sock, errors, queue, pending, data, client>>
ReadOn ==
  /\ iocp = "read_flagged" /\ LoopRead(sock, "idle", "on_error")
  /\ UNCHANGED <<info, queue, data, client>>
OnWrite ==
  /\ Begin /\ ~Ignored /\ Head(queue)[1] \in {"write", "kick"} /\ Head(queue)[2] >= 0
  /\ IF Head(queue)[2] = 0 /\ sock.write_active
     THEN sock' = Left /\ UNCHANGED <<out, iocp>>
     ELSE /\ sock' = [Left EXCEPT !.write_active = FALSE] /\ iocp' = "write"
          /\ out' = [out EXCEPT !.sent = @ + Head(queue)[2], !.sending = 0]
  /\ UNCHANGED <<info, errors, pending>>
OnClose ==
  /\ Begin /\ ~Ignored /\ Head(queue)[1] = "close"
  /\ sock' = [Left EXCEPT !.close_flag = TRUE]
  /\ UNCHANGED <<info, errors, pending, out, iocp>>

\* loop_write: sync_with_writer, then WSASend, or the lock and a second look
Start(failed) ==
  IF failed THEN errors' = errors + 1 /\ iocp' = "on_error" /\ UNCHANGED <<sock, pending>>
  ELSE /\ sock' = [sock EXCEPT !.refcnt = @ + 1, !.write_active = TRUE]
       /\ pending' = pending \cup {"write"} /\ iocp' = "idle" /\ UNCHANGED errors
LoopWrite ==
  /\ iocp \in {"write", "write_locked"}
  /\ iocp = "write" => client # "locked"
  /\ IF out.appended > out.sent
     THEN \E failed \in BOOLEAN :
            /\ out' = [out EXCEPT !.synced = out.appended, !.sending = out.appended - out.sent,
                                  !.missed = FALSE, !.failed = failed]
            /\ Start(failed)
     ELSE /\ iocp' = IF iocp = "write" THEN "write_locked" ELSE "write_waits"
          /\ UNCHANGED <<sock, errors, pending, out>>
  /\ UNCHANGED <<info, queue, in, client>>
SetWaiting ==
  /\ iocp = "write_waits" /\ iocp' = "idle" /\ sock' = [sock EXCEPT !.write_waiting = TRUE]
  /\ UNCHANGED <<info, errors, queue, pending, data, client>>

Port == \/ Ignore \/ OnError \/ AddErrorFlag \/ OnConnected \/ OnRead \/ AddReadFlag \/ ReadOn
        \/ OnWrite \/ OnClose \/ LoopWrite \/ SetWaiting

----------------------------------------------------------------------------
\* The owner

Write ==
  /\ client = "idle" /\ out.appended < MaxWrites
  /\ out' = [out EXCEPT !.appended = @ + 1] /\ client' = "check"
  /\ UNCHANGED <<sock, info, errors, queue, pending, in, iocp>>
WriteFinish ==
  /\ \/ /\ client = "check" /\ client' = IF sock.write_waiting THEN "lock" ELSE "idle"
        /\ out' = [out EXCEPT !.missed = @ \/ (iocp = "write_waits" /\ ~sock.write_waiting)]
     \/ client = "lock" /\ ~IocpHasLock /\ client' = "locked" /\ UNCHANGED out
  /\ UNCHANGED <<sock, info, errors, queue, pending, in, iocp>>
ClearWaiting ==
  /\ client = "locked" /\ client' = "notify" /\ sock' = [sock EXCEPT !.write_waiting = FALSE]
  /\ UNCHANGED <<info, errors, queue, pending, data, iocp>>
NotifyUncounted ==   \* a mutant: no reference for the completion it posts
  /\ client = "notify" /\ client' = "idle" /\ queue' = Append(queue, <<"kick", 0>>)
  /\ UNCHANGED <<sock, info, errors, pending, data, iocp>>
NotifyWrite ==
  /\ client = "notify" /\ client' = "idle"
  /\ sock' = [sock EXCEPT !.refcnt = @ + 1] /\ queue' = Append(queue, <<"kick", 0>>)
  /\ UNCHANGED <<info, errors, pending, data, iocp>>

Sync ==
  /\ client = "idle" /\ info.to_write # {} /\ info' = flush(info)
  /\ UNCHANGED <<sock, errors, queue, pending, data, iocp, client>>
GetPendingError ==
  /\ client = "idle" /\ "Error" \in info.flags /\ ~IocpHasLock
  /\ IF errors > 0 THEN errors' = errors - 1 /\ UNCHANGED info
     ELSE info' = clear_flags(info, {"Error"}) /\ UNCHANGED errors
  /\ UNCHANGED <<sock, queue, pending, data, iocp, client>>
\* flags say Read; an error pending is returned first
Read ==
  /\ client = "idle" /\ "Read" \in info.flags /\ ("Error" \in info.flags => errors = 0)
  /\ LET kept == IF "Error" \in info.flags THEN clear_flags(info, {"Error"}) ELSE info
     IN  IF in.got > in.read THEN in' = [in EXCEPT !.read = in.got] /\ info' = kept
         ELSE info' = clear_flags(kept, {"Read"}) /\ UNCHANGED in
  /\ UNCHANGED <<sock, errors, queue, pending, out, iocp, client>>
Close ==
  /\ client = "idle" /\ client' = "closed" /\ queue' = Append(queue, <<"close", 0>>)
  /\ UNCHANGED <<sock, info, errors, pending, data, iocp>>
Owner == Write \/ WriteFinish \/ ClearWaiting \/ NotifyWrite \/ Sync \/ GetPendingError \/ Read \/ Close

Next == Port \/ Owner \/ Connects \/ Receives \/ PeerCloses \/ Sends \/ Fails
Spec == Init /\ [][Next]_vars
FairSpec == Spec /\ WF_vars(Port) /\ WF_vars(Sync) /\ WF_vars(GetPendingError) /\ WF_vars(Read)
                 /\ WF_vars(sock.close_flag /\ Fails)

----------------------------------------------------------------------------
TypeOK ==
  /\ sock.refcnt \in Nat /\ sock.alive \in BOOLEAN /\ info \in Info /\ errors \in Nat
  /\ pending \subseteq {"read", "write"}
  /\ in.read <= in.got /\ in.got <= in.sent /\ out.sent <= out.synced /\ out.synced <= out.appended

(* The references are those of the owner (or of the close it has posted),  *)
(* of the completions in the queue and of the operations winsock holds:    *)
(* "delete this" leaves no completion behind that would reach the object.  *)
RefsAreExact ==
  /\ sock.refcnt = Cardinality(pending) + Len(queue) + (IF client = "closed" THEN 0 ELSE 1)
  /\ sock.alive <=> sock.refcnt > 0

(* The CHECKs of loop_read, loop_write, on_connected, on_read and          *)
(* on_write: one receive and one send at a time, none before on_connected. *)
OneAtATime ==
  /\ iocp \in {"write", "write_locked", "write_waits"} => sock.connected /\ ~sock.write_active
  /\ iocp \in {"read", "read_flagged"} => sock.connected /\ ~sock.read_active
  /\ \A op \in pending : \A i \in 1..Len(queue) : queue[i][1] # op
  /\ "read" \in pending => sock.read_active
  /\ "write" \in pending => sock.write_active

(* What arrived and was not read is announced to the owner, or is about to *)
(* be; so is an error that is still in pending_errors_.                    *)
Announced ==
  /\ in.got > in.read => "Read" \in info.flags \cup info.to_write \/ iocp = "read"
  /\ errors > 0 => \/ "Error" \in info.flags \cup info.to_write
                   \/ iocp \in {"on_error", "on_error_write"}

(* Output that waits has a send under way, or a thread that is about to    *)
(* look at it, but for two cases.  A send has failed, at once or later, and *)
(* loop_write has not run since: then nothing runs it again.  Or the       *)
(* output is missed: its write() read is_write_waiting_ after the second   *)
(* sync_with_writer of loop_write and before is_write_waiting_ = true, and  *)
(* posted nothing; it rests, with the flag set, until the next write().    *)
RestIsKnown ==
  (out.appended > out.sent /\ sock.connected /\ ~sock.close_flag /\ ~out.failed)
  => \/ "write" \in pending \/ \E i \in 1..Len(queue) : queue[i][1] \in {"write", "kick"}
     \/ iocp \in {"on_error_write", "write", "write_locked"}
     \/ client \in {"check", "lock", "locked", "notify"}
     \/ out.missed /\ (iocp = "write_waits" \/ sock.write_waiting)

(* A closed socket is deleted once winsock has given up what it held.      *)
ClosedIsDeleted == client = "closed" ~> ~sock.alive
============================================================================
