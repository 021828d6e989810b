----------------------------- MODULE UdpSocket -----------------------------
(***************************************************************************)
(* A UDP socket, of one of two kinds.                                     *)
(*                                                                         *)
(* On posix, with its two queues: UdpSocketFdImpl (port/UdpSocketFd.cpp),  *)
(* UdpWriter, UdpReader and BufferedUdp (BufferedUdp.h, over               *)
(* VectorQueue.h).  The kernel is external: packets and entries of the     *)
(* error queue arrive at any time, each raises an edge that the poll       *)
(* thread turns into a flag, and a send may be taken, put off, refused for *)
(* good or refused for a while.  A packet is its number; TooLong is one    *)
(* that arrives truncated, and Icmp an entry of the error queue.           *)
(*                                                                         *)
(* On Windows (the first UdpSocketFdImpl of that file): its owner in one   *)
(* thread, the thread of Iocp::loop in another, and two queues under one   *)
(* spin lock between them.  Unlike the stream socket it decides that a     *)
(* send has to wait under the lock that send() takes.  Winsock is          *)
(* external.                                                               *)
(***************************************************************************)
EXTENDS Integers, Sequences, SequencesExt, FiniteSets, PollableFd

CONSTANTS Kinds,                     \* of "posix", "windows"
          Batch,                     \* messages of one system call, 16 in the code
          MaxIn, MaxOut, MaxErrors,  \* bounds: packets each way, errors of each sort
          TooLong, Icmp,
          MaxSends, MaxPackets,      \* Windows: calls of send(), packets that arrive
          Kept                       \* read_pos_ > Kept in VectorQueue::try_shrink, 4 in the code

\* VectorQueue: a vector whose read part is erased once it is more than half of it
NewQueue == [vector |-> <<>>, read_pos |-> 0]
as_span(q) == SubSeq(q.vector, q.read_pos + 1, Len(q.vector))
size(q) == Len(q.vector) - q.read_pos
push(q, x) == [q EXCEPT !.vector = Append(@, x)]
try_shrink(q) == IF q.read_pos * 2 > Len(q.vector) /\ q.read_pos > Kept
                 THEN [vector |-> as_span(q), read_pos |-> 0] ELSE q
front(q) == q.vector[q.read_pos + 1]
pop(q) == [try_shrink(q) EXCEPT !.read_pos = @ + 1]
pop_n_erased(q, n) == try_shrink([q EXCEPT !.read_pos = Len(q.vector)])   \* a mutant: the whole batch
pop_n(q, n) == try_shrink([q EXCEPT !.read_pos = @ + n])

VARIABLES
  kind,
  info,     \* PollableFdInfo
  \* posix
  kernel,   \* [rx, errs, refused]: packets that wait, error queue, refusals so far
  edges,    \* flags the poll thread has not added yet
  awake,
  input, output,      \* VectorQueues
  arrived, taken,     \* what the kernel has received, what receive() has returned
  pushed, wire, dropped, \* messages of send(), what the kernel took, what it refused for good
  \* Windows
  sock,     \* refcnt_ and the flags of UdpSocketFdImpl
  errors,   \* Len(pending_errors_)
  queue,    \* completions of the port: <<overlapped, outcome>>
  pending,  \* operations winsock holds, of {"receive", "send"}
  received, \* [arrived, queue, taken]: receive_queue_ between winsock and the owner
  sends,    \* [pushed, queue, active, wire]: send_queue_ and to_send_ between them;
            \* history: [failed], the last send that was tried failed
  iocp, client
posix_vars == <<kernel, edges, awake, input, output, arrived, taken, pushed, wire, dropped>>
windows_vars == <<sock, errors, queue, pending, received, sends, iocp, client>>
vars == <<kind, info, posix_vars, windows_vars>>
reading == <<input, arrived, taken>>
writing == <<output, pushed, wire, dropped>>
data == <<received, sends>>

InitPosix ==
  /\ kernel = [rx |-> <<>>, errs |-> 0, refused |-> 0] /\ edges = {"Write"} /\ awake = FALSE
  /\ input = NewQueue /\ output = NewQueue
  /\ arrived = <<>> /\ taken = <<>> /\ pushed = 0 /\ wire = <<>> /\ dropped = {}
InitWindows ==
  /\ sock = [refcnt |-> 2, close_flag |-> FALSE, connected |-> FALSE,
             receive_active |-> TRUE, send_active |-> FALSE, send_waiting |-> FALSE]
  /\ errors = 0 /\ queue = << <<"receive", "ok">> >> /\ pending = {}     \* notify_iocp_connected
  /\ received = [arrived |-> 0, queue |-> <<>>, taken |-> 0]
  /\ sends = [pushed |-> 0, queue |-> <<>>, wire |-> <<>>, active |-> 0, failed |-> FALSE]
  /\ iocp = "idle" /\ client = "idle"
Init == /\ kind \in Kinds /\ InitPosix /\ InitWindows
        /\ info = Extract(IF kind = "posix" THEN NewInfo ELSE add_flags(NewInfo, {"Write"}))

----------------------------------------------------------------------------
\* The kernel and the poll thread

Arrive == \E packet \in {Len(arrived) + 1, TooLong} :
  /\ Len(arrived) < MaxIn /\ arrived' = Append(arrived, packet)
  /\ kernel' = [kernel EXCEPT !.rx = Append(@, packet)] /\ edges' = edges \cup {"Read"}
  /\ UNCHANGED <<info, awake, input, taken, writing>>
IcmpArrives ==
  /\ kernel.errs = 0 /\ kernel.refused < MaxErrors
  /\ kernel' = [kernel EXCEPT !.errs = 1, !.refused = @ + 1] /\ edges' = edges \cup {"Error"}
  /\ UNCHANGED <<info, awake, reading, writing>>
Drains ==    \* room for output again
  /\ "Write" \notin edges \cup info.to_write \cup info.flags /\ edges' = edges \cup {"Write"}
  /\ UNCHANGED <<kernel, info, awake, reading, writing>>
PollThread ==
  /\ edges # {} /\ edges' = {} /\ info' = write_flags(info, edges)
  /\ awake' = (awake \/ Notifies(info, edges))
  /\ UNCHANGED <<kernel, reading, writing>>

----------------------------------------------------------------------------
\* UdpReader::read_once over receive_messages_fast

ErrQueue == "Error" \in info.flags    \* flags = MSG_ERRQUEUE
\* recvmmsg: what it returns; nothing is EAGAIN
Batched(s) == SubSeq(s, 1, IF Len(s) < Batch THEN Len(s) ELSE Batch)
recvmmsg == IF ErrQueue THEN [i \in 1..kernel.errs |-> Icmp] ELSE Batched(kernel.rx)
pushAll(q, messages) == FoldLeft(push, q, messages)

Readable == awake /\ size(input) = 0 /\ can_read_local(info)
ReadOnce ==
  /\ Readable /\ recvmmsg # <<>>
  /\ input' = pushAll(input, recvmmsg)
  /\ kernel' = IF ErrQueue THEN [kernel EXCEPT !.errs = 0]
               ELSE [kernel EXCEPT !.rx = SubSeq(@, Len(recvmmsg) + 1, Len(@))]
  /\ UNCHANGED <<edges, info, awake, arrived, taken, writing>>
\* process_recvmsg_error: EAGAIN
eagain_flag == IF ErrQueue THEN {"Error"} ELSE {"Read"}
ReadAgain ==
  /\ Readable /\ recvmmsg = <<>> /\ info' = clear_flags(info, eagain_flag)
  /\ UNCHANGED <<kernel, edges, awake, reading, writing>>
\* process_recvmsg_error: an error that is not fatal is queued unless it is critical
ReadFails ==
  /\ Readable /\ kernel.refused < MaxErrors
  /\ kernel' = [kernel EXCEPT !.refused = @ + 1] /\ info' = add_flags(info, {"Error"})
  /\ \/ UNCHANGED input                          \* ENOMEM, ENOBUFS
     \/ input' = push(input, Icmp)
  /\ UNCHANGED <<edges, awake, arrived, taken, writing>>
Receive ==
  /\ awake /\ size(input) > 0
  /\ taken' = Append(taken, front(input)) /\ input' = pop(input)
  /\ UNCHANGED <<kernel, edges, info, awake, arrived, writing>>

----------------------------------------------------------------------------
\* UdpWriter::write_once over send_messages_fast, in the loop of flush_send

Send ==
  /\ pushed < MaxOut /\ pushed' = pushed + 1 /\ output' = push(output, pushed + 1)
  /\ awake' = TRUE
  /\ UNCHANGED <<kernel, edges, info, reading, wire, dropped>>
Writable == awake /\ can_write_local(info) /\ size(output) > 0
\* sendmmsg takes the first n of the batch
WriteOnce == \E n \in 1..Len(Batched(as_span(output))) :
  /\ Writable
  /\ wire' = wire \o SubSeq(as_span(output), 1, n) /\ output' = pop_n(output, n)
  /\ UNCHANGED <<kernel, edges, info, awake, reading, pushed, dropped>>
\* process_sendmsg_error: EAGAIN; EACCES, EMSGSIZE, EPERM; the general problems
WriteAgain ==
  /\ Writable /\ info' = clear_flags(info, {"Write"})
  /\ UNCHANGED <<kernel, edges, awake, reading, writing>>
WriteDrops ==
  /\ Writable /\ kernel.refused < MaxErrors /\ kernel' = [kernel EXCEPT !.refused = @ + 1]
  /\ dropped' = dropped \cup {front(output)} /\ output' = pop_n(output, 1)
  /\ UNCHANGED <<edges, info, awake, reading, pushed, wire>>
WriteFails ==
  /\ Writable /\ kernel.refused < MaxErrors /\ kernel' = [kernel EXCEPT !.refused = @ + 1]
  /\ info' = add_flags(info, {"Error"})
  /\ UNCHANGED <<edges, awake, reading, writing>>

Sync == awake /\ info.to_write # {} /\ info' = flush(info) /\ UNCHANGED <<kernel, edges, awake, reading, writing>>
\* the caller goes on while it can read or write
Sleep ==
  /\ awake /\ info.to_write = {} /\ ~can_read_local(info) /\ size(input) = 0 /\ ~Writable
  /\ awake' = FALSE /\ UNCHANGED <<kernel, edges, info, reading, writing>>

Write == WriteOnce \/ WriteAgain \/ WriteDrops \/ WriteFails
Read == ReadOnce \/ ReadAgain \/ ReadFails
NextPosix == \/ Arrive \/ IcmpArrives \/ Drains \/ PollThread
             \/ Read \/ Receive \/ Send \/ Write \/ Sync \/ Sleep

----------------------------------------------------------------------------
\* Winsock: a pending operation ends

Completes(op, outcome) ==
  /\ op \in pending /\ pending' = pending \ {op} /\ queue' = Append(queue, <<op, outcome>>)
  /\ UNCHANGED <<sock, info, errors, iocp, client>>
Arrives ==
  /\ ~sock.close_flag /\ received.arrived < MaxPackets /\ Completes("receive", "ok")
  /\ received' = [received EXCEPT !.arrived = @ + 1] /\ UNCHANGED sends
Sends ==
  /\ ~sock.close_flag /\ Completes("send", "ok")
  /\ sends' = [sends EXCEPT !.wire = Append(@, sends.active), !.active = 0] /\ UNCHANGED received
Fails == \E op \in pending : Completes(op, "error") /\ UNCHANGED data

----------------------------------------------------------------------------
\* The thread of the port: on_iocp

Ignored == sock.refcnt = 1 \/ sock.close_flag
Left == [sock EXCEPT !.refcnt = @ - 1]
Begin(overlapped) ==
  /\ iocp = "idle" /\ queue # <<>> /\ sock.refcnt > 0 /\ ~Ignored
  /\ Head(queue) \in overlapped \X {"ok"}
  /\ queue' = Tail(queue)

Ignore ==
  /\ iocp = "idle" /\ queue # <<>> /\ sock.refcnt > 0 /\ Ignored
  /\ queue' = Tail(queue) /\ sock' = Left
  /\ UNCHANGED <<info, errors, pending, data, iocp, client>>
OnError ==
  /\ iocp = "idle" /\ queue # <<>> /\ sock.refcnt > 0 /\ ~Ignored /\ Head(queue)[2] = "error"
  /\ queue' = Tail(queue) /\ sock' = Left /\ errors' = errors + 1 /\ iocp' = "on_error"
  /\ sends' = [sends EXCEPT !.failed = @ \/ Head(queue)[1] = "send"]
  /\ UNCHANGED <<info, pending, received, client>>
AddErrorFlag ==
  /\ iocp \in {"on_error", "on_error_send"} /\ info' = write_flags(info, {"Error"})
  /\ iocp' = IF iocp = "on_error" THEN "idle" ELSE "send"
  /\ UNCHANGED <<sock, errors, queue, pending, data, client>>
\* loop_receive: WSARecvMsg holds the operation or fails at once
LoopReceive(s, then, onerror) ==
  \/ /\ sock' = [s EXCEPT !.refcnt = @ + 1, !.receive_active = TRUE]
     /\ pending' = pending \cup {"receive"} /\ iocp' = then /\ UNCHANGED errors
  \/ sock' = s /\ errors' = errors + 1 /\ iocp' = onerror /\ UNCHANGED pending
OnConnected ==
  /\ ~sock.connected /\ Begin({"receive"})
  /\ LoopReceive([Left EXCEPT !.connected = TRUE, !.receive_active = FALSE], "send", "on_error_send")
  /\ UNCHANGED <<info, data, client>>
OnReceive ==     \* the packet goes to receive_queue_ under the lock, then the flag is added
  /\ sock.connected /\ Begin({"receive"})
  /\ sock' = [Left EXCEPT !.receive_active = FALSE] /\ iocp' = "received"
  /\ received' = [received EXCEPT !.queue = Append(@, received.arrived)]
  /\ UNCHANGED <<info, errors, pending, sends, client>>
AddReadFlag ==
  /\ iocp = "received" /\ info' = write_flags(info, {"Read"}) /\ iocp' = "receive"
  /\ UNCHANGED <<sock, errors, queue, pending, data, client>>
ReceiveOn ==
  /\ iocp = "receive" /\ LoopReceive(sock, "idle", "on_error")
  /\ UNCHANGED <<info, queue, data, client>>
OnSend ==        \* a send has ended, or notify_iocp_send: then a send may be active
  /\ Begin({"send", "kick"})
  /\ IF Head(queue)[1] = "kick" /\ sock.send_active THEN sock' = Left /\ UNCHANGED iocp
     ELSE sock' = [Left EXCEPT !.send_active = FALSE] /\ iocp' = "send"
  /\ UNCHANGED <<info, errors, pending, data, client>>
\* loop_send: under the lock the queue is empty and is_send_waiting_ set, or a message is taken
LoopSend ==
  /\ iocp = "send"
  /\ IF sends.queue = <<>>
     THEN /\ sock' = [sock EXCEPT !.send_waiting = TRUE] /\ iocp' = "idle"
          /\ sends' = [sends EXCEPT !.failed = FALSE]
     ELSE /\ sends' = [sends EXCEPT !.queue = Tail(@), !.active = Head(sends.queue), !.failed = FALSE]
          /\ iocp' = "send_message" /\ UNCHANGED sock
  /\ UNCHANGED <<info, errors, queue, pending, received, client>>
SendMessage ==
  /\ iocp = "send_message"
  /\ \/ /\ sock' = [sock EXCEPT !.refcnt = @ + 1, !.send_active = TRUE]
        /\ pending' = pending \cup {"send"} /\ iocp' = "idle" /\ UNCHANGED <<errors, sends>>
     \/ /\ errors' = errors + 1 /\ iocp' = "on_error" /\ UNCHANGED <<sock, pending>>
        /\ sends' = [sends EXCEPT !.failed = TRUE]
  /\ UNCHANGED <<info, queue, received, client>>
OnClose ==
  /\ Begin({"close"}) /\ sock' = [Left EXCEPT !.close_flag = TRUE]
  /\ UNCHANGED <<info, errors, pending, data, iocp, client>>
Port == \/ Ignore \/ OnError \/ AddErrorFlag \/ OnConnected \/ OnReceive \/ AddReadFlag \/ ReceiveOn
        \/ OnSend \/ LoopSend \/ SendMessage \/ OnClose

----------------------------------------------------------------------------
\* The owner, whose sends end in flush_send

PortSend ==
  /\ client = "idle" /\ sends.pushed < MaxSends /\ client' = "flush"
  /\ sends' = [sends EXCEPT !.pushed = @ + 1, !.queue = Append(@, sends.pushed + 1)]
  /\ UNCHANGED <<sock, info, errors, queue, pending, received, iocp>>
FlushSend ==     \* is_send_waiting_ is read without the lock
  /\ client = "flush" /\ client' = IF sock.send_waiting THEN "notify" ELSE "idle"
  /\ UNCHANGED <<sock, info, errors, queue, pending, data, iocp>>
NotifySend ==
  /\ client = "notify" /\ client' = "idle"
  /\ sock' = [sock EXCEPT !.send_waiting = FALSE, !.refcnt = @ + 1]
  /\ queue' = Append(queue, <<"kick", "ok">>)
  /\ UNCHANGED <<info, errors, pending, data, iocp>>
PortReceive ==       \* an error first, then a packet; the flags are left alone
  /\ client = "idle"
  /\ \/ errors > 0 /\ errors' = errors - 1 /\ UNCHANGED received
     \/ /\ errors = 0 /\ received.queue # <<>> /\ UNCHANGED errors
        /\ received' = [received EXCEPT !.taken = Head(received.queue), !.queue = Tail(@)]
  /\ UNCHANGED <<sock, info, queue, pending, sends, iocp, client>>
Close ==
  /\ client = "idle" /\ client' = "closed" /\ queue' = Append(queue, <<"close", "ok">>)
  /\ UNCHANGED <<sock, info, errors, pending, data, iocp>>

NextWindows == Port \/ Arrives \/ Sends \/ Fails \/ PortSend \/ FlushSend \/ NotifySend \/ PortReceive \/ Close

Posix(A) == kind = "posix" /\ A /\ UNCHANGED <<kind, windows_vars>>
Windows(A) == kind = "windows" /\ A /\ UNCHANGED <<kind, posix_vars>>
Next == Posix(NextPosix) \/ Windows(NextWindows)
Spec == Init /\ [][Next]_vars
\* the kernel takes what it is offered again and again; winsock answers
FairSpec ==
  /\ Spec
  /\ WF_vars(Posix(PollThread)) /\ WF_vars(Posix(Sync)) /\ WF_vars(Posix(Read))
  /\ WF_vars(Posix(Receive)) /\ WF_vars(Posix(Drains)) /\ SF_vars(Posix(WriteOnce))
  /\ WF_vars(Windows(Port)) /\ WF_vars(Windows(FlushSend)) /\ WF_vars(Windows(NotifySend))
  /\ WF_vars(Windows(Sends)) /\ WF_vars(Windows(sock.close_flag /\ Fails))

----------------------------------------------------------------------------
TypeOK ==
  /\ info \in Info /\ edges \subseteq PollFlags /\ awake \in BOOLEAN
  /\ input.read_pos <= Len(input.vector) /\ output.read_pos <= Len(output.vector)
  /\ sock.refcnt \in Nat /\ errors \in Nat
  /\ pending \subseteq {"receive", "send"} /\ received.taken <= received.arrived

(* Messages leave in the order of send(), each once; what is missing on    *)
(* the wire was refused for good or is still in output_.                   *)
SentInOrder ==
  wire \o as_span(output) = SelectSeq([i \in 1..pushed |-> i], LAMBDA m : m \notin dropped)

(* Packets are received in the order they arrived, none twice, none lost.  *)
ReceivedInOrder ==
  SelectSeq(taken \o as_span(input), LAMBDA m : m # Icmp) \o kernel.rx = arrived

(* A packet that waits in the kernel is known to the owner or on its way   *)
(* to it: reading the error queue to its end does not clear Read.          *)
ReadIsAnnounced == kernel.rx # <<>> => "Read" \in edges \cup info.to_write \cup info.flags
ErrorIsAnnounced == kernel.errs > 0 => "Error" \in edges \cup info.to_write \cup info.flags

(* The owner does not sleep over flags it has not seen.                    *)
SleepIsSafe == kind = "posix" /\ info.to_write # {} => awake

(* Every packet is received, and every message leaves.                     *)
AllReceived == \A n \in 1..MaxIn : Len(arrived) >= n ~> Len(SelectSeq(taken, LAMBDA m : m # Icmp)) >= n
AllSent == \A n \in 1..MaxOut : pushed >= n ~> Len(wire) + Cardinality(dropped) >= n

(* The owner, the completions of the port and winsock hold the references. *)
RefsAreExact == sock.refcnt = Cardinality(pending) + Len(queue) + (IF client = "closed" THEN 0 ELSE 1)

(* The CHECKs of loop_receive, loop_send, on_connected, on_receive.        *)
OneAtATime ==
  /\ iocp \in {"send", "send_message"} => sock.connected /\ ~sock.send_active
  /\ iocp \in {"received", "receive"} => ~sock.receive_active
  /\ pending # {} => sock.connected
  /\ "receive" \in pending => sock.receive_active
  /\ "send" \in pending => sock.send_active

(* Messages are sent in the order of send(), none twice.                   *)
PortSentInOrder == \A i, j \in 1..Len(sends.wire) : i < j => sends.wire[i] < sends.wire[j]

(* A message waits in send_queue_ only while a send is under way or the    *)
(* thread of the port or the owner is about to look, unless a send has     *)
(* failed, at once or later, and loop_send has not run since: then nothing *)
(* runs it again.                                                          *)
NoLostSend ==
  (sends.queue # <<>> /\ sock.connected /\ ~sock.close_flag /\ ~sends.failed)
  => \/ "send" \in pending \/ \E i \in 1..Len(queue) : queue[i][1] \in {"send", "kick"}
     \/ client \in {"flush", "notify"}
     \/ iocp \in {"on_error_send", "send", "send_message"}

(* A closed socket is deleted.                                             *)
ClosedIsDeleted == client = "closed" ~> sock.refcnt = 0
============================================================================
