--------------------------- MODULE MCDescriptors ---------------------------
(***************************************************************************)
(* Descriptors between their owner, the poll thread or the thread of the   *)
(* completion port, and the kernel: sockets on the posix pollers (the      *)
(* module this one extends) and on Windows, UDP sockets on both, listening *)
(* sockets, and the change list of kqueue.  They do not interact, so a     *)
(* behaviour is of one of them, named by part, and they take turns in      *)
(* using the variables v1, v2, ...                                         *)
(***************************************************************************)
EXTENDS PolledSocket, Sequences, SequencesExt

VARIABLES part,   \* the component that this behaviour is of
          v1, v2, v3, v4, v5, v6, v7, v8, v9, v10, v11, v12, v13, v14, v15, v16, v17, v18, v19, v20   \* its variables
mc_vars == <<part, vars, v1, v2, v3, v4, v5, v6, v7, v8, v9, v10, v11, v12, v13, v14, v15, v16, v17, v18, v19, v20>>

Iocp == INSTANCE IocpSocket WITH
  MaxWrites <- 2, MaxIn <- 1, sock <- v1, info <- v2, errors <- v3, queue <- v4, pending <- v5,
  in <- v6, out <- v7, iocp <- v8, client <- v9
Udp == INSTANCE UdpSocket WITH
  Kinds <- {"posix", "windows"}, Batch <- 2, MaxIn <- 2, MaxOut <- 3, MaxErrors <- 1, TooLong <- 9,
  Icmp <- 8, MaxSends <- 3, MaxPackets <- 2, Kept <- 1, kind <- v1, info <- v2, kernel <- v3,
  edges <- v4, awake <- v5, input <- v6, output <- v7, arrived <- v8, taken <- v9, pushed <- v10,
  wire <- v11, dropped <- v12, sock <- v13, errors <- v14, queue <- v15, pending <- v16,
  received <- v17, sends <- v18, iocp <- v19, client <- v20
Changes == INSTANCE KQueueChanges WITH
  Fds <- {3, 4}, MaxNodes <- 4, EventsSize <- 2, node <- v1, made <- v2, listed <- v3, events <- v4,
  filters <- v5, given <- v6, failed <- v7
Server == INSTANCE ServerSocket WITH
  MaxConnections <- 3, MaxErrors <- 1, kind <- v1, sock <- v2, info <- v3, errors <- v4,
  queue <- v5, pending <- v6, backlog <- v7, arrived <- v8, accepted <- v9, broken <- v10,
  edge <- v11, iocp <- v12, client <- v13

MCInit ==
  \/ part = "PolledSocket" /\ Init
     /\ v1 = 0 /\ v2 = 0 /\ v3 = 0 /\ v4 = 0 /\ v5 = 0 /\ v6 = 0 /\ v7 = 0 /\ v8 = 0 /\ v9 = 0 /\ v10 = 0
     /\ v11 = 0 /\ v12 = 0 /\ v13 = 0 /\ v14 = 0 /\ v15 = 0 /\ v16 = 0 /\ v17 = 0 /\ v18 = 0 /\ v19 = 0 /\ v20 = 0
  \/ part = "Iocp" /\ Iocp!Init /\ v10 = 0 /\ v11 = 0 /\ v12 = 0 /\ v13 = 0 /\ v14 = 0 /\ v15 = 0 /\ v16 = 0 /\ v17 = 0 /\ v18 = 0 /\ v19 = 0 /\ v20 = 0 /\ Init /\ kind = "epoll"
  \/ part = "Udp" /\ Udp!Init /\ Init /\ kind = "epoll"
  \/ part = "Changes" /\ Changes!Init /\ v8 = 0 /\ v9 = 0 /\ v10 = 0 /\ v11 = 0 /\ v12 = 0 /\ v13 = 0 /\ v14 = 0 /\ v15 = 0 /\ v16 = 0 /\ v17 = 0 /\ v18 = 0 /\ v19 = 0 /\ v20 = 0 /\ Init /\ kind = "epoll"
  \/ part = "Server" /\ Server!Init /\ v14 = 0 /\ v15 = 0 /\ v16 = 0 /\ v17 = 0 /\ v18 = 0 /\ v19 = 0 /\ v20 = 0 /\ Init /\ kind = "epoll"
MCNext ==
  /\ UNCHANGED part
  /\ \/ part = "PolledSocket" /\ Next /\ UNCHANGED <<v1, v2, v3, v4, v5, v6, v7, v8, v9, v10, v11, v12, v13, v14, v15, v16, v17, v18, v19, v20>>
     \/ part = "Iocp" /\ Iocp!Next /\ UNCHANGED <<v10, v11, v12, v13, v14, v15, v16, v17, v18, v19, v20>> /\ UNCHANGED vars
     \/ part = "Udp" /\ Udp!Next /\ UNCHANGED vars
     \/ part = "Changes" /\ Changes!Next /\ UNCHANGED <<v8, v9, v10, v11, v12, v13, v14, v15, v16, v17, v18, v19, v20>> /\ UNCHANGED vars
     \/ part = "Server" /\ Server!Next /\ UNCHANGED <<v14, v15, v16, v17, v18, v19, v20>> /\ UNCHANGED vars
MCSpec == MCInit /\ [][MCNext]_mc_vars
\* the fairness of each module, while it is the part that runs
MCFairSpec ==
  /\ MCSpec
  /\ WF_vars(part = "PolledSocket" /\ Subscribe)
  /\ WF_vars(part = "PolledSocket" /\ Poller)
  /\ WF_vars(part = "PolledSocket" /\ Owner)
  /\ WF_vars(part = "PolledSocket" /\ PeerReads)
  /\ WF_(Iocp!vars)(part = "Iocp" /\ Iocp!Port)
  /\ WF_(Iocp!vars)(part = "Iocp" /\ v1.close_flag /\ Iocp!Fails)
  /\ WF_(Udp!vars)(part = "Udp" /\ Udp!Posix(Udp!PollThread))
  /\ WF_(Udp!vars)(part = "Udp" /\ Udp!Posix(Udp!Sync))
  /\ WF_(Udp!vars)(part = "Udp" /\ Udp!Posix(Udp!Read))
  /\ WF_(Udp!vars)(part = "Udp" /\ Udp!Posix(Udp!Receive))
  /\ WF_(Udp!vars)(part = "Udp" /\ Udp!Posix(Udp!Drains))
  /\ SF_(Udp!vars)(part = "Udp" /\ Udp!Posix(Udp!WriteOnce))
  /\ WF_(Udp!vars)(part = "Udp" /\ Udp!Windows(Udp!Port))
  /\ WF_(Udp!vars)(part = "Udp" /\ Udp!Windows(v13.close_flag /\ Udp!Fails))
  /\ WF_(Server!vars)(part = "Server" /\ Server!Port)
  /\ WF_(Server!vars)(part = "Server" /\ v2.close_flag /\ Server!Fails)

(* The objects behind a completion port live as long as a completion can   *)
(* reach them, have one operation of a kind under way and announce what    *)
(* they got.  Output waits only for a send under way or for a thread about *)
(* to look at it, until a send fails; a stream socket has one more case,   *)
(* the write() that loop_write misses, which RestIsKnown spells out        *)
(* (SocketFd, UdpSocketFd, ServerSocketFd on Windows; Announced also for   *)
(* the posix listener).                                                    *)
PortKeeps ==
  /\ part = "Iocp" => Iocp!TypeOK /\ Iocp!RefsAreExact /\ Iocp!OneAtATime /\ Iocp!Announced /\ Iocp!RestIsKnown
  /\ part = "Udp" => Udp!RefsAreExact /\ Udp!OneAtATime /\ Udp!PortSentInOrder /\ Udp!NoLostSend
  /\ part = "Server" => Server!TypeOK /\ Server!RefsAreExact /\ Server!Announced /\ Server!AcceptedInOrder

(* Datagrams leave and arrive in order, none twice, whatever the kernel    *)
(* refuses, and the owner knows of those that wait (UdpSocketFd on posix). *)
DatagramsHold == part = "Udp" =>
  /\ Udp!TypeOK /\ Udp!SentInOrder /\ Udp!ReceivedInOrder
  /\ Udp!ReadIsAnnounced /\ Udp!ErrorIsAnnounced /\ Udp!SleepIsSafe

(* No kevent() of the change list ends the program, subscriptions stay in  *)
(* it or in the kernel, and a run gives events to subscribers only, not to *)
(* whoever has the number of a descriptor that was closed (KQueue).        *)
ChangesHold ==
  /\ [](part = "Changes" => Changes!TypeOK /\ Changes!NothingFatal /\ Changes!SubscribedIsKept)
  /\ [][part = "Changes" /\ Changes!Run => v6' \subseteq v3]_mc_vars

(* What the peer sent is read, its end seen and what was queued written or *)
(* the socket closed; datagrams arrive and leave; a closed object of the   *)
(* completion port is deleted.  These are AllRead, EndIsSeen and           *)
(* AllWritten of PolledSocket, AllReceived and AllSent of UdpSocket and    *)
(* ClosedIsDeleted of the three objects on Windows, each of its own part.  *)
Came(n) == IF part = "Udp" THEN Len(v8) >= n ELSE kernel.sent >= n
Taken(n) == IF part = "Udp" THEN Len(SelectSeq(v9, LAMBDA m : m # 8)) >= n ELSE seen >= n \/ Closed
Given(n) == IF part = "Udp" THEN v10 >= n ELSE queued >= n
Gone(n) == IF part = "Udp" THEN Len(v11) + Cardinality(v12) >= n ELSE written >= n \/ Closed
Ending ==
  CASE part = "Iocp" -> v9 = "closed" [] part = "Udp" -> v20 = "closed"
    [] part = "Server" -> v13 = "closed" [] OTHER -> kernel.eof \/ kernel.err
Over ==
  CASE part = "Iocp" -> ~v1.alive [] part = "Udp" -> v13.refcnt = 0
    [] part = "Server" -> v2.refcnt = 0 [] OTHER -> Closed
DescriptorsMove ==
  /\ \A n \in 1..MaxIn : Came(n) ~> Taken(n)
  /\ \A n \in 1..3 : Given(n) ~> Gone(n)
  /\ Ending ~> Over
============================================================================
