--------------------------- MODULE PolledSocket ---------------------------
(***************************************************************************)
(* A posix socket (port/SocketFd.cpp) behind a BufferedFd, subscribed to   *)
(* one of the pollers (detail/Epoll, KQueue, Poll, Select).  Four actors:  *)
(* the kernel with the peer behind it, the poll thread, the owner of the   *)
(* descriptor, who sleeps until the observer is notified, and the          *)
(* application that queues output.  Data is counted in pieces.             *)
(*                                                                         *)
(* The kernel is external.  ready is what an edge-triggered poller has     *)
(* not reported yet; poll and select report levels.  EAGAIN and the change *)
(* of the flags after it are two steps: events arrive between them.        *)
(* Select looks at the owner's flags, so its owner sleeps while it runs.   *)
(***************************************************************************)
EXTENDS Integers, PollableFd, TLAPS

CONSTANTS Kinds,        \* pollers, a subset of {"epoll", "kqueue", "poll", "select"}
          MaxIn, MaxOut,\* pieces the peer sends, pieces the application writes
          Space         \* pieces the kernel takes before the peer reads
ASSUME BoundsAssumption == MaxIn \in Nat /\ MaxOut \in Nat /\ Space \in Nat

VARIABLES kind,
          kernel,       \* [sent, rx, tx, eof, err]: by the peer so far, readable, unread by the peer
          ready,        \* edges not reported yet
          event,        \* flags of the event the poll thread is on, "none" between two
          info,         \* PollableFdInfo
          wake,         \* the observer has been notified
          at,           \* [step, left]: the owner's loop; left: what remains of max_read
          got, seen,    \* pieces appended by flush_read, and visible to input_reader_
          queued, written   \* pieces of output: in output_reader_, taken by the kernel
vars == <<kind, kernel, ready, event, info, wake, at, got, seen, queued, written>>
polled == <<kind, ready, event>>
counts == <<got, seen, queued, written>>
None == {"none"}
Edge == {"epoll", "kqueue"}
Sleep == [step |-> "sleep", left |-> 0]

Init == /\ kind \in Kinds
        /\ kernel = [sent |-> 0, rx |-> 0, tx |-> 0, eof |-> FALSE, err |-> FALSE]
        /\ ready = {} /\ event = None /\ info = NewInfo /\ wake = FALSE
        /\ at = [step |-> "new", left |-> 0]
        /\ got = 0 /\ seen = 0 /\ queued = 0 /\ written = 0

Closed == at.step = "closed"
Subscribed == info.lock

----------------------------------------------------------------------------
\* The kernel and the peer

Levels(k) ==
  (IF k.rx > 0 \/ k.eof \/ k.err THEN {"Read"} ELSE {})
  \cup (IF k.tx < Space \/ k.err THEN {"Write"} ELSE {})
  \cup (IF k.err \/ (k.eof /\ kind \in Edge) THEN {"Close"} ELSE {})
  \cup (IF k.err /\ kind # "kqueue" THEN {"Error"} ELSE {})

Change(k, edges) ==
  /\ ~Closed /\ ~kernel.err /\ kernel' = k
  /\ ready' = IF kind \in Edge /\ Subscribed THEN ready \cup edges ELSE ready
  /\ UNCHANGED <<kind, event, info, wake, at, counts>>

PeerSends == /\ kernel.sent < MaxIn /\ ~kernel.eof
             /\ Change([kernel EXCEPT !.sent = @ + 1, !.rx = @ + 1], {"Read"})
PeerReads == /\ kernel.tx > 0
             /\ Change([kernel EXCEPT !.tx = 0], IF kernel.tx = Space THEN {"Write"} ELSE {})
PeerShuts == ~kernel.eof /\ Change([kernel EXCEPT !.eof = TRUE], {"Read", "Close"})
Fails == Change([kernel EXCEPT !.err = TRUE, !.rx = 0], PollFlags)

----------------------------------------------------------------------------
\* The poll thread

\* extract_pollable_fd and the poller's subscribe, for reads and writes
Subscribe ==
  /\ at.step = "new" /\ CanExtract(info) /\ event = None
  /\ info' = Extract(info) /\ at' = Sleep
  /\ ready' = IF kind \in Edge THEN Levels(kernel) ELSE ready
  /\ UNCHANGED <<kind, kernel, event, wake, counts>>

\* Epoll::run: one event, all that is up now
EpollRun == /\ kind = "epoll" /\ ready # {}
            /\ event' = Levels(kernel) /\ ready' = {}

\* KQueue::run: an event is of one filter, with EV_EOF when that direction ended
KQueueRun ==
  /\ kind = "kqueue"
  /\ \E filter \in {"Read", "Write"}:
       /\ filter \in ready
       /\ event' = {filter} \cup IF kernel.err \/ (kernel.eof /\ filter = "Read") THEN {"Close"} ELSE {}
       /\ ready' = ready \ (IF filter = "Read" THEN {"Read", "Close"} ELSE {"Write"})

\* Poll::run
PollRun == /\ kind = "poll" /\ Levels(kernel) # {}
           /\ event' = Levels(kernel) /\ UNCHANGED ready

\* Select::run waits for what the owner's flags do not say already
SelectRun == /\ kind = "select" /\ at.step = "sleep"
             /\ event' = (Levels(kernel) \cap {"Read", "Write"}) \ info.flags
             /\ event' # {} /\ UNCHANGED ready

\* A close is work of the poll thread and done before its next run.
Run == /\ event = None /\ Subscribed /\ at.step # "close"
       /\ EpollRun \/ KQueueRun \/ PollRun \/ SelectRun
       /\ UNCHANGED <<kind, kernel, info, wake, at, counts>>

\* PollableFdInfo::add_flags_from_poll
AddFlags == /\ event # None /\ event' = None
            /\ info' = write_flags(info, event)
            /\ wake' = (wake \/ Notifies(info, event))
            /\ UNCHANGED <<kind, kernel, ready, at, counts>>

----------------------------------------------------------------------------
\* The owner: sync_with_poll, flush_read(max_read), flush_write, and close
\* when the flags say so

Wake(max_read) ==
  /\ at.step = "sleep" /\ wake /\ wake' = FALSE
  /\ info' = flush(info)
  /\ at' = [step |-> "read", left |-> max_read]
  /\ UNCHANGED <<kernel, polled, counts>>

\* SocketFdImpl::get_pending_error, where read begins
PendingError ==
  /\ at.step = "read" /\ at.left > 0 /\ "Error" \in info.flags
  /\ IF kernel.err
       THEN at' = [at EXCEPT !.step = "close"] /\ UNCHANGED info
       ELSE info' = clear_flags(info, {"Error"}) /\ UNCHANGED at
  /\ UNCHANGED <<kernel, polled, wake, counts>>

\* the end of the stream and most errors: the flag goes, Close is added
EndedQuietly(flag) == clear_flags(info, {flag})   \* a mutant
Ended(flag) == add_flags(clear_flags(info, {flag}), {"Close"})

\* flush_read: one call of SocketFdImpl::read
Read ==
  /\ at.step = "read" /\ at.left > 0 /\ "Error" \notin info.flags /\ can_read_local(info)
  /\ IF kernel.err
       THEN /\ info' = Ended("Read")
            /\ at' = [at EXCEPT !.step = "close"] /\ UNCHANGED <<kernel, got>>
     ELSE IF kernel.rx > 0
       THEN \E n \in 1..(IF at.left < kernel.rx THEN at.left ELSE kernel.rx):
              /\ kernel' = [kernel EXCEPT !.rx = @ - n]
              /\ got' = got + n /\ at' = [at EXCEPT !.left = @ - n] /\ UNCHANGED info
     ELSE IF kernel.eof
       THEN info' = Ended("Read") /\ UNCHANGED <<kernel, got, at>>
     ELSE at' = [at EXCEPT !.step = "read_again"] /\ UNCHANGED <<kernel, got, info>>
  /\ UNCHANGED <<polled, wake, seen, queued, written>>

\* EAGAIN, of read and of write
Stopped == [read |-> "read_again", write |-> "write_again"]
Again(step, flag) ==
  /\ at.step = Stopped[step] /\ at' = [at EXCEPT !.step = step]
  /\ info' = clear_flags(info, {flag})
  /\ UNCHANGED <<kernel, polled, wake, counts>>

\* flush_read ends: sync_with_writer; one that stopped at max_read runs again
EndRead ==
  /\ at.step = "read" /\ (at.left = 0 \/ ~can_read_local(info))
  /\ seen' = got
  /\ wake' = (wake \/ can_read_local(info))
  /\ at' = [at EXCEPT !.step = "write"]
  /\ UNCHANGED <<kernel, polled, info, got, queued, written>>

\* flush_write: one writev of at most 20 slices, and advance
Write ==
  /\ at.step = "write" /\ queued > written /\ can_write_local(info)
  /\ IF kernel.err
       THEN /\ info' = Ended("Write")
            /\ at' = [at EXCEPT !.step = "close"] /\ UNCHANGED <<kernel, written>>
     ELSE IF kernel.tx < Space
       THEN \E n \in 1..(IF queued - written < Space - kernel.tx THEN queued - written
                                                                 ELSE Space - kernel.tx):
              /\ kernel' = [kernel EXCEPT !.tx = @ + n]
              /\ written' = written + n /\ UNCHANGED <<info, at>>
     ELSE at' = [at EXCEPT !.step = "write_again"] /\ UNCHANGED <<kernel, written, info>>
  /\ UNCHANGED <<polled, wake, got, seen, queued>>

EndWrite ==
  /\ at.step = "write" /\ (queued = written \/ ~can_write_local(info))
  /\ at' = IF can_close_local(info) /\ ~can_read_local(info) THEN [at EXCEPT !.step = "close"] ELSE Sleep
  /\ UNCHANGED <<kernel, polled, info, wake, counts>>

\* unsubscribe_before_close, between two runs of the poller, and close
Close == /\ at.step = "close" /\ event = None
         /\ info' = Unlock(info) /\ CanClose(info')
         /\ at' = [step |-> "closed", left |-> 0] /\ ready' = {}
         /\ UNCHANGED <<kind, kernel, event, wake, counts>>

\* The application appends to output_buffer and tells the owner.
Queue == /\ queued < MaxOut /\ at.step = "sleep"
         /\ queued' = queued + 1 /\ wake' = TRUE
         /\ UNCHANGED <<kernel, polled, info, at, got, seen, written>>

Owner == Again("read", "Read") \/ Again("write", "Write") \/ (\E max_read \in {1, MaxIn + 1}: Wake(max_read))
         \/ PendingError \/ Read \/ EndRead \/ Write \/ EndWrite \/ Close
Poller == Run \/ AddFlags
Next == PeerSends \/ PeerReads \/ PeerShuts \/ Fails \/ Subscribe \/ Poller \/ Owner \/ Queue
Spec == Init /\ [][Next]_vars
FairSpec == Spec /\ WF_vars(Subscribe) /\ WF_vars(Poller) /\ WF_vars(Owner) /\ WF_vars(PeerReads)

----------------------------------------------------------------------------
TypeOK ==
  /\ kind \in Kinds
  /\ kernel \in [sent: Nat, rx: Nat, tx: 0..Space, eof: BOOLEAN, err: BOOLEAN]
  /\ ready \in SUBSET PollFlags /\ event \in (SUBSET PollFlags) \cup {None}
  /\ info \in Info /\ wake \in BOOLEAN
  /\ at \in [step: {"new", "sleep", "read", "read_again", "write", "write_again", "close", "closed"}, left: Nat]
  /\ got \in Nat /\ seen \in Nat /\ queued \in Nat /\ written \in Nat

\* Flags that the owner has not taken have been announced: whatever the poll
\* thread adds while the owner runs and clears, the owner is woken once more.
FlagsAreAnnounced == at.step = "sleep" /\ info.to_write # {} => wake

\* An edge is never lost: when the owner sleeps, what the kernel has for it is
\* to be reported, or reported, or the owner knows and has nothing to do with it
\* (clear_flags after EAGAIN touches no flag that a later event set).
EdgeIsKept == kind \in Edge /\ at.step = "sleep" /\ ~wake =>
  /\ kernel.rx > 0 => "Read" \in (ready \cup event)
  /\ kernel.tx < Space /\ queued > written =>
       {"Write", "Close"} \cap (ready \cup event) # {} \/ can_close_local(info)

\* What the peer sent is read, and its end of stream seen, unless the
\* connection failed; whoever polls, and however little is read at a time.
AllRead == \A n \in 1..MaxIn: kernel.sent >= n ~> seen >= n \/ Closed
EndIsSeen == kernel.eof \/ kernel.err ~> Closed
\* What was queued is written, unless the connection was closed first.
AllWritten == \A n \in 1..MaxOut: queued >= n ~> written >= n \/ Closed
\* The peer's data is not dropped by the end that follows it: an owner that
\* saw no error closes only when it has read everything.
NothingDropped == Closed /\ ~kernel.err => seen = kernel.sent

\* All of it: the owner is told, no edge is lost, nothing is dropped.
SocketKeeps == TypeOK /\ FlagsAreAnnounced /\ EdgeIsKept /\ NothingDropped

----------------------------------------------------------------------------
\* The inductive invariant

Running == {"sleep", "read", "read_again", "write", "write_again"}

\* The poll thread has an event, and the owner runs, only while the descriptor
\* is subscribed, and whoever is subscribed is observed.
LockOK ==
  /\ info.lock = info.observer
  /\ event # None => info.lock
  /\ at.step \in Running \cup {"close"} => info.lock
  /\ at.step = "new" => info = NewInfo

\* New flags have been told of, and so have those that the last round of
\* flush_read and flush_write left unused.
WakeOK ==
  /\ info.to_write # {} => wake
  /\ at.step \in {"sleep", "write", "write_again"} /\ can_read_local(info) => wake
  /\ at.step = "sleep" /\ "Write" \in info.flags => wake \/ ~(queued > written)

\* What the kernel has is known somewhere on the way from the edge to the
\* owner's flags; where EAGAIN was seen the flag is about to go and does not
\* count, what came since is still on its way.
OnItsWay == ready \cup event \cup info.to_write
EdgeOK ==
  kind \in Edge /\ at.step \in Running =>
    /\ kernel.rx > 0 => \/ "Read" \in OnItsWay
                        \/ at.step # "read_again" /\ "Read" \in info.flags
    /\ kernel.tx < Space => \/ "Write" \in OnItsWay
                            \/ at.step # "write_again" /\ "Write" \in info.flags
                            \/ "Close" \in OnItsWay \cup info.flags

\* Without an error Close comes with the Read of what is left to read before
\* the end, and the owner goes on reading until nothing is.
CloseOK ==
  ~kernel.err =>
    /\ "Close" \in OnItsWay \cup info.flags => kernel.eof
    /\ "Close" \in event => "Read" \in event
    /\ "Close" \in info.to_write => "Read" \in info.to_write
    /\ "Close" \in info.flags => at.step # "read_again" /\ ("Read" \in info.flags \/ kernel.rx = 0)

\* No piece gets lost between the peer and input_reader_.
CountOK ==
  /\ ~kernel.err => kernel.sent = got + kernel.rx
  /\ at.step \in {"write", "write_again"} => seen = got
  /\ at.step \in {"close", "closed"} /\ ~kernel.err => kernel.eof /\ kernel.rx = 0 /\ seen = got

IInv == LockOK /\ WakeOK /\ EdgeOK /\ CloseOK /\ CountOK

----------------------------------------------------------------------------
\* What the operators on the flags do to each part of them.
LEMMA FlagOps ==
  ASSUME NEW i \in Info, NEW f \in SUBSET PollFlags
  PROVE  /\ write_flags(i, f) = [lock |-> i.lock, observer |-> i.observer, flags |-> i.flags, to_write |-> i.to_write \cup f]
         /\ add_flags(i, f) = [lock |-> i.lock, observer |-> i.observer, flags |-> i.flags \cup f, to_write |-> i.to_write]
         /\ clear_flags(i, f) = [lock |-> i.lock, observer |-> i.observer, flags |-> i.flags \ f, to_write |-> i.to_write]
         /\ Extract(i) \in Info /\ Extract(i).lock = TRUE /\ Extract(i).observer = TRUE
            /\ Extract(i).flags = i.flags /\ Extract(i).to_write = i.to_write
         /\ Unlock(i) \in Info /\ Unlock(i).lock = FALSE /\ Unlock(i).observer = FALSE
            /\ Unlock(i).flags = i.flags /\ Unlock(i).to_write = i.to_write
<1>1. write_flags(i, f) = [lock |-> i.lock, observer |-> i.observer, flags |-> i.flags, to_write |-> i.to_write \cup f]
  BY DEF Info, write_flags
<1>2. add_flags(i, f) = [lock |-> i.lock, observer |-> i.observer, flags |-> i.flags \cup f, to_write |-> i.to_write]
  BY DEF Info, add_flags
<1>3. clear_flags(i, f) = [lock |-> i.lock, observer |-> i.observer, flags |-> i.flags \ f, to_write |-> i.to_write]
  BY DEF Info, clear_flags
<1>4. /\ Extract(i) \in Info /\ Extract(i).lock = TRUE /\ Extract(i).observer = TRUE
      /\ Extract(i).flags = i.flags /\ Extract(i).to_write = i.to_write
  BY DEF Info, Extract
<1>5. /\ Unlock(i) \in Info /\ Unlock(i).lock = FALSE /\ Unlock(i).observer = FALSE
      /\ Unlock(i).flags = i.flags /\ Unlock(i).to_write = i.to_write
  BY DEF Info, Unlock
<1> QED
  BY <1>1, <1>2, <1>3, <1>4, <1>5

\* sync_with_poll takes all that was written; Write may go with Close.
LEMMA Flush ==
  ASSUME NEW i \in Info
  PROVE  /\ flush(i) \in Info /\ flush(i).to_write = {}
         /\ flush(i).lock = i.lock /\ flush(i).observer = i.observer
         /\ "Read" \in flush(i).flags <=> "Read" \in i.flags \cup i.to_write
         /\ "Close" \in flush(i).flags <=> "Close" \in i.flags \cup i.to_write
         /\ "Write" \in i.flags \cup i.to_write => {"Write", "Close"} \cap flush(i).flags # {}
<1> DEFINE all == i.flags \cup i.to_write
           kept == IF "Close" \in all THEN all \ {"Write"} ELSE all
<1>1. i = [lock |-> i.lock, observer |-> i.observer, flags |-> i.flags, to_write |-> i.to_write]
      /\ i.lock \in BOOLEAN /\ i.observer \in BOOLEAN /\ all \in SUBSET PollFlags
  BY DEF Info
<1>2. CASE i.to_write = {}
  BY <1>2 DEF flush
<1>3. CASE i.to_write # {}
  <2>1. flush(i) = [lock |-> i.lock, observer |-> i.observer, flags |-> kept, to_write |-> {}]
    BY <1>1, <1>3 DEF flush
  <2>2. kept \in SUBSET PollFlags
    BY <1>1
  <2>3. flush(i) \in Info
    BY <2>1 DEF Info
  <2> QED
    BY <2>1, <2>3
<1> QED
  BY <1>2, <1>3

\* A direction that ended.
LEMMA EndedFlags ==
  ASSUME info \in Info, NEW f \in PollFlags
  PROVE  Ended(f) = [lock |-> info.lock, observer |-> info.observer,
                     flags |-> (info.flags \ {f}) \cup {"Close"}, to_write |-> info.to_write]
<1>1. /\ info.lock \in BOOLEAN /\ info.observer \in BOOLEAN
      /\ info.flags \in SUBSET PollFlags /\ info.to_write \in SUBSET PollFlags
  BY DEF Info
<1> DEFINE cleared == [lock |-> info.lock, observer |-> info.observer, flags |-> info.flags \ {f}, to_write |-> info.to_write]
<1>2. clear_flags(info, {f}) = cleared /\ {f} \in SUBSET PollFlags
  BY FlagOps
<1>3. cleared \in Info
  BY DEF Info
<1>4. {"Close"} \in SUBSET PollFlags
  BY DEF PollFlags
<1>5. add_flags(cleared, {"Close"}) = [lock |-> cleared.lock, observer |-> cleared.observer,
                                       flags |-> cleared.flags \cup {"Close"}, to_write |-> cleared.to_write]
  BY <1>3, <1>4, FlagOps
<1> QED
  BY <1>2, <1>5 DEF Ended

\* What the kernel reports: all that holds, and Close with Read unless it failed.
LEMMA LevelsOf ==
  ASSUME TypeOK
  PROVE  /\ Levels(kernel) \in SUBSET PollFlags
         /\ kernel.rx > 0 => "Read" \in Levels(kernel)
         /\ kernel.tx < Space => "Write" \in Levels(kernel)
         /\ "Close" \in Levels(kernel) => kernel.err \/ (kernel.eof /\ "Read" \in Levels(kernel))
         /\ kind \in Edge /\ (kernel.eof \/ kernel.err) => "Close" \in Levels(kernel)
BY DEF Levels, PollFlags

\* Each step keeps the types and the inductive invariant: one step per action,
\* and under it one per conjunct.
LEMMA InvStep == TypeOK /\ IInv /\ [Next]_vars => TypeOK' /\ IInv'
<1> SUFFICES ASSUME TypeOK, IInv, [Next]_vars PROVE TypeOK' /\ IInv'
  OBVIOUS
<1>0. LockOK /\ WakeOK /\ EdgeOK /\ CloseOK /\ CountOK
  BY DEF IInv
<1>t. /\ kernel \in [sent: Nat, rx: Nat, tx: 0..Space, eof: BOOLEAN, err: BOOLEAN]
      /\ ready \in SUBSET PollFlags /\ event \in (SUBSET PollFlags) \cup {None}
      /\ info \in Info /\ wake \in BOOLEAN
      /\ at \in [step: {"new", "sleep", "read", "read_again", "write", "write_again", "close", "closed"}, left: Nat]
      /\ got \in Nat /\ seen \in Nat /\ queued \in Nat /\ written \in Nat
  BY DEF TypeOK
<1>i. /\ info.lock \in BOOLEAN /\ info.observer \in BOOLEAN
      /\ info.flags \in SUBSET PollFlags /\ info.to_write \in SUBSET PollFlags
  BY <1>t DEF Info
<1>k. /\ kernel.sent \in Nat /\ kernel.rx \in Nat /\ kernel.tx \in 0..Space /\ kernel.eof \in BOOLEAN
      /\ kernel.err \in BOOLEAN
  BY <1>t
<1>1. CASE PeerSends
  <2>1. UNCHANGED <<kind, event, info, wake, at, got, seen, queued, written>>
    BY <1>1 DEF PeerSends, Change, counts
  <2>2. /\ kernel' = [sent |-> kernel.sent + 1, rx |-> kernel.rx + 1, tx |-> kernel.tx, eof |-> kernel.eof, err |-> kernel.err]
        /\ kernel.eof = FALSE
    BY <1>1, <1>t DEF PeerSends, Change
  <2>3. at.step # "closed" /\ ~kernel.err
    BY <1>1 DEF PeerSends, Change, Closed
  <2>4. ready' = ready \/ (kind \in Edge /\ ready' = ready \cup {"Read"})
    BY <1>1 DEF PeerSends, Change
  <2>5. kind \in Edge /\ at.step \in Running => ready' = ready \cup {"Read"}
    BY <1>0, <1>1 DEF PeerSends, Change, Subscribed, LockOK
  <2>6. {"Read"} \in SUBSET PollFlags
    BY DEF PollFlags
  <2>7. TypeOK'
    BY <2>1, <2>2, <2>4, <2>6 DEF TypeOK
  <2>8. LockOK'
    BY <1>0, <2>1 DEF LockOK
  <2>9. WakeOK'
    BY <1>0, <2>1 DEF WakeOK
  <2>10. EdgeOK'
    BY <1>0, <2>1, <2>2, <2>5 DEF EdgeOK, OnItsWay
  <2>11. CloseOK'
    BY <1>0, <2>1, <2>2, <2>4 DEF CloseOK, OnItsWay
  <2>12. CountOK'
    BY <1>0, <1>t, <2>1, <2>2 DEF CountOK
  <2> QED
    BY <2>7, <2>8, <2>9, <2>10, <2>11, <2>12 DEF IInv
<1>2. CASE PeerReads
  <2>1. UNCHANGED <<kind, event, info, wake, at, got, seen, queued, written>>
    BY <1>2 DEF PeerReads, Change, counts
  <2>2. /\ kernel' = [sent |-> kernel.sent, rx |-> kernel.rx, tx |-> 0, eof |-> kernel.eof, err |-> kernel.err]
        /\ kernel.tx > 0
    BY <1>2, <1>t DEF PeerReads, Change
  <2>3. at.step # "closed" /\ ~kernel.err
    BY <1>2 DEF PeerReads, Change, Closed
  <2>4. ready' = ready \/ (kind \in Edge /\ ready' = ready \cup (IF kernel.tx = Space THEN {"Write"} ELSE {}))
    BY <1>2 DEF PeerReads, Change
  <2>5. kind \in Edge /\ at.step \in Running => ready' = ready \cup (IF kernel.tx = Space THEN {"Write"} ELSE {})
    BY <1>0, <1>2 DEF PeerReads, Change, Subscribed, LockOK
  <2>6. (IF kernel.tx = Space THEN {"Write"} ELSE {}) \in SUBSET PollFlags
    BY DEF PollFlags
  <2>7. TypeOK'
    BY <2>1, <2>2, <2>4, <2>6, BoundsAssumption DEF TypeOK
  <2>8. LockOK'
    BY <1>0, <2>1 DEF LockOK
  <2>9. WakeOK'
    BY <1>0, <2>1 DEF WakeOK
  <2>10. EdgeOK'
    BY <1>0, <1>t, <2>1, <2>2, <2>5, BoundsAssumption DEF EdgeOK, OnItsWay
  <2>11. CloseOK'
    BY <1>0, <2>1, <2>2, <2>4 DEF CloseOK, OnItsWay
  <2>12. CountOK'
    BY <1>0, <2>1, <2>2 DEF CountOK
  <2> QED
    BY <2>7, <2>8, <2>9, <2>10, <2>11, <2>12 DEF IInv
<1>3. CASE PeerShuts
  <2>1. UNCHANGED <<kind, event, info, wake, at, got, seen, queued, written>>
    BY <1>3 DEF PeerShuts, Change, counts
  <2>2. /\ kernel' = [sent |-> kernel.sent, rx |-> kernel.rx, tx |-> kernel.tx, eof |-> TRUE, err |-> kernel.err]
        /\ kernel.eof = FALSE
    BY <1>3, <1>t DEF PeerShuts, Change
  <2>3. at.step # "closed" /\ ~kernel.err
    BY <1>3 DEF PeerShuts, Change, Closed
  <2>4. ready' = ready \/ (kind \in Edge /\ ready' = ready \cup {"Read", "Close"})
    BY <1>3 DEF PeerShuts, Change
  <2>5. kind \in Edge /\ at.step \in Running => ready' = ready \cup {"Read", "Close"}
    BY <1>0, <1>3 DEF PeerShuts, Change, Subscribed, LockOK
  <2>6. {"Read", "Close"} \in SUBSET PollFlags
    BY DEF PollFlags
  <2>7. TypeOK'
    BY <2>1, <2>2, <2>4, <2>6 DEF TypeOK
  <2>8. LockOK'
    BY <1>0, <2>1 DEF LockOK
  <2>9. WakeOK'
    BY <1>0, <2>1 DEF WakeOK
  <2>10. EdgeOK'
    BY <1>0, <2>1, <2>2, <2>4 DEF EdgeOK, OnItsWay
  <2>11. CloseOK'
    BY <1>0, <2>1, <2>2 DEF CloseOK
  <2>12. CountOK'
    BY <1>0, <2>1, <2>2 DEF CountOK
  <2> QED
    BY <2>7, <2>8, <2>9, <2>10, <2>11, <2>12 DEF IInv
<1>4. CASE Fails
  <2>1. UNCHANGED <<kind, event, info, wake, at, got, seen, queued, written>>
    BY <1>4 DEF Fails, Change, counts
  <2>2. /\ kernel' = [sent |-> kernel.sent, rx |-> 0, tx |-> kernel.tx, eof |-> kernel.eof, err |-> TRUE]
        /\ TRUE
    BY <1>4, <1>t DEF Fails, Change
  <2>3. at.step # "closed" /\ ~kernel.err
    BY <1>4 DEF Fails, Change, Closed
  <2>4. ready' = ready \/ (kind \in Edge /\ ready' = ready \cup PollFlags)
    BY <1>4 DEF Fails, Change
  <2>5. kind \in Edge /\ at.step \in Running => ready' = ready \cup PollFlags
    BY <1>0, <1>4 DEF Fails, Change, Subscribed, LockOK
  <2>6. PollFlags \in SUBSET PollFlags
    BY DEF PollFlags
  <2>7. TypeOK'
    BY <2>1, <2>2, <2>4 DEF TypeOK
  <2>8. LockOK'
    BY <1>0, <2>1 DEF LockOK
  <2>9. WakeOK'
    BY <1>0, <2>1 DEF WakeOK
  <2>10. EdgeOK'
    BY <1>0, <2>1, <2>2, <2>4 DEF EdgeOK, OnItsWay
  <2>11. CloseOK'
    BY <2>2 DEF CloseOK
  <2>12. CountOK'
    BY <1>0, <2>1, <2>2 DEF CountOK
  <2> QED
    BY <2>7, <2>8, <2>9, <2>10, <2>11, <2>12 DEF IInv
<1>5. CASE Subscribe
  <2>1. UNCHANGED <<kind, kernel, event, wake, got, seen, queued, written>>
    BY <1>5 DEF Subscribe, counts
  <2>2. at.step = "new" /\ event = None /\ at' = [step |-> "sleep", left |-> 0]
    BY <1>5 DEF Subscribe, Sleep
  <2>3. info.flags = {} /\ info.to_write = {}
    BY <1>0, <2>2 DEF LockOK, NewInfo
  <2>4. /\ info' \in Info /\ info'.lock = TRUE /\ info'.observer = TRUE /\ info'.flags = info.flags
        /\ info'.to_write = info.to_write
    BY <1>5, <1>t, FlagOps DEF Subscribe
  <2>5. ready' = (IF kind \in Edge THEN Levels(kernel) ELSE ready)
    BY <1>5 DEF Subscribe
  <2>6. info' \in Info
    BY <2>4
  <2>7. TypeOK'
    BY <2>1, <2>2, <2>4, <2>5, LevelsOf DEF TypeOK
  <2>8. LockOK'
    BY <1>0, <1>t, <1>i, <1>k, <2>1, <2>2, <2>3, <2>4, <2>5, <2>6 DEF LockOK, Running, NewInfo
  <2>9. WakeOK'
    BY <2>3, <2>4 DEF WakeOK, can_read_local
  <2>10. EdgeOK'
    BY <2>1, <2>5, LevelsOf DEF EdgeOK, OnItsWay
  <2>11. CloseOK'
    BY <1>0, <2>1, <2>2, <2>4, <2>5, LevelsOf DEF CloseOK, OnItsWay
  <2>12. CountOK'
    BY <1>0, <2>1, <2>2 DEF CountOK
  <2> QED
    BY <2>7, <2>8, <2>9, <2>10, <2>11, <2>12 DEF IInv
<1>6. CASE Run
  <2>1. /\ event = None /\ info.lock /\ at.step # "close"
        /\ kind' = kind /\ kernel' = kernel /\ info' = info /\ wake' = wake /\ at' = at
        /\ got' = got /\ seen' = seen /\ queued' = queued /\ written' = written
    BY <1>6 DEF Run, Subscribed, counts
  <2>2. event' \in SUBSET PollFlags /\ ready' \in SUBSET PollFlags /\ ready' \subseteq ready
    BY <1>6, <1>t, <1>k, LevelsOf DEF Run, EpollRun, KQueueRun, PollRun, SelectRun, PollFlags
  <2>3. ~kernel.err => ("Close" \in event' => kernel.eof /\ "Read" \in event')
    BY <1>6, LevelsOf DEF Run, EpollRun, KQueueRun, PollRun, SelectRun
  <2>4. kind \in Edge /\ kernel.rx > 0 /\ "Read" \in ready => "Read" \in ready' \cup event'
    BY <1>6, LevelsOf DEF Run, EpollRun, KQueueRun, PollRun, SelectRun
  <2>5. kind \in Edge /\ kernel.tx < Space /\ "Write" \in ready => "Write" \in ready' \cup event'
    BY <1>6, LevelsOf DEF Run, EpollRun, KQueueRun, PollRun, SelectRun
  <2>6. kind \in Edge /\ (kernel.eof \/ kernel.err) /\ "Close" \in ready => "Close" \in ready' \cup event'
    BY <1>6, LevelsOf DEF Run, EpollRun, KQueueRun, PollRun, SelectRun
  <2>7. TypeOK'
    BY <2>1, <2>2 DEF TypeOK
  <2>8. LockOK'
    BY <1>0, <2>1 DEF LockOK, NewInfo
  <2>9. WakeOK'
    BY <1>0, <2>1 DEF WakeOK
  <2>10. EdgeOK'
    BY <1>0, <2>1, <2>4, <2>5, <2>6 DEF EdgeOK, OnItsWay, CloseOK, None
  <2>11. CloseOK'
    BY <1>0, <2>1, <2>2, <2>3 DEF CloseOK, OnItsWay
  <2>12. CountOK'
    BY <1>0, <2>1 DEF CountOK
  <2> QED
    BY <2>7, <2>8, <2>9, <2>10, <2>11, <2>12 DEF IInv
<1>7. CASE AddFlags
  <2>1. UNCHANGED <<kind, kernel, ready, at, got, seen, queued, written>>
    BY <1>7 DEF AddFlags, counts
  <2>2. event \in SUBSET PollFlags /\ event' = None /\ info.lock /\ info.observer
    BY <1>0, <1>t, <1>7 DEF AddFlags, LockOK
  <2>3. info' = [lock |-> info.lock, observer |-> info.observer, flags |-> info.flags, to_write |-> info.to_write \cup event]
    BY <1>7, <1>t, <2>2, FlagOps DEF AddFlags
  <2>4. wake' = (wake \/ event \ info.to_write # {})
    BY <1>7, <2>2 DEF AddFlags, Notifies, IsNew
  <2>5. info' \in Info
    BY <1>i, <2>2, <2>3 DEF Info
  <2>6. TypeOK'
    BY <2>1, <2>2, <2>4, <2>5 DEF TypeOK
  <2>7. LockOK'
    BY <1>0, <2>1, <2>2, <2>3 DEF LockOK, NewInfo
  <2>8. WakeOK'
    BY <1>0, <1>t, <1>i, <1>k, <2>1, <2>2, <2>3, <2>4, <2>5 DEF WakeOK, can_read_local
  <2>9. EdgeOK'
    BY <1>0, <2>1, <2>3 DEF EdgeOK, OnItsWay
  <2>10. CloseOK'
    BY <1>0, <2>1, <2>2, <2>3 DEF CloseOK, OnItsWay, None
  <2>11. CountOK'
    BY <1>0, <2>1 DEF CountOK
  <2> QED
    BY <2>6, <2>7, <2>8, <2>9, <2>10, <2>11 DEF IInv
<1>8. ASSUME NEW max_read \in {1, MaxIn + 1}, Wake(max_read) PROVE TypeOK' /\ IInv'
  <2>1. UNCHANGED <<kind, kernel, ready, event, got, seen, queued, written>>
    BY <1>8 DEF Wake, polled, counts
  <2>2. at.step = "sleep" /\ wake' = FALSE /\ at' = [step |-> "read", left |-> max_read] /\ max_read \in Nat
    BY <1>8, BoundsAssumption DEF Wake
  <2>3. info' = flush(info)
    BY <1>8 DEF Wake
  <2>4. /\ info' \in Info /\ info'.to_write = {}
        /\ info'.lock = info.lock /\ info'.observer = info.observer
        /\ "Read" \in info'.flags <=> "Read" \in info.flags \cup info.to_write
        /\ "Close" \in info'.flags <=> "Close" \in info.flags \cup info.to_write
        /\ "Write" \in info.flags \cup info.to_write => {"Write", "Close"} \cap info'.flags # {}
    BY <1>t, <2>3, Flush
  <2>5. TypeOK'
    BY <1>0, <1>t, <1>i, <1>k, <2>1, <2>2, <2>3, <2>4, BoundsAssumption DEF TypeOK
  <2>6. LockOK'
    BY <1>0, <2>2, <2>4 DEF LockOK, Running
  <2>7. WakeOK'
    BY <2>2, <2>4 DEF WakeOK
  <2>8. EdgeOK'
    BY <1>0, <2>1, <2>2, <2>4 DEF EdgeOK, OnItsWay, Running
  <2>9. CloseOK'
    BY <1>0, <2>1, <2>2, <2>4 DEF CloseOK, OnItsWay
  <2>10. CountOK'
    BY <1>0, <2>1, <2>2 DEF CountOK
  <2> QED
    BY <2>5, <2>6, <2>7, <2>8, <2>9, <2>10 DEF IInv
<1>9. CASE PendingError /\ kernel.err
  <2>1. UNCHANGED <<kind, kernel, ready, event, info, wake, got, seen, queued, written>>
    BY <1>9 DEF PendingError, polled, counts
  <2>2. at.step = "read" /\ kernel.err /\ at' = [step |-> "close", left |-> at.left]
    BY <1>9, <1>t DEF PendingError
  <2>3. TypeOK'
    BY <2>1, <2>2 DEF TypeOK
  <2>4. LockOK'
    BY <1>0, <2>1, <2>2 DEF LockOK, Running
  <2>5. WakeOK'
    BY <1>0, <2>1, <2>2 DEF WakeOK
  <2>6. EdgeOK'
    BY <2>2 DEF EdgeOK, Running
  <2>7. CloseOK'
    BY <2>1, <2>2 DEF CloseOK
  <2>8. CountOK'
    BY <2>1, <2>2 DEF CountOK
  <2> QED
    BY <2>3, <2>4, <2>5, <2>6, <2>7, <2>8 DEF IInv
<1>10. CASE PendingError /\ ~kernel.err
  <2>1. UNCHANGED <<kind, kernel, ready, event, wake, at, got, seen, queued, written>>
    BY <1>10 DEF PendingError, polled, counts
  <2>2. at.step = "read" /\ {"Error"} \in SUBSET PollFlags
    BY <1>10 DEF PendingError, PollFlags
  <2>3. info' = clear_flags(info, {"Error"})
    BY <1>10 DEF PendingError
  <2>4. info' = [lock |-> info.lock, observer |-> info.observer, flags |-> info.flags \ {"Error"}, to_write |-> info.to_write]
    BY <1>t, <2>2, <2>3, FlagOps
  <2>5. info' \in Info
    BY <1>i, <2>4 DEF Info
  <2>6. TypeOK'
    BY <2>1, <2>5 DEF TypeOK
  <2>7. LockOK'
    BY <1>0, <2>1, <2>2, <2>4 DEF LockOK
  <2>8. WakeOK'
    BY <1>0, <2>1, <2>2, <2>4 DEF WakeOK
  <2>9. EdgeOK'
    BY <1>0, <2>1, <2>4 DEF EdgeOK, OnItsWay
  <2>10. CloseOK'
    BY <1>0, <2>1, <2>4 DEF CloseOK, OnItsWay
  <2>11. CountOK'
    BY <1>0, <2>1 DEF CountOK
  <2> QED
    BY <2>6, <2>7, <2>8, <2>9, <2>10, <2>11 DEF IInv
<1>11. CASE Read /\ kernel.err
  <2>1. UNCHANGED <<kind, kernel, ready, event, wake, got, seen, queued, written>>
    BY <1>11 DEF Read, polled
  <2>2. at.step = "read" /\ kernel.err /\ at' = [step |-> "close", left |-> at.left]
    BY <1>11, <1>t DEF Read
  <2>3. info' = Ended("Read") /\ {"Read"} \in SUBSET PollFlags /\ {"Close"} \in SUBSET PollFlags
    BY <1>11 DEF Read, PollFlags
  <2>4. info' = [lock |-> info.lock, observer |-> info.observer, flags |-> (info.flags \ {"Read"}) \cup {"Close"}, to_write |-> info.to_write]
    BY <1>t, <2>3, EndedFlags
  <2>5. info' \in Info
    BY <1>i, <2>3, <2>4 DEF Info
  <2>6. TypeOK'
    BY <2>1, <2>2, <2>5 DEF TypeOK
  <2>7. LockOK'
    BY <1>0, <2>2, <2>4 DEF LockOK, Running
  <2>8. WakeOK'
    BY <1>0, <2>1, <2>2, <2>4 DEF WakeOK
  <2>9. EdgeOK'
    BY <2>2 DEF EdgeOK, Running
  <2>10. CloseOK'
    BY <2>1, <2>2 DEF CloseOK
  <2>11. CountOK'
    BY <2>1, <2>2 DEF CountOK
  <2> QED
    BY <2>6, <2>7, <2>8, <2>9, <2>10, <2>11 DEF IInv
<1>12. CASE Read /\ ~kernel.err /\ kernel.rx > 0
  <2>1. UNCHANGED <<kind, ready, event, info, wake, seen, queued, written>>
    BY <1>12 DEF Read, polled
  <2>2. at.step = "read" /\ "Error" \notin info.flags /\ "Read" \in info.flags
    BY <1>12 DEF Read, can_read_local
  <2>3. \E n \in 1..kernel.rx : /\ kernel' = [sent |-> kernel.sent, rx |-> kernel.rx - n, tx |-> kernel.tx, eof |-> kernel.eof, err |-> kernel.err] /\ got' = got + n
                               /\ n <= at.left /\ at' = [step |-> at.step, left |-> at.left - n]
    BY <1>12, <1>t DEF Read
  <2>4. TypeOK'
    BY <2>1, <2>3 DEF TypeOK
  <2>5. LockOK'
    BY <1>0, <2>1, <2>3 DEF LockOK
  <2>6. WakeOK'
    BY <1>0, <2>1, <2>3 DEF WakeOK
  <2>7. EdgeOK'
    BY <1>0, <1>t, <2>1, <2>3 DEF EdgeOK, OnItsWay
  <2>8. CloseOK'
    BY <1>0, <2>1, <2>3 DEF CloseOK, OnItsWay
  <2>9. CountOK'
    BY <1>0, <1>t, <2>2, <2>3 DEF CountOK
  <2> QED
    BY <2>4, <2>5, <2>6, <2>7, <2>8, <2>9 DEF IInv
<1>13. CASE Read /\ ~kernel.err /\ ~(kernel.rx > 0) /\ kernel.eof
  <2>1. UNCHANGED <<kind, kernel, ready, event, wake, at, got, seen, queued, written>>
    BY <1>13 DEF Read, polled
  <2>2. at.step = "read" /\ kernel.eof /\ kernel.rx = 0
    BY <1>13, <1>k DEF Read
  <2>3. info' = Ended("Read")
    BY <1>13 DEF Read
  <2>4. info' = [lock |-> info.lock, observer |-> info.observer, flags |-> (info.flags \ {"Read"}) \cup {"Close"}, to_write |-> info.to_write]
    BY <1>t, <2>3, EndedFlags DEF PollFlags
  <2>5. info' \in Info
    BY <1>i, <2>4 DEF Info, PollFlags
  <2>6. TypeOK'
    BY <2>1, <2>5 DEF TypeOK
  <2>7. LockOK'
    BY <1>0, <2>1, <2>2, <2>4 DEF LockOK
  <2>8. WakeOK'
    BY <1>0, <2>1, <2>2, <2>4 DEF WakeOK
  <2>9. EdgeOK'
    BY <2>1, <2>2, <2>4 DEF EdgeOK
  <2>10. CloseOK'
    BY <1>0, <2>1, <2>2, <2>4 DEF CloseOK
  <2>11. CountOK'
    BY <1>0, <2>1 DEF CountOK
  <2> QED
    BY <2>6, <2>7, <2>8, <2>9, <2>10, <2>11 DEF IInv
<1>14. CASE Read /\ ~kernel.err /\ ~(kernel.rx > 0) /\ ~kernel.eof
  <2>1. UNCHANGED <<kind, kernel, ready, event, info, wake, got, seen, queued, written>>
    BY <1>14 DEF Read, polled
  <2>2. /\ at.step = "read" /\ kernel.rx = 0 /\ ~kernel.err /\ ~kernel.eof
        /\ at' = [step |-> "read_again", left |-> at.left]
    BY <1>14, <1>t DEF Read
  <2>3. TypeOK'
    BY <2>1, <2>2 DEF TypeOK
  <2>4. LockOK'
    BY <1>0, <2>1, <2>2 DEF LockOK, Running
  <2>5. WakeOK'
    BY <1>0, <2>1, <2>2 DEF WakeOK
  <2>6. EdgeOK'
    BY <1>0, <2>1, <2>2 DEF EdgeOK, OnItsWay, Running
  <2>7. CloseOK'
    BY <1>0, <2>1, <2>2 DEF CloseOK, OnItsWay
  <2>8. CountOK'
    BY <1>0, <2>1, <2>2 DEF CountOK
  <2> QED
    BY <2>3, <2>4, <2>5, <2>6, <2>7, <2>8 DEF IInv
<1>15. CASE Again("read", "Read")
  <2>1. UNCHANGED <<kind, kernel, ready, event, wake, got, seen, queued, written>>
    BY <1>15 DEF Again, polled, counts
  <2>2. at.step = "read_again" /\ at' = [step |-> "read", left |-> at.left]
    BY <1>15, <1>t DEF Again, Stopped
  <2>3. info' = [lock |-> info.lock, observer |-> info.observer, flags |-> info.flags \ {"Read"}, to_write |-> info.to_write]
    BY <1>15, <1>t, FlagOps DEF Again, PollFlags
  <2>4. info' \in Info
    BY <1>i, <2>3 DEF Info
  <2>5. TypeOK'
    BY <2>1, <2>2, <2>4 DEF TypeOK
  <2>6. LockOK'
    BY <1>0, <2>2, <2>3 DEF LockOK, Running
  <2>7. WakeOK'
    BY <1>0, <2>1, <2>2, <2>3 DEF WakeOK
  <2>8. EdgeOK'
    BY <1>0, <2>1, <2>2, <2>3 DEF EdgeOK, OnItsWay, Running
  <2>9. CloseOK'
    BY <1>0, <2>1, <2>2, <2>3 DEF CloseOK, OnItsWay
  <2>10. CountOK'
    BY <1>0, <2>1, <2>2 DEF CountOK
  <2> QED
    BY <2>5, <2>6, <2>7, <2>8, <2>9, <2>10 DEF IInv
<1>16. CASE Again("write", "Write")
  <2>1. UNCHANGED <<kind, kernel, ready, event, wake, got, seen, queued, written>>
    BY <1>16 DEF Again, polled, counts
  <2>2. at.step = "write_again" /\ at' = [step |-> "write", left |-> at.left]
    BY <1>16, <1>t DEF Again, Stopped
  <2>3. info' = [lock |-> info.lock, observer |-> info.observer, flags |-> info.flags \ {"Write"}, to_write |-> info.to_write]
    BY <1>16, <1>t, FlagOps DEF Again, PollFlags
  <2>4. info' \in Info
    BY <1>i, <2>3 DEF Info
  <2>5. TypeOK'
    BY <2>1, <2>2, <2>4 DEF TypeOK
  <2>6. LockOK'
    BY <1>0, <2>2, <2>3 DEF LockOK, Running
  <2>7. WakeOK'
    BY <1>0, <2>1, <2>2, <2>3 DEF WakeOK, can_read_local
  <2>8. EdgeOK'
    BY <1>0, <2>1, <2>2, <2>3 DEF EdgeOK, OnItsWay, Running
  <2>9. CloseOK'
    BY <1>0, <2>1, <2>2, <2>3 DEF CloseOK, OnItsWay
  <2>10. CountOK'
    BY <1>0, <2>1, <2>2 DEF CountOK
  <2> QED
    BY <2>5, <2>6, <2>7, <2>8, <2>9, <2>10 DEF IInv
<1>17. CASE EndRead
  <2>1. UNCHANGED <<kind, kernel, ready, event, info, got, queued, written>>
    BY <1>17 DEF EndRead, polled
  <2>2. at.step = "read" /\ seen' = got /\ at' = [step |-> "write", left |-> at.left]
    BY <1>17, <1>t DEF EndRead
  <2>3. wake' = (wake \/ can_read_local(info))
    BY <1>17 DEF EndRead
  <2>4. TypeOK'
    BY <2>1, <2>2, <2>3 DEF TypeOK
  <2>5. LockOK'
    BY <1>0, <2>1, <2>2 DEF LockOK, Running
  <2>6. WakeOK'
    BY <1>0, <1>t, <1>i, <1>k, <2>1, <2>2, <2>3 DEF WakeOK, can_read_local
  <2>7. EdgeOK'
    BY <1>0, <2>1, <2>2 DEF EdgeOK, OnItsWay, Running
  <2>8. CloseOK'
    BY <1>0, <2>1, <2>2 DEF CloseOK, OnItsWay
  <2>9. CountOK'
    BY <1>0, <2>1, <2>2 DEF CountOK
  <2> QED
    BY <2>4, <2>5, <2>6, <2>7, <2>8, <2>9 DEF IInv
<1>18. CASE Write /\ kernel.err
  <2>1. UNCHANGED <<kind, kernel, ready, event, wake, got, seen, queued, written>>
    BY <1>18 DEF Write, polled
  <2>2. at.step = "write" /\ kernel.err /\ at' = [step |-> "close", left |-> at.left]
    BY <1>18, <1>t DEF Write
  <2>3. info' = Ended("Write")
    BY <1>18 DEF Write
  <2>4. info' = [lock |-> info.lock, observer |-> info.observer, flags |-> (info.flags \ {"Write"}) \cup {"Close"}, to_write |-> info.to_write]
    BY <1>t, <2>3, EndedFlags DEF PollFlags
  <2>5. info' \in Info
    BY <1>i, <2>4 DEF Info, PollFlags
  <2>6. TypeOK'
    BY <2>1, <2>2, <2>5 DEF TypeOK
  <2>7. LockOK'
    BY <1>0, <2>2, <2>4 DEF LockOK, Running
  <2>8. WakeOK'
    BY <1>0, <2>1, <2>2, <2>4 DEF WakeOK
  <2>9. EdgeOK'
    BY <2>2 DEF EdgeOK, Running
  <2>10. CloseOK'
    BY <2>1, <2>2 DEF CloseOK
  <2>11. CountOK'
    BY <2>1, <2>2 DEF CountOK
  <2> QED
    BY <2>6, <2>7, <2>8, <2>9, <2>10, <2>11 DEF IInv
<1>19. CASE Write /\ ~kernel.err /\ kernel.tx < Space
  <2>1. UNCHANGED <<kind, ready, event, info, wake, at, got, seen, queued>>
    BY <1>19 DEF Write, polled
  <2>2. at.step = "write" /\ "Write" \in info.flags
    BY <1>19 DEF Write, can_write_local
  <2>3. \E n \in 1..(Space - kernel.tx) : kernel' = [sent |-> kernel.sent, rx |-> kernel.rx, tx |-> kernel.tx + n, eof |-> kernel.eof, err |-> kernel.err] /\ written' = written + n
    BY <1>19, <1>t, BoundsAssumption DEF Write
  <2>4. TypeOK'
    BY <2>1, <2>3, BoundsAssumption DEF TypeOK
  <2>5. LockOK'
    BY <1>0, <2>1 DEF LockOK
  <2>6. WakeOK'
    BY <1>0, <2>1, <2>2 DEF WakeOK
  <2>7. EdgeOK'
    BY <1>0, <2>1, <2>2, <2>3 DEF EdgeOK, OnItsWay
  <2>8. CloseOK'
    BY <1>0, <2>1, <2>3 DEF CloseOK, OnItsWay
  <2>9. CountOK'
    BY <1>0, <2>1, <2>3 DEF CountOK
  <2> QED
    BY <2>4, <2>5, <2>6, <2>7, <2>8, <2>9 DEF IInv
<1>20. CASE Write /\ ~kernel.err /\ ~(kernel.tx < Space)
  <2>1. UNCHANGED <<kind, kernel, ready, event, info, wake, got, seen, queued, written>>
    BY <1>20 DEF Write, polled
  <2>2. at.step = "write" /\ ~(kernel.tx < Space) /\ at' = [step |-> "write_again", left |-> at.left]
    BY <1>20, <1>t DEF Write
  <2>3. TypeOK'
    BY <2>1, <2>2 DEF TypeOK
  <2>4. LockOK'
    BY <1>0, <2>1, <2>2 DEF LockOK, Running
  <2>5. WakeOK'
    BY <1>0, <2>1, <2>2 DEF WakeOK
  <2>6. EdgeOK'
    BY <1>0, <2>1, <2>2 DEF EdgeOK, OnItsWay, Running
  <2>7. CloseOK'
    BY <1>0, <2>1, <2>2 DEF CloseOK, OnItsWay
  <2>8. CountOK'
    BY <1>0, <2>1, <2>2 DEF CountOK
  <2> QED
    BY <2>3, <2>4, <2>5, <2>6, <2>7, <2>8 DEF IInv
<1>21. CASE EndWrite
  <2>1. UNCHANGED <<kind, kernel, ready, event, info, wake, got, seen, queued, written>>
    BY <1>21 DEF EndWrite, polled, counts
  <2>2. at.step = "write" /\ (queued = written \/ "Write" \notin info.flags)
    BY <1>21 DEF EndWrite, can_write_local
  <2>3. \/ /\ "Close" \in info.flags /\ "Read" \notin info.flags /\ at' = [step |-> "close", left |-> at.left]
        \/ at' = [step |-> "sleep", left |-> 0]
    BY <1>21, <1>t DEF EndWrite, Sleep, can_close_local, can_read_local
  <2>4. TypeOK'
    BY <2>1, <2>3 DEF TypeOK
  <2>5. LockOK'
    BY <1>0, <2>1, <2>2, <2>3 DEF LockOK, Running
  <2>6. WakeOK'
    BY <1>0, <1>t, <2>1, <2>2 DEF WakeOK
  <2>7. EdgeOK'
    BY <1>0, <2>1, <2>2, <2>3 DEF EdgeOK, OnItsWay, Running
  <2>8. CloseOK'
    BY <1>0, <2>1, <2>3 DEF CloseOK, OnItsWay
  <2>9. CountOK'
    BY <1>0, <2>1, <2>2, <2>3 DEF CountOK, CloseOK
  <2> QED
    BY <2>4, <2>5, <2>6, <2>7, <2>8, <2>9 DEF IInv
<1>22. CASE Close
  <2>1. UNCHANGED <<kind, kernel, event, wake, got, seen, queued, written>>
    BY <1>22 DEF Close, counts
  <2>2. at.step = "close" /\ event = None /\ at' = [step |-> "closed", left |-> 0] /\ ready' = {}
    BY <1>22 DEF Close
  <2>3. /\ info' \in Info /\ info'.lock = FALSE /\ info'.observer = FALSE /\ info'.flags = info.flags
        /\ info'.to_write = info.to_write
    BY <1>22, <1>t, FlagOps DEF Close
  <2>4. info' \in Info
    BY <2>3
  <2>5. TypeOK'
    BY <2>1, <2>2, <2>3 DEF TypeOK
  <2>6. LockOK'
    BY <1>0, <1>t, <1>i, <1>k, <2>1, <2>2, <2>3, <2>4 DEF LockOK, Running, NewInfo
  <2>7. WakeOK'
    BY <1>0, <2>1, <2>2, <2>3 DEF WakeOK
  <2>8. EdgeOK'
    BY <2>2 DEF EdgeOK, Running
  <2>9. CloseOK'
    BY <1>0, <2>1, <2>2, <2>3 DEF CloseOK, OnItsWay
  <2>10. CountOK'
    BY <1>0, <2>1, <2>2 DEF CountOK
  <2> QED
    BY <2>5, <2>6, <2>7, <2>8, <2>9, <2>10 DEF IInv
<1>23. CASE Queue
  <2>1. UNCHANGED <<kind, kernel, ready, event, info, at, got, seen, written>>
    BY <1>23 DEF Queue, polled
  <2>2. at.step = "sleep" /\ wake' = TRUE /\ queued' = queued + 1
    BY <1>23 DEF Queue
  <2>3. TypeOK'
    BY <2>1, <2>2 DEF TypeOK
  <2>4. LockOK'
    BY <1>0, <2>1 DEF LockOK
  <2>5. WakeOK'
    BY <2>2 DEF WakeOK
  <2>6. EdgeOK'
    BY <1>0, <2>1 DEF EdgeOK, OnItsWay
  <2>7. CloseOK'
    BY <1>0, <2>1 DEF CloseOK, OnItsWay
  <2>8. CountOK'
    BY <1>0, <2>1 DEF CountOK
  <2> QED
    BY <2>3, <2>4, <2>5, <2>6, <2>7, <2>8 DEF IInv
<1>24. CASE UNCHANGED vars
  BY <1>24 DEF vars, TypeOK, IInv, LockOK, WakeOK, EdgeOK, CloseOK, CountOK, OnItsWay
<1> QED
  BY <1>1, <1>2, <1>3, <1>4, <1>5, <1>6, <1>7, <1>8, <1>9, <1>10, <1>11, <1>12, <1>13, <1>14, <1>15, <1>16,
     <1>17, <1>18, <1>19, <1>20, <1>21, <1>22, <1>23, <1>24 DEF Next, Poller, Owner

\* The inductive invariant holds in every reachable state.
LEMMA Invariant == Spec => [](TypeOK /\ IInv)
<1>1. Init => TypeOK
  <2> SUFFICES ASSUME Init PROVE TypeOK
    OBVIOUS
  <2>1. kernel \in [sent: Nat, rx: Nat, tx: 0..Space, eof: BOOLEAN, err: BOOLEAN]
    BY BoundsAssumption DEF Init
  <2>2. info \in Info
    BY DEF Init, NewInfo, Info
  <2> QED
    BY <2>1, <2>2 DEF Init, TypeOK
<1>2. Init => IInv
  BY DEF Init, IInv, NewInfo, LockOK, WakeOK, EdgeOK, CloseOK, CountOK, OnItsWay, Running, None
<1> QED
  BY <1>1, <1>2, InvStep, PTL DEF Spec

\* The owner of a socket is told of every flag, loses no edge and drops nothing
\* of what came before the end of the connection, whichever poller it is on and
\* however the events fall between its calls and its clearing of the flags.
THEOREM SocketKeepsCorrect == Spec => []SocketKeeps
<1>1. TypeOK /\ IInv => FlagsAreAnnounced
  BY DEF IInv, WakeOK, FlagsAreAnnounced
<1>2. TypeOK /\ IInv => EdgeIsKept
  BY DEF IInv, WakeOK, EdgeOK, EdgeIsKept, OnItsWay, Running, can_read_local, can_close_local
<1>3. TypeOK /\ IInv => NothingDropped
  BY DEF TypeOK, IInv, CountOK, NothingDropped, Closed
<1>4. TypeOK /\ IInv => SocketKeeps
  BY <1>1, <1>2, <1>3 DEF SocketKeeps
<1> QED
  BY <1>4, Invariant, PTL
============================================================================
