----------------------------- MODULE PollQueue -----------------------------
(***************************************************************************)
(* td::PollQueue (td/utils/queue.h): one writer and one reader over a      *)
(* chain of ring buffers (SPSCChainQueue of SPSCBlockQueue), a BackoffQueue*)
(* around it, and an EventFd for a reader that finds nothing.              *)
(*                                                                         *)
(* Every access to an atomic that the other thread may change is a step;   *)
(* local work and the access of a slot of a ring go with a step before or  *)
(* after.  Positions are uint32 in the code: they count modulo Modulus.    *)
(***************************************************************************)
EXTENDS EventFd, Sequences, SequencesExt

CONSTANTS
  Puts,      (* values the writer puts                                       *)
  Size,      (* buffer_size(), a power of 2 below Modulus                    *)
  Modulus,   (* 2^32                                                         *)
  Tries,     (* reader_update calls of a reader_wait with Backoff, 3         *)
  IdleFlush  (* does the client flush when it has put nothing new?           *)

Values == 1 .. Puts

VARIABLES
  blocks,    (* from head_ to tail_: writer_.i, reader_.i, is_closed_, data_ *)
  wPos,      (* tail_->writer_.local_writer_i                                *)
  wSeen,     (* tail_->writer_.local_reader_i                                *)
  rPos,      (* head_->reader_.local_reader_i                                *)
  rSeen,     (* head_->reader_.local_writer_i                                *)
  waitState, (* wait_state_                                                  *)
  wWait,     (* writer_wait_state_                                           *)
  oldWait,   (* old_wait_state                                               *)
  wpc,
  rpc,
  for,       (* which reader_update of reader_wait_nonblock runs             *)
  tries,     (* how often it has run in reader_wait                          *)
  next,      (* the value to put next                                        *)
  dirty,     (* the writer has put values since its last writer_flush        *)
  got        (* the values the reader has got                                *)

writerVars == <<wPos, wSeen, wWait, oldWait, wpc, next, dirty>>
readerVars == <<rPos, rSeen, waitState, rpc, for, tries, got>>
vars == <<fd, blocks, writerVars, readerVars>>

NewBlock == [w |-> 0, r |-> 0, closed |-> FALSE, data |-> [s \in 0 .. (Size - 1) |-> 0]]
Up(i) == (i + 1) % Modulus
Dist(i, j) == (j + Modulus - i) % Modulus

Init ==
  /\ FdInit
  /\ blocks = <<NewBlock>>
  /\ wPos = 0 /\ wSeen = 0 /\ rPos = 0 /\ rSeen = 0
  /\ waitState = 0 /\ wWait = 0 /\ oldWait = 0
  /\ wpc = "put" /\ rpc = "call"
  /\ for = "wait" /\ tries = 0
  /\ next = 1 /\ dirty = FALSE
  /\ got = <<>>

HeadBlock == blocks[1]
TailBlock == blocks[Len(blocks)]
SetTail(b) == blocks' = [blocks EXCEPT ![Len(blocks)] = b]
Odd == waitState % 2 = 1

----------------------------------------------------------------------------
(* writer_put: writer_empty ...                                             *)
WriterFull == Dist(wSeen, wPos) = Size

(* writer_put_unsafe, when there is room                                    *)
WriterPut ==
  /\ wpc = "fill" \/ (wpc = "put" /\ next <= Puts /\ ~WriterFull)
  /\ SetTail([TailBlock EXCEPT !.data[wPos % Size] = next])
  /\ wPos' = Up(wPos)
  /\ next' = next + 1 /\ dirty' = TRUE
  /\ wpc' = "put"
  /\ UNCHANGED <<fd, wSeen, wWait, oldWait, readerVars>>

(* writer_update: how far has the reader come?                              *)
WriterUpdate ==
  /\ wpc = "put" /\ next <= Puts /\ WriterFull
  /\ wSeen' = TailBlock.r
  /\ wpc' = IF Dist(TailBlock.r, wPos) = Size THEN "publish" ELSE "fill"
  /\ UNCHANGED <<fd, blocks, wPos, wWait, oldWait, next, dirty, readerVars>>

(* ... the block is full: all of it is published ...                        *)
WriterPublish ==
  /\ wpc = "publish"
  /\ SetTail([TailBlock EXCEPT !.w = wPos])
  /\ wpc' = "close"
  /\ UNCHANGED <<fd, wPos, wSeen, wWait, oldWait, next, dirty, readerVars>>

(* ... closed, and followed by a new one.                                   *)
WriterClose ==
  /\ wpc = "close"
  /\ blocks' = Append([blocks EXCEPT ![Len(blocks)].closed = TRUE], NewBlock)
  /\ wPos' = 0 /\ wSeen' = 0
  /\ wpc' = "fill"
  /\ UNCHANGED <<fd, wWait, oldWait, next, dirty, readerVars>>

(* writer_flush, after some values and after the last: get_wait_state ...   *)
FlushBegin ==
  /\ wpc = "put" /\ (dirty \/ IdleFlush)
  /\ oldWait' = waitState
  /\ wpc' = "flush"
  /\ UNCHANGED <<fd, blocks, wPos, wSeen, wWait, next, dirty, readerVars>>

(* ... the values are published ...                                         *)
FlushPublish ==
  /\ wpc = "flush"
  /\ SetTail([TailBlock EXCEPT !.w = wPos])
  /\ dirty' = FALSE
  /\ wpc' = "check"
  /\ UNCHANGED <<fd, wPos, wSeen, wWait, oldWait, next, readerVars>>

(* ... and does the reader wait, and not know of them yet?                  *)
FlushCheck ==
  /\ wpc = "check"
  /\ wpc' = IF Odd /\ waitState # wWait THEN "signal" ELSE "put"
  /\ UNCHANGED <<fd, blocks, wPos, wSeen, wWait, oldWait, next, dirty, readerVars>>

(* Mutant: the state of after the flush is the one that has its signal.     *)
FlushSignalLatest ==
  /\ wpc = "signal"
  /\ FdRelease
  /\ wWait' = waitState
  /\ wpc' = "put"
  /\ UNCHANGED <<blocks, wPos, wSeen, oldWait, next, dirty, readerVars>>

FlushSignal ==
  /\ wpc = "signal"
  /\ FdRelease
  /\ wWait' = oldWait
  /\ wpc' = "put"
  /\ UNCHANGED <<blocks, wPos, wSeen, oldWait, next, dirty, readerVars>>

WriterStep ==
  \/ WriterPut \/ WriterUpdate \/ WriterPublish \/ WriterClose
  \/ FlushBegin \/ FlushPublish \/ FlushCheck \/ FlushSignal

----------------------------------------------------------------------------
(* reader_wait_nonblock: from the start, or again after a wait.             *)
ReaderCall ==
  /\ rpc = "call"
  /\ rpc' = IF Odd THEN "acquire" ELSE "update"
  /\ for' = "wait" /\ tries' = 1
  /\ UNCHANGED <<fd, blocks, writerVars, rPos, rSeen, waitState, got>>

(* reader_update returns to reader_wait, which tries again a few times; to  *)
(* the check after wait_state_ became odd; or to the one after acquire.     *)
UpdateFound ==
  /\ rpc' = IF for = "wait" THEN "get" ELSE "undo"
  /\ UNCHANGED tries

UpdateFoundNothing ==
  IF for = "wait" /\ tries < Tries
    THEN rpc' = "update" /\ tries' = tries + 1
    ELSE /\ rpc' = CASE for = "wait" -> "announce" [] for = "recheck" -> "acquire"
                      [] for = "woken" -> "wait"
         /\ UNCHANGED tries

(* reader_update: writer_.i of the head, once or once more.                 *)
UpdateLoad ==
  /\ rpc \in {"update", "update again"}
  /\ rSeen' = HeadBlock.w
  /\ IF HeadBlock.w # rPos THEN UpdateFound
     ELSE rpc' = (IF rpc = "update" THEN "closed" ELSE "next") /\ UNCHANGED tries
  /\ UNCHANGED <<fd, blocks, writerVars, rPos, waitState, for, got>>

(* Mutant: a closed block is left without a second look.                    *)
UpdateClosedLeaves ==
  /\ rpc = "closed"
  /\ IF HeadBlock.closed THEN rpc' = "next" /\ UNCHANGED tries ELSE UpdateFoundNothing
  /\ UNCHANGED <<fd, blocks, writerVars, rPos, rSeen, waitState, for, got>>

(* is_closed_: has the writer left an empty block?                          *)
UpdateClosed ==
  /\ rpc = "closed"
  /\ IF HeadBlock.closed THEN rpc' = "update again" /\ UNCHANGED tries ELSE UpdateFoundNothing
  /\ UNCHANGED <<fd, blocks, writerVars, rPos, rSeen, waitState, for, got>>

(* The head is deleted, and the next block looked at.                       *)
UpdateNext ==
  /\ rpc = "next"
  /\ blocks' = Tail(blocks)
  /\ rPos' = 0
  /\ rSeen' = blocks[2].w
  /\ IF blocks[2].w # 0 THEN UpdateFound ELSE UpdateFoundNothing
  /\ UNCHANGED <<fd, writerVars, waitState, for, got>>

(* inc_wait_state: the reader is going to wait, and looks again.            *)
ReaderAnnounce ==
  /\ rpc = "announce"
  /\ waitState' = waitState + 1
  /\ rpc' = "update" /\ for' = "recheck"
  /\ UNCHANGED <<fd, blocks, writerVars, rPos, rSeen, tries, got>>

(* The event fd is drained, and the reader looks once more.                 *)
ReaderAcquire ==
  /\ rpc = "acquire"
  /\ FdAcquire
  /\ rpc' = "update" /\ for' = "woken"
  /\ UNCHANGED <<blocks, writerVars, rPos, rSeen, waitState, tries, got>>

(* inc_wait_state: it is not, after all.                                    *)
ReaderUndo ==
  /\ rpc = "undo"
  /\ waitState' = waitState + 1
  /\ rpc' = "get"
  /\ UNCHANGED <<fd, blocks, writerVars, rPos, rSeen, for, tries, got>>

(* reader_get_event_fd().wait(1000) returns: a signal, or a timeout.        *)
ReaderWake ==
  /\ rpc = "wait" /\ FdReady
  /\ rpc' = "call"
  /\ UNCHANGED <<fd, blocks, writerVars, rPos, rSeen, waitState, for, tries, got>>

ReaderTimeout ==
  /\ rpc = "wait" /\ ~FdReady
  /\ rpc' = "call"
  /\ UNCHANGED <<fd, blocks, writerVars, rPos, rSeen, waitState, for, tries, got>>

(* reader_get_unsafe                                                        *)
ReaderGet ==
  /\ rpc = "get" /\ rPos # rSeen
  /\ got' = Append(got, HeadBlock.data[rPos % Size])
  /\ rPos' = Up(rPos)
  /\ UNCHANGED <<fd, blocks, writerVars, rSeen, waitState, rpc, for, tries>>

(* reader_flush, or none, before the next reader_wait                       *)
ReaderFlush ==
  /\ rpc = "get" /\ rPos = rSeen
  /\ \/ blocks' = [blocks EXCEPT ![1].r = rPos]
     \/ UNCHANGED blocks
  /\ rpc' = "call"
  /\ UNCHANGED <<fd, writerVars, rPos, rSeen, waitState, for, tries, got>>

ReaderStep ==
  \/ ReaderCall \/ UpdateLoad \/ UpdateClosed \/ UpdateNext \/ ReaderAnnounce
  \/ ReaderAcquire \/ ReaderUndo \/ ReaderWake \/ ReaderGet \/ ReaderFlush

Next == WriterStep \/ ReaderStep \/ ReaderTimeout

Spec == Init /\ [][Next]_vars

----------------------------------------------------------------------------
Positions == 0 .. (Modulus - 1)

TypeOK ==
  /\ fd \in Nat
  /\ blocks \in Seq([w : Positions, r : Positions, closed : BOOLEAN,
                     data : [0 .. (Size - 1) -> Values \cup {0}]])
  /\ blocks # <<>>
  /\ wPos \in Positions /\ wSeen \in Positions /\ rPos \in Positions /\ rSeen \in Positions
  /\ waitState \in Nat /\ wWait \in Nat /\ oldWait \in Nat
  /\ wpc \in {"put", "fill", "publish", "close", "flush", "check", "signal"}
  /\ rpc \in {"call", "update", "closed", "update again", "next", "announce", "acquire",
              "undo", "wait", "get"}
  /\ for \in {"wait", "recheck", "woken"}
  /\ tries \in 0 .. Tries
  /\ next \in 1 .. (Puts + 1) /\ dirty \in BOOLEAN
  /\ got \in Seq(Values)

(* The reader has not got these, and can.                                   *)
From(k) == IF k = 1 THEN rPos ELSE 0
UnreadOf(k) ==
  [j \in 1 .. Dist(From(k), blocks[k].w) |-> blocks[k].data[(From(k) + j - 1) % Size]]
Unread == FlattenSeq([k \in 1 .. Len(blocks) |-> UnreadOf(k)])
NothingUnread == \A k \in 1 .. Len(blocks) : UnreadOf(k) = <<>>

(* "if 0 is returned than it is useless to rerun it before fd is ready to   *)
(* read": a reader that waits while there are values has its signal, unless *)
(* the writer has not come to the end of its writer_flush.                  *)
WaitsForASignal ==
  rpc = "wait" /\ wpc = "put" /\ ~dirty => FdReady \/ NothingUnread

(* The chain is a channel too: nothing is lost, doubled or out of order.    *)
Channel == INSTANCE FifoChannel WITH queue <- Unread

(* All that is flushed is got, without the help of the timeout.             *)
AllGot == got = [k \in Values |-> k]
=============================================================================
