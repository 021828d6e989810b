------------------------- MODULE MpscPollableQueue -------------------------
(***************************************************************************)
(* td::MpscPollableQueue (td/utils/MpscPollableQueue.h) with its SpinLock  *)
(* and its EventFd: writers put a number of values each, the reader gets   *)
(* them one by one, each time with reader_wait().                          *)
(*                                                                         *)
(* Taking the lock is a step; what is done under it up to its release, or  *)
(* up to a call of the event fd, is another.                               *)
(***************************************************************************)
EXTENDS EventFd, Sequences, FiniteSets

CONSTANTS
  Writers,
  Reader,
  Puts,      (* values each writer puts                                      *)
  Nobody

ASSUME WritersAssumption ==
  Reader \notin Writers /\ Nobody \notin Writers \cup {Reader} /\ Puts \in Nat

Procs == Writers \cup {Reader}
Values == Writers \X (1 .. Puts)

VARIABLES
  lock,          (* who holds lock_                                          *)
  waitFd,        (* wait_event_fd_                                           *)
  writerVector,  (* writer_vector_                                           *)
  readerVector,  (* reader_vector_ from reader_pos_ on                       *)
  pc,
  again,         (* i of reader_wait_nonblock                                *)
  put,           (* values a writer has put                                  *)
  got            (* values the reader has got                                *)

lockVars == <<waitFd, writerVector>>
vars == <<fd, lock, lockVars, readerVector, pc, again, put, got>>

Init ==
  /\ FdInit
  /\ lock = Nobody
  /\ waitFd = FALSE
  /\ writerVector = <<>>
  /\ readerVector = <<>>
  /\ pc = [p \in Procs |-> IF p = Reader THEN "call" ELSE "put"]
  /\ again = 0
  /\ put = [w \in Writers |-> 0]
  /\ got = <<>>

Goto(p, l) == pc' = [pc EXCEPT ![p] = l]

(* SpinLock: test_and_set until the flag was clear; clear.                  *)
Lock(p) == lock = Nobody /\ lock' = p
Unlock(p) == lock = p /\ lock' = Nobody

----------------------------------------------------------------------------
(* writer_put                                                               *)
WriterLock(w) ==
  /\ pc[w] = "put" /\ put[w] < Puts
  /\ Lock(w)
  /\ Goto(w, "push")
  /\ UNCHANGED <<fd, lockVars, readerVector, again, put, got>>

(* push_back; the first writer after the reader has asked takes the flag,   *)
(* gives up the lock and will signal.                                       *)
WriterPush(w) ==
  /\ pc[w] = "push"
  /\ writerVector' = Append(writerVector, <<w, put[w] + 1>>)
  /\ put' = [put EXCEPT ![w] = @ + 1]
  /\ waitFd' = FALSE
  /\ Goto(w, IF waitFd THEN "signal" ELSE "put")
  /\ Unlock(w)
  /\ UNCHANGED <<fd, readerVector, again, got>>

WriterSignal(w) ==
  /\ pc[w] = "signal"
  /\ FdRelease
  /\ Goto(w, "put")
  /\ UNCHANGED <<lock, lockVars, readerVector, again, put, got>>

----------------------------------------------------------------------------
(* reader_wait_nonblock: values are left from the last swap, or the lock.   *)
ReaderReady ==
  /\ pc[Reader] = "call" /\ readerVector # <<>>
  /\ Goto(Reader, "get")
  /\ UNCHANGED <<fd, lock, lockVars, readerVector, again, put, got>>

(* Mutant: the reader does not look whether values are left.                *)
ReaderLockAtOnce ==
  /\ \/ pc[Reader] = "call" /\ again' = 0
     \/ pc[Reader] = "retry" /\ again' = again + 1
  /\ Lock(Reader)
  /\ Goto(Reader, "look")
  /\ UNCHANGED <<fd, lockVars, readerVector, put, got>>

ReaderLock ==
  /\ \/ pc[Reader] = "call" /\ readerVector = <<>> /\ again' = 0
     \/ pc[Reader] = "retry" /\ again' = again + 1
  /\ Lock(Reader)
  /\ Goto(Reader, "look")
  /\ UNCHANGED <<fd, lockVars, readerVector, put, got>>

(* The vectors are swapped.                                                 *)
ReaderSwap ==
  /\ pc[Reader] = "look" /\ writerVector # <<>>
  /\ readerVector' = writerVector
  /\ writerVector' = <<>>
  /\ Unlock(Reader)
  /\ Goto(Reader, "get")
  /\ UNCHANGED <<fd, waitFd, again, put, got>>

(* Mutant: the event fd is drained every time round.                        *)
ReaderAcquiresAlways ==
  /\ pc[Reader] = "look" /\ writerVector = <<>>
  /\ FdAcquire
  /\ Unlock(Reader)
  /\ Goto(Reader, "retry")
  /\ UNCHANGED <<lockVars, readerVector, again, put, got>>

(* The first time round: the event fd is drained, under the lock.           *)
ReaderAcquire ==
  /\ pc[Reader] = "look" /\ writerVector = <<>> /\ again = 0
  /\ FdAcquire
  /\ Unlock(Reader)
  /\ Goto(Reader, "retry")
  /\ UNCHANGED <<lockVars, readerVector, again, put, got>>

(* Mutant: the reader waits without asking for a signal.                    *)
ReaderWaitsSilently ==
  /\ pc[Reader] = "look" /\ writerVector = <<>> /\ again = 1
  /\ Unlock(Reader)
  /\ Goto(Reader, "wait")
  /\ UNCHANGED <<fd, lockVars, readerVector, again, put, got>>

(* The second time round: the reader asks for a signal and returns 0.       *)
ReaderReturnsZero ==
  /\ pc[Reader] = "look" /\ writerVector = <<>> /\ again = 1
  /\ waitFd' = TRUE
  /\ Unlock(Reader)
  /\ Goto(Reader, "wait")
  /\ UNCHANGED <<fd, writerVector, readerVector, again, put, got>>

(* reader_get_event_fd().wait(1000), which returns when the fd is ready ... *)
ReaderWake ==
  /\ pc[Reader] = "wait" /\ FdReady
  /\ Goto(Reader, "call")
  /\ UNCHANGED <<fd, lock, lockVars, readerVector, again, put, got>>

(* ... or after its timeout.                                                *)
ReaderTimeout ==
  /\ pc[Reader] = "wait" /\ ~FdReady
  /\ Goto(Reader, "call")
  /\ UNCHANGED <<fd, lock, lockVars, readerVector, again, put, got>>

(* reader_get_unsafe                                                        *)
ReaderGet ==
  /\ pc[Reader] = "get"
  /\ got' = Append(got, Head(readerVector))
  /\ readerVector' = Tail(readerVector)
  /\ Goto(Reader, "call")
  /\ UNCHANGED <<fd, lock, lockVars, again, put>>

Writer(w) == WriterLock(w) \/ WriterPush(w) \/ WriterSignal(w)
ReaderStep ==
  \/ ReaderReady \/ ReaderLock \/ ReaderSwap \/ ReaderAcquire
  \/ ReaderReturnsZero \/ ReaderWake \/ ReaderGet

Next == (\E w \in Writers : Writer(w)) \/ ReaderStep \/ ReaderTimeout

Spec == Init /\ [][Next]_vars

(* Every thread is scheduled again and again, and gets the spin lock if it  *)
(* finds it free again and again: runs assume weak fairness of Step(p) and  *)
(* strong fairness of TakesLock(p).  The timeout is never relied on.        *)
Step(p) == IF p = Reader THEN ReaderStep ELSE Writer(p)
TakesLock(p) == IF p = Reader THEN ReaderLock ELSE WriterLock(p)

----------------------------------------------------------------------------
WriterPcs == {"put", "push", "signal"}
ReaderPcs == {"call", "retry", "look", "wait", "get"}

(* "UNREACHABLE()" after the loop: again never passes 1.                    *)
TypeOK ==
  /\ fd \in Nat
  /\ lock \in Procs \cup {Nobody}
  /\ waitFd \in BOOLEAN
  /\ writerVector \in Seq(Values)
  /\ readerVector \in Seq(Values)
  /\ pc \in [Procs -> WriterPcs \cup ReaderPcs]
  /\ \A w \in Writers : pc[w] \in WriterPcs
  /\ pc[Reader] \in ReaderPcs
  /\ again \in 0 .. 1
  /\ put \in [Writers -> 0 .. Puts]
  /\ got \in Seq(Values)

(* A reader that was told to wait (reader_wait_nonblock returned 0) while   *)
(* there are values has its signal, or a writer is about to give it; while  *)
(* there are none, the next writer knows that it has to.                    *)
WaitsForASignal ==
  pc[Reader] = "wait" =>
    \/ FdReady
    \/ \E w \in Writers : pc[w] = "signal"
    \/ waitFd /\ writerVector = <<>>

(* The queue is a channel: nothing is lost, doubled or out of order.        *)
Channel == INSTANCE FifoChannel WITH queue <- readerVector \o writerVector
IsAChannel == Channel!Spec

(* All that is put is got, without the help of the timeout of wait(1000).   *)
AllGot == Len(got) = Puts * Cardinality(Writers)
=============================================================================
