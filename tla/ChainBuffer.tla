---------------------------- MODULE ChainBuffer ----------------------------
(***************************************************************************)
(* td/utils/buffer.h, the chain buffer: one thread appends bytes with a    *)
(* ChainBufferWriter, another one reads them with a ChainBufferReader.     *)
(* They share no lock: a node's buffer publishes its end_, a node its      *)
(* has_writer_ flag, and a reader moves on only from a node that no writer *)
(* holds and that it has read to the end.                                  *)
(*                                                                         *)
(* Nodes are numbered in the order they are linked, so node n's next_ is   *)
(* n + 1.  Bytes are numbered from 1 in the order they are appended: what  *)
(* a reader must get at offset o is byte o + 1.                            *)
(***************************************************************************)
EXTENDS Naturals, Sequences, FiniteSets

CONSTANTS Capacity,   \* bytes that a writer's own buffer holds
          MaxBytes,   \* bound on the bytes appended
          MaxNodes    \* bound on the nodes linked

VARIABLES nodes,      \* the nodes: bytes, size of slice_, sync_flag_, has_writer_, next_
          refs,       \* their ref_cnt_, 0 once deleted
          tail,       \* the writer's tail_, 0 once it is destroyed
          wpc,        \* where the writer is
          its,        \* iterators: begin_ and end_ of the reader, and of a part cut from it
          rd,         \* the call the reader is in
          piece       \* the last bytes a call returned, and the offset they were at

vars == <<nodes, refs, tail, wpc, its, rd, piece>>

Names == {"begin", "end", "cutBegin", "cutEnd"}
NoIt == [node |-> 0, lo |-> 0, hi |-> 0, off |-> 0]
NoPiece == [off |-> 0, bytes |-> <<>>]
Idle(turn) == [op |-> "idle", it |-> turn, left |-> 0, hw |-> FALSE, step |-> "look"]
Lesser(a, b) == IF a < b THEN a ELSE b

Node(bytes, sync) ==
  [bytes |-> bytes, slice |-> Len(bytes), sync |-> sync, writer |-> TRUE, next |-> FALSE]

Written == LET Upto[n \in 0 .. Len(nodes)] ==
                 IF n = 0 THEN 0 ELSE Upto[n - 1] + Len(nodes[n].bytes)
           IN  Upto
Total == Written[Len(nodes)]
Fresh(k) == [i \in 1 .. k |-> Total + i]
Size == its["end"].off - its["begin"].off

(* An iterator that has just taken node n: load_head copies slice_.         *)
LoadHead(n, off) ==
  IF n = 0 THEN [NoIt EXCEPT !.off = off]
  ELSE [node |-> n, lo |-> 0, hi |-> nodes[n].slice, off |-> off]

(* dec_ref_cnt: the last reference deletes the node, and every following    *)
(* one that only its predecessor held.                                      *)
Release(r, n) ==
  LET dead == {m \in n .. Len(nodes) :
                 \A k \in n .. m : r[k] = 1 /\ (k > n => nodes[k - 1].next)}
      lost(m) == m = n \/ (m - 1 \in dead /\ nodes[m - 1].next)
  IN  [m \in DOMAIN r |-> IF lost(m) THEN r[m] - 1 ELSE r[m]]

Acquire(r, n) == IF n = 0 THEN r ELSE [r EXCEPT ![n] = @ + 1]
Drop(r, n) == IF n = 0 THEN r ELSE Release(r, n)

Init ==
  /\ nodes = <<Node(<<>>, TRUE)>>
  /\ refs = <<3>>
  /\ tail = 1
  /\ wpc = "run"
  /\ its = [i \in Names |-> IF i \in {"begin", "end"} THEN LoadHead(1, 0) ELSE NoIt]
  /\ rd = Idle("end")
  /\ piece = NoPiece

-----------------------------------------------------------------------------
(* The writer's thread.                                                     *)
Room == IF nodes[tail].sync THEN Capacity - Len(nodes[tail].bytes) ELSE 0

(* prepare_append_inplace, the copy, confirm_append: end_ is published.     *)
AppendInPlace ==
  /\ wpc = "run" /\ tail # 0
  /\ \E k \in 1 .. Lesser(Room, MaxBytes - Total) :
       nodes' = [nodes EXCEPT ![tail].bytes = @ \o Fresh(k)]
  /\ UNCHANGED <<refs, tail, wpc, its, rd, piece>>

(* prepare_append_alloc, or append(BufferSlice) of a large slice: the node  *)
(* is created and linked, has_writer_ of the old tail still set.            *)
LinkTail ==
  /\ wpc = "run" /\ tail # 0 /\ Len(nodes) < MaxNodes
  /\ \/ Room = 0 /\ nodes' = Append([nodes EXCEPT ![tail].next = TRUE], Node(<<>>, TRUE))
     \/ \E k \in Room + 1 .. MaxBytes - Total :
          nodes' = Append([nodes EXCEPT ![tail].next = TRUE], Node(Fresh(k), FALSE))
  /\ refs' = Append(refs, 2)
  /\ wpc' = "linked"
  /\ UNCHANGED <<tail, its, rd, piece>>

(* The writer is destroyed: its tail_ is released as by a new tail.         *)
Close ==
  /\ wpc = "run" /\ tail # 0
  /\ wpc' = "closing"
  /\ UNCHANGED <<nodes, refs, tail, its, rd, piece>>

(* DeleteWriterPtr of the old tail: has_writer_ is cleared, then the        *)
(* reference goes.                                                          *)
ClearWriter ==
  /\ wpc \in {"linked", "closing"} /\ nodes[tail].writer
  /\ nodes' = [nodes EXCEPT ![tail].writer = FALSE]
  /\ UNCHANGED <<refs, tail, wpc, its, rd, piece>>

ReleaseTail ==
  /\ wpc \in {"linked", "closing"} /\ ~nodes[tail].writer
  /\ refs' = Release(refs, tail)
  /\ tail' = IF wpc = "linked" THEN tail + 1 ELSE 0
  /\ wpc' = "run"
  /\ UNCHANGED <<nodes, its, rd, piece>>

WriterStep == AppendInPlace \/ LinkTail \/ Close \/ ClearWriter \/ ReleaseTail

-----------------------------------------------------------------------------
(* The reader's thread: it syncs end_, takes something, and so on.          *)
Start(op, it, k) == [op |-> op, it |-> it, left |-> k, hw |-> FALSE, step |-> "look"]

(* sync_with_writer: end_.advance_till_end().                               *)
Sync ==
  /\ rd = Idle("end")
  /\ rd' = Start("sync", "end", MaxBytes)
  /\ UNCHANGED <<nodes, refs, tail, wpc, its, piece>>

(* advance(k, dest), or prepare_read and confirm_read of a part of it.      *)
Read ==
  /\ rd = Idle("begin")
  /\ IF Size = 0 THEN rd' = Idle("end")
     ELSE \E k \in 1 .. Size : rd' = Start("read", "begin", k)
  /\ piece' = [off |-> its["begin"].off, bytes |-> <<>>]
  /\ UNCHANGED <<nodes, refs, tail, wpc, its>>

(* cut_head(k): a clone of begin_ runs ahead.                               *)
CutHead ==
  /\ rd = Idle("begin") /\ Size > 0 /\ its["cutBegin"].node = 0
  /\ \E k \in 1 .. Size : rd' = Start("cut", "cutEnd", k)
  /\ its' = [its EXCEPT !["cutEnd"] = its["begin"]]
  /\ refs' = Acquire(refs, its["begin"].node)
  /\ UNCHANGED <<nodes, tail, wpc, piece>>

(* The call is over; cut_head then leaves the old begin_ to the part.       *)
Finish ==
  /\ rd.op # "idle" /\ rd.step = "done"
  /\ rd' = Idle(IF rd.op = "sync" THEN "begin" ELSE "end")
  /\ IF rd.op = "cut"
     THEN /\ its' = [its EXCEPT !["cutBegin"] = its["begin"], !["begin"] = its["cutEnd"]]
          /\ refs' = Acquire(refs, its["cutEnd"].node)
     ELSE UNCHANGED <<its, refs>>
  /\ UNCHANGED <<nodes, tail, wpc, piece>>

(* Bytes from iterator b up to iterator e, read off the nodes.              *)
Between(b, e) ==
  IF b.node = e.node THEN SubSeq(nodes[b.node].bytes, b.lo + 1, e.lo)
  ELSE LET Join[n \in b.node .. Len(nodes)] ==
             IF n = b.node THEN SubSeq(nodes[n].bytes, b.lo + 1, Len(nodes[n].bytes))
             ELSE Join[n - 1] \o IF n = e.node THEN SubSeq(nodes[n].bytes, 1, e.lo)
                                 ELSE nodes[n].bytes
       IN  Join[IF e.node = 0 THEN Len(nodes) ELSE e.node]

(* move_as_buffer_slice of the part, which goes away.                       *)
MovePart ==
  /\ rd.op = "idle" /\ its["cutBegin"].node # 0
  /\ piece' = [off |-> its["cutBegin"].off, bytes |-> Between(its["cutBegin"], its["cutEnd"])]
  /\ refs' = Drop(Release(refs, its["cutBegin"].node), its["cutEnd"].node)
  /\ its' = [its EXCEPT !["cutBegin"] = NoIt, !["cutEnd"] = NoIt]
  /\ UNCHANGED <<nodes, tail, wpc, rd>>

(* ChainBufferIterator::prepare_read, whose first turn looks at the copy of *)
(* the slice; an empty one loads has_writer_ before it syncs.               *)
LookAtCopy ==
  LET it == its[rd.it]
      k == Lesser(it.hi - it.lo, rd.left)
  IN  /\ rd.op # "idle" /\ rd.step = "look"
      /\ IF k > 0
         THEN /\ its' = [its EXCEPT ![rd.it].lo = @ + k, ![rd.it].off = @ + k]
              /\ rd' = [rd EXCEPT !.left = @ - k]
              /\ piece' = IF rd.op # "read" THEN piece
                          ELSE [piece EXCEPT !.bytes = @ \o
                                  SubSeq(nodes[it.node].bytes, it.lo + 1, it.lo + k)]
         ELSE /\ rd' = IF it.node = 0 \/ rd.left = 0 THEN [rd EXCEPT !.step = "done"]
                       ELSE [rd EXCEPT !.step = "sync", !.hw = nodes[it.node].writer]
              /\ UNCHANGED <<its, piece>>
      /\ UNCHANGED <<nodes, refs, tail, wpc>>

(* sync_with_writer of the copy.                                            *)
SyncCopy ==
  LET it == its[rd.it]
      hi == IF nodes[it.node].sync THEN Len(nodes[it.node].bytes) ELSE it.hi
  IN  /\ rd.op # "idle" /\ rd.step = "sync"
      /\ its' = [its EXCEPT ![rd.it].hi = hi]
      /\ rd' = [rd EXCEPT !.step = IF it.lo < hi THEN "look" ELSE "move"]
      /\ UNCHANGED <<nodes, refs, tail, wpc, piece>>

(* It is still empty: when the node had no writer before the sync, the head *)
(* moves to next_.                                                          *)
HasWriterNow(it) == nodes[it.node].writer
HadWriter(it) == rd.hw
MoveOn ==
  LET it == its[rd.it]
      next == IF nodes[it.node].next THEN it.node + 1 ELSE 0
  IN  /\ rd.op # "idle" /\ rd.step = "move"
      /\ IF HadWriter(it)
         THEN rd' = [rd EXCEPT !.step = "done"] /\ UNCHANGED <<its, refs>>
         ELSE /\ its' = [its EXCEPT ![rd.it] = LoadHead(next, it.off)]
              /\ refs' = Release(Acquire(refs, next), it.node)
              /\ rd' = [rd EXCEPT !.step = "look"]
      /\ UNCHANGED <<nodes, tail, wpc, piece>>

ReaderStep == Sync \/ Read \/ CutHead \/ Finish \/ MovePart \/ LookAtCopy \/ SyncCopy \/ MoveOn

Next == WriterStep \/ ReaderStep
Spec == Init /\ [][Next]_vars

(* The reader goes on, and the writer ends a release it has begun.          *)
Fairness ==
  /\ WF_vars(Sync \/ Read \/ Finish \/ LookAtCopy \/ SyncCopy \/ MoveOn)
  /\ WF_vars(ClearWriter \/ ReleaseTail)
FairSpec == Spec /\ Fairness

-----------------------------------------------------------------------------
TypeOK ==
  /\ \A n \in DOMAIN nodes : nodes[n].slice <= Len(nodes[n].bytes)
  /\ DOMAIN refs = DOMAIN nodes
  /\ tail \in 0 .. Len(nodes)
  /\ wpc \in {"run", "linked", "closing"}
  /\ \A i \in Names : its[i].node \in 0 .. Len(nodes) /\ its[i].lo <= its[i].hi
  /\ rd.step \in {"look", "sync", "move", "done"}

(* A node is left only when all of it was read: an iterator's offset_ is    *)
(* the number of bytes before it in the chain.  This is what reading        *)
(* has_writer_ before the sync is for.                                      *)
OffsetIsPosition ==
  \A i \in Names : its[i].node # 0 => its[i].off = Written[its[i].node - 1] + its[i].lo

(* What a call returns is the stream's bytes at the offset it began at.     *)
PieceIsTheStream ==
  piece.bytes = [i \in 1 .. Len(piece.bytes) |-> piece.off + i]

(* ref_cnt_ counts the pointers to the node, so that no node is deleted     *)
(* under an iterator, the writer or a live predecessor.                     *)
Pointers(n) ==
  Cardinality({i \in Names : its[i].node = n})
  + (IF tail = n \/ (wpc = "linked" /\ tail + 1 = n) THEN 1 ELSE 0)
  + (IF n > 1 /\ refs[n - 1] > 0 /\ nodes[n - 1].next THEN 1 ELSE 0)
RefsAreExact == \A n \in DOMAIN nodes : refs[n] = Pointers(n)

(* Every byte appended reaches the reader.                                  *)
Arrives == \A n \in 1 .. MaxBytes : (Total >= n) ~> (its["begin"].off >= n)
=============================================================================
