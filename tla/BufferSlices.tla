---------------------------- MODULE BufferSlices ----------------------------
(***************************************************************************)
(* td/utils/buffer.h and buffer.cpp: reference counted blocks of memory,   *)
(* the slices that share them, the writer that grows one, and the          *)
(* BufferBuilder that puts pieces together around a writer.                *)
(*                                                                         *)
(* Small blocks of one thread are cut from a common one, and a writer goes *)
(* on appending to a block that slices are already held of: that the bytes *)
(* under a slice never change is what all of it is for.  Sizes are scaled  *)
(* down: Align stands for 8, Small for 512, Common for 4096 * 4.           *)
(***************************************************************************)
EXTENDS Integers, SequencesExt

CONSTANTS Handles, Raws, Align, Small, Common, MaxSize, MaxBuilt, MaxCalls

VARIABLES heap,      \* raws: the BufferRaw blocks; mem: buffer_mem
          slices,    \* the BufferSlice objects of the program
          writer,    \* buffer_writer_ of the builder: a block, 0 when null
          pre, post, \* to_prepend_, to_append_
          tls,       \* the thread's common block, 0 when it has none
          tracked,   \* buffer_slice_size_
          calls,     \* the calls so far; a call writes its number
          seen,      \* the bytes each slice had when it got its bounds
          built      \* the bytes put into the builder

vars == <<heap, slices, writer, pre, post, tls, tracked, calls, seen, built>>

NoRaw == [size |-> 0, begin |-> 0, end |-> 0, refs |-> 0, live |-> FALSE, read |-> FALSE, bytes |-> <<>>]
NoSlice == [raw |-> 0, begin |-> 0, end |-> 0]
RoundUp(n) == ((n + Align - 1) \div Align) * Align
SizeOf(s) == IF s.raw = 0 THEN 0 ELSE s.end - s.begin
Bytes(hp, s) == IF s.raw = 0 THEN <<>> ELSE SubSeq(hp.raws[s.raw].bytes, s.begin + 1, s.end)
Stamped(k) == [i \in 1 .. k |-> calls]
Free(hp) == {i \in Raws : hp.raws[i].refs = 0}
Fresh == CHOOSE i \in Free(heap) : TRUE

(* create_buffer_raw.                                                       *)
Create(hp, i, size) ==
  [mem |-> hp.mem + RoundUp(size),
   raws |-> [hp.raws EXCEPT ![i] =
     [size |-> RoundUp(size), begin |-> 0, end |-> 0, refs |-> 1, live |-> TRUE, read |-> FALSE,
      bytes |-> [b \in 1 .. RoundUp(size) |-> MaxCalls]]]]

(* dec_ref_cnt.                                                             *)
Dec(hp, i) ==
  IF i = 0 THEN hp
  ELSE IF hp.raws[i].refs > 1 THEN [hp EXCEPT !.raws[i].refs = @ - 1]
  ELSE [mem |-> hp.mem - hp.raws[i].size, raws |-> [hp.raws EXCEPT ![i] = NoRaw]]

(* DeleteWriterPtr.                                                         *)
DropWriter(hp, i) == IF i = 0 THEN hp ELSE Dec([hp EXCEPT !.raws[i].live = FALSE], i)

(* create_reader of a writer, and of a reader.                              *)
FromWriter(hp, i) == [hp EXCEPT !.raws[i].read = TRUE, !.raws[i].refs = @ + 1]
FromReaderUncounted(hp, i) == hp
FromReader(hp, i) == IF i = 0 THEN hp ELSE [hp EXCEPT !.raws[i].refs = @ + 1]

(* create_writer(size, prepend, append).                                    *)
CreateWriter(hp, i, size, prepend, append) ==
  LET total == size + prepend + append
  IN  [Create(hp, i, IF total < Small THEN Small ELSE total)
         EXCEPT !.raws[i].begin = prepend, !.raws[i].end = prepend + size]

(* create_reader_fast: cut size bytes from the common block of the thread,  *)
(* or from a new one when they do not fit.                                  *)
CommonFitsBarely(size) == tls # 0 /\ heap.raws[tls].size - heap.raws[tls].end >= 0
CommonFits(size) ==
  tls # 0 /\ heap.raws[tls].size - heap.raws[tls].end >= RoundUp(size)
CreateReaderFast(size) ==
  LET i == IF CommonFits(size) THEN tls ELSE Fresh
      hp == IF CommonFits(size) THEN heap ELSE Dec(Create(heap, i, Common), tls)
  IN  [raw |-> i, tls |-> i,
       heap |-> [hp EXCEPT !.raws[i].end = @ + RoundUp(size), !.raws[i].refs = @ + 1]]

(* create_reader(size).                                                     *)
CreateReader(size) ==
  IF size < Small THEN CreateReaderFast(size)
  ELSE LET hp == [Create(heap, Fresh, size) EXCEPT !.raws[Fresh].end = RoundUp(size)]
       IN  [raw |-> Fresh, tls |-> tls, heap |-> DropWriter(FromWriter(hp, Fresh), Fresh)]

(* copy_from into block i at offset at.                                     *)
Write(hp, i, at, data) ==
  [hp EXCEPT !.raws[i].bytes =
     [b \in DOMAIN @ |-> IF b \in at + 1 .. at + Len(data) THEN data[b - at] ELSE @[b]]]

(* BufferSlice(Slice): the slice is the last bytes given out of the block.  *)
MakeSlice(data) ==
  LET c == CreateReader(Len(data))
      b == c.heap.raws[c.raw].end - RoundUp(Len(data))
  IN  [heap |-> Write(c.heap, c.raw, b, data), tls |-> c.tls,
       slice |-> [raw |-> c.raw, begin |-> b, end |-> b + Len(data)]]

Init ==
  /\ heap = [mem |-> 0, raws |-> [i \in Raws |-> NoRaw]]
  /\ slices = [h \in Handles |-> NoSlice] /\ seen = [h \in Handles |-> <<>>]
  /\ writer = 0 /\ pre = <<>> /\ post = <<>> /\ built = <<>>
  /\ tls = 0 /\ tracked = 0 /\ calls = 0

-----------------------------------------------------------------------------
(* The operations of BufferSlice.                                           *)
builder == <<writer, pre, post, built>>
Null(h) == slices[h].raw = 0
Set(h, s, bytes) ==
  /\ slices' = [slices EXCEPT ![h] = s]
  /\ seen' = [seen EXCEPT ![h] = bytes]

New(h) ==
  /\ Null(h) /\ Free(heap) # {}
  /\ \E k \in 1 .. MaxSize :
       LET m == MakeSlice(Stamped(k)) IN
       /\ heap' = m.heap /\ tls' = m.tls
       /\ Set(h, m.slice, Stamped(k))
       /\ tracked' = tracked + k
  /\ UNCHANGED builder

Clone(h, g) ==
  /\ Null(h) /\ ~Null(g)
  /\ heap' = FromReader(heap, slices[g].raw)
  /\ Set(h, slices[g], seen[g])
  /\ tracked' = tracked + SizeOf(slices[g])
  /\ UNCHANGED <<builder, tls>>

(* operator=(BufferSlice &&): what h had is let go and the size of what it  *)
(* gets is already counted.                                                 *)
Move(h, g) ==
  /\ h # g /\ ~Null(g)
  /\ tracked' = tracked - SizeOf(slices[h])
  /\ heap' = Dec(heap, slices[h].raw)
  /\ slices' = [slices EXCEPT ![h] = slices[g], ![g] = NoSlice]
  /\ seen' = [seen EXCEPT ![h] = seen[g], ![g] = <<>>]
  /\ UNCHANGED <<builder, tls>>

Clear(h) ==
  /\ ~Null(h)
  /\ tracked' = tracked - SizeOf(slices[h])
  /\ heap' = Dec(heap, slices[h].raw)
  /\ Set(h, NoSlice, <<>>)
  /\ UNCHANGED <<builder, tls>>

(* confirm_read, truncate.                                                  *)
Shrink(h) ==
  /\ \E k \in 1 .. SizeOf(slices[h]) :
       LET n == Len(seen[h]) IN
       /\ \/ Set(h, [slices[h] EXCEPT !.begin = @ + k], SubSeq(seen[h], k + 1, n))
          \/ Set(h, [slices[h] EXCEPT !.end = @ - k], SubSeq(seen[h], 1, n - k))
       /\ tracked' = (tracked - n) + (n - k)
  /\ UNCHANGED <<heap, builder, tls>>

(* from_slice: a part of g; the constructor counts the whole block first.   *)
FromSlice(h, g) ==
  /\ Null(h) /\ ~Null(g)
  /\ heap' = FromReader(heap, slices[g].raw)
  /\ \E b, e \in slices[g].begin .. slices[g].end :
       LET raw == heap.raws[slices[g].raw]
           whole == raw.end - raw.begin
           at == slices[g].begin
       IN  /\ b < e
           /\ Set(h, [slices[g] EXCEPT !.begin = b, !.end = e], SubSeq(seen[g], b - at + 1, e - at))
           /\ tracked' = ((tracked + whole) - whole) + (e - b)
  /\ UNCHANGED <<builder, tls>>

(* clear_thread_local.                                                      *)
ClearThreadLocal ==
  /\ tls # 0
  /\ heap' = Dec(heap, tls) /\ tls' = 0
  /\ UNCHANGED <<slices, seen, builder, tracked>>

-----------------------------------------------------------------------------
(* The BufferBuilder and its writer.                                        *)
Room == IF writer = 0 THEN 0 ELSE heap.raws[writer].size - heap.raws[writer].end
HeadRoom == IF writer = 0 THEN 0 ELSE heap.raws[writer].begin
Whole(hp, i) == [raw |-> i, begin |-> hp.raws[i].begin, end |-> hp.raws[i].end]

NewBuilder ==
  /\ writer = 0 /\ pre = <<>> /\ post = <<>> /\ Free(heap) # {}
  /\ \E size \in 0 .. 1, prepend \in 0 .. 1 :
       LET hp == CreateWriter(heap, Fresh, size, prepend, 0) IN
       /\ heap' = Write(hp, Fresh, prepend, Stamped(size))
       /\ built' = Stamped(size)
  /\ writer' = Fresh
  /\ UNCHANGED <<slices, seen, pre, post, tls, tracked>>

(* append: in place when nothing is queued and it fits, else queued.        *)
AppendBytes ==
  /\ Free(heap) # {}
  /\ \E k \in 1 .. MaxSize :
       LET m == MakeSlice(Stamped(k)) IN
       /\ Len(built) + k <= MaxBuilt
       /\ built' = built \o Stamped(k)
       /\ IF post = <<>> /\ Room >= k
          THEN /\ heap' = [Write(heap, writer, heap.raws[writer].end, Stamped(k))
                             EXCEPT !.raws[writer].end = @ + k]
               /\ UNCHANGED <<post, tls, tracked>>
          ELSE /\ heap' = m.heap /\ tls' = m.tls
               /\ post' = Append(post, m.slice)
               /\ tracked' = tracked + k
  /\ UNCHANGED <<slices, seen, writer, pre>>

(* prepend(BufferSlice): in place it is copied and dies, else it moves.     *)
(* CHECK(!was_reader_): no client prepends in place once a slice was taken. *)
PrependSlice(h) ==
  LET s == slices[h]
      k == SizeOf(s)
      at == HeadRoom - k
      inplace == pre = <<>> /\ HeadRoom >= k
  IN  /\ k > 0 /\ Len(built) + k <= MaxBuilt
      /\ pre = <<>> /\ writer # 0 => ~heap.raws[writer].read
      /\ built' = seen[h] \o built
      /\ heap' = IF inplace
                 THEN Dec([Write(heap, writer, at, Bytes(heap, s)) EXCEPT !.raws[writer].begin = at], s.raw)
                 ELSE heap
      /\ pre' = IF inplace THEN pre ELSE Append(pre, s)
      /\ tracked' = IF inplace THEN tracked - k ELSE tracked
      /\ Set(h, NoSlice, <<>>)
      /\ UNCHANGED <<writer, post, tls>>

(* for_each: the pieces in the order of their bytes.                        *)
Pieces == Reverse(pre) \o (IF writer = 0 THEN <<>> ELSE <<Whole(heap, writer)>>) \o post
Content == FoldLeft(LAMBDA acc, s : acc \o Bytes(heap, s), <<>>, Pieces)
DropAll(hp, queue) == FoldLeft(LAMBDA acc, s : Dec(acc, s.raw), hp, queue)
Sizes(queue) == FoldLeft(LAMBDA acc, s : acc + SizeOf(s), 0, queue)

(* extract: a reader of the writer's block when nothing is queued, and the  *)
(* builder stays; else all of it is copied and the builder is reset.        *)
Extract(h) ==
  /\ Null(h)
  /\ IF pre = <<>> /\ post = <<>>
     THEN /\ writer # 0
          /\ heap' = FromWriter(heap, writer)
          /\ Set(h, Whole(heap, writer), built)
          /\ tracked' = tracked + Len(built)
          /\ UNCHANGED builder
     ELSE /\ Free(heap) # {}
          /\ LET total == Sizes(Pieces)
                 hp == Write(CreateWriter(heap, Fresh, total, 0, 0), Fresh, 0, Content)
             IN  /\ heap' = DropWriter(FromWriter(DropAll(DropWriter(hp, writer), pre \o post), Fresh), Fresh)
                 /\ Set(h, [raw |-> Fresh, begin |-> 0, end |-> total], built)
                 /\ tracked' = (tracked - Sizes(pre \o post)) + total
          /\ writer' = 0 /\ pre' = <<>> /\ post' = <<>> /\ built' = <<>>
  /\ UNCHANGED tls

Next ==
  /\ calls < MaxCalls /\ calls' = calls + 1
  /\ \/ \E h \in Handles : New(h) \/ Clear(h) \/ Shrink(h) \/ PrependSlice(h) \/ Extract(h)
     \/ \E h, g \in Handles : Clone(h, g) \/ Move(h, g) \/ FromSlice(h, g)
     \/ ClearThreadLocal \/ NewBuilder \/ AppendBytes
Spec == Init /\ [][Next]_vars

-----------------------------------------------------------------------------
TypeOK ==
  /\ \A i \in Raws : LET r == heap.raws[i] IN r.begin <= r.end /\ r.end <= r.size
  /\ \A h \in Handles : slices[h].begin <= slices[h].end
  /\ writer \in Raws \cup {0} /\ tls \in Raws \cup {0}

(* Whatever is written, the bytes a slice shows stay those it showed when   *)
(* it got its bounds: blocks cut from one common block never overlap, and   *)
(* the writer only writes outside of what was handed out.                   *)
BytesHold == \A h \in Handles : Bytes(heap, slices[h]) = seen[h]

(* The builder's pieces are what was put in, in order.                      *)
BuilderKeeps == Content = built

(* ref_cnt_ is the number of slices, writers and threads that hold a block, *)
(* so that it is deleted with the last of them and not before; buffer_mem   *)
(* is the size of the blocks that are left.                                 *)
Held(i) == Cardinality({h \in Handles : slices[h].raw = i})
           + Cardinality({n \in DOMAIN pre : pre[n].raw = i})
           + Cardinality({n \in DOMAIN post : post[n].raw = i})
           + (IF writer = i THEN 1 ELSE 0) + (IF tls = i THEN 1 ELSE 0)
RefsAreExact ==
  /\ \A i \in Raws : heap.raws[i].refs = Held(i)
  /\ heap.mem = MapThenSumSet(LAMBDA i : heap.raws[i].size, Raws)

(* The global counter of slice bytes, kept by untracking and tracking at    *)
(* every change of bounds, is the sum over the slices that exist.           *)
TrackedIsExact ==
  tracked = Sizes(pre \o post) + MapThenSumSet(LAMBDA h : SizeOf(slices[h]), Handles)
=============================================================================
