----------------------------- MODULE LogSinks -----------------------------
(***************************************************************************)
(* Where log lines go.  The logs of TsFileLog.cpp, one FileLog             *)
(* (FileLog.cpp) for each thread id: the thread appends, rotating when its *)
(* file is long or when it was asked to; TsFileLog::rotate asks from any   *)
(* thread, FileLog::rotate is called between two appends.  The process may *)
(* crash and start again.  A message is written in pieces, as many at a    *)
(* time as write() takes; path_ and path_.old are sequences of pieces.     *)
(*                                                                         *)
(* Or MemoryLog::append (MemoryLog.h): threads claim places of a ring with *)
(* one fetch_add and copy into them without another word.  The unit is 16  *)
(* bytes: a record is a header and the padded text, and may wrap around.   *)
(***************************************************************************)
EXTENDS Integers, Sequences, SequencesExt

CONSTANTS Kinds,          \* of "files", "memory"
          Logs,           \* thread ids
          Threshold,      \* [Logs -> Nat]: rotate_threshold_
          Sizes,          \* pieces a message may have
          MaxMessages, MaxCrashes, MaxRotates,
          Threads,
          BufferSize,     \* buffer_size / 16
          TextSizes,      \* padded sizes of texts, in units: size * 3 < BufferSize (CHECK)
          MaxRecords,
          Wrap            \* 2^32 / 16: pos_ is a uint32; BufferSize divides it

VARIABLES kind,     \* which of the two a behaviour is of
          file,     \* [Logs -> [path, old, gone, cut]]: gone was in a file .old replaced,
                    \* cut (history) in a file that rotate() has truncated or was about to
          exists,   \* [Logs -> BOOLEAN]: path_ is a file
          log,      \* [Logs -> [inited, size, want_rotate]]
          at,       \* [Logs -> [step, slice]]: where append is, the pieces left
          messages, crashes, rotates,
          written,  \* [Logs -> Seq]: the pieces write() has taken, in order
          pos_, buffer,   \* [0..BufferSize-1 -> <<record, k>>]: unit k of a record, 0 its header
          copying,        \* [Threads -> [record, real_pos, todo]]: units to copy
          records,        \* [1..n -> [from, size, done]]: every record so far
          total           \* units claimed, without the wrap of pos_
file_vars == <<file, exists, log, at, messages, crashes, rotates, written>>
memory_vars == <<pos_, buffer, copying, records, total>>
vars == <<kind, file_vars, memory_vars>>
counts == <<messages, crashes, rotates>>
Idle == [step |-> "idle", slice |-> <<>>]
NotCopying == [record |-> 0, real_pos |-> 0, todo |-> {}]
Fresh == [inited |-> FALSE, size |-> 0, want_rotate |-> FALSE]

InitFiles ==
  /\ file = [i \in Logs |-> [path |-> <<>>, old |-> <<>>, gone |-> <<>>, cut |-> {}]]
  /\ exists = [i \in Logs |-> FALSE] /\ log = [i \in Logs |-> Fresh] /\ at = [i \in Logs |-> Idle]
  /\ messages = 0 /\ crashes = 0 /\ rotates = 0 /\ written = [i \in Logs |-> <<>>]

Goes(i, step, slice) == at' = [at EXCEPT ![i] = [step |-> step, slice |-> slice]]

InitInfoEmpty(i) ==   \* a mutant: the size of the file is not asked for
  /\ at[i].step = "idle" /\ ~log[i].inited
  /\ log' = [log EXCEPT ![i].inited = TRUE] /\ exists' = [exists EXCEPT ![i] = TRUE]
  /\ UNCHANGED <<file, at, counts, written>>
\* get_current_logger: init_info opens the file for appending and takes its size
InitInfo(i) ==
  /\ at[i].step = "idle" /\ ~log[i].inited
  /\ log' = [log EXCEPT ![i].inited = TRUE, ![i].size = Len(file[i].path)]
  /\ exists' = [exists EXCEPT ![i] = TRUE]
  /\ UNCHANGED <<file, at, counts, written>>

\* append: the loop of writes, then the question whether to rotate
Append_(i, size) ==
  /\ at[i].step = "idle" /\ log[i].inited /\ messages < MaxMessages /\ messages' = messages + 1
  /\ Goes(i, "write", [k \in 1..size |-> [message |-> messages + 1, last |-> k = size]])
  /\ UNCHANGED <<file, exists, log, crashes, rotates, written>>
Write(i) == \E n \in 1..Len(at[i].slice) :
  /\ at[i].step = "write"
  /\ LET taken == SubSeq(at[i].slice, 1, n)
         rest == SubSeq(at[i].slice, n + 1, Len(at[i].slice))
     IN  /\ file' = [file EXCEPT ![i].path = @ \o taken]
         /\ written' = [written EXCEPT ![i] = @ \o taken]
         /\ log' = [log EXCEPT ![i].size = @ + n]
         /\ Goes(i, IF rest = <<>> THEN "check" ELSE "write", rest)
  /\ UNCHANGED <<exists, counts>>
Check(i) ==
  /\ at[i].step = "check"
  /\ Goes(i, IF log[i].size > Threshold[i] \/ log[i].want_rotate THEN "rename" ELSE "idle", <<>>)
  /\ UNCHANGED <<file, exists, log, counts, written>>
Rename(i) ==
  /\ at[i].step = "rename" /\ Goes(i, "rotate", <<>>)
  /\ file' = [file EXCEPT ![i].path = <<>>, ![i].old = file[i].path, ![i].gone = @ \o file[i].old]
  /\ exists' = [exists EXCEPT ![i] = FALSE]
  /\ UNCHANGED <<log, counts, written>>
\* do_rotate: the flag first, then the file is opened anew, truncated, and size_ is 0
ClearWant(i) ==
  /\ at[i].step = "rotate" /\ Goes(i, "open", <<>>)
  /\ log' = [log EXCEPT ![i].want_rotate = FALSE]
  /\ UNCHANGED <<file, exists, counts, written>>
Reopen(i) ==
  /\ at[i].step = "open" /\ Goes(i, "idle", <<>>)
  /\ file' = [file EXCEPT ![i].path = <<>>] /\ exists' = [exists EXCEPT ![i] = TRUE]
  /\ log' = [log EXCEPT ![i].size = 0]
  /\ UNCHANGED <<counts, written>>
Works(i) == InitInfo(i) \/ Write(i) \/ Check(i) \/ Rename(i) \/ ClearWant(i) \/ Reopen(i)

\* FileLog::rotate, under the lock of TsLog: do_rotate at once, of path_ as it is
Rotate(i) ==
  /\ at[i].step = "idle" /\ log[i].inited /\ rotates < MaxRotates /\ rotates' = rotates + 1
  /\ Goes(i, "rotate", <<>>) /\ file' = [file EXCEPT ![i].cut = @ \cup Range(file[i].path)]
  /\ UNCHANGED <<exists, log, messages, crashes, written>>

\* TsFileLog::rotate, one log of its loop
LazyRotate(i) ==
  /\ log[i].inited /\ rotates < MaxRotates /\ rotates' = rotates + 1
  /\ log' = [log EXCEPT ![i].want_rotate = TRUE]
  /\ UNCHANGED <<file, exists, at, messages, crashes, written>>

Crash ==
  /\ crashes < MaxCrashes /\ crashes' = crashes + 1
  /\ log' = [i \in Logs |-> Fresh] /\ at' = [i \in Logs |-> Idle]
  /\ UNCHANGED <<file, exists, messages, rotates, written>>

NextFiles == \/ \E i \in Logs : Works(i) \/ Rotate(i) \/ LazyRotate(i) \/ \E size \in Sizes : Append_(i, size)
             \/ Crash

----------------------------------------------------------------------------
\* MemoryLog
InitMemory == /\ pos_ = 0 /\ total = 0 /\ buffer = [b \in 0..(BufferSize - 1) |-> <<0, 0>>]
        /\ copying = [t \in Threads |-> NotCopying] /\ records = <<>>

\* what the code relies on: nobody sleeps in append() for a whole turn of the ring
NobodyIsATurnBehind(claim) ==
  \A u \in Threads : copying[u] # NotCopying => total + claim - records[copying[u].record].from <= BufferSize

FetchAdd(t, size) ==
  /\ copying[t] = NotCopying /\ Len(records) < MaxRecords /\ NobodyIsATurnBehind(size + 1)
  /\ pos_' = (pos_ + size + 1) % Wrap /\ total' = total + size + 1
  /\ records' = Append(records, [from |-> total, size |-> size, done |-> FALSE])
  /\ copying' = [copying EXCEPT ![t] = [record |-> Len(records) + 1, real_pos |-> pos_, todo |-> 0..size]]
  /\ UNCHANGED buffer

\* where unit k of a record goes: the two memcpys of a record that wraps
place(real_pos, k) ==
  LET start_pos == real_pos % BufferSize
      first == BufferSize - start_pos - 1
  IN  IF k <= first THEN start_pos + k ELSE k - first - 1
\* the text is copied in any order within the memcpy, the header after it
Copy(t) == \E k \in copying[t].todo :
  /\ k = 0 => copying[t].todo = {0}
  /\ buffer' = [buffer EXCEPT ![place(copying[t].real_pos, k)] = <<copying[t].record, k>>]
  /\ IF k = 0 THEN copying' = [copying EXCEPT ![t] = NotCopying] /\ records' = [records EXCEPT ![copying[t].record].done = TRUE]
     ELSE copying' = [copying EXCEPT ![t].todo = @ \ {k}] /\ UNCHANGED records
  /\ UNCHANGED <<pos_, total>>
NextMemory == \E t \in Threads : Copy(t) \/ \E size \in TextSizes : FetchAdd(t, size)

----------------------------------------------------------------------------
Init == kind \in Kinds /\ InitFiles /\ InitMemory
Files(A) == kind = "files" /\ A /\ UNCHANGED <<kind, memory_vars>>
Memory(A) == kind = "memory" /\ A /\ UNCHANGED <<kind, file_vars>>
Next == Files(NextFiles) \/ Memory(NextMemory)
Spec == Init /\ [][Next]_vars

----------------------------------------------------------------------------
TypeOK == /\ pos_ \in 0..(Wrap - 1)
          /\ \A i \in Logs : log[i].size \in Nat /\ log[i].inited \in BOOLEAN
                            /\ at[i].step \in {"idle", "write", "check", "rename", "rotate", "open"}

(* What the files hold, the ones .old has replaced included, is what was   *)
(* written, in order: append renames a file before it truncates, and no    *)
(* crash between its steps costs a piece.  rotate() does not rename: what  *)
(* was in path_ when it was called may be gone, and nothing else.          *)
NothingTruncated == \A i \in Logs :
  LET Uncut(pieces) == SelectSeq(pieces, LAMBDA p : p \notin file[i].cut)
  IN  Uncut(file[i].gone \o file[i].old \o file[i].path) = Uncut(written[i])

(* size_ is the size of the open file, after a restart and after a         *)
(* rotation too.                                                           *)
SizeIsOfFile == \A i \in Logs : log[i].inited /\ at[i].step \notin {"rotate", "open"} =>
                                  exists[i] /\ log[i].size = Len(file[i].path)

(* A message is not split between two files, unless a crash cut it.        *)
NotSplit == \A i \in Logs : file[i].old # <<>> => Last(file[i].old).last

(* A file that is not being written is over its threshold only after a     *)
(* crash: the message that crosses the threshold is the last of its file.  *)
FilesAreShort == \A i \in Logs :
  crashes = 0 /\ at[i].step \in {"idle", "write"} =>
    LET whole == SelectSeq(file[i].path, LAMBDA p : at[i].slice = <<>> \/ p.message # Head(at[i].slice).message)
    IN  Len(whole) <= Threshold[i]

(* Every message is written to its end, unless the process crashes.        *)
AppendReturns == \A i \in Logs : at[i].step # "idle" ~> at[i].step = "idle"

\* units claimed after the record have not come round to it
Current(r) == total - records[r].from <= BufferSize

(* A record that was copied whole is in the ring whole, its header before  *)
(* its text, until the ring comes round to it: also a record that wraps,   *)
(* also when pos_ itself has wrapped.                                      *)
RecordsAreWhole == \A r \in 1..Len(records) :
  records[r].done /\ Current(r) =>
    \A k \in 0..records[r].size : buffer[(records[r].from + k) % BufferSize] = <<r, k>>
============================================================================
