------------------------------ MODULE ByteFlow ------------------------------
(***************************************************************************)
(* td/utils/ByteFlow.h with its two flows, GzipByteFlow.cpp over Gzip.cpp  *)
(* and AesCtrByteFlow.h: a source, flows in a row and a sink, each reading *)
(* the chain that the one before it writes.  All of it runs in one thread: *)
(* a wake-up passes from a flow to its parent_, the next one, when the     *)
(* flow can do no more, and `cur` is the flow whose wakeup() is running.   *)
(*                                                                         *)
(* Bytes are numbers.  AES-CTR negates one (twice is the identity, as for  *)
(* the exclusive or with the key stream), deflate adds 100 and puts End    *)
(* after the last.  zlib is outside of the repository: deflate takes all   *)
(* of its input and lets out as much as it likes until it is closed.       *)
(***************************************************************************)
EXTENDS Integers, SequencesExt

CONSTANTS Pipelines,  \* rows of flows: kind, the watermarks, max_output_size_
          Plan(_),    \* what the user of a row means to write
          OutSize     \* the bytes that the output buffer of a gzip flow holds

VARIABLES pipe,     \* the row under test
          q,        \* q[i]: the chunks flow i has not read, q[Sink] those of the sink
          flow,     \* the fields of ByteFlowBaseCommon
          z,        \* the Gzip object of a gzip flow
          cur,      \* the flow whose wakeup() runs, 0 when none does
          sink,     \* active_ and status_ of the sink, and how often it was closed
          written,  \* how much of the plan was written
          open,     \* the source still has its parent_
          taken     \* what the user took from the sink

vars == <<pipe, q, flow, z, cur, sink, written, open, taken>>

End == 1000
Inf == 99
Sink == Len(pipe) + 1
Lesser(a, b) == IF a < b THEN a ELSE b
Greater(a, b) == IF a > b THEN a ELSE b
Size(chunks) == Len(FlattenSeq(chunks))

NewFlow == [active |-> TRUE, need |-> 0, canRead |-> TRUE, canWrite |-> TRUE,
            waiting |-> FALSE, stop |-> FALSE]
NewGzip == [mode |-> "on", in |-> <<>>, pend |-> <<>>, left |-> 0, closed |-> FALSE, total |-> 0]

Init ==
  /\ pipe \in Pipelines
  /\ q = [i \in 1 .. Sink |-> <<>>]
  /\ flow = [i \in 1 .. Sink - 1 |-> NewFlow]
  /\ z = [i \in 1 .. Sink - 1 |-> NewGzip]
  /\ cur = 0 /\ written = 0 /\ open = TRUE /\ taken = <<>>
  /\ sink = [active |-> TRUE, ok |-> TRUE, closed |-> 0]

-----------------------------------------------------------------------------
(* A chunk at the end of a chain, in the same node as the last or not.      *)
Extend(chunks, bytes, same) ==
  IF bytes = <<>> THEN chunks
  ELSE IF same /\ chunks # <<>> THEN Append(Front(chunks), Last(chunks) \o bytes)
  ELSE Append(chunks, bytes)
(* confirm_read(n) of the first chunk.                                      *)
Confirm(chunks, n) ==
  IF n = 0 THEN chunks
  ELSE IF n = Len(Head(chunks)) THEN Tail(chunks)
  ELSE <<SubSeq(Head(chunks), n + 1, Len(Head(chunks)))>> \o Tail(chunks)

(* finish: the flow stops, and close_input of its parent_ is called, which  *)
(* wakes the parent, or stops it too on an error, and so on to the sink; a  *)
(* flow that has stopped has no parent_ any more.                           *)
Stopped(f, i) == [f EXCEPT ![i].stop = TRUE, ![i].need = 0]
CloseSink(ok) == [active |-> FALSE, ok |-> ok, closed |-> sink.closed + 1]
FinishOkGoesOn(f, i) ==
  /\ cur' = i + 1
  /\ IF i + 1 = Sink THEN flow' = f /\ sink' = CloseSink(TRUE)
     ELSE flow' = [f EXCEPT ![i + 1].active = FALSE] /\ UNCHANGED sink
FinishOk(f, i) ==
  /\ cur' = i + 1
  /\ IF i + 1 = Sink THEN flow' = Stopped(f, i) /\ sink' = CloseSink(TRUE)
     ELSE flow' = [Stopped(f, i) EXCEPT ![i + 1].active = FALSE] /\ UNCHANGED sink
FinishError(f, i) ==
  /\ LET reached(j) == j >= i /\ \A k \in i .. j - 1 : ~f[k].stop
     IN  /\ flow' = [j \in DOMAIN f |-> IF reached(j) THEN Stopped(f, j)[j] ELSE f[j]]
         /\ sink' = IF reached(Sink) THEN CloseSink(FALSE) ELSE sink
  /\ cur' = 0

-----------------------------------------------------------------------------
(* The user: writes, wakes the source or a flow, closes, reads the sink.    *)
Write ==
  /\ cur = 0 /\ open
  /\ \E k \in 1 .. Len(Plan(pipe)) - written, same \in BOOLEAN :
       /\ q' = [q EXCEPT ![1] = Extend(@, SubSeq(Plan(pipe), written + 1, written + k), same)]
       /\ written' = written + k
  /\ UNCHANGED <<pipe, flow, z, cur, sink, open, taken>>

Wake(i) ==
  /\ cur = 0
  /\ cur' = i
  /\ UNCHANGED <<pipe, q, flow, z, sink, written, open, taken>>

Close ==
  /\ cur = 0 /\ open /\ open' = FALSE
  /\ \/ /\ flow' = [flow EXCEPT ![1].active = FALSE]
        /\ cur' = 1 /\ UNCHANGED sink
     \/ FinishError(flow, 1)
  /\ UNCHANGED <<pipe, q, z, written, taken>>

Take ==
  /\ cur = 0 /\ q[Sink] # <<>>
  /\ taken' = taken \o FlattenSeq(q[Sink])
  /\ q' = [q EXCEPT ![Sink] = <<>>]
  /\ UNCHANGED <<pipe, flow, z, cur, sink, written, open>>

-----------------------------------------------------------------------------
(* wakeup() of a flow that has stopped or waits only for its input to end.  *)
Idle ==
  /\ cur \in 1 .. Sink - 1
  /\ flow[cur].stop \/ flow[cur].waiting
  /\ IF flow[cur].waiting /\ ~flow[cur].stop /\ ~flow[cur].active THEN FinishOk(flow, cur)
     ELSE cur' = 0 /\ UNCHANGED <<flow, sink>>
  /\ UNCHANGED <<pipe, q, z, written, open, taken>>

(* can_read and can_write, updated at the head of the loop.                 *)
CanRead(f, o, size) ==
  \/ ~f.active
  \/ size >= Greater(f.need, o.rhigh)
  \/ f.canRead /\ size >= Lesser(f.need, o.rlow)
CanWrite(f, o, size) ==
  \/ size <= o.wlow
  \/ f.canWrite /\ size <= o.whigh
Updated(i) ==
  [flow EXCEPT ![i].canRead = CanRead(flow[i], pipe[i], Size(q[i])),
               ![i].canWrite = CanWrite(flow[i], pipe[i], Size(q[i + 1]))]

(* The loop ends: on_output_updated wakes the parent.                       *)
Break ==
  /\ cur \in 1 .. Sink - 1 /\ ~flow[cur].stop /\ ~flow[cur].waiting
  /\ LET f == Updated(cur) IN
     /\ ~(f[cur].canRead /\ f[cur].canWrite)
     /\ flow' = f
  /\ cur' = cur + 1
  /\ UNCHANGED <<pipe, q, z, sink, written, open, taken>>

Goes(i) ==
  LET f == Updated(i) IN
  cur = i /\ ~f[i].stop /\ ~f[i].waiting /\ f[i].canRead /\ f[i].canWrite
(* loop() returned false without a need: it needs one byte more.            *)
NeedingNoMore(i, chunks) == [Updated(i) EXCEPT ![i].need = Size(chunks)]
Needing(i, chunks) == [Updated(i) EXCEPT ![i].need = Size(chunks) + 1]
Ready(i) == [Updated(i) EXCEPT ![i].need = 0]

(* AesCtrByteFlow::loop.                                                    *)
AesLoop(i) ==
  /\ i < Sink /\ pipe[i].kind = "aes" /\ Goes(i)
  /\ q' = IF q[i] = <<>> THEN q
          ELSE [q EXCEPT ![i] = Tail(@),
                         ![i + 1] = Append(@, [b \in DOMAIN Head(q[i]) |-> -Head(q[i])[b]])]
  /\ IF flow[i].active
     THEN /\ flow' = IF q[i] = <<>> THEN Needing(i, q[i]) ELSE Ready(i)
          /\ UNCHANGED <<cur, sink>>
     ELSE FinishOk(Ready(i), i)
  /\ UNCHANGED <<pipe, z, written, open, taken>>

(* What zlib makes of a stream: the stream after it, what it let out, how   *)
(* much of the input it took, and Z_OK, Z_STREAM_END or an error.           *)
Deflate(s, n) ==
  LET all == s.pend \o [b \in DOMAIN s.in |-> s.in[b] + 100]
  IN  [out |-> SubSeq(all, 1, n), pend |-> SubSeq(all, n + 1, Len(all)), took |-> Len(s.in),
       ret |-> IF s.closed /\ n = Len(all) THEN "end" ELSE "ok"]
DeflateOuts(s) ==
  LET most == Lesser(s.left, Len(s.pend) + Len(s.in))
  IN  IF s.closed THEN {most} ELSE 0 .. most

Inflate(s) ==
  LET n == Lesser(s.left, Len(s.in))
      stops == {b \in 1 .. Len(s.in) : s.in[b] = End \/ s.in[b] < 50}
      first == IF stops = {} THEN n + 1 ELSE Min(stops)
      good == Lesser(n, first - 1)
  IN  [out |-> [b \in 1 .. good |-> s.in[b] - 100], pend |-> <<>>,
       took |-> IF first <= Len(s.in) /\ good = first - 1 THEN first ELSE good,
       ret |-> IF s.in = <<>> \/ (first <= Len(s.in) /\ good = first - 1 /\ s.in[first] # End) THEN "error"
               ELSE IF first <= Len(s.in) /\ good = first - 1 THEN "end" ELSE "ok"]

(* GzipByteFlow::loop; set_input, set_output, run, flush_output and         *)
(* flush_input of Gzip.                                                     *)
GzipStarved(i) == z[i].in = <<>> /\ q[i] = <<>> /\ flow[i].active
GzipFed(i) ==
  LET close == z[i].in = <<>> /\ q[i] = <<>>
  IN  [z[i] EXCEPT !.in = IF @ = <<>> /\ q[i] # <<>> THEN Head(q[i]) ELSE @,
                   !.closed = @ \/ close,
                   !.pend = IF close /\ ~z[i].closed /\ pipe[i].kind = "deflate" THEN Append(@, End) ELSE @,
                   !.left = IF @ = 0 THEN OutSize ELSE @]
GzipRuns(i, s) ==
  IF pipe[i].kind = "inflate" THEN {Inflate(s)} ELSE {Deflate(s, n) : n \in DeflateOuts(s)}

GzipWaits(i) ==
  /\ i < Sink /\ pipe[i].kind # "aes" /\ Goes(i) /\ GzipStarved(i)
  /\ flow' = Needing(i, q[i])
  /\ UNCHANGED <<pipe, q, z, cur, sink, written, open, taken>>

GzipLoop(i) ==
  /\ i < Sink /\ pipe[i].kind # "aes" /\ Goes(i) /\ ~GzipStarved(i)
  /\ LET s == GzipFed(i) IN
     \E run \in GzipRuns(i, s) :
       LET total == s.total + Len(run.out)
           over == run.out # <<>> /\ total > pipe[i].max
           read == Confirm(q[i], run.took)
       IN  /\ z' = [z EXCEPT ![i] = [s EXCEPT
                      !.mode = IF run.ret = "ok" THEN @ ELSE "empty", !.total = total, !.pend = run.pend,
                      !.in = SubSeq(@, run.took + 1, Len(@)), !.left = @ - Len(run.out)]]
           /\ q' = IF over THEN q
                   ELSE [q EXCEPT ![i] = read, ![i + 1] = Extend(@, run.out, z[i].left # 0)]
           /\ IF over \/ run.ret = "error" THEN FinishError(Ready(i), i)
              ELSE IF run.ret = "ok" THEN flow' = Ready(i) /\ UNCHANGED <<cur, sink>>
              ELSE IF flow[i].active
              THEN flow' = [Needing(i, read) EXCEPT ![i].waiting = TRUE] /\ cur' = i + 1 /\ UNCHANGED sink
              ELSE FinishOk([Ready(i) EXCEPT ![i].waiting = TRUE], i)
  /\ UNCHANGED <<pipe, written, open, taken>>

(* wakeup() of the sink.                                                    *)
SinkWakes ==
  /\ cur = Sink /\ cur' = 0
  /\ UNCHANGED <<pipe, q, flow, z, sink, written, open, taken>>

Runs == Idle \/ Break \/ SinkWakes \/ \E i \in DOMAIN pipe : AesLoop(i) \/ GzipWaits(i) \/ GzipLoop(i)
User == Write \/ Close \/ Take \/ \E i \in DOMAIN pipe : Wake(i)
Next == User \/ Runs
Spec == Init /\ [][Next]_vars

(* A wake-up runs to its end, and a user that still waits for the result    *)
(* closes the source, takes what there is and wakes every flow again.       *)
Fairness ==
  /\ WF_vars(Runs) /\ SF_vars(Close) /\ SF_vars(Take)
  /\ \A i \in 1 .. 3 : SF_vars(i \in DOMAIN pipe /\ Wake(i))
FairSpec == Spec /\ Fairness

-----------------------------------------------------------------------------
Through(kind, s) ==
  CASE kind = "aes" -> [b \in DOMAIN s |-> -s[b]]
    [] kind = "deflate" -> [b \in DOMAIN s |-> s[b] + 100] \o <<End>>
    [] kind = "inflate" -> LET data == SelectSeq(s, LAMBDA b : b # End) IN [b \in DOMAIN data |-> data[b] - 100]
Expected == FoldLeft(LAMBDA s, o : Through(o.kind, s), SubSeq(Plan(pipe), 1, written), pipe)
Result == taken \o FlattenSeq(q[Sink])

TypeOK ==
  /\ cur \in 0 .. Sink /\ written \in 0 .. Len(Plan(pipe))
  /\ \A i \in DOMAIN pipe : z[i].left \in 0 .. OutSize /\ z[i].mode \in {"on", "empty"}
  /\ \A i \in DOMAIN q : \A c \in DOMAIN q[i] : q[i][c] # <<>>

(* Nothing is reordered, repeated or made up on the way.                    *)
ResultIsPrefix == IsPrefix(Result, Expected)

(* When the sink says that all went well it holds all that was written.     *)
OkMeansAll == ~sink.active /\ sink.ok => Result = Expected

(* CHECK(active_): the sink is closed once, whatever ends the row.          *)
ClosedOnce == sink.closed <= 1 /\ (sink.closed = 1 <=> ~sink.active)

(* Without a write watermark one call of close_input carries the end, or an *)
(* error, all the way: the caller finds the sink ready.                     *)
ReadyAtOnce ==
  cur = 0 /\ ~open /\ (\A i \in DOMAIN pipe : pipe[i].wlow = Inf) => ~sink.active

(* A flow stops writing when its parent has more than write_watermark.high  *)
(* left to read: what piles up is one output of the flow at most.           *)
BackPressure ==
  \A i \in DOMAIN pipe : pipe[i].kind # "aes" /\ pipe[i].wlow <= pipe[i].whigh =>
     Size(q[i + 1]) <= pipe[i].whigh + OutSize

(* A wake-up ends (no flow spins on input that it cannot use).              *)
WakeUpsEnd == (cur # 0) ~> (cur = 0)
(* A closed row comes to its end even when watermarks hold it up.           *)
EndsAfterClose == ~open ~> ~sink.active
=============================================================================
