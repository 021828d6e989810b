----------------------------- MODULE MCStreams -----------------------------
(***************************************************************************)
(* The bytes on their way: the chain buffer between two threads, the       *)
(* slices and builders over counted blocks, slices shared between threads  *)
(* (the module this one extends), and the flows of a pipeline.  They do    *)
(* not interact within these bounds, so a behaviour is of one of them,     *)
(* named by part, and they take turns in using the variables v1, v2, ...   *)
(***************************************************************************)
EXTENDS SharedSlice, Sequences, SequencesExt

VARIABLES part,   \* the component that this behaviour is of
          v1, v2, v3, v4, v5, v6, v7, v8, v9, v10   \* its variables
mc_vars == <<part, vars, v1, v2, v3, v4, v5, v6, v7, v8, v9, v10>>

\* rows of flows: an AES pair; a gzip pair; one that is held back by watermarks; one with a limit
Plain(k) == [kind |-> k, wlow |-> 99, whigh |-> 0, rlow |-> 99, rhigh |-> 0, max |-> 99]
Held(k) == [Plain(k) EXCEPT !.wlow = 1, !.whigh = 1]
Rows == {<<Plain("aes"), Plain("aes")>>, <<Plain("deflate"), Plain("inflate")>>,
         <<Held("inflate"), [Plain("deflate") EXCEPT !.rlow = 1, !.rhigh = 2]>>,
         <<[Plain("inflate") EXCEPT !.max = 2]>>}
ThePlan(row) == IF row[1].kind = "inflate" THEN <<101, 102, 103, 1000>> ELSE <<1, 2, 3>>

Chain == INSTANCE ChainBuffer WITH
  Capacity <- 2, MaxBytes <- 3, MaxNodes <- 3, nodes <- v1, refs <- v2, tail <- v3, wpc <- v4,
  its <- v5, rd <- v6, piece <- v7
Slices == INSTANCE BufferSlices WITH
  Handles <- {1, 2}, Raws <- {1, 2, 3}, Align <- 2, Small <- 2, Common <- 4, MaxSize <- 2,
  MaxBuilt <- 4, MaxCalls <- 5, heap <- v1, slices <- v2, writer <- v3, pre <- v4, post <- v5,
  tls <- v6, tracked <- v7, calls <- v8, seen <- v9, built <- v10
Flow == INSTANCE ByteFlow WITH
  Pipelines <- Rows, Plan <- ThePlan, OutSize <- 2, pipe <- v1, q <- v2, flow <- v3, z <- v4,
  cur <- v5, sink <- v6, written <- v7, open <- v8, taken <- v9

MCInit ==
  \/ part = "SharedSlice" /\ Init
     /\ v1 = 0 /\ v2 = 0 /\ v3 = 0 /\ v4 = 0 /\ v5 = 0 /\ v6 = 0 /\ v7 = 0 /\ v8 = 0 /\ v9 = 0 /\ v10 = 0
  \/ part = "Chain" /\ Chain!Init /\ v8 = 0 /\ v9 = 0 /\ v10 = 0 /\ Init
  \/ part = "Slices" /\ Slices!Init /\ Init
  \/ part = "Flow" /\ Flow!Init /\ v10 = 0 /\ Init
MCNext ==
  /\ UNCHANGED part
  /\ \/ part = "SharedSlice" /\ Next /\ UNCHANGED <<v1, v2, v3, v4, v5, v6, v7, v8, v9, v10>>
     \/ part = "Chain" /\ Chain!Next /\ UNCHANGED <<v8, v9, v10>> /\ UNCHANGED vars
     \/ part = "Slices" /\ Slices!Next /\ UNCHANGED vars
     \/ part = "Flow" /\ Flow!Next /\ UNCHANGED <<v10>> /\ UNCHANGED vars
MCSpec == MCInit /\ [][MCNext]_mc_vars
\* the fairness of ChainBuffer and of ByteFlow, each while it is the part that runs
MCFairSpec ==
  /\ MCSpec
  /\ WF_(Chain!vars)(part = "Chain" /\ (Chain!Sync \/ Chain!Read \/ Chain!Finish \/ Chain!LookAtCopy
                                    \/ Chain!SyncCopy \/ Chain!MoveOn))
  /\ WF_(Chain!vars)(part = "Chain" /\ (Chain!ClearWriter \/ Chain!ReleaseTail))
  /\ WF_(Flow!vars)(part = "Flow" /\ Flow!Runs)
  /\ SF_(Flow!vars)(part = "Flow" /\ Flow!Close) /\ SF_(Flow!vars)(part = "Flow" /\ Flow!Take)
  /\ \A i \in 1..2 : SF_(Flow!vars)(part = "Flow" /\ i \in DOMAIN v1 /\ Flow!Wake(i))

(* The reader of a chain buffer gets the bytes of the stream, each at its  *)
(* offset, whenever it looks at has_writer_ and syncs, and no node is      *)
(* deleted under an iterator or the writer.                                *)
ChainIsTheStream == part = "Chain" =>
  Chain!TypeOK /\ Chain!OffsetIsPosition /\ Chain!PieceIsTheStream /\ Chain!RefsAreExact

(* Bytes under a slice never change while it exists, a builder keeps what  *)
(* was put in, and counters and statistics are those of the slices alive.  *)
SlicesHold == part = "Slices" =>
  Slices!TypeOK /\ Slices!BytesHold /\ Slices!BuilderKeeps /\ Slices!RefsAreExact /\ Slices!TrackedIsExact

(* A row of flows hands on nothing but what was written, all of it when    *)
(* the sink says so (for a row without AesCtrByteFlow, see README.md),     *)
(* closes once and holds back a writer whose reader is slow.               *)
FlowIsFaithful == part = "Flow" =>
  /\ Flow!TypeOK /\ Flow!ResultIsPrefix /\ (v1[1].kind # "aes" => Flow!OkMeansAll)
  /\ Flow!ClosedOnce /\ Flow!ReadyAtOnce /\ Flow!BackPressure

(* Every byte appended to a chain reaches its reader, every wake-up of a   *)
(* flow ends, and a closed row comes to its end.                           *)
StreamsMove ==
  /\ \A n \in 1..3 : (part = "Chain" /\ Chain!Total >= n) ~> (part = "Chain" /\ v5["begin"].off >= n)
  /\ (part = "Flow" /\ v5 # 0) ~> (part = "Flow" /\ v5 = 0)
  /\ (part = "Flow" /\ ~v8) ~> (part = "Flow" /\ ~v6.active)
============================================================================
