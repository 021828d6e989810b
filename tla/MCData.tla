------------------------------- MODULE MCData -------------------------------
(***************************************************************************)
(* What computes on data and what keeps it: the processors that put events *)
(* in order, flood control, the containers and the search for hints, what  *)
(* writes, reads and converts texts, bytes and numbers; the logs, the ring *)
(* of the memory log, the lock of a path, the atomic replacement of a file *)
(* and the walks over directories.  They do not interact, so a behaviour   *)
(* is of one of them, named by part, and they take turns in using the      *)
(* variables v1, v2, ...; the atomic replacement of a file (the module     *)
(* this one extends) has its own.                                          *)
(***************************************************************************)
EXTENDS AtomicFile, Sequences, SequencesExt

CONSTANT Parts   \* the components that run

VARIABLES part,   \* the component that this behaviour is of
          v1, v2, v3, v4, v5, v6, v7, v8, v9, v10, v11, v12, v13, v14, v15, v16, v17, v18, v19   \* its variables
mc_vars == <<part, vars, v1, v2, v3, v4, v5, v6, v7, v8, v9, v10, v11, v12, v13, v14, v15, v16, v17, v18, v19>>

Itself(w) == w
Thresholds == [i \in {0, 1} |-> IF i = 0 THEN 2 ELSE 9]
KindOf(w) == CASE w \in {1, 5} -> "rmrf" [] w = 2 -> "walk" [] OTHER -> "mkpath"
TheJobs == {{1, 5}, {1, 2}, {3, 4}, {1, 3}}
Tree(dirs, regs, others) ==
  [p \in dirs \cup regs \cup others |-> IF p \in dirs THEN "dir" ELSE IF p \in regs THEN "reg" ELSE "other"]
TheTrees == {Tree({<<>>, <<"a">>}, {<<"b">>, <<"a", "b">>}, {}), Tree({<<>>, <<"a">>, <<"b">>}, {}, {<<"a", "b">>}),
             Tree({<<>>, <<"b">>}, {}, {}), Tree({<<>>}, {<<"a">>}, {})}

TheLimits == {<<<<2, 2>>>>, <<<<1, 1>>, <<4, 3>>>>, <<<<3, 4>>, <<1, 2>>>>}

\* names are sequences of letters; Latin sh is Cyrillic W, kh is X
Rules(pairs) == [c \in {p[1] : p \in pairs} |-> (CHOOSE p \in pairs : p[1] = c)[2]]
SimpleRules(way) == IF way = 1 THEN Rules({<<"s", <<"C">>>>, <<"h", <<"X">>>>})
                    ELSE Rules({<<"C", <<"s">>>>, <<"X", <<"k", "h">>>>, <<"W", <<"s", "h">>>>})
ComplexRules(way) == IF way = 1 THEN <<<<<<"k", "h">>, <<"X">>>>, <<<<"s", "h">>, <<"W">>>>>> ELSE <<>>
TheNames == {<<"s", "h">>, <<"s", "-", " ", "s", "h", " ", "h">>, <<"W", " ", "s">>, <<"X", "s">>, <<" ">>}
TheQueries == {<<"s">>, <<"s", "h">>, <<"W">>, <<"C">>, <<"s", " ", "h">>, <<"k">>, <<"X", " ", "s", "h">>, <<"X", "s">>}

TheTexts ==
  {[begin |-> <<>>, more |-> 3, symbols |-> {"[", "]", "{", "}", ",", ":", " ", "1", "true", "\"", "\\", "a"}],
   [begin |-> <<"[">>, more |-> 4, symbols |-> {"[", "]", ",", "{", " ", "1"}],
   [begin |-> <<"{", "\"", "a", "\"">>, more |-> 5, symbols |-> {"}", ",", ":", " ", "true"}],
   [begin |-> <<"{", "\"", "a", "\"", ":">>, more |-> 4, symbols |-> {"}", "\"", "1", "a", "true", "null"}],
   [begin |-> <<"{", "\"", "a", "\"", ":", "1", ",", "\"">>, more |-> 6, symbols |-> {"}", "\"", "a", ":", "true"}],
   [begin |-> <<"\"">>, more |-> 5, symbols |-> {"\"", "\\", "u", "n", "00E9"}],
   [begin |-> <<"\"", "\\", "u", "D83D">>, more |-> 6, symbols |-> {"\"", "\\", "u", "D83D"}]}
TheStrings == {<<>>, <<<<"a">>, <<"\"">>, <<"D83D", "DE00">>>>, <<<<"\\">>, <<"u">>, <<"00E9">>, <<"newline">>>>}

I == [kind |-> "int"]
L == [kind |-> "long"]
S == [kind |-> "string"]
Vector(of) == [kind |-> "vector", of |-> <<of>>]
Pair(a, b) == [kind |-> "pair", of |-> <<a, b>>]
Variant(a, b) == [kind |-> "variant", of |-> <<a, b>>]
Text3(n) == [i \in 1..n |-> 3]
TheObjects ==
  {<<S, Text3(n)>> : n \in {0, 1, 2, 3, 4, 5, 63, 64, 65}}
  \cup {<<L, 7>>, <<[kind |-> "flags", bits |-> 3], <<TRUE, FALSE, TRUE>>>>,
        <<Vector(S), <<Text3(2), <<>>>>>>, <<Vector(Vector(I)), <<<<1>>, <<>>>>>>, <<Pair(S, L), <<Text3(1), 5>>>>,
        <<Variant(S, Vector(I)), <<0, Text3(1)>>>>, <<Variant(S, Vector(I)), <<1, <<2>>>>>>,
        <<Vector(Variant(I, S)), <<<<0, 1>>, <<1, Text3(1)>>>>>>}

\* 64 stands for the padding of base64, 65 for a character it does not have
TheSubjects ==
  {<<"bytes", <<>>, {0, 1, 77, 255}, 4>>, <<"base64", <<>>, {0, 16, 1, 64, 65}, 5>>,
   <<"base32", <<>>, {0, 1, 16, 32}, 4>>, <<"base32", <<31, 8, 4>>, {0, 1, 16}, 8>>,
   <<"utf8", <<>>, {65, 128, 144, 160, 192, 194, 224, 237, 240, 244, 248}, 4>>,
   <<"utf8", <<240, 160, 128, 128>>, {65, 128, 194}, 6>>,
   <<"number", <<>>, {"-", "0", "1", "2", "7", "8", "a"}, 4>>,
   <<"hex", <<>>, {0, 1, 15, 16}, 4>>, <<"cast", <<>>, {-300, -129, -128, -1, 0, 127, 128, 255, 256, 40000}, 1>>,
   <<"words", <<>>, {"a", "b", " ", "newline"}, 5>>,
   <<"url", <<>>, {"http", ":", "/", "@", "8", "a"}, 5>>,
   <<"url", <<"https", ":", "/", "/">>, {"@", "?", " ", "%", "a", ":", "8", "0", ".", "["}, 8>>,
   <<"url", <<"a", ":">>, {"0", "1", "8", "a", "@"}, 5>>,
   <<"name", <<>>, {"a", ".", " ", "/", "<", "gone"}, 5>>,
   <<"uint128", <<>>, {}, 0>>, <<"bits", <<>>, {}, 0>>, <<"pq", <<>>, {}, 0>>}

Orders == INSTANCE EventOrders WITH
  Kinds <- {"events", "changes", "strict", "fast"}, MaxSeqNo <- 5, MaxClears <- 1, Kept <- 1,
  LimitSets <- TheLimits, MaxNow <- 8, MaxEvents <- 6, kind <- v1, clears <- v2, ordered <- v3,
  given <- v4, ran <- v5, changes <- v6, ids <- v7, live <- v8, finished <- v9, done <- v10,
  now <- v11, limits <- v12, events <- v13, skip <- v14, wakeup <- v15, log <- v16, stats <- v17,
  wakeupFast <- v18, logFast <- v19
Data == INSTANCE Containers WITH
  Kinds <- {"heap", "tree", "slots", "numbers", "hints"}, K <- 2, Nodes <- 1..6, HeapKeys <- {1, 2},
  Keys <- 1..4, Priorities <- 1..3, Types <- {1, 2}, MaxSlots <- 2, MaxCreates <- 3, MaxEmpty <- 3, MaxWraps <- 1, Gens <- 3, Values <- 1..4,
  HintKeys <- {1, 2}, Names <- TheNames, Queries <- TheQueries, Ratings <- {1, 2}, Space <- " ",
  Ignored <- {"-"}, Simple <- SimpleRules, Complex <- ComplexRules, kind <- v1, heap <- v2,
  root <- v3, kept <- v4, slots <- v5, empty <- v6, live <- v7, dead <- v8, nextData <- v9,
  arr <- v10, numbers <- v11, words <- v12, translits <- v13, names <- v14, ratings <- v15,
  failed <- v16, wrapped <- v17
Json == INSTANCE Json WITH
  Texts <- TheTexts, MaxDepth <- 2, Strings <- TheStrings, Keys <- {<<<<"a">>>>, <<<<"00E9">>>>},
  MaxParts <- 4, source <- v1, input <- v2, scopes <- v3, sb <- v4, pretty <- v5, root <- v6,
  parts <- v7
Tl == INSTANCE Tl WITH
  Byte <- 4, Objects <- TheObjects, object <- v1, bytes <- v2, damage <- v3, result <- v4
Convert == INSTANCE Conversions WITH
  Subjects <- TheSubjects, MaxRun <- 2, SizeT <- 65536, Bits <- 8, MaxPort <- 100, MaxStem <- 3, MaxExtension <- 2,
  WordBits <- 4, Products <- 0..34, PqBits <- 6, Rounds <- 1, Enough <- 2, Lim <- 6, subject <- v1,
  input <- v2, lhs <- v3, rhs <- v4, pqf <- v5
Logs == INSTANCE LogSinks WITH
  Kinds <- {"files", "memory"}, Logs <- {0, 1}, Threshold <- Thresholds, Sizes <- {1, 2},
  MaxMessages <- 3, MaxCrashes <- 1, MaxRotates <- 1, Threads <- {1, 2}, BufferSize <- 4,
  TextSizes <- {0, 1}, MaxRecords <- 5, Wrap <- 8, kind <- v1, file <- v2, exists <- v3, log <- v4,
  at <- v5, messages <- v6, crashes <- v7, rotates <- v8, written <- v9, pos_ <- v10, buffer <- v11,
  copying <- v12, records <- v13, total <- v14
Lock == INSTANCE FileLock WITH
  Systems <- {"posix", "windows"}, Processes <- {1, 2}, PerProcess <- 2, MaxTries <- 2, MaxLocks <- 3, MaxCrashes <- 1,
  NoProcess <- 0, locked_files <- v1, os_lock <- v2, at <- v3, max_tries <- v4, locks <- v5,
  crashes <- v6, dropped <- v7, left <- v8, system <- v9
Dirs == INSTANCE Directories WITH
  Walkers <- 1..5, Jobs <- TheJobs, Kind <- KindOf, Names <- {"a", "b"}, Trees <- TheTrees,
  Target <- <<"a", "b">>, tree <- v1, frames <- v2, trace <- v3, state <- v4, made <- v5

MCInit ==
  \/ part = "AtomicFile" /\ Init /\ v1 = 0 /\ v2 = 0 /\ v3 = 0 /\ v4 = 0 /\ v5 = 0 /\ v6 = 0 /\ v7 = 0 /\ v8 = 0 /\ v9 = 0 /\ v10 = 0 /\ v11 = 0 /\ v12 = 0 /\ v13 = 0 /\ v14 = 0 /\ v15 = 0 /\ v16 = 0 /\ v17 = 0 /\ v18 = 0 /\ v19 = 0 /\ part \in Parts
  \/ part = "Orders" /\ Orders!Init /\ Init /\ part \in Parts
  \/ part = "Data" /\ Data!Init /\ v18 = 0 /\ v19 = 0 /\ Init /\ part \in Parts
  \/ part = "Json" /\ Json!Init /\ v8 = 0 /\ v9 = 0 /\ v10 = 0 /\ v11 = 0 /\ v12 = 0 /\ v13 = 0 /\ v14 = 0 /\ v15 = 0 /\ v16 = 0 /\ v17 = 0 /\ v18 = 0 /\ v19 = 0 /\ Init /\ part \in Parts
  \/ part = "Tl" /\ Tl!Init /\ v5 = 0 /\ v6 = 0 /\ v7 = 0 /\ v8 = 0 /\ v9 = 0 /\ v10 = 0 /\ v11 = 0 /\ v12 = 0 /\ v13 = 0 /\ v14 = 0 /\ v15 = 0 /\ v16 = 0 /\ v17 = 0 /\ v18 = 0 /\ v19 = 0 /\ Init /\ part \in Parts
  \/ part = "Convert" /\ Convert!Init /\ v6 = 0 /\ v7 = 0 /\ v8 = 0 /\ v9 = 0 /\ v10 = 0 /\ v11 = 0 /\ v12 = 0 /\ v13 = 0 /\ v14 = 0 /\ v15 = 0 /\ v16 = 0 /\ v17 = 0 /\ v18 = 0 /\ v19 = 0 /\ Init /\ part \in Parts
  \/ part = "Logs" /\ Logs!Init /\ v15 = 0 /\ v16 = 0 /\ v17 = 0 /\ v18 = 0 /\ v19 = 0 /\ Init /\ part \in Parts
  \/ part = "Lock" /\ Lock!Init /\ v10 = 0 /\ v11 = 0 /\ v12 = 0 /\ v13 = 0 /\ v14 = 0 /\ v15 = 0 /\ v16 = 0 /\ v17 = 0 /\ v18 = 0 /\ v19 = 0 /\ Init /\ part \in Parts
  \/ part = "Dirs" /\ Dirs!Init /\ v6 = 0 /\ v7 = 0 /\ v8 = 0 /\ v9 = 0 /\ v10 = 0 /\ v11 = 0 /\ v12 = 0 /\ v13 = 0 /\ v14 = 0 /\ v15 = 0 /\ v16 = 0 /\ v17 = 0 /\ v18 = 0 /\ v19 = 0 /\ Init /\ part \in Parts
MCNext ==
  /\ UNCHANGED part
  /\ \/ part = "AtomicFile" /\ Next /\ UNCHANGED <<v1, v2, v3, v4, v5, v6, v7, v8, v9, v10, v11, v12, v13, v14, v15, v16, v17, v18, v19>>
     \/ part = "Orders" /\ Orders!Next /\ UNCHANGED vars
     \/ part = "Data" /\ Data!Next /\ UNCHANGED <<v18, v19>> /\ UNCHANGED vars
     \/ part = "Json" /\ Json!Next /\ UNCHANGED <<v8, v9, v10, v11, v12, v13, v14, v15, v16, v17, v18, v19>> /\ UNCHANGED vars
     \/ part = "Tl" /\ Tl!Next /\ UNCHANGED <<v5, v6, v7, v8, v9, v10, v11, v12, v13, v14, v15, v16, v17, v18, v19>> /\ UNCHANGED vars
     \/ part = "Convert" /\ Convert!Next /\ UNCHANGED <<v6, v7, v8, v9, v10, v11, v12, v13, v14, v15, v16, v17, v18, v19>> /\ UNCHANGED vars
     \/ part = "Logs" /\ Logs!Next /\ UNCHANGED <<v15, v16, v17, v18, v19>> /\ UNCHANGED vars
     \/ part = "Lock" /\ Lock!Next /\ UNCHANGED <<v10, v11, v12, v13, v14, v15, v16, v17, v18, v19>> /\ UNCHANGED vars
     \/ part = "Dirs" /\ Dirs!Next /\ UNCHANGED <<v6, v7, v8, v9, v10, v11, v12, v13, v14, v15, v16, v17, v18, v19>> /\ UNCHANGED vars
MCSpec == MCInit /\ [][MCNext]_mc_vars
\* whoever appends, locks or walks goes on
MCFairSpec ==
  /\ MCSpec
  /\ \A i \in {0, 1} : WF_(Logs!vars)(part = "Logs" /\ Logs!Files(Logs!Works(i)))
  /\ \A t \in {1, 2} \X {1, 2} : WF_(Lock!vars)(part = "Lock" /\ Lock!Works(t))
  /\ WF_(Dirs!vars)(part = "Dirs" /\ Dirs!Next)

(* Events and changes are handed on in the order of their numbers, each    *)
(* once and as soon as it can be (OrderedEventsProcessor,                  *)
(* ChangesProcessor); a client that waits as it is told stays within its   *)
(* limits and never waits longer than they ask (FloodControlStrict,        *)
(* FloodControlFast, TimedStat).                                           *)
OrdersHold ==
  part = "Orders" => /\ Orders!TypeOK /\ Orders!RunsInOrder /\ Orders!ChangesInOrder
                     /\ Orders!WithinLimits /\ Orders!WakeupIsExact /\ Orders!StatCounts
                     /\ Orders!FastWithinLimits

(* After any sequence of calls the heap is one and its nodes know where    *)
(* they are, the tree finds what it has by key and by index, an id never   *)
(* reaches the data of another, unless reset_id has wrapped the generation *)
(* of its slot, and a search finds the names it should.                    *)
ContainersHold ==
  part = "Data" => /\ Data!IsHeap /\ Data!PositionsAgree
                   /\ Data!Balanced /\ Data!FindsAll /\ Data!IndexReachesAll
                   /\ Data!TypeOK /\ Data!IdsAreOwn /\ Data!IdsAreListed /\ Data!Enumerated
                   /\ Data!IndexIsOfNames /\ Data!SearchFinds /\ Data!Ranked

(* What is stored is read back, JSON as the value that was written and TL  *)
(* as the object, to the last byte of what was allocated; the two readers  *)
(* of JSON agree on every text, and no bytes, however they were damaged,   *)
(* lead the TL parser outside of them.                                     *)
ReadsWhatIsWritten ==
  /\ part = "Json" => Json!TypeOK /\ Json!WrittenIsRead /\ Json!StoredIsRead /\ Json!SkipAgrees
                      /\ Json!EndIsExpected /\ Json!FieldsAreFound
  /\ part = "Tl" => Tl!LengthIsExact /\ Tl!ReadsBack /\ Tl!StaysInside

(* Every conversion of a text is undone by its inverse.  What is accepted  *)
(* is said apart from the code that accepts it: of base64 and UTF-8 what   *)
(* their encoders write and nothing else (base64 but for its padding), of  *)
(* numbers and casts what the type holds, of base32 one character more     *)
(* than is written, of URLs what Conversions!UrlsAreExact spells out.  The *)
(* runs of zeros accept any bytes; words and names of files are cut and    *)
(* cleaned, not refused.                                                   *)
TextsAreExact ==
  part = "Convert" => /\ Convert!Base64IsExact /\ Convert!BytesAreKept /\ Convert!Base32IsExact /\ Convert!Utf8IsExact
                   /\ Convert!NumbersAreExact /\ Convert!CastsAreExact /\ Convert!WordsAreKept
                   /\ Convert!UrlsAreStable /\ Convert!UrlsAreExact /\ Convert!NamesAreClean

(* utf8_utf16_truncate cuts to the length it is given (utf8.h), or to one  *)
(* more when a pair is cut.                                                *)
TruncatesToLength == part = "Convert" => Convert!TruncatesToLength

(* The arithmetic that is not the compiler's agrees with it, bits are      *)
(* where they are found, and what pq_factorize finds divides (uint128.h,   *)
(* bits.h, crypto.cpp).                                                    *)
NumbersAgree == part = "Convert" => Convert!EmulatedAgrees /\ Convert!BitsAgree /\ Convert!FactorDivides

(* The files of a log are what was written, in order, no message split     *)
(* between two, and the size it keeps is that of its file, after rotations *)
(* and restarts too (FileLog, TsFileLog); a record of the memory log is    *)
(* whole until the ring comes round (MemoryLog).  FileLog::rotate alone    *)
(* drops what is in path_ when it is called, and nothing else.             *)
FilesHold ==
  part = "Logs" => /\ Logs!TypeOK /\ Logs!NothingTruncated /\ Logs!SizeIsOfFile /\ Logs!NotSplit
                   /\ Logs!FilesAreShort /\ Logs!RecordsAreWhole

(* One thread of a program holds a path and removes only its own entry; of *)
(* all programs one, unless on POSIX the holder has lost its lock to       *)
(* another of its threads that closed the file (FileFd::lock).  Walks      *)
(* nest, leave no entry without its directory and end with what they       *)
(* promise (path.cpp).                                                     *)
TreesHold ==
  /\ part = "Lock" => Lock!OneHolder /\ Lock!EntryIsOwn /\ Lock!TriesEnd
  /\ part = "Dirs" => Dirs!TypeOK /\ Dirs!TreeIsWhole /\ Dirs!Nested /\ Dirs!RemovedAll /\ Dirs!MkpathMakes

(* An append, a lock and a walk return, whichever file, thread or walk it  *)
(* is: the i-th of the part that runs.                                     *)
Thread(i) == <<(i + 1) \div 2, 2 - (i % 2)>>
Busy(i) ==
  CASE part = "Logs" -> i \in {1, 2} /\ v5[i - 1].step # "idle"
    [] part = "Lock" -> i \in 1..4 /\ v3[Thread(i)] = "local"
    [] part = "Dirs" -> TRUE [] OTHER -> FALSE
Back(i) ==
  CASE part = "Logs" -> i \in {1, 2} /\ v5[i - 1].step = "idle"
    [] part = "Lock" -> i \in 1..4 /\ v3[Thread(i)] \in {"idle", "held"}
    [] part = "Dirs" -> v4[i] \notin {"new", "on"} [] OTHER -> FALSE
FilesMove == \A i \in 1..5 : Busy(i) ~> Back(i)
============================================================================
