---------------------------- MODULE EventOrders ----------------------------
(***************************************************************************)
(* What puts events in order and in time; a behaviour has one of them.     *)
(*                                                                         *)
(* OrderedEventsProcessor and ChangesProcessor: results arrive in any      *)
(* order and are handed on in the order of their numbers.  Both keep an    *)
(* array with flags whose front part they erase once it is half of it.     *)
(* Data is its number; 0 is moved-from data.                               *)
(*                                                                         *)
(* FloodControlStrict, and FloodControlFast with the TimedStat it counts   *)
(* with: a client asks get_wakeup_at() before it adds an event, and may    *)
(* add any number of events in the same second.  The clock does not go     *)
(* back.                                                                   *)
(***************************************************************************)
EXTENDS Integers, Sequences, SequencesExt, FiniteSets

CONSTANTS Kinds,       \* of "events", "changes", "strict", "fast"
          MaxSeqNo, MaxClears,
          Kept,        \* the 5 of try_compactify
          LimitSets,   \* the limits that may be set, sequences of <<duration >= 0, count >= 1>>
          MaxNow, MaxEvents

VARIABLES kind, clears,
          ordered,    \* OrderedEventsProcessor: [offset, begin, end, data]
          given,      \* numbers added so far
          ran,        \* what function was called with, in order
          changes,    \* ChangesProcessor: [offset, ready, data]
          ids, live,  \* ids it gave out; those of them not cleared
          finished, done,   \* ids finished; what func was called with
          now,
          limits,     \* Strict: limits_, [duration, count, pos]
          events, skip, wakeup,     \* events_, without_update_, wakeup_at_
          log,        \* times of all events since the last clear
          stats,      \* Fast: limits_, [duration, count, stat]; stat keeps the times it has counted
          wakeupFast, logFast
event_vars == <<ordered, given, ran>>
change_vars == <<changes, ids, live, finished, done>>
strict_vars == <<limits, events, skip, wakeup, log>>
fast_vars == <<stats, wakeupFast, logFast>>
vars == <<kind, clears, event_vars, change_vars, now, strict_vars, fast_vars>>

Empty == [value |-> 0, flag |-> FALSE]
Never == MaxEvents + 1     \* numeric_limits<size_t>::max()
MaxOf(a, b) == IF a > b THEN a ELSE b
Largest(S) == CHOOSE x \in S : \A y \in S : y <= x
Least(S) == CHOOSE x \in S : \A y \in S : x <= y
NewStat(time) == [cur |-> <<>>, curAt |-> time, next |-> <<>>, nextAt |-> time]

Init == \E ls \in LimitSets :
  /\ kind \in Kinds /\ clears = 0
  /\ ordered = [offset |-> 1, begin |-> 1, end |-> 1, data |-> <<>>] /\ given = {} /\ ran = <<>>
  /\ changes = [offset |-> 1, ready |-> 0, data |-> <<>>]
  /\ ids = 0 /\ live = <<>> /\ finished = {} /\ done = <<>>
  /\ now = 0 /\ events = <<>> /\ skip = 0 /\ wakeup = 1 /\ log = <<>>
  /\ limits = [i \in DOMAIN ls |-> [duration |-> ls[i][1], count |-> ls[i][2], pos |-> 0]]
  /\ stats = [i \in DOMAIN ls |-> [duration |-> ls[i][1], count |-> ls[i][2], stat |-> NewStat(0)]]
  /\ wakeupFast = 0 /\ logFast = <<>>

Erased(data, n) == SubSeq(data, n + 1, Len(data))
Compacts(n, data) == n > Kept /\ n * 2 > Len(data)

----------------------------------------------------------------------------
\* OrderedEventsProcessor::add, seq_no = begin_: it runs, and those that follow it
Later(o) == (o.begin + 1) .. (o.end - 1)
Ready(o) ==    \* the first number after it whose flag is not set
  LET missing == {n \in Later(o) : ~o.data[n - o.offset + 1].flag}
  IN  IF missing = {} THEN (IF o.end > o.begin + 1 THEN o.end ELSE o.begin + 1)
      ELSE CHOOSE n \in missing : \A m \in missing : n <= m
RunNow(seq_no) ==
  LET next == Ready(ordered)
      used == [i \in DOMAIN ordered.data |->
                 IF i + ordered.offset - 1 \in (seq_no + 1)..(next - 1) THEN Empty ELSE ordered.data[i]]
      last == IF next > ordered.end THEN next ELSE ordered.end
      offset == IF next = last THEN next ELSE ordered.offset
  IN  /\ seq_no = ordered.begin
      /\ ran' = ran \o <<seq_no>> \o
                [i \in 1..(next - seq_no - 1) |-> ordered.data[seq_no + i - ordered.offset + 1].value]
      /\ ordered' = IF Compacts(next - offset, used)
                    THEN [offset |-> next, begin |-> next, end |-> last, data |-> Erased(used, next - offset)]
                    ELSE [offset |-> offset, begin |-> next, end |-> last, data |-> used]
TooEarly(seq_no) ==
  LET pos == seq_no - ordered.offset + 1
      size == IF pos > Len(ordered.data) THEN pos ELSE Len(ordered.data)
  IN  /\ seq_no > ordered.begin /\ UNCHANGED ran
      /\ ordered' = [ordered EXCEPT
           !.data = [i \in 1..size |-> IF i = pos THEN [value |-> seq_no, flag |-> TRUE]
                                       ELSE IF i <= Len(@) THEN @[i] ELSE Empty],
           !.end = IF @ < seq_no + 1 THEN seq_no + 1 ELSE @]
AddEvent(seq_no) ==
  /\ seq_no \notin given /\ given' = given \cup {seq_no}
  /\ RunNow(seq_no) \/ TooEarly(seq_no)

----------------------------------------------------------------------------
\* ChangesProcessor
AddChange ==
  /\ ids < MaxSeqNo /\ ids' = ids + 1
  /\ live' = Append(live, changes.offset + Len(changes.data))
  /\ changes' = [changes EXCEPT !.data = Append(@, [value |-> changes.offset + Len(changes.data), flag |-> FALSE])]
  /\ UNCHANGED <<finished, done, clears>>
\* an id from before a clear, or one erased since, is out of the array
Finish(token) ==
  LET pos == token - changes.offset + 1
      data == [changes.data EXCEPT ![pos].flag = TRUE]
      unready == {i \in (changes.ready + 1)..Len(data) : ~data[i].flag}
      ready == IF unready = {} THEN Len(data) ELSE (CHOOSE i \in unready : \A j \in unready : i <= j) - 1
      used == [i \in DOMAIN data |-> IF i <= ready THEN [data[i] EXCEPT !.value = 0] ELSE data[i]]
  IN  /\ finished' = finished \cup {token}
      /\ IF pos \notin DOMAIN changes.data THEN UNCHANGED <<changes, done>>
         ELSE /\ done' = done \o [i \in 1..(ready - changes.ready) |-> data[changes.ready + i].value]
              /\ changes' = IF Compacts(ready, used)
                            THEN [offset |-> changes.offset + ready, ready |-> 0, data |-> Erased(used, ready)]
                            ELSE [changes EXCEPT !.ready = ready, !.data = used]
      /\ UNCHANGED <<ids, live, clears>>
ClearInPlace ==
  /\ clears < MaxClears /\ clears' = clears + 1
  /\ changes' = [changes EXCEPT !.ready = 0, !.data = <<>>]
  /\ live' = SelectSeq(live, LAMBDA id : id \in Range(done))
  /\ UNCHANGED <<ids, finished, done>>
Clear ==
  /\ clears < MaxClears /\ clears' = clears + 1
  /\ changes' = [offset |-> changes.offset + Len(changes.data), ready |-> 0, data |-> <<>>]
  /\ live' = SelectSeq(live, LAMBDA id : id \in Range(done))
  /\ UNCHANGED <<ids, finished, done>>

----------------------------------------------------------------------------
\* FloodControlStrict::update
Moved(limit, ev, time) ==
  LET from == IF limit.count < Len(ev) - limit.pos THEN Len(ev) - limit.count ELSE limit.pos
  IN  Least({p \in from..Len(ev) : p = Len(ev) \/ ev[p + 1] + limit.duration >= time})
\* how many events cannot reach the limit yet
Spare(limit, pos, size) == limit.count + pos - size - 1
Update(ev, time) ==
  LET pos == [i \in DOMAIN limits |-> Moved(limits[i], ev, time)]
      full == {i \in DOMAIN limits : limits[i].count + pos[i] <= Len(ev)}
      least == Least({pos[i] : i \in DOMAIN limits} \cup {Len(ev)})
      erased == IF least * 2 > Len(ev) THEN least ELSE 0
  IN  /\ wakeup' = Largest({wakeup} \cup {ev[pos[i] + 1] + limits[i].duration : i \in full})
      /\ skip' = IF full # {} THEN 0
                 ELSE Least({Spare(limits[i], pos[i], Len(ev)) : i \in DOMAIN limits} \cup {Never})
      /\ limits' = [i \in DOMAIN limits |-> [limits[i] EXCEPT !.pos = pos[i] - erased]]
      /\ events' = SubSeq(ev, erased + 1, Len(ev))
AddStrict ==
  /\ now >= wakeup /\ Len(log) < MaxEvents
  /\ log' = Append(log, now)
  /\ IF skip > 0 THEN skip' = skip - 1 /\ events' = Append(events, now) /\ UNCHANGED <<limits, wakeup>>
     ELSE Update(Append(events, now), now)
  /\ UNCHANGED clears
UpdateStrict == Update(events, now) /\ UNCHANGED <<log, clears>>
ClearStrict ==
  /\ clears < MaxClears /\ clears' = clears + 1
  /\ events' = <<>> /\ skip' = 0 /\ wakeup' = 1 /\ log' = <<>>
  /\ limits' = [i \in DOMAIN limits |-> [limits[i] EXCEPT !.pos = 0]]

----------------------------------------------------------------------------
\* TimedStat::update
Rotated(stat, duration, at) ==
  LET time == MaxOf(at, stat.nextAt)
  IN  IF duration = 0 THEN stat
      ELSE IF stat.nextAt + 2 * duration < time THEN NewStat(time)
      ELSE IF stat.nextAt + duration < time
      THEN [cur |-> stat.next, curAt |-> stat.nextAt, next |-> <<>>, nextAt |-> time]
      ELSE stat
WithEvent(stat, duration) ==
  LET s == Rotated(stat, duration, now)
  IN  [s EXCEPT !.cur = Append(@, now), !.next = Append(@, now)]
\* FloodControlFast::add_event
Pause(limit) == now + 2 * limit.duration
AddFast ==
  LET added == [i \in DOMAIN stats |-> [stats[i] EXCEPT !.stat = WithEvent(@, stats[i].duration)]]
      over == {i \in DOMAIN added : Len(added[i].stat.cur) > added[i].count}
  IN  /\ now >= wakeupFast /\ Len(logFast) < MaxEvents
      /\ logFast' = Append(logFast, now) /\ stats' = added
      /\ wakeupFast' = Largest({wakeupFast} \cup {Pause(added[i]) : i \in over})
      /\ UNCHANGED clears
ClearFast ==
  /\ clears < MaxClears /\ clears' = clears + 1
  /\ wakeupFast' = 0 /\ logFast' = <<>>
  /\ stats' = [i \in DOMAIN stats |-> [stats[i] EXCEPT !.stat.cur = <<>>, !.stat.next = <<>>]]

Ticks == kind \in {"strict", "fast"} /\ now < MaxNow /\ now' = now + 1
         /\ UNCHANGED <<clears, strict_vars, fast_vars>>
NextEvents == (\E seq_no \in 1..MaxSeqNo : AddEvent(seq_no)) /\ UNCHANGED clears
NextChanges == AddChange \/ Clear \/ \E token \in 1..ids : Finish(token)
NextStrict == AddStrict \/ UpdateStrict \/ ClearStrict
NextFast == AddFast \/ ClearFast

Next ==
  /\ UNCHANGED kind
  /\ \/ kind = "events" /\ NextEvents /\ UNCHANGED <<change_vars, now, strict_vars, fast_vars>>
     \/ kind = "changes" /\ NextChanges /\ UNCHANGED <<event_vars, now, strict_vars, fast_vars>>
     \/ kind = "strict" /\ NextStrict /\ UNCHANGED <<event_vars, change_vars, now, fast_vars>>
     \/ kind = "fast" /\ NextFast /\ UNCHANGED <<event_vars, change_vars, now, strict_vars>>
     \/ Ticks /\ UNCHANGED <<event_vars, change_vars>>
Spec == Init /\ [][Next]_vars

----------------------------------------------------------------------------
TypeOK == /\ ordered.offset <= ordered.begin /\ ordered.begin <= ordered.end
          /\ changes.ready <= Len(changes.data)
          /\ \A i \in DOMAIN limits : limits[i].pos \in 0..Len(events)
          /\ skip \in 0..Never /\ Len(events) <= MaxEvents

\* the numbers 1..n that have all arrived
Arrived(n) == 1..n \subseteq given
(* Events run in the order of their numbers, each once, with its own data, *)
(* and as soon as all before it have arrived, wherever the array was       *)
(* erased or its offset moved on the way.                                  *)
RunsInOrder == \E n \in 0..MaxSeqNo :
  Arrived(n) /\ ~Arrived(n + 1) /\ ran = [i \in 1..n |-> i] /\ ordered.begin = n + 1

(* Of the changes that were not cleared, the longest prefix that is        *)
(* finished has been handed on, in the order of add, each once; an id from *)
(* before a clear finishes nothing.                                        *)
ChangesInOrder ==
  /\ IsPrefix(done, live)
  /\ \A i \in 1..Len(live) :
       (\A j \in 1..i : live[j] \in finished \/ live[j] \in Range(done)) => i <= Len(done)

(* A client that waits for get_wakeup_at() never has more than count       *)
(* events in less than duration seconds, for any of the limits: neither    *)
(* the updates it skips nor the events it erases lose one that counts.     *)
WithinLimits == \A k \in DOMAIN limits : \A i \in DOMAIN log :
  LET j == i + limits[k].count IN j \in DOMAIN log => log[j] - log[i] >= limits[k].duration
(* It never has to wait longer than the limits ask for: when the next      *)
(* event may be added is the largest, over the limits, of the time of the  *)
(* count-th last event plus duration.                                      *)
Allowed == Largest({1} \cup {log[Len(log) - limits[k].count + 1] + limits[k].duration :
                             k \in {k \in DOMAIN limits : Len(log) >= limits[k].count}})
WakeupIsExact == IF Allowed >= now THEN wakeup = Allowed ELSE wakeup <= now

(* current_ counts every event of the last duration, however the calls     *)
(* fall on its rotations, and none that is older than three durations.     *)
Recent(times, from) == SelectSeq(times, LAMBDA t : t >= from)
StatCounts == \A k \in DOMAIN stats :
  LET d == stats[k].duration
      cur == Rotated(stats[k].stat, d, now).cur
  IN  d > 0 => /\ Len(Recent(cur, now - d)) = Len(Recent(logFast, now - d))
               /\ \A i \in DOMAIN cur : cur[i] >= now - 3 * d
(* FloodControlFast lets at most one event more than count into a duration *)
(* of a client that waits for get_wakeup_at().                             *)
FastWithinLimits == \A k \in DOMAIN stats : \A i \in DOMAIN logFast :
  LET j == i + stats[k].count + 1
  IN  stats[k].duration > 0 /\ j \in DOMAIN logFast => logFast[j] - logFast[i] > stats[k].duration
============================================================================
