------------------------- MODULE ConcurrentHashMap -------------------------
(***************************************************************************)
(* td/utils/ConcurrentHashTable.h: open addressing over atomic keys and    *)
(* values; a full table is migrated, by every thread that meets the        *)
(* migration, to one twice as large.                                       *)
(*                                                                         *)
(* with_value is one step up to the call of its function: a slot once      *)
(* claimed keeps its key, so the walk ends where an instantaneous one made *)
(* at its last load or exchange would end.  A region under migrate_mutex_  *)
(* is one step.  holder.protect is a load of hash_map_ whose result stays  *)
(* allocated (HazardPointers), so tables are numbered and never freed.     *)
(***************************************************************************)
EXTENDS Integers, SequencesExt

CONSTANTS Threads,
          Calls,        \* Calls[t]: the operations of t: <<"insert", key, value>> or <<"find", key>>
          Chunk         \* TaskCreator::chunk_size (100 in the code)

Null == 0
Free == 0               \* empty_key()
Empty == 0              \* empty_value()
Migrate == 1            \* migrate_value()
Default == 2            \* what find is asked to return for an absent key

VARIABLES hash_map_,    \* number of the current table, Null during a migration
          tables,       \* tables[n]: the nodes of table n, of size 2^(n-1)
          migrate_cnt_, migrate_generation_, migrate_from, migrate_to, pos,
          at,           \* at[t]: program counter and locals
          done,         \* done[t]: calls that returned
          won           \* history: won[key]: value of the insertion that took effect

vars == <<hash_map_, tables, migrate_cnt_, migrate_generation_, migrate_from, migrate_to, pos, at, done, won>>
migration == <<migrate_cnt_, migrate_generation_, migrate_from, migrate_to, pos>>

Node == [key |-> Free, value |-> Empty]
Keys == UNION {{Calls[t][i][2] : i \in DOMAIN Calls[t]} : t \in Threads}
Local == [step |-> "idle", table |-> Null, slot |-> 0, res |-> Default,
          end |-> 0, old |-> Empty, gen |-> 0, late |-> Empty]

Init == /\ hash_map_ = 1 /\ tables = << <<Node>> >>
        /\ migrate_cnt_ = 0 /\ migrate_generation_ = 0
        /\ migrate_from = Null /\ migrate_to = Null /\ pos = 0
        /\ at = [t \in Threads |-> Local] /\ done = [t \in Threads |-> 0]
        /\ won = [k \in Keys |-> Empty]

Call(t) == Calls[t][done[t] + 1]
Key(t) == Call(t)[2]
Is(t, step) == at[t].step = step
Set(t, r) == at' = [at EXCEPT ![t] = r @@ @]

----------------------------------------------------------------------------
\* AtomicHashArray::with_value: the slot it calls its function on, 0 for none.
\* It walks from key % size + 1, over at most 300 slots (here: all of them).
Walk(table, key) == LET n == Len(table) IN [i \in 1..n |-> ((key + i) % n) + 1]
SlotOf(table, key, should_create) ==
  LET walk == Walk(table, key)
      ends == {i \in DOMAIN walk: table[walk[i]].key \in {Free, key}}
      slot == walk[CHOOSE i \in ends: \A j \in ends: i <= j]
  IN  IF ends = {} \/ (table[slot].key = Free /\ ~should_create) THEN 0 ELSE slot
Claim(n, slot, key) == tables' = [tables EXCEPT ![n][slot].key = key]

----------------------------------------------------------------------------
\* insert and find

\* holder.protect(hash_map_)
Begin(t) ==
  /\ done[t] < Len(Calls[t]) /\ at[t].step \in {"idle", "retry"}
  /\ Set(t, [step |-> IF hash_map_ = Null THEN "do_migrate" ELSE "walk", table |-> hash_map_,
             late |-> IF Is(t, "idle") THEN won[Key(t)] ELSE at[t].late])
  /\ UNCHANGED <<hash_map_, tables, migration, done, won>>

InsertWalk(t) ==
  LET slot == SlotOf(tables[at[t].table], Key(t), TRUE) IN
  /\ Is(t, "walk") /\ Call(t)[1] = "insert"
  /\ IF slot = 0 THEN Set(t, [step |-> "do_migrate"]) /\ UNCHANGED tables
                 ELSE Claim(at[t].table, slot, Key(t)) /\ Set(t, [step |-> "insert", slot |-> slot])
  /\ UNCHANGED <<hash_map_, migration, done, won>>

\* The mutant returns whatever it found, migrate_value() too.
InsertTakesAny(t) ==
  LET n == at[t].table
      seen == tables[n][at[t].slot].value
      res == IF seen = Empty THEN Call(t)[3] ELSE seen
  IN  /\ Is(t, "insert")
      /\ tables' = [tables EXCEPT ![n][at[t].slot].value = res]
      /\ won' = IF seen = Empty THEN [won EXCEPT ![Key(t)] = res] ELSE won
      /\ Set(t, [step |-> "return", res |-> res])
      /\ UNCHANGED <<hash_map_, migration, done>>

\* insert: the exchange of the value, from empty_value()
Insert(t) ==
  LET n == at[t].table
      seen == tables[n][at[t].slot].value
  IN  /\ Is(t, "insert")
      /\ IF seen = Empty
           THEN /\ tables' = [tables EXCEPT ![n][at[t].slot].value = Call(t)[3]]
                /\ won' = [won EXCEPT ![Key(t)] = Call(t)[3]]
                /\ Set(t, [step |-> "return", res |-> Call(t)[3]])
           ELSE /\ UNCHANGED <<tables, won>>
                /\ Set(t, IF seen = Migrate THEN [step |-> "do_migrate"]
                                            ELSE [step |-> "return", res |-> seen])
      /\ UNCHANGED <<hash_map_, migration, done>>

FindWalk(t) ==
  LET slot == SlotOf(tables[at[t].table], Key(t), FALSE) IN
  /\ Is(t, "walk") /\ Call(t)[1] = "find"
  /\ Set(t, [step |-> IF slot = 0 THEN "return" ELSE "find", slot |-> slot])
  /\ UNCHANGED <<hash_map_, tables, migration, done, won>>

\* find: value is overwritten, with migrate_value() too
Find(t) ==
  LET seen == tables[at[t].table][at[t].slot].value IN
  /\ Is(t, "find")
  /\ Set(t, [step |-> IF seen = Migrate THEN "do_migrate" ELSE "return", res |-> seen])
  /\ UNCHANGED <<hash_map_, tables, migration, done, won>>

Return(t) ==
  /\ Is(t, "return")
  /\ done' = [done EXCEPT ![t] = @ + 1] /\ at' = [at EXCEPT ![t] = Local]
  /\ UNCHANGED <<hash_map_, tables, migration, won>>

----------------------------------------------------------------------------
\* do_migrate(ptr), up to the unlock, with init_migrate
DoMigrate(t) ==
  /\ Is(t, "do_migrate")
  /\ IF hash_map_ # at[t].table
       THEN Set(t, [step |-> "retry"]) /\ UNCHANGED <<hash_map_, tables, migration>>
       ELSE /\ migrate_cnt_' = migrate_cnt_ + 1
            /\ IF migrate_from # Null
                 THEN UNCHANGED <<hash_map_, tables, migrate_generation_, migrate_from, migrate_to, pos>>
                 ELSE /\ migrate_generation_' = migrate_generation_ + 1
                      /\ migrate_from' = hash_map_ /\ hash_map_' = Null
                      /\ tables' = Append(tables, [i \in 1..(2 * Len(tables[hash_map_])) |-> Node])
                      /\ migrate_to' = Len(tables) + 1
                      /\ pos' = 0
            /\ Set(t, [step |-> "task", gen |-> migrate_generation_'])
  /\ UNCHANGED <<done, won>>

\* run_migrate: TaskCreator::create, until a task is empty
Task(t) ==
  LET size == Len(tables[migrate_from])
      begin == pos * Chunk
      end == IF begin + Chunk > size THEN size ELSE begin + Chunk
  IN  /\ Is(t, "task")
      /\ pos' = pos + 1
      /\ Set(t, IF begin >= end THEN [step |-> "finish"]
                                ELSE [step |-> "take", slot |-> begin + 1, end |-> end])
      /\ UNCHANGED <<hash_map_, tables, migrate_cnt_, migrate_generation_, migrate_from, migrate_to, done, won>>

AfterItem(t) == IF at[t].slot < at[t].end THEN [step |-> "take", slot |-> at[t].slot + 1]
                                          ELSE [step |-> "task"]

\* run_task: the value is exchanged for migrate_value() in the old table ...
Take(t) ==
  LET old == tables[migrate_from][at[t].slot].value IN
  /\ Is(t, "take")
  /\ tables' = [tables EXCEPT ![migrate_from][at[t].slot].value = Migrate]
  /\ Set(t, IF old = Empty THEN AfterItem(t) ELSE [step |-> "put", old |-> old])
  /\ UNCHANGED <<hash_map_, migration, done, won>>

\* ... and stored in the new one, in the slot claimed for its key
Put(t) ==
  LET key == tables[migrate_from][at[t].slot].key
      slot == SlotOf(tables[migrate_to], key, TRUE)
  IN  /\ Is(t, "put") /\ slot # 0
      /\ IF tables[migrate_to][slot].key = Free
           THEN Claim(migrate_to, slot, key) /\ UNCHANGED at
           ELSE /\ tables' = [tables EXCEPT ![migrate_to][slot].value = at[t].old]
                /\ Set(t, AfterItem(t))
      /\ UNCHANGED <<hash_map_, migration, done, won>>

\* The mutant keeps the generation when it ends.
FinishSilently(t) ==
  /\ Is(t, "finish")
  /\ migrate_cnt_' = migrate_cnt_ - 1
  /\ IF migrate_cnt_' = 0
       THEN hash_map_' = migrate_to /\ migrate_from' = Null /\ migrate_to' = Null
       ELSE UNCHANGED <<hash_map_, migrate_from, migrate_to>>
  /\ Set(t, [step |-> "wait"])
  /\ UNCHANGED <<tables, migrate_generation_, pos, done, won>>

\* The end of do_migrate: the last worker finishes, and all wait for it.
FinishMigrate(t) ==
  /\ Is(t, "finish")
  /\ migrate_cnt_' = migrate_cnt_ - 1
  /\ IF migrate_cnt_' = 0
       THEN /\ hash_map_' = migrate_to /\ migrate_from' = Null /\ migrate_to' = Null
            /\ migrate_generation_' = migrate_generation_ + 1
       ELSE UNCHANGED <<hash_map_, migrate_from, migrate_to, migrate_generation_>>
  /\ Set(t, [step |-> "wait"])
  /\ UNCHANGED <<tables, pos, done, won>>

Wait(t) ==
  /\ Is(t, "wait") /\ migrate_generation_ # at[t].gen
  /\ Set(t, [step |-> "retry"])
  /\ UNCHANGED <<hash_map_, tables, migration, done, won>>

Step(t) == \/ Begin(t) \/ InsertWalk(t) \/ Insert(t) \/ FindWalk(t) \/ Find(t) \/ Return(t)
           \/ DoMigrate(t) \/ Task(t) \/ Take(t) \/ Put(t) \/ FinishMigrate(t) \/ Wait(t)
Next == \E t \in Threads: Step(t)
Spec == Init /\ [][Next]_vars
FairSpec == Spec /\ \A t \in Threads: WF_vars(Step(t))

----------------------------------------------------------------------------
\* An insertion returns the value that took effect for its key, its own or an
\* earlier one; a lookup that began after that returns it too, whichever
\* tables the two met (insert, find, do_migrate).
ResultsAgree == \A t \in Threads: Is(t, "return") =>
  /\ Call(t)[1] = "insert" => at[t].res = won[Key(t)]
  /\ Call(t)[1] = "find" /\ at[t].late # Empty => at[t].res = at[t].late
  /\ at[t].res \in {Default, Empty, Migrate, won[Key(t)]}

\* Outside a migration the current table holds every value that took effect,
\* once, and no other: nothing inserted beside a migration stayed behind in
\* the old table (run_task against insert), and for_each meets no migrate_value().
CurrentIsComplete == hash_map_ # Null =>
  LET table == tables[hash_map_]
      Is1(i, k) == table[i].key = k /\ table[i].value = won[k]
  IN  /\ \A k \in Keys: won[k] # Empty => \E i \in DOMAIN table: Is1(i, k)
      /\ \A i \in DOMAIN table: table[i].value # Empty => Is1(i, table[i].key)
      /\ \A i, j \in DOMAIN table: i # j /\ table[i].key # Free => table[i].key # table[j].key

\* Every call returns: a migration ends, whoever joins it late (do_migrate's
\* wait on migrate_cv_, the retries of insert and find).
AllReturn == <>(\A t \in Threads: done[t] = Len(Calls[t]))
============================================================================
