---------------------------- MODULE AtomicRead ----------------------------
(***************************************************************************)
(* td/utils/AtomicRead.h: a value of several words behind a version that   *)
(* is odd while a writer is inside.  Readers copy the words without a lock *)
(* and retry when the version is odd or has moved.  The copy and the       *)
(* writes go word by word, in any order.  Writers exclude each other       *)
(* outside this class: do_lock CHECKs it.                                  *)
(***************************************************************************)
EXTENDS Integers

CONSTANTS Readers, Words, MaxWrites
ASSUME AtomicReadAssumption == MaxWrites \in Nat

VARIABLES version, value,       \* the fields of AtomicRead; value[w] is a write's number
          todo,                 \* words the writer has still to write
          at                    \* at[r]: [step, before, dest, todo, from], the locals of read

vars == <<version, value, todo, at>>
Idle == [step |-> "idle", before |-> 0, dest |-> [w \in Words |-> 0], todo |-> {}, from |-> 0]
Complete == version \div 2      \* writes that have ended

Init == /\ version = 0 /\ value = [w \in Words |-> 0] /\ todo = {}
        /\ at = [r \in Readers |-> Idle]

do_lock == /\ version % 2 = 0 /\ Complete < MaxWrites
           /\ version' = version + 1 /\ todo' = Words
           /\ UNCHANGED <<value, at>>

\* Through Write::operator* and operator->.
WriteWord == \E w \in todo: /\ value' = [value EXCEPT ![w] = Complete + 1]
                            /\ todo' = todo \ {w} /\ UNCHANGED <<version, at>>

do_unlock == /\ version % 2 = 1 /\ todo = {}
             /\ version' = version + 1 /\ UNCHANGED <<value, todo, at>>

\* read: version_before; an odd one yields and loads again
Begin(r) ==
  /\ at[r].step \in {"idle", "retry"}
  /\ at' = [at EXCEPT ![r] = [Idle EXCEPT
       !.step = IF version % 2 = 0 THEN "copy" ELSE "retry",
       !.before = version, !.todo = Words,
       !.from = IF at[r].step = "idle" THEN Complete ELSE at[r].from]]
  /\ UNCHANGED <<version, value, todo>>

\* read: memcpy
Copy(r) ==
  /\ at[r].step = "copy"
  /\ \E w \in at[r].todo:
       at' = [at EXCEPT ![r].dest[w] = value[w], ![r].todo = @ \ {w}]
  /\ UNCHANGED <<version, value, todo>>

\* The mutant does not look at the version again.
EndUnseen(r) ==
  /\ at[r].step = "copy" /\ at[r].todo = {}
  /\ at' = [at EXCEPT ![r].step = "done"] /\ UNCHANGED <<version, value, todo>>

\* read: version_after
End(r) ==
  /\ at[r].step = "copy" /\ at[r].todo = {}
  /\ at' = [at EXCEPT ![r].step = IF version = at[r].before THEN "done" ELSE "retry"]
  /\ UNCHANGED <<version, value, todo>>

Return(r) == /\ at[r].step = "done" /\ at' = [at EXCEPT ![r] = Idle]
             /\ UNCHANGED <<version, value, todo>>

Read(r) == Begin(r) \/ Copy(r) \/ End(r) \/ Return(r)
Next == do_lock \/ WriteWord \/ do_unlock \/ \E r \in Readers: Read(r)
Spec == Init /\ [][Next]_vars
FairSpec == Spec /\ WF_vars(WriteWord \/ do_unlock) /\ \A r \in Readers: WF_vars(Read(r))

\* A read returns all the words of one write, and of none older than the last
\* one that had ended when it began (read against do_lock and do_unlock).
ReadIsOneWrite == \A r \in Readers: at[r].step = "done" =>
  \E n \in at[r].from..Complete: at[r].dest = [w \in Words |-> n]

\* Readers never stop a writer, and once writes cease every read returns.
ReadEnds == \A r \in Readers: at[r].step = "copy" ~> at[r].step \in {"done", "idle"}
============================================================================
