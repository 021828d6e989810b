----------------------------- MODULE FileLock -----------------------------
(***************************************************************************)
(* FileFd::lock and remove_local_lock (port/FileFd.cpp) for one path: the  *)
(* set locked_files keeps the threads of a program apart, the lock of the  *)
(* file system the programs.  That lock is external.  On POSIX it belongs  *)
(* to the process, is granted to it again when it already has it, and ends *)
(* when any thread of the process closes a descriptor of the file; on      *)
(* Windows it belongs to the handle.  The threads are callers such as      *)
(* write_file (filesystem.cpp): each opens the file for itself, and closes *)
(* it whether it got the lock or not.  A thread is <<process, n>>.  A      *)
(* program that crashes may start again with its threads.                  *)
(***************************************************************************)
EXTENDS Integers, FiniteSets

CONSTANTS Systems,   \* of "posix", "windows"
          Processes, PerProcess,   \* PerProcess: threads of each
          MaxTries, MaxLocks, MaxCrashes,
          NoProcess

Threads == Processes \X (1..PerProcess)

VARIABLES system,         \* whose lock of the file it is
          locked_files,   \* [Processes -> BOOLEAN]: the path is in the set
          os_lock,        \* the process that has the lock of the file, or NoProcess
          at,             \* [Threads -> step]
          max_tries,      \* [Threads -> Int]: the parameter, counted down
          locks, crashes,
          dropped,        \* history: threads whose lock ended as another of their process closed the file
          left            \* history: processes whose entry stays, as its owner went without removing it
vars == <<system, locked_files, os_lock, at, max_tries, locks, crashes, dropped, left>>

Init == /\ system \in Systems /\ dropped = {} /\ left = {}
        /\ locked_files = [p \in Processes |-> FALSE] /\ os_lock = NoProcess
        /\ at = [t \in Threads |-> "idle"] /\ max_tries = [t \in Threads |-> 0]
        /\ locks = 0 /\ crashes = 0

Moves(t, step) == at' = [at EXCEPT ![t] = step]
OsUnlocked(t) == IF os_lock = t[1] THEN NoProcess ELSE os_lock

Lock(t) ==
  /\ at[t] = "idle" /\ locks < MaxLocks /\ locks' = locks + 1
  /\ max_tries' = [max_tries EXCEPT ![t] = MaxTries] /\ Moves(t, "local")
  /\ UNCHANGED <<system, locked_files, os_lock, crashes, dropped, left>>

AgainForever(t, failed) == UNCHANGED <<max_tries, at>>   \* a mutant: the tries are not counted
\* a try of either loop fails, and there is one more to come or not
Again(t, failed) ==
  /\ max_tries' = [max_tries EXCEPT ![t] = @ - 1]
  /\ IF max_tries[t] > 1 THEN UNCHANGED at ELSE Moves(t, failed)

\* The mutant removes the entry when it could not be made.
LocalLockRemoves(t) ==
  /\ at[t] = "local"
  /\ IF ~locked_files[t[1]]
     THEN /\ locked_files' = [locked_files EXCEPT ![t[1]] = TRUE] /\ Moves(t, "os") /\ UNCHANGED max_tries
     ELSE Again(t, "failed") /\ UNCHANGED locked_files
  /\ UNCHANGED <<system, os_lock, locks, crashes, dropped, left>>
\* create_local_lock, one turn of its loop
LocalLock(t) ==
  /\ at[t] = "local"
  /\ IF ~locked_files[t[1]]
     THEN /\ locked_files' = [locked_files EXCEPT ![t[1]] = TRUE] /\ Moves(t, "os") /\ UNCHANGED max_tries
     ELSE Again(t, "closing") /\ UNCHANGED locked_files
  /\ UNCHANGED <<system, os_lock, locks, crashes, dropped, left>>
\* one turn of the loop of lock(flags = Write)
OsLock(t) ==
  /\ at[t] = "os"
  /\ \/ /\ os_lock \in {NoProcess, t[1]} /\ os_lock' = t[1] /\ Moves(t, "held") /\ UNCHANGED max_tries
     \/ /\ os_lock \notin {NoProcess, t[1]} /\ Again(t, "failed") /\ UNCHANGED os_lock
     \/ Moves(t, "failed") /\ UNCHANGED <<os_lock, max_tries>>    \* an error that is not EAGAIN
  /\ UNCHANGED <<system, locked_files, locks, crashes, dropped, left>>
\* SCOPE_EXIT: remove_local_lock
RemoveLocalLock(t) ==
  /\ at[t] \in {"failed", "unlocked"} /\ Moves(t, "closing")
  /\ locked_files' = [locked_files EXCEPT ![t[1]] = FALSE]
  /\ UNCHANGED <<system, os_lock, max_tries, locks, crashes, dropped, left>>
\* the caller closes the file, after Unlock or because it did not get the lock
Close(t) ==
  /\ at[t] = "closing" /\ Moves(t, "idle")
  /\ IF system = "posix"
     THEN os_lock' = OsUnlocked(t) /\ dropped' = dropped \cup {u \in Threads : u[1] = t[1] /\ at[u] = "held"}
     ELSE UNCHANGED <<os_lock, dropped>>
  /\ UNCHANGED <<system, locked_files, max_tries, locks, crashes, left>>
\* lock(Unlock, path), up to its SCOPE_EXIT
Unlock(t) ==
  /\ at[t] = "held" /\ Moves(t, "unlocked") /\ os_lock' = OsUnlocked(t) /\ dropped' = dropped \ {t}
  /\ UNCHANGED <<system, locked_files, max_tries, locks, crashes, left>>
\* a write that fails: write_file closes the file and returns
Leave(t) ==
  /\ at[t] = "held" /\ Moves(t, "idle") /\ os_lock' = OsUnlocked(t)
  /\ dropped' = dropped \ {t} /\ left' = left \cup {t[1]}
  /\ UNCHANGED <<system, locked_files, max_tries, locks, crashes>>

Crash(p) ==
  /\ crashes < MaxCrashes /\ crashes' = crashes + 1
  /\ locked_files' = [locked_files EXCEPT ![p] = FALSE]
  /\ os_lock' = IF os_lock = p THEN NoProcess ELSE os_lock
  /\ at' = [t \in Threads |-> IF t[1] = p THEN "idle" ELSE at[t]]
  /\ dropped' = {t \in dropped : t[1] # p} /\ left' = left \ {p}
  /\ UNCHANGED <<system, max_tries, locks>>

\* lock() itself; whoever has the lock may keep it for ever
Works(t) == LocalLock(t) \/ OsLock(t) \/ RemoveLocalLock(t) \/ Close(t)
Next == \/ \E t \in Threads : Lock(t) \/ Works(t) \/ Unlock(t) \/ Leave(t)
        \/ \E p \in Processes : Crash(p)
Spec == Init /\ [][Next]_vars
FairSpec == Spec /\ \A t \in Threads : WF_vars(Works(t))

----------------------------------------------------------------------------
TypeOK ==
  /\ locked_files \in [Processes -> BOOLEAN] /\ os_lock \in Processes \cup {NoProcess}
  /\ at \in [Threads -> {"idle", "local", "os", "held", "failed", "unlocked", "closing"}]

(* Of the threads of a program one at most holds the path.  The programs   *)
(* are apart too, and a holder has the lock of the file, with one          *)
(* exception: on POSIX a holder has lost it, and another program may hold  *)
(* the path too, from when another thread of its program closed the file.  *)
(* Every thread that gave up does.                                         *)
Holders == {t \in Threads : at[t] = "held"}
OneHolder ==
  /\ \A t, u \in Holders : t # u => t[1] # u[1] /\ (t \in dropped \/ u \in dropped)
  /\ \A t \in Holders \ dropped : os_lock = t[1]
  /\ system = "windows" => dropped = {}

(* CHECK(erased > 0) of remove_local_lock, and nobody's entry but one's    *)
(* own is removed: at most one thread of a program is past the set, and    *)
(* none when the entry is of a thread that left it behind.                 *)
EntryIsOwn == \A p \in Processes :
  Cardinality({t \in Threads : t[1] = p /\ at[t] \in {"os", "held", "failed", "unlocked"}})
    + Cardinality({p} \cap left) = (IF locked_files[p] THEN 1 ELSE 0)

(* A lock that cannot be had is given up after max_tries tries in all.     *)
TriesEnd == \A t \in Threads : at[t] \in {"local", "os"} => max_tries[t] \in 1..MaxTries
LockReturns == \A t \in Threads : at[t] = "local" ~> at[t] \in {"idle", "held"}
============================================================================
