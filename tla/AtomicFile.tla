---------------------------- MODULE AtomicFile ----------------------------
(***************************************************************************)
(* atomic_write_file and write_file (td/utils/filesystem.cpp): a file is   *)
(* written under the name .tmp, with a lock and an fsync, and renamed.     *)
(* The file system is external: names lead to inodes, what is not synced   *)
(* may be lost when the machine crashes, a lock of the file system is one  *)
(* of a process on an inode and ends when the process closes the file.     *)
(* The content of a file is the writer whose data it is, and whether all   *)
(* of it is there.                                                         *)
(***************************************************************************)
EXTENDS Integers, TLAPS

CONSTANTS Writers,       \* threads that call atomic_write_file for one path
          Process(_),    \* the program a writer belongs to
          Concurrent,    \* whether calls overlap
          MaxTries,      \* 10 in write_file
          MaxCalls, MaxCrashes
ASSUME BoundsAssumption == MaxTries \in Nat /\ MaxCalls \in Nat /\ MaxCrashes \in Nat

Empty == [of |-> "nobody", whole |-> FALSE]
Old == [of |-> "before", whole |-> TRUE]
Whole(w) == [of |-> w, whole |-> TRUE]
Part(w) == [of |-> w, whole |-> FALSE]
Names == {"path", "tmp"}
Inodes == 1..(MaxCalls + 1)

VARIABLES
  dir, disk_dir,      \* [Names -> inode or 0]: seen by programs, and on the disk
  data, disk,         \* [Inodes -> content]
  os_lock,            \* [Inodes -> processes]: the one that has the lock, if any
  locked_files,       \* processes in whose set the path .tmp is
  at,                 \* [Writers -> [step, fd, tries]]
  result,             \* [Writers -> "none", "ok" or "error"]: of the last call
  calls, crashes
vars == <<dir, disk_dir, data, disk, os_lock, locked_files, at, result, calls, crashes>>
fs == <<dir, disk_dir, data, disk>>
locks == <<os_lock, locked_files>>
Idle == [step |-> "idle", fd |-> 0, tries |-> 0]

Init ==
  /\ dir = [path |-> 1, tmp |-> 0] /\ disk_dir = dir
  /\ data = [i \in Inodes |-> IF i = 1 THEN Old ELSE Empty] /\ disk = data
  /\ os_lock = [i \in Inodes |-> {}] /\ locked_files = {}
  /\ at = [w \in Writers |-> Idle] /\ result = [w \in Writers |-> "none"]
  /\ calls = 0 /\ crashes = 0

Step(w, from, to) == at[w].step = from /\ at' = [at EXCEPT ![w].step = to]
Fresh == Inodes \ ({dir.path, dir.tmp, disk_dir.path, disk_dir.tmp} \cup {at[w].fd : w \in Writers})
\* the FileFd is closed, and with it the locks of the process on the inode end
Closed(w) == [os_lock EXCEPT ![at[w].fd] = @ \ {Process(w)}]
Fail(w, step) ==
  /\ at[w].step = step /\ at' = [at EXCEPT ![w] = Idle] /\ result' = [result EXCEPT ![w] = "error"]
  /\ os_lock' = Closed(w)

----------------------------------------------------------------------------
\* FileFd::open(Truncate | Create | Write) of write_file
Open(w) ==
  /\ at[w] = Idle /\ calls < MaxCalls /\ calls' = calls + 1
  /\ Concurrent \/ \A v \in Writers : at[v] = Idle
  /\ \E i \in IF dir.tmp # 0 THEN {dir.tmp} ELSE Fresh :
       /\ dir' = [dir EXCEPT !.tmp = i] /\ data' = [data EXCEPT ![i] = Empty]
       /\ at' = [at EXCEPT ![w] = [step |-> "local", fd |-> i, tries |-> MaxTries]]
  /\ result' = [result EXCEPT ![w] = "none"]
  /\ UNCHANGED <<disk_dir, disk, locks, crashes>>

\* FileFd::lock(Write, .tmp, 10): first in the program, then in the file system
Again(w) == at[w].tries > 1 /\ at' = [at EXCEPT ![w].tries = @ - 1]
LocalLock(w) ==
  /\ \/ /\ Process(w) \notin locked_files /\ Step(w, "local", "os")
        /\ locked_files' = locked_files \cup {Process(w)} /\ UNCHANGED <<os_lock, result>>
     \/ /\ Process(w) \in locked_files /\ at[w].step = "local" /\ UNCHANGED locked_files
        /\ \/ Again(w) /\ UNCHANGED <<os_lock, result>>
           \/ at[w].tries = 1 /\ Fail(w, "local")
  /\ UNCHANGED <<fs, calls, crashes>>
OsLock(w) ==
  /\ at[w].step = "os"
  /\ \/ /\ os_lock[at[w].fd] \subseteq {Process(w)} /\ Step(w, "os", "truncate")
        /\ os_lock' = [os_lock EXCEPT ![at[w].fd] = {Process(w)}] /\ UNCHANGED <<locked_files, result>>
     \/ /\ ~(os_lock[at[w].fd] \subseteq {Process(w)})
        /\ \/ Again(w) /\ UNCHANGED <<locks, result>>
           \/ at[w].tries = 1 /\ Fail(w, "os") /\ locked_files' = locked_files \ {Process(w)}
  /\ UNCHANGED <<fs, calls, crashes>>

Truncate(w) ==
  /\ Step(w, "truncate", "write") /\ data' = [data EXCEPT ![at[w].fd] = Empty]
  /\ UNCHANGED <<dir, disk_dir, disk, locks, result, calls, crashes>>
Write(w) ==
  /\ Step(w, "write", "sync") /\ data' = [data EXCEPT ![at[w].fd] = Whole(w)]
  /\ UNCHANGED <<dir, disk_dir, disk, locks, result, calls, crashes>>
\* a short write: the path stays in locked_files
WriteFails(w) ==
  /\ Fail(w, "write") /\ data' = [data EXCEPT ![at[w].fd] = Part(w)]
  /\ UNCHANGED <<dir, disk_dir, disk, locked_files, calls, crashes>>
\* The mutant leaves the data to be written some time.
SyncLater(w) == Step(w, "sync", "unlock") /\ UNCHANGED <<fs, locks, result, calls, crashes>>
Sync(w) ==
  /\ Step(w, "sync", "unlock") /\ disk' = [disk EXCEPT ![at[w].fd] = data[at[w].fd]]
  /\ UNCHANGED <<dir, disk_dir, data, locks, result, calls, crashes>>
Unlock(w) ==    \* lock(Unlock), its SCOPE_EXIT, and close
  /\ Step(w, "unlock", "rename")
  /\ os_lock' = Closed(w) /\ locked_files' = locked_files \ {Process(w)}
  /\ UNCHANGED <<fs, result, calls, crashes>>
Rename(w) ==
  /\ at[w].step = "rename" /\ at' = [at EXCEPT ![w] = Idle]
  /\ IF dir.tmp # 0 THEN dir' = [path |-> dir.tmp, tmp |-> 0] /\ result' = [result EXCEPT ![w] = "ok"]
     ELSE result' = [result EXCEPT ![w] = "error"] /\ UNCHANGED dir
  /\ UNCHANGED <<disk_dir, data, disk, locks, calls, crashes>>

----------------------------------------------------------------------------
\* The file system writes what it has, in no order; a crash leaves what is written
WriteBack ==
  /\ \/ disk_dir # dir /\ disk_dir' = dir /\ UNCHANGED disk
     \/ \E i \in Inodes : disk[i] # data[i] /\ disk' = [disk EXCEPT ![i] = data[i]] /\ UNCHANGED disk_dir
  /\ UNCHANGED <<dir, data, locks, at, result, calls, crashes>>
Crash ==
  /\ crashes < MaxCrashes /\ crashes' = crashes + 1
  /\ dir' = disk_dir /\ data' = disk /\ UNCHANGED <<disk_dir, disk>>
  /\ os_lock' = [i \in Inodes |-> {}] /\ locked_files' = {}
  /\ at' = [w \in Writers |-> Idle] /\ result' = [w \in Writers |-> "none"] /\ UNCHANGED calls

Works(w) == \/ LocalLock(w) \/ OsLock(w) \/ Truncate(w) \/ Write(w) \/ WriteFails(w)
            \/ Sync(w) \/ Unlock(w) \/ Rename(w)
Next == WriteBack \/ Crash \/ \E w \in Writers : Open(w) \/ Works(w)
Spec == Init /\ [][Next]_vars

----------------------------------------------------------------------------
Contents == [of : Writers \cup {"nobody", "before"}, whole : BOOLEAN]
Steps == {"idle", "local", "os", "truncate", "write", "sync", "unlock", "rename"}
TypeOK ==
  /\ dir \in [path : Inodes, tmp : {0} \cup Inodes] /\ disk_dir \in [path : Inodes, tmp : {0} \cup Inodes]
  /\ data \in [Inodes -> Contents] /\ disk \in [Inodes -> Contents]
  /\ os_lock \in [Inodes -> SUBSET {Process(w) : w \in Writers}]
  /\ \A i \in Inodes : \A p, q \in os_lock[i] : p = q
  /\ locked_files \subseteq {Process(w) : w \in Writers}
  /\ at \in [Writers -> [step : Steps, fd : {0} \cup Inodes, tries : Nat]]
  /\ result \in [Writers -> {"none", "ok", "error"}]
  /\ calls \in 0 .. MaxCalls /\ crashes \in 0 .. MaxCrashes

(* filesystem.h "ensures that the file is either fully overriden, or is    *)
(* left intact": at any time, and after a crash at any time, the path has the   *)
(* whole data of one call.                                                 *)
PathIsWhole == data[dir.path].whole

(* A call that returned OK has put its data, and not what another call was *)
(* writing, at the path.                                                   *)
ReturnsOk(w) == result'[w] = "ok" /\ result[w] # "ok"
OkIsWritten == [][\A w \in Writers : ReturnsOk(w) => data'[dir'.path] = Whole(w)]_vars

(* What atomic_write_file promises to a program that does not call it for  *)
(* one path twice at a time.                                               *)
AtomicWrite == [](TypeOK /\ PathIsWhole) /\ OkIsWritten

----------------------------------------------------------------------------
(* The inductive invariant, for calls that do not overlap.                  *)

(* The two names that may be found after a crash, the one programs see and  *)
(* the one on the disk, lead to inodes that are whole both in memory and on *)
(* the disk, so the file system may write either back in any order ...      *)
Paths == {dir.path, disk_dir.path}
PathsOK == \A i \in Paths : data[i].whole /\ disk[i].whole

(* ... and the name that is written to leads to neither, now or after a     *)
(* crash.                                                                   *)
TmpOK == dir.tmp \notin Paths /\ disk_dir.tmp # disk_dir.path

(* One call at a time has the file open that .tmp leads to, and after the   *)
(* fsync its data is on the disk before the name is.                        *)
CallOK ==
  /\ \A w, v \in Writers : at[w].step # "idle" /\ at[v].step # "idle" => w = v
  /\ \A w \in Writers :
       /\ at[w].step = "idle" => at[w] = Idle
       /\ at[w].step # "idle" => at[w].fd = dir.tmp /\ dir.tmp \in Inodes
       /\ at[w].step \in {"sync", "unlock", "rename"} => data[at[w].fd] = Whole(w)
       /\ at[w].step \in {"unlock", "rename"} => disk[at[w].fd] = Whole(w)

IInv == PathsOK /\ TmpOK /\ CallOK

----------------------------------------------------------------------------
(* What Step and Again make of at.                                          *)
LEMMA Goes ==
  ASSUME TypeOK, NEW w \in Writers, NEW from, NEW to, Step(w, from, to)
  PROVE  at[w].step = from /\ at' = [at EXCEPT ![w] = [step |-> to, fd |-> at[w].fd, tries |-> at[w].tries]]
<1>1. at[w] \in [step : Steps, fd : {0} \cup Inodes, tries : Nat]
  BY DEF TypeOK
<1>2. [at[w] EXCEPT !.step = to] = [step |-> to, fd |-> at[w].fd, tries |-> at[w].tries]
  BY <1>1
<1>3. at[w].step = from /\ at' = [at EXCEPT ![w] = [at[w] EXCEPT !.step = to]]
  BY DEF Step
<1> QED
  BY <1>2, <1>3

(* The count of tries goes down to 1 and not below.                         *)
LEMMA Tries ==
  ASSUME TypeOK, NEW w \in Writers, Again(w)
  PROVE  /\ at' = [at EXCEPT ![w] = [step |-> at[w].step, fd |-> at[w].fd, tries |-> at[w].tries - 1]]
         /\ at[w].tries - 1 \in Nat
<1>1. at[w] \in [step : Steps, fd : {0} \cup Inodes, tries : Nat]
  BY DEF TypeOK
<1>2. [at[w] EXCEPT !.tries = @ - 1] = [step |-> at[w].step, fd |-> at[w].fd, tries |-> at[w].tries - 1]
  BY <1>1
<1>3. at[w].tries > 1 /\ at' = [at EXCEPT ![w] = [at[w] EXCEPT !.tries = @ - 1]]
  BY DEF Again
<1>4. at[w].tries \in Nat
  BY <1>1
<1>5. at[w].tries - 1 \in Nat
  BY <1>3, <1>4
<1>6. at' = [at EXCEPT ![w] = [step |-> at[w].step, fd |-> at[w].fd, tries |-> at[w].tries - 1]]
  BY <1>2, <1>3
<1> QED
  BY <1>5, <1>6

(* Each step of calls that do not overlap keeps the types and the inductive *)
(* invariant, and puts the data of a call that returns OK at the path: one  *)
(* step per action, and under it one per conjunct.                          *)
LEMMA InvStep ==
  ASSUME ~Concurrent, TypeOK, IInv, [Next]_vars
  PROVE  TypeOK' /\ IInv' /\ \A w \in Writers : ReturnsOk(w) => data'[dir'.path] = Whole(w)
<1> DEFINE OkStep == \A w \in Writers : ReturnsOk(w) => data'[dir'.path] = Whole(w)
<1>0. PathsOK /\ TmpOK /\ CallOK
  BY DEF IInv
<1>t. /\ /\ dir \in [path : Inodes, tmp : {0} \cup Inodes]
      /\ disk_dir \in [path : Inodes, tmp : {0} \cup Inodes]
      /\ data \in [Inodes -> Contents] /\ disk \in [Inodes -> Contents]
      /\ os_lock \in [Inodes -> SUBSET {Process(v) : v \in Writers}]
      /\ \A i \in Inodes : \A p, q \in os_lock[i] : p = q
      /\ locked_files \subseteq {Process(v) : v \in Writers}
      /\ at \in [Writers -> [step : Steps, fd : {0} \cup Inodes, tries : Nat]]
      /\ result \in [Writers -> {"none", "ok", "error"}]
      /\ calls \in 0 .. MaxCalls /\ crashes \in 0 .. MaxCrashes
  BY DEF TypeOK
<1>b. MaxTries \in Nat /\ MaxCalls \in Nat /\ MaxCrashes \in Nat /\ 0 \notin Inodes
  BY BoundsAssumption DEF Inodes
<1>c. /\ Empty \in Contents /\ \A v \in Writers : Whole(v) \in Contents /\ Part(v) \in Contents
      /\ \A v \in Writers : Whole(v).whole = TRUE
  BY DEF Contents, Empty, Whole, Part
<1>1. ASSUME NEW w \in Writers, Open(w) \/ Works(w) PROVE TypeOK' /\ IInv' /\ OkStep
  <2>1. CASE Open(w)
    <3>1. UNCHANGED <<disk_dir, disk, os_lock, locked_files, crashes>>
      BY <2>1 DEF Open, locks
    <3>2. calls < MaxCalls /\ calls' = calls + 1 /\ result' = [result EXCEPT ![w] = "none"]
      BY <2>1 DEF Open
    <3>3. \A v \in Writers : at[v].step = "idle"
      BY <2>1 DEF Open, Idle
    <3>4. \E i \in Inodes \ Paths : /\ dir' = [path |-> dir.path, tmp |-> i] /\ data' = [data EXCEPT ![i] = Empty]
                                /\ at' = [at EXCEPT ![w] = [step |-> "local", fd |-> i, tries |-> MaxTries]]
      <4>1. PICK i \in IF dir.tmp # 0 THEN {dir.tmp} ELSE Fresh :
                   /\ dir' = [dir EXCEPT !.tmp = i] /\ data' = [data EXCEPT ![i] = Empty]
                   /\ at' = [at EXCEPT ![w] = [step |-> "local", fd |-> i, tries |-> MaxTries]]
        BY <2>1 DEF Open
      <4>2. i \in Inodes \ Paths
        BY <1>0, <1>t DEF TmpOK, Fresh, Paths
      <4>3. dir' = [path |-> dir.path, tmp |-> i]
        BY <1>t, <4>1
      <4> QED
        BY <4>1, <4>2, <4>3
    <3>5. TypeOK'
      BY <1>b, <1>c, <3>1, <3>2, <3>4 DEF TypeOK, Steps
    <3>6. PathsOK'
      BY <1>0, <3>1, <3>4 DEF PathsOK, Paths
    <3>7. TmpOK'
      BY <1>0, <3>1, <3>4 DEF TmpOK, Paths
    <3>8. CallOK'
      BY <1>0, <3>3, <3>4 DEF CallOK
    <3>9. OkStep
      BY <3>2 DEF ReturnsOk
    <3> QED
      BY <3>5, <3>6, <3>7, <3>8, <3>9 DEF IInv
  <2>2. CASE LocalLock(w)
    <3>1. UNCHANGED <<dir, disk_dir, data, disk, calls, crashes>>
      BY <2>2 DEF LocalLock, fs
    <3>2. at[w].step = "local"
      BY <2>2, Goes DEF LocalLock
    <3>3. /\ at[w].fd \in Inodes /\ at[w].fd = dir.tmp /\ at[w].fd \notin Paths /\ at[w].step = "local"
          /\ \A v \in Writers \ {w} : at[v].step = "idle"
      BY <1>0, <3>2 DEF CallOK, TmpOK
    <3>4. /\ locked_files' \subseteq {Process(v) : v \in Writers} /\ (os_lock' = os_lock \/ os_lock' = [os_lock EXCEPT ![at[w].fd] = @ \ {Process(w)}])
          /\ result' = result \/ result' = [result EXCEPT ![w] = "error"]
      BY <2>2, <1>t DEF LocalLock, Fail, Closed
    <3>5. \/ at' = [at EXCEPT ![w] = [step |-> "os", fd |-> at[w].fd, tries |-> at[w].tries]]
          \/ at' = [at EXCEPT ![w] = [step |-> "local", fd |-> at[w].fd, tries |-> at[w].tries - 1]] /\ at[w].tries - 1 \in Nat
          \/ at' = [at EXCEPT ![w] = Idle]
      BY <2>2, Goes, Tries DEF LocalLock, Fail
    <3>6. (\A v \in Writers \ {w} : at'[v] = at[v]) /\ (at'[w] = Idle \/ (at'[w].fd = at[w].fd /\ at'[w].step \in {"local", "os", "truncate"}))
      <4>1. CASE at' = [at EXCEPT ![w] = [step |-> "os", fd |-> at[w].fd, tries |-> at[w].tries]]
        <5>1. /\ at'[w] = [step |-> "os", fd |-> at[w].fd, tries |-> at[w].tries]
              /\ \A v \in Writers \ {w} : at'[v] = at[v]
          BY <1>t, <4>1
        <5> QED
          BY <5>1
      <4>2. CASE at' = [at EXCEPT ![w] = [step |-> "local", fd |-> at[w].fd, tries |-> at[w].tries - 1]]
        <5>1. /\ at'[w] = [step |-> "local", fd |-> at[w].fd, tries |-> at[w].tries - 1]
              /\ \A v \in Writers \ {w} : at'[v] = at[v]
          BY <1>t, <4>2
        <5> QED
          BY <5>1
      <4>3. CASE at' = [at EXCEPT ![w] = Idle]
        <5>1. at'[w] = Idle
          BY <1>t, <4>3
        <5>2. \A v \in Writers \ {w} : at'[v] = at[v]
          BY <4>3
        <5> QED
          BY <5>1, <5>2
      <4> QED
        BY <3>5, <4>1, <4>2, <4>3
    <3>7. os_lock' \in [Inodes -> SUBSET {Process(v) : v \in Writers}]
          /\ \A i \in Inodes : \A p, q \in os_lock'[i] : p = q
      BY <1>t, <3>4
    <3>8. TypeOK'
      BY <3>1, <3>3, <3>4, <3>5, <3>7 DEF TypeOK, Steps, Idle
    <3>9. PathsOK'
      BY <1>0, <3>1 DEF PathsOK, Paths
    <3>10. TmpOK'
      BY <1>0, <3>1 DEF TmpOK, Paths
    <3>11. CallOK'
      BY <1>0, <3>1, <3>2, <3>6 DEF CallOK, Idle
    <3>12. OkStep
      BY <1>t, <3>4 DEF ReturnsOk
    <3> QED
      BY <3>8, <3>9, <3>10, <3>11, <3>12 DEF IInv
  <2>3. CASE OsLock(w)
    <3>1. UNCHANGED <<dir, disk_dir, data, disk, calls, crashes>>
      BY <2>3 DEF OsLock, fs
    <3>2. at[w].step = "os"
      BY <2>3 DEF OsLock
    <3>3. /\ at[w].fd \in Inodes /\ at[w].fd = dir.tmp /\ at[w].fd \notin Paths /\ at[w].step = "os"
          /\ \A v \in Writers \ {w} : at[v].step = "idle"
      BY <1>0, <3>2 DEF CallOK, TmpOK
    <3>4. /\ locked_files' \subseteq {Process(v) : v \in Writers}
          /\ os_lock' = os_lock \/ os_lock' = [os_lock EXCEPT ![at[w].fd] = @ \ {Process(w)}] \/ os_lock' = [os_lock EXCEPT ![at[w].fd] = {Process(w)}]
          /\ result' = result \/ result' = [result EXCEPT ![w] = "error"]
      BY <2>3, <1>t DEF OsLock, Fail, Closed, locks
    <3>5. \/ at' = [at EXCEPT ![w] = [step |-> "truncate", fd |-> at[w].fd, tries |-> at[w].tries]]
          \/ at' = [at EXCEPT ![w] = [step |-> "os", fd |-> at[w].fd, tries |-> at[w].tries - 1]] /\ at[w].tries - 1 \in Nat
          \/ at' = [at EXCEPT ![w] = Idle]
      BY <2>3, Goes, Tries DEF OsLock, Fail
    <3>6. (\A v \in Writers \ {w} : at'[v] = at[v]) /\ (at'[w] = Idle \/ (at'[w].fd = at[w].fd /\ at'[w].step \in {"local", "os", "truncate"}))
      <4>1. CASE at' = [at EXCEPT ![w] = [step |-> "truncate", fd |-> at[w].fd, tries |-> at[w].tries]]
        <5>1. /\ at'[w] = [step |-> "truncate", fd |-> at[w].fd, tries |-> at[w].tries]
              /\ \A v \in Writers \ {w} : at'[v] = at[v]
          BY <1>t, <4>1
        <5> QED
          BY <5>1
      <4>2. CASE at' = [at EXCEPT ![w] = [step |-> "os", fd |-> at[w].fd, tries |-> at[w].tries - 1]]
        <5>1. /\ at'[w] = [step |-> "os", fd |-> at[w].fd, tries |-> at[w].tries - 1]
              /\ \A v \in Writers \ {w} : at'[v] = at[v]
          BY <1>t, <4>2
        <5> QED
          BY <5>1
      <4>3. CASE at' = [at EXCEPT ![w] = Idle]
        <5>1. at'[w] = Idle
          BY <1>t, <4>3
        <5>2. \A v \in Writers \ {w} : at'[v] = at[v]
          BY <4>3
        <5> QED
          BY <5>1, <5>2
      <4> QED
        BY <3>5, <4>1, <4>2, <4>3
    <3>7. os_lock' \in [Inodes -> SUBSET {Process(v) : v \in Writers}]
          /\ \A i \in Inodes : \A p, q \in os_lock'[i] : p = q
      <4>1. CASE os_lock' = os_lock
        BY <1>t, <4>1
      <4>2. CASE os_lock' = [os_lock EXCEPT ![at[w].fd] = @ \ {Process(w)}]
        <5>1. \A i \in Inodes : os_lock[i] \in SUBSET {Process(v) : v \in Writers}
          BY <1>t
        <5>2. \A i \in Inodes : os_lock'[i] \subseteq os_lock[i]
          BY <1>t, <4>2
        <5>3. os_lock' \in [Inodes -> SUBSET {Process(v) : v \in Writers}]
          BY <1>t, <4>2, <5>1
        <5> QED
          BY <1>t, <5>2, <5>3
      <4>3. CASE os_lock' = [os_lock EXCEPT ![at[w].fd] = {Process(w)}]
        <5>1. {Process(w)} \in SUBSET {Process(v) : v \in Writers}
          OBVIOUS
        <5>2. os_lock' \in [Inodes -> SUBSET {Process(v) : v \in Writers}]
          BY <1>t, <3>3, <4>3
        <5>3. \A i \in Inodes : os_lock'[i] = os_lock[i] \/ os_lock'[i] = {Process(w)}
          BY <4>3
        <5> QED
          BY <1>t, <5>2, <5>3
      <4> QED
        BY <3>4, <4>1, <4>2, <4>3
    <3>8. TypeOK'
      BY <3>1, <3>3, <3>4, <3>5, <3>7 DEF TypeOK, Steps, Idle
    <3>9. PathsOK'
      BY <1>0, <3>1 DEF PathsOK, Paths
    <3>10. TmpOK'
      BY <1>0, <3>1 DEF TmpOK, Paths
    <3>11. CallOK'
      BY <1>0, <3>1, <3>2, <3>6 DEF CallOK, Idle
    <3>12. OkStep
      BY <1>t, <3>4 DEF ReturnsOk
    <3> QED
      BY <3>8, <3>9, <3>10, <3>11, <3>12 DEF IInv
  <2>4. CASE Truncate(w)
    <3>1. UNCHANGED <<dir, disk_dir, disk, os_lock, locked_files, result, calls, crashes>>
      BY <2>4 DEF Truncate, locks
    <3>2. /\ at[w].step = "truncate"
          /\ at' = [at EXCEPT ![w] = [step |-> "write", fd |-> at[w].fd, tries |-> at[w].tries]]
      BY <2>4, Goes DEF Truncate
    <3>3. /\ at[w].fd \in Inodes /\ at[w].fd = dir.tmp /\ at[w].fd \notin Paths /\ at[w].step = "truncate"
          /\ \A v \in Writers \ {w} : at[v].step = "idle"
      BY <1>0, <3>2 DEF CallOK, TmpOK
    <3>4. data' = [data EXCEPT ![at[w].fd] = Empty]
      BY <2>4 DEF Truncate
    <3>5. TypeOK'
      BY <1>c, <3>1, <3>2, <3>3, <3>4 DEF TypeOK, Steps
    <3>6. PathsOK'
      BY <1>0, <3>1, <3>3, <3>4 DEF PathsOK, Paths
    <3>7. TmpOK'
      BY <1>0, <3>1 DEF TmpOK, Paths
    <3>8. CallOK'
      BY <1>0, <3>1, <3>2 DEF CallOK
    <3>9. OkStep
      BY <3>1 DEF ReturnsOk
    <3> QED
      BY <3>5, <3>6, <3>7, <3>8, <3>9 DEF IInv
  <2>5. CASE Write(w)
    <3>1. UNCHANGED <<dir, disk_dir, disk, os_lock, locked_files, result, calls, crashes>>
      BY <2>5 DEF Write, locks
    <3>2. /\ at[w].step = "write"
          /\ at' = [at EXCEPT ![w] = [step |-> "sync", fd |-> at[w].fd, tries |-> at[w].tries]]
      BY <2>5, Goes DEF Write
    <3>3. /\ at[w].fd \in Inodes /\ at[w].fd = dir.tmp /\ at[w].fd \notin Paths /\ at[w].step = "write"
          /\ \A v \in Writers \ {w} : at[v].step = "idle"
      BY <1>0, <3>2 DEF CallOK, TmpOK
    <3>4. data' = [data EXCEPT ![at[w].fd] = Whole(w)]
      BY <2>5 DEF Write
    <3>5. TypeOK'
      BY <1>c, <3>1, <3>2, <3>3, <3>4 DEF TypeOK, Steps
    <3>6. PathsOK'
      BY <1>0, <1>c, <3>1, <3>4 DEF PathsOK, Paths
    <3>7. TmpOK'
      BY <1>0, <3>1 DEF TmpOK, Paths
    <3>8. CallOK'
      BY <1>0, <1>t, <3>1, <3>2, <3>4 DEF CallOK
    <3>9. OkStep
      BY <3>1 DEF ReturnsOk
    <3> QED
      BY <3>5, <3>6, <3>7, <3>8, <3>9 DEF IInv
  <2>6. CASE WriteFails(w)
    <3>1. UNCHANGED <<dir, disk_dir, disk, locked_files, calls, crashes>>
      BY <2>6 DEF WriteFails
    <3>2. at[w].step = "write" /\ at' = [at EXCEPT ![w] = Idle]
      BY <2>6 DEF WriteFails, Fail
    <3>3. /\ at[w].fd \in Inodes /\ at[w].fd = dir.tmp /\ at[w].fd \notin Paths /\ at[w].step = "write"
          /\ \A v \in Writers \ {w} : at[v].step = "idle"
      BY <1>0, <3>2 DEF CallOK, TmpOK
    <3>4. /\ data' = [data EXCEPT ![at[w].fd] = Part(w)] /\ result' = [result EXCEPT ![w] = "error"]
          /\ os_lock' = [os_lock EXCEPT ![at[w].fd] = @ \ {Process(w)}]
      BY <2>6 DEF WriteFails, Fail, Closed
    <3>5. TypeOK'
      BY <1>c, <3>1, <3>2, <3>3, <3>4 DEF TypeOK, Steps, Idle
    <3>6. PathsOK'
      BY <1>0, <3>1, <3>3, <3>4 DEF PathsOK, Paths
    <3>7. TmpOK'
      BY <1>0, <3>1 DEF TmpOK, Paths
    <3>8. CallOK'
      BY <1>0, <1>t, <3>2 DEF CallOK, Idle
    <3>9. OkStep
      BY <3>4 DEF ReturnsOk
    <3> QED
      BY <3>5, <3>6, <3>7, <3>8, <3>9 DEF IInv
  <2>7. CASE Sync(w)
    <3>1. UNCHANGED <<dir, disk_dir, data, os_lock, locked_files, result, calls, crashes>>
      BY <2>7 DEF Sync, locks
    <3>2. /\ at[w].step = "sync"
          /\ at' = [at EXCEPT ![w] = [step |-> "unlock", fd |-> at[w].fd, tries |-> at[w].tries]]
      BY <2>7, Goes DEF Sync
    <3>3. /\ at[w].fd \in Inodes /\ at[w].fd = dir.tmp /\ at[w].fd \notin Paths /\ at[w].step = "sync"
          /\ \A v \in Writers \ {w} : at[v].step = "idle"
      BY <1>0, <3>2 DEF CallOK, TmpOK
    <3>4. disk' = [disk EXCEPT ![at[w].fd] = data[at[w].fd]]
      BY <2>7 DEF Sync
    <3>5. TypeOK'
      BY <3>1, <3>2, <3>3, <3>4 DEF TypeOK, Steps
    <3>6. PathsOK'
      BY <1>0, <3>1, <3>4 DEF PathsOK, Paths
    <3>7. TmpOK'
      BY <1>0, <3>1 DEF TmpOK, Paths
    <3>8. CallOK'
      BY <1>0, <1>t, <3>1, <3>2, <3>4 DEF CallOK
    <3>9. OkStep
      BY <3>1 DEF ReturnsOk
    <3> QED
      BY <3>5, <3>6, <3>7, <3>8, <3>9 DEF IInv
  <2>8. CASE Unlock(w)
    <3>1. UNCHANGED <<dir, disk_dir, data, disk, result, calls, crashes>>
      BY <2>8 DEF Unlock, fs
    <3>2. /\ at[w].step = "unlock"
          /\ at' = [at EXCEPT ![w] = [step |-> "rename", fd |-> at[w].fd, tries |-> at[w].tries]]
      BY <2>8, Goes DEF Unlock
    <3>3. /\ at[w].fd \in Inodes /\ at[w].fd = dir.tmp /\ at[w].fd \notin Paths /\ at[w].step = "unlock"
          /\ \A v \in Writers \ {w} : at[v].step = "idle"
      BY <1>0, <3>2 DEF CallOK, TmpOK
    <3>4. locked_files' \subseteq locked_files /\ os_lock' = [os_lock EXCEPT ![at[w].fd] = @ \ {Process(w)}]
      BY <2>8 DEF Unlock, Closed
    <3>5. TypeOK'
      BY <3>1, <3>2, <3>3, <3>4 DEF TypeOK, Steps
    <3>6. PathsOK'
      BY <1>0, <3>1 DEF PathsOK, Paths
    <3>7. TmpOK'
      BY <1>0, <3>1 DEF TmpOK, Paths
    <3>8. CallOK'
      BY <1>0, <3>1, <3>2 DEF CallOK
    <3>9. OkStep
      BY <3>1 DEF ReturnsOk
    <3> QED
      BY <3>5, <3>6, <3>7, <3>8, <3>9 DEF IInv
  <2>9. CASE Rename(w)
    <3>1. UNCHANGED <<disk_dir, data, disk, os_lock, locked_files, calls, crashes>>
      BY <2>9 DEF Rename, locks
    <3>2. at[w].step = "rename" /\ at' = [at EXCEPT ![w] = Idle]
      BY <2>9 DEF Rename
    <3>3. /\ at[w].fd \in Inodes /\ at[w].fd = dir.tmp /\ at[w].fd \notin Paths /\ at[w].step = "rename"
          /\ \A v \in Writers \ {w} : at[v].step = "idle"
      BY <1>0, <3>2 DEF CallOK, TmpOK
    <3>4. dir' = [path |-> dir.tmp, tmp |-> 0] /\ result' = [result EXCEPT ![w] = "ok"]
      BY <2>9, <1>b, <3>3 DEF Rename
    <3>5. data[dir.tmp] = Whole(w) /\ disk[dir.tmp] = Whole(w)
      BY <1>0, <3>2 DEF CallOK
    <3>6. TypeOK'
      BY <3>1, <3>2, <3>3, <3>4 DEF TypeOK, Steps, Idle
    <3>7. PathsOK'
      BY <1>0, <1>c, <3>1, <3>4, <3>5 DEF PathsOK, Paths
    <3>8. TmpOK'
      BY <1>0, <1>t, <1>b, <3>1, <3>3, <3>4 DEF TmpOK, Paths
    <3>9. CallOK'
      BY <1>0, <1>t, <3>2 DEF CallOK, Idle
    <3>10. OkStep
      BY <3>1, <3>4, <3>5 DEF ReturnsOk
    <3> QED
      BY <3>6, <3>7, <3>8, <3>9, <3>10 DEF IInv
  <2> QED
    BY <1>1, <2>1, <2>2, <2>3, <2>4, <2>5, <2>6, <2>7, <2>8, <2>9 DEF Works
<1>2. CASE WriteBack
  <2>1. UNCHANGED <<dir, data, os_lock, locked_files>>
        /\ at' = at /\ result' = result /\ calls' = calls /\ crashes' = crashes
    BY <1>2 DEF WriteBack, locks
  <2>2. \/ disk_dir' = dir /\ disk' = disk
        \/ disk_dir' = disk_dir /\ \E i \in Inodes : disk' = [disk EXCEPT ![i] = data[i]]
    BY <1>2 DEF WriteBack
  <2>3. TypeOK'
    BY <2>1, <2>2 DEF TypeOK
  <2>4. PathsOK' /\ TmpOK'
    BY <1>0, <1>t, <2>1, <2>2 DEF PathsOK, TmpOK, Paths
  <2>5. CallOK'
    BY <1>0, <1>t, <2>1, <2>2 DEF CallOK
  <2>6. OkStep
    BY <2>1 DEF ReturnsOk
  <2> QED
    BY <2>3, <2>4, <2>5, <2>6 DEF IInv
<1>3. CASE Crash
  <2>1. /\ dir' = disk_dir /\ data' = disk /\ disk_dir' = disk_dir /\ disk' = disk
        /\ os_lock' = [i \in Inodes |-> {}] /\ locked_files' = {} /\ at' = [w \in Writers |-> Idle]
        /\ result' = [w \in Writers |-> "none"] /\ calls' = calls /\ crashes' \in 0 .. MaxCrashes
    BY <1>3, <1>t, <1>b DEF Crash
  <2>2. TypeOK'
    BY <2>1 DEF TypeOK, Idle, Steps
  <2>3. PathsOK' /\ TmpOK'
    BY <1>0, <2>1 DEF PathsOK, TmpOK, Paths
  <2>4. CallOK'
    BY <2>1 DEF CallOK, Idle
  <2>5. OkStep
    BY <2>1 DEF ReturnsOk
  <2> QED
    BY <2>2, <2>3, <2>4, <2>5 DEF IInv
<1>4. CASE UNCHANGED vars
  BY <1>4 DEF vars, TypeOK, IInv, PathsOK, TmpOK, CallOK, Paths, ReturnsOk
<1> QED
  BY <1>1, <1>2, <1>3, <1>4 DEF Next

(* The inductive invariant holds in every state that calls reach which do   *)
(* not overlap.                                                             *)
LEMMA Invariant == ASSUME ~Concurrent PROVE Spec => [](TypeOK /\ IInv)
<1>1. Init => TypeOK
  BY BoundsAssumption DEF Init, TypeOK, Inodes, Contents, Empty, Old, Steps, Idle
<1>2. Init => IInv
  BY BoundsAssumption DEF Init, IInv, PathsOK, TmpOK, CallOK, Paths, Inodes, Old, Idle
<1>3. TypeOK /\ IInv /\ [Next]_vars => (TypeOK /\ IInv)'
  BY InvStep
<1> QED
  BY <1>1, <1>2, <1>3, PTL DEF Spec

(* atomic_write_file replaces a file at once: whatever fails and whenever   *)
(* the machine crashes, and in whatever order the file system writes back,  *)
(* the path has the whole data of one call, and a call that returns OK has  *)
(* put its own there.                                                       *)
THEOREM AtomicWriteCorrect == ASSUME ~Concurrent PROVE Spec => AtomicWrite
<1>1. TypeOK /\ IInv => TypeOK /\ PathIsWhole
  BY DEF IInv, PathsOK, Paths, PathIsWhole
<1>2. TypeOK /\ IInv /\ [Next]_vars => [\A w \in Writers : ReturnsOk(w) => data'[dir'.path] = Whole(w)]_vars
  BY InvStep
<1> QED
  BY <1>1, <1>2, Invariant, PTL DEF Spec, AtomicWrite, OkIsWritten
============================================================================
