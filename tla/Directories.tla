---------------------------- MODULE Directories ----------------------------
(***************************************************************************)
(* The walks of td/utils/port/path.cpp: WalkPath with a callback that may  *)
(* continue, skip a directory or abort, rmrf, which is a walk that deletes,*)
(* and mkpath.  Several of them run at once on one tree, each system call  *)
(* a step.  The tree is external: a path is a sequence of names, <<>> is   *)
(* the directory that the walks begin at.                                  *)
(***************************************************************************)
EXTENDS Integers, Sequences, SequencesExt

CONSTANTS Walkers, Jobs,  \* Jobs: sets of walkers that run at once
          Kind(_),        \* "walk", "rmrf" or "mkpath"
          Names, Trees,   \* Trees: a set of functions [paths -> "dir", "reg" or "other"]
          Target          \* the path of mkpath

VARIABLES tree,           \* path -> kind of entry
          frames,         \* [Walkers -> stack of [path, todo]]: open directories
          trace,          \* [Walkers -> Seq of <<type, path>>]: the calls of func
          state,          \* [Walkers -> "new", "on", "true", "ok", "false" or "error"], "out" of the job
          made            \* [Walkers -> [i, first, last]]: of mkpath
vars == <<tree, frames, trace, state, made>>

parent(p) == SubSeq(p, 1, Len(p) - 1)
kind(p) == IF p \in DOMAIN tree THEN tree[p] ELSE "none"
children(p) == {n \in Names : Append(p, n) \in DOMAIN tree}
Without(p) == [q \in DOMAIN tree \ {p} |-> tree[q]]

Init == /\ tree \in Trees
        /\ frames = [w \in Walkers |-> <<>>] /\ trace = [w \in Walkers |-> <<>>]
        /\ \E job \in Jobs : state = [w \in Walkers |-> IF w \in job THEN "new" ELSE "out"]
        /\ made = [w \in Walkers |-> [i |-> 1, first |-> "ok", last |-> "ok"]]

Finish(w, result) == state' = [state EXCEPT ![w] = result]
Top(w) == Last(frames[w])
Calls(w, type, path) == trace' = [trace EXCEPT ![w] = Append(@, <<type, path>>)]
Actions(w) == IF Kind(w) = "rmrf" THEN {"Continue"} ELSE {"Continue", "SkipDir", "Abort"}

----------------------------------------------------------------------------
\* walk_path_dir: opendir and func(EnterDir); readdir gives the names there are now
Enter(w, path, stack) ==
  IF kind(path) = "dir"
  THEN /\ Calls(w, "EnterDir", path)
       /\ \E action \in Actions(w) :
            \/ action = "Abort" /\ Finish(w, "false") /\ frames' = [frames EXCEPT ![w] = <<>>]
            \/ action = "SkipDir" /\ frames' = [frames EXCEPT ![w] = stack]
               /\ (IF stack = <<>> THEN Finish(w, "true") ELSE UNCHANGED state)
            \/ action = "Continue" /\ Finish(w, "on")
               /\ frames' = [frames EXCEPT ![w] = Append(stack, [path |-> path, todo |-> children(path)])]
  ELSE Finish(w, "error") /\ frames' = [frames EXCEPT ![w] = <<>>] /\ UNCHANGED trace
Start(w) ==
  /\ Kind(w) # "mkpath" /\ state[w] = "new" /\ Enter(w, <<>>, <<>>)
  /\ UNCHANGED <<tree, made>>

\* walk_path_subdir: one entry of the directory, of the kind it had in readdir
Read(w, name) ==
  LET path == Append(Top(w).path, name)
      rest == [frames[w] EXCEPT ![Len(frames[w])].todo = @ \ {name}]
  IN  \/ /\ kind(path) \in {"dir", "none"}     \* a directory, or gone since
         /\ Enter(w, path, rest) /\ UNCHANGED tree
      \/ /\ kind(path) \in {"reg", "none"}     \* walk_path_file
         /\ Calls(w, "NotDir", path)
         /\ tree' = IF Kind(w) = "rmrf" THEN Without(path) ELSE tree    \* unlink(path).ignore()
         /\ \/ UNCHANGED state /\ frames' = [frames EXCEPT ![w] = rest]
            \/ "Abort" \in Actions(w) /\ Finish(w, "false") /\ frames' = [frames EXCEPT ![w] = <<>>]
      \/ /\ kind(path) = "other"                \* a link, a socket: passed over
         /\ frames' = [frames EXCEPT ![w] = rest] /\ UNCHANGED <<tree, trace, state>>
Entry(w) == state[w] = "on" /\ frames[w] # <<>> /\ (\E name \in Top(w).todo : Read(w, name))
            /\ UNCHANGED made

\* the end of a directory: func(ExitDir), where rmrf calls rmdir(path).ignore()
Exit(w) ==
  /\ state[w] = "on" /\ frames[w] # <<>> /\ Top(w).todo = {} /\ Calls(w, "ExitDir", Top(w).path)
  /\ tree' = IF Kind(w) = "rmrf" /\ children(Top(w).path) = {} THEN Without(Top(w).path) ELSE tree
  /\ \/ /\ frames' = [frames EXCEPT ![w] = Front(@)]
        /\ IF Len(frames[w]) = 1 THEN Finish(w, "true") ELSE UNCHANGED state
     \/ "Abort" \in Actions(w) /\ Finish(w, "false") /\ frames' = [frames EXCEPT ![w] = <<>>]
  /\ UNCHANGED made

----------------------------------------------------------------------------
\* mkpath: mkdir of each prefix; what exists is taken for a directory.  A
\* prefix may also be refused although it exists
mkdir(path) == IF path \in DOMAIN tree THEN "ok"
               ELSE IF kind(parent(path)) = "dir" THEN "ok" ELSE "error"
MakeDir(w) ==
  /\ Kind(w) = "mkpath" /\ state[w] = "new" /\ made[w].i <= Len(Target)
  /\ LET path == SubSeq(Target, 1, made[w].i)
     IN  \E last_error \in {mkdir(path)} \cup (IF made[w].i < Len(Target) /\ path \in DOMAIN tree
                                               THEN {"error"} ELSE {}) :
           /\ tree' = IF last_error = "ok" /\ path \notin DOMAIN tree
                      THEN [q \in DOMAIN tree \cup {path} |-> IF q = path THEN "dir" ELSE tree[q]] ELSE tree
           /\ made' = [made EXCEPT ![w] =
                [i |-> @.i + 1, last |-> last_error, first |-> IF @.first = "ok" THEN last_error ELSE @.first]]
  /\ UNCHANGED <<frames, trace, state>>
Made(w) ==
  /\ Kind(w) = "mkpath" /\ state[w] = "new" /\ made[w].i > Len(Target)
  /\ Finish(w, IF made[w].last = "error" THEN made[w].first ELSE "ok")
  /\ UNCHANGED <<tree, frames, trace, made>>

Next == \E w \in Walkers : Start(w) \/ Entry(w) \/ Exit(w) \/ MakeDir(w) \/ Made(w)
Spec == Init /\ [][Next]_vars
FairSpec == Spec /\ WF_vars(Next)

----------------------------------------------------------------------------
TypeOK == \A w \in Walkers : \A i \in 1..Len(frames[w]) : frames[w][i].todo \subseteq Names

Removers == {w \in Walkers : Kind(w) = "rmrf" /\ state[w] # "out"}
Makers == {w \in Walkers : Kind(w) = "mkpath" /\ state[w] # "out"}

(* What is left always hangs together: nothing is without its directory.   *)
TreeIsWhole == \A p \in DOMAIN tree : p # <<>> => parent(p) \in DOMAIN tree

(* The calls of func are nested: a directory is entered before what is in  *)
(* it and left after it, and nothing is visited twice.                     *)
Nested == \A w \in Walkers : \A i, j \in 1..Len(trace[w]) :
  LET a == trace[w][i]
      b == trace[w][j]
  IN  /\ a = b => i = j
      /\ IsStrictPrefix(a[2], b[2]) => (a[1] = "EnterDir" => i < j) /\ (a[1] = "ExitDir" => j < i)

(* When nobody makes anything, an rmrf that succeeds leaves only entries   *)
(* that are neither files nor directories, and the directories on the way  *)
(* to them.                                                                *)
RemovedAll == \A w \in Removers :
  state[w] = "true" /\ Makers = {} =>
    \A p \in DOMAIN tree : \E q \in DOMAIN tree : tree[q] = "other" /\ IsPrefix(p, q)

(* mkpath that succeeds leaves a path to the directory, unless a walk      *)
(* removes it.                                                             *)
MkpathMakes == \A w \in Makers :
  state[w] = "ok" /\ Removers = {} => \A i \in 1..Len(Target) : SubSeq(Target, 1, i) \in DOMAIN tree

(* Every walk ends.                                                        *)
WalksEnd == \A w \in Walkers : <>(state[w] \notin {"new", "on"})
============================================================================
