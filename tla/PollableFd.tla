---------------------------- MODULE PollableFd ----------------------------
(***************************************************************************)
(* td/utils/port/PollFlags and detail/PollableFd: the flags of a           *)
(* descriptor in two parts, to_write for the poll thread to add to and     *)
(* flags for the owner alone, the lock that says a poller may hold the     *)
(* node, and the observer that is told of new flags.  Operators on a       *)
(* record, for the modules of the descriptors.                             *)
(***************************************************************************)
EXTENDS Integers

PollFlags == {"Read", "Write", "Close", "Error"}
Info == [lock: BOOLEAN, observer: BOOLEAN, flags: SUBSET PollFlags, to_write: SUBSET PollFlags]
NewInfo == [lock |-> FALSE, observer |-> FALSE, flags |-> {}, to_write |-> {}]

\* extract_pollable_fd: CHECK(!was_locked), CHECK(!observer_)
CanExtract(info) == ~info.lock /\ ~info.observer
Extract(info) == [info EXCEPT !.lock = TRUE, !.observer = TRUE]
\* unlock, when a PollableFd is destroyed
Unlock(info) == [info EXCEPT !.lock = FALSE, !.observer = FALSE]
\* set_native_fd({}) and the destructor: CHECK(!was_locked)
CanClose(info) == ~info.lock

\* PollFlagsSet::write_flags and what it returns: whether a flag is new
write_flags(info, flags) == [info EXCEPT !.to_write = @ \cup flags]
IsNew(info, flags) == flags \ info.to_write # {}
\* add_flags_from_poll: whether the observer is told
Notifies(info, flags) == IsNew(info, flags) /\ info.observer

\* write_flags_local and clear_flags
clear_flags_all(info, flags) ==   \* a mutant: what the poll thread added meanwhile goes too
  [info EXCEPT !.flags = @ \ flags, !.to_write = @ \ flags]
add_flags(info, flags) == [info EXCEPT !.flags = @ \cup flags]
clear_flags(info, flags) == [info EXCEPT !.flags = @ \ flags]

\* flush, by sync_with_poll: a descriptor that is closed is not written to
flush(info) ==
  LET all == info.flags \cup info.to_write
  IN  IF info.to_write = {} THEN info
      ELSE [info EXCEPT !.to_write = {}, !.flags = IF "Close" \in all THEN all \ {"Write"} ELSE all]

can_read_local(info) == info.flags \cap {"Read", "Error"} # {}
can_write_local(info) == "Write" \in info.flags
can_close_local(info) == "Close" \in info.flags
============================================================================
