---------------------------- MODULE FifoChannel ----------------------------
(***************************************************************************)
(* What the pollable queues promise to their users: a first-in first-out   *)
(* channel.  Writers publish values, one or several at a time; the reader  *)
(* takes them in that order.                                               *)
(***************************************************************************)
EXTENDS Sequences, SequencesExt

CONSTANT Values

VARIABLES
  queue,     (* published, and not taken yet                                 *)
  got        (* taken                                                        *)

vars == <<queue, got>>

Init == queue = <<>> /\ got = <<>>

Put ==
  /\ queue' \in Seq(Values)
  /\ IsStrictPrefix(queue, queue')
  /\ UNCHANGED got

Take ==
  /\ queue # <<>>
  /\ got' = Append(got, Head(queue))
  /\ queue' = Tail(queue)

Next == Put \/ Take

Spec == Init /\ [][Next]_vars
=============================================================================
