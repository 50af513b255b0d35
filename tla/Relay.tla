------------------------------- MODULE Relay -------------------------------
(***************************************************************************)
(* What a queue and the thread behind it are for: items are handed on in   *)
(* the order in which they were accepted, each at most once.  What goes    *)
(* through DatabaseManager may be lost on the way, what goes through the   *)
(* database thread of AsyncLogger may not.                                 *)
(***************************************************************************)
EXTENDS SequencesExt

CONSTANTS
  Batches,  (* the sequences of items that can be accepted at once         *)
  Lossy     (* whether an accepted item may be lost                        *)

VARIABLES
  pending,  (* what was accepted and is still to be handed on              *)
  done      (* what was handed on                                          *)

vars == <<pending, done>>

Init == pending = <<>> /\ done = <<>>

\* Items are told apart: what is on its way or was handed on is not accepted again.
Accept(items) ==
  /\ ToSet(items) \cap ToSet(pending \o done) = {}
  /\ pending' = pending \o items
  /\ UNCHANGED done

Hand ==
  /\ pending # <<>>
  /\ pending' = Tail(pending)
  /\ done' = Append(done, Head(pending))

Lose ==
  /\ Lossy
  /\ \E i \in DOMAIN pending : pending' = RemoveAt(pending, i)
  /\ UNCHANGED done

Next ==
  \/ \E items \in Batches : Accept(items)
  \/ Hand
  \/ Lose

Spec == Init /\ [][Next]_vars
=============================================================================
