---------------------------- MODULE BoundedFifo ----------------------------
(***************************************************************************)
(* What LockFreeQueue (src/include/lock_free_queue.h) promises its         *)
(* callers: a first-in first-out queue of at most Capacity items.  A call  *)
(* of enqueue takes effect at one instant between its invocation and its   *)
(* return, and reports whether the item was accepted; it may refuse only a *)
(* queue that is full at that instant.  dequeue and empty() take effect at *)
(* the instant they return.                                                *)
(***************************************************************************)
EXTENDS Naturals, Sequences

CONSTANTS
  Capacity,   (* how many items the queue holds                            *)
  Items,      (* what is queued                                            *)
  Producers,  (* the threads that call enqueue                             *)
  None        (* std::nullopt                                              *)

VARIABLES
  queue,      (* the accepted items that no dequeue has returned yet       *)
  item,       (* item[p]: the argument of p's latest enqueue               *)
  reply,      (* reply[p]: what p's latest enqueue returned                *)
  got,        (* what the latest dequeue returned                          *)
  saw_empty,  (* what the latest empty() returned                          *)
  alive       (* FALSE once the queue has been destroyed                   *)

vars == <<queue, item, reply, got, saw_empty, alive>>

Replies == {"pending", "accepted", "refused"}

TypeOK ==
  /\ queue \in Seq(Items)
  /\ Len(queue) <= Capacity
  /\ item \in [Producers -> Items \cup {None}]
  /\ reply \in [Producers -> Replies]
  /\ got \in Items \cup {None}
  /\ saw_empty \in BOOLEAN
  /\ alive \in BOOLEAN

Init ==
  /\ queue = <<>>
  /\ item = [p \in Producers |-> None]
  /\ reply = [p \in Producers |-> "refused"]
  /\ got = None
  /\ saw_empty = FALSE
  /\ alive = TRUE

\* enqueue(x) is invoked.
Call(p, x) ==
  /\ alive
  /\ reply[p] # "pending"
  /\ item' = [item EXCEPT ![p] = x]
  /\ reply' = [reply EXCEPT ![p] = "pending"]
  /\ UNCHANGED <<queue, got, saw_empty, alive>>

Accept(p) ==
  /\ reply[p] = "pending"
  /\ Len(queue) < Capacity
  /\ queue' = Append(queue, item[p])
  /\ reply' = [reply EXCEPT ![p] = "accepted"]
  /\ UNCHANGED <<item, got, saw_empty, alive>>

Refuse(p) ==
  /\ reply[p] = "pending"
  /\ Len(queue) = Capacity
  /\ reply' = [reply EXCEPT ![p] = "refused"]
  /\ UNCHANGED <<queue, item, got, saw_empty, alive>>

Take ==
  /\ alive
  /\ queue # <<>>
  /\ got' = Head(queue)
  /\ queue' = Tail(queue)
  /\ UNCHANGED <<item, reply, saw_empty, alive>>

TakeNothing ==
  /\ alive
  /\ queue = <<>>
  /\ got' = None
  /\ UNCHANGED <<queue, item, reply, saw_empty, alive>>

AskEmpty ==
  /\ alive
  /\ saw_empty' = (queue = <<>>)
  /\ UNCHANGED <<queue, item, reply, got, alive>>

\* The queue is destroyed with the items nobody took, when no call is running.
Discard ==
  /\ alive
  /\ \A p \in Producers : reply[p] # "pending"
  /\ queue' = <<>>
  /\ alive' = FALSE
  /\ UNCHANGED <<item, reply, got, saw_empty>>

Next ==
  \/ \E p \in Producers : (\E x \in Items : Call(p, x)) \/ Accept(p) \/ Refuse(p)
  \/ Take \/ TakeNothing \/ AskEmpty \/ Discard

Spec == Init /\ [][Next]_vars
=============================================================================
