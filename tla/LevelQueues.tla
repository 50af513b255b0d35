---------------------------- MODULE LevelQueues ----------------------------
(***************************************************************************)
(* What the lists of Limit (src/include/limit.h) are: one queue of orders  *)
(* per limit, an order in at most one of them.  An order joins at the end  *)
(* and leaves from anywhere, and the others keep their order.              *)
(***************************************************************************)
EXTENDS Naturals, SequencesExt

CONSTANTS Orders, Limits

VARIABLE queue

Init == queue = [l \in Limits |-> <<>>]

Queued(o) == \E l \in Limits : Contains(queue[l], o)

Join(o, l) ==
  /\ ~Queued(o)
  /\ queue' = [queue EXCEPT ![l] = Append(@, o)]

Leave(o) ==
  \E l \in Limits : \E i \in DOMAIN queue[l] :
    /\ queue[l][i] = o
    /\ queue' = [queue EXCEPT ![l] = RemoveAt(@, i)]

Next == \E o \in Orders : Leave(o) \/ \E l \in Limits : Join(o, l)

Spec == Init /\ [][Next]_queue
=============================================================================
