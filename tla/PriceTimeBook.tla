--------------------------- MODULE PriceTimeBook ---------------------------
(***************************************************************************)
(* What Orderbook (src/src/book/orderbook.cpp) is a book of: on each side, *)
(* at each price, the ids of the resting orders in time priority, and the  *)
(* size of each.  A message changes it as an exchange's book changes,      *)
(* except that a trade only reduces the order it fills in part: the orders *)
(* it fills completely stay until the feed cancels them.                   *)
(***************************************************************************)
EXTENDS Integers, SequencesExt

CONSTANTS
  Ids,        (* order ids of the feed                                     *)
  Prices,
  Sizes       (* sizes that messages carry                                 *)

VARIABLES
  queue,      (* queue[side][price]: ids, oldest first; TRUE is the bid    *)
  size        (* size[id]: what is left of id, 0 when it does not rest     *)

vars == <<queue, size>>

Init ==
  /\ queue = [side \in BOOLEAN |-> [price \in Prices |-> <<>>]]
  /\ size = [id \in Ids |-> 0]

Resting(id) == size[id] > 0

RestsAt(id, side, price) == Contains(queue[side][price], id)

\* id joins the end of the queue at price.
Join(q, id, side, price) == [q EXCEPT ![side][price] = Append(@, id)]

PlaceOf(q, id) == CHOOSE i \in DOMAIN q : q[i] = id

Without(q, id) == IF Contains(q, id) THEN RemoveAt(q, PlaceOf(q, id)) ELSE q

\* id leaves whatever queue it is in.
Leave(q, id) ==
  [side \in BOOLEAN |-> [price \in Prices |-> Without(q[side][price], id)]]

Add(id, side, price, n) ==
  /\ ~Resting(id)
  /\ queue' = Join(queue, id, side, price)
  /\ size' = [size EXCEPT ![id] = n]

Cancel(id) ==
  /\ Resting(id)
  /\ queue' = Leave(queue, id)
  /\ size' = [size EXCEPT ![id] = 0]

\* A new price or a larger size costs the order its place; a smaller one does not.
Requeue(id, side, price, n) ==
  /\ ~RestsAt(id, side, price) \/ n > size[id]
  /\ queue' = Join(Leave(queue, id), id, side, price)

KeepPlace(id, side, price, n) ==
  /\ RestsAt(id, side, price) /\ n <= size[id]
  /\ UNCHANGED queue

Modify(id, side, price, n) ==
  /\ \E own \in Prices : RestsAt(id, side, own)
  /\ Requeue(id, side, price, n) \/ KeepPlace(id, side, price, n)
  /\ size' = [size EXCEPT ![id] = n]

\* The total size that has priority over the i-th order of a queue.
Ahead(q, i) == SumFunctionOnSet([j \in DOMAIN q |-> size[q[j]]], 1 .. i - 1)

\* n lots trade against the queue at price: the order they reach but do not
\* exhaust shrinks by what is left for it.
Trade(side, price, n) ==
  LET q == queue[side][price]
      Reached == {i \in DOMAIN q : Ahead(q, i) < n /\ n < Ahead(q, i) + size[q[i]]}
  IN /\ size' = [id \in Ids |->
                   IF \E i \in Reached : q[i] = id
                   THEN LET i == CHOOSE i \in Reached : TRUE
                        IN  Ahead(q, i) + size[id] - n
                   ELSE size[id]]
     /\ UNCHANGED queue

Next ==
  \/ \E id \in Ids, side \in BOOLEAN, price \in Prices, n \in Sizes :
        Add(id, side, price, n) \/ Modify(id, side, price, n)
  \/ \E id \in Ids : Cancel(id)
  \/ \E side \in BOOLEAN, price \in Prices, n \in Sizes : Trade(side, price, n)

Spec == Init /\ [][Next]_vars
=============================================================================
