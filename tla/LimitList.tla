----------------------------- MODULE LimitList -----------------------------
(***************************************************************************)
(* The doubly linked lists of orders of src/include/limit.h, pointer by    *)
(* pointer.  An action is a call of Limit::add_order or                    *)
(* Limit::remove_order as Orderbook makes it: add_order on an order that   *)
(* is on no list, because the pool has just handed it out or remove_order  *)
(* has just taken it off, and remove_order on target->parent_.             *)
(***************************************************************************)
EXTENDS Integers, FiniteSets, SequencesExt

CONSTANTS
  Orders,       (* Order objects                                           *)
  Limits,       (* Limit objects                                           *)
  Null          (* nullptr                                                 *)

ASSUME ListAssumption == IsFiniteSet(Orders) /\ Null \notin Orders \cup Limits

VARIABLES
  head_,        (* per Limit                                               *)
  tail_,
  num_orders_,
  next_,        (* per Order                                               *)
  prev_,
  parent_

vars == <<head_, tail_, num_orders_, next_, prev_, parent_>>

Init ==
  /\ head_ = [l \in Limits |-> Null]
  /\ tail_ = [l \in Limits |-> Null]
  /\ num_orders_ = [l \in Limits |-> 0]
  /\ next_ = [o \in Orders |-> Null]
  /\ prev_ = [o \in Orders |-> Null]
  /\ parent_ = [o \in Orders |-> Null]

-----------------------------------------------------------------------------
(* void add_order(Order* new_order) *)

\* next_ and prev_ of the new order are taken to be null: nothing sets them.
AddFirst(l, o) ==
  /\ head_[l] = Null /\ tail_[l] = Null
  /\ head_' = [head_ EXCEPT ![l] = o]
  /\ tail_' = [tail_ EXCEPT ![l] = o]
  /\ UNCHANGED <<next_, prev_>>

AddLast(l, o) ==
  /\ ~(head_[l] = Null /\ tail_[l] = Null)
  /\ next_' = [next_ EXCEPT ![tail_[l]] = o, ![o] = Null]
  /\ prev_' = [prev_ EXCEPT ![o] = tail_[l]]
  /\ tail_' = [tail_ EXCEPT ![l] = o]
  /\ UNCHANGED head_

AddOrder(l, o) ==
  /\ parent_[o] = Null
  /\ AddFirst(l, o) \/ AddLast(l, o)
  /\ num_orders_' = [num_orders_ EXCEPT ![l] = @ + 1]
  /\ parent_' = [parent_ EXCEPT ![o] = l]

-----------------------------------------------------------------------------
(* void remove_order(Order* target) *)

\* What every branch ends with: the target's own links are cleared.
Unlinked(f, o) == [f EXCEPT ![o] = Null]

\* Mutant: tail_ keeps pointing at the only order.
RemoveOnlyHalf(l, o) ==
  /\ head_[l] = tail_[l] /\ head_[l] = o
  /\ head_' = [head_ EXCEPT ![l] = Null]
  /\ next_' = Unlinked(next_, o)
  /\ prev_' = Unlinked(prev_, o)
  /\ UNCHANGED tail_

RemoveOnly(l, o) ==
  /\ head_[l] = tail_[l] /\ head_[l] = o
  /\ head_' = [head_ EXCEPT ![l] = Null]
  /\ tail_' = [tail_ EXCEPT ![l] = Null]
  /\ next_' = Unlinked(next_, o)
  /\ prev_' = Unlinked(prev_, o)

RemoveHead(l, o) ==
  /\ head_[l] = o /\ head_[l] # tail_[l]
  /\ head_' = [head_ EXCEPT ![l] = next_[o]]
  /\ next_' = Unlinked(next_, o)
  /\ prev_' = Unlinked(IF next_[o] = Null THEN prev_ ELSE [prev_ EXCEPT ![next_[o]] = Null], o)
  /\ UNCHANGED tail_

RemoveTail(l, o) ==
  /\ tail_[l] = o /\ head_[l] # o
  /\ tail_' = [tail_ EXCEPT ![l] = prev_[o]]
  /\ next_' = Unlinked(IF prev_[o] = Null THEN next_ ELSE [next_ EXCEPT ![prev_[o]] = Null], o)
  /\ prev_' = Unlinked(prev_, o)
  /\ UNCHANGED head_

\* Mutant: the next order keeps pointing back at the target.
RemoveMiddleOneWay(l, o) ==
  /\ tail_[l] # o /\ head_[l] # o
  /\ next_' = Unlinked(IF prev_[o] = Null THEN next_ ELSE [next_ EXCEPT ![prev_[o]] = next_[o]], o)
  /\ prev_' = Unlinked(prev_, o)
  /\ UNCHANGED <<head_, tail_>>

\* Mutant: the list is cut after the previous order.
RemoveMiddleCut(l, o) ==
  /\ tail_[l] # o /\ head_[l] # o
  /\ next_' = Unlinked(IF prev_[o] = Null THEN next_ ELSE [next_ EXCEPT ![prev_[o]] = Null], o)
  /\ prev_' = Unlinked(IF next_[o] = Null THEN prev_ ELSE [prev_ EXCEPT ![next_[o]] = prev_[o]], o)
  /\ UNCHANGED <<head_, tail_>>

RemoveMiddle(l, o) ==
  /\ tail_[l] # o /\ head_[l] # o
  /\ next_' = Unlinked(IF prev_[o] = Null THEN next_ ELSE [next_ EXCEPT ![prev_[o]] = next_[o]], o)
  /\ prev_' = Unlinked(IF next_[o] = Null THEN prev_ ELSE [prev_ EXCEPT ![next_[o]] = prev_[o]], o)
  /\ UNCHANGED <<head_, tail_>>

\* The early return on an empty list is never taken: an order whose parent_ is l is
\* on the list of l (ListIsWhole).
RemoveFrom(l, o) ==
  /\ head_[l] # Null
  /\ RemoveOnly(l, o) \/ RemoveHead(l, o) \/ RemoveTail(l, o) \/ RemoveMiddle(l, o)
  /\ num_orders_' = [num_orders_ EXCEPT ![l] = @ - 1]
  /\ parent_' = Unlinked(parent_, o)

RemoveOrder(o) == parent_[o] # Null /\ RemoveFrom(parent_[o], o)

Next == \E o \in Orders : RemoveOrder(o) \/ \E l \in Limits : AddOrder(l, o)

Spec == Init /\ [][Next]_vars

-----------------------------------------------------------------------------
(* Properties. *)

TypeOK ==
  /\ head_ \in [Limits -> Orders \cup {Null}]
  /\ tail_ \in [Limits -> Orders \cup {Null}]
  /\ num_orders_ \in [Limits -> Nat]
  /\ next_ \in [Orders -> Orders \cup {Null}]
  /\ prev_ \in [Orders -> Orders \cup {Null}]
  /\ parent_ \in [Orders -> Limits \cup {Null}]

\* The ends of a list: null together, and on the list.
EndsLinked ==
  \A l \in Limits :
    /\ head_[l] = Null <=> tail_[l] = Null
    /\ head_[l] # Null => parent_[head_[l]] = l
    /\ tail_[l] # Null => parent_[tail_[l]] = l

\* An order on a list is either its head or pointed at by the one before it, and
\* either its tail or pointed back at by the one after it.
NeighboursLinked ==
  \A o \in Orders : parent_[o] # Null =>
    /\ prev_[o] = Null <=> head_[parent_[o]] = o
    /\ next_[o] = Null <=> tail_[parent_[o]] = o
    /\ prev_[o] # Null => next_[prev_[o]] = o /\ parent_[prev_[o]] = parent_[o]
    /\ next_[o] # Null => prev_[next_[o]] = o /\ parent_[next_[o]] = parent_[o]

\* add_order relies on the links of an order on no list being null.
OffListIsClear ==
  \A o \in Orders : parent_[o] = Null => next_[o] = Null /\ prev_[o] = Null

\* No pointer is left to an order that remove_order took off.
WellLinked == EndsLinked /\ NeighboursLinked /\ OffListIsClear

\* The orders reached from start along the pointers of link; one more than there
\* are orders, if it goes round in a circle.
Path(start, link) ==
  LET N == Cardinality(Orders) + 1
      at[i \in 1 .. N] ==
        IF i = 1 THEN start ELSE IF at[i - 1] = Null THEN Null ELSE link[at[i - 1]]
  IN [i \in 1 .. Cardinality({i \in 1 .. N : at[i] # Null}) |-> at[i]]

\* What trade_order walks.
List(l) == Path(head_[l], next_)

\* Walking back from tail_ gives the same list, and it holds exactly the orders
\* whose parent_ is the limit, num_orders_ of them.
ListIsWhole ==
  \A l \in Limits :
    /\ Path(tail_[l], prev_) = Reverse(List(l))
    /\ ToSet(List(l)) = {o \in Orders : parent_[o] = l}
    /\ num_orders_[l] = Len(List(l))

\* The lists are queues: an order joins at the end, leaves from anywhere, and no
\* call disturbs the others.
Queues == INSTANCE LevelQueues WITH queue <- [l \in Limits |-> List(l)]
IsLevelQueues == Queues!Spec
=============================================================================
