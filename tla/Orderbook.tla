----------------------------- MODULE Orderbook -----------------------------
(***************************************************************************)
(* The limit order book: Orderbook (src/include/orderbook.h,               *)
(* src/src/book/orderbook.cpp) with the Limit and OrderPool objects it     *)
(* owns.  One action per handler of process_msg, one for calculate_vols,   *)
(* which Backtester calls between messages.  Nothing calls reset.          *)
(*                                                                         *)
(* The list of a Limit is a sequence here; module LimitList has its        *)
(* pointers.  A pointer to a Limit is the key, side and price, that the    *)
(* Limit was made for: an invariant, not the model, says that the maps     *)
(* still hold that key when the pointer is used.  The fields that nothing  *)
(* reads are left out: Order::id_, side_, unix_time_, filled_ and          *)
(* Limit::price_, side_; so are vwap_, sum1_ and sum2_, which only a       *)
(* strategy reads.                                                         *)
(***************************************************************************)
EXTENDS Integers, FiniteSets, SequencesExt

CONSTANTS
  Ids,            (* order ids of the feed                                 *)
  Prices,
  Sizes,          (* sizes that messages carry                             *)
  Preallocated,   (* Order objects of the pool at the start: 1000000       *)
  MaxOrders,      (* bound: Order objects on the heap                      *)
  MaxVolume,      (* bound: total volume_ of the limits, and size of vol   *)
  VolRange,       (* 2000: update_vol counts prices this close to the best *)
  VolLevels,      (* 80: calculate_vols adds up this many levels           *)
  Indeterminate,  (* what reading the price past the end of a map may give *)
  Null

ASSUME OrderbookAssumption ==
  /\ Prices \subseteq Int
  /\ Sizes \subseteq Nat \ {0}
  /\ MaxOrders \in Nat
  /\ Preallocated \in 0 .. MaxOrders
  /\ VolRange \in Nat
  /\ VolLevels \in Nat
  /\ Indeterminate \subseteq Int
  /\ Null \notin Int
  /\ Null \notin BOOLEAN \X Prices

VARIABLES
  pool_,              (* OrderPool: the Order objects allocated are 1 .. pool_ *)
  available_orders_,  (* OrderPool: the stack of free ones                 *)
  order,              (* Order objects: price_, size                       *)
  order_lookup_,
  levels,             (* bids_ and offers_, limit_lookup_, the Limits      *)
  count,              (* ask_count_, bid_count_                            *)
  vol,                (* ask_vol_, bid_vol_; Null while indeterminate      *)
  update_possible

vars == <<pool_, available_orders_, order, order_lookup_, levels, count, vol,
          update_possible>>

Orders == 1 .. MaxOrders

Sides == BOOLEAN   \* TRUE is the bid side

Keys == Sides \X Prices

(***************************************************************************)
(* levels is a record of                                                   *)
(*   at         the keys of bids_ and offers_                              *)
(*   lookup     the keys of limit_lookup_                                  *)
(*   list       key -> the orders of its Limit, from head_ to tail_        *)
(*   volume     key -> volume_                                             *)
(*   num        key -> num_orders_                                         *)
(*   parent     Order -> parent_                                           *)
(***************************************************************************)
NoLevels ==
  [at     |-> {},
   lookup |-> {},
   list   |-> [k \in Keys |-> <<>>],
   volume |-> [k \in Keys |-> 0],
   num    |-> [k \in Keys |-> 0],
   parent |-> [o \in Orders |-> Null]]

Init ==
  /\ pool_ = Preallocated
  /\ available_orders_ = [i \in 1 .. Preallocated |-> i]
  /\ order = [o \in Orders |-> [price |-> 0, size |-> 0]]
  /\ order_lookup_ = [id \in Ids |-> Null]
  /\ levels = NoLevels
  /\ count = [s \in Sides |-> 0]
  /\ vol = [s \in Sides |-> Null]
  /\ update_possible = FALSE

-----------------------------------------------------------------------------
(* OrderPool *)

NextOrder ==
  IF available_orders_ = <<>> THEN pool_ + 1 ELSE Last(available_orders_)

\* Order* get_order(): pops the stack, or allocates when it is empty.
GetOrder ==
  \/ /\ available_orders_ = <<>>
     /\ pool_ < MaxOrders
     /\ pool_' = pool_ + 1
     /\ UNCHANGED available_orders_
  \/ /\ available_orders_ # <<>>
     /\ available_orders_' = Front(available_orders_)
     /\ UNCHANGED pool_

\* Mutant: the order is not put back.
ReturnOrderLost(o) == UNCHANGED <<pool_, available_orders_>>

ReturnOrder(o) ==
  /\ available_orders_' = Append(available_orders_, o)
  /\ UNCHANGED pool_

-----------------------------------------------------------------------------
(* Limit, and the maps of limits.  Each operator gives the levels after it. *)

\* Mutant: volume_ is not increased.
LimitAddNoVolume(L, k, o, n) ==
  [L EXCEPT !.list[k] = Append(@, o), !.num[k] = @ + 1, !.parent[o] = k]

LimitAdd(L, k, o, n) ==
  [L EXCEPT !.list[k] = Append(@, o), !.volume[k] = @ + n, !.num[k] = @ + 1,
            !.parent[o] = k]

PlaceOf(list, o) == CHOOSE i \in DOMAIN list : list[i] = o

LimitRemove(L, k, o, n) ==
  [L EXCEPT !.list[k] = RemoveAt(@, PlaceOf(@, o)), !.volume[k] = @ - n, !.num[k] = @ - 1,
            !.parent[o] = Null]

GetOrInsertLimit(L, k) ==
  IF k \in L.lookup THEN L
  ELSE [L EXCEPT !.at = @ \cup {k}, !.lookup = @ \cup {k},
                 !.list[k] = <<>>, !.volume[k] = 0, !.num[k] = 0]

\* Mutant: an empty limit stays in the maps.
EraseIfEmptyNever(L, emptied, k) == L

\* Mutant: an empty limit stays in limit_lookup_.
EraseIfEmptyOneMap(L, emptied, k) ==
  IF L.list[emptied] # <<>> THEN L ELSE [L EXCEPT !.at = @ \ {k}]

\* Erases key k from the maps if the limit emptied, which k should be the key of,
\* is empty.  An erased limit is never freed, and nothing reaches it again: what
\* it held is forgotten.
EraseIfEmpty(L, emptied, k) ==
  IF L.list[emptied] # <<>> THEN L
  ELSE [L EXCEPT !.at = @ \ {k}, !.lookup = @ \ {k}, !.volume[k] = 0]

PricesOf(L, s) == {p \in Prices : <<s, p>> \in L.at}

Better(s, p, q) == IF s THEN p > q ELSE p < q

\* get_best_bid_price, get_best_ask_price: on an empty side they read past the map.
BestPrices(L, s) ==
  IF PricesOf(L, s) = {} THEN Indeterminate
  ELSE {p \in PricesOf(L, s) : \A q \in PricesOf(L, s) : ~Better(s, q, p)}

-----------------------------------------------------------------------------
(* The running volumes. *)

InRange(p, best) == p - best \in -VolRange .. VolRange

Counted(p, n, best) == IF InRange(p, best) THEN n ELSE 0

\* update_vol; L is the levels after the message.
UpdateVol(L, s, p, n) ==
  \/ ~update_possible /\ UNCHANGED vol
  \/ update_possible /\ \E best \in BestPrices(L, s) :
       vol' = [vol EXCEPT ![s] = @ + Counted(p, n, best)]

\* Mutant: the old size is not taken off.
UpdateModifyVolAddOnly(L, s, og_price, new_price, og_size, new_size) ==
  UpdateVol(L, s, new_price, new_size)

UpdateModifyVol(L, s, og_price, new_price, og_size, new_size) ==
  \/ ~update_possible /\ UNCHANGED vol
  \/ update_possible /\ \E best \in BestPrices(L, s) :
       vol' = [vol EXCEPT ![s] = @ - Counted(og_price, og_size, best)
                                   + Counted(new_price, new_size, best)]

-----------------------------------------------------------------------------
(* The handlers of process_msg. *)

AddLimitOrder(s, id, p, n) ==
  LET o == NextOrder
      L == LimitAdd(GetOrInsertLimit(levels, <<s, p>>), <<s, p>>, o, n)
  IN /\ GetOrder
     /\ order' = [order EXCEPT ![o] = [price |-> p, size |-> n]]
     /\ order_lookup_' = [order_lookup_ EXCEPT ![id] = o]
     /\ levels' = L
     /\ count' = [count EXCEPT ![s] = @ + 1]
     /\ UpdateVol(L, s, p, n)
     /\ UNCHANGED update_possible

\* The limit loses the order's own size, the running volume the message's.
RemoveOrder(s, id, p, n) ==
  LET o == order_lookup_[id]
      k == levels.parent[o]
      L == EraseIfEmpty(LimitRemove(levels, k, o, order[o].size), k, <<s, p>>)
  IN /\ ReturnOrder(o)
     /\ order_lookup_' = [order_lookup_ EXCEPT ![id] = Null]
     /\ levels' = L
     /\ count' = [count EXCEPT ![s] = @ - 1]
     /\ UpdateVol(L, s, p, -n)
     /\ UNCHANGED <<order, update_possible>>

\* Mutant: the new size is written before the limit loses the order.
ModifiedLevelsSizeFirst(s, o, p, n) ==
  LET k       == levels.parent[o]
      Removed == LimitRemove(levels, k, o, n)
      Moved   == GetOrInsertLimit(EraseIfEmpty(Removed, k, <<s, order[o].price>>), <<s, p>>)
  IN CASE order[o].price # p                        -> LimitAdd(Moved, <<s, p>>, o, n)
       [] order[o].price = p /\ order[o].size < n   -> LimitAdd(Removed, k, o, n)
       [] order[o].price = p /\ order[o].size >= n  -> levels

\* Mutant: a smaller size requeues the order, too.
ModifiedLevelsRequeue(s, o, p, n) ==
  LET k       == levels.parent[o]
      Removed == LimitRemove(levels, k, o, order[o].size)
      Moved   == GetOrInsertLimit(EraseIfEmpty(Removed, k, <<s, order[o].price>>), <<s, p>>)
  IN IF order[o].price # p THEN LimitAdd(Moved, <<s, p>>, o, n) ELSE LimitAdd(Removed, k, o, n)

\* modify_order for a known id: a new price moves the order, a larger size
\* requeues it, and any other size is written in place, volume_ untouched.
ModifiedLevels(s, o, p, n) ==
  LET k       == levels.parent[o]
      Removed == LimitRemove(levels, k, o, order[o].size)
      Moved   == GetOrInsertLimit(EraseIfEmpty(Removed, k, <<s, order[o].price>>), <<s, p>>)
  IN CASE order[o].price # p                        -> LimitAdd(Moved, <<s, p>>, o, n)
       [] order[o].price = p /\ order[o].size < n   -> LimitAdd(Removed, k, o, n)
       [] order[o].price = p /\ order[o].size >= n  -> levels

ModifyKnown(s, id, p, n) ==
  LET o == order_lookup_[id]
      L == ModifiedLevels(s, o, p, n)
  IN /\ levels' = L
     /\ order' = [order EXCEPT ![o] = [price |-> p, size |-> n]]
     /\ UpdateModifyVol(L, s, order[o].price, p, order[o].size, n)
     /\ UNCHANGED <<pool_, available_orders_, order_lookup_, count, update_possible>>

ModifyOrder(s, id, p, n) ==
  \/ order_lookup_[id] = Null /\ AddLimitOrder(s, id, p, n)
  \/ order_lookup_[id] # Null /\ ModifyKnown(s, id, p, n)

\* Mutant: size -= it->size is missing.
LeftUnreduced(q, i, n) == n

\* What a trade of n lots has left when its walk of list q reaches the i-th order.
Left(q, i, n) == n - SumFunctionOnSet([j \in DOMAIN q |-> order[q[j]].size], 1 .. i - 1)

\* trade_order: the walk passes the orders it exhausts, which stay, and shrinks the
\* next one; volume_ is not adjusted, and the running volume only by the latter.
\* That leaves an indeterminate value indeterminate.
WalkList(q, n, opposite) ==
  LET Partial  == {i \in DOMAIN q : Left(q, i, n) \in 1 .. order[q[i]].size - 1}
      Taken(I) == SumFunctionOnSet([i \in DOMAIN q |-> Left(q, i, n)], I)
  IN /\ order' = [o \in Orders |->
                    [order[o] EXCEPT !.size = @ - Taken({i \in Partial : q[i] = o})]]
     /\ \/ vol[opposite] # Null /\ vol' = [vol EXCEPT ![opposite] = @ - Taken(Partial)]
        \/ vol[opposite] = Null /\ UNCHANGED vol

TradeOrder(s, p, n) ==
  LET L == GetOrInsertLimit(levels, <<~s, p>>)
  IN \/ /\ PricesOf(levels, ~s) = {}
        /\ UNCHANGED vars
     \/ /\ PricesOf(levels, ~s) # {}
        /\ levels' = L
        /\ WalkList(L.list[<<~s, p>>], n, ~s)
        /\ UNCHANGED <<pool_, available_orders_, order_lookup_, count, update_possible>>

-----------------------------------------------------------------------------
\* The best VolLevels levels of a side.
FirstLevels(s) ==
  {p \in PricesOf(levels, s) :
     Cardinality({q \in PricesOf(levels, s) : Better(s, q, p)}) < VolLevels}

CalculateVols ==
  /\ vol' = [s \in Sides |->
               SumFunctionOnSet([p \in Prices |-> levels.volume[<<s, p>>]], FirstLevels(s))]
  /\ update_possible' = TRUE
  /\ UNCHANGED <<pool_, available_orders_, order, order_lookup_, levels, count>>

-----------------------------------------------------------------------------
(* The feed: what an exchange sends about its own orders.                  *)

Known(id) == order_lookup_[id] # Null

OrderOf(id) == order[order_lookup_[id]]

RestsOn(id, s) ==
  Known(id) /\ levels.parent[order_lookup_[id]] = <<s, OrderOf(id).price>>

\* Bounds the search only.
Bounded == SumFunctionOnSet(levels.volume, levels.at) <= MaxVolume

ProcessMsg ==
  /\ update_possible => \A s \in Sides : vol[s] \in -MaxVolume .. MaxVolume
  /\ \E s \in Sides :
       \/ \E id \in Ids, p \in Prices, n \in Sizes :
            \/ ~Known(id) /\ AddLimitOrder(s, id, p, n)
            \/ (~Known(id) \/ RestsOn(id, s)) /\ ModifyOrder(s, id, p, n)
       \/ \E id \in Ids :
            RestsOn(id, s) /\ RemoveOrder(s, id, OrderOf(id).price, OrderOf(id).size)
       \/ \E p \in Prices, n \in Sizes : TradeOrder(s, p, n)
  /\ Bounded'

Next == ProcessMsg \/ CalculateVols

Spec == Init /\ [][Next]_vars

\* Messages alone, while the running volumes are not in use.
MessagesSpec == Init /\ [][ProcessMsg]_vars

-----------------------------------------------------------------------------
(* Properties. *)

TypeOK ==
  /\ pool_ \in Preallocated .. MaxOrders
  /\ available_orders_ \in Seq(Orders)
  /\ order \in [Orders -> [price : Prices \cup {0}, size : Nat]]
  /\ order_lookup_ \in [Ids -> Orders \cup {Null}]
  /\ levels.at \subseteq Keys
  /\ levels.lookup \subseteq Keys
  /\ levels.list \in [Keys -> Seq(Orders)]
  /\ levels.volume \in [Keys -> Nat]
  /\ levels.num \in [Keys -> Nat]
  /\ levels.parent \in [Orders -> Keys \cup {Null}]
  /\ count \in [Sides -> Nat]
  /\ vol \in [Sides -> IF update_possible THEN Int ELSE Int \cup {Null}]
  /\ update_possible \in BOOLEAN

LookedUp == {order_lookup_[id] : id \in Ids} \ {Null}

OrdersIn(K) == UNION {ToSet(levels.list[k]) : k \in K}

OrdersAt(s) == OrdersIn({k \in levels.at : k[1] = s})

\* The indexes agree: bids_ and offers_ with limit_lookup_, order_lookup_ with the
\* lists of the limits in those maps, an order's parent_ and price_ with the one
\* list it is on.  A stale pointer in any of them is a use of a lost object.
BookCoherent ==
  /\ levels.at = levels.lookup
  /\ \A k \in levels.at :
       /\ IsInjective(levels.list[k])
       /\ \A o \in ToSet(levels.list[k]) : levels.parent[o] = k /\ order[o].price = k[2]
  /\ OrdersIn(levels.at) = LookedUp
  /\ \A o \in Orders \ LookedUp : levels.parent[o] = Null

\* Every Order object is free or looked up by one id: none is lost, none is
\* handed out twice.
PoolPartition ==
  /\ IsInjective(available_orders_)
  /\ \A a, b \in Ids : Known(a) /\ order_lookup_[a] = order_lookup_[b] => a = b
  /\ ToSet(available_orders_) \cap LookedUp = {}
  /\ ToSet(available_orders_) \cup LookedUp = 1 .. pool_

SizeOf(S) == SumFunctionOnSet([o \in Orders |-> order[o].size], S)

\* The unsigned counters never wrap: counts are those of the orders that are there, and
\* volume_ never falls below what is resting, although trades and in-place changes
\* reduce only the orders.
CountersCoverOrders ==
  /\ \A s \in Sides : count[s] = Cardinality(OrdersAt(s))
  /\ \A k \in levels.at :
       /\ levels.num[k] = Len(levels.list[k])
       /\ levels.volume[k] >= SizeOf(ToSet(levels.list[k]))
  /\ \A o \in LookedUp : order[o].size > 0

EmptyLevels == {k \in levels.at : levels.list[k] = <<>>}

\* A cancel or a modify never leaves a level without orders in the book: only a
\* trade, which leaves order_lookup_ and every order's place alone, adds one.
OnlyTradesAddEmptyLevels ==
  [][EmptyLevels' \subseteq EmptyLevels
       \/ (levels.list = levels'.list /\ UNCHANGED <<order_lookup_, count>>)]_vars

\* While every price is near the best one, the running volume of a side follows the
\* size resting on it through every message.  A message that leaves the side
\* without a level reads past the map and says nothing.
VolFollowsOrders ==
  [][\A s \in Sides :
       update_possible /\ <<levels, order>>' # <<levels, order>> /\ PricesOf(levels', s) # {}
         => vol'[s] - vol[s] = SizeOf(OrdersAt(s))' - SizeOf(OrdersAt(s))]_vars

\* README.md:66 says that bid_vol_ and ask_vol_ are the total volume of the first
\* levels: a total of sizes is never negative.  But update_vol leaves out an order that
\* is far from the best price, and trade_order takes off what it fills of any.
VolNeverNegative == update_possible => \A s \in Sides : vol[s] >= 0

-----------------------------------------------------------------------------
IdOf(o) == CHOOSE id \in Ids : order_lookup_[id] = o

IdsAt(s, p) ==
  LET list == IF <<s, p>> \in levels.at THEN levels.list[<<s, p>>] ELSE <<>>
  IN [i \in DOMAIN list |-> IdOf(list[i])]

\* The book is a price-time priority book: what each step does to the ids and sizes
\* at every price is what some message does to such a book.
Priority == INSTANCE PriceTimeBook WITH
  queue <- [s \in Sides |-> [p \in Prices |-> IdsAt(s, p)]],
  size  <- [id \in Ids |-> IF Known(id) THEN OrderOf(id).size ELSE 0]

IsPriceTimeBook == Priority!Spec

\* A trade of n lots takes exactly what is left of n once every order with priority
\* has been exhausted, from the order it reaches, and nothing from any other.
TradesFollowPriority ==
  [][\A s \in Sides, p \in Prices, n \in Sizes :
       TradeOrder(s, p, n) => Priority!Trade(~s, p, n)]_vars
=============================================================================
