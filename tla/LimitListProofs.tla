-------------------------- MODULE LimitListProofs --------------------------
(***************************************************************************)
(* Theorems about LimitList for every set of orders and of limits: the     *)
(* pointers stay well linked, num_orders_ is the number of orders, and the *)
(* lists that the pointers make are whole, and queues.                     *)
(*                                                                         *)
(* That the links of neighbours agree (IInv) does not make a list whole: a *)
(* circle of orders that no head_ leads to has such links too.  ListInv    *)
(* says that what Path finds from head_ is a walk over just the orders of  *)
(* the limit, and every call is shown to make the walk of the next state   *)
(* out of this one's; there is only one walk, so Path finds it.            *)
(***************************************************************************)
EXTENDS LimitList, FiniteInduction

\* The orders that are on the list of l, as their parent_ says.
On(l) == {o \in Orders : parent_[o] = l}

Pointers ==
  /\ head_ \in [Limits -> Orders \cup {Null}]
  /\ tail_ \in [Limits -> Orders \cup {Null}]
  /\ next_ \in [Orders -> Orders \cup {Null}]
  /\ prev_ \in [Orders -> Orders \cup {Null}]
  /\ parent_ \in [Orders -> Limits \cup {Null}]

Counts ==
  /\ num_orders_ \in [Limits -> Nat]
  /\ \A l \in Limits : num_orders_[l] = Cardinality(On(l))

IInv == Pointers /\ WellLinked /\ Counts

LEMMA InitIInv == Init => IInv
<1> SUFFICES ASSUME Init
             PROVE  IInv
  OBVIOUS
<1>1. Pointers
  BY DEF Init, Pointers
<1>2. WellLinked
  BY ListAssumption DEF Init, WellLinked, EndsLinked, NeighboursLinked, OffListIsClear
<1>3. Counts
  <2>1. \A l \in Limits : On(l) = {}
    BY ListAssumption DEF Init, On
  <2> QED BY <2>1, FS_EmptySet DEF Init, Counts
<1> QED BY <1>1, <1>2, <1>3 DEF IInv

-----------------------------------------------------------------------------
(* add_order *)

LEMMA AddFirstKeepsLinks ==
  ASSUME Pointers, WellLinked, NEW l \in Limits, NEW o \in Orders,
         parent_[o] = Null, AddFirst(l, o), parent_' = [parent_ EXCEPT ![o] = l]
  PROVE  Pointers' /\ WellLinked'
<1> USE ListAssumption DEF Pointers, AddFirst
<1>1. Pointers'
  OBVIOUS
<1>2. EndsLinked'
  BY DEF WellLinked, EndsLinked
<1>3. NeighboursLinked'
  BY DEF WellLinked, EndsLinked, NeighboursLinked, OffListIsClear
<1>4. OffListIsClear'
  BY DEF WellLinked, OffListIsClear
<1> QED BY <1>1, <1>2, <1>3, <1>4 DEF WellLinked

LEMMA AddLastKeepsLinks ==
  ASSUME Pointers, WellLinked, NEW l \in Limits, NEW o \in Orders,
         parent_[o] = Null, AddLast(l, o), parent_' = [parent_ EXCEPT ![o] = l]
  PROVE  Pointers' /\ WellLinked'
<1> USE ListAssumption DEF Pointers, AddLast
<1>0. tail_[l] \in Orders /\ head_[l] \in Orders /\ tail_[l] # o /\ parent_[tail_[l]] = l
  BY DEF WellLinked, EndsLinked
<1>1. Pointers'
  BY <1>0
<1>2. EndsLinked'
  BY <1>0 DEF WellLinked, EndsLinked
<1>3. NeighboursLinked'
  BY <1>0 DEF WellLinked, EndsLinked, NeighboursLinked, OffListIsClear
<1>4. OffListIsClear'
  BY <1>0 DEF WellLinked, OffListIsClear
<1> QED BY <1>1, <1>2, <1>3, <1>4 DEF WellLinked

-----------------------------------------------------------------------------
(* remove_order *)

LEMMA RemoveKeepsLinks ==
  ASSUME Pointers, WellLinked, NEW o \in Orders, RemoveOrder(o)
  PROVE  Pointers' /\ WellLinked'
<1> DEFINE l == parent_[o]
<1> USE ListAssumption DEF Pointers, RemoveOrder, RemoveFrom, Unlinked
<1>0. /\ l \in Limits
      /\ head_[l] \in Orders
      /\ tail_[l] \in Orders
      /\ parent_' = [parent_ EXCEPT ![o] = Null]
  BY DEF WellLinked, EndsLinked
<1>1. CASE RemoveOnly(l, o)
  <2> USE DEF RemoveOnly
  <2>1. Pointers'
    BY <1>0, <1>1
  <2>3. EndsLinked'
    BY <1>0, <1>1 DEF WellLinked, EndsLinked
  <2>4. NeighboursLinked'
    <3>1. next_[o] = Null /\ prev_[o] = Null
      BY <1>0, <1>1 DEF WellLinked, EndsLinked, NeighboursLinked
    <3>2. ASSUME NEW q \in Orders, q # o, parent_[q] # Null
          PROVE  next_[q] # o /\ prev_[q] # o
      BY <1>0, <3>1, <3>2 DEF WellLinked, NeighboursLinked
    <3>3. /\ \A m \in Limits : m # l => head_'[m] = head_[m] /\ tail_'[m] = tail_[m]
          /\ head_'[l] = Null /\ tail_'[l] = Null
          /\ \A q \in Orders : q # o => /\ next_'[q] = next_[q]
                                       /\ prev_'[q] = prev_[q]
                                       /\ parent_'[q] = parent_[q]
          /\ parent_'[o] = Null
      BY <1>0, <1>1
    <3>4. ASSUME NEW q \in Orders, parent_'[q] # Null
          PROVE  /\ prev_'[q] = Null <=> head_'[parent_'[q]] = q
                 /\ next_'[q] = Null <=> tail_'[parent_'[q]] = q
                 /\ prev_'[q] # Null => next_'[prev_'[q]] = q /\ parent_'[prev_'[q]] = parent_'[q]
                 /\ next_'[q] # Null => prev_'[next_'[q]] = q /\ parent_'[next_'[q]] = parent_'[q]
      <4>1. q # o /\ parent_'[q] = parent_[q] /\ parent_[q] \in Limits
        BY <3>3, <3>4
      <4>2. /\ prev_[q] = Null <=> head_[parent_[q]] = q
            /\ next_[q] = Null <=> tail_[parent_[q]] = q
            /\ prev_[q] # Null => next_[prev_[q]] = q /\ parent_[prev_[q]] = parent_[q]
            /\ next_[q] # Null => prev_[next_[q]] = q /\ parent_[next_[q]] = parent_[q]
        BY <4>1, <3>4 DEF WellLinked, NeighboursLinked
      <4>3. head_[l] = o /\ tail_[l] = o
        BY <1>1
      <4> QED BY <1>0, <3>2, <3>3, <4>1, <4>2, <4>3
    <3> QED BY <3>4 DEF NeighboursLinked
  <2>5. OffListIsClear'
    BY <1>0, <1>1 DEF WellLinked, OffListIsClear
  <2> QED BY <2>1, <2>3, <2>4, <2>5 DEF WellLinked
<1>2. CASE RemoveHead(l, o)
  <2> USE DEF RemoveHead
  <2>1. next_[o] \in Orders /\ next_[o] # o /\ prev_[o] = Null
    BY <1>0, <1>2 DEF WellLinked, EndsLinked, NeighboursLinked
  <2>2. Pointers'
    BY <1>0, <1>2, <2>1
  <2>3. EndsLinked'
    BY <1>0, <1>2, <2>1 DEF WellLinked, EndsLinked, NeighboursLinked
  <2>4. NeighboursLinked'
    BY <1>0, <1>2, <2>1 DEF WellLinked, EndsLinked, NeighboursLinked
  <2>5. OffListIsClear'
    BY <1>0, <1>2, <2>1 DEF WellLinked, OffListIsClear, NeighboursLinked
  <2> QED BY <2>2, <2>3, <2>4, <2>5 DEF WellLinked
<1>3. CASE RemoveTail(l, o)
  <2> USE DEF RemoveTail
  <2>1. prev_[o] \in Orders /\ prev_[o] # o /\ next_[o] = Null
    BY <1>0, <1>3 DEF WellLinked, EndsLinked, NeighboursLinked
  <2>2. Pointers'
    BY <1>0, <1>3, <2>1
  <2>3. EndsLinked'
    BY <1>0, <1>3, <2>1 DEF WellLinked, EndsLinked, NeighboursLinked
  <2>4. NeighboursLinked'
    BY <1>0, <1>3, <2>1 DEF WellLinked, EndsLinked, NeighboursLinked
  <2>5. OffListIsClear'
    BY <1>0, <1>3, <2>1 DEF WellLinked, OffListIsClear, NeighboursLinked
  <2> QED BY <2>2, <2>3, <2>4, <2>5 DEF WellLinked
<1>4. CASE RemoveMiddle(l, o)
  <2> USE DEF RemoveMiddle
  <2>1. prev_[o] \in Orders /\ next_[o] \in Orders
    BY <1>0, <1>4 DEF WellLinked, EndsLinked, NeighboursLinked
  <2>2. Pointers'
    BY <1>0, <1>4, <2>1
  <2>3. EndsLinked'
    BY <1>0, <1>4, <2>1 DEF WellLinked, EndsLinked, NeighboursLinked
  <2>4. NeighboursLinked'
    BY <1>0, <1>4, <2>1 DEF WellLinked, EndsLinked, NeighboursLinked
  <2>5. OffListIsClear'
    BY <1>0, <1>4, <2>1 DEF WellLinked, OffListIsClear, NeighboursLinked
  <2> QED BY <2>2, <2>3, <2>4, <2>5 DEF WellLinked
<1> QED BY <1>1, <1>2, <1>3, <1>4

-----------------------------------------------------------------------------
(* num_orders_ *)

LEMMA OnIsFinite == \A l \in Limits : IsFiniteSet(On(l))
<1> TAKE l \in Limits
<1>1. On(l) \subseteq Orders
  BY DEF On
<1> QED BY <1>1, ListAssumption, FS_Subset

LEMMA AddCounts ==
  ASSUME Pointers, Counts, NEW l \in Limits, NEW o \in Orders, AddOrder(l, o)
  PROVE  Counts'
<1>1. /\ num_orders_' = [num_orders_ EXCEPT ![l] = num_orders_[l] + 1]
      /\ parent_[o] = Null
      /\ parent_' = [parent_ EXCEPT ![o] = l]
  BY DEF AddOrder
<1>2. o \notin On(l) /\ On(l)' = On(l) \cup {o}
  BY <1>1, ListAssumption DEF On, Pointers
<1>3. \A m \in Limits \ {l} : On(m)' = On(m)
  BY <1>1, ListAssumption DEF On, Pointers
<1>4. Cardinality(On(l)') = Cardinality(On(l)) + 1
  BY <1>2, OnIsFinite, FS_AddElement
<1>5. num_orders_' \in [Limits -> Nat]
  BY <1>1 DEF Counts
<1>6. ASSUME NEW m \in Limits
      PROVE  num_orders_'[m] = Cardinality(On(m)')
  BY <1>1, <1>3, <1>4 DEF Counts
<1> QED BY <1>5, <1>6 DEF Counts

LEMMA RemoveCounts ==
  ASSUME Pointers, Counts, NEW o \in Orders, RemoveOrder(o)
  PROVE  Counts'
<1>1. PICK l \in Limits : parent_[o] = l
  BY DEF RemoveOrder, Pointers
<1>2. /\ num_orders_' = [num_orders_ EXCEPT ![l] = num_orders_[l] - 1]
      /\ parent_' = [parent_ EXCEPT ![o] = Null]
  BY <1>1 DEF RemoveOrder, RemoveFrom, Unlinked
<1>3. o \in On(l) /\ On(l)' = On(l) \ {o}
  BY <1>1, <1>2, ListAssumption DEF On, Pointers
<1>4. \A m \in Limits \ {l} : On(m)' = On(m)
  BY <1>1, <1>2, ListAssumption DEF On, Pointers
<1>5. /\ Cardinality(On(l)') = Cardinality(On(l)) - 1
      /\ Cardinality(On(l)') \in Nat
  BY <1>3, OnIsFinite, FS_RemoveElement, FS_CardinalityType
<1>6. num_orders_' \in [Limits -> Nat]
  BY <1>2, <1>5 DEF Counts
<1>7. ASSUME NEW m \in Limits
      PROVE  num_orders_'[m] = Cardinality(On(m)')
  BY <1>2, <1>4, <1>5 DEF Counts
<1> QED BY <1>6, <1>7 DEF Counts

-----------------------------------------------------------------------------
LEMMA NextIInv == IInv /\ [Next]_vars => IInv'
<1> SUFFICES ASSUME IInv, [Next]_vars
             PROVE  IInv'
  OBVIOUS
<1> USE DEF IInv
<1>1. ASSUME NEW l \in Limits, NEW o \in Orders, AddOrder(l, o)
      PROVE  IInv'
  BY <1>1, AddFirstKeepsLinks, AddLastKeepsLinks, AddCounts DEF AddOrder
<1>2. ASSUME NEW o \in Orders, RemoveOrder(o)
      PROVE  IInv'
  BY <1>2, RemoveKeepsLinks, RemoveCounts
<1>3. CASE UNCHANGED vars
  BY <1>3 DEF vars, Pointers, WellLinked, EndsLinked, NeighboursLinked, OffListIsClear,
     Counts, On
<1> QED BY <1>1, <1>2, <1>3 DEF Next

\* Every pointer is null or points to an object, and num_orders_ never wraps.
THEOREM TypeCorrect == Spec => []TypeOK
<1>1. IInv => TypeOK
  BY DEF IInv, Pointers, Counts, TypeOK
<1> QED BY InitIInv, NextIInv, <1>1, PTL DEF Spec

\* add_order and remove_order keep next_ and prev_ inverse to each other and inside
\* one list, head_ and tail_ at its ends, and leave no link on an order they remove.
THEOREM LinksCorrect == Spec => []WellLinked
<1>1. IInv => WellLinked
  BY DEF IInv
<1> QED BY InitIInv, NextIInv, <1>1, PTL DEF Spec

\* num_orders_ is the number of orders whose parent_ is the limit.
THEOREM CountCorrect == Spec => [](\A l \in Limits : num_orders_[l] = Cardinality(On(l)))
<1>1. IInv => \A l \in Limits : num_orders_[l] = Cardinality(On(l))
  BY DEF IInv, Counts
<1> QED BY InitIInv, NextIInv, <1>1, PTL DEF Spec

-----------------------------------------------------------------------------
(* The lists. *)

\* What a pointer to the i-th order of a list is: null past its ends.
At(q, i) == IF i \in 1 .. Len(q) THEN q[i] ELSE Null

\* q is a walk along link from start: once over every order that it meets.
IsWalk(q, start, link) ==
  /\ q \in Seq(Orders)
  /\ \A i, j \in 1 .. Len(q) : q[i] = q[j] => i = j
  /\ start = At(q, 1)
  /\ \A i \in 1 .. Len(q) : link[q[i]] = At(q, i + 1)

\* One step of the recursion that defines Path, where at are the steps that are known.
NextAt(at, start, link, i) ==
  IF i = 1 THEN start ELSE IF at[i - 1] = Null THEN Null ELSE link[at[i - 1]]

\* A walk meets no more orders than there are.
LEMMA WalkIsShort ==
  ASSUME NEW q \in Seq(Orders), \A i, j \in 1 .. Len(q) : q[i] = q[j] => i = j
  PROVE  /\ Len(q) \in Nat /\ Cardinality(Orders) \in Nat
         /\ Len(q) <= Cardinality(Orders)
<1> DEFINE n == Len(q)
<1>1. n \in Nat /\ q \in [1 .. n -> Orders]
  BY LenProperties
<1>2. q \in Injection(1 .. n, Orders)
  BY <1>1 DEF Injection, IsInjective
<1>3. Cardinality(1 .. n) = n
  <2>1. Cardinality(1 .. n) = IF 1 > n THEN 0 ELSE n - 1 + 1
    BY <1>1, FS_Interval
  <2> QED BY <1>1, <2>1
<1>4. Cardinality(1 .. n) <= Cardinality(Orders)
  BY <1>2, ListAssumption, FS_Injection
<1> QED BY <1>1, <1>3, <1>4, ListAssumption, FS_CardinalityType

\* Path finds the walk that there is.
LEMMA PathIsWalk ==
  ASSUME NEW q, NEW start, NEW link, IsWalk(q, start, link)
  PROVE  Path(start, link) = q
<1> DEFINE n == Len(q)
           N == Cardinality(Orders) + 1
           at == CHOOSE at : at = [i \in 1 .. N |-> NextAt(at, start, link, i)]
           g == [i \in 1 .. N |-> At(q, i)]
<1>1. /\ n \in Nat /\ N \in Nat /\ n < N
      /\ q \in [1 .. n -> Orders] /\ Null \notin Orders
  BY WalkIsShort, LenProperties, ListAssumption DEF IsWalk
<1>2. Path(start, link) = [i \in 1 .. Cardinality({i \in 1 .. N : at[i] # Null}) |-> at[i]]
  BY DEF Path, NextAt
<1>3. start = At(q, 1) /\ \A i \in 1 .. n : link[q[i]] = At(q, i + 1)
  BY DEF IsWalk
<1> HIDE DEF n, N
<1>4. \A i \in 1 .. N : At(q, i) = IF i <= n THEN q[i] ELSE Null
  BY <1>1 DEF At, n
<1>5. ASSUME NEW i \in 1 .. N PROVE g[i] = NextAt(g, start, link, i)
  <2>1. CASE i = 1
    BY <1>3, <2>1 DEF NextAt
  <2>2. CASE i # 1 /\ i - 1 <= n
    <3>1. i - 1 \in 1 .. N /\ i - 1 \in 1 .. n /\ (i - 1) + 1 = i
      BY <1>1, <2>2
    <3>2. g[i - 1] = q[i - 1] /\ q[i - 1] # Null
      BY <1>1, <1>4, <3>1, <2>2
    <3>3. link[q[i - 1]] = At(q, i)
      BY <1>3, <3>1
    <3> QED BY <2>2, <3>2, <3>3 DEF NextAt
  <2>3. CASE i # 1 /\ ~(i - 1 <= n)
    <3>1. i - 1 \in 1 .. N /\ ~(i <= n)
      BY <1>1, <2>3
    <3>2. g[i - 1] = Null /\ g[i] = Null
      BY <1>4, <2>3, <3>1
    <3> QED BY <2>3, <3>2 DEF NextAt
  <2> QED BY <2>1, <2>2, <2>3
<1>6. g = [i \in 1 .. N |-> NextAt(g, start, link, i)]
  <2> HIDE DEF g
  <2>1. DOMAIN g = 1 .. N /\ g = [i \in 1 .. N |-> g[i]]
    BY DEF g
  <2> QED BY <1>5, <2>1
<1>7. at = [i \in 1 .. N |-> NextAt(at, start, link, i)]
  <2> HIDE DEF g
  <2> QED BY <1>6
<1> HIDE DEF at
<1> DEFINE Differ == {i \in 1 .. N : at[i] # g[i]}
<1>8. Differ = {}
  <2> SUFFICES ASSUME Differ # {} PROVE FALSE
    OBVIOUS
  <2>1. Differ \subseteq Nat
    BY <1>1
  <2>2. PICK i \in Differ : \A j \in Differ : i <= j
    <3> HIDE DEF Differ
    <3> QED BY <2>1, LeastNumberExists
  <2>3. i \in 1 .. N /\ at[i] # g[i]
    OBVIOUS
  <2>4. at[i] = NextAt(at, start, link, i) /\ g[i] = NextAt(g, start, link, i)
    <3> HIDE DEF g, Differ
    <3> QED BY <1>5, <1>7, <2>3
  <2>5. i # 1
    BY <2>3, <2>4 DEF NextAt
  <2>6. i - 1 \in 1 .. N /\ ~(i <= i - 1)
    BY <1>1, <2>3, <2>5
  <2>7. at[i - 1] = g[i - 1]
    <3> HIDE DEF g
    <3> QED BY <2>2, <2>6
  <2> HIDE DEF g
  <2> QED BY <2>3, <2>4, <2>5, <2>7 DEF NextAt
<1>9. \A i \in 1 .. N : at[i] = IF i <= n THEN q[i] ELSE Null
  BY <1>4, <1>8
<1>10. {i \in 1 .. N : at[i] # Null} = 1 .. n
  BY <1>1, <1>9
<1>11. Cardinality(1 .. n) = n
  <2>1. Cardinality(1 .. n) = IF 1 > n THEN 0 ELSE n - 1 + 1
    BY <1>1, FS_Interval
  <2> QED BY <1>1, <2>1
<1>12. Path(start, link) = [i \in 1 .. n |-> q[i]]
  <2>1. \A i \in 1 .. n : at[i] = q[i]
    BY <1>1, <1>9
  <2> QED BY <1>2, <1>10, <1>11, <2>1
<1> QED BY <1>1, <1>12

-----------------------------------------------------------------------------
(* The lists as sequences.                                                 *)

\* q is the list with those ends and links over the orders in on.
IsList(q, head, tail, next, prev, on) ==
  /\ IsWalk(q, head, next)
  /\ tail = At(q, Len(q))
  /\ \A i \in 1 .. Len(q) : prev[q[i]] = At(q, i - 1)
  /\ \A o \in Orders : o \in on <=> \E i \in 1 .. Len(q) : q[i] = o

ListInv == \A l \in Limits : IsList(List(l), head_[l], tail_[l], next_, prev_, On(l))

\* A call that leaves the links of a list's orders alone leaves the list alone.
LEMMA SameList ==
  ASSUME NEW q, NEW head, NEW tail, NEW next, NEW prev, NEW on, NEW next2, NEW prev2,
         IsList(q, head, tail, next, prev, on),
         \A x \in Orders : x \in on => next2[x] = next[x] /\ prev2[x] = prev[x]
  PROVE  IsList(q, head, tail, next2, prev2, on)
<1>1. \A i \in 1 .. Len(q) : q[i] \in Orders /\ q[i] \in on
  BY DEF IsList, IsWalk
<1>2. \A i \in 1 .. Len(q) : next2[q[i]] = next[q[i]] /\ prev2[q[i]] = prev[q[i]]
  BY <1>1
<1> QED BY <1>2 DEF IsList, IsWalk

\* An order that the tail is linked to and that becomes the tail joins at the end.
LEMMA JoinList ==
  ASSUME NEW q, NEW head, NEW tail, NEW next, NEW prev, NEW on, NEW o \in Orders,
         NEW head2, NEW next2, NEW prev2,
         IsList(q, head, tail, next, prev, on), o \notin on,
         next2[o] = Null, prev2[o] = tail,
         tail = Null => head2 = o,
         tail # Null => head2 = head /\ next2[tail] = o,
         \A x \in Orders : x # o /\ x # tail => next2[x] = next[x],
         \A x \in Orders : x # o => prev2[x] = prev[x]
  PROVE  IsList(Append(q, o), head2, o, next2, prev2, on \cup {o})
<1> DEFINE n == Len(q)
           longer == Append(q, o)
<1>1. /\ n \in Nat /\ q \in Seq(Orders) /\ longer \in Seq(Orders) /\ Len(longer) = n + 1
      /\ \A i \in 1 .. n : q[i] \in Orders /\ longer[i] = q[i] /\ q[i] # o
      /\ longer[n + 1] = o /\ Null \notin Orders
  <2>1. q \in Seq(Orders)
    BY DEF IsList, IsWalk
  <2>2. \A i \in 1 .. n : q[i] \in Orders /\ q[i] # o
    BY <2>1 DEF IsList
  <2> QED BY <2>1, <2>2, AppendProperties, LenProperties, ListAssumption
<1>2. /\ \A i, j \in 1 .. n : q[i] = q[j] => i = j
      /\ head = At(q, 1) /\ tail = At(q, n)
      /\ \A i \in 1 .. n : next[q[i]] = At(q, i + 1) /\ prev[q[i]] = At(q, i - 1)
      /\ \A x \in Orders : x \in on <=> \E i \in 1 .. n : q[i] = x
  BY DEF IsList, IsWalk
<1>3. /\ \A i \in Int : At(q, i) = IF i \in 1 .. n THEN q[i] ELSE Null
      /\ \A i \in Int : At(longer, i) = IF i \in 1 .. n THEN q[i] ELSE IF i = n + 1 THEN o ELSE Null
  BY <1>1 DEF At
<1> HIDE DEF n, longer
<1>4. (tail = Null <=> n = 0) /\ (n # 0 => tail = q[n] /\ n \in 1 .. n)
  BY <1>1, <1>2, <1>3
<1>5. \A i, j \in 1 .. n + 1 : longer[i] = longer[j] => i = j
  <2> SUFFICES ASSUME NEW i \in 1 .. n + 1, NEW j \in 1 .. n + 1, longer[i] = longer[j] PROVE i = j
    OBVIOUS
  <2>1. CASE i = n + 1 \/ j = n + 1
    BY <1>1, <2>1
  <2>2. CASE i # n + 1 /\ j # n + 1
    <3>1. i \in 1 .. n /\ j \in 1 .. n
      BY <1>1, <2>2
    <3> QED BY <1>1, <1>2, <3>1
  <2> QED BY <2>1, <2>2
<1>6. head2 = At(longer, 1)
  <2>1. CASE n = 0
    BY <1>1, <1>3, <1>4, <2>1
  <2>2. CASE n # 0
    <3>1. 1 \in 1 .. n
      BY <1>1, <2>2
    <3> QED BY <1>2, <1>3, <1>4, <2>2, <3>1
  <2> QED BY <2>1, <2>2
<1>7. ASSUME NEW i \in 1 .. n + 1 PROVE next2[longer[i]] = At(longer, i + 1)
  <2>1. CASE i = n + 1
    BY <1>1, <1>3, <2>1
  <2>2. CASE i = n
    BY <1>1, <1>3, <1>4, <2>2
  <2>3. CASE i \in 1 .. n - 1
    <3>1. i \in 1 .. n /\ i + 1 \in 1 .. n /\ n \in 1 .. n /\ i # n
      BY <1>1, <2>3
    <3>2. q[i] # o /\ q[i] # tail /\ q[i] \in Orders
      BY <1>1, <1>2, <1>4, <3>1
    <3>3. next2[q[i]] = next[q[i]] /\ longer[i] = q[i]
      BY <1>1, <3>1, <3>2
    <3>4. next[q[i]] = q[i + 1] /\ At(longer, i + 1) = q[i + 1]
      BY <1>2, <1>3, <3>1
    <3> QED BY <3>3, <3>4
  <2> QED BY <1>1, <2>1, <2>2, <2>3
<1>8. ASSUME NEW i \in 1 .. n + 1 PROVE prev2[longer[i]] = At(longer, i - 1)
  <2>1. CASE i = n + 1
    <3>1. At(longer, i - 1) = At(q, n)
      BY <1>1, <1>3, <2>1
    <3> QED BY <1>1, <1>2, <2>1, <3>1
  <2>2. CASE i \in 1 .. n
    <3>1. prev2[q[i]] = At(q, i - 1)
      BY <1>1, <1>2, <2>2
    <3>2. At(longer, i - 1) = At(q, i - 1)
      BY <1>1, <1>3, <2>2
    <3> QED BY <1>1, <2>2, <3>1, <3>2
  <2> QED BY <1>1, <2>1, <2>2
<1>9. \A x \in Orders : x \in on \cup {o} <=> \E i \in 1 .. n + 1 : longer[i] = x
  <2> SUFFICES ASSUME NEW x \in Orders PROVE x \in on \cup {o} <=> \E i \in 1 .. n + 1 : longer[i] = x
    OBVIOUS
  <2>1. ASSUME x \in on PROVE \E i \in 1 .. n + 1 : longer[i] = x
    <3>1. PICK i \in 1 .. n : q[i] = x
      BY <1>2, <2>1
    <3> QED BY <1>1, <3>1
  <2>2. ASSUME NEW i \in 1 .. n + 1, longer[i] = x PROVE x \in on \cup {o}
    BY <1>1, <1>2, <2>2
  <2>3. n + 1 \in 1 .. n + 1
    BY <1>1
  <2> QED BY <1>1, <2>1, <2>2, <2>3
<1>10. o = At(longer, n + 1)
  BY <1>1, <1>3
<1>11. IsWalk(longer, head2, next2)
  BY <1>1, <1>5, <1>6, <1>7 DEF IsWalk
<1>12. IsList(longer, head2, o, next2, prev2, on \cup {o})
  BY <1>1, <1>8, <1>9, <1>10, <1>11 DEF IsList
<1> QED BY <1>12 DEF longer

\* o's neighbours are linked to each other, or become the ends, and the links of the
\* other orders on the list stay.
SplicedOut(o, head, tail, next, prev, on, head2, tail2, next2, prev2) ==
  /\ head2 = IF head = o THEN next[o] ELSE head
  /\ tail2 = IF tail = o THEN prev[o] ELSE tail
  /\ \A x \in Orders : x # o /\ x \in on =>
        /\ next2[x] = IF x = prev[o] THEN next[o] ELSE next[x]
        /\ prev2[x] = IF x = next[o] THEN prev[o] ELSE prev[x]

\* An order that is spliced out leaves the list.
LEMMA LeaveList ==
  ASSUME NEW q, NEW head, NEW tail, NEW next, NEW prev, NEW on, NEW i \in 1 .. Len(q),
         NEW head2, NEW tail2, NEW next2, NEW prev2,
         IsList(q, head, tail, next, prev, on),
         SplicedOut(q[i], head, tail, next, prev, on, head2, tail2, next2, prev2)
  PROVE  IsList(RemoveAt(q, i), head2, tail2, next2, prev2, on \ {q[i]})
<1> DEFINE n == Len(q)
           left == RemoveAt(q, i)
<1>1. /\ n \in Nat /\ q \in Seq(Orders) /\ left \in Seq(Orders) /\ Len(left) = n - 1
      /\ \A j \in 1 .. n : q[j] \in Orders
      /\ \A j \in 1 .. n - 1 : left[j] = IF j < i THEN q[j] ELSE q[j + 1]
      /\ Null \notin Orders /\ i \in 1 .. n
  <2>1. q \in Seq(Orders)
    BY DEF IsList, IsWalk
  <2>2. /\ left \in Seq(Orders) /\ Len(left) = n - 1
        /\ \A j \in 1 .. n - 1 : left[j] = IF j < i THEN q[j] ELSE q[j + 1]
    BY <2>1, RemoveAtElements
  <2> QED BY <2>1, <2>2, ListAssumption
<1>2. /\ \A j, k \in 1 .. n : q[j] = q[k] => j = k
      /\ head = At(q, 1) /\ tail = At(q, n)
      /\ \A j \in 1 .. n : next[q[j]] = At(q, j + 1) /\ prev[q[j]] = At(q, j - 1)
      /\ \A x \in Orders : x \in on <=> \E j \in 1 .. n : q[j] = x
  BY DEF IsList, IsWalk
<1>2a. /\ head2 = IF head = q[i] THEN next[q[i]] ELSE head
       /\ tail2 = IF tail = q[i] THEN prev[q[i]] ELSE tail
       /\ \A x \in Orders : x # q[i] /\ x \in on =>
             /\ next2[x] = IF x = prev[q[i]] THEN next[q[i]] ELSE next[x]
             /\ prev2[x] = IF x = next[q[i]] THEN prev[q[i]] ELSE prev[x]
  BY DEF SplicedOut
<1>3. /\ \A j \in Int : At(q, j) = IF j \in 1 .. n THEN q[j] ELSE Null
      /\ \A j \in Int : At(left, j) = IF j \in 1 .. n - 1 THEN left[j] ELSE Null
  BY <1>1 DEF At
<1> HIDE DEF n, left
\* Where an order of the shorter list was.
<1> DEFINE old(j) == IF j < i THEN j ELSE j + 1
<1>4. \A j \in Int : /\ old(j) \in Int /\ old(j) # i
                     /\ j \in 1 .. n - 1 <=> old(j) \in 1 .. n /\ j # 0
                     /\ j \in 1 .. n - 1 => left[j] = q[old(j)]
  BY <1>1
<1>5. \A j, k \in Int : old(j) = old(k) => j = k
  OBVIOUS
<1>6. \A j \in 1 .. n - 1 : /\ left[j] = q[old(j)] /\ old(j) \in 1 .. n /\ old(j) # i /\ j \in Int
                            /\ q[old(j)] # q[i] /\ q[old(j)] \in Orders /\ q[old(j)] \in on
  <2> SUFFICES ASSUME NEW j \in 1 .. n - 1
               PROVE  /\ left[j] = q[old(j)] /\ old(j) \in 1 .. n /\ old(j) # i /\ j \in Int
                      /\ q[old(j)] # q[i] /\ q[old(j)] \in Orders /\ q[old(j)] \in on
    OBVIOUS
  <2>1. j \in Int /\ left[j] = q[old(j)] /\ old(j) \in 1 .. n /\ old(j) # i
    BY <1>1, <1>4
  <2> HIDE DEF old
  <2> QED BY <1>1, <1>2, <2>1
<1>7. \A j, k \in 1 .. n - 1 : left[j] = left[k] => j = k
  <2> SUFFICES ASSUME NEW j \in 1 .. n - 1, NEW k \in 1 .. n - 1, left[j] = left[k] PROVE j = k
    OBVIOUS
  <2>1. old(j) = old(k)
    <3> HIDE DEF old
    <3> QED BY <1>2, <1>6, SMTT(30)
  <2> QED BY <1>5, <2>1
<1>8. \A x \in Orders : x \in on \ {q[i]} <=> \E j \in 1 .. n - 1 : left[j] = x
  <2> SUFFICES ASSUME NEW x \in Orders PROVE x \in on \ {q[i]} <=> \E j \in 1 .. n - 1 : left[j] = x
    OBVIOUS
  <2>1. ASSUME x \in on, x # q[i] PROVE \E j \in 1 .. n - 1 : left[j] = x
    <3>1. PICK k \in 1 .. n : q[k] = x
      BY <1>2, <2>1
    <3>2. CASE k < i
      <4>1. k \in 1 .. n - 1 /\ old(k) = k
        BY <1>1, <3>2
      <4> QED BY <1>6, <3>1, <4>1
    <3>3. CASE ~(k < i)
      <4>1. k - 1 \in 1 .. n - 1 /\ old(k - 1) = k
        BY <1>1, <2>1, <3>1, <3>3
      <4> QED BY <1>6, <3>1, <4>1
    <3> QED BY <3>2, <3>3
  <2>2. ASSUME NEW j \in 1 .. n - 1, left[j] = x PROVE x \in on \ {q[i]}
    <3> HIDE DEF old
    <3> QED BY <1>6, <2>2
  <2> QED BY <2>1, <2>2
<1>9. head2 = At(left, 1)
  <2>1. CASE i = 1
    <3>1. head = q[i]
      BY <1>1, <1>2, <1>3, <2>1
    <3>2. head2 = At(q, 2)
      BY <1>1, <1>2, <1>2a, <2>1, <3>1
    <3> QED BY <1>1, <1>3, <2>1, <3>2
  <2>2. CASE i # 1
    <3>1. 1 \in 1 .. n /\ 1 \in 1 .. n - 1 /\ 1 < i
      BY <1>1, <2>2
    <3>2. head = q[1] /\ head # q[i]
      BY <1>1, <1>2, <1>3, <2>2, <3>1
    <3> QED BY <1>1, <1>2a, <1>3, <3>1, <3>2
  <2> QED BY <2>1, <2>2
<1>10. tail2 = At(left, n - 1)
  <2>1. CASE i = n
    <3>1. tail = q[i]
      BY <1>1, <1>2, <1>3, <2>1
    <3>2. tail2 = At(q, n - 1)
      BY <1>1, <1>2, <1>2a, <2>1, <3>1
    <3> QED BY <1>1, <1>3, <2>1, <3>2
  <2>2. CASE i # n
    <3>1. n \in 1 .. n /\ n - 1 \in 1 .. n - 1 /\ ~(n - 1 < i) /\ (n - 1) + 1 = n
      BY <1>1, <2>2
    <3>2. tail = q[n] /\ tail # q[i]
      BY <1>1, <1>2, <1>3, <2>2, <3>1, SMTT(30)
    <3> QED BY <1>1, <1>2a, <1>3, <3>1, <3>2
  <2> QED BY <2>1, <2>2
<1>11. ASSUME NEW j \in 1 .. n - 1
       PROVE  next2[left[j]] = At(left, j + 1) /\ prev2[left[j]] = At(left, j - 1)
  <2> DEFINE k == old(j)
  <2>1. /\ left[j] = q[k] /\ k \in 1 .. n /\ k # i /\ q[k] # q[i] /\ q[k] \in Orders /\ q[k] \in on
    <3> HIDE DEF old
    <3> QED BY <1>6
  <2>2. /\ next[q[k]] = At(q, k + 1) /\ prev[q[k]] = At(q, k - 1)
        /\ next[q[i]] = At(q, i + 1) /\ prev[q[i]] = At(q, i - 1)
    <3> HIDE DEF k
    <3> QED BY <1>1, <1>2, <2>1
  <2>3. q[k] = prev[q[i]] <=> k = i - 1
    <3> HIDE DEF k
    <3>1. k = i - 1 => q[k] = prev[q[i]]
      BY <1>1, <1>3, <2>1, <2>2
    <3>2. q[k] = prev[q[i]] => k = i - 1
      <4>1. CASE i = 1
        BY <1>1, <1>3, <2>1, <2>2, <4>1
      <4>2. CASE i # 1
        <5>1. i - 1 \in 1 .. n /\ prev[q[i]] = q[i - 1]
          BY <1>1, <1>3, <2>2, <4>2
        <5> QED BY <1>2, <2>1, <5>1
      <4> QED BY <4>1, <4>2
    <3> QED BY <3>1, <3>2
  <2>4. q[k] = next[q[i]] <=> k = i + 1
    <3> HIDE DEF k
    <3>1. k = i + 1 => q[k] = next[q[i]]
      BY <1>1, <1>3, <2>1, <2>2
    <3>2. q[k] = next[q[i]] => k = i + 1
      <4>1. CASE i = n
        BY <1>1, <1>3, <2>1, <2>2, <4>1
      <4>2. CASE i # n
        <5>1. i + 1 \in 1 .. n /\ next[q[i]] = q[i + 1]
          BY <1>1, <1>3, <2>2, <4>2
        <5> QED BY <1>2, <2>1, <5>1
      <4> QED BY <4>1, <4>2
    <3> QED BY <3>1, <3>2
  <2>5. next2[q[k]] = IF k = i - 1 THEN At(q, i + 1) ELSE At(q, k + 1)
    <3> HIDE DEF k
    <3> QED BY <1>2a, <2>1, <2>2, <2>3
  <2>6. prev2[q[k]] = IF k = i + 1 THEN At(q, i - 1) ELSE At(q, k - 1)
    <3> HIDE DEF k
    <3> QED BY <1>2a, <2>1, <2>2, <2>4
  <2>7. At(left, j + 1) = IF k = i - 1 THEN At(q, i + 1) ELSE At(q, k + 1)
    <3>1. CASE j < i - 1
      <4>1. j + 1 \in 1 .. n - 1 /\ j + 1 < i /\ k = j /\ k # i - 1 /\ j + 1 \in 1 .. n
        BY <1>1, <3>1
      <4> HIDE DEF k
      <4>2. At(left, j + 1) = q[j + 1] /\ At(q, j + 1) = q[j + 1]
        BY <1>1, <1>3, <4>1
      <4> QED BY <4>1, <4>2
    <3>2. CASE j = i - 1
      <4>1. k = i - 1 /\ j + 1 = i /\ i \in Int /\ i + 1 \in Int
            /\ (i \in 1 .. n - 1 <=> i + 1 \in 1 .. n) /\ ~(i < i)
        BY <1>1, <3>2
      <4> HIDE DEF k
      <4>2. CASE i \in 1 .. n - 1
        BY <1>1, <1>3, <4>1, <4>2
      <4>3. CASE i \notin 1 .. n - 1
        BY <1>3, <4>1, <4>3
      <4> QED BY <4>2, <4>3
    <3>3. CASE j > i - 1
      <4>1. k = j + 1 /\ k # i - 1 /\ ~(j + 1 < i) /\ j + 1 \in Int /\ k + 1 \in Int
            /\ (j + 1 \in 1 .. n - 1 <=> k + 1 \in 1 .. n) /\ (j + 1) + 1 = k + 1
        BY <1>1, <3>3
      <4> HIDE DEF k
      <4>2. CASE j + 1 \in 1 .. n - 1
        BY <1>1, <1>3, <4>1, <4>2
      <4>3. CASE j + 1 \notin 1 .. n - 1
        BY <1>3, <4>1, <4>3
      <4> QED BY <4>2, <4>3
    <3> QED BY <1>1, <3>1, <3>2, <3>3
  <2>8. At(left, j - 1) = IF k = i + 1 THEN At(q, i - 1) ELSE At(q, k - 1)
    <3>1. CASE j < i
      BY <1>1, <1>3, <3>1
    <3>2. CASE j = i
      BY <1>1, <1>3, <3>2
    <3>3. CASE j > i
      <4>1. /\ k = j + 1 /\ k # i + 1 /\ ~(j - 1 < i) /\ j - 1 \in 1 .. n - 1
            /\ (j - 1) + 1 = k - 1 /\ k - 1 \in 1 .. n /\ j - 1 \in Int /\ k - 1 \in Int
        BY <1>1, <3>3
      <4> HIDE DEF k
      <4>2. At(left, j - 1) = left[j - 1] /\ At(q, k - 1) = q[k - 1]
        BY <1>3, <4>1
      <4>3. left[j - 1] = q[k - 1]
        BY <1>1, <4>1
      <4> QED BY <4>1, <4>2, <4>3
    <3> QED BY <1>1, <3>1, <3>2, <3>3
  <2> HIDE DEF k
  <2> QED BY <2>1, <2>5, <2>6, <2>7, <2>8
<1> HIDE DEF old
<1> QED BY <1>1, <1>7, <1>8, <1>9, <1>10, <1>11 DEF IsList, IsWalk, left

\* The lists of the limits that a call is not about stay as they are.
LEMMA OthersKeep ==
  ASSUME ListInv, NEW l \in Limits,
         \A m \in Limits : m # l =>
           /\ head_'[m] = head_[m] /\ tail_'[m] = tail_[m] /\ On(m)' = On(m)
           /\ \A x \in Orders : x \in On(m) => next_'[x] = next_[x] /\ prev_'[x] = prev_[x]
  PROVE  \A m \in Limits : m # l =>
           /\ List(m)' = List(m)
           /\ IsList(List(m)', head_'[m], tail_'[m], next_', prev_', On(m)')
<1> SUFFICES ASSUME NEW m \in Limits, m # l
             PROVE  /\ List(m)' = List(m)
                    /\ IsList(List(m)', head_'[m], tail_'[m], next_', prev_', On(m)')
  OBVIOUS
<1> DEFINE q == List(m)
           on == On(m)
<1>1. IsList(q, head_[m], tail_[m], next_, prev_, on)
  BY DEF ListInv
<1>2. /\ head_'[m] = head_[m] /\ tail_'[m] = tail_[m] /\ on' = on
      /\ \A x \in Orders : x \in on => next_'[x] = next_[x] /\ prev_'[x] = prev_[x]
  OBVIOUS
<1> HIDE DEF q, on
<1>3. IsList(q, head_[m], tail_[m], next_', prev_', on)
  BY <1>1, <1>2, SameList
<1>4. Path(head_'[m], next_') = q
  BY <1>2, <1>3, PathIsWalk DEF IsList
<1>5. List(m)' = q
  BY <1>4 DEF List
<1> QED BY <1>2, <1>3, <1>5 DEF q, on

\* add_order: the order joins at the end.
LEMMA AddJoins ==
  ASSUME IInv, ListInv, NEW l \in Limits, NEW o \in Orders, AddOrder(l, o)
  PROVE  /\ ListInv'
         /\ List(l)' = Append(List(l), o)
         /\ \A m \in Limits : m # l => List(m)' = List(m)
<1> DEFINE q == List(l)
           on == On(l)
<1>1. /\ Pointers /\ WellLinked /\ parent_[o] = Null /\ Null \notin Orders /\ Null \notin Limits
      /\ parent_' = [parent_ EXCEPT ![o] = l]
      /\ AddFirst(l, o) \/ AddLast(l, o)
  BY ListAssumption DEF IInv, AddOrder
<1>2. /\ o \notin on /\ on' = on \cup {o}
      /\ \A m \in Limits : m # l => On(m)' = On(m) /\ o \notin On(m)
  BY <1>1 DEF On, Pointers
<1>3. /\ head_[l] = Null <=> tail_[l] = Null
      /\ tail_[l] # Null => tail_[l] \in Orders /\ parent_[tail_[l]] = l
      /\ next_[o] = Null /\ prev_[o] = Null /\ tail_[l] # o
  BY <1>1 DEF WellLinked, EndsLinked, OffListIsClear, Pointers
<1>4. /\ next_'[o] = Null /\ prev_'[o] = tail_[l] /\ tail_'[l] = o
      /\ tail_[l] = Null => head_'[l] = o
      /\ tail_[l] # Null => head_'[l] = head_[l] /\ next_'[tail_[l]] = o
      /\ \A x \in Orders : x # o /\ x # tail_[l] => next_'[x] = next_[x]
      /\ \A x \in Orders : x # o => prev_'[x] = prev_[x]
      /\ \A m \in Limits : m # l => head_'[m] = head_[m] /\ tail_'[m] = tail_[m]
  <2>1. CASE AddFirst(l, o)
    BY <1>1, <1>3, <2>1 DEF AddFirst, Pointers
  <2>2. CASE AddLast(l, o)
    BY <1>1, <1>3, <2>2 DEF AddLast, Pointers
  <2> QED BY <1>1, <2>1, <2>2
<1>5. IsList(q, head_[l], tail_[l], next_, prev_, on)
  BY DEF ListInv
<1>6. \A m \in Limits : m # l =>
        /\ List(m)' = List(m)
        /\ IsList(List(m)', head_'[m], tail_'[m], next_', prev_', On(m)')
  <2>1. ASSUME NEW m \in Limits, m # l, NEW x \in Orders, x \in On(m)
        PROVE  next_'[x] = next_[x] /\ prev_'[x] = prev_[x]
    <3>1. x # o /\ x # tail_[l]
      BY <1>1, <1>2, <1>3, <2>1 DEF On
    <3> QED BY <1>4, <3>1
  <2> QED BY <1>2, <1>4, <2>1, OthersKeep
<1> HIDE DEF q, on
<1>7. IsList(Append(q, o), head_'[l], o, next_', prev_', on \cup {o})
  BY <1>2, <1>4, <1>5, JoinList
<1>8. Path(head_'[l], next_') = Append(q, o)
  BY <1>7, PathIsWalk DEF IsList
<1>9. List(l)' = Append(q, o)
  BY <1>8 DEF List
<1>10. IsList(List(l)', head_'[l], tail_'[l], next_', prev_', On(l)')
  BY <1>2, <1>4, <1>7, <1>9 DEF on
<1>11. ListInv'
  BY <1>6, <1>10 DEF ListInv
<1> QED BY <1>6, <1>9, <1>11 DEF q

\* remove_order: the order leaves from wherever it is.
LEMMA RemoveLeaves ==
  ASSUME IInv, ListInv, NEW o \in Orders, RemoveOrder(o)
  PROVE  /\ ListInv'
         /\ \E l \in Limits : \E i \in 1 .. Len(List(l)) :
              /\ List(l)[i] = o
              /\ List(l)' = RemoveAt(List(l), i)
              /\ \A m \in Limits : m # l => List(m)' = List(m)
<1>0. PICK l \in Limits : parent_[o] = l
  BY DEF IInv, Pointers, RemoveOrder
<1> DEFINE q == List(l)
           on == On(l)
           n == next_[o]
           p == prev_[o]
<1>1. /\ Pointers /\ WellLinked /\ Null \notin Orders /\ Null \notin Limits
      /\ parent_' = [parent_ EXCEPT ![o] = Null]
      /\ RemoveOnly(l, o) \/ RemoveHead(l, o) \/ RemoveTail(l, o) \/ RemoveMiddle(l, o)
  BY <1>0, ListAssumption DEF IInv, RemoveOrder, RemoveFrom, Unlinked
<1>2. /\ o \in on /\ on' = on \ {o}
      /\ \A m \in Limits : m # l => On(m)' = On(m) /\ o \notin On(m)
  BY <1>0, <1>1 DEF On, Pointers
<1>5. IsList(q, head_[l], tail_[l], next_, prev_, on)
  BY DEF ListInv
<1>7. PICK i \in 1 .. Len(q) : q[i] = o
  <2> HIDE DEF q, on
  <2> QED BY <1>2, <1>5 DEF IsList
<1>3. /\ n \in Orders \cup {Null} /\ p \in Orders \cup {Null}
      /\ p = Null <=> head_[l] = o
      /\ n = Null <=> tail_[l] = o
      /\ p # Null => parent_[p] = l /\ p # o
      /\ n # Null => parent_[n] = l /\ n # o
  <2>1. /\ p = Null <=> head_[l] = o
        /\ n = Null <=> tail_[l] = o
        /\ p # Null => parent_[p] = l /\ next_[p] = o
        /\ n # Null => parent_[n] = l /\ prev_[n] = o
    BY <1>0, <1>1 DEF WellLinked, NeighboursLinked
  <2>2. n \in Orders \cup {Null} /\ p \in Orders \cup {Null}
    BY <1>1 DEF Pointers
  <2>3. p # o /\ n # o
    <3> HIDE DEF q, on
    <3>1. /\ n = At(q, i + 1) /\ p = At(q, i - 1)
          /\ \A j, k \in 1 .. Len(q) : q[j] = q[k] => j = k
          /\ Len(q) \in Nat
      BY <1>5, <1>7, LenProperties DEF IsList, IsWalk
    <3>2. i + 1 # i /\ i - 1 # i
      BY <3>1
    <3> QED BY <1>1, <1>7, <3>1, <3>2 DEF At
  <2> QED BY <2>1, <2>2, <2>3
<1>4. /\ head_'[l] = IF head_[l] = o THEN n ELSE head_[l]
      /\ tail_'[l] = IF tail_[l] = o THEN p ELSE tail_[l]
      /\ \A x \in Orders : x # o => /\ next_'[x] = IF x = p THEN n ELSE next_[x]
                                   /\ prev_'[x] = IF x = n THEN p ELSE prev_[x]
      /\ \A m \in Limits : m # l => head_'[m] = head_[m] /\ tail_'[m] = tail_[m]
  <2>1. CASE RemoveOnly(l, o)
    BY <1>1, <1>3, <2>1 DEF RemoveOnly, Unlinked, Pointers
  <2>2. CASE RemoveHead(l, o)
    BY <1>1, <1>3, <2>2 DEF RemoveHead, Unlinked, Pointers
  <2>3. CASE RemoveTail(l, o)
    BY <1>1, <1>3, <2>3 DEF RemoveTail, Unlinked, Pointers
  <2>4. CASE RemoveMiddle(l, o)
    BY <1>1, <1>3, <2>4 DEF RemoveMiddle, Unlinked, Pointers
  <2> QED BY <1>1, <2>1, <2>2, <2>3, <2>4
<1>6. \A m \in Limits : m # l =>
        /\ List(m)' = List(m)
        /\ IsList(List(m)', head_'[m], tail_'[m], next_', prev_', On(m)')
  <2>1. ASSUME NEW m \in Limits, m # l, NEW x \in Orders, x \in On(m)
        PROVE  next_'[x] = next_[x] /\ prev_'[x] = prev_[x]
    <3>1. x # o /\ x # n /\ x # p
      BY <1>1, <1>2, <1>3, <2>1 DEF On
    <3> HIDE DEF n, p
    <3> QED BY <1>4, <3>1
  <2> QED BY <1>2, <1>4, <2>1, OthersKeep
<1> HIDE DEF q, on
<1>8. IsList(RemoveAt(q, i), head_'[l], tail_'[l], next_', prev_', on \ {o})
  <2>1. SplicedOut(o, head_[l], tail_[l], next_, prev_, on, head_'[l], tail_'[l], next_', prev_')
    <3> HIDE DEF n, p
    <3>1. n = next_[o] /\ p = prev_[o]
      BY DEF n, p
    <3> QED BY <1>4, <3>1 DEF SplicedOut
  <2> DEFINE head2 == head_'[l]
             tail2 == tail_'[l]
             next2 == next_'
             prev2 == prev_'
             head  == head_[l]
             tail  == tail_[l]
             next  == next_
             prev  == prev_
  <2>2. /\ SplicedOut(q[i], head, tail, next, prev, on, head2, tail2, next2, prev2)
        /\ IsList(q, head, tail, next, prev, on)
    BY <1>5, <1>7, <2>1
  <2>3. IsList(RemoveAt(q, i), head2, tail2, next2, prev2, on \ {q[i]})
    <3> HIDE DEF head2, tail2, next2, prev2, head, tail, next, prev, n, p
    <3> QED BY <1>7, <2>2, LeaveList
  <2> QED BY <1>7, <2>3
<1>9. Path(head_'[l], next_') = RemoveAt(q, i)
  BY <1>8, PathIsWalk DEF IsList
<1>10. List(l)' = RemoveAt(q, i)
  BY <1>9 DEF List
<1>11. IsList(List(l)', head_'[l], tail_'[l], next_', prev_', On(l)')
  BY <1>2, <1>8, <1>10 DEF on
<1>12. ListInv'
  BY <1>6, <1>11 DEF ListInv
<1> QED BY <1>6, <1>7, <1>10, <1>12 DEF q

\* No order is on a list to begin with.
LEMMA InitLists ==
  ASSUME Init
  PROVE  ListInv /\ \A l \in Limits : List(l) = <<>>
<1>1. ASSUME NEW l \in Limits
      PROVE  IsList(<<>>, head_[l], tail_[l], next_, prev_, On(l))
  <2>1. head_[l] = Null /\ tail_[l] = Null /\ On(l) = {}
    BY ListAssumption DEF Init, On
  <2>2. <<>> \in Seq(Orders) /\ Len(<<>>) = 0 /\ 1 .. 0 = {}
    BY EmptySeq
  <2>3. At(<<>>, 1) = Null /\ At(<<>>, 0) = Null
    BY <2>2 DEF At
  <2> QED BY <2>1, <2>2, <2>3 DEF IsList, IsWalk
<1>2. \A l \in Limits : List(l) = <<>>
  BY <1>1, PathIsWalk DEF List, IsList
<1> QED BY <1>1, <1>2 DEF ListInv

\* Both calls, and stuttering, keep the lists.
LEMMA NextLists == IInv /\ ListInv /\ [Next]_vars => ListInv'
<1> SUFFICES ASSUME IInv, ListInv, [Next]_vars PROVE ListInv'
  OBVIOUS
<1>1. CASE UNCHANGED vars
  BY <1>1 DEF vars, ListInv, List, On
<1> QED BY <1>1, AddJoins, RemoveLeaves DEF Next

\* What both theorems below rest on.
LEMMA Invariance == Spec => [](IInv /\ ListInv)
BY InitIInv, NextIInv, InitLists, NextLists, PTL DEF Spec

\* Walked from either end, a list holds the orders whose parent_ is its limit, num_orders_
\* of them, each once, and both walks meet them in the same order.
THEOREM WholeCorrect == Spec => []ListIsWhole
<1>1. IInv /\ ListInv => ListIsWhole
  <2> SUFFICES ASSUME IInv, ListInv, NEW l \in Limits
               PROVE  /\ Path(tail_[l], prev_) = Reverse(List(l))
                      /\ ToSet(List(l)) = On(l)
                      /\ num_orders_[l] = Len(List(l))
    BY DEF ListIsWhole, On
  <2> DEFINE q == List(l)
             n == Len(q)
             back == Reverse(q)
  <2>1. /\ IsList(q, head_[l], tail_[l], next_, prev_, On(l))
        /\ num_orders_[l] = Cardinality(On(l))
    BY DEF ListInv, IInv, Counts
  <2> HIDE DEF q
  <2>2. /\ q \in Seq(Orders) /\ n \in Nat /\ DOMAIN q = 1 .. n
        /\ \A i \in 1 .. n : q[i] \in Orders /\ q[i] \in On(l)
        /\ \A i, j \in 1 .. n : q[i] = q[j] => i = j
        /\ \A o \in Orders : o \in On(l) <=> \E i \in 1 .. n : q[i] = o
        /\ tail_[l] = At(q, n)
        /\ \A i \in 1 .. n : prev_[q[i]] = At(q, i - 1)
    BY <2>1, LenProperties DEF IsList, IsWalk
  <2>3. ToSet(q) = On(l)
    BY <2>2 DEF ToSet, On
  <2>4. n = Cardinality(On(l))
    <3>1. q \in Bijection(1 .. n, On(l))
      BY <2>2, LenProperties DEF Bijection, Injection, Surjection, IsInjective, On
    <3>2. Cardinality(1 .. n) = n /\ IsFiniteSet(1 .. n)
      <4>1. Cardinality(1 .. n) = IF 1 > n THEN 0 ELSE n - 1 + 1
        BY <2>2, FS_Interval
      <4> QED BY <2>2, <4>1, FS_Interval, SMTT(30)
    <3> QED BY <3>1, <3>2, FS_Bijection DEF ExistsBijection
  <2>5. IsWalk(back, tail_[l], prev_)
    <3>1. back = [i \in 1 .. n |-> q[(n - i) + 1]]
      BY DEF Reverse
    <3> HIDE DEF n, back
    <3>2. /\ back \in Seq(Orders) /\ Len(back) = n
          /\ \A i \in 1 .. n : (n - i) + 1 \in 1 .. n /\ back[i] = q[(n - i) + 1]
      BY <2>2, <3>1
    <3>3. \A i, j \in 1 .. n : back[i] = back[j] => i = j
      BY <2>2, <3>2
    <3>4. \A i \in 0 .. n : At(back, i + 1) = At(q, n - i)
      BY <2>2, <3>2 DEF At, n
    <3>5. tail_[l] = At(back, 1)
      BY <2>2, <3>4
    <3>6. ASSUME NEW i \in 1 .. n PROVE prev_[back[i]] = At(back, i + 1)
      <4>1. (n - i) + 1 \in 1 .. n /\ ((n - i) + 1) - 1 = n - i /\ i \in 0 .. n
        BY <2>2
      <4>2. prev_[q[(n - i) + 1]] = At(q, n - i)
        BY <2>2, <4>1
      <4> QED BY <3>2, <3>4, <4>1, <4>2
    <3> QED BY <3>2, <3>3, <3>5, <3>6 DEF IsWalk
  <2> HIDE DEF back
  <2>6. Path(tail_[l], prev_) = back
    BY <2>5, PathIsWalk
  <2> QED BY <2>1, <2>3, <2>4, <2>6 DEF q, back
<1> QED BY <1>1, Invariance, PTL

\* The lists that the pointers make are queues: the order of a call of add_order joins at
\* the end of one, that of remove_order leaves from anywhere, and nothing else moves.
THEOREM QueuesCorrect == Spec => IsLevelQueues
<1> DEFINE queue == [l \in Limits |-> List(l)]
<1>1. Init => Queues!Init
  BY InitLists DEF Queues!Init
<1>2. IInv /\ ListInv /\ [Next]_vars => [Queues!Next]_queue
  <2> SUFFICES ASSUME IInv, ListInv, [Next]_vars PROVE Queues!Next \/ queue' = queue
    OBVIOUS
  <2>1. CASE UNCHANGED vars
    BY <2>1 DEF vars, List
  <2>2. ASSUME NEW o \in Orders, NEW l \in Limits, AddOrder(l, o) PROVE Queues!Join(o, l)
    <3>1. /\ List(l)' = Append(List(l), o)
          /\ \A m \in Limits : m # l => List(m)' = List(m)
      BY <2>2, AddJoins
    <3>2. queue' = [queue EXCEPT ![l] = Append(queue[l], o)]
      BY <3>1
    <3>3. ~Queues!Queued(o)
      <4> SUFFICES ASSUME NEW m \in Limits, NEW i \in 1 .. Len(List(m)), List(m)[i] = o PROVE FALSE
        BY DEF Queues!Queued, Queues!Contains
      <4>1. o \in On(m)
        BY DEF ListInv, IsList
      <4> QED BY <2>2, <4>1, ListAssumption DEF On, AddOrder
    <3> QED BY <3>2, <3>3 DEF Queues!Join
  <2>3. ASSUME NEW o \in Orders, RemoveOrder(o) PROVE Queues!Leave(o)
    <3>0. PICK l \in Limits : \E i \in 1 .. Len(List(l)) :
            /\ List(l)[i] = o
            /\ List(l)' = RemoveAt(List(l), i)
            /\ \A m \in Limits : m # l => List(m)' = List(m)
      BY <2>3, RemoveLeaves
    <3>1. PICK i \in 1 .. Len(List(l)) :
            /\ List(l)[i] = o
            /\ List(l)' = RemoveAt(List(l), i)
            /\ \A m \in Limits : m # l => List(m)' = List(m)
      BY <3>0
    <3>2. queue' = [queue EXCEPT ![l] = RemoveAt(queue[l], i)]
      BY <3>1
    <3>3. i \in DOMAIN List(l)
      <4>1. List(l) \in Seq(Orders)
        BY DEF ListInv, IsList, IsWalk
      <4> HIDE DEF queue
      <4> QED BY <4>1, LenProperties
    <3> QED BY <3>1, <3>2, <3>3 DEF Queues!Leave, Queues!RemoveAt, RemoveAt
  <2> QED BY <2>1, <2>2, <2>3 DEF Next, Queues!Next
<1> QED BY <1>1, <1>2, Invariance, PTL DEF Spec, IsLevelQueues, Queues!Spec
=============================================================================
