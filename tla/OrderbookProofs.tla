-------------------------- MODULE OrderbookProofs --------------------------
(***************************************************************************)
(* Theorems about Orderbook for any ids, prices and sizes, any number of   *)
(* Order objects and every range of the running volumes: types, the pool,  *)
(* the indexes, the counters, and that it is a price-time priority book.   *)
(***************************************************************************)
EXTENDS Orderbook, SequenceTheorems, FiniteInduction, TLAPS

\* Lists after an order has joined that of k, and after it has left it.
Joined(lists, k, o) == [lists EXCEPT ![k] = Append(lists[k], o)]

Parted(lists, k, o) == [lists EXCEPT ![k] = RemoveAt(lists[k], PlaceOf(lists[k], o))]

LevelsRecord ==
  [at : SUBSET Keys, lookup : SUBSET Keys, list : [Keys -> Seq(Orders)],
   volume : [Keys -> Nat], num : [Keys -> Nat], parent : [Orders -> Keys \cup {Null}]]

OrderRecord == [price : Prices \cup {0}, size : Nat]

SizesIn(ord, S) == SumFunctionOnSet([o \in Orders |-> ord[o].size], S)

\* An order on a list has that limit as its parent_ and its price.
Placed(L, ord) ==
  \A k \in Keys : \A o \in ToSet(L.list[k]) : L.parent[o] = k /\ ord[o].price = k[2]

\* An order with a parent_ is on its list.
Listed(L) == \A o \in Orders : L.parent[o] # Null => o \in ToSet(L.list[L.parent[o]])

Once(L) == \A k \in Keys : IsInjective(L.list[k])

\* The two maps agree, and a limit that is not in them is empty.
InMaps(L) ==
  /\ L.at = L.lookup
  /\ \A s \in Sides : IsFiniteSet(PricesOf(L, s))
  /\ \A k \in Keys : k \notin L.at => L.list[k] = <<>>

Numbered(L) == \A k \in Keys : L.num[k] = Len(L.list[k])

Covered(L, ord) == \A k \in Keys : L.volume[k] >= SizesIn(ord, ToSet(L.list[k]))

\* What the operations on levels keep, with the orders as they are at the time.
LevelsOK(L, ord) ==
  /\ L \in LevelsRecord
  /\ ord \in [Orders -> OrderRecord]
  /\ Placed(L, ord)
  /\ Listed(L)
  /\ Once(L)
  /\ InMaps(L)
  /\ Numbered(L)
  /\ Covered(L, ord)

-----------------------------------------------------------------------------
(* Lists and sizes.                                                        *)

LEMMA ConstantTypes ==
  /\ MaxOrders \in Nat /\ Preallocated \in Nat /\ Preallocated <= MaxOrders
  /\ Null \notin Orders /\ Null \notin Keys
  /\ IsFiniteSet(Orders)
<1>1. MaxOrders \in Nat /\ Preallocated \in 0 .. MaxOrders /\ Null \notin Nat
      /\ Null \notin BOOLEAN \X Prices
  BY OrderbookAssumption
<1> QED BY <1>1, FS_Interval DEF Orders, Keys, Sides

\* The elements of a list.
LEMMA ListSet ==
  ASSUME NEW S, NEW list \in Seq(S)
  PROVE  /\ DOMAIN list = 1 .. Len(list) /\ Len(list) \in Nat
         /\ ToSet(list) = {list[i] : i \in 1 .. Len(list)}
         /\ ToSet(list) \subseteq S
<1>1. DOMAIN list = 1 .. Len(list) /\ Len(list) \in Nat /\ \A i \in 1 .. Len(list) : list[i] \in S
  OBVIOUS
<1> QED BY <1>1 DEF ToSet

LEMMA EmptyList ==
  ASSUME NEW S
  PROVE  /\ <<>> \in Seq(S) /\ Len(<<>>) = 0
         /\ ToSet(<<>>) = {} /\ IsInjective(<<>>)
BY DEF ToSet, IsInjective

\* Appending an element that is not there.
LEMMA AppendOnce ==
  ASSUME NEW S, NEW list \in Seq(S), NEW o \in S, o \notin ToSet(list), IsInjective(list)
  PROVE  /\ Append(list, o) \in Seq(S)
         /\ Len(Append(list, o)) = Len(list) + 1
         /\ ToSet(Append(list, o)) = ToSet(list) \cup {o}
         /\ IsInjective(Append(list, o))
<1> DEFINE longer == Append(list, o)
           n == Len(list)
<1>1. /\ n \in Nat /\ longer \in Seq(S) /\ Len(longer) = n + 1 /\ longer[n + 1] = o
      /\ \A i \in 1 .. n : longer[i] = list[i]
      /\ DOMAIN list = 1 .. n
  BY AppendProperties
<1>2. DOMAIN longer = 1 .. n + 1
  BY <1>1
<1> HIDE DEF longer, n
<1>3. ToSet(list) = {list[i] : i \in 1 .. n} /\ ToSet(longer) = {longer[i] : i \in 1 .. n + 1}
  BY <1>1, <1>2 DEF ToSet
<1>4. ToSet(longer) = ToSet(list) \cup {o}
  <2>1. 1 .. n + 1 = (1 .. n) \cup {n + 1}
    BY <1>1
  <2> QED BY <1>1, <1>3, <2>1
<1>5. IsInjective(longer)
  <2> SUFFICES ASSUME NEW a \in 1 .. n + 1, NEW b \in 1 .. n + 1, longer[a] = longer[b]
               PROVE  a = b
    BY <1>2 DEF IsInjective
  <2>1. CASE a \in 1 .. n /\ b \in 1 .. n
    BY <1>1, <2>1 DEF IsInjective
  <2>2. CASE a = n + 1 /\ b \in 1 .. n
    BY <1>1, <1>3, <2>2
  <2>3. CASE b = n + 1 /\ a \in 1 .. n
    BY <1>1, <1>3, <2>3
  <2>4. CASE a = n + 1 /\ b = n + 1
    BY <2>4
  <2> QED BY <1>1, <2>1, <2>2, <2>3, <2>4
<1> QED BY <1>1, <1>4, <1>5 DEF longer, n

\* Unlinking an order leaves the others in their order.
LEMMA RemoveOnce ==
  ASSUME NEW S, NEW list \in Seq(S), NEW o \in ToSet(list), IsInjective(list)
  PROVE  LET left == RemoveAt(list, PlaceOf(list, o))
         IN /\ left \in Seq(S)
            /\ Len(left) = Len(list) - 1
            /\ ToSet(left) = ToSet(list) \ {o}
            /\ IsInjective(left)
<1> DEFINE n == Len(list)
           i == PlaceOf(list, o)
           left == RemoveAt(list, i)
<1>1. n \in Nat /\ DOMAIN list = 1 .. n
  OBVIOUS
<1>2. i \in 1 .. n /\ list[i] = o
  <2>1. \E j \in DOMAIN list : list[j] = o
    BY DEF ToSet
  <2> QED BY <1>1, <2>1 DEF PlaceOf
<1> HIDE DEF i
<1>3. /\ left \in Seq(S) /\ Len(left) = n - 1
      /\ \A j \in 1 .. n - 1 : left[j] = IF j < i THEN list[j] ELSE list[j + 1]
  BY <1>2, RemoveAtElements
<1> HIDE DEF n
<1> HIDE DEF left
<1>4. DOMAIN left = 1 .. n - 1
  BY <1>3
<1>5. ToSet(left) = ToSet(list) \ {o}
  <2>1. ToSet(list) = {list[j] : j \in 1 .. n} /\ ToSet(left) = {left[j] : j \in 1 .. n - 1}
    BY <1>1, <1>4 DEF ToSet
  <2>2. ASSUME NEW j \in 1 .. n - 1 PROVE left[j] \in ToSet(list) \ {o}
    <3>1. CASE j < i
      <4>1. j \in 1 .. n /\ j # i /\ left[j] = list[j]
        BY <1>1, <1>2, <1>3, <3>1
      <4> QED BY <1>1, <1>2, <2>1, <4>1 DEF IsInjective
    <3>2. CASE ~(j < i)
      <4>1. j + 1 \in 1 .. n /\ j + 1 # i /\ left[j] = list[j + 1]
        BY <1>1, <1>2, <1>3, <3>2
      <4> QED BY <1>1, <1>2, <2>1, <4>1 DEF IsInjective
    <3> QED BY <3>1, <3>2
  <2>3. ASSUME NEW j \in 1 .. n, list[j] # o PROVE list[j] \in ToSet(left)
    <3>1. CASE j < i
      <4>1. j \in 1 .. n - 1 /\ left[j] = list[j]
        BY <1>1, <1>2, <1>3, <3>1
      <4> QED BY <2>1, <4>1
    <3>2. CASE j > i
      <4>1. j - 1 \in 1 .. n - 1 /\ left[j - 1] = list[j - 1 + 1] /\ j - 1 + 1 = j
        BY <1>1, <1>2, <1>3, <3>2
      <4> QED BY <2>1, <4>1
    <3> QED BY <1>2, <2>3, <3>1, <3>2
  <2> QED BY <2>1, <2>2, <2>3
<1>6. IsInjective(left)
  <2> SUFFICES ASSUME NEW a \in 1 .. n - 1, NEW b \in 1 .. n - 1, left[a] = left[b]
               PROVE  a = b
    BY <1>4 DEF IsInjective
  <2> DEFINE old(j) == IF j < i THEN j ELSE j + 1
  <2>1. old(a) \in 1 .. n /\ old(b) \in 1 .. n /\ left[a] = list[old(a)] /\ left[b] = list[old(b)]
    BY <1>1, <1>2, <1>3
  <2>2. old(a) = old(b)
    BY <1>1, <2>1 DEF IsInjective
  <2> QED BY <1>1, <1>2, <2>2
<1> QED BY <1>3, <1>5, <1>6 DEF i, left, n

\* Sums of sizes.
LEMMA SizesType ==
  ASSUME NEW ord \in [Orders -> OrderRecord], NEW S, S \subseteq Orders
  PROVE  /\ IsFiniteSet(S)
         /\ SizesIn(ord, S) \in Nat
<1>1. IsFiniteSet(S)
  BY ConstantTypes, FS_Subset
<1>2. \A o \in S : [x \in Orders |-> ord[x].size][o] \in Nat
  BY DEF OrderRecord
<1> QED BY <1>1, <1>2, FiniteSumNat DEF SizesIn

\* A sum of sizes depends on the sizes of its orders alone.
LEMMA SizesOfSame ==
  ASSUME NEW ord \in [Orders -> OrderRecord], NEW ord2 \in [Orders -> OrderRecord],
         NEW S, S \subseteq Orders, \A o \in S : ord2[o].size = ord[o].size
  PROVE  SizesIn(ord2, S) = SizesIn(ord, S)
<1>1. IsFiniteSet(S)
  BY SizesType
<1> DEFINE f == [o \in Orders |-> ord[o].size]
           g == [o \in Orders |-> ord2[o].size]
<1>2. \A o \in S : g[o] = f[o]
  OBVIOUS
<1> HIDE DEF f, g
<1>3. SumFunctionOnSet(g, S) = SumFunctionOnSet(f, S)
  BY <1>1, <1>2, FiniteSumOfSame
<1> QED BY <1>3 DEF SizesIn, f, g

LEMMA SizesOfSmaller ==
  ASSUME NEW ord \in [Orders -> OrderRecord], NEW ord2 \in [Orders -> OrderRecord],
         NEW S, S \subseteq Orders, \A o \in S : ord2[o].size <= ord[o].size
  PROVE  SizesIn(ord2, S) <= SizesIn(ord, S)
<1>1. IsFiniteSet(S)
  BY SizesType
<1> DEFINE f == [o \in Orders |-> ord[o].size]
           g == [o \in Orders |-> ord2[o].size]
<1>2. \A o \in S : g[o] \in Int /\ f[o] \in Int /\ g[o] <= f[o]
  BY DEF OrderRecord
<1> HIDE DEF f, g
<1>3. SumFunctionOnSet(g, S) <= SumFunctionOnSet(f, S)
  BY <1>1, <1>2, FiniteSumMonotone
<1> QED BY <1>3 DEF SizesIn, f, g

LEMMA SizesWith ==
  ASSUME NEW ord \in [Orders -> OrderRecord], NEW S, S \subseteq Orders,
         NEW o \in Orders, o \notin S
  PROVE  SizesIn(ord, S \cup {o}) = SizesIn(ord, S) + ord[o].size
<1>1. IsFiniteSet(S) /\ SizesIn(ord, S) \in Nat
  BY SizesType
<1> DEFINE f == [x \in Orders |-> ord[x].size]
<1>2. f[o] \in Int /\ f[o] = ord[o].size /\ \A x \in S : f[x] \in Int
  BY DEF OrderRecord
<1>3. SizesIn(ord, S \cup {o}) = SumFunctionOnSet(f, S \cup {o})
      /\ SizesIn(ord, S) = SumFunctionOnSet(f, S)
  BY DEF SizesIn
<1> HIDE DEF f
<1>4. SumFunctionOnSet(f, S \cup {o}) = f[o] + SumFunctionOnSet(f, S)
  BY <1>1, <1>2, FiniteSumWith
<1> QED BY <1>1, <1>2, <1>3, <1>4

LEMMA SizesWithout ==
  ASSUME NEW ord \in [Orders -> OrderRecord], NEW S, S \subseteq Orders, NEW o \in S
  PROVE  SizesIn(ord, S \ {o}) = SizesIn(ord, S) - ord[o].size
<1> DEFINE rest == S \ {o}
<1>1. rest \subseteq Orders /\ o \in Orders /\ o \notin rest /\ S = rest \cup {o}
  OBVIOUS
<1> HIDE DEF rest
<1>2. SizesIn(ord, S) = SizesIn(ord, rest) + ord[o].size
  BY <1>1, SizesWith
<1>3. SizesIn(ord, rest) \in Nat /\ ord[o].size \in Nat
  BY <1>1, SizesType DEF OrderRecord
<1>4. SizesIn(ord, rest) = SizesIn(ord, S) - ord[o].size
  BY <1>2, <1>3
<1> QED BY <1>4 DEF rest

-----------------------------------------------------------------------------
(* The operations on levels.                                               *)

\* The limits in the maps that have no order.
EmptyOf(L) == {k \in L.at : L.list[k] = <<>>}

\* A record of levels, field by field.
LEMMA LevelsFields ==
  ASSUME NEW L \in LevelsRecord
  PROVE  /\ L.at \subseteq Keys /\ L.lookup \subseteq Keys
         /\ L.list \in [Keys -> Seq(Orders)]
         /\ L.volume \in [Keys -> Nat] /\ L.num \in [Keys -> Nat]
         /\ L.parent \in [Orders -> Keys \cup {Null}]
         /\ L = [at |-> L.at, lookup |-> L.lookup, list |-> L.list,
                 volume |-> L.volume, num |-> L.num, parent |-> L.parent]
BY DEF LevelsRecord

\* The prices of a map to which at most one key is added.
LEMMA PricesStayFinite ==
  ASSUME NEW L, NEW M, NEW k \in Keys, NEW s \in Sides, IsFiniteSet(PricesOf(L, s)),
         M.at \subseteq L.at \cup {k}
  PROVE  IsFiniteSet(PricesOf(M, s))
<1>1. PricesOf(M, s) \subseteq PricesOf(L, s) \cup {k[2]}
  <2> SUFFICES ASSUME NEW p \in PricesOf(M, s), p # k[2] PROVE p \in PricesOf(L, s)
    OBVIOUS
  <2>1. p \in Prices /\ <<s, p>> \in M.at
    BY DEF PricesOf
  <2>2. <<s, p>> # k
    OBVIOUS
  <2> QED BY <2>1, <2>2 DEF PricesOf
<1>2. IsFiniteSet(PricesOf(L, s) \cup {k[2]})
  BY FS_AddElement
<1>3. PricesOf(M, s) \in SUBSET (PricesOf(L, s) \cup {k[2]})
  BY <1>1
<1> QED BY <1>2, <1>3, FS_Subset

LEMMA GetOrInsertKeeps ==
  ASSUME NEW L, NEW ord, LevelsOK(L, ord), NEW k \in Keys
  PROVE  LET M == GetOrInsertLimit(L, k)
         IN /\ LevelsOK(M, ord)
            /\ k \in M.at
            /\ M.parent = L.parent /\ M.list = L.list
            /\ EmptyOf(M) \subseteq EmptyOf(L) \cup {k}
<1> DEFINE M == GetOrInsertLimit(L, k)
<1> USE DEF LevelsOK
<1>1. CASE k \in L.lookup
  <2>1. M = L
    BY <1>1 DEF GetOrInsertLimit
  <2>2. k \in L.at
    BY <1>1 DEF InMaps
  <2> HIDE DEF M
  <2>3. LevelsOK(M, ord) /\ k \in M.at /\ M.parent = L.parent /\ M.list = L.list
    BY <2>1, <2>2
  <2>4. EmptyOf(M) \subseteq EmptyOf(L) \cup {k}
    BY <2>1
  <2> QED BY <2>3, <2>4 DEF M
<1>2. CASE k \notin L.lookup
  <2>0. /\ L.at \subseteq Keys /\ L.lookup \subseteq Keys
        /\ L.list \in [Keys -> Seq(Orders)]
        /\ L.volume \in [Keys -> Nat] /\ L.num \in [Keys -> Nat]
        /\ L.parent \in [Orders -> Keys \cup {Null}]
        /\ L = [at |-> L.at, lookup |-> L.lookup, list |-> L.list,
                volume |-> L.volume, num |-> L.num, parent |-> L.parent]
    BY LevelsFields
  <2>1. L.list[k] = <<>> /\ L.at = L.lookup
    BY <1>2 DEF InMaps
  <2>2. M = [at |-> L.at \cup {k}, lookup |-> L.lookup \cup {k},
             list |-> [L.list EXCEPT ![k] = <<>>], volume |-> [L.volume EXCEPT ![k] = 0],
             num |-> [L.num EXCEPT ![k] = 0], parent |-> L.parent]
    BY <1>2, <2>0 DEF GetOrInsertLimit
  <2>3. /\ M.at = L.at \cup {k} /\ M.lookup = L.at \cup {k} /\ M.list = L.list
        /\ M.volume = [L.volume EXCEPT ![k] = 0] /\ M.num = [L.num EXCEPT ![k] = 0]
        /\ M.parent = L.parent
    BY <2>0, <2>1, <2>2
  <2>4. M \in LevelsRecord
    BY <2>0, <2>2, EmptyList DEF LevelsRecord
  <2> HIDE DEF M
  <2>5. Placed(M, ord) /\ Listed(M) /\ Once(M)
    BY <2>3 DEF Placed, Listed, Once
  <2>6. InMaps(M)
    <3>1. \A s \in Sides : IsFiniteSet(PricesOf(M, s))
      BY <2>3, PricesStayFinite DEF InMaps
    <3> QED BY <2>3, <3>1 DEF InMaps
  <2>7. Numbered(M)
    BY <2>0, <2>1, <2>3, EmptyList DEF Numbered
  <2>8. Covered(M, ord)
    <3> SUFFICES ASSUME NEW j \in Keys PROVE M.volume[j] >= SizesIn(ord, ToSet(L.list[j]))
      BY <2>3 DEF Covered
    <3>1. CASE j = k
      <4>1. ToSet(L.list[j]) = {} /\ M.volume[j] = 0
        BY <2>0, <2>1, <2>3, <3>1, EmptyList
      <4>2. SizesIn(ord, {}) = 0
        BY FiniteSumEmpty DEF SizesIn
      <4> QED BY <4>1, <4>2
    <3>2. CASE j # k
      BY <2>0, <2>3, <3>2 DEF Covered
    <3> QED BY <3>1, <3>2
  <2>9. EmptyOf(M) \subseteq EmptyOf(L) \cup {k}
    BY <2>3 DEF EmptyOf
  <2>10. LevelsOK(M, ord)
    BY <2>4, <2>5, <2>6, <2>7, <2>8
  <2> QED BY <2>3, <2>9, <2>10 DEF M
<1> QED BY <1>1, <1>2

\* An order without a parent_ is on no list.
LEMMA OffLists ==
  ASSUME NEW L, NEW ord, LevelsOK(L, ord), NEW o \in Orders, L.parent[o] = Null
  PROVE  \A k \in Keys : o \notin ToSet(L.list[k])
<1>1. Null \notin Keys
  BY ConstantTypes
<1> QED BY <1>1 DEF LevelsOK, Placed

\* An order that gets its price and size with the limit.
LEMMA LimitAddKeeps ==
  ASSUME NEW L, NEW ord, LevelsOK(L, ord), NEW k \in Keys, k \in L.at,
         NEW o \in Orders, L.parent[o] = Null, NEW n \in Nat
  PROVE  LET M == LimitAdd(L, k, o, n)
         IN /\ LevelsOK(M, [ord EXCEPT ![o] = [price |-> k[2], size |-> n]])
            /\ M.list = Joined(L.list, k, o)
            /\ M.parent = [L.parent EXCEPT ![o] = k]
            /\ EmptyOf(M) \subseteq EmptyOf(L) \ {k}
<1> DEFINE M == LimitAdd(L, k, o, n)
           ord2 == [ord EXCEPT ![o] = [price |-> k[2], size |-> n]]
<1> USE DEF LevelsOK
<1>1. /\ L.at \subseteq Keys /\ L.lookup \subseteq Keys
      /\ L.list \in [Keys -> Seq(Orders)]
      /\ L.volume \in [Keys -> Nat] /\ L.num \in [Keys -> Nat]
      /\ L.parent \in [Orders -> Keys \cup {Null}]
      /\ L = [at |-> L.at, lookup |-> L.lookup, list |-> L.list,
              volume |-> L.volume, num |-> L.num, parent |-> L.parent]
  BY LevelsFields
<1>2. M = [at |-> L.at, lookup |-> L.lookup,
           list |-> [L.list EXCEPT ![k] = Append(L.list[k], o)],
           volume |-> [L.volume EXCEPT ![k] = L.volume[k] + n],
           num |-> [L.num EXCEPT ![k] = L.num[k] + 1],
           parent |-> [L.parent EXCEPT ![o] = k]]
  <2>1. M = [L EXCEPT !.list = [L.list EXCEPT ![k] = Append(L.list[k], o)],
                      !.volume = [L.volume EXCEPT ![k] = L.volume[k] + n],
                      !.num = [L.num EXCEPT ![k] = L.num[k] + 1],
                      !.parent = [L.parent EXCEPT ![o] = k]]
    BY DEF LimitAdd
  <2> QED BY <1>1, <2>1
<1> DEFINE longer == Append(L.list[k], o)
<1>3. o \notin ToSet(L.list[k]) /\ IsInjective(L.list[k])
  BY OffLists DEF Once
<1>4. /\ longer \in Seq(Orders) /\ Len(longer) = Len(L.list[k]) + 1
      /\ ToSet(longer) = ToSet(L.list[k]) \cup {o} /\ IsInjective(longer)
  BY <1>1, <1>3, AppendOnce
<1>5. longer # <<>> /\ Len(L.list[k]) \in Nat
  <2>1. Len(L.list[k]) \in Nat /\ Len(longer) # 0
    BY <1>1, <1>4
  <2> QED BY <2>1, EmptyList
<1>6. /\ M.at = L.at /\ M.lookup = L.lookup
      /\ M.list = [L.list EXCEPT ![k] = longer]
      /\ M.volume = [L.volume EXCEPT ![k] = L.volume[k] + n]
      /\ M.num = [L.num EXCEPT ![k] = L.num[k] + 1]
      /\ M.parent = [L.parent EXCEPT ![o] = k]
  BY <1>2
<1> HIDE DEF longer
<1>7. M \in LevelsRecord
  BY <1>1, <1>2, <1>4 DEF LevelsRecord, longer
<1>8. ord2 \in [Orders -> OrderRecord]
  <2>1. k[2] \in Prices
    BY DEF Keys
  <2> QED BY <2>1 DEF OrderRecord
<1>9. ord2[o].price = k[2] /\ ord2[o].size = n /\ \A x \in Orders : x # o => ord2[x] = ord[x]
  OBVIOUS
<1> HIDE DEF M, ord2
<1>10. \A j \in Keys : ToSet(M.list[j]) = IF j = k THEN ToSet(L.list[k]) \cup {o}
                                         ELSE ToSet(L.list[j])
  BY <1>1, <1>4, <1>6
<1>11. \A j \in Keys : ToSet(L.list[j]) \subseteq Orders /\ o \notin ToSet(L.list[j])
  BY <1>1, ListSet, OffLists
<1>12. Placed(M, ord2)
  <2> SUFFICES ASSUME NEW j \in Keys, NEW x \in ToSet(M.list[j])
               PROVE  M.parent[x] = j /\ ord2[x].price = j[2]
    BY DEF Placed
  <2>1. CASE x = o
    <3>1. j = k
      BY <1>10, <1>11, <2>1
    <3> QED BY <1>1, <1>6, <1>9, <2>1, <3>1
  <2>2. CASE x # o
    <3>1. x \in ToSet(L.list[j]) /\ x \in Orders
      BY <1>10, <1>11, <2>2
    <3>2. L.parent[x] = j /\ ord[x].price = j[2]
      BY <3>1 DEF Placed
    <3> QED BY <1>1, <1>6, <1>9, <2>2, <3>1, <3>2
  <2> QED BY <2>1, <2>2
<1>13. Listed(M)
  <2> SUFFICES ASSUME NEW x \in Orders, M.parent[x] # Null
               PROVE  x \in ToSet(M.list[M.parent[x]])
    BY DEF Listed
  <2>1. CASE x = o
    BY <1>1, <1>6, <1>10, <2>1
  <2>2. CASE x # o
    <3>1. M.parent[x] = L.parent[x] /\ L.parent[x] \in Keys
      BY <1>1, <1>6, <2>2
    <3>2. x \in ToSet(L.list[L.parent[x]])
      BY <3>1 DEF Listed
    <3> QED BY <1>10, <3>1, <3>2
  <2> QED BY <2>1, <2>2
<1>14. Once(M)
  BY <1>1, <1>4, <1>6 DEF Once
<1>15. InMaps(M)
  <2>1. \A s \in Sides : PricesOf(M, s) = PricesOf(L, s)
    BY <1>6 DEF PricesOf
  <2> QED BY <1>1, <1>6, <2>1 DEF InMaps
<1>16. Numbered(M)
  BY <1>1, <1>4, <1>6 DEF Numbered
<1>17. Covered(M, ord2)
  <2> SUFFICES ASSUME NEW j \in Keys PROVE M.volume[j] >= SizesIn(ord2, ToSet(M.list[j]))
    BY DEF Covered
  <2>1. SizesIn(ord2, ToSet(L.list[j])) = SizesIn(ord, ToSet(L.list[j]))
    BY <1>8, <1>9, <1>11, SizesOfSame
  <2>2. L.volume[j] >= SizesIn(ord, ToSet(L.list[j]))
    BY DEF Covered
  <2>3. CASE j = k
    <3>1. SizesIn(ord2, ToSet(M.list[j])) = SizesIn(ord2, ToSet(L.list[j])) + n
      BY <1>8, <1>9, <1>10, <1>11, <2>3, SizesWith
    <3>2. M.volume[j] = L.volume[j] + n /\ L.volume[j] \in Nat
      BY <1>1, <1>6, <2>3
    <3>3. SizesIn(ord, ToSet(L.list[j])) \in Nat
      BY <1>11, SizesType
    <3> QED BY <2>1, <2>2, <3>1, <3>2, <3>3
  <2>4. CASE j # k
    BY <1>1, <1>6, <1>10, <2>1, <2>2, <2>4
  <2> QED BY <2>3, <2>4
<1>18. EmptyOf(M) \subseteq EmptyOf(L) \ {k}
  BY <1>1, <1>5, <1>6 DEF EmptyOf
<1>19. LevelsOK(M, ord2)
  BY <1>7, <1>8, <1>12, <1>13, <1>14, <1>15, <1>16, <1>17
<1> QED BY <1>6, <1>18, <1>19 DEF M, ord2, longer, Joined

\* A limit that an order has as its parent_.
LEMMA ParentHasOrder ==
  ASSUME NEW L, NEW ord, LevelsOK(L, ord), NEW o \in Orders, L.parent[o] # Null
  PROVE  /\ L.parent[o] \in Keys /\ L.parent[o] \in L.at
         /\ o \in ToSet(L.list[L.parent[o]]) /\ ord[o].price = L.parent[o][2]
<1>1. L.parent[o] \in Keys
  BY LevelsFields DEF LevelsOK
<1>2. o \in ToSet(L.list[L.parent[o]])
  BY DEF LevelsOK, Listed
<1>3. ToSet(<<>>) = {}
  BY EmptyList
<1> QED BY <1>1, <1>2, <1>3 DEF LevelsOK, Placed, InMaps

\* An order that leaves its limit with its own size.
LEMMA LimitRemoveKeeps ==
  ASSUME NEW L, NEW ord, LevelsOK(L, ord), NEW o \in Orders, L.parent[o] # Null
  PROVE  LET k == L.parent[o]
             M == LimitRemove(L, k, o, ord[o].size)
         IN /\ LevelsOK(M, ord)
            /\ M.at = L.at
            /\ M.list = Parted(L.list, k, o)
            /\ M.parent = [L.parent EXCEPT ![o] = Null]
            /\ EmptyOf(M) \subseteq EmptyOf(L) \cup {k}
<1> DEFINE k == L.parent[o]
           n == ord[o].size
           M == LimitRemove(L, k, o, n)
           shorter == RemoveAt(L.list[k], PlaceOf(L.list[k], o))
<1> USE DEF LevelsOK
<1>1. /\ L.at \subseteq Keys /\ L.lookup \subseteq Keys
      /\ L.list \in [Keys -> Seq(Orders)]
      /\ L.volume \in [Keys -> Nat] /\ L.num \in [Keys -> Nat]
      /\ L.parent \in [Orders -> Keys \cup {Null}]
      /\ L = [at |-> L.at, lookup |-> L.lookup, list |-> L.list,
              volume |-> L.volume, num |-> L.num, parent |-> L.parent]
  BY LevelsFields
<1>2. k \in Keys /\ k \in L.at /\ o \in ToSet(L.list[k]) /\ IsInjective(L.list[k])
  BY ParentHasOrder DEF Once
<1>3. Null \notin Keys
  BY ConstantTypes
<1>4. n \in Nat
  BY DEF OrderRecord
<1>5. k = L.parent[o] /\ n = ord[o].size
  OBVIOUS
<1> HIDE DEF k, n
<1>6. M = [at |-> L.at, lookup |-> L.lookup,
           list |-> [L.list EXCEPT ![k] = shorter],
           volume |-> [L.volume EXCEPT ![k] = L.volume[k] - n],
           num |-> [L.num EXCEPT ![k] = L.num[k] - 1],
           parent |-> [L.parent EXCEPT ![o] = Null]]
  <2>1. M = [L EXCEPT !.list = [L.list EXCEPT ![k] = shorter],
                      !.volume = [L.volume EXCEPT ![k] = L.volume[k] - n],
                      !.num = [L.num EXCEPT ![k] = L.num[k] - 1],
                      !.parent = [L.parent EXCEPT ![o] = Null]]
    BY DEF LimitRemove
  <2> QED BY <1>1, <2>1
<1>7. /\ M.at = L.at /\ M.lookup = L.lookup
      /\ M.list = [L.list EXCEPT ![k] = shorter]
      /\ M.volume = [L.volume EXCEPT ![k] = L.volume[k] - n]
      /\ M.num = [L.num EXCEPT ![k] = L.num[k] - 1]
      /\ M.parent = [L.parent EXCEPT ![o] = Null]
  BY <1>6
<1>8. /\ shorter \in Seq(Orders) /\ Len(shorter) = Len(L.list[k]) - 1
      /\ ToSet(shorter) = ToSet(L.list[k]) \ {o} /\ IsInjective(shorter)
  BY <1>1, <1>2, RemoveOnce
<1> HIDE DEF shorter, M
<1>9. ToSet(L.list[k]) \subseteq Orders /\ \A j \in Keys : ToSet(L.list[j]) \subseteq Orders
  BY <1>1, <1>2, ListSet
<1>10. \A j \in Keys : ToSet(M.list[j]) = IF j = k THEN ToSet(L.list[k]) \ {o}
                                         ELSE ToSet(L.list[j])
  BY <1>1, <1>7, <1>8
<1>11. \A j \in Keys : o \notin ToSet(M.list[j])
  BY <1>5, <1>10 DEF Placed
<1>12. SizesIn(ord, ToSet(L.list[k]) \ {o}) = SizesIn(ord, ToSet(L.list[k])) - n
       /\ SizesIn(ord, ToSet(L.list[k])) \in Nat
       /\ SizesIn(ord, ToSet(L.list[k]) \ {o}) \in Nat
  <2>1. ToSet(L.list[k]) \ {o} \subseteq Orders
    BY <1>9
  <2> QED BY <1>2, <1>5, <1>9, <2>1, SizesWithout, SizesType
<1>13. L.volume[k] - n >= SizesIn(ord, ToSet(L.list[k]) \ {o}) /\ L.volume[k] - n \in Nat
  <2>1. L.volume[k] >= SizesIn(ord, ToSet(L.list[k])) /\ L.volume[k] \in Nat
    BY <1>1, <1>2 DEF Covered
  <2> QED BY <1>4, <1>12, <2>1
<1>14. L.num[k] - 1 = Len(shorter) /\ Len(shorter) \in Nat
  <2>1. L.num[k] = Len(L.list[k])
    BY <1>2 DEF Numbered
  <2>2. Len(shorter) \in Nat
    BY <1>8
  <2> QED BY <1>8, <2>1, <2>2
<1>15. M \in LevelsRecord
  BY <1>1, <1>6, <1>8, <1>13, <1>14 DEF LevelsRecord
<1>16. Placed(M, ord)
  <2> SUFFICES ASSUME NEW j \in Keys, NEW x \in ToSet(M.list[j])
               PROVE  M.parent[x] = j /\ ord[x].price = j[2]
    BY DEF Placed
  <2>1. x # o /\ x \in ToSet(L.list[j]) /\ x \in Orders
    BY <1>9, <1>10, <1>11
  <2>2. L.parent[x] = j /\ ord[x].price = j[2]
    BY <2>1 DEF Placed
  <2> QED BY <1>1, <1>7, <2>1, <2>2
<1>17. Listed(M)
  <2> SUFFICES ASSUME NEW x \in Orders, M.parent[x] # Null
               PROVE  x \in ToSet(M.list[M.parent[x]])
    BY DEF Listed
  <2>1. x # o /\ M.parent[x] = L.parent[x] /\ L.parent[x] \in Keys
    BY <1>1, <1>7
  <2>2. x \in ToSet(L.list[L.parent[x]])
    BY <2>1 DEF Listed
  <2> QED BY <1>10, <2>1, <2>2
<1>18. Once(M)
  BY <1>1, <1>7, <1>8 DEF Once
<1>19. InMaps(M)
  <2>1. \A s \in Sides : PricesOf(M, s) = PricesOf(L, s)
    BY <1>7 DEF PricesOf
  <2> QED BY <1>1, <1>2, <1>7, <2>1 DEF InMaps
<1>20. Numbered(M)
  BY <1>1, <1>7, <1>14 DEF Numbered
<1>21. Covered(M, ord)
  <2> SUFFICES ASSUME NEW j \in Keys PROVE M.volume[j] >= SizesIn(ord, ToSet(M.list[j]))
    BY DEF Covered
  <2>1. CASE j = k
    BY <1>1, <1>7, <1>10, <1>13, <2>1
  <2>2. CASE j # k
    BY <1>1, <1>7, <1>10, <2>2 DEF Covered
  <2> QED BY <2>1, <2>2
<1>22. EmptyOf(M) \subseteq EmptyOf(L) \cup {k}
  BY <1>1, <1>7 DEF EmptyOf
<1>23. LevelsOK(M, ord)
  BY <1>15, <1>16, <1>17, <1>18, <1>19, <1>20, <1>21
<1> QED BY <1>7, <1>22, <1>23 DEF M, k, n, shorter, Parted

\* A limit that is erased from the maps by its own key.
LEMMA EraseKeeps ==
  ASSUME NEW L, NEW ord, LevelsOK(L, ord), NEW k \in Keys
  PROVE  LET M == EraseIfEmpty(L, k, k)
         IN /\ LevelsOK(M, ord)
            /\ M.parent = L.parent /\ M.list = L.list
            /\ EmptyOf(M) \subseteq EmptyOf(L) \ {k}
<1> DEFINE M == EraseIfEmpty(L, k, k)
<1> USE DEF LevelsOK
<1>1. CASE L.list[k] # <<>>
  <2>1. M = L
    BY <1>1 DEF EraseIfEmpty
  <2> HIDE DEF M
  <2>2. LevelsOK(M, ord) /\ M.parent = L.parent /\ M.list = L.list
    BY <2>1
  <2>3. EmptyOf(M) \subseteq EmptyOf(L) \ {k}
    BY <1>1, <2>1 DEF EmptyOf
  <2> QED BY <2>2, <2>3 DEF M
<1>2. CASE L.list[k] = <<>>
  <2>0. /\ L.at \subseteq Keys /\ L.lookup \subseteq Keys
        /\ L.list \in [Keys -> Seq(Orders)]
        /\ L.volume \in [Keys -> Nat] /\ L.num \in [Keys -> Nat]
        /\ L.parent \in [Orders -> Keys \cup {Null}]
        /\ L = [at |-> L.at, lookup |-> L.lookup, list |-> L.list,
                volume |-> L.volume, num |-> L.num, parent |-> L.parent]
    BY LevelsFields
  <2>1. L.at = L.lookup
    BY DEF InMaps
  <2>2. M = [at |-> L.at \ {k}, lookup |-> L.lookup \ {k}, list |-> L.list,
             volume |-> [L.volume EXCEPT ![k] = 0], num |-> L.num, parent |-> L.parent]
    BY <1>2, <2>0 DEF EraseIfEmpty
  <2>3. /\ M.at = L.at \ {k} /\ M.lookup = L.at \ {k} /\ M.list = L.list
        /\ M.volume = [L.volume EXCEPT ![k] = 0] /\ M.num = L.num /\ M.parent = L.parent
    BY <2>1, <2>2
  <2>4. M \in LevelsRecord
    BY <2>0, <2>2 DEF LevelsRecord
  <2> HIDE DEF M
  <2>5. Placed(M, ord) /\ Listed(M) /\ Once(M) /\ Numbered(M)
    BY <2>3 DEF Placed, Listed, Once, Numbered
  <2>6. InMaps(M)
    <3>1. \A s \in Sides : IsFiniteSet(PricesOf(M, s))
      BY <2>3, PricesStayFinite DEF InMaps
    <3> QED BY <1>2, <2>3, <3>1 DEF InMaps
  <2>7. Covered(M, ord)
    <3> SUFFICES ASSUME NEW j \in Keys PROVE M.volume[j] >= SizesIn(ord, ToSet(L.list[j]))
      BY <2>3 DEF Covered
    <3>1. CASE j = k
      <4>1. ToSet(L.list[j]) = {} /\ M.volume[j] = 0
        BY <1>2, <2>0, <2>3, <3>1, EmptyList
      <4>2. SizesIn(ord, {}) = 0
        BY FiniteSumEmpty DEF SizesIn
      <4> QED BY <4>1, <4>2
    <3>2. CASE j # k
      BY <2>0, <2>3, <3>2 DEF Covered
    <3> QED BY <3>1, <3>2
  <2>8. EmptyOf(M) \subseteq EmptyOf(L) \ {k}
    BY <2>3 DEF EmptyOf
  <2>9. LevelsOK(M, ord)
    BY <2>4, <2>5, <2>6, <2>7
  <2> QED BY <2>3, <2>8, <2>9 DEF M
<1> QED BY <1>1, <1>2

\* Sizes that are reduced in place leave volume_ large enough.
LEMMA ShrinkKeeps ==
  ASSUME NEW L, NEW ord, LevelsOK(L, ord), NEW ord2 \in [Orders -> OrderRecord],
         \A o \in Orders : ord2[o].price = ord[o].price /\ ord2[o].size <= ord[o].size
  PROVE  LevelsOK(L, ord2)
<1> USE DEF LevelsOK
<1>1. \A k \in Keys : ToSet(L.list[k]) \subseteq Orders /\ L.volume[k] \in Nat
  BY LevelsFields, ListSet
<1>2. Placed(L, ord2)
  BY <1>1 DEF Placed
<1>3. Covered(L, ord2)
  <2> SUFFICES ASSUME NEW k \in Keys PROVE L.volume[k] >= SizesIn(ord2, ToSet(L.list[k]))
    BY DEF Covered
  <2> DEFINE S == ToSet(L.list[k])
  <2>1. S \subseteq Orders
    BY <1>1
  <2>2. L.volume[k] >= SizesIn(ord, S) /\ L.volume[k] \in Nat
    BY <1>1 DEF Covered
  <2> HIDE DEF S
  <2>3. SizesIn(ord2, S) <= SizesIn(ord, S)
    BY <2>1, SizesOfSmaller
  <2>4. SizesIn(ord2, S) \in Nat /\ SizesIn(ord, S) \in Nat
    BY <2>1, SizesType
  <2>5. L.volume[k] >= SizesIn(ord2, S)
    BY <2>2, <2>3, <2>4
  <2> QED BY <2>5 DEF S
<1> QED BY <1>2, <1>3

-----------------------------------------------------------------------------
(* The invariant.                                                          *)

PoolTypes ==
  /\ pool_ \in Preallocated .. MaxOrders
  /\ available_orders_ \in Seq(Orders)
  /\ order_lookup_ \in [Ids -> Orders \cup {Null}]

VolTypes ==
  /\ vol \in [Sides -> IF update_possible THEN Int ELSE Int \cup {Null}]
  /\ update_possible \in BOOLEAN

\* The orders whose parent_ is a limit of side s.
OnSide(parent, s) == {o \in Orders : parent[o] # Null /\ parent[o][1] = s}

SidesCounted(parent, counts) == \A s \in Sides : counts[s] = Cardinality(OnSide(parent, s))

\* An order rests in a limit exactly while an id leads to it, and with a size.
LookedUpRest ==
  /\ \A o \in Orders : levels.parent[o] # Null <=> o \in LookedUp
  /\ \A o \in LookedUp : order[o].size > 0

IInv ==
  /\ PoolTypes
  /\ PoolPartition
  /\ VolTypes
  /\ LevelsOK(levels, order)
  /\ LookedUpRest
  /\ count \in [Sides -> Nat]
  /\ SidesCounted(levels.parent, count)

-----------------------------------------------------------------------------
(* The pool and the lookup.                                                *)

LEMMA PopStack ==
  ASSUME NEW stack \in Seq(Orders), stack # <<>>, IsInjective(stack)
  PROVE  /\ Front(stack) \in Seq(Orders) /\ IsInjective(Front(stack))
         /\ Last(stack) \in ToSet(stack)
         /\ ToSet(Front(stack)) = ToSet(stack) \ {Last(stack)}
<1> DEFINE n == Len(stack)
           front == Front(stack)
           last == Last(stack)
<1>1. n \in Nat /\ DOMAIN stack = 1 .. n /\ n >= 1 /\ \A i \in 1 .. n : stack[i] \in Orders
  OBVIOUS
<1>2. last = stack[n] /\ n \in 1 .. n
  BY <1>1 DEF Last
<1> HIDE DEF last
<1>3. /\ front \in Seq(Orders) /\ Len(front) = n - 1
      /\ \A i \in 1 .. n - 1 : front[i] = stack[i]
  <2>1. front = SubSeq(stack, 1, n - 1)
    BY DEF Front
  <2>2. 1 \in Int /\ n - 1 \in Int /\ \A i \in 1 .. n - 1 : stack[i] \in Orders
    BY <1>1
  <2> HIDE DEF front, n
  <2>3. /\ SubSeq(stack, 1, n - 1) \in Seq(Orders)
        /\ Len(SubSeq(stack, 1, n - 1)) = IF 1 <= n - 1 THEN (n - 1) - 1 + 1 ELSE 0
        /\ \A i \in 1 .. (n - 1) - 1 + 1 : SubSeq(stack, 1, n - 1)[i] = stack[1 + i - 1]
    BY <2>2, SubSeqProperties
  <2>4. (IF 1 <= n - 1 THEN (n - 1) - 1 + 1 ELSE 0) = n - 1 /\ (n - 1) - 1 + 1 = n - 1
        /\ \A i \in 1 .. n - 1 : 1 + i - 1 = i
    BY <1>1
  <2> QED BY <2>1, <2>3, <2>4
<1> HIDE DEF front, n
<1>4. DOMAIN front = 1 .. n - 1
  BY <1>3
<1>5. ToSet(stack) = {stack[i] : i \in 1 .. n} /\ ToSet(front) = {front[i] : i \in 1 .. n - 1}
  BY <1>1, <1>4 DEF ToSet
<1>6. 1 .. n = (1 .. n - 1) \cup {n} /\ n \notin 1 .. n - 1 /\ 1 .. n - 1 \subseteq 1 .. n
  BY <1>1
<1>7. \A i, j \in 1 .. n : stack[i] = stack[j] => i = j
  BY <1>1 DEF IsInjective
<1>8. IsInjective(front)
  BY <1>3, <1>4, <1>6, <1>7 DEF IsInjective
<1>9. ToSet(front) = ToSet(stack) \ {last}
  BY <1>2, <1>3, <1>5, <1>6, <1>7, SMTT(30)
<1>10. last \in ToSet(stack)
  BY <1>2, <1>5
<1> QED BY <1>3, <1>8, <1>9, <1>10 DEF front, last

\* What get_order hands out belonged to nobody, and now belongs to the id.
LEMMA GetOrderKeeps ==
  ASSUME PoolTypes, PoolPartition, NEW id \in Ids, ~Known(id), GetOrder,
         order_lookup_' = [order_lookup_ EXCEPT ![id] = NextOrder]
  PROVE  /\ NextOrder \in Orders /\ NextOrder \notin LookedUp
         /\ PoolTypes' /\ PoolPartition'
         /\ LookedUp' = LookedUp \cup {NextOrder}
<1> DEFINE o == NextOrder
<1>0. /\ pool_ \in Int /\ MaxOrders \in Nat /\ Preallocated \in Nat /\ Null \notin Orders
      /\ pool_ >= Preallocated /\ pool_ <= MaxOrders /\ available_orders_ \in Seq(Orders)
      /\ order_lookup_ \in [Ids -> Orders \cup {Null}] /\ order_lookup_[id] = Null
  BY ConstantTypes DEF PoolTypes, Known
<1>1. /\ o \in Orders /\ o \notin LookedUp
      /\ pool_' \in Preallocated .. MaxOrders /\ available_orders_' \in Seq(Orders)
      /\ IsInjective(available_orders_')
      /\ o \notin ToSet(available_orders_') /\ ToSet(available_orders_') \cap LookedUp = {}
      /\ ToSet(available_orders_') \cup LookedUp \cup {o} = 1 .. pool_'
  <2>1. CASE available_orders_ = <<>>
    <3>1. /\ pool_ < MaxOrders /\ pool_' = pool_ + 1 /\ available_orders_' = <<>>
          /\ o = pool_ + 1
      BY <2>1 DEF GetOrder, NextOrder
    <3>2. ToSet(<<>>) = {} /\ IsInjective(<<>>)
      BY EmptyList
    <3>3. LookedUp = 1 .. pool_
      BY <2>1, <3>2 DEF PoolPartition
    <3>4. 1 .. pool_ + 1 = (1 .. pool_) \cup {pool_ + 1} /\ pool_ + 1 \notin 1 .. pool_
          /\ pool_ + 1 \in 1 .. MaxOrders /\ pool_ + 1 \in Preallocated .. MaxOrders
      BY <1>0, <3>1
    <3> HIDE DEF o
    <3> QED BY <1>0, <2>1, <3>1, <3>2, <3>3, <3>4 DEF Orders
  <2>2. CASE available_orders_ # <<>>
    <3>1. /\ pool_' = pool_ /\ available_orders_' = Front(available_orders_)
          /\ o = Last(available_orders_)
      BY <2>2 DEF GetOrder, NextOrder
    <3>2. /\ ToSet(available_orders_) \cap LookedUp = {}
          /\ ToSet(available_orders_) \cup LookedUp = 1 .. pool_
          /\ IsInjective(available_orders_)
      BY DEF PoolPartition
    <3>3. /\ Front(available_orders_) \in Seq(Orders) /\ IsInjective(Front(available_orders_))
          /\ Last(available_orders_) \in ToSet(available_orders_)
          /\ ToSet(Front(available_orders_))
               = ToSet(available_orders_) \ {Last(available_orders_)}
      BY <1>0, <2>2, <3>2, PopStack
    <3>4. ToSet(available_orders_) \subseteq Orders
      BY <1>0, ListSet
    <3> HIDE DEF o
    <3> QED BY <1>0, <3>1, <3>2, <3>3, <3>4
  <2> QED BY <2>1, <2>2
<1> HIDE DEF o
<1>2. order_lookup_' = [order_lookup_ EXCEPT ![id] = o]
  BY DEF o
<1>3. order_lookup_' \in [Ids -> Orders \cup {Null}]
  BY <1>0, <1>1, <1>2
<1>4. LookedUp' = LookedUp \cup {o}
  <2>1. ASSUME NEW x \in LookedUp' PROVE x \in LookedUp \cup {o}
    BY <1>0, <1>2 DEF LookedUp
  <2>2. ASSUME NEW x \in LookedUp PROVE x \in LookedUp'
    <3>1. PICK a \in Ids : x = order_lookup_[a] /\ x # Null
      BY DEF LookedUp
    <3>2. a # id
      BY <1>0, <3>1
    <3>3. order_lookup_'[a] = x
      BY <1>0, <1>2, <3>1, <3>2
    <3> QED BY <3>1, <3>3 DEF LookedUp
  <2>3. o \in LookedUp'
    <3>1. order_lookup_'[id] = o /\ o # Null
      BY <1>0, <1>1, <1>2
    <3> QED BY <3>1 DEF LookedUp
  <2> QED BY <2>1, <2>2, <2>3
<1>5. \A a, b \in Ids : Known(a)' /\ order_lookup_'[a] = order_lookup_'[b] => a = b
  <2>1. \A a \in Ids : a # id => order_lookup_'[a] = order_lookup_[a]
    BY <1>0, <1>2
  <2>2. \A a \in Ids : order_lookup_[a] # o
    BY <1>0, <1>1 DEF LookedUp
  <2>3. order_lookup_'[id] = o
    BY <1>0, <1>2
  <2>4. \A a, b \in Ids : order_lookup_[a] # Null /\ order_lookup_[a] = order_lookup_[b] => a = b
    BY DEF PoolPartition, Known
  <2> SUFFICES ASSUME NEW a \in Ids, NEW b \in Ids, order_lookup_'[a] # Null,
                      order_lookup_'[a] = order_lookup_'[b]
               PROVE  a = b
    BY DEF Known
  <2> QED BY <2>1, <2>2, <2>3, <2>4
<1>6. PoolPartition'
  BY <1>1, <1>4, <1>5 DEF PoolPartition
<1>7. PoolTypes'
  BY <1>1, <1>3 DEF PoolTypes
<1> QED BY <1>1, <1>4, <1>6, <1>7 DEF o

\* return_order puts the order of an id that is forgotten on top of the stack.
LEMMA ReturnOrderKeeps ==
  ASSUME PoolTypes, PoolPartition, NEW id \in Ids, Known(id), ReturnOrder(order_lookup_[id]),
         order_lookup_' = [order_lookup_ EXCEPT ![id] = Null]
  PROVE  /\ PoolTypes' /\ PoolPartition'
         /\ LookedUp' = LookedUp \ {order_lookup_[id]}
<1> DEFINE o == order_lookup_[id]
<1>0. /\ Null \notin Orders /\ available_orders_ \in Seq(Orders)
      /\ order_lookup_ \in [Ids -> Orders \cup {Null}] /\ o # Null /\ o \in Orders
  BY ConstantTypes DEF PoolTypes, Known
<1>1. /\ ToSet(available_orders_) \cap LookedUp = {}
      /\ ToSet(available_orders_) \cup LookedUp = 1 .. pool_
      /\ IsInjective(available_orders_)
      /\ \A a, b \in Ids : order_lookup_[a] # Null /\ order_lookup_[a] = order_lookup_[b] => a = b
  BY DEF PoolPartition, Known
<1>2. o \in LookedUp
  BY <1>0 DEF LookedUp
<1>3. pool_' = pool_ /\ available_orders_' = Append(available_orders_, o)
  BY DEF ReturnOrder
<1>4. o = order_lookup_[id]
  OBVIOUS
<1> HIDE DEF o
<1>5. /\ available_orders_' \in Seq(Orders) /\ IsInjective(available_orders_')
      /\ ToSet(available_orders_') = ToSet(available_orders_) \cup {o}
  <2>1. o \notin ToSet(available_orders_)
    BY <1>1, <1>2
  <2> QED BY <1>0, <1>1, <1>3, <2>1, AppendOnce
<1>6. order_lookup_' \in [Ids -> Orders \cup {Null}]
  BY <1>0
<1>7. LookedUp' = LookedUp \ {o}
  <2>1. ASSUME NEW x \in LookedUp' PROVE x \in LookedUp \ {o}
    <3>1. PICK a \in Ids : x = order_lookup_'[a] /\ x # Null
      BY DEF LookedUp
    <3>2. a # id /\ order_lookup_[a] = x
      BY <1>0, <3>1
    <3> QED BY <1>1, <1>4, <3>1, <3>2 DEF LookedUp
  <2>2. ASSUME NEW x \in LookedUp, x # o PROVE x \in LookedUp'
    <3>1. PICK a \in Ids : x = order_lookup_[a] /\ x # Null
      BY DEF LookedUp
    <3>2. order_lookup_'[a] = x
      BY <1>0, <1>4, <2>2, <3>1
    <3> QED BY <3>1, <3>2 DEF LookedUp
  <2> QED BY <2>1, <2>2
<1>8. \A a, b \in Ids : Known(a)' /\ order_lookup_'[a] = order_lookup_'[b] => a = b
  <2> SUFFICES ASSUME NEW a \in Ids, NEW b \in Ids, order_lookup_'[a] # Null,
                      order_lookup_'[a] = order_lookup_'[b]
               PROVE  a = b
    BY DEF Known
  <2>1. a # id /\ b # id
    BY <1>0
  <2> QED BY <1>0, <1>1, <2>1
<1>9. PoolPartition'
  BY <1>1, <1>2, <1>3, <1>5, <1>7, <1>8 DEF PoolPartition
<1>10. PoolTypes'
  BY <1>3, <1>5, <1>6 DEF PoolTypes
<1> QED BY <1>4, <1>7, <1>9, <1>10

-----------------------------------------------------------------------------
(* The counters of the sides, and the running volumes.                     *)

LEMMA SideFinite ==
  ASSUME NEW f, NEW s
  PROVE  IsFiniteSet(OnSide(f, s)) /\ Cardinality(OnSide(f, s)) \in Nat
<1>1. OnSide(f, s) \in SUBSET Orders
  BY DEF OnSide
<1>2. IsFiniteSet(OnSide(f, s))
  BY <1>1, ConstantTypes, FS_Subset
<1> QED BY <1>2, FS_CardinalityType

\* An order that gets a parent_ is one more on its side.
LEMMA CountedIn ==
  ASSUME NEW f \in [Orders -> Keys \cup {Null}], NEW o \in Orders, f[o] = Null, NEW k \in Keys,
         NEW c \in [Sides -> Nat], SidesCounted(f, c)
  PROVE  SidesCounted([f EXCEPT ![o] = k], [c EXCEPT ![k[1]] = @ + 1])
<1> DEFINE g == [f EXCEPT ![o] = k]
<1> SUFFICES ASSUME NEW s \in Sides
             PROVE  [c EXCEPT ![k[1]] = @ + 1][s] = Cardinality(OnSide(g, s))
  BY DEF SidesCounted
<1>1. k[1] \in Sides /\ Null \notin Keys
  BY ConstantTypes DEF Keys
<1>2. IsFiniteSet(OnSide(f, s)) /\ c[s] = Cardinality(OnSide(f, s)) /\ c[s] \in Nat
  BY SideFinite DEF SidesCounted
<1>3. g[o] = k /\ \A x \in Orders : x # o => g[x] = f[x]
  OBVIOUS
<1> HIDE DEF g
<1>4. CASE s = k[1]
  <2>1. OnSide(g, s) = OnSide(f, s) \cup {o} /\ o \notin OnSide(f, s)
    BY <1>1, <1>3, <1>4 DEF OnSide
  <2>2. Cardinality(OnSide(g, s)) = Cardinality(OnSide(f, s)) + 1
    BY <1>2, <2>1, FS_AddElement
  <2> QED BY <1>1, <1>2, <1>4, <2>2
<1>5. CASE s # k[1]
  <2>1. OnSide(g, s) = OnSide(f, s)
    BY <1>1, <1>3, <1>5 DEF OnSide
  <2> QED BY <1>1, <1>2, <1>5, <2>1
<1> QED BY <1>4, <1>5

\* An order that loses its parent_ was counted, so that the counter does not wrap.
LEMMA CountedOut ==
  ASSUME NEW f \in [Orders -> Keys \cup {Null}], NEW o \in Orders, f[o] # Null,
         NEW c \in [Sides -> Nat], SidesCounted(f, c)
  PROVE  /\ [c EXCEPT ![f[o][1]] = @ - 1] \in [Sides -> Nat]
         /\ SidesCounted([f EXCEPT ![o] = Null], [c EXCEPT ![f[o][1]] = @ - 1])
<1> DEFINE g == [f EXCEPT ![o] = Null]
           t == f[o][1]
           d == [c EXCEPT ![t] = @ - 1]
<1>1. t \in Sides /\ f[o] \in Keys
  BY DEF Keys
<1>2. g[o] = Null /\ \A x \in Orders : x # o => g[x] = f[x]
  OBVIOUS
<1>3. t = f[o][1]
  OBVIOUS
<1> HIDE DEF g, t
<1>4. c[t] - 1 \in Nat
  <2>1. o \in OnSide(f, t)
    BY <1>3 DEF OnSide
  <2>2. IsFiniteSet(OnSide(f, t)) /\ c[t] = Cardinality(OnSide(f, t)) /\ c[t] \in Nat
    BY <1>1, SideFinite DEF SidesCounted
  <2>3. Cardinality(OnSide(f, t)) # 0
    BY <2>1, <2>2, FS_EmptySet
  <2> QED BY <2>2, <2>3
<1>5. d \in [Sides -> Nat]
  BY <1>1, <1>4
<1>6. ASSUME NEW s \in Sides PROVE d[s] = Cardinality(OnSide(g, s))
  <2>1. IsFiniteSet(OnSide(f, s)) /\ c[s] = Cardinality(OnSide(f, s)) /\ c[s] \in Nat
    BY SideFinite DEF SidesCounted
  <2>2. CASE s = t
    <3>1. OnSide(g, s) = OnSide(f, s) \ {o} /\ o \in OnSide(f, s)
      BY <1>2, <1>3, <2>2 DEF OnSide
    <3>2. Cardinality(OnSide(g, s)) = Cardinality(OnSide(f, s)) - 1
      BY <2>1, <3>1, FS_RemoveElement, ZenonT(40)
    <3> QED BY <1>1, <2>1, <2>2, <3>2
  <2>3. CASE s # t
    <3>1. OnSide(g, s) = OnSide(f, s)
      BY <1>2, <1>3, <2>3 DEF OnSide
    <3> QED BY <1>1, <2>1, <2>3, <3>1
  <2> QED BY <2>2, <2>3
<1>7. SidesCounted(g, d)
  <2> HIDE DEF d
  <2> QED BY <1>6 DEF SidesCounted
<1> QED BY <1>5, <1>7 DEF g, t

\* An order that moves stays counted on its side.
LEMMA CountedMoved ==
  ASSUME NEW f \in [Orders -> Keys \cup {Null}], NEW o \in Orders, f[o] # Null, NEW k \in Keys,
         k[1] = f[o][1], NEW c, SidesCounted(f, c)
  PROVE  SidesCounted([[f EXCEPT ![o] = Null] EXCEPT ![o] = k], c)
<1> DEFINE g == [[f EXCEPT ![o] = Null] EXCEPT ![o] = k]
<1>1. Null \notin Keys /\ g[o] = k /\ \A x \in Orders : x # o => g[x] = f[x]
  BY ConstantTypes
<1> HIDE DEF g
<1>2. \A s : OnSide(g, s) = OnSide(f, s)
  BY <1>1 DEF OnSide
<1>3. SidesCounted(g, c)
  BY <1>2 DEF SidesCounted
<1> QED BY <1>3 DEF g

LEMMA BestPricesInt ==
  ASSUME NEW L, NEW s
  PROVE  BestPrices(L, s) \subseteq Int
<1>1. Indeterminate \subseteq Int /\ Prices \subseteq Int
  BY OrderbookAssumption
<1>2. PricesOf(L, s) \subseteq Int
  BY <1>1 DEF PricesOf
<1> QED BY <1>1, <1>2 DEF BestPrices

LEMMA CountedInt ==
  ASSUME NEW p, NEW n \in Int, NEW best
  PROVE  Counted(p, n, best) \in Int
BY DEF Counted

\* A running volume stays an integer once it is one.
LEMMA UpdateVolKeeps ==
  ASSUME VolTypes, NEW L, NEW s \in Sides, NEW p, NEW n \in Int, UpdateVol(L, s, p, n),
         update_possible' = update_possible
  PROVE  VolTypes'
<1>1. CASE ~update_possible /\ UNCHANGED vol
  BY <1>1 DEF VolTypes
<1>2. CASE update_possible /\ \E best \in BestPrices(L, s) :
             vol' = [vol EXCEPT ![s] = @ + Counted(p, n, best)]
  <2>1. PICK best \in BestPrices(L, s) : vol' = [vol EXCEPT ![s] = @ + Counted(p, n, best)]
    BY <1>2
  <2>2. Counted(p, n, best) \in Int /\ vol \in [Sides -> Int]
    BY <1>2, CountedInt DEF VolTypes
  <2>3. vol' \in [Sides -> Int]
    BY <2>1, <2>2
  <2> QED BY <1>2, <2>3 DEF VolTypes
<1> QED BY <1>1, <1>2 DEF UpdateVol

LEMMA UpdateModifyVolKeeps ==
  ASSUME VolTypes, NEW L, NEW s \in Sides, NEW p, NEW q, NEW m \in Int, NEW n \in Int,
         UpdateModifyVol(L, s, p, q, m, n), update_possible' = update_possible
  PROVE  VolTypes'
<1>1. CASE ~update_possible /\ UNCHANGED vol
  BY <1>1 DEF VolTypes
<1>2. CASE update_possible /\ \E best \in BestPrices(L, s) :
             vol' = [vol EXCEPT ![s] = @ - Counted(p, m, best) + Counted(q, n, best)]
  <2>1. PICK best \in BestPrices(L, s) :
          vol' = [vol EXCEPT ![s] = @ - Counted(p, m, best) + Counted(q, n, best)]
    BY <1>2
  <2>2. Counted(p, m, best) \in Int /\ Counted(q, n, best) \in Int /\ vol \in [Sides -> Int]
    BY <1>2, CountedInt DEF VolTypes
  <2>3. vol' \in [Sides -> Int]
    BY <2>1, <2>2
  <2> QED BY <1>2, <2>3 DEF VolTypes
<1> QED BY <1>1, <1>2 DEF UpdateModifyVol

-----------------------------------------------------------------------------
(* The handlers keep the invariant.                                        *)

LEMMA SizesNat ==
  ASSUME NEW n \in Sizes
  PROVE  n \in Nat /\ n > 0 /\ n \in Int /\ -n \in Int
<1>1. n \in Nat \ {0}
  BY OrderbookAssumption
<1> QED BY <1>1

LEMMA AddLimitOrderKeeps ==
  ASSUME IInv, NEW s \in Sides, NEW id \in Ids, NEW p \in Prices, NEW n \in Sizes,
         ~Known(id), AddLimitOrder(s, id, p, n)
  PROVE  /\ IInv' /\ EmptyLevels' \subseteq EmptyLevels
         /\ NextOrder \in Orders /\ levels.parent[NextOrder] = Null
         /\ levels'.parent = [levels.parent EXCEPT ![NextOrder] = <<s, p>>]
<1> DEFINE o == NextOrder
           k == <<s, p>>
           G == GetOrInsertLimit(levels, k)
           L == LimitAdd(G, k, o, n)
<1>1. /\ PoolTypes /\ PoolPartition /\ VolTypes /\ LevelsOK(levels, order) /\ LookedUpRest
      /\ count \in [Sides -> Nat] /\ SidesCounted(levels.parent, count)
  BY DEF IInv
<1>2. /\ GetOrder
      /\ order' = [order EXCEPT ![o] = [price |-> p, size |-> n]]
      /\ order_lookup_' = [order_lookup_ EXCEPT ![id] = o]
      /\ levels' = L
      /\ count' = [count EXCEPT ![s] = @ + 1]
      /\ UpdateVol(L, s, p, n)
      /\ update_possible' = update_possible
  BY DEF AddLimitOrder
<1>3. n \in Nat /\ n > 0 /\ n \in Int
  BY SizesNat
<1>4. /\ o \in Orders /\ o \notin LookedUp
      /\ PoolTypes' /\ PoolPartition' /\ LookedUp' = LookedUp \cup {o}
  BY <1>1, <1>2, GetOrderKeeps
<1>5. VolTypes'
  <2> HIDE DEF L
  <2> QED BY <1>1, <1>2, <1>3, UpdateVolKeeps
<1>6. k \in Keys /\ k[1] = s /\ k[2] = p
  BY DEF Keys
<1>7. levels.parent \in [Orders -> Keys \cup {Null}] /\ order \in [Orders -> OrderRecord]
      /\ levels.parent[o] = Null /\ Null \notin Keys
  BY <1>1, <1>4, LevelsFields, ConstantTypes DEF LevelsOK, LookedUpRest
<1>8. /\ LevelsOK(G, order) /\ k \in G.at /\ G.parent = levels.parent
      /\ EmptyOf(G) \subseteq EmptyOf(levels) \cup {k}
  <2> HIDE DEF k
  <2> QED BY <1>1, <1>6, GetOrInsertKeeps
<1> HIDE DEF o, k, G
<1>9. /\ LevelsOK(L, [order EXCEPT ![o] = [price |-> k[2], size |-> n]])
      /\ L.parent = [G.parent EXCEPT ![o] = k]
      /\ EmptyOf(L) \subseteq EmptyOf(G) \ {k}
  BY <1>3, <1>4, <1>6, <1>7, <1>8, LimitAddKeeps
<1> HIDE DEF L
<1>10. LevelsOK(levels, order)'
  BY <1>2, <1>6, <1>9
<1>11. levels'.parent = [levels.parent EXCEPT ![o] = k]
  BY <1>2, <1>8, <1>9
<1>12. LookedUpRest'
  <2>1. \A x \in Orders : levels'.parent[x] # Null <=> x \in LookedUp'
    BY <1>1, <1>4, <1>6, <1>7, <1>11 DEF LookedUpRest
  <2>2. \A x \in LookedUp' : order'[x].size > 0
    <3> SUFFICES ASSUME NEW x \in LookedUp' PROVE order'[x].size > 0
      OBVIOUS
    <3>1. CASE x = o
      BY <1>2, <1>3, <1>4, <1>7, <3>1
    <3>2. CASE x # o
      BY <1>1, <1>2, <1>4, <1>7, <3>2 DEF LookedUpRest
    <3> QED BY <3>1, <3>2
  <2> QED BY <2>1, <2>2 DEF LookedUpRest
<1>13. count' \in [Sides -> Nat]
  BY <1>1, <1>2
<1>14. SidesCounted(levels'.parent, count')
  <2>1. SidesCounted([levels.parent EXCEPT ![o] = k], [count EXCEPT ![k[1]] = @ + 1])
    BY <1>1, <1>4, <1>6, <1>7, CountedIn
  <2> QED BY <1>2, <1>6, <1>11, <2>1
<1>15. EmptyLevels' \subseteq EmptyLevels
  BY <1>2, <1>8, <1>9 DEF EmptyLevels, EmptyOf
<1>16. /\ NextOrder \in Orders /\ levels.parent[NextOrder] = Null
       /\ levels'.parent = [levels.parent EXCEPT ![NextOrder] = <<s, p>>]
  BY <1>4, <1>7, <1>11 DEF o, k
<1> QED BY <1>4, <1>5, <1>10, <1>12, <1>13, <1>14, <1>15, <1>16 DEF IInv

\* The order of an id that rests on side s.
LEMMA RestingOrder ==
  ASSUME IInv, NEW s \in Sides, NEW id \in Ids, RestsOn(id, s)
  PROVE  LET o == order_lookup_[id]
         IN /\ o \in Orders /\ o \in LookedUp /\ Known(id)
            /\ levels.parent[o] = <<s, order[o].price>> /\ levels.parent[o] # Null
            /\ order[o].price \in Prices /\ order[o].size \in Nat
            /\ levels.parent[o] \in Keys /\ levels.parent[o] \in levels.at
<1> DEFINE o == order_lookup_[id]
<1>1. Known(id) /\ o # Null /\ levels.parent[o] = <<s, order[o].price>>
  BY DEF RestsOn, Known, OrderOf
<1>2. o \in Orders /\ o \in LookedUp
  BY <1>1 DEF IInv, PoolTypes, LookedUp
<1>3. levels.parent[o] # Null
  BY <1>2 DEF IInv, LookedUpRest
<1>4. order[o].size \in Nat
  BY <1>2 DEF IInv, LevelsOK, OrderRecord
<1>5. levels.parent[o] \in Keys /\ levels.parent[o] \in levels.at
  BY <1>2, <1>3, ParentHasOrder DEF IInv
<1>6. order[o].price \in Prices
  BY <1>1, <1>5 DEF Keys
<1> QED BY <1>1, <1>2, <1>3, <1>4, <1>5, <1>6

LEMMA RemoveOrderKeeps ==
  ASSUME IInv, NEW s \in Sides, NEW id \in Ids, RestsOn(id, s),
         RemoveOrder(s, id, OrderOf(id).price, OrderOf(id).size)
  PROVE  /\ IInv' /\ EmptyLevels' \subseteq EmptyLevels
         /\ levels'.parent = [levels.parent EXCEPT ![order_lookup_[id]] = Null]
<1> DEFINE o == order_lookup_[id]
           k == levels.parent[o]
           R == LimitRemove(levels, k, o, order[o].size)
           L == EraseIfEmpty(R, k, k)
<1>1. /\ PoolTypes /\ PoolPartition /\ VolTypes /\ LevelsOK(levels, order) /\ LookedUpRest
      /\ count \in [Sides -> Nat] /\ SidesCounted(levels.parent, count)
  BY DEF IInv
<1>2. /\ o \in Orders /\ o \in LookedUp /\ Known(id)
      /\ k = <<s, order[o].price>> /\ k # Null /\ order[o].size \in Nat
      /\ k \in Keys /\ k[1] = s
  BY RestingOrder
<1>3. /\ ReturnOrder(o)
      /\ order_lookup_' = [order_lookup_ EXCEPT ![id] = Null]
      /\ levels' = L
      /\ count' = [count EXCEPT ![s] = @ - 1]
      /\ UpdateVol(L, s, order[o].price, -order[o].size)
      /\ order' = order /\ update_possible' = update_possible
  BY <1>2 DEF RemoveOrder, OrderOf
<1>4. PoolTypes' /\ PoolPartition' /\ LookedUp' = LookedUp \ {o}
  BY <1>1, <1>2, <1>3, ReturnOrderKeeps
<1>5. /\ LevelsOK(R, order) /\ R.parent = [levels.parent EXCEPT ![o] = Null]
      /\ EmptyOf(R) \subseteq EmptyOf(levels) \cup {k}
  BY <1>1, <1>2, LimitRemoveKeeps, SMTT(30)
<1>6. levels.parent \in [Orders -> Keys \cup {Null}] /\ Null \notin Keys /\ k = levels.parent[o]
  BY <1>1, LevelsFields, ConstantTypes DEF LevelsOK
<1> HIDE DEF k, R
<1>7. /\ LevelsOK(L, order) /\ L.parent = R.parent
      /\ EmptyOf(L) \subseteq EmptyOf(R) \ {k}
  BY <1>2, <1>5, EraseKeeps
<1> HIDE DEF L, o
<1>8. VolTypes'
  <2>1. -order[o].size \in Int
    BY <1>2
  <2> QED BY <1>1, <1>3, <2>1, UpdateVolKeeps
<1>9. LevelsOK(levels, order)' /\ levels'.parent = [levels.parent EXCEPT ![o] = Null]
  BY <1>3, <1>5, <1>7
<1>10. LookedUpRest'
  BY <1>1, <1>2, <1>3, <1>4, <1>6, <1>9 DEF LookedUpRest
<1>11. count' \in [Sides -> Nat] /\ SidesCounted(levels'.parent, count')
  <2>1. /\ [count EXCEPT ![levels.parent[o][1]] = @ - 1] \in [Sides -> Nat]
        /\ SidesCounted([levels.parent EXCEPT ![o] = Null],
                        [count EXCEPT ![levels.parent[o][1]] = @ - 1])
    BY <1>1, <1>2, <1>6, CountedOut
  <2> QED BY <1>2, <1>3, <1>6, <1>9, <2>1
<1>12. EmptyLevels' \subseteq EmptyLevels
  BY <1>3, <1>5, <1>7 DEF EmptyLevels, EmptyOf
<1> QED BY <1>4, <1>8, <1>9, <1>10, <1>11, <1>12 DEF IInv, o

\* The lists after modify_order: a smaller size costs no priority.
ModifiedLists(s, o, p, n) ==
  IF order[o].price = p /\ order[o].size >= n THEN levels.list
  ELSE Joined(Parted(levels.list, levels.parent[o], o), <<s, p>>, o)

\* What modify_order does to the limits.
LEMMA ModifiedLevelsKeep ==
  ASSUME IInv, NEW s \in Sides, NEW id \in Ids, RestsOn(id, s), NEW p \in Prices, NEW n \in Sizes
  PROVE  LET o == order_lookup_[id]
             k == levels.parent[o]
             L == ModifiedLevels(s, o, p, n)
         IN /\ LevelsOK(L, [order EXCEPT ![o] = [price |-> p, size |-> n]])
            /\ L.list = ModifiedLists(s, o, p, n)
            /\ \/ L.parent = levels.parent
               \/ L.parent = [[levels.parent EXCEPT ![o] = Null] EXCEPT ![o] = <<s, p>>]
            /\ EmptyOf(L) \subseteq EmptyOf(levels)
<1> DEFINE o == order_lookup_[id]
           k == levels.parent[o]
           L == ModifiedLevels(s, o, p, n)
           after == [order EXCEPT ![o] = [price |-> p, size |-> n]]
           R == LimitRemove(levels, k, o, order[o].size)
           E == EraseIfEmpty(R, k, <<s, order[o].price>>)
           G == GetOrInsertLimit(E, <<s, p>>)
<1>1. /\ o \in Orders /\ k = <<s, order[o].price>> /\ k # Null /\ k \in Keys /\ k \in levels.at
      /\ order[o].price \in Prices /\ order[o].size \in Nat
  BY RestingOrder
<1>2. LevelsOK(levels, order) /\ k = levels.parent[o]
  BY DEF IInv
<1>3. n \in Nat
  BY SizesNat
<1>4. levels.parent \in [Orders -> Keys \cup {Null}] /\ order \in [Orders -> OrderRecord]
  BY <1>2, LevelsFields DEF LevelsOK
<1>5. /\ LevelsOK(R, order) /\ R.at = levels.at /\ R.list = Parted(levels.list, k, o)
      /\ R.parent = [levels.parent EXCEPT ![o] = Null]
      /\ EmptyOf(R) \subseteq EmptyOf(levels) \cup {k}
  BY <1>1, <1>2, LimitRemoveKeeps
<1>6. L = CASE order[o].price # p                       -> LimitAdd(G, <<s, p>>, o, n)
            [] order[o].price = p /\ order[o].size < n  -> LimitAdd(R, k, o, n)
            [] order[o].price = p /\ order[o].size >= n -> levels
  BY DEF ModifiedLevels
<1> HIDE DEF o, k, R, L, after
<1>7. R.parent[o] = Null /\ k \in R.at /\ LevelsOK(R, order)
  BY <1>1, <1>4, <1>5
<1>8. CASE order[o].price # p
  <2> DEFINE j == <<s, p>>
  <2>1. L = LimitAdd(G, j, o, n)
    BY <1>6, <1>8
  <2>2. j \in Keys /\ j[2] = p
    BY DEF Keys
  <2>3. /\ LevelsOK(E, order) /\ E.parent = R.parent /\ E.list = R.list
        /\ EmptyOf(E) \subseteq EmptyOf(R) \ {k}
    BY <1>1, <1>5, EraseKeeps
  <2> HIDE DEF E, j
  <2>4. /\ LevelsOK(G, order) /\ j \in G.at /\ G.parent = E.parent /\ G.list = E.list
        /\ EmptyOf(G) \subseteq EmptyOf(E) \cup {j}
    BY <2>2, <2>3, GetOrInsertKeeps DEF j
  <2> HIDE DEF G
  <2>5. /\ LevelsOK(L, [order EXCEPT ![o] = [price |-> j[2], size |-> n]])
        /\ L.list = Joined(G.list, j, o)
        /\ L.parent = [G.parent EXCEPT ![o] = j]
        /\ EmptyOf(L) \subseteq EmptyOf(G) \ {j}
    BY <1>1, <1>3, <1>7, <2>1, <2>2, <2>3, <2>4, LimitAddKeeps
  <2>6. LevelsOK(L, after)
    BY <2>2, <2>5 DEF after
  <2>7. L.parent = [[levels.parent EXCEPT ![o] = Null] EXCEPT ![o] = <<s, p>>]
    BY <1>5, <2>3, <2>4, <2>5 DEF j
  <2>8. EmptyOf(L) \subseteq EmptyOf(levels)
    BY <1>5, <2>3, <2>4, <2>5
  <2>9. L.list = Joined(Parted(levels.list, k, o), <<s, p>>, o)
    BY <1>5, <2>3, <2>4, <2>5 DEF j
  <2> QED BY <1>8, <2>6, <2>7, <2>8, <2>9 DEF o, k, L, after, ModifiedLists
<1>9. CASE order[o].price = p /\ order[o].size < n
  <2>1. L = LimitAdd(R, k, o, n)
    <3>1. ~(order[o].size >= n)
      BY <1>1, <1>3, <1>9
    <3> QED BY <1>6, <1>9, <3>1
  <2>2. k[2] = p /\ k = <<s, p>>
    BY <1>1, <1>9
  <2>3. /\ LevelsOK(L, [order EXCEPT ![o] = [price |-> k[2], size |-> n]])
        /\ L.list = Joined(R.list, k, o)
        /\ L.parent = [R.parent EXCEPT ![o] = k]
        /\ EmptyOf(L) \subseteq EmptyOf(R) \ {k}
    BY <1>1, <1>3, <1>7, <2>1, LimitAddKeeps
  <2>4. LevelsOK(L, after)
    BY <2>2, <2>3 DEF after
  <2>5. L.parent = [[levels.parent EXCEPT ![o] = Null] EXCEPT ![o] = <<s, p>>]
    BY <1>5, <2>2, <2>3
  <2>6. EmptyOf(L) \subseteq EmptyOf(levels)
    BY <1>5, <2>3
  <2>7. L.list = Joined(Parted(levels.list, k, o), <<s, p>>, o)
    BY <1>5, <2>2, <2>3
  <2>8. ~(order[o].price = p /\ order[o].size >= n)
    BY <1>1, <1>3, <1>9
  <2> QED BY <2>4, <2>5, <2>6, <2>7, <2>8 DEF o, k, L, after, ModifiedLists
<1>10. CASE order[o].price = p /\ order[o].size >= n
  <2>1. L = levels
    <3>1. ~(order[o].size < n)
      BY <1>1, <1>3, <1>10
    <3> QED BY <1>6, <1>10, <3>1
  <2>2. after \in [Orders -> OrderRecord]
    BY <1>1, <1>3, <1>4, <1>10 DEF after, OrderRecord
  <2>3. \A x \in Orders : after[x].price = order[x].price /\ after[x].size <= order[x].size
    <3> SUFFICES ASSUME NEW x \in Orders
                 PROVE  after[x].price = order[x].price /\ after[x].size <= order[x].size
      OBVIOUS
    <3>1. CASE x = o
      BY <1>4, <1>10, <3>1 DEF after
    <3>2. CASE x # o
      <4>1. after[x] = order[x] /\ order[x].size \in Nat
        BY <1>4, <3>2 DEF after, OrderRecord
      <4> QED BY <4>1
    <3> QED BY <3>1, <3>2
  <2>4. LevelsOK(L, after)
    BY <1>2, <2>1, <2>2, <2>3, ShrinkKeeps
  <2> QED BY <1>10, <2>1, <2>4 DEF o, L, after, ModifiedLists
<1> QED
  <2>1. order[o].size < n \/ order[o].size >= n
    BY <1>1, <1>3
  <2> QED BY <1>8, <1>9, <1>10, <2>1

LEMMA ModifyKnownKeeps ==
  ASSUME IInv, NEW s \in Sides, NEW id \in Ids, RestsOn(id, s), NEW p \in Prices, NEW n \in Sizes,
         ModifyKnown(s, id, p, n)
  PROVE  IInv' /\ EmptyLevels' \subseteq EmptyLevels
<1> DEFINE o == order_lookup_[id]
           k == levels.parent[o]
           L == ModifiedLevels(s, o, p, n)
<1>1. /\ PoolTypes /\ PoolPartition /\ VolTypes /\ LevelsOK(levels, order) /\ LookedUpRest
      /\ count \in [Sides -> Nat] /\ SidesCounted(levels.parent, count)
  BY DEF IInv
<1>2. /\ o \in Orders /\ o \in LookedUp /\ k = <<s, order[o].price>> /\ k # Null
      /\ order[o].size \in Nat /\ k \in Keys
  BY RestingOrder
<1>3. /\ levels' = L
      /\ order' = [order EXCEPT ![o] = [price |-> p, size |-> n]]
      /\ UpdateModifyVol(L, s, order[o].price, p, order[o].size, n)
      /\ UNCHANGED <<pool_, available_orders_, order_lookup_, count, update_possible>>
  BY DEF ModifyKnown
<1>4. n \in Nat /\ n > 0
  BY SizesNat
<1>5. /\ LevelsOK(L, [order EXCEPT ![o] = [price |-> p, size |-> n]])
      /\ \/ L.parent = levels.parent
         \/ L.parent = [[levels.parent EXCEPT ![o] = Null] EXCEPT ![o] = <<s, p>>]
      /\ EmptyOf(L) \subseteq EmptyOf(levels)
  BY ModifiedLevelsKeep
<1>6. levels.parent \in [Orders -> Keys \cup {Null}] /\ order \in [Orders -> OrderRecord]
      /\ Null \notin Keys /\ <<s, p>> \in Keys /\ k = levels.parent[o]
  BY <1>1, LevelsFields, ConstantTypes DEF LevelsOK, Keys
<1> HIDE DEF o, k, L
<1>7. LevelsOK(levels, order)' /\ EmptyLevels' \subseteq EmptyLevels
  BY <1>3, <1>5 DEF EmptyLevels, EmptyOf
<1>8. LookedUp' = LookedUp
  BY <1>3 DEF LookedUp
<1>9. PoolTypes' /\ PoolPartition'
  BY <1>1, <1>3, <1>8 DEF PoolTypes, PoolPartition, Known
<1>10. VolTypes'
  <2>1. n \in Int /\ order[o].size \in Int
    BY <1>2, <1>4
  <2> QED BY <1>1, <1>3, <2>1, UpdateModifyVolKeeps
<1>11. LookedUpRest'
  <2>1. \A x \in Orders : levels'.parent[x] # Null <=> levels.parent[x] # Null
    BY <1>2, <1>3, <1>5, <1>6
  <2>2. \A x \in LookedUp' : order'[x].size > 0
    <3> SUFFICES ASSUME NEW x \in LookedUp PROVE order'[x].size > 0
      BY <1>8
    <3>1. x \in Orders
      BY <1>1 DEF LookedUp, PoolTypes
    <3>2. CASE x = o
      BY <1>3, <1>4, <1>6, <3>1, <3>2
    <3>3. CASE x # o
      BY <1>1, <1>3, <1>6, <3>1, <3>3 DEF LookedUpRest
    <3> QED BY <3>2, <3>3
  <2> QED BY <1>1, <1>8, <2>1, <2>2 DEF LookedUpRest
<1>12. count' \in [Sides -> Nat] /\ SidesCounted(levels'.parent, count')
  <2>1. CASE L.parent = levels.parent
    BY <1>1, <1>3, <2>1
  <2>2. CASE L.parent = [[levels.parent EXCEPT ![o] = Null] EXCEPT ![o] = <<s, p>>]
    <3>1. <<s, p>>[1] = levels.parent[o][1] /\ levels.parent[o] # Null
      BY <1>2, <1>6
    <3>2. SidesCounted([[levels.parent EXCEPT ![o] = Null] EXCEPT ![o] = <<s, p>>], count)
      BY <1>1, <1>2, <1>6, <3>1, CountedMoved
    <3> QED BY <1>1, <1>3, <2>2, <3>2
  <2> QED BY <1>5, <2>1, <2>2
<1> QED BY <1>7, <1>9, <1>10, <1>11, <1>12 DEF IInv

\* What the walk of a trade finds left of the trade is a number.
LEMMA LeftIsInt ==
  ASSUME order \in [Orders -> OrderRecord], NEW q \in Seq(Orders), NEW i \in DOMAIN q,
         NEW n \in Int
  PROVE  Left(q, i, n) \in Int
<1> DEFINE f == [j \in DOMAIN q |-> order[q[j]].size]
<1>1. DOMAIN q = 1 .. Len(q) /\ Len(q) \in Nat /\ \A j \in DOMAIN q : q[j] \in Orders
  OBVIOUS
<1>2. \A j \in DOMAIN q : f[j] \in Int
  BY <1>1 DEF OrderRecord
<1>3. i \in Int /\ 1 .. i - 1 \subseteq DOMAIN q
  BY <1>1
<1>4. IsFiniteSet(1 .. i - 1)
  BY <1>3, FS_Interval
<1> HIDE DEF f
<1>5. SumFunctionOnSet(f, 1 .. i - 1) \in Int
  BY <1>2, <1>3, <1>4, FiniteSumType
<1>6. Left(q, i, n) = n - SumFunctionOnSet(f, 1 .. i - 1)
  BY DEF Left, f
<1> QED BY <1>5, <1>6

\* The places of a list that a trade of n lots reaches without exhausting the order there.
Reached(q, n) == {i \in DOMAIN q : Left(q, i, n) \in 1 .. order[q[i]].size - 1}

\* A walk takes from an order that it reaches what is left for it, and nothing from the others.
LEMMA WalkTakes ==
  ASSUME order \in [Orders -> OrderRecord], NEW q \in Seq(Orders), IsInjective(q), NEW n \in Int,
         NEW s, WalkList(q, n, s)
  PROVE  /\ \A i \in Reached(q, n) :
              order'[q[i]] = [price |-> order[q[i]].price,
                              size  |-> order[q[i]].size - Left(q, i, n)]
         /\ \A o \in Orders : (\A i \in Reached(q, n) : q[i] # o) => order'[o] = order[o]
         /\ order' = [o \in Orders |-> order'[o]]
<1> DEFINE f == [i \in DOMAIN q |-> Left(q, i, n)]
           P == Reached(q, n)
           Of(o) == {i \in P : q[i] = o}
<1>1. order' = [o \in Orders |-> [order[o] EXCEPT !.size = @ - SumFunctionOnSet(f, Of(o))]]
  BY DEF WalkList, Reached
<1>2. P \subseteq DOMAIN q /\ \A i \in DOMAIN q : f[i] \in Int /\ f[i] = Left(q, i, n)
  BY LeftIsInt DEF Reached
<1>3. \A i \in DOMAIN q : q[i] \in Orders
  OBVIOUS
<1> HIDE DEF f, P
<1>4. \A o \in Orders : /\ order[o].size \in Nat
                        /\ order[o] = [price |-> order[o].price, size |-> order[o].size]
  BY DEF OrderRecord
<1>5. ASSUME NEW i \in P
      PROVE  order'[q[i]] = [price |-> order[q[i]].price, size |-> order[q[i]].size - Left(q, i, n)]
  <2>1. i \in DOMAIN q /\ q[i] \in Orders
    BY <1>2, <1>3
  <2>2. Of(q[i]) = {i}
    BY <1>2, <2>1 DEF IsInjective
  <2>3. SumFunctionOnSet(f, {} \cup {i}) = f[i] + SumFunctionOnSet(f, {})
    <3>1. IsFiniteSet({}) /\ i \notin {} /\ f[i] \in Int /\ \A y \in {} : f[y] \in Int
      BY <1>2, <2>1, FS_EmptySet
    <3> QED BY <3>1, FiniteSumWith
  <2>4. SumFunctionOnSet(f, {i}) = Left(q, i, n)
    <3>1. SumFunctionOnSet(f, {}) = 0 /\ {} \cup {i} = {i} /\ f[i] \in Int /\ f[i] = Left(q, i, n)
      BY <1>2, <2>1, FiniteSumEmpty
    <3> QED BY <2>3, <3>1
  <2>5. order'[q[i]] = [order[q[i]] EXCEPT !.size = @ - SumFunctionOnSet(f, Of(q[i]))]
    BY <1>1, <2>1
  <2> HIDE DEF Of
  <2>6. order'[q[i]] = [order[q[i]] EXCEPT !.size = @ - Left(q, i, n)]
    BY <2>2, <2>4, <2>5
  <2> QED BY <1>4, <2>1, <2>6
<1>6. ASSUME NEW o \in Orders, \A i \in P : q[i] # o
      PROVE  order'[o] = order[o]
  <2>1. Of(o) = {}
    BY <1>6
  <2>2. SumFunctionOnSet(f, {}) = 0
    BY FiniteSumEmpty
  <2>3. order'[o] = [order[o] EXCEPT !.size = @ - SumFunctionOnSet(f, Of(o))]
    BY <1>1
  <2> HIDE DEF Of
  <2>4. order'[o] = [order[o] EXCEPT !.size = @ - 0]
    BY <2>1, <2>2, <2>3
  <2>5. order[o].size - 0 = order[o].size
    BY <1>4
  <2> QED BY <1>4, <2>4, <2>5
<1>7. order' = [o \in Orders |-> order'[o]]
  BY <1>1
<1> QED BY <1>5, <1>6, <1>7 DEF P

\* A walk reduces the one order that it fills in part, and leaves some of it.
LEMMA WalkListKeeps ==
  ASSUME order \in [Orders -> OrderRecord], VolTypes, update_possible' = update_possible,
         NEW q \in Seq(Orders), IsInjective(q), NEW n \in Int, NEW s \in Sides, WalkList(q, n, s)
  PROVE  /\ order' \in [Orders -> OrderRecord]
         /\ \A o \in Orders :
              /\ order'[o].price = order[o].price /\ order'[o].size <= order[o].size
              /\ order[o].size > 0 => order'[o].size > 0
         /\ VolTypes'
<1> DEFINE reached == Reached(q, n)
           f == [i \in DOMAIN q |-> Left(q, i, n)]
<1>1. \/ vol[s] # Null /\ vol' = [vol EXCEPT ![s] = @ - SumFunctionOnSet(f, reached)]
      \/ vol[s] = Null /\ UNCHANGED vol
  BY DEF WalkList, Reached
<1>2. IsFiniteSet(DOMAIN q) /\ reached \subseteq DOMAIN q
  <2>1. DOMAIN q = 1 .. Len(q) /\ Len(q) \in Int
    OBVIOUS
  <2> QED BY <2>1, FS_Interval DEF Reached
<1>3. \A i \in DOMAIN q : f[i] \in Int /\ f[i] = Left(q, i, n)
  BY LeftIsInt
<1> HIDE DEF f
<1>4. ASSUME NEW o \in Orders
      PROVE  /\ order'[o] \in OrderRecord
             /\ order'[o].price = order[o].price /\ order'[o].size <= order[o].size
             /\ order[o].size > 0 => order'[o].size > 0
  <2>1. order[o] \in OrderRecord /\ order[o].size \in Nat
    BY DEF OrderRecord
  <2>2. CASE \A i \in reached : q[i] # o
    <3>1. order'[o] = order[o]
      BY <2>2, WalkTakes
    <3> QED BY <2>1, <3>1
  <2>3. CASE \E i \in reached : q[i] = o
    <3>1. PICK i \in reached : q[i] = o
      BY <2>3
    <3>2. order'[o] = [price |-> order[o].price, size |-> order[o].size - Left(q, i, n)]
      BY <3>1, WalkTakes
    <3>3. Left(q, i, n) \in 1 .. order[o].size - 1
      BY <3>1 DEF Reached
    <3>4. /\ order[o].size - Left(q, i, n) \in Nat
          /\ order[o].size - Left(q, i, n) <= order[o].size
          /\ order[o].size - Left(q, i, n) > 0
      BY <2>1, <3>3
    <3> QED BY <2>1, <3>2, <3>4 DEF OrderRecord
  <2> QED BY <2>2, <2>3
<1>5. order' \in [Orders -> OrderRecord]
  BY <1>4, WalkTakes
<1> HIDE DEF reached
<1>6. VolTypes'
  <2>1. SumFunctionOnSet(f, reached) \in Int
    <3>1. IsFiniteSet(reached) /\ \A i \in reached : f[i] \in Int
      BY <1>2, <1>3, FS_Subset
    <3> QED BY <3>1, FiniteSumType
  <2>2. CASE vol[s] = Null /\ UNCHANGED vol
    BY <2>2 DEF VolTypes
  <2>3. CASE vol[s] # Null /\ vol' = [vol EXCEPT ![s] = @ - SumFunctionOnSet(f, reached)]
    <3>1. vol[s] \in Int
      BY <2>3 DEF VolTypes
    <3>2. vol[s] - SumFunctionOnSet(f, reached) \in Int
      BY <2>1, <3>1
    <3> QED BY <2>3, <3>2 DEF VolTypes
  <2> QED BY <1>1, <2>2, <2>3
<1> QED BY <1>4, <1>5, <1>6

\* A trade may add an empty limit, and moves no order.
LEMMA TradeOrderKeeps ==
  ASSUME IInv, NEW s \in Sides, NEW p \in Prices, NEW n \in Sizes, TradeOrder(s, p, n)
  PROVE  /\ IInv' /\ UNCHANGED <<order_lookup_, count>>
         /\ levels'.list = levels.list /\ levels'.parent = levels.parent
<1> DEFINE k == <<~s, p>>
           L == GetOrInsertLimit(levels, k)
<1>1. /\ PoolTypes /\ PoolPartition /\ VolTypes /\ LevelsOK(levels, order) /\ LookedUpRest
      /\ count \in [Sides -> Nat] /\ SidesCounted(levels.parent, count)
  BY DEF IInv
<1>2. CASE UNCHANGED vars
  <2>1. IInv'
    BY <1>1, <1>2 DEF vars, IInv, PoolTypes, PoolPartition, VolTypes, LookedUpRest, LookedUp, Known
  <2> QED BY <1>2, <2>1 DEF vars
<1>3. CASE /\ levels' = L
           /\ WalkList(L.list[k], n, ~s)
           /\ UNCHANGED <<pool_, available_orders_, order_lookup_, count, update_possible>>
  <2>1. k \in Keys /\ (~s) \in Sides
    <3>1. (~s) \in Sides
      BY Zenon DEF Sides
    <3> QED BY <3>1 DEF Keys
  <2> HIDE DEF k
  <2>2. LevelsOK(L, order) /\ L.parent = levels.parent /\ L.list = levels.list
    BY <1>1, <2>1, GetOrInsertKeeps
  <2> HIDE DEF L
  <2>3. order \in [Orders -> OrderRecord] /\ L.list[k] \in Seq(Orders) /\ IsInjective(L.list[k])
    BY <2>1, <2>2, LevelsFields DEF LevelsOK, Once
  <2>4. n \in Int
    BY SizesNat
  <2>5. /\ order' \in [Orders -> OrderRecord]
        /\ \A o \in Orders :
             /\ order'[o].price = order[o].price /\ order'[o].size <= order[o].size
             /\ order[o].size > 0 => order'[o].size > 0
        /\ VolTypes'
    BY <1>1, <1>3, <2>1, <2>3, <2>4, WalkListKeeps
  <2>6. LevelsOK(L, order')
    BY <2>2, <2>5, ShrinkKeeps
  <2>7. LookedUp' = LookedUp
    BY <1>3 DEF LookedUp
  <2>8. PoolTypes' /\ PoolPartition'
    BY <1>1, <1>3, <2>7 DEF PoolTypes, PoolPartition, Known
  <2>9. LookedUp \subseteq Orders
    BY <1>1 DEF PoolTypes, LookedUp
  <2>10. LookedUpRest'
    BY <1>1, <1>3, <2>2, <2>5, <2>7, <2>9 DEF LookedUpRest
  <2>11. LevelsOK(levels, order)' /\ SidesCounted(levels'.parent, count')
    BY <1>1, <1>3, <2>2, <2>6
  <2> QED BY <1>1, <1>3, <2>2, <2>5, <2>8, <2>10, <2>11 DEF IInv
<1> QED BY <1>2, <1>3 DEF TradeOrder

LEMMA CalculateVolsKeeps ==
  ASSUME IInv, CalculateVols
  PROVE  IInv' /\ levels' = levels
<1>1. /\ PoolTypes /\ PoolPartition /\ VolTypes /\ LevelsOK(levels, order) /\ LookedUpRest
      /\ count \in [Sides -> Nat] /\ SidesCounted(levels.parent, count)
  BY DEF IInv
<1>2. /\ vol' = [s \in Sides |->
                   SumFunctionOnSet([p \in Prices |-> levels.volume[<<s, p>>]], FirstLevels(s))]
      /\ update_possible' = TRUE
      /\ UNCHANGED <<pool_, available_orders_, order, order_lookup_, levels, count>>
  BY DEF CalculateVols
<1>3. ASSUME NEW s \in Sides
      PROVE  SumFunctionOnSet([p \in Prices |-> levels.volume[<<s, p>>]], FirstLevels(s)) \in Int
  <2> DEFINE f == [p \in Prices |-> levels.volume[<<s, p>>]]
  <2>1. FirstLevels(s) \in SUBSET PricesOf(levels, s) /\ PricesOf(levels, s) \subseteq Prices
    BY DEF FirstLevels, PricesOf
  <2>2. IsFiniteSet(FirstLevels(s))
    <3>1. IsFiniteSet(PricesOf(levels, s))
      BY <1>1 DEF LevelsOK, InMaps
    <3> QED BY <2>1, <3>1, FS_Subset
  <2>3. \A p \in Prices : f[p] \in Int
    <3>1. levels.volume \in [Keys -> Nat]
      BY <1>1, LevelsFields DEF LevelsOK
    <3> QED BY <3>1 DEF Keys
  <2> HIDE DEF f
  <2>4. SumFunctionOnSet(f, FirstLevels(s)) \in Int
    BY <2>1, <2>2, <2>3, FiniteSumType
  <2> QED BY <2>4 DEF f
<1>4. VolTypes'
  <2>1. vol' \in [Sides -> Int]
    BY <1>2, <1>3
  <2> QED BY <1>2, <2>1 DEF VolTypes
<1>5. IInv'
  BY <1>1, <1>2, <1>4 DEF IInv, PoolTypes, PoolPartition, LookedUpRest, LookedUp, Known
<1> QED BY <1>2, <1>5

-----------------------------------------------------------------------------
(* The book by ids.                                                        *)


\* The id that leads to an order, and the ids that lead to the orders of a list.
IdIn(lookup, o) == CHOOSE id \in Ids : lookup[id] = o

Names(list, lookup) == [i \in DOMAIN list |-> IdIn(lookup, list[i])]

QueuesOf(lists, lookup) == [s \in Sides |-> [p \in Prices |-> Names(lists[<<s, p>>], lookup)]]

SizesOf(ord, lookup) == [id \in Ids |-> IF lookup[id] # Null THEN ord[lookup[id]].size ELSE 0]

\* No two ids lead to one order.
OneId(lookup) ==
  \A a, b \in Ids : lookup[a] # Null /\ lookup[a] = lookup[b] => a = b

\* Every order is on one list at most, once, and an id leads to it if it is.
Tidy(lists, lookup) ==
  /\ lists \in [Keys -> Seq(Orders)]
  /\ lookup \in [Ids -> Orders \cup {Null}]
  /\ OneId(lookup)
  /\ \A k \in Keys : IsInjective(lists[k])
  /\ \A k \in Keys : \A o \in ToSet(lists[k]) : \E id \in Ids : lookup[id] = o
  /\ \A j \in Keys, k \in Keys : ToSet(lists[j]) \cap ToSet(lists[k]) # {} => j = k

\* later leads to the orders of S as lookup does.
SameIds(S, lookup, later) ==
  /\ OneId(later)
  /\ \A id \in Ids : lookup[id] \in S => later[id] = lookup[id]

LEMMA IdInIs ==
  ASSUME NEW lookup, OneId(lookup), NEW id \in Ids, lookup[id] # Null
  PROVE  IdIn(lookup, lookup[id]) = id
BY DEF IdIn, OneId

\* An order keeps its id.
LEMMA IdStays ==
  ASSUME NEW lookup, OneId(lookup), NEW later, NEW S, SameIds(S, lookup, later),
         NEW o \in S, o # Null, \E id \in Ids : lookup[id] = o
  PROVE  IdIn(later, o) = IdIn(lookup, o)
<1>1. PICK id \in Ids : lookup[id] = o
  OBVIOUS
<1>2. later[id] = o /\ OneId(later)
  BY <1>1 DEF SameIds
<1>3. IdIn(lookup, lookup[id]) = id /\ IdIn(later, later[id]) = id
  BY <1>1, <1>2, IdInIs
<1> QED BY <1>1, <1>2, <1>3

\* The ids of a list are a sequence of ids as long as the list.
LEMMA NamesType ==
  ASSUME NEW lists, NEW lookup, Tidy(lists, lookup), NEW k \in Keys
  PROVE  /\ Names(lists[k], lookup) \in Seq(Ids)
         /\ Len(Names(lists[k], lookup)) = Len(lists[k])
         /\ DOMAIN Names(lists[k], lookup) = 1 .. Len(lists[k])
         /\ \A i \in 1 .. Len(lists[k]) :
              /\ Names(lists[k], lookup)[i] \in Ids
              /\ lookup[Names(lists[k], lookup)[i]] = lists[k][i]
<1> DEFINE list == lists[k]
           names == Names(list, lookup)
<1>1. list \in Seq(Orders) /\ Len(list) \in Nat /\ DOMAIN list = 1 .. Len(list)
  BY DEF Tidy
<1>2. \A i \in 1 .. Len(list) : \E id \in Ids : lookup[id] = list[i]
  BY <1>1 DEF Tidy, ToSet
<1> HIDE DEF list
<1>3. names = [i \in 1 .. Len(list) |-> IdIn(lookup, list[i])]
  BY <1>1 DEF Names
<1>4. \A i \in 1 .. Len(list) : IdIn(lookup, list[i]) \in Ids /\ lookup[IdIn(lookup, list[i])] = list[i]
  BY <1>2 DEF IdIn
<1>5. names \in Seq(Ids) /\ Len(names) = Len(list)
  BY <1>1, <1>3, <1>4
<1> QED BY <1>3, <1>4, <1>5 DEF list

\* A list that stays is a queue that stays.
LEMMA NamesStay ==
  ASSUME NEW lists, NEW lookup, Tidy(lists, lookup), NEW k \in Keys, NEW later,
         SameIds(ToSet(lists[k]), lookup, later)
  PROVE  Names(lists[k], later) = Names(lists[k], lookup)
<1>1. Null \notin Orders
  BY ConstantTypes
<1>2. lists[k] \in Seq(Orders) /\ OneId(lookup)
  BY DEF Tidy
<1>3. \A i \in DOMAIN lists[k] : lists[k][i] \in ToSet(lists[k]) /\ lists[k][i] # Null
  BY <1>1, <1>2 DEF ToSet
<1>4. \A i \in DOMAIN lists[k] : \E id \in Ids : lookup[id] = lists[k][i]
  BY <1>3 DEF Tidy
<1>5. \A i \in DOMAIN lists[k] : IdIn(later, lists[k][i]) = IdIn(lookup, lists[k][i])
  BY <1>2, <1>3, <1>4, IdStays
<1> QED BY <1>5 DEF Names

\* An order that joins a list joins its queue.
LEMMA NamesAppend ==
  ASSUME NEW lists, NEW lookup, Tidy(lists, lookup), NEW k \in Keys, NEW later,
         SameIds(ToSet(lists[k]), lookup, later),
         NEW o \in Orders, NEW id \in Ids, later[id] = o
  PROVE  Names(Append(lists[k], o), later) = Append(Names(lists[k], lookup), id)
<1> DEFINE list == lists[k]
           n == Len(list)
           names == Names(list, lookup)
           longer == Append(list, o)
           joined == Append(names, id)
<1>1. list \in Seq(Orders) /\ n \in Nat /\ DOMAIN list = 1 .. n /\ Null \notin Orders
  BY ConstantTypes DEF Tidy
<1>2. Names(list, later) = names
  BY NamesStay
<1>3. names \in Seq(Ids) /\ Len(names) = n /\ \A i \in 1 .. n : names[i] = IdIn(later, list[i])
  <2>1. names \in Seq(Ids) /\ Len(names) = n
    BY NamesType
  <2>2. Names(list, later) = [i \in 1 .. n |-> IdIn(later, list[i])]
    BY <1>1 DEF Names
  <2> HIDE DEF names, list, n
  <2> QED BY <1>2, <2>1, <2>2
<1>4. IdIn(later, o) = id
  BY <1>1, IdInIs DEF SameIds
<1> HIDE DEF names, list, n
<1>5. /\ longer \in Seq(Orders) /\ Len(longer) = n + 1 /\ DOMAIN longer = 1 .. n + 1
      /\ longer[n + 1] = o /\ \A i \in 1 .. n : longer[i] = list[i]
  <2>1. n = Len(list)
    BY DEF n
  <2> QED BY <1>1, <2>1, AppendProperties
<1>6. /\ joined \in Seq(Ids) /\ Len(joined) = n + 1 /\ joined[n + 1] = id
      /\ \A i \in 1 .. n : joined[i] = names[i]
  BY <1>3, AppendProperties
<1> HIDE DEF longer, joined
<1>7. Names(longer, later) = [i \in 1 .. n + 1 |-> IdIn(later, longer[i])]
  BY <1>5 DEF Names
<1>8. \A i \in 1 .. n + 1 : IdIn(later, longer[i]) = joined[i]
  <2> SUFFICES ASSUME NEW i \in 1 .. n + 1 PROVE IdIn(later, longer[i]) = joined[i]
    OBVIOUS
  <2>1. CASE i \in 1 .. n
    BY <1>3, <1>5, <1>6, <2>1
  <2>2. CASE i = n + 1
    BY <1>4, <1>5, <1>6, <2>2
  <2>3. i \in 1 .. n \/ i = n + 1
    BY <1>1
  <2> QED BY <2>1, <2>2, <2>3
<1>9. joined = [i \in 1 .. n + 1 |-> joined[i]]
  BY <1>6
<1>10. Names(longer, later) = joined
  BY <1>7, <1>8, <1>9
<1> QED BY <1>10 DEF longer, joined, names, list

\* An order that leaves a list leaves its queue.
LEMMA NamesRemove ==
  ASSUME NEW lists, NEW lookup, Tidy(lists, lookup), NEW k \in Keys,
         NEW id \in Ids, lookup[id] \in ToSet(lists[k])
  PROVE  Names(RemoveAt(lists[k], PlaceOf(lists[k], lookup[id])), lookup)
           = Priority!Without(Names(lists[k], lookup), id)
<1> DEFINE o == lookup[id]
           list == lists[k]
           n == Len(list)
           names == Names(list, lookup)
           place == PlaceOf(list, o)
           left == RemoveAt(list, place)
<1>1. list \in Seq(Orders) /\ n \in Nat /\ DOMAIN list = 1 .. n /\ Null \notin Orders
      /\ IsInjective(list) /\ OneId(lookup)
  BY ConstantTypes DEF Tidy
<1>2. place \in 1 .. n /\ list[place] = o
  <2>1. \E i \in DOMAIN list : list[i] = o
    BY DEF ToSet
  <2> QED BY <1>1, <2>1 DEF PlaceOf
<1>3. /\ names \in Seq(Ids) /\ Len(names) = n /\ DOMAIN names = 1 .. n
      /\ \A i \in 1 .. n : names[i] = IdIn(lookup, list[i]) /\ lookup[names[i]] = list[i]
  <2>1. /\ names \in Seq(Ids) /\ Len(names) = n /\ DOMAIN names = 1 .. n
        /\ \A i \in 1 .. n : lookup[names[i]] = list[i]
    BY NamesType
  <2>2. names = [i \in 1 .. n |-> IdIn(lookup, list[i])]
    BY <1>1 DEF Names
  <2> HIDE DEF names, list, n
  <2> QED BY <2>1, <2>2
<1>4. \A i \in 1 .. n : names[i] = id <=> i = place
  <2>1. o # Null
    BY <1>1, <1>2
  <2>2. IdIn(lookup, o) = id
    BY <1>1, <2>1, IdInIs
  <2>3. names[place] = id
    BY <1>2, <1>3, <2>2
  <2>4. ASSUME NEW i \in 1 .. n, names[i] = id PROVE i = place
    BY <1>1, <1>2, <1>3, <2>4 DEF IsInjective
  <2> QED BY <2>3, <2>4
<1>5. Priority!PlaceOf(names, id) = place
  BY <1>2, <1>3, <1>4 DEF Priority!PlaceOf
<1>6. Priority!Without(names, id) = RemoveAt(names, place)
  <2>1. Priority!Contains(names, id)
    BY <1>2, <1>3, <1>4 DEF Priority!Contains
  <2>2. Priority!RemoveAt(names, place) = RemoveAt(names, place)
    BY DEF Priority!RemoveAt, RemoveAt
  <2> QED BY <1>5, <2>1, <2>2 DEF Priority!Without
<1> HIDE DEF place, names, list
<1>7. /\ left \in Seq(Orders) /\ Len(left) = n - 1
      /\ \A j \in 1 .. n - 1 : left[j] = IF j < place THEN list[j] ELSE list[j + 1]
  BY <1>1, <1>2, RemoveAtElements
<1>8. /\ RemoveAt(names, place) \in Seq(Ids) /\ Len(RemoveAt(names, place)) = n - 1
      /\ \A j \in 1 .. n - 1 :
           RemoveAt(names, place)[j] = IF j < place THEN names[j] ELSE names[j + 1]
  <2>1. place \in 1 .. Len(names)
    BY <1>2, <1>3
  <2> HIDE DEF n
  <2> QED BY <1>3, <2>1, RemoveAtElements
<1> HIDE DEF left, n
<1>9. Names(left, lookup) = [j \in 1 .. n - 1 |-> IdIn(lookup, left[j])]
  BY <1>1, <1>7 DEF Names
<1>10. \A j \in 1 .. n - 1 : IdIn(lookup, left[j]) = RemoveAt(names, place)[j]
  <2> SUFFICES ASSUME NEW j \in 1 .. n - 1
               PROVE  IdIn(lookup, left[j]) = RemoveAt(names, place)[j]
    OBVIOUS
  <2>1. j \in 1 .. n /\ j + 1 \in 1 .. n
    BY <1>1
  <2>2. CASE j < place
    BY <1>3, <1>7, <1>8, <2>1, <2>2
  <2>3. CASE ~(j < place)
    BY <1>3, <1>7, <1>8, <2>1, <2>3
  <2> QED BY <2>2, <2>3
<1>11. RemoveAt(names, place) = [j \in 1 .. n - 1 |-> RemoveAt(names, place)[j]]
  BY <1>8
<1>12. Names(left, lookup) = Priority!Without(names, id)
  BY <1>6, <1>9, <1>10, <1>11
<1> QED BY <1>12 DEF left, names, list, place

\* An order on another list leaves a queue as it is.
LEMMA NamesWithout ==
  ASSUME NEW lists, NEW lookup, Tidy(lists, lookup), NEW k \in Keys,
         NEW id \in Ids, lookup[id] \notin ToSet(lists[k])
  PROVE  Priority!Without(Names(lists[k], lookup), id) = Names(lists[k], lookup)
<1> DEFINE names == Names(lists[k], lookup)
<1>1. DOMAIN lists[k] = 1 .. Len(lists[k])
  BY DEF Tidy
<1>2. Len(names) = Len(lists[k]) /\ \A i \in 1 .. Len(lists[k]) : lookup[names[i]] = lists[k][i]
  BY NamesType
<1>3. \A i \in 1 .. Len(names) : names[i] # id
  BY <1>1, <1>2 DEF ToSet
<1> HIDE DEF names
<1>4. ~Priority!Contains(names, id)
  BY <1>3 DEF Priority!Contains
<1>5. Priority!Without(names, id) = names
  BY <1>4 DEF Priority!Without
<1> QED BY <1>5 DEF names

LEMMA QueuesJoin ==
  ASSUME NEW lists, NEW lookup, Tidy(lists, lookup), NEW later,
         \A k \in Keys : SameIds(ToSet(lists[k]), lookup, later),
         NEW s \in Sides, NEW p \in Prices, NEW o \in Orders, NEW id \in Ids, later[id] = o
  PROVE  QueuesOf(Joined(lists, <<s, p>>, o), later)
           = Priority!Join(QueuesOf(lists, lookup), id, s, p)
<1> DEFINE after == [lists EXCEPT ![<<s, p>>] = Append(lists[<<s, p>>], o)]
           q == QueuesOf(lists, lookup)
           joined(t, r) == IF t = s /\ r = p THEN Append(q[t][r], id) ELSE q[t][r]
<1>1. q = [t \in Sides |-> [r \in Prices |-> Names(lists[<<t, r>>], lookup)]]
  BY DEF QueuesOf
<1>2. Priority!Join(q, id, s, p) = [t \in Sides |-> [r \in Prices |-> joined(t, r)]]
  <2> HIDE DEF q
  <2>1. Priority!Join(q, id, s, p) = [q EXCEPT ![s] = [q[s] EXCEPT ![p] = Append(q[s][p], id)]]
    BY DEF Priority!Join
  <2>2. [q[s] EXCEPT ![p] = Append(q[s][p], id)] = [r \in Prices |-> joined(s, r)]
    BY <1>1
  <2>3. \A t \in Sides : t # s => q[t] = [r \in Prices |-> joined(t, r)]
    BY <1>1
  <2>4. q = [t \in Sides |-> q[t]]
    BY <1>1
  <2> HIDE DEF joined
  <2> QED BY <2>1, <2>2, <2>3, <2>4
<1>3. ASSUME NEW t \in Sides, NEW r \in Prices
      PROVE  Names(after[<<t, r>>], later) = joined(t, r)
  <2> DEFINE k == <<t, r>>
  <2>1. k \in Keys /\ lists \in [Keys -> Seq(Orders)] /\ SameIds(ToSet(lists[k]), lookup, later)
        /\ q[t][r] = Names(lists[k], lookup)
    BY <1>1 DEF Keys, Tidy
  <2>2. CASE t = s /\ r = p
    <3>1. after[k] = Append(lists[k], o)
      BY <2>1, <2>2
    <3>2. joined(t, r) = Append(Names(lists[k], lookup), id)
      BY <2>1, <2>2
    <3> HIDE DEF after, joined, q, k
    <3>3. Names(Append(lists[k], o), later) = Append(Names(lists[k], lookup), id)
      BY <2>1, NamesAppend
    <3>4. Names(after[k], later) = joined(t, r)
      BY <3>1, <3>2, <3>3
    <3> QED BY <3>4 DEF k
  <2>3. CASE ~(t = s /\ r = p)
    <3>1. after[k] = lists[k]
      BY <2>1, <2>3
    <3>2. joined(t, r) = Names(lists[k], lookup)
      BY <2>1, <2>3
    <3> HIDE DEF after, joined, q, k
    <3>3. Names(lists[k], later) = Names(lists[k], lookup)
      BY <2>1, NamesStay
    <3>4. Names(after[k], later) = joined(t, r)
      BY <3>1, <3>2, <3>3
    <3> QED BY <3>4 DEF k
  <2> QED BY <2>2, <2>3
<1>4. QueuesOf(after, later) = [t \in Sides |-> [r \in Prices |-> joined(t, r)]]
  <2> HIDE DEF after, joined
  <2> QED BY <1>3 DEF QueuesOf
<1> QED BY <1>2, <1>4 DEF Joined

LEMMA QueuesStay ==
  ASSUME NEW lists, NEW lookup, Tidy(lists, lookup), NEW later,
         \A k \in Keys : SameIds(ToSet(lists[k]), lookup, later)
  PROVE  QueuesOf(lists, later) = QueuesOf(lists, lookup)
<1>1. ASSUME NEW t \in Sides, NEW r \in Prices
      PROVE  Names(lists[<<t, r>>], later) = Names(lists[<<t, r>>], lookup)
  <2>1. <<t, r>> \in Keys
    BY DEF Keys
  <2> QED BY <2>1, NamesStay
<1> QED BY <1>1 DEF QueuesOf

LEMMA QueuesLeave ==
  ASSUME NEW lists, NEW lookup, Tidy(lists, lookup), NEW k \in Keys,
         NEW id \in Ids, lookup[id] \in ToSet(lists[k])
  PROVE  LET o     == lookup[id]
             after == Parted(lists, k, o)
         IN /\ QueuesOf(after, lookup) = Priority!Leave(QueuesOf(lists, lookup), id)
            /\ Tidy(after, lookup)
            /\ \A j \in Keys : ToSet(after[j]) = ToSet(lists[j]) \ {o}
<1> DEFINE o == lookup[id]
           left == RemoveAt(lists[k], PlaceOf(lists[k], o))
           after == [lists EXCEPT ![k] = left]
           q == QueuesOf(lists, lookup)
<1>1. /\ lists \in [Keys -> Seq(Orders)] /\ IsInjective(lists[k]) /\ o \in ToSet(lists[k])
      /\ after[k] = left /\ \A j \in Keys : j # k => after[j] = lists[j]
  BY DEF Tidy
<1>2. \A j \in Keys : j # k => o \notin ToSet(lists[j])
  BY <1>1 DEF Tidy
<1>3. left \in Seq(Orders) /\ ToSet(left) = ToSet(lists[k]) \ {o} /\ IsInjective(left)
  <2>1. lists[k] \in Seq(Orders)
    BY <1>1
  <2> QED BY <1>1, <2>1, RemoveOnce
<1>4. Names(left, lookup) = Priority!Without(Names(lists[k], lookup), id)
  BY NamesRemove
<1>5. \A j \in Keys : j # k => Priority!Without(Names(lists[j], lookup), id) = Names(lists[j], lookup)
  BY <1>2, NamesWithout
<1>6. after \in [Keys -> Seq(Orders)]
  BY <1>1, <1>3
<1> HIDE DEF left, after
<1>7. \A j \in Keys : ToSet(after[j]) = ToSet(lists[j]) \ {o}
  <2> SUFFICES ASSUME NEW j \in Keys PROVE ToSet(after[j]) = ToSet(lists[j]) \ {o}
    OBVIOUS
  <2>1. CASE j = k
    BY <1>1, <1>3, <2>1
  <2>2. CASE j # k
    BY <1>1, <1>2, <2>2
  <2> QED BY <2>1, <2>2
<1>8. Tidy(after, lookup)
  <2>1. \A j \in Keys : IsInjective(after[j])
    BY <1>1, <1>3 DEF Tidy
  <2> QED BY <1>6, <1>7, <2>1 DEF Tidy
<1>9. QueuesOf(after, lookup) = Priority!Leave(q, id)
  <2>1. ASSUME NEW t \in Sides, NEW r \in Prices
        PROVE  Names(after[<<t, r>>], lookup) = Priority!Without(q[t][r], id)
    <3> DEFINE j == <<t, r>>
    <3>1. j \in Keys /\ q[t][r] = Names(lists[j], lookup)
      BY DEF Keys, QueuesOf
    <3> HIDE DEF j, q, o
    <3>2. Names(after[j], lookup) = Priority!Without(Names(lists[j], lookup), id)
      <4>1. CASE j = k
        BY <1>1, <1>4, <4>1
      <4>2. CASE j # k
        BY <1>1, <1>5, <3>1, <4>2
      <4> QED BY <4>1, <4>2
    <3> QED BY <3>1, <3>2 DEF j
  <2> HIDE DEF q
  <2> QED BY <2>1 DEF QueuesOf, Priority!Leave, Sides
<1> QED BY <1>7, <1>8, <1>9 DEF after, left, Parted

\* The queues and sizes of Priority are those of the lists, the lookup and the orders.
ById ==
  /\ Tidy(levels.list, order_lookup_)
  /\ [s \in Sides |-> [p \in Prices |-> IdsAt(s, p)]] = QueuesOf(levels.list, order_lookup_)
  /\ [id \in Ids |-> IF Known(id) THEN OrderOf(id).size ELSE 0] = SizesOf(order, order_lookup_)

LEMMA InvById == IInv => ById
<1> SUFFICES ASSUME IInv PROVE ById
  OBVIOUS
<1>1. LevelsOK(levels, order) /\ LookedUpRest /\ PoolTypes /\ PoolPartition
  BY DEF IInv
<1>2. /\ levels.list \in [Keys -> Seq(Orders)]
      /\ \A k \in Keys : \A o \in ToSet(levels.list[k]) : levels.parent[o] = k
      /\ \A k \in Keys : IsInjective(levels.list[k])
      /\ \A k \in Keys : k \notin levels.at => levels.list[k] = <<>>
  BY <1>1, LevelsFields DEF LevelsOK, Placed, Once, InMaps
<1>3. Null \notin Keys
  BY ConstantTypes
<1>4. ASSUME NEW k \in Keys, NEW o \in ToSet(levels.list[k])
      PROVE  \E id \in Ids : order_lookup_[id] = o
  <2>1. o \in Orders
    <3>1. levels.list[k] \in Seq(Orders)
      BY <1>2
    <3> QED BY <3>1, ListSet
  <2>2. levels.parent[o] # Null
    BY <1>2, <1>3
  <2> QED BY <1>1, <2>1, <2>2 DEF LookedUpRest, LookedUp
<1>5. OneId(order_lookup_)
  BY <1>1 DEF PoolPartition, OneId, Known
<1>6. Tidy(levels.list, order_lookup_)
  <2>1. \A j \in Keys, k \in Keys :
          ToSet(levels.list[j]) \cap ToSet(levels.list[k]) # {} => j = k
    BY <1>2
  <2> QED BY <1>1, <1>2, <1>4, <1>5, <2>1 DEF Tidy, PoolTypes
<1>7. ASSUME NEW s \in Sides, NEW p \in Prices
      PROVE  IdsAt(s, p) = Names(levels.list[<<s, p>>], order_lookup_)
  <2>1. <<s, p>> \in Keys
    BY DEF Keys
  <2>2. (IF <<s, p>> \in levels.at THEN levels.list[<<s, p>>] ELSE <<>>) = levels.list[<<s, p>>]
    BY <1>2, <2>1
  <2> QED BY <2>2 DEF IdsAt, IdOf, IdIn, Names
<1> QED BY <1>6, <1>7 DEF ById, QueuesOf, SizesOf, Known, OrderOf

\* Ids that lead somewhere lead to orders of positive size.
LEMMA SizesById ==
  ASSUME IInv, NEW id \in Ids
  PROVE  /\ Known(id) => /\ order_lookup_[id] \in Orders
                         /\ SizesOf(order, order_lookup_)[id] = order[order_lookup_[id]].size
                         /\ order[order_lookup_[id]].size \in Nat
                         /\ order[order_lookup_[id]].size > 0
         /\ ~Known(id) => SizesOf(order, order_lookup_)[id] = 0
<1>1. PoolTypes /\ LookedUpRest /\ order \in [Orders -> OrderRecord]
  BY DEF IInv, LevelsOK
<1>2. Known(id) => order_lookup_[id] \in Orders /\ order_lookup_[id] \in LookedUp
  BY <1>1 DEF PoolTypes, Known, LookedUp
<1> QED BY <1>1, <1>2 DEF LookedUpRest, SizesOf, Known, OrderRecord

\* An id is in the queue of the limit that its order rests in, and in no other.
LEMMA RestsById ==
  ASSUME IInv, ById, NEW s \in Sides, NEW id \in Ids, RestsOn(id, s), NEW t \in Sides, NEW p \in Prices
  PROVE  Priority!RestsAt(id, t, p) <=> t = s /\ p = OrderOf(id).price
<1> DEFINE o == order_lookup_[id]
           k == <<t, p>>
           names == Names(levels.list[k], order_lookup_)
<1>1. /\ o \in Orders /\ Known(id) /\ levels.parent[o] = <<s, order[o].price>>
      /\ levels.parent[o] # Null /\ levels.parent[o] \in Keys
  BY RestingOrder
<1>2. k \in Keys
  BY DEF Keys
<1>3. LevelsOK(levels, order) /\ Tidy(levels.list, order_lookup_)
  BY DEF IInv, ById
<1>4. o \in ToSet(levels.list[k]) <=> k = levels.parent[o]
  <2>1. o \in ToSet(levels.list[levels.parent[o]])
    BY <1>1, <1>3, ParentHasOrder
  <2>2. o \in ToSet(levels.list[k]) => levels.parent[o] = k
    BY <1>2, <1>3 DEF LevelsOK, Placed
  <2> QED BY <2>1, <2>2
<1>5. Priority!RestsAt(id, t, p) <=> \E i \in 1 .. Len(names) : names[i] = id
  <2>1. [x \in Sides |-> [r \in Prices |-> IdsAt(x, r)]][t][p] = names
    BY DEF ById, QueuesOf
  <2> HIDE DEF names
  <2> QED BY <2>1 DEF Priority!RestsAt, Priority!Contains
<1>6. (\E i \in 1 .. Len(names) : names[i] = id) <=> o \in ToSet(levels.list[k])
  <2>1. /\ Len(names) = Len(levels.list[k])
        /\ \A i \in 1 .. Len(levels.list[k]) :
             names[i] = IdIn(order_lookup_, levels.list[k][i]) /\ order_lookup_[names[i]] = levels.list[k][i]
    <3>1. /\ Len(names) = Len(levels.list[k])
          /\ \A i \in 1 .. Len(levels.list[k]) : order_lookup_[names[i]] = levels.list[k][i]
      BY <1>2, <1>3, NamesType
    <3>2. names = [i \in 1 .. Len(levels.list[k]) |-> IdIn(order_lookup_, levels.list[k][i])]
      BY <1>2, <1>3 DEF Tidy, Names
    <3> HIDE DEF names
    <3> QED BY <3>1, <3>2
  <2>2. DOMAIN levels.list[k] = 1 .. Len(levels.list[k])
    BY <1>2, <1>3 DEF Tidy
  <2>3. IdIn(order_lookup_, o) = id
    BY <1>1, <1>3, IdInIs DEF Tidy, Known
  <2> HIDE DEF names
  <2> QED BY <2>1, <2>2, <2>3 DEF ToSet
<1> QED BY <1>1, <1>4, <1>5, <1>6 DEF OrderOf

\* A new id joins the queue at its price.
LEMMA AddLimitOrderAdds ==
  ASSUME IInv, ById, ById', NEW s \in Sides, NEW id \in Ids, NEW p \in Prices, NEW n \in Sizes,
         ~Known(id), AddLimitOrder(s, id, p, n)
  PROVE  Priority!Add(id, s, p, n)
<1> DEFINE o == NextOrder
           k == <<s, p>>
           G == GetOrInsertLimit(levels, k)
           L == LimitAdd(G, k, o, n)
           lists == levels.list
           q == QueuesOf(lists, order_lookup_)
           z == SizesOf(order, order_lookup_)
<1>1. /\ PoolTypes /\ PoolPartition /\ LevelsOK(levels, order) /\ LookedUpRest
      /\ Tidy(lists, order_lookup_)
  BY DEF IInv, ById
<1>2. /\ GetOrder
      /\ order' = [order EXCEPT ![o] = [price |-> p, size |-> n]]
      /\ order_lookup_' = [order_lookup_ EXCEPT ![id] = o]
      /\ levels' = L
  BY DEF AddLimitOrder
<1>3. n \in Nat
  BY SizesNat
<1>4. /\ o \in Orders /\ o \notin LookedUp /\ PoolPartition'
  BY <1>1, <1>2, GetOrderKeeps
<1>5. /\ order \in [Orders -> OrderRecord] /\ order_lookup_ \in [Ids -> Orders \cup {Null}]
      /\ levels.parent[o] = Null /\ Null \notin Orders /\ k \in Keys
  BY <1>1, <1>4, ConstantTypes DEF LevelsOK, LookedUpRest, PoolTypes, Keys
<1>6. LevelsOK(G, order) /\ k \in G.at /\ G.parent = levels.parent /\ G.list = lists
  <2> HIDE DEF k
  <2> QED BY <1>1, <1>5, GetOrInsertKeeps
<1> HIDE DEF o, G
<1>7. levels'.list = Joined(lists, <<s, p>>, o)
  <2> HIDE DEF k, lists
  <2>1. /\ LevelsOK(L, [order EXCEPT ![o] = [price |-> k[2], size |-> n]])
        /\ L.list = Joined(G.list, k, o)
        /\ L.parent = [G.parent EXCEPT ![o] = k]
        /\ EmptyOf(L) \subseteq EmptyOf(G) \ {k}
    BY <1>3, <1>4, <1>5, <1>6, LimitAddKeeps
  <2> HIDE DEF L
  <2> QED BY <1>2, <1>6, <2>1 DEF k
<1> HIDE DEF L
<1>8. order_lookup_'[id] = o /\ \A a \in Ids : a # id => order_lookup_'[a] = order_lookup_[a]
  BY <1>2, <1>5
<1>9. order_lookup_[id] = Null
  BY DEF Known
<1>10. \A j \in Keys : SameIds(ToSet(lists[j]), order_lookup_, order_lookup_')
  <2>1. OneId(order_lookup_')
    BY <1>4 DEF PoolPartition, OneId, Known
  <2>2. \A j \in Keys : Null \notin ToSet(lists[j])
    <3>1. \A j \in Keys : lists[j] \in Seq(Orders)
      BY <1>1 DEF Tidy
    <3> HIDE DEF lists
    <3> QED BY <1>5, <3>1, ListSet
  <2> QED BY <1>8, <1>9, <2>1, <2>2 DEF SameIds
<1>11. QueuesOf(levels'.list, order_lookup_') = Priority!Join(q, id, s, p)
  <2> HIDE DEF lists
  <2>1. QueuesOf(Joined(lists, <<s, p>>, o), order_lookup_') = Priority!Join(q, id, s, p)
    BY <1>1, <1>4, <1>8, <1>10, QueuesJoin
  <2> HIDE DEF q
  <2> QED BY <1>7, <2>1
<1>12. SizesOf(order', order_lookup_') = [z EXCEPT ![id] = n]
  <2>1. ASSUME NEW a \in Ids
        PROVE  SizesOf(order', order_lookup_')[a] = IF a = id THEN n ELSE z[a]
    <3>1. CASE a = id
      BY <1>2, <1>4, <1>5, <1>8, <3>1 DEF SizesOf
    <3>2. CASE a # id
      <4>1. order_lookup_'[a] = order_lookup_[a] /\ order_lookup_[a] # o
        BY <1>4, <1>5, <1>8, <3>2 DEF LookedUp
      <4>2. order_lookup_[a] # Null => order'[order_lookup_[a]] = order[order_lookup_[a]]
        BY <1>2, <1>4, <1>5, <4>1
      <4> QED BY <3>2, <4>1, <4>2 DEF SizesOf
    <3> QED BY <3>1, <3>2
  <2>2. /\ DOMAIN z = Ids /\ z = [a \in Ids |-> z[a]]
        /\ SizesOf(order', order_lookup_') = [a \in Ids |-> SizesOf(order', order_lookup_')[a]]
    BY DEF SizesOf
  <2> HIDE DEF z
  <2> QED BY <2>1, <2>2
<1>13. ~Priority!Resting(id)
  BY DEF Priority!Resting
<1> HIDE DEF q, z, lists
<1>14. /\ [t \in Sides |-> [r \in Prices |-> IdsAt(t, r)]] = q
       /\ [a \in Ids |-> IF Known(a) THEN OrderOf(a).size ELSE 0] = z
       /\ [t \in Sides |-> [r \in Prices |-> IdsAt(t, r)]]' = QueuesOf(levels'.list, order_lookup_')
       /\ [a \in Ids |-> IF Known(a) THEN OrderOf(a).size ELSE 0]' = SizesOf(order', order_lookup_')
  BY DEF ById, q, z, lists
<1> QED BY <1>11, <1>12, <1>13, <1>14 DEF Priority!Add

\* A cancelled id leaves its queue.
LEMMA RemoveOrderCancels ==
  ASSUME IInv, ById, ById', NEW s \in Sides, NEW id \in Ids, RestsOn(id, s),
         RemoveOrder(s, id, OrderOf(id).price, OrderOf(id).size)
  PROVE  Priority!Cancel(id)
<1> DEFINE o == order_lookup_[id]
           k == levels.parent[o]
           R == LimitRemove(levels, k, o, order[o].size)
           L == EraseIfEmpty(R, k, k)
           lists == levels.list
           after == Parted(lists, k, o)
           q == QueuesOf(lists, order_lookup_)
           z == SizesOf(order, order_lookup_)
<1>1. /\ PoolTypes /\ PoolPartition /\ LevelsOK(levels, order)
      /\ Tidy(lists, order_lookup_)
  BY DEF IInv, ById
<1>2. /\ o \in Orders /\ Known(id) /\ k = <<s, order[o].price>> /\ k # Null /\ k \in Keys
      /\ order[o].size > 0
  BY RestingOrder, SizesById
<1>3. /\ ReturnOrder(o)
      /\ order_lookup_' = [order_lookup_ EXCEPT ![id] = Null]
      /\ levels' = L
      /\ order' = order
  BY <1>2 DEF RemoveOrder, OrderOf
<1>4. PoolPartition' /\ order_lookup_ \in [Ids -> Orders \cup {Null}] /\ Null \notin Orders
  BY <1>1, <1>2, <1>3, ReturnOrderKeeps, ConstantTypes DEF PoolTypes
<1>5. /\ LevelsOK(R, order) /\ R.at = levels.at /\ R.list = after
      /\ R.parent = [levels.parent EXCEPT ![o] = Null]
      /\ EmptyOf(R) \subseteq EmptyOf(levels) \cup {k}
  <2> HIDE DEF after
  <2>1. /\ LevelsOK(R, order) /\ R.at = levels.at /\ R.list = Parted(levels.list, k, o)
        /\ R.parent = [levels.parent EXCEPT ![o] = Null]
        /\ EmptyOf(R) \subseteq EmptyOf(levels) \cup {k}
    BY <1>1, <1>2, LimitRemoveKeeps
  <2> HIDE DEF R, k
  <2> QED BY <2>1 DEF after
<1>6. o \in ToSet(lists[k])
  BY <1>1, <1>2, ParentHasOrder
<1>7. levels'.list = after
  <2> HIDE DEF k, R
  <2>1. L.list = R.list
    BY <1>2, <1>5, EraseKeeps
  <2> QED BY <1>3, <1>5, <2>1
<1> HIDE DEF L, R
<1>8. /\ QueuesOf(after, order_lookup_) = Priority!Leave(q, id)
      /\ Tidy(after, order_lookup_)
      /\ \A j \in Keys : ToSet(after[j]) = ToSet(lists[j]) \ {o}
  <2> HIDE DEF k, lists
  <2>1. Tidy(lists, order_lookup_) /\ k \in Keys /\ order_lookup_[id] \in ToSet(lists[k])
    BY <1>1, <1>2, <1>6
  <2>2. /\ QueuesOf(after, order_lookup_) = Priority!Leave(q, id)
        /\ Tidy(after, order_lookup_)
    BY <2>1, QueuesLeave
  <2>3. \A j \in Keys : ToSet(after[j]) = ToSet(lists[j]) \ {o}
    BY <2>1, QueuesLeave
  <2> QED BY <2>2, <2>3
<1> HIDE DEF k, lists
<1> HIDE DEF after
<1>9. \A j \in Keys : SameIds(ToSet(after[j]), order_lookup_, order_lookup_')
  <2>1. OneId(order_lookup_')
    BY <1>4 DEF PoolPartition, OneId, Known
  <2>2. \A a \in Ids : a # id => order_lookup_'[a] = order_lookup_[a]
    BY <1>3, <1>4
  <2> QED BY <1>8, <2>1, <2>2 DEF SameIds
<1>10. QueuesOf(after, order_lookup_') = QueuesOf(after, order_lookup_)
  BY <1>8, <1>9, QueuesStay
<1>11. SizesOf(order', order_lookup_') = [z EXCEPT ![id] = 0]
  <2>1. ASSUME NEW a \in Ids
        PROVE  SizesOf(order', order_lookup_')[a] = IF a = id THEN 0 ELSE z[a]
    BY <1>3, <1>4 DEF SizesOf
  <2>2. /\ DOMAIN z = Ids /\ z = [a \in Ids |-> z[a]]
        /\ SizesOf(order', order_lookup_') = [a \in Ids |-> SizesOf(order', order_lookup_')[a]]
    BY DEF SizesOf
  <2> HIDE DEF z
  <2> QED BY <2>1, <2>2
<1>12. Priority!Resting(id)
  BY <1>2 DEF Priority!Resting, OrderOf
<1> HIDE DEF q, z
<1>13. /\ [t \in Sides |-> [r \in Prices |-> IdsAt(t, r)]] = q
       /\ [a \in Ids |-> IF Known(a) THEN OrderOf(a).size ELSE 0] = z
       /\ [t \in Sides |-> [r \in Prices |-> IdsAt(t, r)]]' = QueuesOf(levels'.list, order_lookup_')
       /\ [a \in Ids |-> IF Known(a) THEN OrderOf(a).size ELSE 0]' = SizesOf(order', order_lookup_')
  BY DEF ById, q, z, lists
<1> QED BY <1>7, <1>8, <1>10, <1>11, <1>12, <1>13 DEF Priority!Cancel

\* A modified id that rests keeps its place or goes to the end of a queue.
LEMMA ModifyKnownModifies ==
  ASSUME IInv, ById, ById', NEW s \in Sides, NEW id \in Ids, RestsOn(id, s), NEW p \in Prices,
         NEW n \in Sizes, ModifyKnown(s, id, p, n)
  PROVE  Priority!Modify(id, s, p, n)
<1> DEFINE o == order_lookup_[id]
           k == levels.parent[o]
           L == ModifiedLevels(s, o, p, n)
           lists == levels.list
           left == Parted(lists, k, o)
           q == QueuesOf(lists, order_lookup_)
           z == SizesOf(order, order_lookup_)
<1>1. /\ PoolTypes /\ PoolPartition /\ LevelsOK(levels, order)
      /\ Tidy(lists, order_lookup_) /\ OneId(order_lookup_)
  BY DEF IInv, ById, Tidy
<1>2. /\ o \in Orders /\ Known(id) /\ k = <<s, order[o].price>> /\ k # Null /\ k \in Keys
      /\ order[o].price \in Prices
      /\ order[o].size \in Nat /\ order[o].size > 0 /\ z[id] = order[o].size
  BY RestingOrder, SizesById
<1>3. /\ levels' = L
      /\ order' = [order EXCEPT ![o] = [price |-> p, size |-> n]]
      /\ order_lookup_' = order_lookup_
  BY DEF ModifyKnown
<1>4. /\ order \in [Orders -> OrderRecord] /\ order_lookup_ \in [Ids -> Orders \cup {Null}]
      /\ Null \notin Orders /\ n \in Nat
  BY <1>1, ConstantTypes, SizesNat DEF LevelsOK, PoolTypes
<1>5. /\ LevelsOK(L, [order EXCEPT ![o] = [price |-> p, size |-> n]])
      /\ L.list = ModifiedLists(s, o, p, n)
      /\ \/ L.parent = levels.parent
         \/ L.parent = [[levels.parent EXCEPT ![o] = Null] EXCEPT ![o] = <<s, p>>]
      /\ EmptyOf(L) \subseteq EmptyOf(levels)
  BY ModifiedLevelsKeep
<1>6. o \in ToSet(lists[k])
  BY <1>1, <1>2, ParentHasOrder
<1>7. SizesOf(order', order_lookup_') = [z EXCEPT ![id] = n]
  <2>1. ASSUME NEW a \in Ids
        PROVE  SizesOf(order', order_lookup_')[a] = IF a = id THEN n ELSE z[a]
    <3>1. CASE a = id
      BY <1>2, <1>3, <1>4, <3>1 DEF SizesOf, Known
    <3>2. CASE a # id
      <4>1. order_lookup_[a] # Null => order_lookup_[a] # o
        BY <1>1, <3>2 DEF OneId
      <4>2. order_lookup_[a] # Null => order'[order_lookup_[a]] = order[order_lookup_[a]]
        BY <1>3, <1>4, <4>1
      <4> QED BY <1>3, <3>2, <4>2 DEF SizesOf
    <3> QED BY <3>1, <3>2
  <2>2. /\ DOMAIN z = Ids /\ z = [a \in Ids |-> z[a]]
        /\ SizesOf(order', order_lookup_') = [a \in Ids |-> SizesOf(order', order_lookup_')[a]]
    BY DEF SizesOf
  <2> HIDE DEF z
  <2> QED BY <2>1, <2>2
<1>8. \A r \in Prices : Priority!RestsAt(id, s, r) <=> r = order[o].price
  BY RestsById DEF OrderOf
<1> DEFINE aq == [t \in Sides |-> [r \in Prices |-> IdsAt(t, r)]]
           az == [a \in Ids |-> IF Known(a) THEN OrderOf(a).size ELSE 0]
<1>9. /\ aq = q /\ az = z
      /\ aq' = QueuesOf(levels'.list, order_lookup_') /\ az' = SizesOf(order', order_lookup_')
  BY DEF ById
<1>10. CASE order[o].price = p /\ order[o].size >= n
  <2>1. levels'.list = lists
    BY <1>3, <1>5, <1>10 DEF ModifiedLists
  <2>2. aq' = aq
    <3> HIDE DEF aq
    <3> QED BY <1>3, <1>9, <2>1
  <2>3. n <= az[id]
    <3> HIDE DEF az, z
    <3> QED BY <1>2, <1>4, <1>9, <1>10
  <2>4. Priority!KeepPlace(id, s, p, n)
    BY <1>8, <1>10, <2>2, <2>3 DEF Priority!KeepPlace
  <2>5. az' = [az EXCEPT ![id] = n]
    <3> HIDE DEF az, z
    <3> QED BY <1>7, <1>9
  <2>6. \E own \in Prices : Priority!RestsAt(id, s, own)
    BY <1>2, <1>8
  <2> QED BY <2>4, <2>5, <2>6 DEF Priority!Modify
<1>11. CASE ~(order[o].price = p /\ order[o].size >= n)
  <2>1. levels'.list = Joined(left, <<s, p>>, o)
    BY <1>3, <1>5, <1>11 DEF ModifiedLists
  <2>2. /\ QueuesOf(left, order_lookup_) = Priority!Leave(q, id)
        /\ Tidy(left, order_lookup_)
    <3> HIDE DEF k, lists
    <3> QED BY <1>1, <1>2, <1>6, QueuesLeave
  <2>3. QueuesOf(Joined(left, <<s, p>>, o), order_lookup_)
          = Priority!Join(QueuesOf(left, order_lookup_), id, s, p)
    <3> HIDE DEF left
    <3>1. \A j \in Keys : SameIds(ToSet(left[j]), order_lookup_, order_lookup_)
      BY <1>1 DEF SameIds
    <3> QED BY <1>2, <2>2, <3>1, QueuesJoin
  <2>4. aq' = Priority!Join(Priority!Leave(aq, id), id, s, p)
    <3> HIDE DEF aq, q, left
    <3> QED BY <1>3, <1>9, <2>1, <2>2, <2>3
  <2>5. ~Priority!RestsAt(id, s, p) \/ n > az[id]
    <3> HIDE DEF az, z
    <3> QED BY <1>2, <1>4, <1>8, <1>9, <1>11
  <2>6. Priority!Requeue(id, s, p, n)
    BY <2>4, <2>5 DEF Priority!Requeue
  <2>7. az' = [az EXCEPT ![id] = n]
    <3> HIDE DEF az, z
    <3> QED BY <1>7, <1>9
  <2>8. \E own \in Prices : Priority!RestsAt(id, s, own)
    BY <1>2, <1>8
  <2> QED BY <2>6, <2>7, <2>8 DEF Priority!Modify
<1> QED BY <1>10, <1>11

\* A trade reaches one place at most without exhausting the order there.
LEMMA ReachesOne ==
  ASSUME order \in [Orders -> OrderRecord], NEW q \in Seq(Orders), NEW n \in Int,
         NEW i \in Reached(q, n), NEW j \in Reached(q, n)
  PROVE  i = j
<1> DEFINE f == [x \in DOMAIN q |-> order[q[x]].size]
           S(x) == SumFunctionOnSet(f, 1 .. x - 1)
<1>1. DOMAIN q = 1 .. Len(q) /\ Len(q) \in Nat /\ \A x \in DOMAIN q : q[x] \in Orders
  OBVIOUS
<1>2. \A x \in DOMAIN q : f[x] \in Nat /\ f[x] = order[q[x]].size
  BY <1>1 DEF OrderRecord
<1>3. \A x \in DOMAIN q : Left(q, x, n) = n - S(x)
  BY DEF Left
<1> HIDE DEF f
<1> DEFINE before(x) == 1 .. x - 1
<1>4. \A x \in DOMAIN q : /\ x \in Int /\ IsFiniteSet(before(x)) /\ before(x) \subseteq DOMAIN q
                          /\ S(x) = SumFunctionOnSet(f, before(x)) /\ S(x) \in Nat
  <2> SUFFICES ASSUME NEW x \in DOMAIN q
               PROVE  /\ x \in Int /\ IsFiniteSet(before(x)) /\ before(x) \subseteq DOMAIN q
                      /\ SumFunctionOnSet(f, before(x)) \in Nat
    OBVIOUS
  <2>1. x \in Int /\ 1 \in Int /\ x - 1 \in Int /\ before(x) \subseteq DOMAIN q
    BY <1>1
  <2>2. IsFiniteSet(before(x))
    BY <2>1, FS_Interval
  <2> HIDE DEF before
  <2> QED BY <1>2, <2>1, <2>2, FiniteSumNat
<1>5. ASSUME NEW x \in DOMAIN q, NEW y \in DOMAIN q, x < y
      PROVE  S(x) + f[x] <= S(y)
  <2> DEFINE upto == before(x) \cup {x}
  <2>1. x \notin before(x) /\ upto \subseteq before(y)
    BY <1>1, <1>5
  <2> HIDE DEF before
  <2>2. SumFunctionOnSet(f, upto) = f[x] + SumFunctionOnSet(f, before(x))
    <3>1. f[x] \in Int /\ \A z \in before(x) : f[z] \in Int
      BY <1>2, <1>4
    <3> QED BY <1>4, <2>1, <3>1, FiniteSumWith
  <2>3. \A z \in before(y) : f[z] \in Nat
    BY <1>2, <1>4
  <2> HIDE DEF upto, S
  <2>4. SumFunctionOnSet(f, upto) <= SumFunctionOnSet(f, before(y))
    BY <1>4, <2>1, <2>3, FiniteSumPart
  <2> QED BY <1>2, <1>4, <2>2, <2>4
<1> HIDE DEF S
<1>6. \A x \in Reached(q, n) : x \in DOMAIN q /\ S(x) < n /\ n < S(x) + f[x]
  <2> SUFFICES ASSUME NEW x \in Reached(q, n)
               PROVE  x \in DOMAIN q /\ S(x) < n /\ n < S(x) + f[x]
    OBVIOUS
  <2>1. x \in DOMAIN q /\ n - S(x) \in 1 .. f[x] - 1
    BY <1>2, <1>3 DEF Reached
  <2> QED BY <1>2, <1>4, <2>1
<1> HIDE DEF before
<1>7. ASSUME NEW x \in Reached(q, n), NEW y \in Reached(q, n) PROVE ~(x < y)
  <2>1. x \in DOMAIN q /\ y \in DOMAIN q /\ S(y) < n /\ n < S(x) + f[x]
    BY <1>6
  <2>2. S(x) \in Nat /\ S(y) \in Nat /\ f[x] \in Nat
    BY <1>2, <1>4, <2>1
  <2>3. x < y => S(x) + f[x] <= S(y)
    BY <1>5, <2>1
  <2> QED BY <2>1, <2>2, <2>3
<1>8. i \in Int /\ j \in Int
  BY <1>4, <1>6
<1> QED BY <1>7, <1>8

LEMMA SameSums ==
  ASSUME NEW f, NEW S
  PROVE  Priority!SumFunctionOnSet(f, S) = SumFunctionOnSet(f, S)
BY DEF Priority!SumFunctionOnSet, SumFunctionOnSet, Priority!FoldFunctionOnSet, FoldFunctionOnSet,
       Priority!MapThenFoldSet, MapThenFoldSet

\* A trade shrinks the order it reaches, and no order changes its place.
LEMMA TradeOrderTrades ==
  ASSUME IInv, ById, ById', NEW s \in Sides, NEW p \in Prices, NEW n \in Sizes, TradeOrder(s, p, n)
  PROVE  Priority!Trade(~s, p, n) \/ UNCHANGED vars
<1> DEFINE t == ~s
           k == <<t, p>>
           L == GetOrInsertLimit(levels, k)
           lists == levels.list
           list == lists[k]
           names == Names(list, order_lookup_)
           z == SizesOf(order, order_lookup_)
           aq == [x \in Sides |-> [r \in Prices |-> IdsAt(x, r)]]
           az == [a \in Ids |-> IF Known(a) THEN OrderOf(a).size ELSE 0]
           ahead(i) == Priority!Ahead(names, i)
           reached == {i \in DOMAIN names : ahead(i) < n /\ n < ahead(i) + az[names[i]]}
<1>1. CASE UNCHANGED vars
  BY <1>1
<1>2. CASE /\ levels' = L
           /\ WalkList(L.list[k], n, t)
           /\ UNCHANGED order_lookup_
  <2>1. k \in Keys /\ t \in Sides
    <3>1. t \in Sides
      BY Zenon DEF Sides
    <3> HIDE DEF t
    <3> QED BY <3>1 DEF Keys
  <2>2. /\ LevelsOK(levels, order) /\ Tidy(lists, order_lookup_) /\ OneId(order_lookup_)
        /\ order \in [Orders -> OrderRecord]
        /\ aq = QueuesOf(lists, order_lookup_) /\ az = z
        /\ aq' = QueuesOf(levels'.list, order_lookup_') /\ az' = SizesOf(order', order_lookup_')
    BY DEF IInv, ById, LevelsOK, Tidy
  <2> HIDE DEF k, aq, az, t
  <2>3. L.list = lists
    <3>1. LevelsOK(L, order) /\ L.parent = levels.parent /\ L.list = levels.list
      BY <2>1, <2>2, GetOrInsertKeeps
    <3> QED BY <3>1
  <2>4. aq' = aq
    <3> HIDE DEF L
    <3> QED BY <1>2, <2>2, <2>3
  <2>5. aq[t][p] = names
    BY <2>1, <2>2 DEF QueuesOf, k
  <2>6. /\ list \in Seq(Orders) /\ IsInjective(list) /\ n \in Int
        /\ DOMAIN list = 1 .. Len(list) /\ Null \notin Orders
    <3>1. list \in Seq(Orders) /\ IsInjective(list)
      BY <2>1, <2>2 DEF Tidy
    <3> HIDE DEF list
    <3> QED BY <3>1, SizesNat, ConstantTypes
  <2>7. /\ DOMAIN names = DOMAIN list
        /\ \A i \in DOMAIN list : names[i] \in Ids /\ order_lookup_[names[i]] = list[i]
    <3> HIDE DEF lists
    <3> QED BY <2>1, <2>2, <2>6, NamesType
  <2> HIDE DEF lists, list, names, L
  <2>8. WalkList(list, n, t)
    BY <1>2, <2>3 DEF list
  <2>9. \A i \in DOMAIN list :
          z[names[i]] = order[list[i]].size /\ list[i] \in Orders /\ z[names[i]] \in Nat
    <3>1. \A i \in DOMAIN list : list[i] \in Orders
      BY <2>6
    <3> QED BY <2>2, <2>6, <2>7, <3>1 DEF SizesOf, OrderRecord
  <2>10. \A i \in DOMAIN list : Left(list, i, n) \in Int /\ ahead(i) = n - Left(list, i, n)
    <3> SUFFICES ASSUME NEW i \in DOMAIN list
                 PROVE  Left(list, i, n) \in Int /\ ahead(i) = n - Left(list, i, n)
      OBVIOUS
    <3> DEFINE f == [j \in DOMAIN list |-> order[list[j]].size]
               g == [j \in DOMAIN names |-> az[names[j]]]
    <3>1. f = g
      BY <2>2, <2>7, <2>9
    <3>2. ahead(i) = Priority!SumFunctionOnSet(g, 1 .. i - 1)
      BY DEF Priority!Ahead, az
    <3>3. Left(list, i, n) = n - SumFunctionOnSet(f, 1 .. i - 1)
      BY DEF Left
    <3> HIDE DEF f, g, ahead
    <3>4. ahead(i) = SumFunctionOnSet(f, 1 .. i - 1)
      BY <3>1, <3>2, SameSums
    <3>5. SumFunctionOnSet(f, 1 .. i - 1) \in Int
      <4>1. IsFiniteSet(1 .. i - 1) /\ 1 .. i - 1 \subseteq DOMAIN list
        <5>1. i \in Int /\ 1 \in Int /\ i - 1 \in Int /\ 1 .. i - 1 \subseteq DOMAIN list
          BY <2>6
        <5> QED BY <5>1, FS_Interval
      <4>2. \A j \in 1 .. i - 1 : f[j] \in Int
        BY <2>9, <4>1 DEF f
      <4> QED BY <4>1, <4>2, FiniteSumType
    <3> QED BY <2>6, <3>3, <3>4, <3>5
  <2> HIDE DEF ahead
  <2>11. reached = Reached(list, n)
    <3>1. ASSUME NEW i \in DOMAIN list
          PROVE  ahead(i) < n /\ n < ahead(i) + az[names[i]]
                   <=> Left(list, i, n) \in 1 .. order[list[i]].size - 1
      <4>1. Left(list, i, n) \in Int /\ n \in Int /\ ahead(i) = n - Left(list, i, n)
            /\ az[names[i]] = order[list[i]].size /\ az[names[i]] \in Nat
        BY <2>2, <2>6, <2>9, <2>10
      <4> QED BY <4>1
    <3> QED BY <2>7, <3>1 DEF Reached
  <2> HIDE DEF reached
  <2>12. /\ \A i \in reached :
              order'[list[i]] = [price |-> order[list[i]].price,
                                 size  |-> order[list[i]].size - Left(list, i, n)]
         /\ \A o \in Orders : (\A i \in reached : list[i] # o) => order'[o] = order[o]
    BY <2>2, <2>6, <2>8, <2>11, WalkTakes
  <2>13. \A i, j \in reached : i = j
    BY <2>2, <2>6, <2>11, ReachesOne
  <2>14. reached \subseteq DOMAIN list
    BY <2>11 DEF Reached
  <2>15. ASSUME NEW a \in Ids
         PROVE  az'[a] = IF \E i \in reached : names[i] = a
                         THEN LET i == CHOOSE i \in reached : TRUE IN ahead(i) + az[a] - n
                         ELSE az[a]
    <3>1. CASE \E i \in reached : names[i] = a
      <4>1. PICK i \in reached : names[i] = a
        BY <3>1
      <4>2. (CHOOSE x \in reached : TRUE) = i
        BY <2>13
      <4>3. /\ i \in DOMAIN list /\ order_lookup_[a] = list[i] /\ list[i] # Null
            /\ az[a] = order[list[i]].size /\ az[a] \in Nat
        BY <2>2, <2>6, <2>7, <2>9, <2>14, <4>1
      <4>4. az'[a] = order'[list[i]].size
        BY <1>2, <2>2, <4>3 DEF SizesOf
      <4>5. az'[a] = az[a] - Left(list, i, n)
        <5>1. order'[list[i]] = [price |-> order[list[i]].price,
                                 size  |-> order[list[i]].size - Left(list, i, n)]
          BY <2>12, <4>1
        <5>2. order'[list[i]].size = order[list[i]].size - Left(list, i, n)
          BY <5>1
        <5> QED BY <4>3, <4>4, <5>2
      <4>6. az'[a] = ahead(i) + az[a] - n
        BY <2>6, <2>10, <4>3, <4>5
      <4> QED BY <3>1, <4>2, <4>6
    <3>2. CASE ~ \E i \in reached : names[i] = a
      <4>1. CASE order_lookup_[a] = Null
        BY <1>2, <2>2, <3>2, <4>1 DEF SizesOf
      <4>2. CASE order_lookup_[a] # Null
        <5>1. order_lookup_[a] \in Orders
          BY <2>2, <4>2 DEF Tidy
        <5>2. \A i \in reached : list[i] # order_lookup_[a]
          BY <2>2, <2>7, <2>14, <3>2, <4>2 DEF OneId
        <5>3. order'[order_lookup_[a]] = order[order_lookup_[a]]
          BY <2>12, <5>1, <5>2
        <5> QED BY <1>2, <2>2, <3>2, <5>3 DEF SizesOf
      <4> QED BY <4>1, <4>2
    <3> QED BY <3>1, <3>2
  <2>16. az' = [a \in Ids |->
                  IF \E i \in reached : names[i] = a
                  THEN LET i == CHOOSE i \in reached : TRUE IN ahead(i) + az[a] - n
                  ELSE az[a]]
    <3>1. az' = [a \in Ids |-> az'[a]]
      BY DEF az
    <3> QED BY <2>15, <3>1
  <2>17. LET q == aq[t][p]
             R == {i \in DOMAIN q : Priority!Ahead(q, i) < n /\ n < Priority!Ahead(q, i) + az[q[i]]}
         IN  az' = [id \in Ids |-> IF \E i \in R : q[i] = id
                                   THEN LET i == CHOOSE i \in R : TRUE
                                        IN  Priority!Ahead(q, i) + az[id] - n
                                   ELSE az[id]]
    BY <2>5, <2>16, Zenon DEF reached, ahead
  <2>18. Priority!Trade(t, p, n)
    BY <2>4, <2>17, Zenon DEF Priority!Trade, aq, az
  <2> QED BY <2>18 DEF t
<1> QED BY <1>1, <1>2 DEF TradeOrder

\* A step that moves no order in a list and changes none stutters.
LEMMA SameBook ==
  ASSUME ById, ById', levels'.list = levels.list, UNCHANGED <<order, order_lookup_>>
  PROVE  UNCHANGED Priority!vars
<1> DEFINE aq == [x \in Sides |-> [r \in Prices |-> IdsAt(x, r)]]
           az == [a \in Ids |-> IF Known(a) THEN OrderOf(a).size ELSE 0]
<1>1. /\ aq = QueuesOf(levels.list, order_lookup_) /\ aq' = QueuesOf(levels'.list, order_lookup_')
      /\ az = SizesOf(order, order_lookup_) /\ az' = SizesOf(order', order_lookup_')
  BY DEF ById
<1> HIDE DEF aq, az
<1>2. aq' = aq /\ az' = az
  BY <1>1
<1> QED BY <1>2, Zenon DEF Priority!vars, aq, az

\* The empty book.
LEMMA InitIsPriority == Init => Priority!Init
<1> SUFFICES ASSUME Init PROVE Priority!Init
  OBVIOUS
<1>1. \A s \in Sides, p \in Prices : IdsAt(s, p) = <<>>
  BY DEF Init, NoLevels, IdsAt
<1>2. \A id \in Ids : ~Known(id)
  BY DEF Init, Known
<1> QED BY <1>1, <1>2 DEF Priority!Init, Sides

\* Every step is a step of a price-time book, or none.
LEMMA NextIsPriority ==
  ASSUME IInv, ById, ById', [Next]_vars
  PROVE  [Priority!Next]_(Priority!vars)
<1>1. CASE ProcessMsg
  <2>1. PICK s \in Sides :
          \/ \E id \in Ids, p \in Prices, n \in Sizes :
               \/ ~Known(id) /\ AddLimitOrder(s, id, p, n)
               \/ (~Known(id) \/ RestsOn(id, s)) /\ ModifyOrder(s, id, p, n)
          \/ \E id \in Ids :
               RestsOn(id, s) /\ RemoveOrder(s, id, OrderOf(id).price, OrderOf(id).size)
          \/ \E p \in Prices, n \in Sizes : TradeOrder(s, p, n)
    BY <1>1 DEF ProcessMsg
  <2>2. s \in BOOLEAN /\ (~s) \in BOOLEAN
    BY Zenon DEF Sides
  <2>3. ASSUME NEW id \in Ids, NEW p \in Prices, NEW n \in Sizes,
               ~Known(id), AddLimitOrder(s, id, p, n)
        PROVE  Priority!Next
    <3>1. Priority!Add(id, s, p, n)
      BY <2>3, AddLimitOrderAdds
    <3> QED BY <2>2, <3>1, Zenon DEF Priority!Next
  <2>4. ASSUME NEW id \in Ids, NEW p \in Prices, NEW n \in Sizes,
               ~Known(id) \/ RestsOn(id, s), ModifyOrder(s, id, p, n)
        PROVE  Priority!Next
    <3>1. CASE ~Known(id) /\ AddLimitOrder(s, id, p, n)
      BY <2>3, <3>1
    <3>2. CASE RestsOn(id, s) /\ ModifyKnown(s, id, p, n)
      <4>1. Priority!Modify(id, s, p, n)
        BY <3>2, ModifyKnownModifies
      <4> QED BY <2>2, <4>1, Zenon DEF Priority!Next
    <3> QED BY <2>4, <3>1, <3>2 DEF ModifyOrder, Known
  <2>5. ASSUME NEW id \in Ids, RestsOn(id, s),
               RemoveOrder(s, id, OrderOf(id).price, OrderOf(id).size)
        PROVE  Priority!Next
    <3>1. Priority!Cancel(id)
      BY <2>5, RemoveOrderCancels
    <3> QED BY <3>1, Zenon DEF Priority!Next
  <2>6. ASSUME NEW p \in Prices, NEW n \in Sizes, TradeOrder(s, p, n)
        PROVE  Priority!Next \/ UNCHANGED vars
    <3>1. Priority!Trade(~s, p, n) \/ UNCHANGED vars
      BY <2>6, TradeOrderTrades
    <3> QED BY <2>2, <3>1, Zenon DEF Priority!Next
  <2>7. Priority!Next \/ UNCHANGED vars
    BY <2>1, <2>3, <2>4, <2>5, <2>6
  <2>8. UNCHANGED vars => UNCHANGED Priority!vars
    BY SameBook DEF vars
  <2> QED BY <2>7, <2>8
<1>2. CASE CalculateVols
  <2>1. levels' = levels /\ UNCHANGED <<order, order_lookup_>>
    BY <1>2 DEF CalculateVols
  <2> QED BY <2>1, SameBook
<1>3. CASE UNCHANGED vars
  BY <1>3, SameBook DEF vars
<1> QED BY <1>1, <1>2, <1>3 DEF Next

-----------------------------------------------------------------------------
(* The running volumes when every price is in range of every other.        *)

AllNear == \A p, q \in Prices : InRange(p, q)

\* What rests on a side, by the parent_ of the orders.
RestingOn(ord, parent, s) == SizesIn(ord, OnSide(parent, s))

\* What a message does to the running volume of a side that has levels.
VolStep ==
  \A s \in Sides :
    update_possible /\ PricesOf(levels', s) # {}
      => vol'[s] - vol[s] = RestingOn(order', levels'.parent, s) - RestingOn(order, levels.parent, s)

\* Changing the record of an order changes the sums that it is in.
LEMMA SizesReplaced ==
  ASSUME NEW ord \in [Orders -> OrderRecord], NEW after \in [Orders -> OrderRecord],
         NEW o \in Orders, \A x \in Orders : x # o => after[x] = ord[x],
         NEW S, S \subseteq Orders
  PROVE  /\ o \in S => SizesIn(after, S) = SizesIn(ord, S) + (after[o].size - ord[o].size)
         /\ o \notin S => SizesIn(after, S) = SizesIn(ord, S)
<1> DEFINE rest == S \ {o}
<1>1. \A x \in Orders : x # o => after[x] = ord[x]
  OBVIOUS
<1>2. ord[o].size \in Nat /\ after[o].size \in Nat
  BY DEF OrderRecord
<1>3. rest \subseteq Orders /\ o \notin rest
  OBVIOUS
<1>4. CASE o \in S
  <2>1. S = rest \cup {o}
    BY <1>4
  <2> HIDE DEF rest
  <2>2. SizesIn(after, rest) = SizesIn(ord, rest) /\ SizesIn(ord, rest) \in Nat
    <3>1. \A x \in rest : after[x].size = ord[x].size
      BY <1>1, <1>3
    <3> QED BY <1>1, <1>3, <3>1, SizesOfSame, SizesType
  <2>3. SizesIn(after, S) = SizesIn(after, rest) + after[o].size
    BY <1>1, <1>3, <2>1, SizesWith
  <2>4. SizesIn(ord, S) = SizesIn(ord, rest) + ord[o].size
    BY <1>3, <2>1, SizesWith
  <2>5. SizesIn(after, S) = SizesIn(ord, S) + (after[o].size - ord[o].size)
    BY <1>2, <2>2, <2>3, <2>4
  <2> QED BY <1>4, <2>5
<1>5. CASE o \notin S
  <2>1. \A x \in S : after[x].size = ord[x].size
    BY <1>1, <1>5
  <2>2. SizesIn(after, S) = SizesIn(ord, S)
    BY <1>1, <2>1, SizesOfSame
  <2> QED BY <1>5, <2>2
<1> QED BY <1>4, <1>5

\* With every price in range, update_vol counts the whole size.
LEMMA UpdateVolNear ==
  ASSUME AllNear, VolTypes, update_possible, NEW L, NEW s \in Sides, NEW p \in Prices, NEW n \in Int,
         UpdateVol(L, s, p, n)
  PROVE  /\ \A t \in Sides : t # s => vol'[t] = vol[t]
         /\ PricesOf(L, s) # {} => vol'[s] = vol[s] + n
<1>1. PICK best \in BestPrices(L, s) : vol' = [vol EXCEPT ![s] = @ + Counted(p, n, best)]
  BY DEF UpdateVol
<1>2. vol \in [Sides -> Int]
  BY DEF VolTypes
<1>3. ASSUME PricesOf(L, s) # {} PROVE Counted(p, n, best) = n
  <2>1. best \in Prices
    BY <1>3 DEF BestPrices, PricesOf
  <2> QED BY <2>1 DEF Counted, AllNear
<1> QED BY <1>1, <1>2, <1>3

LEMMA UpdateModifyVolNear ==
  ASSUME AllNear, VolTypes, update_possible, NEW L, NEW s \in Sides, NEW p \in Prices,
         NEW q \in Prices, NEW m \in Int, NEW n \in Int, UpdateModifyVol(L, s, p, q, m, n)
  PROVE  /\ \A t \in Sides : t # s => vol'[t] = vol[t]
         /\ PricesOf(L, s) # {} => vol'[s] = vol[s] - m + n
<1>1. PICK best \in BestPrices(L, s) :
        vol' = [vol EXCEPT ![s] = @ - Counted(p, m, best) + Counted(q, n, best)]
  BY DEF UpdateModifyVol
<1>2. vol \in [Sides -> Int]
  BY DEF VolTypes
<1>3. ASSUME PricesOf(L, s) # {} PROVE Counted(p, m, best) = m /\ Counted(q, n, best) = n
  <2>1. best \in Prices
    BY <1>3 DEF BestPrices, PricesOf
  <2> QED BY <2>1 DEF Counted, AllNear
<1> QED BY <1>1, <1>2, <1>3

\* A new order counts for its side, with its size.
LEMMA AddLimitOrderVol ==
  ASSUME AllNear, IInv, NEW s \in Sides, NEW id \in Ids, NEW p \in Prices, NEW n \in Sizes,
         ~Known(id), AddLimitOrder(s, id, p, n)
  PROVE  VolStep
<1> DEFINE o == NextOrder
           r == [price |-> p, size |-> n]
<1> SUFFICES ASSUME NEW t \in Sides, update_possible, PricesOf(levels', t) # {}
             PROVE  vol'[t] - vol[t] = RestingOn(order', levels'.parent, t)
                                         - RestingOn(order, levels.parent, t)
  BY DEF VolStep
<1>1. /\ VolTypes /\ order \in [Orders -> OrderRecord]
      /\ levels.parent \in [Orders -> Keys \cup {Null}] /\ Null \notin Keys /\ <<s, p>> \in Keys
  BY LevelsFields, ConstantTypes DEF IInv, LevelsOK, Keys
<1>2. o \in Orders /\ levels.parent[o] = Null /\ levels'.parent = [levels.parent EXCEPT ![o] = <<s, p>>]
  BY AddLimitOrderKeeps
<1>3. order' = [order EXCEPT ![o] = r] /\ UpdateVol(levels', s, p, n)
  BY DEF AddLimitOrder
<1>4. n \in Int /\ r \in OrderRecord /\ r.size = n
  BY SizesNat DEF OrderRecord
<1> HIDE DEF o, r
<1>5. /\ t # s => vol'[t] = vol[t]
      /\ t = s => vol'[t] = vol[t] + n
  BY <1>1, <1>3, <1>4, UpdateVolNear, ZenonT(40)
<1> DEFINE S == OnSide(levels.parent, t)
           S2 == OnSide(levels'.parent, t)
<1>6. S \subseteq Orders /\ S2 \subseteq Orders /\ o \notin S
  BY <1>2 DEF OnSide
<1>7. /\ t # s => S2 = S
      /\ t = s => S2 = S \cup {o}
  BY <1>1, <1>2 DEF OnSide
<1> HIDE DEF S, S2
<1>8. SizesIn(order', S) = SizesIn(order, S) /\ SizesIn(order, S) \in Nat
  <2>1. SizesIn(order, S) \in Nat
    BY <1>1, <1>6, SizesType
  <2>2. order' \in [Orders -> OrderRecord] /\ \A x \in Orders : x # o => order'[x] = order[x]
    BY <1>1, <1>2, <1>3, <1>4
  <2> QED BY <1>1, <1>2, <1>6, <2>1, <2>2, SizesReplaced
<1>9. SizesIn(order', S \cup {o}) = SizesIn(order', S) + n
  <2>1. order' \in [Orders -> OrderRecord] /\ order'[o].size = n
    BY <1>1, <1>2, <1>3, <1>4
  <2> QED BY <1>2, <1>6, <2>1, SizesWith
<1>10. vol[t] \in Int
  BY <1>1 DEF VolTypes
<1>11. vol'[t] - vol[t] = SizesIn(order', S2) - SizesIn(order, S)
  <2>1. CASE t = s
    <3>1. SizesIn(order', S2) = SizesIn(order, S) + n
      BY <1>7, <1>8, <1>9, <2>1
    <3>2. vol'[t] = vol[t] + n
      BY <1>5, <2>1
    <3> QED BY <1>4, <1>8, <1>10, <3>1, <3>2
  <2>2. CASE t # s
    BY <1>5, <1>7, <1>8, <1>10, <2>2
  <2> QED BY <2>1, <2>2
<1> QED BY <1>11 DEF S, S2, RestingOn

\* A cancelled order no longer does; the volume loses the size that the order has now.
LEMMA RemoveOrderVol ==
  ASSUME AllNear, IInv, NEW s \in Sides, NEW id \in Ids, RestsOn(id, s),
         RemoveOrder(s, id, OrderOf(id).price, OrderOf(id).size)
  PROVE  VolStep
<1> DEFINE o == order_lookup_[id]
<1> SUFFICES ASSUME NEW t \in Sides, update_possible, PricesOf(levels', t) # {}
             PROVE  vol'[t] - vol[t] = RestingOn(order', levels'.parent, t)
                                         - RestingOn(order, levels.parent, t)
  BY DEF VolStep
<1>1. /\ VolTypes /\ order \in [Orders -> OrderRecord]
      /\ levels.parent \in [Orders -> Keys \cup {Null}] /\ Null \notin Keys
  BY LevelsFields, ConstantTypes DEF IInv, LevelsOK
<1>2. /\ o \in Orders /\ levels.parent[o] = <<s, order[o].price>> /\ levels.parent[o] # Null
      /\ order[o].price \in Prices /\ order[o].size \in Nat
  BY RestingOrder
<1>3. levels'.parent = [levels.parent EXCEPT ![o] = Null]
  BY RemoveOrderKeeps
<1>4. order' = order /\ UpdateVol(levels', s, order[o].price, -order[o].size)
  <2>1. levels.parent[o] = <<s, OrderOf(id).price>>
    BY <1>2 DEF OrderOf
  <2> QED BY <2>1 DEF RemoveOrder, OrderOf
<1> HIDE DEF o
<1>5. /\ t # s => vol'[t] = vol[t]
      /\ t = s => vol'[t] = vol[t] + (-order[o].size)
  <2>1. -order[o].size \in Int
    BY <1>2
  <2> QED BY <1>1, <1>2, <1>4, <2>1, UpdateVolNear, ZenonT(40)
<1> DEFINE S == OnSide(levels.parent, t)
           S2 == OnSide(levels'.parent, t)
<1>6. S \subseteq Orders
  BY DEF OnSide
<1>7. /\ t # s => S2 = S
      /\ t = s => S2 = S \ {o} /\ o \in S
  BY <1>1, <1>2, <1>3 DEF OnSide
<1> HIDE DEF S, S2
<1>8. SizesIn(order, S) \in Nat /\ (o \in S => SizesIn(order, S \ {o}) = SizesIn(order, S) - order[o].size)
  BY <1>1, <1>6, SizesType, SizesWithout
<1>9. vol[t] \in Int
  BY <1>1 DEF VolTypes
<1>10. vol'[t] - vol[t] = SizesIn(order', S2) - SizesIn(order, S)
  <2>1. CASE t = s
    <3>1. SizesIn(order', S2) = SizesIn(order, S) - order[o].size
      BY <1>4, <1>7, <1>8, <2>1
    <3>2. vol'[t] = vol[t] + (-order[o].size)
      BY <1>5, <2>1
    <3> QED BY <1>2, <1>8, <1>9, <3>1, <3>2
  <2>2. CASE t # s
    BY <1>4, <1>5, <1>7, <1>8, <1>9, <2>2
  <2> QED BY <2>1, <2>2
<1> QED BY <1>10 DEF S, S2, RestingOn

\* A modified order counts with its new size, wherever it goes.
LEMMA ModifyKnownVol ==
  ASSUME AllNear, IInv, NEW s \in Sides, NEW id \in Ids, RestsOn(id, s), NEW p \in Prices, NEW n \in Sizes,
         ModifyKnown(s, id, p, n)
  PROVE  VolStep
<1> DEFINE o == order_lookup_[id]
           r == [price |-> p, size |-> n]
           L == ModifiedLevels(s, o, p, n)
<1> SUFFICES ASSUME NEW t \in Sides, update_possible, PricesOf(levels', t) # {}
             PROVE  vol'[t] - vol[t] = RestingOn(order', levels'.parent, t)
                                         - RestingOn(order, levels.parent, t)
  BY DEF VolStep
<1>1. /\ VolTypes /\ order \in [Orders -> OrderRecord]
      /\ levels.parent \in [Orders -> Keys \cup {Null}] /\ Null \notin Keys /\ <<s, p>> \in Keys
  BY LevelsFields, ConstantTypes DEF IInv, LevelsOK, Keys
<1>2. /\ o \in Orders /\ levels.parent[o] = <<s, order[o].price>> /\ levels.parent[o] # Null
      /\ order[o].price \in Prices /\ order[o].size \in Nat
  BY RestingOrder
<1>3. /\ levels' = L /\ order' = [order EXCEPT ![o] = r]
      /\ UpdateModifyVol(levels', s, order[o].price, p, order[o].size, n)
  BY DEF ModifyKnown
<1>4. /\ LevelsOK(L, [order EXCEPT ![o] = [price |-> p, size |-> n]])
      /\ \/ L.parent = levels.parent
         \/ L.parent = [[levels.parent EXCEPT ![o] = Null] EXCEPT ![o] = <<s, p>>]
      /\ EmptyOf(L) \subseteq EmptyOf(levels)
  BY ModifiedLevelsKeep
<1>5. n \in Int /\ r \in OrderRecord /\ r.size = n
  BY SizesNat DEF OrderRecord
<1> HIDE DEF o, r, L
<1>6. /\ t # s => vol'[t] = vol[t]
      /\ t = s => vol'[t] = vol[t] - order[o].size + n
  <2>1. /\ order[o].size \in Int /\ order[o].price \in Prices
        /\ UpdateModifyVol(levels', s, order[o].price, p, order[o].size, n)
    BY <1>2, <1>3
  <2>2. /\ \A x \in Sides : x # s => vol'[x] = vol[x]
        /\ PricesOf(levels', s) # {} => vol'[s] = vol[s] - order[o].size + n
    BY <1>1, <1>5, <2>1, UpdateModifyVolNear
  <2> QED BY <2>2
<1> DEFINE S == OnSide(levels.parent, t)
<1>7. S \subseteq Orders /\ (o \in S <=> t = s)
  BY <1>2 DEF OnSide
<1>8. OnSide(levels'.parent, t) = S
  BY <1>1, <1>2, <1>3, <1>4 DEF OnSide
<1> HIDE DEF S
<1>9. /\ SizesIn(order, S) \in Nat
      /\ o \in S => SizesIn(order', S) = SizesIn(order, S) + (n - order[o].size)
      /\ o \notin S => SizesIn(order', S) = SizesIn(order, S)
  <2>1. SizesIn(order, S) \in Nat
    BY <1>1, <1>7, SizesType
  <2>2. /\ order' \in [Orders -> OrderRecord] /\ \A x \in Orders : x # o => order'[x] = order[x]
        /\ order'[o] = r
    BY <1>1, <1>2, <1>3, <1>5
  <2> QED BY <1>1, <1>2, <1>5, <1>7, <2>1, <2>2, SizesReplaced
<1>10. vol[t] \in Int
  BY <1>1 DEF VolTypes
<1>11. vol'[t] - vol[t] = SizesIn(order', S) - SizesIn(order, S)
  <2>1. CASE t = s
    BY <1>2, <1>5, <1>6, <1>7, <1>9, <1>10, <2>1
  <2>2. CASE t # s
    BY <1>6, <1>7, <1>9, <1>10, <2>2
  <2> QED BY <2>1, <2>2
<1> QED BY <1>8, <1>11 DEF S, RestingOn

\* The running volume and the one order that the trade reaches lose the same.
LEMMA TradeOrderVol ==
  ASSUME IInv, NEW s \in Sides, NEW p \in Prices, NEW n \in Sizes, TradeOrder(s, p, n)
  PROVE  VolStep
<1> DEFINE k == <<~s, p>>
           q == levels.list[k]
           f == [i \in DOMAIN q |-> Left(q, i, n)]
           reached == Reached(q, n)
<1> SUFFICES ASSUME NEW t \in Sides, update_possible
             PROVE  vol'[t] - vol[t] = RestingOn(order', levels'.parent, t)
                                         - RestingOn(order, levels.parent, t)
  BY DEF VolStep
<1>1. /\ VolTypes /\ LevelsOK(levels, order) /\ order \in [Orders -> OrderRecord]
      /\ levels.parent \in [Orders -> Keys \cup {Null}] /\ Null \notin Keys
  BY LevelsFields, ConstantTypes DEF IInv, LevelsOK
<1>2. levels'.parent = levels.parent
  BY TradeOrderKeeps
<1> DEFINE S == OnSide(levels.parent, t)
<1>3. S \subseteq Orders
  BY DEF OnSide
<1>4. vol[t] \in Int /\ SizesIn(order, S) \in Nat
  BY <1>1, <1>3, SizesType DEF VolTypes
<1>5. SUFFICES vol'[t] - vol[t] = SizesIn(order', S) - SizesIn(order, S)
  BY <1>2 DEF RestingOn
<1>6. CASE UNCHANGED <<order, vol>>
  BY <1>4, <1>6
<1>7. CASE WalkList(GetOrInsertLimit(levels, k).list[k], n, ~s)
  <2>1. k \in Keys /\ (~s) \in Sides /\ n \in Int /\ k[1] = (~s)
    <3>1. (~s) \in Sides
      BY Zenon DEF Sides
    <3> QED BY <3>1, SizesNat DEF Keys
  <2>2. /\ WalkList(q, n, ~s)
        /\ q \in Seq(Orders) /\ IsInjective(q)
        /\ \A o \in ToSet(q) : levels.parent[o] = k
    <3> HIDE DEF k
    <3>1. GetOrInsertLimit(levels, k).list = levels.list
      BY <1>1, <2>1, GetOrInsertKeeps
    <3> QED BY <1>1, <1>7, <2>1, <3>1, LevelsFields DEF LevelsOK, Once, Placed
  <2> HIDE DEF k, q
  <2>3. /\ \A i \in reached :
             order'[q[i]] = [price |-> order[q[i]].price, size |-> order[q[i]].size - Left(q, i, n)]
        /\ \A o \in Orders : (\A i \in reached : q[i] # o) => order'[o] = order[o]
        /\ order' = [o \in Orders |-> order'[o]]
    BY <1>1, <2>1, <2>2, WalkTakes
  <2>4. /\ vol \in [Sides -> Int]
        /\ vol' = [vol EXCEPT ![~s] = @ - SumFunctionOnSet(f, reached)]
    <3>1. vol \in [Sides -> Int]
      BY <1>1 DEF VolTypes
    <3>2. vol[~s] # Null
      <4>1. \A x \in Sides : vol[x] # Null
        BY <3>1, OrderbookAssumption
      <4> QED BY <2>1, <4>1, Zenon
    <3> QED BY <2>2, <3>1, <3>2 DEF WalkList, Reached
  <2>5. CASE reached = {}
    <3>1. order' = order
      BY <1>1, <2>3, <2>5
    <3>2. SumFunctionOnSet(f, reached) = 0
      BY <2>5, FiniteSumEmpty
    <3> HIDE DEF f, reached
    <3> QED BY <1>4, <2>1, <2>4, <3>1, <3>2
  <2>6. CASE reached # {}
    <3>1. PICK i \in reached : TRUE
      BY <2>6
    <3>2. reached = {i}
      BY <1>1, <2>1, <2>2, <3>1, ReachesOne
    <3>3. /\ i \in DOMAIN q /\ q[i] \in Orders /\ q[i] \in ToSet(q)
          /\ Left(q, i, n) \in 1 .. order[q[i]].size - 1
      BY <2>2, <3>1 DEF Reached, ToSet
    <3> DEFINE r == [price |-> order[q[i]].price, size |-> order[q[i]].size - Left(q, i, n)]
    <3>4. order[q[i]].size \in Nat /\ r \in OrderRecord /\ r.size - order[q[i]].size = -Left(q, i, n)
      <4>1. order[q[i]].size \in Nat /\ order[q[i]].price \in Prices \cup {0}
        BY <1>1, <3>3 DEF OrderRecord
      <4>2. order[q[i]].size - Left(q, i, n) \in Nat
            /\ (order[q[i]].size - Left(q, i, n)) - order[q[i]].size = -Left(q, i, n)
        BY <3>3, <4>1
      <4> QED BY <4>1, <4>2 DEF OrderRecord
    <3>5. order'[q[i]] = r
      BY <2>3, <3>1
    <3> HIDE DEF r
    <3>6. order' \in [Orders -> OrderRecord] /\ \A x \in Orders : x # q[i] => order'[x] = order[x]
      <4>1. \A x \in Orders : x # q[i] => order'[x] = order[x]
        BY <2>3, <3>2
      <4>2. \A x \in Orders : order'[x] \in OrderRecord
        BY <1>1, <3>4, <3>5, <4>1
      <4> QED BY <2>3, <4>1, <4>2
    <3>7. SumFunctionOnSet(f, reached) = Left(q, i, n)
      <4>1. f[i] = Left(q, i, n) /\ Left(q, i, n) \in Int
        BY <3>3
      <4> HIDE DEF f
      <4>2. SumFunctionOnSet(f, {} \cup {i}) = f[i] + SumFunctionOnSet(f, {})
        <5>1. IsFiniteSet({}) /\ i \notin {} /\ f[i] \in Int /\ \A y \in {} : f[y] \in Int
          BY <4>1, FS_EmptySet
        <5> QED BY <5>1, FiniteSumWith
      <4>3. SumFunctionOnSet(f, {}) = 0 /\ {} \cup {i} = {i}
        BY FiniteSumEmpty
      <4> QED BY <3>2, <4>1, <4>2, <4>3
    <3>8. q[i] \in S <=> t = (~s)
      BY <1>1, <2>1, <2>2, <3>3 DEF OnSide
    <3> HIDE DEF S, f, reached
    <3>9. /\ q[i] \in S => SizesIn(order', S) = SizesIn(order, S) + (r.size - order[q[i]].size)
          /\ q[i] \notin S => SizesIn(order', S) = SizesIn(order, S)
      BY <1>1, <1>3, <3>3, <3>5, <3>6, SizesReplaced
    <3> QED
      <4>1. vol'[t] = vol[t] - IF t = (~s) THEN Left(q, i, n) ELSE 0
        BY <2>1, <2>4, <3>7, <1>4
      <4>2. Left(q, i, n) \in Int
        BY <3>3
      <4>3. CASE t = (~s)
        <5>1. SizesIn(order', S) = SizesIn(order, S) + -Left(q, i, n)
          BY <3>4, <3>8, <3>9, <4>3
        <5> QED BY <1>4, <4>1, <4>2, <4>3, <5>1
      <4>4. CASE t # (~s)
        <5>1. SizesIn(order', S) = SizesIn(order, S)
          BY <3>8, <3>9, <4>4
        <5> QED BY <1>4, <4>1, <4>4, <5>1
      <4> QED BY <4>3, <4>4
  <2> QED BY <2>5, <2>6
<1> QED BY <1>6, <1>7 DEF TradeOrder, vars

\* The orders in the limits of a side are those whose parent_ is on it.
LEMMA OrdersAtSide ==
  ASSUME IInv, NEW s \in Sides
  PROVE  OrdersAt(s) = OnSide(levels.parent, s)
<1>1. LevelsOK(levels, order)
  BY DEF IInv
<1>2. levels.at \subseteq Keys /\ levels.list \in [Keys -> Seq(Orders)] /\ Null \notin Keys
  BY <1>1, LevelsFields, ConstantTypes DEF LevelsOK
<1>3. ASSUME NEW k \in levels.at, k[1] = s, NEW o \in ToSet(levels.list[k])
      PROVE  o \in OnSide(levels.parent, s)
  <2>1. o \in Orders /\ levels.parent[o] = k /\ k # Null
    BY <1>1, <1>2, ListSet DEF LevelsOK, Placed
  <2> QED BY <1>3, <2>1 DEF OnSide
<1>4. ASSUME NEW o \in OnSide(levels.parent, s)
      PROVE  \E k \in levels.at : k[1] = s /\ o \in ToSet(levels.list[k])
  <2>1. o \in Orders /\ levels.parent[o] # Null /\ levels.parent[o][1] = s
    BY DEF OnSide
  <2> QED BY <1>1, <2>1, ParentHasOrder
<1> QED BY <1>3, <1>4 DEF OrdersAt, OrdersIn

\* The size that rests on a side, in the terms of VolFollowsOrders and of the lemmas above.
SidesRest == \A s \in Sides : SizeOf(OrdersAt(s)) = RestingOn(order, levels.parent, s)

LEMMA InvSidesRest == IInv => SidesRest
BY OrdersAtSide DEF SidesRest, SizeOf, RestingOn, SizesIn

\* Every step is a message that the volumes follow, or leaves limits and orders alone.
LEMMA NextFollowsOrders ==
  ASSUME AllNear, IInv, [Next]_vars
  PROVE  VolStep \/ <<levels, order>>' = <<levels, order>>
<1>1. CASE ProcessMsg
  <2>1. PICK s \in Sides :
          \/ \E id \in Ids, p \in Prices, n \in Sizes :
               \/ ~Known(id) /\ AddLimitOrder(s, id, p, n)
               \/ (~Known(id) \/ RestsOn(id, s)) /\ ModifyOrder(s, id, p, n)
          \/ \E id \in Ids :
               RestsOn(id, s) /\ RemoveOrder(s, id, OrderOf(id).price, OrderOf(id).size)
          \/ \E p \in Prices, n \in Sizes : TradeOrder(s, p, n)
    BY <1>1 DEF ProcessMsg
  <2>2. ASSUME NEW id \in Ids, NEW p \in Prices, NEW n \in Sizes,
               ~Known(id), AddLimitOrder(s, id, p, n)
        PROVE  VolStep
    BY <2>2, AddLimitOrderVol
  <2>3. ASSUME NEW id \in Ids, NEW p \in Prices, NEW n \in Sizes,
               ~Known(id) \/ RestsOn(id, s), ModifyOrder(s, id, p, n)
        PROVE  VolStep
    <3>1. CASE ~Known(id) /\ AddLimitOrder(s, id, p, n)
      BY <2>2, <3>1
    <3>2. CASE RestsOn(id, s) /\ ModifyKnown(s, id, p, n)
      BY <3>2, ModifyKnownVol
    <3> QED BY <2>3, <3>1, <3>2 DEF ModifyOrder, Known
  <2>4. ASSUME NEW id \in Ids, RestsOn(id, s),
               RemoveOrder(s, id, OrderOf(id).price, OrderOf(id).size)
        PROVE  VolStep
    BY <2>4, RemoveOrderVol
  <2>5. ASSUME NEW p \in Prices, NEW n \in Sizes, TradeOrder(s, p, n)
        PROVE  VolStep
    BY <2>5, TradeOrderVol
  <2> QED BY <2>1, <2>2, <2>3, <2>4, <2>5
<1>2. CASE CalculateVols
  BY <1>2 DEF CalculateVols
<1>3. CASE UNCHANGED vars
  BY <1>3 DEF vars
<1> QED BY <1>1, <1>2, <1>3 DEF Next

-----------------------------------------------------------------------------
(* The theorems.                                                           *)

LEMMA InitIInv == Init => IInv
<1> SUFFICES ASSUME Init PROVE IInv
  OBVIOUS
<1>1. /\ MaxOrders \in Nat /\ Preallocated \in Nat /\ Preallocated <= MaxOrders
      /\ Null \notin Orders /\ Null \notin Keys
  BY ConstantTypes
<1>2. LookedUp = {}
  BY DEF Init, LookedUp
<1>3. PoolTypes
  <2>1. available_orders_ \in Seq(Orders)
    BY <1>1 DEF Init, Orders
  <2> QED BY <1>1, <2>1 DEF Init, PoolTypes
<1>4. PoolPartition
  <2>1. /\ IsInjective(available_orders_) /\ ToSet(available_orders_) = 1 .. pool_
    BY <1>1 DEF Init, IsInjective, ToSet
  <2> QED BY <1>2, <2>1 DEF Init, PoolPartition, Known
<1>5. VolTypes
  BY DEF Init, VolTypes
<1>6. LevelsOK(levels, order)
  <2>1. /\ levels.at = {} /\ levels.lookup = {} /\ levels.list = [k \in Keys |-> <<>>]
        /\ levels.volume = [k \in Keys |-> 0] /\ levels.num = [k \in Keys |-> 0]
        /\ levels.parent = [o \in Orders |-> Null]
        /\ levels = [at |-> {}, lookup |-> {}, list |-> [k \in Keys |-> <<>>],
                     volume |-> [k \in Keys |-> 0], num |-> [k \in Keys |-> 0],
                     parent |-> [o \in Orders |-> Null]]
    BY DEF Init, NoLevels
  <2>2. /\ <<>> \in Seq(Orders) /\ Len(<<>>) = 0 /\ ToSet(<<>>) = {} /\ IsInjective(<<>>)
    BY EmptyList
  <2>3. levels \in LevelsRecord
    BY <2>1, <2>2 DEF LevelsRecord
  <2>4. order \in [Orders -> OrderRecord]
    BY DEF Init, OrderRecord
  <2>5. Placed(levels, order) /\ Listed(levels) /\ Once(levels) /\ Numbered(levels)
    BY <2>1, <2>2 DEF Placed, Listed, Once, Numbered
  <2>6. InMaps(levels)
    <3>1. \A s \in Sides : PricesOf(levels, s) = {}
      BY <2>1 DEF PricesOf
    <3> QED BY <2>1, <3>1, FS_EmptySet DEF InMaps
  <2>7. Covered(levels, order)
    <3>1. SizesIn(order, {}) = 0
      BY FiniteSumEmpty DEF SizesIn
    <3>2. \A k \in Keys : ToSet(levels.list[k]) = {} /\ levels.volume[k] = 0
      BY <2>1, <2>2
    <3>3. \A k \in Keys : levels.volume[k] >= SizesIn(order, ToSet(levels.list[k]))
      BY <3>1, <3>2
    <3> QED BY <3>3 DEF Covered
  <2> QED BY <2>3, <2>4, <2>5, <2>6, <2>7 DEF LevelsOK
<1>7. levels.parent = [o \in Orders |-> Null]
  BY DEF Init, NoLevels
<1>8. LookedUpRest
  BY <1>2, <1>7 DEF LookedUpRest
<1>9. SidesCounted(levels.parent, count)
  <2>1. \A s \in Sides : OnSide(levels.parent, s) = {}
    BY <1>7 DEF OnSide
  <2>2. Cardinality({}) = 0
    BY FS_EmptySet
  <2> QED BY <2>1, <2>2 DEF Init, SidesCounted
<1>10. count \in [Sides -> Nat]
  BY DEF Init
<1> QED BY <1>3, <1>4, <1>5, <1>6, <1>8, <1>9, <1>10 DEF IInv

\* What a step does to the empty limits and the places of the orders.
EmptiesFromTrades ==
  EmptyLevels' \subseteq EmptyLevels
    \/ (levels.list = levels'.list /\ UNCHANGED <<order_lookup_, count>>)

LEMMA NextKeeps ==
  ASSUME IInv, [Next]_vars
  PROVE  IInv' /\ EmptiesFromTrades
<1>1. CASE ProcessMsg
  <2>1. PICK s \in Sides :
          \/ \E id \in Ids, p \in Prices, n \in Sizes :
               \/ ~Known(id) /\ AddLimitOrder(s, id, p, n)
               \/ (~Known(id) \/ RestsOn(id, s)) /\ ModifyOrder(s, id, p, n)
          \/ \E id \in Ids :
               RestsOn(id, s) /\ RemoveOrder(s, id, OrderOf(id).price, OrderOf(id).size)
          \/ \E p \in Prices, n \in Sizes : TradeOrder(s, p, n)
    BY <1>1 DEF ProcessMsg
  <2>2. ASSUME NEW id \in Ids, NEW p \in Prices, NEW n \in Sizes,
               ~Known(id) /\ AddLimitOrder(s, id, p, n)
        PROVE  IInv' /\ EmptiesFromTrades
    BY <2>2, AddLimitOrderKeeps DEF EmptiesFromTrades
  <2>3. ASSUME NEW id \in Ids, NEW p \in Prices, NEW n \in Sizes,
               (~Known(id) \/ RestsOn(id, s)) /\ ModifyOrder(s, id, p, n)
        PROVE  IInv' /\ EmptiesFromTrades
    <3>1. CASE order_lookup_[id] = Null /\ AddLimitOrder(s, id, p, n)
      <4>1. ~Known(id)
        BY <3>1 DEF Known
      <4> QED BY <3>1, <4>1, AddLimitOrderKeeps DEF EmptiesFromTrades
    <3>2. CASE order_lookup_[id] # Null /\ ModifyKnown(s, id, p, n)
      <4>1. RestsOn(id, s)
        BY <2>3, <3>2 DEF Known
      <4> QED BY <3>2, <4>1, ModifyKnownKeeps DEF EmptiesFromTrades
    <3> QED BY <2>3, <3>1, <3>2 DEF ModifyOrder
  <2>4. ASSUME NEW id \in Ids,
               RestsOn(id, s) /\ RemoveOrder(s, id, OrderOf(id).price, OrderOf(id).size)
        PROVE  IInv' /\ EmptiesFromTrades
    BY <2>4, RemoveOrderKeeps DEF EmptiesFromTrades
  <2>5. ASSUME NEW p \in Prices, NEW n \in Sizes, TradeOrder(s, p, n)
        PROVE  IInv' /\ EmptiesFromTrades
    <3>1. IInv' /\ levels'.list = levels.list /\ UNCHANGED <<order_lookup_, count>>
      BY <2>5, TradeOrderKeeps
    <3> QED BY <3>1 DEF EmptiesFromTrades
  <2> QED BY <2>1, <2>2, <2>3, <2>4, <2>5
<1>2. CASE CalculateVols
  <2>1. IInv' /\ levels' = levels
    BY <1>2, CalculateVolsKeeps
  <2> QED BY <2>1 DEF EmptiesFromTrades, EmptyLevels
<1>3. CASE UNCHANGED vars
  BY <1>3 DEF vars, IInv, PoolTypes, PoolPartition, VolTypes, LookedUpRest, LookedUp, Known,
              EmptiesFromTrades
<1> QED BY <1>1, <1>2, <1>3 DEF Next

LEMMA Invariance == Spec => []IInv
<1>1. IInv /\ [Next]_vars => IInv'
  BY NextKeeps
<1> QED BY <1>1, InitIInv, PTL DEF Spec

\* A behaviour of messages alone is one of the book.
LEMMA MessagesAreSpec == MessagesSpec => Spec
<1>1. [ProcessMsg]_vars => [Next]_vars
  BY DEF Next
<1> QED BY <1>1, PTL DEF MessagesSpec, Spec

\* Every variable has its type: num_orders_, volume_, ask_count_ and bid_count_ are
\* natural numbers before and after every message, although they are decremented.
THEOREM TypeCorrect == Spec => []TypeOK
<1>1. IInv => TypeOK
  BY LevelsFields DEF IInv, TypeOK, PoolTypes, VolTypes, LevelsOK, OrderRecord
<1> QED BY <1>1, Invariance, PTL

\* get_order and return_order hand every Order object to one id at most, and lose none.
THEOREM PoolCorrect == Spec => []PoolPartition
<1>1. IInv => PoolPartition
  BY DEF IInv
<1> QED BY <1>1, Invariance, PTL

\* bids_, offers_, limit_lookup_, order_lookup_, the lists, parent_ and price_ agree.
THEOREM IndexesCorrect == Spec => []BookCoherent
<1>1. IInv => BookCoherent
  <2> SUFFICES ASSUME IInv PROVE BookCoherent
    OBVIOUS
  <2>1. LevelsOK(levels, order) /\ LookedUpRest /\ PoolTypes
    BY DEF IInv
  <2>2. levels.at \subseteq Keys /\ levels.list \in [Keys -> Seq(Orders)]
        /\ levels.parent \in [Orders -> Keys \cup {Null}] /\ Null \notin Keys
    BY <2>1, LevelsFields, ConstantTypes DEF LevelsOK
  <2>3. levels.at = levels.lookup
    BY <2>1 DEF LevelsOK, InMaps
  <2>4. \A k \in levels.at :
          /\ IsInjective(levels.list[k])
          /\ \A o \in ToSet(levels.list[k]) : levels.parent[o] = k /\ order[o].price = k[2]
    BY <2>1, <2>2 DEF LevelsOK, Once, Placed
  <2>5. LookedUp \subseteq Orders
    BY <2>1 DEF PoolTypes, LookedUp
  <2>6. OrdersIn(levels.at) = LookedUp
    <3>1. ASSUME NEW k \in levels.at, NEW o \in ToSet(levels.list[k]) PROVE o \in LookedUp
      <4>1. o \in Orders /\ levels.parent[o] = k /\ k # Null
        BY <2>2, <2>4, ListSet
      <4> QED BY <2>1, <4>1 DEF LookedUpRest
    <3>2. ASSUME NEW o \in LookedUp PROVE \E k \in levels.at : o \in ToSet(levels.list[k])
      <4>1. o \in Orders /\ levels.parent[o] # Null
        BY <2>1, <2>5 DEF LookedUpRest
      <4> QED BY <2>1, <4>1, ParentHasOrder
    <3> QED BY <3>1, <3>2 DEF OrdersIn
  <2>7. \A o \in Orders \ LookedUp : levels.parent[o] = Null
    BY <2>1 DEF LookedUpRest
  <2> QED BY <2>3, <2>4, <2>6, <2>7 DEF BookCoherent
<1> QED BY <1>1, Invariance, PTL

\* ask_count_, bid_count_ and num_orders_ are the numbers of orders that are there,
\* and volume_ is at least what rests in the limit, whatever trades and modifies did.
THEOREM CountersCorrect == Spec => []CountersCoverOrders
<1>1. IInv => CountersCoverOrders
  <2> SUFFICES ASSUME IInv PROVE CountersCoverOrders
    OBVIOUS
  <2>1. LevelsOK(levels, order) /\ LookedUpRest /\ SidesCounted(levels.parent, count)
    BY DEF IInv
  <2>2. levels.at \subseteq Keys /\ levels.list \in [Keys -> Seq(Orders)]
        /\ levels.parent \in [Orders -> Keys \cup {Null}] /\ Null \notin Keys
    BY <2>1, LevelsFields, ConstantTypes DEF LevelsOK
  <2>3. \A s \in Sides : count[s] = Cardinality(OrdersAt(s))
    BY <2>1, OrdersAtSide DEF SidesCounted
  <2>4. \A k \in levels.at :
          /\ levels.num[k] = Len(levels.list[k])
          /\ levels.volume[k] >= SizeOf(ToSet(levels.list[k]))
    BY <2>1, <2>2 DEF LevelsOK, Numbered, Covered, SizesIn, SizeOf
  <2>5. \A o \in LookedUp : order[o].size > 0
    BY <2>1 DEF LookedUpRest
  <2> QED BY <2>3, <2>4, <2>5 DEF CountersCoverOrders
<1> QED BY <1>1, Invariance, PTL

\* No cancel and no modify leaves a limit without orders in the maps.
THEOREM EmptyLevelsCorrect == Spec => OnlyTradesAddEmptyLevels
<1>1. IInv /\ [Next]_vars => [EmptiesFromTrades]_vars
  BY NextKeeps
<1> QED BY <1>1, Invariance, PTL DEF Spec, OnlyTradesAddEmptyLevels, EmptiesFromTrades

\* Whatever messages arrive, the ids and the sizes at every price are those of a
\* price-time priority book after the same messages.
THEOREM PriorityCorrect == Spec => IsPriceTimeBook
<1>1. IInv /\ ById /\ ById' /\ [Next]_vars => [Priority!Next]_(Priority!vars)
  BY NextIsPriority
<1> QED BY <1>1, InvById, Invariance, InitIsPriority, PTL DEF Spec, IsPriceTimeBook, Priority!Spec

\* trade_order takes from the one order that its size reaches but does not exhaust what is
\* left for it, and nothing from any other.
THEOREM TradesCorrect == Spec => TradesFollowPriority
<1>1. IInv /\ ById /\ ById' =>
        [\A s \in Sides, p \in Prices, n \in Sizes :
           TradeOrder(s, p, n) => Priority!Trade(~s, p, n)]_vars
  BY TradeOrderTrades
<1> QED BY <1>1, InvById, Invariance, PTL DEF Spec, TradesFollowPriority

\* bid_vol_ and ask_vol_ follow what rests on their side through every message, if every
\* price is within VolRange of every other: no add, cancel, modify or trade counts a size
\* that it does not change, or the reverse.
THEOREM VolumesCorrect ==
  ASSUME AllNear
  PROVE  Spec => VolFollowsOrders
<1>1. IInv /\ SidesRest /\ SidesRest' /\ [Next]_vars =>
        [\A s \in Sides :
           update_possible /\ <<levels, order>>' # <<levels, order>> /\ PricesOf(levels', s) # {}
             => vol'[s] - vol[s] = SizeOf(OrdersAt(s))' - SizeOf(OrdersAt(s))]_vars
  <2> SUFFICES ASSUME IInv, SidesRest, SidesRest', [Next]_vars, NEW s \in Sides, update_possible,
                      <<levels, order>>' # <<levels, order>>, PricesOf(levels', s) # {}
               PROVE  vol'[s] - vol[s] = SizeOf(OrdersAt(s))' - SizeOf(OrdersAt(s))
    OBVIOUS
  <2>1. VolStep
    BY NextFollowsOrders
  <2>2. /\ SizeOf(OrdersAt(s)) = RestingOn(order, levels.parent, s)
        /\ SizeOf(OrdersAt(s))' = RestingOn(order', levels'.parent, s)
    BY DEF SidesRest
  <2> QED BY <2>1, <2>2 DEF VolStep
<1> QED BY <1>1, InvSidesRest, Invariance, PTL DEF Spec, VolFollowsOrders

\* The same for the specification that the run of the messages checks.
THEOREM MessagesCorrect ==
  MessagesSpec => /\ []TypeOK /\ []PoolPartition /\ []BookCoherent /\ []CountersCoverOrders
                  /\ OnlyTradesAddEmptyLevels /\ IsPriceTimeBook /\ TradesFollowPriority
BY MessagesAreSpec, TypeCorrect, PoolCorrect, IndexesCorrect, CountersCorrect, EmptyLevelsCorrect,
   PriorityCorrect, TradesCorrect, PTL
=============================================================================
