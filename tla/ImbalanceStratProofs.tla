------------------------ MODULE ImbalanceStratProofs ------------------------
(***************************************************************************)
(* Theorems about ImbalanceStrat for any prices, volumes and times, every  *)
(* limit, fee, point value and width of an int32_t: types, the limit, and  *)
(* the profit.                                                             *)
(***************************************************************************)
EXTENDS ImbalanceStrat, SequenceTheorems, FiniteSetTheorems, FiniteInduction, TLAPS

TradeRecord == [is_buy : BOOLEAN, price : Prices, size : 1 .. 3]

SignedSizes(list) == [i \in DOMAIN list |-> Signed(list[i])]
SignedValues(list) == [i \in DOMAIN list |-> Signed(list[i]) * list[i].price]
Sizes(list) == [i \in DOMAIN list |-> list[i].size]

\* How many values an int32_t has.
Modulus == IntMax - IntMin + 1

\* y is x but for overflows.
Congruent(x, y) == \E k \in Int : y = x + k * Modulus

-----------------------------------------------------------------------------
(* The sum of a list.                                                      *)

\* f holds the sums of the first elements of s.
Sums(f, s, n) == f[0] = 0 /\ \A i \in 1 .. n : f[i] = f[i - 1] + s[i]

SumsUpTo(f, s, n) == f \in [0 .. n -> Int] /\ Sums(f, s, n)

Agree(s, t, n) == \A i \in 1 .. n : s[i] = t[i]

\* There are such sums.
LEMMA SumsExist ==
  ASSUME NEW s \in Seq(Int), NEW n \in 0 .. Len(s)
  PROVE  \E f : SumsUpTo(f, s, n)
<1> DEFINE L == Len(s)
           Bad == {m \in 0 .. L : ~ \E f : SumsUpTo(f, s, m)}
<1>1. L \in Nat /\ \A m \in 1 .. L : s[m] \in Int
  OBVIOUS
<1> HIDE DEF L
<1>2. Bad = {}
  <2> SUFFICES ASSUME Bad # {} PROVE FALSE
    OBVIOUS
  <2>1. PICK m \in Bad : \A j \in Bad : m <= j
    <3>1. Bad \subseteq Nat
      BY <1>1
    <3> HIDE DEF Bad
    <3> QED BY <3>1, LeastNumberExists
  <2>2. m \in 0 .. L /\ ~ \E f : SumsUpTo(f, s, m)
    OBVIOUS
  <2>3. CASE m = 0
    <3> DEFINE f == [i \in 0 .. 0 |-> 0]
    <3>1. SumsUpTo(f, s, m)
      BY <2>3 DEF SumsUpTo, Sums
    <3> HIDE DEF f
    <3> QED BY <2>2, <3>1
  <2>4. CASE m # 0
    <3>1. m - 1 \in 0 .. L /\ m - 1 \notin Bad
      <4> HIDE DEF Bad
      <4> QED BY <1>1, <2>1, <2>2, <2>4
    <3>2. PICK f : SumsUpTo(f, s, m - 1)
      BY <3>1
    <3> DEFINE g == [i \in 0 .. m |-> IF i = m THEN f[m - 1] + s[m] ELSE f[i]]
    <3>3. f[m - 1] \in Int /\ s[m] \in Int
      BY <1>1, <2>2, <2>4, <3>2 DEF SumsUpTo, Sums
    <3>4. g \in [0 .. m -> Int] /\ g[0] = 0
      BY <1>1, <2>2, <2>4, <3>2, <3>3 DEF SumsUpTo, Sums
    <3>5. ASSUME NEW i \in 1 .. m PROVE g[i] = g[i - 1] + s[i]
      <4>1. i - 1 \in 0 .. m /\ g[i - 1] = f[i - 1]
        BY <1>1, <2>2
      <4>2. CASE i = m
        BY <4>1, <4>2
      <4>3. CASE i # m
        <5>1. i \in 1 .. m - 1 /\ g[i] = f[i]
          BY <1>1, <2>2, <4>3
        <5> QED BY <3>2, <4>1, <5>1 DEF SumsUpTo, Sums
      <4> QED BY <4>2, <4>3
    <3>6. SumsUpTo(g, s, m)
      BY <3>4, <3>5 DEF SumsUpTo, Sums
    <3> HIDE DEF g
    <3> QED BY <2>2, <3>6
  <2> QED BY <2>3, <2>4
<1>3. n \notin Bad /\ n \in 0 .. L
  <2> HIDE DEF Bad
  <2> QED BY <1>2 DEF L
<1> QED BY <1>3

\* Two ways to sum up the same elements agree.
LEMMA SumsAgree ==
  ASSUME NEW s, NEW t, NEW f, NEW g, NEW n \in Nat,
         SumsUpTo(f, s, n), Sums(g, t, n), Agree(s, t, n)
  PROVE  g[n] = f[n]
<1> DEFINE Bad == {m \in 0 .. n : g[m] # f[m]}
<1>1. Bad = {}
  <2> SUFFICES ASSUME Bad # {} PROVE FALSE
    OBVIOUS
  <2>1. PICK m \in Bad : \A j \in Bad : m <= j
    <3>1. Bad \subseteq Nat
      OBVIOUS
    <3> HIDE DEF Bad
    <3> QED BY <3>1, LeastNumberExists
  <2>2. m \in 0 .. n /\ g[m] # f[m]
    OBVIOUS
  <2>3. m # 0
    BY <2>2 DEF SumsUpTo, Sums
  <2>4. m - 1 \in 0 .. n /\ m - 1 \notin Bad
    <3> HIDE DEF Bad
    <3> QED BY <2>1, <2>2, <2>3
  <2>5. g[m - 1] = f[m - 1]
    BY <2>4
  <2>6. m \in 1 .. n
    BY <2>2, <2>3
  <2> QED BY <2>2, <2>5, <2>6 DEF SumsUpTo, Sums, Agree
<1>2. n \in 0 .. n /\ n \notin Bad
  <2> HIDE DEF Bad
  <2> QED BY <1>1
<1> QED BY <1>2

\* Sum is what such sums end in.
LEMMA SumIsLast ==
  ASSUME NEW s \in Seq(Int), NEW f, SumsUpTo(f, s, Len(s))
  PROVE  Sum(s) = f[Len(s)]
<1> DEFINE L == Len(s)
           sum[n \in 0 .. L] == IF n = 0 THEN 0 ELSE sum[n - 1] + s[n]
<1>1. L \in Nat
  OBVIOUS
<1>2. f = [n \in 0 .. L |-> IF n = 0 THEN 0 ELSE f[n - 1] + s[n]]
  BY <1>1 DEF SumsUpTo, Sums
<1>3. sum = [n \in 0 .. L |-> IF n = 0 THEN 0 ELSE sum[n - 1] + s[n]]
  <2> HIDE DEF L
  <2> QED BY <1>2
<1>4. Sum(s) = sum[L]
  BY DEF Sum
<1> HIDE DEF sum, L
<1>5. Sums(sum, s, L) /\ Agree(s, s, L)
  BY <1>1, <1>3 DEF Sums, Agree
<1>6. SumsUpTo(f, s, L)
  BY DEF L
<1>7. sum[L] = f[L]
  BY <1>1, <1>5, <1>6, SumsAgree
<1> QED BY <1>4, <1>7 DEF L

LEMMA SumType ==
  ASSUME NEW s \in Seq(Int)
  PROVE  Sum(s) \in Int
<1>1. Len(s) \in Nat /\ Len(s) \in 0 .. Len(s)
  OBVIOUS
<1>2. PICK f : SumsUpTo(f, s, Len(s))
  BY <1>1, SumsExist
<1>3. Sum(s) = f[Len(s)]
  BY <1>2, SumIsLast
<1> QED BY <1>1, <1>2, <1>3 DEF SumsUpTo, Sums

LEMMA SumOfNone == Sum(<<>>) = 0
<1>1. <<>> \in Seq(Int) /\ Len(<<>>) = 0 /\ 0 \in 0 .. Len(<<>>)
  OBVIOUS
<1>2. PICK f : SumsUpTo(f, <<>>, 0)
  BY <1>1, SumsExist
<1>3. Sum(<<>>) = f[0]
  BY <1>1, <1>2, SumIsLast
<1> QED BY <1>2, <1>3 DEF SumsUpTo, Sums

LEMMA SumAppend ==
  ASSUME NEW s \in Seq(Int), NEW x \in Int
  PROVE  Sum(Append(s, x)) = Sum(s) + x
<1> DEFINE t == Append(s, x)
           L == Len(s)
<1>1. L \in Nat /\ t \in Seq(Int) /\ Len(t) = L + 1 /\ t[L + 1] = x
      /\ \A i \in 1 .. L : t[i] = s[i]
  BY AppendProperties
<1> HIDE DEF t
<1>2. PICK f : SumsUpTo(f, s, L)
  BY <1>1, SumsExist
<1>3. PICK g : SumsUpTo(g, t, L + 1)
  <2>1. L + 1 \in 0 .. Len(t)
    BY <1>1
  <2> QED BY <1>1, <2>1, SumsExist
<1>4. Sum(s) = f[L] /\ Sum(t) = g[L + 1]
  BY <1>1, <1>2, <1>3, SumIsLast
<1> HIDE DEF L
<1>5. g[L] = f[L]
  <2>1. ASSUME NEW i \in 1 .. L PROVE g[i] = g[i - 1] + t[i]
    <3>1. i \in 1 .. L + 1
      BY <1>1
    <3> QED BY <1>3, <3>1 DEF SumsUpTo, Sums
  <2>2. Sums(g, t, L)
    BY <1>3, <2>1 DEF SumsUpTo, Sums
  <2>3. Agree(s, t, L)
    BY <1>1 DEF Agree
  <2> QED BY <1>1, <1>2, <2>2, <2>3, SumsAgree
<1>6. g[L + 1] = g[L + 1 - 1] + t[L + 1]
  BY <1>1, <1>3 DEF SumsUpTo, Sums
<1>7. L + 1 - 1 = L
  BY <1>1
<1> QED BY <1>1, <1>4, <1>5, <1>6, <1>7 DEF t

-----------------------------------------------------------------------------
(* Integers that wrap around.                                              *)

LEMMA ModulusType == IntMin \in Int /\ IntMax \in Nat /\ Modulus \in Nat \ {0}
                     /\ PointValue \in Nat /\ FeesPerSide \in Nat
<1>1. {WarmupPeriod, MaxPos, PointValue, FeesPerSide, IntMax, MaxTrades} \subseteq Nat
  BY StrategyAssumption
<1> QED BY <1>1 DEF IntMin, Modulus

\* A sum is its remainder but for overflows, and fits.
LEMMA WrapCongruent ==
  ASSUME NEW x \in Int
  PROVE  Wrap(x) \in Int /\ Fits(Wrap(x)) /\ Congruent(x, Wrap(x))
<1> DEFINE a == x - IntMin
           q == a \div Modulus
           r == a % Modulus
<1>1. a \in Int
  BY ModulusType
<1> HIDE DEF a
<1>2. q \in Int /\ r \in Int /\ 0 <= r /\ r < Modulus /\ a = q * Modulus + r
  BY <1>1, ModulusType
<1>3. Wrap(x) = r + IntMin
  BY DEF Wrap, Modulus, a
<1> HIDE DEF q, r
<1>4. -q \in Int /\ (-q) * Modulus = -(q * Modulus)
  BY <1>2, ModulusType
<1>5. Wrap(x) = x + (-q) * Modulus
  <2>1. q * Modulus \in Int
    BY <1>2, ModulusType
  <2>2. x = a + IntMin
    BY ModulusType DEF a
  <2> QED BY <1>1, <1>2, <1>3, <1>4, <2>1, <2>2, ModulusType
<1>6. Congruent(x, Wrap(x))
  BY <1>4, <1>5 DEF Congruent
<1>7. Wrap(x) \in Int /\ Fits(Wrap(x))
  BY <1>2, <1>3, ModulusType DEF Fits, Modulus
<1> QED BY <1>6, <1>7

\* Of all the numbers that are x but for overflows, only one fits.
LEMMA WrapUndoes ==
  ASSUME NEW x \in Int, NEW y \in Int, Congruent(x, y), Fits(x)
  PROVE  Wrap(y) = x
<1>1. Wrap(y) \in Int /\ Fits(Wrap(y)) /\ Congruent(y, Wrap(y))
  BY WrapCongruent
<1>2. PICK j \in Int : y = x + j * Modulus
  BY DEF Congruent
<1>3. PICK k \in Int : Wrap(y) = y + k * Modulus
  BY <1>1 DEF Congruent
<1> DEFINE d == j + k
<1>4. d \in Int /\ d * Modulus = j * Modulus + k * Modulus
  BY ModulusType
<1>5. j * Modulus \in Int /\ k * Modulus \in Int /\ d * Modulus \in Int
  BY <1>4, ModulusType
<1> HIDE DEF d
<1>6. Wrap(y) = x + d * Modulus
  BY <1>2, <1>3, <1>4, <1>5
<1>7. d * Modulus < Modulus /\ -Modulus < d * Modulus
  BY <1>1, <1>5, <1>6, ModulusType DEF Fits, Modulus
<1>8. d = 0
  <2>1. ~(d >= 1)
    <3> SUFFICES ASSUME d >= 1 PROVE d * Modulus >= Modulus
      BY <1>5, <1>7, ModulusType
    <3> QED BY <1>4, ModulusType
  <2>2. ~(d <= -1)
    <3> SUFFICES ASSUME d <= -1 PROVE d * Modulus <= -Modulus
      BY <1>5, <1>7, ModulusType
    <3> QED BY <1>4, ModulusType
  <2> QED BY <1>4, <2>1, <2>2
<1> QED BY <1>6, <1>8, ModulusType

LEMMA CongruentRefl ==
  ASSUME NEW x \in Int
  PROVE  Congruent(x, x)
BY ModulusType, x = x + 0 * Modulus DEF Congruent

LEMMA CongruentSum ==
  ASSUME NEW u \in Int, NEW v \in Int, NEW x \in Int, NEW y \in Int,
         Congruent(u, v), Congruent(x, y)
  PROVE  Congruent(u + x, v + y) /\ Congruent(u - x, v - y)
<1>1. PICK j \in Int : v = u + j * Modulus
  BY DEF Congruent
<1>2. PICK k \in Int : y = x + k * Modulus
  BY DEF Congruent
<1>3. /\ j * Modulus \in Int /\ k * Modulus \in Int /\ j + k \in Int /\ j - k \in Int
      /\ (j + k) * Modulus = j * Modulus + k * Modulus
      /\ (j - k) * Modulus = j * Modulus - k * Modulus
  BY ModulusType
<1>4. v + y = (u + x) + (j + k) * Modulus
  BY <1>1, <1>2, <1>3
<1>5. v - y = (u - x) + (j - k) * Modulus
  BY <1>1, <1>2, <1>3
<1> QED BY <1>3, <1>4, <1>5 DEF Congruent

LEMMA CongruentTrans ==
  ASSUME NEW x \in Int, NEW y \in Int, NEW z \in Int, Congruent(x, y), Congruent(y, z)
  PROVE  Congruent(x, z)
<1>1. PICK j \in Int : y = x + j * Modulus
  BY DEF Congruent
<1>2. PICK k \in Int : z = y + k * Modulus
  BY DEF Congruent
<1>3. /\ j * Modulus \in Int /\ k * Modulus \in Int /\ j + k \in Int
      /\ (j + k) * Modulus = j * Modulus + k * Modulus
  BY ModulusType
<1>4. z = x + (j + k) * Modulus
  BY <1>1, <1>2, <1>3
<1> QED BY <1>3, <1>4 DEF Congruent

LEMMA CongruentProduct ==
  ASSUME NEW c \in Int, NEW x \in Int, NEW y \in Int, Congruent(x, y)
  PROVE  Congruent(c * x, c * y)
<1>1. PICK j \in Int : y = x + j * Modulus
  BY DEF Congruent
<1>2. c * j \in Int /\ c * y = c * x + (c * j) * Modulus
  BY <1>1, ModulusType
<1> QED BY <1>2 DEF Congruent

LEMMA SaturateFits ==
  ASSUME NEW x \in Int
  PROVE  Saturate(x) \in Int /\ Fits(Saturate(x)) /\ (Fits(x) => Saturate(x) = x)
BY ModulusType DEF Saturate, Fits, IntMin

-----------------------------------------------------------------------------
(* Floats.                                                                 *)

LEMMA ExactType == FloatExact \in Nat /\ \A x : Exact(x) => x \in Int /\ Fits(x)
<1>1. FloatExact \in 1 .. IntMax
  BY StrategyAssumption
<1>2. FloatExact \in Nat /\ FloatExact <= IntMax
  BY <1>1, ModulusType
<1> QED BY <1>2, ModulusType DEF Exact, Fits, IntMin

LEMMA ExtraBitsType ==
  ASSUME NEW x \in Int
  PROVE  ExtraBits(x) \in 0 .. 9
<1> DEFINE bits == {k \in 0 .. 8 : Abs(x) > FloatExact * 2 ^ k}
<1>1. bits \subseteq 0 .. 8
  OBVIOUS
<1> HIDE DEF bits
<1>2. IsFiniteSet(0 .. 8) /\ Cardinality(0 .. 8) = 9
  <2>1. IsFiniteSet(0 .. 8) /\ Cardinality(0 .. 8) = IF 0 > 8 THEN 0 ELSE 8 - 0 + 1
    BY FS_Interval, 0 \in Int, 8 \in Int
  <2> QED BY <2>1
<1>3. IsFiniteSet(bits) /\ Cardinality(bits) <= 9
  <2>1. bits \in SUBSET (0 .. 8) /\ IsFiniteSet(0 .. 8)
    BY <1>1, <1>2
  <2>2. IsFiniteSet(bits) /\ Cardinality(bits) <= Cardinality(0 .. 8)
    BY <2>1, FS_Subset, Zenon
  <2> QED BY <1>2, <2>2
<1>4. Cardinality(bits) \in Nat
  BY <1>3, FS_CardinalityType
<1>5. ExtraBits(x) = Cardinality(bits)
  BY DEF ExtraBits, bits
<1> QED BY <1>3, <1>4, <1>5

\* A float that is asked to hold an integer holds one, and that one if it is small enough.
LEMMA FloatType ==
  ASSUME NEW x \in Int
  PROVE  Float[x] \in Int /\ (Exact(x) => Float[x] = x)
<1> DEFINE gap == 2 ^ ExtraBits(x)
           below == x \div gap
           rest == x % gap
           up == 2 * rest > gap \/ (2 * rest = gap /\ below % 2 = 1)
           mantissa == IF up THEN below + 1 ELSE below
<1>1. gap \in Nat \ {0}
  <2> DEFINE n == ExtraBits(x)
  <2>1. n = 0 \/ n = 1 \/ n = 2 \/ n = 3 \/ n = 4 \/ n = 5 \/ n = 6 \/ n = 7 \/ n = 8 \/ n = 9
    BY ExtraBitsType
  <2> HIDE DEF n
  <2> DEFINE Positive(k) == 2 ^ k \in Nat \ {0}
  <2>2. /\ Positive(0) /\ Positive(1) /\ Positive(2) /\ Positive(3) /\ Positive(4)
        /\ Positive(5) /\ Positive(6) /\ Positive(7) /\ Positive(8) /\ Positive(9)
    OBVIOUS
  <2> HIDE DEF Positive
  <2>3. Positive(n)
    BY <2>1, <2>2, Zenon
  <2> QED BY <2>3 DEF n, Positive
<1>2. Nearest(x) = gap * mantissa
  BY DEF Nearest
<1> HIDE DEF gap
<1>3. below \in Int
  BY <1>1
<1> HIDE DEF below
<1>4. mantissa \in Int
  BY <1>3
<1> HIDE DEF mantissa
<1>5. Nearest(x) \in Int
  BY <1>1, <1>2, <1>4
<1> QED BY <1>5 DEF Float

-----------------------------------------------------------------------------
(* The lists that the value of the trades is a sum of.                     *)

LEMMA ListsAppend ==
  ASSUME NEW list \in Seq(TradeRecord), NEW trade \in TradeRecord
  PROVE  /\ SignedSizes(Append(list, trade)) = Append(SignedSizes(list), Signed(trade))
         /\ SignedValues(Append(list, trade))
              = Append(SignedValues(list), Signed(trade) * trade.price)
         /\ Sizes(Append(list, trade)) = Append(Sizes(list), trade.size)
<1> DEFINE longer == Append(list, trade)
           L == Len(list)
<1>1. /\ L \in Nat /\ DOMAIN list = 1 .. L
      /\ longer \in Seq(TradeRecord) /\ Len(longer) = L + 1 /\ DOMAIN longer = 1 .. L + 1
      /\ longer[L + 1] = trade /\ \A i \in 1 .. L : longer[i] = list[i]
  BY AppendProperties
<1> HIDE DEF longer, L
<1>3. SignedSizes(longer) = Append(SignedSizes(list), Signed(trade))
  BY <1>1 DEF SignedSizes
<1>4. SignedValues(longer) = Append(SignedValues(list), Signed(trade) * trade.price)
  BY <1>1 DEF SignedValues
<1>5. Sizes(longer) = Append(Sizes(list), trade.size)
  BY <1>1 DEF Sizes
<1> QED BY <1>3, <1>4, <1>5 DEF longer

LEMMA TradeTypes ==
  ASSUME NEW trade \in TradeRecord
  PROVE  trade.size \in Int /\ trade.price \in Int /\ Signed(trade) \in Int
<1>1. trade.size \in 1 .. 3 /\ trade.price \in Prices
  BY DEF TradeRecord
<1>2. Prices \subseteq Nat
  BY StrategyAssumption
<1>3. trade.price \in Nat
  BY <1>1, <1>2, Zenon
<1>4. trade.size \in Int
  BY <1>1
<1> QED BY <1>3, <1>4 DEF Signed

LEMMA ListsType ==
  ASSUME NEW list \in Seq(TradeRecord)
  PROVE  SignedSizes(list) \in Seq(Int) /\ SignedValues(list) \in Seq(Int) /\ Sizes(list) \in Seq(Int)
<1>1. DOMAIN list = 1 .. Len(list) /\ Len(list) \in Nat
  OBVIOUS
<1>2. ASSUME NEW i \in DOMAIN list
      PROVE  Signed(list[i]) \in Int /\ Signed(list[i]) * list[i].price \in Int /\ list[i].size \in Int
  <2>1. list[i] \in TradeRecord
    OBVIOUS
  <2> QED BY <2>1, TradeTypes
<1> QED BY <1>1, <1>2 DEF SignedSizes, SignedValues, Sizes

-----------------------------------------------------------------------------
(* The invariant.                                                          *)

LoopTypes ==
  /\ time \in Times \cup {0}
  /\ prev_time \in Times \cup {-1}
  /\ restarted \in BOOLEAN /\ nested \in BOOLEAN
  /\ bid \in Prices /\ ask \in Prices
  /\ last_turn \in Times \cup {-1}

StrategyTypes ==
  /\ update_count_ \in 0 .. WarmupPeriod
  /\ position_ \in Int
  /\ buy_qty_ \in Nat /\ sell_qty_ \in Nat
  /\ Fits(real_total_buy_px_) /\ Fits(real_total_sell_px_)
  /\ fees_ \in Int
  /\ Fits(pnl_) /\ Fits(prev_pnl_)
  /\ trades \in Seq(TradeRecord)
  /\ log \in [pnl : Int, position : Int, trade_count : Nat]

\* The fees are those of so many trades, unless they are past what a float holds.
FeesFollow(fees, moved) == Exact(FeesPerSide * moved) => fees = FeesPerSide * moved

\* The totals are those of the trades the window was told, but for overflows.
TotalsOfTrades ==
  /\ FeesFollow(fees_, Sum(Sizes(trades)))
  /\ position_ = Sum(SignedSizes(trades))
  /\ buy_qty_ + sell_qty_ = Sum(Sizes(trades))
  /\ Congruent(-Sum(SignedValues(trades)), real_total_sell_px_ - real_total_buy_px_)

\* What the strategy compares a new profit with is what it has last logged, as a float.
LogIsCurrent == log.pnl = Float[prev_pnl_]

StrategyInv == StrategyTypes /\ PositionWithinLimit /\ TotalsOfTrades /\ LogIsCurrent

\* The inductive invariant.
IInv == LoopTypes /\ StrategyInv

LEMMA FitsInt ==
  ASSUME NEW x, Fits(x)
  PROVE  x \in Int
BY ModulusType DEF Fits

Fresh ==
  /\ update_count_ = 0 /\ position_ = 0
  /\ buy_qty_ = 0 /\ sell_qty_ = 0
  /\ real_total_buy_px_ = 0 /\ real_total_sell_px_ = 0
  /\ fees_ = 0
  /\ pnl_ = 0 /\ prev_pnl_ = 0
  /\ trades = <<>>
  /\ log = NoEntry

\* A new strategy has no trades.
LEMMA FreshStrategy == Fresh => StrategyInv
<1> SUFFICES ASSUME Fresh PROVE StrategyInv
  OBVIOUS
<1> USE DEF Fresh
<1>1. {WarmupPeriod, MaxPos, PointValue, FeesPerSide, IntMax, MaxTrades} \subseteq Nat
  BY StrategyAssumption
<1>2. Fits(0)
  BY ModulusType DEF Fits, IntMin
<1>3. StrategyTypes
  <2>1. trades \in Seq(TradeRecord)
    OBVIOUS
  <2>2. log \in [pnl : Int, position : Int, trade_count : Nat]
    BY DEF NoEntry
  <2> QED BY <1>1, <1>2, <2>1, <2>2 DEF StrategyTypes
<1>4. PositionWithinLimit
  BY <1>1 DEF PositionWithinLimit
<1>5. TotalsOfTrades
  <2>1. SignedSizes(trades) = <<>> /\ SignedValues(trades) = <<>> /\ Sizes(trades) = <<>>
    BY DEF SignedSizes, SignedValues, Sizes
  <2>2. Congruent(0, 0)
    BY CongruentRefl
  <2>3. FeesFollow(0, 0)
    BY ModulusType DEF FeesFollow
  <2> QED BY <2>1, <2>2, <2>3, SumOfNone DEF TotalsOfTrades
<1>6. LogIsCurrent
  <2>1. Float[0] = 0
    BY FloatType, ExactType DEF Exact
  <2> QED BY <2>1 DEF LogIsCurrent, NoEntry
<1> QED BY <1>3, <1>4, <1>5, <1>6 DEF StrategyInv

LEMMA InitIInv == Init => IInv
<1> SUFFICES ASSUME Init PROVE IInv
  OBVIOUS
<1>1. LoopTypes
  BY DEF Init, LoopTypes
<1>2. StrategyInv
  BY FreshStrategy DEF Init, Fresh
<1> QED BY <1>1, <1>2 DEF IInv

\* What a trade adds to the totals.
LEMMA TradeKeepsTotals ==
  ASSUME StrategyInv, Trade, bid' \in Prices, ask' \in Prices
  PROVE  /\ position_' \in Int /\ buy_qty_' \in Nat /\ sell_qty_' \in Nat
         /\ Fits(real_total_buy_px_') /\ Fits(real_total_sell_px_')
         /\ fees_' \in Int
         /\ trades' \in Seq(TradeRecord)
         /\ PositionWithinLimit'
         /\ TotalsOfTrades'
<1>1. /\ position_ \in Int /\ buy_qty_ \in Nat /\ sell_qty_ \in Nat
      /\ real_total_buy_px_ \in Int /\ real_total_sell_px_ \in Int
      /\ Fits(real_total_buy_px_) /\ Fits(real_total_sell_px_)
      /\ fees_ \in Int
      /\ trades \in Seq(TradeRecord)
      /\ position_ \in -MaxPos .. MaxPos
  BY FitsInt DEF StrategyInv, StrategyTypes, PositionWithinLimit
<1>2. bid' \in Nat /\ ask' \in Nat /\ MaxPos \in Nat
  <2>1. Prices \subseteq Nat /\ {WarmupPeriod, MaxPos, PointValue, FeesPerSide, IntMax, MaxTrades} \subseteq Nat
    BY StrategyAssumption
  <2> QED BY <2>1
<1> DEFINE held == Sum(SignedSizes(trades))
           paid == Sum(SignedValues(trades))
           moved == Sum(Sizes(trades))
<1>3. held \in Int /\ paid \in Int /\ moved \in Int
  BY <1>1, ListsType, SumType
<1>4. /\ position_ = held /\ buy_qty_ + sell_qty_ = moved
      /\ Congruent(-paid, real_total_sell_px_ - real_total_buy_px_)
      /\ FeesFollow(fees_, moved)
  BY DEF StrategyInv, TotalsOfTrades
<1>5. ASSUME NEW trade \in TradeRecord, trades' = Append(trades, trade)
      PROVE  /\ trades' \in Seq(TradeRecord)
             /\ Sum(SignedSizes(trades')) = held + Signed(trade)
             /\ Sum(SignedValues(trades')) = paid + Signed(trade) * trade.price
             /\ Sum(Sizes(trades')) = moved + trade.size
  <2>1. Signed(trade) \in Int /\ Signed(trade) * trade.price \in Int /\ trade.size \in Int
    BY TradeTypes
  <2>2. /\ SignedSizes(trades) \in Seq(Int) /\ SignedValues(trades) \in Seq(Int)
        /\ Sizes(trades) \in Seq(Int)
    BY <1>1, ListsType
  <2>3. /\ SignedSizes(trades') = Append(SignedSizes(trades), Signed(trade))
        /\ SignedValues(trades') = Append(SignedValues(trades), Signed(trade) * trade.price)
        /\ Sizes(trades') = Append(Sizes(trades), trade.size)
    BY <1>1, <1>5, ListsAppend
  <2>4. trades' \in Seq(TradeRecord)
    BY <1>1, <1>5, AppendProperties
  <2> QED BY <2>1, <2>2, <2>3, <2>4, SumAppend
<1> HIDE DEF held, paid, moved
<1>6. PICK size \in 1 .. 3 : (MayBuy(size) /\ Buy(size)) \/ (MaySell(size) /\ Sell(size))
  BY DEF Trade, TradeSizes
<1>7. size \in Nat \ {0}
  OBVIOUS
<1>8. ASSUME Charge(size) PROVE fees_' \in Int /\ FeesFollow(fees_', moved + size)
  <2> DEFINE before == FeesPerSide * moved
             more == FeesPerSide * size
  <2>1. moved \in Nat /\ FeesPerSide \in Nat
    BY <1>1, <1>4, ModulusType
  <2>2. before \in Nat /\ more \in Nat /\ FeesPerSide * (moved + size) = before + more
    BY <1>7, <2>1
  <2>3. Exact(before) => fees_ = before
    BY <1>4 DEF FeesFollow
  <2>4. fees_' = Float[fees_ + more]
    BY <1>8 DEF Charge
  <2> HIDE DEF before, more
  <2>5. fees_' \in Int
    BY <1>1, <2>2, <2>4, FloatType
  <2>6. ASSUME Exact(before + more) PROVE fees_' = before + more
    <3>1. Exact(before)
      BY <2>2, <2>6, ExactType DEF Exact
    <3> QED BY <2>2, <2>3, <2>4, <2>6, <3>1, FloatType
  <2> QED BY <2>2, <2>5, <2>6 DEF FeesFollow
<1>9. CASE MayBuy(size) /\ Buy(size)
  <2> DEFINE trade == [is_buy |-> TRUE, price |-> ask', size |-> size]
  <2>1. trade \in TradeRecord /\ Signed(trade) = size /\ trade.price = ask' /\ trade.size = size
    BY DEF TradeRecord, Signed
  <2>2. trades' = Append(trades, trade)
    BY <1>9 DEF Buy
  <2> HIDE DEF trade
  <2>3. /\ trades' \in Seq(TradeRecord)
        /\ Sum(SignedSizes(trades')) = held + size
        /\ Sum(SignedValues(trades')) = paid + size * ask'
        /\ Sum(Sizes(trades')) = moved + size
    BY <1>5, <2>1, <2>2
  <2>4. /\ position_' = position_ + size /\ buy_qty_' = buy_qty_ + size /\ sell_qty_' = sell_qty_
        /\ real_total_buy_px_' = Wrap(real_total_buy_px_ + Wrap(ask' * size))
        /\ real_total_sell_px_' = real_total_sell_px_
        /\ position_ + size <= MaxPos
    BY <1>9 DEF Buy, MayBuy
  <2> DEFINE cost == ask' * size
  <2>5. cost \in Int /\ size * ask' = cost
    BY <1>2, <1>7
  <2> HIDE DEF cost
  <2>6. Wrap(cost) \in Int /\ Congruent(cost, Wrap(cost))
    BY <2>5, WrapCongruent
  <2> DEFINE sum == real_total_buy_px_ + Wrap(cost)
  <2>7. sum \in Int /\ Congruent(real_total_buy_px_ + cost, sum)
    <3>1. Congruent(real_total_buy_px_, real_total_buy_px_)
      BY <1>1, CongruentRefl
    <3>2. sum \in Int
      BY <1>1, <2>6
    <3>3. Congruent(real_total_buy_px_ + cost, real_total_buy_px_ + Wrap(cost))
      BY <1>1, <2>5, <2>6, <3>1, CongruentSum
    <3> QED BY <3>2, <3>3
  <2>8. real_total_buy_px_' = Wrap(sum)
    BY <2>4 DEF cost
  <2> HIDE DEF sum
  <2>9. Wrap(sum) \in Int /\ Fits(Wrap(sum)) /\ Congruent(sum, Wrap(sum))
    BY <2>7, WrapCongruent
  <2>10. Congruent(real_total_buy_px_ + cost, real_total_buy_px_')
    <3>1. real_total_buy_px_ + cost \in Int
      BY <1>1, <2>5
    <3> QED BY <2>7, <2>8, <2>9, <3>1, CongruentTrans
  <2>11. Congruent(-paid - cost, real_total_sell_px_' - real_total_buy_px_')
    <3> DEFINE u == real_total_buy_px_ + cost
    <3>1. u \in Int /\ real_total_buy_px_' \in Int /\ Congruent(u, real_total_buy_px_')
      BY <1>1, <2>5, <2>8, <2>9, <2>10
    <3>2. Congruent(real_total_sell_px_, real_total_sell_px_)
      BY <1>1, CongruentRefl
    <3> HIDE DEF u
    <3>3. Congruent(real_total_sell_px_ - u, real_total_sell_px_ - real_total_buy_px_')
      BY <1>1, <3>1, <3>2, CongruentSum
    <3> DEFINE gained == real_total_sell_px_ - real_total_buy_px_
    <3>4. gained \in Int /\ -paid \in Int /\ Congruent(-paid, gained) /\ Congruent(cost, cost)
      BY <1>1, <1>3, <1>4, <2>5, CongruentRefl
    <3> HIDE DEF gained
    <3>5. Congruent(-paid - cost, gained - cost)
      BY <2>5, <3>4, CongruentSum
    <3>6. gained - cost = real_total_sell_px_ - u
      BY <1>1, <2>5 DEF gained, u
    <3>7. -paid - cost \in Int /\ real_total_sell_px_ - u \in Int
          /\ real_total_sell_px_ - real_total_buy_px_' \in Int
      BY <1>1, <1>3, <2>5, <3>1
    <3> QED BY <2>4, <3>3, <3>5, <3>6, <3>7, CongruentTrans
  <2>12. -Sum(SignedValues(trades')) = -paid - cost
    BY <1>3, <2>3, <2>5
  <2>13. position_' = Sum(SignedSizes(trades')) /\ buy_qty_' + sell_qty_' = Sum(Sizes(trades'))
    BY <1>1, <1>3, <1>4, <1>7, <2>3, <2>4
  <2>14. fees_' \in Int /\ FeesFollow(fees_', moved + size)
    BY <1>9, <1>8 DEF Buy
  <2>15. TotalsOfTrades'
    BY <2>3, <2>11, <2>12, <2>13, <2>14 DEF TotalsOfTrades
  <2>16. PositionWithinLimit' /\ position_' \in Int /\ buy_qty_' \in Nat /\ sell_qty_' \in Nat
    BY <1>1, <1>2, <1>7, <2>4 DEF PositionWithinLimit
  <2> QED BY <1>1, <2>3, <2>4, <2>8, <2>9, <2>14, <2>15, <2>16
<1>10. CASE MaySell(size) /\ Sell(size)
  <2> DEFINE trade == [is_buy |-> FALSE, price |-> bid', size |-> size]
  <2>1. trade \in TradeRecord /\ Signed(trade) = -size /\ trade.price = bid' /\ trade.size = size
    BY DEF TradeRecord, Signed
  <2>2. trades' = Append(trades, trade)
    BY <1>10 DEF Sell
  <2> HIDE DEF trade
  <2>3. /\ trades' \in Seq(TradeRecord)
        /\ Sum(SignedSizes(trades')) = held + (-size)
        /\ Sum(SignedValues(trades')) = paid + (-size) * bid'
        /\ Sum(Sizes(trades')) = moved + size
    BY <1>5, <2>1, <2>2
  <2>4. /\ position_' = position_ - size /\ sell_qty_' = sell_qty_ + size /\ buy_qty_' = buy_qty_
        /\ real_total_sell_px_' = Wrap(real_total_sell_px_ + Wrap(bid' * size))
        /\ real_total_buy_px_' = real_total_buy_px_
        /\ position_ - size >= -MaxPos
    BY <1>10 DEF Sell, MaySell
  <2> DEFINE gain == bid' * size
  <2>5. gain \in Int /\ (-size) * bid' = -gain
    BY <1>2, <1>7
  <2> HIDE DEF gain
  <2>6. Wrap(gain) \in Int /\ Congruent(gain, Wrap(gain))
    BY <2>5, WrapCongruent
  <2> DEFINE sum == real_total_sell_px_ + Wrap(gain)
  <2>7. sum \in Int /\ Congruent(real_total_sell_px_ + gain, sum)
    <3>1. Congruent(real_total_sell_px_, real_total_sell_px_)
      BY <1>1, CongruentRefl
    <3>2. sum \in Int
      BY <1>1, <2>6
    <3>3. Congruent(real_total_sell_px_ + gain, real_total_sell_px_ + Wrap(gain))
      BY <1>1, <2>5, <2>6, <3>1, CongruentSum
    <3> QED BY <3>2, <3>3
  <2>8. real_total_sell_px_' = Wrap(sum)
    BY <2>4 DEF gain
  <2> HIDE DEF sum
  <2>9. Wrap(sum) \in Int /\ Fits(Wrap(sum)) /\ Congruent(sum, Wrap(sum))
    BY <2>7, WrapCongruent
  <2>10. Congruent(real_total_sell_px_ + gain, real_total_sell_px_')
    <3>1. real_total_sell_px_ + gain \in Int
      BY <1>1, <2>5
    <3> QED BY <2>7, <2>8, <2>9, <3>1, CongruentTrans
  <2>11. Congruent(-paid + gain, real_total_sell_px_' - real_total_buy_px_')
    <3> DEFINE u == real_total_sell_px_ + gain
    <3>1. u \in Int /\ real_total_sell_px_' \in Int /\ Congruent(u, real_total_sell_px_')
      BY <1>1, <2>5, <2>8, <2>9, <2>10
    <3>2. Congruent(real_total_buy_px_, real_total_buy_px_)
      BY <1>1, CongruentRefl
    <3> HIDE DEF u
    <3>3. Congruent(u - real_total_buy_px_, real_total_sell_px_' - real_total_buy_px_)
      BY <1>1, <3>1, <3>2, CongruentSum
    <3> DEFINE gained == real_total_sell_px_ - real_total_buy_px_
    <3>4. gained \in Int /\ -paid \in Int /\ Congruent(-paid, gained) /\ Congruent(gain, gain)
      BY <1>1, <1>3, <1>4, <2>5, CongruentRefl
    <3> HIDE DEF gained
    <3>5. Congruent(-paid + gain, gained + gain)
      BY <2>5, <3>4, CongruentSum
    <3>6. gained + gain = u - real_total_buy_px_
      BY <1>1, <2>5 DEF gained, u
    <3>7. -paid + gain \in Int /\ u - real_total_buy_px_ \in Int
          /\ real_total_sell_px_' - real_total_buy_px_ \in Int
      BY <1>1, <1>3, <2>5, <3>1
    <3> QED BY <2>4, <3>3, <3>5, <3>6, <3>7, CongruentTrans
  <2>12. -Sum(SignedValues(trades')) = -paid + gain
    BY <1>3, <2>3, <2>5
  <2>13. position_' = Sum(SignedSizes(trades')) /\ buy_qty_' + sell_qty_' = Sum(Sizes(trades'))
    BY <1>1, <1>3, <1>4, <1>7, <2>3, <2>4
  <2>14. fees_' \in Int /\ FeesFollow(fees_', moved + size)
    BY <1>10, <1>8 DEF Sell
  <2>15. TotalsOfTrades'
    BY <2>3, <2>11, <2>12, <2>13, <2>14 DEF TotalsOfTrades
  <2>16. PositionWithinLimit' /\ position_' \in Int /\ buy_qty_' \in Nat /\ sell_qty_' \in Nat
    BY <1>1, <1>2, <1>7, <2>4 DEF PositionWithinLimit
  <2> QED BY <1>1, <2>3, <2>4, <2>8, <2>9, <2>14, <2>15, <2>16
<1> QED BY <1>6, <1>9, <1>10

\* The profit is that of the trades through the floats, and itself where they hold it.
LEMMA PnlOfTrades ==
  ASSUME trades' \in Seq(TradeRecord), TotalsOfTrades',
         Fits(real_total_sell_px_'), Fits(real_total_buy_px_'), fees_' \in Int,
         bid' \in Prices, ask' \in Prices
  PROVE  /\ Pnl \in Int /\ Fits(Pnl)
         /\ LET gross == PointValue * ValueOfTrades(trades', bid', ask')
                fees  == FeesOfTrades(trades')
                net   == gross - fees
            IN Exact(fees) =>
                 /\ Fits(gross) => Pnl = Saturate(Float[Float[gross] - fees])
                 /\ Exact(gross) /\ Exact(net) => Pnl = net
<1>1. bid' \in Int /\ ask' \in Int
  <2>1. Prices \subseteq Nat
    BY StrategyAssumption
  <2>2. bid' \in Nat /\ ask' \in Nat
    BY <2>1, Zenon
  <2> QED BY <2>2
<1> DEFINE held == Sum(SignedSizes(trades'))
           paid == Sum(SignedValues(trades'))
           fees == FeesPerSide * Sum(Sizes(trades'))
           real == real_total_sell_px_' - real_total_buy_px_'
           theo == (IF held > 0 THEN bid' ELSE ask') * held
           value == theo - paid
           open == real_total_sell_px_' + TheoSell - real_total_buy_px_' - TheoBuy
<1>2. trades' \in Seq(TradeRecord) /\ real_total_sell_px_' \in Int /\ real_total_buy_px_' \in Int
  BY FitsInt
<1>3. held \in Int /\ paid \in Int /\ Sum(Sizes(trades')) \in Int
  BY <1>2, ListsType, SumType
<1>4. position_' = held /\ buy_qty_' + sell_qty_' = Sum(Sizes(trades')) /\ Congruent(-paid, real)
      /\ FeesFollow(fees_', Sum(Sizes(trades')))
  BY DEF TotalsOfTrades
<1>5. /\ ValueOfTrades(trades', bid', ask') = value
      /\ FeesOfTrades(trades') = fees
  BY DEF ValueOfTrades, FeesOfTrades, SignedSizes, SignedValues, Sizes
<1> HIDE DEF held, paid
<1>6. fees \in Int /\ real \in Int /\ theo \in Int /\ value \in Int
  <2>1. fees \in Int
    BY <1>3, ModulusType
  <2>2. theo \in Int
    BY <1>1, <1>3
  <2> QED BY <1>2, <1>3, <2>1, <2>2
<1>7. Pnl = Saturate(Float[Float[Wrap(PointValue * Wrap(open))] - fees_'])
  BY DEF Pnl
<1>8. Exact(fees) => fees_' = fees
  BY <1>4 DEF FeesFollow
<1> HIDE DEF fees
<1>9. TheoSell - TheoBuy \in Int /\ TheoSell \in Int /\ TheoBuy \in Int
      /\ Congruent(theo, TheoSell - TheoBuy)
  <2>1. CASE held > 0
    <3> DEFINE gain == bid' * held
    <3>1. gain \in Int /\ theo = gain /\ TheoSell = Wrap(gain) /\ TheoBuy = 0
      BY <1>1, <1>3, <1>4, <2>1 DEF TheoSell, TheoBuy
    <3> HIDE DEF gain
    <3>2. Wrap(gain) \in Int /\ Congruent(gain, Wrap(gain))
      BY <3>1, WrapCongruent
    <3>3. Wrap(gain) - 0 = Wrap(gain)
      BY <3>2
    <3> QED BY <3>1, <3>2, <3>3
  <2>2. CASE held < 0
    <3> DEFINE cost == ask' * (-held)
    <3>1. cost \in Int /\ theo = -cost /\ TheoSell = 0 /\ TheoBuy = Wrap(cost)
      BY <1>1, <1>3, <1>4, <2>2 DEF TheoSell, TheoBuy
    <3> HIDE DEF cost
    <3>2. Wrap(cost) \in Int /\ Congruent(cost, Wrap(cost))
      BY <3>1, WrapCongruent
    <3>3. Congruent(0 - cost, 0 - Wrap(cost))
      BY <3>1, <3>2, CongruentRefl, CongruentSum, SMTT(30)
    <3>4. 0 - cost = -cost /\ 0 - Wrap(cost) \in Int
      BY <3>1, <3>2
    <3> QED BY <3>1, <3>2, <3>3, <3>4
  <2>3. CASE held = 0
    <3>1. theo = 0
      <4>1. \A price \in Int : price * 0 = 0
        OBVIOUS
      <4>2. theo = ask' * 0
        BY <2>3
      <4> QED BY <1>1, <4>1, <4>2
    <3>2. TheoSell = 0 /\ TheoBuy = 0
      BY <1>4, <2>3 DEF TheoSell, TheoBuy
    <3>3. Congruent(0, 0) /\ 0 - 0 = 0
      BY CongruentRefl
    <3> QED BY <3>1, <3>2, <3>3
  <2> QED BY <1>3, <2>1, <2>2, <2>3
<1>10. open \in Int /\ open = (TheoSell - TheoBuy) + real
  BY <1>2, <1>9
<1> HIDE DEF theo, real, open
<1>11. Congruent(value, open)
  <2>1. -paid \in Int
    BY <1>3
  <2>2. Congruent(theo + (-paid), (TheoSell - TheoBuy) + real)
    BY <1>4, <1>6, <1>9, <2>1, CongruentSum
  <2>3. theo + (-paid) = value
    BY <1>3, <1>6
  <2> QED BY <1>10, <2>2, <2>3
<1> HIDE DEF value
<1>12. Wrap(open) \in Int /\ Congruent(value, Wrap(open))
  <2>1. Wrap(open) \in Int /\ Congruent(open, Wrap(open))
    BY <1>10, WrapCongruent
  <2> QED BY <1>6, <1>10, <1>11, <2>1, CongruentTrans
<1> DEFINE gross == PointValue * value
           shown == PointValue * Wrap(open)
<1>13. gross \in Int /\ shown \in Int /\ Congruent(gross, shown)
  <2>1. PointValue \in Int
    BY ModulusType
  <2>2. gross \in Int /\ shown \in Int
    BY <1>6, <1>12, <2>1
  <2>3. Congruent(gross, shown)
    BY <1>6, <1>12, <2>1, CongruentProduct
  <2> QED BY <2>2, <2>3
<1>14. Pnl = Saturate(Float[Float[Wrap(shown)] - fees_'])
  BY <1>7
<1> HIDE DEF gross, shown
<1>15. Wrap(shown) \in Int
  BY <1>13, WrapCongruent
<1>16. Float[Float[Wrap(shown)] - fees_'] \in Int
  <2>1. Float[Wrap(shown)] \in Int
    BY <1>15, FloatType
  <2>2. Float[Wrap(shown)] - fees_' \in Int
    BY <2>1
  <2> QED BY <2>2, FloatType
<1>17. Pnl \in Int /\ Fits(Pnl)
  BY <1>14, <1>16, SaturateFits
<1>18. ASSUME Exact(fees), Fits(gross) PROVE Pnl = Saturate(Float[Float[gross] - fees])
  <2>1. Wrap(shown) = gross
    BY <1>13, <1>18, WrapUndoes
  <2> QED BY <1>14, <1>18, <1>8, <2>1
<1>19. ASSUME Exact(fees), Exact(gross), Exact(gross - fees) PROVE Pnl = gross - fees
  <2>1. Fits(gross) /\ Float[gross] = gross
    BY <1>13, <1>19, ExactType, FloatType
  <2>2. gross - fees \in Int /\ Fits(gross - fees)
    BY <1>19, ExactType
  <2>3. Float[gross - fees] = gross - fees
    BY <1>19, <2>2, FloatType
  <2> QED BY <1>18, <1>19, <2>1, <2>2, <2>3, SaturateFits
<1> QED BY <1>5, <1>17, <1>18, <1>19 DEF gross

\* A turn keeps the invariant of the strategy and leaves the profit of its trades.
LEMMA OnBookUpdateKeeps ==
  ASSUME StrategyInv, OnBookUpdate, bid' \in Prices, ask' \in Prices
  PROVE  /\ StrategyInv'
         /\ pnl_' = Pnl /\ log'.pnl = Float[Pnl]
<1>1. /\ position_' \in Int /\ buy_qty_' \in Nat /\ sell_qty_' \in Nat
      /\ Fits(real_total_buy_px_') /\ Fits(real_total_sell_px_')
      /\ fees_' \in Int
      /\ trades' \in Seq(TradeRecord)
      /\ PositionWithinLimit'
      /\ TotalsOfTrades'
  <2>1. CASE Trade
    BY <2>1, TradeKeepsTotals
  <2>2. CASE UNCHANGED <<totals, trades>>
    BY <2>2 DEF totals, StrategyInv, StrategyTypes, PositionWithinLimit, TotalsOfTrades
  <2> QED BY <2>1, <2>2 DEF OnBookUpdate
<1>2. pnl_' = Pnl /\ prev_pnl_' = Pnl
  BY DEF OnBookUpdate, LogStats
<1>3. update_count_' \in 0 .. WarmupPeriod
  <2>1. {WarmupPeriod, MaxPos, PointValue, FeesPerSide, IntMax, MaxTrades} \subseteq Nat
    BY StrategyAssumption
  <2> QED BY <2>1 DEF OnBookUpdate, StrategyInv, StrategyTypes
<1>4. log \in [pnl : Int, position : Int, trade_count : Nat] /\ log.pnl = Float[prev_pnl_]
  BY DEF StrategyInv, StrategyTypes, LogIsCurrent
<1>5. Pnl \in Int /\ Fits(Pnl) /\ Float[Pnl] \in Int
  BY <1>1, PnlOfTrades, FloatType
<1>6. log' \in [pnl : Int, position : Int, trade_count : Nat] /\ log'.pnl = Float[Pnl]
  <2>1. CASE Pnl # prev_pnl_
    <3>1. log' = [pnl |-> Float[Pnl], position |-> position_',
                  trade_count |-> buy_qty_' + sell_qty_']
      BY <1>2, <2>1 DEF OnBookUpdate, LogStats
    <3>2. buy_qty_' + sell_qty_' \in Nat
      <4>1. buy_qty_' \in Nat /\ sell_qty_' \in Nat
        BY <1>1
      <4>2. \A m, n \in Nat : m + n \in Nat
        OBVIOUS
      <4> QED BY <4>1, <4>2
    <3> QED BY <1>1, <1>5, <3>1, <3>2
  <2>2. CASE Pnl = prev_pnl_
    BY <1>2, <1>4, <2>2 DEF OnBookUpdate, LogStats
  <2> QED BY <2>1, <2>2
<1>7. StrategyTypes'
  BY <1>1, <1>2, <1>3, <1>5, <1>6 DEF StrategyTypes
<1>8. LogIsCurrent'
  BY <1>2, <1>6 DEF LogIsCurrent
<1> QED BY <1>1, <1>2, <1>6, <1>7, <1>8 DEF StrategyInv

LEMMA RestartKeepsIInv == IInv /\ Restart => IInv'
<1> SUFFICES ASSUME IInv, Restart PROVE IInv'
  OBVIOUS
<1>1. LoopTypes'
  BY DEF IInv, LoopTypes, Restart, NewCall
<1>2. Fresh'
  BY DEF Restart, Fresh
<1>3. (Fresh => StrategyInv)'
  BY FreshStrategy, PTL
<1> QED BY <1>1, <1>2, <1>3 DEF IInv

LEMMA NextIInv == IInv /\ [Next]_vars => IInv'
<1> SUFFICES ASSUME IInv, [Next]_vars PROVE IInv'
  OBVIOUS
<1>1. ASSUME strategy' = strategy PROVE StrategyInv'
  BY <1>1 DEF strategy, totals, IInv, StrategyInv, StrategyTypes, PositionWithinLimit,
              TotalsOfTrades, LogIsCurrent
<1>2. ASSUME NextMessage, last_turn' = prev_time' \/ last_turn' = last_turn PROVE LoopTypes'
  BY <1>2 DEF NextMessage, IInv, LoopTypes
<1>3. CASE Turn
  <2>1. LoopTypes' /\ bid' \in Prices /\ ask' \in Prices
    BY <1>2, <1>3 DEF Turn, NextMessage
  <2>2. StrategyInv'
    BY <1>3, <2>1, OnBookUpdateKeeps DEF Turn, IInv
  <2> QED BY <2>1, <2>2 DEF IInv
<1>4. CASE NoTurn
  <2>1. strategy' = strategy /\ last_turn' = last_turn
    BY <1>4 DEF NoTurn
  <2> QED BY <1>1, <1>2, <1>4, <2>1 DEF NoTurn, IInv
<1>5. CASE EndOuterTurn
  <2>1. LoopTypes' /\ bid' \in Prices /\ ask' \in Prices
    BY <1>5 DEF EndOuterTurn, NewCall, IInv, LoopTypes
  <2>2. StrategyInv'
    BY <1>5, <2>1, OnBookUpdateKeeps DEF EndOuterTurn, IInv
  <2> QED BY <2>1, <2>2 DEF IInv
<1>6. CASE Resume
  <2>1. strategy' = strategy /\ LoopTypes'
    BY <1>6 DEF Resume, NewCall, IInv, LoopTypes
  <2> QED BY <1>1, <2>1 DEF IInv
<1>7. CASE Restart
  BY <1>7, RestartKeepsIInv
<1>8. CASE UNCHANGED vars
  <2>1. strategy' = strategy /\ LoopTypes'
    BY <1>8 DEF vars, loop, IInv, LoopTypes
  <2> QED BY <1>1, <2>1 DEF IInv
<1> QED BY <1>3, <1>4, <1>5, <1>6, <1>7, <1>8 DEF Next

LEMMA Invariance == Spec => []IInv
BY InitIInv, NextIInv, PTL DEF Spec

-----------------------------------------------------------------------------
(* The theorems.                                                           *)

\* Every variable keeps its type: the totals and the profit stay within an int32_t
\* whatever they overflow by.
THEOREM TypeCorrect == Spec => []TypeOK
<1>1. IInv => TypeOK
  BY DEF IInv, LoopTypes, StrategyInv, StrategyTypes, TradeRecord, TypeOK
<1> QED BY <1>1, Invariance, PTL

\* on_book_update never takes the position past max_pos_, on either side.
THEOREM LimitCorrect == Spec => []PositionWithinLimit
<1>1. IInv => PositionWithinLimit
  BY DEF IInv, StrategyInv
<1> QED BY <1>1, Invariance, PTL

\* However often the totals overflow, the profit after a turn is that of the trades the
\* window was told, through the floats; and where they hold it, with its gross and its
\* fees, it is that profit itself in the window and in the log.
THEOREM PnlCorrect == Spec => PnlFollowsTrades
<1> DEFINE Follows ==
             LET gross == PointValue * ValueOfTrades(trades', bid', ask')
                 fees  == FeesOfTrades(trades')
                 net   == gross - fees
             IN Exact(fees) =>
                  /\ Fits(gross) => pnl_' = Saturate(Float[Float[gross] - fees])
                  /\ Exact(gross) /\ Exact(net) => pnl_' = net /\ log'.pnl = net
<1>1. IInv /\ [Next]_vars => [Turn \/ EndOuterTurn => Follows]_vars
  <2> SUFFICES ASSUME IInv, Turn \/ EndOuterTurn PROVE Follows
    OBVIOUS
  <2>1. StrategyInv /\ OnBookUpdate /\ bid' \in Prices /\ ask' \in Prices
    BY DEF IInv, Turn, EndOuterTurn, NextMessage
  <2>2. StrategyInv' /\ pnl_' = Pnl /\ log'.pnl = Float[Pnl]
    BY <2>1, OnBookUpdateKeeps
  <2>3. /\ trades' \in Seq(TradeRecord) /\ TotalsOfTrades'
        /\ Fits(real_total_sell_px_') /\ Fits(real_total_buy_px_') /\ fees_' \in Int
    BY <2>2 DEF StrategyInv, StrategyTypes
  <2>4. \A x : Exact(x) => Float[x] = x
    BY ExactType, FloatType
  <2> QED BY <2>1, <2>2, <2>3, <2>4, PnlOfTrades
<1> QED BY <1>1, Invariance, PTL DEF Spec, PnlFollowsTrades
=============================================================================
