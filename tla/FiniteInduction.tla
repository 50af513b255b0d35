-------------------------- MODULE FiniteInduction --------------------------
(***************************************************************************)
(* What the proofs of several modules need: a set of natural numbers has a *)
(* least one, the sum over a finite set is the sum over what is left of    *)
(* the set without any of its elements, what RemoveAt leaves, what         *)
(* FlattenSeq makes of sequences that grow at one end and shrink at the    *)
(* other, and where in it each of them is.                                 *)
(* Induction is over a set instead of a predicate: what has to hold of     *)
(* every number fails for the members of a set, which would have a least.  *)
(***************************************************************************)
EXTENDS Integers, FiniteSets, Functions, SequencesExt, SequenceTheorems, FiniteSetTheorems,
        WellFoundedInduction, TLAPS

\* A set of natural numbers that is not empty has a least element.
THEOREM LeastNumberExists ==
  ASSUME NEW T, T \subseteq Nat, T # {}
  PROVE  \E n \in T : \A m \in T : n <= m
<1> DEFINE R == {ss \in Nat \X Nat : ss[1] < ss[2]}
<1>1. IsWellFoundedOn(R, Nat)
  BY NatLessThanWellFounded DEF OpToRel
<1>2. PICK n \in T : \A m \in T : ~(<<m, n>> \in R)
  BY <1>1, WFMin
<1>3. ASSUME NEW m \in T PROVE n <= m
  <2>1. n \in Nat /\ m \in Nat
    OBVIOUS
  <2>2. ~(m < n)
    BY <1>2, <2>1
  <2> QED BY <2>1, <2>2
<1> QED BY <1>3

-----------------------------------------------------------------------------
(* Sums over finite sets.                                                  *)

\* The element of s that a sum starts with.
Chosen(s) == CHOOSE x \in s : TRUE

\* One step of the recursion that defines a sum, where g are the sums that are known.
NextSum(f, g, s) == IF s = {} THEN 0 ELSE f[Chosen(s)] + g[s \ {Chosen(s)}]

\* SumFunctionOnSet satisfies the equation that defines it.
SumEquation(f, s) ==
  SumFunctionOnSet(f, s)
    = IF s = {} THEN 0 ELSE f[Chosen(s)] + SumFunctionOnSet(f, s \ {Chosen(s)})

\* A sum starts with an element of the set.
LEMMA ChosenInSet ==
  ASSUME NEW s, s # {}
  PROVE  Chosen(s) \in s
BY DEF Chosen

\* What SumFunctionOnSet means.
LEMMA SumIsRecursive ==
  ASSUME NEW f, NEW s
  PROVE  SumFunctionOnSet(f, s) = (CHOOSE g : g = [t \in SUBSET s |-> NextSum(f, g, t)])[s]
BY DEF SumFunctionOnSet, FoldFunctionOnSet, MapThenFoldSet, NextSum, Chosen

\* Induction over the number of elements: if not all finite sets of sets D are good, one is
\* not whose smaller members of D are.
LEMMA SmallestBad ==
  ASSUME NEW D, \A s \in D : IsFiniteSet(s), NEW Bad, Bad \subseteq D, Bad # {}
  PROVE  \E s \in Bad : \A t \in D : Cardinality(t) < Cardinality(s) => t \notin Bad
<1> DEFINE T == {Cardinality(s) : s \in Bad}
<1>1. T \subseteq Nat /\ T # {}
  BY FS_CardinalityType
<1>2. PICK n \in T : \A m \in T : n <= m
  <2> HIDE DEF T
  <2> QED BY <1>1, LeastNumberExists
<1>3. PICK s \in Bad : Cardinality(s) = n
  OBVIOUS
<1>4. ASSUME NEW t \in D, Cardinality(t) < Cardinality(s) PROVE t \notin Bad
  <2> SUFFICES ASSUME t \in Bad PROVE FALSE
    OBVIOUS
  <2>1. Cardinality(t) \in T
    OBVIOUS
  <2>2. n <= Cardinality(t) /\ Cardinality(t) \in Nat /\ n \in Nat
    <3> HIDE DEF T
    <3> QED BY <1>1, <1>2, <2>1
  <2> QED BY <1>3, <1>4, <2>2
<1> QED BY <1>4

\* What is left after the first step is smaller.
LEMMA SmallerWithout ==
  ASSUME NEW s, IsFiniteSet(s), s # {}
  PROVE  /\ Chosen(s) \in s
         /\ IsFiniteSet(s \ {Chosen(s)})
         /\ Cardinality(s \ {Chosen(s)}) < Cardinality(s)
<1>1. Chosen(s) \in s
  BY ChosenInSet
<1>2. Cardinality(s) \in Nat
  BY FS_CardinalityType
<1> QED BY <1>1, <1>2, FS_RemoveElement

\* Every finite sum satisfies the equation.
LEMMA SumUnfolds ==
  ASSUME NEW f, NEW S, IsFiniteSet(S)
  PROVE  SumEquation(f, S)
<1> DEFINE D == SUBSET S
           Bad == {s \in D : ~SumEquation(f, s)}
<1>1. \A s \in D : IsFiniteSet(s)
  BY FS_Subset
<1>2. Bad = {}
  <2> SUFFICES ASSUME Bad # {} PROVE FALSE
    OBVIOUS
  <2>1. PICK s \in Bad : \A t \in D : Cardinality(t) < Cardinality(s) => t \notin Bad
    <3>1. Bad \subseteq D
      OBVIOUS
    <3> HIDE DEF Bad, D
    <3> QED BY <1>1, <3>1, SmallestBad
  <2>2. s \in D /\ ~SumEquation(f, s) /\ IsFiniteSet(s)
    BY <1>1
  <2>3. ASSUME NEW t \in SUBSET s, t # {} PROVE SumEquation(f, t \ {Chosen(t)})
    <3>1. IsFiniteSet(t) /\ Cardinality(t) <= Cardinality(s)
      BY <2>2, FS_Subset
    <3>2. Chosen(t) \in t /\ Cardinality(t \ {Chosen(t)}) < Cardinality(t)
          /\ IsFiniteSet(t \ {Chosen(t)})
      BY <2>3, <3>1, SmallerWithout
    <3>3. Cardinality(t \ {Chosen(t)}) < Cardinality(s)
      BY <2>2, <3>1, <3>2, FS_CardinalityType
    <3>4. t \ {Chosen(t)} \in D
      BY <2>2
    <3> QED BY <2>1, <3>3, <3>4
  <2> DEFINE g == [t \in SUBSET s |-> NextSum(f, [u \in SUBSET s |-> SumFunctionOnSet(f, u)], t)]
  <2>4. ASSUME NEW t \in SUBSET s, t # {}
        PROVE  g[t \ {Chosen(t)}] = SumFunctionOnSet(f, t \ {Chosen(t)})
    <3> DEFINE u == t \ {Chosen(t)}
    <3>1. u \in SUBSET s /\ SumEquation(f, u)
      BY <2>3, <2>4
    <3> HIDE DEF u
    <3>2. u \ {Chosen(u)} \in SUBSET s
      BY <3>1
    <3>3. g[u] = IF u = {} THEN 0 ELSE f[Chosen(u)] + SumFunctionOnSet(f, u \ {Chosen(u)})
      BY <3>1, <3>2 DEF NextSum
    <3> QED BY <3>1, <3>3 DEF SumEquation, u
  <2>5. g = [t \in SUBSET s |-> NextSum(f, g, t)]
    <3>1. ASSUME NEW t \in SUBSET s PROVE g[t] = NextSum(f, g, t)
      <4>1. CASE t = {}
        BY <4>1 DEF NextSum
      <4>2. CASE t # {}
        <5>1. t \ {Chosen(t)} \in SUBSET s
          OBVIOUS
        <5>2. g[t] = f[Chosen(t)] + SumFunctionOnSet(f, t \ {Chosen(t)})
          BY <4>2, <5>1 DEF NextSum
        <5>3. NextSum(f, g, t) = f[Chosen(t)] + g[t \ {Chosen(t)}]
          BY <4>2 DEF NextSum
        <5> QED BY <2>4, <4>2, <5>2, <5>3
      <4> QED BY <4>1, <4>2
    <3> QED BY <3>1
  <2> DEFINE h == CHOOSE h : h = [t \in SUBSET s |-> NextSum(f, h, t)]
  <2>6. h = [t \in SUBSET s |-> NextSum(f, h, t)]
    <3> HIDE DEF g
    <3> QED BY <2>5
  <2>7. SumFunctionOnSet(f, s) = h[s]
    BY SumIsRecursive
  <2> HIDE DEF g, h
  <2> DEFINE Differ == {t \in SUBSET s : h[t] # g[t]}
  <2>8. Differ = {}
    <3> SUFFICES ASSUME Differ # {} PROVE FALSE
      OBVIOUS
    <3>1. PICK t \in Differ : \A u \in SUBSET s : Cardinality(u) < Cardinality(t) => u \notin Differ
      <4>1. Differ \subseteq SUBSET s /\ \A u \in SUBSET s : IsFiniteSet(u)
        BY <2>2, FS_Subset
      <4> HIDE DEF Differ
      <4> QED BY <4>1, SmallestBad
    <3>2. t \in SUBSET s /\ h[t] # g[t] /\ IsFiniteSet(t)
      BY <2>2, FS_Subset
    <3>3. CASE t = {}
      BY <2>5, <2>6, <3>2, <3>3 DEF NextSum
    <3>4. CASE t # {}
      <4>1. Cardinality(t \ {Chosen(t)}) < Cardinality(t) /\ t \ {Chosen(t)} \in SUBSET s
        BY <3>2, <3>4, SmallerWithout
      <4>2. h[t \ {Chosen(t)}] = g[t \ {Chosen(t)}]
        BY <3>1, <4>1
      <4> QED BY <2>5, <2>6, <3>2, <3>4, <4>2 DEF NextSum
    <3> QED BY <3>3, <3>4
  <2>9. SumFunctionOnSet(f, s) = g[s]
    BY <2>7, <2>8
  <2>10. SumEquation(f, s)
    <3>1. CASE s = {}
      BY <2>5, <2>9, <3>1 DEF NextSum, SumEquation
    <3>2. CASE s # {}
      <4>1. g[s \ {Chosen(s)}] = SumFunctionOnSet(f, s \ {Chosen(s)})
        BY <2>4, <3>2
      <4> QED BY <2>5, <2>9, <3>2, <4>1 DEF NextSum, SumEquation
    <3> QED BY <3>1, <3>2
  <2> QED BY <2>2, <2>10
<1>3. S \in D /\ S \notin Bad
  <2> HIDE DEF Bad
  <2> QED BY <1>2
<1> QED BY <1>3

\* The sum over no elements.
THEOREM FiniteSumEmpty ==
  ASSUME NEW f
  PROVE  SumFunctionOnSet(f, {}) = 0
BY SumUnfolds, FS_EmptySet DEF SumEquation

\* A finite sum of integers is one.
THEOREM FiniteSumType ==
  ASSUME NEW f, NEW S, IsFiniteSet(S), \A x \in S : f[x] \in Int
  PROVE  SumFunctionOnSet(f, S) \in Int
<1> DEFINE Bad == {s \in SUBSET S : SumFunctionOnSet(f, s) \notin Int}
<1>1. Bad = {}
  <2> SUFFICES ASSUME Bad # {} PROVE FALSE
    OBVIOUS
  <2>1. PICK s \in Bad : \A t \in SUBSET S : Cardinality(t) < Cardinality(s) => t \notin Bad
    <3>1. Bad \subseteq SUBSET S /\ \A s \in SUBSET S : IsFiniteSet(s)
      BY FS_Subset
    <3> HIDE DEF Bad
    <3> QED BY <3>1, SmallestBad
  <2>2. s \in SUBSET S /\ IsFiniteSet(s) /\ SumFunctionOnSet(f, s) \notin Int
    BY FS_Subset
  <2>3. s # {}
    BY <2>2, FiniteSumEmpty
  <2>4. Chosen(s) \in S /\ s \ {Chosen(s)} \in SUBSET S
        /\ Cardinality(s \ {Chosen(s)}) < Cardinality(s)
    BY <2>2, <2>3, SmallerWithout
  <2>5. SumFunctionOnSet(f, s \ {Chosen(s)}) \in Int
    BY <2>1, <2>4
  <2>6. SumFunctionOnSet(f, s) = f[Chosen(s)] + SumFunctionOnSet(f, s \ {Chosen(s)})
    BY <2>2, <2>3, SumUnfolds DEF SumEquation
  <2> QED BY <2>2, <2>4, <2>5, <2>6
<1> QED BY <1>1

\* Any element can be taken out of a sum.
THEOREM FiniteSumWithout ==
  ASSUME NEW f, NEW S, IsFiniteSet(S), \A x \in S : f[x] \in Int, NEW x \in S
  PROVE  SumFunctionOnSet(f, S) = f[x] + SumFunctionOnSet(f, S \ {x})
<1> DEFINE Good(s) == \A y \in s : SumFunctionOnSet(f, s) = f[y] + SumFunctionOnSet(f, s \ {y})
           Bad == {s \in SUBSET S : ~Good(s)}
<1>1. Bad = {}
  <2> SUFFICES ASSUME Bad # {} PROVE FALSE
    OBVIOUS
  <2>1. PICK s \in Bad : \A t \in SUBSET S : Cardinality(t) < Cardinality(s) => t \notin Bad
    <3>1. Bad \subseteq SUBSET S /\ \A s \in SUBSET S : IsFiniteSet(s)
      BY FS_Subset
    <3> HIDE DEF Bad
    <3> QED BY <3>1, SmallestBad
  <2>2. s \in SUBSET S /\ IsFiniteSet(s) /\ ~Good(s)
    BY FS_Subset
  <2>3. PICK y \in s : SumFunctionOnSet(f, s) # f[y] + SumFunctionOnSet(f, s \ {y})
    BY <2>2
  <2> DEFINE c == Chosen(s)
  <2>4. c \in s
    BY <2>3, ChosenInSet
  <2>5. SumFunctionOnSet(f, s) = f[c] + SumFunctionOnSet(f, s \ {c})
    BY <2>2, <2>3, SumUnfolds DEF SumEquation
  <2> HIDE DEF c
  <2>6. y # c
    BY <2>3, <2>5
  <2>7. ASSUME NEW z \in s PROVE Good(s \ {z})
    <3>1. Cardinality(s \ {z}) < Cardinality(s)
      <4>1. Cardinality(s) \in Nat
        BY <2>2, FS_CardinalityType
      <4>2. Cardinality(s \ {z}) = Cardinality(s) - 1
        BY <2>2, FS_RemoveElement
      <4> QED BY <4>1, <4>2
    <3> QED BY <2>1, <2>2, <3>1
  <2> DEFINE rest == s \ {y, c}
  <2>8. (s \ {c}) \ {y} = rest /\ (s \ {y}) \ {c} = rest
    OBVIOUS
  <2>9. SumFunctionOnSet(f, s \ {c}) = f[y] + SumFunctionOnSet(f, rest)
    <3>1. y \in s \ {c}
      BY <2>6
    <3> HIDE DEF rest
    <3> QED BY <2>4, <2>7, <2>8, <3>1, SMTT(30)
  <2>10. SumFunctionOnSet(f, s \ {y}) = f[c] + SumFunctionOnSet(f, rest)
    <3>1. c \in s \ {y}
      BY <2>4, <2>6
    <3> HIDE DEF rest
    <3> QED BY <2>7, <2>8, <3>1, SMTT(30)
  <2>11. SumFunctionOnSet(f, rest) \in Int /\ f[y] \in Int /\ f[c] \in Int
    <3>1. IsFiniteSet(rest) /\ rest \subseteq S
      BY <2>2, FS_Subset
    <3> HIDE DEF rest
    <3> QED BY <2>2, <2>4, <3>1, FiniteSumType
  <2> HIDE DEF rest
  <2> QED BY <2>3, <2>5, <2>9, <2>10, <2>11
<1>2. S \in SUBSET S /\ S \notin Bad
  <2> HIDE DEF Bad
  <2> QED BY <1>1
<1> QED BY <1>2

\* An element that is not in the set adds its value.
THEOREM FiniteSumWith ==
  ASSUME NEW f, NEW S, IsFiniteSet(S), NEW x, x \notin S, f[x] \in Int, \A y \in S : f[y] \in Int
  PROVE  SumFunctionOnSet(f, S \cup {x}) = f[x] + SumFunctionOnSet(f, S)
<1>1. IsFiniteSet(S \cup {x}) /\ (S \cup {x}) \ {x} = S
  BY FS_AddElement
<1>2. \A y \in S \cup {x} : f[y] \in Int
  OBVIOUS
<1> DEFINE T == S \cup {x}
<1>3. x \in T
  OBVIOUS
<1> HIDE DEF T
<1>4. SumFunctionOnSet(f, T) = f[x] + SumFunctionOnSet(f, T \ {x})
  BY <1>1, <1>2, <1>3, FiniteSumWithout DEF T
<1> QED BY <1>1, <1>4 DEF T

\* Values outside the set do not matter.
THEOREM FiniteSumOfSame ==
  ASSUME NEW f, NEW g, NEW S, IsFiniteSet(S), \A x \in S : f[x] = g[x]
  PROVE  SumFunctionOnSet(f, S) = SumFunctionOnSet(g, S)
<1> DEFINE Bad == {s \in SUBSET S : SumFunctionOnSet(f, s) # SumFunctionOnSet(g, s)}
<1>1. Bad = {}
  <2> SUFFICES ASSUME Bad # {} PROVE FALSE
    OBVIOUS
  <2>1. PICK s \in Bad : \A t \in SUBSET S : Cardinality(t) < Cardinality(s) => t \notin Bad
    <3>1. Bad \subseteq SUBSET S /\ \A s \in SUBSET S : IsFiniteSet(s)
      BY FS_Subset
    <3> HIDE DEF Bad
    <3> QED BY <3>1, SmallestBad
  <2>2. s \in SUBSET S /\ IsFiniteSet(s) /\ SumFunctionOnSet(f, s) # SumFunctionOnSet(g, s)
    BY FS_Subset
  <2>3. s # {}
    BY <2>2, FiniteSumEmpty
  <2>4. Chosen(s) \in S /\ s \ {Chosen(s)} \in SUBSET S
        /\ Cardinality(s \ {Chosen(s)}) < Cardinality(s)
    BY <2>2, <2>3, SmallerWithout
  <2>5. SumFunctionOnSet(f, s \ {Chosen(s)}) = SumFunctionOnSet(g, s \ {Chosen(s)})
    BY <2>1, <2>4
  <2>6. SumFunctionOnSet(f, s) = f[Chosen(s)] + SumFunctionOnSet(f, s \ {Chosen(s)})
    BY <2>2, <2>3, SumUnfolds DEF SumEquation
  <2>7. SumFunctionOnSet(g, s) = g[Chosen(s)] + SumFunctionOnSet(g, s \ {Chosen(s)})
    BY <2>2, <2>3, SumUnfolds DEF SumEquation
  <2> QED BY <2>2, <2>4, <2>5, <2>6, <2>7
<1> QED BY <1>1

\* A sum of smaller values is not larger.
THEOREM FiniteSumMonotone ==
  ASSUME NEW f, NEW g, NEW S, IsFiniteSet(S),
         \A x \in S : f[x] \in Int /\ g[x] \in Int /\ f[x] <= g[x]
  PROVE  SumFunctionOnSet(f, S) <= SumFunctionOnSet(g, S)
<1> DEFINE Bad == {s \in SUBSET S : ~(SumFunctionOnSet(f, s) <= SumFunctionOnSet(g, s))}
<1>1. Bad = {}
  <2> SUFFICES ASSUME Bad # {} PROVE FALSE
    OBVIOUS
  <2>1. PICK s \in Bad : \A t \in SUBSET S : Cardinality(t) < Cardinality(s) => t \notin Bad
    <3>1. Bad \subseteq SUBSET S /\ \A s \in SUBSET S : IsFiniteSet(s)
      BY FS_Subset
    <3> HIDE DEF Bad
    <3> QED BY <3>1, SmallestBad
  <2>2. /\ s \in SUBSET S /\ IsFiniteSet(s)
        /\ ~(SumFunctionOnSet(f, s) <= SumFunctionOnSet(g, s))
    BY FS_Subset
  <2>3. s # {}
    BY <2>2, FiniteSumEmpty
  <2> DEFINE rest == s \ {Chosen(s)}
  <2>4. Chosen(s) \in S /\ rest \in SUBSET S /\ Cardinality(rest) < Cardinality(s)
        /\ IsFiniteSet(rest)
    BY <2>2, <2>3, SmallerWithout
  <2>5. SumFunctionOnSet(f, rest) <= SumFunctionOnSet(g, rest)
    BY <2>1, <2>4
  <2>6. SumFunctionOnSet(f, s) = f[Chosen(s)] + SumFunctionOnSet(f, rest)
    BY <2>2, <2>3, SumUnfolds DEF SumEquation
  <2>7. SumFunctionOnSet(g, s) = g[Chosen(s)] + SumFunctionOnSet(g, rest)
    BY <2>2, <2>3, SumUnfolds DEF SumEquation
  <2> HIDE DEF rest
  <2>8. SumFunctionOnSet(f, rest) \in Int /\ SumFunctionOnSet(g, rest) \in Int
    BY <2>4, FiniteSumType
  <2>9. f[Chosen(s)] \in Int /\ g[Chosen(s)] \in Int /\ f[Chosen(s)] <= g[Chosen(s)]
    BY <2>4
  <2> QED BY <2>2, <2>5, <2>6, <2>7, <2>8, <2>9
<1>2. S \in SUBSET S /\ S \notin Bad
  <2> HIDE DEF Bad
  <2> QED BY <1>1
<1> QED BY <1>2

\* A finite sum of natural numbers is one.
THEOREM FiniteSumNat ==
  ASSUME NEW f, NEW S, IsFiniteSet(S), \A x \in S : f[x] \in Nat
  PROVE  SumFunctionOnSet(f, S) \in Nat
<1> DEFINE Bad == {s \in SUBSET S : SumFunctionOnSet(f, s) \notin Nat}
<1>1. Bad = {}
  <2> SUFFICES ASSUME Bad # {} PROVE FALSE
    OBVIOUS
  <2>1. PICK s \in Bad : \A t \in SUBSET S : Cardinality(t) < Cardinality(s) => t \notin Bad
    <3>1. Bad \subseteq SUBSET S /\ \A s \in SUBSET S : IsFiniteSet(s)
      BY FS_Subset
    <3> HIDE DEF Bad
    <3> QED BY <3>1, SmallestBad
  <2>2. s \in SUBSET S /\ IsFiniteSet(s) /\ SumFunctionOnSet(f, s) \notin Nat
    BY FS_Subset
  <2>3. s # {}
    BY <2>2, FiniteSumEmpty
  <2>4. Chosen(s) \in S /\ s \ {Chosen(s)} \in SUBSET S
        /\ Cardinality(s \ {Chosen(s)}) < Cardinality(s)
    BY <2>2, <2>3, SmallerWithout
  <2>5. SumFunctionOnSet(f, s \ {Chosen(s)}) \in Nat
    BY <2>1, <2>4
  <2>6. SumFunctionOnSet(f, s) = f[Chosen(s)] + SumFunctionOnSet(f, s \ {Chosen(s)})
    BY <2>2, <2>3, SumUnfolds DEF SumEquation
  <2> QED BY <2>2, <2>4, <2>5, <2>6
<1> QED BY <1>1

\* A part of a sum of natural numbers is not larger than all of it.
THEOREM FiniteSumPart ==
  ASSUME NEW f, NEW S, NEW T, IsFiniteSet(T), S \subseteq T, \A x \in T : f[x] \in Nat
  PROVE  SumFunctionOnSet(f, S) <= SumFunctionOnSet(f, T)
<1> DEFINE Rest == T \ S
           Bad == {s \in SUBSET Rest : ~(SumFunctionOnSet(f, S) <= SumFunctionOnSet(f, S \cup s))}
<1>1. IsFiniteSet(S) /\ IsFiniteSet(Rest) /\ SumFunctionOnSet(f, S) \in Nat
  BY FS_Subset, FiniteSumNat
<1>2. Bad = {}
  <2> SUFFICES ASSUME Bad # {} PROVE FALSE
    OBVIOUS
  <2>1. PICK s \in Bad : \A t \in SUBSET Rest : Cardinality(t) < Cardinality(s) => t \notin Bad
    <3>1. Bad \subseteq SUBSET Rest /\ \A s \in SUBSET Rest : IsFiniteSet(s)
      BY <1>1, FS_Subset
    <3> HIDE DEF Bad, Rest
    <3> QED BY <1>1, <3>1, SmallestBad
  <2>2. /\ s \in SUBSET Rest /\ IsFiniteSet(s)
        /\ ~(SumFunctionOnSet(f, S) <= SumFunctionOnSet(f, S \cup s))
    BY <1>1, FS_Subset
  <2>3. s # {}
    <3>1. S \cup {} = S
      OBVIOUS
    <3> QED BY <1>1, <2>2, <3>1
  <2> DEFINE rest == s \ {Chosen(s)}
             part == S \cup rest
  <2>4. Chosen(s) \in s /\ rest \in SUBSET Rest /\ Cardinality(rest) < Cardinality(s)
    <3> HIDE DEF Rest
    <3> QED BY <1>1, <2>2, <2>3, SmallerWithout
  <2>5. SumFunctionOnSet(f, S) <= SumFunctionOnSet(f, part)
    BY <2>1, <2>4
  <2>6. S \cup s = part \cup {Chosen(s)} /\ Chosen(s) \notin part /\ part \in SUBSET T
        /\ Chosen(s) \in T
    BY <2>2, <2>4
  <2> HIDE DEF part
  <2>7. IsFiniteSet(part) /\ SumFunctionOnSet(f, part) \in Nat
    BY <2>6, FS_Subset, FiniteSumNat
  <2>8. SumFunctionOnSet(f, S \cup s) = f[Chosen(s)] + SumFunctionOnSet(f, part)
    BY <2>6, <2>7, FiniteSumWith
  <2> QED BY <1>1, <2>2, <2>5, <2>6, <2>7, <2>8
<1>3. SumFunctionOnSet(f, S) <= SumFunctionOnSet(f, S \cup Rest)
  <2>1. Rest \in SUBSET Rest /\ Rest \notin Bad
    <3> HIDE DEF Bad
    <3> QED BY <1>2
  <2> QED BY <2>1
<1>4. S \cup Rest = T
  OBVIOUS
<1> QED BY <1>3, <1>4

-----------------------------------------------------------------------------
(* Sequences.                                                              *)

\* The list without its i-th element.
LEMMA RemoveAtElements ==
  ASSUME NEW S, NEW list \in Seq(S), NEW i \in 1 .. Len(list)
  PROVE  LET left == RemoveAt(list, i)
         IN /\ left \in Seq(S)
            /\ Len(left) = Len(list) - 1
            /\ \A j \in 1 .. Len(list) - 1 : left[j] = IF j < i THEN list[j] ELSE list[j + 1]
<1> DEFINE n == Len(list)
           head == SubSeq(list, 1, i - 1)
           tail == SubSeq(list, i + 1, n)
           left == head \o tail
<1>1. n \in Nat /\ DOMAIN list = 1 .. n /\ \A j \in 1 .. n : list[j] \in S
  OBVIOUS
<1>2. i \in 1 .. n
  OBVIOUS
<1>3. RemoveAt(list, i) = left
  BY DEF RemoveAt
<1> HIDE DEF n
<1>4. /\ head \in Seq(S) /\ Len(head) = i - 1
      /\ \A j \in 1 .. i - 1 : head[j] = list[j]
  BY <1>1, <1>2, SubSeqProperties DEF n
<1>5. /\ tail \in Seq(S) /\ Len(tail) = n - i
      /\ \A j \in 1 .. n - i : tail[j] = list[i + j]
  <2>1. i + 1 \in Int /\ n \in Int /\ \A j \in i + 1 .. n : list[j] \in S
    BY <1>1, <1>2
  <2>2. /\ SubSeq(list, i + 1, n) \in Seq(S)
        /\ Len(SubSeq(list, i + 1, n)) = IF i + 1 <= n THEN n - (i + 1) + 1 ELSE 0
        /\ \A j \in 1 .. n - (i + 1) + 1 : SubSeq(list, i + 1, n)[j] = list[(i + 1) + j - 1]
    BY <2>1, SubSeqProperties
  <2>3. (IF i + 1 <= n THEN n - (i + 1) + 1 ELSE 0) = n - i /\ n - (i + 1) + 1 = n - i
    BY <1>1, <1>2
  <2>4. \A j \in 1 .. n - i : (i + 1) + j - 1 = i + j
    BY <1>1, <1>2
  <2> QED BY <2>2, <2>3, <2>4
<1> HIDE DEF head, tail
<1>6. left \in Seq(S) /\ Len(left) = n - 1
  <2>1. left \in Seq(S) /\ Len(left) = Len(head) + Len(tail)
    BY <1>4, <1>5, ConcatProperties
  <2> QED BY <1>1, <1>2, <1>4, <1>5, <2>1
<1>7. ASSUME NEW j \in 1 .. n - 1
      PROVE  left[j] = IF j < i THEN list[j] ELSE list[j + 1]
  <2>1. CASE j < i
    <3>1. j \in 1 .. Len(head)
      BY <1>1, <1>2, <1>4, <2>1
    <3> QED BY <1>4, <1>5, <2>1, <3>1, ConcatProperties
  <2>2. CASE ~(j < i)
    <3>1. j - (i - 1) \in 1 .. n - i /\ j \in Len(head) + 1 .. Len(head) + Len(tail)
          /\ i + (j - (i - 1)) = j + 1
      BY <1>1, <1>2, <1>4, <1>5, <2>2
    <3>2. left[j] = tail[j - Len(head)]
      BY <1>4, <1>5, <3>1, ConcatProperties
    <3> QED BY <1>4, <1>5, <2>2, <3>1, <3>2
  <2> QED BY <2>1, <2>2
<1> QED BY <1>3, <1>6, <1>7 DEF n

\* The elements of a sequence are of its kind.
LEMMA ElementsOfSeq ==
  ASSUME NEW S, NEW q \in Seq(S)
  PROVE  \A i \in DOMAIN q : q[i] \in S
OBVIOUS

\* Taking out what is between two sequences.
LEMMA RemoveBetween ==
  ASSUME NEW S, NEW a \in Seq(S), NEW x \in S, NEW b \in Seq(S)
  PROVE  /\ RemoveAt(a \o (<<x>> \o b), Len(a) + 1) = a \o b
         /\ Len(a) + 1 \in DOMAIN (a \o (<<x>> \o b))
<1> DEFINE n == Len(a)
           m == Len(b)
           r == <<x>> \o b
           q == a \o r
           p == RemoveAt(q, n + 1)
           ab == a \o b
<1>1. /\ r \in Seq(S) /\ Len(r) = 1 + m /\ n \in Nat /\ m \in Nat
      /\ \A i \in 1 .. 1 + m : r[i] = IF i <= 1 THEN x ELSE b[i - 1]
  <2>1. <<x>> \in Seq(S) /\ Len(<<x>>) = 1 /\ \A i \in 1 .. 1 : <<x>>[i] = x
    OBVIOUS
  <2> QED BY <2>1, ConcatProperties
<1>2. /\ q \in Seq(S) /\ Len(q) = n + (1 + m)
      /\ \A i \in 1 .. n + (1 + m) : q[i] = IF i <= n THEN a[i] ELSE r[i - n]
  <2> HIDE DEF r
  <2> QED BY <1>1, ConcatProperties
<1>3. ab \in Seq(S) /\ Len(ab) = n + m /\ \A i \in 1 .. n + m : ab[i] = IF i <= n THEN a[i] ELSE b[i - n]
  BY ConcatProperties
<1>4. n + 1 \in 1 .. Len(q) /\ DOMAIN q = 1 .. Len(q)
  BY <1>1, <1>2
<1>5. /\ p \in Seq(S) /\ Len(p) = Len(q) - 1
      /\ \A i \in 1 .. Len(q) - 1 : p[i] = IF i < n + 1 THEN q[i] ELSE q[i + 1]
  <2> HIDE DEF q, n
  <2> QED BY <1>2, <1>4, RemoveAtElements
<1> HIDE DEF q, p, r, ab, n, m
<1>6. Len(p) = n + m /\ Len(q) - 1 = n + m
  BY <1>1, <1>2, <1>5
<1>7. ASSUME NEW i \in 1 .. n + m PROVE p[i] = ab[i]
  <2>1. CASE i <= n
    <3>1. i < n + 1 /\ i \in 1 .. n + (1 + m)
      BY <1>1, <2>1
    <3>2. p[i] = q[i]
      BY <1>5, <1>6, <3>1
    <3>3. q[i] = a[i] /\ ab[i] = a[i]
      BY <1>2, <1>3, <2>1, <3>1
    <3> QED BY <3>2, <3>3
  <2>2. CASE ~(i <= n)
    <3>1. /\ i + 1 \in 1 .. n + (1 + m) /\ ~(i + 1 <= n) /\ ~(i < n + 1)
          /\ (i + 1) - n \in 1 .. 1 + m /\ ~((i + 1) - n <= 1) /\ ((i + 1) - n) - 1 = i - n
      BY <1>1, <2>2
    <3>2. p[i] = q[i + 1]
      BY <1>5, <1>6, <3>1
    <3>3. q[i + 1] = r[(i + 1) - n]
      BY <1>2, <3>1
    <3>4. r[(i + 1) - n] = b[i - n]
      BY <1>1, <3>1
    <3> QED BY <1>3, <2>2, <3>2, <3>3, <3>4
  <2> QED BY <2>1, <2>2
<1>8. p = ab
  BY <1>3, <1>5, <1>6, <1>7, SeqEqual
<1> QED BY <1>4, <1>8 DEF p, q, r, ab, n

-----------------------------------------------------------------------------
(* Flattening.                                                             *)

\* u and then v: a name that keeps the provers from looking into \o.
Cat(u, v) == u \o v

\* What the library says of \o, under that name.
LEMMA CatAssociative ==
  ASSUME NEW S, NEW u \in Seq(S), NEW v \in Seq(S), NEW w \in Seq(S)
  PROVE  Cat(Cat(u, v), w) = Cat(u, Cat(v, w)) /\ Cat(u, v) \in Seq(S)
BY ConcatAssociative, ConcatProperties, SMTT(30) DEF Cat

\* Four sequences one after the other, however they are grouped.
LEMMA Regroup ==
  ASSUME NEW S, NEW a \in Seq(S), NEW b \in Seq(S), NEW c \in Seq(S), NEW d \in Seq(S)
  PROVE  /\ Cat(Cat(Cat(a, b), c), d) = Cat(Cat(a, b), Cat(c, d))
         /\ Cat(Cat(Cat(a, b), c), d) = Cat(a, Cat(Cat(b, c), d))
         /\ Cat(Cat(a, Cat(b, c)), d) = Cat(Cat(a, b), Cat(c, d))
         /\ Cat(Cat(a, Cat(b, c)), d) = Cat(a, Cat(b, Cat(c, d)))
<1>1. Cat(a, b) \in Seq(S) /\ Cat(b, c) \in Seq(S) /\ Cat(c, d) \in Seq(S)
  BY CatAssociative
<1>2. /\ Cat(Cat(Cat(a, b), c), d) = Cat(Cat(a, b), Cat(c, d))
      /\ Cat(Cat(a, Cat(b, c)), d) = Cat(a, Cat(Cat(b, c), d))
      /\ Cat(Cat(a, b), c) = Cat(a, Cat(b, c)) /\ Cat(Cat(b, c), d) = Cat(b, Cat(c, d))
  BY <1>1, CatAssociative
<1> QED BY <1>2

\* g is the recursion of FlattenSeq over the first n of the sequences.
Flattens(g, ss, n) == g = [i \in 1 .. n |-> IF i = 1 THEN ss[i] ELSE g[i - 1] \o ss[i]]

\* The same, as equations.
FlattenSteps(g, ss, n) ==
  \A i \in 1 .. n :
    /\ i = 1 => g[i] = ss[i]
    /\ i # 1 => g[i] = g[i - 1] \o ss[i]

\* Unfolding the function once, for one that is named.
LEMMA FlattensSteps ==
  ASSUME NEW g, NEW ss, NEW n, Flattens(g, ss, n)
  PROVE  FlattenSteps(g, ss, n)
BY DEF Flattens, FlattenSteps

\* There is such a function.
LEMMA FlattensExists ==
  ASSUME NEW ss, NEW n \in Nat
  PROVE  \E g : Flattens(g, ss, n)
<1> DEFINE T == {m \in Nat : \A g : ~Flattens(g, ss, m)}
<1> SUFFICES ASSUME T # {} PROVE FALSE
  OBVIOUS
<1>1. PICK m \in T : \A k \in T : m <= k
  BY LeastNumberExists
<1>2. CASE m = 0
  <2> DEFINE g == [i \in 1 .. 0 |-> 0]
  <2>1. Flattens(g, ss, 0)
    BY DEF Flattens
  <2> QED BY <1>2, <2>1
<1>3. CASE m # 0
  <2>1. m - 1 \in Nat /\ m - 1 \notin T
    BY <1>1, <1>3
  <2>2. PICK g : Flattens(g, ss, m - 1)
    BY <2>1
  <2> DEFINE h == [i \in 1 .. m |->
                     IF i = m THEN IF i = 1 THEN ss[i] ELSE g[i - 1] \o ss[i] ELSE g[i]]
  <2>3. ASSUME NEW i \in 1 .. m
        PROVE  h[i] = IF i = 1 THEN ss[i] ELSE h[i - 1] \o ss[i]
    <3>1. CASE i = 1
      BY <2>2, <3>1 DEF Flattens
    <3>2. CASE i # 1
      <4>1. i - 1 \in 1 .. m /\ i - 1 # m /\ h[i - 1] = g[i - 1]
        BY <3>2
      <4>2. CASE i = m
        BY <3>2, <4>1, <4>2
      <4>3. CASE i # m
        <5>1. i \in 1 .. m - 1
          BY <4>3
        <5>2. g[i] = g[i - 1] \o ss[i]
          BY <2>2, <3>2, <5>1 DEF Flattens
        <5> QED BY <3>2, <4>1, <4>3, <5>2
      <4> QED BY <4>2, <4>3
    <3> QED BY <3>1, <3>2
  <2>4. h = [i \in 1 .. m |-> IF i = 1 THEN ss[i] ELSE h[i - 1] \o ss[i]]
    <3>1. h = [i \in 1 .. m |-> h[i]]
      OBVIOUS
    <3> HIDE DEF h
    <3> QED BY <2>3, <3>1
  <2>5. Flattens(h, ss, m)
    BY <2>4 DEF Flattens
  <2> QED BY <2>5
<1> QED BY <1>2, <1>3

SameUpTo(f, g, n) == \A i \in 1 .. n : f[i] = g[i]

\* What the recursion gives at n depends on the first n sequences only.
LEMMA FlattensAgree ==
  ASSUME NEW ss, NEW tt, NEW n \in Nat, NEW m \in Nat, NEW g, NEW h,
         Flattens(g, ss, n), Flattens(h, tt, m), n <= m,
         SameUpTo(ss, tt, n)
  PROVE  SameUpTo(g, h, n)
<1> SUFFICES \A i \in 1 .. n : g[i] = h[i]
  BY DEF SameUpTo
<1> DEFINE T == {i \in 1 .. n : g[i] # h[i]}
<1> SUFFICES ASSUME T # {} PROVE FALSE
  OBVIOUS
<1>1. PICK k \in T : \A i \in T : k <= i
  <2>1. T \subseteq Nat
    OBVIOUS
  <2> HIDE DEF T
  <2> QED BY <2>1, LeastNumberExists
<1>2. /\ k = 1 => g[k] = ss[k] /\ h[k] = tt[k]
      /\ k # 1 => g[k] = g[k - 1] \o ss[k] /\ h[k] = h[k - 1] \o tt[k]
      /\ k \in 1 .. n /\ ss[k] = tt[k] /\ g[k] # h[k]
  <2>1. k \in 1 .. n /\ k \in 1 .. m /\ g[k] # h[k] /\ ss[k] = tt[k]
    BY DEF SameUpTo
  <2> HIDE DEF T
  <2>2. FlattenSteps(g, ss, n) /\ FlattenSteps(h, tt, m)
    BY FlattensSteps
  <2>3. /\ k = 1 => g[k] = ss[k]
        /\ k # 1 => g[k] = g[k - 1] \o ss[k]
    BY <2>1, <2>2 DEF FlattenSteps
  <2>4. /\ k = 1 => h[k] = tt[k]
        /\ k # 1 => h[k] = h[k - 1] \o tt[k]
    BY <2>1, <2>2 DEF FlattenSteps
  <2> QED BY <2>1, <2>3, <2>4
<1>3. CASE k = 1
  BY <1>2, <1>3
<1>4. CASE k # 1
  <2>1. k - 1 \in 1 .. n /\ k - 1 \notin T
    BY <1>1, <1>2, <1>4
  <2> QED BY <1>2, <1>4, <2>1
<1> QED BY <1>3, <1>4

\* So any such function says what FlattenSeq is.
LEMMA FlattenSeqIs ==
  ASSUME NEW S, NEW ss \in Seq(S), ss # <<>>, NEW g, Flattens(g, ss, Len(ss))
  PROVE  FlattenSeq(ss) = g[Len(ss)]
<1> DEFINE n == Len(ss)
           h == CHOOSE h : h = [i \in 1 .. n |-> IF i = 1 THEN ss[i] ELSE h[i - 1] \o ss[i]]
<1>1. n \in Nat /\ n # 0
  BY EmptySeq
<1>2. FlattenSeq(ss) = h[n]
  BY <1>1 DEF FlattenSeq
<1>3. Flattens(h, ss, n)
  <2>1. \E x : x = [i \in 1 .. n |-> IF i = 1 THEN ss[i] ELSE x[i - 1] \o ss[i]]
    BY <1>1, FlattensExists DEF Flattens
  <2>2. h = [i \in 1 .. n |-> IF i = 1 THEN ss[i] ELSE h[i - 1] \o ss[i]]
    BY <2>1
  <2> QED BY <2>2 DEF Flattens
<1> HIDE DEF h
<1>4. SameUpTo(g, h, n)
  <2>1. SameUpTo(ss, ss, n)
    BY DEF SameUpTo
  <2> QED BY <1>1, <1>3, <2>1, FlattensAgree
<1> QED BY <1>1, <1>2, <1>4 DEF SameUpTo

\* Sequences over a set make a sequence over the set.
THEOREM FlattenSeqType ==
  ASSUME NEW S, NEW ss \in Seq(Seq(S))
  PROVE  FlattenSeq(ss) \in Seq(S)
<1> DEFINE n == Len(ss)
<1>1. n \in Nat /\ \A i \in 1 .. n : ss[i] \in Seq(S)
  OBVIOUS
<1>2. CASE ss = <<>>
  <2>1. FlattenSeq(ss) = <<>>
    BY <1>2, EmptySeq DEF FlattenSeq
  <2> QED BY <2>1, EmptySeq
<1>3. CASE ss # <<>>
  <2>0. n # 0
    BY <1>3, EmptySeq
  <2>1. PICK g : Flattens(g, ss, n)
    BY <1>1, FlattensExists
  <2>2. FlattenSeq(ss) = g[n]
    BY <1>3, <2>1, FlattenSeqIs
  <2> DEFINE T == {i \in 1 .. n : g[i] \notin Seq(S)}
  <2>3. ASSUME T # {} PROVE FALSE
    <3>1. PICK k \in T : \A i \in T : k <= i
      <4>1. T \subseteq Nat
        OBVIOUS
      <4> HIDE DEF T
      <4> QED BY <2>3, <4>1, LeastNumberExists
    <3>2. g[k] = IF k = 1 THEN ss[k] ELSE g[k - 1] \o ss[k]
      BY <2>1 DEF Flattens
    <3>3. CASE k = 1
      BY <1>1, <3>2, <3>3
    <3>4. CASE k # 1
      <4>1. g[k - 1] \in Seq(S)
        BY <1>1, <3>1, <3>4
      <4>2. ss[k] \in Seq(S)
        BY <1>1
      <4> QED BY <3>2, <3>4, <4>1, <4>2, ConcatProperties
    <3> QED BY <3>3, <3>4
  <2>4. n \in 1 .. n
    BY <1>1, <2>0
  <2> QED BY <2>2, <2>3, <2>4
<1> QED BY <1>2, <1>3

\* One more sequence comes after the others.
THEOREM FlattenSeqAppend ==
  ASSUME NEW S, NEW ss \in Seq(Seq(S)), NEW s \in Seq(S)
  PROVE  FlattenSeq(Append(ss, s)) = FlattenSeq(ss) \o s
<1> DEFINE n == Len(ss)
           tt == Append(ss, s)
<1>1. /\ n \in Nat /\ tt \in Seq(Seq(S)) /\ Len(tt) = n + 1 /\ tt # <<>> /\ tt[n + 1] = s
      /\ \A i \in 1 .. n : tt[i] = ss[i]
  BY AppendProperties
<1>0. n + 1 \in Nat /\ n <= n + 1 /\ n + 1 \in 1 .. n + 1 /\ (n + 1) - 1 = n
  BY <1>1
<1> HIDE DEF tt, n
<1>2. PICK h : Flattens(h, tt, n + 1)
  BY <1>0, FlattensExists
<1>3. FlattenSeq(tt) = h[n + 1]
  BY <1>1, <1>2, FlattenSeqIs
<1>4. /\ n + 1 = 1 => h[n + 1] = s
      /\ n + 1 # 1 => h[n + 1] = h[n] \o s
  <2>1. FlattenSteps(h, tt, n + 1)
    BY <1>2, FlattensSteps
  <2> DEFINE k == n + 1
  <2>2. /\ k = 1 => h[k] = tt[k]
        /\ k # 1 => h[k] = h[k - 1] \o tt[k]
    <3> HIDE DEF k
    <3>1. k \in 1 .. k
      BY <1>0 DEF k
    <3>2. FlattenSteps(h, tt, k)
      BY <2>1 DEF k
    <3> QED BY <3>1, <3>2 DEF FlattenSteps
  <2> QED BY <1>0, <1>1, <2>2
<1>5. CASE ss = <<>>
  <2>1. n = 0 /\ FlattenSeq(ss) = <<>>
    BY <1>5, EmptySeq DEF FlattenSeq, n
  <2> QED BY <1>3, <1>4, <2>1, ConcatEmptySeq DEF tt
<1>6. CASE ss # <<>>
  <2>1. n # 0
    BY <1>6, EmptySeq DEF n
  <2>2. PICK g : Flattens(g, ss, n)
    BY <1>1, FlattensExists
  <2>3. FlattenSeq(ss) = g[n]
    BY <1>6, <2>2, FlattenSeqIs DEF n
  <2>4. \A i \in 1 .. n : g[i] = h[i]
    <3>1. SameUpTo(ss, tt, n)
      BY <1>1 DEF SameUpTo
    <3> DEFINE k == n + 1
    <3>2. k \in Nat /\ n \in Nat /\ n <= k /\ Flattens(h, tt, k)
      BY <1>0, <1>1, <1>2
    <3> HIDE DEF k
    <3>3. SameUpTo(g, h, n)
      BY <2>2, <3>1, <3>2, FlattensAgree
    <3> QED BY <3>3 DEF SameUpTo
  <2>5. g[n] = h[n]
    BY <1>1, <2>1, <2>4, SMTT(30)
  <2> QED BY <1>1, <1>3, <1>4, <2>1, <2>3, <2>5 DEF tt
<1> QED BY <1>5, <1>6

\* The first one comes before the others.
THEOREM FlattenSeqTail ==
  ASSUME NEW S, NEW ss \in Seq(Seq(S)), ss # <<>>
  PROVE  FlattenSeq(ss) = Head(ss) \o FlattenSeq(Tail(ss))
<1> DEFINE n == Len(ss)
           tt == Tail(ss)
<1>1. /\ n \in Nat /\ n # 0 /\ tt \in Seq(Seq(S)) /\ Len(tt) = n - 1 /\ Head(ss) = ss[1]
      /\ \A i \in 1 .. n - 1 : tt[i] = ss[i + 1]
      /\ \A i \in 1 .. n : ss[i] \in Seq(S)
  BY HeadTailProperties, EmptySeq
<1> HIDE DEF tt, n
<1>2. PICK g : Flattens(g, ss, n)
  BY <1>1, FlattensExists
<1>3. FlattenSeq(ss) = g[n]
  BY <1>2, FlattenSeqIs DEF n
<1>4. \A i \in 1 .. n : g[i] = IF i = 1 THEN ss[i] ELSE g[i - 1] \o ss[i]
  BY <1>2 DEF Flattens
<1>5. CASE n = 1
  <2>1. tt = <<>>
    BY <1>1, <1>5, EmptySeq
  <2>2. FlattenSeq(tt) = <<>>
    BY <2>1, EmptySeq DEF FlattenSeq
  <2> QED BY <1>1, <1>3, <1>4, <1>5, <2>2, ConcatEmptySeq DEF tt
<1>6. CASE n # 1
  <2>0. tt # <<>> /\ n - 1 \in Nat /\ n - 1 \in 1 .. n - 1
    BY <1>1, <1>6, EmptySeq
  <2>1. PICK h : Flattens(h, tt, n - 1)
    BY <2>0, FlattensExists
  <2>2. FlattenSeq(tt) = h[n - 1]
    BY <1>1, <2>0, <2>1, FlattenSeqIs
  <2>3. \A i \in 1 .. n - 1 : h[i] = IF i = 1 THEN tt[i] ELSE h[i - 1] \o tt[i]
    BY <2>1 DEF Flattens
  <2> DEFINE T == {i \in 1 .. n - 1 : ~(h[i] \in Seq(S) /\ g[i + 1] = ss[1] \o h[i])}
  <2>4. ASSUME T # {} PROVE FALSE
    <3>1. PICK k \in T : \A i \in T : k <= i
      <4>1. T \subseteq Nat
        <5>1. 1 .. n - 1 \subseteq Nat
          BY <1>1
        <5> QED BY <5>1
      <4> HIDE DEF T
      <4> QED BY <2>4, <4>1, LeastNumberExists
    <3>2. /\ k \in 1 .. n - 1 /\ k + 1 \in 1 .. n /\ k + 1 # 1 /\ (k + 1) - 1 = k
          /\ 1 \in 1 .. n /\ tt[k] = ss[k + 1] /\ ss[1] \in Seq(S) /\ ss[k + 1] \in Seq(S)
      BY <1>1
    <3>3. g[k + 1] = g[k] \o ss[k + 1] /\ g[1] = ss[1]
      BY <1>4, <3>2
    <3>4. CASE k = 1
      BY <2>3, <3>2, <3>3, <3>4
    <3>5. CASE k # 1
      <4>0. k - 1 \in 1 .. n - 1 /\ (k - 1) + 1 = k /\ k - 1 < k /\ k \in Int
        BY <1>1, <3>2, <3>5
      <4>1. k - 1 \notin T
        <5> HIDE DEF T
        <5>1. k - 1 \in T => k <= k - 1
          BY <3>1
        <5> QED BY <4>0, <5>1
      <4>2. h[k - 1] \in Seq(S) /\ g[k] = ss[1] \o h[k - 1]
        BY <4>0, <4>1
      <4>3. h[k] = h[k - 1] \o ss[k + 1]
        BY <2>3, <3>2, <3>5
      <4>4. h[k] \in Seq(S)
        BY <3>2, <4>2, <4>3, ConcatProperties
      <4>5. g[k + 1] = ss[1] \o h[k]
        <5>1. (ss[1] \o h[k - 1]) \o ss[k + 1] = ss[1] \o (h[k - 1] \o ss[k + 1])
          <6> DEFINE a == ss[1]
                     b == h[k - 1]
                     c == ss[k + 1]
          <6>1. a \in Seq(S) /\ b \in Seq(S) /\ c \in Seq(S)
            BY <3>2, <4>2
          <6> HIDE DEF a, b, c
          <6>2. Cat(Cat(a, b), c) = Cat(a, Cat(b, c))
            BY <6>1, CatAssociative
          <6>3. (a \o b) \o c = a \o (b \o c)
            BY <6>2 DEF Cat
          <6> QED BY <6>3 DEF a, b, c
        <5> QED BY <3>3, <4>2, <4>3, <5>1
      <4> QED BY <4>4, <4>5
    <3> QED BY <3>4, <3>5
  <2>5. g[(n - 1) + 1] = ss[1] \o h[n - 1]
    BY <2>0, <2>4
  <2>6. g[n] = ss[1] \o h[n - 1]
    <3>1. (n - 1) + 1 = n
      BY <1>1
    <3> QED BY <2>5, <3>1
  <2> QED BY <1>1, <1>3, <2>2, <2>6 DEF tt
<1> QED BY <1>5, <1>6

\* What the elements of q are mapped to, one after the other.
Images(f, q) == [i \in DOMAIN q |-> f[q[i]]]

FlatMap(f, q) == FlattenSeq(Images(f, q))

\* The elements of T are mapped to sequences over S.
Maps(f, T, S) == \A x \in T : f[x] \in Seq(S)

\* All of them together are such a sequence.
LEMMA FlatMapType ==
  ASSUME NEW T, NEW S, NEW f, NEW q \in Seq(T),
         Maps(f, T, S)
  PROVE  FlatMap(f, q) \in Seq(S) /\ Images(f, q) \in Seq(Seq(S))
<1> DEFINE n == Len(q)
           ss == [i \in DOMAIN q |-> f[q[i]]]
<1>1. n \in Nat /\ DOMAIN q = 1 .. n /\ \A i \in 1 .. n : q[i] \in T
  BY LenProperties
<1> HIDE DEF n
<1>2. ss \in [1 .. n -> Seq(S)]
  BY <1>1 DEF Maps
<1> HIDE DEF ss
<1>3. ss \in Seq(Seq(S))
  BY <1>1, <1>2, SeqDef
<1> QED BY <1>3, FlattenSeqType DEF FlatMap, Images, ss

\* Of nothing comes nothing.
LEMMA FlatMapNone == \A f : FlatMap(f, <<>>) = <<>>
<1> TAKE f
<1>1. DOMAIN <<>> = {} /\ Len(<<>>) = 0
  OBVIOUS
<1>2. [i \in DOMAIN <<>> |-> f[<<>>[i]]] = <<>>
  BY <1>1
<1> QED BY <1>1, <1>2 DEF FlatMap, Images, FlattenSeq

\* One more element adds what it is mapped to at the end.
LEMMA FlatMapAppend ==
  ASSUME NEW T, NEW S, NEW f, NEW q \in Seq(T), NEW x \in T,
         Maps(f, T, S)
  PROVE  FlatMap(f, Append(q, x)) = FlatMap(f, q) \o f[x]
<1> DEFINE n == Len(q)
           qx == Append(q, x)
           ss == [i \in DOMAIN q |-> f[q[i]]]
           tt == [i \in DOMAIN qx |-> f[qx[i]]]
<1>1. /\ n \in Nat /\ qx \in Seq(T) /\ Len(qx) = n + 1 /\ qx[n + 1] = x
      /\ \A i \in 1 .. n : qx[i] = q[i]
  BY AppendProperties, LenProperties
<1>2. DOMAIN qx = 1 .. n + 1 /\ DOMAIN q = 1 .. n
  BY <1>1, LenProperties
<1>3. ss \in Seq(Seq(S)) /\ tt \in Seq(Seq(S)) /\ f[x] \in Seq(S)
  <2>1. f[x] \in Seq(S)
    BY DEF Maps
  <2> HIDE DEF qx
  <2>2. Images(f, q) \in Seq(Seq(S)) /\ Images(f, qx) \in Seq(Seq(S))
    BY <1>1, FlatMapType
  <2> QED BY <2>1, <2>2 DEF Images
<1>4. /\ DOMAIN ss = 1 .. n /\ DOMAIN tt = 1 .. n + 1
      /\ \A i \in 1 .. n : tt[i] = ss[i]
      /\ tt[n + 1] = f[x]
  <2> HIDE DEF qx, n
  <2> QED BY <1>1, <1>2
<1> HIDE DEF ss, tt, qx, n
<1>5. Len(ss) = n /\ Len(tt) = n + 1
  BY <1>1, <1>3, <1>4, LenProperties
<1>6. tt = Append(ss, f[x])
  <2> DEFINE r == Append(ss, f[x])
  <2>1. /\ r \in Seq(Seq(S)) /\ Len(r) = n + 1 /\ r[n + 1] = f[x]
        /\ \A i \in 1 .. n : r[i] = ss[i]
    BY <1>3, <1>5, AppendProperties
  <2> HIDE DEF r
  <2>2. \A i \in 1 .. n + 1 : tt[i] = r[i]
    BY <1>1, <1>4, <2>1
  <2>3. tt = r
    BY <1>3, <1>5, <2>1, <2>2, SeqEqual
  <2> QED BY <2>3 DEF r
<1>7. FlattenSeq(tt) = FlattenSeq(ss) \o f[x]
  BY <1>3, <1>6, FlattenSeqAppend
<1> QED BY <1>7 DEF FlatMap, Images, ss, tt, qx

\* What the first element is mapped to comes first.
LEMMA FlatMapTail ==
  ASSUME NEW T, NEW S, NEW f, NEW q \in Seq(T), q # <<>>,
         Maps(f, T, S)
  PROVE  FlatMap(f, q) = f[Head(q)] \o FlatMap(f, Tail(q))
<1> DEFINE n == Len(q)
           t == Tail(q)
           ss == [i \in DOMAIN q |-> f[q[i]]]
           tt == [i \in DOMAIN t |-> f[t[i]]]
<1>1. /\ n \in Nat /\ n # 0 /\ t \in Seq(T) /\ Len(t) = n - 1 /\ Head(q) = q[1]
      /\ \A i \in 1 .. n - 1 : t[i] = q[i + 1]
  BY HeadTailProperties, EmptySeq
<1>2. DOMAIN t = 1 .. n - 1 /\ DOMAIN q = 1 .. n
  BY <1>1, LenProperties
<1>3. ss \in Seq(Seq(S)) /\ tt \in Seq(Seq(S))
  <2> HIDE DEF t
  <2>2. Images(f, q) \in Seq(Seq(S)) /\ Images(f, t) \in Seq(Seq(S))
    BY <1>1, FlatMapType
  <2> QED BY <2>2 DEF Images
<1>4. /\ DOMAIN ss = 1 .. n /\ DOMAIN tt = 1 .. n - 1
      /\ \A i \in 1 .. n - 1 : tt[i] = ss[i + 1]
      /\ ss[1] = f[Head(q)]
  <2> HIDE DEF t, n
  <2> QED BY <1>1, <1>2
<1> HIDE DEF ss, tt, t, n
<1>5. Len(ss) = n /\ Len(tt) = n - 1 /\ ss # <<>>
  <2>1. Len(ss) = n /\ Len(tt) = n - 1
    BY <1>1, <1>3, <1>4, LenProperties
  <2> QED BY <1>1, <2>1, EmptySeq
<1>6. tt = Tail(ss) /\ Head(ss) = f[Head(q)]
  <2> DEFINE r == Tail(ss)
  <2>1. /\ r \in Seq(Seq(S)) /\ Len(r) = n - 1 /\ Head(ss) = ss[1]
        /\ \A i \in 1 .. n - 1 : r[i] = ss[i + 1]
    BY <1>3, <1>5, HeadTailProperties
  <2> HIDE DEF r
  <2>2. \A i \in 1 .. n - 1 : tt[i] = r[i]
    BY <1>1, <1>4, <2>1
  <2>3. tt = r
    BY <1>3, <1>5, <2>1, <2>2, SeqEqual
  <2> QED BY <1>4, <2>1, <2>3 DEF r
<1>7. FlattenSeq(ss) = f[Head(q)] \o FlattenSeq(tt)
  BY <1>3, <1>5, <1>6, FlattenSeqTail
<1> QED BY <1>7 DEF FlatMap, Images, ss, tt, t

-----------------------------------------------------------------------------
(* Offsets.                                                                *)

\* off[k] is the length of what comes before the k-th of the sequences that are joined.
Offsets(off, ss) ==
  /\ off \in [1 .. Len(ss) + 1 -> Nat]
  /\ off[1] = 0
  /\ off[Len(ss) + 1] = Len(FlattenSeq(ss))
  /\ \A k \in 1 .. Len(ss) : off[k + 1] = off[k] + Len(ss[k])
  /\ \A k \in 1 .. Len(ss) : \A i \in 1 .. Len(ss[k]) : FlattenSeq(ss)[off[k] + i] = ss[k][i]

\* A function that no step makes smaller.
NeverDrops(off, n) == \A k \in 1 .. n : off[k] <= off[k + 1]

\* Nor do many steps.
LEMMA DropsNowhere ==
  ASSUME NEW n \in Nat, NEW off, off \in [1 .. n + 1 -> Nat], NeverDrops(off, n),
         NEW j \in 1 .. n + 1, NEW k \in 1 .. n + 1, j <= k
  PROVE  off[j] <= off[k]
<1> DEFINE T == {m \in j .. n + 1 : ~(off[j] <= off[m])}
<1>1. ASSUME T # {} PROVE FALSE
  <2>1. PICK m \in T : \A l \in T : m <= l
    <3>1. T \subseteq Nat
      OBVIOUS
    <3> HIDE DEF T
    <3> QED BY <1>1, <3>1, LeastNumberExists
  <2>2. m \in j .. n + 1 /\ ~(off[j] <= off[m]) /\ off[j] \in Nat
    OBVIOUS
  <2>3. m # j
    BY <2>2
  <2> DEFINE p == m - 1
  <2>4. p \in 1 .. n /\ p \in j .. n + 1 /\ ~(m <= p) /\ p + 1 = m
    BY <2>2, <2>3
  <2>5. off[j] <= off[p]
    <3>1. p \notin T
      <4> HIDE DEF T, p
      <4> QED BY <2>1, <2>4
    <3> QED BY <2>4, <3>1
  <2>6. off[p] <= off[m] /\ off[p] \in Nat /\ off[m] \in Nat
    <3> HIDE DEF p
    <3>1. off[p] <= off[p + 1]
      BY <2>4 DEF NeverDrops
    <3> QED BY <2>2, <2>4, <3>1
  <2> HIDE DEF p
  <2> QED BY <2>2, <2>5, <2>6
<1>2. k \notin T
  BY <1>1
<1> QED BY <1>2

\* One more sequence begins where the others end.
LEMMA OffsetsAppend ==
  ASSUME NEW S, NEW ss \in Seq(Seq(S)), NEW s \in Seq(S), NEW o, Offsets(o, ss)
  PROVE  \E off : Offsets(off, Append(ss, s))
<1> DEFINE n == Len(ss)
           tt == Append(ss, s)
           u == FlattenSeq(ss)
           v == FlattenSeq(tt)
           e == o[n + 1]
           off == [k \in 1 .. n + 2 |-> IF k <= n + 1 THEN o[k] ELSE e + Len(s)]
<1>1. /\ n \in Nat /\ tt \in Seq(Seq(S)) /\ Len(tt) = n + 1 /\ tt[n + 1] = s
      /\ \A k \in 1 .. n : tt[k] = ss[k] /\ ss[k] \in Seq(S) /\ Len(ss[k]) \in Nat
      /\ Len(s) \in Nat
  BY AppendProperties, LenProperties
<1>2. u \in Seq(S) /\ v = u \o s
  BY FlattenSeqType, FlattenSeqAppend
<1> HIDE DEF tt, u, v
<1>3. /\ Len(u) \in Nat /\ Len(v) = Len(u) + Len(s)
      /\ \A i \in 1 .. Len(u) + Len(s) : v[i] = IF i <= Len(u) THEN u[i] ELSE s[i - Len(u)]
  BY <1>2, ConcatProperties, LenProperties
<1> HIDE DEF n
<1>4. /\ o \in [1 .. n + 1 -> Nat] /\ o[1] = 0 /\ e = Len(u)
      /\ \A k \in 1 .. n : o[k + 1] = o[k] + Len(ss[k])
      /\ \A k \in 1 .. n : \A i \in 1 .. Len(ss[k]) : u[o[k] + i] = ss[k][i]
  BY DEF Offsets, n, u
<1> HIDE DEF e
<1>5. e \in Nat
  BY <1>3, <1>4
<1>6. off \in [1 .. n + 2 -> Nat]
  BY <1>1, <1>4, <1>5
<1>7. /\ off[1] = 0 /\ off[n + 2] = Len(v) /\ off[n + 1] = e
      /\ \A k \in 1 .. n + 1 : off[k] = o[k]
  BY <1>1, <1>3, <1>4 DEF e
<1> HIDE DEF off
<1>8. \A k \in 1 .. n + 1 : off[k + 1] = off[k] + Len(tt[k])
  <2> TAKE k \in 1 .. n + 1
  <2>1. CASE k = n + 1
    <3>1. k + 1 = n + 2
      BY <1>1, <2>1
    <3> QED BY <1>1, <1>3, <1>4, <1>7, <2>1, <3>1
  <2>2. CASE k # n + 1
    <3>1. k \in 1 .. n /\ k + 1 \in 1 .. n + 1
      BY <1>1, <2>2
    <3> QED BY <1>1, <1>4, <1>7, <3>1
  <2> QED BY <2>1, <2>2
<1>9. \A k \in 1 .. n : o[k] + Len(ss[k]) <= e
  <2>1. NeverDrops(o, n)
    <3> SUFFICES ASSUME NEW k \in 1 .. n PROVE o[k] <= o[k + 1]
      BY DEF NeverDrops
    <3>1. o[k] \in Nat /\ Len(ss[k]) \in Nat /\ o[k + 1] = o[k] + Len(ss[k])
      BY <1>1, <1>4, SMTT(30)
    <3> QED BY <3>1
  <2> TAKE k \in 1 .. n
  <2>2. k + 1 \in 1 .. n + 1 /\ n + 1 \in 1 .. n + 1 /\ k + 1 <= n + 1
    BY <1>1
  <2>3. o[k + 1] <= o[n + 1]
    BY <1>1, <1>4, <2>1, <2>2, DropsNowhere
  <2> QED BY <1>4, <2>3 DEF e
<1>10. \A k \in 1 .. n + 1 : \A i \in 1 .. Len(tt[k]) : v[off[k] + i] = tt[k][i]
  <2> TAKE k \in 1 .. n + 1
  <2> TAKE i \in 1 .. Len(tt[k])
  <2>1. CASE k = n + 1
    <3>1. off[k] = Len(u) /\ tt[k] = s /\ i \in 1 .. Len(s)
      BY <1>1, <1>4, <1>7, <2>1
    <3>2. Len(u) + i \in 1 .. Len(u) + Len(s) /\ ~(Len(u) + i <= Len(u)) /\ (Len(u) + i) - Len(u) = i
      BY <1>1, <1>3, <3>1, SMTT(30)
    <3> QED BY <1>3, <3>1, <3>2
  <2>2. CASE k # n + 1
    <3>0. k \in 1 .. n /\ k \in 1 .. n + 1
      BY <1>1, <2>2
    <3>1. k \in 1 .. n /\ off[k] = o[k] /\ tt[k] = ss[k] /\ i \in 1 .. Len(ss[k]) /\ o[k] \in Nat
      BY <1>1, <1>4, <1>7, <3>0
    <3>2. o[k] + Len(ss[k]) <= Len(u) /\ Len(ss[k]) \in Nat
      BY <1>1, <1>4, <1>9, <3>1
    <3>3. o[k] + i \in 1 .. Len(u) + Len(s) /\ o[k] + i <= Len(u)
      <4> DEFINE x == o[k]
                 a == Len(u)
                 b == Len(s)
                 d == Len(ss[k])
      <4>1. x \in Nat /\ a \in Nat /\ b \in Nat /\ d \in Nat /\ i \in 1 .. d /\ x + d <= a
        BY <1>1, <1>3, <3>1, <3>2
      <4> HIDE DEF x, a, b, d
      <4>2. x + i \in 1 .. a + b /\ x + i <= a
        BY <4>1
      <4> QED BY <4>2 DEF x, a, b
    <3> QED BY <1>3, <1>4, <3>1, <3>3
  <2> QED BY <2>1, <2>2
<1>11. (n + 1) + 1 = n + 2
  BY <1>1
<1>12. Offsets(off, tt)
  BY <1>1, <1>6, <1>7, <1>8, <1>10, <1>11 DEF Offsets, v
<1> QED BY <1>12 DEF tt

\* So there are offsets for any sequence of sequences.
THEOREM OffsetsExist ==
  ASSUME NEW S, NEW ss \in Seq(Seq(S))
  PROVE  \E off : Offsets(off, ss)
<1> DEFINE T == {n \in Nat : \E tt \in Seq(Seq(S)) : Len(tt) = n /\ \A off : ~Offsets(off, tt)}
<1>1. ASSUME T # {} PROVE FALSE
  <2>1. PICK n \in T : \A m \in T : n <= m
    <3>1. T \subseteq Nat
      OBVIOUS
    <3> HIDE DEF T
    <3> QED BY <1>1, <3>1, LeastNumberExists
  <2>2. PICK tt \in Seq(Seq(S)) : Len(tt) = n /\ \A off : ~Offsets(off, tt)
    BY <2>1
  <2>3. CASE tt = <<>>
    <3> DEFINE off == [k \in 1 .. 1 |-> 0]
    <3>1. Len(tt) = 0 /\ FlattenSeq(tt) = <<>>
      BY <2>3 DEF FlattenSeq
    <3>2. Offsets(off, tt)
      BY <3>1 DEF Offsets
    <3> QED BY <2>2, <3>2
  <2>4. CASE tt # <<>>
    <3>1. PICK uu \in Seq(Seq(S)), s \in Seq(S) : tt = Append(uu, s)
      BY <2>4, SequenceEmptyOrAppend
    <3>2. Len(uu) \in Nat /\ n = Len(uu) + 1
      BY <2>2, <3>1, AppendProperties, LenProperties
    <3>3. Len(uu) \notin T
      <4> HIDE DEF T
      <4>1. Len(uu) \in T => n <= Len(uu)
        BY <2>1
      <4> QED BY <3>2, <4>1
    <3>4. PICK o : Offsets(o, uu)
      BY <3>2, <3>3
    <3>5. \E off : Offsets(off, tt)
      BY <3>1, <3>4, OffsetsAppend
    <3> QED BY <2>2, <3>5
  <2> QED BY <2>3, <2>4
<1>2. Len(ss) \in Nat
  BY LenProperties
<1>3. Len(ss) \notin T
  BY <1>1
<1> QED BY <1>2, <1>3
=============================================================================
