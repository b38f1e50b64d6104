---------------------------- MODULE TaxEngineProofs ----------------------------
(***************************************************************************)
(* A breakdown balances, for every table of rules, every figure and every    *)
(* number of rules on a line.  The sums over a line's rules are folds; what   *)
(* they compute is proved by induction on the set of rules.                  *)
(***************************************************************************)
EXTENDS TaxEngine, FiniteSetTheorems, WellFoundedInduction, TLAPS

-----------------------------------------------------------------------------
(* Induction over a finite set, and the sum of a function over one. *)

\* A set of numbers that has zero, and with each number the next, has them all:
\* a smallest one it has not would have one before it.
LEMMA CountingUp ==
  ASSUME NEW P, 0 \in P, \A n \in Nat : n \in P => n + 1 \in P
  PROVE  \A n \in Nat : n \in P
<1> DEFINE Missing == Nat \ P
<1> SUFFICES ASSUME Missing # {} PROVE FALSE
  OBVIOUS
<1>1. PICK n \in Missing : \A m \in Missing : ~ <<m, n>> \in OpToRel(<, Nat)
  <2>1. Missing \subseteq Nat
    OBVIOUS
  <2> HIDE DEF Missing
  <2> QED
    BY <2>1, NatLessThanWellFounded, WFMin
<1>2. n \in Nat /\ n # 0
  BY <1>1
<1>3. n - 1 \in Nat /\ n - 1 < n /\ (n - 1) + 1 = n
  BY <1>2
<1>4. n - 1 \in P
  <2>1. CASE n - 1 \in Missing
    BY <1>1, <1>2, <1>3, <2>1 DEF OpToRel
  <2> QED
    BY <1>3, <2>1
<1> QED
  BY <1>1, <1>3, <1>4

\* What holds of the empty set, and of a set with one more element when it holds
\* of the set, holds of a finite set.
LEMMA SubsetInduction ==
  ASSUME NEW S, IsFiniteSet(S), NEW Good, {} \in Good,
         \A T \in SUBSET S : T \in Good => \A x \in S \ T : T \cup {x} \in Good
  PROVE  S \in Good
<1> DEFINE P == {n \in Nat : \A T \in SUBSET S : Cardinality(T) = n => T \in Good}
<1>1. \A T \in SUBSET S : IsFiniteSet(T) /\ Cardinality(T) \in Nat
  BY FS_Subset, FS_CardinalityType
<1>2. 0 \in P
  BY <1>1, FS_EmptySet
<1>3. ASSUME NEW n \in Nat, n \in P PROVE n + 1 \in P
  <2> SUFFICES ASSUME NEW T \in SUBSET S, Cardinality(T) = n + 1 PROVE T \in Good
    OBVIOUS
  <2>1. PICK x : x \in T
    BY FS_EmptySet
  <2>2. Cardinality(T \ {x}) = Cardinality(T) - 1
    BY <1>1, <2>1, FS_RemoveElement
  <2>3. T \ {x} \in SUBSET S /\ Cardinality(T \ {x}) = n
    BY <2>2
  <2>4. T \ {x} \in Good
    BY <1>3, <2>3
  <2>5. (T \ {x}) \cup {x} = T /\ x \in S \ (T \ {x})
    BY <2>1
  <2> QED
    BY <2>3, <2>4, <2>5
<1>4. Cardinality(S) \in P
  <2> HIDE DEF P
  <2> QED
    BY <1>1, <1>2, <1>3, CountingUp
<1> QED
  BY <1>4

\* How a sum is computed for a function and the subsets of S: from an element at
\* a time, whichever comes first.
First(s) == CHOOSE x \in s : TRUE

Sums(f, D, g) == g = [s \in D |-> IF s = {} THEN 0 ELSE f[First(s)] + g[s \ {First(s)}]]

LEMMA SumIsIterated ==
  ASSUME NEW f, NEW S PROVE SumFunctionOnSet(f, S) = (CHOOSE g : Sums(f, SUBSET S, g))[S]
BY DEF SumFunctionOnSet, FoldFunctionOnSet, MapThenFoldSet, Sums, First

Upto(S, n) == {s \in SUBSET S : Cardinality(s) <= n}

LEMMA SubsetSizes ==
  ASSUME NEW S, IsFiniteSet(S), NEW s \in SUBSET S
  PROVE  /\ IsFiniteSet(s) /\ Cardinality(s) \in Nat /\ Cardinality(s) <= Cardinality(S)
         /\ Cardinality(s) = 0 <=> s = {}
         /\ \A x \in s : /\ s \ {x} \in SUBSET S
                         /\ Cardinality(s \ {x}) = Cardinality(s) - 1
                         /\ Cardinality(s \ {x}) \in Nat
         /\ s # {} => First(s) \in s
<1>1. IsFiniteSet(s) /\ Cardinality(s) \in Nat /\ Cardinality(s) <= Cardinality(S)
  BY FS_Subset, FS_CardinalityType
<1>2. Cardinality(s) = 0 <=> s = {}
  BY <1>1, FS_EmptySet
<1>3. \A x \in s : Cardinality(s \ {x}) = Cardinality(s) - 1
  BY <1>1, FS_RemoveElement
<1>4. \A x \in s : s \ {x} \in SUBSET S /\ Cardinality(s \ {x}) \in Nat
  BY <1>1, FS_RemoveElement, FS_CardinalityType
<1>5. s # {} => First(s) \in s
  BY DEF First
<1> QED
  BY <1>1, <1>2, <1>3, <1>4, <1>5

LEMMA SumsExist ==
  ASSUME NEW f, NEW S, IsFiniteSet(S)
  PROVE  \E g : Sums(f, SUBSET S, g)
<1> DEFINE P == {n \in Nat : \E g : Sums(f, Upto(S, n), g)}
<1>1. 0 \in P
  <2>1. \A s \in Upto(S, 0) : s = {}
    BY SubsetSizes DEF Upto
  <2>2. Sums(f, Upto(S, 0), [s \in Upto(S, 0) |-> 0])
    BY <2>1 DEF Sums
  <2> QED
    BY <2>2
<1>2. ASSUME NEW n \in Nat, n \in P PROVE n + 1 \in P
  <2>1. PICK g : Sums(f, Upto(S, n), g)
    BY <1>2
  <2> DEFINE h == [s \in Upto(S, n + 1) |-> IF s = {} THEN 0 ELSE f[First(s)] + g[s \ {First(s)}]]
  <2>2. \A s \in Upto(S, n) : s \in Upto(S, n + 1) /\ h[s] = g[s]
    <3> SUFFICES ASSUME NEW s \in Upto(S, n) PROVE s \in Upto(S, n + 1) /\ h[s] = g[s]
      OBVIOUS
    <3>1. Cardinality(s) \in Nat /\ Cardinality(s) <= n /\ s \in SUBSET S
      BY SubsetSizes DEF Upto
    <3>2. s \in Upto(S, n + 1)
      BY <3>1 DEF Upto
    <3>3. g[s] = IF s = {} THEN 0 ELSE f[First(s)] + g[s \ {First(s)}]
      BY <2>1 DEF Sums
    <3> QED
      BY <3>2, <3>3
  <2>3. \A s \in Upto(S, n + 1) : s # {} => s \ {First(s)} \in Upto(S, n)
    BY SubsetSizes DEF Upto
  <2>4. Sums(f, Upto(S, n + 1), h)
    BY <2>2, <2>3 DEF Sums
  <2> QED
    BY <2>4
<1>3. Cardinality(S) \in P
  <2>1. Cardinality(S) \in Nat
    BY FS_CardinalityType
  <2> HIDE DEF P
  <2> QED
    BY <1>1, <1>2, <2>1, CountingUp
<1>4. Upto(S, Cardinality(S)) = SUBSET S
  BY SubsetSizes DEF Upto
<1> QED
  BY <1>3, <1>4

\* Where two ways of computing overlap, they give the same.
LEMMA SumsAgree ==
  ASSUME NEW f, NEW S, IsFiniteSet(S), NEW T \in SUBSET S, NEW g, NEW h,
         Sums(f, SUBSET S, g), Sums(f, SUBSET T, h)
  PROVE  g[T] = h[T]
<1> DEFINE P == {n \in Nat : \A s \in SUBSET T : Cardinality(s) = n => g[s] = h[s]}
<1>1. IsFiniteSet(T) /\ Cardinality(T) \in Nat
  BY SubsetSizes
<1>2. 0 \in P
  BY <1>1, SubsetSizes DEF Sums
<1>3. ASSUME NEW n \in Nat, n \in P PROVE n + 1 \in P
  <2> SUFFICES ASSUME NEW s \in SUBSET T, Cardinality(s) = n + 1 PROVE g[s] = h[s]
    OBVIOUS
  <2>1. s # {} /\ s \ {First(s)} \in SUBSET T /\ Cardinality(s \ {First(s)}) = n
    <3>1. Cardinality(s) # 0 /\ s # {} /\ First(s) \in s
      BY <1>1, SubsetSizes
    <3>2. Cardinality(s \ {First(s)}) = Cardinality(s) - 1 /\ s \ {First(s)} \in SUBSET T
      BY <1>1, <3>1, SubsetSizes
    <3> QED
      BY <3>1, <3>2
  <2>2. g[s \ {First(s)}] = h[s \ {First(s)}]
    BY <1>3, <2>1
  <2> QED
    BY <2>1, <2>2 DEF Sums
<1>4. Cardinality(T) \in P
  <2> HIDE DEF P
  <2> QED
    BY <1>1, <1>2, <1>3, CountingUp
<1> QED
  BY <1>4

LEMMA SumUnfolds ==
  ASSUME NEW f, NEW S, IsFiniteSet(S)
  PROVE  SumFunctionOnSet(f, S) =
           IF S = {} THEN 0 ELSE f[First(S)] + SumFunctionOnSet(f, S \ {First(S)})
<1> DEFINE g == CHOOSE g : Sums(f, SUBSET S, g)
           T == S \ {First(S)}
           h == CHOOSE h : Sums(f, SUBSET T, h)
<1>1. IsFiniteSet(T) /\ T \in SUBSET S
  BY FS_Subset
<1>2. Sums(f, SUBSET S, g)
  BY SumsExist
<1>3. Sums(f, SUBSET T, h)
  BY <1>1, SumsExist
<1>4. SumFunctionOnSet(f, S) = g[S] /\ SumFunctionOnSet(f, T) = h[T]
  BY SumIsIterated
<1>5. g[T] = h[T]
  <2> HIDE DEF g, h, T
  <2> QED
    BY <1>1, <1>2, <1>3, SumsAgree
<1>6. g[S] = IF S = {} THEN 0 ELSE f[First(S)] + g[T]
  <2> HIDE DEF g
  <2> QED
    BY <1>2 DEF Sums
<1> HIDE DEF g, h, T
<1>7. SumFunctionOnSet(f, S) = IF S = {} THEN 0 ELSE f[First(S)] + SumFunctionOnSet(f, T)
  BY <1>4, <1>5, <1>6
<1> QED
  BY <1>7 DEF T

LEMMA SumInt ==
  ASSUME NEW S, IsFiniteSet(S), NEW f, \A x \in S : f[x] \in Int
  PROVE  SumFunctionOnSet(f, S) \in Int
<1> DEFINE P == {n \in Nat : \A T \in SUBSET S : Cardinality(T) = n => SumFunctionOnSet(f, T) \in Int}
<1>1. \A T \in SUBSET S :
        SumFunctionOnSet(f, T) = IF T = {} THEN 0 ELSE f[First(T)] + SumFunctionOnSet(f, T \ {First(T)})
  BY SubsetSizes, SumUnfolds
<1>2. 0 \in P
  BY <1>1, SubsetSizes
<1>3. ASSUME NEW n \in Nat, n \in P PROVE n + 1 \in P
  <2> SUFFICES ASSUME NEW T \in SUBSET S, Cardinality(T) = n + 1 PROVE SumFunctionOnSet(f, T) \in Int
    OBVIOUS
  <2>1. Cardinality(T) # 0 /\ T # {} /\ First(T) \in T
    BY SubsetSizes
  <2>2. T \ {First(T)} \in SUBSET S /\ Cardinality(T \ {First(T)}) = n
    BY <2>1, SubsetSizes
  <2>3. SumFunctionOnSet(f, T \ {First(T)}) \in Int
    BY <1>3, <2>2
  <2> QED
    BY <1>1, <2>1, <2>3
<1>4. Cardinality(S) \in P
  <2>1. Cardinality(S) \in Nat
    BY SubsetSizes
  <2> HIDE DEF P
  <2> QED
    BY <1>2, <1>3, <2>1, CountingUp
<1> QED
  BY <1>4

\* The order does not matter.
LEMMA SumRemoves ==
  ASSUME NEW S, IsFiniteSet(S), NEW f, \A x \in S : f[x] \in Int, NEW x \in S
  PROVE  SumFunctionOnSet(f, S) = f[x] + SumFunctionOnSet(f, S \ {x})
<1> DEFINE Total(T) == SumFunctionOnSet(f, T)
           P == {n \in Nat : \A T \in SUBSET S : Cardinality(T) = n => \A z \in T : Total(T) = f[z] + Total(T \ {z})}
<1>1. \A T \in SUBSET S : T # {} => Total(T) = f[First(T)] + Total(T \ {First(T)})
  BY SubsetSizes, SumUnfolds
<1>2. \A T \in SUBSET S : Total(T) \in Int
  BY SubsetSizes, SumInt
<1> HIDE DEF Total
<1>3. 0 \in P
  BY SubsetSizes
<1>4. ASSUME NEW n \in Nat, n \in P PROVE n + 1 \in P
  <2> SUFFICES ASSUME NEW T \in SUBSET S, Cardinality(T) = n + 1, NEW z \in T PROVE Total(T) = f[z] + Total(T \ {z})
    OBVIOUS
  <2> DEFINE y == First(T)
  <2>1. y \in T /\ \A v \in T : T \ {v} \in SUBSET S /\ Cardinality(T \ {v}) = n
    BY SubsetSizes
  <2>2. Total(T) = f[y] + Total(T \ {y})
    BY <1>1, <2>1
  <2> HIDE DEF y
  <2>3. CASE z # y
    <3>1. Total(T \ {y}) = f[z] + Total((T \ {y}) \ {z})
      BY <1>4, <2>1, <2>3
    <3>2. Total(T \ {z}) = f[y] + Total((T \ {z}) \ {y})
      BY <1>4, <2>1, <2>3
    <3>3. (T \ {y}) \ {z} = (T \ {z}) \ {y} /\ (T \ {z}) \ {y} \in SUBSET S
      OBVIOUS
    <3>4. Total((T \ {z}) \ {y}) \in Int /\ f[y] \in Int /\ f[z] \in Int
      BY <1>2, <2>1, <3>3
    <3>5. Total((T \ {y}) \ {z}) = Total((T \ {z}) \ {y})
      BY <3>3
    <3> QED
      BY <2>2, <3>1, <3>2, <3>4, <3>5
  <2> QED
    BY <2>2, <2>3
<1>5. Cardinality(S) \in P
  <2>1. Cardinality(S) \in Nat
    BY SubsetSizes
  <2> HIDE DEF P
  <2> QED
    BY <1>3, <1>4, <2>1, CountingUp
<1>6. Total(S) = f[x] + Total(S \ {x})
  BY <1>5
<1> QED
  BY <1>6 DEF Total

\* One more element, over a set that is part of the one the function is known on.
LEMMA SumAdds ==
  ASSUME NEW S, IsFiniteSet(S), NEW f, \A x \in S : f[x] \in Int, NEW T \in SUBSET S, NEW x \in S \ T
  PROVE  /\ SumFunctionOnSet(f, T) \in Int /\ SumFunctionOnSet(f, T \cup {x}) \in Int
         /\ SumFunctionOnSet(f, T \cup {x}) = f[x] + SumFunctionOnSet(f, T)
<1>1. IsFiniteSet(T) /\ IsFiniteSet(T \cup {x}) /\ (T \cup {x}) \ {x} = T
  BY FS_Subset
<1>2. (\A z \in T : f[z] \in Int) /\ \A z \in T \cup {x} : f[z] \in Int
  OBVIOUS
<1>3. SumFunctionOnSet(f, T) \in Int /\ SumFunctionOnSet(f, T \cup {x}) \in Int
  BY <1>1, <1>2, SumInt
<1>4. SumFunctionOnSet(f, T \cup {x}) = f[x] + SumFunctionOnSet(f, (T \cup {x}) \ {x})
  BY <1>1, <1>2, SumRemoves
<1> QED
  BY <1>1, <1>3, <1>4

LEMMA SumEmpty == ASSUME NEW f PROVE SumFunctionOnSet(f, {}) = 0
BY SumUnfolds, FS_EmptySet

LEMMA SumNat ==
  ASSUME NEW S, IsFiniteSet(S), NEW f, \A x \in S : f[x] \in Nat
  PROVE  SumFunctionOnSet(f, S) \in Nat
<1> DEFINE Good == {T \in SUBSET S : SumFunctionOnSet(f, T) \in Nat}
<1>1. {} \in Good
  BY SumEmpty
<1>2. ASSUME NEW T \in SUBSET S, T \in Good, NEW x \in S \ T PROVE T \cup {x} \in Good
  <2>1. SumFunctionOnSet(f, T \cup {x}) = f[x] + SumFunctionOnSet(f, T)
    BY SumAdds
  <2> QED
    BY <1>2, <2>1
<1>3. S \in Good
  <2> HIDE DEF Good
  <2> QED
    BY <1>1, <1>2, SubsetInduction
<1> QED
  BY <1>3

LEMMA SumScales ==
  ASSUME NEW S, IsFiniteSet(S), NEW f, NEW g, NEW k \in Int,
         \A x \in S : g[x] \in Int, \A x \in S : f[x] = k * g[x]
  PROVE  SumFunctionOnSet(f, S) = k * SumFunctionOnSet(g, S)
<1> DEFINE Good == {T \in SUBSET S : SumFunctionOnSet(f, T) = k * SumFunctionOnSet(g, T)}
<1>1. {} \in Good
  BY SumEmpty
<1>2. ASSUME NEW T \in SUBSET S, T \in Good, NEW x \in S \ T PROVE T \cup {x} \in Good
  <2>1. \A z \in S : f[z] \in Int
    OBVIOUS
  <2>2. SumFunctionOnSet(f, T \cup {x}) = f[x] + SumFunctionOnSet(f, T)
    BY <2>1, SumAdds
  <2>3. /\ SumFunctionOnSet(g, T) \in Int
        /\ SumFunctionOnSet(g, T \cup {x}) = g[x] + SumFunctionOnSet(g, T)
    BY SumAdds
  <2>4. \A a, b \in Int : k * (a + b) = k * a + k * b
    OBVIOUS
  <2> QED
    BY <1>2, <2>2, <2>3, <2>4
<1>3. S \in Good
  <2> HIDE DEF Good
  <2> QED
    BY <1>1, <1>2, SubsetInduction
<1> QED
  BY <1>3

LEMMA SumSplits ==
  ASSUME NEW S, IsFiniteSet(S), NEW f, \A x \in S : f[x] \in Int, NEW T \in SUBSET S
  PROVE  SumFunctionOnSet(f, S) = SumFunctionOnSet(f, T) + SumFunctionOnSet(f, S \ T)
<1> DEFINE Good == {U \in SUBSET T : SumFunctionOnSet(f, S) = SumFunctionOnSet(f, U) + SumFunctionOnSet(f, S \ U)}
<1>1. {} \in Good
  BY SumEmpty, SumInt
<1>2. ASSUME NEW U \in SUBSET T, U \in Good, NEW x \in T \ U PROVE U \cup {x} \in Good
  <2>1. /\ SumFunctionOnSet(f, U) \in Int
        /\ SumFunctionOnSet(f, U \cup {x}) = f[x] + SumFunctionOnSet(f, U)
    BY SumAdds
  <2>2. S \ U = (S \ (U \cup {x})) \cup {x}
    OBVIOUS
  <2>3. /\ SumFunctionOnSet(f, S \ (U \cup {x})) \in Int
        /\ SumFunctionOnSet(f, (S \ (U \cup {x})) \cup {x}) = f[x] + SumFunctionOnSet(f, S \ (U \cup {x}))
    BY SumAdds
  <2>4. SumFunctionOnSet(f, S \ U) = f[x] + SumFunctionOnSet(f, S \ (U \cup {x})) /\ f[x] \in Int
    BY <2>2, <2>3
  <2>5. SumFunctionOnSet(f, S) = SumFunctionOnSet(f, U \cup {x}) + SumFunctionOnSet(f, S \ (U \cup {x}))
    BY <1>2, <2>1, <2>3, <2>4
  <2> QED
    BY <2>5
<1>3. T \in Good
  <2>1. IsFiniteSet(T)
    BY FS_Subset
  <2> HIDE DEF Good
  <2> QED
    BY <1>1, <1>2, <2>1, SubsetInduction
<1> QED
  BY <1>3

\* Errors add up: b at each element.
LEMMA SumOfErrors ==
  ASSUME NEW S, IsFiniteSet(S), NEW f, NEW g, NEW k \in Int, NEW b \in Nat,
         \A x \in S : f[x] \in Int /\ g[x] \in Int /\ k * f[x] - g[x] \in -b..b
  PROVE  LET d == k * SumFunctionOnSet(f, S) - SumFunctionOnSet(g, S)
         IN  -(Cardinality(S) * b) <= d /\ d <= Cardinality(S) * b
<1> DEFINE D(T) == k * SumFunctionOnSet(f, T) - SumFunctionOnSet(g, T)
           B(T) == Cardinality(T) * b
           Good == {T \in SUBSET S : -B(T) <= D(T) /\ D(T) <= B(T)}
<1>1. {} \in Good
  BY SumEmpty, FS_EmptySet
<1>2. ASSUME NEW T \in SUBSET S, T \in Good, NEW x \in S \ T PROVE T \cup {x} \in Good
  <2>1. PICK F \in Int : F = SumFunctionOnSet(f, T) /\ SumFunctionOnSet(f, T \cup {x}) = f[x] + F
    BY SumAdds
  <2>2. PICK G \in Int : G = SumFunctionOnSet(g, T) /\ SumFunctionOnSet(g, T \cup {x}) = g[x] + G
    BY SumAdds
  <2>3. IsFiniteSet(T) /\ Cardinality(T) \in Nat /\ Cardinality(T \cup {x}) = Cardinality(T) + 1
    BY FS_Subset, FS_AddElement, FS_CardinalityType
  <2>4. B(T \cup {x}) = B(T) + b /\ B(T) \in Nat
    BY <2>3
  <2>5. k * (f[x] + F) = k * f[x] + k * F /\ k * F \in Int /\ k * f[x] \in Int
    BY <2>1
  <2>6. D(T \cup {x}) = k * f[x] + k * F - (g[x] + G) /\ D(T) = k * F - G
    BY <2>1, <2>2, <2>5
  <2>7. PICK e \in Int : e = k * f[x] - g[x] /\ -b <= e /\ e <= b
    BY <2>5
  <2>8. D(T \cup {x}) = D(T) + e /\ D(T) \in Int
    BY <2>2, <2>5, <2>6, <2>7
  <2>9. -B(T) <= D(T) /\ D(T) <= B(T)
    BY <1>2
  <2> HIDE DEF D, B
  <2>10. -B(T \cup {x}) <= D(T \cup {x}) /\ D(T \cup {x}) <= B(T \cup {x})
    BY <2>4, <2>7, <2>8, <2>9
  <2> QED
    BY <2>10
<1>3. S \in Good
  <2> HIDE DEF Good
  <2> QED
    BY <1>1, <1>2, SubsetInduction
<1> QED
  BY <1>3

-----------------------------------------------------------------------------
(* Rounding: half a unit at most is gained or lost. *)

LEMMA Quotient ==
  ASSUME NEW a \in Int, NEW d \in Nat \ {0}
  PROVE  a \div d \in Int /\ d * (a \div d) <= a /\ a < d * (a \div d) + d
BY Z3

\* A quotient is the one number that lies there.
LEMMA Bounded ==
  ASSUME NEW s \in Nat \ {0}, NEW x \in Int, NEW k \in Int, s * x < s * (k + 1)
  PROVE  x <= k
<1> SUFFICES ASSUME x >= k + 1 PROVE FALSE
  OBVIOUS
<1>1. PICK e \in Nat : x = k + 1 + e
  <2>1. x - (k + 1) \in Nat /\ x = k + 1 + (x - (k + 1))
    OBVIOUS
  <2> QED
    BY <2>1
<1>2. s * x = s * (k + 1) + s * e /\ s * e \in Nat /\ s * (k + 1) \in Int
  BY <1>1
<1> QED
  BY <1>2

LEMMA ExactQuotient ==
  ASSUME NEW d \in Nat \ {0}, NEW m \in Int
  PROVE  (d * m) \div d = m
<1>1. PICK a \in Int : a = d * m
  OBVIOUS
<1>2. PICK x \in Int : x = a \div d /\ d * x <= a /\ a < d * x + d
  BY Quotient
<1>3. d * x < d * (m + 1)
  <2>1. d * (m + 1) = a + d
    BY <1>1
  <2> QED
    BY <1>1, <1>2, <2>1
<1>4. d * m < d * (x + 1)
  <2>1. d * (x + 1) = d * x + d /\ d * x \in Int
    BY <1>2
  <2> QED
    BY <1>1, <1>2, <2>1
<1>5. x <= m /\ m <= x
  BY <1>3, <1>4, Bounded
<1> QED
  BY <1>1, <1>2, <1>5

LEMMA ByOneAtMost ==
  ASSUME NEW s \in Nat \ {0}, NEW x \in Int, s * x <= s, -s <= s * x
  PROVE  x <= 1 /\ -x <= 1
<1>1. s * x < s * (1 + 1)
  OBVIOUS
<1>2. s * (-x) < s * (1 + 1) /\ -x \in Int
  OBVIOUS
<1> QED
  BY <1>1, <1>2, Bounded

LEMMA Rounds ==
  ASSUME NEW n \in Int, NEW scale \in Nat \ {0}
  PROVE  LET r == roundMoney(n, scale)
         IN  /\ r \in Int
             /\ 2 * (scale * r) - 2 * n \in -scale .. scale
             /\ n >= 0 => r >= 0
<1> DEFINE m == IF n >= 0 THEN n ELSE -n
           q == (2 * m + scale) \div (2 * scale)
<1>1. m \in Nat /\ 2 * m + scale \in Int /\ 2 * scale \in Nat \ {0}
  OBVIOUS
<1>2. q \in Int /\ (2 * scale) * q <= 2 * m + scale /\ 2 * m + scale < (2 * scale) * q + 2 * scale
  <2> HIDE DEF m
  <2> QED
    BY <1>1, Quotient
<1> HIDE DEF q
<1>3. PICK t \in Int : t = scale * q /\ (2 * scale) * q = 2 * t
  BY <1>2
<1>4. 2 * t <= 2 * m + scale /\ 2 * m - scale < 2 * t
  BY <1>1, <1>2, <1>3
<1>5. q >= 0
  <2> SUFFICES ASSUME q <= -1 PROVE FALSE
    BY <1>2
  <2>1. scale * q <= scale * (-1)
    BY <1>2
  <2>2. t <= -scale
    BY <1>3, <2>1
  <2> QED
    BY <1>1, <1>4, <2>2
<1>6. CASE n >= 0
  <2>1. roundMoney(n, scale) = q
    BY <1>6 DEF roundMoney, q, m
  <2> QED
    BY <1>2, <1>3, <1>4, <1>5, <1>6, <2>1
<1>7. CASE n < 0
  <2>1. roundMoney(n, scale) = -q
    BY <1>7 DEF roundMoney, q, m
  <2>2. scale * (-q) = -t
    BY <1>2, <1>3
  <2> QED
    BY <1>2, <1>3, <1>4, <1>7, <2>1, <2>2
<1> QED
  BY <1>6, <1>7

\* What the figures of a line add up to, when all three are rounded.
LEMMA ThreeRounded ==
  ASSUME NEW a \in Int, NEW b \in Int, NEW gross \in Int, NEW unit \in Nat \ {0}, NEW fine \in Nat \ {0},
         NEW scale \in Nat \ {0}, scale = unit * fine, a + b = gross * unit
  PROVE  Apart(roundMoney(a, scale) + roundMoney(b, scale), roundMoney(gross, fine)) <= 1
<1> DEFINE r == roundMoney(a, scale)
           q == roundMoney(b, scale)
           t == roundMoney(gross, fine)
<1>1. r \in Int /\ 2 * (scale * r) - 2 * a \in -scale .. scale
  BY Rounds
<1>2. q \in Int /\ 2 * (scale * q) - 2 * b \in -scale .. scale
  BY Rounds
<1>3. t \in Int /\ 2 * (fine * t) - 2 * gross \in -fine .. fine
  BY Rounds
<1> HIDE DEF r, q, t
<1>4. PICK e \in Int : e = 2 * (fine * t) - 2 * gross /\ -fine <= e /\ e <= fine
  <2>1. PICK n \in Int : n = fine * t
    BY <1>3
  <2> DEFINE d == 2 * n - 2 * gross
  <2>2. d \in Int /\ d \in -fine .. fine
    BY <1>3, <2>1
  <2>3. -fine <= d /\ d <= fine
    BY <2>2
  <2>4. d = 2 * (fine * t) - 2 * gross
    BY <2>1
  <2> HIDE DEF d
  <2> QED
    BY <2>2, <2>3, <2>4
<1>5. unit * e <= scale /\ -scale <= unit * e /\ unit * e \in Int
  <2>1. PICK f \in Nat, g \in Nat : fine = e + f /\ fine = g - e
    <3>1. fine - e \in Nat /\ fine + e \in Nat /\ fine = e + (fine - e) /\ fine = (fine + e) - e
      BY <1>4
    <3> QED
      BY <3>1
  <2>2. unit * fine = unit * e + unit * f /\ unit * f \in Nat /\ unit * e \in Int
    BY <2>1
  <2>3. unit * fine = unit * g - unit * e /\ unit * g \in Nat
    BY <2>1
  <2> QED
    BY <2>2, <2>3
<1>6. unit * e = 2 * (scale * t) - 2 * (a + b) /\ scale * t \in Int
  <2>1. PICK n \in Int : n = fine * t
    BY <1>3
  <2>2. scale * t = unit * n
    BY <1>3, <2>1
  <2>3. unit * (2 * n - 2 * gross) = 2 * (unit * n) - 2 * (gross * unit)
    BY <2>1
  <2> QED
    BY <1>3, <1>4, <2>1, <2>2, <2>3
<1>7. PICK x \in Int : x = r + q - t
  BY <1>1, <1>2, <1>3
<1>8. scale * x = scale * r + scale * q - scale * t /\ scale * r \in Int /\ scale * q \in Int
  BY <1>1, <1>2, <1>3, <1>7
<1>9. scale * (2 * x) = 2 * (scale * x) /\ scale * (2 * (-x)) = -(2 * (scale * x)) /\ scale * x \in Int
      /\ scale * (3 + 1) = 4 * scale
  OBVIOUS
<1>10. scale * (2 * x) < scale * (3 + 1) /\ scale * (2 * (-x)) < scale * (3 + 1)
  BY <1>1, <1>2, <1>5, <1>6, <1>8, <1>9
<1>11. 2 * x <= 3 /\ 2 * (-x) <= 3
  <2>1. 2 * x \in Int /\ 2 * (-x) \in Int
    OBVIOUS
  <2> QED
    BY <1>10, <2>1, Bounded
<1>12. Apart(r + q, t) <= 1
  BY <1>1, <1>2, <1>3, <1>7, <1>11 DEF Apart
<1> QED
  BY <1>12 DEF r, q, t

\* The same of an amount and the tax added to it, which is not less than it was.
LEMMA AddedTax ==
  ASSUME NEW charge \in Nat, NEW tax \in Nat, NEW scale \in Nat \ {0}
  PROVE  /\ Apart(charge + roundMoney(tax, scale), roundMoney(charge * scale + tax, scale)) <= 1
         /\ roundMoney(charge * scale + tax, scale) \in Int
         /\ roundMoney(charge * scale + tax, scale) >= charge
<1> DEFINE r == roundMoney(tax, scale)
           q == roundMoney(charge * scale + tax, scale)
<1>1. r \in Int /\ 2 * (scale * r) - 2 * tax \in -scale .. scale
  BY Rounds
<1>2. q \in Int /\ 2 * (scale * q) - 2 * (charge * scale + tax) \in -scale .. scale
  BY Rounds
<1> HIDE DEF r, q
<1>3. PICK x \in Int : x = charge + r - q
  BY <1>1, <1>2
<1>4. scale * x = charge * scale + scale * r - scale * q
  BY <1>1, <1>2, <1>3
<1>5. {scale * r, scale * q, scale * x, charge * scale} \subseteq Int
  BY <1>1, <1>2
<1>6. scale * x <= scale /\ -scale <= scale * x
  BY <1>1, <1>2, <1>4, <1>5
<1>7. x <= 1 /\ -x <= 1
  BY <1>6, ByOneAtMost
<1>8. Apart(charge + r, q) <= 1
  BY <1>1, <1>2, <1>3, <1>7 DEF Apart
<1>9. scale * (charge - q) < scale * (0 + 1)
  <2>1. scale * (charge - q) = charge * scale - scale * q /\ scale * (0 + 1) = scale
    BY <1>2
  <2> QED
    BY <1>2, <1>5, <2>1
<1>10. q >= charge
  <2>1. charge - q \in Int
    BY <1>2
  <2>2. charge - q <= 0
    BY <1>9, <2>1, Bounded
  <2> QED
    BY <1>2, <2>2
<1> QED
  BY <1>2, <1>8, <1>10 DEF r, q

LEMMA SumRounded ==
  ASSUME NEW S, IsFiniteSet(S), NEW amounts \in [S -> Int], NEW scale \in Nat \ {0}
  PROVE  Apart(SumFunction([c \in S |-> roundMoney(amounts[c], scale)]), roundMoney(SumFunction(amounts), scale))
           <= Cardinality(S)
<1> DEFINE rounded == [c \in S |-> roundMoney(amounts[c], scale)]
           twice == [c \in S |-> 2 * amounts[c]]
<1>1. /\ SumFunction(rounded) = SumFunctionOnSet(rounded, S)
      /\ SumFunction(amounts) = SumFunctionOnSet(amounts, S)
  BY DEF SumFunction
<1>2. \A c \in S : /\ rounded[c] \in Int /\ 2 * (scale * rounded[c]) - 2 * amounts[c] \in -scale .. scale
                   /\ amounts[c] \in Int
  BY Rounds
<1>3. \A c \in S : twice[c] = 2 * amounts[c]
  OBVIOUS
<1> HIDE DEF rounded, twice
<1>4. \A c \in S : rounded[c] \in Int /\ twice[c] \in Int /\ (2 * scale) * rounded[c] - twice[c] \in -scale .. scale
  <2> SUFFICES ASSUME NEW c \in S
               PROVE  rounded[c] \in Int /\ twice[c] \in Int /\ (2 * scale) * rounded[c] - twice[c] \in -scale .. scale
    OBVIOUS
  <2>1. (2 * scale) * rounded[c] = 2 * (scale * rounded[c])
    BY <1>2
  <2> QED
    BY <1>2, <1>3, <2>1
<1>5. PICK R \in Int, A \in Int : R = SumFunctionOnSet(rounded, S) /\ A = SumFunctionOnSet(amounts, S)
  BY <1>2, SumInt
<1>6. SumFunctionOnSet(twice, S) = 2 * A
  <2>1. \A c \in S : amounts[c] \in Int
    OBVIOUS
  <2>2. SumFunctionOnSet(twice, S) = 2 * SumFunctionOnSet(amounts, S)
    BY <1>3, <2>1, SumScales
  <2> QED
    BY <1>5, <2>2
<1>7. PICK n \in Nat : n = Cardinality(S)
  BY FS_CardinalityType
<1>8. -(n * scale) <= (2 * scale) * R - 2 * A /\ (2 * scale) * R - 2 * A <= n * scale
  <2>1. 2 * scale \in Int /\ scale \in Nat
    OBVIOUS
  <2>2. LET d == (2 * scale) * SumFunctionOnSet(rounded, S) - SumFunctionOnSet(twice, S)
        IN  -(Cardinality(S) * scale) <= d /\ d <= Cardinality(S) * scale
    BY <1>4, <2>1, SumOfErrors
  <2> QED
    BY <1>5, <1>6, <1>7, <2>2
<1>9. PICK q \in Int : q = roundMoney(A, scale) /\ 2 * (scale * q) - 2 * A \in -scale .. scale
  BY Rounds
<1>10. PICK x \in Int : x = R - q
  OBVIOUS
<1>11. scale * (2 * x) = (2 * scale) * R - 2 * (scale * q) /\ scale * q \in Int /\ (2 * scale) * R \in Int
       /\ n * scale \in Int
  BY <1>10
<1>12. scale * (n + 1 + 1) = n * scale + 2 * scale
  OBVIOUS
<1>13. scale * (2 * x) < scale * (n + 1 + 1) /\ scale * (2 * (-x)) < scale * (n + 1 + 1)
  <2>1. scale * (2 * (-x)) = -(scale * (2 * x)) /\ scale * (2 * x) \in Int
    OBVIOUS
  <2> QED
    BY <1>8, <1>9, <1>11, <1>12, <2>1
<1>14. 2 * x <= n + 1 /\ 2 * (-x) <= n + 1
  <2>1. 2 * x \in Int /\ 2 * (-x) \in Int /\ n + 1 \in Int
    OBVIOUS
  <2> QED
    BY <1>13, <2>1, Bounded
<1>15. x <= n /\ -x <= n
  BY <1>14
<1>16. Apart(R, q) <= n
  BY <1>10, <1>15 DEF Apart
<1> QED
  BY <1>1, <1>5, <1>7, <1>9, <1>16 DEF rounded

-----------------------------------------------------------------------------
(* The rules, and the tax on a line. *)

Configured == {c \in Code : taxRules[c] # None}

TaxIInv == TaxTypeOK /\ IsFiniteSet(Configured) /\ IsFiniteSet(deliveryRules)

LEMMA TaxInitIInv == TaxInit => TaxIInv
<1> SUFFICES ASSUME TaxInit PROVE TaxIInv
  OBVIOUS
<1>1. Configured = {} /\ deliveryRules = {}
  BY DEF TaxInit, Configured
<1> QED
  BY <1>1, FS_EmptySet DEF TaxInit, TaxIInv, TaxTypeOK

\* A rule is written.
LEMMA TaxRuleWritten ==
  ASSUME TaxIInv, NEW c \in Code, NEW rule \in TaxRule, taxRules' = [taxRules EXCEPT ![c] = rule], UNCHANGED deliveryRules
  PROVE  TaxIInv'
<1>1. TaxTypeOK'
  BY DEF TaxIInv, TaxTypeOK
<1>2. Configured' \subseteq Configured \cup {c}
  BY DEF TaxIInv, TaxTypeOK, Configured
<1>3. IsFiniteSet(Configured')
  BY <1>2, FS_Subset, FS_AddElement DEF TaxIInv
<1> QED
  BY <1>1, <1>3 DEF TaxIInv

LEMMA CreateDeliveryRuleStep ==
  ASSUME TaxIInv, NEW input \in DeliveryRuleInput, CreateDeliveryRule(input)
  PROVE  TaxIInv'
<1>1. input \in DeliveryRule
  BY FS_CardinalityType DEF TaxIInv, DeliveryRuleInput, DeliveryRule, DeliveryRuleOf
<1>2. deliveryRules' = deliveryRules \cup {input} /\ taxRules' = taxRules
  BY DEF CreateDeliveryRule
<1>3. IsFiniteSet(deliveryRules')
  BY <1>2, FS_AddElement DEF TaxIInv
<1> QED
  BY <1>1, <1>2, <1>3 DEF TaxIInv, TaxTypeOK, Configured

LEMMA TaxInvariance == TaxSpec => []TaxIInv
<1>1. ASSUME TaxIInv, NEW c \in Code, NEW input \in TaxRuleInput, CreateTaxRule(c, input) PROVE TaxIInv'
  BY <1>1, TaxRuleWritten DEF CreateTaxRule, TaxRuleInput
<1>2. ASSUME TaxIInv, NEW c \in Code, UpdateTaxRule(c) PROVE TaxIInv'
  <2>1. taxRules[c] \in TaxRule /\ taxRules \in [Code -> TaxRule \cup {None}]
    BY <1>2 DEF UpdateTaxRule, TaxIInv, TaxTypeOK
  <2>2. PICK rule \in TaxRule : taxRules' = [taxRules EXCEPT ![c] = rule]
    <3>1. CASE taxRules' = [taxRules EXCEPT ![c].inclusive = ~@]
      <4>1. [taxRules[c] EXCEPT !.inclusive = ~@] \in TaxRule
        BY <2>1 DEF TaxRule
      <4> QED
        BY <3>1, <4>1
    <3>2. CASE taxRules' = [taxRules EXCEPT ![c].active = ~@]
      <4>1. [taxRules[c] EXCEPT !.active = ~@] \in TaxRule
        BY <2>1 DEF TaxRule
      <4> QED
        BY <3>2, <4>1
    <3>3. ASSUME NEW r \in Percent \cup PerUnit, taxRules' = [taxRules EXCEPT ![c].rate = r]
          PROVE  \E rule \in TaxRule : taxRules' = [taxRules EXCEPT ![c] = rule]
      <4>1. [taxRules[c] EXCEPT !.rate = r] \in TaxRule
        BY <2>1 DEF TaxRule
      <4> QED
        BY <3>3, <4>1
    <3>4. ASSUME NEW s \in State \cup {None}, taxRules' = [taxRules EXCEPT ![c].state = s]
          PROVE  \E rule \in TaxRule : taxRules' = [taxRules EXCEPT ![c] = rule]
      <4>1. [taxRules[c] EXCEPT !.state = s] \in TaxRule
        BY <2>1 DEF TaxRule
      <4> QED
        BY <3>4, <4>1
    <3> QED
      BY <1>2, <3>1, <3>2, <3>3, <3>4 DEF UpdateTaxRule
  <2>3. UNCHANGED deliveryRules
    BY <1>2 DEF UpdateTaxRule
  <2> QED
    BY <1>2, <2>2, <2>3, TaxRuleWritten
<1>3. TaxIInv /\ TaxNext => TaxIInv'
  BY <1>1, <1>2, CreateDeliveryRuleStep DEF TaxNext
<1>4. TaxIInv /\ UNCHANGED taxation => TaxIInv'
  BY DEF TaxIInv, taxation, TaxTypeOK, Configured
<1> QED
  BY TaxInitIInv, <1>3, <1>4, PTL DEF TaxSpec

\* The first rule of a line.
LEMMA LeastCode ==
  ASSUME NEW rules \in SUBSET Code, rules # {}
  PROVE  Min(rules) \in rules
<1>1. rules \subseteq Nat
  BY Rates
<1>2. PICK least \in rules : \A c \in rules : ~ <<c, least>> \in OpToRel(<, Nat)
  BY <1>1, NatLessThanWellFounded, WFMin
<1>3. \A c \in rules : least <= c
  <2> SUFFICES ASSUME NEW c \in rules, c < least PROVE FALSE
    BY <1>1
  <2>1. <<c, least>> \in OpToRel(<, Nat)
    BY <1>1 DEF OpToRel
  <2> QED
    BY <1>2, <2>1
<1> QED
  BY <1>3 DEF Min

\* What a line's scale is to a Fine-th of a paisa.
Unit(rules) ==
  IF rules # {} /\ taxRules[Min(rules)].inclusive
  THEN Whole * (Whole + RateSum(rules \ {c \in rules : taxRules[c].type = "PER_UNIT"}))
  ELSE Whole

\* The tax on a line is a sum of whole numerators, one for each rule.
LEMMA LineTax ==
  ASSUME TaxIInv, NEW rules \in SUBSET Configured, NEW amount \in Nat, NEW litres \in Nat
  PROVE  LET computed == computeLineTax(amount, litres, rules)
         IN  /\ IsFiniteSet(rules) /\ \A c \in rules : taxRules[c] \in TaxRule /\ taxRules[c].rate \in Nat
             /\ Unit(rules) \in Nat \ {0} /\ computed.scale \in Nat \ {0}
             /\ computed.scale = Unit(rules) * Fine
             /\ computed.amounts \in [rules -> Nat]
             /\ computed.tax = SumFunction(computed.amounts) /\ computed.tax \in Nat
             /\ computed.taxable \in Int
             /\ (\A c \in rules : ~ taxRules[c].inclusive) \/ rules = {} =>
                  computed.taxable = amount * Unit(rules)
<1> DEFINE perUnit   == {c \in rules : taxRules[c].type = "PER_UNIT"}
           percent   == rules \ perUnit
           combined  == RateSum(percent)
           inclusive == rules # {} /\ taxRules[Min(rules)].inclusive
           scale     == IF inclusive THEN Whole * (Whole + combined) ELSE Whole
           duty(c)   == litres * taxRules[c].rate * scale
           duties    == SumFunction([c \in perUnit |-> duty(c)])
           base      == IF inclusive THEN amount * Whole * Whole ELSE amount * scale + duties
           amounts   == [c \in rules |-> IF c \in perUnit THEN duty(c) ELSE percentOf(base, taxRules[c].rate)]
<1>1. computeLineTax(amount, litres, rules) =
        [scale |-> scale * Fine, amounts |-> amounts,
         taxable |-> IF inclusive THEN base - duties ELSE amount * scale,
         tax |-> SumFunction(amounts)]
  BY DEF computeLineTax
<1>2. IsFiniteSet(rules) /\ IsFiniteSet(perUnit) /\ IsFiniteSet(percent)
  BY FS_Subset DEF TaxIInv
<1>3. \A c \in rules : taxRules[c] \in TaxRule /\ taxRules[c].rate \in Nat
  <2>1. \A rule \in TaxRule : rule.rate \in Nat
    <3>1. Percent \cup PerUnit \subseteq Nat
      BY Rates
    <3> QED
      BY <3>1 DEF TaxRule
  <2>2. \A c \in rules : taxRules[c] \in TaxRule
    BY DEF TaxIInv, TaxTypeOK, Configured
  <2> QED
    BY <2>1, <2>2
<1>4. combined \in Nat
  <2>1. \A c \in percent : [d \in percent |-> taxRules[d].rate][c] \in Nat
    BY <1>3
  <2> QED
    BY <1>2, <2>1, SumNat DEF RateSum, SumFunction
<1>0. Unit(rules) = scale
  BY DEF Unit
<1> HIDE DEF combined, inclusive
<1>5. scale \in Nat \ {0} /\ scale * Fine \in Nat \ {0}
  <2>1. \A m, n \in Nat \ {0} : m * n \in Nat \ {0}
    OBVIOUS
  <2>2. Whole \in Nat \ {0} /\ Fine \in Nat \ {0} /\ Whole + combined \in Nat \ {0}
    BY <1>4, Scales
  <2>3. scale \in Nat \ {0}
    BY <2>1, <2>2
  <2> QED
    BY <2>1, <2>2, <2>3
<1> HIDE DEF scale
<1>6. \A c \in rules : duty(c) \in Nat
  BY <1>3, <1>5
<1>7. duties \in Nat
  <2>1. \A c \in perUnit : [d \in perUnit |-> duty(d)][c] \in Nat
    BY <1>6
  <2> HIDE DEF duty
  <2> QED
    BY <1>2, <2>1, SumNat DEF SumFunction
<1> HIDE DEF duties
<1>8. base \in Nat
  BY <1>5, <1>7, Scales
<1> HIDE DEF base
<1>9. \A c \in rules : percentOf(base, taxRules[c].rate) \in Nat
  <2> SUFFICES ASSUME NEW c \in rules PROVE percentOf(base, taxRules[c].rate) \in Nat
    OBVIOUS
  <2>1. PICK n \in Nat : n = base * taxRules[c].rate
    BY <1>3, <1>8
  <2>2. n \div Whole \in Int /\ n < Whole * (n \div Whole) + Whole
    BY Scales, Quotient
  <2>3. n \div Whole >= 0
    BY Scales, <2>1
  <2> QED
    BY <2>1, <2>2, <2>3 DEF percentOf
<1>10. amounts \in [rules -> Nat]
  BY <1>6, <1>9
<1> HIDE DEF amounts
<1>11. SumFunction(amounts) \in Nat
  BY <1>2, <1>10, SumNat DEF SumFunction
<1>12. (\A c \in rules : ~ taxRules[c].inclusive) \/ rules = {} => ~ inclusive
  <2>1. rules # {} => Min(rules) \in rules
    BY LeastCode DEF Configured
  <2> QED
    BY <2>1 DEF inclusive
<1>13. amount * scale \in Nat /\ base - duties \in Int
  BY <1>5, <1>7, <1>8
<1> QED
  BY <1>0, <1>1, <1>2, <1>3, <1>5, <1>10, <1>11, <1>12, <1>13

\* Tax taken out of an amount and what is left of it make up the amount, before
\* anything is rounded: the percentages of the net amount come out whole.
LEMMA InclusiveTax ==
  ASSUME TaxIInv, NEW rules \in SUBSET Configured, NEW amount \in Nat, NEW litres \in Nat,
         rules # {}, \A c \in rules : taxRules[c].inclusive
  PROVE  LET computed == computeLineTax(amount, litres, rules)
         IN  computed.taxable + computed.tax = amount * Unit(rules)
<1> DEFINE perUnit   == {c \in rules : taxRules[c].type = "PER_UNIT"}
           percent   == rules \ perUnit
           rates     == [c \in percent |-> taxRules[c].rate]
           combined  == SumFunctionOnSet(rates, percent)
           scale     == Whole * (Whole + combined)
           duty(c)   == litres * taxRules[c].rate * scale
           duties    == SumFunctionOnSet([c \in perUnit |-> duty(c)], perUnit)
           base      == amount * Whole * Whole
           amounts   == [c \in rules |-> IF c \in perUnit THEN duty(c) ELSE percentOf(base, taxRules[c].rate)]
           computed  == computeLineTax(amount, litres, rules)
<1>1. rules # {} /\ taxRules[Min(rules)].inclusive
  BY LeastCode DEF Configured
<1>2. /\ Unit(rules) = scale /\ computed.taxable = base - duties
      /\ computed.tax = SumFunctionOnSet(amounts, rules)
  BY <1>1 DEF computeLineTax, Unit, RateSum, SumFunction
<1> HIDE DEF computed
<1>3. IsFiniteSet(rules) /\ \A c \in rules : taxRules[c] \in TaxRule /\ taxRules[c].rate \in Nat
  BY LineTax
<1>4. IsFiniteSet(perUnit) /\ IsFiniteSet(percent) /\ perUnit \in SUBSET rules /\ percent = rules \ perUnit
  BY <1>3, FS_Subset
<1>5. (\A c \in percent : rates[c] = taxRules[c].rate) /\ \A c \in percent : rates[c] \in Int
  BY <1>3
<1>6. combined \in Nat
  <2>1. \A c \in percent : rates[c] \in Nat
    BY <1>3
  <2> HIDE DEF rates, percent
  <2> QED
    BY <1>4, <2>1, SumNat
<1>7. scale \in Nat
  BY <1>6, Scales
<1>8. \A c \in rules : duty(c) \in Nat
  <2> HIDE DEF scale
  <2> QED
    BY <1>3, <1>7
<1>9. \A c \in percent : amounts[c] = (amount * Whole) * rates[c] /\ amounts[c] \in Int
  <2> SUFFICES ASSUME NEW c \in percent PROVE amounts[c] = (amount * Whole) * rates[c] /\ amounts[c] \in Int
    OBVIOUS
  <2>1. PICK n \in Nat : n = amount * taxRules[c].rate
    BY <1>3
  <2>2. base * taxRules[c].rate = Whole * (Whole * n)
    BY <1>3, <2>1, Scales
  <2>3. (Whole * (Whole * n)) \div Whole = Whole * n
    BY Scales, ExactQuotient
  <2>4. amounts[c] = Whole * n
    BY <2>2, <2>3 DEF percentOf
  <2>5. (amount * Whole) * taxRules[c].rate = Whole * n /\ Whole * n \in Int
    BY <1>3, <2>1, Scales
  <2> QED
    BY <1>5, <2>4, <2>5
<1>10. \A c \in perUnit : amounts[c] = duty(c) /\ amounts[c] \in Int
  BY <1>8
<1>11. \A c \in rules : amounts[c] \in Int
  BY <1>9, <1>10
<1>12. SumFunctionOnSet(amounts, perUnit) = duties /\ duties \in Int
  <2> DEFINE owed == [c \in perUnit |-> duty(c)]
  <2>1. \A c \in perUnit : owed[c] \in Int
    BY <1>8
  <2>2. \A c \in perUnit : amounts[c] = 1 * owed[c]
    BY <1>8, <1>10
  <2> HIDE DEF owed, amounts, perUnit, duty
  <2>3. SumFunctionOnSet(amounts, perUnit) = 1 * SumFunctionOnSet(owed, perUnit)
    BY <1>4, <2>1, <2>2, SumScales
  <2>4. SumFunctionOnSet(owed, perUnit) \in Int
    BY <1>4, <2>1, SumInt
  <2> QED
    BY <2>3, <2>4 DEF owed
<1>13. SumFunctionOnSet(amounts, percent) = (amount * Whole) * combined
  <2>1. amount * Whole \in Int
    BY Scales
  <2> HIDE DEF amounts, percent, rates
  <2> QED
    BY <1>4, <1>5, <1>9, <2>1, SumScales
<1>14. SumFunctionOnSet(amounts, rules) = SumFunctionOnSet(amounts, perUnit) + SumFunctionOnSet(amounts, percent)
  <2> HIDE DEF amounts, perUnit
  <2> QED
    BY <1>3, <1>4, <1>11, SumSplits
<1> HIDE DEF duties, amounts, combined
<1>15. PICK n \in Int : n = amount * Whole
  BY Scales
<1>16. amount * scale = n * Whole + n * combined /\ n * Whole \in Int /\ n * combined \in Int
  BY <1>6, <1>15, Scales
<1>17. base = n * Whole
  BY <1>15, Scales
<1>18. computed.taxable + computed.tax = amount * Unit(rules)
  BY <1>2, <1>12, <1>13, <1>14, <1>15, <1>16, <1>17
<1> QED
  BY <1>18 DEF computed

\* The charge an order pays is a whole amount when there is one.
LEMMA ChargeIsWhole ==
  ASSUME TaxIInv, NEW city, NEW pin, NEW litres \in Nat, NEW amount \in Nat
  PROVE  LET charge == resolveDeliveryCharge(findApplicableDeliveryRule(city, pin, litres), litres, amount)
         IN  charge # None => charge \in Nat
<1> DEFINE rules  == {r \in deliveryRules : /\ r.minQuantity <= litres
                                            /\ r.maxQuantity = None \/ r.maxQuantity >= litres}
           byPin  == {r \in rules : r.pin = pin}
           byCity == {r \in rules : r.pin = None /\ r.city = city}
           rest   == {r \in rules : r.pin = None /\ r.city = None}
           found  == IF byPin # {} THEN byPin ELSE IF byCity # {} THEN byCity ELSE rest
           rule   == IF found = {} THEN None ELSE CHOOSE r \in found : \A s \in found : r.priority <= s.priority
           first(r) == \A s \in found : r.priority <= s.priority
<1>1. findApplicableDeliveryRule(city, pin, litres) = rule
  BY DEF findApplicableDeliveryRule
<1>2. found \subseteq deliveryRules
  OBVIOUS
<1>3. \A r \in found : r \in DeliveryRule
  BY <1>2 DEF TaxIInv, TaxTypeOK
<1> HIDE DEF found
<1>4. found # {} => \E r \in found : first(r)
  <2> SUFFICES ASSUME found # {} PROVE \E r \in found : first(r)
    OBVIOUS
  <2> DEFINE ranks == {r.priority : r \in found}
  <2>1. ranks # {} /\ ranks \subseteq Nat
    BY <1>3 DEF DeliveryRule, DeliveryRuleOf
  <2> HIDE DEF ranks
  <2>2. PICK n \in ranks : \A m \in ranks : ~ <<m, n>> \in OpToRel(<, Nat)
    BY <2>1, NatLessThanWellFounded, WFMin
  <2>3. \A m \in ranks : n <= m
    <3> SUFFICES ASSUME NEW m \in ranks, m < n PROVE FALSE
      BY <2>1
    <3>1. <<m, n>> \in OpToRel(<, Nat)
      BY <2>1 DEF OpToRel
    <3> QED
      BY <2>2, <3>1
  <2> QED
    BY <2>2, <2>3 DEF ranks
<1>5. rule # None => rule \in DeliveryRule
  BY <1>3, <1>4
<1> HIDE DEF rule
<1>6. \A r \in DeliveryRule : r.charge \in Nat
  BY Figures DEF DeliveryRule, DeliveryRuleOf
<1> QED
  BY <1>1, <1>5, <1>6 DEF resolveDeliveryCharge

LEMMA LinesBalance ==
  ASSUME TaxIInv, InclusivityAsSold, NEW q \in Nat, NEW p \in Nat, NEW charge \in Nat, NEW s
  PROVE  QuoteBalances(calculateQuoteBreakdown(q, p, charge, s), q * p, charge)
<1> DEFINE fuelRules     == rulesFor(s, "FUEL")
           chargeRules   == rulesFor(s, "DELIVERY")
           gross    == q * p
           fuel     == computeLineTax(gross, q, fuelRules)
           net      == charge * Fine
           delivery == computeLineTax(net, q, chargeRules)
           sold     == roundMoney(gross, Fine)
           billed   == roundMoney(charge * delivery.scale + delivery.tax, delivery.scale)
           fuelLine == Line("FUEL", fuel, roundMoney(fuel.taxable, fuel.scale), sold)
           deliveryLine == Line("DELIVERY", delivery, charge, billed)
           quote    == calculateQuoteBreakdown(q, p, charge, s)
<1>1. /\ quote.fuel = fuelLine /\ quote.delivery = deliveryLine
      /\ quote.total = fuelLine.total + deliveryLine.total
  BY DEF calculateQuoteBreakdown
<1>2. /\ fuelRules \in SUBSET Configured /\ chargeRules \in SUBSET Configured
      /\ \A c \in fuelRules : taxRules[c].inclusive
      /\ \A c \in chargeRules : ~ taxRules[c].inclusive
  <2>1. /\ \A c \in fuelRules : c \in Configured /\ taxRules[c].appliesTo = "FUEL"
        /\ \A c \in chargeRules : c \in Configured /\ taxRules[c].appliesTo = "DELIVERY"
    BY DEF rulesFor, findActiveTaxRules, Configured
  <2>2. \A c \in Configured : taxRules[c].inclusive <=> taxRules[c].appliesTo = "FUEL"
    BY DEF InclusivityAsSold, Configured
  <2> QED
    BY <2>1, <2>2
<1>3. gross \in Nat /\ net \in Nat
  BY Scales
<1> HIDE DEF fuelRules, chargeRules, gross, net, quote
<1>4. /\ IsFiniteSet(fuelRules) /\ fuel.scale \in Nat \ {0} /\ fuel.amounts \in [fuelRules -> Nat]
      /\ fuel.tax = SumFunction(fuel.amounts) /\ fuel.tax \in Nat /\ fuel.taxable \in Int
      /\ fuelRules = {} => fuel.taxable = gross * Unit(fuelRules)
      /\ Unit(fuelRules) \in Nat \ {0} /\ fuel.scale = Unit(fuelRules) * Fine
  BY <1>2, <1>3, LineTax
<1>5. /\ IsFiniteSet(chargeRules) /\ delivery.scale \in Nat \ {0} /\ delivery.amounts \in [chargeRules -> Nat]
      /\ delivery.tax = SumFunction(delivery.amounts) /\ delivery.tax \in Nat
  BY <1>2, <1>3, LineTax
<1>6. fuel.taxable + fuel.tax = gross * Unit(fuelRules)
  <2>1. CASE fuelRules = {}
    <3>1. fuel.tax = 0
      BY <1>4, <2>1, SumEmpty DEF SumFunction
    <3> QED
      BY <1>3, <1>4, <2>1, <3>1
  <2>2. CASE fuelRules # {}
    BY <1>2, <1>3, <2>2, InclusiveTax
  <2> QED
    BY <2>1, <2>2
<1> HIDE DEF fuel, delivery
<1>7. LineBalances(fuelLine)
  <2>1. /\ fuelLine.taxable = roundMoney(fuel.taxable, fuel.scale) /\ fuelLine.tax = roundMoney(fuel.tax, fuel.scale)
        /\ fuelLine.total = sold
    BY DEF Line
  <2>2. fuel.taxable \in Int /\ fuel.tax \in Int /\ gross \in Int /\ fuel.scale \in Nat \ {0}
    BY <1>3, <1>4
  <2> DEFINE a == fuel.taxable
             b == fuel.tax
             scale == fuel.scale
             unit == Unit(fuelRules)
  <2>3. /\ a \in Int /\ b \in Int /\ gross \in Int /\ scale \in Nat \ {0} /\ unit \in Nat \ {0}
        /\ Fine \in Nat \ {0} /\ scale = unit * Fine /\ a + b = gross * unit
    BY <1>4, <1>6, <2>2, Scales
  <2> HIDE DEF a, b, scale, unit
  <2>4. Apart(roundMoney(a, scale) + roundMoney(b, scale), roundMoney(gross, Fine)) <= 1
    BY <2>3, ThreeRounded
  <2> QED
    BY <2>1, <2>4 DEF LineBalances, a, b, scale
<1>8. TaxSplits(fuelLine)
  <2>1. /\ fuelLine.tax = roundMoney(SumFunction(fuel.amounts), fuel.scale)
        /\ fuelLine.components = [c \in fuelRules |-> roundMoney(fuel.amounts[c], fuel.scale)]
        /\ DOMAIN fuelLine.components = fuelRules
    BY <1>4 DEF Line
  <2>2. fuel.amounts \in [fuelRules -> Int]
    BY <1>4
  <2> QED
    BY <1>4, <2>1, <2>2, SumRounded DEF TaxSplits
<1>9. TaxSplits(deliveryLine)
  <2>1. /\ deliveryLine.tax = roundMoney(SumFunction(delivery.amounts), delivery.scale)
        /\ deliveryLine.components = [c \in chargeRules |-> roundMoney(delivery.amounts[c], delivery.scale)]
        /\ DOMAIN deliveryLine.components = chargeRules
    BY <1>5 DEF Line
  <2>2. delivery.amounts \in [chargeRules -> Int]
    BY <1>5
  <2> QED
    BY <1>5, <2>1, <2>2, SumRounded DEF TaxSplits
<1>10. /\ Apart(charge + roundMoney(delivery.tax, delivery.scale), billed) <= 1
       /\ billed \in Int /\ billed >= charge
  BY <1>5, AddedTax
<1>11. LineBalances(deliveryLine)
  BY <1>10 DEF LineBalances, Line
<1>12. sold \in Int /\ 2 * (Fine * sold) - 2 * gross \in -Fine .. Fine
  BY <1>3, Scales, Rounds
<1> HIDE DEF sold, billed
<1>13. 2 * Apart(sold * Fine, gross) <= Fine
  <2>1. PICK n \in Int : n = sold * Fine /\ n = Fine * sold
    BY <1>12, Scales
  <2> QED
    BY <1>3, <1>12, <2>1, Scales DEF Apart
<1>14. fuelLine.total = sold /\ deliveryLine.total = billed
  BY DEF Line
<1>15. /\ 2 * Apart(quote.fuel.total * Fine, gross) <= Fine /\ quote.delivery.total >= charge
       /\ quote.total = quote.fuel.total + quote.delivery.total
  BY <1>1, <1>10, <1>13, <1>14
<1> QED
  BY <1>1, <1>7, <1>8, <1>9, <1>11, <1>15 DEF quote, gross, QuoteBalances

\* Whatever rules are in force, every breakdown they give balances.
LEMMA BalancedByRules == TaxIInv => BreakdownBalances
<1> SUFFICES ASSUME TaxIInv, InclusivityAsSold, NEW q \in Litres, NEW p \in PerLitre, NEW s \in State,
                    NEW city \in Place, NEW pin \in Place,
                    resolveDeliveryCharge(findApplicableDeliveryRule(city, pin, q), q, q * p) # None
             PROVE  LET charge == resolveDeliveryCharge(findApplicableDeliveryRule(city, pin, q), q, q * p)
                    IN  QuoteBalances(calculateQuoteBreakdown(q, p, charge, s), q * p, charge)
  BY DEF BreakdownBalances
<1>1. q \in Nat /\ p \in Nat /\ q * p \in Nat
  BY Figures
<1>2. resolveDeliveryCharge(findApplicableDeliveryRule(city, pin, q), q, q * p) \in Nat
  BY <1>1, ChargeIsWhole
<1> QED
  BY <1>1, <1>2, LinesBalance

\* INV-09: the figures of a breakdown add up, whatever rules are configured,
\* whatever is ordered and however many taxes a line carries (tax-engine.js).
THEOREM BreakdownsBalance == TaxSpec => []BreakdownBalances
BY BalancedByRules, TaxInvariance, PTL

\* The tables of rules keep their types.
THEOREM TaxTypeCorrect == TaxSpec => []TaxTypeOK
<1>1. TaxIInv => TaxTypeOK
  BY DEF TaxIInv
<1> QED
  BY <1>1, TaxInvariance, PTL
================================================================================
