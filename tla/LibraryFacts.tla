---------------------------- MODULE LibraryFacts ----------------------------
(***************************************************************************)
(* Facts about the library's operators that the proofs of several modules  *)
(* need: the least and the greatest of a set of numbers, the sum of a      *)
(* function over a finite set, folds over sequences, and induction up to a *)
(* number, which comes down to the least element of a set.                 *)
(***************************************************************************)
EXTENDS Integers, FiniteSetsExt, FiniteSetTheorems, WellFoundedInduction, TLAPS

-----------------------------------------------------------------------------
(* The least and the greatest element. *)

\* A set of natural numbers has a least element: what a proof by induction on a number
\* comes down to, as the least number without a property cannot be.
LEMMA LeastElement ==
  ASSUME NEW S, S \subseteq Nat, S # {}
  PROVE  \E x \in S : \A y \in S : x <= y
<1> DEFINE Less == {p \in Nat \X Nat : p[1] < p[2]}
<1>1. IsWellFoundedOn(Less, Nat)
  BY NatLessThanWellFounded, Zenon DEF OpToRel
<1>2. \E x \in S : \A y \in S : ~ (<<y, x>> \in Less)
  <2> HIDE DEF Less
  <2> QED BY <1>1, WFMin
<1>3. PICK x \in S : \A y \in S : ~ (<<y, x>> \in Less)
  BY <1>2
<1>4. ASSUME NEW y \in S PROVE x <= y
  <2> DEFINE p == <<y, x>>
  <2>1. y < x => p \in Nat \X Nat /\ p[1] < p[2]
    OBVIOUS
  <2>2. y < x => p \in Less
    <3> HIDE DEF p
    <3> QED BY <2>1
  <2> QED BY <1>3, <2>2
<1> QED
  BY <1>4

\* Induction up to a bound, over a set of numbers: the least number outside would not
\* be 0 and would follow one inside.
LEMMA InductionUpTo ==
  ASSUME NEW n \in Nat, NEW G, 0 \in G, \A k \in 1 .. n : k - 1 \in G => k \in G
  PROVE  0 .. n \subseteq G
<1> DEFINE Bad == {k \in 0 .. n : k \notin G}
<1>1. ASSUME Bad # {} PROVE FALSE
  <2>1. PICK m \in Bad : \A l \in Bad : m <= l
    <3>1. Bad \subseteq Nat
      OBVIOUS
    <3> HIDE DEF Bad
    <3> QED
      BY <1>1, <3>1, LeastElement
  <2>2. m \in 1 .. n /\ m \notin G /\ m - 1 \in 0 .. n
    OBVIOUS
  <2>3. m - 1 \notin Bad
    <3> HIDE DEF Bad
    <3> QED
      BY <2>1, <2>2
  <2> QED
    BY <2>2, <2>3
<1> QED
  BY <1>1

\* A bounded set of numbers has a greatest element.
LEMMA GreatestElement ==
  ASSUME NEW n \in Nat, NEW S, S \subseteq 0 .. n, S # {}
  PROVE  \E x \in S : \A y \in S : x >= y
<1> DEFINE T == {k \in 0 .. n : n - k \in S}
<1>0. T \subseteq Nat
  OBVIOUS
<1>1. T # {}
  <2>1. PICK x \in S : TRUE
    OBVIOUS
  <2>2. n - x \in 0 .. n /\ n - (n - x) = x
    BY <2>1
  <2> QED BY <2>1, <2>2
<1>2. PICK t \in T : \A u \in T : t <= u
  <2> HIDE DEF T
  <2> QED BY <1>0, <1>1, LeastElement
<1>3. ASSUME NEW y \in S PROVE n - t >= y
  <2>1. n - y \in T
    OBVIOUS
  <2> QED BY <2>1, <1>2
<1>4. n - t \in S
  OBVIOUS
<1> QED
  BY <1>3, <1>4

\* Max and Min find them.
LEMMA MaxOf ==
  ASSUME NEW n \in Nat, NEW S, S \subseteq 0 .. n, S # {}
  PROVE  Max(S) \in S /\ \A y \in S : Max(S) >= y
BY GreatestElement DEF Max

\* Min, of a set without a bound too.
LEMMA MinOf ==
  ASSUME NEW S, S \subseteq Nat, S # {}
  PROVE  Min(S) \in S /\ \A y \in S : Min(S) =< y
BY LeastElement DEF Min

-----------------------------------------------------------------------------
(* Sums. *)

\* g is the sum of f over each of the subsets of S.
IsSum(g, f, S) ==
  /\ g \in [SUBSET S -> Int]
  /\ g[{}] = 0
  /\ \A T \in SUBSET S : \A x \in T : g[T] = f[x] + g[T \ {x}]

\* Adding one element to a set that has its sums.
LEMMA SumExtends ==
  ASSUME NEW S, NEW y, y \notin S, NEW f, \A x \in S \cup {y} : f[x] \in Int,
         NEW g, IsSum(g, f, S)
  PROVE  \E h : IsSum(h, f, S \cup {y})
<1> DEFINE h == [T \in SUBSET (S \cup {y}) |->
                   IF y \in T THEN f[y] + g[T \ {y}] ELSE g[T]]
<1>0. g \in [SUBSET S -> Int]
  BY DEF IsSum
<1>1. ASSUME NEW T \in SUBSET (S \cup {y})
      PROVE  h[T] = (IF y \in T THEN f[y] + g[T \ {y}] ELSE g[T]) /\ h[T] \in Int
  <2>1. T \ {y} \in SUBSET S /\ (y \notin T => T \in SUBSET S)
    OBVIOUS
  <2>2. g[T \ {y}] \in Int /\ (y \notin T => g[T] \in Int)
    BY <1>0, <2>1
  <2>3. f[y] \in Int
    OBVIOUS
  <2> QED
    BY <2>2, <2>3
<1>2. h[{}] = 0
  <2>1. h[{}] = g[{}]
    BY <1>1
  <2> QED
    BY <2>1 DEF IsSum
<1>3. h \in [SUBSET (S \cup {y}) -> Int]
  BY <1>1
<1> HIDE DEF h
<1>4. ASSUME NEW T \in SUBSET (S \cup {y}), NEW x \in T PROVE h[T] = f[x] + h[T \ {x}]
  <2>0. f[x] \in Int /\ f[y] \in Int
    OBVIOUS
  <2>1. CASE x = y
    <3>1. h[T] = f[y] + g[T \ {y}] /\ h[T \ {y}] = g[T \ {y}]
      <4>1. T \ {y} \in SUBSET (S \cup {y}) /\ y \notin T \ {y}
        OBVIOUS
      <4> QED
        BY <1>1, <2>1, <4>1
    <3> QED
      BY <2>1, <3>1
  <2>2. CASE x # y /\ y \in T
    <3> DEFINE U == T \ {y}
    <3>1. U \in SUBSET S /\ x \in U /\ (T \ {x}) \ {y} = U \ {x} /\ y \in T \ {x}
      BY <2>2
    <3>2. g[U] = f[x] + g[U \ {x}] /\ g[U] \in Int /\ g[U \ {x}] \in Int
      <4>1. U \ {x} \in SUBSET S
        BY <3>1
      <4> HIDE DEF U
      <4> QED
        BY <1>0, <3>1, <4>1 DEF IsSum
    <3>3. h[T] = f[y] + g[U] /\ h[T \ {x}] = f[y] + g[U \ {x}]
      <4>1. T \ {x} \in SUBSET (S \cup {y})
        OBVIOUS
      <4>2. h[T \ {x}] = f[y] + g[(T \ {x}) \ {y}]
        BY <1>1, <3>1, <4>1
      <4> QED
        BY <1>1, <2>2, <3>1, <4>2
    <3> HIDE DEF U
    <3> QED
      BY <2>0, <3>2, <3>3
  <2>3. CASE y \notin T
    <3>1. T \in SUBSET S /\ T \ {x} \in SUBSET S /\ y \notin T \ {x}
      BY <2>3
    <3>2. h[T] = g[T] /\ h[T \ {x}] = g[T \ {x}]
      BY <1>1, <2>3, <3>1
    <3> QED
      BY <3>1, <3>2 DEF IsSum
  <2> QED
    BY <2>1, <2>2, <2>3
<1> QED
  BY <1>2, <1>3, <1>4 DEF IsSum

\* A finite set has its sums: a least number of elements without would have them from
\* one element less.
LEMMA SumExists ==
  ASSUME NEW S, IsFiniteSet(S), NEW f, \A x \in S : f[x] \in Int
  PROVE  \E g : IsSum(g, f, S)
<1> DEFINE Bad == {n \in Nat : \E T \in SUBSET S : Cardinality(T) = n /\ ~ \E g : IsSum(g, f, T)}
<1>1. SUFFICES ASSUME Bad # {} PROVE FALSE
  <2>1. Cardinality(S) \in Nat /\ S \in SUBSET S
    BY FS_CardinalityType
  <2>2. CASE \E g : IsSum(g, f, S)
    BY <2>2
  <2>3. CASE ~ \E g : IsSum(g, f, S)
    <3>1. Cardinality(S) \in Bad
      BY <2>1, <2>3
    <3> QED
      BY <1>1, <3>1
  <2> QED
    BY <2>2, <2>3
<1>2. PICK n \in Bad : \A m \in Bad : n <= m
  <2>1. Bad \subseteq Nat
    OBVIOUS
  <2> HIDE DEF Bad
  <2> QED
    BY <1>1, <2>1, LeastElement
<1>3. PICK T \in SUBSET S : Cardinality(T) = n /\ ~ \E g : IsSum(g, f, T)
  OBVIOUS
<1>4. IsFiniteSet(T) /\ n \in Nat
  BY <1>3, FS_Subset
<1>5. CASE T = {}
  <2>1. IsSum([U \in SUBSET {} |-> 0], f, {})
    BY DEF IsSum
  <2> QED
    BY <1>3, <1>5, <2>1
<1>6. CASE T # {}
  <2>1. PICK y \in T : TRUE
    BY <1>6
  <2>2. Cardinality(T \ {y}) = n - 1 /\ IsFiniteSet(T \ {y})
    BY <1>3, <1>4, <2>1, FS_RemoveElement
  <2>3. n - 1 \in Nat
    BY <1>4, <2>2, FS_CardinalityType
  <2>4. n - 1 \notin Bad
    BY <1>2, <1>4
  <2>5. \E g : IsSum(g, f, T \ {y})
    BY <2>2, <2>3, <2>4
  <2>6. PICK g : IsSum(g, f, T \ {y})
    BY <2>5
  <2> DEFINE R == T \ {y}
  <2>7. R \cup {y} = T /\ y \notin R
    BY <2>1
  <2>8. (\A x \in R \cup {y} : f[x] \in Int) /\ IsSum(g, f, R)
    BY <2>6, <2>7
  <2> HIDE DEF R
  <2>9. \E h : IsSum(h, f, R \cup {y})
    BY <2>7, <2>8, SumExtends
  <2> QED
    BY <1>3, <2>7, <2>9
<1> QED
  BY <1>5, <1>6

\* The function the sum is computed by, element by element as they are chosen.
AnyOf(T) == CHOOSE x \in T : TRUE
Iter(f, S) == CHOOSE iter : iter = [T \in SUBSET S |->
                 IF T = {} THEN 0 ELSE f[AnyOf(T)] + iter[T \ {AnyOf(T)}]]

\* SumFunctionOnSet is what it computes.
LEMMA SumIsIter == ASSUME NEW f, NEW S PROVE SumFunctionOnSet(f, S) = Iter(f, S)[S]
BY DEF SumFunctionOnSet, FoldFunctionOnSet, MapThenFoldSet, Iter, AnyOf

\* What it computes is the sum: a smallest subset where it is not would have one
\* element more than a subset where it is.
LEMMA IterIsSum ==
  ASSUME NEW S, IsFiniteSet(S), NEW f, NEW g, IsSum(g, f, S)
  PROVE  Iter(f, S) = g
<1> DEFINE Eq(h) == h = [T \in SUBSET S |->
                           IF T = {} THEN 0 ELSE f[AnyOf(T)] + h[T \ {AnyOf(T)}]]
<1>1. \A T \in SUBSET S : T # {} => AnyOf(T) \in T
  BY DEF AnyOf
<1>2. Eq(g)
  <2>1. g \in [SUBSET S -> Int]
    BY DEF IsSum
  <2>2. \A T \in SUBSET S : g[T] = IF T = {} THEN 0 ELSE f[AnyOf(T)] + g[T \ {AnyOf(T)}]
    BY <1>1 DEF IsSum
  <2> QED
    BY <2>1, <2>2
<1>3. Iter(f, S) = CHOOSE h : Eq(h)
  BY DEF Iter
<1>4. PICK h : h = Iter(f, S) /\ Eq(h)
  <2> HIDE DEF Eq
  <2> QED
    BY <1>2, <1>3
<1> DEFINE Bad == {n \in Nat : \E T \in SUBSET S : Cardinality(T) = n /\ h[T] # g[T]}
<1>5. ASSUME Bad # {} PROVE FALSE
  <2>1. PICK n \in Bad : \A m \in Bad : n <= m
    <3>1. Bad \subseteq Nat
      OBVIOUS
    <3> HIDE DEF Bad
    <3> QED
      BY <1>5, <3>1, LeastElement
  <2>2. PICK T \in SUBSET S : Cardinality(T) = n /\ h[T] # g[T]
    OBVIOUS
  <2>3. T # {}
    <3>1. {} \in SUBSET S
      OBVIOUS
    <3>2. h[{}] = 0 /\ g[{}] = 0
      BY <1>2, <1>4, <3>1
    <3> QED
      BY <2>2, <3>2
  <2>4. PICK x \in T : x = AnyOf(T)
    BY <1>1, <2>3
  <2>5. Cardinality(T \ {x}) = n - 1 /\ n - 1 \in Nat
    <3>1. IsFiniteSet(T)
      BY FS_Subset
    <3>2. Cardinality(T \ {x}) = n - 1 /\ IsFiniteSet(T \ {x})
      BY <2>2, <3>1, FS_RemoveElement
    <3> QED
      BY <3>2, FS_CardinalityType
  <2>6. h[T \ {x}] = g[T \ {x}]
    <3>1. n - 1 \notin Bad
      BY <2>1, <2>5
    <3>2. T \ {x} \in SUBSET S
      OBVIOUS
    <3> QED
      BY <2>5, <3>1, <3>2
  <2>7. h[T] = f[x] + h[T \ {x}]
    BY <1>4, <2>3, <2>4
  <2>8. g[T] = f[x] + g[T \ {x}]
    BY <1>2, <2>3, <2>4
  <2> QED
    BY <2>2, <2>6, <2>7, <2>8
<1>6. \A T \in SUBSET S : h[T] = g[T]
  <2>1. ASSUME NEW T \in SUBSET S PROVE h[T] = g[T]
    <3>1. Cardinality(T) \in Nat
      BY FS_Subset, FS_CardinalityType
    <3> QED
      BY <1>5, <3>1
  <2> QED
    BY <2>1
<1>7. h = [T \in SUBSET S |-> h[T]] /\ g = [T \in SUBSET S |-> g[T]]
  <2>1. h = [T \in SUBSET S |-> IF T = {} THEN 0 ELSE f[AnyOf(T)] + h[T \ {AnyOf(T)}]]
    BY <1>4
  <2>2. g = [T \in SUBSET S |-> IF T = {} THEN 0 ELSE f[AnyOf(T)] + g[T \ {AnyOf(T)}]]
    BY <1>2
  <2>3. \A T \in SUBSET S : h[T] = (IF T = {} THEN 0 ELSE f[AnyOf(T)] + h[T \ {AnyOf(T)}])
    BY <2>1
  <2>4. \A T \in SUBSET S : g[T] = (IF T = {} THEN 0 ELSE f[AnyOf(T)] + g[T \ {AnyOf(T)}])
    BY <2>2
  <2> QED
    BY <2>1, <2>2, <2>3, <2>4
<1> QED
  BY <1>4, <1>6, <1>7

\* A subset's sums are among those of the set.
LEMMA SumOfSubset ==
  ASSUME NEW S, NEW f, NEW g, IsSum(g, f, S), NEW T \in SUBSET S
  PROVE  IsSum([U \in SUBSET T |-> g[U]], f, T)
<1> DEFINE h == [U \in SUBSET T |-> g[U]]
<1>1. \A U \in SUBSET T : h[U] = g[U] /\ U \in SUBSET S
  OBVIOUS
<1>2. h \in [SUBSET T -> Int]
  BY DEF IsSum
<1> HIDE DEF h
<1>3. h[{}] = 0
  BY <1>1 DEF IsSum
<1>4. ASSUME NEW U \in SUBSET T, NEW x \in U PROVE h[U] = f[x] + h[U \ {x}]
  <2>1. U \ {x} \in SUBSET T
    OBVIOUS
  <2>2. h[U] = g[U] /\ h[U \ {x}] = g[U \ {x}]
    BY <1>1, <2>1
  <2> QED
    BY <2>2 DEF IsSum
<1>5. IsSum(h, f, T)
  BY <1>2, <1>3, <1>4 DEF IsSum
<1> QED
  BY <1>5 DEF h

\* The sums over the subsets of a finite set, all at once.
LEMMA Sums ==
  ASSUME NEW S, IsFiniteSet(S), NEW f, \A x \in S : f[x] \in Int
  PROVE  \E g : IsSum(g, f, S) /\ \A T \in SUBSET S : SumFunctionOnSet(f, T) = g[T]
<1>1. PICK g : IsSum(g, f, S)
  BY SumExists
<1>2. ASSUME NEW T \in SUBSET S PROVE SumFunctionOnSet(f, T) = g[T]
  <2>1. PICK h : h = [U \in SUBSET T |-> g[U]] /\ IsSum(h, f, T)
    BY <1>1, SumOfSubset
  <2>2. IsFiniteSet(T)
    BY FS_Subset
  <2>3. Iter(f, T) = h
    BY <2>1, <2>2, IterIsSum
  <2> QED
    BY <2>1, <2>3, SumIsIter
<1> QED
  BY <1>1, <1>2

\* A sum over nothing is 0, and an element contributes its value.
LEMMA SumFacts ==
  ASSUME NEW S, IsFiniteSet(S), NEW f, \A x \in S : f[x] \in Int
  PROVE  /\ SumFunctionOnSet(f, {}) = 0
         /\ \A T \in SUBSET S :
              /\ SumFunctionOnSet(f, T) \in Int
              /\ \A x \in T : SumFunctionOnSet(f, T) = f[x] + SumFunctionOnSet(f, T \ {x})
<1>1. PICK g : IsSum(g, f, S) /\ \A T \in SUBSET S : SumFunctionOnSet(f, T) = g[T]
  BY Sums
<1>2. SumFunctionOnSet(f, {}) = 0
  <2>1. {} \in SUBSET S
    OBVIOUS
  <2> QED
    BY <1>1, <2>1 DEF IsSum
<1>3. ASSUME NEW T \in SUBSET S PROVE SumFunctionOnSet(f, T) \in Int
  BY <1>1 DEF IsSum
<1>4. ASSUME NEW T \in SUBSET S, NEW x \in T
      PROVE  SumFunctionOnSet(f, T) = f[x] + SumFunctionOnSet(f, T \ {x})
  <2>1. T \ {x} \in SUBSET S
    OBVIOUS
  <2> QED
    BY <1>1, <2>1 DEF IsSum
<1> QED
  BY <1>2, <1>3, <1>4

\* An element that is added contributes its value.
LEMMA SumAdd ==
  ASSUME NEW S, IsFiniteSet(S), NEW f, \A x \in S : f[x] \in Int,
         NEW T \in SUBSET S, NEW x \in S \ T
  PROVE  SumFunctionOnSet(f, T \cup {x}) = SumFunctionOnSet(f, T) + f[x]
<1> DEFINE U == T \cup {x}
<1>1. U \in SUBSET S /\ x \in U /\ U \ {x} = T
  OBVIOUS
<1> HIDE DEF U
<1>2. SumFunctionOnSet(f, U) = f[x] + SumFunctionOnSet(f, U \ {x})
  BY <1>1, SumFacts
<1>3. SumFunctionOnSet(f, T) \in Int /\ f[x] \in Int
  BY SumFacts
<1>4. SumFunctionOnSet(f, U) = f[x] + SumFunctionOnSet(f, T)
  BY <1>1, <1>2, Zenon
<1>5. \A m, n \in Int : m + n = n + m
  OBVIOUS
<1>6. SumFunctionOnSet(f, U) = SumFunctionOnSet(f, T) + f[x]
  BY <1>3, <1>4, <1>5, Zenon
<1> QED
  BY <1>6 DEF U

\* Elements of value 0 do not count: a least number of them that did would have a
\* last one.
LEMMA SumOfZeros ==
  ASSUME NEW S, IsFiniteSet(S), NEW f, \A x \in S : f[x] \in Int,
         NEW U \in SUBSET S, NEW T \in SUBSET S, U \subseteq T, \A x \in T \ U : f[x] = 0
  PROVE  SumFunctionOnSet(f, T) = SumFunctionOnSet(f, U)
<1> DEFINE Sum(V) == SumFunctionOnSet(f, V)
           Between == {V \in SUBSET T : U \subseteq V}
           Bad == {n \in Nat : \E V \in Between : Cardinality(V) = n /\ Sum(V) # Sum(U)}
<1>1. ASSUME Bad # {} PROVE FALSE
  <2>1. PICK n \in Bad : \A m \in Bad : n <= m
    <3>1. Bad \subseteq Nat
      OBVIOUS
    <3> HIDE DEF Bad
    <3> QED
      BY <1>1, <3>1, LeastElement
  <2>2. PICK V \in Between : Cardinality(V) = n /\ Sum(V) # Sum(U)
    OBVIOUS
  <2>3. PICK x \in V \ U : f[x] = 0
    BY <2>2
  <2>4. V \ {x} \in Between /\ V \in SUBSET S
    BY <2>3
  <2>5. IsFiniteSet(V)
    BY <2>4, FS_Subset
  <2>6. Cardinality(V \ {x}) = n - 1 /\ IsFiniteSet(V \ {x})
    BY <2>2, <2>3, <2>5, FS_RemoveElement
  <2>7. n - 1 \in Nat
    BY <2>6, FS_CardinalityType
  <2>8. Sum(V \ {x}) = Sum(U)
    <3>1. n - 1 \notin Bad
      BY <2>1, <2>7
    <3> HIDE DEF Between, Sum
    <3> QED
      BY <2>4, <2>6, <2>7, <3>1
  <2>9. Sum(V) = f[x] + Sum(V \ {x}) /\ Sum(V \ {x}) \in Int
    <3>1. V \ {x} \in SUBSET S
      BY <2>4
    <3> QED
      BY <2>3, <2>4, <3>1, SumFacts
  <2> QED
    BY <2>2, <2>3, <2>8, <2>9
<1>2. Cardinality(T) \in Nat /\ T \in Between
  BY FS_Subset, FS_CardinalityType
<1> QED
  BY <1>1, <1>2

\* A sum of natural numbers is one, and no less than any of them.
LEMMA SumOfNats ==
  ASSUME NEW S, IsFiniteSet(S), NEW f, \A x \in S : f[x] \in Nat
  PROVE  \A T \in SUBSET S : /\ SumFunctionOnSet(f, T) \in Nat
                             /\ \A x \in T : SumFunctionOnSet(f, T) >= f[x]
<1> DEFINE Sum(V) == SumFunctionOnSet(f, V)
           Bad == {n \in Nat : \E V \in SUBSET S : Cardinality(V) = n /\ Sum(V) \notin Nat}
<1>0. \A x \in S : f[x] \in Int
  OBVIOUS
<1>1. ASSUME Bad # {} PROVE FALSE
  <2>1. PICK n \in Bad : \A m \in Bad : n <= m
    <3>1. Bad \subseteq Nat
      OBVIOUS
    <3> HIDE DEF Bad
    <3> QED
      BY <1>1, <3>1, LeastElement
  <2>2. PICK V \in SUBSET S : Cardinality(V) = n /\ Sum(V) \notin Nat
    OBVIOUS
  <2>0. V # {}
    <3>1. Sum({}) = 0
      BY <1>0, SumFacts
    <3> QED
      BY <2>2, <3>1
  <2>3. PICK x \in V : TRUE
    BY <2>0
  <2>4. Cardinality(V \ {x}) = n - 1 /\ IsFiniteSet(V \ {x})
    <3>1. IsFiniteSet(V)
      BY FS_Subset
    <3> QED
      BY <2>2, <2>3, <3>1, FS_RemoveElement
  <2>5. n - 1 \in Nat
    BY <2>4, FS_CardinalityType
  <2>6. Sum(V \ {x}) \in Nat
    <3>1. n - 1 \notin Bad
      BY <2>1, <2>5
    <3>2. V \ {x} \in SUBSET S
      OBVIOUS
    <3> HIDE DEF Sum
    <3> QED
      BY <2>4, <2>5, <3>1, <3>2
  <2>7. Sum(V) = f[x] + Sum(V \ {x}) /\ f[x] \in Nat
    BY <1>0, <2>3, SumFacts
  <2> QED
    BY <2>2, <2>6, <2>7
<1>2. ASSUME NEW T \in SUBSET S PROVE Sum(T) \in Nat
  <2>1. Cardinality(T) \in Nat
    BY FS_Subset, FS_CardinalityType
  <2> QED
    BY <1>1, <2>1
<1>3. ASSUME NEW T \in SUBSET S, NEW x \in T PROVE Sum(T) >= f[x]
  <2>1. Sum(T) = f[x] + Sum(T \ {x}) /\ f[x] \in Nat
    BY <1>0, <1>3, SumFacts
  <2>2. Sum(T \ {x}) \in Nat
    BY <1>2
  <2> HIDE DEF Sum
  <2> QED
    BY <2>1, <2>2
<1> QED
  BY <1>2, <1>3

-----------------------------------------------------------------------------
(* Folds over a sequence. *)

\* h computes a fold of step over the places 1 .. n, the greatest place last.
IsFold(h, step, base, n) ==
  \A s \in SUBSET (1 .. n) :
    h[s] = IF s = {} THEN base ELSE step[<<h[s \ {Max(s)}], Max(s)>>]

\* The greatest of the first k places is k.
LEMMA MaxOfPrefix ==
  ASSUME NEW k \in Nat \ {0}, NEW s \in SUBSET (1 .. k), k \in s
  PROVE  Max(s) = k
<1>1. s \subseteq 0 .. k /\ s # {}
  OBVIOUS
<1>2. Max(s) \in s /\ Max(s) >= k
  BY <1>1, MaxOf
<1>3. Max(s) \in 1 .. k
  BY <1>2
<1> QED
  BY <1>2, <1>3

\* A fold whose steps stay in a set exists: a least n without would have it from one
\* place less.
LEMMA FoldExists ==
  ASSUME NEW n \in Nat, NEW S, NEW base \in S, NEW step,
         \A x \in S, k \in 1 .. n : step[<<x, k>>] \in S
  PROVE  \E h \in [SUBSET (1 .. n) -> S] : IsFold(h, step, base, n)
<1> DEFINE Folds(m) == \E h \in [SUBSET (1 .. m) -> S] : IsFold(h, step, base, m)
           Bad == {m \in 0 .. n : ~ Folds(m)}
<1>1. ASSUME Bad # {} PROVE FALSE
  <2>1. PICK m \in Bad : \A l \in Bad : m <= l
    <3>1. Bad \subseteq Nat
      OBVIOUS
    <3> HIDE DEF Bad
    <3> QED
      BY <1>1, <3>1, LeastElement
  <2>2. m \in 0 .. n /\ ~ Folds(m)
    OBVIOUS
  <2>3. CASE m = 0
    <3> DEFINE h == [s \in SUBSET (1 .. 0) |-> base]
    <3>1. \A s \in SUBSET (1 .. 0) : s = {} /\ h[s] = base
      OBVIOUS
    <3>2. h \in [SUBSET (1 .. 0) -> S]
      OBVIOUS
    <3> HIDE DEF h
    <3>3. IsFold(h, step, base, 0)
      BY <3>1 DEF IsFold
    <3> QED
      BY <2>2, <2>3, <3>2, <3>3
  <2>4. CASE m # 0
    <3>1. m - 1 \in 0 .. n /\ m \in Nat \ {0} /\ m \in 1 .. n
      BY <2>2, <2>4
    <3>a. m - 1 \notin Bad
      <4> HIDE DEF Bad
      <4> QED
        BY <2>1, <3>1
    <3>b. Folds(m - 1)
      BY <3>1, <3>a
    <3>2. PICK h \in [SUBSET (1 .. (m - 1)) -> S] : IsFold(h, step, base, m - 1)
      BY <3>b
    <3> DEFINE P == SUBSET (1 .. (m - 1))
               k == [s \in SUBSET (1 .. m) |->
                       IF m \in s THEN step[<<h[s \ {m}], m>>] ELSE h[s]]
    <3>3. ASSUME NEW s \in SUBSET (1 .. m)
          PROVE  /\ s \ {m} \in P
                 /\ m \notin s => s \in P
                 /\ k[s] = IF m \in s THEN step[<<h[s \ {m}], m>>] ELSE h[s]
      BY <3>1
    <3>4. ASSUME NEW s \in P
          PROVE  s \in SUBSET (1 .. m) /\ m \notin s /\ k[s] = h[s] /\ h[s] \in S
      <4>1. s \in SUBSET (1 .. m) /\ m \notin s
        BY <3>1
      <4>2. h[s] \in S
        BY <3>2
      <4> QED
        BY <4>1, <4>2
    <3> HIDE DEF P, k
    <3>5. ASSUME NEW s \in SUBSET (1 .. m) PROVE k[s] \in S
      <4>1. CASE m \in s
        <5>1. h[s \ {m}] \in S
          BY <3>3, <3>4
        <5> QED
          BY <3>1, <3>3, <4>1, <5>1
      <4>2. CASE m \notin s
        BY <3>3, <3>4, <4>2
      <4> QED
        BY <4>1, <4>2
    <3>6. k \in [SUBSET (1 .. m) -> S]
      BY <3>5 DEF k
    <3>7. ASSUME NEW s \in SUBSET (1 .. m)
          PROVE  k[s] = IF s = {} THEN base ELSE step[<<k[s \ {Max(s)}], Max(s)>>]
      <4>1. CASE m \in s
        <5>1. Max(s) = m
          BY <3>1, <4>1, MaxOfPrefix
        <5>2. k[s \ {m}] = h[s \ {m}]
          BY <3>3, <3>4
        <5> QED
          BY <3>3, <4>1, <5>1, <5>2
      <4>2. CASE m \notin s
        <5>1. s \in P /\ k[s] = h[s]
          BY <3>3, <4>2
        <5>2. h[s] = IF s = {} THEN base ELSE step[<<h[s \ {Max(s)}], Max(s)>>]
          BY <3>2, <5>1 DEF IsFold, P
        <5>3. s \ {Max(s)} \in P
          BY <5>1 DEF P
        <5> QED
          BY <3>4, <5>1, <5>2, <5>3
      <4> QED
        BY <4>1, <4>2
    <3>8. IsFold(k, step, base, m)
      BY <3>7 DEF IsFold
    <3> QED
      BY <2>2, <3>6, <3>8
  <2> QED
    BY <2>3, <2>4
<1>2. n \notin Bad
  <2> HIDE DEF Bad
  <2> QED
    BY <1>1
<1>3. Folds(n)
  <2> HIDE DEF Folds
  <2> QED
    BY <1>2
<1> QED
  BY <1>3

\* The first k places end in k and come after the first k - 1.
LEMMA Prefix ==
  ASSUME NEW n \in Nat, NEW k \in 1 .. n
  PROVE  /\ 1 .. k \in SUBSET (1 .. n) /\ 1 .. k # {}
         /\ Max(1 .. k) = k /\ (1 .. k) \ {k} = 1 .. (k - 1)
<1>1. k \in Nat \ {0} /\ k \in 1 .. k
  OBVIOUS
<1>2. 1 .. k \in SUBSET (1 .. n) /\ (1 .. k) \ {k} = 1 .. (k - 1)
  OBVIOUS
<1>3. Max(1 .. k) = k
  BY <1>1, MaxOfPrefix
<1> QED
  BY <1>1, <1>2, <1>3
=============================================================================
