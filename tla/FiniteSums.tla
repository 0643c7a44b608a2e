----------------------------- MODULE FiniteSums -----------------------------
(***************************************************************************)
(* What the proofs about file counts and logged rows need of finite sets   *)
(* and of sums of a function's values over them, as Functions defines them. *)
(***************************************************************************)
EXTENDS Functions, FiniteSetTheorems, TLAPS

LEMMA FiniteImage ==
  ASSUME NEW S, IsFiniteSet(S), NEW f
  PROVE  IsFiniteSet({f[x] : x \in S})
<1> DEFINE image == {f[x] : x \in S}
           g == [x \in S |-> f[x]]
<1>1. g \in Surjection(S, image)
  BY DEF Surjection
<1> HIDE DEF g
<1> QED BY <1>1, FS_Surjection

\* Induction over a finite set, stated about a set of good subsets instead of a
\* predicate, so that the provers can use it.
LEMMA SubsetInduction ==
  ASSUME NEW S, IsFiniteSet(S), NEW Good \in SUBSET (SUBSET S),
         \A T \in SUBSET S : (\A U \in SUBSET T : U # T => U \in Good) => T \in Good
  PROVE  S \in Good
<1> DEFINE Bad == (SUBSET S) \ Good
<1> SUFFICES ASSUME Bad # {} PROVE FALSE
  OBVIOUS
<1>1. FiniteSubsetsOf(S) = SUBSET S
  BY FS_FiniteSubsetsOfFinite
<1>2. IsWellFoundedOn(StrictSubsetOrdering(S), SUBSET S)
  <2> HIDE DEF Bad
  <2>1. IsWellFoundedOn(StrictSubsetOrdering(S), FiniteSubsetsOf(S))
    BY FS_StrictSubsetOrderingWellFounded
  <2> QED BY <1>1, <2>1
<1>3. Bad \subseteq SUBSET S
  OBVIOUS
<1>4. PICK T \in Bad : \A U \in Bad : ~(<<U, T>> \in StrictSubsetOrdering(S))
  <2> HIDE DEF Bad
  <2> QED BY <1>2, <1>3, WFMin
<1>5. \A U \in SUBSET T : U # T => U \in Good
  BY <1>4 DEF StrictSubsetOrdering
<1> QED BY <1>4, <1>5

\* A set of numbers up to n has a last one.
LEMMA LastOf ==
  ASSUME NEW n \in Nat, NEW S \in SUBSET (1..n), S # {}
  PROVE  \E m \in S : \A k \in S : k <= m
<1> DEFINE Good == {T \in SUBSET S : T = {} \/ \E m \in T : \A k \in T : k <= m}
<1>1. IsFiniteSet(S)
  <2>1. IsFiniteSet(1..n)
    BY FS_Interval
  <2> QED BY <2>1, FS_Subset
<1>2. ASSUME NEW T \in SUBSET S, \A U \in SUBSET T : U # T => U \in Good
      PROVE  T \in Good
  <2>1. CASE T = {}
    BY <2>1
  <2>2. CASE T # {}
    <3>1. PICK x \in T : TRUE
      BY <2>2
    <3>2. T \ {x} \in Good
      BY <1>2, <3>1
    <3>3. CASE T \ {x} = {}
      BY <3>1, <3>3
    <3>4. CASE T \ {x} # {}
      <4>1. PICK m \in T \ {x} : \A k \in T \ {x} : k <= m
        BY <3>2, <3>4
      <4>2. x \in Int /\ m \in Int /\ \A k \in T : k \in Int
        BY <3>1, <4>1
      <4>3. CASE x <= m
        BY <4>1, <4>3
      <4>4. CASE m <= x
        <5>1. \A k \in T : k <= x
          BY <4>1, <4>2, <4>4
        <5> QED BY <3>1, <5>1
      <4> QED BY <4>2, <4>3, <4>4
    <3> QED BY <3>3, <3>4
  <2> QED BY <2>1, <2>2
<1>3. Good \in SUBSET (SUBSET S)
  OBVIOUS
<1> HIDE DEF Good
<1>4. S \in Good
  BY <1>1, <1>2, <1>3, SubsetInduction
<1> QED BY <1>4 DEF Good

\* The element of S that comes first, and the function by which a sum is defined.
First(S) == CHOOSE x \in S : TRUE

IsSum(g, f, S) ==
    g = [T \in SUBSET S |-> IF T = {} THEN 0 ELSE f[First(T)] + g[T \ {First(T)}]]

LEMMA SumIsChosen ==
  ASSUME NEW f, NEW S
  PROVE  SumFunctionOnSet(f, S) = (CHOOSE g : IsSum(g, f, S))[S]
BY DEF SumFunctionOnSet, FoldFunctionOnSet, MapThenFoldSet, IsSum, First

\* A finite set has at most one such function: two of them agree wherever both
\* are defined.
LEMMA SumsAgree ==
  ASSUME NEW f, NEW S, IsFiniteSet(S), NEW R \in SUBSET S,
         NEW g, IsSum(g, f, S), NEW h, IsSum(h, f, R)
  PROVE  g[R] = h[R]
<1> DEFINE Good == {T \in SUBSET R : g[T] = h[T]}
<1>1. ASSUME NEW T \in SUBSET R, \A U \in SUBSET T : U # T => U \in Good
      PROVE  T \in Good
  <2>1. /\ g[T] = IF T = {} THEN 0 ELSE f[First(T)] + g[T \ {First(T)}]
        /\ h[T] = IF T = {} THEN 0 ELSE f[First(T)] + h[T \ {First(T)}]
    BY DEF IsSum
  <2>2. T # {} => T \ {First(T)} \in SUBSET T /\ T \ {First(T)} # T
    <3>1. T # {} => First(T) \in T
      BY DEF First
    <3> QED BY <3>1
  <2> QED BY <1>1, <2>1, <2>2
<1>2. IsFiniteSet(R) /\ Good \in SUBSET (SUBSET R)
  BY FS_Subset
<1>3. R \in Good
  <2> HIDE DEF Good
  <2> QED BY <1>1, <1>2, SubsetInduction
<1> QED BY <1>3

\* And it has one.
LEMMA SumExists ==
  ASSUME NEW f, NEW S, IsFiniteSet(S)
  PROVE  \E g : IsSum(g, f, S)
<1> DEFINE Good == {T \in SUBSET S : \E g : IsSum(g, f, T)}
<1> SUFFICES ASSUME NEW T \in SUBSET S, \A U \in SUBSET T : U # T => U \in Good
             PROVE  T \in Good
  <2>1. Good \in SUBSET (SUBSET S)
    OBVIOUS
  <2>2. S \in Good => \E g : IsSum(g, f, S)
    OBVIOUS
  <2> HIDE DEF Good
  <2> QED BY <2>1, <2>2, SubsetInduction
<1>3. \A U \in SUBSET T : U # T => IsSum(CHOOSE g : IsSum(g, f, U), f, U)
  OBVIOUS
<1> DEFINE sum(U) == (CHOOSE g : IsSum(g, f, U))[U]
           step(U) == IF U = {} THEN 0 ELSE f[First(U)] + sum(U \ {First(U)})
           h == [U \in SUBSET T |-> step(U)]
<1>4. ASSUME NEW U \in SUBSET T, U # T PROVE sum(U) = step(U)
  <2> DEFINE g == CHOOSE k : IsSum(k, f, U)
             V == U \ {First(U)}
  <2>1. IsSum(g, f, U)
    BY <1>3, <1>4
  <2>2. g[U] = IF U = {} THEN 0 ELSE f[First(U)] + g[V]
    BY <2>1 DEF IsSum
  <2>3. CASE U # {}
    <3>1. V \in SUBSET U /\ V \in SUBSET T /\ V # T /\ IsFiniteSet(U)
      <4>1. First(U) \in U
        BY <2>3 DEF First
      <4> QED BY <1>4, <4>1, FS_Subset
    <3>2. IsSum(CHOOSE k : IsSum(k, f, V), f, V)
      BY <1>3, <3>1
    <3>3. g[V] = sum(V)
      <4> HIDE DEF g, V
      <4> QED BY <2>1, <3>1, <3>2, SumsAgree
    <3> QED BY <2>2, <2>3, <3>3
  <2>4. CASE U = {}
    BY <2>2, <2>4
  <2> QED BY <2>3, <2>4
<1>5. ASSUME NEW U \in SUBSET T, U # {} PROVE h[U \ {First(U)}] = sum(U \ {First(U)})
  <2>1. U \ {First(U)} \in SUBSET T /\ U \ {First(U)} # T
    <3>1. First(U) \in U
      BY <1>5 DEF First
    <3> QED BY <3>1
  <2>2. sum(U \ {First(U)}) = step(U \ {First(U)})
    <3> HIDE DEF sum, step
    <3> QED BY <1>4, <2>1
  <2> HIDE DEF sum, step
  <2> QED BY <2>1, <2>2
<1> HIDE DEF sum
<1>6. IsSum(h, f, T)
  BY <1>5 DEF IsSum
<1> QED BY <1>6

\* So a sum is that of its first element and of the rest.
LEMMA SumUnfolds ==
  ASSUME NEW f, NEW S, IsFiniteSet(S)
  PROVE  SumFunctionOnSet(f, S) =
            IF S = {} THEN 0 ELSE f[First(S)] + SumFunctionOnSet(f, S \ {First(S)})
<1> DEFINE g == CHOOSE k : IsSum(k, f, S)
           R == S \ {First(S)}
           h == CHOOSE k : IsSum(k, f, R)
<1>1. IsFiniteSet(R) /\ R \in SUBSET S
  BY FS_Subset
<1>2. IsSum(g, f, S) /\ IsSum(h, f, R)
  <2> HIDE DEF R
  <2> QED BY <1>1, SumExists
<1>3. SumFunctionOnSet(f, S) = g[S] /\ SumFunctionOnSet(f, R) = h[R]
  <2> HIDE DEF R
  <2> QED BY SumIsChosen
<1>4. g[S] = IF S = {} THEN 0 ELSE f[First(S)] + g[R]
  <2> HIDE DEF g
  <2> QED BY <1>2 DEF IsSum
<1>5. g[R] = h[R]
  <2> HIDE DEF g, h, R
  <2> QED BY <1>1, <1>2, SumsAgree
<1> HIDE DEF g, h, R
<1> QED BY <1>3, <1>4, <1>5 DEF R

-----------------------------------------------------------------------------
(* What the proofs use                                                     *)

LEMMA SumEmpty == ASSUME NEW f PROVE SumFunctionOnSet(f, {}) = 0
  BY SumUnfolds, FS_EmptySet

\* The order does not matter: any element may be the first.
LEMMA SumRemove ==
  ASSUME NEW S, IsFiniteSet(S), NEW f, \A x \in S : f[x] \in Int
  PROVE  /\ SumFunctionOnSet(f, S) \in Int
         /\ \A x \in S : SumFunctionOnSet(f, S) = f[x] + SumFunctionOnSet(f, S \ {x})
<1> DEFINE sum(T) == SumFunctionOnSet(f, T)
           good(T) == sum(T) \in Int /\ \A x \in T : sum(T) = f[x] + sum(T \ {x})
<1>1. ASSUME NEW T \in SUBSET S, \A U \in SUBSET T : U # T => good(U)
      PROVE  good(T)
  <2>1. IsFiniteSet(T)
    BY FS_Subset
  <2>2. sum(T) = IF T = {} THEN 0 ELSE f[First(T)] + sum(T \ {First(T)})
    BY <2>1, SumUnfolds
  <2>3. CASE T = {}
    BY <2>2, <2>3
  <2>4. CASE T # {}
    <3> DEFINE c == First(T)
    <3>1. c \in T /\ f[c] \in Int
      BY <2>4 DEF First
    <3> HIDE DEF c, sum
    <3>2. T \ {c} \in SUBSET T /\ T \ {c} # T
      BY <3>1
    <3>3. sum(T \ {c}) \in Int
      BY <1>1, <3>2
    <3>4. sum(T) = f[c] + sum(T \ {c})
      BY <2>2, <2>4 DEF c
    <3>5. ASSUME NEW x \in T PROVE sum(T) = f[x] + sum(T \ {x})
      <4>1. CASE x = c
        BY <3>4, <4>1
      <4>2. CASE x # c
        <5>1. sum(T \ {c}) = f[x] + sum((T \ {c}) \ {x})
          BY <1>1, <3>2, <4>2
        <5>2. T \ {x} \in SUBSET T /\ T \ {x} # T /\ c \in T \ {x}
          BY <3>1, <4>2
        <5>3. sum(T \ {x}) = f[c] + sum((T \ {x}) \ {c})
          BY <1>1, <5>2
        <5>4. (T \ {c}) \ {x} = (T \ {x}) \ {c}
          OBVIOUS
        <5>5. f[x] \in Int /\ sum((T \ {x}) \ {c}) \in Int
          <6>1. (T \ {x}) \ {c} \in SUBSET T /\ (T \ {x}) \ {c} # T
            BY <3>1
          <6> QED BY <1>1, <6>1
        <5> DEFINE rest == sum((T \ {x}) \ {c})
        <5>6. sum(T \ {c}) = f[x] + rest /\ sum(T \ {x}) = f[c] + rest /\ rest \in Int
          BY <5>1, <5>3, <5>4, <5>5
        <5> HIDE DEF rest
        <5> QED BY <3>1, <3>4, <5>5, <5>6
      <4> QED BY <4>1, <4>2
    <3> QED BY <3>1, <3>3, <3>4, <3>5
  <2> QED BY <2>3, <2>4
<1>2. good(S)
  <2> DEFINE Good == {T \in SUBSET S : good(T)}
  <2> HIDE DEF good
  <2>1. Good \in SUBSET (SUBSET S)
    OBVIOUS
  <2>2. \A T \in SUBSET S : (\A U \in SUBSET T : U # T => U \in Good) => T \in Good
    BY <1>1
  <2>3. S \in Good
    <3> HIDE DEF Good
    <3> QED BY <2>1, <2>2, SubsetInduction
  <2> QED BY <2>3
<1> QED BY <1>2

LEMMA SumAdd ==
  ASSUME NEW S, IsFiniteSet(S), NEW x, x \notin S, NEW f, \A y \in S \cup {x} : f[y] \in Int
  PROVE  SumFunctionOnSet(f, S \cup {x}) = SumFunctionOnSet(f, S) + f[x]
<1>1. IsFiniteSet(S \cup {x}) /\ (S \cup {x}) \ {x} = S
  BY FS_AddElement
<1>2. SumFunctionOnSet(f, S) \in Int
  BY SumRemove
<1>3. SumFunctionOnSet(f, S \cup {x}) = f[x] + SumFunctionOnSet(f, S)
  BY <1>1, SumRemove
<1> QED BY <1>2, <1>3

\* A sum depends on the summands only.
LEMMA SumSame ==
  ASSUME NEW S, IsFiniteSet(S), NEW f, NEW g, \A x \in S : f[x] = g[x]
  PROVE  SumFunctionOnSet(f, S) = SumFunctionOnSet(g, S)
<1> DEFINE good(T) == SumFunctionOnSet(f, T) = SumFunctionOnSet(g, T)
<1>1. ASSUME NEW T \in SUBSET S, \A U \in SUBSET T : U # T => good(U)
      PROVE  good(T)
  <2>1. IsFiniteSet(T)
    BY FS_Subset
  <2>2. /\ SumFunctionOnSet(f, T) =
              IF T = {} THEN 0 ELSE f[First(T)] + SumFunctionOnSet(f, T \ {First(T)})
        /\ SumFunctionOnSet(g, T) =
              IF T = {} THEN 0 ELSE g[First(T)] + SumFunctionOnSet(g, T \ {First(T)})
    BY <2>1, SumUnfolds
  <2>3. CASE T # {}
    <3>1. First(T) \in T
      BY <2>3 DEF First
    <3>2. T \ {First(T)} \in SUBSET T /\ T \ {First(T)} # T
      BY <3>1
    <3> QED BY <1>1, <2>2, <2>3, <3>1, <3>2
  <2> QED BY <2>2, <2>3
<1>2. good(S)
  <2> DEFINE Good == {T \in SUBSET S : good(T)}
  <2> HIDE DEF good
  <2>1. Good \in SUBSET (SUBSET S)
    OBVIOUS
  <2>2. \A T \in SUBSET S : (\A U \in SUBSET T : U # T => U \in Good) => T \in Good
    BY <1>1
  <2>3. S \in Good
    <3> HIDE DEF Good
    <3> QED BY <2>1, <2>2, SubsetInduction
  <2> QED BY <2>3
<1> QED BY <1>2

\* Adding one to the summands at a part of the set adds the size of the part.
LEMMA SumRaised ==
  ASSUME NEW S, IsFiniteSet(S), NEW P \in SUBSET S,
         NEW f, NEW g, \A x \in S : f[x] \in Int,
         \A x \in S : g[x] = f[x] + IF x \in P THEN 1 ELSE 0
  PROVE  SumFunctionOnSet(g, S) = SumFunctionOnSet(f, S) + Cardinality(P)
<1> DEFINE good(T) == SumFunctionOnSet(g, T) = SumFunctionOnSet(f, T) + Cardinality(P \cap T)
<1>1. ASSUME NEW T \in SUBSET S, \A U \in SUBSET T : U # T => good(U)
      PROVE  good(T)
  <2>1. CASE T = {}
    <3>1. P \cap T = {}
      BY <2>1
    <3> QED BY <2>1, <3>1, SumEmpty, FS_EmptySet
  <2>2. CASE T # {}
    <3> DEFINE x == First(T)
               U == T \ {x}
    <3>1. x \in T
      BY <2>2 DEF First
    <3> HIDE DEF x
    <3>2. U \in SUBSET T /\ U # T /\ IsFiniteSet(U) /\ IsFiniteSet(T) /\ IsFiniteSet(P \cap U)
      BY <3>1, FS_Subset
    <3>3. \A y \in S : g[y] \in Int
      OBVIOUS
    <3>4. /\ SumFunctionOnSet(g, T) = g[x] + SumFunctionOnSet(g, U)
          /\ SumFunctionOnSet(f, T) = f[x] + SumFunctionOnSet(f, U)
          /\ SumFunctionOnSet(f, U) \in Int
      BY <3>1, <3>2, <3>3, SumRemove
    <3>5. SumFunctionOnSet(g, U) = SumFunctionOnSet(f, U) + Cardinality(P \cap U)
      BY <1>1, <3>2
    <3>6. Cardinality(P \cap T) = Cardinality(P \cap U) + IF x \in P THEN 1 ELSE 0
      <4>1. Cardinality(P \cap U) \in Nat
        BY <3>2, FS_CardinalityType
      <4>2. CASE x \in P
        <5>1. P \cap T = (P \cap U) \cup {x} /\ x \notin P \cap U
          BY <3>1, <4>2
        <5> HIDE DEF U
        <5> QED BY <3>2, <4>2, <5>1, FS_AddElement
      <4>3. CASE x \notin P
        <5>1. P \cap T = P \cap U
          BY <4>3
        <5> DEFINE n == Cardinality(P \cap U)
        <5>2. Cardinality(P \cap T) = n /\ n \in Nat
          BY <4>1, <5>1
        <5> HIDE DEF n
        <5>3. Cardinality(P \cap T) = n + 0
          BY <5>2
        <5> QED BY <4>3, <5>3 DEF n
      <4> QED BY <4>2, <4>3
    <3>7. Cardinality(P \cap U) \in Nat /\ f[x] \in Int
      BY <3>1, <3>2, FS_CardinalityType
    <3> QED BY <3>1, <3>4, <3>5, <3>6, <3>7
  <2> QED BY <2>1, <2>2
<1>2. good(S)
  <2> DEFINE Good == {T \in SUBSET S : good(T)}
  <2> HIDE DEF good
  <2>1. Good \in SUBSET (SUBSET S)
    OBVIOUS
  <2>2. \A T \in SUBSET S : (\A U \in SUBSET T : U # T => U \in Good) => T \in Good
    BY <1>1
  <2>3. S \in Good
    <3> HIDE DEF Good
    <3> QED BY <2>1, <2>2, SubsetInduction
  <2> QED BY <2>3
<1>3. P \cap S = P
  OBVIOUS
<1> QED BY <1>2, <1>3

LEMMA SumZero ==
  ASSUME NEW S, IsFiniteSet(S), NEW f, \A x \in S : f[x] = 0
  PROVE  SumFunctionOnSet(f, S) = 0
<1> DEFINE good(T) == SumFunctionOnSet(f, T) = 0
<1>1. ASSUME NEW T \in SUBSET S, \A U \in SUBSET T : U # T => good(U)
      PROVE  good(T)
  <2>1. CASE T # {}
    <3>1. First(T) \in T /\ IsFiniteSet(T)
      BY <2>1, FS_Subset DEF First
    <3>2. T \ {First(T)} \in SUBSET T /\ T \ {First(T)} # T
      BY <3>1
    <3>3. SumFunctionOnSet(f, T) = f[First(T)] + SumFunctionOnSet(f, T \ {First(T)})
      BY <2>1, <3>1, SumUnfolds
    <3> QED BY <1>1, <3>1, <3>2, <3>3
  <2> QED BY <2>1, SumEmpty
<1>2. good(S)
  <2> DEFINE Good == {T \in SUBSET S : good(T)}
  <2> HIDE DEF good
  <2>1. Good \in SUBSET (SUBSET S)
    OBVIOUS
  <2>2. \A T \in SUBSET S : (\A U \in SUBSET T : U # T => U \in Good) => T \in Good
    BY <1>1
  <2>3. S \in Good
    <3> HIDE DEF Good
    <3> QED BY <2>1, <2>2, SubsetInduction
  <2> QED BY <2>3
<1> QED BY <1>2

\* The sizes of disjoint finite sets add up to the size of their union.
AreParts(S, pieceOf, size) ==
    /\ IsFiniteSet(S)
    /\ \A x \in S : IsFiniteSet(pieceOf[x]) /\ size[x] = Cardinality(pieceOf[x])
    /\ \A x, y \in S : x # y => pieceOf[x] \cap pieceOf[y] = {}

LEMMA SumOfParts ==
  ASSUME NEW S, NEW pieceOf, NEW size, AreParts(S, pieceOf, size)
  PROVE  LET whole == UNION {pieceOf[x] : x \in S}
         IN  IsFiniteSet(whole) /\ SumFunctionOnSet(size, S) = Cardinality(whole)
<1> USE DEF AreParts
<1> DEFINE whole(T) == UNION {pieceOf[x] : x \in T}
           good(T) == IsFiniteSet(whole(T)) /\ SumFunctionOnSet(size, T) = Cardinality(whole(T))
<1>1. ASSUME NEW T \in SUBSET S, \A U \in SUBSET T : U # T => good(U)
      PROVE  good(T)
  <2>1. CASE T = {}
    <3>1. whole(T) = {}
      BY <2>1
    <3> QED BY <2>1, <3>1, SumEmpty, FS_EmptySet
  <2>2. CASE T # {}
    <3> DEFINE x == First(T)
               U == T \ {x}
               rest == whole(U)
    <3>1. x \in T
      BY <2>2 DEF First
    <3> HIDE DEF x
    <3>2. U \in SUBSET T /\ U # T /\ IsFiniteSet(T)
      BY <3>1, FS_Subset
    <3>3. IsFiniteSet(rest) /\ SumFunctionOnSet(size, U) = Cardinality(rest)
      BY <1>1, <3>2
    <3>4. whole(T) = pieceOf[x] \cup rest /\ pieceOf[x] \cap rest = {}
      BY <3>1
    <3>5. \A y \in T : size[y] \in Int
      BY FS_CardinalityType
    <3>6. SumFunctionOnSet(size, T) = size[x] + SumFunctionOnSet(size, U)
      BY <3>1, <3>2, <3>5, SumRemove
    <3> HIDE DEF rest, whole
    <3>7. IsFiniteSet(pieceOf[x]) /\ size[x] = Cardinality(pieceOf[x])
      BY <3>1
    <3>8. /\ IsFiniteSet(whole(T))
          /\ Cardinality(whole(T)) = Cardinality(pieceOf[x]) + Cardinality(rest) - Cardinality({})
      BY <3>3, <3>4, <3>7, FS_Union
    <3>9. Cardinality({}) = 0 /\ Cardinality(pieceOf[x]) \in Nat /\ Cardinality(rest) \in Nat
      BY <3>3, <3>7, FS_EmptySet, FS_CardinalityType
    <3> QED BY <3>3, <3>6, <3>7, <3>8, <3>9
  <2> QED BY <2>1, <2>2
<1>2. good(S)
  <2> DEFINE Good == {T \in SUBSET S : good(T)}
  <2> HIDE DEF good
  <2>1. Good \in SUBSET (SUBSET S)
    OBVIOUS
  <2>2. \A T \in SUBSET S : (\A U \in SUBSET T : U # T => U \in Good) => T \in Good
    BY <1>1
  <2>3. S \in Good
    <3> HIDE DEF Good
    <3> QED BY <2>1, <2>2, SubsetInduction
  <2> QED BY <2>3
<1> QED BY <1>2

\* Rounding up to a multiple of t, as the size estimate does.
LEMMA RoundUp ==
  ASSUME NEW b \in Nat, NEW t \in Nat \ {0}
  PROVE  LET n == (b + t - 1) \div t
         IN  n \in Int /\ n * t <= b + t - 1 /\ b + t - 1 < n * t + t
  OBVIOUS

LEMMA TimesGrows ==
  ASSUME NEW k \in Int, NEW n \in Int, k <= n, NEW t \in Nat
  PROVE  k * t <= n * t
  OBVIOUS

LEMMA TimesLess ==
  ASSUME NEW n \in Int, NEW t \in Nat
  PROVE  (n - 1) * t = n * t - t
  OBVIOUS
=============================================================================
