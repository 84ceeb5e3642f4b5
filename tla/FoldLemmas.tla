------------------------------ MODULE FoldLemmas ------------------------------
(***************************************************************************)
(* What the folds of the community modules compute: facts about sums over  *)
(* finite sets, about lists that are filtered, sorted and concatenated,    *)
(* and the two forms of induction they rest on, stated with a set of       *)
(* numbers or of sets where the library takes an operator.                 *)
(***************************************************************************)
EXTENDS Lists, FiniteSetsExt, SequencesExt, Functions, FiniteSetTheorems, WellFoundedInduction, TLAPS

(***************************************************************************)
(* Induction                                                               *)
(***************************************************************************)
\* A set of natural numbers that is not empty has a least element.
LEMMA LeastNumber ==
  ASSUME NEW T, T \subseteq Nat, T # {}
  PROVE  \E m \in T : \A k \in T : m <= k
<1> DEFINE R == OpToRel(<, Nat)
<1>1. IsWellFoundedOn(R, Nat)  BY NatLessThanWellFounded
<1>2. \E x \in T : \A y \in T : ~ (<<y, x>> \in R)
  <2> HIDE DEF R
  <2> QED BY <1>1, WFMin, Zenon
<1>3. ASSUME NEW x \in T, NEW y \in T, <<y, x>> \notin R PROVE x <= y
  BY <1>3 DEF OpToRel
<1> HIDE DEF R
<1> QED  BY <1>2, <1>3

\* A set that has 0, and with each natural number the next one, has them all.
LEMMA Induction ==
  ASSUME NEW A, 0 \in A, \A n \in Nat : n \in A => n + 1 \in A
  PROVE  Nat \subseteq A
<1> DEFINE T == Nat \ A
<1>1. SUFFICES ASSUME T # {} PROVE FALSE
  OBVIOUS
<1>2. PICK m \in T : \A k \in T : m <= k
  BY <1>1, LeastNumber
<1>3. m - 1 \in Nat /\ m - 1 \in A
  BY <1>2
<1> QED  BY <1>2, <1>3

\* A family of sets that has the empty one, and with each proper part of S one
\* more element, has S.
LEMMA SetInduction ==
  ASSUME NEW S, IsFiniteSet(S), NEW A, {} \in A,
         \A T \in SUBSET S : \A x \in S \ T : T \in A => T \cup {x} \in A
  PROVE  SUBSET S \subseteq A
<1> DEFINE C == {n \in Nat : \A T \in SUBSET S : Cardinality(T) = n => T \in A}
<1>1. \A T \in SUBSET S : IsFiniteSet(T) /\ Cardinality(T) \in Nat
  BY FS_Subset, FS_CardinalityType
<1>2. 0 \in C
  BY <1>1, FS_EmptySet
<1>3. ASSUME NEW n \in Nat, n \in C PROVE n + 1 \in C
  <2>1. SUFFICES ASSUME NEW T \in SUBSET S, Cardinality(T) = n + 1 PROVE T \in A
    OBVIOUS
  <2>2. IsFiniteSet(T) /\ T # {}
    BY <1>1, <1>3, <2>1, FS_EmptySet
  <2> PICK x \in T : TRUE
    BY <2>2
  <2>3. Cardinality(T \ {x}) = n
    <3>1. Cardinality(T \ {x}) = Cardinality(T) - 1
      BY <2>2, FS_RemoveElement
    <3> QED  BY <1>3, <2>1, <3>1
  <2>4. T \ {x} \in SUBSET S /\ x \in S \ (T \ {x}) /\ (T \ {x}) \cup {x} = T
    OBVIOUS
  <2> QED  BY <1>3, <2>3, <2>4
<1>4. Nat \subseteq C
  <2> HIDE DEF C
  <2> QED BY <1>2, <1>3, Induction
<1> QED  BY <1>1, <1>4

(***************************************************************************)
(* Folds                                                                   *)
(***************************************************************************)
\* g gives the fold of each part of S: F combines an element with what the
\* others gave, c says which element is next.
Folding(S, b, F, c, g) ==
  \A T \in SUBSET S : g[T] = IF T = {} THEN b ELSE F[<<c[T], g[T \ {c[T]}]>>]

\* There is such a g.
LEMMA FoldExists ==
  ASSUME NEW S, IsFiniteSet(S), NEW B, NEW b \in B, NEW F \in [S \X B -> B],
         NEW c, \A T \in SUBSET S : T # {} => c[T] \in T
  PROVE  \E g \in [SUBSET S -> B] : Folding(S, b, F, c, g)
<1> DEFINE Small(n)     == {T \in SUBSET S : Cardinality(T) <= n}
           Next(g, T)   == IF T = {} THEN b ELSE F[<<c[T], g[T \ {c[T]}]>>]
           Solves(g, n) == g \in [Small(n) -> B] /\ \A T \in Small(n) : g[T] = Next(g, T)
           C            == {n \in Nat : \E g \in [Small(n) -> B] : Solves(g, n)}
<1>1. \A T \in SUBSET S : IsFiniteSet(T) /\ Cardinality(T) \in Nat /\ Cardinality(T) <= Cardinality(S)
  BY FS_Subset, FS_CardinalityType
<1>2. 0 \in C
  <2>1. Small(0) = {{}}
    BY <1>1, FS_EmptySet
  <2>2. Solves([T \in Small(0) |-> b], 0)
    BY <2>1
  <2> QED  BY <2>2
<1>3. ASSUME NEW n \in Nat, n \in C PROVE n + 1 \in C
  <2>1. PICK g \in [Small(n) -> B] : Solves(g, n)
    BY <1>3
  <2> DEFINE h == [T \in Small(n + 1) |-> IF T \in Small(n) THEN g[T] ELSE Next(g, T)]
  <2>2. \A T \in Small(n + 1) : T # {} => T \ {c[T]} \in Small(n) /\ T \ {c[T]} \in Small(n + 1) /\ c[T] \in S
    <3>1. SUFFICES ASSUME NEW T \in Small(n + 1), T # {} PROVE T \ {c[T]} \in Small(n) /\ c[T] \in S
      BY <1>1
    <3>2. Cardinality(T \ {c[T]}) = Cardinality(T) - 1
      BY <1>1, <3>1, FS_RemoveElement
    <3> QED  BY <1>1, <3>1, <3>2
  <2>3. \A T \in Small(n + 1) : T # {} => F[<<c[T], g[T \ {c[T]}]>>] \in B
    BY <2>1, <2>2
  <2>4. h \in [Small(n + 1) -> B]
    BY <2>1, <2>3
  <2>5. \A T \in Small(n + 1) : h[T] = Next(g, T)
    BY <2>1
  <2>6. \A T \in Small(n + 1) : Next(g, T) = Next(h, T)
    BY <2>2
  <2>7. Solves(h, n + 1)
    BY <2>4, <2>5, <2>6
  <2> HIDE DEF h, Solves, Small
  <2>8. n + 1 \in Nat /\ \E f \in [Small(n + 1) -> B] : Solves(f, n + 1)
    BY <2>4, <2>7
  <2> QED  BY <2>8
<1>4. Nat \subseteq C
  <2> HIDE DEF C
  <2> QED BY <1>2, <1>3, Induction
<1>5. Cardinality(S) \in Nat /\ Small(Cardinality(S)) = SUBSET S
  BY <1>1, FS_CardinalityType
<1> QED
  <2>1. Cardinality(S) \in C
    BY <1>4, <1>5
  <2>2. PICK g \in [Small(Cardinality(S)) -> B] : Solves(g, Cardinality(S))
    BY <2>1
  <2> HIDE DEF Small
  <2>3. \A T \in SUBSET S : g[T] = Next(g, T)
    BY <1>5, <2>2
  <2> QED  BY <1>5, <2>2, <2>3 DEF Folding

(***************************************************************************)
(* Sums                                                                    *)
(***************************************************************************)
\* The equation of the sum over the parts of a set.
SumEquation(f, S, g) ==
  g = [T \in SUBSET S |-> IF T = {} THEN 0
                          ELSE f[CHOOSE x \in T : TRUE] + g[T \ {CHOOSE x \in T : TRUE}]]

\* It has one solution with integers as its values.
LEMMA SumExists ==
  ASSUME NEW S, IsFiniteSet(S), NEW f, \A x \in S : f[x] \in Int
  PROVE  \E g \in [SUBSET S -> Int] : SumEquation(f, S, g)
<1> DEFINE F == [p \in S \X Int |-> f[p[1]] + p[2]]
           c == [T \in SUBSET S |-> CHOOSE x \in T : TRUE]
<1>1. F \in [S \X Int -> Int]
  OBVIOUS
<1>2. \A T \in SUBSET S : T # {} => c[T] \in T
  OBVIOUS
<1>3. PICK g \in [SUBSET S -> Int] : Folding(S, 0, F, c, g)
  <2>1. 0 \in Int
    OBVIOUS
  <2> HIDE DEF F, c
  <2> QED BY <1>1, <1>2, <2>1, FoldExists
<1>4. SumEquation(f, S, g)
  BY <1>2, <1>3 DEF SumEquation, Folding
<1> QED  BY <1>4

\* Two solutions, of a set and of a part of it, agree where both are defined.
LEMMA SumUnique ==
  ASSUME NEW S, IsFiniteSet(S), NEW U \in SUBSET S, NEW f, NEW g, NEW h,
         SumEquation(f, S, g), SumEquation(f, U, h)
  PROVE  \A T \in SUBSET U : g[T] = h[T]
<1> DEFINE C == {n \in Nat : \A T \in SUBSET U : Cardinality(T) = n => g[T] = h[T]}
<1>1. \A T \in SUBSET U : IsFiniteSet(T) /\ Cardinality(T) \in Nat
  BY FS_Subset, FS_CardinalityType
<1>2. 0 \in C
  BY <1>1, FS_EmptySet DEF SumEquation
<1>3. ASSUME NEW n \in Nat, n \in C PROVE n + 1 \in C
  <2>1. SUFFICES ASSUME NEW T \in SUBSET U, Cardinality(T) = n + 1 PROVE g[T] = h[T]
    OBVIOUS
  <2> DEFINE x == CHOOSE y \in T : TRUE
  <2>2. T # {} /\ x \in T
    BY <2>1, FS_EmptySet
  <2>3. Cardinality(T \ {x}) = Cardinality(T) - 1
    BY <1>1, <2>2, FS_RemoveElement
  <2>4. T \ {x} \in SUBSET U /\ Cardinality(T \ {x}) = n
    BY <2>1, <2>3
  <2>5. g[T \ {x}] = h[T \ {x}]
    BY <1>3, <2>4
  <2> QED  BY <2>2, <2>5 DEF SumEquation
<1>4. Nat \subseteq C
  <2> HIDE DEF C
  <2> QED BY <1>2, <1>3, Induction
<1> QED  BY <1>1, <1>4
LEMMA SumIsSolution ==
  ASSUME NEW S, IsFiniteSet(S), NEW f, \A x \in S : f[x] \in Int,
         NEW g, SumEquation(f, S, g), NEW T \in SUBSET S
  PROVE  SumFunctionOnSet(f, T) = g[T]
<1> DEFINE G == CHOOSE h : SumEquation(f, T, h)
<1>1. IsFiniteSet(T)
  BY FS_Subset
<1>2. \E h : SumEquation(f, T, h)
  BY <1>1, SumExists
<1>3. SumEquation(f, T, G)
  BY <1>2, Zenon
<1>4. SumFunctionOnSet(f, T) = G[T]
  BY DEF SumFunctionOnSet, FoldFunctionOnSet, MapThenFoldSet, SumEquation
<1>5. g[T] = G[T]
  <2> HIDE DEF G
  <2> QED BY <1>3, SumUnique
<1> QED  BY <1>4, <1>5

LEMMA SumEmpty ==
  ASSUME NEW f
  PROVE  SumFunctionOnSet(f, {}) = 0
<1>1. PICK g \in [SUBSET {} -> Int] : SumEquation(f, {}, g)
  BY SumExists, FS_EmptySet
<1>2. g[{}] = 0
  BY <1>1 DEF SumEquation
<1> QED  BY <1>1, <1>2, SumIsSolution, FS_EmptySet

LEMMA SumInt ==
  ASSUME NEW S, IsFiniteSet(S), NEW f, \A x \in S : f[x] \in Int
  PROVE  SumFunctionOnSet(f, S) \in Int
<1>1. PICK g \in [SUBSET S -> Int] : SumEquation(f, S, g)
  BY SumExists
<1>2. g[S] \in Int
  OBVIOUS
<1> QED  BY <1>1, <1>2, SumIsSolution

\* The element that is chosen first ...
LEMMA SumChosen ==
  ASSUME NEW S, IsFiniteSet(S), S # {}, NEW f, \A x \in S : f[x] \in Int
  PROVE  \E x \in S : SumFunctionOnSet(f, S) = f[x] + SumFunctionOnSet(f, S \ {x})
<1> DEFINE x == CHOOSE y \in S : TRUE
<1>1. PICK g \in [SUBSET S -> Int] : SumEquation(f, S, g)
  BY SumExists
<1>2. x \in S /\ S \ {x} \in SUBSET S
  OBVIOUS
<1>3. g[S] = f[x] + g[S \ {x}]
  BY <1>1 DEF SumEquation
<1>4. SumFunctionOnSet(f, S) = g[S] /\ SumFunctionOnSet(f, S \ {x}) = g[S \ {x}]
  BY <1>1, <1>2, SumIsSolution
<1> QED  BY <1>2, <1>3, <1>4

\* ... may be any element.
LEMMA SumTake ==
  ASSUME NEW S, IsFiniteSet(S), NEW f, \A x \in S : f[x] \in Int, NEW x \in S
  PROVE  SumFunctionOnSet(f, S) = f[x] + SumFunctionOnSet(f, S \ {x})
<1> DEFINE Sum(T) == SumFunctionOnSet(f, T)
           C == {n \in Nat : \A T \in SUBSET S : \A y \in T : Cardinality(T) = n => Sum(T) = f[y] + Sum(T \ {y})}
<1>1. \A T \in SUBSET S : IsFiniteSet(T) /\ Cardinality(T) \in Nat /\ Sum(T) \in Int
  BY FS_Subset, FS_CardinalityType, SumInt
<1>2. 0 \in C
  BY <1>1, FS_EmptySet
<1>3. ASSUME NEW n \in Nat, n \in C PROVE n + 1 \in C
  <2>1. SUFFICES ASSUME NEW T \in SUBSET S, NEW y \in T, Cardinality(T) = n + 1
                 PROVE  Sum(T) = f[y] + Sum(T \ {y})
    OBVIOUS
  <2>2. PICK z \in T : Sum(T) = f[z] + Sum(T \ {z})
    <3> HIDE DEF C
    <3> QED BY <1>1, SumChosen
  <2>3. CASE z = y
    BY <2>2, <2>3
  <2>4. CASE z # y
    <3>1. Cardinality(T \ {z}) = Cardinality(T) - 1 /\ Cardinality(T \ {y}) = Cardinality(T) - 1
      BY <1>1, FS_RemoveElement
    <3>2. T \ {z} \in SUBSET S /\ y \in T \ {z} /\ T \ {y} \in SUBSET S /\ z \in T \ {y}
      BY <2>4
    <3>3. Cardinality(T \ {z}) = n /\ Cardinality(T \ {y}) = n
      BY <2>1, <3>1
    <3> DEFINE R == (T \ {z}) \ {y}
    <3>4. R = (T \ {y}) \ {z} /\ R \in SUBSET S
      BY <2>4
    <3>5. Sum(T \ {z}) = f[y] + Sum(R)
      BY <1>3, <3>2, <3>3
    <3>6. Sum(T \ {y}) = f[z] + Sum(R)
      BY <1>3, <3>2, <3>3, <3>4
    <3>7. f[y] \in Int /\ f[z] \in Int /\ Sum(R) \in Int
      BY <1>1, <3>4
    <3> HIDE DEF R, Sum
    <3> QED  BY <2>2, <3>5, <3>6, <3>7
  <2> QED  BY <2>3, <2>4
<1>4. Nat \subseteq C
  <2> HIDE DEF C
  <2> QED BY <1>2, <1>3, Induction
<1> QED  BY <1>1, <1>4

LEMMA SumAdd ==
  ASSUME NEW S, IsFiniteSet(S), NEW f, \A x \in S : f[x] \in Int, NEW x, x \notin S, f[x] \in Int
  PROVE  SumFunctionOnSet(f, S \cup {x}) = f[x] + SumFunctionOnSet(f, S)
<1>1. IsFiniteSet(S \cup {x}) /\ (S \cup {x}) \ {x} = S
  BY FS_AddElement
<1>2. \A y \in S \cup {x} : f[y] \in Int
  OBVIOUS
<1> DEFINE U == S \cup {x}
<1>3. x \in U
  OBVIOUS
<1>4. SumFunctionOnSet(f, U) = f[x] + SumFunctionOnSet(f, U \ {x})
  <2> HIDE DEF U
  <2> QED BY <1>1, <1>2, <1>3, SumTake DEF U
<1> QED  BY <1>1, <1>4

LEMMA SumNat ==
  ASSUME NEW S, IsFiniteSet(S), NEW f, \A x \in S : f[x] \in Nat
  PROVE  SumFunctionOnSet(f, S) \in Nat
<1> DEFINE A == {T \in SUBSET S : SumFunctionOnSet(f, T) \in Nat}
<1>1. {} \in A
  BY SumEmpty
<1>2. ASSUME NEW T \in SUBSET S, NEW x \in S \ T, T \in A PROVE T \cup {x} \in A
  <2>1. SumFunctionOnSet(f, T \cup {x}) = f[x] + SumFunctionOnSet(f, T)
    BY SumAdd, FS_Subset
  <2> QED  BY <1>2, <2>1
<1>3. SUBSET S \subseteq A
  <2> HIDE DEF A
  <2> QED BY <1>1, <1>2, SetInduction
<1> QED  BY <1>3

LEMMA SumUnion ==
  ASSUME NEW S, IsFiniteSet(S), NEW T, IsFiniteSet(T), S \cap T = {},
         NEW f, \A x \in S \cup T : f[x] \in Int
  PROVE  SumFunctionOnSet(f, S \cup T) = SumFunctionOnSet(f, S) + SumFunctionOnSet(f, T)
<1> DEFINE Sum(U) == SumFunctionOnSet(f, U)
           A == {U \in SUBSET T : IsFiniteSet(S \cup U) /\ Sum(S \cup U) = Sum(S) + Sum(U)}
<1>0. \A U \in SUBSET T : IsFiniteSet(U) /\ Sum(U) \in Int /\ Sum(S) \in Int
  BY FS_Subset, SumInt
<1>1. {} \in A
  BY <1>0, SumEmpty
<1>2. ASSUME NEW U \in SUBSET T, NEW x \in T \ U, U \in A PROVE U \cup {x} \in A
  <2>1. Sum(U \cup {x}) = f[x] + Sum(U)
    BY <1>0, SumAdd
  <2>2. x \notin S \cup U /\ S \cup (U \cup {x}) = (S \cup U) \cup {x}
    OBVIOUS
  <2>3. Sum((S \cup U) \cup {x}) = f[x] + Sum(S \cup U)
    BY <1>2, <2>2, SumAdd
  <2>4. IsFiniteSet(S \cup (U \cup {x}))
    BY <1>2, <2>2, FS_AddElement
  <2>5. Sum(U) \in Int /\ Sum(S) \in Int /\ f[x] \in Int
    BY <1>0
  <2>6. Sum(S \cup U) = Sum(S) + Sum(U)
    BY <1>2
  <2>7. Sum(S \cup (U \cup {x})) = Sum(S) + Sum(U \cup {x})
    <3>1. Sum(S \cup (U \cup {x})) = Sum((S \cup U) \cup {x})
      BY <2>2
    <3> QED  BY <2>1, <2>3, <2>5, <2>6, <3>1
  <2> QED  BY <2>4, <2>7
<1>3. SUBSET T \subseteq A
  <2> HIDE DEF A
  <2> QED BY <1>1, <1>2, SetInduction
<1> QED  BY <1>3

\* A part of natural numbers has at most their sum ...
LEMMA SumPart ==
  ASSUME NEW S, IsFiniteSet(S), NEW T \in SUBSET S, NEW f, \A x \in S : f[x] \in Nat
  PROVE  SumFunctionOnSet(f, T) <= SumFunctionOnSet(f, S)
<1>1. IsFiniteSet(T) /\ IsFiniteSet(S \ T) /\ T \cap (S \ T) = {} /\ T \cup (S \ T) = S
  BY FS_Subset
<1>2. SumFunctionOnSet(f, T \cup (S \ T)) = SumFunctionOnSet(f, T) + SumFunctionOnSet(f, S \ T)
  BY <1>1, SumUnion
<1>3. SumFunctionOnSet(f, T) \in Nat /\ SumFunctionOnSet(f, S \ T) \in Nat
  BY <1>1, SumNat
<1>4. SumFunctionOnSet(f, S) = SumFunctionOnSet(f, T) + SumFunctionOnSet(f, S \ T)
  BY <1>1, <1>2
<1> QED  BY <1>3, <1>4

\* ... and all of it if the others are zero.
LEMMA SumRest ==
  ASSUME NEW S, IsFiniteSet(S), NEW f, \A x \in S : f[x] = 0
  PROVE  SumFunctionOnSet(f, S) = 0
<1> DEFINE A == {T \in SUBSET S : SumFunctionOnSet(f, T) = 0}
<1>1. {} \in A
  BY SumEmpty
<1>2. ASSUME NEW T \in SUBSET S, NEW x \in S \ T, T \in A PROVE T \cup {x} \in A
  <2>1. SumFunctionOnSet(f, T \cup {x}) = f[x] + SumFunctionOnSet(f, T)
    BY SumAdd, FS_Subset, \A y \in S : f[y] \in Int
  <2> QED  BY <1>2, <2>1
<1>3. SUBSET S \subseteq A
  <2> HIDE DEF A
  <2> QED BY <1>1, <1>2, SetInduction
<1> QED  BY <1>3

\* The sum depends on the values in the set only.
LEMMA SumSame ==
  ASSUME NEW S, IsFiniteSet(S), NEW f, NEW g, \A x \in S : f[x] \in Int /\ f[x] = g[x]
  PROVE  SumFunctionOnSet(f, S) = SumFunctionOnSet(g, S)
<1> DEFINE A == {T \in SUBSET S : SumFunctionOnSet(f, T) = SumFunctionOnSet(g, T)}
<1>1. {} \in A
  BY SumEmpty
<1>2. ASSUME NEW T \in SUBSET S, NEW x \in S \ T, T \in A PROVE T \cup {x} \in A
  <2>1. SumFunctionOnSet(f, T \cup {x}) = f[x] + SumFunctionOnSet(f, T)
    BY SumAdd, FS_Subset
  <2>2. SumFunctionOnSet(g, T \cup {x}) = g[x] + SumFunctionOnSet(g, T)
    BY SumAdd, FS_Subset
  <2> QED  BY <1>2, <2>1, <2>2
<1>3. SUBSET S \subseteq A
  <2> HIDE DEF A
  <2> QED BY <1>1, <1>2, SetInduction
<1> QED  BY <1>3
(***************************************************************************)
(* Extrema                                                                 *)
(***************************************************************************)
\* A finite set of numbers that is not empty has a greatest element.
LEMMA GreatestNumber ==
  ASSUME NEW S, IsFiniteSet(S), S # {}, S \subseteq Int
  PROVE  \E m \in S : \A k \in S : k <= m
<1> DEFINE A == {T \in SUBSET S : T # {} => \E m \in T : \A k \in T : k <= m}
<1>1. {} \in A
  OBVIOUS
<1>2. ASSUME NEW T \in SUBSET S, NEW x \in S \ T, T \in A PROVE T \cup {x} \in A
  <2>1. CASE T = {}
    BY <2>1
  <2>2. CASE T # {}
    <3>1. PICK m \in T : \A k \in T : k <= m
      BY <1>2, <2>2
    <3>2. CASE x <= m
      <4>1. m \in T \cup {x} /\ \A k \in T \cup {x} : k <= m
        BY <3>1, <3>2
      <4> QED  BY <4>1
    <3>3. CASE ~ x <= m
      <4>1. x \in T \cup {x} /\ \A k \in T \cup {x} : k <= x
        BY <3>1, <3>3
      <4> QED  BY <4>1
    <3> QED  BY <3>2, <3>3
  <2> QED  BY <2>1, <2>2
<1>3. SUBSET S \subseteq A
  <2> HIDE DEF A
  <2> QED BY <1>1, <1>2, SetInduction
<1> QED  BY <1>3
(***************************************************************************)
(* Order                                                                   *)
(***************************************************************************)
\* The first m of strictly increasing numbers are m numbers, and those up to
\* the m-th.
LEMMA FirstOnes ==
  ASSUME NEW n \in Nat, NEW a \in [1..n -> Int], \A i, k \in 1..n : i < k => a[i] < a[k], NEW m \in 0..n
  PROVE  /\ IsFiniteSet({a[i] : i \in 1..m}) /\ Cardinality({a[i] : i \in 1..m}) = m
         /\ m # 0 => {x \in {a[i] : i \in 1..n} : x <= a[m]} = {a[i] : i \in 1..m}
<1> DEFINE f == [i \in 1..m |-> a[i]]
           T == {a[i] : i \in 1..m}
<1>1. f \in Bijection(1..m, T)
  <2>1. f \in [1..m -> T]
    OBVIOUS
  <2>2. \A i, k \in 1..m : f[i] = f[k] => i = k
    OBVIOUS
  <2>3. \A t \in T : \E i \in 1..m : f[i] = t
    OBVIOUS
  <2> HIDE DEF f, T
  <2> QED  BY <2>1, <2>2, <2>3 DEF Bijection, Injection, Surjection, IsInjective
<1>2. ExistsBijection(1..m, T)
  BY <1>1 DEF ExistsBijection
<1>3. IsFiniteSet(T) /\ Cardinality(T) = m
  <2> HIDE DEF T
  <2>1. m \in Nat
    OBVIOUS
  <2> QED  BY <1>2, <2>1, FS_NatBijection, FS_CountingElements
<1>4. ASSUME m # 0 PROVE {x \in {a[i] : i \in 1..n} : x <= a[m]} = T
  <2>1. ASSUME NEW i \in 1..n PROVE a[i] <= a[m] <=> i \in 1..m
    <3>1. m \in 1..n /\ a[i] \in Int /\ a[m] \in Int
      BY <1>4
    <3>2. i < m => a[i] < a[m]
      BY <3>1
    <3>3. m < i => a[m] < a[i]
      BY <3>1
    <3>4. i = m \/ i < m \/ m < i
      BY <3>1
    <3> QED  BY <3>1, <3>2, <3>3, <3>4
  <2> QED  BY <2>1
<1> QED  BY <1>3, <1>4

\* Different numbers can be put in order.
LEMMA Sorting ==
  ASSUME NEW n \in Nat, NEW a \in [1..n -> Int], \A i, k \in 1..n : a[i] = a[k] => i = k
  PROVE  \E p \in [1..n -> 1..n] : \A i, k \in 1..n : i < k => a[p[i]] < a[p[k]]
<1> DEFINE D       == 1..n
           Low(i)  == {k \in D : a[k] <= a[i]}
           rank    == [i \in D |-> Cardinality(Low(i))]
           p       == [m \in D |-> CHOOSE i \in D : rank[i] = m]
<1>1. IsFiniteSet(D) /\ Cardinality(D) = n
  BY FS_Interval
<1>2. ASSUME NEW i \in D PROVE rank[i] \in D
  <2>1. Low(i) \in SUBSET D /\ i \in Low(i)
    OBVIOUS
  <2>2. IsFiniteSet(Low(i)) /\ Cardinality(Low(i)) <= n /\ Cardinality(Low(i)) \in Nat
    BY <1>1, <2>1, FS_Subset, FS_CardinalityType
  <2>3. Cardinality(Low(i)) # 0
    BY <2>1, <2>2, FS_EmptySet
  <2> QED  BY <2>2, <2>3
<1>3. ASSUME NEW i \in D, NEW k \in D, a[i] < a[k] PROVE rank[i] < rank[k]
  <2>1. Low(i) \in SUBSET Low(k) /\ k \in Low(k) /\ k \notin Low(i)
    BY <1>3
  <2>2. IsFiniteSet(Low(k)) /\ Low(k) \in SUBSET D
    BY <1>1, FS_Subset
  <2>3. Cardinality(Low(i)) <= Cardinality(Low(k)) /\ Cardinality(Low(i)) # Cardinality(Low(k))
    BY <2>1, <2>2, FS_Subset
  <2>4. rank[i] \in D /\ rank[k] \in D
    BY <1>2
  <2> QED  BY <2>3, <2>4
<1> HIDE DEF rank
<1>4. \A i, k \in D : rank[i] = rank[k] => i = k
  <2>1. SUFFICES ASSUME NEW i \in D, NEW k \in D, rank[i] = rank[k] PROVE i = k
    OBVIOUS
  <2>2. ~ a[i] < a[k] /\ ~ a[k] < a[i]
    BY <1>2, <1>3, <2>1
  <2>3. a[i] \in Int /\ a[k] \in Int
    OBVIOUS
  <2> QED  BY <2>2, <2>3
<1>5. rank \in Injection(D, D)
  <2>1. rank \in [D -> D]
    BY <1>2 DEF rank
  <2> QED  BY <1>4, <2>1 DEF Injection, IsInjective
<1>6. rank \in Surjection(D, D)
  <2> HIDE DEF D
  <2> QED BY <1>1, <1>5, FS_Injection
<1>7. \A m \in D : p[m] \in D /\ rank[p[m]] = m
  BY <1>6 DEF Surjection
<1>8. p \in [D -> D]
  BY <1>7
<1>9. ASSUME NEW i \in D, NEW k \in D, i < k PROVE a[p[i]] < a[p[k]]
  <2>1. p[i] \in D /\ p[k] \in D /\ rank[p[i]] = i /\ rank[p[k]] = k
    BY <1>7
  <2> HIDE DEF p
  <2>2. a[p[i]] \in Int /\ a[p[k]] \in Int
    BY <2>1
  <2>3. CASE a[p[k]] < a[p[i]]
    <3>1. rank[p[k]] < rank[p[i]]
      BY <1>3, <2>1, <2>3
    <3> QED  BY <1>9, <2>1, <3>1
  <2>4. CASE a[p[k]] = a[p[i]]
    <3>1. p[k] = p[i]
      BY <2>1, <2>4
    <3> QED  BY <1>9, <2>1, <3>1
  <2> QED  BY <2>2, <2>3, <2>4
<1> QED  BY <1>8, <1>9

\* A sum of values each at most another one is at most the sum of those.
LEMMA SumAtMost ==
  ASSUME NEW S, IsFiniteSet(S), NEW f, NEW g, \A x \in S : f[x] \in Int /\ g[x] \in Int /\ f[x] <= g[x]
  PROVE  SumFunctionOnSet(f, S) <= SumFunctionOnSet(g, S)
<1> DEFINE A == {T \in SUBSET S : SumFunctionOnSet(f, T) <= SumFunctionOnSet(g, T)}
<1>1. {} \in A
  BY SumEmpty
<1>2. ASSUME NEW T \in SUBSET S, NEW x \in S \ T, T \in A PROVE T \cup {x} \in A
  <2>1. SumFunctionOnSet(f, T \cup {x}) = f[x] + SumFunctionOnSet(f, T)
    BY SumAdd, FS_Subset
  <2>2. SumFunctionOnSet(g, T \cup {x}) = g[x] + SumFunctionOnSet(g, T)
    BY SumAdd, FS_Subset
  <2>3. SumFunctionOnSet(f, T) \in Int /\ SumFunctionOnSet(g, T) \in Int
    BY SumInt, FS_Subset
  <2> QED  BY <1>2, <2>1, <2>2, <2>3
<1>3. SUBSET S \subseteq A
  <2> HIDE DEF A
  <2> QED BY <1>1, <1>2, SetInduction
<1> QED  BY <1>3
(***************************************************************************)
(* Lists                                                                   *)
(***************************************************************************)
\* The members of a finite set in a strict total order, each after as many as
\* come before it.
LEMMA Ranking ==
  ASSUME NEW D, IsFiniteSet(D), NEW R,
         \A i \in D : <<i, i>> \notin R,
         \A i, k \in D : i # k => <<i, k>> \in R \/ <<k, i>> \in R,
         \A i, k, l \in D : <<i, k>> \in R /\ <<k, l>> \in R => <<i, l>> \in R
  PROVE  LET n == Cardinality(D)
             p == [m \in 1..n |-> CHOOSE i \in D : Cardinality({k \in D : <<k, i>> \in R}) = m - 1]
         IN  /\ n \in Nat /\ p \in [1..n -> D]
             /\ \A i \in D : \E m \in 1..n : p[m] = i
             /\ \A l, m \in 1..n : l < m => <<p[l], p[m]>> \in R
             /\ \A m \in 1..n : Cardinality({k \in D : <<k, p[m]>> \in R}) = m - 1
             /\ \A i, j \in D : Cardinality({k \in D : <<k, i>> \in R}) = Cardinality({k \in D : <<k, j>> \in R}) => i = j
<1> DEFINE n == Cardinality(D)
           Low(i) == {k \in D : <<k, i>> \in R}
           rank == [i \in D |-> Cardinality(Low(i))]
           N == 0..(n - 1)
           p == [m \in 1..n |-> CHOOSE i \in D : Cardinality(Low(i)) = m - 1]
<1>1. n \in Nat
  BY FS_CardinalityType
<1>2. IsFiniteSet(N) /\ Cardinality(N) = n
  <2> HIDE DEF n
  <2> QED BY <1>1, FS_Interval
<1>3. \A i \in D : IsFiniteSet(Low(i)) /\ Cardinality(Low(i)) \in Nat
  BY FS_Subset, FS_CardinalityType
<1>4. ASSUME NEW i \in D PROVE Cardinality(Low(i)) \in N
  <2>1. Low(i) \in SUBSET D /\ Low(i) # D
    OBVIOUS
  <2>2. Cardinality(Low(i)) <= n /\ Cardinality(Low(i)) # n
    <3> HIDE DEF Low
    <3> QED BY <2>1, FS_Subset
  <2> QED  BY <1>1, <1>3, <2>2
<1>5. ASSUME NEW i \in D, NEW k \in D, <<i, k>> \in R PROVE Cardinality(Low(i)) < Cardinality(Low(k))
  <2>1. Low(i) \in SUBSET Low(k) /\ Low(i) # Low(k)
    BY <1>5
  <2>2. Cardinality(Low(i)) <= Cardinality(Low(k)) /\ Cardinality(Low(i)) # Cardinality(Low(k))
    <3> HIDE DEF Low
    <3> QED BY <1>3, <2>1, FS_Subset
  <2> QED  BY <1>3, <2>2
<1> HIDE DEF Low, N
<1>6. ASSUME NEW i \in D, NEW k \in D, Cardinality(Low(i)) = Cardinality(Low(k)) PROVE i = k
  <2>1. <<i, k>> \notin R /\ <<k, i>> \notin R
    BY <1>3, <1>5, <1>6
  <2> QED  BY <2>1
<1>7. rank \in Injection(D, N)
  BY <1>4, <1>6 DEF Injection, IsInjective
<1>8. rank \in Surjection(D, N)
  <2> HIDE DEF rank
  <2> QED BY <1>2, <1>7, FS_Injection
<1>9. \A m \in N : \E i \in D : Cardinality(Low(i)) = m
  BY <1>8 DEF Surjection
<1>10. ASSUME NEW m \in 1..n PROVE p[m] \in D /\ Cardinality(Low(p[m])) = m - 1
  <2>1. m - 1 \in N
    BY <1>1 DEF N
  <2> QED  BY <1>9, <2>1
<1> HIDE DEF p
<1>11. p \in [1..n -> D]
  BY <1>10 DEF p
<1>12. ASSUME NEW i \in D PROVE \E m \in 1..n : p[m] = i
  <2>1. Cardinality(Low(i)) + 1 \in 1..n
    BY <1>1, <1>4 DEF N
  <2>2. Cardinality(Low(p[Cardinality(Low(i)) + 1])) = Cardinality(Low(i))
    BY <1>3, <1>10, <2>1
  <2> QED  BY <1>6, <1>10, <2>1, <2>2
<1>13. ASSUME NEW l \in 1..n, NEW m \in 1..n, l < m PROVE <<p[l], p[m]>> \in R
  <2>1. p[l] \in D /\ p[m] \in D /\ Cardinality(Low(p[l])) = l - 1 /\ Cardinality(Low(p[m])) = m - 1
    BY <1>10
  <2>2. p[l] # p[m]
    BY <1>13, <2>1
  <2>3. ~(<<p[m], p[l]>> \in R)
    BY <1>5, <1>13, <2>1
  <2> QED  BY <2>1, <2>2, <2>3
<1> QED  BY <1>1, <1>6, <1>10, <1>11, <1>12, <1>13 DEF p, Low

\* t is what S leaves of s, in the order of the places p.
KeepsPlaces(s, S, t, p) ==
  /\ p \in [DOMAIN t -> DOMAIN s]
  /\ \A m \in DOMAIN t : t[m] = s[p[m]] /\ s[p[m]] \in S
  /\ \A l, m \in DOMAIN t : l < m => p[l] < p[m]
  /\ \A i \in DOMAIN s : s[i] \in S => \E m \in DOMAIN t : p[m] = i

\* What is kept of a list is in it, in its order, and all of what may stay.
LEMMA KeptInOrder ==
  ASSUME NEW X, NEW seq \in Seq(X), NEW S
  PROVE  /\ Keeping(seq, S) \in Seq(X)
         /\ Len(Keeping(seq, S)) = Cardinality({i \in DOMAIN seq : seq[i] \in S})
         /\ Range(Keeping(seq, S)) = Range(seq) \cap S
         /\ \E p : KeepsPlaces(seq, S, Keeping(seq, S), p)
<1> DEFINE D == {i \in DOMAIN seq : seq[i] \in S}
           R == {r \in D \X D : r[1] < r[2]}
           n == Cardinality(D)
           p == [m \in 1..n |-> CHOOSE i \in D : Cardinality({k \in D : <<k, i>> \in R}) = m - 1]
           q == [m \in 1..n |-> CHOOSE i \in D : Cardinality({k \in D : k < i}) = m - 1]
<1>1. DOMAIN seq = 1..Len(seq) /\ Len(seq) \in Nat /\ D \subseteq Nat
  OBVIOUS
<1>2. IsFiniteSet(D)
  <2>1. D \subseteq 1..Len(seq) /\ IsFiniteSet(1..Len(seq))
    BY <1>1, FS_Interval
  <2> HIDE DEF D
  <2> QED BY <2>1, FS_Subset
<1>3. /\ n \in Nat /\ p \in [1..n -> D]
      /\ \A i \in D : \E m \in 1..n : p[m] = i
      /\ \A l, m \in 1..n : l < m => <<p[l], p[m]>> \in R
      /\ \A m \in 1..n : Cardinality({k \in D : <<k, p[m]>> \in R}) = m - 1
      /\ \A i, j \in D : Cardinality({k \in D : <<k, i>> \in R}) = Cardinality({k \in D : <<k, j>> \in R}) => i = j
  <2>1. \A i \in D : <<i, i>> \notin R
    BY <1>1
  <2>2. \A i, k \in D : i # k => <<i, k>> \in R \/ <<k, i>> \in R
    BY <1>1
  <2>3. \A i, k, l \in D : <<i, k>> \in R /\ <<k, l>> \in R => <<i, l>> \in R
    BY <1>1
  <2> HIDE DEF D, R
  <2> QED  BY <1>2, <2>1, <2>2, <2>3, Ranking
<1>4. \A i \in D : {k \in D : <<k, i>> \in R} = {k \in D : k < i}
  OBVIOUS
<1>5. ASSUME NEW m \in 1..n PROVE p[m] = q[m]
  <2> HIDE DEF D, R, n, p
  <2>1. p[m] \in D /\ Cardinality({k \in D : k < p[m]}) = m - 1
    BY <1>3, <1>4
  <2>2. q[m] \in D /\ Cardinality({k \in D : k < q[m]}) = m - 1
    BY <2>1
  <2> HIDE DEF q
  <2>3. Cardinality({k \in D : <<k, p[m]>> \in R}) = Cardinality({k \in D : <<k, q[m]>> \in R})
    BY <1>4, <2>1, <2>2
  <2> QED  BY <1>3, <2>1, <2>2, <2>3
<1>6. Keeping(seq, S) = [m \in 1..n |-> seq[q[m]]]
  BY DEF Keeping
<1> HIDE DEF p, q, n
<1>7. Keeping(seq, S) = [m \in 1..n |-> seq[p[m]]]
  BY <1>5, <1>6
<1>8. \A m \in 1..n : p[m] \in DOMAIN seq /\ seq[p[m]] \in S
  BY <1>3
<1>9. Keeping(seq, S) \in Seq(X) /\ Len(Keeping(seq, S)) = n /\ DOMAIN Keeping(seq, S) = 1..n
  <2>1. \A m \in 1..n : seq[p[m]] \in X
    BY <1>8
  <2> QED  BY <1>3, <1>7, <2>1
<1>10. \A l, m \in 1..n : l < m => p[l] < p[m]
  BY <1>3
<1>11. p \in [1..n -> DOMAIN seq] /\ \A i \in DOMAIN seq : seq[i] \in S => \E m \in 1..n : p[m] = i
  BY <1>3, <1>8
<1>12. Range(Keeping(seq, S)) = Range(seq) \cap S
  <2>1. \A m \in 1..n : Keeping(seq, S)[m] = seq[p[m]]
    BY <1>7
  <2>2. Range(Keeping(seq, S)) \subseteq Range(seq) \cap S
    BY <1>8, <1>9, <2>1 DEF Range
  <2>3. ASSUME NEW i \in DOMAIN seq, seq[i] \in S PROVE seq[i] \in Range(Keeping(seq, S))
    BY <1>9, <1>11, <2>1, <2>3 DEF Range
  <2> QED  BY <2>2, <2>3 DEF Range
<1>13. KeepsPlaces(seq, S, Keeping(seq, S), p)
  BY <1>7, <1>8, <1>9, <1>10, <1>11, SMTT(30) DEF KeepsPlaces
<1> QED  BY <1>9, <1>12, <1>13 DEF n

\* The same, of the list alone.
LEMMA Kept ==
  ASSUME NEW X, NEW seq \in Seq(X), NEW S
  PROVE  Keeping(seq, S) \in Seq(X) /\ Range(Keeping(seq, S)) = Range(seq) \cap S
BY KeptInOrder, Zenon
(***************************************************************************)
(* Lists of lists                                                          *)
(***************************************************************************)
\* What two lists have, one behind the other.
LEMMA ConcatSet ==
  ASSUME NEW X, NEW s \in Seq(X), NEW t \in Seq(X)
  PROVE  s \o t \in Seq(X) /\ ToSet(s \o t) = ToSet(s) \cup ToSet(t)
<1>1. s \o t \in Seq(X) /\ Len(s \o t) = Len(s) + Len(t) /\ Len(s) \in Nat /\ Len(t) \in Nat
  OBVIOUS
<1>2. \A i \in 1..Len(s) : (s \o t)[i] = s[i]
  OBVIOUS
<1>3. \A i \in 1..Len(t) : (s \o t)[Len(s) + i] = t[i]
  OBVIOUS
<1>4. DOMAIN s = 1..Len(s) /\ DOMAIN t = 1..Len(t) /\ DOMAIN (s \o t) = 1..(Len(s) + Len(t))
  BY <1>1
<1>5. ASSUME NEW i \in 1..(Len(s) + Len(t)) PROVE (s \o t)[i] \in ToSet(s) \cup ToSet(t)
  <2>1. CASE i <= Len(s)
    BY <1>1, <1>2, <1>4, <2>1 DEF ToSet
  <2>2. CASE i > Len(s)
    <3>1. i - Len(s) \in 1..Len(t) /\ Len(s) + (i - Len(s)) = i
      BY <1>1, <2>2
    <3>2. (s \o t)[i] = t[i - Len(s)]
      BY <1>3, <3>1
    <3> QED  BY <1>4, <3>1, <3>2 DEF ToSet
  <2> QED  BY <1>1, <2>1, <2>2
<1>6. \A i \in 1..Len(s) : s[i] \in ToSet(s \o t)
  BY <1>1, <1>2, <1>4 DEF ToSet
<1>7. ASSUME NEW i \in 1..Len(t) PROVE t[i] \in ToSet(s \o t)
  <2>1. Len(s) + i \in DOMAIN (s \o t)
    BY <1>1, <1>4
  <2> QED  BY <1>3, <2>1 DEF ToSet
<1>8. ToSet(s \o t) \subseteq ToSet(s) \cup ToSet(t)
  BY <1>4, <1>5 DEF ToSet
<1>9. ToSet(s) \cup ToSet(t) \subseteq ToSet(s \o t)
  BY <1>4, <1>6, <1>7 DEF ToSet
<1> QED  BY <1>1, <1>8, <1>9

\* The equation of the first lists of a list, put together.
FlattenEquation(seqs, g) ==
  g = [i \in 1..Len(seqs) |-> IF i = 1 THEN seqs[i] ELSE g[i - 1] \o seqs[i]]

LEMMA FlattenExists ==
  ASSUME NEW X, NEW seqs \in Seq(Seq(X))
  PROVE  \E g : FlattenEquation(seqs, g)
<1> DEFINE Step(g, i) == IF i = 1 THEN seqs[i] ELSE g[i - 1] \o seqs[i]
           Solved(n)  == \E g \in [1..n -> Seq(X)] : \A i \in 1..n : g[i] = Step(g, i)
           C          == {n \in Nat : n <= Len(seqs) => Solved(n)}
<1>1. Len(seqs) \in Nat /\ \A i \in 1..Len(seqs) : seqs[i] \in Seq(X)
  OBVIOUS
<1>2. 0 \in C
  <2> DEFINE none == [i \in 1..0 |-> << >>]
  <2>1. none \in [1..0 -> Seq(X)] /\ \A i \in 1..0 : none[i] = Step(none, i)
    OBVIOUS
  <2> HIDE DEF none, Step
  <2>2. Solved(0)
    BY <2>1
  <2> HIDE DEF Solved
  <2> QED  BY <2>2
<1>3. ASSUME NEW n \in Nat, n \in C PROVE n + 1 \in C
  <2>1. SUFFICES ASSUME n + 1 <= Len(seqs) PROVE Solved(n + 1)
    <3> HIDE DEF Solved
    <3> QED  OBVIOUS
  <2>2. PICK g \in [1..n -> Seq(X)] : \A i \in 1..n : g[i] = Step(g, i)
    <3>1. Solved(n)
      <4> HIDE DEF Solved
      <4> QED  BY <1>1, <1>3, <2>1
    <3> HIDE DEF Step
    <3> QED  BY <3>1
  <2> DEFINE h == [i \in 1..(n + 1) |-> IF i = n + 1 THEN Step(g, i) ELSE g[i]]
  <2>3. Step(g, n + 1) \in Seq(X)
    <3>1. CASE n = 0
      BY <1>1, <2>1, <3>1
    <3>2. CASE n > 0
      <4>1. g[n] \in Seq(X) /\ seqs[n + 1] \in Seq(X)
        BY <1>1, <2>1, <3>2
      <4> QED  BY <3>2, <4>1
    <3> QED  BY <3>1, <3>2
  <2> HIDE DEF Step
  <2>4. h \in [1..(n + 1) -> Seq(X)]
    BY <2>3
  <2>5. \A i \in 1..(n + 1) : h[i] = Step(g, i)
    BY <2>2
  <2>6. \A i \in 1..(n + 1) : Step(h, i) = Step(g, i)
    BY DEF Step
  <2> HIDE DEF h
  <2>7. \A i \in 1..(n + 1) : h[i] = Step(h, i)
    BY <2>5, <2>6
  <2> QED  BY <2>4, <2>7
<1>4. Nat \subseteq C
  <2> HIDE DEF C
  <2> QED  BY <1>2, <1>3, Induction
<1>5. PICK g \in [1..Len(seqs) -> Seq(X)] : \A i \in 1..Len(seqs) : g[i] = Step(g, i)
  <2>1. Solved(Len(seqs))
    <3> HIDE DEF Solved
    <3> QED  BY <1>1, <1>4
  <2> HIDE DEF Step
  <2> QED  BY <2>1
<1>6. g = [i \in 1..Len(seqs) |-> Step(g, i)]
  BY <1>5
<1> QED  BY <1>6 DEF FlattenEquation

LEMMA FlattenSolution ==
  ASSUME NEW X, NEW seqs \in Seq(Seq(X)), NEW g, FlattenEquation(seqs, g), NEW n \in 1..Len(seqs)
  PROVE  g[n] \in Seq(X) /\ ToSet(g[n]) = UNION {ToSet(seqs[k]) : k \in 1..n}
<1> DEFINE Upto(m) == UNION {ToSet(seqs[k]) : k \in 1..m}
           C == {m \in Nat : m + 1 \in 1..Len(seqs) => g[m + 1] \in Seq(X) /\ ToSet(g[m + 1]) = Upto(m + 1)}
<1>1. Len(seqs) \in Nat /\ \A i \in 1..Len(seqs) : seqs[i] \in Seq(X)
  OBVIOUS
<1>2. \A i \in 1..Len(seqs) : g[i] = IF i = 1 THEN seqs[i] ELSE g[i - 1] \o seqs[i]
  BY DEF FlattenEquation
<1>3. Upto(1) = ToSet(seqs[1])
  OBVIOUS
<1>4. ASSUME NEW m \in Nat, m > 0 PROVE Upto(m + 1) = Upto(m) \cup ToSet(seqs[m + 1])
  <2>1. 1..(m + 1) = (1..m) \cup {m + 1}
    BY <1>4
  <2> QED  BY <2>1
<1> HIDE DEF Upto
<1>5. 0 \in C
  <2>1. SUFFICES ASSUME 1 \in 1..Len(seqs) PROVE g[1] \in Seq(X) /\ ToSet(g[1]) = Upto(1)
    OBVIOUS
  <2>2. g[1] = seqs[1]
    BY <1>2, <2>1
  <2> QED  BY <1>1, <1>3, <2>1, <2>2
<1>6. ASSUME NEW m \in Nat, m \in C PROVE m + 1 \in C
  <2>1. SUFFICES ASSUME m + 2 \in 1..Len(seqs) PROVE g[m + 2] \in Seq(X) /\ ToSet(g[m + 2]) = Upto(m + 2)
    BY <1>6
  <2>2. m + 1 \in 1..Len(seqs) /\ m + 2 # 1 /\ (m + 2) - 1 = m + 1
    BY <1>1, <2>1
  <2>3. g[m + 2] = g[m + 1] \o seqs[m + 2]
    BY <1>2, <2>1, <2>2
  <2>4. g[m + 1] \in Seq(X) /\ ToSet(g[m + 1]) = Upto(m + 1) /\ seqs[m + 2] \in Seq(X)
    BY <1>1, <1>6, <2>1, <2>2
  <2>5. g[m + 2] \in Seq(X) /\ ToSet(g[m + 2]) = ToSet(g[m + 1]) \cup ToSet(seqs[m + 2])
    BY <2>3, <2>4, ConcatSet
  <2>6. Upto(m + 2) = Upto(m + 1) \cup ToSet(seqs[m + 2])
    <3>1. m + 1 \in Nat /\ m + 1 > 0 /\ (m + 1) + 1 = m + 2
      OBVIOUS
    <3> QED  BY <1>4, <3>1
  <2> QED  BY <2>4, <2>5, <2>6
<1>7. Nat \subseteq C
  <2> HIDE DEF C
  <2> QED  BY <1>5, <1>6, Induction
<1>8. n - 1 \in Nat /\ (n - 1) + 1 = n
  BY <1>1
<1> QED  BY <1>7, <1>8 DEF Upto

\* FlattenSeq has what the lists have.
LEMMA Flattened ==
  ASSUME NEW X, NEW seqs \in Seq(Seq(X))
  PROVE  FlattenSeq(seqs) \in Seq(X) /\ ToSet(FlattenSeq(seqs)) = UNION {ToSet(seqs[k]) : k \in DOMAIN seqs}
<1>1. CASE Len(seqs) = 0
  <2>1. seqs = << >>
    BY <1>1
  <2> QED  BY <1>1, <2>1 DEF FlattenSeq, ToSet
<1>2. CASE Len(seqs) # 0
  <2>1. PICK g : g = CHOOSE f : FlattenEquation(seqs, f)
    OBVIOUS
  <2>2. FlattenSeq(seqs) = g[Len(seqs)]
    BY <1>2, <2>1 DEF FlattenSeq, FlattenEquation
  <2>3. FlattenEquation(seqs, g)
    BY <2>1, FlattenExists
  <2>4. \A m \in 1..Len(seqs) : g[m] \in Seq(X) /\ ToSet(g[m]) = UNION {ToSet(seqs[k]) : k \in 1..m}
    BY <2>3, FlattenSolution, ZenonT(30)
  <2>5. Len(seqs) \in 1..Len(seqs) /\ DOMAIN seqs = 1..Len(seqs)
    BY <1>2
  <2> QED  BY <2>2, <2>4, <2>5
<1> QED  BY <1>1, <1>2

\* SetToSeq lists the set.
LEMMA Listing ==
  ASSUME NEW S, IsFiniteSet(S)
  PROVE  SetToSeq(S) \in Seq(S) /\ ToSet(SetToSeq(S)) = S
<1> DEFINE n == Cardinality(S)
           q == SetToSeq(S)
<1>1. n \in Nat /\ IsFiniteSet(1..n) /\ Cardinality(1..n) = n
  BY FS_CardinalityType, FS_Interval
<1>2. ExistsBijection(1..n, S)
  BY FS_CardinalityType
<1>3. \E f \in [1..n -> S] : IsInjective(f)
  BY <1>2 DEF ExistsBijection, Bijection, Injection, IsInjective
<1>4. q \in [1..n -> S] /\ IsInjective(q)
  BY <1>3 DEF SetToSeq
<1> HIDE DEF n, q
<1>5. q \in Surjection(1..n, S)
  <2>1. q \in Injection(1..n, S)
    BY <1>4 DEF Injection, IsInjective
  <2> QED  BY <1>1, <2>1, FS_Injection DEF n
<1>6. q \in Seq(S) /\ DOMAIN q = 1..n
  BY <1>1, <1>4
<1>7. ToSet(q) = S
  BY <1>4, <1>5, <1>6 DEF ToSet, Surjection
<1> QED  BY <1>6, <1>7 DEF q
\* A list has finitely many elements.
LEMMA ListFinite ==
  ASSUME NEW X, NEW s \in Seq(X)
  PROVE  IsFiniteSet(ToSet(s)) /\ ToSet(s) \subseteq X
<1>1. DOMAIN s = 1..Len(s) /\ Len(s) \in Nat
  OBVIOUS
<1>2. IsFiniteSet(DOMAIN s)
  BY <1>1, FS_Interval
<1>3. s \in Surjection(DOMAIN s, ToSet(s))
  BY DEF Surjection, ToSet
<1>4. IsFiniteSet(ToSet(s))
  BY <1>2, <1>3, FS_Surjection
<1> QED  BY <1>1, <1>4 DEF ToSet

LEMMA PairSize ==
  ASSUME NEW v, NEW w, v # w
  PROVE  IsFiniteSet({v, w}) /\ Cardinality({v, w}) = 2
<1>1. IsFiniteSet({v}) /\ Cardinality({v}) = 1
  BY FS_Singleton
<1>2. IsFiniteSet({v} \cup {w}) /\ Cardinality({v} \cup {w}) = 2
  BY <1>1, FS_AddElement
<1>3. {v, w} = {v} \cup {w}
  OBVIOUS
<1> QED  BY <1>2, <1>3
(***************************************************************************)
(* Weights of lists                                                        *)
(***************************************************************************)
\* A sum stays the same when its terms change places.
LEMMA SumMoved ==
  ASSUME NEW S, IsFiniteSet(S), NEW T, NEW p \in Bijection(S, T), NEW f, \A y \in T : f[y] \in Int,
         NEW g, \A x \in S : g[x] = f[p[x]]
  PROVE  SumFunctionOnSet(g, S) = SumFunctionOnSet(f, T)
<1> DEFINE Image(U) == {p[x] : x \in U}
           A == {U \in SUBSET S : IsFiniteSet(Image(U)) /\ SumFunctionOnSet(g, U) = SumFunctionOnSet(f, Image(U))}
<1>1. /\ \A x \in S : p[x] \in T /\ g[x] \in Int
      /\ \A x, y \in S : p[x] = p[y] => x = y
      /\ \A y \in T : \E x \in S : p[x] = y
  BY DEF Bijection, Injection, Surjection, IsInjective
<1>2. {} \in A
  <2>1. Image({}) = {}
    OBVIOUS
  <2> QED  BY <2>1, SumEmpty, FS_EmptySet
<1>3. ASSUME NEW U \in SUBSET S, NEW x \in S \ U, U \in A PROVE U \cup {x} \in A
  <2>1. SumFunctionOnSet(g, U \cup {x}) = g[x] + SumFunctionOnSet(g, U)
    BY <1>1, SumAdd, FS_Subset
  <2>2. Image(U \cup {x}) = Image(U) \cup {p[x]} /\ p[x] \notin Image(U) /\ Image(U) \subseteq T
    BY <1>1
  <2>3. IsFiniteSet(Image(U))
    BY <1>3
  <2> HIDE DEF Image
  <2>4. SumFunctionOnSet(f, Image(U) \cup {p[x]}) = f[p[x]] + SumFunctionOnSet(f, Image(U))
    BY <1>1, <2>2, <2>3, SumAdd
  <2>5. IsFiniteSet(Image(U) \cup {p[x]})
    BY <2>3, FS_AddElement
  <2> QED  BY <1>1, <1>3, <2>1, <2>2, <2>4, <2>5
<1>4. SUBSET S \subseteq A
  <2> HIDE DEF A
  <2> QED BY <1>2, <1>3, SetInduction
<1>5. Image(S) = T
  BY <1>1
<1> HIDE DEF Image
<1> QED  BY <1>4, <1>5

\* Sums of the same terms, taken together.
LEMMA SumTogether ==
  ASSUME NEW S, IsFiniteSet(S), NEW f, NEW g, NEW h,
         \A x \in S : f[x] \in Int /\ g[x] \in Int /\ h[x] = f[x] + g[x]
  PROVE  SumFunctionOnSet(h, S) = SumFunctionOnSet(f, S) + SumFunctionOnSet(g, S)
<1> DEFINE A == {T \in SUBSET S : SumFunctionOnSet(h, T) = SumFunctionOnSet(f, T) + SumFunctionOnSet(g, T)}
<1>1. {} \in A
  BY SumEmpty
<1>2. ASSUME NEW T \in SUBSET S, NEW x \in S \ T, T \in A PROVE T \cup {x} \in A
  <2>1. IsFiniteSet(T)
    BY FS_Subset
  <2>2. /\ SumFunctionOnSet(f, T \cup {x}) = f[x] + SumFunctionOnSet(f, T)
        /\ SumFunctionOnSet(g, T \cup {x}) = g[x] + SumFunctionOnSet(g, T)
    BY <2>1, SumAdd
  <2>3. SumFunctionOnSet(h, T \cup {x}) = h[x] + SumFunctionOnSet(h, T)
    <3>1. \A y \in S : h[y] \in Int
      OBVIOUS
    <3> QED  BY <2>1, <3>1, SumAdd
  <2>4. SumFunctionOnSet(f, T) \in Int /\ SumFunctionOnSet(g, T) \in Int
    BY <2>1, SumInt
  <2>5. h[x] = f[x] + g[x] /\ f[x] \in Int /\ g[x] \in Int
    OBVIOUS
  <2>6. SumFunctionOnSet(h, T) = SumFunctionOnSet(f, T) + SumFunctionOnSet(g, T)
    BY <1>2
  <2>7. SumFunctionOnSet(h, T \cup {x}) = SumFunctionOnSet(f, T \cup {x}) + SumFunctionOnSet(g, T \cup {x})
    BY <2>2, <2>3, <2>4, <2>5, <2>6
  <2> QED  BY <2>7
<1>3. SUBSET S \subseteq A
  <2> HIDE DEF A
  <2> QED BY <1>1, <1>2, SetInduction
<1> QED  BY <1>3

\* The weight of a list whose elements weigh w.
Weight(s, w) == SumFunctionOnSet([i \in DOMAIN s |-> w[s[i]]], DOMAIN s)

LEMMA WeightSum ==
  ASSUME NEW X, NEW s \in Seq(X), NEW w \in [X -> Nat], NEW f, \A i \in DOMAIN s : f[i] = w[s[i]]
  PROVE  /\ IsFiniteSet(DOMAIN s)
         /\ \A i \in DOMAIN s : f[i] \in Nat
         /\ Weight(s, w) = SumFunctionOnSet(f, DOMAIN s) /\ Weight(s, w) \in Nat
<1>1. IsFiniteSet(DOMAIN s) /\ \A i \in DOMAIN s : s[i] \in X
  <2>1. Len(s) \in Nat /\ DOMAIN s = 1..Len(s) /\ \A i \in DOMAIN s : s[i] \in X
    OBVIOUS
  <2> QED  BY <2>1, FS_Interval
<1> DEFINE h == [i \in DOMAIN s |-> w[s[i]]]
<1>2. \A i \in DOMAIN s : h[i] \in Nat /\ h[i] = f[i]
  BY <1>1
<1>3. Weight(s, w) = SumFunctionOnSet(h, DOMAIN s)
  BY DEF Weight
<1> HIDE DEF h
<1>4. SumFunctionOnSet(h, DOMAIN s) \in Nat /\ SumFunctionOnSet(h, DOMAIN s) = SumFunctionOnSet(f, DOMAIN s)
  <2>1. PICK D : D = DOMAIN s
    OBVIOUS
  <2>2. IsFiniteSet(D) /\ (\A i \in D : h[i] \in Nat) /\ (\A i \in D : h[i] \in Int /\ h[i] = f[i])
    BY <1>1, <1>2, <2>1
  <2>3. SumFunctionOnSet(h, D) \in Nat
    BY <2>2, SumNat
  <2>4. SumFunctionOnSet(h, D) = SumFunctionOnSet(f, D)
    BY <2>2, SumSame
  <2> QED  BY <2>1, <2>3, <2>4
<1> QED  BY <1>1, <1>2, <1>3, <1>4

\* What a list weighs is a number.
LEMMA WeightNat ==
  ASSUME NEW X, NEW s \in Seq(X), NEW w \in [X -> Nat]
  PROVE  Weight(s, w) \in Nat
<1>1. PICK f : f = [i \in DOMAIN s |-> w[s[i]]]
  OBVIOUS
<1>2. \A i \in DOMAIN s : f[i] = w[s[i]]
  BY <1>1
<1> QED  BY <1>2, WeightSum

\* The weights of the lists of a list of lists.
Each(X, w) == [s \in Seq(X) |-> Weight(s, w)]

LEMMA EachWeighs ==
  ASSUME NEW X, NEW w \in [X -> Nat]
  PROVE  Each(X, w) \in [Seq(X) -> Nat] /\ \A s \in Seq(X) : Each(X, w)[s] = Weight(s, w)
<1>1. \A s \in Seq(X) : Weight(s, w) \in Nat
  BY WeightNat
<1> QED  BY <1>1 DEF Each

LEMMA WeightEmpty ==
  ASSUME NEW w
  PROVE  Weight(<< >>, w) = 0
<1>1. DOMAIN << >> = {}
  OBVIOUS
<1> QED  BY <1>1, SumEmpty DEF Weight

LEMMA WeightConcat ==
  ASSUME NEW X, NEW s \in Seq(X), NEW t \in Seq(X), NEW w \in [X -> Nat]
  PROVE  Weight(s \o t, w) = Weight(s, w) + Weight(t, w)
<1>1. PICK m \in Nat, n \in Nat : m = Len(s) /\ n = Len(t) /\ DOMAIN s = 1..m /\ DOMAIN t = 1..n
  <2>1. Len(s) \in Nat /\ Len(t) \in Nat /\ DOMAIN s = 1..Len(s) /\ DOMAIN t = 1..Len(t)
    OBVIOUS
  <2> QED  BY <2>1
<1>2. PICK r \in Seq(X) : r = s \o t
  <2>1. s \o t \in Seq(X)
    OBVIOUS
  <2> QED  BY <2>1
<1>3. /\ DOMAIN r = 1..(m + n)
      /\ \A i \in 1..m : r[i] = s[i]
      /\ \A i \in 1..n : r[m + i] = t[i]
  <2>1. Len(s \o t) = Len(s) + Len(t) /\ \A i \in 1..Len(s) : (s \o t)[i] = s[i]
    OBVIOUS
  <2>2. \A i \in 1..Len(t) : (s \o t)[Len(s) + i] = t[i]
    OBVIOUS
  <2>3. Len(r) = m + n /\ DOMAIN r = 1..Len(r)
    BY <1>1, <1>2, <2>1
  <2> QED  BY <1>1, <1>2, <2>1, <2>2, <2>3
<1>4. PICK f : f = [i \in DOMAIN r |-> w[r[i]]]
  OBVIOUS
<1>5. PICK g : g = [i \in DOMAIN t |-> w[t[i]]]
  OBVIOUS
<1>6. IsFiniteSet(1..(m + n)) /\ (\A i \in 1..(m + n) : f[i] \in Nat) /\ Weight(r, w) = SumFunctionOnSet(f, 1..(m + n))
  <2>1. \A i \in DOMAIN r : f[i] = w[r[i]]
    BY <1>4
  <2>2. /\ IsFiniteSet(DOMAIN r) /\ (\A i \in DOMAIN r : f[i] \in Nat)
        /\ Weight(r, w) = SumFunctionOnSet(f, DOMAIN r)
    BY <2>1, WeightSum
  <2> QED  BY <1>3, <2>2
<1>7. IsFiniteSet(1..m) /\ Weight(s, w) = SumFunctionOnSet(f, 1..m)
  <2>1. \A i \in DOMAIN s : f[i] = w[s[i]]
    BY <1>1, <1>3, <1>4
  <2> QED  BY <1>1, <2>1, WeightSum, ZenonT(30)
<1>8. IsFiniteSet(1..n) /\ Weight(t, w) = SumFunctionOnSet(g, 1..n)
  <2>1. \A i \in DOMAIN t : g[i] = w[t[i]]
    BY <1>5
  <2>2. IsFiniteSet(DOMAIN t) /\ Weight(t, w) = SumFunctionOnSet(g, DOMAIN t)
    BY <2>1, WeightSum
  <2> QED  BY <1>1, <2>2
<1>9. PICK U : U = (m + 1)..(m + n)
  OBVIOUS
<1>10. 1..(m + n) = (1..m) \cup U /\ (1..m) \cap U = {} /\ U \subseteq 1..(m + n)
  BY <1>9
<1>11. SumFunctionOnSet(g, 1..n) = SumFunctionOnSet(f, U)
  <2> DEFINE p == [i \in 1..n |-> m + i]
  <2>1. p \in Bijection(1..n, U)
    <3>1. p \in [1..n -> U] /\ \A i, k \in 1..n : p[i] = p[k] => i = k
      BY <1>9
    <3>2. \A u \in U : u - m \in 1..n /\ p[u - m] = u
      BY <1>9
    <3> HIDE DEF p
    <3>3. \A u \in U : \E i \in 1..n : p[i] = u
      BY <3>2
    <3> QED  BY <3>1, <3>3 DEF Bijection, Injection, Surjection, IsInjective
  <2>2. \A i \in 1..n : g[i] = f[p[i]]
    BY <1>1, <1>3, <1>4, <1>5
  <2> HIDE DEF p
  <2>3. \A u \in U : f[u] \in Int
    BY <1>6, <1>10
  <2>4. IsFiniteSet(1..n)
    BY <1>8
  <2>5. PICK D, q : D = 1..n /\ q = p
    OBVIOUS
  <2>6. IsFiniteSet(D) /\ q \in Bijection(D, U) /\ \A i \in D : g[i] = f[q[i]]
    BY <2>1, <2>2, <2>4, <2>5
  <2>7. SumFunctionOnSet(g, D) = SumFunctionOnSet(f, U)
    BY <2>3, <2>6, SumMoved
  <2> QED  BY <2>5, <2>7
<1>12. SumFunctionOnSet(f, (1..m) \cup U) = SumFunctionOnSet(f, 1..m) + SumFunctionOnSet(f, U)
  <2>1. IsFiniteSet(U)
    BY <1>6, <1>10, FS_Subset
  <2>2. \A i \in (1..m) \cup U : f[i] \in Int
    BY <1>6, <1>10
  <2> QED  BY <1>7, <1>10, <2>1, <2>2, SumUnion
<1> QED  BY <1>2, <1>6, <1>7, <1>8, <1>10, <1>11, <1>12

LEMMA WeightSingle ==
  ASSUME NEW X, NEW x \in X, NEW w \in [X -> Nat]
  PROVE  Weight(<<x>>, w) = w[x]
<1>1. PICK s \in Seq(X) : s = <<x>>
  <2>1. <<x>> \in Seq(X)
    OBVIOUS
  <2> QED  BY <2>1
<1>2. DOMAIN s = {1} /\ s[1] = x
  BY <1>1
<1>3. PICK f : f = [i \in DOMAIN s |-> w[s[i]]]
  OBVIOUS
<1>4. Weight(s, w) = SumFunctionOnSet(f, {1}) /\ f[1] = w[x] /\ w[x] \in Nat
  BY <1>2, <1>3, WeightSum
<1>5. SumFunctionOnSet(f, {} \cup {1}) = f[1] + SumFunctionOnSet(f, {})
  <2>1. IsFiniteSet({}) /\ (\A y \in {} : f[y] \in Int) /\ 1 \notin {} /\ f[1] \in Int
    BY <1>4, FS_EmptySet
  <2> QED  BY <2>1, SumAdd
<1>6. {} \cup {1} = {1}
  OBVIOUS
<1> QED  BY <1>1, <1>4, <1>5, <1>6, SumEmpty

LEMMA WeightAppend ==
  ASSUME NEW X, NEW s \in Seq(X), NEW x \in X, NEW w \in [X -> Nat]
  PROVE  Weight(Append(s, x), w) = Weight(s, w) + w[x]
<1>1. Append(s, x) = s \o <<x>> /\ <<x>> \in Seq(X)
  OBVIOUS
<1>2. Weight(s \o <<x>>, w) = Weight(s, w) + Weight(<<x>>, w)
  BY <1>1, WeightConcat
<1> QED  BY <1>1, <1>2, WeightSingle
Replaced(X, s, k, x, t, w) ==
  /\ s \in Seq(X) /\ k \in DOMAIN s /\ x \in X /\ w \in [X -> Nat] /\ t \in Seq(X)
  /\ DOMAIN t = DOMAIN s /\ t[k] = x /\ \A i \in DOMAIN s \ {k} : t[i] = s[i]

LEMMA WeightReplace ==
  ASSUME NEW X, NEW s, NEW k, NEW x, NEW t, NEW w, Replaced(X, s, k, x, t, w)
  PROVE  Weight(t, w) + w[s[k]] = Weight(s, w) + w[x]
<1>1. /\ s \in Seq(X) /\ k \in DOMAIN s /\ x \in X /\ w \in [X -> Nat] /\ t \in Seq(X)
      /\ DOMAIN t = DOMAIN s /\ t[k] = x /\ \A i \in DOMAIN s \ {k} : t[i] = s[i]
  BY DEF Replaced
<1>2. PICK D : D = DOMAIN s
  OBVIOUS
<1>3. DOMAIN t = D /\ k \in D /\ t[k] = x /\ \A i \in D \ {k} : t[i] = s[i]
  BY <1>1, <1>2
<1>4. PICK f : f = [i \in D |-> w[s[i]]]
  OBVIOUS
<1>5. PICK g : g = [i \in D |-> w[t[i]]]
  OBVIOUS
<1>6. IsFiniteSet(D) /\ (\A i \in D : f[i] \in Nat) /\ Weight(s, w) = SumFunctionOnSet(f, D)
  <2>1. \A i \in DOMAIN s : f[i] = w[s[i]]
    BY <1>2, <1>4
  <2>2. /\ IsFiniteSet(DOMAIN s) /\ \A i \in DOMAIN s : f[i] \in Nat
        /\ Weight(s, w) = SumFunctionOnSet(f, DOMAIN s)
    BY <1>1, <2>1, WeightSum
  <2> QED  BY <1>2, <2>2
<1>7. (\A i \in D : g[i] \in Nat) /\ Weight(t, w) = SumFunctionOnSet(g, D)
  <2>1. \A i \in DOMAIN t : g[i] = w[t[i]]
    BY <1>3, <1>5
  <2>2. (\A i \in DOMAIN t : g[i] \in Nat) /\ Weight(t, w) = SumFunctionOnSet(g, DOMAIN t)
    BY <1>1, <2>1, WeightSum
  <2> QED  BY <1>3, <2>2
<1>8. PICK R : R = D \ {k}
  OBVIOUS
<1>9. IsFiniteSet(R) /\ \A i \in R : f[i] \in Int /\ f[i] = g[i]
  <2>1. IsFiniteSet(R)
    BY <1>6, <1>8, FS_Subset
  <2> QED  BY <1>3, <1>4, <1>5, <1>6, <1>8, <2>1
<1>10. SumFunctionOnSet(f, R) = SumFunctionOnSet(g, R) /\ SumFunctionOnSet(f, R) \in Int
  BY <1>9, SumSame, SumInt
<1>11. /\ SumFunctionOnSet(f, D) = f[k] + SumFunctionOnSet(f, R)
       /\ SumFunctionOnSet(g, D) = g[k] + SumFunctionOnSet(g, R)
  <2>1. (\A i \in D : f[i] \in Int) /\ (\A i \in D : g[i] \in Int)
    BY <1>6, <1>7
  <2>2. IsFiniteSet(D) /\ k \in D
    BY <1>3, <1>6
  <2>3. SumFunctionOnSet(f, D) = f[k] + SumFunctionOnSet(f, D \ {k})
    BY <2>1, <2>2, SumTake
  <2>4. SumFunctionOnSet(g, D) = g[k] + SumFunctionOnSet(g, D \ {k})
    BY <2>1, <2>2, SumTake
  <2> QED  BY <1>8, <2>3, <2>4
<1>12. f[k] = w[s[k]] /\ g[k] = w[x] /\ f[k] \in Nat /\ g[k] \in Nat
  BY <1>3, <1>4, <1>5, <1>6, <1>7
<1>13. Weight(t, w) + w[s[k]] = Weight(s, w) + w[x]
  <2>1. PICK a \in Int : a = SumFunctionOnSet(f, R) /\ a = SumFunctionOnSet(g, R)
    BY <1>10
  <2>2. PICK b \in Nat : b = w[s[k]] /\ b = f[k]
    BY <1>12
  <2>3. PICK d \in Nat : d = w[x] /\ d = g[k]
    BY <1>12
  <2>4. Weight(t, w) = d + a /\ Weight(s, w) = b + a
    BY <1>6, <1>7, <1>11, <2>1, <2>2, <2>3
  <2>5. (d + a) + b = (b + a) + d
    OBVIOUS
  <2> QED  BY <2>2, <2>3, <2>4, <2>5
<1> QED  BY <1>13

\* What a list weighs does not depend on its order.
LEMMA WeightMoved ==
  ASSUME NEW X, NEW s \in Seq(X), NEW t \in Seq(X), NEW p \in Bijection(DOMAIN t, DOMAIN s),
         \A i \in DOMAIN t : t[i] = s[p[i]], NEW w \in [X -> Nat]
  PROVE  Weight(t, w) = Weight(s, w)
<1>1. PICK D, E : D = DOMAIN t /\ E = DOMAIN s
  OBVIOUS
<1>2. PICK f : f = [i \in E |-> w[s[i]]]
  OBVIOUS
<1>3. PICK g : g = [i \in D |-> w[t[i]]]
  OBVIOUS
<1>4. IsFiniteSet(E) /\ (\A i \in E : f[i] \in Nat) /\ Weight(s, w) = SumFunctionOnSet(f, E)
  <2>1. \A i \in DOMAIN s : f[i] = w[s[i]]
    BY <1>1, <1>2
  <2> QED  BY <1>1, <2>1, WeightSum
<1>5. IsFiniteSet(D) /\ Weight(t, w) = SumFunctionOnSet(g, D)
  <2>1. \A i \in DOMAIN t : g[i] = w[t[i]]
    BY <1>1, <1>3
  <2> QED  BY <1>1, <2>1, WeightSum
<1>6. \A i \in D : p[i] \in E /\ g[i] = f[p[i]]
  <2>1. \A i \in D : p[i] \in E
    BY <1>1 DEF Bijection, Injection
  <2> QED  BY <1>1, <1>2, <1>3, <2>1
<1>7. \A i \in E : f[i] \in Int
  BY <1>4
<1>8. SumFunctionOnSet(g, D) = SumFunctionOnSet(f, E)
  BY <1>1, <1>5, <1>6, <1>7, SumMoved
<1> QED  BY <1>4, <1>5, <1>8

\* A list of lists put together weighs what the lists do.
LEMMA WeightFlatten ==
  ASSUME NEW X, NEW seqs \in Seq(Seq(X)), NEW w \in [X -> Nat]
  PROVE  Weight(FlattenSeq(seqs), w) = Weight(seqs, Each(X, w))
<1>0. PICK W : W = Each(X, w)
  OBVIOUS
<1>1. W \in [Seq(X) -> Nat] /\ \A s \in Seq(X) : W[s] = Weight(s, w)
  BY <1>0, EachWeighs
<1>2. PICK l \in Nat : l = Len(seqs) /\ DOMAIN seqs = 1..l /\ \A i \in 1..l : seqs[i] \in Seq(X)
  <2>1. Len(seqs) \in Nat /\ DOMAIN seqs = 1..Len(seqs) /\ \A i \in 1..Len(seqs) : seqs[i] \in Seq(X)
    OBVIOUS
  <2> QED  BY <2>1
<1>3. PICK f : f = [i \in 1..l |-> W[seqs[i]]]
  OBVIOUS
<1>4. (\A i \in 1..l : f[i] \in Nat /\ f[i] = Weight(seqs[i], w)) /\ Weight(seqs, W) = SumFunctionOnSet(f, 1..l)
  <2>1. \A i \in DOMAIN seqs : f[i] = W[seqs[i]]
    BY <1>2, <1>3
  <2>2. PICK Y : Y = Seq(X)
    OBVIOUS
  <2>3. W \in [Y -> Nat] /\ seqs \in Seq(Y)
    BY <1>1, <2>2
  <2>4. (\A i \in DOMAIN seqs : f[i] \in Nat) /\ Weight(seqs, W) = SumFunctionOnSet(f, DOMAIN seqs)
    BY <2>1, <2>3, WeightSum
  <2>5. (\A i \in 1..l : f[i] \in Nat) /\ Weight(seqs, W) = SumFunctionOnSet(f, 1..l)
    BY <1>2, <2>4
  <2> QED  BY <1>1, <1>2, <1>3, <2>5
<1>5. CASE l = 0
  <2>1. seqs = << >> /\ 1..l = {}
    BY <1>2, <1>5
  <2>2. FlattenSeq(seqs) = << >>
    BY <1>2, <1>5, <2>1 DEF FlattenSeq
  <2>3. Weight(FlattenSeq(seqs), w) = 0 /\ Weight(seqs, W) = 0
    BY <2>1, <2>2, WeightEmpty
  <2> QED  BY <1>0, <2>3
<1>6. CASE l # 0
  <2>1. PICK g : g = CHOOSE h : FlattenEquation(seqs, h)
    OBVIOUS
  <2>2. FlattenSeq(seqs) = g[l]
    BY <1>2, <1>6, <2>1 DEF FlattenSeq, FlattenEquation
  <2>3. FlattenEquation(seqs, g)
    BY <2>1, FlattenExists
  <2>4. \A n \in 1..l : g[n] \in Seq(X)
    BY <1>2, <2>3, FlattenSolution
  <2>5. \A n \in 1..l : g[n] = IF n = 1 THEN seqs[n] ELSE g[n - 1] \o seqs[n]
    BY <1>2, <2>3 DEF FlattenEquation
  <2> DEFINE C == {n \in Nat : n + 1 \in 1..l => Weight(g[n + 1], w) = SumFunctionOnSet(f, 1..(n + 1))}
  <2>6. 0 \in C
    <3>1. g[1] = seqs[1] /\ f[1] = Weight(seqs[1], w) /\ f[1] \in Nat
      BY <1>2, <1>4, <1>6, <2>5
    <3>2. SumFunctionOnSet(f, {} \cup {1}) = f[1] + SumFunctionOnSet(f, {})
      <4>1. IsFiniteSet({}) /\ (\A y \in {} : f[y] \in Int) /\ 1 \notin {} /\ f[1] \in Int
        BY <3>1, FS_EmptySet
      <4> QED  BY <4>1, SumAdd
    <3>3. {} \cup {1} = 1..(0 + 1) /\ 0 + 1 = 1
      OBVIOUS
    <3> QED  BY <3>1, <3>2, <3>3, SumEmpty
  <2>7. ASSUME NEW n \in Nat, n \in C PROVE n + 1 \in C
    <3>1. SUFFICES ASSUME n + 2 \in 1..l PROVE Weight(g[n + 2], w) = SumFunctionOnSet(f, 1..(n + 2))
      BY <2>7
    <3>2. n + 1 \in 1..l /\ n + 2 # 1 /\ (n + 2) - 1 = n + 1
      BY <3>1
    <3>3. g[n + 2] = g[n + 1] \o seqs[n + 2] /\ g[n + 1] \in Seq(X) /\ seqs[n + 2] \in Seq(X)
      BY <1>2, <2>4, <2>5, <3>1, <3>2
    <3>4. Weight(g[n + 2], w) = Weight(g[n + 1], w) + f[n + 2]
      BY <1>4, <3>1, <3>3, WeightConcat
    <3>5. Weight(g[n + 1], w) = SumFunctionOnSet(f, 1..(n + 1))
      BY <2>7, <3>2
    <3>6. PICK U : U = 1..(n + 1)
      OBVIOUS
    <3>7. IsFiniteSet(U) /\ (\A i \in U : f[i] \in Int) /\ n + 2 \notin U /\ f[n + 2] \in Int /\ U \cup {n + 2} = 1..(n + 2)
      <4>1. IsFiniteSet(1..(n + 1))
        <5>1. n + 1 \in Int /\ 1 \in Int
          OBVIOUS
        <5> QED  BY <5>1, FS_Interval
      <4>2. \A i \in U : i \in 1..l
        BY <3>2, <3>6
      <4>3. n + 2 \notin U /\ U \cup {n + 2} = 1..(n + 2)
        BY <3>6
      <4> QED  BY <1>4, <3>1, <3>6, <4>1, <4>2, <4>3
    <3>8. SumFunctionOnSet(f, U \cup {n + 2}) = f[n + 2] + SumFunctionOnSet(f, U)
      BY <3>7, SumAdd
    <3>9. SumFunctionOnSet(f, U) \in Int
      BY <3>7, SumInt
    <3>10. SumFunctionOnSet(f, 1..(n + 2)) = f[n + 2] + SumFunctionOnSet(f, U)
      BY <3>7, <3>8
    <3>11. Weight(g[n + 1], w) = SumFunctionOnSet(f, U)
      BY <3>5, <3>6
    <3> QED  BY <3>4, <3>7, <3>9, <3>10, <3>11
  <2>8. Nat \subseteq C
    <3> HIDE DEF C
    <3> QED  BY <2>6, <2>7, Induction
  <2>9. l - 1 \in Nat /\ (l - 1) + 1 = l /\ l \in 1..l
    BY <1>2, <1>6
  <2>10. Weight(g[l], w) = SumFunctionOnSet(f, 1..l)
    BY <2>8, <2>9
  <2> HIDE DEF C
  <2> QED  BY <1>0, <1>4, <2>2, <2>10
<1> QED  BY <1>5, <1>6

\* The number of places of an element is what a list weighs where nothing else
\* has any weight.
Ones(X, x) == [y \in X |-> IF y = x THEN 1 ELSE 0]

LEMMA WeightCount ==
  ASSUME NEW X, NEW s \in Seq(X), NEW x
  PROVE  Cardinality({i \in DOMAIN s : s[i] = x}) = Weight(s, Ones(X, x))
<1>0. PICK w \in [X -> Nat] : w = Ones(X, x) /\ \A y \in X : w[y] = IF y = x THEN 1 ELSE 0
  <2>1. PICK w : w = Ones(X, x)
    OBVIOUS
  <2>2. w \in [X -> Nat] /\ \A y \in X : w[y] = IF y = x THEN 1 ELSE 0
    BY <2>1 DEF Ones
  <2> QED  BY <2>1, <2>2
<1>1. PICK D : D = DOMAIN s
  OBVIOUS
<1>2. PICK f : f = [i \in D |-> w[s[i]]]
  OBVIOUS
<1>3. IsFiniteSet(D) /\ Weight(s, w) = SumFunctionOnSet(f, D)
  <2>1. \A i \in DOMAIN s : f[i] = w[s[i]]
    BY <1>1, <1>2
  <2> QED  BY <1>1, <2>1, WeightSum
<1>4. \A i \in D : f[i] = (IF s[i] = x THEN 1 ELSE 0) /\ f[i] \in Int
  <2>1. \A i \in D : s[i] \in X
    BY <1>1
  <2> QED  BY <1>0, <1>2, <2>1
<1> DEFINE Places(U) == {i \in U : s[i] = x}
           A == {U \in SUBSET D : Cardinality(Places(U)) = SumFunctionOnSet(f, U)}
<1>5. {} \in A
  <2>1. Places({}) = {}
    OBVIOUS
  <2> QED  BY <2>1, SumEmpty, FS_EmptySet
<1>6. ASSUME NEW U \in SUBSET D, NEW i \in D \ U, U \in A PROVE U \cup {i} \in A
  <2>1. IsFiniteSet(U) /\ IsFiniteSet(Places(U)) /\ Cardinality(Places(U)) \in Nat
    BY <1>3, FS_Subset, FS_CardinalityType
  <2>2. SumFunctionOnSet(f, U \cup {i}) = f[i] + SumFunctionOnSet(f, U)
    BY <1>4, <2>1, SumAdd
  <2>0. Cardinality(Places(U)) = SumFunctionOnSet(f, U)
    BY <1>6
  <2>3. ASSUME s[i] = x PROVE Cardinality(Places(U \cup {i})) = SumFunctionOnSet(f, U \cup {i})
    <3>1. Places(U \cup {i}) = Places(U) \cup {i} /\ i \notin Places(U)
      BY <1>6, <2>3
    <3> HIDE DEF Places
    <3>2. Cardinality(Places(U) \cup {i}) = Cardinality(Places(U)) + 1
      BY <2>1, <3>1, FS_AddElement
    <3>3. f[i] = 1
      BY <1>4, <2>3
    <3>4. Cardinality(Places(U \cup {i})) = Cardinality(Places(U)) + 1
      BY <3>1, <3>2
    <3>5. SumFunctionOnSet(f, U \cup {i}) = 1 + Cardinality(Places(U))
      BY <2>0, <2>2, <3>3
    <3> QED  BY <2>1, <3>4, <3>5
  <2>4. ASSUME s[i] # x PROVE Cardinality(Places(U \cup {i})) = SumFunctionOnSet(f, U \cup {i})
    <3>1. Places(U \cup {i}) = Places(U)
      BY <1>6, <2>4
    <3>2. f[i] = 0
      BY <1>4, <2>4
    <3> HIDE DEF Places
    <3> QED  BY <2>0, <2>1, <2>2, <3>1, <3>2
  <2> QED  BY <2>3, <2>4
<1>7. SUBSET D \subseteq A
  <2> HIDE DEF A
  <2> QED BY <1>3, <1>5, <1>6, SetInduction
<1>8. Cardinality(Places(D)) = SumFunctionOnSet(f, D)
  <2> HIDE DEF Places
  <2> QED  BY <1>7
<1> QED  BY <1>0, <1>1, <1>3, <1>8
\* u weighs what w does in S, and nothing elsewhere.
WeighsOnly(X, s, S, w, u) ==
  /\ s \in Seq(X) /\ w \in [X -> Nat] /\ u \in [X -> Nat]
  /\ \A y \in X : u[y] = IF y \in S THEN w[y] ELSE 0

\* What is kept of a list weighs what the list does without the rest.
LEMMA WeightKept ==
  ASSUME NEW X, NEW s, NEW S, NEW w, NEW u, WeighsOnly(X, s, S, w, u)
  PROVE  Weight(Keeping(s, S), w) = Weight(s, u)
<1> SUFFICES ASSUME s \in Seq(X), w \in [X -> Nat], u \in [X -> Nat],
                    \A y \in X : u[y] = IF y \in S THEN w[y] ELSE 0
             PROVE  Weight(Keeping(s, S), w) = Weight(s, u)
  BY DEF WeighsOnly
<1>0. \E p : KeepsPlaces(s, S, Keeping(s, S), p)
  BY KeptInOrder, Zenon
<1>1. PICK t : t = Keeping(s, S)
  OBVIOUS
<1>2a. PICK p : KeepsPlaces(s, S, t, p)
  BY <1>0, <1>1
<1>2. /\ p \in [DOMAIN t -> DOMAIN s]
      /\ \A m \in DOMAIN t : t[m] = s[p[m]] /\ s[p[m]] \in S
      /\ \A l, m \in DOMAIN t : l < m => p[l] < p[m]
      /\ \A i \in DOMAIN s : s[i] \in S => \E m \in DOMAIN t : p[m] = i
  BY <1>2a DEF KeepsPlaces
<1>3. t \in Seq(X)
  BY <1>1, Kept
<1>4. PICK E : E = DOMAIN s
  OBVIOUS
<1>5. PICK D : D = {i \in E : s[i] \in S}
  OBVIOUS
<1>6. p \in Bijection(DOMAIN t, D)
  <2>1. DOMAIN s \subseteq Int /\ DOMAIN t \subseteq Int
    BY <1>3
  <2>2. p \in [DOMAIN t -> D]
    BY <1>2, <1>4, <1>5
  <2>3. ASSUME NEW l \in DOMAIN t, NEW m \in DOMAIN t, p[l] = p[m] PROVE l = m
    <3>1. ~(l < m) /\ ~(m < l)
      BY <1>2, <2>1, <2>3
    <3> QED  BY <2>1, <3>1
  <2>4. \A i \in D : \E m \in DOMAIN t : p[m] = i
    BY <1>2, <1>4, <1>5
  <2> QED  BY <2>2, <2>3, <2>4 DEF Bijection, Injection, Surjection, IsInjective
<1>7. PICK f : f = [i \in E |-> u[s[i]]]
  OBVIOUS
<1>8. IsFiniteSet(E) /\ (\A i \in E : f[i] \in Nat) /\ Weight(s, u) = SumFunctionOnSet(f, E)
  <2>1. \A i \in DOMAIN s : f[i] = u[s[i]]
    BY <1>4, <1>7
  <2> QED  BY <1>4, <2>1, WeightSum
<1>9. PICK C : C = DOMAIN t
  OBVIOUS
<1>10. PICK g : g = [i \in C |-> w[t[i]]]
  OBVIOUS
<1>11. IsFiniteSet(C) /\ Weight(t, w) = SumFunctionOnSet(g, C)
  <2>1. \A i \in DOMAIN t : g[i] = w[t[i]]
    BY <1>9, <1>10
  <2> QED  BY <1>3, <1>9, <2>1, WeightSum
<1>12. SumFunctionOnSet(g, C) = SumFunctionOnSet(f, D)
  <2>1. \A y \in D : f[y] \in Int
    BY <1>5, <1>8
  <2>2. \A x \in C : g[x] = f[p[x]]
    <3>1. \A i \in E : s[i] \in X
      BY <1>4
    <3> QED  BY <1>2, <1>4, <1>7, <1>9, <1>10, <3>1
  <2>3. p \in Bijection(C, D)
    BY <1>6, <1>9
  <2> QED  BY <1>11, <2>1, <2>2, <2>3, SumMoved
<1>13. PICK R : R = E \ D
  OBVIOUS
<1>14. IsFiniteSet(D) /\ IsFiniteSet(R) /\ D \cap R = {} /\ D \cup R = E
  BY <1>5, <1>8, <1>13, FS_Subset
<1>15. \A i \in R : f[i] = 0
  <2>1. \A i \in E : s[i] \in X
    BY <1>4
  <2> QED  BY <1>5, <1>7, <1>13, <2>1
<1>16. SumFunctionOnSet(f, R) = 0
  BY <1>14, <1>15, SumRest
<1>17. SumFunctionOnSet(f, D \cup R) = SumFunctionOnSet(f, D) + SumFunctionOnSet(f, R)
  <2>1. \A i \in D \cup R : f[i] \in Int
    BY <1>8, <1>14
  <2> QED  BY <1>14, <2>1, SumUnion
<1>18. SumFunctionOnSet(f, D) \in Int
  <2>1. \A i \in D : f[i] \in Int
    BY <1>5, <1>8
  <2> QED  BY <1>14, <2>1, SumInt
<1>19. SumFunctionOnSet(f, E) = SumFunctionOnSet(f, D)
  <2>1. PICK a \in Int : a = SumFunctionOnSet(f, D)
    BY <1>18
  <2>2. SumFunctionOnSet(f, D \cup R) = a + 0
    BY <1>16, <1>17, <2>1
  <2>3. a + 0 = a
    OBVIOUS
  <2> QED  BY <1>14, <2>1, <2>2, <2>3
<1> QED  BY <1>1, <1>8, <1>11, <1>12, <1>19

\* Divided into parts a list weighs the same.
LEMMA WeightParts ==
  ASSUME NEW X, NEW s \in Seq(X), NEW w \in [X -> Nat], NEW K, IsFiniteSet(K), NEW P,
         \A j, k \in K : j # k => P[j] \cap P[k] = {},
         \A i \in DOMAIN s : \E k \in K : s[i] \in P[k],
         NEW g, \A k \in K : g[k] = Weight(Keeping(s, P[k]), w)
  PROVE  SumFunctionOnSet(g, K) = Weight(s, w)
<1> DEFINE Only(T) == [x \in X |-> IF \E k \in T : x \in P[k] THEN w[x] ELSE 0]
           A == {T \in SUBSET K : SumFunctionOnSet(g, T) = Weight(s, Only(T))}
<1>1. PICK E : E = DOMAIN s
  OBVIOUS
<1>2. IsFiniteSet(E) /\ \A i \in E : s[i] \in X
  <2>1. PICK f : f = [i \in DOMAIN s |-> w[s[i]]]
    OBVIOUS
  <2>2. \A i \in DOMAIN s : f[i] = w[s[i]]
    BY <2>1
  <2> QED  BY <1>1, <2>2, WeightSum
<1>3. ASSUME NEW T PROVE Only(T) \in [X -> Nat]
  OBVIOUS
<1> DEFINE At(T) == [i \in E |-> Only(T)[s[i]]]
<1>4. ASSUME NEW T PROVE Weight(s, Only(T)) = SumFunctionOnSet(At(T), E) /\ \A i \in E : At(T)[i] \in Nat
  <2>1. PICK o, f : o = Only(T) /\ f = At(T)
    OBVIOUS
  <2>2. o \in [X -> Nat] /\ \A i \in DOMAIN s : f[i] = o[s[i]]
    BY <1>1, <1>3, <2>1
  <2>3. Weight(s, o) = SumFunctionOnSet(f, E) /\ \A i \in E : f[i] \in Nat
    BY <1>1, <2>2, WeightSum
  <2> HIDE DEF Only, At
  <2> QED  BY <2>1, <2>3
<1>5. {} \in A
  <2>1. \A i \in E : At({})[i] = 0
    BY <1>2
  <2>2. SumFunctionOnSet(At({}), E) = 0
    <3> HIDE DEF At
    <3> QED  BY <1>2, <2>1, SumRest
  <2>3. Weight(s, Only({})) = 0
    <3> HIDE DEF Only, At
    <3> QED  BY <1>4, <2>2
  <2> HIDE DEF Only
  <2> QED  BY <2>3, SumEmpty
<1>6. ASSUME NEW T \in SUBSET K, NEW k \in K \ T, T \in A PROVE T \cup {k} \in A
  <2>1. PICK f, h, o : f = At(T) /\ h = At({k}) /\ o = At(T \cup {k})
    OBVIOUS
  <2>2. \A i \in E : o[i] = f[i] + h[i]
    <3>1. SUFFICES ASSUME NEW i \in E PROVE o[i] = f[i] + h[i]
      OBVIOUS
    <3>2. /\ f[i] = IF \E j \in T : s[i] \in P[j] THEN w[s[i]] ELSE 0
          /\ h[i] = IF s[i] \in P[k] THEN w[s[i]] ELSE 0
          /\ o[i] = IF (\E j \in T : s[i] \in P[j]) \/ s[i] \in P[k] THEN w[s[i]] ELSE 0
      BY <1>2, <2>1
    <3>3. ~((\E j \in T : s[i] \in P[j]) /\ s[i] \in P[k])
      BY <1>6
    <3>4. w[s[i]] \in Nat
      BY <1>2
    <3> QED  BY <3>2, <3>3, <3>4
  <2> HIDE DEF At, Only
  <2>3. \A i \in E : f[i] \in Int /\ h[i] \in Int
    BY <1>4, <2>1
  <2>4. SumFunctionOnSet(o, E) = SumFunctionOnSet(f, E) + SumFunctionOnSet(h, E)
    BY <1>2, <2>2, <2>3, SumTogether
  <2>5. SumFunctionOnSet(h, E) = g[k]
    <3>1. PICK u : u = Only({k})
      OBVIOUS
    <3>2. u \in [X -> Nat]
      BY <1>3, <3>1
    <3>3. PICK q : q = P[k]
      OBVIOUS
    <3>4. \A y \in X : u[y] = IF y \in q THEN w[y] ELSE 0
      BY <3>1, <3>3 DEF Only
    <3>5. WeighsOnly(X, s, q, w, u)
      BY <3>2, <3>4 DEF WeighsOnly
    <3>6. Weight(Keeping(s, q), w) = Weight(s, u)
      BY <3>5, WeightKept
    <3> QED  BY <1>4, <2>1, <3>1, <3>3, <3>6
  <2>6. SumFunctionOnSet(f, E) = SumFunctionOnSet(g, T)
    BY <1>4, <1>6, <2>1
  <2>7. SumFunctionOnSet(g, T \cup {k}) = g[k] + SumFunctionOnSet(g, T)
    <3>1. \A j \in K : g[j] \in Int
      <4>1. SUFFICES ASSUME NEW j \in K PROVE g[j] \in Int
        OBVIOUS
      <4>2. Keeping(s, P[j]) \in Seq(X)
        BY Kept
      <4>3. PICK t \in Seq(X) : t = Keeping(s, P[j])
        BY <4>2
      <4>4. PICK v : v = [i \in DOMAIN t |-> w[t[i]]]
        OBVIOUS
      <4>5. \A i \in DOMAIN t : v[i] = w[t[i]]
        BY <4>4
      <4>6. Weight(t, w) \in Nat
        BY <4>5, WeightSum
      <4> QED  BY <4>3, <4>6
    <3>2. IsFiniteSet(T)
      BY FS_Subset
    <3> QED  BY <3>1, <3>2, SumAdd
  <2>8. SumFunctionOnSet(g, T) \in Int /\ g[k] \in Int
    <3>1. SumFunctionOnSet(f, E) \in Int /\ SumFunctionOnSet(h, E) \in Int
      BY <1>2, <2>3, SumInt
    <3> QED  BY <2>5, <2>6, <3>1
  <2>9. SumFunctionOnSet(g, T \cup {k}) = SumFunctionOnSet(o, E)
    BY <2>4, <2>5, <2>6, <2>7, <2>8
  <2>10. Weight(s, Only(T \cup {k})) = SumFunctionOnSet(o, E)
    BY <1>4, <2>1
  <2> QED  BY <2>9, <2>10
<1>7. SUBSET K \subseteq A
  <2> HIDE DEF A
  <2> QED BY <1>5, <1>6, SetInduction
<1>8. SumFunctionOnSet(g, K) = SumFunctionOnSet(At(K), E)
  <2>1. K \in A
    BY <1>7
  <2> HIDE DEF At, Only
  <2> QED  BY <1>4, <2>1
<1>9. \A i \in E : At(K)[i] = w[s[i]]
  BY <1>1, <1>2
<1>10. PICK f : f = At(K)
  OBVIOUS
<1>11. \A i \in DOMAIN s : f[i] = w[s[i]]
  BY <1>1, <1>9, <1>10
<1>12. Weight(s, w) = SumFunctionOnSet(f, E)
  BY <1>1, <1>11, WeightSum
<1> HIDE DEF At
<1> QED  BY <1>8, <1>10, <1>12
(***************************************************************************)
(* Folds of lists from the left                                            *)
(***************************************************************************)
\* The places of a list, taken from the last one back.
LEMMA LastPlace ==
  ASSUME NEW n \in Nat
  PROVE  /\ IsFiniteSet(1..n)
         /\ \A T \in SUBSET (1..n) : T # {} => Max(T) \in T
         /\ \A m \in 1..n : Max(1..m) = m /\ (1..m) \in SUBSET (1..n) /\ (1..m) \ {Max(1..m)} = 1..(m - 1)
<1>1. IsFiniteSet(1..n)
  BY FS_Interval
<1>2. ASSUME NEW T \in SUBSET (1..n), T # {} PROVE Max(T) \in T
  <2>0. PICK D : D = 1..n
    OBVIOUS
  <2>1. IsFiniteSet(T) /\ T \subseteq Int
    <3>1. IsFiniteSet(D) /\ T \in SUBSET D
      BY <1>1, <2>0
    <3>2. IsFiniteSet(T)
      BY <3>1, FS_Subset
    <3>3. T \subseteq Int
      OBVIOUS
    <3> QED  BY <3>2, <3>3
  <2>2. PICK m \in T : \A k \in T : k <= m
    BY <1>2, <2>1, GreatestNumber
  <2>3. \A k \in T : m >= k
    BY <2>1, <2>2
  <2> QED  BY <2>3 DEF Max
<1>3. ASSUME NEW m \in 1..n PROVE Max(1..m) = m
  <2>1. m \in 1..m /\ \A y \in 1..m : m >= y
    OBVIOUS
  <2>2. \A x \in 1..m : (\A y \in 1..m : x >= y) => x = m
    BY <2>1
  <2> QED  BY <2>1, <2>2 DEF Max
<1>4. \A m \in 1..n : (1..m) \in SUBSET (1..n) /\ (1..m) \ {m} = 1..(m - 1)
  OBVIOUS
<1> QED  BY <1>1, <1>2, <1>3, <1>4

\* g gives the fold of each part of a list's places: F combines what came
\* before the last of them with its element.
LeftFolding(seq, b, F, g) ==
  \A T \in SUBSET DOMAIN seq : g[T] = IF T = {} THEN b ELSE F[<<g[T \ {Max(T)}], seq[Max(T)]>>]

LEMMA LeftFoldExists ==
  ASSUME NEW X, NEW seq \in Seq(X), NEW B, NEW b \in B, NEW F \in [B \X X -> B]
  PROVE  \E g \in [SUBSET DOMAIN seq -> B] : LeftFolding(seq, b, F, g)
<1> DEFINE S == DOMAIN seq
           G == [p \in S \X B |-> F[<<p[2], seq[p[1]]>>]]
           c == [T \in SUBSET S |-> Max(T)]
<1>1. Len(seq) \in Nat /\ S = 1..Len(seq) /\ \A i \in S : seq[i] \in X
  OBVIOUS
<1>2. IsFiniteSet(S) /\ \A T \in SUBSET S : T # {} => c[T] \in T
  BY <1>1, LastPlace
<1>3. G \in [S \X B -> B]
  BY <1>1
<1>4. PICK g \in [SUBSET S -> B] : Folding(S, b, G, c, g)
  <2> HIDE DEF G, c, S
  <2> QED  BY <1>2, <1>3, FoldExists
<1>5. ASSUME NEW T \in SUBSET S, T # {}
      PROVE  G[<<c[T], g[T \ {c[T]}]>>] = F[<<g[T \ {Max(T)}], seq[Max(T)]>>]
  <2>1. c[T] = Max(T) /\ Max(T) \in S /\ T \ {Max(T)} \in SUBSET S
    BY <1>2, <1>5
  <2>2. g[T \ {Max(T)}] \in B
    BY <1>4, <2>1
  <2> QED  BY <2>1, <2>2
<1>6. LeftFolding(seq, b, F, g)
  BY <1>4, <1>5 DEF LeftFolding, Folding
<1> QED  BY <1>4, <1>6

\* What holds before the first place, and with each place but the last for the
\* next one, holds after all places.
LEMMA PrefixInduction ==
  ASSUME NEW n \in Nat, NEW g, NEW A, g[{}] \in A[0],
         \A m \in 1..n : g[1..(m - 1)] \in A[m - 1] => g[1..m] \in A[m]
  PROVE  g[1..n] \in A[n]
<1> DEFINE C == {m \in Nat : m <= n => g[1..m] \in A[m]}
<1>1. 0 \in C
  <2>1. 1..0 = {}
    OBVIOUS
  <2> QED  BY <2>1
<1>2. ASSUME NEW m \in Nat, m \in C PROVE m + 1 \in C
  <2>1. SUFFICES ASSUME m + 1 <= n PROVE g[1..(m + 1)] \in A[m + 1]
    OBVIOUS
  <2>2. m + 1 \in 1..n /\ (m + 1) - 1 = m /\ m <= n
    BY <2>1
  <2>3. g[1..((m + 1) - 1)] \in A[(m + 1) - 1]
    BY <1>2, <2>2
  <2> QED  BY <2>2, <2>3
<1>3. Nat \subseteq C
  <2> HIDE DEF C
  <2> QED  BY <1>1, <1>2, Induction
<1> QED  BY <1>3

\* The least of a set of places.
LEMMA LeastPlace ==
  ASSUME NEW T, T \subseteq Nat, T # {}
  PROVE  Min(T) \in T /\ \A k \in T : Min(T) <= k
<1>1. PICK m \in T : \A k \in T : m <= k
  BY LeastNumber
<1> QED  BY <1>1 DEF Min
\* What grows with each place by its share has the sum of the shares in the end.
Grows(n, f, B, V, g) ==
  /\ n \in Nat /\ \A i \in 1..n : f[i] \in Int
  /\ g[{}] \in B /\ V[g[{}]] = 0
  /\ \A m \in 1..n : g[1..(m - 1)] \in B => g[1..m] \in B /\ V[g[1..m]] = V[g[1..(m - 1)]] + f[m]

LEMMA PrefixSum ==
  ASSUME NEW n, NEW f, NEW B, NEW V, NEW g, Grows(n, f, B, V, g)
  PROVE  g[1..n] \in B /\ V[g[1..n]] = SumFunctionOnSet(f, 1..n)
<1>0. n \in Nat /\ \A i \in 1..n : f[i] \in Int
  BY DEF Grows
<1> DEFINE A == [m \in 0..n |-> {q \in B : V[q] = SumFunctionOnSet(f, 1..m)}]
<1>1. g[{}] \in A[0]
  <2>1. 1..0 = {}
    OBVIOUS
  <2> QED  BY <2>1, SumEmpty DEF Grows
<1>2. ASSUME NEW m \in 1..n, g[1..(m - 1)] \in A[m - 1] PROVE g[1..m] \in A[m]
  <2>1. PICK T : T = 1..(m - 1)
    OBVIOUS
  <2>2. m - 1 \in 0..n /\ m \in 0..n
    BY <1>0
  <2>3. g[T] \in B /\ V[g[T]] = SumFunctionOnSet(f, T)
    BY <1>2, <2>1, <2>2
  <2>4. g[1..m] \in B /\ V[g[1..m]] = V[g[T]] + f[m]
    BY <2>1, <2>3 DEF Grows
  <2>5. IsFiniteSet(T) /\ (\A i \in T : f[i] \in Int) /\ m \notin T /\ f[m] \in Int /\ T \cup {m} = 1..m
    <3>1. IsFiniteSet(1..(m - 1))
      <4>1. m - 1 \in Int /\ 1 \in Int
        BY <1>0
      <4> QED  BY <4>1, FS_Interval
    <3>2. (\A i \in 1..(m - 1) : f[i] \in Int) /\ m \notin 1..(m - 1) /\ f[m] \in Int
      BY <1>0
    <3>3. (1..(m - 1)) \cup {m} = 1..m
      BY <1>0
    <3> QED  BY <2>1, <3>1, <3>2, <3>3
  <2>6. SumFunctionOnSet(f, T \cup {m}) = f[m] + SumFunctionOnSet(f, T) /\ SumFunctionOnSet(f, T) \in Int
    BY <2>5, SumAdd, SumInt
  <2>7. V[g[1..m]] = SumFunctionOnSet(f, 1..m)
    <3>1. PICK a \in Int : a = SumFunctionOnSet(f, T)
      BY <2>6
    <3>2. PICK d \in Int : d = f[m]
      BY <2>5
    <3>3. V[g[1..m]] = a + d
      BY <2>3, <2>4, <3>1, <3>2
    <3>4. SumFunctionOnSet(f, 1..m) = d + a
      BY <2>5, <2>6, <3>1, <3>2
    <3>5. a + d = d + a
      OBVIOUS
    <3> QED  BY <3>3, <3>4, <3>5
  <2> QED  BY <2>2, <2>4, <2>7
<1>3. g[1..n] \in A[n]
  <2> HIDE DEF A
  <2> QED  BY <1>0, <1>1, <1>2, PrefixInduction
<1>4. n \in 0..n
  BY <1>0
<1> QED  BY <1>3, <1>4
\* Two lists weigh the same if each place does.
AlikeByPlace(X, s, v, Y, t, w) ==
  /\ s \in Seq(X) /\ v \in [X -> Nat]
  /\ t \in Seq(Y) /\ w \in [Y -> Nat]
  /\ DOMAIN t = DOMAIN s /\ \A i \in DOMAIN s : w[t[i]] = v[s[i]]

LEMMA WeightSame ==
  ASSUME NEW X, NEW s, NEW v, NEW Y, NEW t, NEW w, AlikeByPlace(X, s, v, Y, t, w)
  PROVE  Weight(t, w) = Weight(s, v)
<1>0. /\ s \in Seq(X) /\ v \in [X -> Nat]
      /\ t \in Seq(Y) /\ w \in [Y -> Nat]
      /\ DOMAIN t = DOMAIN s /\ \A i \in DOMAIN s : w[t[i]] = v[s[i]]
  BY DEF AlikeByPlace
<1>1. PICK f : f = [i \in DOMAIN s |-> v[s[i]]]
  OBVIOUS
<1>2. Weight(s, v) = SumFunctionOnSet(f, DOMAIN s)
  <2>1. \A i \in DOMAIN s : f[i] = v[s[i]]
    BY <1>1
  <2> QED  BY <1>0, <2>1, WeightSum
<1>3. Weight(t, w) = SumFunctionOnSet(f, DOMAIN t)
  <2>1. \A i \in DOMAIN t : f[i] = w[t[i]]
    BY <1>0, <1>1
  <2> QED  BY <1>0, <2>1, WeightSum
<1> QED  BY <1>0, <1>2, <1>3
=============================================================================
