----------------------------- MODULE DataTheorems -----------------------------
(***************************************************************************)
(* Facts about the data that the modules are built from. Induction over    *)
(* finite sets; what the sums of the community modules compute: the        *)
(* components add up power, throughput, tokens and histogram buckets with  *)
(* MapThenSumSet, and SumFunctionOnSet(f, S) is that sum for a function,   *)
(* which lets the lemmas do without operators as parameters; sorting by an *)
(* order (Ordering); finite sets; folds over sets and lists; FlattenSeq.   *)
(***************************************************************************)
EXTENDS Ordering, FiniteSetsExt, SequencesExt, Functions, FiniteSetTheorems, SequenceTheorems,
        WellFoundedInduction, TLAPS

------------------------------------------------------------------------------
(* Minima and induction *)

\* Among subsets of a finite set there is one that none of the others is inside.
LEMMA SmallestSubset ==
  ASSUME NEW S, IsFiniteSet(S), NEW Bad \in SUBSET SUBSET S, Bad # {}
  PROVE  \E U \in Bad : \A V \in Bad : V \subseteq U => V = U
  <1>1. Bad \subseteq FiniteSubsetsOf(S)
    BY FS_FiniteSubsetsOfFinite
  <1>2. PICK U \in Bad : \A V \in Bad : <<V, U>> \notin StrictSubsetOrdering(S)
    BY <1>1, FS_StrictSubsetOrderingWellFounded, WFMin
  <1> QED
    BY <1>2 DEF StrictSubsetOrdering

\* What holds of {} and is kept by adding an element holds of a finite set: Good
\* collects the subsets of which it holds.
LEMMA FiniteInduction ==
  ASSUME NEW S, IsFiniteSet(S), NEW Good, {} \in Good,
         \A T \in SUBSET S, x \in S : T \in Good /\ x \notin T => T \cup {x} \in Good
  PROVE  S \in Good
  <1> DEFINE Bad == {T \in SUBSET S : T \notin Good}
  <1> SUFFICES ASSUME Bad # {} PROVE FALSE
    OBVIOUS
  <1>1. PICK U \in Bad : \A V \in Bad : V \subseteq U => V = U
    <2>1. Bad \in SUBSET SUBSET S
      OBVIOUS
    <2> HIDE DEF Bad
    <2> QED
      BY <2>1, SmallestSubset
  <1>2. PICK x \in U : TRUE
    OBVIOUS
  <1>3. U \ {x} \in Good
    BY <1>1, <1>2
  <1>4. (U \ {x}) \cup {x} = U
    BY <1>2
  <1> QED
    BY <1>3, <1>4

\* A nonempty finite set of integers has a least and a greatest element.
LEMMA FiniteSetHasMin ==
  ASSUME NEW S \in SUBSET Int, IsFiniteSet(S), S # {}
  PROVE  \E x \in S : \A y \in S : x <= y
  <1> DEFINE Good == {T \in SUBSET S : T # {} => \E x \in T : \A y \in T : x <= y}
  <1>1. {} \in Good
    OBVIOUS
  <1>2. ASSUME NEW T \in SUBSET S, NEW z \in S, T \in Good PROVE T \cup {z} \in Good
    <2>1. CASE T = {}
      BY <2>1
    <2>2. CASE T # {}
      <3>1. PICK x \in T : \A y \in T : x <= y
        BY <1>2, <2>2
      <3>2. CASE x <= z
        <4>1. \A y \in T \cup {z} : x <= y
          BY <3>1, <3>2
        <4> QED
          BY <4>1
      <3>3. CASE z <= x
        <4>1. \A y \in T \cup {z} : z <= y
          BY <3>1, <3>3
        <4> QED
          BY <4>1
      <3> QED
        BY <3>2, <3>3
    <2> QED
      BY <2>1, <2>2
  <1> HIDE DEF Good
  <1>3. S \in Good
    BY <1>1, <1>2, FiniteInduction
  <1> QED
    BY <1>3 DEF Good

LEMMA FiniteSetHasMax ==
  ASSUME NEW S \in SUBSET Int, IsFiniteSet(S), S # {}
  PROVE  \E x \in S : \A y \in S : y <= x
  <1> DEFINE Good == {T \in SUBSET S : T # {} => \E x \in T : \A y \in T : y <= x}
  <1>1. {} \in Good
    OBVIOUS
  <1>2. ASSUME NEW T \in SUBSET S, NEW z \in S, T \in Good PROVE T \cup {z} \in Good
    <2>1. CASE T = {}
      BY <2>1
    <2>2. CASE T # {}
      <3>1. PICK x \in T : \A y \in T : y <= x
        BY <1>2, <2>2
      <3>2. CASE z <= x
        <4>1. \A y \in T \cup {z} : y <= x
          BY <3>1, <3>2
        <4> QED
          BY <4>1
      <3>3. CASE x <= z
        <4>1. \A y \in T \cup {z} : y <= z
          BY <3>1, <3>3
        <4> QED
          BY <4>1
      <3> QED
        BY <3>2, <3>3
    <2> QED
      BY <2>1, <2>2
  <1> HIDE DEF Good
  <1>3. S \in Good
    BY <1>1, <1>2, FiniteInduction
  <1> QED
    BY <1>3 DEF Good

LEMMA ImageIsFinite ==
  ASSUME NEW S, IsFiniteSet(S), NEW f
  PROVE  IsFiniteSet({f[x] : x \in S})
  <1> DEFINE T == {f[x] : x \in S}
             g == [x \in S |-> f[x]]
  <1>1. g \in [S -> T] /\ \A t \in T : \E x \in S : g[x] = t
    OBVIOUS
  <1> HIDE DEF T, g
  <1>2. g \in Surjection(S, T)
    BY <1>1 DEF Surjection
  <1>3. IsFiniteSet(T)
    BY <1>2, FS_Surjection
  <1> QED
    BY <1>3 DEF T

\* Induction over the numbers up to n.
LEMMA IntervalInduction ==
  ASSUME NEW n \in Nat, NEW Good, 0 \in Good,
         \A k \in 0..(n - 1) : k \in Good => k + 1 \in Good
  PROVE  \A k \in 0..n : k \in Good
  <1> DEFINE Bad == {k \in 0..n : k \notin Good}
  <1> SUFFICES ASSUME Bad # {} PROVE FALSE
    OBVIOUS
  <1>1. IsFiniteSet(Bad) /\ Bad \in SUBSET Int
    <2>1. IsFiniteSet(0..n) /\ Bad \in SUBSET (0..n) /\ 0..n \subseteq Int
      BY FS_Interval
    <2> HIDE DEF Bad
    <2> QED
      BY <2>1, FS_Subset
  <1>2. PICK k \in Bad : \A j \in Bad : k <= j
    BY <1>1, FiniteSetHasMin
  <1>3. k # 0 /\ k - 1 \in 0..(n - 1)
    OBVIOUS
  <1>4. k - 1 \in Good
    BY <1>2, <1>3
  <1>5. (k - 1) + 1 = k
    OBVIOUS
  <1> QED
    BY <1>3, <1>4, <1>5

\* Induction over the natural numbers.
LEMMA NaturalInduction ==
  ASSUME NEW Good, 0 \in Good, \A k \in Nat : k \in Good => k + 1 \in Good
  PROVE  \A k \in Nat : k \in Good
  <1> TAKE k \in Nat
  <1>1. \A j \in 0..k : j \in Good
    BY IntervalInduction
  <1> QED
    BY <1>1

------------------------------------------------------------------------------
(* Sums *)

\* The equation that defines a sum: of a set without elements, and of one from
\* which some element is taken.
Taken(s) == CHOOSE x \in s : TRUE
Left(s) == s \ {Taken(s)}
SumStep(g, f, s) == IF s = {} THEN 0 ELSE f[Taken(s)] + g[Left(s)]
IsSum(g, f, S) == g = [s \in SUBSET S |-> SumStep(g, f, s)]

LEMMA SumIs ==
  ASSUME NEW f, NEW S
  PROVE  SumFunctionOnSet(f, S) = (CHOOSE g : IsSum(g, f, S))[S]
  BY DEF SumFunctionOnSet, FoldFunctionOnSet, MapThenFoldSet, Taken, Left, SumStep, IsSum

LEMMA LeftIsLess ==
  ASSUME NEW S, NEW s \in SUBSET S, s # {}
  PROVE  Taken(s) \in s /\ Left(s) \in SUBSET S /\ Left(s) # s /\ Left(s) \cup {Taken(s)} = s
         /\ Taken(s) \notin Left(s)
  BY DEF Taken, Left

\* Those subsets that have at most n elements.
Small(S, n) == {s \in SUBSET S : Cardinality(s) <= n}

\* Some function satisfies the equation: from one for sets of at most n elements one for
\* those of at most n + 1 is made.
LEMMA SumExists ==
  ASSUME NEW f, NEW S, IsFiniteSet(S)
  PROVE  \E g : IsSum(g, f, S)
  <1> DEFINE P(n) == \E g : g = [s \in Small(S, n) |-> SumStep(g, f, s)]
             Good == {n \in Nat : P(n)}
  <1>1. \A s \in SUBSET S : IsFiniteSet(s) /\ Cardinality(s) \in Nat /\ Cardinality(s) <= Cardinality(S)
    BY FS_Subset, FS_CardinalityType
  <1>2. P(0)
    <2> DEFINE g == [s \in Small(S, 0) |-> 0]
    <2>1. \A s \in Small(S, 0) : s = {}
      BY <1>1, FS_EmptySet DEF Small
    <2>2. g = [s \in Small(S, 0) |-> SumStep(g, f, s)]
      BY <2>1 DEF SumStep
    <2> QED
      BY <2>2
  <1>3. ASSUME NEW n \in Nat, P(n) PROVE P(n + 1)
    <2>1. PICK g : g = [s \in Small(S, n) |-> SumStep(g, f, s)]
      BY <1>3
    <2> DEFINE h == [s \in Small(S, n + 1) |-> SumStep(g, f, s)]
    <2>2. \A s \in Small(S, n + 1) : s # {} => Left(s) \in Small(S, n)
      <3> TAKE s \in Small(S, n + 1)
      <3> HAVE s # {}
      <3>1. IsFiniteSet(s) /\ s \in SUBSET S /\ Cardinality(s) <= n + 1
        BY <1>1 DEF Small
      <3>2. Cardinality(Left(s)) = Cardinality(s) - 1
        BY <3>1, LeftIsLess, FS_RemoveElement DEF Left
      <3> QED
        BY <1>1, <3>1, <3>2, LeftIsLess DEF Small
    <2>3. \A s \in Small(S, n) : s \in Small(S, n + 1) /\ h[s] = g[s]
      BY <2>1, <1>1 DEF Small
    <2>4. \A s \in Small(S, n + 1) : SumStep(g, f, s) = SumStep(h, f, s)
      BY <2>2, <2>3 DEF SumStep
    <2>5. h = [s \in Small(S, n + 1) |-> SumStep(h, f, s)]
      BY <2>4
    <2> QED
      BY <2>5
  <1>4. Cardinality(S) \in Nat
    BY FS_CardinalityType
  <1>5. P(Cardinality(S))
    <2>1. 0 \in Good
      BY <1>2
    <2>2. \A n \in Nat : n \in Good => n + 1 \in Good
      BY <1>3
    <2> HIDE DEF P, Good
    <2>3. Cardinality(S) \in Good
      BY <1>4, <2>1, <2>2, NaturalInduction
    <2> QED
      BY <2>3 DEF Good
  <1>6. Small(S, Cardinality(S)) = SUBSET S
    BY <1>1 DEF Small
  <1> QED
    BY <1>5, <1>6 DEF IsSum

\* Functions that satisfy it, for two sets, agree on the subsets of both.
LEMMA SumUnique ==
  ASSUME NEW f, NEW S, NEW T, IsFiniteSet(S), T \subseteq S,
         NEW g, IsSum(g, f, S), NEW h, IsSum(h, f, T)
  PROVE  g[T] = h[T]
  <1> DEFINE Good == {s \in SUBSET T : g[s] = h[s]}
  <1>1. IsFiniteSet(T)
    BY FS_Subset
  <1>2. \A s \in SUBSET T : g[s] = SumStep(g, f, s) /\ h[s] = SumStep(h, f, s)
    BY DEF IsSum
  <1> DEFINE Bad == {s \in SUBSET T : g[s] # h[s]}
  <1>3. SUFFICES ASSUME Bad # {} PROVE FALSE
    OBVIOUS
  <1>4. PICK s \in Bad : \A r \in Bad : r \subseteq s => r = s
    <2>1. Bad \in SUBSET SUBSET T
      OBVIOUS
    <2> HIDE DEF Bad
    <2> QED
      BY <1>1, <1>3, <2>1, SmallestSubset
  <1>5. s # {}
    BY <1>2, <1>4 DEF SumStep
  <1>6. g[Left(s)] = h[Left(s)]
    BY <1>4, <1>5, LeftIsLess
  <1> QED
    BY <1>2, <1>4, <1>5, <1>6 DEF SumStep

LEMMA SumOfEmpty ==
  ASSUME NEW f
  PROVE  SumFunctionOnSet(f, {}) = 0
  <1>1. \E g : IsSum(g, f, {})
    BY SumExists, FS_EmptySet
  <1>2. IsSum(CHOOSE g : IsSum(g, f, {}), f, {})
    BY <1>1
  <1> QED
    BY <1>2, SumIs DEF IsSum, SumStep

LEMMA SumTakes ==
  ASSUME NEW f, NEW S, IsFiniteSet(S), S # {}
  PROVE  SumFunctionOnSet(f, S) = f[Taken(S)] + SumFunctionOnSet(f, Left(S))
  <1> DEFINE g == CHOOSE x : IsSum(x, f, S)
             h == CHOOSE x : IsSum(x, f, Left(S))
  <1>1. IsFiniteSet(Left(S)) /\ Left(S) \subseteq S
    BY FS_RemoveElement DEF Left
  <1>2. IsSum(g, f, S)
    BY SumExists
  <1>3. IsSum(h, f, Left(S))
    BY <1>1, SumExists
  <1>4. g[S] = f[Taken(S)] + g[Left(S)]
    BY <1>2 DEF IsSum, SumStep
  <1>5. SumFunctionOnSet(f, S) = g[S] /\ SumFunctionOnSet(f, Left(S)) = h[Left(S)]
    BY SumIs
  <1> HIDE DEF g, h
  <1>6. g[Left(S)] = h[Left(S)]
    BY <1>1, <1>2, <1>3, SumUnique
  <1> QED
    BY <1>4, <1>5, <1>6

\* A sum of integers is an integer, of naturals a natural.
LEMMA SumType ==
  ASSUME NEW N \in {Int, Nat}, NEW f, NEW S, IsFiniteSet(S), \A x \in S : f[x] \in N
  PROVE  SumFunctionOnSet(f, S) \in N
  <1> DEFINE Bad == {s \in SUBSET S : SumFunctionOnSet(f, s) \notin N}
  <1>1. SUFFICES ASSUME Bad # {} PROVE FALSE
    OBVIOUS
  <1>2. PICK s \in Bad : \A r \in Bad : r \subseteq s => r = s
    <2>1. Bad \in SUBSET SUBSET S
      OBVIOUS
    <2> HIDE DEF Bad
    <2> QED
      BY <1>1, <2>1, SmallestSubset
  <1>3. s # {}
    <2>1. 0 \in N
      OBVIOUS
    <2> QED
      BY <1>2, <2>1, SumOfEmpty
  <1>4. SumFunctionOnSet(f, s) = f[Taken(s)] + SumFunctionOnSet(f, Left(s))
    <2>1. IsFiniteSet(s)
      BY FS_Subset
    <2> QED
      BY <1>3, <2>1, SumTakes
  <1>5. Taken(s) \in S /\ SumFunctionOnSet(f, Left(s)) \in N
    BY <1>2, <1>3, LeftIsLess
  <1>6. \A a, b \in N : a + b \in N
    OBVIOUS
  <1> HIDE DEF Bad
  <1>7. SumFunctionOnSet(f, s) \in N
    BY <1>4, <1>5, <1>6
  <1> QED
    BY <1>2, <1>7 DEF Bad

LEMMA SumIsInt ==
  ASSUME NEW f, NEW S, IsFiniteSet(S), \A x \in S : f[x] \in Int
  PROVE  SumFunctionOnSet(f, S) \in Int
  BY SumType

LEMMA SumIsNat ==
  ASSUME NEW f, NEW S, IsFiniteSet(S), \A x \in S : f[x] \in Nat
  PROVE  SumFunctionOnSet(f, S) \in Nat
  BY SumType

\* Any element may be the one that is taken out.
LEMMA SumTakesAny ==
  ASSUME NEW f, NEW S, IsFiniteSet(S), \A x \in S : f[x] \in Int, NEW x \in S
  PROVE  SumFunctionOnSet(f, S) = f[x] + SumFunctionOnSet(f, S \ {x})
  <1> DEFINE Sm(s) == SumFunctionOnSet(f, s)
             Bad == {s \in SUBSET S : \E y \in s : Sm(s) # f[y] + Sm(s \ {y})}
  <1> HIDE DEF Sm
  <1>1. SUFFICES ASSUME Bad # {} PROVE FALSE
    BY DEF Sm
  <1>2. PICK s \in Bad : \A r \in Bad : r \subseteq s => r = s
    <2>1. Bad \in SUBSET SUBSET S
      OBVIOUS
    <2> HIDE DEF Bad
    <2> QED
      BY <1>1, <2>1, SmallestSubset
  <1>3. PICK y \in s : Sm(s) # f[y] + Sm(s \ {y})
    BY <1>2
  <1>4. ASSUME NEW r \in SUBSET S
        PROVE  Sm(r) \in Int /\ (r # {} => Sm(r) = f[Taken(r)] + Sm(Left(r)))
    <2>1. IsFiniteSet(r)
      BY FS_Subset
    <2> QED
      BY <2>1, SumIsInt, SumTakes DEF Sm
  <1>5. y # Taken(s)
    BY <1>3, <1>4 DEF Left
  <1> DEFINE t == Taken(s)
             rest == (s \ {y}) \ {t}
  <1>6. t \in s /\ y \in Left(s) /\ Left(s) \ {y} = rest /\ Left(s) \in SUBSET S /\ Left(s) # s
    BY <1>5, LeftIsLess DEF Left
  <1>7. Sm(s) = f[t] + Sm(Left(s))
    BY <1>4, <1>6
  <1>8. Sm(Left(s)) = f[y] + Sm(rest)
    <2>1. Left(s) \subseteq s
      BY DEF Left
    <2>2. Left(s) \notin Bad
      <3> HIDE DEF Bad
      <3> QED
        BY <1>2, <1>6, <2>1
    <2> QED
      BY <1>6, <2>2
  <1>9. Sm(s \ {y}) = f[t] + Sm(rest)
    <2>1. s \ {y} \in SUBSET S /\ s \ {y} # s /\ t \in s \ {y}
      BY <1>5, <1>6
    <2>2. s \ {y} \notin Bad
      BY <1>2, <2>1
    <2> QED
      BY <2>1, <2>2
  <1>10. f[t] \in Int /\ f[y] \in Int /\ Sm(rest) \in Int
    BY <1>4, <1>6
  <1> HIDE DEF t, rest, Bad
  <1> QED
    BY <1>3, <1>7, <1>8, <1>9, <1>10

LEMMA SumAdds ==
  ASSUME NEW f, NEW S, IsFiniteSet(S), NEW x, x \notin S, \A y \in S \cup {x} : f[y] \in Int
  PROVE  SumFunctionOnSet(f, S \cup {x}) = f[x] + SumFunctionOnSet(f, S)
  <1>1. IsFiniteSet(S \cup {x}) /\ (S \cup {x}) \ {x} = S
    BY FS_AddElement
  <1> QED
    BY <1>1, SumTakesAny

LEMMA SumOfOne ==
  ASSUME NEW f, NEW x, f[x] \in Int
  PROVE  SumFunctionOnSet(f, {x}) = f[x]
  <1>1. {} \cup {x} = {x}
    OBVIOUS
  <1>2. SumFunctionOnSet(f, {} \cup {x}) = f[x] + SumFunctionOnSet(f, {})
    BY FS_EmptySet, SumAdds
  <1> QED
    BY <1>1, <1>2, SumOfEmpty

\* Sums of functions that agree, that are added, that are compared.
LEMMA SumsAgree ==
  ASSUME NEW f, NEW h, NEW S, IsFiniteSet(S), \A x \in S : f[x] = h[x]
  PROVE  SumFunctionOnSet(f, S) = SumFunctionOnSet(h, S)
  <1> DEFINE Bad == {s \in SUBSET S : SumFunctionOnSet(f, s) # SumFunctionOnSet(h, s)}
  <1>1. SUFFICES ASSUME Bad # {} PROVE FALSE
    OBVIOUS
  <1>2. PICK s \in Bad : \A r \in Bad : r \subseteq s => r = s
    <2>1. Bad \in SUBSET SUBSET S
      OBVIOUS
    <2> HIDE DEF Bad
    <2> QED
      BY <1>1, <2>1, SmallestSubset
  <1>3. s # {}
    BY <1>2, SumOfEmpty
  <1>4. Taken(s) \in S /\ Left(s) \notin Bad /\ Left(s) \in SUBSET S
    <2>1. Left(s) \subseteq s
      BY DEF Left
    <2> QED
      BY <1>2, <1>3, <2>1, LeftIsLess
  <1>5. IsFiniteSet(s)
    BY FS_Subset
  <1>6. /\ SumFunctionOnSet(f, s) = f[Taken(s)] + SumFunctionOnSet(f, Left(s))
        /\ SumFunctionOnSet(h, s) = h[Taken(s)] + SumFunctionOnSet(h, Left(s))
    BY <1>3, <1>5, SumTakes
  <1> QED
    BY <1>2, <1>4, <1>6

LEMMA SumsAdd ==
  ASSUME NEW S, IsFiniteSet(S), NEW f, NEW h, NEW fh, \A x \in S : f[x] \in Int /\ h[x] \in Int,
         \A x \in S : fh[x] = f[x] + h[x]
  PROVE  SumFunctionOnSet(fh, S) = SumFunctionOnSet(f, S) + SumFunctionOnSet(h, S)
  <1> DEFINE Sm(g, s) == SumFunctionOnSet(g, s)
             Bad == {s \in SUBSET S : Sm(fh, s) # Sm(f, s) + Sm(h, s)}
  <1> HIDE DEF Sm
  <1>1. SUFFICES ASSUME Bad # {} PROVE FALSE
    BY DEF Sm
  <1>2. PICK s \in Bad : \A r \in Bad : r \subseteq s => r = s
    <2>1. Bad \in SUBSET SUBSET S
      OBVIOUS
    <2> HIDE DEF Bad
    <2> QED
      BY <1>1, <2>1, SmallestSubset
  <1>3. s # {}
    <2>1. Sm(fh, {}) = 0 /\ Sm(f, {}) = 0 /\ Sm(h, {}) = 0
      BY SumOfEmpty DEF Sm
    <2>2. Sm(fh, {}) = Sm(f, {}) + Sm(h, {})
      BY <2>1
    <2>3. {} \notin Bad
      BY <2>2
    <2> HIDE DEF Bad
    <2> QED
      BY <1>2, <2>3
  <1>4. Taken(s) \in S /\ Left(s) \notin Bad /\ Left(s) \in SUBSET S
    <2>1. Left(s) \subseteq s
      BY DEF Left
    <2> QED
      BY <1>2, <1>3, <2>1, LeftIsLess
  <1>5. /\ Sm(f, s) = f[Taken(s)] + Sm(f, Left(s))
        /\ Sm(h, s) = h[Taken(s)] + Sm(h, Left(s))
        /\ Sm(fh, s) = fh[Taken(s)] + Sm(fh, Left(s))
    <2>1. IsFiniteSet(s)
      BY FS_Subset
    <2> QED
      BY <1>3, <2>1, SumTakes DEF Sm
  <1>6. Sm(f, Left(s)) \in Int /\ Sm(h, Left(s)) \in Int
    BY <1>4, SumIsInt, FS_Subset DEF Sm
  <1>7. Sm(fh, Left(s)) = Sm(f, Left(s)) + Sm(h, Left(s))
    BY <1>4
  <1>8. Sm(fh, s) # Sm(f, s) + Sm(h, s)
    BY <1>2
  <1> HIDE DEF Bad
  <1> QED
    BY <1>4, <1>5, <1>6, <1>7, <1>8

LEMMA SumOfZeros ==
  ASSUME NEW f, NEW S, IsFiniteSet(S), \A x \in S : f[x] = 0
  PROVE  SumFunctionOnSet(f, S) = 0
  <1>1. /\ \A x \in S : f[x] \in Int
        /\ \A x \in S : f[x] = f[x] + f[x]
    OBVIOUS
  <1>2. SumFunctionOnSet(f, S) = SumFunctionOnSet(f, S) + SumFunctionOnSet(f, S)
    BY <1>1, SumsAdd
  <1>3. SumFunctionOnSet(f, S) \in Int
    BY <1>1, SumIsInt
  <1>4. \A i \in Int : i = i + i => i = 0
    OBVIOUS
  <1> QED
    BY <1>2, <1>3, <1>4

LEMMA SumsMonotone ==
  ASSUME NEW S, IsFiniteSet(S), NEW f, NEW h, \A x \in S : f[x] \in Int /\ h[x] \in Int /\ f[x] <= h[x]
  PROVE  SumFunctionOnSet(f, S) <= SumFunctionOnSet(h, S)
  <1> DEFINE d == [x \in S |-> h[x] - f[x]]
  <1>1. \A x \in S : d[x] \in Nat /\ d[x] \in Int /\ h[x] = f[x] + d[x]
    OBVIOUS
  <1> HIDE DEF d
  <1>2. SumFunctionOnSet(h, S) = SumFunctionOnSet(f, S) + SumFunctionOnSet(d, S)
    BY <1>1, SumsAdd
  <1>3. SumFunctionOnSet(d, S) \in Nat /\ SumFunctionOnSet(f, S) \in Int
    BY <1>1, SumIsNat, SumIsInt
  <1> QED
    BY <1>2, <1>3

\* If moreover one summand is less, the sum is.
LEMMA SumsStrictlyMonotone ==
  ASSUME NEW S, IsFiniteSet(S), NEW f, NEW h, \A x \in S : f[x] \in Int /\ h[x] \in Int /\ f[x] <= h[x],
         NEW y \in S, f[y] < h[y]
  PROVE  SumFunctionOnSet(f, S) < SumFunctionOnSet(h, S)
  <1>1. IsFiniteSet(S \ {y})
    BY FS_RemoveElement
  <1>2. SumFunctionOnSet(f, S \ {y}) <= SumFunctionOnSet(h, S \ {y})
    BY <1>1, SumsMonotone
  <1>3. /\ SumFunctionOnSet(f, S) = f[y] + SumFunctionOnSet(f, S \ {y})
        /\ SumFunctionOnSet(h, S) = h[y] + SumFunctionOnSet(h, S \ {y})
    BY SumTakesAny
  <1>4. SumFunctionOnSet(f, S \ {y}) \in Int /\ SumFunctionOnSet(h, S \ {y}) \in Int
    BY <1>1, SumIsInt
  <1> QED
    BY <1>2, <1>3, <1>4

------------------------------------------------------------------------------
(* What the model's modules write as MapThenSumSet *)

LEMMA MapThenSumIsSum ==
  ASSUME NEW f, NEW S
  PROVE  MapThenSumSet(LAMBDA x : f[x], S) = SumFunctionOnSet(f, S)
  BY DEF SumFunctionOnSet, FoldFunctionOnSet, MapThenFoldSet, MapThenSumSet

\* Sums over two sets that share no element add up.
LEMMA SumOfUnion ==
  ASSUME NEW f, NEW S, IsFiniteSet(S), NEW T, IsFiniteSet(T), S \cap T = {},
         \A x \in S \cup T : f[x] \in Int
  PROVE  SumFunctionOnSet(f, S \cup T) = SumFunctionOnSet(f, S) + SumFunctionOnSet(f, T)
  <1> DEFINE Sm(s) == SumFunctionOnSet(f, s)
             Good == {s \in SUBSET T : Sm(S \cup s) = Sm(S) + Sm(s)}
  <1>1. \A s : Sm(s) = SumFunctionOnSet(f, s)
    OBVIOUS
  <1> HIDE DEF Sm
  <1>2. Sm(S) \in Int
    BY <1>1, SumIsInt
  <1>3. {} \in Good
    BY <1>1, <1>2, SumOfEmpty
  <1>4. ASSUME NEW s \in SUBSET T, NEW x \in T, s \in Good, x \notin s PROVE s \cup {x} \in Good
    <2>1. IsFiniteSet(s) /\ IsFiniteSet(S \cup s)
      BY FS_Subset, FS_Union
    <2>2. Sm(s \cup {x}) = f[x] + Sm(s)
      BY <1>1, <1>4, <2>1, SumAdds
    <2>3. x \notin S \cup s /\ \A y \in (S \cup s) \cup {x} : f[y] \in Int
      BY <1>4
    <2>4. Sm((S \cup s) \cup {x}) = f[x] + Sm(S \cup s)
      BY <1>1, <2>1, <2>3, SumAdds
    <2>5. Sm(s) \in Int
      BY <1>1, <2>1, SumIsInt
    <2>6. f[x] \in Int
      OBVIOUS
    <2>7. Sm(S \cup (s \cup {x})) = Sm((S \cup s) \cup {x})
      <3>1. S \cup (s \cup {x}) = (S \cup s) \cup {x}
        OBVIOUS
      <3> QED
        BY <3>1
    <2>8. Sm(S \cup s) = Sm(S) + Sm(s)
      BY <1>4
    <2>9. Sm(S \cup (s \cup {x})) = Sm(S) + Sm(s \cup {x})
      BY <1>2, <2>2, <2>4, <2>5, <2>6, <2>7, <2>8
    <2> QED
      BY <2>9
  <1>5. T \in Good
    <2> HIDE DEF Good
    <2> QED
      BY <1>3, <1>4, FiniteInduction
  <1> QED
    BY <1>1, <1>5

\* Elements that are 0 may be left out.
LEMMA SumOfSupport ==
  ASSUME NEW f, NEW S, IsFiniteSet(S), NEW T \in SUBSET S, \A x \in T : f[x] \in Int,
         \A x \in S \ T : f[x] = 0
  PROVE  SumFunctionOnSet(f, S) = SumFunctionOnSet(f, T)
  <1>1. IsFiniteSet(T) /\ IsFiniteSet(S \ T) /\ T \cap (S \ T) = {} /\ T \cup (S \ T) = S
        /\ \A x \in T \cup (S \ T) : f[x] \in Int
    BY FS_Subset
  <1>2. SumFunctionOnSet(f, T \cup (S \ T)) = SumFunctionOnSet(f, T) + SumFunctionOnSet(f, S \ T)
    BY <1>1, SumOfUnion
  <1>3. SumFunctionOnSet(f, S \ T) = 0
    BY <1>1, SumOfZeros
  <1>4. SumFunctionOnSet(f, T) \in Int
    BY <1>1, SumIsInt
  <1>5. SumFunctionOnSet(f, T \cup (S \ T)) = SumFunctionOnSet(f, T)
    BY <1>2, <1>3, <1>4
  <1>6. T \cup (S \ T) = S
    OBVIOUS
  <1> QED
    BY <1>5, <1>6, Zenon

\* n equal values.
LEMMA SumOfConstant ==
  ASSUME NEW f, NEW S, IsFiniteSet(S), NEW n \in Nat, n = Cardinality(S), NEW v \in Int, \A x \in S : f[x] = v
  PROVE  SumFunctionOnSet(f, S) = n * v
  <1> DEFINE Good == {s \in SUBSET S : SumFunctionOnSet(f, s) = Cardinality(s) * v}
  <1>1. {} \in Good
    BY SumOfEmpty, FS_EmptySet
  <1>2. ASSUME NEW s \in SUBSET S, NEW x \in S, s \in Good, x \notin s PROVE s \cup {x} \in Good
    <2>1. IsFiniteSet(s)
      BY FS_Subset
    <2>2. PICK m \in Nat : m = Cardinality(s)
      BY <2>1, FS_CardinalityType
    <2>3. Cardinality(s \cup {x}) = m + 1
      BY <1>2, <2>1, <2>2, FS_AddElement
    <2>4. SumFunctionOnSet(f, s \cup {x}) = f[x] + SumFunctionOnSet(f, s)
      BY <1>2, <2>1, SumAdds
    <2>5. SumFunctionOnSet(f, s) = m * v /\ f[x] = v
      BY <1>2, <2>2
    <2>6. SumFunctionOnSet(f, s \cup {x}) = v + m * v
      BY <2>4, <2>5
    <2>7. v + m * v = (m + 1) * v
      OBVIOUS
    <2> QED
      BY <2>3, <2>6, <2>7
  <1>3. S \in Good
    <2> HIDE DEF Good
    <2> QED
      BY <1>1, <1>2, FiniteInduction
  <1> QED
    BY <1>3

\* A sum does not depend on the names of what is added up.
LEMMA SumOfRenamed ==
  ASSUME NEW f, NEW h, NEW S, IsFiniteSet(S), NEW T, NEW o \in [S -> T],
         \A y \in T : \E x \in S : o[x] = y, \A x, y \in S : o[x] = o[y] => x = y,
         \A x \in S : h[x] = f[o[x]], \A y \in T : f[y] \in Int
  PROVE  SumFunctionOnSet(h, S) = SumFunctionOnSet(f, T)
  <1> DEFINE Im(s) == {y \in T : \E x \in s : o[x] = y}
             Good == {s \in SUBSET S : /\ IsFiniteSet(Im(s))
                                       /\ SumFunctionOnSet(h, s) = SumFunctionOnSet(f, Im(s))}
  <1>1. {} \in Good
    <2>1. Im({}) = {}
      OBVIOUS
    <2> QED
      BY <2>1, SumOfEmpty, FS_EmptySet
  <1>2. ASSUME NEW s \in SUBSET S, NEW x \in S, s \in Good, x \notin s PROVE s \cup {x} \in Good
    <2>1. Im(s \cup {x}) = Im(s) \cup {o[x]} /\ o[x] \notin Im(s)
      BY <1>2
    <2>2. IsFiniteSet(s) /\ IsFiniteSet(Im(s)) /\ IsFiniteSet(Im(s \cup {x}))
      BY <1>2, <2>1, FS_Subset, FS_AddElement
    <2>3. SumFunctionOnSet(h, s \cup {x}) = h[x] + SumFunctionOnSet(h, s)
      BY <1>2, <2>2, SumAdds
    <2>4. /\ o[x] \notin Im(s)
          /\ \A y \in Im(s) \cup {o[x]} : f[y] \in Int
      BY <2>1
    <2> HIDE DEF Im
    <2>5. SumFunctionOnSet(f, Im(s) \cup {o[x]}) = f[o[x]] + SumFunctionOnSet(f, Im(s))
      BY <2>2, <2>4, SumAdds
    <2> QED
      BY <1>2, <2>1, <2>2, <2>3, <2>5
  <1>3. S \in Good
    <2> HIDE DEF Good
    <2> QED
      BY <1>1, <1>2, FiniteInduction
  <1>4. Im(S) = T
    OBVIOUS
  <1> QED
    BY <1>3, <1>4

\* The sum of a list of n equal values.
LEMMA SumOfSame ==
  ASSUME NEW n \in Nat, NEW v \in Int, NEW f, \A k \in 1..n : f[k] = v
  PROVE  SumFunctionOnSet(f, 1..n) = n * v
  <1>1. PICK S : S = 1..n
    OBVIOUS
  <1>2. IsFiniteSet(S) /\ n = Cardinality(S) /\ \A k \in S : f[k] = v
    BY <1>1, FS_Interval
  <1>3. SumFunctionOnSet(f, S) = n * v
    BY <1>2, SumOfConstant
  <1> QED
    BY <1>1, <1>3

\* Of m + n values the first m are v, and the others w.
InTwo(f, m, n, v, w) ==
  \A k \in 1..(m + n) : (k <= m => f[k] = v) /\ (k > m => f[k] = w)

\* The sum of a list of m values v and n values w.
LEMMA SumOfTwo ==
  ASSUME NEW m \in Nat, NEW n \in Nat, NEW v \in Int, NEW w \in Int, NEW f, InTwo(f, m, n, v, w)
  PROVE  SumFunctionOnSet(f, 1..(m + n)) = m * v + n * w
  <1> DEFINE s == m + n
  <1>0. \A k \in 1..s : (k <= m => f[k] = v) /\ (k > m => f[k] = w)
    BY DEF InTwo
  <1>1. PICK S, T : S = 1..m /\ T = (m + 1)..(m + n)
    OBVIOUS
  <1>2. /\ IsFiniteSet(S) /\ m = Cardinality(S)
        /\ IsFiniteSet(T) /\ n = Cardinality(T)
    <2>1. IsFiniteSet(S) /\ Cardinality(S) = IF 1 > m THEN 0 ELSE m - 1 + 1
      BY <1>1, FS_Interval
    <2>2. IsFiniteSet(T) /\ Cardinality(T) = IF m + 1 > m + n THEN 0 ELSE (m + n) - (m + 1) + 1
      BY <1>1, FS_Interval
    <2> QED
      BY <2>1, <2>2
  <1>3. /\ \A k \in S : f[k] = v
        /\ \A k \in T : f[k] = w
        /\ S \cap T = {} /\ S \cup T = 1..s
    BY <1>0, <1>1
  <1>4. SumFunctionOnSet(f, S) = m * v /\ SumFunctionOnSet(f, T) = n * w
    BY <1>2, <1>3, SumOfConstant
  <1>5. \A k \in S \cup T : f[k] \in Int
    BY <1>3
  <1>6. SumFunctionOnSet(f, S \cup T) = SumFunctionOnSet(f, S) + SumFunctionOnSet(f, T)
    <2>1. IsFiniteSet(S) /\ IsFiniteSet(T) /\ S \cap T = {}
      BY <1>2, <1>3
    <2> QED
      BY <2>1, <1>5, SumOfUnion
  <1> QED
    BY <1>3, <1>4, <1>6

\* A sum of naturals is at least each of them.
LEMMA SumHasAtLeast ==
  ASSUME NEW f, NEW S, IsFiniteSet(S), \A x \in S : f[x] \in Nat, NEW x \in S
  PROVE  f[x] <= SumFunctionOnSet(f, S)
  <1>1. SumFunctionOnSet(f, S) = f[x] + SumFunctionOnSet(f, S \ {x})
    <2>1. \A y \in S : f[y] \in Int
      OBVIOUS
    <2> QED
      BY <2>1, SumTakesAny
  <1>2. SumFunctionOnSet(f, S \ {x}) \in Nat
    <2>1. IsFiniteSet(S \ {x}) /\ \A y \in S \ {x} : f[y] \in Nat
      BY FS_RemoveElement
    <2> QED
      BY <2>1, SumIsNat
  <1> QED
    BY <1>1, <1>2

------------------------------------------------------------------------------
(* Orders *)

IsStrictOrder(R, S) ==
  /\ \A x \in S : <<x, x>> \notin R
  /\ \A x, y, z \in S : <<x, y>> \in R /\ <<y, z>> \in R => <<x, z>> \in R
  /\ \A x, y \in S : x # y => <<x, y>> \in R \/ <<y, x>> \in R

Below(S, R, x) == {y \in S : <<y, x>> \in R}

\* The n elements of S, each once.
Lists(o, n, S) ==
  /\ o \in [1..n -> S]
  /\ \A x \in S : \E k \in 1..n : o[k] = x
  /\ \A j, k \in 1..n : o[j] = o[k] => j = k

\* The positions of a list of n with these keys, the lowest key first.
Sorts(o, n, key) ==
  /\ Lists(o, n, 1..n)
  /\ \A j, k \in 1..n : j < k => key[o[j]] <= key[o[k]]

Ascends(o, n, S) ==
  /\ Lists(o, n, S)
  /\ \A j, k \in 1..n : j < k => o[j] < o[k]

\* The n elements of S in order.
IsListing(o, S, n, R) ==
  /\ o \in [1..n -> S]
  /\ \A x \in S : \E k \in 1..n : o[k] = x
  /\ \A j, k \in 1..n : j < k => <<o[j], o[k]>> \in R

\* Along an order, more and more elements are below.
LEMMA BelowGrows ==
  ASSUME NEW S, IsFiniteSet(S), NEW R, IsStrictOrder(R, S)
  PROVE  /\ \A x \in S : Cardinality(Below(S, R, x)) \in 0..(Cardinality(S) - 1)
         /\ \A x, y \in S : <<x, y>> \in R => Cardinality(Below(S, R, x)) < Cardinality(Below(S, R, y))
  <1>1. \A x \in S : Below(S, R, x) \in SUBSET S /\ Below(S, R, x) # S
    BY DEF Below, IsStrictOrder
  <1>2. Cardinality(S) \in Nat
    BY FS_CardinalityType
  <1>3. \A x \in S : IsFiniteSet(Below(S, R, x)) /\ Cardinality(Below(S, R, x)) \in Nat
    BY <1>1, FS_Subset, FS_CardinalityType
  <1>4. ASSUME NEW x \in S PROVE Cardinality(Below(S, R, x)) \in 0..(Cardinality(S) - 1)
    <2>1. Cardinality(Below(S, R, x)) <= Cardinality(S) /\ Cardinality(Below(S, R, x)) # Cardinality(S)
      BY <1>1, FS_Subset
    <2> QED
      BY <2>1, <1>2, <1>3
  <1>5. ASSUME NEW x \in S, NEW y \in S, <<x, y>> \in R
        PROVE  Cardinality(Below(S, R, x)) < Cardinality(Below(S, R, y))
    <2>1. Below(S, R, x) \in SUBSET Below(S, R, y)
      BY <1>5 DEF Below, IsStrictOrder
    <2>2. x \in Below(S, R, y) /\ x \notin Below(S, R, x)
      BY <1>5 DEF Below, IsStrictOrder
    <2>3. /\ Cardinality(Below(S, R, x)) <= Cardinality(Below(S, R, y))
          /\ Cardinality(Below(S, R, x)) # Cardinality(Below(S, R, y))
      BY <1>3, <2>1, <2>2, FS_Subset
    <2> QED
      BY <2>3, <1>3
  <1> QED
    BY <1>4, <1>5

\* A finite set, listed in an order: every element once, the smaller one earlier.
LEMMA ListedInOrder ==
  ASSUME NEW S, IsFiniteSet(S), NEW n \in Nat, n = Cardinality(S), NEW R, IsStrictOrder(R, S),
         NEW before, DOMAIN before = S, \A x \in S : before[x] = Cardinality(Below(S, R, x))
  PROVE  IsListing(Listed(before), S, n, R)
  <1> SUFFICES /\ Listed(before) \in [1..n -> S]
               /\ \A x \in S : \E k \in 1..n : Listed(before)[k] = x
               /\ \A j, k \in 1..n : j < k => <<Listed(before)[j], Listed(before)[k]>> \in R
    BY DEF IsListing
  <1>1. n = Cardinality(S)
    OBVIOUS
  <1> DEFINE rank == [x \in S |-> Cardinality(Below(S, R, x)) + 1]
  <1>2. rank \in [S -> 1..n]
    BY <1>1, BelowGrows
  <1>3. \A x, y \in S : <<x, y>> \in R => rank[x] < rank[y]
    BY BelowGrows, <1>1
  <1>4. \A x, y \in S : x # y => rank[x] # rank[y]
    <2>1. \A x, y \in S : <<x, y>> \in R => rank[x] # rank[y]
      BY <1>2, <1>3
    <2> QED
      BY <2>1 DEF IsStrictOrder
  <1>5. \A x \in S, k \in 1..n : Cardinality(Below(S, R, x)) = k - 1 <=> rank[x] = k
    BY <1>1, BelowGrows
  <1> HIDE DEF rank
  <1>6. \A k \in 1..n : \E x \in S : rank[x] = k
    <2>1. rank \in Injection(S, 1..n)
      BY <1>2, <1>4 DEF Injection, IsInjective
    <2>2. IsFiniteSet(1..n) /\ Cardinality(1..n) = n
      BY FS_Interval
    <2>3. rank \in Surjection(S, 1..n)
      BY <1>1, <2>1, <2>2, FS_Injection
    <2> QED
      BY <2>3 DEF Surjection
  <1>7. Listed(before) = [k \in 1..n |-> CHOOSE x \in S : rank[x] = k]
    BY <1>1, <1>5 DEF Listed
  <1>8. /\ Listed(before) \in [1..n -> S]
        /\ \A k \in 1..n : rank[Listed(before)[k]] = k
    BY <1>6, <1>7
  <1>9. \A x \in S : Listed(before)[rank[x]] = x /\ rank[x] \in 1..n
    BY <1>2, <1>4, <1>8
  <1>10. ASSUME NEW j \in 1..n, NEW k \in 1..n, j < k PROVE <<Listed(before)[j], Listed(before)[k]>> \in R
    <2>1. PICK x \in S, y \in S : x = Listed(before)[j] /\ y = Listed(before)[k]
      BY <1>8
    <2>2. rank[x] = j /\ rank[y] = k
      BY <1>8, <2>1
    <2>3. x # y /\ <<y, x>> \notin R
      BY <2>2, <1>3, <1>10
    <2> QED
      BY <2>1, <2>3 DEF IsStrictOrder
  <1> QED
    BY <1>1, <1>8, <1>9, <1>10

\* The order of a list by its keys: every position once, smaller keys earlier, and of
\* equal keys the one that was first.
LEMMA OrderSorts ==
  ASSUME NEW n \in Nat, NEW key \in [1..n -> Int]
  PROVE  Sorts(Order(key), n, key)
  <1> DEFINE S == DOMAIN key
             R == {p \in S \X S : key[p[1]] < key[p[2]] \/ (key[p[1]] = key[p[2]] /\ p[1] < p[2])}
             o == Order(key)
  <1>1. S = 1..n /\ \A i \in S : key[i] \in Int /\ i \in Int
    OBVIOUS
  <1> HIDE DEF S
  <1>2. \A i, j \in S : <<i, j>> \in R <=> key[i] < key[j] \/ (key[i] = key[j] /\ i < j)
    OBVIOUS
  <1> HIDE DEF R
  <1>3. \A k \in S : {j \in S : key[j] < key[k] \/ (key[j] = key[k] /\ j < k)} = Below(S, R, k)
    BY <1>2 DEF Below
  <1>4. o = Listed([k \in S |-> Cardinality(Below(S, R, k))])
    BY <1>3 DEF Order, S
  <1> HIDE DEF o
  <1>5. IsStrictOrder(R, S)
    <2>1. \A x \in S : <<x, x>> \notin R
      BY <1>1, <1>2
    <2>2. ASSUME NEW x \in S, NEW y \in S, NEW z \in S, <<x, y>> \in R, <<y, z>> \in R
          PROVE  <<x, z>> \in R
      <3>1. /\ key[x] < key[y] \/ (key[x] = key[y] /\ x < y)
            /\ key[y] < key[z] \/ (key[y] = key[z] /\ y < z)
        BY <1>2, <2>2
      <3>2. key[x] < key[z] \/ (key[x] = key[z] /\ x < z)
        BY <1>1, <3>1
      <3> QED
        BY <1>2, <3>2
    <2>3. \A x, y \in S : x # y => <<x, y>> \in R \/ <<y, x>> \in R
      BY <1>1, <1>2
    <2> QED
      BY <2>1, <2>2, <2>3 DEF IsStrictOrder
  <1>6. IsFiniteSet(S) /\ n = Cardinality(S)
    BY <1>1, FS_Interval
  <1>7. IsListing(o, S, n, R)
    <2>1. PICK b : DOMAIN b = S /\ (\A k \in S : b[k] = Cardinality(Below(S, R, k))) /\ o = Listed(b)
      BY <1>4
    <2> QED
      BY <2>1, <1>5, <1>6, ListedInOrder
  <1>7a. /\ o \in [1..n -> S]
         /\ \A x \in S : \E k \in 1..n : o[k] = x
         /\ \A j, k \in 1..n : j < k => <<o[j], o[k]>> \in R
    BY <1>7 DEF IsListing
  <1>8. ASSUME NEW j \in 1..n, NEW k \in 1..n, j < k PROVE o[j] # o[k] /\ key[o[j]] <= key[o[k]]
    <2>1. PICK x \in S, y \in S : x = o[j] /\ y = o[k]
      BY <1>7a
    <2>2. key[x] < key[y] \/ (key[x] = key[y] /\ x < y)
      BY <1>2, <1>7a, <1>8, <2>1
    <2> QED
      BY <1>1, <2>1, <2>2
  <1>9. /\ o \in [1..n -> 1..n]
        /\ \A i \in 1..n : \E k \in 1..n : o[k] = i
        /\ \A j, k \in 1..n : j < k => key[o[j]] <= key[o[k]]
    BY <1>1, <1>7a, <1>8
  <1>10. ASSUME NEW j \in 1..n, NEW k \in 1..n, o[j] = o[k] PROVE j = k
    <2>1. j \in Int /\ k \in Int /\ ~(j < k) /\ ~(k < j)
      BY <1>8, <1>10
    <2> QED
      BY <2>1
  <1>11. PICK r : r = o /\ r = Order(key)
    BY DEF o
  <1>12. Lists(r, n, 1..n)
    BY <1>9, <1>10, <1>11 DEF Lists
  <1>13. \A j, k \in 1..n : j < k => key[r[j]] <= key[r[k]]
    BY <1>9, <1>11
  <1> QED
    BY <1>11, <1>12, <1>13 DEF Sorts

LEMMA AscendingSorts ==
  ASSUME NEW S, S \subseteq Int, IsFiniteSet(S), NEW n \in Nat, n = Cardinality(S)
  PROVE  Ascends(Ascending(S), n, S)
  <1>1. PICK R : \A x, y \in S : <<x, y>> \in R <=> x < y
    <2> DEFINE Q == {p \in S \X S : p[1] < p[2]}
    <2> WITNESS Q
    <2> QED
      OBVIOUS
  <1>2. \A x \in S : {y \in S : y < x} = Below(S, R, x)
    BY <1>1 DEF Below
  <1>3. PICK b : DOMAIN b = S /\ (\A x \in S : b[x] = Cardinality(Below(S, R, x))) /\ Ascending(S) = Listed(b)
    BY <1>2 DEF Ascending
  <1>4. IsStrictOrder(R, S)
    BY <1>1 DEF IsStrictOrder
  <1>5. IsListing(Listed(b), S, n, R)
    BY <1>3, <1>4, ListedInOrder
  <1>6. PICK o : o = Ascending(S) /\ IsListing(o, S, n, R)
    BY <1>3, <1>5
  <1>7. \A j, k \in 1..n : j < k => o[j] < o[k]
    BY <1>1, <1>6 DEF IsListing
  <1>8. ASSUME NEW j \in 1..n, NEW k \in 1..n, o[j] = o[k] PROVE j = k
    <2>1. o[j] \in Int
      BY <1>6 DEF IsListing
    <2>2. ~(j < k) /\ ~(k < j)
      BY <1>7, <1>8, <2>1
    <2> QED
      BY <2>2
  <1> QED
    BY <1>6, <1>7, <1>8 DEF IsListing, Ascends, Lists

\* SetToSeq lists a finite set, every element once.
LEMMA SetToSeqLists ==
  ASSUME NEW S, IsFiniteSet(S), NEW n \in Nat, n = Cardinality(S)
  PROVE  Lists(SetToSeq(S), n, S)
  <1>1. \E f \in [1..n -> S] : IsInjective(f)
    BY FS_CardinalityType DEF ExistsBijection, Bijection, Injection
  <1>2. SetToSeq(S) \in [1..n -> S] /\ IsInjective(SetToSeq(S))
    BY <1>1 DEF SetToSeq
  <1>3. PICK o \in [1..n -> S] : o = SetToSeq(S) /\ IsInjective(o)
    BY <1>2
  <1>4. o \in Injection(1..n, S)
    BY <1>3 DEF Injection
  <1>5. \A T, m : T = 1..n /\ m = Cardinality(T) => IsFiniteSet(T) /\ m = n
    BY FS_Interval
  <1>6. PICK T : T = 1..n
    OBVIOUS
  <1>7. Cardinality(T) = Cardinality(S)
    BY <1>5, <1>6
  <1>8. o \in Injection(T, S)
    BY <1>4, <1>6
  <1>9. o \in Surjection(T, S)
    BY <1>7, <1>8, FS_Injection
  <1>10. \A x \in S : \E k \in 1..n : o[k] = x
    BY <1>6, <1>9 DEF Surjection
  <1> QED
    BY <1>3, <1>10 DEF IsInjective, Lists

-------------------------------------------------------------------------------
(* Finite sets *)

\* There are finitely many functions between finite sets.
LEMMA FunctionsAreFinite ==
  ASSUME NEW S, IsFiniteSet(S), NEW T, IsFiniteSet(T)
  PROVE  IsFiniteSet([S -> T])
  <1> DEFINE graph == [f \in [S -> T] |-> {<<x, f[x]>> : x \in S}]
  <1>1. IsFiniteSet(SUBSET (S \X T))
    BY FS_Product, FS_SUBSET
  <1>2. ASSUME NEW f \in [S -> T] PROVE graph[f] \in SUBSET (S \X T)
    OBVIOUS
  <1>3. ASSUME NEW f \in [S -> T], NEW h \in [S -> T], graph[f] = graph[h] PROVE f = h
    <2>1. ASSUME NEW x \in S PROVE f[x] = h[x]
      <3>1. <<x, f[x]>> \in graph[h]
        BY <1>3
      <3> QED
        BY <3>1
    <2> QED
      BY <2>1
  <1>4. graph \in Injection([S -> T], SUBSET (S \X T))
    BY <1>2, <1>3 DEF Injection, IsInjective
  <1> HIDE DEF graph
  <1> QED
    BY <1>1, <1>4, FS_Injection

\* A finite union of finite sets is finite.
LEMMA FinitelyManyFinite ==
  ASSUME NEW S, IsFiniteSet(S), \A x \in S : IsFiniteSet(x)
  PROVE  IsFiniteSet(UNION S)
  <1> DEFINE Good == {s \in SUBSET S : IsFiniteSet(UNION s)}
  <1>1. {} \in Good
    <2>1. UNION {} = {}
      OBVIOUS
    <2> QED
      BY <2>1, FS_EmptySet
  <1>2. ASSUME NEW s \in SUBSET S, NEW x \in S, s \in Good, x \notin s PROVE s \cup {x} \in Good
    <2>1. UNION (s \cup {x}) = (UNION s) \cup x
      OBVIOUS
    <2>2. IsFiniteSet(UNION s) /\ IsFiniteSet(x)
      BY <1>2
    <2>3. IsFiniteSet((UNION s) \cup x)
      BY <2>2, FS_Union
    <2>4. IsFiniteSet(UNION (s \cup {x}))
      BY <2>1, <2>3
    <2> QED
      BY <2>4
  <1>3. S \in Good
    <2> HIDE DEF Good
    <2> QED
      BY <1>1, <1>2, FiniteInduction
  <1> QED
    BY <1>3

\* There are finitely many quadruples of elements of finite sets.
LEMMA TriplesAreFinite ==
  ASSUME NEW A, IsFiniteSet(A), NEW B, IsFiniteSet(B), NEW C, IsFiniteSet(C)
  PROVE  IsFiniteSet(A \X B \X C)
  <1>1. PICK Z : Z = (A \X B) \X C
    OBVIOUS
  <1>2. IsFiniteSet(Z)
    <2>1. IsFiniteSet(A \X B)
      BY FS_Product
    <2> QED
      BY <1>1, <2>1, FS_Product
  <1>3. PICK f : f = [z \in Z |-> <<z[1][1], z[1][2], z[2]>>]
    OBVIOUS
  <1>4. IsFiniteSet({f[z] : z \in Z})
    BY <1>2, ImageIsFinite
  <1>5. ASSUME NEW x \in A \X B \X C PROVE x \in {f[z] : z \in Z}
    <2>1. PICK a \in A, b \in B, c \in C : x = <<a, b, c>>
      OBVIOUS
    <2>2. PICK z \in Z : z[1] = <<a, b>> /\ z[2] = c
      <3>1. <<<<a, b>>, c>> \in Z
        BY <1>1
      <3> QED
        BY <3>1
    <2> QED
      BY <1>3, <2>1, <2>2
  <1>6. A \X B \X C \in SUBSET {f[z] : z \in Z}
    BY <1>5
  <1> QED
    BY <1>4, <1>6, FS_Subset

LEMMA QuadruplesAreFinite ==
  ASSUME NEW A, IsFiniteSet(A), NEW B, IsFiniteSet(B), NEW C, IsFiniteSet(C), NEW D, IsFiniteSet(D)
  PROVE  IsFiniteSet(A \X B \X C \X D)
  <1>1. IsFiniteSet((A \X B) \X (C \X D))
    <2>1. IsFiniteSet(A \X B)
      BY FS_Product
    <2>2. IsFiniteSet(C \X D)
      BY FS_Product
    <2> QED
      BY <2>1, <2>2, FS_Product
  <1>2. PICK Z : Z = (A \X B) \X (C \X D)
    OBVIOUS
  <1>3. PICK f : f = [z \in Z |-> <<z[1][1], z[1][2], z[2][1], z[2][2]>>]
    OBVIOUS
  <1>4. IsFiniteSet({f[z] : z \in Z})
    <2>1. IsFiniteSet(Z)
      BY <1>1, <1>2
    <2> QED
      BY <2>1, ImageIsFinite
  <1>5. ASSUME NEW x \in A \X B \X C \X D PROVE x \in {f[z] : z \in Z}
    <2>1. PICK a \in A, b \in B, c \in C, d \in D : x = <<a, b, c, d>>
      OBVIOUS
    <2>2. PICK z \in Z : z[1] = <<a, b>> /\ z[2] = <<c, d>>
      <3>1. <<<<a, b>>, <<c, d>>>> \in Z
        BY <1>2
      <3> QED
        BY <3>1
    <2>3. f[z] = x
      BY <1>3, <2>1, <2>2
    <2> QED
      BY <2>3
  <1>6. (A \X B \X C \X D) \in SUBSET {f[z] : z \in Z}
    BY <1>5
  <1> QED
    BY <1>4, <1>6, FS_Subset

\* The least of finitely many naturals is one, and no more than any of them.
LEMMA LeastOfImage ==
  ASSUME NEW S, IsFiniteSet(S), NEW f, \A x \in S : f[x] \in Nat, NEW x \in S
  PROVE  Min({f[y] : y \in S}) \in Nat /\ Min({f[y] : y \in S}) <= f[x]
  <1>1. PICK T : T = {f[y] : y \in S}
    OBVIOUS
  <1>2. IsFiniteSet(T) /\ T \in SUBSET Int /\ T # {}
    BY <1>1, ImageIsFinite
  <1>3. \E m \in T : \A y \in T : m <= y
    BY <1>2, FiniteSetHasMin
  <1>4. Min(T) \in T /\ \A y \in T : Min(T) <= y
    BY <1>3 DEF Min
  <1> QED
    BY <1>1, <1>4

\* Of the first n of a sequence, FoldLeft takes the last.
LEMMA LastOfInterval ==
  ASSUME NEW n \in Nat
  PROVE  /\ \A k \in 1..n : Max(1..k) = k /\ (1..k) \ {k} = 1..(k - 1) /\ 1..k # {} /\ 1..k \in SUBSET (1..n)
         /\ 1..0 = {}
         /\ \A s \in SUBSET (1..n) : s # {} => Max(s) \in s
  <1>1. ASSUME NEW s \in SUBSET (1..n), s # {} PROVE Max(s) \in s
    <2>0. IsFiniteSet(1..n)
      BY FS_Interval
    <2>1a. IsFiniteSet(s)
      BY <2>0, FS_Subset
    <2>1. IsFiniteSet(s) /\ s \in SUBSET Int
      BY <2>1a
    <2>2. \E x \in s : \A y \in s : x >= y
      BY <1>1, <2>1, FiniteSetHasMax
    <2> QED
      BY <2>2 DEF Max
  <1>2. ASSUME NEW k \in 1..n PROVE Max(1..k) = k
    <2>1. k \in 1..k /\ \A y \in 1..k : k >= y
      OBVIOUS
    <2>2. \A x \in 1..k : (\A y \in 1..k : x >= y) => x = k
      OBVIOUS
    <2> QED
      BY <2>1, <2>2 DEF Max
  <1>3. ASSUME NEW k \in 1..n PROVE (1..k) \ {k} = 1..(k - 1) /\ 1..k # {} /\ 1..k \in SUBSET (1..n)
    OBVIOUS
  <1> QED
    BY <1>1, <1>2, <1>3

-------------------------------------------------------------------------------
(* Arithmetic and functions *)

Positive == Nat \ {0}

\* Products of positive numbers, and division by a factor.
LEMMA Products ==
  /\ \A a, b \in Positive : /\ a * b \in Positive /\ a * b >= a /\ a * b >= b
                            /\ (a * b) \div b = a /\ (a * b) % b = 0
  <1>1. ASSUME NEW a \in Positive, NEW b \in Positive
        PROVE  a * b \in Positive /\ a * b >= a /\ a * b >= b
    BY DEF Positive
  <1>2. ASSUME NEW a \in Positive, NEW b \in Positive
        PROVE  (a * b) \div b = a /\ (a * b) % b = 0
    BY DEF Positive
  <1> QED
    BY <1>1, <1>2

\* A product of naturals grows with its factors.
LEMMA ProductsMonotone ==
  \A a, b, m, n \in Nat : a <= b /\ m <= n => a * m <= b * n
  <1> SUFFICES ASSUME NEW a \in Nat, NEW b \in Nat, NEW m \in Nat, NEW n \in Nat, a <= b, m <= n
               PROVE  a * m <= b * n
    OBVIOUS
  <1>1. a * m <= a * n
    OBVIOUS
  <1>2. a * n <= b * n
    OBVIOUS
  <1> QED
    BY <1>1, <1>2

\* A product of naturals grows strictly with a factor, unless another is 0.
LEMMA ProductsStrict ==
  \A w, a, b, s \in Nat : /\ a <= b => w * (a * s) <= w * (b * s)
                          /\ a < b /\ w > 0 /\ s > 0 => w * (a * s) < w * (b * s)
  <1> SUFFICES ASSUME NEW w \in Nat, NEW a \in Nat, NEW b \in Nat, NEW s \in Nat
               PROVE  /\ a <= b => w * (a * s) <= w * (b * s)
                      /\ a < b /\ w > 0 /\ s > 0 => w * (a * s) < w * (b * s)
    OBVIOUS
  <1>1. ASSUME a <= b PROVE w * (a * s) <= w * (b * s)
    <2>1. a * s <= b * s
      BY <1>1, ProductsMonotone
    <2> QED
      BY <2>1, ProductsMonotone
  <1>2. ASSUME a < b, w > 0, s > 0 PROVE w * (a * s) < w * (b * s)
    <2>1. PICK d \in Nat : b = a + d /\ d > 0
      <3>1. b - a \in Nat /\ b = a + (b - a) /\ b - a > 0
        BY <1>2
      <3> QED
        BY <3>1
    <2>2. w \in Positive /\ d \in Positive /\ s \in Positive
      BY <1>2, <2>1 DEF Positive
    <2>3. d * s \in Positive /\ w * (d * s) \in Positive
      BY <2>2, Products
    <2>4. b * s = a * s + d * s
      BY <2>1
    <2>5. PICK x \in Nat, y \in Nat : x = a * s /\ y = d * s
      BY <2>3 DEF Positive
    <2>6. w * (x + y) = w * x + w * y
      OBVIOUS
    <2>7. w * y > 0 /\ w * y \in Nat /\ w * x \in Nat
      BY <2>3, <2>5 DEF Positive
    <2>8. w * x < w * (x + y)
      BY <2>6, <2>7
    <2> QED
      BY <2>4, <2>5, <2>8
  <1> QED
    BY <1>1, <1>2

\* A quotient without remainder.
LEMMA Quotient ==
  ASSUME NEW a \in Positive, NEW b \in Positive, a % b = 0
  PROVE  a \div b \in Positive /\ b * (a \div b) = a
  <1>1. a = b * (a \div b) + (a % b) /\ a \div b \in Int
    BY DEF Positive
  <1>2. b * (a \div b) = a
    BY <1>1 DEF Positive
  <1>3. a \div b > 0
    BY <1>1, <1>2 DEF Positive
  <1> QED
    BY <1>1, <1>2, <1>3 DEF Positive

IsMap(f) == f = [x \in DOMAIN f |-> f[x]]

\* Functions with the same domain and values are equal.
LEMMA MapsAgree ==
  ASSUME NEW f, IsMap(f), NEW g, IsMap(g), DOMAIN f = DOMAIN g, \A x \in DOMAIN f : f[x] = g[x]
  PROVE  f = g
  <1>1. f = [x \in DOMAIN f |-> f[x]] /\ g = [x \in DOMAIN f |-> g[x]]
    BY DEF IsMap
  <1>2. [x \in DOMAIN f |-> f[x]] = [x \in DOMAIN f |-> g[x]]
    OBVIOUS
  <1> QED
    BY <1>1, <1>2

-------------------------------------------------------------------------------
(* Folds *)

\* The equation of MapThenFoldSet, for a step that is a function: which element
\* is taken from each set, and what it makes of the result for the others.
FoldStep(g, pick, step, base, s) == IF s = {} THEN base ELSE step[<<pick[s], g[s \ {pick[s]}]>>]

IsFold(g, pick, step, base, S) == g = [s \in SUBSET S |-> FoldStep(g, pick, step, base, s)]

\* A fold over a finite set exists.
LEMMA FoldExists ==
  ASSUME NEW S, IsFiniteSet(S), NEW pick, \A s \in SUBSET S : s # {} => pick[s] \in s,
         NEW step, NEW base
  PROVE  \E g : IsFold(g, pick, step, base, S)
  <1> DEFINE P(n) == \E g : g = [s \in Small(S, n) |-> FoldStep(g, pick, step, base, s)]
             Good == {n \in Nat : P(n)}
  <1>1. \A s \in SUBSET S : IsFiniteSet(s) /\ Cardinality(s) \in Nat /\ Cardinality(s) <= Cardinality(S)
    BY FS_Subset, FS_CardinalityType
  <1>2. P(0)
    <2> DEFINE g == [s \in Small(S, 0) |-> base]
    <2>1. \A s \in Small(S, 0) : s = {}
      BY <1>1, FS_EmptySet DEF Small
    <2>2. g = [s \in Small(S, 0) |-> FoldStep(g, pick, step, base, s)]
      BY <2>1 DEF FoldStep
    <2> QED
      BY <2>2
  <1>3. ASSUME NEW n \in Nat, P(n) PROVE P(n + 1)
    <2>1. PICK g : g = [s \in Small(S, n) |-> FoldStep(g, pick, step, base, s)]
      BY <1>3
    <2> DEFINE h == [s \in Small(S, n + 1) |-> FoldStep(g, pick, step, base, s)]
    <2>2. \A s \in Small(S, n + 1) : s # {} => s \ {pick[s]} \in Small(S, n)
      <3> TAKE s \in Small(S, n + 1)
      <3> HAVE s # {}
      <3>1. IsFiniteSet(s) /\ s \in SUBSET S /\ Cardinality(s) <= n + 1
        BY <1>1 DEF Small
      <3>2. Cardinality(s \ {pick[s]}) = Cardinality(s) - 1
        BY <3>1, FS_RemoveElement
      <3>3. s \ {pick[s]} \in SUBSET S
        BY <3>1
      <3> QED
        BY <1>1, <3>1, <3>2, <3>3 DEF Small
    <2>3. \A s \in Small(S, n) : s \in Small(S, n + 1) /\ h[s] = g[s]
      BY <2>1, <1>1 DEF Small
    <2>4. \A s \in Small(S, n + 1) : FoldStep(g, pick, step, base, s) = FoldStep(h, pick, step, base, s)
      BY <2>2, <2>3 DEF FoldStep
    <2>5. h = [s \in Small(S, n + 1) |-> FoldStep(h, pick, step, base, s)]
      BY <2>4
    <2> QED
      BY <2>5
  <1>4. Cardinality(S) \in Nat
    BY FS_CardinalityType
  <1>5. P(Cardinality(S))
    <2>1. 0 \in Good
      BY <1>2
    <2>2. \A n \in Nat : n \in Good => n + 1 \in Good
      BY <1>3
    <2> HIDE DEF P, Good
    <2>3. Cardinality(S) \in Good
      BY <1>4, <2>1, <2>2, NaturalInduction
    <2> QED
      BY <2>3 DEF Good
  <1>6. Small(S, Cardinality(S)) = SUBSET S
    BY <1>1 DEF Small
  <1> QED
    BY <1>5, <1>6 DEF IsFold

\* The results of a fold are of the type that its step keeps.
LEMMA FoldType ==
  ASSUME NEW S, IsFiniteSet(S), NEW pick, \A s \in SUBSET S : s # {} => pick[s] \in s,
         NEW V, NEW base \in V, NEW step, \A x \in S, v \in V : step[<<x, v>>] \in V,
         NEW g, IsFold(g, pick, step, base, S)
  PROVE  g \in [SUBSET S -> V]
  <1>1. \A s \in SUBSET S : g[s] = FoldStep(g, pick, step, base, s)
    BY DEF IsFold
  <1> DEFINE Bad == {s \in SUBSET S : g[s] \notin V}
  <1>2. Bad = {}
    <2> SUFFICES ASSUME Bad # {} PROVE FALSE
      OBVIOUS
    <2>1. PICK s \in Bad : \A r \in Bad : r \subseteq s => r = s
      <3>1. Bad \in SUBSET SUBSET S
        OBVIOUS
      <3> HIDE DEF Bad
      <3> QED
        BY <3>1, SmallestSubset
    <2>2. s # {}
      BY <1>1, <2>1 DEF FoldStep
    <2>3. g[s \ {pick[s]}] \in V /\ pick[s] \in S
      BY <2>1, <2>2
    <2>4. step[<<pick[s], g[s \ {pick[s]}]>>] \in V
      BY <2>3
    <2>5. g[s] = step[<<pick[s], g[s \ {pick[s]}]>>]
      BY <1>1, <2>1, <2>2 DEF FoldStep
    <2> QED
      BY <2>1, <2>4, <2>5
  <1> QED
    BY <1>2 DEF IsFold

\* The equation of FoldLeft, for a step that is a function.
LeftStep(g, step, base, seq, s) == IF s = {} THEN base ELSE step[<<g[s \ {Max(s)}], seq[Max(s)]>>]

\* A step for results in V and a list of n elements of E.
CanFold(step, base, n, seq, V, E) ==
  n \in Nat /\ base \in V /\ seq \in [1..n -> E] /\ step \in [V \X E -> V]

LeftFolds(g, step, base, n, seq, V) ==
  g \in [SUBSET (1..n) -> V] /\ \A s \in SUBSET (1..n) : g[s] = LeftStep(g, step, base, seq, s)

\* A fold over a list exists, and its results have the type of the step.
LEMMA LeftFoldExists ==
  ASSUME NEW V, NEW E, NEW base, NEW n, NEW seq, NEW step, CanFold(step, base, n, seq, V, E)
  PROVE  \E g : LeftFolds(g, step, base, n, seq, V)
  <1> USE DEF CanFold
  <1> DEFINE pick == [s \in SUBSET (1..n) |-> Max(s)]
             turned == [p \in (1..n) \X V |-> step[<<p[2], seq[p[1]]>>]]
  <1>1. IsFiniteSet(1..n)
    BY FS_Interval
  <1>2. \A s \in SUBSET (1..n) : s # {} => pick[s] \in s /\ pick[s] = Max(s)
    BY LastOfInterval
  <1>3. \A x \in 1..n, v \in V : turned[<<x, v>>] \in V /\ turned[<<x, v>>] = step[<<v, seq[x]>>]
    OBVIOUS
  <1> HIDE DEF pick, turned
  <1>4. PICK S : S = 1..n
    OBVIOUS
  <1>5. PICK g : IsFold(g, pick, turned, base, S)
    BY <1>1, <1>2, <1>4, FoldExists
  <1>6. g \in [SUBSET S -> V]
    BY <1>1, <1>2, <1>3, <1>4, <1>5, FoldType
  <1>7. ASSUME NEW s \in SUBSET S PROVE g[s] = LeftStep(g, step, base, seq, s)
    <2>1. g[s] = FoldStep(g, pick, turned, base, s)
      BY <1>5 DEF IsFold
    <2>2. CASE s = {}
      BY <2>1, <2>2 DEF FoldStep, LeftStep
    <2>3. CASE s # {}
      <3>1. pick[s] \in S /\ pick[s] = Max(s) /\ s \ {pick[s]} \in SUBSET S
        BY <1>2, <1>4, <2>3
      <3>2. g[s \ {pick[s]}] \in V
        BY <1>6, <3>1
      <3>3. turned[<<pick[s], g[s \ {pick[s]}]>>] = step[<<g[s \ {pick[s]}], seq[pick[s]]>>]
        BY <1>3, <1>4, <3>1, <3>2
      <3> QED
        BY <2>1, <2>3, <3>1, <3>3 DEF FoldStep, LeftStep
    <2> QED
      BY <2>2, <2>3
  <1> QED
    BY <1>4, <1>6, <1>7 DEF LeftFolds

------------------------------------------------------------------------------
(* Lists, joined *)

\* FlattenSeq, by the equation of its recursive function.
IsFlattening(f, seqs) ==
  f = [i \in 1..Len(seqs) |-> IF i = 1 THEN seqs[i] ELSE f[i - 1] \o seqs[i]]

\* The first k of n lists, joined.
Joins(h, n, seqs, E) ==
  /\ h \in [0..n -> Seq(E)] /\ h[0] = <<>>
  /\ \A k \in 1..n : h[k] = h[k - 1] \o seqs[k]

\* FlattenSeq joins all of them.
LEMMA FlattenJoins ==
  ASSUME NEW E, NEW n \in Nat, NEW seqs \in [1..n -> Seq(E)]
  PROVE  \E h : Joins(h, n, seqs, E) /\ FlattenSeq(seqs) = h[n]
  <1>1. Len(seqs) = n
    OBVIOUS
  <1>2. CASE n = 0
    <2> DEFINE h == [k \in 0..n |-> <<>>]
    <2>1. FlattenSeq(seqs) = seqs /\ seqs = <<>>
      BY <1>1, <1>2 DEF FlattenSeq
    <2>2. h \in [0..n -> Seq(E)] /\ h[0] = <<>> /\ h[n] = <<>>
      OBVIOUS
    <2>3. 1..n = {}
      BY <1>2
    <2> HIDE DEF h
    <2>4. Joins(h, n, seqs, E)
      BY <2>2, <2>3 DEF Joins
    <2>5. FlattenSeq(seqs) = h[n]
      BY <2>1, <2>2
    <2> QED
      BY <2>4, <2>5
  <1>3. CASE n # 0
    <2>1. PICK V : V = Seq(E)
      OBVIOUS
    <2> DEFINE step == [p \in V \X V |-> p[1] \o p[2]]
    <2>2. step \in [V \X V -> V] /\ \A x, y \in V : step[<<x, y>>] = x \o y
      <3>1. \A x, y \in V : x \o y \in V
        BY <2>1, ConcatProperties
      <3>2. \A p \in V \X V : p[1] \o p[2] \in V
        BY <3>1
      <3>3. \A x, y \in V : step[<<x, y>>] = x \o y
        OBVIOUS
      <3> QED
        BY <3>2, <3>3
    <2> HIDE DEF step
    <2>3. PICK base : base = <<>>
      OBVIOUS
    <2>4. base \in V
      BY <2>1, <2>3
    <2>5. CanFold(step, base, n, seqs, V, V)
      BY <2>1, <2>2, <2>4 DEF CanFold
    <2>6. PICK g : LeftFolds(g, step, base, n, seqs, V)
      BY <2>5, LeftFoldExists
    <2>7. g \in [SUBSET (1..n) -> V] /\ g[{}] = base
      BY <2>6 DEF LeftFolds, LeftStep
    <2> DEFINE h == [k \in 0..n |-> g[1..k]]
    <2>8. h \in [0..n -> V] /\ h[0] = <<>>
      <3>1. \A k \in 0..n : 1..k \in SUBSET (1..n)
        OBVIOUS
      <3>2. 1..0 = {}
        OBVIOUS
      <3> QED
        BY <2>3, <2>7, <3>1, <3>2
    <2>9. ASSUME NEW k \in 1..n PROVE h[k] = h[k - 1] \o seqs[k]
      <3>1. Max(1..k) = k /\ (1..k) \ {k} = 1..(k - 1) /\ 1..k # {} /\ 1..k \in SUBSET (1..n)
        BY LastOfInterval
      <3>2. g[1..k] = step[<<g[1..(k - 1)], seqs[k]>>]
        BY <2>6, <3>1 DEF LeftFolds, LeftStep
      <3>3. k - 1 \in 0..n /\ k \in 0..n
        OBVIOUS
      <3>4. g[1..k] = step[<<h[k - 1], seqs[k]>>]
        BY <3>2, <3>3
      <3>5. h[k - 1] \in V /\ seqs[k] \in V
        BY <2>1, <2>8, <3>3
      <3> QED
        BY <2>2, <3>3, <3>4, <3>5
    <2> HIDE DEF h
    <2>10. Joins(h, n, seqs, E)
      BY <2>1, <2>8, <2>9 DEF Joins
    <2>11. ASSUME NEW k \in 1..n PROVE h[k] = IF k = 1 THEN seqs[k] ELSE h[k - 1] \o seqs[k]
      <3>1. CASE k = 1
        <4>1. h[k] = h[0] \o seqs[k]
          BY <2>9, <3>1
        <4>2. seqs[k] \in Seq(E)
          OBVIOUS
        <4> QED
          BY <2>8, <3>1, <4>1, <4>2
      <3> QED
        BY <2>9, <3>1
    <2> DEFINE f == [k \in 1..n |-> h[k]]
    <2>12. IsFlattening(f, seqs)
      <3>1. \A k \in 1..n : k # 1 => f[k - 1] = h[k - 1]
        OBVIOUS
      <3> QED
        BY <1>1, <2>11, <3>1 DEF IsFlattening
    <2>13. PICK c : c = (CHOOSE x : IsFlattening(x, seqs)) /\ IsFlattening(c, seqs)
      BY <2>12
    <2>14. FlattenSeq(seqs) = c[n]
      <3>1. FlattenSeq(seqs) = (CHOOSE x : IsFlattening(x, seqs))[n]
        BY <1>1, <1>3 DEF FlattenSeq, IsFlattening
      <3> QED
        BY <2>13, <3>1
    <2> DEFINE Good == {k \in 0..n : k = 0 \/ c[k] = h[k]}
    <2>15. n \in Good
      <3>1. 0 \in Good
        OBVIOUS
      <3>2. ASSUME NEW k \in 0..(n - 1), k \in Good PROVE k + 1 \in Good
        <4>1. PICK j \in 1..n : j = k + 1 /\ j - 1 = k
          OBVIOUS
        <4>2. c[j] = IF j = 1 THEN seqs[j] ELSE c[j - 1] \o seqs[j]
          BY <1>1, <2>13 DEF IsFlattening
        <4>3. j # 1 => c[j - 1] = h[j - 1]
          BY <3>2, <4>1
        <4>4. c[j] = h[j]
          BY <2>11, <4>2, <4>3
        <4> QED
          BY <4>1, <4>4
      <3>3. PICK G : G = Good
        OBVIOUS
      <3> HIDE DEF Good
      <3>4. 0 \in G /\ \A k \in 0..(n - 1) : k \in G => k + 1 \in G
        BY <3>1, <3>2, <3>3
      <3>5. \A k \in 0..n : k \in G
        BY <3>4, IntervalInduction
      <3> QED
        BY <3>3, <3>5
    <2>16. c[n] = h[n]
      BY <1>3, <2>15
    <2> QED
      BY <2>10, <2>14, <2>16
  <1> QED
    BY <1>2, <1>3

\* Where the j-th of the i-th list is when lists of these lengths are joined.
Spot(len, i, j) == SumFunctionOnSet(len, 1..(i - 1)) + j

\* flat has the elements of n lists, one list after the other.
IsFlat(flat, n, seqs, len) ==
  /\ Len(flat) = SumFunctionOnSet(len, 1..n)
  /\ \A i \in 1..n : \A j \in 1..len[i] :
       Spot(len, i, j) \in 1..Len(flat) /\ flat[Spot(len, i, j)] = seqs[i][j]
  /\ \A p \in 1..Len(flat) : \E i \in 1..n : \E j \in 1..len[i] : p = Spot(len, i, j)

\* One more list.
LEMMA FlatGrows ==
  ASSUME NEW E, NEW k \in Nat, NEW flat \in Seq(E), NEW seqs, NEW len, \A i \in 1..(k + 1) : len[i] \in Nat,
         seqs[k + 1] \in Seq(E), Len(seqs[k + 1]) = len[k + 1], IsFlat(flat, k, seqs, len)
  PROVE  IsFlat(flat \o seqs[k + 1], k + 1, seqs, len)
  <1>1. PICK more : more = flat \o seqs[k + 1]
    OBVIOUS
  <1>2. PICK last \in Seq(E) : last = seqs[k + 1] /\ Len(last) = len[k + 1]
    OBVIOUS
  <1>3. /\ more \in Seq(E) /\ Len(more) = Len(flat) + Len(last)
        /\ \A p \in 1..Len(more) : more[p] = IF p <= Len(flat) THEN flat[p] ELSE last[p - Len(flat)]
    BY <1>1, <1>2, ConcatProperties
  <1>4. SumFunctionOnSet(len, 1..(k + 1)) = len[k + 1] + SumFunctionOnSet(len, 1..k)
    <2>1. PICK S : S = 1..k
      OBVIOUS
    <2>2. IsFiniteSet(S)
      BY ONLY k \in Nat, <2>1, FS_Interval
    <2>3. PICK x : x = k + 1
      OBVIOUS
    <2>4. x \notin S /\ \A y \in S \cup {x} : len[y] \in Int
      BY <2>1, <2>3
    <2>5. SumFunctionOnSet(len, S \cup {x}) = len[x] + SumFunctionOnSet(len, S)
      BY <2>2, <2>4, SumAdds
    <2>6. S \cup {x} = 1..(k + 1)
      BY <2>1, <2>3
    <2> QED
      BY <2>1, <2>3, <2>5, <2>6
  <1>5. Len(more) = SumFunctionOnSet(len, 1..(k + 1))
    BY <1>2, <1>3, <1>4 DEF IsFlat
  <1>6. PICK m \in Nat, z \in Nat : m = Len(flat) /\ z = Len(last) /\ z = len[k + 1] /\ Len(more) = m + z
    BY <1>2, <1>3
  <1>7. \A j \in 1..z : Spot(len, k + 1, j) = m + j
    BY <1>6 DEF Spot, IsFlat
  <1>8. ASSUME NEW i \in 1..(k + 1), NEW j \in 1..len[i]
        PROVE  Spot(len, i, j) \in 1..Len(more) /\ more[Spot(len, i, j)] = seqs[i][j]
    <2>1. CASE i = k + 1
      <3>1. j \in 1..z /\ Spot(len, i, j) = m + j
        BY <1>6, <1>7, <2>1
      <3>2. m + j \in 1..Len(more) /\ ~(m + j <= m) /\ (m + j) - m = j
        BY <1>6, <3>1
      <3>3. more[m + j] = last[j]
        BY <1>3, <1>6, <3>2
      <3> QED
        BY <1>2, <2>1, <3>1, <3>2, <3>3
    <2>2. CASE i # k + 1
      <3>1. i \in 1..k
        BY <2>2
      <3>2. Spot(len, i, j) \in 1..m /\ flat[Spot(len, i, j)] = seqs[i][j]
        BY <1>6, <3>1 DEF IsFlat
      <3>3. PICK p \in 1..m : p = Spot(len, i, j)
        BY <3>2
      <3>4. p \in 1..Len(more) /\ p <= m
        BY <1>6
      <3> QED
        BY <1>3, <1>6, <3>2, <3>3, <3>4
    <2> QED
      BY <2>1, <2>2
  <1>9. ASSUME NEW p \in 1..Len(more)
        PROVE  \E i \in 1..(k + 1) : \E j \in 1..len[i] : p = Spot(len, i, j)
    <2>1. CASE p <= m
      <3>1. p \in 1..Len(flat)
        BY <1>6, <2>1
      <3>2. PICK i \in 1..k : \E j \in 1..len[i] : p = Spot(len, i, j)
        BY <3>1 DEF IsFlat
      <3>3. i \in 1..(k + 1)
        OBVIOUS
      <3> QED
        BY <3>2, <3>3
    <2>2. CASE ~(p <= m)
      <3>1. PICK j \in 1..z : p = m + j
        <4>1. p - m \in 1..z /\ p = m + (p - m)
          BY <1>6, <2>2
        <4> QED
          BY <4>1
      <3>2. k + 1 \in 1..(k + 1) /\ j \in 1..len[k + 1] /\ p = Spot(len, k + 1, j)
        BY <1>6, <1>7, <3>1
      <3> QED
        BY <3>2
    <2> QED
      BY <2>1, <2>2
  <1>10. IsFlat(more, k + 1, seqs, len)
    BY <1>5, <1>8, <1>9 DEF IsFlat
  <1> QED
    BY <1>1, <1>10

\* What FlattenSeq returns: every element at its place, and nothing else.
LEMMA FlattenSeqIs ==
  ASSUME NEW E, NEW n \in Nat, NEW seqs \in [1..n -> Seq(E)],
         NEW len, \A i \in 1..n : len[i] = Len(seqs[i])
  PROVE  FlattenSeq(seqs) \in Seq(E) /\ IsFlat(FlattenSeq(seqs), n, seqs, len)
  <1>1. PICK h : Joins(h, n, seqs, E) /\ FlattenSeq(seqs) = h[n]
    BY FlattenJoins
  <1>2. \A i \in 1..n : len[i] \in Nat
    OBVIOUS
  <1> DEFINE Good == {k \in 0..n : IsFlat(h[k], k, seqs, len)}
  <1>3. 0 \in Good
    <2>1. h[0] = <<>> /\ Len(h[0]) = 0
      BY <1>1 DEF Joins
    <2>2. 1..0 = {}
      OBVIOUS
    <2>3. SumFunctionOnSet(len, 1..0) = 0
      BY <2>2, SumOfEmpty
    <2>4. IsFlat(h[0], 0, seqs, len)
      BY <2>1, <2>2, <2>3 DEF IsFlat
    <2> QED
      BY <2>4
  <1>4. ASSUME NEW k \in 0..(n - 1), k \in Good PROVE k + 1 \in Good
    <2>1. k + 1 \in 1..n /\ (k + 1) - 1 = k /\ k \in Nat /\ k \in 0..n /\ k + 1 \in 0..n
      OBVIOUS
    <2>2. h[k] \in Seq(E) /\ h[k + 1] = h[k] \o seqs[k + 1]
      BY <1>1, <2>1 DEF Joins
    <2>3. \A i \in 1..(k + 1) : len[i] \in Nat
      BY <1>2
    <2>4. seqs[k + 1] \in Seq(E) /\ Len(seqs[k + 1]) = len[k + 1]
      BY <2>1
    <2>5. IsFlat(h[k], k, seqs, len)
      BY <1>4
    <2> HIDE DEF Good
    <2>6. IsFlat(h[k] \o seqs[k + 1], k + 1, seqs, len)
      BY <2>1, <2>2, <2>3, <2>4, <2>5, FlatGrows
    <2> QED
      BY <2>1, <2>2, <2>6 DEF Good
  <1>5. n \in Good
    <2>1. PICK G : G = Good
      OBVIOUS
    <2> HIDE DEF Good
    <2>2. 0 \in G /\ \A k \in 0..(n - 1) : k \in G => k + 1 \in G
      BY <1>3, <1>4, <2>1
    <2>3. \A k \in 0..n : k \in G
      BY <2>2, IntervalInduction
    <2> QED
      BY <2>1, <2>3
  <1> QED
    BY <1>1, <1>5 DEF Joins
==============================================================================
