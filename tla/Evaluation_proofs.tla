--------------------------- MODULE Evaluation_proofs ---------------------------
(***************************************************************************)
(* What holds of the evaluation scripts for every vocabulary, corpus and   *)
(* confidence, and the facts about sums over a finite set that it takes:   *)
(* Total is defined by recursion over sets, so that the first lemmas are   *)
(* induction over a finite set and the equation the recursion defines.     *)
(***************************************************************************)
EXTENDS Evaluation, FiniteSetTheorems, WellFoundedInduction, TLAPS

-------------------------------------------------------------------------------
(* Sums *)

\* A set of numbers that is not empty has a least one.
LEMMA HasLeast ==
  ASSUME NEW S \in SUBSET Nat, S # {}
  PROVE  \E x \in S : \A y \in S : x <= y
<1>1. PICK x \in S : \A y \in S : ~ <<y, x>> \in OpToRel(<, Nat)
  BY NatLessThanWellFounded, WFMin
<1>2. \A y \in S : ~(y < x)
  BY <1>1 DEF OpToRel
<1> QED BY <1>2

\* Induction, for a set of numbers.
LEMMA NumberInduction ==
  ASSUME NEW G \in SUBSET Nat, 0 \in G, \A n \in G : n + 1 \in G
  PROVE  G = Nat
<1> SUFFICES ASSUME Nat \ G # {} PROVE FALSE
  OBVIOUS
<1>1. PICK n \in Nat \ G : \A m \in Nat \ G : n <= m
  BY HasLeast
<1>2. n # 0 /\ n - 1 \in Nat
  BY <1>1
<1>3. n - 1 \in G
  BY <1>1, <1>2
<1> QED BY <1>1, <1>2, <1>3

\* Induction, for a set of parts of a finite set.
LEMMA PartInduction ==
  ASSUME NEW A, IsFiniteSet(A), NEW G \in SUBSET SUBSET A,
         \A s \in SUBSET A : (\A t \in SUBSET s : t # s => t \in G) => s \in G
  PROVE  G = SUBSET A
<1> SUFFICES ASSUME (SUBSET A) \ G # {} PROVE FALSE
  OBVIOUS
<1> DEFINE N == {Cardinality(s) : s \in (SUBSET A) \ G}
<1>1. \A s \in SUBSET A : IsFiniteSet(s) /\ Cardinality(s) \in Nat
  BY FS_Subset, FS_CardinalityType
<1>2. N \in SUBSET Nat /\ N # {}
  BY <1>1
<1>3. PICK n \in N : \A m \in N : n <= m
  <2> HIDE DEF N
  <2> QED BY <1>2, HasLeast
<1>4. PICK s \in (SUBSET A) \ G : n = Cardinality(s)
  BY <1>3
<1>5. \A t \in SUBSET s : t # s => t \in G
  <2> TAKE t \in SUBSET s
  <2>1. SUFFICES ASSUME t # s, t \notin G PROVE FALSE
    OBVIOUS
  <2>2. Cardinality(t) < Cardinality(s)
    <3>1. IsFiniteSet(s)
      BY <1>1
    <3>2. Cardinality(t) <= Cardinality(s) /\ (Cardinality(s) = Cardinality(t) => s = t)
      BY <3>1, FS_Subset
    <3> QED BY <2>1, <3>2, <1>1
  <2>3. Cardinality(t) \in N
    BY <2>1
  <2>4. n <= Cardinality(t)
    BY <1>3, <2>3
  <2>5. Cardinality(t) \in Nat /\ Cardinality(s) \in Nat
    BY <1>1
  <2> HIDE DEF N
  <2> QED BY <1>4, <2>2, <2>4, <2>5
<1> QED BY <1>4, <1>5

First(s) == CHOOSE x \in s : TRUE

\* One step of the sum of f over a set, the rest of which is g.
Step(f, g, s) == IF s = {} THEN 0 ELSE f[First(s)] + g[s \ {First(s)}]

Iter(f, S) == CHOOSE g : g = [s \in SUBSET S |-> Step(f, g, s)]

\* The sum of the community modules is a choice of a function that satisfies Step.
LEMMA TotalIsIter ==
  ASSUME NEW f
  PROVE Total(f) = Iter(f, DOMAIN f)[DOMAIN f]
BY DEF Total, FoldFunction, FoldFunctionOnSet, MapThenFoldSet, Iter, Step, First

\* There is one, over a finite set: a step looks only at smaller sets.
LEMMA IterIsDefined ==
  ASSUME NEW f, NEW S, IsFiniteSet(S)
  PROVE  \A s \in SUBSET S : Iter(f, S)[s] = Step(f, Iter(f, S), s)
<1> DEFINE Good(g, n) == \A s \in SUBSET S : Cardinality(s) <= n => g[s] = Step(f, g, s)
           G == {n \in Nat : \E g : Good(g, n)}
<1>0. \A s \in SUBSET S : IsFiniteSet(s) /\ Cardinality(s) \in Nat
  BY FS_Subset, FS_CardinalityType
<1>1. 0 \in G
  <2> DEFINE g == [s \in SUBSET S |-> 0]
  <2>1. \A s \in SUBSET S : Cardinality(s) <= 0 => s = {}
    BY <1>0, FS_EmptySet
  <2>2. Good(g, 0)
    BY <2>1 DEF Step
  <2>3. \E k : Good(k, 0)
    <3> HIDE DEF Good, g
    <3> QED BY <2>2
  <2> HIDE DEF Good
  <2> QED BY <2>3
<1>2. ASSUME NEW n \in G PROVE n + 1 \in G
  <2>1. PICK g : Good(g, n)
    <3> HIDE DEF Good
    <3> QED OBVIOUS
  <2> DEFINE h == [s \in SUBSET S |-> Step(f, g, s)]
  <2>2. \A s \in SUBSET S : Cardinality(s) <= n => h[s] = g[s]
    BY <2>1
  <2>3. ASSUME NEW s \in SUBSET S, Cardinality(s) <= n + 1
        PROVE  Step(f, g, s) = Step(f, h, s)
    <3>1. CASE s = {}
      BY <3>1 DEF Step
    <3>2. CASE s # {}
      <4> DEFINE r == s \ {First(s)}
      <4>1. First(s) \in s
        BY <3>2 DEF First
      <4>2. r \in SUBSET S /\ Cardinality(r) = Cardinality(s) - 1
        BY <4>1, <1>0, FS_RemoveElement
      <4>3. Cardinality(r) <= n
        <5>1. Cardinality(s) \in Nat /\ n \in Nat
          BY <1>0
        <5> HIDE DEF r
        <5> QED BY <2>3, <4>2, <5>1
      <4>4. h[r] = g[r]
        <5> HIDE DEF h, Good
        <5> QED BY <2>2, <4>2, <4>3
      <4> QED BY <3>2, <4>4 DEF Step
    <3> QED BY <3>1, <3>2
  <2>4. Good(h, n + 1)
    BY <2>3
  <2>5. \E k : Good(k, n + 1)
    <3> HIDE DEF Good, h
    <3> QED BY <2>4
  <2>6. n + 1 \in Nat
    OBVIOUS
  <2> HIDE DEF Good
  <2> QED BY <2>5, <2>6
<1>3. G = Nat
  <2> HIDE DEF G
  <2>1. G \in SUBSET Nat
    BY DEF G
  <2> QED BY <1>1, <1>2, <2>1, NumberInduction
<1>4. PICK g : Good(g, Cardinality(S))
  BY <1>0, <1>3
<1> DEFINE h == [s \in SUBSET S |-> g[s]]
<1>5. h = [s \in SUBSET S |-> Step(f, h, s)]
  <2>1. \A s \in SUBSET S : h[s] = Step(f, g, s)
    BY <1>4, <1>0, FS_Subset
  <2>2. \A s \in SUBSET S : Step(f, g, s) = Step(f, h, s)
    BY DEF Step
  <2> QED BY <2>1, <2>2
<1>6. Iter(f, S) = [s \in SUBSET S |-> Step(f, Iter(f, S), s)]
  BY <1>5 DEF Iter
<1> DEFINE I == Iter(f, S)
<1> HIDE DEF I, h
<1>7. I = [s \in SUBSET S |-> Step(f, I, s)]
  BY <1>6 DEF I
<1>8. \A s \in SUBSET S : I[s] = Step(f, I, s)
  BY <1>7
<1> QED BY <1>8 DEF I

\* The sum over a part only depends on the values there.
LEMMA IterAgrees ==
  ASSUME NEW f, NEW g, NEW S, NEW T, IsFiniteSet(S), IsFiniteSet(T),
         NEW U \in SUBSET (S \cap T), \A x \in U : f[x] = g[x]
  PROVE  Iter(f, S)[U] = Iter(g, T)[U]
<1> DEFINE F == Iter(f, S)
           H == Iter(g, T)
           G == {s \in SUBSET U : F[s] = H[s]}
<1>0. IsFiniteSet(U)
  BY FS_Subset
<1>1. /\ \A s \in SUBSET S : F[s] = Step(f, F, s)
      /\ \A s \in SUBSET T : H[s] = Step(g, H, s)
  BY IterIsDefined
<1>2. ASSUME NEW s \in SUBSET U, \A t \in SUBSET s : t # s => t \in G
      PROVE  s \in G
  <2>0. s \in SUBSET S /\ s \in SUBSET T
    OBVIOUS
  <2>1. CASE s = {}
    <3>1. F[s] = H[s]
      BY <1>1, <2>0, <2>1 DEF Step
    <3> QED BY <3>1
  <2>2. CASE s # {}
    <3>1. First(s) \in s
      BY <2>2 DEF First
    <3>2. F[s \ {First(s)}] = H[s \ {First(s)}]
      BY <1>2, <3>1
    <3>3. f[First(s)] = g[First(s)]
      BY <3>1
    <3>4. F[s] = f[First(s)] + F[s \ {First(s)}] /\ H[s] = g[First(s)] + H[s \ {First(s)}]
      BY <1>1, <2>0, <2>2 DEF Step
    <3>5. F[s] = H[s]
      BY <3>2, <3>3, <3>4
    <3> QED BY <3>5
  <2> QED BY <2>1, <2>2
<1>3. G = SUBSET U
  <2>1. G \in SUBSET SUBSET U
    OBVIOUS
  <2> HIDE DEF G
  <2> QED BY <1>0, <1>2, <2>1, PartInduction
<1> QED BY <1>3

\* The sum of f over a part of its domain.
SumOver(f, T) == Total([x \in T |-> f[x]])

\* Nothing sums up to zero.
LEMMA SumOfNone ==
  ASSUME NEW f
  PROVE  SumOver(f, {}) = 0
<1> DEFINE e == [x \in {} |-> f[x]]
<1>1. Total(e) = Iter(e, {})[{}]
  BY TotalIsIter
<1>2. Iter(e, {})[{}] = Step(e, Iter(e, {}), {})
  BY IterIsDefined, FS_EmptySet
<1> QED BY <1>1, <1>2 DEF SumOver, Step

\* A sum is its first summand and the sum of the others.
LEMMA SumFromFirst ==
  ASSUME NEW f, NEW T, IsFiniteSet(T), T # {}
  PROVE  SumOver(f, T) = f[First(T)] + SumOver(f, T \ {First(T)})
<1> DEFINE R == T \ {First(T)}
           e == [x \in T |-> f[x]]
           r == [x \in R |-> f[x]]
           I == Iter(e, T)
           J == Iter(r, R)
<1>1. First(T) \in T /\ IsFiniteSet(R)
  BY FS_Subset DEF First
<1>2. Total(e) = I[T] /\ Total(r) = J[R]
  <2>1. DOMAIN e = T /\ DOMAIN r = R
    OBVIOUS
  <2> HIDE DEF e, r, R
  <2> QED BY <2>1, TotalIsIter
<1>3. I[T] = Step(e, I, T)
  BY IterIsDefined
<1>4. I[R] = J[R]
  <2>1. R \in SUBSET (T \cap R) /\ \A x \in R : e[x] = r[x]
    OBVIOUS
  <2> HIDE DEF e, r, R
  <2> QED BY <1>1, <2>1, IterAgrees
<1>5. e[First(T)] = f[First(T)]
  BY <1>1
<1>6. Step(e, I, T) = e[First(T)] + I[R]
  <2> HIDE DEF e, I
  <2> QED BY DEF Step
<1>7. SumOver(f, T) = Total(e) /\ SumOver(f, R) = Total(r)
  BY DEF SumOver
<1> HIDE DEF e, r, I, J, R
<1>8. SumOver(f, T) = f[First(T)] + SumOver(f, R)
  BY <1>2, <1>3, <1>4, <1>5, <1>6, <1>7
<1> QED BY <1>8 DEF R

\* Sums of integers are integers.
LEMMA SumType ==
  ASSUME NEW S, IsFiniteSet(S), NEW f \in [S -> Int]
  PROVE  \A T \in SUBSET S : SumOver(f, T) \in Int
<1> DEFINE G == {T \in SUBSET S : SumOver(f, T) \in Int}
<1>1. ASSUME NEW T \in SUBSET S, \A t \in SUBSET T : t # T => t \in G
      PROVE  T \in G
  <2>1. CASE T = {}
    BY <2>1, SumOfNone
  <2>2. CASE T # {}
    <3>1. First(T) \in T
      BY <2>2 DEF First
    <3>2. SumOver(f, T \ {First(T)}) \in Int
      BY <1>1, <3>1
    <3>3. SumOver(f, T) = f[First(T)] + SumOver(f, T \ {First(T)})
      BY <2>2, SumFromFirst, FS_Subset
    <3>4. SumOver(f, T) \in Int
      BY <3>1, <3>2, <3>3
    <3> QED BY <3>4
  <2> QED BY <2>1, <2>2
<1>2. G = SUBSET S
  <2>1. G \in SUBSET SUBSET S
    OBVIOUS
  <2> HIDE DEF G
  <2> QED BY <1>1, <2>1, PartInduction
<1> QED BY <1>2

\* Any element may be taken first.
LEMMA SumStep ==
  ASSUME NEW S, IsFiniteSet(S), NEW f \in [S -> Int]
  PROVE  \A T \in SUBSET S : \A x \in T : SumOver(f, T) = f[x] + SumOver(f, T \ {x})
<1> DEFINE Goal(T) == \A x \in T : SumOver(f, T) = f[x] + SumOver(f, T \ {x})
           G == {T \in SUBSET S : Goal(T)}
<1>1. ASSUME NEW T \in SUBSET S, \A t \in SUBSET T : t # T => t \in G
      PROVE  T \in G
  <2> SUFFICES ASSUME NEW x \in T
               PROVE  SumOver(f, T) = f[x] + SumOver(f, T \ {x})
    OBVIOUS
  <2> DEFINE a == First(T)
  <2>1. a \in T /\ SumOver(f, T) = f[a] + SumOver(f, T \ {a})
    BY SumFromFirst, FS_Subset DEF First
  <2> HIDE DEF a
  <2>2. CASE x = a
    BY <2>1, <2>2
  <2>3. CASE x # a
    <3>1. SumOver(f, T \ {a}) = f[x] + SumOver(f, (T \ {a}) \ {x})
      <4>1. T \ {a} \in G
        BY <1>1, <2>1
      <4> QED BY <2>3, <4>1
    <3>2. SumOver(f, T \ {x}) = f[a] + SumOver(f, (T \ {x}) \ {a})
      <4>1. T \ {x} \in G
        BY <1>1
      <4> QED BY <2>1, <2>3, <4>1
    <3>3. (T \ {a}) \ {x} = (T \ {x}) \ {a}
      OBVIOUS
    <3> DEFINE rest == SumOver(f, (T \ {x}) \ {a})
    <3>4. f[a] \in Int /\ f[x] \in Int /\ rest \in Int
      BY <2>1, SumType
    <3>5. SumOver(f, T) = f[a] + (f[x] + rest) /\ SumOver(f, T \ {x}) = f[a] + rest
      BY <2>1, <3>1, <3>2, <3>3, Zenon
    <3> HIDE DEF rest, Goal
    <3> QED BY <3>4, <3>5
  <2> QED BY <2>2, <2>3
<1>2. G = SUBSET S
  <2>1. G \in SUBSET SUBSET S
    OBVIOUS
  <2> HIDE DEF G
  <2> QED BY <1>1, <2>1, PartInduction
<1> QED BY <1>2

\* Induction, for a set of parts of a finite set that grows by single elements.
LEMMA PartGrowth ==
  ASSUME NEW A, IsFiniteSet(A), NEW G \in SUBSET SUBSET A, {} \in G,
         \A T \in G : \A x \in A \ T : T \cup {x} \in G
  PROVE  G = SUBSET A
<1>1. ASSUME NEW s \in SUBSET A, \A t \in SUBSET s : t # s => t \in G
      PROVE  s \in G
  <2>1. CASE s = {}
    BY <2>1
  <2>2. CASE s # {}
    <3>1. PICK x \in s : TRUE
      BY <2>2
    <3>2. s \ {x} \in G
      BY <1>1
    <3>3. s = (s \ {x}) \cup {x} /\ x \in A \ (s \ {x})
      BY <3>1
    <3> QED BY <3>2, <3>3
  <2> QED BY <2>1, <2>2
<1> QED BY <1>1, PartInduction

\* The sum over one element more.
LEMMA SumAdd ==
  ASSUME NEW S, IsFiniteSet(S), NEW f \in [S -> Int], NEW T \in SUBSET S, NEW x \in S \ T
  PROVE  /\ SumOver(f, T \cup {x}) = f[x] + SumOver(f, T)
         /\ SumOver(f, T) \in Int
         /\ f[x] \in Int
<1>1. (T \cup {x}) \ {x} = T /\ T \cup {x} \in SUBSET S
  OBVIOUS
<1>2. SumOver(f, T \cup {x}) = f[x] + SumOver(f, (T \cup {x}) \ {x})
  BY <1>1, SumStep
<1> QED BY <1>1, <1>2, SumType

\* A sum is a sum over all of the domain.
LEMMA TotalIsSum ==
  ASSUME NEW S, NEW f \in [S -> Int]
  PROVE  Total(f) = SumOver(f, S)
<1>1. f = [x \in S |-> f[x]]
  OBVIOUS
<1> QED BY <1>1 DEF SumOver

\* Sums of integers are integers.
LEMMA TotalType ==
  ASSUME NEW S, IsFiniteSet(S), NEW f \in [S -> Int]
  PROVE  Total(f) \in Int
BY TotalIsSum, SumType

\* The sum of sums.
LEMMA SumsAdd ==
  ASSUME NEW S, IsFiniteSet(S), NEW f \in [S -> Int], NEW g \in [S -> Int], NEW h \in [S -> Int],
         \A x \in S : h[x] = f[x] + g[x]
  PROVE  Total(h) = Total(f) + Total(g)
<1> DEFINE Goal(T) == SumOver(h, T) = SumOver(f, T) + SumOver(g, T)
           G == {T \in SUBSET S : Goal(T)}
<1>1. {} \in G
  BY SumOfNone
<1>2. ASSUME NEW T \in G, NEW x \in S \ T PROVE T \cup {x} \in G
  <2>0. T \in SUBSET S
    OBVIOUS
  <2> HIDE DEF G
  <2>1. /\ SumOver(f, T \cup {x}) = f[x] + SumOver(f, T)
        /\ SumOver(f, T) \in Int /\ f[x] \in Int
    BY <2>0, SumAdd
  <2>2. /\ SumOver(g, T \cup {x}) = g[x] + SumOver(g, T)
        /\ SumOver(g, T) \in Int /\ g[x] \in Int
    BY <2>0, SumAdd
  <2>3. SumOver(h, T \cup {x}) = h[x] + SumOver(h, T)
    BY <2>0, SumAdd
  <2> USE DEF G
  <2>4. Goal(T \cup {x})
    BY <2>1, <2>2, <2>3
  <2> QED BY <2>0, <2>4
<1>3. G = SUBSET S
  <2>1. G \in SUBSET SUBSET S
    OBVIOUS
  <2> HIDE DEF G
  <2> QED BY <1>1, <1>2, <2>1, PartGrowth
<1>4. Goal(S)
  BY <1>3
<1> QED BY <1>4, TotalIsSum

\* A sum is monotone in what is summed.
LEMMA SumsCompare ==
  ASSUME NEW S, IsFiniteSet(S), NEW f \in [S -> Int], NEW g \in [S -> Int],
         \A x \in S : f[x] <= g[x]
  PROVE  Total(f) <= Total(g)
<1> DEFINE Goal(T) == SumOver(f, T) <= SumOver(g, T)
           G == {T \in SUBSET S : Goal(T)}
<1>1. {} \in G
  BY SumOfNone
<1>2. ASSUME NEW T \in G, NEW x \in S \ T PROVE T \cup {x} \in G
  <2>1. /\ SumOver(f, T \cup {x}) = f[x] + SumOver(f, T) /\ SumOver(f, T) \in Int
        /\ SumOver(g, T \cup {x}) = g[x] + SumOver(g, T) /\ SumOver(g, T) \in Int
        /\ f[x] \in Int /\ g[x] \in Int
    BY SumAdd
  <2>2. Goal(T \cup {x})
    BY <2>1
  <2> QED BY <2>2
<1>3. G = SUBSET S
  <2>1. G \in SUBSET SUBSET S
    OBVIOUS
  <2> HIDE DEF G
  <2> QED BY <1>1, <1>2, <2>1, PartGrowth
<1>4. Goal(S)
  BY <1>3
<1> QED BY <1>4, TotalIsSum

\* A factor of every summand is one of the sum.
LEMMA SumScaled ==
  ASSUME NEW S, IsFiniteSet(S), NEW f \in [S -> Int], NEW c \in Int, NEW h \in [S -> Int],
         \A x \in S : h[x] = f[x] * c
  PROVE  Total(h) = Total(f) * c
<1> DEFINE Goal(T) == SumOver(h, T) = SumOver(f, T) * c
           G == {T \in SUBSET S : Goal(T)}
<1>1. {} \in G
  <2>1. Goal({})
    BY SumOfNone
  <2> QED BY <2>1
<1>2. ASSUME NEW T \in G, NEW x \in S \ T PROVE T \cup {x} \in G
  <2>1. /\ SumOver(f, T \cup {x}) = f[x] + SumOver(f, T) /\ SumOver(f, T) \in Int
        /\ SumOver(h, T \cup {x}) = h[x] + SumOver(h, T)
        /\ f[x] \in Int
    BY SumAdd
  <2>2. h[x] = f[x] * c
    OBVIOUS
  <2>3. (f[x] + SumOver(f, T)) * c = f[x] * c + SumOver(f, T) * c
    <3>1. \A a, b \in Int : (a + b) * c = a * c + b * c
      OBVIOUS
    <3> QED BY <2>1, <3>1
  <2>4. Goal(T \cup {x})
    BY <2>1, <2>2, <2>3
  <2> QED BY <2>4
<1>3. G = SUBSET S
  <2>1. G \in SUBSET SUBSET S
    OBVIOUS
  <2> HIDE DEF G
  <2> QED BY <1>1, <1>2, <2>1, PartGrowth
<1>4. Goal(S)
  BY <1>3
<1> QED BY <1>4, TotalIsSum

\* Counting is summing ones.
LEMMA SumOfOnes ==
  ASSUME NEW S, IsFiniteSet(S), NEW F \in SUBSET S
  PROVE  Total([x \in S |-> IF x \in F THEN 1 ELSE 0]) = Cardinality(F)
<1> DEFINE f == [x \in S |-> IF x \in F THEN 1 ELSE 0]
           Goal(T) == SumOver(f, T) = Cardinality(F \cap T)
           G == {T \in SUBSET S : Goal(T)}
<1>0. f \in [S -> Int] /\ \A x \in S : f[x] = IF x \in F THEN 1 ELSE 0
  OBVIOUS
<1> HIDE DEF f
<1>1. {} \in G
  <2>1. F \cap {} = {} /\ Cardinality({}) = 0
    BY FS_EmptySet
  <2>2. Goal({})
    BY <2>1, SumOfNone
  <2> QED BY <2>2
<1>2. ASSUME NEW T \in G, NEW x \in S \ T PROVE T \cup {x} \in G
  <2>1. SumOver(f, T \cup {x}) = f[x] + SumOver(f, T)
    BY <1>0, SumAdd
  <2>2. IsFiniteSet(F \cap T) /\ Cardinality(F \cap T) \in Nat
    BY FS_Subset, FS_CardinalityType
  <2>3. CASE x \in F
    <3>1. F \cap (T \cup {x}) = (F \cap T) \cup {x} /\ x \notin F \cap T
      BY <2>3
    <3>2. Cardinality(F \cap (T \cup {x})) = Cardinality(F \cap T) + 1
      BY <2>2, <3>1, FS_AddElement
    <3>3. Goal(T \cup {x})
      BY <1>0, <2>1, <2>2, <2>3, <3>2
    <3> QED BY <3>3
  <2>4. CASE x \notin F
    <3>1. F \cap (T \cup {x}) = F \cap T
      BY <2>4
    <3>2. Goal(T \cup {x})
      BY <1>0, <2>1, <2>2, <2>4, <3>1
    <3> QED BY <3>2
  <2> QED BY <2>3, <2>4
<1>3. G = SUBSET S
  <2>1. G \in SUBSET SUBSET S
    OBVIOUS
  <2> HIDE DEF G
  <2> QED BY <1>1, <1>2, <2>1, PartGrowth
<1>4. Goal(S)
  BY <1>3
<1>5. F \cap S = F
  OBVIOUS
<1>6. Total(f) = Cardinality(F)
  BY <1>0, <1>4, <1>5, TotalIsSum
<1> QED BY <1>6 DEF f

\* A sum grows by one with one summand.
LEMMA SumPlusOne ==
  ASSUME NEW S, IsFiniteSet(S), NEW f \in [S -> Int], NEW u \in [S -> Int], NEW a \in S,
         \A x \in S : u[x] = f[x] + (IF x = a THEN 1 ELSE 0)
  PROVE  Total(u) = Total(f) + 1
<1> DEFINE one == [x \in S |-> IF x \in {a} THEN 1 ELSE 0]
<1>1. Total(one) = 1
  <2>1. ASSUME NEW F \in SUBSET S
        PROVE  Total([x \in S |-> IF x \in F THEN 1 ELSE 0]) = Cardinality(F)
    BY SumOfOnes
  <2>2. {a} \in SUBSET S /\ Cardinality({a}) = 1
    BY FS_Singleton
  <2> QED BY <2>1, <2>2
<1>2. one \in [S -> Int] /\ \A x \in S : u[x] = f[x] + one[x]
  OBVIOUS
<1> HIDE DEF one
<1>3. Total(u) = Total(f) + Total(one)
  BY <1>2, SumsAdd
<1> QED BY <1>1, <1>3

\* What is sorted into classes is counted class by class.
LEMMA SumOfClasses ==
  ASSUME NEW S, IsFiniteSet(S), NEW D, IsFiniteSet(D), NEW h \in [D -> S]
  PROVE  Total([l \in S |-> Cardinality({d \in D : h[d] = l})]) = Cardinality(D)
<1> DEFINE c(T) == [l \in S |-> Cardinality({d \in T : h[d] = l})]
           Goal(T) == Total(c(T)) = Cardinality(T)
           G == {T \in SUBSET D : Goal(T)}
<1>0. \A T \in SUBSET D : /\ IsFiniteSet(T) /\ Cardinality(T) \in Nat
                          /\ c(T) \in [S -> Int]
  <2> SUFFICES ASSUME NEW T \in SUBSET D
               PROVE  IsFiniteSet(T) /\ Cardinality(T) \in Nat /\ c(T) \in [S -> Int]
    OBVIOUS
  <2>1. ASSUME NEW l \in S PROVE Cardinality({d \in T : h[d] = l}) \in Int
    <3>1. {d \in T : h[d] = l} \in SUBSET D
      OBVIOUS
    <3> QED BY <3>1, FS_Subset, FS_CardinalityType
  <2> QED BY <2>1, FS_Subset, FS_CardinalityType
<1>1. {} \in G
  <2> DEFINE z == [l \in S |-> 0]
             z2 == [l \in S |-> IF l \in {} THEN 1 ELSE 0]
  <2>1. \A l \in S : {d \in {} : h[d] = l} = {}
    OBVIOUS
  <2>2. c({}) = z2
    BY <2>1, FS_EmptySet
  <2>3. Total(z2) = Cardinality({})
    BY SumOfOnes
  <2>4. Goal({})
    BY <2>2, <2>3
  <2> QED BY <2>4
<1>2. ASSUME NEW T \in G, NEW x \in D \ T PROVE T \cup {x} \in G
  <2> DEFINE U == T \cup {x}
             u == c(U)
             v == c(T)
  <2>1. u \in [S -> Int] /\ v \in [S -> Int] /\ h[x] \in S
    BY <1>0
  <2>2. ASSUME NEW l \in S
        PROVE  u[l] = v[l] + (IF l = h[x] THEN 1 ELSE 0)
    <3> DEFINE old == {d \in T : h[d] = l}
    <3>1. old \in SUBSET D /\ IsFiniteSet(old) /\ Cardinality(old) \in Nat
      BY FS_Subset, FS_CardinalityType
    <3>2. u[l] = Cardinality({d \in U : h[d] = l}) /\ v[l] = Cardinality(old)
      OBVIOUS
    <3>3. CASE h[x] = l
      <4>1. {d \in U : h[d] = l} = old \cup {x} /\ x \notin old
        BY <3>3
      <4> HIDE DEF old, u, v
      <4>2. Cardinality(old \cup {x}) = Cardinality(old) + 1
        BY <3>1, <4>1, FS_AddElement
      <4> QED BY <3>2, <3>3, <4>1, <4>2
    <3>4. CASE h[x] # l
      <4>1. {d \in U : h[d] = l} = old
        BY <3>4
      <4>2. u[l] = v[l] /\ v[l] \in Nat
        BY <3>1, <3>2, <4>1, Zenon
      <4> HIDE DEF old, u, v, U
      <4> QED BY <3>4, <4>2
    <3> QED BY <3>3, <3>4
  <2>3. Total(u) = Total(v) + 1
    <3> DEFINE a == h[x]
    <3>1. a \in S /\ \A l \in S : u[l] = v[l] + (IF l = a THEN 1 ELSE 0)
      BY <2>1, <2>2
    <3> HIDE DEF u, v, a, G, c, U
    <3> QED BY <2>1, <3>1, SumPlusOne
  <2>4. Cardinality(U) = Cardinality(T) + 1
    BY <1>0, FS_AddElement
  <2>5. Goal(T)
    OBVIOUS
  <2>6. Goal(U)
    <3> HIDE DEF c
    <3> QED BY <2>3, <2>4, <2>5
  <2> QED BY <2>6
<1>3. G = SUBSET D
  <2>1. G \in SUBSET SUBSET D
    OBVIOUS
  <2> HIDE DEF G
  <2> QED BY <1>1, <1>2, <2>1, PartGrowth
<1>4. Goal(D)
  BY <1>3
<1> QED BY <1>4

\* Disjoint parts are summed separately.
LEMMA SumOfParts ==
  ASSUME NEW S, IsFiniteSet(S), NEW f \in [S -> Int],
         NEW A \in SUBSET S, NEW B \in SUBSET S, A \cap B = {}
  PROVE  SumOver(f, A \cup B) = SumOver(f, A) + SumOver(f, B)
<1> DEFINE Goal(T) == SumOver(f, A \cup T) = SumOver(f, A) + SumOver(f, T)
           G == {T \in SUBSET B : Goal(T)}
<1>0. IsFiniteSet(B) /\ SumOver(f, A) \in Int
  BY FS_Subset, SumType
<1>1. {} \in G
  <2>1. A \cup {} = A
    OBVIOUS
  <2>2. Goal({})
    BY <1>0, <2>1, SumOfNone
  <2> QED BY <2>2
<1>2. ASSUME NEW T \in G, NEW x \in B \ T PROVE T \cup {x} \in G
  <2> DEFINE AT == A \cup T
  <2>0. T \in SUBSET S /\ x \in S \ T /\ AT \in SUBSET S /\ x \in S \ AT
        /\ T \cup {x} \in SUBSET B /\ A \cup (T \cup {x}) = AT \cup {x}
    OBVIOUS
  <2>1. SumOver(f, AT) = SumOver(f, A) + SumOver(f, T)
    OBVIOUS
  <2> HIDE DEF AT, G, Goal
  <2>2. /\ SumOver(f, T \cup {x}) = f[x] + SumOver(f, T) /\ SumOver(f, T) \in Int
        /\ f[x] \in Int
    BY <2>0, SumAdd
  <2>3. SumOver(f, AT \cup {x}) = f[x] + SumOver(f, AT)
    BY <2>0, SumAdd
  <2>4. SumOver(f, A \cup (T \cup {x})) = SumOver(f, AT \cup {x})
    BY <2>0
  <2>5. SumOver(f, A \cup (T \cup {x})) = SumOver(f, A) + SumOver(f, T \cup {x})
    BY <1>0, <2>1, <2>2, <2>3, <2>4
  <2> QED BY <2>0, <2>5 DEF Goal, G
<1>3. G = SUBSET B
  <2>1. G \in SUBSET SUBSET B
    OBVIOUS
  <2> HIDE DEF G
  <2> QED BY <1>0, <1>1, <1>2, <2>1, PartGrowth
<1> QED BY <1>3

-------------------------------------------------------------------------------
(* The split *)

\* A part of a finite set that is not empty has a member of the highest rank.
LEMMA HasTop ==
  ASSUME NEW A, IsFiniteSet(A), NEW r \in [A -> Int]
  PROVE  \A T \in SUBSET A : T # {} => \E x \in T : \A y \in T : r[y] <= r[x]
<1> DEFINE Goal(T) == T # {} => \E x \in T : \A y \in T : r[y] <= r[x]
           G == {T \in SUBSET A : Goal(T)}
<1>1. {} \in G
  OBVIOUS
<1>2. ASSUME NEW T \in G, NEW x \in A \ T PROVE T \cup {x} \in G
  <2>1. CASE T = {}
    <3>1. Goal(T \cup {x})
      BY <2>1
    <3> QED BY <3>1
  <2>2. CASE T # {}
    <3>1. PICK a \in T : \A y \in T : r[y] <= r[a]
      BY <2>2
    <3>2. \E b \in {a, x} : \A y \in T \cup {x} : r[y] <= r[b]
      <4>1. r[a] \in Int /\ r[x] \in Int /\ \A y \in T : r[y] \in Int
        OBVIOUS
      <4>2. CASE r[x] <= r[a]
        BY <3>1, <4>1, <4>2
      <4>3. CASE r[a] <= r[x]
        BY <3>1, <4>1, <4>3
      <4> QED BY <4>1, <4>2, <4>3
    <3>3. Goal(T \cup {x})
      BY <3>2
    <3> QED BY <3>3
  <2> QED BY <2>1, <2>2
<1>3. G = SUBSET A
  <2>1. G \in SUBSET SUBSET A
    OBVIOUS
  <2> HIDE DEF G
  <2> QED BY <1>1, <1>2, <2>1, PartGrowth
<1> QED BY <1>3

\* Of a finite set there is a part of every size that outranks the rest.
LEMMA TopRanked ==
  ASSUME NEW A, IsFiniteSet(A), NEW r \in [A -> Int], NEW m \in 0..Cardinality(A)
  PROVE  \E F \in SUBSET A : /\ Cardinality(F) = m
                             /\ \A k \in F, l \in A \ F : r[k] >= r[l]
<1> DEFINE Top(F, n) == Cardinality(F) = n /\ \A k \in F, l \in A \ F : r[k] >= r[l]
           G == {n \in Nat : n <= Cardinality(A) => \E F \in SUBSET A : Top(F, n)}
<1>0. Cardinality(A) \in Nat /\ \A F \in SUBSET A : IsFiniteSet(F)
  BY FS_CardinalityType, FS_Subset
<1>1. 0 \in G
  <2>1. {} \in SUBSET A /\ Top({}, 0)
    BY FS_EmptySet
  <2> HIDE DEF Top
  <2> QED BY <2>1
<1>2. ASSUME NEW n \in G PROVE n + 1 \in G
  <2> SUFFICES ASSUME n + 1 <= Cardinality(A) PROVE \E F \in SUBSET A : Top(F, n + 1)
    OBVIOUS
  <2>1. PICK F \in SUBSET A : Top(F, n)
    <3> HIDE DEF Top
    <3>1. n <= Cardinality(A)
      BY <1>0
    <3> QED BY <3>1
  <2>2. A \ F # {}
    <3>1. Cardinality(F) # Cardinality(A)
      BY <1>0, <2>1
    <3> QED BY <3>1
  <2>3. PICK x \in A \ F : \A y \in A \ F : r[y] <= r[x]
    <3>1. A \ F \in SUBSET A
      OBVIOUS
    <3> HIDE DEF G, Top
    <3> QED BY <2>2, <3>1, HasTop
  <2>4. Cardinality(F \cup {x}) = n + 1
    BY <1>0, <2>1, FS_AddElement
  <2>5. \A k \in F \cup {x}, l \in A \ (F \cup {x}) : r[k] >= r[l]
    <3>1. \A k \in A : r[k] \in Int
      OBVIOUS
    <3> QED BY <2>1, <2>3, <3>1
  <2>6. Top(F \cup {x}, n + 1) /\ F \cup {x} \in SUBSET A
    BY <2>4, <2>5
  <2> HIDE DEF Top
  <2> QED BY <2>6
<1>3. G = Nat
  <2>1. G \in SUBSET Nat
    OBVIOUS
  <2> HIDE DEF G
  <2> QED BY <1>1, <1>2, <2>1, NumberInduction
<1> QED BY <1>0, <1>3

\* Division with remainder.
LEMMA Division ==
  ASSUME NEW a \in Nat, NEW b \in Nat \ {0}
  PROVE  /\ a \div b \in Nat /\ a % b \in 0..(b - 1)
         /\ a = ((a \div b) * b) + (a % b)
<1>1. a \div b \in Nat /\ a % b \in 0..(b - 1)
  OBVIOUS
<1>2. a = (b * (a \div b)) + (a % b)
  OBVIOUS
<1> QED BY <1>1, <1>2

\* What the floors leave over is one seat for each of some of the strata.
LEMMA SeatsLeftOver ==
  ASSUME NEW K, IsFiniteSet(K), K # {}, NEW sizes \in [K -> Nat \ {0}],
         NEW dev \in 0..Total(sizes)
  PROVE  /\ Total(sizes) \in Nat \ {0}
         /\ \A k \in K : /\ Floors(sizes, dev)[k] \in 0..sizes[k]
                         /\ Remainder(sizes, dev, k) \in 0..(Total(sizes) - 1)
                         /\ sizes[k] * dev = Floors(sizes, dev)[k] * Total(sizes)
                                               + Remainder(sizes, dev, k)
                         /\ dev # Total(sizes) => Floors(sizes, dev)[k] + 1 \in 0..sizes[k]
         /\ dev - Total(Floors(sizes, dev)) \in 0..Cardinality(K)
         /\ dev = Total(sizes) => Total(Floors(sizes, dev)) = dev
<1> DEFINE T == Total(sizes)
           fl == Floors(sizes, dev)
           re == [k \in K |-> Remainder(sizes, dev, k)]
<1>0. \A k \in K : sizes[k] \in Nat \ {0}
  OBVIOUS
<1>1. T \in Nat \ {0}
  <2> DEFINE one == [k \in K |-> IF k \in K THEN 1 ELSE 0]
  <2>1. Total(one) = Cardinality(K)
    BY SumOfOnes
  <2>2. sizes \in [K -> Int] /\ one \in [K -> Int] /\ \A k \in K : one[k] <= sizes[k]
    BY <1>0
  <2> HIDE DEF one
  <2>3. Total(one) <= T /\ T \in Int
    BY <2>2, SumsCompare, TotalType
  <2>4. Cardinality(K) \in Nat /\ Cardinality(K) # 0
    BY FS_CardinalityType, FS_EmptySet
  <2> QED BY <2>1, <2>3, <2>4
<1>2. dev \in Nat /\ dev <= T
  BY <1>1
<1> HIDE DEF T
<1>3. ASSUME NEW k \in K
      PROVE  /\ fl[k] \in Nat /\ re[k] \in 0..(T - 1)
             /\ sizes[k] * dev = fl[k] * T + re[k]
  <2>1. sizes[k] * dev \in Nat
    BY <1>0, <1>2
  <2>2. fl[k] = (sizes[k] * dev) \div T /\ re[k] = (sizes[k] * dev) % T
    BY DEF Floors, Remainder, T
  <2> HIDE DEF fl, re
  <2> QED BY <1>1, <2>1, <2>2, Division
<1>4. fl \in [K -> Int] /\ re \in [K -> Int] /\ sizes \in [K -> Int]
  <2>1. fl \in [K -> Nat]
    <3>1. fl = [k \in K |-> fl[k]]
      BY DEF Floors
    <3> HIDE DEF fl
    <3> QED BY <1>3, <3>1
  <2>2. re \in [K -> Int]
    <3>1. re = [k \in K |-> re[k]]
      OBVIOUS
    <3> HIDE DEF re, fl
    <3> QED BY <1>1, <1>3, <3>1
  <2> QED BY <1>0, <2>1, <2>2
<1>5. \A k \in K : re[k] = Remainder(sizes, dev, k)
  OBVIOUS
<1> HIDE DEF fl, re
<1>6. T * dev = Total(fl) * T + Total(re) /\ Total(fl) \in Int /\ Total(re) \in Int
  <2> DEFINE left == [k \in K |-> sizes[k] * dev]
             right == [k \in K |-> fl[k] * T]
  <2>1. left \in [K -> Int] /\ right \in [K -> Int]
    <3>1. \A k \in K : sizes[k] * dev \in Int /\ fl[k] * T \in Int
      BY <1>0, <1>1, <1>2, <1>3
    <3> QED BY <3>1
  <2>2. \A k \in K : left[k] = sizes[k] * dev /\ right[k] = fl[k] * T
    OBVIOUS
  <2> HIDE DEF left, right
  <2>3. Total(left) = T * dev
    BY <1>2, <1>4, <2>1, <2>2, SumScaled DEF T
  <2>4. Total(right) = Total(fl) * T
    BY <1>1, <1>4, <2>1, <2>2, SumScaled
  <2>5. \A k \in K : left[k] = right[k] + re[k]
    BY <1>3, <2>2
  <2>6. Total(left) = Total(right) + Total(re)
    BY ONLY IsFiniteSet(K), <1>4, <2>1, <2>5, SumsAdd
  <2> QED BY <1>4, <2>3, <2>4, <2>6, TotalType
<1>7. Total(re) \in 0..(T * Cardinality(K)) /\ (dev = T => Total(re) = 0)
  <2> DEFINE zero == [k \in K |-> IF k \in {} THEN 1 ELSE 0]
             one == [k \in K |-> IF k \in K THEN 1 ELSE 0]
             most == [k \in K |-> one[k] * T]
  <2>1. Total(zero) = 0 /\ Total(one) = Cardinality(K)
    BY SumOfOnes, FS_EmptySet
  <2>2. /\ zero \in [K -> Int] /\ one \in [K -> Int] /\ most \in [K -> Int]
        /\ \A k \in K : zero[k] = 0 /\ one[k] = 1 /\ most[k] = one[k] * T
    BY <1>1
  <2> HIDE DEF zero, one, most
  <2>3. Total(most) = Cardinality(K) * T
    BY <1>1, <2>1, <2>2, SumScaled
  <2>4. \A k \in K : zero[k] <= re[k] /\ re[k] <= most[k]
    BY <1>1, <1>3, <2>2
  <2>5. Total(zero) <= Total(re) /\ Total(re) <= Total(most)
    BY <1>4, <2>2, <2>4, SumsCompare
  <2>6. ASSUME dev = T PROVE Total(re) = 0
    <3>1. ASSUME NEW k \in K PROVE re[k] = 0
      <4>1. re[k] = (sizes[k] - fl[k]) * T
        <5> DEFINE s == sizes[k]
                   f == fl[k]
        <5>1. s \in Int /\ f \in Int /\ re[k] \in Int /\ s * T = f * T + re[k]
          BY <1>0, <1>1, <1>3, <2>6
        <5> HIDE DEF s, f
        <5>2. (s - f) * T = s * T - f * T /\ s * T \in Int /\ f * T \in Int
          BY <1>1, <5>1
        <5>3. re[k] = (s - f) * T
          BY <5>1, <5>2
        <5> QED BY <5>3 DEF s, f
      <4> DEFINE d == sizes[k] - fl[k]
      <4>2. d \in Int /\ re[k] = d * T /\ re[k] >= 0 /\ re[k] < T
        BY <1>0, <1>1, <1>3, <4>1
      <4> HIDE DEF d
      <4>3. d < 1 /\ d > -1
        BY <1>1, <4>2
      <4> QED BY <1>1, <4>2, <4>3
    <3>2. \A k \in K : re[k] <= zero[k]
      BY <2>2, <3>1
    <3>3. Total(re) <= Total(zero)
      BY <1>4, <2>2, <3>2, SumsCompare
    <3> QED BY <1>6, <2>1, <2>5, <3>3
  <2>7. Cardinality(K) \in Nat
    BY FS_CardinalityType
  <2> QED BY <1>1, <1>6, <2>1, <2>3, <2>5, <2>6, <2>7
<1>8. dev - Total(fl) \in 0..Cardinality(K) /\ (dev = T => Total(fl) = dev)
  <2> DEFINE m == dev - Total(fl)
  <2>1. m \in Int /\ m * T = Total(re) /\ Cardinality(K) \in Nat
    BY <1>1, <1>2, <1>6, FS_CardinalityType
  <2> HIDE DEF m
  <2>2. m >= 0
    BY <1>1, <1>7, <2>1
  <2>3. m <= Cardinality(K)
    BY <1>1, <1>7, <2>1
  <2>4. dev = T => m = 0
    BY <1>1, <1>7, <2>1
  <2>5. m \in 0..Cardinality(K) /\ Total(fl) = dev - m
    <3>1. Total(fl) = dev - m
      BY <1>2, <1>6 DEF m
    <3> QED BY <2>1, <2>2, <2>3, <3>1
  <2>6. dev = T => Total(fl) = dev
    BY <1>2, <2>4, <2>5
  <2> QED BY <2>5, <2>6 DEF m
<1>9. ASSUME NEW k \in K
      PROVE  fl[k] \in 0..sizes[k] /\ (dev # T => fl[k] + 1 \in 0..sizes[k])
  <2> DEFINE s == sizes[k]
             f == fl[k]
  <2>1. s \in Nat \ {0} /\ f \in Nat /\ re[k] \in Nat /\ s * dev = f * T + re[k]
    BY <1>0, <1>1, <1>3
  <2> HIDE DEF s, f
  <2>2. f * T <= s * dev /\ s * dev <= s * T
    <3>1. s * dev <= s * T
      BY <1>1, <1>2, <2>1
    <3>2. f * T \in Int /\ s * dev \in Int
      BY <1>1, <1>2, <2>1
    <3> QED BY <2>1, <3>1, <3>2
  <2>3. f <= s
    BY <1>1, <2>1, <2>2
  <2>4. ASSUME dev # T PROVE f < s
    <3>1. s * dev < s * T
      BY <1>1, <1>2, <2>1, <2>4
    <3> QED BY <1>1, <1>2, <2>1, <2>2, <3>1
  <2> QED BY <2>1, <2>3, <2>4 DEF s, f
<1> QED BY <1>1, <1>3, <1>5, <1>8, <1>9 DEF T, fl

\* Whatever the strata and the size of the split, the largest remainders fill it exactly,
\* take no document twice, and leave no stratum further below its share than another is
\* above (make_split.py).
THEOREM SplitIsAlwaysProportional ==
  ASSUME NEW K, IsFiniteSet(K), K # {}, NEW sizes \in [K -> Nat \ {0}],
         NEW dev \in 0..Total(sizes)
  PROVE  SplitIsProportional(sizes, dev)
<1> DEFINE T == Total(sizes)
           fl == Floors(sizes, dev)
           re == [k \in K |-> Remainder(sizes, dev, k)]
           m == dev - Total(fl)
<1>0. DOMAIN sizes = K
  OBVIOUS
<1>1. /\ T \in Nat \ {0} /\ m \in 0..Cardinality(K) /\ (dev = T => m = 0)
      /\ \A k \in K : /\ fl[k] \in 0..sizes[k] /\ re[k] \in 0..(T - 1)
                      /\ sizes[k] * dev = fl[k] * T + re[k]
                      /\ dev # T => fl[k] + 1 \in 0..sizes[k]
  <2>1. \A k \in K : re[k] = Remainder(sizes, dev, k)
    OBVIOUS
  <2> HIDE DEF re
  <2>2. /\ T \in Nat \ {0} /\ m \in 0..Cardinality(K)
        /\ \A k \in K : /\ fl[k] \in 0..sizes[k] /\ re[k] \in 0..(T - 1)
                        /\ sizes[k] * dev = fl[k] * T + re[k]
                        /\ dev # T => fl[k] + 1 \in 0..sizes[k]
    BY <2>1, SeatsLeftOver
  <2>3. dev = T => Total(fl) = dev
    BY SeatsLeftOver
  <2>4. dev \in Int
    BY <2>2
  <2> QED BY <2>2, <2>3, <2>4
<1>2. fl \in [K -> Int] /\ re \in [K -> Int] /\ \A k \in K : sizes[k] \in Nat
  <2>1. fl = [k \in K |-> fl[k]] /\ re = [k \in K |-> re[k]]
    BY DEF Floors
  <2>2. \A k \in K : fl[k] \in Int /\ re[k] \in Int
    BY <1>1
  <2> HIDE DEF fl, re
  <2> QED BY <2>1, <2>2
<1>3. Favoured(sizes, dev)
        = {F \in SUBSET K : Cardinality(F) = m /\ \A k \in F, l \in K \ F : re[k] >= re[l]}
  BY <1>0 DEF Favoured
<1>4. Favoured(sizes, dev) # {}
  <2> HIDE DEF re, m
  <2> QED BY <1>1, <1>2, <1>3, TopRanked
<1>5. ASSUME NEW F \in Favoured(sizes, dev), NEW counts,
             counts = [k \in K |-> fl[k] + (IF k \in F THEN 1 ELSE 0)]
      PROVE  /\ Total(counts) = dev
             /\ \A k \in K : counts[k] \in 0..sizes[k]
             /\ \A k, l \in K :
                  (counts[k] * T - sizes[k] * dev) - (counts[l] * T - sizes[l] * dev) <= T
  <2> DEFINE one == [k \in K |-> IF k \in F THEN 1 ELSE 0]
  <2>1. F \in SUBSET K /\ Cardinality(F) = m /\ \A k \in F, l \in K \ F : re[k] >= re[l]
    <3> HIDE DEF re, m
    <3> QED BY <1>3
  <2> HIDE DEF re
  <2>2. Total(one) = m
    BY <2>1, SumOfOnes
  <2>3. one \in [K -> Int] /\ \A k \in K : one[k] = IF k \in F THEN 1 ELSE 0
    OBVIOUS
  <2> HIDE DEF one, fl
  <2>4. counts \in [K -> Int] /\ \A k \in K : counts[k] = fl[k] + one[k]
    BY <1>2, <1>5, <2>3
  <2>5. Total(counts) = dev
    <3>1. Total(counts) = Total(fl) + Total(one)
      BY <1>2, <2>3, <2>4, SumsAdd
    <3>2. Total(fl) \in Int /\ dev \in Int
      BY <1>1, <1>2, TotalType
    <3> QED BY <2>2, <3>1, <3>2
  <2>6. ASSUME NEW k \in K PROVE counts[k] \in 0..sizes[k]
    <3>1. CASE k \in F
      <4>1. m # 0
        BY <2>1, <3>1, FS_EmptySet, FS_Subset
      <4>2. dev # T
        BY <1>1, <4>1
      <4> HIDE DEF T, m
      <4> QED BY <1>1, <2>3, <2>4, <3>1, <4>2
    <3>2. CASE k \notin F
      BY <1>1, <1>2, <2>3, <2>4, <3>2
    <3> QED BY <3>1, <3>2
  <2>7. ASSUME NEW k \in K
        PROVE  counts[k] * T - sizes[k] * dev = one[k] * T - re[k]
    <3> DEFINE f == fl[k]
               o == one[k]
               p == sizes[k] * dev
    <3>1. f \in Int /\ o \in Int /\ re[k] \in Int /\ p = f * T + re[k] /\ counts[k] = f + o
      BY <1>1, <1>2, <2>3, <2>4
    <3>2. (f + o) * T = f * T + o * T
      <4> HIDE DEF f, o, T
      <4> QED BY <1>1, <3>1
    <3>3. f * T \in Int /\ o * T \in Int
      <4> HIDE DEF f, o, T
      <4> QED BY <1>1, <3>1
    <3> HIDE DEF f, o, p, T
    <3>4. counts[k] * T - p = o * T - re[k]
      BY <3>1, <3>2, <3>3
    <3> QED BY <3>4 DEF o, p
  <2>8. ASSUME NEW k \in K, NEW l \in K
        PROVE  (counts[k] * T - sizes[k] * dev) - (counts[l] * T - sizes[l] * dev) <= T
    <3>1. re[k] \in 0..(T - 1) /\ re[l] \in 0..(T - 1)
      BY <1>1
    <3>2. (one[k] * T - re[k]) - (one[l] * T - re[l]) <= T
      <4> HIDE DEF T
      <4>1. CASE k \in F /\ l \notin F
        <5>1. one[k] = 1 /\ one[l] = 0 /\ re[k] >= re[l]
          BY <2>1, <2>3, <4>1
        <5> QED BY <1>1, <3>1, <5>1
      <4>2. CASE k \notin F /\ l \in F
        <5>1. one[k] = 0 /\ one[l] = 1
          BY <2>3, <4>2
        <5> QED BY <1>1, <3>1, <5>1
      <4>3. CASE (k \in F) = (l \in F)
        <5>1. one[k] = one[l] /\ one[k] \in {0, 1}
          BY <2>3, <4>3
        <5> QED BY <1>1, <3>1, <5>1
      <4> QED BY <4>1, <4>2, <4>3
    <3> HIDE DEF T
    <3> QED BY <2>7, <3>2
  <2> QED BY <2>5, <2>6, <2>8
<1>6. largest_remainder_allocation(sizes, dev)
        = {[k \in K |-> fl[k] + (IF k \in F THEN 1 ELSE 0)] : F \in Favoured(sizes, dev)}
  BY <1>0 DEF largest_remainder_allocation
<1>7. largest_remainder_allocation(sizes, dev) # {}
  <2> HIDE DEF fl
  <2>1. PICK F \in Favoured(sizes, dev) : TRUE
    BY <1>4
  <2> DEFINE counts == [k \in K |-> fl[k] + (IF k \in F THEN 1 ELSE 0)]
  <2>2. counts \in largest_remainder_allocation(sizes, dev)
    BY <1>6, <2>1
  <2> HIDE DEF counts
  <2> QED BY <2>2
<1>8. ASSUME NEW counts \in largest_remainder_allocation(sizes, dev)
      PROVE  /\ Total(counts) = dev
             /\ \A k \in K : counts[k] \in 0..sizes[k]
             /\ \A k, l \in K :
                  (counts[k] * T - sizes[k] * dev) - (counts[l] * T - sizes[l] * dev) <= T
  <2> HIDE DEF fl, T
  <2>1. PICK F \in Favoured(sizes, dev) :
               counts = [k \in K |-> fl[k] + (IF k \in F THEN 1 ELSE 0)]
    BY <1>6
  <2> QED BY <1>5, <2>1
<1> QED BY <1>0, <1>7, <1>8 DEF SplitIsProportional

-------------------------------------------------------------------------------
(* The gate *)

GoldDocument ==
  [trigger : GoldLabels, mechanism : GoldLabels, detection : GoldLabels, dated : BOOLEAN,
   absent : SUBSET REQUIRED_FIELDS]

\* A document passes the strict gate exactly if each field says what it may
\* (validate_labels.py).
LEMMA GateOfOne ==
  ASSUME NEW doc \in GoldDocument
  PROVE  Invalids(doc) = {} /\ Empties(doc) = {} <=>
           /\ REQUIRED_FIELDS \cap doc.absent = {}
           /\ doc.trigger \in Labels \cup {NullLabel}
           /\ doc.mechanism \in Labels /\ doc.detection \in Labels
           /\ doc.dated
<1>0. /\ doc.trigger \in GoldLabels /\ doc.mechanism \in GoldLabels
      /\ doc.detection \in GoldLabels /\ doc.dated \in BOOLEAN
      /\ doc["trigger"] = doc.trigger /\ doc["mechanism"] = doc.mechanism
      /\ doc["detection"] = doc.detection
  BY DEF GoldDocument
<1>1. Invalids(doc) = {} =>
        /\ REQUIRED_FIELDS \cap doc.absent = {}
        /\ \A f \in LabelFields : Held(doc, f) # "stray"
        /\ Held(doc, "mechanism") # NullLabel /\ Held(doc, "detection") # NullLabel
  BY DEF Invalids
<1>2. Empties(doc) = {} <=>
        /\ \A f \in LabelFields : Held(doc, f) # "empty"
        /\ (\E f \in LabelFields : IsSet(Held(doc, f))) => Dated(doc)
  BY DEF Empties
<1>3. ASSUME REQUIRED_FIELDS \cap doc.absent = {}
      PROVE  /\ \A f \in LabelFields : Held(doc, f) = doc[f]
             /\ Dated(doc) <=> doc.dated
             /\ Invalids(doc) = {} <=>
                  /\ \A f \in LabelFields : doc[f] # "stray"
                  /\ doc.mechanism # NullLabel /\ doc.detection # NullLabel
  <2>1. /\ \A f \in LabelFields : Held(doc, f) = doc[f]
        /\ Dated(doc) <=> doc.dated
    BY <1>3 DEF REQUIRED_FIELDS, Held, Dated
  <2>2. {"mechanism", "detection"} \subseteq LabelFields
    BY DEF LabelFields
  <2> QED BY <1>0, <1>3, <2>1, <2>2 DEF Invalids
<1>4. /\ doc.mechanism \in Labels => IsSet(doc.mechanism)
      /\ \A f : f \in LabelFields <=> f \in {"trigger", "mechanism", "detection"}
  BY EvaluationAssumption DEF IsSet, LabelFields
<1> QED BY <1>0, <1>1, <1>2, <1>3, <1>4, EvaluationAssumption DEF GoldLabels, IsSet

\* Strict validation lets through the finished gold sets and no others, of any size
\* (validate_labels.py).
THEOREM StrictGateIsExact ==
  ASSUME NEW docs \in SUBSET GoldDocument
  PROVE  GateIsExact(docs)
BY GateOfOne DEF GateIsExact, GatePasses

-------------------------------------------------------------------------------
(* The reproducibility bar *)

\* The rounded bar is within half of nine tenths, below it in some sizes only.
LEMMA BarIsRounded ==
  ASSUME NEW n \in Nat
  PROVE  /\ Bar(n) \in Nat
         /\ 10 * Bar(n) - 9 * n \in -5..5
         /\ 10 * Bar(n) < 9 * n <=> BarIsLow(n)
<1> DEFINE k == n \div 20
           m == n % 20
           q == (9 * m) \div 10
           r == (9 * m) % 10
<1>1. k \in Nat /\ m \in 0..19 /\ n = 20 * k + m
  OBVIOUS
<1>2. /\ (9 * n) \div 10 = 18 * k + q /\ (9 * n) % 10 = r
      /\ (18 * k + q) % 2 = q % 2
  <2> HIDE DEF k, m
  <2>1. q \in Nat /\ r \in 0..9 /\ 9 * m = 10 * q + r
    BY <1>1
  <2>2. 9 * n = 10 * (18 * k + q) + r
    BY <1>1, <2>1
  <2> HIDE DEF q, r
  <2> QED BY <1>1, <2>1, <2>2
<1>3. Bar(n) = 18 * k + (IF r > 5 \/ (r = 5 /\ q % 2 = 1) THEN q + 1 ELSE q)
  <2> HIDE DEF k, m
  <2>1. q \in Nat
    BY <1>1
  <2> HIDE DEF q, r
  <2> QED BY <1>1, <1>2, <2>1 DEF Bar
<1>4. BarIsLow(n) <=> m \in {5, 6, 7, 8, 9, 16, 17, 18, 19}
  <2>1. n % 10 = m % 10
    <3> HIDE DEF k, m
    <3> QED BY <1>1
  <2> HIDE DEF k
  <2> QED BY <1>1, <2>1 DEF BarIsLow
<1> HIDE DEF k, m
<1>5. LET b == IF r > 5 \/ (r = 5 /\ q % 2 = 1) THEN q + 1 ELSE q
      IN /\ b \in Nat /\ 10 * b - 9 * m \in -5..5
         /\ 10 * b < 9 * m <=> m \in {5, 6, 7, 8, 9, 16, 17, 18, 19}
  BY <1>1
<1> QED BY <1>1, <1>3, <1>4, <1>5

\* In a corpus of any size the bar is nine tenths up to half a pair, and lower exactly in
\* the sizes where rounding lowers it (repro_check.py).
THEOREM BarIsNineTenthsUpToHalfAPair ==
  ASSUME NEW pairs \in [agree : Nat, others : Nat, differ : Nat]
  PROVE  BarIsNineTenthsRounded(pairs)
<1> DEFINE n == pairs.agree + pairs.others + pairs.differ
<1>1. pairs.agree \in Nat /\ n \in Nat
  OBVIOUS
<1> HIDE DEF n
<1>2. /\ Bar(n) \in Nat
      /\ 10 * Bar(n) - 9 * n \in -5..5
      /\ 10 * Bar(n) < 9 * n <=> BarIsLow(n)
  BY <1>1, BarIsRounded
<1>3. BarIsMet(pairs) <=> pairs.agree >= Bar(n)
  BY DEF BarIsMet, n
<1> QED BY <1>1, <1>2, <1>3 DEF BarIsNineTenthsRounded, n

-------------------------------------------------------------------------------
(* The threshold sweep *)

\* Scores of some documents.
ScoresOf(D) == [D -> [gold : Labels \cup {NullLabel}, pred : Labels \cup {NullLabel},
                      confidence : Nat \cup {Unrecorded}]]

\* Every set of the sweep is finite, and more is routed under a higher threshold.
LEMMA SweepSets ==
  ASSUME NEW D, IsFiniteSet(D), NEW s \in ScoresOf(D),
         NEW t \in Nat
  PROVE  /\ Routed(s, t) \subseteq Routed(s, t + 1)
         /\ RoutedWrong(s, t) \subseteq RoutedWrong(s, t + 1)
         /\ RoutedWrong(s, t) \subseteq Points(s) \ Right(s)
         /\ \A S \in SUBSET D : IsFiniteSet(S) /\ Cardinality(S) \in Nat
         /\ Points(s) \subseteq D /\ Routed(s, t) \subseteq D
         /\ RoutedWrong(s, t) \subseteq D /\ RoutedWrong(s, t + 1) \subseteq D
<1>1. \A d \in Points(s) : s[d].confidence \in Nat
  BY EvaluationAssumption DEF Points, ScoresOf
<1>2. \A u : Routed(s, u) \subseteq Points(s) /\ RoutedWrong(s, u) \subseteq Points(s) \ Right(s)
  BY DEF Routed, RoutedWrong
<1>3. Points(s) \subseteq D
  BY DEF Points, ScoresOf
<1>4. Routed(s, t) \subseteq Routed(s, t + 1)
  BY <1>1 DEF Routed
<1>5. \A S \in SUBSET D : IsFiniteSet(S) /\ Cardinality(S) \in Nat
  BY FS_Subset, FS_CardinalityType
<1> QED BY <1>2, <1>3, <1>4, <1>5 DEF RoutedWrong

\* Once recall is reached, raising the threshold keeps it; and a threshold that meets both
\* bars routes no more than two fifths of the fields, whatever the corpus and the
\* confidences are (score_m5_dev.py).
THEOREM SweepIsMonotoneAndBounded ==
  ASSUME NEW D, IsFiniteSet(D), NEW s \in ScoresOf(D), NEW t \in Nat
  PROVE  /\ RecallHolds(s, t) => RecallHolds(s, t + 1)
         /\ RecallHolds(s, t) /\ PrecisionHolds(s, t) =>
              5 * Cardinality(Routed(s, t)) <= 2 * Cardinality(Points(s))
<1> DEFINE W == Cardinality(Points(s) \ Right(s))
           P == Cardinality(Points(s))
           R == Cardinality(Routed(s, t))
           RW == Cardinality(RoutedWrong(s, t))
           RW1 == Cardinality(RoutedWrong(s, t + 1))
<1>1. W \in Nat /\ P \in Nat /\ R \in Nat /\ RW \in Nat /\ RW1 \in Nat
  <2>1. Points(s) \ Right(s) \subseteq D
    BY SweepSets
  <2> QED BY <2>1, SweepSets
<1>2. RW <= RW1 /\ RW <= W
  <2>1. /\ IsFiniteSet(RoutedWrong(s, t + 1)) /\ IsFiniteSet(Points(s) \ Right(s))
        /\ RoutedWrong(s, t) \in SUBSET RoutedWrong(s, t + 1)
        /\ RoutedWrong(s, t) \in SUBSET (Points(s) \ Right(s))
    BY SweepSets
  <2> QED BY <2>1, FS_Subset
<1>3. RecallHolds(s, t) <=> W # 0 /\ 5 * RW >= 4 * W
  BY DEF RecallHolds
<1>4. RecallHolds(s, t + 1) <=> W # 0 /\ 5 * RW1 >= 4 * W
  BY DEF RecallHolds
<1>5. PrecisionHolds(s, t) => 2 * RW * P >= 5 * W * R
  BY DEF PrecisionHolds
<1> HIDE DEF W, P, R, RW, RW1
<1>6. ASSUME W # 0, 2 * RW * P >= 5 * W * R
      PROVE  5 * R <= 2 * P
  <2>1. W * (2 * P) >= 2 * RW * P
    BY <1>1, <1>2
  <2>2. W * (2 * P) >= W * (5 * R)
    BY <1>1, <1>6, <2>1
  <2> QED BY <1>1, <1>6, <2>2
<1>7. RecallHolds(s, t) => RecallHolds(s, t + 1)
  BY <1>1, <1>2, <1>3, <1>4
<1> QED BY <1>3, <1>5, <1>6, <1>7 DEF R, P

-------------------------------------------------------------------------------
(* Scores *)

\* A document of the gold set as it is scored: confidences in twentieths.
ScoredDocument ==
  [gold : Labels \cup {NullLabel}, pred : Labels \cup {NullLabel},
   confidence : 0..20 \cup {Unrecorded}, extracted : BOOLEAN]

\* What a document without a record is scored as is a score.
LEMMA ScoresAreScores ==
  ASSUME NEW D, NEW docs \in [D -> ScoredDocument]
  PROVE  /\ DOMAIN Scores(docs) = D
         /\ Scores(docs) \in ScoresOf(D)
         /\ \A d \in D : /\ Scores(docs)[d].gold \in Labels \cup {NullLabel}
                         /\ Scores(docs)[d].pred \in Labels \cup {NullLabel}
                         /\ Scores(docs)[d].confidence \in 0..20 \cup {Unrecorded}
<1> DEFINE s == Scores(docs)
<1>1. s = [d \in D |-> s[d]] /\ DOMAIN s = D
  BY DEF Scores
<1>2. ASSUME NEW d \in D
      PROVE  /\ s[d] \in [gold : Labels \cup {NullLabel}, pred : Labels \cup {NullLabel},
                          confidence : 0..20 \cup {Unrecorded}]
  <2>1. docs[d] \in ScoredDocument
    OBVIOUS
  <2>2. CASE docs[d].extracted
    <3>1. s[d] = [gold |-> docs[d].gold, pred |-> docs[d].pred,
                  confidence |-> docs[d].confidence]
      BY <2>2 DEF Scores
    <3> QED BY <2>1, <3>1 DEF ScoredDocument
  <2>3. CASE ~docs[d].extracted
    <3>1. s[d] = [gold |-> docs[d].gold, pred |-> NullLabel, confidence |-> Unrecorded]
      BY <2>3 DEF Scores
    <3> QED BY <2>1, <3>1 DEF ScoredDocument
  <2> QED BY <2>2, <2>3
<1> HIDE DEF s
<1>3. ASSUME NEW d \in D
      PROVE  /\ s[d].gold \in Labels \cup {NullLabel} /\ s[d].pred \in Labels \cup {NullLabel}
             /\ s[d].confidence \in 0..20 \cup {Unrecorded}
             /\ s[d] \in [gold : Labels \cup {NullLabel}, pred : Labels \cup {NullLabel},
                          confidence : Nat \cup {Unrecorded}]
  BY <1>2
<1>4. s \in ScoresOf(D)
  BY <1>1, <1>3 DEF ScoresOf
<1> QED BY <1>1, <1>3, <1>4 DEF s

\* Every document is in one cell of the confusion matrix, and the right ones are on its
\* diagonal.
LEMMA MatrixAddsUp ==
  ASSUME NEW D, IsFiniteSet(D), NEW docs \in [D -> ScoredDocument]
  PROVE  LET s == Scores(docs)
             all == Labels \cup {NullLabel}
         IN /\ Total([l \in all |-> Cardinality(Cell(s, l, l))]) = Cardinality(Right(s))
            /\ Total([c \in all \X all |-> Cardinality(Cell(s, c[1], c[2]))])
                 = Cardinality(DOMAIN s)
<1> DEFINE s == Scores(docs)
           all == Labels \cup {NullLabel}
<1>1. /\ DOMAIN s = D /\ \A d \in D : s[d].gold \in all /\ s[d].pred \in all
  BY ScoresAreScores
<1> HIDE DEF s
<1>2. IsFiniteSet(all)
  <2>1. IsFiniteSet({NullLabel}) /\ IsFiniteSet(Labels)
    BY FS_Singleton, EvaluationAssumption
  <2> QED BY <2>1, FS_Union
<1>3. IsFiniteSet(all \X all)
  BY <1>2, FS_Product
<1> HIDE DEF all
<1>4. Total([l \in all |-> Cardinality(Cell(s, l, l))]) = Cardinality(Right(s))
  <2> DEFINE R == Right(s)
             gold == [d \in R |-> s[d].gold]
             counts == [l \in all |-> Cardinality({d \in R : gold[d] = l})]
  <2>1. R \in SUBSET D /\ IsFiniteSet(R)
    BY <1>1, FS_Subset DEF Right
  <2>2. gold \in [R -> all]
    BY <1>1, <2>1
  <2>3. ASSUME NEW l \in all PROVE Cell(s, l, l) = {d \in R : gold[d] = l}
    BY <1>1 DEF Cell, Right
  <2>4. [l \in all |-> Cardinality(Cell(s, l, l))] = counts
    <3> HIDE DEF R, gold
    <3> QED BY <2>3
  <2>5. Total(counts) = Cardinality(R)
    <3> HIDE DEF R, gold
    <3> QED BY ONLY <1>2, <2>1, <2>2, SumOfClasses
  <2> QED BY <2>4, <2>5
<1>5. Total([c \in all \X all |-> Cardinality(Cell(s, c[1], c[2]))]) = Cardinality(D)
  <2> DEFINE cell == [d \in D |-> <<s[d].gold, s[d].pred>>]
             A == all \X all
             counts == [c \in A |-> Cardinality({d \in D : cell[d] = c})]
  <2>1. cell \in [D -> A]
    BY <1>1
  <2>2. ASSUME NEW c \in A PROVE Cell(s, c[1], c[2]) = {d \in D : cell[d] = c}
    BY <1>1 DEF Cell
  <2>3. [c \in A |-> Cardinality(Cell(s, c[1], c[2]))] = counts
    <3> HIDE DEF cell, A
    <3> QED BY <2>2
  <2>4. Total(counts) = Cardinality(D)
    <3>1. IsFiniteSet(A) /\ IsFiniteSet(D)
      BY <1>3
    <3> HIDE DEF cell, A
    <3> QED BY ONLY <3>1, <2>1, SumOfClasses
  <2> QED BY <2>3, <2>4
<1> QED BY <1>1, <1>4, <1>5 DEF s, all

\* Every document with a confidence is a point of one bin.
LEMMA BinsAddUp ==
  ASSUME NEW D, IsFiniteSet(D), NEW docs \in [D -> ScoredDocument]
  PROVE  LET s == Scores(docs)
         IN Total([i \in 0..9 |-> Cardinality(Bin(s, i))]) = Cardinality(Points(s))
<1> DEFINE s == Scores(docs)
           P == Points(s)
           bin == [d \in P |-> IF s[d].confidence = 20 THEN 9 ELSE s[d].confidence \div 2]
           B == 0..9
           counts == [i \in B |-> Cardinality({d \in P : bin[d] = i})]
<1>1. DOMAIN s = D /\ \A d \in D : s[d].confidence \in 0..20 \cup {Unrecorded}
  BY ScoresAreScores
<1> HIDE DEF s
<1>2. P \in SUBSET D /\ IsFiniteSet(P) /\ \A d \in P : s[d].confidence \in 0..20
  BY <1>1, FS_Subset DEF Points
<1> HIDE DEF P
<1>3. ASSUME NEW d \in P, NEW i \in B
      PROVE  bin[d] \in B /\ (d \in Bin(s, i) <=> bin[d] = i)
  <2> DEFINE c == s[d].confidence
  <2>1. c \in 0..20
    BY <1>2
  <2>2. bin[d] = IF c = 20 THEN 9 ELSE c \div 2
    OBVIOUS
  <2>3. d \in Bin(s, i) <=> 2 * i <= c /\ (c < 2 * (i + 1) \/ (i = 9 /\ c = 20))
    BY DEF Bin, P
  <2> HIDE DEF c, bin
  <2> QED BY <2>1, <2>2, <2>3
<1>4. ASSUME NEW i \in B PROVE Bin(s, i) = {d \in P : bin[d] = i}
  <2>1. Bin(s, i) \subseteq P
    BY DEF Bin, P
  <2> HIDE DEF bin, B
  <2> QED BY <1>3, <2>1
<1>5. bin \in [P -> B]
  <2>1. 0 \in B
    OBVIOUS
  <2>2. \A d \in P : bin[d] \in B
    <3> HIDE DEF bin, B
    <3> QED BY <1>3, <2>1
  <2>3. bin = [d \in P |-> bin[d]]
    OBVIOUS
  <2> HIDE DEF bin, B
  <2> QED BY <2>2, <2>3
<1>6. [i \in 0..9 |-> Cardinality(Bin(s, i))] = counts
  <2> HIDE DEF bin
  <2> QED BY <1>4
<1>7. Total(counts) = Cardinality(P)
  <2>1. IsFiniteSet(B)
    <3>1. 0 \in Int /\ 9 \in Int
      OBVIOUS
    <3> QED BY <3>1, FS_Interval
  <2> HIDE DEF bin, B
  <2> QED BY ONLY <1>2, <1>5, <2>1, SumOfClasses
<1> QED BY <1>6, <1>7 DEF s, P

\* The numbers of a score report agree with each other, for every vocabulary, corpus and
\* confidences (score_m5_dev.py).
THEOREM ScoresAlwaysAddUp ==
  ASSUME NEW D, IsFiniteSet(D), NEW docs \in [D -> ScoredDocument]
  PROVE  ScoresAddUp(docs)
<1> DEFINE s == Scores(docs)
           N(set) == Cardinality(set)
<1>1. /\ DOMAIN s = D /\ s \in ScoresOf(D)
      /\ \A d \in D : s[d].confidence \in 0..20 \cup {Unrecorded}
  BY ScoresAreScores
<1>2. /\ Total([l \in Labels \cup {NullLabel} |-> N(Cell(s, l, l))]) = N(Right(s))
      /\ Total([c \in (Labels \cup {NullLabel}) \X (Labels \cup {NullLabel}) |->
                  N(Cell(s, c[1], c[2]))]) = N(DOMAIN s)
  BY MatrixAddsUp
<1>3. Total([i \in 0..9 |-> N(Bin(s, i))]) = N(Points(s))
  BY BinsAddUp
<1> HIDE DEF s
<1>4. ASSUME NEW t \in 0..19
      PROVE  /\ RecallHolds(s, t) => RecallHolds(s, t + 1)
             /\ RecallHolds(s, t) /\ PrecisionHolds(s, t) =>
                  5 * N(Routed(s, t)) <= 2 * N(Points(s))
  <2>1. t \in Nat
    OBVIOUS
  <2> QED BY <1>1, <2>1, SweepIsMonotoneAndBounded
<1> QED BY <1>2, <1>3, <1>4 DEF ScoresAddUp, s
===============================================================================
