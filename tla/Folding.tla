------------------------------ MODULE Folding ------------------------------
(***************************************************************************)
(* Sums over finite sets.  The models add up line totals, payments and     *)
(* modifiers with MapThenSumSet of the community modules, a recursive      *)
(* function over the subsets of a set.  This module proves what the other  *)
(* proofs need of it.  No definition here models code: each is a device of *)
(* a proof.                                                                *)
(*                                                                         *)
(* Induction is over the subsets of a finite set, from the well-founded    *)
(* order the library proves for them; the fact to be shown of every subset *)
(* is given as the set Good of those that have it.                         *)
(***************************************************************************)
EXTENDS Integers, FiniteSets, FiniteSetsExt, Folds, FiniteSetTheorems, WellFoundedInduction,
        TLAPS

\* What holds of a subset whenever it holds of the smaller subsets within it
\* holds of every subset of a finite set.
LEMMA SubsetInduction ==
  ASSUME NEW S, IsFiniteSet(S), NEW Good,
         \A T \in SUBSET S : (\A U \in SUBSET T : U # T => U \in Good) => T \in Good
  PROVE  SUBSET S \subseteq Good
<1> DEFINE Smaller == StrictSubsetOrdering(S)
           Bad == (SUBSET S) \ Good
<1> SUFFICES ASSUME Bad # {} PROVE FALSE
  OBVIOUS
<1>1. IsWellFoundedOn(Smaller, SUBSET S)
  <2>1. FiniteSubsetsOf(S) = SUBSET S
    BY FS_FiniteSubsetsOfFinite
  <2>2. IsWellFoundedOn(Smaller, FiniteSubsetsOf(S))
    BY FS_StrictSubsetOrderingWellFounded
  <2> QED
    BY <2>1, <2>2
<1>2. PICK T \in Bad : \A U \in Bad : <<U, T>> \notin Smaller
  <2>1. Bad \subseteq SUBSET S
    OBVIOUS
  <2> HIDE DEF Bad, Smaller
  <2> QED
    BY <1>1, <2>1, WFMin
<1>3. ASSUME NEW U \in SUBSET T, U # T
      PROVE  U \in Good
  BY <1>2, <1>3 DEF StrictSubsetOrdering
<1> QED
  BY <1>2, <1>3

-----------------------------------------------------------------------------
\* pick chooses an element of every subset that has one.
Picks(S, pick) == \A s \in SUBSET S : s # {} => pick[s] \in s

\* g is the value, on every subset of S, of taking out one picked element after
\* the other.  (step is a function of functions: step[x][v].)
IsFold(S, base, step, pick, g) ==
  g = [s \in SUBSET S |-> IF s = {} THEN base ELSE step[pick[s]][g[s \ {pick[s]}]]]

\* A recursive definition over subsets has at most one solution ...
LEMMA FoldUnique ==
  ASSUME NEW S, IsFiniteSet(S), NEW base, NEW step, NEW pick,
         Picks(S, pick),
         NEW g, NEW h, IsFold(S, base, step, pick, g), IsFold(S, base, step, pick, h)
  PROVE  g = h
<1> DEFINE Good == {s \in SUBSET S : g[s] = h[s]}
<1>1. ASSUME NEW T \in SUBSET S, \A U \in SUBSET T : U # T => U \in Good
      PROVE  T \in Good
  <2>1. CASE T = {}
    BY <2>1 DEF IsFold, Picks
  <2>2. CASE T # {}
    <3>1. T \ {pick[T]} \in Good
      BY <1>1, <2>2 DEF Picks
    <3>2. g[T] = step[pick[T]][g[T \ {pick[T]}]] /\ h[T] = step[pick[T]][h[T \ {pick[T]}]]
      BY <2>2, ZenonT(60) DEF IsFold, Picks
    <3> QED
      BY <3>1, <3>2
  <2> QED
    BY <2>1, <2>2
<1>2. SUBSET S \subseteq Good
  <2> HIDE DEF Good
  <2> QED
    BY <1>1, SubsetInduction
<1>3. g = [s \in SUBSET S |-> g[s]] /\ h = [s \in SUBSET S |-> h[s]]
  BY DEF IsFold, Picks
<1> QED
  BY <1>2, <1>3

\* ... and at least one.
LEMMA FoldExists ==
  ASSUME NEW S, IsFiniteSet(S), NEW base, NEW step, NEW pick,
         Picks(S, pick)
  PROVE  \E g : IsFold(S, base, step, pick, g)
<1> DEFINE Good == {T \in SUBSET S : \E g : IsFold(T, base, step, pick, g)}
<1>1. ASSUME NEW T \in SUBSET S, \A U \in SUBSET T : U # T => U \in Good
      PROVE  T \in Good
  <2> DEFINE part[U \in SUBSET T] == CHOOSE g : IsFold(U, base, step, pick, g)
             g == [s \in SUBSET T |-> IF s = {} THEN base
                                      ELSE step[pick[s]][part[s \ {pick[s]}][s \ {pick[s]}]]]
  <2>1. \A U \in SUBSET T : U # T => IsFold(U, base, step, pick, part[U])
    BY <1>1
  <2> HIDE DEF part
  <2>2. ASSUME NEW s \in SUBSET T, s # T
        PROVE  g[s] = part[s][s]
    <3>1. IsFold(s, base, step, pick, part[s])
      BY <2>1, <2>2
    <3>2. CASE s = {}
      BY <3>1, <3>2 DEF IsFold, Picks
    <3>3. CASE s # {}
      <4> DEFINE u == s \ {pick[s]}
      <4>1. pick[s] \in s /\ u \in SUBSET s /\ u # T /\ u \in SUBSET T
        BY <3>3 DEF Picks
      <4>3. Picks(s, pick) /\ Picks(u, pick)
        BY <4>1 DEF Picks
      <4> HIDE DEF u
      <4>2. PICK p : IsFold(u, base, step, pick, p) /\ \A v \in SUBSET u : p[v] = part[s][v]
        <5>1. PICK p : p = [v \in SUBSET u |-> part[s][v]]
          OBVIOUS
        <5>2. \A v \in SUBSET u : v # {} => pick[v] \in v /\ v \ {pick[v]} \in SUBSET u
          BY <4>3 DEF Picks
        <5>3. \A v \in SUBSET u : part[s][v] = IF v = {} THEN base ELSE step[pick[v]][part[s][v \ {pick[v]}]]
          BY <3>1, <4>1 DEF IsFold
        <5>4. IsFold(u, base, step, pick, p)
          BY <5>1, <5>2, <5>3 DEF IsFold
        <5> QED
          BY <5>1, <5>4
      <4>4. IsFold(u, base, step, pick, part[u])
        BY <2>1, <4>1
      <4>5. IsFiniteSet(u)
        BY <4>1, FS_Subset
      <4>6. part[u] = p
        BY <4>3, <4>1, <4>2, <4>4, <4>5, FoldUnique
      <4>7. part[s][s] = step[pick[s]][part[s][u]]
        BY <3>1, <3>3 DEF IsFold, Picks, u
      <4> QED
        BY <4>2, <4>6, <4>7, <3>3 DEF u
    <3> QED
      BY <3>2, <3>3
  <2>3. \A s \in SUBSET T : s # {} => s \ {pick[s]} \in SUBSET T /\ s \ {pick[s]} # T
    BY DEF Picks
  <2>4. IsFold(T, base, step, pick, g)
    BY <2>2, <2>3 DEF IsFold, Picks
  <2> QED
    BY <2>4
<1>2. SUBSET S \subseteq Good
  <2> HIDE DEF Good
  <2> QED
    BY <1>1, SubsetInduction
<1> QED
  BY <1>2

-----------------------------------------------------------------------------
\* The sum of f[x] over the members x of S.
SumOver(f, S) == MapThenSumSet(LAMBDA x : f[x], S)

\* The element MapThenSumSet takes out first.
First(s) == CHOOSE x \in s : TRUE

\* g holds the sum of f over every subset of S.
IsSum(f, S, g) ==
  g = [s \in SUBSET S |-> IF s = {} THEN 0 ELSE f[First(s)] + g[s \ {First(s)}]]

\* First picks.
LEMMA FirstIn == \A s : s # {} => First(s) \in s
  BY DEF First

\* The sums over the subsets are determined by f ...
LEMMA SumUnique ==
  ASSUME NEW S, IsFiniteSet(S), NEW f, NEW g, NEW h, IsSum(f, S, g), IsSum(f, S, h)
  PROVE  g = h
<1> DEFINE Good == {s \in SUBSET S : g[s] = h[s]}
<1>1. ASSUME NEW T \in SUBSET S, \A U \in SUBSET T : U # T => U \in Good
      PROVE  T \in Good
  <2>1. CASE T = {}
    BY <2>1 DEF IsSum
  <2>2. CASE T # {}
    <3>1. T \ {First(T)} \in Good
      BY <1>1, <2>2, FirstIn
    <3>2. /\ g[T] = f[First(T)] + g[T \ {First(T)}]
          /\ h[T] = f[First(T)] + h[T \ {First(T)}]
      BY <2>2 DEF IsSum
    <3> QED
      BY <3>1, <3>2
  <2> QED
    BY <2>1, <2>2
<1>2. SUBSET S \subseteq Good
  <2> HIDE DEF Good
  <2> QED
    BY <1>1, SubsetInduction
<1>3. g = [s \in SUBSET S |-> g[s]] /\ h = [s \in SUBSET S |-> h[s]]
  BY DEF IsSum
<1> QED
  BY <1>2, <1>3

\* ... and there are such sums, integers when f is.
LEMMA SumExists ==
  ASSUME NEW S, IsFiniteSet(S), NEW f, \A x \in S : f[x] \in Int
  PROVE  \E g \in [SUBSET S -> Int] : IsSum(f, S, g)
<1>1. PICK pick : pick = [s \in SUBSET S |-> First(s)]
  OBVIOUS
<1>2. PICK step : step = [x \in S |-> [v \in Int |-> f[x] + v]]
  OBVIOUS
<1>3. Picks(S, pick)
  BY <1>1, FirstIn DEF Picks
<1>4. PICK g : IsFold(S, 0, step, pick, g)
  BY <1>3, FoldExists
<1> DEFINE Good == {s \in SUBSET S : g[s] \in Int}
<1>5. ASSUME NEW T \in SUBSET S, \A U \in SUBSET T : U # T => U \in Good
      PROVE  T \in Good
  <2>1. CASE T = {}
    BY <1>4, <2>1 DEF IsFold
  <2>2. CASE T # {}
    <3>1. pick[T] \in T /\ T \ {pick[T]} \in Good
      BY <1>3, <1>5, <2>2 DEF Picks
    <3>2. g[T] = step[pick[T]][g[T \ {pick[T]}]]
      BY <1>4, <2>2 DEF IsFold
    <3>3. step[pick[T]] = [v \in Int |-> f[pick[T]] + v]
      BY <1>2, <3>1
    <3>4. g[T \ {pick[T]}] \in Int /\ f[pick[T]] \in Int
      BY <3>1
    <3>5. g[T] = f[pick[T]] + g[T \ {pick[T]}]
      BY <3>2, <3>3, <3>4
    <3> QED
      BY <3>4, <3>5
  <2> QED
    BY <2>1, <2>2
<1>6. \A s \in SUBSET S : g[s] \in Int
  <2>1. SUBSET S \subseteq Good
    <3> HIDE DEF Good
    <3> QED
      BY <1>5, SubsetInduction
  <2> QED
    BY <2>1
<1>7. \A s \in SUBSET S : g[s] = IF s = {} THEN 0 ELSE f[First(s)] + g[s \ {First(s)}]
  <2> SUFFICES ASSUME NEW s \in SUBSET S, s # {}
               PROVE  g[s] = f[First(s)] + g[s \ {First(s)}]
    BY <1>4 DEF IsFold
  <2>1. pick[s] = First(s) /\ First(s) \in S /\ s \ {First(s)} \in SUBSET S
    BY <1>1, FirstIn
  <2>2. g[s] = step[First(s)][g[s \ {First(s)}]]
    BY <1>4, <2>1 DEF IsFold
  <2> QED
    BY <1>2, <1>6, <2>1, <2>2
<1>8. g = [s \in SUBSET S |-> g[s]]
  BY <1>4 DEF IsFold
<1>9. g \in [SUBSET S -> Int] /\ IsSum(f, S, g)
  <2>1. g \in [SUBSET S -> Int]
    BY <1>6, <1>8
  <2>2. IsSum(f, S, g)
    BY <1>7, <1>8 DEF IsSum
  <2> QED
    BY <2>1, <2>2
<1> QED
  BY <1>9

\* The sum of the community modules over any subset is the one g holds.
LEMMA SumWithin ==
  ASSUME NEW S, IsFiniteSet(S), NEW f, NEW g, IsSum(f, S, g), NEW T \in SUBSET S
  PROVE  SumOver(f, T) = g[T]
<1>1. IsFiniteSet(T)
  BY FS_Subset
<1>2. PICK h : h = [s \in SUBSET T |-> g[s]]
  OBVIOUS
<1>3. IsSum(f, T, h)
  <2>1. \A s \in SUBSET T : s # {} => s \ {First(s)} \in SUBSET T
    BY FirstIn
  <2>2. \A s \in SUBSET T : g[s] = IF s = {} THEN 0 ELSE f[First(s)] + g[s \ {First(s)}]
    BY DEF IsSum
  <2> QED
    BY <1>2, <2>1, <2>2 DEF IsSum
<1> DEFINE iter == CHOOSE it : it = [s \in SUBSET T |->
                     IF s = {} THEN 0 ELSE f[First(s)] + it[s \ {First(s)}]]
<1>4. IsSum(f, T, iter)
  BY <1>3 DEF IsSum
<1>5. SumOver(f, T) = iter[T]
  BY DEF SumOver, MapThenSumSet, MapThenFoldSet, First
<1> HIDE DEF iter
<1>6. iter = h
  BY <1>1, <1>3, <1>4, SumUnique
<1> QED
  BY <1>2, <1>5, <1>6

\* An empty sum is zero.
LEMMA SumOfNone == \A f : SumOver(f, {}) = 0
<1> SUFFICES ASSUME NEW f PROVE SumOver(f, {}) = 0
  OBVIOUS
<1>1. PICK g : g = [s \in SUBSET {} |-> 0]
  OBVIOUS
<1>2. IsSum(f, {}, g)
  BY <1>1 DEF IsSum
<1>3. SumOver(f, {}) = g[{}]
  BY <1>2, SumWithin, FS_EmptySet
<1> QED
  BY <1>1, <1>3

\* A sum of integers is an integer.
LEMMA SumIsInt ==
  ASSUME NEW S, IsFiniteSet(S), NEW f, \A x \in S : f[x] \in Int
  PROVE  SumOver(f, S) \in Int
<1>1. PICK g \in [SUBSET S -> Int] : IsSum(f, S, g)
  BY SumExists
<1>2. SumOver(f, S) = g[S]
  BY <1>1, SumWithin
<1> QED
  BY <1>1, <1>2

\* A sum depends on its summands only.
LEMMA SumSame ==
  ASSUME NEW S, IsFiniteSet(S), NEW f, NEW h, \A x \in S : f[x] = h[x] /\ f[x] \in Int
  PROVE  SumOver(f, S) = SumOver(h, S)
<1>1. PICK g \in [SUBSET S -> Int] : IsSum(f, S, g)
  BY SumExists
<1>2. IsSum(h, S, g)
  <2>1. \A s \in SUBSET S : s # {} => First(s) \in S
    BY FirstIn
  <2>2. \A s \in SUBSET S : s # {} => f[First(s)] = h[First(s)]
    BY <2>1
  <2> QED
    BY <1>1, <2>2 DEF IsSum
<1> QED
  BY <1>1, <1>2, SumWithin

\* Any one element can be taken out of a sum, whichever MapThenSumSet would take.
LEMMA SumOfOthers ==
  ASSUME NEW S, IsFiniteSet(S), NEW f, \A x \in S : f[x] \in Int, NEW x \in S
  PROVE  SumOver(f, S) = f[x] + SumOver(f, S \ {x})
<1>1. PICK g \in [SUBSET S -> Int] : IsSum(f, S, g)
  BY SumExists
<1>2. \A T \in SUBSET S : SumOver(f, T) = g[T]
  BY <1>1, SumWithin
<1> DEFINE Good == {T \in SUBSET S : \A y \in T : g[T] = f[y] + g[T \ {y}]}
<1>3. ASSUME NEW T \in SUBSET S, \A U \in SUBSET T : U # T => U \in Good
      PROVE  T \in Good
  <2> SUFFICES ASSUME NEW y \in T PROVE g[T] = f[y] + g[T \ {y}]
    OBVIOUS
  <2>1. PICK first : first = First(T)
    OBVIOUS
  <2>2. first \in T /\ g[T] = f[first] + g[T \ {first}]
    BY <1>1, <2>1, FirstIn DEF IsSum
  <2>3. CASE y = first
    BY <2>2, <2>3
  <2>4. CASE y # first
    <3> DEFINE rest == T \ {first, y}
    <3>1. g[T \ {first}] = f[y] + g[rest]
      <4>1. T \ {first} \in Good /\ y \in T \ {first} /\ (T \ {first}) \ {y} = rest
        BY <1>3, <2>2, <2>4
      <4> QED
        BY <4>1
    <3>2. g[T \ {y}] = f[first] + g[rest]
      <4>1. T \ {y} \in Good /\ first \in T \ {y} /\ (T \ {y}) \ {first} = rest
        BY <1>3, <2>2, <2>4
      <4> QED
        BY <4>1
    <3>3. g[rest] \in Int /\ f[y] \in Int /\ f[first] \in Int
      BY <1>1, <2>2
    <3> HIDE DEF rest
    <3> QED
      BY <2>2, <3>1, <3>2, <3>3
  <2> QED
    BY <2>3, <2>4
<1>4. SUBSET S \subseteq Good
  <2> HIDE DEF Good
  <2> QED
    BY <1>3, SubsetInduction
<1>5. g[S] = f[x] + g[S \ {x}]
  BY <1>4
<1> QED
  BY <1>2, <1>5

\* A sum over a set is the sum over a part of it and the sum over the rest.
LEMMA SumOfParts ==
  ASSUME NEW S, IsFiniteSet(S), NEW f, \A x \in S : f[x] \in Int,
         NEW A \in SUBSET S
  PROVE  SumOver(f, S) = SumOver(f, A) + SumOver(f, S \ A)
<1>1. PICK g \in [SUBSET S -> Int] : \A T \in SUBSET S : g[T] = SumOver(f, T)
  <2>1. PICK g \in [SUBSET S -> Int] : IsSum(f, S, g)
    BY SumExists
  <2> QED
    BY <2>1, SumWithin
<1> DEFINE Good == {T \in SUBSET S : g[T] = g[T \cap A] + g[T \ A]}
<1>2. ASSUME NEW T \in SUBSET S, \A U \in SUBSET T : U # T => U \in Good
      PROVE  T \in Good
  <2>1. CASE T = {}
    <3>1. g[T] = 0 /\ g[T \cap A] = 0 /\ g[T \ A] = 0
      <4>1. T \cap A = {} /\ T \ A = {}
        BY <2>1
      <4> QED
        BY <1>1, <2>1, <4>1, SumOfNone
    <3>2. g[T] = g[T \cap A] + g[T \ A]
      BY <3>1
    <3> QED
      BY <3>2
  <2>2. CASE T # {}
    <3>1. PICK y \in T : TRUE
      BY <2>2
    <3>2. \A U \in SUBSET S : y \in U => g[U] = f[y] + g[U \ {y}]
      <4> SUFFICES ASSUME NEW U \in SUBSET S, y \in U
                   PROVE  g[U] = f[y] + g[U \ {y}]
        OBVIOUS
      <4>1. IsFiniteSet(U) /\ (\A u \in U : f[u] \in Int) /\ U \ {y} \in SUBSET S
        BY FS_Subset
      <4>2. SumOver(f, U) = f[y] + SumOver(f, U \ {y})
        BY <4>1, SumOfOthers
      <4> QED
        BY <1>1, <4>1, <4>2
    <3>3. g[T \ {y}] = g[(T \ {y}) \cap A] + g[(T \ {y}) \ A]
      BY <1>2, <3>1
    <3>4. f[y] \in Int /\ g[(T \ {y}) \cap A] \in Int /\ g[(T \ {y}) \ A] \in Int
      BY <1>1, <3>1
    <3>5. g[T] = f[y] + g[T \ {y}]
      BY <3>1, <3>2
    <3>6. CASE y \in A
      <4>1. (T \ {y}) \cap A = (T \cap A) \ {y} /\ (T \ {y}) \ A = T \ A
        BY <3>6
      <4>2. g[T \cap A] = f[y] + g[(T \cap A) \ {y}]
        BY <3>1, <3>2, <3>6
      <4>3. PICK a \in Int, b \in Int : a = g[(T \ {y}) \cap A] /\ b = g[(T \ {y}) \ A]
        BY <3>4
      <4>4. g[T \ {y}] = a + b /\ f[y] \in Int
        BY <3>3, <3>4, <4>3
      <4>5. g[T \cap A] = f[y] + a /\ g[T \ A] = b
        BY <4>1, <4>2, <4>3
      <4>6. g[T] = g[T \cap A] + g[T \ A]
        BY <3>5, <4>4, <4>5
      <4> QED
        BY <4>6
    <3>7. CASE y \notin A
      <4>1. (T \ {y}) \ A = (T \ A) \ {y} /\ (T \ {y}) \cap A = T \cap A
        BY <3>7
      <4>2. g[T \ A] = f[y] + g[(T \ A) \ {y}]
        BY <3>1, <3>2, <3>7
      <4>3. PICK a \in Int, b \in Int : a = g[(T \ {y}) \cap A] /\ b = g[(T \ {y}) \ A]
        BY <3>4
      <4>4. g[T \ {y}] = a + b /\ f[y] \in Int
        BY <3>3, <3>4, <4>3
      <4>5. g[T \cap A] = a /\ g[T \ A] = f[y] + b
        BY <4>1, <4>2, <4>3
      <4>6. g[T] = g[T \cap A] + g[T \ A]
        BY <3>5, <4>4, <4>5
      <4> QED
        BY <4>6
    <3> QED
      BY <3>6, <3>7
  <2> QED
    BY <2>1, <2>2
<1>3. SUBSET S \subseteq Good
  <2> HIDE DEF Good
  <2> QED
    BY <1>2, SubsetInduction
<1>4. g[S] = g[S \cap A] + g[S \ A] /\ S \cap A = A
  BY <1>3
<1> QED
  BY <1>1, <1>4

\* A sum of natural numbers is a natural number.
LEMMA SumIsNat ==
  ASSUME NEW S, IsFiniteSet(S), NEW f, \A x \in S : f[x] \in Nat
  PROVE  SumOver(f, S) \in Nat
<1>1. PICK g \in [SUBSET S -> Int] : IsSum(f, S, g)
  <2>1. \A x \in S : f[x] \in Int
    OBVIOUS
  <2> QED
    BY <2>1, SumExists
<1> DEFINE Good == {T \in SUBSET S : g[T] \in Nat}
<1>2. ASSUME NEW T \in SUBSET S, \A U \in SUBSET T : U # T => U \in Good
      PROVE  T \in Good
  <2>1. CASE T = {}
    BY <1>1, <2>1 DEF IsSum
  <2>2. CASE T # {}
    <3>1. First(T) \in T /\ g[T] = f[First(T)] + g[T \ {First(T)}]
      BY <1>1, <2>2, FirstIn DEF IsSum
    <3>2. g[T \ {First(T)}] \in Nat /\ f[First(T)] \in Nat
      BY <1>2, <3>1
    <3> QED
      BY <3>1, <3>2
  <2> QED
    BY <2>1, <2>2
<1>3. g[S] \in Nat
  <2>1. SUBSET S \subseteq Good
    <3> HIDE DEF Good
    <3> QED
      BY <1>2, SubsetInduction
  <2> QED
    BY <2>1
<1> QED
  BY <1>1, <1>3, SumWithin

\* A sum over a set is the sum, over the classes k puts its elements in, of the
\* sums over the classes.
LEMMA SumOfClasses ==
  ASSUME NEW S, IsFiniteSet(S), NEW f, \A x \in S : f[x] \in Int,
         NEW D, IsFiniteSet(D), NEW k \in [S -> D],
         NEW h, \A d \in D : h[d] = SumOver(f, {x \in S : k[x] = d})
  PROVE  SumOver(f, S) = SumOver(h, D)
<1> DEFINE Part(T) == {x \in S : k[x] \in T}
           Good == {T \in SUBSET D : SumOver(h, T) = SumOver(f, Part(T))}
<1>1. \A T \in SUBSET D : IsFiniteSet(Part(T)) /\ Part(T) \in SUBSET S
  BY FS_Subset
<1>2. \A d \in D : h[d] \in Int
  <2> SUFFICES ASSUME NEW d \in D PROVE h[d] \in Int
    OBVIOUS
  <2>1. PICK A : A = {x \in S : k[x] = d}
    OBVIOUS
  <2>2. IsFiniteSet(A) /\ \A x \in A : f[x] \in Int
    BY <2>1, FS_Subset
  <2> QED
    BY <2>1, <2>2, SumIsInt
<1>3. ASSUME NEW T \in SUBSET D, \A U \in SUBSET T : U # T => U \in Good
      PROVE  T \in Good
  <2>1. CASE T = {}
    <3>1. Part(T) = {}
      BY <2>1
    <3> QED
      BY <2>1, <3>1, SumOfNone
  <2>2. CASE T # {}
    <3>1. PICK d \in T : TRUE
      BY <2>2
    <3>2. T \ {d} \in Good
      BY <1>3, <3>1
    <3>3. PICK all, A, rest : /\ all = Part(T) /\ A = {x \in S : k[x] = d} /\ rest = Part(T \ {d})
      OBVIOUS
    <3>4. A \in SUBSET all /\ rest = all \ A
      BY <3>1, <3>3
    <3>5. SumOver(f, all) = SumOver(f, A) + SumOver(f, rest)
      <4>1. IsFiniteSet(all) /\ \A x \in all : f[x] \in Int
        BY <1>1, <3>3
      <4> QED
        BY <3>4, <4>1, SumOfParts
    <3>6. SumOver(h, T) = h[d] + SumOver(h, T \ {d})
      <4>1. IsFiniteSet(T) /\ \A e \in T : h[e] \in Int
        BY <1>2, FS_Subset
      <4> QED
        BY <3>1, <4>1, SumOfOthers
    <3>7. h[d] = SumOver(f, A)
      BY <3>1, <3>3
    <3>8. SumOver(h, T \ {d}) = SumOver(f, rest)
      BY <3>2, <3>3
    <3> QED
      BY <3>3, <3>5, <3>6, <3>7, <3>8
  <2> QED
    BY <2>1, <2>2
<1>4. D \in Good
  <2>1. SUBSET D \subseteq Good
    <3> HIDE DEF Good
    <3> QED
      BY <1>3, SubsetInduction
  <2> QED
    BY <2>1
<1>5. Part(D) = S
  OBVIOUS
<1> QED
  BY <1>4, <1>5

-----------------------------------------------------------------------------
\* A finite set of integers that is not empty has a least and a greatest
\* element.
LEMMA Extrema ==
  ASSUME NEW S \in SUBSET Int, IsFiniteSet(S), S # {}
  PROVE  /\ \E x \in S : \A y \in S : x <= y
         /\ \E x \in S : \A y \in S : x >= y
<1> DEFINE HasLeast(T) == \E x \in T : \A y \in T : x <= y
           HasGreatest(T) == \E x \in T : \A y \in T : x >= y
           Good == {T \in SUBSET S : T # {} => HasLeast(T) /\ HasGreatest(T)}
<1>1. ASSUME NEW T \in SUBSET S, \A U \in SUBSET T : U # T => U \in Good
      PROVE  T \in Good
  <2>1. SUFFICES ASSUME T # {} PROVE HasLeast(T) /\ HasGreatest(T)
    BY <1>1
  <2>2. PICK x \in T : TRUE
    BY <2>1
  <2> DEFINE U == T \ {x}
  <2>3. U \in SUBSET T /\ U # T /\ U \in Good
    BY <1>1, <2>2
  <2>4. CASE U = {}
    <3>1. T = {x}
      BY <2>2, <2>4
    <3> QED
      BY <1>1, <2>2, <3>1
  <2>5. CASE U # {}
    <3>1. PICK a \in U : \A y \in U : a <= y
      BY <2>3, <2>5
    <3>2. PICK b \in U : \A y \in U : b >= y
      BY <2>3, <2>5
    <3>3. a \in Int /\ b \in Int /\ x \in Int /\ a \in T /\ b \in T /\ x \in T /\ T \subseteq Int
      BY <2>2, <1>1
    <3>4. \A y \in T : y = x \/ y \in U
      BY <2>2
    <3> HIDE DEF U
    <3>5. HasLeast(T)
      <4>1. CASE x <= a
        <5>1. \A y \in T : x <= y
          BY <3>1, <3>3, <3>4, <4>1
        <5> QED
          BY <2>2, <5>1
      <4>2. CASE a <= x
        <5>1. \A y \in T : a <= y
          BY <3>1, <3>3, <3>4, <4>2
        <5> QED
          BY <3>3, <5>1
      <4> QED
        BY <3>3, <4>1, <4>2
    <3>6. HasGreatest(T)
      <4>1. CASE x >= b
        <5>1. \A y \in T : x >= y
          BY <3>2, <3>3, <3>4, <4>1
        <5> QED
          BY <2>2, <5>1
      <4>2. CASE b >= x
        <5>1. \A y \in T : b >= y
          BY <3>2, <3>3, <3>4, <4>2
        <5> QED
          BY <3>3, <5>1
      <4> QED
        BY <3>3, <4>1, <4>2
    <3> QED
      BY <3>5, <3>6
  <2> QED
    BY <2>4, <2>5
<1> HIDE DEF Good
<1>2. SUBSET S \subseteq Good
  BY <1>1, SubsetInduction
<1>3. S \in Good
  BY <1>2
<1> QED
  BY <1>3 DEF Good

\* So Min and Max of the community modules are what they say.
LEMMA MinMax ==
  ASSUME NEW S \in SUBSET Int, IsFiniteSet(S), S # {}
  PROVE  /\ Min(S) \in S /\ \A y \in S : Min(S) <= y
         /\ Max(S) \in S /\ \A y \in S : Max(S) >= y
BY Extrema DEF Min, Max

-----------------------------------------------------------------------------
\* g is what FoldLeft computes on the way over a sequence of length n: on every
\* set of positions, the value of taking its positions in order.
IsLeftFold(n, base, step, g) ==
  g = [s \in SUBSET (1..n) |-> IF s = {} THEN base ELSE step[Max(s)][g[s \ {Max(s)}]]]

\* Max picks.
LEMMA MaxIn == \A n \in Nat : \A s \in SUBSET (1..n) : s # {} => Max(s) \in s
<1> SUFFICES ASSUME NEW n \in Nat, NEW s \in SUBSET (1..n), s # {} PROVE Max(s) \in s
  OBVIOUS
<1>1. IsFiniteSet(1..n)
  BY FS_Interval
<1>2. IsFiniteSet(s)
  BY <1>1, FS_Subset
<1>3. s \in SUBSET Int
  OBVIOUS
<1> QED
  BY <1>2, <1>3, MinMax

\* The same, as FoldExists and FoldUnique ask for it.
LEMMA MaxPicks ==
  ASSUME NEW n \in Nat, NEW pick, pick = [s \in SUBSET (1..n) |-> Max(s)]
  PROVE  Picks(1..n, pick) /\ IsFiniteSet(1..n)
<1>1. IsFiniteSet(1..n)
  BY FS_Interval
<1>2. Picks(1..n, pick)
  BY MaxIn DEF Picks
<1> QED
  BY <1>1, <1>2

\* Values of left folds are determined ...
LEMMA LeftFoldUnique ==
  ASSUME NEW n \in Nat, NEW base, NEW step, NEW g, NEW h,
         IsLeftFold(n, base, step, g), IsLeftFold(n, base, step, h)
  PROVE  g = h
<1>1. PICK pick : pick = [s \in SUBSET (1..n) |-> Max(s)]
  OBVIOUS
<1>2. PICK D : D = 1..n
  OBVIOUS
<1>3. Picks(D, pick) /\ IsFiniteSet(D)
  BY <1>1, <1>2, MaxPicks
<1>4. IsFold(D, base, step, pick, g) /\ IsFold(D, base, step, pick, h)
  BY <1>1, <1>2 DEF IsFold, IsLeftFold
<1> QED
  BY <1>3, <1>4, FoldUnique

\* ... they exist, and stay in V if every step does.
LEMMA LeftFoldExists ==
  ASSUME NEW n \in Nat, NEW V, NEW base \in V, NEW step,
         \A j \in 1..n : \A v \in V : step[j][v] \in V
  PROVE  \E g \in [SUBSET (1..n) -> V] : IsLeftFold(n, base, step, g)
<1>1. PICK pick : pick = [s \in SUBSET (1..n) |-> Max(s)]
  OBVIOUS
<1>d. PICK D : D = 1..n
  OBVIOUS
<1>2. Picks(D, pick) /\ IsFiniteSet(D)
  BY <1>1, <1>d, MaxPicks
<1>3. PICK g : IsFold(D, base, step, pick, g)
  BY <1>2, FoldExists
<1> DEFINE Good == {s \in SUBSET D : g[s] \in V}
<1>4. ASSUME NEW T \in SUBSET D, \A U \in SUBSET T : U # T => U \in Good
      PROVE  T \in Good
  <2>1. CASE T = {}
    BY <1>3, <2>1 DEF IsFold
  <2>2. CASE T # {}
    <3>1. pick[T] \in T /\ T \ {pick[T]} \in Good
      BY <1>2, <1>4, <2>2 DEF Picks
    <3>2. g[T] = step[pick[T]][g[T \ {pick[T]}]]
      BY <1>3, <2>2 DEF IsFold
    <3> QED
      BY <1>d, <3>1, <3>2
  <2> QED
    BY <2>1, <2>2
<1>5. SUBSET D \subseteq Good
  <2> HIDE DEF Good
  <2> QED
    BY <1>2, <1>4, SubsetInduction
<1>6. g = [s \in SUBSET D |-> g[s]]
  BY <1>3 DEF IsFold
<1>7. g \in [SUBSET D -> V]
  BY <1>5, <1>6
<1>8. IsLeftFold(n, base, step, g)
  BY <1>1, <1>d, <1>3 DEF IsFold, IsLeftFold
<1> QED
  BY <1>d, <1>7, <1>8

\* Over one position more, a left fold takes one step more.
LEMMA LeftFoldExtends ==
  ASSUME NEW n \in Nat, NEW base, NEW step, NEW more, NEW g, NEW h,
         \A j \in 1..n : more[j] = step[j],
         IsLeftFold(n, base, step, g), IsLeftFold(n + 1, base, more, h)
  PROVE  h[1..(n + 1)] = more[n + 1][g[1..n]]
<1>1. PICK k : k = [s \in SUBSET (1..n) |-> h[s]]
  OBVIOUS
<1>2. IsLeftFold(n, base, step, k)
  <2>1. \A s \in SUBSET (1..n) : /\ s \in SUBSET (1..(n + 1)) /\ s \ {Max(s)} \in SUBSET (1..n)
                                 /\ s # {} => Max(s) \in 1..n
    <3> SUFFICES ASSUME NEW s \in SUBSET (1..n)
                 PROVE  /\ s \in SUBSET (1..(n + 1)) /\ s \ {Max(s)} \in SUBSET (1..n)
                        /\ s # {} => Max(s) \in 1..n
      OBVIOUS
    <3>1. 1..n \subseteq 1..(n + 1)
      OBVIOUS
    <3>2. s # {} => Max(s) \in s
      BY MaxIn
    <3> QED
      BY <3>1, <3>2
  <2>2. \A s \in SUBSET (1..n) : h[s] = IF s = {} THEN base ELSE more[Max(s)][h[s \ {Max(s)}]]
    BY <2>1 DEF IsLeftFold
  <2>3. \A s \in SUBSET (1..n) : h[s] = IF s = {} THEN base ELSE step[Max(s)][h[s \ {Max(s)}]]
    BY <2>1, <2>2
  <2>4. \A s \in SUBSET (1..n) : h[s] = IF s = {} THEN base ELSE step[Max(s)][k[s \ {Max(s)}]]
    BY <1>1, <2>1, <2>3
  <2> QED
    BY <1>1, <2>4 DEF IsLeftFold
<1>3. g = k
  BY <1>2, LeftFoldUnique
<1>4. Max(1..(n + 1)) = n + 1
  <2>1. 1..(n + 1) \in SUBSET Int /\ IsFiniteSet(1..(n + 1)) /\ n + 1 \in 1..(n + 1)
    BY FS_Interval
  <2>2. Max(1..(n + 1)) \in 1..(n + 1) /\ Max(1..(n + 1)) >= n + 1
    BY <2>1, MinMax
  <2> QED
    BY <2>2
<1>5. (1..(n + 1)) \ {n + 1} = 1..n /\ 1..(n + 1) # {}
  OBVIOUS
<1>6. h[1..(n + 1)] = more[n + 1][h[1..n]]
  <2>1. \A s \in SUBSET (1..(n + 1)) : s # {} => h[s] = more[Max(s)][h[s \ {Max(s)}]]
    BY DEF IsLeftFold
  <2> QED
    BY <1>4, <1>5, <2>1
<1> QED
  BY <1>1, <1>3, <1>6
=============================================================================
