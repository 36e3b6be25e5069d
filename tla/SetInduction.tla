----------------------------- MODULE SetInduction -----------------------------
(***************************************************************************)
(* Induction on finite sets with the induction hypothesis as a set, and     *)
(* what the proofs of the other modules take from it: largest and first     *)
(* elements, the k best of a finite set, what a sum over a finite set comes *)
(* to, how a fold goes over a sequence, and what selecting from one gives.  *)
(***************************************************************************)
EXTENDS Integers, FiniteSetTheorems, SequenceTheorems, TLAPS

LEMMA InclusionIsWellFounded ==
  ASSUME NEW S, IsFiniteSet(S)
  PROVE  IsWellFoundedOn(StrictSubsetOrdering(S), SUBSET S)
BY FS_StrictSubsetOrderingWellFounded, FS_FiniteSubsetsOfFinite

\* What holds of the empty set and of every set with one element more holds of the whole.
LEMMA FiniteInduction ==
  ASSUME NEW S, IsFiniteSet(S), NEW I \in SUBSET SUBSET S, {} \in I,
         \A T \in I, x \in S : T \cup {x} \in I
  PROVE  S \in I
<1> SUFFICES ASSUME S \notin I PROVE FALSE
  OBVIOUS
<1> DEFINE T == (SUBSET S) \ I
<1>1. IsWellFoundedOn(StrictSubsetOrdering(S), SUBSET S)
  BY InclusionIsWellFounded
<1>2. T # {} /\ T \subseteq SUBSET S
  OBVIOUS
<1> HIDE DEF T
<1>3. PICK U \in T : \A V \in T : ~(<<V, U>> \in StrictSubsetOrdering(S))
  BY <1>1, <1>2, WFMin
<1> USE DEF T
<1>4. PICK x \in U : TRUE
  OBVIOUS
<1>5. U \ {x} \in SUBSET S /\ U \ {x} \subseteq U /\ U \ {x} # U
  BY <1>4
<1>6. <<U \ {x}, U>> \in StrictSubsetOrdering(S)
  BY <1>5 DEF StrictSubsetOrdering
<1>7. U \ {x} \in I
  BY <1>3, <1>5, <1>6
<1>8. (U \ {x}) \cup {x} = U
  OBVIOUS
<1> QED BY <1>7, <1>8

\* ... and so of the numbers up to n.
LEMMA InductionUpTo ==
  ASSUME NEW n \in Nat, NEW K, 0 \in K, \A k \in K : k < n => k + 1 \in K
  PROVE  n \in K
<1> DEFINE S == 1..n
           I == {T \in SUBSET S : Cardinality(T) \in K}
<1>1. IsFiniteSet(S) /\ Cardinality(S) = n
  BY FS_Interval
<1>2. {} \in I
  BY FS_EmptySet
<1>3. ASSUME NEW T \in I, NEW x \in S PROVE T \cup {x} \in I
  <2>1. /\ IsFiniteSet(T) /\ T \cup {x} \in SUBSET S
        /\ Cardinality(T) \in Nat
    BY <1>1, FS_Subset, FS_CardinalityType
  <2>2. Cardinality(T \cup {x}) = IF x \in T THEN Cardinality(T) ELSE Cardinality(T) + 1
    BY <2>1, FS_AddElement
  <2>3. Cardinality(T \cup {x}) <= n
    BY <1>1, <2>1, FS_Subset
  <2> QED BY <2>1, <2>2, <2>3
<1> HIDE DEF I
<1>4. S \in I
  BY <1>1, <1>2, <1>3, FiniteInduction DEF I
<1> QED BY <1>1, <1>4 DEF I

LEMMA LargestExists ==
  ASSUME NEW S, IsFiniteSet(S), S # {}, NEW score \in [S -> Int]
  PROVE  \E r \in S : \A o \in S : score[o] <= score[r]
<1> DEFINE I == {T \in SUBSET S : T = {} \/ \E r \in T : \A o \in T : score[o] <= score[r]}
<1>1. ASSUME NEW T \in I, NEW x \in S PROVE T \cup {x} \in I
  <2>1. CASE T = {}
    BY <2>1
  <2>2. CASE T # {}
    <3>1. PICK r \in T : \A o \in T : score[o] <= score[r]
      BY <2>2
    <3>2. CASE score[x] <= score[r]
      BY <3>1, <3>2
    <3>3. CASE ~(score[x] <= score[r])
      <4>1. \A o \in T : score[o] <= score[x]
        BY <3>1, <3>3
      <4>2. \A o \in T \cup {x} : score[o] <= score[x]
        BY <4>1
      <4> QED BY <4>2
    <3> QED BY <3>2, <3>3
  <2> QED BY <2>1, <2>2
<1>2. {} \in I
  OBVIOUS
<1> HIDE DEF I
<1>3. S \in I
  <2>1. I \in SUBSET SUBSET S
    BY DEF I
  <2> QED BY <1>1, <1>2, <2>1, FiniteInduction
<1> QED BY <1>3 DEF I

\* The k best of a finite set, whatever the scores and however many share one.
LEMMA BestExist ==
  ASSUME NEW R, IsFiniteSet(R), NEW score \in [R -> Int], NEW k \in Nat, k <= Cardinality(R)
  PROVE  \E s \in SUBSET R :
            /\ Cardinality(s) = k
            /\ \A r \in s, o \in R \ s : score[r] >= score[o]
<1> DEFINE K == {n \in Nat : \E s \in SUBSET R :
                    /\ Cardinality(s) = n
                    /\ \A r \in s, o \in R \ s : score[r] >= score[o]}
<1>1. 0 \in K
  BY FS_EmptySet
<1>2. ASSUME NEW n \in K, n < k PROVE n + 1 \in K
  <2>1. PICK s \in SUBSET R : /\ Cardinality(s) = n
                              /\ \A r \in s, o \in R \ s : score[r] >= score[o]
    OBVIOUS
  <2> DEFINE rest == R \ s
             there == [r \in rest |-> score[r]]
  <2>2. IsFiniteSet(s) /\ IsFiniteSet(rest) /\ s # R /\ rest # {}
    BY <1>2, <2>1, FS_Subset, FS_Difference, FS_CardinalityType
  <2>3. there \in [rest -> Int]
    OBVIOUS
  <2>4. PICK x \in rest : \A o \in rest : score[o] <= score[x]
    <3> HIDE DEF rest, there
    <3>1. PICK x \in rest : \A o \in rest : there[o] <= there[x]
      BY <2>2, <2>3, LargestExists
    <3> QED BY <3>1 DEF there
  <2> DEFINE t == s \cup {x}
  <2>5. t \in SUBSET R /\ Cardinality(t) = n + 1
    BY <2>1, <2>2, <2>4, FS_AddElement
  <2>6. \A r \in t, o \in R \ t : score[r] >= score[o]
    BY <2>1, <2>4
  <2> QED BY <2>5, <2>6
<1> HIDE DEF K
<1>3. k \in K
  BY <1>1, <1>2, InductionUpTo
<1> QED BY <1>3 DEF K

\* A finite set that is strictly ordered has a first element.
LEMMA FirstExists ==
  ASSUME NEW S, IsFiniteSet(S), S # {}, NEW R,
         \A x, y \in S : x # y => <<x, y>> \in R \/ <<y, x>> \in R,
         \A x, y, z \in S : <<x, y>> \in R /\ <<y, z>> \in R => <<x, z>> \in R
  PROVE  \E x \in S : \A y \in S \ {x} : <<x, y>> \in R
<1> DEFINE I == {T \in SUBSET S : T = {} \/ \E x \in T : \A y \in T \ {x} : <<x, y>> \in R}
<1>1. ASSUME NEW T \in I, NEW x \in S PROVE T \cup {x} \in I
  <2>1. CASE T = {} \/ x \in T
    BY <2>1
  <2>2. CASE T # {} /\ x \notin T
    <3>1. PICK f \in T : \A y \in T \ {f} : <<f, y>> \in R
      BY <2>2
    <3>2. CASE <<f, x>> \in R
      <4>1. \A y \in (T \cup {x}) \ {f} : <<f, y>> \in R
        BY <3>1, <3>2
      <4> QED BY <4>1
    <3>3. CASE <<x, f>> \in R
      <4>1. \A y \in (T \cup {x}) \ {x} : <<x, y>> \in R
        BY <3>1, <3>3
      <4> QED BY <4>1
    <3> QED BY <2>2, <3>2, <3>3
  <2> QED BY <2>1, <2>2
<1>2. {} \in I
  OBVIOUS
<1> HIDE DEF I
<1>3. S \in I
  <2>1. I \in SUBSET SUBSET S
    BY DEF I
  <2> QED BY <1>1, <1>2, <2>1, FiniteInduction
<1> QED BY <1>3 DEF I

-----------------------------------------------------------------------------
(* Sums over finite sets, as the folds of the community modules take them.   *)

\* ... of every set that holds whenever it does of the smaller ones.
LEMMA SubsetInduction ==
  ASSUME NEW S, IsFiniteSet(S), NEW I,
         \A T \in SUBSET S : (\A U \in SUBSET T : U # T => U \in I) => T \in I
  PROVE  \A T \in SUBSET S : T \in I
<1> SUFFICES ASSUME NEW V \in SUBSET S, V \notin I PROVE FALSE
  OBVIOUS
<1> DEFINE Others == (SUBSET S) \ I
<1>1. IsWellFoundedOn(StrictSubsetOrdering(S), SUBSET S)
  BY InclusionIsWellFounded
<1>2. Others # {} /\ Others \subseteq SUBSET S
  OBVIOUS
<1> HIDE DEF Others
<1>3. PICK T \in Others : \A U \in Others : ~(<<U, T>> \in StrictSubsetOrdering(S))
  BY <1>1, <1>2, WFMin
<1> USE DEF Others
<1>4. ASSUME NEW U \in SUBSET T, U # T PROVE U \in I
  BY <1>3, <1>4 DEF StrictSubsetOrdering
<1> QED BY <1>3, <1>4

\* One of a set, as the folds choose it.
One(s) == CHOOSE x \in s : TRUE

\* What they compute of the values F, by subset.
Sums(F, S, g) ==
  g = [s \in SUBSET S |-> IF s = {} THEN 0 ELSE F[One(s)] + g[s \ {One(s)}]]

LEMMA OneIn == ASSUME NEW s, s # {} PROVE One(s) \in s
BY DEF One

\* In whatever order they take it.
Adds(F, S, g) ==
  /\ g \in [SUBSET S -> Int] /\ g[{}] = 0
  /\ \A s \in SUBSET S : \A x \in s : g[s] = F[x] + g[s \ {x}]

LEMMA SumsAre ==
  ASSUME NEW S, IsFiniteSet(S), NEW F \in [S -> Int], NEW g, Sums(F, S, g)
  PROVE  Adds(F, S, g)
<1>1. g[{}] = 0 /\ g = [s \in SUBSET S |-> g[s]]
  BY DEF Sums
<1>2. ASSUME NEW s \in SUBSET S, s # {}
      PROVE  g[s] = F[One(s)] + g[s \ {One(s)}] /\ One(s) \in s
  BY <1>2, OneIn DEF Sums
<1> DEFINE I == {s \in SUBSET S : g[s] \in Int /\ \A x \in s : g[s] = F[x] + g[s \ {x}]}
<1>3. ASSUME NEW T \in SUBSET S, \A U \in SUBSET T : U # T => U \in I PROVE T \in I
  <2>1. CASE T = {}
    BY <1>1, <2>1
  <2>2. CASE T # {}
    <3> DEFINE y == One(T)
    <3>1. y \in T /\ g[T] = F[y] + g[T \ {y}]
      BY <1>2, <2>2
    <3> HIDE DEF y
    <3>2. T \ {y} \in I
      BY <1>3, <3>1
    <3>3. g[T] \in Int
      BY <3>1, <3>2
    <3>4. ASSUME NEW x \in T, x # y PROVE g[T] = F[x] + g[T \ {x}]
      <4>1. T \ {x} \in I
        BY <1>3
      <4>2. (T \ {x}) \ {y} = (T \ {y}) \ {x}
        OBVIOUS
      <4>3. g[T \ {x}] = F[y] + g[(T \ {y}) \ {x}]
        BY <3>1, <3>4, <4>1, <4>2
      <4>4. g[T \ {y}] = F[x] + g[(T \ {y}) \ {x}]
        BY <3>2, <3>4
      <4>5. (T \ {y}) \ {x} \in I
        BY <1>3, <3>1
      <4>6. g[(T \ {y}) \ {x}] \in Int /\ F[x] \in Int /\ F[y] \in Int
        BY <4>5, <3>1
      <4> HIDE DEF I
      <4> QED BY <3>1, <4>3, <4>4, <4>6
    <3> QED BY <3>1, <3>3, <3>4
  <2> QED BY <2>1, <2>2
<1> HIDE DEF I
<1>4. \A T \in SUBSET S : T \in I
  BY <1>3, SubsetInduction
<1>5. \A s \in SUBSET S : g[s] \in Int
  BY <1>4 DEF I
<1>6. \A s \in SUBSET S : \A x \in s : g[s] = F[x] + g[s \ {x}]
  BY <1>4 DEF I
<1>7. g \in [SUBSET S -> Int]
  BY <1>1, <1>5
<1> QED BY <1>1, <1>6, <1>7 DEF Adds

LEMMA SumsUnique ==
  ASSUME NEW S, IsFiniteSet(S), NEW F, NEW g, NEW h, Sums(F, S, g), Sums(F, S, h)
  PROVE  g = h
<1> DEFINE I == {s \in SUBSET S : g[s] = h[s]}
<1>1. ASSUME NEW T \in SUBSET S, \A U \in SUBSET T : U # T => U \in I PROVE T \in I
  <2>1. CASE T = {}
    BY <2>1 DEF Sums
  <2>2. CASE T # {}
    <3>1. One(T) \in T
      BY <2>2, OneIn
    <3>2. T \ {One(T)} \in I
      BY <1>1, <3>1
    <3> QED BY <2>2, <3>2 DEF Sums
  <2> QED BY <2>1, <2>2
<1> HIDE DEF I
<1>2. \A T \in SUBSET S : T \in I
  BY <1>1, SubsetInduction
<1> USE DEF I
<1>3. \A T \in SUBSET S : g[T] = h[T]
  BY <1>2
<1> QED BY <1>3 DEF Sums

LEMMA SumsExist ==
  ASSUME NEW S, IsFiniteSet(S), NEW F
  PROVE  \E g : Sums(F, S, g)
<1> DEFINE Step(g, s) == IF s = {} THEN 0 ELSE F[One(s)] + g[s \ {One(s)}]
           K == {k \in Nat : \E g : g = [s \in SUBSET S |-> g[s]]
                               /\ \A s \in SUBSET S : Cardinality(s) <= k => g[s] = Step(g, s)}
<1>1. \A s \in SUBSET S : IsFiniteSet(s) /\ Cardinality(s) \in Nat /\ Cardinality(s) <= Cardinality(S)
  BY FS_Subset, FS_CardinalityType
<1>2. Cardinality(S) \in Nat
  BY FS_CardinalityType
<1>3. 0 \in K
  <2> DEFINE g == [s \in SUBSET S |-> 0]
  <2>1. \A s \in SUBSET S : Cardinality(s) <= 0 => s = {}
    BY <1>1, FS_EmptySet
  <2>2. \A s \in SUBSET S : Cardinality(s) <= 0 => g[s] = Step(g, s)
    BY <2>1
  <2>3. g = [s \in SUBSET S |-> g[s]]
    OBVIOUS
  <2> HIDE DEF g, Step
  <2> QED BY <2>2, <2>3
<1>4. ASSUME NEW k \in K PROVE k + 1 \in K
  <2>1. PICK g : g = [s \in SUBSET S |-> g[s]]
                 /\ \A s \in SUBSET S : Cardinality(s) <= k => g[s] = Step(g, s)
    OBVIOUS
  <2> DEFINE h == [s \in SUBSET S |-> Step(g, s)]
  <2>2. ASSUME NEW s \in SUBSET S, Cardinality(s) <= k + 1 PROVE h[s] = Step(h, s)
    <3>1. CASE s = {}
      BY <3>1
    <3>2. CASE s # {}
      <4> DEFINE r == s \ {One(s)}
      <4>1. One(s) \in s
        BY <3>2, OneIn
      <4>2. r \in SUBSET S /\ Cardinality(r) <= k
        BY <1>1, <2>2, <4>1, FS_RemoveElement
      <4>3. g[r] = h[r]
        BY <2>1, <4>2
      <4> QED BY <3>2, <4>3
    <3> QED BY <3>1, <3>2
  <2>3. h = [s \in SUBSET S |-> h[s]]
    OBVIOUS
  <2>4. k + 1 \in Nat
    OBVIOUS
  <2> HIDE DEF h, Step
  <2>5. \A s \in SUBSET S : Cardinality(s) <= k + 1 => h[s] = Step(h, s)
    BY <2>2
  <2> QED BY <2>3, <2>4, <2>5
<1> HIDE DEF K
<1>5. Cardinality(S) \in K
  BY <1>2, <1>3, <1>4, InductionUpTo
<1> USE DEF K
<1>6. PICK g : g = [s \in SUBSET S |-> g[s]]
               /\ \A s \in SUBSET S : Cardinality(s) <= Cardinality(S) => g[s] = Step(g, s)
  BY <1>5
<1>7. \A s \in SUBSET S : g[s] = Step(g, s)
  BY <1>1, <1>6
<1>8. g = [s \in SUBSET S |-> Step(g, s)]
  BY <1>6, <1>7
<1> QED BY <1>8 DEF Sums

\* The sum of the values F over S.
SumOver(F, S) == (CHOOSE g : Sums(F, S, g))[S]

LEMMA SumIs ==
  ASSUME NEW S, IsFiniteSet(S), NEW F, NEW g, Sums(F, S, g)
  PROVE  SumOver(F, S) = g[S]
BY SumsUnique DEF SumOver

LEMMA SumBySubset ==
  ASSUME NEW S, IsFiniteSet(S), NEW F \in [S -> Int]
  PROVE  \E g : SumOver(F, S) = g[S] /\ Adds(F, S, g)
<1>1. PICK g : Sums(F, S, g)
  BY SumsExist
<1>2. SumOver(F, S) = g[S]
  BY <1>1, SumIs
<1>3. Adds(F, S, g)
  BY <1>1, SumsAre
<1> QED BY <1>2, <1>3

LEMMA SumSame ==
  ASSUME NEW S, IsFiniteSet(S), NEW F, NEW G, \A x \in S : F[x] = G[x]
  PROVE  SumOver(F, S) = SumOver(G, S)
<1>1. PICK g : Sums(F, S, g)
  BY SumsExist
<1>2. Sums(G, S, g)
  BY <1>1, OneIn DEF Sums
<1> QED BY <1>1, <1>2, SumIs

\* Counted by what they are of, things are counted once.
LEMMA SumOfCounts ==
  ASSUME NEW S, IsFiniteSet(S), NEW R, IsFiniteSet(R), NEW of, NEW F \in [S -> Int],
         \A x \in S : F[x] = Cardinality({r \in R : of[r] = x})
  PROVE  SumOver(F, S) = Cardinality({r \in R : of[r] \in S})
<1> DEFINE In(T) == {r \in R : of[r] \in T}
<1>0. \A T : IsFiniteSet({r \in R : of[r] \in T}) /\ Cardinality({r \in R : of[r] \in T}) \in Nat
  <2> TAKE T
  <2>1. {r \in R : of[r] \in T} \in SUBSET R
    OBVIOUS
  <2> QED BY <2>1, FS_Subset, FS_CardinalityType
<1>1. PICK g : SumOver(F, S) = g[S] /\ Adds(F, S, g)
  BY SumBySubset
<1>2. /\ SumOver(F, S) = g[S] /\ g \in [SUBSET S -> Int] /\ g[{}] = 0
      /\ \A s \in SUBSET S : \A x \in s : g[s] = F[x] + g[s \ {x}]
  BY <1>1 DEF Adds
<1> DEFINE I == {T \in SUBSET S : g[T] = Cardinality(In(T))}
<1>4. {} \in I
  <2>1. In({}) = {}
    OBVIOUS
  <2> QED BY <1>2, <2>1, FS_EmptySet
<1>5. ASSUME NEW T \in I, NEW x \in S PROVE T \cup {x} \in I
  <2>1. CASE x \in T
    <3>1. T \cup {x} = T
      BY <2>1
    <3> QED BY <3>1
  <2>2. CASE x \notin T
    <3>1. /\ T \cup {x} \in SUBSET S /\ x \in T \cup {x} /\ (T \cup {x}) \ {x} = T
      BY <2>2
    <3>2. g[T \cup {x}] = F[x] + g[T]
      BY <1>2, <3>1
    <3>3. In(T \cup {x}) = In(T) \cup In({x}) /\ In(T) \cap In({x}) = {}
      BY <2>2
    <3>4. /\ IsFiniteSet(In(T)) /\ IsFiniteSet(In({x}))
          /\ Cardinality(In(T)) \in Nat /\ Cardinality(In({x})) \in Nat
      BY <1>0
    <3>5. F[x] = Cardinality(In({x}))
      <4>1. {r \in R : of[r] = x} = In({x})
        OBVIOUS
      <4> QED BY <4>1
    <3> HIDE DEF In
    <3>6. Cardinality(In(T) \cup In({x}))
            = Cardinality(In(T)) + Cardinality(In({x})) - Cardinality(In(T) \cap In({x}))
      BY <3>4, FS_Union
    <3>7. Cardinality(In(T) \cap In({x})) = 0
      BY <3>3, FS_EmptySet
    <3>8. Cardinality(In(T \cup {x})) = Cardinality(In(T) \cup In({x}))
      BY <3>3
    <3>9. Cardinality(In(T \cup {x})) = Cardinality(In(T)) + Cardinality(In({x}))
      BY <3>4, <3>6, <3>7, <3>8
    <3> QED BY <3>1, <3>2, <3>4, <3>5, <3>9
  <2> QED BY <2>1, <2>2
<1> HIDE DEF I
<1>6. S \in I
  <2>1. I \in SUBSET SUBSET S
    BY DEF I
  <2> QED BY <1>4, <1>5, <2>1, FiniteInduction
<1>7. g[S] = Cardinality(In(S))
  BY <1>6 DEF I
<1> QED BY <1>2, <1>7

-----------------------------------------------------------------------------
(* Folds over sequences, as the community modules take them: over the set   *)
(* of places, the last one first.                                            *)

Largest(s) == CHOOSE x \in s : \A y \in s : x >= y

LEMMA LargestIn ==
  ASSUME NEW n \in Nat, NEW s \in SUBSET (1..n), s # {}
  PROVE  Largest(s) \in s /\ \A y \in s : Largest(s) >= y
<1> DEFINE score == [x \in s |-> x]
<1>a. IsFiniteSet(1..n)
  BY FS_Interval
<1>b. IsFiniteSet(s)
  BY <1>a, FS_Subset
<1>c. score \in [s -> Int]
  OBVIOUS
<1>2. \E x \in s : \A y \in s : score[y] <= score[x]
  <2> HIDE DEF score
  <2> QED BY <1>b, <1>c, LargestExists
<1>3. \E x \in s : \A y \in s : x >= y
  BY <1>2
<1> QED BY <1>3 DEF Largest

LEMMA LargestIs ==
  ASSUME NEW n \in Nat, NEW k \in 0..(n - 1)
  PROVE  /\ 1..(k + 1) \in SUBSET (1..n) /\ 1..(k + 1) # {}
         /\ Largest(1..(k + 1)) = k + 1 /\ (1..(k + 1)) \ {k + 1} = 1..k
<1>1. 1..(k + 1) \in SUBSET (1..n) /\ 1..(k + 1) # {} /\ k + 1 \in 1..(k + 1)
  OBVIOUS
<1>2. /\ Largest(1..(k + 1)) \in 1..(k + 1)
      /\ \A y \in 1..(k + 1) : Largest(1..(k + 1)) >= y
  BY <1>1, LargestIn
<1>3. Largest(1..(k + 1)) = k + 1
  BY <1>1, <1>2
<1>4. (1..(k + 1)) \ {k + 1} = 1..k
  OBVIOUS
<1> QED BY <1>1, <1>3, <1>4

\* What a fold of the steps over the places is, by subset of them.
Runs(base, step, n, g) ==
  \A s \in SUBSET (1..n) :
     g[s] = IF s = {} THEN base ELSE step[<<g[s \ {Largest(s)}], Largest(s)>>]

LEMMA RunsExist ==
  ASSUME NEW n \in Nat, NEW R, NEW base \in R, NEW step \in [R \X (1..n) -> R]
  PROVE  \E g \in [SUBSET (1..n) -> R] : Runs(base, step, n, g)
<1> DEFINE S == 1..n
           Step(g, s) == IF s = {} THEN base ELSE step[<<g[s \ {Largest(s)}], Largest(s)>>]
           K == {k \in Nat : \E g \in [SUBSET S -> R] :
                                \A s \in SUBSET S : Cardinality(s) <= k => g[s] = Step(g, s)}
<1>1. IsFiniteSet(S) /\ Cardinality(S) = n
  BY FS_Interval
<1>2. \A s \in SUBSET S : IsFiniteSet(s) /\ Cardinality(s) \in Nat /\ Cardinality(s) <= n
  <2> HIDE DEF S
  <2> QED BY <1>1, FS_Subset, FS_CardinalityType
<1>3. 0 \in K
  <2> DEFINE g == [s \in SUBSET S |-> base]
  <2>1. \A s \in SUBSET S : Cardinality(s) <= 0 => s = {}
    BY <1>2, FS_EmptySet
  <2>2. \A s \in SUBSET S : Cardinality(s) <= 0 => g[s] = Step(g, s)
    BY <2>1
  <2>3. g \in [SUBSET S -> R]
    OBVIOUS
  <2> HIDE DEF g, Step
  <2> QED BY <2>2, <2>3
<1>4. ASSUME NEW k \in K PROVE k + 1 \in K
  <2>1. PICK g \in [SUBSET S -> R] : \A s \in SUBSET S : Cardinality(s) <= k => g[s] = Step(g, s)
    OBVIOUS
  <2>a. k \in Nat
    OBVIOUS
  <2> DEFINE h == [s \in SUBSET S |-> Step(g, s)]
  <2>0. ASSUME NEW s \in SUBSET S, s # {}
        PROVE  Largest(s) \in S /\ Largest(s) \in s /\ s \ {Largest(s)} \in SUBSET S
    BY <2>0, LargestIn
  <2>2. ASSUME NEW s \in SUBSET S, Cardinality(s) <= k + 1 PROVE h[s] = Step(h, s)
    <3>1. CASE s = {}
      BY <3>1
    <3>2. CASE s # {}
      <4> DEFINE r == s \ {Largest(s)}
      <4>1. Largest(s) \in s
        BY <3>2, <2>0
      <4>2. r \in SUBSET S /\ Cardinality(r) <= k
        <5>1. IsFiniteSet(s) /\ Cardinality(s) \in Nat
          BY <1>2
        <5>2. IsFiniteSet(r) /\ Cardinality(r) = Cardinality(s) - 1
          <6> HIDE DEF K, S
          <6> QED BY <4>1, <5>1, FS_RemoveElement
        <5>3. r \in SUBSET S
          OBVIOUS
        <5> HIDE DEF K, S, r
        <5> QED BY <2>a, <2>2, <5>1, <5>2, <5>3
      <4>3. g[r] = h[r]
        BY <2>1, <4>2
      <4> QED BY <3>2, <4>3
    <3> QED BY <3>1, <3>2
  <2>3. h \in [SUBSET S -> R]
    <3> SUFFICES ASSUME NEW s \in SUBSET S PROVE Step(g, s) \in R
      OBVIOUS
    <3>1. CASE s = {}
      BY <3>1
    <3>2. CASE s # {}
      <4>1. <<g[s \ {Largest(s)}], Largest(s)>> \in R \X S
        BY <2>0, <3>2
      <4> QED BY <3>2, <4>1
    <3> QED BY <3>1, <3>2
  <2>4. k + 1 \in Nat
    OBVIOUS
  <2> HIDE DEF h, Step
  <2>5. \A s \in SUBSET S : Cardinality(s) <= k + 1 => h[s] = Step(h, s)
    BY <2>2
  <2> QED BY <2>3, <2>4, <2>5
<1> HIDE DEF K
<1>5. n \in K
  BY <1>3, <1>4, InductionUpTo
<1> USE DEF K
<1>6. PICK g \in [SUBSET S -> R] : \A s \in SUBSET S : Cardinality(s) <= n => g[s] = Step(g, s)
  BY <1>5
<1>7. \A s \in SUBSET S : g[s] = Step(g, s)
  BY <1>2, <1>6
<1> QED BY <1>6, <1>7 DEF Runs

\* Whatever takes these steps while it stays in R takes the places one after the other.
Takes(base, step, n, R, h) ==
  \A s \in SUBSET (1..n) :
     /\ s = {} => h[s] = base
     /\ s # {} /\ h[s \ {Largest(s)}] \in R => h[s] = step[<<h[s \ {Largest(s)}], Largest(s)>>]

InSteps(base, step, n, R, last) ==
  \E f \in [0..n -> R] : /\ f[0] = base /\ f[n] = last
                         /\ \A k \in 0..(n - 1) : f[k + 1] = step[<<f[k], k + 1>>]

LEMMA RunSteps ==
  ASSUME NEW n \in Nat, NEW R, NEW base \in R, NEW step \in [R \X (1..n) -> R], NEW h,
         Takes(base, step, n, R, h)
  PROVE  InSteps(base, step, n, R, h[1..n])
<1> DEFINE f == [k \in 0..n |-> h[1..k]]
           K == {k \in Nat : k <= n => h[1..k] \in R}
<1>1. h[1..0] = base
  <2>1. 1..0 = {} /\ {} \in SUBSET (1..n)
    OBVIOUS
  <2> QED BY <2>1 DEF Takes
<1>2. ASSUME NEW k \in 0..(n - 1), h[1..k] \in R
      PROVE  h[1..(k + 1)] = step[<<h[1..k], k + 1>>] /\ h[1..(k + 1)] \in R
  <2>1. PICK s \in SUBSET (1..n) : s = 1..(k + 1)
    BY LargestIs
  <2>2. s # {} /\ Largest(s) = k + 1 /\ s \ {k + 1} = 1..k
    BY <2>1, LargestIs
  <2>a. k + 1 \in 1..n
    OBVIOUS
  <2>3. h[s] = step[<<h[1..k], k + 1>>]
    BY <1>2, <2>2 DEF Takes
  <2>4. <<h[1..k], k + 1>> \in R \X (1..n)
    BY <1>2, <2>a
  <2> QED BY <2>1, <2>3, <2>4
<1>3. ASSUME NEW m \in Nat, m <= n PROVE h[1..m] \in R
  <2>1. 0 \in K
    BY <1>1
  <2>2. ASSUME NEW k \in K, k < m PROVE k + 1 \in K
    <3>a. k \in Nat /\ (k <= n => h[1..k] \in R)
      OBVIOUS
    <3>1. k \in 0..(n - 1) /\ h[1..k] \in R
      BY <1>3, <2>2, <3>a
    <3>2. h[1..(k + 1)] \in R
      BY <1>2, <3>1
    <3> QED BY <3>a, <3>2
  <2> HIDE DEF K
  <2>3. m \in K
    BY <2>1, <2>2, InductionUpTo
  <2> QED BY <1>3, <2>3 DEF K
<1>4. f \in [0..n -> R]
  BY <1>3
<1>5. ASSUME NEW k \in 0..(n - 1) PROVE f[k + 1] = step[<<f[k], k + 1>>]
  <2>1. h[1..k] \in R /\ k \in 0..n /\ k + 1 \in 0..n
    BY <1>3
  <2> QED BY <1>2, <2>1
<1>6. f[0] = base /\ f[n] = h[1..n]
  BY <1>1
<1> HIDE DEF f
<1> QED BY <1>4, <1>5, <1>6 DEF InSteps

-----------------------------------------------------------------------------
(* Selecting from a sequence, as a fold does it.                             *)

Selecting(s, T, h) ==
  h = [u \in SUBSET DOMAIN s |->
         IF u = {} THEN <<>>
         ELSE IF s[Largest(u)] \in T THEN Append(h[u \ {Largest(u)}], s[Largest(u)])
              ELSE h[u \ {Largest(u)}]]

\* Those of a sequence that are in T, in order.
Selected(s, T) == (CHOOSE h : Selecting(s, T, h))[DOMAIN s]

\* ... taken one after the other.
Selects(s, T, f) ==
  /\ f[0] = <<>>
  /\ \A k \in 0..(Len(s) - 1) :
        f[k + 1] = IF s[k + 1] \in T THEN Append(f[k], s[k + 1]) ELSE f[k]

LEMMA SelectedInSteps ==
  ASSUME NEW S, NEW s \in Seq(S), NEW T
  PROVE  \E f \in [0..Len(s) -> Seq(S)] : Selects(s, T, f) /\ f[Len(s)] = Selected(s, T)
<1> DEFINE n == Len(s)
           R == Seq(S)
           step == [q \in R \X (1..n) |-> IF s[q[2]] \in T THEN Append(q[1], s[q[2]]) ELSE q[1]]
           h == CHOOSE h : Selecting(s, T, h)
<1>1. n \in Nat /\ DOMAIN s = 1..n /\ \A i \in 1..n : s[i] \in S
  BY LenProperties, ElementOfSeq
<1>2. step \in [R \X (1..n) -> R]
  <2>1. ASSUME NEW x \in R, NEW i \in 1..n PROVE Append(x, s[i]) \in R
    BY <1>1, <2>1, AppendProperties
  <2> QED BY <2>1
<1>3. \A x \in R, i \in 1..n :
         step[<<x, i>>] = IF s[i] \in T THEN Append(x, s[i]) ELSE x
  OBVIOUS
<1>4. \A u \in SUBSET (1..n) : u # {} => Largest(u) \in 1..n /\ u \ {Largest(u)} \in SUBSET (1..n)
  BY <1>1, LargestIn
<1>5. <<>> \in R
  OBVIOUS
<1> HIDE DEF step, n, R
<1>6. PICK g \in [SUBSET (1..n) -> R] : Runs(<<>>, step, n, g)
  BY <1>1, <1>2, <1>5, RunsExist
<1>7. Selecting(s, T, g)
  <2>1. ASSUME NEW u \in SUBSET (1..n), u # {}
        PROVE  g[u] = IF s[Largest(u)] \in T THEN Append(g[u \ {Largest(u)}], s[Largest(u)])
                      ELSE g[u \ {Largest(u)}]
    BY <1>3, <1>4, <1>6, <2>1 DEF Runs
  <2>2. g = [u \in SUBSET (1..n) |-> g[u]] /\ g[{}] = <<>>
    BY <1>6 DEF Runs
  <2> QED BY <1>1, <2>1, <2>2 DEF Selecting
<1>8. Selecting(s, T, h)
  BY <1>7
<1>0. Selected(s, T) = h[1..n]
  BY <1>1 DEF Selected
<1> HIDE DEF h
<1>10. Takes(<<>>, step, n, R, h)
  BY <1>1, <1>3, <1>4, <1>8 DEF Takes, Selecting
<1>11. n \in Nat
  BY <1>1
<1>12. InSteps(<<>>, step, n, R, h[1..n])
  BY <1>11, <1>2, <1>5, <1>10, RunSteps
<1>13. PICK f \in [0..n -> R] : /\ f[0] = <<>> /\ f[n] = h[1..n]
                                /\ \A k \in 0..(n - 1) : f[k + 1] = step[<<f[k], k + 1>>]
  BY <1>12 DEF InSteps
<1>14. ASSUME NEW k \in 0..(n - 1)
       PROVE  f[k + 1] = IF s[k + 1] \in T THEN Append(f[k], s[k + 1]) ELSE f[k]
  <2>1. f[k] \in R /\ k + 1 \in 1..n
    BY <1>1, <1>13
  <2> QED BY <1>3, <1>13, <2>1
<1> QED BY <1>0, <1>13, <1>14 DEF n, R, Selects

LEMMA SelectedType ==
  ASSUME NEW S, NEW s \in Seq(S), NEW T
  PROVE  Selected(s, T) \in Seq(S)
<1>1. PICK f \in [0..Len(s) -> Seq(S)] : Selects(s, T, f) /\ f[Len(s)] = Selected(s, T)
  BY SelectedInSteps
<1>2. Len(s) \in 0..Len(s)
  BY LenProperties
<1> QED BY <1>1, <1>2

\* There is one way to do so.
LEMMA SelectsOnce ==
  ASSUME NEW S, NEW s \in Seq(S), NEW T, NEW f, Selects(s, T, f)
  PROVE  f[Len(s)] = Selected(s, T)
<1> DEFINE n == Len(s)
<1>1. n \in Nat
  BY LenProperties
<1>2. PICK g \in [0..n -> Seq(S)] : Selects(s, T, g) /\ g[n] = Selected(s, T)
  BY SelectedInSteps
<1> DEFINE K == {k \in 0..n : f[k] = g[k]}
<1>3. 0 \in K
  BY <1>1, <1>2 DEF Selects
<1>4. ASSUME NEW k \in K, k < n PROVE k + 1 \in K
  <2>1. k \in 0..n /\ f[k] = g[k]
    OBVIOUS
  <2>2. k \in 0..(n - 1) /\ k + 1 \in 0..n
    BY <1>1, <1>4, <2>1
  <2>3. f[k + 1] = g[k + 1]
    BY <1>2, <2>1, <2>2 DEF Selects
  <2> QED BY <2>2, <2>3
<1> HIDE DEF K, n
<1>5. n \in K
  BY <1>1, <1>3, <1>4, InductionUpTo
<1> QED BY <1>2, <1>5 DEF K, n

AppendsLast(S) ==
  \A p \in Seq(S), q \in Seq(S), x \in S : Append(p \o q, x) = p \o Append(q, x)

LEMMA AppendToConcat ==
  ASSUME NEW S
  PROVE  AppendsLast(S)
<1> SUFFICES ASSUME NEW p \in Seq(S), NEW q \in Seq(S), NEW x \in S
             PROVE  Append(p \o q, x) = p \o Append(q, x)
  BY DEF AppendsLast
<1> DEFINE w == <<x>>
<1>1. p \o q \in Seq(S) /\ w \in Seq(S)
  BY ConcatProperties
<1>2. Append(p \o q, x) = (p \o q) \o w /\ Append(q, x) = q \o w
  BY <1>1, AppendIsConcat
<1> HIDE DEF w
<1>3. (p \o q) \o w = p \o (q \o w)
  BY <1>1, ConcatAssociative
<1> QED BY <1>2, <1>3, Zenon

LEMMA SelectedConcat ==
  ASSUME NEW S, NEW s \in Seq(S), NEW t \in Seq(S), NEW T
  PROVE  Selected(s \o t, T) = Selected(s, T) \o Selected(t, T)
<1> DEFINE n == Len(s)
           m == Len(t)
           c == s \o t
<1>1. /\ n \in Nat /\ m \in Nat /\ c \in Seq(S) /\ Len(c) = n + m
      /\ \A i \in 1..n : c[i] = s[i] /\ s[i] \in S
      /\ \A i \in 1..m : c[n + i] = t[i] /\ t[i] \in S
  <2>1. /\ n \in Nat /\ m \in Nat /\ c \in Seq(S) /\ Len(c) = n + m
    BY LenProperties, ConcatProperties
  <2>2. \A i \in 1..(n + m) : c[i] = IF i <= n THEN s[i] ELSE t[i - n]
    BY ConcatProperties
  <2>3. (\A i \in 1..n : s[i] \in S) /\ (\A i \in 1..m : t[i] \in S)
    BY ElementOfSeq
  <2>4. ASSUME NEW i \in 1..m PROVE n + i \in 1..(n + m) /\ ~(n + i <= n) /\ n + i - n = i
    BY <2>1
  <2>5. ASSUME NEW i \in 1..n PROVE i \in 1..(n + m) /\ i <= n
    BY <2>1
  <2> HIDE DEF c, n, m
  <2> QED BY <2>1, <2>2, <2>3, <2>4, <2>5
<1>2. PICK f \in [0..n -> Seq(S)] : Selects(s, T, f) /\ f[n] = Selected(s, T)
  BY SelectedInSteps
<1>3. PICK e \in [0..m -> Seq(S)] : Selects(t, T, e) /\ e[m] = Selected(t, T)
  BY SelectedInSteps
<1> DEFINE g == [k \in 0..(n + m) |-> IF k <= n THEN f[k] ELSE f[n] \o e[k - n]]
<1>4. f[n] \in Seq(S) /\ f[n] \o e[0] = f[n] /\ e[0] = <<>>
  BY <1>1, <1>2, <1>3, ConcatEmptySeq DEF Selects
<1>0. AppendsLast(S)
  BY AppendToConcat
<1>5. \A k \in 0..m : g[n + k] = f[n] \o e[k]
  <2> SUFFICES ASSUME NEW k \in 0..m PROVE g[n + k] = f[n] \o e[k]
    OBVIOUS
  <2>1. n + k \in 0..(n + m) /\ (n + k) - n = k /\ (n + k <= n => k = 0) /\ n + 0 = n
    BY <1>1
  <2>2. g[n + k] = IF n + k <= n THEN f[n + k] ELSE f[n] \o e[(n + k) - n]
    BY <2>1
  <2>3. CASE n + k <= n
    BY <1>4, <2>1, <2>2, <2>3
  <2>4. CASE ~(n + k <= n)
    BY <2>1, <2>2, <2>4
  <2> QED BY <2>3, <2>4
<1>6. Selects(c, T, g)
  <2>1. g[0] = <<>>
    BY <1>1, <1>2 DEF Selects
  <2>2. ASSUME NEW k \in 0..(n + m - 1)
        PROVE  g[k + 1] = IF c[k + 1] \in T THEN Append(g[k], c[k + 1]) ELSE g[k]
    <3>1. CASE k < n
      <4>1. k \in 0..(n - 1) /\ k + 1 \in 1..n /\ k <= n /\ k + 1 <= n /\ k \in 0..(n + m)
            /\ k + 1 \in 0..(n + m)
        BY <1>1, <3>1
      <4>2. g[k] = f[k] /\ g[k + 1] = f[k + 1] /\ c[k + 1] = s[k + 1]
        BY <1>1, <4>1
      <4> HIDE DEF g, c
      <4> QED BY <1>2, <4>1, <4>2 DEF Selects
    <3>2. CASE ~(k < n)
      <4>1. PICK i \in 0..(m - 1) : k = n + i
        <5>1. k - n \in 0..(m - 1) /\ k = n + (k - n)
          BY <1>1, <3>2
        <5> QED BY <5>1
      <4>2. i \in 0..m /\ i + 1 \in 0..m /\ i + 1 \in 1..m /\ k + 1 = n + (i + 1)
        BY <1>1, <4>1
      <4>3. g[k] = f[n] \o e[i]
        BY <1>5, <4>1, <4>2
      <4>4. g[k + 1] = f[n] \o e[i + 1]
        BY <1>5, <4>2
      <4>5. c[k + 1] = t[i + 1] /\ t[i + 1] \in S
        BY <1>1, <4>2
      <4>6. e[i + 1] = IF t[i + 1] \in T THEN Append(e[i], t[i + 1]) ELSE e[i]
        BY <1>3 DEF Selects
      <4>7. PICK p \in Seq(S) : p = f[n]
        BY <1>4
      <4>8. PICK q \in Seq(S) : q = e[i]
        BY <4>2
      <4>9. PICK x \in S : x = t[i + 1]
        BY <4>5
      <4>10. Append(p \o q, x) = p \o Append(q, x)
        BY <1>0 DEF AppendsLast
      <4> HIDE DEF g, c
      <4> QED BY <4>3, <4>4, <4>5, <4>6, <4>7, <4>8, <4>9, <4>10
    <3> QED BY <3>1, <3>2
  <2>3. Len(c) = n + m
    BY <1>1
  <2> HIDE DEF g, c
  <2> QED BY <2>1, <2>2, <2>3 DEF Selects
<1>7. g[n + m] = f[n] \o e[m]
  <2>1. m \in 0..m
    BY <1>1
  <2> QED BY <1>5, <2>1
<1> HIDE DEF g
<1>8. g[Len(c)] = Selected(c, T)
  BY <1>1, <1>6, SelectsOnce
<1> QED BY <1>1, <1>2, <1>3, <1>7, <1>8

\* What holds of the empty sequence, and of a longer one if it does of the shorter, holds of all.
LEMMA SequenceInduction ==
  ASSUME NEW S, NEW I, <<>> \in I, \A s \in Seq(S), x \in S : s \in I => Append(s, x) \in I,
         NEW s \in Seq(S)
  PROVE  s \in I
<1> DEFINE n == Len(s)
           K == {k \in 0..n : SubSeq(s, 1, k) \in I}
<1>1. n \in Nat /\ \A i \in 1..n : s[i] \in S
  BY LenProperties, ElementOfSeq
<1>2. 0 \in K
  <2>1. SubSeq(s, 1, 0) = <<>>
    <3>1. 1 \in Int /\ 0 \in Int /\ 0 < 1
      OBVIOUS
    <3> QED BY <3>1, SubSeqEmpty
  <2>2. 0 \in 0..n
    BY <1>1
  <2> HIDE DEF n
  <2> QED BY <2>1, <2>2, Zenon
<1>3. ASSUME NEW k \in K, k < n PROVE k + 1 \in K
  <2>1. k \in 0..n /\ SubSeq(s, 1, k) \in I /\ k + 1 \in 1..n
    BY <1>1, <1>3
  <2>2. SubSeq(s, 1, k) \in Seq(S)
    <3>1. 1 \in Int /\ k \in Int /\ \A i \in 1..k : s[i] \in S
      BY <1>1, <2>1
    <3> QED BY <3>1, SubSeqProperties
  <2> DEFINE w == SubSeq(s, 1, k)
             x == s[k + 1]
  <2>3. SubSeq(s, 1, k + 1) = w \o <<x>>
    <3>1. 1 \in 1..n /\ k + 1 \in 1..n /\ (k + 1) - 1 = k
      BY <1>1, <2>1
    <3> QED BY <3>1, SubSeqRecursiveSecond DEF n
  <2>4. x \in S /\ w \in Seq(S) /\ w \in I
    BY <1>1, <2>1, <2>2
  <2> HIDE DEF w, x
  <2>5. Append(w, x) = w \o <<x>>
    BY <2>4, AppendIsConcat
  <2>6. SubSeq(s, 1, k + 1) \in I
    BY <2>3, <2>4, <2>5
  <2> QED BY <1>1, <2>1, <2>6
<1> HIDE DEF K
<1>4. n \in K
  BY <1>1, <1>2, <1>3, InductionUpTo
<1> QED BY <1>4, SubSeqFull DEF K

LEMMA SelectedEmpty ==
  ASSUME NEW T
  PROVE  Selected(<<>>, T) = <<>>
<1> DEFINE f == [k \in 0..0 |-> <<>>]
<1>1. Selects(<<>>, T, f)
  BY DEF Selects
<1>2. <<>> \in Seq({}) /\ Len(<<>>) = 0 /\ f[0] = <<>>
  OBVIOUS
<1> HIDE DEF f
<1> QED BY <1>1, <1>2, SelectsOnce

LEMMA SelectedAppend ==
  ASSUME NEW S, NEW s \in Seq(S), NEW x \in S, NEW T
  PROVE  Selected(Append(s, x), T)
            = IF x \in T THEN Append(Selected(s, T), x) ELSE Selected(s, T)
<1> DEFINE one == <<x>>
           r == Selected(s, T)
<1>1. one \in Seq(S) /\ Len(one) = 1 /\ one[1] = x
  OBVIOUS
<1>2. Selected(one, T) = IF x \in T THEN one ELSE <<>>
  <2> DEFINE f == [k \in 0..1 |-> IF k = 0 THEN <<>> ELSE IF x \in T THEN one ELSE <<>>]
  <2>1. f[0] = <<>> /\ f[1] = IF x \in T THEN one ELSE <<>>
    OBVIOUS
  <2>2. Append(<<>>, x) = one
    OBVIOUS
  <2> HIDE DEF f, one
  <2>3. Selects(one, T, f)
    <3>1. \A k \in 0..(Len(one) - 1) : k = 0 /\ k + 1 = 1
      BY <1>1
    <3> QED BY <1>1, <2>1, <2>2, <3>1 DEF Selects
  <2>4. f[Len(one)] = Selected(one, T)
    BY <1>1, <2>3, SelectsOnce
  <2> QED BY <1>1, <2>1, <2>4
<1>3. Append(s, x) = s \o one
  BY AppendIsConcat
<1>4. r \in Seq(S)
  BY SelectedType
<1>5. Append(r, x) = r \o one
  <2> HIDE DEF r, one
  <2> QED BY <1>4, AppendIsConcat DEF one
<1> HIDE DEF one
<1>6. Selected(s \o one, T) = r \o Selected(one, T)
  BY <1>1, SelectedConcat DEF r
<1>7. r \o <<>> = r
  <2> HIDE DEF r
  <2> QED BY <1>4, ConcatEmptySeq
<1> HIDE DEF r
<1> QED BY <1>2, <1>3, <1>5, <1>6, <1>7 DEF r

\* Only what is in the sequence matters.
LEMMA SelectedSame ==
  ASSUME NEW S, NEW s \in Seq(S), NEW T, NEW U, \A i \in 1..Len(s) : s[i] \in T <=> s[i] \in U
  PROVE  Selected(s, T) = Selected(s, U)
<1>1. PICK f \in [0..Len(s) -> Seq(S)] : Selects(s, T, f) /\ f[Len(s)] = Selected(s, T)
  BY SelectedInSteps
<1>2. Selects(s, U, f)
  <2>1. Len(s) \in Nat
    BY LenProperties
  <2>2. ASSUME NEW k \in 0..(Len(s) - 1) PROVE k + 1 \in 1..Len(s)
    BY <2>1
  <2> QED BY <1>1, <2>2 DEF Selects
<1> QED BY <1>1, <1>2, SelectsOnce

LEMMA SelectedTwice ==
  ASSUME NEW S, NEW T, NEW U, U \subseteq T, NEW s \in Seq(S)
  PROVE  Selected(Selected(s, T), U) = Selected(s, U)
<1> DEFINE I == {w \in Seq(S) : Selected(Selected(w, T), U) = Selected(w, U)}
<1>1. <<>> \in I
  BY SelectedEmpty
<1>2. ASSUME NEW w \in Seq(S), NEW x \in S, w \in I PROVE Append(w, x) \in I
  <2>1. Selected(w, T) \in Seq(S) /\ Selected(Selected(w, T), U) = Selected(w, U)
    BY <1>2, SelectedType
  <2>2. Selected(Append(w, x), T) = IF x \in T THEN Append(Selected(w, T), x) ELSE Selected(w, T)
    BY SelectedAppend
  <2>3. Selected(Append(w, x), U) = IF x \in U THEN Append(Selected(w, U), x) ELSE Selected(w, U)
    BY SelectedAppend
  <2>4. Selected(Append(Selected(w, T), x), U)
          = IF x \in U THEN Append(Selected(Selected(w, T), U), x) ELSE Selected(Selected(w, T), U)
    <3> DEFINE v == Selected(w, T)
    <3>1. v \in Seq(S)
      BY <2>1
    <3> HIDE DEF v
    <3>2. Selected(Append(v, x), U) = IF x \in U THEN Append(Selected(v, U), x) ELSE Selected(v, U)
      BY <3>1, SelectedAppend
    <3> QED BY <3>2 DEF v
  <2>5. Append(w, x) \in Seq(S)
    BY AppendProperties
  <2>6. Selected(Selected(Append(w, x), T), U) = Selected(Append(w, x), U)
    BY <2>1, <2>2, <2>3, <2>4
  <2> QED BY <2>5, <2>6
<1> HIDE DEF I
<1>3. s \in I
  BY <1>1, <1>2, SequenceInduction
<1> QED BY <1>3 DEF I

\* What is selected from the beginning is the beginning of what is selected.
LEMMA SelectedBeginning ==
  ASSUME NEW S, NEW s \in Seq(S), NEW n \in 0..Len(s), NEW T
  PROVE  LET pre == Selected(SubSeq(s, 1, n), T)
             all == Selected(s, T)
         IN  /\ Len(pre) \in Nat /\ Len(all) \in Nat /\ Len(pre) <= Len(all)
             /\ \A i \in 1..Len(pre) : pre[i] = all[i]
<1> DEFINE a == SubSeq(s, 1, n)
           b == SubSeq(s, n + 1, Len(s))
           pre == Selected(a, T)
           post == Selected(b, T)
<1>1. Len(s) \in Nat /\ n \in Int /\ n + 1 \in Int /\ 1 \in Int /\ Len(s) \in Int
  BY LenProperties
<1>a. \A i \in 1..Len(s) : s[i] \in S
  BY ElementOfSeq
<1>2. a \in Seq(S)
  <2>1. \A i \in 1..n : s[i] \in S
    BY <1>1, <1>a
  <2> QED BY <1>1, <2>1, SubSeqProperties
<1>3. b \in Seq(S)
  <2>1. \A i \in (n + 1)..Len(s) : s[i] \in S
    BY <1>1, <1>a
  <2> QED BY <1>1, <2>1, SubSeqProperties
<1>4. a \o b = s
  <2>1. 1 \in 1..Len(s) + 1 /\ n \in (1 - 1)..Len(s) /\ Len(s) \in n..Len(s)
    BY <1>1
  <2>2. a \o b = SubSeq(s, 1, Len(s))
    BY <2>1, ConcatAdjacentSubSeq
  <2> QED BY <2>2, SubSeqFull
<1> HIDE DEF a, b
<1>5. pre \in Seq(S) /\ post \in Seq(S)
  BY <1>2, <1>3, SelectedType
<1>6. Selected(s, T) = pre \o post
  <2>1. Selected(a \o b, T) = pre \o post
    BY <1>2, <1>3, SelectedConcat
  <2> QED BY <1>4, <2>1
<1> HIDE DEF pre, post
<1>7. /\ Len(pre) \in Nat /\ Len(post) \in Nat /\ Len(pre \o post) = Len(pre) + Len(post)
      /\ \A i \in 1..Len(pre) : (pre \o post)[i] = pre[i]
  <2>1. Len(pre) \in Nat /\ Len(post) \in Nat
    BY <1>5, LenProperties
  <2>2. /\ Len(pre \o post) = Len(pre) + Len(post)
        /\ \A i \in 1..(Len(pre) + Len(post)) :
              (pre \o post)[i] = IF i <= Len(pre) THEN pre[i] ELSE post[i - Len(pre)]
    BY <1>5, ConcatProperties
  <2> QED BY <2>1, <2>2
<1>8. Selected(SubSeq(s, 1, n), T) = pre
  BY DEF pre, a
<1> QED BY <1>6, <1>7, <1>8

Backwards(s) == [i \in 1..Len(s) |-> s[(Len(s) - i) + 1]]

LEMMA BackwardsType ==
  ASSUME NEW S, NEW s \in Seq(S)
  PROVE  Backwards(s) \in Seq(S) /\ Len(Backwards(s)) = Len(s)
<1> DEFINE n == Len(s)
<1>1. n \in Nat /\ \A i \in 1..n : s[i] \in S
  BY LenProperties, ElementOfSeq
<1>2. ASSUME NEW i \in 1..n PROVE s[(n - i) + 1] \in S
  <2>1. (n - i) + 1 \in 1..n
    BY <1>1
  <2> QED BY <1>1, <2>1
<1>3. Backwards(s) = [i \in 1..n |-> s[(n - i) + 1]]
  BY DEF Backwards
<1> HIDE DEF n
<1>4. Backwards(s) \in [1..n -> S]
  BY <1>2, <1>3
<1>5. Backwards(s) \in Seq(S)
  BY <1>1, <1>4
<1> QED BY <1>1, <1>4, <1>5, LenProperties DEF n

LEMMA BackwardsAppend ==
  ASSUME NEW S, NEW s \in Seq(S), NEW x \in S
  PROVE  Backwards(Append(s, x)) = <<x>> \o Backwards(s)
<1> DEFINE n == Len(s)
           a == Append(s, x)
           b == Backwards(s)
           one == <<x>>
           l == Backwards(a)
           r == one \o b
<1>1. n \in Nat /\ a \in Seq(S) /\ Len(a) = n + 1 /\ (\A i \in 1..n : a[i] = s[i]) /\ a[n + 1] = x
  BY LenProperties, AppendProperties
<1>2. b \in Seq(S) /\ Len(b) = n
  BY BackwardsType
<1>3. \A i \in 1..n : b[i] = s[(n - i) + 1]
  BY DEF Backwards
<1>4. one \in Seq(S) /\ Len(one) = 1 /\ one[1] = x
  OBVIOUS
<1>5. l \in Seq(S) /\ Len(l) = n + 1
  <2> HIDE DEF a
  <2> QED BY <1>1, BackwardsType
<1>6. \A i \in 1..(n + 1) : l[i] = a[((n + 1) - i) + 1]
  BY <1>1 DEF Backwards
<1> HIDE DEF n, a, b, one, l
<1>7. r \in Seq(S) /\ Len(r) = n + 1
      /\ \A i \in 1..(1 + n) : r[i] = IF i <= 1 THEN one[i] ELSE b[i - 1]
  <2>1. r \in Seq(S) /\ Len(r) = Len(one) + Len(b)
    BY <1>2, <1>4, ConcatProperties
  <2>2. \A i \in 1..(Len(one) + Len(b)) : r[i] = IF i <= Len(one) THEN one[i] ELSE b[i - Len(one)]
    BY <1>2, <1>4, ConcatProperties
  <2> HIDE DEF r
  <2> QED BY <1>1, <1>2, <1>4, <2>1, <2>2
<1> HIDE DEF r
<1>8. ASSUME NEW i \in 1..(n + 1) PROVE l[i] = r[i]
  <2>1. CASE i = 1
    <3>1. ((n + 1) - i) + 1 = n + 1 /\ i \in 1..(1 + n) /\ i <= 1
      BY <1>1, <2>1
    <3> QED BY <1>1, <1>4, <1>6, <1>7, <2>1, <3>1
  <2>2. CASE i # 1
    <3>1. i - 1 \in 1..n /\ ((n + 1) - i) + 1 = (n - (i - 1)) + 1 /\ (n - (i - 1)) + 1 \in 1..n
          /\ i \in 1..(1 + n) /\ ~(i <= 1)
      BY <1>1, <2>2
    <3>2. l[i] = a[(n - (i - 1)) + 1]
      BY <1>6, <3>1
    <3>3. a[(n - (i - 1)) + 1] = s[(n - (i - 1)) + 1]
      BY <1>1, <3>1
    <3>4. b[i - 1] = s[(n - (i - 1)) + 1]
      BY <1>3, <3>1
    <3>5. r[i] = b[i - 1]
      BY <1>7, <3>1
    <3> QED BY <3>2, <3>3, <3>4, <3>5
  <2> QED BY <2>1, <2>2
<1>9. l = r
  BY <1>5, <1>7, <1>8, SeqEqual
<1> QED BY <1>9 DEF l, r, a, one, b

LEMMA SelectedBackwards ==
  ASSUME NEW S, NEW T, NEW s \in Seq(S)
  PROVE  Selected(Backwards(s), T) = Backwards(Selected(s, T))
<1> DEFINE I == {w \in Seq(S) : Selected(Backwards(w), T) = Backwards(Selected(w, T))}
<1>1. <<>> \in I
  <2>1. Backwards(<<>>) = <<>>
    BY DEF Backwards
  <2> QED BY <2>1, SelectedEmpty
<1>2. ASSUME NEW w \in Seq(S), NEW x \in S, w \in I PROVE Append(w, x) \in I
  <2> DEFINE one == <<x>>
             v == Selected(w, T)
             b == Backwards(w)
  <2>1. one \in Seq(S) /\ v \in Seq(S) /\ b \in Seq(S) /\ Selected(b, T) = Backwards(v)
    BY <1>2, SelectedType, BackwardsType
  <2>2. Backwards(Append(w, x)) = one \o b
    BY BackwardsAppend
  <2>3. Selected(one, T) = IF x \in T THEN one ELSE <<>>
    <3>1. Selected(Append(<<>>, x), T) = IF x \in T THEN Append(<<>>, x) ELSE <<>>
      <4> DEFINE e == <<>>
      <4>1. e \in Seq(S) /\ Selected(e, T) = e
        BY SelectedEmpty
      <4> HIDE DEF e, one, v, b, I
      <4>2. Selected(Append(e, x), T) = IF x \in T THEN Append(Selected(e, T), x) ELSE Selected(e, T)
        BY <4>1, SelectedAppend
      <4> QED BY <4>1, <4>2 DEF e
    <3>2. Append(<<>>, x) = one
      OBVIOUS
    <3> HIDE DEF one
    <3> QED BY <3>1, <3>2
  <2>4. Selected(Append(w, x), T) = IF x \in T THEN Append(v, x) ELSE v
    BY SelectedAppend
  <2>5. Backwards(Append(v, x)) = one \o Backwards(v)
    <3> HIDE DEF v
    <3> QED BY <2>1, BackwardsAppend
  <2>6. Append(w, x) \in Seq(S)
    BY AppendProperties
  <2> HIDE DEF one, v, b, I
  <2>7. Selected(one \o b, T) = Selected(one, T) \o Selected(b, T)
    <3>1. one \in Seq(S)
      BY <2>1
    <3>2. b \in Seq(S)
      BY <2>1
    <3> QED BY <3>1, <3>2, SelectedConcat
  <2>8. Backwards(v) \in Seq(S)
    BY <2>1, BackwardsType
  <2>9. <<>> \o Backwards(v) = Backwards(v)
    BY <2>8, ConcatEmptySeq
  <2> QED BY <2>1, <2>2, <2>3, <2>4, <2>5, <2>6, <2>7, <2>9 DEF I, v
<1> HIDE DEF I
<1>3. s \in I
  BY <1>1, <1>2, SequenceInduction
<1> QED BY <1>3 DEF I

-----------------------------------------------------------------------------
\* Where in a sequence stands what was selected from it.
Placed(s, T, p) ==
  LET r == Selected(s, T)
  IN  /\ p \in [1..Len(r) -> 1..Len(s)]
      /\ \A i \in 1..Len(r) : r[i] = s[p[i]] /\ s[p[i]] \in T
      /\ \A i, j \in 1..Len(r) : i < j => p[i] < p[j]
      /\ \A k \in 1..Len(s) : s[k] \in T => \E i \in 1..Len(r) : p[i] = k

LEMMA PlacesExist ==
  ASSUME NEW S, NEW T, NEW s \in Seq(S)
  PROVE  \E p : Placed(s, T, p)
<1> DEFINE I == {w \in Seq(S) : \E p : Placed(w, T, p)}
<1>1. <<>> \in I
  <2> DEFINE p == <<>>
  <2>1. Selected(<<>>, T) = <<>>
    BY SelectedEmpty
  <2>2. Placed(<<>>, T, p)
    BY <2>1 DEF Placed
  <2> HIDE DEF p
  <2> QED BY <2>2
<1>2. ASSUME NEW w \in Seq(S), NEW x \in S, w \in I PROVE Append(w, x) \in I
  <2>1. PICK p : Placed(w, T, p)
    BY <1>2
  <2> DEFINE a == Append(w, x)
             r == Selected(w, T)
             t == Selected(a, T)
             n == Len(w)
             m == Len(r)
             q == IF x \in T THEN [i \in 1..(m + 1) |-> IF i = m + 1 THEN n + 1 ELSE p[i]] ELSE p
  <2>2. /\ a \in Seq(S) /\ Len(a) = n + 1 /\ n \in Nat /\ a[n + 1] = x
        /\ \A i \in 1..n : a[i] = w[i]
    BY AppendProperties, LenProperties
  <2>3. r \in Seq(S) /\ m \in Nat
    BY SelectedType, LenProperties
  <2>4. t = IF x \in T THEN Append(r, x) ELSE r
    BY SelectedAppend
  <2>5. Len(Append(r, x)) = m + 1 /\ Append(r, x)[m + 1] = x
        /\ \A i \in 1..m : Append(r, x)[i] = r[i]
    <3> HIDE DEF r
    <3> QED BY <2>3, AppendProperties DEF m
  <2>6. /\ p \in [1..m -> 1..n]
        /\ \A i \in 1..m : r[i] = w[p[i]] /\ w[p[i]] \in T
        /\ \A i, j \in 1..m : i < j => p[i] < p[j]
        /\ \A k \in 1..n : w[k] \in T => \E i \in 1..m : p[i] = k
    BY <2>1 DEF Placed
  <2> HIDE DEF a, r, t, n, m
  <2>7. Placed(a, T, q)
    <3>1. CASE x \in T
      <4>1. Len(t) = m + 1 /\ t[m + 1] = x /\ \A i \in 1..m : t[i] = r[i]
        BY <2>4, <2>5, <3>1
      <4>2. q = [i \in 1..(m + 1) |-> IF i = m + 1 THEN n + 1 ELSE p[i]]
        BY <3>1
      <4> HIDE DEF q
      <4>3. q[m + 1] = n + 1 /\ \A i \in 1..m : q[i] = p[i] /\ p[i] \in 1..n
        BY <2>3, <2>6, <4>2
      <4>4. q \in [1..(m + 1) -> 1..(n + 1)]
        BY <2>2, <2>3, <2>6, <4>2
      <4>5. ASSUME NEW i \in 1..(m + 1) PROVE t[i] = a[q[i]] /\ a[q[i]] \in T
        <5>1. i \in 1..m \/ i = m + 1
          BY <2>3
        <5>2. CASE i \in 1..m
          BY <2>2, <2>6, <4>1, <4>3, <5>2
        <5>3. CASE i = m + 1
          BY <2>2, <3>1, <4>1, <4>3, <5>3
        <5> QED BY <5>1, <5>2, <5>3
      <4>6. ASSUME NEW i \in 1..(m + 1), NEW j \in 1..(m + 1), i < j PROVE q[i] < q[j]
        <5>1. i \in 1..m /\ (j \in 1..m \/ j = m + 1)
          BY <2>3, <4>6
        <5>2. CASE j \in 1..m
          BY <2>6, <4>3, <4>6, <5>1, <5>2
        <5>3. CASE j = m + 1
          BY <2>2, <4>3, <5>1, <5>3
        <5> QED BY <5>1, <5>2, <5>3
      <4>7. ASSUME NEW k \in 1..(n + 1), a[k] \in T PROVE \E i \in 1..(m + 1) : q[i] = k
        <5>1. k \in 1..n \/ k = n + 1
          BY <2>2
        <5>2. CASE k \in 1..n
          <6>1. PICK i \in 1..m : p[i] = k
            BY <2>2, <2>6, <4>7, <5>2
          <6>2. i \in 1..(m + 1)
            BY <2>3
          <6> QED BY <4>3, <6>1, <6>2
        <5>3. CASE k = n + 1
          <6>1. m + 1 \in 1..(m + 1)
            BY <2>3
          <6> QED BY <4>3, <5>3, <6>1
        <5> QED BY <5>1, <5>2, <5>3
      <4>8. Len(t) = m + 1 /\ Len(a) = n + 1
        BY <2>2, <4>1
      <4> QED BY <4>4, <4>5, <4>6, <4>7, <4>8 DEF Placed, t
    <3>2. CASE x \notin T
      <4>1. t = r /\ Len(t) = m /\ q = p
        BY <2>4, <3>2 DEF m
      <4> HIDE DEF q
      <4>2. q \in [1..m -> 1..(n + 1)]
        BY <2>2, <2>6, <4>1
      <4>3. ASSUME NEW i \in 1..m PROVE t[i] = a[q[i]] /\ a[q[i]] \in T
        <5>1. p[i] \in 1..n
          BY <2>6
        <5> QED BY <2>2, <2>6, <4>1, <5>1
      <4>4. ASSUME NEW k \in 1..(n + 1), a[k] \in T PROVE \E i \in 1..m : q[i] = k
        <5>1. k \in 1..n
          BY <2>2, <3>2, <4>4
        <5> QED BY <2>2, <2>6, <4>1, <4>4, <5>1
      <4>5. Len(a) = n + 1
        BY <2>2
      <4> QED BY <2>6, <4>1, <4>2, <4>3, <4>4, <4>5 DEF Placed, t
    <3> QED BY <3>1, <3>2
  <2> HIDE DEF q
  <2> QED BY <2>2, <2>7 DEF a
<1> HIDE DEF I
<1>3. s \in I
  BY <1>1, <1>2, SequenceInduction
<1> QED BY <1>3 DEF I
=============================================================================
