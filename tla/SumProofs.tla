----------------------------- MODULE SumProofs -----------------------------
(***************************************************************************)
(* What SumOver computes, for every finite set: the sums of can_load, of   *)
(* the GPU's accounts, of select's denominator and of an evaluation's      *)
(* means.  Induction over finite sets is by a smallest counterexample, as  *)
(* the strict subset ordering is well founded.                             *)
(***************************************************************************)
EXTENDS Sums, FiniteSetTheorems, WellFoundedInduction, TLAPS

\* A set Good of sets that contains each subset T of the finite S whose subsets
\* with one element less it contains, contains S.
LEMMA SubsetInduction ==
  ASSUME NEW S, IsFiniteSet(S), NEW Good,
         \A T \in SUBSET S : (\A x \in T : T \ {x} \in Good) => T \in Good
  PROVE  S \in Good
<1>. DEFINE Bad == {T \in SUBSET S : T \notin Good}
<1>. SUFFICES ASSUME Bad # {} PROVE FALSE
  OBVIOUS
<1>1. IsWellFoundedOn(StrictSubsetOrdering(S), FiniteSubsetsOf(S))
  BY FS_StrictSubsetOrderingWellFounded
<1>2. Bad \subseteq FiniteSubsetsOf(S)
  BY FS_FiniteSubsetsOfFinite
<1>3. PICK T \in Bad : \A U \in Bad : ~ (<<U, T>> \in StrictSubsetOrdering(S))
  <2>. HIDE DEF Bad
  <2>. QED
    BY <1>1, <1>2, WFMin
<1>4. ASSUME NEW x \in T
      PROVE  T \ {x} \in Good
  <2>1. T \ {x} \in SUBSET S /\ T \ {x} \subseteq T /\ T \ {x} # T
    OBVIOUS
  <2>2. <<T \ {x}, T>> \in StrictSubsetOrdering(S)
    BY <2>1 DEF StrictSubsetOrdering
  <2>. QED
    BY <1>3, <2>1, <2>2
<1>. QED
  BY <1>4
-----------------------------------------------------------------------------
(***************************************************************************)
(* The community modules define a sum with a recursive function on the     *)
(* subsets of S, which is a CHOOSE until one such function is known.       *)
(***************************************************************************)
Pick(s) == CHOOSE x \in s : TRUE
Step(f, s, g) == IF s = {} THEN 0 ELSE f[Pick(s)] + g[s \ {Pick(s)}]
IsPartial(f, S, g) == g = [s \in SUBSET S |-> Step(f, s, g)]
Partial(f, S) == CHOOSE g : IsPartial(f, S, g)

LEMMA SumIsPartial ==
  ASSUME NEW f, NEW S
  PROVE  SumOver(f, S) = Partial(f, S)[S]
BY DEF SumOver, MapThenSumSet, MapThenFoldSet, Partial, IsPartial, Step, Pick

LEMMA PartialsAgree ==
  ASSUME NEW f, NEW S, NEW T \in SUBSET S, IsFiniteSet(T),
         \E g : IsPartial(f, S, g), \E h : IsPartial(f, T, h)
  PROVE  Partial(f, S)[T] = Partial(f, T)[T]
<1>. DEFINE g == Partial(f, S)
            h == Partial(f, T)
            Good == {U \in SUBSET T : g[U] = h[U]}
<1>0. IsPartial(f, S, g) /\ IsPartial(f, T, h)
  BY DEF Partial
<1>. HIDE DEF g, h
<1>1. ASSUME NEW U \in SUBSET T, \A x \in U : U \ {x} \in Good
      PROVE  U \in Good
  <2>1. g[U] = Step(f, U, g) /\ h[U] = Step(f, U, h)
    BY <1>0 DEF IsPartial
  <2>2. CASE U = {}
    BY <2>1, <2>2 DEF Step
  <2>3. CASE U # {}
    <3>1. Pick(U) \in U
      BY <2>3 DEF Pick
    <3>2. g[U \ {Pick(U)}] = h[U \ {Pick(U)}]
      BY <1>1, <3>1
    <3>. QED
      BY <2>1, <2>3, <3>2 DEF Step
  <2>. QED
    BY <2>2, <2>3
<1>. HIDE DEF Good
<1>2. T \in Good
  BY <1>1, SubsetInduction
<1>. QED
  BY <1>2 DEF Good, g, h

LEMMA SumUnfolds ==
  ASSUME NEW f, NEW S, IsFiniteSet(S),
         \E g : IsPartial(f, S, g), \E h : IsPartial(f, S \ {Pick(S)}, h)
  PROVE  SumOver(f, S) = IF S = {} THEN 0 ELSE f[Pick(S)] + SumOver(f, S \ {Pick(S)})
<1>. DEFINE R == S \ {Pick(S)}
<1>1. IsPartial(f, S, Partial(f, S))
  BY DEF Partial
<1>2. Partial(f, S)[S] = Step(f, S, Partial(f, S))
  BY <1>1 DEF IsPartial
<1>3. R \in SUBSET S /\ IsFiniteSet(R)
  BY FS_Subset
<1>4. Partial(f, S)[R] = Partial(f, R)[R]
  BY <1>3, PartialsAgree
<1>. QED
  BY <1>2, <1>4, SumIsPartial DEF Step

LEMMA PartialsExist ==
  ASSUME NEW f, NEW S, IsFiniteSet(S)
  PROVE  \A T \in SUBSET S : \E g : IsPartial(f, T, g)
<1>. DEFINE Good == {T \in SUBSET S : \A U \in SUBSET T : \E g : IsPartial(f, U, g)}
<1>1. ASSUME NEW T \in SUBSET S, \A x \in T : T \ {x} \in Good
      PROVE  T \in Good
  <2>1. ASSUME NEW U \in SUBSET T, U # T
        PROVE  \E g : IsPartial(f, U, g)
    <3>1. PICK x \in T : x \notin U
      BY <2>1
    <3>2. U \in SUBSET (T \ {x})
      BY <3>1
    <3>. QED
      BY <1>1, <3>2
  <2>. DEFINE h == [s \in SUBSET T |->
                      IF s = {} THEN 0 ELSE f[Pick(s)] + SumOver(f, s \ {Pick(s)})]
  <2>2. ASSUME NEW s \in SUBSET T
        PROVE  h[s] = Step(f, s, h)
    <3>1. CASE s = {}
      BY <3>1 DEF Step
    <3>2. CASE s # {}
      <4>. DEFINE R == s \ {Pick(s)}
      <4>1. Pick(s) \in s
        BY <3>2 DEF Pick
      <4>2. R \in SUBSET T /\ R # T /\ R \ {Pick(R)} \in SUBSET T /\ R \ {Pick(R)} # T
        BY <4>1
      <4>3. IsFiniteSet(R)
        BY <4>2, FS_Subset
      <4>4. (\E g : IsPartial(f, R, g)) /\ (\E g : IsPartial(f, R \ {Pick(R)}, g))
        BY <2>1, <4>2
      <4>5. SumOver(f, R) = h[R]
        <5>. HIDE DEF R
        <5>. QED
          BY <4>2, <4>3, <4>4, SumUnfolds
      <4>. QED
        BY <3>2, <4>5 DEF Step
    <3>. QED
      BY <3>1, <3>2
  <2>3. IsPartial(f, T, h)
    BY <2>2 DEF IsPartial
  <2>. QED
    BY <2>1, <2>3
<1>. HIDE DEF Good
<1>2. S \in Good
  BY <1>1, SubsetInduction
<1>. QED
  BY <1>2 DEF Good
-----------------------------------------------------------------------------
\* A sum is what taking one element after the other adds up to.
LEMMA SumStep ==
  ASSUME NEW f, NEW S, IsFiniteSet(S)
  PROVE  SumOver(f, S) = IF S = {} THEN 0 ELSE f[Pick(S)] + SumOver(f, S \ {Pick(S)})
<1>1. S \in SUBSET S /\ S \ {Pick(S)} \in SUBSET S
  OBVIOUS
<1>2. (\E g : IsPartial(f, S, g)) /\ (\E g : IsPartial(f, S \ {Pick(S)}, g))
  BY <1>1, PartialsExist
<1>. QED
  BY <1>2, SumUnfolds

LEMMA SumEmpty == ASSUME NEW f PROVE SumOver(f, {}) = 0
BY SumStep, FS_EmptySet

\* A sum of integers is one.
LEMMA SumInt ==
  ASSUME NEW S, IsFiniteSet(S), NEW f, \A x \in S : f[x] \in Int
  PROVE  SumOver(f, S) \in Int
<1>. DEFINE Good == {T \in SUBSET S : SumOver(f, T) \in Int}
<1>1. ASSUME NEW T \in SUBSET S, \A x \in T : T \ {x} \in Good
      PROVE  T \in Good
  <2>1. IsFiniteSet(T)
    BY FS_Subset
  <2>2. CASE T = {}
    BY <2>2, SumEmpty
  <2>3. CASE T # {}
    <3>1. Pick(T) \in T
      BY <2>3 DEF Pick
    <3>2. SumOver(f, T) = f[Pick(T)] + SumOver(f, T \ {Pick(T)})
      BY <2>1, <2>3, SumStep
    <3>3. f[Pick(T)] \in Int /\ SumOver(f, T \ {Pick(T)}) \in Int
      BY <1>1, <3>1
    <3>. QED
      BY <3>2, <3>3
  <2>. QED
    BY <2>2, <2>3
<1>. HIDE DEF Good
<1>2. S \in Good
  BY <1>1, SubsetInduction
<1>. QED
  BY <1>2 DEF Good

\* Any element may be taken out, whichever one the definition chooses.
LEMMA SumRemove ==
  ASSUME NEW S, IsFiniteSet(S), NEW f, \A y \in S : f[y] \in Int, NEW x \in S
  PROVE  SumOver(f, S) = f[x] + SumOver(f, S \ {x})
<1>. DEFINE Good == {T \in SUBSET S :
                       \A y \in T : SumOver(f, T) = f[y] + SumOver(f, T \ {y})}
<1>1. ASSUME NEW T \in SUBSET S, \A y \in T : T \ {y} \in Good
      PROVE  T \in Good
  <2>. SUFFICES ASSUME NEW y \in T
                PROVE  SumOver(f, T) = f[y] + SumOver(f, T \ {y})
    OBVIOUS
  <2>. DEFINE c == Pick(T)
  <2>1. c \in T
    BY DEF Pick
  <2>2. IsFiniteSet(T)
    BY FS_Subset
  <2>3. SumOver(f, T) = f[c] + SumOver(f, T \ {c})
    BY <2>2, SumStep
  <2>4. CASE y = c
    BY <2>3, <2>4
  <2>5. CASE y # c
    <3>1. T \ {c} \in Good /\ T \ {y} \in Good
      BY <1>1, <2>1
    <3>2. SumOver(f, T \ {c}) = f[y] + SumOver(f, (T \ {c}) \ {y})
      BY <2>5, <3>1
    <3>3. SumOver(f, T \ {y}) = f[c] + SumOver(f, (T \ {y}) \ {c})
      BY <2>1, <2>5, <3>1
    <3>4. (T \ {y}) \ {c} = (T \ {c}) \ {y}
      OBVIOUS
    <3>5. IsFiniteSet((T \ {c}) \ {y})
      BY <2>2, FS_Subset
    <3>6. f[y] \in Int /\ f[c] \in Int /\ SumOver(f, (T \ {c}) \ {y}) \in Int
      BY <2>1, <3>5, SumInt
    <3>7. \A a, b, r \in Int : a + (b + r) = b + (a + r)
      OBVIOUS
    <3>8. f[c] + (f[y] + SumOver(f, (T \ {c}) \ {y}))
            = f[y] + (f[c] + SumOver(f, (T \ {c}) \ {y}))
      BY <3>6, <3>7
    <3>. QED
      BY <2>3, <3>2, <3>3, <3>4, <3>8, Zenon
  <2>. QED
    BY <2>4, <2>5
<1>. HIDE DEF Good
<1>2. S \in Good
  BY <1>1, SubsetInduction
<1>. QED
  BY <1>2 DEF Good
-----------------------------------------------------------------------------
\* A sum depends on nothing but the terms.
LEMMA SumEqual ==
  ASSUME NEW S, IsFiniteSet(S), NEW f, NEW g, \A x \in S : f[x] = g[x]
  PROVE  SumOver(f, S) = SumOver(g, S)
<1>. DEFINE Good == {T \in SUBSET S : SumOver(f, T) = SumOver(g, T)}
<1>1. ASSUME NEW T \in SUBSET S, \A x \in T : T \ {x} \in Good
      PROVE  T \in Good
  <2>1. IsFiniteSet(T)
    BY FS_Subset
  <2>2. CASE T = {}
    BY <2>2, SumEmpty
  <2>3. CASE T # {}
    <3>1. Pick(T) \in T
      BY <2>3 DEF Pick
    <3>2. /\ SumOver(f, T) = f[Pick(T)] + SumOver(f, T \ {Pick(T)})
          /\ SumOver(g, T) = g[Pick(T)] + SumOver(g, T \ {Pick(T)})
      BY <2>1, <2>3, SumStep
    <3>. QED
      BY <1>1, <3>1, <3>2
  <2>. QED
    BY <2>2, <2>3
<1>. HIDE DEF Good
<1>2. S \in Good
  BY <1>1, SubsetInduction
<1>. QED
  BY <1>2 DEF Good

\* Larger terms, larger sum.
LEMMA SumMonotonic ==
  ASSUME NEW S, IsFiniteSet(S), NEW f, NEW g,
         \A x \in S : f[x] \in Int /\ g[x] \in Int /\ f[x] <= g[x]
  PROVE  SumOver(f, S) <= SumOver(g, S)
<1>. DEFINE Good == {T \in SUBSET S : SumOver(f, T) <= SumOver(g, T)}
<1>1. ASSUME NEW T \in SUBSET S, \A x \in T : T \ {x} \in Good
      PROVE  T \in Good
  <2>1. IsFiniteSet(T)
    BY FS_Subset
  <2>2. CASE T = {}
    <3>1. SumOver(f, T) = 0 /\ SumOver(g, T) = 0
      BY <2>2, SumEmpty
    <3>. QED
      BY <3>1
  <2>3. CASE T # {}
    <3>. DEFINE c == Pick(T)
                R == T \ {c}
    <3>1. c \in T
      BY <2>3 DEF Pick
    <3>2. SumOver(f, T) = f[c] + SumOver(f, R) /\ SumOver(g, T) = g[c] + SumOver(g, R)
      BY <2>1, <2>3, SumStep
    <3>3. IsFiniteSet(R) /\ R \in SUBSET S
      BY <2>1, FS_Subset
    <3>4. SumOver(f, R) \in Int /\ SumOver(g, R) \in Int
      <4>1. (\A x \in R : f[x] \in Int) /\ (\A x \in R : g[x] \in Int)
        BY <3>3
      <4>. HIDE DEF R
      <4>. QED
        BY <3>3, <4>1, SumInt
    <3>5. SumOver(f, R) <= SumOver(g, R)
      BY <1>1, <3>1
    <3>6. f[c] \in Int /\ g[c] \in Int /\ f[c] <= g[c]
      BY <3>1
    <3>7. \A a, b, p, q \in Int : a <= b /\ p <= q => a + p <= b + q
      OBVIOUS
    <3>8. SumOver(f, T) <= SumOver(g, T)
      <4>. HIDE DEF c, R, Good
      <4>. QED
        BY <3>2, <3>4, <3>5, <3>6, <3>7
    <3>. QED
      BY <3>8
  <2>. QED
    BY <2>2, <2>3
<1>. HIDE DEF Good
<1>2. S \in Good
  BY <1>1, SubsetInduction
<1>. QED
  BY <1>2 DEF Good

LEMMA SumZero ==
  ASSUME NEW S, IsFiniteSet(S), NEW f, \A x \in S : f[x] = 0
  PROVE  SumOver(f, S) = 0
<1>. DEFINE Good == {T \in SUBSET S : SumOver(f, T) = 0}
<1>1. ASSUME NEW T \in SUBSET S, \A x \in T : T \ {x} \in Good
      PROVE  T \in Good
  <2>1. IsFiniteSet(T)
    BY FS_Subset
  <2>2. CASE T = {}
    BY <2>2, SumEmpty
  <2>3. CASE T # {}
    <3>1. Pick(T) \in T
      BY <2>3 DEF Pick
    <3>2. SumOver(f, T) = f[Pick(T)] + SumOver(f, T \ {Pick(T)})
      BY <2>1, <2>3, SumStep
    <3>. QED
      BY <1>1, <3>1, <3>2
  <2>. QED
    BY <2>2, <2>3
<1>. HIDE DEF Good
<1>2. S \in Good
  BY <1>1, SubsetInduction
<1>. QED
  BY <1>2 DEF Good

\* A sum of natural numbers is one.
LEMMA SumNat ==
  ASSUME NEW S, IsFiniteSet(S), NEW f, \A x \in S : f[x] \in Nat
  PROVE  SumOver(f, S) \in Nat
<1>. DEFINE zero == [x \in S |-> 0]
<1>1. SumOver(zero, S) = 0
  <2>1. \A x \in S : zero[x] = 0
    OBVIOUS
  <2>. HIDE DEF zero
  <2>. QED
    BY <2>1, SumZero
<1>2. SumOver(zero, S) <= SumOver(f, S)
  <2>1. \A x \in S : zero[x] \in Int /\ f[x] \in Int /\ zero[x] <= f[x]
    OBVIOUS
  <2>. HIDE DEF zero
  <2>. QED
    BY <2>1, SumMonotonic
<1>3. SumOver(f, S) \in Int
  BY SumInt
<1>. HIDE DEF zero
<1>. QED
  BY <1>1, <1>2, <1>3

\* One more element.
LEMMA SumAdd ==
  ASSUME NEW S, IsFiniteSet(S), NEW x, x \notin S, NEW f, \A y \in S \cup {x} : f[y] \in Int
  PROVE  SumOver(f, S \cup {x}) = f[x] + SumOver(f, S)
<1>. DEFINE A == S \cup {x}
<1>1. IsFiniteSet(A)
  BY FS_AddElement
<1>2. x \in A /\ A \ {x} = S
  OBVIOUS
<1>3. \A y \in A : f[y] \in Int
  OBVIOUS
<1>. HIDE DEF A
<1>4. SumOver(f, A) = f[x] + SumOver(f, A \ {x})
  BY <1>1, <1>2, <1>3, SumRemove
<1>. QED
  BY <1>2, <1>4 DEF A

LEMMA SumSingle ==
  ASSUME NEW x, NEW f, f[x] \in Int
  PROVE  SumOver(f, {x}) = f[x]
<1>1. SumOver(f, {} \cup {x}) = f[x] + SumOver(f, {})
  <2>1. IsFiniteSet({}) /\ x \notin {} /\ \A y \in {} \cup {x} : f[y] \in Int
    BY FS_EmptySet
  <2>. QED
    BY <2>1, SumAdd
<1>2. {} \cup {x} = {x}
  OBVIOUS
<1>. QED
  BY <1>1, <1>2, SumEmpty

\* Where one term changes, so does the sum, by as much.
LEMMA SumUpdate ==
  ASSUME NEW S, IsFiniteSet(S), NEW x \in S, NEW f, NEW g,
         \A y \in S : f[y] \in Int /\ g[y] \in Int,
         \A y \in S \ {x} : f[y] = g[y]
  PROVE  SumOver(g, S) = SumOver(f, S) - f[x] + g[x]
<1>. DEFINE R == S \ {x}
<1>1. (\A y \in S : f[y] \in Int) /\ (\A y \in S : g[y] \in Int)
  OBVIOUS
<1>2. SumOver(f, S) = f[x] + SumOver(f, R) /\ SumOver(g, S) = g[x] + SumOver(g, R)
  BY <1>1, SumRemove
<1>3. IsFiniteSet(R) /\ (\A y \in R : f[y] = g[y]) /\ (\A y \in R : f[y] \in Int)
  BY FS_Subset
<1>. HIDE DEF R
<1>4. SumOver(f, R) = SumOver(g, R) /\ SumOver(f, R) \in Int
  BY <1>3, SumEqual, SumInt
<1>5. \A a, b, r, s, t \in Int : s = a + r /\ t = b + r => t = s - a + b
  OBVIOUS
<1>6. SumOver(f, S) \in Int /\ SumOver(g, S) \in Int /\ f[x] \in Int /\ g[x] \in Int
  BY <1>1, SumInt
<1>. QED
  BY <1>2, <1>4, <1>5, <1>6

\* Fewer natural numbers, smaller sum.
LEMMA SumSubset ==
  ASSUME NEW S, IsFiniteSet(S), NEW T \in SUBSET S, NEW f, \A x \in S : f[x] \in Nat
  PROVE  SumOver(f, T) <= SumOver(f, S)
<1>. DEFINE Good == {U \in SUBSET S : SumOver(f, U \cap T) <= SumOver(f, U)}
<1>1. ASSUME NEW U \in SUBSET S, \A x \in U : U \ {x} \in Good
      PROVE  U \in Good
  <2>1. IsFiniteSet(U) /\ IsFiniteSet(U \cap T)
    BY FS_Subset
  <2>2. CASE U = {}
    <3>1. U \cap T = {} /\ SumOver(f, {}) = 0
      BY <2>2, SumEmpty
    <3>. QED
      BY <2>2, <3>1
  <2>3. CASE U # {}
    <3>1. PICK c \in U : TRUE
      BY <2>3
    <3>2. SumOver(f, (U \ {c}) \cap T) <= SumOver(f, U \ {c})
      BY <1>1, <3>1
    <3>3. SumOver(f, U) = f[c] + SumOver(f, U \ {c})
      <4>1. \A x \in U : f[x] \in Int
        OBVIOUS
      <4>. QED
        BY <2>1, <4>1, SumRemove
    <3>4. IsFiniteSet(U \ {c}) /\ IsFiniteSet((U \ {c}) \cap T)
      BY <2>1, FS_Subset
    <3>5. /\ SumOver(f, U \ {c}) \in Nat
          /\ SumOver(f, (U \ {c}) \cap T) \in Nat
          /\ f[c] \in Nat
      BY <3>4, SumNat
    <3>6. \A a, p, q \in Nat : p <= q => p <= a + q /\ a + p <= a + q
      OBVIOUS
    <3>7. CASE c \in T
      <4>1. SumOver(f, U \cap T) = f[c] + SumOver(f, (U \cap T) \ {c})
        <5>1. c \in U \cap T /\ \A x \in U \cap T : f[x] \in Int
          BY <3>7
        <5>. QED
          BY <2>1, <5>1, SumRemove
      <4>2. (U \cap T) \ {c} = (U \ {c}) \cap T
        OBVIOUS
      <4>3. SumOver(f, U \cap T) <= SumOver(f, U)
        BY <3>2, <3>3, <3>5, <3>6, <4>1, <4>2
      <4>. QED
        BY <4>3
    <3>8. CASE c \notin T
      <4>1. U \cap T = (U \ {c}) \cap T
        BY <3>8
      <4>2. SumOver(f, U \cap T) <= SumOver(f, U)
        BY <3>2, <3>3, <3>5, <3>6, <4>1
      <4>. QED
        BY <4>2
    <3>. QED
      BY <3>7, <3>8
  <2>. QED
    BY <2>2, <2>3
<1>. HIDE DEF Good
<1>2. S \in Good
  BY <1>1, SubsetInduction
<1>3. S \cap T = T
  OBVIOUS
<1>. QED
  BY <1>2, <1>3 DEF Good

\* No two terms of natural numbers exceed the sum.
LEMMA SumPair ==
  ASSUME NEW S, IsFiniteSet(S), NEW f, \A z \in S : f[z] \in Nat,
         NEW x \in S, NEW y \in S, x # y
  PROVE  f[x] + f[y] <= SumOver(f, S)
<1>. DEFINE R == S \ {x}
            Q == R \ {y}
<1>1. (\A z \in S : f[z] \in Int) /\ (\A z \in R : f[z] \in Int) /\ (\A z \in Q : f[z] \in Nat)
  OBVIOUS
<1>2. IsFiniteSet(R) /\ IsFiniteSet(Q) /\ y \in R
  BY FS_Subset
<1>3. SumOver(f, S) = f[x] + SumOver(f, R)
  BY <1>1, SumRemove
<1>4. SumOver(f, R) = f[y] + SumOver(f, Q)
  <2>. HIDE DEF R
  <2>. QED
    BY <1>1, <1>2, SumRemove
<1>5. SumOver(f, Q) \in Nat
  <2>. HIDE DEF Q
  <2>. QED
    BY <1>1, <1>2, SumNat
<1>6. f[x] \in Nat /\ f[y] \in Nat
  OBVIOUS
<1>7. \A a, b, q \in Nat : a + b <= a + (b + q)
  OBVIOUS
<1>. HIDE DEF R, Q
<1>. QED
  BY <1>3, <1>4, <1>5, <1>6, <1>7

\* A sum of at most c for each of its terms.
LEMMA SumBound ==
  ASSUME NEW S, IsFiniteSet(S), NEW c \in Nat, NEW f, \A x \in S : f[x] \in 0..c
  PROVE  SumOver(f, S) \in 0 .. c * Cardinality(S)
<1>. DEFINE Good == {T \in SUBSET S : SumOver(f, T) <= c * Cardinality(T)}
<1>1. ASSUME NEW T \in SUBSET S, \A x \in T : T \ {x} \in Good
      PROVE  T \in Good
  <2>1. IsFiniteSet(T)
    BY FS_Subset
  <2>2. CASE T = {}
    <3>1. SumOver(f, {}) = 0 /\ Cardinality({}) = 0
      BY SumEmpty, FS_EmptySet
    <3>. QED
      BY <2>2, <3>1
  <2>3. CASE T # {}
    <3>1. PICK d \in T : TRUE
      BY <2>3
    <3>2. SumOver(f, T \ {d}) <= c * Cardinality(T \ {d})
      BY <1>1, <3>1
    <3>3. SumOver(f, T) = f[d] + SumOver(f, T \ {d})
      <4>1. \A x \in T : f[x] \in Int
        OBVIOUS
      <4>. QED
        BY <2>1, <4>1, SumRemove
    <3>4. IsFiniteSet(T \ {d}) /\ Cardinality(T \ {d}) = Cardinality(T) - 1
      BY <2>1, FS_RemoveElement
    <3>5. Cardinality(T) \in Nat /\ SumOver(f, T \ {d}) \in Int /\ f[d] \in 0..c
      BY <2>1, <3>4, FS_CardinalityType, SumInt
    <3>6. c * Cardinality(T) = c * (Cardinality(T) - 1) + c
      BY <3>5
    <3>7. SumOver(f, T) <= c * Cardinality(T)
      <4>1. c * (Cardinality(T) - 1) \in Int
        BY <3>5
      <4>2. \A a, b, p \in Int : a <= c /\ b <= p => a + b <= p + c
        OBVIOUS
      <4>. QED
        BY <3>2, <3>3, <3>4, <3>5, <3>6, <4>1, <4>2
    <3>. QED
      BY <3>7
  <2>. QED
    BY <2>2, <2>3
<1>. HIDE DEF Good
<1>2. S \in Good
  BY <1>1, SubsetInduction
<1>3. SumOver(f, S) \in Nat
  BY SumNat
<1>4. Cardinality(S) \in Nat
  BY FS_CardinalityType
<1>5. c * Cardinality(S) \in Nat
  BY <1>4
<1>. QED
  BY <1>2, <1>3, <1>5 DEF Good
=============================================================================
