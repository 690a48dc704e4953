----------------------------- MODULE FiniteSums -----------------------------
(***************************************************************************)
(* Facts about finite sets that the proofs of the components share: a set  *)
(* of naturals has a least member, a finite one a greatest; what           *)
(* MapThenSumSet computes; induction over the subsets of a finite set, for *)
(* a property given as a set of sets.                                      *)
(***************************************************************************)
EXTENDS FiniteSetsExt, FiniteSetTheorems, WellFoundedInduction, TLAPS

\* A property that every subset has whose own strict subsets all have it is
\* one of all subsets.
LEMMA SubsetInduction ==
  ASSUME NEW S, IsFiniteSet(S), NEW P,
         \A T \in SUBSET S : (\A U \in SUBSET T : U # T => U \in P) => T \in P
  PROVE  \A T \in SUBSET S : T \in P
<1> SUFFICES ASSUME (SUBSET S) \ P # {} PROVE FALSE
  OBVIOUS
<1> DEFINE Less == StrictSubsetOrdering(S)
           Failing == (SUBSET S) \ P
<1>1. IsWellFoundedOn(Less, SUBSET S)
  <2>1. FiniteSubsetsOf(S) = SUBSET S
    BY FS_FiniteSubsetsOfFinite
  <2>2. IsWellFoundedOn(Less, FiniteSubsetsOf(S))
    BY FS_StrictSubsetOrderingWellFounded, Zenon
  <2> QED
    BY <2>1, <2>2, Zenon
<1>2. \A T \in SUBSET S : \A U \in SUBSET T : U # T => <<U, T>> \in Less
  BY DEF StrictSubsetOrdering
<1>3. Failing \subseteq SUBSET S /\ Failing # {}
  OBVIOUS
<1> HIDE DEF Less, Failing
<1>4. PICK T \in Failing : \A U \in Failing : ~ (<<U, T>> \in Less)
  BY <1>1, <1>3, WFMin
<1>5. \A U \in SUBSET T : U # T => U \in P
  <2> SUFFICES ASSUME NEW U \in SUBSET T, U # T, U \notin P PROVE FALSE
    OBVIOUS
  <2>1. T \in SUBSET S /\ U \in SUBSET S
    BY DEF Failing
  <2>2. U \in Failing
    BY <2>1 DEF Failing
  <2> QED
    BY <1>2, <1>4, <2>1, <2>2, Zenon
<1> QED
  BY <1>4, <1>5 DEF Failing

-----------------------------------------------------------------------------
(* The least and the greatest of a set of numbers *)

\* A set of naturals that is not empty has a least member.
LEMMA HasLeast ==
  ASSUME NEW S \in SUBSET Nat, S # {}
  PROVE  \E n \in S : \A m \in S : n <= m
<1> DEFINE Less == {pair \in Nat \X Nat : pair[1] < pair[2]}
<1>1. IsWellFoundedOn(Less, Nat)
  BY NatLessThanWellFounded DEF OpToRel
<1>2. \A m, n \in Nat : m < n => <<m, n>> \in Less
  OBVIOUS
<1> HIDE DEF Less
<1>3. PICK n \in S : \A m \in S : ~ (<<m, n>> \in Less)
  BY <1>1, WFMin
<1>4. \A m \in S : n <= m
  <2> SUFFICES ASSUME NEW m \in S PROVE n <= m
    OBVIOUS
  <2>1. m \in Nat /\ n \in Nat
    OBVIOUS
  <2>2. ~ (m < n)
    BY <1>2, <1>3, <2>1, Zenon
  <2> QED
    BY <2>1, <2>2
<1> QED
  BY <1>4

\* One with an upper bound has a greatest member too.
LEMMA HasGreatest ==
  ASSUME NEW S \in SUBSET Nat, S # {}, NEW bound \in Nat, \A n \in S : n <= bound
  PROVE  \E n \in S : \A m \in S : m <= n
<1> DEFINE Distance == {bound - n : n \in S}
<1>1. Distance \in SUBSET Nat /\ Distance # {}
  <2>1. \A n \in S : n \in Nat /\ bound - n \in Nat
    OBVIOUS
  <2>2. Distance \in SUBSET Nat
    BY <2>1
  <2>3. PICK n \in S : TRUE
    OBVIOUS
  <2>4. bound - n \in Distance
    OBVIOUS
  <2> QED
    BY <2>2, <2>4
<1>2. PICK d \in Distance : \A e \in Distance : d <= e
  BY <1>1, HasLeast, Zenon
<1>3. PICK n \in S : d = bound - n
  BY <1>2
<1>4. \A m \in S : bound - m \in Distance
  OBVIOUS
<1>5. \A m \in S : m <= n
  <2> SUFFICES ASSUME NEW m \in S PROVE m <= n
    OBVIOUS
  <2>1. bound - n <= bound - m
    BY <1>2, <1>3, <1>4
  <2> HIDE DEF Distance
  <2> QED
    BY <2>1
<1> QED
  BY <1>5

-----------------------------------------------------------------------------
(* Sums *)

\* The sum of a function over a finite part of its domain.
SumOver(f, S) == MapThenSumSet(LAMBDA x : f[x], S)

\* The fold behind it, one step at a time.
Picked(S) == CHOOSE x \in S : TRUE

Sums(f, S, sums) ==
  sums = [T \in SUBSET S |-> IF T = {} THEN 0
                             ELSE f[Picked(T)] + sums[T \ {Picked(T)}]]

SumsOf(f, S) == CHOOSE sums : Sums(f, S, sums)

\* The sum is the fold of the community module with the numbers picked in turn.
LEMMA SumIsFold ==
  ASSUME NEW f, NEW S
  PROVE  SumOver(f, S) = SumsOf(f, S)[S]
BY DEF SumOver, MapThenSumSet, MapThenFoldSet, SumsOf, Sums, Picked

\* What is picked of a set is in it.
LEMMA PickedIn == \A S : S # {} => Picked(S) \in S
BY DEF Picked

\* Two folds agree where both are defined.
LEMMA SumsAgree ==
  ASSUME NEW f, NEW S, NEW sums, Sums(f, S, sums), IsFiniteSet(S),
         NEW R \in SUBSET S, NEW others, Sums(f, R, others)
  PROVE  \A T \in SUBSET R : sums[T] = others[T]
<1> DEFINE P == {T \in SUBSET R : sums[T] = others[T]}
<1>1. IsFiniteSet(R)
  BY FS_Subset
<1>2. ASSUME NEW T \in SUBSET R, \A U \in SUBSET T : U # T => U \in P
      PROVE  T \in P
  <2>1. T \in SUBSET S
    OBVIOUS
  <2>2. CASE T = {}
    BY <2>1, <2>2 DEF Sums
  <2>3. CASE T # {}
    <3>1. Picked(T) \in T
      BY <2>3, PickedIn
    <3>2. T \ {Picked(T)} \in P
      BY <3>1, <1>2
    <3>3. sums[T] = f[Picked(T)] + sums[T \ {Picked(T)}]
      BY <2>1, <2>3 DEF Sums
    <3>4. others[T] = f[Picked(T)] + others[T \ {Picked(T)}]
      BY <2>3 DEF Sums
    <3> QED
      BY <3>2, <3>3, <3>4
  <2> QED
    BY <2>2, <2>3
<1> HIDE DEF P
<1>3. \A T \in SUBSET R : T \in P
  BY <1>1, <1>2, SubsetInduction
<1> QED
  BY <1>3 DEF P

\* The fold exists.
LEMMA SumsExist ==
  ASSUME NEW f, NEW S, IsFiniteSet(S)
  PROVE  Sums(f, S, SumsOf(f, S))
<1> DEFINE P == {T \in SUBSET S : Sums(f, T, SumsOf(f, T))}
<1>1. ASSUME NEW T \in SUBSET S, \A U \in SUBSET T : U # T => U \in P
      PROVE  T \in P
  <2> DEFINE Less(U) == U \ {Picked(U)}
             sums == [U \in SUBSET T |-> IF U = {} THEN 0
                        ELSE f[Picked(U)] + SumsOf(f, Less(U))[Less(U)]]
  <2>1. ASSUME NEW U \in SUBSET T, U # {}
        PROVE  /\ Less(U) \in SUBSET T /\ Less(U) # T /\ IsFiniteSet(Less(U))
               /\ Sums(f, Less(U), SumsOf(f, Less(U)))
    <3>1. Picked(U) \in U
      BY <2>1, PickedIn
    <3>2. Less(U) \in SUBSET T /\ Less(U) # T /\ Less(U) \in SUBSET S
      BY <3>1
    <3> QED
      BY <3>2, <1>1, FS_Subset
  <2>2. ASSUME NEW U \in SUBSET T, U # {}
        PROVE  sums[Less(U)] = SumsOf(f, Less(U))[Less(U)]
    <3> DEFINE V == Less(U)
    <3>1. V \in SUBSET T /\ Sums(f, V, SumsOf(f, V)) /\ IsFiniteSet(V)
      BY <2>1, <2>2
    <3>2. CASE V = {}
      BY <3>1, <3>2 DEF Sums
    <3>3. CASE V # {}
      <4>1. sums[V] = f[Picked(V)] + SumsOf(f, Less(V))[Less(V)]
        BY <3>1, <3>3
      <4>2. SumsOf(f, V)[V] = f[Picked(V)] + SumsOf(f, V)[Less(V)]
        BY <3>1, <3>3 DEF Sums
      <4>3. Less(V) \in SUBSET V /\ Sums(f, Less(V), SumsOf(f, Less(V)))
        BY <2>1, <3>1, <3>3
      <4>4. SumsOf(f, V)[Less(V)] = SumsOf(f, Less(V))[Less(V)]
        <5> HIDE DEF V, Less
        <5> QED
          BY <3>1, <4>3, SumsAgree
      <4> QED
        BY <4>1, <4>2, <4>4
    <3> QED
      BY <3>2, <3>3
  <2>3. Sums(f, T, sums)
    BY <2>2 DEF Sums
  <2>4. Sums(f, T, SumsOf(f, T))
    <3> HIDE DEF sums
    <3> QED
      BY <2>3 DEF SumsOf
  <2> QED
    BY <2>4
<1> HIDE DEF P
<1>2. S \in P
  BY <1>1, SubsetInduction
<1> QED
  BY <1>2 DEF P

\* The defining equations of a sum: nothing adds up to zero, and one element
\* is picked, its value added to the sum over the others.
LEMMA SumPicked ==
  ASSUME NEW f, NEW S, IsFiniteSet(S)
  PROVE  /\ S = {} => SumOver(f, S) = 0
         /\ S # {} => SumOver(f, S) = f[Picked(S)] + SumOver(f, S \ {Picked(S)})
<1>1. Sums(f, S, SumsOf(f, S))
  BY SumsExist
<1>2. S = {} => SumOver(f, S) = 0
  BY <1>1, SumIsFold DEF Sums
<1>3. ASSUME S # {}
      PROVE  SumOver(f, S) = f[Picked(S)] + SumOver(f, S \ {Picked(S)})
  <2> DEFINE R == S \ {Picked(S)}
  <2>1. R \in SUBSET S /\ IsFiniteSet(R)
    BY FS_Subset
  <2>2. SumsOf(f, S)[S] = f[Picked(S)] + SumsOf(f, S)[R]
    BY <1>1, <1>3 DEF Sums
  <2>3. Sums(f, R, SumsOf(f, R))
    BY <2>1, SumsExist
  <2> HIDE DEF R
  <2>4. SumsOf(f, S)[R] = SumsOf(f, R)[R]
    BY <1>1, <2>1, <2>3, SumsAgree
  <2> QED
    BY <2>2, <2>4, SumIsFold DEF R
<1> QED
  BY <1>2, <1>3

\* A sum of naturals is a natural.
LEMMA SumIsNat ==
  ASSUME NEW f, NEW S, IsFiniteSet(S), \A x \in S : f[x] \in Nat
  PROVE  SumOver(f, S) \in Nat
<1> DEFINE P == {T \in SUBSET S : SumOver(f, T) \in Nat}
<1>1. ASSUME NEW T \in SUBSET S, \A U \in SUBSET T : U # T => U \in P
      PROVE  T \in P
  <2>1. IsFiniteSet(T)
    BY FS_Subset
  <2>2. CASE T = {}
    <3>1. SumOver(f, T) = 0
      BY <2>1, <2>2, SumPicked
    <3> QED
      BY <3>1
  <2>3. CASE T # {}
    <3>1. Picked(T) \in T
      BY <2>3, PickedIn
    <3>2. T \ {Picked(T)} \in P
      BY <3>1, <1>1
    <3> QED
      BY <2>1, <2>3, <3>1, <3>2, SumPicked
  <2> QED
    BY <2>2, <2>3
<1> HIDE DEF P
<1>2. S \in P
  BY <1>1, SubsetInduction
<1> QED
  BY <1>2 DEF P

\* Any element may be the one that is taken out first.
LEMMA SumWithout ==
  ASSUME NEW f, NEW S, IsFiniteSet(S), \A x \in S : f[x] \in Nat,
         NEW one \in S
  PROVE  SumOver(f, S) = f[one] + SumOver(f, S \ {one})
<1> DEFINE P == {T \in SUBSET S :
                   \A x \in T : SumOver(f, T) = f[x] + SumOver(f, T \ {x})}
<1>1. ASSUME NEW T \in SUBSET S, \A U \in SUBSET T : U # T => U \in P,
             NEW x \in T
      PROVE  SumOver(f, T) = f[x] + SumOver(f, T \ {x})
  <2> DEFINE y == Picked(T)
  <2>1. IsFiniteSet(T) /\ y \in T
    BY FS_Subset, PickedIn
  <2>2. SumOver(f, T) = f[y] + SumOver(f, T \ {y})
    BY <2>1, SumPicked
  <2> HIDE DEF y
  <2>3. CASE x # y
    <3>1. T \ {y} \in P /\ T \ {x} \in P
      BY <1>1, <2>1
    <3>2. SumOver(f, T \ {y}) = f[x] + SumOver(f, (T \ {y}) \ {x})
      BY <3>1, <2>3
    <3>3. SumOver(f, T \ {x}) = f[y] + SumOver(f, (T \ {x}) \ {y})
      BY <3>1, <2>1, <2>3
    <3>4. (T \ {y}) \ {x} = (T \ {x}) \ {y}
      OBVIOUS
    <3>5. SumOver(f, (T \ {y}) \ {x}) \in Nat
      <4>1. IsFiniteSet((T \ {y}) \ {x})
        BY FS_Subset
      <4> QED
        BY <4>1, SumIsNat
    <3>6. f[x] \in Nat /\ f[y] \in Nat
      BY <2>1
    <3> HIDE DEF P
    <3> QED
      BY <2>2, <3>2, <3>3, <3>4, <3>5, <3>6
  <2> QED
    BY <2>2, <2>3
<1>2. \A T \in SUBSET S : (\A U \in SUBSET T : U # T => U \in P) => T \in P
  BY <1>1
<1> HIDE DEF P
<1>3. S \in P
  BY <1>2, SubsetInduction
<1> QED
  BY <1>3 DEF P

\* What a part of a set sums to is no more than the sum of all of it.
LEMMA SumSubset ==
  ASSUME NEW f, NEW S, IsFiniteSet(S), \A x \in S : f[x] \in Nat,
         NEW part \in SUBSET S
  PROVE  SumOver(f, part) <= SumOver(f, S)
<1> DEFINE P == {T \in SUBSET S : SumOver(f, part \cap T) <= SumOver(f, T)}
<1>1. ASSUME NEW T \in SUBSET S, \A U \in SUBSET T : U # T => U \in P
      PROVE  T \in P
  <2>1. IsFiniteSet(T) /\ IsFiniteSet(part \cap T)
    BY FS_Subset
  <2>2. CASE T = {}
    <3>1. SumOver(f, T) = 0 /\ part \cap T = T
      BY <2>1, <2>2, SumPicked
    <3> QED
      BY <3>1
  <2>3. CASE T # {}
    <3> DEFINE x == Picked(T)
               R == T \ {x}
    <3>1. x \in T
      BY <2>3, PickedIn
    <3>2. R \in P /\ IsFiniteSet(R) /\ IsFiniteSet(part \cap R)
      BY <3>1, <1>1, FS_Subset
    <3>3. SumOver(f, T) = f[x] + SumOver(f, R)
      BY <2>1, <2>3, SumPicked
    <3>4. SumOver(f, R) \in Nat /\ SumOver(f, part \cap R) \in Nat /\ f[x] \in Nat
      BY <3>1, <3>2, SumIsNat
    <3>5. SumOver(f, part \cap R) <= SumOver(f, R)
      BY <3>2
    <3> HIDE DEF x
    <3>6. CASE x \in part
      <4>1. (part \cap T) \ {x} = part \cap R /\ x \in part \cap T
        BY <3>1, <3>6
      <4> DEFINE A == part \cap T
      <4>2. A \ {x} = part \cap R /\ x \in A /\ IsFiniteSet(A) /\ \A y \in A : f[y] \in Nat
        BY <2>1, <4>1
      <4> HIDE DEF A, R
      <4>3. SumOver(f, A) = f[x] + SumOver(f, A \ {x})
        BY <4>2, SumWithout
      <4>4. PICK B : B = A \ {x}
        OBVIOUS
      <4>5. PICK C : C = part \cap R
        OBVIOUS
      <4>6. B = C /\ SumOver(f, A) = f[x] + SumOver(f, B)
        BY <4>2, <4>3, <4>4, <4>5
      <4>7. SumOver(f, C) <= SumOver(f, R) /\ SumOver(f, C) \in Nat
        BY <3>4, <3>5, <4>5
      <4>8. SumOver(f, A) <= SumOver(f, T)
        BY <3>3, <3>4, <4>6, <4>7
      <4> QED
        BY <4>8 DEF A
    <3>7. CASE x \notin part
      <4>1. part \cap T = part \cap R
        BY <3>7
      <4> HIDE DEF R
      <4>2. SumOver(f, part \cap T) = SumOver(f, part \cap R)
        BY <4>1
      <4>3. PICK n : n = SumOver(f, part \cap R)
        OBVIOUS
      <4>4. n <= SumOver(f, T)
        BY <3>3, <3>4, <3>5, <4>3
      <4> QED
        BY <4>2, <4>3, <4>4
    <3> QED
      BY <3>6, <3>7
  <2> QED
    BY <2>2, <2>3
<1> HIDE DEF P
<1>2. S \in P
  BY <1>1, SubsetInduction
<1>3. part \cap S = part
  OBVIOUS
<1> QED
  BY <1>2, <1>3 DEF P

\* Smaller values have the smaller sum.
LEMMA SumMonotone ==
  ASSUME NEW f, NEW g, NEW S, IsFiniteSet(S),
         \A x \in S : f[x] \in Nat /\ g[x] \in Nat /\ f[x] <= g[x]
  PROVE  SumOver(f, S) <= SumOver(g, S)
<1> DEFINE P == {T \in SUBSET S : SumOver(f, T) <= SumOver(g, T)}
<1>1. ASSUME NEW T \in SUBSET S, \A U \in SUBSET T : U # T => U \in P
      PROVE  T \in P
  <2>1. IsFiniteSet(T)
    BY FS_Subset
  <2>2. CASE T = {}
    <3>1. SumOver(f, T) = 0 /\ SumOver(g, T) = 0
      BY <2>1, <2>2, SumPicked
    <3> QED
      BY <3>1
  <2>3. CASE T # {}
    <3> DEFINE x == Picked(T)
               R == T \ {x}
    <3>1. x \in T
      BY <2>3, PickedIn
    <3>2. R \in P /\ IsFiniteSet(R)
      BY <3>1, <1>1, FS_Subset
    <3>3. SumOver(f, T) = f[x] + SumOver(f, R) /\ SumOver(g, T) = g[x] + SumOver(g, R)
      BY <2>1, <2>3, SumPicked
    <3>4. SumOver(f, R) \in Nat /\ SumOver(g, R) \in Nat
      BY <3>2, SumIsNat
    <3>5. f[x] \in Nat /\ g[x] \in Nat /\ f[x] <= g[x]
      BY <3>1
    <3>6. SumOver(f, R) <= SumOver(g, R)
      BY <3>2
    <3> HIDE DEF x, R
    <3>7. SumOver(f, T) <= SumOver(g, T)
      BY <3>3, <3>4, <3>5, <3>6
    <3> QED
      BY <3>7
  <2> QED
    BY <2>2, <2>3
<1> HIDE DEF P
<1>2. S \in P
  BY <1>1, SubsetInduction
<1> QED
  BY <1>2 DEF P

\* A sum depends on the values of the set's elements only.
LEMMA SumCongruent ==
  ASSUME NEW f, NEW g, NEW S, IsFiniteSet(S),
         \A x \in S : f[x] \in Nat /\ g[x] = f[x]
  PROVE  SumOver(f, S) = SumOver(g, S)
<1>1. SumOver(f, S) <= SumOver(g, S) /\ SumOver(g, S) <= SumOver(f, S)
  <2>1. \A x \in S : f[x] \in Nat /\ g[x] \in Nat /\ f[x] <= g[x] /\ g[x] <= f[x]
    OBVIOUS
  <2> QED
    BY <2>1, SumMonotone
<1>2. SumOver(f, S) \in Nat /\ SumOver(g, S) \in Nat
  BY SumIsNat
<1> QED
  BY <1>1, <1>2
=============================================================================
