-------------------------- MODULE InductionLemmas --------------------------
(***************************************************************************)
(* Induction over the naturals and over finite sets, stated for a set of   *)
(* them: in this form the provers can use it for what a recursive function *)
(* of a model computes.  With it, the sums that properties are about.      *)
(***************************************************************************)
EXTENDS Integers, FiniteSetsExt, FiniteSetTheorems, WellFoundedInduction, TLAPS

(* A set of naturals that is not empty has a least element.                *)
LEMMA LeastNatural ==
  ASSUME NEW T, T \subseteq Nat, T # {}
  PROVE  \E m \in T : \A k \in T : m <= k
<1>1. PICK m \in T : \A k \in T : <<k, m>> \notin OpToRel(<, Nat)
      BY NatLessThanWellFounded, WFMin, Zenon
<1>2. ASSUME NEW k \in T, k < m PROVE FALSE
  <2>1. <<k, m>> \in Nat \X Nat /\ <<k, m>>[1] < <<k, m>>[2]
        BY <1>2
  <2>2. <<k, m>> \in OpToRel(<, Nat)
        BY <2>1 DEF OpToRel
  <2> QED  BY <1>1, <2>2, Zenon
<1> QED  BY <1>2

(* A set with 0 and, with a natural, its successor has all the naturals.   *)
LEMMA SetInduction ==
  ASSUME NEW T, 0 \in T, \A m \in Nat : m \in T => m + 1 \in T
  PROVE  Nat \subseteq T
<1>1. SUFFICES ASSUME Nat \ T # {} PROVE FALSE
      OBVIOUS
<1>2. PICK m \in Nat \ T : \A k \in Nat \ T : m <= k
      BY <1>1, LeastNatural
<1> QED  BY <1>2

(* What holds of {} and, with a set, of one element more holds of a finite *)
(* set.                                                                    *)
LEMMA SubsetInduction ==
  ASSUME NEW S, IsFiniteSet(S), NEW T, {} \in T,
         \A s \in SUBSET S : \A x \in S \ s : s \in T => s \cup {x} \in T
  PROVE  S \in T
<1> DEFINE N == {n \in Nat : \A s \in SUBSET S : Cardinality(s) = n => s \in T}
<1>1. 0 \in N
  BY FS_EmptySet, FS_Subset
<1>2. ASSUME NEW n \in Nat, n \in N PROVE n + 1 \in N
  <2>1. SUFFICES ASSUME NEW s \in SUBSET S, Cardinality(s) = n + 1 PROVE s \in T
    OBVIOUS
  <2>2. IsFiniteSet(s) /\ s # {}
    BY <2>1, FS_Subset, FS_EmptySet
  <2>3. PICK x \in s : TRUE
    BY <2>2
  <2>4. Cardinality(s \ {x}) = n
    <3>1. Cardinality(s \ {x}) = Cardinality(s) - 1
      BY <2>2, FS_RemoveElement
    <3> QED
      BY <2>1, <3>1
  <2>5. s \ {x} \in SUBSET S /\ x \in S \ (s \ {x}) /\ (s \ {x}) \cup {x} = s
    OBVIOUS
  <2>6. s \ {x} \in T
    BY <1>2, <2>4, <2>5
  <2> QED
    BY <2>5, <2>6
<1>3. Nat \subseteq N
  <2> HIDE DEF N
  <2> QED
    BY <1>1, <1>2, SetInduction
<1>4. Cardinality(S) \in Nat
  BY FS_CardinalityType
<1> QED
  BY <1>3, <1>4
-----------------------------------------------------------------------------
(* Sums *)

(* The sum of f[x] over a set, as MapThenSumSet adds it up.                *)
Total(f, S) == MapThenSumSet(LAMBDA x : f[x], S)

Picked(s) == CHOOSE x \in s : TRUE

(* The recursion of MapThenSumSet, and the function it defines.            *)
SumStep(f, g, s) == IF s = {} THEN 0 ELSE f[Picked(s)] + g[s \ {Picked(s)}]

SumOf(f, S) == CHOOSE g : g = [s \in SUBSET S |-> SumStep(f, g, s)]

(* The recursion takes one element from a set.                             *)
LEMMA PickedRemoved ==
  ASSUME NEW S, IsFiniteSet(S), NEW s \in SUBSET S, s # {}
  PROVE  /\ Picked(s) \in s /\ Picked(s) \in S /\ s \ {Picked(s)} \in SUBSET S
         /\ IsFiniteSet(s) /\ Cardinality(s) \in Nat /\ Cardinality(s) # 0
         /\ Cardinality(s \ {Picked(s)}) = Cardinality(s) - 1
<1>1. Picked(s) \in s
  BY DEF Picked
<1>2. IsFiniteSet(s) /\ Cardinality(s) \in Nat /\ Cardinality(s) # 0
  BY FS_Subset, FS_CardinalityType, FS_EmptySet
<1> QED
  BY <1>1, <1>2, FS_RemoveElement

(* It has one solution.                                                    *)
LEMMA SumUnique ==
  ASSUME NEW S, IsFiniteSet(S), NEW f, NEW e, \A x \in S : f[x] = e[x], NEW g, NEW h,
         \A s \in SUBSET S : g[s] = SumStep(f, g, s) /\ h[s] = SumStep(e, h, s)
  PROVE  g[S] = h[S]
<1> DEFINE N == {n \in Nat : \A s \in SUBSET S : Cardinality(s) = n => g[s] = h[s]}
<1>1. 0 \in N
  <2>1. ASSUME NEW s \in SUBSET S, Cardinality(s) = 0 PROVE g[s] = h[s]
    <3>1. s = {}
      BY <2>1, FS_EmptySet, FS_Subset
    <3> QED
      BY <3>1 DEF SumStep
  <2> QED
    BY <2>1
<1>2. ASSUME NEW n \in Nat, n \in N PROVE n + 1 \in N
  <2>1. SUFFICES ASSUME NEW s \in SUBSET S, Cardinality(s) = n + 1 PROVE g[s] = h[s]
    OBVIOUS
  <2>2. s # {}
    BY <2>1, FS_EmptySet
  <2>3. /\ Picked(s) \in S /\ s \ {Picked(s)} \in SUBSET S
        /\ Cardinality(s \ {Picked(s)}) = n
    BY <2>1, <2>2, PickedRemoved
  <2>4. g[s \ {Picked(s)}] = h[s \ {Picked(s)}]
    BY <1>2, <2>3
  <2> QED
    BY <2>2, <2>3, <2>4 DEF SumStep
<1>3. Nat \subseteq N
  <2> HIDE DEF N
  <2> QED
    BY <1>1, <1>2, SetInduction
<1>4. Cardinality(S) \in Nat
  BY FS_CardinalityType
<1> QED
  BY <1>3, <1>4

(* It has a solution, by induction over the size of the subsets.           *)
LEMMA SumExists ==
  ASSUME NEW S, IsFiniteSet(S), NEW f, \A x \in S : f[x] \in Nat
  PROVE  /\ \A s \in SUBSET S : SumOf(f, S)[s] = SumStep(f, SumOf(f, S), s)
         /\ SumOf(f, S)[S] \in Nat
<1> DEFINE Upto(g, n) ==
             /\ g \in [SUBSET S -> Nat]
             /\ \A s \in SUBSET S : Cardinality(s) <= n => g[s] = SumStep(f, g, s)
           N == {n \in Nat : \E g : Upto(g, n)}
<1>1. 0 \in N
  <2> DEFINE g == [s \in SUBSET S |-> 0]
  <2>1. ASSUME NEW s \in SUBSET S, Cardinality(s) <= 0 PROVE g[s] = SumStep(f, g, s)
    <3>1. s = {}
      BY <2>1, FS_EmptySet, FS_Subset, FS_CardinalityType
    <3> QED
      BY <3>1 DEF SumStep
  <2>2. Upto(g, 0)
    BY <2>1
  <2> QED
    BY <2>2
<1>2. ASSUME NEW n \in Nat, n \in N PROVE n + 1 \in N
  <2>1. PICK g : Upto(g, n)
    BY <1>2
  <2> DEFINE h == [s \in SUBSET S |-> IF Cardinality(s) <= n THEN g[s] ELSE SumStep(f, g, s)]
  <2>2. ASSUME NEW s \in SUBSET S PROVE SumStep(f, g, s) \in Nat
    <3>1. CASE s # {}
      <4>1. Picked(s) \in S /\ s \ {Picked(s)} \in SUBSET S
        BY <3>1, PickedRemoved
      <4>2. f[Picked(s)] \in Nat /\ g[s \ {Picked(s)}] \in Nat
        BY <2>1, <4>1
      <4> QED
        BY <3>1, <4>2 DEF SumStep
    <3> QED
      BY <3>1 DEF SumStep
  <2>3. h \in [SUBSET S -> Nat]
    BY <2>1, <2>2
  <2>4. ASSUME NEW s \in SUBSET S, Cardinality(s) <= n + 1 PROVE h[s] = SumStep(f, h, s)
    <3>1. h[s] = SumStep(f, g, s)
      BY <2>1, <2>4
    <3>2. CASE s = {}
      BY <3>1, <3>2 DEF SumStep
    <3>3. CASE s # {}
      <4>1. s \ {Picked(s)} \in SUBSET S /\ Cardinality(s \ {Picked(s)}) <= n
        BY <2>4, <3>3, PickedRemoved
      <4>2. h[s \ {Picked(s)}] = g[s \ {Picked(s)}]
        BY <4>1
      <4> QED
        BY <3>1, <3>3, <4>2 DEF SumStep
    <3> QED
      BY <3>2, <3>3
  <2> HIDE DEF h
  <2>5. Upto(h, n + 1)
    BY <2>3, <2>4
  <2> QED
    BY <2>5
<1>3. Nat \subseteq N
  <2> HIDE DEF N
  <2> QED
    BY <1>1, <1>2, SetInduction
<1>4. Cardinality(S) \in Nat /\ \A s \in SUBSET S : Cardinality(s) <= Cardinality(S)
  BY FS_CardinalityType, FS_Subset
<1>5. PICK g : Upto(g, Cardinality(S))
  BY <1>3, <1>4
<1>6. g = [s \in SUBSET S |-> SumStep(f, g, s)]
  BY <1>4, <1>5
<1> DEFINE h == SumOf(f, S)
<1>7. h = [s \in SUBSET S |-> SumStep(f, h, s)]
  BY <1>6 DEF SumOf
<1> HIDE DEF h
<1>8. \A s \in SUBSET S : h[s] = SumStep(f, h, s)
  BY <1>7
<1>9. \A s \in SUBSET S : g[s] = SumStep(f, g, s)
  BY <1>4, <1>5
<1>10. g[S] = h[S]
  BY <1>8, <1>9, SumUnique
<1>11. g[S] \in Nat
  BY <1>5
<1> QED
  BY <1>8, <1>10, <1>11 DEF h

(* MapThenSumSet adds the element it takes to the sum of the others.       *)
LEMMA TotalStep ==
  ASSUME NEW S, IsFiniteSet(S), NEW f, \A x \in S : f[x] \in Nat
  PROVE  /\ Total(f, S) \in Nat
         /\ Total(f, S) = IF S = {} THEN 0
                          ELSE f[Picked(S)] + Total(f, S \ {Picked(S)})
<1>1. \A s : Total(f, s) = SumOf(f, s)[s]
  BY Zenon DEF Total, MapThenSumSet, MapThenFoldSet, SumOf, SumStep, Picked
<1>2. Total(f, S) \in Nat
  BY <1>1, SumExists
<1>3. Total(f, S) = SumStep(f, SumOf(f, S), S)
  BY <1>1, SumExists
<1>4. CASE S = {}
  BY <1>2, <1>3, <1>4 DEF SumStep
<1>5. CASE S # {}
  <2> DEFINE U == S \ {Picked(S)}
             g == SumOf(f, S)
             h == SumOf(f, U)
  <2>1. U \in SUBSET S /\ IsFiniteSet(U)
    BY <1>5, PickedRemoved, FS_Subset
  <2>2. \A s \in SUBSET U : h[s] = SumStep(f, h, s)
    BY <2>1, SumExists
  <2>3. \A s \in SUBSET U : g[s] = SumStep(f, g, s)
    BY <2>1, SumExists
  <2> HIDE DEF g, h, U
  <2>4. g[U] = h[U]
    BY <2>1, <2>2, <2>3, SumUnique
  <2> QED
    BY <1>1, <1>2, <1>3, <1>5, <2>4 DEF SumStep, g, h, U
<1> QED
  BY <1>2, <1>4, <1>5

(* The sum depends on nothing but the values that are added up.            *)
LEMMA TotalSame ==
  ASSUME NEW S, IsFiniteSet(S), NEW f, NEW e, \A x \in S : f[x] \in Nat /\ f[x] = e[x]
  PROVE  Total(f, S) = Total(e, S)
<1>1. \A s, g : Total(g, s) = SumOf(g, s)[s]
  BY Zenon DEF Total, MapThenSumSet, MapThenFoldSet, SumOf, SumStep, Picked
<1> DEFINE g == SumOf(f, S)
           h == SumOf(e, S)
<1>2. \A s \in SUBSET S : g[s] = SumStep(f, g, s)
  BY SumExists
<1>3. \A s \in SUBSET S : h[s] = SumStep(e, h, s)
  BY SumExists
<1> HIDE DEF g, h
<1>4. g[S] = h[S]
  BY <1>2, <1>3, SumUnique
<1> QED
  BY <1>1, <1>4 DEF g, h

(* Any element can be added last: the order does not matter.               *)
LEMMA TotalRemove ==
  ASSUME NEW S, IsFiniteSet(S), NEW f, \A x \in S : f[x] \in Nat, NEW x \in S
  PROVE  Total(f, S) = f[x] + Total(f, S \ {x}) /\ Total(f, S \ {x}) \in Nat
<1> DEFINE N == {n \in Nat : \A s \in SUBSET S : Cardinality(s) = n =>
                   \A y \in s : Total(f, s) = f[y] + Total(f, s \ {y})}
<1>0. \A s \in SUBSET S : IsFiniteSet(s) /\ Total(f, s) \in Nat /\ \A y \in s : f[y] \in Nat
  BY FS_Subset, TotalStep
<1>1. 0 \in N
  BY <1>0, FS_EmptySet
<1>2. ASSUME NEW n \in Nat, n \in N PROVE n + 1 \in N
  <2>1. SUFFICES ASSUME NEW s \in SUBSET S, Cardinality(s) = n + 1, NEW y \in s
                 PROVE  Total(f, s) = f[y] + Total(f, s \ {y})
    OBVIOUS
  <2> DEFINE z == Picked(s)
             a == s \ {z}
             b == s \ {y}
             c == (s \ {z}) \ {y}
  <2>2. /\ z \in s /\ a \in SUBSET S /\ b \in SUBSET S /\ c \in SUBSET S
        /\ Cardinality(a) = n /\ b \ {z} = c
    BY <2>1, PickedRemoved
  <2>3. Cardinality(b) = n
    <3>1. Cardinality(b) = Cardinality(s) - 1
      BY <1>0, FS_RemoveElement
    <3> QED
      BY <2>1, <3>1
  <2>4. Total(f, s) = f[z] + Total(f, a)
    BY <1>0, TotalStep
  <2> HIDE DEF z
  <2>5. CASE y = z
    BY <2>4, <2>5
  <2>6. CASE y # z
    <3>1. Total(f, a) = f[y] + Total(f, c)
      BY <1>2, <2>2, <2>6
    <3>2. Total(f, b) = f[z] + Total(f, c)
      BY <1>2, <2>2, <2>3, <2>6
    <3>3. f[y] \in Nat /\ f[z] \in Nat /\ Total(f, c) \in Nat
      BY <1>0, <2>2
    <3> QED
      BY <2>4, <3>1, <3>2, <3>3
  <2> QED
    BY <2>5, <2>6
<1>3. Nat \subseteq N
  <2> HIDE DEF N
  <2> QED
    BY <1>1, <1>2, SetInduction
<1>4. Cardinality(S) \in Nat
  BY FS_CardinalityType
<1> QED
  BY <1>0, <1>3, <1>4

(* When one value grows, so does the sum.                                  *)
LEMMA TotalGrows ==
  ASSUME NEW S, IsFiniteSet(S), NEW f, NEW e, NEW x \in S, NEW k \in Int,
         \A y \in S : f[y] \in Nat /\ e[y] \in Nat,
         \A y \in S \ {x} : e[y] = f[y], e[x] = f[x] + k
  PROVE  Total(e, S) = Total(f, S) + k
<1>1. IsFiniteSet(S \ {x})
  BY FS_RemoveElement
<1>2. Total(e, S \ {x}) = Total(f, S \ {x})
  BY <1>1, TotalSame
<1>3. Total(f, S) = f[x] + Total(f, S \ {x}) /\ Total(f, S \ {x}) \in Nat
  BY TotalRemove
<1>4. Total(e, S) = e[x] + Total(e, S \ {x})
  BY TotalRemove
<1> QED
  BY <1>2, <1>3, <1>4

(* The sum of zeros is zero.                                               *)
LEMMA TotalZero ==
  ASSUME NEW S, IsFiniteSet(S), NEW f, \A x \in S : f[x] = 0
  PROVE  Total(f, S) = 0
<1> DEFINE T == {s \in SUBSET S : Total(f, s) = 0}
<1>1. \A s \in SUBSET S : IsFiniteSet(s) /\ \A x \in s : f[x] \in Nat /\ f[x] = 0
  BY FS_Subset
<1>2. {} \in T
  BY <1>1, TotalStep
<1>3. ASSUME NEW s \in SUBSET S, NEW x \in S \ s, s \in T PROVE s \cup {x} \in T
  <2>1. Total(f, s \cup {x}) = f[x] + Total(f, (s \cup {x}) \ {x})
    BY <1>1, TotalRemove
  <2>2. (s \cup {x}) \ {x} = s /\ s \cup {x} \in SUBSET S
    BY <1>3
  <2>3. f[x] = 0 /\ Total(f, s) = 0
    BY <1>3
  <2>4. Total(f, s \cup {x}) = 0
    BY <2>1, <2>2, <2>3
  <2> QED
    BY <2>2, <2>4
<1>4. S \in T
  <2> HIDE DEF T
  <2> QED
    BY <1>2, <1>3, SubsetInduction
<1> QED
  BY <1>4

(* A sum whose terms are 0 outside of A and n at most is n times as large  *)
(* as A at most.                                                           *)
LEMMA TotalBound ==
  ASSUME NEW S, IsFiniteSet(S), NEW A, NEW n \in Nat, NEW f,
         \A x \in S : f[x] \in 0 .. n, \A x \in S \ A : f[x] = 0
  PROVE  Total(f, S) <= n * Cardinality(A \cap S)
<1> DEFINE T == {s \in SUBSET S : Total(f, s) <= n * Cardinality(A \cap s)}
<1>1. \A s \in SUBSET S : /\ IsFiniteSet(s) /\ IsFiniteSet(A \cap s)
                          /\ Cardinality(A \cap s) \in Nat
                          /\ \A x \in s : f[x] \in Nat
                          /\ Total(f, s) \in Nat
  <2> SUFFICES ASSUME NEW s \in SUBSET S
               PROVE  /\ IsFiniteSet(s) /\ IsFiniteSet(A \cap s)
                      /\ Cardinality(A \cap s) \in Nat
                      /\ \A x \in s : f[x] \in Nat
                      /\ Total(f, s) \in Nat
    OBVIOUS
  <2>1. IsFiniteSet(s) /\ IsFiniteSet(A \cap s)
    BY FS_Subset
  <2>2. \A x \in s : f[x] \in Nat
    OBVIOUS
  <2> QED
    BY <2>1, <2>2, FS_CardinalityType, TotalStep
<1>2. {} \in T
  <2>1. Total(f, {}) = 0 /\ A \cap {} = {}
    BY FS_EmptySet, TotalStep
  <2> QED
    BY <2>1, FS_EmptySet
<1>3. ASSUME NEW s \in SUBSET S, NEW x \in S \ s, s \in T PROVE s \cup {x} \in T
  <2> DEFINE u == s \cup {x}
             m == Cardinality(A \cap s)
  <2>1. u \in SUBSET S /\ u \ {x} = s /\ x \in u
    BY <1>3
  <2>2. Total(f, u) = f[x] + Total(f, u \ {x})
    BY <1>1, <2>1, TotalRemove
  <2>3. Total(f, u) = f[x] + Total(f, s)
    BY <2>1, <2>2
  <2>4. Total(f, s) <= n * m /\ m \in Nat /\ Total(f, s) \in Nat
    <3>1. Total(f, s) <= n * m
      BY <1>3
    <3>2. s \in SUBSET S
      BY <1>3
    <3>3. Cardinality(A \cap s) \in Nat /\ Total(f, s) \in Nat
      BY <1>1, <3>2
    <3> QED
      BY <3>1, <3>3
  <2>7. n * m \in Nat
    <3> HIDE DEF m
    <3> QED
      BY <2>4
  <2>5. CASE x \in A
    <3>1. A \cap u = (A \cap s) \cup {x} /\ x \notin A \cap s
      BY <1>3, <2>5
    <3>2. IsFiniteSet(A \cap s)
      BY <1>1
    <3>3. Cardinality(A \cap u) = m + 1
      BY <3>1, <3>2, FS_AddElement
    <3> HIDE DEF m, u
    <3>4. n * (m + 1) = n * m + n
      BY <2>4
    <3>5. f[x] \in 0 .. n
      BY <1>3
    <3>6. Total(f, u) <= n * Cardinality(A \cap u)
      BY <2>3, <2>4, <2>7, <3>3, <3>4, <3>5
    <3> QED
      BY <2>1, <3>6 DEF u
  <2>6. CASE x \notin A
    <3>1. A \cap u = A \cap s /\ f[x] = 0
      BY <1>3, <2>6
    <3>2. Total(f, u) = Total(f, s)
      BY <2>3, <2>4, <3>1
    <3>3. Total(f, u) <= n * Cardinality(A \cap u)
      BY <2>4, <3>1, <3>2
    <3> HIDE DEF u
    <3> QED
      BY <2>1, <3>3 DEF u
  <2> QED
    BY <2>5, <2>6
<1>4. S \in T
  <2> HIDE DEF T
  <2> QED
    BY <1>2, <1>3, SubsetInduction
<1> QED
  BY <1>4
=============================================================================
