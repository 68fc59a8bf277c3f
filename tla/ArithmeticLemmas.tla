-------------------------- MODULE ArithmeticLemmas --------------------------
(***************************************************************************)
(* What the proofs about amounts need: least and greatest elements,         *)
(* induction over a set of numbers, the order of products and of whole      *)
(* quotients, and sums.  The induction theorems of the library take an      *)
(* operator; the one here takes the set of the numbers a property holds of, *)
(* which the provers can be given.                                         *)
(***************************************************************************)
EXTENDS FiniteSetsExt, FiniteSetTheorems, TLAPS

\* The natural numbers are well ordered.
LEMMA LeastElement ==
    ASSUME NEW T \in SUBSET Nat, T # {}
    PROVE  \E x \in T : \A y \in T : x <= y
<1> DEFINE R == OpToRel(<, Nat)
<1>1. IsWellFoundedOn(R, Nat)
  BY NatLessThanWellFounded
<1>2. \A x, y \in Nat : x < y => <<x, y>> \in R
  BY DEF OpToRel
<1> HIDE DEF R
<1>3. PICK x \in T : \A y \in T : <<y, x>> \notin R
  BY <1>1, WFMin
<1>4. \A y \in T : ~ (y < x)
  BY <1>2, <1>3, Zenon
<1>5. \A y \in T : x <= y
  BY <1>4
<1> QED
  BY <1>5

\* A bounded set of numbers has a greatest element: the least of the bounds.
LEMMA GreatestElement ==
    ASSUME NEW n \in Nat, NEW T \in SUBSET 0..n, T # {}
    PROVE  \E x \in T : \A y \in T : y <= x
<1> DEFINE Bounds == {b \in Nat : \A y \in T : y <= b}
<1>1. n \in Bounds
  OBVIOUS
<1>2. PICK x \in Bounds : \A b \in Bounds : x <= b
  BY <1>1, LeastElement
<1>3. ASSUME x \notin T
      PROVE  FALSE
  <2>1. PICK y \in T : TRUE
    OBVIOUS
  <2>2. \A z \in T : z <= x /\ z # x
    BY <1>2, <1>3
  <2>3. x >= 1
    BY <2>1, <2>2
  <2>4. x - 1 \in Bounds
    BY <2>2, <2>3
  <2> QED
    BY <1>2, <2>4
<1> QED
  BY <1>2, <1>3

\* A set that holds zero and, with a number, the next one, holds them all.
LEMMA InductionOverSet ==
    ASSUME NEW T, 0 \in T, \A n \in Nat : n \in T => n + 1 \in T
    PROVE  \A n \in Nat : n \in T
<1> SUFFICES ASSUME Nat \ T # {}
             PROVE  FALSE
  OBVIOUS
<1>1. PICK n \in Nat \ T : \A m \in Nat \ T : n <= m
  BY LeastElement
<1>2. n # 0 /\ n - 1 \in Nat
  BY <1>1
<1>3. n - 1 \in T
  BY <1>1, <1>2
<1> QED
  BY <1>1, <1>2, <1>3

-----------------------------------------------------------------------------
\* Products and their order.
LEMMA ProductOrder ==
    ASSUME NEW x \in Nat, NEW y \in Nat, NEW c \in Nat
    PROVE  /\ x * c \in Nat
           /\ x <= y => x * c <= y * c
           /\ c # 0 /\ x * c <= y * c => x <= y
  OBVIOUS

\* What a whole quotient is: the greatest number whose product is not above.
LEMMA QuotientBounds ==
    ASSUME NEW x \in Nat, NEW d \in Nat \ {0}
    PROVE  /\ x \div d \in Nat
           /\ (x \div d) * d <= x
           /\ x < (x \div d + 1) * d
  OBVIOUS

LEMMA QuotientIsGreatest ==
    ASSUME NEW x \in Nat, NEW d \in Nat \ {0}, NEW q \in Nat
    PROVE  /\ q * d <= x => q <= x \div d
           /\ x < (q + 1) * d => x \div d <= q
           /\ x = q * d => x \div d = q
  OBVIOUS

LEMMA QuotientOrder ==
    ASSUME NEW x \in Nat, NEW y \in Nat, NEW d \in Nat \ {0}, x <= y
    PROVE  x \div d <= y \div d
  OBVIOUS

-----------------------------------------------------------------------------
(***************************************************************************)
(* Sums.  MapThenSumSet takes the elements of the set one after the other,  *)
(* as CHOOSE picks them: that there is such a function, and that the order  *)
(* does not matter, is by induction over the number of elements.           *)
(***************************************************************************)

SumOver(c, S) == MapThenSumSet(LAMBDA x : c[x], S)

Picked(s) == CHOOSE x \in s : TRUE
TakeOne(c, g, s) == IF s = {} THEN 0 ELSE c[Picked(s)] + g[s \ {Picked(s)}]
Sums(c, S) == CHOOSE g : g = [s \in SUBSET S |-> TakeOne(c, g, s)]

\* The sum is the value of that function.
LEMMA SumIsIterated ==
    ASSUME NEW c, NEW S
    PROVE  SumOver(c, S) = Sums(c, S)[S]
  BY DEF SumOver, MapThenSumSet, MapThenFoldSet, Sums, TakeOne, Picked

\* A set without one of its elements is smaller.
LEMMA TakenIsSmaller ==
    ASSUME NEW s, IsFiniteSet(s), NEW x \in s
    PROVE  /\ IsFiniteSet(s \ {x})
           /\ Cardinality(s) \in Nat /\ Cardinality(s \ {x}) \in Nat
           /\ Cardinality(s \ {x}) + 1 = Cardinality(s)
<1>1. Cardinality(s) \in Nat
  BY FS_CardinalityType
<1>2. IsFiniteSet(s \ {x}) /\ Cardinality(s \ {x}) = Cardinality(s) - 1
  BY FS_RemoveElement
<1>3. Cardinality(s \ {x}) \in Nat
  BY <1>2, FS_CardinalityType
<1> QED
  BY <1>1, <1>2, <1>3

\* There is such a function: it is extended to larger and larger subsets.
LEMMA SumsExist ==
    ASSUME NEW S, IsFiniteSet(S), NEW c
    PROVE  Sums(c, S) = [s \in SUBSET S |-> TakeOne(c, Sums(c, S), s)]
<1> DEFINE Small(n) == {s \in SUBSET S : Cardinality(s) <= n}
           T == {n \in Nat : \E g : g = [s \in Small(n) |-> TakeOne(c, g, s)]}
<1>0. \A s \in SUBSET S : IsFiniteSet(s) /\ Cardinality(s) \in Nat
  BY FS_Subset, FS_CardinalityType
<1>1. \A s : s # {} => Picked(s) \in s
  BY DEF Picked
<1>2. 0 \in T
  <2>1. \A s \in Small(0) : s = {}
    BY <1>0, FS_EmptySet
  <2>2. [s \in Small(0) |-> 0] = [s \in Small(0) |-> TakeOne(c, [s1 \in Small(0) |-> 0], s)]
    BY <2>1 DEF TakeOne
  <2> QED
    BY <2>2
<1>3. ASSUME NEW n \in Nat, n \in T
      PROVE  n + 1 \in T
  <2>1. PICK g : g = [s \in Small(n) |-> TakeOne(c, g, s)]
    BY <1>3
  <2> DEFINE h == [s \in Small(n + 1) |-> TakeOne(c, g, s)]
  <2>2. \A s \in Small(n) : s \in Small(n + 1) /\ h[s] = g[s]
    BY <1>0, <2>1
  <2>3. \A s \in Small(n + 1) : s # {} => s \ {Picked(s)} \in Small(n)
    BY <1>0, <1>1, TakenIsSmaller
  <2>4. \A s \in Small(n + 1) : TakeOne(c, g, s) = TakeOne(c, h, s)
    BY <2>2, <2>3 DEF TakeOne
  <2>5. h = [s \in Small(n + 1) |-> TakeOne(c, h, s)]
    BY <2>4
  <2> HIDE DEF h
  <2>6. \E h1 : h1 = [s \in Small(n + 1) |-> TakeOne(c, h1, s)]
    BY <2>5
  <2> HIDE DEF Small
  <2> QED
    BY <2>6
<1>4. Cardinality(S) \in T
  <2> HIDE DEF T
  <2> QED
    BY <1>0, <1>2, <1>3, InductionOverSet
<1>5. Small(Cardinality(S)) = SUBSET S
  BY <1>0, FS_Subset
<1>6. \E g : g = [s \in SUBSET S |-> TakeOne(c, g, s)]
  BY <1>4, <1>5
<1> QED
  BY <1>6 DEF Sums

\* Taking any element away takes its share away, whichever is picked first.
LEMMA SumsTakeAny ==
    ASSUME NEW S, IsFiniteSet(S), NEW c, \A x \in S : c[x] \in Nat
    PROVE  /\ Sums(c, S)[{}] = 0
           /\ \A s \in SUBSET S : Sums(c, S)[s] \in Nat
           /\ \A s \in SUBSET S : \A x \in s : Sums(c, S)[s] = c[x] + Sums(c, S)[s \ {x}]
<1> DEFINE g == Sums(c, S)
<1>0. \A s \in SUBSET S : IsFiniteSet(s) /\ Cardinality(s) \in Nat
  BY FS_Subset, FS_CardinalityType
<1>1. \A s : s # {} => Picked(s) \in s
  BY DEF Picked
<1>2. g = [s \in SUBSET S |-> TakeOne(c, g, s)]
  BY SumsExist
<1> HIDE DEF g
<1>3. g[{}] = 0
  BY <1>2 DEF TakeOne
<1>4. \A s \in SUBSET S : s # {} => g[s] = c[Picked(s)] + g[s \ {Picked(s)}]
  BY <1>2 DEF TakeOne
<1> DEFINE T == {n \in Nat : \A s \in SUBSET S : Cardinality(s) <= n =>
                    /\ g[s] \in Nat
                    /\ \A x \in s : g[s] = c[x] + g[s \ {x}]}
<1>5. 0 \in T
  <2>1. \A s \in SUBSET S : Cardinality(s) <= 0 => s = {}
    BY <1>0, FS_EmptySet
  <2> QED
    BY <1>3, <2>1
<1>6. ASSUME NEW n \in Nat, n \in T
      PROVE  n + 1 \in T
  <2> SUFFICES ASSUME NEW s \in SUBSET S, Cardinality(s) <= n + 1
               PROVE  g[s] \in Nat /\ \A x \in s : g[s] = c[x] + g[s \ {x}]
    OBVIOUS
  <2>1. \A y \in s : s \ {y} \in SUBSET S /\ Cardinality(s \ {y}) <= n
    BY <1>0, TakenIsSmaller
  <2>2. \A y \in s : c[y] \in Nat /\ g[s \ {y}] \in Nat
    BY <1>6, <2>1
  <2>3. g[s] \in Nat
    <3>1. CASE s = {}
      BY <1>3, <3>1
    <3>2. CASE s # {}
      <4>1. Picked(s) \in s /\ g[s] = c[Picked(s)] + g[s \ {Picked(s)}]
        BY <1>1, <1>4, <3>2
      <4> QED
        BY <2>2, <4>1
    <3> QED
      BY <3>1, <3>2
  <2>4. ASSUME NEW x \in s
        PROVE  g[s] = c[x] + g[s \ {x}]
    <3>1. PICK p \in s : p = Picked(s)
      BY <1>1
    <3>2. g[s] = c[p] + g[s \ {p}]
      BY <1>4, <3>1
    <3>3. CASE x # p
      <4>1. PICK rest : rest = g[(s \ {x}) \ {p}]
        OBVIOUS
      <4>2. g[s \ {x}] = c[p] + rest
        BY <1>6, <2>1, <3>3, <4>1
      <4>3. (s \ {p}) \ {x} = (s \ {x}) \ {p}
        OBVIOUS
      <4>4. g[s \ {p}] = c[x] + rest
        <5>1. g[s \ {p}] = c[x] + g[(s \ {p}) \ {x}]
          BY <1>6, <2>1, <3>3
        <5> QED
          BY <4>1, <4>3, <5>1
      <4>5. rest \in Nat
        <5>1. s \ {x} \in SUBSET S /\ p \in s \ {x} /\ Cardinality(s \ {x}) <= n
          BY <2>1, <3>3
        <5>2. PICK t \in SUBSET S : t = (s \ {x}) \ {p}
          OBVIOUS
        <5>3. Cardinality(t) + 1 = Cardinality(s \ {x})
          BY <1>0, <5>1, <5>2, TakenIsSmaller
        <5>4. Cardinality(t) <= n
          BY <1>0, <5>1, <5>3
        <5> QED
          BY <1>6, <4>1, <5>2, <5>4
      <4>6. PICK cx \in Nat, cp \in Nat : cx = c[x] /\ cp = c[p]
        BY <2>2
      <4>7. cp + (cx + rest) = cx + (cp + rest)
        BY <4>5
      <4> QED
        BY <3>2, <4>2, <4>4, <4>6, <4>7
    <3> QED
      BY <3>2, <3>3
  <2> QED
    BY <2>3, <2>4
<1>7. \A n \in Nat : n \in T
  <2> HIDE DEF T
  <2> QED
    BY <1>5, <1>6, InductionOverSet
<1>8. ASSUME NEW s \in SUBSET S
      PROVE  g[s] \in Nat /\ \A x \in s : g[s] = c[x] + g[s \ {x}]
  <2>1. Cardinality(s) \in T
    BY <1>0, <1>7
  <2> QED
    BY <1>0, <2>1
<1> QED
  BY <1>3, <1>8 DEF g

\* The sum over a set depends on its elements alone: not on the larger set it is
\* taken from, nor on the terms elsewhere.
LEMMA SumsAgree ==
    ASSUME NEW R, NEW S, IsFiniteSet(R), IsFiniteSet(S), NEW U, U \subseteq R, U \subseteq S,
           NEW c, NEW d, \A x \in U : c[x] = d[x]
    PROVE  Sums(c, R)[U] = Sums(d, S)[U]
<1> DEFINE g == Sums(c, R)
           h == Sums(d, S)
           T == {n \in Nat : \A s \in SUBSET U : Cardinality(s) <= n => g[s] = h[s]}
<1>0. \A s \in SUBSET U : IsFiniteSet(s) /\ Cardinality(s) \in Nat
  BY FS_Subset, FS_CardinalityType
<1>1. \A s : s # {} => Picked(s) \in s
  BY DEF Picked
<1>2. g = [s \in SUBSET R |-> TakeOne(c, g, s)] /\ h = [s \in SUBSET S |-> TakeOne(d, h, s)]
  BY SumsExist
<1> HIDE DEF g, h
<1>3. \A s \in SUBSET U : s \in SUBSET R /\ s \in SUBSET S
  OBVIOUS
<1>4. \A s \in SUBSET U : g[s] = TakeOne(c, g, s) /\ h[s] = TakeOne(d, h, s)
  BY <1>2, <1>3
<1>5. 0 \in T
  <2>1. \A s \in SUBSET U : Cardinality(s) <= 0 => s = {}
    BY <1>0, FS_EmptySet
  <2>2. g[{}] = 0 /\ h[{}] = 0
    BY <1>4 DEF TakeOne
  <2> QED
    BY <2>1, <2>2
<1>6. ASSUME NEW n \in Nat, n \in T
      PROVE  n + 1 \in T
  <2> SUFFICES ASSUME NEW s \in SUBSET U, Cardinality(s) <= n + 1
               PROVE  g[s] = h[s]
    OBVIOUS
  <2>1. CASE s = {}
    BY <1>4, <2>1 DEF TakeOne
  <2>2. CASE s # {}
    <3>1. PICK p \in s : p = Picked(s)
      BY <1>1, <2>2
    <3>2. s \ {p} \in SUBSET U /\ Cardinality(s \ {p}) <= n
      BY <1>0, TakenIsSmaller
    <3>3. g[s \ {p}] = h[s \ {p}] /\ c[p] = d[p]
      BY <1>6, <3>2
    <3>4. g[s] = c[p] + g[s \ {p}] /\ h[s] = d[p] + h[s \ {p}]
      BY <1>4, <2>2, <3>1 DEF TakeOne
    <3> QED
      BY <3>3, <3>4
  <2> QED
    BY <2>1, <2>2
<1>7. Cardinality(U) \in T
  <2> HIDE DEF T
  <2>1. U \in SUBSET U
    OBVIOUS
  <2> QED
    BY <1>0, <1>5, <1>6, <2>1, InductionOverSet
<1>8. g[U] = h[U]
  BY <1>0, <1>7
<1> QED
  BY <1>8 DEF g, h

\* What the proofs use of a sum: that of no terms, that of one more, and that it
\* is the same for the same terms.
THEOREM SumOfNone == \A c : SumOver(c, {}) = 0
<1> TAKE c
<1>1. IsFiniteSet({}) /\ \A x \in {} : c[x] \in Nat
  BY FS_EmptySet
<1> QED
  BY <1>1, SumIsIterated, SumsTakeAny

THEOREM SumOfOneMore ==
    ASSUME NEW S, IsFiniteSet(S), NEW x, x \notin S,
           NEW c, \A y \in S \cup {x} : c[y] \in Nat
    PROVE  SumOver(c, S) \in Nat /\ SumOver(c, S \cup {x}) = SumOver(c, S) + c[x]
<1> DEFINE all == S \cup {x}
<1>1. IsFiniteSet(all)
  BY FS_AddElement
<1>2. Sums(c, S)[S] = Sums(c, all)[S]
  BY <1>1, SumsAgree
<1>3. Sums(c, S)[S] \in Nat
  <2>1. S \in SUBSET S
    OBVIOUS
  <2> QED
    BY <2>1, SumsTakeAny
<1>4. Sums(c, all)[all] = c[x] + Sums(c, all)[S]
  <2>1. all \in SUBSET all /\ x \in all /\ all \ {x} = S
    OBVIOUS
  <2>2. \A y \in all : c[y] \in Nat
    OBVIOUS
  <2> HIDE DEF all
  <2>3. Sums(c, all)[all] = c[x] + Sums(c, all)[all \ {x}]
    BY <1>1, <2>1, <2>2, SumsTakeAny
  <2> QED
    BY <2>1, <2>3
<1>5. c[x] \in Nat
  OBVIOUS
<1> QED
  BY <1>2, <1>3, <1>4, <1>5, SumIsIterated

THEOREM SumOfSameTerms ==
    ASSUME NEW S, IsFiniteSet(S), NEW c, NEW d, \A x \in S : c[x] = d[x]
    PROVE  SumOver(c, S) = SumOver(d, S)
  BY SumsAgree, SumIsIterated

=============================================================================
