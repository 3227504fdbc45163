----------------------------- MODULE OrderLemmas -----------------------------
(***************************************************************************)
(* Facts about finite sets and their order that the proofs of several      *)
(* modules use: the pages, batches and cursors of this system are the      *)
(* first elements of an ordered set.                                       *)
(***************************************************************************)
EXTENDS Integers, FiniteSets, FiniteSetTheorems, WellFoundedInduction, TLAPS

\* A set with one more element and its number; a set with one less.
LEMMA OneMore ==
    ASSUME NEW S, IsFiniteSet(S), NEW x, x \notin S
    PROVE  /\ IsFiniteSet(S \cup {x}) /\ Cardinality(S) \in Nat
           /\ Cardinality(S \cup {x}) = Cardinality(S) + 1
BY FS_AddElement, FS_CardinalityType

\* The same for a set that loses an element.
LEMMA OneLess ==
    ASSUME NEW S, IsFiniteSet(S), NEW x \in S
    PROVE  /\ IsFiniteSet(S \ {x}) /\ Cardinality(S) \in Nat \ {0}
           /\ Cardinality(S \ {x}) = Cardinality(S) - 1
<1>1. /\ Cardinality(S \ {x}) = Cardinality(S) - 1 /\ Cardinality(S) \in Nat
      /\ IsFiniteSet(S \ {x})
  BY FS_RemoveElement, FS_CardinalityType
<1>2. Cardinality(S) # 0
  BY FS_EmptySet
<1>3. QED
  BY <1>1, <1>2

\* A non-empty set of naturals has a smallest.
LEMMA SmallestExists ==
    ASSUME NEW T, T \subseteq Nat, T # {}
    PROVE  \E t \in T : \A y \in T : t <= y
<1>1. PICK R : IsWellFoundedOn(R, Nat) /\ \A a, b \in Nat : a < b => <<a, b>> \in R
  <2> DEFINE Q == OpToRel(<, Nat)
  <2>1. IsWellFoundedOn(Q, Nat)
    BY NatLessThanWellFounded, Zenon
  <2>2. \A a, b \in Nat : a < b => <<a, b>> \in Q
    BY DEF OpToRel
  <2> HIDE DEF Q
  <2>3. QED
    BY <2>1, <2>2
<1>2. PICK t \in T : \A y \in T : ~(<<y, t>> \in R)
  <2>1. IsWellFoundedOn(R, Nat) /\ T \subseteq Nat /\ T # {}
    BY <1>1
  <2>2. \E t \in T : \A y \in T : ~(<<y, t>> \in R)
    BY <2>1, WFMin, Zenon
  <2>3. QED
    BY <2>2
<1>3. \A y \in T : ~(y < t)
  BY <1>1, <1>2
<1>4. QED
  BY <1>3

\* A finite non-empty set of naturals has a largest.
LEMMA LargestExists ==
    ASSUME NEW S, S \subseteq Nat, S # {}, IsFiniteSet(S)
    PROVE  \E m \in S : \A x \in S : x <= m
<1> DEFINE Bad(T) == T # {} /\ T \subseteq S /\ \A m \in T : \E x \in T : ~(x <= m)
           Sizes == {Cardinality(T) : T \in {U \in SUBSET S : Bad(U)}}
<1>1. SUFFICES ASSUME Bad(S) PROVE FALSE
  OBVIOUS
<1>2. \A T : T \subseteq S => IsFiniteSet(T) /\ Cardinality(T) \in Nat
  BY FS_Subset, FS_CardinalityType
<1>3. Sizes \subseteq Nat /\ Sizes # {}
  BY <1>1, <1>2
<1>4. PICK n \in Sizes : \A k \in Sizes : n <= k
  BY <1>3, SmallestExists
<1>5. PICK T : T \subseteq S /\ Bad(T) /\ n = Cardinality(T)
  BY <1>4
<1>6. PICK x : x \in T
  BY <1>5
<1> DEFINE U == T \ {x}
<1>7. U \subseteq S /\ Cardinality(U) = n - 1 /\ n \in Nat \ {0}
  BY <1>2, <1>5, <1>6, OneLess
<1>8. ~Bad(U)
  <2>1. SUFFICES ASSUME Bad(U) PROVE FALSE
    OBVIOUS
  <2>2. Cardinality(U) \in Sizes
    BY <1>7, <2>1
  <2>3. QED
    BY <1>4, <1>7, <2>2
<1>9. CASE U = {}
  <2>1. T = {x} /\ x \in Nat
    BY <1>5, <1>6, <1>9
  <2>2. QED
    BY <1>5, <2>1
<1>10. CASE U # {}
  <2>1. PICK m \in U : \A y \in U : y <= m
    BY <1>7, <1>8, <1>10
  <2>2. m \in Nat /\ x \in Nat /\ m \in T /\ T \subseteq Nat
    BY <1>5, <1>6, <2>1
  <2>3. CASE x <= m
    BY <1>5, <2>1, <2>2, <2>3
  <2>4. CASE ~(x <= m)
    <3>1. \A y \in T : y <= x
      BY <2>1, <2>2, <2>4
    <3>2. QED
      BY <1>5, <1>6, <3>1
  <2>5. QED
    BY <2>3, <2>4
<1>11. QED
  BY <1>9, <1>10

\* A non-empty set of numbers up to n has a largest.
LEMMA LargestBelow ==
    ASSUME NEW n \in Nat, NEW S, S \subseteq 0..n, S # {}
    PROVE  \E m \in S : \A x \in S : x <= m
<1> DEFINE T == {n - x : x \in S}
<1>1. \A x \in S : x \in Nat /\ x <= n
  OBVIOUS
<1>2. T \subseteq Nat /\ T # {}
  <2>1. \A x \in S : n - x \in Nat
    BY <1>1
  <2>2. QED
    BY <2>1, Zenon
<1> HIDE DEF T
<1>3. PICK t \in T : \A y \in T : t <= y
  BY <1>2, SmallestExists
<1>4. PICK m \in S : t = n - m
  BY <1>3 DEF T
<1>5. \A x \in S : n - x \in T
  BY DEF T
<1>6. QED
  BY <1>1, <1>3, <1>4, <1>5

\* A finite set that a relation orders has a first element: the one that the
\* fewest come before.
LEMMA FirstExists ==
    ASSUME NEW S, IsFiniteSet(S), S # {}, NEW R,
           \A i \in S : <<i, i>> \notin R,
           \A i, j, k \in S : <<i, j>> \in R /\ <<j, k>> \in R => <<i, k>> \in R
    PROVE  \E i \in S : \A j \in S : <<j, i>> \notin R
<1> DEFINE Before(i) == {j \in S : <<j, i>> \in R}
           Sizes == {Cardinality(Before(i)) : i \in S}
<1>1. ASSUME NEW i \in S
      PROVE  IsFiniteSet(Before(i)) /\ Cardinality(Before(i)) \in Nat
  <2>1. Before(i) \subseteq S
    OBVIOUS
  <2> HIDE DEF Before
  <2>2. IsFiniteSet(Before(i))
    BY <2>1, FS_Subset
  <2>3. QED
    BY <2>2, FS_CardinalityType
<1>2. Sizes \subseteq Nat /\ Sizes # {}
  <2> HIDE DEF Before
  <2>1. \A i \in S : Cardinality(Before(i)) \in Nat
    BY <1>1
  <2>2. PICK i : i \in S
    OBVIOUS
  <2>3. Cardinality(Before(i)) \in Sizes
    BY <2>2
  <2>4. QED
    BY <2>1, <2>3
<1>3. PICK n \in Sizes : \A k \in Sizes : n <= k
  BY <1>2, SmallestExists
<1>4. PICK i \in S : n = Cardinality(Before(i))
  BY <1>3
<1>5. ASSUME NEW j \in S, <<j, i>> \in R PROVE FALSE
  <2>1. Before(j) \subseteq Before(i) \ {j} /\ j \in Before(i)
    BY <1>5
  <2> HIDE DEF Before
  <2>2. /\ IsFiniteSet(Before(i) \ {j}) /\ Cardinality(Before(i)) \in Nat
        /\ Cardinality(Before(i) \ {j}) = Cardinality(Before(i)) - 1
    BY <1>1, <2>1, OneLess
  <2>3. Cardinality(Before(j)) <= Cardinality(Before(i) \ {j})
    BY <2>1, <2>2, FS_Subset
  <2>4. n <= Cardinality(Before(j)) /\ Cardinality(Before(j)) \in Nat
    BY <1>1, <1>3
  <2>5. QED
    BY <1>4, <2>2, <2>3, <2>4
<1>6. QED
  BY <1>5

\* LIMIT n: what is not among the first n of an ordered set comes after all of
\* them, and then they are n at least.
LEMMA FirstRowsFull ==
    ASSUME NEW S, IsFiniteSet(S), NEW R, NEW n \in Nat,
           \A i \in S : <<i, i>> \notin R,
           \A i, j, k \in S : <<i, j>> \in R /\ <<j, k>> \in R => <<i, k>> \in R,
           \A i, j \in S : i = j \/ <<i, j>> \in R \/ <<j, i>> \in R,
           NEW first, first = {i \in S : Cardinality({j \in S : <<j, i>> \in R}) < n},
           NEW v \in S, v \notin first
    PROVE  /\ \A u \in first : <<u, v>> \in R
           /\ Cardinality(first) >= n
<1> DEFINE Before(i) == {j \in S : <<j, i>> \in R}
<1>1. ASSUME NEW i
      PROVE  IsFiniteSet(Before(i)) /\ Cardinality(Before(i)) \in Nat
  <2>1. Before(i) \subseteq S
    OBVIOUS
  <2> HIDE DEF Before
  <2>2. IsFiniteSet(Before(i))
    BY <2>1, FS_Subset
  <2>3. QED
    BY <2>2, FS_CardinalityType
<1>2. first = {i \in S : Cardinality(Before(i)) < n}
  OBVIOUS
<1>3. ASSUME NEW u \in first, <<u, v>> \notin R PROVE FALSE
  <2>1. u \in S /\ <<v, u>> \in R /\ Cardinality(Before(u)) < n
    BY <1>2, <1>3
  <2>2. Before(v) \subseteq Before(u)
    BY <2>1
  <2> HIDE DEF Before
  <2>3. Cardinality(Before(v)) <= Cardinality(Before(u))
    BY <1>1, <2>2, FS_Subset
  <2>4. QED
    BY <1>1, <1>2, <2>1, <2>3
<1>4. Cardinality(first) >= n
  <2> DEFINE Rest == S \ first
  <2>1. IsFiniteSet(Rest) /\ Rest # {} /\ Rest \subseteq S
    BY FS_Subset
  <2>2. PICK m \in Rest : \A y \in Rest : <<y, m>> \notin R
    <3>1. /\ \A i \in Rest : <<i, i>> \notin R
          /\ \A i, j, k \in Rest : <<i, j>> \in R /\ <<j, k>> \in R => <<i, k>> \in R
      BY <2>1
    <3> HIDE DEF Rest
    <3>2. QED
      BY <2>1, <3>1, FirstExists
  <2>3. Before(m) \subseteq first
    BY <2>2
  <2>4. first \subseteq S
    BY <1>2
  <2>5. IsFiniteSet(first) /\ Cardinality(first) \in Nat
    BY <2>4, FS_Subset, FS_CardinalityType
  <2>6. ~(Cardinality(Before(m)) < n)
    BY <1>2, <2>2
  <2> HIDE DEF Before
  <2>7. Cardinality(Before(m)) <= Cardinality(first)
    BY <2>3, <2>5, FS_Subset
  <2>8. QED
    BY <1>1, <2>5, <2>6, <2>7
<1>5. QED
  BY <1>3, <1>4

-----------------------------------------------------------------------------
(* Induction, with a set for what is to be shown.                          *)

\* A set of numbers with 0 and with the successor of each of its elements has all.
LEMMA Upwards ==
    ASSUME NEW Good, 0 \in Good, \A n \in Nat : n \in Good => n + 1 \in Good
    PROVE  \A n \in Nat : n \in Good
<1>1. SUFFICES ASSUME NEW n0 \in Nat, n0 \notin Good PROVE FALSE
  OBVIOUS
<1> DEFINE Bad == {n \in Nat : n \notin Good}
<1>2. Bad \subseteq Nat /\ Bad # {}
  BY <1>1
<1>3. PICK n \in Bad : \A y \in Bad : n <= y
  BY <1>2, SmallestExists
<1>4. n \in Nat /\ n # 0
  BY <1>3
<1>5. n - 1 \in Nat /\ ~(n <= n - 1) /\ (n - 1) + 1 = n
  BY <1>4
<1>6. n - 1 \in Good
  BY <1>3, <1>5
<1>7. QED
  BY <1>3, <1>5, <1>6

\* pick names an element of each subset of S.
Picks(pick, S) == \A s \in SUBSET S : s # {} => pick[s] \in s

\* Good has the empty set, and a subset of S if it has it without that element.
Grows(Good, pick, S) ==
    {} \in Good /\ \A s \in SUBSET S : s # {} /\ s \ {pick[s]} \in Good => s \in Good

\* Then it has every subset of S.
LEMMA EverySubset ==
    ASSUME NEW S, IsFiniteSet(S), NEW pick, Picks(pick, S), NEW Good, Grows(Good, pick, S)
    PROVE  \A s \in SUBSET S : s \in Good
<1> DEFINE Level == {n \in Nat : \A s \in SUBSET S : Cardinality(s) = n => s \in Good}
<1>1. \A s \in SUBSET S : IsFiniteSet(s) /\ Cardinality(s) \in Nat
  BY FS_Subset, FS_CardinalityType
<1>2. 0 \in Level
  BY <1>1, FS_EmptySet DEF Grows
<1>3. ASSUME NEW n \in Nat, n \in Level PROVE n + 1 \in Level
  <2>1. SUFFICES ASSUME NEW s \in SUBSET S, Cardinality(s) = n + 1 PROVE s \in Good
    OBVIOUS
  <2>2. s # {}
    <3>1. Cardinality(s) # 0
      BY <2>1
    <3>2. QED
      BY <3>1, FS_EmptySet
  <2>3. PICK x \in s : x = pick[s]
    BY <2>2 DEF Picks
  <2>4. Cardinality(s \ {x}) = n
    BY <1>1, <2>1, <2>3, OneLess
  <2>5. s \ {x} \in Good
    BY <1>3, <2>4
  <2>6. QED
    BY <2>2, <2>3, <2>5 DEF Grows
<1>4. \A n \in Nat : n \in Level
  <2> HIDE DEF Level
  <2>1. QED
    BY <1>2, <1>3, Upwards
<1>5. QED
  BY <1>1, <1>4

\* The value of a set is made from the element picked from it and the value of the
\* others.
FoldsBy(W, base, step, pick, S) ==
    /\ W[{}] = base
    /\ \A s \in SUBSET S : s # {} => W[s] = step[<<pick[s], W[s \ {pick[s]}]>>]

\* A fold over a finite set exists.
LEMMA FoldExists ==
    ASSUME NEW S, IsFiniteSet(S), NEW T, NEW base \in T, NEW step \in [S \X T -> T],
           NEW pick, Picks(pick, S)
    PROVE  \E W \in [SUBSET S -> T] : FoldsBy(W, base, step, pick, S)
<1> USE DEF Picks
<1> DEFINE Upto(n) == {s \in SUBSET S : Cardinality(s) <= n}
           Folds(W, n) == /\ W[{}] = base
                          /\ \A s \in Upto(n) :
                                s # {} => W[s] = step[<<pick[s], W[s \ {pick[s]}]>>]
           Good == {n \in Nat : \E W \in [SUBSET S -> T] : Folds(W, n)}
<1>1. \A s \in SUBSET S : IsFiniteSet(s) /\ Cardinality(s) \in Nat
  BY FS_Subset, FS_CardinalityType
<1>2. 0 \in Good
  <2>1. [s \in SUBSET S |-> base] \in [SUBSET S -> T]
    OBVIOUS
  <2>2. \A s \in Upto(0) : s = {}
    BY <1>1, FS_EmptySet
  <2>3. Folds([s \in SUBSET S |-> base], 0)
    BY <2>2
  <2>4. QED
    BY <2>1, <2>3
<1>3. ASSUME NEW n \in Nat, n \in Good PROVE n + 1 \in Good
  <2>1. PICK W \in [SUBSET S -> T] : Folds(W, n)
    BY <1>3
  <2>2. PICK V : V = [s \in SUBSET S |-> IF s \in Upto(n) \/ s = {} THEN W[s]
                                         ELSE step[<<pick[s], W[s \ {pick[s]}]>>]]
    OBVIOUS
  <2>3. \A s \in SUBSET S : s # {} =>
            pick[s] \in S /\ s \ {pick[s]} \in SUBSET S /\ W[s \ {pick[s]}] \in T
    OBVIOUS
  <2>4. V \in [SUBSET S -> T]
    <3>1. \A s \in SUBSET S : s # {} => step[<<pick[s], W[s \ {pick[s]}]>>] \in T
      BY <2>3
    <3> HIDE DEF Upto
    <3>2. QED
      BY <2>2, <3>1
  <2>5. V[{}] = base
    BY <2>1, <2>2
  <2>6. ASSUME NEW s \in Upto(n + 1), s # {}
        PROVE  V[s] = step[<<pick[s], V[s \ {pick[s]}]>>]
    <3>1. PICK x \in s : x = pick[s]
      BY <2>6
    <3>2. PICK r \in SUBSET S : r = s \ {x}
      BY <2>6
    <3>3. Cardinality(r) = Cardinality(s) - 1 /\ Cardinality(s) \in Nat /\ s \in SUBSET S
      BY <1>1, <2>6, <3>1, <3>2, OneLess
    <3>4. r \in Upto(n)
      BY <2>6, <3>2, <3>3
    <3>5. V[r] = W[r]
      BY <2>2, <3>2, <3>4
    <3>6. V[s] = step[<<x, W[r]>>]
      <4>1. CASE s \in Upto(n)
        BY <2>1, <2>2, <2>6, <3>1, <3>2, <3>3, <4>1
      <4>2. CASE s \notin Upto(n)
        <5> HIDE DEF Upto
        <5>1. QED
          BY <2>2, <2>6, <3>1, <3>2, <3>3, <4>2
      <4>3. QED
        BY <4>1, <4>2
    <3>7. QED
      BY <3>1, <3>2, <3>5, <3>6
  <2>7. Folds(V, n + 1)
    BY <2>5, <2>6
  <2> HIDE DEF Folds
  <2>8. QED
    BY <2>4, <2>7
<1>4. Cardinality(S) \in Good
  <2>1. \A n \in Nat : n \in Good
    <3> HIDE DEF Good
    <3>1. QED
      BY <1>2, <1>3, Upwards
  <2> HIDE DEF Good
  <2>2. QED
    BY <1>1, <2>1
<1>5. PICK W \in [SUBSET S -> T] : Folds(W, Cardinality(S))
  BY <1>4
<1>6. \A s \in SUBSET S : s \in Upto(Cardinality(S))
  BY FS_Subset
<1>7. QED
  BY <1>5, <1>6 DEF FoldsBy

-----------------------------------------------------------------------------
(* Rankings.                                                               *)

\* R orders S.
Orders(R, S) ==
    /\ \A i \in S : <<i, i>> \notin R
    /\ \A i, j, k \in S : <<i, j>> \in R /\ <<j, k>> \in R => <<i, k>> \in R
    /\ \A i, j \in S : i = j \/ <<i, j>> \in R \/ <<j, i>> \in R

\* How many come before an element.
Rank(R, S) == [i \in S |-> Cardinality({j \in S : <<j, i>> \in R})]

\* Each of two elements of an ordered set has another number of elements before
\* it, less than there are.
LEMMA RanksDiffer ==
    ASSUME NEW S, IsFiniteSet(S), NEW R, Orders(R, S), NEW rank, rank = Rank(R, S)
    PROVE  /\ rank \in [S -> Nat]
           /\ \A i \in S : rank[i] < Cardinality(S)
           /\ \A i, j \in S : <<i, j>> \in R => rank[i] < rank[j]
           /\ \A i, j \in S : rank[i] = rank[j] => i = j
<1> DEFINE Before(i) == {j \in S : <<j, i>> \in R}
<1>1. ASSUME NEW i \in S
      PROVE  IsFiniteSet(Before(i)) /\ Cardinality(Before(i)) \in Nat
  <2>1. Before(i) \subseteq S
    OBVIOUS
  <2> HIDE DEF Before
  <2>2. IsFiniteSet(Before(i))
    BY <2>1, FS_Subset
  <2>3. QED
    BY <2>2, FS_CardinalityType
<1>2. \A i \in S : rank[i] = Cardinality(Before(i))
  BY DEF Rank
<1>3. rank \in [S -> Nat]
  <2>1. \A i \in S : Cardinality(Before(i)) \in Nat
    BY <1>1
  <2>2. rank = [i \in S |-> Cardinality(Before(i))]
    BY DEF Rank
  <2> HIDE DEF Before
  <2>3. QED
    BY <2>1, <2>2
<1>4. ASSUME NEW i \in S PROVE rank[i] < Cardinality(S)
  <2>1. Before(i) \subseteq S \ {i}
    BY DEF Orders
  <2>2. IsFiniteSet(S \ {i}) /\ Cardinality(S) \in Nat \ {0}
        /\ Cardinality(S \ {i}) = Cardinality(S) - 1
    BY OneLess
  <2> HIDE DEF Before
  <2>3. Cardinality(Before(i)) <= Cardinality(S \ {i})
    BY <2>1, <2>2, FS_Subset
  <2>4. QED
    BY <1>1, <1>2, <2>2, <2>3
<1>5. ASSUME NEW i \in S, NEW j \in S, <<i, j>> \in R PROVE rank[i] < rank[j]
  <2>1. Before(i) \subseteq Before(j) \ {i} /\ i \in Before(j)
    BY <1>5 DEF Orders
  <2> HIDE DEF Before
  <2>2. /\ IsFiniteSet(Before(j) \ {i}) /\ Cardinality(Before(j)) \in Nat
        /\ Cardinality(Before(j) \ {i}) = Cardinality(Before(j)) - 1
    BY <1>1, <2>1, OneLess
  <2>3. Cardinality(Before(i)) <= Cardinality(Before(j) \ {i})
    BY <2>1, <2>2, FS_Subset
  <2>4. QED
    BY <1>1, <1>2, <2>2, <2>3
<1>6. ASSUME NEW i \in S, NEW j \in S, rank[i] = rank[j] PROVE i = j
  <2>1. rank[i] \in Nat /\ rank[j] \in Nat
    BY <1>3
  <2>2. <<i, j>> \notin R /\ <<j, i>> \notin R
    BY <1>5, <1>6, <2>1
  <2>3. QED
    BY <2>2 DEF Orders
<1>7. QED
  BY <1>3, <1>4, <1>5, <1>6

\* Every place of the ranking is somebody's.
LEMMA RanksTaken ==
    ASSUME NEW S, IsFiniteSet(S), NEW R, Orders(R, S), NEW k \in Nat, k < Cardinality(S)
    PROVE  \E i \in S : Rank(R, S)[i] = k
<1>1. PICK rank : rank = Rank(R, S)
  OBVIOUS
<1>2. /\ rank \in [S -> Nat]
      /\ \A i, j \in S : <<i, j>> \in R => rank[i] < rank[j]
      /\ \A i, j \in S : rank[i] = rank[j] => i = j
  BY <1>1, RanksDiffer
<1> DEFINE Low == {i \in S : rank[i] < k}
           Rest == {i \in S : ~(rank[i] < k)}
<1>3. IsFiniteSet(Low) /\ Cardinality(Low) \in Nat
  <2>1. Low \subseteq S
    OBVIOUS
  <2> HIDE DEF Low
  <2>2. QED
    BY <2>1, FS_Subset, FS_CardinalityType
<1>4. Cardinality(Low) <= k
  <2>1. PICK f : f = [i \in Low |-> rank[i]]
    OBVIOUS
  <2>2. f \in Injection(Low, 0..(k - 1))
    BY <1>2, <2>1 DEF Injection, IsInjective
  <2>3. IsFiniteSet(0..(k - 1)) /\ Cardinality(0..(k - 1)) = k
    BY FS_Interval
  <2> HIDE DEF Low
  <2>4. QED
    BY <1>3, <2>2, <2>3, FS_Injection
<1>5. Rest # {} /\ IsFiniteSet(Rest) /\ Rest \subseteq S
  <2>1. Rest \subseteq S
    OBVIOUS
  <2>2. CASE Rest = {}
    <3>1. Low = S
      BY <2>2
    <3> HIDE DEF Low
    <3>2. QED
      BY <1>3, <1>4, <3>1
  <2>3. QED
    BY <2>1, <2>2, FS_Subset
<1>6. PICK m \in Rest : \A j \in Rest : <<j, m>> \notin R
  <2>1. /\ \A i \in Rest : <<i, i>> \notin R
        /\ \A h, i, j \in Rest : <<h, i>> \in R /\ <<i, j>> \in R => <<h, j>> \in R
    BY <1>5 DEF Orders
  <2> HIDE DEF Rest
  <2>2. QED
    BY <1>5, <2>1, FirstExists
<1> DEFINE Before == {j \in S : <<j, m>> \in R}
<1>7. Before \subseteq Low /\ m \in S
  BY <1>6
<1>8. rank[m] = Cardinality(Before) /\ rank[m] \in Nat /\ ~(rank[m] < k)
  <2>1. ~(rank[m] < k) /\ m \in S
    BY <1>6
  <2>2. rank[m] = Cardinality(Before)
    BY <1>1, <2>1 DEF Rank
  <2>3. rank[m] \in Nat
    BY <1>2, <2>1
  <2>4. QED
    BY <2>1, <2>2, <2>3
<1>9. Cardinality(Before) <= Cardinality(Low)
  <2> HIDE DEF Before, Low
  <2>1. QED
    BY <1>3, <1>7, FS_Subset
<1>10. Cardinality(Before) = k
  <2> HIDE DEF Before, Low
  <2>1. QED
    BY <1>3, <1>4, <1>8, <1>9
<1>11. QED
  BY <1>1, <1>7, <1>8, <1>10

\* How many come before an element where a higher score comes first, and a later
\* id among equals.
Standing(S, f, m) == Cardinality({n \in S : f[n] > f[m] \/ (f[n] = f[m] /\ n > m)})

Scored(S, f) == S \subseteq Nat /\ IsFiniteSet(S) /\ \A s \in S : f[s] \in Int

\* Then too, every place is somebody's.
LEMMA PlacesTaken ==
    ASSUME NEW S, NEW f, Scored(S, f), NEW k \in Nat, k < Cardinality(S)
    PROVE  \E m \in S : Standing(S, f, m) = k
<1>0. S \subseteq Nat /\ IsFiniteSet(S) /\ \A s \in S : f[s] \in Int
  BY DEF Scored
<1> DEFINE Over(n, m) == f[n] > f[m] \/ (f[n] = f[m] /\ n > m)
<1>1. PICK R : R = {p \in S \X S : Over(p[1], p[2])}
  OBVIOUS
<1>2. \A n, m \in S : <<n, m>> \in R <=> Over(n, m)
  BY <1>1
<1>3. Orders(R, S)
  <2>1. \A i \in S : ~Over(i, i)
    BY <1>0
  <2>2. \A h, i, j \in S : Over(h, i) /\ Over(i, j) => Over(h, j)
    BY <1>0
  <2>3. \A i, j \in S : i = j \/ Over(i, j) \/ Over(j, i)
    BY <1>0
  <2> HIDE DEF Over
  <2>4. QED
    BY <1>2, <2>1, <2>2, <2>3 DEF Orders
<1>4. PICK m \in S : Rank(R, S)[m] = k
  BY <1>0, <1>3, RanksTaken
<1>5. {n \in S : Over(n, m)} = {n \in S : <<n, m>> \in R}
  <2> HIDE DEF Over
  <2>1. QED
    BY <1>2
<1>6. Rank(R, S)[m] = Cardinality({n \in S : Over(n, m)})
  <2> HIDE DEF Over
  <2>1. QED
    BY <1>5 DEF Rank
<1>7. QED
  BY <1>4, <1>6 DEF Standing
=============================================================================
