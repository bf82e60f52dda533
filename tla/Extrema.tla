------------------------------ MODULE Extrema ------------------------------
(***************************************************************************)
(* Facts the proofs need about bounded sets of numbers and about finite    *)
(* sets in order.                                                          *)
(***************************************************************************)
EXTENDS Integers, FiniteSetTheorems, WellFoundedInduction, TLAPS

(* A non-empty set of naturals has a least member.                         *)
LEMMA MinExists ==
  ASSUME NEW T, T \subseteq Nat, T # {}
  PROVE  \E x \in T : \A y \in T : x <= y
<1> DEFINE Below(x) == 0..x
           Segments == {Below(x) : x \in T}
<1>1. ASSUME NEW x \in T PROVE Below(x) \in FiniteSubsetsOf(Nat)
  <2>1. IsFiniteSet(0..x)
    BY FS_Interval
  <2>2. 0..x \subseteq Nat
    OBVIOUS
  <2>3. QED
    BY <2>1, <2>2 DEF FiniteSubsetsOf
<1>2. Segments # {} /\ Segments \subseteq FiniteSubsetsOf(Nat)
  BY <1>1
<1>3. IsWellFoundedOn(StrictSubsetOrdering(Nat), FiniteSubsetsOf(Nat))
  BY FS_StrictSubsetOrderingWellFounded
<1> HIDE DEF Segments
<1>4. PICK A \in Segments : \A B \in Segments : ~ (<<B, A>> \in StrictSubsetOrdering(Nat))
  BY <1>2, <1>3, WFMin
<1>5. PICK x \in T : A = 0..x
  BY DEF Segments
<1>6. ASSUME NEW y \in T, ~(x <= y) PROVE FALSE
  <2>1. 0..y \in Segments
    BY DEF Segments
  <2>2. x \in Nat /\ y \in Nat /\ y < x
    BY <1>6
  <2>3. 0..y \subseteq 0..x
    BY <2>2
  <2>4. x \in 0..x /\ x \notin 0..y
    BY <2>2
  <2>5. 0..y # 0..x
    BY <2>4
  <2>6. <<0..y, 0..x>> \in StrictSubsetOrdering(Nat)
    BY <2>2, <2>3, <2>5 DEF StrictSubsetOrdering
  <2>7. QED
    BY <1>4, <1>5, <2>1, <2>6
<1>7. QED
  BY <1>6

(* A non-empty bounded set of naturals has a greatest member.              *)
LEMMA MaxExists ==
  ASSUME NEW n \in Nat, NEW T, T \subseteq 1..n, T # {}
  PROVE  \E x \in T : \A y \in T : y <= x
<1> DEFINE U == {n - x : x \in T}
<1>1. U \subseteq Nat
  OBVIOUS
<1>2. U # {}
  <2>1. PICK x \in T : TRUE
    OBVIOUS
  <2>2. n - x \in U
    OBVIOUS
  <2>3. QED
    BY <2>2
<1> HIDE DEF U
<1>3. PICK u \in U : \A v \in U : u <= v
  BY <1>1, <1>2, MinExists
<1>4. PICK x \in T : u = n - x
  BY DEF U
<1>5. ASSUME NEW y \in T PROVE y <= x
  <2>1. n - y \in U
    BY DEF U
  <2>2. QED
    BY <1>3, <1>4, <2>1
<1>6. QED
  BY <1>5

(* A power of two is a natural number: it counts the subsets of 1..n.      *)
LEMMA PowerOfTwo ==
  ASSUME NEW n \in Nat
  PROVE  2 ^ n \in Nat
<1>1. IsFiniteSet(1..n) /\ Cardinality(1..n) = n
  BY FS_Interval
<1>2. QED
  BY <1>1, FS_SUBSET, FS_CardinalityType

-----------------------------------------------------------------------------
(* The rank of a member among the members not after it, and the sequence   *)
(* that lists a set in order.  before is a total order of the set, as a    *)
(* set of pairs.                                                           *)

TotalOrder(S, before) ==
  /\ \A e \in S : <<e, e>> \in before
  /\ \A e, f \in S : <<e, f>> \in before \/ <<f, e>> \in before
  /\ \A e, f \in S : <<e, f>> \in before /\ <<f, e>> \in before => e = f
  /\ \A e, f, g \in S : <<e, f>> \in before /\ <<f, g>> \in before => <<e, g>> \in before

NotAfter(S, before, e) == {f \in S : <<f, e>> \in before}
Rank(S, before, e) == Cardinality(NotAfter(S, before, e))

(* A rank is between one and the size of the set.                          *)
LEMMA RankType ==
  ASSUME NEW S, IsFiniteSet(S), NEW before, TotalOrder(S, before), NEW e \in S
  PROVE  Rank(S, before, e) \in 1..Cardinality(S)
<1>1. NotAfter(S, before, e) \in SUBSET S /\ e \in NotAfter(S, before, e)
  BY DEF NotAfter, TotalOrder
<1>2. /\ IsFiniteSet(NotAfter(S, before, e))
      /\ Cardinality(NotAfter(S, before, e)) <= Cardinality(S)
  BY <1>1, FS_Subset
<1>3. Cardinality(NotAfter(S, before, e)) \in Nat /\ Cardinality(S) \in Nat
  BY <1>2, FS_CardinalityType
<1>4. Cardinality(NotAfter(S, before, e)) # 0
  BY <1>1, <1>2, FS_EmptySet
<1>5. QED
  BY <1>2, <1>3, <1>4 DEF Rank

(* A member that comes later has the greater rank.                         *)
LEMMA RankGrows ==
  ASSUME NEW S, IsFiniteSet(S), NEW before, TotalOrder(S, before),
         NEW e \in S, NEW f \in S, e # f, <<e, f>> \in before
  PROVE  Rank(S, before, e) < Rank(S, before, f)
<1>1. NotAfter(S, before, e) \in SUBSET NotAfter(S, before, f)
  BY DEF NotAfter, TotalOrder
<1>2. f \in NotAfter(S, before, f) /\ f \notin NotAfter(S, before, e)
  BY DEF NotAfter, TotalOrder
<1>3. NotAfter(S, before, f) \in SUBSET S
  BY DEF NotAfter
<1>4. IsFiniteSet(NotAfter(S, before, f))
  BY <1>3, FS_Subset
<1>5. /\ IsFiniteSet(NotAfter(S, before, e))
      /\ Cardinality(NotAfter(S, before, e)) <= Cardinality(NotAfter(S, before, f))
      /\ Cardinality(NotAfter(S, before, f)) # Cardinality(NotAfter(S, before, e))
  BY <1>1, <1>2, <1>4, FS_Subset
<1>6. Cardinality(NotAfter(S, before, e)) \in Nat /\ Cardinality(NotAfter(S, before, f)) \in Nat
  BY <1>4, <1>5, FS_CardinalityType
<1>7. QED
  BY <1>5, <1>6 DEF Rank

(* Every number up to the size of the set is the rank of a member.         *)
LEMMA RankIsOnto ==
  ASSUME NEW S, IsFiniteSet(S), NEW before, TotalOrder(S, before),
         NEW i \in 1..Cardinality(S)
  PROVE  \E e \in S : Rank(S, before, e) = i
<1> DEFINE n == Cardinality(S)
           r == [e \in S |-> Rank(S, before, e)]
<1>1. n \in Nat
  BY FS_CardinalityType
<1>2. r \in [S -> 1..n]
  BY RankType
<1>3. \A e, f \in S : e # f => r[e] # r[f]
  <2> SUFFICES ASSUME NEW e \in S, NEW f \in S, e # f PROVE r[e] # r[f]
    OBVIOUS
  <2>1. r[e] \in Int /\ r[f] \in Int
    BY <1>1, <1>2
  <2>2. CASE <<e, f>> \in before
    BY <2>1, <2>2, RankGrows
  <2>3. CASE <<f, e>> \in before
    BY <2>1, <2>3, RankGrows
  <2>4. QED
    BY <2>2, <2>3 DEF TotalOrder
<1> HIDE DEF r
<1>4. r \in Injection(S, 1..n)
  BY <1>2, <1>3 DEF Injection, IsInjective
<1>5. IsFiniteSet(1..n) /\ Cardinality(1..n) = n
  BY <1>1, FS_Interval
<1>6. r \in Surjection(S, 1..n)
  BY <1>4, <1>5, FS_Injection
<1>7. PICK e \in S : r[e] = i
  BY <1>6 DEF Surjection
<1>8. QED
  BY <1>7 DEF r

(* A finite set can be listed in order.                                    *)
LEMMA ListExists ==
  ASSUME NEW S, IsFiniteSet(S), NEW before, TotalOrder(S, before)
  PROVE  \E q \in [1..Cardinality(S) -> S] :
           \A i, j \in 1..Cardinality(S) : i < j => q[i] # q[j] /\ <<q[i], q[j]>> \in before
<1> DEFINE n == Cardinality(S)
           q == [i \in 1..n |-> CHOOSE e \in S : Rank(S, before, e) = i]
<1>1. n \in Nat
  BY FS_CardinalityType
<1>2. \A i \in 1..n : q[i] \in S /\ Rank(S, before, q[i]) = i
  BY RankIsOnto
<1>3. q \in [1..n -> S]
  BY <1>2
<1>4. ASSUME NEW i \in 1..n, NEW j \in 1..n, i < j
      PROVE  q[i] # q[j] /\ <<q[i], q[j]>> \in before
  <2> HIDE DEF q
  <2>1. q[i] # q[j]
    BY <1>2, <1>4
  <2>2. CASE <<q[j], q[i]>> \in before
    <3>1. Rank(S, before, q[j]) < Rank(S, before, q[i])
      BY <1>2, <2>1, <2>2, RankGrows
    <3>2. QED
      BY <1>1, <1>2, <1>4, <3>1
  <2>3. QED
    BY <1>2, <2>1, <2>2 DEF TotalOrder
<1>5. QED
  BY <1>3, <1>4
 
(* A list of a finite set without repetition has every member.             *)
LEMMA ListIsFull ==
  ASSUME NEW S, IsFiniteSet(S), NEW q \in [1..Cardinality(S) -> S],
         \A i, j \in 1..Cardinality(S) : i < j => q[i] # q[j],
         NEW e \in S
  PROVE  \E i \in 1..Cardinality(S) : q[i] = e
<1> DEFINE n == Cardinality(S)
<1>1. n \in Nat
  BY FS_CardinalityType
<1>2. IsFiniteSet(1..n) /\ Cardinality(1..n) = n
  BY <1>1, FS_Interval
<1>3. \A i, j \in 1..n : i # j => q[i] # q[j]
  BY <1>1
<1>4. q \in Injection(1..n, S)
  BY <1>3 DEF Injection, IsInjective
<1>5. q \in Surjection(1..n, S)
  BY <1>2, <1>4, FS_Injection
<1>6. QED
  BY <1>5 DEF Surjection

(* Numbered without gap or repetition from one, the members up to any      *)
(* number are numbered so too.                                             *)
LEMMA NumberedPart ==
  ASSUME NEW S, IsFiniteSet(S), NEW p \in [S -> 1..Cardinality(S)],
         \A e, f \in S : p[e] = p[f] => e = f,
         NEW size \in Nat,
         NEW T, T = {e \in S : p[e] <= size}
  PROVE  IsFiniteSet(T) /\ \A e \in T : p[e] \in 1..Cardinality(T)
<1> DEFINE n == Cardinality(S)
<1>1. n \in Nat
  BY FS_CardinalityType
<1>2. IsFiniteSet(1..n) /\ Cardinality(1..n) = n
  BY <1>1, FS_Interval
<1>3. p \in Injection(S, 1..n)
  BY DEF Injection, IsInjective
<1>4. p \in Surjection(S, 1..n)
  BY <1>2, <1>3, FS_Injection
<1>5. IsFiniteSet(T)
  <2>1. T \in SUBSET S
    OBVIOUS
  <2>2. QED
    BY <2>1, FS_Subset
<1>6. ASSUME NEW e \in T PROVE p[e] <= Cardinality(T)
  <2> DEFINE m == p[e]
             g == [i \in 1..m |-> CHOOSE f \in S : p[f] = i]
  <2>1. m \in 1..n /\ m <= size
    OBVIOUS
  <2>2. \A i \in 1..m : g[i] \in S /\ p[g[i]] = i
    BY <1>1, <1>4, <2>1 DEF Surjection
  <2>3. \A i \in 1..m : g[i] \in T
    BY <1>1, <2>1, <2>2
  <2>4. g \in [1..m -> T]
    BY <2>3
  <2>5. g \in Injection(1..m, T)
    <3> HIDE DEF g
    <3>1. \A i, j \in 1..m : g[i] = g[j] => i = j
      BY <2>2
    <3>2. QED
      BY <2>4, <3>1 DEF Injection, IsInjective
  <2>6. Cardinality(1..m) <= Cardinality(T)
    BY <1>5, <2>5, FS_Injection
  <2>7. m \in Int /\ 1 \in Int /\ Cardinality(1..m) = m
    BY <1>1, <2>1, FS_Interval
  <2>8. QED
    BY <2>6, <2>7
<1>7. Cardinality(T) \in Nat
  BY <1>5, FS_CardinalityType
<1>8. QED
  BY <1>1, <1>5, <1>6, <1>7
=============================================================================
