--------------------------- MODULE InductionLemmas ----------------------------
(***************************************************************************)
(* Induction over numbers, for sets instead of predicates: a set of        *)
(* numbers has a least element, a sequence of which each element is        *)
(* computed from the one before exists, and so do the sums of a sequence.  *)
(***************************************************************************)
EXTENDS Integers, Sequences, WellFoundedInduction, TLAPS

LEMMA LeastElement ==
    ASSUME NEW T, T \subseteq Nat, T # {}
    PROVE  \E k \in T : \A j \in T : k <= j
  <1> DEFINE less == OpToRel(<, Nat)
  <1>1. IsWellFoundedOn(less, Nat)
    BY NatLessThanWellFounded
  <1>2. \A x, y \in Nat : x < y => <<x, y>> \in less
    BY DEF OpToRel
  <1> HIDE DEF less
  <1>3. PICK k \in T : \A j \in T : <<j, k>> \notin less
    BY <1>1, WFMin, Zenon
  <1>4. \A j \in T : k <= j
    <2>1. \A j \in T : k \in Nat /\ j \in Nat /\ ~(j < k)
      BY <1>2, <1>3
    <2> QED  BY <2>1
  <1> QED  BY <1>4

StepsOf(S, n) == [1 .. n -> [S -> S]]
StepsFrom(h, first, G, n) == \A i \in 1 .. n : h[i] = IF i = 1 THEN first ELSE G[i][h[i - 1]]

\* A sequence of which each element is computed from the one before exists.
LEMMA Stepwise ==
    ASSUME NEW S, NEW n \in Nat, NEW first \in S, NEW G \in StepsOf(S, n)
    PROVE  \E h \in [1 .. n -> S] : StepsFrom(h, first, G, n)
  <1> DEFINE Good(h, m) == \A i \in 1 .. m : h[i] = IF i = 1 THEN first ELSE G[i][h[i - 1]]
             Short == {m \in Nat : m <= n /\ ~\E h \in [1 .. m -> S] : Good(h, m)}
  <1>0. G \in [1 .. n -> [S -> S]]
    BY DEF StepsOf
  <1>1. Short = {}
    <2> SUFFICES ASSUME Short # {} PROVE FALSE
      OBVIOUS
    <2>1. PICK m \in Short : \A j \in Short : m <= j
      <3> HIDE DEF Short
      <3>1. Short \subseteq Nat
        BY DEF Short
      <3> QED  BY <3>1, LeastElement
    <2>2. m \in Nat /\ m <= n
      OBVIOUS
    <2>3. m # 0
      <3>1. [i \in 1 .. 0 |-> first] \in [1 .. 0 -> S] /\ Good([i \in 1 .. 0 |-> first], 0)
        OBVIOUS
      <3> QED  BY <3>1
    <2>4. PICK h \in [1 .. m - 1 -> S] : Good(h, m - 1)
      <3>1. m - 1 \in Nat /\ m - 1 <= n /\ ~(m <= m - 1)
        BY <2>2, <2>3
      <3>2. m - 1 \notin Short
        BY <2>1, <3>1
      <3> QED  BY <3>1, <3>2
    <2> DEFINE last == IF m = 1 THEN first ELSE G[m][h[m - 1]]
               g == [i \in 1 .. m |-> IF i = m THEN last ELSE h[i]]
    <2>5. last \in S
      <3>1. CASE m = 1
        BY <3>1
      <3>2. CASE m # 1
        <4>1. m \in 1 .. n /\ m - 1 \in 1 .. m - 1
          BY <2>2, <2>3, <3>2
        <4>2. G[m] \in [S -> S] /\ h[m - 1] \in S
          BY <1>0, <4>1
        <4> QED  BY <3>2, <4>2
      <3> QED  BY <3>1, <3>2
    <2>6. \A i \in 1 .. m : i # m => i \in 1 .. m - 1
      BY <2>2
    <2>7. g \in [1 .. m -> S]
      <3> HIDE DEF last
      <3> QED  BY <2>5, <2>6
    <2>8. Good(g, m)
      <3> SUFFICES ASSUME NEW i \in 1 .. m
                   PROVE  g[i] = IF i = 1 THEN first ELSE G[i][g[i - 1]]
        OBVIOUS
      <3>1. i # 1 => i - 1 \in 1 .. m /\ i - 1 # m /\ g[i - 1] = h[i - 1]
        BY <2>2
      <3>2. CASE i = m
        BY <3>1, <3>2
      <3>3. CASE i # m
        <4>1. i \in 1 .. m - 1 /\ g[i] = h[i]
          BY <2>6, <3>3
        <4>2. h[i] = IF i = 1 THEN first ELSE G[i][h[i - 1]]
          BY <2>4, <4>1
        <4> QED  BY <3>1, <4>1, <4>2
      <3> QED  BY <3>2, <3>3
    <2> HIDE DEF g, last, Good
    <2>9. m \notin Short
      BY <2>7, <2>8
    <2> QED  BY <2>9
  <1>2. PICK h \in [1 .. n -> S] : Good(h, n)
    <2>1. n <= n
      OBVIOUS
    <2> HIDE DEF Good
    <2> QED  BY <1>1, <2>1
  <1> QED  BY <1>2 DEF StepsFrom

\* The sums of the first steps: where things begin that follow each other.
SumsOf(sum, first, step, n) ==
    sum = [k \in 1 .. n + 1 |-> IF k = 1 THEN first ELSE sum[k - 1] + step[k - 1]]

LEMMA SumsExist ==
    ASSUME NEW n \in Nat, NEW first \in Nat, NEW step \in [1 .. n -> Nat]
    PROVE  \E sum : SumsOf(sum, first, step, n)
  <1> DEFINE m == n + 1
             G == [k \in 1 .. m |-> [x \in Nat |-> IF k = 1 THEN 0 ELSE x + step[k - 1]]]
  <1>1. m \in Nat /\ \A k \in 1 .. m : k # 1 => k - 1 \in 1 .. m /\ step[k - 1] \in Nat
    OBVIOUS
  <1>2. G \in StepsOf(Nat, m)
    BY <1>1 DEF StepsOf
  <1>3. \A k \in 1 .. m, x \in Nat : k # 1 => G[k][x] = x + step[k - 1]
    OBVIOUS
  <1> HIDE DEF G
  <1>4. PICK h \in [1 .. m -> Nat] : StepsFrom(h, first, G, m)
    BY <1>1, <1>2, Stepwise
  <1>5. \A k \in 1 .. m : h[k] = IF k = 1 THEN first ELSE h[k - 1] + step[k - 1]
    BY <1>1, <1>3, <1>4 DEF StepsFrom
  <1>6. h = [k \in 1 .. m |-> h[k]]
    OBVIOUS
  <1> HIDE DEF m
  <1>7. h = [k \in 1 .. m |-> IF k = 1 THEN first ELSE h[k - 1] + step[k - 1]]
    BY <1>5, <1>6
  <1> QED  BY <1>7 DEF SumsOf, m

LEMMA SumsGrow ==
    ASSUME NEW n \in Nat, NEW first \in Nat, NEW step \in [1 .. n -> Nat \ {0}],
           NEW sum, SumsOf(sum, first, step, n)
    PROVE  /\ sum \in [1 .. n + 1 -> Nat] /\ sum[1] = first
           /\ \A k \in 1 .. n : sum[k + 1] = sum[k] + step[k]
           /\ \A j, k \in 1 .. n + 1 : j < k => sum[j] < sum[k]
  <1> DEFINE m == n + 1
  <1>0. m \in Nat
    OBVIOUS
  <1>1. /\ \A k \in 1 .. m : sum[k] = IF k = 1 THEN first ELSE sum[k - 1] + step[k - 1]
        /\ sum = [k \in 1 .. m |-> sum[k]]
    <2> DEFINE given == [k \in 1 .. m |-> IF k = 1 THEN first ELSE sum[k - 1] + step[k - 1]]
    <2>1. sum = given
      BY DEF SumsOf
    <2>2. /\ \A k \in 1 .. m : given[k] = IF k = 1 THEN first ELSE sum[k - 1] + step[k - 1]
          /\ given = [k \in 1 .. m |-> given[k]]
      OBVIOUS
    <2> HIDE DEF given
    <2>3. sum = [k \in 1 .. m |-> sum[k]]
      BY <2>1, <2>2, Zenon
    <2>4. \A k \in 1 .. m : sum[k] = IF k = 1 THEN first ELSE sum[k - 1] + step[k - 1]
      BY <2>1, <2>2, Zenon
    <2> QED  BY <2>3, <2>4
  <1>2. \A k \in 1 .. m : k # 1 => /\ k - 1 \in 1 .. m /\ k - 1 \in Nat
                                   /\ step[k - 1] \in Nat /\ 0 < step[k - 1]
    OBVIOUS
  <1> DEFINE Bad == {k \in 1 .. m : ~(sum[k] \in Nat /\ \A j \in 1 .. m : j < k => sum[j] < sum[k])}
  <1>3. Bad = {}
    <2> SUFFICES ASSUME Bad # {} PROVE FALSE
      OBVIOUS
    <2>1. PICK k \in Bad : \A j \in Bad : k <= j
      <3>1. Bad \subseteq Nat
        OBVIOUS
      <3> HIDE DEF Bad
      <3> QED  BY <3>1, LeastElement
    <2>2. k \in 1 .. m /\ ~(sum[k] \in Nat /\ \A j \in 1 .. m : j < k => sum[j] < sum[k])
      OBVIOUS
    <2>3. k # 1
      <3> SUFFICES ASSUME k = 1 PROVE FALSE
        OBVIOUS
      <3> HIDE DEF m
      <3>1. sum[k] = first
        BY <1>1, <2>2
      <3>2. \A j \in 1 .. m : ~(j < k)
        BY <1>0
      <3> QED  BY <2>2, <3>1, <3>2
    <2>4. k - 1 \in 1 .. m /\ k - 1 \notin Bad
      <3>1. k - 1 \in 1 .. m /\ ~(k <= k - 1)
        BY <1>2, <2>2, <2>3
      <3> HIDE DEF Bad
      <3> QED  BY <2>1, <3>1
    <2>5. sum[k - 1] \in Nat /\ \A j \in 1 .. m : j < k - 1 => sum[j] < sum[k - 1]
      BY <2>4
    <2>6. sum[k] = sum[k - 1] + step[k - 1] /\ step[k - 1] \in Nat /\ 0 < step[k - 1]
      BY <1>1, <1>2, <2>2, <2>3
    <2>7. sum[k] \in Nat /\ sum[k - 1] < sum[k]
      BY <2>5, <2>6
    <2>8. ASSUME NEW j \in 1 .. m, j < k PROVE sum[j] < sum[k]
      <3>1. j < k - 1 \/ j = k - 1
        BY <2>2, <2>8
      <3>2. j < k - 1 => sum[j] \in Nat
        <4> SUFFICES ASSUME j < k - 1 PROVE sum[j] \in Nat
          OBVIOUS
        <4>1. ~(k <= j)
          BY <2>2, <2>8
        <4> HIDE DEF Bad
        <4>2. j \notin Bad
          BY <2>1, <4>1
        <4> QED  BY <4>2 DEF Bad
      <3> HIDE DEF m, Bad
      <3>3. CASE j = k - 1
        BY <2>7, <3>3
      <3>4. CASE j < k - 1
        <4>1. sum[j] < sum[k - 1] /\ sum[j] \in Nat
          BY <2>5, <3>2, <3>4
        <4> QED  BY <2>5, <2>7, <4>1
      <3> QED  BY <3>1, <3>3, <3>4
    <2> QED  BY <2>2, <2>7, <2>8
  <1>4. /\ \A k \in 1 .. m : sum[k] \in Nat
        /\ \A j, k \in 1 .. m : j < k => sum[j] < sum[k]
    BY <1>3
  <1>5. \A k \in 1 .. n : sum[k + 1] = sum[k] + step[k]
    <2> SUFFICES ASSUME NEW k \in 1 .. n PROVE sum[k + 1] = sum[k] + step[k]
      OBVIOUS
    <2>1. k + 1 \in 1 .. m /\ k + 1 # 1 /\ (k + 1) - 1 = k
      OBVIOUS
    <2> HIDE DEF m
    <2> QED  BY <1>1, <2>1
  <1>6. sum \in [1 .. m -> Nat] /\ sum[1] = first
    <2>1. 1 \in 1 .. m
      OBVIOUS
    <2> HIDE DEF m
    <2>2. [k \in 1 .. m |-> sum[k]] \in [1 .. m -> Nat]
      BY <1>4
    <2> QED  BY <1>1, <2>1, <2>2
  <1> QED  BY <1>4, <1>5, <1>6
=============================================================================
