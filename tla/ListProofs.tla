----------------------------- MODULE ListProofs -----------------------------
(* What is used of natural numbers and linked lists in the other proofs.     *)
EXTENDS LinkedLists, FiniteSets, FiniteSetTheorems, NaturalsInduction,
        WellFoundedInduction, TLAPS

\* Induction, for a set in place of a predicate.
LEMMA NatRise ==
  ASSUME NEW S, 0 \in S, \A n \in Nat : n \in S => n + 1 \in S
  PROVE  \A n \in Nat : n \in S
<1> DEFINE T == Nat \ S
<1>1. SUFFICES ASSUME T # {} PROVE FALSE
  OBVIOUS
<1>2. PICK m \in T : \A y \in T : <<y, m>> \notin OpToRel(<, Nat)
  <2>1. T \subseteq Nat
    OBVIOUS
  <2>2. IsWellFoundedOn(OpToRel(<, Nat), Nat)
    BY NatLessThanWellFounded
  <2> HIDE DEF T
  <2> QED  BY <1>1, <2>1, <2>2, WFMin
<1>3. m \in Nat /\ m # 0 /\ m - 1 \in Nat /\ m - 1 < m
  OBVIOUS
<1>4. <<m - 1, m>> \in OpToRel(<, Nat)
  BY <1>3 DEF OpToRel
<1>5. m - 1 \in S
  BY <1>2, <1>3, <1>4
<1>6. (m - 1) + 1 \in S
  BY <1>3, <1>5
<1> QED  BY <1>3, <1>6

\* A set of numbers that is not empty has a least one.
LEMMA LeastNumber ==
  ASSUME NEW S \in SUBSET Nat, S # {}
  PROVE  \E m \in S : \A k \in S : m <= k
<1>1. IsWellFoundedOn(OpToRel(<, Nat), Nat)
  BY NatLessThanWellFounded
<1>2. PICK m \in S : \A y \in S : <<y, m>> \notin OpToRel(<, Nat)
  BY <1>1, WFMin
<1>3. ASSUME NEW k \in S, k < m PROVE FALSE
  BY <1>2, <1>3 DEF OpToRel
<1> QED  BY <1>3

-----------------------------------------------------------------------------
(* The walk along a list.                                                  *)

\* q is the whole list that starts with the node first, m nodes.
IsList(q, m, first, next, null) ==
  /\ m \in Nat /\ q = [i \in 1 .. m |-> q[i]]
  /\ \A i \in 1 .. m : q[i] \in DOMAIN next \ {null}
  /\ \A i, j \in 1 .. m : q[i] = q[j] => i = j
  /\ first = IF m = 0 THEN null ELSE q[1]
  /\ \A i \in 1 .. m : next[q[i]] = IF i = m THEN null ELSE q[i + 1]

\* The positions 1 to n of the walk.
IsWalk(at, first, next, n, null) ==
  at = [k \in 1 .. n |->
          IF k = 1 THEN first ELSE IF at[k - 1] = null THEN null ELSE next[at[k - 1]]]

WalkFrom(first, next, n, null) == CHOOSE at : IsWalk(at, first, next, n, null)

LEMMA NodesOnWalk ==
  ASSUME NEW first, NEW next, NEW n, NEW null
  PROVE  LET at == WalkFrom(first, next, n, null)
         IN  NodesFrom(first, next, n, null) = [k \in {i \in 1 .. n : at[i] # null} |-> at[k]]
  BY DEF NodesFrom, After, WalkFrom, IsWalk

\* The recursive definition of the walk defines something.
LEMMA WalkExists ==
  ASSUME NEW first, NEW next, NEW n \in Nat, NEW null
  PROVE  IsWalk(WalkFrom(first, next, n, null), first, next, n, null)
<1> DEFINE S == {m \in Nat : \E at : IsWalk(at, first, next, m, null)}
<1>1. 0 \in S
  <2>1. IsWalk([k \in 1 .. 0 |-> first], first, next, 0, null)
    BY DEF IsWalk
  <2> QED  BY <2>1
<1>2. ASSUME NEW m \in Nat, m \in S PROVE m + 1 \in S
  <2>1. PICK at : IsWalk(at, first, next, m, null)
    BY <1>2
  <2> DEFINE more == [k \in 1 .. m + 1 |->
                        IF k <= m THEN at[k]
                        ELSE IF k = 1 THEN first ELSE IF at[m] = null THEN null ELSE next[at[m]]]
  <2>2. ASSUME NEW k \in 1 .. m + 1
        PROVE  more[k] = IF k = 1 THEN first
                         ELSE IF more[k - 1] = null THEN null ELSE next[more[k - 1]]
    <3>1. CASE k <= m
      <4>1. at[k] = IF k = 1 THEN first ELSE IF at[k - 1] = null THEN null ELSE next[at[k - 1]]
        BY <2>1, <3>1 DEF IsWalk
      <4>2. more[k] = at[k] /\ (k # 1 => more[k - 1] = at[k - 1])
        BY <3>1
      <4> HIDE DEF more
      <4> QED  BY <4>1, <4>2
    <3>2. CASE k = m + 1
      BY <3>2
    <3> QED  BY <3>1, <3>2
  <2>3. IsWalk(more, first, next, m + 1, null)
    <3> HIDE DEF more
    <3>1. more = [k \in 1 .. m + 1 |-> more[k]]
      BY DEF more
    <3> QED  BY <2>2, <3>1 DEF IsWalk
  <2> HIDE DEF more
  <2> QED  BY <2>3
<1>3. n \in S
  <2> HIDE DEF S
  <2> QED  BY <1>1, <1>2, NatRise
<1> QED  BY <1>3 DEF WalkFrom

\* A walk along a list that fits gives the list.
THEOREM NodesFromList ==
  ASSUME NEW q, NEW m, NEW first, NEW next, NEW null, IsList(q, m, first, next, null),
         NEW n \in Nat, m <= n
  PROVE  NodesFrom(first, next, n, null) = q
<1> DEFINE at == WalkFrom(first, next, n, null)
<1>1. \A k \in 1 .. n : at[k] = IF k = 1 THEN first
                                ELSE IF at[k - 1] = null THEN null ELSE next[at[k - 1]]
  BY WalkExists DEF IsWalk
<1> HIDE DEF at
<1>2. /\ m \in Nat
      /\ \A i \in 1 .. m : q[i] \in DOMAIN next \ {null}
      /\ \A i \in 1 .. m : next[q[i]] = IF i = m THEN null ELSE q[i + 1]
      /\ first = IF m = 0 THEN null ELSE q[1]
  BY DEF IsList
<1> DEFINE S == {j \in Nat : j + 1 \in 1 .. n =>
                   at[j + 1] = IF j + 1 <= m THEN q[j + 1] ELSE null}
<1>3. 0 \in S
  BY <1>1, <1>2
<1>4. ASSUME NEW j \in Nat, j \in S PROVE j + 1 \in S
  <2> SUFFICES ASSUME j + 2 \in 1 .. n
               PROVE  at[j + 2] = IF j + 2 <= m THEN q[j + 2] ELSE null
    BY DEF S
  <2>1. at[j + 1] = IF j + 1 <= m THEN q[j + 1] ELSE null
    BY <1>4
  <2> HIDE DEF S
  <2>2. at[j + 2] = IF at[j + 1] = null THEN null ELSE next[at[j + 1]]
    BY <1>1
  <2>3. CASE j + 1 <= m
    BY <1>2, <2>1, <2>2, <2>3
  <2>4. CASE j + 1 > m
    BY <1>2, <2>1, <2>2, <2>4
  <2> QED  BY <1>2, <2>3, <2>4
<1>5. \A j \in Nat : j \in S
  <2> HIDE DEF S
  <2> QED  BY <1>3, <1>4, NatRise
<1>6. \A k \in 1 .. n : at[k] = IF k <= m THEN q[k] ELSE null
  <2> SUFFICES ASSUME NEW k \in 1 .. n PROVE at[k] = IF k <= m THEN q[k] ELSE null
    OBVIOUS
  <2>1. k - 1 \in S
    BY <1>5
  <2> QED  BY <2>1
<1>7. {i \in 1 .. n : at[i] # null} = 1 .. m
  BY <1>2, <1>6
<1>8. NodesFrom(first, next, n, null) = [k \in 1 .. m |-> at[k]]
  BY <1>7, NodesOnWalk DEF at
<1>9. \A k \in 1 .. m : at[k] = q[k]
  BY <1>2, <1>6
<1> QED  BY <1>8, <1>9 DEF IsList

\* A walk that cannot leave the finite set S, through nodes that each have one
\* node before them and away from a node that has none, meets the nodes of a
\* list.
THEOREM NodesAreList ==
  ASSUME NEW next, NEW null, NEW S \in SUBSET DOMAIN next, null \notin S, IsFiniteSet(S),
         NEW n \in Nat, Cardinality(S) <= n,
         NEW first \in S \cup {null},
         \A x \in S : next[x] \in S \cup {null},
         \A x \in S : next[x] = first => first = null,
         \A x, y \in S : next[x] = next[y] /\ next[x] # null => x = y
  PROVE  LET q == NodesFrom(first, next, n, null)
         IN  /\ q \in Seq(S) /\ Len(q) <= n
             /\ IsList(q, Len(q), first, next, null)
<1> DEFINE at == WalkFrom(first, next, n + 1, null)
<1>1. \A k \in 1 .. n + 1 : at[k] = IF k = 1 THEN first
                                    ELSE IF at[k - 1] = null THEN null ELSE next[at[k - 1]]
  BY WalkExists DEF IsWalk
<1> HIDE DEF at
<1>2. ASSUME NEW k \in 1 .. n
      PROVE  at[k + 1] = IF at[k] = null THEN null ELSE next[at[k]]
  BY <1>1
<1>3. at[1] = first
  BY <1>1
\* The walk stays in S, and at null.
<1>4. \A k \in 1 .. n + 1 : at[k] \in S \cup {null}
  <2> DEFINE T == {m \in Nat : m <= n => at[m + 1] \in S \cup {null}}
  <2>1. 0 \in T
    BY <1>3
  <2>2. ASSUME NEW m \in Nat, m \in T PROVE m + 1 \in T
    <3>1. CASE m + 1 <= n
      <4>1. at[m + 1] \in S \cup {null}
        BY <2>2, <3>1
      <4>2. at[(m + 1) + 1] = IF at[m + 1] = null THEN null ELSE next[at[m + 1]]
        BY <1>2, <3>1
      <4> QED  BY <4>1, <4>2
    <3> QED  BY <3>1
  <2>3. \A m \in Nat : m \in T
    <3> HIDE DEF T
    <3> QED  BY <2>1, <2>2, NatRise
  <2>4. ASSUME NEW k \in 1 .. n + 1 PROVE at[k] \in S \cup {null}
    <3>1. k - 1 \in T
      BY <2>3
    <3> QED  BY <3>1
  <2> QED  BY <2>4
\* It never comes back to a node.
<1>5. \A i, j \in 1 .. n + 1 : i < j /\ at[j] # null => at[i] # at[j]
  <2> DEFINE T == {m \in Nat : \A j \in 1 .. n + 1 :
                      m + 1 < j /\ at[j] # null => at[m + 1] # at[j]}
  <2>1. 0 \in T
    <3> SUFFICES ASSUME NEW j \in 1 .. n + 1, 1 < j, at[j] # null PROVE at[1] # at[j]
      OBVIOUS
    <3>1. j - 1 \in 1 .. n /\ j - 1 \in 1 .. n + 1
      OBVIOUS
    <3>2. at[j] = IF at[j - 1] = null THEN null ELSE next[at[j - 1]]
      BY <1>1
    <3>3. at[j - 1] \in S \cup {null}
      BY <1>4, <3>1
    <3> QED  BY <1>3, <3>2, <3>3
  <2>2. ASSUME NEW m \in Nat, m \in T PROVE m + 1 \in T
    <3> SUFFICES ASSUME NEW j \in 1 .. n + 1, m + 2 < j, at[j] # null, at[m + 2] = at[j]
                 PROVE  FALSE
      OBVIOUS
    <3>1. j - 1 \in 1 .. n + 1 /\ m + 1 \in 1 .. n + 1 /\ m + 2 \in 1 .. n + 1 /\ m + 1 < j - 1
      OBVIOUS
    <3>2. at[j - 1] # null /\ next[at[j - 1]] = at[j]
      BY <1>1
    <3>3. at[m + 1] # null /\ next[at[m + 1]] = at[j]
      <4>1. m + 2 # 1 /\ (m + 2) - 1 = m + 1
        OBVIOUS
      <4> HIDE DEF T
      <4> QED  BY <1>1, <3>1, <4>1
    <3>4. at[m + 1] = at[j - 1]
      <4>1. at[m + 1] \in S /\ at[j - 1] \in S
        BY <1>4, <3>1, <3>2, <3>3
      <4> QED  BY <3>2, <3>3, <4>1
    <3> QED  BY <2>2, <3>1, <3>2, <3>4
  <2>3. \A m \in Nat : m \in T
    <3> HIDE DEF T
    <3> QED  BY <2>1, <2>2, NatRise
  <2>4. ASSUME NEW i \in 1 .. n + 1, NEW j \in 1 .. n + 1, i < j, at[j] # null
        PROVE  at[i] # at[j]
    <3>1. i - 1 \in T
      BY <2>3
    <3> QED  BY <2>4, <3>1
  <2> QED  BY <2>4
\* So it comes to null: there are not enough nodes.
<1>6. PICK end \in 1 .. n + 1 : at[end] = null /\ \A k \in 1 .. end - 1 : at[k] # null
  <2>1. \E k \in 1 .. n + 1 : at[k] = null
    <3> SUFFICES ASSUME \A k \in 1 .. n + 1 : at[k] # null PROVE FALSE
      OBVIOUS
    <3> DEFINE f == [k \in 1 .. n + 1 |-> at[k]]
    <3>1. f \in [1 .. n + 1 -> S]
      BY <1>4
    <3>2. IsFiniteSet(1 .. n + 1) /\ Cardinality(1 .. n + 1) = n + 1
      BY FS_Interval
    <3>3. Cardinality(S) \in Nat
      BY FS_CardinalityType
    <3>4. \E i, j \in 1 .. n + 1 : i # j /\ f[i] = f[j]
      <4>1. Cardinality(S) < Cardinality(1 .. n + 1)
        BY <3>2, <3>3
      <4> HIDE DEF f
      <4> QED  BY <3>1, <3>2, <4>1, FS_PigeonHole
    <3>5. PICK i, j \in 1 .. n + 1 : i # j /\ at[i] = at[j]
      BY <3>4
    <3> QED  BY <1>5, <3>5
  <2> DEFINE Ends == {k \in 1 .. n + 1 : at[k] = null}
  <2>2. Ends \in SUBSET Nat /\ Ends # {}
    BY <2>1
  <2>3. PICK end \in Ends : \A k \in Ends : end <= k
    <3> HIDE DEF Ends
    <3> QED  BY <2>2, LeastNumber
  <2>4. \A k \in 1 .. end - 1 : at[k] # null
    BY <2>3
  <2> QED  BY <2>3, <2>4
<1> DEFINE m == end - 1
           q == [k \in 1 .. m |-> at[k]]
<1>7. m \in Nat /\ m <= n /\ q = [k \in 1 .. m |-> q[k]]
  BY <1>6
<1>8. \A k \in 1 .. m : q[k] = at[k] /\ at[k] \in S
  BY <1>4, <1>6
<1>9. \A i, j \in 1 .. m : q[i] = q[j] => i = j
  <2> SUFFICES ASSUME NEW i \in 1 .. m, NEW j \in 1 .. m, at[i] = at[j], i # j PROVE FALSE
    BY <1>8
  <2>1. i \in 1 .. n + 1 /\ j \in 1 .. n + 1 /\ at[i] # null
    BY <1>6
  <2> QED  BY <1>5, <2>1
<1>10. first = IF m = 0 THEN null ELSE q[1]
  BY <1>3, <1>6, <1>8
<1>11. ASSUME NEW i \in 1 .. m PROVE next[q[i]] = IF i = m THEN null ELSE q[i + 1]
  <2>1. i \in 1 .. n /\ at[i] # null /\ q[i] = at[i]
    BY <1>6, <1>8
  <2>2. next[q[i]] = at[i + 1]
    BY <1>2, <2>1
  <2>3. i # m => q[i + 1] = at[i + 1]
    BY <1>6, <1>8
  <2>4. i = m => i + 1 = end
    BY <1>6
  <2> HIDE DEF q
  <2> QED  BY <1>6, <2>2, <2>3, <2>4
<1> HIDE DEF q
<1>12. IsList(q, m, first, next, null)
  <2> HIDE DEF m
  <2>1. \A i \in 1 .. m : q[i] \in DOMAIN next \ {null}
    BY <1>8
  <2> QED  BY <1>7, <2>1, <1>9, <1>10, <1>11 DEF IsList
<1>13. q \in Seq(S) /\ Len(q) = m
  BY <1>7, <1>8
<1>14. NodesFrom(first, next, n, null) = q
  BY <1>7, <1>12, NodesFromList
<1> QED  BY <1>7, <1>12, <1>13, <1>14

-----------------------------------------------------------------------------
(* Lists that change.                                                      *)

\* A list is no longer than there are nodes.
LEMMA ListFits ==
  ASSUME NEW q, NEW m, NEW first, NEW next, NEW null, IsList(q, m, first, next, null),
         IsFiniteSet(DOMAIN next)
  PROVE  m <= Cardinality(DOMAIN next)
<1>1. m \in Nat
  BY DEF IsList
<1>2. IsFiniteSet(1 .. m) /\ Cardinality(1 .. m) = m
  BY <1>1, FS_Interval
<1>3. Cardinality(DOMAIN next) \in Nat
  BY FS_CardinalityType
<1>4. SUFFICES ASSUME Cardinality(DOMAIN next) < m PROVE FALSE
  BY <1>1, <1>3
<1>5. q \in [1 .. m -> DOMAIN next]
  BY DEF IsList
<1>6. \E i, j \in 1 .. m : i # j /\ q[i] = q[j]
  BY <1>2, <1>4, <1>5, FS_PigeonHole
<1> QED  BY <1>6 DEF IsList

\* A list does not depend on the links of nodes that are not in it.
LEMMA ListStays ==
  ASSUME NEW q, NEW m, NEW first, NEW next, NEW null, IsList(q, m, first, next, null),
         NEW next2, DOMAIN next2 = DOMAIN next, \A i \in 1 .. m : next2[q[i]] = next[q[i]]
  PROVE  IsList(q, m, first, next2, null)
  BY DEF IsList

\* A list without nodes.
LEMMA EmptyList == ASSUME NEW next, NEW null PROVE IsList(<<>>, 0, null, next, null)
  BY DEF IsList

\* A list has as many nodes as it has places.
LEMMA ListDistinct ==
  ASSUME NEW q, NEW m, NEW first, NEW next, NEW null, IsList(q, m, first, next, null)
  PROVE  LET Nodes == {q[i] : i \in DOMAIN q}
         IN  IsFiniteSet(Nodes) /\ Cardinality(Nodes) = m /\ Len(q) = m
<1> DEFINE Nodes == {q[i] : i \in 1 .. m}
<1>1. m \in Nat /\ q = [i \in 1 .. m |-> q[i]]
  BY DEF IsList
<1>2. DOMAIN q = 1 .. m /\ Len(q) = m
  BY <1>1
<1>3. IsFiniteSet(1 .. m) /\ Cardinality(1 .. m) = m
  BY <1>1, FS_Interval
<1>4. q \in Bijection(1 .. m, Nodes)
  BY <1>1 DEF IsList, Bijection, Injection, Surjection, IsInjective
<1>5. IsFiniteSet(Nodes) /\ Cardinality(Nodes) = m
  <2> HIDE DEF Nodes
  <2> QED  BY <1>3, <1>4, FS_Bijection DEF ExistsBijection
<1> QED  BY <1>2, <1>5

\* q, of m nodes, with p behind the first k of them.
Placed(q, m, k, p) ==
  [i \in 1 .. m + 1 |-> IF i <= k THEN q[i] ELSE IF i = k + 1 THEN p ELSE q[i - 1]]

\* Two links put a node into a list.
LEMMA PlacedIsList ==
  ASSUME NEW q, NEW m, NEW first, NEW next, NEW null, IsList(q, m, first, next, null),
         NEW p \in DOMAIN next, p # null, \A i \in 1 .. m : q[i] # p,
         NEW k \in 0 .. m,
         NEW first2, first2 = IF k = 0 THEN p ELSE first,
         NEW next2, DOMAIN next2 = DOMAIN next,
         next2[p] = IF k = m THEN null ELSE q[k + 1],
         \A i \in 1 .. m : next2[q[i]] = IF i = k THEN p ELSE next[q[i]]
  PROVE  IsList(Placed(q, m, k, p), m + 1, first2, next2, null)
<1> DEFINE r == Placed(q, m, k, p)
<1>1. /\ m \in Nat
      /\ \A i \in 1 .. m : q[i] \in DOMAIN next \ {null}
      /\ \A i, j \in 1 .. m : q[i] = q[j] => i = j
      /\ \A i \in 1 .. m : next[q[i]] = IF i = m THEN null ELSE q[i + 1]
      /\ first = IF m = 0 THEN null ELSE q[1]
  BY DEF IsList
<1>2. /\ r = [i \in 1 .. m + 1 |-> r[i]]
      /\ \A i \in 1 .. m + 1 :
           r[i] = IF i <= k THEN q[i] ELSE IF i = k + 1 THEN p ELSE q[i - 1]
  BY DEF Placed
<1> HIDE DEF r
<1>3. \A i \in 1 .. m + 1 : r[i] \in DOMAIN next2 \ {null}
  BY <1>1, <1>2
<1>4. \A i, j \in 1 .. m + 1 : r[i] = r[j] => i = j
  <2> SUFFICES ASSUME NEW i \in 1 .. m + 1, NEW j \in 1 .. m + 1, r[i] = r[j], i < j
               PROVE  FALSE
    BY <1>1
  <2>1. CASE i <= k /\ j <= k
    BY <1>1, <1>2, <2>1
  <2>2. CASE i <= k /\ j = k + 1
    BY <1>1, <1>2, <2>2
  <2>3. CASE i <= k /\ j > k + 1
    <3>1. i \in 1 .. m /\ j - 1 \in 1 .. m /\ i # j - 1 /\ r[i] = q[i] /\ r[j] = q[j - 1]
      BY <1>1, <1>2, <2>3
    <3> QED  BY <1>1, <3>1
  <2>4. CASE i = k + 1
    <3>1. r[i] = p /\ j - 1 \in 1 .. m /\ r[j] = q[j - 1]
      BY <1>1, <1>2, <2>4
    <3> QED  BY <3>1
  <2>5. CASE i > k + 1
    <3>1. /\ i - 1 \in 1 .. m /\ j - 1 \in 1 .. m /\ i - 1 # j - 1
          /\ r[i] = q[i - 1] /\ r[j] = q[j - 1]
      BY <1>1, <1>2, <2>5
    <3> QED  BY <1>1, <3>1
  <2> QED  BY <1>1, <2>1, <2>2, <2>3, <2>4, <2>5
<1>5. first2 = r[1]
  BY <1>1, <1>2
<1>6. ASSUME NEW i \in 1 .. m + 1 PROVE next2[r[i]] = IF i = m + 1 THEN null ELSE r[i + 1]
  <2>1. CASE i < k
    BY <1>1, <1>2, <2>1
  <2>2. CASE i = k
    BY <1>1, <1>2, <2>2
  <2>3. CASE i = k + 1
    BY <1>1, <1>2, <2>3
  <2>4. CASE i > k + 1
    <3>1. i - 1 \in 1 .. m /\ i - 1 # k /\ r[i] = q[i - 1] /\ (i - 1) + 1 = i
      BY <1>1, <1>2, <2>4
    <3>2. next2[r[i]] = IF i - 1 = m THEN null ELSE q[i]
      BY <1>1, <3>1
    <3>3. ASSUME i # m + 1 PROVE r[i + 1] = q[i]
      <4>1. i + 1 \in 1 .. m + 1 /\ ~(i + 1 <= k) /\ i + 1 # k + 1 /\ (i + 1) - 1 = i
        BY <1>1, <2>4, <3>3
      <4> QED  BY <1>2, <4>1
    <3> QED  BY <1>1, <3>1, <3>2, <3>3
  <2> QED  BY <1>1, <2>1, <2>2, <2>3, <2>4
<1>7. IsList(r, m + 1, first2, next2, null)
  <2>1. m + 1 \in Nat /\ m + 1 # 0
    BY <1>1
  <2>2. r = [i \in 1 .. m + 1 |-> r[i]]
    BY <1>2
  <2> QED  BY <1>3, <1>4, <1>5, <1>6, <2>1, <2>2 DEF IsList
<1> QED  BY <1>7 DEF r
=============================================================================
