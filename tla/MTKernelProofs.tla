--------------------------- MODULE MTKernelProofs ---------------------------
(* Theorems about MTKernel for every number of PROCs.                       *)
EXTENDS MCMTKernel, ListProofs

-----------------------------------------------------------------------------
(* What ch3/queue.c does to any list and for any priorities.               *)

\* The first m of the PROCs in q have priorities that do not rise.
Falling(q, m, prio) ==
  \A i, j \in 1 .. m : i < j => prio[q[i]] >= prio[q[j]]

\* The first k PROCs of q stay before p, the others come behind it.
Splits(q, m, k, prio, p) ==
  /\ \A i \in 1 .. k : prio[q[i]] >= prio[p]
  /\ \A i \in k + 1 .. m : prio[q[i]] < prio[p]

\* enqueue (queue.c:29-52) puts a PROC into any sorted list behind those of its
\* own priority or a higher one and before the others, and changes no link but
\* its own and that of the PROC it comes behind.
THEOREM EnqueueInserts ==
  ASSUME NEW q, NEW m, NEW list, NEW link, IsList(q, m, list, link, NULL),
         IsFiniteSet(DOMAIN link),
         NEW p \in DOMAIN link, p # NULL, \A i \in 1 .. m : q[i] # p,
         NEW prio, \A x \in DOMAIN link \ {NULL} : prio[x] \in Int,
         Falling(q, m, prio)
  PROVE  LET e == enqueue(list, link, prio, p)
         IN  \E k \in 0 .. m :
               /\ IsList(Placed(q, m, k, p), m + 1, e.list, e.next, NULL)
               /\ Splits(q, m, k, prio, p)
               /\ DOMAIN e.next = DOMAIN link
               /\ \A x \in DOMAIN link :
                    x # p /\ (\A i \in 1 .. m : i = k => x # q[i]) => e.next[x] = link[x]
<1> DEFINE e == enqueue(list, link, prio, p)
           Goal(k) ==
             /\ IsList(Placed(q, m, k, p), m + 1, e.list, e.next, NULL)
             /\ Splits(q, m, k, prio, p)
             /\ DOMAIN e.next = DOMAIN link
             /\ \A x \in DOMAIN link :
                  x # p /\ (\A i \in 1 .. m : i = k => x # q[i]) => e.next[x] = link[x]
<1> SUFFICES \E k \in 0 .. m : Goal(k)
  OBVIOUS
<1>1. /\ m \in Nat
      /\ \A i \in 1 .. m : q[i] \in DOMAIN link \ {NULL}
      /\ \A i, j \in 1 .. m : q[i] = q[j] => i = j
      /\ \A i \in 1 .. m : link[q[i]] = IF i = m THEN NULL ELSE q[i + 1]
      /\ list = IF m = 0 THEN NULL ELSE q[1]
  BY DEF IsList
<1>2. \A i \in 1 .. m : prio[q[i]] \in Int /\ prio[p] \in Int
  BY <1>1
<1>3. CASE list = NULL \/ prio[p] > prio[list]
  <2>1. e.list = p /\ e.next = [link EXCEPT ![p] = list]
    BY <1>3 DEF enqueue, LinkedTo
  <2>2. /\ DOMAIN e.next = DOMAIN link /\ e.next[p] = list
        /\ \A x \in DOMAIN link : x # p => e.next[x] = link[x]
    BY <2>1
  <2> HIDE DEF e
  <2>3. IsList(Placed(q, m, 0, p), m + 1, e.list, e.next, NULL)
    <3>1. PICK k \in 0 .. m : k = 0
      BY <1>1
    <3>2. e.list = IF k = 0 THEN p ELSE list
      BY <2>1, <3>1
    <3>3. e.next[p] = IF k = m THEN NULL ELSE q[k + 1]
      BY <1>1, <2>2, <3>1
    <3>4. \A i \in 1 .. m : e.next[q[i]] = IF i = k THEN p ELSE link[q[i]]
      BY <1>1, <2>2, <3>1
    <3>5. IsList(Placed(q, m, k, p), m + 1, e.list, e.next, NULL)
      BY <2>2, <3>2, <3>3, <3>4, PlacedIsList
    <3> QED  BY <3>1, <3>5
  <2>4. Splits(q, m, 0, prio, p)
    <3> SUFFICES ASSUME NEW i \in 1 .. m PROVE prio[q[i]] < prio[p]
      BY DEF Splits
    <3>1. m # 0 /\ 1 \in 1 .. m
      BY <1>1
    <3>2. prio[q[1]] < prio[p]
      BY <1>1, <1>2, <1>3, <3>1
    <3>3. i # 1 => prio[q[1]] >= prio[q[i]]
      BY <3>1 DEF Falling
    <3> QED  BY <1>2, <3>1, <3>2, <3>3
  <2>5. 0 \in 0 .. m
    BY <1>1
  <2>6. \A x \in DOMAIN link :
          x # p /\ (\A i \in 1 .. m : i = 0 => x # q[i]) => e.next[x] = link[x]
    BY <2>2
  <2>7. DOMAIN e.next = DOMAIN link
    BY <2>2
  <2> QED  BY <2>3, <2>4, <2>5, <2>6, <2>7
<1>4. CASE ~(list = NULL \/ prio[p] > prio[list])
  <2>1. m # 0 /\ list = q[1] /\ 1 \in 1 .. m /\ m \in 1 .. m
    BY <1>1, <1>4
  <2> DEFINE stops == {i \in 1 .. m : link[q[i]] = NULL \/ ~GoesBehind(prio, p, link[q[i]])}
             k == Min(stops)
             last == q[k]
  <2>2. NodesFrom(list, link, Cardinality(DOMAIN link), NULL) = q
    BY ListFits, NodesFromList, FS_CardinalityType
  <2>3. DOMAIN q = 1 .. m
    BY DEF IsList
  <2>4. e = [list |-> list, next |-> [[link EXCEPT ![p] = link[last]] EXCEPT ![last] = p]]
    BY <1>4, <2>2, <2>3 DEF enqueue, LinkedTo
  <2>5. k \in stops /\ \A i \in stops : k <= i
    <3>1. m \in stops
      BY <1>1, <2>1
    <3>2. stops \in SUBSET Nat
      OBVIOUS
    <3> HIDE DEF stops
    <3> QED  BY <3>1, <3>2, LeastNumber DEF Min
  <2>6. k \in 1 .. m /\ (link[last] = NULL \/ ~GoesBehind(prio, p, link[last]))
    BY <2>5
  <2>7. \A i \in 1 .. m : i < k => ~(link[q[i]] = NULL) /\ GoesBehind(prio, p, link[q[i]])
    BY <2>5, <2>6
  <2> HIDE DEF k
  <2>8. last \in DOMAIN link /\ last # p
    BY <1>1, <2>6
  <2>9. /\ e.list = list /\ DOMAIN e.next = DOMAIN link
        /\ e.next[p] = link[last] /\ e.next[last] = p
        /\ \A x \in DOMAIN link : x # p /\ x # last => e.next[x] = link[x]
    BY <2>4, <2>8
  <2> HIDE DEF e
  <2>10. IsList(Placed(q, m, k, p), m + 1, e.list, e.next, NULL)
    <3>1. e.list = IF k = 0 THEN p ELSE list
      BY <2>6, <2>9
    <3>2. e.next[p] = IF k = m THEN NULL ELSE q[k + 1]
      BY <1>1, <2>6, <2>9
    <3>3. \A i \in 1 .. m : e.next[q[i]] = IF i = k THEN p ELSE link[q[i]]
      BY <1>1, <2>6, <2>9
    <3>4. k \in 0 .. m
      BY <1>1, <2>6
    <3> QED  BY <2>9, <3>1, <3>2, <3>3, <3>4, PlacedIsList
  <2>11. ASSUME NEW i \in 1 .. k PROVE prio[q[i]] >= prio[p]
    <3>1. CASE i = 1
      BY <1>2, <1>4, <2>1, <3>1
    <3>2. CASE i # 1
      <4>1. i - 1 \in 1 .. m /\ i - 1 < k /\ i - 1 # m /\ (i - 1) + 1 = i
        BY <1>1, <2>6, <3>2
      <4>2. link[q[i - 1]] = q[i]
        BY <1>1, <4>1
      <4> QED  BY <2>7, <4>1, <4>2, <1>2 DEF GoesBehind
    <3> QED  BY <3>1, <3>2
  <2>12. ASSUME NEW i \in k + 1 .. m PROVE prio[q[i]] < prio[p]
    <3>1. k # m /\ k + 1 \in 1 .. m /\ i \in 1 .. m
      BY <1>1, <2>6
    <3>2. link[last] = q[k + 1] /\ q[k + 1] # NULL
      BY <1>1, <2>6, <3>1
    <3>3. prio[q[k + 1]] < prio[p]
      BY <1>2, <2>6, <3>1, <3>2 DEF GoesBehind
    <3>4. i # k + 1 => prio[q[k + 1]] >= prio[q[i]]
      BY <3>1 DEF Falling
    <3> QED  BY <1>2, <3>1, <3>3, <3>4
  <2>13. Splits(q, m, k, prio, p)
    BY <2>11, <2>12 DEF Splits
  <2>14. k \in 0 .. m
    BY <1>1, <2>6
  <2>15. \A x \in DOMAIN link :
           x # p /\ (\A i \in 1 .. m : i = k => x # q[i]) => e.next[x] = link[x]
    BY <2>6, <2>9
  <2>16. DOMAIN e.next = DOMAIN link
    BY <2>9
  <2> QED  BY <2>10, <2>13, <2>14, <2>15, <2>16
<1> QED  BY <1>3, <1>4

\* So a list that is sorted stays sorted.
LEMMA PlacedFalls ==
  ASSUME NEW q, NEW m \in Nat, NEW k \in 0 .. m, NEW p, NEW prio,
         \A i \in 1 .. m : prio[q[i]] \in Int, prio[p] \in Int,
         Falling(q, m, prio), Splits(q, m, k, prio, p)
  PROVE  Falling(Placed(q, m, k, p), m + 1, prio)
<1> DEFINE r == Placed(q, m, k, p)
<1>1. \A i \in 1 .. m + 1 : r[i] = IF i <= k THEN q[i] ELSE IF i = k + 1 THEN p ELSE q[i - 1]
  BY DEF Placed
<1> HIDE DEF r
<1> SUFFICES ASSUME NEW i \in 1 .. m + 1, NEW j \in 1 .. m + 1, i < j
             PROVE  prio[r[i]] >= prio[r[j]]
  BY DEF Falling, r
<1>2. CASE j <= k
  BY <1>1, <1>2 DEF Falling
<1>3. CASE j = k + 1
  BY <1>1, <1>3 DEF Splits
<1>4. CASE j > k + 1
  <2>1. r[j] = q[j - 1] /\ j - 1 \in k + 1 .. m /\ j - 1 \in 1 .. m
    BY <1>1, <1>4
  <2>2. CASE i <= k
    <3>1. r[i] = q[i] /\ i \in 1 .. m /\ i < j - 1
      BY <1>1, <1>4, <2>2
    <3> QED  BY <2>1, <3>1 DEF Falling
  <2>3. CASE i = k + 1
    <3>1. r[i] = p
      BY <1>1, <2>3
    <3> QED  BY <2>1, <3>1 DEF Splits
  <2>4. CASE i > k + 1
    <3>1. r[i] = q[i - 1] /\ i - 1 \in 1 .. m /\ i - 1 < j - 1
      BY <1>1, <1>4, <2>4
    <3> QED  BY <2>1, <3>1 DEF Falling
  <2> QED  BY <2>2, <2>3, <2>4
<1> QED  BY <1>2, <1>3, <1>4

\* dequeue (queue.c:54-64) leaves the rest of any list, and all the links.
THEOREM DequeueTakesFirst ==
  ASSUME NEW q, NEW m, NEW list, NEW link, IsList(q, m, list, link, NULL), list # NULL
  PROVE  /\ list = q[1]
         /\ IsList([i \in 1 .. m - 1 |-> q[i + 1]], m - 1, dequeue(list, link), link, NULL)
<1> DEFINE r == [i \in 1 .. m - 1 |-> q[i + 1]]
<1>1. /\ m \in Nat /\ m # 0 /\ list = q[1]
      /\ \A i \in 1 .. m : q[i] \in DOMAIN link \ {NULL}
      /\ \A i, j \in 1 .. m : q[i] = q[j] => i = j
      /\ \A i \in 1 .. m : link[q[i]] = IF i = m THEN NULL ELSE q[i + 1]
  BY DEF IsList
<1>2. r = [i \in 1 .. m - 1 |-> r[i]] /\ \A i \in 1 .. m - 1 : r[i] = q[i + 1]
  OBVIOUS
<1> HIDE DEF r
<1>3. m - 1 \in Nat /\ \A i \in 1 .. m - 1 : i + 1 \in 1 .. m
  BY <1>1
<1>4. dequeue(list, link) = IF m - 1 = 0 THEN NULL ELSE r[1]
  BY <1>1, <1>2, <1>3 DEF dequeue
<1>5. \A i \in 1 .. m - 1 : r[i] \in DOMAIN link \ {NULL}
  BY <1>1, <1>2, <1>3
<1>6. \A i, j \in 1 .. m - 1 : r[i] = r[j] => i = j
  BY <1>1, <1>2, <1>3
<1>7. ASSUME NEW i \in 1 .. m - 1 PROVE link[r[i]] = IF i = m - 1 THEN NULL ELSE r[i + 1]
  BY <1>1, <1>2, <1>3
<1>8. IsList(r, m - 1, dequeue(list, link), link, NULL)
  BY <1>2, <1>3, <1>4, <1>5, <1>6, <1>7 DEF IsList
<1> QED  BY <1>1, <1>8 DEF r

\* The numbers from 1 to n.
LEMMA NumbersTo ==
  ASSUME NEW n \in Nat PROVE IsFiniteSet(1 .. n) /\ Cardinality(1 .. n) = n
  BY FS_Interval

\* The reference places a PROC where enqueue links it in.
LEMMA InsertedIs ==
  ASSUME NEW m \in Nat, NEW q, q = [i \in 1 .. m |-> q[i]], NEW k \in 0 .. m, NEW p, NEW prio,
         \A i \in 1 .. m : prio[q[i]] \in Int, prio[p] \in Int, Splits(q, m, k, prio, p)
  PROVE  Inserted(q, prio, p) = Placed(q, m, k, p)
<1> DEFINE X == {q[i] : i \in 1 .. m} \cup {p}
<1>1. q \in Seq(X) /\ Len(q) = m /\ DOMAIN q = 1 .. m
  OBVIOUS
<1>2. {i \in 1 .. m : prio[q[i]] >= prio[p]} = 1 .. k
  <2>1. ASSUME NEW i \in 1 .. m PROVE prio[q[i]] >= prio[p] <=> i \in 1 .. k
    <3>1. CASE i <= k
      BY <3>1 DEF Splits
    <3>2. CASE i > k
      <4>1. i \in k + 1 .. m
        BY <3>2
      <4>2. prio[q[i]] < prio[p] /\ prio[q[i]] \in Int /\ prio[p] \in Int
        BY <4>1 DEF Splits
      <4>3. ~(prio[q[i]] >= prio[p])
        BY ONLY <4>2
      <4> QED  BY <3>2, <4>3
    <3> QED  BY <3>1, <3>2
  <2>2. 1 .. k \in SUBSET (1 .. m)
    OBVIOUS
  <2> QED  BY <2>1, <2>2
<1>3. Cardinality(1 .. k) = k
  <2>1. k \in Nat
    OBVIOUS
  <2> QED  BY ONLY <2>1, NumbersTo
<1>4. Inserted(q, prio, p) = SubSeq(q, 1, k) \o <<p>> \o SubSeq(q, k + 1, m)
  <2>1. Inserted(q, prio, p) = InsertAt(q, 1 + k, p)
    BY <1>1, <1>2, <1>3 DEF Inserted
  <2>2. (1 + k) - 1 = k /\ 1 + k = k + 1
    OBVIOUS
  <2> QED  BY <1>1, <2>1, <2>2 DEF InsertAt
<1>5. /\ SubSeq(q, 1, k) \in Seq(X) /\ Len(SubSeq(q, 1, k)) = k
      /\ \A i \in 1 .. k : SubSeq(q, 1, k)[i] = q[i]
  BY <1>1
<1>6. /\ SubSeq(q, k + 1, m) \in Seq(X) /\ Len(SubSeq(q, k + 1, m)) = m - k
      /\ \A i \in 1 .. m - k : SubSeq(q, k + 1, m)[i] = q[i + k]
  <2> HIDE DEF X
  <2>1. SubSeq(q, k + 1, m) = [i \in 1 .. m - k |-> q[i + k]]
    BY <1>1
  <2>2. \A i \in 1 .. m - k : i + k \in 1 .. m
    OBVIOUS
  <2>3. \A i \in 1 .. m : q[i] \in X
    BY <1>1
  <2>4. m - k \in Nat
    OBVIOUS
  <2> DEFINE u == SubSeq(q, k + 1, m)
  <2>5. u = [i \in 1 .. m - k |-> q[i + k]]
    BY <2>1
  <2> HIDE DEF u
  <2>6. \A i \in 1 .. m - k : u[i] = q[i + k] /\ u[i] \in X
    BY <2>2, <2>3, <2>5
  <2>7. u \in Seq(X) /\ Len(u) = m - k
    <3> DEFINE d == m - k
    <3>1. d \in Nat /\ u = [i \in 1 .. d |-> q[i + k]] /\ \A i \in 1 .. d : u[i] \in X
      BY <2>4, <2>5, <2>6
    <3> HIDE DEF d
    <3>2. u \in Seq(X) /\ Len(u) = d
      BY ONLY <3>1
    <3> QED  BY <3>2 DEF d
  <2> QED  BY <2>6, <2>7 DEF u
<1> DEFINE s == SubSeq(q, 1, k)
           t == SubSeq(q, k + 1, m)
           r == s \o <<p>> \o t
<1> HIDE DEF s, t, X
<1>7. /\ r \in Seq(X) /\ Len(r) = m + 1
      /\ \A i \in 1 .. m + 1 :
           r[i] = IF i <= k THEN s[i] ELSE IF i = k + 1 THEN p ELSE t[i - k - 1]
  <2>1. p \in X
    BY DEF X
  <2>2. s \in Seq(X) /\ Len(s) = k /\ t \in Seq(X) /\ Len(t) = m - k
    BY <1>5, <1>6 DEF s, t
  <2>3. /\ s \o <<p>> \in Seq(X) /\ Len(s \o <<p>>) = k + 1
        /\ \A i \in 1 .. k + 1 : (s \o <<p>>)[i] = IF i <= k THEN s[i] ELSE p
    BY <2>1, <2>2
  <2> QED  BY <2>2, <2>3
<1> HIDE DEF r
<1>8. \A i \in 1 .. m + 1 : r[i] = Placed(q, m, k, p)[i]
  <2> SUFFICES ASSUME NEW i \in 1 .. m + 1 PROVE r[i] = Placed(q, m, k, p)[i]
    OBVIOUS
  <2>1. CASE i <= k
    <3>1. i \in 1 .. k /\ r[i] = s[i]
      BY <1>7, <2>1
    <3>2. s[i] = q[i]
      BY <1>5, <3>1 DEF s
    <3>3. Placed(q, m, k, p)[i] = q[i]
      BY <2>1 DEF Placed
    <3> QED  BY <3>1, <3>2, <3>3
  <2>2. CASE i = k + 1
    BY <1>7, <2>2 DEF Placed
  <2>3. CASE i > k + 1
    <3>1. i - k - 1 \in 1 .. m - k /\ (i - k - 1) + k = i - 1 /\ ~(i <= k) /\ i # k + 1
      BY <2>3
    <3>2. r[i] = t[i - k - 1]
      BY <1>7, <3>1
    <3>3. t[i - k - 1] = q[(i - k - 1) + k]
      BY <1>6, <3>1 DEF t
    <3>4. Placed(q, m, k, p)[i] = q[i - 1]
      BY <3>1 DEF Placed
    <3> QED  BY <3>1, <3>2, <3>3, <3>4
  <2> QED  BY <2>1, <2>2, <2>3
<1>9. r = [i \in 1 .. m + 1 |-> r[i]]
  BY <1>7
<1>10. Placed(q, m, k, p) = [i \in 1 .. m + 1 |-> Placed(q, m, k, p)[i]]
  BY DEF Placed
<1> QED  BY <1>4, <1>8, <1>9, <1>10 DEF r, s, t

\* enqueue and dequeue (queue.c:29-64) agree with a stable priority queue on every
\* sorted list of any length and with any priorities.
THEOREM QueueAgrees ==
  ASSUME NEW q, NEW m, NEW link, IsList(q, m, IF q = <<>> THEN NULL ELSE q[1], link, NULL),
         IsFiniteSet(DOMAIN link),
         NEW p \in DOMAIN link, p # NULL, \A i \in 1 .. m : q[i] # p,
         NEW prio, \A x \in DOMAIN link \ {NULL} : prio[x] \in Int,
         Falling(q, m, prio)
  PROVE  Agrees(q, link, prio, p)
<1> DEFINE list == IF q = <<>> THEN NULL ELSE q[1]
           e == enqueue(list, link, prio, p)
           n == Cardinality(DOMAIN link)
<1>1. /\ m \in Nat /\ q = [i \in 1 .. m |-> q[i]]
      /\ \A i \in 1 .. m : q[i] \in DOMAIN link \ {NULL}
  BY DEF IsList
<1>2. PICK k \in 0 .. m :
        /\ IsList(Placed(q, m, k, p), m + 1, e.list, e.next, NULL)
        /\ Splits(q, m, k, prio, p)
        /\ DOMAIN e.next = DOMAIN link
        /\ \A x \in DOMAIN link :
             x # p /\ (\A i \in 1 .. m : i = k => x # q[i]) => e.next[x] = link[x]
  <2> HIDE DEF list
  <2>1. IsList(q, m, list, link, NULL)
    BY DEF list
  <2> QED  BY <2>1, EnqueueInserts
<1> DEFINE r == Placed(q, m, k, p)
<1>3. Inserted(q, prio, p) = r
  <2>1. \A i \in 1 .. m : prio[q[i]] \in Int
    BY <1>1
  <2>2. prio[p] \in Int
    OBVIOUS
  <2>3. m \in Nat /\ q = [i \in 1 .. m |-> q[i]] /\ k \in 0 .. m /\ Splits(q, m, k, prio, p)
    BY <1>1, <1>2
  <2> QED  BY ONLY <2>1, <2>2, <2>3, InsertedIs
<1>4. /\ r = [i \in 1 .. m + 1 |-> r[i]] /\ Len(r) = m + 1 /\ DOMAIN r = 1 .. m + 1
      /\ r[k + 1] = p /\ \A i \in 1 .. k : r[i] = q[i]
  BY <1>1, <1>2 DEF Placed
<1> HIDE DEF e, r
<1>5. n \in Nat /\ m + 1 <= n
  BY <1>2, ListFits, FS_CardinalityType DEF r
<1>6. ListFrom(e.list, e.next, n) = r
  BY <1>1, <1>2, <1>5, NodesFromList DEF ListFrom, r
<1>7. ListFrom(dequeue(e.list, e.next), e.next, n) = Tail(r)
  <2>1. e.list # NULL
    BY <1>1, <1>2, <1>4 DEF IsList, r
  <2> DEFINE t == [i \in 1 .. m |-> r[i + 1]]
  <2>2. IsList(t, m, dequeue(e.list, e.next), e.next, NULL)
    <3>1. (m + 1) - 1 = m
      BY <1>1
    <3> QED  BY <1>2, <2>1, <3>1, DequeueTakesFirst DEF r
  <2>3. Tail(r) = t
    BY <1>1, <1>4
  <2> HIDE DEF t
  <2> DEFINE first == dequeue(e.list, e.next)
             links == e.next
  <2>4. IsList(t, m, first, links, NULL) /\ n + 1 \in Nat /\ m <= n + 1
    BY <1>1, <1>5, <2>2
  <2> HIDE DEF first, links
  <2>5. NodesFrom(first, links, n + 1, NULL) = t
    BY ONLY <2>4, NodesFromList
  <2> QED  BY <2>3, <2>5 DEF ListFrom, first, links
<1>8. ASSUME NEW x \in DOMAIN link \ Elements(r) PROVE e.next[x] = link[x]
  <2>1. \A i \in 1 .. m + 1 : x # r[i]
    BY <1>4 DEF Elements
  <2>2. x # p /\ \A i \in 1 .. m : i = k => x # q[i]
    <3>1. k + 1 \in 1 .. m + 1
      BY <1>1
    <3>2. ASSUME NEW i \in 1 .. m, i = k PROVE i \in 1 .. m + 1 /\ r[i] = q[i]
      <4>1. i \in 1 .. k /\ i \in 1 .. m + 1
        BY <1>1, <3>2
      <4> QED  BY <1>4, <4>1
    <3> QED  BY <1>4, <2>1, <3>1, <3>2
  <2> QED  BY <1>2, <2>2
<1> QED  BY <1>3, <1>6, <1>7, <1>8 DEF Agrees, e

\* The lists of the runs are such lists, whatever the PROCs outside them held in
\* their next fields before.
THEOREM QueueOrderHolds == QueueOrder
<1> SUFFICES ASSUME NEW prio \in [PROC4 -> {0, 1}], NEW q \in SeqOf(1 .. 3, 3),
                    NEW stale \in PROC4 \cup {NULL}, Distinct(q), Sorted(q, prio)
             PROVE  Agrees(q, LinksOf(q, stale), prio, 0)
  BY DEF QueueOrder
<1> DEFINE link == LinksOf(q, stale)
<1>1. PICK m \in 0 .. 3 : q \in [1 .. m -> 1 .. 3]
  BY DEF SeqOf
<1>2. /\ m \in Nat /\ DOMAIN q = 1 .. m /\ Len(q) = m /\ q = [i \in 1 .. m |-> q[i]]
      /\ \A i \in 1 .. m : q[i] \in 1 .. 3
  BY <1>1
<1>3. \A i, j \in 1 .. m : q[i] = q[j] => i = j
  <2>1. q \in Surjection(1 .. m, Elements(q))
    BY <1>2 DEF Surjection, Elements
  <2>2. IsFiniteSet(1 .. m) /\ Cardinality(1 .. m) = Cardinality(Elements(q))
    BY <1>2, FS_Interval DEF Distinct
  <2>3. q \in Injection(1 .. m, Elements(q))
    BY <2>1, <2>2, FS_SurjSameCardinalityImpliesInj
  <2> QED  BY <2>3 DEF Injection, IsInjective
<1>4. DOMAIN link = PROC4 /\ IsFiniteSet(PROC4) /\ NULL \notin PROC4 /\ 0 \in PROC4
  <2>1. IsFiniteSet(0 .. 3)
    <3>1. 0 \in Int /\ 3 \in Int
      OBVIOUS
    <3> QED  BY ONLY <3>1, FS_Interval
  <2>2. NULL \notin 0 .. 3 /\ 0 \in 0 .. 3
    BY NULLAssumption
  <2> QED  BY <2>1, <2>2 DEF LinksOf, PROC4
<1>5. ASSUME NEW i \in 1 .. m PROVE link[q[i]] = IF i = m THEN NULL ELSE q[i + 1]
  <2>1. q[i] \in PROC4 /\ q[i] \in Elements(q)
    BY <1>2 DEF PROC4, Elements
  <2>2. (CHOOSE j \in DOMAIN q : q[j] = q[i]) = i
    BY <1>2, <1>3
  <2> QED  BY <1>2, <2>1, <2>2 DEF LinksOf
<1> HIDE DEF link
<1>6. IsList(q, m, IF q = <<>> THEN NULL ELSE q[1], link, NULL)
  <2>1. q = <<>> <=> m = 0
    BY <1>2
  <2>2. \A i \in 1 .. m : q[i] \in DOMAIN link \ {NULL}
    BY <1>2, <1>4 DEF PROC4
  <2> QED  BY <1>2, <1>3, <1>5, <2>1, <2>2 DEF IsList
<1>7. \A i \in 1 .. m : q[i] # 0
  BY <1>2
<1>8. \A x \in DOMAIN link \ {NULL} : prio[x] \in Int
  BY <1>4
<1>9. Falling(q, m, prio)
  BY <1>2 DEF Falling, Sorted
<1>10. 0 \in DOMAIN link /\ 0 # NULL /\ IsFiniteSet(DOMAIN link)
  BY <1>4
<1> QED  BY <1>6, <1>7, <1>8, <1>9, <1>10, QueueAgrees DEF link

-----------------------------------------------------------------------------
(* The inductive invariant.                                                *)

\* The kforks under way have taken P1, P2 ... in the order of the free list as
\* init() made it, and the PROCs behind them are free.
Untouched ==
  /\ DOMAIN next = PIDs
  /\ \A p \in 1 .. NPROC - 1 : next[p] = IF p = NPROC - 1 THEN NULL ELSE p + 1
  /\ \E k \in PIDs :
       /\ creating = [i \in 1 .. k |-> i]
       /\ freeList = IF k = NPROC - 1 THEN NULL ELSE k + 1
       /\ \A p \in 1 .. k : status[p] = "READY"

\* P0 is the only process that ever runs, and nothing is ever found in
\* readyQueue; when P0 exits the next scheduling is the last.
KInv ==
  /\ NPROC \in Nat \ {0}
  /\ DOMAIN status = PIDs /\ DOMAIN ksp = PIDs
  /\ creating \in Seq(Nat)
  /\ readyQueue = NULL
  /\ at \in {"main", "body", "kfork", "kexit", "tswitch", "scheduler", "resume", "crashed"}
  /\ at # "crashed" => running = 0
  /\ status[0] = "READY" => Untouched /\ at # "crashed"
  /\ status[0] # "READY" => status[0] = "FREE" /\ at \in {"tswitch", "scheduler", "crashed"}
  /\ at \in {"scheduler", "resume"} => ksp[0] = creating
  /\ at = "crashed" => ksp[0] # NULL

\* Where main() is after init().
LEMMA InitKInv == Init => KInv
<1> SUFFICES ASSUME Init PROVE KInv
  OBVIOUS
<1> USE ProcCountsAssumption DEF Init
<1>1. NPROC \in Nat \ {0} /\ 0 \in PIDs
  BY DEF PIDs
<1>2. status[0] = "READY"
  BY <1>1
<1>3. Untouched
  <2>1. creating = [i \in 1 .. 0 |-> i]
    OBVIOUS
  <2>2. freeList = IF 0 = NPROC - 1 THEN NULL ELSE 0 + 1
    BY <1>1
  <2>3. \A p \in 1 .. NPROC - 1 : next[p] = IF p = NPROC - 1 THEN NULL ELSE p + 1
    BY <1>1 DEF PIDs
  <2>4. DOMAIN next = PIDs /\ 0 \in PIDs
    BY <1>1
  <2> QED  BY <1>1, <2>1, <2>2, <2>3, <2>4 DEF Untouched
<1> QED  BY <1>1, <1>2, <1>3 DEF KInv

\* A process put into an empty list is all that is in it (queue.c).
LEMMA EnqueueFirst ==
  ASSUME NEW link, NEW rank, NEW p
  PROVE  enqueue(NULL, link, rank, p) = [list |-> p, next |-> [link EXCEPT ![p] = NULL]]
  BY DEF enqueue, LinkedTo

\* The first PROC of the free list moves to the kforks under way.
LEMMA KforkKeepsKInv == ASSUME KInv, Kfork PROVE KInv'
<1> USE DEF Kfork
<1>1. status[0] = "READY" /\ NPROC \in Nat \ {0} /\ running = 0 /\ PIDs' = PIDs
  BY DEF KInv, PIDs
<1>2. PICK k \in PIDs :
        /\ creating = [i \in 1 .. k |-> i]
        /\ freeList = IF k = NPROC - 1 THEN NULL ELSE k + 1
        /\ \A p \in 1 .. k : status[p] = "READY"
  BY <1>1 DEF KInv, Untouched
<1>3. k \in Nat /\ k + 1 \in 1 .. NPROC - 1 /\ freeList = k + 1 /\ k + 1 \in PIDs
  BY <1>1, <1>2 DEF PIDs
<1>4. status' = [status EXCEPT ![k + 1] = "READY"] /\ status'[0] = "READY"
  BY <1>1, <1>3 DEF KInv
<1>5. creating' = [i \in 1 .. k + 1 |-> i] /\ creating' \in Seq(Nat)
  <2>1. creating' = Append(creating, k + 1)
    BY <1>3
  <2>2. creating \in Seq(Nat) /\ Len(creating) = k
    BY <1>2, <1>3 DEF KInv
  <2> QED  BY <1>2, <1>3, <2>1, <2>2
<1>6. freeList' = IF k + 1 = NPROC - 1 THEN NULL ELSE (k + 1) + 1
  <2>1. next[k + 1] = IF k + 1 = NPROC - 1 THEN NULL ELSE (k + 1) + 1
    BY <1>1, <1>3 DEF KInv, Untouched
  <2> QED  BY <1>3, <2>1 DEF Taken, dequeue
<1>7. \A p \in 1 .. k + 1 : status'[p] = "READY"
  BY <1>1, <1>2, <1>3, <1>4 DEF KInv, PIDs
<1>8. Untouched'
  BY <1>1, <1>3, <1>5, <1>6, <1>7 DEF KInv, Untouched
<1> QED  BY <1>1, <1>4, <1>5, <1>8 DEF KInv

\* The scheduler finds the process it has just put back, or nothing.
LEMMA SchedulerKeepsKInv == ASSUME KInv, Scheduler PROVE KInv'
<1> USE NULLAssumption DEF Scheduler
<1>1. /\ NPROC \in Nat \ {0} /\ readyQueue = NULL /\ running = 0
      /\ ksp[0] = creating /\ creating \in Seq(Nat) /\ PIDs' = PIDs
  BY DEF KInv, PIDs
<1>2. CASE status[0] = "READY"
  <2>1. PutBack = [list |-> 0, next |-> [next EXCEPT ![0] = NULL]]
    BY <1>1, <1>2, EnqueueFirst DEF PutBack
  <2>2. PutBack.list = 0 /\ PutBack.next = [next EXCEPT ![0] = NULL]
    BY <2>1
  <2>3. running' = 0 /\ at' = "resume" /\ next' = [next EXCEPT ![0] = NULL]
    BY <2>2
  <2>4. 0 \in PIDs /\ Untouched
    BY <1>1, <1>2 DEF KInv, PIDs
  <2>5. readyQueue' = NULL
    BY <2>2, <2>4 DEF dequeue, Untouched
  <2>6. Untouched'
    BY <1>1, <2>3, <2>4 DEF Untouched
  <2> QED  BY <1>1, <1>2, <2>3, <2>5, <2>6 DEF KInv
<1>3. CASE status[0] # "READY"
  <2>1. PutBack.list = NULL
    BY <1>1, <1>3 DEF PutBack
  <2> QED  BY <1>1, <1>3, <2>1 DEF KInv, dequeue
<1> QED  BY <1>2, <1>3

\* Every step of t.c and ts.s keeps the invariant.
LEMMA StepKeepsKInv == KInv /\ [Next]_vars => KInv'
<1> SUFFICES ASSUME KInv, [Next]_vars PROVE KInv'
  OBVIOUS
<1>1. ASSUME UNCHANGED <<NPROC, procs, freeList, readyQueue, running, creating>>
      PROVE  PIDs' = PIDs /\ Untouched' = Untouched
  BY <1>1 DEF PIDs, Untouched, procs
<1>2. CASE KforkFails
  BY <1>1, <1>2 DEF KforkFails, Caller, KInv, procs
<1>3. CASE Kfork
  BY <1>3, KforkKeepsKInv
<1>4. CASE Getchar
  BY <1>1, <1>4 DEF Getchar, KInv, procs
<1>5. CASE Kexit
  <2>1. running = 0 /\ status' = [status EXCEPT ![0] = "FREE"] /\ at' = "tswitch"
    BY <1>5 DEF Kexit, KInv
  <2>2. PIDs' = PIDs /\ 0 \in PIDs
    BY <1>5 DEF Kexit, KInv, PIDs
  <2>3. status'[0] = "FREE" /\ DOMAIN status' = PIDs
    BY <2>1, <2>2 DEF KInv
  <2> QED  BY <1>5, <2>1, <2>2, <2>3 DEF Kexit, KInv
<1>6. CASE Save
  <2>1. 0 \in PIDs /\ PIDs' = PIDs /\ Untouched' = Untouched /\ running = 0
    BY <1>6 DEF Save, KInv, PIDs, Untouched
  <2>2. ksp'[0] = creating /\ DOMAIN ksp' = PIDs
    BY <1>6, <2>1 DEF Save, Saved, KInv
  <2> QED  BY <1>6, <2>1, <2>2 DEF Save, KInv
<1>7. CASE Scheduler
  BY <1>7, SchedulerKeepsKInv
<1>8. CASE Resume
  <2>1. creating' = creating
    BY <1>8 DEF Resume, KInv
  <2> QED  BY <1>1, <1>8, <2>1 DEF Resume, KInv, procs
<1>9. CASE MainLoop
  BY <1>1, <1>9 DEF MainLoop, KInv, procs
<1>10. CASE Crashed \/ UNCHANGED vars
  BY <1>1, <1>10 DEF Crashed, vars, KInv, procs
<1> QED  BY <1>2, <1>3, <1>4, <1>5, <1>6, <1>7, <1>8, <1>9, <1>10 DEF Next

-----------------------------------------------------------------------------
(* The lists.                                                              *)

\* q holds the PROCs that are FREE, linked from freeList on.
FreeListIs(q, m) ==
  /\ IsList(q, m, freeList, next, NULL)
  /\ \A p \in PIDs : status[p] = "FREE" <=> \E i \in 1 .. m : q[i] = p

\* The kforks under way hold P1 ... Pk, and these are READY.
CreatingIs(k) ==
  /\ creating = [i \in 1 .. k |-> i]
  /\ \A p \in PIDs \ {0} : status[p] = "READY" <=> p <= k

\* Of the PROCs other than the one that runs, those that are FREE are in one
\* list, and the others are held by the kforks under way.
LInv ==
  /\ NPROC \in ProcCounts
  /\ next \in [PIDs -> PIDs \cup {NULL}]
  /\ ppid \in [PIDs -> PIDs]
  /\ status \in [PIDs -> {"FREE", "READY"}]
  /\ priority \in [PIDs -> {0, 1}]
  /\ \A p \in PIDs : status[p] = "FREE" => priority[p] = 0
  /\ \A p \in PIDs : ksp[p] # NULL => ksp[p] \in Seq(PIDs)
  /\ creating \in Seq(PIDs)
  /\ \E k \in PIDs : CreatingIs(k)
  /\ \E q, m : FreeListIs(q, m)
  /\ at = "kexit" => status[0] = "READY"
  /\ at = "crashed" => running = NULL

LEMMA PIDsFinite ==
  ASSUME NPROC \in Nat \ {0}
  PROVE  IsFiniteSet(PIDs) /\ Cardinality(PIDs) = NPROC /\ NULL \notin PIDs /\ 0 \in PIDs
<1>1. IsFiniteSet(0 .. NPROC - 1) /\ Cardinality(0 .. NPROC - 1) = NPROC
  BY FS_Interval
<1> QED  BY <1>1, NULLAssumption DEF PIDs

\* init() links all the PROCs but P0.
LEMMA InitLInv == Init => LInv
<1> SUFFICES ASSUME Init PROVE LInv
  OBVIOUS
<1> USE DEF Init
<1>1. NPROC \in Nat \ {0} /\ 0 \in PIDs
  BY ProcCountsAssumption DEF PIDs
<1>2. NULL \notin PIDs
  BY <1>1, PIDsFinite
<1>3. \A p \in PIDs : next[p] = IF p = NPROC - 1 THEN NULL ELSE p + 1
  OBVIOUS
<1>4. CreatingIs(0)
  BY <1>1 DEF CreatingIs, PIDs
<1>5. FreeListIs([i \in 1 .. NPROC - 1 |-> i], NPROC - 1)
  <2> DEFINE m == NPROC - 1
             q == [i \in 1 .. m |-> i]
  <2>1. m \in Nat /\ PIDs = 0 .. m
    BY <1>1 DEF PIDs
  <2>2. q = [i \in 1 .. m |-> q[i]] /\ \A i \in 1 .. m : q[i] = i
    OBVIOUS
  <2>3. next[0] = IF m = 0 THEN NULL ELSE 1
    BY <1>1, <1>3
  <2>4. \A i \in 1 .. m : next[i] = IF i = m THEN NULL ELSE i + 1
    BY <1>3, <2>1
  <2>5. \A i \in 1 .. m : i \in DOMAIN next \ {NULL}
    BY <1>2, <2>1
  <2> HIDE DEF m, q
  <2>6. IsList(q, m, next[0], next, NULL)
    <3>1. \A i \in 1 .. m : q[i] \in DOMAIN next \ {NULL}
      BY <2>2, <2>5
    <3>2. \A i, j \in 1 .. m : q[i] = q[j] => i = j
      BY <2>2
    <3>3. next[0] = IF m = 0 THEN NULL ELSE q[1]
      BY <2>1, <2>2, <2>3
    <3>4. ASSUME NEW i \in 1 .. m PROVE next[q[i]] = IF i = m THEN NULL ELSE q[i + 1]
      <4>1. i # m => i + 1 \in 1 .. m
        BY <2>1
      <4> QED  BY ONLY <2>2, <2>4, <4>1
    <3> QED  BY ONLY <2>1, <2>2, <3>1, <3>2, <3>3, <3>4 DEF IsList
  <2>7. \A p \in PIDs : status[p] = "FREE" <=> \E i \in 1 .. m : q[i] = p
    <3>1. \A p \in PIDs : status[p] = "FREE" <=> p \in 1 .. m
      BY <2>1
    <3> QED  BY <2>2, <3>1
  <2>8. FreeListIs(q, m)
    BY <2>6, <2>7 DEF FreeListIs
  <2> QED  BY <2>8 DEF q, m
<1>6. next \in [PIDs -> PIDs \cup {NULL}]
  <2>1. \A p \in PIDs : p # NPROC - 1 => p + 1 \in PIDs
    BY <1>1 DEF PIDs
  <2> QED  BY <1>3, <2>1
<1> QED  BY <1>1, <1>4, <1>5, <1>6 DEF LInv

\* kfork takes the first PROC off the free list (t.c:86-92).
LEMMA KforkKeepsLInv == ASSUME KInv, LInv, Kfork PROVE LInv'
<1> USE DEF Kfork
<1>1. PIDs' = PIDs /\ running = 0 /\ status[0] = "READY" /\ NPROC \in Nat \ {0}
  BY DEF KInv, PIDs
<1>2. NULL \notin PIDs /\ 0 \in PIDs
  BY <1>1, PIDsFinite
<1>3. PICK k \in PIDs : CreatingIs(k)
  BY DEF LInv
<1>4. PICK q, m : FreeListIs(q, m)
  BY DEF LInv
<1> DEFINE r == [i \in 1 .. m - 1 |-> q[i + 1]]
<1>5. freeList = q[1] /\ IsList(r, m - 1, freeList', next, NULL)
  BY <1>4, DequeueTakesFirst DEF FreeListIs, Taken
<1>6. /\ m \in Nat /\ m # 0 /\ \A i \in 1 .. m : q[i] \in PIDs
      /\ \A i, j \in 1 .. m : q[i] = q[j] => i = j
  BY <1>4 DEF FreeListIs, IsList, LInv
<1>7. freeList \in PIDs /\ status[freeList] = "FREE" /\ freeList # 0
  BY <1>1, <1>4, <1>5, <1>6 DEF FreeListIs
<1>8. /\ status' \in [PIDs -> {"FREE", "READY"}] /\ status'[freeList] = "READY"
      /\ \A p \in PIDs \ {freeList} : status'[p] = status[p]
  BY <1>7 DEF LInv
<1>9. priority' \in [PIDs -> {0, 1}] /\ \A p \in PIDs : status'[p] = "FREE" => priority'[p] = 0
  BY <1>7, <1>8 DEF LInv
<1>10. FreeListIs(r, m - 1)'
  <2>1. \A p \in PIDs : status'[p] = "FREE" <=> \E i \in 1 .. m - 1 : r[i] = p
    <3> SUFFICES ASSUME NEW p \in PIDs
                 PROVE  status'[p] = "FREE" <=> \E i \in 1 .. m - 1 : q[i + 1] = p
      OBVIOUS
    <3>1. CASE p = freeList
      BY <1>5, <1>6, <1>8, <3>1
    <3>2. CASE p # freeList
      <4>1. status'[p] = "FREE" <=> \E i \in 1 .. m : q[i] = p
        BY <1>4, <1>8, <3>2 DEF FreeListIs
      <4>2. ASSUME NEW i \in 1 .. m, q[i] = p
            PROVE  i - 1 \in 1 .. m - 1 /\ q[(i - 1) + 1] = p
        BY <1>5, <1>6, <3>2, <4>2
      <4>3. \A i \in 1 .. m - 1 : i + 1 \in 1 .. m
        BY <1>6
      <4> QED  BY <4>1, <4>2, <4>3
    <3> QED  BY <3>1, <3>2
  <2> QED  BY <1>1, <1>5, <2>1 DEF FreeListIs
<1>11. k + 1 \in PIDs /\ freeList = k + 1
  <2>1. PICK j \in PIDs : /\ creating = [i \in 1 .. j |-> i]
                          /\ freeList = IF j = NPROC - 1 THEN NULL ELSE j + 1
    BY <1>1 DEF KInv, Untouched
  <2>2. j \in Nat /\ k \in Nat
    BY <1>1 DEF PIDs
  <2>3. Len(creating) = j /\ Len(creating) = k
    BY <1>3, <2>1, <2>2 DEF CreatingIs
  <2> QED  BY <1>7, <2>1, <2>3
<1>12. CreatingIs(k + 1)'
  <2>1. k \in Nat
    BY <1>1 DEF PIDs
  <2>2. creating' = [i \in 1 .. k + 1 |-> i]
    <3>1. creating' = Append(creating, k + 1)
      BY <1>11
    <3>2. creating \in Seq(PIDs) /\ Len(creating) = k
      <4>1. creating = [i \in 1 .. k |-> i]
        BY <1>3 DEF CreatingIs
      <4>2. Len(creating) = k
        BY <2>1, <4>1
      <4> QED  BY <4>2 DEF LInv
    <3>3. Append(creating, k + 1) = [i \in 1 .. k + 1 |-> IF i <= k THEN creating[i] ELSE k + 1]
      BY <2>1, <3>2
    <3> QED  BY <1>3, <2>1, <3>1, <3>3 DEF CreatingIs
  <2>3. ASSUME NEW p \in PIDs \ {0} PROVE status'[p] = "READY" <=> p <= k + 1
    <3>1. p \in Nat /\ (p # k + 1 => (p <= k + 1 <=> p <= k))
      BY <2>1 DEF PIDs
    <3> QED  BY <1>3, <1>8, <1>11, <3>1, <2>1 DEF CreatingIs
  <2> QED  BY <1>1, <2>2, <2>3 DEF CreatingIs
<1>13. creating' \in Seq(PIDs)
  BY <1>7 DEF LInv
<1>14. ppid' \in [PIDs -> PIDs]
  BY <1>1, <1>2 DEF LInv
<1> HIDE DEF r
<1> QED  BY <1>1, <1>8, <1>9, <1>10, <1>11, <1>12, <1>13, <1>14 DEF LInv

\* kexit puts the PROC that runs into the free list (t.c:41-47).
LEMMA KexitKeepsLInv == ASSUME KInv, LInv, Kexit PROVE LInv'
<1> USE DEF Kexit
<1>1. PIDs' = PIDs /\ running = 0 /\ status[0] = "READY" /\ NPROC \in Nat \ {0}
  BY DEF KInv, LInv, PIDs
<1>2. NULL \notin PIDs /\ 0 \in PIDs /\ IsFiniteSet(PIDs)
  BY <1>1, PIDsFinite
<1>3. PICK k \in PIDs : CreatingIs(k)
  BY DEF LInv
<1>4. PICK q, m : FreeListIs(q, m)
  BY DEF LInv
<1>5. /\ m \in Nat /\ \A i \in 1 .. m : q[i] \in PIDs /\ q[i] # 0
      /\ \A i \in 1 .. m : status[q[i]] = "FREE"
  <2>1. m \in Nat /\ \A i \in 1 .. m : q[i] \in PIDs
    BY <1>4 DEF FreeListIs, IsList, LInv
  <2> QED  BY <1>1, <1>4, <2>1 DEF FreeListIs
<1>6. /\ status' \in [PIDs -> {"FREE", "READY"}] /\ status'[0] = "FREE"
      /\ \A p \in PIDs \ {0} : status'[p] = status[p]
  BY <1>1, <1>2 DEF LInv
<1>7. priority' \in [PIDs -> {0, 1}] /\ \A p \in PIDs : status'[p] = "FREE" => priority'[p] = 0
  BY <1>1, <1>2, <1>6 DEF LInv
<1> DEFINE e == enqueue(freeList, next, priority', 0)
<1>8. freeList' = e.list /\ next' = e.next
  BY <1>1
<1>9. PICK j \in 0 .. m :
        /\ IsList(Placed(q, m, j, 0), m + 1, e.list, e.next, NULL)
        /\ DOMAIN e.next = DOMAIN next
        /\ \A x \in DOMAIN next :
             x # 0 /\ (\A i \in 1 .. m : i = j => x # q[i]) => e.next[x] = next[x]
  <2>1. IsList(q, m, freeList, next, NULL) /\ DOMAIN next = PIDs
    BY <1>4 DEF FreeListIs, LInv
  <2>2. Falling(q, m, priority')
    BY <1>5, <1>6, <1>7 DEF Falling
  <2>3. \A x \in DOMAIN next \ {NULL} : priority'[x] \in Int
    BY <1>7, <2>1
  <2>4. \A i \in 1 .. m : q[i] # 0
    BY <1>5
  <2>5. 0 \in DOMAIN next /\ 0 # NULL /\ IsFiniteSet(DOMAIN next)
    BY <1>2, <2>1
  <2>6. \E j \in 0 .. m :
          /\ IsList(Placed(q, m, j, 0), m + 1, e.list, e.next, NULL)
          /\ Splits(q, m, j, priority', 0)
          /\ DOMAIN e.next = DOMAIN next
          /\ \A x \in DOMAIN next :
               x # 0 /\ (\A i \in 1 .. m : i = j => x # q[i]) => e.next[x] = next[x]
    BY ONLY <2>1, <2>2, <2>3, <2>4, <2>5, EnqueueInserts
  <2> QED  BY <2>6
<1> DEFINE r == Placed(q, m, j, 0)
<1> HIDE DEF e
<1>10. \A i \in 1 .. m + 1 : r[i] = IF i <= j THEN q[i] ELSE IF i = j + 1 THEN 0 ELSE q[i - 1]
  BY DEF Placed
<1> HIDE DEF r
<1>11. FreeListIs(r, m + 1)'
  <2>1. ASSUME NEW p \in PIDs PROVE status'[p] = "FREE" <=> \E i \in 1 .. m + 1 : r[i] = p
    <3>1. CASE p = 0
      <4>1. j + 1 \in 1 .. m + 1 /\ r[j + 1] = 0
        BY <1>5, <1>10
      <4> QED  BY <1>6, <3>1, <4>1
    <3>2. CASE p # 0
      <4>1. status'[p] = "FREE" <=> \E i \in 1 .. m : q[i] = p
        BY <1>4, <1>6, <3>2 DEF FreeListIs
      <4>2. ASSUME NEW i \in 1 .. m, q[i] = p PROVE \E l \in 1 .. m + 1 : r[l] = p
        <5>1. CASE i <= j
          BY <1>5, <1>10, <4>2, <5>1
        <5>2. CASE i > j
          <6>1. i + 1 \in 1 .. m + 1 /\ r[i + 1] = q[i]
            BY <1>5, <1>10, <5>2
          <6> QED  BY <4>2, <6>1
        <5> QED  BY <1>5, <5>1, <5>2
      <4>3. ASSUME NEW i \in 1 .. m + 1, r[i] = p PROVE \E l \in 1 .. m : q[l] = p
        <5>1. CASE i <= j
          BY <1>5, <1>10, <4>3, <5>1
        <5>2. CASE i > j
          <6>1. i - 1 \in 1 .. m /\ q[i - 1] = p
            BY <1>5, <1>10, <3>2, <4>3, <5>2
          <6> QED  BY <6>1
        <5> QED  BY <1>5, <5>1, <5>2
      <4> QED  BY <4>1, <4>2, <4>3
    <3> QED  BY <3>1, <3>2
  <2> QED  BY <1>1, <1>8, <1>9, <2>1 DEF FreeListIs, r
<1>12. CreatingIs(k)'
  BY <1>1, <1>3, <1>6 DEF CreatingIs
<1>13. \A p \in PIDs : next'[p] \in PIDs \cup {NULL}
  <2> SUFFICES ASSUME NEW p \in PIDs PROVE e.next[p] \in PIDs \cup {NULL}
    BY <1>8
  <2>1. CASE \E i \in 1 .. m + 1 : r[i] = p
    <3>1. IsList(r, m + 1, e.list, e.next, NULL) /\ DOMAIN e.next = PIDs
      BY <1>9 DEF r, LInv
    <3>2. /\ \A i \in 1 .. m + 1 : r[i] \in PIDs
          /\ \A i \in 1 .. m + 1 : e.next[r[i]] = IF i = m + 1 THEN NULL ELSE r[i + 1]
      BY <3>1 DEF IsList
    <3> QED  BY <1>5, <2>1, <3>2
  <2>2. CASE ~\E i \in 1 .. m + 1 : r[i] = p
    <3>1. p # 0
      BY <1>5, <1>10, <2>2
    <3>2. \A i \in 1 .. m : i = j => p # q[i]
      BY <1>5, <1>10, <2>2
    <3> QED  BY <1>9, <3>1, <3>2 DEF LInv
  <2> QED  BY <2>1, <2>2
<1>14. next' \in [PIDs -> PIDs \cup {NULL}]
  <2>1. e.next = [p \in DOMAIN e.next |-> e.next[p]]
    BY DEF e, enqueue, LinkedTo
  <2>2. DOMAIN e.next = PIDs
    BY <1>9 DEF LInv
  <2> QED  BY <1>8, <1>13, <2>1, <2>2
<1>15. \E l \in PIDs : CreatingIs(l)'
  BY <1>12
<1>16. \E r2, m2 : FreeListIs(r2, m2)'
  BY <1>11
<1> QED  BY <1>1, <1>6, <1>7, <1>14, <1>15, <1>16 DEF LInv

\* The link that the scheduler clears is that of P0, when P0 is in no list.
LEMMA SchedulerKeepsLInv == ASSUME KInv, LInv, Scheduler PROVE LInv'
<1> USE DEF Scheduler
<1>1. PIDs' = PIDs /\ running = 0 /\ readyQueue = NULL /\ NPROC \in Nat \ {0}
  BY DEF KInv, PIDs
<1>2. NULL \notin PIDs /\ 0 \in PIDs
  BY <1>1, PIDsFinite
<1>3. PICK k \in PIDs : CreatingIs(k)
  BY DEF LInv
<1>4. PICK q, m : FreeListIs(q, m)
  BY DEF LInv
<1>5. CreatingIs(k)'
  BY <1>1, <1>3 DEF CreatingIs
<1>6. CASE status[0] = "READY"
  <2>1. PutBack = [list |-> 0, next |-> [next EXCEPT ![0] = NULL]]
    BY <1>1, <1>6, EnqueueFirst DEF PutBack
  <2>2. next' = [next EXCEPT ![0] = NULL] /\ at' = "resume"
    BY <1>2, <2>1
  <2>3. next' \in [PIDs -> PIDs \cup {NULL}]
    BY <2>2 DEF LInv
  <2>4. IsList(q, m, freeList, next, NULL) /\ \A i \in 1 .. m : q[i] \in PIDs /\ q[i] # 0
    BY <1>2, <1>4, <1>6 DEF FreeListIs, IsList, LInv
  <2>5. \A i \in 1 .. m : next'[q[i]] = next[q[i]]
    BY <2>2, <2>4 DEF LInv
  <2>6. IsList(q, m, freeList, next', NULL)
    BY <2>3, <2>4, <2>5, ListStays DEF LInv
  <2>7. FreeListIs(q, m)'
    BY <1>1, <1>4, <2>6 DEF FreeListIs
  <2> QED  BY <1>1, <1>5, <2>2, <2>3, <2>7 DEF LInv
<1>7. CASE status[0] # "READY"
  <2>1. PutBack = [list |-> NULL, next |-> next]
    BY <1>1, <1>7 DEF PutBack
  <2>2. next' = next /\ at' = "crashed" /\ running' = NULL
    BY <2>1
  <2>3. FreeListIs(q, m)'
    BY <1>1, <1>4, <2>2 DEF FreeListIs
  <2> QED  BY <1>1, <1>5, <2>2, <2>3 DEF LInv
<1> QED  BY <1>6, <1>7

\* Every step keeps the lists.
LEMMA StepKeepsLInv == KInv /\ LInv /\ [Next]_vars => LInv'
<1> SUFFICES ASSUME KInv, LInv, [Next]_vars PROVE LInv'
  OBVIOUS
<1>1. ASSUME UNCHANGED <<NPROC, next, status, freeList, creating>>
      PROVE  /\ PIDs' = PIDs
             /\ \A k : CreatingIs(k)' <=> CreatingIs(k)
             /\ \A q, m : FreeListIs(q, m)' <=> FreeListIs(q, m)
  BY <1>1 DEF PIDs, CreatingIs, FreeListIs
<1>2. CASE KforkFails
  BY <1>1, <1>2 DEF KforkFails, Caller, LInv, procs
<1>3. CASE Kfork
  BY <1>3, KforkKeepsLInv
<1>4. CASE Getchar
  BY <1>1, <1>4 DEF Getchar, KInv, LInv, procs
<1>5. CASE Kexit
  BY <1>5, KexitKeepsLInv
<1>6. CASE Save
  <2>1. ksp' = [ksp EXCEPT ![0] = creating] /\ DOMAIN ksp = PIDs
    BY <1>6 DEF Save, Saved, KInv
  <2>2. \A p \in PIDs : ksp'[p] # NULL => ksp'[p] \in Seq(PIDs)
    BY <2>1 DEF LInv
  <2> QED  BY <1>1, <1>6, <2>2 DEF Save, LInv
<1>7. CASE Scheduler
  BY <1>7, SchedulerKeepsLInv
<1>8. CASE Resume
  <2>1. creating' = creating
    BY <1>8 DEF Resume, KInv
  <2> QED  BY <1>1, <1>8, <2>1 DEF Resume, LInv, procs
<1>9. CASE MainLoop
  BY <1>1, <1>9 DEF MainLoop, LInv, procs
<1>10. CASE Crashed \/ UNCHANGED vars
  BY <1>1, <1>10 DEF Crashed, vars, LInv, procs
<1> QED  BY <1>2, <1>3, <1>4, <1>5, <1>6, <1>7, <1>8, <1>9, <1>10 DEF Next

-----------------------------------------------------------------------------
(* The theorems.                                                           *)

\* With line 36 of t.c as it stands, P0 is the only process that ever runs, and
\* readyQueue is empty whenever a function of t.c is entered.
THEOREM KernelInvariance == Spec => []KInv
  BY InitKInv, StepKeepsKInv, PTL DEF Spec

\* RESUME in ts.s finds a stack that SAVE left, and every kfork on it belongs to
\* a process that is still READY.
THEOREM ResumesSavedHolds == Spec => []ResumesSaved
<1>1. KInv => ResumesSaved
  <2> SUFFICES ASSUME KInv, at = "resume"
               PROVE  ksp[running] # NULL /\ \A p \in Elements(ksp[running]) : status[p] = "READY"
    BY DEF ResumesSaved
  <2>1. ksp[running] = creating /\ creating # NULL
    BY NULLAssumption DEF KInv
  <2>2. PICK k \in PIDs :
          creating = [i \in 1 .. k |-> i] /\ \A p \in 1 .. k : status[p] = "READY"
    BY DEF KInv, Untouched
  <2>3. \A p \in Elements(creating) : p \in 1 .. k
    BY <2>2 DEF Elements
  <2> QED  BY <2>1, <2>2, <2>3
<1> QED  BY <1>1, KernelInvariance, PTL

\* The scheduler follows a null pointer only after a process that has run has
\* exited (t.c:41-47 and 115-122).
THEOREM CrashOnlyByExitHolds == Spec => []CrashOnlyByExit
<1>1. KInv => CrashOnlyByExit
  BY DEF KInv, CrashOnlyByExit, PIDs
<1> QED  BY <1>1, KernelInvariance, PTL

\* However PROCs are moved through their one next field, the free ones are always
\* in one list, and the others are those that the kforks under way hold, and P0.
THEOREM ListInvariance == Spec => [](KInv /\ LInv)
  BY InitKInv, InitLInv, StepKeepsKInv, StepKeepsLInv, PTL DEF Spec

\* What printList would print: the lists that freeList and readyQueue start.
LEMMA WhatListsAre ==
  ASSUME KInv, LInv, NEW q, NEW m, FreeListIs(q, m)
  PROVE  Free = q /\ Ready = <<>> /\ q \in Seq(PIDs) /\ DOMAIN q = 1 .. m
<1>1. NPROC \in Nat \ {0} /\ readyQueue = NULL /\ DOMAIN next = PIDs
  BY DEF KInv, LInv
<1>2. IsFiniteSet(PIDs) /\ Cardinality(PIDs) = NPROC
  BY <1>1, PIDsFinite
<1>3. IsList(q, m, freeList, next, NULL)
  BY DEF FreeListIs
<1>4. m <= NPROC /\ m \in Nat
  <2>1. m \in Nat
    BY <1>3 DEF IsList
  <2>2. IsFiniteSet(DOMAIN next) /\ Cardinality(DOMAIN next) = NPROC
    BY <1>1, <1>2
  <2>3. m <= Cardinality(DOMAIN next)
    BY <1>3, <2>2, ListFits
  <2> QED  BY <2>1, <2>2, <2>3
<1>5. Free = q
  BY <1>1, <1>3, <1>4, NodesFromList DEF Free, ListFrom
<1>6. Ready = <<>>
  BY <1>1, EmptyList, NodesFromList DEF Ready, ListFrom
<1>7. q \in Seq(PIDs) /\ DOMAIN q = 1 .. m
  <2>1. q = [i \in 1 .. m |-> q[i]] /\ \A i \in 1 .. m : q[i] \in PIDs
    BY <1>1, <1>3 DEF IsList
  <2> QED  BY <1>4, <2>1
<1> QED  BY <1>5, <1>6, <1>7

\* The free list and the ready queue end, are sorted, have no PROC twice, and
\* have only FREE and READY PROCs (queue.c and the calls of it in t.c).
THEOREM ListsKeptHolds == Spec => []ListsKept
<1>1. KInv /\ LInv => ListsKept
  <2> SUFFICES ASSUME KInv, LInv PROVE ListsKept
    OBVIOUS
  <2>1. PICK q, m : FreeListIs(q, m)
    BY DEF LInv
  <2>2. Free = q /\ Ready = <<>> /\ q \in Seq(PIDs) /\ DOMAIN q = 1 .. m
    BY <2>1, WhatListsAre
  <2>3. Distinct(q)
    <3>1. IsList(q, m, freeList, next, NULL)
      BY <2>1 DEF FreeListIs
    <3> QED  BY <3>1, ListDistinct DEF Distinct, Elements
  <2>4. q \o <<>> = q
    BY <2>2
  <2>5. \A i \in DOMAIN q : q[i] \in PIDs /\ status[q[i]] = "FREE"
    <3>1. \A i \in 1 .. m : q[i] \in PIDs
      BY <2>1 DEF FreeListIs, IsList, LInv
    <3>2. \A i \in 1 .. m : status[q[i]] = "FREE"
      BY <2>1, <3>1 DEF FreeListIs
    <3> QED  BY <2>2, <3>1, <3>2
  <2>6. Sorted(q, priority)
    BY <2>2, <2>5 DEF Sorted, LInv
  <2>7. Sorted(<<>>, priority) /\ \A i \in DOMAIN <<>> : status[<<>>[i]] = "READY"
    BY DEF Sorted
  <2> QED  BY <2>2, <2>3, <2>4, <2>5, <2>6, <2>7 DEF ListsKept
<1> QED  BY <1>1, ListInvariance, PTL

\* No PROC is lost, and none is used twice (t.c:86-92, 41-47 and 115-122).
THEOREM AccountedHolds == Spec => []Accounted
<1>1. KInv /\ LInv => Accounted
  <2> SUFFICES ASSUME KInv, LInv PROVE Accounted
    OBVIOUS
  <2>1. PICK q, m : FreeListIs(q, m)
    BY DEF LInv
  <2>2. PICK k \in PIDs : CreatingIs(k)
    BY DEF LInv
  <2>3. Free = q /\ Ready = <<>> /\ DOMAIN q = 1 .. m
    BY <2>1, WhatListsAre
  <2>4. k \in Nat /\ NULL \notin PIDs /\ PIDs \subseteq Nat /\ 1 .. k \subseteq PIDs
    BY PIDsFinite DEF KInv, PIDs
  <2>5. Elements(creating) = 1 .. k /\ Len(creating) = k
    BY <2>2, <2>4 DEF CreatingIs, Elements
  <2>6. Distinct(creating)
    BY <2>4, <2>5, FS_Interval DEF Distinct
  <2>7. Elements(Ready) = {}
    BY <2>3 DEF Elements
  <2>8. \A p \in PIDs : p \in Elements(Free) <=> status[p] = "FREE"
    BY <2>1, <2>3 DEF Elements, FreeListIs
  <2>9. Elements(Free) \subseteq PIDs
    BY <2>1, <2>3 DEF Elements, FreeListIs, IsList, LInv
  <2>10. running = 0 \/ running = NULL
    BY DEF KInv, LInv
  <2>11. \A p \in PIDs \ {0} : status[p] = "READY" <=> p \in 1 .. k
    BY <2>2, <2>4 DEF CreatingIs
  <2>12. running = NULL => status[0] = "FREE"
    BY <2>4, <2>10, SMTT(30) DEF KInv, LInv, PIDs
  <2>13. \A p \in PIDs : status[p] = "FREE" \/ status[p] = "READY"
    BY DEF LInv
  <2>14. PIDs \subseteq Elements(Free) \cup Elements(Ready) \cup Elements(creating) \cup {running}
    BY <2>5, <2>8, <2>10, <2>11, <2>12, <2>13
  <2>15. Elements(creating) \cap (Elements(Free) \cup Elements(Ready) \cup {running}) = {}
    BY <2>4, <2>5, <2>7, <2>8, <2>10, <2>11
  <2> QED  BY <2>6, <2>14, <2>15 DEF Accounted
<1> QED  BY <1>1, ListInvariance, PTL

\* The fields of proc[] and the queues hold what their declarations say.
THEOREM TypeCorrect == Spec => []TypeOK
<1>1. KInv /\ LInv => TypeOK
  <2> SUFFICES ASSUME KInv, LInv PROVE TypeOK
    OBVIOUS
  <2>1. 0 \in PIDs
    BY DEF KInv, PIDs
  <2>2. freeList \in PIDs \cup {NULL}
    <3>1. PICK q, m : IsList(q, m, freeList, next, NULL)
      BY DEF LInv, FreeListIs
    <3>2. m = 0 \/ 1 \in 1 .. m
      BY <3>1 DEF IsList
    <3> QED  BY <3>1, <3>2 DEF IsList, LInv
  <2>3. running \in PIDs \cup {NULL}
    BY <2>1 DEF KInv, LInv
  <2>4. next \in [PIDs -> PIDs \cup {NULL}]
    BY DEF LInv
  <2>5. readyQueue \in PIDs \cup {NULL}
    BY DEF KInv
  <2>6. at \in {"main", "body", "kfork", "kexit", "tswitch", "scheduler", "resume", "crashed"}
    BY DEF KInv
  <2> QED  BY <2>2, <2>3, <2>4, <2>5, <2>6 DEF TypeOK, LInv
<1> QED  BY <1>1, ListInvariance, PTL
=============================================================================
