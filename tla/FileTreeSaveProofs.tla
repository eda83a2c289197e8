------------------------- MODULE FileTreeSaveProofs -------------------------
(* What is written of a tree is read back as the same tree, and what this    *)
(* means for the files of FileTreeSave, for all names, pathnames, files and  *)
(* numbers of nodes.                                                         *)
EXTENDS FileTreeSave, PathTreeProofs

-----------------------------------------------------------------------------
(* The nodes in the order of their pointers.                               *)

Nodes(h) == UsedIn(h) \ {Root}

\* A pointer of node y leads to node z.
Points(h, y, z) ==
  y \in UsedIn(h) /\ (h[y].child = z \/ (y # Root /\ h[y].sibling = z))

\* One pointer leads to each node but the root.
LEMMA PointsOnce ==
  ASSUME NEW h, TreeOf(h), NEW z \in Nodes(h)
  PROVE  /\ \E y \in UsedIn(h) : Points(h, y, z)
         /\ \A x, y : Points(h, x, z) /\ Points(h, y, z) => x = y
         /\ \A y \in Nodes(h) : ~(h[y].child = z /\ h[y].sibling = z)
<1>0. z # NULL /\ z # Root
  BY AddressFacts DEF Nodes, UsedIn
<1>1. \E y \in UsedIn(h) : Points(h, y, z)
  <2>1. PICK p, f : Leads(h, p, f, z)
    BY SomeLeads DEF Nodes
  <2>2. f = "child" \/ f = "sibling"
    BY <2>1 DEF Leads
  <2>3. p \in UsedIn(h) /\ (h[p].child = z \/ (p # Root /\ h[p].sibling = z))
    BY <2>1, <2>2 DEF Leads
  <2> QED  BY <2>3 DEF Points
<1>2. ASSUME NEW x, NEW y, Points(h, x, z), Points(h, y, z) PROVE x = y
  <2>1. CASE h[x].child = z /\ h[y].child = z
    <3>1. h[z].parent = x /\ h[z].parent = y
      BY <1>0, <1>2, <2>1 DEF TreeOf, ChildKept, Points
    <3> QED  BY <3>1
  <2>2. CASE h[x].child = z /\ y # Root /\ h[y].sibling = z
    BY <1>0, <1>2, <2>2 DEF TreeOf, OnePointer, Points
  <2>3. CASE h[y].child = z /\ x # Root /\ h[x].sibling = z
    BY <1>0, <1>2, <2>3 DEF TreeOf, OnePointer, Points
  <2>4. CASE x # Root /\ h[x].sibling = z /\ y # Root /\ h[y].sibling = z
    BY <1>0, <1>2, <2>4 DEF TreeOf, OnePointer, Points
  <2> QED  BY <1>2, <2>1, <2>2, <2>3, <2>4 DEF Points
<1>3. ASSUME NEW y \in Nodes(h) PROVE ~(h[y].child = z /\ h[y].sibling = z)
  BY <1>0 DEF TreeOf, OnePointer, Nodes
<1> QED  BY <1>1, <1>2, <1>3

\* A node's pointers lead to nodes.
LEMMA PointsTo ==
  ASSUME NEW h, TreeOf(h)
  PROVE  /\ h[Root].child \in Nodes(h) \cup {NULL}
         /\ \A x \in Nodes(h) : /\ h[x].child \in Nodes(h) \cup {NULL}
                                /\ h[x].sibling \in Nodes(h) \cup {NULL}
         /\ NULL \notin Nodes(h) /\ Root \notin Nodes(h) /\ Root # NULL
         /\ Nodes(h) \in SUBSET UsedIn(h) /\ UsedIn(h) = Nodes(h) \cup {Root}
         /\ IsFiniteSet(Nodes(h))
  <1>1. Nodes(h) \in SUBSET Addresses
    BY DEF Nodes, UsedIn
  <1>2. IsFiniteSet(Nodes(h)) /\ NULL \notin Addresses
    BY <1>1, AddressFacts, PartOfAddresses
  <1>3. Root # NULL
    BY DEF Root, NULL
  <1> QED
    BY <1>1, <1>2, <1>3 DEF Nodes, TreeOf, RootKept, ChildKept, SiblingKept

\* No set of nodes holds itself up: some pointer comes into it from outside.
LEMMA NoneInTheAir ==
  ASSUME NEW h, TreeOf(h), NEW I \in SUBSET Nodes(h),
         \A z \in I, y \in UsedIn(h) : Points(h, y, z) => y \in I
  PROVE  I = {}
<1> DEFINE S == UsedIn(h) \ I
<1>1. S \in SUBSET UsedIn(h) /\ Root \in S
  BY PointsTo
<1>2. ASSUME NEW x \in S, h[x].child # NULL PROVE h[x].child \in S
  <2>1. h[x].child \in Nodes(h) /\ x \in UsedIn(h)
    BY <1>2, PointsTo
  <2>2. Points(h, x, h[x].child)
    BY <2>1 DEF Points
  <2> QED  BY <2>1, <2>2, PointsTo
<1>3. ASSUME NEW x \in S, x # Root, h[x].sibling # NULL PROVE h[x].sibling \in S
  <2>1. h[x].sibling \in Nodes(h) /\ x \in UsedIn(h)
    BY <1>3, PointsTo
  <2>2. Points(h, x, h[x].sibling)
    BY <1>3, <2>1 DEF Points
  <2> QED  BY <2>1, <2>2, PointsTo
<1> HIDE DEF S
<1>4. Closed(h, S)
  BY <1>2, <1>3 DEF Closed
<1>5. S = UsedIn(h)
  BY <1>1, <1>4 DEF TreeOf, Connected
<1> QED  BY <1>5, PointsTo DEF S

\* Induction from what the pointers of a node lead to.
LEMMA BottomUp ==
  ASSUME NEW h, TreeOf(h), NEW S,
         \A x \in Nodes(h) :
           h[x].child \in S \cup {NULL} /\ h[x].sibling \in S \cup {NULL} => x \in S
  PROVE  Nodes(h) \subseteq S
<1> DEFINE T == Nodes(h) \ S
           f == [x \in T |-> CHOOSE z \in T : Points(h, x, z)]
<1>1. T \in SUBSET Nodes(h) /\ IsFiniteSet(T)
  BY PointsTo, FS_Subset
<1>2. ASSUME NEW x \in T PROVE \E z \in T : Points(h, x, z)
  <2>1. h[x].child \in Nodes(h) \cup {NULL} /\ h[x].sibling \in Nodes(h) \cup {NULL}
    BY PointsTo
  <2>2. h[x].child \notin S \cup {NULL} \/ h[x].sibling \notin S \cup {NULL}
    OBVIOUS
  <2>3. h[x].child \in T \/ h[x].sibling \in T
    BY <2>1, <2>2
  <2>4. \A z : h[x].child = z \/ h[x].sibling = z => Points(h, x, z)
    BY PointsTo DEF Points
  <2> HIDE DEF T
  <2> QED  BY <2>3, <2>4
<1>3. ASSUME NEW x \in T PROVE f[x] \in T /\ Points(h, x, f[x])
  BY <1>2
<1>4. f \in [T -> T]
  BY <1>3
<1> HIDE DEF f
<1>5. \A a, b \in T : f[a] = f[b] => a = b
  BY <1>1, <1>3, PointsOnce
<1> HIDE DEF T
<1>6. f \in Injection(T, T)
  BY <1>4, <1>5 DEF Injection, IsInjective
<1>7. f \in Surjection(T, T)
  BY <1>1, <1>6, FS_Injection
<1>8. \A z \in T : \E y \in T : f[y] = z
  BY <1>7 DEF Surjection
<1>9. \A z \in T, y \in UsedIn(h) : Points(h, y, z) => y \in T
  BY <1>1, <1>3, <1>8, PointsOnce
<1>10. T = {}
  BY <1>1, <1>9, NoneInTheAir
<1> QED  BY <1>10 DEF T

IsVisit(v, h) ==
  v = [x \in {NULL} \cup (Addresses \ (Unused(h) \cup {Root})) |->
         IF x = NULL THEN <<>> ELSE NodeFirst(x, v[h[x].child]) \o v[h[x].sibling]]

\* A visit is a function that satisfies the equation of Visited.
LEMMA VisitedIs ==
  ASSUME NEW h
  PROVE  Visited(h) = (CHOOSE v : IsVisit(v, h))[h[Root].child]
  BY DEF Visited, IsVisit

\* v visits from the nodes of A, which has all that their pointers lead to.
PartVisit(h, A, v) ==
  /\ A \in SUBSET Nodes(h) /\ v[NULL] = <<>>
  /\ \A x \in A : /\ h[x].child \in A \cup {NULL} /\ h[x].sibling \in A \cup {NULL}
                  /\ v[x] = (<<x>> \o v[h[x].child]) \o v[h[x].sibling]

\* There is one: no greatest part that can be visited leaves a node out.
LEMMA VisitExists ==
  ASSUME NEW h, TreeOf(h)
  PROVE  \E v : IsVisit(v, h) /\ PartVisit(h, Nodes(h), v)
<1> DEFINE U == Nodes(h)
           K == {k \in Nat : \E A, v : PartVisit(h, A, v) /\ k = Cardinality(U \ A)}
<1>1. \A A : IsFiniteSet(U \ A) /\ Cardinality(U \ A) \in Nat
  BY PartOfAddresses DEF UsedIn, Nodes
<1>2. K # {}
  <2> DEFINE v == [y \in {NULL} |-> <<>>]
  <2>1. PartVisit(h, {}, v)
    BY DEF PartVisit
  <2>2. Cardinality(U \ {}) \in Nat
    BY <1>1
  <2> HIDE DEF v, U
  <2> QED  BY <2>1, <2>2
<1>3. PICK k \in K : \A j \in K : k <= j
  <2>1. K \in SUBSET Nat
    OBVIOUS
  <2> HIDE DEF K
  <2> QED  BY <1>2, <2>1, LeastNumber
<1>4. PICK A, v : PartVisit(h, A, v) /\ k = Cardinality(U \ A)
  BY <1>3
<1>5. ASSUME NEW x \in U, h[x].child \in A \cup {NULL}, h[x].sibling \in A \cup {NULL}, x \notin A
      PROVE FALSE
  <2> DEFINE B == A \cup {x}
             new == (<<x>> \o v[h[x].child]) \o v[h[x].sibling]
             w == [y \in B \cup {NULL} |-> IF y = x THEN new ELSE v[y]]
  <2>1. /\ B \in SUBSET U /\ x # NULL
        /\ \A y \in A : y # x
    BY <1>4, <1>5, PointsTo DEF PartVisit
  <2>2. w[x] = new /\ w[NULL] = <<>> /\ \A y \in A \cup {NULL} : w[y] = v[y]
    BY <1>4, <2>1 DEF PartVisit
  <2> HIDE DEF w
  <2>3. ASSUME NEW y \in B
        PROVE  /\ h[y].child \in B \cup {NULL} /\ h[y].sibling \in B \cup {NULL}
               /\ w[y] = (<<y>> \o w[h[y].child]) \o w[h[y].sibling]
    <3>1. CASE y = x
      <4>1. w[h[x].child] = v[h[x].child] /\ w[h[x].sibling] = v[h[x].sibling]
        BY <1>5, <2>2
      <4> QED  BY <1>5, <2>2, <3>1, <4>1
    <3>2. CASE y \in A
      <4>1. /\ h[y].child \in A \cup {NULL} /\ h[y].sibling \in A \cup {NULL}
            /\ v[y] = (<<y>> \o v[h[y].child]) \o v[h[y].sibling]
        BY <1>4, <3>2 DEF PartVisit
      <4>2. w[h[y].child] = v[h[y].child] /\ w[h[y].sibling] = v[h[y].sibling] /\ w[y] = v[y]
        BY <2>2, <3>2, <4>1
      <4> QED  BY <4>1, <4>2
    <3> QED  BY <3>1, <3>2
  <2>4. PartVisit(h, B, w)
    BY <2>1, <2>2, <2>3 DEF PartVisit
  <2>5. Cardinality(U \ B) = Cardinality(U \ A) - 1
    <3>1. U \ B = (U \ A) \ {x} /\ x \in U \ A
      BY <1>5
    <3> DEFINE R == U \ A
    <3>2. IsFiniteSet(R) /\ x \in R
      BY <1>1, <3>1
    <3> HIDE DEF U, B, R
    <3>3. Cardinality(R \ {x}) = Cardinality(R) - 1
      BY <3>2, FS_RemoveElement
    <3>4. U \ B = R \ {x}
      BY <3>1 DEF R
    <3> QED  BY <3>3, <3>4 DEF R
  <2>6. Cardinality(U \ B) \in K
    BY <1>1, <2>4
  <2>7. k \in Nat /\ Cardinality(U \ B) = k - 1
    BY <1>4, <2>5
  <2>8. k <= Cardinality(U \ B)
    BY <1>3, <2>6
  <2> HIDE DEF K, U, B
  <2> QED  BY <2>7, <2>8
<1>6. U \subseteq A
  BY <1>5, BottomUp
<1>7. A = U
  BY <1>4, <1>6 DEF PartVisit
<1> DEFINE g == [y \in {NULL} \cup U |-> v[y]]
<1>8. g[NULL] = <<>> /\ \A y \in U : g[y] = (<<y>> \o g[h[y].child]) \o g[h[y].sibling]
  BY <1>4, <1>7 DEF PartVisit
<1>9. g = [y \in {NULL} \cup U |-> g[y]]
  OBVIOUS
<1> HIDE DEF g
<1>10. U = Addresses \ (Unused(h) \cup {Root}) /\ NULL \notin U
  BY PointsTo DEF Nodes, UsedIn
<1>11. g = [x \in {NULL} \cup U |->
              IF x = NULL THEN <<>> ELSE (<<x>> \o g[h[x].child]) \o g[h[x].sibling]]
  BY <1>8, <1>9, <1>10
<1>12. IsVisit(g, h)
  BY <1>10, <1>11 DEF IsVisit, NodeFirst
<1>13. PartVisit(h, U, g)
  BY <1>8, PointsTo DEF PartVisit
<1> QED  BY <1>12, <1>13

\* Whatever satisfies the equation visits from all the nodes.
LEMMA VisitPart ==
  ASSUME NEW h, TreeOf(h), NEW v, IsVisit(v, h)
  PROVE  PartVisit(h, Nodes(h), v)
<1> DEFINE U == Nodes(h)
<1>1. U = Addresses \ (Unused(h) \cup {Root}) /\ NULL \notin U
  BY PointsTo DEF Nodes, UsedIn
<1>2. v = [x \in {NULL} \cup U |->
             IF x = NULL THEN <<>> ELSE (<<x>> \o v[h[x].child]) \o v[h[x].sibling]]
  BY <1>1 DEF IsVisit, NodeFirst
<1> HIDE DEF U
<1>3. v[NULL] = <<>> /\ \A x \in U : v[x] = (<<x>> \o v[h[x].child]) \o v[h[x].sibling]
  BY <1>1, <1>2
<1>4. \A x \in U : h[x].child \in U \cup {NULL} /\ h[x].sibling \in U \cup {NULL}
  BY PointsTo DEF U
<1> QED  BY <1>3, <1>4 DEF PartVisit, U

Joined(x, a, b) == (<<x>> \o a) \o b

\* Where everything is in a sequence of three parts.
LEMMA ThreeParts ==
  ASSUME NEW S, NEW x \in S, NEW a \in Seq(S), NEW b \in Seq(S),
         NEW q, q = Joined(x, a, b)
  PROVE  /\ q \in Seq(S) /\ Len(q) = 1 + Len(a) + Len(b) /\ q[1] = x
         /\ \A i \in 1 .. Len(a) : q[1 + i] = a[i]
         /\ \A i \in 1 .. Len(b) : q[1 + Len(a) + i] = b[i]
         /\ \A k \in 1 .. Len(q) :
               \/ k = 1
               \/ \E i \in 1 .. Len(a) : k = 1 + i
               \/ \E i \in 1 .. Len(b) : k = 1 + Len(a) + i
<1> DEFINE p == <<x>> \o a
           m == Len(a)
           n == Len(b)
<1>1. m \in Nat /\ n \in Nat
  OBVIOUS
<1>2. p \in Seq(S) /\ Len(p) = 1 + m /\ p[1] = x /\ \A i \in 1 .. m : p[1 + i] = a[i]
  <2>1. <<x>> \in Seq(S) /\ Len(<<x>>) = 1
    OBVIOUS
  <2>2. p \in Seq(S) /\ Len(p) = 1 + m
    BY <2>1
  <2>3. \A k \in 1 .. 1 + m : p[k] = IF k <= 1 THEN x ELSE a[k - 1]
    BY <2>1
  <2> HIDE DEF p, m
  <2>4. \A i \in 1 .. m : 1 + i \in 1 .. 1 + m /\ ~(1 + i <= 1) /\ (1 + i) - 1 = i
    BY <1>1
  <2>5. \A i \in 1 .. m : p[1 + i] = a[i]
    BY <2>3, <2>4
  <2>6. p[1] = x
    BY <1>1, <2>3
  <2> QED  BY <2>2, <2>5, <2>6
<1> HIDE DEF p
<1>3. q = p \o b
  BY DEF p, Joined
<1>4. q \in Seq(S) /\ Len(q) = 1 + m + n
  <2>1. b \in Seq(S) /\ Len(b) = n
    OBVIOUS
  <2> HIDE DEF m, n
  <2>2. p \in Seq(S) /\ Len(p) = 1 + m
    BY <1>2
  <2>3. p \o b \in Seq(S) /\ Len(p \o b) = Len(p) + Len(b)
    BY <2>1, <2>2
  <2> QED  BY <1>3, <2>1, <2>2, <2>3
<1>5. \A k \in 1 .. 1 + m + n : q[k] = IF k <= 1 + m THEN p[k] ELSE b[k - (1 + m)]
  BY <1>2, <1>3, <1>4
<1> HIDE DEF m, n
<1>6. \A i \in 1 .. m : 1 + i \in 1 .. 1 + m + n /\ 1 + i <= 1 + m
  BY <1>1
<1>7. \A i \in 1 .. n : /\ 1 + m + i \in 1 .. 1 + m + n /\ ~(1 + m + i <= 1 + m)
                        /\ (1 + m + i) - (1 + m) = i
  BY <1>1
<1>8. 1 \in 1 .. 1 + m + n /\ 1 <= 1 + m
  BY <1>1
<1>9. \A k \in 1 .. 1 + m + n :
      \/ k = 1
      \/ \E i \in 1 .. m : k = 1 + i
      \/ \E i \in 1 .. n : k = 1 + m + i
  <2> TAKE k \in 1 .. 1 + m + n
  <2>1. CASE k = 1
    BY <2>1
  <2>2. CASE k # 1 /\ k <= 1 + m
    <3>1. k - 1 \in 1 .. m /\ k = 1 + (k - 1)
      BY <1>1, <2>2
    <3> QED  BY <3>1
  <2>3. CASE k > 1 + m
    <3>1. k - (1 + m) \in 1 .. n /\ k = 1 + m + (k - (1 + m))
      BY <1>1, <2>3
    <3> QED  BY <3>1
  <2> QED  BY <1>1, <2>1, <2>2, <2>3
<1>10. q[1] = x
  BY <1>2, <1>5, <1>8
<1>11. \A i \in 1 .. m : q[1 + i] = a[i]
  BY <1>2, <1>5, <1>6
<1>12. \A i \in 1 .. n : q[1 + m + i] = b[i]
  BY <1>5, <1>7
<1>13. \A k \in 1 .. Len(q) :
      \/ k = 1
      \/ \E i \in 1 .. m : k = 1 + i
      \/ \E i \in 1 .. n : k = 1 + m + i
  BY <1>4, <1>9
<1> QED  BY <1>4, <1>10, <1>11, <1>12, <1>13 DEF m, n

\* q goes through the nodes that the pointers lead to from x on, x first, each
\* of the others behind the one whose pointer leads to it.
Ordered(h, q, x) ==
  /\ q \in Seq(Nodes(h)) /\ 1 <= Len(q) /\ q[1] = x
  /\ \A i, j \in 1 .. Len(q) : q[i] = q[j] => i = j
  /\ \A i \in 2 .. Len(q) : \E j \in 1 .. i - 1 : Points(h, q[j], q[i])
  /\ \A i \in 1 .. Len(q), y \in Nodes(h) :
       Points(h, q[i], y) => \E j \in 1 .. Len(q) : q[j] = y

\* The parts of Ordered that are needed most.
LEMMA OrderedFacts ==
  ASSUME NEW h, NEW q, NEW x, Ordered(h, q, x)
  PROVE  /\ Len(q) \in Nat /\ 1 \in 1 .. Len(q)
         /\ \A i \in 1 .. Len(q) : q[i] \in Nodes(h)
         /\ \A i \in 1 .. Len(q) : i = 1 \/ \E j \in 1 .. Len(q) : j < i /\ Points(h, q[j], q[i])
<1> DEFINE n == Len(q)
<1>1. n \in Nat /\ 1 <= n /\ \A i \in 1 .. n : q[i] \in Nodes(h)
  BY DEF Ordered
<1>2. \A i \in 2 .. n : \E j \in 1 .. i - 1 : Points(h, q[j], q[i])
  BY DEF Ordered
<1> HIDE DEF n
<1>3. ASSUME NEW i \in 1 .. n, i # 1 PROVE \E j \in 1 .. n : j < i /\ Points(h, q[j], q[i])
  <2>1. i \in 2 .. n
    BY <1>1, <1>3
  <2>2. PICK j \in 1 .. i - 1 : Points(h, q[j], q[i])
    BY <1>2, <2>1
  <2>3. j \in 1 .. n /\ j < i
    BY <1>1
  <2> QED  BY <2>2, <2>3
<1> QED  BY <1>1, <1>3 DEF n

\* The pointer to x comes from outside.
LEMMA OrderedSource ==
  ASSUME NEW h, TreeOf(h), NEW q, NEW x, Ordered(h, q, x), NEW y, Points(h, y, x)
  PROVE  \A i \in 1 .. Len(q) : q[i] # y
<1> SUFFICES ASSUME NEW k \in 1 .. Len(q), q[k] = y PROVE FALSE
  OBVIOUS
<1> DEFINE n == Len(q)
           I == {q[i] : i \in 1 .. n}
<1>1. /\ n \in Nat /\ 1 \in 1 .. n /\ \A i \in 1 .. n : q[i] \in Nodes(h)
      /\ \A i \in 1 .. n : i = 1 \/ \E j \in 1 .. n : j < i /\ Points(h, q[j], q[i])
  BY OrderedFacts
<1>2. k \in 1 .. n /\ q[1] = x
  BY DEF Ordered
<1> HIDE DEF n
<1>3. I \in SUBSET Nodes(h) /\ I # {}
  BY <1>1
<1>4. ASSUME NEW z \in I, NEW w \in UsedIn(h), Points(h, w, z) PROVE w \in I
  <2>1. PICK i \in 1 .. n : z = q[i]
    OBVIOUS
  <2>2. CASE i = 1
    <3>1. z = x /\ z \in Nodes(h)
      BY <1>1, <1>2, <2>1, <2>2
    <3>2. w = q[k]
      BY <1>4, <3>1, PointsOnce
    <3> QED  BY <1>2, <3>2
  <2>3. CASE i # 1
    <3>1. PICK j \in 1 .. n : Points(h, q[j], z)
      BY <1>1, <2>1, <2>3
    <3>2. w = q[j]
      BY <1>1, <1>4, <2>1, <3>1, PointsOnce
    <3> QED  BY <3>2
  <2> QED  BY <2>2, <2>3
<1> HIDE DEF I
<1>5. I = {}
  BY <1>3, <1>4, NoneInTheAir
<1> QED  BY <1>3, <1>5

\* What is reached through the two pointers of a node.
LEMMA OrderedApart ==
  ASSUME NEW h, TreeOf(h), NEW x \in Nodes(h),
         NEW a, Ordered(h, a, h[x].child), NEW b, Ordered(h, b, h[x].sibling)
  PROVE  \A i \in 1 .. Len(a), j \in 1 .. Len(b) : a[i] # b[j]
<1> DEFINE m == Len(a)
           n == Len(b)
           c == h[x].child
           s == h[x].sibling
           I == {z \in Nodes(h) : \E i \in 1 .. m, j \in 1 .. n : z = a[i] /\ z = b[j]}
<1>1. /\ 1 \in 1 .. m /\ \A i \in 1 .. m : a[i] \in Nodes(h)
      /\ \A i \in 1 .. m : i = 1 \/ \E j \in 1 .. m : j < i /\ Points(h, a[j], a[i])
  BY OrderedFacts
<1>2. /\ 1 \in 1 .. n /\ \A i \in 1 .. n : b[i] \in Nodes(h)
      /\ \A i \in 1 .. n : i = 1 \/ \E j \in 1 .. n : j < i /\ Points(h, b[j], b[i])
  BY OrderedFacts
<1>3. a[1] = c /\ b[1] = s
  BY DEF Ordered
<1>4. Points(h, x, c) /\ Points(h, x, s)
  BY PointsTo DEF Points
<1>5. \A i \in 1 .. m : a[i] # x
  BY <1>4, OrderedSource
<1>6. \A i \in 1 .. n : b[i] # x
  BY <1>4, OrderedSource
<1>7. c \in Nodes(h) /\ s \in Nodes(h) /\ c # s
  <2>1. c \in Nodes(h) /\ s \in Nodes(h)
    BY <1>1, <1>2, <1>3
  <2> QED  BY <2>1, PointsOnce
<1> HIDE DEF m, n, c, s
<1>8. I \in SUBSET Nodes(h)
  OBVIOUS
<1>9. ASSUME NEW z \in I, NEW y \in UsedIn(h), Points(h, y, z) PROVE y \in I
  <2>1. PICK i \in 1 .. m, j \in 1 .. n : z = a[i] /\ z = b[j]
    OBVIOUS
  <2>2. z \in Nodes(h)
    OBVIOUS
  <2> HIDE DEF I
  <2>3. i # 1
    <3> SUFFICES ASSUME i = 1 PROVE FALSE
      OBVIOUS
    <3>1. z = c /\ j # 1
      BY <1>3, <1>7, <2>1
    <3>2. PICK k \in 1 .. n : Points(h, b[k], z)
      BY <1>2, <2>1, <3>1
    <3>3. b[k] = x
      BY <1>4, <1>7, <3>1, <3>2, PointsOnce
    <3> QED  BY <1>6, <3>3
  <2>4. j # 1
    <3> SUFFICES ASSUME j = 1 PROVE FALSE
      OBVIOUS
    <3>1. z = s /\ i # 1
      BY <1>3, <1>7, <2>1
    <3>2. PICK k \in 1 .. m : Points(h, a[k], z)
      BY <1>1, <2>1, <3>1
    <3>3. a[k] = x
      BY <1>4, <1>7, <3>1, <3>2, PointsOnce
    <3> QED  BY <1>5, <3>3
  <2>5. PICK k \in 1 .. m : Points(h, a[k], z)
    BY <1>1, <2>1, <2>3
  <2>6. PICK l \in 1 .. n : Points(h, b[l], z)
    BY <1>2, <2>1, <2>4
  <2>7. y = a[k] /\ y = b[l]
    BY <1>9, <2>2, <2>5, <2>6, PointsOnce
  <2> QED  BY <1>1, <2>7 DEF I
<1> HIDE DEF I
<1>10. I = {}
  BY <1>8, <1>9, NoneInTheAir
<1>11. ASSUME NEW i \in 1 .. m, NEW j \in 1 .. n, a[i] = b[j] PROVE FALSE
  BY <1>1, <1>10, <1>11 DEF I
<1> QED  BY <1>11 DEF m, n

\* A node, then what its child leads to, then what its sibling leads to.
LEMMA OrderedStep ==
  ASSUME NEW h, TreeOf(h), NEW x \in Nodes(h), 
         NEW c, c = h[x].child, NEW s, s = h[x].sibling,
         NEW a, IF c = NULL THEN a = <<>> ELSE Ordered(h, a, c),
         NEW b, IF s = NULL THEN b = <<>> ELSE Ordered(h, b, s),
         NEW q, q = Joined(x, a, b)
  PROVE  Ordered(h, q, x)
<1> DEFINE m == Len(a)
           n == Len(b)
<1>1. a \in Seq(Nodes(h)) /\ b \in Seq(Nodes(h)) /\ m \in Nat /\ n \in Nat
  <2>1. a = <<>> \/ a \in Seq(Nodes(h))
    BY DEF Ordered
  <2>2. b = <<>> \/ b \in Seq(Nodes(h))
    BY DEF Ordered
  <2>3. <<>> \in Seq(Nodes(h)) /\ \A r \in Seq(Nodes(h)) : Len(r) \in Nat
    OBVIOUS
  <2> QED  BY <2>1, <2>2, <2>3
<1>2. /\ q \in Seq(Nodes(h)) /\ Len(q) = 1 + m + n /\ q[1] = x
      /\ \A i \in 1 .. m : q[1 + i] = a[i]
      /\ \A i \in 1 .. n : q[1 + m + i] = b[i]
      /\ \A k \in 1 .. Len(q) :
            \/ k = 1
            \/ \E i \in 1 .. m : k = 1 + i
            \/ \E i \in 1 .. n : k = 1 + m + i
  BY <1>1, ThreeParts
<1>3. c = NULL \/ (m # 0 /\ Ordered(h, a, c))
  BY DEF Ordered
<1>4. s = NULL \/ (n # 0 /\ Ordered(h, b, s))
  BY DEF Ordered
<1>5. c = NULL => m = 0
  OBVIOUS
<1>6. s = NULL => n = 0
  OBVIOUS
<1>7. c \in Nodes(h) \cup {NULL} /\ s \in Nodes(h) \cup {NULL} /\ NULL \notin Nodes(h)
  BY PointsTo
<1>8. \A y \in Nodes(h) : Points(h, x, y) <=> y = c \/ y = s
  BY PointsTo DEF Points
<1>0. (\A k \in 1 .. m : a[k] \in Nodes(h)) /\ (\A k \in 1 .. n : b[k] \in Nodes(h))
  BY <1>1
<1> HIDE DEF m, n
\* The parts: their nodes, in order.
<1>9. /\ \A i, j \in 1 .. m : a[i] = a[j] => i = j
      /\ \A i \in 1 .. m : (i = 1 /\ a[i] = c) \/ \E j \in 1 .. m : j < i /\ Points(h, a[j], a[i])
      /\ \A i \in 1 .. m, y \in Nodes(h) : Points(h, a[i], y) => \E j \in 1 .. m : a[j] = y
      /\ \A i \in 1 .. m : a[i] # x
      /\ c # NULL => 1 \in 1 .. m /\ a[1] = c
  <2>1. CASE c = NULL
    BY <1>5, <2>1
  <2>2. CASE c # NULL
    <3>1. Ordered(h, a, c)
      BY <1>3, <2>2
    <3>2. Points(h, x, c)
      BY <1>7, <1>8, <2>2
    <3>3. a[1] = c /\ \A i, j \in 1 .. m : a[i] = a[j] => i = j
      BY <3>1 DEF Ordered, m
    <3>4. \A i \in 1 .. m, y \in Nodes(h) : Points(h, a[i], y) => \E j \in 1 .. m : a[j] = y
      BY <3>1 DEF Ordered, m
    <3>5. \A i \in 1 .. m : i = 1 \/ \E j \in 1 .. m : j < i /\ Points(h, a[j], a[i])
      BY <3>1, OrderedFacts DEF m
    <3>6. \A i \in 1 .. m : a[i] # x
      BY <3>1, <3>2, OrderedSource DEF m
    <3>7. 1 \in 1 .. m
      BY <3>1, OrderedFacts DEF m
    <3> QED  BY <3>3, <3>4, <3>5, <3>6, <3>7
  <2> QED  BY <2>1, <2>2
<1>10. /\ \A i, j \in 1 .. n : b[i] = b[j] => i = j
       /\ \A i \in 1 .. n : (i = 1 /\ b[i] = s) \/ \E j \in 1 .. n : j < i /\ Points(h, b[j], b[i])
       /\ \A i \in 1 .. n, y \in Nodes(h) : Points(h, b[i], y) => \E j \in 1 .. n : b[j] = y
       /\ \A i \in 1 .. n : b[i] # x
       /\ s # NULL => 1 \in 1 .. n /\ b[1] = s
  <2>1. CASE s = NULL
    BY <1>6, <2>1
  <2>2. CASE s # NULL
    <3>1. Ordered(h, b, s)
      BY <1>4, <2>2
    <3>2. Points(h, x, s)
      BY <1>7, <1>8, <2>2
    <3>3. b[1] = s /\ \A i, j \in 1 .. n : b[i] = b[j] => i = j
      BY <3>1 DEF Ordered, n
    <3>4. \A i \in 1 .. n, y \in Nodes(h) : Points(h, b[i], y) => \E j \in 1 .. n : b[j] = y
      BY <3>1 DEF Ordered, n
    <3>5. \A i \in 1 .. n : i = 1 \/ \E j \in 1 .. n : j < i /\ Points(h, b[j], b[i])
      BY <3>1, OrderedFacts DEF n
    <3>6. \A i \in 1 .. n : b[i] # x
      BY <3>1, <3>2, OrderedSource DEF n
    <3>7. 1 \in 1 .. n
      BY <3>1, OrderedFacts DEF n
    <3> QED  BY <3>3, <3>4, <3>5, <3>6, <3>7
  <2> QED  BY <2>1, <2>2
<1>11. \A i \in 1 .. m, j \in 1 .. n : a[i] # b[j]
  <2>1. CASE c # NULL /\ s # NULL
    <3>1. Ordered(h, a, c) /\ Ordered(h, b, s)
      BY <1>3, <1>4, <2>1
    <3> QED  BY <3>1, OrderedApart DEF m, n
  <2>2. CASE c = NULL \/ s = NULL
    BY <1>5, <1>6, <2>2
  <2> QED  BY <2>1, <2>2
<1> DEFINE N == Len(q)
<1>12. N = 1 + m + n /\ N \in Nat /\ 1 \in 1 .. N /\ 1 <= N
  BY <1>1, <1>2
<1>13. \A i \in 1 .. m : 1 + i \in 1 .. N
  BY <1>1, <1>12
<1>14. \A i \in 1 .. n : 1 + m + i \in 1 .. N
  BY <1>1, <1>12
<1> HIDE DEF N
<1>15. ASSUME NEW i \in 1 .. N, NEW j \in 1 .. N, q[i] = q[j] PROVE i = j
  <2>1. ASSUME NEW k \in 1 .. m, NEW l \in 1 .. n PROVE q[1 + k] # x /\ q[1 + m + l] # x /\ q[1 + k] # q[1 + m + l]
    BY <1>2, <1>9, <1>10, <1>11
  <2>2. \/ i = 1
        \/ \E k \in 1 .. m : i = 1 + k
        \/ \E k \in 1 .. n : i = 1 + m + k
    BY <1>2 DEF N
  <2>3. \/ j = 1
        \/ \E k \in 1 .. m : j = 1 + k
        \/ \E k \in 1 .. n : j = 1 + m + k
    BY <1>2 DEF N
  <2>4. ASSUME NEW k \in 1 .. m, i = 1 + k, NEW l \in 1 .. m, j = 1 + l PROVE i = j
    BY <1>2, <1>9, <1>15, <2>4
  <2>5. ASSUME NEW k \in 1 .. n, i = 1 + m + k, NEW l \in 1 .. n, j = 1 + m + l PROVE i = j
    BY <1>2, <1>10, <1>15, <2>5
  <2>6. \A k \in 1 .. m : q[1 + k] # q[1]
    BY <1>2, <1>9
  <2>7. \A k \in 1 .. n : q[1 + m + k] # q[1]
    BY <1>2, <1>10
  <2>8. \A k \in 1 .. m, l \in 1 .. n : q[1 + k] # q[1 + m + l]
    BY <2>1
  <2> QED  BY <1>15, <2>2, <2>3, <2>4, <2>5, <2>6, <2>7, <2>8
<1>16. ASSUME NEW i \in 2 .. N PROVE \E j \in 1 .. i - 1 : Points(h, q[j], q[i])
  <2>1. i \in 1 .. N /\ i # 1 /\ 1 \in 1 .. i - 1 /\ i \in Nat
    BY <1>12
  <2>2. \/ \E k \in 1 .. m : i = 1 + k
        \/ \E k \in 1 .. n : i = 1 + m + k
    BY <1>2, <2>1 DEF N
  <2>3. ASSUME NEW k \in 1 .. m, i = 1 + k PROVE \E j \in 1 .. i - 1 : Points(h, q[j], q[i])
    <3>1. q[i] = a[k] /\ a[k] \in Nodes(h)
      BY <1>0, <1>2, <2>3
    <3>2. CASE a[k] = c
      BY <1>2, <1>8, <2>1, <3>1, <3>2
    <3>3. CASE \E j \in 1 .. m : j < k /\ Points(h, a[j], a[k])
      <4>1. PICK j \in 1 .. m : j < k /\ Points(h, a[j], a[k])
        BY <3>3
      <4>2. 1 + j \in 1 .. i - 1 /\ q[1 + j] = a[j]
        BY <1>2, <2>3, <4>1
      <4> QED  BY <3>1, <4>1, <4>2
    <3> QED  BY <1>9, <3>2, <3>3
  <2>4. ASSUME NEW k \in 1 .. n, i = 1 + m + k PROVE \E j \in 1 .. i - 1 : Points(h, q[j], q[i])
    <3>1. q[i] = b[k] /\ b[k] \in Nodes(h)
      BY <1>0, <1>2, <2>4
    <3>2. CASE b[k] = s
      BY <1>2, <1>8, <2>1, <3>1, <3>2
    <3>3. CASE \E j \in 1 .. n : j < k /\ Points(h, b[j], b[k])
      <4>1. PICK j \in 1 .. n : j < k /\ Points(h, b[j], b[k])
        BY <3>3
      <4>2. 1 + m + j \in 1 .. i - 1 /\ q[1 + m + j] = b[j]
        BY <1>1, <1>2, <2>4, <4>1
      <4> QED  BY <3>1, <4>1, <4>2
    <3> QED  BY <1>10, <3>2, <3>3
  <2> QED  BY <2>2, <2>3, <2>4
<1>17. ASSUME NEW i \in 1 .. N, NEW y \in Nodes(h), Points(h, q[i], y)
       PROVE  \E j \in 1 .. N : q[j] = y
  <2>1. \A k \in 1 .. m : \E j \in 1 .. N : q[j] = a[k]
    BY <1>2, <1>13
  <2>2. \A k \in 1 .. n : \E j \in 1 .. N : q[j] = b[k]
    BY <1>2, <1>14
  <2>3. CASE i = 1
    <3>1. y = c \/ y = s
      BY <1>2, <1>8, <1>17, <2>3
    <3> QED  BY <1>7, <1>9, <1>10, <2>1, <2>2, <3>1
  <2>4. ASSUME NEW k \in 1 .. m, i = 1 + k PROVE \E j \in 1 .. N : q[j] = y
    <3>1. Points(h, a[k], y)
      BY <1>2, <1>17, <2>4
    <3> QED  BY <1>9, <2>1, <3>1
  <2>5. ASSUME NEW k \in 1 .. n, i = 1 + m + k PROVE \E j \in 1 .. N : q[j] = y
    <3>1. Points(h, b[k], y)
      BY <1>2, <1>17, <2>5
    <3> QED  BY <1>10, <2>2, <3>1
  <2> QED  BY <1>2, <2>3, <2>4, <2>5 DEF N
<1> QED  BY <1>2, <1>12, <1>15, <1>16, <1>17 DEF Ordered, N

\* From every node the visit goes so.
LEMMA VisitOrdered ==
  ASSUME NEW h, TreeOf(h), NEW v, PartVisit(h, Nodes(h), v)
  PROVE  \A x \in Nodes(h) : Ordered(h, v[x], x)
<1> DEFINE S == {x \in Nodes(h) : Ordered(h, v[x], x)}
<1>1. ASSUME NEW x \in Nodes(h),
             h[x].child \in S \cup {NULL}, h[x].sibling \in S \cup {NULL}
      PROVE  x \in S
  <2> DEFINE c == h[x].child
             s == h[x].sibling
  <2>1. v[NULL] = <<>> /\ v[x] = Joined(x, v[c], v[s])
    BY DEF PartVisit, Joined
  <2>2. c # NULL => Ordered(h, v[c], c)
    BY <1>1
  <2>3. s # NULL => Ordered(h, v[s], s)
    BY <1>1
  <2> HIDE DEF c, s
  <2>4. IF c = NULL THEN v[c] = <<>> ELSE Ordered(h, v[c], c)
    BY <2>1, <2>2
  <2>5. IF s = NULL THEN v[s] = <<>> ELSE Ordered(h, v[s], s)
    BY <2>1, <2>3
  <2>6. Ordered(h, v[x], x)
    BY <2>1, <2>4, <2>5, OrderedStep DEF c, s
  <2> QED  BY <2>6
<1> HIDE DEF S
<1>2. Nodes(h) \subseteq S
  BY <1>1, BottomUp
<1> QED  BY <1>2 DEF S

\* q has all the nodes, each once, and each behind the one whose pointer leads to it.
InOrder(h, q) ==
  /\ q \in Seq(Nodes(h)) /\ Len(q) < MaxNodes
  /\ \A i, j \in 1 .. Len(q) : q[i] = q[j] => i = j
  /\ \A x \in Nodes(h) : \E i \in 1 .. Len(q) : q[i] = x
  /\ \A i \in 1 .. Len(q) : \/ Points(h, Root, q[i])
                            \/ \E j \in 1 .. Len(q) : j < i /\ Points(h, q[j], q[i])

\* writeNodes (fileTreeSim.c:349-358) visits the nodes in such an order.
THEOREM VisitedInOrder ==
  ASSUME NEW h, TreeOf(h)
  PROVE  InOrder(h, Visited(h))
<1> DEFINE c == h[Root].child
           U == Nodes(h)
<1>1. \E v : IsVisit(v, h)
  BY VisitExists
<1> DEFINE v == CHOOSE w : IsVisit(w, h)
<1>2. IsVisit(v, h) /\ Visited(h) = v[c]
  BY <1>1, VisitedIs
<1> HIDE DEF v
<1>3. PartVisit(h, U, v)
  BY <1>2, VisitPart
<1> DEFINE q == v[c]
           n == Len(q)
<1>4. c \in U \cup {NULL} /\ NULL \notin U /\ v[NULL] = <<>> /\ Root \notin U
  BY <1>3, PointsTo DEF PartVisit
<1>5. c # NULL => Ordered(h, q, c)
  BY <1>3, <1>4, VisitOrdered
<1>6. c = NULL => q = <<>>
  BY <1>4
<1> HIDE DEF q
<1>7. q \in Seq(U) /\ n \in Nat
  <2>1. <<>> \in Seq(U) /\ \A r \in Seq(U) : Len(r) \in Nat
    OBVIOUS
  <2> QED  BY <1>5, <1>6, <2>1 DEF Ordered
<1>8. c = NULL => n = 0
  BY <1>6
<1> HIDE DEF n
<1>9. \A i, j \in 1 .. n : q[i] = q[j] => i = j
  BY <1>5, <1>8 DEF Ordered, n
<1>10. \A i \in 1 .. n : q[i] \in U
  BY <1>7 DEF n
<1>11. \A x \in U : \E i \in 1 .. n : q[i] = x
  <2> DEFINE I == {x \in U : \A i \in 1 .. n : q[i] # x}
  <2>1. ASSUME NEW z \in I, NEW y \in UsedIn(h), Points(h, y, z) PROVE y \in I
    <3>1. z \in U /\ \A i \in 1 .. n : q[i] # z
      OBVIOUS
    <3>2. y # Root
      <4> SUFFICES ASSUME y = Root PROVE FALSE
        OBVIOUS
      <4>1. z = c
        BY <2>1 DEF Points
      <4>2. Ordered(h, q, c)
        BY <1>4, <1>5, <3>1, <4>1
      <4>3. q[1] = z /\ 1 \in 1 .. n
        BY <4>1, <4>2, OrderedFacts DEF Ordered, n
      <4> QED  BY <3>1, <4>3
    <3>3. y \in U
      BY <3>2, PointsTo
    <3>4. ASSUME NEW i \in 1 .. n, q[i] = y PROVE FALSE
      <4>1. Ordered(h, q, c)
        BY <1>5, <1>8
      <4>2. \E j \in 1 .. n : q[j] = z
        BY <2>1, <3>1, <3>4, <4>1 DEF Ordered, n
      <4> QED  BY <3>1, <4>2
    <3> QED  BY <3>3, <3>4
  <2>2. I \in SUBSET U
    OBVIOUS
  <2> HIDE DEF I
  <2>3. I = {}
    BY <2>1, <2>2, NoneInTheAir
  <2> QED  BY <2>3 DEF I
<1>12. ASSUME NEW i \in 1 .. n
       PROVE  Points(h, Root, q[i]) \/ \E j \in 1 .. n : j < i /\ Points(h, q[j], q[i])
  <2>1. Ordered(h, q, c)
    BY <1>5, <1>8
  <2>2. i = 1 \/ \E j \in 1 .. n : j < i /\ Points(h, q[j], q[i])
    BY <2>1, OrderedFacts DEF n
  <2>3. i = 1 => Points(h, Root, q[i])
    <3>1. q[1] = c /\ Root \in UsedIn(h)
      BY <2>1, PointsTo DEF Ordered
    <3> QED  BY <3>1 DEF Points
  <2> QED  BY <2>2, <2>3
<1>13. n < MaxNodes
  <2> DEFINE f == [i \in 1 .. n |-> q[i]]
  <2>1. f \in [1 .. n -> U] /\ \A i, j \in 1 .. n : f[i] = f[j] => i = j
    BY <1>9, <1>10
  <2> HIDE DEF f
  <2>2. f \in Injection(1 .. n, U)
    BY <2>1 DEF Injection, IsInjective
  <2>3. Cardinality(1 .. n) <= Cardinality(U)
    BY <2>2, PointsTo, FS_Injection
  <2>4. Cardinality(1 .. n) = n
    BY <1>7, FS_Interval
  <2>5. U \in SUBSET (Addresses \ {Root})
    BY DEF Nodes, UsedIn
  <2>6. /\ IsFiniteSet(Addresses \ {Root})
        /\ Cardinality(Addresses \ {Root}) = MaxNodes - 1 /\ MaxNodes \in Nat
    BY AddressFacts, FS_RemoveElement
  <2>7. Cardinality(U) <= MaxNodes - 1
    BY <2>5, <2>6, FS_Subset
  <2>8. Cardinality(U) \in Nat
    BY PointsTo, FS_CardinalityType
  <2> QED  BY <1>7, <2>3, <2>4, <2>6, <2>7, <2>8
<1>14. InOrder(h, q)
  BY <1>7, <1>9, <1>11, <1>12, <1>13 DEF InOrder, n
<1> QED  BY <1>2, <1>14 DEF q

-----------------------------------------------------------------------------
(* The tree made of the first nodes of such an order.                      *)

\* The address the rebuilt tree has for node x, and the node at address i.
Place(q, x) == IF x = Root THEN Root ELSE (CHOOSE i \in 1 .. Len(q) : q[i] = x) + 1
Origin(q, i) == IF i = Root THEN Root ELSE q[i - 1]

\* Places and nodes are one to one.
LEMMA PlaceFacts ==
  ASSUME NEW h, TreeOf(h), NEW q, InOrder(h, q), NEW n, n = Len(q)
  PROVE  /\ n \in Nat /\ n + 1 <= MaxNodes /\ MaxNodes \in Nat /\ Root = 1 /\ NULL = 0
         /\ Place(q, Root) = Root
         /\ \A i \in 1 .. n : q[i] \in Nodes(h) /\ Place(q, q[i]) = i + 1
         /\ \A x \in Nodes(h) : Place(q, x) \in 2 .. n + 1
         /\ \A x \in UsedIn(h) : Place(q, x) \in 1 .. n + 1 /\ Origin(q, Place(q, x)) = x
         /\ \A i \in 1 .. n + 1 : Origin(q, i) \in UsedIn(h) /\ Place(q, Origin(q, i)) = i
         /\ \A i \in 2 .. n + 1 : Origin(q, i) \in Nodes(h)
         /\ Origin(q, Root) = Root
<1>1. /\ n \in Nat /\ n < MaxNodes /\ MaxNodes \in Nat
      /\ \A i \in 1 .. n : q[i] \in Nodes(h)
      /\ \A i, j \in 1 .. n : q[i] = q[j] => i = j
      /\ \A x \in Nodes(h) : \E i \in 1 .. n : q[i] = x
  BY AddressFacts DEF InOrder
<1>2. n + 1 <= MaxNodes
  BY <1>1
<1>3. ASSUME NEW x \in Nodes(h)
      PROVE  Place(q, x) \in 2 .. n + 1 /\ Origin(q, Place(q, x)) = x
  <2> DEFINE i == CHOOSE j \in 1 .. n : q[j] = x
  <2>1. i \in 1 .. n /\ q[i] = x
    BY <1>1
  <2>2. Place(q, x) = i + 1
    BY PointsTo DEF Place
  <2> HIDE DEF i
  <2>3. i + 1 \in 2 .. n + 1 /\ (i + 1) - 1 = i /\ i + 1 # Root
    BY <1>1, <2>1 DEF Root
  <2> QED  BY <2>1, <2>2, <2>3 DEF Origin
<1>4. ASSUME NEW i \in 1 .. n PROVE Place(q, q[i]) = i + 1
  <2> DEFINE j == CHOOSE j \in 1 .. n : q[j] = q[i]
  <2>1. j = i
    BY <1>1
  <2>2. q[i] # Root
    BY <1>1, PointsTo
  <2> QED  BY <2>1, <2>2 DEF Place
<1>5. Place(q, Root) = Root /\ Origin(q, Root) = Root
  BY DEF Place, Origin
<1>6. ASSUME NEW i \in 2 .. n + 1 PROVE Origin(q, i) \in Nodes(h) /\ Place(q, Origin(q, i)) = i
  <2>1. i - 1 \in 1 .. n /\ (i - 1) + 1 = i /\ i # Root
    BY <1>1 DEF Root
  <2> QED  BY <1>1, <1>4, <2>1 DEF Origin
<1>7. ASSUME NEW x \in UsedIn(h) PROVE Place(q, x) \in 1 .. n + 1 /\ Origin(q, Place(q, x)) = x
  <2>1. CASE x = Root
    BY <1>1, <1>5, <2>1 DEF Root
  <2>2. CASE x # Root
    <3>1. Place(q, x) \in 2 .. n + 1 /\ Origin(q, Place(q, x)) = x
      BY <1>3, <2>2, PointsTo
    <3> QED  BY <1>1, <3>1
  <2> QED  BY <2>1, <2>2
<1>8. ASSUME NEW i \in 1 .. n + 1 PROVE Origin(q, i) \in UsedIn(h) /\ Place(q, Origin(q, i)) = i
  <2>1. CASE i = Root
    BY <1>5, <2>1, PointsTo
  <2>2. CASE i # Root
    <3>1. i \in 2 .. n + 1
      BY <1>1, <2>2 DEF Root
    <3> QED  BY <1>6, <3>1, PointsTo
  <2> QED  BY <2>1, <2>2
<1> QED  BY <1>1, <1>2, <1>3, <1>4, <1>5, <1>6, <1>7, <1>8 DEF Root, NULL

\* Where a pointer to y leads when k nodes have been made.
Moved(q, k, y) == IF y # NULL /\ Place(q, y) <= k + 1 THEN Place(q, y) ELSE NULL

Copy(h, q, k) ==
  [i \in {NULL} \cup Addresses |->
     IF i \in 1 .. k + 1
     THEN [type |-> h[Origin(q, i)].type, name |-> h[Origin(q, i)].name,
           parent |-> Place(q, h[Origin(q, i)].parent),
           child |-> Moved(q, k, h[Origin(q, i)].child),
           sibling |-> Moved(q, k, h[Origin(q, i)].sibling)]
     ELSE Free]

\* g is this tree: its nodes and their fields.
IsCopy(g, h, q, k) ==
  /\ DOMAIN g = {NULL} \cup Addresses /\ 1 .. k + 1 \subseteq Addresses
  /\ UsedIn(g) = 1 .. k + 1
  /\ \A i \in 1 .. k + 1 :
       g[i] = [type |-> h[Origin(q, i)].type, name |-> h[Origin(q, i)].name,
               parent |-> Place(q, h[Origin(q, i)].parent),
               child |-> Moved(q, k, h[Origin(q, i)].child),
               sibling |-> Moved(q, k, h[Origin(q, i)].sibling)]
  /\ \A i \in 1 .. k + 1 :
       /\ g[i].type = h[Origin(q, i)].type /\ g[i].name = h[Origin(q, i)].name
       /\ g[i].parent = Place(q, h[Origin(q, i)].parent)
       /\ g[i].child = Moved(q, k, h[Origin(q, i)].child)
       /\ g[i].sibling = Moved(q, k, h[Origin(q, i)].sibling)
  /\ \A i \in ({NULL} \cup Addresses) \ (1 .. k + 1) : g[i] = Free

\* The copy has these fields.
LEMMA CopyFields ==
  ASSUME NEW h, TreeOf(h), NEW q, InOrder(h, q), NEW k \in 0 .. Len(q)
  PROVE  IsCopy(Copy(h, q, k), h, q, k)
<1> DEFINE g == Copy(h, q, k)
           n == Len(q)
<1>1. /\ n \in Nat /\ n + 1 <= MaxNodes /\ MaxNodes \in Nat
      /\ \A i \in 1 .. n + 1 : Origin(q, i) \in UsedIn(h)
  BY PlaceFacts
<1>2. k \in 0 .. n
  OBVIOUS
<1> HIDE DEF n
<1>3. 1 .. k + 1 \subseteq Addresses /\ 1 .. k + 1 \subseteq 1 .. n + 1
  BY <1>1, <1>2 DEF Addresses
<1>4. DOMAIN g = {NULL} \cup Addresses
  BY DEF Copy
<1>5. \A i \in 1 .. k + 1 :
        g[i] = [type |-> h[Origin(q, i)].type, name |-> h[Origin(q, i)].name,
                parent |-> Place(q, h[Origin(q, i)].parent),
                child |-> Moved(q, k, h[Origin(q, i)].child),
                sibling |-> Moved(q, k, h[Origin(q, i)].sibling)]
  BY <1>3 DEF Copy
<1>6. \A i \in ({NULL} \cup Addresses) \ (1 .. k + 1) : g[i] = Free
  BY DEF Copy
<1>7. \A i \in 1 .. k + 1 :
        /\ g[i].type = h[Origin(q, i)].type /\ g[i].name = h[Origin(q, i)].name
        /\ g[i].parent = Place(q, h[Origin(q, i)].parent)
        /\ g[i].child = Moved(q, k, h[Origin(q, i)].child)
        /\ g[i].sibling = Moved(q, k, h[Origin(q, i)].sibling)
  <2> TAKE i \in 1 .. k + 1
  <2> DEFINE x == h[Origin(q, i)]
             pa == Place(q, x.parent)
             ch == Moved(q, k, x.child)
             si == Moved(q, k, x.sibling)
  <2>1. g[i] = [type |-> x.type, name |-> x.name, parent |-> pa, child |-> ch, sibling |-> si]
    BY <1>5
  <2>2. /\ g[i].type = x.type /\ g[i].name = x.name /\ g[i].parent = pa
        /\ g[i].child = ch /\ g[i].sibling = si
    <3> HIDE DEF x, pa, ch, si
    <3> QED  BY <2>1
  <2> QED  BY <2>2
<1>8. UsedIn(g) = 1 .. k + 1
  <2>1. \A i \in 1 .. k + 1 : g[i].type # "free"
    BY <1>1, <1>3, <1>7 DEF UsedIn, Unused
  <2>2. \A i \in Addresses \ (1 .. k + 1) : g[i].type = "free"
    <3>1. Free.type = "free"
      BY DEF Free
    <3> QED  BY <1>6, <3>1
  <2> QED  BY <1>3, <2>1, <2>2 DEF UsedIn, Unused
<1> QED  BY <1>3, <1>4, <1>5, <1>6, <1>7, <1>8 DEF IsCopy

\* It begins with the empty tree.
LEMMA CopyStart ==
  ASSUME NEW h, TreeOf(h), NEW q, InOrder(h, q)
  PROVE  Copy(h, q, 0) = EmptyTree /\ TreeOf(EmptyTree)
<1> DEFINE n == Len(q)
           g == Copy(h, q, 0)
<1>1. /\ n \in Nat /\ Root = 1 /\ NULL = 0 /\ Place(q, Root) = Root /\ Origin(q, Root) = Root
      /\ \A x \in Nodes(h) : Place(q, x) \in 2 .. n + 1
  BY PlaceFacts
<1>2. 0 \in 0 .. n
  BY <1>1
<1>3. /\ \A i \in 1 .. 0 + 1 :
           g[i] = [type |-> h[Origin(q, i)].type, name |-> h[Origin(q, i)].name,
                   parent |-> Place(q, h[Origin(q, i)].parent),
                   child |-> Moved(q, 0, h[Origin(q, i)].child),
                   sibling |-> Moved(q, 0, h[Origin(q, i)].sibling)]
      /\ \A i \in ({NULL} \cup Addresses) \ (1 .. 0 + 1) : g[i] = Free
  <2>1. IsCopy(g, h, q, 0)
    BY <1>2, CopyFields
  <2> HIDE DEF g
  <2> QED  BY <2>1 DEF IsCopy
<1>4. h[Root].type = "D" /\ h[Root].name = "/" /\ h[Root].parent = Root /\ h[Root].sibling = Root
  BY DEF TreeOf, RootKept
<1>5. Moved(q, 0, h[Root].child) = NULL
  <2>1. h[Root].child = NULL \/ Place(q, h[Root].child) \in 2 .. n + 1
    BY <1>1, PointsTo
  <2> QED  BY <1>1, <2>1 DEF Moved
<1>6. Moved(q, 0, Root) = Root
  BY <1>1 DEF Moved
<1>7. Root \in 1 .. 0 + 1 /\ \A i \in {NULL} \cup Addresses : i # Root => i \notin 1 .. 0 + 1
  BY <1>1
<1>8. g[Root] = EmptyTree[Root]
  <2>1. EmptyTree[Root] =
          [type |-> "D", name |-> "/", parent |-> Root, child |-> NULL, sibling |-> Root]
    BY AddressFacts DEF EmptyTree
  <2>2. g[Root] = [type |-> h[Origin(q, Root)].type, name |-> h[Origin(q, Root)].name,
                   parent |-> Place(q, h[Origin(q, Root)].parent),
                   child |-> Moved(q, 0, h[Origin(q, Root)].child),
                   sibling |-> Moved(q, 0, h[Origin(q, Root)].sibling)]
    BY <1>3, <1>7
  <2> QED  BY <1>1, <1>4, <1>5, <1>6, <2>1, <2>2
<1>9. \A i \in {NULL} \cup Addresses : i # Root => g[i] = EmptyTree[i]
  BY <1>3, <1>7 DEF EmptyTree
<1>10. g = EmptyTree
  <2>1. DOMAIN g = {NULL} \cup Addresses /\ g = [i \in DOMAIN g |-> g[i]]
    BY DEF Copy
  <2>2. EmptyTree = [i \in {NULL} \cup Addresses |-> EmptyTree[i]]
    BY DEF EmptyTree
  <2> HIDE DEF g
  <2> QED  BY <1>8, <1>9, <2>1, <2>2
<1> QED  BY <1>10, EmptyIsTree

\* A directory's list has one end.
LEMMA SlotOnce ==
  ASSUME NEW g, TreeOf(g), NEW d \in UsedIn(g),
         NEW p, NEW f, Slot(g, d, p, f), NEW r, NEW e, Slot(g, d, r, e)
  PROVE  p = r /\ f = e
<1>1. PICK m : KidsAre(g, d, Children(g, d), m)
  BY ChildrenAre
<1> DEFINE kids == Children(g, d)
<1>2. /\ m \in Nat
      /\ g[d].child = IF m = 0 THEN NULL ELSE kids[1]
      /\ \A i \in 1 .. m : kids[i] \in In(g, d)
      /\ \A i \in 1 .. m : g[kids[i]].sibling = IF i = m THEN NULL ELSE kids[i + 1]
      /\ \A y \in In(g, d) : \E i \in 1 .. m : kids[i] = y
  BY <1>1 DEF KidsAre
<1> HIDE DEF kids
<1>3. \A y \in In(g, d) : y # NULL
  BY PointsTo DEF In, UsedIn, Nodes
<1>4. ASSUME NEW y \in In(g, d), g[y].sibling = NULL PROVE m # 0 /\ y = kids[m]
  <2>1. PICK i \in 1 .. m : kids[i] = y
    BY <1>2
  <2>2. CASE i = m
    BY <1>2, <2>1, <2>2
  <2>3. CASE i # m
    <3>1. i + 1 \in 1 .. m
      BY <1>2, <2>3
    <3>2. kids[i + 1] # NULL
      BY <1>2, <1>3, <3>1
    <3> QED  BY <1>2, <1>4, <2>1, <2>3, <3>2
  <2> QED  BY <2>2, <2>3
<1>5. g[d].child = NULL => m = 0
  <2>1. m # 0 => 1 \in 1 .. m
    BY <1>2
  <2> QED  BY <1>2, <1>3, <2>1
<1>6. f \in {"child", "sibling"} /\ e \in {"child", "sibling"}
  BY DEF Slot
<1>7. f = "child" => p = d /\ m = 0
  BY <1>5 DEF Slot
<1>8. e = "child" => r = d /\ m = 0
  BY <1>5 DEF Slot
<1>9. f = "sibling" => m # 0 /\ p = kids[m]
  BY <1>4 DEF Slot
<1>10. e = "sibling" => m # 0 /\ r = kids[m]
  BY <1>4 DEF Slot
<1> QED  BY <1>6, <1>7, <1>8, <1>9, <1>10

\* What the order says of the next node, x: it comes behind the node w whose
\* pointer leads to it, and before all that its own pointers lead to.
LEMMA NextInOrder ==
  ASSUME NEW h, TreeOf(h), NEW q, InOrder(h, q), NEW k \in Nat, k + 1 <= Len(q),
         NEW x, x = q[k + 1]
  PROVE  /\ x \in Nodes(h) /\ Place(q, x) = k + 2
         /\ \E w \in UsedIn(h) : Points(h, w, x) /\ Place(q, w) <= k + 1
         /\ \A y \in Nodes(h) : Points(h, x, y) => Place(q, y) > k + 2
<1> DEFINE n == Len(q)
<1>1. /\ n \in Nat /\ Place(q, Root) = 1 /\ Root \in UsedIn(h)
      /\ \A i \in 1 .. n : q[i] \in Nodes(h) /\ Place(q, q[i]) = i + 1
      /\ \A y \in Nodes(h) : y \in UsedIn(h)
  BY PlaceFacts, PointsTo DEF Root
<1>2. /\ \A i, j \in 1 .. n : q[i] = q[j] => i = j
      /\ \A y \in Nodes(h) : \E i \in 1 .. n : q[i] = y
      /\ \A i \in 1 .. n : \/ Points(h, Root, q[i])
                           \/ \E j \in 1 .. n : j < i /\ Points(h, q[j], q[i])
  BY DEF InOrder
<1>3. k + 1 <= n
  OBVIOUS
<1> HIDE DEF n
<1>4. k + 1 \in 1 .. n
  BY <1>1, <1>3
<1>5. x \in Nodes(h) /\ Place(q, x) = k + 2
  BY <1>1, <1>4
<1>6. \E w \in UsedIn(h) : Points(h, w, x) /\ Place(q, w) <= k + 1
  <2>1. CASE Points(h, Root, x)
    BY <1>1, <2>1
  <2>2. CASE \E j \in 1 .. n : j < k + 1 /\ Points(h, q[j], x)
    <3>1. PICK j \in 1 .. n : j < k + 1 /\ Points(h, q[j], x)
      BY <2>2
    <3>2. q[j] \in UsedIn(h) /\ Place(q, q[j]) = j + 1 /\ j + 1 <= k + 1
      BY <1>1, <3>1
    <3> QED  BY <3>1, <3>2
  <2> QED  BY <1>2, <1>4, <2>1, <2>2
<1>7. ASSUME NEW y \in Nodes(h), Points(h, x, y) PROVE Place(q, y) > k + 2
  <2>1. PICK i \in 1 .. n : q[i] = y
    BY <1>2
  <2>2. Points(h, Root, y) \/ \E j \in 1 .. n : j < i /\ Points(h, q[j], y)
    BY <1>2, <2>1
  <2>3. x # Root
    BY <1>5, PointsTo
  <2>4. ~Points(h, Root, y)
    BY <1>7, <2>3, PointsOnce
  <2>5. PICK j \in 1 .. n : j < i /\ Points(h, q[j], y)
    BY <2>2, <2>4
  <2>6. q[j] = q[k + 1]
    BY <1>7, <2>5, PointsOnce
  <2>7. j = k + 1
    BY <1>2, <1>4, <2>6
  <2> QED  BY <1>1, <2>1, <2>5, <2>7
<1> QED  BY <1>5, <1>6, <1>7

\* The directory of the next node has been made, and the node goes to the end
\* of its list.
LEMMA NextSlot ==
  ASSUME NEW h, TreeOf(h), NEW q, InOrder(h, q), NEW k \in Nat, k + 1 <= Len(q),
         NEW x, x = q[k + 1], NEW g, g = Copy(h, q, k), TreeOf(g),
         NEW w \in UsedIn(h), Points(h, w, x), Place(q, w) <= k + 1
  PROVE  /\ Place(q, h[x].parent) \in Dirs(g)
         /\ Slot(g, Place(q, h[x].parent), Place(q, w),
                 IF h[w].child = x THEN "child" ELSE "sibling")
<1> DEFINE n == Len(q)
           p == h[x].parent
<1>1. /\ n \in Nat /\ Root = 1 /\ NULL = 0 /\ Place(q, Root) = Root
      /\ \A y \in UsedIn(h) : Place(q, y) \in 1 .. n + 1 /\ Origin(q, Place(q, y)) = y
  BY PlaceFacts
<1>2. k \in 0 .. n
  BY <1>1
<1>3. x \in Nodes(h) /\ Place(q, x) = k + 2
  BY NextInOrder
<1> DEFINE v == Place(q, w)
<1>4. v \in 1 .. k + 1 /\ Origin(q, v) = w
  BY <1>1, <1>2
<1> HIDE DEF v
<1>5. /\ UsedIn(g) = 1 .. k + 1
      /\ g[v].type = h[w].type /\ g[v].parent = Place(q, h[w].parent)
      /\ g[v].child = Moved(q, k, h[w].child) /\ g[v].sibling = Moved(q, k, h[w].sibling)
  <2>1. IsCopy(g, h, q, k)
    BY <1>2, CopyFields
  <2> QED  BY <1>4, <2>1 DEF IsCopy
<1>6. Moved(q, k, x) = NULL
  BY <1>3 DEF Moved
<1> HIDE DEF n
<1>7. CASE h[w].child = x
  <2>1. p = w /\ x # NULL
    BY <1>3, <1>7, PointsTo DEF TreeOf, ChildKept
  <2>2. h[w].type = "D"
    BY <1>7, <2>1, FileFacts
  <2>3. v \in Dirs(g)
    BY <1>4, <1>5, <2>2 DEF Dirs
  <2>4. g[v].child = NULL
    BY <1>5, <1>6, <1>7
  <2> QED  BY <1>7, <2>1, <2>3, <2>4 DEF Slot, v
<1>8. CASE h[w].child # x
  <2>1. w # Root /\ h[w].sibling = x
    BY <1>8 DEF Points
  <2>2. x # NULL /\ w \in Nodes(h)
    BY <1>3, <2>1, PointsTo
  <2>3. p = h[w].parent
    BY <2>1, <2>2 DEF TreeOf, SiblingKept, Nodes
  <2>4. g[v].parent = Place(q, p) /\ v \in UsedIn(g)
    BY <1>4, <1>5, <2>3
  <2>5. Place(q, p) \in Dirs(g)
    BY <2>4 DEF TreeOf, ParentKept, Dirs
  <2>6. v # Root
    BY <1>1, <1>4, <2>1 DEF Origin
  <2>7. v \in In(g, Place(q, p)) /\ g[v].sibling = NULL
    BY <1>5, <1>6, <2>1, <2>4, <2>6 DEF In
  <2> QED  BY <1>8, <2>5, <2>7 DEF Slot, v
<1> QED  BY <1>7, <1>8

\* The address of the next node is the first that is not used.
LEMMA CopyFresh ==
  ASSUME NEW h, TreeOf(h), NEW q, InOrder(h, q), NEW k \in Nat, k + 1 <= Len(q),
         NEW g, g = Copy(h, q, k)
  PROVE  Fresh(g) = k + 2 /\ Unused(g) # {} /\ k + 2 \in Unused(g) /\ k + 2 \in Addresses
<1> DEFINE n == Len(q)
<1>1. n \in Nat /\ n + 1 <= MaxNodes /\ MaxNodes \in Nat
  BY PlaceFacts
<1>2. k \in 0 .. n
  BY <1>1
<1>3. UsedIn(g) = 1 .. k + 1
  BY <1>2, CopyFields DEF IsCopy
<1> HIDE DEF n
<1>4. Unused(g) = Addresses \ (1 .. k + 1)
  BY <1>3 DEF UsedIn, Unused
<1>5. k + 2 \in Addresses
  <2>1. k + 2 <= MaxNodes
    BY <1>1 DEF n
  <2> QED  BY <2>1, <1>1 DEF Addresses
<1>6. k + 2 \in Unused(g) /\ \A i \in Unused(g) : i \in Nat /\ k + 2 <= i
  BY <1>4, <1>5 DEF Addresses
<1>7. Fresh(g) \in Unused(g) /\ \A i \in Unused(g) : Fresh(g) <= i
  <2>1. \E m \in Unused(g) : \A i \in Unused(g) : m <= i
    BY <1>6
  <2> QED  BY <2>1 DEF Fresh, Min
<1> QED  BY <1>5, <1>6, <1>7

\* The next node comes to the end of its directory's list.
LEMMA CopyInserts ==
  ASSUME NEW h, TreeOf(h), NEW q, InOrder(h, q), NEW k \in Nat, k + 1 <= Len(q),
         NEW x, x = q[k + 1], NEW g, g = Copy(h, q, k), TreeOf(g),
         NEW w \in UsedIn(h), Points(h, w, x), Place(q, w) <= k + 1
  PROVE  Inserted(g, k + 2, NewNode(h[x].type, h[x].name, Place(q, h[x].parent)), Place(q, w),
                  IF h[w].child = x THEN "child" ELSE "sibling")
           = Copy(h, q, k + 1)
<1> DEFINE n == Len(q)
           d == Place(q, h[x].parent)
           node == NewNode(h[x].type, h[x].name, d)
           v == Place(q, w)
           f == IF h[w].child = x THEN "child" ELSE "sibling"
           g1 == Inserted(g, k + 2, node, v, f)
           g2 == Copy(h, q, k + 1)
<1>1. /\ n \in Nat /\ Root = 1 /\ NULL = 0 /\ Place(q, Root) = Root /\ Origin(q, Root) = Root
      /\ \A y \in UsedIn(h) : Place(q, y) \in 1 .. n + 1 /\ Origin(q, Place(q, y)) = y
      /\ \A i \in 1 .. n + 1 : Origin(q, i) \in UsedIn(h) /\ Place(q, Origin(q, i)) = i
  BY PlaceFacts
<1>2. k \in 0 .. n /\ k + 1 \in 0 .. n /\ k + 1 <= n
  BY <1>1
<1>3. x \in Nodes(h) /\ Place(q, x) = k + 2 /\ \A y \in Nodes(h) : Points(h, x, y) => Place(q, y) > k + 2
  BY NextInOrder
<1>4. k + 2 \in Addresses
  BY CopyFresh
<1>5. /\ DOMAIN g = {NULL} \cup Addresses /\ 1 .. k + 1 \subseteq Addresses
      /\ \A i \in 1 .. k + 1 :
           g[i] = [type |-> h[Origin(q, i)].type, name |-> h[Origin(q, i)].name,
                   parent |-> Place(q, h[Origin(q, i)].parent),
                   child |-> Moved(q, k, h[Origin(q, i)].child),
                   sibling |-> Moved(q, k, h[Origin(q, i)].sibling)]
      /\ \A i \in ({NULL} \cup Addresses) \ (1 .. k + 1) : g[i] = Free
  <2>1. IsCopy(g, h, q, k)
    BY <1>2, CopyFields
  <2> QED  BY <2>1 DEF IsCopy
<1>6. /\ DOMAIN g2 = {NULL} \cup Addresses
      /\ \A i \in 1 .. (k + 1) + 1 :
           g2[i] = [type |-> h[Origin(q, i)].type, name |-> h[Origin(q, i)].name,
                    parent |-> Place(q, h[Origin(q, i)].parent),
                    child |-> Moved(q, k + 1, h[Origin(q, i)].child),
                    sibling |-> Moved(q, k + 1, h[Origin(q, i)].sibling)]
      /\ \A i \in ({NULL} \cup Addresses) \ (1 .. (k + 1) + 1) : g2[i] = Free
  <2>1. IsCopy(g2, h, q, k + 1)
    BY <1>2, CopyFields
  <2> HIDE DEF g2
  <2> QED  BY <2>1 DEF IsCopy
<1>7. Origin(q, k + 2) = x
  BY <1>1, <1>3, PointsTo
<1>8. v \in 1 .. k + 1 /\ Origin(q, v) = w
  BY <1>1, <1>2
<1> HIDE DEF n, node, v, f
\* A pointer to x comes to lead to it, a pointer to another node is as it was.
<1>9. Moved(q, k, x) = NULL /\ Moved(q, k + 1, x) = k + 2
  BY <1>1, <1>3, PointsTo DEF Moved
<1>10. ASSUME NEW y \in UsedIn(h) \cup {NULL}, y # x PROVE Moved(q, k, y) = Moved(q, k + 1, y)
  <2>1. CASE y = NULL
    BY <2>1 DEF Moved
  <2>2. CASE y # NULL
    <3>1. Place(q, y) \in Nat /\ Place(q, y) # k + 2
      BY <1>1, <1>3, <1>10, <2>2, PointsTo
    <3>2. Place(q, y) <= k + 1 <=> Place(q, y) <= (k + 1) + 1
      BY <3>1
    <3> QED  BY <3>2 DEF Moved
  <2> QED  BY <2>1, <2>2
<1>11. ASSUME NEW z \in UsedIn(h)
       PROVE  /\ h[z].child \in UsedIn(h) \cup {NULL} /\ h[z].sibling \in UsedIn(h) \cup {NULL}
              /\ h[z].child = x => z = w /\ h[z].sibling # x
              /\ h[z].sibling = x => z = w /\ h[z].child # x
  <2>1. CASE z = Root
    <3>1. h[z].child \in Nodes(h) \cup {NULL} /\ h[z].sibling = Root
      BY <2>1, PointsTo DEF TreeOf, RootKept
    <3>2. x # Root
      BY <1>3, PointsTo
    <3>3. h[z].child = x => Points(h, z, x)
      BY DEF Points
    <3> QED  BY <1>3, <3>1, <3>2, <3>3, PointsTo, PointsOnce
  <2>2. CASE z # Root
    <3>1. z \in Nodes(h) /\ h[z].child \in Nodes(h) \cup {NULL} /\ h[z].sibling \in Nodes(h) \cup {NULL}
      BY <2>2, PointsTo
    <3>2. h[z].child = x \/ h[z].sibling = x => Points(h, z, x)
      BY <2>2 DEF Points
    <3> QED  BY <1>3, <3>1, <3>2, PointsTo, PointsOnce
  <2> QED  BY <2>1, <2>2
<1>12. /\ DOMAIN g1 = {NULL} \cup Addresses /\ g1 = [i \in {NULL} \cup Addresses |-> g1[i]]
       /\ \A i \in {NULL} \cup Addresses :
            g1[i] = IF i = k + 2 THEN node
                    ELSE IF i # v THEN g[i]
                    ELSE IF f = "child" THEN [g[i] EXCEPT !.child = k + 2]
                                        ELSE [g[i] EXCEPT !.sibling = k + 2]
  BY <1>5 DEF Inserted
<1>13. g2 = [i \in {NULL} \cup Addresses |-> g2[i]]
  BY DEF Copy
<1> HIDE DEF g1, g2
<1>14. node = [type |-> h[x].type, name |-> h[x].name, parent |-> d, child |-> NULL, sibling |-> NULL]
  BY DEF node, NewNode
<1> HIDE DEF d
<1>15. g1[k + 2] = g2[k + 2]
  <2>1. g1[k + 2] = node
    BY <1>4, <1>12
  <2>2. \A y \in Nodes(h) \cup {NULL} : y = h[x].child \/ y = h[x].sibling => Moved(q, k + 1, y) = NULL
    <3> SUFFICES ASSUME NEW y \in Nodes(h), y = h[x].child \/ y = h[x].sibling
                 PROVE  Moved(q, k + 1, y) = NULL
      BY DEF Moved
    <3>1. Points(h, x, y)
      BY <1>3, PointsTo DEF Points
    <3>2. Place(q, y) > k + 2 /\ Place(q, y) \in Nat
      BY <1>1, <1>3, <3>1, PointsTo
    <3> QED  BY <3>2 DEF Moved
  <2>3. Moved(q, k + 1, h[x].child) = NULL /\ Moved(q, k + 1, h[x].sibling) = NULL
    BY <1>3, <2>2, PointsTo
  <2>4. k + 2 \in 1 .. (k + 1) + 1
    OBVIOUS
  <2>5. g2[k + 2] = [type |-> h[x].type, name |-> h[x].name, parent |-> d,
                     child |-> NULL, sibling |-> NULL]
    BY <1>6, <1>7, <2>3, <2>4 DEF d
  <2> QED  BY <1>14, <2>1, <2>5
<1>16. ASSUME NEW i \in 1 .. k + 1, i # v PROVE g1[i] = g2[i]
  <2> DEFINE z == Origin(q, i)
  <2>1. z \in UsedIn(h) /\ z # w
    BY <1>1, <1>2, <1>8, <1>16
  <2>2. Moved(q, k, h[z].child) = Moved(q, k + 1, h[z].child)
    BY <1>10, <1>11, <2>1
  <2>3. Moved(q, k, h[z].sibling) = Moved(q, k + 1, h[z].sibling)
    BY <1>10, <1>11, <2>1
  <2>4. i \in {NULL} \cup Addresses /\ i # k + 2 /\ i \in 1 .. (k + 1) + 1
    BY <1>5
  <2>5. g1[i] = g[i]
    BY <1>12, <1>16, <2>4
  <2> QED  BY <1>5, <1>6, <2>2, <2>3, <2>4, <2>5
<1>17. g1[v] = g2[v]
  <2> DEFINE pa == Place(q, h[w].parent)
             c1 == Moved(q, k, h[w].child)
             s1 == Moved(q, k, h[w].sibling)
             c2 == Moved(q, k + 1, h[w].child)
             s2 == Moved(q, k + 1, h[w].sibling)
             ty == h[w].type
             na == h[w].name
  <2>1. v \in {NULL} \cup Addresses /\ v # k + 2 /\ v \in 1 .. (k + 1) + 1
    BY <1>5, <1>8
  <2>2. g[v] = [type |-> ty, name |-> na, parent |-> pa, child |-> c1, sibling |-> s1]
    BY <1>5, <1>8
  <2>3. g2[v] = [type |-> ty, name |-> na, parent |-> pa, child |-> c2, sibling |-> s2]
    BY <1>6, <1>8, <2>1
  <2>4. g1[v] = IF f = "child" THEN [g[v] EXCEPT !.child = k + 2] ELSE [g[v] EXCEPT !.sibling = k + 2]
    BY <1>12, <2>1
  <2>5. CASE h[w].child = x
    <3>1. f = "child" /\ c2 = k + 2
      BY <1>9, <2>5 DEF f
    <3>2. s1 = s2
      BY <1>10, <1>11, <2>5
    <3> HIDE DEF pa, c1, s1, c2, s2, ty, na
    <3> QED  BY <2>2, <2>3, <2>4, <3>1, <3>2
  <2>6. CASE h[w].child # x
    <3>0. h[w].sibling = x
      BY <2>6 DEF Points
    <3>1. f = "sibling" /\ s2 = k + 2
      BY <1>9, <2>6, <3>0 DEF f
    <3>2. c1 = c2
      BY <1>10, <1>11, <2>6
    <3>3. f # "child"
      BY <3>1
    <3> HIDE DEF pa, c1, s1, c2, s2, ty, na
    <3> QED  BY <2>2, <2>3, <2>4, <3>1, <3>2, <3>3
  <2> QED  BY <2>5, <2>6
<1>18. ASSUME NEW i \in {NULL} \cup Addresses, i \notin 1 .. (k + 1) + 1 PROVE g1[i] = g2[i]
  <2>1. i \notin 1 .. k + 1 /\ i # k + 2 /\ i # v
    BY <1>8, <1>18
  <2>2. g1[i] = g[i] /\ g[i] = Free
    BY <1>5, <1>12, <1>18, <2>1
  <2>3. g2[i] = Free
    BY <1>6, <1>18
  <2> QED  BY <2>2, <2>3
<1>19. \A i \in {NULL} \cup Addresses : g1[i] = g2[i]
  <2>1. \A i \in 1 .. (k + 1) + 1 : i \in 1 .. k + 1 \/ i = k + 2
    OBVIOUS
  <2> QED  BY <1>15, <1>16, <1>17, <1>18, <2>1
<1> QED  BY <1>12, <1>13, <1>19 DEF g1, g2, node, v, f, d

-----------------------------------------------------------------------------
(* Sequences cut short.                                                    *)

\* The first m elements, and all but the last one.
Cut(s, m) == SubSeq(s, 1, m)
Up(s) == IF s = <<>> THEN <<>> ELSE Cut(s, Len(s) - 1)

LEMMA CutIs ==
  ASSUME NEW S, NEW s \in Seq(S), NEW m \in 0 .. Len(s)
  PROVE  /\ Cut(s, m) \in Seq(S) /\ Len(Cut(s, m)) = m
         /\ \A i \in 1 .. m : Cut(s, m)[i] = s[i]
<1>1. Len(s) \in Nat /\ \A i \in 1 .. m : s[i] \in S
  OBVIOUS
<1>2. /\ SubSeq(s, 1, m) \in Seq(S)
      /\ Len(SubSeq(s, 1, m)) = IF 1 <= m THEN m - 1 + 1 ELSE 0
      /\ \A i \in 1 .. m - 1 + 1 : SubSeq(s, 1, m)[i] = s[1 + i - 1]
  BY <1>1, SubSeqProperties
<1> QED  BY <1>1, <1>2 DEF Cut

\* What is cut twice.
LEMMA CutTwice ==
  ASSUME NEW S, NEW s \in Seq(S), NEW n \in 0 .. Len(s), NEW m \in 0 .. n
  PROVE  Cut(Cut(s, n), m) = Cut(s, m)
<1> DEFINE a == Cut(Cut(s, n), m)
           b == Cut(s, m)
           c == Cut(s, n)
<1>1. Len(s) \in Nat /\ m \in 0 .. Len(s)
  OBVIOUS
<1>2. c \in Seq(S) /\ Len(c) = n /\ \A i \in 1 .. n : c[i] = s[i]
  BY CutIs
<1>3. b \in Seq(S) /\ Len(b) = m /\ \A i \in 1 .. m : b[i] = s[i]
  BY <1>1, CutIs
<1> HIDE DEF b, c
<1>4. m \in 0 .. Len(c)
  BY <1>2
<1>5. a \in Seq(S) /\ Len(a) = m /\ \A i \in 1 .. m : a[i] = c[i]
  BY <1>2, <1>4, CutIs DEF c
<1> HIDE DEF a
<1>6. \A i \in 1 .. m : a[i] = b[i]
  BY <1>1, <1>2, <1>3, <1>5
<1>7. a = b
  BY <1>3, <1>5, <1>6, SeqEqual
<1> QED  BY <1>7 DEF a, b

\* A sequence cut where it ends, and the one with an element more.
LEMMA CutAppend ==
  ASSUME NEW S, NEW s \in Seq(S), NEW e \in S
  PROVE  /\ Cut(s, Len(s)) = s
         /\ \A m \in 0 .. Len(s) : Cut(Append(s, e), m) = Cut(s, m)
<1> DEFINE t == Append(s, e)
<1>1. Len(s) \in Nat
  OBVIOUS
<1>2. t \in Seq(S) /\ Len(t) = Len(s) + 1 /\ \A i \in 1 .. Len(s) : t[i] = s[i]
  BY AppendProperties
<1>3. Cut(s, Len(s)) = s
  <2> DEFINE c == Cut(s, Len(s))
  <2>1. Len(s) \in 0 .. Len(s)
    BY <1>1
  <2>2. c \in Seq(S) /\ Len(c) = Len(s) /\ \A i \in 1 .. Len(s) : c[i] = s[i]
    BY <2>1, CutIs
  <2> HIDE DEF c
  <2>3. c = s
    BY <2>2, SeqEqual
  <2> QED  BY <2>3 DEF c
<1> HIDE DEF t
<1>4. ASSUME NEW m \in 0 .. Len(s) PROVE Cut(t, m) = Cut(s, m)
  <2> DEFINE a == Cut(t, m)
             b == Cut(s, m)
  <2>1. m \in 0 .. Len(t)
    BY <1>1, <1>2
  <2>2. a \in Seq(S) /\ Len(a) = m /\ \A i \in 1 .. m : a[i] = t[i]
    BY <1>2, <2>1, CutIs
  <2>3. b \in Seq(S) /\ Len(b) = m /\ \A i \in 1 .. m : b[i] = s[i]
    BY CutIs
  <2> HIDE DEF a, b
  <2>4. \A i \in 1 .. m : a[i] = b[i]
    BY <1>1, <1>2, <2>2, <2>3
  <2>5. a = b
    BY <2>2, <2>3, <2>4, SeqEqual
  <2> QED  BY <2>5 DEF a, b
<1> QED  BY <1>3, <1>4 DEF t

\* An element more.
LEMMA CutGrows ==
  ASSUME NEW S, NEW s \in Seq(S), NEW k \in Nat, k + 1 <= Len(s)
  PROVE  Append(Cut(s, k), s[k + 1]) = Cut(s, k + 1)
<1> DEFINE a == Cut(s, k)
           b == Cut(s, k + 1)
           c == Append(a, s[k + 1])
<1>1. k \in 0 .. Len(s) /\ k + 1 \in 0 .. Len(s) /\ s[k + 1] \in S
  OBVIOUS
<1>2. a \in Seq(S) /\ Len(a) = k /\ \A i \in 1 .. k : a[i] = s[i]
  BY <1>1, CutIs
<1>3. b \in Seq(S) /\ Len(b) = k + 1 /\ \A i \in 1 .. k + 1 : b[i] = s[i]
  BY <1>1, CutIs
<1> HIDE DEF a, b
<1>4. c \in Seq(S) /\ Len(c) = k + 1 /\ c[k + 1] = s[k + 1] /\ \A i \in 1 .. k : c[i] = a[i]
  BY <1>1, <1>2, AppendProperties
<1> HIDE DEF c
<1>5. ASSUME NEW i \in 1 .. k + 1 PROVE c[i] = b[i]
  <2>1. i = k + 1 \/ i \in 1 .. k
    OBVIOUS
  <2> QED  BY <1>2, <1>3, <1>4, <2>1
<1>6. c = b
  BY <1>3, <1>4, <1>5, SeqEqual
<1> QED  BY <1>6 DEF a, b, c

\* Sequence a is a beginning of b.
Begins(a, b) == \E m \in 0 .. Len(b) : a = Cut(b, m)

LEMMA UpBegins ==
  ASSUME NEW S, NEW s \in Seq(S)
  PROVE  /\ Up(s) \in Seq(S) /\ Begins(Up(s), s)
         /\ \A e \in S : Up(Append(s, e)) = s
<1>1. Len(s) \in Nat /\ (s # <<>> => Len(s) - 1 \in 0 .. Len(s)) /\ 0 \in 0 .. Len(s)
  OBVIOUS
<1>2. ASSUME s = <<>> PROVE Up(s) \in Seq(S) /\ Begins(Up(s), s)
  <2>1. Cut(s, 0) = <<>>
    <3>1. Cut(s, 0) \in Seq(S) /\ Len(Cut(s, 0)) = 0
      BY <1>1, CutIs
    <3> QED  BY <3>1
  <2>2. Up(s) = Cut(s, 0) /\ Up(s) = s
    BY <1>2, <2>1 DEF Up
  <2> QED  BY ONLY <1>1, <2>2, s \in Seq(S) DEF Begins
<1>3. ASSUME s # <<>> PROVE Up(s) \in Seq(S) /\ Begins(Up(s), s)
  <2>1. Up(s) = Cut(s, Len(s) - 1) /\ Len(s) - 1 \in 0 .. Len(s)
    BY <1>1, <1>3 DEF Up
  <2>2. Cut(s, Len(s) - 1) \in Seq(S)
    BY <2>1, CutIs
  <2> QED  BY ONLY <2>1, <2>2 DEF Begins
<1>4. ASSUME NEW e \in S PROVE Up(Append(s, e)) = s
  <2> DEFINE t == Append(s, e)
  <2>1. t # <<>> /\ Len(t) = Len(s) + 1
    BY AppendProperties
  <2>2. Cut(t, Len(s)) = s
    BY <1>1, CutAppend
  <2> HIDE DEF t
  <2>3. Up(t) = s
    BY <1>1, <2>1, <2>2 DEF Up
  <2> QED  BY <2>3 DEF t
<1> QED  BY <1>2, <1>3, <1>4

\* A beginning of a beginning, and a beginning of what has an element more.
LEMMA BeginsTwice ==
  ASSUME NEW S, NEW a, NEW b, NEW c \in Seq(S), Begins(a, b), Begins(b, c)
  PROVE  Begins(a, c)
<1>1. PICK n \in 0 .. Len(c) : b = Cut(c, n)
  BY DEF Begins
<1>2. Len(c) \in Nat /\ Len(b) = n
  BY <1>1, CutIs
<1>3. PICK m \in 0 .. Len(b) : a = Cut(b, m)
  BY DEF Begins
<1>4. m \in 0 .. n /\ m \in 0 .. Len(c)
  BY <1>2, <1>3
<1>5. a = Cut(c, m)
  BY <1>1, <1>3, <1>4, CutTwice
<1> QED  BY <1>4, <1>5 DEF Begins

LEMMA BeginsMore ==
  ASSUME NEW S, NEW s \in Seq(S), NEW e \in S, NEW a, Begins(a, Append(s, e))
  PROVE  a = Append(s, e) \/ Begins(a, s)
<1> DEFINE t == Append(s, e)
<1>1. Len(s) \in Nat /\ t \in Seq(S) /\ Len(t) = Len(s) + 1
  BY AppendProperties
<1>2. Cut(t, Len(t)) = t
  BY <1>1, CutAppend
<1>3. \A m \in 0 .. Len(s) : Cut(t, m) = Cut(s, m)
  BY CutAppend
<1>4. PICK m \in 0 .. Len(t) : a = Cut(t, m)
  BY DEF Begins
<1> HIDE DEF t
<1>5. m = Len(t) \/ m \in 0 .. Len(s)
  BY <1>1, <1>4
<1>6. a = t \/ Begins(a, s)
  BY <1>2, <1>3, <1>4, <1>5 DEF Begins
<1> QED  BY <1>6 DEF t

\* Nothing but the empty sequence begins it.
LEMMA BeginsNothing == ASSUME NEW a, Begins(a, <<>>) PROVE a = <<>>
<1>1. a = Cut(<<>>, 0) /\ <<>> \in Seq({}) /\ 0 \in 0 .. Len(<<>>)
  BY DEF Begins
<1>2. a \in Seq({}) /\ Len(a) = 0
  BY <1>1, CutIs
<1> QED  BY <1>2

\* All that is shorter than a sequence begins what it is without its last element.
LEMMA CutUp ==
  ASSUME NEW S, NEW s \in Seq(S), NEW n \in 1 .. Len(s)
  PROVE  Begins(Cut(s, n - 1), Up(s))
<1>1. /\ Len(s) \in Nat /\ Len(s) - 1 \in 0 .. Len(s) /\ n - 1 \in 0 .. Len(s) - 1
      /\ s # <<>>
  OBVIOUS
<1>2. Up(s) = Cut(s, Len(s) - 1)
  BY <1>1 DEF Up
<1>3. Len(Up(s)) = Len(s) - 1
  BY <1>1, <1>2, CutIs
<1>4. Cut(Cut(s, Len(s) - 1), n - 1) = Cut(s, n - 1)
  BY <1>1, CutTwice
<1> QED  BY <1>1, <1>2, <1>3, <1>4 DEF Begins

-----------------------------------------------------------------------------
(* A line read back.                                                       *)

\* A node of the rebuilt tree has the path of the node it stands for.
LEMMA CopyNames ==
  ASSUME NEW h, TreeOf(h), NEW q, InOrder(h, q), NEW k \in 0 .. Len(q),
         NEW g, g = Copy(h, q, k), TreeOf(g)
  PROVE  \A i \in 1 .. k + 1 : NamesTo(g, i) = NamesTo(h, Origin(q, i))
<1> DEFINE n == Len(q)
           S == {i \in 1 .. k + 1 : NamesTo(g, i) = NamesTo(h, Origin(q, i))}
<1>1. /\ n \in Nat /\ Root = 1 /\ Origin(q, Root) = Root
      /\ \A y \in UsedIn(h) : Origin(q, Place(q, y)) = y
      /\ \A i \in 2 .. n + 1 : Origin(q, i) \in Nodes(h)
  BY PlaceFacts
<1>2. IsCopy(g, h, q, k)
  BY CopyFields
<1>3. /\ UsedIn(g) = 1 .. k + 1
      /\ \A i \in 1 .. k + 1 : /\ g[i].name = h[Origin(q, i)].name
                               /\ g[i].parent = Place(q, h[Origin(q, i)].parent)
  BY <1>2 DEF IsCopy
<1>4. k \in 0 .. n
  OBVIOUS
<1> HIDE DEF n
<1>5. Root \in S
  BY <1>1, <1>4, NamesStep
<1>6. ASSUME NEW i \in UsedIn(g) \ {Root}, g[i].parent \in S PROVE i \in S
  <2> DEFINE x == Origin(q, i)
  <2>1. i \in 1 .. k + 1 /\ i \in 2 .. n + 1
    BY <1>1, <1>3, <1>4
  <2>2. x \in Nodes(h) /\ x \in UsedIn(h) \ {Root} /\ h[x].parent \in UsedIn(h)
    BY <1>1, <2>1, PointsTo DEF TreeOf, ParentKept
  <2> HIDE DEF x
  <2>3. NamesTo(h, x) = Append(NamesTo(h, h[x].parent), h[x].name)
    BY <2>2, NamesStep
  <2>4. NamesTo(g, i) = Append(NamesTo(g, g[i].parent), g[i].name)
    BY NamesStep
  <2>5. g[i].name = h[x].name /\ g[i].parent = Place(q, h[x].parent)
    BY <1>3, <2>1 DEF x
  <2>6. NamesTo(g, g[i].parent) = NamesTo(h, h[x].parent)
    BY <1>1, <1>6, <2>2, <2>5
  <2> QED  BY <2>1, <2>3, <2>4, <2>5, <2>6 DEF x
<1> HIDE DEF S
<1>7. UsedIn(g) \subseteq S
  BY <1>5, <1>6, TreeInduction
<1> QED  BY <1>3, <1>7 DEF S

\* Every node has a name that can be written, and every file is where creat finds
\* the directory by its path.
NamesWell(h) == \A x \in Nodes(h) : h[x].name \notin {"", "/"}
FilesPlain(h) ==
  \A x \in UsedIn(h) : h[x].type = "F" => NamesTo(h, h[x].parent) \in Seq(Names)

\* Tokens can be written.
LEMMA TokensAre ==
  ASSUME NEW tok \in Token
  PROVE  tok \notin {"", "/"}
  BY NamesAssumption DEF Token

\* What is read back of the first n names.
ReadOne(u, b) == IF b \in {"", "/"} THEN u ELSE Append(u, b)
ReadsBack(t, names, n) ==
  t = [k \in 0 .. n |-> IF k = 0 THEN <<>> ELSE ReadOne(t[k - 1], names[k])]

LEMMA ReadBackExists ==
  ASSUME NEW names, NEW n \in Nat
  PROVE  \E t : ReadsBack(t, names, n)
<1> DEFINE S == {m \in Nat : \E t : ReadsBack(t, names, m)}
<1>1. 0 \in S
  <2>1. ReadsBack([k \in 0 .. 0 |-> <<>>], names, 0)
    BY DEF ReadsBack
  <2> QED  BY <2>1
<1>2. ASSUME NEW m \in Nat, m \in S PROVE m + 1 \in S
  <2>1. PICK t : ReadsBack(t, names, m)
    BY <1>2
  <2> DEFINE more == [k \in 0 .. m + 1 |-> IF k <= m THEN t[k] ELSE ReadOne(t[m], names[k])]
  <2>2. ASSUME NEW k \in 0 .. m + 1
        PROVE  more[k] = IF k = 0 THEN <<>> ELSE ReadOne(more[k - 1], names[k])
    <3>1. CASE k <= m
      <4>1. t[k] = IF k = 0 THEN <<>> ELSE ReadOne(t[k - 1], names[k])
        BY <2>1, <3>1 DEF ReadsBack
      <4>2. more[k] = t[k] /\ (k # 0 => more[k - 1] = t[k - 1])
        BY <3>1
      <4> HIDE DEF more
      <4> QED  BY <4>1, <4>2
    <3>2. CASE k = m + 1
      BY <3>2
    <3> QED  BY <3>1, <3>2
  <2>3. ReadsBack(more, names, m + 1)
    <3> HIDE DEF more
    <3>1. more = [k \in 0 .. m + 1 |-> more[k]]
      BY DEF more
    <3> QED  BY <2>2, <3>1 DEF ReadsBack
  <2> HIDE DEF more
  <2> QED  BY <2>3
<1>3. n \in S
  <2> HIDE DEF S
  <2> QED  BY <1>1, <1>2, NatRise
<1> QED  BY <1>3

\* ReadBack reads one name after the other.
LEMMA ReadBackSteps ==
  ASSUME NEW names, NEW n \in Nat, n = Len(names)
  PROVE  \E t : /\ t[0] = <<>> /\ ReadBack(names) = t[n]
                /\ \A k \in Nat : k + 1 <= n => t[k + 1] = ReadOne(t[k], names[k + 1])
<1> DEFINE t == CHOOSE t : ReadsBack(t, names, n)
<1>1. ReadsBack(t, names, n)
  BY ReadBackExists
<1>2. ReadBack(names) = t[n]
  BY DEF ReadBack, ReadsBack, ReadOne
<1> HIDE DEF t
<1>3. \A k \in 0 .. n : t[k] = IF k = 0 THEN <<>> ELSE ReadOne(t[k - 1], names[k])
  BY <1>1 DEF ReadsBack
<1>4. t[0] = <<>>
  BY <1>3
<1>5. ASSUME NEW k \in Nat, k + 1 <= n
      PROVE  t[k + 1] = ReadOne(t[k], names[k + 1])
  <2>1. k + 1 \in 0 .. n /\ k + 1 # 0 /\ (k + 1) - 1 = k
    BY <1>5
  <2> QED  BY <1>3, <2>1
<1> QED  BY <1>2, <1>4, <1>5

\* Of tokens and a name behind them nothing is lost but that name.
LEMMA ReadBackMore ==
  ASSUME NEW s \in Seq(Token), NEW b \in NodeName
  PROVE  ReadBack(Append(s, b)) = ReadOne(s, b)
<1> DEFINE names == Append(s, b)
           n == Len(s)
<1>1. n \in Nat /\ s \in Seq(NodeName)
  <2>1. Token \subseteq NodeName
    BY DEF Token, NodeName
  <2> QED  BY <2>1, SeqMonotonic
<1>2. /\ Len(names) = n + 1 /\ names[n + 1] = b
      /\ \A i \in 1 .. n : names[i] = s[i]
  BY <1>1, AppendProperties
<1>3. \A i \in 1 .. n : s[i] \in Token /\ s[i] \notin {"", "/"}
  <2>1. \A i \in 1 .. n : s[i] \in Token
    OBVIOUS
  <2> QED  BY <2>1, TokensAre
<1> HIDE DEF names, n
<1>4. PICK t : /\ t[0] = <<>> /\ ReadBack(names) = t[n + 1]
               /\ \A k \in Nat : k + 1 <= n + 1 => t[k + 1] = ReadOne(t[k], names[k + 1])
  BY <1>1, <1>2, ReadBackSteps
<1> DEFINE K == {k \in Nat : k <= n => t[k] = Cut(s, k)}
<1>5. 0 \in K
  <2>1. Cut(s, 0) \in Seq(Token) /\ Len(Cut(s, 0)) = 0
    <3>1. 0 \in 0 .. Len(s)
      BY <1>1 DEF n
    <3> QED  BY <3>1, CutIs
  <2>2. Cut(s, 0) = <<>>
    BY <2>1
  <2> QED  BY <1>4, <2>2
<1>6. ASSUME NEW k \in Nat, k \in K PROVE k + 1 \in K
  <2> SUFFICES ASSUME k + 1 <= n PROVE t[k + 1] = Cut(s, k + 1)
    OBVIOUS
  <2>1. t[k] = Cut(s, k) /\ k + 1 \in 1 .. n
    BY <1>1, <1>6
  <2>2. t[k + 1] = Append(Cut(s, k), s[k + 1])
    <3>1. k + 1 <= n + 1 /\ names[k + 1] = s[k + 1] /\ s[k + 1] \notin {"", "/"}
      <4>1. k + 1 <= n + 1
        BY <1>1, <2>1
      <4>2. names[k + 1] = s[k + 1]
        BY <1>2, <2>1
      <4>3. s[k + 1] \notin {"", "/"}
        BY <1>3, <2>1
      <4> QED  BY <4>1, <4>2, <4>3
    <3>2. t[k + 1] = ReadOne(Cut(s, k), s[k + 1])
      BY <1>4, <2>1, <3>1
    <3> QED  BY <3>1, <3>2 DEF ReadOne
  <2>3. Append(Cut(s, k), s[k + 1]) = Cut(s, k + 1)
    BY <1>1, <2>1, CutGrows DEF n
  <2> QED  BY <2>2, <2>3
<1>7. n \in K
  <2> HIDE DEF K
  <2> QED  BY <1>1, <1>5, <1>6, NatRise
<1>8. t[n] = s
  <2>1. Cut(s, n) = s
    BY SubSeqFull DEF Cut, n
  <2> QED  BY <1>1, <1>7, <2>1
<1>9. t[n + 1] = ReadOne(s, b)
  BY <1>1, <1>2, <1>4, <1>8
<1> QED  BY <1>4, <1>9 DEF names

\* What needs no repair is read as it was written.
LEMMA ReadBackSame ==
  ASSUME NEW names \in Seq(Token)
  PROVE  ReadBack(names) = names
<1>1. CASE names = <<>>
  <2>1. 0 = Len(names)
    BY <1>1
  <2> QED  BY <1>1, <2>1, ReadBackSteps
<1>2. CASE names # <<>>
  <2>1. PICK s \in Seq(Token), b \in Token : names = Append(s, b)
    BY <1>2, SequenceEmptyOrAppend
  <2>2. b \in NodeName /\ b \notin {"", "/"}
    BY TokensAre DEF Token, NodeName
  <2> QED  BY <2>1, <2>2, ReadBackMore DEF ReadOne
<1> QED  BY <1>1, <1>2

\* Where all names can be written, all paths can.
LEMMA NamesAreTokens ==
  ASSUME NEW h, TreeOf(h), NamesWell(h)
  PROVE  /\ \A x \in UsedIn(h) : NamesTo(h, x) \in Seq(Token)
         /\ \A x \in Nodes(h) : h[x].name \in Token
<1>1. \A x \in Nodes(h) : h[x].name \in Token
  <2> TAKE x \in Nodes(h)
  <2>1. h[x].name \in NodeName
    BY FieldTypes, PointsTo DEF TreeOf, UsedIn
  <2> QED  BY <2>1 DEF NamesWell, NodeName, Token
<1> DEFINE S == {x \in UsedIn(h) : NamesTo(h, x) \in Seq(Token)}
<1>2. Root \in S
  <2>1. <<>> \in Seq(Token)
    OBVIOUS
  <2> QED  BY <2>1, NamesStep, PointsTo
<1>3. ASSUME NEW x \in UsedIn(h) \ {Root}, h[x].parent \in S PROVE x \in S
  <2>1. NamesTo(h, x) = Append(NamesTo(h, h[x].parent), h[x].name)
    BY NamesStep
  <2>2. NamesTo(h, h[x].parent) \in Seq(Token) /\ h[x].name \in Token
    BY <1>1, <1>3 DEF Nodes
  <2>3. Append(NamesTo(h, h[x].parent), h[x].name) \in Seq(Token)
    BY <2>2
  <2> QED  BY <2>1, <2>3
<1> HIDE DEF S
<1>4. UsedIn(h) \subseteq S
  BY <1>2, <1>3, TreeInduction
<1> QED  BY <1>1, <1>4 DEF S

\* Such a path is read as it was written.
LEMMA LineIs ==
  ASSUME NEW h, TreeOf(h), NamesWell(h), NEW x \in UsedIn(h)
  PROVE  Line(h, x) = [type |-> h[x].type, toks |-> NamesTo(h, x)]
<1>1. ReadBack(NamesTo(h, x)) = NamesTo(h, x)
  BY NamesAreTokens, ReadBackSame
<1> QED  BY <1>1 DEF Line

\* mkdir of one token more.
MkdirState(h, d, toks) == MkdirWalk(h, d, toks, Len(toks))[Len(toks)]

\* One token more.
LEMMA MkdirAppend ==
  ASSUME NEW h, NEW d, NEW S, NEW toks \in Seq(S), NEW tok \in S
  PROVE  MkdirState(h, d, Append(toks, tok)) = MkdirStep(MkdirState(h, d, toks), tok)
<1> DEFINE n == Len(toks)
           more == Append(toks, tok)
           s == MkdirWalk(h, d, toks, n)
           s2 == MkdirWalk(h, d, more, n + 1)
           s0 == [h |-> h, at |-> d]
<1>1. /\ n \in Nat /\ Len(more) = n + 1 /\ more[n + 1] = tok
      /\ \A i \in 1 .. n : more[i] = toks[i]
  BY AppendProperties
<1>2. MkdirState(h, d, toks) = s[n] /\ MkdirState(h, d, more) = s2[n + 1]
  BY <1>1 DEF MkdirState
<1> HIDE DEF more, n, s0
<1>3. \A k \in 0 .. n : s[k] = IF k = 0 THEN s0 ELSE MkdirStep(s[k - 1], toks[k])
  BY <1>1, MkdirExists DEF IsMkdir, s0
<1>4. \A k \in 0 .. n + 1 : s2[k] = IF k = 0 THEN s0 ELSE MkdirStep(s2[k - 1], more[k])
  <2>1. n + 1 \in Nat
    BY <1>1
  <2>2. IsMkdir(s2, h, d, more, n + 1)
    BY <2>1, MkdirExists
  <2> HIDE DEF s2
  <2> QED  BY <2>2 DEF IsMkdir, s0
<1> HIDE DEF s, s2
<1> DEFINE K == {k \in Nat : k \in 0 .. n => s2[k] = s[k]}
<1>5. 0 \in K
  BY <1>1, <1>3, <1>4
<1>6. ASSUME NEW k \in Nat, k \in K PROVE k + 1 \in K
  <2> SUFFICES ASSUME k + 1 \in 0 .. n PROVE s2[k + 1] = s[k + 1]
    BY DEF K
  <2>1. s2[k] = s[k]
    BY <1>1, <1>6
  <2>2. k + 1 \in 1 .. n /\ k + 1 \in 0 .. n + 1 /\ (k + 1) - 1 = k /\ k + 1 # 0
    BY <1>1
  <2>3. s[k + 1] = MkdirStep(s[k], toks[k + 1]) /\ s2[k + 1] = MkdirStep(s2[k], more[k + 1])
    BY <1>3, <1>4, <2>2
  <2> QED  BY <1>1, <2>1, <2>2, <2>3
<1>7. n \in K
  <2> HIDE DEF K
  <2> QED  BY <1>1, <1>5, <1>6, NatRise
<1>8. s2[n] = s[n]
  BY <1>1, <1>7
<1>9. s2[n + 1] = MkdirStep(s2[n], more[n + 1])
  BY <1>1, <1>4
<1> QED  BY <1>1, <1>2, <1>8, <1>9 DEF more

\* Where all the directories are there, mkdir goes down to the last.
LEMMA MkdirGoesDown ==
  ASSUME NEW g, TreeOf(g), NEW d \in Dirs(g)
  PROVE  MkdirState(g, Root, NamesTo(g, d)) = [h |-> g, at |-> d]
<1> DEFINE S == {x \in UsedIn(g) : x \in Dirs(g) =>
                   MkdirState(g, Root, NamesTo(g, x)) = [h |-> g, at |-> x]}
<1>1. Root \in S
  <2>1. MkdirWalk(g, Root, <<>>, 0)[0] = [h |-> g, at |-> Root]
    BY MkdirExists DEF IsMkdir
  <2>2. MkdirState(g, Root, <<>>) = [h |-> g, at |-> Root]
    BY <2>1 DEF MkdirState
  <2> QED  BY <2>2, NamesStep, PointsTo
<1>2. ASSUME NEW x \in UsedIn(g) \ {Root}, g[x].parent \in S PROVE x \in S
  <2> SUFFICES ASSUME x \in Dirs(g)
               PROVE  MkdirState(g, Root, NamesTo(g, x)) = [h |-> g, at |-> x]
    OBVIOUS
  <2> DEFINE p == g[x].parent
             b == g[x].name
  <2>1. p \in Dirs(g)
    BY DEF TreeOf, ParentKept, Dirs
  <2>2. MkdirState(g, Root, NamesTo(g, p)) = [h |-> g, at |-> p]
    BY <1>2, <2>1
  <2>3. NamesTo(g, x) = Append(NamesTo(g, p), b)
    BY NamesStep
  <2>4. NamesTo(g, p) \in Seq(Token) /\ b \in Token
    <3>1. b \in Token
      BY DEF TreeOf, DirNames, Dirs
    <3> QED  BY <2>1, <3>1, NamesAreNames
  <2>5. x \in In(g, p) /\ IsSubdir(g, x, b)
    BY DEF In, IsSubdir, Dirs
  <2> HIDE DEF p, b
  <2>6. Subdir(g, p, b) = x
    <3> DEFINE sub == Subdir(g, p, b)
    <3>1. IF sub = NULL THEN \A y \in In(g, p) : ~IsSubdir(g, y, b)
          ELSE sub \in In(g, p) /\ IsSubdir(g, sub, b)
      BY <2>1, SubdirFinds DEF Dirs
    <3> HIDE DEF sub
    <3>2. sub \in In(g, p) /\ IsSubdir(g, sub, b)
      BY <2>5, <3>1
    <3>3. sub = x
      BY <2>5, <3>2 DEF In, IsSubdir, TreeOf, UniqueDirs
    <3> QED  BY <3>3 DEF sub
  <2>7. MkdirStep([h |-> g, at |-> p], b) = [h |-> g, at |-> x]
    <3>1. x # NULL
      BY PointsTo DEF Nodes
    <3> QED  BY <2>6, <3>1 DEF MkdirStep
  <2> QED  BY <2>2, <2>3, <2>4, <2>7, MkdirAppend
<1> HIDE DEF S
<1>3. UsedIn(g) \subseteq S
  BY <1>1, <1>2, TreeInduction
<1> QED  BY <1>3 DEF S, Dirs

\* mkdir and creat of a line make the node, where its directory is there and, of
\* a directory, no other one of its name.
LEMMA AddLineAdds ==
  ASSUME NEW g, TreeOf(g), NEW d \in Dirs(g), NEW type \in {"D", "F"}, NEW name \in Token,
         type = "D" => \A y \in In(g, d) : ~IsSubdir(g, y, name),
         type = "F" => NamesTo(g, d) \in Seq(Names),
         NEW line, line = [type |-> type, toks |-> Append(NamesTo(g, d), name)]
  PROVE  AddLine(g, line) = Add(g, d, type, name)
<1> DEFINE path == NamesTo(g, d)
           toks == Append(path, name)
<1>1. path \in Seq(Token) /\ d # NULL
  BY NamesAreNames, PointsTo DEF Dirs, Nodes
<1> HIDE DEF path
<1>2. toks \in Seq(Token) /\ toks # <<>> /\ Front(toks) = path /\ Last(toks) = name
  <2>1. toks \in Seq(Token) /\ Len(toks) = Len(path) + 1 /\ toks[Len(path) + 1] = name
    BY <1>1
  <2>2. \A i \in 1 .. Len(path) : toks[i] = path[i]
    BY <1>1
  <2>3. Last(toks) = name
    BY <1>1, <2>1 DEF Last
  <2>4. Front(toks) = path
    <3> DEFINE r == Front(toks)
    <3>1. r = SubSeq(toks, 1, Len(path))
      BY <1>1, <2>1 DEF Front
    <3> HIDE DEF r, toks
    <3>2. r \in Seq(Token) /\ Len(r) = Len(path) /\ \A i \in 1 .. Len(path) : r[i] = toks[i]
      BY <1>1, <2>1, <3>1
    <3>3. r = path
      BY <1>1, <2>2, <3>2, SeqEqual
    <3> QED  BY <3>3 DEF r
  <2>5. toks # <<>>
    <3> HIDE DEF toks
    <3>1. Len(path) \in Nat
      BY <1>1
    <3> QED  BY <2>1, <3>1
  <2> QED  BY <2>1, <2>3, <2>4, <2>5
<1>3. line.type = type /\ line.toks = toks
  BY DEF path
<1>4. CASE type = "D"
  <2>1. AddLine(g, line) = MkdirFrom(g, Root, toks)
    BY <1>3, <1>4 DEF AddLine
  <2>2. MkdirFrom(g, Root, toks) = MkdirState(g, Root, toks).h
    BY MkdirOnWalk DEF MkdirState
  <2>3. MkdirState(g, Root, toks) = MkdirStep(MkdirState(g, Root, path), name)
    BY <1>1, MkdirAppend
  <2>4. MkdirState(g, Root, path) = [h |-> g, at |-> d]
    BY MkdirGoesDown DEF path
  <2>5. Subdir(g, d, name) = NULL
    <3> DEFINE sub == Subdir(g, d, name)
    <3>1. IF sub = NULL THEN \A y \in In(g, d) : ~IsSubdir(g, y, name)
          ELSE sub \in In(g, d) /\ IsSubdir(g, sub, name)
      BY SubdirFinds DEF Dirs
    <3> HIDE DEF sub
    <3>2. sub = NULL
      BY <1>4, <3>1
    <3> QED  BY <3>2 DEF sub
  <2>6. MkdirStep([h |-> g, at |-> d], name).h = Add(g, d, "D", name)
    BY <2>5 DEF MkdirStep
  <2> QED  BY <1>4, <2>1, <2>2, <2>3, <2>4, <2>6
<1>5. CASE type = "F"
  <2> DEFINE p == [abs |-> TRUE, toks |-> toks]
  <2>1. DirOf(p).toks = path /\ BaseOf(p) = name
    BY <1>2 DEF DirOf, BaseOf
  <2>2. FindFrom(g, Root, path) = d
    BY <1>5, PathLeadsBack DEF path
  <2> HIDE DEF toks
  <2>3. AddLine(g, line) =
          LET r == [abs |-> TRUE, toks |-> toks]
              e == FindFrom(g, Root, DirOf(r).toks)
          IN  IF e = NULL THEN g ELSE Add(g, e, "F", BaseOf(r))
    BY <1>3, <1>5 DEF AddLine
  <2>4. AddLine(g, line) = Add(g, d, "F", name)
    <3> HIDE DEF p
    <3>1. AddLine(g, line) = IF FindFrom(g, Root, DirOf(p).toks) = NULL THEN g
                             ELSE Add(g, FindFrom(g, Root, DirOf(p).toks), "F", BaseOf(p))
      BY <2>3 DEF p
    <3> QED  BY <1>1, <2>1, <2>2, <3>1
  <2> QED  BY <1>5, <2>4
<1> QED  BY <1>4, <1>5

\* The trees that can be written and read back.
Sound(h) == TreeOf(h) /\ NamesWell(h) /\ FilesPlain(h)

\* The line of the next node makes it.
LEMMA CopyStep ==
  ASSUME NEW h, Sound(h), NEW q, InOrder(h, q), NEW k \in Nat, k + 1 <= Len(q),
         TreeOf(Copy(h, q, k))
  PROVE  /\ AddLine(Copy(h, q, k), Line(h, q[k + 1])) = Copy(h, q, k + 1)
         /\ TreeOf(Copy(h, q, k + 1))
<1> DEFINE x == q[k + 1]
           p == h[x].parent
           g == Copy(h, q, k)
           d == Place(q, p)
<1>0. TreeOf(h) /\ NamesWell(h) /\ FilesPlain(h)
  BY DEF Sound
<1>1. x \in Nodes(h) /\ \E w \in UsedIn(h) : Points(h, w, x) /\ Place(q, w) <= k + 1
  BY <1>0, NextInOrder
<1>2. PICK w \in UsedIn(h) : Points(h, w, x) /\ Place(q, w) <= k + 1
  BY <1>1
<1> DEFINE v == Place(q, w)
           f == IF h[w].child = x THEN "child" ELSE "sibling"
           node == NewNode(h[x].type, h[x].name, d)
<1>3. d \in Dirs(g) /\ Slot(g, d, v, f)
  BY <1>0, <1>2, NextSlot
<1>4. Inserted(g, k + 2, node, v, f) = Copy(h, q, k + 1)
  BY <1>0, <1>2, CopyInserts
<1>5. Fresh(g) = k + 2 /\ Unused(g) # {}
  BY <1>0, CopyFresh
<1>6. x \in UsedIn(h) \ {Root} /\ p \in UsedIn(h) /\ h[x].type \in {"D", "F"} /\ h[x].name \in Token
  BY <1>0, <1>1, PointsTo, FileFacts, NamesAreTokens DEF TreeOf, ParentKept
<1>7. /\ UsedIn(g) = 1 .. k + 1
      /\ \A i \in 1 .. k + 1 : /\ g[i].type = h[Origin(q, i)].type
                               /\ g[i].name = h[Origin(q, i)].name
                               /\ g[i].parent = Place(q, h[Origin(q, i)].parent)
  <2>1. k \in 0 .. Len(q)
    <3>1. Len(q) \in Nat
      BY DEF InOrder
    <3> QED  BY <3>1
  <2>2. IsCopy(g, h, q, k)
    BY <1>0, <2>1, CopyFields
  <2> HIDE DEF g
  <2> QED  BY <2>2 DEF IsCopy
<1>8. NamesTo(g, d) = NamesTo(h, p)
  <2>1. k \in 0 .. Len(q)
    <3>1. Len(q) \in Nat
      BY DEF InOrder
    <3> QED  BY <3>1
  <2>2. Origin(q, d) = p
    BY <1>0, <1>6, PlaceFacts
  <2>3. d \in 1 .. k + 1
    BY <1>3, <1>7 DEF Dirs
  <2> QED  BY <1>0, <2>1, <2>2, <2>3, CopyNames
<1>9. Line(h, x) = [type |-> h[x].type, toks |-> Append(NamesTo(g, d), h[x].name)]
  <2>1. NamesTo(h, x) = Append(NamesTo(h, p), h[x].name)
    BY <1>0, <1>6, NamesStep
  <2>2. Line(h, x) = [type |-> h[x].type, toks |-> NamesTo(h, x)]
    BY <1>0, <1>6, LineIs
  <2> QED  BY <1>8, <2>1, <2>2
<1>10. ASSUME h[x].type = "D", NEW y \in In(g, d), IsSubdir(g, y, h[x].name) PROVE FALSE
  <2> DEFINE z == Origin(q, y)
  <2>1. y \in 1 .. k + 1 /\ g[y].parent = d /\ y # Root
    BY <1>7, <1>10 DEF In
  <2>2. g[y].type = h[z].type /\ g[y].name = h[z].name /\ g[y].parent = Place(q, h[z].parent)
    BY <1>7, <2>1
  <2>3. z \in UsedIn(h) /\ Place(q, z) = y /\ Place(q, x) = k + 2
    <3>1. Len(q) \in Nat
      BY DEF InOrder
    <3>2. y \in 1 .. Len(q) + 1
      BY <2>1, <3>1
    <3>3. z \in UsedIn(h) /\ Place(q, z) = y
      BY <1>0, <3>2, PlaceFacts
    <3>4. Place(q, x) = k + 2
      BY <1>0, NextInOrder
    <3> QED  BY <3>3, <3>4
  <2>4. h[z].parent = p
    <3>1. h[z].parent \in UsedIn(h)
      BY <1>0, <2>3 DEF TreeOf, ParentKept
    <3>2. Place(q, h[z].parent) = Place(q, p)
      BY <2>1, <2>2
    <3>3. Origin(q, Place(q, h[z].parent)) = h[z].parent /\ Origin(q, Place(q, p)) = p
      BY <1>0, <1>6, <3>1, PlaceFacts
    <3> QED  BY <3>2, <3>3
  <2>5. h[z].type = "D" /\ h[z].name = h[x].name
    BY <1>10, <2>2 DEF IsSubdir
  <2>6. z # x
    BY <2>1, <2>3
  <2> QED  BY <1>0, <1>6, <1>10, <2>3, <2>4, <2>5, <2>6 DEF TreeOf, UniqueDirs
<1>11. h[x].type = "F" => NamesTo(g, d) \in Seq(Names)
  BY <1>0, <1>6, <1>8 DEF FilesPlain
<1> HIDE DEF g, d, v, f, node, x
<1>12. TreeOf(g)
  BY DEF g
<1> DEFINE t == h[x].type
           b == h[x].name
<1>13. t \in {"D", "F"} /\ b \in Token /\ b \in NodeName
  BY <1>6 DEF NodeName, Token
<1>14. t = "D" => \A y \in In(g, d) : ~IsSubdir(g, y, b)
  BY <1>10
<1>15. Line(h, x) = [type |-> t, toks |-> Append(NamesTo(g, d), b)]
  BY <1>9
<1>16. node = NewNode(t, b, d)
  BY DEF node
<1> HIDE DEF t, b
<1>17. AddLine(g, Line(h, x)) = Add(g, d, t, b)
  <2>1. t = "F" => NamesTo(g, d) \in Seq(Names)
    BY <1>11 DEF t
  <2> QED  BY <1>3, <1>12, <1>13, <1>14, <1>15, <2>1, AddLineAdds
<1>18. Add(g, d, t, b) = Inserted(g, k + 2, node, v, f)
  <2>1. PICK r, e : /\ Slot(g, d, r, e)
                    /\ Add(g, d, t, b) = Inserted(g, Fresh(g), NewNode(t, b, d), r, e)
    BY <1>3, <1>5, <1>12, AddInserts
  <2>2. r = v /\ e = f
    BY <1>3, <1>12, <2>1, SlotOnce DEF Dirs
  <2> QED  BY <1>5, <1>16, <2>1, <2>2
<1>19. AddLine(g, Line(h, x)) = Copy(h, q, k + 1)
  BY <1>4, <1>17, <1>18
<1>20. TreeOf(Add(g, d, t, b))
  BY <1>3, <1>5, <1>12, <1>13, <1>14, AddTree
<1>21. TreeOf(Copy(h, q, k + 1))
  BY <1>17, <1>19, <1>20
<1> QED  BY <1>19, <1>21 DEF g, x

-----------------------------------------------------------------------------
(* All the lines read back.                                                *)

\* The lines, and how many there are.
LEMMA LinesAre ==
  ASSUME NEW h, TreeOf(h), NEW q, q = Visited(h)
  PROVE  /\ Len(q) \in Nat
         /\ Len(Lines(h)) = Len(q) /\ Lines(h) = [k \in 1 .. Len(q) |-> Line(h, q[k])]
         /\ \A k \in 1 .. Len(q) : q[k] \in Nodes(h) /\ Lines(h)[k] = Line(h, q[k])
         /\ Listing(h) = [k \in 1 .. Len(q) |-> <<h[q[k]].type, NamesTo(h, q[k])>>]
<1> DEFINE n == Len(q)
           S == {Line(h, x) : x \in Nodes(h)}
           f == [k \in 1 .. n |-> Line(h, q[k])]
<1>1. InOrder(h, q)
  BY VisitedInOrder
<1>2. n \in Nat /\ \A k \in 1 .. n : q[k] \in Nodes(h)
  BY <1>1 DEF InOrder
<1>3. Lines(h) = f
  BY DEF Lines
<1>4. \A k \in 1 .. n : f[k] = Line(h, q[k]) /\ f[k] \in S
  BY <1>2
<1>5. f \in [1 .. n -> S]
  BY <1>4
<1> HIDE DEF n, f, S
<1>6. f \in Seq(S) /\ Len(f) = n
  <2>1. f \in Seq(S)
    BY <1>2, <1>5, SeqDef
  <2>2. DOMAIN f = 1 .. n /\ DOMAIN f = 1 .. Len(f) /\ Len(f) \in Nat
    BY <1>5, <2>1, LenProperties
  <2> QED  BY <1>2, <2>1, <2>2
<1>7. Listing(h) = [k \in 1 .. n |-> <<h[q[k]].type, NamesTo(h, q[k])>>]
  BY DEF Listing, n
<1> QED  BY <1>2, <1>3, <1>4, <1>6, <1>7 DEF n, S

IsRebuild(g, h, lines, n) ==
  g = [k \in 0 .. n |-> IF k = 0 THEN h ELSE AddLine(g[k - 1], lines[k])]

\* There is such a function, for any number of lines.
LEMMA RebuildExists ==
  ASSUME NEW h, NEW lines, NEW n \in Nat
  PROVE  \E g : IsRebuild(g, h, lines, n)
<1> DEFINE S == {m \in Nat : \E g : IsRebuild(g, h, lines, m)}
<1>1. 0 \in S
  <2>1. IsRebuild([k \in 0 .. 0 |-> h], h, lines, 0)
    BY DEF IsRebuild
  <2> QED  BY <2>1
<1>2. ASSUME NEW m \in Nat, m \in S PROVE m + 1 \in S
  <2>1. PICK g : IsRebuild(g, h, lines, m)
    BY <1>2
  <2> DEFINE more == [k \in 0 .. m + 1 |-> IF k <= m THEN g[k] ELSE AddLine(g[m], lines[k])]
  <2>2. ASSUME NEW k \in 0 .. m + 1
        PROVE  more[k] = IF k = 0 THEN h ELSE AddLine(more[k - 1], lines[k])
    <3>1. CASE k <= m
      <4>1. g[k] = IF k = 0 THEN h ELSE AddLine(g[k - 1], lines[k])
        BY <2>1, <3>1 DEF IsRebuild
      <4>2. more[k] = g[k] /\ (k # 0 => more[k - 1] = g[k - 1])
        BY <3>1
      <4> HIDE DEF more
      <4> QED  BY <4>1, <4>2
    <3>2. CASE k = m + 1
      BY <3>2
    <3> QED  BY <3>1, <3>2
  <2>3. IsRebuild(more, h, lines, m + 1)
    <3> HIDE DEF more
    <3>1. more = [k \in 0 .. m + 1 |-> more[k]]
      BY DEF more
    <3> QED  BY <2>2, <3>1 DEF IsRebuild
  <2> HIDE DEF more
  <2> QED  BY <2>3
<1>3. n \in S
  <2> HIDE DEF S
  <2> QED  BY <1>1, <1>2, NatRise
<1> QED  BY <1>3

\* Rebuilt adds one line after the other.
LEMMA RebuiltSteps ==
  ASSUME NEW h, NEW lines, NEW n \in Nat, n = Len(lines)
  PROVE  \E g : /\ g[0] = h /\ Rebuilt(h, lines) = g[n]
                /\ \A k \in Nat : k + 1 <= n => g[k + 1] = AddLine(g[k], lines[k + 1])
<1> DEFINE g == CHOOSE g : IsRebuild(g, h, lines, n)
<1>1. IsRebuild(g, h, lines, n)
  BY RebuildExists
<1>2. Rebuilt(h, lines) = g[n]
  BY DEF Rebuilt, IsRebuild
<1> HIDE DEF g
<1>3. \A k \in 0 .. n : g[k] = IF k = 0 THEN h ELSE AddLine(g[k - 1], lines[k])
  BY <1>1 DEF IsRebuild
<1>4. g[0] = h
  BY <1>3
<1>5. ASSUME NEW k \in Nat, k + 1 <= n PROVE g[k + 1] = AddLine(g[k], lines[k + 1])
  <2>1. k + 1 \in 0 .. n /\ k + 1 # 0 /\ (k + 1) - 1 = k
    BY <1>5
  <2> QED  BY <1>3, <2>1
<1> QED  BY <1>2, <1>4, <1>5

\* reload makes a copy of the tree, its nodes at the addresses of their lines,
\* which is a tree after each line.
LEMMA RebuiltCopies ==
  ASSUME NEW h, Sound(h), NEW q, q = Visited(h)
  PROVE  /\ Rebuilt(EmptyTree, Lines(h)) = Copy(h, q, Len(q))
         /\ \A k \in 0 .. Len(q) : TreeOf(Copy(h, q, k))
<1> DEFINE n == Len(q)
           lines == Lines(h)
<1>0. TreeOf(h) /\ InOrder(h, q)
  BY VisitedInOrder DEF Sound
<1>1. n \in Nat /\ Len(lines) = n /\ \A k \in 1 .. n : lines[k] = Line(h, q[k])
  BY <1>0, LinesAre
<1>2. Copy(h, q, 0) = EmptyTree /\ TreeOf(EmptyTree)
  BY <1>0, CopyStart
<1>3. ASSUME NEW k \in Nat, k + 1 <= n, TreeOf(Copy(h, q, k))
      PROVE  AddLine(Copy(h, q, k), lines[k + 1]) = Copy(h, q, k + 1) /\ TreeOf(Copy(h, q, k + 1))
  <2>1. lines[k + 1] = Line(h, q[k + 1])
    BY <1>1, <1>3
  <2> QED  BY <1>0, <1>3, <2>1, CopyStep
<1> HIDE DEF n, lines
<1>4. PICK g : /\ g[0] = EmptyTree /\ Rebuilt(EmptyTree, lines) = g[n]
               /\ \A k \in Nat : k + 1 <= n => g[k + 1] = AddLine(g[k], lines[k + 1])
  BY <1>1, RebuiltSteps
<1> DEFINE K == {k \in Nat : k <= n => TreeOf(Copy(h, q, k)) /\ g[k] = Copy(h, q, k)}
<1>5. 0 \in K
  BY <1>2, <1>4
<1>6. ASSUME NEW k \in Nat, k \in K PROVE k + 1 \in K
  <2> SUFFICES ASSUME k + 1 <= n
               PROVE  TreeOf(Copy(h, q, k + 1)) /\ g[k + 1] = Copy(h, q, k + 1)
    OBVIOUS
  <2>1. TreeOf(Copy(h, q, k)) /\ g[k] = Copy(h, q, k)
    BY <1>1, <1>6
  <2>2. g[k + 1] = AddLine(g[k], lines[k + 1])
    BY <1>4
  <2> QED  BY <1>3, <2>1, <2>2
<1>7. \A k \in Nat : k \in K
  <2> TAKE k \in Nat
  <2> HIDE DEF K
  <2> QED  BY <1>5, <1>6, NatRise
<1>8. g[n] = Copy(h, q, n)
  BY <1>1, <1>7
<1>9. \A k \in 0 .. n : TreeOf(Copy(h, q, k))
  BY <1>1, <1>7
<1> QED  BY <1>4, <1>8, <1>9 DEF n, lines

\* The same, in one word.
InParts(s, x, a, b) ==
  /\ Len(s) = 1 + Len(a) + Len(b) /\ s[1] = x
  /\ \A i \in 1 .. Len(a) : s[1 + i] = a[i]
  /\ \A i \in 1 .. Len(b) : s[1 + Len(a) + i] = b[i]
  /\ \A k \in 1 .. Len(s) :
       \/ k = 1
       \/ \E i \in 1 .. Len(a) : k = 1 + i
       \/ \E i \in 1 .. Len(b) : k = 1 + Len(a) + i

LEMMA JoinedParts ==
  ASSUME NEW S, NEW x \in S, NEW a \in Seq(S), NEW b \in Seq(S)
  PROVE  Joined(x, a, b) \in Seq(S) /\ InParts(Joined(x, a, b), x, a, b)
<1> DEFINE s == Joined(x, a, b)
<1> HIDE DEF s
<1>1. s \in Seq(S) /\ InParts(s, x, a, b)
  BY ThreeParts DEF s, InParts
<1> QED  BY <1>1 DEF s

\* The places of what a node's pointers lead to.
PlacesFollow(h, q, v, x) ==
  LET c == h[x].child
      s == h[x].sibling
  IN  /\ Len(v[c]) \in Nat /\ Len(v[s]) \in Nat
      /\ Len(v[x]) = 1 + Len(v[c]) + Len(v[s])
      /\ c # NULL => Place(q, c) = Place(q, x) + 1
      /\ s # NULL => Place(q, s) = Place(q, x) + 1 + Len(v[c])

\* What is visited from a node takes the places from its own on: what its child
\* leads to behind it, and what its sibling leads to behind that.
LEMMA VisitPlaces ==
  ASSUME NEW h, TreeOf(h), NEW q, InOrder(h, q),
         NEW v, PartVisit(h, Nodes(h), v), q = v[h[Root].child]
  PROVE  \A x \in Nodes(h) : PlacesFollow(h, q, v, x)
<1>1. /\ \A x \in Nodes(h) : Place(q, x) \in Nat
      /\ \A i \in 1 .. Len(q) : Place(q, q[i]) = i + 1
      /\ Len(q) \in Nat
  <2>1. PICK n : n = Len(q)
    OBVIOUS
  <2>2. /\ n \in Nat
        /\ \A i \in 1 .. n : Place(q, q[i]) = i + 1
        /\ \A x \in Nodes(h) : Place(q, x) \in 2 .. n + 1
    BY ONLY TreeOf(h), InOrder(h, q), <2>1, PlaceFacts
  <2> QED  BY <2>1, <2>2
<1> DEFINE Good(x) == \A j \in 1 .. Len(v[x]) : Place(q, v[x][j]) = Place(q, x) + j - 1
<1>2. \A x \in Nodes(h) : v[x] \in Seq(Nodes(h)) /\ v[x][1] = x /\ 1 <= Len(v[x]) /\ Len(v[x]) \in Nat
  BY VisitOrdered DEF Ordered
<1>3. v[NULL] = <<>> /\ <<>> \in Seq(Nodes(h)) /\ Len(<<>>) = 0
  BY DEF PartVisit
<1>4. ASSUME NEW x \in Nodes(h)
      PROVE  /\ h[x].child \in Nodes(h) \cup {NULL} /\ h[x].sibling \in Nodes(h) \cup {NULL}
             /\ Len(v[h[x].child]) \in Nat /\ Len(v[h[x].sibling]) \in Nat
             /\ InParts(v[x], x, v[h[x].child], v[h[x].sibling])
  <2> DEFINE c == h[x].child
             s == h[x].sibling
  <2>1. c \in Nodes(h) \cup {NULL} /\ s \in Nodes(h) \cup {NULL}
    BY PointsTo
  <2>2. v[x] = Joined(x, v[c], v[s])
    BY DEF PartVisit, Joined
  <2> HIDE DEF c, s
  <2>3. v[c] \in Seq(Nodes(h)) /\ v[s] \in Seq(Nodes(h))
    BY <1>2, <1>3, <2>1
  <2>4. InParts(v[x], x, v[c], v[s])
    BY <2>2, <2>3, JoinedParts
  <2>5. Len(v[c]) \in Nat /\ Len(v[s]) \in Nat
    BY <2>3
  <2> QED  BY <2>1, <2>4, <2>5 DEF c, s
<1>5. ASSUME NEW x \in Nodes(h), Good(x)
      PROVE  /\ h[x].child # NULL => Place(q, h[x].child) = Place(q, x) + 1 /\ Good(h[x].child)
             /\ h[x].sibling # NULL => /\ Place(q, h[x].sibling) = Place(q, x) + 1 + Len(v[h[x].child])
                                       /\ Good(h[x].sibling)
  <2> DEFINE c == h[x].child
             s == h[x].sibling
             m == Len(v[c])
             n == Len(v[s])
             p == Place(q, x)
  <2>1. c \in Nodes(h) \cup {NULL} /\ s \in Nodes(h) \cup {NULL} /\ m \in Nat /\ n \in Nat
    BY <1>4
  <2>2. /\ Len(v[x]) = 1 + m + n
        /\ \A i \in 1 .. m : v[x][1 + i] = v[c][i]
        /\ \A i \in 1 .. n : v[x][1 + m + i] = v[s][i]
    BY <1>4 DEF InParts
  <2>3. p \in Nat
    BY <1>1
  <2>4. \A j \in 1 .. 1 + m + n : Place(q, v[x][j]) = p + j - 1
    BY <1>5, <2>2
  <2> HIDE DEF c, s, m, n, p, Good
  <2>5. \A i \in 1 .. m : Place(q, v[c][i]) = p + i
    <3> TAKE i \in 1 .. m
    <3>1. 1 + i \in 1 .. 1 + m + n /\ p + (1 + i) - 1 = p + i
      BY <2>1, <2>3
    <3> QED  BY <2>2, <2>4, <3>1
  <2>6. \A i \in 1 .. n : Place(q, v[s][i]) = p + m + i
    <3> TAKE i \in 1 .. n
    <3>1. 1 + m + i \in 1 .. 1 + m + n /\ p + (1 + m + i) - 1 = p + m + i
      BY <2>1, <2>3
    <3> QED  BY <2>2, <2>4, <3>1
  <2>7. ASSUME c # NULL PROVE Place(q, c) = p + 1 /\ Good(c)
    <3>1. v[c][1] = c /\ 1 \in 1 .. m
      BY <1>2, <2>1, <2>7 DEF m
    <3>2. Place(q, c) = p + 1
      BY <2>5, <3>1
    <3>3. \A j \in 1 .. m : p + 1 + j - 1 = p + j
      BY <2>1, <2>3
    <3> QED  BY <2>5, <3>2, <3>3 DEF Good, m
  <2>8. ASSUME s # NULL PROVE Place(q, s) = p + 1 + m /\ Good(s)
    <3>1. v[s][1] = s /\ 1 \in 1 .. n
      BY <1>2, <2>1, <2>8 DEF n
    <3>2. Place(q, s) = p + m + 1 /\ p + m + 1 = p + 1 + m
      BY <2>1, <2>3, <2>6, <3>1
    <3>3. \A j \in 1 .. n : p + 1 + m + j - 1 = p + m + j
      BY <2>1, <2>3
    <3> QED  BY <2>6, <3>2, <3>3 DEF Good, n
  <2> QED  BY <2>7, <2>8 DEF c, s, m, p
<1> DEFINE I == {x \in Nodes(h) : ~Good(x)}
<1>6. ASSUME NEW z \in I, NEW y \in UsedIn(h), Points(h, y, z)
      PROVE  y \in I
  <2>1. CASE y = Root
    <3>1. z = h[Root].child /\ z \in Nodes(h)
      BY <1>6, <2>1 DEF Points
    <3>2. v[z] = q /\ q[1] = z /\ 1 \in 1 .. Len(q)
      BY <1>1, <1>2, <3>1
    <3>3. Place(q, z) = 1 + 1
      BY <1>1, <3>2
    <3>4. \A j \in 1 .. Len(q) : Place(q, q[j]) = Place(q, z) + j - 1
      <4> TAKE j \in 1 .. Len(q)
      <4>1. j + 1 = 1 + 1 + j - 1
        BY <1>1
      <4> QED  BY <1>1, <3>3, <4>1
    <3> QED  BY <1>6, <3>2, <3>4
  <2>2. CASE y # Root
    <3>1. y \in Nodes(h) /\ z # NULL /\ z \in Nodes(h) /\ ~Good(z)
      BY <1>6, <2>2, PointsTo DEF Nodes
    <3>2. h[y].child = z \/ h[y].sibling = z
      BY <1>6 DEF Points
    <3> HIDE DEF Good
    <3>3. ~Good(y)
      BY <1>5, <3>1, <3>2
    <3> QED  BY <3>1, <3>3
  <2> QED  BY <2>1, <2>2
<1>7. I = {}
  <2> HIDE DEF Good
  <2>1. I \in SUBSET Nodes(h)
    OBVIOUS
  <2> HIDE DEF I
  <2> QED  BY <1>6, <2>1, NoneInTheAir
<1> HIDE DEF Good
<1> TAKE x \in Nodes(h)
<1>8. Good(x)
  BY <1>7
<1> QED  BY <1>4, <1>5, <1>8 DEF InParts, PlacesFollow

\* m numbers from p on, and how many of them are not greater than k + 1.
Run(p, m) == [j \in 1 .. m |-> p + j - 1]
Within(k, p, m) == IF p > k + 1 THEN 0 ELSE IF p + m <= k + 2 THEN m ELSE k + 2 - p

LEMMA RunIs ==
  ASSUME NEW p \in Nat, NEW m \in Nat
  PROVE  /\ Run(p, m) \in Seq(Nat) /\ Len(Run(p, m)) = m
         /\ \A j \in 1 .. m : Run(p, m)[j] = p + j - 1
<1> DEFINE f == Run(p, m)
<1>1. \A j \in 1 .. m : p + j - 1 \in Nat
  OBVIOUS
<1>2. f \in [1 .. m -> Nat] /\ DOMAIN f = 1 .. m /\ \A j \in 1 .. m : f[j] = p + j - 1
  BY <1>1 DEF Run
<1> HIDE DEF f
<1>3. f \in Seq(Nat)
  BY <1>2, SeqDef
<1>4. Len(f) = m
  BY <1>2, <1>3, LenProperties
<1> QED  BY <1>2, <1>3, <1>4 DEF f

\* Two runs behind a number, cut off at k + 1, are one run, cut off there.
LEMMA RunsJoin ==
  ASSUME NEW k \in Nat, NEW p \in Nat, p <= k + 1, NEW a \in Nat, NEW b \in Nat
  PROVE  Joined(p, Run(p + 1, Within(k, p + 1, a)), Run(p + 1 + a, Within(k, p + 1 + a, b)))
           = Run(p, Within(k, p, 1 + a + b))
<1> DEFINE m == Within(k, p + 1, a)
           n == Within(k, p + 1 + a, b)
           t == Within(k, p, 1 + a + b)
           r == Run(p + 1, m)
           s == Run(p + 1 + a, n)
           u == Run(p, t)
           w == Joined(p, r, s)
<1>1. m \in Nat /\ n \in Nat /\ t \in Nat /\ t = 1 + m + n /\ (n # 0 => m = a)
  BY DEF Within
<1> HIDE DEF m, n, t
<1>2. r \in Seq(Nat) /\ Len(r) = m /\ \A j \in 1 .. m : r[j] = p + 1 + j - 1
  BY <1>1, RunIs
<1>3. s \in Seq(Nat) /\ Len(s) = n /\ \A j \in 1 .. n : s[j] = p + 1 + a + j - 1
  BY <1>1, RunIs
<1>4. u \in Seq(Nat) /\ Len(u) = t /\ \A j \in 1 .. t : u[j] = p + j - 1
  BY <1>1, RunIs
<1> HIDE DEF r, s, u
<1>5. w \in Seq(Nat) /\ InParts(w, p, r, s)
  BY <1>2, <1>3, JoinedParts
<1> HIDE DEF w
<1>6. Len(w) = t
  BY <1>1, <1>2, <1>3, <1>5 DEF InParts
<1>7. ASSUME NEW j \in 1 .. t PROVE w[j] = u[j]
  <2>1. CASE j = 1
    BY <1>1, <1>4, <1>5, <2>1 DEF InParts
  <2>2. ASSUME NEW i \in 1 .. m, j = 1 + i PROVE w[j] = u[j]
    <3>1. w[j] = r[i]
      BY <1>2, <1>5, <2>2 DEF InParts
    <3>2. p + 1 + i - 1 = p + j - 1
      BY <1>1, <2>2
    <3> QED  BY <1>2, <1>4, <3>1, <3>2
  <2>3. ASSUME NEW i \in 1 .. n, j = 1 + m + i PROVE w[j] = u[j]
    <3>1. w[j] = s[i]
      BY <1>2, <1>3, <1>5, <2>3 DEF InParts
    <3>2. m = a
      BY <1>1, <2>3
    <3>3. p + 1 + a + i - 1 = p + j - 1
      BY <1>1, <2>3, <3>2
    <3> QED  BY <1>3, <1>4, <3>1, <3>3
  <2>4. j = 1 \/ (\E i \in 1 .. m : j = 1 + i) \/ (\E i \in 1 .. n : j = 1 + m + i)
    BY <1>1
  <2> QED  BY <2>1, <2>2, <2>3, <2>4
<1>8. w = u
  BY <1>4, <1>5, <1>6, <1>7, SeqEqual
<1> QED  BY <1>8 DEF w, u, r, s, m, n, t

\* The copy is visited in the order of its addresses.
LEMMA VisitedCopy ==
  ASSUME NEW h, TreeOf(h), NEW q, q = Visited(h), NEW k \in 0 .. Len(q),
         NEW g, g = Copy(h, q, k), TreeOf(g)
  PROVE  Visited(g) = [i \in 1 .. k |-> i + 1]
<1> DEFINE n == Len(q)
<1>1. InOrder(h, q)
  BY VisitedInOrder
<1>2. /\ n \in Nat /\ n + 1 <= MaxNodes /\ Root = 1 /\ NULL = 0 /\ k \in Nat /\ k <= n
      /\ Place(q, Root) = Root /\ Origin(q, Root) = Root
      /\ \A i \in 1 .. n : q[i] \in Nodes(h) /\ Place(q, q[i]) = i + 1
      /\ \A x \in Nodes(h) : Place(q, x) \in 2 .. n + 1 /\ Origin(q, Place(q, x)) = x
  BY <1>1, PlaceFacts, PointsTo
<1>3. /\ UsedIn(g) = 1 .. k + 1
      /\ \A i \in 1 .. k + 1 : /\ g[i].child = Moved(q, k, h[Origin(q, i)].child)
                               /\ g[i].sibling = Moved(q, k, h[Origin(q, i)].sibling)
  <2>1. IsCopy(g, h, q, k)
    BY <1>1, CopyFields
  <2> QED  BY <2>1 DEF IsCopy
<1>4. PICK v : PartVisit(h, Nodes(h), v) /\ q = v[h[Root].child]
  <2> DEFINE v == CHOOSE v : IsVisit(v, h)
  <2>1. IsVisit(v, h)
    BY VisitExists
  <2>2. q = v[h[Root].child]
    BY VisitedIs
  <2> HIDE DEF v
  <2>3. PartVisit(h, Nodes(h), v)
    BY <2>1, VisitPart
  <2> QED  BY <2>2, <2>3
<1>5. PICK w : PartVisit(g, Nodes(g), w) /\ Visited(g) = w[g[Root].child]
  <2> DEFINE w == CHOOSE w : IsVisit(w, g)
  <2>1. IsVisit(w, g)
    BY VisitExists
  <2>2. Visited(g) = w[g[Root].child]
    BY VisitedIs
  <2> HIDE DEF w
  <2>3. PartVisit(g, Nodes(g), w)
    BY <2>1, VisitPart
  <2> QED  BY <2>2, <2>3
<1> DEFINE L(y) == Len(v[y])
           Good(y, p) == w[Moved(q, k, y)] = Run(p, Within(k, p, L(y)))
           S == {x \in Nodes(h) : Place(q, x) <= k + 1 => Good(x, Place(q, x))}
<1>6. L(NULL) = 0 /\ v[NULL] = <<>> /\ w[NULL] = <<>> /\ \A p : Run(p, 0) = <<>>
  <2>1. v[NULL] = <<>> /\ w[NULL] = <<>>
    BY <1>4, <1>5 DEF PartVisit
  <2>2. \A p : Run(p, 0) = <<>>
    BY DEF Run
  <2> QED  BY <2>1, <2>2
<1>7. ASSUME NEW y \in S \cup {NULL}, NEW p \in Nat, y # NULL => Place(q, y) = p, L(y) \in Nat
      PROVE  Good(y, p)
  <2>1. CASE y = NULL
    <3>1. Moved(q, k, y) = NULL
      BY <2>1 DEF Moved
    <3>2. Within(k, p, 0) = 0
      BY <1>2, <1>7 DEF Within
    <3> QED  BY <1>6, <2>1, <3>1, <3>2
  <2>2. CASE y # NULL /\ p <= k + 1
    BY <1>7, <2>2
  <2>3. CASE y # NULL /\ p > k + 1
    <3>1. Moved(q, k, y) = NULL
      BY <1>2, <1>7, <2>3 DEF Moved
    <3>2. Within(k, p, L(y)) = 0
      BY <2>3 DEF Within
    <3> HIDE DEF L
    <3> QED  BY <1>6, <3>1, <3>2
  <2> QED  BY <1>2, <1>7, <2>1, <2>2, <2>3
<1>8. ASSUME NEW x \in Nodes(h), h[x].child \in S \cup {NULL}, h[x].sibling \in S \cup {NULL}
      PROVE  x \in S
  <2> SUFFICES ASSUME Place(q, x) <= k + 1 PROVE Good(x, Place(q, x))
    OBVIOUS
  <2> DEFINE c == h[x].child
             s == h[x].sibling
             p == Place(q, x)
             a == L(c)
             b == L(s)
  <2>1. p \in Nat /\ p \in 2 .. k + 1 /\ Origin(q, p) = x /\ p # NULL
    BY <1>2
  <2>2. /\ a \in Nat /\ b \in Nat /\ L(x) = 1 + a + b
        /\ c # NULL => Place(q, c) = p + 1
        /\ s # NULL => Place(q, s) = p + 1 + a
    <3>1. PartVisit(h, Nodes(h), v) /\ q = v[h[Root].child]
      BY <1>4
    <3>2. PlacesFollow(h, q, v, x)
      BY ONLY TreeOf(h), <1>1, <3>1, x \in Nodes(h), VisitPlaces
    <3> QED  BY <3>2 DEF PlacesFollow
  <2>3. Good(c, p + 1) /\ Good(s, p + 1 + a)
    <3> HIDE DEF S, Good, c, s, p, a
    <3>1. p + 1 \in Nat /\ p + 1 + a \in Nat /\ L(c) \in Nat /\ L(s) \in Nat
      <4>1. L(c) = a /\ L(s) = b
        BY DEF a, b
      <4> HIDE DEF L, a, b
      <4> QED  BY <2>1, <2>2, <4>1
    <3>2. c \in S \cup {NULL} /\ s \in S \cup {NULL}
      BY <1>8 DEF c, s
    <3> HIDE DEF L, b
    <3> QED  BY <1>7, <2>2, <3>1, <3>2
  <2>4. p \in Nodes(g) /\ g[p].child = Moved(q, k, c) /\ g[p].sibling = Moved(q, k, s)
    <3>1. p \in 1 .. k + 1 /\ p # Root
      BY <1>2, <2>1
    <3> HIDE DEF p
    <3> QED  BY <1>3, <2>1, <3>1 DEF Nodes
  <2>5. w[p] = Joined(p, w[Moved(q, k, c)], w[Moved(q, k, s)])
    <3> HIDE DEF p, c, s
    <3> QED  BY <1>5, <2>4 DEF PartVisit, Joined
  <2>6. Moved(q, k, x) = p
    <3>1. x # NULL
      BY PointsTo
    <3> QED  BY <3>1 DEF Moved
  <2> HIDE DEF c, s, p, a, b, L
  <2>7. w[p] = Joined(p, Run(p + 1, Within(k, p + 1, a)), Run(p + 1 + a, Within(k, p + 1 + a, b)))
    BY <2>3, <2>5 DEF a, b
  <2>8. w[p] = Run(p, Within(k, p, 1 + a + b))
    <3>1. p <= k + 1
      BY <2>1, <1>2
    <3> QED  BY <1>2, <2>1, <2>2, <2>7, <3>1, RunsJoin
  <2> QED  BY <2>2, <2>6, <2>8 DEF p
<1> HIDE DEF Good, L
<1>9. Nodes(h) \subseteq S
  <2> HIDE DEF S
  <2> QED  BY <1>8, BottomUp
<1> DEFINE e == h[Root].child
<1>10. e \in S \cup {NULL} /\ L(e) = n /\ (e # NULL => Place(q, e) = 2)
  <2>1. e \in Nodes(h) \cup {NULL}
    BY PointsTo
  <2>2. ASSUME e # NULL PROVE Place(q, e) = 2
    <3>1. v[e][1] = e /\ 1 <= Len(v[e])
      BY <1>4, <2>1, <2>2, VisitOrdered DEF Ordered
    <3>2. q[1] = e /\ 1 \in 1 .. n
      BY <1>2, <1>4, <3>1
    <3> QED  BY <1>2, <3>2
  <2> QED  BY <1>4, <1>9, <2>1, <2>2 DEF L
<1>11. Good(e, 2)
  <2> HIDE DEF S, e
  <2> QED  BY <1>2, <1>7, <1>10
<1>12. g[Root].child = Moved(q, k, e)
  <2>1. Root \in 1 .. k + 1
    BY <1>2
  <2> QED  BY <1>2, <1>3, <2>1
<1>13. Within(k, 2, n) = k
  BY <1>2 DEF Within
<1>14. Visited(g) = Run(2, k)
  <2> HIDE DEF e, n
  <2> QED  BY <1>5, <1>10, <1>11, <1>12, <1>13 DEF Good
<1>15. Run(2, k) = [i \in 1 .. k |-> i + 1]
  <2>1. \A i \in 1 .. k : 2 + i - 1 = i + 1
    BY <1>2
  <2> QED  BY <2>1 DEF Run
<1> QED  BY <1>14, <1>15

\* A copy of the first nodes can be written and read back too, and save writes
\* the first lines of it.
LEMMA CopyLines ==
  ASSUME NEW h, Sound(h), NEW q, q = Visited(h), NEW k \in 0 .. Len(q), NEW g, g = Copy(h, q, k)
  PROVE  /\ Sound(g)
         /\ Lines(g) = [i \in 1 .. k |-> Line(h, q[i])]
         /\ Listing(g) = [i \in 1 .. k |-> <<h[q[i]].type, NamesTo(h, q[i])>>]
<1> DEFINE n == Len(q)
           r == Visited(g)
<1>0. TreeOf(h) /\ NamesWell(h) /\ FilesPlain(h) /\ InOrder(h, q) /\ TreeOf(g)
  BY VisitedInOrder, RebuiltCopies DEF Sound
<1>1. n \in Nat /\ k \in Nat /\ k <= n
  BY <1>0 DEF InOrder
<1>2. r = [i \in 1 .. k |-> i + 1]
  BY <1>0, VisitedCopy
<1> HIDE DEF r
<1>3. /\ Lines(g) = [i \in 1 .. k |-> Line(g, r[i])]
      /\ Listing(g) = [i \in 1 .. k |-> <<g[r[i]].type, NamesTo(g, r[i])>>]
      /\ \A i \in 1 .. k : r[i] = i + 1
  <2>1. /\ Lines(g) = [i \in 1 .. Len(r) |-> Line(g, r[i])] /\ Len(r) \in Nat
        /\ Listing(g) = [i \in 1 .. Len(r) |-> <<g[r[i]].type, NamesTo(g, r[i])>>]
    BY <1>0, LinesAre DEF r
  <2>2. r \in Seq(Nodes(g))
    <3>1. InOrder(g, r)
      BY <1>0, VisitedInOrder DEF r
    <3> QED  BY <3>1 DEF InOrder
  <2>3. DOMAIN r = 1 .. k /\ DOMAIN r = 1 .. Len(r)
    BY <1>2, <2>2, LenProperties
  <2>4. Len(r) = k
    BY <1>1, <2>1, <2>3
  <2> QED  BY <1>2, <2>1, <2>4
<1>4. /\ Root = 1 /\ UsedIn(g) = 1 .. k + 1
      /\ \A i \in 1 .. k + 1 : /\ Origin(q, i) \in UsedIn(h)
                               /\ g[i].type = h[Origin(q, i)].type
                               /\ g[i].name = h[Origin(q, i)].name
                               /\ g[i].parent = Place(q, h[Origin(q, i)].parent)
      /\ \A i \in 2 .. k + 1 : Origin(q, i) \in Nodes(h) /\ Origin(q, i) = q[i - 1]
      /\ \A x \in UsedIn(h) : Origin(q, Place(q, x)) = x
  <2>1. IsCopy(g, h, q, k)
    BY <1>0, CopyFields
  <2>2. /\ Root = 1
        /\ \A i \in 1 .. n + 1 : Origin(q, i) \in UsedIn(h)
        /\ \A i \in 2 .. n + 1 : Origin(q, i) \in Nodes(h)
        /\ \A x \in UsedIn(h) : Origin(q, Place(q, x)) = x
    BY <1>0, PlaceFacts
  <2>3. 1 .. k + 1 \subseteq 1 .. n + 1 /\ 2 .. k + 1 \subseteq 2 .. n + 1
    BY <1>1
  <2>4. \A i \in 2 .. k + 1 : Origin(q, i) = q[i - 1]
    BY <1>1, <2>2 DEF Origin
  <2> QED  BY <2>1, <2>2, <2>3, <2>4 DEF IsCopy
<1>5. \A i \in 1 .. k + 1 : NamesTo(g, i) = NamesTo(h, Origin(q, i))
  BY <1>0, CopyNames
<1>6. \A i \in 1 .. k : g[r[i]].type = h[q[i]].type /\ NamesTo(g, r[i]) = NamesTo(h, q[i])
  <2> TAKE i \in 1 .. k
  <2>1. i + 1 \in 2 .. k + 1 /\ i + 1 \in 1 .. k + 1 /\ (i + 1) - 1 = i
    BY <1>1
  <2> QED  BY <1>3, <1>4, <1>5, <2>1
<1>7. Listing(g) = [i \in 1 .. k |-> <<h[q[i]].type, NamesTo(h, q[i])>>]
  BY <1>3, <1>6
<1>8. Lines(g) = [i \in 1 .. k |-> Line(h, q[i])]
  <2>1. \A i \in 1 .. k : Line(g, r[i]) = Line(h, q[i])
    BY <1>6 DEF Line
  <2> QED  BY <1>3, <2>1
<1>9. NamesWell(g)
  <2> SUFFICES ASSUME NEW i \in Nodes(g) PROVE g[i].name \notin {"", "/"}
    BY DEF NamesWell
  <2>1. i \in 2 .. k + 1 /\ i \in 1 .. k + 1
    BY <1>1, <1>4 DEF Nodes
  <2> QED  BY <1>0, <1>4, <2>1 DEF NamesWell
<1>10. FilesPlain(g)
  <2> SUFFICES ASSUME NEW i \in UsedIn(g), g[i].type = "F"
               PROVE  NamesTo(g, g[i].parent) \in Seq(Names)
    BY DEF FilesPlain
  <2> DEFINE x == Origin(q, i)
             p == h[x].parent
  <2>1. x \in UsedIn(h) /\ h[x].type = "F" /\ g[i].parent = Place(q, p)
    BY <1>4
  <2>2. p \in UsedIn(h) /\ g[i].parent \in UsedIn(g)
    BY <1>0, <2>1 DEF TreeOf, ParentKept
  <2>3. NamesTo(h, p) \in Seq(Names)
    BY <1>0, <2>1 DEF FilesPlain
  <2> HIDE DEF x, p
  <2>4. Place(q, p) \in 1 .. k + 1 /\ Origin(q, Place(q, p)) = p
    BY <1>4, <2>1, <2>2
  <2> QED  BY <1>5, <2>1, <2>3, <2>4
<1> QED  BY <1>0, <1>7, <1>8, <1>9, <1>10 DEF Sound

\* reload of what save writes of h makes the same tree, and what save writes of
\* that one is the same again.
THEOREM RebuiltSame ==
  ASSUME NEW h, Sound(h), NEW g, g = Rebuilt(EmptyTree, Lines(h))
  PROVE  /\ Sound(g)
         /\ Lines(g) = Lines(h)
         /\ Listing(g) = Listing(h)
<1> DEFINE q == Visited(h)
           n == Len(q)
<1>1. g = Copy(h, q, n)
  BY RebuiltCopies
<1>2. /\ n \in Nat
      /\ Lines(h) = [k \in 1 .. n |-> Line(h, q[k])]
      /\ Listing(h) = [k \in 1 .. n |-> <<h[q[k]].type, NamesTo(h, q[k])>>]
  <2> HIDE DEF q
  <2> QED  BY LinesAre DEF q, Sound
<1>3. n \in 0 .. n
  BY <1>2
<1>4. /\ Sound(g)
      /\ Lines(g) = [k \in 1 .. n |-> Line(h, q[k])]
      /\ Listing(g) = [k \in 1 .. n |-> <<h[q[k]].type, NamesTo(h, q[k])>>]
  <2>1. q = Visited(h) /\ n \in 0 .. Len(q) /\ g = Copy(h, q, n)
    BY <1>1, <1>3
  <2> HIDE DEF q, n
  <2> QED  BY ONLY Sound(h), <2>1, CopyLines
<1> QED  BY <1>2, <1>4

\* What is left of the lines of a tree when the last ones are lost is the text of
\* a tree.
LEMMA FirstLines ==
  ASSUME NEW h, Sound(h), NEW k \in 0 .. Len(Lines(h))
  PROVE  \E g : Sound(g) /\ Lines(g) = SubSeq(Lines(h), 1, k)
<1> DEFINE q == Visited(h)
           n == Len(q)
           s == Lines(h)
<1>1. n \in Nat /\ Len(s) = n /\ s = [i \in 1 .. n |-> Line(h, q[i])]
  <2> HIDE DEF q
  <2> QED  BY LinesAre DEF q, Sound
<1>2. k \in 0 .. n
  BY <1>1
<1>3. PICK g : Sound(g) /\ Lines(g) = [i \in 1 .. k |-> Line(h, q[i])]
  <2>1. q = Visited(h) /\ k \in 0 .. Len(q)
    BY <1>2
  <2> HIDE DEF q, n, s
  <2> DEFINE g == Copy(h, q, k)
  <2>2. g = Copy(h, q, k)
    OBVIOUS
  <2> HIDE DEF g
  <2>3. Sound(g) /\ Lines(g) = [i \in 1 .. k |-> Line(h, q[i])]
    BY ONLY Sound(h), <2>1, <2>2, CopyLines
  <2> QED  BY <2>3
<1>4. SubSeq(s, 1, k) = [i \in 1 .. k |-> Line(h, q[i])]
  <2> DEFINE S == {Line(h, q[i]) : i \in 1 .. n}
  <2>1. s \in Seq(S)
    <3>1. s \in [1 .. n -> S]
      BY <1>1
    <3> HIDE DEF s, S
    <3> QED  BY <1>1, <3>1, SeqDef
  <2> HIDE DEF S, q
  <2>2. SubSeq(s, 1, k) = [i \in 1 .. k |-> s[i]]
    <3> HIDE DEF s, n
    <3> QED  BY <1>1, <1>2, <2>1
  <2>3. \A i \in 1 .. k : s[i] = Line(h, q[i])
    BY <1>1, <1>2
  <2> QED  BY <2>2, <2>3
<1> QED  BY <1>3, <1>4

-----------------------------------------------------------------------------
(* The files a tree has.                                                   *)

\* Files of g that were in h are where they were.
LEMMA FilesStay ==
  ASSUME NEW h, TreeOf(h), FilesPlain(h), NEW g, TreeOf(g), Keeps(h, g) \/ Keeps(g, h),
         NEW x \in FilesIn(g), x \in FilesIn(h)
  PROVE  NamesTo(g, g[x].parent) \in Seq(Names)
<1>1. x \in UsedIn(h) /\ x \in UsedIn(g) /\ h[x].type = "F" /\ g[x].parent = h[x].parent
  BY DEF FilesIn, Keeps
<1> DEFINE p == h[x].parent
<1>2. p \in UsedIn(h) /\ p \in UsedIn(g)
  BY <1>1 DEF TreeOf, ParentKept
<1>3. NamesTo(h, p) \in Seq(Names)
  BY <1>1 DEF FilesPlain
<1> HIDE DEF p
<1>4. NamesTo(g, p) = NamesTo(h, p)
  BY <1>2, NamesSame
<1> QED  BY <1>1, <1>3, <1>4 DEF p

\* The paths that files have.
LEMMA FilePathsAre ==
  ASSUME NEW h
  PROVE  DOMAIN FileBag(h) = {NamesTo(h, x) : x \in FilesIn(h)}
  BY FilesAre

LEMMA SameFilePaths ==
  ASSUME NEW h, NEW g, FileBag(g) = FileBag(h)
  PROVE  {NamesTo(g, x) : x \in FilesIn(g)} = {NamesTo(h, x) : x \in FilesIn(h)}
<1>1. DOMAIN FileBag(h) = {NamesTo(h, x) : x \in FilesIn(h)}
  BY FilePathsAre
<1>2. DOMAIN FileBag(g) = {NamesTo(g, x) : x \in FilesIn(g)}
  BY FilePathsAre
<1> QED  BY <1>1, <1>2

\* Trees with the same bag of files have the same files in the same places.
LEMMA SameFiles ==
  ASSUME NEW h, TreeOf(h), NEW g, TreeOf(g), FileBag(g) = FileBag(h)
  PROVE  \A x \in FilesIn(g) : \E y \in FilesIn(h) :
           /\ g[x].name = h[y].name
           /\ NamesTo(g, g[x].parent) = NamesTo(h, h[y].parent)
<1>1. {NamesTo(g, x) : x \in FilesIn(g)} = {NamesTo(h, x) : x \in FilesIn(h)}
  BY SameFilePaths
<1> TAKE x \in FilesIn(g)
<1>2. x \in UsedIn(g) /\ x # Root /\ g[x].parent \in UsedIn(g)
  BY FileFacts DEF FilesIn, TreeOf, ParentKept
<1>3. PICK y \in FilesIn(h) : NamesTo(g, x) = NamesTo(h, y)
  BY <1>1
<1>4. y \in UsedIn(h) /\ y # Root /\ h[y].parent \in UsedIn(h)
  BY FileFacts DEF FilesIn, TreeOf, ParentKept
<1> DEFINE q == NamesTo(h, h[y].parent)
           b == h[y].name
<1>5. q \in Seq(NodeName) /\ b \in NodeName
  BY <1>4, NamesAreNames, FieldTypes DEF TreeOf, UsedIn
<1>6. NamesTo(h, y) = Append(q, b)
  BY <1>4, NamesStep
<1> HIDE DEF q, b
<1>7. NamesTo(g, g[x].parent) = q /\ g[x].name = b
  BY <1>2, <1>3, <1>5, <1>6, PathOfChild
<1> QED  BY <1>7 DEF q, b

\* mkdir makes no files, and the files keep their paths.
LEMMA MkdirFiles ==
  ASSUME NEW h, TreeOf(h), NEW d \in Dirs(h), NEW toks \in Seq(Token),
         Cardinality(Unused(h)) >= Len(toks), NEW g, g = MkdirFrom(h, d, toks)
  PROVE  \A x \in FilesIn(g) : \E y \in FilesIn(h) :
           /\ g[x].name = h[y].name
           /\ NamesTo(g, g[x].parent) = NamesTo(h, h[y].parent)
<1>1. TreeOf(g)
  BY MkdirTree
<1>2. FileBag(g) = FileBag(h)
  BY MkdirPaths
<1> QED  BY <1>1, <1>2, SameFiles, SMTT(30)

\* So they stay where creat finds them.
LEMMA MkdirPlain ==
  ASSUME NEW h, TreeOf(h), FilesPlain(h), NEW d \in Dirs(h), NEW toks \in Seq(Token),
         Cardinality(Unused(h)) >= Len(toks), NEW g, g = MkdirFrom(h, d, toks)
  PROVE  FilesPlain(g)
<1>1. \A y \in FilesIn(h) : NamesTo(h, h[y].parent) \in Seq(Names)
  BY DEF FilesPlain, FilesIn
<1>2. \A x \in FilesIn(g) : NamesTo(g, g[x].parent) \in Seq(Names)
  BY <1>1, MkdirFiles
<1> QED  BY <1>2 DEF FilesPlain, FilesIn

\* creat in a directory that a pathname leads to.
LEMMA CreatPlain ==
  ASSUME NEW h, TreeOf(h), FilesPlain(h), NEW d \in Dirs(h), NamesTo(h, d) \in Seq(Names),
         Unused(h) # {}, NEW b \in NodeName, NEW g, g = Add(h, d, "F", b)
  PROVE  FilesPlain(g)
<1>1. /\ TreeOf(g) /\ UsedIn(g) = UsedIn(h) \cup {Fresh(h)} /\ Keeps(h, g)
      /\ g[Fresh(h)].parent = d
  BY AddTree
<1> SUFFICES ASSUME NEW x \in UsedIn(g), g[x].type = "F"
             PROVE  NamesTo(g, g[x].parent) \in Seq(Names)
  BY DEF FilesPlain
<1>2. CASE x = Fresh(h)
  BY <1>1, <1>2, NamesSame DEF Dirs
<1>3. CASE x # Fresh(h)
  <2>1. x \in FilesIn(h) /\ x \in FilesIn(g)
    BY <1>1, <1>3 DEF Keeps, FilesIn
  <2> QED  BY <1>1, <2>1, FilesStay
<1> QED  BY <1>2, <1>3

\* rmdir and rm.
LEMMA UnlinkedPlain ==
  ASSUME NEW h, TreeOf(h), FilesPlain(h), NEW x \in UsedIn(h) \ {Root}, h[x].child = NULL,
         NEW g, g = Unlinked(h, x)
  PROVE  FilesPlain(g)
<1>1. TreeOf(g) /\ Keeps(g, h)
  BY UnlinkedTree
<1> SUFFICES ASSUME NEW y \in UsedIn(g), g[y].type = "F"
             PROVE  NamesTo(g, g[y].parent) \in Seq(Names)
  BY DEF FilesPlain
<1>2. y \in FilesIn(h) /\ y \in FilesIn(g)
  BY <1>1 DEF Keeps, FilesIn
<1> QED  BY <1>1, <1>2, FilesStay

\* creat finds its directory by a pathname, or is in the current one.
LEMMA DnodePlain ==
  ASSUME PInv, NEW p \in Paths, ~FollowsFreed(p), dnode(p) # NULL
  PROVE  NamesTo(heap, dnode(p)) \in Seq(Names)
<1>1. TInv /\ TreeOf(heap) /\ (cwd # NULL => NamesTo(heap, cwd) \in Seq(Names))
  BY DEF PInv, TInv
<1>2. CASE Plain(p)
  BY <1>1, <1>2 DEF dnode
<1>3. CASE ~Plain(p)
  <2> DEFINE d == IF p.abs THEN Root ELSE cwd
             toks == DirOf(p).toks
  <2>1. d \in Dirs(heap) /\ toks \in Seq(Token)
    BY <1>1, FoundFacts, PathFacts
  <2>2. dnode(p) = FindFrom(heap, d, toks)
    BY <1>3, PathFacts DEF dnode, findPathnameNode
  <2>3. NamesTo(heap, d) \in Seq(Names)
    <3>1. NamesTo(heap, Root) \in Seq(Names)
      BY <1>1, NamesStep, EmptySeq
    <3>2. ~p.abs => cwd # NULL
      BY DEF FollowsFreed
    <3> QED  BY <1>1, <3>1, <3>2
  <2> HIDE DEF d, toks
  <2> QED  BY <1>1, <2>1, <2>2, <2>3, PlainFind
<1> QED  BY <1>2, <1>3

\* The invariant: every file is where its path leads.
PlainInv == PInv /\ FilesPlain(heap)

\* The commands keep the invariant.
LEMMA PlainStep == PlainInv /\ [Next]_vars => PlainInv'
<1> SUFFICES ASSUME PlainInv, [Next]_vars PROVE PlainInv'
  OBVIOUS
<1> DEFINE Plain3 == FilesPlain(heap)
<1>1. PInv /\ PInv' /\ TInv /\ TreeOf(heap) /\ Plain3
  BY PathStep DEF PlainInv, PInv, TInv
<1>2. ASSUME UNCHANGED heap PROVE Plain3'
  BY <1>1, <1>2 DEF FilesPlain
<1> HIDE DEF Plain3
<1>3. ASSUME UNCHANGED vars \/ Crash \/ Undefined PROVE Plain3'
  BY <1>2, <1>3 DEF vars, Crash, Undefined
<1>4. ASSUME NEW p \in Paths, Mkdir(p) PROVE Plain3'
  <2> DEFINE d == IF p.abs THEN Root ELSE cwd
  <2>1. ASSUME d \in Dirs(heap), Cardinality(Unused(heap)) >= Len(p.toks),
               heap' = MkdirFrom(heap, d, p.toks)
        PROVE  Plain3'
    <3> HIDE DEF d
    <3>1. FilesPlain(heap)
      BY <1>1 DEF Plain3
    <3>2. FilesPlain(heap')
      BY <1>1, <2>1, <3>1, PathFacts, MkdirPlain
    <3> QED  BY <3>2 DEF Plain3
  <2> QED  BY <1>1, <1>3, <1>4, <2>1, MkdirDoes
<1>5. ASSUME NEW p \in Paths, Rmdir(p) PROVE Plain3'
  <2> DEFINE x == findPathnameNode(p)
  <2>1. ASSUME x \in Dirs(heap), heap[x].child = NULL, x # Root, heap' = Unlinked(heap, x)
        PROVE  Plain3'
    <3> HIDE DEF x
    <3>1. FilesPlain(heap')
      BY <1>1, <2>1, UnlinkedPlain DEF Dirs, Plain3
    <3> QED  BY <3>1 DEF Plain3
  <2> QED  BY <1>1, <1>3, <1>5, <2>1, RmdirDoes
<1>6. ASSUME NEW p \in Paths, Creat(p) PROVE Plain3'
  <2> DEFINE d == dnode(p)
  <2>1. ASSUME ~FollowsFreed(p), d \in Dirs(heap), Unused(heap) # {},
               heap' = Add(heap, d, "F", BaseOf(p))
        PROVE  Plain3'
    <3>1. NamesTo(heap, d) \in Seq(Names)
      <4>1. d # NULL
        BY <1>1, <2>1, PointsTo DEF Dirs, Nodes
      <4> QED  BY <1>1, <2>1, <4>1, DnodePlain
    <3> HIDE DEF d
    <3>2. FilesPlain(heap')
      BY <1>1, <2>1, <3>1, PathFacts, CreatPlain DEF Plain3
    <3> QED  BY <3>2 DEF Plain3
  <2> QED  BY <1>1, <1>3, <1>6, <2>1, CreatDoes
<1>7. ASSUME NEW p \in Paths, Rm(p) PROVE Plain3'
  <2>1. ASSUME NEW d \in Dirs(heap), NEW x \in In(heap, d), heap[x].type = "F",
               heap' = Unlinked(heap, x)
        PROVE  Plain3'
    <3>1. x \in UsedIn(heap) \ {Root}
      BY DEF In
    <3>2. heap[x].child = NULL
      BY <1>1, <2>1, <3>1, FileFacts
    <3>3. FilesPlain(heap')
      BY <1>1, <2>1, <3>1, <3>2, UnlinkedPlain DEF Plain3
    <3> QED  BY <3>3 DEF Plain3
  <2> QED  BY <1>1, <1>3, <1>7, <2>1, RmDoes
<1>8. ASSUME NEW p \in Paths, Cd(p) PROVE Plain3'
  BY <1>2, <1>8 DEF Cd, Undefined
<1>9. ASSUME NEW p \in Paths, Ls(p) PROVE Plain3'
  BY <1>3, <1>9 DEF Ls
<1>10. ASSUME Pwd PROVE Plain3'
  BY <1>3, <1>10 DEF Pwd
<1>11. Plain3'
  BY <1>3, <1>4, <1>5, <1>6, <1>7, <1>8, <1>9, <1>10 DEF Next, Command, Ended
<1> QED  BY <1>1, <1>11 DEF PlainInv, Plain3

\* The empty tree has no files.
LEMMA EmptyIsPlain == FilesPlain(EmptyTree) /\ NamesTo(EmptyTree, Root) = <<>>
<1>1. TreeOf(EmptyTree) /\ UsedIn(EmptyTree) = {Root}
  BY EmptyIsTree
<1>2. EmptyTree[Root].type = "D"
  BY <1>1 DEF TreeOf, RootKept
<1> QED  BY <1>1, <1>2, NamesStep DEF FilesPlain

\* The program begins with it.
LEMMA PlainStart == Init => PlainInv
<1> SUFFICES ASSUME Init PROVE PlainInv
  OBVIOUS
<1>1. TInv /\ heap = EmptyTree /\ cwd = Root
  BY InitTree DEF Init
<1>2. NamesTo(heap, cwd) \in Seq(Names)
  BY <1>1, EmptyIsPlain, EmptySeq
<1> QED  BY <1>1, <1>2, EmptyIsPlain DEF PlainInv, PInv

\* A tree that can be written is read back.
LEMMA TreeIsReadBack ==
  ASSUME PlainInv, WellNamed
  PROVE  Sound(heap)
<1>1. TreeOf(heap) /\ FilesPlain(heap)
  BY DEF PlainInv, PInv, TInv
<1>2. NamesWell(heap)
  BY DEF WellNamed, NamesWell, Nodes, Used, UsedIn
<1> QED  BY <1>1, <1>2 DEF Sound

\* Reading back what writeNodes writes of the tree (fileTreeSim.c:349-379) gives
\* the same tree, whatever commands made it and however large it is.
THEOREM RoundTripHolds == Spec => []RoundTrip
<1>1. PlainInv => RoundTrip
  BY TreeIsReadBack, RebuiltSame DEF RoundTrip
<1> QED  BY <1>1, PlainStart, PlainStep, PTL DEF Spec


-----------------------------------------------------------------------------
(* Lines that reload makes a tree of.                                      *)

\* The directories on the way to a directory are there.
LEMMA DirsOnTheWay ==
  ASSUME NEW g, TreeOf(g), NEW d \in Dirs(g), NEW a, Begins(a, NamesTo(g, d))
  PROVE  \E e \in Dirs(g) : NamesTo(g, e) = a
<1> DEFINE Is(b) == \E e \in Dirs(g) : NamesTo(g, e) = b
           S == {x \in UsedIn(g) : x \in Dirs(g) => \A b : Begins(b, NamesTo(g, x)) => Is(b)}
<1>1. Root \in S
  <2>1. Root \in Dirs(g) /\ NamesTo(g, Root) = <<>> /\ Root \in UsedIn(g)
    BY NamesStep DEF TreeOf, RootKept, Dirs
  <2>2. ASSUME NEW b, Begins(b, <<>>) PROVE b = <<>>
    <3>1. b = Cut(<<>>, 0) /\ <<>> \in Seq({}) /\ 0 \in 0 .. Len(<<>>)
      BY <2>2 DEF Begins
    <3>2. b \in Seq({}) /\ Len(b) = 0
      BY <3>1, CutIs
    <3> QED  BY <3>2
  <2> QED  BY <2>1, <2>2
<1>2. ASSUME NEW x \in UsedIn(g) \ {Root}, g[x].parent \in S PROVE x \in S
  <2> SUFFICES ASSUME x \in Dirs(g), NEW b, Begins(b, NamesTo(g, x)) PROVE Is(b)
    OBVIOUS
  <2> DEFINE p == g[x].parent
             s == NamesTo(g, p)
             c == g[x].name
  <2>1. p \in Dirs(g)
    BY DEF TreeOf, ParentKept, Dirs
  <2>2. NamesTo(g, x) = Append(s, c)
    BY NamesStep
  <2>3. s \in Seq(Token) /\ c \in Token
    <3>1. c \in Token
      BY DEF TreeOf, DirNames, Dirs
    <3> QED  BY <2>1, <3>1, NamesAreNames
  <2>4. p \in S
    BY <1>2
  <2> HIDE DEF p, c
  <2>5. Begins(b, s) => Is(b)
    BY <2>1, <2>4
  <2>6. b = NamesTo(g, x) \/ Begins(b, s)
    <3> HIDE DEF s
    <3> QED  BY <2>2, <2>3, BeginsMore
  <2> QED  BY <2>5, <2>6
<1> HIDE DEF S
<1>3. UsedIn(g) \subseteq S
  BY <1>1, <1>2, TreeInduction
<1>4. d \in S
  BY <1>3 DEF Dirs
<1> QED  BY <1>4 DEF S

\* A path is led to, where the lines have a directory that it is in, or what that
\* directory is in.
Led(text, k, toks) ==
  Up(toks) = <<>> \/ \E j \in 1 .. k - 1 : text[j].type = "D" /\ Begins(Up(toks), text[j].toks)

SavedLine == [type : {"D", "F"}, toks : Seq(Token)]

\* Lines that do not need more nodes than there are, and have the directories of
\* a path before it.
Buildable(text) ==
  /\ text \in Seq(SavedLine) /\ Len(text) < MaxNodes
  /\ \A k \in 1 .. Len(text) : Led(text, k, text[k].toks)

\* When the nodes up to k + 1 are used at most, there is another one.
LEMMA RoomLeft ==
  ASSUME NEW g, NEW k \in Nat, k + 2 <= MaxNodes, UsedIn(g) \subseteq 1 .. k + 1
  PROVE  Unused(g) # {} /\ Fresh(g) \in 1 .. k + 2
<1>1. k + 2 \in Addresses /\ k + 2 \notin UsedIn(g)
  BY MaxNodesAssumption DEF Addresses
<1>2. k + 2 \in Unused(g)
  BY <1>1 DEF UsedIn, Unused
<1> DEFINE S == Unused(g)
<1>3. S \subseteq Nat /\ S # {} /\ S \subseteq Addresses
  BY <1>2, AddressFacts DEF Unused
<1> HIDE DEF S
<1>4. \E m \in S : \A i \in S : m <= i
  BY <1>3, LeastNumber
<1>5. Min(S) \in S /\ \A i \in S : Min(S) <= i
  BY <1>4 DEF Min
<1>6. Min(S) \in Addresses /\ Min(S) <= k + 2
  BY <1>2, <1>3, <1>5 DEF S
<1> QED  BY <1>2, <1>6 DEF Fresh, S, Addresses

\* What a line makes of a tree: one node more at most.
Grown(g, f, k) ==
  /\ TreeOf(f) /\ FilesPlain(f) /\ Keeps(g, f) /\ UsedIn(f) \subseteq 1 .. k + 2

LEMMA NothingGrown ==
  ASSUME NEW g, TreeOf(g), FilesPlain(g), NEW k \in Nat, UsedIn(g) \subseteq 1 .. k + 1
  PROVE  Grown(g, g, k)
<1>1. UsedIn(g) \subseteq 1 .. k + 2
  <2>1. 1 .. k + 1 \subseteq 1 .. k + 2
    OBVIOUS
  <2> QED  BY <2>1
<1> QED  BY <1>1 DEF Grown, Keeps

\* A directory made by mkdir.
LEMMA DirGrown ==
  ASSUME NEW g, TreeOf(g), FilesPlain(g), NEW k \in Nat, k + 2 <= MaxNodes,
         UsedIn(g) \subseteq 1 .. k + 1, NEW d \in Dirs(g), NEW tok \in Token,
         NEW t, t = MkdirStep([h |-> g, at |-> d], tok)
  PROVE  /\ Grown(g, t.h, k)
         /\ t.at \in Dirs(t.h) /\ NamesTo(t.h, t.at) = Append(NamesTo(g, d), tok)
<1> DEFINE sub == Subdir(g, d, tok)
           x == Fresh(g)
           f == Add(g, d, "D", tok)
           s == [h |-> g, at |-> d]
<1>0. Unused(g) # {} /\ x \in 1 .. k + 2
  BY RoomLeft
<1>1. NamesTo(t.h, t.at) = Append(NamesTo(g, d), tok)
  <2>1. s.h = g /\ s.at = d
    OBVIOUS
  <2> HIDE DEF s
  <2>2. TreeOf(s.h) /\ s.at \in Dirs(s.h) /\ Unused(s.h) # {} /\ t = MkdirStep(s, tok)
    BY <1>0, <2>1 DEF s
  <2>3. NamesTo(t.h, t.at) = Append(NamesTo(s.h, s.at), tok)
    BY <2>2, MkdirStepPaths
  <2> QED  BY <2>1, <2>3
<1>2. t = IF sub # NULL THEN [h |-> g, at |-> sub] ELSE [h |-> f, at |-> x]
  BY DEF MkdirStep
<1>3. IF sub = NULL THEN \A y \in In(g, d) : ~IsSubdir(g, y, tok)
      ELSE sub \in In(g, d) /\ IsSubdir(g, sub, tok)
  BY SubdirFinds DEF Dirs
<1> HIDE DEF sub, x, f, s
<1>4. CASE sub # NULL
  <2>1. t.h = g /\ t.at = sub
    BY <1>2, <1>4
  <2>2. sub \in Dirs(g)
    BY <1>3, <1>4 DEF In, IsSubdir, Dirs
  <2>3. Grown(g, g, k)
    BY NothingGrown
  <2> QED  BY <1>1, <2>1, <2>2, <2>3
<1>5. CASE sub = NULL
  <2>1. t.h = f /\ t.at = x
    BY <1>2, <1>5
  <2>2. tok \in NodeName
    BY DEF Token, NodeName
  <2>3. /\ TreeOf(f) /\ UsedIn(f) = UsedIn(g) \cup {x} /\ f[x].type = "D" /\ Keeps(g, f)
        /\ x \in Unused(g)
    BY <1>0, <1>3, <1>5, <2>2, AddTree DEF f, x
  <2>4. FilesPlain(f)
    <3> SUFFICES ASSUME NEW y \in UsedIn(f), f[y].type = "F"
                 PROVE  NamesTo(f, f[y].parent) \in Seq(Names)
      BY DEF FilesPlain
    <3>1. y \in UsedIn(g)
      BY <2>3
    <3>2. y \in FilesIn(f) /\ y \in FilesIn(g)
      BY <2>3, <3>1 DEF Keeps, FilesIn
    <3> QED  BY <2>3, <3>2, FilesStay
  <2>5. UsedIn(f) \subseteq 1 .. k + 2
    <3>1. 1 .. k + 1 \subseteq 1 .. k + 2
      OBVIOUS
    <3> QED  BY <1>0, <2>3, <3>1
  <2>6. x \in Dirs(f)
    BY <2>3 DEF Dirs
  <2> QED  BY <1>1, <2>1, <2>3, <2>4, <2>5, <2>6 DEF Grown
<1> QED  BY <1>4, <1>5

\* The line of a directory.
LEMMA DirLine ==
  ASSUME NEW g, TreeOf(g), FilesPlain(g), NEW k \in Nat, k + 2 <= MaxNodes,
         UsedIn(g) \subseteq 1 .. k + 1, NEW toks \in Seq(Token),
         NEW d \in Dirs(g), NamesTo(g, d) = Up(toks),
         NEW f, f = MkdirFrom(g, Root, toks)
  PROVE  Grown(g, f, k) /\ \E e \in Dirs(f) : NamesTo(f, e) = toks
<1>0. f = MkdirState(g, Root, toks).h
  BY MkdirOnWalk DEF MkdirState
<1>1. CASE toks = <<>>
  <2>1. Root \in Dirs(g) /\ NamesTo(g, Root) = <<>>
    BY NamesStep DEF TreeOf, RootKept, Dirs
  <2>2. f = g
    <3>1. MkdirState(g, Root, NamesTo(g, Root)) = [h |-> g, at |-> Root]
      BY <2>1, MkdirGoesDown
    <3> QED  BY <1>0, <1>1, <2>1, <3>1
  <2> QED  BY <1>1, <2>1, <2>2, NothingGrown
<1>2. CASE toks # <<>>
  <2>1. PICK u \in Seq(Token), tok \in Token : toks = Append(u, tok)
    BY <1>2, SequenceEmptyOrAppend
  <2>2. NamesTo(g, d) = u
    BY <2>1, UpBegins
  <2>3. MkdirState(g, Root, toks) = MkdirStep(MkdirState(g, Root, u), tok)
    BY <2>1, MkdirAppend
  <2>4. MkdirState(g, Root, u) = [h |-> g, at |-> d]
    BY <2>2, MkdirGoesDown
  <2> DEFINE t == MkdirStep([h |-> g, at |-> d], tok)
  <2>5. f = t.h
    BY <1>0, <2>3, <2>4
  <2>6. /\ Grown(g, t.h, k)
        /\ t.at \in Dirs(t.h) /\ NamesTo(t.h, t.at) = Append(NamesTo(g, d), tok)
    BY DirGrown
  <2> HIDE DEF t
  <2> QED  BY <2>1, <2>2, <2>5, <2>6
<1> QED  BY <1>1, <1>2

\* The line of a file.
LEMMA FileLine ==
  ASSUME NEW g, TreeOf(g), FilesPlain(g), NEW k \in Nat, k + 2 <= MaxNodes,
         UsedIn(g) \subseteq 1 .. k + 1, NEW line \in SavedLine, line.type = "F",
         NEW f, f = AddLine(g, line)
  PROVE  Grown(g, f, k)
<1> DEFINE p == [abs |-> TRUE, toks |-> line.toks]
           u == DirOf(p).toks
           b == BaseOf(p)
           d == FindFrom(g, Root, u)
<1>1. line.toks \in Seq(Token)
  BY DEF SavedLine
<1>2. u \in Seq(Token) /\ b \in NodeName
  <2>1. CASE line.toks = <<>>
    BY <2>1 DEF DirOf, BaseOf, NodeName
  <2>2. CASE line.toks # <<>>
    <3>1. Front(line.toks) \in Seq(Token) /\ Last(line.toks) \in Token
      BY <1>1, <2>2 DEF Front, Last
    <3> QED  BY <2>2, <3>1 DEF DirOf, BaseOf, NodeName, Token
  <2> QED  BY <2>1, <2>2
<1>3. f = IF d = NULL THEN g ELSE Add(g, d, "F", b)
  BY DEF AddLine
<1>4. Unused(g) # {} /\ Fresh(g) \in 1 .. k + 2
  BY RoomLeft
<1>5. Root \in Dirs(g) /\ NamesTo(g, Root) = <<>>
  BY NamesStep DEF TreeOf, RootKept, Dirs
<1> HIDE DEF p, u, b
<1>6. d \in {NULL} \cup Dirs(g) /\ (d # NULL => NamesTo(g, d) \in Seq(Names))
  BY <1>2, <1>5, FindGivesDir, PlainFind, EmptySeq
<1> HIDE DEF d
<1>7. CASE d = NULL
  BY <1>3, <1>7, NothingGrown
<1>8. CASE d # NULL
  <2>1. f = Add(g, d, "F", b) /\ d \in Dirs(g) /\ NamesTo(g, d) \in Seq(Names)
    BY <1>3, <1>6, <1>8
  <2>2. TreeOf(f) /\ UsedIn(f) = UsedIn(g) \cup {Fresh(g)} /\ Keeps(g, f)
    BY <1>2, <1>4, <2>1, AddTree
  <2>3. FilesPlain(f)
    BY <1>2, <1>4, <2>1, CreatPlain
  <2>4. UsedIn(f) \subseteq 1 .. k + 2
    <3>1. 1 .. k + 1 \subseteq 1 .. k + 2
      OBVIOUS
    <3> QED  BY <1>4, <2>2, <3>1
  <2> QED  BY <2>2, <2>3, <2>4 DEF Grown
<1> QED  BY <1>7, <1>8

\* What the first k lines have made.
Built(g, text, k) ==
  /\ TreeOf(g) /\ FilesPlain(g) /\ UsedIn(g) \subseteq 1 .. k + 1
  /\ \A j \in 1 .. k : text[j].type = "D" => \E e \in Dirs(g) : NamesTo(g, e) = text[j].toks

\* The next line.
LEMMA BuiltMore ==
  ASSUME NEW text, Buildable(text), NEW k \in Nat, k + 1 <= Len(text),
         NEW g, Built(g, text, k), NEW f, f = AddLine(g, text[k + 1])
  PROVE  Built(f, text, k + 1)
<1> DEFINE line == text[k + 1]
           toks == line.toks
<1>1. /\ Len(text) \in Nat /\ k + 1 \in 1 .. Len(text) /\ k + 2 <= MaxNodes /\ 1 .. k \subseteq 1 .. Len(text)
      /\ \A j \in 1 .. Len(text) : text[j] \in SavedLine
  BY MaxNodesAssumption DEF Buildable
<1>2. /\ TreeOf(g) /\ FilesPlain(g) /\ UsedIn(g) \subseteq 1 .. k + 1
      /\ \A j \in 1 .. k : text[j].type = "D" => \E e \in Dirs(g) : NamesTo(g, e) = text[j].toks
  BY DEF Built
<1>3. line \in SavedLine /\ toks \in Seq(Token) /\ line.type \in {"D", "F"}
  BY <1>1 DEF SavedLine
<1>4. Led(text, k + 1, toks)
  BY <1>1 DEF Buildable
<1> HIDE DEF line, toks
<1>5. \E d \in Dirs(g) : NamesTo(g, d) = Up(toks)
  <2>1. CASE Up(toks) = <<>>
    BY <1>2, <2>1, NamesStep DEF TreeOf, RootKept, Dirs
  <2>2. CASE \E j \in 1 .. k : text[j].type = "D" /\ Begins(Up(toks), text[j].toks)
    <3>1. PICK e \in Dirs(g) : Begins(Up(toks), NamesTo(g, e))
      BY <1>2, <2>2
    <3> QED  BY <1>2, <3>1, DirsOnTheWay
  <2>3. (k + 1) - 1 = k
    OBVIOUS
  <2> QED  BY <1>4, <2>1, <2>2, <2>3 DEF Led
<1>6. /\ Grown(g, f, k)
      /\ line.type = "D" => \E e \in Dirs(f) : NamesTo(f, e) = toks
  <2>1. f = AddLine(g, line)
    BY DEF line
  <2>2. CASE line.type = "D"
    <3>1. f = MkdirFrom(g, Root, toks)
      BY <2>1, <2>2 DEF AddLine, toks
    <3> QED  BY <1>1, <1>2, <1>3, <1>5, <3>1, DirLine
  <2>3. CASE line.type = "F"
    <3>1. Grown(g, f, k)
      BY <1>1, <1>2, <1>3, <2>1, <2>3, FileLine
    <3> QED  BY <2>3, <3>1
  <2> QED  BY <1>3, <2>2, <2>3
<1>7. /\ TreeOf(f) /\ FilesPlain(f) /\ Keeps(g, f) /\ UsedIn(f) \subseteq 1 .. (k + 1) + 1
  <2>1. k + 2 = (k + 1) + 1
    OBVIOUS
  <2> QED  BY <1>6, <2>1 DEF Grown
<1>8. ASSUME NEW j \in 1 .. k + 1, text[j].type = "D"
      PROVE  \E e \in Dirs(f) : NamesTo(f, e) = text[j].toks
  <2>1. CASE j = k + 1
    BY <1>6, <1>8, <2>1 DEF line, toks
  <2>2. CASE j # k + 1
    <3>1. j \in 1 .. k
      BY <2>2
    <3>2. PICK e \in Dirs(g) : NamesTo(g, e) = text[j].toks
      BY <1>2, <1>8, <3>1
    <3>3. e \in Dirs(f) /\ NamesTo(f, e) = NamesTo(g, e)
      BY <1>2, <1>7, NamesSame DEF Keeps, Dirs
    <3> QED  BY <3>2, <3>3
  <2> QED  BY <2>1, <2>2
<1> QED  BY <1>7, <1>8 DEF Built

\* reload makes a tree of such lines, and every file is where creat finds it.
LEMMA Builds ==
  ASSUME NEW text, Buildable(text), NEW f, f = Rebuilt(EmptyTree, text)
  PROVE  TreeOf(f) /\ FilesPlain(f)
<1> DEFINE n == Len(text)
<1>1. n \in Nat
  BY DEF Buildable
<1>2. PICK g : /\ g[0] = EmptyTree /\ Rebuilt(EmptyTree, text) = g[n]
               /\ \A k \in Nat : k + 1 <= n => g[k + 1] = AddLine(g[k], text[k + 1])
  BY <1>1, RebuiltSteps
<1> HIDE DEF n
<1> DEFINE K == {k \in Nat : k <= n => Built(g[k], text, k)}
<1>3. 0 \in K
  <2>1. UsedIn(EmptyTree) \subseteq 1 .. 0 + 1
    BY EmptyIsTree DEF Root
  <2>2. Built(EmptyTree, text, 0)
    BY <2>1, EmptyIsTree, EmptyIsPlain DEF Built
  <2> QED  BY <1>2, <2>2
<1>4. ASSUME NEW k \in Nat, k \in K PROVE k + 1 \in K
  <2> SUFFICES ASSUME k + 1 <= n PROVE Built(g[k + 1], text, k + 1)
    OBVIOUS
  <2>1. Built(g[k], text, k)
    BY <1>1, <1>4
  <2>2. g[k + 1] = AddLine(g[k], text[k + 1]) /\ k + 1 <= Len(text)
    BY <1>2 DEF n
  <2> QED  BY <2>1, <2>2, BuiltMore
<1>5. n \in K
  <2> HIDE DEF K
  <2> QED  BY <1>1, <1>3, <1>4, NatRise
<1>6. Built(f, text, n)
  BY <1>1, <1>2, <1>5
<1> QED  BY <1>6 DEF Built

-----------------------------------------------------------------------------
(* What save writes can be built.                                          *)

\* The directory of a node comes before it.
LEMMA ParentFirst ==
  ASSUME NEW h, TreeOf(h), NEW q, InOrder(h, q)
  PROVE  \A i \in 1 .. Len(q) : Place(q, h[q[i]].parent) <= i
<1> DEFINE n == Len(q)
           K == {k \in Nat : \A i \in 1 .. n : i <= k => Place(q, h[q[i]].parent) <= i}
<1>1. /\ n \in Nat /\ Root = 1 /\ Place(q, Root) = Root
      /\ \A i \in 1 .. n : q[i] \in Nodes(h) /\ Place(q, q[i]) = i + 1
  BY PlaceFacts
<1>2. \A i \in 1 .. n : Points(h, Root, q[i]) \/ \E j \in 1 .. n : j < i /\ Points(h, q[j], q[i])
  BY DEF InOrder
<1> HIDE DEF n
<1>3. 0 \in K
  BY <1>1
<1>4. ASSUME NEW k \in Nat, k \in K PROVE k + 1 \in K
  <2> SUFFICES ASSUME NEW i \in 1 .. n, i <= k + 1 PROVE Place(q, h[q[i]].parent) <= i
    OBVIOUS
  <2> DEFINE x == q[i]
  <2>1. x \in Nodes(h) /\ x # NULL /\ x # Root
    BY <1>1, PointsTo
  <2>2. CASE Points(h, Root, x)
    <3>1. h[x].parent = Root
      BY <2>1, <2>2 DEF Points, TreeOf, ChildKept
    <3> QED  BY <1>1, <3>1
  <2>3. ASSUME NEW j \in 1 .. n, j < i, Points(h, q[j], x) PROVE Place(q, h[x].parent) <= i
    <3> DEFINE y == q[j]
    <3>1. y \in Nodes(h) /\ y \in UsedIn(h) /\ y # Root /\ Place(q, y) = j + 1
      BY <1>1 DEF Nodes
    <3>2. CASE h[y].child = x
      <4>1. h[x].parent = y
        BY <2>1, <3>1, <3>2 DEF TreeOf, ChildKept
      <4> HIDE DEF x, y
      <4> QED  BY <1>1, <2>3, <3>1, <4>1
    <3>3. CASE h[y].sibling = x
      <4>1. h[x].parent = h[y].parent
        BY <2>1, <3>1, <3>3 DEF TreeOf, SiblingKept
      <4>2. j <= k
        BY <1>1, <2>3
      <4>3. Place(q, h[y].parent) <= j
        BY <1>4, <4>2
      <4>4. Place(q, h[y].parent) \in Int
        <5>1. h[y].parent \in UsedIn(h)
          BY <3>1 DEF TreeOf, ParentKept
        <5>2. Place(q, h[y].parent) \in 1 .. n + 1
          BY <5>1, PlaceFacts DEF n
        <5> QED  BY <1>1, <5>2
      <4> HIDE DEF x, y, K
      <4> QED  BY <1>1, <2>3, <4>1, <4>3, <4>4
    <3> QED  BY <2>3, <3>2, <3>3 DEF Points
  <2> QED  BY <1>2, <2>2, <2>3
<1>5. n \in K
  <2> HIDE DEF K
  <2> QED  BY <1>1, <1>3, <1>4, NatRise
<1> QED  BY <1>1, <1>5 DEF n

\* Where a line leads: its directory is the node's, or one above that where the
\* name is lost.
LEMMA LineLeads ==
  ASSUME NEW h, TreeOf(h), NEW x \in Nodes(h), NEW p, p = h[x].parent
  PROVE  /\ p \in Dirs(h) /\ NamesTo(h, p) \in Seq(Token)
         /\ Line(h, x) \in SavedLine /\ Line(h, x).type = h[x].type
         /\ Begins(Up(Line(h, x).toks), NamesTo(h, p))
         /\ x \in Dirs(h) => Line(h, x).toks = NamesTo(h, x)
<1> DEFINE s == NamesTo(h, p)
           b == h[x].name
           toks == Line(h, x).toks
<1>1. x \in UsedIn(h) /\ x # Root /\ x \in Addresses
  BY DEF Nodes, UsedIn
<1>2. p \in Dirs(h)
  BY <1>1 DEF TreeOf, ParentKept, Dirs
<1>3. s \in Seq(Token) /\ h[x].type \in {"D", "F"}
  BY <1>1, <1>2, NamesAreNames, FileFacts
<1>4. b \in NodeName
  BY <1>1, FieldTypes DEF TreeOf
<1>5. NamesTo(h, x) = Append(s, b)
  BY <1>1, NamesStep
<1> HIDE DEF s, b
<1>6. toks = ReadOne(s, b) /\ Line(h, x) = [type |-> h[x].type, toks |-> ReadOne(s, b)]
  BY <1>3, <1>4, <1>5, ReadBackMore DEF Line
<1> HIDE DEF toks
<1>7. CASE b \in {"", "/"}
  <2>1. toks = s
    BY <1>6, <1>7 DEF ReadOne
  <2>2. Begins(Up(toks), s)
    BY <1>3, <2>1, UpBegins
  <2>3. x \notin Dirs(h)
    BY <1>1, <1>7, TokensAre DEF b, TreeOf, DirNames, Dirs
  <2> QED  BY <1>2, <1>3, <1>6, <2>1, <2>2, <2>3 DEF s, toks, SavedLine
<1>8. CASE b \notin {"", "/"}
  <2>1. b \in Token
    BY <1>4, <1>8 DEF NodeName, Token
  <2>2. toks = Append(s, b) /\ toks \in Seq(Token)
    BY <1>3, <1>6, <1>8, <2>1, AppendProperties DEF ReadOne
  <2>3. Up(toks) = s
    BY <1>3, <2>1, <2>2, UpBegins
  <2>4. Begins(s, s)
    <3>1. Len(s) \in 0 .. Len(s) /\ Cut(s, Len(s)) = s
      BY <1>3, SubSeqFull DEF Cut
    <3> QED  BY <3>1 DEF Begins
  <2>5. Line(h, x) \in SavedLine /\ Line(h, x).type = h[x].type
    BY <1>3, <1>6, <2>2 DEF SavedLine, toks
  <2> QED  BY <1>2, <1>3, <1>5, <2>2, <2>3, <2>4, <2>5 DEF s, toks
<1> QED  BY <1>7, <1>8

\* What save writes of a tree can be built again, the files without a name
\* included.
LEMMA LinesBuildable ==
  ASSUME NEW h, TreeOf(h)
  PROVE  Buildable(Lines(h))
<1> DEFINE q == Visited(h)
           n == Len(q)
           text == Lines(h)
<1>1. InOrder(h, q) /\ n < MaxNodes
  BY VisitedInOrder DEF InOrder
<1>2. /\ n \in Nat /\ Len(text) = n /\ text = [k \in 1 .. n |-> Line(h, q[k])]
      /\ \A k \in 1 .. n : q[k] \in Nodes(h) /\ text[k] = Line(h, q[k])
  <2> HIDE DEF q
  <2> QED  BY LinesAre DEF q
<1>3. \A i \in 1 .. n : Place(q, h[q[i]].parent) <= i
  <2> HIDE DEF q
  <2> QED  BY <1>1, ParentFirst
<1>4. /\ \A x \in Nodes(h) : Place(q, x) \in 2 .. n + 1
      /\ \A x \in UsedIn(h) : Origin(q, Place(q, x)) = x
  <2> HIDE DEF q
  <2> QED  BY <1>1, PlaceFacts
<1> HIDE DEF q, n, text
<1>5. text \in Seq(SavedLine)
  <2>1. \A k \in 1 .. n : Line(h, q[k]) \in SavedLine
    BY <1>2, LineLeads
  <2>2. text \in [1 .. n -> SavedLine]
    BY <1>2, <2>1
  <2> QED  BY <1>2, <2>2, SeqDef
<1>6. ASSUME NEW k \in 1 .. n PROVE Led(text, k, text[k].toks)
  <2> DEFINE x == q[k]
             p == h[x].parent
             toks == text[k].toks
  <2>1. x \in Nodes(h) /\ toks = Line(h, x).toks
    BY <1>2
  <2>2. p \in Dirs(h) /\ Begins(Up(toks), NamesTo(h, p))
    BY <2>1, LineLeads
  <2>3. Place(q, p) <= k
    BY <1>3
  <2> HIDE DEF x, p, toks
  <2>4. CASE p = Root
    <3>1. Begins(Up(toks), <<>>)
      BY <2>2, <2>4, NamesStep
    <3>2. Up(toks) = <<>>
      BY <3>1, BeginsNothing
    <3> QED  BY <3>2 DEF Led, toks
  <2>5. CASE p # Root
    <3>1. p \in Nodes(h)
      BY <2>2, <2>5 DEF Dirs, Nodes
    <3> DEFINE j == Place(q, p) - 1
    <3>2. j \in 1 .. n /\ j \in 1 .. k - 1 /\ Place(q, p) = j + 1
      BY <1>2, <1>4, <2>3, <3>1
    <3>3. q[j] = p
      <4>1. Origin(q, Place(q, p)) = p /\ Place(q, p) # Root
        BY <1>2, <1>4, <3>1, <3>2 DEF Nodes, Root
      <4> QED  BY <4>1 DEF Origin
    <3> HIDE DEF j
    <3>4. text[j] = Line(h, p)
      BY <1>2, <3>2, <3>3
    <3>5. text[j].type = "D" /\ text[j].toks = NamesTo(h, p)
      BY <2>2, <3>1, <3>4, LineLeads DEF Dirs
    <3> QED  BY <2>2, <3>2, <3>5 DEF Led, toks
  <2> QED  BY <2>4, <2>5
<1> QED  BY <1>1, <1>2, <1>5, <1>6 DEF Buildable, n, text

-----------------------------------------------------------------------------
(* What is left of a text.                                                 *)

\* What is less than a path that is led to is led to.
LEMMA LedLess ==
  ASSUME NEW text \in Seq(SavedLine), NEW k \in 1 .. Len(text), NEW toks \in Seq(Token),
         Led(text, k, toks), NEW t, Begins(Up(t), Up(toks))
  PROVE  Led(text, k, t)
<1>1. CASE Up(toks) = <<>>
  <2>1. Up(t) = <<>>
    BY <1>1, BeginsNothing
  <2> QED  BY <2>1 DEF Led
<1>2. ASSUME NEW j \in 1 .. k - 1, text[j].type = "D", Begins(Up(toks), text[j].toks)
      PROVE  Led(text, k, t)
  <2>1. text[j] \in SavedLine
    <3>1. j \in 1 .. Len(text)
      OBVIOUS
    <3> QED  BY <3>1
  <2>2. text[j].toks \in Seq(Token)
    BY <2>1 DEF SavedLine
  <2>3. Begins(Up(t), text[j].toks)
    BY <1>2, <2>2, BeginsTwice
  <2> QED  BY <1>2, <2>3 DEF Led
<1> QED  BY <1>1, <1>2 DEF Led

\* A path cut short.
LEMMA CutPathsLed ==
  ASSUME NEW text, Buildable(text), NEW f \in Files, NEW k \in 1 .. Len(text),
         NEW t \in CutPaths(f, text, k)
  PROVE  t \in Seq(Token) /\ Led(text, k, t)
<1> DEFINE toks == text[k].toks
           n == Len(toks)
<1>1. /\ text \in Seq(SavedLine) /\ Len(text) \in Nat
      /\ \A j \in 1 .. Len(text) : text[j].toks \in Seq(Token) /\ Led(text, j, text[j].toks)
  <2>1. text \in Seq(SavedLine) /\ \A j \in 1 .. Len(text) : Led(text, j, text[j].toks)
    BY DEF Buildable
  <2>2. \A j \in 1 .. Len(text) : text[j] \in SavedLine
    BY <2>1
  <2>3. \A j \in 1 .. Len(text) : text[j].toks \in Seq(Token)
    BY <2>2 DEF SavedLine
  <2> QED  BY <2>1, <2>3
<1>2. toks \in Seq(Token) /\ n \in Nat /\ Led(text, k, toks)
  BY <1>1
<1>3. \/ t = IF k = 1 THEN <<f>> ELSE text[k - 1].toks
      \/ \E m \in 0 .. n : t = Cut(toks, m)
      \/ \E m \in 1 .. n : \E tok \in Shorter[toks[m]] : t = Append(Cut(toks, m - 1), tok)
  BY DEF CutPaths, Cut
<1> HIDE DEF toks, n
<1>4. CASE k = 1 /\ t = <<f>>
  <2>1. f \in Token
    BY FilesAssumption DEF Token
  <2>2. t = Append(<<>>, f) /\ <<>> \in Seq(Token)
    BY <1>4
  <2>3. Up(t) = <<>> /\ t \in Seq(Token)
    BY <2>1, <2>2, UpBegins, AppendProperties
  <2> QED  BY <2>3 DEF Led
<1>5. CASE k # 1 /\ t = text[k - 1].toks
  <2>1. k - 1 \in 1 .. Len(text) /\ 1 .. (k - 1) - 1 \subseteq 1 .. k - 1
    BY <1>1, <1>5
  <2>2. t \in Seq(Token) /\ Led(text, k - 1, t)
    BY <1>1, <1>5, <2>1
  <2> QED  BY <2>1, <2>2 DEF Led
<1>6. ASSUME NEW m \in 0 .. n, t = Cut(toks, m) PROVE t \in Seq(Token) /\ Led(text, k, t)
  <2>1. t \in Seq(Token) /\ Len(t) = m
    BY <1>2, <1>6, CutIs DEF n
  <2>2. CASE m = 0
    <3>1. t = <<>>
      BY <2>1, <2>2
    <3> QED  BY <2>1, <3>1 DEF Up, Led
  <2>3. CASE m # 0
    <3>1. m \in 1 .. n /\ m - 1 \in 0 .. m
      BY <1>2, <2>3
    <3>2. Up(t) = Cut(toks, m - 1)
      <4>1. t # <<>>
        BY <2>1, <2>3
      <4>2. Cut(Cut(toks, m), m - 1) = Cut(toks, m - 1)
        BY <1>2, <3>1, CutTwice DEF n
      <4> QED  BY <1>6, <2>1, <4>1, <4>2 DEF Up
    <3>3. Begins(Up(t), Up(toks))
      BY <1>2, <3>1, <3>2, CutUp DEF n
    <3> QED  BY <1>1, <1>2, <2>1, <3>3, LedLess
  <2> QED  BY <2>2, <2>3
<1>7. ASSUME NEW m \in 1 .. n, NEW tok \in Shorter[toks[m]], t = Append(Cut(toks, m - 1), tok)
      PROVE  t \in Seq(Token) /\ Led(text, k, t)
  <2>1. tok \in Token
    <3>1. toks[m] \in Token
      BY <1>2 DEF n
    <3> QED  BY <3>1, ShorterAssumption DEF Token
  <2>2. Cut(toks, m - 1) \in Seq(Token)
    <3>1. m - 1 \in 0 .. n
      BY <1>2
    <3> QED  BY <1>2, <3>1, CutIs DEF n
  <2>3. t \in Seq(Token) /\ Up(t) = Cut(toks, m - 1)
    BY <1>7, <2>1, <2>2, UpBegins, AppendProperties
  <2>4. Begins(Up(t), Up(toks))
    BY <1>2, <2>3, CutUp DEF n
  <2> QED  BY <1>1, <1>2, <2>3, <2>4, LedLess
<1> QED  BY <1>3, <1>4, <1>5, <1>6, <1>7

\* Lines of a text, and a line more that is led to.
LEMMA CutBuildable ==
  ASSUME NEW text, Buildable(text), NEW k \in 0 .. Len(text)
  PROVE  Buildable(Cut(text, k))
<1> DEFINE c == Cut(text, k)
<1>1. text \in Seq(SavedLine) /\ Len(text) \in Nat /\ Len(text) < MaxNodes /\ MaxNodes \in Nat
  BY MaxNodesAssumption DEF Buildable
<1>2. c \in Seq(SavedLine) /\ Len(c) = k /\ \A i \in 1 .. k : c[i] = text[i]
  BY <1>1, CutIs
<1> HIDE DEF c
<1>3. ASSUME NEW i \in 1 .. k PROVE Led(c, i, c[i].toks)
  <2>1. i \in 1 .. Len(text) /\ c[i] = text[i] /\ \A j \in 1 .. i - 1 : c[j] = text[j]
    BY <1>1, <1>2
  <2>2. Led(text, i, text[i].toks)
    BY <2>1 DEF Buildable
  <2> QED  BY <2>1, <2>2 DEF Led
<1>4. k < MaxNodes
  BY <1>1
<1> QED  BY <1>2, <1>3, <1>4 DEF Buildable, c

LEMMA MoreBuildable ==
  ASSUME NEW text, Buildable(text), NEW k \in 1 .. Len(text),
         NEW line \in SavedLine, Led(text, k, line.toks)
  PROVE  Buildable(Append(Cut(text, k - 1), line))
<1> DEFINE c == Cut(text, k - 1)
           t == Append(c, line)
<1>1. /\ text \in Seq(SavedLine) /\ Len(text) \in Nat /\ Len(text) < MaxNodes /\ MaxNodes \in Nat
      /\ k - 1 \in 0 .. Len(text)
  BY MaxNodesAssumption DEF Buildable
<1>2. c \in Seq(SavedLine) /\ Len(c) = k - 1 /\ \A i \in 1 .. k - 1 : c[i] = text[i]
  BY <1>1, CutIs
<1>3. Buildable(c)
  BY <1>1, CutBuildable
<1> HIDE DEF c
<1>4. t \in Seq(SavedLine) /\ Len(t) = k /\ t[k] = line /\ \A i \in 1 .. k - 1 : t[i] = c[i]
  BY <1>2, AppendProperties
<1> HIDE DEF t
<1>5. \A i \in 1 .. k - 1 : t[i] = text[i]
  BY <1>2, <1>4
<1>6. ASSUME NEW i \in 1 .. k PROVE Led(t, i, t[i].toks)
  <2>1. CASE i = k
    BY <1>4, <1>5, <2>1 DEF Led
  <2>2. CASE i # k
    <3>1. i \in 1 .. k - 1 /\ \A j \in 1 .. i - 1 : j \in 1 .. k - 1
      BY <2>2
    <3>2. Led(c, i, c[i].toks)
      BY <1>2, <1>3, <3>1 DEF Buildable
    <3> QED  BY <1>4, <3>1, <3>2 DEF Led
  <2> QED  BY <2>1, <2>2
<1>7. k < MaxNodes
  BY <1>1
<1> QED  BY <1>4, <1>6, <1>7 DEF Buildable, c, t

\* What a write that fails leaves can be built, and all but its last line is
\* what was to be written.
LEMMA BeginningsAre ==
  ASSUME NEW text, Buildable(text), NEW f \in Files, NEW t \in Beginnings(f, text)
  PROVE  /\ Buildable(t)
         /\ t # <<>> => \E k \in 0 .. Len(text) : Front(t) = Cut(text, k)
<1>1. /\ text \in Seq(SavedLine) /\ Len(text) \in Nat
      /\ \A j \in 1 .. Len(text) : text[j] \in SavedLine
  <2>1. text \in Seq(SavedLine)
    BY DEF Buildable
  <2> QED  BY <2>1
<1>2. \/ \E k \in 0 .. Len(text) - 1 : t = Cut(text, k)
      \/ \E k \in 1 .. Len(text) : \E toks \in CutPaths(f, text, k) :
           t = Append(Cut(text, k - 1), [type |-> text[k].type, toks |-> toks])
  BY DEF Beginnings, Cut
<1>3. ASSUME NEW k \in 0 .. Len(text) - 1, t = Cut(text, k)
      PROVE  Buildable(t) /\ (t # <<>> => \E m \in 0 .. Len(text) : Front(t) = Cut(text, m))
  <2>1. k \in 0 .. Len(text)
    BY <1>1
  <2>2. Buildable(t)
    BY <1>3, <2>1, CutBuildable
  <2>3. t \in Seq(SavedLine) /\ Len(t) = k
    BY <1>1, <1>3, <2>1, CutIs
  <2>4. ASSUME t # <<>> PROVE \E m \in 0 .. Len(text) : Front(t) = Cut(text, m)
    <3>1. k - 1 \in 0 .. k /\ k - 1 \in 0 .. Len(text)
      BY <1>1, <2>3, <2>4
    <3>2. Front(t) = Cut(t, k - 1)
      BY <2>3 DEF Front, Cut
    <3>3. Cut(Cut(text, k), k - 1) = Cut(text, k - 1)
      BY <1>1, <2>1, <3>1, CutTwice
    <3> QED  BY <1>3, <3>1, <3>2, <3>3
  <2> QED  BY <2>2, <2>4
<1>4. ASSUME NEW k \in 1 .. Len(text), NEW toks \in CutPaths(f, text, k),
             t = Append(Cut(text, k - 1), [type |-> text[k].type, toks |-> toks])
      PROVE  Buildable(t) /\ \E m \in 0 .. Len(text) : Front(t) = Cut(text, m)
  <2> DEFINE line == [type |-> text[k].type, toks |-> toks]
  <2>1. toks \in Seq(Token) /\ Led(text, k, toks)
    BY CutPathsLed
  <2>2. line \in SavedLine /\ line.toks = toks
    BY <1>1, <2>1 DEF SavedLine
  <2>3. t = Append(Cut(text, k - 1), line)
    BY <1>4
  <2> HIDE DEF line
  <2>4. Buildable(t)
    BY <2>1, <2>2, <2>3, MoreBuildable
  <2>5. k - 1 \in 0 .. Len(text)
    BY <1>1
  <2>6. Cut(text, k - 1) \in Seq(SavedLine)
    BY <1>1, <2>5, CutIs
  <2>7. t # <<>> /\ Up(t) = Cut(text, k - 1)
    <3>1. t # <<>>
      BY <2>2, <2>3, <2>6, AppendProperties
    <3> DEFINE c == Cut(text, k - 1)
    <3>2. c \in Seq(SavedLine)
      BY <2>6
    <3> HIDE DEF c
    <3>3. \A e \in SavedLine : Up(Append(c, e)) = c
      BY <3>2, UpBegins
    <3>4. Up(t) = c
      BY <2>2, <2>3, <3>3 DEF c
    <3> QED  BY <3>1, <3>4 DEF c
  <2>8. Front(t) = Cut(text, k - 1)
    BY <2>7 DEF Up, Front, Cut
  <2> QED  BY <2>4, <2>5, <2>8
<1> QED  BY <1>2, <1>3, <1>4

-----------------------------------------------------------------------------
(* The files on disk.                                                      *)

\* What save writes of a tree is the text of a tree.
LEMMA LinesAreATree ==
  ASSUME NEW h, Sound(h)
  PROVE  IsATree(Lines(h)) /\ Lines(h) # NoFile
<1> DEFINE s == Lines(h)
<1>0. TreeOf(h) /\ NamesWell(h)
  BY DEF Sound
<1>1. s \in Seq(SavedLine)
  BY <1>0, LinesBuildable DEF Buildable
<1>2. s # NoFile
  BY <1>1, NoFileAssumption DEF SavedLine, Token
<1>3. \A k \in DOMAIN s : <<>> # s[k].toks
  <2> DEFINE q == Visited(h)
  <2>1. \A k \in DOMAIN s : q[k] \in Nodes(h) /\ s[k] = Line(h, q[k])
    <3> HIDE DEF q
    <3> QED  BY <1>0, LinesAre DEF q
  <2> HIDE DEF q, s
  <2>2. ASSUME NEW x \in Nodes(h) PROVE <<>> # Line(h, x).toks
    <3>1. x \in UsedIn(h) /\ x # Root
      BY DEF Nodes
    <3>2. Line(h, x) = [type |-> h[x].type, toks |-> NamesTo(h, x)]
      BY <1>0, <3>1, LineIs
    <3>3. NamesTo(h, x) # <<>>
      BY <1>0, <3>1, PathNotEmpty
    <3> QED  BY <3>2, <3>3
  <2> QED  BY <2>1, <2>2
<1>4. Lines(Rebuilt(EmptyTree, s)) = s
  BY RebuiltSame
<1> HIDE DEF s
<1>5. IsATree(s)
  BY <1>3, <1>4 DEF IsATree
<1> QED  BY <1>2, <1>5 DEF s

\* The text of a tree that is not empty.
Saved(text) == \E h : Sound(h) /\ h[Root].child # NULL /\ text = Lines(h)

LEMMA SavedIs ==
  ASSUME NEW h, Sound(h), h[Root].child # NULL
  PROVE  Lines(h) # <<>>
<1> DEFINE q == Visited(h)
           n == Len(q)
<1>1. TreeOf(h) /\ InOrder(h, q)
  BY VisitedInOrder DEF Sound
<1>2. n \in Nat /\ Len(Lines(h)) = n
  <2> HIDE DEF q
  <2> QED  BY <1>1, LinesAre DEF q
<1>3. \E i \in 1 .. n : q[i] = h[Root].child
  BY <1>1, PointsTo DEF InOrder
<1> HIDE DEF q, n
<1> QED  BY <1>2, <1>3

\* A text that a write has left unfinished: all but its last line is a tree's.
Unfinished(text) == text = <<>> \/ \E h : Sound(h) /\ Front(text) = Lines(h)

\* The invariant: what every file is, ...
DiskInv ==
  /\ DOMAIN disk = Files /\ DOMAIN left = Files
  /\ \A f \in Files : /\ disk[f] # NoFile => Buildable(disk[f])
                      /\ left[f] = "whole" => disk[f] # NoFile /\ Saved(disk[f])
                      /\ left[f] = "cut" => Unfinished(disk[f])

\* ... what save has under way, ...
OpenInv ==
  fp # NoFile =>
    /\ fp \in Files /\ status \in {"saving", "quitting"} /\ (status = "quitting" => fp = Autosave)
    /\ heap[Root].child # NULL
    /\ left[fp] \in {"cut", "unnamed"} /\ (left[fp] = "cut" => Sound(heap))

\* ... and what quit has left.
LastInv ==
  status = "exited" /\ heap[Root].child # NULL /\ left[Autosave] = "whole" =>
    Sound(heap) /\ disk[Autosave] = Lines(heap)

TreeInv ==
  /\ TreeOf(heap) /\ FilesPlain(heap)
  /\ cwd \in {NULL} \cup Dirs(heap)
  /\ cwd # NULL => NamesTo(heap, cwd) \in Seq(Names)
  /\ status \in {"running", "crashed", "undefined", "exited", "saving", "quitting"}

SInv == TreeInv /\ DiskInv /\ OpenInv /\ LastInv

\* While the commands run these are the invariants of FileTree.
LEMMA TreeInvIs ==
  /\ TreeInv /\ status \in {"running", "crashed", "undefined"} => PlainInv
  /\ PlainInv => TreeInv
  BY DEF TreeInv, PlainInv, PInv, TInv

\* What can be written is read back.
LEMMA TreeIsWritten ==
  ASSUME TreeInv, WellNamed
  PROVE  Sound(heap)
<1>1. TreeOf(heap) /\ FilesPlain(heap)
  BY DEF TreeInv
<1>2. NamesWell(heap)
  BY DEF WellNamed, NamesWell, Nodes, Used, UsedIn
<1> QED  BY <1>1, <1>2 DEF Sound

\* The program begins so.
LEMMA SaveBegins == SInit => SInv
<1> SUFFICES ASSUME SInit PROVE SInv
  OBVIOUS
<1>1. TreeInv /\ status = "running"
  BY PlainStart, TreeInvIs DEF SInit, Init
<1>2. DOMAIN disk = Files /\ \A f \in Files : disk[f] = NoFile
  BY DEF SInit
<1>3. DOMAIN left = Files /\ (\A f \in Files : left[f] = "none") /\ fp = NoFile
  BY DEF SInit
<1> QED  BY <1>1, <1>2, <1>3 DEF SInv, DiskInv, OpenInv, LastInv

\* The commands of FileTree do not touch the files.
LEMMA CommandKeeps ==
  ASSUME SInv, Command, UNCHANGED <<disk, fp, left>>
  PROVE  SInv'
<1>1. status = "running"
  BY DEF Command, Pwd, Mkdir, Rmdir, Cd, Ls, Creat, Rm
<1>2. PlainInv
  BY <1>1, TreeInvIs DEF SInv
<1>3. PlainInv'
  BY <1>2, PlainStep DEF Next
<1>4. TreeInv' /\ status' # "exited"
  BY <1>3 DEF PlainInv, PInv, TInv, TreeInv
<1>5. fp = NoFile
  BY <1>1 DEF SInv, OpenInv
<1> QED  BY <1>4, <1>5 DEF SInv, DiskInv, OpenInv, LastInv

\* The same files, and the same tree or none that has to be on disk.
LEMMA DiskStays ==
  ASSUME SInv, UNCHANGED <<disk, left>>, fp' = NoFile, status' # "exited"
  PROVE  DiskInv' /\ OpenInv' /\ LastInv'
  BY DEF SInv, DiskInv, OpenInv, LastInv

\* save and quit, up to fopen.
LEMMA SaveKeeps ==
  ASSUME SInv, NEW f \in Files, NEW by, SaveThen(f, by),
         by = "saving" \/ (by = "quitting" /\ f = Autosave)
  PROVE  SInv'
<1>0. by \in {"saving", "quitting"} /\ Through[by] \in {"running", "exited"} /\ status = "running"
  BY DEF Through, SaveThen
<1>1. TreeInv' /\ heap' = heap
  BY <1>0 DEF SInv, TreeInv, SaveThen
<1>2. fp = NoFile
  BY <1>0 DEF SInv, OpenInv
<1>3. CASE heap[Root].child = NULL /\ UNCHANGED <<disk, fp, left>>
  BY <1>1, <1>2, <1>3 DEF SInv, DiskInv, OpenInv, LastInv
<1>4. CASE status' = "crashed" /\ UNCHANGED <<disk, fp, left>>
  BY <1>1, <1>2, <1>4, DiskStays DEF SInv
<1>5. CASE /\ heap[Root].child # NULL /\ disk' = [disk EXCEPT ![f] = <<>>]
           /\ left' = [left EXCEPT ![f] = IF WellNamed THEN "cut" ELSE "unnamed"]
           /\ fp' = f /\ status' = by
  <2>1. DOMAIN disk = Files /\ DOMAIN left = Files
    BY DEF SInv, DiskInv
  <2>2. /\ DOMAIN disk' = Files /\ DOMAIN left' = Files
        /\ disk'[f] = <<>> /\ left'[f] = IF WellNamed THEN "cut" ELSE "unnamed"
        /\ \A e \in Files \ {f} : disk'[e] = disk[e] /\ left'[e] = left[e]
    BY <1>5, <2>1
  <2>3. Buildable(<<>>) /\ Unfinished(<<>>)
    BY MaxNodesAssumption DEF Buildable, Unfinished
  <2>4. DiskInv'
    <3>1. \A e \in Files \ {f} : /\ disk'[e] # NoFile => Buildable(disk'[e])
                                 /\ left'[e] = "whole" => disk'[e] # NoFile /\ Saved(disk'[e])
                                 /\ left'[e] = "cut" => Unfinished(disk'[e])
      BY <2>2 DEF SInv, DiskInv
    <3>2. left'[f] # "whole"
      BY <2>2
    <3> QED  BY <2>2, <2>3, <3>1, <3>2 DEF DiskInv
  <2>5. OpenInv'
    <3>1. WellNamed => Sound(heap)
      BY TreeIsWritten DEF SInv
    <3>2. left'[f] \in {"cut", "unnamed"} /\ (left'[f] = "cut" => Sound(heap'))
      BY <1>1, <2>2, <3>1
    <3> QED  BY <1>0, <1>1, <1>5, <3>2 DEF OpenInv
  <2>6. LastInv'
    BY <1>0, <1>5 DEF LastInv
  <2> QED  BY <1>1, <2>4, <2>5, <2>6 DEF SInv
<1> QED  BY <1>3, <1>4, <1>5 DEF SaveThen

\* What is left of a text when its write fails.
LEMMA LeftUnfinished ==
  ASSUME NEW h, TreeOf(h), NEW f \in Files, NEW t \in Beginnings(f, Lines(h))
  PROVE  Buildable(t) /\ (Sound(h) => Unfinished(t))
<1> DEFINE text == Lines(h)
<1>1. Buildable(text)
  BY LinesBuildable
<1>2. t \in Beginnings(f, text)
  OBVIOUS
<1> HIDE DEF text
<1>3. Buildable(t) /\ (t # <<>> => \E k \in 0 .. Len(text) : Front(t) = Cut(text, k))
  BY <1>1, <1>2, BeginningsAre
<1>4. ASSUME Sound(h), t # <<>> PROVE \E g : Sound(g) /\ Front(t) = Lines(g)
  <2>1. PICK k \in 0 .. Len(text) : Front(t) = Cut(text, k)
    BY <1>3, <1>4
  <2>2. PICK g : Sound(g) /\ Lines(g) = SubSeq(Lines(h), 1, k)
    BY <1>4, <2>1, FirstLines DEF text
  <2> QED  BY <2>1, <2>2 DEF Cut, text
<1> QED  BY <1>3, <1>4 DEF Unfinished

\* The write, whole or not.
LEMMA WriteKeeps ==
  ASSUME SInv, Write
  PROVE  SInv'
<1> DEFINE f == fp
<1>1. /\ f # NoFile /\ f \in Files /\ status \in {"saving", "quitting"} /\ (status = "quitting" => f = Autosave)
      /\ heap[Root].child # NULL
      /\ left[f] \in {"cut", "unnamed"} /\ (left[f] = "cut" => Sound(heap))
  BY DEF SInv, OpenInv, Write
<1>2. /\ fp' = NoFile /\ heap' = heap /\ cwd' = cwd
      /\ status' = IF status = "saving" THEN "running" ELSE "exited"
  BY <1>1 DEF Write, Through
<1>3. TreeInv' /\ OpenInv'
  BY <1>2 DEF SInv, TreeInv, OpenInv
<1>4. /\ DOMAIN disk = Files /\ DOMAIN left = Files /\ TreeOf(heap)
      /\ \A e \in Files : /\ disk[e] # NoFile => Buildable(disk[e])
                          /\ left[e] = "whole" => disk[e] # NoFile /\ Saved(disk[e])
                          /\ left[e] = "cut" => Unfinished(disk[e])
  BY DEF SInv, DiskInv, TreeInv
<1>5. \/ /\ disk' = [disk EXCEPT ![f] = Lines(heap)]
         /\ left' = IF left[f] = "cut" THEN [left EXCEPT ![f] = "whole"] ELSE left
      \/ /\ \E text \in Beginnings(f, Lines(heap)) : disk' = [disk EXCEPT ![f] = text]
         /\ left' = left
  BY DEF Write, Written
<1> HIDE DEF f
<1>6. CASE /\ disk' = [disk EXCEPT ![f] = Lines(heap)]
           /\ left' = IF left[f] = "cut" THEN [left EXCEPT ![f] = "whole"] ELSE left
  <2>1. /\ DOMAIN disk' = Files /\ DOMAIN left' = Files
        /\ disk'[f] = Lines(heap) /\ left'[f] = IF left[f] = "cut" THEN "whole" ELSE "unnamed"
        /\ \A e \in Files \ {f} : disk'[e] = disk[e] /\ left'[e] = left[e]
    BY <1>1, <1>4, <1>6
  <2>2. Buildable(Lines(heap))
    BY <1>4, LinesBuildable
  <2>3. left'[f] = "whole" => Sound(heap) /\ Lines(heap) # NoFile /\ Saved(Lines(heap))
    BY <1>1, <2>1, LinesAreATree DEF Saved
  <2>4. DiskInv'
    <3>1. \A e \in Files \ {f} : /\ disk'[e] # NoFile => Buildable(disk'[e])
                                 /\ left'[e] = "whole" => disk'[e] # NoFile /\ Saved(disk'[e])
                                 /\ left'[e] = "cut" => Unfinished(disk'[e])
      BY <1>4, <2>1
    <3>2. left'[f] # "cut"
      BY <2>1
    <3> QED  BY <2>1, <2>2, <2>3, <3>1, <3>2 DEF DiskInv
  <2>5. LastInv'
    <3>1. status' = "exited" => f = Autosave
      BY <1>1, <1>2
    <3> QED  BY <1>2, <2>1, <2>3, <3>1 DEF LastInv
  <2> QED  BY <1>3, <2>4, <2>5 DEF SInv
<1>7. ASSUME NEW text \in Beginnings(f, Lines(heap)), disk' = [disk EXCEPT ![f] = text], left' = left
      PROVE  SInv'
  <2>1. /\ DOMAIN disk' = Files /\ DOMAIN left' = Files
        /\ disk'[f] = text /\ left'[f] \in {"cut", "unnamed"}
        /\ \A e \in Files \ {f} : disk'[e] = disk[e] /\ left'[e] = left[e]
    BY <1>1, <1>4, <1>7
  <2>2. Buildable(text) /\ (Sound(heap) => Unfinished(text))
    BY <1>1, <1>4, LeftUnfinished
  <2>3. left'[f] = "cut" => Unfinished(text)
    BY <1>1, <1>7, <2>2
  <2>4. DiskInv'
    <3>1. \A e \in Files \ {f} : /\ disk'[e] # NoFile => Buildable(disk'[e])
                                 /\ left'[e] = "whole" => disk'[e] # NoFile /\ Saved(disk'[e])
                                 /\ left'[e] = "cut" => Unfinished(disk'[e])
      BY <1>4, <2>1
    <3>2. left'[f] # "whole"
      BY <2>1
    <3> QED  BY <2>1, <2>2, <2>3, <3>1, <3>2 DEF DiskInv
  <2>5. LastInv'
    <3>1. status' = "exited" => f = Autosave
      BY <1>1, <1>2
    <3> QED  BY <2>1, <3>1 DEF LastInv
  <2> QED  BY <1>3, <2>4, <2>5 DEF SInv
<1> QED  BY <1>5, <1>6, <1>7

\* The empty tree.
LEMMA EmptyIsSound == Sound(EmptyTree) /\ Lines(EmptyTree) = <<>>
<1>1. Sound(EmptyTree)
  BY EmptyIsTree, EmptyIsPlain DEF Sound, NamesWell, Nodes
<1>2. Lines(EmptyTree) = <<>>
  <2> DEFINE q == Visited(EmptyTree)
  <2>1. /\ Len(q) \in Nat /\ Lines(EmptyTree) = [k \in 1 .. Len(q) |-> Line(EmptyTree, q[k])]
        /\ \A k \in 1 .. Len(q) : q[k] \in Nodes(EmptyTree)
    <3> HIDE DEF q
    <3> QED  BY EmptyIsTree, LinesAre DEF q
  <2>2. Nodes(EmptyTree) = {}
    BY EmptyIsTree DEF Nodes
  <2> HIDE DEF q
  <2>3. Len(q) = 0
    BY <2>1, <2>2
  <2> QED  BY <2>1, <2>3
<1> QED  BY <1>1, <1>2

\* What reload makes, of a file or of none.
LEMMA ReloadMakes ==
  ASSUME SInv, NEW f \in Files, Reload(f)
  PROVE  \/ Crash
         \/ /\ TreeOf(heap') /\ FilesPlain(heap') /\ cwd' = Root /\ status' = status
            /\ left[f] = "whole" => Lines(heap') \in {<<>>, disk[f]}
<1>1. CASE Crash
  BY <1>1
<1>2. CASE heap' = Emptied /\ cwd' = Root /\ status' = status
  BY <1>2, EmptyIsSound DEF Emptied, Sound
<1>3. CASE disk[f] # NoFile /\ heap' = Rebuilt(Emptied, disk[f]) /\ cwd' = Root /\ status' = status
  <2>1. Buildable(disk[f]) /\ heap' = Rebuilt(EmptyTree, disk[f])
    BY <1>3 DEF SInv, DiskInv, Emptied
  <2>2. TreeOf(heap') /\ FilesPlain(heap')
    BY <2>1, Builds
  <2>3. ASSUME left[f] = "whole" PROVE Lines(heap') = disk[f]
    <3>1. PICK h : Sound(h) /\ disk[f] = Lines(h)
      BY <2>3 DEF SInv, DiskInv, Saved
    <3> QED  BY <2>1, <3>1, RebuiltSame
  <2> QED  BY <1>3, <2>2, <2>3
<1> QED  BY <1>1, <1>2, <1>3 DEF Reload

\* reload.
LEMMA ReloadKeeps ==
  ASSUME SInv, NEW f \in Files, Reload(f)
  PROVE  SInv'
<1>1. status = "running" /\ UNCHANGED <<disk, fp, left>>
  BY DEF Reload
<1>2. fp' = NoFile
  BY <1>1 DEF SInv, OpenInv
<1>3. CASE Crash
  <2>1. TreeInv'
    BY <1>3 DEF SInv, TreeInv, Crash
  <2> QED  BY <1>1, <1>2, <1>3, <2>1, DiskStays DEF Crash, SInv
<1>4. CASE TreeOf(heap') /\ FilesPlain(heap') /\ cwd' = Root /\ status' = status
  <2>1. Root \in Dirs(heap') /\ NamesTo(heap', Root) \in Seq(Names)
    BY <1>4, NamesStep, EmptySeq DEF TreeOf, RootKept, Dirs
  <2>2. TreeInv'
    BY <1>1, <1>4, <2>1 DEF TreeInv
  <2> QED  BY <1>1, <1>2, <1>4, <2>2, DiskStays DEF SInv
<1> QED  BY <1>3, <1>4, ReloadMakes

\* A kill, and a restart.
LEMMA KillKeeps ==
  ASSUME SInv, Kill
  PROVE  SInv'
<1>1. TreeInv'
  BY DEF Kill, SInv, TreeInv
<1> QED  BY <1>1, DiskStays DEF Kill, SInv

LEMMA RestartKeeps ==
  ASSUME SInv, Restart
  PROVE  SInv'
<1>1. TreeOf(heap') /\ FilesPlain(heap') /\ Root \in Dirs(heap') /\ NamesTo(heap', Root) = <<>>
  BY EmptyIsTree, EmptyIsPlain DEF Restart
<1>2. cwd' = Root /\ status' = "running" /\ UNCHANGED <<disk, fp, left>>
  BY DEF Restart
<1>3. TreeInv'
  BY <1>1, <1>2, EmptySeq DEF TreeInv
<1>4. fp = NoFile
  BY DEF Restart, SInv, OpenInv
<1> QED  BY <1>2, <1>3, <1>4, DiskStays DEF SInv

\* Every step.
LEMMA SaveStep == SInv /\ [SNext]_svars => SInv'
<1> SUFFICES ASSUME SInv, [SNext]_svars PROVE SInv'
  OBVIOUS
<1>1. CASE UNCHANGED svars
  BY <1>1 DEF svars, SInv, TreeInv, DiskInv, OpenInv, LastInv
<1>2. CASE Quit
  BY <1>2, SaveKeeps DEF Quit, Files
<1>3. ASSUME NEW f \in Files, Save(f) PROVE SInv'
  BY <1>3, SaveKeeps DEF Save
<1>4. ASSUME NEW f \in Files, Reload(f) PROVE SInv'
  BY <1>4, ReloadKeeps
<1> QED  BY <1>1, <1>2, <1>3, <1>4, CommandKeeps, WriteKeeps, KillKeeps, RestartKeeps DEF SNext

\* What save, reload and quit do keeps the invariant, wherever they are killed
\* and wherever a write ends.
LEMMA SaveInvariance == SSpec => []SInv
  BY SaveBegins, SaveStep, PTL DEF SSpec

\* The tree stays a tree, whatever is left of the file that is reloaded: no line
\* of it makes a directory twice or puts a node outside of the tree, and cd finds
\* what pwd prints (fileTreeSim.c:360-379).
THEOREM ReloadedIsATree == SSpec => [](TreeShape /\ DirsUnique /\ PwdLeadsBack)
<1>1. SInv => TreeShape /\ DirsUnique /\ PwdLeadsBack
  <2> SUFFICES ASSUME SInv PROVE TreeShape /\ DirsUnique /\ PwdLeadsBack
    OBVIOUS
  <2>1. /\ TreeOf(heap) /\ cwd \in {NULL} \cup Dirs(heap)
        /\ cwd # NULL => NamesTo(heap, cwd) \in Seq(Names)
    BY DEF SInv, TreeInv
  <2>2. DirsUnique
    BY <2>1 DEF TreeOf, UniqueDirs, DirsUnique, Used, UsedIn
  <2>3. PwdLeadsBack
    BY <2>1, PathLeadsBack DEF PwdLeadsBack
  <2> QED  BY <2>1, <2>2, <2>3, TreeShapeIs
<1> QED  BY <1>1, SaveInvariance, PTL

\* What is on disk is the text of a tree (fileTreeSim.c:333-379): lines are never
\* lost, doubled or moved, and of a text whose write failed no more than the last
\* line is wrong.
THEOREM DiskIsATreeHolds == SSpec => []DiskIsATree
<1>1. SInv => DiskIsATree
  <2> SUFFICES ASSUME SInv, NEW f \in Files
               PROVE  /\ left[f] = "whole" => disk[f] # <<>> /\ IsATree(disk[f])
                      /\ left[f] = "cut" /\ disk[f] # <<>> => IsATree(Front(disk[f]))
    BY DEF DiskIsATree
  <2>1. ASSUME left[f] = "whole" PROVE disk[f] # <<>> /\ IsATree(disk[f])
    <3>1. PICK h : Sound(h) /\ h[Root].child # NULL /\ disk[f] = Lines(h)
      BY <2>1 DEF SInv, DiskInv, Saved
    <3> QED  BY <3>1, SavedIs, LinesAreATree
  <2>2. ASSUME left[f] = "cut", disk[f] # <<>> PROVE IsATree(Front(disk[f]))
    <3>1. PICK h : Sound(h) /\ Front(disk[f]) = Lines(h)
      BY <2>2 DEF SInv, DiskInv, Unfinished
    <3> QED  BY <3>1, LinesAreATree
  <2> QED  BY <2>1, <2>2
<1> QED  BY <1>1, SaveInvariance, PTL

\* What quit has written is the tree the program had, and the next run can have it
\* back (fileTreeSim.c:333-347 and 396-399).
THEOREM QuitKeepsTreeHolds == SSpec => []QuitKeepsTree
<1>1. SInv => QuitKeepsTree
  <2> SUFFICES ASSUME SInv, status = "exited", heap[Root].child # NULL, left[Autosave] = "whole"
               PROVE  /\ disk[Autosave] # NoFile
                      /\ Listing(Rebuilt(EmptyTree, disk[Autosave])) = Listing(heap)
    BY DEF QuitKeepsTree
  <2>1. Sound(heap) /\ disk[Autosave] = Lines(heap)
    BY DEF SInv, LastInv
  <2> QED  BY <2>1, LinesAreATree, RebuiltSame
<1> QED  BY <1>1, SaveInvariance, PTL

\* After reload of a file that was written nothing is left of the tree before: it
\* is the one in the file, or empty where the file cannot be opened
\* (fileTreeSim.c:360-379).
THEOREM ReloadIsWholeHolds == SSpec => ReloadIsWhole
<1> DEFINE Whole == \A f \in Files :
                      Reload(f) /\ left[f] = "whole" /\ status' = "running" =>
                        Lines(heap') \in {<<>>, disk[f]}
<1>1. SInv => Whole
  BY ReloadMakes DEF Crash
<1>2. SInv /\ [SNext]_svars => [Whole]_svars
  BY <1>1
<1> QED  BY <1>2, SaveInvariance, PTL DEF SSpec, ReloadIsWhole

-----------------------------------------------------------------------------
(* Files without a name.                                                   *)

NoName == {"", "/"}
FilesNamed(h) == \A x \in FilesIn(h) : h[x].name \notin NoName

\* Directories always have names.
LEMMA NamedFiles ==
  ASSUME TreeOf(heap)
  PROVE  WellNamed <=> FilesNamed(heap)
<1>1. \A x \in UsedIn(heap) \ {Root} :
        heap[x].type \in {"D", "F"} /\ (heap[x].type = "D" => heap[x].name \notin {"", "/"})
  BY FileFacts, TokensAre DEF TreeOf, DirNames
<1>2. Root \notin FilesIn(heap) /\ Used = UsedIn(heap)
  BY DEF TreeOf, RootKept, FilesIn, Used, UsedIn
<1> QED  BY <1>1, <1>2 DEF WellNamed, FilesNamed, FilesIn, NoName

\* creat makes no file without a name of a pathname that is not empty.
LEMMA BaseIsName ==
  ASSUME NEW p \in Paths, p.toks # <<>>
  PROVE  BaseOf(p) \notin NoName
<1>1. p.toks \in Seq(Token)
  BY PathFacts
<1>2. Last(p.toks) \in Token
  BY <1>1 DEF Last
<1> QED  BY <1>2, TokensAre DEF BaseOf, NoName

\* What creat adds.
LEMMA CreatAdds ==
  ASSUME NEW h, TreeOf(h), NEW d \in Dirs(h), Unused(h) # {},
         NEW b \in NodeName, NEW g, g = Add(h, d, "F", b)
  PROVE  /\ UsedIn(g) = UsedIn(h) \cup {Fresh(h)} /\ Keeps(h, g)
         /\ g[Fresh(h)].name = b
  BY AddTree

\* Files keep having names when creat makes one more of them.
LEMMA CreatNamed ==
  ASSUME NEW h, TreeOf(h), FilesNamed(h), NEW d \in Dirs(h), Unused(h) # {},
         NEW b \in NodeName \ NoName, NEW g, g = Add(h, d, "F", b)
  PROVE  FilesNamed(g)
<1>1. /\ UsedIn(g) = UsedIn(h) \cup {Fresh(h)} /\ Keeps(h, g)
      /\ g[Fresh(h)].name = b
  <2>1. b \in NodeName
    OBVIOUS
  <2> QED  BY <2>1, CreatAdds
<1> QED  BY <1>1 DEF Keeps, FilesNamed, FilesIn

\* The commands make no files without a name.
LEMMA NamedStep ==
  ASSUME PlainInv, WellNamed, [Next]_vars, \A p \in Paths : p.toks # <<>>
  PROVE  WellNamed'
<1>1. PInv /\ PInv' /\ TInv /\ TInv' /\ TreeOf(heap) /\ TreeOf(heap')
  BY PathStep DEF PlainInv, PInv, TInv
<1>2. FilesNamed(heap)
  BY <1>1, NamedFiles
<1>3. WellNamed' <=> FilesNamed(heap')
  <2>1. \A x \in UsedIn(heap') \ {Root} :
          heap'[x].type \in {"D", "F"} /\ (heap'[x].type = "D" => heap'[x].name \notin {"", "/"})
    BY <1>1, FileFacts, TokensAre DEF TreeOf, DirNames
  <2>2. Root \notin FilesIn(heap') /\ Used' = UsedIn(heap')
    BY <1>1 DEF TreeOf, RootKept, FilesIn, Used, UsedIn
  <2> QED  BY <2>1, <2>2 DEF WellNamed, FilesNamed, FilesIn, NoName
<1> DEFINE Good == FilesNamed(heap')
<1>4. ASSUME UNCHANGED vars \/ Crash \/ Undefined PROVE Good
  BY <1>2, <1>4 DEF vars, Crash, Undefined
<1>5. ASSUME NEW p \in Paths, Mkdir(p) PROVE Good
  <2> DEFINE d == IF p.abs THEN Root ELSE cwd
  <2>1. ASSUME d \in Dirs(heap), Cardinality(Unused(heap)) >= Len(p.toks),
               heap' = MkdirFrom(heap, d, p.toks)
        PROVE  Good
    <3> HIDE DEF d
    <3>1. \A x \in FilesIn(heap') : \E y \in FilesIn(heap) : heap'[x].name = heap[y].name
      BY <1>1, <2>1, PathFacts, MkdirFiles
    <3> QED  BY <1>2, <3>1 DEF FilesNamed
  <2> HIDE DEF Good
  <2> QED  BY <1>1, <1>4, <1>5, <2>1, MkdirDoes
<1>6. ASSUME NEW x \in UsedIn(heap) \ {Root}, heap[x].child = NULL, heap' = Unlinked(heap, x)
      PROVE  Good
  <2>1. Keeps(heap', heap)
    BY <1>1, <1>6, UnlinkedTree
  <2> QED  BY <1>2, <2>1 DEF Keeps, FilesNamed, FilesIn
<1>7. ASSUME NEW p \in Paths, Rmdir(p) PROVE Good
  <2> DEFINE x == findPathnameNode(p)
  <2>1. ASSUME x \in Dirs(heap), heap[x].child = NULL, x # Root, heap' = Unlinked(heap, x)
        PROVE  Good
    <3> HIDE DEF x, Good
    <3> QED  BY <1>6, <2>1 DEF Dirs
  <2> HIDE DEF Good
  <2> QED  BY <1>1, <1>4, <1>7, <2>1, RmdirDoes
<1>8. ASSUME NEW p \in Paths, Creat(p) PROVE Good
  <2> DEFINE d == dnode(p)
             b == BaseOf(p)
  <2>1. ASSUME d \in Dirs(heap), Unused(heap) # {}, heap' = Add(heap, d, "F", b)
        PROVE  Good
    <3>1. b \in NodeName \ NoName
      BY PathFacts, BaseIsName
    <3> HIDE DEF d, b, Good
    <3> QED  BY <1>1, <1>2, <2>1, <3>1, CreatNamed DEF Good
  <2> HIDE DEF Good
  <2> QED  BY <1>1, <1>4, <1>8, <2>1, CreatDoes
<1>9. ASSUME NEW p \in Paths, Rm(p) PROVE Good
  <2>1. ASSUME NEW e \in Dirs(heap), NEW x \in In(heap, e), heap[x].type = "F",
               heap' = Unlinked(heap, x)
        PROVE  Good
    <3>1. x \in UsedIn(heap) \ {Root}
      BY DEF In
    <3>2. heap[x].child = NULL
      BY <1>1, <2>1, <3>1, FileFacts
    <3> HIDE DEF Good
    <3> QED  BY <1>6, <2>1, <3>1, <3>2
  <2> HIDE DEF Good
  <2> QED  BY <1>1, <1>4, <1>9, <2>1, RmDoes
<1>10. ASSUME NEW p \in Paths, Cd(p) PROVE Good
  BY <1>2, <1>10 DEF Cd, Undefined
<1>11. ASSUME NEW p \in Paths, Ls(p) PROVE Good
  <2> HIDE DEF Good
  <2> QED  BY <1>4, <1>11 DEF Ls
<1>12. ASSUME Pwd PROVE Good
  <2> HIDE DEF Good
  <2> QED  BY <1>4, <1>12 DEF Pwd
<1>13. Good
  <2> HIDE DEF Good
  <2> QED  BY <1>4, <1>5, <1>7, <1>8, <1>9, <1>10, <1>11, <1>12 DEF Next, Command, Ended
<1> QED  BY <1>3, <1>13

\* No file comes to be without a name as long as no pathname is typed that is
\* empty or "/" (fileTreeSim.c:255-286): what RoundTrip asks for.
THEOREM AllNamed == Spec /\ (\A p \in Paths : p.toks # <<>>) => []WellNamed
<1> SUFFICES ASSUME \A p \in Paths : p.toks # <<>> PROVE Spec => []WellNamed
  OBVIOUS
<1>1. Init => WellNamed
  <2> SUFFICES ASSUME Init PROVE WellNamed
    OBVIOUS
  <2>1. heap = EmptyTree /\ UsedIn(heap) = {Root}
    BY EmptyIsTree DEF Init
  <2> QED  BY <2>1 DEF WellNamed, Used, UsedIn
<1>2. PlainInv /\ WellNamed /\ [Next]_vars => WellNamed'
  BY NamedStep
<1> QED  BY <1>1, <1>2, PlainStart, PlainStep, PTL DEF Spec

=============================================================================
