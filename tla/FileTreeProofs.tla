--------------------------- MODULE FileTreeProofs ---------------------------
(* Theorems about FileTree for all names, pathnames and numbers of nodes.    *)
EXTENDS FileTree, ListProofs

-----------------------------------------------------------------------------
(* The inductive invariant.                                                *)

UsedIn(h) == Addresses \ Unused(h)

NodeName == Names \cup {"", "/", ".."}

NodeType ==
  [type : {"D", "F", "free"}, name : NodeName,
   parent : 0 .. MaxNodes, child : 0 .. MaxNodes, sibling : 0 .. MaxNodes]

Heap == [{NULL} \cup Addresses -> NodeType]

Typed(h) ==
  /\ h \in Heap
  /\ \A x \in {NULL} \cup Unused(h) : h[x] = Free

RootKept(h) ==
  /\ Root \in UsedIn(h) /\ h[Root].type = "D" /\ h[Root].name = "/"
  /\ h[Root].parent = Root /\ h[Root].sibling = Root

\* A pointer leads to a used node that is a child, or has the same parent.
ChildKept(h) ==
  \A x \in UsedIn(h) : h[x].child # NULL =>
    h[x].child \in UsedIn(h) \ {Root} /\ h[h[x].child].parent = x

SiblingKept(h) ==
  \A x \in UsedIn(h) \ {Root} : h[x].sibling # NULL =>
    h[x].sibling \in UsedIn(h) \ {Root} /\ h[h[x].sibling].parent = h[x].parent

\* No two pointers lead to the same node.
OnePointer(h) ==
  /\ \A x, y \in UsedIn(h) \ {Root} :
       h[x].sibling = h[y].sibling /\ h[x].sibling # NULL => x = y
  /\ \A x \in UsedIn(h), y \in UsedIn(h) \ {Root} :
       h[x].child # NULL => h[x].child # h[y].sibling

ParentKept(h) ==
  \A x \in UsedIn(h) : h[x].parent \in UsedIn(h) /\ h[h[x].parent].type = "D"

\* Tokens of pathnames: mkdir makes directories of these names only.
Token == Names \cup {".."}

DirNames(h) ==
  \A x \in UsedIn(h) \ {Root} : h[x].type = "D" => h[x].name \in Token

\* Nothing is lost: what contains the root and all that is reached from it
\* contains all the used nodes.
Connected(h) ==
  \A S \in SUBSET UsedIn(h) : Root \in S /\ Closed(h, S) => S = UsedIn(h)

UniqueDirs(h) ==
  \A x, y \in UsedIn(h) :
    x # y /\ h[x].type = "D" /\ h[y].type = "D"
          /\ h[x].parent = h[y].parent => h[x].name # h[y].name

TreeOf(h) ==
  /\ Typed(h) /\ RootKept(h) /\ ChildKept(h) /\ SiblingKept(h)
  /\ OnePointer(h) /\ ParentKept(h) /\ DirNames(h) /\ Connected(h) /\ UniqueDirs(h)

Dirs(h) == {x \in UsedIn(h) : h[x].type = "D"}

TInv ==
  /\ TreeOf(heap)
  /\ cwd \in {NULL} \cup Dirs(heap)
  /\ status \in {"running", "crashed", "undefined"}

-----------------------------------------------------------------------------
(* The children of a directory.                                            *)

LEMMA AddressFacts ==
  /\ MaxNodes \in Nat \ {0} /\ NULL \notin Addresses /\ Root \in Addresses
  /\ Addresses \subseteq Nat /\ IsFiniteSet(Addresses) /\ Cardinality(Addresses) = MaxNodes
<1>1. IsFiniteSet(1 .. MaxNodes) /\ Cardinality(1 .. MaxNodes) = MaxNodes
  BY MaxNodesAssumption, FS_Interval
<1> QED  BY <1>1, MaxNodesAssumption DEF NULL, Root, Addresses

\* A part of the addresses is finite, with no more than MaxNodes elements.
LEMMA PartOfAddresses ==
  ASSUME NEW S \in SUBSET Addresses
  PROVE  IsFiniteSet(S) /\ Cardinality(S) \in Nat /\ Cardinality(S) <= MaxNodes
  BY AddressFacts, FS_Subset, FS_CardinalityType

LEMMA FieldTypes ==
  ASSUME NEW h, Typed(h), NEW x \in {NULL} \cup Addresses
  PROVE  /\ h[x].type \in {"D", "F", "free"} /\ h[x].name \in NodeName
         /\ h[x].parent \in 0 .. MaxNodes
         /\ h[x].child \in 0 .. MaxNodes /\ h[x].sibling \in 0 .. MaxNodes
<1>1. h[x] \in NodeType
  BY DEF Typed, Heap
<1> QED  BY <1>1 DEF NodeType

\* The nodes that are in directory d.
In(h, d) == {y \in UsedIn(h) \ {Root} : h[y].parent = d}

\* kids, of length m, is the list of all of them.
KidsAre(h, d, kids, m) ==
  /\ m \in Nat /\ kids \in Seq(In(h, d)) /\ Len(kids) = m /\ DOMAIN kids = 1 .. m
  /\ \A i \in 1 .. m : kids[i] \in In(h, d)
  /\ h[d].child = IF m = 0 THEN NULL ELSE kids[1]
  /\ \A i \in 1 .. m : h[kids[i]].sibling = IF i = m THEN NULL ELSE kids[i + 1]
  /\ \A y \in In(h, d) : \E i \in 1 .. m : kids[i] = y

LEMMA ChildrenAre ==
  ASSUME NEW h, TreeOf(h), NEW d \in UsedIn(h)
  PROVE  \E m : KidsAre(h, d, Children(h, d), m)
<1> DEFINE next == [x \in DOMAIN h |-> h[x].sibling]
           kids == Children(h, d)
           m == Len(kids)
<1>1. /\ DOMAIN h = {NULL} \cup Addresses /\ UsedIn(h) \subseteq Addresses
      /\ DOMAIN next = {NULL} \cup Addresses
      /\ \A x \in UsedIn(h) : next[x] = h[x].sibling
  BY DEF TreeOf, Typed, Heap, UsedIn
<1>2. IsFiniteSet(In(h, d)) /\ Cardinality(In(h, d)) <= MaxNodes /\ MaxNodes \in Nat
  BY <1>1, PartOfAddresses, AddressFacts DEF In
<1>3. /\ NULL \notin In(h, d) /\ In(h, d) \in SUBSET DOMAIN next
      /\ In(h, d) \subseteq UsedIn(h) \ {Root}
  BY <1>1, AddressFacts DEF In
<1>4. h[d].child \in In(h, d) \cup {NULL}
  BY DEF TreeOf, ChildKept, In
<1>5. \A x \in In(h, d) : next[x] \in In(h, d) \cup {NULL}
  BY <1>1, <1>3 DEF TreeOf, SiblingKept, In
<1>6. \A x \in In(h, d) : next[x] = h[d].child => h[d].child = NULL
  BY <1>1, <1>3 DEF TreeOf, OnePointer
<1>7. \A x, y \in In(h, d) : next[x] = next[y] /\ next[x] # NULL => x = y
  BY <1>1, <1>3 DEF TreeOf, OnePointer
<1>8. kids = NodesFrom(h[d].child, next, MaxNodes, NULL)
  BY DEF Children
<1> HIDE DEF next, kids
<1>9. kids \in Seq(In(h, d)) /\ IsList(kids, m, h[d].child, next, NULL)
  BY <1>2, <1>3, <1>4, <1>5, <1>6, <1>7, <1>8, NodesAreList
<1>10. m \in Nat /\ DOMAIN kids = 1 .. m /\ \A i \in 1 .. m : kids[i] \in In(h, d)
  BY <1>9
<1> HIDE DEF m
<1>11. /\ h[d].child = IF m = 0 THEN NULL ELSE kids[1]
       /\ \A i \in 1 .. m : next[kids[i]] = IF i = m THEN NULL ELSE kids[i + 1]
  BY <1>9 DEF IsList
<1>12. \A i \in 1 .. m : h[kids[i]].sibling = IF i = m THEN NULL ELSE kids[i + 1]
  BY <1>1, <1>3, <1>10, <1>11
<1>13. ASSUME NEW y \in In(h, d) PROVE \E i \in 1 .. m : kids[i] = y
  <2> DEFINE K == {kids[i] : i \in 1 .. m}
             S == (UsedIn(h) \ In(h, d)) \cup K
  <2>1. K \subseteq In(h, d)
    BY <1>10
  <2>2. S \subseteq UsedIn(h) /\ Root \in S
    BY <1>3, <2>1 DEF TreeOf, RootKept, In
  <2>3. ASSUME NEW x \in S, h[x].child # NULL PROVE h[x].child \in S
    <3>1. h[x].child \in UsedIn(h) \ {Root} /\ h[h[x].child].parent = x
      BY <2>2, <2>3 DEF TreeOf, ChildKept
    <3>2. CASE x = d
      <4>1. m # 0 /\ h[x].child = kids[1]
        BY <1>11, <2>3, <3>2
      <4>2. 1 \in 1 .. m
        BY <1>10, <4>1
      <4> QED  BY <4>1, <4>2
    <3>3. CASE x # d
      BY <3>1, <3>3 DEF In
    <3> QED  BY <3>2, <3>3
  <2>4. ASSUME NEW x \in S, x # Root, h[x].sibling # NULL PROVE h[x].sibling \in S
    <3>1. x \in UsedIn(h) \ {Root}
      BY <2>2, <2>4
    <3>2. h[x].sibling \in UsedIn(h) \ {Root} /\ h[h[x].sibling].parent = h[x].parent
      BY <2>4, <3>1 DEF TreeOf, SiblingKept
    <3>3. CASE x \in In(h, d)
      <4>1. PICK i \in 1 .. m : x = kids[i]
        BY <3>3
      <4>2. i # m /\ h[x].sibling = kids[i + 1]
        BY <1>12, <2>4, <4>1
      <4>3. i + 1 \in 1 .. m
        BY <1>10, <4>2
      <4> QED  BY <4>2, <4>3
    <3>4. CASE x \notin In(h, d)
      BY <3>1, <3>2, <3>4 DEF In
    <3> QED  BY <3>3, <3>4
  <2> HIDE DEF S
  <2>5. Closed(h, S)
    BY <2>3, <2>4 DEF Closed
  <2>6. S = UsedIn(h)
    BY <2>2, <2>5 DEF TreeOf, Connected
  <2>7. y \in K
    BY <1>3, <2>6 DEF S
  <2> QED  BY <2>7
<1>14. Len(kids) = m /\ kids \in Seq(In(h, d))
  BY <1>9 DEF m
<1>15. KidsAre(h, d, kids, m)
  BY <1>10, <1>11, <1>12, <1>13, <1>14 DEF KidsAre
<1> QED  BY <1>15 DEF kids

\* The first of the positions.
LEMMA FirstOfIs ==
  ASSUME NEW q, NEW m \in Nat, NEW hits \in SUBSET (1 .. m)
  PROVE  IF hits = {} THEN FirstOf(q, hits) = NULL
         ELSE \E i \in hits : FirstOf(q, hits) = q[i]
<1>1. CASE hits = {}
  BY <1>1 DEF FirstOf
<1>2. CASE hits # {}
  <2>1. hits \in SUBSET Nat
    OBVIOUS
  <2>2. Min(hits) \in hits
    BY <1>2, <2>1, LeastNumber DEF Min
  <2> QED  BY <1>2, <2>2 DEF FirstOf
<1> QED  BY <1>1, <1>2

\* Subdir finds a directory of that name in d, if there is one.
LEMMA SubdirFinds ==
  ASSUME NEW h, TreeOf(h), NEW d \in UsedIn(h), NEW tok
  PROVE  LET sub == Subdir(h, d, tok)
         IN  IF sub = NULL THEN \A y \in In(h, d) : ~IsSubdir(h, y, tok)
             ELSE sub \in In(h, d) /\ IsSubdir(h, sub, tok)
<1> DEFINE kids == Children(h, d)
           hits == {i \in DOMAIN kids : IsSubdir(h, kids[i], tok)}
<1>1. PICK m : KidsAre(h, d, kids, m)
  BY ChildrenAre
<1> HIDE DEF kids
<1>2. /\ m \in Nat /\ DOMAIN kids = 1 .. m
      /\ \A i \in 1 .. m : kids[i] \in In(h, d)
      /\ \A y \in In(h, d) : \E i \in 1 .. m : kids[i] = y
  BY <1>1 DEF KidsAre
<1>3. Subdir(h, d, tok) = FirstOf(kids, hits)
  BY DEF Subdir, kids
<1>4. NULL \notin In(h, d)
  BY AddressFacts DEF In, UsedIn
<1>5. hits = {} => \A y \in In(h, d) : ~IsSubdir(h, y, tok)
  BY <1>2
<1>6. \A i \in hits : kids[i] \in In(h, d) /\ IsSubdir(h, kids[i], tok)
  BY <1>2
<1>7. hits \in SUBSET (1 .. m)
  BY <1>2
<1> HIDE DEF hits
<1>8. CASE hits = {}
  BY <1>2, <1>3, <1>5, <1>7, <1>8, FirstOfIs
<1>9. CASE hits # {}
  <2>1. PICK i \in hits : FirstOf(kids, hits) = kids[i]
    BY <1>2, <1>7, <1>9, FirstOfIs
  <2> QED  BY <1>3, <1>4, <1>6, <2>1
<1> QED  BY <1>8, <1>9

-----------------------------------------------------------------------------
(* A node comes into the tree.                                             *)

\* Pointer f of node p is the end of the list of d's children.
Slot(h, d, p, f) ==
  /\ f \in {"child", "sibling"}
  /\ f = "child" => p = d /\ h[d].child = NULL
  /\ f = "sibling" => p \in In(h, d) /\ h[p].sibling = NULL

\* h with a node at x that this pointer leads to.
Inserted(h, x, node, p, f) ==
  [y \in DOMAIN h |->
     IF y = x THEN node
     ELSE IF y # p THEN h[y]
     ELSE IF f = "child" THEN [h[y] EXCEPT !.child = x] ELSE [h[y] EXCEPT !.sibling = x]]

LEMMA FreshUnused ==
  ASSUME NEW h, Unused(h) # {}
  PROVE  Fresh(h) \in Unused(h)
<1>1. Unused(h) \in SUBSET Nat
  BY AddressFacts DEF Unused
<1> QED  BY <1>1, LeastNumber DEF Fresh, Min

\* Add links the node in at the end.
LEMMA AddInserts ==
  ASSUME NEW h, TreeOf(h), NEW d \in Dirs(h), Unused(h) # {}, NEW type, NEW name
  PROVE  \E p, f : /\ Slot(h, d, p, f)
                  /\ Add(h, d, type, name) = Inserted(h, Fresh(h), NewNode(type, name, d), p, f)
<1> DEFINE x == Fresh(h)
           node == NewNode(type, name, d)
           kids == Children(h, d)
           g == [h EXCEPT ![x] = node]
<1>1. /\ x \in Unused(h) /\ Unused(h) \subseteq DOMAIN h /\ UsedIn(h) \subseteq DOMAIN h
      /\ UsedIn(h) \cap Unused(h) = {} /\ d \in UsedIn(h)
  BY FreshUnused DEF Unused, UsedIn, Dirs, TreeOf, Typed, Heap
<1>2. PICK m : KidsAre(h, d, kids, m)
  BY <1>1, ChildrenAre
<1> HIDE DEF x, node, kids
<1>3. Add(h, d, type, name) =
        IF kids = <<>> THEN [g EXCEPT ![d].child = x]
                       ELSE [g EXCEPT ![kids[Len(kids)]].sibling = x]
  BY DEF Add, BehindLast, Last, x, node, kids
<1>4. CASE kids = <<>>
  <2>1. m = 0 /\ h[d].child = NULL
    BY <1>2, <1>4 DEF KidsAre
  <2>2. Slot(h, d, d, "child")
    BY <2>1 DEF Slot
  <2>3. [g EXCEPT ![d].child = x] = Inserted(h, x, node, d, "child")
    BY <1>1 DEF Inserted
  <2> QED  BY <1>3, <1>4, <2>2, <2>3 DEF x, node
<1>5. CASE kids # <<>>
  <2>1. m \in 1 .. m /\ Len(kids) = m
    <3>1. m \in Nat /\ Len(kids) = m /\ kids \in Seq(In(h, d))
      BY <1>2 DEF KidsAre
    <3>2. m # 0
      BY <1>5, <3>1
    <3> QED  BY <3>1, <3>2
  <2>2. kids[m] \in In(h, d) /\ h[kids[m]].sibling = NULL
    BY <1>2, <2>1 DEF KidsAre
  <2>3. Slot(h, d, kids[m], "sibling")
    BY <2>2 DEF Slot
  <2>4. [g EXCEPT ![kids[m]].sibling = x] = Inserted(h, x, node, kids[m], "sibling")
    BY <1>1, <2>2 DEF Inserted, In
  <2> QED  BY <1>3, <1>5, <2>1, <2>3, <2>4 DEF x, node
<1> QED  BY <1>4, <1>5

\* What changes is the node at x and the pointer to it.
LEMMA InsertedFields ==
  ASSUME NEW h, Typed(h), NEW x \in Addresses, NEW node \in NodeType,
         NEW p, NEW f \in {"child", "sibling"},
         NEW g, g = Inserted(h, x, node, p, f)
  PROVE  /\ g \in Heap
         /\ g[x] = node
         /\ \A y \in {NULL} \cup Addresses :
              y # x => /\ g[y].type = h[y].type /\ g[y].name = h[y].name
                       /\ g[y].parent = h[y].parent
                       /\ g[y].child = IF y = p /\ f = "child" THEN x ELSE h[y].child
                       /\ g[y].sibling = IF y = p /\ f = "sibling" THEN x ELSE h[y].sibling
                       /\ y # p => g[y] = h[y]
<1>1. DOMAIN h = {NULL} \cup Addresses /\ \A y \in {NULL} \cup Addresses : h[y] \in NodeType
  BY DEF Typed, Heap
<1>2. g[x] = node
  BY <1>1 DEF Inserted
<1>3. x \in 0 .. MaxNodes
  BY MaxNodesAssumption DEF Addresses
<1>4. ASSUME NEW y \in {NULL} \cup Addresses, y # x
      PROVE  /\ g[y] \in NodeType
             /\ g[y].type = h[y].type /\ g[y].name = h[y].name /\ g[y].parent = h[y].parent
             /\ g[y].child = IF y = p /\ f = "child" THEN x ELSE h[y].child
             /\ g[y].sibling = IF y = p /\ f = "sibling" THEN x ELSE h[y].sibling
             /\ y # p => g[y] = h[y]
  <2>1. h[y] \in NodeType
    BY <1>1
  <2>2. CASE y # p
    <3>1. g[y] = h[y]
      BY <1>1, <1>4, <2>2 DEF Inserted
    <3> QED  BY <2>1, <2>2, <3>1
  <2>3. CASE y = p /\ f = "child"
    <3>1. g[y] = [h[y] EXCEPT !.child = x]
      BY <1>1, <1>4, <2>3 DEF Inserted
    <3> QED  BY <1>3, <2>1, <2>3, <3>1 DEF NodeType
  <2>4. CASE y = p /\ f = "sibling"
    <3>1. g[y] = [h[y] EXCEPT !.sibling = x]
      BY <1>1, <1>4, <2>4 DEF Inserted
    <3> QED  BY <1>3, <2>1, <2>4, <3>1 DEF NodeType
  <2> QED  BY <2>2, <2>3, <2>4
<1>5. g = [y \in {NULL} \cup Addresses |-> g[y]]
  BY <1>1 DEF Inserted
<1>6. \A y \in {NULL} \cup Addresses : g[y] \in NodeType
  BY <1>2, <1>4
<1>7. g \in Heap
  BY <1>5, <1>6 DEF Heap
<1> QED  BY <1>2, <1>4, <1>7

\* The tree stays a tree.
LEMMA InsertedTree ==
  ASSUME NEW h, TreeOf(h), NEW d \in Dirs(h), NEW x \in Unused(h),
         NEW type \in {"D", "F"}, NEW name \in NodeName,
         type = "D" => name \in Token /\ \A y \in In(h, d) : ~IsSubdir(h, y, name),
         NEW p, NEW f, Slot(h, d, p, f),
         NEW g, g = Inserted(h, x, NewNode(type, name, d), p, f)
  PROVE  TreeOf(g) /\ UsedIn(g) = UsedIn(h) \cup {x}
<1> DEFINE U == UsedIn(h)
           V == UsedIn(g)
           node == NewNode(type, name, d)
<1>1. /\ d \in U /\ d \in Addresses /\ h[d].type = "D" /\ x \in Addresses /\ x # NULL /\ x \notin U /\ U \subseteq Addresses
      /\ Root \in U /\ Root # x /\ f \in {"child", "sibling"} /\ d # x
  BY AddressFacts DEF Dirs, Unused, UsedIn, TreeOf, RootKept, Slot
<1>2. p \in U /\ p # x
  BY <1>1 DEF Slot, In
<1>3. /\ node \in NodeType /\ node.type = type /\ node.name = name /\ node.parent = d
      /\ node.child = NULL /\ node.sibling = NULL
  <2>1. d \in 0 .. MaxNodes /\ NULL \in 0 .. MaxNodes
    <3>1. d \in Addresses
      BY <1>1
    <3> QED  BY ONLY <3>1, MaxNodesAssumption DEF Addresses, NULL
  <2>2. node = [type |-> type, name |-> name, parent |-> d, child |-> NULL, sibling |-> NULL]
    BY DEF NewNode
  <2>3. type \in {"D", "F", "free"}
    OBVIOUS
  <2> HIDE DEF node
  <2> QED  BY <2>1, <2>2, <2>3 DEF NodeType
<1> HIDE DEF node
<1>4. /\ g \in Heap
      /\ g[x] = node
      /\ \A y \in {NULL} \cup Addresses :
           y # x => /\ g[y].type = h[y].type /\ g[y].name = h[y].name
                    /\ g[y].parent = h[y].parent
                    /\ g[y].child = IF y = p /\ f = "child" THEN x ELSE h[y].child
                    /\ g[y].sibling = IF y = p /\ f = "sibling" THEN x ELSE h[y].sibling
                    /\ y # p => g[y] = h[y]
  <2>1. Typed(h) /\ x \in Addresses /\ node \in NodeType /\ f \in {"child", "sibling"}
    BY <1>1, <1>3 DEF TreeOf
  <2>2. g = Inserted(h, x, node, p, f)
    BY DEF node
  <2> HIDE DEF U, V
  <2> QED  BY <2>1, <2>2, InsertedFields
<1>5. V = U \cup {x}
  <2>1. g[x].type # "free" /\ \A y \in Addresses \ {x} : g[y].type = h[y].type
    BY <1>3, <1>4
  <2> QED  BY <1>1, <2>1 DEF UsedIn, Unused
<1>6. \A y \in U : /\ g[y].type = h[y].type /\ g[y].name = h[y].name
                   /\ g[y].parent = h[y].parent
                   /\ g[y].child = IF y = p /\ f = "child" THEN x ELSE h[y].child
                   /\ g[y].sibling = IF y = p /\ f = "sibling" THEN x ELSE h[y].sibling
  BY <1>1, <1>4
<1>7. /\ g[x].type = type /\ g[x].name = name /\ g[x].parent = d
      /\ g[x].child = NULL /\ g[x].sibling = NULL
  BY <1>3, <1>4
\* The pointer that is set led nowhere, and x was not pointed to.
<1>8. /\ f = "child" => p = d /\ h[p].child = NULL
      /\ f = "sibling" => p # Root /\ h[p].parent = d /\ h[p].sibling = NULL
  BY DEF Slot, In
<1>9. /\ \A y \in U : h[y].child # x
      /\ \A y \in U \ {Root} : h[y].sibling # x
  BY <1>1 DEF TreeOf, ChildKept, SiblingKept
<1>10. Typed(g)
  <2>1. Unused(g) = Unused(h) \ {x}
    <3>1. \A y \in Addresses : y \in Unused(g) <=> y \notin V
      BY DEF UsedIn
    <3>2. \A y \in Addresses : y \in Unused(h) <=> y \notin U
      BY DEF UsedIn
    <3> QED  BY <1>5, <3>1, <3>2 DEF Unused
  <2>4. \A y \in {NULL} \cup Unused(g) : y # x /\ y # p /\ y \in {NULL} \cup Unused(h)
    BY <1>1, <1>2, <2>1, AddressFacts DEF UsedIn
  <2>2. \A y \in {NULL} \cup Unused(g) : g[y] = h[y]
    BY <1>4, <2>4 DEF Unused
  <2>3. \A y \in {NULL} \cup Unused(h) : h[y] = Free
    BY DEF TreeOf, Typed
  <2> QED  BY <1>4, <2>4, <2>2, <2>3 DEF Typed
<1>11. RootKept(g)
  <2>1. p = Root => f = "child"
    BY <1>1, <1>8
  <2>2. /\ g[Root].type = h[Root].type /\ g[Root].name = h[Root].name
        /\ g[Root].parent = h[Root].parent /\ g[Root].sibling = h[Root].sibling
    BY <1>1, <1>6, <2>1
  <2> QED  BY <1>5, <2>2 DEF TreeOf, RootKept
<1> HIDE DEF U, V
<1>12. ChildKept(g)
  <2> SUFFICES ASSUME NEW y \in V, g[y].child # NULL
               PROVE  g[y].child \in V \ {Root} /\ g[g[y].child].parent = y
    BY DEF ChildKept, V
  <2>1. y # x /\ y \in U
    BY <1>5, <1>7
  <2>2. CASE y = p /\ f = "child"
    BY <1>1, <1>5, <1>6, <1>7, <1>8, <2>1, <2>2
  <2>3. CASE ~(y = p /\ f = "child")
    <3>1. g[y].child = h[y].child
      BY <1>6, <2>1, <2>3
    <3>2. h[y].child \in U \ {Root} /\ h[h[y].child].parent = y
      BY <2>1, <3>1 DEF TreeOf, ChildKept, U
    <3> QED  BY <1>5, <1>6, <3>1, <3>2
  <2> QED  BY <2>2, <2>3
<1>13. SiblingKept(g)
  <2> SUFFICES ASSUME NEW y \in V \ {Root}, g[y].sibling # NULL
               PROVE  g[y].sibling \in V \ {Root} /\ g[g[y].sibling].parent = g[y].parent
    BY DEF SiblingKept, V
  <2>1. y # x /\ y \in U
    BY <1>5, <1>7
  <2>2. CASE y = p /\ f = "sibling"
    BY <1>1, <1>5, <1>6, <1>7, <1>8, <2>1, <2>2
  <2>3. CASE ~(y = p /\ f = "sibling")
    <3>1. g[y].sibling = h[y].sibling
      BY <1>6, <2>1, <2>3
    <3>2. h[y].sibling \in U \ {Root} /\ h[h[y].sibling].parent = h[y].parent
      BY <2>1, <3>1 DEF TreeOf, SiblingKept, U
    <3> QED  BY <1>5, <1>6, <2>1, <3>1, <3>2
  <2> QED  BY <2>2, <2>3
<1>14. OnePointer(g)
  <2>1. /\ \A y, z \in U \ {Root} : h[y].sibling = h[z].sibling /\ h[y].sibling # NULL => y = z
        /\ \A y \in U, z \in U \ {Root} : h[y].child # NULL => h[y].child # h[z].sibling
    BY DEF TreeOf, OnePointer, U
  <2>2. ASSUME NEW y \in V \ {Root}, NEW z \in V \ {Root},
               g[y].sibling = g[z].sibling, g[y].sibling # NULL
        PROVE  y = z
    <3>1. y \in U \ {Root} /\ z \in U \ {Root}
      BY <1>5, <1>7, <2>2
    <3>2. CASE y = p /\ f = "sibling"
      BY <1>6, <1>9, <2>2, <3>1, <3>2 DEF U
    <3>3. CASE z = p /\ f = "sibling"
      BY <1>6, <1>9, <2>2, <3>1, <3>3 DEF U
    <3>4. CASE ~(y = p /\ f = "sibling") /\ ~(z = p /\ f = "sibling")
      <4>1. g[y].sibling = h[y].sibling /\ g[z].sibling = h[z].sibling
        BY <1>6, <3>1, <3>4
      <4> QED  BY <2>1, <2>2, <3>1, <4>1
    <3> QED  BY <3>2, <3>3, <3>4
  <2>3. ASSUME NEW y \in V, NEW z \in V \ {Root}, g[y].child # NULL
        PROVE  g[y].child # g[z].sibling
    <3>1. y \in U
      BY <1>5, <1>7, <2>3
    <3>2. CASE z = x
      BY <1>7, <2>3, <3>2
    <3>3. CASE z # x
      <4>1. z \in U \ {Root}
        BY <1>5, <3>3
      <4>2. CASE y = p /\ f = "child"
        <5>1. g[y].child = x /\ g[z].sibling = h[z].sibling /\ h[z].sibling # x
          BY <1>1, <1>6, <1>9, <3>1, <4>1, <4>2 DEF U
        <5> QED  BY <5>1
      <4>3. CASE z = p /\ f = "sibling"
        <5>1. g[y].child = h[y].child /\ g[z].sibling = x /\ h[y].child # x
          BY <1>1, <1>6, <1>9, <3>1, <4>1, <4>3 DEF U
        <5> QED  BY <5>1
      <4>4. CASE ~(y = p /\ f = "child") /\ ~(z = p /\ f = "sibling")
        <5>1. g[y].child = h[y].child /\ g[z].sibling = h[z].sibling
          BY <1>6, <3>1, <4>1, <4>4
        <5> QED  BY <2>1, <2>3, <3>1, <4>1, <5>1
      <4> QED  BY <4>2, <4>3, <4>4
    <3> QED  BY <3>2, <3>3
  <2> QED  BY <2>2, <2>3 DEF OnePointer, V
<1>15. ParentKept(g)
  <2> SUFFICES ASSUME NEW y \in V PROVE g[y].parent \in V /\ g[g[y].parent].type = "D"
    BY DEF ParentKept, V
  <2>1. CASE y = x
    BY <1>1, <1>5, <1>6, <1>7, <2>1
  <2>2. CASE y # x
    <3>1. y \in U /\ g[y].parent = h[y].parent
      BY <1>5, <1>6, <2>2
    <3>2. h[y].parent \in U /\ h[h[y].parent].type = "D"
      BY <3>1 DEF TreeOf, ParentKept, U
    <3> QED  BY <1>5, <1>6, <3>1, <3>2
  <2> QED  BY <2>1, <2>2
<1>16. DirNames(g)
  <2> SUFFICES ASSUME NEW y \in V \ {Root}, g[y].type = "D" PROVE g[y].name \in Token
    BY DEF DirNames, V
  <2>1. CASE y = x
    BY <1>7, <2>1
  <2>2. CASE y # x
    BY <1>5, <1>6, <2>2 DEF TreeOf, DirNames, U
  <2> QED  BY <2>1, <2>2
<1>17. Connected(g)
  <2> SUFFICES ASSUME NEW S \in SUBSET V, Root \in S, Closed(g, S) PROVE S = V
    BY DEF Connected, V
  <2>1. /\ \A y \in S : g[y].child # NULL => g[y].child \in S
        /\ \A y \in S : y # Root /\ g[y].sibling # NULL => g[y].sibling \in S
    BY DEF Closed
  <2> DEFINE T == S \ {x}
  <2>2. T \subseteq U /\ Root \in T
    BY <1>1, <1>5
  <2>3. ASSUME NEW y \in T, h[y].child # NULL PROVE h[y].child \in T
    <3>1. y \in U /\ y \in S
      BY <2>2
    <3>2. g[y].child = h[y].child
      BY <1>6, <1>8, <2>3, <3>1
    <3> QED  BY <1>9, <2>1, <2>3, <3>1, <3>2 DEF U
  <2>4. ASSUME NEW y \in T, y # Root, h[y].sibling # NULL PROVE h[y].sibling \in T
    <3>1. y \in U \ {Root} /\ y \in S
      BY <2>2, <2>4
    <3>2. g[y].sibling = h[y].sibling
      BY <1>6, <1>8, <2>4, <3>1
    <3> QED  BY <1>9, <2>1, <2>4, <3>1, <3>2 DEF U
  <2> HIDE DEF T
  <2>5. T = U
    <3>1. Closed(h, T)
      BY <2>3, <2>4 DEF Closed
    <3> QED  BY <2>2, <3>1 DEF TreeOf, Connected, U
  <2>6. p \in S
    BY <1>2, <2>5 DEF T, U
  <2>7. x \in S
    BY <1>1, <1>2, <1>6, <1>8, <2>1, <2>6 DEF U
  <2> QED  BY <1>5, <2>5, <2>7 DEF T
<1>18. UniqueDirs(g)
  <2> SUFFICES ASSUME NEW y \in V, NEW z \in V, y # z, g[y].type = "D", g[z].type = "D",
                      g[y].parent = g[z].parent, g[y].name = g[z].name
               PROVE  FALSE
    BY DEF UniqueDirs, V
  <2>1. ASSUME NEW u \in U, type = "D", h[u].type = "D", h[u].parent = d PROVE h[u].name # name
    <3>1. CASE u = Root
      <4>1. h[u].name = "/"
        BY <3>1 DEF TreeOf, RootKept
      <4>2. name \in Token
        BY <2>1
      <4> QED  BY <4>1, <4>2, NamesAssumption DEF Token
    <3>2. CASE u # Root
      BY <2>1, <3>2 DEF In, IsSubdir, U
    <3> QED  BY <3>1, <3>2
  <2>2. CASE y = x
    <3>1. z \in U
      BY <1>5, <2>2
    <3> QED  BY <1>6, <1>7, <2>1, <2>2, <3>1
  <2>3. CASE z = x
    <3>1. y \in U
      BY <1>5, <2>3
    <3> QED  BY <1>6, <1>7, <2>1, <2>3, <3>1
  <2>4. CASE y # x /\ z # x
    <3>1. y \in U /\ z \in U
      BY <1>5, <2>4
    <3>2. /\ h[y].type = "D" /\ h[z].type = "D"
          /\ h[y].parent = h[z].parent /\ h[y].name = h[z].name
      BY <1>6, <3>1
    <3> QED  BY <3>1, <3>2 DEF TreeOf, UniqueDirs, U
  <2> QED  BY <2>2, <2>3, <2>4
<1>19. TreeOf(g)
  BY <1>10, <1>11, <1>12, <1>13, <1>14, <1>15, <1>16, <1>17, <1>18 DEF TreeOf
<1> QED  BY <1>5, <1>19 DEF U, V

-----------------------------------------------------------------------------
(* A node leaves the tree.                                                 *)

\* Pointer f of node p leads to x.
Leads(h, p, f, x) ==
  /\ f \in {"child", "sibling"} /\ p \in UsedIn(h) \ {x}
  /\ f = "child" => h[p].child = x
  /\ f = "sibling" => p # Root /\ h[p].sibling = x

\* h without the node at x, this pointer leading to what was behind it.
Removed(h, x, p, f) ==
  [y \in DOMAIN h |->
     IF y = x THEN Free
     ELSE IF y # p THEN h[y]
     ELSE IF f = "child" THEN [h[y] EXCEPT !.child = h[x].sibling]
                         ELSE [h[y] EXCEPT !.sibling = h[x].sibling]]

\* Some pointer leads to every node but the root, or it would not be connected.
LEMMA SomeLeads ==
  ASSUME NEW h, TreeOf(h), NEW x \in UsedIn(h) \ {Root}
  PROVE  \E p, f : Leads(h, p, f, x)
<1> SUFFICES ASSUME \A p, f : ~Leads(h, p, f, x) PROVE FALSE
  OBVIOUS
<1> DEFINE S == UsedIn(h) \ {x}
<1>1. Root \in S /\ S \subseteq UsedIn(h)
  BY DEF TreeOf, RootKept
<1>2. ASSUME NEW y \in S, h[y].child # NULL PROVE h[y].child \in S
  <2>1. ~Leads(h, y, "child", x)
    OBVIOUS
  <2>2. h[y].child \in UsedIn(h)
    BY <1>2 DEF TreeOf, ChildKept
  <2> QED  BY <2>1, <2>2 DEF Leads
<1>3. ASSUME NEW y \in S, y # Root, h[y].sibling # NULL PROVE h[y].sibling \in S
  <2>1. ~Leads(h, y, "sibling", x)
    OBVIOUS
  <2>2. h[y].sibling \in UsedIn(h)
    BY <1>3 DEF TreeOf, SiblingKept
  <2> QED  BY <1>3, <2>1, <2>2 DEF Leads
<1>4. Closed(h, S)
  BY <1>2, <1>3 DEF Closed
<1>5. S = UsedIn(h)
  <2> HIDE DEF S
  <2> QED  BY <1>1, <1>4 DEF TreeOf, Connected
<1> QED  BY <1>5

\* Unlinked takes the node out of its list.
LEMMA UnlinkedRemoves ==
  ASSUME NEW h, TreeOf(h), NEW x \in UsedIn(h) \ {Root}
  PROVE  \E p, f : Leads(h, p, f, x) /\ Unlinked(h, x) = Removed(h, x, p, f)
<1> DEFINE d == h[x].parent
<1>1. PICK p, f : Leads(h, p, f, x)
  BY SomeLeads
<1>2. /\ DOMAIN h = {NULL} \cup Addresses /\ x \in Addresses /\ x # NULL
      /\ p \in UsedIn(h) /\ p \in Addresses /\ p # x /\ p \in DOMAIN h
      /\ f \in {"child", "sibling"}
  BY <1>1, AddressFacts DEF TreeOf, Typed, Heap, Leads, UsedIn
<1>3. Unlinked(h, x) =
        [(IF h[d].child = x THEN [h EXCEPT ![d].child = h[x].sibling]
                            ELSE [h EXCEPT ![Before(h, x)].sibling = h[x].sibling])
          EXCEPT ![x] = Free]
  BY DEF Unlinked, Behind
<1>4. CASE f = "child"
  <2>1. h[p].child = x
    BY <1>1, <1>4 DEF Leads
  <2>2. d = p
    BY <1>2, <2>1 DEF TreeOf, ChildKept
  <2>3. [[h EXCEPT ![p].child = h[x].sibling] EXCEPT ![x] = Free] = Removed(h, x, p, f)
    BY <1>2, <1>4 DEF Removed
  <2> HIDE DEF d
  <2>4. Unlinked(h, x) = Removed(h, x, p, f)
    BY <1>3, <2>1, <2>2, <2>3
  <2> QED  BY <1>1, <2>4
<1>5. CASE f = "sibling"
  <2>1. p \in UsedIn(h) \ {Root} /\ h[p].sibling = x
    BY <1>1, <1>5 DEF Leads
  <2>2. d \in UsedIn(h)
    BY DEF TreeOf, ParentKept
  <2>3. h[d].child # x
    BY <1>2, <2>1, <2>2 DEF TreeOf, OnePointer
  <2>4. ASSUME NEW y \in Addresses \ {Root}, h[y].sibling = x PROVE y = p
    <3>1. y \notin Unused(h)
      <4>1. Free.sibling = NULL
        BY DEF Free
      <4> QED  BY <1>2, <2>4, <4>1 DEF TreeOf, Typed
    <3>2. y \in UsedIn(h) \ {Root} /\ h[y].sibling = h[p].sibling
      BY <2>1, <2>4, <3>1 DEF UsedIn
    <3> QED  BY <1>2, <2>1, <3>2 DEF TreeOf, OnePointer
  <2>5. Before(h, x) = p
    BY <1>2, <2>1, <2>4 DEF Before
  <2>6. [[h EXCEPT ![p].sibling = h[x].sibling] EXCEPT ![x] = Free] = Removed(h, x, p, f)
    BY <1>2, <1>5 DEF Removed
  <2> HIDE DEF d
  <2>7. Unlinked(h, x) = Removed(h, x, p, f)
    BY <1>3, <2>3, <2>5, <2>6
  <2> QED  BY <1>1, <2>7
<1> QED  BY <1>2, <1>4, <1>5

\* What changes is the node at x and the pointer to it.
LEMMA RemovedFields ==
  ASSUME NEW h, Typed(h), NEW x \in Addresses,
         NEW p, NEW f \in {"child", "sibling"},
         NEW g, g = Removed(h, x, p, f)
  PROVE  /\ g \in Heap
         /\ g[x] = Free
         /\ \A y \in {NULL} \cup Addresses :
              y # x => /\ g[y].type = h[y].type /\ g[y].name = h[y].name
                       /\ g[y].parent = h[y].parent
                       /\ g[y].child = IF y = p /\ f = "child" THEN h[x].sibling ELSE h[y].child
                       /\ g[y].sibling = IF y = p /\ f = "sibling" THEN h[x].sibling
                                                                 ELSE h[y].sibling
                       /\ y # p => g[y] = h[y]
<1>1. DOMAIN h = {NULL} \cup Addresses /\ \A y \in {NULL} \cup Addresses : h[y] \in NodeType
  BY DEF Typed, Heap
<1>2. g[x] = Free
  BY <1>1 DEF Removed
<1>3. h[x].sibling \in 0 .. MaxNodes
  BY FieldTypes
<1>4. ASSUME NEW y \in {NULL} \cup Addresses, y # x
      PROVE  /\ g[y] \in NodeType
             /\ g[y].type = h[y].type /\ g[y].name = h[y].name /\ g[y].parent = h[y].parent
             /\ g[y].child = IF y = p /\ f = "child" THEN h[x].sibling ELSE h[y].child
             /\ g[y].sibling = IF y = p /\ f = "sibling" THEN h[x].sibling ELSE h[y].sibling
             /\ y # p => g[y] = h[y]
  <2>1. h[y] \in NodeType
    BY <1>1
  <2>2. CASE y # p
    <3>1. g[y] = h[y]
      BY <1>1, <1>4, <2>2 DEF Removed
    <3> QED  BY <2>1, <2>2, <3>1
  <2>3. CASE y = p /\ f = "child"
    <3>1. g[y] = [h[y] EXCEPT !.child = h[x].sibling]
      BY <1>1, <1>4, <2>3 DEF Removed
    <3> QED  BY <1>3, <2>1, <2>3, <3>1 DEF NodeType
  <2>4. CASE y = p /\ f = "sibling"
    <3>1. g[y] = [h[y] EXCEPT !.sibling = h[x].sibling]
      BY <1>1, <1>4, <2>4 DEF Removed
    <3> QED  BY <1>3, <2>1, <2>4, <3>1 DEF NodeType
  <2> QED  BY <2>2, <2>3, <2>4
<1>5. g = [y \in {NULL} \cup Addresses |-> g[y]]
  BY <1>1 DEF Removed
<1>6. Free \in NodeType
  <2>1. NULL \in 0 .. MaxNodes /\ "" \in NodeName
    BY MaxNodesAssumption DEF NULL, NodeName
  <2> HIDE DEF NULL
  <2> QED  BY <2>1 DEF Free, NodeType
<1>7. \A y \in {NULL} \cup Addresses : g[y] \in NodeType
  BY <1>2, <1>4, <1>6
<1>8. g \in Heap
  BY <1>5, <1>7 DEF Heap
<1> QED  BY <1>2, <1>4, <1>8

\* The tree stays a tree.
LEMMA RemovedTree ==
  ASSUME NEW h, TreeOf(h), NEW x \in UsedIn(h) \ {Root}, h[x].child = NULL,
         NEW p, NEW f, Leads(h, p, f, x),
         NEW g, g = Removed(h, x, p, f)
  PROVE  TreeOf(g) /\ UsedIn(g) = UsedIn(h) \ {x}
<1> DEFINE U == UsedIn(h)
           V == UsedIn(g)
           s == h[x].sibling
<1>1. /\ x \in U /\ x \in Addresses /\ x # NULL /\ x # Root /\ U \subseteq Addresses
      /\ Root \in U /\ NULL \notin U /\ f \in {"child", "sibling"}
      /\ p \in U /\ p # x /\ p \in Addresses
  BY AddressFacts DEF UsedIn, TreeOf, RootKept, Leads
<1>2. /\ g \in Heap
      /\ g[x] = Free
      /\ \A y \in {NULL} \cup Addresses :
           y # x => /\ g[y].type = h[y].type /\ g[y].name = h[y].name
                    /\ g[y].parent = h[y].parent
                    /\ g[y].child = IF y = p /\ f = "child" THEN s ELSE h[y].child
                    /\ g[y].sibling = IF y = p /\ f = "sibling" THEN s ELSE h[y].sibling
                    /\ y # p => g[y] = h[y]
  <2>1. Typed(h)
    BY DEF TreeOf
  <2> QED  BY <1>1, <2>1, RemovedFields
<1>3. Unused(g) = Unused(h) \cup {x} /\ V = U \ {x}
  <2>1. g[x].type = "free"
    <3>1. Free.type = "free"
      BY DEF Free
    <3> QED  BY <1>2, <3>1
  <2>2. \A y \in Addresses \ {x} : g[y].type = h[y].type
    BY <1>2
  <2>3. Unused(g) = Unused(h) \cup {x}
    BY <1>1, <2>1, <2>2 DEF Unused
  <2> QED  BY <1>1, <2>3 DEF UsedIn
<1>4. \A y \in V : /\ g[y].type = h[y].type /\ g[y].name = h[y].name
                   /\ g[y].parent = h[y].parent
                   /\ g[y].child = IF y = p /\ f = "child" THEN s ELSE h[y].child
                   /\ g[y].sibling = IF y = p /\ f = "sibling" THEN s ELSE h[y].sibling
  BY <1>1, <1>2, <1>3
\* What was behind x has the parent of x, and no other pointer leads to it.
<1>5. s # NULL => s \in U \ {Root} /\ h[s].parent = h[x].parent
  BY DEF TreeOf, SiblingKept
<1>6. s # NULL => /\ \A y \in U : h[y].child # s
                  /\ \A y \in U \ {Root} : h[y].sibling = s => y = x
  BY <1>1, <1>5 DEF TreeOf, OnePointer
\* The pointer that is set is the only one that led to x.
<1>7. /\ f = "child" => h[p].child = x
      /\ f = "sibling" => p # Root /\ h[p].sibling = x
  BY DEF Leads
<1>8. /\ \A y \in U : h[y].child = x => y = p /\ f = "child"
      /\ \A y \in U \ {Root} : h[y].sibling = x => y = p /\ f = "sibling"
  <2>1. CASE f = "child"
    <3>1. h[p].child = x /\ h[x].parent = p
      BY <1>1, <1>7, <2>1 DEF TreeOf, ChildKept
    <3>2. \A y \in U : h[y].child = x => y = p
      BY <1>1, <3>1 DEF TreeOf, ChildKept
    <3>3. \A y \in U \ {Root} : h[y].sibling # x
      BY <1>1, <3>1 DEF TreeOf, OnePointer
    <3> QED  BY <2>1, <3>2, <3>3
  <2>2. CASE f = "sibling"
    <3>1. p \in U \ {Root} /\ h[p].sibling = x
      BY <1>1, <1>7, <2>2
    <3>2. \A y \in U \ {Root} : h[y].sibling = x => y = p
      BY <1>1, <3>1 DEF TreeOf, OnePointer
    <3>3. \A y \in U : h[y].child # x
      BY <1>1, <3>1 DEF TreeOf, OnePointer
    <3> QED  BY <2>2, <3>2, <3>3
  <2> QED  BY <1>1, <2>1, <2>2
<1>9. s # x
  BY <1>1, <1>8
<1>10. \A y \in V : h[y].parent # x
  <2>1. PICK m : KidsAre(h, x, Children(h, x), m)
    BY <1>1, ChildrenAre
  <2>2. ASSUME m # 0 PROVE FALSE
    <3>1. m \in Nat /\ 1 \in 1 .. m
      BY <2>1, <2>2 DEF KidsAre
    <3>2. Children(h, x)[1] = NULL /\ Children(h, x)[1] \in In(h, x)
      BY <2>1, <2>2, <3>1 DEF KidsAre
    <3> QED  BY <1>1, <3>2 DEF In
  <2>3. In(h, x) = {}
    BY <2>1, <2>2 DEF KidsAre
  <2>4. h[Root].parent # x
    BY <1>1 DEF TreeOf, RootKept
  <2> QED  BY <1>3, <2>3, <2>4 DEF In
<1>11. Typed(g)
  <2>1. \A y \in {NULL} \cup Unused(h) : h[y] = Free /\ y # x /\ y # p /\ y \in {NULL} \cup Addresses
    BY <1>1 DEF TreeOf, Typed, UsedIn, Unused
  <2> QED  BY <1>2, <1>3, <2>1 DEF Typed
<1>12. RootKept(g)
  <2>1. p = Root => f = "child"
    BY <1>1, <1>7
  <2>2. /\ g[Root].type = h[Root].type /\ g[Root].name = h[Root].name
        /\ g[Root].parent = h[Root].parent /\ g[Root].sibling = h[Root].sibling
    BY <1>1, <1>3, <1>4, <2>1
  <2> QED  BY <1>1, <1>3, <2>2 DEF TreeOf, RootKept
<1> HIDE DEF U, V, s
<1>13. ChildKept(g)
  <2> SUFFICES ASSUME NEW y \in V, g[y].child # NULL
               PROVE  g[y].child \in V \ {Root} /\ g[g[y].child].parent = y
    BY DEF ChildKept, V
  <2>1. y # x /\ y \in U
    BY <1>3
  <2>2. CASE y = p /\ f = "child"
    <3>1. g[y].child = s /\ s \in U \ {Root} /\ h[s].parent = h[x].parent
      BY <1>4, <1>5, <2>2
    <3>2. h[x].parent = p
      BY <1>1, <1>7, <2>2 DEF TreeOf, ChildKept, U
    <3> QED  BY <1>3, <1>4, <1>9, <2>2, <3>1, <3>2
  <2>3. CASE ~(y = p /\ f = "child")
    <3>1. g[y].child = h[y].child /\ h[y].child # x
      BY <1>4, <1>8, <2>1, <2>3
    <3>2. h[y].child \in U \ {Root} /\ h[h[y].child].parent = y
      BY <2>1, <3>1 DEF TreeOf, ChildKept, U
    <3> QED  BY <1>3, <1>4, <3>1, <3>2
  <2> QED  BY <2>2, <2>3
<1>14. SiblingKept(g)
  <2> SUFFICES ASSUME NEW y \in V \ {Root}, g[y].sibling # NULL
               PROVE  g[y].sibling \in V \ {Root} /\ g[g[y].sibling].parent = g[y].parent
    BY DEF SiblingKept, V
  <2>1. y # x /\ y \in U
    BY <1>3
  <2>2. CASE y = p /\ f = "sibling"
    <3>1. g[y].sibling = s /\ s \in U \ {Root} /\ h[s].parent = h[x].parent
      BY <1>4, <1>5, <2>2
    <3>2. h[x].parent = h[p].parent
      BY <1>1, <1>7, <2>2 DEF TreeOf, SiblingKept, U
    <3> QED  BY <1>3, <1>4, <1>9, <2>2, <3>1, <3>2
  <2>3. CASE ~(y = p /\ f = "sibling")
    <3>1. g[y].sibling = h[y].sibling /\ h[y].sibling # x
      BY <1>4, <1>8, <2>1, <2>3
    <3>2. h[y].sibling \in U \ {Root} /\ h[h[y].sibling].parent = h[y].parent
      BY <2>1, <3>1 DEF TreeOf, SiblingKept, U
    <3> QED  BY <1>3, <1>4, <2>1, <3>1, <3>2
  <2> QED  BY <2>2, <2>3
<1>15. OnePointer(g)
  <2>1. /\ \A y, z \in U \ {Root} : h[y].sibling = h[z].sibling /\ h[y].sibling # NULL => y = z
        /\ \A y \in U, z \in U \ {Root} : h[y].child # NULL => h[y].child # h[z].sibling
    BY DEF TreeOf, OnePointer, U
  <2>2. ASSUME NEW y \in V \ {Root}, NEW z \in V \ {Root},
               g[y].sibling = g[z].sibling, g[y].sibling # NULL
        PROVE  y = z
    <3>1. y \in U \ {Root} /\ z \in U \ {Root} /\ y # x /\ z # x
      BY <1>3
    <3>2. CASE y = p /\ f = "sibling"
      BY <1>4, <1>6, <2>2, <3>1, <3>2
    <3>3. CASE z = p /\ f = "sibling"
      BY <1>4, <1>6, <2>2, <3>1, <3>3
    <3>4. CASE ~(y = p /\ f = "sibling") /\ ~(z = p /\ f = "sibling")
      <4>1. g[y].sibling = h[y].sibling /\ g[z].sibling = h[z].sibling
        BY <1>4, <3>1, <3>4
      <4> QED  BY <2>1, <2>2, <3>1, <4>1
    <3> QED  BY <3>2, <3>3, <3>4
  <2>3. ASSUME NEW y \in V, NEW z \in V \ {Root}, g[y].child # NULL
        PROVE  g[y].child # g[z].sibling
    <3>1. y \in U /\ z \in U \ {Root} /\ y # x /\ z # x
      BY <1>3
    <3>2. CASE y = p /\ f = "child"
      <4>1. g[y].child = s /\ g[z].sibling = h[z].sibling
        BY <1>1, <1>4, <3>1, <3>2
      <4> QED  BY <1>6, <2>3, <3>1, <4>1
    <3>3. CASE z = p /\ f = "sibling"
      <4>1. g[y].child = h[y].child /\ g[z].sibling = s
        BY <1>1, <1>4, <3>1, <3>3
      <4> QED  BY <1>6, <2>3, <3>1, <4>1
    <3>4. CASE ~(y = p /\ f = "child") /\ ~(z = p /\ f = "sibling")
      <4>1. g[y].child = h[y].child /\ g[z].sibling = h[z].sibling
        BY <1>4, <3>1, <3>4
      <4> QED  BY <2>1, <2>3, <3>1, <4>1
    <3> QED  BY <3>2, <3>3, <3>4
  <2> QED  BY <2>2, <2>3 DEF OnePointer, V
<1>16. ParentKept(g)
  <2> SUFFICES ASSUME NEW y \in V PROVE g[y].parent \in V /\ g[g[y].parent].type = "D"
    BY DEF ParentKept, V
  <2>1. h[y].parent \in U /\ h[h[y].parent].type = "D"
    BY <1>3 DEF TreeOf, ParentKept, U
  <2> QED  BY <1>3, <1>4, <1>10, <2>1
<1>17. DirNames(g)
  BY <1>3, <1>4 DEF TreeOf, DirNames, U, V
<1>18. Connected(g)
  <2> SUFFICES ASSUME NEW S \in SUBSET V, Root \in S, Closed(g, S) PROVE S = V
    BY DEF Connected, V
  <2>1. /\ \A y \in S : g[y].child # NULL => g[y].child \in S
        /\ \A y \in S : y # Root /\ g[y].sibling # NULL => g[y].sibling \in S
    BY DEF Closed
  <2>2. ASSUME NEW T, S \subseteq T, T \subseteq S \cup {x}, p \in S <=> x \in T
        PROVE  T = U
    <3>1. T \subseteq U /\ Root \in T
      BY <1>1, <1>3, <2>2
    <3>2. ASSUME NEW y \in T, h[y].child # NULL PROVE h[y].child \in T
      <4>1. y \in V /\ y \in S
        BY <2>2, <3>2
      <4>2. CASE h[y].child = x
        BY <1>8, <2>2, <3>1, <4>1, <4>2
      <4>3. CASE h[y].child # x
        <5>1. g[y].child = h[y].child
          BY <1>4, <1>7, <4>1, <4>3
        <5> QED  BY <2>1, <2>2, <3>2, <4>1, <5>1
      <4> QED  BY <4>2, <4>3
    <3>3. ASSUME NEW y \in T, y # Root, h[y].sibling # NULL PROVE h[y].sibling \in T
      <4>1. CASE y = x
        <5>1. p \in S /\ s # NULL /\ h[y].sibling = s /\ p \in V
          BY <2>2, <3>3, <4>1 DEF s
        <5>2. s \in S
          BY <1>1, <1>4, <1>7, <2>1, <5>1
        <5> QED  BY <2>2, <5>1, <5>2
      <4>2. CASE y # x
        <5>1. y \in V /\ y \in S /\ y \in U \ {Root}
          BY <2>2, <3>1, <3>3, <4>2
        <5>2. CASE h[y].sibling = x
          BY <1>8, <2>2, <5>1, <5>2
        <5>3. CASE h[y].sibling # x
          <6>1. g[y].sibling = h[y].sibling
            BY <1>4, <1>7, <5>1, <5>3
          <6> QED  BY <2>1, <2>2, <3>3, <5>1, <6>1
        <5> QED  BY <5>2, <5>3
      <4> QED  BY <4>1, <4>2
    <3>4. Closed(h, T)
      BY <3>2, <3>3 DEF Closed
    <3> QED  BY <3>1, <3>4 DEF TreeOf, Connected, U
  <2>3. CASE p \in S
    <3> DEFINE T == S \cup {x}
    <3>1. S \subseteq T /\ T \subseteq S \cup {x} /\ x \in T
      OBVIOUS
    <3> HIDE DEF T
    <3>2. T = U
      BY <2>2, <2>3, <3>1
    <3> QED  BY <1>3, <3>2 DEF T
  <2>4. CASE p \notin S
    <3>1. S = U
      BY <1>3, <2>2, <2>4
    <3> QED  BY <1>1, <2>4, <3>1 DEF U
  <2> QED  BY <2>3, <2>4
<1>19. UniqueDirs(g)
  BY <1>3, <1>4 DEF TreeOf, UniqueDirs, U, V
<1>20. TreeOf(g)
  BY <1>11, <1>12, <1>13, <1>14, <1>15, <1>16, <1>17, <1>18, <1>19 DEF TreeOf
<1> QED  BY <1>3, <1>20 DEF U, V

-----------------------------------------------------------------------------
(* What the walks along a pathname do.                                     *)

\* The nodes of h are in g, as they were but for their pointers.
Keeps(h, g) ==
  /\ UsedIn(h) \subseteq UsedIn(g)
  /\ \A y \in UsedIn(h) : /\ g[y].type = h[y].type /\ g[y].name = h[y].name
                          /\ g[y].parent = h[y].parent

LEMMA AddTree ==
  ASSUME NEW h, TreeOf(h), NEW d \in Dirs(h), Unused(h) # {},
         NEW type \in {"D", "F"}, NEW name \in NodeName,
         type = "D" => name \in Token /\ \A y \in In(h, d) : ~IsSubdir(h, y, name),
         NEW g, g = Add(h, d, type, name)
  PROVE  /\ TreeOf(g) /\ UsedIn(g) = UsedIn(h) \cup {Fresh(h)}
         /\ g[Fresh(h)].type = type /\ g[Fresh(h)].name = name /\ g[Fresh(h)].parent = d
         /\ Keeps(h, g)
         /\ Fresh(h) \in Unused(h) /\ Dirs(h) \subseteq Dirs(g)
<1> DEFINE x == Fresh(h)
           node == NewNode(type, name, d)
<1>1. x \in Unused(h) /\ x \in Addresses /\ x \notin UsedIn(h) /\ UsedIn(h) \subseteq Addresses
  BY FreshUnused DEF Unused, UsedIn
<1>2. PICK p, f : Slot(h, d, p, f) /\ g = Inserted(h, x, node, p, f)
  BY AddInserts
<1>3. TreeOf(g) /\ UsedIn(g) = UsedIn(h) \cup {x}
  <2> HIDE DEF x
  <2> QED  BY <1>1, <1>2, InsertedTree
<1>4. node \in NodeType /\ node.type = type /\ node.name = name /\ node.parent = d
  <2>1. d \in 0 .. MaxNodes /\ NULL \in 0 .. MaxNodes
    <3>1. d \in Addresses
      BY DEF Dirs, UsedIn
    <3> QED  BY ONLY <3>1, MaxNodesAssumption DEF Addresses, NULL
  <2>2. node = [type |-> type, name |-> name, parent |-> d, child |-> NULL, sibling |-> NULL]
    BY DEF NewNode
  <2>3. type \in {"D", "F", "free"}
    OBVIOUS
  <2> HIDE DEF node
  <2> QED  BY <2>1, <2>2, <2>3 DEF NodeType
<1> HIDE DEF x, node
<1>5. /\ g[x] = node
      /\ \A y \in {NULL} \cup Addresses :
           y # x => /\ g[y].type = h[y].type /\ g[y].name = h[y].name
                    /\ g[y].parent = h[y].parent
  <2>1. Typed(h) /\ f \in {"child", "sibling"}
    BY <1>2 DEF TreeOf, Slot
  <2> QED  BY <1>1, <1>2, <1>4, <2>1, InsertedFields
<1>6. \A y \in UsedIn(h) : /\ g[y].type = h[y].type /\ g[y].name = h[y].name
                           /\ g[y].parent = h[y].parent
  BY <1>1, <1>5
<1>7. Dirs(h) \subseteq Dirs(g)
  BY <1>3, <1>6 DEF Dirs
<1>8. g[x].type = type /\ g[x].name = name /\ g[x].parent = d
  BY <1>4, <1>5
<1>9. Keeps(h, g)
  BY <1>3, <1>6 DEF Keeps
<1> QED  BY <1>1, <1>3, <1>7, <1>8, <1>9 DEF x

\* A token leads from a directory to a directory, if anywhere.
LEMMA EnterDir ==
  ASSUME NEW h, TreeOf(h), NEW x \in {NULL} \cup Dirs(h), NEW tok
  PROVE  Enter(h, x, tok) \in {NULL} \cup Dirs(h)
<1>1. NULL \notin Dirs(h) /\ Dirs(h) \subseteq UsedIn(h)
  BY AddressFacts DEF Dirs, UsedIn
<1>2. CASE x = NULL
  BY <1>2 DEF Enter
<1>3. CASE x # NULL /\ tok = ".."
  <2>1. Enter(h, x, tok) = h[x].parent
    BY <1>3 DEF Enter
  <2> QED  BY <1>1, <1>3, <2>1 DEF TreeOf, ParentKept, Dirs
<1>4. CASE x # NULL /\ tok # ".."
  <2>1. Enter(h, x, tok) = Subdir(h, x, tok)
    BY <1>4 DEF Enter
  <2>2. x \in UsedIn(h)
    BY <1>1, <1>4
  <2> QED  BY <2>1, <2>2, SubdirFinds DEF In, IsSubdir, Dirs
<1> QED  BY <1>2, <1>3, <1>4

\* The first n tokens of a pathname.
IsFind(at, h, d, toks, n) ==
  at = [k \in 0 .. n |-> IF k = 0 THEN d ELSE Enter(h, at[k - 1], toks[k])]

FindWalk(h, d, toks, n) == CHOOSE at : IsFind(at, h, d, toks, n)

LEMMA FindOnWalk ==
  ASSUME NEW h, NEW d, NEW toks
  PROVE  FindFrom(h, d, toks) = FindWalk(h, d, toks, Len(toks))[Len(toks)]
  BY DEF FindFrom, FindWalk, IsFind

LEMMA FindExists ==
  ASSUME NEW h, NEW d, NEW toks, NEW n \in Nat
  PROVE  IsFind(FindWalk(h, d, toks, n), h, d, toks, n)
<1> DEFINE S == {m \in Nat : \E at : IsFind(at, h, d, toks, m)}
<1>1. 0 \in S
  <2>1. IsFind([k \in 0 .. 0 |-> d], h, d, toks, 0)
    BY DEF IsFind
  <2> QED  BY <2>1
<1>2. ASSUME NEW m \in Nat, m \in S PROVE m + 1 \in S
  <2>1. PICK at : IsFind(at, h, d, toks, m)
    BY <1>2
  <2> DEFINE more == [k \in 0 .. m + 1 |->
                        IF k <= m THEN at[k] ELSE Enter(h, at[m], toks[k])]
  <2>2. ASSUME NEW k \in 0 .. m + 1
        PROVE  more[k] = IF k = 0 THEN d ELSE Enter(h, more[k - 1], toks[k])
    <3>1. CASE k <= m
      <4>1. at[k] = IF k = 0 THEN d ELSE Enter(h, at[k - 1], toks[k])
        BY <2>1, <3>1 DEF IsFind
      <4>2. more[k] = at[k] /\ (k # 0 => more[k - 1] = at[k - 1])
        BY <3>1
      <4> HIDE DEF more
      <4> QED  BY <4>1, <4>2
    <3>2. CASE k = m + 1
      BY <3>2
    <3> QED  BY <3>1, <3>2
  <2>3. IsFind(more, h, d, toks, m + 1)
    <3> HIDE DEF more
    <3>1. more = [k \in 0 .. m + 1 |-> more[k]]
      BY DEF more
    <3> QED  BY <2>2, <3>1 DEF IsFind
  <2> HIDE DEF more
  <2> QED  BY <2>3
<1>3. n \in S
  <2> HIDE DEF S
  <2> QED  BY <1>1, <1>2, NatRise
<1> QED  BY <1>3 DEF FindWalk

\* A pathname leads from a directory to a directory, if anywhere.
THEOREM FindGivesDir ==
  ASSUME NEW h, TreeOf(h), NEW d \in {NULL} \cup Dirs(h), NEW toks \in Seq(Token)
  PROVE  FindFrom(h, d, toks) \in {NULL} \cup Dirs(h)
<1> DEFINE n == Len(toks)
           at == FindWalk(h, d, toks, n)
<1>1. n \in Nat
  OBVIOUS
<1> HIDE DEF n
<1>2. \A k \in 0 .. n : at[k] = IF k = 0 THEN d ELSE Enter(h, at[k - 1], toks[k])
  BY <1>1, FindExists DEF IsFind
<1> HIDE DEF at
<1> DEFINE S == {k \in Nat : k \in 0 .. n => at[k] \in {NULL} \cup Dirs(h)}
<1>3. 0 \in S
  BY <1>1, <1>2
<1>4. ASSUME NEW k \in Nat, k \in S PROVE k + 1 \in S
  <2> SUFFICES ASSUME k + 1 \in 0 .. n PROVE at[k + 1] \in {NULL} \cup Dirs(h)
    BY DEF S
  <2>1. at[k] \in {NULL} \cup Dirs(h)
    BY <1>1, <1>4
  <2>2. at[k + 1] = Enter(h, at[k], toks[k + 1])
    BY <1>1, <1>2
  <2> QED  BY <2>1, <2>2, EnterDir
<1>5. n \in S
  <2> HIDE DEF S
  <2> QED  BY <1>1, <1>3, <1>4, NatRise
<1>6. at[n] \in {NULL} \cup Dirs(h)
  BY <1>1, <1>5
<1>7. FindFrom(h, d, toks) = at[n]
  BY FindOnWalk DEF at, n
<1> QED  BY <1>6, <1>7

\* What holds when mkdir, called in tree h, still has m tokens to do.
MkdirInv(h, s, m) ==
  /\ TreeOf(s.h) /\ s.at \in Dirs(s.h)
  /\ Keeps(h, s.h) /\ Dirs(h) \subseteq Dirs(s.h)
  /\ Cardinality(Unused(s.h)) >= m

LEMMA MkdirStepTree ==
  ASSUME NEW h, NEW s, NEW m \in Nat, MkdirInv(h, s, m + 1), NEW tok \in Token
  PROVE  MkdirInv(h, MkdirStep(s, tok), m)
<1> DEFINE sub == Subdir(s.h, s.at, tok)
           x == Fresh(s.h)
           g == Add(s.h, s.at, "D", tok)
           t == MkdirStep(s, tok)
<1>1. /\ TreeOf(s.h) /\ s.at \in Dirs(s.h) /\ s.at \in UsedIn(s.h)
      /\ Keeps(h, s.h) /\ Dirs(h) \subseteq Dirs(s.h) /\ Cardinality(Unused(s.h)) >= m + 1
  BY DEF MkdirInv, Dirs
<1>2. IsFiniteSet(Unused(s.h)) /\ Cardinality(Unused(s.h)) \in Nat
  BY PartOfAddresses DEF Unused
<1>3. t = IF sub # NULL THEN [h |-> s.h, at |-> sub] ELSE [h |-> g, at |-> x]
  BY DEF MkdirStep
<1> HIDE DEF sub, x, g, t
<1>4. CASE sub # NULL
  <2>1. sub \in Dirs(s.h)
    BY <1>1, <1>4, SubdirFinds DEF sub, In, IsSubdir, Dirs
  <2>2. t.h = s.h /\ t.at = sub
    BY <1>3, <1>4
  <2>3. Cardinality(Unused(t.h)) >= m
    BY <1>1, <1>2, <2>2
  <2> QED  BY <1>1, <2>1, <2>2, <2>3 DEF MkdirInv, t
<1>5. CASE sub = NULL
  <2>1. Unused(s.h) # {}
    <3>1. Cardinality({}) = 0
      BY FS_EmptySet
    <3> QED  BY <1>1, <1>2, <3>1
  <2>2. \A y \in In(s.h, s.at) : ~IsSubdir(s.h, y, tok)
    BY <1>1, <1>5, SubdirFinds DEF sub
  <2>3. tok \in NodeName
    BY DEF Token, NodeName
  <2>4. /\ TreeOf(g) /\ UsedIn(g) = UsedIn(s.h) \cup {x} /\ g[x].type = "D"
        /\ x \in Unused(s.h) /\ Keeps(s.h, g) /\ Dirs(s.h) \subseteq Dirs(g)
    BY <1>1, <2>1, <2>2, <2>3, AddTree DEF g, x
  <2>5. x \in Dirs(g)
    BY <2>4 DEF Dirs
  <2>6. Unused(g) = Unused(s.h) \ {x}
    <3>1. \A y \in Addresses : y \in Unused(g) <=> y \notin UsedIn(g)
      BY DEF UsedIn
    <3>2. \A y \in Addresses : y \in Unused(s.h) <=> y \notin UsedIn(s.h)
      BY DEF UsedIn
    <3> QED  BY <2>4, <3>1, <3>2 DEF Unused
  <2>7. Cardinality(Unused(g)) = Cardinality(Unused(s.h)) - 1
    BY <1>2, <2>4, <2>6, FS_RemoveElement
  <2>8. t.h = g /\ t.at = x
    BY <1>3, <1>5
  <2>9. Cardinality(Unused(t.h)) >= m
    BY <1>1, <1>2, <2>7, <2>8
  <2>10. Keeps(h, g)
    BY <1>1, <2>4 DEF Keeps
  <2> QED  BY <1>1, <2>4, <2>5, <2>8, <2>9, <2>10 DEF MkdirInv, t
<1> QED  BY <1>4, <1>5

\* The first n tokens of mkdir.
IsMkdir(s, h, d, toks, n) ==
  s = [k \in 0 .. n |-> IF k = 0 THEN [h |-> h, at |-> d] ELSE MkdirStep(s[k - 1], toks[k])]

MkdirWalk(h, d, toks, n) == CHOOSE s : IsMkdir(s, h, d, toks, n)

LEMMA MkdirOnWalk ==
  ASSUME NEW h, NEW d, NEW toks
  PROVE  MkdirFrom(h, d, toks) = MkdirWalk(h, d, toks, Len(toks))[Len(toks)].h
  BY DEF MkdirFrom, MkdirWalk, IsMkdir

LEMMA MkdirExists ==
  ASSUME NEW h, NEW d, NEW toks, NEW n \in Nat
  PROVE  IsMkdir(MkdirWalk(h, d, toks, n), h, d, toks, n)
<1> DEFINE start == [h |-> h, at |-> d]
           S == {m \in Nat : \E s : IsMkdir(s, h, d, toks, m)}
<1>1. 0 \in S
  <2>1. IsMkdir([k \in 0 .. 0 |-> start], h, d, toks, 0)
    BY DEF IsMkdir
  <2> QED  BY <2>1
<1>2. ASSUME NEW m \in Nat, m \in S PROVE m + 1 \in S
  <2>1. PICK s : IsMkdir(s, h, d, toks, m)
    BY <1>2
  <2> DEFINE more == [k \in 0 .. m + 1 |->
                        IF k <= m THEN s[k] ELSE MkdirStep(s[m], toks[k])]
  <2> HIDE DEF start
  <2>2. ASSUME NEW k \in 0 .. m + 1
        PROVE  more[k] = IF k = 0 THEN start ELSE MkdirStep(more[k - 1], toks[k])
    <3>1. CASE k <= m
      <4>1. s[k] = IF k = 0 THEN start ELSE MkdirStep(s[k - 1], toks[k])
        BY <2>1, <3>1 DEF IsMkdir, start
      <4>2. more[k] = s[k] /\ (k # 0 => more[k - 1] = s[k - 1])
        BY <3>1
      <4> HIDE DEF more
      <4> QED  BY <4>1, <4>2
    <3>2. CASE k = m + 1
      BY <3>2
    <3> QED  BY <3>1, <3>2
  <2>3. IsMkdir(more, h, d, toks, m + 1)
    <3> HIDE DEF more
    <3>1. more = [k \in 0 .. m + 1 |-> more[k]]
      BY DEF more
    <3> QED  BY <2>2, <3>1 DEF IsMkdir, start
  <2> HIDE DEF more
  <2> QED  BY <2>3
<1>3. n \in S
  <2> HIDE DEF S
  <2> QED  BY <1>1, <1>2, NatRise
<1> QED  BY <1>3 DEF MkdirWalk

\* mkdir makes a tree of a tree, and no node gets lost.
THEOREM MkdirTree ==
  ASSUME NEW h, TreeOf(h), NEW d \in Dirs(h), NEW toks \in Seq(Token),
         Cardinality(Unused(h)) >= Len(toks)
  PROVE  LET g == MkdirFrom(h, d, toks)
         IN  TreeOf(g) /\ Keeps(h, g) /\ Dirs(h) \subseteq Dirs(g)
<1> DEFINE n == Len(toks)
           s == MkdirWalk(h, d, toks, n)
<1>1. n \in Nat /\ \A k \in 1 .. n : toks[k] \in Token
  OBVIOUS
<1>2. Cardinality(Unused(h)) >= n
  OBVIOUS
<1> HIDE DEF n
<1> DEFINE start == [h |-> h, at |-> d]
<1>3. \A k \in 0 .. n : s[k] = IF k = 0 THEN start ELSE MkdirStep(s[k - 1], toks[k])
  BY <1>1, MkdirExists DEF IsMkdir
<1>4. MkdirInv(h, start, n)
  BY <1>2 DEF MkdirInv, Keeps
<1> HIDE DEF s, start
<1> DEFINE S == {k \in Nat : k \in 0 .. n => MkdirInv(h, s[k], n - k)}
<1>5. 0 \in S
  <2>1. s[0] = start /\ n - 0 = n
    BY <1>1, <1>3
  <2> QED  BY <1>4, <2>1
<1>6. ASSUME NEW k \in Nat, k \in S PROVE k + 1 \in S
  <2> SUFFICES ASSUME k + 1 \in 0 .. n PROVE MkdirInv(h, s[k + 1], n - (k + 1))
    BY DEF S
  <2> DEFINE m == n - (k + 1)
  <2>1. m \in Nat /\ n - k = m + 1 /\ k \in 0 .. n /\ k + 1 \in 1 .. n
    BY <1>1
  <2>2. MkdirInv(h, s[k], n - k)
    BY <1>6, <2>1
  <2>3. s[k + 1] = MkdirStep(s[k], toks[k + 1])
    BY <1>1, <1>3
  <2> HIDE DEF m
  <2>4. MkdirInv(h, s[k + 1], m)
    BY <1>1, <2>1, <2>2, <2>3, MkdirStepTree
  <2> QED  BY <2>4 DEF m
<1>7. n \in S
  <2> HIDE DEF S
  <2> QED  BY <1>1, <1>5, <1>6, NatRise
<1>8. MkdirInv(h, s[n], n - n)
  BY <1>1, <1>7
<1>9. MkdirFrom(h, d, toks) = s[n].h
  BY MkdirOnWalk DEF s, n
<1> QED  BY <1>8, <1>9 DEF MkdirInv

LEMMA UnlinkedTree ==
  ASSUME NEW h, TreeOf(h), NEW x \in UsedIn(h) \ {Root}, h[x].child = NULL,
         NEW g, g = Unlinked(h, x)
  PROVE  /\ TreeOf(g) /\ UsedIn(g) = UsedIn(h) \ {x} /\ Dirs(g) = Dirs(h) \ {x}
         /\ Keeps(g, h)
<1>1. PICK p, f : Leads(h, p, f, x) /\ g = Removed(h, x, p, f)
  BY UnlinkedRemoves
<1>2. TreeOf(g) /\ UsedIn(g) = UsedIn(h) \ {x}
  BY <1>1, RemovedTree
<1>3. \A y \in {NULL} \cup Addresses :
        y # x => /\ g[y].type = h[y].type /\ g[y].name = h[y].name
                 /\ g[y].parent = h[y].parent
  <2>1. Typed(h) /\ x \in Addresses /\ f \in {"child", "sibling"}
    BY <1>1 DEF TreeOf, UsedIn, Leads
  <2> QED  BY <1>1, <2>1, RemovedFields
<1>4. \A y \in UsedIn(g) : /\ g[y].type = h[y].type /\ g[y].name = h[y].name
                           /\ g[y].parent = h[y].parent
  BY <1>2, <1>3 DEF UsedIn
<1>5. Dirs(g) = Dirs(h) \ {x}
  BY <1>2, <1>4 DEF Dirs
<1>6. Keeps(g, h)
  BY <1>2, <1>4 DEF Keeps
<1> QED  BY <1>2, <1>5, <1>6

-----------------------------------------------------------------------------
(* The commands.                                                           *)

LEMMA PathFacts ==
  ASSUME NEW p \in Paths
  PROVE  /\ p.toks \in Seq(Token) /\ DirOf(p).toks \in Seq(Token)
         /\ DirOf(p).abs = p.abs /\ BaseOf(p) \in NodeName
<1>1. p.toks \in Seq(Token)
  BY PathsAssumption DEF Path, Token
<1>2. DirOf(p).abs = p.abs /\ DirOf(p).toks \in {p.toks, <<>>, Front(p.toks)}
  BY DEF DirOf
<1>3. CASE p.toks = <<>>
  <2>1. BaseOf(p) \in {"", "/"}
    BY <1>3 DEF BaseOf
  <2>2. DirOf(p).toks \in {<<>>, p.toks}
    BY <1>3 DEF DirOf
  <2> QED  BY <1>1, <1>2, <1>3, <2>1, <2>2 DEF NodeName
<1>4. CASE p.toks # <<>>
  <2>1. Front(p.toks) \in Seq(Token)
    BY <1>1, <1>4 DEF Front
  <2>2. Last(p.toks) \in Token
    BY <1>1, <1>4 DEF Last
  <2>3. BaseOf(p) = Last(p.toks)
    BY <1>4 DEF BaseOf
  <2>4. <<>> \in Seq(Token)
    OBVIOUS
  <2>5. DirOf(p).toks \in Seq(Token)
    BY <1>1, <1>2, <2>1, <2>4
  <2> QED  BY <1>1, <1>2, <2>2, <2>3, <2>5 DEF Token, NodeName
<1> QED  BY <1>3, <1>4

\* Where the commands work.
LEMMA FoundFacts ==
  ASSUME TInv, NEW p \in Paths, ~FollowsFreed(p)
  PROVE  /\ (IF p.abs THEN Root ELSE cwd) \in Dirs(heap)
         /\ findPathnameNode(p) \in {NULL} \cup Dirs(heap)
         /\ dnode(p) \in {NULL} \cup Dirs(heap)
<1> DEFINE d == IF p.abs THEN Root ELSE cwd
<1>1. d \in Dirs(heap)
  BY DEF TInv, FollowsFreed, TreeOf, RootKept, Dirs
<1>2. /\ TreeOf(heap) /\ p.toks \in Seq(Token) /\ DirOf(p).toks \in Seq(Token)
      /\ DirOf(p).abs = p.abs
  BY PathFacts DEF TInv
<1>3. /\ findPathnameNode(p) = FindFrom(heap, d, p.toks)
      /\ findPathnameNode(DirOf(p)) = FindFrom(heap, d, DirOf(p).toks)
  BY <1>2 DEF findPathnameNode
<1> HIDE DEF d
<1>4. /\ findPathnameNode(p) \in {NULL} \cup Dirs(heap)
      /\ findPathnameNode(DirOf(p)) \in {NULL} \cup Dirs(heap)
  BY <1>1, <1>2, <1>3, FindGivesDir
<1>5. dnode(p) \in {NULL} \cup Dirs(heap)
  BY <1>4 DEF dnode, TInv
<1> QED  BY <1>1, <1>4, <1>5 DEF d

LEMMA NamedFinds ==
  ASSUME TreeOf(heap), NEW d \in Dirs(heap), NEW name
  PROVE  IF Named(d, name) = NULL THEN \A y \in In(heap, d) : heap[y].name # name
         ELSE Named(d, name) \in In(heap, d) /\ heap[Named(d, name)].name = name
<1> DEFINE kids == Children(heap, d)
           hits == {i \in DOMAIN kids : heap[kids[i]].name = name}
<1>1. PICK m : KidsAre(heap, d, kids, m)
  BY ChildrenAre DEF Dirs
<1> HIDE DEF kids
<1>2. /\ m \in Nat /\ DOMAIN kids = 1 .. m
      /\ \A i \in 1 .. m : kids[i] \in In(heap, d)
      /\ \A y \in In(heap, d) : \E i \in 1 .. m : kids[i] = y
  BY <1>1 DEF KidsAre
<1>3. Named(d, name) = FirstOf(kids, hits)
  BY DEF Named, kids
<1>4. NULL \notin In(heap, d)
  BY AddressFacts DEF In, UsedIn
<1>5. hits = {} => \A y \in In(heap, d) : heap[y].name # name
  BY <1>2
<1>6. \A i \in hits : kids[i] \in In(heap, d) /\ heap[kids[i]].name = name
  BY <1>2
<1>7. hits \in SUBSET (1 .. m)
  BY <1>2
<1> HIDE DEF hits
<1>8. CASE hits = {}
  BY <1>2, <1>3, <1>5, <1>7, <1>8, FirstOfIs
<1>9. CASE hits # {}
  <2>1. PICK i \in hits : FirstOf(kids, hits) = kids[i]
    BY <1>2, <1>7, <1>9, FirstOfIs
  <2> QED  BY <1>3, <1>4, <1>6, <2>1
<1> QED  BY <1>8, <1>9

\* Only directories have children.
LEMMA FileFacts ==
  ASSUME NEW h, TreeOf(h), NEW x \in UsedIn(h)
  PROVE  /\ h[x].type \in {"D", "F"}
         /\ h[x].type = "F" => h[x].child = NULL /\ x # Root
<1>1. h[x].type \in {"D", "F", "free"}
  BY FieldTypes DEF TreeOf, UsedIn
<1>2. h[x].type # "free"
  BY DEF UsedIn, Unused
<1>3. ASSUME h[x].type = "F" PROVE h[x].child = NULL /\ x # Root
  <2>1. ASSUME h[x].child # NULL PROVE FALSE
    <3>1. h[x].child \in UsedIn(h) /\ h[h[x].child].parent = x
      BY <2>1 DEF TreeOf, ChildKept
    <3>2. h[x].type = "D"
      BY <3>1 DEF TreeOf, ParentKept
    <3> QED  BY <1>3, <3>2
  <2> QED  BY <1>3, <2>1 DEF TreeOf, RootKept
<1> QED  BY <1>1, <1>2, <1>3

\* The root alone is a tree.
LEMMA EmptyIsTree == TreeOf(EmptyTree) /\ Root \in Dirs(EmptyTree) /\ UsedIn(EmptyTree) = {Root}
<1> DEFINE h == EmptyTree
           node == [type |-> "D", name |-> "/", parent |-> Root, child |-> NULL, sibling |-> Root]
<1>1. NULL \in 0 .. MaxNodes /\ Root \in 0 .. MaxNodes /\ NULL # Root
  BY MaxNodesAssumption DEF NULL, Root
<1>2. /\ h = [x \in {NULL} \cup Addresses |-> IF x = Root THEN node ELSE Free]
      /\ Root \in Addresses
  BY AddressFacts DEF EmptyTree
<1>3. /\ node \in NodeType /\ node.type = "D" /\ node.name = "/" /\ node.parent = Root
      /\ node.child = NULL /\ node.sibling = Root
  <2>1. "/" \in NodeName
    BY DEF NodeName
  <2> QED  BY <1>1, <2>1 DEF NodeType
<1>4. Free \in NodeType /\ Free.type = "free"
  <2>1. "" \in NodeName
    BY DEF NodeName
  <2> QED  BY <1>1, <2>1 DEF NodeType, Free
<1> HIDE DEF h, node
<1>5. h[Root] = node /\ \A x \in ({NULL} \cup Addresses) \ {Root} : h[x] = Free
  BY <1>2
<1>6. UsedIn(h) = {Root} /\ Unused(h) = Addresses \ {Root}
  <2>1. Unused(h) = Addresses \ {Root}
    <3>1. h[Root].type = "D" /\ \A x \in Addresses \ {Root} : h[x].type = "free"
      BY <1>3, <1>4, <1>5
    <3> QED  BY <3>1 DEF Unused
  <2> QED  BY <1>2, <2>1 DEF UsedIn
<1>7. Typed(h)
  <2>1. h \in Heap
    BY <1>2, <1>3, <1>4 DEF Heap
  <2> QED  BY <1>1, <1>5, <1>6, <2>1 DEF Typed
<1>8. RootKept(h) /\ ChildKept(h) /\ SiblingKept(h) /\ OnePointer(h) /\ ParentKept(h)
  BY <1>3, <1>5, <1>6 DEF RootKept, ChildKept, SiblingKept, OnePointer, ParentKept
<1>9. DirNames(h) /\ Connected(h) /\ UniqueDirs(h)
  BY <1>6 DEF DirNames, Connected, UniqueDirs
<1>10. TreeOf(h)
  BY <1>7, <1>8, <1>9 DEF TreeOf
<1>11. Root \in Dirs(h)
  BY <1>3, <1>5, <1>6 DEF Dirs
<1> QED  BY <1>6, <1>10, <1>11 DEF h

LEMMA InitTree == Init => TInv
  BY EmptyIsTree DEF Init, TInv

LEMMA MkdirKeeps ==
  ASSUME TInv, NEW p \in Paths, Mkdir(p)
  PROVE  TInv'
<1>1. CASE FollowsFreed(p) /\ p.toks # <<>>
  BY <1>1 DEF Mkdir, Undefined, TInv
<1>2. CASE ~FollowsFreed(p)
  <2> DEFINE d == IF p.abs THEN Root ELSE cwd
             g == MkdirFrom(heap, d, p.toks)
  <2>1. /\ heap' = g /\ UNCHANGED <<cwd, status>>
        /\ Cardinality(Unused(heap)) >= Len(p.toks)
    BY <1>2 DEF Mkdir
  <2>2. TreeOf(heap) /\ d \in Dirs(heap) /\ p.toks \in Seq(Token)
    BY <1>2, FoundFacts, PathFacts DEF TInv
  <2> HIDE DEF d
  <2>3. TreeOf(g) /\ Dirs(heap) \subseteq Dirs(g)
    BY <2>1, <2>2, MkdirTree
  <2> HIDE DEF g
  <2>4. TreeOf(heap') /\ cwd' \in {NULL} \cup Dirs(heap')
    BY <2>1, <2>3 DEF TInv
  <2> QED  BY <2>1, <2>4 DEF TInv
<1>3. CASE FollowsFreed(p) /\ p.toks = <<>>
  <2>1. heap' = heap /\ UNCHANGED <<cwd, status>>
    <3>1. heap' = MkdirFrom(heap, cwd, p.toks) /\ UNCHANGED <<cwd, status>>
      BY <1>3 DEF Mkdir, FollowsFreed
    <3>2. MkdirWalk(heap, cwd, p.toks, 0)[0] = [h |-> heap, at |-> cwd]
      BY MkdirExists DEF IsMkdir
    <3>3. Len(p.toks) = 0
      BY <1>3
    <3> QED  BY <3>1, <3>2, <3>3, MkdirOnWalk
  <2> QED  BY <2>1 DEF TInv
<1> QED  BY <1>1, <1>2, <1>3

LEMMA RmdirKeeps ==
  ASSUME TInv, NEW p \in Paths, Rmdir(p)
  PROVE  TInv'
<1> DEFINE x == findPathnameNode(p)
<1>1. CASE FollowsFreed(p)
  BY <1>1 DEF Rmdir, Undefined, TInv
<1>2. CASE ~FollowsFreed(p) /\ (x = NULL \/ heap[x].child # NULL)
  BY <1>2 DEF Rmdir, vars, TInv
<1>3. CASE ~FollowsFreed(p) /\ ~(x = NULL \/ heap[x].child # NULL) /\ x = Root
  BY <1>3 DEF Rmdir, Crash, TInv
<1>4. CASE ~FollowsFreed(p) /\ ~(x = NULL \/ heap[x].child # NULL) /\ x # Root
  <2>1. /\ heap' = Unlinked(heap, x)
        /\ cwd' = IF cwd = x THEN NULL ELSE cwd
        /\ status' = status
    BY <1>4 DEF Rmdir
  <2>2. TreeOf(heap) /\ x \in Dirs(heap) /\ x \in UsedIn(heap) \ {Root}
    BY <1>4, FoundFacts DEF TInv, Dirs
  <2> HIDE DEF x
  <2>3. TreeOf(heap') /\ Dirs(heap') = Dirs(heap) \ {x}
    BY <1>4, <2>1, <2>2, UnlinkedTree
  <2> QED  BY <2>1, <2>3 DEF TInv
<1> QED  BY <1>1, <1>2, <1>3, <1>4

LEMMA CreatKeeps ==
  ASSUME TInv, NEW p \in Paths, Creat(p)
  PROVE  TInv'
<1> DEFINE d == dnode(p)
<1>1. CASE FollowsFreed(p)
  BY <1>1 DEF Creat, Undefined, TInv
<1>2. CASE ~FollowsFreed(p) /\ d = NULL
  BY <1>2 DEF Creat, vars, TInv
<1>3. CASE ~FollowsFreed(p) /\ d # NULL
  <2>1. heap' = Add(heap, d, "F", BaseOf(p)) /\ UNCHANGED <<cwd, status>> /\ Unused(heap) # {}
    BY <1>3 DEF Creat
  <2>2. TreeOf(heap) /\ d \in Dirs(heap) /\ BaseOf(p) \in NodeName
    BY <1>3, FoundFacts, PathFacts DEF TInv
  <2> HIDE DEF d
  <2>3. TreeOf(heap') /\ Dirs(heap) \subseteq Dirs(heap')
    BY <2>1, <2>2, AddTree
  <2> QED  BY <2>1, <2>3 DEF TInv
<1> QED  BY <1>1, <1>2, <1>3

LEMMA RmKeeps ==
  ASSUME TInv, NEW p \in Paths, Rm(p)
  PROVE  TInv'
<1> DEFINE d == dnode(p)
           x == Named(d, BaseOf(p))
<1>1. CASE FollowsFreed(p)
  BY <1>1 DEF Rm, Undefined, TInv
<1>2. CASE ~FollowsFreed(p) /\ d = NULL
  BY <1>2 DEF Rm, vars, TInv
<1>3. CASE ~FollowsFreed(p) /\ d # NULL /\ x = NULL
  BY <1>3 DEF Rm, Crash, vars, TInv
<1>4. CASE ~FollowsFreed(p) /\ d # NULL /\ x # NULL
  <2>1. /\ heap' = IF heap[x].type = "F" THEN Unlinked(heap, x) ELSE heap
        /\ UNCHANGED <<cwd, status>>
    BY <1>4 DEF Rm
  <2>2. TreeOf(heap) /\ d \in Dirs(heap)
    BY <1>4, FoundFacts DEF TInv
  <2> HIDE DEF d
  <2>3. x \in UsedIn(heap) \ {Root}
    BY <1>4, <2>2, NamedFinds DEF In
  <2> HIDE DEF x
  <2>4. CASE heap[x].type = "F"
    <3>1. heap[x].child = NULL
      BY <2>2, <2>3, <2>4, FileFacts
    <3>2. TreeOf(heap') /\ Dirs(heap') = Dirs(heap) \ {x}
      BY <2>1, <2>2, <2>3, <2>4, <3>1, UnlinkedTree
    <3>3. x \notin Dirs(heap)
      BY <2>4 DEF Dirs
    <3> QED  BY <2>1, <3>2, <3>3 DEF TInv
  <2>5. CASE heap[x].type # "F"
    BY <2>1, <2>5 DEF TInv
  <2> QED  BY <2>4, <2>5
<1> QED  BY <1>1, <1>2, <1>3, <1>4

LEMMA TreeStep == TInv /\ [Next]_vars => TInv'
<1> SUFFICES ASSUME TInv, [Next]_vars PROVE TInv'
  OBVIOUS
<1>1. CASE UNCHANGED vars
  BY <1>1 DEF vars, TInv
<1>2. CASE Pwd
  BY <1>2 DEF Pwd, Undefined, vars, TInv
<1>3. ASSUME NEW p \in Paths, Mkdir(p) PROVE TInv'
  BY <1>3, MkdirKeeps
<1>4. ASSUME NEW p \in Paths, Rmdir(p) PROVE TInv'
  BY <1>4, RmdirKeeps
<1>5. ASSUME NEW p \in Paths, Cd(p) PROVE TInv'
  <2>1. CASE FollowsFreed(p)
    BY <1>5, <2>1 DEF Cd, Undefined, TInv
  <2>2. CASE ~FollowsFreed(p)
    <3>1. cwd' = IfFound(findPathnameNode(p)) /\ UNCHANGED <<heap, status>>
      BY <1>5, <2>2 DEF Cd
    <3>2. cwd' \in {NULL} \cup Dirs(heap)
      BY <2>2, <3>1, FoundFacts DEF IfFound, TInv
    <3> QED  BY <3>1, <3>2 DEF TInv
  <2> QED  BY <2>1, <2>2
<1>6. ASSUME NEW p \in Paths, Ls(p) PROVE TInv'
  BY <1>6 DEF Ls, Undefined, vars, TInv
<1>7. ASSUME NEW p \in Paths, Creat(p) PROVE TInv'
  BY <1>7, CreatKeeps
<1>8. ASSUME NEW p \in Paths, Rm(p) PROVE TInv'
  BY <1>8, RmKeeps
<1> QED  BY <1>1, <1>2, <1>3, <1>4, <1>5, <1>6, <1>7, <1>8 DEF Next, Command, Ended

THEOREM TreeInvariance == Spec => []TInv
  BY InitTree, TreeStep, PTL DEF Spec

-----------------------------------------------------------------------------
(* What follows of the invariant.                                          *)

\* The values every variable may take: in particular the current directory,
\* whenever it is not freed memory, is a directory.
THEOREM TypeCorrect == Spec => []TypeOK
<1>1. TInv => TypeOK
  <2> SUFFICES ASSUME TInv PROVE TypeOK
    OBVIOUS
  <2>1. heap \in Heap /\ (cwd = NULL \/ heap[cwd].type = "D")
    BY DEF TInv, TreeOf, Typed, Dirs
  <2>2. status \in {"running", "crashed", "undefined"}
    BY DEF TInv
  <2> QED  BY <2>1, <2>2 DEF TypeOK, Heap, NodeType, NodeName
<1> QED  BY <1>1, TreeInvariance, PTL

\* The nodes of a tree form one tree, in the words of TreeShape.
LEMMA TreeShapeIs ==
  ASSUME TreeOf(heap)
  PROVE  TreeShape
<1>1. TreeOf(heap) /\ Used = UsedIn(heap) /\ Root \in Used /\ Used \subseteq Addresses
  BY DEF TreeOf, RootKept, Used, UsedIn
<1>2. Closed(heap, Used)
  BY <1>1 DEF TreeOf, ChildKept, SiblingKept, Closed
<1>3. Reached \subseteq Used
  BY <1>1, <1>2 DEF Reached
<1>4. ASSUME NEW x \in Used, NEW S \in SUBSET Addresses, Root \in S, Closed(heap, S)
      PROVE  x \in S
  <2> DEFINE T == S \cap Used
  <2>1. T \subseteq Used /\ Root \in T
    BY <1>1, <1>4
  <2>2. Closed(heap, T)
    BY <1>2, <1>4 DEF Closed
  <2> HIDE DEF T
  <2>3. T = Used
    BY <1>1, <2>1, <2>2 DEF TreeOf, Connected
  <2> QED  BY <2>3 DEF T
<1>5. Reached = Used
  BY <1>1, <1>3, <1>4 DEF Reached
<1>6. ASSUME NEW x \in Used \ {Root}
      PROVE  Cardinality({y \in Used : heap[y].child = x})
               + Cardinality({y \in Used \ {Root} : heap[y].sibling = x}) = 1
  <2> DEFINE A == {y \in Used : heap[y].child = x}
             B == {y \in Used \ {Root} : heap[y].sibling = x}
  <2>1. PICK p, f : Leads(heap, p, f, x)
    BY <1>1, SomeLeads
  <2>2. x # NULL /\ p \in Used /\ f \in {"child", "sibling"}
    BY <1>1, <2>1, AddressFacts DEF Leads
  <2>3. CASE f = "child"
    <3>1. heap[p].child = x
      BY <2>1, <2>3 DEF Leads
    <3>2. A = {p}
      BY <1>1, <2>2, <3>1 DEF TreeOf, ChildKept
    <3>3. B = {}
      BY <1>1, <2>2, <3>1 DEF TreeOf, OnePointer
    <3> HIDE DEF A, B
    <3>4. Cardinality(A) = 1 /\ Cardinality(B) = 0
      BY <3>2, <3>3, FS_Singleton, FS_EmptySet
    <3> QED  BY <3>4 DEF A, B
  <2>4. CASE f = "sibling"
    <3>1. p # Root /\ heap[p].sibling = x
      BY <2>1, <2>4 DEF Leads
    <3>2. B = {p}
      BY <1>1, <2>2, <3>1 DEF TreeOf, OnePointer
    <3>3. A = {}
      BY <1>1, <2>2, <3>1 DEF TreeOf, OnePointer
    <3> HIDE DEF A, B
    <3>4. Cardinality(A) = 0 /\ Cardinality(B) = 1
      BY <3>2, <3>3, FS_Singleton, FS_EmptySet
    <3> QED  BY <3>4 DEF A, B
  <2> HIDE DEF A, B
  <2> QED  BY <2>2, <2>3, <2>4
<1>7. ASSUME NEW x \in Used
      PROVE  /\ heap[x].child # NULL => heap[heap[x].child].parent = x
             /\ heap[x].sibling # NULL => heap[heap[x].sibling].parent = heap[x].parent
             /\ heap[x].type = "F" => heap[x].child = NULL
  <2>1. heap[x].type = "F" => heap[x].child = NULL
    BY <1>1, FileFacts
  <2>2. heap[x].child # NULL => heap[heap[x].child].parent = x
    BY <1>1 DEF TreeOf, ChildKept
  <2>3. heap[x].sibling # NULL => heap[heap[x].sibling].parent = heap[x].parent
    BY <1>1 DEF TreeOf, RootKept, SiblingKept
  <2> QED  BY <2>1, <2>2, <2>3
<1> QED  BY <1>5, <1>6, <1>7 DEF TreeShape

\* After any sequence of mkdir, creat, rmdir and rm the nodes in use form one
\* tree: none is lost and none is linked twice.
THEOREM TreeShapeHolds == Spec => []TreeShape
<1>1. TInv => TreeShape
  BY TreeShapeIs DEF TInv
<1> QED  BY <1>1, TreeInvariance, PTL

\* A pathname means one directory: mkdir never makes a second directory of the
\* name of one that is there.
THEOREM DirsUniqueHolds == Spec => []DirsUnique
<1>1. TInv => DirsUnique
  BY DEF TInv, TreeOf, UniqueDirs, DirsUnique, Used, UsedIn
<1> QED  BY <1>1, TreeInvariance, PTL

=============================================================================
