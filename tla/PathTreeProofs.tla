--------------------------- MODULE PathTreeProofs ---------------------------
(* The paths of the nodes of FileTree: pwd leads back, and the commands do   *)
(* what PathTree says, for all names, pathnames and numbers of nodes.        *)
EXTENDS FileTreeProofs, SequenceTheorems

-----------------------------------------------------------------------------
(* Paths.                                                                  *)

\* Induction along the tree, for a set in place of a predicate.
LEMMA TreeInduction ==
  ASSUME NEW h, TreeOf(h), NEW S, Root \in S,
         \A x \in UsedIn(h) \ {Root} : h[x].parent \in S => x \in S
  PROVE  UsedIn(h) \subseteq S
<1> DEFINE T == {x \in UsedIn(h) : x \in S /\ h[x].parent \in S}
<1>1. T \subseteq UsedIn(h) /\ Root \in T
  BY DEF TreeOf, RootKept
<1>2. ASSUME NEW x \in T, h[x].child # NULL PROVE h[x].child \in T
  BY <1>2 DEF TreeOf, ChildKept
<1>3. ASSUME NEW x \in T, x # Root, h[x].sibling # NULL PROVE h[x].sibling \in T
  <2>1. h[x].sibling \in UsedIn(h) \ {Root} /\ h[h[x].sibling].parent = h[x].parent
    BY <1>3 DEF TreeOf, SiblingKept
  <2> QED  BY <2>1
<1>4. \A x \in T : x \in S
  OBVIOUS
<1> HIDE DEF T
<1>5. Closed(h, T)
  BY <1>2, <1>3 DEF Closed
<1>6. T = UsedIn(h)
  BY <1>1, <1>5 DEF TreeOf, Connected
<1> QED  BY <1>4, <1>6

\* Only the root is its own parent.
LEMMA ParentIsOther ==
  ASSUME NEW h, TreeOf(h), NEW y \in UsedIn(h)
  PROVE  h[y].parent = y <=> y = Root
<1>1. h[Root].parent = Root
  BY DEF TreeOf, RootKept
<1>2. ASSUME h[y].parent = y, y # Root PROVE FALSE
  <2> DEFINE S == UsedIn(h) \ {y}
  <2>1. Root \in S
    BY <1>2 DEF TreeOf, RootKept
  <2>2. \A x \in UsedIn(h) \ {Root} : h[x].parent \in S => x \in S
    BY <1>2
  <2>3. y \notin S
    OBVIOUS
  <2> HIDE DEF S
  <2> QED  BY <2>1, <2>2, <2>3, TreeInduction
<1> QED  BY <1>1, <1>2

IsNames(f, h) ==
  f = [y \in Addresses \ Unused(h) |->
         IF h[y].parent = y THEN <<>> ELSE Append(f[h[y].parent], h[y].name)]

LEMMA NamesOnTree ==
  ASSUME NEW h, NEW x
  PROVE  NamesTo(h, x) = (CHOOSE f : IsNames(f, h))[x]
  BY DEF NamesTo, IsNames

\* f gives the nodes of A, which has all their parents, their paths.
PartNames(h, A, f) ==
  /\ A \in SUBSET UsedIn(h) /\ Root \in A
  /\ \A y \in A : /\ h[y].parent \in A
                  /\ f[y] = IF h[y].parent = y THEN <<>> ELSE Append(f[h[y].parent], h[y].name)

\* There are paths: no greatest such A leaves a node out.
LEMMA NamesExist ==
  ASSUME NEW h, TreeOf(h)
  PROVE  \E f : IsNames(f, h)
<1> DEFINE U == UsedIn(h)
           K == {k \in Nat : \E A, f : PartNames(h, A, f) /\ k = Cardinality(U \ A)}
<1>1. \A A : IsFiniteSet(U \ A) /\ Cardinality(U \ A) \in Nat
  BY PartOfAddresses DEF UsedIn
<1>2. K # {}
  <2> DEFINE f == [y \in {Root} |-> <<>>]
  <2>1. PartNames(h, {Root}, f)
    BY DEF PartNames, TreeOf, RootKept
  <2>2. Cardinality(U \ {Root}) \in Nat
    BY <1>1
  <2> HIDE DEF f, U
  <2> QED  BY <2>1, <2>2
<1>3. PICK k \in K : \A j \in K : k <= j
  <2>1. K \in SUBSET Nat
    OBVIOUS
  <2> HIDE DEF K
  <2> QED  BY <1>2, <2>1, LeastNumber
<1>4. PICK A, f : PartNames(h, A, f) /\ k = Cardinality(U \ A)
  BY <1>3
<1>5. ASSUME NEW x \in U \ {Root}, h[x].parent \in A, x \notin A PROVE FALSE
  <2> DEFINE B == A \cup {x}
             e == [y \in B |-> IF y = x THEN Append(f[h[x].parent], h[x].name) ELSE f[y]]
  <2>1. /\ B \in SUBSET U /\ Root \in B
        /\ \A y \in A : h[y].parent \in A /\ y # x /\ h[y].parent # x
    BY <1>4, <1>5 DEF PartNames
  <2>2. e[x] = Append(f[h[x].parent], h[x].name) /\ \A y \in A : e[y] = f[y]
    BY <1>5
  <2> HIDE DEF e
  <2>3. ASSUME NEW y \in B
        PROVE  /\ h[y].parent \in B
               /\ e[y] = IF h[y].parent = y THEN <<>> ELSE Append(e[h[y].parent], h[y].name)
    <3>1. CASE y = x
      <4>1. h[y].parent # y /\ e[h[x].parent] = f[h[x].parent]
        BY <1>5, <2>2, <3>1
      <4> QED  BY <1>5, <2>2, <3>1, <4>1
    <3>2. CASE y \in A
      <4>1. f[y] = IF h[y].parent = y THEN <<>> ELSE Append(f[h[y].parent], h[y].name)
        BY <1>4, <3>2 DEF PartNames
      <4> QED  BY <2>1, <2>2, <3>2, <4>1
    <3> QED  BY <3>1, <3>2
  <2>4. PartNames(h, B, e)
    BY <2>1, <2>3 DEF PartNames
  <2>5. Cardinality(U \ B) = Cardinality(U \ A) - 1
    <3>1. U \ B = (U \ A) \ {x} /\ x \in U \ A
      BY <1>5
    <3> QED  BY <1>1, <3>1, FS_RemoveElement
  <2>6. Cardinality(U \ B) \in K
    BY <1>1, <2>4
  <2>7. k \in Nat /\ Cardinality(U \ B) = k - 1
    BY <1>4, <2>5
  <2>8. k <= Cardinality(U \ B)
    BY <1>3, <2>6
  <2> HIDE DEF K, U, B
  <2> QED  BY <2>7, <2>8
<1>6. U \subseteq A
  BY <1>4, <1>5, TreeInduction DEF PartNames
<1>7. A = U
  BY <1>4, <1>6 DEF PartNames
<1> DEFINE g == [y \in U |-> f[y]]
<1>8. \A y \in U : g[y] = IF h[y].parent = y THEN <<>> ELSE Append(g[h[y].parent], h[y].name)
  BY <1>4, <1>7 DEF PartNames
<1>9. g = [y \in U |-> g[y]]
  OBVIOUS
<1> HIDE DEF g
<1>10. IsNames(g, h)
  BY <1>8, <1>9 DEF IsNames, UsedIn
<1> QED  BY <1>10

\* What the path of a node is.
THEOREM NamesStep ==
  ASSUME NEW h, TreeOf(h)
  PROVE  /\ NamesTo(h, Root) = <<>>
         /\ \A y \in UsedIn(h) \ {Root} :
              NamesTo(h, y) = Append(NamesTo(h, h[y].parent), h[y].name)
<1> DEFINE f == CHOOSE f : IsNames(f, h)
<1>1. IsNames(f, h)
  BY NamesExist
<1>2. \A y : NamesTo(h, y) = f[y]
  BY NamesOnTree
<1> HIDE DEF f
<1>3. \A y \in UsedIn(h) : f[y] = IF h[y].parent = y THEN <<>>
                                  ELSE Append(f[h[y].parent], h[y].name)
  BY <1>1 DEF IsNames, UsedIn
<1>4. Root \in UsedIn(h)
  BY DEF TreeOf, RootKept
<1> QED  BY <1>2, <1>3, <1>4, ParentIsOther
\* Nodes that are in two trees, with the same names and parents, have the same
\* paths.
LEMMA NamesSame ==
  ASSUME NEW h, TreeOf(h), NEW g, TreeOf(g), Keeps(h, g), NEW x \in UsedIn(h)
  PROVE  NamesTo(g, x) = NamesTo(h, x)
<1> DEFINE S == {y \in UsedIn(h) : NamesTo(g, y) = NamesTo(h, y)}
<1>1. Root \in S
  <2>1. Root \in UsedIn(h)
    BY DEF TreeOf, RootKept
  <2>2. NamesTo(g, Root) = NamesTo(h, Root)
    BY NamesStep
  <2> QED  BY <2>1, <2>2
<1>2. ASSUME NEW y \in UsedIn(h) \ {Root}, h[y].parent \in S PROVE y \in S
  <2>1. NamesTo(g, h[y].parent) = NamesTo(h, h[y].parent)
    BY <1>2
  <2>2. y \in UsedIn(g) \ {Root} /\ g[y].name = h[y].name /\ g[y].parent = h[y].parent
    BY DEF Keeps
  <2>3. NamesTo(g, y) = Append(NamesTo(g, g[y].parent), g[y].name)
    BY <2>2, NamesStep
  <2>4. NamesTo(h, y) = Append(NamesTo(h, h[y].parent), h[y].name)
    BY NamesStep
  <2> QED  BY <2>1, <2>2, <2>3, <2>4
<1>3. UsedIn(h) \subseteq S
  <2> HIDE DEF S
  <2> QED  BY <1>1, <1>2, TreeInduction
<1> QED  BY <1>3

\* Paths are sequences of names, those of directories of tokens.
LEMMA NamesAreNames ==
  ASSUME NEW h, TreeOf(h)
  PROVE  /\ \A x \in UsedIn(h) : NamesTo(h, x) \in Seq(NodeName)
         /\ \A x \in Dirs(h) : NamesTo(h, x) \in Seq(Token)
<1>1. /\ Root \in UsedIn(h) /\ NamesTo(h, Root) = <<>>
      /\ \A y \in UsedIn(h) \ {Root} :
           NamesTo(h, y) = Append(NamesTo(h, h[y].parent), h[y].name)
  BY NamesStep DEF TreeOf, RootKept
<1> DEFINE S == {y \in UsedIn(h) : NamesTo(h, y) \in Seq(NodeName)}
           T == {y \in UsedIn(h) : y \in Dirs(h) => NamesTo(h, y) \in Seq(Token)}
<1>2. Root \in S /\ Root \in T
  BY <1>1, EmptySeq
<1>3. ASSUME NEW y \in UsedIn(h) \ {Root}, h[y].parent \in S PROVE y \in S
  <2>1. h[y].name \in NodeName
    BY FieldTypes DEF TreeOf, UsedIn
  <2> QED  BY <1>1, <1>3, <2>1, AppendProperties
<1>4. ASSUME NEW y \in UsedIn(h) \ {Root}, h[y].parent \in T PROVE y \in T
  <2>1. h[y].parent \in Dirs(h)
    BY DEF TreeOf, ParentKept, Dirs
  <2>2. y \in Dirs(h) => h[y].name \in Token
    BY DEF TreeOf, DirNames, Dirs
  <2>3. NamesTo(h, h[y].parent) \in Seq(Token)
    BY <1>4, <2>1
  <2> QED  BY <1>1, <2>2, <2>3, AppendProperties
<1>5. UsedIn(h) \subseteq S /\ UsedIn(h) \subseteq T
  <2> HIDE DEF S, T
  <2> QED  BY <1>2, <1>3, <1>4, TreeInduction
<1>6. Dirs(h) \subseteq UsedIn(h)
  BY DEF Dirs
<1> QED  BY <1>5, <1>6

\* The path of a node in a directory tells the directory and the name.
LEMMA PathOfChild ==
  ASSUME NEW h, TreeOf(h), NEW y \in UsedIn(h) \ {Root}, NEW q \in Seq(NodeName), NEW b \in NodeName
  PROVE  NamesTo(h, y) = Append(q, b) <=> NamesTo(h, h[y].parent) = q /\ h[y].name = b
<1>1. NamesTo(h, y) = Append(NamesTo(h, h[y].parent), h[y].name)
  BY NamesStep
<1>2. NamesTo(h, h[y].parent) \in Seq(NodeName) /\ h[y].name \in NodeName
  BY NamesAreNames, FieldTypes DEF TreeOf, ParentKept, UsedIn
<1> QED  BY <1>1, <1>2, AppendInjective

LEMMA PathNotEmpty ==
  ASSUME NEW h, TreeOf(h), NEW y \in UsedIn(h), NamesTo(h, y) = <<>>
  PROVE  y = Root
<1> SUFFICES ASSUME y # Root PROVE FALSE
  OBVIOUS
<1>1. NamesTo(h, y) = Append(NamesTo(h, h[y].parent), h[y].name)
  BY NamesStep
<1>2. NamesTo(h, h[y].parent) \in Seq(NodeName) /\ h[y].name \in NodeName
  BY NamesAreNames, FieldTypes DEF TreeOf, ParentKept, UsedIn
<1> QED  BY <1>1, <1>2, AppendProperties

\* A path is the path of one directory only.
THEOREM PathsOfDirs ==
  ASSUME NEW h, TreeOf(h), NEW x \in Dirs(h), NEW y \in Dirs(h), NamesTo(h, x) = NamesTo(h, y)
  PROVE  x = y
<1> DEFINE S == {u \in UsedIn(h) : u \in Dirs(h) =>
                   \A v \in Dirs(h) : NamesTo(h, u) = NamesTo(h, v) => u = v}
<1>1. Dirs(h) \subseteq UsedIn(h) /\ Root \in UsedIn(h) /\ NamesTo(h, Root) = <<>>
  BY NamesStep DEF Dirs, TreeOf, RootKept
<1>2. Root \in S
  BY <1>1, PathNotEmpty
<1>3. ASSUME NEW u \in UsedIn(h) \ {Root}, h[u].parent \in S PROVE u \in S
  <2> SUFFICES ASSUME u \in Dirs(h), NEW v \in Dirs(h), NamesTo(h, u) = NamesTo(h, v)
               PROVE  u = v
    OBVIOUS
  <2>1. NamesTo(h, u) = Append(NamesTo(h, h[u].parent), h[u].name)
    BY NamesStep
  <2>2. /\ NamesTo(h, h[u].parent) \in Seq(NodeName) /\ h[u].name \in NodeName
        /\ h[u].parent \in Dirs(h)
    BY NamesAreNames, FieldTypes DEF TreeOf, ParentKept, UsedIn, Dirs
  <2>3. v \in UsedIn(h) \ {Root}
    <3>1. NamesTo(h, u) # <<>>
      BY <2>1, <2>2, AppendProperties
    <3> HIDE DEF S
    <3> QED  BY <1>1, <3>1
  <2>4. NamesTo(h, h[v].parent) = NamesTo(h, h[u].parent) /\ h[v].name = h[u].name
    <3>1. NamesTo(h, v) = Append(NamesTo(h, h[u].parent), h[u].name)
      BY <2>1
    <3> HIDE DEF S
    <3> QED  BY <2>2, <2>3, <3>1, PathOfChild
  <2>5. h[v].parent \in Dirs(h)
    BY <2>3 DEF TreeOf, ParentKept, Dirs
  <2>6. h[u].parent = h[v].parent
    BY <1>3, <2>2, <2>4, <2>5
  <2> QED  BY <2>3, <2>4, <2>6 DEF TreeOf, UniqueDirs, Dirs
<1>4. UsedIn(h) \subseteq S
  <2> HIDE DEF S
  <2> QED  BY <1>2, <1>3, TreeInduction
<1> QED  BY <1>1, <1>4
-----------------------------------------------------------------------------
(* pwd leads back.                                                         *)

LEMMA FindNothing ==
  ASSUME NEW h, NEW d
  PROVE  FindFrom(h, d, <<>>) = d
<1>1. FindWalk(h, d, <<>>, 0)[0] = d
  BY FindExists DEF IsFind
<1>2. Len(<<>>) = 0
  OBVIOUS
<1> QED  BY <1>1, <1>2, FindOnWalk

LEMMA FindAppend ==
  ASSUME NEW h, NEW d, NEW S, NEW toks \in Seq(S), NEW tok \in S
  PROVE  FindFrom(h, d, Append(toks, tok)) = Enter(h, FindFrom(h, d, toks), tok)
<1> DEFINE n == Len(toks)
           more == Append(toks, tok)
           at == FindWalk(h, d, toks, n)
           at2 == FindWalk(h, d, more, n + 1)
<1>1. /\ n \in Nat /\ Len(more) = n + 1 /\ more[n + 1] = tok
      /\ \A i \in 1 .. n : more[i] = toks[i]
  BY AppendProperties
<1>2. FindFrom(h, d, toks) = at[n] /\ FindFrom(h, d, more) = at2[n + 1]
  BY <1>1, FindOnWalk
<1> HIDE DEF more, n
<1>3. \A k \in 0 .. n : at[k] = IF k = 0 THEN d ELSE Enter(h, at[k - 1], toks[k])
  BY <1>1, FindExists DEF IsFind
<1>4. \A k \in 0 .. n + 1 : at2[k] = IF k = 0 THEN d ELSE Enter(h, at2[k - 1], more[k])
  BY <1>1, FindExists DEF IsFind
<1> HIDE DEF at, at2
<1> DEFINE K == {k \in Nat : k \in 0 .. n => at2[k] = at[k]}
<1>5. 0 \in K
  BY <1>1, <1>3, <1>4
<1>6. ASSUME NEW k \in Nat, k \in K PROVE k + 1 \in K
  <2> SUFFICES ASSUME k + 1 \in 0 .. n PROVE at2[k + 1] = at[k + 1]
    BY DEF K
  <2>1. at2[k] = at[k]
    BY <1>1, <1>6
  <2>2. k + 1 \in 1 .. n /\ k + 1 \in 0 .. n + 1 /\ (k + 1) - 1 = k /\ k + 1 # 0
    BY <1>1
  <2>3. at[k + 1] = Enter(h, at[k], toks[k + 1]) /\ at2[k + 1] = Enter(h, at2[k], more[k + 1])
    BY <1>3, <1>4, <2>2
  <2> QED  BY <1>1, <2>1, <2>2, <2>3
<1>7. n \in K
  <2> HIDE DEF K
  <2> QED  BY <1>1, <1>5, <1>6, NatRise
<1>8. at2[n] = at[n]
  BY <1>1, <1>7
<1>9. at2[n + 1] = Enter(h, at2[n], more[n + 1])
  BY <1>1, <1>4
<1> QED  BY <1>1, <1>2, <1>8, <1>9 DEF more

\* A directory below none of the name ".." is where its path leads from the root.
THEOREM PathLeadsBack ==
  ASSUME NEW h, TreeOf(h), NEW x \in Dirs(h), NamesTo(h, x) \in Seq(Names)
  PROVE  FindFrom(h, Root, NamesTo(h, x)) = x
<1> DEFINE S == {u \in UsedIn(h) : u \in Dirs(h) /\ NamesTo(h, u) \in Seq(Names) =>
                   FindFrom(h, Root, NamesTo(h, u)) = u}
<1>1. Root \in S
  BY NamesStep, FindNothing DEF TreeOf, RootKept
<1>2. ASSUME NEW u \in UsedIn(h) \ {Root}, h[u].parent \in S PROVE u \in S
  <2> SUFFICES ASSUME u \in Dirs(h), NamesTo(h, u) \in Seq(Names)
               PROVE  FindFrom(h, Root, NamesTo(h, u)) = u
    OBVIOUS
  <2> DEFINE d == h[u].parent
             q == NamesTo(h, d)
             t == h[u].name
  <2>1. NamesTo(h, u) = Append(q, t) /\ d \in Dirs(h) /\ d \in UsedIn(h) /\ t \in Token /\ u \in In(h, d)
    BY NamesStep DEF TreeOf, ParentKept, DirNames, Dirs, In
  <2>2. q \in Seq(Token)
    BY <2>1, NamesAreNames
  <2>3. d = h[u].parent
    OBVIOUS
  <2> HIDE DEF q, t, d
  <2>4. q \in Seq(Names) /\ t \in Names
    <3>1. PICK r \in Seq(Names), e \in Names : NamesTo(h, u) = Append(r, e)
      <4>1. NamesTo(h, u) # <<>>
        BY <2>1, <2>2, AppendProperties
      <4> HIDE DEF S
      <4> QED  BY <4>1, SequenceEmptyOrAppend
    <3>2. r \in Seq(Token) /\ e \in Token
      BY SeqMonotonic DEF Token
    <3>3. q = r /\ t = e
      <4>1. Append(q, t) = Append(r, e) /\ t \in Token
        BY <2>1, <3>1
      <4> HIDE DEF S
      <4> QED  BY <2>2, <3>2, <4>1, AppendInjective
    <3> QED  BY <3>3
  <2>5. FindFrom(h, Root, q) = d
    BY <1>2, <2>1, <2>3, <2>4 DEF q
  <2> HIDE DEF S
  <2>6. FindFrom(h, Root, NamesTo(h, u)) = Enter(h, d, t)
    BY <2>1, <2>4, <2>5, FindAppend
  <2>7. d # NULL /\ t # ".."
    BY <2>1, <2>4, AddressFacts, NamesAssumption DEF UsedIn
  <2>8. Enter(h, d, t) = Subdir(h, d, t)
    BY <2>7 DEF Enter
  <2>9. Subdir(h, d, t) = u
    <3>1. IsSubdir(h, u, t)
      BY DEF IsSubdir, t, Dirs
    <3>2. Subdir(h, d, t) \in In(h, d) /\ IsSubdir(h, Subdir(h, d, t), t)
      BY <2>1, <3>1, SubdirFinds
    <3> QED  BY <2>1, <3>1, <3>2 DEF In, IsSubdir, TreeOf, UniqueDirs
  <2> QED  BY <2>6, <2>8, <2>9
<1>3. UsedIn(h) \subseteq S
  <2> HIDE DEF S
  <2> QED  BY <1>1, <1>2, TreeInduction
<1> QED  BY <1>3 DEF Dirs

\* From a directory of such a path a pathname leads to another one: ".." goes up
\* even where a directory has that name.
LEMMA PlainFind ==
  ASSUME NEW h, TreeOf(h), NEW d \in {NULL} \cup Dirs(h), d # NULL => NamesTo(h, d) \in Seq(Names),
         NEW toks \in Seq(Token)
  PROVE  LET x == FindFrom(h, d, toks) IN x # NULL => NamesTo(h, x) \in Seq(Names)
<1> DEFINE Plainly == {x \in {NULL} \cup Dirs(h) : x # NULL => NamesTo(h, x) \in Seq(Names)}
           n == Len(toks)
           at == FindWalk(h, d, toks, n)
<1>1. ASSUME NEW x \in Plainly, NEW tok \in Token PROVE Enter(h, x, tok) \in Plainly
  <2> DEFINE y == Enter(h, x, tok)
  <2>1. y \in {NULL} \cup Dirs(h)
    BY EnterDir
  <2>2. NULL \notin Dirs(h) /\ Dirs(h) \subseteq UsedIn(h)
    BY AddressFacts DEF Dirs, UsedIn
  <2>3. CASE x = NULL
    BY <2>3 DEF Enter
  <2>4. CASE x # NULL /\ tok = ".."
    <3>1. y = h[x].parent /\ x \in Dirs(h)
      BY <2>4 DEF Enter
    <3>2. CASE x = Root
      BY <2>1, <2>4, <3>1, <3>2 DEF TreeOf, RootKept
    <3>3. CASE x # Root
      <4>1. x \in UsedIn(h) \ {Root}
        BY <2>2, <3>1, <3>3
      <4>2. NamesTo(h, x) = Append(NamesTo(h, y), h[x].name) /\ y \in Dirs(h) /\ h[x].name \in Token
        BY <3>1, <4>1, NamesStep DEF TreeOf, ParentKept, DirNames, Dirs
      <4>3. NamesTo(h, y) \in Seq(Token) /\ NamesTo(h, x) \in Seq(Names)
        BY <2>4, <4>2, NamesAreNames
      <4> HIDE DEF y, Plainly
      <4>4. NamesTo(h, x) # <<>>
        BY <4>2, <4>3, AppendProperties
      <4>5. PICK r \in Seq(Names), e \in Names : NamesTo(h, x) = Append(r, e)
        BY <4>3, <4>4, SequenceEmptyOrAppend
      <4>6. r \in Seq(Token) /\ e \in Token
        BY SeqMonotonic DEF Token
      <4>7. NamesTo(h, y) = r
        <5>1. Append(NamesTo(h, y), h[x].name) = Append(r, e) /\ h[x].name \in Token
          BY <4>2, <4>5
        <5> QED  BY <4>3, <4>6, <5>1, AppendInjective
      <4>8. NamesTo(h, y) \in Seq(Names)
        BY <4>7
      <4>9. y \in Plainly
        BY <2>1, <4>8 DEF Plainly
      <4> QED  BY <4>9 DEF y
    <3> QED  BY <3>2, <3>3
  <2>5. CASE x # NULL /\ tok # ".."
    <3>1. y = Subdir(h, x, tok) /\ x \in UsedIn(h)
      BY <2>2, <2>5 DEF Enter
    <3>2. CASE y = NULL
      BY <3>2
    <3>3. CASE y # NULL
      <4>1. y \in In(h, x) /\ h[y].name = tok
        BY <3>1, <3>3, SubdirFinds DEF IsSubdir
      <4>2. NamesTo(h, y) = Append(NamesTo(h, x), tok) /\ NamesTo(h, x) \in Seq(Names)
        BY <2>5, <4>1, NamesStep DEF In
      <4>3. tok \in Names
        BY <2>5 DEF Token
      <4> HIDE DEF y
      <4> QED  BY <2>1, <4>2, <4>3, AppendProperties DEF y
    <3> QED  BY <3>2, <3>3
  <2> QED  BY <2>3, <2>4, <2>5
<1>2. n \in Nat /\ \A k \in 1 .. n : toks[k] \in Token
  OBVIOUS
<1>3. d \in Plainly
  OBVIOUS
<1>4. FindFrom(h, d, toks) = at[n]
  BY FindOnWalk
<1> HIDE DEF n, Plainly
<1>5. \A k \in 0 .. n : at[k] = IF k = 0 THEN d ELSE Enter(h, at[k - 1], toks[k])
  BY <1>2, FindExists DEF IsFind
<1> HIDE DEF at
<1> DEFINE K == {k \in Nat : k \in 0 .. n => at[k] \in Plainly}
<1>6. 0 \in K
  BY <1>2, <1>3, <1>5
<1>7. ASSUME NEW k \in Nat, k \in K PROVE k + 1 \in K
  <2> SUFFICES ASSUME k + 1 \in 0 .. n PROVE at[k + 1] \in Plainly
    BY DEF K
  <2>1. at[k] \in Plainly /\ k + 1 \in 1 .. n
    BY <1>2, <1>7
  <2>2. at[k + 1] = Enter(h, at[k], toks[k + 1])
    BY <1>2, <1>5
  <2> QED  BY <1>1, <1>2, <2>1, <2>2
<1>8. n \in K
  <2> HIDE DEF K
  <2> QED  BY <1>2, <1>6, <1>7, NatRise
<1>9. at[n] \in Plainly
  BY <1>2, <1>8
<1> QED  BY <1>4, <1>9 DEF Plainly
\* What each command does to the tree, where it does something.
LEMMA MkdirDoes ==
  ASSUME TInv, NEW p \in Paths, Mkdir(p)
  PROVE  \/ Undefined /\ cwd = NULL
         \/ UNCHANGED vars
         \/ LET d == IF p.abs THEN Root ELSE cwd
            IN  /\ ~FollowsFreed(p) /\ d \in Dirs(heap)
                /\ Cardinality(Unused(heap)) >= Len(p.toks)
                /\ heap' = MkdirFrom(heap, d, p.toks) /\ UNCHANGED <<cwd, status>>
<1>1. CASE FollowsFreed(p) /\ p.toks # <<>>
  BY <1>1 DEF Mkdir, FollowsFreed
<1>2. CASE ~FollowsFreed(p)
  <2>1. (IF p.abs THEN Root ELSE cwd) \in Dirs(heap)
    BY <1>2, FoundFacts
  <2> QED  BY <1>2, <2>1 DEF Mkdir
<1>3. CASE FollowsFreed(p) /\ p.toks = <<>>
  <2>1. heap' = MkdirFrom(heap, cwd, <<>>) /\ UNCHANGED <<cwd, status>>
    BY <1>3 DEF Mkdir, FollowsFreed
  <2>2. MkdirWalk(heap, cwd, <<>>, 0)[0] = [h |-> heap, at |-> cwd]
    BY MkdirExists DEF IsMkdir
  <2>3. Len(<<>>) = 0
    OBVIOUS
  <2> QED  BY <2>1, <2>2, <2>3, MkdirOnWalk DEF vars
<1> QED  BY <1>1, <1>2, <1>3

LEMMA RmdirDoes ==
  ASSUME TInv, NEW p \in Paths, Rmdir(p)
  PROVE  \/ Undefined /\ cwd = NULL
         \/ UNCHANGED vars
         \/ LET x == findPathnameNode(p)
            IN  /\ ~FollowsFreed(p) /\ x \in Dirs(heap) /\ heap[x].child = NULL
                /\ \/ x = Root /\ Crash
                   \/ /\ x # Root /\ heap' = Unlinked(heap, x)
                      /\ cwd' = IF cwd = x THEN NULL ELSE cwd
                      /\ UNCHANGED status
<1> DEFINE x == findPathnameNode(p)
<1>1. CASE FollowsFreed(p)
  BY <1>1 DEF Rmdir, FollowsFreed
<1>2. CASE ~FollowsFreed(p)
  <2>1. x \in {NULL} \cup Dirs(heap)
    BY <1>2, FoundFacts
  <2>2. \/ (x = NULL \/ heap[x].child # NULL) /\ UNCHANGED vars
        \/ ~(x = NULL \/ heap[x].child # NULL) /\ x = Root /\ Crash
        \/ /\ ~(x = NULL \/ heap[x].child # NULL) /\ x # Root
           /\ heap' = Unlinked(heap, x)
           /\ cwd' = IF cwd = x THEN NULL ELSE cwd
           /\ UNCHANGED status
    BY <1>2 DEF Rmdir
  <2> HIDE DEF x
  <2> QED  BY <1>2, <2>1, <2>2 DEF x
<1> QED  BY <1>1, <1>2

LEMMA CreatDoes ==
  ASSUME TInv, NEW p \in Paths, Creat(p)
  PROVE  \/ Undefined /\ cwd = NULL
         \/ UNCHANGED vars
         \/ LET d == dnode(p)
            IN  /\ ~FollowsFreed(p) /\ d \in Dirs(heap) /\ Unused(heap) # {}
                /\ heap' = Add(heap, d, "F", BaseOf(p)) /\ UNCHANGED <<cwd, status>>
<1> DEFINE d == dnode(p)
<1>1. CASE FollowsFreed(p)
  BY <1>1 DEF Creat, FollowsFreed
<1>2. CASE ~FollowsFreed(p) /\ d = NULL
  BY <1>2 DEF Creat
<1>3. CASE ~FollowsFreed(p) /\ d # NULL
  <2>1. d \in Dirs(heap)
    BY <1>3, FoundFacts
  <2>2. heap' = Add(heap, d, "F", BaseOf(p)) /\ UNCHANGED <<cwd, status>> /\ Unused(heap) # {}
    BY <1>3 DEF Creat
  <2> HIDE DEF d
  <2> QED  BY <1>3, <2>1, <2>2 DEF d
<1> QED  BY <1>1, <1>2, <1>3

LEMMA RmDoes ==
  ASSUME TInv, NEW p \in Paths, Rm(p)
  PROVE  \/ Undefined /\ cwd = NULL
         \/ UNCHANGED vars
         \/ LET d == dnode(p)
                x == Named(d, BaseOf(p))
            IN  /\ ~FollowsFreed(p) /\ d \in Dirs(heap)
                /\ \/ x = NULL /\ Crash
                   \/ /\ x \in In(heap, d) /\ heap[x].name = BaseOf(p) /\ heap[x].type = "F"
                      /\ heap' = Unlinked(heap, x) /\ UNCHANGED <<cwd, status>>
<1> DEFINE d == dnode(p)
           x == Named(d, BaseOf(p))
<1>1. CASE FollowsFreed(p)
  BY <1>1 DEF Rm, FollowsFreed
<1>2. CASE ~FollowsFreed(p) /\ d = NULL
  BY <1>2 DEF Rm
<1>3. CASE ~FollowsFreed(p) /\ d # NULL /\ x = NULL
  <2>1. d \in Dirs(heap)
    BY <1>3, FoundFacts
  <2>2. Crash \/ UNCHANGED vars
    BY <1>3 DEF Rm
  <2> QED  BY <1>3, <2>1, <2>2
<1>4. CASE ~FollowsFreed(p) /\ d # NULL /\ x # NULL
  <2>1. d \in Dirs(heap)
    BY <1>4, FoundFacts
  <2>2. /\ heap' = IF heap[x].type = "F" THEN Unlinked(heap, x) ELSE heap
        /\ UNCHANGED <<cwd, status>>
    BY <1>4 DEF Rm
  <2>3. x \in In(heap, d) /\ heap[x].name = BaseOf(p)
    <3>1. TreeOf(heap)
      BY DEF TInv
    <3> HIDE DEF d
    <3> QED  BY <1>4, <2>1, <3>1, NamedFinds
  <2> HIDE DEF d, x
  <2>4. CASE heap[x].type = "F"
    BY <1>4, <2>1, <2>2, <2>3, <2>4 DEF d, x
  <2>5. CASE heap[x].type # "F"
    BY <2>2, <2>5 DEF vars
  <2> QED  BY <2>4, <2>5
<1> QED  BY <1>1, <1>2, <1>3, <1>4

\* The current directory was found by its path, which has no name "..".
PInv == TInv /\ (cwd # NULL => NamesTo(heap, cwd) \in Seq(Names))

LEMMA PathKept ==
  ASSUME TInv, TInv', Keeps(heap, heap') \/ Keeps(heap', heap), cwd' = cwd, cwd # NULL
  PROVE  NamesTo(heap', cwd') = NamesTo(heap, cwd)
<1>1. TreeOf(heap) /\ TreeOf(heap') /\ cwd \in UsedIn(heap) /\ cwd \in UsedIn(heap')
  BY DEF TInv, Dirs
<1> QED  BY <1>1, NamesSame

LEMMA PathStep == PInv /\ [Next]_vars => PInv'
<1> SUFFICES ASSUME PInv, [Next]_vars PROVE PInv'
  OBVIOUS
<1> DEFINE Plain2 == cwd # NULL => NamesTo(heap, cwd) \in Seq(Names)
<1>1. TInv /\ TInv' /\ Plain2
  BY TreeStep DEF PInv
<1>2. TreeOf(heap)
  BY <1>1 DEF TInv
<1>3. ASSUME UNCHANGED vars \/ Crash \/ Undefined PROVE Plain2'
  BY <1>1, <1>3 DEF vars, Crash, Undefined
<1>4. ASSUME Keeps(heap, heap') \/ Keeps(heap', heap), cwd' \in {NULL, cwd} PROVE Plain2'
  BY <1>1, <1>4, PathKept
<1>5. ASSUME NEW p \in Paths, Mkdir(p) PROVE Plain2'
  <2> DEFINE d == IF p.abs THEN Root ELSE cwd
  <2>1. ASSUME d \in Dirs(heap), Cardinality(Unused(heap)) >= Len(p.toks),
               heap' = MkdirFrom(heap, d, p.toks), cwd' = cwd
        PROVE  Plain2'
    <3>1. Keeps(heap, heap')
      BY <1>2, <2>1, PathFacts, MkdirTree
    <3> QED  BY <1>4, <2>1, <3>1
  <2> HIDE DEF Plain2
  <2> QED  BY <1>1, <1>3, <1>5, <2>1, MkdirDoes
<1>6. ASSUME NEW p \in Paths, Rmdir(p) PROVE Plain2'
  <2> DEFINE x == findPathnameNode(p)
  <2>1. ASSUME x \in Dirs(heap), heap[x].child = NULL, x # Root, heap' = Unlinked(heap, x),
               cwd' = IF cwd = x THEN NULL ELSE cwd
        PROVE  Plain2'
    <3>1. Keeps(heap', heap)
      BY <1>2, <2>1, UnlinkedTree DEF Dirs
    <3> QED  BY <1>4, <2>1, <3>1
  <2> HIDE DEF Plain2
  <2> QED  BY <1>1, <1>3, <1>6, <2>1, RmdirDoes
<1>7. ASSUME NEW p \in Paths, Creat(p) PROVE Plain2'
  <2> DEFINE d == dnode(p)
  <2>1. ASSUME d \in Dirs(heap), Unused(heap) # {}, heap' = Add(heap, d, "F", BaseOf(p)), cwd' = cwd
        PROVE  Plain2'
    <3>1. Keeps(heap, heap')
      BY <1>2, <2>1, PathFacts, AddTree
    <3> QED  BY <1>4, <2>1, <3>1
  <2> HIDE DEF Plain2
  <2> QED  BY <1>1, <1>3, <1>7, <2>1, CreatDoes
<1>8. ASSUME NEW p \in Paths, Rm(p) PROVE Plain2'
  <2>1. ASSUME NEW d \in Dirs(heap), NEW x \in In(heap, d), heap[x].type = "F",
               heap' = Unlinked(heap, x), cwd' = cwd
        PROVE  Plain2'
    <3>1. x \in UsedIn(heap) \ {Root}
      BY DEF In
    <3>2. Keeps(heap', heap)
      BY <1>2, <2>1, <3>1, FileFacts, UnlinkedTree
    <3> QED  BY <1>4, <2>1, <3>2
  <2> HIDE DEF Plain2
  <2> QED  BY <1>1, <1>3, <1>8, <2>1, RmDoes
<1>9. ASSUME NEW p \in Paths, Cd(p) PROVE Plain2'
  <2>1. CASE FollowsFreed(p)
    BY <1>3, <1>9, <2>1 DEF Cd
  <2>2. CASE ~FollowsFreed(p)
    <3> DEFINE d == IF p.abs THEN Root ELSE cwd
               x == findPathnameNode(p)
    <3>1. cwd' = IfFound(x) /\ heap' = heap
      BY <1>9, <2>2 DEF Cd
    <3>2. d \in Dirs(heap) /\ p.toks \in Seq(Token) /\ x = FindFrom(heap, d, p.toks)
      BY <1>1, <2>2, FoundFacts, PathFacts DEF findPathnameNode
    <3>3. NamesTo(heap, d) \in Seq(Names)
      <4>1. NamesTo(heap, Root) \in Seq(Names)
        BY <1>2, NamesStep, EmptySeq
      <4>2. ~p.abs => cwd # NULL
        BY <2>2 DEF FollowsFreed
      <4> QED  BY <1>1, <4>1, <4>2
    <3> HIDE DEF d, x
    <3>4. x # NULL => NamesTo(heap, x) \in Seq(Names)
      BY <1>2, <3>2, <3>3, PlainFind
    <3> QED  BY <1>1, <3>1, <3>4 DEF IfFound
  <2> QED  BY <2>1, <2>2
<1>10. ASSUME NEW p \in Paths, Ls(p) PROVE Plain2'
  BY <1>3, <1>10 DEF Ls
<1>11. ASSUME Pwd PROVE Plain2'
  BY <1>3, <1>11 DEF Pwd
<1>12. Plain2'
  <2> HIDE DEF Plain2
  <2> QED  BY <1>3, <1>5, <1>6, <1>7, <1>8, <1>9, <1>10, <1>11 DEF Next, Command, Ended
<1> QED  BY <1>1, <1>12 DEF PInv

\* cd to what pwd prints leads back to where it was printed (fileTreeSim.c:95-133
\* and 240-253), although directories may be named ".." and files may have the
\* names of directories.
THEOREM PwdLeadsBackHolds == Spec => []PwdLeadsBack
<1>1. Init => PInv
  <2> SUFFICES ASSUME Init PROVE PInv
    OBVIOUS
  <2>1. TInv /\ cwd = Root
    BY InitTree DEF Init
  <2>2. NamesTo(heap, Root) = <<>>
    BY <2>1, NamesStep DEF TInv
  <2> QED  BY <2>1, <2>2, EmptySeq DEF PInv
<1>2. PInv => PwdLeadsBack
  <2> SUFFICES ASSUME PInv, cwd # NULL PROVE FindFrom(heap, Root, NamesTo(heap, cwd)) = cwd
    BY DEF PwdLeadsBack
  <2>1. TreeOf(heap) /\ cwd \in Dirs(heap) /\ NamesTo(heap, cwd) \in Seq(Names)
    BY DEF PInv, TInv
  <2> QED  BY <2>1, PathLeadsBack
<1> QED  BY <1>1, <1>2, PathStep, PTL DEF Spec

-----------------------------------------------------------------------------
(* Pathnames in FileTree and in PathTree.                                  *)

\* No directory has the path that stands for none, and nothing in one has it.
LEMMA NotNoPath ==
  ASSUME NEW q \in Seq(Token), NEW b
  PROVE  q # Tree!NoPath /\ Append(q, b) # Tree!NoPath
<1>1. "/" \notin Token
  BY NamesAssumption DEF Token
<1>2. Tree!NoPath = <<"/", "">> /\ Len(Tree!NoPath) = 2 /\ Tree!NoPath[1] = "/"
  BY DEF Tree!NoPath
<1>3. ASSUME q = Tree!NoPath PROVE FALSE
  <2>1. \A i \in 1 .. Len(q) : q[i] \in Token
    OBVIOUS
  <2>2. Len(q) = 2 /\ q[1] = "/"
    BY <1>2, <1>3
  <2>3. q[1] \in Token
    BY ONLY <2>1, <2>2
  <2> QED  BY ONLY <1>1, <2>2, <2>3
<1>4. ASSUME Append(q, b) = Tree!NoPath PROVE FALSE
  <2> DEFINE S == Token \cup {b}
  <2>1. q \in Seq(S) /\ b \in S
    BY SeqMonotonic
  <2> HIDE DEF S
  <2>2. /\ Len(q) \in Nat /\ Len(Append(q, b)) = Len(q) + 1
        /\ \A i \in 1 .. Len(q) : Append(q, b)[i] = q[i]
    BY <2>1, AppendProperties, LenProperties
  <2>3. \A i \in 1 .. Len(q) : q[i] \in Token
    OBVIOUS
  <2>4. \A r : r = Tree!NoPath => Len(r) = 2 /\ r[1] = "/"
    BY <1>2
  <2>5. Len(Append(q, b)) = 2 /\ Append(q, b)[1] = "/"
    BY <1>4, <2>4
  <2>6. 1 \in 1 .. Len(q)
    BY <2>2, <2>5
  <2>7. q[1] = "/"
    BY <2>2, <2>5, <2>6
  <2> QED  BY <1>1, <2>3, <2>6, <2>7
<1> QED  BY <1>3, <1>4

LEMMA DirPathsAre ==
  ASSUME NEW h, TreeOf(h)
  PROVE  /\ DirPaths(h) = {NamesTo(h, x) : x \in Dirs(h)}
         /\ \A x \in Dirs(h) : PathOf(h, x) = NamesTo(h, x) /\ NamesTo(h, x) # Tree!NoPath
         /\ PathOf(h, NULL) = Tree!NoPath
<1>1. Dirs(h) = {y \in Addresses : h[y].type = "D"}
  BY DEF Dirs, UsedIn, Unused
<1>2. NULL \notin Dirs(h)
  BY <1>1, AddressFacts
<1>3. \A x \in Dirs(h) : NamesTo(h, x) # Tree!NoPath
  BY NamesAreNames, NotNoPath
<1> QED  BY <1>1, <1>2, <1>3 DEF DirPaths, PathOf, Tree!NoPath

\* What is in a directory is what has its path and one name more.
LEMMA InByPath ==
  ASSUME NEW h, TreeOf(h), NEW d \in Dirs(h), NEW y \in UsedIn(h), NEW b \in NodeName
  PROVE  NamesTo(h, y) = Append(NamesTo(h, d), b) <=> y \in In(h, d) /\ h[y].name = b
<1> DEFINE q == NamesTo(h, d)
<1>1. q \in Seq(NodeName) /\ d \in UsedIn(h)
  BY NamesAreNames DEF Dirs
<1>2. CASE y = Root
  <2>1. NamesTo(h, y) = <<>>
    BY <1>2, NamesStep
  <2>2. Append(q, b) # <<>>
    BY <1>1, AppendProperties
  <2> QED  BY <1>2, <2>1, <2>2 DEF In
<1>3. CASE y # Root
  <2>1. NamesTo(h, y) = Append(q, b) <=> NamesTo(h, h[y].parent) = q /\ h[y].name = b
    BY <1>1, <1>3, PathOfChild
  <2>2. h[y].parent \in Dirs(h)
    BY DEF TreeOf, ParentKept, Dirs
  <2>3. NamesTo(h, h[y].parent) = q <=> h[y].parent = d
    BY <2>2, PathsOfDirs
  <2> QED  BY <1>3, <2>1, <2>3 DEF In
<1> QED  BY <1>2, <1>3

\* A token leads from a node where it leads from its path.
LEMMA EnterResolves ==
  ASSUME NEW h, TreeOf(h), NEW x \in {NULL} \cup Dirs(h), NEW tok \in Token
  PROVE  PathOf(h, Enter(h, x, tok)) = Tree!Enter(DirPaths(h), PathOf(h, x), tok)
<1> DEFINE y == Enter(h, x, tok)
           q == NamesTo(h, x)
<1>1. CASE x = NULL
  <2>1. y = NULL
    BY <1>1 DEF Enter
  <2> QED  BY <1>1, <2>1, DirPathsAre DEF Tree!Enter
<1>2. CASE x # NULL
  <2>1. /\ x \in Dirs(h) /\ x \in UsedIn(h) /\ PathOf(h, x) = q /\ q # Tree!NoPath
        /\ q \in Seq(NodeName) /\ y \in {NULL} \cup Dirs(h)
    BY <1>2, DirPathsAre, NamesAreNames, EnterDir DEF Dirs
  <2>2. CASE tok = ".." /\ x = Root
    <3>1. y = Root /\ q = <<>>
      BY <1>2, <2>2, NamesStep DEF Enter, TreeOf, RootKept
    <3> QED  BY <2>1, <2>2, <3>1 DEF Tree!Enter
  <2>3. CASE tok = ".." /\ x # Root
    <3>1. y = h[x].parent /\ y \in Dirs(h) /\ y \in UsedIn(h) /\ x \in UsedIn(h) \ {Root}
      BY <1>2, <2>1, <2>3 DEF Enter, TreeOf, ParentKept, Dirs
    <3>2. q = Append(NamesTo(h, y), h[x].name)
      BY <3>1, NamesStep
    <3>3. NamesTo(h, y) \in Seq(NodeName) /\ h[x].name \in NodeName
      BY <3>1, NamesAreNames, FieldTypes DEF TreeOf, UsedIn
    <3> HIDE DEF q, y
    <3>4. q # <<>> /\ Tree!Front(q) = NamesTo(h, y)
      BY <3>2, <3>3 DEF Tree!Front
    <3>5. PathOf(h, y) = NamesTo(h, y)
      BY <3>1, DirPathsAre
    <3>6. PathOf(h, y) = Tree!Enter(DirPaths(h), PathOf(h, x), tok)
      BY <2>1, <2>3, <3>4, <3>5 DEF Tree!Enter
    <3> QED  BY <3>6 DEF y
  <2>4. CASE tok # ".."
    <3>1. y = Subdir(h, x, tok) /\ tok \in NodeName
      BY <1>2, <2>4 DEF Enter, Token, NodeName
    <3>2. CASE y # NULL
      <4>1. y \in In(h, x) /\ h[y].name = tok /\ y \in Dirs(h) /\ y \in UsedIn(h)
        BY <2>1, <3>1, <3>2, SubdirFinds DEF IsSubdir, Dirs
      <4>2. NamesTo(h, y) = Append(q, tok)
        BY <2>1, <3>1, <4>1, InByPath
      <4> HIDE DEF q, y
      <4>3. Append(q, tok) \in DirPaths(h) /\ PathOf(h, y) = Append(q, tok)
        BY <4>1, <4>2, DirPathsAre
      <4>4. PathOf(h, y) = Tree!Enter(DirPaths(h), PathOf(h, x), tok)
        BY <2>1, <2>4, <4>3 DEF Tree!Enter
      <4> QED  BY <4>4 DEF y
    <3>3. CASE y = NULL
      <4>1. \A z \in In(h, x) : ~IsSubdir(h, z, tok)
        BY <2>1, <3>1, <3>3, SubdirFinds
      <4>2. \A z \in Dirs(h) : NamesTo(h, z) # Append(q, tok)
        BY <2>1, <3>1, <4>1, InByPath DEF IsSubdir, Dirs
      <4> HIDE DEF q, y
      <4>3. DirPaths(h) = {NamesTo(h, z) : z \in Dirs(h)} /\ PathOf(h, y) = Tree!NoPath
        BY <3>3, DirPathsAre
      <4>4. Append(q, tok) \notin DirPaths(h)
        BY <4>2, <4>3
      <4>5. PathOf(h, y) = Tree!Enter(DirPaths(h), PathOf(h, x), tok)
        BY <2>1, <2>4, <4>3, <4>4 DEF Tree!Enter
      <4> QED  BY <4>5 DEF y
    <3> QED  BY <3>2, <3>3
  <2> QED  BY <2>2, <2>3, <2>4
<1> QED  BY <1>1, <1>2

\* A walk in PathTree.
IsResolve(at, ds, q, toks, n) ==
  at = [k \in 0 .. n |-> IF k = 0 THEN q ELSE Tree!Enter(ds, at[k - 1], toks[k])]

\* A pathname leads from a node where it leads from its path.
LEMMA FindResolves ==
  ASSUME NEW h, TreeOf(h), NEW d \in {NULL} \cup Dirs(h), NEW toks \in Seq(Token)
  PROVE  PathOf(h, FindFrom(h, d, toks)) = Tree!ResolveFrom(DirPaths(h), PathOf(h, d), toks)
<1> DEFINE n == Len(toks)
           ds == DirPaths(h)
           q == PathOf(h, d)
           at == FindWalk(h, d, toks, n)
           w == [k \in 0 .. n |-> PathOf(h, at[k])]
           v == CHOOSE v : IsResolve(v, ds, q, toks, n)
<1>1. n \in Nat /\ \A k \in 1 .. n : toks[k] \in Token
  OBVIOUS
<1>2. FindFrom(h, d, toks) = at[n] /\ Tree!ResolveFrom(ds, q, toks) = v[n]
  BY FindOnWalk DEF Tree!ResolveFrom, IsResolve
<1> HIDE DEF n
<1>3. \A k \in 0 .. n : at[k] = IF k = 0 THEN d ELSE Enter(h, at[k - 1], toks[k])
  BY <1>1, FindExists DEF IsFind
<1> HIDE DEF at
<1> DEFINE K == {k \in Nat : k \in 0 .. n => at[k] \in {NULL} \cup Dirs(h)}
<1>4. 0 \in K
  BY <1>1, <1>3
<1>5. ASSUME NEW k \in Nat, k \in K PROVE k + 1 \in K
  <2> SUFFICES ASSUME k + 1 \in 0 .. n PROVE at[k + 1] \in {NULL} \cup Dirs(h)
    BY DEF K
  <2>1. at[k] \in {NULL} \cup Dirs(h) /\ at[k + 1] = Enter(h, at[k], toks[k + 1])
    BY <1>1, <1>3, <1>5
  <2> QED  BY <2>1, EnterDir
<1>6. \A k \in Nat : k \in K
  <2> HIDE DEF K
  <2> QED  BY <1>4, <1>5, NatRise
<1>7. \A k \in 0 .. n : at[k] \in {NULL} \cup Dirs(h)
  BY <1>1, <1>6
<1> HIDE DEF K, ds, q
<1>8. ASSUME NEW k \in 0 .. n
      PROVE  w[k] = IF k = 0 THEN q ELSE Tree!Enter(ds, w[k - 1], toks[k])
  <2>1. CASE k = 0
    BY <1>3, <2>1 DEF q
  <2>2. CASE k # 0
    <3>1. k \in 1 .. n /\ k - 1 \in 0 .. n
      BY <1>1, <2>2
    <3>2. at[k] = Enter(h, at[k - 1], toks[k]) /\ at[k - 1] \in {NULL} \cup Dirs(h) /\ toks[k] \in Token
      BY <1>1, <1>3, <1>7, <2>2, <3>1
    <3>3. PathOf(h, at[k]) = Tree!Enter(ds, PathOf(h, at[k - 1]), toks[k])
      BY <3>2, EnterResolves DEF ds
    <3> QED  BY <2>2, <3>1, <3>3
  <2> QED  BY <2>1, <2>2
<1>9. IsResolve(w, ds, q, toks, n)
  <2>1. w = [k \in 0 .. n |-> w[k]]
    OBVIOUS
  <2> HIDE DEF w
  <2> QED  BY <1>8, <2>1 DEF IsResolve
<1>10. IsResolve(v, ds, q, toks, n)
  BY <1>9
<1>11. \A k \in 0 .. n : v[k] = IF k = 0 THEN q ELSE Tree!Enter(ds, v[k - 1], toks[k])
  <2> HIDE DEF v
  <2> QED  BY <1>10 DEF IsResolve
<1>12. w[n] = PathOf(h, at[n])
  BY <1>1
<1> HIDE DEF w, v
<1> DEFINE L == {k \in Nat : k \in 0 .. n => v[k] = w[k]}
<1>13. 0 \in L
  BY <1>1, <1>8, <1>11
<1>14. ASSUME NEW k \in Nat, k \in L PROVE k + 1 \in L
  <2> SUFFICES ASSUME k + 1 \in 0 .. n PROVE v[k + 1] = w[k + 1]
    BY DEF L
  <2>1. v[k] = w[k] /\ k + 1 # 0 /\ (k + 1) - 1 = k
    BY <1>1, <1>14
  <2>2. v[k + 1] = Tree!Enter(ds, v[k], toks[k + 1]) /\ w[k + 1] = Tree!Enter(ds, w[k], toks[k + 1])
    BY <1>8, <1>11, <2>1
  <2> QED  BY <2>1, <2>2
<1>15. \A k \in Nat : k \in L
  <2> HIDE DEF L
  <2> QED  BY <1>13, <1>14, NatRise
<1>16. v[n] = w[n]
  BY <1>1, <1>15
<1> QED  BY <1>2, <1>12, <1>16 DEF ds, q

-----------------------------------------------------------------------------
(* What the changes of the tree do to the paths.                           *)

FilesIn(h) == {x \in UsedIn(h) : h[x].type = "F"}

\* The files of a path.
Copies(h, q) == {x \in FilesIn(h) : NamesTo(h, x) = q}

LEMMA FilesAre ==
  ASSUME NEW h
  PROVE  /\ FileBag(h) = [q \in {NamesTo(h, x) : x \in FilesIn(h)} |-> Cardinality(Copies(h, q))]
         /\ FilesIn(h) \subseteq UsedIn(h)
         /\ \A q : IsFiniteSet(Copies(h, q)) /\ Cardinality(Copies(h, q)) \in Nat
<1> DEFINE F == {y \in Addresses : h[y].type = "F"}
<1>1. F = FilesIn(h)
  BY DEF FilesIn, UsedIn, Unused
<1>2. \A q : Copies(h, q) \in SUBSET Addresses
  BY <1>1 DEF Copies
<1>3. FileBag(h) = [q \in {NamesTo(h, x) : x \in F} |-> Cardinality({x \in F : NamesTo(h, x) = q})]
  BY DEF FileBag
<1> HIDE DEF F
<1>4. FileBag(h) = [q \in {NamesTo(h, x) : x \in FilesIn(h)} |-> Cardinality(Copies(h, q))]
  BY <1>1, <1>3 DEF Copies
<1>5. \A q : IsFiniteSet(Copies(h, q)) /\ Cardinality(Copies(h, q)) \in Nat
  BY <1>2, PartOfAddresses
<1> QED  BY <1>4, <1>5 DEF FilesIn

\* Trees with the same nodes, but for their pointers, have the same paths.
LEMMA PathsSame ==
  ASSUME NEW h, TreeOf(h), NEW g, TreeOf(g), Keeps(h, g)
  PROVE  /\ Dirs(g) = Dirs(h) => DirPaths(g) = DirPaths(h)
         /\ FilesIn(g) = FilesIn(h) => FileBag(g) = FileBag(h)
<1>1. \A x \in UsedIn(h) : NamesTo(g, x) = NamesTo(h, x)
  BY NamesSame
<1>2. Dirs(h) \subseteq UsedIn(h) /\ FilesIn(h) \subseteq UsedIn(h)
  BY DEF Dirs, FilesIn
<1>3. ASSUME Dirs(g) = Dirs(h) PROVE DirPaths(g) = DirPaths(h)
  <2>1. DirPaths(g) = {NamesTo(g, x) : x \in Dirs(h)} /\ DirPaths(h) = {NamesTo(h, x) : x \in Dirs(h)}
    BY <1>3, DirPathsAre
  <2> QED  BY <1>1, <1>2, <2>1
<1>4. ASSUME FilesIn(g) = FilesIn(h) PROVE FileBag(g) = FileBag(h)
  <2>1. \A q : Copies(g, q) = Copies(h, q)
    BY <1>1, <1>2, <1>4 DEF Copies
  <2>2. {NamesTo(g, x) : x \in FilesIn(g)} = {NamesTo(h, x) : x \in FilesIn(h)}
    BY <1>1, <1>2, <1>4
  <2> QED  BY <2>1, <2>2, FilesAre
<1> QED  BY <1>3, <1>4

\* g has one file more than h.
LEMMA BagOfMore ==
  ASSUME NEW h, NEW g, NEW x, x \notin FilesIn(h), FilesIn(g) = FilesIn(h) \cup {x},
         \A y \in FilesIn(h) : NamesTo(g, y) = NamesTo(h, y)
  PROVE  /\ FileBag(g) = Tree!(+)(FileBag(h), Tree!SetToBag({NamesTo(g, x)}))
         /\ FileBag(h) = Tree!(-)(FileBag(g), Tree!SetToBag({NamesTo(g, x)}))
<1> DEFINE q == NamesTo(g, x)
           H == FileBag(h)
           G == FileBag(g)
           B == Tree!SetToBag({q})
           A == {NamesTo(h, y) : y \in FilesIn(h)}
<1>1. /\ H = [r \in A |-> Cardinality(Copies(h, r))] /\ DOMAIN H = A
      /\ \A r \in A : H[r] = Cardinality(Copies(h, r))
  BY FilesAre
<1>2. /\ G = [r \in A \cup {q} |-> Cardinality(Copies(g, r))] /\ DOMAIN G = A \cup {q}
      /\ \A r \in A \cup {q} : G[r] = Cardinality(Copies(g, r))
  <2>1. {NamesTo(g, y) : y \in FilesIn(g)} = A \cup {q}
    OBVIOUS
  <2> HIDE DEF A, q
  <2>2. G = [r \in A \cup {q} |-> Cardinality(Copies(g, r))]
    BY <2>1, FilesAre
  <2> HIDE DEF G
  <2> QED  BY <2>2
<1>3. B = [e \in {q} |-> 1] /\ DOMAIN B = {q} /\ B[q] = 1
  BY DEF Tree!SetToBag
<1>4. \A r : IsFiniteSet(Copies(h, r)) /\ Cardinality(Copies(h, r)) \in Nat
  BY FilesAre
<1>5. \A r : r # q => Copies(g, r) = Copies(h, r)
  BY DEF Copies
<1>6. Cardinality(Copies(g, q)) = Cardinality(Copies(h, q)) + 1
  <2>1. Copies(g, q) = Copies(h, q) \cup {x} /\ x \notin Copies(h, q)
    BY DEF Copies
  <2> QED  BY <1>4, <2>1, FS_AddElement
<1>7. \A r : r \in A <=> Cardinality(Copies(h, r)) # 0
  <2>1. \A r : r \in A <=> Copies(h, r) # {}
    BY DEF Copies
  <2>2. \A r : Cardinality(Copies(h, r)) = 0 <=> Copies(h, r) = {}
    BY <1>4, FS_EmptySet
  <2> QED  BY <2>1, <2>2
<1> HIDE DEF A, B, G, H, q
<1>8. G = Tree!(+)(H, B)
  <2>1. Tree!(+)(H, B) = [r \in A \cup {q} |->
                            (IF r \in A THEN H[r] ELSE 0) + (IF r \in {q} THEN B[r] ELSE 0)]
    BY <1>1, <1>3 DEF Tree!(+)
  <2>2. ASSUME NEW r \in A \cup {q}
        PROVE  (IF r \in A THEN H[r] ELSE 0) + (IF r \in {q} THEN B[r] ELSE 0) = Cardinality(Copies(g, r))
    <3>1. (IF r \in A THEN H[r] ELSE 0) = Cardinality(Copies(h, r))
      BY <1>1, <1>7
    <3>2. CASE r = q
      BY <1>3, <1>4, <1>6, <3>1, <3>2
    <3>3. CASE r # q
      BY <1>4, <1>5, <3>1, <3>3
    <3> QED  BY <3>2, <3>3
  <2> QED  BY <1>2, <2>1, <2>2
<1>9. H = Tree!(-)(G, B)
  <2> DEFINE D == [r \in A \cup {q} |-> IF r \in {q} THEN G[r] - B[r] ELSE G[r]]
  <2>1. Tree!(-)(G, B) = [r \in {e \in DOMAIN D : D[e] > 0} |-> D[r]]
    BY <1>2, <1>3 DEF Tree!(-)
  <2>2. DOMAIN D = A \cup {q}
    OBVIOUS
  <2>3. ASSUME NEW r \in A \cup {q} PROVE D[r] = Cardinality(Copies(h, r))
    <3>1. CASE r = q
      BY <1>2, <1>3, <1>4, <1>6, <3>1
    <3>2. CASE r # q
      BY <1>2, <1>5, <3>2
    <3> QED  BY <3>1, <3>2
  <2> HIDE DEF D
  <2>4. {e \in DOMAIN D : D[e] > 0} = A
    BY <1>4, <1>7, <2>2, <2>3
  <2>5. Tree!(-)(G, B) = [r \in A |-> Cardinality(Copies(h, r))]
    BY <2>1, <2>3, <2>4
  <2> QED  BY <1>1, <2>5
<1> QED  BY <1>8, <1>9 DEF B, G, H, q

\* creat: one file more.
LEMMA CreatPaths ==
  ASSUME NEW h, TreeOf(h), NEW d \in Dirs(h), Unused(h) # {}, NEW b \in NodeName,
         NEW g, g = Add(h, d, "F", b)
  PROVE  /\ TreeOf(g) /\ Keeps(h, g) /\ DirPaths(g) = DirPaths(h)
         /\ FileBag(g) = Tree!(+)(FileBag(h), Tree!SetToBag({Append(NamesTo(h, d), b)}))
<1> DEFINE x == Fresh(h)
<1>1. /\ TreeOf(g) /\ UsedIn(g) = UsedIn(h) \cup {x} /\ Keeps(h, g)
      /\ g[x].type = "F" /\ g[x].name = b /\ g[x].parent = d /\ x \in Unused(h)
  BY AddTree
<1> HIDE DEF x
<1>2. x \notin UsedIn(h) /\ d \in UsedIn(h) /\ Root \in UsedIn(h)
  BY <1>1 DEF UsedIn, Dirs, TreeOf, RootKept
<1>3. Dirs(g) = Dirs(h) /\ FilesIn(g) = FilesIn(h) \cup {x} /\ x \notin FilesIn(h)
  BY <1>1, <1>2 DEF Keeps, Dirs, FilesIn
<1>4. DirPaths(g) = DirPaths(h)
  BY <1>1, <1>3, PathsSame
<1>5. \A y \in UsedIn(h) : NamesTo(g, y) = NamesTo(h, y)
  BY <1>1, NamesSame
<1>6. NamesTo(g, x) = Append(NamesTo(h, d), b)
  <2>1. x \in UsedIn(g) \ {Root}
    BY <1>1, <1>2
  <2>2. NamesTo(g, x) = Append(NamesTo(g, d), b)
    BY <1>1, <2>1, NamesStep
  <2> QED  BY <1>2, <1>5, <2>2
<1>7. \A y \in FilesIn(h) : NamesTo(g, y) = NamesTo(h, y)
  BY <1>5 DEF FilesIn
<1>8. FileBag(g) = Tree!(+)(FileBag(h), Tree!SetToBag({NamesTo(g, x)}))
  BY <1>3, <1>7, BagOfMore
<1> QED  BY <1>1, <1>4, <1>6, <1>8

\* rmdir and rm: a directory or a file less.
LEMMA UnlinkedPaths ==
  ASSUME NEW h, TreeOf(h), NEW x \in UsedIn(h) \ {Root}, h[x].child = NULL,
         NEW g, g = Unlinked(h, x)
  PROVE  /\ TreeOf(g) /\ Keeps(g, h)
         /\ h[x].type = "D" => /\ DirPaths(g) = DirPaths(h) \ {NamesTo(h, x)}
                               /\ FileBag(g) = FileBag(h)
         /\ h[x].type = "F" => /\ DirPaths(g) = DirPaths(h)
                               /\ FileBag(g) = Tree!(-)(FileBag(h), Tree!SetToBag({NamesTo(h, x)}))
<1>1. TreeOf(g) /\ UsedIn(g) = UsedIn(h) \ {x} /\ Dirs(g) = Dirs(h) \ {x} /\ Keeps(g, h)
  BY UnlinkedTree
<1>2. \A y \in UsedIn(g) : NamesTo(g, y) = NamesTo(h, y)
  BY <1>1, NamesSame
<1>3. FilesIn(g) = FilesIn(h) \ {x}
  BY <1>1 DEF Keeps, FilesIn
<1>4. ASSUME h[x].type = "D"
      PROVE  DirPaths(g) = DirPaths(h) \ {NamesTo(h, x)} /\ FileBag(g) = FileBag(h)
  <2>1. x \in Dirs(h) /\ FilesIn(g) = FilesIn(h)
    BY <1>3, <1>4 DEF Dirs, FilesIn
  <2>2. FileBag(g) = FileBag(h)
    BY <1>1, <2>1, PathsSame
  <2>3. \A y \in Dirs(h) : NamesTo(h, y) = NamesTo(h, x) <=> y = x
    BY <2>1, PathsOfDirs
  <2>4. \A y \in Dirs(g) : NamesTo(g, y) = NamesTo(h, y)
    BY <1>2 DEF Dirs
  <2>5. /\ DirPaths(g) = {NamesTo(g, y) : y \in Dirs(g)}
        /\ DirPaths(h) = {NamesTo(h, y) : y \in Dirs(h)}
    BY <1>1, DirPathsAre
  <2>6. DirPaths(g) = {NamesTo(h, y) : y \in Dirs(h) \ {x}}
    BY <1>1, <2>4, <2>5
  <2>7. DirPaths(g) = DirPaths(h) \ {NamesTo(h, x)}
    BY <2>3, <2>5, <2>6
  <2> QED  BY <2>2, <2>7
<1>5. ASSUME h[x].type = "F"
      PROVE  /\ DirPaths(g) = DirPaths(h)
             /\ FileBag(g) = Tree!(-)(FileBag(h), Tree!SetToBag({NamesTo(h, x)}))
  <2>1. Dirs(g) = Dirs(h)
    BY <1>1, <1>5 DEF Dirs
  <2>2. DirPaths(g) = DirPaths(h)
    BY <1>1, <2>1, PathsSame
  <2>3. x \notin FilesIn(g) /\ FilesIn(h) = FilesIn(g) \cup {x}
    BY <1>3, <1>5 DEF FilesIn
  <2>4. \A y \in FilesIn(g) : NamesTo(h, y) = NamesTo(g, y)
    BY <1>2 DEF FilesIn
  <2> QED  BY <2>2, <2>3, <2>4, BagOfMore
<1> QED  BY <1>1, <1>4, <1>5

\* One token of mkdir: the directory of that name is there afterwards.
LEMMA MkdirStepPaths ==
  ASSUME NEW s, TreeOf(s.h), s.at \in Dirs(s.h), Unused(s.h) # {}, NEW tok \in Token,
         NEW t, t = MkdirStep(s, tok)
  PROVE  LET q == Append(NamesTo(s.h, s.at), tok)
         IN  /\ NamesTo(t.h, t.at) = q
             /\ DirPaths(t.h) = DirPaths(s.h) \cup {q} /\ FileBag(t.h) = FileBag(s.h)
<1> DEFINE h == s.h
           d == s.at
           q == Append(NamesTo(h, d), tok)
           sub == Subdir(h, d, tok)
           x == Fresh(h)
           g == Add(h, d, "D", tok)
<1>1. d \in UsedIn(h) /\ Root \in UsedIn(h) /\ tok \in NodeName
  BY DEF Dirs, TreeOf, RootKept, Token, NodeName
<1>2. t = IF sub # NULL THEN [h |-> h, at |-> sub] ELSE [h |-> g, at |-> x]
  BY DEF MkdirStep
<1>3. TreeOf(h) /\ d \in Dirs(h) /\ Unused(h) # {}
  OBVIOUS
<1> HIDE DEF h, d, sub, x, g
<1>4. CASE sub # NULL
  <2>1. sub \in Dirs(h) /\ NamesTo(h, sub) = q
    <3>1. sub \in In(h, d) /\ h[sub].name = tok /\ h[sub].type = "D"
      BY <1>1, <1>3, <1>4, SubdirFinds DEF sub, IsSubdir
    <3>2. sub \in UsedIn(h)
      BY <3>1 DEF In
    <3> QED  BY <1>1, <1>3, <3>1, <3>2, InByPath DEF Dirs
  <2> HIDE DEF q
  <2>2. q \in DirPaths(h)
    BY <1>3, <2>1, DirPathsAre
  <2>3. t.h = h /\ t.at = sub
    BY <1>2, <1>4
  <2> QED  BY <2>1, <2>2, <2>3 DEF h, d, q
<1>5. CASE sub = NULL
  <2>1. \A y \in In(h, d) : ~IsSubdir(h, y, tok)
    BY <1>1, <1>3, <1>5, SubdirFinds DEF sub
  <2>2. /\ TreeOf(g) /\ UsedIn(g) = UsedIn(h) \cup {x} /\ g[x].type = "D" /\ g[x].name = tok
        /\ g[x].parent = d /\ x \in Unused(h) /\ Keeps(h, g)
    BY <1>1, <1>3, <2>1, AddTree DEF g, x
  <2>3. x \notin UsedIn(h)
    BY <2>2 DEF UsedIn
  <2>4. Dirs(g) = Dirs(h) \cup {x} /\ FilesIn(g) = FilesIn(h)
    BY <2>2, <2>3 DEF Keeps, Dirs, FilesIn
  <2>5. \A y \in UsedIn(h) : NamesTo(g, y) = NamesTo(h, y)
    BY <1>3, <2>2, NamesSame
  <2>6. NamesTo(g, x) = q
    <3>1. NamesTo(g, x) = Append(NamesTo(g, d), tok)
      BY <1>1, <2>2, <2>3, NamesStep
    <3> QED  BY <1>1, <2>5, <3>1
  <2>7. FileBag(g) = FileBag(h)
    BY <1>3, <2>2, <2>4, PathsSame
  <2>8. DirPaths(g) = DirPaths(h) \cup {q}
    <3>1. /\ DirPaths(g) = {NamesTo(g, y) : y \in Dirs(g)}
          /\ DirPaths(h) = {NamesTo(h, y) : y \in Dirs(h)}
      BY <1>3, <2>2, DirPathsAre
    <3>2. \A y \in Dirs(h) : NamesTo(g, y) = NamesTo(h, y)
      BY <2>5 DEF Dirs
    <3> HIDE DEF q
    <3> QED  BY <2>4, <2>6, <3>1, <3>2
  <2>9. t.h = g /\ t.at = x
    BY <1>2, <1>5
  <2> HIDE DEF q
  <2> QED  BY <2>6, <2>7, <2>8, <2>9 DEF h, d, q
<1> QED  BY <1>4, <1>5

\* mkdir: every directory on the way is there afterwards.
LEMMA MkdirPaths ==
  ASSUME NEW h, TreeOf(h), NEW d \in Dirs(h), NEW toks \in Seq(Token),
         Cardinality(Unused(h)) >= Len(toks)
  PROVE  LET g == MkdirFrom(h, d, toks)
         IN  /\ DirPaths(g) = DirPaths(h) \cup
                   {NamesTo(h, d) \o SubSeq(toks, 1, k) : k \in 1 .. Len(toks)}
             /\ FileBag(g) = FileBag(h)
<1> DEFINE n == Len(toks)
           q == NamesTo(h, d)
           s == MkdirWalk(h, d, toks, n)
           start == [h |-> h, at |-> d]
           at(k) == q \o SubSeq(toks, 1, k)
           way(k) == {at(j) : j \in 1 .. k}
           Inv(k) == /\ MkdirInv(h, s[k], n - k)
                     /\ NamesTo(s[k].h, s[k].at) = at(k)
                     /\ DirPaths(s[k].h) = DirPaths(h) \cup way(k)
                     /\ FileBag(s[k].h) = FileBag(h)
<1>1. n \in Nat /\ Cardinality(Unused(h)) >= n /\ \A k \in 1 .. n : toks[k] \in Token
  OBVIOUS
<1>2. q \in Seq(Token)
  BY NamesAreNames
<1>3. at(0) = q
  BY <1>2, SubSeqEmpty, ConcatEmptySeq
<1>4. \A k \in Nat : k + 1 \in 1 .. n =>
        at(k + 1) = Append(at(k), toks[k + 1])
  OBVIOUS
<1>5. MkdirFrom(h, d, toks) = s[n].h
  BY MkdirOnWalk
<1> HIDE DEF n, q, at
<1>6. \A k \in 0 .. n : s[k] = IF k = 0 THEN start ELSE MkdirStep(s[k - 1], toks[k])
  BY <1>1, MkdirExists DEF IsMkdir
<1>7. MkdirInv(h, start, n) /\ start.h = h /\ start.at = d
  BY <1>1 DEF MkdirInv, Keeps
<1> HIDE DEF s, start
<1> DEFINE S == {k \in Nat : k \in 0 .. n => Inv(k)}
<1>8. 0 \in S
  <2>1. s[0] = start /\ n - 0 = n /\ way(0) = {}
    BY <1>1, <1>6
  <2> HIDE DEF way
  <2> QED  BY <1>3, <1>7, <2>1 DEF q
<1>9. ASSUME NEW k \in Nat, k \in S PROVE k + 1 \in S
  <2> SUFFICES ASSUME k + 1 \in 0 .. n PROVE Inv(k + 1)
    <3> HIDE DEF Inv
    <3> QED  OBVIOUS
  <2> DEFINE m == n - (k + 1)
             u == s[k]
             v == s[k + 1]
  <2>1. m \in Nat /\ n - k = m + 1 /\ k \in 0 .. n /\ k + 1 \in 1 .. n
    BY <1>1
  <2>2. Inv(k)
    BY <1>9, <2>1
  <2>3. v = MkdirStep(u, toks[k + 1])
    BY <1>1, <1>6
  <2>4. way(k + 1) = way(k) \cup {at(k + 1)}
    <3>1. 1 .. k + 1 = (1 .. k) \cup {k + 1}
      BY <2>1
    <3> QED  BY <3>1
  <2>5. MkdirInv(h, u, m + 1) /\ toks[k + 1] \in Token
    BY <1>1, <2>1, <2>2
  <2> HIDE DEF way, m, u, v
  <2>6. MkdirInv(h, v, m)
    BY <2>1, <2>3, <2>5, MkdirStepTree
  <2>7. Unused(u.h) # {}
    <3>1. Cardinality(Unused(u.h)) >= m + 1 /\ Cardinality({}) = 0
      BY <2>5, FS_EmptySet DEF MkdirInv
    <3>2. ~(0 >= m + 1)
      BY <2>1
    <3> QED  BY <3>1, <3>2
  <2>8. /\ NamesTo(v.h, v.at) = Append(NamesTo(u.h, u.at), toks[k + 1])
        /\ DirPaths(v.h) = DirPaths(u.h) \cup {Append(NamesTo(u.h, u.at), toks[k + 1])}
        /\ FileBag(v.h) = FileBag(u.h)
    BY <2>3, <2>5, <2>7, MkdirStepPaths DEF MkdirInv
  <2>9. at(k + 1) = Append(NamesTo(u.h, u.at), toks[k + 1])
    BY <1>4, <2>1, <2>2 DEF u
  <2>10. DirPaths(v.h) = DirPaths(h) \cup way(k + 1) /\ FileBag(v.h) = FileBag(h)
    BY <2>2, <2>4, <2>8, <2>9 DEF u
  <2> QED  BY <2>6, <2>8, <2>9, <2>10 DEF m, v
<1>10. n \in S
  <2> HIDE DEF S
  <2> QED  BY <1>1, <1>8, <1>9, NatRise
<1>11. DirPaths(s[n].h) = DirPaths(h) \cup way(n) /\ FileBag(s[n].h) = FileBag(h)
  BY <1>1, <1>10
<1>12. LET g == MkdirFrom(h, d, toks)
       IN  DirPaths(g) = DirPaths(h) \cup way(n) /\ FileBag(g) = FileBag(h)
  BY <1>5, <1>11
<1> QED  BY <1>12 DEF at, q, n

-----------------------------------------------------------------------------
(* The commands of FileTree are those of PathTree.                         *)

\* Where a pathname leads, and what creat and rm take it for.
LEMMA PathnamesResolve ==
  ASSUME TInv, NEW p \in Paths, ~FollowsFreed(p)
  PROVE  /\ Tree!Base(p) = NamesTo(heap, IF p.abs THEN Root ELSE cwd)
         /\ Tree!Resolve(p) = PathOf(heap, findPathnameNode(p))
         /\ Tree!FilePath(p) = IF dnode(p) = NULL THEN Tree!NoPath
                               ELSE Append(NamesTo(heap, dnode(p)), BaseOf(p))
<1> DEFINE d == IF p.abs THEN Root ELSE cwd
           q == Tree!Base(p)
           r == DirOf(p)
<1>1. TreeOf(heap) /\ d \in Dirs(heap) /\ p.toks \in Seq(Token) /\ r.toks \in Seq(Token) /\ r.abs = p.abs
  BY FoundFacts, PathFacts DEF TInv
<1>2. q = NamesTo(heap, d) /\ q = PathOf(heap, d) /\ q # Tree!NoPath
  <2>1. PathOf(heap, d) = NamesTo(heap, d) /\ NamesTo(heap, d) # Tree!NoPath
    BY <1>1, DirPathsAre
  <2>2. NamesTo(heap, Root) = <<>>
    BY <1>1, NamesStep
  <2> QED  BY <2>1, <2>2 DEF Tree!Base
<1>3. Tree!Resolve(p) = PathOf(heap, findPathnameNode(p))
  <2>1. findPathnameNode(p) = FindFrom(heap, d, p.toks)
    BY DEF findPathnameNode
  <2>2. Tree!Resolve(p) = Tree!ResolveFrom(DirPaths(heap), q, p.toks)
    BY DEF Tree!Resolve
  <2> HIDE DEF d, q
  <2> QED  BY <1>1, <1>2, <2>1, <2>2, FindResolves
<1>4. Tree!Resolve(r) = PathOf(heap, findPathnameNode(r))
  <2>1. findPathnameNode(r) = FindFrom(heap, d, r.toks)
    BY <1>1 DEF findPathnameNode
  <2>2. Tree!Resolve(r) = Tree!ResolveFrom(DirPaths(heap), q, r.toks)
    BY <1>1 DEF Tree!Resolve, Tree!Base
  <2> HIDE DEF d, q, r
  <2> QED  BY <1>1, <1>2, <2>1, <2>2, FindResolves
<1>5. r.toks = IF p.toks = <<>> THEN <<>> ELSE Front(p.toks)
  <2>1. p \in [abs : BOOLEAN, toks : Seq(Names \cup {".."})]
    BY PathsAssumption DEF Path
  <2> QED  BY <2>1 DEF DirOf
<1>6. PathOf(heap, dnode(p)) = IF p.toks = <<>> THEN q ELSE Tree!Resolve(r)
  <2>1. PathOf(heap, FindFrom(heap, d, <<>>)) = q
    BY <1>2, FindNothing
  <2>2. findPathnameNode(r) = FindFrom(heap, d, r.toks)
    BY <1>1 DEF findPathnameNode
  <2>3. CASE p.toks = <<>>
    <3>1. dnode(p) = IF p.abs THEN findPathnameNode(r) ELSE cwd
      BY <2>3 DEF dnode, Plain
    <3>2. r.toks = <<>>
      BY <1>5, <2>3
    <3> QED  BY <1>2, <2>1, <2>2, <2>3, <3>1, <3>2
  <2>4. CASE p.toks # <<>> /\ Plain(p)
    <3>1. Front(p.toks) = <<>>
      BY <1>1, <2>4 DEF Plain, Front
    <3>2. r.toks = <<>> /\ ~p.abs /\ dnode(p) = cwd
      BY <1>5, <2>4, <3>1 DEF Plain, dnode
    <3> QED  BY <1>2, <1>4, <2>1, <2>2, <2>4, <3>2
  <2>5. CASE p.toks # <<>> /\ ~Plain(p)
    <3>1. dnode(p) = findPathnameNode(r)
      BY <2>5 DEF dnode
    <3> QED  BY <1>4, <2>5, <3>1
  <2> QED  BY <2>3, <2>4, <2>5
<1>7. Tree!FilePath(p) = IF PathOf(heap, dnode(p)) = Tree!NoPath THEN Tree!NoPath
                         ELSE Append(PathOf(heap, dnode(p)), BaseOf(p))
  <2>1. BaseOf(p) = IF p.toks # <<>> THEN Tree!Last(p.toks) ELSE IF p.abs THEN "/" ELSE ""
    BY DEF BaseOf, Last, Tree!Last
  <2>2. p.toks # <<>> => r = [p EXCEPT !.toks = Tree!Front(@)]
    BY DEF DirOf, Front, Tree!Front
  <2>3. Tree!FilePath(p) =
          LET e == IF p.toks = <<>> THEN q ELSE Tree!Resolve([p EXCEPT !.toks = Tree!Front(@)])
          IN  IF e = Tree!NoPath THEN Tree!NoPath ELSE Append(e, BaseOf(p))
    BY <2>1 DEF Tree!FilePath
  <2> HIDE DEF q, r
  <2> QED  BY <1>6, <2>2, <2>3
<1>8. /\ dnode(p) = NULL => PathOf(heap, dnode(p)) = Tree!NoPath
      /\ dnode(p) # NULL => PathOf(heap, dnode(p)) = NamesTo(heap, dnode(p))
                            /\ NamesTo(heap, dnode(p)) # Tree!NoPath
  BY <1>1, FoundFacts, DirPathsAre
<1> QED  BY <1>2, <1>3, <1>7, <1>8

\* Nothing has a path inside the path of a directory that has no children.
LEMMA NotOccupied ==
  ASSUME TInv, NEW d \in Dirs(heap), heap[d].child = NULL
  PROVE  ~Tree!Occupied(NamesTo(heap, d))
<1> DEFINE q == NamesTo(heap, d)
<1>1. TreeOf(heap) /\ d \in UsedIn(heap)
  BY DEF TInv, Dirs
<1>2. In(heap, d) = {}
  <2>1. PICK m : KidsAre(heap, d, Children(heap, d), m)
    BY <1>1, ChildrenAre
  <2>2. m = 0
    <3>1. ASSUME m # 0 PROVE FALSE
      <4>1. 1 \in 1 .. m
        BY <2>1, <3>1 DEF KidsAre
      <4>2. NULL \in In(heap, d)
        BY <2>1, <3>1, <4>1 DEF KidsAre
      <4> QED  BY <4>2, AddressFacts DEF In, UsedIn
    <3> QED  BY <3>1
  <2> QED  BY <2>1, <2>2 DEF KidsAre
<1>3. ASSUME NEW y \in UsedIn(heap), NamesTo(heap, y) # <<>>, Tree!Inside(q, NamesTo(heap, y))
      PROVE  FALSE
  <2>1. y \in UsedIn(heap) \ {Root}
    BY <1>1, <1>3, NamesStep
  <2>2. NamesTo(heap, y) = Append(NamesTo(heap, heap[y].parent), heap[y].name)
    BY <1>1, <2>1, NamesStep
  <2>3. /\ NamesTo(heap, heap[y].parent) \in Seq(NodeName) /\ heap[y].name \in NodeName
        /\ heap[y].parent \in Dirs(heap)
    BY <1>1, <2>1, NamesAreNames, FieldTypes DEF TreeOf, ParentKept, UsedIn, Dirs
  <2>4. Tree!Front(NamesTo(heap, y)) = q
    BY <1>3 DEF Tree!Inside
  <2> DEFINE r == NamesTo(heap, heap[y].parent)
             b == heap[y].name
  <2>5. r \in Seq(NodeName) /\ b \in NodeName /\ Tree!Front(Append(r, b)) = q
    BY <2>2, <2>3, <2>4
  <2> HIDE DEF r, b, q
  <2>6. r = q
    BY <2>5 DEF Tree!Front
  <2>7. heap[y].parent = d
    BY <1>1, <2>3, <2>6, PathsOfDirs DEF r, q
  <2> QED  BY <1>2, <2>1, <2>7 DEF In
<1>4. ASSUME NEW r \in DirPaths(heap) \cup DOMAIN FileBag(heap)
      PROVE  \E y \in UsedIn(heap) : r = NamesTo(heap, y)
  <2>1. DOMAIN FileBag(heap) = {NamesTo(heap, x) : x \in FilesIn(heap)}
    BY FilesAre
  <2>2. DirPaths(heap) = {NamesTo(heap, x) : x \in Dirs(heap)}
    BY <1>1, DirPathsAre
  <2> QED  BY <2>1, <2>2 DEF Dirs, FilesIn
<1> HIDE DEF q
<1>5. ~Tree!Occupied(q)
  BY <1>3, <1>4 DEF Tree!Occupied
<1> QED  BY <1>5 DEF q

LEMMA CwdPath ==
  ASSUME TInv
  PROVE  PathOf(heap, cwd) = Tree!NoPath <=> cwd = NULL
<1>1. cwd \in {NULL} \cup Dirs(heap) /\ TreeOf(heap) /\ NULL \notin Dirs(heap)
  BY AddressFacts DEF TInv, Dirs, UsedIn
<1> QED  BY <1>1, DirPathsAre

LEMMA CwdPathKept ==
  ASSUME TInv, TInv', Keeps(heap, heap') \/ Keeps(heap', heap), cwd' = cwd
  PROVE  PathOf(heap', cwd') = PathOf(heap, cwd)
  BY PathKept DEF PathOf

LEMMA StutterRefines ==
  ASSUME UNCHANGED vars
  PROVE  UNCHANGED Tree!vars
  BY DEF vars, Tree!vars

LEMMA UndefinedRefines ==
  ASSUME Undefined, cwd = NULL
  PROVE  Tree!Undefined
  BY DEF Undefined, Tree!Undefined, Tree!NoPath, PathOf

LEMMA MkdirRefines ==
  ASSUME TInv, NEW p \in Paths, Mkdir(p)
  PROVE  Tree!Mkdir(p) \/ Tree!Undefined \/ UNCHANGED Tree!vars
<1> DEFINE d == IF p.abs THEN Root ELSE cwd
<1>1. ASSUME Undefined, cwd = NULL PROVE Tree!Undefined
  BY <1>1, UndefinedRefines
<1>2. ASSUME UNCHANGED vars PROVE UNCHANGED Tree!vars
  BY <1>2, StutterRefines
<1>3. ASSUME ~FollowsFreed(p), d \in Dirs(heap), Cardinality(Unused(heap)) >= Len(p.toks),
             heap' = MkdirFrom(heap, d, p.toks), UNCHANGED <<cwd, status>>
      PROVE  Tree!Mkdir(p)
  <2>1. TreeOf(heap) /\ p.toks \in Seq(Token)
    BY PathFacts DEF TInv
  <2>2. Tree!Base(p) = NamesTo(heap, d)
    BY <1>3, PathnamesResolve
  <2> HIDE DEF d
  <2>3. /\ DirPaths(heap') = DirPaths(heap) \cup
             {NamesTo(heap, d) \o SubSeq(p.toks, 1, k) : k \in 1 .. Len(p.toks)}
        /\ FileBag(heap') = FileBag(heap)
    BY <1>3, <2>1, MkdirPaths
  <2>4. TreeOf(heap') /\ Keeps(heap, heap')
    BY <1>3, <2>1, MkdirTree
  <2>5. PathOf(heap', cwd') = PathOf(heap, cwd)
    BY <1>3, <2>4, MkdirKeeps, CwdPathKept
  <2>6. p.abs \/ PathOf(heap, cwd) # Tree!NoPath
    BY <1>3, CwdPath DEF FollowsFreed
  <2> QED  BY <1>3, <2>2, <2>3, <2>5, <2>6 DEF Tree!Mkdir
<1> HIDE DEF d
<1> QED  BY <1>1, <1>2, <1>3, MkdirDoes DEF d

LEMMA RmdirRefines ==
  ASSUME TInv, NEW p \in Paths, Rmdir(p)
  PROVE  Tree!Rmdir(p) \/ Tree!Crash(p) \/ Tree!Undefined \/ UNCHANGED Tree!vars
<1> DEFINE x == findPathnameNode(p)
<1>1. ASSUME Undefined, cwd = NULL PROVE Tree!Undefined
  BY <1>1, UndefinedRefines
<1>2. ASSUME UNCHANGED vars PROVE UNCHANGED Tree!vars
  BY <1>2, StutterRefines
<1>3. ASSUME ~FollowsFreed(p), x \in Dirs(heap)
      PROVE  Tree!Resolve(p) = NamesTo(heap, x) /\ NamesTo(heap, x) # Tree!NoPath
  <2>1. Tree!Resolve(p) = PathOf(heap, x)
    BY <1>3, PathnamesResolve
  <2> HIDE DEF x
  <2> QED  BY <1>3, <2>1, DirPathsAre DEF TInv
<1>4. ASSUME ~FollowsFreed(p), x \in Dirs(heap), heap[x].child = NULL, x = Root, Crash
      PROVE  Tree!Crash(p)
  <2> HIDE DEF x
  <2>1. NamesTo(heap, x) = <<>> /\ ~Tree!Occupied(NamesTo(heap, x))
    BY <1>4, NamesStep, NotOccupied DEF TInv
  <2> QED  BY <1>3, <1>4, <2>1 DEF Tree!Crash, Crash
<1>5. ASSUME ~FollowsFreed(p), x \in Dirs(heap), heap[x].child = NULL, x # Root,
             heap' = Unlinked(heap, x), cwd' = IF cwd = x THEN NULL ELSE cwd, UNCHANGED status
      PROVE  Tree!Rmdir(p)
  <2> DEFINE q == NamesTo(heap, x)
  <2>1. Tree!Resolve(p) = q /\ q # Tree!NoPath
    BY <1>3, <1>5
  <2> HIDE DEF x
  <2>2. TreeOf(heap) /\ x \in UsedIn(heap) \ {Root} /\ heap[x].type = "D"
    BY <1>5 DEF TInv, Dirs
  <2>3. q # <<>> /\ ~Tree!Occupied(q)
    BY <1>5, <2>2, PathNotEmpty, NotOccupied
  <2>4. /\ TreeOf(heap') /\ Keeps(heap', heap)
        /\ DirPaths(heap') = DirPaths(heap) \ {q} /\ FileBag(heap') = FileBag(heap)
    BY <1>5, <2>2, UnlinkedPaths
  <2>5. PathOf(heap', cwd') = IF PathOf(heap, cwd) = q THEN Tree!NoPath ELSE PathOf(heap, cwd)
    <3>1. CASE cwd = NULL
      <4>1. PathOf(heap, cwd) = Tree!NoPath /\ PathOf(heap', cwd') = Tree!NoPath
        BY <1>5, <3>1 DEF PathOf, Tree!NoPath
      <4> QED  BY <2>1, <4>1
    <3>2. CASE cwd = x
      <4>1. PathOf(heap, cwd) = q /\ cwd' = NULL
        BY <1>5, <2>2, <3>2, DirPathsAre
      <4>2. PathOf(heap', cwd') = Tree!NoPath
        BY <4>1 DEF PathOf, Tree!NoPath
      <4> QED  BY <4>1, <4>2
    <3>3. CASE cwd # NULL /\ cwd # x
      <4>1. cwd' = cwd /\ cwd \in Dirs(heap)
        BY <1>5, <3>3 DEF TInv
      <4>2. PathOf(heap', cwd') = PathOf(heap, cwd)
        BY <2>4, <4>1, RmdirKeeps, CwdPathKept
      <4>3. PathOf(heap, cwd) = NamesTo(heap, cwd) /\ NamesTo(heap, cwd) # q
        BY <1>5, <2>2, <3>3, <4>1, DirPathsAre, PathsOfDirs
      <4> QED  BY <4>2, <4>3
    <3> QED  BY <3>1, <3>2, <3>3
  <2> HIDE DEF q
  <2> QED  BY <1>5, <2>1, <2>3, <2>4, <2>5 DEF Tree!Rmdir
<1> HIDE DEF x
<1> QED  BY <1>1, <1>2, <1>4, <1>5, RmdirDoes DEF x

LEMMA CdRefines ==
  ASSUME TInv, NEW p \in Paths, Cd(p)
  PROVE  Tree!Cd(p) \/ Tree!Undefined \/ UNCHANGED Tree!vars
<1> DEFINE x == findPathnameNode(p)
<1>1. CASE FollowsFreed(p)
  BY <1>1, UndefinedRefines DEF Cd, FollowsFreed
<1>2. CASE ~FollowsFreed(p)
  <2>1. cwd' = IfFound(x) /\ UNCHANGED <<heap, status>>
    BY <1>2 DEF Cd
  <2>2. x \in {NULL} \cup Dirs(heap) /\ Tree!Resolve(p) = PathOf(heap, x) /\ TreeOf(heap)
    BY <1>2, FoundFacts, PathnamesResolve DEF TInv
  <2> HIDE DEF x
  <2>3. CASE x = NULL
    BY <2>1, <2>3, StutterRefines DEF IfFound, vars
  <2>4. CASE x # NULL
    <3>1. Tree!Resolve(p) # Tree!NoPath
      BY <2>2, <2>4, DirPathsAre
    <3>2. PathOf(heap', cwd') = Tree!Resolve(p)
      BY <2>1, <2>2, <2>4 DEF IfFound
    <3> QED  BY <2>1, <3>1, <3>2 DEF Tree!Cd
  <2> QED  BY <2>3, <2>4
<1> QED  BY <1>1, <1>2

LEMMA CreatRefines ==
  ASSUME TInv, NEW p \in Paths, Creat(p)
  PROVE  Tree!Creat(p) \/ Tree!Undefined \/ UNCHANGED Tree!vars
<1> DEFINE d == dnode(p)
           b == BaseOf(p)
<1>1. ASSUME Undefined, cwd = NULL PROVE Tree!Undefined
  BY <1>1, UndefinedRefines
<1>2. ASSUME UNCHANGED vars PROVE UNCHANGED Tree!vars
  BY <1>2, StutterRefines
<1>3. ASSUME ~FollowsFreed(p), d \in Dirs(heap), Unused(heap) # {},
             heap' = Add(heap, d, "F", b), UNCHANGED <<cwd, status>>
      PROVE  Tree!Creat(p)
  <2>1. TreeOf(heap) /\ b \in NodeName /\ NULL \notin Dirs(heap)
    BY PathFacts, AddressFacts DEF TInv, Dirs, UsedIn
  <2>2. Tree!FilePath(p) = Append(NamesTo(heap, d), b)
    <3>1. Tree!FilePath(p) = IF d = NULL THEN Tree!NoPath ELSE Append(NamesTo(heap, d), b)
      BY <1>3, PathnamesResolve
    <3> HIDE DEF d, b
    <3> QED  BY <1>3, <2>1, <3>1
  <2> HIDE DEF d, b
  <2>3. /\ TreeOf(heap') /\ Keeps(heap, heap') /\ DirPaths(heap') = DirPaths(heap)
        /\ FileBag(heap') =
             Tree!(+)(FileBag(heap), Tree!SetToBag({Append(NamesTo(heap, d), b)}))
    BY <1>3, <2>1, CreatPaths
  <2>4. PathOf(heap', cwd') = PathOf(heap, cwd)
    BY <1>3, <2>3, CreatKeeps, CwdPathKept
  <2>5. Tree!FilePath(p) # Tree!NoPath
    BY <1>3, <2>1, <2>2, NamesAreNames, NotNoPath
  <2> QED  BY <1>3, <2>2, <2>3, <2>4, <2>5 DEF Tree!Creat
<1> HIDE DEF d, b
<1> QED  BY <1>1, <1>2, <1>3, CreatDoes DEF d, b

LEMMA RmRefines ==
  ASSUME TInv, NEW p \in Paths, Rm(p)
  PROVE  Tree!Rm(p) \/ Tree!Crash(p) \/ Tree!Undefined \/ UNCHANGED Tree!vars
<1> DEFINE d == dnode(p)
           b == BaseOf(p)
           x == Named(d, b)
           q == Append(NamesTo(heap, d), b)
<1>1. ASSUME Undefined, cwd = NULL PROVE Tree!Undefined
  BY <1>1, UndefinedRefines
<1>2. ASSUME UNCHANGED vars PROVE UNCHANGED Tree!vars
  BY <1>2, StutterRefines
<1>3. ASSUME ~FollowsFreed(p), d \in Dirs(heap)
      PROVE  /\ Tree!FilePath(p) = q /\ q # Tree!NoPath /\ TreeOf(heap) /\ b \in NodeName
             /\ \A y \in UsedIn(heap) : NamesTo(heap, y) = q <=> y \in In(heap, d) /\ heap[y].name = b
  <2>1. TreeOf(heap) /\ b \in NodeName /\ NULL \notin Dirs(heap)
    BY PathFacts, AddressFacts DEF TInv, Dirs, UsedIn
  <2>2. Tree!FilePath(p) = IF d = NULL THEN Tree!NoPath ELSE q
    BY <1>3, PathnamesResolve
  <2> HIDE DEF d, b
  <2>3. NamesTo(heap, d) \in Seq(Token)
    BY <1>3, <2>1, NamesAreNames
  <2>4. q # Tree!NoPath
    BY <2>3, NotNoPath
  <2>5. \A y \in UsedIn(heap) : NamesTo(heap, y) = q <=> y \in In(heap, d) /\ heap[y].name = b
    BY <1>3, <2>1, InByPath
  <2> HIDE DEF q
  <2> QED  BY <1>3, <2>1, <2>2, <2>4, <2>5
<1>4. ASSUME ~FollowsFreed(p), d \in Dirs(heap), x = NULL, Crash
      PROVE  Tree!Crash(p)
  <2>1. \A y \in In(heap, d) : heap[y].name # b
    <3>1. TreeOf(heap)
      BY DEF TInv
    <3> HIDE DEF d, b
    <3> QED  BY <1>4, <3>1, NamedFinds
  <2> HIDE DEF d, b, x
  <2>2. \A y \in UsedIn(heap) : NamesTo(heap, y) # q
    BY <1>3, <1>4, <2>1
  <2>3. /\ DirPaths(heap) = {NamesTo(heap, y) : y \in Dirs(heap)}
        /\ DOMAIN FileBag(heap) = {NamesTo(heap, y) : y \in FilesIn(heap)}
    BY FilesAre, DirPathsAre DEF TInv
  <2> HIDE DEF q
  <2>4. q \notin DirPaths(heap) /\ q \notin DOMAIN FileBag(heap)
    BY <2>2, <2>3 DEF Dirs, FilesIn
  <2> QED  BY <1>3, <1>4, <2>4 DEF Tree!Crash, Crash, Tree!BagIn, Tree!BagToSet
<1>5. ASSUME ~FollowsFreed(p), d \in Dirs(heap), x \in In(heap, d), heap[x].name = b,
             heap[x].type = "F", heap' = Unlinked(heap, x), UNCHANGED <<cwd, status>>
      PROVE  Tree!Rm(p)
  <2> HIDE DEF d, b, x
  <2>1. x \in UsedIn(heap) \ {Root} /\ x \in FilesIn(heap)
    BY <1>5 DEF In, FilesIn
  <2>2. NamesTo(heap, x) = q /\ Tree!FilePath(p) = q /\ TreeOf(heap) /\ heap[x].child = NULL
    BY <1>3, <1>5, <2>1, FileFacts
  <2> HIDE DEF q
  <2>3. /\ TreeOf(heap') /\ Keeps(heap', heap) /\ DirPaths(heap') = DirPaths(heap)
        /\ FileBag(heap') = Tree!(-)(FileBag(heap), Tree!SetToBag({Tree!FilePath(p)}))
    BY <1>5, <2>1, <2>2, UnlinkedPaths
  <2>4. PathOf(heap', cwd') = PathOf(heap, cwd)
    BY <1>5, <2>3, RmKeeps, CwdPathKept
  <2>5. Tree!BagIn(Tree!FilePath(p), FileBag(heap))
    <3>1. DOMAIN FileBag(heap) = {NamesTo(heap, y) : y \in FilesIn(heap)}
      BY FilesAre
    <3> QED  BY <2>1, <2>2, <3>1 DEF Tree!BagIn, Tree!BagToSet
  <2> QED  BY <1>5, <2>3, <2>4, <2>5 DEF Tree!Rm
<1> HIDE DEF d, b, x, q
<1> QED  BY <1>1, <1>2, <1>4, <1>5, RmDoes DEF d, b, x

LEMMA TreeRefines == TInv /\ [Next]_vars => [Tree!Next]_(Tree!vars)
<1> SUFFICES ASSUME TInv, [Next]_vars PROVE [Tree!Next]_(Tree!vars)
  OBVIOUS
<1>1. ASSUME UNCHANGED vars PROVE UNCHANGED Tree!vars
  BY <1>1, StutterRefines
<1>2. ASSUME status = "running", Tree!Undefined PROVE Tree!Next
  BY <1>2 DEF Tree!Next
<1>3. ASSUME status = "running", NEW p \in Paths,
             Tree!Mkdir(p) \/ Tree!Rmdir(p) \/ Tree!Cd(p) \/ Tree!Creat(p) \/ Tree!Rm(p) \/ Tree!Crash(p)
      PROVE  Tree!Next
  BY <1>3 DEF Tree!Next
<1>4. ASSUME Pwd PROVE [Tree!Next]_(Tree!vars)
  BY <1>1, <1>2, <1>4, UndefinedRefines DEF Pwd
<1>5. ASSUME NEW p \in Paths, Mkdir(p) PROVE [Tree!Next]_(Tree!vars)
  <2>1. status = "running"
    BY <1>5 DEF Mkdir
  <2> QED  BY <1>2, <1>3, <1>5, <2>1, MkdirRefines
<1>6. ASSUME NEW p \in Paths, Rmdir(p) PROVE [Tree!Next]_(Tree!vars)
  <2>1. status = "running"
    BY <1>6 DEF Rmdir
  <2> QED  BY <1>2, <1>3, <1>6, <2>1, RmdirRefines
<1>7. ASSUME NEW p \in Paths, Cd(p) PROVE [Tree!Next]_(Tree!vars)
  <2>1. status = "running"
    BY <1>7 DEF Cd
  <2> QED  BY <1>2, <1>3, <1>7, <2>1, CdRefines
<1>8. ASSUME NEW p \in Paths, Ls(p) PROVE [Tree!Next]_(Tree!vars)
  BY <1>1, <1>2, <1>8, UndefinedRefines DEF Ls, FollowsFreed
<1>9. ASSUME NEW p \in Paths, Creat(p) PROVE [Tree!Next]_(Tree!vars)
  <2>1. status = "running"
    BY <1>9 DEF Creat
  <2> QED  BY <1>2, <1>3, <1>9, <2>1, CreatRefines
<1>10. ASSUME NEW p \in Paths, Rm(p) PROVE [Tree!Next]_(Tree!vars)
  <2>1. status = "running"
    BY <1>10 DEF Rm
  <2> QED  BY <1>2, <1>3, <1>10, <2>1, RmRefines
<1> QED  BY <1>1, <1>4, <1>5, <1>6, <1>7, <1>8, <1>9, <1>10 DEF Next, Command, Ended

LEMMA TreeBegins == Init => Tree!Init
<1> SUFFICES ASSUME Init PROVE Tree!Init
  OBVIOUS
<1>1. TreeOf(heap) /\ heap = EmptyTree /\ cwd = Root /\ status = "running"
  BY InitTree DEF TInv, Init
<1>2. \A x \in Addresses : heap[x].type = IF x = Root THEN "D" ELSE "free"
  BY <1>1, AddressFacts DEF EmptyTree, Free
<1>3. Dirs(heap) = {Root} /\ FilesIn(heap) = {}
  BY <1>2, AddressFacts DEF Dirs, FilesIn, UsedIn, Unused
<1>4. DirPaths(heap) = {<<>>} /\ PathOf(heap, cwd) = <<>>
  BY <1>1, <1>3, DirPathsAre, NamesStep
<1>5. FileBag(heap) = Tree!EmptyBag
  <2>1. FileBag(heap) = [q \in {} |-> Cardinality(Copies(heap, q))]
    <3>1. {NamesTo(heap, x) : x \in FilesIn(heap)} = {}
      BY <1>3
    <3> QED  BY <3>1, FilesAre
  <2> QED  BY <2>1 DEF Tree!EmptyBag, Tree!SetToBag
<1> QED  BY <1>1, <1>4, <1>5 DEF Tree!Init

\* The commands, which follow and set the pointers of the nodes (fileTreeSim.c:
\* 135-331), do to the set of directories and to the bag of files what PathTree
\* says of them, whatever was typed before; and the program goes wrong only where
\* PathTree lets it.
THEOREM TreeRefinement == Spec => RefinesPathTree
<1> QED  BY TreeBegins, TreeRefines, TreeInvariance, PTL DEF Spec, RefinesPathTree, Tree!Spec

=============================================================================
