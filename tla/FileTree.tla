------------------------------ MODULE FileTree ------------------------------
(***************************************************************************)
(* fileTreeSim/fileTreeSim.c: the tree of NODEs, linked by a parent, a     *)
(* first child and a next sibling, and the commands that search it and     *)
(* change its links.  The commands that write the tree to a file and read  *)
(* it back are in module FileTreeSave.                                     *)
(*                                                                         *)
(* heap[x] is the NODE at address x; NULL is address 0 and the root is at  *)
(* address 1 for good.  A pathname is whether it starts with '/', and its  *)
(* tokens.  A command that follows a null pointer ends the program, and    *)
(* one that follows a pointer to memory already freed leaves it with no    *)
(* defined state; in both cases the model stops there.                     *)
(***************************************************************************)
EXTENDS Naturals, Sequences, FiniteSets, SequencesExt, LinkedLists

CONSTANTS Names,      \* names a user gives to nodes
          Paths,      \* pathnames a user types: [abs, toks]
          MaxNodes    \* bound: addresses

Path == [abs : BOOLEAN, toks : Seq(Names \cup {".."})]

ASSUME NamesAssumption == Names \subseteq STRING \ {"", "/", ".."}
ASSUME PathsAssumption == Paths \subseteq Path
ASSUME MaxNodesAssumption == MaxNodes \in Nat \ {0}

VARIABLES
  heap,     \* the nodes
  cwd,      \* address of the current directory, NULL once it has been freed
  status    \* "running", "crashed" (null pointer) or "undefined" (freed memory)

vars == <<heap, cwd, status>>

NULL == 0
Root == 1
Addresses == 1 .. MaxNodes

Free == [type |-> "free", name |-> "", parent |-> NULL, child |-> NULL, sibling |-> NULL]

\* heap[NULL] is there so that a walk may end on NULL; nothing is read of it.
EmptyTree ==
  [x \in {NULL} \cup Addresses |->
     IF x = Root
     THEN [type |-> "D", name |-> "/", parent |-> Root, child |-> NULL, sibling |-> Root]
     ELSE Free]

-----------------------------------------------------------------------------
(* Walks.                                                                  *)

\* The nodes that ls lists: the first child of d and its siblings.
Children(h, d) ==
  NodesFrom(h[d].child, [x \in DOMAIN h |-> h[x].sibling], MaxNodes, NULL)

\* slip: the type of the node is not looked at
IsNamed(h, x, tok) == h[x].name = tok

\* slip: the walk does not go beyond the first child
IsFirst(h, x, tok) == h[x].name = tok /\ h[x].type = "D" /\ h[h[x].parent].child = x

IsSubdir(h, x, tok) == h[x].name = tok /\ h[x].type = "D"

\* The first of these nodes at a position in hits, if there is any.
FirstOf(nodes, hits) == IF hits = {} THEN NULL ELSE nodes[Min(hits)]

\* The first directory of that name among the children of d.
Subdir(h, d, tok) ==
  LET kids == Children(h, d)
  IN  FirstOf(kids, {i \in DOMAIN kids : IsSubdir(h, kids[i], tok)})

\* One token of a pathname, from directory x.
Enter(h, x, tok) ==
  IF x = NULL THEN NULL ELSE IF tok = ".." THEN h[x].parent ELSE Subdir(h, x, tok)

\* findPathnameNode, from directory d.
FindFrom(h, d, toks) ==
  LET at[k \in 0 .. Len(toks)] == IF k = 0 THEN d ELSE Enter(h, at[k - 1], toks[k])
  IN  at[Len(toks)]

findPathnameNode(p) == FindFrom(heap, IF p.abs THEN Root ELSE cwd, p.toks)

-----------------------------------------------------------------------------
(* Links.                                                                  *)

\* newNode, with the parent filled in by every caller.
NewNode(type, name, parent) ==
  [type |-> type, name |-> name, parent |-> parent, child |-> NULL, sibling |-> NULL]

Unused(h) == {x \in Addresses : h[x].type = "free"}

Fresh(h) == Min(Unused(h))

\* slip: the new node is linked to the first child instead of the last
BehindFirst(kids) == Head(kids)

BehindLast(kids) == Last(kids)

\* A new node becomes the last child of d.
Add(h, d, type, name) ==
  LET x    == Fresh(h)
      kids == Children(h, d)
      g    == [h EXCEPT ![x] = NewNode(type, name, d)]
  IN  IF kids = <<>> THEN [g EXCEPT ![d].child = x]
                     ELSE [g EXCEPT ![BehindLast(kids)].sibling = x]

\* One token of mkdir in state s, a tree and a directory of it.  ".." is a name
\* like any other here.
MkdirStep(s, tok) ==
  LET sub == Subdir(s.h, s.at, tok)
  IN  IF sub # NULL THEN [h |-> s.h, at |-> sub]
      ELSE [h |-> Add(s.h, s.at, "D", tok), at |-> Fresh(s.h)]

\* mkdir, from directory d: what is missing of the path is made.
MkdirFrom(h, d, toks) ==
  LET s[k \in 0 .. Len(toks)] ==
        IF k = 0 THEN [h |-> h, at |-> d] ELSE MkdirStep(s[k - 1], toks[k])
  IN  s[Len(toks)].h

\* slip: a node removed takes the rest of the list with it
NoneBehind(h, x) == NULL

Behind(h, x) == h[x].sibling

\* The node whose siblingPtr leads to x.
Before(h, x) == CHOOSE y \in Addresses \ {Root} : h[y].sibling = x

\* x taken out of its parent's list and freed.
Unlinked(h, x) ==
  LET d == h[x].parent
      g == IF h[d].child = x THEN [h EXCEPT ![d].child = Behind(h, x)]
                             ELSE [h EXCEPT ![Before(h, x)].sibling = Behind(h, x)]
  IN  [g EXCEPT ![x] = Free]

-----------------------------------------------------------------------------

Init ==
  /\ heap = EmptyTree
  /\ cwd = Root
  /\ status = "running"

Crash     == status' = "crashed" /\ UNCHANGED <<heap, cwd>>
Undefined == status' = "undefined" /\ UNCHANGED <<heap, cwd>>

\* The pathname is looked up from a current directory that was freed.
FollowsFreed(p) == ~p.abs /\ cwd = NULL

-----------------------------------------------------------------------------
(* The commands.  Each takes the pathname typed.                           *)

\* mkdir without a pathname does nothing, and does not look at cwd either.
Mkdir(p) ==
  /\ status = "running"
  /\ Cardinality(Unused(heap)) >= Len(p.toks)
  /\ IF FollowsFreed(p) /\ p.toks # <<>> THEN Undefined
     ELSE /\ heap' = MkdirFrom(heap, IF p.abs THEN Root ELSE cwd, p.toks)
          /\ UNCHANGED <<cwd, status>>

\* The root is its own parent but not its own child: the search for the node
\* before it falls off the (empty) list.
Rmdir(p) ==
  /\ status = "running"
  /\ IF FollowsFreed(p) THEN Undefined
     ELSE LET x == findPathnameNode(p)
              refused == x = NULL \/ heap[x].child # NULL
          IN  \/ refused /\ UNCHANGED vars
              \/ ~refused /\ x = Root /\ Crash
              \/ /\ ~refused /\ x # Root
                 /\ heap' = Unlinked(heap, x)
                 /\ cwd' = IF cwd = x THEN NULL ELSE cwd
                 /\ UNCHANGED status

\* slip: cwd is set before the result is tested
Untested(node) == node

IfFound(node) == IF node = NULL THEN cwd ELSE node

\* cd without a pathname stays where it is.
Cd(p) ==
  /\ status = "running"
  /\ IF FollowsFreed(p) THEN Undefined
     ELSE /\ cwd' = IfFound(findPathnameNode(p))
          /\ UNCHANGED <<heap, status>>

\* ls changes nothing.
Ls(p) ==
  /\ status = "running"
  /\ IF FollowsFreed(p) THEN Undefined ELSE UNCHANGED vars

Pwd ==
  /\ status = "running"
  /\ IF cwd = NULL THEN Undefined ELSE UNCHANGED vars

\* The directory and the name creat and rm take a pathname for: a pathname
\* without a '/' is a name, the empty one too; of the others dirname() and
\* basename(), which are both "/" for "/".
Plain(p)  == ~p.abs /\ Len(p.toks) <= 1
DirOf(p)  == [p EXCEPT !.toks = IF @ = <<>> THEN <<>> ELSE Front(@)]
BaseOf(p) == IF p.toks # <<>> THEN Last(p.toks) ELSE IF p.abs THEN "/" ELSE ""

dnode(p) == IF Plain(p) THEN cwd ELSE findPathnameNode(DirOf(p))

\* creat does not look whether the name is taken.
Creat(p) ==
  /\ status = "running"
  /\ Unused(heap) # {}
  /\ IF FollowsFreed(p) THEN Undefined
     ELSE IF dnode(p) = NULL THEN UNCHANGED vars
     ELSE /\ heap' = Add(heap, dnode(p), "F", BaseOf(p))
          /\ UNCHANGED <<cwd, status>>

\* The child rm settles on: the first one of that name, file or directory.
Named(d, name) ==
  LET kids == Children(heap, d)
  IN  FirstOf(kids, {i \in DOMAIN kids : heap[kids[i]].name = name})

\* The name of the first child is read before it is known that there is one,
\* and the name of the second one before it is known that there are two.
Rm(p) ==
  /\ status = "running"
  /\ IF FollowsFreed(p) THEN Undefined
     ELSE LET d == dnode(p)
              x == Named(d, BaseOf(p))
          IN  CASE d = NULL -> UNCHANGED vars
                [] d # NULL /\ x = NULL ->
                     IF Len(Children(heap, d)) <= 1 THEN Crash ELSE UNCHANGED vars
                [] d # NULL /\ x # NULL ->
                     /\ heap' = IF heap[x].type = "F" THEN Unlinked(heap, x) ELSE heap
                     /\ UNCHANGED <<cwd, status>>

-----------------------------------------------------------------------------
(* The text of a tree: the lines save writes, and the tree reload makes of  *)
(* them.                                                                    *)

\* The names from the root to x in tree h: what pd prints.
NamesTo(h, x) ==
  LET names[y \in Addresses \ Unused(h)] ==
        IF h[y].parent = y THEN <<>> ELSE Append(names[h[y].parent], h[y].name)
  IN  names[x]

\* A path read back: its empty names and its slashes are lost.
ReadBack(names) ==
  LET toks[k \in 0 .. Len(names)] ==
        IF k = 0 THEN <<>>
        ELSE IF names[k] \in {"", "/"} THEN toks[k - 1] ELSE Append(toks[k - 1], names[k])
  IN  toks[Len(names)]

\* "type path", as it is read back.
Line(h, x) == [type |-> h[x].type, toks |-> ReadBack(NamesTo(h, x))]

\* slip: the children are written before the node itself
ChildrenFirst(x, below) == Append(below, x)

NodeFirst(x, below) == <<x>> \o below

\* The nodes in the order of writeNodes: a node, then what is below it, then its
\* siblings.
Visited(h) ==
  LET visit[x \in {NULL} \cup (Addresses \ (Unused(h) \cup {Root}))] ==
        IF x = NULL THEN <<>>
        ELSE NodeFirst(x, visit[h[x].child]) \o visit[h[x].sibling]
  IN  visit[h[Root].child]

Lines(h) ==
  LET nodes == Visited(h)
  IN  [k \in 1 .. Len(nodes) |-> Line(h, nodes[k])]

\* The mkdir or creat of a line.  dirname() and basename() of "/" are "/".
AddLine(h, line) ==
  IF line.type = "D" THEN MkdirFrom(h, Root, line.toks)
  ELSE LET p == [abs |-> TRUE, toks |-> line.toks]
           d == FindFrom(h, Root, DirOf(p).toks)
       IN  IF d = NULL THEN h ELSE Add(h, d, "F", BaseOf(p))

Rebuilt(h, lines) ==
  LET g[k \in 0 .. Len(lines)] == IF k = 0 THEN h ELSE AddLine(g[k - 1], lines[k])
  IN  g[Len(lines)]

-----------------------------------------------------------------------------

Command ==
  \/ Pwd
  \/ \E p \in Paths : Mkdir(p) \/ Rmdir(p) \/ Cd(p) \/ Ls(p) \/ Creat(p) \/ Rm(p)

Ended == status # "running" /\ UNCHANGED vars

Next == Command \/ Ended

Spec == Init /\ [][Next]_vars

-----------------------------------------------------------------------------
(* Properties.                                                             *)

Used == Addresses \ Unused(heap)

\* The values every variable may take.
TypeOK ==
  /\ heap \in [{NULL} \cup Addresses ->
       [type : {"D", "F", "free"}, name : Names \cup {"", "/", ".."},
        parent : 0 .. MaxNodes, child : 0 .. MaxNodes, sibling : 0 .. MaxNodes]]
  /\ cwd = NULL \/ heap[cwd].type = "D"
  /\ status \in {"running", "crashed", "undefined"}

\* Nothing outside of S is reached from S through childPtr or siblingPtr.  The
\* siblingPtr of the root is not followed.
Closed(h, S) ==
  \A x \in S :
    /\ h[x].child # NULL => h[x].child \in S
    /\ x # Root /\ h[x].sibling # NULL => h[x].sibling \in S

\* What is reached from the root.
Reached == {x \in Addresses : \A S \in SUBSET Addresses : Root \in S /\ Closed(heap, S) => x \in S}

\* After any sequence of commands the nodes in use form one tree: all of them
\* are reached from the root, each by exactly one pointer, from a node that is
\* its parent or has the same parent; files have no children.  (mkdir, creat,
\* rmdir and rm edit these pointers by hand.)
TreeShape ==
  /\ Reached = Used
  /\ \A x \in Used \ {Root} :
       Cardinality({y \in Used : heap[y].child = x})
         + Cardinality({y \in Used \ {Root} : heap[y].sibling = x}) = 1
  /\ \A x \in Used :
       /\ heap[x].child # NULL => heap[heap[x].child].parent = x
       /\ heap[x].sibling # NULL => heap[heap[x].sibling].parent = heap[x].parent
       /\ heap[x].type = "F" => heap[x].child = NULL

\* No directory holds two directories of the same name, so that a pathname
\* means one directory, although files may have its name.
DirsUnique ==
  \A x, y \in Used :
    x # y /\ heap[x].type = "D" /\ heap[y].type = "D"
          /\ heap[x].parent = heap[y].parent => heap[x].name # heap[y].name

\* What pwd prints leads cd back to where it was printed, although mkdir makes
\* directories named ".." and creat files with the names of directories.
PwdLeadsBack ==
  cwd # NULL => FindFrom(heap, Root, NamesTo(heap, cwd)) = cwd

\* A tree with the addresses of its nodes left out.
Listing(h) ==
  LET nodes == Visited(h)
  IN  [k \in 1 .. Len(nodes) |-> <<h[nodes[k]].type, NamesTo(h, nodes[k])>>]

\* Files without a name cannot be written as a path.
WellNamed == \A x \in Used : heap[x].name \notin {"", "/"} \/ x = Root

\* Whatever commands made the tree, reading back what writeNodes writes gives
\* the same tree: same names, types and order, same files that exist twice,
\* directories and files of the same name, directories named "..".
RoundTrip == WellNamed => Listing(Rebuilt(EmptyTree, Lines(heap))) = Listing(heap)

\* The paths of the directories, the bag of the paths of the files, and the path
\* of the current directory, which is PathTree's NoPath once it has been freed.
DirPaths(h) == {NamesTo(h, x) : x \in {y \in Addresses : h[y].type = "D"}}

FileBag(h) ==
  LET F == {y \in Addresses : h[y].type = "F"}
  IN  [q \in {NamesTo(h, x) : x \in F} |-> Cardinality({x \in F : NamesTo(h, x) = q})]

PathOf(h, d) == IF d = NULL THEN <<"/", "">> ELSE NamesTo(h, d)

\* The commands, by way of nodes and pointers, change paths as PathTree says
\* and nothing else: no path is lost with the list it was in, and none is gained.
\* The program goes wrong only where PathTree lets it.  PathTree is what the code
\* does, also where the menu says otherwise (cd without a pathname, 384).
Tree == INSTANCE PathTree WITH
  dirs <- DirPaths(heap), files <- FileBag(heap), cwd <- PathOf(heap, cwd)
RefinesPathTree == Tree!Spec
=============================================================================
