------------------------------ MODULE PathTree ------------------------------
(***************************************************************************)
(* What the commands of fileTreeSim do, as code (135-331), to the paths of *)
(* directories and files, without nodes and links: directories are a set   *)
(* of paths, files are a bag of paths, because creat may make the same     *)
(* file twice, and the current directory is a path.  A path is the         *)
(* sequence of names from the root.  Module FileTree, which has the nodes, *)
(* implements this one.                                                    *)
(*                                                                         *)
(* It is not what the menu (381-392) promises: where the menu and the code *)
(* differ this module goes with the code.  They do over cd without a       *)
(* pathname (it would go to /, lines 26 and 384) and over rm of a missing  *)
(* file or of one that a directory hides (318, 388).                       *)
(***************************************************************************)
EXTENDS Naturals, Sequences, SequencesExt, Bags

CONSTANTS Names, Paths

VARIABLES dirs, files, cwd, status

vars == <<dirs, files, cwd, status>>

\* Not found; also a current directory that is no more.  "/" names no directory
\* but the root, so no node has this path.
NoPath == <<"/", "">>

Init ==
  /\ dirs = {<<>>}
  /\ files = EmptyBag
  /\ cwd = <<>>
  /\ status = "running"

Base(p) == IF p.abs THEN <<>> ELSE cwd

\* One token of a pathname, from directory q of ds.
Enter(ds, q, tok) ==
  IF q = NoPath THEN NoPath
  ELSE IF tok = ".." THEN IF q = <<>> THEN <<>> ELSE Front(q)
  ELSE IF Append(q, tok) \in ds THEN Append(q, tok) ELSE NoPath

ResolveFrom(ds, q, toks) ==
  LET at[k \in 0 .. Len(toks)] == IF k = 0 THEN q ELSE Enter(ds, at[k - 1], toks[k])
  IN  at[Len(toks)]

\* The directory a pathname leads to.
Resolve(p) == ResolveFrom(dirs, Base(p), p.toks)

\* The path of the file a pathname stands for, NoPath when it has no directory.
FilePath(p) ==
  LET d == IF p.toks = <<>> THEN Base(p) ELSE Resolve([p EXCEPT !.toks = Front(@)])
      b == IF p.toks # <<>> THEN Last(p.toks) ELSE IF p.abs THEN "/" ELSE ""
  IN  IF d = NoPath THEN NoPath ELSE Append(d, b)

Inside(d, q) == Len(q) = Len(d) + 1 /\ Front(q) = d

Occupied(d) == \E q \in (dirs \cup DOMAIN files) \ {<<>>} : Inside(d, q)

\* Every directory on the way is there afterwards.
Mkdir(p) ==
  /\ p.abs \/ cwd # NoPath
  /\ dirs' = dirs \cup {Base(p) \o SubSeq(p.toks, 1, k) : k \in 1 .. Len(p.toks)}
  /\ UNCHANGED <<files, cwd, status>>

\* Only an empty directory goes, and it may be the current one.
Rmdir(p) ==
  LET d == Resolve(p)
  IN  /\ d \notin {NoPath, <<>>}
      /\ ~Occupied(d)
      /\ dirs' = dirs \ {d}
      /\ cwd' = IF cwd = d THEN NoPath ELSE cwd
      /\ UNCHANGED <<files, status>>

\* Without a pathname cd stays where it is; lines 26 and 384 say it goes to /.
Cd(p) ==
  /\ Resolve(p) # NoPath
  /\ cwd' = Resolve(p)
  /\ UNCHANGED <<dirs, files, status>>

Creat(p) ==
  /\ FilePath(p) # NoPath
  /\ files' = files (+) SetToBag({FilePath(p)})
  /\ UNCHANGED <<dirs, cwd, status>>

\* One file of that path goes, if there is one.
Rm(p) ==
  /\ BagIn(FilePath(p), files)
  /\ files' = files (-) SetToBag({FilePath(p)})
  /\ UNCHANGED <<dirs, cwd, status>>

\* The program may end, or lose its state, only on a command for something
\* that is not there, on rmdir of an empty root, and when the current directory
\* was removed.
Crash(p) ==
  /\ \/ Resolve(p) = <<>> /\ ~Occupied(<<>>)
     \/ FilePath(p) # NoPath /\ FilePath(p) \notin dirs /\ ~BagIn(FilePath(p), files)
  /\ status' = "crashed"
  /\ UNCHANGED <<dirs, files, cwd>>

Undefined ==
  /\ cwd = NoPath
  /\ status' = "undefined"
  /\ UNCHANGED <<dirs, files, cwd>>

Next ==
  /\ status = "running"
  /\ \/ Undefined
     \/ \E p \in Paths :
          Mkdir(p) \/ Rmdir(p) \/ Cd(p) \/ Creat(p) \/ Rm(p) \/ Crash(p)

Spec == Init /\ [][Next]_vars
=============================================================================
