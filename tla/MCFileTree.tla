----------------------------- MODULE MCFileTree -----------------------------
(* FileTree with the pathnames that tell its cases apart.                   *)
EXTENDS FileTree

Rel(toks) == [abs |-> FALSE, toks |-> toks]
Abs(toks) == [abs |-> TRUE, toks |-> toks]

TypedPaths ==
  {Rel(<<>>), Rel(<<"a">>), Rel(<<"b">>), Rel(<<"..">>), Rel(<<"..", "a">>), Rel(<<"a", "b">>),
   Abs(<<>>), Abs(<<"a">>), Abs(<<"a", "b">>), Abs(<<"..", "a">>)}

\* Names in the current directory.
PlainNames == {Rel(<<"a">>), Rel(<<"b">>)}
=============================================================================
