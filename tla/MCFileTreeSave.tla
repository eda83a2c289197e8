--------------------------- MODULE MCFileTreeSave ---------------------------
(* FileTreeSave with few pathnames.                                         *)
EXTENDS FileTreeSave

Rel(toks) == [abs |-> FALSE, toks |-> toks]
Abs(toks) == [abs |-> TRUE, toks |-> toks]

\* Everything can be made and removed with these.
FewPaths == {Rel(<<>>), Rel(<<"a">>), Rel(<<"..">>), Abs(<<"a", "a">>), Abs(<<Autosave>>)}

\* "autosave.txt" cut behind its first character is the other name.
FirstLetter == [tok \in Names \cup {".."} |-> IF tok = Autosave THEN {"a"} ELSE {}]
=============================================================================
