---------------------------- MODULE FileTreeSave ----------------------------
(***************************************************************************)
(* save, reload and quit of fileTreeSim/fileTreeSim.c, beside the commands *)
(* of module FileTree.  A saved file is a sequence of lines, one per node, *)
(* each with the node's type and its absolute path; reload empties the     *)
(* tree and makes the nodes again, one line after the other, with mkdir    *)
(* and creat.                                                              *)
(*                                                                         *)
(* save empties the file when it opens it and writes the text when it      *)
(* closes it, without looking at what fprintf and fclose return.  In       *)
(* between the program may be killed, and the write may end anywhere.      *)
(***************************************************************************)
EXTENDS FileTree

CONSTANTS FileNames,    \* files the user names in save and reload
          NoFile,       \* there is no such file
          Shorter       \* the tokens a token begins with, where it is cut short

Autosave == "autosave.txt"

Files == FileNames \cup {Autosave}

\* No file is neither a file nor a text.
ASSUME NoFileAssumption ==
  NoFile \notin Files \cup Seq([type : {"D", "F"}, toks : Seq(Names \cup {".."})])

\* reload can take the name of its file for a pathname.
ASSUME FilesAssumption == Files \subseteq Names

ASSUME ShorterAssumption ==
  Shorter \in [Names \cup {".."} -> SUBSET (Names \cup {".."})]

VARIABLES
  disk,    \* the files on disk: lines, as they are read back
  fp,      \* the file that save has open, NoFile while it has none
  left     \* history: what the last save has left of the text of each file,
           \* "none" before the first one, "cut" or "whole"; "unnamed" where the
           \* tree had a file without a name, which no path can be written of

svars == <<heap, cwd, status, disk, fp, left>>

-----------------------------------------------------------------------------

SInit ==
  /\ Init
  /\ disk = [f \in Files |-> NoFile]
  /\ fp = NoFile
  /\ left = [f \in Files |-> "none"]

\* What status says while save has the file open, and when it is through: the
\* user's save goes on to the next command, quit's to exit().
Through == [saving |-> "running", quitting |-> "exited"]

\* save, up to fopen.  An empty tree is not saved, and the file stays as it is.
\* Mode "w +" empties the file.  A file that cannot be opened is a null pointer.
SaveThen(f, by) ==
  /\ status = "running"
  /\ \/ /\ heap[Root].child = NULL
        /\ status' = Through[by]
        /\ UNCHANGED <<disk, fp, left>>
     \/ /\ heap[Root].child # NULL
        /\ disk' = [disk EXCEPT ![f] = <<>>]
        /\ left' = [left EXCEPT ![f] = IF WellNamed THEN "cut" ELSE "unnamed"]
        /\ fp' = f
        /\ status' = by
     \/ /\ heap[Root].child # NULL
        /\ status' = "crashed"
        /\ UNCHANGED <<disk, fp, left>>
  /\ UNCHANGED <<heap, cwd>>

Save(f) == SaveThen(f, "saving")

Quit == SaveThen(Autosave, "quitting")

\* The pathnames read of line k of file f, cut short behind its type: fscanf
\* leaves the one before, which is the name given to reload at first.  A path
\* may lack tokens, and the end of its last one.
CutPaths(f, text, k) ==
  LET toks == text[k].toks
  IN  {IF k = 1 THEN <<f>> ELSE text[k - 1].toks}
        \cup {SubSeq(toks, 1, n) : n \in 0 .. Len(toks)}
        \cup UNION {{Append(SubSeq(toks, 1, n - 1), tok) : tok \in Shorter[toks[n]]} :
                      n \in 1 .. Len(toks)}

\* What can be on disk when the write of a text ends early: some lines, and
\* perhaps the beginning of the next one.
Beginnings(f, text) ==
  {SubSeq(text, 1, k) : k \in 0 .. Len(text) - 1}
    \cup UNION {{Append(SubSeq(text, 1, k - 1), [type |-> text[k].type, toks |-> toks]) :
                   toks \in CutPaths(f, text, k)} : k \in 1 .. Len(text)}

\* slip: the text is not written
Unwritten(f) == disk

Written(f) == [disk EXCEPT ![f] = Lines(heap)]

\* fprintf and fclose.  The program goes on in the same way when they fail.
Write ==
  /\ fp # NoFile
  /\ \/ /\ disk' = Written(fp)
        /\ left' = IF left[fp] = "cut" THEN [left EXCEPT ![fp] = "whole"] ELSE left
     \/ /\ \E text \in Beginnings(fp, Lines(heap)) : disk' = [disk EXCEPT ![fp] = text]
        /\ UNCHANGED left
  /\ fp' = NoFile
  /\ status' = Through[status]
  /\ UNCHANGED <<heap, cwd>>

\* slip: the tree is not emptied (where its nodes leave room for every file)
NotEmptied ==
  IF \E f \in Files : disk[f] # NoFile /\ Len(disk[f]) > Cardinality(Unused(heap))
  THEN EmptyTree ELSE heap

Emptied == EmptyTree

\* initialize(), and then the file, if it can be opened.  fscanf writes the type
\* of a line and its end into type[1]: the byte behind it may be of no use, or
\* belong to fp, which leads nowhere then.
Reload(f) ==
  /\ status = "running"
  /\ \/ heap' = Emptied /\ cwd' = Root /\ status' = status
     \/ /\ disk[f] # NoFile
        /\ heap' = Rebuilt(Emptied, disk[f]) /\ cwd' = Root /\ status' = status
     \/ disk[f] \notin {NoFile, <<>>} /\ Crash
  /\ UNCHANGED <<disk, fp, left>>

\* The program is killed, between two commands or between fopen and fclose.
Kill ==
  /\ status \in {"running"} \cup DOMAIN Through
  /\ status' = "crashed"
  /\ fp' = NoFile
  /\ UNCHANGED <<heap, cwd, disk, left>>

\* The program is started again, after quit or after it crashed.
Restart ==
  /\ status \in {"exited", "crashed"}
  /\ heap' = EmptyTree /\ cwd' = Root /\ status' = "running"
  /\ UNCHANGED <<disk, fp, left>>

SNext ==
  \/ Command /\ UNCHANGED <<disk, fp, left>>
  \/ \E f \in Files : Save(f) \/ Reload(f)
  \/ Quit \/ Write \/ Kill \/ Restart
  \/ status = "undefined" /\ UNCHANGED svars

SSpec == SInit /\ [][SNext]_svars

-----------------------------------------------------------------------------
(* Properties.                                                             *)

\* The text of some tree, which reload makes: that tree can be saved again
\* unchanged.
IsATree(text) ==
  /\ \A k \in DOMAIN text : <<>> # text[k].toks
  /\ Lines(Rebuilt(EmptyTree, text)) = text

\* What is on disk is the text of a tree that is not empty or, when the last
\* save did not end well, the text of a tree and one line that may be wrong: the
\* nodes whose lines were written are never lost, doubled or moved by reload.
DiskIsATree ==
  \A f \in Files :
    /\ left[f] = "whole" => disk[f] # <<>> /\ IsATree(disk[f])
    /\ left[f] = "cut" /\ disk[f] # <<>> => IsATree(Front(disk[f]))

\* A tree that is not empty survives a quit that writes it: reload of
\* autosave.txt in the next run makes the same nodes with the same paths and in
\* the same order.
QuitKeepsTree ==
  status = "exited" /\ heap[Root].child # NULL /\ left[Autosave] = "whole" =>
    disk[Autosave] # NoFile /\ Listing(Rebuilt(EmptyTree, disk[Autosave])) = Listing(heap)

\* After reload of a file that was written the tree is the one in the file or,
\* when the file cannot be opened, empty; nothing of the tree before is left in
\* it, although mkdir and creat add to whatever they find.
ReloadIsWhole ==
  [][\A f \in Files :
       Reload(f) /\ left[f] = "whole" /\ status' = "running" =>
         Lines(heap') \in {<<>>, disk[f]}]_svars
=============================================================================
