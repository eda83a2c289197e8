---------------------------- MODULE CommandLine ----------------------------
(***************************************************************************)
(* getInput() of shsim/shsim.c and what it calls: how a line of text       *)
(* becomes the words of a command, a redirection and the text behind the   *)
(* first '|'.                                                              *)
(*                                                                         *)
(* A text is a sequence of characters.  The characters that are neither a  *)
(* blank nor a mark are letters, whatever they are called; a letter may    *)
(* stand for a whole word.                                                 *)
(***************************************************************************)
EXTENDS Naturals, Sequences, SequencesExt

Blank == " "
Marks == {"<", ">", "|"}
Nul   == "NUL"

\* A char * that is NULL; no text looks like this.
NULL == <<Nul>>

\* FoldLeft of SequencesExt, as a recursive function.
Fold(op(_, _), base, seq) ==
  LET upTo[k \in 0 .. Len(seq)] ==
        IF k = 0 THEN base ELSE op(upTo[k - 1], seq[k])
  IN  upTo[Len(seq)]

-----------------------------------------------------------------------------

\* slip: the blank to come is looked for behind the write index
DroppedByWrite(str, r, out) ==
  str[r] = Blank /\ (str[Len(out) + 2] \in {Blank, Nul} \cup Marks \/ Last(out) \in Marks)

\* Whether strTrim drops the blank it reads at r when it has written out.  The
\* write index is Len(out) + 1, and what stands behind it is not overwritten
\* yet.
Dropped(str, r, out) ==
  /\ str[r] = Blank
  /\ \/ str[r + 1] \in {Blank, Nul}
     \/ Last(out) \in Marks
     \/ str[Len(out) + 2] \in Marks

\* strTrim: the blanks in front are skipped, the other characters are copied
\* one after the other, to the beginning of the same string.
strTrim(text) ==
  LET str   == Append(text, Nul)
      first == SelectInSeq(str, LAMBDA c : c # Blank)
      copy(out, r) == IF Dropped(str, r, out) THEN out ELSE Append(out, str[r])
  IN  Fold(copy, <<>>, [i \in 1 .. Len(text) + 1 - first |-> first + i - 1])

\* searchStr: the text before the first delimiter and the one behind it.
searchStr(text, delimiter) ==
  LET at == SelectInSeq(text, LAMBDA c : c = delimiter)
  IN  IF at = 0 THEN [head |-> text, tail |-> NULL]
      ELSE [head |-> SubSeq(text, 1, at - 1), tail |-> SubSeq(text, at + 1, Len(text))]

Redirection(line, path, inOut) == [line |-> line, path |-> path, inOut |-> inOut]

\* handleRedirect.  '<' is looked for first.  inOut is set when there is a
\* redirection and otherwise left as it was before.
handleRedirect(text, before) ==
  LET in  == searchStr(text, "<")
      out == searchStr(text, ">")
  IN  CASE in.tail # NULL -> Redirection(in.head, in.tail, 1)
        [] in.tail = NULL /\ out.tail = NULL -> Redirection(text, NULL, before)
        [] OTHER ->
             IF out.tail # <<>> /\ out.tail[1] = ">"
             THEN Redirection(out.head, Tail(out.tail), 3)
             ELSE Redirection(out.head, out.tail, 2)

\* slip: one entry too few
OneLess(text, delimiter) == Cardinality({i \in DOMAIN text : text[i] = delimiter})

strArrCount(text, delimiter) == Cardinality({i \in DOMAIN text : text[i] = delimiter}) + 1

\* The characters between the delimiters, also where there are none.
Runs(text, delimiters) ==
  LET put(runs, c) == IF c \in delimiters THEN Append(runs, <<>>)
                      ELSE Append(Front(runs), Append(Last(runs), c))
  IN  Fold(put, <<<<>>>>, text)

\* What strtok() returns one after the other: the runs that are not empty.
Tokens(text, delimiters) ==
  LET keep(tokens, run) == IF run = <<>> THEN tokens ELSE Append(tokens, run)
  IN  Fold(keep, <<>>, Runs(text, delimiters))

FirstOf(tokens, count) == SubSeq(tokens, 1, IF count < Len(tokens) THEN count ELSE Len(tokens))

\* slip: the delimiter is left to the stack
SplitAtStray(text, count, delimiter, stray) ==
  FirstOf(Tokens(text, stray), count)

\* strSplit: the entries of the array up to its first NULL.  strtok() is given
\* the address of one char where it wants a string: the characters that happen
\* to lie behind it on the stack are delimiters too.
strSplit(text, count, delimiter, stray) ==
  FirstOf(Tokens(text, {delimiter} \cup stray), count)

\* getInput, of a text that is not empty.
getInput(text, inOut, stray) ==
  LET cut   == searchStr(strTrim(text), "|")
      redir == handleRedirect(cut.head, inOut)
  IN  [argv      |-> strSplit(redir.line, strArrCount(redir.line, Blank), Blank, stray),
       redirPath |-> redir.path,
       inOut     |-> redir.inOut,
       tail      |-> cut.tail]

-----------------------------------------------------------------------------
(* Lines as a user means them: segments between '|', each with words and a *)
(* redirection.  These are not in the code; they say what it should find.  *)

Redirs == {"none", "in", "out", "append"}

Letter == {c \in STRING : c \notin {Blank, Nul} \cup Marks}

Segment == [words : Seq(Letter), redir : Redirs, file : Letter]

Blanks(n) == [i \in 1 .. n |-> Blank]

MarkOf(redir) ==
  CASE redir = "in" -> <<"<">> [] redir = "out" -> <<">">> [] redir = "append" -> <<">", ">">>

\* A segment typed with n blanks wherever blanks may be, and at least one
\* between two words.
SegmentText(seg, n) ==
  LET between(text, word) ==
        IF text = <<>> THEN <<word>>
        ELSE text \o Blanks(IF n = 0 THEN 1 ELSE n) \o <<word>>
  IN  Blanks(n) \o Fold(between, <<>>, seg.words) \o Blanks(n)
      \o IF seg.redir = "none" THEN <<>>
         ELSE MarkOf(seg.redir) \o Blanks(n) \o <<seg.file>> \o Blanks(n)

LineText(segs, n) ==
  LET behind(text, seg) == text \o <<"|">> \o SegmentText(seg, n)
  IN  Fold(behind, SegmentText(segs[1], n), Tail(segs))
=============================================================================
