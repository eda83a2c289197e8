------------------------------ MODULE MCShell ------------------------------
(* Shell with the lines that tell its cases apart.                          *)
EXTENDS Shell

Redirected(words, redir) == [words |-> words, redir |-> redir, file |-> "f"]
Command(words)           == Redirected(words, "none")

NoCommand == Command(<<>>)
LsX       == Command(<<"ls", "x">>)
Cat       == Command(<<"cat">>)

TypedLines ==
  {<<Redirected(<<"ls">>, "out")>>, <<Command(<<"cd", "x">>)>>, <<Command(<<"exit">>)>>,
   <<LsX, Cat, Cat>>, <<LsX, NoCommand>>,
   <<NoCommand, Redirected(<<"cat">>, "append")>>, <<Redirected(<<"cat">>, "in"), Command(<<"none", "x">>)>>}

\* The words and the file of the lines WordsKept is about.
WordLetters == {"a", "b", "c", "f"}

\* These strings are strings: the provers know nothing of the set STRING.
ASSUME LettersAssumption == WordLetters \subseteq STRING

\* All lines of one or two segments with at most three words, typed with no more
\* blanks than needed or with up to three wherever there may be one.
Segments ==
  {Redirected(words, redir) : words \in {<<>>, <<"a">>, <<"a", "b">>, <<"a", "b", "c">>}, redir \in Redirs}
SmallLines == {<<seg>> : seg \in Segments} \cup (Segments \X Segments)

WordsFound(text, seg) == text # <<>> => getInput(text, 0, {}).argv = Argv(seg)

\* Whatever such a line is, getInput finds the words of the head in it, leaves a
\* tail when there is one, and finds its words in that when the line is legible.
\* Otherwise, with a tail of two words or more, strTrim may find a '|' it has moved
\* already behind the place it writes to, and drop the blank between two words of
\* the tail (shsim.c:275-277): with two blanks or more, and with one if no word is
\* left of the head's redirection ("< f | b c").  This does not depend on the state
\* and is looked at in the first one.
WordsKept ==
  typed = <<>> /\ shell = "prompt" =>
    \A l \in SmallLines, n \in 0 .. 3 :
      LET in == getInput(LineText(l, n), 0, {})
      IN  /\ WordsFound(LineText(l, n), l[1])
          /\ (in.tail = NULL) = (Len(l) = 1)
          /\ Len(l) = 2 /\ Legible(l, n) => WordsFound(in.tail, l[2])
=============================================================================
