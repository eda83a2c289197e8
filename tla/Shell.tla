------------------------------- MODULE Shell -------------------------------
(***************************************************************************)
(* shsim/shsim.c: main(), forkChild() and executeCommand(), with the       *)
(* processes, pipes and descriptors they work on; what getInput() makes of *)
(* a line is in module CommandLine.                                        *)
(*                                                                         *)
(* The user means a line as a sequence of segments, separated by '|', and  *)
(* types a text for it.  Line j starts process <<j, 1>>, a child of the    *)
(* shell, for the text before the first '|', and that one starts <<j, 2>>  *)
(* for what is behind it.  There is no third one: what is behind a second  *)
(* '|' is left in newTail.                                                 *)
(*                                                                         *)
(* The programs executed are external: "ls" writes Units units and reads   *)
(* nothing, "cat" without arguments copies its input, up to Units of them  *)
(* when they do not come from a pipe, and no other program exists.         *)
(***************************************************************************)
EXTENDS CommandLine, FiniteSetsExt, TLC

CONSTANTS Lines,       \* the lines a user types, as segments
          Gaps,        \* blanks the user leaves wherever blanks may be
          Strays,      \* sets of characters that lie behind a char on the stack
          MaxLines,    \* bound: how many lines
          PipeCap,     \* units a pipe holds
          Units        \* bound: units a program makes

ASSUME LinesAssumption ==
  \A l \in Lines : l \in Seq(Segment) /\ l # <<>>
ASSUME TypingAssumption == Gaps \subseteq Nat /\ {} \in Strays
ASSUME BoundsAssumption == MaxLines \in Nat /\ PipeCap \in Nat \ {0} /\ Units \in Nat

VARIABLES
  shell,    \* "prompt", "wait" or "exited"
  typed,    \* the lines typed so far
  proc,     \* the processes
  pipe      \* number of units in the pipe of each line

vars == <<shell, typed, proc, pipe>>

Jobs == 1 .. MaxLines
Procs == Jobs \X {1, 2}

Head1(j) == <<j, 1>>
Tail1(j) == <<j, 2>>

-----------------------------------------------------------------------------
(* Descriptors: 0, 1, 2 and the two pipe() may add.                        *)

Tty         == [kind |-> "tty", job |-> 0]
Closed      == [kind |-> "closed", job |-> 0]
File        == [kind |-> "file", job |-> 0]
ReadEnd(j)  == [kind |-> "read", job |-> j]
WriteEnd(j) == [kind |-> "write", job |-> j]

Inherited == [n \in 0 .. 4 |-> IF n <= 2 THEN Tty ELSE Closed]

\* open(), pipe() and dup() take the lowest free descriptor.
Opened(fd, what) == [fd EXCEPT ![Min({n \in 0 .. 4 : fd[n] = Closed})] = what]
close(fd, n)     == [fd EXCEPT ![n] = Closed]
dup(fd, n)       == Opened(fd, fd[n])

NoSegment == [words |-> <<>>, redir |-> "none", file |-> ""]

\* seg is the segment meant and stray the characters in it that also lay behind
\* the delimiter when it was read; the program knows neither.
NoProc == [st |-> "none", seg |-> NoSegment, stray |-> {},
           input |-> [argv |-> <<>>, redirPath |-> NULL, inOut |-> 0, tail |-> NULL],
           fd |-> Inherited, left |-> 0, more |-> 0]

Alive(p) == proc[p].st \notin {"none", "zombie", "gone"}

Holds(p, end) == Alive(p) /\ \E n \in 0 .. 4 : proc[p].fd[n] = end

Held(end) == \E p \in Procs : Holds(p, end)

\* A child of the shell stays until the shell waits for it.
Exited(p) == [NoProc EXCEPT !.st = IF p[2] = 1 THEN "zombie" ELSE "gone"]

-----------------------------------------------------------------------------

Init ==
  /\ shell = "prompt"
  /\ typed = <<>>
  /\ proc = [p \in Procs |-> NoProc]
  /\ pipe = [j \in Jobs |-> 0]

\* What getInput() makes of the texts that can occur: those of the lines, those
\* behind their first '|', and none at all.  (As a set this is computed once.)
Texts ==
  {<<>>} \cup UNION {{text, searchStr(strTrim(text), "|").tail} :
                     text \in {LineText(l, n) : l \in Lines, n \in Gaps}}
Inputs ==
  {<<x, getInput(x[1], x[2], x[3])>> : x \in Texts \X (0 .. 3) \X Strays}

\* The process record q after getInput() of a text typed for segment seg.
WithInput(q, text, seg, stray) ==
  LET read == CHOOSE i \in Inputs : i[1] = <<text, q.input.inOut, stray>>
  IN  [q EXCEPT !.seg = seg, !.stray = stray \cap ToSet(text), !.input = read[2]]

IsCommand(q, name) == q.input.argv # <<>> /\ q.input.argv[1] = <<name>>

\* The loop of main(): cd and exit are done by the shell itself, whatever else
\* is on the line; all other lines, empty ones too, are forked.
Type(l, n, stray) ==
  /\ shell = "prompt" /\ Len(typed) < MaxLines
  /\ typed' = Append(typed, l)
  /\ \E q \in {WithInput(NoProc, LineText(l, n), l[1], stray)} :
       \/ IsCommand(q, "exit") /\ shell' = "exited" /\ UNCHANGED proc
       \/ IsCommand(q, "cd") /\ UNCHANGED <<shell, proc>>
       \/ /\ ~IsCommand(q, "exit") /\ ~IsCommand(q, "cd")
          /\ shell' = "wait"
          /\ proc' = [proc EXCEPT ![Head1(Len(typed) + 1)] =
                        [q EXCEPT !.st = IF q.input.tail = NULL THEN "command" ELSE "pipe"]]
  /\ UNCHANGED pipe

\* slip: the shell does not wait
WaitForNobody == shell = "wait" /\ shell' = "prompt" /\ UNCHANGED <<typed, proc, pipe>>

\* wait() takes any child that has ended.
Wait ==
  /\ shell = "wait"
  /\ \E j \in Jobs :
       /\ proc[Head1(j)].st = "zombie"
       /\ proc' = [proc EXCEPT ![Head1(j)].st = "gone"]
  /\ shell' = "prompt"
  /\ UNCHANGED <<typed, pipe>>

-----------------------------------------------------------------------------
(* forkChild() in the child, for a line with a pipe.                       *)

\* pipe(pd), and fork() with everything the child has; only the tail will look
\* at the text again.
ForkTail(j) ==
  LET h == Head1(j)
      p == [proc[h] EXCEPT !.st = "plumb",
                           !.fd = Opened(Opened(@, ReadEnd(j)), WriteEnd(j))]
  IN  /\ proc[h].st = "pipe"
      /\ proc' = [proc EXCEPT ![h] = [p EXCEPT !.input.tail = NULL], ![Tail1(j)] = p]
      /\ UNCHANGED <<shell, typed, pipe>>

\* slip: dup() before close(1)
HeadStreamsDupFirst(fd) == close(close(dup(close(fd, 3), 4), 1), 4)

\* slip: the head keeps the read end
HeadStreamsBothEnds(fd) == close(dup(close(fd, 1), 4), 4)

\* pd is 3 and 4.  The head's output goes to the pipe, and the tail's input
\* comes from it.
HeadStreams(fd) == close(dup(close(close(fd, 3), 1), 4), 4)

\* slip: the tail keeps the write end
TailStreamsBothEnds(fd) == close(dup(close(fd, 0), 3), 3)

TailStreams(fd) == close(dup(close(close(fd, 4), 0), 3), 3)

PlumbHead(j) ==
  /\ proc[Head1(j)].st = "plumb"
  /\ proc' = [proc EXCEPT ![Head1(j)].st = "command", ![Head1(j)].fd = HeadStreams(@)]
  /\ UNCHANGED <<shell, typed, pipe>>

PlumbTail(j) ==
  /\ proc[Tail1(j)].st = "plumb"
  /\ proc' = [proc EXCEPT ![Tail1(j)].st = "input", ![Tail1(j)].fd = TailStreams(@)]
  /\ UNCHANGED <<shell, typed, pipe>>

\* getInput(tail), in a process with the inOut of the head.  Nobody looks at
\* newTail.
TailInput(j, text, seg, stray) ==
  proc' = [proc EXCEPT ![Tail1(j)] = 
             [WithInput(@, text, seg, stray) EXCEPT !.st = "command", !.input.tail = NULL]]

NewInputs(j) ==
  LET t == proc[Tail1(j)]
  IN  /\ t.st = "input" /\ t.input.tail # <<>>
      /\ \E stray \in Strays : TailInput(j, t.input.tail, typed[j][2], stray)
      /\ UNCHANGED <<shell, typed, pipe>>

\* An empty tail: getInput() reads a line from descriptor 0, which is the pipe:
\* any line, since it is what the head writes, or none when the head is done.
\* The stream takes all that is in the pipe, and the program executed does not
\* get what is left in the stream.
InputsFromPipe(j) ==
  LET t == proc[Tail1(j)]
  IN  /\ t.st = "input" /\ t.input.tail = <<>>
      /\ \/ /\ pipe[j] > 0
            /\ \E l \in Lines, n \in Gaps, stray \in Strays :
                 TailInput(j, LineText(l, n), l[1], stray)
            /\ pipe' = [pipe EXCEPT ![j] = 0]
         \/ /\ pipe[j] = 0 /\ ~Held(WriteEnd(j))
            /\ TailInput(j, <<>>, typed[j][2], {})
            /\ UNCHANGED pipe
      /\ UNCHANGED <<shell, typed>>

-----------------------------------------------------------------------------
(* executeCommand().                                                       *)

\* The switch on inOut.  open() may fail, and does so when redirPath is NULL;
\* nobody looks, and the descriptor stays closed.
Redirect(p) ==
  LET n == IF proc[p].input.inOut = 1 THEN 0 ELSE 1
  IN  /\ proc[p].st = "command"
      /\ \E opens \in IF proc[p].input.redirPath = NULL THEN {FALSE} ELSE BOOLEAN :
           proc' = [proc EXCEPT ![p].st = "exec",
                      ![p].fd = IF proc[p].input.inOut = 0 THEN @
                                ELSE IF opens THEN Opened(close(@, n), File)
                                              ELSE close(@, n)]
      /\ UNCHANGED <<shell, typed, pipe>>

\* The loop over the directories of PATH.  A command that is in none of them
\* is reported on standard output; without a command the child follows a null
\* pointer (strcat) and is killed.  A program has nothing of the shell's
\* variables but its arguments.
Exec(p) ==
  LET q   == proc[p]
      cat == IsCommand(q, "cat")
  IN  /\ q.st = "exec"
      /\ proc' = [proc EXCEPT ![p] =
           IF q.input.argv = <<>> THEN Exited(p)
           ELSE [NoProc EXCEPT !.st = "run", !.seg = q.seg, !.stray = q.stray,
                               !.input.argv = q.input.argv, !.fd = q.fd,
                               !.left = IF cat THEN 0 ELSE IF IsCommand(q, "ls") THEN Units ELSE 1,
                               !.more = IF cat THEN Units ELSE 0]]
      /\ UNCHANGED <<shell, typed, pipe>>

-----------------------------------------------------------------------------
(* The programs.                                                           *)

\* One unit written to descriptor 1: to a pipe when there is room, unless there
\* is no reader, which kills the writer.
Write(p) ==
  LET out == proc[p].fd[1]
      j   == out.job
  IN  /\ proc[p].st = "run" /\ proc[p].left > 0
      /\ IF out.kind # "write"
         THEN proc' = [proc EXCEPT ![p].left = @ - 1] /\ UNCHANGED pipe
         ELSE IF ~Held(ReadEnd(j))
         THEN proc' = [proc EXCEPT ![p] = Exited(p)] /\ UNCHANGED pipe
         ELSE /\ pipe[j] < PipeCap
              /\ proc' = [proc EXCEPT ![p].left = @ - 1]
              /\ pipe' = [pipe EXCEPT ![j] = @ + 1]
      /\ UNCHANGED <<shell, typed>>

\* One unit read from descriptor 0, to be written next; from a pipe only when
\* there is one.
Read(p) ==
  LET in == proc[p].fd[0]
  IN  /\ proc[p].st = "run" /\ IsCommand(proc[p], "cat") /\ proc[p].left = 0
      /\ IF in.kind = "read"
         THEN /\ pipe[in.job] > 0
              /\ pipe' = [pipe EXCEPT ![in.job] = @ - 1]
              /\ proc' = [proc EXCEPT ![p].left = 1]
         ELSE /\ proc[p].more > 0 /\ in # Closed
              /\ proc' = [proc EXCEPT ![p].left = 1, ![p].more = @ - 1]
              /\ UNCHANGED pipe
      /\ UNCHANGED <<shell, typed>>

\* A program ends when it has written everything and, if it reads, at the end
\* of its input: of a pipe, when nobody can write to it any more.
EndOfInput(p) ==
  LET in == proc[p].fd[0]
  IN  in.kind = "read" => pipe[in.job] = 0 /\ ~Held(WriteEnd(in.job))

End(p) ==
  /\ proc[p].st = "run" /\ proc[p].left = 0
  /\ IsCommand(proc[p], "cat") => EndOfInput(p)
  /\ proc' = [proc EXCEPT ![p] = Exited(p)]
  /\ UNCHANGED <<shell, typed, pipe>>

-----------------------------------------------------------------------------

Process(p) ==
  \/ p[2] = 1 /\ (ForkTail(p[1]) \/ PlumbHead(p[1]))
  \/ p[2] = 2 /\ (PlumbTail(p[1]) \/ NewInputs(p[1]) \/ InputsFromPipe(p[1]))
  \/ Redirect(p) \/ Exec(p) \/ Write(p) \/ Read(p) \/ End(p)

Next ==
  \/ \E l \in Lines, n \in Gaps, stray \in Strays : Type(l, n, stray)
  \/ Wait
  \/ \E p \in Procs : Process(p)

Spec == Init /\ [][Next]_vars

\* The system runs every process that can go on.  The user may stop typing.
Fairness == WF_vars(Wait) /\ \A p \in Procs : WF_vars(Process(p))

FairSpec == Spec /\ Fairness

-----------------------------------------------------------------------------
(* Properties.                                                             *)

Descriptors ==
  {Tty, Closed, File} \cup {ReadEnd(j) : j \in Jobs} \cup {WriteEnd(j) : j \in Jobs}

\* What is left of a line when the blanks and marks are gone.
Word == {w \in Seq(STRING) : w # <<>> /\ ToSet(w) \cap ({Blank, Nul} \cup Marks) = {}}

\* The values every variable may take.
TypeOK ==
  /\ shell \in {"prompt", "wait", "exited"}
  /\ typed \in Seq(Lines) /\ Len(typed) <= MaxLines
  /\ DOMAIN proc = Procs
  /\ \A p \in Procs :
       LET q == proc[p]
       IN  /\ q.st \in {"none", "pipe", "plumb", "input", "command", "exec", "run", "zombie",
                         "gone"}
           /\ q.input.argv \in Seq(Word) /\ q.input.inOut \in 0 .. 3
           /\ q.fd \in [0 .. 4 -> Descriptors]
           /\ q.left \in 0 .. Units + 1 /\ q.more \in 0 .. Units
  /\ pipe \in [Jobs -> 0 .. PipeCap]

\* Where a program should read and write, from the text of its segment; a file
\* that cannot be opened leaves the stream closed.
WantIn(p) ==
  CASE proc[p].seg.redir = "in" -> {File, Closed}
    [] OTHER -> IF p[2] = 2 THEN {ReadEnd(p[1])} ELSE {Tty}

WantOut(p) ==
  CASE proc[p].seg.redir \in {"out", "append"} -> {File, Closed}
    [] OTHER -> IF p[2] = 1 /\ Len(typed[p[1]]) > 1 THEN {WriteEnd(p[1])} ELSE {Tty}

StreamsRight(p) ==
  LET fd == proc[p].fd
  IN  fd[0] \in WantIn(p) /\ fd[1] \in WantOut(p) /\ fd[3] = Closed /\ fd[4] = Closed

\* A program starts with its input and output where its segment and its place
\* in the line say, and with no descriptor of the pipe but the one it uses,
\* through all the closing and duplicating in processes that share the pipe;
\* excepted is the tail of a head with a redirection (see TailHasNewInputs).
StreamsAsWritten ==
  \A p \in Procs :
    proc[p].st = "run" /\ (p[2] = 2 => typed[p[1]][1].redir = "none") => StreamsRight(p)

\* The array of words of a segment.
Argv(seg) == [i \in DOMAIN seg.words |-> <<seg.words[i]>>]

\* A line typed with n blanks whose tail is sure to keep its words: strTrim looks for
\* a mark two characters behind the place it writes to, and the '|' of such a line is
\* no more than that behind where it is written to, or joining two words of the tail
\* is out of the question.
Legible(l, n) ==
  \/ Len(l) = 1 \/ Len(l[2].words) <= 1
  \/ n = 0
  \/ n = 1 /\ (l[1].redir = "none" \/ l[1].words # <<>>)

\* Every program is executed with the words of its own segment: strTrim compares
\* and moves characters in one and the same string, and head and tail share the
\* variables of getInput.  Excepted are words that hold a character strtok finds
\* behind the delimiter.  This is so of legible lines; of others strTrim may join
\* words of the tail (see MCShell!WordsKept).
ArgvAsWritten ==
  \A p \in Procs :
    proc[p].st = "run" /\ proc[p].stray = {} => proc[p].input.argv = Argv(proc[p].seg)

\* Between lines the shell has no child, running or zombie, although tails of
\* earlier lines may be running: each wait() is for the line just typed.
NoChildAtPrompt ==
  shell # "wait" => \A j \in Jobs : proc[Head1(j)].st \in {"none", "gone"}

\* Every line gets back to the prompt, also when the tail does not read or
\* cannot be executed while the head writes into a full pipe.
PromptReturns == shell = "wait" ~> shell = "prompt"

\* No process waits for ever for input or room in a pipe, whatever tails of
\* other lines are still there.
AllEnd == \A p \in Procs : Alive(p) ~> ~Alive(p)

-----------------------------------------------------------------------------
(* What the documentation says and the code does not do.                   *)

\* shsim.c:102-104: the tail is executed with new inputs, those of its own
\* segment.
TailHasNewInputs ==
  \A j \in Jobs : proc[Tail1(j)].st = "run" => StreamsRight(Tail1(j))

\* shsim.c:262-275: strTrim trims the unnecessary spaces, among them those before
\* a mark, so that the file of a redirection is the one typed.
RedirPathAsWritten ==
  \A p \in Procs :
    proc[p].st = "exec" /\ proc[p].seg.redir # "none" =>
      proc[p].input.redirPath = <<proc[p].seg.file>>
=============================================================================
