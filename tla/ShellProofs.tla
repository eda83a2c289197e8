----------------------------- MODULE ShellProofs -----------------------------
(* Theorems about Shell for all lines, pipes and programs: whose wait() it   *)
(* is that brings the prompt back, that every variable has its type, that    *)
(* the programs run with the streams that were written, and with the words.  *)
(*                                                                           *)
(* All but the first need what getInput() makes of a text: strTrim drops     *)
(* blanks only (TrimReduces), so the marks are found where they were typed,  *)
(* and the redirection of a line (LineRead) and the text behind its '|' are  *)
(* the ones written.  Between two words of the head it always leaves a       *)
(* blank, and in the tail of a legible line as well (LagOfTwo, BarLag).      *)
EXTENDS MCShell, ListProofs

-----------------------------------------------------------------------------
\* The prompt

\* The shell waits for the head of the line typed last, and every other head is
\* still to be started or has been waited for.  What tails do is left open.
WaitInv ==
  /\ DOMAIN proc = Procs
  /\ \A p \in Procs : "st" \in DOMAIN proc[p]
  /\ Len(typed) \in Nat
  /\ \A j \in Jobs :
       /\ j > Len(typed) => proc[Head1(j)].st = "none"
       /\ shell # "wait" \/ j # Len(typed) => proc[Head1(j)].st \in {"none", "gone"}

\* The first prompt.
LEMMA InitWaitInv == Init => WaitInv
<1>1. ASSUME NEW j \in Jobs PROVE Head1(j) \in Procs
  BY DEF Jobs, Head1, Procs
<1> QED  BY <1>1 DEF Init, WaitInv, NoProc

\* Of the processes that started a line only p, if any, is changed.
OnlyOf(p) ==
  /\ DOMAIN proc' = Procs
  /\ \A r \in Procs : "st" \in DOMAIN proc'[r]
  /\ \A r \in Procs \ {p} : r[2] = 1 => proc'[r] = proc[r]

\* A process that runs on its own changes only itself, and is neither before its
\* start nor past its end.
LEMMA OwnStepKeepsWaitInv ==
  ASSUME WaitInv, NEW p \in Procs, proc[p].st \notin {"none", "gone"},
         OnlyOf(p), UNCHANGED <<shell, typed>>
  PROVE  WaitInv'
<1>1. /\ DOMAIN proc' = Procs
      /\ \A r \in Procs \ {p} : r[2] = 1 => proc'[r] = proc[r]
  BY DEF OnlyOf
<1>2. ASSUME NEW j \in Jobs
      PROVE  /\ j > Len(typed) => proc'[Head1(j)].st = "none"
             /\ shell # "wait" \/ j # Len(typed) => proc'[Head1(j)].st \in {"none", "gone"}
  <2>1. Head1(j) \in Procs /\ Head1(j)[2] = 1
    BY DEF Jobs, Head1, Procs
  <2>2. CASE Head1(j) = p
    <3>1. ~(j > Len(typed)) /\ ~(shell # "wait" \/ j # Len(typed))
      BY <2>2 DEF WaitInv
    <3> QED  BY <3>1
  <2>3. CASE Head1(j) # p
    <3>1. proc'[Head1(j)] = proc[Head1(j)]
      BY <1>1, <2>1, <2>3
    <3> QED  BY <3>1 DEF WaitInv
  <2> QED  BY <2>2, <2>3
<1>3. \A r \in Procs : "st" \in DOMAIN proc'[r]
  BY DEF OnlyOf
<1> QED  BY <1>1, <1>2, <1>3 DEF WaitInv

\* getInput stores into a process and leaves the rest of it alone.
LEMMA WithInputFields ==
  ASSUME NEW q, "st" \in DOMAIN q, NEW text, NEW seg, NEW stray
  PROVE  "st" \in DOMAIN WithInput(q, text, seg, stray)
  BY DEF WithInput

\* A process that has ended is a process still.
LEMMA ExitedFields ==
  ASSUME NEW p
  PROVE  "st" \in DOMAIN Exited(p)
  BY DEF Exited, NoProc

\* forkChild() in the child, getInput and executeCommand, and the programs.
LEMMA ProcessKeepsWaitInv == ASSUME WaitInv, NEW p \in Procs, Process(p) PROVE WaitInv'
<1>1. UNCHANGED <<shell, typed>>
  BY DEF Process, ForkTail, PlumbHead, PlumbTail, NewInputs, InputsFromPipe,
         Redirect, Exec, Write, Read, End
<1>2. PICK j \in Jobs, k \in {1, 2} : p = <<j, k>>
  BY DEF Procs
<1>3. /\ DOMAIN proc = Procs /\ \A r \in Procs : "st" \in DOMAIN proc[r]
      /\ Head1(j) \in Procs /\ Tail1(j) \in Procs
      /\ Head1(j) # Tail1(j) /\ Tail1(j)[2] = 2
  BY DEF WaitInv, Head1, Tail1, Procs
<1>4. ASSUME ForkTail(j) PROVE proc[Head1(j)].st \notin {"none", "gone"} /\ OnlyOf(Head1(j))
  <2> DEFINE h == Head1(j)
             q == [proc[h] EXCEPT !.st = "plumb",
                                  !.fd = Opened(Opened(@, ReadEnd(j)), WriteEnd(j))]
  <2>1. proc[h].st = "pipe"
    BY <1>4 DEF ForkTail
  <2>2. proc' = [proc EXCEPT ![h] = [q EXCEPT !.input.tail = NULL], ![Tail1(j)] = q]
    BY <1>4 DEF ForkTail
  <2>3. "st" \in DOMAIN [q EXCEPT !.input.tail = NULL] /\ "st" \in DOMAIN q
    BY <1>3
  <2> HIDE DEF q
  <2>4. OnlyOf(h)
    BY <1>3, <2>2, <2>3 DEF OnlyOf
  <2> QED  BY <2>1, <2>4
<1>5. ASSUME PlumbHead(j) PROVE proc[Head1(j)].st \notin {"none", "gone"} /\ OnlyOf(Head1(j))
  BY <1>3, <1>5 DEF PlumbHead, OnlyOf
<1>6. ASSUME PlumbTail(j) PROVE proc[Tail1(j)].st \notin {"none", "gone"} /\ OnlyOf(Tail1(j))
  BY <1>3, <1>6 DEF PlumbTail, OnlyOf
<1>7. ASSUME NEW text, NEW seg, NEW stray, TailInput(j, text, seg, stray) PROVE OnlyOf(Tail1(j))
  <2>1. "st" \in DOMAIN WithInput(proc[Tail1(j)], text, seg, stray)
    BY <1>3, WithInputFields
  <2> QED  BY <1>3, <1>7, <2>1 DEF TailInput, OnlyOf
<1>8. ASSUME NewInputs(j) \/ InputsFromPipe(j)
      PROVE  proc[Tail1(j)].st \notin {"none", "gone"} /\ OnlyOf(Tail1(j))
  BY <1>7, <1>8 DEF NewInputs, InputsFromPipe
<1>9. ASSUME Redirect(p) PROVE proc[p].st \notin {"none", "gone"} /\ OnlyOf(p)
  BY <1>3, <1>9 DEF Redirect, OnlyOf
<1>10. ASSUME Exec(p) PROVE proc[p].st \notin {"none", "gone"} /\ OnlyOf(p)
  BY <1>3, <1>10, ExitedFields DEF Exec, OnlyOf, NoProc
<1>11. ASSUME Write(p) \/ Read(p) \/ End(p) PROVE proc[p].st \notin {"none", "gone"} /\ OnlyOf(p)
  BY <1>3, <1>11, ExitedFields DEF Write, Read, End, OnlyOf
<1>12. CASE Redirect(p) \/ Exec(p) \/ Write(p) \/ Read(p) \/ End(p)
  BY <1>1, <1>9, <1>10, <1>11, <1>12, OwnStepKeepsWaitInv
<1>13. CASE ForkTail(j) \/ PlumbHead(j)
  BY <1>1, <1>3, <1>4, <1>5, <1>13, OwnStepKeepsWaitInv
<1>14. CASE PlumbTail(j) \/ NewInputs(j) \/ InputsFromPipe(j)
  BY <1>1, <1>3, <1>6, <1>8, <1>14, OwnStepKeepsWaitInv
<1> QED  BY <1>2, <1>12, <1>13, <1>14 DEF Process

\* A line typed: it is the last one now, and the shell waits for its head or has
\* not started any.
LEMMA TypeKeepsWaitInv ==
  ASSUME WaitInv, NEW l \in Lines, NEW gap, NEW stray, typed \in Seq(Lines), Type(l, gap, stray)
  PROVE  WaitInv'
<1>1. shell = "prompt" /\ Len(typed) < MaxLines /\ Len(typed') = Len(typed) + 1
  BY DEF Type
<1>2. PICK q \in {WithInput(NoProc, LineText(l, gap), l[1], stray)} :
        \/ shell' \in {"exited", "prompt"} /\ UNCHANGED proc
        \/ /\ shell' = "wait"
           /\ proc' = [proc EXCEPT ![Head1(Len(typed) + 1)] =
                         [q EXCEPT !.st = IF q.input.tail = NULL THEN "command" ELSE "pipe"]]
  BY <1>1 DEF Type
<1>3. Len(typed) \in Nat /\ \A j \in Jobs : Head1(j) \in Procs
  BY DEF WaitInv, Jobs, Head1, Procs
<1>4. CASE shell' \in {"exited", "prompt"} /\ UNCHANGED proc
  <2>1. \A j \in Jobs : proc[Head1(j)].st \in {"none", "gone"}
    BY <1>1 DEF WaitInv
  <2> QED  BY <1>1, <1>3, <1>4, <2>1 DEF WaitInv, Jobs
<1>5. CASE shell' = "wait" /\ proc' = [proc EXCEPT ![Head1(Len(typed) + 1)] =
             [q EXCEPT !.st = IF q.input.tail = NULL THEN "command" ELSE "pipe"]]
  <2>1. "st" \in DOMAIN NoProc
    BY DEF NoProc
  <2>2. "st" \in DOMAIN q
    BY <1>2, <2>1, WithInputFields
  <2>3. DOMAIN proc' = Procs /\ \A r \in Procs : "st" \in DOMAIN proc'[r]
    BY <1>5, <2>2 DEF WaitInv
  <2>4. \A j \in Jobs : j # Len(typed) + 1 => proc'[Head1(j)] = proc[Head1(j)]
    BY <1>3, <1>5 DEF WaitInv, Head1
  <2> QED  BY <1>1, <1>3, <1>5, <2>3, <2>4 DEF WaitInv, Jobs
<1> QED  BY <1>2, <1>4, <1>5

\* wait() takes the head of the last line: there is no other to take.
LEMMA WaitKeepsWaitInv == ASSUME WaitInv, Wait PROVE WaitInv'
<1>1. PICK j \in Jobs :
        proc[Head1(j)].st = "zombie" /\ proc' = [proc EXCEPT ![Head1(j)].st = "gone"]
  BY DEF Wait
<1>2. j = Len(typed)
  BY <1>1 DEF WaitInv
<1>3. Head1(j) \in Procs /\ shell' = "prompt" /\ UNCHANGED typed
  BY DEF Wait, Jobs, Head1, Procs
<1>4. /\ DOMAIN proc' = Procs /\ \A r \in Procs : "st" \in DOMAIN proc'[r]
      /\ proc'[Head1(j)].st = "gone"
      /\ \A i \in Jobs : i # j => proc'[Head1(i)] = proc[Head1(i)]
  BY <1>1, <1>3 DEF WaitInv, Head1
<1> QED  BY <1>2, <1>3, <1>4 DEF WaitInv

\* At a prompt the shell has no child left, running or zombie, whatever tails
\* are still running (shsim.c:65-77).
THEOREM NoChildAtPromptHolds == Spec => []NoChildAtPrompt
<1> DEFINE I == typed \in Seq(Lines) /\ WaitInv
<1>1. Init => I
  BY InitWaitInv DEF Init
<1>2. I /\ [Next]_vars => I'
  <2> SUFFICES ASSUME typed \in Seq(Lines), WaitInv, [Next]_vars PROVE I'
    OBVIOUS
  <2>1. ASSUME NEW l \in Lines, NEW gap \in Gaps, NEW stray \in Strays, Type(l, gap, stray)
        PROVE  I'
    <3>1. typed' \in Seq(Lines)
      BY <2>1 DEF Type
    <3>2. WaitInv'
      BY <2>1, TypeKeepsWaitInv
    <3> QED  BY <3>1, <3>2
  <2>2. CASE Wait
    <3>1. typed' = typed
      BY <2>2 DEF Wait
    <3>2. WaitInv'
      BY <2>2, WaitKeepsWaitInv
    <3> QED  BY <3>1, <3>2
  <2>3. ASSUME NEW p \in Procs, Process(p) PROVE I'
    <3>1. typed' = typed
      BY <2>3 DEF Process, ForkTail, PlumbHead, PlumbTail, NewInputs, InputsFromPipe,
                  Redirect, Exec, Write, Read, End
    <3> QED  BY <2>3, <3>1, ProcessKeepsWaitInv
  <2>4. CASE UNCHANGED vars
    BY <2>4 DEF vars, WaitInv
  <2> QED  BY <2>1, <2>2, <2>3, <2>4 DEF Next
<1>3. I => NoChildAtPrompt
  BY DEF WaitInv, NoChildAtPrompt
<1> QED  BY <1>1, <1>2, <1>3, PTL DEF Spec

-----------------------------------------------------------------------------
\* Text: searching and trimming

\* The characters a text is made of.
Char == Letter \cup {Blank} \cup Marks

\* Min is the least.
LEMMA MinIs ==
  ASSUME NEW S \in SUBSET Nat, S # {}
  PROVE  Min(S) \in S /\ \A k \in S : Min(S) <= k
  BY LeastNumber DEF Min

\* v[m] is what folding F over the first m of seq gives, from base.
IsIterate(v, X, Y, F, base, seq, m) ==
  /\ v \in [0 .. m -> X] /\ v[0] = base
  /\ \A k \in 1 .. m : v[k] = F[v[k - 1]][seq[k]]

\* A fold over any number of elements can be written down step by step.
LEMMA Iterates ==
  ASSUME NEW X, NEW Y, NEW F \in [X -> [Y -> X]], NEW base \in X, NEW n \in Nat, NEW seq,
         \A k \in 1 .. n : seq[k] \in Y
  PROVE  \E v : IsIterate(v, X, Y, F, base, seq, n)
<1> DEFINE S == {m \in Nat : m <= n => \E v : IsIterate(v, X, Y, F, base, seq, m)}
<1>1. 0 \in S
  <2>1. [k \in 0 .. 0 |-> base] \in [0 .. 0 -> X]
    OBVIOUS
  <2>2. [k \in 0 .. 0 |-> base][0] = base /\ 1 .. 0 = {}
    OBVIOUS
  <2>3. IsIterate([k \in 0 .. 0 |-> base], X, Y, F, base, seq, 0)
    BY <2>1, <2>2 DEF IsIterate
  <2> QED  BY <2>3
<1>2. ASSUME NEW m \in Nat, m \in S PROVE m + 1 \in S
  <2> SUFFICES ASSUME m + 1 <= n
               PROVE \E v : IsIterate(v, X, Y, F, base, seq, m + 1)
    OBVIOUS
  <2>1. PICK v : IsIterate(v, X, Y, F, base, seq, m)
    BY <1>2
  <2> DEFINE next == F[v[m]][seq[m + 1]]
             w == [k \in 0 .. m + 1 |-> IF k <= m THEN v[k] ELSE next]
  <2>2. next \in X
    <3>1. v[m] \in X /\ seq[m + 1] \in Y
      BY <2>1 DEF IsIterate
    <3>2. F[v[m]] \in [Y -> X]
      BY <3>1
    <3> QED  BY <3>1, <3>2
  <2> HIDE DEF next, S
  <2>3. w \in [0 .. m + 1 -> X]
    BY <2>1, <2>2 DEF IsIterate
  <2>4. \A k \in 0 .. m : w[k] = v[k]
    OBVIOUS
  <2>5. w[m + 1] = next
    OBVIOUS
  <2> HIDE DEF w
  <2>6. \A k \in 1 .. m + 1 : w[k] = F[w[k - 1]][seq[k]]
    <3> TAKE k \in 1 .. m + 1
    <3>1. CASE k <= m
      <4>1. w[k] = v[k] /\ w[k - 1] = v[k - 1]
        <5>1. k \in 0 .. m /\ k - 1 \in 0 .. m
          BY <3>1
        <5> QED  BY <2>4, <5>1
      <4>2. v[k] = F[v[k - 1]][seq[k]]
        BY <2>1, <3>1 DEF IsIterate
      <4> QED  BY <4>1, <4>2
    <3>2. CASE k = m + 1
      <4>1. w[k - 1] = v[m]
        BY <2>4, <3>2
      <4> QED  BY <2>5, <3>2, <4>1 DEF next
    <3> QED  BY <3>1, <3>2
  <2>7. w[0] = base
    BY <2>1, <2>4 DEF IsIterate
  <2>8. IsIterate(w, X, Y, F, base, seq, m + 1)
    BY <2>3, <2>6, <2>7 DEF IsIterate
  <2> QED  BY <2>8
<1>3. n \in S
  <2> HIDE DEF S
  <2> QED  BY <1>1, <1>2, NatRise
<1> QED  BY <1>3

\* searchStr of a text: cut at the first c, if there is one.
LEMMA SearchIs ==
  ASSUME NEW text \in Seq(Char), NEW c
  PROVE  \/ /\ \A i \in 1 .. Len(text) : text[i] # c
            /\ searchStr(text, c) = [head |-> text, tail |-> NULL]
         \/ \E at \in 1 .. Len(text) :
              /\ text[at] = c
              /\ \A i \in 1 .. at - 1 : text[i] # c
              /\ searchStr(text, c) = [head |-> SubSeq(text, 1, at - 1),
                                       tail |-> SubSeq(text, at + 1, Len(text))]
<1> DEFINE S == {i \in 1 .. Len(text) : text[i] = c}
           at == IF S # {} THEN Min(S) ELSE 0
<1>1. searchStr(text, c) = IF at = 0 THEN [head |-> text, tail |-> NULL]
                           ELSE [head |-> SubSeq(text, 1, at - 1),
                                 tail |-> SubSeq(text, at + 1, Len(text))]
  BY ZenonT(30) DEF searchStr, SelectInSeq
<1>2. CASE S = {}
  BY <1>1, <1>2
<1>3. CASE S # {}
  <2>1. at \in S /\ \A k \in S : at <= k
    <3>1. S \in SUBSET Nat
      OBVIOUS
    <3> HIDE DEF S
    <3> QED  BY <1>3, <3>1, MinIs
  <2> HIDE DEF at
  <2>2. at \in 1 .. Len(text) /\ text[at] = c /\ at # 0
    BY <2>1
  <2>3. \A i \in 1 .. at - 1 : text[i] # c
    <3> SUFFICES ASSUME NEW i \in 1 .. at - 1, text[i] = c PROVE FALSE
      OBVIOUS
    <3>1. Len(text) \in Nat
      OBVIOUS
    <3>2. i \in S
      BY <2>2, <3>1
    <3> QED  BY <2>1, <2>2, <3>1, <3>2
  <2> QED  BY <1>1, <2>2, <2>3
<1> QED  BY <1>2, <1>3

\* s is t up to n without some blanks: e says where each character of s is from.
Embeds(e, s, t, n) ==
  /\ e \in [1 .. Len(s) -> 1 .. n]
  /\ \A i, j \in 1 .. Len(s) : i < j => e[i] < e[j]
  /\ \A i \in 1 .. Len(s) : s[i] = t[e[i]]
  /\ \A k \in 1 .. n : t[k] # Blank => \E i \in 1 .. Len(s) : e[i] = k

\* What trimming may make of the first n characters of t.
Keeps(t, n, s) == s \in Seq(Char) /\ \E e : Embeds(e, s, t, n)

\* What trimming may make of t: some blanks are gone, nothing else is.
Reduces(t, s) == Keeps(t, Len(t), s)

\* A mark stands at k.
MarkAt(t, k) == k \in 1 .. Len(t) /\ t[k] \in Marks

\* What is behind b is a redirection or another segment.
EndsAt(t, b) == b = Len(t) \/ MarkAt(t, b + 1)

\* A blank that may go although the text has begun: it is the last character, or
\* one of the next to it, or a mark stands where strTrim looks for one, behind
\* the index it writes to, which is the w of the last character written.
DroppedAt(e, s, t, r) ==
  \E w \in 1 .. Len(s) :
    /\ e[w] < r /\ \A i \in 1 .. Len(s) : i > w => e[i] > r
    /\ r < Len(t) /\ t[r + 1] # Blank => s[w] \in Marks \/ MarkAt(t, w + 2)

\* s is what strTrim may make of the first n characters of t.
Sparing(e, s, t, n) ==
  /\ s \in Seq(Char) /\ Embeds(e, s, t, n)
  /\ s # <<>> => t[e[1]] # Blank
  /\ \A r \in 1 .. n :
       (\A i \in 1 .. Len(s) : e[i] # r) /\ (\E i \in 1 .. Len(s) : e[i] < r) => DroppedAt(e, s, t, r)

\* The same for some places.
Spared(t, n, s) == \E e : Sparing(e, s, t, n)

\* The blanks in front are skipped.
LEMMA SparingNone ==
  ASSUME NEW t, NEW n \in Nat, \A k \in 1 .. n : t[k] = Blank
  PROVE  Spared(t, n, <<>>)
<1>1. <<>> \in Seq(Char) /\ Len(<<>>) = 0 /\ 1 .. 0 = {}
  OBVIOUS
<1>2. [i \in 1 .. 0 |-> 0] \in [1 .. 0 -> 1 .. n]
  BY <1>1
<1>3. Embeds([i \in 1 .. 0 |-> 0], <<>>, t, n)
  BY <1>1, <1>2 DEF Embeds
<1>4. Sparing([i \in 1 .. 0 |-> 0], <<>>, t, n)
  BY <1>1, <1>3 DEF Sparing
<1> QED  BY <1>4 DEF Spared

\* What has been written is no longer than what has been read.
LEMMA EmbedsRise ==
  ASSUME NEW e, NEW s, NEW t, NEW n \in Nat, Embeds(e, s, t, n), Len(s) \in Nat
  PROVE  \A i \in 1 .. Len(s) : e[i] >= e[1] + i - 1
<1> DEFINE m == Len(s)
           S == {k \in Nat : k + 1 <= m => e[k + 1] >= e[1] + k}
<1>1. /\ e \in [1 .. m -> 1 .. n]
      /\ \A i, j \in 1 .. m : i < j => e[i] < e[j]
  BY DEF Embeds
<1> HIDE DEF m
<1>2. 0 \in S
  BY <1>1
<1>3. ASSUME NEW k \in Nat, k \in S PROVE k + 1 \in S
  <2> SUFFICES ASSUME (k + 1) + 1 <= m PROVE e[(k + 1) + 1] >= e[1] + (k + 1)
    OBVIOUS
  <2>1. k + 1 \in 1 .. m /\ (k + 1) + 1 \in 1 .. m /\ 1 \in 1 .. m
    BY DEF m
  <2>2. e[k + 1] >= e[1] + k
    BY <1>3, <2>1
  <2>3. e[k + 1] < e[(k + 1) + 1] /\ e[1] \in Int /\ e[k + 1] \in Int /\ e[(k + 1) + 1] \in Int
    BY <1>1, <2>1
  <2> QED  BY ONLY <2>2, <2>3, k \in Nat
<1>4. \A k \in Nat : k \in S
  <2> HIDE DEF S
  <2> QED  BY <1>2, <1>3, NatRise
<1>5. ASSUME NEW i \in 1 .. m PROVE e[i] >= e[1] + i - 1
  <2>1. i - 1 \in S /\ (i - 1) + 1 = i /\ i <= m /\ e[1] \in Int
    BY <1>1, <1>4, <1>5 DEF m
  <2> QED  BY <2>1
<1> QED  BY <1>5 DEF m

\* strTrim drops a blank.
LEMMA SparingBlank ==
  ASSUME NEW t \in Seq(Char), NEW n \in Nat, n < Len(t), NEW s, s # <<>>, Spared(t, n, s),
         Dropped(Append(t, Nul), n + 1, s)
  PROVE  Spared(t, n + 1, s)
<1> DEFINE m == Len(s)
           str == Append(t, Nul)
<1>0. PICK e : Sparing(e, s, t, n)
  BY DEF Spared
<1>1. s \in Seq(Char) /\ m \in Nat /\ m >= 1 /\ Embeds(e, s, t, n) /\ Len(t) \in Nat
  BY <1>0 DEF Sparing
<1>2. e \in [1 .. m -> 1 .. n] /\ \A i, j \in 1 .. m : i < j => e[i] < e[j]
  BY <1>1 DEF Embeds
<1>3. /\ str[Len(t) + 1] = Nul /\ \A k \in 1 .. Len(t) : str[k] = t[k]
      /\ Nul # Blank /\ Nul \notin Marks
  BY DEF Nul, Blank, Marks
<1>4. m <= n
  <2>1. e[m] >= e[1] + m - 1
    BY <1>1, EmbedsRise
  <2> QED  BY <1>1, <1>2, <2>1
<1>5. Last(s) = s[m]
  BY DEF Last
<1> HIDE DEF str
<1>6. /\ str[n + 1] = Blank
      /\ \/ str[(n + 1) + 1] \in {Blank, Nul}
         \/ s[m] \in Marks
         \/ str[m + 2] \in Marks
  BY <1>5 DEF Dropped, str
<1>7. t[n + 1] = Blank
  BY <1>3, <1>6
<1>8. s[m] \in Marks \/ MarkAt(t, m + 2) \/ n + 1 = Len(t) \/ t[(n + 1) + 1] = Blank
  <2>1. CASE str[(n + 1) + 1] \in {Blank, Nul}
    <3>1. CASE n + 1 = Len(t)
      BY <3>1
    <3>2. CASE n + 1 # Len(t)
      <4>1. (n + 1) + 1 \in 1 .. Len(t)
        BY <1>1, <3>2
      <4>2. t[(n + 1) + 1] \in Char
        BY <4>1
      <4>3. Nul \notin Char
        BY DEF Char, Letter, Nul, Blank, Marks
      <4> QED  BY <1>3, <2>1, <4>1, <4>2, <4>3
    <3> QED  BY <3>1, <3>2
  <2>2. CASE str[m + 2] \in Marks
    <3>1. m + 2 # Len(t) + 1
      BY <1>3, <2>2
    <3>2. m + 2 \in 1 .. Len(t)
      BY <1>1, <1>4, <3>1
    <3> QED  BY <1>3, <2>2, <3>2 DEF MarkAt
  <2> QED  BY <1>6, <2>1, <2>2
<1>9. Embeds(e, s, t, n + 1)
  BY <1>1, <1>7 DEF Embeds
<1>10. ASSUME NEW r \in 1 .. n + 1, \A i \in 1 .. m : e[i] # r, \E i \in 1 .. m : e[i] < r
       PROVE  DroppedAt(e, s, t, r)
  <2>1. CASE r = n + 1
    <3>1. m \in 1 .. m /\ e[m] < r /\ \A i \in 1 .. m : ~ i > m
      BY <1>1, <1>2, <2>1
    <3>2. r < Len(t) /\ t[r + 1] # Blank => s[m] \in Marks \/ MarkAt(t, m + 2)
      BY <1>8, <2>1
    <3> QED  BY <3>1, <3>2 DEF DroppedAt
  <2>2. CASE r # n + 1
    <3>1. r \in 1 .. n
      BY <2>2
    <3> QED  BY <1>0, <1>10, <3>1 DEF Sparing
  <2> QED  BY <2>1, <2>2
<1>11. Sparing(e, s, t, n + 1)
  BY <1>0, <1>1, <1>9, <1>10 DEF Sparing
<1> QED  BY <1>11 DEF Spared

\* strTrim copies a character.
LEMMA SparingAnother ==
  ASSUME NEW t \in Seq(Char), NEW n \in Nat, NEW s, Spared(t, n, s), t[n + 1] \in Char,
         s = <<>> => t[n + 1] # Blank
  PROVE  Spared(t, n + 1, Append(s, t[n + 1]))
<1> DEFINE m == Len(s)
           u == Append(s, t[n + 1])
<1>0. PICK e : Sparing(e, s, t, n)
  BY DEF Spared
<1>1. Embeds(e, s, t, n)
  BY <1>0 DEF Sparing
<1>2. s \in Seq(Char) /\ m \in Nat
  BY <1>0 DEF Sparing
<1>3. /\ u \in Seq(Char) /\ Len(u) = m + 1 /\ u[m + 1] = t[n + 1]
      /\ \A i \in 1 .. m : u[i] = s[i]
  BY <1>2
<1> DEFINE f == [i \in 1 .. m + 1 |-> IF i <= m THEN e[i] ELSE n + 1]
<1>4. f \in [1 .. m + 1 -> 1 .. n + 1]
  BY <1>1, <1>2 DEF Embeds
<1>5. f[m + 1] = n + 1 /\ \A i \in 1 .. m : f[i] = e[i]
  BY <1>2
<1> HIDE DEF f, u, m
<1>6. \A i, j \in 1 .. m + 1 : i < j => f[i] < f[j]
  <2> SUFFICES ASSUME NEW i \in 1 .. m + 1, NEW j \in 1 .. m + 1, i < j PROVE f[i] < f[j]
    OBVIOUS
  <2>1. i \in 1 .. m /\ e[i] \in 1 .. n /\ f[i] = e[i]
    BY <1>1, <1>2, <1>5 DEF Embeds, m
  <2>2. CASE j = m + 1
    BY <1>5, <2>1, <2>2
  <2>3. CASE j # m + 1
    <3>1. j \in 1 .. m
      BY <1>2, <2>3
    <3>2. e[i] < e[j]
      BY <1>1, <2>1, <3>1 DEF Embeds, m
    <3> QED  BY <1>5, <2>1, <3>1, <3>2
  <2> QED  BY <2>2, <2>3
<1>7. \A i \in 1 .. m + 1 : u[i] = t[f[i]]
  <2> TAKE i \in 1 .. m + 1
  <2>1. CASE i = m + 1
    BY <1>3, <1>5, <2>1
  <2>2. CASE i # m + 1
    BY <1>1, <1>2, <1>3, <1>5, <2>2 DEF Embeds, m
  <2> QED  BY <2>1, <2>2
<1>8. \A k \in 1 .. n + 1 : t[k] # Blank => \E i \in 1 .. m + 1 : f[i] = k
  <2> SUFFICES ASSUME NEW k \in 1 .. n + 1, t[k] # Blank
               PROVE  \E i \in 1 .. m + 1 : f[i] = k
    OBVIOUS
  <2>1. CASE k = n + 1
    BY <1>2, <1>5, <2>1
  <2>2. CASE k # n + 1
    <3>1. PICK i \in 1 .. m : e[i] = k
      BY <1>1, <2>2 DEF Embeds, m
    <3> QED  BY <1>2, <1>5, <3>1
  <2> QED  BY <2>1, <2>2
<1>9. Embeds(f, u, t, n + 1)
  BY <1>3, <1>4, <1>6, <1>7, <1>8 DEF Embeds
<1>10. t[f[1]] # Blank
  <2>1. CASE m = 0
    <3>1. s = <<>> /\ f[1] = n + 1
      BY <1>2, <1>5, <2>1 DEF m
    <3> QED  BY <3>1
  <2>2. CASE m # 0
    <3>1. s # <<>> /\ 1 \in 1 .. m
      BY <1>2, <2>2 DEF m
    <3> QED  BY <1>0, <1>5, <3>1 DEF Sparing
  <2> QED  BY <2>1, <2>2
<1>11. ASSUME NEW r \in 1 .. n + 1, \A i \in 1 .. m + 1 : f[i] # r, \E i \in 1 .. m + 1 : f[i] < r
       PROVE  DroppedAt(f, u, t, r)
  <2>1. r \in 1 .. n
    BY <1>2, <1>5, <1>11
  <2>2. \A i \in 1 .. m : e[i] # r
    BY <1>2, <1>5, <1>11
  <2>3. \E i \in 1 .. m : e[i] < r
    BY <1>2, <1>5, <1>11, <2>1
  <2>4. DroppedAt(e, s, t, r)
    BY <1>0, <2>1, <2>2, <2>3 DEF Sparing, m
  <2>5. PICK w \in 1 .. m :
          /\ e[w] < r /\ \A i \in 1 .. m : i > w => e[i] > r
          /\ r < Len(t) /\ t[r + 1] # Blank =>
               s[w] \in Marks \/ MarkAt(t, w + 2)
    BY <2>4 DEF DroppedAt, m
  <2>6. w \in 1 .. m + 1 /\ f[w] = e[w] /\ u[w] = s[w]
    BY <1>2, <1>3, <1>5
  <2>7. ASSUME NEW i \in 1 .. m + 1, i > w PROVE f[i] > r
    <3>1. CASE i = m + 1
      BY <1>5, <2>1, <3>1
    <3>2. CASE i # m + 1
      BY <1>2, <1>5, <2>5, <2>7, <3>2
    <3> QED  BY <3>1, <3>2
  <2> QED  BY <1>3, <2>5, <2>6, <2>7 DEF DroppedAt
<1>12. Sparing(f, u, t, n + 1)
  BY <1>3, <1>9, <1>10, <1>11 DEF Sparing
<1> QED  BY <1>12 DEF u, Spared

\* u[k] is what strTrim has written when k characters from first on are read.
IsCopy(u, str, first, n) ==
  u = [k \in 0 .. n |-> IF k = 0 THEN <<>>
                        ELSE IF Dropped(str, first + k - 1, u[k - 1]) THEN u[k - 1]
                        ELSE Append(u[k - 1], str[first + k - 1])]

\* The texts written one after the other.
Copy(str, first, n) == CHOOSE u : IsCopy(u, str, first, n)

\* strTrim skips the blanks in front and copies the rest.
LEMMA TrimIsCopy ==
  ASSUME NEW text \in Seq(Char)
  PROVE  \E first \in 1 .. Len(text) + 1 :
           /\ \A k \in 1 .. first - 1 : text[k] = Blank
           /\ first <= Len(text) => text[first] # Blank
           /\ strTrim(text) = Copy(Append(text, Nul), first, Len(text) + 1 - first)[Len(text) + 1 - first]
<1> DEFINE str == Append(text, Nul)
           S == {i \in 1 .. Len(str) : str[i] # Blank}
           first == IF S # {} THEN Min(S) ELSE 0
           n == Len(text) + 1 - first
           seq == [i \in 1 .. n |-> first + i - 1]
<1>1. /\ Len(text) \in Nat /\ Len(str) = Len(text) + 1 /\ str[Len(text) + 1] = Nul
      /\ \A k \in 1 .. Len(text) : str[k] = text[k]
  OBVIOUS
<1>2. S \in SUBSET Nat /\ Len(text) + 1 \in S
  <2>1. Nul # Blank
    BY DEF Nul, Blank
  <2> HIDE DEF str
  <2> QED  BY <1>1, <2>1
<1>3. first \in S /\ \A k \in S : first <= k
  <2> HIDE DEF S
  <2> QED  BY <1>2, MinIs
<1>4. first \in 1 .. Len(text) + 1
  BY <1>1, <1>3
<1>5. \A k \in 1 .. first - 1 : text[k] = Blank
  <2> SUFFICES ASSUME NEW k \in 1 .. first - 1, text[k] # Blank PROVE FALSE
    OBVIOUS
  <2> HIDE DEF first
  <2>1. k \in S
    BY <1>1, <1>4
  <2> QED  BY <1>3, <1>4, <2>1
<1>6. n \in Nat /\ Len(seq) = n
  <2> HIDE DEF first
  <2>1. n \in Nat
    BY <1>4
  <2>2. seq \in [1 .. n -> Int]
    BY <1>4
  <2>3. seq \in Seq(Int)
    BY <2>1, <2>2
  <2> QED  BY <2>1, <2>2, <2>3
<1> DEFINE by(u) == u = [k \in 0 .. Len(seq) |-> IF k = 0 THEN <<>>
                        ELSE IF Dropped(str, seq[k], u[k - 1]) THEN u[k - 1]
                        ELSE Append(u[k - 1], str[seq[k]])]
<1>7. strTrim(text) = (CHOOSE u : by(u))[Len(seq)]
  BY ZenonT(30) DEF strTrim, Fold, SelectInSeq
<1>8. \A u : by(u) <=> IsCopy(u, str, first, n)
  <2> HIDE DEF first, n
  <2>1. \A k \in 0 .. n : k # 0 => seq[k] = first + k - 1
    BY <1>4, <1>6
  <2> HIDE DEF seq, str
  <2> QED  BY <1>6, <2>1 DEF IsCopy
<1>9. (CHOOSE u : by(u)) = Copy(str, first, n)
  <2> HIDE DEF by, str, first, n
  <2> QED  BY <1>8 DEF Copy
<1>10. strTrim(text) = Copy(str, first, n)[n]
  <2> HIDE DEF by, str, first, n, seq
  <2> QED  BY <1>6, <1>7, <1>9
<1>11. first <= Len(text) => text[first] # Blank
  <2> HIDE DEF first
  <2> QED  BY <1>1, <1>3, <1>4
<1> HIDE DEF first
<1> QED  BY <1>4, <1>5, <1>10, <1>11

\* The copying loop, a character at a time.
LEMMA CopyIs ==
  ASSUME NEW str, NEW first, NEW n \in Nat, \A k \in 1 .. n : str[first + k - 1] \in Char
  PROVE  /\ Copy(str, first, n)[0] = <<>>
         /\ \A k \in 1 .. n :
              Copy(str, first, n)[k] =
                IF Dropped(str, first + k - 1, Copy(str, first, n)[k - 1]) THEN Copy(str, first, n)[k - 1]
                ELSE Append(Copy(str, first, n)[k - 1], str[first + k - 1])
<1> DEFINE X == Seq(Char)
           Y == 1 .. n
           op(out, k) == IF Dropped(str, first + k - 1, out) THEN out
                         ELSE Append(out, str[first + k - 1])
           F == [x \in X |-> [y \in Y |-> op(x, y)]]
           seq == [k \in 1 .. n |-> k]
<1>1. F \in [X -> [Y -> X]] /\ <<>> \in X /\ \A k \in 1 .. n : seq[k] \in Y
  BY DEF Char
<1>2. \A out \in X, k \in Y : F[out][k] = op(out, k)
  OBVIOUS
<1>3. PICK v : IsIterate(v, X, Y, F, <<>>, seq, n)
  <2> HIDE DEF X, Y, F, seq, op
  <2> QED  BY <1>1, Iterates
<1>4. \A k \in 1 .. n : v[k] = op(v[k - 1], k)
  <2> TAKE k \in 1 .. n
  <2>1. v[k - 1] \in X /\ k \in Y /\ seq[k] = k
    BY <1>3 DEF IsIterate
  <2> HIDE DEF X, Y, F, seq, op
  <2> QED  BY <1>2, <1>3, <2>1 DEF IsIterate
<1>5. IsCopy(v, str, first, n)
  <2>1. v = [k \in 0 .. n |-> v[k]] /\ v[0] = <<>>
    BY <1>3 DEF IsIterate
  <2>2. \A k \in 0 .. n : v[k] = IF k = 0 THEN <<>> ELSE op(v[k - 1], k)
    <3> TAKE k \in 0 .. n
    <3>1. k # 0 => k \in 1 .. n
      OBVIOUS
    <3> HIDE DEF op
    <3> QED  BY <1>4, <2>1, <3>1
  <2> QED  BY <2>1, <2>2 DEF IsCopy
<1>6. IsCopy(Copy(str, first, n), str, first, n)
  BY <1>5 DEF Copy
<1> DEFINE u == Copy(str, first, n)
<1>7. \A k \in 0 .. n : u[k] = IF k = 0 THEN <<>>
                        ELSE IF Dropped(str, first + k - 1, u[k - 1]) THEN u[k - 1]
                        ELSE Append(u[k - 1], str[first + k - 1])
  <2> HIDE DEF u
  <2>1. IsCopy(u, str, first, n)
    BY <1>6 DEF u
  <2> QED  BY <2>1 DEF IsCopy
<1> QED  BY <1>7

\* strTrim drops blanks only, and only those of DroppedAt and in front.
LEMMA TrimSparing ==
  ASSUME NEW text \in Seq(Char)
  PROVE  Spared(text, Len(text), strTrim(text))
<1>1. PICK first \in 1 .. Len(text) + 1 :
           /\ \A k \in 1 .. first - 1 : text[k] = Blank
           /\ first <= Len(text) => text[first] # Blank
           /\ strTrim(text) = Copy(Append(text, Nul), first, Len(text) + 1 - first)[Len(text) + 1 - first]
  BY TrimIsCopy
<1> DEFINE str == Append(text, Nul)
           n == Len(text) + 1 - first
           u == Copy(str, first, n)
<1>2. Len(text) \in Nat /\ n \in Nat
  OBVIOUS
<1>3. \A k \in 1 .. n : first + k - 1 \in 1 .. Len(text) /\ str[first + k - 1] = text[first + k - 1]
                        /\ text[first + k - 1] \in Char
  OBVIOUS
<1> HIDE DEF str, n
<1>4. /\ u[0] = <<>>
      /\ \A k \in 1 .. n : u[k] = IF Dropped(str, first + k - 1, u[k - 1]) THEN u[k - 1]
                                  ELSE Append(u[k - 1], str[first + k - 1])
  <2>1. \A k \in 1 .. n : str[first + k - 1] \in Char
    BY <1>3
  <2> QED  BY <1>2, <2>1, CopyIs
<1> HIDE DEF u
<1> DEFINE S == {k \in Nat : k <= n => Spared(text, first + k - 1, u[k]) /\ (k >= 1 => u[k] # <<>>)}
<1>5. 0 \in S
  <2>1. first - 1 \in Nat /\ first + 0 - 1 = first - 1
    BY <1>2
  <2> QED  BY <1>1, <1>4, <2>1, SparingNone
<1>6. ASSUME NEW k \in Nat, k \in S PROVE k + 1 \in S
  <2> SUFFICES ASSUME k + 1 <= n
               PROVE  Spared(text, first + (k + 1) - 1, u[k + 1]) /\ u[k + 1] # <<>>
    OBVIOUS
  <2> DEFINE r == first + k - 1
  <2>1. r \in Nat /\ first + (k + 1) - 1 = r + 1 /\ r + 1 \in 1 .. Len(text) /\ r < Len(text)
    BY <1>2 DEF n
  <2>2. Spared(text, r, u[k]) /\ (k >= 1 => u[k] # <<>>)
    BY <1>2, <1>6
  <2>3. /\ str[r + 1] = text[r + 1] /\ text[r + 1] \in Char
        /\ u[k + 1] = IF Dropped(str, r + 1, u[k]) THEN u[k] ELSE Append(u[k], str[r + 1])
    <3>1. k + 1 \in 1 .. n /\ (k + 1) - 1 = k
      BY <1>2
    <3> HIDE DEF S
    <3> QED  BY <1>3, <1>4, <2>1, <3>1
  <2>4. u[k] \in Seq(Char)
    BY <2>2 DEF Spared, Sparing
  <2>5. CASE Dropped(str, r + 1, u[k])
    <3>1. k >= 1
      <4> SUFFICES ASSUME k = 0 PROVE FALSE
        OBVIOUS
      <4>1. r + 1 = first
        OBVIOUS
      <4>2. str[first] # Blank
        BY <1>1, <2>1, <2>3, <4>1
      <4> QED  BY <2>5, <4>1, <4>2 DEF Dropped
    <3>2. u[k] # <<>>
      BY <2>2, <3>1
    <3>3. Spared(text, r + 1, u[k])
      <4> HIDE DEF r, S
      <4> QED  BY <2>1, <2>2, <2>5, <3>2, SparingBlank DEF str
    <3> QED  BY <2>1, <2>3, <2>5, <3>2, <3>3
  <2>6. CASE ~ Dropped(str, r + 1, u[k])
    <3>1. u[k] = <<>> => text[r + 1] # Blank
      <4>1. u[k] = <<>> => k = 0
        BY <2>2
      <4>2. k = 0 => text[r + 1] # Blank
        BY <1>1, <2>1
      <4> QED  BY <4>1, <4>2
    <3> HIDE DEF r, S
    <3>2. Spared(text, r + 1, Append(u[k], text[r + 1]))
      BY <2>1, <2>2, <2>3, <3>1, SparingAnother
    <3>3. Append(u[k], text[r + 1]) # <<>>
      BY <2>3, <2>4
    <3> QED  BY <2>1, <2>3, <2>6, <3>2, <3>3
  <2> QED  BY <2>5, <2>6
<1>7. n \in S
  <2> HIDE DEF S
  <2> QED  BY <1>2, <1>5, <1>6, NatRise
<1>8. Spared(text, first + n - 1, u[n]) /\ first + n - 1 = Len(text)
  BY <1>2, <1>7 DEF n
<1> QED  BY <1>1, <1>8 DEF u, str, n

\* So strTrim drops blanks and nothing else.
LEMMA TrimReduces ==
  ASSUME NEW text \in Seq(Char)
  PROVE  Reduces(text, strTrim(text))
BY TrimSparing DEF Reduces, Keeps, Spared, Sparing

\* A part of a sequence.
LEMMA SubSeqIs ==
  ASSUME NEW X, NEW t \in Seq(X), NEW a \in 1 .. Len(t) + 1, NEW b \in 0 .. Len(t), a <= b + 1
  PROVE  /\ SubSeq(t, a, b) \in Seq(X) /\ Len(SubSeq(t, a, b)) = b - a + 1
         /\ \A k \in 1 .. b - a + 1 : SubSeq(t, a, b)[k] = t[k + a - 1]
  OBVIOUS

\* First(t, p, c): c stands at p and nowhere before.
IsFirst(t, p, c) == p \in 1 .. Len(t) /\ t[p] = c /\ \A k \in 1 .. p - 1 : t[k] # c

\* Trimming neither adds nor drops a character that is no blank.
LEMMA ReducesNone ==
  ASSUME NEW t \in Seq(Char), NEW s, Reduces(t, s), NEW c, c # Blank
  PROVE  (\A i \in 1 .. Len(t) : t[i] # c) <=> (\A i \in 1 .. Len(s) : s[i] # c)
<1>1. PICK e : Embeds(e, s, t, Len(t))
  BY DEF Reduces, Keeps
<1>2. ASSUME NEW i \in 1 .. Len(t), t[i] = c PROVE \E k \in 1 .. Len(s) : s[k] = c
  BY <1>1, <1>2 DEF Embeds
<1>3. ASSUME NEW k \in 1 .. Len(s), s[k] = c PROVE \E i \in 1 .. Len(t) : t[i] = c
  BY <1>1, <1>3 DEF Embeds
<1> QED  BY <1>2, <1>3

\* Trimming a text and cutting it is cutting it and trimming its parts.
LEMMA ReducesCut ==
  ASSUME NEW t \in Seq(Char), NEW s, Reduces(t, s), NEW c, c # Blank,
         NEW p, IsFirst(t, p, c), NEW i, IsFirst(s, i, c)
  PROVE  /\ Reduces(SubSeq(t, 1, p - 1), SubSeq(s, 1, i - 1))
         /\ Reduces(SubSeq(t, p + 1, Len(t)), SubSeq(s, i + 1, Len(s)))
<1> DEFINE m == Len(s)
           n == Len(t)
<1>1. s \in Seq(Char) /\ m \in Nat /\ n \in Nat
  BY DEF Reduces, Keeps
<1>2. PICK e : Embeds(e, s, t, n)
  BY DEF Reduces, Keeps
<1>3. /\ e \in [1 .. m -> 1 .. n]
      /\ \A a, b \in 1 .. m : a < b => e[a] < e[b]
      /\ \A a \in 1 .. m : s[a] = t[e[a]]
      /\ \A k \in 1 .. n : t[k] # Blank => \E a \in 1 .. m : e[a] = k
  BY <1>2 DEF Embeds
<1>4. p \in 1 .. n /\ t[p] = c /\ i \in 1 .. m /\ s[i] = c
      /\ (\A k \in 1 .. p - 1 : t[k] # c) /\ (\A k \in 1 .. i - 1 : s[k] # c)
  BY DEF IsFirst
<1> HIDE DEF m, n
<1>11. p \in 1 .. n /\ i \in 1 .. m /\ m \in Nat /\ n \in Nat /\ p \in Int /\ i \in Int
  BY <1>1, <1>4
<1>5. e[i] = p
  <2>1. e[i] \in 1 .. n /\ ~(e[i] < p)
    <3>1. e[i] \in 1 .. n /\ t[e[i]] = c
      BY <1>3, <1>4
    <3>2. CASE e[i] < p
      <4>1. e[i] \in 1 .. p - 1
        BY <1>11, <3>1, <3>2
      <4> QED  BY <1>4, <3>1, <4>1
    <3> QED  BY <3>1, <3>2
  <2>2. PICK a \in 1 .. m : e[a] = p
    BY <1>3, <1>4
  <2>3. s[a] = c
    BY <1>3, <1>4, <2>2
  <2>4. ~(a < i)
    BY <1>1, <1>4, <2>3
  <2>5. ~(i < a)
    BY <1>1, <1>3, <1>4, <2>1, <2>2
  <2> QED  BY <1>4, <2>2, <2>4, <2>5
<1>6. \A a \in 1 .. m : (a < i <=> e[a] < p) /\ (i < a <=> p < e[a])
  <2> TAKE a \in 1 .. m
  <2>1. e[a] \in Int /\ p \in Int /\ a \in Int /\ i \in Int
    BY <1>3, <1>4
  <2>2. a < i => e[a] < p
    BY <1>3, <1>4, <1>5
  <2>3. i < a => p < e[a]
    BY <1>3, <1>4, <1>5
  <2>4. a = i => e[a] = p
    BY <1>5
  <2> QED  BY <2>1, <2>2, <2>3, <2>4
<1> DEFINE t1 == SubSeq(t, 1, p - 1)
           s1 == SubSeq(s, 1, i - 1)
           t2 == SubSeq(t, p + 1, n)
           s2 == SubSeq(s, i + 1, m)
<1>7. /\ Len(t1) = p - 1 /\ \A k \in 1 .. p - 1 : t1[k] = t[k]
      /\ Len(t2) = n - p /\ \A k \in 1 .. n - p : t2[k] = t[k + p]
  BY <1>1, <1>4 DEF n
<1>8. /\ Len(s1) = i - 1 /\ s1 \in Seq(Char) /\ \A k \in 1 .. i - 1 : s1[k] = s[k]
      /\ Len(s2) = m - i /\ s2 \in Seq(Char) /\ \A k \in 1 .. m - i : s2[k] = s[k + i]
  <2> HIDE DEF s1, s2
  <2>1. /\ Len(s1) = i - 1 /\ s1 \in Seq(Char) /\ \A k \in 1 .. i - 1 : s1[k] = s[k]
    BY <1>1, <1>4, SubSeqIs DEF m, s1
  <2>2. /\ Len(s2) = m - i /\ s2 \in Seq(Char) /\ \A k \in 1 .. m - i : s2[k] = s[k + i]
    BY <1>1, <1>4, SubSeqIs DEF m, s2
  <2> QED  BY <2>1, <2>2
<1> HIDE DEF t1, s1, t2, s2
<1>9. Reduces(t1, s1)
  <2> DEFINE f == [a \in 1 .. i - 1 |-> e[a]]
  <2>1. f \in [1 .. i - 1 -> 1 .. p - 1]
    <3> SUFFICES ASSUME NEW a \in 1 .. i - 1 PROVE e[a] \in 1 .. p - 1
      OBVIOUS
    <3>1. a \in 1 .. m /\ a < i
      BY <1>1, <1>4
    <3> QED  BY <1>3, <1>4, <1>6, <3>1
  <2>2. \A a, b \in 1 .. i - 1 : a < b => f[a] < f[b]
    BY <1>1, <1>3, <1>4
  <2>3. \A a \in 1 .. i - 1 : s1[a] = t1[f[a]]
    <3> TAKE a \in 1 .. i - 1
    <3>1. f[a] = e[a] /\ e[a] \in 1 .. p - 1 /\ a \in 1 .. m
      BY <1>1, <1>4, <2>1
    <3> QED  BY <1>3, <1>7, <1>8, <3>1
  <2>4. \A k \in 1 .. p - 1 : t1[k] # Blank => \E a \in 1 .. i - 1 : f[a] = k
    <3> SUFFICES ASSUME NEW k \in 1 .. p - 1, t1[k] # Blank PROVE \E a \in 1 .. i - 1 : f[a] = k
      OBVIOUS
    <3>1. k \in 1 .. n /\ t[k] # Blank
      BY <1>1, <1>4, <1>7
    <3>2. PICK a \in 1 .. m : e[a] = k
      BY <1>3, <3>1
    <3>3. a \in 1 .. i - 1
      BY <1>1, <1>4, <1>6, <3>2
    <3> QED  BY <3>2, <3>3
  <2> HIDE DEF f
  <2>5. Embeds(f, s1, t1, p - 1)
    BY <1>8, <2>1, <2>2, <2>3, <2>4 DEF Embeds
  <2> QED  BY <1>7, <1>8, <2>5 DEF Reduces, Keeps
<1>10. Reduces(t2, s2)
  <2> DEFINE f == [a \in 1 .. m - i |-> e[a + i] - p]
  <2>0. ASSUME NEW a \in 1 .. m - i PROVE a + i \in 1 .. m /\ e[a + i] \in p + 1 .. n /\ f[a] = e[a + i] - p
    <3>1. a + i \in 1 .. m /\ i < a + i
      BY <1>1, <1>4
    <3>2. e[a + i] \in 1 .. n /\ p < e[a + i]
      BY <1>3, <1>6, <3>1
    <3> QED  BY <1>1, <1>4, <3>1, <3>2
  <2> HIDE DEF f
  <2>1. f \in [1 .. m - i -> 1 .. n - p]
    <3>1. ASSUME NEW a \in 1 .. m - i PROVE f[a] \in 1 .. n - p
      <4>1. e[a + i] \in p + 1 .. n /\ f[a] = e[a + i] - p
        BY <2>0
      <4> QED  BY <1>11, <4>1
    <3> QED  BY <3>1 DEF f
  <2>2. \A a, b \in 1 .. m - i : a < b => f[a] < f[b]
    <3> SUFFICES ASSUME NEW a \in 1 .. m - i, NEW b \in 1 .. m - i, a < b PROVE f[a] < f[b]
      OBVIOUS
    <3>1. a + i < b + i
      BY <1>1, <1>4
    <3>2. e[a + i] < e[b + i]
      BY <1>3, <2>0, <3>1
    <3> QED  BY <1>11, <2>0, <3>2
  <2>3. \A a \in 1 .. m - i : s2[a] = t2[f[a]]
    <3> TAKE a \in 1 .. m - i
    <3>1. e[a + i] \in p + 1 .. n /\ f[a] = e[a + i] - p /\ a + i \in 1 .. m
      BY <2>0
    <3>2. f[a] \in 1 .. n - p /\ f[a] + p = e[a + i]
      BY <1>11, <3>1
    <3>3. s2[a] = t[e[a + i]]
      BY <1>3, <1>8, <3>1
    <3>4. t2[f[a]] = t[f[a] + p]
      BY <1>7, <3>2
    <3> QED  BY <3>2, <3>3, <3>4
  <2>4. \A k \in 1 .. n - p : t2[k] # Blank => \E a \in 1 .. m - i : f[a] = k
    <3> SUFFICES ASSUME NEW k \in 1 .. n - p, t2[k] # Blank PROVE \E a \in 1 .. m - i : f[a] = k
      OBVIOUS
    <3>1. k + p \in 1 .. n /\ t[k + p] # Blank
      <4>1. k + p \in 1 .. n
        BY <1>1, <1>4
      <4>2. t2[k] = t[k + p]
        BY <1>7
      <4> QED  BY <4>1, <4>2
    <3>2. PICK a \in 1 .. m : e[a] = k + p
      BY <1>3, <3>1
    <3>3. i < a
      BY <1>1, <1>4, <1>6, <3>1, <3>2
    <3>4. a - i \in 1 .. m - i /\ (a - i) + i = a
      BY <1>1, <1>4, <3>3
    <3>5. f[a - i] = e[(a - i) + i] - p
      BY <2>0, <3>4
    <3>6. f[a - i] = k
      BY <1>11, <3>2, <3>4, <3>5
    <3> QED  BY <3>4, <3>6
  <2>5. Embeds(f, s2, t2, n - p)
    BY <1>8, <2>1, <2>2, <2>3, <2>4 DEF Embeds
  <2> QED  BY <1>7, <1>8, <2>5 DEF Reduces, Keeps
<1> QED  BY <1>9, <1>10 DEF t1, s1, t2, s2, m, n
-----------------------------------------------------------------------------
\* Text: redirections

\* What handleRedirect leaves in inOut where the segment says redir.
InOutOf(redir, before) ==
  IF redir = "in" THEN 1 ELSE IF redir = "out" THEN 2 ELSE IF redir = "append" THEN 3 ELSE before

\* t is the text of one segment whose redirection is redir.
Says(t, redir) ==
  /\ t \in Seq(Char) /\ \A i \in 1 .. Len(t) : t[i] # "|"
  /\ (\E i \in 1 .. Len(t) : t[i] = "<") <=> redir = "in"
  /\ (\E i \in 1 .. Len(t) : t[i] = ">") <=> redir \in {"out", "append"}
  /\ redir = "out" => \A i, k \in 1 .. Len(t) : t[i] = ">" /\ t[k] = ">" => i = k
  /\ redir = "append" => \E p : IsFirst(t, p, ">") /\ p + 1 \in 1 .. Len(t) /\ t[p + 1] = ">"

\* A trimmed segment says what it said.
LEMMA SaysReduced ==
  ASSUME NEW t, NEW redir \in Redirs, Says(t, redir), NEW s, Reduces(t, s) PROVE Says(s, redir)
<1>1. t \in Seq(Char) /\ s \in Seq(Char) /\ Len(t) \in Nat /\ Len(s) \in Nat
  BY DEF Says, Reduces, Keeps
<1>2. "<" # Blank /\ ">" # Blank /\ "|" # Blank
  BY DEF Blank
<1>3. /\ \A i \in 1 .. Len(s) : s[i] # "|"
      /\ (\E i \in 1 .. Len(s) : s[i] = "<") <=> redir = "in"
      /\ (\E i \in 1 .. Len(s) : s[i] = ">") <=> redir \in {"out", "append"}
  <2>1. ASSUME NEW c \in {"|", "<", ">"}
        PROVE  (\A i \in 1 .. Len(t) : t[i] # c) <=> (\A i \in 1 .. Len(s) : s[i] # c)
    BY <1>1, <1>2, ReducesNone
  <2> QED  BY <2>1 DEF Says
<1>4. PICK e : Embeds(e, s, t, Len(t))
  BY DEF Reduces, Keeps
<1>5. ASSUME redir = "out", NEW i \in 1 .. Len(s), NEW k \in 1 .. Len(s), s[i] = ">", s[k] = ">"
      PROVE  i = k
  <2>1. /\ e[i] \in 1 .. Len(t) /\ e[k] \in 1 .. Len(t)
        /\ t[e[i]] = ">" /\ t[e[k]] = ">"
    BY <1>4, <1>5 DEF Embeds
  <2>2. e[i] = e[k]
    BY <1>5, <2>1 DEF Says
  <2>3. ~(i < k) /\ ~(k < i)
    BY <1>4, <2>1, <2>2 DEF Embeds
  <2> QED  BY <1>1, <2>3
<1>6. ASSUME redir = "append"
      PROVE  \E p : IsFirst(s, p, ">") /\ p + 1 \in 1 .. Len(s) /\ s[p + 1] = ">"
  <2>1. PICK p : IsFirst(t, p, ">") /\ p + 1 \in 1 .. Len(t) /\ t[p + 1] = ">"
    BY <1>6 DEF Says
  <2>2. p \in 1 .. Len(t) /\ t[p] = ">" /\ \A k \in 1 .. p - 1 : t[k] # ">"
    BY <2>1 DEF IsFirst
  <2>3. PICK i \in 1 .. Len(s) : e[i] = p
    BY <1>2, <1>4, <2>2 DEF Embeds
  <2>4. PICK k \in 1 .. Len(s) : e[k] = p + 1
    BY <1>2, <1>4, <2>1 DEF Embeds
  <2>5. s[i] = ">" /\ s[k] = ">"
    BY <1>4, <2>1, <2>2, <2>3, <2>4 DEF Embeds
  <2>6. \A a, b \in 1 .. Len(s) : a < b => e[a] < e[b]
    BY <1>4 DEF Embeds
  <2>7. \A a \in 1 .. Len(s) : e[a] \in 1 .. Len(t) /\ s[a] = t[e[a]]
    BY <1>4 DEF Embeds
  <2>8. i < k
    <3>1. ~(k < i) /\ k # i
      BY <1>1, <2>2, <2>3, <2>4, <2>6
    <3> QED  BY <1>1, <3>1
  <2>9. k = i + 1
    <3>1. i + 1 \in 1 .. Len(s) /\ i < i + 1
      BY <1>1, <2>8
    <3>2. e[i + 1] \in 1 .. Len(t) /\ e[i] < e[i + 1]
      BY <2>6, <2>7, <3>1
    <3>3. ~(i + 1 < k)
      <4>1. i + 1 < k => e[i + 1] < e[k]
        BY <2>6, <3>1
      <4> QED  BY <1>1, <2>2, <2>3, <2>4, <3>2, <4>1
    <3> QED  BY <1>1, <2>8, <3>3
  <2>10. IsFirst(s, i, ">")
    <3> SUFFICES ASSUME NEW a \in 1 .. i - 1, s[a] = ">" PROVE FALSE
      BY <2>5 DEF IsFirst
    <3>1. a \in 1 .. Len(s) /\ a < i
      BY <1>1
    <3>2. e[a] \in 1 .. Len(t) /\ e[a] < e[i] /\ t[e[a]] = ">"
      BY <2>6, <2>7, <3>1
    <3>3. e[a] \in 1 .. p - 1
      BY <2>2, <2>3, <3>2
    <3> QED  BY <2>2, <3>2, <3>3
  <2> QED  BY <2>5, <2>9, <2>10
<1> QED  BY <1>1, <1>3, <1>5, <1>6 DEF Says

\* NULL is no text.
LEMMA NoText ==
  ASSUME NEW t \in Seq(Char) PROVE t # NULL
<1>1. Len(NULL) = 1 /\ NULL[1] = Nul
  BY DEF NULL
<1>2. CASE Len(t) = 1
  <2>1. \A c \in Char : c # Nul
    BY DEF Char, Letter, Blank, Marks, Nul
  <2>2. t[1] # Nul
    BY <1>2, <2>1
  <2> QED  BY <1>1, <2>2
<1> QED  BY <1>1, <1>2

\* SearchIs, field by field.
LEMMA SearchFirst ==
  ASSUME NEW text \in Seq(Char), NEW c
  PROVE  \/ /\ \A i \in 1 .. Len(text) : text[i] # c
            /\ searchStr(text, c).head = text /\ searchStr(text, c).tail = NULL
         \/ \E at : /\ IsFirst(text, at, c)
                    /\ searchStr(text, c).head = SubSeq(text, 1, at - 1)
                    /\ searchStr(text, c).tail = SubSeq(text, at + 1, Len(text))
                    /\ searchStr(text, c).tail # NULL
<1>1. CASE /\ \A i \in 1 .. Len(text) : text[i] # c
           /\ searchStr(text, c) = [head |-> text, tail |-> NULL]
  BY <1>1
<1>2. ASSUME NEW at \in 1 .. Len(text), text[at] = c,
             \A i \in 1 .. at - 1 : text[i] # c,
             searchStr(text, c) = [head |-> SubSeq(text, 1, at - 1),
                                   tail |-> SubSeq(text, at + 1, Len(text))]
      PROVE  \E k : /\ IsFirst(text, k, c)
                    /\ searchStr(text, c).head = SubSeq(text, 1, k - 1)
                    /\ searchStr(text, c).tail = SubSeq(text, k + 1, Len(text))
                    /\ searchStr(text, c).tail # NULL
  <2>1. IsFirst(text, at, c)
    BY <1>2 DEF IsFirst
  <2>2. SubSeq(text, at + 1, Len(text)) \in Seq(Char)
    BY <1>2, SubSeqIs
  <2>3. SubSeq(text, at + 1, Len(text)) # NULL
    BY <2>2, NoText
  <2> DEFINE x == searchStr(text, c)
  <2>4. x.head = SubSeq(text, 1, at - 1) /\ x.tail = SubSeq(text, at + 1, Len(text))
    BY <1>2
  <2> HIDE DEF x
  <2> DEFINE P(k) == /\ IsFirst(text, k, c) /\ x.head = SubSeq(text, 1, k - 1)
                     /\ x.tail = SubSeq(text, k + 1, Len(text)) /\ x.tail # NULL
  <2>5. P(at)
    <3>1. x.tail # NULL
      BY <2>3, <2>4, Zenon
    <3> QED  BY <2>1, <2>4, <3>1
  <2> HIDE DEF P
  <2>6. \E k : P(k)
    BY <2>5
  <2> QED  BY <2>6 DEF P, x
<1> QED  BY <1>1, <1>2, SearchIs

\* The fields of a redirection.
LEMMA RedirectionIs ==
  ASSUME NEW line, NEW path, NEW inOut
  PROVE  Redirection(line, path, inOut).line = line /\ Redirection(line, path, inOut).inOut = inOut
  BY DEF Redirection

\* handleRedirect finds the redirection written, and cuts off the line at the first
\* mark.
LEMMA RedirectIs ==
  ASSUME NEW h, NEW redir \in Redirs, Says(h, redir), NEW before
  PROVE  /\ handleRedirect(h, before).inOut = InOutOf(redir, before)
         /\ handleRedirect(h, before).line \in Seq(Char \ Marks)
         /\ \E q \in 0 .. Len(h) : EndsAt(h, q) /\ handleRedirect(h, before).line = SubSeq(h, 1, q)
<1> DEFINE in == searchStr(h, "<")
           out == searchStr(h, ">")
           r == handleRedirect(h, before)
           Cut == \E q \in 0 .. Len(h) : EndsAt(h, q) /\ r.line = SubSeq(h, 1, q)
<1>1. h \in Seq(Char) /\ Len(h) \in Nat
  BY DEF Says
<1>2. r = IF in.tail # NULL THEN Redirection(in.head, in.tail, 1)
          ELSE IF out.tail = NULL THEN Redirection(h, NULL, before)
          ELSE IF out.tail # <<>> /\ out.tail[1] = ">"
               THEN Redirection(out.head, Tail(out.tail), 3)
               ELSE Redirection(out.head, out.tail, 2)
  BY DEF handleRedirect
<1>3. CASE redir = "in"
  <2>1. PICK at : IsFirst(h, at, "<") /\ in.head = SubSeq(h, 1, at - 1) /\ in.tail # NULL
    BY <1>1, <1>3, SearchFirst DEF Says
  <2>2. at \in 1 .. Len(h) /\ \A k \in 1 .. at - 1 : h[k] # "<" /\ h[k] # ">" /\ h[k] # "|" /\ h[k] \in Char
    BY <1>1, <1>3, <2>1 DEF IsFirst, Says
  <2>3. SubSeq(h, 1, at - 1) \in Seq(Char \ Marks)
    BY <1>1, <2>2 DEF Marks
  <2>7. at - 1 \in 0 .. Len(h) /\ EndsAt(h, at - 1)
    BY <1>1, <2>1, <2>2 DEF EndsAt, MarkAt, Marks, IsFirst
  <2> HIDE DEF in, out, r
  <2>4. r = Redirection(in.head, in.tail, 1)
    BY <1>2, <2>1
  <2>5. r.line = in.head /\ r.inOut = 1
    BY <2>4, RedirectionIs
  <2>6. InOutOf(redir, before) = 1
    BY <1>3 DEF InOutOf
  <2>8. Cut
    BY <2>1, <2>5, <2>7
  <2> QED  BY <2>1, <2>3, <2>5, <2>6, <2>8 DEF r
<1>4. CASE redir = "none"
  <2>1. in.tail = NULL /\ out.tail = NULL
    BY <1>1, <1>4, SearchFirst DEF Says, IsFirst
  <2>2. h \in Seq(Char \ Marks)
    BY <1>1, <1>4 DEF Says, Marks
  <2> HIDE DEF in, out, r
  <2>3. r = Redirection(h, NULL, before)
    BY <1>2, <2>1
  <2>4. r.line = h /\ r.inOut = before
    BY <2>3, RedirectionIs
  <2>5. InOutOf(redir, before) = before
    BY <1>4 DEF InOutOf
  <2>6. SubSeq(h, 1, Len(h)) = h /\ Len(h) \in 0 .. Len(h) /\ EndsAt(h, Len(h))
    BY <1>1 DEF EndsAt
  <2>7. Cut
    BY <2>4, <2>6
  <2> QED  BY <2>2, <2>4, <2>5, <2>7 DEF r
<1>5. CASE redir \in {"out", "append"}
  <2>1. in.tail = NULL
    BY <1>1, <1>5, SearchFirst DEF Says, IsFirst
  <2>2. PICK at : /\ IsFirst(h, at, ">") /\ out.head = SubSeq(h, 1, at - 1)
                  /\ out.tail = SubSeq(h, at + 1, Len(h)) /\ out.tail # NULL
    BY <1>1, <1>5, SearchFirst DEF Says
  <2>3. at \in 1 .. Len(h) /\ \A k \in 1 .. at - 1 : h[k] # "<" /\ h[k] # ">" /\ h[k] # "|" /\ h[k] \in Char
    BY <1>1, <1>5, <2>2 DEF IsFirst, Says
  <2>4. SubSeq(h, 1, at - 1) \in Seq(Char \ Marks)
    BY <1>1, <2>3 DEF Marks
  <2>5. Len(out.tail) = Len(h) - at /\ \A k \in 1 .. Len(h) - at : out.tail[k] = h[k + at]
    <3>1. Len(h) \in 0 .. Len(h) /\ at + 1 \in 1 .. Len(h) + 1 /\ at + 1 <= Len(h) + 1
      BY <1>1, <2>3
    <3> DEFINE tl == SubSeq(h, at + 1, Len(h))
    <3> HIDE DEF tl, out
    <3>2. Len(tl) = Len(h) - (at + 1) + 1 /\ \A k \in 1 .. Len(h) - (at + 1) + 1 : tl[k] = h[k + (at + 1) - 1]
      BY <1>1, <3>1, SubSeqIs DEF tl
    <3>3. Len(tl) = Len(h) - at /\ \A k \in 1 .. Len(h) - at : tl[k] = h[k + at]
      BY <1>1, <2>3, <3>2
    <3> QED  BY <2>2, <3>3 DEF tl
  <2>6. (out.tail # <<>> /\ out.tail[1] = ">") <=> redir = "append"
    <3>1. CASE redir = "append"
      <4>1. PICK p : IsFirst(h, p, ">") /\ p + 1 \in 1 .. Len(h) /\ h[p + 1] = ">"
        BY <3>1 DEF Says
      <4>2. p = at
        BY <1>1, <2>2, <4>1 DEF IsFirst
      <4> QED  BY <1>1, <2>3, <2>5, <3>1, <4>1, <4>2
    <3>2. CASE redir = "out"
      <4> SUFFICES ASSUME out.tail # <<>>, out.tail[1] = ">" PROVE FALSE
        BY <3>2
      <4>1. Len(out.tail) # 0
        BY <1>1, <2>2
      <4>2. at + 1 \in 1 .. Len(h) /\ h[at + 1] = ">" /\ h[at] = ">"
        BY <1>1, <2>2, <2>3, <2>5, <4>1 DEF IsFirst
      <4> QED  BY <2>3, <3>2, <4>2 DEF Says
    <3> QED  BY <1>5, <3>1, <3>2
  <2>9. at - 1 \in 0 .. Len(h) /\ EndsAt(h, at - 1)
    BY <1>1, <2>2, <2>3 DEF EndsAt, MarkAt, Marks, IsFirst
  <2> HIDE DEF in, out, r
  <2>7. CASE redir = "append"
    <3>1. r = Redirection(out.head, Tail(out.tail), 3)
      BY <1>2, <2>1, <2>2, <2>6, <2>7
    <3>2. r.line = out.head /\ r.inOut = 3
      BY <3>1, RedirectionIs
    <3>3. InOutOf(redir, before) = 3
      BY <2>7 DEF InOutOf
    <3>4. Cut
      BY <2>2, <2>9, <3>2
    <3> QED  BY <2>2, <2>4, <3>2, <3>3, <3>4 DEF r
  <2>8. CASE redir = "out"
    <3>1. r = Redirection(out.head, out.tail, 2)
      BY <1>2, <2>1, <2>2, <2>6, <2>8
    <3>2. r.line = out.head /\ r.inOut = 2
      BY <3>1, RedirectionIs
    <3>3. InOutOf(redir, before) = 2
      BY <2>8 DEF InOutOf
    <3>4. Cut
      BY <2>2, <2>9, <3>2
    <3> QED  BY <2>2, <2>4, <3>2, <3>3, <3>4 DEF r
  <2> QED  BY <1>5, <2>7, <2>8
<1> QED  BY <1>3, <1>4, <1>5 DEF Redirs
-----------------------------------------------------------------------------
\* Text: words

\* What every step keeps holds at the end.
LEMMA StaysIn ==
  ASSUME NEW X, NEW n \in Nat, NEW u, u[0] \in X,
         \A k \in 1 .. n : u[k - 1] \in X => u[k] \in X
  PROVE  u[n] \in X
<1> DEFINE S == {k \in Nat : k <= n => u[k] \in X}
<1>1. 0 \in S
  OBVIOUS
<1>2. ASSUME NEW k \in Nat, k \in S PROVE k + 1 \in S
  <2> SUFFICES ASSUME k + 1 <= n PROVE u[k + 1] \in X
    OBVIOUS
  <2>1. k + 1 \in 1 .. n /\ (k + 1) - 1 = k /\ u[k] \in X
    BY <1>2
  <2> HIDE DEF S
  <2> QED  BY <2>1
<1>3. n \in S
  <2> HIDE DEF S
  <2> QED  BY <1>1, <1>2, NatRise
<1> QED  BY <1>3

\* A sequence and one element more.
LEMMA AppendIs ==
  ASSUME NEW D, NEW q \in Seq(D), NEW r \in D
  PROVE  Append(q, r) \in Seq(D) /\ Append(q, r) # <<>>
<1>1. Append(q, r) \in Seq(D) /\ Len(Append(q, r)) = Len(q) + 1 /\ Len(q) \in Nat
  OBVIOUS
<1>2. Append(q, r) # <<>>
  <2>1. Len(<<>>) = 0
    OBVIOUS
  <2> QED  BY <1>1, <2>1
<1> QED  BY <1>1, <1>2

\* A run begun, and a run continued.
LEMMA PutIs ==
  ASSUME NEW C, NEW runs \in Seq(Seq(C)), runs # <<>>, NEW c \in C
  PROVE  /\ Append(runs, <<>>) \in Seq(Seq(C)) /\ Append(runs, <<>>) # <<>>
         /\ Append(Front(runs), Append(Last(runs), c)) \in Seq(Seq(C))
         /\ Append(Front(runs), Append(Last(runs), c)) # <<>>
<1> DEFINE D == Seq(C)
<1>1. <<>> \in D
  OBVIOUS
<1>2. Len(runs) \in Nat /\ Len(runs) # 0
  OBVIOUS
<1>3. Last(runs) \in D
  BY <1>2 DEF Last
<1>4. Append(Last(runs), c) \in D
  BY <1>3
<1>5. runs \in Seq(D)
  OBVIOUS
<1> HIDE DEF D
<1>6. Front(runs) \in Seq(D)
  BY <1>2, <1>5 DEF Front
<1>7. \A q \in Seq(D), r \in D : Append(q, r) \in Seq(D) /\ Append(q, r) # <<>>
  BY AppendIs
<1>8. /\ Append(runs, <<>>) \in Seq(D) /\ Append(runs, <<>>) # <<>>
      /\ Append(Front(runs), Append(Last(runs), c)) \in Seq(D)
      /\ Append(Front(runs), Append(Last(runs), c)) # <<>>
  BY <1>1, <1>4, <1>5, <1>6, <1>7
<1> QED  BY <1>8 DEF D

\* u[k] is what Runs has put together of k characters, none of them a delimiter.
RunsLoop(u, B, text, delimiters) ==
  /\ u[0] = <<<<>>>>
  /\ \A k \in 1 .. Len(text) :
       u[k] = IF text[k] \in delimiters THEN Append(u[k - 1], <<>>)
              ELSE Append(Front(u[k - 1]), Append(Last(u[k - 1]), text[k]))
  /\ \A k \in 0 .. Len(text) : u[k] \in Seq(Seq(B \ delimiters)) /\ u[k] # <<>>

\* The runs, a character at a time.
LEMMA RunsBy ==
  ASSUME NEW B, NEW text \in Seq(B), NEW delimiters
  PROVE  \E u : Runs(text, delimiters) = u[Len(text)] /\ RunsLoop(u, B, text, delimiters)
<1> DEFINE C == B \ delimiters
           X == {r \in Seq(Seq(C)) : r # <<>>}
           n == Len(text)
           put(runs, c) == IF c \in delimiters THEN Append(runs, <<>>)
                           ELSE Append(Front(runs), Append(Last(runs), c))
           by(u) == u = [k \in 0 .. n |-> IF k = 0 THEN <<<<>>>> ELSE put(u[k - 1], text[k])]
<1>1. Runs(text, delimiters) = (CHOOSE u : by(u))[n]
  BY Zenon DEF Runs, Fold
<1>2. n \in Nat /\ \A k \in 1 .. n : text[k] \in B
  OBVIOUS
<1>3. <<<<>>>> \in X
  <2>1. <<>> \in Seq(C)
    OBVIOUS
  <2>2. <<<<>>>> \in Seq(Seq(C)) /\ Len(<<<<>>>>) = 1 /\ Len(<<>>) = 0
    BY <2>1
  <2> QED  BY <2>2
<1>4. ASSUME NEW r \in X, NEW c \in B PROVE put(r, c) \in X
  <2>1. CASE c \in delimiters
    <3>1. Append(r, <<>>) \in Seq(Seq(C)) /\ Append(r, <<>>) # <<>>
      <4> DEFINE D == Seq(C)
      <4>1. r \in Seq(D) /\ <<>> \in D
        OBVIOUS
      <4> HIDE DEF D
      <4>2. Append(r, <<>>) \in Seq(D) /\ Append(r, <<>>) # <<>>
        BY <4>1, AppendIs
      <4> QED  BY <4>2 DEF D
    <3> QED  BY <2>1, <3>1
  <2>2. CASE c \notin delimiters
    <3>1. c \in C /\ r \in Seq(Seq(C)) /\ r # <<>>
      BY <2>2
    <3> HIDE DEF C
    <3>2. /\ Append(Front(r), Append(Last(r), c)) \in Seq(Seq(C))
          /\ Append(Front(r), Append(Last(r), c)) # <<>>
      BY <3>1, PutIs
    <3> QED  BY <2>2, <3>2
  <2> QED  BY <2>1, <2>2
<1> HIDE DEF X, put
<1>5. \E u : by(u)
  <2> DEFINE F == [x \in X |-> [c \in B |-> put(x, c)]]
             base == <<<<>>>>
  <2>1. F \in [X -> [B -> X]]
    BY <1>4
  <2>2. \A x \in X, c \in B : F[x][c] = put(x, c)
    OBVIOUS
  <2>3. base \in X
    BY <1>3
  <2> HIDE DEF F, base, n
  <2>4. PICK v : IsIterate(v, X, B, F, base, text, n)
    BY <1>2, <2>1, <2>3, Iterates
  <2>5. v = [k \in 0 .. n |-> v[k]] /\ v[0] = base
    BY <2>4 DEF IsIterate
  <2>6. \A k \in 0 .. n : v[k] = IF k = 0 THEN base ELSE put(v[k - 1], text[k])
    <3> TAKE k \in 0 .. n
    <3>1. CASE k = 0
      BY <2>5, <3>1
    <3>2. CASE k # 0
      <4>1. k \in 1 .. n /\ k - 1 \in 0 .. n
        BY <1>2, <3>2
      <4>2. v[k - 1] \in X /\ text[k] \in B /\ v[k] = F[v[k - 1]][text[k]]
        BY <1>2, <2>4, <4>1 DEF IsIterate
      <4> QED  BY <2>2, <3>2, <4>2
    <3> QED  BY <3>1, <3>2
  <2>7. by(v)
    BY <2>5, <2>6 DEF base
  <2> QED  BY <2>7
<1> DEFINE u == CHOOSE u : by(u)
<1>6. by(u)
  <2> HIDE DEF by
  <2> QED  BY <1>5
<1> HIDE DEF u
<1>7. u[0] = <<<<>>>> /\ \A k \in 1 .. n : u[k] = put(u[k - 1], text[k])
  <2> HIDE DEF n
  <2>1. \A k \in 0 .. n : u[k] = IF k = 0 THEN <<<<>>>> ELSE put(u[k - 1], text[k])
    BY <1>6
  <2> QED  BY <1>2, <2>1
<1>8. \A m \in 0 .. n : u[m] \in X
  <2> TAKE m \in 0 .. n
  <2> HIDE DEF n, by
  <2>1. u[0] \in X
    BY <1>3, <1>7
  <2>2. ASSUME NEW k \in 1 .. m, u[k - 1] \in X PROVE u[k] \in X
    <3>1. k \in 1 .. n
      BY <1>2
    <3> QED  BY <1>2, <1>4, <1>7, <2>2, <3>1
  <2> QED  BY <1>2, <2>1, <2>2, StaysIn
<1>9. \A k \in 0 .. n : u[k] \in Seq(Seq(C)) /\ u[k] # <<>>
  BY <1>8 DEF X
<1>10. Runs(text, delimiters) = u[n]
  BY <1>1 DEF u
<1>11. RunsLoop(u, B, text, delimiters)
  BY <1>7, <1>9 DEF put, RunsLoop
<1> QED  BY <1>10, <1>11

\* The runs between the delimiters hold no delimiter.
LEMMA RunsAre ==
  ASSUME NEW B, NEW text \in Seq(B), NEW delimiters
  PROVE  Runs(text, delimiters) \in Seq(Seq(B \ delimiters))
<1>1. Len(text) \in 0 .. Len(text)
  OBVIOUS
<1>2. PICK u : Runs(text, delimiters) = u[Len(text)] /\ RunsLoop(u, B, text, delimiters)
  BY RunsBy
<1> QED  BY <1>1, <1>2 DEF RunsLoop

\* u[k] are the tokens among k runs.
TokensLoop(u, B, runs, delimiters) ==
  /\ u[0] = <<>>
  /\ \A k \in 1 .. Len(runs) :
       u[k] = IF runs[k] = <<>> THEN u[k - 1] ELSE Append(u[k - 1], runs[k])
  /\ \A k \in 0 .. Len(runs) : u[k] \in Seq({w \in Seq(B \ delimiters) : w # <<>>})

\* The tokens, a run at a time: they are the runs that are not empty.
LEMMA TokensBy ==
  ASSUME NEW B, NEW text \in Seq(B), NEW delimiters, NEW runs, runs = Runs(text, delimiters)
  PROVE  \E u : Tokens(text, delimiters) = u[Len(runs)] /\ TokensLoop(u, B, runs, delimiters)
<1> DEFINE C == Seq(B \ delimiters)
           D == {w \in C : w # <<>>}
           X == Seq(D)
           n == Len(runs)
           keep(tokens, run) == IF run = <<>> THEN tokens ELSE Append(tokens, run)
           by(u) == u = [k \in 0 .. n |-> IF k = 0 THEN <<>> ELSE keep(u[k - 1], runs[k])]
<1>1. Tokens(text, delimiters) = (CHOOSE u : by(u))[n]
  BY Zenon DEF Tokens, Fold
<1>2. n \in Nat /\ \A k \in 1 .. n : runs[k] \in C
  <2>1. runs \in Seq(C)
    BY RunsAre
  <2> HIDE DEF C
  <2> QED  BY <2>1
<1>3. <<>> \in X
  OBVIOUS
<1>4. ASSUME NEW r \in X, NEW c \in C PROVE keep(r, c) \in X
  <2>1. CASE c = <<>>
    BY <2>1
  <2>2. CASE c # <<>>
    <3>1. c \in D
      BY <2>2
    <3> HIDE DEF D
    <3> QED  BY <2>2, <3>1, AppendIs
  <2> QED  BY <2>1, <2>2
<1> HIDE DEF C, X, keep
<1>5. \E u : by(u)
  <2> DEFINE F == [x \in X |-> [c \in C |-> keep(x, c)]]
             base == <<>>
  <2>1. F \in [X -> [C -> X]]
    BY <1>4
  <2>2. \A x \in X, c \in C : F[x][c] = keep(x, c)
    OBVIOUS
  <2>3. base \in X
    BY <1>3
  <2> HIDE DEF F, base, n
  <2>4. PICK v : IsIterate(v, X, C, F, base, runs, n)
    BY <1>2, <2>1, <2>3, Iterates
  <2>5. v = [k \in 0 .. n |-> v[k]] /\ v[0] = base
    BY <2>4 DEF IsIterate
  <2>6. \A k \in 0 .. n : v[k] = IF k = 0 THEN base ELSE keep(v[k - 1], runs[k])
    <3> TAKE k \in 0 .. n
    <3>1. CASE k = 0
      BY <2>5, <3>1
    <3>2. CASE k # 0
      <4>1. k \in 1 .. n /\ k - 1 \in 0 .. n
        BY <1>2, <3>2
      <4>2. v[k - 1] \in X /\ runs[k] \in C /\ v[k] = F[v[k - 1]][runs[k]]
        BY <1>2, <2>4, <4>1 DEF IsIterate
      <4> QED  BY <2>2, <3>2, <4>2
    <3> QED  BY <3>1, <3>2
  <2>7. by(v)
    BY <2>5, <2>6 DEF base
  <2> QED  BY <2>7
<1> DEFINE u == CHOOSE u : by(u)
<1>6. by(u)
  <2> HIDE DEF by
  <2> QED  BY <1>5
<1> HIDE DEF u
<1>7. u[0] = <<>> /\ \A k \in 1 .. n : u[k] = keep(u[k - 1], runs[k])
  <2> HIDE DEF n
  <2>1. \A k \in 0 .. n : u[k] = IF k = 0 THEN <<>> ELSE keep(u[k - 1], runs[k])
    BY <1>6
  <2> QED  BY <1>2, <2>1
<1>8. \A m \in 0 .. n : u[m] \in X
  <2> TAKE m \in 0 .. n
  <2> HIDE DEF n, by
  <2>1. u[0] \in X
    BY <1>3, <1>7
  <2>2. ASSUME NEW k \in 1 .. m, u[k - 1] \in X PROVE u[k] \in X
    <3>1. k \in 1 .. n
      BY <1>2
    <3> QED  BY <1>2, <1>4, <1>7, <2>2, <3>1
  <2> QED  BY <1>2, <2>1, <2>2, StaysIn
<1>9. Tokens(text, delimiters) = u[n]
  BY <1>1 DEF u
<1>10. TokensLoop(u, B, runs, delimiters)
  BY <1>7, <1>8 DEF keep, X, C, TokensLoop
<1> QED  BY <1>9, <1>10

\* The tokens are runs that are not empty.
LEMMA TokensAre ==
  ASSUME NEW B, NEW text \in Seq(B), NEW delimiters
  PROVE  Tokens(text, delimiters) \in Seq({w \in Seq(B \ delimiters) : w # <<>>})
<1>1. Runs(text, delimiters) \in Seq(Seq(B \ delimiters))
  BY RunsAre
<1>2. Len(Runs(text, delimiters)) \in 0 .. Len(Runs(text, delimiters))
  BY <1>1
<1> DEFINE runs == Runs(text, delimiters)
<1> HIDE DEF runs
<1>3. PICK u : Tokens(text, delimiters) = u[Len(runs)] /\ TokensLoop(u, B, runs, delimiters)
  BY TokensBy DEF runs
<1> QED  BY <1>2, <1>3 DEF runs, TokensLoop

\* strSplit of a line without marks gives words.
LEMMA SplitIs ==
  ASSUME NEW line \in Seq(Char \ Marks), NEW stray
  PROVE  strSplit(line, strArrCount(line, Blank), Blank, stray) \in Seq(Word)
<1> DEFINE B == Char \ Marks
           delimiters == {Blank} \cup stray
           tokens == Tokens(line, delimiters)
           W == {w \in Seq(B \ delimiters) : w # <<>>}
           count == strArrCount(line, Blank)
           m == IF count < Len(tokens) THEN count ELSE Len(tokens)
<1>1. tokens \in Seq(W)
  <2> HIDE DEF delimiters
  <2> QED  BY TokensAre
<1>2. count \in Nat
  <2> DEFINE S == {i \in DOMAIN line : line[i] = Blank}
  <2>1. IsFiniteSet(1 .. Len(line)) /\ S \subseteq 1 .. Len(line)
    BY FS_Interval
  <2> HIDE DEF S
  <2>2. IsFiniteSet(S) /\ Cardinality(S) \in Nat
    BY <2>1, FS_Subset, FS_CardinalityType
  <2> QED  BY <2>2 DEF strArrCount, S
<1>3. W \subseteq Word
  <2> SUFFICES ASSUME NEW w \in W PROVE w \in Word
    OBVIOUS
  <2>1. w \in Seq(B \ delimiters) /\ w # <<>>
    OBVIOUS
  <2>2. \A c \in B \ delimiters : c \in STRING /\ c \notin {Blank, Nul} \cup Marks
    BY DEF Char, Letter, Blank, Marks, Nul
  <2> HIDE DEF B, delimiters, W
  <2>3. w \in Seq(STRING) /\ \A i \in DOMAIN w : w[i] \in B \ delimiters
    BY <2>1, <2>2
  <2>4. ToSet(w) \cap ({Blank, Nul} \cup Marks) = {}
    BY <2>2, <2>3 DEF ToSet
  <2> QED  BY <2>1, <2>3, <2>4 DEF Word
<1> HIDE DEF W, tokens, count
<1>4. SubSeq(tokens, 1, m) \in Seq(Word)
  <2>1. Len(tokens) \in Nat /\ m \in 0 .. Len(tokens)
    BY <1>1, <1>2
  <2> HIDE DEF m
  <2>2. SubSeq(tokens, 1, m) \in Seq(W)
    BY <1>1, <2>1, SubSeqIs
  <2> QED  BY <1>3, <2>2
<1> QED  BY <1>4 DEF strSplit, FirstOf, tokens, count
-----------------------------------------------------------------------------
\* What getInput makes of a text

\* A text of one segment.
NoBar(text) == \A i \in 1 .. Len(text) : text[i] # "|"

\* A text whose first segment says redir.
HasHead(text, redir) ==
  /\ text \in Seq(Char)
  /\ \/ NoBar(text) /\ Says(text, redir)
     \/ \E p : IsFirst(text, p, "|") /\ Says(SubSeq(text, 1, p - 1), redir)

\* A '|' stays when a text is trimmed.
LEMMA ReducesFirst ==
  ASSUME NEW t \in Seq(Char), NEW s, Reduces(t, s), NEW p, IsFirst(t, p, "|")
  PROVE  \E i : IsFirst(s, i, "|")
<1>1. s \in Seq(Char) /\ Len(s) \in Nat
  BY DEF Reduces, Keeps
<1> DEFINE S == {i \in 1 .. Len(s) : s[i] = "|"}
<1>2. S # {}
  <2>1. "|" # Blank
    BY DEF Blank
  <2>2. ~ \A i \in 1 .. Len(t) : t[i] # "|"
    BY DEF IsFirst
  <2>3. ~ \A i \in 1 .. Len(s) : s[i] # "|"
    BY <2>1, <2>2, ReducesNone
  <2> QED  BY <2>3
<1>3. PICK i \in S : \A k \in S : i <= k
  <2>1. S \in SUBSET Nat
    OBVIOUS
  <2> HIDE DEF S
  <2> QED  BY <1>2, <2>1, LeastNumber
<1>4. IsFirst(s, i, "|")
  <2> SUFFICES ASSUME NEW k \in 1 .. i - 1, s[k] = "|" PROVE FALSE
    BY <1>3 DEF IsFirst
  <2>1. k \in S
    BY <1>1, <1>3
  <2> QED  BY <1>3, <2>1
<1> QED  BY <1>4

\* A trimmed text has the first segment it had.
LEMMA HeadReduced ==
  ASSUME NEW t, NEW redir \in Redirs, HasHead(t, redir), NEW s, Reduces(t, s)
  PROVE  HasHead(s, redir)
<1>1. t \in Seq(Char) /\ s \in Seq(Char)
  BY DEF HasHead, Reduces, Keeps
<1>2. "|" # Blank
  BY DEF Blank
<1>3. CASE NoBar(t) /\ Says(t, redir)
  <2>1. NoBar(s)
    BY <1>1, <1>2, <1>3, ReducesNone DEF NoBar
  <2>2. Says(s, redir)
    BY <1>3, SaysReduced
  <2> QED  BY <1>1, <2>1, <2>2 DEF HasHead
<1>4. ASSUME NEW p, IsFirst(t, p, "|"), Says(SubSeq(t, 1, p - 1), redir) PROVE HasHead(s, redir)
  <2>1. PICK i : IsFirst(s, i, "|")
    BY <1>1, <1>4, ReducesFirst
  <2>2. Reduces(SubSeq(t, 1, p - 1), SubSeq(s, 1, i - 1))
    BY <1>1, <1>2, <1>4, <2>1, ReducesCut
  <2>3. Says(SubSeq(s, 1, i - 1), redir)
    BY <1>4, <2>2, SaysReduced
  <2> QED  BY <1>1, <2>1, <2>3 DEF HasHead
<1> QED  BY <1>3, <1>4 DEF HasHead

\* The fields of what getInput returns.
LEMMA InputFields ==
  ASSUME NEW text, NEW inOut, NEW stray
  PROVE  LET cut == searchStr(strTrim(text), "|")
             redir == handleRedirect(cut.head, inOut)
             in == getInput(text, inOut, stray)
         IN  /\ in = [argv |-> in.argv, redirPath |-> in.redirPath, inOut |-> in.inOut, tail |-> in.tail]
             /\ in.argv = strSplit(redir.line, strArrCount(redir.line, Blank), Blank, stray)
             /\ in.inOut = redir.inOut
             /\ in.tail = cut.tail
  BY DEF getInput

\* There is one first place.
LEMMA FirstOnce ==
  ASSUME NEW t, NEW c, NEW p, NEW q, IsFirst(t, p, c), IsFirst(t, q, c) PROVE p = q
<1>1. p \in Int /\ q \in Int /\ p >= 1 /\ q >= 1
  BY DEF IsFirst
<1>2. ~(p < q)
  BY <1>1 DEF IsFirst
<1>3. ~(q < p)
  BY <1>1 DEF IsFirst
<1> QED  BY <1>1, <1>2, <1>3

\* searchStr where the first place is known.
LEMMA SearchAt ==
  ASSUME NEW text \in Seq(Char), NEW c, NEW at, IsFirst(text, at, c)
  PROVE  /\ searchStr(text, c).head = SubSeq(text, 1, at - 1)
         /\ searchStr(text, c).tail = SubSeq(text, at + 1, Len(text))
         /\ searchStr(text, c).tail # NULL
<1> DEFINE x == searchStr(text, c)
<1>1. ~ \A i \in 1 .. Len(text) : text[i] # c
  BY DEF IsFirst
<1>2. \E k : /\ IsFirst(text, k, c)
             /\ x.head = SubSeq(text, 1, k - 1)
             /\ x.tail = SubSeq(text, k + 1, Len(text))
             /\ x.tail # NULL
  BY <1>1, SearchFirst
<1> HIDE DEF x
<1>3. PICK k : /\ IsFirst(text, k, c)
               /\ x.head = SubSeq(text, 1, k - 1)
               /\ x.tail = SubSeq(text, k + 1, Len(text))
               /\ x.tail # NULL
  BY <1>2
<1>4. k = at
  BY <1>3, FirstOnce
<1> QED  BY <1>3, <1>4 DEF x

\* What getInput makes of a text whose first segment says redir, whatever is dropped
\* from it as a blank: words, the redirection written, and the trimmed rest.
LEMMA InputIs ==
  ASSUME NEW text, NEW redir \in Redirs, HasHead(text, redir), NEW inOut, NEW stray
  PROVE  /\ getInput(text, inOut, stray).argv \in Seq(Word)
         /\ getInput(text, inOut, stray).inOut = InOutOf(redir, inOut)
         /\ NoBar(text) => getInput(text, inOut, stray).tail = NULL
         /\ \A p : IsFirst(text, p, "|") =>
              /\ getInput(text, inOut, stray).tail # NULL
              /\ Reduces(SubSeq(text, p + 1, Len(text)), getInput(text, inOut, stray).tail)
<1> DEFINE s == strTrim(text)
           cut == searchStr(s, "|")
           red == handleRedirect(cut.head, inOut)
           in == getInput(text, inOut, stray)
<1>1. text \in Seq(Char) /\ Reduces(text, s)
  BY TrimReduces DEF HasHead
<1>2. HasHead(s, redir) /\ s \in Seq(Char)
  BY <1>1, HeadReduced DEF HasHead
<1>3. /\ in.argv = strSplit(red.line, strArrCount(red.line, Blank), Blank, stray)
      /\ in.inOut = red.inOut
      /\ in.tail = cut.tail
  BY InputFields
<1> HIDE DEF s, in
<1>4. Says(cut.head, redir)
  <2>1. CASE NoBar(s) /\ Says(s, redir)
    <3>1. cut.head = s
      BY <1>2, <2>1, SearchFirst DEF NoBar, IsFirst
    <3> QED  BY <2>1, <3>1
  <2>2. ASSUME NEW i, IsFirst(s, i, "|"), Says(SubSeq(s, 1, i - 1), redir) PROVE Says(cut.head, redir)
    <3>1. cut.head = SubSeq(s, 1, i - 1)
      BY <1>2, <2>2, SearchAt
    <3> QED  BY <2>2, <3>1
  <2> QED  BY <1>2, <2>1, <2>2 DEF HasHead
<1>5. red.inOut = InOutOf(redir, inOut) /\ red.line \in Seq(Char \ Marks)
  <2> HIDE DEF cut
  <2> QED  BY <1>4, RedirectIs
<1>6. in.argv \in Seq(Word)
  <2> HIDE DEF red
  <2> QED  BY <1>3, <1>5, SplitIs
<1>7. ASSUME NoBar(text) PROVE in.tail = NULL
  <2>1. "|" # Blank
    BY DEF Blank
  <2>2. \A i \in 1 .. Len(s) : s[i] # "|"
    BY <1>1, <1>7, <2>1, ReducesNone DEF NoBar
  <2> QED  BY <1>2, <1>3, <2>2, SearchFirst DEF IsFirst
<1>8. ASSUME NEW p, IsFirst(text, p, "|")
      PROVE  in.tail # NULL /\ Reduces(SubSeq(text, p + 1, Len(text)), in.tail)
  <2>1. PICK i : IsFirst(s, i, "|")
    BY <1>1, <1>8, ReducesFirst
  <2>2. cut.tail = SubSeq(s, i + 1, Len(s)) /\ cut.tail # NULL
    BY <1>2, <2>1, SearchAt
  <2>3. "|" # Blank
    BY DEF Blank
  <2>4. Reduces(SubSeq(text, p + 1, Len(text)), SubSeq(s, i + 1, Len(s)))
    BY <1>1, <1>8, <2>1, <2>3, ReducesCut
  <2> QED  BY <1>3, <2>2, <2>4
<1> QED  BY <1>3, <1>5, <1>6, <1>7, <1>8 DEF in
-----------------------------------------------------------------------------
\* What is typed

\* The characters that are no marks.
Plain == Char \ Marks

\* Concatenation.
LEMMA ConcatIs ==
  ASSUME NEW X, NEW q \in Seq(X), NEW r \in Seq(X)
  PROVE  /\ q \o r \in Seq(X) /\ Len(q \o r) = Len(q) + Len(r)
         /\ Len(q) \in Nat /\ Len(r) \in Nat
         /\ \A i \in 1 .. Len(q) : (q \o r)[i] = q[i]
         /\ \A i \in 1 .. Len(r) : (q \o r)[i + Len(q)] = r[i]
  OBVIOUS

\* The marks, character by character.
LEMMA MarkIs ==
  /\ MarkOf("in") = <<"<">> /\ MarkOf("out") = <<">">> /\ MarkOf("append") = <<">", ">">>
  BY Zenon DEF MarkOf

\* A letter is neither a blank nor a mark.
LEMMA PlainChars ==
  /\ Blank \in Plain
  /\ \A c \in Letter : c \in Plain
  /\ \A c \in Plain : c # "|" /\ c # "<" /\ c # ">"
  /\ \A c \in Plain : c \in Char
  /\ \A c \in Marks : c \in Char
  BY DEF Blank, Plain, Char, Letter, Marks

\* Blanks are no marks.
LEMMA BlanksAre ==
  ASSUME NEW n \in Nat PROVE Blanks(n) \in Seq(Plain)
<1>1. Blank \in Plain
  BY PlainChars
<1>2. Blanks(n) \in [1 .. n -> Plain]
  BY <1>1 DEF Blanks
<1> QED  BY <1>2

\* Without marks there is no redirection.
LEMMA PlainSays ==
  ASSUME NEW t \in Seq(Plain) PROVE Says(t, "none")
  BY DEF Plain, Says, Marks

\* Words and one mark, with anything but marks behind it.
LEMMA MarkedSays ==
  ASSUME NEW w \in Seq(Plain), NEW m, NEW redir \in Redirs, redir # "none",
         m \in Seq(Char), Len(m) >= Len(MarkOf(redir)),
         \A i \in 1 .. Len(m) : IF i <= Len(MarkOf(redir)) THEN m[i] = MarkOf(redir)[i] ELSE m[i] \in Plain
  PROVE  Says(w \o m, redir)
<1> DEFINE t == w \o m
           k == Len(w)
<1>1. w \in Seq(Char)
  BY DEF Plain
<1>2. /\ t \in Seq(Char) /\ Len(t) = k + Len(m) /\ k \in Nat /\ Len(m) \in Nat
      /\ \A i \in 1 .. k : t[i] = w[i]
      /\ \A i \in 1 .. Len(m) : t[i + k] = m[i]
  BY <1>1, ConcatIs
<1>3. \A i \in 1 .. k : t[i] # "|" /\ t[i] # "<" /\ t[i] # ">"
  BY <1>2 DEF Plain, Marks
<1>4. \A c \in Plain : c # "|" /\ c # "<" /\ c # ">"
  BY DEF Plain, Marks
<1>5. ASSUME NEW i \in 1 .. Len(t), i > k PROVE i - k \in 1 .. Len(m) /\ t[i] = m[i - k]
  <2> HIDE DEF t, k
  <2>1. i - k \in 1 .. Len(m) /\ (i - k) + k = i
    BY <1>2, <1>5
  <2> QED  BY <1>2, <2>1
<1> HIDE DEF t, k
<1>6. CASE redir = "in"
  <2>1. Len(MarkOf(redir)) = 1 /\ MarkOf(redir)[1] = "<"
    BY <1>6, MarkIs
  <2>2. t[k + 1] = "<" /\ k + 1 \in 1 .. Len(t)
    BY <1>2, <2>1
  <2>3. \A i \in 1 .. Len(t) : t[i] # "|" /\ t[i] # ">"
    <3> TAKE i \in 1 .. Len(t)
    <3>1. CASE i <= k
      BY <1>2, <1>3, <3>1
    <3>2. CASE i = k + 1
      BY <2>2, <3>2
    <3>3. CASE i > k + 1
      BY <1>2, <1>4, <1>5, <2>1, <3>3
    <3> QED  BY <1>2, <3>1, <3>2, <3>3
  <2> QED  BY <1>2, <1>6, <2>2, <2>3 DEF Says, t
<1>7. CASE redir = "out"
  <2>1. Len(MarkOf(redir)) = 1 /\ MarkOf(redir)[1] = ">"
    BY <1>7, MarkIs
  <2>2. t[k + 1] = ">" /\ k + 1 \in 1 .. Len(t)
    BY <1>2, <2>1
  <2>3. \A i \in 1 .. Len(t) : t[i] # "|" /\ t[i] # "<" /\ (t[i] = ">" => i = k + 1)
    <3> TAKE i \in 1 .. Len(t)
    <3>1. CASE i <= k
      BY <1>2, <1>3, <3>1
    <3>2. CASE i = k + 1
      BY <2>2, <3>2
    <3>3. CASE i > k + 1
      BY <1>2, <1>4, <1>5, <2>1, <3>3
    <3> QED  BY <1>2, <3>1, <3>2, <3>3
  <2> QED  BY <1>2, <1>7, <2>2, <2>3 DEF Says, t
<1>8. CASE redir = "append"
  <2>1. Len(MarkOf(redir)) = 2 /\ MarkOf(redir)[1] = ">" /\ MarkOf(redir)[2] = ">"
    BY <1>8, MarkIs
  <2>2. t[k + 1] = ">" /\ k + 1 \in 1 .. Len(t) /\ t[(k + 1) + 1] = ">" /\ (k + 1) + 1 \in 1 .. Len(t)
    <3>1. 1 \in 1 .. Len(m) /\ 2 \in 1 .. Len(m) /\ m[1] = ">" /\ m[2] = ">"
      BY <1>2, <2>1
    <3>2. t[1 + k] = ">" /\ t[2 + k] = ">"
      BY <1>2, <3>1
    <3>3. 1 + k = k + 1 /\ 2 + k = (k + 1) + 1
      BY <1>2
    <3> QED  BY <1>2, <3>1, <3>2, <3>3
  <2>3. \A i \in 1 .. Len(t) : t[i] # "|" /\ t[i] # "<"
    <3> TAKE i \in 1 .. Len(t)
    <3>1. CASE i <= k
      BY <1>2, <1>3, <3>1
    <3>2. CASE i = k + 1 \/ i = (k + 1) + 1
      BY <2>2, <3>2
    <3>3. CASE i > k + 2
      <4>1. i - k \in 1 .. Len(m) /\ t[i] = m[i - k] /\ ~(i - k <= 2)
        BY <1>2, <1>5, <3>3
      <4>2. t[i] \in Plain
        BY <2>1, <4>1
      <4> QED  BY <1>4, <4>2
    <3> QED  BY <1>2, <3>1, <3>2, <3>3
  <2>4. IsFirst(t, k + 1, ">")
    <3>1. \A i \in 1 .. (k + 1) - 1 : t[i] # ">"
      BY <1>2, <1>3
    <3> QED  BY <2>2, <3>1 DEF IsFirst
  <2> QED  BY <1>2, <1>8, <2>2, <2>3, <2>4 DEF Says, t
<1> QED  BY <1>6, <1>7, <1>8 DEF Redirs

\* The parts of a segment.
LEMMA SegmentIs ==
  ASSUME NEW seg \in Segment
  PROVE  /\ seg.words \in Seq(Letter) /\ seg.redir \in Redirs /\ seg.file \in Letter
         /\ Len(seg.words) \in Nat /\ \A k \in 1 .. Len(seg.words) : seg.words[k] \in Letter
<1>1. seg.words \in Seq(Letter) /\ seg.redir \in Redirs /\ seg.file \in Letter
  BY DEF Segment
<1> QED  BY <1>1

\* The words stand in t from a to b, each at its place f, with blanks between any two
\* and nothing else but blanks.
Spells(t, a, b, words, f) ==
  /\ f \in [1 .. Len(words) -> a .. b]
  /\ \A i, j \in 1 .. Len(words) : i < j => f[i] + 1 < f[j]
  /\ \A i \in 1 .. Len(words) : t[f[i]] = words[i]
  /\ \A k \in a .. b : t[k] = Blank \/ \E i \in 1 .. Len(words) : f[i] = k
\* The same at some places.
Spelled(t, a, b, words) == \E f : Spells(t, a, b, words, f)

\* A letter is not a blank nor a mark, and a blank is no mark.
LEMMA LetterIs ==
  /\ \A c \in Letter : c # Blank /\ c \notin Marks
  /\ Blank \notin Marks
  BY DEF Letter, Blank, Marks

\* The blank at k stands between two other characters.
Alone(t, k) == k - 1 \in 1 .. Len(t) /\ k + 1 \in 1 .. Len(t) /\ t[k - 1] # Blank /\ t[k + 1] # Blank

\* What has been typed of k words with g blanks between any two.
TypedAt(x, words, k, g, f) ==
  /\ f \in [1 .. k -> 1 .. Len(x)]
  /\ \A i, j \in 1 .. k : i < j => f[i] + 1 < f[j]
  /\ \A i \in 1 .. k : x[f[i]] = words[i]
  /\ \A c \in 1 .. Len(x) : x[c] = Blank \/ \E i \in 1 .. k : f[i] = c
  /\ k > 0 => f[k] = Len(x)
  /\ \A c \in 1 .. Len(x) : x[c] = Blank /\ g = 1 => Alone(x, c)
\* The same at some places, in a text that is empty when there are no words.
Laid(x, words, k, g) == x \in Seq(Plain) /\ (k = 0 <=> x = <<>>) /\ \E f : TypedAt(x, words, k, g, f)

\* Blanks, one by one.
LEMMA BlanksIs ==
  ASSUME NEW n \in Nat
  PROVE  /\ Blanks(n) \in Seq(Plain) /\ Len(Blanks(n)) = n /\ \A i \in 1 .. n : Blanks(n)[i] = Blank
<1>1. Blanks(n) \in Seq(Plain)
  BY BlanksAre
<1>2. Len(Blanks(n)) = n
  BY <1>1 DEF Blanks
<1> QED  BY <1>1, <1>2 DEF Blanks

\* y is x, g blanks and c.
Longer(y, x, g, c) ==
  /\ y \in Seq(Plain) /\ Len(x) \in Nat /\ Len(y) = Len(x) + g + 1
  /\ \A i \in 1 .. Len(x) : y[i] = x[i]
  /\ \A i \in Len(x) + 1 .. Len(x) + g : y[i] = Blank
  /\ y[Len(x) + g + 1] = c

\* Blanks and a character behind a text.
LEMMA BlanksThen ==
  ASSUME NEW x \in Seq(Plain), NEW g \in Nat, NEW c \in Plain
  PROVE  Longer(x \o Blanks(g) \o <<c>>, x, g, c)
<1> DEFINE b == Blanks(g)
           xb == x \o b
           d == <<c>>
           lx == Len(x)
           y == xb \o d
<1>1. b \in Seq(Plain) /\ Len(b) = g /\ \A i \in 1 .. g : b[i] = Blank
  BY BlanksIs
<1>2. d \in Seq(Plain) /\ Len(d) = 1 /\ d[1] = c
  OBVIOUS
<1> HIDE DEF b, d
<1>3. /\ xb \in Seq(Plain) /\ Len(xb) = lx + g /\ lx \in Nat
      /\ \A i \in 1 .. lx : xb[i] = x[i]
      /\ \A i \in 1 .. g : xb[i + lx] = b[i]
  <2>1. /\ xb \in Seq(Plain) /\ Len(xb) = lx + Len(b) /\ lx \in Nat
        /\ \A i \in 1 .. lx : xb[i] = x[i]
        /\ \A i \in 1 .. Len(b) : xb[i + lx] = b[i]
    <3>1. b \in Seq(Plain)
      BY <1>1
    <3> QED  BY <3>1, ConcatIs
  <2> HIDE DEF xb, lx
  <2> QED  BY <1>1, <2>1
<1> HIDE DEF xb
<1>4. /\ y \in Seq(Plain) /\ Len(y) = (lx + g) + 1
      /\ \A i \in 1 .. lx + g : y[i] = xb[i]
      /\ \A i \in 1 .. 1 : y[i + (lx + g)] = d[i]
  <2>1. /\ y \in Seq(Plain) /\ Len(y) = Len(xb) + Len(d)
        /\ \A i \in 1 .. Len(xb) : y[i] = xb[i]
        /\ \A i \in 1 .. Len(d) : y[i + Len(xb)] = d[i]
    <3>1. d \in Seq(Plain) /\ xb \in Seq(Plain)
      BY <1>2, <1>3
    <3> QED  BY <3>1, ConcatIs
  <2> HIDE DEF y, lx
  <2> QED  BY <1>2, <1>3, <2>1
<1> HIDE DEF y, lx
<1>5. \A i \in 1 .. lx : y[i] = x[i]
  BY <1>3, <1>4
<1>6. ASSUME NEW i \in lx + 1 .. lx + g PROVE y[i] = Blank
  <2>1. i \in 1 .. lx + g /\ i - lx \in 1 .. g /\ (i - lx) + lx = i
    BY <1>3
  <2>2. xb[(i - lx) + lx] = b[i - lx]
    BY <1>3, <2>1
  <2> QED  BY <1>1, <1>4, <2>1, <2>2
<1>7. y[lx + g + 1] = c
  <2>1. 1 + (lx + g) = lx + g + 1
    BY <1>3
  <2> QED  BY <1>2, <1>4, <2>1
<1> QED  BY <1>3, <1>4, <1>5, <1>6, <1>7 DEF Longer, y, xb, b, d, lx

\* The next word is typed.
LEMMA LaidNext ==
  ASSUME NEW words \in Seq(Letter), NEW k \in 1 .. Len(words), NEW g \in Nat, g >= 1,
         NEW x, Laid(x, words, k - 1, g)
  PROVE  Laid(IF x = <<>> THEN <<words[k]>> ELSE x \o Blanks(g) \o <<words[k]>>, words, k, g)
<1> DEFINE c == words[k]
           n == Len(words)
<1>1. n \in Nat /\ k \in Nat /\ k >= 1 /\ k - 1 \in Nat /\ c \in Letter /\ c # Blank /\ c \in Plain
  BY LetterIs, PlainChars
<1>2. x \in Seq(Plain) /\ (k - 1 = 0 <=> x = <<>>)
  BY DEF Laid
<1>3. PICK f : TypedAt(x, words, k - 1, g, f)
  BY DEF Laid
<1>4. CASE x = <<>>
  <2> DEFINE y == <<c>>
             h == [i \in 1 .. k |-> 1]
  <2>1. k = 1
    BY <1>1, <1>2, <1>4
  <2>2. y \in Seq(Plain) /\ Len(y) = 1 /\ y[1] = c /\ y # <<>>
    BY <1>1
  <2> HIDE DEF y, c
  <2>3. h \in [1 .. k -> 1 .. Len(y)] /\ h[1] = 1
    BY <2>1, <2>2
  <2> HIDE DEF h
  <2>4. TypedAt(y, words, k, g, h)
    BY <1>1, <2>1, <2>2, <2>3 DEF TypedAt, c
  <2>5. Laid(y, words, k, g)
    BY <1>1, <2>2, <2>4 DEF Laid
  <2> QED  BY <1>4, <2>5 DEF y, c
<1>5. CASE x # <<>>
  <2> DEFINE y == x \o Blanks(g) \o <<c>>
             lx == Len(x)
             m == lx + g + 1
             h == [i \in 1 .. k |-> IF i = k THEN m ELSE f[i]]
  <2>1. /\ y \in Seq(Plain) /\ lx \in Nat /\ Len(y) = m
        /\ \A i \in 1 .. lx : y[i] = x[i]
        /\ \A i \in lx + 1 .. lx + g : y[i] = Blank
        /\ y[m] = c
    <3>1. c \in Plain /\ x \in Seq(Plain)
      BY <1>1, <1>2
    <3> HIDE DEF c
    <3>2. Longer(y, x, g, c)
      BY <3>1, BlanksThen
    <3> HIDE DEF y
    <3> QED  BY <3>2 DEF Longer
  <2>2. k - 1 >= 1 /\ k - 1 \in 1 .. k - 1
    BY <1>1, <1>2, <1>5
  <2>3. /\ f \in [1 .. k - 1 -> 1 .. lx]
        /\ \A i, j \in 1 .. k - 1 : i < j => f[i] + 1 < f[j]
        /\ \A i \in 1 .. k - 1 : x[f[i]] = words[i]
        /\ \A q \in 1 .. lx : x[q] = Blank \/ \E i \in 1 .. k - 1 : f[i] = q
        /\ f[k - 1] = lx
        /\ \A q \in 1 .. lx : x[q] = Blank /\ g = 1 => Alone(x, q)
    BY <1>1, <1>3, <2>2 DEF TypedAt
  <2> HIDE DEF y, c, lx
  <2>m. m \in Nat /\ m > lx + 1 /\ m = lx + g + 1
    <3>1. lx \in Nat
      BY <2>1
    <3> HIDE DEF lx
    <3> QED  BY ONLY <3>1, g \in Nat, g >= 1 DEF m
  <2>f. \A i \in 1 .. k - 1 : f[i] \in Int /\ 1 <= f[i] /\ f[i] <= lx
    <3> TAKE i \in 1 .. k - 1
    <3>1. f[i] \in 1 .. lx
      BY <2>3
    <3> QED  BY <2>1, <3>1
  <2>4. /\ \A i \in 1 .. k - 1 : h[i] = f[i] /\ i \in 1 .. k
        /\ h[k] = m /\ k \in 1 .. k
        /\ \A i \in 1 .. k : i = k \/ i \in 1 .. k - 1
    BY <1>1
  <2>5. h \in [1 .. k -> 1 .. m]
    BY <1>1, <2>1, <2>m, <2>f
  <2> HIDE DEF h, m
  <2>6. ASSUME NEW i \in 1 .. k, NEW j \in 1 .. k, i < j PROVE h[i] + 1 < h[j]
    <3>1. i \in 1 .. k - 1
      BY <1>1, <2>6
    <3>2. CASE j = k
      BY <2>1, <2>m, <2>f, <2>4, <3>1, <3>2
    <3>3. CASE j # k
      BY <2>3, <2>4, <2>6, <3>1, <3>3
    <3> QED  BY <3>2, <3>3
  <2>7. ASSUME NEW i \in 1 .. k PROVE y[h[i]] = words[i]
    <3>1. CASE i = k
      BY <2>1, <2>4, <3>1 DEF c
    <3>2. CASE i # k
      <4>1. i \in 1 .. k - 1
        BY <2>4, <3>2
      <4>2. f[i] \in 1 .. lx /\ x[f[i]] = words[i] /\ h[i] = f[i]
        BY <2>3, <2>4, <4>1
      <4> QED  BY <2>1, <4>2
    <3> QED  BY <3>1, <3>2
  <2>8. ASSUME NEW q \in 1 .. m PROVE q \in 1 .. lx \/ q \in lx + 1 .. lx + g \/ q = m
    BY <2>1 DEF m
  <2>9. ASSUME NEW q \in 1 .. m PROVE y[q] = Blank \/ \E i \in 1 .. k : h[i] = q
    <3>1. CASE q \in 1 .. lx
      <4>1. x[q] = Blank \/ \E i \in 1 .. k - 1 : f[i] = q
        BY <2>3, <3>1
      <4> QED  BY <2>1, <2>4, <3>1, <4>1
    <3>2. CASE q \in lx + 1 .. lx + g
      BY <2>1, <3>2
    <3>3. CASE q = m
      BY <2>4, <3>3
    <3> QED  BY <2>8, <3>1, <3>2, <3>3
  <2>l. x[lx] # Blank /\ lx >= 1
    <3>1. x[f[k - 1]] = words[k - 1] /\ words[k - 1] \in Letter
      BY <1>1, <2>2, <2>3
    <3>2. lx >= 1
      BY <2>2, <2>3, <2>f
    <3> QED  BY <2>3, <3>1, <3>2, LetterIs
  <2>10. ASSUME NEW q \in 1 .. m, y[q] = Blank, g = 1 PROVE Alone(y, q)
    <3>1. CASE q \in 1 .. lx
      <4>1. q - 1 \in 1 .. lx /\ q + 1 \in 1 .. lx /\ x[q - 1] # Blank /\ x[q + 1] # Blank
        BY <2>1, <2>3, <2>10, <3>1 DEF Alone, lx
      <4>2. q - 1 \in 1 .. m /\ q + 1 \in 1 .. m
        BY <2>1, <2>m, <4>1
      <4> QED  BY <2>1, <4>1, <4>2 DEF Alone
    <3>2. CASE q \in lx + 1 .. lx + g
      <4>1. q = lx + 1 /\ q + 1 = m /\ q - 1 = lx
        BY <2>1, <2>10, <3>2 DEF m
      <4>2. y[q - 1] # Blank
        <5>1. lx \in 1 .. lx
          BY <2>1, <2>l
        <5> QED  BY <2>1, <2>l, <4>1, <5>1
      <4>3. y[q + 1] # Blank
        BY <1>1, <2>1, <4>1
      <4>4. q - 1 \in 1 .. m /\ q + 1 \in 1 .. m
        BY <2>1, <2>l, <4>1 DEF m
      <4> QED  BY <2>1, <4>2, <4>3, <4>4 DEF Alone
    <3>3. CASE q = m
      BY <1>1, <2>1, <2>10, <3>3
    <3> QED  BY <2>8, <3>1, <3>2, <3>3
  <2>11. TypedAt(y, words, k, g, h)
    BY <2>1, <2>4, <2>5, <2>6, <2>7, <2>9, <2>10 DEF TypedAt
  <2>12. y # <<>>
    <3>1. Len(<<>>) = 0
      OBVIOUS
    <3> QED  BY <2>1, <2>m, <3>1
  <2>13. Laid(y, words, k, g)
    BY <1>1, <2>1, <2>11, <2>12 DEF Laid
  <2> QED  BY <1>5, <2>13 DEF y, c
<1> QED  BY <1>4, <1>5

\* y is x between blanks.
Padded(y, x, n) ==
  /\ y \in Seq(Plain) /\ Len(x) \in Nat /\ Len(y) = n + Len(x) + n
  /\ \A i \in 1 .. Len(x) : y[i + n] = x[i]
  /\ \A i \in 1 .. Len(y) : i <= n \/ i > n + Len(x) => y[i] = Blank

\* Blanks in front and behind.
LEMMA BlanksAround ==
  ASSUME NEW x \in Seq(Plain), NEW n \in Nat
  PROVE  Padded(Blanks(n) \o x \o Blanks(n), x, n)
<1> DEFINE b == Blanks(n)
           bx == b \o x
           lx == Len(x)
           y == bx \o b
<1>1. b \in Seq(Plain) /\ Len(b) = n /\ \A i \in 1 .. n : b[i] = Blank
  BY BlanksIs
<1> HIDE DEF b
<1>2. /\ bx \in Seq(Plain) /\ Len(bx) = n + lx /\ lx \in Nat
      /\ \A i \in 1 .. n : bx[i] = b[i]
      /\ \A i \in 1 .. lx : bx[i + n] = x[i]
  <2>1. /\ bx \in Seq(Plain) /\ Len(bx) = Len(b) + lx /\ lx \in Nat
        /\ \A i \in 1 .. Len(b) : bx[i] = b[i]
        /\ \A i \in 1 .. lx : bx[i + Len(b)] = x[i]
    <3>1. b \in Seq(Plain)
      BY <1>1
    <3> QED  BY <3>1, ConcatIs
  <2> HIDE DEF bx, lx
  <2> QED  BY <1>1, <2>1
<1> HIDE DEF bx
<1>3. /\ y \in Seq(Plain) /\ Len(y) = (n + lx) + n
      /\ \A i \in 1 .. n + lx : y[i] = bx[i]
      /\ \A i \in 1 .. n : y[i + (n + lx)] = b[i]
  <2>1. /\ y \in Seq(Plain) /\ Len(y) = Len(bx) + Len(b)
        /\ \A i \in 1 .. Len(bx) : y[i] = bx[i]
        /\ \A i \in 1 .. Len(b) : y[i + Len(bx)] = b[i]
    <3>1. b \in Seq(Plain) /\ bx \in Seq(Plain)
      BY <1>1, <1>2
    <3> QED  BY <3>1, ConcatIs
  <2> HIDE DEF y, lx
  <2> QED  BY <1>1, <1>2, <2>1
<1> HIDE DEF y, lx
<1>4. ASSUME NEW i \in 1 .. lx PROVE y[i + n] = x[i]
  <2>1. i + n \in 1 .. n + lx
    BY <1>2
  <2> QED  BY <1>2, <1>3, <2>1
<1>5. ASSUME NEW i \in 1 .. Len(y), i <= n \/ i > n + lx PROVE y[i] = Blank
  <2>1. CASE i <= n
    <3>1. i \in 1 .. n /\ i \in 1 .. n + lx
      BY <1>2, <2>1
    <3> QED  BY <1>1, <1>2, <1>3, <3>1
  <2>2. CASE i > n + lx
    <3>1. i - (n + lx) \in 1 .. n /\ (i - (n + lx)) + (n + lx) = i
      BY <1>2, <1>3, <2>2
    <3> QED  BY <1>1, <1>3, <3>1
  <2> QED  BY <1>5, <2>1, <2>2
<1> QED  BY <1>2, <1>3, <1>4, <1>5 DEF Padded, y, bx, b, lx

\* The words of a segment as they are typed: with n blanks, at least one between two
\* words, so that with one or none no two blanks stand together but at the ends.
WordsText(w, words, n) ==
  /\ w \in Seq(Plain) /\ Spelled(w, 1, Len(w), words)
  /\ n \in {0, 1} => \A c \in 1 .. Len(w) : w[c] = Blank => c <= n \/ c > Len(w) - n \/ Alone(w, c)
  /\ n = 1 => 1 \in 1 .. Len(w) /\ w[1] = Blank

\* All words have been typed.
LEMMA LaidAround ==
  ASSUME NEW words \in Seq(Letter), NEW n \in Nat, NEW x,
         Laid(x, words, Len(words), IF n = 0 THEN 1 ELSE n)
  PROVE  WordsText(Blanks(n) \o x \o Blanks(n), words, n)
<1> DEFINE y == Blanks(n) \o x \o Blanks(n)
           g == IF n = 0 THEN 1 ELSE n
           m == Len(words)
           lx == Len(x)
<1>1. x \in Seq(Plain)
  BY DEF Laid
<1>2. /\ y \in Seq(Plain) /\ lx \in Nat /\ Len(y) = n + lx + n
      /\ \A i \in 1 .. lx : y[i + n] = x[i]
      /\ \A i \in 1 .. Len(y) : i <= n \/ i > n + lx => y[i] = Blank
  <2>1. Padded(y, x, n)
    BY <1>1, BlanksAround
  <2> HIDE DEF y
  <2> QED  BY <2>1 DEF Padded
<1>3. PICK f : TypedAt(x, words, m, g, f)
  BY DEF Laid
<1>4. /\ f \in [1 .. m -> 1 .. lx]
      /\ \A i, j \in 1 .. m : i < j => f[i] + 1 < f[j]
      /\ \A i \in 1 .. m : x[f[i]] = words[i]
      /\ \A c \in 1 .. lx : x[c] = Blank \/ \E i \in 1 .. m : f[i] = c
      /\ \A c \in 1 .. lx : x[c] = Blank /\ g = 1 => Alone(x, c)
  <2> HIDE DEF g, m
  <2> QED  BY <1>3 DEF TypedAt
<1> DEFINE ly == Len(y)
           h == [i \in 1 .. m |-> f[i] + n]
<1>5. m \in Nat
  OBVIOUS
<1> HIDE DEF y, m, g, lx
<1>6. \A i \in 1 .. m : f[i] \in Int /\ 1 <= f[i] /\ f[i] <= lx
  <2> TAKE i \in 1 .. m
  <2>1. f[i] \in 1 .. lx
    BY <1>4
  <2> QED  BY <1>2, <2>1
<1>7. h \in [1 .. m -> 1 .. ly] /\ \A i \in 1 .. m : h[i] = f[i] + n
  BY <1>2, <1>6
<1> HIDE DEF h, ly
<1>8. ASSUME NEW i \in 1 .. m, NEW j \in 1 .. m, i < j PROVE h[i] + 1 < h[j]
  <2>1. f[i] + 1 < f[j]
    BY <1>4, <1>8
  <2>2. h[i] = f[i] + n /\ h[j] = f[j] + n /\ f[i] \in Int /\ f[j] \in Int
    BY <1>6, <1>7
  <2> QED  BY ONLY <2>1, <2>2, n \in Nat
<1>9. ASSUME NEW i \in 1 .. m PROVE y[h[i]] = words[i]
  <2>1. f[i] \in 1 .. lx
    BY <1>4
  <2> QED  BY <1>2, <1>4, <1>7, <2>1
<1>10. ASSUME NEW c \in 1 .. ly PROVE \/ c <= n /\ y[c] = Blank
                                      \/ c > n + lx /\ y[c] = Blank
                                      \/ c - n \in 1 .. lx /\ y[c] = x[c - n] /\ c - n \in Int
  <2>1. c <= n \/ c > n + lx => y[c] = Blank
    BY <1>2 DEF ly
  <2>2. ~(c <= n \/ c > n + lx) => c - n \in 1 .. lx /\ (c - n) + n = c
    BY <1>2
  <2>3. c - n \in 1 .. lx /\ (c - n) + n = c => y[c] = x[c - n] /\ c - n \in Int
    BY <1>2
  <2> QED  BY <2>1, <2>2, <2>3
<1>11. ASSUME NEW c \in 1 .. ly PROVE y[c] = Blank \/ \E i \in 1 .. m : h[i] = c
  <2>1. CASE c - n \in 1 .. lx /\ y[c] = x[c - n]
    <3>1. x[c - n] = Blank \/ \E i \in 1 .. m : f[i] = c - n
      BY <1>4, <2>1
    <3>2. ASSUME NEW i \in 1 .. m, f[i] = c - n PROVE h[i] = c
      <4>1. h[i] = f[i] + n /\ c \in Int
        BY <1>7
      <4> QED  BY ONLY <3>2, <4>1, n \in Nat
    <3> QED  BY <2>1, <3>1, <3>2
  <2> QED  BY <1>10, <2>1
<1>12. Spelled(y, 1, ly, words)
  <2>1. Spells(y, 1, ly, words, h)
    BY <1>7, <1>8, <1>9, <1>11 DEF Spells, m
  <2> QED  BY <2>1 DEF Spelled
<1>13. ASSUME n \in {0, 1}, NEW c \in 1 .. ly, y[c] = Blank PROVE c <= n \/ c > ly - n \/ Alone(y, c)
  <2>1. CASE c <= n
    BY <2>1
  <2>2. CASE c > n + lx
    BY <1>2, <2>2 DEF ly
  <2>3. CASE c - n \in 1 .. lx /\ y[c] = x[c - n]
    <3>1. g = 1
      BY <1>13 DEF g
    <3> DEFINE d == c - n
    <3>2. d - 1 \in 1 .. lx /\ d + 1 \in 1 .. lx /\ x[d - 1] # Blank /\ x[d + 1] # Blank
      BY <1>4, <1>13, <2>3, <3>1 DEF Alone, lx
    <3>3. /\ (d - 1) + n = c - 1 /\ (d + 1) + n = c + 1
          /\ c - 1 \in 1 .. ly /\ c + 1 \in 1 .. ly
      BY <1>2, <3>2 DEF ly
    <3> HIDE DEF d
    <3>4. y[c - 1] # Blank /\ y[c + 1] # Blank
      BY <1>2, <3>2, <3>3
    <3> QED  BY <3>3, <3>4 DEF Alone, ly
  <2> QED  BY <1>10, <2>1, <2>2, <2>3
<1>14. n = 1 => 1 \in 1 .. ly /\ y[1] = Blank
  BY <1>2 DEF ly
<1> QED  BY <1>2, <1>12, <1>13, <1>14 DEF WordsText, y, ly

\* The words of a segment, typed.
LEMMA WordsTyped ==
  ASSUME NEW seg \in Segment, NEW n \in Nat
  PROVE  \E w : /\ WordsText(w, seg.words, n)
                /\ SegmentText(seg, n) = w \o (IF seg.redir = "none" THEN <<>>
                     ELSE MarkOf(seg.redir) \o Blanks(n) \o <<seg.file>> \o Blanks(n))
<1> DEFINE X == Seq(Plain)
           words == seg.words
           m == Len(words)
           g == IF n = 0 THEN 1 ELSE n
           between(text, word) ==
             IF text = <<>> THEN <<word>>
             ELSE text \o Blanks(g) \o <<word>>
           by(u) == u = [k \in 0 .. m |-> IF k = 0 THEN <<>> ELSE between(u[k - 1], words[k])]
           mark == IF seg.redir = "none" THEN <<>>
                   ELSE MarkOf(seg.redir) \o Blanks(n) \o <<seg.file>> \o Blanks(n)
<1>1. SegmentText(seg, n) = Blanks(n) \o (CHOOSE u : by(u))[m] \o Blanks(n) \o mark
  BY Zenon DEF SegmentText, Fold
<1>2. m \in Nat /\ \A k \in 1 .. m : words[k] \in Letter
  BY SegmentIs
<1>3. <<>> \in X
  OBVIOUS
<1>4. ASSUME NEW r \in X, NEW c \in Letter PROVE between(r, c) \in X
  <2> DEFINE b == Blanks(IF n = 0 THEN 1 ELSE n)
  <2>1. b \in X
    BY BlanksAre
  <2>2. c \in Plain
    BY PlainChars
  <2>3. <<c>> \in X
    <3> HIDE DEF b
    <3> QED  BY <2>2
  <2> HIDE DEF b, X
  <2>4. r \o b \o <<c>> \in X
    BY <2>1, <2>3, ConcatIs DEF X
  <2> QED  BY <2>3, <2>4 DEF b
<1> HIDE DEF X, between, words, mark
<1>5. \E u : by(u)
  <2> DEFINE F == [x \in X |-> [c \in Letter |-> between(x, c)]]
             base == <<>>
  <2>1. F \in [X -> [Letter -> X]]
    BY <1>4
  <2>2. \A x \in X, c \in Letter : F[x][c] = between(x, c)
    OBVIOUS
  <2>3. base \in X
    BY <1>3
  <2> HIDE DEF F, base, m
  <2>4. PICK v : IsIterate(v, X, Letter, F, base, words, m)
    BY <1>2, <2>1, <2>3, Iterates
  <2>5. v = [k \in 0 .. m |-> v[k]] /\ v[0] = base
    BY <2>4 DEF IsIterate
  <2>6. \A k \in 0 .. m : v[k] = IF k = 0 THEN base ELSE between(v[k - 1], words[k])
    <3> TAKE k \in 0 .. m
    <3>1. CASE k = 0
      BY <2>5, <3>1
    <3>2. CASE k # 0
      <4>1. k \in 1 .. m /\ k - 1 \in 0 .. m
        BY <1>2, <3>2
      <4>2. v[k - 1] \in X /\ words[k] \in Letter /\ v[k] = F[v[k - 1]][words[k]]
        BY <1>2, <2>4, <4>1 DEF IsIterate
      <4> QED  BY <2>2, <3>2, <4>2
    <3> QED  BY <3>1, <3>2
  <2>7. by(v)
    BY <2>5, <2>6 DEF base
  <2> QED  BY <2>7
<1> DEFINE u == CHOOSE u : by(u)
<1>6. by(u)
  <2> HIDE DEF by
  <2> QED  BY <1>5
<1> HIDE DEF u
<1>7. u[0] = <<>> /\ \A k \in 1 .. m : u[k] = between(u[k - 1], words[k])
  <2> HIDE DEF m
  <2>1. \A k \in 0 .. m : u[k] = IF k = 0 THEN <<>> ELSE between(u[k - 1], words[k])
    BY <1>6
  <2> QED  BY <1>2, <2>1
<1> DEFINE S == {k \in Nat : k <= m => Laid(u[k], words, k, g)}
<1>8. 0 \in S
  <2> DEFINE f == [i \in 1 .. 0 |-> 0]
             x == u[0]
  <2>1. x = <<>> /\ Len(x) = 0 /\ x \in Seq(Plain)
    BY <1>7
  <2>2. f \in [1 .. 0 -> 1 .. 0]
    OBVIOUS
  <2> HIDE DEF f, x
  <2>3. TypedAt(x, words, 0, g, f)
    BY <2>1, <2>2 DEF TypedAt
  <2> QED  BY <2>1, <2>3 DEF Laid, x
<1>g. g \in Nat /\ g >= 1
  OBVIOUS
<1>w. words \in Seq(Letter)
  BY SegmentIs DEF words
<1> HIDE DEF by, g
<1>9. ASSUME NEW k \in Nat, k \in S PROVE k + 1 \in S
  <2> SUFFICES ASSUME k + 1 <= m PROVE Laid(u[k + 1], words, k + 1, g)
    OBVIOUS
  <2> DEFINE q == k + 1
  <2>1. q \in 1 .. m /\ q - 1 = k
    BY <1>2
  <2>2. Laid(u[q - 1], words, q - 1, g)
    BY <1>2, <1>9, <2>1
  <2>3. u[q] = between(u[q - 1], words[q])
    BY <1>7, <2>1
  <2> HIDE DEF q, S
  <2>4. Laid(between(u[q - 1], words[q]), words, q, g)
    BY <1>g, <1>w, <2>1, <2>2, LaidNext DEF between, m
  <2> QED  BY <2>3, <2>4 DEF q
<1>10. m \in S
  <2> HIDE DEF S
  <2> QED  BY <1>2, <1>8, <1>9, NatRise
<1>11. Laid(u[m], words, Len(words), IF n = 0 THEN 1 ELSE n)
  BY <1>2, <1>10 DEF g, m
<1> DEFINE w == Blanks(n) \o u[m] \o Blanks(n)
<1>12. WordsText(w, words, n)
  BY <1>11, <1>w, LaidAround
<1> HIDE DEF m, S
<1>13. SegmentText(seg, n) = w \o mark
  BY <1>1 DEF u
<1> HIDE DEF w
<1> QED  BY <1>12, <1>13 DEF mark, words

\* A mark and the file behind it, typed.
LEMMA MarkTyped ==
  ASSUME NEW seg \in Segment, seg.redir # "none", NEW n \in Nat
  PROVE  LET mark == MarkOf(seg.redir)
             m == mark \o Blanks(n) \o <<seg.file>> \o Blanks(n)
         IN  /\ m \in Seq(Char) /\ Len(m) >= Len(mark)
             /\ \A i \in 1 .. Len(m) : IF i <= Len(mark) THEN m[i] = mark[i] ELSE m[i] \in Plain
<1> DEFINE mark == MarkOf(seg.redir)
           a == Blanks(n)
           b == <<seg.file>>
           rest == a \o b \o a
           m == mark \o a \o b \o a
<1>1. a \in Seq(Plain)
  BY BlanksAre
<1>2. b \in Seq(Plain)
  <2>1. seg.file \in Plain
    BY SegmentIs, PlainChars
  <2> QED  BY <2>1
<1>3. mark \in Seq(Char)
  <2>1. seg.redir \in {"in", "out", "append"}
    BY SegmentIs DEF Redirs
  <2>2. \A c \in {"<", ">"} : c \in Char
    BY PlainChars DEF Marks
  <2>3. <<"<">> \in Seq(Char) /\ <<">">> \in Seq(Char) /\ <<">", ">">> \in Seq(Char)
    BY <2>2
  <2> QED  BY <2>1, <2>3, MarkIs
<1> HIDE DEF mark, a, b
<1>4. rest \in Seq(Plain)
  BY <1>1, <1>2, ConcatIs
<1>5. a \in Seq(Char) /\ b \in Seq(Char) /\ rest \in Seq(Char)
  <2> HIDE DEF rest
  <2> QED  BY <1>1, <1>2, <1>4 DEF Plain
<1>6. m = mark \o rest
  BY <1>3, <1>5
<1> HIDE DEF m, rest
<1>7. /\ m \in Seq(Char) /\ Len(m) = Len(mark) + Len(rest)
      /\ Len(mark) \in Nat /\ Len(rest) \in Nat
      /\ \A i \in 1 .. Len(mark) : m[i] = mark[i]
      /\ \A i \in 1 .. Len(rest) : m[i + Len(mark)] = rest[i]
  BY <1>3, <1>5, <1>6, ConcatIs
<1>8. ASSUME NEW i \in 1 .. Len(m), ~(i <= Len(mark)) PROVE m[i] \in Plain
  <2>1. i - Len(mark) \in 1 .. Len(rest) /\ (i - Len(mark)) + Len(mark) = i
    BY <1>7, <1>8
  <2>2. m[i] = rest[i - Len(mark)]
    BY <1>7, <2>1
  <2> QED  BY <1>4, <2>1, <2>2
<1>9. \A i \in 1 .. Len(m) : IF i <= Len(mark) THEN m[i] = mark[i] ELSE m[i] \in Plain
  BY <1>7, <1>8
<1>10. m \in Seq(Char) /\ Len(m) >= Len(mark)
  BY <1>7
<1> QED  BY <1>9, <1>10 DEF m, mark, a, b

\* A segment typed says the redirection it is written with.
LEMMA SegmentSays ==
  ASSUME NEW seg \in Segment, NEW n \in Nat
  PROVE  Says(SegmentText(seg, n), seg.redir)
<1>1. PICK w : /\ WordsText(w, seg.words, n)
               /\ SegmentText(seg, n) = w \o (IF seg.redir = "none" THEN <<>>
                    ELSE MarkOf(seg.redir) \o Blanks(n) \o <<seg.file>> \o Blanks(n))
  BY WordsTyped
<1>w. w \in Seq(Plain)
  BY <1>1 DEF WordsText
<1>2. CASE seg.redir = "none"
  <2>1. SegmentText(seg, n) = w
    BY <1>1, <1>2
  <2> QED  BY <1>2, <1>w, <2>1, PlainSays
<1>3. CASE seg.redir # "none"
  <2> DEFINE mark == MarkOf(seg.redir)
             m == mark \o Blanks(n) \o <<seg.file>> \o Blanks(n)
  <2>1. SegmentText(seg, n) = w \o m
    BY <1>1, <1>3
  <2>2. /\ m \in Seq(Char) /\ Len(m) >= Len(mark)
        /\ \A i \in 1 .. Len(m) : IF i <= Len(mark) THEN m[i] = mark[i] ELSE m[i] \in Plain
    BY <1>3, MarkTyped
  <2>3. seg.redir \in Redirs
    BY SegmentIs
  <2> HIDE DEF m
  <2>4. Says(w \o m, seg.redir)
    BY <1>3, <1>w, <2>2, <2>3, MarkedSays
  <2> QED  BY <2>1, <2>4
<1> QED  BY <1>2, <1>3

\* Concatenation under another name, for the provers.
Join(q, r) == q \o r

\* Concatenation is associative.
LEMMA JoinAssoc ==
  ASSUME NEW a \in Seq(Char), NEW b \in Seq(Char), NEW c \in Seq(Char)
  PROVE  Join(Join(a, b), c) = Join(a, Join(b, c))
  BY DEF Join

\* Nothing concatenated.
LEMMA JoinNone ==
  ASSUME NEW q \in Seq(Char) PROVE Join(q, <<>>) = q
  BY DEF Join

\* ConcatIs of Join.
LEMMA JoinIs ==
  ASSUME NEW q \in Seq(Char), NEW r \in Seq(Char)
  PROVE  /\ Join(q, r) \in Seq(Char) /\ Len(Join(q, r)) = Len(q) + Len(r)
         /\ Len(q) \in Nat /\ Len(r) \in Nat
         /\ \A i \in 1 .. Len(q) : Join(q, r)[i] = q[i]
         /\ \A i \in 1 .. Len(r) : Join(q, r)[i + Len(q)] = r[i]
  BY ConcatIs DEF Join

\* What was joined can be cut again.
LEMMA PartsOf ==
  ASSUME NEW a \in Seq(Char), NEW b \in Seq(Char)
  PROVE  /\ SubSeq(Join(a, b), 1, Len(a)) = a
         /\ SubSeq(Join(a, b), Len(a) + 1, Len(Join(a, b))) = b
<1> DEFINE X == Char
           t == Join(a, b)
           la == Len(a)
           lb == Len(b)
<1>1. /\ t \in Seq(X) /\ Len(t) = la + lb /\ la \in Nat /\ lb \in Nat
      /\ \A i \in 1 .. la : t[i] = a[i]
      /\ \A i \in 1 .. lb : t[i + la] = b[i]
  BY JoinIs
<1> HIDE DEF t
<1> DEFINE x == SubSeq(t, 1, la)
           y == SubSeq(t, la + 1, Len(t))
<1>2. x = a
  <2>1. 1 \in 1 .. Len(t) + 1 /\ la \in 0 .. Len(t) /\ 1 <= la + 1
    BY <1>1
  <2>2. x \in Seq(X) /\ Len(x) = la - 1 + 1 /\ \A k \in 1 .. la - 1 + 1 : x[k] = t[k + 1 - 1]
    <3> HIDE DEF la
    <3> QED  BY <1>1, <2>1, SubSeqIs
  <2> HIDE DEF x
  <2>3. Len(x) = la /\ \A k \in 1 .. la : x[k] = a[k]
    BY <1>1, <2>2
  <2> QED  BY <2>2, <2>3
<1>3. y = b
  <2>1. la + 1 \in 1 .. Len(t) + 1 /\ Len(t) \in 0 .. Len(t) /\ la + 1 <= Len(t) + 1
    BY <1>1
  <2>2. /\ y \in Seq(X) /\ Len(y) = Len(t) - (la + 1) + 1
        /\ \A k \in 1 .. Len(t) - (la + 1) + 1 : y[k] = t[k + (la + 1) - 1]
    <3> HIDE DEF la
    <3> QED  BY <1>1, <2>1, SubSeqIs
  <2> HIDE DEF y
  <2>3. Len(y) = lb /\ \A k \in 1 .. lb : y[k] = t[k + la]
    BY <1>1, <2>2
  <2>4. \A k \in 1 .. lb : y[k] = b[k]
    BY <1>1, <2>3
  <2> QED  BY <2>2, <2>3, <2>4
<1> QED  BY <1>2, <1>3 DEF t, x, y

\* What may stand behind a segment: nothing, or another one.
Follows(y) == y \in Seq(Char) /\ (y = <<>> \/ (Len(y) >= 1 /\ y[1] = "|"))

\* The first '|' is the one behind the first segment.
LEMMA BarAt ==
  ASSUME NEW s \in Seq(Char), NoBar(s), NEW y \in Seq(Char), Len(y) >= 1, y[1] = "|"
  PROVE  IsFirst(Join(s, y), Len(s) + 1, "|")
<1> DEFINE t == Join(s, y)
<1>1. /\ Len(t) = Len(s) + Len(y) /\ Len(s) \in Nat /\ Len(y) \in Nat
      /\ \A i \in 1 .. Len(s) : t[i] = s[i]
      /\ \A i \in 1 .. Len(y) : t[i + Len(s)] = y[i]
  BY JoinIs
<1> HIDE DEF t
<1>2. t[Len(s) + 1] = "|" /\ Len(s) + 1 \in 1 .. Len(t)
  <2>1. t[1 + Len(s)] = y[1]
    BY <1>1
  <2> QED  BY <1>1, <2>1
<1>3. \A k \in 1 .. (Len(s) + 1) - 1 : t[k] # "|"
  BY <1>1 DEF NoBar
<1> QED  BY <1>2, <1>3 DEF IsFirst, t

\* A segment and what follows: the segment is the head.
LEMMA HeadThen ==
  ASSUME NEW s, NEW redir, Says(s, redir), NEW y, Follows(y)
  PROVE  HasHead(Join(s, y), redir)
<1>1. s \in Seq(Char) /\ y \in Seq(Char) /\ NoBar(s) /\ Len(s) \in Nat
  BY DEF Says, Follows, NoBar
<1>2. Join(s, y) \in Seq(Char)
  BY <1>1, JoinIs
<1>3. CASE y = <<>>
  <2>1. Join(s, y) = s
    BY <1>1, <1>3, JoinNone
  <2> QED  BY <1>1, <2>1 DEF HasHead
<1>4. CASE Len(y) >= 1 /\ y[1] = "|"
  <2> DEFINE p == Len(s) + 1
  <2>1. IsFirst(Join(s, y), p, "|")
    BY <1>1, <1>4, BarAt
  <2>2. SubSeq(Join(s, y), 1, p - 1) = s
    <3>1. p - 1 = Len(s)
      BY <1>1
    <3> HIDE DEF p
    <3> QED  BY <1>1, <3>1, PartsOf
  <2> HIDE DEF p
  <2>3. Says(SubSeq(Join(s, y), 1, p - 1), redir)
    BY <2>2
  <2> QED  BY <1>2, <2>1, <2>3 DEF HasHead
<1> QED  BY <1>3, <1>4 DEF Follows

\* A segment, '|' and a text: the text is what is behind the first '|'.
LEMMA TailThen ==
  ASSUME NEW s, NEW redir, Says(s, redir), NEW x \in Seq(Char)
  PROVE  LET t == Join(Join(s, <<"|">>), x)
         IN  /\ HasHead(t, redir)
             /\ \E p : IsFirst(t, p, "|") /\ SubSeq(t, p + 1, Len(t)) = x
<1> DEFINE bar == <<"|">>
           y == Join(bar, x)
<1>1. s \in Seq(Char) /\ NoBar(s) /\ Len(s) \in Nat
  BY DEF Says, NoBar
<1>2. bar \in Seq(Char) /\ Len(bar) = 1 /\ bar[1] = "|"
  <2>1. "|" \in Char
    BY PlainChars DEF Marks
  <2> QED  BY <2>1
<1> HIDE DEF bar
<1>3. y \in Seq(Char) /\ Len(y) >= 1 /\ y[1] = "|"
  <2>1. /\ y \in Seq(Char) /\ Len(y) = Len(bar) + Len(x) /\ Len(x) \in Nat
        /\ \A i \in 1 .. Len(bar) : y[i] = bar[i]
    BY <1>2, JoinIs
  <2> HIDE DEF y
  <2> QED  BY <1>2, <2>1
<1>4. Join(Join(s, bar), x) = Join(s, y)
  BY <1>1, <1>2, JoinAssoc
<1>5. HasHead(Join(s, y), redir)
  <2>1. Follows(y)
    BY <1>3 DEF Follows
  <2> HIDE DEF y
  <2> QED  BY <2>1, HeadThen
<1>6. IsFirst(Join(s, y), Len(s) + 1, "|")
  <2> HIDE DEF y
  <2> QED  BY <1>1, <1>3, BarAt
<1>7. SubSeq(Join(s, y), (Len(s) + 1) + 1, Len(Join(s, y))) = x
  <2> DEFINE a == Join(s, bar)
             k == Len(bar)
  <2>1. a \in Seq(Char) /\ Len(a) = Len(s) + k
    BY <1>1, <1>2, JoinIs
  <2>k. k = 1
    BY <1>2
  <2> HIDE DEF a, k
  <2>2. SubSeq(Join(a, x), Len(a) + 1, Len(Join(a, x))) = x
    BY <2>1, PartsOf
  <2> HIDE DEF y
  <2>3. Join(a, x) = Join(s, y)
    BY <1>4 DEF a
  <2> QED  BY <2>1, <2>k, <2>2, <2>3
<1> HIDE DEF y
<1> QED  BY <1>4, <1>5, <1>6, <1>7 DEF bar

\* A line has segments.
LEMMA SegmentsIn ==
  ASSUME NEW l \in Seq(Segment), l # <<>>
  PROVE  Len(l) \in Nat /\ Len(l) >= 1 /\ \A i \in 1 .. Len(l) : l[i] \in Segment
  OBVIOUS
\* So has one of those that are typed.
LEMMA SegmentsOf ==
  ASSUME NEW l \in Lines
  PROVE  /\ l \in Seq(Segment) /\ l # <<>> /\ Len(l) \in Nat /\ Len(l) >= 1
         /\ \A i \in 1 .. Len(l) : l[i] \in Segment
<1>1. l \in Seq(Segment) /\ l # <<>>
  BY LinesAssumption
<1> QED  BY <1>1, SegmentsIn

\* Text t is s, and behind a '|' second and what follows it.
Piped(t, s, second) == \E y : Follows(y) /\ t = Join(Join(s, <<"|">>), Join(second, y))

\* The first two segments of a line, typed.
LEMMA LineIs ==
  ASSUME NEW l \in Seq(Segment), l # <<>>, NEW n \in Nat
  PROVE  \/ Len(l) = 1 /\ LineText(l, n) = SegmentText(l[1], n)
         \/ Len(l) > 1 /\ Piped(LineText(l, n), SegmentText(l[1], n), SegmentText(l[2], n))
<1> DEFINE X == Seq(Char)
           more == Tail(l)
           m == Len(more)
           base == SegmentText(l[1], n)
           bar == <<"|">>
           behind(text, seg) == Join(Join(text, bar), SegmentText(seg, n))
           by(u) == u = [k \in 0 .. m |-> IF k = 0 THEN base ELSE behind(u[k - 1], more[k])]
<1>1. LineText(l, n) = (CHOOSE u : by(u))[m]
  BY Zenon DEF LineText, Fold, Join
<1>2. /\ m \in Nat /\ m = Len(l) - 1 /\ Len(l) \in Nat /\ l[1] \in Segment
      /\ \A k \in 1 .. m : more[k] \in Segment /\ more[k] = l[k + 1]
  BY SegmentsIn
<1>3. \A seg \in Segment : Says(SegmentText(seg, n), seg.redir) /\ SegmentText(seg, n) \in X
  BY SegmentSays DEF Says
<1>4. bar \in X /\ Len(bar) = 1 /\ bar[1] = "|"
  <2>1. "|" \in Char
    BY PlainChars DEF Marks
  <2> QED  BY <2>1
<1> HIDE DEF more, base, bar
<1>5. base \in X
  BY <1>2, <1>3 DEF base
<1>6. ASSUME NEW r \in X, NEW c \in Segment PROVE behind(r, c) \in X
  BY <1>3, <1>4, <1>6, JoinIs
<1> HIDE DEF X, behind
<1>7. \E u : by(u)
  <2> DEFINE F == [x \in X |-> [c \in Segment |-> behind(x, c)]]
  <2>1. F \in [X -> [Segment -> X]]
    BY <1>6
  <2>2. \A x \in X, c \in Segment : F[x][c] = behind(x, c)
    OBVIOUS
  <2> HIDE DEF F, m
  <2>4. PICK v : IsIterate(v, X, Segment, F, base, more, m)
    BY <1>2, <1>5, <2>1, Iterates
  <2>5. v = [k \in 0 .. m |-> v[k]] /\ v[0] = base
    BY <2>4 DEF IsIterate
  <2>6. \A k \in 0 .. m : v[k] = IF k = 0 THEN base ELSE behind(v[k - 1], more[k])
    <3> TAKE k \in 0 .. m
    <3>1. CASE k = 0
      BY <2>5, <3>1
    <3>2. CASE k # 0
      <4>1. k \in 1 .. m /\ k - 1 \in 0 .. m
        BY <1>2, <3>2
      <4>2. v[k - 1] \in X /\ more[k] \in Segment /\ v[k] = F[v[k - 1]][more[k]]
        BY <1>2, <2>4, <4>1 DEF IsIterate
      <4> QED  BY <2>2, <3>2, <4>2
    <3> QED  BY <3>1, <3>2
  <2>7. by(v)
    BY <2>5, <2>6
  <2> QED  BY <2>7
<1> DEFINE u == CHOOSE u : by(u)
<1>8. by(u)
  <2> HIDE DEF by
  <2> QED  BY <1>7
<1> HIDE DEF u
<1>9. u[0] = base /\ \A k \in 1 .. m : u[k] = behind(u[k - 1], more[k])
  <2> HIDE DEF m
  <2>1. \A k \in 0 .. m : u[k] = IF k = 0 THEN base ELSE behind(u[k - 1], more[k])
    BY <1>8
  <2> QED  BY <1>2, <2>1
<1> HIDE DEF by, m
<1>10. LineText(l, n) = u[m]
  BY <1>1 DEF u
<1>11. CASE Len(l) = 1
  <2>1. LineText(l, n) = base
    BY <1>2, <1>9, <1>10, <1>11
  <2> QED  BY <1>11, <2>1 DEF base
<1>12. CASE Len(l) > 1
  <2> DEFINE second == SegmentText(l[2], n)
             Z == {t \in X : \E y : Follows(y) /\ t = Join(Join(base, bar), Join(second, y))}
             w == [k \in 0 .. m - 1 |-> u[k + 1]]
  <2>1. l[2] \in Segment /\ second \in X /\ Says(second, l[2].redir) /\ more[1] = l[2]
    <3>1. 1 \in 1 .. m /\ 1 + 1 = 2
      BY <1>2, <1>12
    <3>2. more[1] = l[2] /\ l[2] \in Segment
      BY <1>2, <3>1
    <3> QED  BY <1>3, <3>2
  <2>2. m - 1 \in Nat /\ 0 \in 0 .. m - 1 /\ m - 1 \in 0 .. m - 1 /\ (m - 1) + 1 = m
    BY <1>2, <1>12
  <2>3. w[0] \in Z
    <3>1. w[0] = behind(base, l[2])
      <4>1. w[0] = u[1]
        BY <2>2
      <4>2. u[1] = behind(base, l[2])
        <5>1. 1 \in 1 .. m /\ 1 - 1 = 0
          BY <1>2, <1>12
        <5> QED  BY <1>9, <2>1, <5>1
      <4> QED  BY <4>1, <4>2
    <3>2. w[0] \in X
      BY <1>5, <1>6, <2>1, <3>1
    <3> HIDE DEF w, second
    <3>3. Join(second, <<>>) = second
      BY <2>1, JoinNone DEF X
    <3>4. w[0] = Join(Join(base, bar), Join(second, <<>>))
      BY <3>1, <3>3 DEF behind, second
    <3>5. Follows(<<>>)
      BY DEF Follows
    <3> QED  BY <3>2, <3>4, <3>5
  <2>4. ASSUME NEW k \in 1 .. m - 1, w[k - 1] \in Z PROVE w[k] \in Z
    <3>1. k \in Int /\ k - 1 \in 0 .. m - 1 /\ k \in 0 .. m - 1 /\ (k - 1) + 1 = k
          /\ k + 1 \in 1 .. m /\ (k + 1) - 1 = k
      BY <1>2
    <3> DEFINE c == more[k + 1]
               st == SegmentText(c, n)
    <3>2. w[k] = behind(w[k - 1], c) /\ c \in Segment
      <4>1. w[k - 1] = u[k] /\ w[k] = u[k + 1]
        BY <3>1
      <4>2. u[k + 1] = behind(u[k], c)
        BY <1>9, <3>1
      <4> QED  BY <1>2, <3>1, <4>1, <4>2
    <3> HIDE DEF w, c, second
    <3>3. w[k] \in X
      BY <1>6, <2>4, <3>2
    <3>4. PICK y : Follows(y) /\ w[k - 1] = Join(Join(base, bar), Join(second, y))
      BY <2>4
    <3>5. w[k] = Join(Join(w[k - 1], bar), st)
      BY <3>2 DEF behind
    <3>6. st \in X
      BY <1>3, <3>2
    <3>7. y \in X
      BY <3>4 DEF Follows, X
    <3> HIDE DEF st
    <3> DEFINE f == Join(base, bar)
               y2 == Join(Join(y, bar), st)
    <3>8. w[k] = Join(f, Join(second, y2))
      <4>1. f \in X /\ Join(second, y) \in X /\ Join(y, bar) \in X
        BY <1>4, <1>5, <2>1, <3>7, JoinIs DEF X
      <4> HIDE DEF f
      <4>2. w[k] = Join(Join(Join(f, Join(second, y)), bar), st)
        BY <3>4, <3>5 DEF f
      <4>3. Join(Join(f, Join(second, y)), bar) = Join(f, Join(Join(second, y), bar))
        BY <1>4, <4>1, JoinAssoc DEF X
      <4>4. Join(Join(second, y), bar) = Join(second, Join(y, bar))
        BY <1>4, <2>1, <3>7, JoinAssoc DEF X
      <4>5. Join(second, Join(y, bar)) \in X
        BY <2>1, <4>1, JoinIs DEF X
      <4>6. Join(Join(f, Join(second, Join(y, bar))), st) = Join(f, Join(Join(second, Join(y, bar)), st))
        BY <3>6, <4>1, <4>5, JoinAssoc DEF X
      <4>7. Join(Join(second, Join(y, bar)), st) = Join(second, y2)
        BY <2>1, <3>6, <4>1, JoinAssoc DEF X
      <4> QED  BY <4>2, <4>3, <4>4, <4>6, <4>7
    <3>9. Follows(y2)
      <4> DEFINE z == Join(y, bar)
      <4>1. /\ z \in X /\ Len(z) = Len(y) + 1 /\ Len(y) \in Nat
            /\ \A i \in 1 .. Len(y) : z[i] = y[i]
            /\ \A i \in 1 .. Len(bar) : z[i + Len(y)] = bar[i]
        <5>1. y \in Seq(Char) /\ bar \in Seq(Char) /\ Len(bar) = 1
          BY <1>4, <3>7 DEF X
        <5> HIDE DEF bar
        <5>2. /\ Join(y, bar) \in Seq(Char) /\ Len(Join(y, bar)) = Len(y) + Len(bar)
              /\ Len(y) \in Nat
              /\ \A i \in 1 .. Len(y) : Join(y, bar)[i] = y[i]
              /\ \A i \in 1 .. Len(bar) : Join(y, bar)[i + Len(y)] = bar[i]
          BY <5>1, JoinIs
        <5> QED  BY <5>1, <5>2 DEF X
      <4> HIDE DEF z
      <4>2. z[1] = "|"
        <5>1. CASE y = <<>>
          <6>1. z[1 + 0] = bar[1]
            BY <1>4, <4>1, <5>1
          <6> QED  BY <1>4, <6>1
        <5>2. CASE Len(y) >= 1 /\ y[1] = "|"
          BY <4>1, <5>2
        <5> QED  BY <3>4, <5>1, <5>2 DEF Follows
      <4> DEFINE x == Join(z, st)
      <4>3. /\ x \in X /\ Len(x) = Len(z) + Len(st) /\ Len(z) \in Nat /\ Len(st) \in Nat
            /\ \A i \in 1 .. Len(z) : x[i] = z[i]
        BY <3>6, <4>1, JoinIs DEF X
      <4> HIDE DEF x
      <4>4. Follows(x)
        BY <4>1, <4>2, <4>3 DEF Follows, X
      <4> QED  BY <4>4 DEF x, z
    <3> HIDE DEF y2
    <3> QED  BY <3>3, <3>8, <3>9 DEF f
  <2>5. w[m - 1] \in Z
    <3> HIDE DEF w, Z
    <3> QED  BY <2>2, <2>3, <2>4, StaysIn
  <2>6. u[m] \in Z
    <3>1. w[m - 1] = u[m]
      BY <2>2
    <3> HIDE DEF w, Z
    <3> QED  BY <2>5, <3>1
  <2> HIDE DEF second, w
  <2>7. PICK y : Follows(y) /\ u[m] = Join(Join(base, bar), Join(second, y))
    BY <2>6
  <2>8. LineText(l, n) = Join(Join(base, bar), Join(second, y))
    BY <1>10, <2>7
  <2> QED  BY <1>12, <2>7, <2>8 DEF Piped, base, bar, second
<1> QED
  <2> DEFINE k == Len(l)
  <2>1. k \in Nat /\ k >= 1
    BY SegmentsIn
  <2> HIDE DEF k
  <2>2. k = 1 \/ k > 1
    BY <2>1
  <2> QED  BY <1>11, <1>12, <2>2 DEF k

\* A line, typed.
LEMMA LineSays ==
  ASSUME NEW l \in Seq(Segment), l # <<>>, NEW n \in Nat
  PROVE  /\ HasHead(LineText(l, n), l[1].redir)
         /\ Len(l) = 1 => NoBar(LineText(l, n))
         /\ Len(l) > 1 =>
              \E p : /\ IsFirst(LineText(l, n), p, "|")
                     /\ HasHead(SubSeq(LineText(l, n), p + 1, Len(LineText(l, n))), l[2].redir)
<1> DEFINE base == SegmentText(l[1], n)
           t == LineText(l, n)
<1>1. Len(l) \in Nat /\ Len(l) >= 1 /\ \A i \in 1 .. Len(l) : l[i] \in Segment
  BY SegmentsIn
<1>2. Says(base, l[1].redir) /\ base \in Seq(Char)
  <2>1. l[1] \in Segment
    BY <1>1
  <2> QED  BY <2>1, SegmentSays DEF Says
<1>3. CASE Len(l) = 1 /\ t = base
  <2>1. NoBar(base)
    BY <1>2 DEF Says, NoBar
  <2>2. HasHead(base, l[1].redir)
    BY <1>2, <2>1 DEF HasHead
  <2> QED  BY <1>3, <2>1, <2>2
<1>4. CASE Len(l) > 1 /\ Piped(t, base, SegmentText(l[2], n))
  <2> DEFINE second == SegmentText(l[2], n)
  <2>1. l[2] \in Segment
    BY <1>1, <1>4
  <2>2. Says(second, l[2].redir)
    BY <2>1, SegmentSays
  <2> HIDE DEF second, base, t
  <2>3. PICK y : Follows(y) /\ t = Join(Join(base, <<"|">>), Join(second, y))
    BY <1>4 DEF Piped, second
  <2> DEFINE x == Join(second, y)
  <2>4. HasHead(x, l[2].redir) /\ x \in Seq(Char)
    <3>1. HasHead(x, l[2].redir)
      BY <2>2, <2>3, HeadThen
    <3> QED  BY <3>1 DEF HasHead
  <2> HIDE DEF x
  <2> DEFINE z == Join(Join(base, <<"|">>), x)
  <2>5. HasHead(z, l[1].redir) /\ \E p : IsFirst(z, p, "|") /\ SubSeq(z, p + 1, Len(z)) = x
    BY <1>2, <2>4, TailThen
  <2>6. t = z
    BY <2>3 DEF x
  <2> HIDE DEF z
  <2>7. PICK p : IsFirst(t, p, "|") /\ SubSeq(t, p + 1, Len(t)) = x
    BY <2>5, <2>6
  <2>8. IsFirst(t, p, "|") /\ HasHead(SubSeq(t, p + 1, Len(t)), l[2].redir)
    BY <2>4, <2>7
  <2>9. HasHead(t, l[1].redir)
    BY <2>5, <2>6
  <2> QED  BY <1>4, <2>8, <2>9 DEF t
<1> QED  BY <1>3, <1>4, LineIs

\* What is typed and what is behind its '|' are texts getInput may be given.
LEMMA TextIs ==
  ASSUME NEW l \in Lines, NEW n \in Gaps
  PROVE  LineText(l, n) \in Texts /\ searchStr(strTrim(LineText(l, n)), "|").tail \in Texts
<1> DEFINE Own(text) == {text, searchStr(strTrim(text), "|").tail}
           L == {LineText(x, y) : x \in Lines, y \in Gaps}
<1>1. LineText(l, n) \in L
  OBVIOUS
<1>2. Texts = {<<>>} \cup UNION {Own(text) : text \in L}
  BY DEF Texts
<1> HIDE DEF L
<1>3. LineText(l, n) \in Own(LineText(l, n)) /\ searchStr(strTrim(LineText(l, n)), "|").tail \in Own(LineText(l, n))
  OBVIOUS
<1> HIDE DEF Own
<1> QED  BY <1>1, <1>2, <1>3

\* The value looked up in Inputs is the one getInput returns.
LEMMA InputFound ==
  ASSUME NEW text \in Texts, NEW before \in 0 .. 3, NEW stray \in Strays
  PROVE  (CHOOSE i \in Inputs : i[1] = <<text, before, stray>>)[2] = getInput(text, before, stray)
<1> DEFINE D == Texts \X (0 .. 3) \X Strays
           x == <<text, before, stray>>
           In(y) == getInput(y[1], y[2], y[3])
           f == CHOOSE i \in Inputs : i[1] = x
<1>1. x \in D /\ In(x) = getInput(text, before, stray)
  OBVIOUS
<1>2. Inputs = {<<y, In(y)>> : y \in D}
  BY DEF Inputs
<1> HIDE DEF D, In, x
<1>3. <<x, In(x)>> \in Inputs
  BY <1>1, <1>2
<1>4. f \in Inputs /\ f[1] = x
  BY <1>3
<1> HIDE DEF f
<1>5. f[2] = In(x)
  BY <1>2, <1>4
<1> QED  BY <1>1, <1>5 DEF f, x
-----------------------------------------------------------------------------
\* The words that were written

\* Where words stand there is no mark.
LEMMA SpellsNoMark ==
  ASSUME NEW t, NEW a, NEW b, NEW words \in Seq(Letter), NEW f, Spells(t, a, b, words, f), NEW k \in a .. b
  PROVE  t[k] \notin Marks
<1>1. \A i \in 1 .. Len(words) : words[i] \in Letter
  OBVIOUS
<1>2. CASE t[k] = Blank
  BY <1>2, LetterIs
<1>3. CASE \E i \in 1 .. Len(words) : f[i] = k
  <2>1. PICK i \in 1 .. Len(words) : f[i] = k
    BY <1>3
  <2>2. t[k] = words[i]
    BY <2>1 DEF Spells
  <2> QED  BY <1>1, <2>1, <2>2, LetterIs
<1> QED  BY <1>2, <1>3 DEF Spells

\* Where the characters left are from, in their order.
LEMMA EmbedsOrder ==
  ASSUME NEW e, NEW s, NEW t, NEW n \in Nat, Len(s) \in Nat, Embeds(e, s, t, n)
  PROVE  /\ \A i \in 1 .. Len(s) : e[i] \in Int /\ 1 <= e[i] /\ e[i] <= n
         /\ \A i, j \in 1 .. Len(s) : i < j <=> e[i] < e[j]
<1>1. \A i \in 1 .. Len(s) : e[i] \in Int /\ 1 <= e[i] /\ e[i] <= n
  BY DEF Embeds
<1>2. \A i, j \in 1 .. Len(s) : i < j <=> e[i] < e[j]
  <2> SUFFICES ASSUME NEW i \in 1 .. Len(s), NEW j \in 1 .. Len(s) PROVE i < j <=> e[i] < e[j]
    OBVIOUS
  <2>1. (i < j => e[i] < e[j]) /\ (j < i => e[j] < e[i]) /\ (i = j => e[i] = e[j])
    BY DEF Embeds
  <2> QED  BY <1>1, <2>1
<1> QED  BY <1>1, <1>2

\* strTrim keeps words apart: of the blanks between two the last one stays, since the
\* index it writes to is not yet so far behind that a mark of another segment
\* stands behind it.
LEMMA TrimSpells ==
  ASSUME NEW t \in Seq(Char), NEW s, NEW e, Sparing(e, s, t, Len(t)),
         NEW words \in Seq(Letter), NEW a \in Nat \ {0}, NEW b \in 0 .. Len(t), NEW f, Spells(t, a, b, words, f),
         NEW c \in Nat \ {0}, NEW d \in 0 .. Len(s),
         \A i \in 1 .. Len(s) : i \in c .. d <=> e[i] \in a .. b,
         Len(words) <= 1 \/ a <= c + 2
  PROVE  Spelled(s, c, d, words)
<1> DEFINE m == Len(s)
           n == Len(words)
<1>1. s \in Seq(Char) /\ m \in Nat /\ n \in Nat /\ Len(t) \in Nat /\ \A i \in 1 .. n : words[i] \in Letter
  BY DEF Sparing
<1>0. Embeds(e, s, t, Len(t))
  BY DEF Sparing
<1>15. \A i \in 1 .. m : e[i] \in Int /\ 1 <= e[i] /\ e[i] <= Len(t)
  BY <1>0, <1>1, EmbedsOrder
<1>2. /\ e \in [1 .. m -> 1 .. Len(t)]
      /\ \A i \in 1 .. m : e[i] \in Int /\ 1 <= e[i] /\ e[i] <= Len(t)
      /\ \A i, j \in 1 .. m : i < j => e[i] < e[j]
      /\ \A i \in 1 .. m : s[i] = t[e[i]]
      /\ \A k \in 1 .. Len(t) : t[k] # Blank => \E i \in 1 .. m : e[i] = k
  BY <1>0, <1>15 DEF Embeds
<1>3. /\ f \in [1 .. n -> a .. b]
      /\ \A i \in 1 .. n : f[i] \in Int /\ a <= f[i] /\ f[i] <= b
      /\ \A i, j \in 1 .. n : i < j => f[i] + 1 < f[j]
      /\ \A i \in 1 .. n : t[f[i]] = words[i]
      /\ \A k \in a .. b : t[k] = Blank \/ \E i \in 1 .. n : f[i] = k
  BY DEF Spells
<1>4. \A i \in 1 .. n : \E k \in 1 .. m : e[k] = f[i]
  <2> TAKE i \in 1 .. n
  <2>1. f[i] \in 1 .. Len(t) /\ t[f[i]] = words[i] /\ words[i] # Blank
    BY <1>1, <1>3, LetterIs
  <2> QED  BY <1>2, <2>1
<1> DEFINE g == [i \in 1 .. n |-> CHOOSE k \in 1 .. m : e[k] = f[i]]
<1>5. \A i \in 1 .. n : g[i] \in 1 .. m /\ e[g[i]] = f[i]
  BY <1>4
<1> HIDE DEF g, m, n
<1>6. \A i \in 1 .. n : g[i] \in c .. d
  <2> TAKE i \in 1 .. n
  <2>1. e[g[i]] \in a .. b
    BY <1>3, <1>5
  <2> QED  BY <1>5, <2>1 DEF m
<1>7. \A i, j \in 1 .. m : e[i] < e[j] => i < j
  BY <1>0, <1>1, EmbedsOrder DEF m
<1>8. \A i, j \in 1 .. n : i < j => g[i] < g[j]
  <2> SUFFICES ASSUME NEW i \in 1 .. n, NEW j \in 1 .. n, i < j PROVE g[i] < g[j]
    OBVIOUS
  <2>1. f[i] \in Int /\ f[j] \in Int /\ f[i] < f[j]
    BY <1>3
  <2> QED  BY <1>5, <1>7, <2>1
<1>9. ASSUME NEW i \in 1 .. n, NEW j \in 1 .. n, i < j, g[j] = g[i] + 1 PROVE FALSE
  <2> DEFINE r == f[j] - 1
             w == g[i]
  <2>1. /\ f[i] \in a .. b /\ f[j] \in a .. b /\ f[i] + 1 < f[j] /\ n > 1
        /\ w \in 1 .. m /\ g[j] \in 1 .. m /\ e[w] = f[i] /\ e[g[j]] = f[j]
    <3>1. i \in 1 .. n /\ j \in 1 .. n /\ i < j
      BY <1>9
    <3>2. f[i] + 1 < f[j] /\ f[i] \in a .. b /\ f[j] \in a .. b
      BY <1>3, <3>1
    <3>3. n > 1
      BY <1>1, <3>1 DEF n
    <3> QED  BY <1>5, <3>1, <3>2, <3>3
  <2>2. r \in 1 .. Len(t) /\ r < Len(t) /\ e[w] < r /\ r < e[g[j]] /\ r + 1 = f[j]
    <3> DEFINE x == f[i]
               y == f[j]
               k == Len(t)
    <3>1. x \in Int /\ y \in Int /\ k \in Int /\ 1 <= x /\ y <= k /\ x + 1 < y
      <4>1. a \in Int /\ b \in Int /\ k \in Int /\ 1 <= a /\ b <= k
        BY <1>1
      <4>2. x \in a .. b /\ y \in a .. b /\ x + 1 < y
        BY <2>1
      <4> HIDE DEF x, y, k
      <4> QED  BY ONLY <4>1, <4>2
    <3>2. e[w] = x /\ e[g[j]] = y /\ r = y - 1
      BY <2>1
    <3> HIDE DEF r, w, x, y, k
    <3>3. r \in 1 .. k /\ r < k /\ x < r /\ r < y /\ r + 1 = y
      BY ONLY <3>1, <3>2
    <3> QED  BY <3>2, <3>3 DEF k, y
  <2> HIDE DEF r, w
  <2>3. \A k \in 1 .. m : k <= w => e[k] < r
    <3> TAKE k \in 1 .. m
    <3>1. CASE k = w
      BY <2>2, <3>1
    <3>2. CASE k < w
      <4>1. e[k] < e[w] /\ e[k] \in Int /\ e[w] \in Int
        BY <1>2, <2>1, <3>2
      <4> QED  BY <2>2, <4>1
    <3> QED  BY <2>1, <3>1, <3>2
  <2>4. \A k \in 1 .. m : k > w => e[k] > r
    <3> TAKE k \in 1 .. m
    <3>1. g[j] = w + 1
      BY <1>9 DEF w
    <3>2. CASE k = g[j]
      BY <2>2, <3>2
    <3>3. CASE k > g[j]
      <4>1. e[g[j]] < e[k] /\ e[k] \in Int /\ e[g[j]] \in Int
        BY <1>2, <2>1, <3>3
      <4> QED  BY <2>2, <4>1
    <3> QED  BY <2>1, <3>1, <3>2, <3>3
  <2>5. \A k \in 1 .. m : e[k] # r
    <3> TAKE k \in 1 .. m
    <3>1. e[k] \in Int /\ r \in Int
      BY <1>2, <2>2
    <3>2. k <= w \/ k > w
      BY <2>1
    <3>3. CASE k <= w
      <4>1. e[k] < r
        BY <2>3, <3>3
      <4> QED  BY <3>1, <4>1
    <3>4. CASE k > w
      <4>1. e[k] > r
        BY <2>4, <3>4
      <4> QED  BY <3>1, <4>1
    <3> QED  BY <3>2, <3>3, <3>4
  <2>6. DroppedAt(e, s, t, r)
    BY <2>1, <2>2, <2>5 DEF Sparing, m
  <2>7. PICK v \in 1 .. m :
          /\ e[v] < r /\ \A k \in 1 .. m : k > v => e[k] > r
          /\ r < Len(t) /\ t[r + 1] # Blank => s[v] \in Marks \/ MarkAt(t, v + 2)
    BY <2>6 DEF DroppedAt, m
  <2>8. v = w
    <3>1. ~ v > w
      BY <2>1, <2>2, <2>4, <2>7, <1>2
    <3>2. ~ w > v
      BY <1>2, <2>1, <2>2, <2>7
    <3> QED  BY <2>1, <3>1, <3>2
  <2>9. t[r + 1] # Blank /\ s[w] \notin Marks
    <3>1. t[r + 1] = words[j]
      BY <1>3, <2>2
    <3>2. s[w] = words[i]
      <4>1. s[w] = t[e[w]]
        BY <1>2, <2>1
      <4> QED  BY <1>3, <2>1, <4>1
    <3> QED  BY <1>1, <3>1, <3>2, LetterIs
  <2>10. MarkAt(t, w + 2)
    BY <2>2, <2>7, <2>8, <2>9
  <2>11. w + 2 \in a .. b
    <3>1. e[w] >= e[1] + w - 1
      BY <1>1, <2>1, EmbedsRise DEF Sparing, m
    <3>2. e[1] \in 1 .. Len(t)
      BY <1>1, <1>2, <2>1
    <3>3. w \in c .. d
      BY <1>6 DEF w
    <3>4. a <= c + 2
      BY <2>1 DEF n
    <3>5. e[1] \in Int /\ e[1] >= 1 /\ w \in Int /\ e[w] \in Int /\ c <= w
      BY <2>1, <3>2, <3>3
    <3>6. e[w] + 1 < f[j] /\ f[j] \in Int /\ f[j] <= b
      BY <2>1
    <3> DEFINE x == e[1]
               y == e[w]
               z == f[j]
    <3>7. y >= x + w - 1 /\ x \in Int /\ x >= 1 /\ y \in Int /\ y + 1 < z /\ z \in Int /\ z <= b
      BY <3>1, <3>5, <3>6
    <3>8. a \in Int /\ b \in Int /\ c \in Int
      BY <1>1
    <3>9. w \in Int /\ c <= w
      BY <3>5
    <3> HIDE DEF x, y, z
    <3> QED  BY ONLY <3>4, <3>7, <3>8, <3>9
  <2> QED  BY <2>10, <2>11, SpellsNoMark DEF MarkAt
<1>10. g \in [1 .. n -> c .. d]
  BY <1>6 DEF g
<1>11. \A i, j \in 1 .. n : i < j => g[i] + 1 < g[j]
  <2> SUFFICES ASSUME NEW i \in 1 .. n, NEW j \in 1 .. n, i < j PROVE g[i] + 1 < g[j]
    OBVIOUS
  <2>1. g[i] < g[j] /\ g[i] \in Int /\ g[j] \in Int
    BY <1>5, <1>8
  <2>2. g[j] # g[i] + 1
    BY <1>9
  <2> QED  BY <2>1, <2>2
<1>12. \A i \in 1 .. n : s[g[i]] = words[i]
  BY <1>2, <1>3, <1>5
<1>13. ASSUME NEW k \in c .. d PROVE s[k] = Blank \/ \E i \in 1 .. n : g[i] = k
  <2>1. k \in 1 .. m /\ e[k] \in a .. b /\ s[k] = t[e[k]]
    <3>1. k \in 1 .. m
      BY <1>1 DEF m
    <3> QED  BY <1>2, <3>1 DEF m
  <2>2. CASE t[e[k]] = Blank
    BY <2>1, <2>2
  <2>3. CASE \E i \in 1 .. n : f[i] = e[k]
    <3>1. PICK i \in 1 .. n : f[i] = e[k]
      BY <2>3
    <3>2. e[g[i]] = e[k] /\ g[i] \in 1 .. m
      BY <1>5, <3>1
    <3>3. g[i] = k
      <4>1. ~ g[i] < k /\ ~ k < g[i]
        BY <1>2, <2>1, <3>2
      <4> QED  BY <2>1, <3>2, <4>1
    <3> QED  BY <3>3
  <2> QED  BY <1>3, <2>1, <2>2, <2>3
<1>14. Spells(s, c, d, words, g)
  BY <1>10, <1>11, <1>12, <1>13 DEF Spells, n
<1> QED  BY <1>14 DEF Spelled

\* The words up to the next mark are the same ones in the trimmed text.
LEMMA TrimSpelled ==
  ASSUME NEW t \in Seq(Char), NEW s, NEW e, Sparing(e, s, t, Len(t)),
         NEW words \in Seq(Letter), NEW a \in Nat \ {0}, NEW b \in 0 .. Len(t), a <= b + 1,
         Spelled(t, a, b, words), EndsAt(t, b),
         NEW c \in 1 .. Len(s) + 1, \A i \in 1 .. Len(s) : i >= c <=> e[i] >= a,
         Len(words) <= 1 \/ a <= c + 2
  PROVE  \E d \in 0 .. Len(s) : c <= d + 1 /\ EndsAt(s, d) /\ Spelled(s, c, d, words)
<1> DEFINE m == Len(s)
<1>1. s \in Seq(Char) /\ m \in Nat /\ Len(t) \in Nat /\ Embeds(e, s, t, Len(t))
  BY DEF Sparing
<1>2. \A i \in 1 .. m : e[i] \in Int /\ 1 <= e[i] /\ e[i] <= Len(t)
  BY <1>1, EmbedsOrder
<1>3. PICK f : Spells(t, a, b, words, f)
  BY DEF Spelled
<1>4. CASE b = Len(t)
  <2>1. \A i \in 1 .. m : i \in c .. m <=> e[i] \in a .. b
    BY <1>1, <1>2, <1>4
  <2>2. m \in 0 .. m /\ c <= m + 1 /\ c \in Nat \ {0} /\ EndsAt(s, m)
    BY <1>1 DEF EndsAt
  <2>3. Spelled(s, c, m, words)
    BY <1>3, <2>1, <2>2, TrimSpells
  <2> QED  BY <2>2, <2>3
<1>5. CASE MarkAt(t, b + 1)
  <2>1. b + 1 \in 1 .. Len(t) /\ t[b + 1] \in Marks /\ t[b + 1] # Blank
    BY <1>5, LetterIs DEF MarkAt
  <2>2. PICK h \in 1 .. m : e[h] = b + 1
    BY <1>1, <2>1 DEF Embeds
  <2>3. s[h] = t[b + 1]
    BY <1>1, <2>2 DEF Embeds
  <2>4. h >= c
    BY <2>2
  <2>5. \A i \in 1 .. m : i < h <=> e[i] < e[h]
    BY <1>1, <2>2, EmbedsOrder
  <2> DEFINE d == h - 1
  <2>6. \A i \in 1 .. m : i \in c .. d <=> e[i] \in a .. b
    <3> SUFFICES ASSUME NEW i \in 1 .. m PROVE i \in c .. d <=> e[i] \in a .. b
      OBVIOUS
    <3>1. (i < h <=> e[i] < b + 1) /\ e[i] \in Int /\ (i >= c <=> e[i] >= a)
      BY <1>2, <2>2, <2>5
    <3> QED  BY <2>2, <3>1
  <2>7. d \in 0 .. m /\ c <= d + 1 /\ c \in Nat \ {0} /\ EndsAt(s, d)
    BY <1>1, <2>1, <2>2, <2>3, <2>4 DEF EndsAt, MarkAt
  <2>8. Spelled(s, c, d, words)
    <3> HIDE DEF d
    <3> QED  BY <1>3, <2>6, <2>7, TrimSpells
  <2> QED  BY <2>7, <2>8
<1> QED  BY <1>4, <1>5 DEF EndsAt

\* Words keep their places in the rest of a text.
LEMMA SpelledRest ==
  ASSUME NEW t \in Seq(Char), NEW c \in 1 .. Len(t) + 1, NEW k \in 0 .. Len(t) - c + 1, NEW words \in Seq(Letter)
  PROVE  /\ Spelled(SubSeq(t, c, Len(t)), 1, k, words) <=> Spelled(t, c, k + c - 1, words)
         /\ EndsAt(SubSeq(t, c, Len(t)), k) <=> EndsAt(t, k + c - 1)
<1> DEFINE n == Len(t)
           m == Len(words)
           r == SubSeq(t, c, n)
           b == k + c - 1
<1>1. n \in Nat /\ m \in Nat
  OBVIOUS
<1>2. /\ Len(r) = n - c + 1 /\ \A i \in 1 .. n - c + 1 : r[i] = t[i + c - 1]
  BY <1>1, SubSeqIs
<1> HIDE DEF r, n, m
<1>3. \A i \in 1 .. k : r[i] = t[i + c - 1]
  BY <1>1, <1>2 DEF n
<1>4. \A i \in c .. b : i - c + 1 \in 1 .. k /\ r[i - c + 1] = t[i]
  <2> TAKE i \in c .. b
  <2>1. i - c + 1 \in 1 .. k /\ (i - c + 1) + c - 1 = i
    BY <1>1
  <2> QED  BY <1>3, <2>1
<1>5. ASSUME NEW f, Spells(r, 1, k, words, f) PROVE Spelled(t, c, b, words)
  <2> DEFINE g == [i \in 1 .. m |-> f[i] + c - 1]
  <2>1. \A i \in 1 .. m : f[i] \in 1 .. k
    BY <1>5 DEF Spells, m
  <2>2. g \in [1 .. m -> c .. b]
    BY <1>1, <2>1
  <2>3. \A i \in 1 .. m : g[i] = f[i] + c - 1
    OBVIOUS
  <2> HIDE DEF g
  <2>4. \A i, j \in 1 .. m : i < j => g[i] + 1 < g[j]
    <3> SUFFICES ASSUME NEW i \in 1 .. m, NEW j \in 1 .. m, i < j PROVE g[i] + 1 < g[j]
      OBVIOUS
    <3>1. f[i] + 1 < f[j]
      BY <1>5 DEF Spells, m
    <3> QED  BY <2>1, <2>3, <3>1
  <2>5. \A i \in 1 .. m : t[g[i]] = words[i]
    BY <1>3, <1>5, <2>1, <2>3 DEF Spells, m
  <2>6. ASSUME NEW x \in c .. b PROVE t[x] = Blank \/ \E i \in 1 .. m : g[i] = x
    <3>1. x - c + 1 \in 1 .. k /\ r[x - c + 1] = t[x]
      BY <1>4
    <3>2. r[x - c + 1] = Blank \/ \E i \in 1 .. m : f[i] = x - c + 1
      BY <1>5, <3>1 DEF Spells, m
    <3>3. ASSUME NEW i \in 1 .. m, f[i] = x - c + 1 PROVE g[i] = x
      BY <2>3, <3>3
    <3> QED  BY <3>1, <3>2, <3>3
  <2>7. Spells(t, c, b, words, g)
    BY <2>2, <2>4, <2>5, <2>6 DEF Spells, m
  <2> QED  BY <2>7 DEF Spelled
<1>6. ASSUME NEW g, Spells(t, c, b, words, g) PROVE Spelled(r, 1, k, words)
  <2> DEFINE f == [i \in 1 .. m |-> g[i] - c + 1]
  <2>1. \A i \in 1 .. m : g[i] \in c .. b
    BY <1>6 DEF Spells, m
  <2>2. f \in [1 .. m -> 1 .. k]
    <3> SUFFICES ASSUME NEW i \in 1 .. m PROVE g[i] - c + 1 \in 1 .. k
      OBVIOUS
    <3> DEFINE x == g[i]
    <3>1. x \in c .. b
      BY <2>1
    <3> HIDE DEF x
    <3>2. x - c + 1 \in 1 .. k
      BY <1>1, <3>1
    <3> QED  BY <3>2 DEF x
  <2>3. \A i \in 1 .. m : f[i] = g[i] - c + 1
    OBVIOUS
  <2> HIDE DEF f
  <2>4. \A i, j \in 1 .. m : i < j => f[i] + 1 < f[j]
    <3> SUFFICES ASSUME NEW i \in 1 .. m, NEW j \in 1 .. m, i < j PROVE f[i] + 1 < f[j]
      OBVIOUS
    <3>1. g[i] + 1 < g[j]
      BY <1>6 DEF Spells, m
    <3> DEFINE x == g[i]
               y == g[j]
    <3>2. f[i] = x - c + 1 /\ f[j] = y - c + 1
      BY <2>3
    <3>3. x \in Int /\ y \in Int /\ x + 1 < y
      BY <2>1, <3>1
    <3>4. c \in Int
      BY <1>1
    <3> HIDE DEF x, y
    <3> QED  BY ONLY <3>2, <3>3, <3>4
  <2>5. \A i \in 1 .. m : r[f[i]] = words[i]
    BY <1>4, <1>6, <2>1, <2>3 DEF Spells, m
  <2>6. ASSUME NEW x \in 1 .. k PROVE r[x] = Blank \/ \E i \in 1 .. m : f[i] = x
    <3>1. x + c - 1 \in c .. b /\ r[x] = t[x + c - 1]
      BY <1>3
    <3>2. t[x + c - 1] = Blank \/ \E i \in 1 .. m : g[i] = x + c - 1
      BY <1>6, <3>1 DEF Spells, m
    <3>3. ASSUME NEW i \in 1 .. m, g[i] = x + c - 1 PROVE f[i] = x
      BY <2>3, <3>3
    <3> QED  BY <3>1, <3>2, <3>3
  <2>7. Spells(r, 1, k, words, f)
    BY <2>2, <2>4, <2>5, <2>6 DEF Spells, m
  <2> QED  BY <2>7 DEF Spelled
<1>7. EndsAt(r, k) <=> EndsAt(t, b)
  <2>1. k = Len(r) <=> b = n
    BY <1>1, <1>2
  <2>2. k + 1 \in 1 .. Len(r) <=> b + 1 \in 1 .. n
    BY <1>1, <1>2 DEF n
  <2>3. k + 1 \in 1 .. Len(r) => r[k + 1] = t[b + 1]
    <3>1. (k + 1) + c - 1 = b + 1
      OBVIOUS
    <3> SUFFICES ASSUME k + 1 \in 1 .. Len(r) PROVE r[k + 1] = t[b + 1]
      OBVIOUS
    <3> HIDE DEF b
    <3>2. k + 1 \in 1 .. n - c + 1
      BY <1>2
    <3> QED  BY <1>2, <3>1, <3>2
  <2> QED  BY <2>1, <2>2, <2>3 DEF EndsAt, MarkAt, n
<1> QED  BY <1>5, <1>6, <1>7 DEF Spelled, r, n

\* A text whose first segment, or whose redirected rest of one, has these words.
Begins(t, words) == \E q \in 0 .. Len(t) : EndsAt(t, q) /\ Spelled(t, 1, q, words)

\* The words of the first segment are the same ones in the trimmed text.
LEMMA TrimBegins ==
  ASSUME NEW t \in Seq(Char), NEW words \in Seq(Letter), Begins(t, words)
  PROVE  Begins(strTrim(t), words)
<1> DEFINE s == strTrim(t)
<1>1. PICK e : Sparing(e, s, t, Len(t))
  BY TrimSparing DEF Spared
<1> HIDE DEF s
<1>2. PICK q \in 0 .. Len(t) : EndsAt(t, q) /\ Spelled(t, 1, q, words)
  BY DEF Begins
<1>3. s \in Seq(Char) /\ Len(s) \in Nat /\ Len(t) \in Nat
  BY <1>1 DEF Sparing
<1>4. \A i \in 1 .. Len(s) : i >= 1 <=> e[i] >= 1
  <2>1. \A i \in 1 .. Len(s) : e[i] \in Int /\ 1 <= e[i]
    BY <1>1, <1>3, EmbedsOrder DEF Sparing
  <2> QED  BY <1>3, <2>1
<1>5. 1 \in Nat \ {0} /\ 1 <= q + 1 /\ 1 \in 1 .. Len(s) + 1 /\ 1 <= 1 + 2
  BY <1>3
<1>6. \E d \in 0 .. Len(s) : 1 <= d + 1 /\ EndsAt(s, d) /\ Spelled(s, 1, d, words)
  BY <1>1, <1>2, <1>4, <1>5, TrimSpelled
<1> QED  BY <1>6 DEF Begins, s

\* The first '|' of a trimmed text is that of the text.
LEMMA BarsMatch ==
  ASSUME NEW t \in Seq(Char), NEW s, NEW e, Sparing(e, s, t, Len(t)),
         NEW p, IsFirst(t, p, "|"), NEW h, IsFirst(s, h, "|")
  PROVE  e[h] = p
<1>1. s \in Seq(Char) /\ Len(s) \in Nat /\ Len(t) \in Nat /\ Embeds(e, s, t, Len(t))
  BY DEF Sparing
<1>2. p \in 1 .. Len(t) /\ h \in 1 .. Len(s) /\ t[p] = "|" /\ s[h] = "|" /\ "|" # Blank
  BY DEF IsFirst, Blank
<1>3. PICK i \in 1 .. Len(s) : e[i] = p
  BY <1>1, <1>2 DEF Embeds
<1>4. s[i] = "|"
  BY <1>1, <1>2, <1>3 DEF Embeds
<1>5. ~ i < h
  BY <1>2, <1>3, <1>4 DEF IsFirst
<1>6. ~ h < i
  <2> SUFFICES ASSUME h < i PROVE FALSE
    OBVIOUS
  <2>1. e[h] < p /\ e[h] \in 1 .. Len(t) /\ t[e[h]] = "|"
    BY <1>1, <1>2, <1>3 DEF Embeds
  <2>2. e[h] \in 1 .. p - 1
    BY <1>2, <2>1
  <2> QED  BY <2>1, <2>2 DEF IsFirst
<1> QED  BY <1>2, <1>3, <1>5, <1>6

\* The words of the segment behind the first '|' are, unless strTrim has moved the
\* '|' further than two characters.
LEMMA TrimRest ==
  ASSUME NEW t \in Seq(Char), NEW s, NEW e, Sparing(e, s, t, Len(t)), NEW words \in Seq(Letter),
         NEW p, IsFirst(t, p, "|"), NEW h, IsFirst(s, h, "|"),
         Begins(SubSeq(t, p + 1, Len(t)), words),
         Len(words) <= 1 \/ p <= h + 2
  PROVE  Begins(SubSeq(s, h + 1, Len(s)), words)
<1>1. s \in Seq(Char) /\ Len(s) \in Nat /\ Len(t) \in Nat /\ Embeds(e, s, t, Len(t))
  BY DEF Sparing
<1>2. p \in 1 .. Len(t) /\ h \in 1 .. Len(s) /\ t[p] = "|" /\ s[h] = "|" /\ "|" # Blank
  BY DEF IsFirst, Blank
<1>3. e[h] = p
  BY BarsMatch
<1>4. PICK q \in 0 .. Len(SubSeq(t, p + 1, Len(t))) :
        EndsAt(SubSeq(t, p + 1, Len(t)), q) /\ Spelled(SubSeq(t, p + 1, Len(t)), 1, q, words)
  BY DEF Begins
<1>5. p + 1 \in 1 .. Len(t) + 1 /\ Len(SubSeq(t, p + 1, Len(t))) = Len(t) - (p + 1) + 1
  BY <1>1, <1>2, SubSeqIs
<1>6. q \in 0 .. Len(t) - (p + 1) + 1
  BY <1>4, <1>5
<1> DEFINE b == q + (p + 1) - 1
<1>7. EndsAt(t, b) /\ Spelled(t, p + 1, b, words)
  BY <1>4, <1>5, <1>6, SpelledRest
<1>8. b \in 0 .. Len(t) /\ p + 1 <= b + 1 /\ p + 1 \in Nat \ {0} /\ h + 1 \in 1 .. Len(s) + 1
  BY <1>1, <1>2, <1>6
<1>9. \A i \in 1 .. Len(s) : i >= h + 1 <=> e[i] >= p + 1
  <2> TAKE i \in 1 .. Len(s)
  <2>1. (h < i <=> e[h] < e[i]) /\ e[i] \in Int
    BY <1>1, <1>2, EmbedsOrder
  <2> QED  BY <1>2, <1>3, <2>1
<1>10. Len(words) <= 1 \/ p + 1 <= (h + 1) + 2
  BY <1>2
<1> HIDE DEF b
<1>11. PICK d \in 0 .. Len(s) : h + 1 <= d + 1 /\ EndsAt(s, d) /\ Spelled(s, h + 1, d, words)
  BY <1>7, <1>8, <1>9, <1>10, TrimSpelled
<1> DEFINE k == d - (h + 1) + 1
<1>12. k \in 0 .. Len(s) - (h + 1) + 1 /\ k + (h + 1) - 1 = d
  BY <1>1, <1>2, <1>11
<1> HIDE DEF k
<1>13. /\ Spelled(SubSeq(s, h + 1, Len(s)), 1, k, words)
       /\ EndsAt(SubSeq(s, h + 1, Len(s)), k)
  BY <1>1, <1>8, <1>11, <1>12, SpelledRest
<1>14. k \in 0 .. Len(SubSeq(s, h + 1, Len(s)))
  <2>1. Len(SubSeq(s, h + 1, Len(s))) = Len(s) - (h + 1) + 1
    <3>1. s \in Seq(Char) /\ Len(s) \in 0 .. Len(s) /\ h + 1 <= Len(s) + 1
      BY <1>1, <1>8
    <3> QED  BY ONLY <1>8, <3>1, SubSeqIs
  <2> QED  BY <1>12, <2>1
<1> QED  BY <1>13, <1>14 DEF Begins

\* f[1] to f[a] have been reached at k.
Reached(f, n, k, a) == a \in 0 .. n /\ \A i \in 1 .. n : i <= a <=> f[i] <= k

\* Nothing is reached by the next step.
LEMMA ReachedSame ==
  ASSUME NEW n \in Nat, NEW f, \A i \in 1 .. n : f[i] \in Nat, NEW k \in Nat, NEW a, Reached(f, n, k, a),
         \A i \in 1 .. n : f[i] # k + 1
  PROVE  Reached(f, n, k + 1, a)
<1>1. a \in 0 .. n /\ \A i \in 1 .. n : i <= a <=> f[i] <= k
  BY DEF Reached
<1>2. \A i \in 1 .. n : f[i] <= k <=> f[i] <= k + 1
  OBVIOUS
<1> QED  BY <1>1, <1>2 DEF Reached

\* The next place is the one behind those reached.
LEMMA ReachedNext ==
  ASSUME NEW n \in Nat, NEW f, \A i \in 1 .. n : f[i] \in Nat,
         \A i, j \in 1 .. n : i < j => f[i] < f[j],
         NEW k \in Nat, NEW a, Reached(f, n, k, a), NEW i \in 1 .. n, f[i] = k + 1
  PROVE  i = a + 1 /\ Reached(f, n, k + 1, i)
<1>1. a \in 0 .. n /\ \A j \in 1 .. n : j <= a <=> f[j] <= k
  BY DEF Reached
<1>2. \A j \in 1 .. n : (j < i => f[j] <= k) /\ (j > i => f[j] > k + 1)
  <2> SUFFICES ASSUME NEW j \in 1 .. n PROVE (j < i => f[j] <= k) /\ (j > i => f[j] > k + 1)
    OBVIOUS
  <2>1. (j < i => f[j] < f[i]) /\ (i < j => f[i] < f[j]) /\ f[j] \in Nat
    OBVIOUS
  <2> QED  BY <2>1
<1>3. i > a
  <2>1. ~ f[i] <= k
    OBVIOUS
  <2> QED  BY <1>1, <2>1
<1>4. i = a + 1
  <2> SUFFICES ASSUME i > a + 1 PROVE FALSE
    BY <1>1, <1>3
  <2>1. a + 1 \in 1 .. n /\ a + 1 < i
    BY <1>1
  <2>2. f[a + 1] <= k
    BY <1>2, <2>1
  <2> QED  BY <1>1, <2>1, <2>2
<1>5. \A j \in 1 .. n : j <= i <=> f[j] <= k + 1
  <2> SUFFICES ASSUME NEW j \in 1 .. n PROVE j <= i <=> f[j] <= k + 1
    OBVIOUS
  <2>1. (j < i => f[j] <= k) /\ (j > i => f[j] > k + 1) /\ f[j] \in Nat
    BY <1>2
  <2> QED  BY <2>1
<1> QED  BY <1>4, <1>5 DEF Reached

\* The runs that are not empty are the first a words, at h.
RunsAt(runs, words, a, h) ==
  /\ h \in [1 .. a -> 1 .. Len(runs)]
  /\ \A i, j \in 1 .. a : i < j => h[i] < h[j]
  /\ \A i \in 1 .. a : runs[h[i]] = <<words[i]>>
  /\ \A k \in 1 .. Len(runs) : runs[k] = <<>> \/ \E i \in 1 .. a : h[i] = k
\* The same at some places.
RunsSpell(runs, words, a) == \E h : RunsAt(runs, words, a, h)

\* Before the first character.
LEMMA RunsSpellNone ==
  ASSUME NEW words PROVE RunsSpell(<<<<>>>>, words, 0)
<1>1. 1 .. 0 = {} /\ Len(<<<<>>>>) = 1
  OBVIOUS
<1>2. [i \in 1 .. 0 |-> 1] \in [1 .. 0 -> 1 .. 1]
  OBVIOUS
<1>3. \A k \in 1 .. 1 : <<<<>>>>[k] = <<>>
  OBVIOUS
<1>4. RunsAt(<<<<>>>>, words, 0, [i \in 1 .. 0 |-> 1])
  BY <1>1, <1>2, <1>3 DEF RunsAt
<1> QED  BY <1>4 DEF RunsSpell

\* A blank begins an empty run.
LEMMA RunsSpellBlank ==
  ASSUME NEW D, <<>> \in D, NEW runs \in Seq(D), NEW words, NEW a \in Nat, RunsSpell(runs, words, a)
  PROVE  RunsSpell(Append(runs, <<>>), words, a)
<1> DEFINE r == Append(runs, <<>>)
<1>1. PICK h : RunsAt(runs, words, a, h)
  BY DEF RunsSpell
<1>2. /\ Len(runs) \in Nat /\ Len(r) = Len(runs) + 1 /\ r[Len(runs) + 1] = <<>>
      /\ \A k \in 1 .. Len(runs) : r[k] = runs[k]
  OBVIOUS
<1> HIDE DEF r
<1>3. \A i \in 1 .. a : h[i] \in 1 .. Len(runs)
  BY <1>1 DEF RunsAt
<1>4. h \in [1 .. a -> 1 .. Len(r)]
  BY <1>1, <1>2 DEF RunsAt
<1>5. \A i \in 1 .. a : r[h[i]] = <<words[i]>>
  BY <1>1, <1>2, <1>3 DEF RunsAt
<1>6. ASSUME NEW k \in 1 .. Len(r) PROVE r[k] = <<>> \/ \E i \in 1 .. a : h[i] = k
  <2>1. CASE k = Len(runs) + 1
    BY <1>2, <2>1
  <2>2. CASE k # Len(runs) + 1
    <3>1. k \in 1 .. Len(runs)
      BY <1>2, <2>2
    <3> QED  BY <1>1, <1>2, <3>1 DEF RunsAt
  <2> QED  BY <2>1, <2>2
<1>7. RunsAt(r, words, a, h)
  BY <1>1, <1>4, <1>5, <1>6 DEF RunsAt
<1> QED  BY <1>7 DEF RunsSpell, r

\* A word makes the empty run at the end one of its own.
LEMMA RunsSpellWord ==
  ASSUME NEW D, NEW runs \in Seq(D), runs # <<>>, Last(runs) = <<>>, NEW words, NEW a \in Nat,
         RunsSpell(runs, words, a), <<words[a + 1]>> \in D
  PROVE  RunsSpell(Append(Front(runs), <<words[a + 1]>>), words, a + 1)
<1> DEFINE m == Len(runs)
           r == Append(Front(runs), <<words[a + 1]>>)
<1>1. PICK g : RunsAt(runs, words, a, g)
  BY DEF RunsSpell
<1>2. m \in Nat /\ m >= 1 /\ runs[m] = <<>>
  BY DEF Last
<1>3. Front(runs) \in Seq(D) /\ Len(Front(runs)) = m - 1 /\ \A k \in 1 .. m - 1 : Front(runs)[k] = runs[k]
  BY <1>2 DEF Front
<1>4. Len(r) = m /\ r[m] = <<words[a + 1]>> /\ \A k \in 1 .. m - 1 : r[k] = runs[k]
  BY <1>2, <1>3
<1> HIDE DEF r, m
<1> DEFINE h == [i \in 1 .. a + 1 |-> IF i <= a THEN g[i] ELSE m]
<1>5. \A i \in 1 .. a : g[i] \in 1 .. m - 1
  <2> TAKE i \in 1 .. a
  <2>1. g[i] \in 1 .. m /\ runs[g[i]] = <<words[i]>>
    BY <1>1 DEF RunsAt, m
  <2>2. <<words[i]>> # <<>>
    OBVIOUS
  <2>3. g[i] # m
    BY <1>2, <2>1, <2>2
  <2> QED  BY <1>2, <2>1, <2>3
<1>6. h[a + 1] = m /\ \A i \in 1 .. a : h[i] = g[i]
  OBVIOUS
<1>7. h \in [1 .. a + 1 -> 1 .. m]
  BY <1>2, <1>5
<1> HIDE DEF h
<1>8. \A i, j \in 1 .. a + 1 : i < j => h[i] < h[j]
  <2> SUFFICES ASSUME NEW i \in 1 .. a + 1, NEW j \in 1 .. a + 1, i < j PROVE h[i] < h[j]
    OBVIOUS
  <2>1. i \in 1 .. a /\ h[i] = g[i] /\ g[i] \in 1 .. m - 1
    BY <1>5, <1>6
  <2>2. CASE j = a + 1
    BY <1>2, <1>6, <2>1, <2>2
  <2>3. CASE j # a + 1
    <3>1. j \in 1 .. a
      BY <2>3
    <3>2. g[i] < g[j]
      BY <1>1, <2>1, <3>1 DEF RunsAt
    <3> QED  BY <1>6, <2>1, <3>1, <3>2
  <2> QED  BY <2>2, <2>3
<1>9. ASSUME NEW i \in 1 .. a + 1 PROVE r[h[i]] = <<words[i]>>
  <2>1. CASE i = a + 1
    BY <1>4, <1>6, <2>1
  <2>2. CASE i # a + 1
    <3>1. i \in 1 .. a
      BY <2>2
    <3>2. runs[g[i]] = <<words[i]>>
      BY <1>1, <3>1 DEF RunsAt
    <3> QED  BY <1>4, <1>5, <1>6, <3>1, <3>2
  <2> QED  BY <2>1, <2>2
<1>10. ASSUME NEW k \in 1 .. m PROVE r[k] = <<>> \/ \E i \in 1 .. a + 1 : h[i] = k
  <2>1. CASE k = m
    BY <1>6, <2>1
  <2>2. CASE k # m
    <3>1. k \in 1 .. m - 1 /\ k \in 1 .. Len(runs)
      BY <1>2, <2>2 DEF m
    <3>2. runs[k] = <<>> \/ \E i \in 1 .. a : g[i] = k
      BY <1>1, <3>1 DEF RunsAt
    <3>3. ASSUME NEW i \in 1 .. a, g[i] = k PROVE \E j \in 1 .. a + 1 : h[j] = k
      BY <1>6, <3>3
    <3> QED  BY <1>4, <3>1, <3>2, <3>3
  <2> QED  BY <2>1, <2>2
<1>11. RunsAt(r, words, a + 1, h)
  BY <1>4, <1>7, <1>8, <1>9, <1>10 DEF RunsAt
<1> QED  BY <1>11 DEF RunsSpell, r

\* The runs found up to k are the words up to k, and the last one is not added to.
RunsReach(f, words, k, runs) ==
  \E a : /\ Reached(f, Len(words), k, a) /\ RunsSpell(runs, words, a)
         /\ Last(runs) = <<>> \/ (a >= 1 /\ f[a] = k)

\* A blank begins a new run.
LEMMA RunsReachBlank ==
  ASSUME NEW D, <<>> \in D, NEW runs \in Seq(D), NEW words \in Seq(Letter), NEW f,
         \A i \in 1 .. Len(words) : f[i] \in Nat, NEW k \in Nat,
         \A i \in 1 .. Len(words) : f[i] # k + 1, RunsReach(f, words, k, runs)
  PROVE  RunsReach(f, words, k + 1, Append(runs, <<>>))
<1>1. PICK a : Reached(f, Len(words), k, a) /\ RunsSpell(runs, words, a)
  BY DEF RunsReach
<1>2. Len(words) \in Nat /\ a \in Nat
  BY <1>1 DEF Reached
<1>3. Reached(f, Len(words), k + 1, a)
  BY <1>1, <1>2, ReachedSame
<1>4. RunsSpell(Append(runs, <<>>), words, a)
  BY <1>1, <1>2, RunsSpellBlank
<1>5. Last(Append(runs, <<>>)) = <<>>
  BY DEF Last
<1> QED  BY <1>3, <1>4, <1>5 DEF RunsReach

\* A word is put into the last run, which is empty.
LEMMA RunsReachWord ==
  ASSUME NEW D, NEW runs \in Seq(D), runs # <<>>, NEW words \in Seq(Letter), NEW f,
         \A i \in 1 .. Len(words) : f[i] \in Nat,
         \A i, j \in 1 .. Len(words) : i < j => f[i] + 1 < f[j],
         NEW k \in Nat, NEW i \in 1 .. Len(words), f[i] = k + 1, <<words[i]>> \in D, RunsReach(f, words, k, runs)
  PROVE  /\ Last(runs) = <<>>
         /\ RunsReach(f, words, k + 1, Append(Front(runs), <<words[i]>>))
<1>1. PICK a : /\ Reached(f, Len(words), k, a) /\ RunsSpell(runs, words, a)
               /\ Last(runs) = <<>> \/ (a >= 1 /\ f[a] = k)
  BY DEF RunsReach
<1>2. Len(words) \in Nat /\ a \in 0 .. Len(words)
  BY <1>1 DEF Reached
<1>3. \A x, y \in 1 .. Len(words) : x < y => f[x] < f[y]
  <2> SUFFICES ASSUME NEW x \in 1 .. Len(words), NEW y \in 1 .. Len(words), x < y PROVE f[x] < f[y]
    OBVIOUS
  <2>1. f[x] + 1 < f[y] /\ f[x] \in Nat /\ f[y] \in Nat
    OBVIOUS
  <2> QED  BY <2>1
<1>4. i = a + 1 /\ Reached(f, Len(words), k + 1, i)
  BY <1>1, <1>2, <1>3, ReachedNext
<1>5. Last(runs) = <<>>
  <2> SUFFICES ASSUME a >= 1, f[a] = k PROVE FALSE
    BY <1>1
  <2>1. a \in 1 .. Len(words) /\ a < i
    BY <1>2, <1>4
  <2>2. f[a] + 1 < f[i]
    BY <2>1
  <2> QED  BY <2>2
<1>6. RunsSpell(Append(Front(runs), <<words[a + 1]>>), words, a + 1)
  BY <1>1, <1>2, <1>4, <1>5, RunsSpellWord
<1> QED  BY <1>4, <1>5, <1>6 DEF RunsReach

\* The runs of a line of words, when no word is a delimiter.
LEMMA RunsSpelled ==
  ASSUME NEW text \in Seq(Plain), NEW words \in Seq(Letter), Spelled(text, 1, Len(text), words),
         NEW delimiters, Blank \in delimiters, \A i \in 1 .. Len(words) : words[i] \notin delimiters
  PROVE  RunsSpell(Runs(text, delimiters), words, Len(words))
<1> DEFINE m == Len(text)
           n == Len(words)
           D == Seq(Plain \ delimiters)
<1>1. m \in Nat /\ n \in Nat /\ <<>> \in D
  OBVIOUS
<1>2. PICK f : Spells(text, 1, m, words, f)
  BY DEF Spelled
<1>3. PICK u : Runs(text, delimiters) = u[m] /\ RunsLoop(u, Plain, text, delimiters)
  BY RunsBy
<1>4. /\ \A i \in 1 .. n : f[i] \in Nat /\ f[i] \in 1 .. m
      /\ \A i, j \in 1 .. n : i < j => f[i] + 1 < f[j]
      /\ \A i \in 1 .. n : text[f[i]] = words[i]
      /\ \A k \in 1 .. m : text[k] = Blank \/ \E i \in 1 .. n : f[i] = k
  <2>1. f \in [1 .. n -> 1 .. m]
    BY <1>2 DEF Spells
  <2>2. \A i \in 1 .. n : f[i] \in Nat /\ f[i] \in 1 .. m
    BY <1>1, <2>1
  <2> QED  BY <1>2, <2>2 DEF Spells
<1>5. \A i \in 1 .. n : words[i] # Blank /\ <<words[i]>> \in D
  <2> TAKE i \in 1 .. n
  <2>1. words[i] \in Letter /\ words[i] \notin delimiters
    OBVIOUS
  <2>2. words[i] \in Plain \ delimiters
    BY <2>1, PlainChars
  <2> QED  BY <2>1, <2>2, LetterIs
<1>6. /\ u[0] = <<<<>>>>
      /\ \A k \in 1 .. m :
           u[k] = IF text[k] \in delimiters THEN Append(u[k - 1], <<>>)
                  ELSE Append(Front(u[k - 1]), Append(Last(u[k - 1]), text[k]))
      /\ \A k \in 0 .. m : u[k] \in Seq(D) /\ u[k] # <<>>
  BY <1>3 DEF RunsLoop
<1> HIDE DEF m, n, D
<1> DEFINE S == {k \in Nat : k <= m => RunsReach(f, words, k, u[k])}
<1>7. 0 \in S
  <2>1. Reached(f, n, 0, 0)
    BY <1>1, <1>4 DEF Reached
  <2>2. Last(<<<<>>>>) = <<>>
    BY DEF Last
  <2> QED  BY <1>6, <2>1, <2>2, RunsSpellNone DEF RunsReach, n
<1>8. ASSUME NEW k \in Nat, k \in S PROVE k + 1 \in S
  <2> SUFFICES ASSUME k + 1 <= m PROVE RunsReach(f, words, k + 1, u[k + 1])
    OBVIOUS
  <2>1. RunsReach(f, words, k, u[k])
    BY <1>1, <1>8
  <2> HIDE DEF S
  <2>2. k + 1 \in 1 .. m /\ (k + 1) - 1 = k /\ k \in 0 .. m
    BY <1>1
  <2>3. u[k] \in Seq(D) /\ u[k] # <<>>
    BY <1>6, <2>2
  <2>4. CASE text[k + 1] = Blank
    <3>1. u[k + 1] = Append(u[k], <<>>)
      BY <1>6, <2>2, <2>4
    <3>2. \A i \in 1 .. n : f[i] # k + 1
      BY <1>4, <1>5, <2>4
    <3>3. RunsReach(f, words, k + 1, Append(u[k], <<>>))
      BY <1>1, <1>4, <2>1, <2>3, <3>2, RunsReachBlank DEF n
    <3> QED  BY <3>1, <3>3
  <2>5. ASSUME NEW i \in 1 .. n, f[i] = k + 1 PROVE RunsReach(f, words, k + 1, u[k + 1])
    <3>1. text[k + 1] = words[i] /\ words[i] \notin delimiters
      BY <1>4, <2>5 DEF n
    <3>2. u[k + 1] = Append(Front(u[k]), Append(Last(u[k]), words[i]))
      BY <1>6, <2>2, <3>1
    <3>3. <<words[i]>> \in D
      BY <1>5
    <3>4. Last(u[k]) = <<>> /\ RunsReach(f, words, k + 1, Append(Front(u[k]), <<words[i]>>))
      BY <1>4, <2>1, <2>3, <2>5, <3>3, RunsReachWord DEF n
    <3>5. Append(<<>>, words[i]) = <<words[i]>>
      OBVIOUS
    <3> QED  BY <3>2, <3>4, <3>5
  <2> QED  BY <1>4, <2>2, <2>4, <2>5
<1>9. m \in S
  <2> HIDE DEF S
  <2> QED  BY <1>1, <1>7, <1>8, NatRise
<1>10. RunsReach(f, words, m, u[m])
  BY <1>1, <1>9
<1>11. PICK a : Reached(f, n, m, a) /\ RunsSpell(u[m], words, a)
  BY <1>10 DEF RunsReach, n
<1>12. a = n
  <2>1. a \in 0 .. n /\ \A i \in 1 .. n : i <= a <=> f[i] <= m
    BY <1>11 DEF Reached
  <2>2. n >= 1 => n \in 1 .. n /\ f[n] <= m
    BY <1>1, <1>4
  <2> QED  BY <1>1, <2>1, <2>2
<1> QED  BY <1>3, <1>11, <1>12 DEF n

\* The first a words, each as a sequence of its own.
FirstWords(words, a) == [i \in 1 .. a |-> <<words[i]>>]

\* One word more.
LEMMA FirstWordsNext ==
  ASSUME NEW words, NEW a \in Nat
  PROVE  Append(FirstWords(words, a), <<words[a + 1]>>) = FirstWords(words, a + 1)
<1> DEFINE X == {<<words[i]>> : i \in 1 .. a + 1}
           q == FirstWords(words, a)
           r == FirstWords(words, a + 1)
<1>1. q \in Seq(X) /\ Len(q) = a /\ \A i \in 1 .. a : q[i] = <<words[i]>>
  BY DEF FirstWords
<1>2. r \in Seq(X) /\ Len(r) = a + 1 /\ \A i \in 1 .. a + 1 : r[i] = <<words[i]>>
  BY DEF FirstWords
<1>3. <<words[a + 1]>> \in X
  OBVIOUS
<1> DEFINE x == <<words[a + 1]>>
<1> HIDE DEF X, q, r
<1>4. /\ Append(q, x) \in Seq(X) /\ Len(Append(q, x)) = a + 1
      /\ Append(q, x)[a + 1] = x /\ \A i \in 1 .. a : Append(q, x)[i] = q[i]
  <2> HIDE DEF x
  <2> QED  BY <1>1, <1>3 DEF x
<1>5. \A i \in 1 .. a + 1 : Append(q, x)[i] = r[i]
  <2> TAKE i \in 1 .. a + 1
  <2>1. CASE i = a + 1
    BY <1>2, <1>4, <2>1
  <2>2. CASE i # a + 1
    <3>1. i \in 1 .. a
      BY <2>2
    <3> QED  BY <1>1, <1>2, <1>4, <3>1
  <2> QED  BY <2>1, <2>2
<1>6. Append(q, x) = r
  <2> HIDE DEF x
  <2> QED  BY <1>2, <1>4, <1>5
<1> QED  BY <1>6 DEF q, r

\* The tokens among such runs are the words.
LEMMA TokensSpelled ==
  ASSUME NEW u, NEW B, NEW D, NEW runs \in Seq(D), NEW delimiters, TokensLoop(u, B, runs, delimiters),
         NEW words, NEW n \in Nat, RunsSpell(runs, words, n)
  PROVE  u[Len(runs)] = FirstWords(words, n)
<1> DEFINE m == Len(runs)
<1>1. m \in Nat
  OBVIOUS
<1>2. PICK h : RunsAt(runs, words, n, h)
  BY DEF RunsSpell
<1>3. /\ \A i \in 1 .. n : h[i] \in Nat /\ h[i] \in 1 .. m
      /\ \A i, j \in 1 .. n : i < j => h[i] < h[j]
      /\ \A i \in 1 .. n : runs[h[i]] = <<words[i]>>
      /\ \A k \in 1 .. m : runs[k] = <<>> \/ \E i \in 1 .. n : h[i] = k
  BY <1>1, <1>2 DEF RunsAt
<1>4. u[0] = <<>> /\ \A k \in 1 .. m : u[k] = IF runs[k] = <<>> THEN u[k - 1] ELSE Append(u[k - 1], runs[k])
  BY DEF TokensLoop
<1> HIDE DEF m
<1> DEFINE P(k) == \E a : Reached(h, n, k, a) /\ u[k] = FirstWords(words, a)
           S == {k \in Nat : k <= m => P(k)}
<1>5. P(0)
  <2>1. Reached(h, n, 0, 0)
    BY <1>3 DEF Reached
  <2>2. FirstWords(words, 0) = <<>>
    BY DEF FirstWords
  <2> QED  BY <1>4, <2>1, <2>2
<1>6. ASSUME NEW k \in Nat, k + 1 <= m, P(k) PROVE P(k + 1)
  <2>1. PICK a : Reached(h, n, k, a) /\ u[k] = FirstWords(words, a)
    BY <1>6
  <2>2. k + 1 \in 1 .. m /\ (k + 1) - 1 = k /\ a \in Nat
    BY <1>1, <1>6, <2>1 DEF Reached
  <2>3. CASE runs[k + 1] = <<>>
    <3>1. u[k + 1] = FirstWords(words, a)
      BY <1>4, <2>1, <2>2, <2>3
    <3>2. \A i \in 1 .. n : h[i] # k + 1
      <4> TAKE i \in 1 .. n
      <4>1. runs[h[i]] # <<>>
        <5>1. runs[h[i]] = <<words[i]>> /\ <<words[i]>> # <<>>
          BY <1>3
        <5> QED  BY <5>1
      <4> QED  BY <2>3, <4>1
    <3>3. Reached(h, n, k + 1, a)
      BY <1>3, <2>1, <3>2, ReachedSame
    <3> QED  BY <3>1, <3>3
  <2>4. ASSUME NEW i \in 1 .. n, h[i] = k + 1 PROVE P(k + 1)
    <3>1. i = a + 1 /\ Reached(h, n, k + 1, i)
      BY <1>3, <2>1, <2>4, ReachedNext
    <3>2. runs[k + 1] = <<words[a + 1]>> /\ runs[k + 1] # <<>>
      <4>1. runs[h[i]] = <<words[i]>> /\ <<words[i]>> # <<>>
        BY <1>3
      <4> QED  BY <2>4, <3>1, <4>1
    <3>3. u[k + 1] = Append(FirstWords(words, a), <<words[a + 1]>>)
      BY <1>4, <2>1, <2>2, <3>2
    <3>4. u[k + 1] = FirstWords(words, a + 1)
      BY <2>2, <3>3, FirstWordsNext
    <3> QED  BY <3>1, <3>4
  <2> QED  BY <1>3, <2>2, <2>3, <2>4
<1> HIDE DEF P
<1>7. m \in S
  <2>1. 0 \in S
    BY <1>5
  <2>2. ASSUME NEW k \in Nat, k \in S PROVE k + 1 \in S
    BY <1>1, <1>6, <2>2
  <2> HIDE DEF S
  <2> QED  BY <1>1, <2>1, <2>2, NatRise
<1>8. P(m)
  BY <1>1, <1>7
<1>9. PICK a : Reached(h, n, m, a) /\ u[m] = FirstWords(words, a)
  BY <1>8 DEF P
<1>10. a = n
  <2>1. a \in 0 .. n /\ \A i \in 1 .. n : i <= a <=> h[i] <= m
    BY <1>9 DEF Reached
  <2>2. n >= 1 => n \in 1 .. n /\ h[n] <= m
    BY <1>1, <1>3
  <2> QED  BY <2>1, <2>2
<1> QED  BY <1>9, <1>10 DEF m

\* There are no fewer blanks than gaps between words.
LEMMA BlanksBetween ==
  ASSUME NEW text \in Seq(Plain), NEW words \in Seq(Letter), Spelled(text, 1, Len(text), words)
  PROVE  strArrCount(text, Blank) \in Nat /\ strArrCount(text, Blank) >= Len(words)
<1> DEFINE m == Len(text)
           n == Len(words)
           S == {i \in DOMAIN text : text[i] = Blank}
           T == 1 .. n - 1
<1>1. m \in Nat /\ n \in Nat
  OBVIOUS
<1>2. PICK f : Spells(text, 1, m, words, f)
  BY DEF Spelled
<1>3. /\ \A i \in 1 .. n : f[i] \in Nat /\ f[i] \in 1 .. m
      /\ \A i, j \in 1 .. n : i < j => f[i] + 1 < f[j]
      /\ \A k \in 1 .. m : text[k] = Blank \/ \E i \in 1 .. n : f[i] = k
  <2>1. f \in [1 .. n -> 1 .. m]
    BY <1>2 DEF Spells
  <2>2. \A i \in 1 .. n : f[i] \in Nat /\ f[i] \in 1 .. m
    BY <1>1, <2>1
  <2> QED  BY <1>2, <2>2 DEF Spells
<1>4. IsFiniteSet(S) /\ Cardinality(S) \in Nat
  <2>1. S \subseteq 1 .. m
    OBVIOUS
  <2> HIDE DEF S, m, n
  <2>2. IsFiniteSet(1 .. m)
    BY ONLY <1>1, FS_Interval
  <2> QED  BY ONLY <2>1, <2>2, FS_Subset, FS_CardinalityType
<1>5. DOMAIN text = 1 .. m
  OBVIOUS
<1> HIDE DEF m, n
<1>6. ASSUME NEW i \in T PROVE f[i] + 1 \in S
  <2>1. i \in 1 .. n /\ i + 1 \in 1 .. n
    BY <1>1
  <2>2. f[i] + 1 < f[i + 1] /\ f[i] \in Nat /\ f[i + 1] \in 1 .. m
    BY <1>3, <2>1
  <2>3. f[i] + 1 \in 1 .. m
    BY <1>1, <2>2
  <2>4. ASSUME NEW j \in 1 .. n, f[j] = f[i] + 1 PROVE FALSE
    <3>1. j > i
      <4>1. j < i => f[j] + 1 < f[i]
        BY <1>3, <2>1
      <4>2. j = i => f[j] = f[i]
        OBVIOUS
      <4> QED  BY <2>1, <2>2, <2>4, <4>1, <4>2
    <3>2. j > i => f[i] + 1 < f[j]
      BY <1>3, <2>1
    <3> QED  BY <2>2, <2>4, <3>1, <3>2
  <2> QED  BY <1>3, <1>5, <2>3, <2>4
<1> DEFINE g == [i \in T |-> f[i] + 1]
<1>7. g \in [T -> S]
  BY <1>6
<1>8. \A i, j \in T : g[i] = g[j] => i = j
  <2> SUFFICES ASSUME NEW i \in T, NEW j \in T, f[i] + 1 = f[j] + 1 PROVE i = j
    OBVIOUS
  <2>1. i \in 1 .. n /\ j \in 1 .. n
    BY <1>1
  <2>2. f[i] \in Nat /\ f[j] \in Nat /\ (i < j => f[i] + 1 < f[j]) /\ (j < i => f[j] + 1 < f[i])
    BY <1>3, <2>1
  <2> QED  BY <2>1, <2>2
<1>9. IsFiniteSet(T) /\ Cardinality(T) = IF n >= 1 THEN n - 1 ELSE 0
  BY <1>1, FS_Interval
<1>10. Cardinality(T) <= Cardinality(S)
  <2>1. g \in Injection(T, S)
    <3> HIDE DEF g, T, S
    <3> QED  BY <1>7, <1>8 DEF Injection, IsInjective
  <2> HIDE DEF g, T, S
  <2> QED  BY <1>4, <1>9, <2>1, FS_Injection
<1>11. Cardinality(S) + 1 >= n
  <2> HIDE DEF S, T
  <2> QED  BY <1>1, <1>4, <1>9, <1>10
<1> QED  BY <1>4, <1>11 DEF strArrCount, n

\* strSplit finds the words of a line of words.
LEMMA SplitSpelled ==
  ASSUME NEW line \in Seq(Plain), NEW words \in Seq(Letter), Spelled(line, 1, Len(line), words),
         NEW stray, \A i \in 1 .. Len(words) : words[i] \notin stray
  PROVE  strSplit(line, strArrCount(line, Blank), Blank, stray) = FirstWords(words, Len(words))
<1> DEFINE delimiters == {Blank} \cup stray
           runs == Runs(line, delimiters)
           n == Len(words)
           count == strArrCount(line, Blank)
           tokens == Tokens(line, delimiters)
<1>1. n \in Nat /\ Blank \in delimiters /\ \A i \in 1 .. n : words[i] \notin delimiters
  <2>1. \A i \in 1 .. n : words[i] \in Letter
    OBVIOUS
  <2> QED  BY <2>1, LetterIs
<1> HIDE DEF delimiters
<1>2. RunsSpell(runs, words, n)
  BY <1>1, RunsSpelled
<1>3. runs \in Seq(Seq(Plain \ delimiters))
  BY RunsAre
<1>4. tokens = FirstWords(words, n)
  <2> DEFINE D == Seq(Plain \ delimiters)
  <2>1. PICK u : tokens = u[Len(runs)] /\ TokensLoop(u, Plain, runs, delimiters)
    BY TokensBy
  <2>2. runs \in Seq(D)
    BY <1>3
  <2> HIDE DEF tokens, runs, n, D
  <2>3. u[Len(runs)] = FirstWords(words, n)
    BY <1>1, <1>2, <2>1, <2>2, TokensSpelled
  <2> QED  BY <2>1, <2>3
<1>5. count \in Nat /\ count >= n
  BY BlanksBetween
<1> DEFINE q == FirstWords(words, n)
           X == {<<words[i]>> : i \in 1 .. n}
<1>6. q \in Seq(X) /\ Len(q) = n
  BY <1>1 DEF FirstWords
<1>7. strSplit(line, count, Blank, stray) = SubSeq(tokens, 1, IF count < Len(tokens) THEN count ELSE Len(tokens))
  BY DEF strSplit, FirstOf, delimiters
<1> HIDE DEF q, X, count, n, tokens
<1>8. (IF count < Len(tokens) THEN count ELSE Len(tokens)) = n
  BY <1>1, <1>4, <1>5, <1>6 DEF q
<1>9. SubSeq(q, 1, n) = q
  BY <1>1, <1>6
<1> QED  BY <1>4, <1>7, <1>8, <1>9 DEF q, count, n

\* handleRedirect leaves the words of the first segment.
LEMMA RedirectSpelled ==
  ASSUME NEW h, NEW redir \in Redirs, Says(h, redir), NEW words \in Seq(Letter), Begins(h, words), NEW before
  PROVE  Spelled(handleRedirect(h, before).line, 1, Len(handleRedirect(h, before).line), words)
<1> DEFINE ln == handleRedirect(h, before).line
<1>1. h \in Seq(Char) /\ Len(h) \in Nat
  BY DEF Says
<1>2. ln \in Seq(Char \ Marks)
  BY RedirectIs
<1>3. PICK q \in 0 .. Len(h) : EndsAt(h, q) /\ ln = SubSeq(h, 1, q)
  BY RedirectIs
<1>4. PICK b \in 0 .. Len(h) : EndsAt(h, b) /\ Spelled(h, 1, b, words)
  BY DEF Begins
<1>5. PICK f : Spells(h, 1, b, words, f)
  BY <1>4 DEF Spelled
<1> HIDE DEF ln
<1>6. Len(ln) = q /\ \A k \in 1 .. q : ln[k] = h[k]
  BY <1>1, <1>3
<1>7. \A k \in 1 .. q : h[k] \notin Marks
  BY <1>2, <1>6
<1>8. \A k \in 1 .. b : h[k] \notin Marks
  BY <1>5, SpellsNoMark
<1>9. q = b
  <2>1. ~ q < b
    <3> SUFFICES ASSUME q < b PROVE FALSE
      OBVIOUS
    <3>1. q + 1 \in 1 .. b /\ MarkAt(h, q + 1)
      BY <1>1, <1>3 DEF EndsAt
    <3> QED  BY <1>8, <3>1 DEF MarkAt
  <2>2. ~ b < q
    <3> SUFFICES ASSUME b < q PROVE FALSE
      OBVIOUS
    <3>1. b + 1 \in 1 .. q /\ MarkAt(h, b + 1)
      BY <1>1, <1>4 DEF EndsAt
    <3> QED  BY <1>7, <3>1 DEF MarkAt
  <2> QED  BY <2>1, <2>2
<1>10. Spells(ln, 1, q, words, f)
  <2>1. /\ f \in [1 .. Len(words) -> 1 .. q]
        /\ \A i, j \in 1 .. Len(words) : i < j => f[i] + 1 < f[j]
        /\ \A i \in 1 .. Len(words) : h[f[i]] = words[i]
        /\ \A k \in 1 .. q : h[k] = Blank \/ \E i \in 1 .. Len(words) : f[i] = k
    BY <1>5, <1>9 DEF Spells
  <2>2. \A i \in 1 .. Len(words) : ln[f[i]] = words[i]
    BY <1>6, <2>1
  <2>3. \A k \in 1 .. q : ln[k] = Blank \/ \E i \in 1 .. Len(words) : f[i] = k
    BY <1>6, <2>1
  <2> QED  BY <2>1, <2>2, <2>3 DEF Spells
<1> QED  BY <1>6, <1>10 DEF Spelled, ln

\* What is before the first '|' begins as the text does.
LEMMA BeginsHead ==
  ASSUME NEW t \in Seq(Char), NEW words \in Seq(Letter), Begins(t, words), NEW p, IsFirst(t, p, "|")
  PROVE  Begins(SubSeq(t, 1, p - 1), words)
<1> DEFINE h == SubSeq(t, 1, p - 1)
<1>1. Len(t) \in Nat /\ p \in 1 .. Len(t) /\ t[p] \in Marks
  BY DEF IsFirst, Marks
<1>2. Len(h) = p - 1 /\ \A k \in 1 .. p - 1 : h[k] = t[k]
  BY <1>1
<1>3. PICK b \in 0 .. Len(t) : EndsAt(t, b) /\ Spelled(t, 1, b, words)
  BY DEF Begins
<1>4. PICK f : Spells(t, 1, b, words, f)
  BY <1>3 DEF Spelled
<1> HIDE DEF h
<1>5. b <= p - 1
  <2> SUFFICES ASSUME p <= b PROVE FALSE
    BY <1>1
  <2>1. p \in 1 .. b
    BY <1>1
  <2> QED  BY <1>1, <1>4, <2>1, SpellsNoMark
<1>6. b \in 0 .. Len(h) /\ EndsAt(h, b)
  <2>1. CASE b = p - 1
    BY <1>2, <2>1 DEF EndsAt
  <2>2. CASE b < p - 1
    <3>1. b + 1 \in 1 .. p - 1 /\ MarkAt(t, b + 1)
      BY <1>1, <1>3, <2>2 DEF EndsAt
    <3> QED  BY <1>1, <1>2, <3>1 DEF EndsAt, MarkAt
  <2> QED  BY <1>1, <1>5, <2>1, <2>2
<1>7. Spells(h, 1, b, words, f)
  <2>1. /\ f \in [1 .. Len(words) -> 1 .. b]
        /\ \A i, j \in 1 .. Len(words) : i < j => f[i] + 1 < f[j]
        /\ \A i \in 1 .. Len(words) : t[f[i]] = words[i]
        /\ \A k \in 1 .. b : t[k] = Blank \/ \E i \in 1 .. Len(words) : f[i] = k
    BY <1>4 DEF Spells
  <2>2. \A k \in 1 .. b : h[k] = t[k]
    BY <1>1, <1>2, <1>5
  <2> QED  BY <2>1, <2>2 DEF Spells
<1> QED  BY <1>6, <1>7 DEF Begins, Spelled, h

\* getInput finds the words a text begins with, and in the rest of it those of the
\* next segment unless the '|' has moved too far.
LEMMA InputWords ==
  ASSUME NEW text, NEW redir \in Redirs, HasHead(text, redir), NEW words \in Seq(Letter), Begins(text, words),
         NEW inOut, NEW stray, \A i \in 1 .. Len(words) : words[i] \notin stray
  PROVE  getInput(text, inOut, stray).argv = FirstWords(words, Len(words))
<1> DEFINE s == strTrim(text)
           cut == searchStr(s, "|")
           red == handleRedirect(cut.head, inOut)
<1>1. text \in Seq(Char) /\ Reduces(text, s)
  BY TrimReduces DEF HasHead
<1>2. HasHead(s, redir) /\ s \in Seq(Char)
  BY <1>1, HeadReduced DEF HasHead
<1>3. getInput(text, inOut, stray).argv = strSplit(red.line, strArrCount(red.line, Blank), Blank, stray)
  BY InputFields
<1>4. Begins(s, words)
  BY <1>1, TrimBegins
<1> HIDE DEF s
<1>5. Says(cut.head, redir) /\ Begins(cut.head, words)
  <2>1. CASE NoBar(s) /\ Says(s, redir)
    <3>1. cut.head = s
      BY <1>2, <2>1, SearchFirst DEF NoBar, IsFirst
    <3> QED  BY <1>4, <2>1, <3>1
  <2>2. ASSUME NEW i, IsFirst(s, i, "|"), Says(SubSeq(s, 1, i - 1), redir)
        PROVE  Says(cut.head, redir) /\ Begins(cut.head, words)
    <3>1. cut.head = SubSeq(s, 1, i - 1)
      BY <1>2, <2>2, SearchAt
    <3>2. Begins(SubSeq(s, 1, i - 1), words)
      BY <1>2, <1>4, <2>2, BeginsHead
    <3> QED  BY <2>2, <3>1, <3>2
  <2> QED  BY <1>2, <2>1, <2>2 DEF HasHead
<1> HIDE DEF cut
<1>6. red.line \in Seq(Plain) /\ Spelled(red.line, 1, Len(red.line), words)
  BY <1>5, RedirectIs, RedirectSpelled DEF Plain
<1> HIDE DEF red
<1>7. strSplit(red.line, strArrCount(red.line, Blank), Blank, stray) = FirstWords(words, Len(words))
  BY <1>6, SplitSpelled
<1> QED  BY <1>3, <1>7 DEF red, cut, s

\* A character that is left.
Kept(e, s, k) == \E i \in 1 .. Len(s) : e[i] = k

\* A text of which two characters are dropped before one is two characters longer up
\* to that one.
LEMMA LagOfTwo ==
  ASSUME NEW e, NEW s, NEW t, NEW n \in Nat, Len(s) \in Nat, Embeds(e, s, t, n), NEW h \in 1 .. Len(s),
         NEW x, NEW y, \A k \in 1 .. e[h] - 1 : k = x \/ k = y \/ Kept(e, s, k)
  PROVE  e[h] <= h + 2
<1> DEFINE m == Len(s)
           p == e[h]
           A == 1 .. p - 1
           S == (A \ {x}) \ {y}
           T == 1 .. h - 1
<1>1. /\ \A i \in 1 .. m : e[i] \in Int /\ 1 <= e[i] /\ e[i] <= n
      /\ \A i, j \in 1 .. m : i < j <=> e[i] < e[j]
  BY EmbedsOrder
<1>2. h \in 1 .. m /\ m \in Nat /\ p \in Int /\ p >= 1
  BY <1>1
<1>3. \A k \in S : k \in A /\ \E i \in 1 .. m : e[i] = k
  BY DEF Kept
<1> DEFINE g == [k \in S |-> CHOOSE i \in 1 .. m : e[i] = k]
<1>4. \A k \in S : g[k] \in 1 .. m /\ e[g[k]] = k
  BY <1>3
<1> HIDE DEF g
<1>5. \A k \in S : g[k] \in T
  <2> TAKE k \in S
  <2>1. k \in Int /\ k < p
    BY <1>2, <1>3
  <2>2. g[k] < h /\ g[k] \in 1 .. m
    BY <1>1, <1>2, <1>4, <2>1
  <2> QED  BY <1>2, <2>2
<1>6. IsFiniteSet(A) /\ Cardinality(A) = IF 1 > p - 1 THEN 0 ELSE (p - 1) - 1 + 1
  <2> HIDE DEF p
  <2>1. p - 1 \in Int /\ 1 \in Int
    BY <1>2
  <2> QED  BY <2>1, FS_Interval
<1>7. IsFiniteSet(T) /\ Cardinality(T) = h - 1
  <2>1. IsFiniteSet(T) /\ Cardinality(T) = IF 1 > h - 1 THEN 0 ELSE (h - 1) - 1 + 1
    <3>1. h - 1 \in Int /\ 1 \in Int
      BY <1>2
    <3> QED  BY <3>1, FS_Interval
  <2> QED  BY <1>2, <2>1
<1> DEFINE B == A \ {x}
<1>8. IsFiniteSet(B) /\ Cardinality(B) = IF x \in A THEN Cardinality(A) - 1 ELSE Cardinality(A)
  <2> HIDE DEF A
  <2> QED  BY <1>6, FS_RemoveElement
<1>9. S = B \ {y}
  OBVIOUS
<1>10. IsFiniteSet(S) /\ Cardinality(S) = IF y \in B THEN Cardinality(B) - 1 ELSE Cardinality(B)
  <2> HIDE DEF B, S
  <2> QED  BY <1>8, <1>9, FS_RemoveElement
<1>11. Cardinality(S) <= Cardinality(T)
  <2>1. g \in [S -> T]
    BY <1>5 DEF g
  <2>2. \A i, j \in S : g[i] = g[j] => i = j
    BY <1>4
  <2> HIDE DEF S, T
  <2>3. g \in Injection(S, T)
    BY <2>1, <2>2 DEF Injection, IsInjective
  <2> QED  BY <1>7, <2>3, FS_Injection
<1>12. Cardinality(A) >= p - 1
  <2> DEFINE c == Cardinality(A)
  <2> HIDE DEF c, p
  <2> QED  BY <1>2, <1>6 DEF c
<1>13. Cardinality(A) \in Nat
  <2> HIDE DEF A
  <2> QED  BY <1>6, FS_CardinalityType
<1> DEFINE a == Cardinality(A)
           b == Cardinality(B)
           c == Cardinality(S)
<1>14. a \in Nat /\ a >= p - 1 /\ (b = a \/ b = a - 1) /\ (c = b \/ c = b - 1) /\ c <= h - 1
  BY <1>7, <1>8, <1>10, <1>11, <1>12, <1>13
<1> HIDE DEF a, b, c, p
<1>15. p <= h + 2
  BY ONLY <1>2, <1>14
<1> QED  BY <1>15 DEF p

\* A blank in front of another character is left unless the last character written is
\* a mark or there is one where strTrim looks for it.
LEMMA KeptBlank ==
  ASSUME NEW e, NEW s, NEW t \in Seq(Char), Sparing(e, s, t, Len(t)), NEW r \in 1 .. Len(t) - 1, t[r + 1] # Blank,
         NEW u \in 1 .. Len(s), e[u] < r,
         \A w \in 1 .. Len(s) : e[w] < r /\ (\A i \in 1 .. Len(s) : i > w => e[i] > r) =>
                                  t[e[w]] \notin Marks /\ ~MarkAt(t, w + 2)
  PROVE  Kept(e, s, r)
<1> SUFFICES ASSUME ~Kept(e, s, r) PROVE FALSE
  OBVIOUS
<1>1. r \in 1 .. Len(t) /\ r < Len(t)
  OBVIOUS
<1>2. DroppedAt(e, s, t, r)
  BY <1>1 DEF Sparing, Kept
<1>3. PICK w \in 1 .. Len(s) :
        /\ e[w] < r /\ \A i \in 1 .. Len(s) : i > w => e[i] > r
        /\ r < Len(t) /\ t[r + 1] # Blank => s[w] \in Marks \/ MarkAt(t, w + 2)
  BY <1>2 DEF DroppedAt
<1>4. s[w] = t[e[w]]
  BY DEF Sparing, Embeds
<1> QED  BY <1>1, <1>3, <1>4

\* A blank behind a word and in front of another one, or in front of the first mark in a
\* text that begins with a blank, is left.
LEMMA KeptBeforeMark ==
  ASSUME NEW e, NEW s, NEW t \in Seq(Char), Sparing(e, s, t, Len(t)), NEW r \in 1 .. Len(t) - 1, t[r + 1] # Blank,
         NEW u \in 1 .. r - 1, t[u] # Blank, \A k \in 1 .. r : t[k] \notin Marks,
         t[r + 1] \in Marks => t[1] = Blank
  PROVE  Kept(e, s, r)
<1> DEFINE m == Len(s)
<1>1. Embeds(e, s, t, Len(t)) /\ m \in Nat /\ Len(t) \in Nat
  BY DEF Sparing
<1>2. \A i \in 1 .. m : e[i] \in Int /\ 1 <= e[i] /\ e[i] <= Len(t)
  BY <1>1, EmbedsOrder
<1>3. PICK v \in 1 .. m : e[v] = u
  <2>1. u \in 1 .. Len(t)
    BY <1>1
  <2> QED  BY <1>1, <2>1 DEF Embeds
<1>4. e[v] < r
  BY <1>3
<1>5. ASSUME NEW w \in 1 .. m, e[w] < r PROVE t[e[w]] \notin Marks /\ ~MarkAt(t, w + 2)
  <2>1. e[w] \in 1 .. r
    BY <1>2, <1>5
  <2>2. e[w] >= e[1] + w - 1
    BY <1>1, EmbedsRise
  <2>3. 1 \in 1 .. m /\ t[e[1]] # Blank
    <3>1. 1 \in 1 .. m /\ s # <<>>
      BY <1>1
    <3> QED  BY <3>1 DEF Sparing
  <2>4. e[1] \in Int /\ e[1] >= 1 /\ e[w] \in Int /\ w \in Int /\ w >= 1
    BY <1>2, <2>3
  <2>5. CASE t[r + 1] \in Marks
    <3>1. e[1] # 1
      BY <2>3, <2>5
    <3>2. e[1] >= 2
      BY <2>4, <3>1
    <3>3. w + 2 \in 1 .. r
      BY ONLY <1>5, <2>2, <2>4, <3>2, r \in 1 .. Len(t) - 1, Len(t) \in Nat
    <3> QED  BY <2>1, <3>3 DEF MarkAt
  <2>6. CASE t[r + 1] \notin Marks
    <3>1. w + 2 \in 1 .. r + 1
      BY ONLY <1>1, <1>5, <2>2, <2>4, r \in 1 .. Len(t) - 1
    <3>2. t[w + 2] \notin Marks
      <4>1. CASE w + 2 = r + 1
        BY <2>6, <4>1
      <4>2. CASE w + 2 \in 1 .. r
        BY <4>2
      <4> QED  BY <3>1, <4>1, <4>2
    <3> QED  BY <2>1, <3>2 DEF MarkAt
  <2> QED  BY <2>5, <2>6
<1> QED  BY <1>4, <1>5, KeptBlank

\* A segment as it is typed with n blanks, none or one, before p: its words end at q.
Shape(t, p, q, words, redir, n) ==
  /\ q \in 0 .. p - 1
  /\ Spelled(t, 1, q, words)
  /\ \A c \in 1 .. q : t[c] = Blank =>
       \/ c <= n \/ c > q - n
       \/ c - 1 \in 1 .. q /\ c + 1 \in 1 .. q /\ t[c - 1] # Blank /\ t[c + 1] # Blank
  /\ n = 1 => 1 \in 1 .. q /\ t[1] = Blank
  /\ IF redir = "none" THEN q = p - 1
     ELSE /\ q + 1 \in 1 .. p - 1 /\ t[q + 1] \in Marks
          /\ \A c \in q + 1 .. p - 1 : t[c] = Blank => n = 1 /\ (c = p - 1 \/ c = p - 3)
          /\ n = 1 => p - 2 \in q + 1 .. p - 1 /\ t[p - 2] \notin Marks /\ t[p - 2] # Blank

\* The blank behind the words, when nothing is redirected or there are none.
Trailing(k, q, words, redir, n) == n = 1 /\ k = q /\ (redir = "none" \/ words = <<>>)

\* The blanks between the words are left, and the one before the mark.
LEMMA ShapeKept ==
  ASSUME NEW t \in Seq(Char), NEW s, NEW e, Sparing(e, s, t, Len(t)), NEW words \in Seq(Letter), NEW redir,
         NEW p \in 1 .. Len(t), NEW q, NEW n \in {0, 1}, Shape(t, p, q, words, redir, n),
         NEW c \in 1 .. q, n = 0 \/ c # 1
  PROVE  Kept(e, s, c) \/ Trailing(c, q, words, redir, n)
<1>1. /\ q \in 0 .. p - 1 /\ Len(t) \in Nat /\ q \in Nat /\ p \in Nat
      /\ \A k \in 1 .. q : t[k] = Blank =>
           \/ k <= n \/ k > q - n
           \/ k - 1 \in 1 .. q /\ k + 1 \in 1 .. q /\ t[k - 1] # Blank /\ t[k + 1] # Blank
  BY DEF Shape
<1>2. PICK f : Spells(t, 1, q, words, f)
  BY DEF Shape, Spelled
<1>3. \A k \in 1 .. q : t[k] \notin Marks
  BY <1>2, SpellsNoMark
<1>8. \A k \in 1 .. c : t[k] \notin Marks
  <2>1. q \in Nat /\ c \in 1 .. q
    BY <1>1
  <2>2. \A k \in 1 .. c : k \in 1 .. q
    BY ONLY <2>1
  <2> QED  BY <1>3, <2>2
<1>4. CASE t[c] # Blank
  <2>1. c \in 1 .. Len(t)
    BY <1>1
  <2> QED  BY <1>4, <2>1 DEF Sparing, Embeds, Kept
<1>5. CASE t[c] = Blank /\ c - 1 \in 1 .. q /\ c + 1 \in 1 .. q /\ t[c - 1] # Blank /\ t[c + 1] # Blank
  <2>1. c \in 1 .. Len(t) - 1 /\ c - 1 \in 1 .. c - 1
    BY <1>1, <1>5
  <2>3. t[c + 1] \notin Marks
    BY <1>3, <1>5
  <2> QED  BY <1>5, <1>8, <2>1, <2>3, KeptBeforeMark
<1>6. CASE t[c] = Blank /\ c <= n
  BY <1>6
<1>7. CASE t[c] = Blank /\ c > q - n /\ c > n
  <2>1. n = 1 /\ c = q
    BY <1>1, <1>7
  <2>2. CASE redir # "none" /\ words # <<>>
    <3>1. q + 1 \in 1 .. p - 1 /\ t[q + 1] \in Marks /\ t[1] = Blank
      BY <2>1, <2>2 DEF Shape
    <3>2. 1 \in 1 .. Len(words) /\ words[1] \in Letter
      BY <2>2
    <3>3. f[1] \in 1 .. q /\ t[f[1]] = words[1] /\ words[1] # Blank
      BY <1>2, <3>2, LetterIs DEF Spells
    <3>4. f[1] \in 1 .. c - 1
      <4>1. f[1] # c
        BY <1>7, <3>3
      <4> QED  BY <2>1, <3>3, <4>1
    <3>5. c \in 1 .. Len(t) - 1 /\ c + 1 = q + 1
      BY <1>1, <2>1, <3>1
    <3>6. t[c + 1] # Blank
      BY <3>1, <3>5, LetterIs
    <3>7. t[f[1]] # Blank
      BY <3>3
    <3> QED  BY <1>8, <3>1, <3>4, <3>5, <3>6, <3>7, KeptBeforeMark
  <2> QED  BY <2>1, <2>2 DEF Trailing
<1> QED  BY <1>1, <1>4, <1>5, <1>6, <1>7

\* The file of a redirection keeps the blank behind it.
LEMMA ShapeFile ==
  ASSUME NEW t \in Seq(Char), NEW s, NEW e, Sparing(e, s, t, Len(t)), NEW words \in Seq(Letter), NEW redir,
         NEW p \in 1 .. Len(t), t[p] = "|", NEW q, Shape(t, p, q, words, redir, 1),
         redir # "none", words # <<>>
  PROVE  \A k \in 1 .. p - 1 : k = 1 \/ k = p - 3 \/ Kept(e, s, k)
<1> DEFINE m == Len(s)
<1>1. Embeds(e, s, t, Len(t)) /\ m \in Nat /\ Len(t) \in Nat
  BY DEF Sparing
<1>2. /\ \A i \in 1 .. m : e[i] \in Int /\ 1 <= e[i] /\ e[i] <= Len(t)
      /\ \A i, j \in 1 .. m : i < j <=> e[i] < e[j]
  BY <1>1, EmbedsOrder
<1>3. /\ q \in 0 .. p - 1 /\ q \in Nat /\ p \in Nat /\ 1 \in 1 .. q /\ t[1] = Blank
      /\ \A k \in q + 1 .. p - 1 : t[k] = Blank => k = p - 1 \/ k = p - 3
      /\ p - 2 \in q + 1 .. p - 1 /\ t[p - 2] \notin Marks /\ t[p - 2] # Blank
  BY <1>1 DEF Shape
<1>4. ASSUME NEW k \in 1 .. p - 1, t[k] # Blank PROVE Kept(e, s, k)
  <2>1. k \in 1 .. Len(t)
    BY <1>1
  <2> QED  BY <1>1, <1>4, <2>1 DEF Embeds, Kept
<1>5. ASSUME NEW k \in 1 .. p - 1, k # p - 1 PROVE k = 1 \/ k = p - 3 \/ Kept(e, s, k)
  <2>1. CASE k \in 1 .. q
    <3>1. k # 1 => Kept(e, s, k) \/ Trailing(k, q, words, redir, 1)
      BY <2>1, ShapeKept
    <3> QED  BY <3>1 DEF Trailing
  <2>2. CASE k \in q + 1 .. p - 1
    BY <1>3, <1>4, <1>5, <2>2
  <2>3. k \in 1 .. q \/ k \in q + 1 .. p - 1
    BY <1>3
  <2> QED  BY <2>1, <2>2, <2>3
<1>6. CASE t[p - 1] = Blank
  <2> DEFINE r == p - 1
  <2>1. PICK u \in 1 .. m : e[u] = p - 2
    <3>1. p - 2 \in 1 .. p - 1
      BY <1>3
    <3> QED  BY <1>3, <1>4, <3>1 DEF Kept
  <2>2. p - 2 <= u + 2
    <3>1. \A k \in 1 .. e[u] - 1 : k = 1 \/ k = p - 3 \/ Kept(e, s, k)
      <4> TAKE k \in 1 .. e[u] - 1
      <4>1. k \in 1 .. p - 1 /\ k # p - 1
        BY <1>3, <2>1
      <4> QED  BY <1>5, <4>1
    <3>2. e[u] <= u + 2
      BY <1>1, <3>1, LagOfTwo
    <3> QED  BY <2>1, <3>2
  <2>3. u + 2 \in {p - 2, p - 1}
    <3>1. e[u] >= e[1] + u - 1
      BY <1>1, EmbedsRise
    <3>2. 1 \in 1 .. m /\ t[e[1]] # Blank
      <4>1. 1 \in 1 .. m /\ s # <<>>
        BY <1>1
      <4> QED  BY <4>1 DEF Sparing
    <3>3. e[1] \in Int /\ e[1] >= 1 /\ e[1] # 1
      BY <1>2, <1>3, <3>2
    <3>4. p - 2 >= e[1] + u - 1
      BY <2>1, <3>1
    <3> HIDE DEF r
    <3> QED  BY ONLY <1>3, <2>2, <3>3, <3>4, u \in 1 .. m, m \in Nat
  <2>4. ASSUME NEW w \in 1 .. m, e[w] < r, \A i \in 1 .. m : i > w => e[i] > r PROVE w = u
    <3>1. ~ u > w
      BY <1>3, <2>1, <2>4
    <3>2. ~ w > u
      <4>1. u < w => e[u] < e[w] /\ e[w] \in Int
        BY <1>2
      <4> QED  BY <1>3, <2>1, <2>4, <4>1
    <3> QED  BY <3>1, <3>2
  <2>5. t[e[u]] \notin Marks /\ ~MarkAt(t, u + 2)
    <3>1. t[p - 2] \notin Marks /\ t[p - 1] \notin Marks
      BY <1>3, <1>6, LetterIs
    <3> QED  BY <2>1, <2>3, <3>1 DEF MarkAt
  <2>6. r \in 1 .. Len(t) - 1 /\ t[r + 1] # Blank /\ e[u] < r
    <3>1. r + 1 = p
      BY <1>3
    <3>2. t[p] # Blank
      BY DEF Blank
    <3> QED  BY <1>1, <1>3, <2>1, <3>1, <3>2
  <2>7. \A w \in 1 .. m : e[w] < r /\ (\A i \in 1 .. m : i > w => e[i] > r) =>
                            t[e[w]] \notin Marks /\ ~MarkAt(t, w + 2)
    BY <2>4, <2>5
  <2> HIDE DEF r
  <2>8. Kept(e, s, r)
    BY <2>6, <2>7, KeptBlank
  <2> QED  BY <1>5, <2>8 DEF r
<1> QED
  <2>1. p - 1 \in 1 .. p - 1 => t[p - 1] = Blank \/ Kept(e, s, p - 1)
    BY <1>4
  <2> QED  BY <1>5, <1>6, <2>1

\* The '|' does not move further than two characters: of the blanks before it at most
\* two are dropped.
LEMMA BarLag ==
  ASSUME NEW t \in Seq(Char), NEW s, NEW e, Sparing(e, s, t, Len(t)), NEW words \in Seq(Letter), NEW redir,
         NEW h \in 1 .. Len(s), NEW p \in 1 .. Len(t), e[h] = p, t[p] = "|",
         NEW q, NEW n \in {0, 1}, Shape(t, p, q, words, redir, n),
         n = 0 \/ redir = "none" \/ words # <<>>
  PROVE  p <= h + 2
<1>1. Embeds(e, s, t, Len(t)) /\ Len(s) \in Nat /\ Len(t) \in Nat /\ p \in Nat
  BY DEF Sparing
<1>2. q \in 0 .. p - 1 /\ q \in Nat
  BY DEF Shape
<1>3. CASE redir = "none"
  <2>1. q = p - 1
    BY <1>3 DEF Shape
  <2>2. ASSUME NEW k \in 1 .. e[h] - 1 PROVE k = 1 \/ k = q \/ Kept(e, s, k)
    <3>1. k \in 1 .. q
      BY <2>1
    <3>2. CASE n = 0 \/ k # 1
      <4>1. Kept(e, s, k) \/ Trailing(k, q, words, redir, n)
        BY <3>1, <3>2, ShapeKept
      <4> QED  BY <4>1 DEF Trailing
    <3> QED  BY <3>2
  <2> QED  BY <1>1, <2>2, LagOfTwo
<1>4. CASE redir # "none" /\ n = 0
  <2>1. \A k \in q + 1 .. p - 1 : t[k] # Blank
    BY <1>4 DEF Shape
  <2>2. ASSUME NEW k \in 1 .. e[h] - 1 PROVE Kept(e, s, k)
    <3>1. CASE k \in 1 .. q
      <4>1. Kept(e, s, k) \/ Trailing(k, q, words, redir, n)
        BY <1>4, <3>1, ShapeKept
      <4> QED  BY <1>4, <4>1 DEF Trailing
    <3>2. CASE k \in q + 1 .. p - 1
      <4>1. k \in 1 .. Len(t) /\ t[k] # Blank
        BY <1>1, <1>2, <2>1, <3>2
      <4> QED  BY <1>1, <4>1 DEF Embeds, Kept
    <3> QED  BY <1>2, <3>1, <3>2
  <2>3. \A k \in 1 .. e[h] - 1 : k = 1 \/ k = 1 \/ Kept(e, s, k)
    BY <2>2
  <2> QED  BY <1>1, <2>3, LagOfTwo
<1>5. CASE redir # "none" /\ n = 1
  <2>1. \A k \in 1 .. e[h] - 1 : k = 1 \/ k = p - 3 \/ Kept(e, s, k)
    BY <1>5, ShapeFile
  <2> QED  BY <1>1, <2>1, LagOfTwo
<1> QED  BY <1>3, <1>4, <1>5

\* A mark and a file, typed: where the blanks are.
MarkPart(m, n) ==
  /\ m \in Seq(Char) /\ 1 \in 1 .. Len(m) /\ m[1] \in Marks
  /\ n \in {0, 1} => \A c \in 1 .. Len(m) : m[c] = Blank => n = 1 /\ (c = Len(m) \/ c = Len(m) - 2)
  /\ n = 1 => Len(m) - 1 \in 1 .. Len(m) /\ m[Len(m) - 1] \notin Marks /\ m[Len(m) - 1] # Blank

\* The text of a redirection, when there is one.
LEMMA MarkPartIs ==
  ASSUME NEW seg \in Segment, seg.redir # "none", NEW n \in Nat
  PROVE  MarkPart(MarkOf(seg.redir) \o Blanks(n) \o <<seg.file>> \o Blanks(n), n)
<1> DEFINE mark == MarkOf(seg.redir)
           a == Blanks(n)
           b == <<seg.file>>
           rest == a \o b \o a
           m == mark \o a \o b \o a
<1>1. seg.file \in Letter /\ seg.file \in Plain
  BY SegmentIs, PlainChars
<1>2. b \in Seq(Plain) /\ Len(b) = 1 /\ b[1] = seg.file
  BY <1>1
<1>3. mark \in Seq(Char) /\ Len(mark) \in {1, 2} /\ \A i \in 1 .. Len(mark) : mark[i] \in Marks
  <2>1. seg.redir \in {"in", "out", "append"}
    BY SegmentIs DEF Redirs
  <2>2. \A c \in {"<", ">"} : c \in Char /\ c \in Marks
    BY PlainChars DEF Marks
  <2> HIDE DEF mark
  <2>3. ASSUME NEW c \in {"<", ">"}, mark = <<c>>
        PROVE  mark \in Seq(Char) /\ Len(mark) \in {1, 2} /\ \A i \in 1 .. Len(mark) : mark[i] \in Marks
    <3>1. c \in Char /\ c \in Marks
      BY <2>2
    <3>2. mark \in Seq(Char) /\ Len(mark) = 1 /\ mark[1] = c
      BY <2>3, <3>1
    <3> QED  BY <3>1, <3>2
  <2>4. CASE mark = <<">", ">">>
    BY <2>2, <2>4
  <2> QED  BY <2>1, <2>3, <2>4, MarkIs DEF mark
<1>4. a \in Seq(Plain)
  BY BlanksAre
<1> HIDE DEF mark, a, b
<1>5. /\ rest \in Seq(Plain) /\ Len(rest) = n + 1 + n /\ rest[1 + n] = seg.file
      /\ \A i \in 1 .. Len(rest) : i <= n \/ i > n + 1 => rest[i] = Blank
  <2>1. Padded(rest, b, n)
    BY <1>2, BlanksAround DEF a
  <2> HIDE DEF rest
  <2>2. 1 \in 1 .. Len(b)
    BY <1>2
  <2> QED  BY <1>2, <2>1, <2>2 DEF Padded
<1>6. a \in Seq(Char) /\ b \in Seq(Char) /\ rest \in Seq(Char)
  <2> HIDE DEF rest
  <2> QED  BY <1>2, <1>4, <1>5 DEF Plain
<1>7. m = mark \o rest
  BY <1>3, <1>6, SMTT(30)
<1> HIDE DEF m, rest
<1> DEFINE k == Len(mark)
<1>8. /\ m \in Seq(Char) /\ Len(m) = k + Len(rest)
      /\ \A i \in 1 .. k : m[i] = mark[i]
      /\ \A i \in 1 .. Len(rest) : m[i + k] = rest[i]
  <2> DEFINE z == mark \o rest
  <2>1. /\ z \in Seq(Char) /\ Len(z) = Len(mark) + Len(rest)
        /\ \A i \in 1 .. Len(mark) : z[i] = mark[i]
        /\ \A i \in 1 .. Len(rest) : z[i + Len(mark)] = rest[i]
    BY <1>3, <1>6, ConcatIs
  <2> HIDE DEF z
  <2>2. m = z
    BY <1>7 DEF z
  <2> QED  BY <2>1, <2>2
<1>9. k \in {1, 2} /\ \A i \in 1 .. k : mark[i] \in Marks
  BY <1>3
<1> DEFINE lr == Len(rest)
           lm == Len(m)
<1>10. lr = n + 1 + n /\ lm = k + lr /\ rest[1 + n] = seg.file
  BY <1>5, <1>8
<1>11. \A i \in 1 .. lr : i <= n \/ i > n + 1 => rest[i] = Blank
  BY <1>5
<1>12. \A i \in 1 .. lr : m[i + k] = rest[i]
  BY <1>8
<1>13. \A i \in 1 .. k : m[i] = mark[i]
  BY <1>8
<1> HIDE DEF k, lr, lm
<1>14. 1 \in 1 .. lm /\ m[1] \in Marks
  <2>1. 1 \in 1 .. k
    BY <1>9
  <2>2. m[1] \in Marks
    BY <1>9, <1>13, <2>1
  <2> QED  BY <1>9, <1>10, <2>2
<1>15. ASSUME n \in {0, 1}, NEW c \in 1 .. lm, m[c] = Blank PROVE n = 1 /\ (c = lm \/ c = lm - 2)
  <2>1. c \notin 1 .. k
    BY <1>9, <1>13, <1>15, LetterIs
  <2> DEFINE i == c - k
  <2>2. i \in 1 .. lr /\ i + k = c
    BY <1>9, <1>10, <2>1
  <2> HIDE DEF i
  <2>3. rest[i] = Blank
    BY <1>12, <1>15, <2>2
  <2>4. i # 1 + n
    BY <1>1, <1>10, <2>3, LetterIs
  <2> QED  BY ONLY <1>9, <1>10, <1>15, <2>2, <2>4
<1>16. ASSUME n = 1 PROVE lm - 1 \in 1 .. lm /\ m[lm - 1] \notin Marks /\ m[lm - 1] # Blank
  <2>1. lr = 3 /\ 2 \in 1 .. lr /\ 2 + k = lm - 1 /\ lm - 1 \in 1 .. lm /\ 1 + n = 2
    BY ONLY <1>9, <1>10, <1>16
  <2>2. m[2 + k] = rest[2]
    BY <1>12, <2>1
  <2>3. m[lm - 1] = seg.file
    BY <1>10, <2>1, <2>2
  <2> QED  BY <1>1, <2>1, <2>3, LetterIs
<1>17. MarkPart(m, n)
  BY <1>8, <1>14, <1>15, <1>16 DEF MarkPart, lm
<1> QED  BY <1>17 DEF m, mark, a, b

\* A segment, typed.
LEMMA SegmentShape ==
  ASSUME NEW seg \in Segment, NEW n \in Nat, NEW s, s = SegmentText(seg, n)
  PROVE  /\ s \in Seq(Char)
         /\ \E q \in 0 .. Len(s) : /\ EndsAt(s, q) /\ Spelled(s, 1, q, seg.words)
                                   /\ n \in {0, 1} => Shape(s, Len(s) + 1, q, seg.words, seg.redir, n)
<1> DEFINE words == seg.words
           redir == seg.redir
<1>1. PICK w : /\ WordsText(w, words, n)
               /\ s = w \o (IF redir = "none" THEN <<>>
                    ELSE MarkOf(redir) \o Blanks(n) \o <<seg.file>> \o Blanks(n))
  BY WordsTyped
<1> HIDE DEF words, redir
<1>2. s \in Seq(Char)
  BY SegmentSays DEF Says
<1> DEFINE q == Len(w)
           ls == Len(s)
<1>3. /\ w \in Seq(Plain) /\ w \in Seq(Char) /\ q \in Nat /\ Spelled(w, 1, q, words)
      /\ n \in {0, 1} => \A c \in 1 .. q : w[c] = Blank => c <= n \/ c > q - n \/ Alone(w, c)
      /\ n = 1 => 1 \in 1 .. q /\ w[1] = Blank
  BY <1>1 DEF WordsText, Plain
<1>4. CASE redir = "none"
  <2>1. s = w
    BY <1>1, <1>3, <1>4
  <2>2. q \in 0 .. ls /\ EndsAt(s, q) /\ Spelled(s, 1, q, words)
    BY <1>3, <2>1 DEF EndsAt
  <2>3. q = (ls + 1) - 1 /\ q \in 0 .. (ls + 1) - 1
    BY <1>3, <2>1
  <2>4. ASSUME n \in {0, 1} PROVE Shape(s, ls + 1, q, words, redir, n)
    <3>1. \A c \in 1 .. q : s[c] = Blank =>
            \/ c <= n \/ c > q - n
            \/ c - 1 \in 1 .. q /\ c + 1 \in 1 .. q /\ s[c - 1] # Blank /\ s[c + 1] # Blank
      BY <1>3, <2>1, <2>4 DEF Alone
    <3>2. n = 1 => 1 \in 1 .. q /\ s[1] = Blank
      BY <1>3, <2>1
    <3> HIDE DEF q, ls
    <3> QED  BY <1>4, <2>2, <2>3, <3>1, <3>2 DEF Shape
  <2> HIDE DEF q
  <2> QED  BY <1>2, <2>2, <2>4 DEF words, redir
<1>5. CASE redir # "none"
  <2> DEFINE m == MarkOf(redir) \o Blanks(n) \o <<seg.file>> \o Blanks(n)
             lm == Len(m)
             p == ls + 1
  <2>1. MarkPart(m, n)
    BY <1>5, MarkPartIs DEF redir
  <2>2. s = w \o m
    BY <1>1, <1>5
  <2> HIDE DEF m
  <2>3. /\ m \in Seq(Char) /\ 1 \in 1 .. lm /\ m[1] \in Marks
        /\ n \in {0, 1} => \A c \in 1 .. lm : m[c] = Blank => n = 1 /\ (c = lm \/ c = lm - 2)
        /\ n = 1 => lm - 1 \in 1 .. lm /\ m[lm - 1] \notin Marks /\ m[lm - 1] # Blank
    BY <2>1 DEF MarkPart
  <2>4. /\ ls = q + lm /\ lm \in Nat
        /\ \A i \in 1 .. q : s[i] = w[i]
        /\ \A i \in 1 .. lm : s[i + q] = m[i]
    <3>1. w \in Seq(Char) /\ m \in Seq(Char)
      BY <1>3, <2>3
    <3> DEFINE z == w \o m
    <3>2. /\ Len(z) = Len(w) + Len(m) /\ Len(m) \in Nat
          /\ \A i \in 1 .. Len(w) : z[i] = w[i]
          /\ \A i \in 1 .. Len(m) : z[i + Len(w)] = m[i]
      BY <3>1, ConcatIs
    <3> HIDE DEF z
    <3>3. s = z
      BY <2>2 DEF z
    <3> QED  BY <3>2, <3>3
  <2>l. lm >= 1
    BY <2>3
  <2> HIDE DEF q, ls, lm
  <2>5. q \in 0 .. ls /\ q + 1 \in 1 .. ls /\ s[q + 1] \in Marks
    <3>1. s[1 + q] = m[1]
      BY <2>3, <2>4
    <3>2. 1 + q = q + 1
      BY <1>3
    <3> QED  BY <1>3, <2>3, <2>4, <2>l, <3>1, <3>2
  <2>6. EndsAt(s, q)
    BY <2>5 DEF EndsAt, MarkAt, ls
  <2>7. Spelled(s, 1, q, words)
    <3>1. PICK f : Spells(w, 1, q, words, f)
      BY <1>3 DEF Spelled
    <3>2. Spells(s, 1, q, words, f)
      BY <2>4, <3>1 DEF Spells
    <3> QED  BY <3>2 DEF Spelled
  <2>8. ASSUME n \in {0, 1} PROVE Shape(s, p, q, words, redir, n)
    <3>1. p - 1 = ls /\ p - 2 = ls - 1 /\ p - 3 = ls - 2 /\ ls \in Nat /\ p \in Nat
      <4>1. ls \in Nat
        BY <1>3, <2>4
      <4> QED  BY ONLY <4>1 DEF p
    <3> HIDE DEF p
    <3>2. ASSUME NEW c \in 1 .. q, s[c] = Blank
          PROVE  \/ c <= n \/ c > q - n
                 \/ c - 1 \in 1 .. q /\ c + 1 \in 1 .. q /\ s[c - 1] # Blank /\ s[c + 1] # Blank
      <4>1. w[c] = Blank
        BY <2>4, <3>2
      <4>2. CASE Alone(w, c)
        <5>1. c - 1 \in 1 .. q /\ c + 1 \in 1 .. q /\ w[c - 1] # Blank /\ w[c + 1] # Blank
          BY <4>2 DEF Alone, q
        <5>2. s[c - 1] = w[c - 1] /\ s[c + 1] = w[c + 1]
          BY <2>4, <5>1
        <5> QED  BY <5>1, <5>2
      <4> QED  BY <1>3, <2>8, <4>1, <4>2
    <3>3. n = 1 => 1 \in 1 .. q /\ s[1] = Blank
      BY <1>3, <2>4
    <3>4. ASSUME NEW c \in q + 1 .. ls, s[c] = Blank PROVE n = 1 /\ (c = ls \/ c = ls - 2)
      <4> DEFINE i == c - q
      <4>1. i \in 1 .. lm /\ i + q = c
        BY <1>3, <2>4
      <4> HIDE DEF i
      <4>2. m[i] = Blank
        BY <2>4, <3>4, <4>1
      <4>3. n = 1 /\ (i = lm \/ i = lm - 2)
        BY <2>3, <2>8, <4>1, <4>2
      <4>4. ls = q + lm /\ q \in Nat /\ lm \in Nat
        BY <1>3, <2>4
      <4> QED  BY ONLY <4>1, <4>3, <4>4
    <3>5. ASSUME n = 1 PROVE ls - 1 \in q + 1 .. ls /\ s[ls - 1] \notin Marks /\ s[ls - 1] # Blank
      <4>1. lm - 1 \in 1 .. lm /\ m[lm - 1] \notin Marks /\ m[lm - 1] # Blank
        BY <2>3, <3>5
      <4>2. s[(lm - 1) + q] = m[lm - 1]
        BY <2>4, <4>1
      <4>3. (lm - 1) + q = ls - 1 /\ ls - 1 \in q + 1 .. ls
        <5>1. ls = q + lm /\ q \in Nat /\ lm \in Nat
          BY <1>3, <2>4
        <5> QED  BY ONLY <4>1, <5>1
      <4> QED  BY <4>1, <4>2, <4>3
    <3> QED  BY <1>5, <2>5, <2>7, <3>1, <3>2, <3>3, <3>4, <3>5 DEF Shape
  <2> QED  BY <1>2, <2>5, <2>6, <2>7, <2>8 DEF ls, words, redir
<1> QED  BY <1>4, <1>5

\* Shape looks at what is before p only.
LEMMA SameShape ==
  ASSUME NEW s, NEW t, NEW p \in Nat, NEW q, NEW words, NEW redir, NEW n \in {0, 1},
         Shape(s, p, q, words, redir, n), \A k \in 1 .. p - 1 : t[k] = s[k]
  PROVE  Shape(t, p, q, words, redir, n)
<1>1. q \in 0 .. p - 1 /\ q \in Nat
  BY DEF Shape
<1>2. Spelled(t, 1, q, words)
  <2>1. PICK f : Spells(s, 1, q, words, f)
    BY DEF Shape, Spelled
  <2>2. f \in [1 .. Len(words) -> 1 .. q] /\ \A i \in 1 .. Len(words) : t[f[i]] = s[f[i]]
    <3>1. f \in [1 .. Len(words) -> 1 .. q]
      BY <2>1 DEF Spells
    <3>2. \A k \in 1 .. q : t[k] = s[k]
      BY <1>1
    <3> QED  BY <3>1, <3>2
  <2>3. \A k \in 1 .. q : t[k] = s[k]
    BY <1>1
  <2>4. Spells(t, 1, q, words, f)
    BY <2>1, <2>2, <2>3 DEF Spells
  <2> QED  BY <2>4 DEF Spelled
<1>3. ASSUME NEW c \in 1 .. q, t[c] = Blank
      PROVE  \/ c <= n \/ c > q - n
             \/ c - 1 \in 1 .. q /\ c + 1 \in 1 .. q /\ t[c - 1] # Blank /\ t[c + 1] # Blank
  <2>1. \A k \in 1 .. q : t[k] = s[k]
    BY <1>1
  <2>2. s[c] = Blank
    BY <1>3, <2>1
  <2>3. \/ c <= n \/ c > q - n
        \/ c - 1 \in 1 .. q /\ c + 1 \in 1 .. q /\ s[c - 1] # Blank /\ s[c + 1] # Blank
    BY <2>2 DEF Shape
  <2> QED  BY <2>1, <2>3
<1>4. n = 1 => 1 \in 1 .. q /\ t[1] = Blank
  <2>1. \A k \in 1 .. q : t[k] = s[k]
    BY <1>1
  <2> QED  BY <2>1 DEF Shape
<1>5. CASE redir = "none"
  BY <1>1, <1>2, <1>3, <1>4, <1>5 DEF Shape
<1>6. CASE redir # "none"
  <2>1. \A k \in q + 1 .. p - 1 : t[k] = s[k]
    BY <1>1
  <2>2. /\ q + 1 \in 1 .. p - 1 /\ s[q + 1] \in Marks
        /\ \A c \in q + 1 .. p - 1 : s[c] = Blank => n = 1 /\ (c = p - 1 \/ c = p - 3)
        /\ n = 1 => p - 2 \in q + 1 .. p - 1 /\ s[p - 2] \notin Marks /\ s[p - 2] # Blank
    BY <1>6 DEF Shape
  <2>3. t[q + 1] = s[q + 1]
    BY <2>2
  <2>4. n = 1 => t[p - 2] = s[p - 2]
    BY <2>1, <2>2
  <2>5. \A c \in q + 1 .. p - 1 : t[c] = Blank => n = 1 /\ (c = p - 1 \/ c = p - 3)
    BY <2>1, <2>2
  <2> QED  BY <1>1, <1>2, <1>3, <1>4, <1>6, <2>2, <2>3, <2>4, <2>5 DEF Shape
<1> QED  BY <1>5, <1>6

\* A text that begins with these words, and something behind it.
LEMMA BeginsThen ==
  ASSUME NEW s \in Seq(Char), NEW q \in 0 .. Len(s), NEW words, EndsAt(s, q), Spelled(s, 1, q, words),
         NEW y, Follows(y)
  PROVE  Begins(Join(s, y), words)
<1> DEFINE t == Join(s, y)
           ls == Len(s)
           ly == Len(y)
<1>1. y \in Seq(Char) /\ (y = <<>> \/ (ly >= 1 /\ y[1] = "|"))
  BY DEF Follows
<1>2. /\ Len(t) = ls + ly /\ ls \in Nat /\ ly \in Nat
      /\ \A i \in 1 .. ls : t[i] = s[i]
      /\ \A i \in 1 .. ly : t[i + ls] = y[i]
  BY <1>1, JoinIs
<1> HIDE DEF t
<1>3. q \in 0 .. ls /\ q \in Nat
  BY <1>2
<1>4. Spelled(t, 1, q, words)
  <2>1. PICK f : Spells(s, 1, q, words, f)
    BY DEF Spelled
  <2>2. \A k \in 1 .. q : t[k] = s[k]
    BY <1>2, <1>3
  <2>3. f \in [1 .. Len(words) -> 1 .. q]
    BY <2>1 DEF Spells
  <2>4. Spells(t, 1, q, words, f)
    BY <2>1, <2>2, <2>3 DEF Spells
  <2> QED  BY <2>4 DEF Spelled
<1>5. EndsAt(t, q)
  <2>1. CASE q = ls /\ y = <<>>
    <3>1. ly = 0
      BY <2>1
    <3> HIDE DEF ls, ly
    <3> QED  BY <1>2, <2>1, <3>1 DEF EndsAt
  <2>2. CASE q = ls /\ ly >= 1 /\ y[1] = "|"
    <3> HIDE DEF ls, ly
    <3>1. 1 \in 1 .. ly /\ q + 1 \in 1 .. Len(t) /\ 1 + ls = q + 1
      BY <1>2, <2>2
    <3>2. t[1 + ls] = y[1]
      BY <1>2, <3>1
    <3> QED  BY <2>2, <3>1, <3>2 DEF EndsAt, MarkAt, Marks
  <2>3. CASE MarkAt(s, q + 1)
    <3>1. q + 1 \in 1 .. ls /\ s[q + 1] \in Marks
      BY <2>3 DEF MarkAt
    <3>2. t[q + 1] = s[q + 1] /\ q + 1 \in 1 .. Len(t)
      <4> HIDE DEF ls, ly
      <4> QED  BY <1>2, <3>1
    <3> QED  BY <3>1, <3>2 DEF EndsAt, MarkAt
  <2> QED  BY <1>1, <2>1, <2>2, <2>3 DEF EndsAt
<1>6. q \in 0 .. Len(t)
  <2> HIDE DEF ls, ly
  <2> QED  BY <1>2, <1>3
<1> QED  BY <1>4, <1>5, <1>6 DEF Begins, t

\* The rest of a line behind its first segment, which is typed with n blanks, none or one.
Rest(t, p, first, second, n) ==
  /\ IsFirst(t, p, "|") /\ Begins(SubSeq(t, p + 1, Len(t)), second.words)
  /\ n \in {0, 1} => \E q : Shape(t, p, q, first.words, first.redir, n)

\* A line begins with the words of its first segment, and its rest with those of the second.
LEMMA LineBegins ==
  ASSUME NEW l \in Seq(Segment), l # <<>>, NEW n \in Nat, NEW t, t = LineText(l, n)
  PROVE  /\ t \in Seq(Char) /\ Begins(t, l[1].words)
         /\ Len(l) > 1 => \E p : Rest(t, p, l[1], l[2], n)
<1> DEFINE base == SegmentText(l[1], n)
           words == l[1].words
           redir == l[1].redir
<1>1. Len(l) \in Nat /\ Len(l) >= 1 /\ \A i \in 1 .. Len(l) : l[i] \in Segment
  BY SegmentsIn
<1>2. l[1] \in Segment
  BY <1>1
<1>3. base \in Seq(Char) /\ Says(base, redir)
  BY <1>2, SegmentSays DEF Says
<1>4. PICK q \in 0 .. Len(base) :
        /\ EndsAt(base, q) /\ Spelled(base, 1, q, words)
        /\ n \in {0, 1} => Shape(base, Len(base) + 1, q, words, redir, n)
  BY <1>2, SegmentShape
<1>5. CASE Len(l) = 1 /\ t = base
  <2>1. Begins(base, words)
    <3> HIDE DEF base, words
    <3> QED  BY <1>4 DEF Begins
  <2> QED  BY <1>3, <1>5, <2>1
<1>6. CASE Len(l) > 1 /\ Piped(t, base, SegmentText(l[2], n))
  <2> DEFINE second == SegmentText(l[2], n)
             bar == <<"|">>
  <2>1. l[2] \in Segment
    BY <1>1, <1>6
  <2>2. second \in Seq(Char)
    BY <2>1, SegmentSays DEF Says
  <2>3. PICK r \in 0 .. Len(second) : EndsAt(second, r) /\ Spelled(second, 1, r, l[2].words)
    BY <2>1, SegmentShape
  <2> HIDE DEF base, second, words, redir
  <2>4. PICK y : Follows(y) /\ t = Join(Join(base, bar), Join(second, y))
    BY <1>6 DEF Piped, second
  <2> DEFINE x == Join(second, y)
             z == Join(bar, x)
  <2>5. Begins(x, l[2].words)
    BY <2>2, <2>3, <2>4, BeginsThen
  <2>6. x \in Seq(Char)
    <3>1. y \in Seq(Char)
      BY <2>4 DEF Follows
    <3> QED  BY <2>2, <3>1, JoinIs
  <2> HIDE DEF x
  <2>7. bar \in Seq(Char) /\ Len(bar) = 1 /\ bar[1] = "|"
    <3>1. "|" \in Char
      BY PlainChars DEF Marks
    <3> QED  BY <3>1
  <2> HIDE DEF bar
  <2>8. z \in Seq(Char) /\ Len(z) >= 1 /\ z[1] = "|"
    <3>1. /\ z \in Seq(Char) /\ Len(z) = Len(bar) + Len(x) /\ Len(x) \in Nat
          /\ \A i \in 1 .. Len(bar) : z[i] = bar[i]
      BY <2>6, <2>7, JoinIs
    <3> HIDE DEF z
    <3> QED  BY <2>7, <3>1
  <2>9. t = Join(base, z)
    BY <1>3, <2>4, <2>6, <2>7, JoinAssoc DEF x
  <2> HIDE DEF z
  <2>10. Follows(z)
    BY <2>8 DEF Follows
  <2>11. Begins(t, words)
    BY <1>3, <1>4, <2>9, <2>10, BeginsThen
  <2> DEFINE p == Len(base) + 1
  <2>12. IsFirst(t, p, "|")
    <3>1. NoBar(base)
      BY <1>3 DEF Says, NoBar
    <3> QED  BY <1>3, <2>8, <2>9, <3>1, BarAt
  <2>13. /\ t \in Seq(Char) /\ Len(base) \in Nat
         /\ \A i \in 1 .. Len(base) : t[i] = base[i]
    <3> DEFINE w == Join(base, z)
    <3>1. w \in Seq(Char) /\ Len(base) \in Nat /\ \A i \in 1 .. Len(base) : w[i] = base[i]
      BY <1>3, <2>8, JoinIs
    <3> HIDE DEF w
    <3>2. t = w
      BY <2>9 DEF w
    <3> QED  BY <3>1, <3>2
  <2>14. SubSeq(t, p + 1, Len(t)) = x
    <3>1. HasHead(Join(Join(base, bar), x), redir)
          /\ \E o : /\ IsFirst(Join(Join(base, bar), x), o, "|")
                    /\ SubSeq(Join(Join(base, bar), x), o + 1, Len(Join(Join(base, bar), x))) = x
      BY <1>3, <2>6, TailThen DEF bar, redir
    <3>2. Join(Join(base, bar), x) = t
      BY <2>4 DEF x
    <3>3. PICK o : IsFirst(t, o, "|") /\ SubSeq(t, o + 1, Len(t)) = x
      BY <3>1, <3>2
    <3>4. o = p
      BY <2>12, <3>3, FirstOnce
    <3> QED  BY <3>3, <3>4
  <2>15. p \in Nat /\ p - 1 = Len(base)
    BY <2>13
  <2> HIDE DEF p
  <2>16. ASSUME n \in {0, 1} PROVE Shape(t, p, q, words, redir, n)
    <3>1. Shape(base, p, q, words, redir, n)
      BY <1>4, <2>16 DEF p
    <3>2. \A k \in 1 .. p - 1 : t[k] = base[k]
      BY <2>13, <2>15
    <3> QED  BY <2>15, <2>16, <3>1, <3>2, SameShape
  <2>17. Begins(SubSeq(t, p + 1, Len(t)), l[2].words)
    BY <2>5, <2>14
  <2>18. Rest(t, p, l[1], l[2], n)
    BY <2>12, <2>16, <2>17 DEF Rest, words, redir
  <2> QED  BY <2>11, <2>13, <2>18 DEF words
<1> QED  BY <1>5, <1>6, LineIs

\* getInput leaves a text that begins with the words of the second segment.
LEMMA RestRead ==
  ASSUME NEW t \in Seq(Char), NEW first \in Segment, NEW second \in Segment, NEW n \in Nat,
         NEW p, Rest(t, p, first, second, n), NEW inOut, NEW stray,
         \/ Len(second.words) <= 1 \/ n = 0
         \/ n = 1 /\ (first.redir = "none" \/ first.words # <<>>)
  PROVE  Begins(getInput(t, inOut, stray).tail, second.words)
<1> DEFINE s == strTrim(t)
<1>1. /\ IsFirst(t, p, "|") /\ Begins(SubSeq(t, p + 1, Len(t)), second.words)
      /\ n \in {0, 1} => \E q : Shape(t, p, q, first.words, first.redir, n)
  BY DEF Rest
<1>2. PICK e : Sparing(e, s, t, Len(t))
  BY TrimSparing DEF Spared
<1>3. getInput(t, inOut, stray).tail = searchStr(s, "|").tail
  BY InputFields
<1>4. Reduces(t, s)
  BY TrimReduces
<1> HIDE DEF s
<1>5. PICK h : IsFirst(s, h, "|")
  BY <1>1, <1>4, ReducesFirst
<1>6. e[h] = p
  BY <1>1, <1>2, <1>5, BarsMatch
<1>7. s \in Seq(Char)
  BY <1>2 DEF Sparing
<1>8. first.words \in Seq(Letter) /\ second.words \in Seq(Letter)
  BY SegmentIs
<1>9. h \in 1 .. Len(s) /\ p \in 1 .. Len(t) /\ t[p] = "|"
  BY <1>1, <1>5 DEF IsFirst
<1>10. Len(second.words) <= 1 \/ p <= h + 2
  <2> SUFFICES ASSUME ~ Len(second.words) <= 1 PROVE p <= h + 2
    OBVIOUS
  <2>1. n \in {0, 1} /\ (n = 0 \/ first.redir = "none" \/ first.words # <<>>)
    OBVIOUS
  <2>2. PICK q : Shape(t, p, q, first.words, first.redir, n)
    BY <1>1, <2>1
  <2> DEFINE words == first.words
             redir == first.redir
  <2>3. words \in Seq(Letter) /\ Shape(t, p, q, words, redir, n) /\ (n = 0 \/ redir = "none" \/ words # <<>>)
    BY <1>8, <2>1, <2>2
  <2> HIDE DEF words, redir
  <2> QED  BY <1>2, <1>6, <1>9, <2>1, <2>3, BarLag
<1>11. Begins(SubSeq(s, h + 1, Len(s)), second.words)
  BY <1>1, <1>2, <1>5, <1>8, <1>10, TrimRest
<1>12. searchStr(s, "|").tail = SubSeq(s, h + 1, Len(s))
  BY <1>5, <1>7, SearchAt
<1> QED  BY <1>3, <1>11, <1>12

\* The words a text begins with are characters of it.
LEMMA WordsIn ==
  ASSUME NEW t \in Seq(Char), NEW words \in Seq(Letter), Begins(t, words),
         NEW stray, stray \cap ToSet(t) = {}
  PROVE  \A i \in 1 .. Len(words) : words[i] \notin stray
<1>1. PICK q \in 0 .. Len(t) : \E f : Spells(t, 1, q, words, f)
  BY DEF Begins, Spelled
<1>2. Len(t) \in Nat /\ ToSet(t) = {t[k] : k \in 1 .. Len(t)}
  BY DEF ToSet
<1>3. ASSUME NEW i \in 1 .. Len(words) PROVE words[i] \in ToSet(t)
  <2>1. PICK f : Spells(t, 1, q, words, f)
    BY <1>1
  <2>2. f[i] \in 1 .. q /\ t[f[i]] = words[i]
    BY <2>1 DEF Spells
  <2>3. f[i] \in 1 .. Len(t)
    BY <1>2, <2>2
  <2> QED  BY <1>2, <2>2, <2>3
<1> QED  BY <1>3

\* FirstWords of all words are the arguments of a segment.
LEMMA ArgvIs ==
  ASSUME NEW seg, seg.words \in Seq(Letter)
  PROVE  FirstWords(seg.words, Len(seg.words)) = Argv(seg)
<1>1. DOMAIN seg.words = 1 .. Len(seg.words)
  OBVIOUS
<1> QED  BY <1>1 DEF FirstWords, Argv

\* What getInput makes of a line: the arguments of the first segment, and a text that
\* begins with the second one.
LEMMA LineInput ==
  ASSUME NEW l \in Seq(Segment), l # <<>>, NEW n \in Nat, NEW text, text = LineText(l, n),
         NEW inOut, NEW stray, NEW in, in = getInput(text, inOut, stray)
  PROVE  /\ stray \cap ToSet(text) = {} => in.argv = Argv(l[1])
         /\ Len(l) = 1 => in.tail = NULL
         /\ Len(l) > 1 =>
              /\ in.tail # NULL /\ HasHead(in.tail, l[2].redir)
              /\ Legible(l, n) => Begins(in.tail, l[2].words)
<1>1. Len(l) \in Nat /\ Len(l) >= 1 /\ \A i \in 1 .. Len(l) : l[i] \in Segment
  BY SegmentsIn
<1>2. l[1] \in Segment
  BY <1>1
<1>3. l[1].redir \in Redirs /\ l[1].words \in Seq(Letter)
  BY <1>2, SegmentIs
<1>4. /\ HasHead(text, l[1].redir)
      /\ Len(l) = 1 => NoBar(text)
      /\ Len(l) > 1 =>
           \E p : IsFirst(text, p, "|") /\ HasHead(SubSeq(text, p + 1, Len(text)), l[2].redir)
  BY LineSays
<1>5. /\ text \in Seq(Char) /\ Begins(text, l[1].words)
      /\ Len(l) > 1 => \E p : Rest(text, p, l[1], l[2], n)
  BY LineBegins
<1> DEFINE redir == l[1].redir
           words == l[1].words
<1>6. redir \in Redirs /\ words \in Seq(Letter) /\ HasHead(text, redir) /\ Begins(text, words)
  BY <1>3, <1>4, <1>5
<1> HIDE DEF redir, words
<1>7. /\ NoBar(text) => in.tail = NULL
      /\ \A p : IsFirst(text, p, "|") =>
           in.tail # NULL /\ Reduces(SubSeq(text, p + 1, Len(text)), in.tail)
  BY <1>6, InputIs
<1>8. ASSUME stray \cap ToSet(text) = {} PROVE in.argv = Argv(l[1])
  <2>1. \A i \in 1 .. Len(words) : words[i] \notin stray
    BY <1>5, <1>6, <1>8, WordsIn
  <2>2. in.argv = FirstWords(words, Len(words))
    BY <1>6, <2>1, InputWords
  <2> QED  BY <1>3, <2>2, ArgvIs DEF words
<1>9. ASSUME Len(l) > 1
      PROVE  /\ in.tail # NULL /\ HasHead(in.tail, l[2].redir)
             /\ Legible(l, n) => Begins(in.tail, l[2].words)
  <2>1. l[2] \in Segment
    <3>1. 2 \in 1 .. Len(l)
      BY <1>1, <1>9
    <3> QED  BY <1>1, <3>1
  <2>2. l[2].redir \in Redirs
    BY <2>1, SegmentIs
  <2>3. PICK p : IsFirst(text, p, "|") /\ HasHead(SubSeq(text, p + 1, Len(text)), l[2].redir)
    BY <1>4, <1>9
  <2>4. in.tail # NULL /\ Reduces(SubSeq(text, p + 1, Len(text)), in.tail)
    BY <1>7, <2>3
  <2>5. HasHead(in.tail, l[2].redir)
    BY <2>2, <2>3, <2>4, HeadReduced
  <2>6. ASSUME Legible(l, n) PROVE Begins(in.tail, l[2].words)
    <3>1. PICK o : Rest(text, o, l[1], l[2], n)
      BY <1>5, <1>9
    <3>2. \/ Len(l[2].words) <= 1 \/ n = 0
          \/ n = 1 /\ (l[1].redir = "none" \/ l[1].words # <<>>)
      BY <1>9, <2>6 DEF Legible
    <3> QED  BY <1>2, <1>5, <2>1, <3>1, <3>2, RestRead
  <2> QED  BY <2>4, <2>5, <2>6
<1> QED  BY <1>4, <1>7, <1>8, <1>9

\* What getInput finds in a line and in the rest it leaves, with no stray delimiters.
LEMMA LineWords ==
  ASSUME NEW l \in Seq(Segment), l # <<>>, NEW n \in Nat,
         NEW in, in = getInput(LineText(l, n), 0, {})
  PROVE  /\ WordsFound(LineText(l, n), l[1])
         /\ in.tail = NULL <=> Len(l) = 1
         /\ Len(l) > 1 /\ Legible(l, n) => WordsFound(in.tail, l[2])
<1> DEFINE text == LineText(l, n)
<1>1. Len(l) \in Nat /\ Len(l) >= 1 /\ \A i \in 1 .. Len(l) : l[i] \in Segment
  BY SegmentsIn
<1>2. /\ in.argv = Argv(l[1])
      /\ Len(l) = 1 => in.tail = NULL
      /\ Len(l) > 1 =>
           /\ in.tail # NULL /\ HasHead(in.tail, l[2].redir)
           /\ Legible(l, n) => Begins(in.tail, l[2].words)
  <2>1. {} \cap ToSet(text) = {}
    OBVIOUS
  <2> QED  BY <2>1, LineInput
<1>3. WordsFound(text, l[1])
  BY <1>2 DEF WordsFound
<1>4. ASSUME Len(l) > 1, Legible(l, n) PROVE WordsFound(in.tail, l[2])
  <2> DEFINE words == l[2].words
             redir == l[2].redir
             rest == in.tail
  <2>1. l[2] \in Segment
    <3>1. 2 \in 1 .. Len(l)
      BY <1>1, <1>4
    <3> QED  BY <1>1, <3>1
  <2>2. words \in Seq(Letter) /\ redir \in Redirs
    BY <2>1, SegmentIs
  <2>3. HasHead(rest, redir) /\ Begins(rest, words)
    BY <1>2, <1>4
  <2> HIDE DEF words, redir, rest
  <2>4. getInput(rest, 0, {}).argv = FirstWords(words, Len(words))
    <3> DEFINE stray == {}
    <3>1. \A i \in 1 .. Len(words) : words[i] \notin stray
      OBVIOUS
    <3> HIDE DEF stray
    <3>2. getInput(rest, 0, stray).argv = FirstWords(words, Len(words))
      BY <2>2, <2>3, <3>1, InputWords
    <3> QED  BY <3>2 DEF stray
  <2>5. FirstWords(words, Len(words)) = Argv(l[2])
    BY <2>2, ArgvIs DEF words
  <2> QED  BY <2>4, <2>5 DEF WordsFound, rest
<1>5. (Len(l) = 1 \/ Len(l) > 1) /\ (Len(l) > 1 => Len(l) # 1)
  <2> DEFINE len == Len(l)
  <2>1. len \in Nat /\ len >= 1
    BY <1>1
  <2> HIDE DEF len
  <2>2. (len = 1 \/ len > 1) /\ (len > 1 => len # 1)
    BY <2>1
  <2> QED  BY <2>2 DEF len
<1> QED  BY <1>2, <1>3, <1>4, <1>5

\* The lines WordsKept is about are lines.
LEMMA SmallLinesAre ==
  ASSUME NEW l \in SmallLines
  PROVE  l \in Seq(Segment) /\ l # <<>>
<1>1. ASSUME NEW seg \in Segments PROVE seg \in Segment
  <2>1. PICK words \in {<<>>, <<"a">>, <<"a", "b">>, <<"a", "b", "c">>}, redir \in Redirs :
          seg = Redirected(words, redir)
    BY DEF Segments
  <2>2. "a" \in Letter /\ "b" \in Letter /\ "c" \in Letter /\ "f" \in Letter
    <3>1. "a" \in STRING /\ "b" \in STRING /\ "c" \in STRING /\ "f" \in STRING
      BY LettersAssumption DEF WordLetters
    <3>2. \A c \in {"a", "b", "c", "f"} : c # Blank /\ c # Nul /\ c \notin Marks
      BY DEF Blank, Nul, Marks
    <3> QED  BY <3>1, <3>2 DEF Letter
  <2>3. words \in Seq(Letter)
    <3>1. CASE words = <<>>
      BY <3>1
    <3>2. CASE words = <<"a">>
      BY <2>2, <3>2
    <3>3. CASE words = <<"a", "b">>
      BY <2>2, <3>3
    <3>4. CASE words = <<"a", "b", "c">>
      BY <2>2, <3>4
    <3> QED  BY <2>1, <3>1, <3>2, <3>3, <3>4
  <2> QED  BY <2>1, <2>2, <2>3 DEF Redirected, Segment
<1>2. CASE l \in {<<seg>> : seg \in Segments}
  <2>1. PICK seg \in Segments : l = <<seg>>
    BY <1>2
  <2>2. seg \in Segment
    BY <1>1, <2>1
  <2> QED  BY <2>1, <2>2
<1>3. CASE l \in Segments \X Segments
  <2>1. PICK a \in Segments, b \in Segments : l = <<a, b>>
    BY <1>3
  <2>2. a \in Segment /\ b \in Segment
    BY <1>1, <2>1
  <2> QED  BY <2>1, <2>2
<1> QED  BY <1>2, <1>3 DEF SmallLines

-----------------------------------------------------------------------------
\* Descriptors

\* The descriptors of a process: stdin, stdout, the terminal and two more.
Fd(in, out, third, fourth) ==
  [n \in 0 .. 4 |-> IF n = 0 THEN in ELSE IF n = 1 THEN out ELSE IF n = 2 THEN Tty
                    ELSE IF n = 3 THEN third ELSE fourth]

\* What a descriptor may stand for that is not closed.
Ends(j) == {Tty, File, ReadEnd(j), WriteEnd(j)}

\* An open descriptor is not a closed one.
LEMMA EndsOpen == ASSUME NEW j PROVE \A d \in Ends(j) : d # Closed
<1>1. Tty # Closed
  BY DEF Tty, Closed
<1>2. File # Closed
  BY DEF File, Closed
<1>3. ReadEnd(j) # Closed
  BY DEF ReadEnd, Closed
<1>4. WriteEnd(j) # Closed
  BY DEF WriteEnd, Closed
<1> QED  BY <1>1, <1>2, <1>3, <1>4 DEF Ends

\* The descriptors of Fd, one by one.
LEMMA FdIs ==
  ASSUME NEW a, NEW b, NEW c, NEW d
  PROVE  /\ DOMAIN Fd(a, b, c, d) = 0 .. 4
         /\ Fd(a, b, c, d)[0] = a /\ Fd(a, b, c, d)[1] = b /\ Fd(a, b, c, d)[2] = Tty
         /\ Fd(a, b, c, d)[3] = c /\ Fd(a, b, c, d)[4] = d
  BY DEF Fd

\* A descriptor set.
Put(fd, n, what) == [fd EXCEPT ![n] = what]

\* close() sets one descriptor.
LEMMA CloseIs ==
  ASSUME NEW fd, NEW n PROVE close(fd, n) = Put(fd, n, Closed)
  BY Zenon DEF close, Put

\* One descriptor of Fd set.
LEMMA FdSet ==
  ASSUME NEW a, NEW b, NEW c, NEW d, NEW x
  PROVE  /\ Put(Fd(a, b, c, d), 0, x) = Fd(x, b, c, d)
         /\ Put(Fd(a, b, c, d), 1, x) = Fd(a, x, c, d)
         /\ Put(Fd(a, b, c, d), 3, x) = Fd(a, b, x, d)
         /\ Put(Fd(a, b, c, d), 4, x) = Fd(a, b, c, x)
<1> DEFINE t == Tty
<1> HIDE DEF t
<1>1. \A p, q, r, s : Fd(p, q, r, s) = [n \in 0 .. 4 |-> IF n = 0 THEN p ELSE IF n = 1 THEN q
        ELSE IF n = 2 THEN t ELSE IF n = 3 THEN r ELSE s]
  BY Zenon DEF Fd, t
<1>2. Put(Fd(a, b, c, d), 0, x) = Fd(x, b, c, d)
  BY <1>1 DEF Put
<1>3. Put(Fd(a, b, c, d), 1, x) = Fd(a, x, c, d)
  BY <1>1 DEF Put
<1>4. Put(Fd(a, b, c, d), 3, x) = Fd(a, b, x, d)
  BY <1>1 DEF Put
<1>5. Put(Fd(a, b, c, d), 4, x) = Fd(a, b, c, x)
  BY <1>1 DEF Put
<1> QED  BY <1>2, <1>3, <1>4, <1>5

\* What a child has from the shell: the terminal three times.
LEMMA InheritedFd == Inherited = Fd(Tty, Tty, Closed, Closed)
  BY DEF Inherited, Fd

\* The lowest free descriptor is the one taken.
LEMMA OpenedAt ==
  ASSUME NEW fd, NEW n \in 0 .. 4, fd[n] = Closed, \A k \in 0 .. 4 : k < n => fd[k] # Closed, NEW what
  PROVE  Opened(fd, what) = Put(fd, n, what)
<1> DEFINE S == {k \in 0 .. 4 : fd[k] = Closed}
<1>1. S \in SUBSET Nat /\ n \in S
  OBVIOUS
<1>2. Min(S) = n
  <2>1. Min(S) \in S /\ \A k \in S : Min(S) <= k
    <3> HIDE DEF S
    <3> QED  BY <1>1, MinIs
  <2>2. Min(S) <= n /\ Min(S) \in 0 .. 4 /\ ~(Min(S) < n)
    BY <1>1, <2>1
  <2> QED  BY <2>2
<1> QED  BY <1>2 DEF Opened, Put

\* pipe(): the third and the fourth descriptor are free.
LEMMA PipeOpened ==
  ASSUME NEW j
  PROVE  Opened(Opened(Inherited, ReadEnd(j)), WriteEnd(j)) = Fd(Tty, Tty, ReadEnd(j), WriteEnd(j))
<1>1. Tty # Closed /\ ReadEnd(j) # Closed
  BY EndsOpen DEF Ends
<1> DEFINE a == Fd(Tty, Tty, Closed, Closed)
           b == Fd(Tty, Tty, ReadEnd(j), Closed)
<1>2. a[3] = Closed /\ \A k \in 0 .. 4 : k < 3 => a[k] # Closed
  BY <1>1, FdIs
<1>3. Opened(a, ReadEnd(j)) = Put(a, 3, ReadEnd(j))
  <2> HIDE DEF a
  <2> QED  BY <1>2, OpenedAt
<1>4. Opened(a, ReadEnd(j)) = b
  BY <1>3, FdSet
<1>5. b[4] = Closed /\ \A k \in 0 .. 4 : k < 4 => b[k] # Closed
  BY <1>1, FdIs
<1>6. Opened(b, WriteEnd(j)) = Put(b, 4, WriteEnd(j))
  <2> HIDE DEF b
  <2> QED  BY <1>5, OpenedAt
<1>7. Opened(b, WriteEnd(j)) = Fd(Tty, Tty, ReadEnd(j), WriteEnd(j))
  BY <1>6, FdSet
<1> HIDE DEF a, b
<1> QED  BY <1>4, <1>7, InheritedFd DEF a

\* The head of a pipe has its write end as stdout and no other end.
LEMMA HeadPlumbed ==
  ASSUME NEW j
  PROVE  HeadStreams(Fd(Tty, Tty, ReadEnd(j), WriteEnd(j))) = Fd(Tty, WriteEnd(j), Closed, Closed)
<1>1. Tty # Closed /\ WriteEnd(j) # Closed
  BY EndsOpen DEF Ends
<1> DEFINE w == WriteEnd(j)
           a == Fd(Tty, Tty, ReadEnd(j), w)
           b == Fd(Tty, Closed, Closed, w)
           c == Fd(Tty, w, Closed, w)
<1>2. close(close(a, 3), 1) = b
  BY FdSet, CloseIs
<1>3. b[1] = Closed /\ b[4] = w /\ \A k \in 0 .. 4 : k < 1 => b[k] # Closed
  BY <1>1, FdIs
<1>4. dup(b, 4) = Put(b, 1, w)
  <2> HIDE DEF b, w
  <2> QED  BY <1>3, OpenedAt DEF dup
<1>5. dup(b, 4) = c
  BY <1>4, FdSet
<1>6. close(c, 4) = Fd(Tty, w, Closed, Closed)
  BY FdSet, CloseIs
<1>7. HeadStreams(a) = close(dup(close(close(a, 3), 1), 4), 4)
  BY DEF HeadStreams
<1> HIDE DEF a, b, c, w
<1>8. HeadStreams(a) = Fd(Tty, w, Closed, Closed)
  BY <1>2, <1>5, <1>6, <1>7
<1> QED  BY <1>8 DEF a, w

\* The tail of a pipe has its read end as stdin and no other end.
LEMMA TailPlumbed ==
  ASSUME NEW j
  PROVE  TailStreams(Fd(Tty, Tty, ReadEnd(j), WriteEnd(j))) = Fd(ReadEnd(j), Tty, Closed, Closed)
<1> DEFINE r == ReadEnd(j)
           a == Fd(Tty, Tty, r, WriteEnd(j))
           b == Fd(Closed, Tty, r, Closed)
           c == Fd(r, Tty, r, Closed)
<1>2. close(close(a, 4), 0) = b
  BY FdSet, CloseIs
<1>3. b[0] = Closed /\ b[3] = r /\ \A k \in 0 .. 4 : k < 0 => b[k] # Closed
  BY FdIs
<1>4. dup(b, 3) = Put(b, 0, r)
  <2> HIDE DEF b, r
  <2> QED  BY <1>3, OpenedAt DEF dup
<1>5. dup(b, 3) = c
  BY <1>4, FdSet
<1>6. close(c, 3) = Fd(r, Tty, Closed, Closed)
  BY FdSet, CloseIs
<1>7. TailStreams(a) = close(dup(close(close(a, 4), 0), 3), 3)
  BY DEF TailStreams
<1> HIDE DEF a, b, c, r
<1>8. TailStreams(a) = Fd(r, Tty, Closed, Closed)
  BY <1>2, <1>5, <1>6, <1>7
<1> QED  BY <1>8 DEF a, r

\* A file opened for the stream just closed gets its descriptor, when no lower
\* one is free.
LEMMA FileOpened ==
  ASSUME NEW in, NEW out
  PROVE  /\ Opened(close(Fd(in, out, Closed, Closed), 0), File) = Fd(File, out, Closed, Closed)
         /\ close(Fd(in, out, Closed, Closed), 0) = Fd(Closed, out, Closed, Closed)
         /\ close(Fd(in, out, Closed, Closed), 1) = Fd(in, Closed, Closed, Closed)
         /\ in # Closed =>
              Opened(close(Fd(in, out, Closed, Closed), 1), File) = Fd(in, File, Closed, Closed)
<1> DEFINE a == Fd(in, out, Closed, Closed)
           b == Fd(Closed, out, Closed, Closed)
           c == Fd(in, Closed, Closed, Closed)
<1>1. close(a, 0) = b /\ close(a, 1) = c
  BY FdSet, CloseIs
<1>2. b[0] = Closed /\ \A k \in 0 .. 4 : k < 0 => b[k] # Closed
  BY FdIs
<1>3. Opened(b, File) = Put(b, 0, File)
  <2> HIDE DEF b
  <2> QED  BY <1>2, OpenedAt
<1>4. Opened(b, File) = Fd(File, out, Closed, Closed)
  BY <1>3, FdSet
<1>5. ASSUME in # Closed PROVE Opened(c, File) = Fd(in, File, Closed, Closed)
  <2>1. c[1] = Closed /\ \A k \in 0 .. 4 : k < 1 => c[k] # Closed
    BY <1>5, FdIs
  <2>2. Opened(c, File) = Put(c, 1, File)
    <3> HIDE DEF c
    <3> QED  BY <2>1, OpenedAt
  <2> QED  BY <2>2, FdSet
<1> HIDE DEF a, b, c
<1>6. /\ Opened(close(a, 0), File) = Fd(File, out, Closed, Closed) /\ close(a, 0) = b
      /\ close(a, 1) = c
      /\ in # Closed => Opened(close(a, 1), File) = Fd(in, File, Closed, Closed)
  BY <1>1, <1>4, <1>5
<1> QED  BY <1>6 DEF a, b, c
-----------------------------------------------------------------------------
\* The invariant

\* All lines are typed so that strTrim keeps the words of their tails apart.
AllLegible == \A l \in Lines, n \in Gaps : Legible(l, n)

\* The text of a tail: the segment behind the first '|' of the line is its head, and
\* its words are those of the text if every line is legible.
TailText(text, line) ==
  /\ text \in Texts /\ HasHead(text, line[2].redir)
  /\ AllLegible => Begins(text, line[2].words)

\* The arguments of the k-th process of a line are the words of its segment.  A tail
\* has those of its head until it has read its own.
ArgvOK(q, k) == q.stray = {} /\ (k = 1 \/ AllLegible) => q.input.argv = Argv(q.seg)

\* The streams a program of the k-th process of line j should be given: what
\* StreamsAsWritten says, of any descriptors.
RightStreams(fd, redir, j, k, line) ==
  /\ fd[0] \in IF redir = "in" THEN {File, Closed} ELSE IF k = 2 THEN {ReadEnd(j)} ELSE {Tty}
  /\ fd[1] \in IF redir \in {"out", "append"} THEN {File, Closed}
               ELSE IF k = 1 /\ Len(line) > 1 THEN {WriteEnd(j)} ELSE {Tty}
  /\ fd[3] = Closed /\ fd[4] = Closed

\* The fields of a process.
Shaped(q) ==
  /\ {"st", "seg", "stray", "input", "fd", "left", "more"} \subseteq DOMAIN q
  /\ {"argv", "redirPath", "inOut", "tail"} \subseteq DOMAIN q.input

\* Where a process may be.
States == {"none", "pipe", "plumb", "input", "command", "exec", "run", "zombie", "gone"}

\* The fields of a process have their types.
Bounded(q) ==
  /\ q.st \in States
  /\ q.input.argv \in Seq(Word) /\ q.input.inOut \in 0 .. 3
  /\ q.fd \in [0 .. 4 -> Descriptors]
  /\ q.left \in 0 .. Units + 1 /\ q.more \in 0 .. Units

\* A process between its fork() and its exit().
Live(q) == q.st \notin {"none", "zombie", "gone"}

\* The descriptors right after pipe().
Plumbed(j) == Fd(Tty, Tty, ReadEnd(j), WriteEnd(j))
\* The descriptors of a head that is ready to redirect.
HeadFd(j, line) == Fd(Tty, IF Len(line) > 1 THEN WriteEnd(j) ELSE Tty, Closed, Closed)
\* The descriptors of a tail that is ready to redirect.
TailFd(j) == Fd(ReadEnd(j), Tty, Closed, Closed)

\* What the process of the first segment holds, wherever it is: the redirection
\* written, the text of the rest until it is handed on, and its descriptors.
HeadAt(q, j, line) ==
  /\ q.st \in {"pipe", "plumb", "command", "exec", "run"}
  /\ q.seg = line[1]
  /\ q.st \in {"pipe", "plumb", "command"} => q.input.inOut = InOutOf(q.seg.redir, 0)
  /\ q.st \in {"pipe", "plumb"} => Len(line) > 1
  /\ q.st = "pipe" => TailText(q.input.tail, line) /\ q.fd = Inherited
  /\ q.st = "plumb" => q.fd = Plumbed(j)
  /\ q.st = "command" => q.fd = HeadFd(j, line)
  /\ q.st \in {"exec", "run"} => RightStreams(q.fd, q.seg.redir, j, 1, line)

\* What the process behind the '|' holds, wherever it is.  It starts with the inOut
\* its head left it, so a redirection of the head is still there: the program has
\* the right streams where the head has none (see StreamsAsWritten).
TailAt(q, j, line) ==
  /\ q.st \in {"plumb", "input", "command", "exec", "run"}
  /\ Len(line) > 1
  /\ q.st \in {"plumb", "input"} =>
       TailText(q.input.tail, line) /\ q.input.inOut = InOutOf(line[1].redir, 0)
  /\ q.st = "plumb" => q.fd = Plumbed(j)
  /\ q.st \in {"input", "command"} => q.fd = TailFd(j)
  /\ q.st = "command" =>
       q.seg.redir \in Redirs /\ q.input.inOut = InOutOf(q.seg.redir, InOutOf(line[1].redir, 0))
  /\ q.st \in {"exec", "run"} /\ line[1].redir = "none" =>
       RightStreams(q.fd, q.seg.redir, j, 2, line)

\* A process is as it should be.
ProcOK(q, j, k, lines) ==
  /\ Shaped(q) /\ Bounded(q)
  /\ Live(q) => /\ j <= Len(lines) /\ ArgvOK(q, k)
                /\ k = 1 => HeadAt(q, j, lines[j])
                /\ k = 2 => TailAt(q, j, lines[j])

\* The inductive invariant: every process of every line holds what the line says.
Inv ==
  /\ shell \in {"prompt", "wait", "exited"}
  /\ typed \in Seq(Lines) /\ Len(typed) <= MaxLines
  /\ pipe \in [Jobs -> 0 .. PipeCap]
  /\ DOMAIN proc = Procs
  /\ \A j \in Jobs, k \in {1, 2} : ProcOK(proc[<<j, k>>], j, k, typed)

\* The invariant gives the types.
LEMMA InvTyped == Inv => TypeOK
<1> SUFFICES ASSUME Inv PROVE TypeOK
  OBVIOUS
<1>1. ASSUME NEW p \in Procs PROVE Bounded(proc[p])
  <2>1. PICK j \in Jobs, k \in {1, 2} : p = <<j, k>>
    BY DEF Procs
  <2>2. ProcOK(proc[<<j, k>>], j, k, typed)
    BY DEF Inv
  <2> QED  BY <2>1, <2>2 DEF ProcOK
<1>2. shell \in {"prompt", "wait", "exited"} /\ typed \in Seq(Lines) /\ Len(typed) <= MaxLines
      /\ DOMAIN proc = Procs /\ pipe \in [Jobs -> 0 .. PipeCap]
  BY DEF Inv
<1> QED  BY <1>1, <1>2 DEF TypeOK, Bounded, States

\* RightStreams is the property that the runs check.
LEMMA StreamsSame ==
  ASSUME NEW j, NEW k \in {1, 2}
  PROVE  StreamsRight(<<j, k>>) <=>
           RightStreams(proc[<<j, k>>].fd, proc[<<j, k>>].seg.redir, j, k, typed[j])
<1> DEFINE q == proc[<<j, k>>]
<1>1. WantIn(<<j, k>>) = IF q.seg.redir = "in" THEN {File, Closed}
                         ELSE IF k = 2 THEN {ReadEnd(j)} ELSE {Tty}
  BY DEF WantIn
<1>2. WantOut(<<j, k>>) = IF q.seg.redir \in {"out", "append"} THEN {File, Closed}
                          ELSE IF k = 1 /\ Len(typed[j]) > 1 THEN {WriteEnd(j)} ELSE {Tty}
  BY DEF WantOut
<1> QED  BY <1>1, <1>2 DEF StreamsRight, RightStreams

\* The invariant gives the streams of every program that runs.
LEMMA InvStreams == Inv => StreamsAsWritten
<1> SUFFICES ASSUME Inv, NEW p \in Procs, proc[p].st = "run", p[2] = 2 => typed[p[1]][1].redir = "none"
             PROVE  StreamsRight(p)
  BY DEF StreamsAsWritten
<1>1. PICK j \in Jobs, k \in {1, 2} : p = <<j, k>>
  BY DEF Procs
<1> DEFINE q == proc[<<j, k>>]
<1>2. q.st = "run" /\ (k = 2 => typed[j][1].redir = "none")
  BY <1>1
<1>3. ProcOK(q, j, k, typed)
  BY DEF Inv
<1> HIDE DEF q
<1>4. (k = 1 => HeadAt(q, j, typed[j])) /\ (k = 2 => TailAt(q, j, typed[j]))
  BY <1>2, <1>3 DEF ProcOK, Live
<1>5. RightStreams(q.fd, q.seg.redir, j, k, typed[j])
  <2>1. CASE k = 1
    BY <1>2, <1>4, <2>1 DEF HeadAt
  <2>2. CASE k = 2
    BY <1>2, <1>4, <2>2 DEF TailAt
  <2> QED  BY <2>1, <2>2
<1>6. StreamsRight(<<j, k>>)
  BY <1>5, StreamsSame DEF q
<1> QED  BY <1>1, <1>6

\* The invariant gives the words of every head that runs, and those of every tail
\* if every line is legible.
LEMMA InvArgv ==
  ASSUME Inv, NEW j \in Jobs, NEW k \in {1, 2}, k = 1 \/ AllLegible,
         proc[<<j, k>>].st = "run", proc[<<j, k>>].stray = {}
  PROVE  proc[<<j, k>>].input.argv = Argv(proc[<<j, k>>].seg)
<1> DEFINE q == proc[<<j, k>>]
<1>1. ProcOK(q, j, k, typed)
  BY DEF Inv
<1>2. q.st = "run" /\ q.stray = {}
  OBVIOUS
<1> HIDE DEF q
<1>3. ArgvOK(q, k)
  BY <1>1, <1>2 DEF ProcOK, Live
<1>4. q.input.argv = Argv(q.seg)
  BY <1>2, <1>3 DEF ArgvOK
<1> QED  BY <1>4 DEF q

\* A process that has not been started.
LEMMA NoProcIs ==
  /\ Shaped(NoProc) /\ Bounded(NoProc) /\ NoProc.st = "none" /\ NoProc.fd = Inherited
  /\ NoProc.input.inOut = 0
<1>1. Shaped(NoProc)
  BY DEF NoProc, Shaped
<1>2. NoProc.fd \in [0 .. 4 -> Descriptors]
  BY DEF NoProc, Inherited, Descriptors
<1>3. NoProc.input.argv \in Seq(Word)
  <2>1. NoProc.input.argv = <<>>
    BY DEF NoProc
  <2> QED  BY <2>1
<1>4. /\ NoProc.st = "none" /\ NoProc.input.inOut = 0 /\ NoProc.left = 0 /\ NoProc.more = 0
      /\ NoProc.fd = Inherited
  BY DEF NoProc
<1>5. 0 \in 0 .. Units + 1 /\ 0 \in 0 .. Units
  BY BoundsAssumption
<1> QED  BY <1>1, <1>2, <1>3, <1>4, <1>5 DEF Bounded, States

\* At the first prompt there is none.
LEMMA InitInv == Init => Inv
<1> SUFFICES ASSUME Init PROVE Inv
  OBVIOUS
<1>1. ASSUME NEW j \in Jobs, NEW k \in {1, 2} PROVE ProcOK(proc[<<j, k>>], j, k, typed)
  <2>1. proc[<<j, k>>] = NoProc
    BY DEF Init, Procs
  <2> QED  BY <2>1, NoProcIs DEF ProcOK, Live
<1>2. shell = "prompt" /\ typed = <<>> /\ DOMAIN proc = Procs
  BY DEF Init
<1>3. pipe \in [Jobs -> 0 .. PipeCap]
  BY BoundsAssumption DEF Init
<1>4. typed \in Seq(Lines) /\ Len(typed) <= MaxLines
  BY <1>2, BoundsAssumption
<1> QED  BY <1>1, <1>2, <1>3, <1>4 DEF Inv
-----------------------------------------------------------------------------
\* The steps

\* inOut stays 0, 1, 2 or 3.
LEMMA InOutRange ==
  ASSUME NEW redir, NEW before \in 0 .. 3 PROVE InOutOf(redir, before) \in 0 .. 3
  BY DEF InOutOf

\* The empty text redirects nothing.
LEMMA NothingTyped ==
  /\ HasHead(<<>>, "none")
  /\ \A redir \in Redirs : HasHead(<<>>, redir) => redir = "none"
<1>1. <<>> \in Seq(Char) /\ Len(<<>>) = 0 /\ 1 .. 0 = {}
  OBVIOUS
<1>2. HasHead(<<>>, "none")
  BY <1>1 DEF HasHead, NoBar, Says
<1>3. ASSUME NEW redir \in Redirs, HasHead(<<>>, redir) PROVE redir = "none"
  <2>1. ~ \E p : IsFirst(<<>>, p, "|")
    BY <1>1 DEF IsFirst
  <2>2. Says(<<>>, redir)
    BY <1>3, <2>1 DEF HasHead
  <2> QED  BY <1>1, <2>2 DEF Says, Redirs
<1> QED  BY <1>2, <1>3

\* getInput returns all fields.
LEMMA InputDomain ==
  ASSUME NEW text, NEW before, NEW stray
  PROVE  {"argv", "redirPath", "inOut", "tail"} \subseteq DOMAIN getInput(text, before, stray)
<1> DEFINE in == getInput(text, before, stray)
<1>1. in = [argv |-> in.argv, redirPath |-> in.redirPath, inOut |-> in.inOut, tail |-> in.tail]
  BY InputFields
<1> HIDE DEF in
<1>2. {"argv", "redirPath", "inOut", "tail"} \subseteq DOMAIN in
  BY <1>1
<1> QED  BY <1>2 DEF in

\* What getInput finds in a line typed.
LEMMA LineRead ==
  ASSUME NEW l \in Lines, NEW n \in Gaps, NEW before \in 0 .. 3, NEW stray \in Strays
  PROVE  LET in == getInput(LineText(l, n), before, stray)
         IN  /\ in.argv \in Seq(Word) /\ in.inOut = InOutOf(l[1].redir, before)
             /\ stray \cap ToSet(LineText(l, n)) = {} => in.argv = Argv(l[1])
             /\ Len(l) = 1 => in.tail = NULL
             /\ Len(l) > 1 => in.tail # NULL /\ TailText(in.tail, l)
<1> DEFINE text == LineText(l, n)
           in == getInput(text, before, stray)
<1>1. l[1].redir \in Redirs /\ n \in Nat /\ Len(l) >= 1 /\ Len(l) \in Nat
  <2>1. Len(l) \in Nat /\ Len(l) >= 1 /\ \A i \in 1 .. Len(l) : l[i] \in Segment
    BY SegmentsOf
  <2>2. l[1] \in Segment
    BY <2>1
  <2>3. l[1].redir \in Redirs
    BY <2>2, SegmentIs
  <2>4. n \in Nat
    BY TypingAssumption
  <2> QED  BY <2>1, <2>3, <2>4
<1>2. /\ HasHead(text, l[1].redir)
      /\ Len(l) = 1 => NoBar(text)
      /\ Len(l) > 1 =>
           \E p : IsFirst(text, p, "|") /\ HasHead(SubSeq(text, p + 1, Len(text)), l[2].redir)
  BY <1>1, SegmentsOf, LineSays
<1>3. in.tail = searchStr(strTrim(text), "|").tail
  BY InputFields
<1>4. in.tail \in Texts
  BY <1>3, TextIs
<1>7. /\ stray \cap ToSet(text) = {} => in.argv = Argv(l[1])
      /\ Len(l) > 1 /\ Legible(l, n) => Begins(in.tail, l[2].words)
  BY <1>1, SegmentsOf, LineInput
<1> HIDE DEF text
<1>5. /\ in.argv \in Seq(Word) /\ in.inOut = InOutOf(l[1].redir, before)
      /\ NoBar(text) => in.tail = NULL
      /\ \A p : IsFirst(text, p, "|") =>
           in.tail # NULL /\ Reduces(SubSeq(text, p + 1, Len(text)), in.tail)
  BY <1>1, <1>2, InputIs
<1> HIDE DEF in
<1>6. ASSUME Len(l) > 1 PROVE in.tail # NULL /\ TailText(in.tail, l)
  <2>1. PICK p : IsFirst(text, p, "|") /\ HasHead(SubSeq(text, p + 1, Len(text)), l[2].redir)
    BY <1>2, <1>6
  <2>2. in.tail # NULL /\ Reduces(SubSeq(text, p + 1, Len(text)), in.tail)
    BY <1>5, <2>1
  <2>3. l[2].redir \in Redirs
    <3>1. 2 \in 1 .. Len(l)
      BY <1>1, <1>6
    <3>2. l[2] \in Segment
      BY <3>1, SegmentsOf
    <3> QED  BY <3>2, SegmentIs
  <2>4. HasHead(in.tail, l[2].redir)
    BY <2>1, <2>2, <2>3, HeadReduced
  <2>5. AllLegible => Begins(in.tail, l[2].words)
    BY <1>6, <1>7 DEF AllLegible
  <2> QED  BY <1>4, <2>2, <2>4, <2>5 DEF TailText
<1> QED  BY <1>2, <1>5, <1>6, <1>7 DEF in, text

\* getInput stores into a process and leaves the rest of it alone.
LEMMA WithInputIs ==
  ASSUME NEW q, Shaped(q), q.input.inOut \in 0 .. 3,
         NEW text \in Texts, NEW seg, NEW stray \in Strays
  PROVE  LET w == WithInput(q, text, seg, stray)
         IN  /\ Shaped(w) /\ w.seg = seg /\ w.input = getInput(text, q.input.inOut, stray)
             /\ w.stray = stray \cap ToSet(text)
             /\ w.st = q.st /\ w.fd = q.fd /\ w.left = q.left /\ w.more = q.more
<1> DEFINE x == (CHOOSE i \in Inputs : i[1] = <<text, q.input.inOut, stray>>)[2]
           w == WithInput(q, text, seg, stray)
           y == stray \cap ToSet(text)
<1>1. x = getInput(text, q.input.inOut, stray)
  BY InputFound
<1>2. w = [q EXCEPT !.seg = seg, !.stray = y, !.input = x]
  BY Zenon DEF WithInput
<1>3. {"argv", "redirPath", "inOut", "tail"} \subseteq DOMAIN x
  BY <1>1, InputDomain
<1> HIDE DEF x, w, y
<1>4. w.seg = seg /\ w.stray = y /\ w.input = x /\ w.st = q.st /\ w.fd = q.fd /\ w.left = q.left /\ w.more = q.more
  BY <1>2 DEF Shaped
<1>5. Shaped(w)
  BY <1>2, <1>3, <1>4 DEF Shaped
<1> QED  BY <1>1, <1>4, <1>5 DEF w, y

\* What a step may do to the processes: those it changes are as they should be.
LEMMA StepInv ==
  ASSUME Inv, shell' \in {"prompt", "wait", "exited"}, typed' = typed,
         pipe' \in [Jobs -> 0 .. PipeCap], DOMAIN proc' = Procs,
         \A j \in Jobs, k \in {1, 2} :
           proc'[<<j, k>>] = proc[<<j, k>>] \/ ProcOK(proc'[<<j, k>>], j, k, typed)
  PROVE  Inv'
<1>1. \A j \in Jobs, k \in {1, 2} : ProcOK(proc'[<<j, k>>], j, k, typed)
  BY DEF Inv
<1> QED  BY <1>1 DEF Inv

\* A line is typed: getInput() in the shell, and fork() unless it is empty or exit.
LEMMA TypeKeepsInv ==
  ASSUME Inv, NEW l \in Lines, NEW n \in Gaps, NEW stray \in Strays, Type(l, n, stray)
  PROVE  Inv'
<1> DEFINE q == WithInput(NoProc, LineText(l, n), l[1], stray)
           m == Len(typed) + 1
           in == getInput(LineText(l, n), 0, stray)
<1>1. /\ Len(typed) \in Nat /\ Len(typed) < MaxLines /\ typed' = Append(typed, l)
      /\ typed \in Seq(Lines) /\ pipe' = pipe /\ DOMAIN proc = Procs
  BY DEF Type, Inv
<1>2. m \in Jobs /\ Len(typed') = m /\ typed' \in Seq(Lines) /\ Len(typed') <= MaxLines
  BY <1>1, BoundsAssumption DEF Jobs
<1>3. typed'[m] = l /\ \A j \in 1 .. Len(typed) : typed'[j] = typed[j]
  BY <1>1
<1>4. ASSUME NEW j \in Jobs, NEW k \in {1, 2}
      PROVE  ProcOK(proc[<<j, k>>], j, k, typed')
  <2>1. ProcOK(proc[<<j, k>>], j, k, typed)
    BY DEF Inv
  <2>2. CASE Live(proc[<<j, k>>])
    <3>1. j \in 1 .. Len(typed)
      BY <1>1, <2>1, <2>2 DEF ProcOK, Jobs
    <3>2. typed'[j] = typed[j] /\ j <= Len(typed')
      BY <1>1, <1>2, <1>3, <3>1
    <3> QED  BY <2>1, <3>2 DEF ProcOK
  <2>3. CASE ~Live(proc[<<j, k>>])
    BY <2>1, <2>3 DEF ProcOK
  <2> QED  BY <2>2, <2>3
<1>5. \/ shell' \in {"exited", "prompt"} /\ UNCHANGED proc
      \/ /\ shell' = "wait"
         /\ proc' = [proc EXCEPT ![Head1(m)] =
                       [q EXCEPT !.st = IF q.input.tail = NULL THEN "command" ELSE "pipe"]]
  <2> HIDE DEF q
  <2> QED  BY DEF Type, q
<1>6. shell' \in {"prompt", "wait", "exited"}
  BY <1>5
<1>7. pipe' \in [Jobs -> 0 .. PipeCap]
  BY <1>1 DEF Inv
<1> HIDE DEF m
<1>8. CASE UNCHANGED proc
  BY <1>1, <1>2, <1>4, <1>6, <1>7, <1>8 DEF Inv
<1>9. ASSUME proc' = [proc EXCEPT ![Head1(m)] =
                        [q EXCEPT !.st = IF q.input.tail = NULL THEN "command" ELSE "pipe"]]
      PROVE  Inv'
  <2> DEFINE r == [q EXCEPT !.st = IF q.input.tail = NULL THEN "command" ELSE "pipe"]
  <2>1. LineText(l, n) \in Texts
    BY TextIs
  <2>2. Shaped(NoProc) /\ NoProc.input.inOut = 0 /\ NoProc.fd = Inherited /\ Bounded(NoProc)
    BY NoProcIs
  <2>3. /\ Shaped(q) /\ q.seg = l[1] /\ q.input = in /\ q.stray = stray \cap ToSet(LineText(l, n))
        /\ q.st = NoProc.st /\ q.fd = NoProc.fd /\ q.left = NoProc.left /\ q.more = NoProc.more
    BY <2>1, <2>2, WithInputIs
  <2>4. /\ in.argv \in Seq(Word) /\ in.inOut = InOutOf(l[1].redir, 0)
        /\ stray \cap ToSet(LineText(l, n)) = {} => in.argv = Argv(l[1])
        /\ Len(l) = 1 => in.tail = NULL
        /\ Len(l) > 1 => in.tail # NULL /\ TailText(in.tail, l)
    BY LineRead
  <2>5. in.inOut \in 0 .. 3
    BY <2>4, InOutRange
  <2>6. Len(l) = 1 \/ Len(l) > 1
    <3> DEFINE len == Len(l)
    <3>1. len \in Nat /\ len >= 1
      BY SegmentsOf
    <3> HIDE DEF len
    <3>2. len = 1 \/ len > 1
      BY <3>1
    <3> QED  BY <3>2 DEF len
  <2> HIDE DEF q, in
  <2>7. /\ Shaped(r) /\ r.seg = l[1] /\ r.input = in /\ r.fd = Inherited /\ r.stray = q.stray
        /\ r.left = NoProc.left /\ r.more = NoProc.more
        /\ r.st = IF in.tail = NULL THEN "command" ELSE "pipe"
    BY <2>2, <2>3 DEF Shaped
  <2> HIDE DEF r
  <2>8. Bounded(r)
    BY <2>2, <2>4, <2>5, <2>7 DEF Bounded, States
  <2>9. HeadAt(r, m, l)
    <3>1. CASE Len(l) = 1
      <4>1. r.st = "command" /\ ~(Len(l) > 1)
        BY <2>4, <2>7, <3>1
      <4>2. r.fd = HeadFd(m, l)
        BY <2>7, <4>1, InheritedFd DEF HeadFd
      <4> QED  BY <2>4, <2>7, <4>1, <4>2 DEF HeadAt
    <3>2. CASE Len(l) > 1
      <4>1. r.st = "pipe"
        BY <2>4, <2>7, <3>2
      <4> QED  BY <2>4, <2>7, <3>2, <4>1 DEF HeadAt
    <3> QED  BY <2>6, <3>1, <3>2
  <2>a. ArgvOK(r, 1)
    BY <2>3, <2>4, <2>7 DEF ArgvOK
  <2>10. ProcOK(r, m, 1, typed')
    BY <1>2, <1>3, <2>7, <2>8, <2>9, <2>a DEF ProcOK, Live
  <2>11. Head1(m) = <<m, 1>> /\ proc' = [proc EXCEPT ![<<m, 1>>] = r]
    BY <1>9 DEF Head1, r
  <2>12. ASSUME NEW j \in Jobs, NEW k \in {1, 2} PROVE ProcOK(proc'[<<j, k>>], j, k, typed')
    <3>1. <<j, k>> \in Procs
      BY DEF Procs
    <3>2. CASE j = m /\ k = 1
      <4>1. proc'[<<j, k>>] = r
        BY <1>1, <2>11, <3>1, <3>2
      <4> QED  BY <2>10, <3>2, <4>1
    <3>3. CASE ~(j = m /\ k = 1)
      <4>1. proc'[<<j, k>>] = proc[<<j, k>>]
        BY <1>1, <2>11, <3>1, <3>3
      <4> QED  BY <1>4, <4>1
    <3> QED  BY <3>2, <3>3
  <2>13. DOMAIN proc' = Procs
    BY <1>1, <2>11
  <2> QED  BY <1>2, <1>6, <1>7, <2>12, <2>13 DEF Inv
<1> QED  BY <1>5, <1>8, <1>9

\* The ends of the pipe are descriptors.
LEMMA PlumbedType == ASSUME NEW j \in Jobs PROVE Plumbed(j) \in [0 .. 4 -> Descriptors]
  BY DEF Plumbed, Fd, Descriptors

\* What the streams are set to are descriptors.
LEMMA FdType ==
  ASSUME NEW j \in Jobs, NEW a \in {Tty, Closed, File, ReadEnd(j), WriteEnd(j)},
         NEW b \in {Tty, Closed, File, ReadEnd(j), WriteEnd(j)}
  PROVE  Fd(a, b, Closed, Closed) \in [0 .. 4 -> Descriptors]
<1>1. a \in Descriptors /\ b \in Descriptors /\ Tty \in Descriptors /\ Closed \in Descriptors
  BY DEF Descriptors
<1> QED  BY <1>1 DEF Fd

\* A process that has ended owes nothing.
LEMMA ExitedOK == ASSUME NEW p, NEW j, NEW k, NEW lines PROVE ProcOK(Exited(p), j, k, lines)
<1> DEFINE q == Exited(p)
<1>1. /\ Shaped(NoProc) /\ Bounded(NoProc)
  BY NoProcIs
<1>2. PICK st \in {"zombie", "gone"} : q = [NoProc EXCEPT !.st = st]
  BY Zenon DEF Exited
<1> HIDE DEF q
<1>3. /\ Shaped(q) /\ q.st = st /\ q.input = NoProc.input /\ q.fd = NoProc.fd
      /\ q.left = NoProc.left /\ q.more = NoProc.more
  BY <1>1, <1>2 DEF Shaped
<1>4. Bounded(q)
  BY <1>1, <1>3 DEF Bounded, States
<1>5. ProcOK(q, j, k, lines)
  BY <1>3, <1>4 DEF ProcOK, Live
<1> QED  BY <1>5 DEF q

\* What the invariant says of one process.
LEMMA InvProc ==
  ASSUME Inv, NEW j \in Jobs, NEW k \in {1, 2}
  PROVE  /\ <<j, k>> \in Procs /\ <<j, k>> \in DOMAIN proc
         /\ Shaped(proc[<<j, k>>]) /\ Bounded(proc[<<j, k>>])
         /\ Live(proc[<<j, k>>]) =>
              /\ j \in 1 .. Len(typed) /\ typed[j] \in Lines /\ ArgvOK(proc[<<j, k>>], k)
              /\ k = 1 => HeadAt(proc[<<j, k>>], j, typed[j])
              /\ k = 2 => TailAt(proc[<<j, k>>], j, typed[j])
<1>1. <<j, k>> \in Procs /\ DOMAIN proc = Procs
  BY DEF Inv, Procs
<1>2. ProcOK(proc[<<j, k>>], j, k, typed) /\ typed \in Seq(Lines)
  BY DEF Inv
<1>3. ASSUME Live(proc[<<j, k>>]) PROVE j \in 1 .. Len(typed) /\ typed[j] \in Lines
  BY <1>2, <1>3 DEF ProcOK, Jobs
<1> QED  BY <1>1, <1>2, <1>3 DEF ProcOK

\* One process takes a step that keeps it as it should be.
LEMMA OneStepInv ==
  ASSUME Inv, UNCHANGED <<shell, typed>>, pipe' \in [Jobs -> 0 .. PipeCap],
         NEW i \in Jobs, NEW h \in {1, 2}, NEW q, proc' = [proc EXCEPT ![<<i, h>>] = q],
         ProcOK(q, i, h, typed)
  PROVE  Inv'
<1>1. DOMAIN proc = Procs /\ <<i, h>> \in Procs /\ shell \in {"prompt", "wait", "exited"}
  BY DEF Inv, Procs
<1>2. ASSUME NEW j \in Jobs, NEW k \in {1, 2}
      PROVE  proc'[<<j, k>>] = proc[<<j, k>>] \/ ProcOK(proc'[<<j, k>>], j, k, typed)
  <2>1. <<j, k>> \in Procs
    BY DEF Procs
  <2>2. CASE j = i /\ k = h
    <3>1. proc'[<<j, k>>] = q
      BY <1>1, <2>2
    <3> QED  BY <2>2, <3>1
  <2>3. CASE ~(j = i /\ k = h)
    BY <1>1, <2>1, <2>3
  <2> QED  BY <2>2, <2>3
<1>3. DOMAIN proc' = Procs
  BY <1>1
<1> QED  BY <1>1, <1>2, <1>3, StepInv

\* pipe() and fork(): both have the ends of the pipe, the tail has the text.
LEMMA ForkTailKeepsInv == ASSUME Inv, NEW j \in Jobs, ForkTail(j) PROVE Inv'
<1> DEFINE h == proc[<<j, 1>>]
           line == typed[j]
           fd == Opened(Opened(h.fd, ReadEnd(j)), WriteEnd(j))
           q == [h EXCEPT !.st = "plumb", !.fd = fd]
           r == [q EXCEPT !.input.tail = NULL]
<1>1. /\ h.st = "pipe" /\ UNCHANGED <<shell, typed, pipe>>
      /\ proc' = [proc EXCEPT ![<<j, 1>>] = r, ![<<j, 2>>] = q]
  BY DEF ForkTail, Head1, Tail1
<1>2. /\ Shaped(h) /\ Bounded(h) /\ j \in 1 .. Len(typed) /\ HeadAt(h, j, line) /\ ArgvOK(h, 1)
  BY <1>1, InvProc DEF Live
<1> HIDE DEF h, line
<1>3. /\ Len(line) > 1 /\ TailText(h.input.tail, line) /\ h.fd = Inherited
      /\ h.seg = line[1] /\ h.input.inOut = InOutOf(h.seg.redir, 0)
  BY <1>1, <1>2 DEF HeadAt
<1>4. fd = Plumbed(j)
  BY <1>3, PipeOpened DEF Plumbed
<1> HIDE DEF fd
<1>5. /\ Shaped(q) /\ q.st = "plumb" /\ q.fd = fd /\ q.input = h.input /\ q.seg = h.seg
      /\ q.stray = h.stray /\ q.left = h.left /\ q.more = h.more
  BY <1>2 DEF Shaped
<1> HIDE DEF q
<1>6. /\ Shaped(r) /\ r.st = "plumb" /\ r.fd = fd /\ r.input.argv = h.input.argv
      /\ r.input.inOut = h.input.inOut /\ r.seg = h.seg /\ r.stray = h.stray
      /\ r.left = h.left /\ r.more = h.more
  BY <1>5 DEF Shaped
<1> HIDE DEF r
<1>7. fd \in [0 .. 4 -> Descriptors]
  BY <1>4, PlumbedType
<1>8. Bounded(q) /\ Bounded(r)
  BY <1>2, <1>5, <1>6, <1>7 DEF Bounded, States
<1>9. HeadAt(r, j, line)
  BY <1>3, <1>4, <1>6 DEF HeadAt
<1>10. TailAt(q, j, line)
  BY <1>3, <1>4, <1>5 DEF TailAt
<1>11. ProcOK(r, j, 1, typed) /\ ProcOK(q, j, 2, typed)
  <2>1. j <= Len(typed)
    BY <1>2
  <2>2. ArgvOK(r, 1) /\ ArgvOK(q, 2)
    BY <1>2, <1>5, <1>6 DEF ArgvOK
  <2> QED  BY <1>5, <1>6, <1>8, <1>9, <1>10, <2>1, <2>2 DEF ProcOK, line
<1>12. DOMAIN proc = Procs /\ <<j, 1>> \in Procs /\ <<j, 2>> \in Procs /\ <<j, 1>> # <<j, 2>>
  BY DEF Inv, Procs
<1>13. ASSUME NEW i \in Jobs, NEW k \in {1, 2}
       PROVE  proc'[<<i, k>>] = proc[<<i, k>>] \/ ProcOK(proc'[<<i, k>>], i, k, typed)
  <2>1. <<i, k>> \in Procs
    BY DEF Procs
  <2>2. CASE i = j /\ k = 1
    <3>1. proc'[<<i, k>>] = r
      BY <1>1, <1>12, <2>2
    <3> QED  BY <1>11, <2>2, <3>1
  <2>3. CASE i = j /\ k = 2
    <3>1. proc'[<<i, k>>] = q
      BY <1>1, <1>12, <2>3
    <3> QED  BY <1>11, <2>3, <3>1
  <2>4. CASE i # j
    BY <1>1, <1>12, <2>1, <2>4
  <2> QED  BY <2>2, <2>3, <2>4
<1>14. DOMAIN proc' = Procs
  BY <1>1, <1>12
<1>15. shell' \in {"prompt", "wait", "exited"} /\ typed' = typed /\ pipe' \in [Jobs -> 0 .. PipeCap]
  BY <1>1 DEF Inv
<1> QED  BY <1>13, <1>14, <1>15, StepInv

\* The head makes the write end its stdout.
LEMMA PlumbHeadKeepsInv == ASSUME Inv, NEW j \in Jobs, PlumbHead(j) PROVE Inv'
<1> DEFINE h == proc[<<j, 1>>]
           line == typed[j]
           fd == HeadStreams(h.fd)
           q == [h EXCEPT !.st = "command", !.fd = fd]
<1>1. /\ h.st = "plumb" /\ UNCHANGED <<shell, typed, pipe>>
      /\ proc' = [proc EXCEPT ![<<j, 1>>].st = "command", ![<<j, 1>>].fd = fd]
  BY DEF PlumbHead, Head1
<1>2. proc' = [proc EXCEPT ![<<j, 1>>] = q]
  <2>1. <<j, 1>> \in DOMAIN proc
    BY InvProc
  <2> HIDE DEF fd
  <2> QED  BY <1>1, <2>1
<1>3. /\ Shaped(h) /\ Bounded(h) /\ j \in 1 .. Len(typed) /\ HeadAt(h, j, line) /\ ArgvOK(h, 1)
  BY <1>1, InvProc DEF Live
<1> HIDE DEF h, line
<1>4. /\ Len(line) > 1 /\ h.fd = Plumbed(j)
      /\ h.seg = line[1] /\ h.input.inOut = InOutOf(h.seg.redir, 0)
  BY <1>1, <1>3 DEF HeadAt
<1>5. fd = HeadFd(j, line) /\ fd \in [0 .. 4 -> Descriptors]
  <2>1. fd = Fd(Tty, WriteEnd(j), Closed, Closed)
    BY <1>4, HeadPlumbed DEF Plumbed
  <2>2. fd \in [0 .. 4 -> Descriptors]
    BY <2>1, FdType
  <2> QED  BY <1>4, <2>1, <2>2 DEF HeadFd
<1> HIDE DEF fd
<1>6. /\ Shaped(q) /\ q.st = "command" /\ q.fd = fd /\ q.input = h.input /\ q.seg = h.seg
      /\ q.stray = h.stray /\ q.left = h.left /\ q.more = h.more
  BY <1>3 DEF Shaped
<1> HIDE DEF q
<1>7. Bounded(q) /\ HeadAt(q, j, line)
  BY <1>3, <1>4, <1>5, <1>6 DEF Bounded, States, HeadAt
<1>8. ProcOK(q, j, 1, typed)
  <2>1. j <= Len(typed)
    BY <1>3
  <2>2. ArgvOK(q, 1)
    BY <1>3, <1>6 DEF ArgvOK
  <2> QED  BY <1>6, <1>7, <2>1, <2>2 DEF ProcOK, line
<1>9. pipe' \in [Jobs -> 0 .. PipeCap]
  BY <1>1 DEF Inv
<1> QED  BY <1>1, <1>2, <1>8, <1>9, OneStepInv

\* The tail makes the read end its stdin.
LEMMA PlumbTailKeepsInv == ASSUME Inv, NEW j \in Jobs, PlumbTail(j) PROVE Inv'
<1> DEFINE t == proc[<<j, 2>>]
           line == typed[j]
           fd == TailStreams(t.fd)
           q == [t EXCEPT !.st = "input", !.fd = fd]
<1>1. /\ t.st = "plumb" /\ UNCHANGED <<shell, typed, pipe>>
      /\ proc' = [proc EXCEPT ![<<j, 2>>].st = "input", ![<<j, 2>>].fd = fd]
  BY DEF PlumbTail, Tail1
<1>2. proc' = [proc EXCEPT ![<<j, 2>>] = q]
  <2>1. <<j, 2>> \in DOMAIN proc
    BY InvProc
  <2> HIDE DEF fd
  <2> QED  BY <1>1, <2>1
<1>3. /\ Shaped(t) /\ Bounded(t) /\ j \in 1 .. Len(typed) /\ TailAt(t, j, line) /\ ArgvOK(t, 2)
  BY <1>1, InvProc DEF Live
<1> HIDE DEF t, line
<1>4. /\ Len(line) > 1 /\ t.fd = Plumbed(j) /\ TailText(t.input.tail, line)
      /\ t.input.inOut = InOutOf(line[1].redir, 0)
  BY <1>1, <1>3 DEF TailAt
<1>5. fd = TailFd(j) /\ fd \in [0 .. 4 -> Descriptors]
  <2>1. fd = Fd(ReadEnd(j), Tty, Closed, Closed)
    BY <1>4, TailPlumbed DEF Plumbed
  <2>2. fd \in [0 .. 4 -> Descriptors]
    BY <2>1, FdType
  <2> QED  BY <2>1, <2>2 DEF TailFd
<1> HIDE DEF fd
<1>6. /\ Shaped(q) /\ q.st = "input" /\ q.fd = fd /\ q.input = t.input /\ q.seg = t.seg
      /\ q.stray = t.stray /\ q.left = t.left /\ q.more = t.more
  BY <1>3 DEF Shaped
<1> HIDE DEF q
<1>7. Bounded(q) /\ TailAt(q, j, line)
  BY <1>3, <1>4, <1>5, <1>6 DEF Bounded, States, TailAt
<1>8. ProcOK(q, j, 2, typed)
  <2>1. j <= Len(typed)
    BY <1>3
  <2>2. ArgvOK(q, 2)
    BY <1>3, <1>6 DEF ArgvOK
  <2> QED  BY <1>6, <1>7, <2>1, <2>2 DEF ProcOK, line
<1>9. pipe' \in [Jobs -> 0 .. PipeCap]
  BY <1>1 DEF Inv
<1> QED  BY <1>1, <1>2, <1>8, <1>9, OneStepInv

\* getInput() in the tail, on a text whose first segment is seg.
LEMMA TailInputKeepsInv ==
  ASSUME Inv, NEW j \in Jobs, proc[<<j, 2>>].st = "input", NEW text \in Texts, NEW seg,
         seg.redir \in Redirs, HasHead(text, seg.redir), seg.words \in Seq(Letter),
         AllLegible => Begins(text, seg.words), NEW stray \in Strays,
         TailInput(j, text, seg, stray), UNCHANGED <<shell, typed>>,
         pipe' \in [Jobs -> 0 .. PipeCap]
  PROVE  Inv'
<1> DEFINE t == proc[<<j, 2>>]
           line == typed[j]
           w == WithInput(t, text, seg, stray)
           q == [w EXCEPT !.st = "command", !.input.tail = NULL]
           in == getInput(text, t.input.inOut, stray)
<1>1. proc' = [proc EXCEPT ![<<j, 2>>] = q]
  BY DEF TailInput, Tail1
<1>2. /\ Shaped(t) /\ Bounded(t) /\ j \in 1 .. Len(typed) /\ TailAt(t, j, line)
  BY InvProc DEF Live
<1>3. t.st = "input"
  OBVIOUS
<1> HIDE DEF t, line
<1>4. Len(line) > 1 /\ t.fd = TailFd(j) /\ t.input.inOut = InOutOf(line[1].redir, 0)
  BY <1>2, <1>3 DEF TailAt
<1>5. t.input.inOut \in 0 .. 3
  BY <1>2 DEF Bounded
<1>6. in.argv \in Seq(Word) /\ in.inOut = InOutOf(seg.redir, t.input.inOut)
  BY InputIs
<1>7. in.inOut \in 0 .. 3
  BY <1>5, <1>6, InOutRange
<1>8. /\ Shaped(w) /\ w.seg = seg /\ w.input = in /\ w.stray = stray \cap ToSet(text)
      /\ w.st = t.st /\ w.fd = t.fd /\ w.left = t.left /\ w.more = t.more
  BY <1>2, <1>5, WithInputIs
<1>13. ASSUME stray \cap ToSet(text) = {}, AllLegible PROVE in.argv = Argv(seg)
  <2>1. text \in Seq(Char) /\ Begins(text, seg.words)
    BY <1>13 DEF HasHead
  <2> DEFINE words == seg.words
             redir == seg.redir
  <2>2. words \in Seq(Letter) /\ redir \in Redirs /\ HasHead(text, redir) /\ Begins(text, words)
    BY <2>1
  <2> HIDE DEF words, redir
  <2>3. \A i \in 1 .. Len(words) : words[i] \notin stray
    BY <1>13, <2>1, <2>2, WordsIn
  <2>4. in.argv = FirstWords(words, Len(words))
    BY <2>2, <2>3, InputWords
  <2> QED  BY <2>4, ArgvIs DEF words
<1> HIDE DEF w, in
<1>9. /\ Shaped(q) /\ q.st = "command" /\ q.seg = seg /\ q.stray = w.stray /\ q.fd = t.fd /\ q.left = t.left
      /\ q.more = t.more /\ q.input.argv = in.argv /\ q.input.inOut = in.inOut
  BY <1>8 DEF Shaped
<1> HIDE DEF q
<1>10. Bounded(q)
  BY <1>2, <1>6, <1>7, <1>9 DEF Bounded, States
<1>11. TailAt(q, j, line)
  BY <1>4, <1>6, <1>9 DEF TailAt
<1>12. ProcOK(q, j, 2, typed)
  <2>1. j <= Len(typed)
    BY <1>2
  <2>2. ArgvOK(q, 2)
    BY <1>8, <1>9, <1>13 DEF ArgvOK
  <2> QED  BY <1>9, <1>10, <1>11, <2>1, <2>2 DEF ProcOK, line
<1> QED  BY <1>1, <1>12, OneStepInv

\* The text a tail has left to read begins with the second segment of its line.
LEMMA SecondSegment ==
  ASSUME Inv, NEW j \in Jobs, proc[<<j, 2>>].st = "input"
  PROVE  /\ TailText(proc[<<j, 2>>].input.tail, typed[j]) /\ typed[j][2].redir \in Redirs
         /\ typed[j][2].words \in Seq(Letter)
<1> DEFINE t == proc[<<j, 2>>]
           line == typed[j]
<1>1. line \in Lines /\ TailAt(t, j, line)
  BY InvProc DEF Live
<1>2. t.st = "input"
  OBVIOUS
<1> HIDE DEF t, line
<1>3. Len(line) > 1 /\ TailText(t.input.tail, line)
  BY <1>1, <1>2 DEF TailAt
<1>4. line[2].redir \in Redirs /\ line[2].words \in Seq(Letter)
  <2>1. 2 \in 1 .. Len(line)
    BY <1>1, <1>3, SegmentsOf
  <2>2. line[2] \in Segment
    BY <1>1, <2>1, SegmentsOf
  <2> QED  BY <2>2, SegmentIs
<1> QED  BY <1>3, <1>4 DEF t, line

\* The tail reads the rest of the line it was given.
LEMMA NewInputsKeepsInv == ASSUME Inv, NEW j \in Jobs, NewInputs(j) PROVE Inv'
<1> DEFINE t == proc[<<j, 2>>]
<1>1. PICK stray \in Strays : TailInput(j, t.input.tail, typed[j][2], stray)
  BY DEF NewInputs, Tail1
<1>2. t.st = "input" /\ UNCHANGED <<shell, typed, pipe>>
  BY DEF NewInputs, Tail1
<1>3. /\ t.input.tail \in Texts /\ HasHead(t.input.tail, typed[j][2].redir)
      /\ typed[j][2].redir \in Redirs /\ typed[j][2].words \in Seq(Letter)
      /\ AllLegible => Begins(t.input.tail, typed[j][2].words)
  BY <1>2, SecondSegment DEF TailText
<1>4. pipe' \in [Jobs -> 0 .. PipeCap]
  BY <1>2 DEF Inv
<1> QED  BY <1>1, <1>2, <1>3, <1>4, TailInputKeepsInv

\* The tail reads its rest when its head has already written into the pipe.
LEMMA InputsFromPipeKeepsInv == ASSUME Inv, NEW j \in Jobs, InputsFromPipe(j) PROVE Inv'
<1> DEFINE t == proc[<<j, 2>>]
<1>1. t.st = "input" /\ t.input.tail = <<>> /\ UNCHANGED <<shell, typed>>
  BY DEF InputsFromPipe, Tail1
<1>2. \/ /\ \E l \in Lines, n \in Gaps, stray \in Strays : TailInput(j, LineText(l, n), l[1], stray)
         /\ pipe' = [pipe EXCEPT ![j] = 0]
      \/ TailInput(j, <<>>, typed[j][2], {}) /\ UNCHANGED pipe
  BY DEF InputsFromPipe
<1>3. pipe' \in [Jobs -> 0 .. PipeCap]
  <2>1. pipe \in [Jobs -> 0 .. PipeCap] /\ 0 \in 0 .. PipeCap
    BY BoundsAssumption DEF Inv
  <2> QED  BY <1>2, <2>1
<1>4. ASSUME NEW l \in Lines, NEW n \in Gaps, NEW stray \in Strays,
             TailInput(j, LineText(l, n), l[1], stray)
      PROVE  Inv'
  <2>1. l[1].redir \in Redirs /\ l[1].words \in Seq(Letter) /\ n \in Nat
    <3>1. 1 \in 1 .. Len(l)
      BY SegmentsOf
    <3>2. l[1] \in Segment
      BY <3>1, SegmentsOf
    <3> QED  BY <3>2, SegmentIs, TypingAssumption
  <2>2. LineText(l, n) \in Texts /\ HasHead(LineText(l, n), l[1].redir)
    BY <2>1, TextIs, SegmentsOf, LineSays
  <2>3. Begins(LineText(l, n), l[1].words)
    BY <2>1, SegmentsOf, LineBegins
  <2> QED  BY <1>1, <1>3, <1>4, <2>1, <2>2, <2>3, TailInputKeepsInv
<1>5. ASSUME TailInput(j, <<>>, typed[j][2], {}) PROVE Inv'
  <2>1. /\ HasHead(<<>>, typed[j][2].redir) /\ typed[j][2].redir \in Redirs
        /\ typed[j][2].words \in Seq(Letter)
        /\ AllLegible => Begins(<<>>, typed[j][2].words)
    BY <1>1, SecondSegment DEF TailText
  <2>2. <<>> \in Texts /\ {} \in Strays
    BY TypingAssumption DEF Texts
  <2> QED  BY <1>1, <1>3, <1>5, <2>1, <2>2, TailInputKeepsInv
<1> QED  BY <1>2, <1>4, <1>5

\* Where the redirection of a segment leaves a program whose streams are in and
\* out.
LEMMA RedirectedRight ==
  ASSUME NEW fd, NEW j, NEW k \in {1, 2}, NEW line, NEW redir \in Redirs, NEW inOut,
         inOut = InOutOf(redir, 0),
         fd = IF k = 1 THEN HeadFd(j, line) ELSE TailFd(j),
         NEW n, n = (IF inOut = 1 THEN 0 ELSE 1), NEW new,
         \/ inOut = 0 /\ new = fd
         \/ inOut # 0 /\ new \in {close(fd, n), Opened(close(fd, n), File)}
  PROVE  RightStreams(new, redir, j, k, line)
<1> DEFINE in == IF k = 2 THEN ReadEnd(j) ELSE Tty
           out == IF k = 1 /\ Len(line) > 1 THEN WriteEnd(j) ELSE Tty
<1>1. fd = Fd(in, out, Closed, Closed)
  BY DEF HeadFd, TailFd
<1>2. in # Closed
  BY EndsOpen DEF Ends
<1>3. ASSUME new \in {Fd(File, out, Closed, Closed), Fd(Closed, out, Closed, Closed)}
      PROVE  new[0] \in {File, Closed} /\ new[1] = out /\ new[3] = Closed /\ new[4] = Closed
  BY <1>3, FdIs
<1>4. ASSUME new \in {Fd(in, File, Closed, Closed), Fd(in, Closed, Closed, Closed)}
      PROVE  new[0] = in /\ new[1] \in {File, Closed} /\ new[3] = Closed /\ new[4] = Closed
  BY <1>4, FdIs
<1>5. ASSUME new = fd
      PROVE  new[0] = in /\ new[1] = out /\ new[3] = Closed /\ new[4] = Closed
  BY <1>1, <1>5, FdIs
<1>6. RightStreams(new, redir, j, k, line) <=>
        /\ new[0] \in IF redir = "in" THEN {File, Closed} ELSE {in}
        /\ new[1] \in IF redir \in {"out", "append"} THEN {File, Closed} ELSE {out}
        /\ new[3] = Closed /\ new[4] = Closed
  BY DEF RightStreams
<1> HIDE DEF in, out
<1>7. CASE redir = "none"
  <2>1. inOut = 0
    BY <1>7 DEF InOutOf
  <2> QED  BY <1>5, <1>6, <1>7, <2>1
<1>8. CASE redir = "in"
  <2>1. inOut = 1 /\ n = 0
    BY <1>8 DEF InOutOf
  <2>2. new \in {Fd(File, out, Closed, Closed), Fd(Closed, out, Closed, Closed)}
    BY <1>1, <2>1, FileOpened
  <2> QED  BY <1>3, <1>6, <1>8, <2>2
<1>9. CASE redir \in {"out", "append"}
  <2>1. inOut # 0 /\ n = 1
    BY <1>9 DEF InOutOf
  <2>2. new \in {Fd(in, File, Closed, Closed), Fd(in, Closed, Closed, Closed)}
    BY <1>1, <1>2, <2>1, FileOpened
  <2> QED  BY <1>4, <1>6, <1>9, <2>2
<1> QED  BY <1>7, <1>8, <1>9 DEF Redirs

\* executeCommand() redirects.
LEMMA RedirectKeepsInv == ASSUME Inv, NEW j \in Jobs, NEW k \in {1, 2}, Redirect(<<j, k>>) PROVE Inv'
<1> DEFINE q == proc[<<j, k>>]
           line == typed[j]
           n == IF q.input.inOut = 1 THEN 0 ELSE 1
<1>1. PICK opens \in BOOLEAN :
        proc' = [proc EXCEPT ![<<j, k>>].st = "exec",
                   ![<<j, k>>].fd = IF q.input.inOut = 0 THEN @
                             ELSE IF opens THEN Opened(close(@, n), File) ELSE close(@, n)]
  BY DEF Redirect
<1>2. q.st = "command" /\ UNCHANGED <<shell, typed, pipe>>
  BY DEF Redirect
<1> DEFINE new == IF q.input.inOut = 0 THEN q.fd
                  ELSE IF opens THEN Opened(close(q.fd, n), File) ELSE close(q.fd, n)
           r == [q EXCEPT !.st = "exec", !.fd = new]
<1>3. proc' = [proc EXCEPT ![<<j, k>>] = r]
  <2>1. <<j, k>> \in DOMAIN proc
    BY InvProc
  <2> QED  BY <1>1, <2>1
<1>4. /\ Shaped(q) /\ Bounded(q) /\ j \in 1 .. Len(typed) /\ ArgvOK(q, k)
      /\ k = 1 => HeadAt(q, j, line)
      /\ k = 2 => TailAt(q, j, line)
  BY <1>2, InvProc DEF Live
<1>5. line \in Lines
  BY <1>2, InvProc DEF Live
<1>6. new = q.fd \/ new = Opened(close(q.fd, n), File) \/ new = close(q.fd, n)
  OBVIOUS
<1>7. \/ q.input.inOut = 0 /\ new = q.fd
      \/ q.input.inOut # 0 /\ new \in {close(q.fd, n), Opened(close(q.fd, n), File)}
  OBVIOUS
<1>8. n = IF q.input.inOut = 1 THEN 0 ELSE 1
  OBVIOUS
<1> HIDE DEF q, line, n, new
<1>9. /\ Shaped(r) /\ r.st = "exec" /\ r.fd = new /\ r.input = q.input /\ r.seg = q.seg
      /\ r.stray = q.stray /\ r.left = q.left /\ r.more = q.more
  BY <1>4 DEF Shaped
<1> HIDE DEF r
<1>10. new \in [0 .. 4 -> Descriptors]
  <2> DEFINE in == IF k = 2 THEN ReadEnd(j) ELSE Tty
             out == IF k = 1 /\ Len(line) > 1 THEN WriteEnd(j) ELSE Tty
  <2>1. q.fd = Fd(in, out, Closed, Closed)
    <3>1. CASE k = 1
      <4>1. q.fd = HeadFd(j, line)
        BY <1>2, <1>4, <3>1 DEF HeadAt
      <4> QED  BY <3>1, <4>1 DEF HeadFd
    <3>2. CASE k = 2
      <4>1. q.fd = TailFd(j)
        BY <1>2, <1>4, <3>2 DEF TailAt
      <4> QED  BY <3>2, <4>1 DEF TailFd
    <3> QED  BY <3>1, <3>2
  <2>2. in # Closed
    BY EndsOpen DEF Ends
  <2>3. in \in {Tty, Closed, File, ReadEnd(j), WriteEnd(j)} /\ out \in {Tty, Closed, File, ReadEnd(j), WriteEnd(j)}
    OBVIOUS
  <2> HIDE DEF in, out
  <2>4. new \in {Fd(in, out, Closed, Closed), Fd(File, out, Closed, Closed), Fd(Closed, out, Closed, Closed),
                 Fd(in, File, Closed, Closed), Fd(in, Closed, Closed, Closed)}
    <3>1. n = 0 \/ n = 1
      BY <1>8
    <3>2. CASE n = 0
      BY <1>6, <2>1, <3>2, FileOpened
    <3>3. CASE n = 1
      BY <1>6, <2>1, <2>2, <3>3, FileOpened
    <3> QED  BY <3>1, <3>2, <3>3
  <2> QED  BY <2>3, <2>4, FdType
<1>11. ASSUME k = 1 \/ line[1].redir = "none"
       PROVE  RightStreams(new, q.seg.redir, j, k, line)
  <2>1. /\ q.input.inOut = InOutOf(q.seg.redir, 0) /\ q.seg.redir \in Redirs
        /\ q.fd = IF k = 1 THEN HeadFd(j, line) ELSE TailFd(j)
    <3>1. CASE k = 1
      <4>1. line[1] \in Segment
        <5>1. 1 \in 1 .. Len(line)
          BY <1>5, SegmentsOf
        <5> QED  BY <1>5, <5>1, SegmentsOf
      <4>2. line[1].redir \in Redirs
        BY <4>1, SegmentIs
      <4> QED  BY <1>2, <1>4, <3>1, <4>2 DEF HeadAt
    <3>2. CASE k = 2
      <4>1. InOutOf(line[1].redir, 0) = 0
        BY <1>11, <3>2 DEF InOutOf
      <4> QED  BY <1>2, <1>4, <3>2, <4>1 DEF TailAt
    <3> QED  BY <3>1, <3>2
  <2> QED  BY <1>7, <1>8, <2>1, RedirectedRight
<1>12. Bounded(r)
  BY <1>4, <1>9, <1>10 DEF Bounded, States
<1>13. k = 1 => HeadAt(r, j, line)
  BY <1>2, <1>4, <1>9, <1>11 DEF HeadAt
<1>14. k = 2 => TailAt(r, j, line)
  BY <1>2, <1>4, <1>9, <1>11 DEF TailAt
<1>15. ProcOK(r, j, k, typed)
  <2>1. j <= Len(typed)
    BY <1>4
  <2>2. ArgvOK(r, k)
    BY <1>4, <1>9 DEF ArgvOK
  <2> QED  BY <1>9, <1>12, <1>13, <1>14, <2>1, <2>2 DEF ProcOK, line
<1>16. pipe' \in [Jobs -> 0 .. PipeCap]
  BY <1>2 DEF Inv
<1> QED  BY <1>2, <1>3, <1>15, <1>16, OneStepInv

\* execve() starts the program, or fails.
LEMMA ExecKeepsInv == ASSUME Inv, NEW j \in Jobs, NEW k \in {1, 2}, Exec(<<j, k>>) PROVE Inv'
<1> DEFINE q == proc[<<j, k>>]
           line == typed[j]
           left == IF IsCommand(q, "cat") THEN 0 ELSE IF IsCommand(q, "ls") THEN Units ELSE 1
           more == IF IsCommand(q, "cat") THEN Units ELSE 0
           r == [NoProc EXCEPT !.st = "run", !.seg = q.seg, !.stray = q.stray,
                               !.input.argv = q.input.argv, !.fd = q.fd,
                               !.left = left, !.more = more]
<1>1. q.st = "exec" /\ UNCHANGED <<shell, typed, pipe>>
  BY DEF Exec
<1>2. proc' = [proc EXCEPT ![<<j, k>>] = Exited(<<j, k>>)] \/ proc' = [proc EXCEPT ![<<j, k>>] = r]
  <2>1. proc' = [proc EXCEPT ![<<j, k>>] = IF q.input.argv = <<>> THEN Exited(<<j, k>>) ELSE r]
    BY Zenon DEF Exec
  <2> QED  BY <2>1
<1>3. left \in 0 .. Units + 1 /\ more \in 0 .. Units
  BY BoundsAssumption
<1>4. /\ Shaped(q) /\ Bounded(q) /\ j \in 1 .. Len(typed) /\ ArgvOK(q, k)
      /\ k = 1 => HeadAt(q, j, line)
      /\ k = 2 => TailAt(q, j, line)
  BY <1>1, InvProc DEF Live
<1>5. pipe' \in [Jobs -> 0 .. PipeCap]
  BY <1>1 DEF Inv
<1>6. ASSUME proc' = [proc EXCEPT ![<<j, k>>] = Exited(<<j, k>>)] PROVE Inv'
  <2>1. ProcOK(Exited(<<j, k>>), j, k, typed)
    BY ExitedOK
  <2> QED  BY <1>1, <1>5, <1>6, <2>1, OneStepInv
<1>7. ASSUME proc' = [proc EXCEPT ![<<j, k>>] = r] PROVE Inv'
  <2> HIDE DEF q, line, left, more
  <2>1. Shaped(NoProc) /\ Bounded(NoProc)
    BY NoProcIs
  <2>2. /\ Shaped(r) /\ r.st = "run" /\ r.fd = q.fd /\ r.seg = q.seg /\ r.stray = q.stray
        /\ r.input.argv = q.input.argv /\ r.input.inOut = NoProc.input.inOut
        /\ r.left = left /\ r.more = more
    BY <2>1 DEF Shaped
  <2> HIDE DEF r
  <2>3. Bounded(r)
    BY <1>3, <1>4, <2>1, <2>2 DEF Bounded, States
  <2>4. k = 1 => HeadAt(r, j, line)
    BY <1>1, <1>4, <2>2 DEF HeadAt
  <2>5. k = 2 => TailAt(r, j, line)
    BY <1>1, <1>4, <2>2 DEF TailAt
  <2>6. ProcOK(r, j, k, typed)
    <3>1. j <= Len(typed)
      BY <1>4
    <3>2. ArgvOK(r, k)
      BY <1>4, <2>2 DEF ArgvOK
    <3> QED  BY <2>2, <2>3, <2>4, <2>5, <3>1, <3>2 DEF ProcOK, line
  <2> QED  BY <1>1, <1>5, <1>7, <2>6, OneStepInv
<1> QED  BY <1>2, <1>6, <1>7

\* A program that goes on running keeps its streams.
LEMMA RunGoesOn ==
  ASSUME Inv, NEW j \in Jobs, NEW k \in {1, 2}, proc[<<j, k>>].st = "run",
         NEW r, Shaped(r), r.st = "run", r.fd = proc[<<j, k>>].fd, r.seg = proc[<<j, k>>].seg,
         r.stray = proc[<<j, k>>].stray,
         r.input = proc[<<j, k>>].input, r.left \in 0 .. Units + 1, r.more \in 0 .. Units
  PROVE  ProcOK(r, j, k, typed)
<1> DEFINE q == proc[<<j, k>>]
           line == typed[j]
<1>1. q.st = "run" /\ r.fd = q.fd /\ r.seg = q.seg /\ r.stray = q.stray /\ r.input = q.input
  OBVIOUS
<1>2. /\ Shaped(q) /\ Bounded(q) /\ j \in 1 .. Len(typed) /\ ArgvOK(q, k)
      /\ k = 1 => HeadAt(q, j, line)
      /\ k = 2 => TailAt(q, j, line)
  BY <1>1, InvProc DEF Live
<1> HIDE DEF q, line
<1>3. Bounded(r)
  BY <1>1, <1>2 DEF Bounded, States
<1>4. (k = 1 => HeadAt(r, j, line)) /\ (k = 2 => TailAt(r, j, line))
  BY <1>1, <1>2 DEF HeadAt, TailAt
<1>5. j <= Len(typed)
  BY <1>2
<1>6. ArgvOK(r, k)
  BY <1>1, <1>2 DEF ArgvOK
<1> QED  BY <1>3, <1>4, <1>5, <1>6 DEF ProcOK, line

\* exit().
LEMMA ExitKeepsInv ==
  ASSUME Inv, NEW j \in Jobs, NEW k \in {1, 2}, proc' = [proc EXCEPT ![<<j, k>>] = Exited(<<j, k>>)],
         UNCHANGED <<shell, typed, pipe>>
  PROVE  Inv'
<1>1. ProcOK(Exited(<<j, k>>), j, k, typed)
  BY ExitedOK
<1>2. pipe' \in [Jobs -> 0 .. PipeCap]
  BY DEF Inv
<1> QED  BY <1>1, <1>2, OneStepInv

\* The program writes.
LEMMA WriteKeepsInv == ASSUME Inv, NEW j \in Jobs, NEW k \in {1, 2}, Write(<<j, k>>) PROVE Inv'
<1> DEFINE q == proc[<<j, k>>]
           i == q.fd[1].job
           r == [q EXCEPT !.left = q.left - 1]
<1>1. q.st = "run" /\ q.left > 0 /\ UNCHANGED <<shell, typed>>
  BY DEF Write
<1>2. \/ proc' = [proc EXCEPT ![<<j, k>>] = Exited(<<j, k>>)] /\ UNCHANGED pipe
      \/ /\ proc' = [proc EXCEPT ![<<j, k>>].left = q.left - 1]
         /\ \/ UNCHANGED pipe
            \/ pipe[i] < PipeCap /\ pipe' = [pipe EXCEPT ![i] = pipe[i] + 1]
  BY DEF Write
<1>3. pipe' \in [Jobs -> 0 .. PipeCap]
  <2>1. pipe \in [Jobs -> 0 .. PipeCap] /\ PipeCap \in Nat
    BY BoundsAssumption DEF Inv
  <2> HIDE DEF i
  <2>2. CASE UNCHANGED pipe
    BY <2>1, <2>2
  <2>3. CASE pipe[i] < PipeCap /\ pipe' = [pipe EXCEPT ![i] = pipe[i] + 1]
    <3>1. CASE i \in Jobs
      <4>1. pipe[i] \in 0 .. PipeCap
        BY <2>1, <3>1
      <4>2. pipe[i] + 1 \in 0 .. PipeCap
        BY <2>1, <2>3, <4>1
      <4> QED  BY <2>1, <2>3, <4>2
    <3>2. CASE i \notin Jobs
      <4>1. pipe' = pipe
        BY <2>1, <2>3, <3>2
      <4> QED  BY <2>1, <4>1
    <3> QED  BY <3>1, <3>2
  <2> QED    BY <1>2, <2>2, <2>3
<1>4. CASE proc' = [proc EXCEPT ![<<j, k>>] = Exited(<<j, k>>)] /\ UNCHANGED pipe
  BY <1>1, <1>4, ExitKeepsInv
<1>5. CASE proc' = [proc EXCEPT ![<<j, k>>].left = q.left - 1]
  <2>1. /\ <<j, k>> \in DOMAIN proc /\ Shaped(q) /\ Bounded(q)
    BY InvProc
  <2>2. proc' = [proc EXCEPT ![<<j, k>>] = r]
    BY <1>5, <2>1
  <2> HIDE DEF q
  <2>3. q.left - 1 \in 0 .. Units + 1 /\ q.more \in 0 .. Units
    BY <1>1, <2>1, BoundsAssumption DEF Bounded
  <2>4. /\ Shaped(r) /\ r.st = "run" /\ r.fd = q.fd /\ r.seg = q.seg /\ r.input = q.input
        /\ r.stray = q.stray /\ r.left = q.left - 1 /\ r.more = q.more
    BY <1>1, <2>1 DEF Shaped
  <2> HIDE DEF r
  <2>5. ProcOK(r, j, k, typed)
    BY <1>1, <2>3, <2>4, RunGoesOn DEF q
  <2> QED  BY <1>1, <1>3, <2>2, <2>5, OneStepInv
<1> QED  BY <1>2, <1>4, <1>5

\* The program reads.
LEMMA ReadKeepsInv == ASSUME Inv, NEW j \in Jobs, NEW k \in {1, 2}, Read(<<j, k>>) PROVE Inv'
<1> DEFINE q == proc[<<j, k>>]
           i == q.fd[0].job
<1>1. q.st = "run" /\ UNCHANGED <<shell, typed>>
  BY DEF Read
<1>2. \/ /\ pipe[i] > 0 /\ pipe' = [pipe EXCEPT ![i] = pipe[i] - 1]
         /\ proc' = [proc EXCEPT ![<<j, k>>].left = 1]
      \/ /\ q.more > 0 /\ UNCHANGED pipe
         /\ proc' = [proc EXCEPT ![<<j, k>>].left = 1, ![<<j, k>>].more = q.more - 1]
  BY DEF Read
<1>3. pipe' \in [Jobs -> 0 .. PipeCap]
  <2>1. pipe \in [Jobs -> 0 .. PipeCap] /\ PipeCap \in Nat
    BY BoundsAssumption DEF Inv
  <2> HIDE DEF i
  <2>2. CASE UNCHANGED pipe
    BY <2>1, <2>2
  <2>3. CASE pipe[i] > 0 /\ pipe' = [pipe EXCEPT ![i] = pipe[i] - 1]
    <3>1. CASE i \in Jobs
      <4>1. pipe[i] \in 0 .. PipeCap
        BY <2>1, <3>1
      <4>2. pipe[i] - 1 \in 0 .. PipeCap
        BY <2>1, <2>3, <4>1
      <4> QED  BY <2>1, <2>3, <4>2
    <3>2. CASE i \notin Jobs
      <4>1. pipe' = pipe
        BY <2>1, <2>3, <3>2
      <4> QED  BY <2>1, <4>1
    <3> QED  BY <3>1, <3>2
  <2> QED    BY <1>2, <2>2, <2>3
<1>4. /\ <<j, k>> \in DOMAIN proc /\ Shaped(q) /\ Bounded(q)
  BY InvProc
<1>5. \E more \in 0 .. Units :
        proc' = [proc EXCEPT ![<<j, k>>] = [q EXCEPT !.left = 1, !.more = more]]
  <2>1. q.more \in 0 .. Units /\ Units \in Nat
    BY <1>4, BoundsAssumption DEF Bounded
  <2>2. CASE proc' = [proc EXCEPT ![<<j, k>>].left = 1]
    <3>1. proc' = [proc EXCEPT ![<<j, k>>] = [q EXCEPT !.left = 1, !.more = q.more]]
      BY <1>4, <2>2 DEF Shaped
    <3> QED  BY <2>1, <3>1
  <2>3. CASE /\ q.more > 0
             /\ proc' = [proc EXCEPT ![<<j, k>>].left = 1, ![<<j, k>>].more = q.more - 1]
    <3>1. proc' = [proc EXCEPT ![<<j, k>>] = [q EXCEPT !.left = 1, !.more = q.more - 1]]
      BY <1>4, <2>3 DEF Shaped
    <3>2. q.more - 1 \in 0 .. Units
      BY <2>1, <2>3
    <3> QED  BY <3>1, <3>2
  <2> QED  BY <1>2, <2>2, <2>3
<1>6. PICK more \in 0 .. Units :
        proc' = [proc EXCEPT ![<<j, k>>] = [q EXCEPT !.left = 1, !.more = more]]
  BY <1>5
<1> DEFINE r == [q EXCEPT !.left = 1, !.more = more]
<1> HIDE DEF q
<1>7. /\ Shaped(r) /\ r.st = "run" /\ r.fd = q.fd /\ r.seg = q.seg /\ r.input = q.input
      /\ r.stray = q.stray /\ r.left = 1 /\ r.more = more
  BY <1>1, <1>4 DEF Shaped
<1>8. 1 \in 0 .. Units + 1
  BY BoundsAssumption
<1>9. proc' = [proc EXCEPT ![<<j, k>>] = r]
  BY <1>6
<1> HIDE DEF r
<1>10. ProcOK(r, j, k, typed)
  BY <1>1, <1>7, <1>8, RunGoesOn DEF q
<1> QED  BY <1>1, <1>3, <1>9, <1>10, OneStepInv

\* The program ends.
LEMMA EndKeepsInv == ASSUME Inv, NEW j \in Jobs, NEW k \in {1, 2}, End(<<j, k>>) PROVE Inv'
  BY ExitKeepsInv DEF End

\* wait() in the shell.
LEMMA WaitKeepsInv == ASSUME Inv, Wait PROVE Inv'
<1>1. PICK j \in Jobs :
        proc[Head1(j)].st = "zombie" /\ proc' = [proc EXCEPT ![Head1(j)].st = "gone"]
  BY DEF Wait
<1>2. shell' = "prompt" /\ UNCHANGED <<typed, pipe>>
  BY DEF Wait
<1> DEFINE q == proc[<<j, 1>>]
           r == [q EXCEPT !.st = "gone"]
<1>3. /\ <<j, 1>> \in DOMAIN proc /\ DOMAIN proc = Procs /\ Shaped(q) /\ Bounded(q)
  BY InvProc DEF Inv
<1>4. proc' = [proc EXCEPT ![<<j, 1>>] = r]
  BY <1>1, <1>3 DEF Head1
<1> HIDE DEF q
<1>5. /\ Shaped(r) /\ r.st = "gone" /\ r.fd = q.fd /\ r.seg = q.seg /\ r.input = q.input
      /\ r.left = q.left /\ r.more = q.more
  BY <1>3 DEF Shaped
<1> HIDE DEF r
<1>6. ProcOK(r, j, 1, typed)
  BY <1>3, <1>5 DEF ProcOK, Bounded, States, Live
<1>7. ASSUME NEW i \in Jobs, NEW k \in {1, 2}
      PROVE  proc'[<<i, k>>] = proc[<<i, k>>] \/ ProcOK(proc'[<<i, k>>], i, k, typed)
  <2>1. <<i, k>> \in Procs
    BY DEF Procs
  <2>2. CASE i = j /\ k = 1
    <3>1. proc'[<<i, k>>] = r
      BY <1>3, <1>4, <2>2
    <3> QED  BY <1>6, <2>2, <3>1
  <2>3. CASE ~(i = j /\ k = 1)
    BY <1>3, <1>4, <2>1, <2>3
  <2> QED  BY <2>2, <2>3
<1>8. DOMAIN proc' = Procs /\ pipe' \in [Jobs -> 0 .. PipeCap]
  BY <1>2, <1>3, <1>4 DEF Inv
<1> QED  BY <1>2, <1>7, <1>8, StepInv

\* Any step of a process.
LEMMA ProcessKeepsInv == ASSUME Inv, NEW p \in Procs, Process(p) PROVE Inv'
<1>1. PICK j \in Jobs, k \in {1, 2} : p = <<j, k>>
  BY DEF Procs
<1>2. \/ ForkTail(j) \/ PlumbHead(j) \/ PlumbTail(j) \/ NewInputs(j) \/ InputsFromPipe(j)
      \/ Redirect(<<j, k>>) \/ Exec(<<j, k>>) \/ Write(<<j, k>>) \/ Read(<<j, k>>) \/ End(<<j, k>>)
  BY <1>1 DEF Process
<1> QED  BY <1>2, ForkTailKeepsInv, PlumbHeadKeepsInv, PlumbTailKeepsInv, NewInputsKeepsInv,
            InputsFromPipeKeepsInv, RedirectKeepsInv, ExecKeepsInv, WriteKeepsInv, ReadKeepsInv,
            EndKeepsInv

\* The invariant is kept by every step.
LEMMA NextKeepsInv == Inv /\ [Next]_vars => Inv'
<1> SUFFICES ASSUME Inv, [Next]_vars PROVE Inv'
  OBVIOUS
<1>1. ASSUME NEW l \in Lines, NEW n \in Gaps, NEW stray \in Strays, Type(l, n, stray) PROVE Inv'
  BY <1>1, TypeKeepsInv
<1>2. CASE Wait
  BY <1>2, WaitKeepsInv
<1>3. ASSUME NEW p \in Procs, Process(p) PROVE Inv'
  BY <1>3, ProcessKeepsInv
<1>4. CASE UNCHANGED vars
  BY <1>4 DEF vars, Inv
<1> QED  BY <1>1, <1>2, <1>3, <1>4 DEF Next

\* Every variable has its type, for all lines, gaps and stray characters: getInput
\* gives words of any line that can be typed (shsim.c:43-174).
THEOREM TypeCorrect == Spec => []TypeOK
<1> QED  BY InitInv, NextKeepsInv, InvTyped, PTL DEF Spec

\* A program that runs has the streams its line was written with (shsim.c:84-113,
\* 177-223), whatever was typed before and whatever the other processes do.
THEOREM StreamsHold == Spec => []StreamsAsWritten
<1> QED  BY InitInv, NextKeepsInv, InvStreams, PTL DEF Spec

\* Every program runs with the words its segment was written with, none of which is
\* cut (shsim.c:43-174, 242-296), when all lines are typed so that strTrim can do
\* no harm: with no blanks but those between words, or with one in every place and
\* a word in front of a redirection.  Any number of blanks will do where a tail has at
\* most one word.  Stray delimiters of strtok are left out.
THEOREM ArgvHolds == ASSUME AllLegible PROVE Spec => []ArgvAsWritten
<1>1. Inv => ArgvAsWritten
  <2> SUFFICES ASSUME Inv, NEW p \in Procs, proc[p].st = "run", proc[p].stray = {}
               PROVE  proc[p].input.argv = Argv(proc[p].seg)
    BY DEF ArgvAsWritten
  <2>1. PICK j \in Jobs, k \in {1, 2} : p = <<j, k>>
    BY DEF Procs
  <2> QED  BY <2>1, InvArgv
<1> QED  BY <1>1, InitInv, NextKeepsInv, PTL DEF Spec

\* Whatever is typed, getInput finds the words of the head, leaves a tail when there
\* is one, and leaves the words of it that were written if the line is legible
\* (shsim.c:43-174, 242-296).  LineWords says so of all lines, with any number of
\* segments, words and blanks; the lines of MCShell are some of them.
THEOREM WordsKeptHolds == Spec => []WordsKept
<1>1. ASSUME NEW l \in SmallLines, NEW n \in 0 .. 3, NEW in, in = getInput(LineText(l, n), 0, {})
      PROVE  /\ WordsFound(LineText(l, n), l[1])
             /\ (in.tail = NULL) = (Len(l) = 1)
             /\ Len(l) = 2 /\ Legible(l, n) => WordsFound(in.tail, l[2])
  <2>1. l \in Seq(Segment) /\ l # <<>> /\ n \in Nat /\ (Len(l) = 2 => Len(l) > 1)
    <3>1. l \in Seq(Segment) /\ l # <<>>
      BY SmallLinesAre
    <3>2. Len(l) = 2 => Len(l) > 1
      OBVIOUS
    <3> QED  BY <3>1, <3>2
  <2>2. /\ WordsFound(LineText(l, n), l[1])
        /\ in.tail = NULL <=> Len(l) = 1
        /\ Len(l) > 1 /\ Legible(l, n) => WordsFound(in.tail, l[2])
    BY <1>1, <2>1, LineWords
  <2> QED  BY <2>1, <2>2
<1>2. WordsKept
  BY <1>1 DEF WordsKept
<1> QED  BY <1>2, PTL

\* However a line is typed, the program before its '|' runs with the words of its
\* segment.
HeadArgvAsWritten ==
  \A j \in Jobs :
    proc[Head1(j)].st = "run" /\ proc[Head1(j)].stray = {} =>
      proc[Head1(j)].input.argv = Argv(proc[Head1(j)].seg)

\* So every head does, for all lines and any number of blanks.
THEOREM HeadArgvHolds == Spec => []HeadArgvAsWritten
<1>1. Inv => HeadArgvAsWritten
  BY InvArgv DEF HeadArgvAsWritten, Head1
<1> QED  BY <1>1, InitInv, NextKeepsInv, PTL DEF Spec

=============================================================================
