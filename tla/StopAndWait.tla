---------------------------- MODULE StopAndWait ----------------------------
(***************************************************************************)
(* What the ipc program of proj3 promises its user (proj3/manual.txt and   *)
(* the task description at the end of proj3/base.c): one line is asked at  *)
(* a time, its answer is that same line in upper case, and the next line   *)
(* is not sent before the answer of the last one has arrived.  No pipe, no *)
(* signal, no timer: module IPC, which has them, implements this one.      *)
(***************************************************************************)
EXTENDS Naturals

CONSTANTS Texts,    \* the lines a user may type
          NoText    \* the empty buffer, before anything was typed

VARIABLES asked,    \* the last line sent
          reply,    \* the last answer received
          waiting   \* asked has no answer yet

vars == <<asked, reply, waiting>>

\* A line: the text typed, whether toUpper has been applied to it, and the
\* request it belongs to.  sendTS, which has the resolution of a second and
\* may repeat, does not tell requests apart; ts numbers them.
Line == [text : Texts \cup {NoText}, up : BOOLEAN, ts : Nat]

Empty == [text |-> NoText, up |-> FALSE, ts |-> 0]

ToUpper(line) == [line EXCEPT !.up = TRUE]

Init ==
  /\ asked = Empty
  /\ reply = Empty
  /\ waiting = FALSE

\* A new line goes out, only when none is waiting for its answer.
Ask ==
  /\ ~waiting
  /\ \E t \in Texts : asked' = [text |-> t, up |-> FALSE, ts |-> asked.ts + 1]
  /\ waiting' = TRUE
  /\ UNCHANGED reply

\* The answer arrives: the line asked, in upper case, once.
Answer ==
  /\ waiting
  /\ reply' = ToUpper(asked)
  /\ waiting' = FALSE
  /\ UNCHANGED asked

Next == Ask \/ Answer

Spec == Init /\ [][Next]_vars
=============================================================================
