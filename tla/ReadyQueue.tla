----------------------------- MODULE ReadyQueue -----------------------------
(***************************************************************************)
(* ch3/queue.c: lists of PROCs linked by PROC.next, the highest priority   *)
(* first and first come, first served among equals.  A PROC has one next   *)
(* field, so it can be in one list at a time; priority is a function of    *)
(* the PROC.                                                               *)
(***************************************************************************)
EXTENDS Integers, Sequences, SequencesExt, FiniteSets, LinkedLists

CONSTANT NULL

\* The PROCs of a list, in order; more than n of them only when it is a cycle.
ListFrom(list, next, n) == NodesFrom(list, next, n + 1, NULL)

\* slip: a PROC goes before those of its own priority
BehindHigher(priority, p, q) == priority[p] < priority[q]

GoesBehind(priority, p, q) == priority[p] <= priority[q]

\* slip: the next field of the PROC is left as it was
LinkedBefore(next, p, q) == next

LinkedTo(next, p, q) == [next EXCEPT ![p] = q]

\* The list and the next fields after enqueue(&list, p).  The loop stops at the
\* first PROC that has none behind it, or one that p does not go behind.
enqueue(list, next, priority, p) ==
  LET q     == NodesFrom(list, next, Cardinality(DOMAIN next), NULL)
      stops == {i \in DOMAIN q : next[q[i]] = NULL \/ ~GoesBehind(priority, p, next[q[i]])}
      last  == q[Min(stops)]
  IN  IF list = NULL \/ priority[p] > priority[list]
      THEN [list |-> p, next |-> LinkedTo(next, p, list)]
      ELSE [list |-> list, next |-> [LinkedTo(next, p, next[last]) EXCEPT ![last] = p]]

\* What dequeue(&list) returns is list itself, and the list goes on behind it.
dequeue(list, next) == IF list = NULL THEN NULL ELSE next[list]

-----------------------------------------------------------------------------
(* The reference: enqueue and dequeue on sequences.                        *)

Sorted(q, priority) ==
  \A i, j \in DOMAIN q : i < j => priority[q[i]] >= priority[q[j]]

\* p goes behind all those of its priority or a higher one.
Inserted(q, priority, p) ==
  InsertAt(q, 1 + Cardinality({i \in DOMAIN q : priority[q[i]] >= priority[p]}), p)

Elements(q) == {q[i] : i \in DOMAIN q}

Distinct(q) == Cardinality(Elements(q)) = Len(q)

\* On the list q, linked by next, enqueue of p and dequeue do what the reference
\* does, and the links of PROCs outside the list stay.
Agrees(q, next, priority, p) ==
  LET e == enqueue(IF q = <<>> THEN NULL ELSE q[1], next, priority, p)
      r == Inserted(q, priority, p)
      n == Cardinality(DOMAIN next)
  IN  /\ ListFrom(e.list, e.next, n) = r
      /\ ListFrom(dequeue(e.list, e.next), e.next, n) = Tail(r)
      /\ \A x \in DOMAIN next \ Elements(r) : e.next[x] = next[x]
=============================================================================
