----------------------------- MODULE MCMTKernel -----------------------------
(* MTKernel, and queue.c on all small lists.                                *)
EXTENDS MTKernel

PROC4 == 0 .. 3

\* The links of list q, and stale links of the other PROCs.
LinksOf(q, stale) ==
  [p \in PROC4 |-> IF p \in Elements(q) THEN LET i == CHOOSE i \in DOMAIN q : q[i] = p
                                             IN  IF i = Len(q) THEN NULL ELSE q[i + 1]
                   ELSE stale]

\* queue.c, with the two priorities PROCs have: enqueue links the PROC in where
\* the reference puts it, in every sorted list of up to three others, and
\* dequeue takes off the first, whatever the PROC's next field held before; the
\* links of PROCs outside the list stay.
QueueOrder ==
  \A priority4 \in [PROC4 -> {0, 1}], q \in SeqOf(1 .. 3, 3), stale \in PROC4 \cup {NULL} :
    Distinct(q) /\ Sorted(q, priority4) => Agrees(q, LinksOf(q, stale), priority4, 0)
=============================================================================
