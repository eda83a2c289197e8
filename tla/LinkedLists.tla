---------------------------- MODULE LinkedLists ----------------------------
(***************************************************************************)
(* Lists of nodes that hold a pointer to the next one, as ch3 and          *)
(* fileTreeSim have them: next maps a node to the one behind it, and null  *)
(* ends a list.                                                            *)
(***************************************************************************)
EXTENDS Naturals, Sequences

\* The node behind x, and nothing behind the end.
After(next, x, null) == IF x = null THEN null ELSE next[x]

\* The nodes met by a walk along next from the node first on, but no more than
\* n of them: when there are only n nodes the rest of them would be a cycle.
NodesFrom(first, next, n, null) ==
  LET at[k \in 1 .. n] == IF k = 1 THEN first ELSE After(next, at[k - 1], null)
  IN  [k \in {i \in 1 .. n : at[i] # null} |-> at[k]]
=============================================================================
