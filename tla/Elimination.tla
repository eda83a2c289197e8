---------------------------- MODULE Elimination ----------------------------
(***************************************************************************)
(* What proj4/c4.5.c has to respect to solve its system, whatever thread   *)
(* does the work and in whatever batch: columns are pivoted in order and   *)
(* before any elimination, a row loses its columns from left to right,     *)
(* column i is eliminated with row i once row i is final, and the back     *)
(* substitution starts from a triangular matrix.  No thread, no barrier:   *)
(* module GaussThreads, which has them, implements this one.               *)
(***************************************************************************)
EXTENDS Naturals

CONSTANT N    \* unknowns

VARIABLES pivoted,    \* columns pivoted, always a prefix
          done,       \* done[r]: columns eliminated from row r, always a prefix
          solved      \* the solution has been computed

vars == <<pivoted, done, solved>>

Rows == 0 .. N - 1

Init ==
  /\ pivoted = 0
  /\ done = [r \in Rows |-> 0]
  /\ solved = FALSE

Pivot ==
  /\ pivoted < N - 1
  /\ \A r \in Rows : done[r] = 0
  /\ pivoted' = pivoted + 1
  /\ UNCHANGED <<done, solved>>

\* Row r loses its next column to the row of that number, which is final.
Reduce(r) ==
  /\ pivoted = N - 1
  /\ done[r] < r
  /\ done[done[r]] = done[r]
  /\ done' = [done EXCEPT ![r] = done[r] + 1]
  /\ UNCHANGED <<pivoted, solved>>

Solve ==
  /\ \A r \in Rows : done[r] = r
  /\ ~solved
  /\ solved' = TRUE
  /\ UNCHANGED <<pivoted, done>>

Next == Pivot \/ Solve \/ \E r \in Rows : Reduce(r)

Spec == Init /\ [][Next]_vars
=============================================================================
