---------------------------- MODULE GaussThreads ----------------------------
(***************************************************************************)
(* proj4/c4.5.c: a system of N linear equations solved by batches of       *)
(* NTHREADS threads.  main starts batch after batch of pp threads, which   *)
(* pivot, then batch after batch of ge threads, which eliminate; the       *)
(* threads of a batch go through the columns in step, with a barrier after *)
(* each column, and main joins them all before the next batch.  Thread t   *)
(* works on row t only.                                                    *)
(*                                                                         *)
(* A step is an access of a thread to the rows other threads work on (the  *)
(* search of a pivot, the swap, the reading of the factor, the writing of  *)
(* the row, the printing of one row), a call of the barrier, or a          *)
(* pthread_create or pthread_join of main.                                 *)
(*                                                                         *)
(* A double is modelled by an element of the field of P elements: the      *)
(* arithmetic is exact, and rounding is not modelled.  Before elimination  *)
(* the entries are small whole numbers, so comparing them in pp means the  *)
(* same in both.                                                           *)
(***************************************************************************)
EXTENDS Naturals, FiniteSets, FiniteSetsExt

CONSTANTS N,              \* unknowns
          ThreadCounts,   \* values of argv[1]
          MaxThreads,     \* bound: the largest of them
          P               \* a prime, the number of values of an entry

ASSUME NAssumption == N \in Nat \ {0}
ASSUME ThreadCountsAssumption == MaxThreads \in Nat /\ ThreadCounts \subseteq 0 .. MaxThreads
ASSUME PAssumption ==
  /\ P \in Nat /\ P > 2 * N
  /\ \A b \in 1 .. P - 1 : \E c \in 1 .. P - 1 : (b * c) % P = 1

VARIABLES
  NTHREADS,   \* the global of that name
  phase,      \* which threads main creates, "pp" or "ge"
  mpc,        \* where main stands
  thread,     \* main's variable of that name: the id of the next thread
  n,          \* main's i: threads of this batch created, or joined
  th,         \* the threads: location, column i, and the local x (see below)
  A,          \* the matrix
  pivoted,    \* history: columns pivoted
  done        \* history: done[r], columns eliminated from row r

vars == <<NTHREADS, phase, mpc, thread, n, th, A, pivoted, done>>

Rows == 0 .. N - 1
Cols == 0 .. N

\* Every id main can hand out: the last batch may run past the last row.
Ids == 0 .. N + MaxThreads

(* th[t].x is prow in pp, factor in ge, and the row that print_matrix       *)
(* prints next.                                                             *)
NoThread == [pc |-> "none", i |-> 0, x |-> 0]

-----------------------------------------------------------------------------
(* The arithmetic of the entries.                                          *)

Minus(a, b)  == (a + P - b) % P
Times(a, b)  == (a * b) % P

\* Dividing by zero gives no number (infinity or NaN in the program).
Over(a, b) ==
  IF b = 0 THEN 0 ELSE Times(a, CHOOSE c \in 1 .. P - 1 : Times(b, c) = 1)

\* main's matrix: 1.0, with N on the antidiagonal, and the right-hand side.
InitialMatrix ==
  [r \in Rows |-> [c \in Cols |->
     CASE c = N         -> 2 * N - 1
       [] c = N - r - 1 -> N
       [] OTHER         -> 1]]

\* The row pp may settle on in column i.  The search runs one row past the
\* matrix, into the barrier that the build puts behind it; read as a double
\* that memory is zero or far below 1, which can only win against zeros.  This is
\* taken from the build and not shown by any property.
PivotRows(i) ==
  LET best == {r \in i .. N - 1 :
                 /\ A[r][i] > 0
                 /\ \A q \in i .. N - 1 : A[q][i] <= A[r][i]
                 /\ \A q \in i .. r - 1 : A[q][i] < A[r][i]}
  IN  IF best = {} THEN {i, N} ELSE best

\* slip: the swap starts one column late
BehindColumn(i) == i + 1 .. N

FromColumn(i) == i .. N

\* Rows p and q exchanged from column i on.
Swapped(p, q, i) ==
  [A EXCEPT ![p] = [c \in Cols |-> IF c \in FromColumn(i) THEN A[q][c] ELSE A[p][c]],
            ![q] = [c \in Cols |-> IF c \in FromColumn(i) THEN A[p][c] ELSE A[q][c]]]

\* Row r after column i has been eliminated with row i.
Reduced(r, i, factor) ==
  [c \in Cols |-> CASE c < i -> A[r][c]
                    [] c = i -> 0
                    [] c > i -> Minus(A[r][c], Times(A[i][c], factor))]

\* x[r], which goes into A[r][N], from the solutions of the rows below.
Solution(r) ==
  LET sum == MapThenSumSet(LAMBDA c : Times(A[r][c], A[c][N]), r + 1 .. N - 1)
  IN  Over(Minus(A[r][N], sum % P), A[r][r])

-----------------------------------------------------------------------------

Init ==
  /\ NTHREADS \in ThreadCounts
  /\ phase = "pp" /\ mpc = "batch" /\ thread = 0 /\ n = 0
  /\ th = [t \in Ids |-> NoThread]
  /\ A = InitialMatrix
  /\ pivoted = 0
  /\ done = [r \in Rows |-> 0]

-----------------------------------------------------------------------------
(* main.                                                                   *)

\* slip: the second loop has the limit of the first
LimitOfPivoting == N - 1

\* The limit of the loop over the batches.
Limit == IF phase = "pp" THEN N - 1 ELSE N

\* The test of that loop, and pthread_barrier_init.
StartBatch ==
  /\ mpc = "batch"
  /\ thread < Limit
  /\ mpc' = IF NTHREADS = 0 THEN "batch" ELSE "create"
  /\ n' = 0
  /\ UNCHANGED <<NTHREADS, phase, thread, th, A, pivoted, done>>

StartElimination ==
  /\ mpc = "batch" /\ phase = "pp"
  /\ thread >= Limit
  /\ phase' = "ge"
  /\ thread' = 0
  /\ UNCHANGED <<NTHREADS, mpc, n, th, A, pivoted, done>>

\* slip: the threads go through the last column as well
LastColumnToo(i) == i < N

\* The test of the loop over the columns in pp and ge.
InColumns(i) == i < N - 1

\* pthread_create, with the id by value.
Create ==
  /\ mpc = "create"
  /\ th' = [th EXCEPT ![thread] =
              [pc |-> IF InColumns(0) THEN "step" ELSE "gone", i |-> 0, x |-> 0]]
  /\ thread' = thread + 1
  /\ n' = IF n + 1 = NTHREADS THEN 0 ELSE n + 1
  /\ mpc' = IF n + 1 = NTHREADS THEN "join" ELSE "create"
  /\ UNCHANGED <<NTHREADS, phase, A, pivoted, done>>

\* slip: main does not wait for the threads
CreatedAtAll(t) == th[t].pc # "none"

HasEnded(t) == th[t].pc = "gone"

\* pthread_join of threads[i], in the order of creation.
Join ==
  /\ mpc = "join"
  /\ HasEnded(thread - NTHREADS + n)
  /\ th' = [th EXCEPT ![thread - NTHREADS + n] = NoThread]
  /\ n' = IF n + 1 = NTHREADS THEN 0 ELSE n + 1
  /\ mpc' = IF n + 1 = NTHREADS THEN "batch" ELSE "join"
  /\ UNCHANGED <<NTHREADS, phase, thread, A, pivoted, done>>

\* The test that ends the loop over the batches of ge.
StartSolving ==
  /\ mpc = "batch" /\ phase = "ge"
  /\ thread >= Limit
  /\ mpc' = "solve"
  /\ UNCHANGED <<NTHREADS, phase, thread, n, th, A, pivoted, done>>

\* The back substitution, from the last row up; n rows have been solved.
Solve ==
  /\ mpc = "solve"
  /\ A' = [A EXCEPT ![N - 1 - n][N] = Solution(N - 1 - n)]
  /\ n' = n + 1
  /\ mpc' = IF n + 1 = N THEN "done" ELSE "solve"
  /\ UNCHANGED <<NTHREADS, phase, thread, th, pivoted, done>>

-----------------------------------------------------------------------------
(* pp and ge.                                                              *)

\* slip: the rows above the pivot are reduced as well
HasWorkElsewhere(t) ==
  IF phase = "pp" THEN t = th[t].i ELSE th[t].i # t /\ t < N

\* Thread t has something to do in its current column.
HasWork(t) ==
  IF phase = "pp" THEN t = th[t].i ELSE th[t].i < t /\ t < N

\* The search of the pivot of column i.
Search(t) ==
  /\ th[t].pc = "step" /\ phase = "pp" /\ HasWork(t)
  /\ \E p \in PivotRows(t) :
       th' = [th EXCEPT ![t].pc = "write", ![t].x = p]
  /\ UNCHANGED <<NTHREADS, phase, mpc, thread, n, A, pivoted, done>>

Swap(t) ==
  /\ th[t].pc = "write" /\ phase = "pp"
  /\ A' = Swapped(t, th[t].x, t)
  /\ pivoted' = pivoted + 1
  /\ th' = [th EXCEPT ![t].pc = "arrive"]
  /\ UNCHANGED <<NTHREADS, phase, mpc, thread, n, done>>

\* factor = A[j][i] / A[i][i].
ReadFactor(t) ==
  /\ th[t].pc = "step" /\ phase = "ge" /\ HasWork(t)
  /\ th' = [th EXCEPT ![t].pc = "write",
                      ![t].x = Over(A[t][th[t].i], A[th[t].i][th[t].i])]
  /\ UNCHANGED <<NTHREADS, phase, mpc, thread, n, A, pivoted, done>>

\* The loop over the columns of row j.
ReduceRow(t) ==
  /\ th[t].pc = "write" /\ phase = "ge"
  /\ A' = [A EXCEPT ![t] = Reduced(t, th[t].i, th[t].x)]
  /\ done' = [done EXCEPT ![t] = @ + 1]
  /\ th' = [th EXCEPT ![t].pc = "arrive"]
  /\ UNCHANGED <<NTHREADS, phase, mpc, thread, n, pivoted>>

\* pthread_barrier_wait: the last of NTHREADS threads lets all of them pass.
Waiting == {t \in Ids : th[t].pc = "wait"}

\* slip: the barrier was made for one thread less
LastButOne(t) == Cardinality(Waiting \cup {t}) + 1 >= NTHREADS

\* slip: the barrier was made for one thread per row
LastOfRows(t) == Cardinality(Waiting \cup {t}) = N

Last(t) == Cardinality(Waiting \cup {t}) = NTHREADS

Arrive(t) ==
  /\ \/ th[t].pc = "arrive"
     \/ th[t].pc = "step" /\ ~HasWork(t)
  /\ th' = IF Last(t)
           THEN [u \in Ids |-> IF u = t \/ u \in Waiting
                               THEN [pc |-> "after", i |-> th[u].i, x |-> 0]
                               ELSE th[u]]
           ELSE [th EXCEPT ![t].pc = "wait"]
  /\ UNCHANGED <<NTHREADS, phase, mpc, thread, n, A, pivoted, done>>

\* Thread i has its print_matrix still to do after column i.
Prints(t) == phase = "ge" /\ th[t].i = t /\ th[t].x < N

\* print_matrix prints a row.
PrintRow(t) ==
  /\ th[t].pc = "after" /\ Prints(t)
  /\ th' = [th EXCEPT ![t].x = @ + 1]
  /\ UNCHANGED <<NTHREADS, phase, mpc, thread, n, A, pivoted, done>>

\* The next column, or the end of the thread.
Advance(t) ==
  /\ th[t].pc = "after" /\ ~Prints(t)
  /\ th' = [th EXCEPT ![t] =
              [pc |-> IF InColumns(@.i + 1) THEN "step" ELSE "gone",
               i |-> @.i + 1, x |-> 0]]
  /\ UNCHANGED <<NTHREADS, phase, mpc, thread, n, A, pivoted, done>>

-----------------------------------------------------------------------------

Main == StartBatch \/ StartElimination \/ Create \/ Join \/ StartSolving \/ Solve

Thread(t) ==
  \/ Search(t) \/ Swap(t) \/ ReadFactor(t) \/ ReduceRow(t)
  \/ Arrive(t) \/ PrintRow(t) \/ Advance(t)

\* main has returned.
Finished == mpc = "done" /\ UNCHANGED vars

Next == Main \/ (\E t \in Ids : Thread(t)) \/ Finished

Spec == Init /\ [][Next]_vars

\* The system runs main and every thread that is not blocked.
Fairness == WF_vars(Main) /\ \A t \in Ids : WF_vars(Thread(t))

FairSpec == Spec /\ Fairness

-----------------------------------------------------------------------------
(* Properties.                                                             *)

\* The values every variable may take.
TypeOK ==
  /\ NTHREADS \in ThreadCounts
  /\ phase \in {"pp", "ge"}
  /\ mpc \in {"batch", "create", "join", "solve", "done"}
  /\ thread \in Ids /\ n \in Ids
  /\ th \in [Ids -> [pc : {"none", "step", "write", "arrive", "wait", "after", "gone"},
                     i : 0 .. N - 1, x : 0 .. P - 1]]
  /\ A \in [Rows -> [Cols -> 0 .. P - 1]]
  /\ pivoted \in 0 .. N
  /\ done \in [Rows -> 0 .. N]

\* What thread t is about to read and to write of the rows.
Reads(t) ==
  CASE th[t].pc = "step" /\ HasWork(t) ->
         IF phase = "pp" THEN t .. N - 1 ELSE {t, th[t].i}
    [] th[t].pc = "write" /\ phase = "ge" -> {th[t].i}
    [] OTHER -> {}

Writes(t) ==
  CASE th[t].pc = "write" -> IF phase = "pp" THEN {t, th[t].x} ELSE {t}
    [] OTHER -> {}

\* No two threads are ever about to access the same row of A, one of them to
\* write it: the barrier is all the synchronisation pp and ge have, and it is
\* enough (print_matrix aside, see PrintShowsStep).
NoRace ==
  \A t, u \in Ids :
    t # u => Writes(t) \cap (Reads(u) \cup Writes(u)) = {}

\* Between the reading of the factor and the end of the row's reduction, the row
\* used is final and the row reduced has lost the columns before, although the
\* rows of a batch are done by different threads, and those of other batches in
\* other passes over i.
RowFinalWhenUsed ==
  \A t \in Ids :
    th[t].pc = "write" /\ phase = "ge" =>
      LET i == th[t].i
      IN  done[i] = i /\ done[t] = i

\* Columns are pivoted in order, across batches too, and the row chosen is a
\* row of the matrix although the search runs past it.
PivotsInOrder ==
  \A t \in Ids :
    th[t].pc = "write" /\ phase = "pp" => pivoted = t /\ th[t].x \in t .. N - 1

\* main goes on to the back substitution only with a triangular matrix, for
\* any number of threads per batch, one that does not divide N included.
SolveOnUpper ==
  mpc = "solve" =>
    \A r \in Rows :
      done[r] = r /\ \A c \in 0 .. r - 1 : A[r][c] = 0

\* What is printed at the end solves the system the program started from.
SolutionSolves ==
  mpc = "done" =>
    \A r \in Rows :
      MapThenSumSet(LAMBDA c : Times(InitialMatrix[r][c], A[c][N]), Rows) % P
        = InitialMatrix[r][N]

\* The program ends, unless it is asked to work with no thread at all.
Termination == NTHREADS # 0 ~> mpc = "done"

\* The threads do the work in an order a sequential elimination may take.
Sequential == INSTANCE Elimination WITH solved <- mpc = "done"
RefinesElimination == Sequential!Spec

-----------------------------------------------------------------------------
(* What the documentation says and the code does not do.                   *)

\* c4.5.c:61-64: thread i prints the matrix as its column's reductions left it.
PrintShowsStep ==
  \A t \in Ids :
    th[t].pc = "after" /\ Prints(t) => done[th[t].x] = Min({th[t].x, t + 1})
=============================================================================
