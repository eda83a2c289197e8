---------------------------- MODULE GaussProofs ----------------------------
(* Theorems about GaussThreads for every number of unknowns and every number *)
(* of threads.  GInv is about the threads and the columns, VInv about the    *)
(* numbers in the matrix.                                                    *)
EXTENDS GaussThreads, FiniteSetTheorems, TLAPS

-----------------------------------------------------------------------------
(* The inductive invariant.                                                *)

Locs == {"none", "step", "write", "arrive", "wait", "after", "gone"}

\* The threads of the batch that have been created and not been joined are
\* those from First up to thread - 1.
First ==
  IF mpc = "create" THEN thread - n
  ELSE IF mpc = "join" THEN thread - NTHREADS + n
  ELSE thread

Live == First .. thread - 1

\* The barriers thread t has passed.
Passed(t) == IF th[t].pc = "after" THEN th[t].i + 1 ELSE th[t].i

\* Thread t has its work in column i behind it.
Worked(t) == th[t].pc \in {"arrive", "wait", "after"}

MainInv ==
  /\ NTHREADS \in 0 .. MaxThreads
  /\ phase \in {"pp", "ge"}
  /\ mpc \in {"batch", "create", "join", "solve", "done"}
  /\ thread \in 0 .. N + MaxThreads /\ n \in Nat
  /\ mpc = "create" => n < NTHREADS /\ n <= thread /\ First < N
  /\ mpc = "join" => n < NTHREADS /\ NTHREADS <= thread /\ thread < N + NTHREADS
  /\ mpc \in {"solve", "done"} => phase = "ge" /\ thread >= N

\* What a thread is, and where it can be.
ThreadInv(t) ==
  /\ th[t] = [pc |-> th[t].pc, i |-> th[t].i, x |-> th[t].x]
  /\ th[t].pc \in Locs /\ th[t].i \in 0 .. N - 1
  /\ th[t].pc # "none" <=> t \in Live
  /\ th[t].pc = "gone" => th[t].i = N - 1
  /\ th[t].pc \notin {"none", "gone"} => th[t].i < N - 1
  /\ th[t].pc = "write" => HasWork(t)
  /\ mpc = "create" /\ t \in Live => Passed(t) = 0

ThreadsInv == DOMAIN th = Ids /\ \A t \in Ids : ThreadInv(t)

\* No thread is a barrier ahead of another.
StepInv == \A t, u \in Live : Passed(t) = Passed(u)

\* While the columns are pivoted: which of them are.
PivotInv ==
  phase = "pp" =>
    /\ pivoted \in 0 .. N - 1
    /\ \A r \in Rows : done[r] = 0
    /\ \A t \in 0 .. N - 2 :
         /\ t < First => t < pivoted
         /\ t >= thread => pivoted <= t
         /\ t \in Live => (t < pivoted <=> th[t].i > t \/ (th[t].i = t /\ Worked(t)))

\* During the elimination: how far each row is.
DoneInv ==
  phase = "ge" =>
    /\ pivoted = N - 1
    /\ \A r \in Rows :
         /\ r < First => done[r] = r
         /\ r >= thread => done[r] = 0
         /\ r \in Live =>
              done[r] = IF th[r].i >= r THEN r
                        ELSE IF Worked(r) THEN th[r].i + 1 ELSE th[r].i

MatrixInv ==
  /\ DOMAIN done = Rows /\ DOMAIN A = Rows
  /\ \A r \in Rows : DOMAIN A[r] = Cols
  /\ \A r \in Rows, c \in 0 .. N - 1 : c < done[r] => A[r][c] = 0

\* Before the elimination no coefficient is zero, so the search of the pivot
\* stays in the matrix.
PositiveInv ==
  phase = "pp" =>
    /\ \A r \in Rows, c \in 0 .. N - 1 : A[r][c] \in 1 .. N
    /\ \A t \in Ids : th[t].pc = "write" => th[t].x \in t .. N - 1

GInv ==
  /\ MainInv /\ ThreadsInv /\ StepInv
  /\ PivotInv /\ DoneInv /\ MatrixInv /\ PositiveInv

-----------------------------------------------------------------------------
(* The first state.                                                        *)

\* The antidiagonal is N and the other coefficients are one.
LEMMA MatrixAtFirst ==
  ASSUME NEW r \in Rows, NEW c \in 0 .. N - 1
  PROVE  InitialMatrix[r][c] \in 1 .. N
  BY NAssumption DEF InitialMatrix, Rows, Cols

\* The state in which main starts satisfies the invariant.
LEMMA InitGInv == Init => GInv
<1> SUFFICES ASSUME Init PROVE GInv
  OBVIOUS
<1> USE NAssumption, ThreadCountsAssumption DEF Init
<1>1. First = 0 /\ Live = {}
  BY DEF First, Live
<1>2. MainInv
  BY DEF MainInv
<1>3. ThreadsInv
  BY <1>1 DEF ThreadsInv, ThreadInv, NoThread, Ids, Locs, Passed
<1>4. StepInv
  BY <1>1 DEF StepInv
<1>5. PivotInv
  BY <1>1 DEF PivotInv, Rows
<1>6. DoneInv
  BY DEF DoneInv
<1>7. MatrixInv
  BY DEF MatrixInv, InitialMatrix, Rows
<1>8. PositiveInv
  BY MatrixAtFirst DEF PositiveInv, NoThread, Ids
<1> QED  BY <1>2, <1>3, <1>4, <1>5, <1>6, <1>7, <1>8 DEF GInv

-----------------------------------------------------------------------------
(* The steps of one thread.                                                *)

\* Thread t goes on to pc2 in its column, and nobody else does anything.
Moves(t, pc2) ==
  /\ UNCHANGED <<NTHREADS, phase, mpc, thread, n>>
  /\ DOMAIN th' = Ids
  /\ th'[t] = [pc |-> pc2, i |-> th[t].i, x |-> th'[t].x]
  /\ \A u \in Ids \ {t} : th'[u] = th[u]

\* A thread that moves within its column, not past the barrier, disturbs
\* nothing of what is said about threads.
LEMMA MoveKeepsThreads ==
  ASSUME GInv, NEW t \in Ids, NEW pc2 \in Locs \ {"none", "gone"}, Moves(t, pc2),
         th[t].pc \notin {"none", "gone"},
         pc2 = "after" <=> th[t].pc = "after",
         pc2 = "write" => HasWork(t)
  PROVE  /\ MainInv' /\ ThreadsInv' /\ StepInv'
         /\ First' = First /\ Live' = Live
         /\ th'[t].pc = pc2 /\ th'[t].i = th[t].i
<1>1. First' = First /\ Live' = Live
  BY DEF Moves, First, Live
<1>2. MainInv'
  BY <1>1 DEF Moves, GInv, MainInv
<1>3. th'[t].pc = pc2 /\ th'[t].i = th[t].i
  BY DEF Moves
<1>4. ASSUME NEW u \in Ids PROVE ThreadInv(u)' /\ Passed(u)' = Passed(u)
  <2>1. CASE u = t
    <3>1. ThreadInv(t)
      BY DEF GInv, ThreadsInv
    <3>2. Passed(t)' = Passed(t)
      BY <1>3 DEF Passed
    <3>3. HasWork(t)' = HasWork(t)
      BY <1>3 DEF HasWork, Moves
    <3>4. th'[t] = [pc |-> th'[t].pc, i |-> th'[t].i, x |-> th'[t].x]
      BY DEF Moves
    <3>5. mpc' = mpc
      BY DEF Moves
    <3> QED  BY <2>1, <3>1, <3>2, <3>3, <3>4, <3>5, <1>1, <1>3 DEF ThreadInv
  <2>2. CASE u # t
    <3>1. th'[u] = th[u] /\ phase' = phase /\ mpc' = mpc
      BY <2>2 DEF Moves
    <3>2. HasWork(u)' = HasWork(u) /\ Passed(u)' = Passed(u)
      BY <3>1 DEF HasWork, Passed
    <3> QED  BY <1>1, <3>1, <3>2 DEF GInv, ThreadsInv, ThreadInv
  <2> QED  BY <2>1, <2>2
<1>5. ThreadsInv'
  BY <1>4 DEF ThreadsInv, Moves
<1>6. Live \subseteq Ids
  BY NAssumption, ThreadCountsAssumption DEF Live, First, GInv, MainInv, Ids
<1>7. StepInv'
  BY <1>1, <1>4, <1>6 DEF StepInv, GInv
<1> QED  BY <1>1, <1>2, <1>3, <1>5, <1>7

\* The record of pivots and eliminated columns stays true when a thread gets
\* past the work of its column without having any.
LEMMA RecordsKept ==
  ASSUME GInv, First' = First, Live' = Live,
         UNCHANGED <<phase, thread, A, pivoted, done>>,
         NEW S \in SUBSET Live,
         \A u \in Live : th'[u].i = th[u].i,
         \A u \in Live \ S : Worked(u)' <=> Worked(u),
         \A u \in S : Worked(u)' /\ ~HasWork(u)
  PROVE  PivotInv' /\ DoneInv' /\ MatrixInv'
<1>1. PivotInv'
  <2> SUFFICES ASSUME phase = "pp", NEW u \in 0 .. N - 2, u \in Live
               PROVE  (u < pivoted <=> th[u].i > u \/ (th[u].i = u /\ Worked(u)))'
    BY DEF PivotInv, GInv
  <2>1. u < pivoted <=> th[u].i > u \/ (th[u].i = u /\ Worked(u))
    BY DEF PivotInv, GInv
  <2> QED  BY <2>1 DEF HasWork
<1>2. DoneInv'
  <2> SUFFICES ASSUME phase = "ge", NEW r \in Rows, r \in Live
               PROVE  (done[r] = IF th[r].i >= r THEN r
                                 ELSE IF Worked(r) THEN th[r].i + 1 ELSE th[r].i)'
    BY DEF DoneInv, GInv
  <2>1. done[r] = IF th[r].i >= r THEN r ELSE IF Worked(r) THEN th[r].i + 1 ELSE th[r].i
    BY DEF DoneInv, GInv
  <2>2. th[r].i \in 0 .. N - 1 /\ N \in Nat /\ r \in 0 .. N - 1
    BY NAssumption, ThreadCountsAssumption DEF GInv, ThreadsInv, ThreadInv, Rows, Ids
  <2>3. r \in S => th[r].i >= r
    BY <2>2, phase = "ge" DEF HasWork
  <2> QED  BY <2>1, <2>2, <2>3
<1>3. MatrixInv'
  BY DEF MatrixInv, GInv
<1> QED  BY <1>1, <1>2, <1>3

\* A thread that moves without changing a row keeps the whole invariant.
LEMMA MoveKeepsGInv ==
  ASSUME GInv, NEW t \in Ids, NEW pc2 \in Locs \ {"none", "gone"}, Moves(t, pc2),
         th[t].pc \notin {"none", "gone"},
         pc2 = "after" <=> th[t].pc = "after",
         pc2 = "write" => HasWork(t) /\ (phase = "pp" => th'[t].x \in t .. N - 1),
         pc2 \in {"arrive", "wait", "after"} <=> Worked(t) \/ pc2 = "wait",
         pc2 = "wait" => Worked(t) \/ ~HasWork(t),
         UNCHANGED <<A, pivoted, done>>
  PROVE  GInv'
<1>1. /\ MainInv' /\ ThreadsInv' /\ StepInv'
      /\ First' = First /\ Live' = Live
      /\ th'[t].pc = pc2 /\ th'[t].i = th[t].i
  BY MoveKeepsThreads
<1>2. /\ phase' = phase /\ thread' = thread
      /\ \A u \in Ids \ {t} : th'[u] = th[u]
  BY DEF Moves
<1>3. t \in Live /\ Live \subseteq Ids
  BY NAssumption, ThreadCountsAssumption
     DEF Live, First, GInv, MainInv, ThreadsInv, ThreadInv, Ids
<1>4. PivotInv' /\ DoneInv' /\ MatrixInv'
  <2>1. \A u \in Live : th'[u].i = th[u].i
    BY <1>1, <1>2, <1>3
  <2>2. \A u \in Live \ {t} : Worked(u)' <=> Worked(u)
    BY <1>2, <1>3 DEF Worked
  <2>3. CASE Worked(t)' <=> Worked(t)
    <3>1. {} \in SUBSET Live
      OBVIOUS
    <3> QED  BY <1>1, <1>2, <2>1, <2>2, <2>3, <3>1, RecordsKept
  <2>4. CASE ~(Worked(t)' <=> Worked(t))
    <3>1. Worked(t)' /\ ~HasWork(t)
      BY <1>1, <2>4 DEF Worked
    <3>2. {t} \in SUBSET Live
      BY <1>3
    <3> QED  BY <1>1, <1>2, <2>1, <2>2, <3>1, <3>2, RecordsKept
  <2> QED  BY <2>3, <2>4
<1>5. PositiveInv'
  <2> SUFFICES ASSUME phase = "pp", NEW u \in Ids, th'[u].pc = "write"
               PROVE  th'[u].x \in u .. N - 1
    BY <1>2 DEF PositiveInv, GInv
  <2>1. CASE u # t  BY <1>2, <2>1 DEF PositiveInv, GInv
  <2>2. CASE u = t  BY <1>1, <2>2
  <2> QED  BY <2>1, <2>2
<1> QED  BY <1>1, <1>4, <1>5 DEF GInv

-----------------------------------------------------------------------------
(* The search of a pivot.                                                  *)

\* A set of naturals that is not empty has a least element.
LEMMA LeastElement ==
  ASSUME NEW S \in SUBSET Nat, S # {}
  PROVE  \E m \in S : \A k \in S : m <= k
<1> DEFINE R == OpToRel(<, Nat)
<1>1. IsWellFoundedOn(R, Nat)
  BY NatLessThanWellFounded
<1>2. \E m \in S : \A k \in S : ~ (<<k, m>> \in R)
  <2> HIDE DEF R
  <2> QED  BY <1>1, WFMin
<1>3. ASSUME NEW k \in Nat, NEW m \in Nat, ~ (<<k, m>> \in R) PROVE m <= k
  BY <1>3 DEF OpToRel
<1> QED  BY <1>2, <1>3

\* Where no coefficient is zero, pp settles on a row of the matrix.
LEMMA PivotInMatrix ==
  ASSUME NEW i \in 0 .. N - 2, \A r \in Rows : A[r][i] \in 1 .. N
  PROVE  PivotRows(i) \subseteq i .. N - 1
<1> USE NAssumption
<1> DEFINE Below == {N - A[q][i] : q \in i .. N - 1}
           best == {r \in i .. N - 1 :
                      /\ A[r][i] > 0
                      /\ \A q \in i .. N - 1 : A[q][i] <= A[r][i]
                      /\ \A q \in i .. r - 1 : A[q][i] < A[r][i]}
<1>1. \A q \in i .. N - 1 : A[q][i] \in 1 .. N
  BY DEF Rows
<1>2. Below \in SUBSET Nat
  BY <1>1
<1>3. N - A[i][i] \in Below
  OBVIOUS
<1>4. PICK m \in Below : \A k \in Below : m <= k
  BY <1>2, <1>3, LeastElement
<1>5. PICK p \in i .. N - 1 : m = N - A[p][i]
  BY <1>4
<1>6. \A q \in i .. N - 1 : A[q][i] <= A[p][i]
  <2> SUFFICES ASSUME NEW q \in i .. N - 1 PROVE A[q][i] <= A[p][i]
    OBVIOUS
  <2>1. N - A[p][i] <= N - A[q][i]
    BY <1>4, <1>5
  <2> QED  BY <1>1, <2>1
<1> DEFINE Largest == {q \in i .. N - 1 : A[q][i] = A[p][i]}
<1>7. Largest \in SUBSET Nat /\ Largest # {}
  OBVIOUS
<1>8. PICK r \in Largest : \A q \in Largest : r <= q
  BY <1>7, LeastElement
<1>9. r \in best
  <2>1. r \in i .. N - 1 /\ A[r][i] = A[p][i]
    BY <1>8
  <2>2. ASSUME NEW q \in i .. r - 1 PROVE A[q][i] < A[r][i]
    <3>1. q \in i .. N - 1 /\ ~(r <= q)
      BY <2>1
    <3>2. A[q][i] # A[r][i]
      BY <1>8, <2>1, <3>1
    <3> QED  BY <1>1, <1>6, <2>1, <3>1, <3>2
  <2> QED  BY <1>1, <1>6, <2>1, <2>2
<1>10. PivotRows(i) = best
  BY <1>9 DEF PivotRows
<1> QED  BY <1>10

\* What holds of a thread that is not at rest, and of the column it is in.
LEMMA Moving ==
  ASSUME GInv, NEW t \in Ids, th[t].pc \notin {"none", "gone"}
  PROVE  /\ t \in Live /\ t \in Nat /\ N \in Nat \ {0}
         /\ th[t] = [pc |-> th[t].pc, i |-> th[t].i, x |-> th[t].x]
         /\ th[t].i \in 0 .. N - 2
  BY NAssumption DEF GInv, ThreadsInv, ThreadInv, Ids

\* The search of the pivot stays in the matrix.
LEMMA SearchKeepsGInv == ASSUME GInv, NEW t \in Ids, Search(t) PROVE GInv'
<1> USE DEF Search
<1>1. PICK p \in PivotRows(t) : th' = [th EXCEPT ![t].pc = "write", ![t].x = p]
  OBVIOUS
<1>2. /\ th[t] = [pc |-> th[t].pc, i |-> th[t].i, x |-> th[t].x]
      /\ t \in 0 .. N - 2 /\ DOMAIN th = Ids
  BY Moving DEF HasWork, GInv, ThreadsInv
<1>3. Moves(t, "write") /\ th'[t].x = p
  BY <1>1, <1>2 DEF Moves
<1>4. \A r \in Rows : A[r][t] \in 1 .. N
  BY <1>2, NAssumption DEF GInv, PositiveInv
<1>5. p \in t .. N - 1
  BY <1>1, <1>2, <1>4, PivotInMatrix
<1> QED  BY <1>3, <1>5, MoveKeepsGInv DEF Locs, Worked

\* The factor is the thread's own.
LEMMA ReadFactorKeepsGInv == ASSUME GInv, NEW t \in Ids, ReadFactor(t) PROVE GInv'
<1> USE DEF ReadFactor
<1>1. th[t] = [pc |-> th[t].pc, i |-> th[t].i, x |-> th[t].x] /\ DOMAIN th = Ids
  BY Moving DEF GInv, ThreadsInv
<1>2. Moves(t, "write")
  BY <1>1 DEF Moves
<1> QED  BY <1>2, MoveKeepsGInv DEF Locs, Worked

\* Printing changes nothing.
LEMMA PrintRowKeepsGInv == ASSUME GInv, NEW t \in Ids, PrintRow(t) PROVE GInv'
<1> USE DEF PrintRow
<1>1. th[t] = [pc |-> th[t].pc, i |-> th[t].i, x |-> th[t].x] /\ DOMAIN th = Ids
  BY Moving DEF GInv, ThreadsInv
<1>2. Moves(t, "after")
  BY <1>1 DEF Moves
<1> QED  BY <1>2, MoveKeepsGInv DEF Locs, Worked

-----------------------------------------------------------------------------
(* The barrier.                                                            *)

\* Only main between the creation of a batch and its first join has as many
\* threads as the barrier waits for: who comes last is the last of all.
LEMMA LastOfAll ==
  ASSUME GInv, NEW t \in Ids, th[t].pc \in {"arrive", "step"}, Last(t)
  PROVE  mpc = "join" /\ Waiting \cup {t} = Live
<1> USE NAssumption, ThreadCountsAssumption
<1>1. /\ thread \in Int /\ First \in Int /\ NTHREADS \in Nat
      /\ mpc \in {"create", "join"} /\ thread - First <= NTHREADS
      /\ thread - First = NTHREADS => mpc = "join"
  <2>1. t \in Live
    BY DEF GInv, ThreadsInv, ThreadInv
  <2> QED  BY <2>1 DEF GInv, MainInv, First, Live
<1>2. Waiting \cup {t} \in SUBSET Live
  BY DEF Waiting, GInv, ThreadsInv, ThreadInv
<1>3. /\ IsFiniteSet(Live)
      /\ Cardinality(Live) = IF First > thread - 1 THEN 0 ELSE thread - First
  <2>1. thread - 1 \in Int
    BY <1>1
  <2>2. /\ IsFiniteSet(First .. thread - 1)
        /\ Cardinality(First .. thread - 1)
             = IF First > thread - 1 THEN 0 ELSE (thread - 1) - First + 1
    BY <1>1, <2>1, FS_Interval
  <2> QED  BY <1>1, <2>2 DEF Live
<1>4. /\ Cardinality(Waiting \cup {t}) <= Cardinality(Live)
      /\ Cardinality(Live) = Cardinality(Waiting \cup {t}) => Live = Waiting \cup {t}
  BY <1>2, <1>3, FS_Subset
<1>5. t \in Live
  BY <1>2
<1>6. Cardinality(Live) = thread - First
  BY <1>1, <1>3, <1>5 DEF Live
<1> QED  BY <1>1, <1>4, <1>6 DEF Last

\* The barrier keeps the invariant: who arrives waits, or all go on at once.
LEMMA ArriveKeepsGInv == ASSUME GInv, NEW t \in Ids, Arrive(t) PROVE GInv'
<1>1. /\ th[t].pc \in {"arrive", "step"}
      /\ th[t].pc = "step" => ~HasWork(t)
      /\ UNCHANGED <<NTHREADS, phase, mpc, thread, n, A, pivoted, done>>
  BY DEF Arrive
<1>2. /\ th[t] = [pc |-> th[t].pc, i |-> th[t].i, x |-> th[t].x]
      /\ DOMAIN th = Ids /\ t \in Live /\ th[t].i \in 0 .. N - 2
  BY <1>1, Moving DEF GInv, ThreadsInv
<1>3. CASE ~Last(t)
  <2>1. th' = [th EXCEPT ![t].pc = "wait"]
    BY <1>3 DEF Arrive
  <2>2. Moves(t, "wait")
    BY <1>1, <1>2, <2>1 DEF Moves
  <2> QED  BY <1>1, <2>2, MoveKeepsGInv DEF Locs, Worked
<1>4. CASE Last(t)
  <2>1. mpc = "join" /\ Waiting \cup {t} = Live
    BY <1>1, <1>4, LastOfAll
  <2>2. th' = [u \in Ids |-> IF u \in Live THEN [pc |-> "after", i |-> th[u].i, x |-> 0]
                             ELSE th[u]]
    BY <1>4, <2>1 DEF Arrive
  <2>3. First' = First /\ Live' = Live
    BY <1>1 DEF First, Live
  <2>4. \A u \in Ids \ Live : th'[u] = th[u]
    BY <2>2
  <2>5. ASSUME NEW u \in Live
        PROVE  /\ u \in Ids
               /\ th'[u] = [pc |-> th'[u].pc, i |-> th'[u].i, x |-> th'[u].x]
               /\ th'[u].pc = "after" /\ th'[u].i = th[u].i
               /\ th[u].pc \in {"arrive", "step", "wait"}
    <3>1. u \in Ids /\ th[u].pc \in {"arrive", "step", "wait"}
      BY <1>1, <1>2, <2>1 DEF Waiting
    <3>2. th'[u] = [pc |-> "after", i |-> th[u].i, x |-> 0]
      BY <2>2, <3>1
    <3> QED  BY <3>1, <3>2
  <2>6. MainInv'
    BY <1>1, <2>3 DEF GInv, MainInv
  <2>7. ThreadsInv'
    <3>1. DOMAIN th' = Ids
      BY <2>2
    <3>2. ASSUME NEW u \in Ids PROVE ThreadInv(u)'
      <4>1. ThreadInv(u)
        BY DEF GInv, ThreadsInv
      <4>2. CASE u \in Live
        BY <1>1, <2>1, <2>3, <2>5, <4>1, <4>2 DEF ThreadInv, Locs
      <4>3. CASE u \notin Live
        <5>1. th'[u] = th[u] /\ th[u].pc = "none"
          BY <2>4, <4>1, <4>3 DEF ThreadInv
        <5> QED  BY <1>1, <2>1, <2>3, <4>1, <5>1 DEF ThreadInv
      <4> QED  BY <4>2, <4>3
    <3> QED  BY <3>1, <3>2 DEF ThreadsInv
  <2>8. StepInv'
    <3>1. \A u \in Live : Passed(u) = th[u].i /\ Passed(u)' = th[u].i + 1
      BY <2>5 DEF Passed
    <3> QED  BY <2>3, <3>1 DEF StepInv, GInv
  <2>9. PivotInv' /\ DoneInv' /\ MatrixInv'
    <3>1. \A u \in Live : th'[u].i = th[u].i /\ Worked(u)'
      BY <2>5 DEF Worked
    <3>2. \A u \in Live \ {t} : Worked(u)' <=> Worked(u)
      BY <2>1, <3>1 DEF Worked, Waiting
    <3>3. CASE Worked(t)
      <4>1. {} \in SUBSET Live
        OBVIOUS
      <4>2. \A u \in Live \ {} : Worked(u)' <=> Worked(u)
        BY <3>1, <3>2, <3>3
      <4> QED  BY <1>1, <2>3, <3>1, <4>1, <4>2, RecordsKept
    <3>4. CASE ~Worked(t)
      <4>1. {t} \in SUBSET Live /\ ~HasWork(t)
        BY <1>1, <1>2, <3>4 DEF Worked
      <4> QED  BY <1>1, <2>3, <3>1, <3>2, <4>1, RecordsKept
    <3> QED  BY <3>3, <3>4
  <2>10. PositiveInv'
    BY <1>1, <2>2 DEF PositiveInv, GInv
  <2> QED  BY <2>6, <2>7, <2>8, <2>9, <2>10 DEF GInv
<1> QED  BY <1>3, <1>4

-----------------------------------------------------------------------------
(* The steps that change a row, and the end of a column.                   *)

\* The thread that works on a column of pp is the one whose column comes next.
LEMMA ColumnIsNext ==
  ASSUME GInv, NEW t \in Ids, phase = "pp", th[t].pc \in {"step", "write"}, HasWork(t)
  PROVE  /\ t = th[t].i /\ t \in 0 .. N - 2
         /\ pivoted = t
         /\ \A u \in Live : Passed(u) = t
<1> USE NAssumption
<1>1. t \in Live /\ t = th[t].i /\ t \in 0 .. N - 2
  BY Moving DEF HasWork
<1>2. pivoted \in Nat /\ ~(t < pivoted)
  BY <1>1 DEF GInv, PivotInv, Worked
<1>3. \A u \in Live : Passed(u) = t
  BY <1>1 DEF GInv, StepInv, Passed
<1>4. CASE t = 0
  BY <1>1, <1>2, <1>3, <1>4
<1>5. CASE t # 0
  <2>1. First \in Int /\ thread \in Int
    BY DEF GInv, MainInv, First
  <2>2. t - 1 \in 0 .. N - 2 /\ t - 1 < thread
    BY <1>1, <1>5, <2>1 DEF Live
  <2>3. t - 1 < pivoted
    <3>1. CASE t - 1 < First
      BY <2>1, <2>2, <3>1 DEF GInv, PivotInv
    <3>2. CASE t - 1 \in Live
      <4>1. Passed(t - 1) = t
        BY <1>3, <3>2
      <4>2. th[t - 1].i = t \/ (th[t - 1].pc = "after" /\ th[t - 1].i = t - 1)
        <5>1. th[t - 1].i \in Int
          BY <2>2, ThreadCountsAssumption DEF GInv, ThreadsInv, ThreadInv, Ids
        <5> QED  BY <1>1, <4>1, <5>1 DEF Passed
      <4> QED  BY <1>1, <2>1, <2>2, <3>2, <4>2 DEF GInv, PivotInv, Worked
    <3> QED  BY <2>1, <2>2, <3>1, <3>2 DEF Live, GInv, MainInv
  <2> QED  BY <1>1, <1>2, <1>3, <2>3
<1> QED  BY <1>4, <1>5

\* So is the one about to swap.
LEMMA PivotOfColumn ==
  ASSUME GInv, NEW t \in Ids, phase = "pp", th[t].pc = "write"
  PROVE  /\ t = th[t].i /\ t \in 0 .. N - 2 /\ th[t].x \in t .. N - 1
         /\ pivoted = t
         /\ \A u \in Live : Passed(u) = t
  BY ColumnIsNext DEF GInv, ThreadsInv, ThreadInv, PositiveInv

\* A thread with work in a column of ge has reduced its row up to that column i,
\* and row i is complete.
LEMMA RowsAreFinal ==
  ASSUME GInv, NEW t \in Ids, phase = "ge", th[t].pc \in {"step", "write"}, HasWork(t)
  PROVE  /\ t \in Rows /\ th[t].i \in Rows /\ th[t].i < t
         /\ done[t] = th[t].i
         /\ done[th[t].i] = th[t].i
<1> USE NAssumption
<1>1. t \in Live /\ t \in Rows /\ th[t].i \in 0 .. N - 2 /\ th[t].i < t
  <2>1. t \in Live /\ t \in Nat /\ th[t].i \in 0 .. N - 2
    BY Moving
  <2>2. th[t].i < t /\ t < N
    BY DEF HasWork
  <2> QED  BY <2>1, <2>2 DEF Rows
<1>2. done[t] = th[t].i
  BY <1>1 DEF GInv, DoneInv, Worked, Rows
<1>3. ASSUME NEW i \in Rows, i < t, \A u \in Live : Passed(u) = i
      PROVE  done[i] = i
  <2>1. i \in Nat /\ i < thread /\ First \in Int /\ thread \in Int
    BY <1>1, <1>3 DEF Live, GInv, MainInv, First, Rows
  <2>2. CASE i < First
    BY <2>2 DEF GInv, DoneInv
  <2>3. CASE i \in Live
    <3>1. Passed(i) = i
      BY <1>3, <2>3
    <3>2. th[i].i \in Int
      BY ThreadCountsAssumption DEF GInv, ThreadsInv, ThreadInv, Ids, Rows
    <3>3. done[i] = IF th[i].i >= i THEN i ELSE IF Worked(i) THEN th[i].i + 1 ELSE th[i].i
      BY <2>3 DEF GInv, DoneInv
    <3> QED  BY <2>1, <3>1, <3>2, <3>3 DEF Passed, Worked
  <2> QED  BY <2>1, <2>2, <2>3 DEF Live
<1>4. done[th[t].i] = th[t].i
  <2>1. th[t].i \in Rows
    BY <1>1 DEF Rows
  <2>2. \A u \in Live : Passed(u) = th[t].i
    BY <1>1 DEF GInv, StepInv, Passed
  <2> QED  BY <1>1, <1>3, <2>1, <2>2
<1> QED  BY <1>1, <1>2, <1>4 DEF Rows

\* So has the one about to reduce it.
LEMMA RowsOfColumn ==
  ASSUME GInv, NEW t \in Ids, phase = "ge", th[t].pc = "write"
  PROVE  /\ t \in Rows /\ th[t].i \in Rows /\ th[t].i < t
         /\ done[t] = th[t].i
         /\ done[th[t].i] = th[t].i
  BY RowsAreFinal DEF GInv, ThreadsInv, ThreadInv

\* The swap moves coefficients about and makes no new one.
LEMMA SwapKeepsGInv == ASSUME GInv, NEW t \in Ids, Swap(t) PROVE GInv'
<1> USE NAssumption, ThreadCountsAssumption
<1> USE DEF Swap
<1>1. /\ t = th[t].i /\ t \in 0 .. N - 2 /\ th[t].x \in t .. N - 1 /\ t \in Live
      /\ pivoted = t /\ \A u \in Live : Passed(u) = t
      /\ th[t] = [pc |-> th[t].pc, i |-> th[t].i, x |-> th[t].x] /\ DOMAIN th = Ids
  BY PivotOfColumn, Moving DEF GInv, ThreadsInv
<1>2. Moves(t, "arrive")
  BY <1>1 DEF Moves
<1>3. /\ MainInv' /\ ThreadsInv' /\ StepInv'
      /\ First' = First /\ Live' = Live
      /\ th'[t].pc = "arrive" /\ th'[t].i = th[t].i
  BY <1>2, MoveKeepsThreads DEF Locs
<1>4. \A u \in Ids \ {t} : th'[u] = th[u]
  BY <1>2 DEF Moves
<1>5. First \in Int /\ thread \in Int /\ Live \subseteq Ids
  BY DEF First, Live, GInv, MainInv, Ids
<1>6. PivotInv'
  <2>1. pivoted' \in 0 .. N - 1 /\ \A r \in Rows : done'[r] = 0
    BY <1>1 DEF GInv, PivotInv
  <2>2. ASSUME NEW u \in 0 .. N - 2
        PROVE  /\ u < First' => u < pivoted'
               /\ u >= thread' => pivoted' <= u
    BY <1>1, <1>3, <1>5 DEF GInv, PivotInv, Live
  <2>3. ASSUME NEW u \in 0 .. N - 2, u \in Live'
        PROVE  u < pivoted' <=> th'[u].i > u \/ (th'[u].i = u /\ Worked(u)')
    <3>1. CASE u = t
      BY <1>1, <1>3, <3>1 DEF Worked
    <3>2. CASE u # t
      <4>1. u \in Ids /\ u \in Live /\ th'[u] = th[u]
        BY <1>3, <1>4, <1>5, <2>3, <3>2
      <4>2. u < pivoted <=> th[u].i > u \/ (th[u].i = u /\ Worked(u))
        BY <4>1 DEF GInv, PivotInv
      <4> QED  BY <1>1, <3>2, <4>1, <4>2 DEF Worked
    <3> QED  BY <3>1, <3>2
  <2> QED  BY <2>1, <2>2, <2>3 DEF PivotInv
<1>7. DoneInv'
  BY DEF DoneInv
<1>8. /\ DOMAIN A' = Rows
      /\ \A r \in Rows : DOMAIN A'[r] = Cols
      /\ \A r \in Rows, c \in Cols : \E q \in Rows : A'[r][c] = A[q][c]
  <2>1. t \in Rows /\ th[t].x \in Rows
    BY <1>1 DEF Rows
  <2> QED  BY <2>1 DEF GInv, MatrixInv, Swapped
<1>9. MatrixInv'
  BY <1>8 DEF MatrixInv, GInv, PivotInv, Rows
<1>10. PositiveInv'
  <2>1. ASSUME NEW r \in Rows, NEW c \in 0 .. N - 1 PROVE A'[r][c] \in 1 .. N
    <3>1. c \in Cols
      BY NAssumption DEF Cols
    <3>2. PICK q \in Rows : A'[r][c] = A[q][c]
      BY <1>8, <3>1
    <3> QED  BY <3>2 DEF GInv, PositiveInv
  <2>2. \A u \in Ids : th'[u].pc = "write" => th'[u].x \in u .. N - 1
    BY <1>3, <1>4 DEF GInv, PositiveInv
  <2> QED  BY <2>1, <2>2 DEF PositiveInv
<1> QED  BY <1>3, <1>6, <1>7, <1>9, <1>10 DEF GInv

\* The row loses one column more, and keeps the zeros it has.
LEMMA ReduceRowKeepsGInv == ASSUME GInv, NEW t \in Ids, ReduceRow(t) PROVE GInv'
<1> USE NAssumption, ThreadCountsAssumption
<1> USE DEF ReduceRow
<1>1. /\ t \in Rows /\ th[t].i \in Rows /\ th[t].i < t /\ t \in Live
      /\ done[t] = th[t].i
      /\ th[t] = [pc |-> th[t].pc, i |-> th[t].i, x |-> th[t].x] /\ DOMAIN th = Ids
  BY RowsOfColumn, Moving DEF GInv, ThreadsInv
<1>2. Moves(t, "arrive")
  BY <1>1 DEF Moves
<1>3. /\ MainInv' /\ ThreadsInv' /\ StepInv'
      /\ First' = First /\ Live' = Live
      /\ th'[t].pc = "arrive" /\ th'[t].i = th[t].i
  BY <1>2, MoveKeepsThreads DEF Locs
<1>4. \A u \in Ids \ {t} : th'[u] = th[u]
  BY <1>2 DEF Moves
<1>5. /\ First \in Int /\ thread \in Int /\ Live \subseteq Ids
      /\ DOMAIN done = Rows
  BY DEF First, Live, GInv, MainInv, Ids, MatrixInv
<1>6. PivotInv'
  BY DEF PivotInv
<1>7. DoneInv'
  <2> SUFFICES ASSUME NEW r \in Rows
               PROVE  /\ r < First => done'[r] = r
                      /\ r >= thread => done'[r] = 0
                      /\ r \in Live =>
                           done'[r] = IF th'[r].i >= r THEN r
                                      ELSE IF Worked(r)' THEN th'[r].i + 1 ELSE th'[r].i
    BY <1>3 DEF DoneInv, GInv
  <2>1. CASE r = t
    <3>1. done'[r] = th[t].i + 1 /\ r \in Live /\ th[t].i \in Int /\ r \in Int
      BY <1>1, <1>5, <2>1 DEF Rows
    <3> QED  BY <1>1, <1>3, <1>5, <2>1, <3>1 DEF Live, Worked
  <2>2. CASE r # t
    <3>1. done'[r] = done[r]
      BY <1>5, <2>2
    <3>2. r \in Live => th'[r] = th[r]
      BY <1>4, <1>5, <2>2
    <3> QED  BY <3>1, <3>2 DEF GInv, DoneInv, Worked
  <2> QED  BY <2>1, <2>2
<1>8. MatrixInv'
  <2>1. A' = [A EXCEPT ![t] = Reduced(t, th[t].i, th[t].x)]
    OBVIOUS
  <2>2. /\ DOMAIN done' = Rows /\ DOMAIN A' = Rows
        /\ \A r \in Rows : DOMAIN A'[r] = Cols
    BY <1>5, <2>1 DEF GInv, MatrixInv, Reduced
  <2>3. ASSUME NEW r \in Rows, NEW c \in 0 .. N - 1, c < done'[r]
        PROVE  A'[r][c] = 0
    <3>1. CASE r = t
      <4>1. c \in Cols /\ c \in Int /\ th[t].i \in Int /\ done'[r] = th[t].i + 1
        BY <1>1, <1>5, <3>1 DEF Cols, Rows
      <4>2. A'[r] = Reduced(t, th[t].i, th[t].x)
        BY <2>1, <3>1 DEF GInv, MatrixInv
      <4>3. CASE c < th[t].i
        <5>1. A'[r][c] = A[t][c]
          BY <4>1, <4>2, <4>3 DEF Reduced
        <5> QED  BY <1>1, <4>3, <5>1 DEF GInv, MatrixInv
      <4>4. CASE c = th[t].i
        BY <4>1, <4>2, <4>4 DEF Reduced
      <4> QED  BY <2>3, <4>1, <4>3, <4>4
    <3>2. CASE r # t
      <4>1. A'[r] = A[r] /\ done'[r] = done[r]
        BY <1>5, <2>1, <3>2 DEF GInv, MatrixInv
      <4> QED  BY <2>3, <4>1 DEF GInv, MatrixInv
    <3> QED  BY <3>1, <3>2
  <2> QED  BY <2>2, <2>3 DEF MatrixInv
<1>9. PositiveInv'
  BY DEF PositiveInv
<1> QED  BY <1>3, <1>6, <1>7, <1>8, <1>9 DEF GInv

\* The thread goes on to the next column, or ends.
LEMMA AdvanceKeepsGInv == ASSUME GInv, NEW t \in Ids, Advance(t) PROVE GInv'
<1> USE NAssumption, ThreadCountsAssumption
<1> DEFINE pc2 == IF InColumns(th[t].i + 1) THEN "step" ELSE "gone"
<1>1. /\ th[t].pc = "after"
      /\ th' = [th EXCEPT ![t] = [pc |-> pc2, i |-> th[t].i + 1, x |-> 0]]
      /\ UNCHANGED <<NTHREADS, phase, mpc, thread, n, A, pivoted, done>>
  BY DEF Advance
<1>2. t \in Live /\ th[t].i \in 0 .. N - 2 /\ DOMAIN th = Ids
  BY <1>1, Moving DEF GInv, ThreadsInv
<1>3. /\ First' = First /\ Live' = Live
      /\ First \in Int /\ thread \in Int /\ Live \subseteq Ids
  BY <1>1 DEF First, Live, GInv, MainInv, Ids
<1>4. /\ th'[t].pc \in {"step", "gone"} /\ th'[t].i = th[t].i + 1
      /\ th'[t].pc = "gone" <=> th[t].i + 1 = N - 1
      /\ th'[t] = [pc |-> th'[t].pc, i |-> th'[t].i, x |-> th'[t].x]
  <2>1. th'[t] = [pc |-> pc2, i |-> th[t].i + 1, x |-> 0]
    BY <1>1, <1>2
  <2>2. th'[t].pc = pc2 /\ th'[t].i = th[t].i + 1 /\ th'[t].x = 0
    BY <2>1
  <2> QED  BY <1>2, <2>1, <2>2 DEF InColumns
<1>5. \A u \in Ids \ {t} : th'[u] = th[u]
  BY <1>1, <1>2
<1>6. MainInv'
  BY <1>1, <1>3 DEF GInv, MainInv
<1>7. \A u \in Live : Passed(u)' = Passed(u)
  BY <1>1, <1>3, <1>4, <1>5 DEF Passed
<1>8. ThreadsInv'
  <2>1. ASSUME NEW u \in Ids PROVE ThreadInv(u)'
    <3>1. ThreadInv(u)
      BY DEF GInv, ThreadsInv
    <3>2. CASE u = t
      BY <1>1, <1>2, <1>3, <1>4, <1>7, <3>1, <3>2 DEF ThreadInv, Locs
    <3>3. CASE u # t
      <4>1. th'[u] = th[u] /\ HasWork(u)' = HasWork(u) /\ Passed(u)' = Passed(u)
        BY <1>1, <1>5, <3>3 DEF HasWork, Passed
      <4> QED  BY <1>1, <1>3, <3>1, <4>1 DEF ThreadInv
    <3> QED  BY <3>2, <3>3
  <2>2. DOMAIN th' = Ids
    BY <1>1, <1>2
  <2> QED  BY <2>1, <2>2 DEF ThreadsInv
<1>9. StepInv'
  BY <1>3, <1>7 DEF GInv, StepInv
<1>10. PivotInv'
  <2> SUFFICES ASSUME phase = "pp", NEW u \in 0 .. N - 2, u \in Live
               PROVE  u < pivoted <=> th'[u].i > u \/ (th'[u].i = u /\ Worked(u)')
    BY <1>1, <1>3 DEF GInv, PivotInv
  <2>1. u < pivoted <=> th[u].i > u \/ (th[u].i = u /\ Worked(u))
    BY DEF GInv, PivotInv
  <2>2. CASE u = t
    <3>1. Worked(u) /\ ~Worked(u)'
      BY <1>1, <1>4, <2>2 DEF Worked
    <3> QED  BY <1>2, <1>4, <2>1, <2>2, <3>1
  <2>3. CASE u # t
    BY <1>3, <1>5, <2>1, <2>3 DEF Worked
  <2> QED  BY <2>2, <2>3
<1>11. DoneInv'
  <2> SUFFICES ASSUME phase = "ge", NEW r \in Rows, r \in Live
               PROVE  done[r] = IF th'[r].i >= r THEN r
                                ELSE IF Worked(r)' THEN th'[r].i + 1 ELSE th'[r].i
    BY <1>1, <1>3 DEF GInv, DoneInv
  <2>1. done[r] = IF th[r].i >= r THEN r ELSE IF Worked(r) THEN th[r].i + 1 ELSE th[r].i
    BY DEF GInv, DoneInv
  <2>2. CASE r = t
    <3>1. Worked(r) /\ ~Worked(r)' /\ r \in Int
      BY <1>1, <1>4, <2>2 DEF Worked, Rows
    <3> QED  BY <1>2, <1>4, <2>1, <2>2, <3>1
  <2>3. CASE r # t
    BY <1>3, <1>5, <2>1, <2>3 DEF Worked
  <2> QED  BY <2>2, <2>3
<1>12. MatrixInv'
  BY <1>1 DEF GInv, MatrixInv
<1>13. PositiveInv'
  BY <1>1, <1>4, <1>5 DEF GInv, PositiveInv
<1> QED  BY <1>6, <1>8, <1>9, <1>10, <1>11, <1>12, <1>13 DEF GInv

-----------------------------------------------------------------------------
(* The steps of main.                                                      *)

\* Between batches there is no thread.
LEMMA NoneBetween ==
  ASSUME GInv, mpc \notin {"create", "join"}
  PROVE  /\ First = thread /\ Live = {} /\ thread \in Nat
         /\ \A t \in Ids : th[t].pc = "none"
<1>1. First = thread /\ Live = {} /\ thread \in Nat
  BY ThreadCountsAssumption, NAssumption DEF First, Live, GInv, MainInv
<1> QED  BY <1>1 DEF GInv, ThreadsInv, ThreadInv

\* A step of main between batches that leaves none of its threads behind: what
\* is said of threads stays true.
LEMMA ThreadsKept ==
  ASSUME GInv, mpc \notin {"create", "join"}, Live' = {}, UNCHANGED th
  PROVE  ThreadsInv' /\ StepInv'
<1>1. \A t \in Ids : th'[t].pc = "none"
  BY NoneBetween
<1>2. \A t \in Ids : ThreadInv(t)'
  BY <1>1 DEF GInv, ThreadsInv, ThreadInv
<1> QED  BY <1>2 DEF GInv, ThreadsInv, StepInv

\* A batch starts with no thread.
LEMMA StartBatchKeepsGInv == ASSUME GInv, StartBatch PROVE GInv'
<1> USE NAssumption, ThreadCountsAssumption
<1> USE DEF StartBatch
<1>1. First = thread /\ Live = {} /\ thread \in Nat /\ \A t \in Ids : th[t].pc = "none"
  BY NoneBetween
<1>2. First' = thread /\ Live' = {}
  BY <1>1 DEF First, Live
<1>3. thread < N
  BY <1>1 DEF Limit
<1>4. MainInv'
  BY <1>1, <1>2, <1>3 DEF GInv, MainInv
<1>5. ThreadsInv' /\ StepInv'
  BY <1>2, ThreadsKept
<1>6. PivotInv'
  BY <1>1, <1>2 DEF GInv, PivotInv
<1>7. DoneInv'
  BY <1>1, <1>2 DEF GInv, DoneInv
<1>8. MatrixInv' /\ PositiveInv'
  BY DEF GInv, MatrixInv, PositiveInv
<1> QED  BY <1>4, <1>5, <1>6, <1>7, <1>8 DEF GInv

\* pp has pivoted all columns when main starts the threads of ge.
LEMMA StartEliminationKeepsGInv == ASSUME GInv, StartElimination PROVE GInv'
<1> USE NAssumption, ThreadCountsAssumption
<1> USE DEF StartElimination
<1>1. First = thread /\ Live = {} /\ thread \in Nat /\ \A t \in Ids : th[t].pc = "none"
  BY NoneBetween
<1>2. First' = 0 /\ Live' = {}
  BY DEF First, Live
<1>3. MainInv'
  BY <1>2 DEF GInv, MainInv
<1>4. ThreadsInv' /\ StepInv'
  BY <1>2, ThreadsKept
<1>5. PivotInv'
  BY DEF PivotInv
<1>6. pivoted = N - 1
  <2>1. thread >= N - 1
    BY DEF Limit
  <2>2. CASE N = 1
    BY <2>2 DEF GInv, PivotInv
  <2>3. CASE N # 1
    <3>1. N - 2 \in 0 .. N - 2 /\ N - 2 < First
      BY <1>1, <2>1, <2>3
    <3>2. N - 2 < pivoted
      BY <3>1 DEF GInv, PivotInv
    <3> QED  BY <3>2 DEF GInv, PivotInv
  <2> QED  BY <2>2, <2>3
<1>7. DoneInv'
  BY <1>2, <1>6 DEF GInv, PivotInv, DoneInv, Rows
<1>8. MatrixInv' /\ PositiveInv'
  BY DEF GInv, MatrixInv, PositiveInv
<1> QED  BY <1>3, <1>4, <1>5, <1>7, <1>8 DEF GInv

\* A new thread has passed no barrier, and nor has any other of its batch: they
\* are too few.
LEMMA CreateKeepsGInv == ASSUME GInv, Create PROVE GInv'
<1> USE NAssumption, ThreadCountsAssumption
<1> USE DEF Create
<1> DEFINE pc2 == IF InColumns(0) THEN "step" ELSE "gone"
<1>1. /\ NTHREADS \in Nat /\ NTHREADS <= MaxThreads /\ n \in Nat /\ n < NTHREADS
      /\ n <= thread /\ thread - n < N /\ thread \in Nat /\ First = thread - n
  BY DEF GInv, MainInv, First
<1>2. thread \in Ids /\ thread \notin Live
  BY <1>1 DEF Ids, Live
<1>3. First' = First /\ Live' = Live \cup {thread} /\ Live \subseteq Ids
  <2>1. First' = First
    BY <1>1 DEF First
  <2> QED  BY <1>1, <2>1 DEF Live, Ids
<1>4. /\ th'[thread].pc = pc2 /\ th'[thread].i = 0
      /\ th'[thread] = [pc |-> th'[thread].pc, i |-> th'[thread].i, x |-> th'[thread].x]
      /\ \A u \in Ids \ {thread} : th'[u] = th[u]
      /\ DOMAIN th' = Ids
  <2>1. th'[thread] = [pc |-> pc2, i |-> 0, x |-> 0]
    BY <1>2 DEF GInv, ThreadsInv
  <2>2. \A u \in Ids \ {thread} : th'[u] = th[u]
    BY DEF GInv, ThreadsInv
  <2>3. DOMAIN th' = Ids
    BY DEF GInv, ThreadsInv
  <2> QED  BY <2>1, <2>2, <2>3
<1>5. MainInv'
  BY <1>1, <1>3 DEF GInv, MainInv
<1>6. /\ \A u \in Live : Passed(u)' = Passed(u) /\ Passed(u) = 0
      /\ \A u \in Ids : u = thread => Passed(u)' = 0
  <2>1. ASSUME NEW u \in Live PROVE Passed(u)' = Passed(u) /\ Passed(u) = 0
    <3>1. u \in Ids /\ u # thread
      BY <1>2, <1>3
    <3> QED  BY <1>4, <3>1 DEF Passed, GInv, ThreadsInv, ThreadInv
  <2>2. ASSUME NEW u \in Ids, u = thread PROVE Passed(u)' = 0
    <3>1. th'[u].i = 0 /\ th'[u].pc # "after"
      BY <1>4, <2>2
    <3> QED  BY <3>1 DEF Passed
  <2> QED  BY <2>1, <2>2
<1>7. ThreadsInv'
  <2>1. ASSUME NEW u \in Ids PROVE ThreadInv(u)'
    <3>1. CASE u = thread
      <4>1. pc2 \in {"step", "gone"} /\ (pc2 = "gone" <=> ~(0 < N - 1))
        BY DEF InColumns
      <4> QED  BY <1>3, <1>4, <1>6, <3>1, <4>1 DEF ThreadInv, Locs
    <3>2. CASE u # thread
      <4>1. ThreadInv(u)
        BY DEF GInv, ThreadsInv
      <4>2. th'[u] = th[u] /\ HasWork(u)' = HasWork(u) /\ Passed(u)' = Passed(u)
        BY <1>4, <3>2 DEF HasWork, Passed
      <4>3. u \in Live' <=> u \in Live
        BY <1>3, <3>2
      <4> QED  BY <4>1, <4>2, <4>3 DEF ThreadInv
    <3> QED  BY <3>1, <3>2
  <2> QED  BY <1>4, <2>1 DEF ThreadsInv
<1>8. StepInv'
  <2>1. \A u \in Live' : Passed(u)' = 0
    BY <1>2, <1>3, <1>6
  <2> QED  BY <2>1 DEF StepInv
<1>9. PivotInv'
  <2> SUFFICES ASSUME phase = "pp", NEW t \in 0 .. N - 2
               PROVE  /\ t < First => t < pivoted
                      /\ t >= thread + 1 => pivoted <= t
                      /\ t \in Live' =>
                           (t < pivoted <=> th'[t].i > t \/ (th'[t].i = t /\ Worked(t)'))
    BY <1>3 DEF GInv, PivotInv
  <2>1. CASE t = thread
    BY <1>1, <1>4, <2>1 DEF GInv, PivotInv, Worked
  <2>2. CASE t # thread
    <3>1. t \in Ids
      BY DEF Ids
    <3>2. th'[t] = th[t] /\ (t \in Live' <=> t \in Live)
      BY <1>3, <1>4, <2>2, <3>1
    <3> QED  BY <1>1, <2>2, <3>2 DEF GInv, PivotInv, Worked
  <2> QED  BY <2>1, <2>2
<1>10. DoneInv'
  <2> SUFFICES ASSUME phase = "ge", NEW r \in Rows
               PROVE  /\ r < First => done[r] = r
                      /\ r >= thread + 1 => done[r] = 0
                      /\ r \in Live' =>
                           done[r] = IF th'[r].i >= r THEN r
                                     ELSE IF Worked(r)' THEN th'[r].i + 1 ELSE th'[r].i
    BY <1>3 DEF GInv, DoneInv
  <2>1. CASE r = thread
    BY <1>1, <1>4, <2>1 DEF GInv, DoneInv, Worked
  <2>2. CASE r # thread
    <3>1. r \in Ids /\ r \in Nat
      BY DEF Ids, Rows
    <3>2. th'[r] = th[r] /\ (r \in Live' <=> r \in Live)
      BY <1>3, <1>4, <2>2, <3>1
    <3> QED  BY <1>1, <2>2, <3>1, <3>2 DEF GInv, DoneInv, Worked
  <2> QED  BY <2>1, <2>2
<1>11. MatrixInv'
  BY DEF GInv, MatrixInv
<1>12. PositiveInv'
  BY <1>4 DEF GInv, PositiveInv
<1> QED  BY <1>5, <1>7, <1>8, <1>9, <1>10, <1>11, <1>12 DEF GInv

\* A thread that is joined has been through all the columns.
LEMMA JoinKeepsGInv == ASSUME GInv, Join PROVE GInv'
<1> USE NAssumption, ThreadCountsAssumption
<1> USE DEF Join
<1>1. /\ NTHREADS \in Nat /\ n \in Nat /\ n < NTHREADS /\ NTHREADS <= thread
      /\ thread \in Nat /\ thread <= N + MaxThreads
      /\ First = thread - NTHREADS + n /\ First < thread /\ First \in Nat
  BY DEF GInv, MainInv, First
<1>2. First \in Ids /\ First \in Live /\ th[First].i = N - 1
  <2>1. First \in Ids /\ First \in Live
    BY <1>1 DEF Ids, Live
  <2>2. th[First].pc = "gone"
    BY <1>1 DEF HasEnded
  <2> QED  BY <2>1, <2>2 DEF GInv, ThreadsInv, ThreadInv
<1>3. First' = First + 1 /\ Live' = Live \ {First} /\ Live \subseteq Ids
  <2>1. First' = First + 1
    BY <1>1 DEF First
  <2> QED  BY <1>1, <2>1 DEF Live, Ids
<1>4. /\ th'[First] = NoThread
      /\ \A u \in Ids \ {First} : th'[u] = th[u]
      /\ DOMAIN th' = Ids
  BY <1>1, <1>2 DEF GInv, ThreadsInv
<1>5. MainInv'
  BY <1>1, <1>3 DEF GInv, MainInv
<1>6. ThreadsInv'
  <2>1. ASSUME NEW u \in Ids PROVE ThreadInv(u)'
    <3>1. CASE u = First
      <4>1. /\ th'[u].pc = "none" /\ th'[u].i = 0
            /\ th'[u] = [pc |-> th'[u].pc, i |-> th'[u].i, x |-> th'[u].x]
        BY <1>4, <3>1 DEF NoThread
      <4>2. u \notin Live'
        BY <1>3, <3>1
      <4> QED  BY <4>1, <4>2 DEF ThreadInv, Locs
    <3>2. CASE u # First
      <4>1. ThreadInv(u)
        BY DEF GInv, ThreadsInv
      <4>2. th'[u] = th[u] /\ HasWork(u)' = HasWork(u) /\ mpc' # "create"
        BY <1>4, <3>2 DEF HasWork
      <4>3. u \in Live' <=> u \in Live
        BY <1>3, <3>2
      <4> QED  BY <4>1, <4>2, <4>3 DEF ThreadInv
    <3> QED  BY <3>1, <3>2
  <2> QED  BY <1>4, <2>1 DEF ThreadsInv
<1>7. StepInv'
  <2>1. \A u \in Live' : u \in Live /\ Passed(u)' = Passed(u)
    BY <1>3, <1>4 DEF Passed
  <2> QED  BY <2>1 DEF GInv, StepInv
<1>8. PivotInv'
  <2> SUFFICES ASSUME phase = "pp", NEW t \in 0 .. N - 2
               PROVE  /\ t < First' => t < pivoted
                      /\ t \in Live' =>
                           (t < pivoted <=> th'[t].i > t \/ (th'[t].i = t /\ Worked(t)'))
    BY DEF GInv, PivotInv
  <2>1. CASE t = First
    BY <1>2, <1>3, <2>1 DEF GInv, PivotInv
  <2>2. CASE t # First
    <3>1. t \in Ids
      BY DEF Ids
    <3>2. th'[t] = th[t] /\ (t \in Live' <=> t \in Live)
      BY <1>3, <1>4, <2>2, <3>1
    <3> QED  BY <1>1, <1>3, <2>2, <3>2 DEF GInv, PivotInv, Worked
  <2> QED  BY <2>1, <2>2
<1>9. DoneInv'
  <2> SUFFICES ASSUME phase = "ge", NEW r \in Rows
               PROVE  /\ r < First' => done[r] = r
                      /\ r \in Live' =>
                           done[r] = IF th'[r].i >= r THEN r
                                     ELSE IF Worked(r)' THEN th'[r].i + 1 ELSE th'[r].i
    BY DEF GInv, DoneInv
  <2>1. CASE r = First
    <3>1. r \in Nat /\ th[r].i >= r
      BY <1>2, <2>1 DEF Rows
    <3> QED  BY <1>2, <1>3, <2>1, <3>1 DEF GInv, DoneInv
  <2>2. CASE r # First
    <3>1. r \in Ids /\ r \in Nat
      BY DEF Ids, Rows
    <3>2. th'[r] = th[r] /\ (r \in Live' <=> r \in Live)
      BY <1>3, <1>4, <2>2, <3>1
    <3> QED  BY <1>1, <1>3, <2>2, <3>1, <3>2 DEF GInv, DoneInv, Worked
  <2> QED  BY <2>1, <2>2
<1>10. MatrixInv'
  BY DEF GInv, MatrixInv
<1>11. PositiveInv'
  <2>1. \A u \in Ids : th'[u].pc = "write" => th'[u] = th[u]
    BY <1>4 DEF NoThread
  <2> QED  BY <2>1 DEF GInv, PositiveInv
<1> QED  BY <1>5, <1>6, <1>7, <1>8, <1>9, <1>10, <1>11 DEF GInv

\* Nothing changes but where main stands.
LEMMA StartSolvingKeepsGInv == ASSUME GInv, StartSolving PROVE GInv'
<1> USE NAssumption, ThreadCountsAssumption
<1> USE DEF StartSolving
<1>1. First = thread /\ Live = {} /\ thread \in Nat
  BY NoneBetween
<1>2. First' = First /\ Live' = {}
  BY <1>1 DEF First, Live
<1>3. MainInv'
  BY <1>2 DEF GInv, MainInv, Limit
<1>4. ThreadsInv' /\ StepInv'
  BY <1>2, ThreadsKept
<1>5. PivotInv' /\ DoneInv' /\ MatrixInv' /\ PositiveInv'
  BY <1>1, <1>2 DEF GInv, PivotInv, DoneInv, MatrixInv, PositiveInv
<1> QED  BY <1>3, <1>4, <1>5 DEF GInv

\* The back substitution writes into the last column only.
LEMMA SolveKeepsGInv == ASSUME GInv, Solve PROVE GInv'
<1> USE NAssumption, ThreadCountsAssumption
<1> USE DEF Solve
<1>1. First = thread /\ Live = {} /\ thread \in Nat
  BY NoneBetween
<1>2. First' = First /\ Live' = {} /\ phase = "ge"
  BY <1>1 DEF First, Live, GInv, MainInv
<1>3. MainInv'
  BY <1>2 DEF GInv, MainInv
<1>4. ThreadsInv' /\ StepInv'
  BY <1>2, ThreadsKept
<1>5. PivotInv' /\ DoneInv' /\ PositiveInv'
  BY <1>1, <1>2 DEF GInv, PivotInv, DoneInv, PositiveInv
<1>6. MatrixInv'
  <2>1. /\ DOMAIN A' = Rows
        /\ \A r \in Rows : DOMAIN A'[r] = Cols
        /\ \A r \in Rows, c \in 0 .. N - 1 : A'[r][c] = A[r][c]
    BY DEF GInv, MatrixInv, Cols
  <2> QED  BY <2>1 DEF GInv, MatrixInv
<1> QED  BY <1>3, <1>4, <1>5, <1>6 DEF GInv

\* Nothing happens.
LEMMA StutterKeepsGInv == ASSUME GInv, UNCHANGED vars PROVE GInv'
<1> USE DEF vars
<1>1. First' = First /\ Live' = Live
  BY DEF First, Live
<1>2. MainInv'
  BY <1>1 DEF GInv, MainInv
<1>3. ThreadsInv' /\ StepInv'
  BY <1>1 DEF GInv, ThreadsInv, ThreadInv, StepInv, Passed, HasWork
<1>4. PivotInv' /\ DoneInv' /\ MatrixInv' /\ PositiveInv'
  BY <1>1 DEF GInv, PivotInv, DoneInv, MatrixInv, PositiveInv, Worked
<1> QED  BY <1>2, <1>3, <1>4 DEF GInv

-----------------------------------------------------------------------------
(* The theorems.                                                           *)

\* Every step of c4.5.c keeps the invariant.
LEMMA StepKeepsGInv == GInv /\ [Next]_vars => GInv'
<1> SUFFICES ASSUME GInv, [Next]_vars PROVE GInv'
  OBVIOUS
<1>1. CASE Main
  BY <1>1, StartBatchKeepsGInv, StartEliminationKeepsGInv, CreateKeepsGInv,
     JoinKeepsGInv, StartSolvingKeepsGInv, SolveKeepsGInv DEF Main
<1>2. ASSUME NEW t \in Ids, Thread(t) PROVE GInv'
  BY <1>2, SearchKeepsGInv, SwapKeepsGInv, ReadFactorKeepsGInv, ReduceRowKeepsGInv,
     ArriveKeepsGInv, PrintRowKeepsGInv, AdvanceKeepsGInv DEF Thread
<1>3. CASE Finished \/ UNCHANGED vars
  BY <1>3, StutterKeepsGInv DEF Finished
<1> QED  BY <1>1, <1>2, <1>3 DEF Next

\* The invariant holds for every number of unknowns and of threads, of whatever
\* batches they are (c4.5.c:120-145).
THEOREM GaussInvariance == Spec => []GInv
  BY InitGInv, StepKeepsGInv, PTL DEF Spec

\* No two threads of pp or ge are about to access the same row of A, one of them
\* to write it (c4.5.c:30-95).
THEOREM NoRaceHolds == Spec => []NoRace
<1>1. GInv => NoRace
  <2> SUFFICES ASSUME GInv, NEW t \in Ids, NEW u \in Ids, t # u, th[t].pc = "write"
               PROVE  Writes(t) \cap (Reads(u) \cup Writes(u)) = {}
    BY DEF NoRace, Writes
  <2>1. CASE phase = "pp"
    <3>1. t = th[t].i /\ \A w \in Live : Passed(w) = t
      BY <2>1, PivotOfColumn
    <3>2. ASSUME th[u].pc \in {"step", "write"} PROVE ~HasWork(u)
      <4>1. u \in Live
        BY <3>2 DEF GInv, ThreadsInv, ThreadInv
      <4>2. th[u].i = t
        BY <3>1, <3>2, <4>1 DEF Passed
      <4> QED  BY <2>1, <4>2 DEF HasWork
    <3>3. th[u].pc # "write"
      BY <3>2 DEF GInv, ThreadsInv, ThreadInv
    <3>4. Reads(u) = {} /\ Writes(u) = {}
      BY <2>1, <3>2, <3>3 DEF Reads, Writes
    <3> QED  BY <3>4
  <2>2. CASE phase = "ge"
    <3>1. th[t].i < t /\ t \in Live
      BY <2>2, RowsOfColumn, Moving
    <3>2. ASSUME th[u].pc \in {"step", "write"} PROVE th[u].i = th[t].i
      <4>1. u \in Live
        BY <3>2 DEF GInv, ThreadsInv, ThreadInv
      <4>2. Passed(u) = Passed(t)
        BY <3>1, <4>1 DEF GInv, StepInv
      <4> QED  BY <3>2, <4>2 DEF Passed
    <3>3. Writes(t) = {t}
      BY <2>2 DEF Writes
    <3>4. t \notin Reads(u) /\ t \notin Writes(u)
      <4>1. t \in Nat /\ th[t].i \in 0 .. N - 2
        BY Moving
      <4>2. t # th[t].i
        BY <3>1, <4>1
      <4> QED  BY <2>2, <3>2, <4>2 DEF Reads, Writes
    <3> QED  BY <3>3, <3>4
  <2> QED  BY <2>1, <2>2 DEF GInv, MainInv
<1> QED  BY <1>1, GaussInvariance, PTL

\* A thread about to reduce its row has lost the columns before and reduces it
\* with a final row (c4.5.c:47-58).
THEOREM RowFinalHolds == Spec => []RowFinalWhenUsed
<1>1. GInv => RowFinalWhenUsed
  BY RowsOfColumn DEF RowFinalWhenUsed
<1> QED  BY <1>1, GaussInvariance, PTL

\* Columns are pivoted in order, and the search of the pivot settles on a row of
\* the matrix, although it looks one row too far (c4.5.c:77-79).
THEOREM PivotsInOrderHolds == Spec => []PivotsInOrder
<1>1. GInv => PivotsInOrder
  BY PivotOfColumn DEF PivotsInOrder
<1> QED  BY <1>1, GaussInvariance, PTL

\* When main gets to the back substitution, every row has lost its columns.
LEMMA AllDone ==
  ASSUME GInv, mpc \in {"solve", "done"} \/ (mpc = "batch" /\ phase = "ge" /\ thread >= N)
  PROVE  \A r \in Rows : done[r] = r
<1>1. phase = "ge" /\ thread >= N /\ First = thread /\ thread \in Nat
  BY NoneBetween DEF GInv, MainInv
<1> QED  BY <1>1, NAssumption DEF GInv, DoneInv, Rows

\* main starts the back substitution with a triangular matrix, whether or not
\* the number of threads divides the number of rows (c4.5.c:134-154).
THEOREM SolveOnUpperHolds == Spec => []SolveOnUpper
<1>1. GInv => SolveOnUpper
  <2> SUFFICES ASSUME GInv, mpc = "solve", NEW r \in Rows
               PROVE  done[r] = r /\ \A c \in 0 .. r - 1 : A[r][c] = 0
    BY DEF SolveOnUpper
  <2>1. done[r] = r
    BY AllDone
  <2> QED  BY <2>1, NAssumption DEF GInv, MatrixInv, Rows
<1> QED  BY <1>1, GaussInvariance, PTL

\* The threads of c4.5.c do the work in an order a sequential elimination may
\* take: pp's and ge's writes and main's last step are its steps, and all other
\* steps are invisible.
THEOREM GaussRefines == Spec => RefinesElimination
<1>1. Init => Sequential!Init
  BY DEF Init, Sequential!Init, Sequential!Rows, Rows
<1>2. GInv /\ [Next]_vars => [Sequential!Next]_Sequential!vars
  <2> SUFFICES ASSUME GInv, [Next]_vars
               PROVE  Sequential!Next \/ UNCHANGED <<pivoted, done, mpc = "done">>
    BY DEF Sequential!vars
  <2>1. CASE Solve
    <3>1. CASE n + 1 = N
      <4>1. \A r \in Rows : done[r] = r
        BY <2>1, AllDone DEF Solve
      <4>2. Sequential!Solve
        BY <2>1, <3>1, <4>1 DEF Solve, Sequential!Solve, Sequential!Rows, Rows
      <4> QED  BY <4>2 DEF Sequential!Next
    <3>2. CASE n + 1 # N
      BY <2>1, <3>2 DEF Solve
    <3> QED  BY <3>1, <3>2
  <2>2. CASE StartBatch \/ StartElimination \/ Create \/ Join \/ StartSolving
    BY <2>2 DEF StartBatch, StartElimination, Create, Join, StartSolving
  <2>3. ASSUME NEW t \in Ids, Swap(t) PROVE Sequential!Next
    <3>1. pivoted < N - 1 /\ \A r \in Rows : done[r] = 0
      BY <2>3, PivotOfColumn, NAssumption DEF Swap, GInv, PivotInv
    <3>2. Sequential!Pivot
      BY <2>3, <3>1 DEF Swap, Sequential!Pivot, Sequential!Rows, Rows
    <3> QED  BY <3>2 DEF Sequential!Next
  <2>4. ASSUME NEW t \in Ids, ReduceRow(t) PROVE Sequential!Next
    <3>1. /\ t \in Rows /\ th[t].i < t /\ done[t] = th[t].i
          /\ done[th[t].i] = th[t].i /\ pivoted = N - 1
      BY <2>4, RowsOfColumn DEF ReduceRow, GInv, DoneInv
    <3>2. Sequential!Reduce(t)
      BY <2>4, <3>1 DEF ReduceRow, Sequential!Reduce
    <3> QED  BY <3>1, <3>2 DEF Sequential!Next, Sequential!Rows, Rows
  <2>5. ASSUME NEW t \in Ids,
               Search(t) \/ ReadFactor(t) \/ Arrive(t) \/ PrintRow(t) \/ Advance(t)
        PROVE  UNCHANGED <<pivoted, done, mpc = "done">>
    BY <2>5 DEF Search, ReadFactor, Arrive, PrintRow, Advance
  <2>6. CASE Finished \/ UNCHANGED vars
    BY <2>6 DEF Finished, vars
  <2> QED  BY <2>1, <2>2, <2>3, <2>4, <2>5, <2>6 DEF Next, Main, Thread
<1> QED  BY <1>1, <1>2, GaussInvariance, PTL DEF Spec, RefinesElimination, Sequential!Spec

-----------------------------------------------------------------------------
(* The arithmetic of the entries.                                          *)

\* a and b are the same number modulo P.
Same(a, b) == \E k \in Int : a = b + k * P

\* What PAssumption says, and what kind of numbers these are.
LEMMA PFacts ==
  /\ P \in Nat /\ P > 2 * N /\ N \in Nat /\ N >= 1
  /\ \A b \in 1 .. P - 1 : \E c \in 1 .. P - 1 : (b * c) % P = 1
  BY PAssumption, NAssumption

\* A remainder is the same number, in range.
LEMMA ModIs ==
  ASSUME NEW a \in Int
  PROVE  a % P \in 0 .. P - 1 /\ Same(a % P, a) /\ Same(a, a % P)
<1>1. P \in Int /\ P > 0
  BY PFacts
<1>2. PICK q \in Int, r \in 0 .. P - 1 : a = P * q + r /\ a % P = r
  BY <1>1, SMTT(20)
<1>3. a % P \in 0 .. P - 1
  BY <1>2
<1>4. a = r + q * P /\ r = a + (-q) * P /\ -q \in Int
  BY <1>1, <1>2
<1>5. a = (a % P) + q * P /\ a % P = a + (-q) * P
  BY <1>2, <1>4
<1> QED  BY <1>2, <1>3, <1>4, <1>5 DEF Same

\* Same is symmetric, ...
LEMMA SameSym ==
  ASSUME NEW a \in Int, NEW b \in Int, Same(a, b) PROVE Same(b, a)
<1>1. PICK k \in Int : a = b + k * P
  BY DEF Same
<1>2. b = a + (-k) * P /\ -k \in Int
  BY <1>1, PFacts
<1> QED  BY <1>2 DEF Same

\* ... transitive, ...
LEMMA SameTrans ==
  ASSUME NEW a \in Int, NEW b \in Int, NEW c \in Int, Same(a, b), Same(b, c)
  PROVE  Same(a, c)
<1>1. PICK k \in Int : a = b + k * P
  BY DEF Same
<1>2. PICK m \in Int : b = c + m * P
  BY DEF Same
<1>3. a = c + (k + m) * P
  BY <1>1, <1>2, PFacts
<1>4. k + m \in Int
  OBVIOUS
<1> QED  BY <1>3, <1>4 DEF Same

\* ... kept by sums and differences, ...
LEMMA SameSum ==
  ASSUME NEW a \in Int, NEW b \in Int, NEW c \in Int, NEW d \in Int, Same(a, b), Same(c, d)
  PROVE  Same(a + c, b + d) /\ Same(a - c, b - d)
<1>1. PICK k \in Int : a = b + k * P
  BY DEF Same
<1>2. PICK m \in Int : c = d + m * P
  BY DEF Same
<1>3. a + c = b + d + (k + m) * P /\ a - c = b - d + (k - m) * P
  BY <1>1, <1>2, PFacts
<1>4. k + m \in Int /\ k - m \in Int
  OBVIOUS
<1> QED  BY <1>3, <1>4 DEF Same

\* ... and by products.
LEMMA SameProduct ==
  ASSUME NEW a \in Int, NEW b \in Int, NEW c \in Int, Same(a, b)
  PROVE  Same(a * c, b * c) /\ Same(c * a, c * b)
<1>1. PICK k \in Int : a = b + k * P
  BY DEF Same
<1>2. a * c = b * c + (k * c) * P /\ c * a = c * b + (k * c) * P
  BY <1>1, PFacts
<1>3. k * c \in Int
  OBVIOUS
<1> QED  BY <1>2, <1>3 DEF Same

\* Two entries that are the same number are equal.
LEMMA SameOnce ==
  ASSUME NEW a \in 0 .. P - 1, NEW b \in 0 .. P - 1, Same(a, b)
  PROVE  a = b
<1>1. PICK k \in Int : a = b + k * P
  BY DEF Same
<1>2. CASE k >= 1
  <2>1. k * P >= P
    BY <1>2, PFacts
  <2> QED BY <1>1, <2>1, PFacts
<1>3. CASE k <= -1
  <2>1. k * P <= -P
    BY <1>3, PFacts
  <2> QED BY <1>1, <2>1, PFacts
<1>4. CASE k = 0
  BY <1>1, <1>4, PFacts
<1> QED  BY <1>2, <1>3, <1>4

\* The same number has one remainder.
LEMMA ModSame ==
  ASSUME NEW a \in Int, NEW b \in Int, Same(a, b) PROVE a % P = b % P
<1>1. /\ a % P \in 0 .. P - 1 /\ b % P \in 0 .. P - 1
      /\ Same(a % P, a) /\ Same(b, b % P)
  BY ModIs
<1>2. a % P \in Int /\ b % P \in Int
  BY <1>1
<1>3. Same(a % P, b)
  BY <1>1, <1>2, SameTrans
<1>4. Same(a % P, b % P)
  BY <1>1, <1>2, <1>3, SameTrans
<1> QED  BY <1>1, <1>4, SameOnce

\* An entry is its own remainder.
LEMMA SmallMod ==
  ASSUME NEW a \in 0 .. P - 1 PROVE a % P = a
  BY PFacts

\* Same is reflexive.
LEMMA SameSelf == ASSUME NEW a \in Int PROVE Same(a, a)
<1>1. a = a + 0 * P /\ 0 \in Int
  BY PFacts
<1> QED  BY <1>1 DEF Same

\* What is in 1 .. P - 1 can be cancelled.
LEMMA Cancel ==
  ASSUME NEW d \in 1 .. P - 1, NEW a \in Int, NEW b \in Int, Same(d * a, d * b)
  PROVE  Same(a, b)
<1> USE PFacts
<1>1. PICK c \in 1 .. P - 1 : (d * c) % P = 1
  OBVIOUS
<1>2. d \in Int /\ c \in Int /\ d * c \in Int /\ d * a \in Int /\ d * b \in Int
  OBVIOUS
<1>3. Same(1, d * c)
  BY <1>1, <1>2, ModIs
<1>4. Same(1 * a, (d * c) * a) /\ Same(1 * b, (d * c) * b)
  <2>1. 1 \in Int
    OBVIOUS
  <2> HIDE PFacts
  <2> QED  BY <1>2, <1>3, <2>1, SameProduct
<1>5. Same(c * (d * a), c * (d * b))
  BY <1>2, SameProduct
<1>6. (d * c) * a = c * (d * a) /\ (d * c) * b = c * (d * b) /\ 1 * a = a /\ 1 * b = b
  BY <1>2
<1>7. (d * c) * a \in Int /\ (d * c) * b \in Int
  BY <1>2
<1> HIDE PFacts
<1>8. Same(a, (d * c) * a) /\ Same((d * c) * a, (d * c) * b) /\ Same(b, (d * c) * b)
  BY <1>4, <1>5, <1>6
<1>9. Same(a, (d * c) * b) /\ Same((d * c) * b, b)
  BY <1>7, <1>8, SameTrans, SameSym
<1> QED  BY <1>7, <1>9, SameTrans

\* The arithmetic of the entries is that of the numbers: differences, ...
LEMMA MinusIs ==
  ASSUME NEW a \in Int, NEW b \in Int
  PROVE  Minus(a, b) \in 0 .. P - 1 /\ Same(Minus(a, b), a - b)
<1>1. /\ P \in Int /\ a + P - b \in Int /\ a - b \in Int /\ 1 \in Int
      /\ a + P - b = (a - b) + 1 * P
  BY PFacts
<1>2. Same(a + P - b, a - b)
  BY <1>1 DEF Same
<1>3. /\ (a + P - b) % P \in 0 .. P - 1 /\ (a + P - b) % P \in Int
      /\ Same((a + P - b) % P, a + P - b)
  BY <1>1, ModIs
<1>4. Same((a + P - b) % P, a - b)
  BY <1>1, <1>2, <1>3, SameTrans
<1> QED  BY <1>3, <1>4 DEF Minus

\* ... products, ...
LEMMA TimesIs ==
  ASSUME NEW a \in Int, NEW b \in Int
  PROVE  Times(a, b) \in 0 .. P - 1 /\ Same(Times(a, b), a * b)
<1>1. a * b \in Int
  OBVIOUS
<1> QED  BY <1>1, ModIs DEF Times

\* ... and quotients.
LEMMA OverIs ==
  ASSUME NEW a \in Int, NEW b \in 0 .. P - 1
  PROVE  /\ Over(a, b) \in 0 .. P - 1
         /\ b # 0 => Same(Over(a, b) * b, a)
         /\ b # 0 => Over(b, b) = 1
<1> DEFINE c == CHOOSE c \in 1 .. P - 1 : Times(b, c) = 1
<1>1. CASE b = 0
  BY <1>1, PFacts DEF Over
<1>2. CASE b # 0
  <2>1. b \in 1 .. P - 1 /\ b \in Int
    BY <1>2, PFacts
  <2>2. c \in 1 .. P - 1 /\ Times(b, c) = 1
    BY <2>1, PFacts DEF Times
  <2>3. Over(a, b) = Times(a, c) /\ Over(b, b) = 1
    BY <1>2, <2>2 DEF Over
  <2> HIDE DEF c
  <2>4. c \in Int /\ b * c \in Int /\ a * c \in Int /\ c * b \in Int
    BY <2>1, <2>2, PFacts
  <2>5. /\ Times(a, c) \in 0 .. P - 1 /\ Times(a, c) \in Int /\ Same(Times(a, c), a * c)
        /\ Same(1, b * c) /\ 1 \in Int
    <3>1. Times(a, c) \in 0 .. P - 1 /\ Same(Times(a, c), a * c) /\ Same(Times(b, c), b * c)
      BY <2>1, <2>4, TimesIs
    <3> QED  BY <2>2, <3>1
  <2>6. Same(Times(a, c) * b, (a * c) * b)
    BY <2>1, <2>4, <2>5, SameProduct
  <2>7. Same(b * c, 1)
    BY <2>4, <2>5, SameSym
  <2>8. Same(a * (b * c), a * 1)
    BY <2>4, <2>5, <2>7, SameProduct
  <2>9. (a * c) * b = a * (b * c) /\ a * 1 = a /\ a * (b * c) \in Int
    BY <2>1, <2>4
  <2>10. Times(a, c) * b \in Int
    BY <2>1, <2>5
  <2>11. Same(Times(a, c) * b, a)
    BY <2>6, <2>8, <2>9, <2>10, SameTrans
  <2> QED  BY <2>3, <2>5, <2>11
<1> QED  BY <1>1, <1>2

\* What there is of the ones in a row that k columns have been eliminated from.
Share(k) == IF k = 0 THEN 1 ELSE Over(N - 1, N - 1 + k)

\* The entry in column c of row r, after the elimination of k columns.
Entry(k, r, c) ==
  ((IF c = N THEN 2 * N - 1 ELSE 1) * Share(k) + (IF c = r THEN N - 1 ELSE 0)) % P

\* Share(k) is (N - 1) / (N - 1 + k).
LEMMA ShareIs ==
  ASSUME NEW k \in 0 .. N - 1
  PROVE  Share(k) \in 0 .. P - 1 /\ Share(k) \in Int /\ Same((N - 1 + k) * Share(k), N - 1)
<1>1. /\ N - 1 \in Int /\ N - 1 + k \in 0 .. P - 1 /\ 1 \in 0 .. P - 1
      /\ k \in Int /\ P \in Int /\ N \in Int
  BY PFacts
<1>2. CASE k = 0
  <2>1. (N - 1 + k) * 1 = N - 1
    BY <1>1, <1>2
  <2> QED  BY <1>1, <1>2, <2>1, SameSelf DEF Share
<1>3. CASE k # 0
  <2>1. N - 1 + k # 0 /\ Share(k) = Over(N - 1, N - 1 + k)
    BY <1>3, PFacts DEF Share
  <2>2. Share(k) \in 0 .. P - 1 /\ Same(Share(k) * (N - 1 + k), N - 1)
    BY <1>1, <2>1, OverIs
  <2>3. Share(k) * (N - 1 + k) = (N - 1 + k) * Share(k)
    BY <1>1, <2>2
  <2> QED  BY <2>2, <2>3
<1> QED  BY <1>2, <1>3

\* What the pivot of column k has become when it is used.
Diagonal(k) == (Share(k) + (N - 1)) % P

\* It is (N - 1)(N + k) / (N - 1 + k), and never zero.
LEMMA DiagonalIs ==
  ASSUME NEW k \in 0 .. N - 1
  PROVE  /\ Diagonal(k) \in 1 .. P - 1
         /\ Same(Diagonal(k), Share(k) + (N - 1))
         /\ N # 1 => Same((N - 1) * (N + k), (N - 1 + k) * Diagonal(k))
<1> DEFINE b == Share(k)
           D == Diagonal(k)
           K == N - 1 + k
<1>1. /\ Same(K * b, N - 1)
      /\ b \in Int /\ K \in Int /\ N - 1 \in Int /\ N \in Int /\ k \in Int
  BY ShareIs, PFacts
<1>2. D \in 0 .. P - 1 /\ D \in Int /\ Same(D, b + (N - 1))
  <2>1. b + (N - 1) \in Int
    BY <1>1
  <2> QED  BY <2>1, ModIs, PFacts DEF Diagonal
<1>3. CASE N = 1
  <2>1. k = 0 /\ b = 1
    BY <1>3 DEF Share
  <2>2. D = 1 % P
    BY <1>3, <2>1 DEF Diagonal
  <2>3. 1 \in 0 .. P - 1
    BY PFacts
  <2>4. D = 1
    BY <2>2, <2>3, SmallMod
  <2> QED  BY <1>2, <1>3, <2>4, PFacts
<1>4. CASE N # 1
  <2> HIDE DEF b, D
  <2>1. K * D \in Int /\ K * (b + (N - 1)) \in Int /\ K * b \in Int /\ b + (N - 1) \in Int
        /\ (N - 1) * (N + k) \in Int /\ K * (N - 1) \in Int
    BY <1>1, <1>2
  <2>2. Same(K * D, K * (b + (N - 1)))
    BY <1>1, <1>2, <2>1, SameProduct
  <2>3. Same(K * (N - 1), K * (N - 1))
    BY <2>1, SameSelf
  <2>4. Same(K * b + K * (N - 1), (N - 1) + K * (N - 1))
    BY <1>1, <2>1, <2>3, SameSum
  <2>5. K * (b + (N - 1)) = K * b + K * (N - 1) /\ (N - 1) + K * (N - 1) = (N - 1) * (N + k)
    BY <1>1
  <2>6. Same(K * D, (N - 1) * (N + k))
    BY <2>1, <2>2, <2>4, <2>5, SameTrans
  <2>7. Same((N - 1) * (N + k), K * D)
    BY <2>1, <2>6, SameSym
  <2>8. ASSUME D = 0 PROVE FALSE
    <3>1. /\ K * D = (N - 1) * 0
          /\ (N - 1) \in 1 .. P - 1 /\ N + k \in 1 .. P - 1 /\ N + k \in Int
      BY <1>1, <1>4, <2>8, PFacts
    <3>2. Same((N - 1) * (N + k), (N - 1) * 0) /\ 0 \in Int
      BY <2>7, <3>1
    <3>3. Same(N + k, 0)
      BY <3>1, <3>2, Cancel
    <3>4. N + k \in 0 .. P - 1 /\ 0 \in 0 .. P - 1 /\ N + k # 0
      BY <3>1, PFacts
    <3> QED  BY <3>3, <3>4, SameOnce
  <2>9. D \in 1 .. P - 1
    BY <1>2, <2>8, PFacts
  <2> QED  BY <1>2, <2>7, <2>9 DEF b, D
<1> QED  BY <1>3, <1>4

\* The factor of a row in column k.
LEMMA FactorIs ==
  ASSUME NEW k \in 0 .. N - 2
  PROVE  /\ Over(Share(k), Diagonal(k)) \in 0 .. P - 1
         /\ Same(Over(Share(k), Diagonal(k)) * (N + k), 1)
<1> DEFINE b == Share(k)
           D == Diagonal(k)
           K == N - 1 + k
           f == Over(b, D)
<1>1. k \in 0 .. N - 1 /\ N # 1 /\ N \in Int /\ k \in Int /\ K \in Int
  BY PFacts
<1>2. b \in Int /\ Same(K * b, N - 1)
  BY <1>1, ShareIs
<1>3. D \in 1 .. P - 1 /\ D \in 0 .. P - 1 /\ D \in Int /\ Same((N - 1) * (N + k), K * D)
  BY <1>1, DiagonalIs, PFacts
<1>4. f \in 0 .. P - 1 /\ f \in Int /\ Same(f * D, b)
  <2>1. D # 0
    BY <1>3
  <2> HIDE DEF b, D
  <2> QED  BY <1>2, <1>3, <2>1, OverIs
<1> HIDE DEF b, D, f
<1>5. /\ (N - 1) * (N + k) \in Int /\ K * D \in Int /\ f * D \in Int /\ K * b \in Int
      /\ f * ((N - 1) * (N + k)) \in Int /\ f * (K * D) \in Int /\ K * (f * D) \in Int
      /\ f * (N + k) \in Int
  BY <1>1, <1>2, <1>3, <1>4
<1>6. Same(f * ((N - 1) * (N + k)), f * (K * D))
  BY <1>3, <1>4, <1>5, SameProduct
<1>7. Same(K * (f * D), K * b)
  BY <1>1, <1>2, <1>4, <1>5, SameProduct
<1>8. Same(K * (f * D), N - 1)
  BY <1>1, <1>2, <1>5, <1>7, SameTrans
<1>9. /\ f * (K * D) = K * (f * D)
      /\ f * ((N - 1) * (N + k)) = (N - 1) * (f * (N + k)) /\ N - 1 = (N - 1) * 1
  BY <1>1, <1>2, <1>3, <1>4
<1>10. Same((N - 1) * (f * (N + k)), (N - 1) * 1)
  <2>1. N - 1 \in Int
    BY <1>1
  <2>2. Same(f * ((N - 1) * (N + k)), N - 1)
    BY <1>5, <1>6, <1>8, <1>9, <2>1, SameTrans
  <2> QED  BY <1>9, <2>2
<1>11. Same(f * (N + k), 1)
  <2>1. N - 1 \in 1 .. P - 1 /\ 1 \in Int
    BY <1>1, PFacts
  <2> QED  BY <1>5, <1>10, <2>1, Cancel
<1> QED  BY <1>4, <1>11 DEF b, D, f

\* Eliminating a column keeps the form of the rows.
LEMMA ShareReduced ==
  ASSUME NEW k \in 0 .. N - 2, NEW f \in Int, f = Over(Share(k), Diagonal(k))
  PROVE  Same(Share(k) - Share(k) * f, Share(k + 1))
<1> DEFINE b == Share(k)
           d == Share(k + 1)
<1>1. k \in 0 .. N - 1 /\ k + 1 \in 0 .. N - 1 /\ N \in Int /\ k \in Int
  BY PFacts
<1>2. b \in Int /\ Same((N - 1 + k) * b, N - 1)
  BY <1>1, ShareIs
<1>3. d \in Int /\ Same((N - 1 + (k + 1)) * d, N - 1)
  BY <1>1, ShareIs
<1>4. Same(f * (N + k), 1)
  BY FactorIs
<1> HIDE DEF b, d
<1>5. /\ f * (N + k) \in Int /\ b * (f * (N + k)) \in Int /\ (N + k) * b \in Int
      /\ (N - 1 + k) * b \in Int /\ (N + k) * d \in Int /\ N - 1 \in Int
      /\ (N + k) * (b - b * f) \in Int /\ b - b * f \in Int /\ 1 \in Int
  BY <1>1, <1>2, <1>3
<1>6. Same(b * (f * (N + k)), b * 1)
  BY <1>2, <1>4, <1>5, SameProduct
<1>7. Same((N + k) * b, (N + k) * b)
  BY <1>5, SameSelf
<1>8. b * 1 \in Int /\ b * 1 = b
  BY <1>2
<1>9. Same((N + k) * b - b * (f * (N + k)), (N + k) * b - b * 1)
  BY <1>5, <1>6, <1>7, <1>8, SameSum
<1>10. /\ (N + k) * b - b * (f * (N + k)) = (N + k) * (b - b * f)
       /\ (N + k) * b - b * 1 = (N - 1 + k) * b
       /\ (N - 1 + (k + 1)) * d = (N + k) * d
  BY <1>1, <1>2, <1>3
<1>11. Same((N + k) * (b - b * f), N - 1)
  BY <1>2, <1>5, <1>9, <1>10, SameTrans
<1>12. Same(N - 1, (N + k) * d)
  BY <1>3, <1>5, <1>10, SameSym
<1>13. Same((N + k) * (b - b * f), (N + k) * d)
  BY <1>5, <1>11, <1>12, SameTrans
<1>14. N + k \in 1 .. P - 1
  BY PFacts
<1>15. Same(b - b * f, d)
  BY <1>3, <1>5, <1>13, <1>14, Cancel
<1> QED  BY <1>15 DEF b, d

\* A row minus its factor times the row of the pivot.
LEMMA ReduceIs ==
  ASSUME NEW k \in 0 .. N - 2, NEW m \in Int, NEW e \in Int
  PROVE  Minus((m * Share(k) + e) % P,
               Times((m * Share(k)) % P, Over(Share(k), Diagonal(k))))
           = (m * Share(k + 1) + e) % P
<1> DEFINE b == Share(k)
           d == Share(k + 1)
           f == Over(b, Diagonal(k))
           x == (m * b + e) % P
           y == (m * b) % P
           z == Times(y, f)
<1>1. k \in 0 .. N - 1 /\ k + 1 \in 0 .. N - 1 /\ P \in Int
  BY PFacts
<1>2. b \in Int /\ d \in Int
  BY <1>1, ShareIs
<1>3. f \in 0 .. P - 1 /\ f \in Int
  BY <1>1, FactorIs
<1>4. Same(b - b * f, d)
  BY <1>3, ShareReduced
<1> HIDE DEF b, d, f
<1>5. m * b + e \in Int /\ m * b \in Int /\ m * d + e \in Int /\ m * d \in Int
      /\ b - b * f \in Int /\ m * (b - b * f) \in Int /\ (m * b) * f \in Int
  BY <1>2, <1>3
<1>6. x \in 0 .. P - 1 /\ Same(x, m * b + e) /\ y \in 0 .. P - 1 /\ Same(y, m * b)
  BY <1>5, ModIs
<1>7. x \in Int /\ y \in Int /\ y * f \in Int
  BY <1>1, <1>3, <1>6
<1> HIDE DEF x, y
<1>8. z \in 0 .. P - 1 /\ Same(z, y * f)
  BY <1>3, <1>7, TimesIs
<1>9. Same(y * f, (m * b) * f)
  BY <1>3, <1>5, <1>6, <1>7, SameProduct
<1> HIDE DEF z
<1>10. z \in Int
  BY <1>1, <1>8
<1>11. Same(z, (m * b) * f)
  BY <1>5, <1>7, <1>8, <1>9, <1>10, SameTrans
<1>12. Same(x - z, (m * b + e) - (m * b) * f)
  BY <1>5, <1>6, <1>7, <1>10, <1>11, SameSum
<1>13. Same(m * (b - b * f), m * d)
  BY <1>2, <1>4, <1>5, SameProduct
<1>14. Same(m * (b - b * f) + e, m * d + e)
  BY <1>5, <1>13, SameSelf, SameSum
<1>15. (m * b + e) - (m * b) * f = m * (b - b * f) + e /\ x - z \in Int
       /\ m * (b - b * f) + e \in Int
  BY <1>2, <1>3, <1>5, <1>7, <1>10
<1>16. Same(x - z, m * d + e)
  BY <1>5, <1>12, <1>14, <1>15, SameTrans
<1>17. Minus(x, z) \in 0 .. P - 1 /\ Same(Minus(x, z), x - z)
  BY <1>7, <1>10, MinusIs
<1>18. Minus(x, z) \in Int
  BY <1>1, <1>17
<1>19. Same(Minus(x, z), m * d + e)
  BY <1>5, <1>15, <1>16, <1>17, <1>18, SameTrans
<1>20. Minus(x, z) % P = (m * d + e) % P
  BY <1>5, <1>18, <1>19, ModSame
<1>21. Minus(x, z) % P = Minus(x, z)
  BY <1>17, SmallMod
<1> QED  BY <1>20, <1>21 DEF x, y, z, b, d, f

\* An entry is in range; the diagonal, and what is off it.
LEMMA EntryIs ==
  ASSUME NEW k \in 0 .. N - 1, NEW r \in Rows, NEW c \in Cols
  PROVE  /\ Entry(k, r, c) \in 0 .. P - 1
         /\ Entry(k, r, r) = Diagonal(k)
         /\ c # N /\ c # r => Entry(k, r, c) = Share(k)
<1>1. Share(k) \in 0 .. P - 1 /\ Share(k) \in Int /\ N \in Int /\ r \in Int /\ r # N
  BY ShareIs, PFacts DEF Rows
<1>2. (IF c = N THEN 2 * N - 1 ELSE 1) * Share(k) + (IF c = r THEN N - 1 ELSE 0) \in Int
  BY <1>1
<1>3. Entry(k, r, c) \in 0 .. P - 1
  BY <1>2, ModIs DEF Entry
<1>4. Entry(k, r, r) = Diagonal(k)
  <2>1. (IF r = N THEN 2 * N - 1 ELSE 1) * Share(k) + (IF r = r THEN N - 1 ELSE 0)
          = Share(k) + (N - 1)
    BY <1>1
  <2> QED  BY <2>1 DEF Entry, Diagonal
<1>5. ASSUME c # N, c # r PROVE Entry(k, r, c) = Share(k)
  <2>1. (IF c = N THEN 2 * N - 1 ELSE 1) * Share(k) + (IF c = r THEN N - 1 ELSE 0)
          = Share(k)
    BY <1>1, <1>5
  <2>2. Entry(k, r, c) = Share(k) % P
    BY <2>1 DEF Entry
  <2> QED  BY <1>1, <2>2, SmallMod
<1> QED  BY <1>3, <1>4, <1>5

\* Row r after column k, in column c.
LEMMA EntryReduced ==
  ASSUME NEW k \in 0 .. N - 2, NEW r \in Rows, NEW c \in k + 1 .. N
  PROVE  Minus(Entry(k, r, c), Times(Entry(k, k, c), Over(Share(k), Diagonal(k))))
           = Entry(k + 1, r, c)
<1> DEFINE m == IF c = N THEN 2 * N - 1 ELSE 1
           e == IF c = r THEN N - 1 ELSE 0
<1>1. m \in Int /\ e \in Int /\ k \in Int /\ N \in Int /\ c # k
  BY PFacts
<1>2. Share(k) \in Int
  BY ShareIs, PFacts
<1>3. m * Share(k) + 0 = m * Share(k)
  BY <1>1, <1>2
<1>4. /\ Entry(k, r, c) = (m * Share(k) + e) % P
      /\ Entry(k, k, c) = (m * Share(k)) % P
      /\ Entry(k + 1, r, c) = (m * Share(k + 1) + e) % P
  BY <1>1, <1>3 DEF Entry
<1> HIDE DEF m, e
<1> QED  BY <1>1, <1>4, ReduceIs

\* A row of the back substitution, when all the unknowns below it are one.
LEMMA SolutionIsOne ==
  ASSUME NEW r \in 0 .. N - 1
  PROVE  Over(Minus(Entry(r, r, N), ((N - 1 - r) * Share(r)) % P), Diagonal(r)) = 1
<1> DEFINE b == Share(r)
           D == Diagonal(r)
           x == Entry(r, r, N)
           y == ((N - 1 - r) * b) % P
<1>1. /\ Same((N - 1 + r) * b, N - 1) /\ r # N
      /\ b \in Int /\ N \in Int /\ r \in Int /\ P \in Int
  BY ShareIs, PFacts
<1>2. D \in 1 .. P - 1 /\ D \in 0 .. P - 1 /\ D \in Int /\ D # 0 /\ Same(D, b + (N - 1))
  BY <1>1, DiagonalIs
<1> HIDE DEF b, D
<1>3. (2 * N - 1) * b \in Int /\ (N - 1 - r) * b \in Int /\ b + (N - 1) \in Int
      /\ (N - 1 + r) * b \in Int /\ N - 1 \in Int /\ (N - 1 + r) * b + b \in Int
  BY <1>1
<1>4. x = ((2 * N - 1) * b) % P
  <2>1. (2 * N - 1) * b + 0 = (2 * N - 1) * b
    BY <1>3
  <2> QED  BY <1>1, <2>1 DEF Entry, b
<1>5. x \in 0 .. P - 1 /\ Same(x, (2 * N - 1) * b)
      /\ y \in 0 .. P - 1 /\ Same(y, (N - 1 - r) * b)
  BY <1>3, <1>4, ModIs
<1> HIDE DEF x, y
<1>6. x \in Int /\ y \in Int /\ x - y \in Int
  BY <1>1, <1>5
<1>7. Same(x - y, (2 * N - 1) * b - (N - 1 - r) * b)
  BY <1>3, <1>5, <1>6, SameSum
<1>8. (2 * N - 1) * b - (N - 1 - r) * b = (N - 1 + r) * b + b
  BY <1>1
<1>9. Same((N - 1 + r) * b + b, (N - 1) + b)
  BY <1>1, <1>3, SameSelf, SameSum
<1>10. (N - 1) + b = b + (N - 1)
  BY <1>1
<1>11. Same(x - y, b + (N - 1))
  BY <1>3, <1>6, <1>7, <1>8, <1>9, <1>10, SameTrans
<1>12. Same(b + (N - 1), D)
  BY <1>2, <1>3, SameSym
<1>13. Minus(x, y) \in 0 .. P - 1 /\ Same(Minus(x, y), x - y)
  BY <1>6, MinusIs
<1>14. Minus(x, y) \in Int
  BY <1>1, <1>13
<1>15. Same(Minus(x, y), b + (N - 1))
  BY <1>3, <1>6, <1>11, <1>13, <1>14, SameTrans
<1>16. Same(Minus(x, y), D)
  BY <1>2, <1>3, <1>12, <1>14, <1>15, SameTrans
<1>17. Minus(x, y) = D
  BY <1>2, <1>13, <1>16, SameOnce
<1>18. Over(D, D) = 1
  BY <1>2, OverIs
<1> QED  BY <1>17, <1>18 DEF x, y, b, D

-----------------------------------------------------------------------------
(* Sums.                                                                   *)

\* The sum of a function over a set.
SumOf(f, S) == MapThenSumSet(LAMBDA x : f[x], S)

\* What it is when every element has the value d but for e, which has v.
AllBut(S, e, v, d) ==
  IF e \in S THEN v + (Cardinality(S) - 1) * d ELSE Cardinality(S) * d

\* The sum of such a function.
LEMMA SumIs ==
  ASSUME NEW f, NEW S, IsFiniteSet(S), NEW d \in Nat, NEW v \in Nat, NEW e,
         \A x \in S : f[x] = IF x = e THEN v ELSE d
  PROVE  SumOf(f, S) = AllBut(S, e, v, d)
<1> DEFINE Sums(s) ==
             s = [T \in SUBSET S |->
                    IF T = {} THEN 0
                    ELSE LET x == CHOOSE y \in T : TRUE IN f[x] + s[T \ {x}]]
           sum == CHOOSE s : Sums(s)
           g == [T \in SUBSET S |-> AllBut(T, e, v, d)]
<1>1. SumOf(f, S) = sum[S]
  BY DEF SumOf, MapThenSumSet, MapThenFoldSet
<1>2. ASSUME NEW T \in SUBSET S
      PROVE  /\ IsFiniteSet(T) /\ Cardinality(T) \in Nat
             /\ T = {} => AllBut(T, e, v, d) = 0
             /\ \A x \in T : AllBut(T, e, v, d) = f[x] + AllBut(T \ {x}, e, v, d)
  <2>1. IsFiniteSet(T) /\ Cardinality(T) \in Nat
    BY FS_Subset, FS_CardinalityType
  <2>2. T = {} => AllBut(T, e, v, d) = 0
    BY FS_EmptySet DEF AllBut
  <2>3. ASSUME NEW x \in T PROVE AllBut(T, e, v, d) = f[x] + AllBut(T \ {x}, e, v, d)
    <3>1. Cardinality(T \ {x}) = Cardinality(T) - 1
      BY <2>1, FS_RemoveElement
    <3> DEFINE m == Cardinality(T)
    <3>2. m \in Nat /\ m * d = d + (m - 1) * d /\ (m - 1) * d = d + (m - 1 - 1) * d
          /\ (m - 1) * d \in Int /\ (m - 1 - 1) * d \in Int
      BY <2>1
    <3> HIDE DEF m
    <3>3. CASE x = e
      <4>1. e \in T /\ e \notin T \ {x} /\ f[x] = v
        BY <3>3
      <4> QED  BY <3>1, <4>1 DEF AllBut, m
    <3>4. CASE x # e
      <4>1. (e \in T <=> e \in T \ {x}) /\ f[x] = d
        BY <3>4
      <4>2. CASE e \in T
        <5>1. AllBut(T, e, v, d) = v + (m - 1) * d
          BY <4>2 DEF AllBut, m
        <5>2. AllBut(T \ {x}, e, v, d) = v + (m - 1 - 1) * d
          BY <3>1, <4>1, <4>2 DEF AllBut, m
        <5> QED  BY <3>2, <4>1, <5>1, <5>2
      <4>3. CASE e \notin T
        <5>1. AllBut(T, e, v, d) = m * d
          BY <4>3 DEF AllBut, m
        <5>2. AllBut(T \ {x}, e, v, d) = (m - 1) * d
          BY <3>1, <4>1, <4>3 DEF AllBut, m
        <5> QED  BY <3>2, <4>1, <5>1, <5>2
      <4> QED  BY <4>2, <4>3
    <3> QED  BY <3>3, <3>4
  <2> QED  BY <2>1, <2>2, <2>3
<1>3. Sums(g)
  <2> SUFFICES ASSUME NEW T \in SUBSET S, T # {}
               PROVE  LET x == CHOOSE y \in T : TRUE
                      IN  AllBut(T, e, v, d) = f[x] + g[T \ {x}]
    BY <1>2
  <2> DEFINE x == CHOOSE y \in T : TRUE
  <2>1. x \in T
    OBVIOUS
  <2> HIDE DEF x
  <2>2. g[T \ {x}] = AllBut(T \ {x}, e, v, d)
    OBVIOUS
  <2> HIDE DEF g
  <2>3. AllBut(T, e, v, d) = f[x] + g[T \ {x}]
    BY <1>2, <2>1, <2>2
  <2> QED  BY <2>3 DEF x
<1>4. Sums(sum)
  <2> HIDE DEF Sums, g
  <2> QED  BY <1>3
<1>5. \A T \in SUBSET S :
        sum[T] = IF T = {} THEN 0
                 ELSE LET x == CHOOSE y \in T : TRUE IN f[x] + sum[T \ {x}]
  <2> HIDE DEF sum
  <2> QED  BY <1>4
<1> HIDE DEF sum, Sums, g
<1> DEFINE Bad == {Cardinality(T) : T \in {U \in SUBSET S : sum[U] # AllBut(U, e, v, d)}}
<1>6. Bad = {}
  <2> SUFFICES ASSUME Bad # {} PROVE FALSE
    OBVIOUS
  <2>1. Bad \in SUBSET Nat
    BY <1>2
  <2>2. PICK m \in Bad : \A k \in Bad : m <= k
    <3> HIDE DEF Bad
    <3> QED  BY <2>1, LeastElement
  <2>3. PICK T \in SUBSET S : sum[T] # AllBut(T, e, v, d) /\ m = Cardinality(T)
    BY <2>2
  <2>4. T # {}
    BY <1>2, <1>5, <2>3
  <2> DEFINE x == CHOOSE y \in T : TRUE
             R == T \ {x}
  <2>5. x \in T /\ sum[T] = f[x] + sum[R]
    BY <1>5, <2>4
  <2> HIDE DEF x
  <2>6. R \in SUBSET S /\ Cardinality(R) = m - 1 /\ m \in Nat
    <3>1. IsFiniteSet(T) /\ Cardinality(T) \in Nat
      BY <1>2
    <3> QED  BY <2>3, <2>5, <3>1, FS_RemoveElement
  <2>7. Cardinality(R) \notin Bad
    <3> HIDE DEF Bad, R
    <3> QED  BY <2>2, <2>6
  <2>8. sum[R] = AllBut(R, e, v, d)
    BY <2>6, <2>7
  <2>9. AllBut(T, e, v, d) = f[x] + AllBut(R, e, v, d)
    BY <1>2, <2>5
  <2> QED  BY <2>3, <2>5, <2>8, <2>9
<1>7. sum[S] = AllBut(S, e, v, d)
  BY <1>6
<1> QED  BY <1>1, <1>7

-----------------------------------------------------------------------------
(* The values.                                                             *)

\* The column of N in row r when k columns have been pivoted: N starts on the
\* other diagonal, and a swap brings two of them to the main one.
Place(k, r) == IF r < k \/ N - 1 - r < k THEN r ELSE N - 1 - r

\* The row the search of the pivot of column t settles on.
PivotRow(t) == IF N - 1 - t < t THEN t ELSE N - 1 - t

\* The entry in column c of row r when k columns have been pivoted.
Pivoted(k, r, c) ==
  IF c = N THEN 2 * N - 1 ELSE IF c = Place(k, r) THEN N ELSE 1

\* The back substitution has replaced the right-hand side of row r.
Solved(r) == mpc \in {"solve", "done"} /\ r >= N - n

\* How far main's counter goes, and that argv[1] stays what it was.
CountInv ==
  /\ NTHREADS \in ThreadCounts
  /\ mpc = "batch" => n = 0
  /\ mpc = "solve" => n < N
  /\ mpc = "done" => n = N

\* What a thread holds in x is an element of the field.
LocalInv == \A t \in Ids : th[t].x \in 0 .. P - 1

\* The matrix while pp runs, and the row a thread of pp is about to swap with.
PivotedInv ==
  phase = "pp" =>
    /\ \A r \in Rows, c \in Cols : A[r][c] = Pivoted(pivoted, r, c)
    /\ \A t \in Ids : th[t].pc = "write" => th[t].x = PivotRow(t)

\* The matrix while ge runs and after it, and the factor a thread of ge has read.
\* Entries left of done[r] are in MatrixInv.
EliminatedInv ==
  phase = "ge" =>
    /\ \A r \in Rows, c \in Cols :
         c >= done[r] =>
           A[r][c] = IF c = N /\ Solved(r) THEN 1 ELSE Entry(done[r], r, c)
    /\ \A t \in Ids :
         th[t].pc = "write" => th[t].x = Over(Share(th[t].i), Diagonal(th[t].i))

VInv == CountInv /\ LocalInv /\ PivotedInv /\ EliminatedInv

\* main makes the matrix the invariant speaks of.
LEMMA InitVInv == Init => VInv
<1> SUFFICES ASSUME Init PROVE VInv
  OBVIOUS
<1> USE NAssumption DEF Init
<1>1. CountInv /\ EliminatedInv
  BY DEF CountInv, EliminatedInv
<1>2. LocalInv
  BY PFacts DEF LocalInv, NoThread
<1>3. ASSUME NEW r \in Rows, NEW c \in Cols PROVE A[r][c] = Pivoted(0, r, c)
  <2>1. Place(0, r) = N - r - 1 /\ N - r - 1 # N
    BY DEF Place, Rows
  <2>2. A[r][c] = CASE c = N -> 2 * N - 1 [] c = N - r - 1 -> N [] OTHER -> 1
    BY DEF InitialMatrix
  <2>3. CASE c = N
    BY <2>1, <2>2, <2>3 DEF Pivoted
  <2>4. CASE c = N - r - 1
    BY <2>1, <2>2, <2>4 DEF Pivoted
  <2>5. CASE c # N /\ c # N - r - 1
    BY <2>1, <2>2, <2>5 DEF Pivoted
  <2> QED  BY <2>3, <2>4, <2>5
<1>4. PivotedInv
  BY <1>3 DEF PivotedInv, NoThread
<1> QED  BY <1>1, <1>2, <1>4 DEF VInv

\* A step that changes no value, and makes no thread ready to write.
LEMMA ValuesKept ==
  ASSUME VInv, UNCHANGED <<phase, A, pivoted, done>>,
         \A r \in Rows : Solved(r)' <=> Solved(r),
         \A t \in Ids : /\ th'[t].x \in 0 .. P - 1
                        /\ th'[t].pc = "write" => th'[t] = th[t]
  PROVE  LocalInv' /\ PivotedInv' /\ EliminatedInv'
<1>1. LocalInv'
  BY DEF LocalInv
<1>2. PivotedInv'
  BY DEF VInv, PivotedInv
<1>3. EliminatedInv'
  <2> SUFFICES ASSUME phase = "ge" PROVE EliminatedInv'
    BY DEF EliminatedInv
  <2>1. ASSUME NEW r \in Rows, NEW c \in Cols, c >= done'[r]
        PROVE  A'[r][c] = IF c = N /\ Solved(r)' THEN 1 ELSE Entry(done'[r], r, c)
    BY <2>1 DEF VInv, EliminatedInv
  <2>2. ASSUME NEW t \in Ids, th'[t].pc = "write"
        PROVE  th'[t].x = Over(Share(th'[t].i), Diagonal(th'[t].i))
    BY <2>2 DEF VInv, EliminatedInv
  <2> QED  BY <2>1, <2>2 DEF EliminatedInv
<1> QED  BY <1>1, <1>2, <1>3

\* Steps of main that change no row: the start of a batch, ...
LEMMA StartBatchKeepsVInv == ASSUME GInv, VInv, StartBatch PROVE VInv'
<1> USE DEF StartBatch
<1>1. \A t \in Ids : th[t].pc = "none"
  BY NoneBetween
<1>2. LocalInv' /\ PivotedInv' /\ EliminatedInv'
  BY <1>1, ValuesKept DEF Solved, VInv, LocalInv
<1>3. CountInv'
  BY DEF VInv, CountInv
<1> QED  BY <1>2, <1>3 DEF VInv

\* ... the end of the batches, ...
LEMMA StartSolvingKeepsVInv == ASSUME GInv, VInv, StartSolving PROVE VInv'
<1> USE DEF StartSolving
<1>1. \A t \in Ids : th[t].pc = "none"
  BY NoneBetween
<1>2. n = 0 /\ N \in Nat \ {0}
  BY NAssumption DEF VInv, CountInv
<1>3. \A r \in Rows : ~ Solved(r) /\ ~ Solved(r)'
  BY <1>2 DEF Solved, Rows
<1>4. LocalInv' /\ PivotedInv' /\ EliminatedInv'
  BY <1>1, <1>3, ValuesKept DEF VInv, LocalInv
<1>5. CountInv'
  BY <1>2 DEF VInv, CountInv
<1> QED  BY <1>4, <1>5 DEF VInv

\* ... the creation of a thread, ...
LEMMA CreateKeepsVInv == ASSUME GInv, VInv, Create PROVE VInv'
<1> USE DEF Create
<1>1. DOMAIN th = Ids
  BY DEF GInv, ThreadsInv
<1>2. ASSUME NEW t \in Ids
      PROVE  th'[t].x \in 0 .. P - 1 /\ (th'[t].pc = "write" => th'[t] = th[t])
  <2>1. CASE t = thread
    <3>1. th'[t] = [pc |-> IF InColumns(0) THEN "step" ELSE "gone", i |-> 0, x |-> 0]
      BY <1>1, <2>1
    <3>2. th'[t].x = 0 /\ th'[t].pc # "write"
      BY <3>1
    <3> QED  BY <3>2, PFacts
  <2>2. CASE t # thread
    BY <1>1, <2>2 DEF VInv, LocalInv
  <2> QED  BY <2>1, <2>2
<1>3. LocalInv' /\ PivotedInv' /\ EliminatedInv'
  BY <1>2, ValuesKept DEF Solved
<1>4. CountInv'
  BY DEF VInv, CountInv
<1> QED  BY <1>3, <1>4 DEF VInv

\* ... and its end.
LEMMA JoinKeepsVInv == ASSUME GInv, VInv, Join PROVE VInv'
<1> USE DEF Join
<1>1. DOMAIN th = Ids
  BY DEF GInv, ThreadsInv
<1>2. ASSUME NEW t \in Ids
      PROVE  th'[t].x \in 0 .. P - 1 /\ (th'[t].pc = "write" => th'[t] = th[t])
  <2>1. CASE th'[t] = NoThread
    BY <2>1, PFacts DEF NoThread
  <2>2. CASE th'[t] = th[t]
    BY <2>2 DEF VInv, LocalInv
  <2> QED  BY <1>1, <2>1, <2>2
<1>3. LocalInv' /\ PivotedInv' /\ EliminatedInv'
  BY <1>2, ValuesKept DEF Solved
<1>4. CountInv'
  BY DEF VInv, CountInv
<1> QED  BY <1>3, <1>4 DEF VInv

\* Steps of a thread that change no row: the barrier, ...
LEMMA ArriveKeepsVInv == ASSUME GInv, VInv, NEW t \in Ids, Arrive(t) PROVE VInv'
<1> USE DEF Arrive
<1>1. DOMAIN th = Ids /\ th[t] = [pc |-> th[t].pc, i |-> th[t].i, x |-> th[t].x]
  BY DEF GInv, ThreadsInv, ThreadInv
<1>2. ASSUME NEW u \in Ids
      PROVE  th'[u].x \in 0 .. P - 1 /\ (th'[u].pc = "write" => th'[u] = th[u])
  <2>1. CASE Last(t)
    <3>1. \/ th'[u] = [pc |-> "after", i |-> th[u].i, x |-> 0]
          \/ th'[u] = th[u]
      BY <2>1
    <3>2. CASE th'[u] = [pc |-> "after", i |-> th[u].i, x |-> 0]
      <4>1. th'[u].x = 0 /\ th'[u].pc = "after"
        BY <3>2
      <4> QED  BY <4>1, PFacts
    <3>3. CASE th'[u] = th[u]
      BY <3>3 DEF VInv, LocalInv
    <3> QED  BY <3>1, <3>2, <3>3
  <2>2. CASE ~ Last(t)
    <3>1. th' = [th EXCEPT ![t].pc = "wait"]
      BY <2>2
    <3>2. th'[u].x = th[u].x /\ (u # t => th'[u] = th[u]) /\ (u = t => th'[u].pc = "wait")
      BY <1>1, <3>1
    <3> QED  BY <3>2 DEF VInv, LocalInv
  <2> QED  BY <2>1, <2>2
<1>3. LocalInv' /\ PivotedInv' /\ EliminatedInv'
  BY <1>2, ValuesKept DEF Solved
<1>4. CountInv'
  BY DEF VInv, CountInv
<1> QED  BY <1>3, <1>4 DEF VInv

\* ... printing, which counts up to N, ...
LEMMA PrintRowKeepsVInv == ASSUME GInv, VInv, NEW t \in Ids, PrintRow(t) PROVE VInv'
<1> USE DEF PrintRow
<1>1. DOMAIN th = Ids /\ th[t] = [pc |-> th[t].pc, i |-> th[t].i, x |-> th[t].x]
  BY DEF GInv, ThreadsInv, ThreadInv
<1>2. ASSUME NEW u \in Ids
      PROVE  th'[u].x \in 0 .. P - 1 /\ (th'[u].pc = "write" => th'[u] = th[u])
  <2>1. CASE u = t
    <3>1. th'[u].x = th[u].x + 1 /\ th'[u].pc = "after" /\ th[u].x < N
      BY <1>1, <2>1 DEF Prints
    <3>2. th[u].x \in 0 .. P - 1
      BY DEF VInv, LocalInv
    <3> QED  BY <3>1, <3>2, PFacts
  <2>2. CASE u # t
    BY <1>1, <2>2 DEF VInv, LocalInv
  <2> QED  BY <2>1, <2>2
<1>3. LocalInv' /\ PivotedInv' /\ EliminatedInv'
  BY <1>2, ValuesKept DEF Solved
<1>4. CountInv'
  BY DEF VInv, CountInv
<1> QED  BY <1>3, <1>4 DEF VInv

\* ... and the next column.
LEMMA AdvanceKeepsVInv == ASSUME GInv, VInv, NEW t \in Ids, Advance(t) PROVE VInv'
<1> USE DEF Advance
<1>1. DOMAIN th = Ids
  BY DEF GInv, ThreadsInv
<1>2. ASSUME NEW u \in Ids
      PROVE  th'[u].x \in 0 .. P - 1 /\ (th'[u].pc = "write" => th'[u] = th[u])
  <2>1. CASE u = t
    <3>1. th'[u] = [pc |-> IF InColumns(th[t].i + 1) THEN "step" ELSE "gone",
                    i |-> th[t].i + 1, x |-> 0]
      BY <1>1, <2>1
    <3>2. th'[u].x = 0 /\ th'[u].pc # "write"
      BY <3>1
    <3> QED  BY <3>2, PFacts
  <2>2. CASE u # t
    BY <1>1, <2>2 DEF VInv, LocalInv
  <2> QED  BY <2>1, <2>2
<1>3. LocalInv' /\ PivotedInv' /\ EliminatedInv'
  BY <1>2, ValuesKept DEF Solved
<1>4. CountInv'
  BY DEF VInv, CountInv
<1> QED  BY <1>3, <1>4 DEF VInv

\* The rows are in place when main starts the threads of ge.
LEMMA StartEliminationKeepsVInv == ASSUME GInv, GInv', VInv, StartElimination PROVE VInv'
<1> USE DEF StartElimination
<1>1. /\ \A t \in Ids : th[t].pc = "none"
      /\ pivoted = N - 1 /\ \A r \in Rows : done[r] = 0
  BY NoneBetween DEF GInv, PivotInv, DoneInv
<1>2. CountInv' /\ LocalInv' /\ PivotedInv'
  BY DEF VInv, CountInv, LocalInv, PivotedInv
<1>3. ASSUME NEW r \in Rows, NEW c \in Cols PROVE A[r][c] = Entry(0, r, c)
  <2> DEFINE s == (IF c = N THEN 2 * N - 1 ELSE 1) * 1 + (IF c = r THEN N - 1 ELSE 0)
  <2>1. A[r][c] = Pivoted(N - 1, r, c)
    BY <1>1 DEF VInv, PivotedInv
  <2>2. Place(N - 1, r) = r /\ r # N
    BY NAssumption DEF Place, Rows
  <2>3. Pivoted(N - 1, r, c) = s /\ s \in 0 .. P - 1
    BY <2>2, PFacts DEF Pivoted
  <2>4. Entry(0, r, c) = s % P
    BY DEF Entry, Share
  <2> HIDE DEF s
  <2> QED  BY <2>1, <2>3, <2>4, SmallMod
<1>4. EliminatedInv'
  <2>1. \A r \in Rows : ~ Solved(r)'
    BY DEF Solved
  <2> QED  BY <1>1, <1>3, <2>1 DEF EliminatedInv
<1> QED  BY <1>2, <1>4 DEF VInv

\* The largest coefficient of a column is the one that is N.
LEMMA PivotRowIs ==
  ASSUME NEW t \in 0 .. N - 2,
         \A r \in Rows : A[r][t] = IF t = Place(t, r) THEN N ELSE 1
  PROVE  PivotRows(t) = {PivotRow(t)}
<1> DEFINE p == PivotRow(t)
           best == {r \in t .. N - 1 :
                      /\ A[r][t] > 0
                      /\ \A q \in t .. N - 1 : A[q][t] <= A[r][t]
                      /\ \A q \in t .. r - 1 : A[q][t] < A[r][t]}
<1>1. N \in Nat /\ N > 1 /\ t \in Nat /\ p \in t .. N - 1
  BY NAssumption DEF PivotRow
<1>2. ASSUME NEW r \in t .. N - 1 PROVE A[r][t] = IF r = p THEN N ELSE 1
  <2>1. r \in Rows /\ r \in Int
    BY <1>1 DEF Rows
  <2>2. t = Place(t, r) <=> r = p
    BY <1>1, <2>1 DEF Place, PivotRow
  <2> QED  BY <2>1, <2>2
<1> HIDE DEF p
<1>3. p \in best
  BY <1>1, <1>2
<1>4. ASSUME NEW r \in best PROVE r = p
  <2>1. A[p][t] <= A[r][t] /\ r \in t .. N - 1
    BY <1>1
  <2> QED  BY <1>1, <1>2, <2>1
<1>5. best = {p}
  BY <1>3, <1>4
<1>6. PivotRows(t) = best
  BY <1>3 DEF PivotRows
<1> QED  BY <1>5, <1>6 DEF p

\* The search settles on that row.
LEMMA SearchKeepsVInv == ASSUME GInv, VInv, NEW t \in Ids, Search(t) PROVE VInv'
<1> USE DEF Search
<1>1. t \in 0 .. N - 2 /\ pivoted = t
  BY ColumnIsNext
<1>2. \A r \in Rows : A[r][t] = IF t = Place(t, r) THEN N ELSE 1
  <2>1. t \in Cols /\ t # N
    BY <1>1, NAssumption DEF Cols
  <2> QED  BY <1>1, <2>1 DEF VInv, PivotedInv, Pivoted
<1>3. PivotRows(t) = {PivotRow(t)}
  BY <1>1, <1>2, PivotRowIs
<1>4. DOMAIN th = Ids /\ th[t] = [pc |-> th[t].pc, i |-> th[t].i, x |-> th[t].x]
  BY DEF GInv, ThreadsInv, ThreadInv
<1>5. th' = [th EXCEPT ![t].pc = "write", ![t].x = PivotRow(t)]
  BY <1>3
<1>6. th'[t].x = PivotRow(t) /\ \A u \in Ids \ {t} : th'[u] = th[u]
  BY <1>4, <1>5
<1>7. PivotRow(t) \in 0 .. P - 1
  BY <1>1, PFacts DEF PivotRow
<1>8. LocalInv' /\ PivotedInv'
  BY <1>6, <1>7 DEF VInv, LocalInv, PivotedInv
<1>9. CountInv' /\ EliminatedInv'
  BY DEF VInv, CountInv, EliminatedInv
<1> QED  BY <1>8, <1>9 DEF VInv

\* A swap puts one more N into its place.
LEMMA SwapKeepsVInv == ASSUME GInv, VInv, NEW t \in Ids, Swap(t) PROVE VInv'
<1> USE DEF Swap
<1> DEFINE p == PivotRow(t)
<1>1. t \in 0 .. N - 2 /\ pivoted = t /\ N \in Nat /\ N > 1 /\ t \in Nat
  BY PivotOfColumn, NAssumption
<1>2. /\ th[t].x = p /\ p \in t .. N - 1 /\ t \in Rows /\ p \in Rows
      /\ (p = t \/ p = N - 1 - t) /\ p >= N - 1 - t /\ p \in Nat
  BY <1>1 DEF VInv, PivotedInv, PivotRow, Rows
<1>3. /\ DOMAIN A = Rows /\ \A r \in Rows : DOMAIN A[r] = Cols
      /\ DOMAIN th = Ids /\ th[t] = [pc |-> th[t].pc, i |-> th[t].i, x |-> th[t].x]
  BY DEF GInv, MatrixInv, ThreadsInv, ThreadInv
<1>4. \A r \in Rows, c \in Cols : A[r][c] = Pivoted(t, r, c)
  BY <1>1 DEF VInv, PivotedInv
<1> HIDE DEF p
<1>5. /\ \A c \in Cols : A'[p][c] = IF c \in FromColumn(t) THEN A[t][c] ELSE A[p][c]
      /\ \A c \in Cols : A'[t][c] = IF c \in FromColumn(t) THEN A[p][c] ELSE A[t][c]
      /\ \A r \in Rows \ {t, p} : A'[r] = A[r]
  BY <1>2, <1>3 DEF Swapped
<1>6. ASSUME NEW r \in Rows, NEW c \in Cols PROVE A'[r][c] = Pivoted(t + 1, r, c)
  <2>1. /\ r \in Nat /\ r <= N - 1 /\ c \in Nat /\ c <= N
        /\ (c \in FromColumn(t) <=> c >= t)
    BY <1>1 DEF Rows, Cols, FromColumn
  <2>2. CASE r = t
    <3>1. Place(t + 1, t) = t /\ (c >= t /\ c # N => (c = Place(t, p) <=> c = t))
      BY <1>1, <1>2, <2>1 DEF Place
    <3>2. c < t => c # N /\ c # Place(t, t) /\ c # t
      BY <1>1, <1>2, <2>1 DEF Place
    <3> QED  BY <1>1, <1>2, <1>4, <1>5, <2>1, <2>2, <3>1, <3>2 DEF Pivoted
  <2>3. CASE r = p
    <3>1. Place(t + 1, p) = p /\ (c >= t /\ c # N => (c = Place(t, t) <=> c = p))
      BY <1>1, <1>2, <2>1 DEF Place
    <3>2. c < t => c # N /\ c # Place(t, p) /\ c # p
      BY <1>1, <1>2, <2>1 DEF Place
    <3> QED  BY <1>1, <1>2, <1>4, <1>5, <2>1, <2>3, <3>1, <3>2 DEF Pivoted
  <2>4. CASE r # t /\ r # p
    <3>1. Place(t + 1, r) = Place(t, r)
      BY <1>1, <1>2, <2>1, <2>4 DEF Place
    <3> QED  BY <1>4, <1>5, <2>4, <3>1 DEF Pivoted
  <2> QED  BY <2>2, <2>3, <2>4
<1>7. \A u \in Ids : /\ th'[u].x = th[u].x
                     /\ th'[u].pc = "write" => th'[u] = th[u]
  BY <1>3
<1>8. LocalInv' /\ PivotedInv'
  BY <1>1, <1>6, <1>7 DEF VInv, LocalInv, PivotedInv
<1>9. CountInv' /\ EliminatedInv'
  BY DEF VInv, CountInv, EliminatedInv
<1> QED  BY <1>8, <1>9 DEF VInv

\* The coefficients a thread divides are those of rows reduced as far.
LEMMA ReadFactorKeepsVInv == ASSUME GInv, VInv, NEW t \in Ids, ReadFactor(t) PROVE VInv'
<1> USE DEF ReadFactor
<1> DEFINE k == th[t].i
           f == Over(Share(k), Diagonal(k))
<1>1. t \in Rows /\ k \in Rows /\ k < t /\ done[t] = k /\ done[k] = k
  BY RowsAreFinal
<1>2. k \in 0 .. N - 2 /\ k \in 0 .. N - 1 /\ k \in Cols /\ k # N /\ k # t /\ k \in Nat
  BY <1>1, NAssumption DEF Rows, Cols
<1>3. DOMAIN th = Ids /\ th[t] = [pc |-> th[t].pc, i |-> th[t].i, x |-> th[t].x]
  BY DEF GInv, ThreadsInv, ThreadInv
<1>4. A[t][k] = Share(k) /\ A[k][k] = Diagonal(k)
  <2>1. A[t][k] = Entry(k, t, k) /\ A[k][k] = Entry(k, k, k)
    BY <1>1, <1>2 DEF VInv, EliminatedInv
  <2> HIDE DEF k
  <2> QED  BY <1>1, <1>2, <2>1, EntryIs
<1>5. th'[t].x = f /\ th'[t].i = k /\ \A u \in Ids \ {t} : th'[u] = th[u]
  BY <1>3, <1>4
<1>6. f \in 0 .. P - 1
  <2> HIDE DEF k
  <2> QED  BY <1>2, FactorIs
<1>7. LocalInv' /\ EliminatedInv'
  <2>1. \A r \in Rows : Solved(r)' <=> Solved(r)
    BY DEF Solved
  <2>2. LocalInv'
    BY <1>5, <1>6 DEF VInv, LocalInv
  <2>3. ASSUME NEW u \in Ids, th'[u].pc = "write"
        PROVE  th'[u].x = Over(Share(th'[u].i), Diagonal(th'[u].i))
    BY <1>5, <2>3 DEF VInv, EliminatedInv
  <2>4. \A r \in Rows, c \in Cols :
          c >= done'[r] =>
            A'[r][c] = IF c = N /\ Solved(r)' THEN 1 ELSE Entry(done'[r], r, c)
    BY <2>1 DEF VInv, EliminatedInv
  <2> QED  BY <2>2, <2>3, <2>4 DEF EliminatedInv
<1>8. CountInv' /\ PivotedInv'
  BY DEF VInv, CountInv, PivotedInv
<1> QED  BY <1>7, <1>8 DEF VInv

\* A row is reduced from the left, up to its diagonal.
LEMMA DoneBound ==
  ASSUME GInv PROVE \A r \in Rows : done[r] \in 0 .. r
<1> SUFFICES ASSUME NEW r \in Rows PROVE done[r] \in 0 .. r
  OBVIOUS
<1>1. r \in Nat /\ r \in Ids /\ thread \in Int /\ First \in Int
  BY NAssumption, ThreadCountsAssumption DEF Rows, Ids, GInv, MainInv, First
<1>2. CASE phase = "pp"
  BY <1>1, <1>2 DEF GInv, PivotInv
<1>3. CASE phase = "ge"
  <2>1. CASE r < First \/ r >= thread
    BY <1>1, <1>3, <2>1 DEF GInv, DoneInv
  <2>2. CASE r \in Live
    <3>1. th[r].i \in Nat
      BY <1>1 DEF GInv, ThreadsInv, ThreadInv
    <3> QED  BY <1>1, <1>3, <2>2, <3>1 DEF GInv, DoneInv
  <2> QED  BY <1>1, <2>1, <2>2 DEF Live
<1> QED  BY <1>2, <1>3 DEF GInv, MainInv

\* The row keeps its form, with one column less.
LEMMA ReduceRowKeepsVInv == ASSUME GInv, VInv, NEW t \in Ids, ReduceRow(t) PROVE VInv'
<1> USE DEF ReduceRow
<1> DEFINE k == th[t].i
           f == Over(Share(k), Diagonal(k))
<1>1. t \in Rows /\ k \in Rows /\ k < t /\ done[t] = k /\ done[k] = k
  BY RowsOfColumn
<1>2. k \in 0 .. N - 2 /\ k \in Nat /\ t # k /\ N \in Nat
  BY <1>1, NAssumption DEF Rows
<1>3. /\ DOMAIN A = Rows /\ DOMAIN done = Rows
      /\ DOMAIN th = Ids /\ th[t] = [pc |-> th[t].pc, i |-> th[t].i, x |-> th[t].x]
  BY DEF GInv, MatrixInv, ThreadsInv, ThreadInv
<1>4. th[t].x = f
  BY DEF VInv, EliminatedInv
<1>5. \A r \in Rows : ~ Solved(r) /\ ~ Solved(r)'
  BY NoneBetween DEF Solved
<1>6. /\ A'[t] = Reduced(t, k, f) /\ done'[t] = k + 1
      /\ \A r \in Rows \ {t} : A'[r] = A[r] /\ done'[r] = done[r]
  BY <1>1, <1>3, <1>4
<1>7. \A u \in Ids : th'[u].x = th[u].x /\ (th'[u].pc = "write" => th'[u] = th[u])
  BY <1>3
<1> HIDE DEF k
<1>8. ASSUME NEW c \in Cols, c >= k + 1 PROVE A'[t][c] = Entry(k + 1, t, c)
  <2>1. c \in k + 1 .. N /\ c > k /\ ~(c < k) /\ c # k /\ c \in Nat
    BY <1>2, <1>8 DEF Cols
  <2>2. A[t][c] = Entry(k, t, c) /\ A[k][c] = Entry(k, k, c)
    BY <1>1, <1>2, <1>5, <2>1 DEF VInv, EliminatedInv
  <2> HIDE DEF f
  <2>3. A'[t][c] = Minus(A[t][c], Times(A[k][c], f))
    BY <1>6, <2>1 DEF Reduced
  <2> QED  BY <1>1, <1>2, <2>1, <2>2, <2>3, EntryReduced DEF f
<1> HIDE DEF f
<1>9. ASSUME NEW r \in Rows, NEW c \in Cols, c >= done'[r]
      PROVE  A'[r][c] = Entry(done'[r], r, c)
  <2>1. CASE r = t
    BY <1>6, <1>8, <1>9, <2>1
  <2>2. CASE r # t
    BY <1>5, <1>6, <1>9, <2>2 DEF VInv, EliminatedInv
  <2> QED  BY <2>1, <2>2
<1>10. EliminatedInv'
  <2>1. ASSUME NEW u \in Ids, th'[u].pc = "write"
        PROVE  th'[u].x = Over(Share(th'[u].i), Diagonal(th'[u].i))
    BY <1>7, <2>1 DEF VInv, EliminatedInv
  <2> QED  BY <1>5, <1>9, <2>1 DEF EliminatedInv
<1>11. CountInv' /\ LocalInv' /\ PivotedInv'
  BY <1>7 DEF VInv, CountInv, LocalInv, PivotedInv
<1> QED  BY <1>10, <1>11 DEF VInv

\* One more unknown is one.
LEMMA SolveKeepsVInv == ASSUME GInv, VInv, Solve PROVE VInv'
<1> USE DEF Solve
<1> DEFINE r == N - 1 - n
           b == Share(r)
           f == [c \in r + 1 .. N - 1 |-> Times(A[r][c], A[c][N])]
<1>1. /\ n \in Nat /\ n < N /\ N \in Nat /\ N \in Cols /\ phase = "ge"
      /\ \A q \in Rows : done[q] = q
      /\ \A t \in Ids : th[t].pc = "none"
  BY AllDone, NoneBetween, NAssumption DEF GInv, MainInv, VInv, CountInv, Cols
<1>2. r \in Rows /\ r \in 0 .. N - 1 /\ r \in Nat
  BY <1>1 DEF Rows
<1>3. b \in Nat /\ b \in 0 .. P - 1
  BY <1>2, ShareIs, PFacts
<1>4. DOMAIN A = Rows /\ \A q \in Rows : DOMAIN A[q] = Cols
  BY DEF GInv, MatrixInv
<1>5. \A q \in Rows : (Solved(q) <=> q > r) /\ (Solved(q)' <=> q >= r)
  BY <1>1 DEF Solved, Rows
<1>6. ASSUME NEW c \in r + 1 .. N - 1
      PROVE  f[c] = b
  <2>1. c \in Rows /\ c \in Cols /\ c # N /\ c # r /\ c >= r /\ c > r /\ N >= c
    BY <1>1, <1>2 DEF Rows, Cols
  <2>2. A[r][c] = Entry(r, r, c) /\ A[c][N] = 1
    BY <1>1, <1>2, <1>5, <2>1 DEF VInv, EliminatedInv
  <2>3. A[r][c] = b
    BY <1>2, <2>1, <2>2, EntryIs
  <2>4. b * 1 = b
    BY <1>3
  <2>5. Times(A[r][c], A[c][N]) = b
    BY <1>3, <2>2, <2>3, <2>4, SmallMod DEF Times
  <2> QED  BY <2>5
<1>7. MapThenSumSet(LAMBDA c : Times(A[r][c], A[c][N]), r + 1 .. N - 1) = (N - 1 - r) * b
  <2> DEFINE S == r + 1 .. N - 1
  <2>1. IsFiniteSet(S) /\ Cardinality(S) = N - 1 - r /\ N \notin S /\ 0 \in Nat
    <3> HIDE DEF r
    <3>1. r + 1 \in Int /\ N - 1 \in Int
      BY <1>1, <1>2
    <3>2. /\ IsFiniteSet(S)
          /\ Cardinality(S) = IF r + 1 > N - 1 THEN 0 ELSE N - 1 - (r + 1) + 1
      BY <3>1, FS_Interval
    <3> QED  BY <1>1, <1>2, <3>2
  <2>2. \A c \in S : f[c] = IF c = N THEN 0 ELSE b
    BY <1>6, <2>1
  <2>3. MapThenSumSet(LAMBDA c : Times(A[r][c], A[c][N]), S)
          = SumOf(f, S)
    BY ZenonT(60) DEF SumOf, MapThenSumSet, MapThenFoldSet
  <2> HIDE DEF f, b, r
  <2>4. SumOf(f, S) = AllBut(S, N, 0, b)
    <3> HIDE DEF S
    <3> QED  BY <1>3, <2>1, <2>2, SumIs
  <2>5. AllBut(S, N, 0, b) = (N - 1 - r) * b
    BY <2>1 DEF AllBut
  <2> QED  BY <2>3, <2>4, <2>5
<1>8. Solution(r) = 1
  <2>1. A[r][N] = Entry(r, r, N) /\ A[r][r] = Entry(r, r, r)
    <3>1. r \in Cols /\ N >= r /\ r # N /\ ~ Solved(r)
      BY <1>1, <1>2, <1>5 DEF Cols
    <3> QED  BY <1>1, <1>2, <3>1 DEF VInv, EliminatedInv
  <2>2. A[r][r] = Diagonal(r)
    BY <1>1, <1>2, <2>1, EntryIs
  <2>3. Solution(r) = Over(Minus(A[r][N], ((N - 1 - r) * b) % P), A[r][r])
    BY <1>7 DEF Solution
  <2> QED  BY <1>2, <2>1, <2>2, <2>3, SolutionIsOne
<1>9. /\ A'[r][N] = 1
      /\ \A q \in Rows, c \in Cols : (q # r \/ c # N) => A'[q][c] = A[q][c]
  <2>1. A' = [A EXCEPT ![r][N] = 1]
    BY <1>8
  <2> HIDE DEF r
  <2> QED  BY <1>1, <1>2, <1>4, <2>1
<1>10. EliminatedInv'
  <2>1. ASSUME NEW q \in Rows, NEW c \in Cols, c >= done'[q]
        PROVE  A'[q][c] = IF c = N /\ Solved(q)' THEN 1 ELSE Entry(done'[q], q, c)
    <3>1. CASE q = r /\ c = N
      BY <1>2, <1>5, <1>9, <3>1
    <3>2. CASE q # r \/ c # N
      <4>1. A'[q][c] = A[q][c]
        BY <1>9, <3>2
      <4>2. c = N => (Solved(q)' <=> Solved(q))
        BY <1>2, <1>5, <3>2 DEF Rows
      <4> QED  BY <1>1, <2>1, <4>1, <4>2 DEF VInv, EliminatedInv
    <3> QED  BY <3>1, <3>2
  <2> QED  BY <1>1, <2>1 DEF EliminatedInv
<1>11. CountInv' /\ LocalInv' /\ PivotedInv'
  BY <1>1 DEF VInv, CountInv, LocalInv, PivotedInv
<1> QED  BY <1>10, <1>11 DEF VInv

\* Every step keeps the values what they are.
LEMMA StepKeepsVInv == GInv /\ VInv /\ [Next]_vars => VInv'
<1> SUFFICES ASSUME GInv, VInv, [Next]_vars PROVE VInv'
  OBVIOUS
<1>1. CASE StartElimination
  BY <1>1, StartEliminationKeepsGInv, StartEliminationKeepsVInv
<1>2. CASE StartBatch \/ Create \/ Join \/ StartSolving \/ Solve
  BY <1>2, StartBatchKeepsVInv, CreateKeepsVInv, JoinKeepsVInv, StartSolvingKeepsVInv,
     SolveKeepsVInv
<1>3. ASSUME NEW t \in Ids, Thread(t) PROVE VInv'
  BY <1>3, SearchKeepsVInv, SwapKeepsVInv, ReadFactorKeepsVInv, ReduceRowKeepsVInv,
     ArriveKeepsVInv, PrintRowKeepsVInv, AdvanceKeepsVInv DEF Thread
<1>4. CASE Finished \/ UNCHANGED vars
  <2>1. UNCHANGED vars
    BY <1>4 DEF Finished
  <2>2. LocalInv' /\ PivotedInv' /\ EliminatedInv'
    BY <2>1, ValuesKept DEF vars, Solved, VInv, LocalInv
  <2> QED  BY <2>1, <2>2 DEF vars, VInv, CountInv
<1> QED  BY <1>1, <1>2, <1>3, <1>4 DEF Next, Main

\* The values, for every number of unknowns and of threads: the rows are in
\* place after pp, each elimination step leaves Entry (c4.5.c:30-95), and the back
\* substitution makes every unknown one (c4.5.c:148-154).
THEOREM ValueInvariance == Spec => [](GInv /\ VInv)
  BY InitGInv, InitVInv, StepKeepsGInv, StepKeepsVInv, PTL DEF Spec

\* The variables that hold functions always do.
FunctionsInv ==
  /\ th = [t \in Ids |-> th[t]]
  /\ done = [r \in Rows |-> done[r]]
  /\ A = [r \in Rows |-> A[r]]
  /\ \A r \in Rows : A[r] = [c \in Cols |-> A[r][c]]

\* They do at first.
LEMMA InitFunctions == Init => FunctionsInv
  BY DEF Init, InitialMatrix, FunctionsInv

\* Every step keeps them functions.
LEMMA FunctionsKept == GInv /\ FunctionsInv /\ [Next]_vars => FunctionsInv'
<1> SUFFICES ASSUME GInv, FunctionsInv, [Next]_vars PROVE FunctionsInv'
  OBVIOUS
<1>1. CASE StartBatch \/ StartElimination \/ Create \/ Join \/ StartSolving
  BY <1>1 DEF StartBatch, StartElimination, Create, Join, StartSolving, FunctionsInv
<1>2. CASE Solve
  <2>1. A' = [A EXCEPT ![N - 1 - n] = [A[N - 1 - n] EXCEPT ![N] = Solution(N - 1 - n)]]
    BY <1>2 DEF Solve
  <2> QED  BY <1>2, <2>1 DEF Solve, FunctionsInv
<1>3. ASSUME NEW t \in Ids, Search(t) \/ ReadFactor(t) \/ PrintRow(t) \/ Advance(t)
      PROVE  FunctionsInv'
  <2>1. th' = [u \in Ids |-> th'[u]]
    BY <1>3 DEF Search, ReadFactor, PrintRow, Advance, FunctionsInv
  <2>2. UNCHANGED <<A, done>>
    BY <1>3 DEF Search, ReadFactor, PrintRow, Advance
  <2> QED  BY <2>1, <2>2 DEF FunctionsInv
<1>4. ASSUME NEW t \in Ids, Arrive(t) PROVE FunctionsInv'
  <2>1. CASE Last(t)
    BY <1>4, <2>1 DEF Arrive, FunctionsInv
  <2>2. CASE ~ Last(t)
    BY <1>4, <2>2 DEF Arrive, FunctionsInv
  <2> QED  BY <2>1, <2>2
<1>5. ASSUME NEW t \in Ids, Swap(t) PROVE FunctionsInv'
  BY <1>5 DEF Swap, Swapped, FunctionsInv
<1>6. ASSUME NEW t \in Ids, ReduceRow(t) PROVE FunctionsInv'
  <2> DEFINE row == Reduced(t, th[t].i, th[t].x)
  <2>1. row = [c \in Cols |-> row[c]]
    <3> DEFINE g(c) == CASE c < th[t].i -> A[t][c]
                         [] c = th[t].i -> 0
                         [] c > th[t].i -> Minus(A[t][c], Times(A[th[t].i][c], th[t].x))
    <3>1. row = [c \in Cols |-> g(c)]
      BY DEF Reduced
    <3> HIDE DEF row, g
    <3> QED  BY <3>1
  <2> HIDE DEF row
  <2>2. A' = [A EXCEPT ![t] = row]
    BY <1>6 DEF ReduceRow, row
  <2>3. A' = [r \in Rows |-> A'[r]] /\ \A r \in Rows : A'[r] = [c \in Cols |-> A'[r][c]]
    BY <2>1, <2>2 DEF FunctionsInv
  <2>4. th' = [u \in Ids |-> th'[u]] /\ done' = [r \in Rows |-> done'[r]]
    BY <1>6 DEF ReduceRow, FunctionsInv
  <2> QED  BY <2>3, <2>4 DEF FunctionsInv
<1>7. CASE Finished \/ UNCHANGED vars
  BY <1>7 DEF Finished, vars, FunctionsInv
<1> QED  BY <1>1, <1>2, <1>3, <1>4, <1>5, <1>6, <1>7 DEF Next, Main, Thread

\* Every variable keeps its type: what the arithmetic gives are elements of the
\* field, and no counter leaves its range.
THEOREM TypeCorrect == Spec => []TypeOK
<1>1. GInv /\ VInv /\ FunctionsInv => TypeOK
  <2> SUFFICES ASSUME GInv, VInv, FunctionsInv PROVE TypeOK
    OBVIOUS
  <2>1. /\ NTHREADS \in ThreadCounts /\ phase \in {"pp", "ge"}
        /\ mpc \in {"batch", "create", "join", "solve", "done"}
        /\ thread \in Ids /\ n \in Ids
    BY NAssumption, ThreadCountsAssumption DEF GInv, MainInv, VInv, CountInv, Ids
  <2>2. th \in [Ids -> [pc : Locs, i : 0 .. N - 1, x : 0 .. P - 1]]
    <3>1. ASSUME NEW t \in Ids PROVE th[t] \in [pc : Locs, i : 0 .. N - 1, x : 0 .. P - 1]
      BY DEF GInv, ThreadsInv, ThreadInv, VInv, LocalInv
    <3> QED  BY <3>1 DEF FunctionsInv
  <2>3. \A r \in Rows : done[r] \in 0 .. r
    BY DoneBound
  <2>4. done \in [Rows -> 0 .. N]
    <3>1. ASSUME NEW r \in Rows PROVE done[r] \in 0 .. N
      BY <2>3, NAssumption DEF Rows
    <3> QED  BY <3>1 DEF FunctionsInv
  <2>5. ASSUME NEW r \in Rows, NEW c \in Cols PROVE A[r][c] \in 0 .. P - 1
    <3>1. CASE phase = "pp"
      <4>1. A[r][c] = Pivoted(pivoted, r, c)
        BY <3>1 DEF VInv, PivotedInv
      <4> QED  BY <4>1, PFacts DEF Pivoted
    <3>2. CASE phase = "ge" /\ c < done[r]
      <4>1. c \in 0 .. N - 1
        BY <2>3, <3>2, NAssumption DEF Rows, Cols
      <4>2. A[r][c] = 0
        BY <3>2, <4>1 DEF GInv, MatrixInv
      <4> QED  BY <4>2, PFacts
    <3>3. CASE phase = "ge" /\ c >= done[r]
      <4>1. A[r][c] = 1 \/ A[r][c] = Entry(done[r], r, c)
        BY <3>3 DEF VInv, EliminatedInv
      <4>2. done[r] \in 0 .. N - 1
        BY <2>3, NAssumption DEF Rows
      <4>3. Entry(done[r], r, c) \in 0 .. P - 1
        BY <4>2, EntryIs
      <4> QED  BY <4>1, <4>3, PFacts
    <3>4. c \in Int /\ done[r] \in Int
      BY <2>3, NAssumption DEF Rows, Cols
    <3> QED  BY <2>1, <3>1, <3>2, <3>3, <3>4
  <2>6. A \in [Rows -> [Cols -> 0 .. P - 1]]
    <3>1. ASSUME NEW r \in Rows PROVE A[r] \in [Cols -> 0 .. P - 1]
      BY <2>5 DEF FunctionsInv
    <3> QED  BY <3>1 DEF FunctionsInv
  <2>7. pivoted \in 0 .. N
    BY <2>1, NAssumption DEF GInv, PivotInv, DoneInv
  <2> QED  BY <2>1, <2>2, <2>4, <2>6, <2>7 DEF TypeOK, Locs
<1>2. Spec => []FunctionsInv
  <2>1. GInv /\ FunctionsInv /\ [Next]_vars => FunctionsInv'
    BY FunctionsKept
  <2> QED  BY <2>1, InitFunctions, GaussInvariance, PTL DEF Spec
<1> QED  BY <1>1, <1>2, ValueInvariance, PTL

\* What main prints solves the system it started from: every unknown is one,
\* whatever the number of unknowns and of threads (c4.5.c:109-116, 148-160).
THEOREM SolutionSolvesHolds == Spec => []SolutionSolves
<1>1. GInv /\ VInv => SolutionSolves
  <2> SUFFICES ASSUME GInv, VInv, mpc = "done", NEW r \in Rows
               PROVE  MapThenSumSet(LAMBDA c : Times(InitialMatrix[r][c], A[c][N]),
                                    Rows) % P
                        = InitialMatrix[r][N]
    BY DEF SolutionSolves
  <2> DEFINE e == N - r - 1
             f == [c \in Rows |-> Times(InitialMatrix[r][c], A[c][N])]
  <2>1. /\ N \in Nat /\ N \in Cols /\ e \in Rows /\ n = N /\ phase = "ge"
        /\ \A c \in Rows : done[c] = c
    BY AllDone, NAssumption DEF GInv, MainInv, VInv, CountInv, Rows, Cols
  <2>2. ASSUME NEW c \in Rows PROVE f[c] = IF c = e THEN N ELSE 1
    <3>1. c \in Cols /\ c # N /\ N >= c /\ c >= N - n
      BY <2>1 DEF Rows, Cols
    <3>2. A[c][N] = 1
      BY <2>1, <3>1 DEF VInv, EliminatedInv, Solved
    <3>3. InitialMatrix[r][c] = IF c = e THEN N ELSE 1
      BY <3>1 DEF InitialMatrix
    <3>4. InitialMatrix[r][c] \in 0 .. P - 1
      BY <3>3, PFacts
    <3>5. InitialMatrix[r][c] * 1 = InitialMatrix[r][c]
      BY <3>4, PFacts
    <3> QED  BY <3>2, <3>3, <3>4, <3>5, SmallMod DEF Times
  <2>3. MapThenSumSet(LAMBDA c : Times(InitialMatrix[r][c], A[c][N]), Rows)
          = SumOf(f, Rows)
    BY ZenonT(60) DEF SumOf, MapThenSumSet, MapThenFoldSet
  <2>4. IsFiniteSet(Rows) /\ Cardinality(Rows) = N
    BY <2>1, NAssumption, FS_Interval DEF Rows
  <2>5. InitialMatrix[r][N] = 2 * N - 1
    <3>1. N # N - r - 1 /\ r \in Nat
      BY <2>1 DEF Rows
    <3> QED  BY <2>1, <3>1 DEF InitialMatrix
  <2>6. 1 \in Nat
    OBVIOUS
  <2> HIDE DEF f, e
  <2>7. SumOf(f, Rows) = AllBut(Rows, e, N, 1)
    <3>1. \A c \in Rows : f[c] = IF c = e THEN N ELSE 1
      BY <2>2
    <3>2. N \in Nat
      BY <2>1
    <3> QED  BY <2>4, <2>6, <3>1, <3>2, SumIs
  <2>8. AllBut(Rows, e, N, 1) = 2 * N - 1
    BY <2>1, <2>4 DEF AllBut
  <2>9. 2 * N - 1 \in 0 .. P - 1
    BY PFacts
  <2> QED  BY <2>3, <2>5, <2>7, <2>8, <2>9, SmallMod
<1> QED  BY <1>1, ValueInvariance, PTL
=============================================================================
