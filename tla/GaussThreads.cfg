\* Safety, termination and refinement, for any number of threads, from none
\* to more than there are rows.
SPECIFICATION FairSpec
CONSTANTS
  N = 4
  P = 101
  MaxThreads = 5
  ThreadCounts = {0, 1, 2, 3, 4, 5}
INVARIANTS
  TypeOK
  NoRace
  RowFinalWhenUsed
  PivotsInOrder
  SolveOnUpper
  SolutionSolves
PROPERTIES
  Termination
  RefinesElimination
