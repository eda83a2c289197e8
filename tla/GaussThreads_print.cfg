\* A thread for every row.
SPECIFICATION Spec
CONSTANTS
  N = 4
  P = 101
  MaxThreads = 4
  ThreadCounts = {4}
INVARIANT PrintShowsStep
