\* The table of type.h.
SPECIFICATION Spec
CONSTANTS
  ProcCounts = {9}
  NULL = NULL
INVARIANT KforkMakesReady
