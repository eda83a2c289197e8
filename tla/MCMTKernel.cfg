\* Tables of one to nine PROCs; type.h has nine.
SPECIFICATION Spec
CONSTANTS
  ProcCounts = {1, 2, 3, 4, 5, 6, 7, 8, 9}
  NULL = NULL
INVARIANTS
  TypeOK
  ListsKept
  Accounted
  ResumesSaved
  CrashOnlyByExit
  QueueOrder
