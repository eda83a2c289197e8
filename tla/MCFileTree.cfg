SPECIFICATION Spec
CONSTANTS
  Names = {"a", "b"}
  Paths <- TypedPaths
  MaxNodes = 4
INVARIANTS
  TypeOK
  TreeShape
  DirsUnique
  PwdLeadsBack
  RoundTrip
PROPERTY RefinesPathTree
