SPECIFICATION Spec
CONSTANTS
  Lines <- TypedLines
  Gaps = {1}
  Strays = {{}}
  MaxLines = 1
  PipeCap = 1
  Units = 2
INVARIANT RedirPathAsWritten
\* The user may stop typing.
CHECK_DEADLOCK FALSE
