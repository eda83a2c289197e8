SPECIFICATION Spec
CONSTANTS
  Lines <- TypedLines
  Gaps = {1}
  Strays = {{}, {"cat"}}
  MaxLines = 1
  PipeCap = 1
  Units = 2
INVARIANT TailHasNewInputs
\* The user may stop typing.
CHECK_DEADLOCK FALSE
