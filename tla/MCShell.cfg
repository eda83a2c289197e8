\* Two lines, so that the tail of the first may still run during the second.
SPECIFICATION FairSpec
CONSTANTS
  Lines <- TypedLines
  Gaps = {1}
  Strays = {{}, {"cat"}}
  MaxLines = 2
  PipeCap = 1
  Units = 2
INVARIANTS
  TypeOK
  StreamsAsWritten
  ArgvAsWritten
  WordsKept
  NoChildAtPrompt
PROPERTIES
  PromptReturns
  AllEnd
\* The user may stop typing.
CHECK_DEADLOCK FALSE
