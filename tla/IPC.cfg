\* A user who types up to three lines.
SPECIFICATION FairSpec
CONSTANTS
  Texts = {t1, t2}
  NoText = noText
  PipeCap = 2
  MaxRequests = 3
INVARIANTS
  TypeOK
  OneOutstanding
  ReplyIsForRequest
  HandlerNeverBlocks
  LineNotShared
  NoLostWakeup
  WriteHasReader
  IInv
PROPERTIES
  RefinesStopAndWait
  AnsweredUnlessChildLost
\* The user may stop typing.
CHECK_DEADLOCK FALSE
