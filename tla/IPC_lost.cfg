SPECIFICATION FairSpec
CONSTANTS
  Texts = {t1, t2}
  NoText = noText
  PipeCap = 2
  MaxRequests = 2
PROPERTY EveryRequestAnswered
\* The user may stop typing.
CHECK_DEADLOCK FALSE
