SPECIFICATION Spec
CONSTANTS
  Texts = {t1, t2}
  NoText = noText
  PipeCap = 2
  MaxRequests = 2
INVARIANT TimerCancelled
\* The user may stop typing.
CHECK_DEADLOCK FALSE
