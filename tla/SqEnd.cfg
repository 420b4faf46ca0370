SPECIFICATION FairSpec
CONSTANTS
  Senders = {s1}
  SqDepth = 3
  CqDepth = 1
  HwTypes = {TRUE, FALSE}
  MaxNum = 2
  Timeouts <- MCTimeouts
  Nobody = Nobody
PROPERTIES ReleasedInTheEnd
CHECK_DEADLOCK FALSE
