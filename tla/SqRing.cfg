SPECIFICATION Spec
CONSTANTS
  Senders = {s1, s2}
  SqDepth = 3
  CqDepth = 2
  HwTypes = {TRUE, FALSE}
  MaxNum = 2
  Timeouts <- MCTimeouts
  Nobody = Nobody
SYMMETRY MCSymmetry
CONSTRAINT UpToOvertaking
INVARIANTS TypeOK SubmittedIntact HeadIsPast LiveWhileUsed
CHECK_DEADLOCK FALSE
