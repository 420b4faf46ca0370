SPECIFICATION Spec
CONSTANTS
  t1 = t1  t2 = t2  t3 = t3  p1 = p1  p2 = p2
  Threads = {t1, t2}
  Pids <- MCPids
  PidOf <- MCPidOf
  Ids = {i1}
  PidMaxNum = 2
  MaxOpen = 2
  MaxListed = 2
  MaxClock <- MCMaxClock
  NoPid = NoPid
  NoName = NoName
INVARIANTS GoneCreatedNothing
CHECK_DEADLOCK FALSE
