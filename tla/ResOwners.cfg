SPECIFICATION FairSpec
CONSTANTS
  t1 = t1  t2 = t2  t3 = t3  p1 = p1  p2 = p2  i1 = i1
  Threads <- MCThreads
  Pids <- MCPids
  PidOf <- MCPidOf
  Ids = {i1}
  MaxTask = 2
  MaxShare = 2
  NoPid = NoPid
  NoCtx = NoCtx
  NoId = NoId
INVARIANTS TypeOK IdConserved RefsExact NothingLeftBehind OwnedIsMapped OneContextPerPid UseNumExact
PROPERTIES DeletedComesBack
