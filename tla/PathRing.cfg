SPECIFICATION PathFairSpec
CONSTANTS
  Receivers = {r1}
  Controllers = {c1}
  Producers = {tasklet, work}
  Tasklet = tasklet
  Work = work
  Depth = 2
  PhyDepth = 3
  DispatchNum = 2
  Overload = TRUE
  MaxPosts = 7
  Cqes <- MCPlain
  Requests <- MCPoll
  StoreOrdered = TRUE
  NoReq = NoReq
  NoCqe = NoCqe
  NoThread = NoThread
INVARIANTS PathTypeOK
PROPERTIES PhySeesFifo InterruptRepairs CqeDispatched
