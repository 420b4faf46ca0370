SPECIFICATION PathSpec
CONSTANTS
  Receivers = {r1}
  Controllers = {c1}
  Producers = {tasklet, work}
  Tasklet = tasklet
  Work = work
  Depth = 3
  PhyDepth = 3
  DispatchNum = 64
  Overload = FALSE
  MaxPosts = 5
  Cqes <- MCPlain
  Requests <- MCPoll
  StoreOrdered = TRUE
  NoReq = NoReq
  NoCqe = NoCqe
  NoThread = NoThread
INVARIANTS FetchResumesTraversal
