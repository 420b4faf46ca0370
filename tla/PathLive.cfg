SPECIFICATION PathFairSpec
CONSTANTS
  Receivers = {r1}
  Controllers = {c1}
  Producers = {tasklet, work}
  Tasklet = tasklet
  Work = work
  Depth = 2
  PhyDepth = 3
  DispatchNum = 64
  Overload = TRUE
  MaxPosts = 2
  Cqes <- MCPlain
  Requests <- MCAsk
  StoreOrdered = TRUE
  NoReq = NoReq
  NoCqe = NoCqe
  NoThread = NoThread
INVARIANTS NoStrandedCqe
PROPERTIES ReceiverServed
