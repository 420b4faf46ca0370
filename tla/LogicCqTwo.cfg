SPECIFICATION Spec
CONSTANTS
  Receivers = {r1, r2}
  Controllers = {c1}
  Producers = {p1}
  Depth = 3
  Cqes <- MCTaskCqes
  Requests <- MCTwoTasks
  StoreOrdered = TRUE
  NoReq = NoReq
  NoCqe = NoCqe
  NoThread = NoThread
INVARIANTS NoStrandedReceiver
