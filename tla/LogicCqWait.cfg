SPECIFICATION FairSpec
CONSTANTS
  Receivers = {r1}
  Controllers = {c1}
  Producers = {p1, p2}
  Depth = 3
  Cqes <- MCTaskCqes
  Requests <- MCWaits
  StoreOrdered = TRUE
  NoReq = NoReq
  NoCqe = NoCqe
  NoThread = NoThread
INVARIANTS NoStrandedReceiver
PROPERTIES ReceiverReturns
