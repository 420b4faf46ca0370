SPECIFICATION Spec
CONSTANTS
  Receivers = {r1}
  Controllers = {c1, c2}
  Producers = {p1}
  Depth = 5
  Cqes <- MCCqes
  Requests <- MCPolls
  StoreOrdered = FALSE
  NoReq = NoReq
  NoCqe = NoCqe
  NoThread = NoThread
INVARIANTS CopyInMappedRing IdReturnedOnce
PROPERTIES ImplementsQueue
