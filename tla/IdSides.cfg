SPECIFICATION FairSpec
CONSTANTS
  HostUsers = {h1}
  DeviceUsers = {d1}
  Flusher = flusher
  Ids = {i1, i2}
  Batch = 2
  MaxFaults = 1
  Nobody = Nobody
INVARIANTS TypeOK OneHolder MarksExact NothingLost AllocNumExact RefsExact
PROPERTIES CallReturns ImplementsIdSet
CHECK_DEADLOCK FALSE
