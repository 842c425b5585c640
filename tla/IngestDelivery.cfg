CONSTANTS
  Null = Null b1 = b1 b2 = b2 b3 = b3 b4 = b4 b5 = b5
  Batches = {b1, b2, b3, b4, b5}
  Body <- MCBodies
  Queues <- MCQueues
  RlsBinds = TRUE
  MaxRows = 3
  MaxAttempts = 2
  MaxFaults = 1
SPECIFICATION FairSpec
INVARIANTS AckedStored Attributed
PROPERTIES ImplementsPromise TimeoutsLoseNothing EveryBatchResolves
