CONSTANTS
  Null = Null b1 = b1 b2 = b2 b3 = b3 b4 = b4 b5 = b5
  Batches = {b1}
  Body <- MCNested
  Queues <- MCOne
  RlsBinds = TRUE
  MaxRows = 3
  MaxAttempts = 1
  MaxFaults = 0
SPECIFICATION Spec
INVARIANT Attributed
