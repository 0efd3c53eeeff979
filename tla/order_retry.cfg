SPECIFICATION OrderSpec
CONSTANTS
  f1 = f1
  p1 = p1
  p2 = p2
  Files = {f1}
  Pages = {p1}
  FileOf <- OneFile
  MaxRequests = 2
  None = None
  MaxLost = 1
  MaxFaults = 1
  Attempts = {1}
  Retention = 1
  Deleters = {}
  MaxCalls = 0
INVARIANT RetryMakesNoSecondOrder
CHECK_DEADLOCK FALSE
