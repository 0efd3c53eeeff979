SPECIFICATION FilesAndUploads
CONSTANTS
  f1 = f1
  Files = {f1}
  Pages = {p1}
  FileOf <- OneFile
  MaxRequests = 2
  None = None
  MaxLost = 0
  MaxFaults = 0
  Attempts = {1, 2}
  Retention = 2
  Deleters = {d1}
  MaxCalls = 1
  Uploads = {1, 2}
  MaxTries = 2
  MaxRetries = 1
  MaxPolls = 1
INVARIANT NothingLeftBehind
PROPERTIES FileGoneForGood StudentIsAnswered
CHECK_DEADLOCK FALSE
