SPECIFICATION Clients
CONSTANTS
  f1 = f1
  p1 = p1
  p2 = p2
  Files = {f1}
  Pages = {p1, p2}
  FileOf <- OneFile
  MaxRequests = 3
  None = None
  MaxLost = 1
  MaxFaults = 1
  Attempts = {1}
  Retention = 1
  Deleters = {}
  MaxCalls = 0
  b1 = b1
  t1 = t1
  t2 = t2
  c1 = c1
  c2 = c2
  r1 = r1
  r2 = r2
  Browsers = {b1}
  Tabs = {t1, t2}
  BrowserOf <- OneBrowser
  Calls = {c1, c2}
  Confirms = {r1, r2}
  MaxBusy = 2
  MaxCodes = 1
  MaxAttempts = 2
  MaxPins = 1
  MaxWindows = 1
  MaxTokens = 2
  MaxSecrets = 2
  NoValue = NoValue
SYMMETRY Names
INVARIANTS OneLiveOrder SessionHasPassword GuessesAreLimited SignedOutStaysOut
CHECK_DEADLOCK FALSE
