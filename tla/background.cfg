SPECIFICATION Background
CONSTANTS
  api = api
  worker = worker
  Senders = {api, worker}
  Limit <- OneAndMany
  Notices = {n1, n2}
  Jobs = {j1, j2}
  MaxFaults = 2
  Printers = {p1, p2}
  Computers = {a1, a2}
  Engines = {1, 2, 3}
  Tests = {1, 2}
  MaxSetup = 2
  MaxTrouble = 1
  Nothing = Nothing
  MaxReads = 2
INVARIANTS AcceptedTestWasPrinted
PROPERTIES NotificationIsSent ProjectionCatchesUp LinkedPrinterIsReached StudentScreenCatchesUp
CHECK_DEADLOCK FALSE
