SPECIFICATION Spec
CONSTANTS
  j1 = j1
  j2 = j2
  server = server
  api = api
  worker = worker
  Jobs = {j1, j2}
  Legacy = {}
  Forgotten = {}
  Api = {api}
  Worker = {worker}
  Capacities = {1}
  Graces = {1}
  MaxVisit = 1
  MaxClock = 2
  MaxPending = 2
  MaxFaults = 0
SYMMETRY Students
INVARIANT QuietLineIsServed
PROPERTIES PaidOrderStands RevealsFitCounter StaysCalledInOrder
CHECK_DEADLOCK FALSE
