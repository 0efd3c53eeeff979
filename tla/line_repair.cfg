SPECIFICATION Repair
CONSTANTS
  j1 = j1
  j2 = j2
  server = server
  api = api
  worker = worker
  Jobs = {j1, j2}
  Legacy = {j2}
  Forgotten = {j2}
  Api = {server}
  Worker = {server}
  Capacities = {1, 2}
  Graces = {1}
  MaxVisit = 2
  MaxClock = 2
  MaxPending = 1
  MaxFaults = 1
INVARIANT RevealBelongsToStay
PROPERTIES FreeSlotIsFilled DeadlineEnds TimerStrikesItsReveal
CHECK_DEADLOCK FALSE
