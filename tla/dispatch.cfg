SPECIFICATION Prints
CONSTANTS
  j1 = j1
  a1 = a1
  a2 = a2
  p1 = p1
  Jobs = {j1}
  Agents = {a1, a2}
  Printers = {p1}
  Reach <- OnePrinter
  LegacyAgents = {a2}
  BindingJobs = {j1}
  AllowSimulated = TRUE
  None = None
  MaxProcess = 2
  MaxAttempts = 2
  MaxCredit = 2
  MaxPending = 1
  MaxBeats = 1
  MaxTroubled = 2
INVARIANTS PrintBudget OneOutcome
PROPERTIES FollowsStateMachine WorkingComputerKeepsJob EveryPrintSettles
CHECK_DEADLOCK FALSE
