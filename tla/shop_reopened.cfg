SPECIFICATION Spec
CONSTANTS
  Facts = {0, 1}
  Students = {s1}
  FcmEnabled = TRUE
  MaxEdits = 2
  MaxDecisions = 2
  MaxOutages = 1
  MaxActs = 3
  MaxFlight = 1
INVARIANT WaitingStudentIsListed
CHECK_DEADLOCK FALSE
