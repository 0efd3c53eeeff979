SPECIFICATION Shop
CONSTANTS
  Facts = {0, 1}
  Students = {s1}
  FcmEnabled = TRUE
  MaxEdits = 2
  MaxDecisions = 2
  MaxOutages = 1
  MaxActs = 3
  MaxFlight = 2
  p1 = p1
  p2 = p2
  Places = {p1, p2}
  Labels = {"Market Road", "Station Road"}
  Label <- Names
  NoPlace = NoPlace
  MaxMounts = 2
  MaxMoves = 3
  MaxReads = 2
INVARIANTS AdminDecisionStands ReviewedFactsShown EditorFollowsPin
PROPERTIES ReadyShopGoesLive WaitingStudentIsTold SavedLocationShows
CHECK_DEADLOCK FALSE
