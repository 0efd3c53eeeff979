SPECIFICATION FairLocation
CONSTANTS
  p1 = p1
  p2 = p2
  Places = {p1, p2}
  Labels = {"Market Road", "Station Road"}
  Label <- Names
  NoPlace = NoPlace
  MaxMounts = 2
  MaxMoves = 4
  MaxReads = 1
PROPERTIES TypedAddressStays
CHECK_DEADLOCK FALSE
