SPECIFICATION FairSpec
CONSTANTS
  j1 = j1
  j2 = j2
  Prints = {j1, j2}
  Commission <- OneAndTwo
  MaxWeeks = 2
  Refundable = {j1}
  MaxOrders = 2
  MaxLifts = 1
  MaxSwitches = 1
  None = None
INVARIANT AllocationsAddUp
PROPERTIES BooksBalance EveryCaptureIsCredited OverdueShopIsBlocked
CHECK_DEADLOCK FALSE
