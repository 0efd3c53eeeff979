SPECIFICATION Counter
CONSTANTS
  None = None
  Nil = Nil
  a4 = a4
  a3 = a3
  staple = staple
  s1 = s1
  s2 = s2
  t1 = t1
  t2 = t2
  Tabs = {t1, t2}
  Students = {s1, s2}
  MenuChoices <- TwoMenus
  SpecChoices <- TwoSpecs
  FirstSpecs <- Plain
  Profiles <- OneProfile
  Coupon <- TenPercent
  Pages = 3
  MarkupBps = 500
  MaxActs = 3
  o1 = o1
  o2 = o2
  p1 = p1
  p2 = p2
  c1 = c1
  c2 = c2
  Desks = {d1}
  Orders = {o1, o2}
  Printers = {p1, p2}
  Calls = {c1, c2}
  MaxMoves = 1
  MaxDeskActs = 5
SYMMETRY Names
INVARIANTS TotalBelongsToOptions ChargedAsShown ConfirmedWhatWasShown ReleaseIsKept
CHECK_DEADLOCK FALSE
