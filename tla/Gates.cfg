SPECIFICATION Spec
CONSTANTS
  None = None
  e1 = e1
  e2 = e2
  m1 = m1
  m2 = m2
  c1 = c1
  r1 = r1
  r2 = r2
  Manager = manager
  Foreign = foreign
  Event = {e1, e2}
  Market = {m1, m2}
  Closing = {e1}
  Watched = {e1}
  MarketsOf <- MCMarketsOf
  Categories <- MCCategories
  CategoryOf <- MCCategoryOf
  Feed <- MCFeed
  Signal <- MCSignal
  Source = "injected"
  PageSize = 1
  MaxPages = 2
  TTL = 1
  Nav = 1000
  Deployed = 30
  DayPnl = 0
  CumPnl = 0
INVARIANTS TypeOK
PROPERTIES MissingExplained StaleExplained PickIsRecent
