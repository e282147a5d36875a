SPECIFICATION OperationsSpec
CONSTANTS
  c1 = c1  c2 = c2
  i1 = i1  i2 = i2
  p1 = p1  p2 = p2
  Null = Null
  Unused = Unused
  Rules <- MCRules
  RuleSets <- MCRuleSets
  Markets <- MCMarkets
  Checks = {c1, c2}
  DedupeWindow = 1
  AlertTime = 2
  MaxCalls = 2
  Ids = {1, 2}
  DayOf <- MCDayOf
  Cards = {card1}
  Prices = {lo, hi}
  Jobs = {i1, i2}
  BatchLimit = 2
  MaxEdits = 1
  Day = 2
  Week = 3
  Keep <- MCKeep
  KeepImportant = 3
  Fresh = 1
  Pruners = {p1, p2}
  RetentionTime = 5
  Clients = {x, y}
  Routes <- MCRoutes
  Limit <- MCLimit
  Window <- MCWindow
  LimitTime = 3
  MaxRequests = 5
CHECK_DEADLOCK FALSE
SYMMETRY Alike
INVARIANTS
  NoRepeat ObservedOnce LatestSurvives HistoryStays WindowsHold
