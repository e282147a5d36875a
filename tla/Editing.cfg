SPECIFICATION EditingSpec
CONSTANTS
  a = a  b = b  c = c
  g1 = g1  g2 = g2
  m1 = m1  m2 = m2
  v1 = v1  v2 = v2  v3 = v3
  p = p  q = q
  NoCard = NoCard
  None = None
  Unused = Unused
  Cards = {a, b, c}
  MovedTables <- MCTables
  LeftTables <- MCLeft
  Rows = {"item", "alias"}
  TableOf <- MCTableOf
  TagRows = {g1, g2}
  TagOf <- MCTagOf
  Merges = {m1, m2}
  Views = {v1, v2, v3}
  PageOf <- MCPageOf
  Entries = {a, b, c}
  Keys = {g1, g2}
  Files <- MCFiles
  Flags <- MCFlags
  Contents <- MCContents
  Sessions = {m1, m2}
CHECK_DEADLOCK FALSE
SYMMETRY Alike
INVARIANTS
  RowsFollow MergesEnd DefaultIsChosen OneEntry ClosedBackupRestores LossIsWarned
