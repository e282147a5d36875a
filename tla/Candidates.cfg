SPECIFICATION Spec
CONSTANTS
  Cands = {c1, c2}
  Cards = {k1}
  Runs = {find}
  Discoveries = {find}
  Rematches = {again}
  Users = {person}
  Ranks = {"suggested"}
  Edits = {"approve"}
  BulkEdits = {"bulk_approve"}
  MaxMaps = 2
  MaxOpen = 2
  NoCard = NoCard
  NoUrl = NoUrl
INVARIANTS DecisionKept UnreviewedIsFlagged
