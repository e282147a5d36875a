SPECIFICATION FairSpec
CONSTANTS
  Imports = {imp}  Exports = {exp}  Backups = {}
  Cancellers = {c1}
  MayRestart = TRUE
  NoJob = NoJob
INVARIANT SuccessIsBacked
PROPERTIES CancelledIsNotTakenUp RequestHonoured EveryJobEnds
