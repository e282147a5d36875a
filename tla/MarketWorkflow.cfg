SPECIFICATION FairSpec
CONSTANTS
  beat = beat  asked = asked  full = full
  Jobs = {asked, full}
  Kind <- MCKind
  Pool = 2
  Nobody = Nobody
INVARIANTS SuccessIsComplete ConflictDidNothing NoStrandedRun AnsweredRunIsSeen
PROPERTIES RefreshesExclude WorkflowsExclude EveryTaskEnds EveryRequestEnds
CHECK_DEADLOCK FALSE
