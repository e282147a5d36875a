SPECIFICATION CalculationsSpec
CONSTANTS
  Null = Null
  Inputs <- MCInputs
  Surroundings <- MCSurroundings
INVARIANTS
  ImportsAsForecast
  SureMeansSame
  AnswersAgree
  ReportsHold
CHECK_DEADLOCK FALSE
