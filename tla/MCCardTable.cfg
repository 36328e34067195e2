SPECIFICATION TableSpec
CONSTANTS
  kPlayers = 3
  Rounds = {1}
  MaxRound = 3
  Flaky = {1}
  Vocal = {1}
  Settings <- MCSettings
INVARIANTS TableTypeOK BlockIsReal ClockFitsPhase VotesAreCurrent
PROPERTIES PausedMeansStill AutoModeFinishes
CHECK_DEADLOCK FALSE
