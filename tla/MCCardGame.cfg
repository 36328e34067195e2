SPECIFICATION Spec
CONSTANTS
  kPlayers = 4
  Rounds = {1}
  MaxRound = 2
INVARIANTS GameTypeOK NobodyLeftBehind PileIsTheAnswers NotWaitingForNobody
PROPERTIES NobodySkipped
CHECK_DEADLOCK FALSE
