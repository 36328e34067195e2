SPECIFICATION LiveSpec
CONSTANTS
  Device = {1, 2}
  kBroadcast = 99
  Game = {7}
  Toss = {0}
  Move = {1}
  Note = {1}
  MaxTrips = 1
  MaxMoves = 1
  MaxSays = 0
  StaleDelivery = TRUE
PROPERTIES MatchForms MoveSettles
CHECK_DEADLOCK FALSE
