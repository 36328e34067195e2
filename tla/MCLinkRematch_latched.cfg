SPECIFICATION RematchSpec
CONSTANTS
  Device = {1, 2}
  kBroadcast = 99
  Game = {7}
  Toss = {0}
  Move = {0, 1, 2, 3, 10, 11, 12, 19, 20, 21, 22, 29}
  Note = {1}
  MaxTrips = 1
  MaxMoves = 5
  MaxSays = 1
  StaleDelivery = TRUE
  Title = "Jaipur"
INVARIANTS QuestionHasCause
CHECK_DEADLOCK FALSE
