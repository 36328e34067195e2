SPECIFICATION Spec
CONSTANTS
  Device = {1, 2}
  kBroadcast = 99
  Game = {7}
  Toss = {0, 1}
  Move = {1}
  Note = {1}
  MaxTrips = 2
  MaxMoves = 1
  MaxSays = 0
  StaleDelivery = FALSE
INVARIANTS HostAgreement
CHECK_DEADLOCK FALSE
