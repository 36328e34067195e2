SPECIFICATION Spec
CONSTANTS
  Device = {1, 2}
  kBroadcast = 99
  Game = {7}
  Toss = {0, 1}
  Move = {1, 2}
  Note = {1}
  MaxTrips = 1
  MaxMoves = 3
  MaxSays = 1
  StaleDelivery = TRUE
INVARIANTS TypeOK IInv MatchInv MoveReachesPeer HostAgreement TurnExclusion
PROPERTIES NoBoardSkipped SharesOneGame
CHECK_DEADLOCK FALSE
CONSTRAINT FewNotes
