SPECIFICATION Spec
CONSTANTS
  kQueueDepth = 4
  Sender = {1, 2}
  Payload = {1, 2}
  MaxBegins = 2
INVARIANTS TypeOK CopyIsCurrent
PROPERTIES ImplementsQueue
CHECK_DEADLOCK FALSE
