SPECIFICATION FairSpec
CONSTANTS
  Activity = {1, 2, 3}
  MaxHops = 1
INVARIANTS ActivityTypeOK DrawnIsAlive ResultIsAwaited PendingIsWhole
PROPERTIES WaitShowsChange PassEnds RequestIsDrawn
