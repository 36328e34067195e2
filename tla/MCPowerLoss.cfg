SPECIFICATION Spec
CONSTANTS
  Blocks = 3
  MaxSeq = 12
  MaxSaves = 3
INVARIANTS BootsWholeImage UpdateTakesEffect ProgressIsWhole
