SPECIFICATION StreamSpec
CONSTANTS
  Cap = 3
  Byte = {1, 2, 3, 4, 5}
  Zero = Zero
  MaxPrinted = 5
  Sizes = {1, 2}
  ReadMax = 2
  ReplayBudget = 2
  QueueCap = 2
  WireCap = 1
  Loads = {"ok", "stripped", "failed"}
INVARIANTS
  HoldsTail
  ReplayInv
  QueueKept
  CursorTruthful
PROPERTIES
  NoRepaint
