SPECIFICATION Spec
CONSTANTS
  Ids = {i1, i2}
  Callers = {c1, c2}
  Main = Main
  NoId = NoId
  MaxBoots = 2
SYMMETRY Symmetry
INVARIANTS
  NothingLeft
  ActiveIsManaged
PROPERTIES
  ShutdownStops
  StaleOnlyByRequest
CHECK_DEADLOCK FALSE
