SPECIFICATION Spec
CONSTANTS
  NoId = NoId
  Ids = {p1}
  Ops = {o1, o2}
  Writers = {m}
  MaxIds = 3
  MaxSuffix = 2
  MaxVersion = 1
  NoCopy = NoCopy
SYMMETRY Symmetry

  
PROPERTIES
  
  RecordKept
CHECK_DEADLOCK FALSE
