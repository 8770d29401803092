SPECIFICATION Spec
CONSTANTS
  c1 = c1
  c2 = c2
  p1 = p1
  p2 = p2
  w1 = w1
  w2 = w2
  NoId = NoId
  Free = Free
  NoSnap = NoSnap
  Callers = {c1, c2}
  Ids = {p1, p2}
  WebIds = {}
  MaxTries = 2
  BufLimit = 2
  Requests = {"start", "stop", "delete", "restart"}
VIEW View
SYMMETRY Symmetry
INVARIANTS
  IInv
  BuffersMatch
  RecordsSettle
  
PROPERTIES
  PtyStatusForward
CHECK_DEADLOCK FALSE
