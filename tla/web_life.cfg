SPECIFICATION Spec
CONSTANTS
  c1 = c1
  c2 = c2
  p1 = p1
  p2 = p2
  w1 = w1
  w2 = w2
  NoId = NoId
  Free = Free
  NoSnap = NoSnap
  Callers = {c1, c2}
  Ids = {w1}
  WebIds = {w1}
  MaxTries = 3
  BufLimit = 2
  Requests = {"start", "stop", "delete"}
VIEW View
SYMMETRY Symmetry
PROPERTIES
  NoLostUpdate
  StoppedNotExited
CHECK_DEADLOCK FALSE
