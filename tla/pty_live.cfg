SPECIFICATION FairSpec
CONSTANTS
  c1 = c1
  c2 = c2
  p1 = p1
  p2 = p2
  w1 = w1
  w2 = w2
  NoId = NoId
  Free = Free
  NoSnap = NoSnap
  Callers = {c1, c2}
  Ids = {p1}
  WebIds = {}
  MaxTries = 3
  BufLimit = 2
  Requests = {"start", "stop", "delete", "rename", "reorder"}
VIEW View
PROPERTIES
  Settles
CHECK_DEADLOCK FALSE
