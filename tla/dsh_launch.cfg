SPECIFICATION Spec
CONSTANTS
  Requests = {r1, r2}
  Releases <- Versions
  Dev = Dev
  Gone = Gone
  NoBin = NoBin
  NoVersion = NoVersion
  Nobody = Nobody
  NoRun = NoRun
  Empty = Empty
  Garbage = Garbage
  MaxChanges = 3
SYMMETRY Symmetric
INVARIANTS
  
  InstallHeals
