SPECIFICATION Spec
CONSTANTS
  Daemons = {d1, d2}
  Nobody = Nobody
INVARIANTS
  HolderAgreed
  LiveRegistered
PROPERTIES
  PortalSettles
CHECK_DEADLOCK FALSE
