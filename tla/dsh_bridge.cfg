SPECIFICATION BridgeSpec
CONSTANTS
  MaxUp = 3
  MaxDown = 2
INVARIANTS
  BridgeInv

  
  
CHECK_DEADLOCK FALSE
