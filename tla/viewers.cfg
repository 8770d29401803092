SPECIFICATION ViewersSpec
CONSTANTS
  Viewers = {"a", "b"}
  Grids <- SomeSizes
  MaxClients = 8
INVARIANTS
  ViewersInv
  TypeShown
PROPERTIES
  GoneReleased
