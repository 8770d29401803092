SPECIFICATION Spec
CONSTANTS
  Scenes = {{"boot", "dial", "prime"}, {"call"}, {"create"}, {"create", "boot"}}
  MaxGen = 3
  Attempts = 3

  
  
PROPERTIES
  Recovers
  AdvisoryFollows
CHECK_DEADLOCK FALSE
