SPECIFICATION FairSpec
CONSTANTS
  N = 3
  PassedCap = 9
INVARIANTS
  ThrottledOnlyInEmergency
  BoundedBypass

  
