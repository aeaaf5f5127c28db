CONSTANTS
  s1 = s1
  s2 = s2
  Server = {s1, s2}
  Environment <- MCEnvironment
  MaxAttempts = 2
  MayEmpty = TRUE
  MaxChanges = 2
  MaxFaults = 2
SPECIFICATION FairSpec
PROPERTIES
  ComesBack
