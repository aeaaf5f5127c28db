CONSTANTS
  s1 = s1
  s2 = s2
  Server = {s1, s2}
  Environment <- MCEnvironment
  MaxAttempts = 2
  MayEmpty = FALSE
  MaxChanges = 2
  MaxFaults = 2
SPECIFICATION FairSpec
INVARIANTS
  IInv
  ServingIsSeeded
  AcceptedIsUsable
PROPERTIES
  DeletedStaysDeleted
  StopsWhenTold
  ComesBack
