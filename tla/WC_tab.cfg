CONSTANTS
  operator = operator
  reviewer = reviewer
  c1 = c1
  c2 = c2
  User = {operator, reviewer}
  RoleOf <- MCRoleOf
  TokenTTL = 1
  NoToken = none
  MaxClock = 2
  Call = {c1, c2}
  GivenAccount <- MCGivenAccount
  Nobody = none
  NoItem = none
  NoDialog = none
  MaxVersion = 3
  MaxEvents = 4
SPECIFICATION FairSpec
INVARIANTS
  IInv
PROPERTIES
  ConfirmedIsApplied
  OfferedIsAccepted
  RoleIsRecent
  OverIsShown
  ImplementsRegister
  LoadingEnds
