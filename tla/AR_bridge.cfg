CONSTANTS
  viewer = viewer
  operator = operator
  admin = admin
  BA = BA
  IR = IR
  DF = DF
  q1 = q1
  q2 = q2
  User <- MCUser
  RoleOf <- MCRoleOf
  Record = {BA}
  KindOf <- MCKindOf
  Seeded = {BA}
  Fields = {first, second}
  BlankFields = blank
  SeedFields = first
  MaxVersion = 3
  Request = {q1, q2}
  PredictVersions = FALSE
  Faults = TRUE
SPECIFICATION Spec
SYMMETRY RequestSymmetry
INVARIANTS
  IInv
  NoLostUpdate
  AcknowledgedIsDurable
PROPERTIES
  ImplementsRegister
