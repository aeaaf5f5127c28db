CONSTANTS
  viewer = viewer
  operator = operator
  admin = admin
  BA = BA
  IR = IR
  DF = DF
  q1 = q1
  q2 = q2
  User <- MCUser
  RoleOf <- MCRoleOf
  Record = {DF}
  KindOf <- MCKindOf
  Seeded = {}
  Fields = {first, second}
  BlankFields = blank
  SeedFields = first
  MaxVersion = 3
  Request = {q1, q2}
  PredictVersions = FALSE
  Faults = FALSE
SPECIFICATION Spec
SYMMETRY RequestSymmetry
INVARIANTS
  AuditRetellsTheRecord
PROPERTIES
  ImplementsRegister
  StatusFollowsGraph
