CONSTANTS
  operator = operator
  reviewer = reviewer
  admin = admin
  q1 = q1
  q2 = q2
  User <- MCUser
  RoleOf <- MCRoleOf
  Code = {PD}
  Seeded = {PD}
  Evidence = {checked, revised}
  Blank = blank
  Request = {q1, q2}
  SeedRequest = seed
  SeedPreparer = operator
  SeedReviewer = reviewer
  SeedEvidence = checked
  Nobody = nobody
  MaxVersion = 3
  PredictVersions = FALSE
  Faults = TRUE
SPECIFICATION Spec
SYMMETRY RequestSymmetry
INVARIANTS
  StatusChangesAudited
