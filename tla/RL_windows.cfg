CONSTANTS
  i1 = i1
  i2 = i2
  k1 = k1
  k2 = k2
  k3 = k3
  q1 = q1
  q2 = q2
  Instance = {i1, i2}
  Key = {k1, k2, k3}
  Request = {q1, q2}
  Limit = 2
  LocalCap = 2
  RedisEnabled = TRUE
  Faults = TRUE
  Redis = redis
  MaxWindow = 2
  MaxArrivals = 5
SPECIFICATION Spec
SYMMETRY RLSymmetry
CHECK_DEADLOCK FALSE
INVARIANTS
  IInv
  WindowLimit
  NoEarlyRefusal
  TrackedIsBounded
