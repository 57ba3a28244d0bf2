CONSTANTS
  u1 = u1
  u2 = u2
  u3 = u3
  None = None
  Users <- MCUsers
  NPollWaiters = 2
  Retries = 3
  SyncRetries = 3
  I2CReset = TRUE
SPECIFICATION Spec
SYMMETRY UserSymmetry
INVARIANT EventNotLost
