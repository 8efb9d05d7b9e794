SPECIFICATION Spec
CONSTANTS
  Request = {r1, r2}
  OtpMaxAttempts = 1
  MaxContent = 1
  MaxEnvelope = 1
INVARIANT SignedIsSold
CHECK_DEADLOCK FALSE
