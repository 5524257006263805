SPECIFICATION Spec
CONSTANTS
  Bookings = {b1}
  Requests = {r1, r2}
  Workers = {w1}
  Keys = {k1, k2}
  MaxRefundAttempts = 2
  MaxCrashes = 0
  MaxTried = 0
  None = None
SYMMETRY SymmetricNames
INVARIANTS
  PaidBookingNotChargedAgain
CHECK_DEADLOCK FALSE
