SPECIFICATION OneOutSpec
CONSTANTS
  Bookings = {b1}
  Requests = {r1, r2}
  Workers = {w1, w2}
  Keys = {k1, k2}
  MaxRefundAttempts = 2
  MaxCrashes = 1
  MaxTried = 5
  None = None
SYMMETRY SymmetricNames
INVARIANTS
  KeyTracksPayment
  OneChargePerKey
  RefundTriesBounded
  AnswersAreTrue
PROPERTIES
  ImplementsLedger
CHECK_DEADLOCK FALSE
