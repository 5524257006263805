SPECIFICATION FairSpec
CONSTANTS
  Bookings = {b1}
  Requests = {r1, r2}
  Workers = {w1}
  Keys = {k1}
  MaxRefundAttempts = 2
  MaxCrashes = 1
  MaxTried = 0
  None = None
PROPERTIES
  PaymentsFinish
  RequestsAnswered
CHECK_DEADLOCK FALSE
