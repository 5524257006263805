SPECIFICATION Spec
CONSTANTS
  Bookings = {b1, b2}
  PaymentIds = {p1, p2, p3}
INVARIANTS
  TypeOK
  ConfirmedIffPaid
  MoneyAccountedFor
CHECK_DEADLOCK FALSE
