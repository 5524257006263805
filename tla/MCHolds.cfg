SPECIFICATION HoldsSpec
CONSTANTS
  f1 = f1
  f2 = f2
  b1 = b1
  b2 = b2
  Economy = Economy
  Business = Business
  Flights = {f1}
  Seats <- MCSeats
  Bookings = {b1, b2}
  FlightOf <- MCFlightOf
  ClassOf <- MCClassOf
  DepartureAt <- MCDepartureAt
  MaxPassengers = 2
  HoldDuration = 1
  SalesCutoff = 2
  CancellationWindow = 3
  NoBooking = NoBooking
  NoSeat = NoSeat
  Requests = {r1, r2, r3, r4, r5, r6, r7, r8, r9}
  Sweepers = {job}
  Changers = {r4, r5, r6}
  Enders = {r7, r8, r9}
  RequestKinds <- MCRequestKinds
  BatchSize = 1
  Nobody = Nobody
  NoRequest = NoRequest
  MaxTime = 1
SYMMETRY SymmetricRequests
INVARIANTS
  NoLockCycle

  
  
CHECK_DEADLOCK FALSE
