SPECIFICATION FairHeldSpec
CONSTANTS
  f1 = f1
  f2 = f2
  b1 = b1
  b2 = b2
  Economy = Economy
  Business = Business
  Flights = {f2}
  Seats <- MCSeats
  Bookings = {b1, b2}
  FlightOf <- MCFlightOf
  ClassOf <- MCClassOf
  DepartureAt <- MCDepartureAt
  MaxPassengers = 1
  HoldDuration = 1
  SalesCutoff = 2
  CancellationWindow = 3
  NoBooking = NoBooking
  NoSeat = NoSeat
  Requests = {r1, r2}
  Sweepers = {job}
  Changers = {}
  Enders = {}
  RequestKinds <- SweepKinds
  BatchSize = 1
  Nobody = Nobody
  NoRequest = NoRequest
  MaxTime = 1
PROPERTIES
  RequestsEnd
  LapsedHoldsSwept
CHECK_DEADLOCK FALSE
