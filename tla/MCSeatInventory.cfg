SPECIFICATION Spec
CONSTANTS
  f1 = f1
  f2 = f2
  Economy = Economy
  Business = Business
  Flights = {f1, f2}
  Seats <- MCSeats
  Bookings = {b1, b2}
  FlightOf <- MCFlightOf
  ClassOf <- MCClassOf
  DepartureAt <- MCDepartureAt
  MaxPassengers = 2
  HoldDuration = 1
  SalesCutoff = 2
  CancellationWindow = 3
  NoBooking = NoBooking
  NoSeat = NoSeat
  MaxTime = 4
INVARIANTS
  TypeOK
  SeatsMatchBookings
  PartySeatedApart
  HoldEndsBeforeDeparture
PROPERTIES
  HeldPartyFixed
CHECK_DEADLOCK FALSE
