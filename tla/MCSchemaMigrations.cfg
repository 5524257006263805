SPECIFICATION FairSpec
CONSTANTS
  app = app
  cli = cli
  Null = Null
  Flights = {1, 2}
  Bookings = {1, 2, 3}
  Places = {1, 2}
  Aircraft = {"small", "big"}
  PlacesOn <- MCPlacesOn
  ClassAt <- MCClassAt
  Upper <- MCUpper
  DepartureAt <- MCDepartureAt
  ArrivalAt <- MCArrivalAt
  Turnaround = 1
  MaxPassengers = 2
  Runners = {app, cli}
  MaxKills = 1
INVARIANTS
  MigratedDataFits
  BookingsCarriedOver
PROPERTIES
  MigrationsComplete
CHECK_DEADLOCK FALSE
