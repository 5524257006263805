SPECIFICATION Spec
CONSTANTS
  SalesCutoff = 3
  SeatLetters = {"a", "b"}
  MaxRow = 3
  MaxCabins = 2
  MaxLetters = 2
  MaxSeats = 5
  Requests = {1, 2, 3}
  Worlds <- MCWorlds
  Turnaround = 1
  MaxTime = 1
  Queries <- MCQueries
  Limits = {1, 2}
  DayLength = 4
  OffsetAt <- MCOffsetAt
  MaxSearchDays = 2
  MaxSearchPassengers = 2
  MaxSearchLimit = 2
INVARIANTS
  AircraftNotDoubleBooked
  FlightsMatchTheirAircraft
  RecordsMatchAnswers
  SomeRacerWins
  AcceptedLayoutsFit
  SearchAgreesWithRules
PROPERTIES
  WalkListsEachOnce
  WalkKeepsItsSearch
  AdminRequestsEnd
CHECK_DEADLOCK FALSE
