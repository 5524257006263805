--------------------------- MODULE SchemaMigrations ---------------------------
(***************************************************************************)
(* Bringing a database of an earlier release to the present schema.        *)
(* Runners (the API at start-up, the migration command) read which         *)
(* migrations are recorded and run the others in order, one transaction    *)
(* each.  A contract step refuses while rows do not fit; a person repairs  *)
(* them as its HINT says and the migrations are run again.  A runner may   *)
(* be killed, and two may overlap, the second with an old list.            *)
(*                                                                         *)
(* A migration is one step: its DDL locks the tables until it commits.     *)
(* Bookings are numbered in order of (created_at, id) and places in order  *)
(* of (row, letter); the class of a place is the same on every aircraft.   *)
(* A column that a contract step drops keeps its value here, unread.       *)
(***************************************************************************)
EXTENDS Naturals, Sequences, FiniteSets, SequencesExt

CONSTANTS
  Flights,       \* flight ids, positive numbers
  Bookings,      \* booking ids
  Places,        \* places on board, below 100
  Aircraft,      \* registered aircraft
  PlacesOn,      \* the seats rows of each aircraft
  ClassAt,       \* the fare class of each place
  Upper,         \* upper() of each text that old flights name an airport by
  DepartureAt,
  ArrivalAt,
  Turnaround,    \* flight_aircraft_occupancy's interval
  MaxPassengers,
  Runners,
  MaxKills,      \* bound on the runners killed
  Null

ASSUME NumbersAssumption ==
  /\ Flights \subseteq Nat \ {0}
  /\ Bookings \subseteq Nat
  /\ Places \subseteq 1..99
  /\ PlacesOn \in [Aircraft -> SUBSET Places]
  /\ MaxPassengers \in Nat \ {0}
  /\ Null \notin Bookings \cup Places
  /\ Null \notin {"SCHEDULED", "OPEN", "CANCELLED"}

VARIABLES
  db,       \* the tables
  applied,  \* the names in the migrations table
  pending,  \* what each runner has still to run, in order; none when it does not run
  refusal,  \* the migration that last refused, until it is recorded
  byHand,   \* bookings a person has cancelled on the way
  moved,    \* flights that got a bigger aircraft after their seats were copied, now or earlier
  before,   \* bookings and flights as the earlier release left them
  kills

vars == <<db, applied, pending, refusal, byHand, moved, before, kills>>

-----------------------------------------------------------------------------
(* The migrations *)

Migrations == <<
  "CreateFlights", "CreateOutbox", "CreateAuditLogs", "CreateBookings",
  "AddBookingOwner", "RequireBookingOwner", "CreateAirportsAndAircraft",
  "ExpandFlightReferences", "BackfillFlightReferences", "ContractFlightReferences",
  "AddAircraftScheduleExclusion",
  "CreateFlightSeats", "BackfillFlightSeats", "ContractFlightSeats",
  "MoveBookingsToLifecycle", "AddBookingReference",
  "CreateBookingPassengers", "ContractBookingPassengers",
  "AllowHeldSeats", "AddBookingHoldExpiryIndex",
  "CreateFlightFares", "BackfillFlightFares", "ContractFlightFares",
  "AddPassengerFareSnapshot",
  "CreatePayments", "CreateIdempotencyKeys", "AddPaymentReconciliation",
  "AddFlightSearchIndex" >>

\* Those that change rows; the others change the schema only.
MovesRows == {"BackfillFlightReferences", "BackfillFlightSeats", "MoveBookingsToLifecycle",
              "CreateBookingPassengers", "BackfillFlightFares", "AddPassengerFareSnapshot",
              "AddPaymentReconciliation"}

\* Those that may run twice: IF NOT EXISTS, SET NOT NULL, and the idempotent backfills.
Repeatable == {"CreateFlights", "CreateOutbox", "CreateAuditLogs", "CreateBookings",
               "AddBookingOwner", "RequireBookingOwner", "BackfillFlightReferences",
               "BackfillFlightSeats", "BackfillFlightFares"}

\* By the number in the name, the order in which a runner takes its list.
Position == [m \in ToSet(Migrations) |-> CHOOSE i \in DOMAIN Migrations : Migrations[i] = m]

Has(m) == m \in applied

Complete == \A m \in ToSet(Migrations) : Has(m)

\* A column or table is already there, or already dropped.
Conflicts(m) ==
  \/ Has(m) /\ m \notin Repeatable
  \/ m = "BackfillFlightReferences" /\ Has("ContractFlightReferences")
  \/ m = "BackfillFlightFares" /\ Has("ContractFlightFares")

-----------------------------------------------------------------------------
(* Rows *)

FareClasses == {ClassAt[s] : s \in Places}
StoredFlights == DOMAIN db.flights
SeatsOfFlight(f) == {s \in Places : <<f, s>> \in DOMAIN db.seats}
FreePlaces(f) == {s \in SeatsOfFlight(f) : db.seats[f, s].status = "AVAILABLE"}
IsSeated(b) == \E seat \in DOMAIN db.seats : db.seats[seat].booking = b
Rank(x, S) == Cardinality({y \in S : y < x})

\* flight_aircraft_occupancy(): the two flights cannot have one aircraft.
SameTime(f, g) ==
  /\ DepartureAt[f] < ArrivalAt[g] + Turnaround
  /\ DepartureAt[g] < ArrivalAt[f] + Turnaround

Clashes == {f \in StoredFlights : \E g \in StoredFlights \ {f} :
              SameTime(f, g) /\ db.flights[f].aircraft = db.flights[g].aircraft}

Fits(f, a) ==
  \A g \in StoredFlights \ {f} : SameTime(f, g) => db.flights[g].aircraft # a

-----------------------------------------------------------------------------
(* What the contract steps refuse *)

Ownerless == {b \in Bookings : ~db.bookings[b].owned}

LackAirport == {f \in StoredFlights :
  db.flights[f].originId = Null \/ db.flights[f].destinationId = Null}
LackAircraft == {f \in StoredFlights : db.flights[f].aircraft = Null}
LackReference == LackAirport \cup LackAircraft

\* "sgn" and "SGN" were different texts and are one airport: a CHECK, without a HINT.
SameAirport == {f \in StoredFlights :
  db.flights[f].originId # Null /\ db.flights[f].originId = db.flights[f].destinationId}

Unseated == {b \in Bookings : db.bookings[b].status = "active" /\ ~IsSeated(b)}
WrongCounter == {f \in StoredFlights : db.flights[f].counter # Cardinality(FreePlaces(f))}

\* CONFIRMED, and its BOOKED seats are not those of its passengers, one each.
Unreconciled == {b \in Bookings :
  /\ db.bookings[b].status = "CONFIRMED"
  /\ LET booked == {seat \in DOMAIN db.seats :
                      db.seats[seat].booking = b /\ db.seats[seat].status = "BOOKED"}
         matching == {i \in DOMAIN db.passengers[b] :
                        <<db.bookings[b].flight, db.passengers[b][i].place>> \in booked}
         party == Len(db.passengers[b])
     IN ~(Cardinality(booked) = party /\ party = Cardinality(matching) /\ party > 0)}

\* Mutant of StillSeated: only the CONFIRMED bookings are reconciled.
StillSeatedIgnored == {}

StillSeated == {b \in Bookings : db.bookings[b].status = "CANCELLED" /\ IsSeated(b)}

MissingFares == {fare \in StoredFlights \X FareClasses :
  /\ \E s \in SeatsOfFlight(fare[1]) : ClassAt[s] = fare[2]
  /\ fare \notin DOMAIN db.fares}
FaresWithoutSeats == {fare \in DOMAIN db.fares :
  \A s \in SeatsOfFlight(fare[1]) : ClassAt[s] # fare[2]}

\* A passenger with a place and no class and price after the backfill.
Unpriceable == {b \in Bookings : \E i \in DOMAIN db.passengers[b] :
  LET p == db.passengers[b][i] IN
    /\ p.place # Null /\ p.price = 0
    /\ \/ p.place \notin SeatsOfFlight(db.bookings[b].flight)
       \/ <<db.bookings[b].flight, ClassAt[p.place]>> \notin DOMAIN db.fares}

Processing == {b \in Bookings : db.payments[b] = "PROCESSING"}

Refuses(m) ==
  \/ m = "RequireBookingOwner" /\ Ownerless # {}
  \/ m = "ContractFlightReferences" /\ LackReference \cup SameAirport # {}
  \/ m = "AddAircraftScheduleExclusion" /\ Clashes # {}
  \/ m = "ContractFlightSeats" /\ (Unseated # {} \/ WrongCounter # {})
  \/ m = "ContractBookingPassengers" /\ Unreconciled \cup StillSeated # {}
  \/ m = "ContractFlightFares" /\ MissingFares \cup FaresWithoutSeats # {}
  \/ m = "AddPassengerFareSnapshot" /\ Unpriceable # {}
  \/ m = "AddPaymentReconciliation" /\ Processing # {}

-----------------------------------------------------------------------------
(* The steps of a runner *)

Running(r) == pending[r] # {}

IsNext(r, m) == m \in pending[r] /\ \A n \in pending[r] : Position[m] <= Position[n]

\* runMigrations(): what is not recorded, as of now.
Start(r) ==
  /\ ~Running(r) /\ ~Complete
  /\ pending' = [pending EXCEPT ![r] = ToSet(Migrations) \ applied]
  /\ UNCHANGED <<db, applied, refusal, byHand, moved, before, kills>>

\* Migration m changes the tables to new and is recorded, in one transaction.
Migrate(r, m, new) ==
  /\ IsNext(r, m)
  /\ ~Conflicts(m) /\ ~Refuses(m)
  /\ db' = new
  /\ applied' = applied \cup {m}
  /\ pending' = [pending EXCEPT ![r] = @ \ {m}]
  /\ refusal' = IF refusal = m THEN "none" ELSE refusal
  /\ UNCHANGED <<byHand, moved, before, kills>>

ChangeSchema(r) == \E m \in ToSet(Migrations) \ MovesRows : Migrate(r, m, db)

\* The transaction is rolled back and the process ends.
Refuse(r) ==
  /\ \E m \in pending[r] :
       /\ IsNext(r, m)
       /\ Conflicts(m) \/ Refuses(m)
       /\ refusal' = IF Conflicts(m) THEN refusal ELSE m
  /\ pending' = [pending EXCEPT ![r] = {}]
  /\ UNCHANGED <<db, applied, byHand, moved, before, kills>>

Kill(r) ==
  /\ Running(r) /\ kills < MaxKills
  /\ kills' = kills + 1
  /\ pending' = [pending EXCEPT ![r] = {}]
  /\ UNCHANGED <<db, applied, refusal, byHand, moved, before>>

AirportOf(text) == IF Upper[text] \in db.airports THEN Upper[text] ELSE Null

\* Flight f with the airports that its texts name, where they are registered
Referring(f) ==
  [db.flights[f] EXCEPT
     !.originId = IF @ = Null THEN AirportOf(db.flights[f].origin) ELSE @,
     !.destinationId = IF @ = Null THEN AirportOf(db.flights[f].destination) ELSE @]

BackfillFlightReferences(r) ==
  Migrate(r, "BackfillFlightReferences", [db EXCEPT !.flights = [f \in StoredFlights |->
    [Referring(f) EXCEPT !.status = IF db.flights[f].status = Null THEN "OPEN"
                                    ELSE db.flights[f].status]]])

\* A seat for every place on the aircraft, but for those already there.
CopiedSeats ==
  LET places == {seat \in StoredFlights \X Places :
                   seat[2] \in PlacesOn[db.flights[seat[1]].aircraft]}
  IN [seat \in places \cup DOMAIN db.seats |->
       IF seat \in DOMAIN db.seats THEN db.seats[seat]
       ELSE [status |-> "AVAILABLE", booking |-> Null]]

\* Mutant of PairedSeats: bookings that have a seat are given another.
PairedSeatsAgain(seats) ==
  LET active(f) == {b \in Bookings : db.bookings[b].flight = f /\ db.bookings[b].status = "active"}
      free(f) == {s \in Places : <<f, s>> \in DOMAIN seats /\ seats[f, s].status = "AVAILABLE"}
      taker(seat) == {b \in active(seat[1]) : /\ seat[2] \in free(seat[1])
                                               /\ Rank(b, active(seat[1])) = Rank(seat[2], free(seat[1]))}
  IN [seat \in DOMAIN seats |->
       IF taker(seat) = {} THEN seats[seat]
       ELSE [status |-> "BOOKED", booking |-> CHOOSE b \in taker(seat) : TRUE]]

\* The n-th unseated booking of a flight takes its n-th free seat.
PairedSeats(seats) ==
  LET unseated(f) == {b \in Unseated : db.bookings[b].flight = f}
      free(f) == {s \in Places : <<f, s>> \in DOMAIN seats /\ seats[f, s].status = "AVAILABLE"}
      taker(seat) == {b \in unseated(seat[1]) : /\ seat[2] \in free(seat[1])
                                                 /\ Rank(b, unseated(seat[1])) = Rank(seat[2], free(seat[1]))}
  IN [seat \in DOMAIN seats |->
       IF taker(seat) = {} THEN seats[seat]
       ELSE [status |-> "BOOKED", booking |-> CHOOSE b \in taker(seat) : TRUE]]

BackfillFlightSeats(r) ==
  Migrate(r, "BackfillFlightSeats", [db EXCEPT !.seats = PairedSeats(CopiedSeats)])

\* Mutant of LifecycleStatus: a booking that was active gets a deadline to pay by.
LifecycleStatusHeld(status) == IF status = "active" THEN "HELD" ELSE "CANCELLED"

LifecycleStatus(status) == IF status = "active" THEN "CONFIRMED" ELSE "CANCELLED"

MoveBookingsToLifecycle(r) ==
  Migrate(r, "MoveBookingsToLifecycle", [db EXCEPT !.bookings =
    [b \in Bookings |-> [db.bookings[b] EXCEPT !.status = LifecycleStatus(db.bookings[b].status)]]])

\* One passenger per booking, with a copy of the seat it has now.
CreateBookingPassengers(r) ==
  Migrate(r, "CreateBookingPassengers", [db EXCEPT !.passengers = [b \in Bookings |->
    LET own == {seat \in DOMAIN db.seats : db.seats[seat].booking = b}
    IN <<[place |-> IF own = {} THEN Null ELSE (CHOOSE seat \in own : TRUE)[2],
          class |-> Null, price |-> 0]>>]])

\* Only the fares that can be known: one price in VND, and seats to sell it for.
BackfillFlightFares(r) ==
  LET known == {f \in StoredFlights :
                  db.flights[f].vnd /\ \E s \in SeatsOfFlight(f) : ClassAt[s] = "ECONOMY"}
  IN Migrate(r, "BackfillFlightFares", [db EXCEPT !.fares =
       [fare \in DOMAIN @ \cup known \X {"ECONOMY"} |->
          IF fare \in DOMAIN @ THEN @[fare] ELSE db.flights[fare[1]].price]])

\* By place on the flight, so that passengers who have left their seat are priced too.
AddPassengerFareSnapshot(r) ==
  LET priced(b, p) ==
        LET class == ClassAt[p.place] IN
          IF p.place = Null \/ p.price # 0 THEN p
          ELSE [p EXCEPT !.class = class, !.price = db.fares[db.bookings[b].flight, class]]
  IN Migrate(r, "AddPassengerFareSnapshot", [db EXCEPT !.passengers = [b \in Bookings |->
       [i \in DOMAIN db.passengers[b] |-> priced(b, db.passengers[b][i])]]])

\* Refunds that are owed are due at once.
AddPaymentReconciliation(r) ==
  Migrate(r, "AddPaymentReconciliation",
    [db EXCEPT !.due = {b \in Bookings : db.payments[b] = "REFUND_PENDING"}])

-----------------------------------------------------------------------------
(* A person repairs what the last refusal lists *)

Repair(m, new) ==
  /\ refusal = m
  /\ db' = new
  /\ UNCHANGED <<applied, pending, refusal, before, kills>>

AssignOwners ==
  /\ Repair("RequireBookingOwner",
            [db EXCEPT !.bookings = [b \in Bookings |-> [db.bookings[b] EXCEPT !.owned = TRUE]]])
  /\ Ownerless # {} /\ UNCHANGED <<byHand, moved>>

RegisterAirports ==
  LET named == {Upper[text] : text \in {db.flights[f].origin : f \in LackAirport}
                                 \cup {db.flights[f].destination : f \in LackAirport}}
  IN /\ ~(named \subseteq db.airports)
     /\ Repair("ContractFlightReferences", [db EXCEPT !.airports = @ \cup named])
     /\ UNCHANGED <<byHand, moved>>

\* Not in the HINT, and needed: the backfill is recorded and does not run again.
ReferToAirports ==
  /\ \E f \in LackAirport : Referring(f) # db.flights[f]
  /\ Repair("ContractFlightReferences",
            [db EXCEPT !.flights = [f \in StoredFlights |-> Referring(f)]])
  /\ UNCHANGED <<byHand, moved>>

AssignAircraft ==
  \E chosen \in [LackAircraft -> Aircraft] :
    /\ LackAircraft # {}
    /\ Repair("ContractFlightReferences", [db EXCEPT !.flights = [f \in StoredFlights |->
         IF f \in LackAircraft THEN [db.flights[f] EXCEPT !.aircraft = chosen[f]] ELSE db.flights[f]]])
    /\ UNCHANGED <<byHand, moved>>

\* Flights nobody booked, where no reference is right or no aircraft is free.
DeleteFlight ==
  \E f \in SameAirport \cup Clashes :
    /\ \A b \in Bookings : db.bookings[b].flight # f
    /\ \E m \in {"ContractFlightReferences", "AddAircraftScheduleExclusion"} :
         Repair(m, [db EXCEPT !.flights = [g \in StoredFlights \ {f} |-> @[g]]])
    /\ UNCHANGED <<byHand, moved>>

ReassignAircraft ==
  \E f \in Clashes, a \in Aircraft :
    /\ Fits(f, a)
    /\ Repair("AddAircraftScheduleExclusion", [db EXCEPT !.flights[f].aircraft = a])
    /\ UNCHANGED <<byHand, moved>>

\* A bigger aircraft, as the HINT says; its further places are not copied any more.
GiveBiggerAircraft ==
  \E b \in Unseated, a \in Aircraft :
    LET f == db.bookings[b].flight IN
      /\ db.flights[f].aircraft \in Aircraft \ {a}
      /\ PlacesOn[db.flights[f].aircraft] \subseteq PlacesOn[a] /\ Fits(f, a)
      /\ Repair("ContractFlightSeats", [db EXCEPT !.flights[f].aircraft = a])
      /\ moved' = moved \cup {f}
      /\ UNCHANGED byHand

CancelUnseated ==
  \E b \in Unseated :
    /\ Repair("ContractFlightSeats", [db EXCEPT !.bookings[b].status = "cancelled"])
    /\ byHand' = byHand \cup {b}
    /\ UNCHANGED moved

AcceptCounter ==
  \E f \in WrongCounter :
    /\ Repair("ContractFlightSeats", [db EXCEPT !.flights[f].counter = Cardinality(FreePlaces(f))])
    /\ UNCHANGED <<byHand, moved>>

CancelUnreconciled ==
  \E b \in Unreconciled :
    /\ ~IsSeated(b)
    /\ Repair("ContractBookingPassengers", [db EXCEPT !.bookings[b].status = "CANCELLED"])
    /\ byHand' = byHand \cup {b}
    /\ UNCHANGED moved

GiveFreeSeat ==
  \E b \in Unreconciled : \E s \in FreePlaces(db.bookings[b].flight) :
    /\ ~IsSeated(b)
    /\ Repair("ContractBookingPassengers",
         [db EXCEPT !.seats[<<db.bookings[b].flight, s>>] = [status |-> "BOOKED", booking |-> b],
                    !.passengers[b][1].place = s])
    /\ UNCHANGED <<byHand, moved>>

ReleaseSeats ==
  \E b \in StillSeated :
    /\ Repair("ContractBookingPassengers", [db EXCEPT !.seats = [seat \in DOMAIN @ |->
         IF @[seat].booking = b THEN [status |-> "AVAILABLE", booking |-> Null] ELSE @[seat]]])
    /\ UNCHANGED <<byHand, moved>>

SetFare ==
  \E fare \in MissingFares :
    /\ Repair("ContractFlightFares", [db EXCEPT !.fares =
         [x \in DOMAIN @ \cup {fare} |-> IF x = fare THEN db.flights[fare[1]].price + 1 ELSE @[x]]])
    /\ UNCHANGED <<byHand, moved>>

FinishPayment ==
  \E b \in Processing, status \in {"FAILED", "SUCCEEDED"} :
    /\ Repair("AddPaymentReconciliation", [db EXCEPT !.payments[b] = status])
    /\ UNCHANGED <<byHand, moved>>

Repairs ==
  \/ AssignOwners \/ RegisterAirports \/ ReferToAirports \/ AssignAircraft \/ DeleteFlight
  \/ ReassignAircraft \/ GiveBiggerAircraft \/ CancelUnseated \/ AcceptCounter
  \/ CancelUnreconciled \/ GiveFreeSeat \/ ReleaseSeats \/ SetFare \/ FinishPayment

-----------------------------------------------------------------------------
(* What an earlier release may have left *)

Tables == {"airports", "flights", "seats", "bookings", "passengers", "fares", "payments", "due"}

Tickets == {"active", "cancelled"}
Lifecycle == {"HELD", "CONFIRMED", "CANCELLED", "EXPIRED"}

\* The last migration of each release there has been since there are bookings
\* (docs/learnings/vietnamese/migrations/danh-sach.md, by day).
Releases == {"CreateBookings", "RequireBookingOwner", "CreateAirportsAndAircraft",
             "AddAircraftScheduleExclusion", "ContractFlightSeats", "AllowHeldSeats",
             "AddBookingHoldExpiryIndex", "AddPassengerFareSnapshot", "CreateIdempotencyKeys",
             "AddPaymentReconciliation", "AddFlightSearchIndex"}

IsRelease(names) ==
  \E last \in Releases : names = {m \in ToSet(Migrations) : Position[m] <= Position[last]}

FlightRow ==
  [origin : DOMAIN Upper, destination : DOMAIN Upper,
   originId : db.airports \cup {Null}, destinationId : db.airports \cup {Null},
   aircraft : Aircraft \cup {Null},
   status : IF Has("BackfillFlightReferences") THEN {"SCHEDULED", "OPEN", "CANCELLED"} ELSE {Null},
   counter : Nat, price : Nat, vnd : BOOLEAN]

BookingRow ==
  [flight : StoredFlights, owned : BOOLEAN,
   status : IF Has("MoveBookingsToLifecycle") THEN Lifecycle ELSE Tickets]

SeatRow ==
  [status : {"AVAILABLE", "BOOKED"} \cup (IF Has("AllowHeldSeats") THEN {"HELD"} ELSE {}),
   booking : Bookings \cup {Null}]

PassengerRow == [place : Places \cup {Null}, class : FareClasses \cup {Null}, price : Nat]

\* The columns and keys, CHK_bookings_status, CHK_flight_seats_booking, the
\* UQ_flight_seats_booking_id of old, CHK_booking_passengers_position and _fare.
RowsFit ==
  /\ DOMAIN db = Tables
  /\ StoredFlights \subseteq Flights /\ IsFiniteSet(StoredFlights)
  /\ db.flights \in [StoredFlights -> FlightRow]
  /\ db.bookings \in [Bookings -> BookingRow]
  /\ DOMAIN db.seats \subseteq StoredFlights \X Places
  /\ \A seat \in DOMAIN db.seats :
       /\ db.seats[seat] \in SeatRow
       /\ db.seats[seat].status = "AVAILABLE" <=> db.seats[seat].booking = Null
  /\ ~Has("AllowHeldSeats") => \A seat, other \in DOMAIN db.seats :
       db.seats[seat].booking = db.seats[other].booking => seat = other \/ db.seats[seat].booking = Null
  /\ db.passengers \in [Bookings -> Seq(PassengerRow)]
  /\ \A b \in Bookings :
       /\ Len(db.passengers[b]) <= MaxPassengers
       /\ \A i \in DOMAIN db.passengers[b] :
            LET p == db.passengers[b][i] IN
            IF p.place # Null /\ Has("AddPassengerFareSnapshot") THEN p.class = ClassAt[p.place]
            ELSE p.class = Null /\ p.price = 0
  /\ DOMAIN db.fares \subseteq StoredFlights \X FareClasses
  /\ DOMAIN db.payments = Bookings

\* What the migrations so far have made so, and the code of their release kept.
SchemaKept ==
  /\ Has("RequireBookingOwner") => Ownerless = {}
  /\ Has("ContractFlightReferences") => LackReference \cup SameAirport = {}
  /\ Has("AddAircraftScheduleExclusion") => Clashes = {}
  /\ IF Has("BackfillFlightSeats")
     THEN \A f \in StoredFlights : SeatsOfFlight(f) \subseteq PlacesOn[db.flights[f].aircraft]
     ELSE DOMAIN db.seats = {}
  /\ Has("ContractFlightFares") =>
       \A fare \in MissingFares \cup FaresWithoutSeats : fare[1] \in moved
  /\ Has("AddPaymentReconciliation") =>
       db.due = {b \in Bookings : db.payments[b] \in {"PROCESSING", "REFUND_PENDING"}}

\* Flights that have got a bigger aircraft in an earlier migration.
WithFewerSeats == {f \in StoredFlights : SeatsOfFlight(f) # PlacesOn[db.flights[f].aircraft]}

PassengerSeat(b, i) == <<db.bookings[b].flight, db.passengers[b][i].place>>

\* A party on board has a seat each, of one kind, and others have none: what
\* hold, pay, cancel and expire promise (SeatInventory).
PartiesSeated ==
  \A b \in Bookings :
    LET onBoard == db.bookings[b].status \in {"HELD", "CONFIRMED"}
        party == DOMAIN db.passengers[b]
    IN /\ \A seat \in DOMAIN db.seats :
            /\ db.seats[seat].booking = b <=> onBoard /\ \E i \in party : PassengerSeat(b, i) = seat
            /\ db.seats[seat].booking = b =>
                 db.seats[seat].status = IF db.bookings[b].status = "HELD" THEN "HELD" ELSE "BOOKED"
       /\ onBoard => /\ party # {}
                     /\ \A i \in party : PassengerSeat(b, i) \in DOMAIN db.seats
                     /\ \A i, j \in party : PassengerSeat(b, i) = PassengerSeat(b, j) => i = j

Init ==
  /\ IsRelease(applied)
  /\ moved = IF Has("BackfillFlightSeats") THEN WithFewerSeats ELSE {}
  /\ RowsFit /\ SchemaKept
  /\ IF Has("CreateBookingPassengers") THEN PartiesSeated ELSE \A b \in Bookings : db.passengers[b] = <<>>
  /\ before = [bookings |-> db.bookings, flights |-> db.flights]
  /\ pending = [r \in Runners |-> {}]
  /\ refusal = "none"
  /\ byHand = {}
  /\ kills = 0

-----------------------------------------------------------------------------
(* Specification *)

Step(r) ==
  \/ ChangeSchema(r) \/ Refuse(r)
  \/ BackfillFlightReferences(r) \/ BackfillFlightSeats(r) \/ MoveBookingsToLifecycle(r)
  \/ CreateBookingPassengers(r) \/ BackfillFlightFares(r)
  \/ AddPassengerFareSnapshot(r) \/ AddPaymentReconciliation(r)

Next ==
  \/ \E r \in Runners : Start(r) \/ Step(r) \/ Kill(r)
  \/ Repairs

Spec == Init /\ [][Next]_vars

\* The container is restarted whenever its process ends, and somebody does
\* what a refusal asks for.
Fairness ==
  /\ WF_vars(\E r \in Runners : Start(r))
  /\ \A r \in Runners : WF_vars(Step(r))
  /\ WF_vars(Repairs)

-----------------------------------------------------------------------------
(* Properties *)

\* A row of flight_seats, as its place in the order (flight, row, letter).
SeatNumber(f, s) == 100 * f + s
SeatOf(n) == <<n \div 100, n % 100>>
SeatNumbers == {SeatNumber(f, s) : f \in Flights, s \in Places}

\* The tables as the booking code reads them.
Inventory == INSTANCE SeatInventory WITH
  Seats <- SeatNumbers,
  FlightOf <- [n \in SeatNumbers |-> SeatOf(n)[1]],
  ClassOf <- [n \in SeatNumbers |-> ClassAt[SeatOf(n)[2]]],
  NoBooking <- Null, NoSeat <- 0,
  HoldDuration <- 0, CancellationWindow <- 0, SalesCutoff <- 0, MaxTime <- 0, now <- 0,
  flightStatus <- [f \in Flights |-> IF f \in StoredFlights THEN db.flights[f].status ELSE Null],
  status <- [b \in Bookings |-> db.bookings[b].status],
  flightId <- [b \in Bookings |-> db.bookings[b].flight],
  holdExpiresAt <- [b \in Bookings |-> 0],
  paxSeat <- [b \in Bookings |-> [i \in 1..MaxPassengers |->
    IF i \in DOMAIN db.passengers[b] /\ db.passengers[b][i].place # Null
    THEN SeatNumber(db.bookings[b].flight, db.passengers[b][i].place) ELSE 0]],
  paxClass <- [b \in Bookings |-> [i \in 1..MaxPassengers |->
    IF i \in DOMAIN db.passengers[b] THEN db.passengers[b][i].class ELSE Null]],
  seatStatus <- [n \in SeatNumbers |->
    IF SeatOf(n) \in DOMAIN db.seats THEN db.seats[SeatOf(n)].status ELSE "AVAILABLE"],
  seatBooking <- [n \in SeatNumbers |->
    IF SeatOf(n) \in DOMAIN db.seats THEN db.seats[SeatOf(n)].booking ELSE Null]

\* Once the last migration is recorded, the rows are ones the present code can
\* work on, whatever the earlier release left and a person repaired: seats,
\* bookings and passengers agree, passengers sit in the class they are priced
\* for, flights have a fare for each class they have seats in and only those
\* and are on sale if they were, no aircraft flies twice at a time, and refunds
\* owed are due.
\* (But for the fares of a flight that was moved to a bigger aircraft: a second
\* runner may repeat the seat backfill after the fares were checked.)
MigratedDataFits == Complete =>
  /\ Inventory!SeatsMatchBookings
  /\ Inventory!PartySeatedApart
  /\ Inventory!PricedClassKept
  /\ \A f \in StoredFlights :
       /\ f \notin moved => {c \in FareClasses : <<f, c>> \in DOMAIN db.fares}
                               = {ClassAt[s] : s \in SeatsOfFlight(f)}
       /\ db.flights[f].status = IF before.flights[f].status = Null THEN "OPEN"
                                 ELSE before.flights[f].status
       /\ Fits(f, db.flights[f].aircraft)
       /\ db.flights[f].originId # db.flights[f].destinationId
  /\ db.due = {b \in Bookings : db.payments[b] \in {"PROCESSING", "REFUND_PENDING"}}

\* No booking is lost or changed on the way: it keeps its flight, one that was
\* active is CONFIRMED with a seat unless a person cancelled it, one that was
\* cancelled stays so, and bookings of the present lifecycle keep their state.
BookingsCarriedOver == Complete =>
  \A b \in Bookings :
    /\ db.bookings[b].flight = before.bookings[b].flight
    /\ db.bookings[b].status =
         IF b \in byHand THEN "CANCELLED"
         ELSE IF before.bookings[b].status \in {"active", "cancelled"}
         THEN [active |-> "CONFIRMED", cancelled |-> "CANCELLED"][before.bookings[b].status]
         ELSE before.bookings[b].status
    /\ before.bookings[b].status = "active" /\ b \notin byHand => IsSeated(b)

\* Refused, killed and run by two at once, the migrations all get recorded as
\* long as somebody repairs what is listed: no refusal is left that no repair
\* answers, and no repair undoes another (README.md, "Database migrations").
MigrationsComplete == <>Complete
===============================================================================
