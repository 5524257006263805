-------------------------- MODULE MCSchemaMigrations --------------------------
(* Databases of five earlier releases: flights named by text and counted     *)
(* seats, with owners and without; seats without passengers; passengers      *)
(* without prices; payments without reconciliation.  Two flights at one      *)
(* time, three bookings.                                                     *)
EXTENDS SchemaMigrations

CONSTANTS app, cli

MCClassAt == <<"BUSINESS", "ECONOMY">>
MCPlacesOn == [small |-> {2}, big |-> {1, 2}]
MCUpper == [sgn |-> "SGN", SGN |-> "SGN", HAN |-> "HAN", XYZ |-> "XYZ"]
MCDepartureAt == [f \in Flights |-> 1]
MCArrivalAt == [f \in Flights |-> 2]

UpTo(last) == SubSeq(Migrations, 1, CHOOSE i \in DOMAIN Migrations : Migrations[i] = last)

Flight(origin, destination, counter, vnd) ==
  [origin |-> origin, destination |-> destination, originId |-> Null, destinationId |-> Null,
   aircraft |-> Null, status |-> Null, counter |-> counter, price |-> 3, vnd |-> vnd]

WithReferences(flight, aircraft) ==
  [flight EXCEPT !.originId = "SGN", !.destinationId = "HAN", !.aircraft = aircraft, !.status = "OPEN"]

Booking(f, status, owned) == [flight |-> f, status |-> status, owned |-> owned]

Release(last, airports, flights, seats, bookings, passengers, fares, payments) ==
  /\ applied = ToSet(UpTo(last))
  /\ db = [airports |-> airports, flights |-> flights, seats |-> seats, bookings |-> bookings,
           passengers |-> passengers, fares |-> fares, payments |-> payments, due |-> {}]

NoRows == <<>>
NoPassengers == [b \in Bookings |-> <<>>]
NoPayments == [b \in Bookings |-> "NONE"]

\* Two flights that need one aircraft, or a flight from an airport to itself.
TextFlights ==
  \E counter \in 0..1, twoAirports \in BOOLEAN, s1 \in Tickets :
    Release(IF twoAirports THEN "RequireBookingOwner" ELSE "CreateBookings", {},
      <<Flight("sgn", "HAN", counter, twoAirports),
        Flight("SGN", IF twoAirports THEN "XYZ" ELSE "sgn", 0, ~twoAirports)>>,
      NoRows,
      <<Booking(1, s1, twoAirports), Booking(1, "active", twoAirports),
        Booking(IF twoAirports THEN 2 ELSE 1, "active", twoAirports)>>,
      NoPassengers, NoRows, NoPayments)

TwoAircraft(vnd) == <<WithReferences(Flight("SGN", "HAN", 0, vnd), "big"),
                      WithReferences(Flight("SGN", "HAN", 0, ~vnd), "small")>>
AllSeats == {<<1, 1>>, <<1, 2>>, <<2, 2>>}
Taken(b, status) == [status |-> IF b = Null THEN "AVAILABLE" ELSE status, booking |-> b]

\* Any seat with any booking of its flight, whatever the booking's status.
SeatsWithoutPassengers ==
  \E s1 \in Tickets, b1 \in {Null, 1}, b2 \in {Null, 1, 2} :
    /\ b1 = b2 => b1 = Null
    /\ Release("ContractFlightSeats", {"SGN", "HAN"}, TwoAircraft(FALSE),
         [seat \in AllSeats |->
            Taken(CASE seat = <<1, 1>> -> b1 [] seat = <<1, 2>> -> b2 [] OTHER -> 3, "BOOKED")],
         <<Booking(1, s1, TRUE), Booking(1, "cancelled", TRUE), Booking(2, "active", TRUE)>>,
         NoPassengers, NoRows, NoPayments)

Passenger(place, class, price) == [place |-> place, class |-> class, price |-> price]

\* A party of two, a booking that let its seat go or never had one, and a hold.
UnpricedPassengers ==
  \E vnd \in BOOLEAN, s1 \in {"HELD", "CONFIRMED", "CANCELLED", "EXPIRED"}, old \in {Null, 2} :
    Release("AddBookingHoldExpiryIndex", {"SGN", "HAN"}, TwoAircraft(vnd),
      [seat \in AllSeats |->
         IF seat[1] = 2 THEN Taken(3, "HELD")
         ELSE IF s1 \in {"HELD", "CONFIRMED"} THEN Taken(1, IF s1 = "HELD" THEN "HELD" ELSE "BOOKED")
         ELSE Taken(Null, "")],
      <<Booking(1, s1, TRUE), Booking(1, "CANCELLED", TRUE), Booking(2, "HELD", TRUE)>>,
      << <<Passenger(1, Null, 0), Passenger(2, Null, 0)>>, <<Passenger(old, Null, 0)>>,
         <<Passenger(2, Null, 0)>> >>,
      NoRows, NoPayments)

\* Payments under way, owed back or made.
UnreconciledPayments ==
  \E p1, p3 \in {"NONE", "PROCESSING", "SUCCEEDED", "REFUND_PENDING"} :
    Release("CreateIdempotencyKeys", {"SGN", "HAN"}, TwoAircraft(TRUE),
      [seat \in AllSeats |-> IF seat[1] = 2 THEN Taken(3, "HELD") ELSE Taken(Null, "")],
      <<Booking(1, "CANCELLED", TRUE), Booking(1, "EXPIRED", TRUE), Booking(2, "HELD", TRUE)>>,
      << <<Passenger(2, "ECONOMY", 3)>>, <<Passenger(2, "ECONOMY", 3)>>, <<Passenger(2, "ECONOMY", 4)>> >>,
      [fare \in {<<1, "ECONOMY">>, <<1, "BUSINESS">>, <<2, "ECONOMY">>} |-> 2 + fare[1]],
      <<p1, "NONE", p3>>)

\* Any of these databases; all of them are such as Init allows.
MCInit ==
  /\ TextFlights \/ SeatsWithoutPassengers \/ UnpricedPassengers \/ UnreconciledPayments
  /\ Init

FairSpec == MCInit /\ [][Next]_vars /\ Fairness
===============================================================================
