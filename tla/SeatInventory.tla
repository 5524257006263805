---------------------------- MODULE SeatInventory ----------------------------
(***************************************************************************)
(* What the booking transactions promise together: bookings, the seat      *)
(* inventory and the passengers' display copy of their seats, one action   *)
(* per transaction.  BookingTransactions shows statement by statement that *)
(* the code under READ COMMITTED implements this.                          *)
(*                                                                         *)
(* Every operation decides at an instant t its process read from the clock *)
(* some time before its writes became visible, so t may be any instant up  *)
(* to now.  Refused calls change nothing and are stuttering steps.  A call *)
(* out of its caller's scope reads the booking as missing: also no change. *)
(***************************************************************************)
EXTENDS BookingRules

CONSTANT MaxTime  \* bound on the clock

ASSUME MaxTimeAssumption == MaxTime \in Nat

VARIABLES
  now,            \* the wall clock
  flightStatus,   \* flights.status
  status,         \* bookings.status, "NONE" before the booking is drawn
  flightId,       \* bookings.flight_id
  holdExpiresAt,  \* bookings.hold_expires_at
  paxSeat,        \* booking_passengers.seat_row/seat_letter, by position
  paxClass,       \* booking_passengers.fare_class, the snapshot priced at hold time
  seatStatus,     \* flight_seats.status
  seatBooking     \* flight_seats.booking_id

bookingVars == <<status, flightId, holdExpiresAt, paxSeat, paxClass>>
seatVars == <<seatStatus, seatBooking>>
vars == <<now, flightStatus, bookingVars, seatVars>>

HeldBy(b) == {s \in Seats : seatBooking[s] = b}

NoClass == "none"

-------------------------------------------------------------------------------

Init ==
  /\ now = 0
  /\ flightStatus = [f \in Flights |-> "SCHEDULED"]
  /\ status = [b \in Bookings |-> "NONE"]
  /\ flightId = [b \in Bookings |-> CHOOSE f \in Flights : TRUE]
  /\ holdExpiresAt = [b \in Bookings |-> 0]
  /\ paxSeat = [b \in Bookings |-> NoParty]
  /\ paxClass = [b \in Bookings |-> [i \in Positions |-> NoClass]]
  /\ seatStatus = [s \in Seats |-> "AVAILABLE"]
  /\ seatBooking = [s \in Seats |-> NoBooking]

Tick ==
  /\ now < MaxTime
  /\ now' = now + 1
  /\ UNCHANGED <<flightStatus, bookingVars, seatVars>>

\* Compare-and-set on the stored status, decided on an earlier read.
OpenFlight(f, t) ==
  /\ CanOpen(flightStatus[f], DepartureAt[f], t)
  /\ flightStatus' = [flightStatus EXCEPT ![f] = "OPEN"]
  /\ UNCHANGED <<now, bookingVars, seatVars>>

-------------------------------------------------------------------------------
(* Holding seats: createBooking's transaction *)

\* The seats become HELD for b and b is inserted with its passengers.
StoreHold(b, f, party, t) ==
  /\ status' = [status EXCEPT ![b] = "HELD"]
  /\ flightId' = [flightId EXCEPT ![b] = f]
  /\ holdExpiresAt' = [holdExpiresAt EXCEPT ![b] = t + HoldDuration]
  /\ paxSeat' = [paxSeat EXCEPT ![b] = party]
  /\ paxClass' = [paxClass EXCEPT ![b] =
       [i \in Positions |-> IF party[i] = NoSeat THEN NoClass ELSE ClassOf[party[i]]]]
  /\ seatStatus' = [s \in Seats |-> IF s \in SeatsOf(party) THEN "HELD" ELSE seatStatus[s]]
  /\ seatBooking' = [s \in Seats |-> IF s \in SeatsOf(party) THEN b ELSE seatBooking[s]]
  /\ UNCHANGED <<now, flightStatus>>

\* Mutant of CanHold: seats of any flight.
CanHoldAnywhere(b, f, party, t) ==
  /\ status[b] = "NONE"
  /\ OnSaleSql(flightStatus[f], DepartureAt[f], t)
  /\ \A s \in SeatsOf(party) : seatStatus[s] = "AVAILABLE"

\* All the requested seats, or none.
CanHold(b, f, party, t) ==
  /\ status[b] = "NONE"
  /\ OnSaleSql(flightStatus[f], DepartureAt[f], t)
  /\ \A s \in SeatsOf(party) : FlightOf[s] = f /\ seatStatus[s] = "AVAILABLE"

HoldChosenSeats(b, f, party, t) ==
  /\ CanHold(b, f, party, t)
  /\ StoreHold(b, f, party, t)

\* The lowest free seats of one class among those nobody is locking right
\* now: any free seats of the class, handed out front to back.
HoldAutoSeats(b, f, party, t) ==
  /\ CanHold(b, f, party, t)
  /\ FrontToBack(party)
  /\ \E c \in FareClasses : \A s \in SeatsOf(party) : ClassOf[s] = c
  /\ StoreHold(b, f, party, t)

-------------------------------------------------------------------------------
(* Ending and confirming a booking *)

ReleaseSeatsOf(ended) ==
  /\ seatStatus' =
       [s \in Seats |-> IF seatBooking[s] \in ended THEN "AVAILABLE" ELSE seatStatus[s]]
  /\ seatBooking' =
       [s \in Seats |-> IF seatBooking[s] \in ended THEN NoBooking ELSE seatBooking[s]]

\* Mutant of ConfirmHold: the seats get the booking's status.
ConfirmHoldMislabelled(b, t) ==
  /\ Confirmable(status[b], holdExpiresAt[b], t)
  /\ status' = [status EXCEPT ![b] = "CONFIRMED"]
  /\ seatStatus' = [s \in Seats |-> IF seatBooking[s] = b THEN "CONFIRMED" ELSE seatStatus[s]]
  /\ UNCHANGED <<now, flightStatus, flightId, holdExpiresAt, paxSeat, paxClass, seatBooking>>

\* confirmHold, in phase 3 of a payment.
ConfirmHold(b, t) ==
  /\ Confirmable(status[b], holdExpiresAt[b], t)
  /\ status' = [status EXCEPT ![b] = "CONFIRMED"]
  /\ seatStatus' = [s \in Seats |-> IF seatBooking[s] = b THEN "BOOKED" ELSE seatStatus[s]]
  /\ UNCHANGED <<now, flightStatus, flightId, holdExpiresAt, paxSeat, paxClass, seatBooking>>

\* Mutant of Cancel: the seats stay with the cancelled booking.
CancelKeepingSeats(b, t) ==
  /\ Cancellable(status[b], holdExpiresAt[b], DepartureAt[flightId[b]], t)
  /\ status' = [status EXCEPT ![b] = "CANCELLED"]
  /\ UNCHANGED <<now, flightStatus, flightId, holdExpiresAt, paxSeat, paxClass, seatVars>>

Cancel(b, t) ==
  /\ Cancellable(status[b], holdExpiresAt[b], DepartureAt[flightId[b]], t)
  /\ status' = [status EXCEPT ![b] = "CANCELLED"]
  /\ ReleaseSeatsOf({b})
  /\ UNCHANGED <<now, flightStatus, flightId, holdExpiresAt, paxSeat, paxClass>>

\* One batch of the expiry job: bookings another transaction has locked are
\* skipped, so any of the due holds may be in it.
ExpireDueHolds(due, t) ==
  /\ due # {}
  /\ \A b \in due : DueForExpiry(status[b], holdExpiresAt[b], t)
  /\ status' = [b \in Bookings |-> IF b \in due THEN "EXPIRED" ELSE status[b]]
  /\ ReleaseSeatsOf(due)
  /\ UNCHANGED <<now, flightStatus, flightId, holdExpiresAt, paxSeat, paxClass>>

-------------------------------------------------------------------------------
(* Changing one passenger's seat *)

\* Mutant of CanChangeSeat: before payment too.
CanChangeHeldSeat(b, i, target, t) ==
  /\ status[b] \in ActiveStatuses
  /\ paxSeat[b][i] \notin {NoSeat, target}
  /\ IsBookable(flightStatus[flightId[b]], DepartureAt[flightId[b]], t)
  /\ FlightOf[target] = flightId[b]
  /\ ClassOf[target] = ClassOf[paxSeat[b][i]]
  /\ seatStatus[target] = "AVAILABLE"

CanChangeSeat(b, i, target, t) ==
  /\ status[b] = "CONFIRMED"
  /\ paxSeat[b][i] \notin {NoSeat, target}
  /\ IsBookable(flightStatus[flightId[b]], DepartureAt[flightId[b]], t)
  /\ FlightOf[target] = flightId[b]
  /\ ClassOf[target] = ClassOf[paxSeat[b][i]]
  /\ seatStatus[target] = "AVAILABLE"

ChangeSeat(b, i, target, t) ==
  /\ CanChangeSeat(b, i, target, t)
  /\ seatStatus' = [seatStatus EXCEPT ![paxSeat[b][i]] = "AVAILABLE", ![target] = "BOOKED"]
  /\ seatBooking' = [seatBooking EXCEPT ![paxSeat[b][i]] = NoBooking, ![target] = b]
  /\ paxSeat' = [paxSeat EXCEPT ![b] = [@ EXCEPT ![i] = target]]
  /\ UNCHANGED <<now, flightStatus, status, flightId, holdExpiresAt, paxClass>>

-------------------------------------------------------------------------------

Instants == 0..now
Parties == {party \in [Positions -> Seats \cup {NoSeat}] : IsParty(party)}

HoldStep ==
  \E b \in Bookings, f \in Flights, t \in Instants : \E party \in Parties :
    \/ HoldChosenSeats(b, f, party, t)
    \/ HoldAutoSeats(b, f, party, t)

ExpirySweep == \E due \in SUBSET Bookings : \E t \in Instants : ExpireDueHolds(due, t)

Next ==
  \/ Tick
  \/ \E f \in Flights, t \in Instants : OpenFlight(f, t)
  \/ HoldStep
  \/ \E b \in Bookings, t \in Instants : ConfirmHold(b, t)
  \/ \E b \in Bookings, t \in Instants : Cancel(b, t)
  \/ ExpirySweep
  \/ \E b \in Bookings, i \in Positions, target \in Seats, t \in Instants :
       ChangeSeat(b, i, target, t)

Spec == Init /\ [][Next]_vars

-------------------------------------------------------------------------------
(* Properties *)

TypeOK ==
  /\ now \in 0..MaxTime
  /\ flightStatus \in [Flights -> StoredFlightStatuses]
  /\ status \in [Bookings -> BookingStatuses]
  /\ flightId \in [Bookings -> Flights]
  /\ holdExpiresAt \in [Bookings -> Nat]
  /\ paxSeat \in [Bookings -> [Positions -> Seats \cup {NoSeat}]]
  /\ paxClass \in [Bookings -> [Positions -> FareClasses \cup {NoClass}]]
  /\ seatStatus \in [Seats -> SeatStatuses]
  /\ seatBooking \in [Seats -> Bookings \cup {NoBooking}]

\* The inventory and the bookings agree (BR-SEAT-01, BR-SEAT-02, BR-BOOK-02):
\* an active booking owns exactly the seats its passengers' display copy
\* names, HELD or BOOKED as the booking is HELD or CONFIRMED, and no seat is
\* owned by a booking that ended or never was.
SeatsMatchBookings ==
  \A s \in Seats, b \in Bookings :
    /\ seatBooking[s] = b <=> status[b] \in ActiveStatuses /\ s \in SeatsOf(paxSeat[b])
    /\ seatBooking[s] = b => seatStatus[s] = (IF status[b] = "HELD" THEN "HELD" ELSE "BOOKED")
    /\ seatBooking[s] = NoBooking <=> seatStatus[s] = "AVAILABLE"

\* Every passenger of an active booking has one seat of their own on the
\* booking's flight (BR-BOOK-01, BR-BOOK-02), through any number of changes.
PartySeatedApart ==
  \A b \in Bookings : status[b] \in ActiveStatuses =>
    /\ IsParty(paxSeat[b])
    /\ \A s \in SeatsOf(paxSeat[b]) : FlightOf[s] = flightId[b]

\* Whatever seat changes follow, a passenger sits in the class whose price
\* was copied at hold time (BR-BOOK-03, BR-BOOK-07).
PricedClassKept ==
  \A b \in Bookings, i \in Positions :
    paxSeat[b][i] # NoSeat => ClassOf[paxSeat[b][i]] = paxClass[b][i]

\* Sales close before departure by more than a hold lasts, so a hold that can
\* still be paid after sales closed (BR-PAY-06) ends well before take-off:
\* strictly more than SalesCutoff - HoldDuration ahead of it.
HoldEndsBeforeDeparture ==
  \A b \in Bookings : status[b] = "HELD" =>
    holdExpiresAt[b] < DepartureAt[flightId[b]] - (SalesCutoff - HoldDuration)

\* A HELD booking's seats never change.  confirmHold and the expiry sweep
\* find seats in a snapshot that may be older than their lock on the booking;
\* this is what their comments say makes that safe.
HeldPartyFixed ==
  [][\A b \in Bookings : status[b] = "HELD" =>
       /\ paxSeat'[b] = paxSeat[b]
       /\ status'[b] \in ActiveStatuses => HeldBy(b)' = HeldBy(b)]_vars

\* A hold whose deadline passed does not stay HELD: it is paid, cancelled or
\* swept, and its seats come back (BR-BOOK-04).
LapsedHoldsEnd ==
  \A b \in Bookings :
    (status[b] = "HELD" /\ IsHoldLapsed(holdExpiresAt[b], now)) ~> (status[b] # "HELD")
===============================================================================
