----------------------------- MODULE BookingRules -----------------------------
(***************************************************************************)
(* The domain the booking modules share: flights and their seats, the      *)
(* lifecycle statuses, and the pure rules both the SQL conditions and the  *)
(* TypeScript helpers state (booking-lifecycle.ts).                        *)
(*                                                                         *)
(* Time is a count of ticks.  A seat is its place in the global lock order *)
(* (flight, row, letter), so comparing two seats compares their places.    *)
(***************************************************************************)
EXTENDS Integers, FiniteSets, FlightRules

CONSTANTS
  Flights,             \* flight ids
  Seats,               \* the flight_seats rows, as places in the lock order
  Bookings,            \* booking ids a run may draw
  FlightOf,            \* the flight of each seat
  ClassOf,             \* the fare class of each seat
  DepartureAt,         \* departure instant of each flight
  MaxPassengers,       \* MAX_PASSENGERS
  HoldDuration,        \* HOLD_DURATION_MS
  CancellationWindow,  \* CANCELLATION_WINDOW_MS
  NoBooking,           \* flight_seats.booking_id IS NULL
  NoSeat               \* a position the booking's party does not use

ASSUME SeatsAssumption ==
  /\ Seats \subseteq Nat
  /\ NoSeat \notin Seats
  /\ NoBooking \notin Bookings

ASSUME FlightsAssumption ==
  /\ FlightOf \in [Seats -> Flights]
  /\ DepartureAt \in [Flights -> Nat]
  /\ Flights # {}

ASSUME LimitsAssumption ==
  /\ MaxPassengers \in Nat \ {0}
  /\ HoldDuration \in Nat
  /\ CancellationWindow \in Nat

FareClasses == {ClassOf[s] : s \in Seats}
Positions == 1..MaxPassengers

BookingStatuses == {"NONE", "HELD", "CONFIRMED", "CANCELLED", "EXPIRED"}
SeatStatuses == {"AVAILABLE", "HELD", "BOOKED"}

\* The statuses in which a booking occupies its seats.
ActiveStatuses == {"HELD", "CONFIRMED"}

-------------------------------------------------------------------------------
(* Bookings *)

\* Mutant of IsHoldLapsed: its boundary is not that of the SQL conditions.
IsHoldPast(deadline, t) == deadline < t

IsHoldLapsed(deadline, t) == deadline <= t

EffectiveBookingStatus(stored, deadline, t) ==
  IF stored = "HELD" /\ IsHoldLapsed(deadline, t) THEN "EXPIRED" ELSE stored

IsCancellationWindowOpen(departure, t) == departure - CancellationWindow > t

\* The condition both cancel statements repeat in SQL.
Cancellable(stored, deadline, departure, t) ==
  \/ stored = "CONFIRMED" /\ IsCancellationWindowOpen(departure, t)
  \/ stored = "HELD" /\ deadline > t

\* confirmHold's condition.
Confirmable(stored, deadline, t) == stored = "HELD" /\ deadline > t

\* Mutant of DueForExpiry: the deadline's own instant is missed.
DueAfterDeadline(stored, deadline, t) == stored = "HELD" /\ deadline < t

\* The sweep's condition.
DueForExpiry(stored, deadline, t) == stored = "HELD" /\ deadline <= t

\* Why a cancel matched no row.
ClassifyNotCancelled(stored, deadline, departure, t) ==
  LET effective == EffectiveBookingStatus(stored, deadline, t)
  IN  CASE effective = "CANCELLED" -> "already-cancelled"
        [] effective = "EXPIRED" -> "expired"
        [] effective = "CONFIRMED" /\ ~IsCancellationWindowOpen(departure, t) ->
             "cancellation-window-closed"
        [] OTHER -> "threw"

-------------------------------------------------------------------------------
(* Parties: the seat of each passenger, position by position *)

SeatsOf(party) == {party[i] : i \in Positions} \ {NoSeat}

\* A validated request or an auto hold's answer: 1 to MaxPassengers passengers
\* in the first positions, one distinct seat each.
IsParty(party) ==
  /\ party \in [Positions -> Seats \cup {NoSeat}]
  /\ party[1] # NoSeat
  /\ \A i, j \in Positions : i < j /\ party[i] = NoSeat => party[j] = NoSeat
  /\ \A i, j \in Positions : i # j /\ party[i] # NoSeat => party[i] # party[j]

\* The auto hold pairs passengers and seats front to back.
FrontToBack(party) ==
  \A i, j \in Positions : i < j /\ party[j] # NoSeat => party[i] < party[j]

NoParty == [i \in Positions |-> NoSeat]
===============================================================================
