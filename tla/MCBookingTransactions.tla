----------------------- MODULE MCBookingTransactions -----------------------
(* A flight with two economy seats and a business seat, requests and an      *)
(* expiry job.  Holds last one tick, sales close two ticks before departure, *)
(* a confirmed booking's cancellation three.  Flight f1 leaves late enough   *)
(* for a booking to be cancelled that was paid as its hold ended; f2 leaves  *)
(* sooner.                                                                   *)
EXTENDS BookingTransactions, TLC

CONSTANTS f1, f2, b1, b2, Economy, Business, Changers, Enders

MCSeats == 1..3
MCFlightOf == [s \in Seats |-> CHOOSE f \in Flights : TRUE]
MCClassOf == [s \in Seats |-> IF s = 3 THEN Business ELSE Economy]
MCDepartureAt == [f \in Flights |-> IF f = f1 THEN 5 ELSE 4]

Others == Requests \ (Changers \cup Enders)

\* Requests of one kind differ only in name; sound for the runs without
\* liveness.  While one kind runs all of the others are done, so the kinds may
\* be permuted together.
TwinIn(S) == CHOOSE twin \in [Others -> S] : {twin[o] : o \in Others} = S
MovedAlong(p, S) ==
  [q \in S |-> LET o == CHOOSE o \in Others : TwinIn(S)[o] = q IN TwinIn(S)[p[o]]]
SymmetricRequests ==
  {p @@ MovedAlong(p, Changers) @@ MovedAlong(p, Enders) : p \in Permutations(Others)}

MCRequestKinds == [p \in Requests |->
  CASE p \in Changers -> {"hold", "cancel", "change"}
    [] p \in Enders -> {"confirm", "cancel", "change"}
    [] OTHER -> {"hold", "auto", "confirm", "cancel"}]
SweepKinds == [p \in Requests |-> {"hold", "confirm", "cancel"}]
AnyEnd == [p \in Requests |-> {"confirm", "cancel", "change"}]

Seat1 == [NoParty EXCEPT ![1] = 1]
Seat2 == [NoParty EXCEPT ![1] = 2]
BothEconomySeats == [NoParty EXCEPT ![1] = 1, ![2] = 2]

NothingBegun ==
  /\ bookingLock = [b \in Bookings |-> Nobody]
  /\ seatLock = [s \in Seats |-> Nobody]
  /\ req = [p \in Txs |-> NoRequest]
  /\ rows = [p \in Txs |-> {}]
  /\ outcome = [p \in Txs |-> "none"]

\* A flight on sale and booking b1 stored with a hold that ends at instant 1.
StartWith(stored, party) ==
  /\ now = 0
  /\ flightStatus = [f \in Flights |-> "OPEN"]
  /\ status = [b \in Bookings |-> IF b = b1 THEN stored ELSE "NONE"]
  /\ flightId = [b \in Bookings |-> FlightOf[party[1]]]
  /\ holdExpiresAt = [b \in Bookings |-> IF b = b1 THEN 1 ELSE 0]
  /\ paxSeat = [b \in Bookings |-> IF b = b1 THEN party ELSE NoParty]
  /\ paxClass = [b \in Bookings |-> [i \in Positions |->
       IF paxSeat[b][i] # NoSeat THEN Economy ELSE Inventory!NoClass]]
  /\ seatBooking = [s \in Seats |-> IF s \in SeatsOf(party) THEN b1 ELSE NoBooking]
  /\ seatStatus = [s \in Seats |->
       CASE s \notin SeatsOf(party) -> "AVAILABLE"
         [] s \in SeatsOf(party) -> IF stored = "HELD" THEN "HELD" ELSE "BOOKED"]
  /\ NothingBegun

AllIdle == pc = [p \in Txs |-> "idle"]

\* The transactions of comers come, and no other.
Only(comers) == pc = [p \in Txs |-> IF p \in comers THEN "idle" ELSE "done"]

HeldSpec == StartWith("HELD", Seat1) /\ AllIdle /\ [][Next]_vars
FairHeldSpec == HeldSpec /\ Fairness

\* Two requests and no job on a flight still to open, three when b1 holds both
\* economy seats, three that change a confirmed b1's seat, cancel it and hold
\* what it leaves, or three that pay, cancel and change a held b1 in any mix.
HoldsSpec ==
  /\ \/ /\ Inventory!Init /\ NothingBegun
        /\ \E out \in Others : Only(Others \ {out})
     \/ StartWith("HELD", BothEconomySeats) /\ Only(Others \cup Sweepers)
     \/ StartWith("CONFIRMED", Seat2) /\ Only(Changers)
     \/ StartWith("HELD", Seat1) /\ Only(Enders \cup Sweepers)
  /\ [][Next]_vars
===============================================================================
