------------------------- MODULE SeatInventoryProofs -------------------------
(***************************************************************************)
(* Proofs about SeatInventory, for every number of flights, seats,         *)
(* bookings and passengers.                                                *)
(***************************************************************************)
EXTENDS SeatInventory, TLAPS

-------------------------------------------------------------------------------
(* Type correctness *)

LEMMA PositionOne == 1 \in Positions
  BY LimitsAssumption DEF Positions

LEMMA InitTypeOK == Init => TypeOK
  BY FlightsAssumption, MaxTimeAssumption
  DEF Init, TypeOK, StoredFlightStatuses, BookingStatuses, SeatStatuses, NoParty

\* A hold stores values of the right type.
LEMMA StoreHoldTypeOK ==
  ASSUME TypeOK, NEW b \in Bookings, NEW f \in Flights, NEW t \in Instants,
         NEW party \in Parties, StoreHold(b, f, party, t)
  PROVE  TypeOK'
  <1>1. t \in Nat /\ t + HoldDuration \in Nat
    BY LimitsAssumption, MaxTimeAssumption DEF Instants, TypeOK
  <1>2. party \in [Positions -> Seats \cup {NoSeat}]
    BY DEF Parties
  <1>3. [i \in Positions |-> IF party[i] = NoSeat THEN NoClass ELSE ClassOf[party[i]]]
          \in [Positions -> FareClasses \cup {NoClass}]
    BY <1>2 DEF FareClasses
  <1>4. holdExpiresAt' \in [Bookings -> Nat]
    BY <1>1 DEF StoreHold, TypeOK
  <1>5. paxSeat' \in [Bookings -> [Positions -> Seats \cup {NoSeat}]]
    BY <1>2 DEF StoreHold, TypeOK
  <1>6. paxClass' \in [Bookings -> [Positions -> FareClasses \cup {NoClass}]]
    BY <1>3 DEF StoreHold, TypeOK
  <1>7. status' \in [Bookings -> BookingStatuses] /\ flightId' \in [Bookings -> Flights]
    BY DEF StoreHold, TypeOK, BookingStatuses
  <1>8. seatStatus' \in [Seats -> SeatStatuses]
        /\ seatBooking' \in [Seats -> Bookings \cup {NoBooking}]
    BY DEF StoreHold, TypeOK, SeatStatuses
  <1>9. now' \in 0..MaxTime /\ flightStatus' \in [Flights -> StoredFlightStatuses]
    BY DEF StoreHold, TypeOK
  <1> QED
    BY <1>4, <1>5, <1>6, <1>7, <1>8, <1>9 DEF TypeOK

LEMMA NextTypeOK == TypeOK /\ [Next]_vars => TypeOK'
  <1> SUFFICES ASSUME TypeOK, [Next]_vars PROVE TypeOK'
    OBVIOUS
  <1>1. CASE Tick
    BY <1>1, MaxTimeAssumption DEF Tick, TypeOK, bookingVars, seatVars
  <1>2. ASSUME NEW f \in Flights, NEW t \in Instants, OpenFlight(f, t) PROVE TypeOK'
    BY <1>2 DEF OpenFlight, TypeOK, StoredFlightStatuses, bookingVars, seatVars
  <1>3. CASE HoldStep
    BY <1>3, StoreHoldTypeOK DEF HoldStep, HoldChosenSeats, HoldAutoSeats
  <1>4. ASSUME NEW b \in Bookings, NEW t \in Instants, ConfirmHold(b, t) PROVE TypeOK'
    BY <1>4 DEF ConfirmHold, TypeOK, BookingStatuses, SeatStatuses
  <1>5. ASSUME NEW b \in Bookings, NEW t \in Instants, Cancel(b, t) PROVE TypeOK'
    BY <1>5 DEF Cancel, ReleaseSeatsOf, TypeOK, BookingStatuses, SeatStatuses
  <1>6. CASE ExpirySweep
    BY <1>6 DEF ExpirySweep, ExpireDueHolds, ReleaseSeatsOf, TypeOK, BookingStatuses, SeatStatuses
  <1>7. ASSUME NEW b \in Bookings, NEW i \in Positions, NEW target \in Seats,
               NEW t \in Instants, ChangeSeat(b, i, target, t)
        PROVE  TypeOK'
    <2>1. paxSeat[b][i] \in Seats
      BY <1>7 DEF ChangeSeat, CanChangeSeat, TypeOK
    <2>2. seatStatus' \in [Seats -> SeatStatuses]
          /\ seatBooking' \in [Seats -> Bookings \cup {NoBooking}]
      BY <1>7, <2>1 DEF ChangeSeat, TypeOK, SeatStatuses
    <2>3. [paxSeat[b] EXCEPT ![i] = target] \in [Positions -> Seats \cup {NoSeat}]
      BY DEF TypeOK
    <2>4. paxSeat' \in [Bookings -> [Positions -> Seats \cup {NoSeat}]]
      BY <1>7, <2>3 DEF ChangeSeat, TypeOK
    <2> QED
      BY <1>7, <2>2, <2>4 DEF ChangeSeat, TypeOK
  <1>8. CASE UNCHANGED vars
    BY <1>8 DEF vars, bookingVars, seatVars, TypeOK
  <1> QED
    BY <1>1, <1>2, <1>3, <1>4, <1>5, <1>6, <1>7, <1>8 DEF Next

\* Every state the bookings, the inventory and the clock reach is well typed.
THEOREM TypeCorrect == Spec => []TypeOK
  <1>1. Init => TypeOK
    BY InitTypeOK
  <1>2. TypeOK /\ [Next]_vars => TypeOK'
    BY NextTypeOK
  <1> QED
    BY <1>1, <1>2, PTL DEF Spec
-------------------------------------------------------------------------------
(* The inventory agrees with the bookings *)

\* The inductive invariant: the agreement itself needs the party's seats to be
\* distinct, or moving one passenger would leave another on the freed seat;
\* and it needs them typed.
InventoryInv ==
  /\ TypeOK
  /\ SeatsMatchBookings
  /\ PartySeatedApart
  /\ PricedClassKept

LEMMA InitInventoryInv == Init => InventoryInv
  <1> SUFFICES ASSUME Init PROVE InventoryInv
    OBVIOUS
  <1>1. TypeOK
    BY InitTypeOK
  <1>2. SeatsMatchBookings
    BY SeatsAssumption DEF Init, SeatsMatchBookings, ActiveStatuses
  <1>3. PartySeatedApart
    BY DEF Init, PartySeatedApart, ActiveStatuses
  <1>4. PricedClassKept
    BY DEF Init, PricedClassKept, NoParty
  <1> QED
    BY <1>1, <1>2, <1>3, <1>4 DEF InventoryInv

\* A hold hands a drawn booking seats nobody owns.
LEMMA HoldInventoryInv ==
  ASSUME InventoryInv, TypeOK', NEW b \in Bookings, NEW f \in Flights,
         NEW t \in Instants, NEW party \in Parties,
         CanHold(b, f, party, t), StoreHold(b, f, party, t)
  PROVE  InventoryInv'
  <1> USE DEF InventoryInv, ActiveStatuses
  <1>1. IsParty(party) /\ party \in [Positions -> Seats \cup {NoSeat}]
    BY DEF Parties
  <1>2. SeatsOf(party) \subseteq Seats
    BY <1>1 DEF SeatsOf
  <1>3. /\ status[b] = "NONE"
        /\ \A s \in SeatsOf(party) : FlightOf[s] = f /\ seatBooking[s] = NoBooking
    BY <1>2, SeatsAssumption DEF CanHold, SeatsMatchBookings
  <1>4. /\ status'[b] = "HELD" /\ paxSeat'[b] = party /\ flightId'[b] = f
        /\ \A c \in Bookings \ {b} : /\ status'[c] = status[c]
                                     /\ paxSeat'[c] = paxSeat[c]
                                     /\ flightId'[c] = flightId[c]
                                     /\ paxClass'[c] = paxClass[c]
    BY DEF StoreHold, TypeOK
  <1>5. \A s \in Seats :
          /\ s \in SeatsOf(party) => seatBooking'[s] = b /\ seatStatus'[s] = "HELD"
          /\ s \notin SeatsOf(party) =>
               seatBooking'[s] = seatBooking[s] /\ seatStatus'[s] = seatStatus[s]
    BY DEF StoreHold
  <1>6. SeatsMatchBookings'
    <2> SUFFICES ASSUME NEW s \in Seats, NEW c \in Bookings
                 PROVE
                   /\ seatBooking'[s] = c <=>
                        status'[c] \in ActiveStatuses /\ s \in SeatsOf(paxSeat'[c])
                   /\ seatBooking'[s] = c =>
                        seatStatus'[s] = (IF status'[c] = "HELD" THEN "HELD" ELSE "BOOKED")
                   /\ seatBooking'[s] = NoBooking <=> seatStatus'[s] = "AVAILABLE"
      BY DEF SeatsMatchBookings, SeatsOf
    <2>1. CASE c = b
      BY <2>1, <1>3, <1>4, <1>5, SeatsAssumption DEF SeatsMatchBookings
    <2>2. CASE c # b
      BY <2>2, <1>3, <1>4, <1>5, SeatsAssumption DEF SeatsMatchBookings
    <2> QED
      BY <2>1, <2>2
  <1>7. PartySeatedApart'
    <2> SUFFICES ASSUME NEW c \in Bookings, status'[c] \in ActiveStatuses
                 PROVE  /\ IsParty(paxSeat'[c])
                        /\ \A s \in SeatsOf(paxSeat'[c]) : FlightOf[s] = flightId'[c]
      BY DEF PartySeatedApart, IsParty, SeatsOf
    <2> QED
      BY <1>1, <1>3, <1>4 DEF PartySeatedApart
  <1>8. PricedClassKept'
    BY <1>1, <1>4 DEF PricedClassKept, StoreHold, TypeOK
  <1> QED
    BY <1>6, <1>7, <1>8

\* Ending a set of active bookings gives back exactly their seats.
LEMMA ReleaseInventoryInv ==
  ASSUME InventoryInv, TypeOK', NEW ended \in SUBSET Bookings, NEW final \in BookingStatuses,
         final \notin ActiveStatuses,
         \A b \in Bookings : status'[b] = IF b \in ended THEN final ELSE status[b],
         ReleaseSeatsOf(ended), UNCHANGED <<flightId, paxSeat, paxClass>>
  PROVE  InventoryInv'
  <1> USE DEF InventoryInv, ActiveStatuses
  <1>1. SeatsMatchBookings'
    BY SeatsAssumption DEF SeatsMatchBookings, ReleaseSeatsOf, SeatsOf, TypeOK
  <1>2. PartySeatedApart'
    BY DEF PartySeatedApart, IsParty, SeatsOf
  <1>3. PricedClassKept'
    BY DEF PricedClassKept
  <1> QED
    BY <1>1, <1>2, <1>3

\* Moving passenger i of a CONFIRMED booking to a free seat of the class.
LEMMA ChangeSeatInventoryInv ==
  ASSUME InventoryInv, TypeOK', NEW b \in Bookings, NEW i \in Positions,
         NEW target \in Seats, NEW t \in Instants, ChangeSeat(b, i, target, t)
  PROVE  InventoryInv'
  <1> USE DEF InventoryInv, ActiveStatuses
  <1> DEFINE own == paxSeat[b][i]
             moved == [paxSeat[b] EXCEPT ![i] = target]
  <1>1. /\ status[b] = "CONFIRMED" /\ own \in Seats /\ own # target
        /\ FlightOf[target] = flightId[b] /\ ClassOf[target] = ClassOf[own]
        /\ seatStatus[target] = "AVAILABLE"
    BY DEF ChangeSeat, CanChangeSeat, TypeOK
  <1>2. IsParty(paxSeat[b]) /\ paxSeat[b] \in [Positions -> Seats \cup {NoSeat}]
    BY <1>1 DEF PartySeatedApart, TypeOK
  <1>3. target \notin SeatsOf(paxSeat[b]) /\ own \in SeatsOf(paxSeat[b])
        /\ seatBooking[target] = NoBooking
    BY <1>1, SeatsAssumption DEF SeatsMatchBookings, SeatsOf
  <1>4. /\ paxSeat'[b] = moved
        /\ \A c \in Bookings \ {b} : paxSeat'[c] = paxSeat[c]
        /\ status' = status /\ flightId' = flightId /\ paxClass' = paxClass
    BY DEF ChangeSeat, TypeOK
  <1>5. \A j \in Positions : moved[j] = IF j = i THEN target ELSE paxSeat[b][j]
    BY <1>2
  <1>6. \A j \in Positions : j # i => paxSeat[b][j] # own /\ paxSeat[b][j] # target
    BY <1>1, <1>2, <1>3, SeatsAssumption DEF IsParty, SeatsOf
  <1>7. SeatsOf(moved) = (SeatsOf(paxSeat[b]) \ {own}) \cup {target}
    BY <1>1, <1>5, <1>6, SeatsAssumption DEF SeatsOf
  <1>8. \A s \in Seats :
          /\ seatBooking'[s] = IF s = target THEN b
                               ELSE IF s = own THEN NoBooking ELSE seatBooking[s]
          /\ seatStatus'[s] = IF s = target THEN "BOOKED"
                              ELSE IF s = own THEN "AVAILABLE" ELSE seatStatus[s]
    BY <1>1 DEF ChangeSeat, TypeOK
  <1>9. seatBooking[own] = b
    BY <1>1, <1>3 DEF SeatsMatchBookings
  <1>10. SeatsMatchBookings'
    <2> SUFFICES ASSUME NEW s \in Seats, NEW c \in Bookings
                 PROVE
                   /\ seatBooking'[s] = c <=>
                        status'[c] \in ActiveStatuses /\ s \in SeatsOf(paxSeat'[c])
                   /\ seatBooking'[s] = c =>
                        seatStatus'[s] = (IF status'[c] = "HELD" THEN "HELD" ELSE "BOOKED")
                   /\ seatBooking'[s] = NoBooking <=> seatStatus'[s] = "AVAILABLE"
      BY DEF SeatsMatchBookings, SeatsOf
    <2> HIDE DEF own, moved
    <2>1. CASE c = b
      BY <2>1, <1>1, <1>3, <1>4, <1>7, <1>8, <1>9, SeatsAssumption DEF SeatsMatchBookings
    <2>2. CASE c # b
      <3>1. status'[c] = status[c] /\ SeatsOf(paxSeat'[c]) = SeatsOf(paxSeat[c])
        BY <2>2, <1>4
      <3>2. seatBooking'[s] = c <=> seatBooking[s] = c
        BY <2>2, <1>3, <1>8, <1>9, SeatsAssumption
      <3>3. seatBooking[s] = c => seatStatus'[s] = seatStatus[s]
        BY <2>2, <1>3, <1>8, <1>9, SeatsAssumption
      <3>4. seatBooking'[s] = NoBooking <=> seatStatus'[s] = "AVAILABLE"
        BY <2>2, <1>8, SeatsAssumption DEF SeatsMatchBookings
      <3> QED
        BY <3>1, <3>2, <3>3, <3>4 DEF SeatsMatchBookings
    <2> QED
      BY <2>1, <2>2
  <1>11. IsParty(moved)
    <2>1. moved \in [Positions -> Seats \cup {NoSeat}]
      BY <1>2
    <2>2. \A j \in Positions : moved[j] = NoSeat <=> paxSeat[b][j] = NoSeat
      BY <1>1, <1>5, SeatsAssumption
    <2>3. \A j, k \in Positions : j # k /\ moved[j] # NoSeat => moved[j] # moved[k]
      BY <1>2, <1>5, <1>6, <2>2 DEF IsParty
    <2> QED
      BY <1>2, <2>1, <2>2, <2>3, PositionOne DEF IsParty
  <1>12. PartySeatedApart'
    <2> SUFFICES ASSUME NEW c \in Bookings, status'[c] \in ActiveStatuses
                 PROVE  /\ IsParty(paxSeat'[c])
                        /\ \A s \in SeatsOf(paxSeat'[c]) : FlightOf[s] = flightId'[c]
      BY DEF PartySeatedApart, IsParty, SeatsOf
    <2> HIDE DEF own, moved
    <2> QED
      BY <1>1, <1>4, <1>7, <1>11 DEF PartySeatedApart
  <1>13. PricedClassKept'
    <2> SUFFICES ASSUME NEW c \in Bookings, NEW j \in Positions, paxSeat'[c][j] # NoSeat
                 PROVE  ClassOf[paxSeat'[c][j]] = paxClass'[c][j]
      BY DEF PricedClassKept
    <2>1. own # NoSeat
      BY <1>1, SeatsAssumption
    <2>2. ClassOf[own] = paxClass[b][i]
      BY <2>1 DEF PricedClassKept
    <2> HIDE DEF own, moved
    <2> QED
      BY <1>1, <1>4, <1>5, <2>2 DEF PricedClassKept
  <1> QED
    BY <1>10, <1>12, <1>13

LEMMA NextInventoryInv == InventoryInv /\ [Next]_vars => InventoryInv'
  <1> SUFFICES ASSUME InventoryInv, [Next]_vars PROVE InventoryInv'
    OBVIOUS
  <1>t. TypeOK'
    BY NextTypeOK DEF InventoryInv
  <1>1. CASE UNCHANGED <<bookingVars, seatVars>>
    BY <1>1, <1>t DEF InventoryInv, bookingVars, seatVars, SeatsMatchBookings,
                      PartySeatedApart, PricedClassKept, IsParty, SeatsOf
  <1>2. CASE HoldStep
    BY <1>2, <1>t, HoldInventoryInv DEF HoldStep, HoldChosenSeats, HoldAutoSeats
  <1>3. ASSUME NEW b \in Bookings, NEW t \in Instants, ConfirmHold(b, t) PROVE InventoryInv'
    <2>1. status[b] = "HELD" /\ status'[b] = "CONFIRMED"
          /\ \A c \in Bookings \ {b} : status'[c] = status[c]
      BY <1>3 DEF ConfirmHold, Confirmable, InventoryInv, TypeOK
    <2>2. SeatsMatchBookings'
      <3>1. /\ seatBooking' = seatBooking /\ paxSeat' = paxSeat /\ flightId' = flightId
            /\ \A s \in Seats :
                 seatStatus'[s] = IF seatBooking[s] = b THEN "BOOKED" ELSE seatStatus[s]
        BY <1>3 DEF ConfirmHold
      <3> QED
        BY <2>1, <3>1, SeatsAssumption
        DEF InventoryInv, SeatsMatchBookings, ActiveStatuses, SeatsOf
    <2>3. PartySeatedApart'
      BY <1>3, <2>1 DEF InventoryInv, PartySeatedApart, ConfirmHold, ActiveStatuses,
                        IsParty, SeatsOf
    <2>4. PricedClassKept'
      BY <1>3 DEF InventoryInv, PricedClassKept, ConfirmHold
    <2> QED
      BY <1>t, <2>2, <2>3, <2>4 DEF InventoryInv
  <1>4. ASSUME NEW b \in Bookings, NEW t \in Instants, Cancel(b, t) PROVE InventoryInv'
    <2>1. \A c \in Bookings : status'[c] = IF c \in {b} THEN "CANCELLED" ELSE status[c]
      BY <1>4 DEF Cancel, InventoryInv, TypeOK
    <2> QED
      BY <1>4, <1>t, <2>1, ReleaseInventoryInv DEF Cancel, BookingStatuses, ActiveStatuses
  <1>5. CASE ExpirySweep
    <2>1. PICK due \in SUBSET Bookings, t \in Instants : ExpireDueHolds(due, t)
      BY <1>5 DEF ExpirySweep
    <2>2. \A c \in Bookings : status'[c] = IF c \in due THEN "EXPIRED" ELSE status[c]
      BY <2>1 DEF ExpireDueHolds
    <2> QED
      BY <1>t, <2>1, <2>2, ReleaseInventoryInv
      DEF ExpireDueHolds, BookingStatuses, ActiveStatuses
  <1>6. ASSUME NEW b \in Bookings, NEW i \in Positions, NEW target \in Seats,
               NEW t \in Instants, ChangeSeat(b, i, target, t)
        PROVE  InventoryInv'
    BY <1>6, <1>t, ChangeSeatInventoryInv
  <1> QED
    BY <1>1, <1>2, <1>3, <1>4, <1>5, <1>6 DEF Next, Tick, OpenFlight, vars

\* No seat is sold twice, none is left occupied by a booking that ended, and
\* every active booking owns exactly its passengers' seats.
THEOREM InventoryAgrees == Spec => []SeatsMatchBookings
  <1>1. Init => InventoryInv
    BY InitInventoryInv
  <1>2. InventoryInv /\ [Next]_vars => InventoryInv'
    BY NextInventoryInv
  <1>3. InventoryInv => SeatsMatchBookings
    BY DEF InventoryInv
  <1> QED
    BY <1>1, <1>2, <1>3, PTL DEF Spec

\* Passengers keep a seat each, on their flight and in the class they paid for.
THEOREM PartiesKeepTheirSeats == Spec => [](PartySeatedApart /\ PricedClassKept)
  <1>1. Init => InventoryInv
    BY InitInventoryInv
  <1>2. InventoryInv /\ [Next]_vars => InventoryInv'
    BY NextInventoryInv
  <1>3. InventoryInv => PartySeatedApart /\ PricedClassKept
    BY DEF InventoryInv
  <1> QED
    BY <1>1, <1>2, <1>3, PTL DEF Spec

-------------------------------------------------------------------------------
(* Holds end before departure *)

\* Only a hold gives a booking a deadline, and it does so while sales are open.
LEMMA NextHoldEnds ==
  TypeOK /\ HoldEndsBeforeDeparture /\ [Next]_vars => HoldEndsBeforeDeparture'
  <1> SUFFICES ASSUME TypeOK, HoldEndsBeforeDeparture, [Next]_vars,
                      NEW b \in Bookings, status'[b] = "HELD"
               PROVE  holdExpiresAt'[b] < DepartureAt[flightId'[b]] - (SalesCutoff - HoldDuration)
    BY DEF HoldEndsBeforeDeparture
  <1> DEFINE Kept == status[b] = "HELD" /\ holdExpiresAt'[b] = holdExpiresAt[b]
                     /\ flightId'[b] = flightId[b]
  <1>1. ASSUME NEW c \in Bookings, NEW f \in Flights, NEW t \in Instants, NEW party \in Parties,
               CanHold(c, f, party, t), StoreHold(c, f, party, t)
        PROVE  holdExpiresAt'[b] < DepartureAt[flightId'[b]] - (SalesCutoff - HoldDuration)
    <2>1. CASE b = c
      <3>1. DepartureAt[f] - SalesCutoff > t
        BY <1>1 DEF CanHold, OnSaleSql
      <3>2. holdExpiresAt'[b] = t + HoldDuration /\ flightId'[b] = f
        BY <1>1, <2>1 DEF StoreHold, TypeOK
      <3>3. t \in Int /\ DepartureAt[f] \in Int /\ SalesCutoff \in Int /\ HoldDuration \in Int
        BY FlightsAssumption, LimitsAssumption, SalesCutoffAssumption DEF Instants
      <3> QED
        BY <3>1, <3>2, <3>3
    <2>2. CASE b # c
      BY <1>1, <2>2 DEF StoreHold, TypeOK, HoldEndsBeforeDeparture
    <2> QED
      BY <2>1, <2>2
  <1>2. ASSUME NEW c \in Bookings, NEW t \in Instants, ConfirmHold(c, t) \/ Cancel(c, t)
        PROVE  Kept
    BY <1>2 DEF ConfirmHold, Cancel, TypeOK
  <1>3. CASE ExpirySweep
    <2>1. Kept
      BY <1>3 DEF ExpirySweep, ExpireDueHolds, TypeOK
    <2> QED
      BY <2>1 DEF HoldEndsBeforeDeparture
  <1>4. CASE UNCHANGED <<status, flightId, holdExpiresAt>>
    BY <1>4 DEF HoldEndsBeforeDeparture
  <1>5. Kept => holdExpiresAt'[b] < DepartureAt[flightId'[b]] - (SalesCutoff - HoldDuration)
    BY DEF HoldEndsBeforeDeparture
  <1> HIDE DEF Kept
  <1> QED
    BY <1>1, <1>2, <1>3, <1>4, <1>5
    DEF Next, HoldStep, HoldChosenSeats, HoldAutoSeats, Tick, OpenFlight, ChangeSeat,
        vars, bookingVars

\* A hold that can still be paid after sales closed is over before take-off, by more
\* than sales close ahead of it less the duration of a hold, whatever clock reading
\* it was made on.
THEOREM HoldsEndBeforeDeparture == Spec => []HoldEndsBeforeDeparture
  <1>1. Init => TypeOK
    BY InitTypeOK
  <1>2. Init => HoldEndsBeforeDeparture
    BY DEF Init, HoldEndsBeforeDeparture
  <1>3. TypeOK /\ [Next]_vars => TypeOK'
    BY NextTypeOK
  <1> QED
    BY <1>1, <1>2, <1>3, NextHoldEnds, PTL DEF Spec

-------------------------------------------------------------------------------
(* The party of a held booking *)

\* A step leaves the seats of a HELD booking alone unless it ends it.
LEMMA HeldPartyStep ==
  ASSUME InventoryInv, [Next]_vars, NEW b \in Bookings, status[b] = "HELD"
  PROVE  /\ paxSeat'[b] = paxSeat[b]
         /\ status'[b] \in ActiveStatuses => HeldBy(b)' = HeldBy(b)
  <1> DEFINE Fixed == /\ paxSeat'[b] = paxSeat[b]
                      /\ status'[b] \in ActiveStatuses => HeldBy(b)' = HeldBy(b)
  <1>1. CASE HoldStep
    <2>1. PICK c \in Bookings, f \in Flights, t \in Instants, party \in Parties :
            CanHold(c, f, party, t) /\ StoreHold(c, f, party, t)
      BY <1>1 DEF HoldStep, HoldChosenSeats, HoldAutoSeats
    <2>2. c # b
      BY <2>1 DEF CanHold
    <2>3. \A s \in SeatsOf(party) : s \in Seats /\ seatBooking[s] = NoBooking
      BY <2>1 DEF CanHold, InventoryInv, SeatsMatchBookings, SeatsOf, Parties
    <2>4. \A s \in Seats : seatBooking'[s] = b <=> seatBooking[s] = b
      BY <2>1, <2>2, <2>3, SeatsAssumption DEF StoreHold
    <2>5. paxSeat'[b] = paxSeat[b]
      BY <2>1, <2>2 DEF StoreHold, InventoryInv, TypeOK
    <2> QED
      BY <2>4, <2>5 DEF HeldBy
  <1>2. ASSUME NEW c \in Bookings, NEW t \in Instants, ConfirmHold(c, t) PROVE Fixed
    BY <1>2 DEF ConfirmHold, HeldBy
  <1>3. ASSUME NEW c \in Bookings, NEW t \in Instants, Cancel(c, t) PROVE Fixed
    <2>1. paxSeat' = paxSeat
          /\ \A s \in Seats : seatBooking'[s] = IF seatBooking[s] \in {c} THEN NoBooking
                                                ELSE seatBooking[s]
      BY <1>3 DEF Cancel, ReleaseSeatsOf
    <2>2. status'[b] \in ActiveStatuses => b # c
      BY <1>3 DEF Cancel, InventoryInv, TypeOK, ActiveStatuses
    <2> QED
      BY <2>1, <2>2, SeatsAssumption DEF HeldBy
  <1>4. CASE ExpirySweep
    <2>1. PICK due \in SUBSET Bookings, t \in Instants : ExpireDueHolds(due, t)
      BY <1>4 DEF ExpirySweep
    <2>2. paxSeat' = paxSeat
          /\ \A s \in Seats : seatBooking'[s] = IF seatBooking[s] \in due THEN NoBooking
                                                ELSE seatBooking[s]
      BY <2>1 DEF ExpireDueHolds, ReleaseSeatsOf
    <2>3. status'[b] \in ActiveStatuses => b \notin due
      BY <2>1 DEF ExpireDueHolds, ActiveStatuses
    <2> QED
      BY <2>2, <2>3, SeatsAssumption DEF HeldBy
  <1>5. ASSUME NEW c \in Bookings, NEW i \in Positions, NEW target \in Seats,
               NEW t \in Instants, ChangeSeat(c, i, target, t)
        PROVE  Fixed
    <2>1. status[c] = "CONFIRMED" /\ paxSeat[c][i] \in Seats /\ paxSeat[c][i] # NoSeat
          /\ seatStatus[target] = "AVAILABLE"
      BY <1>5 DEF ChangeSeat, CanChangeSeat, InventoryInv, TypeOK
    <2>2. c # b /\ paxSeat'[b] = paxSeat[b]
      BY <1>5, <2>1 DEF ChangeSeat, InventoryInv, TypeOK
    <2>3. seatBooking[target] = NoBooking /\ seatBooking[paxSeat[c][i]] = c
      BY <2>1 DEF InventoryInv, SeatsMatchBookings, SeatsOf, ActiveStatuses
    <2>4. \A s \in Seats : seatBooking'[s] = b <=> seatBooking[s] = b
      BY <1>5, <2>1, <2>2, <2>3, SeatsAssumption DEF ChangeSeat, InventoryInv, TypeOK
    <2> QED
      BY <2>2, <2>4 DEF HeldBy
  <1>6. CASE UNCHANGED <<bookingVars, seatVars>>
    BY <1>6 DEF bookingVars, seatVars, HeldBy
  <1> HIDE DEF Fixed
  <1>7. Fixed
    BY <1>1, <1>2, <1>3, <1>4, <1>5, <1>6 DEF Next, Tick, OpenFlight, vars, Fixed
  <1> QED
    BY <1>7 DEF Fixed

\* From hold to payment, cancel or expiry a booking has the seats it was given: what
\* confirmHold and the sweep found in a snapshot is still so when they have its lock.
THEOREM HeldPartiesStay == Spec => HeldPartyFixed
  <1> DEFINE Steady == \A b \in Bookings : status[b] = "HELD" =>
                         /\ paxSeat'[b] = paxSeat[b]
                         /\ status'[b] \in ActiveStatuses => HeldBy(b)' = HeldBy(b)
  <1>1. Init => InventoryInv
    BY InitInventoryInv
  <1>2. InventoryInv /\ [Next]_vars => InventoryInv'
    BY NextInventoryInv
  <1>3. InventoryInv /\ [Next]_vars => [Steady]_vars
    BY HeldPartyStep
  <1>4. HeldPartyFixed <=> [][Steady]_vars
    BY DEF HeldPartyFixed
  <1> HIDE DEF Steady
  <1> QED
    BY <1>1, <1>2, <1>3, <1>4, PTL DEF Spec
===============================================================================
