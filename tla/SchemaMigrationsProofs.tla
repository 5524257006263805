------------------------ MODULE SchemaMigrationsProofs ------------------------
(***************************************************************************)
(* Proofs about SchemaMigrations, from any database an earlier release may *)
(* have left, for any number of bookings, runners and kills.               *)
(***************************************************************************)
EXTENDS SchemaMigrations, FiniteSetTheorems, TLAPS

Move == "MoveBookingsToLifecycle"
Reconcile == "ContractBookingPassengers"

Names == ToSet(Migrations)

LEMMA NamesHavePlaces ==
  /\ DOMAIN Migrations = 1..28
  /\ \A m \in Names : Position[m] \in 1..28 /\ Migrations[Position[m]] = m
<1>1. DOMAIN Migrations = 1..28
  BY DEF Migrations
<1> HIDE DEF Names
<1>2. \A m \in Names : \E i \in DOMAIN Migrations : Migrations[i] = m
  BY DEF Names, ToSet
<1>3. \A m \in Names : Position[m] = CHOOSE i \in DOMAIN Migrations : Migrations[i] = m
  BY DEF Position, Names
<1>4. \A m \in Names : Position[m] \in DOMAIN Migrations /\ Migrations[Position[m]] = m
  BY <1>2, <1>3
<1> QED
  BY <1>1, <1>4

\* The migrations the invariants speak of, in the order in which they run.
LEMMA NamedOrder ==
  /\ {"RequireBookingOwner", "BackfillFlightReferences", "ContractFlightReferences",
      "AddAircraftScheduleExclusion", "BackfillFlightSeats", "ContractFlightSeats", Move,
      "CreateBookingPassengers", Reconcile, "AllowHeldSeats", "BackfillFlightFares", "ContractFlightFares",
      "AddPassengerFareSnapshot", "AddPaymentReconciliation"} \subseteq Names
  /\ Position["RequireBookingOwner"] = 6 /\ Position["BackfillFlightReferences"] = 9
  /\ Position["ContractFlightReferences"] = 10 /\ Position["AddAircraftScheduleExclusion"] = 11
  /\ Position["BackfillFlightSeats"] = 13 /\ Position["ContractFlightSeats"] = 14
  /\ Position[Move] = 15 /\ Position["CreateBookingPassengers"] = 17
  /\ Position[Reconcile] = 18 /\ Position["AllowHeldSeats"] = 19
  /\ Position["BackfillFlightFares"] = 22
  /\ Position["ContractFlightFares"] = 23 /\ Position["AddPassengerFareSnapshot"] = 24
  /\ Position["AddPaymentReconciliation"] = 27
<1>1. ASSUME NEW i \in 1..28, NEW m, Migrations[i] = m, \A j \in 1..28 : Migrations[j] = m => j = i
      PROVE  m \in Names /\ Position[m] = i
  <2>1. m \in Names
    BY <1>1, NamesHavePlaces DEF Names, ToSet
  <2> QED
    BY <1>1, <2>1, NamesHavePlaces
<1>2. /\ Migrations[6] = "RequireBookingOwner" /\ Migrations[9] = "BackfillFlightReferences"
      /\ Migrations[10] = "ContractFlightReferences" /\ Migrations[11] = "AddAircraftScheduleExclusion"
      /\ Migrations[13] = "BackfillFlightSeats" /\ Migrations[14] = "ContractFlightSeats"
      /\ Migrations[15] = Move /\ Migrations[17] = "CreateBookingPassengers"
      /\ Migrations[18] = Reconcile /\ Migrations[19] = "AllowHeldSeats"
      /\ Migrations[22] = "BackfillFlightFares"
      /\ Migrations[23] = "ContractFlightFares" /\ Migrations[24] = "AddPassengerFareSnapshot"
      /\ Migrations[27] = "AddPaymentReconciliation"
  BY DEF Migrations, Move, Reconcile
<1>3. \A j \in 1..28 :
        /\ Migrations[j] = "RequireBookingOwner" => j = 6
        /\ Migrations[j] = "BackfillFlightReferences" => j = 9
        /\ Migrations[j] = "ContractFlightReferences" => j = 10
        /\ Migrations[j] = "AddAircraftScheduleExclusion" => j = 11
        /\ Migrations[j] = "BackfillFlightSeats" => j = 13
        /\ Migrations[j] = "ContractFlightSeats" => j = 14
        /\ Migrations[j] = Move => j = 15
  BY DEF Migrations, Move
<1>4. \A j \in 1..28 :
        /\ Migrations[j] = "CreateBookingPassengers" => j = 17
        /\ Migrations[j] = Reconcile => j = 18
        /\ Migrations[j] = "AllowHeldSeats" => j = 19
        /\ Migrations[j] = "BackfillFlightFares" => j = 22
        /\ Migrations[j] = "ContractFlightFares" => j = 23
        /\ Migrations[j] = "AddPassengerFareSnapshot" => j = 24
        /\ Migrations[j] = "AddPaymentReconciliation" => j = 27
  BY DEF Migrations, Reconcile
<1> HIDE DEF Move, Reconcile, Names
<1>5. /\ "RequireBookingOwner" \in Names /\ Position["RequireBookingOwner"] = 6
      /\ "BackfillFlightReferences" \in Names /\ Position["BackfillFlightReferences"] = 9
      /\ "ContractFlightReferences" \in Names /\ Position["ContractFlightReferences"] = 10
      /\ "AddAircraftScheduleExclusion" \in Names /\ Position["AddAircraftScheduleExclusion"] = 11
      /\ "BackfillFlightSeats" \in Names /\ Position["BackfillFlightSeats"] = 13
      /\ "ContractFlightSeats" \in Names /\ Position["ContractFlightSeats"] = 14
      /\ Move \in Names /\ Position[Move] = 15
  BY <1>1, <1>2, <1>3
<1>6. /\ "CreateBookingPassengers" \in Names /\ Position["CreateBookingPassengers"] = 17
      /\ Reconcile \in Names /\ Position[Reconcile] = 18
      /\ "AllowHeldSeats" \in Names /\ Position["AllowHeldSeats"] = 19
      /\ "BackfillFlightFares" \in Names /\ Position["BackfillFlightFares"] = 22
      /\ "ContractFlightFares" \in Names /\ Position["ContractFlightFares"] = 23
      /\ "AddPassengerFareSnapshot" \in Names /\ Position["AddPassengerFareSnapshot"] = 24
      /\ "AddPaymentReconciliation" \in Names /\ Position["AddPaymentReconciliation"] = 27
  BY <1>1, <1>2, <1>4
<1> QED
  BY <1>5, <1>6

LEMMA ReleasesAreNames == Releases \subseteq Names
<1>1. \A m \in Releases : \E i \in 1..28 : Migrations[i] = m
  <2>1. /\ Migrations[4] = "CreateBookings" /\ Migrations[6] = "RequireBookingOwner"
        /\ Migrations[7] = "CreateAirportsAndAircraft"
        /\ Migrations[11] = "AddAircraftScheduleExclusion"
        /\ Migrations[14] = "ContractFlightSeats" /\ Migrations[19] = "AllowHeldSeats"
        /\ Migrations[20] = "AddBookingHoldExpiryIndex"
        /\ Migrations[24] = "AddPassengerFareSnapshot" /\ Migrations[26] = "CreateIdempotencyKeys"
        /\ Migrations[27] = "AddPaymentReconciliation" /\ Migrations[28] = "AddFlightSearchIndex"
    BY DEF Migrations
  <2> QED
    BY <2>1 DEF Releases
<1> QED
  BY <1>1, NamesHavePlaces DEF Names, ToSet

\* No release has held seats, new statuses or passengers and has not reconciled them.
LEMMA AllowedAfterReconcile ==
  ASSUME IsRelease(applied)
  PROVE  /\ Has("AllowHeldSeats") => Has(Reconcile)
         /\ Has(Move) \/ Has("CreateBookingPassengers") => Has(Reconcile)
<1> HIDE DEF Names
<1>1. PICK last \in Releases : applied = {m \in Names : Position[m] <= Position[last]}
  BY DEF IsRelease, Names
<1>2. last \in Names /\ Position[last] \in 1..28 /\ Migrations[Position[last]] = last
  BY <1>1, ReleasesAreNames, NamesHavePlaces
<1>3. Migrations[15] \notin Releases /\ Migrations[16] \notin Releases /\ Migrations[17] \notin Releases
  BY DEF Migrations, Releases
<1>4. Position[last] \notin {15, 16, 17}
  BY <1>1, <1>2, <1>3
<1> QED
  BY <1>1, <1>2, <1>4, NamedOrder DEF Has

LEMMA NoneIsNoName == "none" \notin Names
<1>1. \A i \in 1..28 : Migrations[i] # "none"
  BY DEF Migrations
<1> QED
  BY <1>1, NamesHavePlaces DEF Names, ToSet

-------------------------------------------------------------------------------
(* The invariant of the bookings *)

Statuses == Tickets \cup Lifecycle

\* The status a booking ends with.
Carried(b) ==
  IF b \in byHand THEN "CANCELLED"
  ELSE IF before.bookings[b].status \in Tickets THEN LifecycleStatus(before.bookings[b].status)
  ELSE before.bookings[b].status

\* Migrations are recorded in order, whoever runs them, and what a person is asked
\* to repair is asked by the first that is not.
OrderInv ==
  /\ pending \in [Runners -> SUBSET Names]
  /\ \A m, n \in Names : Position[m] < Position[n] =>
       /\ Has(n) => Has(m)
       /\ \A r \in Runners : n \in pending[r] => Has(m) \/ m \in pending[r]
  /\ refusal \in Names \ Repeatable =>
       ~Has(refusal) /\ \A m \in Names : Position[m] < Position[refusal] => Has(m)

ConfirmedAreSeated == \A b \in Bookings : db.bookings[b].status = "CONFIRMED" => IsSeated(b)

RowsInv ==
  /\ DOMAIN db = Tables
  /\ StoredFlights \subseteq Flights
  /\ DOMAIN db.seats \subseteq Flights \X Places
  /\ \A seat \in DOMAIN db.seats :
       db.seats[seat].status = "AVAILABLE" => db.seats[seat].booking \notin Bookings

\* What has become of the bookings so far.
BookingsInv ==
  /\ DOMAIN db.bookings = Bookings
  /\ before.bookings \in [Bookings -> [flight : Flights, owned : BOOLEAN, status : Statuses]]
  /\ \A b \in Bookings :
       /\ DOMAIN db.bookings[b] = {"flight", "status", "owned"}
       /\ db.bookings[b].flight = before.bookings[b].flight
       /\ Has(Move) => db.bookings[b].status = Carried(b)
       /\ ~Has(Move) =>
            /\ before.bookings[b].status \in Tickets
            /\ db.bookings[b].status = IF b \in byHand THEN "cancelled" ELSE before.bookings[b].status
  /\ Has(Reconcile) => ConfirmedAreSeated

CarryInv == OrderInv /\ RowsInv /\ BookingsInv

LEMMA InitCarry == Init => CarryInv
<1> SUFFICES ASSUME Init PROVE CarryInv
  OBVIOUS
<1>1. \A m, n \in Names : Position[m] < Position[n] /\ Has(n) => Has(m)
  <2>1. PICK last \in Releases : applied = {m \in Names : Position[m] <= Position[last]}
    BY DEF Init, IsRelease, Names
  <2>2. last \in Names
    BY <2>1, ReleasesAreNames
  <2> HIDE DEF Names
  <2>3. Position[last] \in 1..28 /\ \A m \in Names : Position[m] \in 1..28
    BY <2>2, NamesHavePlaces
  <2> QED
    BY <2>1, <2>3 DEF Has
<1>2. OrderInv
  <2>1. "none" \notin Names
    BY NoneIsNoName
  <2> QED
    BY <1>1, <2>1 DEF Init, OrderInv
<1>3. RowsInv
  BY NumbersAssumption DEF Init, RowsFit, RowsInv
<1>4. BookingsInv
  <2>1. /\ db.bookings \in [Bookings -> [flight : StoredFlights, owned : BOOLEAN,
                                       status : IF Has(Move) THEN Lifecycle ELSE Tickets]]
        /\ before.bookings = db.bookings /\ byHand = {} /\ StoredFlights \subseteq Flights
    BY DEF Init, RowsFit, BookingRow, Move
  <2>2. \A b \in Bookings :
          /\ db.bookings[b] \in [flight : StoredFlights, owned : BOOLEAN,
                                 status : IF Has(Move) THEN Lifecycle ELSE Tickets]
          /\ db.bookings[b].status \in IF Has(Move) THEN Lifecycle ELSE Tickets
          /\ DOMAIN db.bookings[b] = {"flight", "status", "owned"}
    <3> DEFINE now == IF Has(Move) THEN Lifecycle ELSE Tickets
    <3>1. db.bookings \in [Bookings -> [flight : StoredFlights, owned : BOOLEAN, status : now]]
      BY <2>1
    <3> HIDE DEF now
    <3>2. \A b \in Bookings : /\ db.bookings[b] \in [flight : StoredFlights, owned : BOOLEAN, status : now]
                               /\ db.bookings[b].status \in now
                               /\ DOMAIN db.bookings[b] = {"flight", "status", "owned"}
      BY <3>1
    <3> QED
      BY <3>2 DEF now
  <2>3. before.bookings \in [Bookings -> [flight : Flights, owned : BOOLEAN, status : Statuses]]
    BY <2>1 DEF Statuses
  <2>4. \A b \in Bookings : Has(Move) => before.bookings[b].status \notin Tickets
    BY <2>1, <2>2 DEF Tickets, Lifecycle
  <2>5. Has(Reconcile) => ConfirmedAreSeated
    <3> SUFFICES ASSUME Has(Reconcile), NEW b \in Bookings, db.bookings[b].status = "CONFIRMED"
                 PROVE  IsSeated(b)
      BY DEF ConfirmedAreSeated
    <3>1. PartiesSeated
      BY <1>1, NamedOrder DEF Init
    <3>2. PICK i \in DOMAIN db.passengers[b] : PassengerSeat(b, i) \in DOMAIN db.seats
      BY <3>1 DEF PartiesSeated
    <3> QED
      BY <3>1, <3>2 DEF PartiesSeated, IsSeated
  <2> QED
    BY <2>1, <2>2, <2>3, <2>4, <2>5 DEF BookingsInv, Carried
<1> QED
  BY <1>2, <1>3, <1>4 DEF CarryInv

-------------------------------------------------------------------------------
(* What the runners do to their lists *)

\* Who runs a migration finds all earlier ones recorded, and leaves the list in order.
LEMMA MigrateInOrder ==
  ASSUME OrderInv, NEW r \in Runners, NEW m, NEW new, Migrate(r, m, new)
  PROVE  /\ OrderInv'
         /\ m \in Names
         /\ \A n \in Names : Position[n] < Position[m] => Has(n)
<1> HIDE DEF Names
<1>1. /\ m \in pending[r] /\ \A n \in pending[r] : Position[m] <= Position[n]
      /\ applied' = applied \cup {m} /\ pending' = [pending EXCEPT ![r] = pending[r] \ {m}]
      /\ refusal' = IF refusal = m THEN "none" ELSE refusal
  BY DEF Migrate, IsNext
<1>2. m \in Names /\ \A n \in Names : Position[n] \in 1..28
  BY <1>1, NamesHavePlaces DEF OrderInv
<1>3. \A n \in Names : Position[n] < Position[m] => Has(n)
  BY <1>1, <1>2 DEF OrderInv
<1>4. pending' \in [Runners -> SUBSET Names]
  BY <1>1 DEF OrderInv
<1>5. \A q \in Runners : pending'[q] \subseteq pending[q] /\ pending[q] \subseteq pending'[q] \cup {m}
  BY <1>1 DEF OrderInv
<1>6. \A n \in Names : Has(n)' <=> Has(n) \/ n = m
  BY <1>1 DEF Has
<1>7. \A k, n \in Names : Position[k] < Position[n] =>
        /\ Has(n)' => Has(k)'
        /\ \A q \in Runners : n \in pending'[q] => Has(k)' \/ k \in pending'[q]
  BY <1>3, <1>5, <1>6 DEF OrderInv
<1>8. "none" \notin Names
  BY NoneIsNoName
<1>9. refusal' \in Names \ Repeatable =>
        ~Has(refusal)' /\ \A n \in Names : Position[n] < Position[refusal'] => Has(n)'
  BY <1>1, <1>6, <1>8 DEF OrderInv
<1> QED
  BY <1>2, <1>3, <1>4, <1>7, <1>9 DEF OrderInv

LEMMA OrderStep == OrderInv /\ [Next]_vars => OrderInv'
<1> HIDE DEF Names
<1> SUFFICES ASSUME OrderInv, [Next]_vars PROVE OrderInv'
  OBVIOUS
<1>1. ASSUME NEW r \in Runners, Start(r) PROVE OrderInv'
  <2>1. /\ pending' = [pending EXCEPT ![r] = Names \ applied]
        /\ UNCHANGED <<applied, refusal>>
    BY <1>1 DEF Start, Names
  <2> QED
    BY <2>1 DEF OrderInv, Has
<1>2. ASSUME NEW r \in Runners, Kill(r) PROVE OrderInv'
  BY <1>2 DEF Kill, OrderInv, Has
<1>3. ASSUME NEW r \in Runners, Refuse(r) PROVE OrderInv'
  <2>1. PICK m \in pending[r] :
          /\ \A n \in pending[r] : Position[m] <= Position[n]
          /\ refusal' = IF Conflicts(m) THEN refusal ELSE m
    BY <1>3 DEF Refuse, IsNext
  <2>2. UNCHANGED applied /\ pending' = [pending EXCEPT ![r] = {}]
    BY <1>3 DEF Refuse
  <2>3. m \in Names /\ \A n \in Names : Position[n] \in 1..28
    BY <2>1, NamesHavePlaces DEF OrderInv
  <2>4. \A n \in Names : Position[n] < Position[m] => Has(n)
    BY <2>1, <2>3 DEF OrderInv
  <2>5. ~Conflicts(m) /\ m \notin Repeatable => ~Has(m)
    BY DEF Conflicts
  <2>6. refusal' \in Names \ Repeatable =>
          ~Has(refusal)' /\ \A n \in Names : Position[n] < Position[refusal'] => Has(n)'
    BY <2>1, <2>2, <2>4, <2>5 DEF OrderInv, Has
  <2> QED
    BY <2>2, <2>6 DEF OrderInv, Has
<1>4. ASSUME NEW r \in Runners, Step(r), ~Refuse(r) PROVE OrderInv'
  BY <1>4, MigrateInOrder
  DEF Step, ChangeSchema, BackfillFlightReferences, BackfillFlightSeats, MoveBookingsToLifecycle,
      CreateBookingPassengers, BackfillFlightFares, AddPassengerFareSnapshot, AddPaymentReconciliation
<1>5. CASE Repairs
  <2>1. UNCHANGED <<applied, pending, refusal>>
    BY <1>5 DEF Repairs, Repair, AssignOwners, RegisterAirports, ReferToAirports, AssignAircraft,
       DeleteFlight, ReassignAircraft, GiveBiggerAircraft, CancelUnseated, AcceptCounter,
       CancelUnreconciled, GiveFreeSeat, ReleaseSeats, SetFare, FinishPayment
  <2> QED
    BY <2>1 DEF OrderInv, Has
<1>6. CASE UNCHANGED vars
  BY <1>6 DEF vars, OrderInv, Has
<1> QED
  BY <1>1, <1>2, <1>3, <1>4, <1>5, <1>6 DEF Next

-------------------------------------------------------------------------------
(* What a step leaves of the bookings and their seats *)

SeatsStay ==
  \A seat \in DOMAIN db.seats : seat \in DOMAIN db'.seats
    /\ (db.seats[seat].booking \in Bookings => db'.seats[seat].booking = db.seats[seat].booking)

LEMMA SeatedStay ==
  ASSUME SeatsStay, NEW b \in Bookings, IsSeated(b)
  PROVE  IsSeated(b)'
BY DEF SeatsStay, IsSeated

\* A step that leaves the bookings and the seats they own, and is not Move or Reconcile.
LEMMA BookingsStay ==
  ASSUME BookingsInv, SeatsStay, db'.bookings = db.bookings, UNCHANGED <<before, byHand>>,
         Has(Move)' = Has(Move), Has(Reconcile)' = Has(Reconcile)
  PROVE  BookingsInv'
<1>1. \A b \in Bookings : Carried(b)' = Carried(b)
  BY DEF Carried
<1>2. Has(Reconcile) => ConfirmedAreSeated'
  BY SeatedStay DEF BookingsInv, ConfirmedAreSeated
<1> QED
  BY <1>1, <1>2 DEF BookingsInv

\* A repair that cancels a booking whose status is what it would have been without it.
LEMMA BookingCancelled ==
  ASSUME BookingsInv, RowsInv, NEW b \in Bookings, NEW word,
         Has(Move) => word = "CANCELLED", ~Has(Move) => word = "cancelled",
         db' = [db EXCEPT !.bookings[b].status = word], byHand' = byHand \cup {b},
         UNCHANGED <<before, applied>>
  PROVE  BookingsInv' /\ RowsInv'
<1>1. db' = [db EXCEPT !.bookings = [db.bookings EXCEPT ![b] = [db.bookings[b] EXCEPT !.status = word]]]
  OBVIOUS
<1>2. /\ db'.bookings = [db.bookings EXCEPT ![b] = [db.bookings[b] EXCEPT !.status = word]]
      /\ db'.seats = db.seats /\ db'.flights = db.flights /\ DOMAIN db' = DOMAIN db
  BY <1>1 DEF RowsInv, Tables
<1>3. \A c \in Bookings :
        /\ DOMAIN db'.bookings[c] = {"flight", "status", "owned"}
        /\ db'.bookings[c].flight = db.bookings[c].flight
        /\ db'.bookings[c].status = IF c = b THEN word ELSE db.bookings[c].status
  BY <1>2 DEF BookingsInv
<1>4. (Has(Move)' <=> Has(Move)) /\ (Has(Reconcile)' <=> Has(Reconcile))
  BY DEF Has
<1>5. \A c \in Bookings : Carried(c)' = IF c = b THEN "CANCELLED" ELSE Carried(c)
  BY DEF Carried
<1>6. Has(Reconcile) => ConfirmedAreSeated'
  <2>1. \A c \in Bookings : IsSeated(c)' <=> IsSeated(c)
    BY <1>2 DEF IsSeated
  <2>2. word # "CONFIRMED"
    BY <1>4
  <2> QED
    BY <1>3, <2>1, <2>2 DEF BookingsInv, ConfirmedAreSeated
<1>7. DOMAIN db'.bookings = Bookings
  BY <1>2 DEF BookingsInv
<1>8. BookingsInv'
  BY <1>3, <1>4, <1>5, <1>6, <1>7 DEF BookingsInv
<1>9. RowsInv'
  BY <1>2 DEF RowsInv, StoredFlights
<1> QED
  BY <1>8, <1>9

-------------------------------------------------------------------------------
(* The migrations *)

\* What else is recorded leaves the others as they are.
LEMMA Recorded ==
  ASSUME NEW m, applied' = applied \cup {m}, NEW n, n # m
  PROVE  Has(n)' <=> Has(n)
BY DEF Has

\* Migrations of other tables, or of the schema alone.
LEMMA OtherMigrations ==
  ASSUME CarryInv, NEW r \in Runners, NEW m, NEW new, Migrate(r, m, new),
         m # Move, m # Reconcile, DOMAIN new = Tables, new.bookings = db.bookings,
         new.seats = db.seats, DOMAIN new.flights = StoredFlights
  PROVE  CarryInv'
<1>1. db' = new /\ applied' = applied \cup {m} /\ UNCHANGED <<before, byHand>> /\ OrderInv'
  BY MigrateInOrder DEF Migrate, CarryInv
<1>2. SeatsStay
  BY <1>1 DEF SeatsStay
<1>3. (Has(Move)' <=> Has(Move)) /\ (Has(Reconcile)' <=> Has(Reconcile))
  BY <1>1, Recorded
<1>4. BookingsInv'
  BY <1>1, <1>2, <1>3, BookingsStay DEF CarryInv, Has
<1>5. RowsInv'
  BY <1>1 DEF CarryInv, RowsInv, StoredFlights
<1> QED
  BY <1>1, <1>4, <1>5 DEF CarryInv

LEMMA ReconcileStep ==
  ASSUME CarryInv, NEW r \in Runners, Migrate(r, Reconcile, db)
  PROVE  CarryInv'
<1>1. /\ UNCHANGED <<db, before, byHand>> /\ applied' = applied \cup {Reconcile}
      /\ ~Refuses(Reconcile) /\ OrderInv' /\ Has(Move)
  <2>1. OrderInv' /\ \A n \in Names : Position[n] < Position[Reconcile] => Has(n)
    BY MigrateInOrder DEF CarryInv
  <2>2. Has(Move)
    BY <2>1, NamedOrder
  <2> QED
    BY <2>1, <2>2 DEF Migrate
<1>2. ConfirmedAreSeated
  <2> SUFFICES ASSUME NEW b \in Bookings, db.bookings[b].status = "CONFIRMED" PROVE IsSeated(b)
    BY DEF ConfirmedAreSeated
  <2> DEFINE booked == {seat \in DOMAIN db.seats :
                          db.seats[seat].booking = b /\ db.seats[seat].status = "BOOKED"}
  <2>1. Cardinality(booked) = Len(db.passengers[b]) /\ Len(db.passengers[b]) > 0
    BY <1>1 DEF Refuses, Reconcile, Unreconciled
  <2>2. booked # {}
    <3> HIDE DEF booked
    <3>1. ~(0 > 0)
      OBVIOUS
    <3> QED
      BY <2>1, <3>1, FS_EmptySet
  <2>3. PICK seat \in DOMAIN db.seats : db.seats[seat].booking = b
    BY <2>2
  <2> QED
    BY <2>3 DEF IsSeated
<1>3. Has(Move)' <=> Has(Move)
  BY <1>1 DEF Has
<1>4. (\A b \in Bookings : Carried(b)' = Carried(b)) /\ (ConfirmedAreSeated' <=> ConfirmedAreSeated)
  BY <1>1 DEF Carried, ConfirmedAreSeated, IsSeated
<1>5. BookingsInv'
  BY <1>1, <1>2, <1>3, <1>4 DEF CarryInv, BookingsInv
<1>6. RowsInv'
  BY <1>1 DEF CarryInv, RowsInv, StoredFlights
<1> QED
  BY <1>1, <1>5, <1>6 DEF CarryInv

LEMMA MoveStep ==
  ASSUME CarryInv, NEW r \in Runners, MoveBookingsToLifecycle(r)
  PROVE  CarryInv'
<1> DEFINE moving == [b \in Bookings |->
      [db.bookings[b] EXCEPT !.status = LifecycleStatus(db.bookings[b].status)]]
<1>1. Migrate(r, Move, [db EXCEPT !.bookings = moving])
  BY DEF MoveBookingsToLifecycle, Move
<1>2. /\ db' = [db EXCEPT !.bookings = moving] /\ applied' = applied \cup {Move}
      /\ UNCHANGED <<before, byHand>> /\ OrderInv'
  BY <1>1, MigrateInOrder DEF Migrate, CarryInv
<1>3. ~Has(Move) /\ ~Has(Reconcile)
  <2>1. ~Conflicts(Move)
    BY <1>1 DEF Migrate
  <2>2. ~Has(Move)
    BY <2>1 DEF Conflicts, Repeatable, Move
  <2> QED
    BY <2>2, NamedOrder DEF CarryInv, OrderInv
<1>4. Has(Move)' /\ ~Has(Reconcile)'
  BY <1>2, <1>3 DEF Has, Move, Reconcile
<1>5. /\ db'.bookings = moving /\ db'.seats = db.seats /\ db'.flights = db.flights
      /\ DOMAIN db' = Tables
  BY <1>2 DEF CarryInv, RowsInv, Tables
<1>6. \A b \in Bookings :
        /\ DOMAIN db'.bookings[b] = {"flight", "status", "owned"}
        /\ db'.bookings[b].flight = db.bookings[b].flight
        /\ db'.bookings[b].status = LifecycleStatus(db.bookings[b].status)
  BY <1>5 DEF CarryInv, BookingsInv
<1>7. \A b \in Bookings : LifecycleStatus(db.bookings[b].status) = Carried(b)'
  BY <1>2, <1>3 DEF CarryInv, BookingsInv, LifecycleStatus, Carried, Tickets
<1>8. BookingsInv'
  BY <1>2, <1>4, <1>5, <1>6, <1>7 DEF CarryInv, BookingsInv
<1>9. RowsInv'
  BY <1>5 DEF CarryInv, RowsInv, StoredFlights
<1> QED
  BY <1>2, <1>8, <1>9 DEF CarryInv

LEMMA SeatsStep ==
  ASSUME CarryInv, NEW r \in Runners, BackfillFlightSeats(r)
  PROVE  CarryInv'
<1> DEFINE seats == PairedSeats(CopiedSeats)
<1>1. Migrate(r, "BackfillFlightSeats", [db EXCEPT !.seats = seats])
  BY DEF BackfillFlightSeats
<1>2. /\ db' = [db EXCEPT !.seats = seats] /\ applied' = applied \cup {"BackfillFlightSeats"}
      /\ UNCHANGED <<before, byHand>> /\ OrderInv'
  BY <1>1, MigrateInOrder DEF Migrate, CarryInv
<1>3. /\ db'.seats = seats /\ db'.bookings = db.bookings /\ db'.flights = db.flights
      /\ DOMAIN db' = Tables
  BY <1>2 DEF CarryInv, RowsInv, Tables
<1>4. /\ DOMAIN CopiedSeats \subseteq Flights \X Places
      /\ DOMAIN db.seats \subseteq DOMAIN CopiedSeats
      /\ \A seat \in DOMAIN db.seats : CopiedSeats[seat] = db.seats[seat]
      /\ \A seat \in DOMAIN CopiedSeats : seat \notin DOMAIN db.seats =>
           CopiedSeats[seat].status = "AVAILABLE" /\ CopiedSeats[seat].booking \notin Bookings
  BY NumbersAssumption DEF CopiedSeats, CarryInv, RowsInv
<1>5. /\ DOMAIN seats = DOMAIN CopiedSeats
      /\ \A seat \in DOMAIN seats :
           \/ seats[seat] = CopiedSeats[seat]
           \/ CopiedSeats[seat].status = "AVAILABLE" /\ seats[seat].status = "BOOKED"
  <2> HIDE DEF seats
  <2>1. \A seat \in Flights \X Places : seat = <<seat[1], seat[2]>>
    OBVIOUS
  <2> USE DEF seats
  <2> QED
    BY <1>4, <2>1 DEF PairedSeats
<1> HIDE DEF seats
<1>6. SeatsStay
  BY <1>3, <1>4, <1>5 DEF SeatsStay, CarryInv, RowsInv
<1>7. (Has(Move)' <=> Has(Move)) /\ (Has(Reconcile)' <=> Has(Reconcile))
  BY <1>2, Recorded DEF Move, Reconcile
<1>8. BookingsInv'
  BY <1>2, <1>3, <1>6, <1>7, BookingsStay DEF CarryInv, Has
<1>9. RowsInv'
  BY <1>3, <1>4, <1>5 DEF CarryInv, RowsInv, StoredFlights
<1> QED
  BY <1>2, <1>8, <1>9 DEF CarryInv

LEMMA MigrationStep ==
  ASSUME CarryInv, NEW r \in Runners, Step(r), ~Refuse(r)
  PROVE  CarryInv'
<1>1. \A x \in Tables : x \in DOMAIN db
  BY DEF CarryInv, RowsInv
<1>2. CASE ChangeSchema(r)
  <2>1. PICK m \in ToSet(Migrations) \ MovesRows : Migrate(r, m, db)
    BY <1>2 DEF ChangeSchema
  <2>2. CASE m = Reconcile
    BY <2>1, <2>2, ReconcileStep
  <2>3. CASE m # Reconcile
    <3>1. m # Move
      BY <2>1 DEF MovesRows, Move
    <3> QED
      BY <2>1, <2>3, <3>1, OtherMigrations DEF CarryInv, RowsInv, StoredFlights
  <2> QED
    BY <2>2, <2>3
<1>3. CASE BackfillFlightReferences(r)
  <2>1. PICK rows : /\ DOMAIN rows = StoredFlights
                    /\ Migrate(r, "BackfillFlightReferences", [db EXCEPT !.flights = rows])
    BY <1>3 DEF BackfillFlightReferences
  <2>2. /\ DOMAIN [db EXCEPT !.flights = rows] = Tables
        /\ [db EXCEPT !.flights = rows].bookings = db.bookings
        /\ [db EXCEPT !.flights = rows].seats = db.seats
        /\ [db EXCEPT !.flights = rows].flights = rows
    BY <1>1 DEF CarryInv, RowsInv, Tables
  <2> QED
    BY <2>1, <2>2, OtherMigrations DEF Move, Reconcile
<1>4. CASE CreateBookingPassengers(r) \/ AddPassengerFareSnapshot(r)
  <2>1. PICK rows, m : /\ m \in {"CreateBookingPassengers", "AddPassengerFareSnapshot"}
                       /\ Migrate(r, m, [db EXCEPT !.passengers = rows])
    BY <1>4 DEF CreateBookingPassengers, AddPassengerFareSnapshot
  <2>2. /\ DOMAIN [db EXCEPT !.passengers = rows] = Tables
        /\ [db EXCEPT !.passengers = rows].bookings = db.bookings
        /\ [db EXCEPT !.passengers = rows].seats = db.seats
        /\ [db EXCEPT !.passengers = rows].flights = db.flights
    BY <1>1 DEF CarryInv, RowsInv, Tables
  <2> QED
    BY <2>1, <2>2, OtherMigrations DEF Move, Reconcile, StoredFlights
<1>5. CASE BackfillFlightFares(r)
  <2>1. PICK rows : Migrate(r, "BackfillFlightFares", [db EXCEPT !.fares = rows])
    BY <1>5 DEF BackfillFlightFares
  <2>2. /\ DOMAIN [db EXCEPT !.fares = rows] = Tables
        /\ [db EXCEPT !.fares = rows].bookings = db.bookings
        /\ [db EXCEPT !.fares = rows].seats = db.seats
        /\ [db EXCEPT !.fares = rows].flights = db.flights
    BY <1>1 DEF CarryInv, RowsInv, Tables
  <2> QED
    BY <2>1, <2>2, OtherMigrations DEF Move, Reconcile, StoredFlights
<1>6. CASE AddPaymentReconciliation(r)
  <2>1. PICK rows : Migrate(r, "AddPaymentReconciliation", [db EXCEPT !.due = rows])
    BY <1>6 DEF AddPaymentReconciliation
  <2>2. /\ DOMAIN [db EXCEPT !.due = rows] = Tables
        /\ [db EXCEPT !.due = rows].bookings = db.bookings
        /\ [db EXCEPT !.due = rows].seats = db.seats
        /\ [db EXCEPT !.due = rows].flights = db.flights
    BY <1>1 DEF CarryInv, RowsInv, Tables
  <2> QED
    BY <2>1, <2>2, OtherMigrations DEF Move, Reconcile, StoredFlights
<1> QED
  BY <1>2, <1>3, <1>4, <1>5, <1>6, MoveStep, SeatsStep DEF Step

-------------------------------------------------------------------------------
(* The repairs *)

\* Repairs that leave the bookings and the seats alone.
LEMMA OtherRepairs ==
  ASSUME CarryInv, OrderInv', DOMAIN db' = Tables, db'.bookings = db.bookings, db'.seats = db.seats,
         DOMAIN db'.flights \subseteq StoredFlights, UNCHANGED <<before, byHand, applied>>
  PROVE  CarryInv'
<1>1. SeatsStay
  BY DEF SeatsStay
<1>2. BookingsInv'
  BY <1>1, BookingsStay DEF CarryInv, Has
<1>3. RowsInv'
  BY DEF CarryInv, RowsInv, StoredFlights
<1> QED
  BY <1>2, <1>3 DEF CarryInv

LEMMA SeatRepairs ==
  ASSUME CarryInv, OrderInv', GiveFreeSeat \/ ReleaseSeats
  PROVE  CarryInv'
<1>1. CASE GiveFreeSeat
  <2>0. PICK b \in Unreconciled : \E s \in FreePlaces(db.bookings[b].flight) :
          /\ Repair("ContractBookingPassengers",
               [db EXCEPT !.seats[<<db.bookings[b].flight, s>>] = [status |-> "BOOKED", booking |-> b],
                          !.passengers[b][1].place = s])
          /\ UNCHANGED <<byHand, moved>>
    BY <1>1 DEF GiveFreeSeat
  <2>1. PICK s \in FreePlaces(db.bookings[b].flight) :
          /\ db' = [db EXCEPT !.seats[<<db.bookings[b].flight, s>>] = [status |-> "BOOKED", booking |-> b],
                              !.passengers[b][1].place = s]
          /\ UNCHANGED <<before, byHand, applied>>
    BY <2>0 DEF Repair
  <2> DEFINE seat == <<db.bookings[b].flight, s>>
  <2>2. /\ db'.seats = [db.seats EXCEPT ![seat] = [status |-> "BOOKED", booking |-> b]]
        /\ db'.bookings = db.bookings /\ db'.flights = db.flights /\ DOMAIN db' = Tables
    BY <2>1 DEF CarryInv, RowsInv, Tables
  <2>3. seat \in DOMAIN db.seats /\ db.seats[seat].status = "AVAILABLE"
    BY <2>1 DEF FreePlaces, SeatsOfFlight
  <2>4. SeatsStay
    BY <2>2, <2>3 DEF SeatsStay, CarryInv, RowsInv
  <2>5. BookingsInv'
    BY <2>1, <2>2, <2>4, BookingsStay DEF CarryInv, Has
  <2>6. RowsInv'
    BY <2>2, <2>3 DEF CarryInv, RowsInv, StoredFlights
  <2> QED
    BY <2>5, <2>6 DEF CarryInv
<1>2. CASE ReleaseSeats
  <2>1. PICK b \in StillSeated :
          /\ db' = [db EXCEPT !.seats = [seat \in DOMAIN db.seats |->
                       IF db.seats[seat].booking = b THEN [status |-> "AVAILABLE", booking |-> Null]
                       ELSE db.seats[seat]]]
          /\ UNCHANGED <<before, byHand, applied>>
    BY <1>2 DEF ReleaseSeats, Repair
  <2>2. /\ DOMAIN db'.seats = DOMAIN db.seats
        /\ \A seat \in DOMAIN db.seats : db'.seats[seat] =
             IF db.seats[seat].booking = b THEN [status |-> "AVAILABLE", booking |-> Null]
             ELSE db.seats[seat]
        /\ db'.bookings = db.bookings /\ db'.flights = db.flights /\ DOMAIN db' = Tables
    BY <2>1 DEF CarryInv, RowsInv, Tables
  <2>3. b \in Bookings /\ db.bookings[b].status = "CANCELLED"
    BY <2>1 DEF StillSeated
  <2>4. ConfirmedAreSeated => ConfirmedAreSeated'
    BY <2>2, <2>3 DEF ConfirmedAreSeated, IsSeated
  <2>5. \A c \in Bookings : Carried(c)' = Carried(c)
    BY <2>1 DEF Carried
  <2>6. BookingsInv'
    BY <2>1, <2>2, <2>4, <2>5 DEF CarryInv, BookingsInv, Has
  <2>7. RowsInv'
    BY <2>2, NumbersAssumption DEF CarryInv, RowsInv, StoredFlights
  <2> QED
    BY <2>6, <2>7 DEF CarryInv
<1> QED
  BY <1>1, <1>2

LEMMA OwnersStep ==
  ASSUME CarryInv, OrderInv', AssignOwners
  PROVE  CarryInv'
<1>1. /\ db' = [db EXCEPT !.bookings = [b \in Bookings |-> [db.bookings[b] EXCEPT !.owned = TRUE]]]
      /\ UNCHANGED <<before, byHand, applied>>
  BY DEF AssignOwners, Repair
<1>2. /\ db'.bookings = [b \in Bookings |-> [db.bookings[b] EXCEPT !.owned = TRUE]]
      /\ db'.seats = db.seats /\ db'.flights = db.flights /\ DOMAIN db' = Tables
  BY <1>1 DEF CarryInv, RowsInv, Tables
<1>3. \A b \in Bookings :
        /\ DOMAIN db'.bookings[b] = {"flight", "status", "owned"}
        /\ db'.bookings[b].flight = db.bookings[b].flight
        /\ db'.bookings[b].status = db.bookings[b].status
  BY <1>2 DEF CarryInv, BookingsInv
<1>4. ConfirmedAreSeated => ConfirmedAreSeated'
  BY <1>2, <1>3 DEF ConfirmedAreSeated, IsSeated
<1>5. \A c \in Bookings : Carried(c)' = Carried(c)
  BY <1>1 DEF Carried
<1>6. BookingsInv'
  BY <1>1, <1>2, <1>3, <1>4, <1>5 DEF CarryInv, BookingsInv, Has
<1>7. RowsInv'
  BY <1>2 DEF CarryInv, RowsInv, StoredFlights
<1> QED
  BY <1>6, <1>7 DEF CarryInv

LEMMA CancelSteps ==
  ASSUME CarryInv, OrderInv', CancelUnseated \/ CancelUnreconciled
  PROVE  CarryInv'
<1>1. CASE CancelUnseated
  <2>1. PICK b \in Unseated : /\ db' = [db EXCEPT !.bookings[b].status = "cancelled"]
                              /\ byHand' = byHand \cup {b} /\ UNCHANGED <<before, applied>>
    BY <1>1 DEF CancelUnseated, Repair
  <2>2. b \in Bookings /\ db.bookings[b].status = "active"
    BY <2>1 DEF Unseated
  <2>3. ~Has(Move)
    <3>1. before.bookings[b].status \in Statuses
      BY <2>2 DEF CarryInv, BookingsInv
    <3>2. Carried(b) # "active"
      BY <3>1 DEF Carried, LifecycleStatus, Statuses, Tickets, Lifecycle
    <3> QED
      BY <2>2, <3>2 DEF CarryInv, BookingsInv
  <2> QED
    BY <2>1, <2>2, <2>3, BookingCancelled DEF CarryInv
<1>2. CASE CancelUnreconciled
  <2>1. PICK b \in Unreconciled : /\ db' = [db EXCEPT !.bookings[b].status = "CANCELLED"]
                                  /\ byHand' = byHand \cup {b} /\ UNCHANGED <<before, applied>>
    BY <1>2 DEF CancelUnreconciled, Repair
  <2>2. b \in Bookings /\ db.bookings[b].status = "CONFIRMED"
    BY <2>1 DEF Unreconciled
  <2>3. Has(Move)
    BY <2>2 DEF CarryInv, BookingsInv, Tickets
  <2> QED
    BY <2>1, <2>2, <2>3, BookingCancelled DEF CarryInv
<1> QED
  BY <1>1, <1>2

LEMMA RepairStep ==
  ASSUME CarryInv, OrderInv', Repairs
  PROVE  CarryInv'
<1>1. ASSUME NEW rows, DOMAIN rows \subseteq StoredFlights, db' = [db EXCEPT !.flights = rows],
             UNCHANGED <<before, byHand, applied>>
      PROVE  CarryInv'
  <2>1. /\ DOMAIN db' = Tables /\ db'.bookings = db.bookings /\ db'.seats = db.seats
        /\ db'.flights = rows
    BY <1>1 DEF CarryInv, RowsInv, Tables
  <2> QED
    BY <1>1, <2>1, OtherRepairs
<1>2. ASSUME NEW rows, UNCHANGED <<before, byHand, applied>>,
             \/ db' = [db EXCEPT !.airports = rows]
             \/ db' = [db EXCEPT !.fares = rows]
             \/ db' = [db EXCEPT !.payments = rows]
      PROVE  CarryInv'
  <2>1. /\ DOMAIN db' = Tables /\ db'.bookings = db.bookings /\ db'.seats = db.seats
        /\ db'.flights = db.flights
    BY <1>2 DEF CarryInv, RowsInv, Tables
  <2> QED
    BY <1>2, <2>1, OtherRepairs DEF StoredFlights
<1>3. CASE ReferToAirports \/ AssignAircraft
  BY <1>1, <1>3 DEF ReferToAirports, AssignAircraft, Repair
<1>4. CASE DeleteFlight
  BY <1>1, <1>4 DEF DeleteFlight, Repair
<1>5. CASE ReassignAircraft \/ GiveBiggerAircraft \/ AcceptCounter
  <2>1. PICK f, row : /\ db' = [db EXCEPT !.flights = [db.flights EXCEPT ![f] = row]]
                      /\ UNCHANGED <<before, byHand, applied>>
    <3>1. ASSUME NEW f, NEW a, db' = [db EXCEPT !.flights[f].aircraft = a]
          PROVE  db' = [db EXCEPT !.flights = [db.flights EXCEPT ![f] = [db.flights[f] EXCEPT !.aircraft = a]]]
      BY <3>1
    <3>2. ASSUME NEW f, NEW n, db' = [db EXCEPT !.flights[f].counter = n]
          PROVE  db' = [db EXCEPT !.flights = [db.flights EXCEPT ![f] = [db.flights[f] EXCEPT !.counter = n]]]
      BY <3>2
    <3> QED
      BY <1>5, <3>1, <3>2 DEF ReassignAircraft, GiveBiggerAircraft, AcceptCounter, Repair
  <2>2. DOMAIN [db.flights EXCEPT ![f] = row] = StoredFlights
    BY DEF StoredFlights
  <2> QED
    BY <1>1, <2>1, <2>2
<1>6. CASE RegisterAirports
  BY <1>2, <1>6 DEF RegisterAirports, Repair
<1>7. CASE SetFare
  BY <1>2, <1>7 DEF SetFare, Repair
<1>8. CASE FinishPayment
  <2>1. PICK b, status : /\ db' = [db EXCEPT !.payments[b] = status]
                         /\ UNCHANGED <<before, byHand, applied>>
    BY <1>8 DEF FinishPayment, Repair
  <2>2. db' = [db EXCEPT !.payments = [db.payments EXCEPT ![b] = status]]
    BY <2>1
  <2> QED
    BY <1>2, <2>1, <2>2
<1> QED
  BY <1>3, <1>4, <1>5, <1>6, <1>7, <1>8, SeatRepairs, OwnersStep, CancelSteps DEF Repairs

-------------------------------------------------------------------------------
LEMMA CarryStep == CarryInv /\ [Next]_vars => CarryInv'
<1> SUFFICES ASSUME CarryInv, [Next]_vars PROVE CarryInv'
  OBVIOUS
<1>1. OrderInv'
  BY OrderStep DEF CarryInv
<1>2. CASE UNCHANGED <<db, applied, before, byHand>>
  BY <1>1, <1>2, OtherRepairs DEF CarryInv, RowsInv, StoredFlights
<1>3. ASSUME NEW r \in Runners, Start(r) \/ Refuse(r) \/ Kill(r) PROVE CarryInv'
  BY <1>2, <1>3 DEF Start, Refuse, Kill
<1>4. ASSUME NEW r \in Runners, Step(r), ~Refuse(r) PROVE CarryInv'
  BY <1>4, MigrationStep
<1>5. CASE Repairs
  BY <1>1, <1>5, RepairStep
<1> QED
  BY <1>2, <1>3, <1>4, <1>5 DEF Next, vars

\* Whoever is refused, killed or overlaps, and whatever is repaired: once the last migration is
\* recorded every booking has the flight it had, and the status and the seat that go with the
\* status it had (BookingsCarriedOver).
THEOREM BookingsKeepTheirFlights == Spec => []BookingsCarriedOver
<1>1. CarryInv => BookingsCarriedOver
  <2> SUFFICES ASSUME CarryInv, Complete, NEW b \in Bookings
               PROVE  /\ db.bookings[b].flight = before.bookings[b].flight
                      /\ db.bookings[b].status =
                           IF b \in byHand THEN "CANCELLED"
                           ELSE IF before.bookings[b].status \in {"active", "cancelled"}
                           THEN [active |-> "CONFIRMED", cancelled |-> "CANCELLED"][before.bookings[b].status]
                           ELSE before.bookings[b].status
                      /\ before.bookings[b].status = "active" /\ b \notin byHand => IsSeated(b)
    BY DEF BookingsCarriedOver
  <2>1. Has(Move) /\ Has(Reconcile)
    BY NamedOrder DEF Complete, Names
  <2>2. db.bookings[b].flight = before.bookings[b].flight /\ db.bookings[b].status = Carried(b)
    BY <2>1 DEF CarryInv, BookingsInv
  <2>3. before.bookings[b].status = "active" /\ b \notin byHand => IsSeated(b)
    <3>1. ConfirmedAreSeated
      BY <2>1 DEF CarryInv, BookingsInv
    <3> QED
      BY <2>2, <3>1 DEF ConfirmedAreSeated, Carried, LifecycleStatus, Tickets
  <2> QED
    BY <2>2, <2>3 DEF Carried, LifecycleStatus, Tickets
<1> QED
  BY <1>1, InitCarry, CarryStep, PTL DEF Spec

-------------------------------------------------------------------------------
(* The invariant of the other tables *)

FlightColumns == {"origin", "destination", "originId", "destinationId", "aircraft", "status",
                  "counter", "price", "vnd"}

FlightInv(f) ==
  /\ DOMAIN db.flights[f] = FlightColumns
  /\ db.flights[f].aircraft \in Aircraft \cup {Null}
  /\ db.flights[f].status =
       IF Has("BackfillFlightReferences") /\ before.flights[f].status = Null THEN "OPEN"
       ELSE before.flights[f].status
  /\ Has("ContractFlightReferences") =>
       db.flights[f].aircraft \in Aircraft /\ db.flights[f].originId # db.flights[f].destinationId

FlightsInv ==
  /\ IsFiniteSet(StoredFlights)
  /\ \A f \in StoredFlights : FlightInv(f)
  /\ Has("AddAircraftScheduleExclusion") => Clashes = {}

SeatInv(seat) ==
  /\ seat \in StoredFlights \X Places
  /\ db.seats[seat].status \in {"AVAILABLE", "HELD", "BOOKED"}
  /\ db.seats[seat].booking \in Bookings \cup {Null}
  /\ db.seats[seat].status = "AVAILABLE" <=> db.seats[seat].booking = Null
  /\ ~Has(Reconcile) => db.seats[seat].status # "HELD"

\* Flights have the seats of their aircraft, but for those that got a bigger one.
SeatsInv ==
  /\ \A seat \in DOMAIN db.seats : SeatInv(seat)
  /\ ~Has("BackfillFlightSeats") => DOMAIN db.seats = {}
  /\ Has("BackfillFlightSeats") => \A f \in StoredFlights :
       /\ SeatsOfFlight(f) \subseteq PlacesOn[db.flights[f].aircraft]
       /\ f \notin moved => SeatsOfFlight(f) = PlacesOn[db.flights[f].aircraft]

PassengerInv(p) ==
  /\ DOMAIN p = {"place", "class", "price"}
  /\ p.place \in Places \cup {Null}
  /\ Has("AddPassengerFareSnapshot") => (p.place # Null => p.class = ClassAt[p.place])
  /\ ~Has("AddPassengerFareSnapshot") => p.price = 0

\* Until the parties are reconciled a booking has one passenger, and none is on hold.
PassengersInv ==
  /\ DOMAIN db.passengers = Bookings
  /\ \A b \in Bookings :
       /\ \E n \in 0..MaxPassengers : DOMAIN db.passengers[b] = 1..n
       /\ \A i \in DOMAIN db.passengers[b] : PassengerInv(db.passengers[b][i])
       /\ ~Has(Reconcile) => before.bookings[b].status \in Tickets
       /\ Has("CreateBookingPassengers") /\ ~Has(Reconcile) =>
            db.passengers[b] = <<db.passengers[b][1]>>

AgreeInv == Has(Reconcile) => PartiesSeated

FaresInv == Has("ContractFlightFares") =>
  \A f \in StoredFlights \ moved, c \in FareClasses :
    <<f, c>> \in DOMAIN db.fares <=> \E s \in SeatsOfFlight(f) : ClassAt[s] = c

DueInv == Has("AddPaymentReconciliation") =>
  db.due = {b \in Bookings : db.payments[b] \in {"PROCESSING", "REFUND_PENDING"}}

FitInv == FlightsInv /\ SeatsInv /\ PassengersInv /\ AgreeInv /\ FaresInv /\ DueInv

LEMMA InitFlights == Init => FlightsInv
<1> SUFFICES ASSUME Init PROVE FlightsInv
  OBVIOUS
<1> DEFINE statuses == IF Has("BackfillFlightReferences") THEN {"SCHEDULED", "OPEN", "CANCELLED"} ELSE {Null}
<1>1. \A f \in StoredFlights : db.flights[f] \in FlightRow
  BY DEF Init, RowsFit
<1>2. FlightRow = [origin : DOMAIN Upper, destination : DOMAIN Upper,
                   originId : db.airports \cup {Null}, destinationId : db.airports \cup {Null},
                   aircraft : Aircraft \cup {Null}, status : statuses,
                   counter : Nat, price : Nat, vnd : BOOLEAN]
  BY DEF FlightRow
<1>3. Has("BackfillFlightReferences") => Null \notin statuses
  BY NumbersAssumption
<1> HIDE DEF statuses
<1>4. \A f \in StoredFlights : /\ DOMAIN db.flights[f] = FlightColumns
                               /\ db.flights[f].aircraft \in Aircraft \cup {Null}
                               /\ db.flights[f].status \in statuses
  <2>1. ASSUME NEW row \in FlightRow
        PROVE  /\ DOMAIN row = FlightColumns
               /\ row.aircraft \in Aircraft \cup {Null} /\ row.status \in statuses
    BY <1>2, <2>1 DEF FlightColumns
  <2> QED
    BY <1>1, <2>1
<1>5. before.flights = db.flights
  BY DEF Init
<1>6. \A f \in StoredFlights : Has("ContractFlightReferences") =>
        db.flights[f].aircraft # Null /\ db.flights[f].originId # db.flights[f].destinationId
  BY DEF Init, SchemaKept, LackReference, LackAirport, LackAircraft, SameAirport
<1>7. IsFiniteSet(StoredFlights) /\ (Has("AddAircraftScheduleExclusion") => Clashes = {})
  BY DEF Init, RowsFit, SchemaKept
<1> QED
  BY <1>3, <1>4, <1>5, <1>6, <1>7 DEF FlightsInv, FlightInv

LEMMA InitSeats == Init => SeatsInv
<1> SUFFICES ASSUME Init PROVE SeatsInv
  OBVIOUS
<1>1. \A m, n \in Names : Position[m] < Position[n] /\ Has(n) => Has(m)
  BY InitCarry DEF CarryInv, OrderInv
<1>2. \A seat \in DOMAIN db.seats : SeatInv(seat)
  <2> SUFFICES ASSUME NEW seat \in DOMAIN db.seats PROVE SeatInv(seat)
    OBVIOUS
  <2> DEFINE held == IF Has("AllowHeldSeats") THEN {"HELD"} ELSE {}
  <2>1. /\ db.seats[seat] \in SeatRow /\ seat \in StoredFlights \X Places
        /\ db.seats[seat].status = "AVAILABLE" <=> db.seats[seat].booking = Null
    BY DEF Init, RowsFit
  <2>2. SeatRow = [status : {"AVAILABLE", "BOOKED"} \cup held, booking : Bookings \cup {Null}]
    BY DEF SeatRow
  <2>3. held \subseteq {"HELD"} /\ (~Has(Reconcile) => held = {})
    BY AllowedAfterReconcile DEF Init
  <2> HIDE DEF held
  <2>4. /\ db.seats[seat].status \in {"AVAILABLE", "BOOKED"} \cup held
        /\ db.seats[seat].booking \in Bookings \cup {Null}
    BY <2>1, <2>2
  <2> QED
    BY <2>1, <2>3, <2>4 DEF SeatInv
<1>3. Has("BackfillFlightSeats") => \A f \in StoredFlights :
        /\ SeatsOfFlight(f) \subseteq PlacesOn[db.flights[f].aircraft]
        /\ f \notin moved => SeatsOfFlight(f) = PlacesOn[db.flights[f].aircraft]
  BY DEF Init, SchemaKept, WithFewerSeats
<1>4. ~Has("BackfillFlightSeats") => DOMAIN db.seats = {}
  BY DEF Init, SchemaKept
<1> QED
  BY <1>2, <1>3, <1>4 DEF SeatsInv

LEMMA InitPassengers == Init => PassengersInv
<1> SUFFICES ASSUME Init PROVE PassengersInv
  OBVIOUS
<1>1. \A m, n \in Names : Position[m] < Position[n] /\ Has(n) => Has(m)
  BY InitCarry DEF CarryInv, OrderInv
<1>2. /\ db.passengers \in [Bookings -> Seq(PassengerRow)]
      /\ before.bookings = db.bookings
  BY DEF Init, RowsFit
<1>3. ASSUME NEW b \in Bookings
      PROVE  /\ \E n \in 0..MaxPassengers : DOMAIN db.passengers[b] = 1..n
             /\ \A i \in DOMAIN db.passengers[b] : PassengerInv(db.passengers[b][i])
  <2>1. db.passengers[b] \in Seq(PassengerRow) /\ Len(db.passengers[b]) <= MaxPassengers
    BY <1>2 DEF Init, RowsFit
  <2>2. DOMAIN db.passengers[b] = 1..Len(db.passengers[b]) /\ Len(db.passengers[b]) \in 0..MaxPassengers
    BY <2>1, NumbersAssumption
  <2>3. ASSUME NEW i \in DOMAIN db.passengers[b] PROVE PassengerInv(db.passengers[b][i])
    <3>1. PICK p : p = db.passengers[b][i]
      OBVIOUS
    <3>2. p \in PassengerRow
      BY <2>1, <2>2, <3>1
    <3>3. DOMAIN p = {"place", "class", "price"} /\ p.place \in Places \cup {Null}
      BY <3>2 DEF PassengerRow
    <3>4. /\ p.place # Null /\ Has("AddPassengerFareSnapshot") => p.class = ClassAt[p.place]
          /\ ~Has("AddPassengerFareSnapshot") => p.price = 0
      BY <3>1 DEF Init, RowsFit
    <3> QED
      BY <3>1, <3>3, <3>4 DEF PassengerInv
  <2> QED
    BY <2>2, <2>3
<1>4. ASSUME NEW b \in Bookings, ~Has(Reconcile)
      PROVE  before.bookings[b].status \in Tickets
  <2>1. ~Has(Move)
    BY <1>4, AllowedAfterReconcile DEF Init
  <2>2. BookingRow = [flight : StoredFlights, owned : BOOLEAN, status : Tickets]
    BY <2>1 DEF BookingRow, Move
  <2>3. db.bookings \in [Bookings -> BookingRow]
    BY DEF Init, RowsFit
  <2>4. db.bookings[b] \in [flight : StoredFlights, owned : BOOLEAN, status : Tickets]
    BY <2>2, <2>3
  <2> QED
    BY <1>2, <2>4
<1>5. Has("CreateBookingPassengers") => Has(Reconcile)
  BY AllowedAfterReconcile DEF Init
<1> QED
  BY <1>2, <1>3, <1>4, <1>5 DEF PassengersInv

LEMMA InitFit == Init => FitInv
<1> SUFFICES ASSUME Init PROVE FitInv
  OBVIOUS
<1>1. AgreeInv
  <2>1. \A m, n \in Names : Position[m] < Position[n] /\ Has(n) => Has(m)
    BY InitCarry DEF CarryInv, OrderInv
  <2> QED
    BY <2>1, NamedOrder DEF Init, AgreeInv
<1>2. FaresInv
  <2> SUFFICES ASSUME Has("ContractFlightFares"), NEW f \in StoredFlights \ moved, NEW c \in FareClasses
               PROVE  <<f, c>> \in DOMAIN db.fares <=> \E s \in SeatsOfFlight(f) : ClassAt[s] = c
    BY DEF FaresInv
  <2>1. <<f, c>> \notin MissingFares /\ <<f, c>> \notin FaresWithoutSeats
    BY DEF Init, SchemaKept
  <2> QED
    BY <2>1 DEF MissingFares, FaresWithoutSeats
<1>3. DueInv
  BY DEF Init, SchemaKept, DueInv
<1> QED
  BY <1>1, <1>2, <1>3, InitFlights, InitSeats, InitPassengers DEF FitInv

-------------------------------------------------------------------------------
(* What each part needs to stay *)

LEMMA FlightsKept ==
  ASSUME FlightsInv, UNCHANGED before, db'.flights = db.flights,
         Has("BackfillFlightReferences")' <=> Has("BackfillFlightReferences"),
         Has("ContractFlightReferences")' <=> Has("ContractFlightReferences"),
         Has("AddAircraftScheduleExclusion")' <=> Has("AddAircraftScheduleExclusion")
  PROVE  FlightsInv'
<1>1. Clashes' = Clashes /\ StoredFlights' = StoredFlights
  BY DEF Clashes, StoredFlights, SameTime
<1> QED
  BY <1>1 DEF FlightsInv, FlightInv

LEMMA SeatsKept ==
  ASSUME SeatsInv, UNCHANGED moved, db'.flights = db.flights, db'.seats = db.seats,
         Has("BackfillFlightSeats")' <=> Has("BackfillFlightSeats"), Has(Reconcile) => Has(Reconcile)'
  PROVE  SeatsInv'
<1>1. StoredFlights' = StoredFlights /\ \A f : SeatsOfFlight(f)' = SeatsOfFlight(f)
  BY DEF StoredFlights, SeatsOfFlight
<1> QED
  BY <1>1 DEF SeatsInv, SeatInv

LEMMA PassengersKept ==
  ASSUME PassengersInv, UNCHANGED before, db'.passengers = db.passengers,
         Has("CreateBookingPassengers")' <=> Has("CreateBookingPassengers"),
         Has("AddPassengerFareSnapshot")' <=> Has("AddPassengerFareSnapshot"),
         Has(Reconcile) => Has(Reconcile)'
  PROVE  PassengersInv'
BY DEF PassengersInv, PassengerInv

LEMMA AgreeKept ==
  ASSUME AgreeInv, Has(Reconcile)' <=> Has(Reconcile), db'.seats = db.seats,
         \A b \in Bookings : /\ db'.bookings[b].flight = db.bookings[b].flight
                             /\ db'.bookings[b].status = db.bookings[b].status
                             /\ DOMAIN db'.passengers[b] = DOMAIN db.passengers[b]
                             /\ \A i \in DOMAIN db.passengers[b] :
                                  db'.passengers[b][i].place = db.passengers[b][i].place
  PROVE  AgreeInv'
<1>1. ASSUME NEW b \in Bookings, NEW i \in DOMAIN db.passengers[b]
      PROVE  PassengerSeat(b, i)' = PassengerSeat(b, i)
  BY DEF PassengerSeat
<1> QED
  BY <1>1 DEF AgreeInv, PartiesSeated

LEMMA FaresKept ==
  ASSUME FaresInv, Has("ContractFlightFares")' <=> Has("ContractFlightFares"), UNCHANGED moved,
         db'.flights = db.flights, db'.seats = db.seats, db'.fares = db.fares
  PROVE  FaresInv'
<1>1. StoredFlights' = StoredFlights /\ \A f : SeatsOfFlight(f)' = SeatsOfFlight(f)
  BY DEF StoredFlights, SeatsOfFlight
<1> QED
  BY <1>1 DEF FaresInv

LEMMA DueKept ==
  ASSUME DueInv, Has("AddPaymentReconciliation")' <=> Has("AddPaymentReconciliation"),
         db'.due = db.due, db'.payments = db.payments
  PROVE  DueInv'
BY DEF DueInv

-------------------------------------------------------------------------------
(* When a migration runs or a repair is made *)

\* Before a migration that runs once come those recorded, after it those that are not.
LEMMA RunsInOrder ==
  ASSUME OrderInv, NEW r \in Runners, NEW m, NEW new, Migrate(r, m, new), m \notin Repeatable
  PROVE  /\ m \in Names /\ ~Has(m)
         /\ \A n \in Names : Position[n] < Position[m] => Has(n)
         /\ \A n \in Names : Position[m] < Position[n] => ~Has(n)
<1>1. m \in Names /\ \A n \in Names : Position[n] < Position[m] => Has(n)
  BY MigrateInOrder
<1>2. ~Has(m)
  BY DEF Migrate, Conflicts
<1> QED
  BY <1>1, <1>2 DEF OrderInv

\* A repair is made between the migrations before the one that refused and those after it.
LEMMA RepairsInOrder ==
  ASSUME OrderInv, refusal \in Names \ Repeatable
  PROVE  /\ ~Has(refusal)
         /\ \A n \in Names : Position[n] < Position[refusal] => Has(n)
         /\ \A n \in Names : Position[refusal] < Position[n] => ~Has(n)
BY DEF OrderInv

-------------------------------------------------------------------------------
(* Steps that change flights *)

LEMMA ReferringKeeps ==
  ASSUME NEW f, DOMAIN db.flights[f] = FlightColumns
  PROVE  /\ DOMAIN Referring(f) = FlightColumns
         /\ Referring(f).aircraft = db.flights[f].aircraft
         /\ Referring(f).status = db.flights[f].status
<1>1. PICK x, y : Referring(f) = [db.flights[f] EXCEPT !.originId = x, !.destinationId = y]
  BY DEF Referring
<1> QED
  BY <1>1 DEF FlightColumns

\* Flights may change freely until their seats are copied.
LEMMA EarlyFlights ==
  ASSUME FitInv, OrderInv, ~Has("AddAircraftScheduleExclusion"),
         \/ UNCHANGED applied
         \/ applied' = applied \cup {"BackfillFlightReferences"},
         DOMAIN db = Tables, UNCHANGED <<before, moved>>,
         NEW rows, db' = [db EXCEPT !.flights = rows],
         DOMAIN rows \subseteq StoredFlights, \A f \in DOMAIN rows : FlightInv(f)'
  PROVE  FitInv'
<1>1. /\ db'.flights = rows /\ db'.seats = db.seats /\ db'.bookings = db.bookings
      /\ db'.passengers = db.passengers /\ db'.fares = db.fares
      /\ db'.payments = db.payments /\ db'.due = db.due
  BY DEF Tables
<1>2. \A n \in Names : 11 <= Position[n] => (Has(n)' <=> Has(n))
  BY NamedOrder DEF Has
<1>3. \A n \in Names : 11 <= Position[n] => ~Has(n)
  BY NamedOrder, NamesHavePlaces DEF OrderInv
<1>4. /\ ~Has("AddAircraftScheduleExclusion")' /\ ~Has("BackfillFlightSeats")' /\ ~Has(Reconcile)'
      /\ ~Has("ContractFlightFares")' /\ ~Has("AddPaymentReconciliation")'
      /\ ~Has("BackfillFlightSeats") /\ ~Has(Reconcile)
  BY <1>2, <1>3, NamedOrder
<1>5. FlightsInv'
  <2>1. StoredFlights' = DOMAIN rows
    BY <1>1 DEF StoredFlights
  <2>2. IsFiniteSet(StoredFlights')
    BY <2>1, FS_Subset DEF FitInv, FlightsInv
  <2> QED
    BY <1>4, <2>1, <2>2 DEF FlightsInv
<1>6. SeatsInv'
  BY <1>1, <1>4 DEF FitInv, SeatsInv
<1>7. PassengersInv'
  BY <1>1, <1>2, <1>4, NamedOrder, PassengersKept DEF FitInv
<1>8. AgreeInv' /\ FaresInv' /\ DueInv'
  BY <1>4 DEF AgreeInv, FaresInv, DueInv
<1> QED
  BY <1>5, <1>6, <1>7, <1>8 DEF FitInv

LEMMA ReferencesFit ==
  ASSUME CarryInv, FitInv, NEW r \in Runners, BackfillFlightReferences(r)
  PROVE  FitInv'
<1> DEFINE row(f) == [Referring(f) EXCEPT !.status = IF db.flights[f].status = Null THEN "OPEN"
                                                     ELSE db.flights[f].status]
           rows == [f \in StoredFlights |-> row(f)]
<1>1. Migrate(r, "BackfillFlightReferences", [db EXCEPT !.flights = rows])
  BY DEF BackfillFlightReferences
<1> HIDE DEF rows
<1>2. /\ db' = [db EXCEPT !.flights = rows] /\ applied' = applied \cup {"BackfillFlightReferences"}
      /\ UNCHANGED <<before, moved>> /\ ~Has("ContractFlightReferences")
  BY <1>1 DEF Migrate, Conflicts
<1>3. ~Has("AddAircraftScheduleExclusion") /\ ~Has("ContractFlightReferences")'
      /\ Has("BackfillFlightReferences")'
  BY <1>2, NamedOrder DEF CarryInv, OrderInv, Has
<1>4. db'.flights = rows /\ DOMAIN rows = StoredFlights
  BY <1>2 DEF rows, CarryInv, RowsInv, Tables
<1>5. ASSUME NEW f \in StoredFlights PROVE FlightInv(f)'
  <2>1. FlightInv(f)
    BY DEF FitInv, FlightsInv
  <2>2. PICK status : /\ row(f) = [Referring(f) EXCEPT !.status = status]
                      /\ status = IF db.flights[f].status = Null THEN "OPEN" ELSE db.flights[f].status
    OBVIOUS
  <2>3. DOMAIN row(f) = FlightColumns /\ row(f).aircraft = db.flights[f].aircraft /\ row(f).status = status
    BY <2>1, <2>2, ReferringKeeps DEF FlightInv, FlightColumns
  <2>4. db'.flights[f] = row(f)
    BY <1>4 DEF rows
  <2>5. status = IF before.flights[f].status = Null THEN "OPEN" ELSE before.flights[f].status
    BY <2>1, <2>2 DEF FlightInv
  <2> HIDE DEF row
  <2> QED
    BY <1>2, <1>3, <2>1, <2>3, <2>4, <2>5 DEF FlightInv
<1>6. OrderInv /\ DOMAIN db = Tables
  BY DEF CarryInv, RowsInv
<1> QED
  BY <1>2, <1>3, <1>4, <1>5, <1>6, EarlyFlights

LEMMA FlightRepairsFit ==
  ASSUME CarryInv, FitInv, ReferToAirports \/ AssignAircraft \/ DeleteFlight \/ ReassignAircraft
  PROVE  FitInv'
<1>1. OrderInv /\ DOMAIN db = Tables /\ \A f \in StoredFlights : FlightInv(f)
  BY DEF CarryInv, RowsInv, FitInv, FlightsInv
<1>2. /\ refusal \in {"ContractFlightReferences", "AddAircraftScheduleExclusion"}
      /\ UNCHANGED <<before, moved, applied>>
  BY DEF ReferToAirports, AssignAircraft, DeleteFlight, ReassignAircraft, Repair
<1>3. /\ ~Has("AddAircraftScheduleExclusion")
      /\ refusal = "ContractFlightReferences" => ~Has("ContractFlightReferences")
  <2>1. refusal \in Names \ Repeatable
    BY <1>2, NamedOrder DEF Repeatable
  <2>2. ~Has(refusal) /\ \A n \in Names : Position[refusal] < Position[n] => ~Has(n)
    BY <1>1, <2>1, RepairsInOrder
  <2> QED
    BY <1>2, <2>2, NamedOrder
<1>4. ASSUME NEW rows, db' = [db EXCEPT !.flights = rows], DOMAIN rows \subseteq StoredFlights,
             \A f \in DOMAIN rows :
               /\ DOMAIN rows[f] = FlightColumns
               /\ rows[f].status = db.flights[f].status
               /\ rows[f].aircraft \in Aircraft \cup {Null}
               /\ Has("ContractFlightReferences") =>
                    /\ rows[f].aircraft \in Aircraft
                    /\ rows[f].originId # rows[f].destinationId
      PROVE  FitInv'
  <2>1. db'.flights = rows
    BY <1>1, <1>4 DEF Tables
  <2>2. \A f \in DOMAIN rows : FlightInv(f)'
    BY <1>1, <1>2, <1>4, <2>1 DEF FlightInv, Has
  <2> QED
    BY <1>1, <1>2, <1>3, <1>4, <2>2, EarlyFlights
<1>5. CASE ReferToAirports
  <2> DEFINE rows == [f \in StoredFlights |-> Referring(f)]
  <2>1. db' = [db EXCEPT !.flights = rows] /\ refusal = "ContractFlightReferences"
    BY <1>5 DEF ReferToAirports, Repair
  <2>2. \A f \in StoredFlights : /\ DOMAIN Referring(f) = FlightColumns
                                 /\ Referring(f).status = db.flights[f].status
                                 /\ Referring(f).aircraft \in Aircraft \cup {Null}
    BY <1>1, ReferringKeeps DEF FlightInv
  <2>3. DOMAIN rows = StoredFlights /\ \A f \in StoredFlights : rows[f] = Referring(f)
    OBVIOUS
  <2> HIDE DEF rows
  <2> QED
    BY <1>3, <1>4, <2>1, <2>2, <2>3
<1>6. CASE AssignAircraft
  <2>1. PICK chosen \in [LackAircraft -> Aircraft] :
          Repair("ContractFlightReferences", [db EXCEPT !.flights = [f \in StoredFlights |->
            IF f \in LackAircraft THEN [db.flights[f] EXCEPT !.aircraft = chosen[f]] ELSE db.flights[f]]])
    BY <1>6 DEF AssignAircraft
  <2> DEFINE rows == [f \in StoredFlights |->
               IF f \in LackAircraft THEN [db.flights[f] EXCEPT !.aircraft = chosen[f]] ELSE db.flights[f]]
  <2>2. db' = [db EXCEPT !.flights = rows] /\ refusal = "ContractFlightReferences"
    BY <2>1 DEF Repair
  <2>3. DOMAIN rows = StoredFlights /\ \A f \in StoredFlights :
          rows[f] = IF f \in LackAircraft THEN [db.flights[f] EXCEPT !.aircraft = chosen[f]] ELSE db.flights[f]
    OBVIOUS
  <2>4. \A f \in LackAircraft : chosen[f] \in Aircraft
    BY <2>1
  <2> HIDE DEF rows
  <2>5. \A f \in StoredFlights : /\ DOMAIN rows[f] = FlightColumns
                                 /\ rows[f].status = db.flights[f].status
                                 /\ rows[f].aircraft \in Aircraft \cup {Null}
    BY <1>1, <2>3, <2>4 DEF FlightInv, FlightColumns
  <2> QED
    BY <1>3, <1>4, <2>2, <2>3, <2>5
<1>7. CASE DeleteFlight
  <2>1. PICK f : db' = [db EXCEPT !.flights = [g \in StoredFlights \ {f} |-> db.flights[g]]]
    BY <1>7 DEF DeleteFlight, Repair
  <2> DEFINE rows == [g \in StoredFlights \ {f} |-> db.flights[g]]
  <2>2. DOMAIN rows \subseteq StoredFlights /\ \A g \in DOMAIN rows : rows[g] = db.flights[g]
    OBVIOUS
  <2> HIDE DEF rows
  <2>3. db' = [db EXCEPT !.flights = rows]
    BY <2>1 DEF rows
  <2> QED
    BY <1>1, <1>4, <2>2, <2>3 DEF FlightInv
<1>8. CASE ReassignAircraft
  <2>1. PICK f \in Clashes, a \in Aircraft : db' = [db EXCEPT !.flights[f].aircraft = a]
    BY <1>8 DEF ReassignAircraft, Repair
  <2> DEFINE rows == [db.flights EXCEPT ![f] = [db.flights[f] EXCEPT !.aircraft = a]]
  <2>2. db' = [db EXCEPT !.flights = rows]
    BY <2>1
  <2>3. DOMAIN rows = StoredFlights /\ \A g \in StoredFlights :
          rows[g] = IF g = f THEN [db.flights[g] EXCEPT !.aircraft = a] ELSE db.flights[g]
    BY DEF StoredFlights
  <2> HIDE DEF rows
  <2>4. \A g \in StoredFlights :
          /\ DOMAIN rows[g] = FlightColumns
          /\ rows[g].status = db.flights[g].status
          /\ rows[g].aircraft \in Aircraft \cup {Null}
          /\ Has("ContractFlightReferences") =>
               rows[g].aircraft \in Aircraft /\ rows[g].originId # rows[g].destinationId
    BY <1>1, <2>3 DEF FlightInv, FlightColumns
  <2> QED
    BY <1>4, <2>2, <2>3, <2>4
<1> QED
  BY <1>5, <1>6, <1>7, <1>8

\* Once seats are copied a flight may have an aircraft with further places, if it is listed as moved.
LEMMA LaterFlights ==
  ASSUME CarryInv, FitInv, UNCHANGED <<before, applied>>, moved \subseteq moved',
         NEW rows, db' = [db EXCEPT !.flights = rows], DOMAIN rows = StoredFlights, Clashes' = Clashes,
         \A f \in StoredFlights :
           /\ DOMAIN rows[f] = FlightColumns
           /\ rows[f].status = db.flights[f].status
           /\ rows[f].originId = db.flights[f].originId
           /\ rows[f].destinationId = db.flights[f].destinationId
           /\ \/ rows[f].aircraft = db.flights[f].aircraft
              \/ /\ f \in moved' /\ rows[f].aircraft \in Aircraft
                 /\ PlacesOn[db.flights[f].aircraft] \subseteq PlacesOn[rows[f].aircraft]
  PROVE  FitInv'
<1>1. /\ db'.flights = rows /\ db'.seats = db.seats /\ db'.bookings = db.bookings
      /\ db'.passengers = db.passengers /\ db'.fares = db.fares
      /\ db'.payments = db.payments /\ db'.due = db.due
  BY DEF CarryInv, RowsInv, Tables
<1>2. StoredFlights' = StoredFlights /\ \A f : SeatsOfFlight(f)' = SeatsOfFlight(f)
  BY <1>1 DEF StoredFlights, SeatsOfFlight
<1>3. \A m : Has(m)' <=> Has(m)
  BY DEF Has
<1>4. FlightsInv'
  <2>1. ASSUME NEW f \in StoredFlights PROVE FlightInv(f)'
    <3>1. FlightInv(f)
      BY DEF FitInv, FlightsInv
    <3> QED
      BY <1>1, <1>3, <3>1 DEF FlightInv
  <2> QED
    BY <1>2, <1>3, <2>1 DEF FitInv, FlightsInv
<1>5. SeatsInv'
  <2>1. \A seat \in DOMAIN db'.seats : SeatInv(seat)'
    BY <1>1, <1>2, <1>3 DEF FitInv, SeatsInv, SeatInv
  <2>2. ASSUME Has("BackfillFlightSeats"), NEW f \in StoredFlights
        PROVE  /\ SeatsOfFlight(f) \subseteq PlacesOn[rows[f].aircraft]
               /\ f \notin moved' => SeatsOfFlight(f) = PlacesOn[rows[f].aircraft]
    <3>1. /\ SeatsOfFlight(f) \subseteq PlacesOn[db.flights[f].aircraft]
          /\ f \notin moved => SeatsOfFlight(f) = PlacesOn[db.flights[f].aircraft]
      BY <2>2 DEF FitInv, SeatsInv
    <3> QED
      BY <3>1
  <2>3. ~Has("BackfillFlightSeats") => DOMAIN db.seats = {}
    BY DEF FitInv, SeatsInv
  <2> QED
    BY <1>1, <1>2, <1>3, <2>1, <2>2, <2>3 DEF SeatsInv
<1>6. PassengersInv'
  BY <1>1, <1>3, PassengersKept DEF FitInv
<1>7. AgreeInv'
  BY <1>1, <1>3, AgreeKept DEF FitInv
<1>8. FaresInv'
  BY <1>1, <1>2, <1>3 DEF FitInv, FaresInv
<1>9. DueInv'
  BY <1>1, <1>3, DueKept DEF FitInv
<1> QED
  BY <1>4, <1>5, <1>6, <1>7, <1>8, <1>9 DEF FitInv

LEMMA BiggerAircraftFits ==
  ASSUME CarryInv, FitInv, GiveBiggerAircraft
  PROVE  FitInv'
<1>1. PICK b \in Unseated, a \in Aircraft :
        /\ db.flights[db.bookings[b].flight].aircraft \in Aircraft \ {a}
        /\ PlacesOn[db.flights[db.bookings[b].flight].aircraft] \subseteq PlacesOn[a]
        /\ Fits(db.bookings[b].flight, a)
        /\ Repair("ContractFlightSeats", [db EXCEPT !.flights[db.bookings[b].flight].aircraft = a])
        /\ moved' = moved \cup {db.bookings[b].flight}
  BY DEF GiveBiggerAircraft
<1>2. PICK f : f = db.bookings[b].flight
  OBVIOUS
<1> DEFINE rows == [db.flights EXCEPT ![f] = [db.flights[f] EXCEPT !.aircraft = a]]
<1>3. db' = [db EXCEPT !.flights = rows] /\ UNCHANGED <<before, applied>>
  BY <1>1, <1>2 DEF Repair
<1>4. DOMAIN rows = StoredFlights /\ \A g \in StoredFlights :
        rows[g] = IF g = f THEN [db.flights[g] EXCEPT !.aircraft = a] ELSE db.flights[g]
  BY DEF StoredFlights
<1> HIDE DEF rows
<1>5. \A g \in StoredFlights : DOMAIN db.flights[g] = FlightColumns
  BY DEF FitInv, FlightsInv, FlightInv
<1>6. \A g \in StoredFlights : /\ DOMAIN rows[g] = FlightColumns
                               /\ rows[g].status = db.flights[g].status
                               /\ rows[g].originId = db.flights[g].originId
                               /\ rows[g].destinationId = db.flights[g].destinationId
                               /\ rows[g].aircraft = IF g = f THEN a ELSE db.flights[g].aircraft
  BY <1>4, <1>5 DEF FlightColumns
<1>7. Clashes = {}
  <2>1. refusal = "ContractFlightSeats" /\ refusal \in Names \ Repeatable
    BY <1>1, NamedOrder DEF Repair, Repeatable
  <2>2. \A n \in Names : Position[n] < Position[refusal] => Has(n)
    BY <2>1, RepairsInOrder DEF CarryInv
  <2>3. Has("AddAircraftScheduleExclusion")
    BY <2>1, <2>2, NamedOrder
  <2> QED
    BY <2>3 DEF FitInv, FlightsInv
<1>8. Clashes' = {}
  <2>1. db'.flights = rows /\ StoredFlights' = StoredFlights
    BY <1>3, <1>4 DEF CarryInv, RowsInv, Tables, StoredFlights
  <2>2. ASSUME NEW g \in StoredFlights, NEW h \in StoredFlights \ {g}, SameTime(g, h)
        PROVE  rows[g].aircraft # rows[h].aircraft
    <3>1. db.flights[g].aircraft # db.flights[h].aircraft
      BY <1>7, <2>2 DEF Clashes
    <3>2. \A x \in StoredFlights \ {f} : SameTime(f, x) => db.flights[x].aircraft # a
      BY <1>1, <1>2 DEF Fits
    <3>3. SameTime(h, g)
      BY <2>2 DEF SameTime
    <3> QED
      BY <1>6, <2>2, <3>1, <3>2, <3>3
  <2>3. \A g, h : SameTime(g, h)' <=> SameTime(g, h)
    BY DEF SameTime
  <2> QED
    BY <2>1, <2>2, <2>3 DEF Clashes
<1> QED
  BY <1>1, <1>2, <1>3, <1>4, <1>6, <1>7, <1>8, LaterFlights

LEMMA CounterFits ==
  ASSUME CarryInv, FitInv, AcceptCounter
  PROVE  FitInv'
<1>1. PICK f, n : db' = [db EXCEPT !.flights[f].counter = n] /\ UNCHANGED <<before, applied, moved>>
  BY DEF AcceptCounter, Repair
<1> DEFINE rows == [db.flights EXCEPT ![f] = [db.flights[f] EXCEPT !.counter = n]]
<1>2. db' = [db EXCEPT !.flights = rows]
  BY <1>1
<1>3. DOMAIN rows = StoredFlights /\ \A g \in StoredFlights :
        rows[g] = IF g = f THEN [db.flights[g] EXCEPT !.counter = n] ELSE db.flights[g]
  BY DEF StoredFlights
<1> HIDE DEF rows
<1>4. \A g \in StoredFlights : DOMAIN db.flights[g] = FlightColumns
  BY DEF FitInv, FlightsInv, FlightInv
<1>5. \A g \in StoredFlights : /\ DOMAIN rows[g] = FlightColumns
                               /\ rows[g].status = db.flights[g].status
                               /\ rows[g].originId = db.flights[g].originId
                               /\ rows[g].destinationId = db.flights[g].destinationId
                               /\ rows[g].aircraft = db.flights[g].aircraft
  BY <1>3, <1>4 DEF FlightColumns
<1>6. Clashes' = Clashes
  <2>1. db'.flights = rows /\ StoredFlights' = StoredFlights
    BY <1>2, <1>3 DEF CarryInv, RowsInv, Tables, StoredFlights
  <2> QED
    BY <1>5, <2>1 DEF Clashes, SameTime
<1> QED
  BY <1>1, <1>2, <1>3, <1>5, <1>6, LaterFlights

-------------------------------------------------------------------------------
(* Repairs of the other tables *)

LEMMA RowsChange ==
  ASSUME FitInv, UNCHANGED <<before, applied, moved>>, db'.flights = db.flights, db'.seats = db.seats,
         db'.passengers = db.passengers, AgreeInv', FaresInv', DueInv'
  PROVE  FitInv'
<1>1. \A m : Has(m)' <=> Has(m)
  BY DEF Has
<1> QED
  BY <1>1, FlightsKept, SeatsKept, PassengersKept DEF FitInv

\* Until the parties are reconciled, what is said of them and of what comes after is still to come.
LEMMA BeforeReconcile ==
  ASSUME OrderInv, refusal \in {"ContractFlightSeats", Reconcile}, UNCHANGED applied
  PROVE  /\ ~Has(Reconcile) /\ ~Has("AddPassengerFareSnapshot")
         /\ AgreeInv' /\ FaresInv' /\ DueInv'
<1>1. refusal \in Names \ Repeatable
  BY NamedOrder DEF Repeatable, Reconcile
<1>2. ~Has(refusal) /\ \A n \in Names : Position[refusal] < Position[n] => ~Has(n)
  BY <1>1, RepairsInOrder
<1>3. /\ ~Has(Reconcile) /\ ~Has("ContractFlightFares") /\ ~Has("AddPassengerFareSnapshot")
      /\ ~Has("AddPaymentReconciliation")
  BY <1>2, NamedOrder
<1>4. ~Has(Reconcile)' /\ ~Has("ContractFlightFares")' /\ ~Has("AddPaymentReconciliation")'
  BY <1>3 DEF Has
<1> QED
  BY <1>3, <1>4 DEF AgreeInv, FaresInv, DueInv

LEMMA RowRepairsFit ==
  ASSUME CarryInv, FitInv,
         RegisterAirports \/ SetFare \/ FinishPayment \/ AssignOwners \/ CancelUnseated \/ CancelUnreconciled
  PROVE  FitInv'
<1>1. OrderInv /\ DOMAIN db = Tables
  BY DEF CarryInv, RowsInv
<1>2. UNCHANGED <<before, applied, moved>>
  BY DEF RegisterAirports, SetFare, FinishPayment, AssignOwners, CancelUnseated, CancelUnreconciled, Repair
<1>3. \A m : Has(m)' <=> Has(m)
  BY <1>2 DEF Has
<1>4. CASE RegisterAirports
  <2>1. PICK rows : db' = [db EXCEPT !.airports = rows]
    BY <1>4 DEF RegisterAirports, Repair
  <2>2. /\ db'.flights = db.flights /\ db'.seats = db.seats /\ db'.bookings = db.bookings
        /\ db'.passengers = db.passengers /\ db'.fares = db.fares
        /\ db'.payments = db.payments /\ db'.due = db.due
    BY <1>1, <2>1 DEF Tables
  <2>3. AgreeInv' /\ FaresInv' /\ DueInv'
    BY <1>2, <1>3, <2>2, AgreeKept, FaresKept, DueKept DEF FitInv
  <2> QED
    BY <1>2, <2>2, <2>3, RowsChange
<1>5. CASE SetFare
  <2>1. PICK rows : db' = [db EXCEPT !.fares = rows]
    BY <1>5 DEF SetFare, Repair
  <2>2. /\ db'.flights = db.flights /\ db'.seats = db.seats /\ db'.bookings = db.bookings
        /\ db'.passengers = db.passengers /\ db'.payments = db.payments /\ db'.due = db.due
    BY <1>1, <2>1 DEF Tables
  <2>3. ~Has("ContractFlightFares")
    <3>1. refusal = "ContractFlightFares" /\ refusal \in Names \ Repeatable
      BY <1>5, NamedOrder DEF SetFare, Repair, Repeatable
    <3> QED
      BY <1>1, <3>1, RepairsInOrder
  <2>4. AgreeInv' /\ FaresInv' /\ DueInv'
    <3>1. AgreeInv' /\ DueInv'
      BY <1>2, <1>3, <2>2, AgreeKept, DueKept DEF FitInv
    <3> QED
      BY <1>3, <2>3, <3>1 DEF FaresInv
  <2> QED
    BY <1>2, <2>2, <2>4, RowsChange
<1>6. CASE FinishPayment
  <2>1. PICK b, status : db' = [db EXCEPT !.payments[b] = status]
    BY <1>6 DEF FinishPayment, Repair
  <2>2. db' = [db EXCEPT !.payments = [db.payments EXCEPT ![b] = status]]
    BY <2>1
  <2>3. /\ db'.flights = db.flights /\ db'.seats = db.seats /\ db'.bookings = db.bookings
        /\ db'.passengers = db.passengers /\ db'.fares = db.fares
    BY <1>1, <2>2 DEF Tables
  <2>4. ~Has("AddPaymentReconciliation")
    <3>1. refusal = "AddPaymentReconciliation" /\ refusal \in Names \ Repeatable
      BY <1>6, NamedOrder DEF FinishPayment, Repair, Repeatable
    <3> QED
      BY <1>1, <3>1, RepairsInOrder
  <2>5. AgreeInv' /\ FaresInv' /\ DueInv'
    <3>1. AgreeInv' /\ FaresInv'
      BY <1>2, <1>3, <2>3, AgreeKept, FaresKept DEF FitInv
    <3> QED
      BY <1>3, <2>4, <3>1 DEF DueInv
  <2> QED
    BY <1>2, <2>3, <2>5, RowsChange
<1>7. CASE AssignOwners
  <2>1. db' = [db EXCEPT !.bookings = [b \in Bookings |-> [db.bookings[b] EXCEPT !.owned = TRUE]]]
    BY <1>7 DEF AssignOwners, Repair
  <2>2. /\ db'.bookings = [b \in Bookings |-> [db.bookings[b] EXCEPT !.owned = TRUE]]
        /\ db'.flights = db.flights /\ db'.seats = db.seats
        /\ db'.passengers = db.passengers /\ db'.fares = db.fares
        /\ db'.payments = db.payments /\ db'.due = db.due
    BY <1>1, <2>1 DEF Tables
  <2>3. \A b \in Bookings : /\ db'.bookings[b].flight = db.bookings[b].flight
                            /\ db'.bookings[b].status = db.bookings[b].status
    BY <2>2 DEF CarryInv, BookingsInv
  <2>4. AgreeInv' /\ FaresInv' /\ DueInv'
    BY <1>2, <1>3, <2>2, <2>3, AgreeKept, FaresKept, DueKept DEF FitInv
  <2> QED
    BY <1>2, <2>2, <2>4, RowsChange
<1>8. CASE CancelUnseated \/ CancelUnreconciled
  <2>1. PICK b, word : db' = [db EXCEPT !.bookings[b].status = word]
    BY <1>8 DEF CancelUnseated, CancelUnreconciled, Repair
  <2>2. db' = [db EXCEPT !.bookings = [db.bookings EXCEPT ![b] = [db.bookings[b] EXCEPT !.status = word]]]
    BY <2>1
  <2>3. /\ db'.flights = db.flights /\ db'.seats = db.seats /\ db'.passengers = db.passengers
    BY <1>1, <2>2 DEF Tables
  <2>4. refusal \in {"ContractFlightSeats", Reconcile}
    BY <1>8 DEF CancelUnseated, CancelUnreconciled, Repair, Reconcile
  <2> QED
    BY <1>1, <1>2, <2>3, <2>4, BeforeReconcile, RowsChange
<1> QED
  BY <1>4, <1>5, <1>6, <1>7, <1>8

LEMMA SeatRepairsFit ==
  ASSUME CarryInv, FitInv, GiveFreeSeat \/ ReleaseSeats
  PROVE  FitInv'
<1>1. OrderInv /\ DOMAIN db = Tables
  BY DEF CarryInv, RowsInv
<1>2. UNCHANGED <<before, applied, moved>> /\ refusal = Reconcile
  BY DEF GiveFreeSeat, ReleaseSeats, Repair, Reconcile
<1>3. \A m : Has(m)' <=> Has(m)
  BY <1>2 DEF Has
<1>4. ~Has(Reconcile) /\ ~Has("AddPassengerFareSnapshot") /\ AgreeInv' /\ FaresInv' /\ DueInv'
  BY <1>1, <1>2, BeforeReconcile
<1>5. ASSUME db'.flights = db.flights, DOMAIN db'.seats = DOMAIN db.seats,
             \A seat \in DOMAIN db.seats :
               \/ db'.seats[seat] = db.seats[seat]
               \/ db'.seats[seat] = [status |-> "AVAILABLE", booking |-> Null]
               \/ \E b \in Bookings : db'.seats[seat] = [status |-> "BOOKED", booking |-> b]
      PROVE  FlightsInv' /\ SeatsInv'
  <2>1. FlightsInv'
    BY <1>2, <1>3, <1>5, FlightsKept DEF FitInv
  <2>2. StoredFlights' = StoredFlights /\ \A f : SeatsOfFlight(f)' = SeatsOfFlight(f)
    BY <1>5 DEF StoredFlights, SeatsOfFlight
  <2>3. ASSUME NEW seat \in DOMAIN db.seats PROVE SeatInv(seat)'
    <3>1. SeatInv(seat)
      BY DEF FitInv, SeatsInv
    <3>2. /\ db'.seats[seat].status \in {"AVAILABLE", "HELD", "BOOKED"}
          /\ db'.seats[seat].booking \in Bookings \cup {Null}
          /\ db'.seats[seat].status = "AVAILABLE" <=> db'.seats[seat].booking = Null
          /\ db'.seats[seat].status # "HELD"
      <4>1. PICK row : row = db'.seats[seat]
        OBVIOUS
      <4>2. \/ row = db.seats[seat]
            \/ row = [status |-> "AVAILABLE", booking |-> Null]
            \/ \E b \in Bookings : row = [status |-> "BOOKED", booking |-> b] /\ b # Null
        BY <1>5, <4>1, NumbersAssumption
      <4>3. CASE row = db.seats[seat]
        BY <1>4, <3>1, <4>1, <4>3 DEF SeatInv
      <4>4. CASE row = [status |-> "AVAILABLE", booking |-> Null]
        BY <4>1, <4>4
      <4>5. CASE \E b \in Bookings : row = [status |-> "BOOKED", booking |-> b] /\ b # Null
        BY <4>1, <4>5
      <4> QED
        BY <4>2, <4>3, <4>4, <4>5
    <3> QED
      BY <2>2, <3>1, <3>2 DEF SeatInv
  <2>4. SeatsInv'
    BY <1>2, <1>3, <1>5, <2>2, <2>3 DEF FitInv, SeatsInv
  <2> QED
    BY <2>1, <2>4
<1>6. CASE ReleaseSeats
  <2>1. PICK b \in StillSeated :
          db' = [db EXCEPT !.seats = [seat \in DOMAIN db.seats |->
                   IF db.seats[seat].booking = b THEN [status |-> "AVAILABLE", booking |-> Null]
                   ELSE db.seats[seat]]]
    BY <1>6 DEF ReleaseSeats, Repair
  <2>2. /\ db'.seats = [seat \in DOMAIN db.seats |->
             IF db.seats[seat].booking = b THEN [status |-> "AVAILABLE", booking |-> Null]
             ELSE db.seats[seat]]
        /\ db'.flights = db.flights /\ db'.passengers = db.passengers
    BY <1>1, <2>1 DEF Tables
  <2>3. DOMAIN db'.seats = DOMAIN db.seats /\ \A seat \in DOMAIN db.seats :
          \/ db'.seats[seat] = db.seats[seat]
          \/ db'.seats[seat] = [status |-> "AVAILABLE", booking |-> Null]
    BY <2>2
  <2>4. PassengersInv'
    BY <1>2, <1>3, <2>2, PassengersKept DEF FitInv
  <2> QED
    BY <1>4, <1>5, <2>2, <2>3, <2>4 DEF FitInv
<1>7. CASE GiveFreeSeat
  <2>0. PICK b \in Unreconciled : \E s \in FreePlaces(db.bookings[b].flight) :
          /\ ~IsSeated(b)
          /\ Repair("ContractBookingPassengers",
               [db EXCEPT !.seats[<<db.bookings[b].flight, s>>] = [status |-> "BOOKED", booking |-> b],
                          !.passengers[b][1].place = s])
    BY <1>7 DEF GiveFreeSeat
  <2>1. PICK s \in FreePlaces(db.bookings[b].flight) :
          db' = [db EXCEPT !.seats[<<db.bookings[b].flight, s>>] = [status |-> "BOOKED", booking |-> b],
                           !.passengers[b][1].place = s]
    BY <2>0 DEF Repair
  <2> DEFINE seat == <<db.bookings[b].flight, s>>
  <2>2. b \in Bookings /\ s \in Places
    BY <2>1 DEF Unreconciled, FreePlaces, SeatsOfFlight
  <2>3. PICK party : party = [db.passengers[b] EXCEPT ![1] = [db.passengers[b][1] EXCEPT !.place = s]]
    OBVIOUS
  <2>4. /\ db'.seats = [db.seats EXCEPT ![seat] = [status |-> "BOOKED", booking |-> b]]
        /\ db'.flights = db.flights
        /\ db'.passengers = [db.passengers EXCEPT ![b] = party]
    BY <1>1, <2>1, <2>3 DEF Tables
  <2>5. FlightsInv' /\ SeatsInv'
    BY <1>5, <2>2, <2>4
  <2>6. Has("CreateBookingPassengers")
    <3>1. refusal \in Names \ Repeatable
      BY <1>2, NamedOrder DEF Repeatable, Reconcile
    <3>2. \A n \in Names : Position[n] < Position[Reconcile] => Has(n)
      BY <1>1, <1>2, <3>1, RepairsInOrder
    <3> QED
      BY <3>2, NamedOrder
  <2>7. PICK p : p = db.passengers[b][1]
    OBVIOUS
  <2>8. /\ db.passengers[b] = <<p>> /\ PassengerInv(p)
        /\ \E n \in 0..MaxPassengers : DOMAIN db.passengers[b] = 1..n
    <3>1. db.passengers[b] = <<db.passengers[b][1]>>
      BY <1>4, <2>2, <2>6 DEF FitInv, PassengersInv
    <3>2. db.passengers[b] = <<p>>
      BY <2>7, <3>1
    <3>3. 1 \in DOMAIN db.passengers[b]
      BY <3>2
    <3> QED
      BY <2>2, <2>7, <3>2, <3>3 DEF FitInv, PassengersInv
  <2>9. PICK q : q = [p EXCEPT !.place = s]
    OBVIOUS
  <2>10. party = <<q>> /\ DOMAIN party = DOMAIN db.passengers[b]
    BY <2>3, <2>7, <2>8, <2>9
  <2>11. PassengerInv(q)'
    BY <1>3, <1>4, <2>2, <2>8, <2>9 DEF PassengerInv
  <2>12. ASSUME NEW c \in Bookings
         PROVE  /\ \E n \in 0..MaxPassengers : DOMAIN db'.passengers[c] = 1..n
                /\ \A i \in DOMAIN db'.passengers[c] : PassengerInv(db.passengers[c][i])'
                /\ db'.passengers[c] = <<db'.passengers[c][1]>>
    <3>1. CASE c = b
      <4>1. db'.passengers[c] = <<q>>
        BY <2>4, <2>10, <3>1 DEF FitInv, PassengersInv
      <4>2. \A i \in DOMAIN <<q>> : <<q>>[i] = q
        OBVIOUS
      <4> QED
        BY <2>8, <2>10, <2>11, <3>1, <4>1, <4>2
    <3>2. CASE c # b
      <4>1. db'.passengers[c] = db.passengers[c]
        BY <2>4, <3>2 DEF FitInv, PassengersInv
      <4>2. /\ \E n \in 0..MaxPassengers : DOMAIN db.passengers[c] = 1..n
            /\ \A i \in DOMAIN db.passengers[c] : PassengerInv(db.passengers[c][i])
            /\ db.passengers[c] = <<db.passengers[c][1]>>
        BY <1>4, <2>6 DEF FitInv, PassengersInv
      <4> QED
        BY <1>3, <4>1, <4>2 DEF PassengerInv
    <3> QED
      BY <3>1, <3>2
  <2>13. DOMAIN db'.passengers = Bookings
    BY <2>4 DEF FitInv, PassengersInv
  <2>14. PassengersInv'
    BY <1>2, <1>3, <1>4, <2>12, <2>13 DEF FitInv, PassengersInv
  <2> QED
    BY <1>4, <2>5, <2>14 DEF FitInv
<1> QED
  BY <1>6, <1>7

-------------------------------------------------------------------------------
(* Migrations of the schema alone *)

LEMMA SchemaKeeps ==
  ASSUME CarryInv, FitInv, NEW m \in Names \ MovesRows, applied' = applied \cup {m},
         UNCHANGED <<db, before, moved>>
  PROVE  /\ m \notin {"ContractFlightReferences", "AddAircraftScheduleExclusion"} => FlightsInv'
         /\ SeatsInv' /\ PassengersInv' /\ DueInv'
         /\ m # Reconcile => AgreeInv'
         /\ m # "ContractFlightFares" => FaresInv'
<1>1. \A n : n # m => (Has(n)' <=> Has(n))
  BY Recorded
<1>2. Has(Reconcile) => Has(Reconcile)'
  BY DEF Has
<1>3. /\ m # "BackfillFlightReferences" /\ m # "BackfillFlightSeats" /\ m # "CreateBookingPassengers"
      /\ m # "AddPassengerFareSnapshot" /\ m # "AddPaymentReconciliation"
  BY DEF MovesRows
<1>4. m \notin {"ContractFlightReferences", "AddAircraftScheduleExclusion"} => FlightsInv'
  BY <1>1, <1>3, FlightsKept DEF FitInv
<1>5. SeatsInv' /\ PassengersInv'
  BY <1>1, <1>2, <1>3, SeatsKept, PassengersKept DEF FitInv
<1>6. DueInv' /\ (m # Reconcile => AgreeInv')
  BY <1>1, <1>3, DueKept, AgreeKept DEF FitInv
<1>7. m # "ContractFlightFares" => FaresInv'
  BY <1>1, FaresKept DEF FitInv
<1> QED
  BY <1>4, <1>5, <1>6, <1>7

\* What ContractBookingPassengers does not refuse: a passenger of a CONFIRMED booking has
\* its one seat, and nobody else has one.
LEMMA PartiesReconciled ==
  ASSUME CarryInv, FitInv, Has(Move), Has("CreateBookingPassengers"), ~Has(Reconcile),
         Unreconciled \cup StillSeated = {}
  PROVE  PartiesSeated
<1> USE DEF SeatInv
<1>1. ASSUME NEW b \in Bookings
      PROVE  /\ db.bookings[b].status \in {"CONFIRMED", "CANCELLED"}
             /\ db.passengers[b] = <<db.passengers[b][1]>>
             /\ DOMAIN db.passengers[b] = {1} /\ Len(db.passengers[b]) = 1
  <2>1. before.bookings[b].status \in Tickets /\ db.passengers[b] = <<db.passengers[b][1]>>
    BY DEF FitInv, PassengersInv
  <2>2. db.bookings[b].status = Carried(b)
    BY DEF CarryInv, BookingsInv
  <2>3. \A p : DOMAIN <<p>> = {1} /\ Len(<<p>>) = 1
    OBVIOUS
  <2> QED
    BY <2>1, <2>2, <2>3 DEF Carried, LifecycleStatus
<1>2. \A seat \in DOMAIN db.seats : SeatInv(seat)
  BY DEF FitInv, SeatsInv
<1>3. IsFiniteSet(DOMAIN db.seats)
  <2>1. IsFiniteSet(Places)
    <3>1. PICK n \in Nat : Places \subseteq 1..n
      BY NumbersAssumption
    <3>2. Places \in SUBSET (1..n) /\ IsFiniteSet(1..n)
      BY <3>1, FS_Interval
    <3> QED
      BY <3>2, FS_Subset
  <2>2. IsFiniteSet(StoredFlights \X Places)
    BY <2>1, FS_Product DEF FitInv, FlightsInv
  <2>3. DOMAIN db.seats \subseteq StoredFlights \X Places
    BY <1>2
  <2> QED
    BY <2>2, <2>3, FS_Subset
<1>4. ASSUME NEW b \in Bookings, db.bookings[b].status = "CANCELLED"
      PROVE  \A seat \in DOMAIN db.seats : db.seats[seat].booking # b
  BY <1>4 DEF StillSeated, IsSeated
<1>5. ASSUME NEW b \in Bookings, db.bookings[b].status = "CONFIRMED"
      PROVE  /\ PassengerSeat(b, 1) \in DOMAIN db.seats
             /\ \A seat \in DOMAIN db.seats :
                  /\ db.seats[seat].booking = b <=> seat = PassengerSeat(b, 1)
                  /\ db.seats[seat].booking = b => db.seats[seat].status = "BOOKED"
  <2> DEFINE booked == {seat \in DOMAIN db.seats :
                          db.seats[seat].booking = b /\ db.seats[seat].status = "BOOKED"}
             matching == {i \in DOMAIN db.passengers[b] :
                            <<db.bookings[b].flight, db.passengers[b][i].place>> \in booked}
  <2>1. Cardinality(booked) = 1 /\ Cardinality(matching) = 1
    <3>1. b \notin Unreconciled
      OBVIOUS
    <3>2. Len(db.passengers[b]) = 1
      BY <1>1
    <3>3. Cardinality(booked) = Len(db.passengers[b]) /\ Len(db.passengers[b]) = Cardinality(matching)
      BY <1>5, <3>1 DEF Unreconciled
    <3> QED
      BY <3>2, <3>3
  <2>2. matching \subseteq {1} /\ (1 \in matching => PassengerSeat(b, 1) \in booked)
    BY <1>1 DEF PassengerSeat
  <2>3. booked \subseteq DOMAIN db.seats
    OBVIOUS
  <2>4. \A seat \in DOMAIN db.seats : db.seats[seat].booking = b => db.seats[seat].status = "BOOKED"
    BY <1>2, NumbersAssumption
  <2>5. \A seat \in DOMAIN db.seats : db.seats[seat].booking = b <=> seat \in booked
    BY <2>4
  <2> HIDE DEF booked, matching
  <2>6. IsFiniteSet(booked)
    BY <1>3, <2>3, FS_Subset
  <2>7. \E x : booked = {x}
    BY <2>1, <2>6, FS_Singleton
  <2>8. matching # {}
    BY <2>1, FS_EmptySet
  <2>9. booked = {PassengerSeat(b, 1)}
    BY <2>2, <2>7, <2>8
  <2> QED
    BY <2>3, <2>4, <2>5, <2>9
<1>6. ASSUME NEW b \in Bookings
      PROVE  LET onBoard == db.bookings[b].status \in {"HELD", "CONFIRMED"}
                 party == DOMAIN db.passengers[b]
             IN /\ \A seat \in DOMAIN db.seats :
                     /\ db.seats[seat].booking = b <=> onBoard /\ \E i \in party : PassengerSeat(b, i) = seat
                     /\ db.seats[seat].booking = b =>
                          db.seats[seat].status = IF db.bookings[b].status = "HELD" THEN "HELD" ELSE "BOOKED"
                /\ onBoard => /\ party # {}
                              /\ \A i \in party : PassengerSeat(b, i) \in DOMAIN db.seats
                              /\ \A i, j \in party : PassengerSeat(b, i) = PassengerSeat(b, j) => i = j
  <2>1. CASE db.bookings[b].status = "CANCELLED"
    BY <1>4, <2>1
  <2>2. CASE db.bookings[b].status = "CONFIRMED"
    BY <1>1, <1>5, <2>2
  <2> QED
    BY <1>1, <2>1, <2>2
<1> QED
  BY <1>6 DEF PartiesSeated

LEMMA SchemaFits ==
  ASSUME CarryInv, FitInv, NEW r \in Runners, ChangeSchema(r)
  PROVE  FitInv'
<1>1. PICK m \in Names \ MovesRows : Migrate(r, m, db)
  BY DEF ChangeSchema, Names
<1>2. /\ UNCHANGED <<db, before, moved>> /\ applied' = applied \cup {m}
      /\ ~Conflicts(m) /\ ~Refuses(m)
  BY <1>1 DEF Migrate
<1>3. /\ m \notin {"ContractFlightReferences", "AddAircraftScheduleExclusion"} => FlightsInv'
      /\ SeatsInv' /\ PassengersInv' /\ DueInv'
      /\ m # Reconcile => AgreeInv'
      /\ m # "ContractFlightFares" => FaresInv'
  BY <1>2, SchemaKeeps
<1>4. \A n : n # m => (Has(n)' <=> Has(n))
  BY <1>2, Recorded
<1>5. ASSUME m = "ContractFlightReferences" PROVE FlightsInv'
  <2>1. /\ Has("AddAircraftScheduleExclusion")' <=> Has("AddAircraftScheduleExclusion")
        /\ Has("BackfillFlightReferences")' <=> Has("BackfillFlightReferences")
    BY <1>4, <1>5
  <2>2. LackReference = {} /\ SameAirport = {}
    BY <1>2, <1>5 DEF Refuses
  <2>3. \A f \in StoredFlights :
          db.flights[f].aircraft # Null /\ db.flights[f].originId # db.flights[f].destinationId
    BY <2>2 DEF LackReference, LackAirport, LackAircraft, SameAirport
  <2>4. StoredFlights' = StoredFlights /\ Clashes' = Clashes
    BY <1>2 DEF StoredFlights, Clashes, SameTime
  <2>5. \A f \in StoredFlights : FlightInv(f)'
    BY <1>2, <2>1, <2>3 DEF FitInv, FlightsInv, FlightInv
  <2> QED
    BY <2>1, <2>4, <2>5 DEF FitInv, FlightsInv
<1>6. ASSUME m = "AddAircraftScheduleExclusion" PROVE FlightsInv'
  <2>1. /\ Has("ContractFlightReferences")' <=> Has("ContractFlightReferences")
        /\ Has("BackfillFlightReferences")' <=> Has("BackfillFlightReferences")
    BY <1>4, <1>6
  <2>2. Clashes = {}
    BY <1>2, <1>6 DEF Refuses
  <2>3. StoredFlights' = StoredFlights /\ Clashes' = Clashes
    BY <1>2 DEF StoredFlights, Clashes, SameTime
  <2>4. \A f \in StoredFlights : FlightInv(f)'
    BY <1>2, <2>1 DEF FitInv, FlightsInv, FlightInv
  <2> QED
    BY <2>2, <2>3, <2>4 DEF FitInv, FlightsInv
<1>7. ASSUME m = Reconcile PROVE AgreeInv'
  <2>1. /\ \A n \in Names : Position[n] < Position[m] => Has(n)
        /\ ~Has(m)
    <3>1. m \notin Repeatable
      BY <1>7 DEF Repeatable, Reconcile
    <3> QED
      BY <1>1, <3>1, RunsInOrder DEF CarryInv
  <2>2. Has(Move) /\ Has("CreateBookingPassengers") /\ ~Has(Reconcile)
    BY <1>7, <2>1, NamedOrder
  <2>3. Unreconciled \cup StillSeated = {}
    BY <1>2, <1>7 DEF Refuses, Reconcile
  <2>4. PartiesSeated
    BY <2>2, <2>3, PartiesReconciled
  <2>5. PartiesSeated' <=> PartiesSeated
    BY <1>2 DEF PartiesSeated, PassengerSeat
  <2> QED
    BY <2>4, <2>5 DEF AgreeInv
<1>8. ASSUME m = "ContractFlightFares" PROVE FaresInv'
  <2>1. MissingFares = {} /\ FaresWithoutSeats = {}
    BY <1>2, <1>8 DEF Refuses
  <2>2. ASSUME NEW f \in StoredFlights, NEW c \in FareClasses
        PROVE  <<f, c>> \in DOMAIN db.fares <=> \E s \in SeatsOfFlight(f) : ClassAt[s] = c
    BY <2>1 DEF MissingFares, FaresWithoutSeats
  <2>3. StoredFlights' = StoredFlights /\ \A f : SeatsOfFlight(f)' = SeatsOfFlight(f)
    BY <1>2 DEF StoredFlights, SeatsOfFlight
  <2> QED
    BY <1>2, <2>2, <2>3 DEF FaresInv
<1> QED
  BY <1>3, <1>5, <1>6, <1>7, <1>8 DEF FitInv

-------------------------------------------------------------------------------
(* Migrations of rows *)

LEMMA RowsMigrated ==
  ASSUME CarryInv, FitInv, NEW m, applied' = applied \cup {m}, UNCHANGED <<before, moved>>,
         m \in {Move, "BackfillFlightFares", "AddPaymentReconciliation"},
         db'.flights = db.flights, db'.seats = db.seats, db'.passengers = db.passengers,
         AgreeInv', FaresInv', DueInv'
  PROVE  FitInv'
<1>1. \A n : n # m => (Has(n)' <=> Has(n))
  BY Recorded
<1>2. /\ Has("BackfillFlightReferences")' <=> Has("BackfillFlightReferences")
      /\ Has("ContractFlightReferences")' <=> Has("ContractFlightReferences")
      /\ Has("AddAircraftScheduleExclusion")' <=> Has("AddAircraftScheduleExclusion")
      /\ Has("BackfillFlightSeats")' <=> Has("BackfillFlightSeats")
      /\ Has("CreateBookingPassengers")' <=> Has("CreateBookingPassengers")
      /\ Has("AddPassengerFareSnapshot")' <=> Has("AddPassengerFareSnapshot")
      /\ Has(Reconcile)' <=> Has(Reconcile)
  BY <1>1 DEF Move, Reconcile
<1> QED
  BY <1>2, FlightsKept, SeatsKept, PassengersKept DEF FitInv

LEMMA MoveFits ==
  ASSUME CarryInv, FitInv, NEW r \in Runners, MoveBookingsToLifecycle(r)
  PROVE  FitInv'
<1>1. PICK rows : Migrate(r, Move, [db EXCEPT !.bookings = rows])
  BY DEF MoveBookingsToLifecycle, Move
<1>2. /\ db' = [db EXCEPT !.bookings = rows] /\ applied' = applied \cup {Move}
      /\ UNCHANGED <<before, moved>>
  BY <1>1 DEF Migrate
<1>3. /\ db'.flights = db.flights /\ db'.seats = db.seats /\ db'.passengers = db.passengers
      /\ db'.fares = db.fares /\ db'.payments = db.payments /\ db'.due = db.due
  BY <1>2 DEF CarryInv, RowsInv, Tables
<1>4. ~Has(Reconcile)
  <2>1. Move \notin Repeatable
    BY DEF Move, Repeatable
  <2>2. \A n \in Names : Position[Move] < Position[n] => ~Has(n)
    BY <1>1, <2>1, RunsInOrder DEF CarryInv
  <2> QED
    BY <2>2, NamedOrder
<1>5. \A n : n # Move => (Has(n)' <=> Has(n))
  BY <1>2, Recorded
<1>6. AgreeInv' /\ FaresInv' /\ DueInv'
  <2>1. AgreeInv'
    BY <1>4, <1>5 DEF AgreeInv, Move, Reconcile
  <2>2. FaresInv' /\ DueInv'
    BY <1>2, <1>3, <1>5, FaresKept, DueKept DEF FitInv, Move
  <2> QED
    BY <2>1, <2>2
<1> QED
  BY <1>2, <1>3, <1>6, RowsMigrated

LEMMA FaresMigrationFits ==
  ASSUME CarryInv, FitInv, NEW r \in Runners, BackfillFlightFares(r)
  PROVE  FitInv'
<1>1. PICK rows : Migrate(r, "BackfillFlightFares", [db EXCEPT !.fares = rows])
  BY DEF BackfillFlightFares
<1>2. /\ db' = [db EXCEPT !.fares = rows] /\ applied' = applied \cup {"BackfillFlightFares"}
      /\ UNCHANGED <<before, moved>> /\ ~Has("ContractFlightFares")
  BY <1>1 DEF Migrate, Conflicts
<1>3. /\ db'.flights = db.flights /\ db'.seats = db.seats /\ db'.passengers = db.passengers
      /\ db'.bookings = db.bookings /\ db'.payments = db.payments /\ db'.due = db.due
  BY <1>2 DEF CarryInv, RowsInv, Tables
<1>4. \A n : n # "BackfillFlightFares" => (Has(n)' <=> Has(n))
  BY <1>2, Recorded
<1>5. AgreeInv' /\ FaresInv' /\ DueInv'
  <2>1. FaresInv'
    BY <1>2, <1>4 DEF FaresInv
  <2>2. AgreeInv' /\ DueInv'
    BY <1>2, <1>3, <1>4, AgreeKept, DueKept DEF FitInv, Reconcile
  <2> QED
    BY <2>1, <2>2
<1> QED
  BY <1>2, <1>3, <1>5, RowsMigrated

LEMMA DueFits ==
  ASSUME CarryInv, FitInv, NEW r \in Runners, AddPaymentReconciliation(r)
  PROVE  FitInv'
<1> DEFINE owed == {b \in Bookings : db.payments[b] = "REFUND_PENDING"}
<1>1. /\ db' = [db EXCEPT !.due = owed] /\ applied' = applied \cup {"AddPaymentReconciliation"}
      /\ UNCHANGED <<before, moved>> /\ Processing = {}
  BY DEF AddPaymentReconciliation, Migrate, Refuses
<1>2. /\ db'.flights = db.flights /\ db'.seats = db.seats /\ db'.passengers = db.passengers
      /\ db'.bookings = db.bookings /\ db'.payments = db.payments /\ db'.fares = db.fares
      /\ db'.due = owed
  BY <1>1 DEF CarryInv, RowsInv, Tables
<1>3. owed = {b \in Bookings : db.payments[b] \in {"PROCESSING", "REFUND_PENDING"}}
  BY <1>1 DEF Processing
<1>4. \A n : n # "AddPaymentReconciliation" => (Has(n)' <=> Has(n))
  BY <1>1, Recorded
<1>5. DueInv'
  BY <1>2, <1>3 DEF DueInv
<1>6. AgreeInv' /\ FaresInv'
  BY <1>1, <1>2, <1>4, AgreeKept, FaresKept DEF FitInv, Reconcile
<1> QED
  BY <1>1, <1>2, <1>5, <1>6, RowsMigrated

\* Migrations of the passengers, which have one each until they are reconciled.
LEMMA PassengersMigrated ==
  ASSUME CarryInv, FitInv, NEW m \in {"CreateBookingPassengers", "AddPassengerFareSnapshot"},
         applied' = applied \cup {m}, UNCHANGED <<before, moved>>,
         NEW rows, db' = [db EXCEPT !.passengers = rows], DOMAIN rows = Bookings, AgreeInv',
         \A b \in Bookings : /\ \E n \in 0..MaxPassengers : DOMAIN rows[b] = 1..n
                             /\ \A i \in DOMAIN rows[b] : PassengerInv(rows[b][i])'
                             /\ Has(Reconcile) \/ rows[b] = <<rows[b][1]>>
  PROVE  FitInv'
<1>1. /\ db'.flights = db.flights /\ db'.seats = db.seats /\ db'.passengers = rows
      /\ db'.bookings = db.bookings /\ db'.payments = db.payments /\ db'.fares = db.fares
      /\ db'.due = db.due
  BY DEF CarryInv, RowsInv, Tables
<1>2. \A n : n # m => (Has(n)' <=> Has(n))
  BY Recorded
<1>3. m # Reconcile
  BY DEF Reconcile
<1>4. FlightsInv' /\ SeatsInv' /\ FaresInv' /\ DueInv'
  BY <1>1, <1>2, <1>3, FlightsKept, SeatsKept, FaresKept, DueKept DEF FitInv
<1>5. PassengersInv'
  <2>1. \A b \in Bookings : ~Has(Reconcile) => before.bookings[b].status \in Tickets
    BY DEF FitInv, PassengersInv
  <2> QED
    BY <1>1, <1>2, <1>3, <2>1 DEF PassengersInv, PassengerInv
<1> QED
  BY <1>4, <1>5 DEF FitInv

LEMMA PassengersFit ==
  ASSUME CarryInv, FitInv, NEW r \in Runners, CreateBookingPassengers(r)
  PROVE  FitInv'
<1> DEFINE own(b) == {seat \in DOMAIN db.seats : db.seats[seat].booking = b}
           copy(b) == [place |-> IF own(b) = {} THEN Null ELSE (CHOOSE seat \in own(b) : TRUE)[2],
                       class |-> Null, price |-> 0]
<1>1. PICK rows : /\ rows = [b \in Bookings |-> <<copy(b)>>]
                  /\ Migrate(r, "CreateBookingPassengers", [db EXCEPT !.passengers = rows])
  BY DEF CreateBookingPassengers
<1>2. \A b \in Bookings : /\ DOMAIN copy(b) = {"place", "class", "price"} /\ copy(b).price = 0
                          /\ copy(b).place \in Places \cup {Null}
  <2>1. \A seat \in DOMAIN db.seats : seat[2] \in Places
    BY DEF FitInv, SeatsInv, SeatInv
  <2>2. ASSUME NEW b \in Bookings, own(b) # {} PROVE (CHOOSE seat \in own(b) : TRUE)[2] \in Places
    BY <2>1, <2>2
  <2> HIDE DEF own
  <2> QED
    BY <2>2
<1> HIDE DEF copy
<1>3. \A b \in Bookings : rows[b] = <<copy(b)>>
  BY <1>1
<1>4. DOMAIN rows = Bookings
  BY <1>1
<1>5. /\ db' = [db EXCEPT !.passengers = rows] /\ applied' = applied \cup {"CreateBookingPassengers"}
      /\ UNCHANGED <<before, moved>>
  BY <1>1 DEF Migrate
<1>6. ~Has(Reconcile)' /\ ~Has("AddPassengerFareSnapshot")'
  <2>1. \A n \in Names : Position["CreateBookingPassengers"] < Position[n] => ~Has(n)
    BY <1>1, RunsInOrder DEF CarryInv, Repeatable
  <2>2. ~Has(Reconcile) /\ ~Has("AddPassengerFareSnapshot")
    BY <2>1, NamedOrder
  <2> QED
    BY <1>5, <2>2 DEF Has, Reconcile
<1>7. ASSUME NEW b \in Bookings
      PROVE  /\ \E n \in 0..MaxPassengers : DOMAIN rows[b] = 1..n
             /\ \A i \in DOMAIN rows[b] : PassengerInv(rows[b][i])'
             /\ rows[b] = <<rows[b][1]>>
  <2>1. PICK p : p = copy(b)
    OBVIOUS
  <2>2. rows[b] = <<p>> /\ DOMAIN <<p>> = 1..1 /\ <<p>>[1] = p
    BY <1>3, <2>1
  <2>3. PassengerInv(p)'
    BY <1>2, <1>6, <2>1 DEF PassengerInv
  <2>4. 1 \in 0..MaxPassengers
    BY NumbersAssumption
  <2>5. \A i \in 1..1 : i = 1
    OBVIOUS
  <2> QED
    BY <2>2, <2>3, <2>4, <2>5
<1>8. AgreeInv'
  BY <1>6 DEF AgreeInv
<1> QED
  BY <1>4, <1>5, <1>7, <1>8, PassengersMigrated

LEMMA SnapshotFits ==
  ASSUME CarryInv, FitInv, NEW r \in Runners, AddPassengerFareSnapshot(r)
  PROVE  FitInv'
<1> DEFINE priced(b, p) ==
             IF p.place = Null \/ p.price # 0 THEN p
             ELSE [p EXCEPT !.class = ClassAt[p.place],
                            !.price = db.fares[db.bookings[b].flight, ClassAt[p.place]]]
           party(b) == [i \in DOMAIN db.passengers[b] |-> priced(b, db.passengers[b][i])]
<1>1. PICK rows : /\ rows = [b \in Bookings |-> party(b)]
                  /\ Migrate(r, "AddPassengerFareSnapshot", [db EXCEPT !.passengers = rows])
  BY DEF AddPassengerFareSnapshot
<1>2. ASSUME NEW b \in Bookings, NEW p, PassengerInv(p), p.price = 0
      PROVE  /\ DOMAIN priced(b, p) = {"place", "class", "price"}
             /\ priced(b, p).place = p.place
             /\ p.place # Null => priced(b, p).class = ClassAt[p.place]
  BY <1>2 DEF PassengerInv
<1>3. \A b \in Bookings : /\ DOMAIN party(b) = DOMAIN db.passengers[b]
                          /\ \A i \in DOMAIN db.passengers[b] :
                               party(b)[i] = priced(b, db.passengers[b][i])
  OBVIOUS
<1> HIDE DEF priced, party
<1>4. DOMAIN rows = Bookings /\ \A b \in Bookings : rows[b] = party(b)
  BY <1>1
<1>5. /\ db' = [db EXCEPT !.passengers = rows] /\ applied' = applied \cup {"AddPassengerFareSnapshot"}
      /\ UNCHANGED <<before, moved>>
  BY <1>1 DEF Migrate
<1>6. ~Has("AddPassengerFareSnapshot") /\ Has(Reconcile)
  <2>1. /\ ~Has("AddPassengerFareSnapshot")
        /\ \A n \in Names : Position[n] < Position["AddPassengerFareSnapshot"] => Has(n)
    BY <1>1, RunsInOrder DEF CarryInv, Repeatable
  <2> QED
    BY <2>1, NamedOrder
<1>7. Has("AddPassengerFareSnapshot")' /\ (Has(Reconcile)' <=> Has(Reconcile))
  BY <1>5 DEF Has, Reconcile
<1>8. ASSUME NEW b \in Bookings, NEW i \in DOMAIN db.passengers[b]
      PROVE  /\ PassengerInv(rows[b][i])'
             /\ rows[b][i].place = db.passengers[b][i].place
  <2>1. PICK p : p = db.passengers[b][i]
    OBVIOUS
  <2>2. PassengerInv(p) /\ p.price = 0
    BY <1>6, <2>1 DEF FitInv, PassengersInv, PassengerInv
  <2>3. rows[b][i] = priced(b, p)
    BY <1>3, <1>4, <2>1
  <2>4. PICK q : q = priced(b, p)
    OBVIOUS
  <2>5. /\ DOMAIN q = {"place", "class", "price"} /\ q.place = p.place
        /\ p.place # Null => q.class = ClassAt[p.place]
    BY <1>2, <2>2, <2>4
  <2>6. PassengerInv(q)'
    BY <1>7, <2>2, <2>5 DEF PassengerInv
  <2> QED
    BY <2>1, <2>3, <2>4, <2>5, <2>6
<1>9. ASSUME NEW b \in Bookings
      PROVE  /\ DOMAIN rows[b] = DOMAIN db.passengers[b]
             /\ \E n \in 0..MaxPassengers : DOMAIN rows[b] = 1..n
  BY <1>3, <1>4 DEF FitInv, PassengersInv
<1>10. AgreeInv'
  <2>1. db'.seats = db.seats /\ db'.bookings = db.bookings /\ db'.passengers = rows
    BY <1>5 DEF CarryInv, RowsInv, Tables
  <2> QED
    BY <1>7, <1>8, <1>9, <2>1, AgreeKept DEF FitInv
<1> QED
  BY <1>4, <1>5, <1>6, <1>8, <1>9, <1>10, PassengersMigrated

\* The backfill adds the seats that are missing on the aircraft and gives free seats to
\* bookings that have none.
LEMMA SeatsBackfilled ==
  ASSUME RowsInv
  PROVE
  /\ DOMAIN PairedSeats(CopiedSeats) =
       {seat \in StoredFlights \X Places : seat[2] \in PlacesOn[db.flights[seat[1]].aircraft]}
         \cup DOMAIN db.seats
  /\ \A seat \in DOMAIN PairedSeats(CopiedSeats) :
       \/ seat \in DOMAIN db.seats /\ PairedSeats(CopiedSeats)[seat] = db.seats[seat]
       \/ /\ seat \notin DOMAIN db.seats
          /\ PairedSeats(CopiedSeats)[seat] = [status |-> "AVAILABLE", booking |-> Null]
       \/ \E b \in Unseated : PairedSeats(CopiedSeats)[seat] = [status |-> "BOOKED", booking |-> b]
  /\ \A seat \in DOMAIN db.seats :
       db.seats[seat].status # "AVAILABLE" => PairedSeats(CopiedSeats)[seat] = db.seats[seat]
<1> DEFINE places == {seat \in StoredFlights \X Places :
                        seat[2] \in PlacesOn[db.flights[seat[1]].aircraft]}
           unseated(f) == {b \in Unseated : db.bookings[b].flight = f}
           free(f) == {s \in Places : <<f, s>> \in DOMAIN CopiedSeats /\ CopiedSeats[f, s].status = "AVAILABLE"}
           taker(seat) == {b \in unseated(seat[1]) : /\ seat[2] \in free(seat[1])
                             /\ Rank(b, unseated(seat[1])) = Rank(seat[2], free(seat[1]))}
<1>1. /\ DOMAIN CopiedSeats = places \cup DOMAIN db.seats
      /\ \A seat \in DOMAIN CopiedSeats : CopiedSeats[seat] =
           IF seat \in DOMAIN db.seats THEN db.seats[seat] ELSE [status |-> "AVAILABLE", booking |-> Null]
  BY DEF CopiedSeats
<1>2. PICK paired : paired = PairedSeats(CopiedSeats)
  OBVIOUS
<1>3. /\ DOMAIN paired = DOMAIN CopiedSeats
      /\ \A seat \in DOMAIN CopiedSeats : paired[seat] =
           IF taker(seat) = {} THEN CopiedSeats[seat]
           ELSE [status |-> "BOOKED", booking |-> CHOOSE b \in taker(seat) : TRUE]
  BY <1>2 DEF PairedSeats
<1>4. \A seat : taker(seat) \subseteq Unseated /\ (taker(seat) # {} => seat[2] \in free(seat[1]))
  OBVIOUS
<1>5. ASSUME NEW f, NEW s \in free(f) PROVE CopiedSeats[<<f, s>>].status = "AVAILABLE"
  OBVIOUS
<1> HIDE DEF taker, free, places
<1>6. \A seat : taker(seat) # {} => (CHOOSE b \in taker(seat) : TRUE) \in Unseated
  BY <1>4
<1>7. ASSUME NEW seat \in DOMAIN paired
      PROVE  \/ seat \in DOMAIN db.seats /\ paired[seat] = db.seats[seat]
             \/ /\ seat \notin DOMAIN db.seats
                /\ paired[seat] = [status |-> "AVAILABLE", booking |-> Null]
             \/ \E b \in Unseated : paired[seat] = [status |-> "BOOKED", booking |-> b]
  BY <1>1, <1>3, <1>6
<1>8. DOMAIN paired = places \cup DOMAIN db.seats
  BY <1>1, <1>3
<1>9. ASSUME NEW seat \in DOMAIN db.seats, db.seats[seat].status # "AVAILABLE"
      PROVE  paired[seat] = db.seats[seat]
  <2>1. seat = <<seat[1], seat[2]>>
    BY DEF RowsInv
  <2>2. CopiedSeats[seat] = db.seats[seat] /\ seat \in DOMAIN CopiedSeats
    BY <1>1
  <2>3. seat[2] \notin free(seat[1])
    BY <1>5, <1>9, <2>1, <2>2
  <2> QED
    BY <1>3, <1>4, <2>2, <2>3
<1> QED
  BY <1>2, <1>7, <1>8, <1>9 DEF places

LEMMA SeatsMigrationFits ==
  ASSUME CarryInv, FitInv, NEW r \in Runners, BackfillFlightSeats(r)
  PROVE  FitInv'
<1>1. PICK seats : /\ seats = PairedSeats(CopiedSeats)
                   /\ Migrate(r, "BackfillFlightSeats", [db EXCEPT !.seats = seats])
  BY DEF BackfillFlightSeats
<1>2. /\ db' = [db EXCEPT !.seats = seats] /\ applied' = applied \cup {"BackfillFlightSeats"}
      /\ UNCHANGED <<before, moved>>
  BY <1>1 DEF Migrate
<1>3. /\ db'.seats = seats /\ db'.flights = db.flights /\ db'.passengers = db.passengers
      /\ db'.bookings = db.bookings /\ db'.payments = db.payments /\ db'.fares = db.fares
      /\ db'.due = db.due
  BY <1>2 DEF CarryInv, RowsInv, Tables
<1>4. /\ DOMAIN seats = {seat \in StoredFlights \X Places : seat[2] \in PlacesOn[db.flights[seat[1]].aircraft]}
                          \cup DOMAIN db.seats
      /\ \A seat \in DOMAIN seats :
           \/ seat \in DOMAIN db.seats /\ seats[seat] = db.seats[seat]
           \/ seat \notin DOMAIN db.seats /\ seats[seat] = [status |-> "AVAILABLE", booking |-> Null]
           \/ \E b \in Unseated : seats[seat] = [status |-> "BOOKED", booking |-> b]
      /\ \A seat \in DOMAIN db.seats :
           db.seats[seat].status # "AVAILABLE" => seats[seat] = db.seats[seat]
  BY <1>1, SeatsBackfilled DEF CarryInv
<1>5. \A n : n # "BackfillFlightSeats" => (Has(n)' <=> Has(n))
  BY <1>2, Recorded
<1>6. Has("BackfillFlightSeats")'
  BY <1>2 DEF Has
<1>7. Has("ContractFlightReferences") /\ (Has("ContractFlightFares") => Has("BackfillFlightSeats"))
  <2>1. /\ \A n \in Names : Position[n] < Position["BackfillFlightSeats"] => Has(n)
        /\ OrderInv
    BY <1>1, MigrateInOrder DEF CarryInv
  <2> QED
    BY <2>1, NamedOrder DEF OrderInv
<1>8. StoredFlights' = StoredFlights
  BY <1>3 DEF StoredFlights
<1>9. ASSUME NEW f \in StoredFlights
      PROVE  /\ SeatsOfFlight(f)' = PlacesOn[db.flights[f].aircraft]
             /\ Has("BackfillFlightSeats") /\ f \notin moved => SeatsOfFlight(f)' = SeatsOfFlight(f)
  <2>1. PlacesOn[db.flights[f].aircraft] \subseteq Places
    BY <1>7, NumbersAssumption DEF FitInv, FlightsInv, FlightInv
  <2>2. SeatsOfFlight(f) \subseteq PlacesOn[db.flights[f].aircraft]
    BY DEF FitInv, SeatsInv, SeatsOfFlight
  <2>3. \A s \in Places : <<f, s>> \in DOMAIN seats <=>
          s \in PlacesOn[db.flights[f].aircraft] \/ s \in SeatsOfFlight(f)
    BY <1>4 DEF SeatsOfFlight
  <2>4. SeatsOfFlight(f)' = {s \in Places : <<f, s>> \in DOMAIN seats}
    BY <1>3 DEF SeatsOfFlight
  <2>5. SeatsOfFlight(f)' = PlacesOn[db.flights[f].aircraft]
    BY <2>1, <2>2, <2>3, <2>4
  <2> QED
    BY <2>5 DEF FitInv, SeatsInv
<1>10. FlightsInv' /\ PassengersInv' /\ DueInv'
  BY <1>2, <1>3, <1>5, FlightsKept, PassengersKept, DueKept DEF FitInv, Reconcile
<1>11. SeatsInv'
  <2>1. ASSUME NEW seat \in DOMAIN seats PROVE SeatInv(seat)'
    <3>1. PICK row : row = seats[seat]
      OBVIOUS
    <3>2. seat \in StoredFlights \X Places
      BY <1>4 DEF FitInv, SeatsInv, SeatInv
    <3>3. \/ seat \in DOMAIN db.seats /\ row = db.seats[seat]
          \/ row = [status |-> "AVAILABLE", booking |-> Null]
          \/ \E b \in Bookings : row = [status |-> "BOOKED", booking |-> b] /\ b # Null
      BY <1>4, <3>1, NumbersAssumption DEF Unseated
    <3>4. /\ row.status \in {"AVAILABLE", "HELD", "BOOKED"}
          /\ row.booking \in Bookings \cup {Null}
          /\ row.status = "AVAILABLE" <=> row.booking = Null
          /\ ~Has(Reconcile) => row.status # "HELD"
      <4>1. CASE seat \in DOMAIN db.seats /\ row = db.seats[seat]
        BY <4>1 DEF FitInv, SeatsInv, SeatInv
      <4>2. CASE row = [status |-> "AVAILABLE", booking |-> Null]
        BY <4>2
      <4>3. CASE \E b \in Bookings : row = [status |-> "BOOKED", booking |-> b] /\ b # Null
        BY <4>3
      <4> QED
        BY <3>3, <4>1, <4>2, <4>3
    <3>5. Has(Reconcile)' <=> Has(Reconcile)
      BY <1>5 DEF Reconcile
    <3> QED
      BY <1>3, <1>8, <3>1, <3>2, <3>4, <3>5 DEF SeatInv
  <2> QED
    BY <1>2, <1>3, <1>6, <1>8, <1>9, <2>1 DEF SeatsInv
<1>12. AgreeInv'
  <2> SUFFICES ASSUME Has(Reconcile) PROVE PartiesSeated'
    BY <1>5 DEF AgreeInv, Reconcile
  <2>1. Unseated = {}
    <3>1. Has(Move)
      BY NamedOrder DEF CarryInv, OrderInv
    <3>2. \A b \in Bookings : db.bookings[b].status = Carried(b) /\ before.bookings[b].status \in Statuses
      BY <3>1 DEF CarryInv, BookingsInv
    <3>3. \A b \in Bookings : db.bookings[b].status # "active"
      BY <3>2 DEF Carried, LifecycleStatus, Statuses, Tickets, Lifecycle
    <3> QED
      BY <3>3 DEF Unseated
  <2>2. \A seat \in DOMAIN seats :
          \/ seat \in DOMAIN db.seats /\ seats[seat] = db.seats[seat]
          \/ seat \notin DOMAIN db.seats /\ seats[seat].booking \notin Bookings
    BY <1>4, <2>1, NumbersAssumption
  <2>3. DOMAIN db.seats \subseteq DOMAIN seats
    BY <1>4
  <2>4. PartiesSeated
    BY DEF FitInv, AgreeInv
  <2>5. ASSUME NEW b \in Bookings, NEW i PROVE PassengerSeat(b, i)' = PassengerSeat(b, i)
    BY <1>3 DEF PassengerSeat
  <2>6. ASSUME NEW b \in Bookings
        PROVE  LET onBoard == db.bookings[b].status \in {"HELD", "CONFIRMED"}
                   party == DOMAIN db.passengers[b]
               IN /\ \A seat \in DOMAIN seats :
                       /\ seats[seat].booking = b <=> onBoard /\ \E i \in party : PassengerSeat(b, i) = seat
                       /\ seats[seat].booking = b =>
                            seats[seat].status = IF db.bookings[b].status = "HELD" THEN "HELD" ELSE "BOOKED"
                  /\ onBoard => /\ party # {}
                                /\ \A i \in party : PassengerSeat(b, i) \in DOMAIN seats
                                /\ \A i, j \in party : PassengerSeat(b, i) = PassengerSeat(b, j) => i = j
    BY <2>2, <2>3, <2>4 DEF PartiesSeated
  <2> QED
    BY <1>3, <2>5, <2>6 DEF PartiesSeated
<1>13. FaresInv'
  <2>1. Has("ContractFlightFares")' <=> Has("ContractFlightFares")
    BY <1>5
  <2>2. ASSUME Has("ContractFlightFares"), NEW f \in StoredFlights \ moved, NEW c \in FareClasses
        PROVE  <<f, c>> \in DOMAIN db.fares <=> \E s \in SeatsOfFlight(f)' : ClassAt[s] = c
    <3>1. SeatsOfFlight(f)' = SeatsOfFlight(f)
      BY <1>7, <1>9, <2>2
    <3> QED
      BY <2>2, <3>1 DEF FitInv, FaresInv
  <2> QED
    BY <1>2, <1>3, <1>8, <2>1, <2>2 DEF FaresInv, FareClasses
<1> QED
  BY <1>10, <1>11, <1>12, <1>13 DEF FitInv

-------------------------------------------------------------------------------
LEMMA FitStep == CarryInv /\ FitInv /\ [Next]_vars => FitInv'
<1> SUFFICES ASSUME CarryInv, FitInv, [Next]_vars PROVE FitInv'
  OBVIOUS
<1>1. CASE UNCHANGED <<db, applied, before, moved>>
  <2>1. \A m : Has(m)' <=> Has(m)
    BY <1>1 DEF Has
  <2> QED
    BY <1>1, <2>1, FlightsKept, SeatsKept, PassengersKept, AgreeKept, FaresKept, DueKept DEF FitInv
<1>2. ASSUME NEW r \in Runners, Start(r) \/ Refuse(r) \/ Kill(r) PROVE FitInv'
  BY <1>1, <1>2 DEF Start, Refuse, Kill
<1>3. ASSUME NEW r \in Runners, Step(r), ~Refuse(r) PROVE FitInv'
  BY <1>3, SchemaFits, ReferencesFit, SeatsMigrationFits, MoveFits, PassengersFit,
     FaresMigrationFits, SnapshotFits, DueFits DEF Step
<1>4. CASE Repairs
  BY <1>4, FlightRepairsFit, BiggerAircraftFits, CounterFits, RowRepairsFit, SeatRepairsFit DEF Repairs
<1> QED
  BY <1>1, <1>2, <1>3, <1>4 DEF Next, vars

-------------------------------------------------------------------------------
(* The tables as the booking code reads them *)

\* Flight and place are read back from the number of a seat.
LEMMA SeatNumbering ==
  /\ \A f \in Flights, s \in Places :
       /\ SeatNumber(f, s) \in SeatNumbers /\ SeatNumber(f, s) # 0
       /\ SeatOf(SeatNumber(f, s)) = <<f, s>>
  /\ \A n \in SeatNumbers : \E f \in Flights, s \in Places : n = SeatNumber(f, s) /\ SeatOf(n) = <<f, s>>
<1>1. ASSUME NEW f \in Flights, NEW s \in Places
      PROVE  SeatNumber(f, s) # 0 /\ SeatOf(SeatNumber(f, s)) = <<f, s>>
  <2>1. f \in Nat \ {0} /\ s \in 1..99
    BY NumbersAssumption
  <2>2. (100 * f + s) \div 100 = f /\ (100 * f + s) % 100 = s /\ 100 * f + s # 0
    BY <2>1
  <2> QED
    BY <2>2 DEF SeatNumber, SeatOf
<1> QED
  BY <1>1 DEF SeatNumbers

\* The passengers' seats as Inventory has them.
PaxSeats(b) == [i \in 1..MaxPassengers |->
  IF i \in DOMAIN db.passengers[b] /\ db.passengers[b][i].place # Null
  THEN SeatNumber(db.bookings[b].flight, db.passengers[b][i].place) ELSE 0]

StatusOfSeat(n) == IF SeatOf(n) \in DOMAIN db.seats THEN db.seats[SeatOf(n)].status ELSE "AVAILABLE"
BookingOfSeat(n) == IF SeatOf(n) \in DOMAIN db.seats THEN db.seats[SeatOf(n)].booking ELSE Null

LEMMA PaxSeatsRead ==
  ASSUME CarryInv, FitInv, NEW b \in Bookings
  PROVE  /\ PaxSeats(b) \in [1..MaxPassengers -> SeatNumbers \cup {0}]
         /\ \A i \in 1..MaxPassengers : PaxSeats(b)[i] # 0 =>
              /\ i \in DOMAIN db.passengers[b]
              /\ db.passengers[b][i].place \in Places
              /\ SeatOf(PaxSeats(b)[i]) = PassengerSeat(b, i)
              /\ PaxSeats(b)[i] = SeatNumber(db.bookings[b].flight, db.passengers[b][i].place)
         /\ \A i \in DOMAIN db.passengers[b] : db.passengers[b][i].place \in Places =>
              i \in 1..MaxPassengers /\ PaxSeats(b)[i] # 0
         /\ db.bookings[b].flight \in Flights
         /\ \E n \in 0..MaxPassengers : DOMAIN db.passengers[b] = 1..n
<1>1. db.bookings[b].flight \in Flights
  BY DEF CarryInv, BookingsInv
<1>2. \A i \in DOMAIN db.passengers[b] : db.passengers[b][i].place \in Places \cup {Null}
  BY DEF FitInv, PassengersInv, PassengerInv
<1>3. PICK n \in 0..MaxPassengers : DOMAIN db.passengers[b] = 1..n
  BY DEF FitInv, PassengersInv
<1>4. 1..n \subseteq 1..MaxPassengers
  BY <1>3, NumbersAssumption
<1>5. \A i \in 1..MaxPassengers : PaxSeats(b)[i] =
        IF i \in DOMAIN db.passengers[b] /\ db.passengers[b][i].place # Null
        THEN SeatNumber(db.bookings[b].flight, db.passengers[b][i].place) ELSE 0
  BY DEF PaxSeats
<1>6. ASSUME NEW i \in DOMAIN db.passengers[b], db.passengers[b][i].place \in Places
      PROVE  /\ i \in 1..MaxPassengers /\ PaxSeats(b)[i] # 0
             /\ PaxSeats(b)[i] \in SeatNumbers
             /\ SeatOf(PaxSeats(b)[i]) = PassengerSeat(b, i)
             /\ PaxSeats(b)[i] = SeatNumber(db.bookings[b].flight, db.passengers[b][i].place)
  <2>1. db.passengers[b][i].place # Null /\ i \in 1..MaxPassengers
    BY <1>3, <1>4, <1>6, NumbersAssumption
  <2>2. PaxSeats(b)[i] = SeatNumber(db.bookings[b].flight, db.passengers[b][i].place)
    BY <1>5, <2>1
  <2> QED
    BY <1>1, <1>6, <2>1, <2>2, SeatNumbering DEF PassengerSeat
<1>7. ASSUME NEW i \in 1..MaxPassengers, PaxSeats(b)[i] # 0
      PROVE  i \in DOMAIN db.passengers[b] /\ db.passengers[b][i].place \in Places
  BY <1>2, <1>5, <1>7
<1>8. PaxSeats(b) \in [1..MaxPassengers -> SeatNumbers \cup {0}]
  <2>1. \A i \in 1..MaxPassengers : PaxSeats(b)[i] \in SeatNumbers \cup {0}
    BY <1>6, <1>7
  <2> QED
    BY <2>1 DEF PaxSeats
<1> QED
  BY <1>1, <1>3, <1>6, <1>7, <1>8

LEMMA RowsMatch ==
  ASSUME CarryInv, FitInv, PartiesSeated, NEW n \in SeatNumbers, NEW b \in Bookings
  PROVE  /\ BookingOfSeat(n) = b <=>
              /\ db.bookings[b].status \in {"HELD", "CONFIRMED"}
              /\ n \in {PaxSeats(b)[i] : i \in 1..MaxPassengers} \ {0}
         /\ BookingOfSeat(n) = b =>
              StatusOfSeat(n) = IF db.bookings[b].status = "HELD" THEN "HELD" ELSE "BOOKED"
         /\ BookingOfSeat(n) = Null <=> StatusOfSeat(n) = "AVAILABLE"
<1>1. PICK f \in Flights, s \in Places : n = SeatNumber(f, s) /\ SeatOf(n) = <<f, s>> /\ n # 0
  BY SeatNumbering
<1>2. n \in {PaxSeats(b)[i] : i \in 1..MaxPassengers} \ {0} <=>
        \E i \in DOMAIN db.passengers[b] : PassengerSeat(b, i) = <<f, s>>
  <2>1. ASSUME NEW i \in 1..MaxPassengers, PaxSeats(b)[i] = n
        PROVE  i \in DOMAIN db.passengers[b] /\ PassengerSeat(b, i) = <<f, s>>
    BY <1>1, <2>1, PaxSeatsRead
  <2>2. ASSUME NEW i \in DOMAIN db.passengers[b], PassengerSeat(b, i) = <<f, s>>
        PROVE  i \in 1..MaxPassengers /\ PaxSeats(b)[i] = n
    <3>1. db.passengers[b][i].place = s /\ db.bookings[b].flight = f
      BY <2>2 DEF PassengerSeat
    <3>2. i \in 1..MaxPassengers /\ PaxSeats(b)[i] # 0
      BY <3>1, PaxSeatsRead
    <3> QED
      BY <1>1, <3>1, <3>2, PaxSeatsRead
  <2> QED
    BY <1>1, <2>1, <2>2
<1>3. /\ \A seat \in DOMAIN db.seats :
           /\ db.seats[seat].booking = b <=>
                /\ db.bookings[b].status \in {"HELD", "CONFIRMED"}
                /\ \E i \in DOMAIN db.passengers[b] : PassengerSeat(b, i) = seat
           /\ db.seats[seat].booking = b =>
                db.seats[seat].status = IF db.bookings[b].status = "HELD" THEN "HELD" ELSE "BOOKED"
      /\ db.bookings[b].status \in {"HELD", "CONFIRMED"} =>
           \A i \in DOMAIN db.passengers[b] : PassengerSeat(b, i) \in DOMAIN db.seats
  BY DEF PartiesSeated
<1>4. CASE <<f, s>> \in DOMAIN db.seats
  <2>1. BookingOfSeat(n) = db.seats[<<f, s>>].booking /\ StatusOfSeat(n) = db.seats[<<f, s>>].status
    BY <1>1, <1>4 DEF BookingOfSeat, StatusOfSeat
  <2>2. db.seats[<<f, s>>].status = "AVAILABLE" <=> db.seats[<<f, s>>].booking = Null
    BY <1>4 DEF FitInv, SeatsInv, SeatInv
  <2> QED
    BY <1>2, <1>3, <1>4, <2>1, <2>2
<1>5. CASE <<f, s>> \notin DOMAIN db.seats
  <2>1. BookingOfSeat(n) = Null /\ StatusOfSeat(n) = "AVAILABLE"
    BY <1>1, <1>5 DEF BookingOfSeat, StatusOfSeat
  <2>2. Null # b
    BY NumbersAssumption
  <2> QED
    BY <1>2, <1>3, <1>5, <2>1, <2>2
<1> QED
  BY <1>4, <1>5

LEMMA PartyApart ==
  ASSUME CarryInv, FitInv, PartiesSeated, NEW b \in Bookings, db.bookings[b].status \in {"HELD", "CONFIRMED"}
  PROVE  /\ PaxSeats(b)[1] # 0
         /\ \A i, j \in 1..MaxPassengers : i < j /\ PaxSeats(b)[i] = 0 => PaxSeats(b)[j] = 0
         /\ \A i, j \in 1..MaxPassengers : i # j /\ PaxSeats(b)[i] # 0 => PaxSeats(b)[i] # PaxSeats(b)[j]
         /\ \A i \in 1..MaxPassengers : PaxSeats(b)[i] # 0 =>
              SeatOf(PaxSeats(b)[i])[1] = db.bookings[b].flight
<1>1. PICK n \in 0..MaxPassengers : DOMAIN db.passengers[b] = 1..n
  BY PaxSeatsRead
<1>2. /\ 1..n # {}
      /\ \A i \in 1..n : PassengerSeat(b, i) \in DOMAIN db.seats
      /\ \A i, j \in 1..n : PassengerSeat(b, i) = PassengerSeat(b, j) => i = j
  <2>1. /\ DOMAIN db.passengers[b] # {}
        /\ \A i \in DOMAIN db.passengers[b] : PassengerSeat(b, i) \in DOMAIN db.seats
        /\ \A i, j \in DOMAIN db.passengers[b] : PassengerSeat(b, i) = PassengerSeat(b, j) => i = j
    BY DEF PartiesSeated
  <2> QED
    BY <1>1, <2>1
<1>3. \A i \in 1..n : db.passengers[b][i].place \in Places
  <2>1. DOMAIN db.seats \subseteq Flights \X Places
    BY DEF CarryInv, RowsInv
  <2> QED
    BY <1>2, <2>1 DEF PassengerSeat
<1>4. \A i \in 1..n : i \in 1..MaxPassengers /\ PaxSeats(b)[i] # 0
  BY <1>1, <1>3, PaxSeatsRead
<1>5. \A i \in 1..MaxPassengers : PaxSeats(b)[i] # 0 =>
        i \in 1..n /\ SeatOf(PaxSeats(b)[i]) = PassengerSeat(b, i)
  BY <1>1, PaxSeatsRead
<1>6. n \in Nat /\ 1 \in 1..n /\ MaxPassengers \in Nat
  BY <1>1, <1>2, NumbersAssumption
<1>7. \A i, j \in 1..MaxPassengers : i < j /\ PaxSeats(b)[i] = 0 => PaxSeats(b)[j] = 0
  BY <1>4, <1>5, <1>6
<1>8. \A i, j \in 1..MaxPassengers : i # j /\ PaxSeats(b)[i] # 0 => PaxSeats(b)[i] # PaxSeats(b)[j]
  BY <1>2, <1>5
<1>9. \A i \in 1..MaxPassengers : PaxSeats(b)[i] # 0 =>
        SeatOf(PaxSeats(b)[i])[1] = db.bookings[b].flight
  BY <1>5 DEF PassengerSeat
<1> QED
  BY <1>4, <1>6, <1>7, <1>8, <1>9

LEMMA InventoryReads ==
  ASSUME CarryInv, FitInv, PartiesSeated, Has("AddPassengerFareSnapshot")
  PROVE  Inventory!SeatsMatchBookings /\ Inventory!PartySeatedApart /\ Inventory!PricedClassKept
<1> DEFINE party(b) == [i \in 1..MaxPassengers |->
      IF i \in DOMAIN db.passengers[b] /\ db.passengers[b][i].place # Null
      THEN SeatNumber(db.bookings[b].flight, db.passengers[b][i].place) ELSE 0]
<1>1. \A b \in Bookings : party(b) = PaxSeats(b)
  BY DEF PaxSeats
<1>2. Inventory!SeatsMatchBookings
  <2>1. Inventory!SeatsMatchBookings <=>
          \A n \in SeatNumbers, b \in Bookings :
            /\ BookingOfSeat(n) = b <=>
                 /\ db.bookings[b].status \in {"HELD", "CONFIRMED"}
                 /\ n \in {PaxSeats(b)[i] : i \in 1..MaxPassengers} \ {0}
            /\ BookingOfSeat(n) = b =>
                 StatusOfSeat(n) = IF db.bookings[b].status = "HELD" THEN "HELD" ELSE "BOOKED"
            /\ BookingOfSeat(n) = Null <=> StatusOfSeat(n) = "AVAILABLE"
    BY DEF Inventory!SeatsMatchBookings, Inventory!ActiveStatuses, Inventory!SeatsOf, Inventory!Positions,
       BookingOfSeat, StatusOfSeat, PaxSeats
  <2> QED
    BY <2>1, RowsMatch
<1>3. Inventory!PartySeatedApart
  <2>1. Inventory!PartySeatedApart <=>
          \A b \in Bookings : db.bookings[b].status \in {"HELD", "CONFIRMED"} =>
            /\ /\ PaxSeats(b) \in [1..MaxPassengers -> SeatNumbers \cup {0}]
               /\ PaxSeats(b)[1] # 0
               /\ \A i, j \in 1..MaxPassengers : i < j /\ PaxSeats(b)[i] = 0 => PaxSeats(b)[j] = 0
               /\ \A i, j \in 1..MaxPassengers : i # j /\ PaxSeats(b)[i] # 0 => PaxSeats(b)[i] # PaxSeats(b)[j]
            /\ \A s \in {PaxSeats(b)[i] : i \in 1..MaxPassengers} \ {0} :
                 [n \in SeatNumbers |-> SeatOf(n)[1]][s] = db.bookings[b].flight
    BY DEF Inventory!PartySeatedApart, Inventory!ActiveStatuses, Inventory!SeatsOf, Inventory!Positions,
       Inventory!IsParty, PaxSeats
  <2>2. \A b \in Bookings : PaxSeats(b) \in [1..MaxPassengers -> SeatNumbers \cup {0}]
    BY PaxSeatsRead
  <2>3. ASSUME NEW b \in Bookings, db.bookings[b].status \in {"HELD", "CONFIRMED"},
               NEW s \in {PaxSeats(b)[i] : i \in 1..MaxPassengers} \ {0}
        PROVE  [n \in SeatNumbers |-> SeatOf(n)[1]][s] = db.bookings[b].flight
    <3>1. SeatOf(s)[1] = db.bookings[b].flight
      BY <2>3, PartyApart
    <3>2. s \in SeatNumbers
      BY <2>2
    <3> QED
      BY <3>1, <3>2
  <2>4. \A b \in Bookings : db.bookings[b].status \in {"HELD", "CONFIRMED"} =>
          /\ PaxSeats(b)[1] # 0
          /\ \A i, j \in 1..MaxPassengers : i < j /\ PaxSeats(b)[i] = 0 => PaxSeats(b)[j] = 0
          /\ \A i, j \in 1..MaxPassengers : i # j /\ PaxSeats(b)[i] # 0 => PaxSeats(b)[i] # PaxSeats(b)[j]
    BY PartyApart
  <2> QED
    BY <2>1, <2>2, <2>3, <2>4
<1>4. Inventory!PricedClassKept
  <2>1. Inventory!PricedClassKept <=>
          \A b \in Bookings, i \in 1..MaxPassengers : PaxSeats(b)[i] # 0 =>
            [n \in SeatNumbers |-> ClassAt[SeatOf(n)[2]]][PaxSeats(b)[i]] =
              IF i \in DOMAIN db.passengers[b] THEN db.passengers[b][i].class ELSE Null
    BY DEF Inventory!PricedClassKept, Inventory!Positions, PaxSeats
  <2>2. ASSUME NEW b \in Bookings, NEW i \in 1..MaxPassengers, PaxSeats(b)[i] # 0
        PROVE  [n \in SeatNumbers |-> ClassAt[SeatOf(n)[2]]][PaxSeats(b)[i]] =
                 IF i \in DOMAIN db.passengers[b] THEN db.passengers[b][i].class ELSE Null
    <3>1. /\ i \in DOMAIN db.passengers[b] /\ db.passengers[b][i].place \in Places
          /\ SeatOf(PaxSeats(b)[i])[2] = db.passengers[b][i].place
      BY <2>2, PaxSeatsRead DEF PassengerSeat
    <3>2. PaxSeats(b)[i] \in SeatNumbers
      BY <2>2, PaxSeatsRead
    <3>3. db.passengers[b][i].class = ClassAt[db.passengers[b][i].place]
      BY <3>1, NumbersAssumption DEF FitInv, PassengersInv, PassengerInv
    <3> QED
      BY <3>1, <3>2, <3>3
  <2> QED
    BY <2>1, <2>2
<1> QED
  BY <1>2, <1>3, <1>4

\* Once the last migration is recorded, the rows are ones the present code can work on, whatever
\* an earlier release left, whoever is refused, killed or overlaps, and whatever is repaired
\* (MigratedDataFits).
THEOREM MigratedRowsFit == Spec => []MigratedDataFits
<1>1. CarryInv /\ FitInv => MigratedDataFits
  <2> SUFFICES ASSUME CarryInv, FitInv, Complete
               PROVE  /\ Inventory!SeatsMatchBookings /\ Inventory!PartySeatedApart
                      /\ Inventory!PricedClassKept
                      /\ \A f \in StoredFlights :
                           /\ f \notin moved => {c \in FareClasses : <<f, c>> \in DOMAIN db.fares}
                                                  = {ClassAt[s] : s \in SeatsOfFlight(f)}
                           /\ db.flights[f].status = IF before.flights[f].status = Null THEN "OPEN"
                                                     ELSE before.flights[f].status
                           /\ Fits(f, db.flights[f].aircraft)
                           /\ db.flights[f].originId # db.flights[f].destinationId
                      /\ db.due = {b \in Bookings : db.payments[b] \in {"PROCESSING", "REFUND_PENDING"}}
    BY DEF MigratedDataFits
  <2>1. /\ Has("BackfillFlightReferences") /\ Has("ContractFlightReferences")
        /\ Has("AddAircraftScheduleExclusion") /\ Has(Reconcile) /\ Has("ContractFlightFares")
        /\ Has("AddPassengerFareSnapshot") /\ Has("AddPaymentReconciliation")
    BY NamedOrder DEF Complete, Names
  <2>2. Inventory!SeatsMatchBookings /\ Inventory!PartySeatedApart /\ Inventory!PricedClassKept
    BY <2>1, InventoryReads DEF FitInv, AgreeInv
  <2>3. ASSUME NEW f \in StoredFlights
        PROVE  /\ f \notin moved => {c \in FareClasses : <<f, c>> \in DOMAIN db.fares}
                                      = {ClassAt[s] : s \in SeatsOfFlight(f)}
               /\ db.flights[f].status = IF before.flights[f].status = Null THEN "OPEN"
                                         ELSE before.flights[f].status
               /\ Fits(f, db.flights[f].aircraft)
               /\ db.flights[f].originId # db.flights[f].destinationId
    <3>1. f \notin moved => \A c \in FareClasses :
            <<f, c>> \in DOMAIN db.fares <=> \E s \in SeatsOfFlight(f) : ClassAt[s] = c
      BY <2>1 DEF FitInv, FaresInv
    <3>2. \A s \in SeatsOfFlight(f) : ClassAt[s] \in FareClasses
      BY DEF SeatsOfFlight, FareClasses
    <3>3. f \notin moved => {c \in FareClasses : <<f, c>> \in DOMAIN db.fares}
                              = {ClassAt[s] : s \in SeatsOfFlight(f)}
      BY <3>1, <3>2
    <3>4. FlightInv(f) /\ Clashes = {}
      BY <2>1 DEF FitInv, FlightsInv
    <3>5. Fits(f, db.flights[f].aircraft)
      BY <3>4 DEF Clashes, Fits
    <3> QED
      BY <2>1, <3>3, <3>4, <3>5 DEF FlightInv
  <2>4. db.due = {b \in Bookings : db.payments[b] \in {"PROCESSING", "REFUND_PENDING"}}
    BY <2>1 DEF FitInv, DueInv
  <2> QED
    BY <2>2, <2>3, <2>4
<1>2. Init => CarryInv /\ FitInv
  BY InitCarry, InitFit
<1>3. CarryInv /\ FitInv /\ [Next]_vars => (CarryInv /\ FitInv)'
  BY CarryStep, FitStep
<1> QED
  BY <1>1, <1>2, <1>3, PTL DEF Spec
===============================================================================
