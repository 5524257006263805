------------------------- MODULE BookingTransactions -------------------------
(***************************************************************************)
(* The booking transactions as PostgreSQL runs them under READ COMMITTED,  *)
(* statement by statement and row lock by row lock, to show that together  *)
(* they implement SeatInventory.                                           *)
(*                                                                         *)
(* A statement chooses its rows in the snapshot taken when it starts, then *)
(* locks them one at a time.  After waiting for a row it re-checks its     *)
(* condition on the row's latest committed version, but never looks for    *)
(* rows the snapshot did not show.  A row that fails the re-check stays    *)
(* locked and is left alone.  Writes become visible, and locks are let go, *)
(* when the transaction commits; an aborted one only lets its locks go.    *)
(*                                                                         *)
(* The FOR SHARE locks on flights and fares are left out: share locks do   *)
(* not block each other, and nothing here updates a flight but its opening.*)
(***************************************************************************)
EXTENDS BookingRules

CONSTANTS
  Requests,      \* one-shot transactions of API requests
  Sweepers,      \* expiry jobs, one per API process
  RequestKinds,  \* what each request may be: hold, auto, confirm, cancel or change
  BatchSize,     \* LIMIT of one expiry batch
  Nobody,        \* an unlocked row
  NoRequest,
  MaxTime        \* bound on the clock

Txs == Requests \cup Sweepers

ASSUME TransactionsAssumption ==
  /\ Nobody \notin Txs
  /\ BatchSize \in Nat \ {0}
  /\ RequestKinds \in [Requests -> SUBSET {"hold", "auto", "confirm", "cancel", "change"}]
  /\ IsFiniteSet(Seats)

VARIABLES
  now, flightStatus, status, flightId, holdExpiresAt, paxSeat, paxClass,
  seatStatus, seatBooking,  \* the committed tables, as in SeatInventory
  bookingLock,  \* the transaction holding each bookings row
  seatLock,     \* the transaction holding each flight_seats row
  pc,           \* what each transaction does next
  req,          \* its request: the kind, the arguments and its clock reading t
  rows,         \* seats in the current statement's snapshot still to lock
  outcome       \* how a request ended

Inventory == INSTANCE SeatInventory

flightVars == <<now, flightStatus>>
tables == <<flightVars, status, flightId, holdExpiresAt, paxSeat, paxClass,
            seatStatus, seatBooking>>
locks == <<bookingLock, seatLock>>
local == <<pc, req, rows, outcome>>
vars == <<tables, locks, local>>

Init ==
  /\ Inventory!Init
  /\ bookingLock = [b \in Bookings |-> Nobody]
  /\ seatLock = [s \in Seats |-> Nobody]
  /\ pc = [p \in Txs |-> "idle"]
  /\ req = [p \in Txs |-> NoRequest]
  /\ rows = [p \in Txs |-> {}]
  /\ outcome = [p \in Txs |-> "none"]

LockedSeats(p) == {s \in Seats : seatLock[s] = p}
LockedBookings(p) == {b \in Bookings : bookingLock[b] = p}
DepartureOf(b) == DepartureAt[flightId[b]]

At(p, label, kinds) == pc[p] = label /\ req[p].kind \in kinds

-------------------------------------------------------------------------------
(* Requests *)

UnderWay(p) == pc[p] \notin {"idle", "done"}

\* The bookings that are stored or that a request under way is about.
Drawn == {req[p].b : p \in {q \in Requests : UnderWay(q)}}
         \cup {b \in Bookings : status[b] # "NONE"}

RequestsOf(kind) ==
  CASE kind = "hold" ->
         {[kind |-> kind, b |-> b, f |-> f, party |-> party, t |-> now] :
            b \in Bookings \ Drawn, f \in Flights, party \in Inventory!Parties}
    [] kind = "auto" ->
         {[kind |-> kind, b |-> b, f |-> f, class |-> c, count |-> n, t |-> now] :
            b \in Bookings \ Drawn, f \in Flights, c \in FareClasses, n \in Positions}
    [] kind = "change" ->
         {[kind |-> kind, b |-> b, i |-> i, target |-> s, t |-> now] :
            b \in {c \in Bookings : status[c] # "NONE"}, i \in Positions, s \in Seats}
    [] OTHER ->  \* "confirm" and "cancel"
         {[kind |-> kind, b |-> b, t |-> now] :
            b \in {c \in Bookings : status[c] # "NONE"}}

\* The request reads the clock; its first statement starts later.
Begin(p) ==
  /\ pc[p] = "idle"
  /\ \E kind \in RequestKinds[p] : \E r \in RequestsOf(kind) : req' = [req EXCEPT ![p] = r]
  /\ pc' = [pc EXCEPT ![p] = "scan"]
  /\ UNCHANGED <<tables, locks, rows, outcome>>

\* One clock reading for every batch of the run.
StartSweep(p) ==
  /\ pc[p] = "idle"
  /\ req' = [req EXCEPT ![p] = [kind |-> "expire", t |-> now]]
  /\ pc' = [pc EXCEPT ![p] = "scan"]
  /\ UNCHANGED <<tables, locks, rows, outcome>>

LetGo(p) ==
  /\ bookingLock' = [b \in Bookings |-> IF bookingLock[b] = p THEN Nobody ELSE bookingLock[b]]
  /\ seatLock' = [s \in Seats |-> IF seatLock[s] = p THEN Nobody ELSE seatLock[s]]

\* The transaction ends; a request is answered, the job goes on at label next.
End(p, next, result) ==
  /\ LetGo(p)
  /\ pc' = [pc EXCEPT ![p] = next]
  /\ req' = [req EXCEPT ![p] = IF next = "scan" THEN @ ELSE NoRequest]
  /\ rows' = [rows EXCEPT ![p] = {}]
  /\ outcome' = [outcome EXCEPT ![p] = result]

Committed(p) == End(p, "done", "ok")
Refused(p) == End(p, "done", "refused") /\ UNCHANGED tables
Threw(p) == End(p, "done", "threw") /\ UNCHANGED tables

\* The process crashes, the connection drops, or something the transaction
\* also does (audit, outbox, reference) fails: everything is rolled back.
Abort(p) ==
  /\ UnderWay(p)
  /\ End(p, IF p \in Requests THEN "done" ELSE "idle", "aborted")
  /\ UNCHANGED tables

Goto(p, label) == pc' = [pc EXCEPT ![p] = label]

-------------------------------------------------------------------------------
(* Locking the seats of a statement's snapshot *)

Lowest(S) == CHOOSE s \in S : \A u \in S : s <= u

\* Mutants of NextRow: chosen seats in the order the request lists them; the
\* passenger's own seat before the target.
NextRowAsRequested(p) ==
  IF req[p].kind # "hold" THEN Lowest(rows[p])
  ELSE req[p].party[Lowest({i \in Positions : req[p].party[i] \in rows[p]})]

NextRowMineFirst(p) ==
  IF req[p].kind = "change" /\ paxSeat[req[p].b][req[p].i] \in rows[p]
  THEN paxSeat[req[p].b][req[p].i]
  ELSE Lowest(rows[p])

\* ORDER BY flight, row, letter ... FOR UPDATE.
NextRow(p) == Lowest(rows[p])

LockSeat(p) ==
  /\ At(p, "lock-seats", {"hold", "confirm", "cancel", "expire", "change"})
  /\ rows[p] # {}
  /\ seatLock[NextRow(p)] \in {Nobody, p}
  /\ seatLock' = [seatLock EXCEPT ![NextRow(p)] = p]
  /\ rows' = [rows EXCEPT ![p] = @ \ {NextRow(p)}]
  /\ UNCHANGED <<tables, bookingLock, pc, req, outcome>>

\* Mutant of FreeSeats: the verdict counts rows and forgets their status.
FreeSeatsUnchecked(p) == LockedSeats(p)

\* Of the rows a hold locked, those still free once locked.
FreeSeats(p) == {s \in LockedSeats(p) : seatStatus[s] = "AVAILABLE"}

AutoDone(p) == rows[p] = {} \/ Cardinality(FreeSeats(p)) = req[p].count

\* ORDER BY row, letter LIMIT count FOR UPDATE SKIP LOCKED: never waits.
LockOrSkipSeat(p) ==
  /\ At(p, "lock-seats", {"auto"})
  /\ ~AutoDone(p)
  /\ seatLock' = [seatLock EXCEPT ![NextRow(p)] = IF @ = Nobody THEN p ELSE @]
  /\ rows' = [rows EXCEPT ![p] = @ \ {NextRow(p)}]
  /\ UNCHANGED <<tables, bookingLock, pc, req, outcome>>

-------------------------------------------------------------------------------
(* createBooking: hold, then insert *)

HoldScan(p) ==
  /\ At(p, "scan", {"hold", "auto"})
  /\ LET r == req[p]
         onSale == OnSaleSql(flightStatus[r.f], DepartureAt[r.f], r.t)
         inSnapshot == IF r.kind = "hold"
                       THEN SeatsOf(r.party)
                       ELSE {s \in Seats : ClassOf[s] = r.class /\ seatStatus[s] = "AVAILABLE"}
     IN  rows' = [rows EXCEPT ![p] = {s \in inSnapshot : onSale /\ FlightOf[s] = r.f}]
  /\ Goto(p, "lock-seats")
  /\ UNCHANGED <<tables, locks, req, outcome>>

\* verdict: every requested seat was found, locked, and free.
HoldChosen(p) ==
  /\ At(p, "lock-seats", {"hold"})
  /\ rows[p] = {}
  /\ IF FreeSeats(p) = SeatsOf(req[p].party)
     THEN Inventory!StoreHold(req[p].b, req[p].f, req[p].party, req[p].t) /\ Committed(p)
     ELSE Refused(p)

\* enough: as many free seats as passengers, paired front to back.
HoldAuto(p) ==
  /\ At(p, "lock-seats", {"auto"})
  /\ AutoDone(p)
  /\ IF Cardinality(FreeSeats(p)) = req[p].count
     THEN /\ \E party \in Inventory!Parties :
               /\ SeatsOf(party) = FreeSeats(p)
               /\ FrontToBack(party)
               /\ Inventory!StoreHold(req[p].b, req[p].f, party, req[p].t)
          /\ Committed(p)
     ELSE Refused(p)

-------------------------------------------------------------------------------
(* confirmHold: one statement, no lock taken before it *)

ConfirmMatches(p) == Confirmable(status[req[p].b], holdExpiresAt[req[p].b], req[p].t)

ConfirmScan(p) ==
  /\ At(p, "scan", {"confirm"})
  /\ IF ConfirmMatches(p)
     THEN /\ rows' = [rows EXCEPT ![p] = Inventory!HeldBy(req[p].b)]
          /\ Goto(p, "lock-booking")
          /\ UNCHANGED <<tables, locks, req, outcome>>
     ELSE Refused(p)

\* Mutant of ConfirmLock: no re-check after the wait.
ConfirmLockUnchecked(p) ==
  /\ At(p, "lock-booking", {"confirm"})
  /\ bookingLock[req[p].b] = Nobody
  /\ bookingLock' = [bookingLock EXCEPT ![req[p].b] = p]
  /\ Goto(p, "lock-seats")
  /\ UNCHANGED <<tables, seatLock, req, rows, outcome>>

ConfirmLock(p) ==
  /\ At(p, "lock-booking", {"confirm"})
  /\ bookingLock[req[p].b] = Nobody
  /\ IF ConfirmMatches(p)
     THEN /\ bookingLock' = [bookingLock EXCEPT ![req[p].b] = p]
          /\ Goto(p, "lock-seats")
          /\ UNCHANGED <<tables, seatLock, req, rows, outcome>>
     ELSE Refused(p)

ConfirmCommit(p) ==
  /\ At(p, "lock-seats", {"confirm"})
  /\ rows[p] = {}
  /\ status' = [status EXCEPT ![req[p].b] = "CONFIRMED"]
  /\ seatStatus' = [s \in Seats |->
       IF s \in LockedSeats(p) /\ seatBooking[s] = req[p].b THEN "BOOKED" ELSE seatStatus[s]]
  /\ Committed(p)
  /\ UNCHANGED <<flightVars, flightId, holdExpiresAt, paxSeat, paxClass, seatBooking>>

-------------------------------------------------------------------------------
(* cancel and expireDueHolds *)

\* The seats the statement locked that its bookings still own.
ReleaseLockedSeats(p, ended) ==
  LET freed == {s \in LockedSeats(p) : seatBooking[s] \in ended}
  IN  /\ seatStatus' = [s \in Seats |-> IF s \in freed THEN "AVAILABLE" ELSE seatStatus[s]]
      /\ seatBooking' = [s \in Seats |-> IF s \in freed THEN NoBooking ELSE seatBooking[s]]

EndBookings(p, ended, final) ==
  /\ status' = [b \in Bookings |-> IF b \in ended THEN final ELSE status[b]]
  /\ ReleaseLockedSeats(p, ended)
  /\ UNCHANGED <<flightVars, flightId, holdExpiresAt, paxSeat, paxClass>>

CancelMatches(p) ==
  LET b == req[p].b
  IN  Cancellable(status[b], holdExpiresAt[b], DepartureOf(b), req[p].t)

\* Mutants of CancelPrelockScan: no statement of its own for the lock; or one
\* that locks the booking whatever its status.
CancelWithoutPrelock(p) ==
  /\ At(p, "scan", {"cancel"})
  /\ Goto(p, "cancel-scan")
  /\ UNCHANGED <<tables, locks, req, rows, outcome>>

\* First statement: lock the booking if the snapshot says it can be cancelled.
CancelPrelockScan(p) ==
  /\ At(p, "scan", {"cancel"})
  /\ Goto(p, IF CancelMatches(p) THEN "prelock" ELSE "cancel-scan")
  /\ UNCHANGED <<tables, locks, req, rows, outcome>>

CancelPrelock(p) ==
  /\ At(p, "prelock", {"cancel"})
  /\ bookingLock[req[p].b] = Nobody
  /\ bookingLock' = [bookingLock EXCEPT ![req[p].b] = p]
  /\ Goto(p, "cancel-scan")
  /\ UNCHANGED <<tables, seatLock, req, rows, outcome>>

\* Second statement: a new snapshot, which shows the booking and its seats.
CancelScan(p) ==
  /\ At(p, "cancel-scan", {"cancel"})
  /\ IF CancelMatches(p)
     THEN /\ rows' = [rows EXCEPT ![p] = Inventory!HeldBy(req[p].b)]
          /\ Goto(p, "lock-booking")
     ELSE Goto(p, "classify") /\ UNCHANGED rows
  /\ UNCHANGED <<tables, locks, req, outcome>>

\* Mutant of CancelLock: a statement on a connection of its own, which waits
\* for its own transaction's lock.
CancelLockElsewhere(p) ==
  /\ At(p, "lock-booking", {"cancel"})
  /\ bookingLock[req[p].b] = Nobody
  /\ bookingLock' = [bookingLock EXCEPT ![req[p].b] = p]
  /\ Goto(p, IF CancelMatches(p) THEN "lock-seats" ELSE "classify")
  /\ UNCHANGED <<tables, seatLock, req, rows, outcome>>

CancelLock(p) ==
  /\ At(p, "lock-booking", {"cancel"})
  /\ bookingLock[req[p].b] \in {Nobody, p}
  /\ bookingLock' = [bookingLock EXCEPT ![req[p].b] = p]
  /\ Goto(p, IF CancelMatches(p) THEN "lock-seats" ELSE "classify")
  /\ UNCHANGED <<tables, seatLock, req, rows, outcome>>

CancelCommit(p) ==
  /\ At(p, "lock-seats", {"cancel"})
  /\ rows[p] = {}
  /\ EndBookings(p, {req[p].b}, "CANCELLED")
  /\ Committed(p)

\* Third statement, when nothing was cancelled: only picks the answer.
CancelClassify(p) ==
  LET b == req[p].b
  IN  /\ At(p, "classify", {"cancel"})
      /\ IF ClassifyNotCancelled(status[b], holdExpiresAt[b], DepartureOf(b), req[p].t) = "threw"
         THEN Threw(p)
         ELSE Refused(p)

\* FOR UPDATE SKIP LOCKED over the due holds, oldest first.
DueHolds(p) == {b \in Bookings : DueForExpiry(status[b], holdExpiresAt[b], req[p].t)}

Batches(unlocked) ==
  {due \in SUBSET unlocked :
     /\ Cardinality(due) <= BatchSize
     /\ Cardinality(due) < BatchSize => due = unlocked
     /\ \A b \in due, c \in unlocked \ due : holdExpiresAt[b] <= holdExpiresAt[c]}

ExpireScan(p) ==
  /\ At(p, "scan", {"expire"})
  /\ \E due \in Batches({b \in DueHolds(p) : bookingLock[b] = Nobody}) :
       /\ bookingLock' = [b \in Bookings |-> IF b \in due THEN p ELSE bookingLock[b]]
       /\ rows' = [rows EXCEPT ![p] = {s \in Seats : seatBooking[s] \in due}]
  /\ Goto(p, "lock-seats")
  /\ UNCHANGED <<tables, seatLock, req, outcome>>

\* A full batch is followed by another one unless the run had maxBatches.
ExpireCommit(p) ==
  LET due == LockedBookings(p)
  IN  /\ At(p, "lock-seats", {"expire"})
      /\ rows[p] = {}
      /\ EndBookings(p, due, "EXPIRED")
      /\ \/ Cardinality(due) = BatchSize /\ End(p, "scan", "ok")
         \/ End(p, "idle", "ok")

-------------------------------------------------------------------------------
(* changeSeat *)

\* The booking's lock, then the checks that need no seat.
ChangeLock(p) ==
  LET r == req[p]
      own == paxSeat[r.b][r.i]
      f == flightId[r.b]
  IN  /\ At(p, "scan", {"change"})
      /\ bookingLock[r.b] = Nobody
      /\ IF /\ status[r.b] = "CONFIRMED"
            /\ own \notin {NoSeat, r.target}
            /\ IsBookable(flightStatus[f], DepartureAt[f], r.t)
         THEN /\ bookingLock' = [bookingLock EXCEPT ![r.b] = p]
              /\ rows' = [rows EXCEPT ![p] = {s \in {own, r.target} : FlightOf[s] = f}]
              /\ Goto(p, "lock-seats")
              /\ UNCHANGED <<tables, seatLock, req, outcome>>
         ELSE Refused(p)

OwnsItsSeat(b, s) == seatBooking[s] = b /\ seatStatus[s] = "BOOKED"

\* Mutant of MoveSeat: the display copy is forgotten.
MoveSeatWithoutCopy(b, i, target) ==
  /\ seatStatus' = [seatStatus EXCEPT ![paxSeat[b][i]] = "AVAILABLE", ![target] = "BOOKED"]
  /\ seatBooking' = [seatBooking EXCEPT ![paxSeat[b][i]] = NoBooking, ![target] = b]
  /\ UNCHANGED <<flightVars, status, flightId, holdExpiresAt, paxSeat, paxClass>>

\* Free the old seat, take the new one, and move the display copy.
MoveSeat(b, i, target) ==
  /\ seatStatus' = [seatStatus EXCEPT ![paxSeat[b][i]] = "AVAILABLE", ![target] = "BOOKED"]
  /\ seatBooking' = [seatBooking EXCEPT ![paxSeat[b][i]] = NoBooking, ![target] = b]
  /\ paxSeat' = [paxSeat EXCEPT ![b] = [@ EXCEPT ![i] = target]]
  /\ UNCHANGED <<flightVars, status, flightId, holdExpiresAt, paxClass>>

ChangeCommit(p) ==
  LET b == req[p].b
      i == req[p].i
      own == paxSeat[b][i]
      target == req[p].target
  IN  /\ At(p, "lock-seats", {"change"})
      /\ rows[p] = {}
      /\ CASE ~OwnsItsSeat(b, own) -> Threw(p)
           [] /\ OwnsItsSeat(b, own)
              /\ target \in LockedSeats(p)
              /\ ClassOf[target] = ClassOf[own]
              /\ seatStatus[target] = "AVAILABLE" ->
                MoveSeat(b, i, target) /\ Committed(p)
           [] OTHER -> Refused(p)

-------------------------------------------------------------------------------

Tick == Inventory!Tick /\ UNCHANGED <<locks, local>>

OpenFlight(f) == Inventory!OpenFlight(f, now) /\ UNCHANGED <<locks, local>>

\* What a transaction does once it has begun.
Step(p) ==
  \/ LockSeat(p)
  \/ LockOrSkipSeat(p)
  \/ HoldScan(p)
  \/ HoldChosen(p)
  \/ HoldAuto(p)
  \/ ConfirmScan(p)
  \/ ConfirmLock(p)
  \/ ConfirmCommit(p)
  \/ CancelPrelockScan(p)
  \/ CancelPrelock(p)
  \/ CancelScan(p)
  \/ CancelLock(p)
  \/ CancelCommit(p)
  \/ CancelClassify(p)
  \/ ExpireScan(p)
  \/ ExpireCommit(p)
  \/ ChangeLock(p)
  \/ ChangeCommit(p)

Next ==
  \/ Tick
  \/ \E f \in Flights : OpenFlight(f)
  \/ \E p \in Requests : Begin(p)
  \/ \E p \in Sweepers : StartSweep(p)
  \/ \E p \in Txs : Step(p)
  \/ \E p \in Txs : Abort(p)

Spec == Init /\ [][Next]_vars

\* The processes keep running, the scheduler starts the job again and again,
\* and time passes.  PostgreSQL queues the waiters of a row, so a request for
\* which a row comes free again and again gets it.
Fairness ==
  /\ WF_vars(Tick)
  /\ \A p \in Requests : SF_vars(Step(p))
  /\ \A p \in Sweepers : WF_vars(Step(p)) /\ WF_vars(StartSweep(p))

-------------------------------------------------------------------------------
(* Properties *)

\* At p's reading of the clock the hold was over, but the booking was paid since,
\* by a payment that had read the clock before.
PaidAfterLapse(p) ==
  status[req[p].b] = "CONFIRMED" /\ IsHoldLapsed(holdExpiresAt[req[p].b], req[p].t)

\* What a cancel whose statement missed seats of its booking does to the tables:
\* Inventory!Cancel, but that those seats stay as they are.
CancelLeavingSeats(b, t) ==
  \E freed \in SUBSET Inventory!HeldBy(b) :
    /\ Cancellable(status[b], holdExpiresAt[b], DepartureOf(b), t)
    /\ status' = [status EXCEPT ![b] = "CANCELLED"]
    /\ seatStatus' = [s \in Seats |-> IF s \in freed THEN "AVAILABLE" ELSE seatStatus[s]]
    /\ seatBooking' = [s \in Seats |-> IF s \in freed THEN NoBooking ELSE seatBooking[s]]
    /\ UNCHANGED <<flightVars, flightId, holdExpiresAt, paxSeat, paxClass>>

CancelsLate(p) ==
  At(p, "lock-seats", {"cancel"}) /\ PaidAfterLapse(p) /\ CancelLeavingSeats(req[p].b, req[p].t)

\* Whatever the interleaving of statements, lock waits and rollbacks, the
\* committed tables only ever change as one of SeatInventory's operations
\* allows: no half-held party, no double release, no lost seat.  One case is
\* excepted: a cancel of a booking that was paid only after the cancel had read
\* the clock may leave the booking seats it was moved to meanwhile
\* (CancelledBookingOwnsNoSeat).  But for that, this and Inventory!Init are
\* Inventory!Spec, telling the stuttering steps apart.
StepsImplementInventory ==
  [][Inventory!vars' # Inventory!vars =>
       Inventory!Next \/ \E p \in Requests : CancelsLate(p)]_vars

\* The transaction p waits for, if it waits.
WaitsFor(p) ==
  CASE pc[p] \in {"prelock", "lock-booking"} \/ At(p, "scan", {"change"}) ->
         bookingLock[req[p].b]
    [] pc[p] = "lock-seats" /\ req[p].kind # "auto" /\ rows[p] # {} -> seatLock[NextRow(p)]
    [] OTHER -> Nobody

\* The global lock order (domain-model's table) holds across statements and
\* transactions: no set of them wait on each other, so PostgreSQL never has
\* to abort one with 40P01.
NoLockCycle ==
  \A S \in SUBSET {p \in Txs : WaitsFor(p) # Nobody} :
    S # {} => \E p \in S : WaitsFor(p) \notin S \/ WaitsFor(p) = p

\* Two throws mean "the code disagrees with itself": a CONFIRMED booking's
\* displayed seat that it does not own, and a refused cancel for which no
\* reason is found.  No request reaches the first, also next to seats that a
\* late cancel left behind.  A cancel does reach the second, but only if its
\* booking was paid after it had read the clock past the deadline.
ThrowsOnlyIfPaidAfterLapse ==
  [][\A p \in Requests : outcome'[p] = "threw" /\ outcome[p] # "threw" =>
       At(p, "classify", {"cancel"}) /\ PaidAfterLapse(p)]_vars

\* No seat stays occupied for a booking that was cancelled: the cancel
\* statement sees the seats as they are once it has the booking.
CancelledBookingOwnsNoSeat ==
  \A s \in Seats : seatBooking[s] # NoBooking => status[seatBooking[s]] # "CANCELLED"

\* A request waits for other transactions, never for ever.
RequestsEnd == \A p \in Requests : pc[p] = "scan" ~> pc[p] = "done"

\* Unless the job itself keeps failing, neither SKIP LOCKED nor lock waits
\* keep it from a lapsed hold for ever.
LapsedHoldsSwept ==
  (\A p \in Sweepers : <>[](outcome[p] # "aborted")) => Inventory!LapsedHoldsEnd
===============================================================================
