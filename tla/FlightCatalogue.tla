----------------------------- MODULE FlightCatalogue -----------------------------
(***************************************************************************)
(* What administrators write: airports, aircraft with their seats, flights *)
(* and their opening (register-airport.ts, register-aircraft.ts,           *)
(* create-flight.ts, open-flight.ts and their Postgres repositories).      *)
(*                                                                         *)
(* A request runs its statements one by one while others run theirs.  Its  *)
(* transaction's writes stay in `pending' until it commits; Postgres lets  *)
(* others see them only through the unique indexes, the exclusion          *)
(* constraint and the row locks, which make them wait.                     *)
(***************************************************************************)
EXTENDS FlightRules, SeatLayout

CONSTANTS
  Requests,   \* the requests of a run; the flight a request creates takes its number as id
  Worlds,     \* where a run may start: [airports, aircraft, flights, requests, asks, searched]
  Turnaround, \* AIRCRAFT_TURNAROUND_MS
  MaxTime     \* bound of the clock

\* What flight_aircraft_occupancy lets be stored: [departure, arrival + turnaround)
\* of one aircraft is free of another flight of it.
Occupies(x, y) ==
  /\ x.aircraft = y.aircraft
  /\ x.departure < y.arrival + Turnaround
  /\ y.departure < x.arrival + Turnaround

RowColumns ==
  {"kind", "number", "origin", "destination", "aircraft", "departure", "arrival",
   "status", "fares", "free", "taken"}

\* Flights and aircraft as earlier requests left them, and requests as they are parsed.
CanStartFrom(w) ==
  /\ w.requests \subseteq Requests
  /\ DOMAIN w.flights \cap Requests = {}
  /\ \A f \in DOMAIN w.flights :
       LET row == w.flights[f] IN
       /\ DOMAIN row = RowColumns
       /\ row.aircraft \in DOMAIN w.aircraft
       /\ row.free \cup row.taken = w.aircraft[row.aircraft]
       /\ DOMAIN row.fares = ClassesOfSeats(row.free \cup row.taken)
       /\ DOMAIN row.fares \subseteq LayoutClasses
       /\ \A c \in DOMAIN row.fares : row.fares[c] \in Nat
       /\ f \in Nat /\ row.departure \in Int
  /\ IsFiniteSet(DOMAIN w.flights)
  /\ \A f, g \in DOMAIN w.flights :
       f # g /\ "CANCELLED" \notin {w.flights[f].status, w.flights[g].status}
         => ~Occupies(w.flights[f], w.flights[g])
  /\ \A reg \in DOMAIN w.aircraft : \A s, u \in w.aircraft[reg] :
       s.row = u.row => s.fareClass = u.fareClass
  /\ \A a \in w.asks : a.kind = "aircraft" => a.cabins \in Seq(Cabins)
  /\ \A a \in w.asks : a.kind = "flight" =>
       a.departure \in Int /\ \A c \in DOMAIN a.fares : a.fares[c] \in Int

ASSUME CatalogueAssumption ==
  /\ Requests \subseteq Nat \ {0}
  /\ {Turnaround, MaxTime} \subseteq Nat
  /\ \A w \in Worlds : CanStartFrom(w)

VARIABLES
  now,       \* the clock
  airports,  \* codes of the committed airports
  aircraft,  \* registration -> seats of the committed aircraft
  flights,   \* id -> row of the committed flights, with their seats and fares
  ask,       \* what each request asks for
  phase,     \* how far each request has come
  pending,   \* what its open transaction has written
  waitsFor,  \* the request whose transaction its statement waits for, or 0
  answer,    \* what it was answered
  audits,    \* committed audit entries
  outbox     \* committed flight-created rows, by flight

tables == <<airports, aircraft, flights, audits, outbox>>
requestVars == <<ask, phase, pending, waitsFor, answer>>
catalogueVars == <<now, tables, requestVars>>

Nothing == [kind |-> "nothing"]

CatalogueInit(w) ==
  /\ now = 0
  /\ airports = w.airports
  /\ aircraft = w.aircraft
  /\ flights = w.flights
  /\ \E asked \in [w.requests -> w.asks] :
       /\ {asked[r] : r \in w.requests} = w.asks
       /\ ask = [r \in Requests |-> IF r \in w.requests THEN asked[r] ELSE Nothing]
  /\ phase = [r \in Requests |-> IF ask[r] = Nothing THEN "done" ELSE "asked"]
  /\ pending = [r \in Requests |-> Nothing]
  /\ waitsFor = [r \in Requests |-> 0]
  /\ answer = [r \in Requests |-> "none"]
  /\ audits = {}
  /\ outbox = {}

-----------------------------------------------------------------------------
\* The rows a transaction has inserted and not yet committed.

\* Same value in a unique index: airport code, registration, or flight number
\* and departure.
SameKey(x, y) ==
  /\ x.kind = y.kind
  /\ CASE x.kind = "airport" -> x.code = y.code
       [] x.kind = "aircraft" -> x.registration = y.registration
       [] x.kind = "flight" -> x.number = y.number /\ x.departure = y.departure
       [] x.kind = "open" -> x.flight = y.flight
       [] OTHER -> FALSE

IsCommittedKey(x) ==
  CASE x.kind = "airport" -> x.code \in airports
    [] x.kind = "aircraft" -> x.registration \in DOMAIN aircraft
    [] x.kind = "flight" -> \E f \in DOMAIN flights : SameKey(flights[f], x)

\* A wait is over when the other transaction has ended.
Blocked(r) == waitsFor[r] # 0 /\ pending[waitsFor[r]] # Nothing

-----------------------------------------------------------------------------
\* A request is answered; its transaction, if it has one, leaves nothing.

\* Mutant of Finish: the transaction is not ended.
FinishLeavesOpen(r, a) ==
  /\ phase' = [phase EXCEPT ![r] = "done"]
  /\ answer' = [answer EXCEPT ![r] = a]
  /\ UNCHANGED <<now, tables, ask, pending, waitsFor>>

Finish(r, a) ==
  /\ phase' = [phase EXCEPT ![r] = "done"]
  /\ answer' = [answer EXCEPT ![r] = a]
  /\ pending' = [pending EXCEPT ![r] = Nothing]
  /\ waitsFor' = [waitsFor EXCEPT ![r] = 0]
  /\ UNCHANGED <<now, tables, ask>>

Write(r, row, next) ==
  /\ pending' = [pending EXCEPT ![r] = row]
  /\ phase' = [phase EXCEPT ![r] = next]
  /\ UNCHANGED <<now, tables, ask, waitsFor, answer>>

\* An insert into a table with a unique index: a committed twin is a refusal,
\* an uncommitted one is waited for.
InsertUnique(r, row, next) ==
  /\ \A q \in Requests \ {r} : ~SameKey(pending[q], row)
  /\ IF IsCommittedKey(row) THEN Finish(r, "duplicate") ELSE Write(r, row, next)

-----------------------------------------------------------------------------
\* POST /api/airports and POST /api/aircraft.  `wellFormed' says whether each field,
\* by itself, has the form that is asked of it.

ValidAirportInput(a) == a.wellFormed

RegisterAirport(r) ==
  /\ phase[r] = "asked" /\ ask[r].kind = "airport"
  /\ IF ValidAirportInput(ask[r]) THEN InsertUnique(r, ask[r], "written") ELSE Finish(r, "invalid")

ValidAircraftInput(a) == a.wellFormed /\ AcceptsLayout(a.cabins)

\* The aircraft and all its seats.  A place listed twice would violate PK_seats:
\* AcceptedLayoutsFit says that none is.
RegisterAircraft(r) ==
  /\ phase[r] = "asked" /\ ask[r].kind = "aircraft"
  /\ IF ValidAircraftInput(ask[r])
     THEN InsertUnique(r, [kind |-> "aircraft", registration |-> ask[r].registration,
                           seats |-> ToSet(ExpandSeatLayout(ask[r].cabins))], "written")
     ELSE Finish(r, "invalid")

-----------------------------------------------------------------------------
\* POST /api/flights.

ValidFlightInput(a) ==
  /\ a.wellFormed
  /\ a.origin # a.destination
  /\ a.departure < a.arrival
  /\ \A c \in DOMAIN a.fares : c \in LayoutClasses /\ a.fares[c] > 0

\* Mutant of FaresMatchSeats: a fare for a class without seats is let through.
FaresCoverSeats(fares, seats) == ClassesOfSeats(seats) \subseteq DOMAIN fares

\* A fare for every class the aircraft has seats in, and for no other.
FaresMatchSeats(fares, seats) == DOMAIN fares = ClassesOfSeats(seats)

\* The references are read before the transaction.  They are never edited or
\* removed, so what was found stays true and the foreign keys always hold.
ReadReferences(r) ==
  /\ phase[r] = "asked" /\ ask[r].kind = "flight"
  /\ IF /\ ValidFlightInput(ask[r])
        /\ {ask[r].origin, ask[r].destination} \subseteq airports
        /\ ask[r].aircraft \in DOMAIN aircraft
        /\ FaresMatchSeats(ask[r].fares, aircraft[ask[r].aircraft])
     THEN /\ phase' = [phase EXCEPT ![r] = "inserting"]
          /\ UNCHANGED <<now, tables, ask, pending, waitsFor, answer>>
     ELSE Finish(r, "invalid")

\* The flight's row enters the indexes one after the other: first the unique
\* one, then the exclusion constraint's, whose check comes after the entry.
InsertFlight(r) ==
  /\ phase[r] = "inserting"
  /\ InsertUnique(r, ask[r], "checking")

RivalsOf(r) ==
  {q \in Requests \ {r} :
     phase[q] \in {"checking", "written"} /\ pending[q].kind = "flight" /\ Occupies(pending[q], pending[r])}

\* The row of the flight, with the seats copied from the layout and its fares.
FlightRow(a, seats) ==
  [kind |-> "flight", number |-> a.number, origin |-> a.origin, destination |-> a.destination,
   aircraft |-> a.aircraft, departure |-> a.departure, arrival |-> a.arrival,
   status |-> "SCHEDULED", fares |-> a.fares, free |-> seats, taken |-> {}]

\* A stored flight that has the aircraft in the wanted window.
IsOccupied(row) ==
  \E f \in DOMAIN flights : flights[f].status # "CANCELLED" /\ Occupies(flights[f], row)

CopySeatsAndFares(r) == Write(r, FlightRow(ask[r], aircraft[ask[r].aircraft]), "written")

\* Mutant of CheckSchedule: an uncommitted rival is passed over, not waited for.
CheckScheduleCommitted(r) ==
  /\ phase[r] = "checking"
  /\ IF IsOccupied(pending[r]) THEN Finish(r, "aircraft-unavailable") ELSE CopySeatsAndFares(r)

\* Mutant of CheckSchedule: once waited, it is refused, even if the rival has
\* been rolled back.
CheckScheduleOnce(r) ==
  /\ phase[r] = "checking" /\ ~Blocked(r)
  /\ \/ (IsOccupied(pending[r]) \/ waitsFor[r] # 0) /\ Finish(r, "aircraft-unavailable")
     \/ \E q \in RivalsOf(r) :
          /\ waitsFor' = [waitsFor EXCEPT ![r] = q]
          /\ UNCHANGED <<now, tables, ask, phase, pending, answer>>
     \/ /\ ~IsOccupied(pending[r]) /\ RivalsOf(r) = {} /\ waitsFor[r] = 0
        /\ CopySeatsAndFares(r)

\* A committed flight in the window refuses it; an uncommitted one is waited
\* for and the check starts again; then seats and fares are copied.
CheckSchedule(r) ==
  /\ phase[r] = "checking" /\ ~Blocked(r)
  /\ \/ IsOccupied(pending[r]) /\ Finish(r, "aircraft-unavailable")
     \/ \E q \in RivalsOf(r) :
          /\ waitsFor' = [waitsFor EXCEPT ![r] = q]
          /\ UNCHANGED <<now, tables, ask, phase, pending, answer>>
     \/ /\ ~IsOccupied(pending[r]) /\ RivalsOf(r) = {}
        /\ CopySeatsAndFares(r)

\* Transactions that wait for each other in a circle, or in several.
WaitCircle(S) == (\A q \in S : Blocked(q)) /\ {waitsFor[q] : q \in S} = S

\* Postgres aborts a transaction whose wait closes a cycle (40P01), which the
\* repository answers as a refusal; committing the aborted transaction undoes it.
DeadlockVictim(r) ==
  /\ \E S \in SUBSET Requests : r \in S /\ WaitCircle(S)
  /\ Finish(r, "aircraft-unavailable")

-----------------------------------------------------------------------------
\* POST /api/flights/:id/open.

\* The flight is read and judged before the transaction.
ReadToOpen(r) ==
  /\ phase[r] = "asked" /\ ask[r].kind = "open"
  /\ IF ask[r].flight \notin DOMAIN flights THEN Finish(r, "not-found")
     ELSE LET f == flights[ask[r].flight] IN
          IF CanOpen(f.status, f.departure, now)
          THEN /\ phase' = [phase EXCEPT ![r] = "judged"]
               /\ UNCHANGED <<now, tables, ask, pending, waitsFor, answer>>
          ELSE Finish(r, "invalid-status")

\* Mutant of ChangeStatus: the status is set whatever it has become.
ChangeStatusBlindly(r) ==
  /\ phase[r] = "judged"
  /\ \A q \in Requests \ {r} : ~SameKey(pending[q], ask[r])
  /\ Write(r, ask[r], "written")

\* Compare-and-set on the stored status, after any other change of the row.
ChangeStatus(r) ==
  /\ phase[r] = "judged"
  /\ \A q \in Requests \ {r} : ~SameKey(pending[q], ask[r])
  /\ IF flights[ask[r].flight].status = "SCHEDULED"
     THEN Write(r, ask[r], "written")
     ELSE Finish(r, "status-changed")

-----------------------------------------------------------------------------
\* A table with one row more.
Inserted(table, key, row) ==
  [k \in DOMAIN table \cup {key} |-> IF k = key THEN row ELSE table[k]]

\* Audit entry, outbox row for a flight, and COMMIT.
Commit(r) ==
  /\ phase[r] = "written"
  /\ LET row == pending[r] IN
     /\ airports' = IF row.kind = "airport" THEN airports \cup {row.code} ELSE airports
     /\ aircraft' = IF row.kind = "aircraft"
                    THEN Inserted(aircraft, row.registration, row.seats)
                    ELSE aircraft
     /\ flights' = CASE row.kind = "flight" -> Inserted(flights, r, row)
                     [] row.kind = "open" -> [flights EXCEPT ![row.flight].status = "OPEN"]
                     [] OTHER -> flights
     /\ audits' = audits \cup
          {[action |-> row.kind, request |-> r, flight |-> IF row.kind = "open" THEN row.flight ELSE r]}
     /\ outbox' = IF row.kind = "flight" THEN outbox \cup {r} ELSE outbox
  /\ phase' = [phase EXCEPT ![r] = "done"]
  /\ answer' = [answer EXCEPT ![r] = "done"]
  /\ pending' = [pending EXCEPT ![r] = Nothing]
  /\ UNCHANGED <<now, ask, waitsFor>>

\* A statement fails, or the process dies: Postgres rolls back.
Fail(r) ==
  /\ phase[r] \in {"inserting", "checking", "judged", "written"}
  /\ Finish(r, "threw")

Tick ==
  /\ now < MaxTime
  /\ now' = now + 1
  /\ UNCHANGED <<tables, requestVars>>

\* A hold takes a free seat of a flight on sale.
TakeSeat ==
  \E f \in DOMAIN flights : \E s \in flights[f].free :
    /\ OnSaleSql(flights[f].status, flights[f].departure, now)
    /\ flights' = [flights EXCEPT ![f].free = @ \ {s}, ![f].taken = @ \cup {s}]
    /\ UNCHANGED <<now, airports, aircraft, audits, outbox, requestVars>>

\* An ended booking gives a seat back.
GiveSeatBack ==
  \E f \in DOMAIN flights : \E s \in flights[f].taken :
    /\ flights' = [flights EXCEPT ![f].free = @ \cup {s}, ![f].taken = @ \ {s}]
    /\ UNCHANGED <<now, airports, aircraft, audits, outbox, requestVars>>

Proceed(r) ==
  \/ RegisterAirport(r) \/ RegisterAircraft(r)
  \/ ReadReferences(r) \/ InsertFlight(r) \/ CheckSchedule(r) \/ DeadlockVictim(r)
  \/ ReadToOpen(r) \/ ChangeStatus(r)
  \/ Commit(r)

CatalogueNext ==
  \/ \E r \in Requests : Proceed(r) \/ Fail(r)
  \/ Tick \/ TakeSeat \/ GiveSeatBack

\* A process goes on with its requests, and Postgres with their statements.
CatalogueFairness == \A r \in Requests : WF_catalogueVars(Proceed(r))

-----------------------------------------------------------------------------
\* An aircraft never has two flights whose times on it overlap (BR-FLT-03,
\* BR-FLT-08), however many administrators schedule it at once.
AircraftNotDoubleBooked ==
  \A f, g \in DOMAIN flights :
    f # g /\ "CANCELLED" \notin {flights[f].status, flights[g].status}
      => ~(/\ flights[f].aircraft = flights[g].aircraft
           /\ flights[f].departure < flights[g].arrival + Turnaround
           /\ flights[g].departure < flights[f].arrival + Turnaround)

\* A flight's seats are its aircraft's, each place once, and its fares cover
\* exactly their classes (BR-REF-03, BR-FLT-09), although the layout is
\* checked in one statement and copied in another.
FlightsMatchTheirAircraft ==
  \A f \in DOMAIN flights :
    LET seats == flights[f].free \cup flights[f].taken IN
    /\ seats = aircraft[flights[f].aircraft]
    /\ \A s, u \in seats : s.row = u.row => s.fareClass = u.fareClass
    /\ DOMAIN flights[f].fares = {s.fareClass : s \in seats}

\* Each opening, registration and creation that was answered left one audit
\* entry, each flight created one event, and no flight was opened twice.
RecordsMatchAnswers ==
  /\ \A r \in Requests :
       answer[r] = "done" <=> Cardinality({a \in audits : a.request = r}) = 1
  /\ outbox = {r \in Requests : answer[r] = "done" /\ ask[r].kind = "flight"}
  /\ \A a, b \in audits : a.action = "open" /\ b.action = "open" /\ a.flight = b.flight => a = b

\* Administrators who ask for one aircraft at the same time are not all turned
\* away: unless a transaction failed, one of those refused lost to a flight
\* that is stored and not cancelled (the 409 of a deadlock victim is about
\* somebody's flight).
SomeRacerWins ==
  (/\ \A r \in Requests : phase[r] = "done" /\ answer[r] # "threw"
   /\ \E r \in Requests : answer[r] = "aircraft-unavailable")
    => \E r \in Requests : answer[r] = "aircraft-unavailable" /\ IsOccupied(ask[r])

\* A layout the validation accepts can always be stored: no two of its seats
\* share a place, whatever cabins it was described by (BR-REF-03, BR-REF-06).
AcceptedLayoutsFit ==
  \A r \in Requests :
    ask[r].kind = "aircraft" /\ phase[r] # "asked" /\ AcceptsLayout(ask[r].cabins)
      => LayoutFits(ask[r].cabins)

\* A request that began is answered: whoever waits for another's transaction
\* is let through or refused, and waiting in a circle is broken up.
AdminRequestsEnd == \A r \in Requests : phase[r] # "done" ~> phase[r] = "done"
================================================================================
