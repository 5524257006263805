-------------------------- MODULE FlightCatalogueProofs --------------------------
(***************************************************************************)
(* Proofs about FlightCatalogue and FlightSearch, for any number of        *)
(* concurrent requests on any tables earlier requests may have left.       *)
(***************************************************************************)
EXTENDS FlightSearch, SeatLayoutProofs

-------------------------------------------------------------------------------
(* The invariant *)

Phases == {"asked", "inserting", "checking", "judged", "written", "done"}

CatalogueTypes ==
  /\ phase \in [Requests -> Phases]
  /\ waitsFor \in [Requests -> Requests \cup {0}]
  /\ DOMAIN ask = Requests /\ DOMAIN pending = Requests /\ DOMAIN answer = Requests

\* What a transaction is about to commit: a flight fits between the stored ones, and the flight
\* to open is still as scheduled.
WrittenInv(r) ==
  /\ ask[r].kind \in {"airport", "aircraft", "flight", "open"}
  /\ pending[r].kind = ask[r].kind
  /\ ask[r].kind = "flight" =>
       /\ pending[r] = FlightRow(ask[r], pending[r].free)
       /\ \A f \in DOMAIN flights :
            flights[f].status # "CANCELLED" => ~Occupies(flights[f], ask[r])
  /\ ask[r].kind = "open" =>
       /\ pending[r] = ask[r]
       /\ ask[r].flight \in DOMAIN flights
       /\ flights[ask[r].flight].status = "SCHEDULED"

RequestInv(r) ==
  /\ phase[r] # "done" => answer[r] = "none"
  /\ phase[r] \notin {"checking", "written"} => pending[r] = Nothing
  /\ phase[r] \in {"asked", "inserting", "judged"} => waitsFor[r] = 0
  /\ phase[r] \in {"inserting", "checking"} => ask[r].kind = "flight"
  /\ phase[r] = "checking" => pending[r] = ask[r]
  /\ phase[r] = "judged" => ask[r].kind = "open" /\ ask[r].flight \in DOMAIN flights
  /\ phase[r] = "written" => WrittenInv(r)

\* Only a check waits, and only for a flight that wants the aircraft at the same time.
WaitInv(r) ==
  waitsFor[r] # 0 =>
    /\ waitsFor[r] # r /\ phase[waitsFor[r]] \in {"checking", "written", "done"}
    /\ ask[waitsFor[r]].kind = "flight" /\ Occupies(ask[waitsFor[r]], ask[r])
    /\ phase[r] # "checking" => phase[waitsFor[r]] = "done"

\* Two transactions that are about to commit do not contradict each other.
PairInv(q, r) ==
  phase[q] = "written" /\ phase[r] = "written" /\ ask[q].kind = ask[r].kind =>
    /\ ask[r].kind = "flight" => ~Occupies(ask[q], ask[r])
    /\ ask[r].kind = "open" => ask[q].flight # ask[r].flight

FlightsInv ==
  /\ \A f \in DOMAIN flights : DOMAIN flights[f] = RowColumns
  /\ \A f \in DOMAIN flights \cap Requests : answer[f] = "done"
  /\ AircraftNotDoubleBooked

AuditInv ==
  /\ \A a \in audits :
       /\ a.request \in Requests /\ answer[a.request] = "done"
       /\ a.action = "open" =>
            a.flight \in DOMAIN flights /\ flights[a.flight].status # "SCHEDULED"
  /\ \A a, b \in audits :
       a.request = b.request \/ (a.action = "open" /\ b.action = "open" /\ a.flight = b.flight)
         => a = b
  /\ \A r \in Requests : answer[r] = "done" => \E a \in audits : a.request = r
  /\ outbox = {r \in Requests : answer[r] = "done" /\ ask[r].kind = "flight"}

\* Who was turned away lost to a flight that is stored, or to one that is still under way.
RaceInv ==
  (\E r \in Requests : answer[r] = "aircraft-unavailable") /\ (\A r \in Requests : answer[r] # "threw")
    => \E r \in Requests :
         /\ answer[r] = "aircraft-unavailable"
         /\ \/ IsOccupied(ask[r])
            \/ \E q \in Requests : /\ phase[q] \in {"checking", "written"}
                                   /\ ask[q].kind = "flight" /\ Occupies(ask[q], ask[r])

RequestsInv ==
  /\ \A r \in Requests : RequestInv(r) /\ WaitInv(r)
  /\ \A q, r \in Requests : q # r => PairInv(q, r)

CatalogueInv == CatalogueTypes /\ RequestsInv /\ FlightsInv /\ AuditInv /\ RaceInv

LEMMA InitCatalogue == SearchInit => CatalogueInv
<1> SUFFICES ASSUME SearchInit PROVE CatalogueInv
  OBVIOUS
<1>1. PICK w \in Worlds : CatalogueInit(w)
  BY DEF SearchInit
<1>2. CanStartFrom(w)
  BY CatalogueAssumption
<1>3. /\ phase = [r \in Requests |-> IF ask[r] = Nothing THEN "done" ELSE "asked"]
      /\ pending = [r \in Requests |-> Nothing]
      /\ waitsFor = [r \in Requests |-> 0]
      /\ answer = [r \in Requests |-> "none"]
      /\ audits = {} /\ outbox = {} /\ flights = w.flights
      /\ DOMAIN ask = Requests
  BY <1>1 DEF CatalogueInit
<1>4. CatalogueTypes /\ RequestsInv /\ AuditInv /\ RaceInv
  BY <1>3 DEF CatalogueTypes, Phases, RequestsInv, RequestInv, WaitInv, PairInv, AuditInv, RaceInv
<1>5. FlightsInv
  BY <1>2, <1>3 DEF CanStartFrom, FlightsInv, AircraftNotDoubleBooked, Occupies
<1> QED
  BY <1>4, <1>5 DEF CatalogueInv

-------------------------------------------------------------------------------
(* A step of one request that leaves the tables alone *)

LEMMA RequestStep ==
  ASSUME CatalogueInv, NEW r \in Requests, CatalogueTypes', UNCHANGED <<tables, ask>>,
         \A q \in Requests \ {r} :
           /\ phase'[q] = phase[q] /\ pending'[q] = pending[q]
           /\ waitsFor'[q] = waitsFor[q] /\ answer'[q] = answer[q],
         phase[r] # "done", answer'[r] # "done",
         phase[r] \in {"checking", "written"} => phase'[r] \in {"checking", "written", "done"},
         RequestInv(r)', WaitInv(r)',
         \A q \in Requests \ {r} : PairInv(q, r)' /\ PairInv(r, q)',
         RaceInv'
  PROVE  CatalogueInv'
<1>1. ASSUME NEW q \in Requests \ {r} PROVE RequestInv(q)' /\ WaitInv(q)'
  BY DEF CatalogueInv, CatalogueTypes, RequestsInv, RequestInv, WrittenInv, WaitInv, tables, Occupies
<1>2. ASSUME NEW p \in Requests \ {r}, NEW q \in Requests \ {r}, p # q PROVE PairInv(p, q)'
  BY <1>2 DEF CatalogueInv, RequestsInv, PairInv, Occupies
<1>3. RequestsInv'
  BY <1>1, <1>2 DEF RequestsInv
<1>4. answer[r] = "none"
  BY DEF CatalogueInv, RequestsInv, RequestInv
<1>5. FlightsInv'
  BY <1>4 DEF CatalogueInv, FlightsInv, AircraftNotDoubleBooked, tables
<1>6. AuditInv'
  BY <1>4 DEF CatalogueInv, AuditInv, tables
<1> QED
  BY <1>3, <1>5, <1>6 DEF CatalogueInv

LEMMA RaceGoesOn ==
  ASSUME CatalogueInv, NEW r \in Requests, UNCHANGED <<tables, ask>>,
         \A q \in Requests \ {r} : phase'[q] = phase[q] /\ answer'[q] = answer[q],
         answer[r] = "none", answer'[r] # "aircraft-unavailable",
         phase[r] \in {"checking", "written"} =>
           phase'[r] \in {"checking", "written"} \/ answer'[r] = "threw"
  PROVE  RaceInv'
BY DEF CatalogueInv, RaceInv, IsOccupied, Occupies, tables

\* A request that ends takes its rows and its wait with it.
LEMMA FinishStep ==
  ASSUME CatalogueInv, NEW r \in Requests, NEW a, Finish(r, a),
         phase[r] # "done", a # "done", RaceInv'
  PROVE  CatalogueInv'
<1>1. /\ CatalogueTypes' /\ UNCHANGED <<tables, ask>>
      /\ phase'[r] = "done" /\ pending'[r] = Nothing /\ waitsFor'[r] = 0 /\ answer'[r] = a
      /\ \A q \in Requests \ {r} : /\ phase'[q] = phase[q] /\ pending'[q] = pending[q]
                                    /\ waitsFor'[q] = waitsFor[q] /\ answer'[q] = answer[q]
  BY DEF CatalogueInv, CatalogueTypes, Phases, Finish
<1>2. RequestInv(r)' /\ WaitInv(r)' /\ \A q \in Requests \ {r} : PairInv(q, r)' /\ PairInv(r, q)'
  BY <1>1 DEF RequestInv, WaitInv, PairInv
<1> QED
  BY <1>1, <1>2, RequestStep

\* One that is refused for another reason than the aircraft's times.
LEMMA RefusalStep ==
  ASSUME CatalogueInv, NEW r \in Requests, NEW a, Finish(r, a),
         phase[r] # "done", a \notin {"done", "aircraft-unavailable"},
         phase[r] \in {"checking", "written"} => a = "threw"
  PROVE  CatalogueInv'
<1>1. /\ UNCHANGED <<tables, ask>> /\ answer'[r] = a /\ answer[r] = "none"
      /\ \A q \in Requests \ {r} : phase'[q] = phase[q] /\ answer'[q] = answer[q]
  BY DEF CatalogueInv, CatalogueTypes, RequestsInv, RequestInv, Finish
<1>2. RaceInv'
  BY <1>1, RaceGoesOn
<1> QED
  BY <1>2, FinishStep

\* One that goes on, perhaps with rows written.
LEMMA WriteStep ==
  ASSUME CatalogueInv, NEW r \in Requests, NEW row, NEW next \in {"inserting", "checking", "judged", "written"},
         phase' = [phase EXCEPT ![r] = next], UNCHANGED <<tables, ask, waitsFor, answer>>,
         DOMAIN pending' = Requests, pending'[r] = row,
         \A q \in Requests \ {r} : pending'[q] = pending[q],
         phase[r] # "done", phase[r] # "written",
         phase[r] = "checking" => next = "written" /\ ~Blocked(r),
         phase[r] # "checking" => waitsFor[r] = 0,
         RequestInv(r)', \A q \in Requests \ {r} : PairInv(q, r)' /\ PairInv(r, q)'
  PROVE  CatalogueInv'
<1>1. /\ CatalogueTypes' /\ answer'[r] = "none" /\ answer[r] = "none"
      /\ phase'[r] = next /\ pending'[r] = row
      /\ \A q \in Requests \ {r} : phase'[q] = phase[q] /\ pending'[q] = pending[q]
  BY DEF CatalogueInv, CatalogueTypes, Phases, RequestsInv, RequestInv
<1>2. WaitInv(r)'
  <2>1. CASE waitsFor[r] = 0
    BY <2>1 DEF WaitInv
  <2>2. CASE waitsFor[r] # 0
    <3>1. /\ phase[r] = "checking" /\ waitsFor[r] \in Requests \ {r} /\ pending[waitsFor[r]] = Nothing
          /\ ask[waitsFor[r]].kind = "flight" /\ Occupies(ask[waitsFor[r]], ask[r])
      BY <2>2 DEF CatalogueInv, CatalogueTypes, RequestsInv, WaitInv, Blocked
    <3>2. phase[waitsFor[r]] = "done"
      BY <2>2, <3>1 DEF CatalogueInv, RequestsInv, RequestInv, WaitInv, WrittenInv, Nothing
    <3> QED
      BY <1>1, <3>1, <3>2 DEF WaitInv, Occupies
  <2> QED
    BY <2>1, <2>2
<1>3. RaceInv'
  BY <1>1, RaceGoesOn
<1> QED
  BY <1>1, <1>2, <1>3, RequestStep

-------------------------------------------------------------------------------
(* The statements before the commit *)

LEMMA PendingTimes ==
  ASSUME CatalogueInv, NEW q \in Requests, phase[q] \in {"checking", "written"}, pending[q].kind = "flight"
  PROVE  /\ ask[q].kind = "flight"
         /\ \A x : Occupies(pending[q], x) <=> Occupies(ask[q], x)
<1>1. CASE phase[q] = "checking"
  BY <1>1 DEF CatalogueInv, RequestsInv, RequestInv
<1>2. CASE phase[q] = "written"
  <2>1. PICK seats : ask[q].kind = "flight" /\ pending[q] = FlightRow(ask[q], seats)
    BY <1>2 DEF CatalogueInv, RequestsInv, RequestInv, WrittenInv
  <2> QED
    BY <2>1 DEF FlightRow, Occupies
<1> QED
  BY <1>1, <1>2

LEMMA InsertUniqueStep ==
  ASSUME CatalogueInv, NEW r \in Requests, NEW row, NEW next \in {"checking", "written"},
         phase[r] \in {"asked", "inserting"}, InsertUnique(r, row, next),
         row.kind = ask[r].kind, ask[r].kind \in {"airport", "aircraft", "flight"},
         next = "checking" => ask[r].kind = "flight" /\ row = ask[r],
         next = "written" => ask[r].kind # "flight"
  PROVE  CatalogueInv'
<1>1. CASE Finish(r, "duplicate")
  BY <1>1, RefusalStep
<1>2. CASE Write(r, row, next)
  <2>1. phase'[r] = next /\ pending'[r] = row /\ answer'[r] = answer[r] /\ waitsFor[r] = 0
    BY <1>2 DEF Write, CatalogueInv, CatalogueTypes, RequestsInv, RequestInv
  <2>2. UNCHANGED <<tables, ask, waitsFor, answer>>
    BY <1>2 DEF Write
  <2>3. RequestInv(r)'
    BY <2>1, <2>2 DEF CatalogueInv, RequestsInv, RequestInv, WrittenInv
  <2>4. \A q \in Requests \ {r} : PairInv(q, r)' /\ PairInv(r, q)'
    BY <2>1, <2>2 DEF PairInv
  <2> QED
    BY <1>2, <2>1, <2>2, <2>3, <2>4, WriteStep DEF Write, CatalogueInv, CatalogueTypes
<1> QED
  BY <1>1, <1>2 DEF InsertUnique

\* A request goes on to a phase in which it has written nothing yet.
LEMMA JudgedStep ==
  ASSUME CatalogueInv, NEW r \in Requests, phase[r] = "asked",
         NEW next \in {"inserting", "judged"}, phase' = [phase EXCEPT ![r] = next],
         UNCHANGED <<tables, ask, pending, waitsFor, answer>>,
         next = "inserting" => ask[r].kind = "flight",
         next = "judged" => ask[r].kind = "open" /\ ask[r].flight \in DOMAIN flights
  PROVE  CatalogueInv'
<1>1. /\ phase'[r] = next /\ pending[r] = Nothing /\ waitsFor[r] = 0 /\ answer[r] = "none"
      /\ DOMAIN pending = Requests
  BY DEF CatalogueInv, CatalogueTypes, RequestsInv, RequestInv
<1>2. RequestInv(r)' /\ \A q \in Requests \ {r} : PairInv(q, r)' /\ PairInv(r, q)'
  BY <1>1 DEF RequestInv, PairInv, tables
<1> QED
  BY <1>1, <1>2, WriteStep

LEMMA CheckScheduleStep ==
  ASSUME CatalogueInv, NEW r \in Requests, CheckSchedule(r)
  PROVE  CatalogueInv'
<1>1. /\ phase[r] = "checking" /\ ~Blocked(r) /\ pending[r] = ask[r] /\ ask[r].kind = "flight"
      /\ answer[r] = "none"
  BY DEF CheckSchedule, CatalogueInv, RequestsInv, RequestInv
<1>2. CASE IsOccupied(pending[r]) /\ Finish(r, "aircraft-unavailable")
  <2>1. RaceInv'
    BY <1>1, <1>2 DEF RaceInv, IsOccupied, Occupies, Finish, tables, CatalogueInv, CatalogueTypes
  <2> QED
    BY <1>1, <1>2, <2>1, FinishStep
<1>3. ASSUME NEW q \in RivalsOf(r), waitsFor' = [waitsFor EXCEPT ![r] = q],
             UNCHANGED <<now, tables, ask, phase, pending, answer>>
      PROVE  CatalogueInv'
  <2>1. /\ q \in Requests \ {r} /\ phase[q] \in {"checking", "written"}
        /\ ask[q].kind = "flight" /\ Occupies(ask[q], ask[r])
    BY <1>1, <1>3, PendingTimes DEF RivalsOf
  <2>2. CatalogueTypes' /\ RequestInv(r)' /\ WaitInv(r)'
    BY <1>1, <1>3, <2>1
       DEF CatalogueInv, CatalogueTypes, RequestsInv, RequestInv, WaitInv, Occupies
  <2>3. \A p \in Requests \ {r} : PairInv(p, r)' /\ PairInv(r, p)'
    BY <1>1, <1>3 DEF PairInv
  <2>4. RaceInv'
    BY <1>1, <1>3, RaceGoesOn
  <2> QED
    BY <1>1, <1>3, <2>2, <2>3, <2>4, RequestStep DEF CatalogueInv, CatalogueTypes
<1>4. CASE ~IsOccupied(pending[r]) /\ RivalsOf(r) = {} /\ CopySeatsAndFares(r)
  <2>1. PICK row : row = FlightRow(ask[r], aircraft[ask[r].aircraft])
    OBVIOUS
  <2>2. Write(r, row, "written") /\ row = FlightRow(ask[r], row.free)
    BY <1>4, <2>1 DEF CopySeatsAndFares, FlightRow
  <2>3. /\ phase'[r] = "written" /\ pending'[r] = row /\ UNCHANGED <<tables, ask, waitsFor, answer>>
        /\ \A q \in Requests \ {r} : phase'[q] = phase[q]
    BY <2>2 DEF Write, CatalogueInv, CatalogueTypes
  <2>4. RequestInv(r)'
    BY <1>1, <1>4, <2>2, <2>3
       DEF RequestInv, WrittenInv, IsOccupied, Occupies, tables, FlightRow
  <2>5. ASSUME NEW q \in Requests \ {r} PROVE PairInv(q, r)' /\ PairInv(r, q)'
    <3>1. phase[q] = "written" /\ ask[q].kind = "flight" => ~Occupies(ask[q], ask[r])
      <4>1. phase[q] = "written" => pending[q].kind = ask[q].kind
        BY DEF CatalogueInv, RequestsInv, RequestInv, WrittenInv
      <4> QED
        BY <1>1, <1>4, <4>1, PendingTimes DEF RivalsOf
    <3> QED
      BY <1>1, <2>3, <3>1 DEF PairInv, Occupies
  <2> QED
    BY <1>1, <2>2, <2>3, <2>4, <2>5, WriteStep DEF Write, CatalogueInv, CatalogueTypes
<1> QED
  BY <1>2, <1>3, <1>4 DEF CheckSchedule

LEMMA DeadlockVictimStep ==
  ASSUME CatalogueInv, NEW r \in Requests, DeadlockVictim(r)
  PROVE  CatalogueInv'
<1>1. PICK q \in Requests : q = waitsFor[r] /\ Blocked(r) /\ Finish(r, "aircraft-unavailable")
  BY DEF DeadlockVictim, WaitCircle
<1>2. /\ q # r /\ pending[q] # Nothing /\ phase[q] \in {"checking", "written"} /\ phase[r] = "checking"
      /\ ask[q].kind = "flight" /\ Occupies(ask[q], ask[r])
  BY <1>1 DEF Blocked, CatalogueInv, RequestsInv, RequestInv, WaitInv
<1>3. phase'[q] = phase[q] /\ answer'[r] = "aircraft-unavailable" /\ UNCHANGED ask
  BY <1>1, <1>2 DEF Finish, CatalogueInv, CatalogueTypes
<1>4. RaceInv'
  BY <1>2, <1>3 DEF RaceInv, IsOccupied, Occupies, Finish, tables
<1> QED
  BY <1>1, <1>2, <1>4, FinishStep

LEMMA ChangeStatusStep ==
  ASSUME CatalogueInv, NEW r \in Requests, ChangeStatus(r)
  PROVE  CatalogueInv'
<1>1. phase[r] = "judged" /\ ask[r].kind = "open" /\ ask[r].flight \in DOMAIN flights /\ waitsFor[r] = 0
  BY DEF ChangeStatus, CatalogueInv, RequestsInv, RequestInv
<1>2. CASE Finish(r, "status-changed")
  BY <1>1, <1>2, RefusalStep
<1>3. CASE flights[ask[r].flight].status = "SCHEDULED" /\ Write(r, ask[r], "written")
  <2>1. /\ phase'[r] = "written" /\ pending'[r] = ask[r] /\ UNCHANGED <<tables, ask, waitsFor, answer>>
        /\ \A q \in Requests \ {r} : phase'[q] = phase[q]
    BY <1>3 DEF Write, CatalogueInv, CatalogueTypes
  <2>2. RequestInv(r)'
    BY <1>1, <1>3, <2>1 DEF CatalogueInv, RequestsInv, RequestInv, WrittenInv, tables
  <2>3. ASSUME NEW q \in Requests \ {r} PROVE PairInv(q, r)' /\ PairInv(r, q)'
    <3>1. phase[q] = "written" /\ ask[q].kind = "open" => pending[q] = ask[q]
      BY DEF CatalogueInv, RequestsInv, RequestInv, WrittenInv
    <3>2. ~SameKey(pending[q], ask[r])
      BY DEF ChangeStatus
    <3> QED
      BY <1>1, <2>1, <3>1, <3>2 DEF PairInv, SameKey
  <2> QED
    BY <1>1, <1>3, <2>1, <2>2, <2>3, WriteStep DEF Write, CatalogueInv, CatalogueTypes
<1> QED
  BY <1>2, <1>3 DEF ChangeStatus

-------------------------------------------------------------------------------
(* COMMIT *)

\* A stored flight keeps its columns; at most it is opened, and at most the committed one is new.
LEMMA CommittedFlights ==
  ASSUME CatalogueInv, NEW r \in Requests, Commit(r)
  PROVE  /\ phase[r] = "written" /\ WrittenInv(r) /\ answer[r] = "none" /\ r \notin DOMAIN flights
         /\ \A f \in DOMAIN flights :
              /\ f \in DOMAIN flights' /\ DOMAIN flights'[f] = RowColumns
              /\ flights'[f].aircraft = flights[f].aircraft
              /\ flights'[f].departure = flights[f].departure
              /\ flights'[f].arrival = flights[f].arrival
              /\ \/ flights'[f].status = flights[f].status
                 \/ /\ ask[r].kind = "open" /\ f = ask[r].flight
                    /\ flights[f].status = "SCHEDULED" /\ flights'[f].status = "OPEN"
         /\ \A f \in DOMAIN flights' \ DOMAIN flights : f = r /\ ask[r].kind = "flight"
         /\ ask[r].kind = "flight" =>
              /\ r \in DOMAIN flights' /\ DOMAIN flights'[r] = RowColumns
              /\ flights'[r].aircraft = ask[r].aircraft
              /\ flights'[r].departure = ask[r].departure
              /\ flights'[r].arrival = ask[r].arrival
              /\ flights'[r].status = "SCHEDULED"
         /\ ask[r].kind = "open" => flights'[ask[r].flight].status = "OPEN"
<1>1. phase[r] = "written" /\ WrittenInv(r) /\ answer[r] = "none" /\ r \notin DOMAIN flights
  BY DEF Commit, CatalogueInv, RequestsInv, RequestInv, FlightsInv
<1>2. \A f \in DOMAIN flights : DOMAIN flights[f] = RowColumns
  BY DEF CatalogueInv, FlightsInv
<1>3. CASE ask[r].kind = "flight"
  <2>1. PICK seats : pending[r] = FlightRow(ask[r], seats)
    BY <1>1, <1>3 DEF WrittenInv
  <2>2. /\ DOMAIN pending[r] = RowColumns /\ pending[r].kind = "flight"
        /\ pending[r].aircraft = ask[r].aircraft
        /\ pending[r].departure = ask[r].departure
        /\ pending[r].arrival = ask[r].arrival
        /\ pending[r].status = "SCHEDULED"
    BY <2>1 DEF FlightRow, RowColumns
  <2>3. flights' = Inserted(flights, r, pending[r])
    BY <2>2 DEF Commit
  <2>4. /\ DOMAIN flights' = {r} \cup DOMAIN flights /\ flights'[r] = pending[r]
        /\ \A f \in DOMAIN flights : flights'[f] = flights[f]
    BY <1>1, <2>3 DEF Inserted
  <2> QED
    BY <1>1, <1>2, <1>3, <2>2, <2>4
<1>4. CASE ask[r].kind = "open"
  <2>1. /\ pending[r] = ask[r] /\ ask[r].flight \in DOMAIN flights
        /\ flights[ask[r].flight].status = "SCHEDULED"
    BY <1>1, <1>4 DEF WrittenInv
  <2>2. flights' = [flights EXCEPT ![ask[r].flight].status = "OPEN"]
    BY <1>4, <2>1 DEF Commit
  <2> QED
    BY <1>1, <1>2, <1>4, <2>1, <2>2 DEF RowColumns
<1>5. CASE ask[r].kind \in {"airport", "aircraft"}
  <2>1. flights' = flights
    BY <1>1, <1>5 DEF Commit, WrittenInv
  <2> QED
    BY <1>1, <1>2, <1>5, <2>1
<1> QED
  BY <1>1, <1>3, <1>4, <1>5 DEF WrittenInv

LEMMA CommitStep ==
  ASSUME CatalogueInv, NEW r \in Requests, Commit(r)
  PROVE  CatalogueInv'
<1>1. /\ CatalogueTypes' /\ UNCHANGED <<ask, waitsFor>>
      /\ phase'[r] = "done" /\ pending'[r] = Nothing /\ answer'[r] = "done"
      /\ \A q \in Requests \ {r} :
           phase'[q] = phase[q] /\ pending'[q] = pending[q] /\ answer'[q] = answer[q]
  BY DEF CatalogueInv, CatalogueTypes, Phases, Commit
<1>2. /\ phase[r] = "written" /\ WrittenInv(r) /\ answer[r] = "none" /\ r \notin DOMAIN flights
      /\ \A f \in DOMAIN flights :
           /\ f \in DOMAIN flights' /\ DOMAIN flights'[f] = RowColumns
           /\ \A x : /\ Occupies(flights'[f], x) <=> Occupies(flights[f], x)
                     /\ Occupies(x, flights'[f]) <=> Occupies(x, flights[f])
           /\ \/ flights'[f].status = flights[f].status
              \/ /\ ask[r].kind = "open" /\ f = ask[r].flight
                 /\ flights[f].status = "SCHEDULED" /\ flights'[f].status = "OPEN"
      /\ \A f \in DOMAIN flights' \ DOMAIN flights : f = r /\ ask[r].kind = "flight"
      /\ ask[r].kind = "flight" =>
           /\ r \in DOMAIN flights' /\ DOMAIN flights'[r] = RowColumns
           /\ flights'[r].status = "SCHEDULED"
           /\ \A x : /\ Occupies(flights'[r], x) <=> Occupies(ask[r], x)
                     /\ Occupies(x, flights'[r]) <=> Occupies(x, ask[r])
      /\ ask[r].kind = "open" => flights'[ask[r].flight].status = "OPEN"
  BY CommittedFlights DEF Occupies
<1>3. ASSUME NEW q \in Requests \ {r} PROVE RequestInv(q)'
  <2>1. RequestInv(q) /\ PairInv(r, q)
    BY DEF CatalogueInv, RequestsInv
  <2>2. CASE phase[q] # "written"
    BY <1>1, <1>2, <2>1, <2>2 DEF RequestInv
  <2>3. CASE phase[q] = "written"
    <3>1. WrittenInv(q)
      BY <2>1, <2>3 DEF RequestInv
    <3>2. ASSUME ask[q].kind = "flight", NEW f \in DOMAIN flights', flights'[f].status # "CANCELLED"
          PROVE  ~Occupies(flights'[f], ask[q])
      <4>1. CASE f \in DOMAIN flights
        BY <1>2, <3>1, <3>2, <4>1 DEF WrittenInv
      <4>2. CASE f \notin DOMAIN flights
        BY <1>2, <2>1, <2>3, <3>2, <4>2 DEF PairInv
      <4> QED
        BY <4>1, <4>2
    <3>3. ask[q].kind = "open" =>
            ask[q].flight \in DOMAIN flights' /\ flights'[ask[q].flight].status = "SCHEDULED"
      BY <1>2, <2>1, <2>3, <3>1 DEF WrittenInv, PairInv
    <3>4. WrittenInv(q)'
      BY <1>1, <3>1, <3>2, <3>3 DEF WrittenInv, Occupies
    <3> QED
      BY <1>1, <2>1, <2>3, <3>4 DEF RequestInv
  <2> QED
    BY <2>2, <2>3
<1>4. RequestsInv'
  <2>1. RequestInv(r)'
    BY <1>1 DEF RequestInv
  <2>2. ASSUME NEW q \in Requests PROVE WaitInv(q)'
    BY <1>1, <1>2 DEF CatalogueInv, CatalogueTypes, RequestsInv, WaitInv, Occupies
  <2>3. ASSUME NEW p \in Requests, NEW q \in Requests, p # q PROVE PairInv(p, q)'
    BY <1>1, <2>3 DEF CatalogueInv, RequestsInv, PairInv, Occupies
  <2> QED
    BY <1>3, <2>1, <2>2, <2>3 DEF RequestsInv
<1>5. FlightsInv'
  <2>1. /\ \A f \in DOMAIN flights : DOMAIN flights[f] = RowColumns
        /\ \A f \in DOMAIN flights \cap Requests : answer[f] = "done"
        /\ \A f, g \in DOMAIN flights :
             f # g /\ flights[f].status # "CANCELLED" /\ flights[g].status # "CANCELLED"
               => ~Occupies(flights[f], flights[g])
    BY DEF CatalogueInv, FlightsInv, AircraftNotDoubleBooked, Occupies
  <2>2. ASSUME NEW f \in DOMAIN flights', NEW g \in DOMAIN flights', f # g,
               flights'[f].status # "CANCELLED", flights'[g].status # "CANCELLED"
        PROVE  ~Occupies(flights'[f], flights'[g])
    <3>1. CASE f \in DOMAIN flights /\ g \in DOMAIN flights
      BY <1>2, <2>1, <2>2, <3>1
    <3>2. CASE f \in DOMAIN flights /\ g \notin DOMAIN flights
      BY <1>2, <2>2, <3>2 DEF WrittenInv
    <3>3. CASE f \notin DOMAIN flights /\ g \in DOMAIN flights
      <4>1. ~Occupies(flights[g], ask[r])
        BY <1>2, <2>2, <3>3 DEF WrittenInv
      <4>2. ~Occupies(ask[r], flights[g])
        BY <4>1 DEF Occupies
      <4> QED
        BY <1>2, <3>3, <4>2
    <3> QED
      BY <1>2, <2>2, <3>1, <3>2, <3>3
  <2>3. AircraftNotDoubleBooked'
    BY <2>2 DEF AircraftNotDoubleBooked, Occupies
  <2>4. /\ \A f \in DOMAIN flights' : DOMAIN flights'[f] = RowColumns
        /\ \A f \in DOMAIN flights' \cap Requests : answer'[f] = "done"
    BY <1>1, <1>2, <2>1
  <2> QED
    BY <2>3, <2>4 DEF FlightsInv
<1>6. AuditInv'
  <2>1. PICK entry : /\ audits' = audits \cup {entry} /\ entry.request = r /\ entry.action = ask[r].kind
                     /\ entry.action = "open" => entry.flight = ask[r].flight
    <3>1. PICK entry : entry = [action |-> pending[r].kind, request |-> r,
                                flight |-> IF pending[r].kind = "open" THEN pending[r].flight ELSE r]
      OBVIOUS
    <3>2. audits' = audits \cup {entry}
      BY <3>1 DEF Commit
    <3>3. pending[r].kind = ask[r].kind /\ (ask[r].kind = "open" => pending[r] = ask[r])
      BY <1>2 DEF WrittenInv
    <3> QED
      BY <3>1, <3>2, <3>3
  <2>2. outbox' = IF ask[r].kind = "flight" THEN outbox \cup {r} ELSE outbox
    BY <1>2 DEF Commit, WrittenInv
  <2>3. \A a \in audits : /\ a.request \in Requests \ {r} /\ answer[a.request] = "done"
                          /\ a.action = "open" =>
                               a.flight \in DOMAIN flights /\ flights[a.flight].status # "SCHEDULED"
    BY <1>2 DEF CatalogueInv, AuditInv
  <2>4. \A a \in audits' : /\ a.request \in Requests /\ answer'[a.request] = "done"
                           /\ a.action = "open" =>
                                a.flight \in DOMAIN flights' /\ flights'[a.flight].status # "SCHEDULED"
    BY <1>1, <1>2, <2>1, <2>3 DEF WrittenInv
  <2>5. ASSUME NEW a \in audits', NEW b \in audits',
               a.request = b.request \/ (a.action = "open" /\ b.action = "open" /\ a.flight = b.flight)
        PROVE  a = b
    <3>1. CASE a \in audits /\ b \in audits
      BY <2>5, <3>1 DEF CatalogueInv, AuditInv
    <3>2. CASE (a = entry /\ b \in audits) \/ (b = entry /\ a \in audits)
      BY <1>2, <2>1, <2>3, <2>5, <3>2 DEF WrittenInv
    <3> QED
      BY <2>1, <2>5, <3>1, <3>2
  <2>6. ASSUME NEW q \in Requests, answer'[q] = "done" PROVE \E a \in audits' : a.request = q
    BY <1>1, <2>1, <2>6 DEF CatalogueInv, AuditInv
  <2>7. outbox' = {q \in Requests : answer'[q] = "done" /\ ask'[q].kind = "flight"}
    BY <1>1, <1>2, <2>2 DEF CatalogueInv, AuditInv
  <2> QED
    BY <2>4, <2>5, <2>6, <2>7 DEF AuditInv
<1>7. RaceInv'
  <2> SUFFICES ASSUME NEW q \in Requests, answer'[q] = "aircraft-unavailable",
                      \A p \in Requests : answer'[p] # "threw"
               PROVE  RaceInv'
    BY DEF RaceInv
  <2>1. answer[q] = "aircraft-unavailable" /\ \A p \in Requests : answer[p] # "threw"
    BY <1>1, <1>2
  <2>2. PICK p \in Requests :
          /\ answer[p] = "aircraft-unavailable"
          /\ \/ IsOccupied(ask[p])
             \/ \E w \in Requests : /\ phase[w] \in {"checking", "written"}
                                    /\ ask[w].kind = "flight" /\ Occupies(ask[w], ask[p])
    BY <2>1 DEF CatalogueInv, RaceInv
  <2>3. p # r /\ answer'[p] = "aircraft-unavailable"
    BY <1>1, <1>2, <2>2
  <2>4. CASE IsOccupied(ask[p])
    <3>1. \E f \in DOMAIN flights' : flights'[f].status # "CANCELLED" /\ Occupies(flights'[f], ask[p])
      BY <1>2, <2>4 DEF IsOccupied
    <3> QED
      BY <1>1, <2>3, <3>1 DEF RaceInv, IsOccupied, Occupies
  <2>5. ASSUME NEW w \in Requests, phase[w] \in {"checking", "written"},
               ask[w].kind = "flight", Occupies(ask[w], ask[p])
        PROVE  RaceInv'
    <3>1. CASE w = r
      <4>1. \E f \in DOMAIN flights' : flights'[f].status # "CANCELLED" /\ Occupies(flights'[f], ask[p])
        BY <1>2, <2>5, <3>1
      <4> QED
        BY <1>1, <2>3, <4>1 DEF RaceInv, IsOccupied, Occupies
    <3>2. CASE w # r
      BY <1>1, <2>3, <2>5, <3>2 DEF RaceInv, Occupies
    <3> QED
      BY <3>1, <3>2
  <2> QED
    BY <2>2, <2>4, <2>5
<1> QED
  BY <1>1, <1>4, <1>5, <1>6, <1>7 DEF CatalogueInv

-------------------------------------------------------------------------------
(* Every step *)

LEMMA ProceedStep ==
  ASSUME CatalogueInv, NEW r \in Requests, Proceed(r) \/ Fail(r)
  PROVE  CatalogueInv'
<1>1. CASE RegisterAirport(r)
  <2>1. phase[r] = "asked" /\ ask[r].kind = "airport"
    BY <1>1 DEF RegisterAirport
  <2>2. CASE InsertUnique(r, ask[r], "written")
    BY <2>1, <2>2, InsertUniqueStep
  <2>3. CASE Finish(r, "invalid")
    BY <2>1, <2>3, RefusalStep
  <2> QED
    BY <1>1, <2>2, <2>3 DEF RegisterAirport
<1>2. CASE RegisterAircraft(r)
  <2>1. phase[r] = "asked" /\ ask[r].kind = "aircraft"
    BY <1>2 DEF RegisterAircraft
  <2>2. PICK row : row = [kind |-> "aircraft", registration |-> ask[r].registration,
                          seats |-> ToSet(ExpandSeatLayout(ask[r].cabins))]
    OBVIOUS
  <2>3. CASE InsertUnique(r, row, "written")
    BY <2>1, <2>2, <2>3, InsertUniqueStep
  <2>4. CASE Finish(r, "invalid")
    BY <2>1, <2>4, RefusalStep
  <2> QED
    BY <1>2, <2>2, <2>3, <2>4 DEF RegisterAircraft
<1>3. CASE ReadReferences(r)
  <2>1. phase[r] = "asked" /\ ask[r].kind = "flight"
    BY <1>3 DEF ReadReferences
  <2>2. CASE Finish(r, "invalid")
    BY <2>1, <2>2, RefusalStep
  <2>3. CASE ~Finish(r, "invalid")
    BY <1>3, <2>1, <2>3, JudgedStep DEF ReadReferences
  <2> QED
    BY <2>2, <2>3
<1>4. CASE InsertFlight(r)
  <2>1. phase[r] = "inserting" /\ InsertUnique(r, ask[r], "checking") /\ ask[r].kind = "flight"
    BY <1>4 DEF InsertFlight, CatalogueInv, RequestsInv, RequestInv
  <2> QED
    BY <2>1, InsertUniqueStep
<1>5. CASE ReadToOpen(r)
  <2>1. phase[r] = "asked" /\ ask[r].kind = "open"
    BY <1>5 DEF ReadToOpen
  <2>2. CASE \E a \in {"not-found", "invalid-status"} : Finish(r, a)
    BY <2>1, <2>2, RefusalStep
  <2>3. CASE ~\E a \in {"not-found", "invalid-status"} : Finish(r, a)
    <3>1. /\ ask[r].flight \in DOMAIN flights /\ phase' = [phase EXCEPT ![r] = "judged"]
          /\ UNCHANGED <<now, tables, ask, pending, waitsFor, answer>>
      BY <1>5, <2>3 DEF ReadToOpen
    <3> QED
      BY <2>1, <3>1, JudgedStep
  <2> QED
    BY <2>2, <2>3
<1>6. CASE Fail(r)
  <2>1. phase[r] # "done" /\ Finish(r, "threw")
    BY <1>6 DEF Fail
  <2> QED
    BY <2>1, RefusalStep
<1> QED
  BY <1>1, <1>2, <1>3, <1>4, <1>5, <1>6, CheckScheduleStep, DeadlockVictimStep, ChangeStatusStep, CommitStep
     DEF Proceed

\* Bookings move the seats of a flight; nothing here depends on them.
LEMMA SeatStep ==
  ASSUME CatalogueInv, TakeSeat \/ GiveSeatBack
  PROVE  CatalogueInv'
<1>1. UNCHANGED <<now, airports, aircraft, audits, outbox, ask, phase, pending, waitsFor, answer>>
  BY DEF TakeSeat, GiveSeatBack, requestVars
<1>2. PICK f0, free, taken :
        /\ f0 \in DOMAIN flights
        /\ flights' = [flights EXCEPT ![f0].free = free, ![f0].taken = taken]
  BY DEF TakeSeat, GiveSeatBack
<1>3. \A f \in DOMAIN flights : DOMAIN flights[f] = RowColumns
  BY DEF CatalogueInv, FlightsInv
<1>4. DOMAIN flights' = DOMAIN flights
  BY <1>2
<1>5. ASSUME NEW f \in DOMAIN flights
      PROVE  /\ DOMAIN flights'[f] = RowColumns
             /\ flights'[f].aircraft = flights[f].aircraft
             /\ flights'[f].departure = flights[f].departure
             /\ flights'[f].arrival = flights[f].arrival
             /\ flights'[f].status = flights[f].status
  BY <1>2, <1>3 DEF RowColumns
<1>6. ASSUME NEW f \in DOMAIN flights, NEW x
      PROVE  /\ Occupies(flights'[f], x) <=> Occupies(flights[f], x)
             /\ Occupies(x, flights'[f]) <=> Occupies(x, flights[f])
  BY <1>5 DEF Occupies
<1>7. CatalogueTypes' /\ AuditInv'
  BY <1>1, <1>4, <1>5 DEF CatalogueInv, CatalogueTypes, AuditInv
<1>8. FlightsInv'
  BY <1>1, <1>4, <1>5 DEF CatalogueInv, FlightsInv, AircraftNotDoubleBooked
<1>9. ASSUME NEW r \in Requests PROVE RequestInv(r)' /\ WaitInv(r)'
  <2>1. RequestInv(r) /\ WaitInv(r)
    BY DEF CatalogueInv, RequestsInv
  <2>2. WrittenInv(r) => WrittenInv(r)'
    BY <1>1, <1>4, <1>5 DEF WrittenInv, Occupies
  <2> QED
    BY <1>1, <1>4, <2>1, <2>2 DEF RequestInv, WaitInv, Occupies
<1>10. RequestsInv'
  BY <1>1, <1>9 DEF CatalogueInv, RequestsInv, PairInv, Occupies
<1>11. RaceInv'
  BY <1>1, <1>4, <1>5 DEF CatalogueInv, RaceInv, IsOccupied, Occupies
<1> QED
  BY <1>7, <1>8, <1>10, <1>11 DEF CatalogueInv

LEMMA CatalogueUnchanged == CatalogueInv /\ UNCHANGED <<tables, requestVars>> => CatalogueInv'
BY DEF CatalogueInv, CatalogueTypes, RequestsInv, RequestInv, WrittenInv, WaitInv, PairInv, FlightsInv,
       AircraftNotDoubleBooked, AuditInv, RaceInv, IsOccupied, Occupies, tables, requestVars

LEMMA CatalogueStep == CatalogueInv /\ [Next]_vars => CatalogueInv'
<1> SUFFICES ASSUME CatalogueInv, [Next]_vars PROVE CatalogueInv'
  OBVIOUS
<1>1. CASE UNCHANGED catalogueVars
  BY <1>1, CatalogueUnchanged DEF catalogueVars
<1>2. CASE CatalogueNext
  <2>1. CASE Tick
    BY <2>1, CatalogueUnchanged DEF Tick
  <2> QED
    BY <1>2, <2>1, ProceedStep, SeatStep DEF CatalogueNext
<1>3. CASE SearchNext
  BY <1>1, <1>3 DEF SearchNext, FirstPage, NextPage, OtherSearch
<1> QED
  BY <1>1, <1>2, <1>3 DEF Next, vars

LEMMA AlwaysCatalogueInv == Spec => []CatalogueInv
BY InitCatalogue, CatalogueStep, PTL DEF Spec

\* insertFlight's exclusion constraint, checked row by row while others commit: an aircraft is
\* never promised twice for overlapping times, for any set of concurrent requests.
THEOREM AircraftFlyOnce == Spec => []AircraftNotDoubleBooked
<1>1. CatalogueInv => AircraftNotDoubleBooked
  BY DEF CatalogueInv, FlightsInv
<1> QED
  BY <1>1, AlwaysCatalogueInv, PTL

LEMMA RecordsFollow == CatalogueInv => RecordsMatchAnswers
<1> SUFFICES ASSUME CatalogueInv PROVE RecordsMatchAnswers
  OBVIOUS
<1>1. ASSUME NEW r \in Requests
      PROVE  answer[r] = "done" <=> Cardinality({a \in audits : a.request = r}) = 1
  <2> DEFINE entries == {a \in audits : a.request = r}
  <2>1. CASE answer[r] = "done"
    <3>1. PICK a \in audits : a.request = r
      BY <2>1 DEF CatalogueInv, AuditInv
    <3>2. entries = {a}
      BY <3>1 DEF CatalogueInv, AuditInv
    <3> QED
      BY <2>1, <3>2, FS_Singleton
  <2>2. CASE answer[r] # "done"
    <3>1. entries = {}
      BY <2>2 DEF CatalogueInv, AuditInv
    <3> QED
      BY <2>2, <3>1, FS_EmptySet
  <2> QED
    BY <2>1, <2>2
<1> QED
  BY <1>1 DEF RecordsMatchAnswers, CatalogueInv, AuditInv

\* withTransaction's all or nothing: what was answered `done' is what was audited and put into
\* the outbox, once each.
THEOREM AnswersAreRecorded == Spec => []RecordsMatchAnswers
BY AlwaysCatalogueInv, RecordsFollow, PTL

LEMMA RacersFollow == CatalogueInv => SomeRacerWins
BY DEF CatalogueInv, RaceInv, SomeRacerWins

\* Of administrators who want one aircraft at overlapping times, the 409s, those of deadlock
\* victims included, trace back to a flight that was stored, however many race.
THEOREM ARacerWins == Spec => []SomeRacerWins
BY AlwaysCatalogueInv, RacersFollow, PTL

-------------------------------------------------------------------------------
(* Flights and the layouts of their aircraft *)

OneClassPerRow(seats) == \A s, u \in seats : s.row = u.row => s.fareClass = u.fareClass

\* What a request found is still so, and what it wrote fits the tables.
LayoutRequestInv(r) ==
  /\ ask[r].kind = "aircraft" => ask[r].cabins \in Seq(Cabins)
  /\ phase[r] \in {"inserting", "checking", "written"} /\ ask[r].kind = "flight" =>
       /\ ask[r].aircraft \in DOMAIN aircraft
       /\ FaresMatchSeats(ask[r].fares, aircraft[ask[r].aircraft])
  /\ phase[r] = "written" /\ ask[r].kind = "flight" =>
       pending[r] = FlightRow(ask[r], aircraft[ask[r].aircraft])
  /\ phase[r] = "written" /\ ask[r].kind = "aircraft" =>
       pending[r].registration \notin DOMAIN aircraft /\ OneClassPerRow(pending[r].seats)

\* The unique index: two uncommitted aircraft have different registrations.
LayoutPairInv(q, r) ==
  phase[q] = "written" /\ ask[q].kind = "aircraft" /\ phase[r] = "written" /\ ask[r].kind = "aircraft"
    => pending[q].registration # pending[r].registration

LayoutTablesInv ==
  /\ \A reg \in DOMAIN aircraft : OneClassPerRow(aircraft[reg])
  /\ \A f \in DOMAIN flights :
       /\ flights[f].aircraft \in DOMAIN aircraft
       /\ flights[f].free \cup flights[f].taken = aircraft[flights[f].aircraft]
       /\ FaresMatchSeats(flights[f].fares, aircraft[flights[f].aircraft])

LayoutInv ==
  /\ \A r \in Requests : LayoutRequestInv(r)
  /\ \A q, r \in Requests : q # r => LayoutPairInv(q, r)
  /\ LayoutTablesInv

LEMMA InitLayout == SearchInit => LayoutInv
<1> SUFFICES ASSUME SearchInit PROVE LayoutInv
  OBVIOUS
<1>1. PICK w \in Worlds : CatalogueInit(w)
  BY DEF SearchInit
<1>2. CanStartFrom(w)
  BY CatalogueAssumption
<1>3. /\ phase = [r \in Requests |-> IF ask[r] = Nothing THEN "done" ELSE "asked"]
      /\ flights = w.flights /\ aircraft = w.aircraft
      /\ \E asked \in [w.requests -> w.asks] :
           ask = [r \in Requests |-> IF r \in w.requests THEN asked[r] ELSE Nothing]
  BY <1>1 DEF CatalogueInit
<1>4. ASSUME NEW r \in Requests, ask[r].kind = "aircraft"
      PROVE  ask[r].cabins \in Seq(Cabins)
  <2>1. ask[r] \in w.asks
    BY <1>3, <1>4 DEF Nothing
  <2> QED
    BY <1>2, <1>4, <2>1 DEF CanStartFrom
<1>5. LayoutTablesInv
  BY <1>2, <1>3 DEF CanStartFrom, LayoutTablesInv, OneClassPerRow, FaresMatchSeats
<1> QED
  BY <1>3, <1>4, <1>5 DEF LayoutInv, LayoutRequestInv, LayoutPairInv

\* A step of one request that leaves the tables alone.
LEMMA LayoutRequestStep ==
  ASSUME CatalogueInv, LayoutInv, NEW r \in Requests, UNCHANGED <<tables, ask>>,
         \A q \in Requests \ {r} : phase'[q] = phase[q] /\ pending'[q] = pending[q],
         LayoutRequestInv(r)',
         \A q \in Requests \ {r} : LayoutPairInv(q, r)' /\ LayoutPairInv(r, q)'
  PROVE  LayoutInv'
<1>1. LayoutTablesInv'
  BY DEF LayoutInv, LayoutTablesInv, tables, FaresMatchSeats
<1>2. ASSUME NEW q \in Requests \ {r} PROVE LayoutRequestInv(q)'
  BY DEF LayoutInv, LayoutRequestInv, tables, FaresMatchSeats, FlightRow
<1>3. ASSUME NEW p \in Requests \ {r}, NEW q \in Requests \ {r}, p # q PROVE LayoutPairInv(p, q)'
  BY <1>3 DEF LayoutInv, LayoutPairInv
<1> QED
  BY <1>1, <1>2, <1>3 DEF LayoutInv

\* One that changes what is kept about it neither for a layout nor for a flight.
LEMMA LayoutPhaseStep ==
  ASSUME CatalogueInv, LayoutInv, NEW r \in Requests, UNCHANGED <<tables, ask>>,
         \A q \in Requests \ {r} : phase'[q] = phase[q] /\ pending'[q] = pending[q],
         \/ phase'[r] \in {"done", "judged"}
         \/ phase'[r] = phase[r] /\ pending'[r] = pending[r]
         \/ phase'[r] = "checking" /\ phase[r] = "inserting"
         \/ phase'[r] = "written" /\ ask[r].kind \notin {"aircraft", "flight"}
  PROVE  LayoutInv'
<1>1. LayoutRequestInv(r)'
  BY DEF LayoutInv, LayoutRequestInv, tables, FaresMatchSeats, FlightRow
<1>2. \A q \in Requests \ {r} : LayoutPairInv(q, r)' /\ LayoutPairInv(r, q)'
  BY DEF LayoutInv, LayoutPairInv
<1> QED
  BY <1>1, <1>2, LayoutRequestStep

LEMMA LayoutFinish ==
  ASSUME CatalogueInv, LayoutInv, NEW r \in Requests, NEW a, Finish(r, a)
  PROVE  LayoutInv'
BY LayoutPhaseStep DEF Finish, CatalogueInv, CatalogueTypes

LEMMA LayoutAircraft ==
  ASSUME CatalogueInv, LayoutInv, NEW r \in Requests, RegisterAircraft(r)
  PROVE  LayoutInv'
<1>1. CASE \E a \in {"invalid", "duplicate"} : Finish(r, a)
  BY <1>1, LayoutFinish
<1>2. CASE ~\E a \in {"invalid", "duplicate"} : Finish(r, a)
  <2>1. PICK row : row = [kind |-> "aircraft", registration |-> ask[r].registration,
                          seats |-> ToSet(ExpandSeatLayout(ask[r].cabins))]
    OBVIOUS
  <2>2. /\ ask[r].kind = "aircraft" /\ AcceptsLayout(ask[r].cabins)
        /\ \A q \in Requests \ {r} : ~SameKey(pending[q], row)
        /\ ~IsCommittedKey(row) /\ Write(r, row, "written")
    BY <1>2, <2>1 DEF RegisterAircraft, ValidAircraftInput, InsertUnique
  <2>3. row.registration \notin DOMAIN aircraft
    BY <2>1, <2>2 DEF IsCommittedKey
  <2>4. OneClassPerRow(row.seats)
    <3>1. LayoutFits(ask[r].cabins)
      BY <2>2, AcceptedLayoutFits DEF LayoutInv, LayoutRequestInv
    <3> QED
      BY <2>1, <3>1 DEF LayoutFits, OneClassPerRow
  <2>5. /\ UNCHANGED <<tables, ask>> /\ phase'[r] = "written" /\ pending'[r] = row
        /\ \A q \in Requests \ {r} : phase'[q] = phase[q] /\ pending'[q] = pending[q]
    BY <2>2 DEF Write, CatalogueInv, CatalogueTypes
  <2>6. LayoutRequestInv(r)'
    BY <2>2, <2>3, <2>4, <2>5 DEF LayoutInv, LayoutRequestInv, tables, OneClassPerRow
  <2>7. ASSUME NEW q \in Requests \ {r}, phase[q] = "written", ask[q].kind = "aircraft"
        PROVE  pending[q].registration # row.registration
    <3>1. pending[q].kind = "aircraft"
      BY <2>7 DEF CatalogueInv, RequestsInv, RequestInv, WrittenInv
    <3> QED
      BY <2>1, <2>2, <3>1 DEF SameKey
  <2>8. \A q \in Requests \ {r} : LayoutPairInv(q, r)' /\ LayoutPairInv(r, q)'
    BY <2>5, <2>7 DEF LayoutPairInv
  <2> QED
    BY <2>5, <2>6, <2>8, LayoutRequestStep
<1> QED
  BY <1>1, <1>2

LEMMA LayoutReferences ==
  ASSUME CatalogueInv, LayoutInv, NEW r \in Requests, ReadReferences(r)
  PROVE  LayoutInv'
<1>1. CASE Finish(r, "invalid")
  BY <1>1, LayoutFinish
<1>2. CASE ~Finish(r, "invalid")
  <2>1. /\ ask[r].kind = "flight" /\ ask[r].aircraft \in DOMAIN aircraft
        /\ FaresMatchSeats(ask[r].fares, aircraft[ask[r].aircraft])
        /\ phase' = [phase EXCEPT ![r] = "inserting"]
        /\ UNCHANGED <<tables, ask, pending>>
    BY <1>2 DEF ReadReferences
  <2>2. phase'[r] = "inserting" /\ \A q \in Requests \ {r} : phase'[q] = phase[q]
    BY <2>1 DEF CatalogueInv, CatalogueTypes
  <2>3. LayoutRequestInv(r)'
    BY <2>1, <2>2 DEF LayoutRequestInv, tables, FaresMatchSeats
  <2>4. \A q \in Requests \ {r} : LayoutPairInv(q, r)' /\ LayoutPairInv(r, q)'
    BY <2>2 DEF LayoutPairInv
  <2> QED
    BY <2>1, <2>2, <2>3, <2>4, LayoutRequestStep
<1> QED
  BY <1>1, <1>2

\* The seats are copied from the layout that the fares were judged by.
LEMMA LayoutCopied ==
  ASSUME CatalogueInv, LayoutInv, NEW r \in Requests, phase[r] = "checking", CopySeatsAndFares(r)
  PROVE  LayoutInv'
<1>1. /\ UNCHANGED <<tables, ask>> /\ phase'[r] = "written"
      /\ pending'[r] = FlightRow(ask[r], aircraft[ask[r].aircraft])
      /\ \A q \in Requests \ {r} : phase'[q] = phase[q] /\ pending'[q] = pending[q]
  BY DEF CopySeatsAndFares, Write, CatalogueInv, CatalogueTypes
<1>2. ask[r].kind = "flight"
  BY DEF CatalogueInv, RequestsInv, RequestInv
<1>3. LayoutRequestInv(r)'
  BY <1>1, <1>2 DEF LayoutInv, LayoutRequestInv, tables, FaresMatchSeats, FlightRow
<1>4. \A q \in Requests \ {r} : LayoutPairInv(q, r)' /\ LayoutPairInv(r, q)'
  BY <1>1, <1>2 DEF LayoutPairInv
<1> QED
  BY <1>1, <1>3, <1>4, LayoutRequestStep

\* A commit adds a row; those that others rely on stay.
LEMMA LayoutCommit ==
  ASSUME CatalogueInv, LayoutInv, NEW r \in Requests, Commit(r)
  PROVE  LayoutInv'
<1>1. /\ phase[r] = "written" /\ WrittenInv(r) /\ UNCHANGED ask /\ phase'[r] = "done"
      /\ LayoutRequestInv(r) /\ r \notin DOMAIN flights
      /\ \A q \in Requests \ {r} : phase'[q] = phase[q] /\ pending'[q] = pending[q]
  BY DEF Commit, CatalogueInv, CatalogueTypes, RequestsInv, RequestInv, FlightsInv, LayoutInv
<1>2. /\ \A reg \in DOMAIN aircraft : reg \in DOMAIN aircraft' /\ aircraft'[reg] = aircraft[reg]
      /\ \A reg \in DOMAIN aircraft' \ DOMAIN aircraft :
           /\ ask[r].kind = "aircraft" /\ reg = pending[r].registration
           /\ aircraft'[reg] = pending[r].seats
  <2>1. CASE ask[r].kind = "aircraft"
    <3>1. pending[r].kind = "aircraft" /\ pending[r].registration \notin DOMAIN aircraft
      BY <1>1, <2>1 DEF WrittenInv, LayoutRequestInv
    <3>2. aircraft' = Inserted(aircraft, pending[r].registration, pending[r].seats)
      BY <3>1 DEF Commit
    <3> QED
      BY <2>1, <3>1, <3>2 DEF Inserted
  <2>2. CASE ask[r].kind # "aircraft"
    <3>1. aircraft' = aircraft
      BY <1>1, <2>2 DEF Commit, WrittenInv
    <3> QED
      BY <3>1
  <2> QED
    BY <2>1, <2>2
<1>3. ASSUME NEW f \in DOMAIN flights'
      PROVE  /\ flights'[f].aircraft \in DOMAIN aircraft
             /\ flights'[f].free \cup flights'[f].taken = aircraft[flights'[f].aircraft]
             /\ FaresMatchSeats(flights'[f].fares, aircraft[flights'[f].aircraft])
  <2>1. CASE ask[r].kind = "flight"
    <3>1. pending[r] = FlightRow(ask[r], aircraft[ask[r].aircraft])
      BY <1>1, <2>1 DEF LayoutRequestInv
    <3>2. /\ pending[r].kind = "flight" /\ pending[r].aircraft = ask[r].aircraft
          /\ pending[r].free \cup pending[r].taken = aircraft[ask[r].aircraft]
          /\ pending[r].fares = ask[r].fares
      BY <3>1 DEF FlightRow
    <3>3. flights' = Inserted(flights, r, pending[r])
      BY <3>2 DEF Commit
    <3>4. \/ f = r /\ flights'[f] = pending[r]
          \/ f \in DOMAIN flights /\ flights'[f] = flights[f]
      BY <1>1, <3>3 DEF Inserted
    <3> QED
      BY <1>1, <2>1, <3>2, <3>4 DEF LayoutInv, LayoutTablesInv, LayoutRequestInv
  <2>2. CASE ask[r].kind = "open"
    <3>1. flights' = [flights EXCEPT ![ask[r].flight].status = "OPEN"]
      BY <1>1, <2>2 DEF Commit, WrittenInv
    <3>2. \A g \in DOMAIN flights : DOMAIN flights[g] = RowColumns
      BY DEF CatalogueInv, FlightsInv
    <3>3. /\ f \in DOMAIN flights /\ flights'[f].aircraft = flights[f].aircraft
          /\ flights'[f].free = flights[f].free /\ flights'[f].taken = flights[f].taken
          /\ flights'[f].fares = flights[f].fares
      BY <3>1, <3>2 DEF RowColumns
    <3> QED
      BY <3>3 DEF LayoutInv, LayoutTablesInv
  <2>3. CASE ask[r].kind \notin {"flight", "open"}
    <3>1. flights' = flights
      BY <1>1, <2>3 DEF Commit, WrittenInv
    <3> QED
      BY <3>1 DEF LayoutInv, LayoutTablesInv
  <2> QED
    BY <2>1, <2>2, <2>3
<1>4. LayoutTablesInv'
  <2>1. \A reg \in DOMAIN aircraft' : OneClassPerRow(aircraft'[reg])
    BY <1>1, <1>2 DEF LayoutInv, LayoutTablesInv, LayoutRequestInv, OneClassPerRow
  <2> QED
    BY <1>2, <1>3, <2>1 DEF LayoutTablesInv, FaresMatchSeats, OneClassPerRow
<1>5. ASSUME NEW q \in Requests \ {r} PROVE LayoutRequestInv(q)'
  <2>1. LayoutRequestInv(q) /\ LayoutPairInv(q, r)
    BY DEF LayoutInv
  <2> QED
    BY <1>1, <1>2, <2>1 DEF LayoutRequestInv, LayoutPairInv, FaresMatchSeats, FlightRow, OneClassPerRow
<1>6. LayoutRequestInv(r)'
  BY <1>1 DEF LayoutRequestInv
<1>7. ASSUME NEW p \in Requests, NEW q \in Requests, p # q PROVE LayoutPairInv(p, q)'
  BY <1>1, <1>7 DEF LayoutInv, LayoutPairInv
<1> QED
  BY <1>4, <1>5, <1>6, <1>7 DEF LayoutInv

LEMMA LayoutProceed ==
  ASSUME CatalogueInv, LayoutInv, NEW r \in Requests, Proceed(r) \/ Fail(r)
  PROVE  LayoutInv'
<1>1. CASE \E a \in {"invalid", "duplicate", "aircraft-unavailable", "not-found", "invalid-status",
                     "status-changed", "threw"} : Finish(r, a)
  BY <1>1, LayoutFinish
<1>2. CASE ~\E a \in {"invalid", "duplicate", "aircraft-unavailable", "not-found", "invalid-status",
                      "status-changed", "threw"} : Finish(r, a)
  <2>1. CASE RegisterAirport(r)
    BY <1>2, <2>1, LayoutPhaseStep
       DEF RegisterAirport, InsertUnique, Write, CatalogueInv, CatalogueTypes
  <2>2. CASE InsertFlight(r)
    BY <1>2, <2>2, LayoutPhaseStep
       DEF InsertFlight, InsertUnique, Write, CatalogueInv, CatalogueTypes
  <2>3. CASE CheckSchedule(r)
    <3>1. CASE CopySeatsAndFares(r)
      BY <2>3, <3>1, LayoutCopied DEF CheckSchedule
    <3>2. CASE UNCHANGED <<now, tables, ask, phase, pending, answer>>
      BY <3>2, LayoutPhaseStep
    <3> QED
      BY <1>2, <2>3, <3>1, <3>2 DEF CheckSchedule
  <2>4. CASE ReadToOpen(r)
    BY <1>2, <2>4, LayoutPhaseStep DEF ReadToOpen, CatalogueInv, CatalogueTypes
  <2>5. CASE ChangeStatus(r)
    <3>1. ask[r].kind = "open"
      BY <2>5 DEF ChangeStatus, CatalogueInv, RequestsInv, RequestInv
    <3>2. Write(r, ask[r], "written")
      BY <1>2, <2>5 DEF ChangeStatus
    <3> QED
      BY <3>1, <3>2, LayoutPhaseStep DEF Write, CatalogueInv, CatalogueTypes
  <2> QED
    BY <1>2, <2>1, <2>2, <2>3, <2>4, <2>5, LayoutAircraft, LayoutReferences, LayoutCommit
       DEF Proceed, DeadlockVictim, Fail
<1> QED
  BY <1>1, <1>2

LEMMA LayoutSeat ==
  ASSUME CatalogueInv, LayoutInv, TakeSeat \/ GiveSeatBack
  PROVE  LayoutInv'
<1>1. UNCHANGED <<aircraft, ask, phase, pending>>
  BY DEF TakeSeat, GiveSeatBack, requestVars
<1>2. \A f \in DOMAIN flights : DOMAIN flights[f] = RowColumns
  BY DEF CatalogueInv, FlightsInv
<1>3. PICK f0, free, taken :
        /\ f0 \in DOMAIN flights
        /\ free \cup taken = flights[f0].free \cup flights[f0].taken
        /\ flights' = [flights EXCEPT ![f0].free = free, ![f0].taken = taken]
  <2>1. CASE TakeSeat
    <3>1. PICK f0 \in DOMAIN flights : \E s \in flights[f0].free :
            flights' = [flights EXCEPT ![f0].free = @ \ {s}, ![f0].taken = @ \cup {s}]
      BY <2>1 DEF TakeSeat
    <3>2. PICK s \in flights[f0].free :
            flights' = [flights EXCEPT ![f0].free = @ \ {s}, ![f0].taken = @ \cup {s}]
      BY <3>1
    <3>3. (flights[f0].free \ {s}) \cup (flights[f0].taken \cup {s}) = flights[f0].free \cup flights[f0].taken
      BY <3>2
    <3>4. flights' = [flights EXCEPT ![f0].free = flights[f0].free \ {s},
                                     ![f0].taken = flights[f0].taken \cup {s}]
      BY <1>2, <3>2 DEF RowColumns
    <3> QED
      BY <3>3, <3>4
  <2>2. CASE GiveSeatBack
    <3>1. PICK f0 \in DOMAIN flights : \E s \in flights[f0].taken :
            flights' = [flights EXCEPT ![f0].free = @ \cup {s}, ![f0].taken = @ \ {s}]
      BY <2>2 DEF GiveSeatBack
    <3>2. PICK s \in flights[f0].taken :
            flights' = [flights EXCEPT ![f0].free = @ \cup {s}, ![f0].taken = @ \ {s}]
      BY <3>1
    <3>3. (flights[f0].free \cup {s}) \cup (flights[f0].taken \ {s}) = flights[f0].free \cup flights[f0].taken
      BY <3>2
    <3>4. flights' = [flights EXCEPT ![f0].free = flights[f0].free \cup {s},
                                     ![f0].taken = flights[f0].taken \ {s}]
      BY <1>2, <3>2 DEF RowColumns
    <3> QED
      BY <3>3, <3>4
  <2> QED
    BY <2>1, <2>2
<1>4. DOMAIN flights' = DOMAIN flights
  BY <1>3
<1>5. ASSUME NEW f \in DOMAIN flights
      PROVE  /\ flights'[f].aircraft = flights[f].aircraft /\ flights'[f].fares = flights[f].fares
             /\ flights'[f].free \cup flights'[f].taken = flights[f].free \cup flights[f].taken
  BY <1>2, <1>3 DEF RowColumns
<1>6. LayoutTablesInv'
  BY <1>1, <1>4, <1>5 DEF LayoutInv, LayoutTablesInv, FaresMatchSeats
<1>7. \A r \in Requests : LayoutRequestInv(r)'
  BY <1>1 DEF LayoutInv, LayoutRequestInv, FaresMatchSeats, FlightRow
<1>8. \A q, r \in Requests : q # r => LayoutPairInv(q, r)'
  BY <1>1 DEF LayoutInv, LayoutPairInv
<1> QED
  BY <1>6, <1>7, <1>8 DEF LayoutInv

LEMMA LayoutUnchanged == LayoutInv /\ UNCHANGED <<tables, requestVars>> => LayoutInv'
BY DEF LayoutInv, LayoutRequestInv, LayoutPairInv, LayoutTablesInv, FaresMatchSeats, FlightRow,
       tables, requestVars

LEMMA LayoutStep == CatalogueInv /\ LayoutInv /\ [Next]_vars => LayoutInv'
<1> SUFFICES ASSUME CatalogueInv, LayoutInv, [Next]_vars PROVE LayoutInv'
  OBVIOUS
<1>1. CASE UNCHANGED catalogueVars
  BY <1>1, LayoutUnchanged DEF catalogueVars
<1>2. CASE CatalogueNext
  <2>1. CASE Tick
    BY <2>1, LayoutUnchanged DEF Tick
  <2> QED
    BY <1>2, <2>1, LayoutProceed, LayoutSeat DEF CatalogueNext
<1>3. CASE SearchNext
  BY <1>1, <1>3 DEF SearchNext, FirstPage, NextPage, OtherSearch
<1> QED
  BY <1>1, <1>2, <1>3 DEF Next, vars

LEMMA AlwaysLayoutInv == Spec => []LayoutInv
BY InitLayout, LayoutStep, AlwaysCatalogueInv, PTL DEF Spec

LEMMA MatchFollows == LayoutInv => FlightsMatchTheirAircraft
BY DEF LayoutInv, LayoutTablesInv, FlightsMatchTheirAircraft, OneClassPerRow, FaresMatchSeats, ClassesOfSeats

\* createFlight judges the fares by a layout it read before its transaction and copies the seats
\* inside it: the two agree, for every interleaving of requests and of bookings.
THEOREM FlightsKeepTheirLayout == Spec => []FlightsMatchTheirAircraft
BY AlwaysLayoutInv, MatchFollows, PTL

LEMMA AcceptedFollows == LayoutInv => AcceptedLayoutsFit
BY AcceptedLayoutFits DEF LayoutInv, LayoutRequestInv, AcceptedLayoutsFit

\* parseSeatLayout lets through no layout that the tables would refuse, for any limits, any
\* number of cabins and any letters.
THEOREM LayoutsFitTheTables == Spec => []AcceptedLayoutsFit
BY AlwaysLayoutInv, AcceptedFollows, PTL

-------------------------------------------------------------------------------
(* What a search finds *)

\* A flight as the search reads it, or as a request asks for it.
FlightRead(a) ==
  /\ a.departure \in Int
  /\ \A airport \in DOMAIN OffsetAt : a.departure \in DOMAIN OffsetAt[airport]
  /\ \A c \in DOMAIN a.fares : a.fares[c] \in Int

\* Only what passed the validation is under way.
SearchRequestInv(r) ==
  ask[r].kind = "flight" =>
    /\ FlightRead(ask[r])
    /\ phase[r] \in {"inserting", "checking", "written"} => ValidFlightInput(ask[r])

SearchInv ==
  /\ now \in Nat /\ query \in Queries
  /\ \A r \in Requests : SearchRequestInv(r)
  /\ IsFiniteSet(DOMAIN flights)
  /\ \A f \in DOMAIN flights :
       f \in Nat /\ FlightRead(flights[f]) /\ DOMAIN flights[f].fares \subseteq LayoutClasses

LEMMA InitSearch == SearchInit => SearchInv
<1> SUFFICES ASSUME SearchInit PROVE SearchInv
  OBVIOUS
<1>1. PICK w \in Worlds : /\ CatalogueInit(w)
                          /\ query \in IF w.searched THEN Queries ELSE {CHOOSE q \in Queries : TRUE}
  BY DEF SearchInit
<1>2. CanStartFrom(w)
  BY CatalogueAssumption
<1>3. /\ now = 0 /\ flights = w.flights
      /\ phase = [r \in Requests |-> IF ask[r] = Nothing THEN "done" ELSE "asked"]
      /\ \E asked \in [w.requests -> w.asks] :
           ask = [r \in Requests |-> IF r \in w.requests THEN asked[r] ELSE Nothing]
  BY <1>1 DEF CatalogueInit
<1>4. query \in Queries
  BY <1>1, SearchAssumption
<1>5. \A r \in Requests : SearchRequestInv(r)
  <2> SUFFICES ASSUME NEW r \in Requests, ask[r].kind = "flight" PROVE SearchRequestInv(r)
    BY DEF SearchRequestInv
  <2>1. ask[r] \in w.asks /\ phase[r] \in {"done", "asked"}
    BY <1>3 DEF Nothing
  <2> QED
    BY <1>2, <2>1, SearchAssumption DEF SearchRequestInv, FlightRead, CanStartFrom
<1>6. /\ IsFiniteSet(DOMAIN flights)
      /\ \A f \in DOMAIN flights :
           f \in Nat /\ FlightRead(flights[f]) /\ DOMAIN flights[f].fares \subseteq LayoutClasses
  <2>1. IsFiniteSet(DOMAIN flights)
    BY <1>2, <1>3 DEF CanStartFrom
  <2>2. ASSUME NEW f \in DOMAIN flights
        PROVE  f \in Nat /\ FlightRead(flights[f]) /\ DOMAIN flights[f].fares \subseteq LayoutClasses
    <3>1. /\ f \in Nat /\ flights[f].departure \in Int
          /\ DOMAIN flights[f].fares \subseteq LayoutClasses
          /\ \A c \in DOMAIN flights[f].fares : flights[f].fares[c] \in Int
      <4>1. \A g \in DOMAIN w.flights :
              LET row == w.flights[g] IN
              /\ DOMAIN row.fares \subseteq LayoutClasses
              /\ \A c \in DOMAIN row.fares : row.fares[c] \in Nat
              /\ g \in Nat /\ row.departure \in Int
        BY <1>2 DEF CanStartFrom
      <4> QED
        BY <1>3, <4>1
    <3>2. \A airport \in DOMAIN OffsetAt : flights[f].departure \in DOMAIN OffsetAt[airport]
      BY <1>3, SearchAssumption
    <3> QED
      BY <3>1, <3>2 DEF FlightRead
  <2> QED
    BY <2>1, <2>2
<1> QED
  BY <1>3, <1>4, <1>5, <1>6 DEF SearchInv

\* A step that adds no flight and changes none in what the search reads.
LEMMA SearchKept ==
  ASSUME SearchInv, now' \in Nat, query' \in Queries, UNCHANGED ask,
         \A r \in Requests : SearchRequestInv(r)',
         DOMAIN flights' = DOMAIN flights,
         \A f \in DOMAIN flights : /\ flights'[f].departure = flights[f].departure
                                   /\ flights'[f].fares = flights[f].fares
  PROVE  SearchInv'
BY DEF SearchInv, FlightRead

LEMMA SearchProceed ==
  ASSUME CatalogueInv, SearchInv, NEW r \in Requests, Proceed(r) \/ Fail(r), ~Commit(r), UNCHANGED query
  PROVE  SearchInv'
<1>1. UNCHANGED <<now, flights, ask>>
  BY DEF Proceed, Fail, RegisterAirport, RegisterAircraft, ReadReferences, InsertFlight, CheckSchedule,
         DeadlockVictim, ReadToOpen, ChangeStatus, CopySeatsAndFares, InsertUnique, Finish, Write, tables
<1>2. /\ \A q \in Requests \ {r} : phase'[q] = phase[q]
      /\ \/ phase'[r] \in {"done", "asked", "judged"} \/ phase'[r] = phase[r]
         \/ phase'[r] = "written" /\ phase[r] \notin {"inserting", "checking", "written"} /\ ask[r].kind # "flight"
         \/ phase'[r] = "inserting" /\ ValidFlightInput(ask[r])
         \/ phase'[r] = "checking" /\ phase[r] = "inserting"
         \/ phase'[r] = "written" /\ phase[r] = "checking"
  <2>1. DOMAIN phase = Requests
    BY DEF CatalogueInv, CatalogueTypes
  <2>2. CASE RegisterAirport(r) \/ RegisterAircraft(r)
    BY <2>1, <2>2 DEF RegisterAirport, RegisterAircraft, InsertUnique, Finish, Write
  <2>3. CASE ReadReferences(r) \/ InsertFlight(r)
    BY <2>1, <2>3 DEF ReadReferences, InsertFlight, InsertUnique, Finish, Write
  <2>4. CASE CheckSchedule(r) \/ DeadlockVictim(r)
    BY <2>1, <2>4 DEF CheckSchedule, DeadlockVictim, CopySeatsAndFares, Finish, Write
  <2>5. CASE ReadToOpen(r)
    BY <2>1, <2>5 DEF ReadToOpen, Finish
  <2>6. CASE ChangeStatus(r)
    <3>1. ask[r].kind = "open"
      BY <2>6 DEF ChangeStatus, CatalogueInv, RequestsInv, RequestInv
    <3> QED
      BY <2>1, <2>6, <3>1 DEF ChangeStatus, Finish, Write
  <2>7. CASE Fail(r)
    BY <2>1, <2>7 DEF Fail, Finish
  <2> QED
    BY <2>2, <2>3, <2>4, <2>5, <2>6, <2>7 DEF Proceed
<1>3. \A q \in Requests : SearchRequestInv(q)'
  BY <1>1, <1>2 DEF SearchInv, SearchRequestInv, FlightRead, ValidFlightInput
<1> QED
  BY <1>1, <1>3, SearchKept DEF SearchInv

\* A flight that is stored is the one that was judged.
LEMMA SearchCommit ==
  ASSUME CatalogueInv, SearchInv, NEW r \in Requests, Commit(r), UNCHANGED query
  PROVE  SearchInv'
<1>1. /\ phase[r] = "written" /\ WrittenInv(r) /\ r \notin DOMAIN flights
      /\ UNCHANGED <<now, ask>> /\ phase'[r] = "done"
      /\ \A q \in Requests \ {r} : phase'[q] = phase[q]
  BY DEF Commit, CatalogueInv, CatalogueTypes, RequestsInv, RequestInv, FlightsInv
<1>2. \A q \in Requests : SearchRequestInv(q)'
  BY <1>1 DEF SearchInv, SearchRequestInv, FlightRead, ValidFlightInput
<1>3. CASE ask[r].kind = "flight"
  <2>1. PICK seats : pending[r] = FlightRow(ask[r], seats)
    BY <1>1, <1>3 DEF WrittenInv
  <2>2. /\ pending[r].kind = "flight" /\ pending[r].fares = ask[r].fares
        /\ pending[r].departure = ask[r].departure
    BY <2>1 DEF FlightRow
  <2>3. flights' = Inserted(flights, r, pending[r])
    BY <2>2 DEF Commit
  <2>4. /\ DOMAIN flights' = DOMAIN flights \cup {r}
        /\ \A f \in DOMAIN flights' : flights'[f] = IF f = r THEN pending[r] ELSE flights[f]
    BY <2>3 DEF Inserted
  <2>5. FlightRead(pending[r]) /\ DOMAIN pending[r].fares \subseteq LayoutClasses /\ r \in Nat
    BY <1>1, <1>3, <2>2, CatalogueAssumption DEF SearchInv, SearchRequestInv, FlightRead, ValidFlightInput
  <2>6. IsFiniteSet(DOMAIN flights')
    BY <2>4, FS_AddElement DEF SearchInv
  <2>7. \A f \in DOMAIN flights' :
          f \in Nat /\ FlightRead(flights'[f]) /\ DOMAIN flights'[f].fares \subseteq LayoutClasses
    BY <2>4, <2>5 DEF SearchInv
  <2> QED
    BY <1>1, <1>2, <2>6, <2>7 DEF SearchInv, FlightRead
<1>4. CASE ask[r].kind = "open"
  <2>1. flights' = [flights EXCEPT ![ask[r].flight].status = "OPEN"]
    BY <1>1, <1>4 DEF Commit, WrittenInv
  <2>2. \A f \in DOMAIN flights : DOMAIN flights[f] = RowColumns
    BY DEF CatalogueInv, FlightsInv
  <2>3. /\ DOMAIN flights' = DOMAIN flights
        /\ \A f \in DOMAIN flights : /\ flights'[f].departure = flights[f].departure
                                     /\ flights'[f].fares = flights[f].fares
    BY <2>1, <2>2 DEF RowColumns
  <2> QED
    BY <1>1, <1>2, <2>3, SearchKept DEF SearchInv
<1>5. CASE ask[r].kind \in {"airport", "aircraft"}
  <2>1. flights' = flights
    BY <1>1, <1>5 DEF Commit, WrittenInv
  <2> QED
    BY <1>1, <1>2, <2>1, SearchKept DEF SearchInv
<1> QED
  BY <1>1, <1>3, <1>4, <1>5 DEF WrittenInv

LEMMA SearchSeat ==
  ASSUME CatalogueInv, SearchInv, TakeSeat \/ GiveSeatBack, UNCHANGED query
  PROVE  SearchInv'
<1>1. UNCHANGED <<now, ask, phase>>
  BY DEF TakeSeat, GiveSeatBack, requestVars
<1>2. PICK f0, free, taken :
        /\ f0 \in DOMAIN flights
        /\ flights' = [flights EXCEPT ![f0].free = free, ![f0].taken = taken]
  BY DEF TakeSeat, GiveSeatBack
<1>3. \A f \in DOMAIN flights : DOMAIN flights[f] = RowColumns
  BY DEF CatalogueInv, FlightsInv
<1>4. /\ DOMAIN flights' = DOMAIN flights
      /\ \A f \in DOMAIN flights : /\ flights'[f].departure = flights[f].departure
                                   /\ flights'[f].fares = flights[f].fares
  BY <1>2, <1>3 DEF RowColumns
<1>5. \A r \in Requests : SearchRequestInv(r)'
  BY <1>1 DEF SearchInv, SearchRequestInv, FlightRead, ValidFlightInput
<1> QED
  BY <1>1, <1>4, <1>5, SearchKept DEF SearchInv

LEMMA SearchUnchanged ==
  SearchInv /\ now' \in Nat /\ query' \in Queries /\ UNCHANGED <<tables, requestVars>> => SearchInv'
BY DEF SearchInv, SearchRequestInv, FlightRead, ValidFlightInput, tables, requestVars

LEMMA SearchStep == CatalogueInv /\ SearchInv /\ [Next]_vars => SearchInv'
<1> SUFFICES ASSUME CatalogueInv, SearchInv, [Next]_vars PROVE SearchInv'
  OBVIOUS
<1>1. CASE UNCHANGED vars
  BY <1>1, SearchUnchanged DEF vars, walkVars, catalogueVars, SearchInv
<1>2. CASE CatalogueNext /\ UNCHANGED query
  <2>1. CASE Tick
    <3>1. now' \in Nat
      BY <2>1 DEF Tick, SearchInv
    <3> QED
      BY <1>2, <2>1, <3>1, SearchUnchanged DEF Tick, SearchInv
  <2> QED
    BY <1>2, <2>1, SearchProceed, SearchCommit, SearchSeat DEF CatalogueNext
<1>3. CASE SearchNext
  <2>1. UNCHANGED catalogueVars /\ query' \in Queries
    BY <1>3 DEF SearchNext, FirstPage, NextPage, OtherSearch, SearchInv
  <2> QED
    BY <2>1, SearchUnchanged DEF catalogueVars, SearchInv
<1> QED
  BY <1>1, <1>2, <1>3 DEF Next

LEMMA AlwaysSearchInv == Spec => []SearchInv
BY InitSearch, SearchStep, AlwaysCatalogueInv, PTL DEF Spec

\* Days are counted the same by division and by their first instants.
LEMMA DayOf ==
  ASSUME NEW n \in Int, NEW d \in Nat \ {0}, NEW k \in Int
  PROVE  n \div d \in Int /\ (k <= n \div d <=> k * d <= n)
<1>1. PICK q \in Int : q = n \div d /\ d * q <= n /\ n < d * q + d
  OBVIOUS
<1>2. CASE k <= q
  <2>1. k * d <= q * d
    BY <1>2
  <2> QED
    BY <1>1, <1>2, <2>1
<1>3. CASE k >= q + 1
  <2>1. k * d >= (q + 1) * d
    BY <1>3
  <2> QED
    BY <1>1, <1>3, <2>1
<1> QED
  BY <1>1, <1>2, <1>3

\* The interval of the parameters holds the instants whose local date is asked for.
LEMMA BoundsAreDays ==
  ASSUME ClocksKeepMidnight, NEW q \in Queries, ValidSearch(q, 1), NEW dep \in DOMAIN OffsetAt[q.origin]
  PROVE  dep \in Bounds(q) <=> (dep + OffsetAt[q.origin][dep]) \div DayLength \in q.from..q.to
<1> DEFINE local == dep + OffsetAt[q.origin][dep]
           first == MidnightAt(q.origin, q.from)
           last == MidnightAt(q.origin, q.to + 1)
<1>1. local \in Int /\ dep \in Int /\ q.from \in Int /\ q.to \in Int /\ DayLength \in Nat \ {0}
  BY SearchAssumption
<1>2. first \in Int /\ (dep < first <=> local < q.from * DayLength)
  BY SearchAssumption DEF ClocksKeepMidnight
<1>3. last \in Int /\ (dep < last <=> local < (q.to + 1) * DayLength)
  BY SearchAssumption DEF ClocksKeepMidnight
<1> HIDE DEF first, last, local
<1>4. Bounds(q) = first .. last - 1
  BY DEF Bounds, first, last
<1>5. dep \in Bounds(q) <=> ~(dep < first) /\ dep < last
  BY <1>1, <1>2, <1>3, <1>4
<1>6. /\ q.from <= local \div DayLength <=> q.from * DayLength <= local
      /\ q.to + 1 <= local \div DayLength <=> (q.to + 1) * DayLength <= local
      /\ local \div DayLength \in Int
  BY <1>1, DayOf
<1>7. q.from * DayLength \in Int /\ (q.to + 1) * DayLength \in Int
  BY <1>1
<1>8. dep \in Bounds(q) <=> local \div DayLength \in q.from..q.to
  BY <1>1, <1>2, <1>3, <1>5, <1>6, <1>7
<1> QED
  BY <1>8 DEF local

\* A class without a fare has no seat, so the classes of the fares are enough.
LEMMA RoomInSomeClass ==
  ASSUME LayoutInv, SearchInv, NEW f \in DOMAIN flights, NEW p \in Nat \ {0}
  PROVE  RoomyClasses(f, p) # {} <=>
           \E c \in LayoutClasses : Cardinality({s \in flights[f].free : s.fareClass = c}) >= p
<1>1. DOMAIN flights[f].fares \subseteq LayoutClasses
  BY DEF SearchInv
<1>2. DOMAIN flights[f].fares = {s.fareClass : s \in flights[f].free \cup flights[f].taken}
  BY DEF LayoutInv, LayoutTablesInv, FaresMatchSeats, ClassesOfSeats
<1>3. ASSUME NEW c, c \notin DOMAIN flights[f].fares
      PROVE  ~(Cardinality({s \in flights[f].free : s.fareClass = c}) >= p)
  <2>1. {s \in flights[f].free : s.fareClass = c} = {}
    BY <1>2, <1>3
  <2> QED
    BY <2>1, FS_EmptySet
<1> QED
  BY <1>1, <1>3 DEF RoomyClasses, AvailableIn

LEMMA SearchFollows == ClocksKeepMidnight /\ LayoutInv /\ SearchInv => SearchAgreesWithRules
<1> SUFFICES ASSUME ClocksKeepMidnight, LayoutInv, SearchInv, ValidSearch(query, 1)
             PROVE  SearchAgreesWithRules
  BY DEF SearchAgreesWithRules
<1>1. query.passengers \in Nat \ {0} /\ query \in Queries /\ query.origin \in DOMAIN OffsetAt
  BY SearchAssumption DEF ValidSearch, SearchInv
<1>2. ASSUME NEW f \in DOMAIN flights, flights[f].origin = query.origin
      PROVE  /\ RoomyClasses(f, query.passengers) # {} <=>
                  \E c \in LayoutClasses :
                    Cardinality({s \in flights[f].free : s.fareClass = c}) >= query.passengers
             /\ flights[f].departure \in Bounds(query) <=>
                  (flights[f].departure + OffsetAt[query.origin][flights[f].departure]) \div DayLength
                    \in query.from..query.to
             /\ OnSaleSql(flights[f].status, flights[f].departure, now) <=>
                  IsBookable(flights[f].status, flights[f].departure, now)
  <2>1. flights[f].departure \in DOMAIN OffsetAt[query.origin] /\ flights[f].departure \in Int /\ now \in Nat
    BY <1>1 DEF SearchInv, FlightRead
  <2>2. OnSaleSql(flights[f].status, flights[f].departure, now) <=>
          IsBookable(flights[f].status, flights[f].departure, now)
    BY <2>1, SalesCutoffAssumption DEF OnSaleSql, IsBookable, EffectiveFlightStatus
  <2> QED
    BY <1>1, <2>1, <2>2, RoomInSomeClass, BoundsAreDays
<1> QED
  BY <1>2 DEF SearchAgreesWithRules, Matched

\* flightSearchSql finds the flights the rules in TypeScript would, on days of any length, for
\* any clocks that strike midnight once.
THEOREM SearchFindsTheBookable == ClocksKeepMidnight /\ Spec => []SearchAgreesWithRules
<1>1. ClocksKeepMidnight => []ClocksKeepMidnight
  OBVIOUS
<1> QED
  BY <1>1, AlwaysLayoutInv, AlwaysSearchInv, SearchFollows, PTL

-------------------------------------------------------------------------------
(* The walk through a search *)

\* While a client walks, its cursor is sealed for the search it walks through.
WalkInv == walk = "walking" => cursor.s = Seal(cursor.k, query)

LEMMA AnswerSeals ==
  ASSUME NEW q, NEW after, NEW limit, Answer(q, after, limit), query' = q
  PROVE  WalkInv'
<1>1. walk' = "walking" => \E k : cursor' = EncodeCursor(k, q)
  BY DEF Answer, NextCursor
<1> QED
  BY <1>1 DEF WalkInv, EncodeCursor, Seal, Scope

LEMMA WalkStep == WalkInv /\ [Next]_vars => WalkInv' /\ (walk = "walking" /\ query' # query => walk' = "refused")
<1> SUFFICES ASSUME WalkInv, [Next]_vars
             PROVE  WalkInv' /\ (walk = "walking" /\ query' # query => walk' = "refused")
  OBVIOUS
<1>1. CASE UNCHANGED <<walk, query, cursor>>
  BY <1>1 DEF WalkInv, Seal, Scope
<1>2. ASSUME NEW limit \in Limits, FirstPage(limit) \/ NextPage(limit)
      PROVE  WalkInv' /\ query' = query
  BY <1>2, AnswerSeals DEF FirstPage, NextPage, WalkInv
<1>3. ASSUME NEW limit \in Limits, NEW q \in Queries, OtherSearch(q, limit)
      PROVE  WalkInv' /\ walk' = "refused"
  <2>1. walk = "walking" /\ q # query
    BY <1>3 DEF OtherSearch
  <2>2. ~DecodesFor(cursor, q)
    BY <2>1 DEF DecodesFor, WalkInv, Seal, Scope
  <2> QED
    BY <1>3, <2>2 DEF OtherSearch, WalkInv
<1> QED
  BY <1>1, <1>2, <1>3 DEF Next, SearchNext, vars, walkVars

\* decodeSearchCursor's seal: whatever the flights do in between, no page of a walk answers
\* another search than its first.
THEOREM WalksKeepTheirSearch == Spec => WalkKeepsItsSearch
<1>1. SearchInit => WalkInv
  BY DEF SearchInit, WalkInv
<1>2. WalkInv /\ [Next]_vars => [walk = "walking" /\ query' # query => walk' = "refused"]_vars
  BY WalkStep
<1> QED
  BY <1>1, <1>2, WalkStep, PTL DEF Spec, WalkKeepsItsSearch

-------------------------------------------------------------------------------
(* The order of the results *)

\* What a result can be sorted by.
Keys(q) == IF q.sort = "price" THEN Int \X Int \X Int ELSE Int \X Int

LEMMA KeysOrdered ==
  ASSUME NEW q, NEW k \in Keys(q), NEW l \in Keys(q)
  PROVE  /\ ~Precedes(k, k)
         /\ k # l => Precedes(k, l) \/ Precedes(l, k)
         /\ \A m \in Keys(q) : Precedes(k, l) /\ Precedes(l, m) => Precedes(k, m)
<1>1. CASE q.sort = "price"
  <2>1. ASSUME NEW x \in Int \X Int \X Int, NEW y \in Int \X Int \X Int
        PROVE  Precedes(x, y) <=> \/ x[1] < y[1]
                                  \/ x[1] = y[1] /\ x[2] < y[2]
                                  \/ x[1] = y[1] /\ x[2] = y[2] /\ x[3] < y[3]
    <3>1. DOMAIN x = 1..3 /\ 1..3 = {1, 2, 3} /\ 1..0 = {} /\ 1..1 = {1} /\ 1..2 = {1, 2}
      OBVIOUS
    <3>2. Precedes(x, y) <=> \E i \in {1, 2, 3} : x[i] < y[i] /\ \A j \in 1..i - 1 : x[j] = y[j]
      BY <3>1 DEF Precedes
    <3>3. /\ (\A j \in 1..1 - 1 : x[j] = y[j]) <=> TRUE
          /\ (\A j \in 1..2 - 1 : x[j] = y[j]) <=> x[1] = y[1]
          /\ (\A j \in 1..3 - 1 : x[j] = y[j]) <=> x[1] = y[1] /\ x[2] = y[2]
      BY <3>1
    <3> QED
      BY <3>2, <3>3
  <2>2. k \in Int \X Int \X Int /\ l \in Int \X Int \X Int
    BY <1>1 DEF Keys
  <2>3. k # l => k[1] # l[1] \/ k[2] # l[2] \/ k[3] # l[3]
    BY <2>2
  <2> QED
    BY <1>1, <2>1, <2>2, <2>3 DEF Keys
<1>2. CASE q.sort # "price"
  <2>1. ASSUME NEW x \in Int \X Int, NEW y \in Int \X Int
        PROVE  Precedes(x, y) <=> x[1] < y[1] \/ (x[1] = y[1] /\ x[2] < y[2])
    <3>1. DOMAIN x = 1..2 /\ 1..2 = {1, 2} /\ 1..0 = {} /\ 1..1 = {1}
      OBVIOUS
    <3>2. Precedes(x, y) <=> \E i \in {1, 2} : x[i] < y[i] /\ \A j \in 1..i - 1 : x[j] = y[j]
      BY <3>1 DEF Precedes
    <3>3. /\ (\A j \in 1..1 - 1 : x[j] = y[j]) <=> TRUE
          /\ (\A j \in 1..2 - 1 : x[j] = y[j]) <=> x[1] = y[1]
      BY <3>1
    <3> QED
      BY <3>2, <3>3
  <2>2. k \in Int \X Int /\ l \in Int \X Int
    BY <1>2 DEF Keys
  <2>3. k # l => k[1] # l[1] \/ k[2] # l[2]
    BY <2>2
  <2> QED
    BY <1>2, <2>1, <2>2, <2>3 DEF Keys
<1> QED
  BY <1>1, <1>2

\* The cheapest class with room has a price.
LEMMA LowestFareIsOne ==
  ASSUME SearchInv, NEW f \in DOMAIN flights, NEW p, RoomyClasses(f, p) # {}
  PROVE  LowestFare(f, p) \in Int
<1> DEFINE amounts == {flights[f].fares[c] : c \in RoomyClasses(f, p)}
<1>1. /\ RoomyClasses(f, p) \subseteq {"ECONOMY", "BUSINESS"}
      /\ \A c \in RoomyClasses(f, p) : flights[f].fares[c] \in Int
  BY DEF RoomyClasses, SearchInv, FlightRead, LayoutClasses
<1>2. \E x \in amounts : \A y \in amounts : x <= y
  <2>1. PICK c \in RoomyClasses(f, p) : TRUE
    OBVIOUS
  <2>2. CASE RoomyClasses(f, p) = {c}
    BY <1>1, <2>2
  <2>3. CASE RoomyClasses(f, p) # {c}
    <3>1. PICK d \in RoomyClasses(f, p) : d # c
      BY <2>1, <2>3
    <3>2. RoomyClasses(f, p) = {c, d}
      BY <1>1, <3>1
    <3>3. flights[f].fares[c] \in Int /\ flights[f].fares[d] \in Int
      BY <1>1, <3>1
    <3>4. PICK x \in Int, y \in Int : amounts = {x, y}
      BY <3>2, <3>3
    <3> HIDE DEF amounts
    <3>5. x <= y \/ y <= x
      OBVIOUS
    <3> QED
      BY <3>4, <3>5
  <2> QED
    BY <2>2, <2>3
<1>3. LowestFare(f, p) \in amounts
  BY <1>2 DEF LowestFare
<1> QED
  BY <1>1, <1>3

LEMMA MatchesHaveKeys ==
  ASSUME SearchInv, NEW q
  PROVE  /\ IsFiniteSet(Matched(q))
         /\ \A f \in Matched(q) : f \in Nat /\ OrderKey(q, f) \in Keys(q)
         /\ \A f, g \in Matched(q) : OrderKey(q, f) = OrderKey(q, g) => f = g
<1>1. Matched(q) \subseteq DOMAIN flights
  BY DEF Matched
<1>2. IsFiniteSet(Matched(q))
  BY <1>1, FS_Subset DEF SearchInv
<1>3. ASSUME NEW f \in Matched(q)
      PROVE  /\ f \in Nat /\ flights[f].departure \in Int
             /\ LowestFare(f, q.passengers) \in Int
  BY <1>3, LowestFareIsOne DEF Matched, SearchInv, FlightRead
<1>4. ASSUME NEW f \in Matched(q) PROVE OrderKey(q, f) \in Keys(q)
  BY <1>3 DEF OrderKey, Keys
<1>5. ASSUME NEW f \in Matched(q), NEW g \in Matched(q), OrderKey(q, f) = OrderKey(q, g) PROVE f = g
  BY <1>5 DEF OrderKey
<1> QED
  BY <1>2, <1>3, <1>4, <1>5

\* Every place from the first to the last has one row, and the places are in the order of the keys.
LEMMA RanksFill ==
  ASSUME NEW q, NEW rows, IsFiniteSet(rows),
         \A f \in rows : OrderKey(q, f) \in Keys(q),
         \A f, g \in rows : OrderKey(q, f) = OrderKey(q, g) => f = g
  PROVE  /\ Cardinality(rows) \in Nat
         /\ \A f \in rows : Rank(q, rows, f) \in 0..Cardinality(rows) - 1
         /\ \A f, g \in rows :
              Rank(q, rows, f) < Rank(q, rows, g) <=> Precedes(OrderKey(q, f), OrderKey(q, g))
         /\ \A i \in 1..Cardinality(rows) : \E f \in rows : Rank(q, rows, f) = i - 1
<1> DEFINE Below(f) == {g \in rows : Precedes(OrderKey(q, g), OrderKey(q, f))}
           N == Cardinality(rows)
<1>1. N \in Nat
  BY FS_CardinalityType
<1> HIDE DEF N
<1>2. ASSUME NEW f \in rows
      PROVE  /\ IsFiniteSet(Below(f)) /\ f \notin Below(f)
             /\ Rank(q, rows, f) = Cardinality(Below(f)) /\ Rank(q, rows, f) \in 0..N - 1
  <2>1. f \notin Below(f)
    BY KeysOrdered
  <2>2. Below(f) \in SUBSET rows /\ Below(f) # rows
    BY <2>1
  <2>3. IsFiniteSet(Below(f)) /\ Cardinality(Below(f)) <= N /\ Cardinality(Below(f)) # N
    BY <2>2, FS_Subset DEF N
  <2>4. Cardinality(Below(f)) \in Nat
    BY <2>3, FS_CardinalityType
  <2>5. Rank(q, rows, f) = Cardinality(Below(f))
    BY DEF Rank
  <2> QED
    BY <1>1, <2>1, <2>3, <2>4, <2>5
<1>3. \A f \in rows : Rank(q, rows, f) \in Int
  <2>1. \A f \in rows : Rank(q, rows, f) \in 0..N - 1
    BY <1>2
  <2>2. 0..N - 1 \subseteq Int
    BY <1>1
  <2> QED
    BY <2>1, <2>2
<1>4. ASSUME NEW f \in rows, NEW g \in rows, Precedes(OrderKey(q, f), OrderKey(q, g))
      PROVE  Rank(q, rows, f) < Rank(q, rows, g)
  <2>1. \A h \in Below(f) : h \in Below(g)
    BY <1>4, KeysOrdered
  <2>2. Below(f) \in SUBSET Below(g) /\ f \in Below(g)
    BY <1>4, <2>1
  <2>3. f \notin Below(f)
    BY <1>2
  <2>4. Below(f) # Below(g)
    BY <2>2, <2>3
  <2> HIDE DEF Below
  <2>5. Cardinality(Below(f)) <= Cardinality(Below(g)) /\ Cardinality(Below(f)) # Cardinality(Below(g))
    BY <1>2, <2>2, <2>4, FS_Subset
  <2>6. Cardinality(Below(f)) \in Nat /\ Cardinality(Below(g)) \in Nat
    BY <1>2, FS_CardinalityType
  <2> QED
    BY <1>2, <2>5, <2>6
<1>5. ASSUME NEW f \in rows, NEW g \in rows
      PROVE  Rank(q, rows, f) < Rank(q, rows, g) <=> Precedes(OrderKey(q, f), OrderKey(q, g))
  <2>1. Rank(q, rows, f) \in Int /\ Rank(q, rows, g) \in Int
    BY <1>3
  <2>2. f = g \/ Precedes(OrderKey(q, f), OrderKey(q, g)) \/ Precedes(OrderKey(q, g), OrderKey(q, f))
    BY KeysOrdered
  <2>3. CASE f = g
    BY <2>1, <2>3, KeysOrdered
  <2>4. CASE Precedes(OrderKey(q, f), OrderKey(q, g))
    BY <1>4, <2>4
  <2>5. CASE Precedes(OrderKey(q, g), OrderKey(q, f))
    <3>1. Rank(q, rows, g) < Rank(q, rows, f) /\ ~(Rank(q, rows, f) < Rank(q, rows, g))
      BY <1>4, <2>1, <2>5
    <3> QED
      BY <1>4, <3>1
  <2> QED
    BY <2>2, <2>3, <2>4, <2>5
<1>6. ASSUME NEW i \in 1..N PROVE \E f \in rows : Rank(q, rows, f) = i - 1
  <2> DEFINE rank == [f \in rows |-> Rank(q, rows, f)]
  <2>1. \A f, g \in rows : Rank(q, rows, f) = Rank(q, rows, g) => f = g
    <3> SUFFICES ASSUME NEW f \in rows, NEW g \in rows, Rank(q, rows, f) = Rank(q, rows, g), f # g
                 PROVE  FALSE
      OBVIOUS
    <3>1. Precedes(OrderKey(q, f), OrderKey(q, g)) \/ Precedes(OrderKey(q, g), OrderKey(q, f))
      BY KeysOrdered
    <3>2. Rank(q, rows, f) \in Int
      BY <1>3
    <3> QED
      BY <1>4, <3>1, <3>2
  <2>2. rank \in Injection(rows, 0..N - 1)
    <3>1. rank \in [rows -> 0..N - 1]
      BY <1>2
    <3> QED
      BY <2>1, <3>1 DEF Injection, IsInjective
  <2>3. IsFiniteSet(0..N - 1) /\ Cardinality(0..N - 1) = N
    BY <1>1, FS_Interval
  <2>4. rank \in Surjection(rows, 0..N - 1)
    BY <2>2, <2>3, FS_Injection DEF N
  <2>5. i - 1 \in 0..N - 1
    BY <1>1, <1>6
  <2> QED
    BY <2>4, <2>5 DEF Surjection
<1> QED
  BY <1>1, <1>2, <1>5, <1>6 DEF N

\* A page is the beginning of what is left, in order.
LEMMA PageBegins ==
  ASSUME SearchInv, NEW q, NEW after, NEW limit \in Nat \ {0}, NEW page, page = PageRows(q, after, limit)
  PROVE  /\ page \in Seq(RowsAfter(q, after)) /\ Len(page) <= limit + 1
         /\ \A i, j \in DOMAIN page : i < j => Precedes(OrderKey(q, page[i]), OrderKey(q, page[j]))
         /\ \A f \in RowsAfter(q, after) :
              \/ \E i \in DOMAIN page : i <= limit /\ page[i] = f
              \/ Len(page) > limit /\ Precedes(OrderKey(q, page[limit]), OrderKey(q, f))
<1> DEFINE rows == RowsAfter(q, after)
           count == Cardinality(rows)
           most == IF count > limit + 1 THEN limit + 1 ELSE count
<1>1. /\ count \in Nat
      /\ \A f \in rows : Rank(q, rows, f) \in 0..count - 1
      /\ \A f, g \in rows :
           Rank(q, rows, f) < Rank(q, rows, g) <=> Precedes(OrderKey(q, f), OrderKey(q, g))
      /\ \A i \in 1..count : \E f \in rows : Rank(q, rows, f) = i - 1
      /\ \A f, g \in rows : Rank(q, rows, f) = Rank(q, rows, g) => f = g
  <2>1. rows \in SUBSET Matched(q)
    BY DEF RowsAfter
  <2>2. /\ IsFiniteSet(rows) /\ \A f \in rows : OrderKey(q, f) \in Keys(q)
        /\ \A f, g \in rows : OrderKey(q, f) = OrderKey(q, g) => f = g
    BY <2>1, MatchesHaveKeys, FS_Subset
  <2> HIDE DEF rows
  <2>3. /\ count \in Nat
        /\ \A f \in rows : Rank(q, rows, f) \in 0..count - 1
        /\ \A f, g \in rows :
             Rank(q, rows, f) < Rank(q, rows, g) <=> Precedes(OrderKey(q, f), OrderKey(q, g))
        /\ \A i \in 1..count : \E f \in rows : Rank(q, rows, f) = i - 1
    BY <2>2, RanksFill
  <2>4. ASSUME NEW f \in rows, NEW g \in rows, Rank(q, rows, f) = Rank(q, rows, g) PROVE f = g
    <3>1. ~Precedes(OrderKey(q, f), OrderKey(q, g)) /\ ~Precedes(OrderKey(q, g), OrderKey(q, f))
      <4>1. Rank(q, rows, f) \in 0..count - 1
        BY <2>3
      <4>2. ~(Rank(q, rows, f) < Rank(q, rows, g)) /\ ~(Rank(q, rows, g) < Rank(q, rows, f))
        BY <2>3, <2>4, <4>1
      <4> QED
        BY <2>3, <4>2
    <3> QED
      BY <2>2, <3>1, KeysOrdered
  <2> QED
    BY <2>3, <2>4
<1>2. page = [i \in 1..most |-> CHOOSE f \in rows : Rank(q, rows, f) = i - 1]
  BY DEF PageRows
<1> HIDE DEF rows, count
<1>3. /\ DOMAIN page = 1..most /\ most \in Nat
      /\ \A i \in 1..most : page[i] \in rows /\ Rank(q, rows, page[i]) = i - 1
  <2>1. most \in Nat /\ \A i \in 1..most : i \in 1..count
    BY <1>1
  <2>2. ASSUME NEW i \in 1..most PROVE page[i] \in rows /\ Rank(q, rows, page[i]) = i - 1
    <3>1. \E f \in rows : Rank(q, rows, f) = i - 1
      BY <1>1, <2>1
    <3>2. page[i] = CHOOSE f \in rows : Rank(q, rows, f) = i - 1
      BY <1>2
    <3> QED
      BY <3>1, <3>2
  <2>3. DOMAIN page = 1..most
    BY <1>2
  <2> QED
    BY <2>1, <2>2, <2>3
<1>4. page \in [1..most -> rows]
  <2>1. page = [i \in 1..most |-> page[i]]
    BY <1>2, <1>3
  <2> HIDE DEF most
  <2> QED
    BY <1>3, <2>1
<1>5. page \in Seq(rows) /\ Len(page) = most
  <2> HIDE DEF most
  <2> QED
    BY <1>3, <1>4
<1>6. ASSUME NEW i \in DOMAIN page, NEW j \in DOMAIN page, i < j
      PROVE  Precedes(OrderKey(q, page[i]), OrderKey(q, page[j]))
  <2>1. /\ page[i] \in rows /\ Rank(q, rows, page[i]) = i - 1
        /\ page[j] \in rows /\ Rank(q, rows, page[j]) = j - 1 /\ i \in Int /\ j \in Int
    BY <1>3
  <2>2. Rank(q, rows, page[i]) < Rank(q, rows, page[j])
    BY <1>6, <2>1
  <2> QED
    BY <1>1, <2>1, <2>2
<1>7. ASSUME NEW f \in rows
      PROVE  \/ \E i \in DOMAIN page : i <= limit /\ page[i] = f
             \/ Len(page) > limit /\ Precedes(OrderKey(q, page[limit]), OrderKey(q, f))
  <2>1. PICK i \in 1..count : Rank(q, rows, f) = i - 1
    <3>1. Rank(q, rows, f) \in 0..count - 1
      BY <1>1
    <3>2. Rank(q, rows, f) + 1 \in 1..count /\ Rank(q, rows, f) = (Rank(q, rows, f) + 1) - 1
      BY <1>1, <3>1
    <3> QED
      BY <3>2
  <2>2. CASE i <= limit
    <3>1. i \in 1..most
      BY <1>1, <2>1, <2>2
    <3> HIDE DEF most
    <3> QED
      BY <1>1, <1>3, <2>1, <2>2, <3>1
  <2>3. CASE i > limit
    <3>1. limit \in 1..most /\ most > limit /\ limit - 1 < i - 1
      BY <1>1, <2>1, <2>3
    <3> HIDE DEF most
    <3>2. Rank(q, rows, page[limit]) < Rank(q, rows, f)
      BY <1>3, <2>1, <3>1
    <3> QED
      BY <1>1, <1>3, <1>5, <3>1, <3>2
  <2> QED
    BY <2>1, <2>2, <2>3
<1>8. most <= limit + 1
  BY <1>1
<1> HIDE DEF most
<1> QED
  BY <1>5, <1>6, <1>7, <1>8 DEF rows

-------------------------------------------------------------------------------
(* The results of a walk *)

Entries(q) == Nat \X Keys(q)

Ordered(s) == \A i, j \in DOMAIN s : i < j => Precedes(s[i][2], s[j][2])

\* What the pages so far have shown, and what the cursor still has before it.
WalkOrderInv ==
  /\ Ordered(listed)
  /\ walk = "idle" => listed = <<>>
  /\ walk = "walking" =>
       /\ listed \in Seq(Entries(query)) /\ listed # <<>>
       /\ cursor.k = listed[Len(listed)][2]
       /\ \A x \in steady : x \in ToSet(listed) \/ Precedes(cursor.k, x[2])

\* A page takes up where the listed ones ended and leaves out nothing it passes.
LEMMA PageGoesOn ==
  ASSUME SearchInv, NEW q, NEW after, NEW limit \in Nat \ {0}, Answer(q, after, limit),
         listed \in Seq(Entries(q)), Ordered(listed),
         \/ after = <<>> /\ listed = <<>>
         \/ /\ after \in Keys(q)
            /\ \A i \in DOMAIN listed : listed[i][2] = after \/ Precedes(listed[i][2], after),
         NEW S, S \subseteq {<<f, OrderKey(q, f)>> : f \in Matched(q)},
         \A x \in S : x \in ToSet(listed) \/ IsAfter(x[2], after)
  PROVE  /\ listed' \in Seq(Entries(q)) /\ Ordered(listed)'
         /\ walk' \in {"walking", "ended"}
         /\ walk' = "ended" => S \subseteq ToSet(listed')
         /\ walk' = "walking" =>
              /\ listed' # <<>> /\ cursor'.k = listed'[Len(listed')][2]
              /\ \A x \in S : x \in ToSet(listed') \/ Precedes(cursor'.k, x[2])
<1>1. PICK rows : rows = PageRows(q, after, limit)
  OBVIOUS
<1>2. /\ rows \in Seq(RowsAfter(q, after)) /\ Len(rows) <= limit + 1
      /\ \A i, j \in DOMAIN rows : i < j => Precedes(OrderKey(q, rows[i]), OrderKey(q, rows[j]))
      /\ \A f \in RowsAfter(q, after) :
           \/ \E i \in DOMAIN rows : i <= limit /\ rows[i] = f
           \/ Len(rows) > limit /\ Precedes(OrderKey(q, rows[limit]), OrderKey(q, f))
  BY <1>1, PageBegins
<1>3. PICK shown \in Nat : shown = IF Len(rows) > limit THEN limit ELSE Len(rows)
  BY <1>2
<1>4. PICK page : page = [i \in 1..shown |-> <<rows[i], OrderKey(q, rows[i])>>]
  OBVIOUS
<1>5. /\ listed' = listed \o page
      /\ Len(rows) > limit => walk' = "walking" /\ cursor' = NextCursor(q, rows, limit)
      /\ ~(Len(rows) > limit) => walk' = "ended"
  BY <1>1, <1>3, <1>4 DEF Answer
<1>6. \A f \in RowsAfter(q, after) :
        /\ f \in Matched(q) /\ f \in Nat /\ OrderKey(q, f) \in Keys(q)
        /\ IsAfter(OrderKey(q, f), after)
  BY MatchesHaveKeys DEF RowsAfter
<1>7. \A i \in 1..shown : /\ i \in DOMAIN rows /\ rows[i] \in RowsAfter(q, after)
                          /\ page[i] = <<rows[i], OrderKey(q, rows[i])>>
                          /\ page[i] \in Entries(q)
  <2>1. \A i \in 1..shown : i \in DOMAIN rows /\ rows[i] \in RowsAfter(q, after)
    BY <1>2, <1>3
  <2> QED
    BY <1>4, <1>6, <2>1 DEF Entries
<1>8. page \in Seq(Entries(q)) /\ Len(page) = shown
  <2>1. page \in [1..shown -> Entries(q)]
    BY <1>4, <1>7
  <2> QED
    BY <1>3, <2>1
<1>9. /\ listed' \in Seq(Entries(q)) /\ Len(listed') = Len(listed) + shown
      /\ \A i \in 1..Len(listed) : listed'[i] = listed[i]
      /\ \A i \in 1..shown : listed'[Len(listed) + i] = page[i]
  <2>1. /\ listed \o page \in Seq(Entries(q)) /\ Len(listed \o page) = Len(listed) + Len(page)
        /\ \A i \in 1..Len(listed) + Len(page) :
             (listed \o page)[i] = IF i <= Len(listed) THEN listed[i] ELSE page[i - Len(listed)]
    BY <1>8, ConcatProperties
  <2>2. \A i \in 1..shown : /\ Len(listed) + i \in 1..Len(listed) + shown
                            /\ ~(Len(listed) + i <= Len(listed)) /\ (Len(listed) + i) - Len(listed) = i
    BY <1>3
  <2>3. \A i \in 1..Len(listed) : i \in 1..Len(listed) + shown /\ i <= Len(listed)
    BY <1>3
  <2> QED
    BY <1>5, <1>8, <2>1, <2>2, <2>3
<1>10. /\ Len(listed) \in Nat /\ DOMAIN listed = 1..Len(listed)
       /\ DOMAIN listed' = 1..Len(listed) + shown
  BY <1>9
<1>11. /\ ToSet(listed) \subseteq ToSet(listed')
       /\ \A i \in 1..shown : <<rows[i], OrderKey(q, rows[i])>> \in ToSet(listed')
  <2>1. \A i \in 1..Len(listed) : i \in DOMAIN listed'
    BY <1>10
  <2>2. \A i \in 1..shown : Len(listed) + i \in DOMAIN listed'
    BY <1>10
  <2> QED
    BY <1>7, <1>9, <1>10, <2>1, <2>2 DEF ToSet
<1>12. ASSUME NEW i \in DOMAIN listed', NEW j \in DOMAIN listed', i < j
       PROVE  Precedes(listed'[i][2], listed'[j][2])
  <2>1. CASE j \in 1..Len(listed)
    <3>1. i \in 1..Len(listed)
      BY <1>10, <1>12, <2>1
    <3> QED
      BY <1>9, <1>10, <1>12, <2>1, <3>1 DEF Ordered
  <2>2. CASE j \notin 1..Len(listed)
    <3>1. PICK n \in 1..shown : j = Len(listed) + n
      <4>1. j - Len(listed) \in 1..shown /\ j = Len(listed) + (j - Len(listed))
        BY <1>10, <2>2
      <4> QED
        BY <4>1
    <3>2. listed'[j][2] = OrderKey(q, rows[n]) /\ n \in DOMAIN rows /\ rows[n] \in RowsAfter(q, after)
      <4>1. listed'[j] = page[n] /\ page[n] = <<rows[n], OrderKey(q, rows[n])>>
        BY <1>7, <1>9, <3>1
      <4> QED
        BY <1>7, <4>1
    <3>3. CASE i \in 1..Len(listed)
      <4>1. after \in Keys(q) /\ after # <<>> /\ (listed[i][2] = after \/ Precedes(listed[i][2], after))
        <5>1. listed # <<>>
          BY <1>10, <3>3
        <5>2. after \in Keys(q) /\ (listed[i][2] = after \/ Precedes(listed[i][2], after))
          BY <1>10, <3>3, <5>1
        <5>3. after # <<>>
          BY <5>2 DEF Keys
        <5> QED
          BY <5>2, <5>3
      <4>2. Precedes(after, OrderKey(q, rows[n])) /\ OrderKey(q, rows[n]) \in Keys(q)
        BY <1>6, <3>2, <4>1 DEF IsAfter
      <4>3. listed[i][2] \in Keys(q)
        BY <1>10, <3>3 DEF Entries
      <4>4. Precedes(listed[i][2], OrderKey(q, rows[n]))
        BY <4>1, <4>2, <4>3, KeysOrdered
      <4> QED
        BY <1>9, <3>2, <3>3, <4>4
    <3>4. CASE i \notin 1..Len(listed)
      <4>1. PICK m \in 1..shown : i = Len(listed) + m
        <5>1. i - Len(listed) \in 1..shown /\ i = Len(listed) + (i - Len(listed))
          BY <1>10, <3>4
        <5> QED
          BY <5>1
      <4>2. listed'[i][2] = OrderKey(q, rows[m]) /\ m \in DOMAIN rows
        <5>1. listed'[i] = page[m] /\ page[m] = <<rows[m], OrderKey(q, rows[m])>>
          BY <1>7, <1>9, <4>1
        <5> QED
          BY <1>7, <5>1
      <4>3. m < n
        BY <1>10, <1>12, <3>1, <4>1
      <4> QED
        BY <1>2, <3>2, <4>2, <4>3
    <3> QED
      BY <3>3, <3>4
  <2> QED
    BY <2>1, <2>2
<1>13. Ordered(listed)'
  BY <1>12 DEF Ordered
<1>14. ASSUME NEW x \in S, x \notin ToSet(listed')
       PROVE  Len(rows) > limit /\ Precedes(OrderKey(q, rows[limit]), x[2])
  <2>1. PICK f \in Matched(q) : x = <<f, OrderKey(q, f)>>
    OBVIOUS
  <2>2. f \in RowsAfter(q, after)
    BY <1>11, <1>14, <2>1 DEF RowsAfter
  <2>3. ASSUME NEW i \in DOMAIN rows, i <= limit, rows[i] = f PROVE FALSE
    <3>1. i \in 1..shown
      BY <1>2, <1>3, <2>3
    <3> QED
      BY <1>11, <1>14, <2>1, <2>3, <3>1
  <2> QED
    BY <1>2, <2>1, <2>2, <2>3
<1>15. Len(rows) > limit =>
         listed' # <<>> /\ cursor'.k = OrderKey(q, rows[limit]) /\ listed'[Len(listed')][2] = cursor'.k
  <2> SUFFICES ASSUME Len(rows) > limit
               PROVE  /\ listed' # <<>> /\ cursor'.k = OrderKey(q, rows[limit])
                      /\ listed'[Len(listed')][2] = cursor'.k
    OBVIOUS
  <2>1. shown = limit /\ limit \in 1..shown
    BY <1>3
  <2>2. cursor'.k = OrderKey(q, rows[limit])
    BY <1>5 DEF NextCursor, EncodeCursor
  <2>3. listed'[Len(listed')][2] = OrderKey(q, rows[limit])
    BY <1>7, <1>9, <2>1
  <2> QED
    BY <1>9, <1>10, <2>1, <2>2, <2>3
<1> QED
  BY <1>5, <1>9, <1>13, <1>14, <1>15

\* A page of the walk's search.
LEMMA PageStep ==
  ASSUME SearchInv, WalkOrderInv, NEW limit, NEW after, ValidSearch(query, limit),
         Answer(query, after, limit), UNCHANGED <<catalogueVars, query>>,
         \/ walk = "idle" /\ after = <<>>
         \/ walk = "walking" /\ after = cursor.k,
         walk = "idle" => steady' = Matching',
         walk = "walking" => steady' = steady \cap Matching'
  PROVE  WalkOrderInv' /\ (walk' = "ended" => steady' \subseteq ToSet(listed'))
<1>1. limit \in Nat \ {0}
  BY SearchAssumption DEF ValidSearch
<1>2. Matching' = {<<f, OrderKey(query, f)>> : f \in Matched(query)}
  BY DEF Matching, Matched, OrderKey, LowestFare, RoomyClasses, AvailableIn, Bounds, catalogueVars, tables
<1>3. steady' \subseteq {<<f, OrderKey(query, f)>> : f \in Matched(query)}
  BY <1>2
<1>4. /\ listed \in Seq(Entries(query)) /\ Ordered(listed)
      /\ \/ after = <<>> /\ listed = <<>>
         \/ /\ after \in Keys(query)
            /\ \A i \in DOMAIN listed : listed[i][2] = after \/ Precedes(listed[i][2], after)
      /\ \A x \in steady' : x \in ToSet(listed) \/ IsAfter(x[2], after)
  <2>1. CASE walk = "idle"
    BY <2>1 DEF WalkOrderInv, IsAfter
  <2>2. CASE walk = "walking"
    <3>1. /\ listed \in Seq(Entries(query)) /\ listed # <<>> /\ after = listed[Len(listed)][2]
          /\ Ordered(listed) /\ \A x \in steady' : x \in ToSet(listed) \/ Precedes(after, x[2])
      BY <2>2 DEF WalkOrderInv
    <3>2. Len(listed) \in DOMAIN listed /\ DOMAIN listed = 1..Len(listed) /\ Len(listed) \in Nat
      BY <3>1
    <3>3. after \in Keys(query)
      BY <3>1, <3>2 DEF Entries
    <3>4. ASSUME NEW i \in DOMAIN listed
          PROVE  listed[i][2] = after \/ Precedes(listed[i][2], after)
      <4>1. i = Len(listed) \/ i < Len(listed)
        BY <3>2
      <4> QED
        BY <3>1, <3>2, <4>1 DEF Ordered
    <3> QED
      BY <3>1, <3>3, <3>4 DEF IsAfter
  <2> QED
    BY <2>1, <2>2
<1>5. /\ listed' \in Seq(Entries(query)) /\ Ordered(listed)'
      /\ walk' \in {"walking", "ended"}
      /\ walk' = "ended" => steady' \subseteq ToSet(listed')
      /\ walk' = "walking" =>
           /\ listed' # <<>> /\ cursor'.k = listed'[Len(listed')][2]
           /\ \A x \in steady' : x \in ToSet(listed') \/ Precedes(cursor'.k, x[2])
  BY <1>1, <1>3, <1>4, PageGoesOn
<1> QED
  BY <1>5 DEF WalkOrderInv, Entries, Keys

LEMMA WalkOrderStep ==
  SearchInv /\ WalkInv /\ WalkOrderInv /\ [Next]_vars =>
    /\ WalkOrderInv'
    /\ walk # "refused" /\ walk' = "ended" /\ vars' # vars =>
         /\ steady' \subseteq ToSet(listed')
         /\ \A i, j \in DOMAIN listed' : i < j => Precedes(listed'[i][2], listed'[j][2])
<1> SUFFICES ASSUME SearchInv, WalkInv, WalkOrderInv, [Next]_vars
             PROVE  /\ WalkOrderInv'
                    /\ walk # "refused" /\ walk' = "ended" /\ vars' # vars =>
                         steady' \subseteq ToSet(listed')
  BY DEF WalkOrderInv, Ordered
<1>1. CASE UNCHANGED vars
  BY <1>1 DEF vars, walkVars, WalkOrderInv, Ordered, Entries, Keys
<1>2. CASE Next
  <2>1. steady' = CASE walk = "idle" /\ walk' # "refused" -> IF walk' = "idle" THEN {} ELSE Matching'
                    [] walk = "walking" /\ walk' # "refused" -> steady \cap Matching'
                    [] OTHER -> {}
    BY <1>2 DEF Next
  <2>2. CASE CatalogueNext /\ UNCHANGED <<walk, query, cursor, listed>>
    <3>1. walk = "walking" => steady' \subseteq steady
      BY <2>1, <2>2
    <3>2. walk = "ended" => steady' = {}
      BY <2>1, <2>2
    <3> QED
      BY <2>2, <3>1, <3>2 DEF WalkOrderInv, Ordered, Entries, Keys
  <2>3. CASE UNCHANGED <<catalogueVars, listed>> /\ walk' = "refused"
    BY <2>3 DEF WalkOrderInv, Ordered
  <2>4. ASSUME NEW limit \in Limits, FirstPage(limit), walk' # "refused"
        PROVE  WalkOrderInv' /\ (walk' = "ended" => steady' \subseteq ToSet(listed'))
    <3>1. /\ walk = "idle" /\ ValidSearch(query, limit) /\ Answer(query, <<>>, limit)
          /\ UNCHANGED <<catalogueVars, query>>
      BY <2>4 DEF FirstPage
    <3>2. walk' # "idle"
      BY <3>1 DEF Answer
    <3> QED
      <4>1. steady' = Matching'
        BY <2>1, <2>4, <3>1, <3>2
      <4> QED
        BY <3>1, <4>1, PageStep
  <2>5. ASSUME NEW limit \in Limits, NextPage(limit)
        PROVE  WalkOrderInv' /\ (walk' = "ended" => steady' \subseteq ToSet(listed'))
    <3>1. /\ walk = "walking" /\ ValidSearch(query, limit) /\ Answer(query, cursor.k, limit)
          /\ UNCHANGED <<catalogueVars, query>>
      BY <2>5 DEF NextPage
    <3>2. walk' # "refused"
      BY <3>1 DEF Answer
    <3> QED
      BY <2>1, <3>1, <3>2, PageStep
  <2>6. ASSUME NEW limit \in Limits, NEW q \in Queries, OtherSearch(q, limit)
        PROVE  UNCHANGED <<catalogueVars, listed>> /\ walk' = "refused"
    <3>1. ~DecodesFor(cursor, q)
      BY <2>6 DEF OtherSearch, DecodesFor, WalkInv, Seal, Scope
    <3> QED
      BY <2>6, <3>1 DEF OtherSearch
  <2>7. ASSUME NEW limit \in Limits, FirstPage(limit), walk' = "refused"
        PROVE  UNCHANGED <<catalogueVars, listed>>
    BY <2>7 DEF FirstPage, Answer
  <2> QED
    BY <1>2, <2>2, <2>3, <2>4, <2>5, <2>6, <2>7 DEF Next, SearchNext
<1> QED
  BY <1>1, <1>2

LEMMA AlwaysWalkInv == Spec => []WalkInv /\ []WalkOrderInv
<1>1. SearchInit => WalkInv /\ WalkOrderInv
  BY DEF SearchInit, WalkInv, WalkOrderInv, Ordered
<1> QED
  BY <1>1, WalkStep, WalkOrderStep, AlwaysSearchInv, PTL DEF Spec

\* The keyset pages of flightSearchSql: however many flights there are, and whatever sells out,
\* opens or appears between two pages of whatever size, a walk misses no flight that matched all
\* the time and shows none twice or out of order.
THEOREM WalksListEachOnce == Spec => WalkListsEachOnce
<1>1. SearchInv /\ WalkInv /\ WalkOrderInv /\ [Next]_vars =>
        [walk # "refused" /\ walk' = "ended" =>
           /\ steady' \subseteq ToSet(listed')
           /\ \A i, j \in DOMAIN listed' : i < j => Precedes(listed'[i][2], listed'[j][2])]_vars
  BY WalkOrderStep
<1> QED
  BY <1>1, AlwaysSearchInv, AlwaysWalkInv, PTL DEF Spec, WalkListsEachOnce
================================================================================
