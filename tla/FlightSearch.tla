------------------------------ MODULE FlightSearch ------------------------------
(***************************************************************************)
(* A customer walks through the pages of a flight search while flights are *)
(* created, opened, sold and given back (search-flights.ts,                *)
(* flight-search-validation.ts, search-cursor.ts, flight-search-sql.ts).   *)
(*                                                                         *)
(* A page is one statement, so it sees one state of the tables; the next   *)
(* page sees another.  The server keeps nothing between the two: only the  *)
(* cursor the client brings back says where to go on.                      *)
(***************************************************************************)
EXTENDS FlightCatalogue

CONSTANTS
  Queries,        \* the searches a client may ask for
  Limits,         \* page sizes it asks for
  DayLength,      \* ticks in a day of 24 hours
  OffsetAt,       \* airport -> instant -> offset of its local time
  MaxSearchDays,  \* MAX_SEARCH_DAYS
  MaxSearchPassengers, \* MAX_SEARCH_PASSENGERS
  MaxSearchLimit       \* MAX_SEARCH_LIMIT

\* Every clock of a run is known at the instants its flights leave.
ASSUME SearchAssumption ==
  /\ Queries # {} /\ DayLength \in Nat \ {0}
  /\ {MaxSearchDays, MaxSearchPassengers, MaxSearchLimit} \subseteq Nat
  /\ \A q \in Queries : q.origin \in DOMAIN OffsetAt /\ {q.from, q.to} \subseteq Int
  /\ \A airport \in DOMAIN OffsetAt :
       /\ DOMAIN OffsetAt[airport] \subseteq Int
       /\ \A t \in DOMAIN OffsetAt[airport] : OffsetAt[airport][t] \in Int
       /\ \A w \in Worlds :
            /\ \A f \in DOMAIN w.flights : w.flights[f].departure \in DOMAIN OffsetAt[airport]
            /\ \A a \in w.asks : a.kind = "flight" => a.departure \in DOMAIN OffsetAt[airport]

VARIABLES
  walk,    \* "idle", "walking" or "ended"
  query,   \* the search being walked through
  cursor,  \* nextCursor of the last page, or Nothing
  listed,  \* <<flight, key>> of every result shown, in order
  steady   \* <<flight, key>> of what matched in every state of the walk

walkVars == <<walk, query, cursor, listed, steady>>
vars == <<catalogueVars, walkVars>>

-----------------------------------------------------------------------------
\* flight-search-validation.ts

ValidSearch(q, limit) ==
  /\ q.origin # q.destination
  /\ q.from <= q.to /\ q.to - q.from + 1 <= MaxSearchDays
  /\ q.passengers \in 1..MaxSearchPassengers
  /\ q.sort \in {"departure", "price"}
  /\ limit \in 1..MaxSearchLimit

-----------------------------------------------------------------------------
\* flight-search-sql.ts

\* Local midnight as an instant: date::timestamp AT TIME ZONE zone.
MidnightAt(airport, day) ==
  CHOOSE t \in DOMAIN OffsetAt[airport] : t + OffsetAt[airport][t] = day * DayLength

\* Mutant of Bounds: the interval has 24 hours for each of its days.
BoundsByHours(q) ==
  MidnightAt(q.origin, q.from) .. MidnightAt(q.origin, q.from) + (q.to - q.from + 1) * DayLength - 1

Bounds(q) == MidnightAt(q.origin, q.from) .. MidnightAt(q.origin, q.to + 1) - 1

AvailableIn(f, class) == Cardinality({s \in flights[f].free : s.fareClass = class})

\* The flight's classes with room for the whole party.
RoomyClasses(f, passengers) ==
  {c \in DOMAIN flights[f].fares : AvailableIn(f, c) >= passengers}

LowestFare(f, passengers) ==
  LET amounts == {flights[f].fares[c] : c \in RoomyClasses(f, passengers)} IN
  CHOOSE x \in amounts : \A y \in amounts : x <= y

Matched(q) ==
  {f \in DOMAIN flights :
     /\ flights[f].origin = q.origin /\ flights[f].destination = q.destination
     /\ flights[f].departure \in Bounds(q)
     /\ OnSaleSql(flights[f].status, flights[f].departure, now)
     /\ RoomyClasses(f, q.passengers) # {}}

OrderKey(q, f) ==
  IF q.sort = "price" THEN <<LowestFare(f, q.passengers), flights[f].departure, f>>
  ELSE <<flights[f].departure, f>>

\* Row comparison, column by column.
Precedes(k, l) == \E i \in DOMAIN k : k[i] < l[i] /\ \A j \in 1..i - 1 : k[j] = l[j]

\* The keyset condition; the first page has no cursor.
IsAfter(key, after) == after = <<>> \/ Precedes(after, key)

RowsAfter(q, after) == {f \in Matched(q) : IsAfter(OrderKey(q, f), after)}

\* How many of the rows ORDER BY puts before f.
Rank(q, rows, f) == Cardinality({g \in rows : Precedes(OrderKey(q, g), OrderKey(q, f))})

\* The rows after the cursor in the order of the sort, at most limit + 1.
PageRows(q, after, limit) ==
  LET rows == RowsAfter(q, after)
      count == Cardinality(rows)
  IN [i \in 1..(IF count > limit + 1 THEN limit + 1 ELSE count) |->
        CHOOSE f \in rows : Rank(q, rows, f) = i - 1]

-----------------------------------------------------------------------------
\* search-cursor.ts

\* Mutant of Scope: the seal leaves the number of passengers out.
ScopeWithoutParty(q) == [q EXCEPT !.passengers = 0]

\* What a cursor belongs to: the whole search except the page size.
Scope(q) == q

\* SHA-256 over the key and the scope, which no two of them share.
Seal(k, q) == <<k, Scope(q)>>

EncodeCursor(k, q) == [kind |-> "cursor", k |-> k, s |-> Seal(k, q)]

DecodesFor(c, q) == Len(c.k) = (IF q.sort = "price" THEN 3 ELSE 2) /\ c.s = Seal(c.k, q)

-----------------------------------------------------------------------------
SearchInit ==
  /\ \E w \in Worlds :
       /\ CatalogueInit(w)
       /\ walk = IF w.searched THEN "idle" ELSE "ended"
       /\ query \in IF w.searched THEN Queries ELSE {CHOOSE q \in Queries : TRUE}
  /\ cursor = Nothing
  /\ listed = <<>>
  /\ steady = {}

\* Mutant of NextCursor: made from the further row instead of the last shown.
CursorOfFurtherRow(q, rows, limit) == EncodeCursor(OrderKey(q, rows[limit + 1]), q)

NextCursor(q, rows, limit) == EncodeCursor(OrderKey(q, rows[limit]), q)

\* The first limit rows are shown; a further one only says that a page follows.
Answer(q, after, limit) ==
  LET rows == PageRows(q, after, limit)
      page == [i \in 1..(IF Len(rows) > limit THEN limit ELSE Len(rows)) |->
                 <<rows[i], OrderKey(q, rows[i])>>]
  IN /\ listed' = listed \o page
     /\ IF Len(rows) > limit
        THEN /\ walk' = "walking"
             /\ cursor' = NextCursor(q, rows, limit)
        ELSE /\ walk' = "ended"
             /\ cursor' = Nothing

FirstPage(limit) ==
  /\ walk = "idle"
  /\ IF ValidSearch(query, limit)
     THEN Answer(query, <<>>, limit)
     ELSE /\ walk' = "refused"
          /\ UNCHANGED <<cursor, listed>>
  /\ UNCHANGED <<catalogueVars, query>>

\* The client goes on, with the page size it likes now.
NextPage(limit) ==
  /\ walk = "walking" /\ ValidSearch(query, limit)
  /\ DecodesFor(cursor, query)
  /\ Answer(query, cursor.k, limit)
  /\ UNCHANGED <<catalogueVars, query>>

\* It goes on with the cursor, but asks for something else.
OtherSearch(q, limit) ==
  /\ walk = "walking" /\ q # query /\ ValidSearch(q, limit)
  /\ query' = q
  /\ IF DecodesFor(cursor, q)
     THEN Answer(q, cursor.k, limit)
     ELSE /\ walk' = "refused"
          /\ UNCHANGED <<cursor, listed>>
  /\ UNCHANGED catalogueVars

SearchNext ==
  \/ \E limit \in Limits : FirstPage(limit) \/ NextPage(limit)
  \/ \E limit \in Limits, q \in Queries : OtherSearch(q, limit)

Matching == {<<f, OrderKey(query, f)>> : f \in Matched(query)}

Next ==
  /\ \/ SearchNext
     \/ CatalogueNext /\ UNCHANGED <<walk, query, cursor, listed>>
  /\ steady' = CASE walk = "idle" /\ walk' # "refused" -> IF walk' = "idle" THEN {} ELSE Matching'
                 [] walk = "walking" /\ walk' # "refused" -> steady \cap Matching'
                 [] OTHER -> {}

Spec == SearchInit /\ [][Next]_vars /\ CatalogueFairness

-----------------------------------------------------------------------------
\* A walk through the pages of a search shows every flight that matched all
\* the time, at the same place in its order, and no place in the order twice
\* or after a later one, whatever sells out, opens or appears between the
\* pages (BR-FLT-11).
WalkListsEachOnce ==
  [][walk # "refused" /\ walk' = "ended" =>
       /\ steady' \subseteq ToSet(listed')
       /\ \A i, j \in DOMAIN listed' : i < j => Precedes(listed'[i][2], listed'[j][2])]_vars

\* A cursor made for one search never answers another (BR-FLT-11): the pages
\* of a walk are the pages of one search.
WalkKeepsItsSearch == [][walk = "walking" /\ query' # query => walk' = "refused"]_vars

\* The clocks of the places searched strike each midnight once, and no instant
\* has an earlier date after it or a later one before it.  (A zone that sets
\* its clocks at midnight itself can repeat the hour before a date or skip the
\* first of it.)
ClocksKeepMidnight ==
  \A q \in Queries : ValidSearch(q, 1) =>
    \A day \in {q.from, q.to + 1} :
      LET midnight == MidnightAt(q.origin, day) IN
      /\ midnight \in DOMAIN OffsetAt[q.origin]
      /\ \A t \in DOMAIN OffsetAt[q.origin] :
           t < midnight <=> t + OffsetAt[q.origin][t] < day * DayLength

\* The statement finds exactly the flights the rules in TypeScript would:
\* bookable now, leaving on a requested date as the origin's clocks have it
\* (days of 23 and 25 hours included), and with room in one class (BR-FLT-10).
SearchAgreesWithRules ==
  ValidSearch(query, 1) =>
    Matched(query) =
      {f \in DOMAIN flights :
         LET dep == flights[f].departure IN
         /\ flights[f].origin = query.origin /\ flights[f].destination = query.destination
         /\ IsBookable(flights[f].status, dep, now)
         /\ (dep + OffsetAt[query.origin][dep]) \div DayLength \in query.from..query.to
         /\ \E c \in LayoutClasses :
              Cardinality({s \in flights[f].free : s.fareClass = c}) >= query.passengers}
================================================================================
