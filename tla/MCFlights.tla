-------------------------------- MODULE MCFlights --------------------------------
(***************************************************************************)
(* The catalogue and the search on small worlds, each chosen for one of    *)
(* the things that can go wrong: an aircraft wanted by three flights, one  *)
(* code or registration registered twice, every layout of up to two small  *)
(* cabins, a flight opened twice, and a walk through pages that change.    *)
(***************************************************************************)
EXTENDS FlightSearch

Seat(n, l, c) == [row |-> n, letter |-> l, fareClass |-> c]

Economy == {Seat(2, "a", "ECONOMY")}
EconomyRow == Economy \cup {Seat(2, "b", "ECONOMY")}
Mixed == Economy \cup {Seat(1, "a", "BUSINESS")}

CheapFare == "ECONOMY" :> 1
BothFares == "ECONOMY" :> 2 @@ "BUSINESS" :> 3

Asked(number, registration, departure, arrival, fares) ==
  [kind |-> "flight", number |-> number, origin |-> "spring", destination |-> "autumn",
   aircraft |-> registration, departure |-> departure, arrival |-> arrival, fares |-> fares,
   wellFormed |-> TRUE]

Stored(a, status, seats) == [FlightRow(a, seats) EXCEPT !.status = status]

Open(f) == [kind |-> "open", flight |-> f]

World(fleet, stored, requests, asks, searched) ==
  [airports |-> {"spring", "autumn"}, aircraft |-> fleet, flights |-> stored,
   requests |-> requests, asks |-> asks, searched |-> searched]

Fleet == "VN-1" :> Economy @@ "VN-2" :> Mixed @@ "VN-3" :> EconomyRow

\* Turnaround 1: 2-3 and 4-5 just fit on one aircraft, 3-4 collides with both.
First == Asked("F1", "VN-1", 2, 3, CheapFare)
Second == Asked("F2", "VN-1", 3, 4, CheapFare)
Third == Asked("F3", "VN-1", 4, 5, CheapFare)
SameFlight == Asked("F1", "VN-2", 2, 6, BothFares)

Races ==
  {World(Fleet, 11 :> Stored(Asked("F9", "VN-1", 5, 7, CheapFare), status, Economy), {1, 2, 3},
         {First, Second, Third}, FALSE) : status \in {"OPEN", "CANCELLED"}}
  \cup {World(Fleet, <<>>, {1, 2, 3}, asks, FALSE) :
          asks \in {{First, SameFlight}, {First, Second}, {SameFlight, Second},
                    {Asked("F1", "VN-2", 2, 3, CheapFare)},
                    {Asked("F1", "VN-1", 2, 3, BothFares)},
                    {Asked("F1", "VN-4", 2, 3, CheapFare)},
                    {Asked("F1", "VN-1", 3, 3, CheapFare)}}}

NewAirport == [kind |-> "airport", code |-> "spring", wellFormed |-> TRUE]
BadAirport == [NewAirport EXCEPT !.wellFormed = FALSE]
NewAircraft(cabins) ==
  [kind |-> "aircraft", registration |-> "VN-1", cabins |-> cabins, wellFormed |-> TRUE]
Cabin(class, from, to, letters) ==
  [fareClass |-> class, from |-> from, to |-> to, letters |-> letters]
Slim == <<Cabin("ECONOMY", 1, 1, <<"a">>)>>

Registrations ==
  {[World(<<>>, <<>>, {1, 2, 3}, asks, FALSE) EXCEPT !.airports = {"autumn"}] :
     asks \in {{NewAirport, BadAirport},
              {NewAircraft(Slim), NewAircraft(<<Cabin("ECONOMY", 1, 2, <<"b">>)>>)},
              {NewAirport, NewAircraft(Slim), First}}}

SmallCabins ==
  {Cabin(class, rows[1], rows[2], letters) :
     class \in LayoutClasses,
     rows \in {<<1, 1>>, <<1, 2>>, <<2, 2>>, <<2, 3>>, <<3, 2>>},
     letters \in {<<"a">>, <<"b", "a">>, <<"a", "a">>}}

Layouts ==
  {World(<<>>, <<>>, {1}, {NewAircraft(cabins)}, FALSE) :
     cabins \in {<<>>} \cup {<<c>> : c \in SmallCabins} \cup {<<c, d>> : c, d \in SmallCabins}
                \cup {<<Cabin("ECONOMY", 1, 1, <<"a">>), Cabin("BUSINESS", 2, 2, <<"a">>),
                        Cabin("ECONOMY", 3, 3, <<"a">>)>>}}

Openings ==
  {World(Fleet, 11 :> Stored(Asked("F1", "VN-1", 4, 5, CheapFare), "SCHEDULED", Economy),
         {1, 2, 3}, asks, FALSE) :
     asks \in {{Open(11)}, {Open(12), Open(11)}}}

Searches ==
  {World(Fleet,
         11 :> Stored(Asked("F1", "VN-1", 4, 5, CheapFare), "OPEN", Economy)
           @@ 12 :> Stored(Asked("F2", "VN-2", 4, 6, BothFares), "OPEN", Mixed)
           @@ 13 :> Stored(Asked("F3", "VN-3", 6, 8, CheapFare), "OPEN", EconomyRow)
           @@ 14 :> Stored(Asked("F4", "VN-1", 7, 9, CheapFare), "SCHEDULED", Economy),
         {1}, {Open(14)}, TRUE)}
  \cup {World(Fleet,
              11 :> [Stored(Asked("F1", "VN-1", 7, 9, CheapFare), "OPEN", Economy)
                       EXCEPT !.origin = "autumn", !.destination = "spring"],
              {1}, {Open(11)}, TRUE)}

MCWorlds == Races \cup Registrations \cup Layouts \cup Openings \cup Searches

\* Clocks go forward an hour in the one town and back an hour in the other:
\* day 1 is 3 ticks long there and 5 ticks here.
MCOffsetAt ==
  "spring" :> [t \in 0..16 |-> IF t < 6 THEN 0 ELSE 1]
    @@ "autumn" :> [t \in 0..16 |-> IF t < 6 THEN 1 ELSE 0]

Query(from, to, passengers, sort) ==
  [origin |-> "spring", destination |-> "autumn", from |-> from, to |-> to,
   passengers |-> passengers, sort |-> sort]

MCQueries ==
  {Query(1, 2, 1, "departure"), Query(1, 2, 1, "price"), Query(1, 2, 2, "departure"),
   Query(2, 1, 1, "departure"),
   [Query(1, 1, 1, "departure") EXCEPT !.origin = "autumn", !.destination = "spring"]}

ASSUME MCClocksKeepMidnight == ClocksKeepMidnight
================================================================================
