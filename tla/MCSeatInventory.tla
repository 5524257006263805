--------------------------- MODULE MCSeatInventory ---------------------------
(* Two flights; on f1 two economy seats and a business seat.  The numbers    *)
(* keep the order of the real ones: hold < sales cutoff < cancel window.     *)
EXTENDS SeatInventory

CONSTANTS f1, f2, Economy, Business

MCSeats == 1..4
MCFlightOf == [s \in MCSeats |-> IF s = 4 THEN f2 ELSE f1]
MCClassOf == [s \in MCSeats |-> IF s = 1 THEN Business ELSE Economy]
MCDepartureAt == [f \in Flights |-> IF f = f1 THEN 5 ELSE 3]
===============================================================================
