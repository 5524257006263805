------------------------------ MODULE FlightRules ------------------------------
(***************************************************************************)
(* The lifecycle of a flight: what is stored, what follows from the clock, *)
(* and what that allows (flight-lifecycle.ts, on-sale-sql.ts).             *)
(***************************************************************************)
EXTENDS Integers

CONSTANT SalesCutoff  \* SALES_CLOSE_BEFORE_DEPARTURE_MS

ASSUME SalesCutoffAssumption == SalesCutoff \in Nat

StoredFlightStatuses == {"SCHEDULED", "OPEN", "CANCELLED"}

\* CLOSED and DEPARTED are never stored: they follow from the clock.
EffectiveFlightStatus(stored, departure, t) ==
  CASE stored = "CANCELLED" -> "CANCELLED"
    [] stored # "CANCELLED" /\ t >= departure -> "DEPARTED"
    [] stored = "OPEN" /\ t < departure /\ t >= departure - SalesCutoff -> "CLOSED"
    [] OTHER -> stored

IsBookable(stored, departure, t) == EffectiveFlightStatus(stored, departure, t) = "OPEN"

\* Mutant of OnSaleSql: sold until the very instant sales close.
OnSaleSqlInclusive(stored, departure, t) ==
  stored = "OPEN" /\ departure - SalesCutoff >= t

\* The SQL twin of IsBookable, in the two hold statements.
OnSaleSql(stored, departure, t) == stored = "OPEN" /\ departure - SalesCutoff > t

\* SCHEDULED -> OPEN, the one transition a route offers.
CanOpen(stored, departure, t) ==
  /\ EffectiveFlightStatus(stored, departure, t) = "SCHEDULED"
  /\ departure - t > SalesCutoff
================================================================================
