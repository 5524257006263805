---------------------------- MODULE EventContracts ----------------------------
(***************************************************************************)
(* The event payloads the API writes to its outbox and the parsers of      *)
(* packages/contracts the notifier reads them with.  A payload is a        *)
(* function from the names of its fields to how each is filled in:         *)
(* "present" (well formed), "null", "bad" (empty or of the wrong type), or *)
(* "absent".  A field of an array is present if it is so in every element. *)
(***************************************************************************)
Envelope == {"type", "eventId", "correlationId", "occurredAt"}
Passenger == {"passengers", "passengers.name", "passengers.seat"}
Priced == {"passengers.fareClass", "passengers.price", "total"}

EventTypes ==
  {"booking-held", "booking-confirmed", "booking-cancelled", "booking-expired",
   "booking-created", "flight-created"}

\* What each parser demands, admits as absent (in messages written before the field
\* existed) and admits as null (the refund of a cancelled booking that was not paid).
Contract(required, optional, nullable) ==
  [required |-> Envelope \cup {"id"} \cup required, optional |-> optional, nullable |-> nullable]

BookingHeld ==
  Contract(Passenger \cup {"reference", "flightId", "createdAt", "holdExpiresAt"}, Priced, {})

BookingConfirmed ==
  Contract(Passenger \cup Priced \cup {"reference", "flightId", "payment.id", "payment.amount"}, {}, {})

BookingCancelled == Contract({"reference", "flightId", "seats"}, {}, {"refund"})

BookingExpired == Contract({"reference", "flightId", "holdExpiresAt", "seats"}, {}, {})

BookingCreated == Contract({"flightId", "passengerName", "createdAt"}, {}, {})

FlightCreated ==
  Contract({"flightNumber", "origin", "destination", "departureAt", "arrivalAt", "currency",
            "priceInCents", "availableSeats"},
           {"originAirportId", "destinationAirportId", "aircraftId", "status", "fares"}, {})

ContractOf ==
  [t \in EventTypes |->
    CASE t = "booking-held" -> BookingHeld
      [] t = "booking-confirmed" -> BookingConfirmed
      [] t = "booking-cancelled" -> BookingCancelled
      [] t = "booking-expired" -> BookingExpired
      [] t = "booking-created" -> BookingCreated
      [] t = "flight-created" -> FlightCreated]

FieldsOf(c) == c.required \cup c.optional \cup c.nullable

\* Mutant of Parses: fields added later are required.
ParsesLatestOnly(t, payload) ==
  LET c == ContractOf[t] IN
  /\ \A f \in c.required \cup c.optional : payload[f] = "present"
  /\ \A f \in c.nullable : payload[f] \in {"present", "null"}

\* parse...Event: whether the notifier processes a payload or rejects it.
Parses(t, payload) ==
  LET c == ContractOf[t] IN
  /\ \A f \in c.required : payload[f] = "present"
  /\ \A f \in c.optional : payload[f] \in {"present", "absent"}
  /\ \A f \in c.nullable : payload[f] \in {"present", "null"}

-----------------------------------------------------------------------------
\* What the use cases write: all fields, and null for the refund of an unpaid booking.
HeldPayload == [f \in FieldsOf(BookingHeld) |-> "present"]
ConfirmedPayload == [f \in FieldsOf(BookingConfirmed) |-> "present"]
ExpiredPayload == [f \in FieldsOf(BookingExpired) |-> "present"]
FlightCreatedPayload == [f \in FieldsOf(FlightCreated) |-> "present"]
CancelledPayload(paid) ==
  [f \in FieldsOf(BookingCancelled) |-> IF f = "refund" /\ ~paid THEN "null" ELSE "present"]

\* Shapes of earlier versions that may still be in the outbox or a queue.
HeldBeforePrices == [f \in FieldsOf(BookingHeld) |-> IF f \in Priced THEN "absent" ELSE "present"]
CreatedPayload == [f \in FieldsOf(BookingCreated) |-> "present"]
FlightCreatedBeforeReferences ==
  [f \in FieldsOf(FlightCreated) |-> IF f \in FlightCreated.optional THEN "absent" ELSE "present"]
FlightCreatedBeforeFares == [f \in FieldsOf(FlightCreated) |-> IF f = "fares" THEN "absent" ELSE "present"]
CancelledBeforeContract ==
  [f \in FieldsOf(BookingCancelled) |->
    IF f \in Envelope \cup {"id", "flightId"} THEN "present" ELSE "absent"]

\* Every event the system has written, of this version or an earlier one.
WrittenEvents ==
  {<<"booking-held", HeldPayload>>, <<"booking-held", HeldBeforePrices>>,
   <<"booking-confirmed", ConfirmedPayload>>, <<"booking-expired", ExpiredPayload>>,
   <<"booking-cancelled", CancelledPayload(TRUE)>>, <<"booking-cancelled", CancelledPayload(FALSE)>>,
   <<"booking-cancelled", CancelledBeforeContract>>, <<"booking-created", CreatedPayload>>,
   <<"flight-created", FlightCreatedPayload>>, <<"flight-created", FlightCreatedBeforeReferences>>,
   <<"flight-created", FlightCreatedBeforeFares>>}
===============================================================================
