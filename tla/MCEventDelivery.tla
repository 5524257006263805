---------------------------- MODULE MCEventDelivery ----------------------------
(* The events of one booking: held, then paid or cancelled by a request, or    *)
(* expired by the sweep; and messages of every other type, of this version and *)
(* earlier ones.  MCEventDelivery.cfg: deployments of one process with more    *)
(* faults, or of two with fewer.  MCEventLost.cfg: the events a lost           *)
(* connection loses.                                                           *)
EXTENDS EventDelivery

CONSTANTS a1, a2, m1, m2, m3

MCTypeOf ==
  [k \in Kinds |-> CASE k \in {"held", "old held"} -> "booking-held"
                     [] k = "confirmed" -> "booking-confirmed"
                     [] k \in {"cancelled", "refunded", "old cancelled"} -> "booking-cancelled"
                     [] k = "expired" -> "booking-expired"
                     [] k \in {"flight", "old flight", "unpriced flight"} -> "flight-created"
                     [] k = "old created" -> "booking-created"]

MCPayloadOf ==
  [k \in Kinds |-> CASE k = "held" -> HeldPayload
                     [] k = "confirmed" -> ConfirmedPayload
                     [] k = "cancelled" -> CancelledPayload(FALSE)
                     [] k = "refunded" -> CancelledPayload(TRUE)
                     [] k = "expired" -> ExpiredPayload
                     [] k = "flight" -> FlightCreatedPayload
                     [] k = "old held" -> HeldBeforePrices
                     [] k = "old cancelled" -> CancelledBeforeContract
                     [] k = "old flight" -> FlightCreatedBeforeReferences
                     [] k = "unpriced flight" -> FlightCreatedBeforeFares
                     [] k = "old created" -> CreatedPayload]

\* m3 is the sweep's.
Deployment(apis, k1, k2, k3, msgs, poisoned, faults) ==
  [apis |-> apis, msgs |-> msgs, poisoned |-> poisoned, budget |-> faults,
   kindOf |-> [m \in Msgs |-> CASE m = m1 -> k1 [] m = m2 -> k2 [] m = m3 -> k3]]

Booking(apis, msgs, poisoned, faults) ==
  Deployment(apis, "held", "cancelled", "expired", msgs, poisoned, faults)

MCDeployments ==
  {Booking({a1}, {m1}, {}, 2),
   Booking({a1}, {m1, m3}, {}, 1),
   Booking({a1}, {m1, m2, m3}, {}, 0),
   Booking({a1}, {m1, m2}, {m1}, 1),
   Booking({a1, a2}, {m1, m2}, {}, 0),
   Booking({a1, a2}, {m1}, {}, 1),
   Deployment({a1}, "confirmed", "refunded", "expired", {m1, m2}, {}, 0),
   Deployment({a1}, "flight", "old flight", "expired", {m1, m2}, {}, 0),
   Deployment({a1}, "old held", "old cancelled", "expired", {m1, m2}, {}, 0),
   Deployment({a1}, "old created", "unpriced flight", "expired", {m1, m2}, {}, 0)}
===============================================================================
