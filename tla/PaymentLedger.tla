---------------------------- MODULE PaymentLedger ----------------------------
(***************************************************************************)
(* What the payment code promises, whatever its processes, retries and     *)
(* crashes: bookings, payments and the provider's money move together, one *)
(* action per transaction or provider decision.  Payments shows that the   *)
(* requests, the idempotency keys and the reconciliation job implement it. *)
(***************************************************************************)
EXTENDS Integers, FiniteSets

CONSTANTS
  Bookings,    \* booking ids, all drawn and HELD at the start
  PaymentIds   \* payments.id, also the provider's idempotency key

ASSUME LedgerAssumption == Bookings # {}

VARIABLES
  status,      \* bookings.status
  lapsed,      \* bookings whose hold_expires_at has passed
  payStatus,   \* payments.status, "NONE" before the row exists
  payBooking,  \* payments.booking_id
  charge,      \* the provider's answer to a charge with this payment id
  refunded     \* payments whose money the provider gave back

vars == <<status, lapsed, payStatus, payBooking, charge, refunded>>
provider == <<charge, refunded>>

PayStatuses ==
  {"NONE", "PROCESSING", "SUCCEEDED", "FAILED", "REFUND_PENDING", "REFUNDED", "REFUND_FAILED"}

PaymentsOf(b, s) == {p \in PaymentIds : payStatus[p] = s /\ payBooking[p] = b}

Init ==
  /\ status = [b \in Bookings |-> "HELD"]
  /\ lapsed = {}
  /\ payStatus = [p \in PaymentIds |-> "NONE"]
  /\ payBooking = [p \in PaymentIds |-> CHOOSE b \in Bookings : TRUE]
  /\ charge = [p \in PaymentIds |-> "none"]
  /\ refunded = {}

\* A payment's conditional transition (UPDATE ... WHERE status = from).
Move(p, from, to) ==
  /\ payStatus[p] = from
  /\ payStatus' = [payStatus EXCEPT ![p] = to]

-------------------------------------------------------------------------------
(* Bookings *)

Lapse(b) ==
  /\ lapsed' = lapsed \cup {b}
  /\ UNCHANGED <<status, payStatus, payBooking, provider>>

Expire(b) ==
  /\ status[b] = "HELD" /\ b \in lapsed
  /\ status' = [status EXCEPT ![b] = "EXPIRED"]
  /\ UNCHANGED <<lapsed, payStatus, payBooking, provider>>

\* Mutant of Cancel: the money of a paid booking is kept.
CancelKeepingMoney(b) ==
  /\ status[b] \in {"HELD", "CONFIRMED"}
  /\ status' = [status EXCEPT ![b] = "CANCELLED"]
  /\ UNCHANGED <<lapsed, payStatus, payBooking, provider>>

\* One transaction: the booking ends and its money is due back.
Cancel(b) ==
  /\ status[b] \in {"HELD", "CONFIRMED"}
  /\ status' = [status EXCEPT ![b] = "CANCELLED"]
  /\ payStatus' = [p \in PaymentIds |->
       IF p \in PaymentsOf(b, "SUCCEEDED") THEN "REFUND_PENDING" ELSE payStatus[p]]
  /\ UNCHANGED <<lapsed, payBooking, provider>>

-------------------------------------------------------------------------------
(* Charging *)

\* Phase 1 read the booking before, so it may no longer be HELD.
Start(p, b) ==
  /\ payStatus[p] = "NONE"
  /\ PaymentsOf(b, "PROCESSING") = {}
  /\ payStatus' = [payStatus EXCEPT ![p] = "PROCESSING"]
  /\ payBooking' = [payBooking EXCEPT ![p] = b]
  /\ UNCHANGED <<status, lapsed, provider>>

\* The provider decides once per payment id.
Decide(p, answer) ==
  /\ payStatus[p] = "PROCESSING" /\ charge[p] = "none"
  /\ charge' = [charge EXCEPT ![p] = answer]
  /\ UNCHANGED <<status, lapsed, payStatus, payBooking, refunded>>

Declined(p) ==
  /\ charge[p] = "declined"
  /\ Move(p, "PROCESSING", "FAILED")
  /\ UNCHANGED <<status, lapsed, payBooking, provider>>

\* One transaction: the booking is paid and the payment has succeeded.
Confirmed(p) ==
  /\ charge[p] = "charged"
  /\ status[payBooking[p]] = "HELD"
  /\ Move(p, "PROCESSING", "SUCCEEDED")
  /\ status' = [status EXCEPT ![payBooking[p]] = "CONFIRMED"]
  /\ UNCHANGED <<lapsed, payBooking, provider>>

\* Charged, but the hold has ended: the money is owed back.
NotPayable(p) ==
  /\ charge[p] = "charged"
  /\ status[payBooking[p]] # "HELD" \/ payBooking[p] \in lapsed
  /\ Move(p, "PROCESSING", "REFUND_PENDING")
  /\ UNCHANGED <<status, lapsed, payBooking, provider>>

-------------------------------------------------------------------------------
(* Refunding *)

\* The provider may still act on a call another attempt has given up on.
Refund(p) ==
  /\ payStatus[p] \in {"REFUND_PENDING", "REFUND_FAILED"}
  /\ refunded' = refunded \cup {p}
  /\ UNCHANGED <<status, lapsed, payStatus, payBooking, charge>>

\* Mutant of Refunded: an unknown answer taken for a refund.
RefundedUnseen(p) ==
  /\ Move(p, "REFUND_PENDING", "REFUNDED")
  /\ UNCHANGED <<status, lapsed, payBooking, provider>>

Refunded(p) ==
  /\ p \in refunded
  /\ Move(p, "REFUND_PENDING", "REFUNDED")
  /\ UNCHANGED <<status, lapsed, payBooking, provider>>

\* Mutant of RefundFailed: a status the payments table does not know.
RefundFailedMislabelled(p) ==
  /\ Move(p, "REFUND_PENDING", "GAVE_UP")
  /\ UNCHANGED <<status, lapsed, payBooking, provider>>

\* Left to a person; the provider may have refunded all the same.
RefundFailed(p) ==
  /\ Move(p, "REFUND_PENDING", "REFUND_FAILED")
  /\ UNCHANGED <<status, lapsed, payBooking, provider>>

-------------------------------------------------------------------------------

Next ==
  \/ \E b \in Bookings : Lapse(b) \/ Expire(b) \/ Cancel(b)
  \/ \E p \in PaymentIds, b \in Bookings : Start(p, b)
  \/ \E p \in PaymentIds, answer \in {"charged", "declined"} : Decide(p, answer)
  \/ \E p \in PaymentIds :
       \/ Declined(p) \/ Confirmed(p) \/ NotPayable(p)
       \/ Refund(p) \/ Refunded(p) \/ RefundFailed(p)

Spec == Init /\ [][Next]_vars
-------------------------------------------------------------------------------
(* Properties *)

TypeOK ==
  /\ status \in [Bookings -> {"HELD", "CONFIRMED", "CANCELLED", "EXPIRED"}]
  /\ lapsed \subseteq Bookings
  /\ payStatus \in [PaymentIds -> PayStatuses]
  /\ payBooking \in [PaymentIds -> Bookings]
  /\ charge \in [PaymentIds -> {"none", "charged", "declined"}]
  /\ refunded \subseteq PaymentIds

\* A booking is CONFIRMED exactly when one payment of it SUCCEEDED, and never
\* has two (BR-PAY-05): seats are never given away unpaid, and no success is
\* kept for a booking that ended.
ConfirmedIffPaid ==
  /\ \A p \in PaymentIds : payStatus[p] = "SUCCEEDED" => status[payBooking[p]] = "CONFIRMED"
  /\ \A b \in Bookings : status[b] = "CONFIRMED" => PaymentsOf(b, "SUCCEEDED") # {}
  /\ \A p, q \in PaymentIds :
       payStatus[p] = "SUCCEEDED" /\ payStatus[q] = "SUCCEEDED"
       /\ payBooking[p] = payBooking[q] => p = q

\* The payments rows and the provider agree about the money: FAILED means not
\* charged, a success is charged and not given back, what is recorded as
\* REFUNDED was, and nothing is given back for a payment that stands.
MoneyAccountedFor ==
  \A p \in PaymentIds :
    /\ payStatus[p] \in {"SUCCEEDED", "REFUND_PENDING", "REFUNDED", "REFUND_FAILED"}
         <=> charge[p] = "charged" /\ payStatus[p] # "PROCESSING"
    /\ payStatus[p] = "FAILED" => charge[p] = "declined"
    /\ payStatus[p] = "REFUNDED" => p \in refunded
    /\ p \in refunded => payStatus[p] \in {"REFUND_PENDING", "REFUNDED", "REFUND_FAILED"}

\* A booking has at most one payment in PROCESSING, so at most one charge is
\* under way for it (domain-model Decision 14).
OneProcessingPerBooking ==
  \A p, q \in PaymentIds :
    payStatus[p] = "PROCESSING" /\ payStatus[q] = "PROCESSING"
    /\ payBooking[p] = payBooking[q] => p = q
===============================================================================
