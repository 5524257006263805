------------------------- MODULE PaymentLedgerProofs -------------------------
(***************************************************************************)
(* Proofs about PaymentLedger, for any bookings and payments.  Each        *)
(* property below is inductive together with the types: no strengthening   *)
(* is needed, as the ledger's transactions each change both rows they      *)
(* relate.                                                                 *)
(***************************************************************************)
EXTENDS PaymentLedger, TLAPS

-------------------------------------------------------------------------------
(* Types *)

LEMMA TypeInit == Init => TypeOK
<1> SUFFICES ASSUME Init PROVE TypeOK
  OBVIOUS
<1>1. (CHOOSE b \in Bookings : TRUE) \in Bookings
  BY LedgerAssumption
<1> QED
  BY <1>1 DEF Init, TypeOK, PayStatuses

LEMMA TypeStep == TypeOK /\ [Next]_vars => TypeOK'
<1> SUFFICES ASSUME TypeOK, [Next]_vars PROVE TypeOK'
  OBVIOUS
<1> USE DEF TypeOK, PayStatuses
<1>1. ASSUME NEW b \in Bookings, Lapse(b) \/ Expire(b) \/ Cancel(b) PROVE TypeOK'
  BY <1>1 DEF Lapse, Expire, Cancel, provider
<1>2. ASSUME NEW p \in PaymentIds, NEW b \in Bookings, Start(p, b) PROVE TypeOK'
  BY <1>2 DEF Start, provider
<1>3. ASSUME NEW p \in PaymentIds, NEW answer \in {"charged", "declined"}, Decide(p, answer)
      PROVE TypeOK'
  BY <1>3 DEF Decide
<1>4. ASSUME NEW p \in PaymentIds, Declined(p) \/ Confirmed(p) \/ NotPayable(p) PROVE TypeOK'
  BY <1>4 DEF Declined, Confirmed, NotPayable, Move, provider
<1>5. ASSUME NEW p \in PaymentIds, Refund(p) \/ Refunded(p) \/ RefundFailed(p) PROVE TypeOK'
  BY <1>5 DEF Refund, Refunded, RefundFailed, Move, provider
<1>6. CASE UNCHANGED vars
  BY <1>6 DEF vars, provider
<1> QED
  BY <1>1, <1>2, <1>3, <1>4, <1>5, <1>6 DEF Next

\* The rows keep their types.
THEOREM TypeCorrect == Spec => []TypeOK
<1> QED
  BY TypeInit, TypeStep, PTL DEF Spec

-------------------------------------------------------------------------------
(* A booking is CONFIRMED exactly when one payment of it SUCCEEDED *)

LEMMA ConfirmedInit == Init => ConfirmedIffPaid
BY DEF Init, ConfirmedIffPaid, PaymentsOf

LEMMA ConfirmedStep == TypeOK /\ ConfirmedIffPaid /\ [Next]_vars => ConfirmedIffPaid'
<1> SUFFICES ASSUME TypeOK, ConfirmedIffPaid, [Next]_vars PROVE ConfirmedIffPaid'
  OBVIOUS
<1> USE DEF TypeOK, ConfirmedIffPaid, PaymentsOf
\* A HELD booking has no payment that SUCCEEDED.
<1>1. ASSUME NEW b \in Bookings, Expire(b) PROVE ConfirmedIffPaid'
  BY <1>1 DEF Expire
\* All its payments that SUCCEEDED leave that status with it.
<1>2. ASSUME NEW b \in Bookings, Cancel(b) PROVE ConfirmedIffPaid'
  BY <1>2 DEF Cancel
<1>3. ASSUME NEW p \in PaymentIds, NEW b \in Bookings, Start(p, b) PROVE ConfirmedIffPaid'
  BY <1>3 DEF Start
\* The booking was HELD, so p is the first.
<1>4. ASSUME NEW p \in PaymentIds, Confirmed(p) PROVE ConfirmedIffPaid'
  <2> DEFINE c == payBooking[p]
  <2>1. /\ c \in Bookings /\ status[c] = "HELD" /\ payStatus[p] = "PROCESSING"
        /\ payStatus' = [payStatus EXCEPT ![p] = "SUCCEEDED"]
        /\ status' = [status EXCEPT ![c] = "CONFIRMED"]
        /\ payBooking' = payBooking
    BY <1>4 DEF Confirmed, Move
  <2>2. \A q \in PaymentIds : payStatus[q] = "SUCCEEDED" => payBooking[q] # c
    BY <2>1
  <2> QED
    BY <2>1, <2>2
\* p neither was nor is now SUCCEEDED.
<1>5. ASSUME NEW p \in PaymentIds, payStatus[p] # "SUCCEEDED",
             NEW s \in PayStatuses \ {"SUCCEEDED"},
             payStatus' = [payStatus EXCEPT ![p] = s], UNCHANGED <<status, payBooking>>
      PROVE ConfirmedIffPaid'
  BY <1>5
<1>6. ASSUME UNCHANGED <<status, payStatus, payBooking>> PROVE ConfirmedIffPaid'
  BY <1>6
<1>7. ASSUME NEW p \in PaymentIds,
             Declined(p) \/ NotPayable(p) \/ Refunded(p) \/ RefundFailed(p)
      PROVE ConfirmedIffPaid'
  BY <1>5, <1>7 DEF Declined, NotPayable, Refunded, RefundFailed, Move, PayStatuses
<1> QED
  BY <1>1, <1>2, <1>3, <1>4, <1>6, <1>7 DEF Next, Lapse, Decide, Refund, vars

\* Seats are never given away unpaid, and no booking is paid twice, for any
\* number of bookings, payments and retries (BR-PAY-05).
THEOREM ConfirmedBookingsArePaid == Spec => []ConfirmedIffPaid
<1> QED
  BY TypeCorrect, ConfirmedInit, ConfirmedStep, PTL DEF Spec

-------------------------------------------------------------------------------
(* The payments rows and the provider agree about the money *)

LEMMA MoneyInit == Init => MoneyAccountedFor
BY DEF Init, MoneyAccountedFor

LEMMA MoneyStep == TypeOK /\ MoneyAccountedFor /\ [Next]_vars => MoneyAccountedFor'
<1> SUFFICES ASSUME TypeOK, MoneyAccountedFor, [Next]_vars PROVE MoneyAccountedFor'
  OBVIOUS
<1> USE DEF TypeOK, MoneyAccountedFor
<1>1. ASSUME NEW b \in Bookings, Cancel(b) PROVE MoneyAccountedFor'
  BY <1>1 DEF Cancel, PaymentsOf, provider
<1>2. ASSUME NEW p \in PaymentIds, NEW b \in Bookings, Start(p, b) PROVE MoneyAccountedFor'
  BY <1>2 DEF Start, provider
<1>3. ASSUME NEW p \in PaymentIds, NEW answer \in {"charged", "declined"}, Decide(p, answer)
      PROVE MoneyAccountedFor'
  BY <1>3 DEF Decide
<1>4. ASSUME NEW p \in PaymentIds, Declined(p) \/ Confirmed(p) \/ NotPayable(p)
      PROVE MoneyAccountedFor'
  BY <1>4 DEF Declined, Confirmed, NotPayable, Move, provider
<1>5. ASSUME NEW p \in PaymentIds, Refunded(p) \/ RefundFailed(p) PROVE MoneyAccountedFor'
  BY <1>5 DEF Refunded, RefundFailed, Move, provider
<1>6. ASSUME NEW p \in PaymentIds, Refund(p) PROVE MoneyAccountedFor'
  BY <1>6 DEF Refund
<1>7. ASSUME UNCHANGED <<payStatus, charge, refunded>> PROVE MoneyAccountedFor'
  BY <1>7
<1> QED
  BY <1>1, <1>2, <1>3, <1>4, <1>5, <1>6, <1>7 DEF Next, Lapse, Expire, vars, provider

\* What the rows say of the money is what the provider did, whatever was
\* retried, answered late or never answered.
THEOREM MoneyIsAccountedFor == Spec => []MoneyAccountedFor
<1> QED
  BY TypeCorrect, MoneyInit, MoneyStep, PTL DEF Spec

-------------------------------------------------------------------------------
(* At most one charge is under way for a booking *)

LEMMA ProcessingInit == Init => OneProcessingPerBooking
BY DEF Init, OneProcessingPerBooking

LEMMA ProcessingStep ==
  TypeOK /\ OneProcessingPerBooking /\ [Next]_vars => OneProcessingPerBooking'
<1> SUFFICES ASSUME TypeOK, OneProcessingPerBooking, [Next]_vars
             PROVE OneProcessingPerBooking'
  OBVIOUS
<1> USE DEF TypeOK, OneProcessingPerBooking
\* The arbiter index refuses a second one.
<1>1. ASSUME NEW p \in PaymentIds, NEW b \in Bookings, Start(p, b)
      PROVE OneProcessingPerBooking'
  BY <1>1 DEF Start, PaymentsOf
\* No other step makes a payment PROCESSING or gives it another booking.
<1>2. ASSUME payBooking' = payBooking,
             \A p \in PaymentIds : payStatus'[p] = "PROCESSING" => payStatus[p] = "PROCESSING"
      PROVE OneProcessingPerBooking'
  BY <1>2
<1>3. ASSUME NEW b \in Bookings, Lapse(b) \/ Expire(b) \/ Cancel(b)
      PROVE OneProcessingPerBooking'
  BY <1>2, <1>3 DEF Lapse, Expire, Cancel
<1>4. ASSUME NEW p \in PaymentIds,
             \/ Declined(p) \/ Confirmed(p) \/ NotPayable(p)
             \/ Refund(p) \/ Refunded(p) \/ RefundFailed(p)
      PROVE OneProcessingPerBooking'
  BY <1>2, <1>4 DEF Declined, Confirmed, NotPayable, Refund, Refunded, RefundFailed, Move
<1>5. ASSUME NEW p \in PaymentIds, NEW answer \in {"charged", "declined"}, Decide(p, answer)
      PROVE OneProcessingPerBooking'
  BY <1>2, <1>5 DEF Decide
<1>6. CASE UNCHANGED vars
  BY <1>2, <1>6 DEF vars
<1> QED
  BY <1>1, <1>3, <1>4, <1>5, <1>6 DEF Next

\* However many requests, tabs and keys pay for a booking at once, one charge
\* is under way (Decision 14).
THEOREM OneChargeUnderWay == Spec => []OneProcessingPerBooking
<1> QED
  BY TypeCorrect, ProcessingInit, ProcessingStep, PTL DEF Spec
===============================================================================
