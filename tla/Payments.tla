------------------------------- MODULE Payments -------------------------------
(***************************************************************************)
(* Paying for a booking: the requests in their three phases around the     *)
(* gateway, the Idempotency-Keys, and the reconciliation job that finishes *)
(* what a timeout or a crash left open (pay-for-booking.ts,                *)
(* settle-payment.ts, reconcile-payments.ts and their repositories).       *)
(*                                                                         *)
(* Transactions are atomic here, except phase 1, which reads the booking   *)
(* without locking it; what one reads from the clock may be out of date    *)
(* when it writes.  A worker stands for one payment of a job's batch: the  *)
(* calls of a batch run concurrently, and several API processes may run    *)
(* the job.  A delay (lease, backoff, gateway timeout) may end at any time.*)
(*                                                                         *)
(* A payment's id is the request that started it.  Attempts are counted    *)
(* for refunds only: those of a charge decide nothing but a delay.  The    *)
(* unique index on SUCCEEDED is left out; ConfirmedIffPaid shows it is     *)
(* never needed.  A booking out of the payer's scope completes its key as  *)
(* a booking that is not payable does, and is left out.                    *)
(***************************************************************************)
EXTENDS Integers, FiniteSets

CONSTANTS
  Bookings, Requests, Workers,
  Keys,               \* Idempotency-Keys of one account
  MaxRefundAttempts,  \* MAX_REFUND_ATTEMPTS
  MaxCrashes,         \* bound on crashes
  MaxTried,           \* bound on the count of refund calls
  None

Actors == Requests \cup Workers

ASSUME PaymentsAssumption ==
  /\ Requests \cap Workers = {}
  /\ Bookings # {} /\ IsFiniteSet(Workers)
  /\ MaxRefundAttempts \in Nat \ {0}
  /\ MaxCrashes \in Nat
  /\ MaxTried \in Nat
  /\ None \notin Requests

VARIABLES
  status, lapsed,         \* bookings, as in PaymentLedger
  payStatus, payBooking,  \* payments
  charge, refunded,       \* the provider
  closing,   \* bookings whose hold has BR-PAY-07's margin or less left
  due,       \* payments whose next_attempt_at has passed
  attempts,  \* payments.attempts in REFUND_PENDING, up to one past the limit
  tried,     \* refund calls sent for each payment, up to MaxTried
  keyRow,    \* the idempotency_keys rows
  keyClaim,  \* the uncommitted phase 1 that inserted a key's row
  pc,        \* what each actor does next
  req,       \* each request: its key, its booking, whether its amount agrees with
             \* the total, and whether its clock reading lets it start
  job,       \* the payment an actor works on, as it read it
  told,      \* what a request's client was answered
  crashes

Ledger == INSTANCE PaymentLedger WITH PaymentIds <- Requests

bookingVars == <<status, lapsed, closing>>
paymentVars == <<payStatus, payBooking, due, attempts>>
provider == <<charge, refunded, tried>>
keyVars == <<keyRow, keyClaim>>
actorVars == <<pc, req, job, told>>
vars == <<bookingVars, paymentVars, provider, keyVars, actorVars, crashes>>

\* The request's fingerprint: the booking and whether the amount is its total.
Fingerprint(r) == <<req[r].booking, req[r].agrees>>

Free == [state |-> "FREE"]
InProgress(fingerprint, p) == [state |-> "IN_PROGRESS", fingerprint |-> fingerprint, payment |-> p]
Completed(fingerprint, p, response) ==
  [state |-> "COMPLETED", fingerprint |-> fingerprint, payment |-> p, response |-> response]

NoJob == [payment |-> None, status |-> "NONE", attempts |-> 0]
BeyondLimit == MaxRefundAttempts + 1
Counted(n) == IF n < BeyondLimit THEN n + 1 ELSE n

Init ==
  /\ Ledger!Init
  /\ closing = {}
  /\ due = {}
  /\ attempts = [p \in Requests |-> 0]
  /\ tried = [p \in Requests |-> 0]
  /\ keyRow = [k \in Keys |-> Free]
  /\ keyClaim = [k \in Keys |-> None]
  /\ pc = [x \in Actors |-> "idle"]
  /\ req = [r \in Requests |-> None]
  /\ job = [x \in Actors |-> NoJob]
  /\ told = [r \in Requests |-> "nothing"]
  /\ crashes = 0

\* A request answers its client; a worker is free for the next payment.
Finish(x, answer) ==
  /\ pc' = [pc EXCEPT ![x] = IF x \in Requests THEN "done" ELSE "idle"]
  /\ job' = [job EXCEPT ![x] = NoJob]
  /\ told' = [r \in Requests |-> IF r = x THEN answer ELSE told[r]]
  /\ UNCHANGED req

Goto(x, label) ==
  /\ pc' = [pc EXCEPT ![x] = label]
  /\ UNCHANGED <<req, job, told>>

\* The transaction threw and rolled back.
Threw(x) ==
  /\ Finish(x, "error")
  /\ UNCHANGED <<bookingVars, paymentVars, provider, keyVars, crashes>>

-------------------------------------------------------------------------------
(* Phase 1: claim the key, check the booking, record the payment *)

\* A client sends or repeats a request, which reads the clock.
Send(r) ==
  /\ pc[r] = "idle"
  /\ \E k \in Keys, b \in Bookings, agrees \in BOOLEAN :
       req' = [req EXCEPT ![r] =
         [key |-> k, booking |-> b, agrees |-> agrees, mayStart |-> b \notin closing]]
  /\ pc' = [pc EXCEPT ![r] = "claim"]
  /\ UNCHANGED <<bookingVars, paymentVars, provider, keyVars, job, told, crashes>>

\* Mutant of CanStartPayment: a lapsed hold that is still HELD can be paid.
CanPayLapsed(r) == status[req[r].booking] = "HELD"

\* The booking is read, not locked.
CanStartPayment(r) == status[req[r].booking] = "HELD" /\ req[r].mayStart

\* ON CONFLICT DO NOTHING waits for an uncommitted insert of the same key.  An
\* amount that disagrees releases the key again.
Claim(r) ==
  LET k == req[r].key
  IN  /\ pc[r] = "claim"
      /\ keyClaim[k] = None /\ keyRow[k] = Free
      /\ \/ /\ CanStartPayment(r) /\ req[r].agrees
            /\ keyClaim' = [keyClaim EXCEPT ![k] = r]
            /\ Goto(r, "start")
            /\ UNCHANGED keyRow
         \/ /\ CanStartPayment(r) /\ ~req[r].agrees
            /\ Finish(r, "amount-mismatch")
            /\ UNCHANGED keyVars
         \/ /\ ~CanStartPayment(r)
            /\ keyRow' = [keyRow EXCEPT ![k] = Completed(Fingerprint(r), None, "not-payable")]
            /\ Finish(r, "not-payable")
            /\ UNCHANGED keyClaim
      /\ UNCHANGED <<bookingVars, paymentVars, provider, crashes>>

\* Mutant of Repeated: the key's answer is replayed for another request.
RepeatedUnchecked(r) ==
  LET row == keyRow[req[r].key]
  IN  /\ pc[r] = "claim"
      /\ keyClaim[req[r].key] = None /\ row # Free
      /\ Finish(r, IF row.state = "COMPLETED" THEN row.response ELSE "key-in-progress")
      /\ UNCHANGED <<bookingVars, paymentVars, provider, keyVars, crashes>>

\* The key's row exists: another request's key, a replay, or still going on.
Repeated(r) ==
  LET row == keyRow[req[r].key]
  IN  /\ pc[r] = "claim"
      /\ keyClaim[req[r].key] = None /\ row # Free
      /\ Finish(r, CASE row.fingerprint # Fingerprint(r) -> "key-reused"
                     [] row.fingerprint = Fingerprint(r) /\ row.state = "COMPLETED" -> row.response
                     [] OTHER -> "key-in-progress")
      /\ UNCHANGED <<bookingVars, paymentVars, provider, keyVars, crashes>>

\* One PROCESSING payment per booking, or the key is released.
Start(r) ==
  LET k == req[r].key
      b == req[r].booking
  IN  /\ pc[r] = "start"
      /\ keyClaim' = [keyClaim EXCEPT ![k] = None]
      /\ IF Ledger!PaymentsOf(b, "PROCESSING") # {}
         THEN Finish(r, "payment-in-progress") /\ UNCHANGED <<paymentVars, keyRow>>
         ELSE /\ payStatus' = [payStatus EXCEPT ![r] = "PROCESSING"]
              /\ payBooking' = [payBooking EXCEPT ![r] = b]
              /\ keyRow' = [keyRow EXCEPT ![k] = InProgress(Fingerprint(r), r)]
              /\ job' = [job EXCEPT ![r] =
                   [payment |-> r, status |-> "PROCESSING", attempts |-> 0]]
              /\ pc' = [pc EXCEPT ![r] = "charge"]
              /\ UNCHANGED <<due, attempts, req, told>>
      /\ UNCHANGED <<bookingVars, provider, crashes>>

-------------------------------------------------------------------------------
(* Phase 2, and the job's own charge: the gateway, no transaction open *)

\* The provider answers for this payment id what it answered before.
ProviderDecides(p) ==
  /\ IF charge[p] = "none"
     THEN \E answer \in {"charged", "declined"} : charge' = [charge EXCEPT ![p] = answer]
     ELSE UNCHANGED charge
  /\ UNCHANGED <<refunded, tried>>

ChargeAnswered(x) ==
  /\ pc[x] = "charge"
  /\ ProviderDecides(job[x].payment)
  /\ Goto(x, "settle")
  /\ UNCHANGED <<bookingVars, paymentVars, keyVars, crashes>>

\* Mutant of ChargeUnknown: a timeout is reported as a refusal.
ChargeUnknownDeclined(x) ==
  /\ pc[x] = "charge"
  /\ IF x \in Requests THEN Finish(x, "declined") ELSE Goto(x, "retry-later")
  /\ UNCHANGED <<bookingVars, paymentVars, provider, keyVars, crashes>>

\* No answer in time, whatever the provider did: a request leaves the payment
\* PROCESSING, the job tries again later.
ChargeUnknown(x) ==
  /\ pc[x] = "charge"
  /\ ProviderDecides(job[x].payment) \/ UNCHANGED provider
  /\ IF x \in Requests THEN Finish(x, "processing") ELSE Goto(x, "retry-later")
  /\ UNCHANGED <<bookingVars, paymentVars, keyVars, crashes>>

-------------------------------------------------------------------------------
(* Phase 3: settle, one transaction *)

KeyOf(p) == {k \in Keys : keyRow[k].state = "IN_PROGRESS" /\ keyRow[k].payment = p}

\* completeForPayment
CompleteKey(p, response) ==
  /\ keyRow' = [k \in Keys |->
       IF k \in KeyOf(p) THEN Completed(keyRow[k].fingerprint, p, response) ELSE keyRow[k]]
  /\ UNCHANGED keyClaim

\* Conditional on PROCESSING and on a key in progress, or it throws.
CanSettle(p) == payStatus[p] = "PROCESSING" /\ KeyOf(p) # {}

SettleDeclined(x) ==
  LET p == job[x].payment
  IN  /\ pc[x] = "settle" /\ CanSettle(p)
      /\ Ledger!Declined(p)
      /\ CompleteKey(p, "declined")
      /\ Finish(x, "declined")
      /\ due' = due \ {p}
      /\ UNCHANGED <<closing, attempts, tried, crashes>>

\* confirmHold compares the deadline with an instant read earlier.
SettleConfirmed(x) ==
  LET p == job[x].payment
  IN  /\ pc[x] = "settle" /\ CanSettle(p)
      /\ Ledger!Confirmed(p)
      /\ CompleteKey(p, "confirmed")
      /\ Finish(x, "confirmed")
      /\ due' = due \ {p}
      /\ UNCHANGED <<closing, attempts, tried, crashes>>

\* The hold is over: REFUND_PENDING, due at once.
SettleNotPayable(x) ==
  LET p == job[x].payment
  IN  /\ pc[x] = "settle" /\ CanSettle(p)
      /\ Ledger!NotPayable(p)
      /\ CompleteKey(p, "refunded")
      /\ Finish(x, "refunded")
      /\ due' = due \cup {p}
      /\ attempts' = [attempts EXCEPT ![p] = 0]
      /\ UNCHANGED <<closing, tried, crashes>>

\* Somebody settled it first.
SettleLost(x) ==
  /\ pc[x] = "settle" /\ ~CanSettle(job[x].payment)
  /\ Threw(x)

-------------------------------------------------------------------------------
(* The reconciliation job *)

\* next_attempt_at passes: the age gate, a backoff or a lease ends.
ComesDue(p) ==
  /\ payStatus[p] \in {"PROCESSING", "REFUND_PENDING"} /\ p \notin due
  /\ due' = due \cup {p}
  /\ UNCHANGED <<bookingVars, payStatus, payBooking, attempts, provider, keyVars, actorVars,
                 crashes>>

\* claimDue: lease it, count the attempt, commit; then call the gateway.
ClaimDue(w, p) ==
  /\ pc[w] = "idle" /\ p \in due
  /\ payStatus[p] \in {"PROCESSING", "REFUND_PENDING"}
  /\ due' = due \ {p}
  /\ LET refunding == payStatus[p] = "REFUND_PENDING"
         n == IF refunding THEN Counted(attempts[p]) ELSE attempts[p]
     IN  /\ attempts' = [attempts EXCEPT ![p] = n]
         /\ job' = [job EXCEPT ![w] =
              [payment |-> p, status |-> payStatus[p], attempts |-> n]]
         /\ pc' = [pc EXCEPT ![w] = IF refunding THEN "refund" ELSE "charge"]
  /\ UNCHANGED <<bookingVars, payStatus, payBooking, provider, keyVars, req, told, crashes>>

\* reschedule, conditional on the status the worker read.
RetryLater(w) ==
  LET p == job[w].payment
  IN  /\ pc[w] = "retry-later"
      /\ IF payStatus[p] = job[w].status
         THEN /\ due' = due \ {p}
              /\ Finish(w, "rescheduled")
              /\ UNCHANGED <<bookingVars, payStatus, payBooking, attempts, provider, keyVars,
                             crashes>>
         ELSE Threw(w)

RefundCall(w, label) ==
  /\ pc[w] = "refund"
  /\ tried' = [tried EXCEPT ![job[w].payment] = IF @ < MaxTried THEN @ + 1 ELSE @]
  /\ Goto(w, label)
  /\ UNCHANGED <<bookingVars, paymentVars, charge, keyVars, crashes>>

RefundAnswered(w) ==
  /\ RefundCall(w, "record-refund")
  /\ refunded' = refunded \cup {job[w].payment}

\* Mutants of AfterFailure: the attempts are not counted; one too many.
AfterFailureForever(w) == "retry-later"

AfterFailureOnceMore(w) ==
  IF job[w].attempts > MaxRefundAttempts THEN "record-failure" ELSE "retry-later"

AfterFailure(w) ==
  IF job[w].attempts >= MaxRefundAttempts THEN "record-failure" ELSE "retry-later"

\* The provider refuses, for now or for good; it answers a refunded charge
\* `refunded` again.
RefundRefused(w) ==
  /\ job[w].payment \notin refunded
  /\ \E label \in {AfterFailure(w), "record-failure"} : RefundCall(w, label)
  /\ UNCHANGED refunded

RefundUnknown(w) ==
  /\ RefundCall(w, AfterFailure(w))
  /\ refunded' \in {refunded, refunded \cup {job[w].payment}}

\* Mutant of RecordRefund: a late worker overwrites what another recorded.
RecordRefundAnyway(w) ==
  LET p == job[w].payment
  IN  /\ pc[w] \in {"record-refund", "record-failure"}
      /\ payStatus' = [payStatus EXCEPT ![p] =
           IF pc[w] = "record-refund" THEN "REFUNDED" ELSE "REFUND_FAILED"]
      /\ due' = due \ {p}
      /\ attempts' = [attempts EXCEPT ![p] = 0]
      /\ Finish(w, "recorded")
      /\ UNCHANGED <<bookingVars, payBooking, provider, keyVars, crashes>>

\* recordRefund, conditional on REFUND_PENDING.
RecordRefund(w) ==
  LET p == job[w].payment
  IN  /\ pc[w] \in {"record-refund", "record-failure"}
      /\ IF payStatus[p] = "REFUND_PENDING"
         THEN /\ \/ pc[w] = "record-refund" /\ Ledger!Refunded(p)
                 \/ pc[w] = "record-failure" /\ Ledger!RefundFailed(p)
              /\ due' = due \ {p}
              /\ attempts' = [attempts EXCEPT ![p] = 0]
              /\ Finish(w, "recorded")
              /\ UNCHANGED <<closing, tried, keyVars, crashes>>
         ELSE Threw(w)

\* Mutant of Crash: the uncommitted key stays claimed.
CrashKeepingKey(x) ==
  /\ crashes < MaxCrashes
  /\ pc[x] \notin {"idle", "done"}
  /\ crashes' = crashes + 1
  /\ Finish(x, "error")
  /\ UNCHANGED <<bookingVars, paymentVars, provider, keyVars>>

\* A process stops.  An uncommitted phase 1 is rolled back, a committed
\* payment stays as it is until its lease or age gate ends.
Crash(x) ==
  /\ crashes < MaxCrashes
  /\ pc[x] \notin {"idle", "done"}
  /\ crashes' = crashes + 1
  /\ keyClaim' = [k \in Keys |-> IF keyClaim[k] = x THEN None ELSE keyClaim[k]]
  /\ Finish(x, "error")
  /\ UNCHANGED <<bookingVars, paymentVars, provider, keyRow>>

-------------------------------------------------------------------------------
(* Bookings, and the key cleanup job *)

\* BR-PAY-07's margin is reached, then the deadline.
TimePasses(b) ==
  /\ \/ closing' = closing \cup {b} /\ b \notin closing /\ UNCHANGED lapsed
     \/ lapsed' = lapsed \cup {b} /\ b \in closing /\ UNCHANGED closing
  /\ UNCHANGED <<status, paymentVars, provider, keyVars, actorVars, crashes>>

Expire(b) ==
  /\ Ledger!Expire(b)
  /\ UNCHANGED <<closing, due, attempts, tried, keyVars, actorVars, crashes>>

\* Mutant of Cancel: the money of a paid booking is kept.
CancelKeepingMoney(b) ==
  /\ Ledger!CancelKeepingMoney(b)
  /\ UNCHANGED <<closing, due, attempts, tried, keyVars, actorVars, crashes>>

\* The refund is the job's, due at once.
Cancel(b) ==
  /\ Ledger!Cancel(b)
  /\ due' = due \cup Ledger!PaymentsOf(b, "SUCCEEDED")
  /\ attempts' = [p \in Requests |->
       IF p \in Ledger!PaymentsOf(b, "SUCCEEDED") THEN 0 ELSE attempts[p]]
  /\ UNCHANGED <<closing, tried, keyVars, actorVars, crashes>>

\* No request in phase 1 read the clock before the hold of b was closing.
NoEarlyClock(b) ==
  \A r \in Requests :
    pc[r] \in {"claim", "start"} /\ req[r].booking = b => ~req[r].mayStart

\* Mutant of DeleteKey: keys in progress are deleted too.
DeleteKeyInProgress(k) ==
  /\ keyRow[k] # Free /\ keyRow[k].fingerprint[1] \in lapsed
  /\ NoEarlyClock(keyRow[k].fingerprint[1])
  /\ keyRow' = [keyRow EXCEPT ![k] = Free]
  /\ UNCHANGED <<bookingVars, paymentVars, provider, keyClaim, actorVars, crashes>>

\* 24 hours after the request: the 15 minute hold ended long ago, and so did
\* every request that could still start a payment by its clock.
DeleteKey(k) ==
  /\ keyRow[k].state = "COMPLETED" /\ keyRow[k].fingerprint[1] \in lapsed
  /\ NoEarlyClock(keyRow[k].fingerprint[1])
  /\ keyRow' = [keyRow EXCEPT ![k] = Free]
  /\ UNCHANGED <<bookingVars, paymentVars, provider, keyClaim, actorVars, crashes>>

-------------------------------------------------------------------------------

Settle(x) == SettleDeclined(x) \/ SettleConfirmed(x) \/ SettleNotPayable(x) \/ SettleLost(x)

\* A request's steps that depend on nothing but this system.
RequestStep(r) == Claim(r) \/ Repeated(r) \/ Start(r) \/ ChargeUnknown(r) \/ Settle(r)

\* The same for a worker that holds a payment.
WorkerStep(w) ==
  \/ ChargeUnknown(w) \/ Settle(w) \/ RetryLater(w)
  \/ RefundAnswered(w) \/ RefundRefused(w) \/ RefundUnknown(w) \/ RecordRefund(w)

Next ==
  \/ \E r \in Requests : Send(r) \/ RequestStep(r)
  \/ \E x \in Actors : ChargeAnswered(x) \/ Crash(x)
  \/ \E w \in Workers : WorkerStep(w) \/ \E p \in Requests : ClaimDue(w, p)
  \/ \E p \in Requests : ComesDue(p)
  \/ \E b \in Bookings : TimePasses(b) \/ Expire(b) \/ Cancel(b)
  \/ \E k \in Keys : DeleteKey(k)

Spec == Init /\ [][Next]_vars

\* Processes that have not crashed keep going, delays end, the scheduler runs
\* the job, which reaches every due payment (oldest first), and the gateway
\* does not leave the job's charges of a payment unanswered for ever.
Fairness ==
  /\ \A r \in Requests : WF_vars(RequestStep(r))
  /\ \A w \in Workers : WF_vars(WorkerStep(w))
  /\ \A p \in Requests :
       /\ WF_vars(ComesDue(p))
       /\ SF_vars(\E w \in Workers : ClaimDue(w, p))
       /\ SF_vars(\E w \in Workers : job[w].payment = p /\ ChargeAnswered(w))

FairSpec == Spec /\ Fairness
-------------------------------------------------------------------------------
(* Properties *)

RefundStatuses == {"REFUND_PENDING", "REFUNDED", "REFUND_FAILED"}

\* However requests, retries, crashes, expired leases and late workers
\* interleave, bookings, payments and the provider's money only move together
\* as the ledger allows.
ImplementsLedger == Ledger!Spec

\* A key in progress always belongs to a PROCESSING payment, which will answer
\* it, and a completed one stores what became of its payment (Decision 15:
\* cleanup may delete completed keys only, because of this).
KeyTracksPayment ==
  /\ \A p \in Requests : payStatus[p] = "PROCESSING" <=> KeyOf(p) # {}
  /\ \A k \in Keys : keyRow[k].state = "COMPLETED" /\ keyRow[k].payment # None =>
       LET s == payStatus[keyRow[k].payment]
       IN  CASE keyRow[k].response = "confirmed" -> s \in {"SUCCEEDED"} \cup RefundStatuses
             [] keyRow[k].response = "declined" -> s = "FAILED"
             [] OTHER -> s \in RefundStatuses

\* One key takes the money for a booking at most once (BR-PAY-01), even when
\* the key was deleted in between (BR-PAY-10).
OneChargePerKey ==
  \A p, q \in Requests :
    /\ charge[p] = "charged" /\ charge[q] = "charged"
    /\ req[p].key = req[q].key /\ req[p].booking = req[q].booking
    => p = q

\* What a client was told stays true of this request or of the one it
\* repeats: refused means this request took no money, declined that its key
\* took none, and confirmed that the booking was paid, the money coming back
\* only if it was cancelled.
AnswersAreTrue ==
  \A r \in Requests :
    LET ofKey == {p \in Requests : /\ payStatus[p] # "NONE"
                                   /\ req[p].key = req[r].key
                                   /\ Fingerprint(p) = Fingerprint(r)}
    IN  CASE told[r] \in {"not-payable", "amount-mismatch", "payment-in-progress",
                         "key-reused", "key-in-progress"} ->
               payStatus[r] = "NONE" /\ charge[r] = "none"
          [] told[r] = "declined" -> \E p \in ofKey : payStatus[p] = "FAILED"
          [] told[r] = "confirmed" ->
               \E p \in ofKey : /\ charge[p] = "charged"
                                /\ payStatus[p] \in {"SUCCEEDED"} \cup RefundStatuses
                                /\ payStatus[p] # "SUCCEEDED" =>
                                     status[payBooking[p]] = "CANCELLED"
          [] told[r] = "refunded" -> \E p \in ofKey : payStatus[p] \in RefundStatuses
          [] OTHER -> TRUE

\* Two tabs with two keys are stopped by the database: a booking that one
\* payment has paid takes no charge from another.
PaidBookingNotChargedAgain ==
  \A p, q \in Requests :
    /\ p # q /\ payBooking[p] = payBooking[q]
    /\ payStatus[p] = "SUCCEEDED" /\ payStatus[q] # "NONE"
    => charge[q] # "charged"

\* A refund is tried at most MAX_REFUND_ATTEMPTS times (BR-PAY-09), but for
\* what a crash before the record, or another worker after a lease, adds:
\* one more call each.
RefundTriesBounded ==
  \A p \in Requests : tried[p] <= MaxRefundAttempts + crashes + Cardinality(Workers) - 1

\* No payment stays open: the charge gets the provider's answer, and money
\* that is owed comes back or is left to a person.
PaymentsFinish ==
  \A p \in Requests :
    payStatus[p] \in {"PROCESSING", "REFUND_PENDING"}
      ~> payStatus[p] \in {"SUCCEEDED", "FAILED", "REFUNDED", "REFUND_FAILED"}

\* Every request is answered, although it may wait for another with its key.
RequestsAnswered == \A r \in Requests : pc[r] = "claim" ~> pc[r] = "done"
===============================================================================
