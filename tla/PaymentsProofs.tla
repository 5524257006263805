---------------------------- MODULE PaymentsProofs ----------------------------
(***************************************************************************)
(* Proofs about Payments, for any bookings, requests, workers, keys and    *)
(* crashes: that its actors implement PaymentLedger, and what the          *)
(* Idempotency-Keys promise.                                               *)
(***************************************************************************)
EXTENDS Payments, FiniteSetTheorems, TLAPS

-------------------------------------------------------------------------------
(* The inductive invariant *)

RequestPlaces == {"idle", "claim", "start", "charge", "settle", "done"}
Refunding == {"refund", "record-refund", "record-failure"}
Busy == {"charge", "settle", "retry-later"} \cup Refunding
WorkerPlaces == {"idle"} \cup Busy

SentRequests == [key : Keys, booking : Bookings, agrees : BOOLEAN, mayStart : BOOLEAN]

TypeInv ==
  /\ Ledger!TypeOK
  /\ closing \subseteq Bookings /\ lapsed \subseteq closing
  /\ due \subseteq Requests
  /\ attempts \in [Requests -> Nat]
  /\ tried \in [Requests -> Nat]
  /\ crashes \in Nat
  /\ keyClaim \in [Keys -> Requests \cup {None}]
  /\ pc \in [Actors -> RequestPlaces \cup WorkerPlaces]
  /\ DOMAIN keyRow = Keys /\ DOMAIN job = Actors /\ DOMAIN req = Requests
  /\ \A r \in Requests : pc[r] # "idle" => req[r] \in SentRequests

\* Where an actor can be, and what it knows of the payment it works on.
ActorInv ==
  /\ \A r \in Requests : pc[r] \in RequestPlaces
  /\ \A w \in Workers : pc[w] \in WorkerPlaces
  /\ \A r \in Requests : pc[r] \in {"idle", "claim", "start"} => payStatus[r] = "NONE"
  /\ \A r \in Requests : pc[r] \in {"charge", "settle"} => job[r].payment = r
  /\ \A x \in Actors : pc[x] \in Busy =>
       job[x].payment \in Requests /\ payStatus[job[x].payment] # "NONE"
  /\ \A x \in Actors : pc[x] \in Refunding => payStatus[job[x].payment] \in RefundStatuses

\* The provider is never asked before the payment is recorded.
MoneyInv ==
  /\ Ledger!MoneyAccountedFor
  /\ \A p \in Requests : payStatus[p] = "NONE" => charge[p] = "none"

\* A row that is not free, and why.
Owns(p, k) ==
  /\ req[p].key = k /\ keyRow[k].payment = p
  /\ keyRow[k].fingerprint = Fingerprint(p)

Kept(p) ==
  /\ charge[p] = "charged"
  /\ payStatus[p] \in {"SUCCEEDED"} \cup RefundStatuses
  /\ payStatus[p] # "SUCCEEDED" => status[payBooking[p]] = "CANCELLED"

\* What `response' says of payment p.
Outcome(p, response) ==
  /\ response \in {"declined", "confirmed", "refunded"}
  /\ response = "declined" => payStatus[p] = "FAILED"
  /\ response = "confirmed" => Kept(p)
  /\ response = "refunded" => payStatus[p] \in RefundStatuses

\* A key is free, claimed, or belongs to the payment of the one request that started
\* one with it, for as long as that payment is not settled.
RowInv(k) ==
  /\ keyRow[k].state \in {"FREE", "IN_PROGRESS", "COMPLETED"}
  /\ keyRow[k].state = "FREE" => keyRow[k] = Free
  /\ keyClaim[k] # None =>
       pc[keyClaim[k]] = "start" /\ req[keyClaim[k]].key = k /\ keyRow[k] = Free
  /\ keyRow[k].state = "IN_PROGRESS" =>
       /\ keyRow[k].payment \in Requests /\ payStatus[keyRow[k].payment] = "PROCESSING"
       /\ Owns(keyRow[k].payment, k)
  /\ keyRow[k].state = "COMPLETED" =>
       \/ keyRow[k].payment = None /\ keyRow[k].response = "not-payable"
       \/ /\ keyRow[k].payment \in Requests /\ payStatus[keyRow[k].payment] # "NONE"
          /\ Owns(keyRow[k].payment, k)
          /\ Outcome(keyRow[k].payment, keyRow[k].response)

ClaimInv(r) ==
  /\ pc[r] = "start" => keyClaim[req[r].key] = r /\ req[r].mayStart /\ req[r].agrees
  /\ payStatus[r] = "PROCESSING" =>
       keyRow[req[r].key].state = "IN_PROGRESS" /\ Owns(r, req[r].key)

KeyInv == (\A k \in Keys : RowInv(k)) /\ (\A r \in Requests : ClaimInv(r))

\* A payment keeps its key for as long as another request could still start one for its
\* booking.
StartInv ==
  /\ \A p \in Requests : payStatus[p] # "NONE" =>
       /\ payBooking[p] = req[p].booking
       /\ \/ keyRow[req[p].key] # Free /\ keyRow[req[p].key].payment = p
          \/ req[p].booking \in lapsed /\ NoEarlyClock(req[p].booking)
  /\ \A p, q \in Requests :
       /\ payStatus[p] # "NONE" /\ payStatus[q] # "NONE"
       /\ req[p].key = req[q].key /\ req[p].booking = req[q].booking
       => p = q

Refusals == {"not-payable", "amount-mismatch", "payment-in-progress", "key-reused", "key-in-progress"}

\* r repeats p, or is p.
Repeats(r, p) ==
  payStatus[p] # "NONE" /\ req[p].key = req[r].key /\ Fingerprint(p) = Fingerprint(r)

ToldInv ==
  /\ DOMAIN told = Requests
  /\ \A r \in Requests : pc[r] \in {"idle", "claim", "start", "charge", "settle"} =>
       told[r] = "nothing"
  /\ \A r \in Requests : told[r] \in Refusals => payStatus[r] = "NONE"
  /\ \A r \in Requests : told[r] \in {"declined", "confirmed", "refunded"} =>
       \E p \in Requests : Repeats(r, p) /\ Outcome(p, told[r])

PaymentsInv == TypeInv /\ ActorInv /\ MoneyInv /\ KeyInv /\ StartInv /\ ToldInv


LEMMA InitInv == Init => PaymentsInv
<1> SUFFICES ASSUME Init PROVE PaymentsInv
  OBVIOUS
<1>1. (CHOOSE b \in Bookings : TRUE) \in Bookings
  BY PaymentsAssumption
<1>2. TypeInv
  BY <1>1 DEF Init, TypeInv, Ledger!Init, Ledger!TypeOK, Ledger!PayStatuses, RequestPlaces, WorkerPlaces, Actors
<1>3. ActorInv
  BY DEF Init, ActorInv, Ledger!Init, RequestPlaces, WorkerPlaces, Busy, Refunding, Actors
<1>4. MoneyInv
  BY DEF Init, MoneyInv, Ledger!Init, Ledger!MoneyAccountedFor
<1>5. KeyInv
  BY DEF Init, KeyInv, RowInv, ClaimInv, Ledger!Init, Free, Actors
<1>6. StartInv /\ ToldInv
  BY DEF Init, StartInv, ToldInv, Ledger!Init, Refusals
<1> QED
  BY <1>2, <1>3, <1>4, <1>5, <1>6 DEF PaymentsInv

-------------------------------------------------------------------------------
(* The actors implement the ledger *)

\* Every step of an actor is a transaction of the ledger, a decision of its provider, or
\* invisible to it.
LEMMA StepsImplement ==
  ASSUME TypeInv, ActorInv, MoneyInv, [Next]_vars
  PROVE  [Ledger!Next]_(Ledger!vars)
<1> DEFINE Same == UNCHANGED Ledger!vars
<1> USE DEF Ledger!vars, Ledger!provider, bookingVars, paymentVars, provider
<1>1. ASSUME NEW r \in Requests, Send(r) \/ Claim(r) \/ Repeated(r) PROVE Same
  BY <1>1 DEF Send, Claim, Repeated
<1>2. ASSUME NEW r \in Requests, Start(r) PROVE Same \/ \E b \in Bookings : Ledger!Start(r, b)
  <2>1. payStatus[r] = "NONE" /\ req[r].booking \in Bookings
    BY <1>2 DEF Start, ActorInv, TypeInv, SentRequests
  <2> QED
    BY <1>2, <2>1 DEF Start, Ledger!Start
<1>3. ASSUME NEW x \in Actors, pc[x] = "charge", ProviderDecides(job[x].payment),
             UNCHANGED <<bookingVars, paymentVars>>
      PROVE  Same \/ \E p \in Requests, answer \in {"charged", "declined"} : Ledger!Decide(p, answer)
  <2> DEFINE p == job[x].payment
  <2>1. p \in Requests /\ payStatus[p] # "NONE"
    BY <1>3 DEF ActorInv, Busy
  <2>2. charge[p] = "none" => payStatus[p] = "PROCESSING"
    BY <2>1 DEF MoneyInv, Ledger!MoneyAccountedFor, TypeInv, Ledger!TypeOK, Ledger!PayStatuses
  <2> QED
    BY <1>3, <2>1, <2>2 DEF ProviderDecides, Ledger!Decide
<1>4. ASSUME NEW x \in Actors, ChargeAnswered(x) \/ ChargeUnknown(x)
      PROVE  Same \/ \E p \in Requests, answer \in {"charged", "declined"} : Ledger!Decide(p, answer)
  BY <1>3, <1>4 DEF ChargeAnswered, ChargeUnknown
<1>5. ASSUME NEW x \in Actors, Settle(x)
      PROVE  Same \/ \E p \in Requests : Ledger!Declined(p) \/ Ledger!Confirmed(p) \/ Ledger!NotPayable(p)
  <2>1. pc[x] = "settle" => job[x].payment \in Requests
    BY DEF ActorInv, Busy
  <2> QED
    BY <1>5, <2>1 DEF Settle, SettleDeclined, SettleConfirmed, SettleNotPayable, SettleLost, Threw
<1>6. ASSUME NEW w \in Workers, RetryLater(w) \/ RefundRefused(w) PROVE Same
  BY <1>6 DEF RetryLater, RefundRefused, RefundCall, Threw
<1>7. ASSUME NEW w \in Workers, RefundAnswered(w) \/ RefundUnknown(w)
      PROVE  Same \/ \E p \in Requests : Ledger!Refund(p)
  <2> DEFINE p == job[w].payment
  <2>1. pc[w] = "refund" /\ UNCHANGED <<bookingVars, paymentVars, charge>>
        /\ (refunded' = refunded \/ refunded' = refunded \cup {p})
    BY <1>7 DEF RefundAnswered, RefundUnknown, RefundCall
  <2>2. p \in Requests /\ payStatus[p] \in RefundStatuses
    BY <2>1 DEF ActorInv, Busy, Refunding, Actors
  <2>3. payStatus[p] = "REFUNDED" => p \in refunded
    BY <2>2 DEF MoneyInv, Ledger!MoneyAccountedFor
  <2> QED
    BY <2>1, <2>2, <2>3 DEF Ledger!Refund, RefundStatuses
<1>8. ASSUME NEW w \in Workers, RecordRefund(w)
      PROVE  Same \/ \E p \in Requests : Ledger!Refunded(p) \/ Ledger!RefundFailed(p)
  <2>1. pc[w] \in {"record-refund", "record-failure"} => job[w].payment \in Requests
    BY DEF ActorInv, Busy, Refunding, Actors
  <2> QED
    BY <1>8, <2>1 DEF RecordRefund, Threw
<1>9. ASSUME NEW x \in Actors, Crash(x) PROVE Same
  BY <1>9 DEF Crash
<1>10. ASSUME NEW p \in Requests, ComesDue(p) \/ \E w \in Workers : ClaimDue(w, p) PROVE Same
  BY <1>10 DEF ComesDue, ClaimDue
<1>11. ASSUME NEW b \in Bookings, TimePasses(b) \/ Expire(b) \/ Cancel(b)
       PROVE  Same \/ Ledger!Lapse(b) \/ Ledger!Expire(b) \/ Ledger!Cancel(b)
  BY <1>11 DEF TimePasses, Expire, Cancel, Ledger!Lapse
<1>12. ASSUME NEW k \in Keys, DeleteKey(k) PROVE Same
  BY <1>12 DEF DeleteKey
<1>13. CASE UNCHANGED vars
  BY <1>13 DEF vars
<1> QED
  BY <1>1, <1>2, <1>4, <1>5, <1>6, <1>7, <1>8, <1>9, <1>10, <1>11, <1>12, <1>13
  DEF Next, RequestStep, WorkerStep, Ledger!Next, Actors

\* The ledger's rows keep their types.
LEMMA LedgerTypes ==
  ASSUME Ledger!TypeOK, [Ledger!Next]_(Ledger!vars) PROVE Ledger!TypeOK'
<1> USE DEF Ledger!TypeOK, Ledger!PayStatuses, Ledger!provider, Ledger!Move
<1>1. ASSUME NEW b \in Bookings, Ledger!Lapse(b) \/ Ledger!Expire(b) \/ Ledger!Cancel(b)
      PROVE  Ledger!TypeOK'
  BY <1>1 DEF Ledger!Lapse, Ledger!Expire, Ledger!Cancel
<1>2. ASSUME NEW p \in Requests, NEW b \in Bookings, Ledger!Start(p, b) PROVE Ledger!TypeOK'
  BY <1>2 DEF Ledger!Start
<1>3. ASSUME NEW p \in Requests, NEW answer \in {"charged", "declined"}, Ledger!Decide(p, answer)
      PROVE  Ledger!TypeOK'
  BY <1>3 DEF Ledger!Decide
<1>4. ASSUME NEW p \in Requests,
             \/ Ledger!Declined(p) \/ Ledger!Confirmed(p) \/ Ledger!NotPayable(p)
             \/ Ledger!Refund(p) \/ Ledger!Refunded(p) \/ Ledger!RefundFailed(p)
      PROVE  Ledger!TypeOK'
  BY <1>4 DEF Ledger!Declined, Ledger!Confirmed, Ledger!NotPayable, Ledger!Refund,
              Ledger!Refunded, Ledger!RefundFailed
<1> QED
  BY <1>1, <1>2, <1>3, <1>4 DEF Ledger!Next, Ledger!vars

LEMMA MoneyStep ==
  ASSUME Ledger!TypeOK, MoneyInv, [Ledger!Next]_(Ledger!vars) PROVE MoneyInv'
<1> USE DEF Ledger!TypeOK, MoneyInv, Ledger!MoneyAccountedFor, Ledger!provider, Ledger!Move
<1>1. ASSUME NEW b \in Bookings, Ledger!Lapse(b) \/ Ledger!Expire(b) \/ Ledger!Cancel(b)
      PROVE  MoneyInv'
  BY <1>1 DEF Ledger!Lapse, Ledger!Expire, Ledger!Cancel, Ledger!PaymentsOf
<1>2. ASSUME NEW p \in Requests, NEW b \in Bookings, Ledger!Start(p, b) PROVE MoneyInv'
  BY <1>2 DEF Ledger!Start
<1>3. ASSUME NEW p \in Requests, NEW answer \in {"charged", "declined"}, Ledger!Decide(p, answer)
      PROVE  MoneyInv'
  BY <1>3 DEF Ledger!Decide
<1>4. ASSUME NEW p \in Requests, Ledger!Declined(p) \/ Ledger!Confirmed(p) \/ Ledger!NotPayable(p)
      PROVE  MoneyInv'
  BY <1>4 DEF Ledger!Declined, Ledger!Confirmed, Ledger!NotPayable
<1>5. ASSUME NEW p \in Requests, Ledger!Refund(p) PROVE MoneyInv'
  BY <1>5 DEF Ledger!Refund
<1>6. ASSUME NEW p \in Requests, Ledger!Refunded(p) \/ Ledger!RefundFailed(p) PROVE MoneyInv'
  BY <1>6 DEF Ledger!Refunded, Ledger!RefundFailed
<1>7. CASE UNCHANGED Ledger!vars
  BY <1>7 DEF Ledger!vars
<1> QED
  BY <1>1, <1>2, <1>3, <1>4, <1>5, <1>6, <1>7 DEF Ledger!Next

\* A payment only moves forward, and what an answer says of it stays true.
Onward(p) ==
  /\ payStatus[p] # "NONE" => payStatus'[p] # "NONE" /\ payBooking'[p] = payBooking[p]
  /\ payStatus[p] \in RefundStatuses => payStatus'[p] \in RefundStatuses
  /\ payStatus[p] = "FAILED" => payStatus'[p] = "FAILED"
  /\ Kept(p) => Kept(p)'

LEMMA PaymentsGoForward ==
  ASSUME Ledger!TypeOK, [Ledger!Next]_(Ledger!vars), NEW p \in Requests
  PROVE  Onward(p)
<1> USE DEF Ledger!TypeOK, Ledger!provider, Ledger!Move, RefundStatuses
<1>1. ASSUME NEW b \in Bookings, Ledger!Lapse(b) \/ Ledger!Expire(b) PROVE Onward(p)
  BY <1>1 DEF Ledger!Lapse, Ledger!Expire, Kept, Onward
<1>2. ASSUME NEW b \in Bookings, Ledger!Cancel(b) PROVE Onward(p)
  BY <1>2 DEF Ledger!Cancel, Ledger!PaymentsOf, Kept, Onward
<1>3. ASSUME NEW q \in Requests, NEW b \in Bookings, Ledger!Start(q, b) PROVE Onward(p)
  BY <1>3 DEF Ledger!Start, Kept, Onward
<1>4. ASSUME NEW q \in Requests, NEW answer \in {"charged", "declined"}, Ledger!Decide(q, answer)
      PROVE  Onward(p)
  BY <1>4 DEF Ledger!Decide, Kept, Onward
<1>5. ASSUME NEW q \in Requests, Ledger!Declined(q) \/ Ledger!Confirmed(q) \/ Ledger!NotPayable(q)
      PROVE  Onward(p)
  BY <1>5 DEF Ledger!Declined, Ledger!Confirmed, Ledger!NotPayable, Kept, Onward
<1>6. ASSUME NEW q \in Requests, Ledger!Refund(q) \/ Ledger!Refunded(q) \/ Ledger!RefundFailed(q)
      PROVE  Onward(p)
  BY <1>6 DEF Ledger!Refund, Ledger!Refunded, Ledger!RefundFailed, Kept, Onward
<1>7. ASSUME UNCHANGED Ledger!vars PROVE Onward(p)
  BY <1>7 DEF Ledger!vars, Kept, Onward
<1> QED
  BY <1>1, <1>2, <1>3, <1>4, <1>5, <1>6, <1>7 DEF Ledger!Next

-------------------------------------------------------------------------------
(* Types and places *)

LEMMA TypeStep ==
  ASSUME TypeInv, ActorInv, Ledger!TypeOK', [Next]_vars PROVE TypeInv'
<1> DEFINE Rest ==
      /\ closing \subseteq Bookings /\ lapsed \subseteq closing
      /\ due \subseteq Requests
      /\ attempts \in [Requests -> Nat]
      /\ tried \in [Requests -> Nat]
      /\ crashes \in Nat
      /\ keyClaim \in [Keys -> Requests \cup {None}]
      /\ pc \in [Actors -> RequestPlaces \cup WorkerPlaces]
      /\ DOMAIN keyRow = Keys /\ DOMAIN job = Actors /\ DOMAIN req = Requests
      /\ \A r \in Requests : pc[r] # "idle" => req[r] \in SentRequests
<1> SUFFICES Rest'
  BY DEF TypeInv
<1> USE DEF bookingVars, paymentVars, provider, keyVars, actorVars, RequestPlaces, WorkerPlaces,
            Busy, Refunding, Finish, Goto, Threw
<1>1. Rest /\ Actors = Requests \cup Workers /\ Requests \cap Workers = {}
  BY PaymentsAssumption DEF TypeInv, Actors
<1>2. ASSUME NEW r \in Requests, Send(r) PROVE Rest'
  BY <1>1, <1>2 DEF Send, SentRequests
<1>3. ASSUME NEW r \in Requests, Claim(r) PROVE Rest'
  BY <1>1, <1>3 DEF Claim
<1>4. ASSUME NEW r \in Requests, Repeated(r) PROVE Rest'
  BY <1>1, <1>4 DEF Repeated
<1>5. ASSUME NEW r \in Requests, Start(r) PROVE Rest'
  BY <1>1, <1>5 DEF Start
<1>6. ASSUME NEW x \in Actors, ChargeAnswered(x) \/ ChargeUnknown(x) PROVE Rest'
  BY <1>1, <1>6 DEF ChargeAnswered, ChargeUnknown, ProviderDecides
<1>7. ASSUME NEW x \in Actors, Settle(x) PROVE Rest'
  <2>1. CASE SettleLost(x)
    BY <1>1, <2>1 DEF SettleLost
  <2>2. CASE SettleDeclined(x) \/ SettleConfirmed(x) \/ SettleNotPayable(x)
    <3>1. pc[x] = "settle" /\ job[x].payment \in Requests
      BY <2>2 DEF ActorInv, SettleDeclined, SettleConfirmed, SettleNotPayable
    <3>2. /\ UNCHANGED <<lapsed, closing, tried, crashes, keyClaim>>
          /\ DOMAIN keyRow' = Keys
          /\ attempts' = attempts \/ attempts' = [attempts EXCEPT ![job[x].payment] = 0]
          /\ due' = due \ {job[x].payment} \/ due' = due \cup {job[x].payment}
          /\ \E answer : Finish(x, answer)
      BY <2>2 DEF SettleDeclined, SettleConfirmed, SettleNotPayable, CompleteKey,
           Ledger!Declined, Ledger!Confirmed, Ledger!NotPayable
    <3>3. due' \subseteq Requests /\ attempts' \in [Requests -> Nat]
      BY <1>1, <3>1, <3>2
    <3>4. PICK answer : Finish(x, answer)
      BY <3>2
    <3>5. pc' \in [Actors -> RequestPlaces \cup WorkerPlaces]
      BY <1>1, <3>4
    <3>6. /\ DOMAIN job' = Actors /\ DOMAIN req' = Requests
          /\ \A r \in Requests : pc'[r] # "idle" => req'[r] \in SentRequests
      BY <1>1, <3>1, <3>4
    <3> QED
      BY <1>1, <3>2, <3>3, <3>5, <3>6
  <2> QED
    BY <1>7, <2>1, <2>2 DEF Settle
<1>8. ASSUME NEW w \in Workers, RetryLater(w) PROVE Rest'
  BY <1>1, <1>8 DEF RetryLater
<1>9. ASSUME NEW w \in Workers, RefundAnswered(w) \/ RefundRefused(w) \/ RefundUnknown(w)
      PROVE  Rest'
  <2>1. job[w].payment \in Requests /\ \E label \in Busy : RefundCall(w, label)
    BY <1>1, <1>9 DEF RefundAnswered, RefundRefused, RefundUnknown, RefundCall, AfterFailure, ActorInv
  <2>2. \A n \in Nat : (IF n < MaxTried THEN n + 1 ELSE n) \in Nat
    OBVIOUS
  <2>3. tried' \in [Requests -> Nat]
    BY <1>1, <2>1, <2>2 DEF RefundCall
  <2> QED
    BY <1>1, <2>1, <2>3 DEF RefundCall
<1>10. ASSUME NEW w \in Workers, RecordRefund(w) PROVE Rest'
  BY <1>1, <1>10 DEF RecordRefund, Ledger!Refunded, Ledger!RefundFailed
<1>11. ASSUME NEW x \in Actors, Crash(x) PROVE Rest'
  BY <1>1, <1>11 DEF Crash
<1>12. ASSUME NEW p \in Requests, NEW w \in Workers, ClaimDue(w, p) PROVE Rest'
  <2>1. \A n \in Nat : Counted(n) \in Nat
    BY DEF Counted
  <2> QED
    BY <1>1, <1>12, <2>1 DEF ClaimDue
<1>13. ASSUME NEW p \in Requests, ComesDue(p) PROVE Rest'
  BY <1>1, <1>13 DEF ComesDue
<1>14. ASSUME NEW b \in Bookings, TimePasses(b) \/ Expire(b) PROVE Rest'
  BY <1>1, <1>14 DEF TimePasses, Expire, Ledger!Expire
<1>15. ASSUME NEW b \in Bookings, Cancel(b) PROVE Rest'
  BY <1>1, <1>15 DEF Cancel, Ledger!Cancel, Ledger!PaymentsOf
<1>16. ASSUME NEW k \in Keys, DeleteKey(k) PROVE Rest'
  BY <1>1, <1>16 DEF DeleteKey
<1>17. CASE UNCHANGED vars
  BY <1>1, <1>17 DEF vars
<1> QED
  BY <1>2, <1>3, <1>4, <1>5, <1>6, <1>7, <1>8, <1>9, <1>10, <1>11, <1>12, <1>13, <1>14, <1>15,
     <1>16, <1>17, <1>1 DEF Next, RequestStep, WorkerStep

\* Requests that have not started a payment.
Waiting == {"idle", "claim", "start"}

LEMMA ActorStep ==
  ASSUME TypeInv, ActorInv, [Next]_vars, \A p \in Requests : Onward(p) PROVE ActorInv'
<1> DEFINE Forward ==
      \A p \in Requests : /\ payStatus[p] # "NONE" => payStatus'[p] # "NONE"
                          /\ payStatus[p] \in RefundStatuses => payStatus'[p] \in RefundStatuses
<1> DEFINE Place(x) ==
      /\ x \in Requests =>
           /\ pc[x] \in RequestPlaces
           /\ pc[x] \in Waiting => payStatus[x] = "NONE"
           /\ pc[x] \in {"charge", "settle"} => job[x].payment = x
      /\ x \in Workers => pc[x] \in WorkerPlaces
      /\ pc[x] \in Busy => job[x].payment \in Requests /\ payStatus[job[x].payment] # "NONE"
      /\ pc[x] \in Refunding => payStatus[job[x].payment] \in RefundStatuses
<1>1. Actors = Requests \cup Workers /\ Requests \cap Workers = {} /\ Forward
  BY PaymentsAssumption DEF Actors, Onward
<1>2. /\ pc \in [Actors -> RequestPlaces \cup WorkerPlaces] /\ DOMAIN job = Actors
      /\ payStatus \in [Requests -> Ledger!PayStatuses]
      /\ \A x \in Actors : Place(x)
  BY <1>1 DEF TypeInv, ActorInv, Waiting, Ledger!TypeOK
<1> SUFFICES \A x \in Actors : Place(x)'
  BY <1>1 DEF ActorInv, Waiting
<1> HIDE DEF Place
\* An actor that stays where it is, and one that is done with its payment.
<1>3. ASSUME NEW x \in Actors, pc'[x] = pc[x], job'[x] = job[x],
             x \in Requests /\ pc[x] \in Waiting => payStatus'[x] = payStatus[x]
      PROVE  Place(x)'
  BY <1>1, <1>2, <1>3 DEF Place, Busy, Refunding
<1>4. ASSUME NEW x \in Actors, x \in Requests => pc'[x] = "done", x \in Workers => pc'[x] = "idle"
      PROVE  Place(x)'
  BY <1>1, <1>4 DEF Place, Busy, Refunding, RequestPlaces, WorkerPlaces, Waiting
\* The steps that only move pc.
<1>5. ASSUME NEW x \in Actors, NEW answer, Finish(x, answer),
             \A r \in Requests : payStatus[r] = "NONE" => payStatus'[r] = "NONE"
      PROVE  \A y \in Actors : Place(y)'
  <2>1. Place(x)'
    BY <1>1, <1>2, <1>4, <1>5 DEF Finish
  <2>2. ASSUME NEW y \in Actors, y # x PROVE Place(y)'
    BY <1>1, <1>2, <1>3, <1>5, <2>2 DEF Finish, Place
  <2> QED
    BY <2>1, <2>2
<1>6. ASSUME NEW x \in Actors, NEW label, Goto(x, label), UNCHANGED payStatus,
             /\ x \in Requests =>
                  \/ pc[x] \in Waiting /\ label \in Waiting
                  \/ pc[x] = "charge" /\ label = "settle"
             /\ x \in Workers =>
                  \/ pc[x] \in Busy /\ label \in {"settle", "retry-later"}
                  \/ pc[x] = "refund" /\ label \in {"record-refund", "record-failure"}
      PROVE  \A y \in Actors : Place(y)'
  <2>1. Place(x)'
    BY <1>1, <1>2, <1>6 DEF Goto, Place, Busy, Refunding, RequestPlaces, WorkerPlaces, Waiting
  <2>2. ASSUME NEW y \in Actors, y # x PROVE Place(y)'
    BY <1>2, <1>3, <1>6, <2>2 DEF Goto
  <2> QED
    BY <2>1, <2>2
<1>7. ASSUME UNCHANGED <<pc, job>>,
             \A r \in Requests : payStatus[r] = "NONE" => payStatus'[r] = "NONE"
      PROVE  \A y \in Actors : Place(y)'
  BY <1>1, <1>2, <1>3, <1>7 DEF Place
<1> USE DEF bookingVars, paymentVars, provider, keyVars, actorVars
<1>8. ASSUME NEW r \in Requests, Send(r) PROVE \A y \in Actors : Place(y)'
  <2>1. Place(r)'
    BY <1>1, <1>2, <1>8 DEF Send, Place, Busy, Refunding, RequestPlaces, Waiting
  <2>2. ASSUME NEW y \in Actors, y # r PROVE Place(y)'
    BY <1>2, <1>3, <1>8, <2>2 DEF Send
  <2> QED
    BY <2>1, <2>2
<1>9. ASSUME NEW r \in Requests, Claim(r) \/ Repeated(r) PROVE \A y \in Actors : Place(y)'
  <2>1. UNCHANGED payStatus /\ pc[r] = "claim" /\ r \in Actors
    BY <1>1, <1>9 DEF Claim, Repeated
  <2>2. Goto(r, "start") \/ \E answer : Finish(r, answer)
    BY <1>9 DEF Claim, Repeated
  <2>3. CASE Goto(r, "start")
    <3>1. PICK label : label = "start" /\ Goto(r, label)
      BY <2>3
    <3>2. r \notin Workers /\ pc[r] \in Waiting /\ label \in Waiting
      BY <1>1, <2>1, <3>1 DEF Waiting
    <3> QED
      BY <1>6, <2>1, <3>1, <3>2
  <2>4. CASE \E answer : Finish(r, answer)
    BY <1>5, <2>1, <2>4
  <2> QED
    BY <2>2, <2>3, <2>4
<1>10. ASSUME NEW r \in Requests, Start(r) PROVE \A y \in Actors : Place(y)'
  <2>1. CASE Ledger!PaymentsOf(req[r].booking, "PROCESSING") # {}
    BY <1>1, <1>5, <1>10, <2>1 DEF Start
  <2>2. CASE Ledger!PaymentsOf(req[r].booking, "PROCESSING") = {}
    <3>1. Place(r)'
      BY <1>1, <1>2, <1>10, <2>2 DEF Start, Place, Busy, Refunding, RequestPlaces, Waiting, Ledger!PayStatuses
    <3>2. ASSUME NEW y \in Actors, y # r PROVE Place(y)'
      BY <1>1, <1>2, <1>3, <1>10, <2>2, <3>2 DEF Start
    <3> QED
      BY <3>1, <3>2
  <2> QED
    BY <2>1, <2>2
<1>11. ASSUME NEW x \in Actors, ChargeAnswered(x) \/ ChargeUnknown(x)
       PROVE  \A y \in Actors : Place(y)'
  <2>1. UNCHANGED payStatus /\ pc[x] = "charge"
    BY <1>11 DEF ChargeAnswered, ChargeUnknown
  <2>2. \/ Goto(x, "settle")
        \/ x \in Workers /\ Goto(x, "retry-later")
        \/ \E answer : Finish(x, answer)
    BY <1>1, <1>11 DEF ChargeAnswered, ChargeUnknown
  <2> QED
    BY <1>1, <1>5, <1>6, <2>1, <2>2 DEF Busy
<1>12. ASSUME NEW x \in Actors, Settle(x) PROVE \A y \in Actors : Place(y)'
  <2>1. \E answer : Finish(x, answer)
    BY <1>12 DEF Settle, SettleDeclined, SettleConfirmed, SettleNotPayable, SettleLost, Threw
  <2>2. \A r \in Requests : payStatus[r] = "NONE" => payStatus'[r] = "NONE"
    BY <1>2, <1>12 DEF Settle, SettleDeclined, SettleConfirmed, SettleNotPayable, SettleLost, Threw,
       Ledger!Declined, Ledger!Confirmed, Ledger!NotPayable, Ledger!Move
  <2> QED
    BY <1>5, <2>1, <2>2
<1>13. ASSUME NEW w \in Workers, RetryLater(w) PROVE \A y \in Actors : Place(y)'
  BY <1>1, <1>5, <1>13 DEF RetryLater, Threw
<1>14. ASSUME NEW w \in Workers, RefundAnswered(w) \/ RefundRefused(w) \/ RefundUnknown(w)
       PROVE  \A y \in Actors : Place(y)'
  <2>1. UNCHANGED payStatus /\ pc[w] = "refund" /\ w \in Actors
    BY <1>1, <1>14 DEF RefundAnswered, RefundRefused, RefundUnknown, RefundCall
  <2>2. \E label \in {"retry-later", "record-refund", "record-failure"} : Goto(w, label)
    BY <1>14 DEF RefundAnswered, RefundRefused, RefundUnknown, RefundCall, AfterFailure
  <2> QED
    BY <1>1, <1>6, <2>1, <2>2 DEF Busy, Refunding
<1>15. ASSUME NEW w \in Workers, RecordRefund(w) PROVE \A y \in Actors : Place(y)'
  <2>1. \E answer : Finish(w, answer)
    BY <1>15 DEF RecordRefund, Threw
  <2>2. \A r \in Requests : payStatus[r] = "NONE" => payStatus'[r] = "NONE"
    BY <1>2, <1>15 DEF RecordRefund, Threw, Ledger!Refunded, Ledger!RefundFailed, Ledger!Move
  <2> QED
    BY <1>1, <1>5, <2>1, <2>2
<1>16. ASSUME NEW x \in Actors, Crash(x) PROVE \A y \in Actors : Place(y)'
  BY <1>5, <1>16 DEF Crash
<1>17. ASSUME NEW w \in Workers, NEW p \in Requests, ClaimDue(w, p)
       PROVE  \A y \in Actors : Place(y)'
  <2>1. Place(w)'
    BY <1>1, <1>2, <1>17 DEF ClaimDue, Place, Busy, Refunding, WorkerPlaces, RefundStatuses
  <2>2. ASSUME NEW y \in Actors, y # w PROVE Place(y)'
    BY <1>1, <1>2, <1>3, <1>17, <2>2 DEF ClaimDue
  <2> QED
    BY <2>1, <2>2
<1>18. ASSUME NEW p \in Requests, ComesDue(p) PROVE \A y \in Actors : Place(y)'
  BY <1>7, <1>18 DEF ComesDue
<1>19. ASSUME NEW b \in Bookings, TimePasses(b) \/ Expire(b) PROVE \A y \in Actors : Place(y)'
  BY <1>7, <1>19 DEF TimePasses, Expire, Ledger!Expire
<1>20. ASSUME NEW b \in Bookings, Cancel(b) PROVE \A y \in Actors : Place(y)'
  BY <1>7, <1>20 DEF Cancel, Ledger!Cancel, Ledger!PaymentsOf
<1>21. ASSUME NEW k \in Keys, DeleteKey(k) PROVE \A y \in Actors : Place(y)'
  BY <1>7, <1>21 DEF DeleteKey
<1>22. CASE UNCHANGED vars
  BY <1>7, <1>22 DEF vars
<1> QED
  BY <1>8, <1>9, <1>10, <1>11, <1>12, <1>13, <1>14, <1>15, <1>16, <1>17, <1>18, <1>19, <1>20,
     <1>21, <1>22, <1>1 DEF Next, RequestStep, WorkerStep

-------------------------------------------------------------------------------
(* The Idempotency-Keys *)

LEMMA KeyStep ==
  ASSUME TypeInv, ActorInv, KeyInv, [Next]_vars, \A p \in Requests : Onward(p)
  PROVE  KeyInv'
<1>1. /\ Actors = Requests \cup Workers /\ Requests \cap Workers = {} /\ None \notin Requests
      /\ payStatus \in [Requests -> Ledger!PayStatuses] /\ keyClaim \in [Keys -> Requests \cup {None}]
      /\ pc \in [Actors -> RequestPlaces \cup WorkerPlaces] /\ DOMAIN keyRow = Keys
      /\ \A r \in Requests : pc[r] # "idle" => req[r] \in SentRequests
      /\ \A r \in Requests : pc[r] \in Waiting => payStatus[r] = "NONE"
  BY PaymentsAssumption DEF Actors, TypeInv, ActorInv, Ledger!TypeOK, Waiting
\* The rows, and the requests, that a step leaves alone.
<1>2. ASSUME NEW k \in Keys, keyRow'[k] = keyRow[k], keyClaim'[k] = keyClaim[k],
             \A r \in Requests :
               /\ keyClaim[k] = r \/ payStatus[r] # "NONE" => req'[r] = req[r]
               /\ keyClaim[k] = r => pc'[r] = pc[r]
               /\ keyRow[k].state = "IN_PROGRESS" /\ keyRow[k].payment = r /\ payStatus[r] = "PROCESSING"
                    => payStatus'[r] = "PROCESSING"
      PROVE  RowInv(k)'
  <2>1. keyClaim[k] \in Requests \cup {None} /\ RowInv(k)
    BY <1>1 DEF KeyInv
  <2>2. ASSUME NEW p \in Requests, payStatus[p] # "NONE", Owns(p, k)
        PROVE  req'[p].key = k /\ keyRow'[k].payment = p /\ keyRow'[k].fingerprint = <<req'[p].booking, req'[p].agrees>>
    BY <1>2, <2>2 DEF Owns, Fingerprint
  <2>3. ASSUME keyRow[k].state = "COMPLETED", keyRow[k].payment # None
        PROVE  /\ payStatus'[keyRow[k].payment] # "NONE"
               /\ Outcome(keyRow[k].payment, keyRow[k].response)'
    BY <1>2, <2>1, <2>3 DEF RowInv, Outcome, Kept, Onward
  <2> QED
    BY <1>1, <1>2, <2>1, <2>2, <2>3 DEF RowInv, Owns, Fingerprint
<1>3. ASSUME NEW r \in Requests, req'[r] = req[r],
             pc'[r] = "start" => pc[r] = "start" /\ keyClaim'[req[r].key] = keyClaim[req[r].key],
             payStatus'[r] = "PROCESSING" =>
               payStatus[r] = "PROCESSING" /\ keyRow'[req[r].key] = keyRow[req[r].key]
      PROVE  ClaimInv(r)'
  <2>1. ClaimInv(r)
    BY DEF KeyInv
  <2>2. (pc[r] = "start" => keyClaim[req[r].key] = r /\ req[r].mayStart /\ req[r].agrees)'
    BY <1>3, <2>1 DEF ClaimInv
  <2>3. (payStatus[r] = "PROCESSING" =>
          keyRow[req[r].key].state = "IN_PROGRESS" /\ Owns(r, req[r].key))'
    BY <1>3, <2>1 DEF ClaimInv, Owns, Fingerprint
  <2> QED
    BY <2>2, <2>3 DEF ClaimInv
<1>4. ASSUME UNCHANGED <<keyRow, keyClaim, req>>,
             \A r \in Requests : pc[r] = "start" <=> pc'[r] = "start",
             \A p \in Requests : payStatus[p] = "PROCESSING" <=> payStatus'[p] = "PROCESSING"
      PROVE  KeyInv'
  <2>1. ASSUME NEW k \in Keys PROVE RowInv(k)'
    <3>1. RowInv(k)
      BY DEF KeyInv
    <3>2. \A r \in Requests : keyClaim[k] = r => pc'[r] = pc[r]
      BY <1>1, <1>4, <3>1 DEF RowInv
    <3> QED
      BY <1>2, <1>4, <3>2
  <2>2. ASSUME NEW r \in Requests PROVE ClaimInv(r)'
    BY <1>3, <1>4
  <2> QED
    BY <2>1, <2>2 DEF KeyInv
\* No other request has a claim on the key of a request in phase 1.
<1>5. ASSUME NEW r \in Requests, keyClaim[req[r].key] \in {r, None}, keyRow[req[r].key] = Free,
             NEW q \in Requests, q # r
      PROVE  pc[q] = "start" \/ payStatus[q] = "PROCESSING" => req[q].key \in Keys \ {req[r].key}
  BY <1>1, <1>5 DEF KeyInv, ClaimInv, Free, Waiting, SentRequests
<1>6. ASSUME NEW r \in Requests, NEW k \in Keys, keyClaim[k] = r PROVE req[r].key = k /\ pc[r] = "start"
  BY <1>1, <1>6 DEF KeyInv, RowInv
<1> USE DEF bookingVars, paymentVars, provider, keyVars, actorVars
<1>7. ASSUME NEW r \in Requests, Send(r) PROVE KeyInv'
  <2>1. \A p \in Requests \ {r} : req'[p] = req[p] /\ pc'[p] = pc[p]
    BY <1>1, <1>7 DEF Send
  <2>2. payStatus[r] = "NONE" /\ pc[r] = "idle" /\ pc'[r] = "claim"
    BY <1>1, <1>7 DEF Send, Waiting
  <2>3. UNCHANGED <<keyRow, keyClaim, payStatus>>
    BY <1>7 DEF Send
  <2>4. ASSUME NEW k \in Keys PROVE RowInv(k)'
    <3>1. keyClaim[k] # r
      BY <1>6, <2>2
    <3> QED
      BY <1>2, <2>1, <2>2, <2>3, <3>1
  <2>5. ASSUME NEW q \in Requests PROVE ClaimInv(q)'
    <3>1. CASE q = r
      BY <2>2, <2>3, <3>1 DEF ClaimInv
    <3>2. CASE q # r
      BY <1>3, <2>1, <2>3, <3>2
    <3> QED
      BY <3>1, <3>2
  <2> QED
    BY <2>4, <2>5 DEF KeyInv
<1>8. ASSUME NEW r \in Requests, Claim(r) PROVE KeyInv'
  <2>1. PICK k :
          /\ k = req[r].key /\ k \in Keys
          /\ pc[r] = "claim" /\ keyClaim[k] = None /\ keyRow[k] = Free
          /\ payStatus[r] = "NONE" /\ UNCHANGED <<payStatus, req>>
    BY <1>1, <1>8 DEF Claim, Waiting, SentRequests, Goto, Finish
  <2>2. CASE Goto(r, "start") /\ req[r].mayStart /\ req[r].agrees
             /\ keyClaim' = [keyClaim EXCEPT ![k] = r] /\ UNCHANGED keyRow
    <3>1. pc'[r] = "start" /\ \A q \in Requests \ {r} : pc'[q] = pc[q]
      BY <1>1, <2>2 DEF Goto
    <3>2. RowInv(k)'
      BY <1>1, <2>1, <2>2, <3>1 DEF RowInv, Free
    <3>3. ASSUME NEW l \in Keys, l # k PROVE RowInv(l)'
      BY <1>1, <1>2, <1>6, <2>1, <2>2, <3>1, <3>3
    <3>4. ClaimInv(r)'
      BY <1>1, <2>1, <2>2 DEF ClaimInv
    <3>5. ASSUME NEW q \in Requests, q # r PROVE ClaimInv(q)'
      BY <1>1, <1>3, <1>5, <2>1, <2>2, <3>1, <3>5
    <3> QED
      BY <3>2, <3>3, <3>4, <3>5 DEF KeyInv
  <2>3. CASE Finish(r, "amount-mismatch") /\ UNCHANGED keyVars
    BY <1>1, <1>4, <2>1, <2>3 DEF Finish
  <2>4. CASE /\ Finish(r, "not-payable") /\ UNCHANGED keyClaim
             /\ keyRow' = [keyRow EXCEPT ![k] = Completed(Fingerprint(r), None, "not-payable")]
    <3>1. pc'[r] = "done" /\ \A q \in Requests \ {r} : pc'[q] = pc[q]
      BY <1>1, <2>4 DEF Finish
    <3>2. RowInv(k)'
      BY <1>1, <2>1, <2>4 DEF RowInv, Completed
    <3>3. ASSUME NEW l \in Keys, l # k PROVE RowInv(l)'
      BY <1>1, <1>2, <1>6, <2>1, <2>4, <3>1, <3>3
    <3>4. ClaimInv(r)'
      BY <2>1, <3>1 DEF ClaimInv
    <3>5. ASSUME NEW q \in Requests, q # r PROVE ClaimInv(q)'
      BY <1>1, <1>3, <1>5, <2>1, <2>4, <3>1, <3>5
    <3> QED
      BY <3>2, <3>3, <3>4, <3>5 DEF KeyInv
  <2> QED
    BY <1>8, <2>1, <2>2, <2>3, <2>4 DEF Claim, CanStartPayment
<1>9. ASSUME NEW r \in Requests, Repeated(r) PROVE KeyInv'
  BY <1>1, <1>4, <1>9 DEF Repeated, Finish
<1>10. ASSUME NEW r \in Requests, Start(r) PROVE KeyInv'
  <2>0. pc[r] = "start"
    BY <1>10 DEF Start
  <2>1. PICK k :
          /\ k = req[r].key /\ k \in Keys
          /\ pc[r] = "start" /\ keyClaim[k] = r /\ keyRow[k] = Free
          /\ payStatus[r] = "NONE" /\ keyClaim' = [keyClaim EXCEPT ![k] = None] /\ UNCHANGED req
    <3>1. req[r].key \in Keys /\ payStatus[r] = "NONE"
      BY <1>1, <2>0 DEF SentRequests, Waiting
    <3>2. keyClaim[req[r].key] = r
      BY <2>0 DEF KeyInv, ClaimInv
    <3>3. keyRow[req[r].key] = Free
      BY <1>1, <3>1, <3>2 DEF KeyInv, RowInv
    <3>4. keyClaim' = [keyClaim EXCEPT ![req[r].key] = None] /\ UNCHANGED req
      BY <1>10 DEF Start, Finish
    <3> QED
      BY <2>0, <3>1, <3>2, <3>3, <3>4
  <2>2. pc'[r] # "start" /\ \A q \in Requests \ {r} : pc'[q] = pc[q] /\ payStatus'[q] = payStatus[q]
    BY <1>1, <1>10 DEF Start, Finish
  <2>3. \/ UNCHANGED <<keyRow, payStatus>>
        \/ /\ payStatus'[r] = "PROCESSING"
           /\ keyRow' = [keyRow EXCEPT ![k] = InProgress(Fingerprint(r), r)]
    BY <1>1, <1>10, <2>1 DEF Start
  <2>4. ASSUME NEW l \in Keys, l # k PROVE RowInv(l)'
    BY <1>1, <1>2, <1>6, <2>1, <2>2, <2>3, <2>4
  <2>5. ASSUME NEW q \in Requests, q # r PROVE ClaimInv(q)'
    BY <1>1, <1>3, <1>5, <2>1, <2>2, <2>3, <2>5
  <2>6. RowInv(k)' /\ ClaimInv(r)'
    BY <1>1, <2>1, <2>2, <2>3 DEF RowInv, ClaimInv, InProgress, Free, Owns, Fingerprint
  <2> QED
    BY <2>4, <2>5, <2>6 DEF KeyInv
<1>11. ASSUME NEW x \in Actors, ChargeAnswered(x) \/ ChargeUnknown(x) PROVE KeyInv'
  <2>1. UNCHANGED <<keyRow, keyClaim, payStatus, req>> /\ pc[x] = "charge"
    BY <1>11 DEF ChargeAnswered, ChargeUnknown, Goto, Finish
  <2>2. \A r \in Requests : pc[r] = "start" <=> pc'[r] = "start"
    BY <1>1, <1>11 DEF ChargeAnswered, ChargeUnknown, Goto, Finish
  <2> QED
    BY <1>4, <2>1, <2>2
<1>12. ASSUME NEW x \in Actors, SettleLost(x) PROVE KeyInv'
  <2>1. \A r \in Requests : pc[r] = "start" <=> pc'[r] = "start"
    BY <1>1, <1>12 DEF SettleLost, Threw, Finish
  <2> QED
    BY <1>4, <1>12, <2>1 DEF SettleLost, Threw, Finish
<1>13. ASSUME NEW x \in Actors, NEW p \in Requests, p = job[x].payment,
              NEW response \in {"declined", "confirmed", "refunded"},
              pc[x] = "settle", CanSettle(p), CompleteKey(p, response), Finish(x, response),
              UNCHANGED charge, payStatus'[p] # "NONE", Outcome(p, response)',
              \A q \in Requests \ {p} : payStatus'[q] = payStatus[q], payStatus'[p] # "PROCESSING"
       PROVE  KeyInv'
  <2>1. PICK k :
          /\ k = req[p].key /\ payStatus[p] = "PROCESSING" /\ UNCHANGED req
          /\ keyRow[k].state = "IN_PROGRESS" /\ Owns(p, k)
    BY <1>1, <1>13 DEF CanSettle, KeyInv, ClaimInv, Finish
  <2>2. KeyOf(p) = {k}
    BY <1>13, <2>1 DEF CanSettle, KeyInv, RowInv, Owns, KeyOf
  <2>3. k \in Keys /\ keyRow'[k] = Completed(keyRow[k].fingerprint, p, response)
        /\ \A l \in Keys \ {k} : keyRow'[l] = keyRow[l]
    BY <1>13, <2>2 DEF CompleteKey, KeyOf
  <2>4. UNCHANGED keyClaim /\ \A r \in Requests : pc[r] = "start" <=> pc'[r] = "start"
    BY <1>1, <1>13 DEF CompleteKey, Finish
  <2>5. RowInv(k)'
    <3>1. keyClaim[k] = None
      BY <1>1, <2>1, <2>3 DEF KeyInv, RowInv, Free
    <3>2. /\ keyRow'[k].state = "COMPLETED" /\ keyRow'[k].payment = p
          /\ keyRow'[k].response = response /\ keyRow'[k].fingerprint = keyRow[k].fingerprint
      BY <2>3 DEF Completed
    <3>3. Outcome(keyRow[k].payment, keyRow[k].response)'
      BY <1>13, <3>2 DEF Outcome, Kept
    <3> QED
      BY <1>13, <2>1, <2>3, <2>4, <3>1, <3>2, <3>3 DEF RowInv, Owns, Fingerprint
  <2>6. ASSUME NEW l \in Keys, l # k PROVE RowInv(l)'
    <3>1. \A r \in Requests : keyClaim[l] = r => pc'[r] = pc[r]
      BY <1>6, <2>4
    <3>2. keyRow[l].state = "IN_PROGRESS" => keyRow[l].payment # p
      BY <2>1, <2>6 DEF KeyInv, RowInv, Owns
    <3> QED
      BY <1>2, <1>13, <2>1, <2>3, <2>4, <2>6, <3>1, <3>2
  <2>7. ASSUME NEW q \in Requests PROVE ClaimInv(q)'
    <3>1. payStatus[q] = "PROCESSING" /\ q # p => req[q].key \in Keys /\ req[q].key # k
      BY <1>1, <2>1 DEF KeyInv, ClaimInv, Owns, Waiting, SentRequests
    <3> QED
      BY <1>3, <1>13, <2>1, <2>3, <2>4, <3>1
  <2> QED
    BY <2>5, <2>6, <2>7 DEF KeyInv
<1>14. ASSUME NEW x \in Actors, SettleDeclined(x) \/ SettleConfirmed(x) \/ SettleNotPayable(x)
       PROVE  KeyInv'
  <2>1. PICK p : p = job[x].payment /\ p \in Requests
    BY <1>14 DEF SettleDeclined, SettleConfirmed, SettleNotPayable, ActorInv, Busy
  <2>2. pc[x] = "settle" /\ CanSettle(p) /\ UNCHANGED charge
    BY <1>14, <2>1 DEF SettleDeclined, SettleConfirmed, SettleNotPayable,
       Ledger!Declined, Ledger!Confirmed, Ledger!NotPayable, Ledger!provider
  <2>3. PICK response \in {"declined", "confirmed", "refunded"} :
          /\ CompleteKey(p, response) /\ Finish(x, response)
          /\ payStatus' = [payStatus EXCEPT ![p] =
               CASE response = "declined" -> "FAILED"
                 [] response = "confirmed" -> "SUCCEEDED"
                 [] response = "refunded" -> "REFUND_PENDING"]
          /\ response = "confirmed" => charge[p] = "charged"
    BY <1>14, <2>1 DEF SettleDeclined, SettleConfirmed, SettleNotPayable,
       Ledger!Declined, Ledger!Confirmed, Ledger!NotPayable, Ledger!Move
  <2>4. /\ payStatus'[p] # "NONE" /\ payStatus'[p] # "PROCESSING" /\ Outcome(p, response)'
        /\ \A q \in Requests \ {p} : payStatus'[q] = payStatus[q]
    BY <1>1, <2>1, <2>2, <2>3 DEF Outcome, Kept, RefundStatuses
  <2> QED
    BY <1>13, <2>1, <2>2, <2>3, <2>4
<1>15. ASSUME NEW w \in Workers,
              \/ RetryLater(w) \/ RefundAnswered(w) \/ RefundRefused(w) \/ RefundUnknown(w)
              \/ RecordRefund(w)
       PROVE  KeyInv'
  <2>1. UNCHANGED <<keyRow, keyClaim, req>>
    BY <1>15 DEF RetryLater, RefundAnswered, RefundRefused, RefundUnknown, RecordRefund,
                RefundCall, Goto, Finish, Threw
  <2>2. \A r \in Requests : pc'[r] = pc[r]
    BY <1>1, <1>15 DEF RetryLater, RefundAnswered, RefundRefused, RefundUnknown, RecordRefund,
                RefundCall, Goto, Finish, Threw
  <2>3. \A p \in Requests : payStatus[p] = "PROCESSING" <=> payStatus'[p] = "PROCESSING"
    BY <1>1, <1>15 DEF RetryLater, RefundAnswered, RefundRefused, RefundUnknown, RecordRefund,
                RefundCall, Threw, Ledger!Refunded, Ledger!RefundFailed, Ledger!Move
  <2> QED
    BY <1>4, <2>1, <2>2, <2>3
<1>16. ASSUME NEW x \in Actors, Crash(x) PROVE KeyInv'
  <2>1. /\ UNCHANGED <<keyRow, req, payStatus>>
        /\ x \in Requests => pc'[x] = "done"
        /\ \A r \in Requests \ {x} : pc'[r] = pc[r]
        /\ \A k \in Keys : keyClaim'[k] = IF keyClaim[k] = x THEN None ELSE keyClaim[k]
    BY <1>1, <1>16 DEF Crash, Finish
  <2>2. ASSUME NEW k \in Keys PROVE RowInv(k)'
    <3>1. CASE keyClaim[k] = x /\ x \in Requests
      BY <1>1, <2>1, <3>1 DEF KeyInv, RowInv, Free
    <3>2. CASE keyClaim[k] # x \/ x \notin Requests
      BY <1>1, <1>2, <2>1, <3>2
    <3> QED
      BY <3>1, <3>2
  <2>3. ASSUME NEW r \in Requests PROVE ClaimInv(r)'
    <3>1. pc[r] = "start" /\ r # x => keyClaim'[req[r].key] = keyClaim[req[r].key]
      BY <1>1, <2>1 DEF KeyInv, ClaimInv, SentRequests
    <3>2. pc'[r] = "start" => r # x
      BY <2>1
    <3> QED
      BY <1>3, <2>1, <3>1, <3>2
  <2> QED
    BY <2>2, <2>3 DEF KeyInv
<1>17. ASSUME NEW w \in Workers, NEW p \in Requests, ClaimDue(w, p) PROVE KeyInv'
  BY <1>1, <1>4, <1>17 DEF ClaimDue
<1>18. ASSUME NEW p \in Requests, ComesDue(p) PROVE KeyInv'
  BY <1>4, <1>18 DEF ComesDue
<1>19. ASSUME NEW b \in Bookings, TimePasses(b) \/ Expire(b) PROVE KeyInv'
  BY <1>4, <1>19 DEF TimePasses, Expire, Ledger!Expire
<1>20. ASSUME NEW b \in Bookings, Cancel(b) PROVE KeyInv'
  BY <1>1, <1>4, <1>20 DEF Cancel, Ledger!Cancel, Ledger!PaymentsOf
<1>21. ASSUME NEW k \in Keys, DeleteKey(k) PROVE KeyInv'
  <2>1. /\ keyRow[k].state = "COMPLETED" /\ keyRow' = [keyRow EXCEPT ![k] = Free]
        /\ UNCHANGED <<payStatus, keyClaim, pc, req>>
    BY <1>21 DEF DeleteKey
  <2>2. ASSUME NEW l \in Keys, l # k PROVE RowInv(l)'
    BY <1>1, <1>2, <2>1, <2>2
  <2>3. RowInv(k)'
    BY <1>1, <2>1 DEF KeyInv, RowInv, Free
  <2>4. ASSUME NEW r \in Requests PROVE ClaimInv(r)'
    <3>1. payStatus[r] = "PROCESSING" => req[r].key \in Keys \ {k}
      BY <1>1, <2>1 DEF KeyInv, ClaimInv, SentRequests, Waiting
    <3> QED
      BY <1>1, <1>3, <2>1, <3>1
  <2> QED
    BY <2>2, <2>3, <2>4 DEF KeyInv
<1>22. CASE UNCHANGED vars
  BY <1>4, <1>22 DEF vars
<1> QED
  BY <1>7, <1>8, <1>9, <1>10, <1>11, <1>12, <1>14, <1>15, <1>16, <1>17, <1>18, <1>19, <1>20,
     <1>21, <1>22, <1>1 DEF Next, RequestStep, WorkerStep, Settle

-------------------------------------------------------------------------------
(* One charge for a key *)

\* A request sent stays as it was sent, and answered once; it leaves phase 1 for good.
MovesOn(r) ==
  /\ pc[r] # "idle" => pc'[r] # "idle" /\ req'[r] = req[r]
  /\ pc'[r] \in {"claim", "start"} /\ pc[r] # "idle" => pc[r] \in {"claim", "start"}
  /\ pc[r] = "idle" /\ pc'[r] # "idle" =>
       pc'[r] = "claim" /\ (req'[r].mayStart => req'[r].booking \notin closing)
  /\ pc'[r] # "done" \/ pc[r] = "done" => told'[r] = told[r]
  /\ pc[r] = "done" => pc'[r] = "done"

LEMMA RequestsMoveOn ==
  ASSUME TypeInv, ActorInv, DOMAIN told = Requests, [Next]_vars, NEW r \in Requests
  PROVE  MovesOn(r)
<1>1. /\ r \in Actors /\ pc \in [Actors -> RequestPlaces \cup WorkerPlaces] /\ DOMAIN req = Requests
      /\ \A w \in Workers : w \in Actors /\ w # r /\ w \notin Requests
  BY PaymentsAssumption DEF Actors, TypeInv
<1> USE DEF actorVars
<1>2. ASSUME UNCHANGED <<pc, req, told>> PROVE MovesOn(r)
  BY <1>2 DEF MovesOn
<1>3. ASSUME NEW x \in Actors, NEW answer, Finish(x, answer), pc[x] \notin {"idle", "done"} PROVE MovesOn(r)
  BY <1>1, <1>3 DEF MovesOn, Finish
<1>4. ASSUME NEW x \in Actors, NEW label, Goto(x, label), label \notin {"idle", "claim", "start", "done"},
             pc[x] \notin {"idle", "done"}
      PROVE  MovesOn(r)
  BY <1>1, <1>4 DEF MovesOn, Goto
<1>5. ASSUME NEW s \in Requests, Send(s) PROVE MovesOn(r)
  <2>1. /\ pc' = [pc EXCEPT ![s] = "claim"] /\ pc[s] = "idle" /\ UNCHANGED told
        /\ \A q \in Requests \ {s} : req'[q] = req[q]
    BY <1>1, <1>5 DEF Send
  <2>2. PICK k \in Keys, b \in Bookings, agrees \in BOOLEAN :
          req' = [req EXCEPT ![s] =
            [key |-> k, booking |-> b, agrees |-> agrees, mayStart |-> b \notin closing]]
    BY <1>5 DEF Send
  <2>3. req'[s].mayStart => req'[s].booking \notin closing
    BY <1>1, <2>2
  <2> QED
    BY <1>1, <2>1, <2>3 DEF MovesOn
<1>6. ASSUME NEW s \in Requests, Claim(s) \/ Repeated(s) PROVE MovesOn(r)
  <2>1. pc[s] = "claim" /\ (Goto(s, "start") \/ \E answer : Finish(s, answer))
    BY <1>6 DEF Claim, Repeated
  <2>2. CASE Goto(s, "start")
    BY <1>1, <2>1, <2>2 DEF Goto, MovesOn
  <2> QED
    BY <1>1, <1>3, <2>1, <2>2 DEF Actors
<1>7. ASSUME NEW s \in Requests, Start(s) PROVE MovesOn(r)
  BY <1>1, <1>7 DEF Start, Finish, MovesOn
<1>8. ASSUME NEW x \in Actors,
             \/ ChargeAnswered(x) \/ ChargeUnknown(x) \/ Settle(x) \/ Crash(x) \/ RetryLater(x)
             \/ RecordRefund(x)
      PROVE  MovesOn(r)
  <2>1. pc[x] \notin {"idle", "done"}
    BY <1>8 DEF ChargeAnswered, ChargeUnknown, Settle, SettleDeclined, SettleConfirmed,
                SettleNotPayable, SettleLost, Crash, RetryLater, RecordRefund
  <2>2. \/ \E answer : Finish(x, answer)
        \/ \E label \in {"settle", "retry-later"} : Goto(x, label)
    BY <1>8 DEF ChargeAnswered, ChargeUnknown, Settle, SettleDeclined, SettleConfirmed,
                SettleNotPayable, SettleLost, Crash, RetryLater, RecordRefund, Threw
  <2> QED
    BY <1>3, <1>4, <2>1, <2>2
<1>9. ASSUME NEW w \in Workers, RefundAnswered(w) \/ RefundRefused(w) \/ RefundUnknown(w)
      PROVE  MovesOn(r)
  <2>1. pc[w] = "refund" /\ \E label \in {"retry-later", "record-refund", "record-failure"} : Goto(w, label)
    BY <1>9 DEF RefundAnswered, RefundRefused, RefundUnknown, RefundCall, AfterFailure
  <2> QED
    BY <1>1, <1>4, <2>1
<1>10. ASSUME NEW w \in Workers, NEW p \in Requests, ClaimDue(w, p) PROVE MovesOn(r)
  BY <1>1, <1>10 DEF ClaimDue, MovesOn
<1>11. ASSUME NEW p \in Requests, ComesDue(p) PROVE MovesOn(r)
  BY <1>2, <1>11 DEF ComesDue
<1>12. ASSUME NEW b \in Bookings, TimePasses(b) \/ Expire(b) \/ Cancel(b) PROVE MovesOn(r)
  BY <1>2, <1>12 DEF TimePasses, Expire, Cancel
<1>13. ASSUME NEW k \in Keys, DeleteKey(k) PROVE MovesOn(r)
  BY <1>2, <1>13 DEF DeleteKey
<1>14. CASE UNCHANGED vars
  BY <1>2, <1>14 DEF vars
<1> QED
  BY <1>5, <1>6, <1>7, <1>8, <1>9, <1>10, <1>11, <1>12, <1>13, <1>14
  DEF Next, RequestStep, WorkerStep, Actors

\* A payment begins in phase 1's second transaction only.
LEMMA OnlyStartBegins ==
  ASSUME TypeInv, [Next]_vars, NEW p \in Requests, payStatus[p] = "NONE", payStatus'[p] # "NONE"
  PROVE  Start(p)
<1> USE DEF paymentVars
<1>1. payStatus \in [Requests -> Ledger!PayStatuses]
  BY DEF TypeInv, Ledger!TypeOK
<1>2. ASSUME NEW r \in Requests, Start(r) PROVE r = p
  BY <1>1, <1>2 DEF Start
<1>3. ASSUME NEW x \in Actors, Settle(x) PROVE FALSE
  BY <1>1, <1>3 DEF Settle, SettleDeclined, SettleConfirmed, SettleNotPayable, SettleLost, Threw,
     Ledger!Declined, Ledger!Confirmed, Ledger!NotPayable, Ledger!Move
<1>4. ASSUME NEW w \in Workers, RecordRefund(w) PROVE FALSE
  BY <1>1, <1>4 DEF RecordRefund, Threw, Ledger!Refunded, Ledger!RefundFailed, Ledger!Move
<1>5. ASSUME NEW b \in Bookings, Cancel(b) PROVE FALSE
  BY <1>1, <1>5 DEF Cancel, Ledger!Cancel, Ledger!PaymentsOf
<1>6. ASSUME NEW x \in Actors,
             \/ ChargeAnswered(x) \/ ChargeUnknown(x) \/ Crash(x) \/ RetryLater(x)
             \/ RefundAnswered(x) \/ RefundRefused(x) \/ RefundUnknown(x)
             \/ \E q \in Requests : ClaimDue(x, q) \/ ComesDue(q)
             \/ Send(x) \/ Claim(x) \/ Repeated(x)
      PROVE  FALSE
  BY <1>6 DEF ChargeAnswered, ChargeUnknown, Crash, RetryLater, RefundAnswered, RefundRefused,
     RefundUnknown, RefundCall, ClaimDue, ComesDue, Send, Claim, Repeated, Threw
<1>7. ASSUME NEW b \in Bookings, TimePasses(b) \/ Expire(b) PROVE FALSE
  BY <1>7 DEF TimePasses, Expire, Ledger!Expire
<1>8. ASSUME NEW k \in Keys, DeleteKey(k) PROVE FALSE
  BY <1>8 DEF DeleteKey
<1>9. ASSUME UNCHANGED vars PROVE FALSE
  BY <1>9 DEF vars
<1>10. ASSUME NEW q \in Requests, ComesDue(q) PROVE FALSE
  BY <1>10 DEF ComesDue
<1> QED
  BY <1>2, <1>3, <1>4, <1>5, <1>6, <1>7, <1>8, <1>9, <1>10 DEF Next, RequestStep, WorkerStep, Actors

\* A row goes only when the cleanup job deletes it.
LEMMA RowsStay ==
  ASSUME TypeInv, KeyInv, [Next]_vars, NEW k \in Keys, keyRow[k] # Free
  PROVE  (keyRow'[k] # Free /\ keyRow'[k].payment = keyRow[k].payment) \/ DeleteKey(k)
<1> USE DEF keyVars
<1> DEFINE Stays == keyRow'[k] # Free /\ keyRow'[k].payment = keyRow[k].payment
<1>1. DOMAIN keyRow = Keys /\ keyClaim \in [Keys -> Requests \cup {None}]
  BY DEF TypeInv
<1>2. ASSUME NEW r \in Requests, Claim(r) PROVE Stays
  BY <1>1, <1>2 DEF Claim
<1>3. ASSUME NEW r \in Requests, Start(r) PROVE Stays
  <2>1. keyRow[req[r].key] = Free \/ req[r].key \notin Keys
    BY <1>3, PaymentsAssumption DEF Start, KeyInv, ClaimInv, RowInv
  <2> QED
    BY <1>1, <1>3, <2>1 DEF Start
<1>4. ASSUME NEW x \in Actors, Settle(x) PROVE Stays
  <2>1. CASE SettleLost(x)
    BY <2>1 DEF SettleLost, Threw
  <2>2. CASE \E response : CompleteKey(job[x].payment, response)
    BY <2>2 DEF CompleteKey, KeyOf, Completed, Free
  <2> QED
    BY <1>4, <2>1, <2>2 DEF Settle, SettleDeclined, SettleConfirmed, SettleNotPayable
<1>5. ASSUME NEW x \in Actors,
             \/ ChargeAnswered(x) \/ ChargeUnknown(x) \/ Crash(x) \/ RetryLater(x)
             \/ RefundAnswered(x) \/ RefundRefused(x) \/ RefundUnknown(x) \/ RecordRefund(x)
             \/ \E q \in Requests : ClaimDue(x, q)
             \/ Send(x) \/ Repeated(x)
      PROVE  Stays
  BY <1>5 DEF ChargeAnswered, ChargeUnknown, Crash, RetryLater, RefundAnswered, RefundRefused,
     RefundUnknown, RefundCall, RecordRefund, ClaimDue, Send, Repeated, Threw
<1>6. ASSUME NEW b \in Bookings, TimePasses(b) \/ Expire(b) \/ Cancel(b) PROVE Stays
  BY <1>6 DEF TimePasses, Expire, Cancel
<1>7. ASSUME NEW l \in Keys, DeleteKey(l) PROVE Stays \/ DeleteKey(k)
  BY <1>1, <1>7 DEF DeleteKey
<1>8. ASSUME UNCHANGED vars PROVE Stays
  BY <1>8 DEF vars
<1>9. ASSUME NEW q \in Requests, ComesDue(q) PROVE Stays
  BY <1>9 DEF ComesDue
<1> QED
  BY <1>2, <1>3, <1>4, <1>5, <1>6, <1>7, <1>8, <1>9 DEF Next, RequestStep, WorkerStep, Actors

\* Deadlines do not come back.
LEMMA LapsedStays ==
  ASSUME [Ledger!Next]_(Ledger!vars) PROVE lapsed \subseteq lapsed'
BY DEF Ledger!Next, Ledger!vars, Ledger!Lapse, Ledger!Expire, Ledger!Cancel, Ledger!Start,
   Ledger!Decide, Ledger!Declined, Ledger!Confirmed, Ledger!NotPayable, Ledger!Refund,
   Ledger!Refunded, Ledger!RefundFailed

\* p keeps its key, or nobody can start another payment for its booking.
KeyHeld(p) ==
  \/ keyRow[req[p].key] # Free /\ keyRow[req[p].key].payment = p
  \/ req[p].booking \in lapsed /\ NoEarlyClock(req[p].booking)

LEMMA StartStepInv ==
  ASSUME TypeInv, ActorInv, KeyInv, StartInv, [Next]_vars, [Ledger!Next]_(Ledger!vars),
         \A p \in Requests : Onward(p), \A r \in Requests : MovesOn(r)
  PROVE  StartInv'
<1>1. /\ lapsed \subseteq lapsed' /\ lapsed \subseteq closing
      /\ \A p \in Requests : payStatus[p] # "NONE" => req'[p] = req[p]
      /\ \A r \in Requests : pc[r] # "idle" => req[r] \in SentRequests
      /\ \A p \in Requests : pc[p] = "idle" => payStatus[p] = "NONE"
      /\ payBooking \in [Requests -> Bookings] /\ DOMAIN keyRow = Keys
  BY LapsedStays DEF TypeInv, ActorInv, MovesOn, Ledger!TypeOK
<1>2. ASSUME NEW b \in lapsed, NoEarlyClock(b) PROVE NoEarlyClock(b)'
  BY <1>1, <1>2 DEF NoEarlyClock, MovesOn
<1>3. ASSUME NEW p \in Requests, payStatus[p] # "NONE"
      PROVE  payBooking'[p] = req'[p].booking /\ KeyHeld(p)'
  <2>1. PICK b, k :
          /\ b = req[p].booking /\ k = req[p].key /\ k \in Keys
          /\ req'[p] = req[p] /\ payBooking[p] = b /\ payBooking'[p] = b
    BY <1>1, <1>3 DEF Onward, SentRequests, StartInv
  <2>2. CASE b \in lapsed /\ NoEarlyClock(b)
    <3>1. b \in lapsed' /\ NoEarlyClock(b)'
      BY <1>1, <1>2, <2>2
    <3> QED
      BY <2>1, <3>1 DEF KeyHeld, NoEarlyClock
  <2>3. CASE keyRow[k] # Free /\ keyRow[k].payment = p
    <3>1. CASE DeleteKey(k)
      <4>1. keyRow[k].state = "COMPLETED" /\ keyRow[k].fingerprint[1] \in lapsed
            /\ NoEarlyClock(keyRow[k].fingerprint[1])
        BY <3>1 DEF DeleteKey
      <4>2. RowInv(k) /\ p # None
        BY <2>1, PaymentsAssumption DEF KeyInv
      <4>3. keyRow[k].fingerprint[1] = b
        BY <2>1, <2>3, <4>1, <4>2 DEF RowInv, Owns, Fingerprint
      <4> QED
        BY <2>2, <4>1, <4>3
    <3>2. CASE keyRow'[k] # Free /\ keyRow'[k].payment = keyRow[k].payment
      BY <2>1, <2>3, <3>2 DEF KeyHeld, Free
    <3> QED
      BY <2>1, <2>3, <3>1, <3>2, RowsStay
  <2>4. KeyHeld(p)
    BY <1>3 DEF StartInv, KeyHeld
  <2> QED
    BY <2>1, <2>2, <2>3, <2>4 DEF KeyHeld
<1>4. ASSUME NEW p \in Requests, payStatus[p] = "NONE", payStatus'[p] # "NONE"
      PROVE  /\ payBooking'[p] = req'[p].booking /\ KeyHeld(p)'
             /\ \A q \in Requests : payStatus'[q] # "NONE" /\ req'[q].key = req'[p].key
                  /\ req'[q].booking = req'[p].booking => p = q
  <2>1. Start(p)
    BY <1>4, OnlyStartBegins
  <2>2. req[p].key \in Keys /\ keyRow[req[p].key] = Free /\ req[p].mayStart
    <3>1. pc[p] = "start"
      BY <2>1 DEF Start
    <3>2. req[p].key \in Keys /\ keyClaim[req[p].key] = p /\ req[p].mayStart
      BY <1>1, <3>1 DEF KeyInv, ClaimInv, SentRequests
    <3> QED
      BY <3>2, PaymentsAssumption DEF KeyInv, RowInv
  <2>3. /\ UNCHANGED req /\ payBooking' = [payBooking EXCEPT ![p] = req[p].booking]
        /\ keyRow' = [keyRow EXCEPT ![req[p].key] = InProgress(Fingerprint(p), p)]
        /\ payStatus' = [payStatus EXCEPT ![p] = "PROCESSING"]
    BY <1>4, <2>1 DEF Start, Finish, paymentVars
  <2>4. payBooking'[p] = req'[p].booking /\ KeyHeld(p)'
    BY <1>1, <2>2, <2>3 DEF KeyHeld, InProgress, Free
  <2>5. ASSUME NEW q \in Requests, q # p, payStatus[q] # "NONE", req[q].key = req[p].key,
               req[q].booking = req[p].booking
        PROVE  FALSE
    <3>1. NoEarlyClock(req[p].booking)
      BY <2>2, <2>5 DEF StartInv
    <3> QED
      BY <2>1, <2>2, <3>1 DEF NoEarlyClock, Start
  <2>6. \A q \in Requests : q # p => payStatus'[q] = payStatus[q]
    BY <2>3, <1>1 DEF TypeInv, Ledger!TypeOK
  <2> QED
    BY <2>3, <2>4, <2>5, <2>6
<1>5. ASSUME NEW p \in Requests, NEW q \in Requests, payStatus'[p] # "NONE", payStatus'[q] # "NONE",
             req'[p].key = req'[q].key, req'[p].booking = req'[q].booking
      PROVE  p = q
  <2>1. CASE payStatus[p] # "NONE" /\ payStatus[q] # "NONE"
    BY <1>1, <1>5, <2>1 DEF StartInv
  <2> QED
    BY <1>4, <1>5, <2>1
<1> QED
  BY <1>3, <1>4, <1>5 DEF StartInv, KeyHeld

-------------------------------------------------------------------------------
(* What clients were told *)

\* A new answer comes from the request's own steps.
LEMMA OnlyOwnStepsAnswer ==
  ASSUME DOMAIN told = Requests, [Next]_vars, NEW r \in Requests, told'[r] # told[r]
  PROVE  Claim(r) \/ Repeated(r) \/ Start(r) \/ ChargeUnknown(r) \/ Settle(r) \/ Crash(r)
<1> USE DEF actorVars
<1>1. \A w \in Workers : w # r
  BY PaymentsAssumption
<1>2. ASSUME NEW x, NEW answer, Finish(x, answer), x # r PROVE FALSE
  BY <1>2 DEF Finish
<1>3. ASSUME NEW x \in Actors, Claim(x) \/ Repeated(x) \/ Start(x) \/ ChargeUnknown(x) \/ Settle(x) \/ Crash(x)
      PROVE  x = r
  <2>1. UNCHANGED told \/ \E answer : Finish(x, answer)
    BY <1>3 DEF Claim, Repeated, Start, ChargeUnknown, Settle, Crash, SettleDeclined, SettleConfirmed,
       SettleNotPayable, SettleLost, Threw, Goto
  <2> QED
    BY <1>2, <2>1
<1>4. ASSUME NEW w \in Workers, RetryLater(w) \/ RecordRefund(w) PROVE FALSE
  <2>1. \E answer : Finish(w, answer)
    BY <1>4 DEF RetryLater, RecordRefund, Threw
  <2> QED
    BY <1>1, <1>2, <2>1
<1>5. ASSUME NEW x \in Actors,
             \/ ChargeAnswered(x) \/ Send(x) \/ RefundAnswered(x) \/ RefundRefused(x)
             \/ RefundUnknown(x) \/ \E q \in Requests : ClaimDue(x, q)
      PROVE  FALSE
  BY <1>5 DEF ChargeAnswered, Send, RefundAnswered, RefundRefused, RefundUnknown, RefundCall,
     ClaimDue, Goto
<1>6. ASSUME \/ \E q \in Requests : ComesDue(q)
             \/ \E b \in Bookings : TimePasses(b) \/ Expire(b) \/ Cancel(b)
             \/ \E k \in Keys : DeleteKey(k)
             \/ UNCHANGED vars
      PROVE  FALSE
  BY <1>6 DEF ComesDue, TimePasses, Expire, Cancel, DeleteKey, vars
<1> QED
  BY <1>1, <1>3, <1>4, <1>5, <1>6 DEF Next, RequestStep, WorkerStep, Actors

LEMMA ToldStep ==
  ASSUME TypeInv, ActorInv, KeyInv, ToldInv, [Next]_vars,
         \A p \in Requests : Onward(p), \A r \in Requests : MovesOn(r)
  PROVE  ToldInv'
<1> DEFINE Truth(r) ==
      /\ told[r] \in Refusals => payStatus[r] = "NONE"
      /\ told[r] \in {"declined", "confirmed", "refunded"} =>
           \E p \in Requests : Repeats(r, p) /\ Outcome(p, told[r])
<1>1. /\ DOMAIN told = Requests
      /\ \A p \in Requests : payStatus[p] # "NONE" => req'[p] = req[p]
      /\ \A r \in Requests : pc[r] # "idle" => req[r] \in SentRequests
      /\ \A r \in Requests : pc[r] \in Waiting => payStatus[r] = "NONE"
      /\ \A r \in Requests : pc[r] \in RequestPlaces
      /\ payStatus \in [Requests -> Ledger!PayStatuses]
  BY DEF TypeInv, ActorInv, MovesOn, ToldInv, Waiting, Ledger!TypeOK
<1>2. DOMAIN told' = Requests
  <2>1. ASSUME NEW x, NEW answer, Finish(x, answer) PROVE DOMAIN told' = Requests
    BY <2>1 DEF Finish
  <2>2. UNCHANGED told \/ \E x, answer : Finish(x, answer)
    BY DEF Next, vars, actorVars, RequestStep, WorkerStep, Claim, Repeated, Start, ChargeUnknown, Settle, Crash,
       SettleDeclined, SettleConfirmed, SettleNotPayable, SettleLost, Threw, Goto, RetryLater,
       RecordRefund, ChargeAnswered, Send, RefundAnswered, RefundRefused, RefundUnknown,
       RefundCall, ClaimDue, ComesDue, TimePasses, Expire, Cancel, DeleteKey
  <2> QED
    BY <1>1, <2>1, <2>2
<1>3. ASSUME NEW r \in Requests PROVE pc'[r] \in {"idle", "claim", "start", "charge", "settle"} => told'[r] = "nothing"
  BY <1>1, <1>3 DEF ToldInv, MovesOn, RequestPlaces
<1>4. ASSUME NEW p \in Requests, NEW response, Outcome(p, response)
      PROVE  payStatus[p] # "NONE" => payStatus'[p] # "NONE" /\ Outcome(p, response)'
  BY <1>4 DEF Onward, Outcome
<1>5. ASSUME NEW r \in Requests, NEW p \in Requests, Repeats(r, p), pc[r] # "idle"
      PROVE  Repeats(r, p)'
  BY <1>1, <1>5 DEF Repeats, Fingerprint, MovesOn, Onward
<1>6. ASSUME NEW r \in Requests, told'[r] = told[r] PROVE Truth(r)'
  <2>1. CASE told[r] \in Refusals
    <3>1. payStatus'[r] = "NONE"
      BY <1>1, <2>1, OnlyStartBegins DEF ToldInv, Start, Refusals
    <3> QED
      BY <1>6, <2>1, <3>1 DEF Refusals
  <2>2. CASE told[r] \in {"declined", "confirmed", "refunded"}
    <3>1. PICK p \in Requests : Repeats(r, p) /\ Outcome(p, told[r])
      BY <2>2 DEF ToldInv
    <3>2. pc[r] # "idle"
      BY <2>2 DEF ToldInv
    <3>3. Repeats(r, p)' /\ Outcome(p, told[r])'
      BY <1>4, <1>5, <1>6, <3>1, <3>2 DEF Repeats, Outcome
    <3> QED
      BY <1>6, <2>2, <3>3 DEF Refusals
  <2> QED
    BY <1>6, <2>1, <2>2
<1>7. ASSUME NEW r \in Requests, told'[r] \in Refusals, payStatus'[r] = "NONE" PROVE Truth(r)'
  BY <1>7 DEF Refusals
<1>8. ASSUME NEW r \in Requests, Claim(r), told'[r] # told[r] PROVE Truth(r)'
  <2>1. told'[r] \in {"amount-mismatch", "not-payable"} /\ payStatus'[r] = "NONE"
    BY <1>1, <1>8 DEF Claim, Finish, Goto, paymentVars, Waiting
  <2> QED
    BY <1>7, <2>1 DEF Refusals
<1>9. ASSUME NEW r \in Requests, Repeated(r) PROVE Truth(r)'
  <2>1. PICK row, k : k = req[r].key /\ k \in Keys /\ row = keyRow[k]
    BY <1>1, <1>9 DEF Repeated, SentRequests
  <2>3. pc[r] = "claim" /\ payStatus[r] = "NONE" /\ payStatus'[r] = "NONE"
    BY <1>1, <1>9 DEF Repeated, paymentVars, Waiting
  <2>4. \/ told'[r] \in {"key-reused", "key-in-progress"}
        \/ /\ row.fingerprint = Fingerprint(r) /\ row.state = "COMPLETED"
           /\ told'[r] = row.response
    BY <1>1, <1>9, <2>1 DEF Repeated, Finish
  <2>5. CASE told'[r] \in Refusals
    BY <1>7, <2>3, <2>5
  <2>6. CASE told'[r] \notin Refusals
    <3>1. /\ row.state = "COMPLETED" /\ row.fingerprint = Fingerprint(r) /\ told'[r] = row.response
      BY <2>4, <2>6 DEF Refusals
    <3>2. PICK p : /\ p = row.payment /\ p \in Requests /\ payStatus[p] # "NONE"
                   /\ Owns(p, k) /\ Outcome(p, row.response)
      BY <2>1, <2>6, <3>1 DEF KeyInv, RowInv, Refusals
    <3>3. Repeats(r, p)
      BY <2>1, <3>1, <3>2 DEF Repeats, Owns
    <3>4. Repeats(r, p)' /\ Outcome(p, row.response)'
      BY <1>4, <1>5, <2>3, <3>2, <3>3
    <3>5. Outcome(p, told[r])'
      BY <3>1, <3>4 DEF Outcome
    <3> QED
      BY <2>6, <3>2, <3>4, <3>5
  <2> QED
    BY <2>5, <2>6
<1>10. ASSUME NEW r \in Requests, Start(r), told'[r] # told[r] PROVE Truth(r)'
  <2>1. told'[r] = "payment-in-progress" /\ payStatus'[r] = "NONE"
    BY <1>1, <1>10 DEF Start, Finish, paymentVars, Waiting
  <2> QED
    BY <1>7, <2>1 DEF Refusals
<1>11. ASSUME NEW r \in Requests, ChargeUnknown(r) \/ SettleLost(r) \/ Crash(r) PROVE Truth(r)'
  <2>1. told'[r] \in {"processing", "error"}
    BY <1>1, <1>11 DEF ChargeUnknown, SettleLost, Crash, Threw, Finish
  <2> QED
    BY <2>1 DEF Refusals
<1>12. ASSUME NEW r \in Requests, SettleDeclined(r) \/ SettleConfirmed(r) \/ SettleNotPayable(r)
       PROVE  Truth(r)'
  <2>1. pc[r] = "settle" /\ job[r].payment = r /\ UNCHANGED <<charge, req>>
    BY <1>12 DEF SettleDeclined, SettleConfirmed, SettleNotPayable, ActorInv, Finish,
       Ledger!Declined, Ledger!Confirmed, Ledger!NotPayable, Ledger!provider
  <2>2. \/ told'[r] = "declined" /\ payStatus'[r] = "FAILED"
        \/ told'[r] = "confirmed" /\ payStatus'[r] = "SUCCEEDED" /\ charge[r] = "charged"
        \/ told'[r] = "refunded" /\ payStatus'[r] = "REFUND_PENDING"
    BY <1>1, <1>12, <2>1 DEF SettleDeclined, SettleConfirmed, SettleNotPayable, Finish,
       Ledger!Declined, Ledger!Confirmed, Ledger!NotPayable, Ledger!Move
  <2>3. Repeats(r, r)' /\ Outcome(r, told[r])'
    BY <2>1, <2>2 DEF Repeats, Outcome, Kept, RefundStatuses
  <2> QED
    BY <2>2, <2>3 DEF Refusals
<1>13. ASSUME NEW r \in Requests PROVE Truth(r)'
  BY <1>1, <1>6, <1>8, <1>9, <1>10, <1>11, <1>12, OnlyOwnStepsAnswer DEF Settle
<1> QED
  BY <1>2, <1>3, <1>13 DEF ToldInv

-------------------------------------------------------------------------------
(* The theorems *)

LEMMA PaymentsInductive == PaymentsInv /\ [Next]_vars => PaymentsInv'
<1> SUFFICES ASSUME PaymentsInv, [Next]_vars PROVE PaymentsInv'
  OBVIOUS
<1> USE DEF PaymentsInv
<1>1. [Ledger!Next]_(Ledger!vars)
  BY StepsImplement
<1>2. Ledger!TypeOK /\ Ledger!TypeOK'
  BY <1>1, LedgerTypes DEF TypeInv
<1>3. (\A p \in Requests : Onward(p)) /\ (\A r \in Requests : MovesOn(r))
  BY <1>1, <1>2, PaymentsGoForward, RequestsMoveOn DEF ToldInv
<1>4. TypeInv' /\ MoneyInv'
  BY <1>1, <1>2, TypeStep, MoneyStep
<1>5. ActorInv' /\ KeyInv' /\ StartInv' /\ ToldInv'
  BY <1>1, <1>3, ActorStep, KeyStep, StartStepInv, ToldStep
<1> QED
  BY <1>4, <1>5

LEMMA PaymentsAlways == Spec => []PaymentsInv
BY InitInv, PaymentsInductive, PTL DEF Spec

\* Requests, retries, keys, crashes and the job do no more to bookings, payments and the
\* provider's money than PaymentLedger allows (ImplementsLedger).
THEOREM ActorsImplementLedger == Spec => ImplementsLedger
<1>1. Init => Ledger!Init
  BY DEF Init
<1>2. PaymentsInv /\ [Next]_vars => [Ledger!Next]_(Ledger!vars)
  BY StepsImplement DEF PaymentsInv
<1> QED
  BY <1>1, <1>2, PaymentsAlways, PTL DEF Spec, ImplementsLedger, Ledger!Spec

\* A key in progress is that of a PROCESSING payment, and a completed one stores what
\* became of its payment, whatever is retried, replayed or cleaned up (KeyTracksPayment).
THEOREM KeysTrackPayments == Spec => []KeyTracksPayment
<1>1. PaymentsInv => KeyTracksPayment
  <2> SUFFICES ASSUME PaymentsInv PROVE KeyTracksPayment
    OBVIOUS
  <2>1. ASSUME NEW p \in Requests, payStatus[p] = "PROCESSING" PROVE KeyOf(p) # {}
    <3>1. req[p].key \in Keys
      BY <2>1 DEF PaymentsInv, TypeInv, ActorInv, SentRequests
    <3>2. keyRow[req[p].key].state = "IN_PROGRESS" /\ keyRow[req[p].key].payment = p
      BY <2>1 DEF PaymentsInv, KeyInv, ClaimInv, Owns
    <3> QED
      BY <3>1, <3>2 DEF KeyOf
  <2>2. ASSUME NEW p \in Requests, KeyOf(p) # {} PROVE payStatus[p] = "PROCESSING"
    BY <2>2 DEF KeyOf, PaymentsInv, KeyInv, RowInv
  <2>3. ASSUME NEW k \in Keys, keyRow[k].state = "COMPLETED", keyRow[k].payment # None
        PROVE  Outcome(keyRow[k].payment, keyRow[k].response)
    BY <2>3 DEF PaymentsInv, KeyInv, RowInv
  <2> QED
    BY <2>1, <2>2, <2>3 DEF KeyTracksPayment, Outcome, Kept
<1> QED
  BY <1>1, PaymentsAlways, PTL

\* One key takes the money for a booking once, also when the cleanup job deleted the key
\* in between (OneChargePerKey).
THEOREM OneChargeForAKey == Spec => []OneChargePerKey
<1>1. PaymentsInv => OneChargePerKey
  BY DEF PaymentsInv, MoneyInv, StartInv, OneChargePerKey
<1> QED
  BY <1>1, PaymentsAlways, PTL

\* What a client was told of its payment stays true (AnswersAreTrue).
THEOREM AnswersStayTrue == Spec => []AnswersAreTrue
<1>1. PaymentsInv => AnswersAreTrue
  <2> SUFFICES ASSUME PaymentsInv PROVE AnswersAreTrue
    OBVIOUS
  <2>1. ASSUME NEW r \in Requests, told[r] \in Refusals
        PROVE  payStatus[r] = "NONE" /\ charge[r] = "none"
    BY <2>1 DEF PaymentsInv, ToldInv, MoneyInv
  <2>2. ASSUME NEW r \in Requests, told[r] \in {"declined", "confirmed", "refunded"}
        PROVE  \E p \in {q \in Requests : /\ payStatus[q] # "NONE"
                                          /\ req[q].key = req[r].key
                                          /\ Fingerprint(q) = Fingerprint(r)} : Outcome(p, told[r])
    BY <2>2 DEF PaymentsInv, ToldInv, Repeats
  <2> QED
    BY <2>1, <2>2 DEF AnswersAreTrue, Refusals, Outcome, Kept
<1> QED
  BY <1>1, PaymentsAlways, PTL

-------------------------------------------------------------------------------
(* Refunds are not tried without end *)

\* Workers with a refund call before them, and those of them, or past it, whose failure
\* is recorded at the limit.
Calling(p) == {w \in Workers : pc[w] = "refund" /\ job[w].payment = p}
Last(p) ==
  {w \in Workers : /\ pc[w] \in Refunding /\ job[w].payment = p
                   /\ job[w].attempts >= MaxRefundAttempts}

\* The calls made and under way, while attempts are left and after that.
Tries(p) ==
  /\ payStatus[p] \notin RefundStatuses => tried[p] = 0
  /\ payStatus[p] = "REFUND_PENDING" =>
       /\ attempts[p] < MaxRefundAttempts =>
            tried[p] + Cardinality(Calling(p)) <= attempts[p] /\ Last(p) = {}
       /\ attempts[p] >= MaxRefundAttempts =>
            tried[p] + Cardinality(Calling(p)) <= MaxRefundAttempts - 1 + Cardinality(Last(p)) + crashes
  /\ tried[p] + Cardinality(Calling(p)) <= MaxRefundAttempts + crashes + Cardinality(Workers) - 1

TriesInv == \A p \in Requests : Tries(p)

LEMMA Counts ==
  ASSUME NEW p \in Requests
  PROVE  /\ IsFiniteSet(Workers) /\ Cardinality(Workers) \in Nat
         /\ IsFiniteSet(Calling(p)) /\ Cardinality(Calling(p)) \in Nat
         /\ IsFiniteSet(Last(p)) /\ Cardinality(Last(p)) \in Nat
         /\ Cardinality(Calling(p)) <= Cardinality(Workers)
         /\ Cardinality(Last(p)) <= Cardinality(Workers)
<1>1. IsFiniteSet(Workers)
  BY PaymentsAssumption
<1>2. Calling(p) \subseteq Workers /\ Last(p) \subseteq Workers
  BY DEF Calling, Last
<1> QED
  BY <1>1, <1>2, FS_Subset, FS_CardinalityType

LEMMA TriesStep ==
  ASSUME TypeInv, ActorInv, TriesInv, [Next]_vars, \A p \in Requests : Onward(p) PROVE TriesInv'
<1>1. /\ payStatus \in [Requests -> Ledger!PayStatuses] /\ attempts \in [Requests -> Nat]
      /\ tried \in [Requests -> Nat] /\ crashes \in Nat /\ DOMAIN job = Actors
      /\ pc \in [Actors -> RequestPlaces \cup WorkerPlaces] /\ MaxRefundAttempts \in Nat \ {0}
      /\ \A r \in Requests : r \in Actors /\ r \notin Workers
      /\ Workers \subseteq Actors
  BY PaymentsAssumption DEF TypeInv, Ledger!TypeOK, Actors
\* A payment whose workers and calls stay as they are.
<1>2. ASSUME NEW p \in Requests, Calling(p)' = Calling(p), Last(p)' = Last(p), tried'[p] = tried[p],
             payStatus'[p] = "REFUND_PENDING" => payStatus[p] = "REFUND_PENDING" /\ attempts'[p] = attempts[p],
             crashes' = crashes
      PROVE  Tries(p)'
  BY <1>1, <1>2 DEF TriesInv, Tries, Onward
<1>3. ASSUME NEW p \in Requests, Calling(p)' = Calling(p), Last(p)' = Last(p), tried'[p] = tried[p],
             payStatus[p] \notin RefundStatuses, payStatus'[p] = "REFUND_PENDING", attempts'[p] = 0,
             crashes' = crashes
      PROVE  Tries(p)'
  <2>1. Calling(p) = {} /\ Last(p) = {}
    BY <1>3, <1>1 DEF Calling, Last, ActorInv, Refunding
  <2> QED
    BY <1>1, <1>3, <2>1, FS_EmptySet, Counts DEF TriesInv, Tries, RefundStatuses
<1>4. ASSUME NEW x, \A w \in Workers \ {x} : pc'[w] = pc[w] /\ job'[w] = job[w],
             x \in Workers => pc[x] \notin Refunding /\ pc'[x] \notin Refunding,
             NEW p \in Requests
      PROVE  Calling(p)' = Calling(p) /\ Last(p)' = Last(p)
  BY <1>4 DEF Calling, Last, Refunding
<1> USE DEF bookingVars, paymentVars, provider, keyVars, actorVars
<1>5. ASSUME NEW r \in Requests, Send(r) \/ Claim(r) \/ Repeated(r) \/ Start(r), NEW p \in Requests
      PROVE  Tries(p)'
  <2>1. \A w \in Workers \ {r} : pc'[w] = pc[w] /\ job'[w] = job[w]
    BY <1>1, <1>5 DEF Send, Claim, Repeated, Start, Goto, Finish
  <2>2. UNCHANGED <<attempts, tried, crashes>> /\ payStatus'[p] \in {payStatus[p], "PROCESSING"}
    BY <1>1, <1>5 DEF Send, Claim, Repeated, Start, Goto, Finish
  <2> QED
    BY <1>1, <1>2, <1>4, <2>1, <2>2
<1>6. ASSUME NEW x \in Actors, ChargeAnswered(x) \/ ChargeUnknown(x) \/ SettleLost(x) \/ RetryLater(x),
             NEW p \in Requests
      PROVE  Tries(p)'
  <2>1. /\ \A w \in Workers \ {x} : pc'[w] = pc[w] /\ job'[w] = job[w]
        /\ pc[x] \notin Refunding /\ pc'[x] \notin Refunding
    BY <1>1, <1>6 DEF ChargeAnswered, ChargeUnknown, SettleLost, RetryLater, Threw, Goto, Finish, Refunding
  <2>2. UNCHANGED <<attempts, tried, crashes, payStatus>>
    BY <1>6 DEF ChargeAnswered, ChargeUnknown, SettleLost, RetryLater, Threw, ProviderDecides
  <2> QED
    BY <1>1, <1>2, <1>4, <2>1, <2>2
<1>7. ASSUME NEW x \in Actors, SettleDeclined(x) \/ SettleConfirmed(x) \/ SettleNotPayable(x),
             NEW p \in Requests
      PROVE  Tries(p)'
  <2>1. /\ \A w \in Workers \ {x} : pc'[w] = pc[w] /\ job'[w] = job[w]
        /\ pc[x] \notin Refunding /\ pc'[x] \notin Refunding
    BY <1>1, <1>7 DEF SettleDeclined, SettleConfirmed, SettleNotPayable, Finish, Refunding
  <2>2. UNCHANGED <<tried, crashes>>
    BY <1>7 DEF SettleDeclined, SettleConfirmed, SettleNotPayable
  <2>3. CASE p # job[x].payment
    BY <1>1, <1>2, <1>4, <1>7, <2>1, <2>2, <2>3 DEF SettleDeclined, SettleConfirmed, SettleNotPayable,
       Ledger!Declined, Ledger!Confirmed, Ledger!NotPayable, Ledger!Move
  <2>4. CASE p = job[x].payment
    <3>1. payStatus[p] \notin RefundStatuses
      BY <1>7, <2>4 DEF SettleDeclined, SettleConfirmed, SettleNotPayable, CanSettle, RefundStatuses
    <3>2. payStatus'[p] # "REFUND_PENDING" \/ attempts'[p] = 0
      BY <1>1, <1>7, <2>4 DEF SettleDeclined, SettleConfirmed, SettleNotPayable,
         Ledger!Declined, Ledger!Confirmed, Ledger!NotPayable, Ledger!Move
    <3> QED
      BY <1>2, <1>3, <1>4, <2>1, <2>2, <3>1, <3>2
  <2> QED
    BY <2>3, <2>4
<1>8. ASSUME NEW w \in Workers, NEW q \in Requests, ClaimDue(w, q), NEW p \in Requests PROVE Tries(p)'
  <2>1. /\ pc[w] = "idle" /\ \A v \in Workers \ {w} : pc'[v] = pc[v] /\ job'[v] = job[v]
        /\ UNCHANGED <<tried, crashes, payStatus>>
        /\ p # q => attempts'[p] = attempts[p]
    BY <1>1, <1>8 DEF ClaimDue
  <2>2. CASE payStatus[q] # "REFUND_PENDING"
    <3>1. UNCHANGED attempts /\ pc'[w] = "charge"
      BY <1>1, <1>8, <2>2 DEF ClaimDue
    <3> QED
      BY <1>2, <1>4, <2>1, <3>1 DEF Refunding
  <2>3. CASE payStatus[q] = "REFUND_PENDING"
    <3>1. /\ pc'[w] = "refund" /\ job'[w].payment = q /\ job'[w].attempts = Counted(attempts[q])
          /\ attempts'[q] = Counted(attempts[q])
      BY <1>1, <1>8, <2>3 DEF ClaimDue
    <3>2. CASE p # q
      <4>1. Calling(p)' = Calling(p) /\ Last(p)' = Last(p)
        BY <2>1, <3>1, <3>2 DEF Calling, Last, Refunding
      <4> QED
        BY <1>2, <2>1, <3>2, <4>1
    <3>3. CASE p = q
      <4>1. Calling(p)' = Calling(p) \cup {w} /\ w \notin Calling(p) /\ w \notin Last(p)
        BY <2>1, <3>1, <3>3 DEF Calling, Last, Refunding
      <4>2. Cardinality(Calling(p)') = Cardinality(Calling(p)) + 1
        BY <4>1, Counts, FS_AddElement
      <4>3. attempts'[p] \in Nat
        BY <1>1, <3>1, <3>3 DEF Counted, BeyondLimit
      <4>4. CASE attempts'[p] < MaxRefundAttempts
        <5>1. Last(p)' = Last(p) /\ attempts'[p] = attempts[p] + 1 /\ attempts[p] < MaxRefundAttempts
          BY <1>1, <2>1, <3>1, <3>3, <4>4 DEF Last, Refunding, Counted, BeyondLimit
        <5>2. Cardinality(Workers) >= 1
          BY Counts, FS_EmptySet
        <5> QED
          BY <1>1, <2>1, <2>3, <3>3, <4>2, <4>4, <5>1, <5>2, Counts DEF TriesInv, Tries, RefundStatuses
      <4>5. CASE attempts'[p] >= MaxRefundAttempts
        <5>1. Last(p)' = Last(p) \cup {w} /\ attempts[p] >= MaxRefundAttempts - 1
          BY <1>1, <2>1, <3>1, <3>3, <4>5 DEF Last, Refunding, Counted, BeyondLimit
        <5>2. Cardinality(Last(p)') = Cardinality(Last(p)) + 1
          BY <4>1, <5>1, Counts, FS_AddElement
        <5>3. Cardinality(Last(p)') <= Cardinality(Workers)
          BY <5>1, <4>1, FS_Subset, Counts DEF Last
        <5>4. tried[p] + Cardinality(Calling(p)) <= MaxRefundAttempts - 1 + Cardinality(Last(p)) + crashes
          BY <1>1, <2>3, <3>3, <5>1, Counts, FS_EmptySet DEF TriesInv, Tries
        <5>5. attempts'[p] \in Nat /\ ~(attempts'[p] < MaxRefundAttempts)
          BY <1>1, <4>5, <4>3
        <5>6. tried'[p] + Cardinality(Calling(p)') <= MaxRefundAttempts - 1 + Cardinality(Last(p)') + crashes'
          BY <1>1, <2>1, <4>2, <5>2, <5>4, Counts
        <5>7. tried'[p] + Cardinality(Calling(p)') <= MaxRefundAttempts + crashes' + Cardinality(Workers) - 1
          BY <1>1, <2>1, <4>2, <5>2, <5>3, <5>4, Counts
        <5> QED
          BY <2>1, <2>3, <3>3, <5>5, <5>6, <5>7 DEF Tries, RefundStatuses
      <4> QED
        BY <1>1, <4>4, <4>5, <4>3
    <3> QED
      BY <3>2, <3>3
  <2> QED
    BY <2>2, <2>3
<1>9. ASSUME NEW w \in Workers, NEW label, RefundCall(w, label), UNCHANGED payStatus,
             \/ label \in Refunding \ {"refund"}
             \/ label = "retry-later" /\ ~(job[w].attempts >= MaxRefundAttempts),
             NEW p \in Requests
      PROVE  Tries(p)'
  <2>1. /\ pc[w] = "refund" /\ pc'[w] = label /\ UNCHANGED <<job, attempts, crashes>>
        /\ \A v \in Workers \ {w} : pc'[v] = pc[v]
        /\ tried' = [tried EXCEPT ![job[w].payment] = IF @ < MaxTried THEN @ + 1 ELSE @]
    BY <1>1, <1>9 DEF RefundCall, Goto
  <2>2. Last(p)' = Last(p)
    BY <1>9, <2>1 DEF Last, Refunding
  <2>3. CASE p # job[w].payment
    <3>1. Calling(p)' = Calling(p)
      BY <2>1, <2>3, <1>9 DEF Calling, Refunding
    <3> QED
      BY <1>1, <1>2, <1>9, <2>1, <2>2, <2>3, <3>1
  <2>4. CASE p = job[w].payment
    <3>1. Calling(p)' = Calling(p) \ {w} /\ w \in Calling(p)
      BY <2>1, <2>4, <1>9 DEF Calling, Refunding
    <3>2. Cardinality(Calling(p)') = Cardinality(Calling(p)) - 1
      BY <3>1, Counts, FS_RemoveElement
    <3>3. tried'[p] \in Nat /\ tried'[p] <= tried[p] + 1
      BY <1>1, <2>1, <2>4, PaymentsAssumption
    <3>4. payStatus[p] \in RefundStatuses
      BY <1>1, <2>1, <2>4 DEF ActorInv, Refunding
    <3> QED
      BY <1>1, <1>9, <2>1, <2>2, <3>2, <3>3, <3>4, Counts DEF TriesInv, Tries
  <2> QED
    BY <2>3, <2>4
<1>10. ASSUME NEW w \in Workers, RefundAnswered(w) \/ RefundRefused(w) \/ RefundUnknown(w), NEW p \in Requests
       PROVE  Tries(p)'
  <2>1. PICK label : /\ RefundCall(w, label)
                     /\ \/ label \in Refunding \ {"refund"}
                        \/ label = "retry-later" /\ ~(job[w].attempts >= MaxRefundAttempts)
    BY <1>10 DEF RefundAnswered, RefundRefused, RefundUnknown, AfterFailure, Refunding
  <2>2. UNCHANGED payStatus
    BY <2>1 DEF RefundCall
  <2> QED
    BY <1>9, <2>1, <2>2
<1>11. ASSUME NEW w \in Workers, RecordRefund(w), NEW p \in Requests PROVE Tries(p)'
  <2>1. UNCHANGED <<tried, crashes>> /\ \A v \in Workers \ {w} : pc'[v] = pc[v] /\ job'[v] = job[v]
    BY <1>1, <1>11 DEF RecordRefund, Threw, Finish
  <2>2. /\ pc[w] \in {"record-refund", "record-failure"} /\ pc'[w] = "idle"
        /\ payStatus'[job[w].payment] # "REFUND_PENDING"
        /\ job[w].payment # p => payStatus'[p] = payStatus[p] /\ attempts'[p] = attempts[p]
        /\ job[w].payment = p => payStatus[p] \in RefundStatuses
    BY <1>1, <1>11 DEF RecordRefund, Threw, Finish, Ledger!Refunded, Ledger!RefundFailed, Ledger!Move,
       ActorInv, Busy, Refunding
  <2>3. Calling(p)' = Calling(p)
    BY <2>1, <2>2 DEF Calling
  <2>4. CASE job[w].payment # p
    <3>1. Last(p)' = Last(p)
      BY <2>1, <2>2, <2>4 DEF Last, Refunding
    <3> QED
      BY <1>2, <2>1, <2>2, <2>3, <2>4, <3>1
  <2>5. CASE job[w].payment = p
    BY <1>1, <2>1, <2>2, <2>3, <2>5 DEF TriesInv, Tries, Onward
  <2> QED
    BY <2>4, <2>5
<1>12. ASSUME NEW x \in Actors, Crash(x), NEW p \in Requests PROVE Tries(p)'
  <2>1. /\ UNCHANGED <<tried, attempts, payStatus>> /\ crashes' = crashes + 1
        /\ \A v \in Workers \ {x} : pc'[v] = pc[v] /\ job'[v] = job[v]
        /\ x \in Workers => pc'[x] = "idle"
    BY <1>1, <1>12 DEF Crash, Finish
  <2>2. Calling(p)' = Calling(p) \ {x} /\ Last(p)' = Last(p) \ {x}
    BY <2>1 DEF Calling, Last, Refunding
  <2>3. /\ Cardinality(Calling(p)') \in Nat /\ Cardinality(Calling(p)') <= Cardinality(Calling(p))
        /\ Cardinality(Last(p)') \in Nat /\ Cardinality(Last(p)') >= Cardinality(Last(p)) - 1
        /\ Last(p) = {} => Last(p)' = {}
    <3>1. Cardinality(Calling(p) \ {x}) \in Nat /\ Cardinality(Calling(p) \ {x}) <= Cardinality(Calling(p))
      BY Counts, FS_Subset, FS_CardinalityType
    <3>2. Cardinality(Last(p) \ {x}) \in Nat /\ Cardinality(Last(p) \ {x}) >= Cardinality(Last(p)) - 1
      <4>1. IsFiniteSet(Last(p) \ {x})
        BY Counts, FS_RemoveElement
      <4>2. Cardinality(Last(p) \ {x}) \in Nat
        BY <4>1, FS_CardinalityType
      <4>3. Cardinality(Last(p) \ {x}) = IF x \in Last(p) THEN Cardinality(Last(p)) - 1 ELSE Cardinality(Last(p))
        BY Counts, FS_RemoveElement
      <4> QED
        BY <4>2, <4>3, Counts
    <3> QED
      BY <2>2, <3>1, <3>2
  <2> QED
    BY <1>1, <2>1, <2>3, Counts DEF TriesInv, Tries
<1>13. ASSUME NEW b \in Bookings, Cancel(b), NEW p \in Requests PROVE Tries(p)'
  <2>1. /\ UNCHANGED <<pc, job, tried, crashes>>
        /\ \/ payStatus'[p] = payStatus[p] /\ attempts'[p] = attempts[p]
           \/ payStatus[p] = "SUCCEEDED" /\ payStatus'[p] = "REFUND_PENDING" /\ attempts'[p] = 0
    BY <1>13 DEF Cancel, Ledger!Cancel, Ledger!PaymentsOf
  <2>2. Calling(p)' = Calling(p) /\ Last(p)' = Last(p)
    BY <2>1 DEF Calling, Last
  <2> QED
    BY <1>2, <1>3, <2>1, <2>2 DEF RefundStatuses
<1>14. ASSUME UNCHANGED <<pc, job, tried, attempts, payStatus, crashes>>, NEW p \in Requests PROVE Tries(p)'
  <2>1. Calling(p)' = Calling(p) /\ Last(p)' = Last(p)
    BY <1>14 DEF Calling, Last
  <2> QED
    BY <1>2, <1>14, <2>1
<1>15. ASSUME \/ \E q \in Requests : ComesDue(q)
              \/ \E b \in Bookings : TimePasses(b) \/ Expire(b)
              \/ \E k \in Keys : DeleteKey(k)
              \/ UNCHANGED vars,
              NEW p \in Requests
       PROVE  Tries(p)'
  BY <1>14, <1>15 DEF ComesDue, TimePasses, Expire, Ledger!Expire, DeleteKey, vars
<1> QED
  BY <1>5, <1>6, <1>7, <1>8, <1>10, <1>11, <1>12, <1>13, <1>15, <1>1
  DEF Next, RequestStep, WorkerStep, Settle, TriesInv

\* However workers lose their leases and processes crash, a refund is called no more than
\* MAX_REFUND_ATTEMPTS times and one for each crash and each further worker
\* (RefundTriesBounded).
THEOREM RefundTriesAreBounded == Spec => []RefundTriesBounded
<1>1. Init => TriesInv
  <2> SUFFICES ASSUME Init, NEW p \in Requests PROVE Tries(p)
    BY DEF TriesInv
  <2>1. \A w \in Workers : pc[w] = "idle"
    BY DEF Init, Actors
  <2>2. Calling(p) = {} /\ Last(p) = {}
    BY <2>1 DEF Calling, Last, Refunding
  <2> QED
    BY <2>2, FS_EmptySet, Counts, PaymentsAssumption DEF Init, Tries, Ledger!Init
<1>2. PaymentsInv /\ TriesInv /\ [Next]_vars => TriesInv'
  BY TriesStep, StepsImplement, PaymentsGoForward DEF PaymentsInv, TypeInv
<1>3. PaymentsInv /\ TriesInv => RefundTriesBounded
  <2> SUFFICES ASSUME PaymentsInv, TriesInv, NEW p \in Requests
               PROVE  tried[p] <= MaxRefundAttempts + crashes + Cardinality(Workers) - 1
    BY DEF RefundTriesBounded
  <2> QED
    BY Counts, PaymentsAssumption DEF TriesInv, Tries, PaymentsInv, TypeInv
<1> QED
  BY <1>1, <1>2, <1>3, PaymentsAlways, PTL DEF Spec
===============================================================================
