# Verification of the flight booking system

TLA+ models of this repository, model-checked with TLC. What the runs check of
bookings, payments, events, flights and layouts is also proved with TLAPS, for any
number of them; so is that migrations keep the bookings and end in rows the present
code can work on, that the interleaved payment actors implement the ledger of payments,
and when the booking transactions implement
the seat inventory. Every module is translated from the source; `PROJECT.json` gives
the file and the lines each definition stands for.

## 1. The system

| Component | Source (under `src/`) | State it keeps | Operations | Modelled |
|---|---|---|---|---|
| Bookings and seat inventory | `api/src/bookings`, `…/postgres-booking-repository.ts` | `bookings`, `booking_passengers`, `flight_seats` rows | hold chosen seats, hold automatic seats, confirm, cancel, expire due holds, change a seat | yes |
| Flight lifecycle | `api/src/flights/flight-lifecycle.ts`, `open-flight.ts`, `on-sale-sql.ts` | `flights.status` | open; `CLOSED` and `DEPARTED` follow from the clock | yes |
| Transactions | `api/src/transactions`, `api/src/postgres/transaction-context.ts` | row locks, the transaction of an async context | run, commit, roll back | partly |
| Payments | `api/src/payments/pay-for-booking.ts`, `settle-payment.ts` | `payments` rows | start, charge, settle (declined, confirmed, not payable), refund because of a cancel | yes |
| Reconciliation job | `api/src/payments/reconcile-payments.ts` | lease and attempts in `payments` | claim, charge or refund, retry, give up | yes |
| Payment gateway | `api/src/payments/simulated-payment-gateway.ts` | the provider's answers by payment id | charge, refund, timeout | partly |
| Idempotency keys | `api/src/idempotency` | `idempotency_keys` rows | claim, release, attach, complete, replay, clean up | yes |
| Outbox and relay | `api/src/outbox` | `outbox` rows | enqueue, read a batch, publish, mark | yes |
| Publisher | `api/src/messaging` | one AMQP session | open, publish, lose, close | yes |
| Job scheduler | `api/src/jobs` | a timer and a run per job | start, run, stop | yes |
| Flight notifier | `services/flight-notifier` | none but the queue | consume, acknowledge, dead-letter | yes |
| Event contracts | `packages/contracts` | none | build and parse payloads | yes |
| Flight creation | `api/src/flights/create-flight.ts`, `…/postgres-flight-repository.ts` | `flights`, `flight_seats`, `flight_fares` | create | yes |
| Flight search, listing, seat map | `api/src/flights` | none but the cursor a client holds | search page by page; list, read | search only |
| Aircraft and seat layout | `api/src/aircraft` | `aircraft`, `seats` | validate, expand and register a layout | yes |
| Airports | `api/src/airports` | `airports` | register | yes |
| HTTP application, start-up, shutdown | `api/src/app.ts`, `api/src/bootstrap/application.ts`, `api/src/index.ts` | the process | start, serve, stop in order | start and stop |
| Database schema | `api/src/postgres/migrations` | every table, the list of applied migrations | 28 migrations, their refusals and repairs | partly |
| Identity | `services/identity` | `users` | register, log in | no |
| Authorization, booking reads, audit, money, health | `api/src/…` | none, or append-only rows | filter, read, record | no |

How they interact. An HTTP request runs one use case, which runs one
transaction (`transactionRunner.run`) or, for a payment, two transactions with a
gateway call between them. The jobs (hold expiry every 60 s, reconciliation
every 30 s, outbox relay every 5 s, key cleanup every hour, and a summary
of flights that only logs) run inside every API process and share the database
with the requests. PostgreSQL runs every
transaction under READ COMMITTED: each statement has its own snapshot, and a
conditional `UPDATE` or a `FOR UPDATE` is re-checked on the latest row after a
lock wait. Events go to the outbox in the same transaction and from there to
RabbitMQ, one durable queue per event type, and to the notifier, which logs
them. Administrators' requests write the airports, aircraft and flights that
the booking requests and the search read. At start-up a process runs the
migrations before it connects to the broker or listens.

What is hard about it:

* **Statement-level races.** A statement finds its rows in a snapshot and locks
  them afterwards; a multi-table statement (one CTE updating bookings and seats)
  re-checks the booking and the seats at different moments.
* **Lock order.** Holds, cancels, the sweep, confirmations and seat changes lock
  bookings and seats; deadlock freedom rests on one global order
  (`docs/product/domain-model.md`, lock-order table).
* **Stale clock readings.** Every operation compares deadlines with an instant
  read before its transaction; a sweep uses one reading for all its batches.
* **A charge outside any transaction.** The gateway may time out after charging,
  the process may die around the call, the hold may end meanwhile, the client
  may repeat the request, and the job may be settling the same payment.
* **Leases.** Two reconciliation workers can hold one payment once its lease is
  over.
* **At-least-once delivery.** A relay may die between sending and marking; two
  processes relay the same rows without locking them; rows are read by a
  timestamp taken before their commit; one failure ends a run.
* **One AMQP session, closed from three sides.** The broker, a failed open and
  the shutdown may each end it, and close events arrive late.
* **Shutdown order.** Jobs must have stopped, and clients been answered, before
  what they use is closed, and yet the process must end.
* **Constraints as arbiters.** Whether two flights of one aircraft collide is
  decided by an exclusion constraint whose waiters can wait for each other.
* **Pages of a changing result.** A search cursor names the last row of its page
  while seats are sold and flights are opened between the pages.
* **Migrations of live data.** Contract steps refuse rows that do not fit, a
  person repairs them, a runner is killed, and two runners overlap.

What makes each component correct is stated in section 4 next to the run that
checks it. `PROJECT.json` "hazards" lists the places in the code where these
things bite.

## 2. The modules

```
FlightRules             status of a flight, on sale
  BookingRules          statuses of a booking, windows, parties
    SeatInventory         one action per booking transaction       <- SeatInventoryProofs
      MCSeatInventory
    BookingTransactions   one action per SQL statement / row lock   -- implements SeatInventory
      MCBookingTransactions                                         <- BookingTransactionsProofs
  FlightCatalogue       what administrators write
    SeatLayout            acceptance and expansion of a layout     <- SeatLayoutProofs
    FlightSearch          pages and cursors over the catalogue     <- FlightCatalogueProofs
      MCFlights                                                       (of both)
PaymentLedger           one action per payment transaction         <- PaymentLedgerProofs
  MCPaymentLedger
Payments                requests, keys, job, crashes               -- implements PaymentLedger
  MCPayments                                                       <- PaymentsProofs
ApiProcess              an API process: phases, jobs, AMQP session
  EventDelivery         outbox to notifier (with EventContracts)   -- implements Delivery
    MCEventDelivery                                                <- EventDeliveryProofs
Delivery                what is settled was committed
SchemaMigrations        migrations in order                        -- ends in SeatInventory's invariants
  MCSchemaMigrations                                               <- SchemaMigrationsProofs
```

**FlightRules** and **BookingRules** have the constants (flights, seats with their
flight and class, departure times, the four durations) and the rules that exist
twice in the code, once in TypeScript and once in SQL: `IsBookable`/`OnSaleSql`,
`EffectiveBookingStatus`, `Cancellable`, `Confirmable`, `DueForExpiry`,
`ClassifyNotCancelled`. A seat is a number, its place in the order
`(flight_id, row, letter)` in which the code locks seats. A party is the list of
passengers' seats by position.

**SeatInventory** is what the booking code promises. Its variables are the
columns of `flights`, `bookings`, `booking_passengers` and `flight_seats` that
the code decides by. Every action is a whole transaction: `HoldChosenSeats`,
`HoldAutoSeats` (both end in `StoreHold`, the insert of the booking and its
passengers), `ConfirmHold`, `Cancel`, `ExpireDueHolds`, `ChangeSeat`,
`OpenFlight`. Each takes the instant `t` it decides by; any `t` up to now is
allowed, because the code reads the clock before it waits for locks. A refused
call changes nothing and is a stuttering step.

**BookingTransactions** refines it to what PostgreSQL executes. `pc[p]` is the
point a transaction has reached, `rows[p]` the seats its current statement still
has to lock, `bookingLock` and `seatLock` the row locks. `…Scan` actions are a
statement's snapshot, `LockSeat` locks one row in the order of the `ORDER BY`,
`…Lock` re-checks a booking after the wait, `…Commit` makes the writes visible
and lets the locks go. `Abort` rolls back at any point. `LockOrSkipSeat` and
`ExpireScan` are `SKIP LOCKED`. Locks that never conflict here are left out:
`FOR SHARE` on flights and fares (two shares do not conflict and the only writer
of a flight is its opening), and the key-share locks of foreign keys.

**PaymentLedger** is what the payment code promises: bookings, `payments` rows
and the provider's money (`charge`, `refunded`), one action per transaction that
changes a payment, per provider decision, and per end of a booking.

**Payments** refines it to the actors: requests in their three phases (`Claim`
and `Start`; `ChargeAnswered`, `ChargeUnknown`; `Settle…`), idempotency keys
(`keyRow`, and `keyClaim` for a row inserted by a transaction that has not
committed), workers of the reconciliation job, crashes, the passage of time and
the key cleanup. Transactions are atomic except phase 1, whose read of the
booking and insert of the payment are two steps, since the read takes no lock.
A request's clock reading is `mayStart`, taken when it is sent. Delays (lease,
backoff, age gate, gateway timeout) may end at any time, which includes every
real setting of the timings.

**FlightCatalogue** is what administrators write. A request is judged
(`RegisterAirport`, `RegisterAircraft`, `ReadReferences`, `ReadToOpen`), then
runs its statements one by one: `InsertFlight` enters the unique index,
`CheckSchedule` the exclusion constraint and copies seats and fares,
`ChangeStatus` is the compare-and-set of an opening, `Commit` writes the audit
entry and the outbox row with the change. An uncommitted rival is waited for
(`waitsFor`), `DeadlockVictim` is PostgreSQL breaking a circle, `Fail` a failed
statement or a dead process. **SeatLayout** is the acceptance of a layout
(`AcceptsLayout`) and its expansion (`ExpandSeatLayout`), as
operators on cabins.

**FlightSearch** adds a client that asks for a search, keeps the cursor and asks
for the next page, or for another search with the same cursor (`FirstPage`,
`NextPage`, `OtherSearch`), between any two steps of the catalogue, while
`TakeSeat`, `GiveSeatBack` and the clock change what a page may show. It models
validation, the local day bounds with their offsets, the statement's filter,
the order by (sort value, departure, id) and the cursor taken from the last row
shown. The i-th row of a page is the one that has i - 1 of the rows after the cursor
before it (`PageRows`, `Rank`), which is how the proofs count them too.

**ApiProcess** is the life of an API process: `phase` from start-up through
`serving`, `closing`, `stopping` and `destroying` to `off`; per job the timer, the run and `stop`; and the
publisher's session with the open connections (`conns`) and the close events
that have not arrived (`late`). **EventDelivery** adds transactions that write
outbox rows, the relay's run (`StartRelay` reads a batch, then `OpenSession`,
`Publish`, `MarkPublished` for each row, and the ways each fails), the wire, the
broker's queues, the notifier, and the faults. A row's `createdAt` is the set of
rows that are `earlier`, which is what the relay's `ORDER BY created_at LIMIT` decides
by (`FindUnpublished`, `Foremost`). **EventContracts** has, for every
event type, the fields its parser requires and the payload shapes the API
builds now and built in earlier releases; a message whose shape the parser
rejects is dead-lettered. **Delivery** is the abstract promise, implemented with
`committed` and `settled` (handled or dead-lettered) as the refinement mapping.

**SchemaMigrations** runs the 28 migrations by name and in order (`Start` reads
what is not recorded, `Step` runs the next one or is refused, `Kill` ends a runner),
with the row changes of the seven that move rows, the conditions on which those
that tighten the schema refuse, and for each refusal the repair its HINT tells a
person to make. When all are recorded the tables are read as
`SeatInventory`'s variables (`Inventory`), so that its invariants say whether
the migrated rows are ones the present code can work on. `Init` is any release there
has been since there are bookings (`Releases`, by the days of the list in `docs`), with
any rows its constraints allow (`RowsFit`, `SchemaKept`) and, since bookings have
passengers, parties seated as that release's code seats them (`PartiesSeated`);
`MCSchemaMigrations` starts from five such releases with rows of its choice, all of
which satisfy `Init`.

## 3. Abstractions

* Prices, references, names, audit and outbox rows do not change which rows are
  locked or written and are left out. What is kept of a price is the class it
  was copied for (`paxClass`).
* Drawing a unique booking reference is a booking id nobody has used. A retry
  after a collision is a new transaction.
* In BookingTransactions a confirmation is the whole transaction; in the code it
  is phase 3 of a payment, which goes on to record the payment while it holds
  the booking's lock. A confirmation that is refused after waiting for the
  booking ends at once in the model; in the code it keeps the booking's row
  locked until the payment is recorded, and locks no seats meanwhile.
* A chosen-seat request asks for distinct seats (the validator refuses others).
* The provider keeps its answers. The simulated one loses them when the process
  restarts, which its comment says a real one would not.
* An amount is whether it agrees with the booking's total, and the fingerprint
  of a request is the pair of things a repeated request may differ in.
* The loop in `claim` that retries when a key is released between its INSERT
  and SELECT is one atomic step: the lookup of the winner.
* Events: a message is a model value, a queue the number of copies of each, the
  wire of a process a sequence. `createdAt` stamps are distinct and all
  processes read one clock. A message written to a lost connection is lost only
  where `LoseBuffered` is TRUE, which is what `MCEventLost` sets; the passing run
  shows what holds besides. Every fault is taken from `budget`. Delays are left
  out, a timer may fire at any time. `CloseEvent` drops the
  session and its connection in one step; in the code `invalidate` begins to close
  the connection, which ends a little later.
* Two jobs run in `EventDelivery`: the relay, and a sweep that stands for every
  job that writes rows. Their handlers are in the other modules.
* Catalogue: airports, aircraft and seats are only ever added, so the reads
  before a transaction stay true and the foreign keys hold. The unique index is
  entered before the exclusion constraint's. Opening a flight updates its row, for
  which PostgreSQL checks the exclusion constraint again and may wait for an
  insert that overlaps it; only the outcome is modelled, which is that the flight
  was there first. Committing an aborted transaction
  rolls it back, as PostgreSQL does. `wellFormed` stands for the checks of each
  field by itself; every check that relates fields is modelled.
* `TakeSeat` and `GiveSeatBack` stand for the holds and their ends, which
  `BookingTransactions` has in full; a search only counts seats. A `CANCELLED`
  flight has no operation in the code and is only an initial state.
* Times of a search are ticks; a town's offset from UTC is a function of time,
  so that a day may be shorter or longer than another.
* Migrations: a migration is one step, since its DDL locks the tables until it
  commits. A place has the same class on every aircraft, and dropped columns keep
  their value unread. Every release has run to its last migration; a database
  stopped between two migrations of one release is reached from the release before.
  What a person repairs is exactly what the refusal lists. A release that had seat
  changes is taken to have left passengers and seats that match; a seat left to a
  cancelled booking (section 7) is in no initial state.

## 4. Runs

All configurations say `CHECK_DEADLOCK FALSE`: clocks, faults and requests are
bounded, so the system really comes to rest. `NoLockCycle` takes the place of
TLC's deadlock check for row-lock waits, `AdminRequestsEnd`, `ShutdownCompletes`
and `MigrationsComplete` for the others.

| Run | Question | Properties |
|---|---|---|
| `MCSeatInventory` | Do bookings, passengers and seats agree whatever the order of operations, on clock readings of any age? | `TypeOK`, `SeatsMatchBookings`, `PartySeatedApart`, `HoldEndsBeforeDeparture`, `HeldPartyFixed` |
| `MCHolds` | Competing holds; the ends of a hold (payment, cancel, sweep) racing each other and new holds; seat changes racing each other, a cancel and new holds; payments, cancels and changes in any mix around a hold's deadline. Is every commit one inventory operation but for a late cancel, and does only a late cancel throw? | `NoLockCycle`, `StepsImplementInventory`, `ThrowsOnlyIfPaidAfterLapse` |
| `MCSweep` | Does everything end under fair scheduling? | `RequestsEnd`, `LapsedHoldsSwept` |
| `MCCancelSnapshot` | Violation: a cancelled booking keeps a seat (section 7). | `CancelledBookingOwnsNoSeat` |
| `MCPaymentLedger` | Are the payment promises consistent with each other? | `TypeOK`, `ConfirmedIffPaid`, `MoneyAccountedFor` |
| `MCPayments` | Requests, keys, job, late workers and a crash: do they keep the ledger, charge a key once, and answer truthfully? | `KeyTracksPayment`, `OneChargePerKey`, `RefundTriesBounded`, `AnswersAreTrue`, `ImplementsLedger` |
| `MCPaymentsFinish` | Is every payment settled and every request answered? | `PaymentsFinish`, `RequestsAnswered` |
| `MCTwoKeys` | Violation: two keys charge a paid booking (section 7). | `PaidBookingNotChargedAgain` |
| `MCEventDelivery` | Do a booking's events reach the notifier, in causal order and not before they are committed, through crashes, lost connections, restarts and shutdown? | `CausesSentFirst`, `DuplicatesBounded`, `OneConnection`, `NothingClosedInUse`, `OnlyOldCancellationsDead`, `SettlesOnlyCommitted`, `EveryEventSettles`, `ShutdownCompletes` |
| `MCEventLost` | Violation: a published event is lost with the connection (section 7). | `NoLostEvents` |
| `MCFlights` | Administrators racing for one code, one aircraft, one flight; a client walking through a search meanwhile. | `AircraftNotDoubleBooked`, `FlightsMatchTheirAircraft`, `RecordsMatchAnswers`, `SomeRacerWins`, `AcceptedLayoutsFit`, `SearchAgreesWithRules`, `WalkListsEachOnce`, `WalkKeepsItsSearch`, `AdminRequestsEnd` |
| `MCSchemaMigrations` | Do databases of earlier releases end as ones the present code can work on, whoever is killed or overlaps? | `MigratedDataFits`, `BookingsCarriedOver`, `MigrationsComplete` |

### Bounds, and why they are enough

* `MCSeatInventory`: two flights, one of them with two classes, four seats, two
  bookings, parties of one or two. Two flights let a seat be taken on the wrong
  one, two classes let a change leave the priced one, and two bookings compete
  for every seat. `hold 1 < cutoff 2 < window 3` keeps the order of the real
  durations (15 minutes, 1 hour, 24 hours) and time goes past departure.
* `MCHolds` has four starts. From an empty flight still to open: two requests,
  each a hold of chosen or automatic seats, a payment or a cancel. From a booking
  holding both economy seats: three such requests and the job, so that two of them
  can fight over its end while a third wants its seats. From a
  confirmed booking of one passenger in seat 2, so that a change to seat 1 locks
  against the order of "mine first": three requests that hold, cancel or change.
  From a held booking of one passenger: the job and three requests, each a payment, a
  cancel or a change, because a late cancel takes a payment with an older reading, and
  one that leaves a seat behind a change after it. Requests that do not belong to the
  start are done, so the three kinds of request are permuted together.
  Three transactions are enough for a circular wait among holds, an end and a
  sweep, and the row locks of a seat are always between two. `BatchSize` 1 makes
  a full batch, hence a second one.
* `MCHolds` and `MCCancelSnapshot` have a hold of 1 and a cancellation window of 3
  before a flight that departs at 5: as with the real durations (15 minutes, 24
  hours, flights sold months ahead), a booking can still be cancelled if it is paid
  when its hold is over by another request's clock. Both ends of the late cancel of
  section 7, the seat left behind and the throw, are therefore reached in `MCHolds`.
  `MCSweep` has the other case, a flight sold within its last day: it departs at 4,
  so its window closes as the hold ends. Here no cancel is late; the theorems on the
  transactions are about both cases.
* `MCSweep`: one passenger, two requests and the job; the liveness graph is what
  limits it.
* `MCPayments`: one booking, two requests with one key or two, a worker and one
  crash; or one request and two workers. Two requests are what a tab, a retry
  or a second key amount to, and two workers what an expired lease amounts to.
  A request with a wrong amount stands for any different request with a used
  key. `MaxRefundAttempts` 2 has a try that is repeated and one that is the
  last. `MaxTried` only bounds a counter; it is above what `RefundTriesBounded`
  allows.
* `MCPaymentLedger`: two bookings and three payments, so that one booking can
  have two payments, one of them over.
* `MCEventDelivery`: ten deployments. One process with one event and two faults,
  with two and one fault, with three (held, cancelled, and expired by the job)
  and none; a row that cannot be published ahead of one that can; two processes
  with two events, or with one and a fault; and the remaining payload shapes. A
  duplicate needs one fault or a second process, a late close event one lost
  channel and a session reopened in the meantime, and an inversion of two events
  two transactions. `BatchSize` 2 makes the third event wait for
  another run, `MaxAttempts` 2 makes the start-up retry once and give up.
* `MCFlights`: three requests for flights of one aircraft of which the second
  collides with both others, so that the loser may be refused by a flight that
  is then rolled back, and two may wait for each other; three requests for one
  code; every layout of up to two cabins from a set with overlapping rows,
  reversed rows, repeated letters and repeated classes; three openings of one
  flight; and a search over four flights with pages of one or two while one is
  opened, seats are sold and clocks are put forward in one town and back in the
  other.
* `MCSchemaMigrations`: databases as five earlier releases left them (bookings without
  an owner, flights named by text, seats without passengers, passengers without prices,
  payments without reconciliation), with two flights at one time (which need two
  aircraft), three bookings, parties of up to two, airports written in two spellings,
  two runners and one kill.

Symmetry is declared on requests, workers and keys in the safety runs only.

### Fairness

* The sweeper's steps in `BookingTransactions`: `setTimeout` starts the job again
  after every run, whether it failed or not, so its steps are weakly fair. Time
  passes (`WF` of `Tick`).
* A request's transaction (`SF` of `Step`): PostgreSQL queues the waiters of a
  row, so one for which the row becomes free again and again gets it. Weak
  fairness would let the model starve a waiter that the queue does not.
* `LapsedHoldsSwept` assumes that the job does not keep failing; no fairness can
  promise a database that works. Requests are under no obligation to be sent.
* `Payments!Fairness`: steps of a process that has not crashed are weakly fair;
  delays end; the job takes the oldest due payment first and so reaches every
  due one (`SF` of `ClaimDue`, as other payments may be taken in between); and
  the gateway does not time out on every charge of a payment for ever (`SF` of
  `ChargeAnswered` by a worker). Without that last one a payment may stay
  `PROCESSING` for ever, and the code means it to: it warns and tries again.
  No fairness is asked of refunds: their tries are counted.
* `EventDelivery!Fairness`: Compose restarts the API, the broker and the notifier
  (`restart: unless-stopped`), timers fire, and what a process, the broker or the
  database has begun it completes. No request need arrive, no fault need occur,
  and no transaction need commit rather than roll back before it has.
* `FlightCatalogue!CatalogueFairness`: a request that can go on does.
* `SchemaMigrations!Fairness`: the container is started again whenever it ends
  (`docker-compose.yml:31`), a runner goes on, and somebody makes the repairs a
  refusal asks for.

## 5. Proofs

Eight modules hold proofs: `SeatInventoryProofs`, `BookingTransactionsProofs`,
`PaymentLedgerProofs`, `PaymentsProofs`, `EventDeliveryProofs`, `SeatLayoutProofs`,
`FlightCatalogueProofs` and `SchemaMigrationsProofs`. They prove for every value of the constants (any finite or
infinite set of flights, bookings, payments, requests, any party size, any durations,
any faults) what the runs check on small ones. The only assumptions are the named
`ASSUME`s of the modules:

* seats are natural numbers and finitely many where their locks are concerned,
  departures are naturals, the durations and limits are naturals (some positive),
  and the values that stand for "none" are not among the things they are none of;
* there is at least one flight and one booking, a request's kinds are kinds, and the
  reconciliation job's workers are finitely many;
* a deployment has finitely many processes and a number of faults, the two jobs of
  the model exist, and every event has a shape some release has written
  (`WrittenEvents`);
* the tables from which the requests for flights start are such as earlier requests
  may have left (`CanStartFrom`): layouts that were accepted, flights of one
  aircraft that do not overlap, seats and fares as their aircraft has them, ids and
  fares that are natural numbers;
* the clocks of the places searched are known at the instants flights leave
  (`SearchAssumption`);
* places have two digits, an aircraft has places on board, a booking may have a
  passenger, and no booking, place or flight status is the value of an empty column.

Two theorems have hypotheses of their own besides, which the table shows.

| Theorem | Statement |
|---|---|
| `SeatInventoryProofs!TypeCorrect` | `Spec => []TypeOK` |
| `SeatInventoryProofs!InventoryAgrees` | `Spec => []SeatsMatchBookings` |
| `SeatInventoryProofs!PartiesKeepTheirSeats` | `Spec => [](PartySeatedApart /\ PricedClassKept)` |
| `SeatInventoryProofs!HoldsEndBeforeDeparture` | `Spec => []HoldEndsBeforeDeparture` |
| `SeatInventoryProofs!HeldPartiesStay` | `Spec => HeldPartyFixed` |
| `BookingTransactionsProofs!NoLocksInCircle` | `Spec => []NoLockCycle` |
| `BookingTransactionsProofs!OnlyLateCancelsDiffer` | `Spec => StepsImplementInventory` |
| `BookingTransactionsProofs!OnlyLateCancelsThrow` | `Spec => ThrowsOnlyIfPaidAfterLapse` |
| `PaymentLedgerProofs!TypeCorrect` | `Spec => []TypeOK` |
| `PaymentLedgerProofs!ConfirmedBookingsArePaid` | `Spec => []ConfirmedIffPaid` |
| `PaymentLedgerProofs!MoneyIsAccountedFor` | `Spec => []MoneyAccountedFor` |
| `PaymentLedgerProofs!OneChargeUnderWay` | `Spec => []OneProcessingPerBooking` |
| `PaymentsProofs!ActorsImplementLedger` | `Spec => ImplementsLedger` (`PaymentLedger!Spec`) |
| `PaymentsProofs!KeysTrackPayments` | `Spec => []KeyTracksPayment` |
| `PaymentsProofs!OneChargeForAKey` | `Spec => []OneChargePerKey` |
| `PaymentsProofs!AnswersStayTrue` | `Spec => []AnswersAreTrue` |
| `PaymentsProofs!RefundTriesAreBounded` | `Spec => []RefundTriesBounded` |
| `EventDeliveryProofs!OutboxDelivers` | `Spec => SettlesOnlyCommitted` (`Delivery!Spec`) |
| `EventDeliveryProofs!CausesAreSentFirst` | `Spec => []CausesSentFirst` |
| `EventDeliveryProofs!OneConnectionEach` | `Spec => []OneConnection` |
| `EventDeliveryProofs!NoneIsCutOff` | `Spec => []NothingClosedInUse` |
| `EventDeliveryProofs!OnlyOldOnesAreRefused` | `Spec => []OnlyOldCancellationsDead` |
| `EventDeliveryProofs!DuplicatesStayBounded` | `Spec => []DuplicatesBounded` |
| `SeatLayoutProofs!AcceptedLayoutFits` | `AcceptsLayout(cabins)` implies `LayoutFits(cabins)`, for any `cabins \in Seq(Cabins)` |
| `FlightCatalogueProofs!AircraftFlyOnce` | `Spec => []AircraftNotDoubleBooked` |
| `FlightCatalogueProofs!AnswersAreRecorded` | `Spec => []RecordsMatchAnswers` |
| `FlightCatalogueProofs!ARacerWins` | `Spec => []SomeRacerWins` |
| `FlightCatalogueProofs!FlightsKeepTheirLayout` | `Spec => []FlightsMatchTheirAircraft` |
| `FlightCatalogueProofs!LayoutsFitTheTables` | `Spec => []AcceptedLayoutsFit` |
| `FlightCatalogueProofs!WalksKeepTheirSearch` | `Spec => WalkKeepsItsSearch` |
| `FlightCatalogueProofs!WalksListEachOnce` | `Spec => WalkListsEachOnce` |
| `FlightCatalogueProofs!SearchFindsTheBookable` | `ClocksKeepMidnight` implies `Spec => []SearchAgreesWithRules` |
| `SchemaMigrationsProofs!BookingsKeepTheirFlights` | `Spec => []BookingsCarriedOver` |
| `SchemaMigrationsProofs!MigratedRowsFit` | `Spec => []MigratedDataFits` |

*Seats.* `SeatsMatchBookings` is not inductive alone. A seat change writes the
seat the display copy names, so the copy must name a seat the booking owns
(`SeatsMatchBookings`) and no other passenger's (`PartySeatedApart`); that the
new seat is of the priced class needs `PricedClassKept` of the old one. The
invariant proved, `InventoryInv`, is the conjunction of these with `TypeOK`; there
is one lemma per kind of step (a hold, an end of bookings, a confirmation, a
change), and the theorems follow from it. `HoldEndsBeforeDeparture` is inductive with
`TypeOK`, since only a hold sets a deadline and it does so while the flight is on
sale; `HeldPartyFixed` is a property of steps, in each of which `InventoryInv` leaves
only the ends of a booking to take its seats.

*Money.* `ConfirmedIffPaid` needs to know that a second success is impossible,
which follows because a success makes the booking `CONFIRMED` and only a `HELD`
one can be confirmed. `MoneyAccountedFor` relates a row to what the provider did,
and each transaction moves the row only on the answer it needs.
`OneProcessingPerBooking` rests on the arbiter index of `start`. Each of the three
is inductive together with `TypeOK`, because a transaction changes both rows it
relates at once; that the real, interleaved actors keep to these transactions is
`ActorsImplementLedger`, so what is proved of the ledger holds of `Payments`.

*The actors.* A step of an actor is a transaction of the ledger only if the actor is
right about its payment when it acts: what a worker claimed is recorded, what it is
about to refund is still to be refunded (`ActorInv`), and nothing was charged before
its row existed (`MoneyInv`). `PaymentsInv` adds what the keys know. A row `IN_PROGRESS`
names a payment in `PROCESSING` and the other way round, and a completed one keeps an
outcome that can no longer change (`KeyInv`); a payment keeps its key until its booking
has lapsed and no request with an older clock reading is left (`StartInv`), which is
why deleting the key lets nobody charge again; and who was told of a payment repeats
its request (`ToldInv`). `RefundTriesBounded` counts: while attempts are left, the calls
made and under way are no more than the attempts recorded; past the limit each further
one is owed to a crash or to a worker that had claimed the payment before.

*Row locks.* In `NoLocksInCircle` the order of locks is the argument: a transaction takes
seats last and upwards, and waits for a booking while it has no lock at all or, a
cancel, that very one (`TxInv`). In a set of transactions that wait for each other,
who waits for a booking waits for one that waits for a seat, and the holder of that
seat can only wait for a later one; but of finitely many seats one is the last.

*The booking transactions.* A commit is one operation of `SeatInventory` if what the
statements found is still so when the last lock is taken. `ViewInv` says for each kind
of transaction what it may rely on meanwhile: a hold, that its seats are on its flight
and that was on sale; a payment, that the seats the booking still holds are among those
its statement found; the sweep, that what it locked is due; a seat change, that the
booking has the seat it is to give back. A step of one transaction touches only
bookings it has locked, or the one it creates (`Touched`), and that is all the others
need to keep their views (`OthersView`). One view cannot be kept: a cancel whose first
statement matched nothing has not locked its booking when it looks for the seats, and
the booking may be paid and moved to another seat before it does. What can be kept
(`CancelView`) is that this takes a hold lapsed at the cancel's reading (`Lapsed`). If
the cancel finds such a booking cancellable once it has its lock, the booking is
`CONFIRMED`: it was paid late. So `OnlyLateCancelsDiffer` says that every step which changes the tables is
a step of `SeatInventory`, or a cancel of a booking paid after the cancel's reading
found the hold over, which may leave seats of that booking as they are (`CancelsLate`).
That second case is not one the proof was too weak for: `MCCancelSnapshot` reaches it.
`OnlyLateCancelsThrow` rests on the same view: when a cancel looks for the reason, its
statements had matched nothing, so unless the hold was over by its clock the booking is
still one it may not cancel, and a reason is found. That no seat change throws needs that passengers of an active
booking have the seats it owns (`SeatedInv`), which a late cancel does not disturb, as
the booking it leaves a seat to is no longer active.

*Events.* `OutboxDelivers` is a refinement: `OnlyCommittedInv` says that whatever has
left its row, on whichever stage of its way (a relay's batch, sent, on the wire,
queued, settled), is a committed message, hence each step is one of `Delivery` or
changes neither of its variables. `CausesAreSentFirst` needs that `earlier` is a
transitive order on the rows that are there, and holds all that a row's transaction
knew of (`OrderInv`); hence that a batch contains, with each of its rows, those it
knew of which are not published yet (`CausesInv`, by `BatchHasEarlierRows` on the
`LIMIT`), so the foremost row of a batch has no cause left to send. `OneConnectionEach`
relates the publisher's session to its connection, and needs that no relay run
survives its process, or it would open a session in one that is starting
(`ConnectionInv`). `NoneIsCutOff` adds that from `stop()` on no client is connected
and no timer is set, and from `close()` on no run is left (`ClosingInv`).
`OnlyOldOnesAreRefused` runs through the payloads of every release and the contract
that reads them. `DuplicatesStayBounded` counts who may still send a row without a
fault: any process until the row is marked, then those that had read it before; a
send takes one of them away, and whatever brings one back is a fault (`SendsInv`).

*Layouts.* `AcceptedLayoutFits` is about sums and concatenations over any number of
cabins, rows and letters. Where such a statement needs induction, the proof takes the
least index at which it would fail and shows that it holds there (`FirstOf`).

*Flights.* That no aircraft flies twice at once is decided between a statement and the
commit it waits for. `CatalogueInv` therefore speaks of what is written and not yet
committed: a written flight overlaps no stored one (`WrittenInv`) and no other written
one (`PairInv`), and who waits does so for a rival that is still under way or done
(`WaitInv`). `ARacerWins` needs that a rival which is still at work wants the aircraft
at the same time as somebody who was refused it (`RaceInv`). `FlightsKeepTheirLayout`
and `LayoutsFitTheTables` have an invariant of their own on seats and fares
(`LayoutInv`), and use `AcceptedLayoutFits` at the commit of an aircraft.

*Search.* That the statement finds what the rules of the code find needs little of the
tables (`SearchInv`: flights are finitely many, seats are of classes that exist, a
flight has a fare for each of its seats' classes) and one thing of the clocks. The
statement compares instants with the midnights that begin the first day asked for and
end the last, the rule compares dates; they agree if an instant is before a midnight
exactly when its date is before that day. `ClocksKeepMidnight` says this of the days
asked for. It is true of a day of 23 or 25 hours whose clocks change at another time, as
TLC finds of the clocks of `MCFlights`, and false of the few zones that change them at
midnight (the hour before a date is then repeated, or the date has no midnight), which
is why the theorem has it as a hypothesis. `WalksListEachOnce` has none: the order by
(sort value, departure, id) is strict because ids differ, so a page contains each row
by its rank, and whatever follows the last row shown is after the cursor made from it.
`WalkOrderInv` says that what is listed is in order up to the cursor, and that each
flight that matched all the time is listed or after it, however the others change.

*Migrations.* Until the lifecycle migration a booking has the status it had, or the
word a person cancelled it with; after it, what that becomes (`BookingsInv`). That no
booking is translated twice follows from the migration being recorded with its rows.
The seats are owed to `ContractBookingPassengers`, which refuses while a `CONFIRMED`
booking lacks one, and its refusal means something only if the statuses have been
translated before: with two runners and kills that is not the order of the steps alone,
but that whoever still has the second in its list has the first in it too, or finds it
recorded (`OrderInv`). Afterwards no backfill and no repair takes a seat from a booking
(`SeatsStay`) but `ReleaseSeats`, and that only from a `CANCELLED` one.

`MigratedRowsFit` is about all tables, and its conjuncts hold only once the migration that
checks them is recorded; `FitInv` therefore says of each table what holds from which
migration on, and `OrderInv` which others are recorded then. `OrderInv` also says that
while a refusal stands that migration is not recorded and all earlier ones are, so that a
repair comes before everything it could break: seats are given and released while parties
are not reconciled, an aircraft is replaced freely until two flights may not share one,
and after that only by one with more places (`SeatsInv`, but for `moved`). What remains to
be shown is that the three backfills that may run twice do no harm when the second runner
comes late: references and fares conflict with their contract step, and the seat backfill
finds no `active` booking and adds only seats of aircraft given by hand.
`PartiesReconciled` is where the refusal of `ContractBookingPassengers` becomes what the
present code relies on: one passenger, one `BOOKED` seat counted on both sides, hence the
same one. `InventoryReads` then takes the rows to the variables of `SeatInventory`.

`PricedClassKept` and `OneProcessingPerBooking` are in no run of their own: the first
is part of `MigratedDataFits`, the second follows from the index `start` relies on.

Only model-checked:

* Liveness, fairness and `ENABLED`, which the provers do not reach: `RequestsEnd`,
  `LapsedHoldsSwept`, `PaymentsFinish`, `RequestsAnswered`, `EveryEventSettles`,
  `ShutdownCompletes`, `AdminRequestsEnd`, `MigrationsComplete`.
* `SearchAgreesWithRules` on clocks that `ClocksKeepMidnight` excludes is false and
  not checked.

`StepsImplementInventory` says that every step which changes the tables is a step
of `SeatInventory!Next` or `CancelsLate`; without the latter and with
`SeatInventory!Init` it would be `SeatInventory!Spec`. It is written that way
because most steps only take a lock, and TLC then need not enumerate the abstract
actions for them. `SeatInventoryProofs` is about `SeatInventory!Spec`, so what it
proves of seats and bookings holds of the transactions up to the first late cancel
that leaves a seat.

## 6. Not modelled

* **Identity**: a service of its own with one table. A registration is one insert
  under a unique email (the race `FlightCatalogue` has for airport codes), a
  login one read; hashing and signing are library calls.
* **Authorization**: a filter on every statement. A booking out of the caller's
  scope reads as missing and changes nothing.
* **Booking reads, the administrators' list of flights, a flight's details and its
  seat map**: single statements that write nothing.
* **Routing, status codes and the parsing of the environment**: they keep no state.
* **Audit, money, observability, health**: append-only rows written in the modelled
  transactions, integer sums, logging and probes.
* **`down()` migrations**, which nothing runs, and the identity service's two
  migrations.
* **The context that hands a transaction to the repositories** (`AsyncLocalStorage`).
* **The simulated gateway's memory**, which ends with its process.

In the modelled parts: a stored `CANCELLED` flight has no operation in the code
yet, and the timings of `config.ts` are constants of any value.

## 7. What the models found

Shown by a run:

* **A cancelled booking can keep a seat** (`MCCancelSnapshot`). The cancel locks
  the booking in a statement of its own so that the next one sees the seats as
  they are. If the first statement's condition fails, because the hold had
  lapsed at the instant the request read, it locks nothing, and the second
  statement runs all the same. If a payment with an older clock reading confirms
  the booking before that statement's snapshot, and a seat change commits while
  it waits for the booking, the cancel frees the seats of its snapshot and
  leaves the new one `BOOKED` by a `CANCELLED` booking.
* **Two keys can charge a paid booking** (`MCTwoKeys`). Phase 1 reads the booking
  without a lock; the other payment may confirm it before the second one is
  inserted, and there is then no `PROCESSING` row to refuse it. The second
  charge is refunded, as `ConfirmedIffPaid` and `MoneyAccountedFor` show.
* **A published event can be lost** (`MCEventLost`). `publish()` returns when
  `sendToQueue` has buffered the message, on a channel without publisher
  confirms, and the relay marks the row. If the connection is lost before the
  bytes reach the broker, the event is in no row that is still to be sent and in
  no queue. `EveryEventSettles` holds when the connection loses nothing.

Met while modelling:

* **A refused cancel can throw.** If both statements of a cancel match nothing,
  because the hold had lapsed at the instant the request read, the reason is looked
  for in a read of its own (`booking-lifecycle.ts:79`). A payment with an older clock
  reading that commits before that read leaves none: the booking is `CONFIRMED`, its
  window open, and the client gets a 500 by an error meant for a `WHERE` and a
  function that disagree. They do not disagree, and a repeated request cancels the
  booking. `MCHolds` reaches this throw, and `ThrowsOnlyIfPaidAfterLapse`, checked
  there and proved for all constants, says that nothing but such a payment leads to
  one: not a boundary, not a display copy that is wrong.
* **A refund may be tried more than five times.** The limit is compared after the
  call. `RefundTriesBounded` states what holds: one more call for each crash and
  for each further worker.
* **Each migration is a transaction of its own** (`migrationsTransactionMode:
  "each"`), while the comment in `RequireBookingOwner` says that its refusal also
  rolls back the expand step before it. After a refusal the expand step and the
  backfill stay recorded, so that a backfill is not run again by itself: for
  `ContractFlightReferences` the references have to be set by hand once the
  airports are registered, and by the seed command, since the API whose endpoint
  its HINT names does not start until then.
* **Not every refusal has a HINT.** `CHECK`s and the exclusion constraint over old
  rows (two spellings of one airport, two flights of one aircraft at a time) fail
  with PostgreSQL's own message. The HINT to give a flight a bigger aircraft
  copies no seats: the new places have to be inserted too. The HINT of
  `AddPaymentReconciliation` changes a payment and leaves its booking as it is.
* **Two migration runners may leave a seat class without a fare.** A second runner
  with an old list may repeat the seat backfill after the fares have been
  checked; if a person has moved a flight to a bigger aircraft in between, it
  gains seats of a class it has no fare for. The README warns against two
  runners (`src/README.md:697`); `MigratedDataFits` leaves such flights out of its
  clause on fares, and `Init` allows for them in a release that was reached that way.
* **Bookings older than payments** are `CONFIRMED` without one, so `ConfirmedIffPaid`
  is about bookings made since.

The cancelled booking that keeps a seat and the cancel that throws are two ends of one
late cancel: the payment commits before the cancel's second statement starts, or after
it. Both need clock readings of different requests in an order opposite to their
statements (the hold has lapsed at the cancel's reading, not at the payment's), and a booking that may be cancelled when it has
just been paid, as on any flight more than 24 hours away. It is a matter of
milliseconds: the payment's last transaction reads the clock before the deadline and
commits after it, and the cancel falls in between.

## 8. Plan

1. Composition: bookings and payments in one model, phase 3 as one transaction.
2. Identity's registration, and the timings `config.ts` accepts.

## 9. Checking it

```
tlc -workers 2 -config MCHolds.cfg MCBookingTransactions
tlc -workers 2 -config MCEventLost.cfg MCEventDelivery
for m in SeatInventory BookingTransactions PaymentLedger Payments EventDelivery \
         SeatLayout FlightCatalogue SchemaMigrations; do tlapm ${m}Proofs.tla; done
```

With two workers the longest runs are `MCPayments` and `MCPaymentsFinish` (about
200 s each), `MCHolds` (about 140 s), `MCFlights` (about 140 s), `MCEventDelivery` (about 100 s) and
`MCSchemaMigrations` (about 80 s); the others take a minute or less.
