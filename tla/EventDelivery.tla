---------------------------- MODULE EventDelivery -----------------------------
(***************************************************************************)
(* Events on their way from a transaction to the notifier: the outbox row  *)
(* written with the business change, the relay job of each API process,    *)
(* the broker's durable queues (one per event type) and the notifier       *)
(* (outbox-relay-job.ts, postgres-outbox-repository.ts,                    *)
(* rabbitmq-publisher.ts, rabbitmq-consumer.ts).                           *)
(*                                                                         *)
(* Messages are model values; a queue is the number of copies of each.     *)
(* A row's createdAt is which rows are `earlier': two transactions never   *)
(* read the clock in the same millisecond, and the processes share one.    *)
(* Delays are left out: a timer may fire at any time.  Every fault (a      *)
(* crash, a lost connection, a failed UPDATE, a shutdown) is taken from    *)
(* `budget`.                                                               *)
(***************************************************************************)
EXTENDS ApiProcess, Sequences, SequencesExt, EventContracts

CONSTANTS
  Msgs,
  ByJob,         \* the messages written by a job, not by a request
  Kinds,         \* the kinds of messages
  TypeOf,        \* the event type of each kind, which names its queue
  PayloadOf,
  BatchSize,     \* the relay's batchSize
  Deployments,   \* [apis, msgs, kindOf, poisoned, budget]: processes, messages and
                 \* their kinds, rows that cannot be published, and faults
  LoseBuffered,  \* whether a lost connection loses what was not yet received
  None

ASSUME EventDeliveryAssumption ==
  /\ {"relay", "sweep"} \subseteq Jobs
  /\ ByJob \subseteq Msgs
  /\ TypeOf \in [Kinds -> EventTypes]
  /\ BatchSize \in Nat \ {0}
  /\ LoseBuffered \in BOOLEAN
  /\ None \notin Apis \cup Msgs
  /\ IsFiniteSet(Msgs)

ASSUME DeploymentsAssumption ==
  /\ \A k \in Kinds : <<TypeOf[k], PayloadOf[k]>> \in WrittenEvents
  /\ \A d \in Deployments :
       /\ d.apis \subseteq Apis /\ IsFiniteSet(d.apis)
       /\ d.budget \in Nat /\ d.kindOf \in [Msgs -> Kinds]

VARIABLES
  deployment, budget,
  tx,        \* the transaction that writes each message
  owner,     \* the process it runs in
  client,    \* whether its client still waits ("here" or "gone")
  earlier,   \* the rows with an earlier createdAt than each
  knew,      \* the messages that were committed when each was stamped
  published, \* rows whose published_at is set
  batch,     \* the rows each relay run has still to send and mark
  sent,      \* the one of them that is sent, and not yet marked
  sends,     \* how often each message was sent
  wire,      \* sent, not yet received by the broker
  queue,     \* copies in the queue
  notifier,  \* "up" or "down"
  handled, dead

txVars == <<tx, owner, client, earlier, knew>>
relayVars == <<published, batch, sent, sends>>
brokerVars == <<wire, queue, notifier, handled, dead>>
vars == <<apiVars, deployment, budget, txVars, relayVars, brokerVars>>

committed == {m \in Msgs : tx[m] = "committed"}
stamped == {m \in Msgs : tx[m] \in {"open", "committed"}}
settled == handled \cup dead
Abstract == INSTANCE Delivery

Init ==
  /\ ApiInit
  /\ deployment \in Deployments
  /\ budget = deployment.budget
  /\ tx = [m \in Msgs |-> "none"]
  /\ owner = [m \in Msgs |-> None]
  /\ client = [m \in Msgs |-> "here"]
  /\ earlier = [m \in Msgs |-> {}]
  /\ knew = [m \in Msgs |-> {}]
  /\ published = {}
  /\ batch = [p \in Apis |-> {}]
  /\ sent = [p \in Apis |-> None]
  /\ sends = [m \in Msgs |-> 0]
  /\ wire = [p \in Apis |-> <<>>]
  /\ queue = [m \in Msgs |-> 0]
  /\ notifier = "up"
  /\ handled = {}
  /\ dead = {}

Fault == budget > 0 /\ budget' = budget - 1

Transacting(p) == {m \in Msgs : owner[m] = p /\ tx[m] \in {"arrived", "open"}}
Connected(p) == {m \in Transacting(p) \ ByJob : client[m] = "here"}

-----------------------------------------------------------------------------
(* The transactions that write events. *)

\* A request reaches its use case, or the sweep takes up its next batch.
Arrive(p, m) ==
  /\ tx[m] = "none"
  /\ m \in deployment.msgs
  /\ \/ m \notin ByJob /\ phase[p] = "serving"
     \/ m \in ByJob /\ job[p]["sweep"] = "running"
  /\ tx' = [tx EXCEPT ![m] = "arrived"]
  /\ owner' = [owner EXCEPT ![m] = p]
  /\ client' = [client EXCEPT ![m] = "here"]
  /\ UNCHANGED <<apiVars, deployment, budget, earlier, knew, relayVars, brokerVars>>

\* In its transaction it reads the clock and enqueues.
Enqueue(p, m) ==
  /\ owner[m] = p
  /\ tx[m] = "arrived"
  /\ phase[p] # "destroying"
  /\ tx' = [tx EXCEPT ![m] = "open"]
  /\ earlier' = [earlier EXCEPT ![m] = stamped]
  /\ knew' = [knew EXCEPT ![m] = committed]
  /\ UNCHANGED <<apiVars, deployment, budget, owner, client, relayVars, brokerVars>>

Commit(m) ==
  /\ tx[m] = "open"
  /\ tx' = [tx EXCEPT ![m] = "committed"]
  /\ owner' = [owner EXCEPT ![m] = None]
  /\ UNCHANGED <<apiVars, deployment, budget, client, earlier, knew, relayVars, brokerVars>>

\* What ms had done is undone; each may be tried again.
RollBackAll(ms) ==
  /\ tx' = [m \in Msgs |-> IF m \in ms THEN "none" ELSE tx[m]]
  /\ owner' = [m \in Msgs |-> IF m \in ms THEN None ELSE owner[m]]
  /\ earlier' = [m \in Msgs |-> IF m \in ms THEN {} ELSE earlier[m] \ ms]
  /\ knew' = [m \in Msgs |-> IF m \in ms THEN {} ELSE knew[m]]

\* The use case fails after it has enqueued.
RollBack(m) ==
  /\ tx[m] = "open"
  /\ Fault
  /\ RollBackAll({m})
  /\ UNCHANGED <<apiVars, deployment, client, relayVars, brokerVars>>

\* The pool has ended before the transaction began.
PoolEnded(p, m) ==
  /\ owner[m] = p
  /\ tx[m] = "arrived"
  /\ phase[p] = "destroying"
  /\ RollBackAll({m})
  /\ UNCHANGED <<apiVars, deployment, budget, client, relayVars, brokerVars>>

\* The client closes its connection; its request runs on.
Disconnect(p, m) ==
  /\ m \in Connected(p)
  /\ Fault
  /\ client' = [client EXCEPT ![m] = "gone"]
  /\ UNCHANGED <<apiVars, deployment, tx, owner, earlier, knew, relayVars, brokerVars>>

-----------------------------------------------------------------------------
(* The scheduler's runs, and the relay's run in particular. *)

\* Mutant of Unpublished: uncommitted rows are read.
UnpublishedDirty == stamped \ published

Unpublished == committed \ published

\* ORDER BY created_at LIMIT batchSize.
FindUnpublished == {m \in Unpublished : Cardinality(earlier[m] \cap Unpublished) < BatchSize}

StartSweep(p) ==
  /\ TimerFires(p, "sweep")
  /\ UNCHANGED <<deployment, budget, txVars, relayVars, brokerVars>>

\* The sweep awaits the transactions it has begun.
EndSweep(p) ==
  /\ job[p]["sweep"] = "running"
  /\ Transacting(p) \cap ByJob = {}
  /\ job' = EndedRun(p, "sweep")
  /\ UNCHANGED <<broker, phase, attempts, session, conns, late>>
  /\ UNCHANGED <<deployment, budget, txVars, relayVars, brokerVars>>

\* findUnpublished, when there is something to send.
StartRelay(p) ==
  /\ TimerFires(p, "relay")
  /\ Unpublished # {}
  /\ batch' = [batch EXCEPT ![p] = FindUnpublished]
  /\ UNCHANGED <<deployment, budget, txVars, published, sent, sends, brokerVars>>

EndRelay(p) ==
  /\ job' = EndedRun(p, "relay")
  /\ batch' = [batch EXCEPT ![p] = {}]
  /\ sent' = [sent EXCEPT ![p] = None]

Publishing(p) == batch[p] # {} /\ sent[p] = None

\* The row it comes to next.
Foremost(p) == {m \in batch[p] : earlier[m] \cap batch[p] = {}}

\* The next publish opens a session of its own.
OpenSession(p) ==
  /\ Publishing(p)
  /\ Reopen(p)
  /\ UNCHANGED <<deployment, budget, txVars, relayVars, brokerVars>>

Publish(p) ==
  /\ Publishing(p)
  /\ session[p] = "live"
  /\ \E m \in Foremost(p) \ deployment.poisoned :
       /\ sent' = [sent EXCEPT ![p] = m]
       /\ sends' = [sends EXCEPT ![m] = @ + 1]
       /\ wire' = [wire EXCEPT ![p] = Append(@, m)]
  /\ UNCHANGED <<apiVars, deployment, budget, txVars, published, batch, queue, notifier, handled, dead>>

\* Mutant of PublishPoisoned: the run goes on with the next row.
PublishPoisonedGoesOn(p) ==
  /\ Publishing(p)
  /\ session[p] = "live"
  /\ Foremost(p) \cap deployment.poisoned # {}
  /\ LoseChannel(p)
  /\ IF batch[p] # Foremost(p)
       THEN batch' = [batch EXCEPT ![p] = @ \ Foremost(p)] /\ UNCHANGED <<job, sent>>
       ELSE EndRelay(p)
  /\ UNCHANGED <<deployment, budget, txVars, published, sends, brokerVars>>

\* The broker refuses the row (its queue was declared otherwise, say) and closes the
\* channel: publish rejects, and the run stops there.
PublishPoisoned(p) ==
  /\ Publishing(p)
  /\ session[p] = "live"
  /\ Foremost(p) \cap deployment.poisoned # {}
  /\ LoseChannel(p)
  /\ EndRelay(p)
  /\ UNCHANGED <<deployment, budget, txVars, published, sends, brokerVars>>

\* The session is lost, or cannot be opened: publish rejects, and the run stops there.
PublishFails(p) ==
  /\ Publishing(p)
  /\ session[p] = "dead" \/ (session[p] = "none" /\ broker = "down")
  /\ EndRelay(p)
  /\ UNCHANGED <<broker, phase, attempts, session, conns, late>>
  /\ UNCHANGED <<deployment, budget, txVars, published, sends, brokerVars>>

\* Mutant of MarkPublished: a row of a batch of one is not marked.
MarkPublishedButLast(p) ==
  /\ sent[p] # None
  /\ IF batch[p] # {sent[p]}
       THEN /\ batch' = [batch EXCEPT ![p] = @ \ {sent[p]}]
            /\ sent' = [sent EXCEPT ![p] = None]
            /\ published' = published \cup {sent[p]}
            /\ UNCHANGED job
       ELSE EndRelay(p) /\ UNCHANGED published
  /\ UNCHANGED <<broker, phase, attempts, session, conns, late>>
  /\ UNCHANGED <<deployment, budget, txVars, sends, brokerVars>>

MarkPublished(p) ==
  /\ sent[p] # None
  /\ published' = published \cup {sent[p]}
  /\ IF batch[p] # {sent[p]}
       THEN /\ batch' = [batch EXCEPT ![p] = @ \ {sent[p]}]
            /\ sent' = [sent EXCEPT ![p] = None]
            /\ UNCHANGED job
       ELSE EndRelay(p)
  /\ UNCHANGED <<broker, phase, attempts, session, conns, late>>
  /\ UNCHANGED <<deployment, budget, txVars, sends, brokerVars>>

\* The UPDATE fails: the row stays, and the run stops there.
MarkFails(p) ==
  /\ sent[p] # None
  /\ Fault
  /\ EndRelay(p)
  /\ UNCHANGED <<broker, phase, attempts, session, conns, late>>
  /\ UNCHANGED <<deployment, txVars, published, sends, brokerVars>>

-----------------------------------------------------------------------------
(* The processes of the API, with what they drop when they end. *)

StartUp(p) ==
  /\ p \in deployment.apis
  /\ Start(p) \/ Connect(p) \/ ConnectFails(p) \/ StartFails(p)
  /\ UNCHANGED <<deployment, budget, txVars, relayVars, brokerVars>>

Events(p) ==
  /\ CloseEvent(p) \/ LateCloseEvent(p)
  /\ UNCHANGED <<deployment, budget, txVars, relayVars, brokerVars>>

Sigterm(p) ==
  /\ Shutdown(p)
  /\ Fault
  /\ UNCHANGED <<deployment, txVars, relayVars, brokerVars>>

\* What a connection has written and the broker not received is lost with it, or not.
Flushed(ps) == LoseBuffered \/ \A p \in ps : wire[p] = <<>>
DropWires(ps) == wire' = [p \in Apis |-> IF p \in ps THEN <<>> ELSE wire[p]]

Stop(p) ==
  /\ StopJobs(p, Connected(p) # {})
  /\ UNCHANGED <<deployment, budget, txVars, relayVars, brokerVars>>

\* Closing the channel waits for the broker, which has received all by then.
Close(p) ==
  /\ ClosePublisher(p)
  /\ wire[p] = <<>>
  /\ UNCHANGED <<deployment, budget, txVars, relayVars, brokerVars>>

\* The end of a process rolls back its transactions and abandons its relay run.
Ends(p) ==
  /\ RollBackAll(Transacting(p))
  /\ batch' = [batch EXCEPT ![p] = {}]
  /\ sent' = [sent EXCEPT ![p] = None]
  /\ Flushed({p})
  /\ DropWires({p})
  /\ UNCHANGED <<deployment, client, published, sends, queue, notifier, handled, dead>>

Exit(p) ==
  /\ ClosePublisherFails(p) \/ DestroyAndExit(p, Transacting(p) # {})
  /\ Ends(p)
  /\ UNCHANGED budget

Crash(p) ==
  /\ phase[p] # "off"
  /\ Fault
  /\ Gone(p)
  /\ Ends(p)

-----------------------------------------------------------------------------
(* The network, the broker and the notifier. *)

Receive(p) ==
  /\ wire[p] # <<>>
  /\ wire' = [wire EXCEPT ![p] = Tail(@)]
  /\ queue' = [queue EXCEPT ![Head(wire[p])] = @ + 1]
  /\ UNCHANGED <<apiVars, deployment, budget, txVars, relayVars, notifier, handled, dead>>

DropConnection(p) ==
  /\ session[p] = "live"
  /\ Fault
  /\ Flushed({p})
  /\ LoseConnections({p})
  /\ DropWires({p})
  /\ UNCHANGED <<broker, phase, attempts, job, late>>
  /\ UNCHANGED <<deployment, txVars, relayVars, queue, notifier, handled, dead>>

\* The queues and their messages are durable; the notifier's process ends with its connection.
BrokerStops ==
  /\ broker = "up"
  /\ Fault
  /\ Flushed(Apis)
  /\ broker' = "down"
  /\ LoseConnections(Apis)
  /\ DropWires(Apis)
  /\ notifier' = "down"
  /\ UNCHANGED <<phase, attempts, job, late, deployment, txVars, relayVars, queue, handled, dead>>

BrokerStarts ==
  /\ broker = "down"
  /\ broker' = "up"
  /\ UNCHANGED <<phase, attempts, job, session, conns, late>>
  /\ UNCHANGED <<deployment, budget, txVars, relayVars, brokerVars>>

NotifierStops ==
  /\ notifier = "up"
  /\ Fault
  /\ notifier' = "down"
  /\ UNCHANGED <<apiVars, deployment, txVars, relayVars, wire, queue, handled, dead>>

\* Compose starts it again, as often as it takes to connect and subscribe.
NotifierStarts ==
  /\ notifier = "down"
  /\ broker = "up"
  /\ notifier' = "up"
  /\ UNCHANGED <<apiVars, deployment, budget, txVars, relayVars, wire, queue, handled, dead>>

\* The kinds the notifier's consumers reject.
Rejected == {k \in Kinds : ~Parses(TypeOf[k], PayloadOf[k])}

Readable(m) == deployment.kindOf[m] \notin Rejected

\* A parsed payload is logged and acknowledged, any other is dead-lettered.
Outcome(m) ==
  IF Readable(m)
    THEN handled' = handled \cup {m} /\ UNCHANGED dead
    ELSE dead' = dead \cup {m} /\ UNCHANGED handled

Consume(m) ==
  /\ notifier = "up"
  /\ queue[m] > 0
  /\ Outcome(m)
  /\ queue' = [queue EXCEPT ![m] = @ - 1]
  /\ UNCHANGED <<apiVars, deployment, budget, txVars, relayVars, wire, notifier>>

\* The connection is lost before the answer arrives: the message is delivered again.
\* A rejected message was not dead-lettered then.
ConsumeUnanswered(m) ==
  /\ notifier = "up"
  /\ queue[m] > 0
  /\ Readable(m)
  /\ Fault
  /\ Outcome(m)
  /\ notifier' = "down"
  /\ UNCHANGED <<apiVars, deployment, txVars, relayVars, wire, queue>>

-----------------------------------------------------------------------------
TxNext ==
  \/ \E p \in Apis, m \in Msgs : Arrive(p, m) \/ Enqueue(p, m) \/ PoolEnded(p, m) \/ Disconnect(p, m)
  \/ \E m \in Msgs : Commit(m) \/ RollBack(m)

RunNext(p) ==
  \/ StartSweep(p) \/ EndSweep(p) \/ StartRelay(p) \/ OpenSession(p) \/ Publish(p)
  \/ PublishPoisoned(p) \/ PublishFails(p) \/ MarkPublished(p) \/ MarkFails(p)

ProcessNext(p) ==
  StartUp(p) \/ Events(p) \/ Sigterm(p) \/ Stop(p) \/ Close(p) \/ Exit(p) \/ Crash(p)

NetworkNext ==
  \/ \E p \in Apis : DropConnection(p) \/ Receive(p)
  \/ \E m \in Msgs : Consume(m) \/ ConsumeUnanswered(m)
  \/ BrokerStops \/ BrokerStarts \/ NotifierStops \/ NotifierStarts

Next == TxNext \/ (\E p \in Apis : RunNext(p) \/ ProcessNext(p)) \/ NetworkNext

Spec == Init /\ [][Next]_vars

\* Compose restarts what has ended, timers fire, and what a process, the broker or the
\* database has begun, it completes; nothing makes requests arrive, or faults occur.
Fairness ==
  /\ WF_vars(BrokerStarts) /\ WF_vars(NotifierStarts)
  /\ \A m \in Msgs : WF_vars(Consume(m)) /\ WF_vars(Commit(m))
  /\ \A p \in Apis :
       /\ WF_vars(StartUp(p)) /\ WF_vars(Events(p)) /\ WF_vars(EndSweep(p))
       /\ WF_vars(StartRelay(p)) /\ WF_vars(OpenSession(p)) /\ WF_vars(Publish(p))
       /\ WF_vars(PublishPoisoned(p) \/ PublishFails(p)) /\ WF_vars(MarkPublished(p))
       /\ WF_vars(Stop(p)) /\ WF_vars(Close(p)) /\ WF_vars(Exit(p)) /\ WF_vars(Receive(p))
       /\ \A m \in Msgs : WF_vars(Enqueue(p, m)) /\ WF_vars(PoolEnded(p, m))

FairSpec == Spec /\ Fairness

-----------------------------------------------------------------------------
(* Properties. *)

\* The outbox is atomic with the business write: what the notifier settles was committed,
\* whatever rolled back, crashed or was sent twice (ADR-001).
SettlesOnlyCommitted == Abstract!Spec

\* The relay reads by createdAt and stops at its first failure, so an event is not sent
\* before one whose transaction had committed when its own read the clock: a booking is
\* never confirmed or cancelled before it was held.
CausesSentFirst == \A m \in Msgs : sends[m] > 0 => \A k \in knew[m] : sends[k] > 0

\* Each API process sends a row once, and once more for each fault between the send and
\* the mark: duplicates are bounded by the processes and the faults.
DuplicatesBounded ==
  \A m \in Msgs :
    sends[m] <= Cardinality(deployment.apis) + (deployment.budget - budget)

\* However late and often close events arrive, the publisher of a process holds at most one
\* connection open: a session is dropped once, and never a newer one in its place.
OneConnection == \A p \in Apis : conns[p] <= 1

\* Shutdown closes nothing under its users: while a job runs or a connected client waits,
\* the publisher and the pool are open, and no run starts once stop() has returned.
\* (The comment on stop(); "stop the job before closing what it depends on".)
NothingClosedInUse ==
  \A p \in Apis :
    phase[p] = "destroying" => (\A j \in Jobs : job[p][j] = "off") /\ Connected(p) = {}

\* Whatever of the system's own events, of this version or an earlier one, is in the outbox
\* or a queue, the notifier can read; but for cancellations written before their contract.
OnlyOldCancellationsDead == \A m \in dead : PayloadOf[deployment.kindOf[m]] = CancelledBeforeContract

\* A committed event is settled in the end, through crashes, lost connections, a broker that
\* was away and shutdowns: unless a row stamped before it cannot be published.
EveryEventSettles ==
  \A m \in Msgs :
    (m \in committed) ~>
      \/ m \in settled
      \/ (earlier[m] \cup {m}) \cap deployment.poisoned \cap committed # {}

\* SIGTERM ends the process: stop() and close() wait for nothing that does not end.
ShutdownCompletes == \A p \in Apis : (phase[p] = "closing") ~> (phase[p] = "off")

\* "no lost events when broker is unavailable" (README, Delivery): while the broker is
\* down, every row marked as published is settled, in its queue or on its way.
NoLostEvents ==
  broker = "down" =>
    \A m \in published :
      m \in settled \/ queue[m] > 0 \/ \E p \in Apis : m \in ToSet(wire[p])
===============================================================================
