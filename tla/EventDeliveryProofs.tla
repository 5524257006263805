-------------------------- MODULE EventDeliveryProofs --------------------------
(***************************************************************************)
(* Proofs about EventDelivery, for every number of processes, messages,    *)
(* kinds and faults, and every size of a batch.                            *)
(***************************************************************************)
EXTENDS EventDelivery, FiniteSetTheorems, TLAPS

-------------------------------------------------------------------------------
(* The rows and the messages *)

TypeInv ==
  /\ tx \in [Msgs -> {"none", "arrived", "open", "committed"}]
  /\ earlier \in [Msgs -> SUBSET Msgs]
  /\ knew \in [Msgs -> SUBSET Msgs]
  /\ published \in SUBSET Msgs
  /\ batch \in [Apis -> SUBSET Msgs]
  /\ sent \in [Apis -> Msgs \cup {None}]
  /\ sends \in [Msgs -> Nat]
  /\ wire \in [Apis -> Seq(Msgs)]
  /\ queue \in [Msgs -> Nat]
  /\ handled \in SUBSET Msgs
  /\ dead \in SUBSET Msgs

LEMMA InitTypeInv == Init => TypeInv
  BY EventDeliveryAssumption DEF Init, TypeInv

\* Rolling back leaves the transactions' variables well typed.
LEMMA RollBackTypeInv ==
  ASSUME TypeInv, NEW ms \in SUBSET Msgs, RollBackAll(ms)
  PROVE  /\ tx' \in [Msgs -> {"none", "arrived", "open", "committed"}]
         /\ earlier' \in [Msgs -> SUBSET Msgs]
         /\ knew' \in [Msgs -> SUBSET Msgs]
  BY DEF TypeInv, RollBackAll

LEMMA TxTypeInv == TypeInv /\ TxNext => TypeInv'
  <1> SUFFICES ASSUME TypeInv, TxNext PROVE TypeInv'
    OBVIOUS
  <1> USE DEF relayVars, brokerVars
  <1>1. ASSUME NEW p \in Apis, NEW m \in Msgs, Arrive(p, m) PROVE TypeInv'
    BY <1>1 DEF Arrive, TypeInv
  <1>2. ASSUME NEW p \in Apis, NEW m \in Msgs, Enqueue(p, m) PROVE TypeInv'
    BY <1>2 DEF Enqueue, TypeInv, stamped, committed
  <1>3. ASSUME NEW p \in Apis, NEW m \in Msgs, PoolEnded(p, m) PROVE TypeInv'
    <2>1. {m} \in SUBSET Msgs
      OBVIOUS
    <2> QED
      BY <1>3, <2>1, RollBackTypeInv DEF PoolEnded, TypeInv
  <1>4. ASSUME NEW p \in Apis, NEW m \in Msgs, Disconnect(p, m) PROVE TypeInv'
    BY <1>4 DEF Disconnect, TypeInv
  <1>5. ASSUME NEW m \in Msgs, Commit(m) PROVE TypeInv'
    BY <1>5 DEF Commit, TypeInv
  <1>6. ASSUME NEW m \in Msgs, RollBack(m) PROVE TypeInv'
    <2>1. {m} \in SUBSET Msgs
      OBVIOUS
    <2> QED
      BY <1>6, <2>1, RollBackTypeInv DEF RollBack, TypeInv
  <1> QED
    BY <1>1, <1>2, <1>3, <1>4, <1>5, <1>6 DEF TxNext

LEMMA RunTypeInv ==
  ASSUME TypeInv, NEW p \in Apis, RunNext(p) PROVE TypeInv'
  <1> USE EventDeliveryAssumption DEF TypeInv, txVars, relayVars, brokerVars
  <1>1. CASE StartSweep(p) \/ EndSweep(p) \/ OpenSession(p)
    BY <1>1 DEF StartSweep, EndSweep, OpenSession
  <1>2. CASE StartRelay(p)
    BY <1>2 DEF StartRelay, FindUnpublished, Unpublished, committed
  <1>3. CASE Publish(p)
    <2>1. PICK m \in Foremost(p) :
            /\ sent' = [sent EXCEPT ![p] = m]
            /\ sends' = [sends EXCEPT ![m] = @ + 1]
            /\ wire' = [wire EXCEPT ![p] = Append(@, m)]
      BY <1>3 DEF Publish
    <2>2. m \in Msgs
      BY DEF Foremost
    <2>3. Append(wire[p], m) \in Seq(Msgs)
      BY <2>2
    <2> QED
      BY <1>3, <2>1, <2>2, <2>3 DEF Publish
  <1>4. CASE PublishPoisoned(p) \/ PublishFails(p) \/ MarkFails(p)
    BY <1>4 DEF PublishPoisoned, PublishFails, MarkFails, EndRelay
  <1>5. CASE MarkPublished(p)
    <2>1. published' \in SUBSET Msgs
      BY <1>5 DEF MarkPublished
    <2>2. /\ batch' \in [Apis -> SUBSET Msgs]
          /\ sent' \in [Apis -> Msgs \cup {None}]
      <3>1. CASE batch[p] # {sent[p]}
        <4>1. batch[p] \ {sent[p]} \in SUBSET Msgs
          OBVIOUS
        <4>2. /\ batch' = [batch EXCEPT ![p] = batch[p] \ {sent[p]}]
              /\ sent' = [sent EXCEPT ![p] = None]
          BY <1>5, <3>1 DEF MarkPublished
        <4> QED
          BY <4>1, <4>2
      <3>2. CASE batch[p] = {sent[p]}
        BY <1>5, <3>2 DEF MarkPublished, EndRelay
      <3> QED
        BY <3>1, <3>2
    <2> QED
      BY <1>5, <2>1, <2>2 DEF MarkPublished
  <1> QED
    BY <1>1, <1>2, <1>3, <1>4, <1>5 DEF RunNext

LEMMA ProcessTypeInv ==
  ASSUME TypeInv, NEW p \in Apis, ProcessNext(p) PROVE TypeInv'
  <1> USE EventDeliveryAssumption DEF txVars, relayVars, brokerVars
  <1>1. CASE StartUp(p) \/ Events(p) \/ Sigterm(p) \/ Stop(p) \/ Close(p)
    BY <1>1 DEF StartUp, Events, Sigterm, Stop, Close, TypeInv
  <1>2. CASE Ends(p)
    <2>1. Transacting(p) \in SUBSET Msgs
      BY DEF Transacting
    <2>2. wire' \in [Apis -> Seq(Msgs)]
      BY <1>2 DEF Ends, DropWires, TypeInv
    <2> QED
      BY <1>2, <2>1, <2>2, RollBackTypeInv DEF Ends, TypeInv
  <1> QED
    BY <1>1, <1>2 DEF ProcessNext, Exit, Crash

LEMMA NetworkTypeInv == TypeInv /\ NetworkNext => TypeInv'
  <1> SUFFICES ASSUME TypeInv, NetworkNext PROVE TypeInv'
    OBVIOUS
  <1> USE DEF txVars, relayVars
  <1>1. ASSUME NEW p \in Apis, DropConnection(p) PROVE TypeInv'
    BY <1>1 DEF DropConnection, DropWires, TypeInv
  <1>2. ASSUME NEW p \in Apis, Receive(p) PROVE TypeInv'
    <2>1. Head(wire[p]) \in Msgs /\ Tail(wire[p]) \in Seq(Msgs)
      BY <1>2 DEF Receive, TypeInv
    <2> QED
      BY <1>2, <2>1 DEF Receive, TypeInv
  <1>3. ASSUME NEW m \in Msgs, Consume(m) \/ ConsumeUnanswered(m) PROVE TypeInv'
    BY <1>3 DEF Consume, ConsumeUnanswered, Outcome, TypeInv
  <1>4. CASE BrokerStops
    BY <1>4 DEF BrokerStops, DropWires, TypeInv
  <1>5. CASE BrokerStarts \/ NotifierStops \/ NotifierStarts
    BY <1>5 DEF BrokerStarts, NotifierStops, NotifierStarts, brokerVars, TypeInv
  <1> QED
    BY <1>1, <1>2, <1>3, <1>4, <1>5 DEF NetworkNext

LEMMA NextTypeInv == TypeInv /\ [Next]_vars => TypeInv'
  <1>1. TypeInv /\ UNCHANGED vars => TypeInv'
    BY DEF TypeInv, vars, txVars, relayVars, brokerVars
  <1> QED
    BY <1>1, TxTypeInv, RunTypeInv, ProcessTypeInv, NetworkTypeInv DEF Next

-------------------------------------------------------------------------------
(* What is settled was committed *)

\* Whatever has left its row, on whichever stage of its way, is a committed one.
OnlyCommittedInv ==
  /\ published \subseteq committed
  /\ \A p \in Apis : batch[p] \subseteq committed /\ sent[p] \in committed \cup {None}
  /\ \A m \in Msgs : sends[m] > 0 => m \in committed
  /\ \A p \in Apis : \A i \in 1..Len(wire[p]) : wire[p][i] \in committed
  /\ \A m \in Msgs : queue[m] > 0 => m \in committed
  /\ settled \subseteq committed

\* Only Commit makes a transaction committed, one at a time, and nothing undoes it.
LEMMA StepCommits ==
  ASSUME TypeInv, [Next]_vars
  PROVE  committed' = committed \/ \E m \in Msgs : committed' = committed \cup {m}
  <1> USE DEF TypeInv, committed
  <1>1. ASSUME NEW p \in Apis, NEW m \in Msgs, Arrive(p, m) \/ Enqueue(p, m)
        PROVE  committed' = committed
    BY <1>1 DEF Arrive, Enqueue
  <1>2. ASSUME NEW m \in Msgs, Commit(m) PROVE committed' = committed \cup {m}
    BY <1>2 DEF Commit
  <1>3. ASSUME NEW ms \in SUBSET Msgs, RollBackAll(ms), ms \cap committed = {}
        PROVE  committed' = committed
    BY <1>3 DEF RollBackAll
  <1>4. ASSUME NEW p \in Apis, Ends(p) PROVE committed' = committed
    <2>1. Transacting(p) \in SUBSET Msgs /\ Transacting(p) \cap committed = {}
      BY DEF Transacting
    <2> QED
      BY <1>3, <1>4, <2>1 DEF Ends
  <1>5. ASSUME NEW m \in Msgs, RollBackAll({m}), tx[m] # "committed"
        PROVE  committed' = committed
    BY <1>3, <1>5
  <1>6. CASE UNCHANGED tx
    BY <1>6
  <1>7. TxNext => committed' = committed \/ \E m \in Msgs : committed' = committed \cup {m}
    BY <1>1, <1>2, <1>5, <1>6 DEF TxNext, PoolEnded, RollBack, Disconnect
  <1>8. ASSUME NEW p \in Apis, RunNext(p) PROVE committed' = committed
    BY <1>6, <1>8 DEF RunNext, StartSweep, EndSweep, StartRelay, OpenSession, Publish,
         PublishPoisoned, PublishFails, MarkPublished, MarkFails, txVars
  <1>9. ASSUME NEW p \in Apis, ProcessNext(p) PROVE committed' = committed
    BY <1>4, <1>6, <1>9 DEF ProcessNext, StartUp, Events, Sigterm, Stop, Close, Exit, Crash, txVars
  <1>10. NetworkNext => committed' = committed
    BY <1>6 DEF NetworkNext, DropConnection, Receive, Consume, ConsumeUnanswered,
         BrokerStops, BrokerStarts, NotifierStops, NotifierStarts, txVars
  <1> QED
    BY <1>6, <1>7, <1>8, <1>9, <1>10 DEF Next, vars, txVars

LEMMA TxOnlyCommitted ==
  ASSUME TypeInv, OnlyCommittedInv, TxNext, committed \subseteq committed'
  PROVE  OnlyCommittedInv'
  <1>1. UNCHANGED <<relayVars, brokerVars>>
    BY DEF TxNext, Arrive, Enqueue, PoolEnded, Disconnect, Commit, RollBack
  <1> QED
    BY <1>1 DEF OnlyCommittedInv, relayVars, brokerVars, settled

LEMMA RunOnlyCommitted ==
  ASSUME TypeInv, OnlyCommittedInv, NEW p \in Apis, RunNext(p), committed \subseteq committed'
  PROVE  OnlyCommittedInv'
  <1> USE EventDeliveryAssumption DEF OnlyCommittedInv, TypeInv, settled
  <1>1. CASE StartSweep(p) \/ EndSweep(p) \/ OpenSession(p)
    BY <1>1 DEF StartSweep, EndSweep, OpenSession, relayVars, brokerVars
  <1>2. CASE StartRelay(p)
    <2>1. FindUnpublished \subseteq committed
      BY DEF FindUnpublished, Unpublished
    <2>2. \A q \in Apis : batch'[q] \subseteq committed
      BY <1>2, <2>1 DEF StartRelay
    <2> QED
      BY <1>2, <2>2 DEF StartRelay, brokerVars
  <1>3. CASE Publish(p)
    <2>1. PICK m \in Foremost(p) :
            /\ sent' = [sent EXCEPT ![p] = m]
            /\ sends' = [sends EXCEPT ![m] = @ + 1]
            /\ wire' = [wire EXCEPT ![p] = Append(@, m)]
      BY <1>3 DEF Publish
    <2>2. m \in committed
      BY DEF Foremost
    <2>3. ASSUME NEW q \in Apis, NEW i \in 1..Len(wire'[q]) PROVE wire'[q][i] \in committed
      <3>1. CASE q = p
        <4>1. wire'[q] = Append(wire[p], m) /\ wire[p] \in Seq(Msgs)
          BY <2>1, <3>1
        <4>2. i \in 1..Len(wire[p]) \/ wire'[q][i] = m
          BY <4>1
        <4>3. i \in 1..Len(wire[p]) => wire'[q][i] = wire[p][i]
          BY <4>1
        <4> QED
          BY <2>2, <4>2, <4>3
      <3>2. CASE q # p
        BY <2>1, <3>2
      <3> QED
        BY <3>1, <3>2
    <2>4. \A k \in Msgs : sends'[k] > 0 => k \in committed
      BY <2>1, <2>2
    <2>5. \A q \in Apis : sent'[q] \in committed \cup {None}
      BY <2>1, <2>2
    <2> QED
      BY <1>3, <2>3, <2>4, <2>5 DEF Publish
  <1>4. CASE PublishPoisoned(p) \/ PublishFails(p) \/ MarkFails(p)
    <2>1. \A q \in Apis : batch'[q] \subseteq committed /\ sent'[q] \in committed \cup {None}
      BY <1>4 DEF PublishPoisoned, PublishFails, MarkFails, EndRelay
    <2> QED
      BY <1>4, <2>1 DEF PublishPoisoned, PublishFails, MarkFails, brokerVars
  <1>5. CASE MarkPublished(p)
    <2>1. sent[p] \in committed
      BY <1>5 DEF MarkPublished
    <2>2. \A q \in Apis : batch'[q] \subseteq batch[q] /\ sent'[q] \in {sent[q], None}
      <3>1. CASE batch[p] # {sent[p]}
        <4>1. /\ batch' = [batch EXCEPT ![p] = batch[p] \ {sent[p]}]
              /\ sent' = [sent EXCEPT ![p] = None]
          BY <1>5, <3>1 DEF MarkPublished
        <4> QED
          BY <4>1
      <3>2. CASE batch[p] = {sent[p]}
        BY <1>5, <3>2 DEF MarkPublished, EndRelay
      <3> QED
        BY <3>1, <3>2
    <2>3. published' = published \cup {sent[p]}
      BY <1>5 DEF MarkPublished
    <2> QED
      BY <1>5, <2>1, <2>2, <2>3 DEF MarkPublished, brokerVars
  <1> QED
    BY <1>1, <1>2, <1>3, <1>4, <1>5 DEF RunNext

LEMMA ProcessOnlyCommitted ==
  ASSUME TypeInv, OnlyCommittedInv, NEW p \in Apis, ProcessNext(p), committed \subseteq committed'
  PROVE  OnlyCommittedInv'
  <1> USE DEF OnlyCommittedInv, TypeInv, settled
  <1>1. CASE StartUp(p) \/ Events(p) \/ Sigterm(p) \/ Stop(p) \/ Close(p)
    BY <1>1 DEF StartUp, Events, Sigterm, Stop, Close, relayVars, brokerVars
  <1>2. CASE Ends(p)
    BY <1>2 DEF Ends, DropWires
  <1> QED
    BY <1>1, <1>2 DEF ProcessNext, Exit, Crash

LEMMA NetworkOnlyCommitted ==
  ASSUME TypeInv, OnlyCommittedInv, NetworkNext, committed' = committed
  PROVE  OnlyCommittedInv'
  <1> USE DEF OnlyCommittedInv, TypeInv, settled
  <1>1. ASSUME NEW p \in Apis, DropConnection(p) PROVE OnlyCommittedInv'
    BY <1>1 DEF DropConnection, DropWires, relayVars
  <1>2. ASSUME NEW p \in Apis, Receive(p) PROVE OnlyCommittedInv'
    <2>1. wire[p] \in Seq(Msgs) /\ Len(wire[p]) \in Nat \ {0} /\ Head(wire[p]) = wire[p][1]
      BY <1>2 DEF Receive
    <2>2. Head(wire[p]) \in committed
      BY <2>1
    <2>3. ASSUME NEW q \in Apis, NEW i \in 1..Len(wire'[q]) PROVE wire'[q][i] \in committed
      <3>1. CASE q = p
        <4>1. wire'[q] = Tail(wire[p])
          BY <1>2, <3>1 DEF Receive
        <4>2. i + 1 \in 1..Len(wire[p]) /\ wire'[q][i] = wire[p][i + 1]
          BY <2>1, <4>1
        <4> QED
          BY <4>2
      <3>2. CASE q # p
        BY <1>2, <3>2 DEF Receive
      <3> QED
        BY <3>1, <3>2
    <2>4. \A m \in Msgs : queue'[m] > 0 => m \in committed
      BY <1>2, <2>2 DEF Receive
    <2> QED
      BY <1>2, <2>3, <2>4 DEF Receive, relayVars
  <1>3. ASSUME NEW m \in Msgs, Consume(m) \/ ConsumeUnanswered(m) PROVE OnlyCommittedInv'
    <2>1. m \in committed
      BY <1>3 DEF Consume, ConsumeUnanswered
    <2>2. settled' = settled \cup {m}
      BY <1>3 DEF Consume, ConsumeUnanswered, Outcome
    <2>3. \A k \in Msgs : queue'[k] > 0 => queue[k] > 0
      BY <1>3 DEF Consume, ConsumeUnanswered
    <2> QED
      BY <1>3, <2>1, <2>2, <2>3 DEF Consume, ConsumeUnanswered, relayVars
  <1>4. CASE BrokerStops
    BY <1>4 DEF BrokerStops, DropWires, relayVars
  <1>5. CASE BrokerStarts \/ NotifierStops \/ NotifierStarts
    BY <1>5 DEF BrokerStarts, NotifierStops, NotifierStarts, relayVars, brokerVars
  <1> QED
    BY <1>1, <1>2, <1>3, <1>4, <1>5 DEF NetworkNext

LEMMA NextOnlyCommitted ==
  ASSUME TypeInv, OnlyCommittedInv, [Next]_vars PROVE OnlyCommittedInv'
  <1>1. committed \subseteq committed'
    BY StepCommits
  <1>2. NetworkNext => committed' = committed
    BY DEF NetworkNext, DropConnection, Receive, Consume, ConsumeUnanswered, BrokerStops,
           BrokerStarts, NotifierStops, NotifierStarts, txVars, committed
  <1>3. UNCHANGED vars => OnlyCommittedInv'
    BY <1>1 DEF OnlyCommittedInv, settled, vars, relayVars, brokerVars
  <1> QED
    BY <1>1, <1>2, <1>3, TxOnlyCommitted, RunOnlyCommitted, ProcessOnlyCommitted,
       NetworkOnlyCommitted DEF Next

\* A step settles at most one message, one that was committed before.
LEMMA StepSettles ==
  ASSUME TypeInv, OnlyCommittedInv, [Next]_vars
  PROVE  \/ settled' = settled
         \/ committed' = committed /\ \E m \in committed : settled' = settled \cup {m}
  <1>1. ASSUME NEW m \in Msgs, Consume(m) \/ ConsumeUnanswered(m)
        PROVE  committed' = committed /\ m \in committed /\ settled' = settled \cup {m}
    <2>1. m \in committed /\ settled' = settled \cup {m}
      BY <1>1 DEF Consume, ConsumeUnanswered, Outcome, settled, OnlyCommittedInv
    <2>2. committed' = committed
      BY <1>1 DEF Consume, ConsumeUnanswered, txVars, committed
    <2> QED
      BY <2>1, <2>2
  <1>2. CASE UNCHANGED <<handled, dead>>
    BY <1>2 DEF settled
  <1>3. TxNext => UNCHANGED <<handled, dead>>
    BY DEF TxNext, Arrive, Enqueue, PoolEnded, Disconnect, Commit, RollBack, brokerVars
  <1>4. ASSUME NEW p \in Apis, RunNext(p) PROVE UNCHANGED <<handled, dead>>
    BY <1>4 DEF RunNext, StartSweep, EndSweep, StartRelay, OpenSession, Publish,
         PublishPoisoned, PublishFails, MarkPublished, MarkFails, brokerVars
  <1>5. ASSUME NEW p \in Apis, ProcessNext(p) PROVE UNCHANGED <<handled, dead>>
    BY <1>5 DEF ProcessNext, StartUp, Events, Sigterm, Stop, Close, Exit, Crash, Ends, brokerVars
  <1>6. NetworkNext => UNCHANGED <<handled, dead>> \/ \E m \in Msgs : Consume(m) \/ ConsumeUnanswered(m)
    BY DEF NetworkNext, DropConnection, Receive, BrokerStops, BrokerStarts, NotifierStops,
           NotifierStarts, brokerVars
  <1>7. UNCHANGED vars => UNCHANGED <<handled, dead>>
    BY DEF vars, brokerVars
  <1> QED
    BY <1>1, <1>2, <1>3, <1>4, <1>5, <1>6, <1>7 DEF Next

\* The detailed step is a step of Delivery, or leaves what Delivery sees alone.
LEMMA StepDelivers ==
  ASSUME TypeInv, OnlyCommittedInv, [Next]_vars
  PROVE  [Abstract!Next]_<<committed, settled>>
  <1>1. CASE settled' = settled /\ committed' = committed
    BY <1>1
  <1>2. ASSUME NEW m \in Msgs, settled' = settled, committed' = committed \cup {m}
        PROVE  Abstract!Next
    BY <1>2 DEF Abstract!Next, Abstract!Commit
  <1>3. ASSUME NEW m \in committed, settled' = settled \cup {m}, committed' = committed
        PROVE  Abstract!Next
    BY <1>3 DEF Abstract!Next, Abstract!Settle, committed
  <1> QED
    BY <1>1, <1>2, <1>3, StepCommits, StepSettles

\* What the notifier consumes or the broker dead-letters was committed with its
\* business change before, and neither is taken back, whatever crashed, was rolled
\* back or sent twice: the outbox implements Delivery.
THEOREM OutboxDelivers == Spec => SettlesOnlyCommitted
  <1>1. Init => TypeInv
    BY InitTypeInv
  <1>2. Init => OnlyCommittedInv
    BY EventDeliveryAssumption DEF Init, OnlyCommittedInv, committed, settled
  <1>3. Init => Abstract!Init
    BY DEF Init, Abstract!Init, committed, settled
  <1>4. TypeInv /\ OnlyCommittedInv /\ [Next]_vars => TypeInv' /\ OnlyCommittedInv'
    BY NextTypeInv, NextOnlyCommitted
  <1>5. TypeInv /\ OnlyCommittedInv /\ [Next]_vars => [Abstract!Next]_<<committed, settled>>
    BY StepDelivers
  <1> QED
    BY <1>1, <1>2, <1>3, <1>4, <1>5, PTL DEF Spec, SettlesOnlyCommitted, Abstract!Spec

-------------------------------------------------------------------------------
(* Causes are sent first *)

\* createdAt orders the rows that are there, and what was committed when a row was
\* stamped has an earlier one.
OrderInv ==
  /\ \A m \in Msgs : earlier[m] \subseteq stamped
  /\ \A m \in Msgs : \A k \in earlier[m] : earlier[k] \subseteq earlier[m]
  /\ \A m \in Msgs : knew[m] \subseteq earlier[m] \cap committed

LEMMA RollBackOrder ==
  ASSUME TypeInv, OrderInv, NEW ms \in SUBSET Msgs, ms \cap committed = {}, RollBackAll(ms)
  PROVE  OrderInv'
  <1>1. stamped' = stamped \ ms /\ committed' = committed
    BY DEF TypeInv, RollBackAll, stamped, committed
  <1>2. \A m \in Msgs : earlier'[m] = IF m \in ms THEN {} ELSE earlier[m] \ ms
    BY DEF RollBackAll
  <1>3. \A m \in Msgs : knew'[m] = IF m \in ms THEN {} ELSE knew[m]
    BY DEF RollBackAll
  <1>4. \A m \in Msgs : earlier[m] \subseteq Msgs
    BY DEF TypeInv
  <1>5. \A m \in Msgs : earlier'[m] \subseteq stamped'
    BY <1>1, <1>2 DEF OrderInv
  <1>6. \A m \in Msgs : knew'[m] \subseteq earlier'[m] \cap committed'
    BY <1>1, <1>2, <1>3 DEF OrderInv
  <1>7. ASSUME NEW m \in Msgs, NEW k \in earlier'[m] PROVE earlier'[k] \subseteq earlier'[m]
    <2>1. m \notin ms /\ k \in earlier[m] /\ k \notin ms
      BY <1>2, <1>7
    <2>2. earlier[k] \subseteq earlier[m]
      BY <2>1 DEF OrderInv
    <2> QED
      BY <1>2, <1>4, <2>1, <2>2
  <1> QED
    BY <1>5, <1>6, <1>7 DEF OrderInv

LEMMA NextOrder ==
  ASSUME TypeInv, OrderInv, [Next]_vars PROVE OrderInv'
  <1>1. ASSUME NEW p \in Apis, NEW m \in Msgs, Arrive(p, m) PROVE OrderInv'
    <2>1. stamped' = stamped /\ committed' = committed
      BY <1>1 DEF Arrive, TypeInv, stamped, committed
    <2> QED
      BY <1>1, <2>1 DEF Arrive, OrderInv
  <1>2. ASSUME NEW p \in Apis, NEW m \in Msgs, Enqueue(p, m) PROVE OrderInv'
    <2>1. stamped' = stamped \cup {m} /\ committed' = committed /\ m \notin stamped
      BY <1>2 DEF Enqueue, TypeInv, stamped, committed
    <2>2. /\ \A k \in Msgs : earlier'[k] = IF k = m THEN stamped ELSE earlier[k]
          /\ \A k \in Msgs : knew'[k] = IF k = m THEN committed ELSE knew[k]
      BY <1>2 DEF Enqueue, TypeInv
    <2>3. stamped \subseteq Msgs /\ committed \subseteq stamped
      BY DEF stamped, committed
    <2> QED
      BY <2>1, <2>2, <2>3 DEF OrderInv
  <1>3. ASSUME NEW m \in Msgs, Commit(m) PROVE OrderInv'
    <2>1. stamped' = stamped /\ committed \subseteq committed'
      BY <1>3 DEF Commit, TypeInv, stamped, committed
    <2> QED
      BY <1>3, <2>1 DEF Commit, OrderInv
  <1>4. ASSUME NEW m \in Msgs, RollBackAll({m}), tx[m] # "committed" PROVE OrderInv'
    <2>1. {m} \in SUBSET Msgs /\ {m} \cap committed = {}
      BY <1>4 DEF committed
    <2> QED
      BY <1>4, <2>1, RollBackOrder
  <1>5. ASSUME NEW p \in Apis, Ends(p) PROVE OrderInv'
    <2>1. Transacting(p) \in SUBSET Msgs /\ Transacting(p) \cap committed = {}
      BY DEF Transacting, committed
    <2> QED
      BY <1>5, <2>1, RollBackOrder DEF Ends
  <1>6. CASE UNCHANGED <<tx, earlier, knew>>
    BY <1>6 DEF OrderInv, stamped, committed
  <1>7. TxNext => OrderInv'
    BY <1>1, <1>2, <1>3, <1>4, <1>6 DEF TxNext, PoolEnded, RollBack, Disconnect
  <1>8. ASSUME NEW p \in Apis, RunNext(p) PROVE OrderInv'
    BY <1>6, <1>8 DEF RunNext, StartSweep, EndSweep, StartRelay, OpenSession, Publish,
         PublishPoisoned, PublishFails, MarkPublished, MarkFails, txVars
  <1>9. ASSUME NEW p \in Apis, ProcessNext(p) PROVE OrderInv'
    BY <1>5, <1>6, <1>9 DEF ProcessNext, StartUp, Events, Sigterm, Stop, Close, Exit, Crash, txVars
  <1>10. NetworkNext => OrderInv'
    BY <1>6 DEF NetworkNext, DropConnection, Receive, Consume, ConsumeUnanswered,
         BrokerStops, BrokerStarts, NotifierStops, NotifierStarts, txVars
  <1> QED
    BY <1>6, <1>7, <1>8, <1>9, <1>10 DEF Next, vars, txVars

\* A batch has with each of its rows those its transaction knew of, unless they are
\* published; and published is what was sent.
CausesInv ==
  /\ CausesSentFirst
  /\ \A m \in published : sends[m] > 0
  /\ \A p \in Apis : sent[p] # None => sends[sent[p]] > 0
  /\ \A p \in Apis : \A m \in batch[p] : knew[m] \subseteq published \cup batch[p]

\* findUnpublished leaves no row out that is earlier than one it returns.
LEMMA BatchHasEarlierRows ==
  ASSUME TypeInv, OrderInv, NEW m \in FindUnpublished, NEW k \in earlier[m], k \in Unpublished
  PROVE  k \in FindUnpublished
  <1> DEFINE Before(x) == earlier[x] \cap Unpublished
  <1>1. m \in Msgs /\ k \in Msgs
    BY DEF FindUnpublished, Unpublished, committed
  <1>2. Before(k) \subseteq Before(m)
    BY <1>1 DEF OrderInv
  <1>3. IsFiniteSet(Unpublished)
    BY EventDeliveryAssumption, FS_Subset DEF Unpublished, committed
  <1>4. IsFiniteSet(Before(m))
    BY <1>3, FS_Subset
  <1>5. /\ Cardinality(Before(k)) <= Cardinality(Before(m))
        /\ Cardinality(Before(k)) \in Nat /\ Cardinality(Before(m)) \in Nat
    BY <1>2, <1>4, FS_Subset, FS_CardinalityType
  <1>6. Cardinality(Before(m)) < BatchSize
    BY DEF FindUnpublished
  <1>7. BatchSize \in Nat
    BY EventDeliveryAssumption
  <1> HIDE DEF Before
  <1>8. Cardinality(Before(k)) < BatchSize
    BY <1>5, <1>6, <1>7
  <1> QED
    BY <1>8 DEF Before, FindUnpublished

\* Only an enqueue adds to what a row's transaction knew of.
LEMMA KnewStays ==
  ASSUME TypeInv, [Next]_vars, NEW m \in Msgs
  PROVE  knew'[m] \subseteq knew[m] \/ tx[m] = "arrived"
  <1>1. ASSUME NEW p \in Apis, NEW k \in Msgs, Enqueue(p, k)
        PROVE  knew'[m] \subseteq knew[m] \/ tx[m] = "arrived"
    BY <1>1 DEF Enqueue, TypeInv
  <1>2. ASSUME NEW ms, RollBackAll(ms) PROVE knew'[m] \subseteq knew[m]
    BY <1>2 DEF RollBackAll
  <1>3. CASE UNCHANGED knew
    BY <1>3
  <1>4. TxNext => knew'[m] \subseteq knew[m] \/ tx[m] = "arrived"
    BY <1>1, <1>2, <1>3 DEF TxNext, PoolEnded, RollBack, Disconnect, Arrive, Commit
  <1>5. ASSUME NEW p \in Apis, RunNext(p) PROVE UNCHANGED knew
    BY <1>5 DEF RunNext, StartSweep, EndSweep, StartRelay, OpenSession, Publish,
         PublishPoisoned, PublishFails, MarkPublished, MarkFails, txVars
  <1>6. ASSUME NEW p \in Apis, ProcessNext(p) PROVE knew'[m] \subseteq knew[m]
    BY <1>2, <1>3, <1>6
    DEF ProcessNext, StartUp, Events, Sigterm, Stop, Close, Exit, Crash, Ends, txVars
  <1>7. NetworkNext => UNCHANGED knew
    BY DEF NetworkNext, DropConnection, Receive, Consume, ConsumeUnanswered,
         BrokerStops, BrokerStarts, NotifierStops, NotifierStarts, txVars
  <1> QED
    BY <1>3, <1>4, <1>5, <1>6, <1>7 DEF Next, vars, txVars

\* Where no row is sent, marked or read, a batch may only be abandoned.
LEMMA NoSendCauses ==
  ASSUME TypeInv, OnlyCommittedInv, CausesInv, [Next]_vars, sends' = sends, published' = published,
         \A p \in Apis : batch'[p] \in {batch[p], {}} /\ sent'[p] \in {sent[p], None}
  PROVE  CausesInv'
  <1>1. \A m \in committed : knew'[m] \subseteq knew[m]
    BY KnewStays DEF committed
  <1>2. \A m \in Msgs : sends[m] > 0 => m \in committed
    BY DEF OnlyCommittedInv
  <1>3. \A p \in Apis : batch[p] \subseteq committed
    BY DEF OnlyCommittedInv
  <1> QED
    BY <1>1, <1>2, <1>3 DEF CausesInv, CausesSentFirst

LEMMA RunCauses ==
  ASSUME TypeInv, OnlyCommittedInv, OrderInv, CausesInv, NEW p \in Apis, RunNext(p), [Next]_vars
  PROVE  CausesInv'
  <1> USE EventDeliveryAssumption DEF TypeInv
  <1>1. CASE StartSweep(p) \/ EndSweep(p) \/ OpenSession(p)
    BY <1>1, NoSendCauses DEF StartSweep, EndSweep, OpenSession, relayVars
  <1>2. CASE StartRelay(p)
    <2>1. knew' = knew /\ sends' = sends /\ published' = published /\ sent' = sent
      BY <1>2 DEF StartRelay, txVars
    <2>2. \A m \in FindUnpublished : knew[m] \subseteq published \cup FindUnpublished
      BY BatchHasEarlierRows DEF OrderInv, Unpublished, FindUnpublished, committed
    <2>3. \A q \in Apis : batch'[q] = IF q = p THEN FindUnpublished ELSE batch[q]
      BY <1>2 DEF StartRelay
    <2> QED
      BY <2>1, <2>2, <2>3 DEF CausesInv, CausesSentFirst
  <1>3. CASE Publish(p)
    <2>1. PICK m \in Foremost(p) :
            /\ sent' = [sent EXCEPT ![p] = m]
            /\ sends' = [sends EXCEPT ![m] = @ + 1]
      BY <1>3 DEF Publish
    <2>2. m \in Msgs /\ m \in batch[p] /\ earlier[m] \cap batch[p] = {}
      BY DEF Foremost
    <2>3. knew[m] \subseteq published
      BY <2>2 DEF CausesInv, OrderInv
    <2>4. \A k \in Msgs : sends'[k] = IF k = m THEN sends[k] + 1 ELSE sends[k]
      BY <2>1
    <2>5. \A q \in Apis : sent'[q] = IF q = p THEN m ELSE sent[q]
      BY <2>1
    <2>6. published' = published /\ batch' = batch /\ knew' = knew
      BY <1>3 DEF Publish, txVars
    <2>t. \A k \in Msgs : sends[k] \in Nat
      OBVIOUS
    <2>7. ASSUME NEW k \in Msgs, sends[k] > 0 PROVE sends'[k] > 0
      <3>1. sends[k] \in Nat /\ sends[k] + 1 > 0
        BY <2>t
      <3>2. sends'[k] \in {sends[k], sends[k] + 1}
        BY <2>4
      <3> QED
        BY <2>7, <3>1, <3>2
    <2>8. sends'[m] > 0
      BY <2>2, <2>4, <2>t
    <2>9. CausesSentFirst'
      BY <2>3, <2>4, <2>6, <2>7 DEF CausesInv, CausesSentFirst
    <2> QED
      BY <2>5, <2>6, <2>7, <2>8, <2>9 DEF CausesInv
  <1>4. CASE PublishPoisoned(p) \/ PublishFails(p) \/ MarkFails(p)
    BY <1>4, NoSendCauses DEF PublishPoisoned, PublishFails, MarkFails, EndRelay
  <1>5. CASE MarkPublished(p)
    <2>1. /\ published' = published \cup {sent[p]} /\ sends' = sends /\ knew' = knew
          /\ sends[sent[p]] > 0
      BY <1>5 DEF MarkPublished, CausesInv, txVars
    <2>2. \A q \in Apis : /\ batch'[q] \in {batch[q], batch[q] \ {sent[p]}, {}}
                         /\ sent'[q] \in {sent[q], None}
      <3>1. CASE batch[p] # {sent[p]}
        <4>1. /\ batch' = [batch EXCEPT ![p] = batch[p] \ {sent[p]}]
              /\ sent' = [sent EXCEPT ![p] = None]
          BY <1>5, <3>1 DEF MarkPublished
        <4> QED
          BY <4>1
      <3>2. CASE batch[p] = {sent[p]}
        BY <1>5, <3>2 DEF MarkPublished, EndRelay
      <3> QED
        BY <3>1, <3>2
    <2> QED
      BY <2>1, <2>2 DEF CausesInv, CausesSentFirst
  <1> QED
    BY <1>1, <1>2, <1>3, <1>4, <1>5 DEF RunNext

LEMMA NextCauses ==
  ASSUME TypeInv, OnlyCommittedInv, OrderInv, CausesInv, [Next]_vars
  PROVE  CausesInv'
  <1>1. CASE UNCHANGED relayVars
    BY <1>1, NoSendCauses DEF relayVars
  <1>2. TxNext => UNCHANGED relayVars
    BY DEF TxNext, Arrive, Enqueue, PoolEnded, Disconnect, Commit, RollBack
  <1>3. ASSUME NEW p \in Apis, Ends(p) PROVE CausesInv'
    <2>1. \A q \in Apis : batch'[q] \in {batch[q], {}} /\ sent'[q] \in {sent[q], None}
      BY <1>3 DEF Ends, TypeInv
    <2> QED
      BY <1>3, <2>1, NoSendCauses DEF Ends
  <1>4. ASSUME NEW p \in Apis, ProcessNext(p) PROVE CausesInv'
    BY <1>1, <1>3, <1>4 DEF ProcessNext, StartUp, Events, Sigterm, Stop, Close, Exit, Crash
  <1>5. NetworkNext => UNCHANGED relayVars
    BY DEF NetworkNext, DropConnection, Receive, Consume, ConsumeUnanswered,
         BrokerStops, BrokerStarts, NotifierStops, NotifierStarts
  <1> QED
    BY <1>1, <1>2, <1>4, <1>5, RunCauses DEF Next, vars

\* However many processes relay, in batches of any size, and whatever fails between a
\* send and its mark: no event is sent before one whose transaction had committed when
\* its own read the clock.
THEOREM CausesAreSentFirst == Spec => []CausesSentFirst
  <1>1. Init => TypeInv
    BY InitTypeInv
  <1>2. Init => OnlyCommittedInv
    BY EventDeliveryAssumption DEF Init, OnlyCommittedInv, committed, settled
  <1>3. Init => OrderInv
    BY DEF Init, OrderInv
  <1>4. Init => CausesInv
    BY DEF Init, CausesInv, CausesSentFirst
  <1>5. TypeInv /\ OnlyCommittedInv /\ OrderInv /\ CausesInv /\ [Next]_vars
        => TypeInv' /\ OnlyCommittedInv' /\ OrderInv' /\ CausesInv'
    BY NextTypeInv, NextOnlyCommitted, NextOrder, NextCauses
  <1>6. CausesInv => CausesSentFirst
    BY DEF CausesInv
  <1> QED
    BY <1>1, <1>2, <1>3, <1>4, <1>5, <1>6, PTL DEF Spec

-------------------------------------------------------------------------------
(* One connection per process *)

SessionInv ==
  /\ phase \in [Apis -> {"off", "starting", "serving", "closing", "stopping", "destroying"}]
  /\ job \in [Apis -> [Jobs -> {"off", "waiting", "running"}]]
  /\ session \in [Apis -> {"none", "live", "dead"}]
  /\ conns \in [Apis -> {0, 1}]

Relaying(p) == batch[p] # {} \/ sent[p] # None

\* The publisher's session and its connection agree, but for one that is lost and not
\* yet told of; nothing runs in a process before its first session is open, and what a
\* relay run has still to send, no later run finds.
ConnectionInv ==
  /\ SessionInv
  /\ \A p \in Apis : session[p] = "none" => conns[p] = 0
  /\ \A p \in Apis : session[p] = "live" => conns[p] = 1
  /\ \A p \in Apis : phase[p] \in {"off", "starting"} =>
       session[p] = "none" /\ \A j \in Jobs : job[p][j] = "off"
  /\ \A p \in Apis : Relaying(p) => job[p]["relay"] = "running"

LEMMA GoneConnection ==
  ASSUME ConnectionInv, NEW p \in Apis, Gone(p), ~Relaying(p)',
         \A q \in Apis \ {p} : Relaying(q)' => Relaying(q)
  PROVE  ConnectionInv'
  <1>1. NoJobs \in [Jobs -> {"off", "waiting", "running"}]
    BY DEF NoJobs
  <1>2. SessionInv'
    BY <1>1 DEF ConnectionInv, SessionInv, Gone
  <1>3. /\ session'[p] = "none" /\ conns'[p] = 0 /\ job'[p] = NoJobs
        /\ \A q \in Apis \ {p} : /\ session'[q] = session[q] /\ conns'[q] = conns[q]
                                /\ job'[q] = job[q] /\ phase'[q] = phase[q]
    BY DEF ConnectionInv, SessionInv, Gone
  <1>4. \A j \in Jobs : job'[p][j] = "off"
    BY <1>3 DEF NoJobs
  <1> QED
    BY <1>2, <1>3, <1>4 DEF ConnectionInv

\* A run begins, or ends: the relay's with its batch.
LEMMA RunBegins ==
  ASSUME ConnectionInv, NEW p \in Apis, NEW j \in {"relay", "sweep"}, TimerFires(p, j),
         j = "sweep" => (Relaying(p)' => Relaying(p)),
         \A q \in Apis \ {p} : Relaying(q)' => Relaying(q)
  PROVE  ConnectionInv'
  <1>1. {"relay", "sweep"} \subseteq Jobs
    BY EventDeliveryAssumption
  <1>2. \A q \in Apis, i \in Jobs :
          job'[q][i] = IF q = p /\ i = j THEN "running" ELSE job[q][i]
    BY <1>1 DEF TimerFires, ConnectionInv, SessionInv
  <1>3. phase[p] \notin {"off", "starting"}
    BY <1>1 DEF TimerFires, ConnectionInv
  <1>4. SessionInv'
    BY <1>1 DEF TimerFires, ConnectionInv, SessionInv
  <1>5. \A q \in Apis : Relaying(q)' => job'[q]["relay"] = "running"
    BY <1>1, <1>2 DEF ConnectionInv
  <1> QED
    BY <1>2, <1>3, <1>4, <1>5 DEF TimerFires, ConnectionInv

LEMMA RunEnds ==
  ASSUME ConnectionInv, NEW p \in Apis, NEW j \in {"relay", "sweep"}, job[p][j] = "running",
         job' = EndedRun(p, j), phase' = phase, conns' = conns,
         session' = session \/ session' = [session EXCEPT ![p] = "dead"],
         j = "relay" => ~Relaying(p)', \A q \in Apis : Relaying(q)' => Relaying(q)
  PROVE  ConnectionInv'
  <1>1. {"relay", "sweep"} \subseteq Jobs
    BY EventDeliveryAssumption
  <1>2. \A q \in Apis, i \in Jobs :
          job'[q][i] = IF q = p /\ i = j THEN (IF Stopped(p) THEN "off" ELSE "waiting")
                                        ELSE job[q][i]
    BY <1>1 DEF EndedRun, ConnectionInv, SessionInv
  <1>3. phase[p] \notin {"off", "starting"}
    BY <1>1 DEF ConnectionInv
  <1>4. job' \in [Apis -> [Jobs -> {"off", "waiting", "running"}]]
    BY <1>1 DEF EndedRun, ConnectionInv, SessionInv
  <1>5. SessionInv'
    BY <1>4 DEF ConnectionInv, SessionInv
  <1>6. \A q \in Apis : Relaying(q)' => job'[q]["relay"] = "running"
    BY <1>1, <1>2 DEF ConnectionInv
  <1>7. \A q \in Apis : session'[q] = session[q] \/ (q = p /\ session'[q] = "dead")
    <2>1. CASE session' = [session EXCEPT ![p] = "dead"]
      BY <2>1 DEF ConnectionInv, SessionInv
    <2> QED
      BY <2>1
  <1> QED
    BY <1>2, <1>3, <1>5, <1>6, <1>7 DEF ConnectionInv

LEMMA RunConnection ==
  ASSUME ConnectionInv, TypeInv, NEW p \in Apis, RunNext(p) PROVE ConnectionInv'
  <1>1. CASE StartSweep(p)
    BY <1>1, RunBegins DEF StartSweep, relayVars, Relaying
  <1>2. CASE StartRelay(p)
    <2>1. \A q \in Apis \ {p} : Relaying(q)' => Relaying(q)
      BY <1>2 DEF StartRelay, TypeInv, Relaying
    <2> QED
      BY <1>2, <2>1, RunBegins DEF StartRelay
  <1>3. CASE EndSweep(p)
    BY <1>3, RunEnds DEF EndSweep, relayVars, Relaying
  <1>4. CASE OpenSession(p)
    <2>1. job[p]["relay"] = "running" /\ conns[p] = 0
      BY <1>4 DEF OpenSession, Publishing, Reopen, ConnectionInv, Relaying
    <2>2. phase[p] \notin {"off", "starting"}
      BY <2>1, EventDeliveryAssumption DEF ConnectionInv
    <2>3. conns' = [conns EXCEPT ![p] = 1]
      BY <1>4, <2>1 DEF OpenSession, Reopen
    <2> QED
      BY <1>4, <2>1, <2>2, <2>3
      DEF OpenSession, Reopen, ConnectionInv, SessionInv, relayVars, Relaying
  <1>5. CASE Publish(p)
    <2>1. job[p]["relay"] = "running"
      BY <1>5 DEF Publish, Publishing, ConnectionInv, Relaying
    <2>2. \A q \in Apis \ {p} : Relaying(q)' => Relaying(q)
      BY <1>5 DEF Publish, TypeInv, Relaying
    <2> QED
      BY <1>5, <2>1, <2>2 DEF Publish, apiVars, ConnectionInv, SessionInv
  <1>6. EndRelay(p) => ~Relaying(p)' /\ \A q \in Apis : Relaying(q)' => Relaying(q)
    BY DEF EndRelay, TypeInv, Relaying
  <1>7. CASE PublishPoisoned(p) \/ PublishFails(p)
    <2>1. job[p]["relay"] = "running"
      BY <1>7 DEF PublishPoisoned, PublishFails, Publishing, ConnectionInv, Relaying
    <2>2. EndRelay(p)
      BY <1>7 DEF PublishPoisoned, PublishFails
    <2> QED
      BY <1>6, <1>7, <2>1, <2>2, RunEnds DEF PublishPoisoned, PublishFails, LoseChannel, EndRelay
  <1>8. ASSUME sent[p] # None, EndRelay(p), UNCHANGED <<phase, session, conns>>
        PROVE  ConnectionInv'
    <2>1. job[p]["relay"] = "running"
      BY <1>8 DEF ConnectionInv, Relaying
    <2> QED
      BY <1>6, <1>8, <2>1, RunEnds DEF EndRelay
  <1>9. CASE MarkPublished(p)
    <2>1. CASE batch[p] # {sent[p]}
      <3>1. /\ batch' = [batch EXCEPT ![p] = batch[p] \ {sent[p]}]
            /\ sent' = [sent EXCEPT ![p] = None]
            /\ UNCHANGED <<phase, job, session, conns>>
        BY <1>9, <2>1 DEF MarkPublished
      <3>2. \A q \in Apis : Relaying(q)' => Relaying(q)
        BY <3>1 DEF TypeInv, Relaying
      <3> QED
        BY <3>1, <3>2 DEF ConnectionInv, SessionInv
    <2>2. CASE batch[p] = {sent[p]}
      BY <1>8, <1>9, <2>2 DEF MarkPublished
    <2> QED
      BY <2>1, <2>2
  <1>10. CASE MarkFails(p)
    BY <1>8, <1>10 DEF MarkFails
  <1> QED
    BY <1>1, <1>2, <1>3, <1>4, <1>5, <1>7, <1>9, <1>10 DEF RunNext

LEMMA ProcessConnection ==
  ASSUME ConnectionInv, TypeInv, NEW p \in Apis, ProcessNext(p) PROVE ConnectionInv'
  <1>1. CASE StartUp(p) \/ Events(p) \/ Sigterm(p) \/ Stop(p) \/ Close(p)
    <2>0. UNCHANGED <<batch, sent>>
      BY <1>1 DEF StartUp, Events, Sigterm, Stop, Close, relayVars
    <2> USE <2>0 DEF Relaying
    <2>1. CASE StartFails(p)
      <3>1. ~Relaying(p)
        BY <2>1, EventDeliveryAssumption DEF StartFails, ConnectionInv
      <3> QED
        BY <2>1, <3>1, GoneConnection DEF StartFails
    <2>2. CASE Start(p) \/ ConnectFails(p)
      BY <2>2 DEF Start, ConnectFails, ConnectionInv, SessionInv
    <2>3. CASE Connect(p)
      <3>1. conns[p] = 0 /\ ~Relaying(p)
        BY <2>3, EventDeliveryAssumption DEF Connect, ConnectionInv
      <3>2. conns' = [conns EXCEPT ![p] = 1]
        BY <2>3, <3>1 DEF Connect
      <3> QED
        BY <2>3, <3>1, <3>2 DEF Connect, ConnectionInv, SessionInv
    <2>4. CASE CloseEvent(p)
      BY <2>4 DEF CloseEvent, ConnectionInv, SessionInv
    <2>5. CASE LateCloseEvent(p)
      BY <2>5 DEF LateCloseEvent, ConnectionInv, SessionInv
    <2>6. CASE Shutdown(p)
      BY <2>6 DEF Shutdown, ConnectionInv, SessionInv
    <2>7. ASSUME NEW c, StopJobs(p, c) PROVE ConnectionInv'
      <3>1. \A q \in Apis, j \in Jobs : job'[q][j] = job[q][j] \/ (job[q][j] = "waiting" /\ job'[q][j] = "off")
        BY <2>7 DEF StopJobs, ConnectionInv, SessionInv
      <3>2. SessionInv'
        BY <2>7 DEF StopJobs, ConnectionInv, SessionInv
      <3> QED
        BY <2>7, <3>1, <3>2, EventDeliveryAssumption DEF StopJobs, ConnectionInv
    <2>8. CASE ClosePublisher(p)
      <3>1. session[p] \in {"none", "live"}
        BY <2>8 DEF ClosePublisher, ConnectionInv, SessionInv
      <3>2. conns' \in [Apis -> Int]
        BY <2>8 DEF ClosePublisher, ConnectionInv, SessionInv
      <3>3. conns'[p] = 0
        <4>1. CASE session[p] = "live"
          BY <2>8, <4>1 DEF ClosePublisher, ConnectionInv, SessionInv
        <4>2. CASE session[p] = "none"
          BY <2>8, <4>2 DEF ClosePublisher, ConnectionInv, SessionInv
        <4> QED
          BY <3>1, <4>1, <4>2
      <3>4. \A q \in Apis \ {p} : conns'[q] = conns[q]
        BY <2>8 DEF ClosePublisher, ConnectionInv, SessionInv
      <3>5. conns' \in [Apis -> {0, 1}]
        BY <3>2, <3>3, <3>4 DEF ConnectionInv, SessionInv
      <3> QED
        BY <2>8, <3>3, <3>4, <3>5 DEF ClosePublisher, ConnectionInv, SessionInv
    <2> QED
      BY <1>1, <2>1, <2>2, <2>3, <2>4, <2>5, <2>6, <2>7, <2>8
      DEF StartUp, Events, Sigterm, Stop, Close
  <1>2. CASE Exit(p) \/ Crash(p)
    <2>1. Gone(p) /\ Ends(p)
      BY <1>2 DEF Exit, Crash, ClosePublisherFails, DestroyAndExit
    <2>2. batch'[p] = {} /\ sent'[p] = None
      BY <2>1 DEF Ends, TypeInv
    <2>3. \A q \in Apis \ {p} : batch'[q] = batch[q] /\ sent'[q] = sent[q]
      BY <2>1 DEF Ends, TypeInv
    <2> QED
      BY <2>1, <2>2, <2>3, GoneConnection DEF Relaying
  <1> QED
    BY <1>1, <1>2 DEF ProcessNext

LEMMA LostConnection ==
  ASSUME ConnectionInv, NEW ps, LoseConnections(ps),
         UNCHANGED <<phase, job, batch, sent>>
  PROVE  ConnectionInv'
  <1>1. \A q \in Apis :
          \/ session'[q] = session[q] /\ conns'[q] = conns[q]
          \/ session'[q] = "dead" /\ conns'[q] = 0 /\ session[q] = "live"
    BY DEF LoseConnections, ConnectionInv, SessionInv
  <1>2. session' \in [Apis -> {"none", "live", "dead"}] /\ conns' \in [Apis -> {0, 1}]
    <2>1. session' \in [Apis -> {"none", "live", "dead"}]
      BY DEF LoseConnections, ConnectionInv, SessionInv
    <2>2. conns' \in [Apis -> Int]
      BY DEF LoseConnections, ConnectionInv, SessionInv
    <2> QED
      BY <1>1, <2>1, <2>2 DEF ConnectionInv, SessionInv
  <1> QED
    BY <1>1, <1>2 DEF ConnectionInv, SessionInv, Relaying

LEMMA NetworkConnection ==
  ASSUME ConnectionInv, NetworkNext PROVE ConnectionInv'
  <1>1. CASE \E p \in Apis : DropConnection(p)
    BY <1>1, LostConnection DEF DropConnection, relayVars
  <1>2. CASE BrokerStops
    BY <1>2, LostConnection DEF BrokerStops, relayVars
  <1>3. CASE UNCHANGED <<phase, job, session, conns, relayVars>>
    BY <1>3 DEF relayVars, ConnectionInv, SessionInv, Relaying
  <1> QED
    BY <1>1, <1>2, <1>3
    DEF NetworkNext, Receive, Consume, ConsumeUnanswered, BrokerStarts, NotifierStops,
        NotifierStarts, apiVars

LEMMA NextConnection ==
  ASSUME ConnectionInv, TypeInv, [Next]_vars PROVE ConnectionInv'
  <1>1. CASE UNCHANGED <<apiVars, relayVars>>
    BY <1>1 DEF apiVars, relayVars, ConnectionInv, SessionInv, Relaying
  <1>2. CASE TxNext
    BY <1>1, <1>2 DEF TxNext, Arrive, Enqueue, PoolEnded, Disconnect, Commit, RollBack
  <1>3. CASE UNCHANGED vars
    BY <1>1, <1>3 DEF vars
  <1> QED
    BY <1>2, <1>3, RunConnection, ProcessConnection, NetworkConnection DEF Next

LEMMA InitConnection == Init => ConnectionInv
  BY DEF Init, ApiInit, NoJobs, ConnectionInv, SessionInv, Relaying

\* A publisher never holds a second connection, whatever close events arrive, however late,
\* and for any number of processes, jobs and attempts.
THEOREM OneConnectionEach == Spec => []OneConnection
  <1>1. ConnectionInv => OneConnection
    BY DEF ConnectionInv, SessionInv, OneConnection
  <1> QED
    BY <1>1, InitConnection, NextConnection, InitTypeInv, NextTypeInv, PTL DEF Spec

-------------------------------------------------------------------------------
(* Nothing is closed in use *)

OwnerTypes ==
  /\ owner \in [Msgs -> Apis \cup {None}]
  /\ client \in [Msgs -> {"here", "gone"}]

LEMMA NextOwnerTypes ==
  ASSUME OwnerTypes, [Next]_vars PROVE OwnerTypes'
  <1>1. ASSUME NEW ms, RollBackAll(ms) PROVE owner' \in [Msgs -> Apis \cup {None}]
    BY <1>1 DEF RollBackAll, OwnerTypes
  <1>2. CASE UNCHANGED <<owner, client>>
    BY <1>2 DEF OwnerTypes
  <1>3. TxNext => OwnerTypes'
    <2> USE DEF OwnerTypes
    <2>1. ASSUME NEW p \in Apis, NEW m \in Msgs, Arrive(p, m) \/ Enqueue(p, m) \/ Disconnect(p, m)
          PROVE  OwnerTypes'
      BY <2>1 DEF Arrive, Enqueue, Disconnect
    <2>2. ASSUME NEW p \in Apis, NEW m \in Msgs, PoolEnded(p, m) \/ RollBack(m) PROVE OwnerTypes'
      BY <1>1, <2>2 DEF PoolEnded, RollBack
    <2>3. ASSUME NEW m \in Msgs, Commit(m) \/ RollBack(m) PROVE OwnerTypes'
      BY <1>1, <2>3 DEF Commit, RollBack
    <2> QED
      BY <2>1, <2>2, <2>3 DEF TxNext
  <1>4. ASSUME NEW p \in Apis, RunNext(p) PROVE OwnerTypes'
    BY <1>2, <1>4 DEF RunNext, StartSweep, EndSweep, StartRelay, OpenSession, Publish,
         PublishPoisoned, PublishFails, MarkPublished, MarkFails, txVars
  <1>5. ASSUME NEW p \in Apis, ProcessNext(p) PROVE OwnerTypes'
    BY <1>1, <1>2, <1>5
    DEF ProcessNext, StartUp, Events, Sigterm, Stop, Close, Exit, Crash, Ends, txVars, OwnerTypes
  <1>6. NetworkNext => OwnerTypes'
    BY <1>2 DEF NetworkNext, DropConnection, Receive, Consume, ConsumeUnanswered,
         BrokerStops, BrokerStarts, NotifierStops, NotifierStarts, txVars
  <1> QED
    BY <1>2, <1>3, <1>4, <1>5, <1>6 DEF Next, vars, txVars

\* A connected client is added only while the process serves.
LEMMA ConnectedShrinks ==
  ASSUME TypeInv, OwnerTypes, [Next]_vars, NEW p \in Apis
  PROVE  Connected(p)' \subseteq Connected(p) \/ (phase[p] = "serving" /\ phase'[p] = "serving")
  <1> USE DEF Connected, Transacting
  <1>1. ASSUME NEW q \in Apis, NEW m \in Msgs, Arrive(q, m)
        PROVE  Connected(p)' \subseteq Connected(p) \/ (phase[p] = "serving" /\ phase'[p] = "serving")
    <2>1. CASE q = p /\ m \notin ByJob
      BY <1>1, <2>1 DEF Arrive, apiVars
    <2>2. CASE q # p \/ m \in ByJob
      BY <1>1, <2>2, EventDeliveryAssumption DEF Arrive, OwnerTypes, TypeInv
    <2> QED
      BY <2>1, <2>2
  <1>2. ASSUME NEW ms, RollBackAll(ms), UNCHANGED client PROVE Connected(p)' \subseteq Connected(p)
    BY <1>2 DEF RollBackAll, OwnerTypes, TypeInv
  <1>3. ASSUME NEW q \in Apis, NEW m \in Msgs, Enqueue(q, m) PROVE Connected(p)' \subseteq Connected(p)
    BY <1>3 DEF Enqueue, TypeInv
  <1>4. ASSUME NEW q \in Apis, NEW m \in Msgs, Disconnect(q, m) PROVE Connected(p)' \subseteq Connected(p)
    BY <1>4 DEF Disconnect, OwnerTypes
  <1>5. ASSUME NEW m \in Msgs, Commit(m) PROVE Connected(p)' \subseteq Connected(p)
    BY <1>5 DEF Commit, TypeInv, OwnerTypes
  <1>6. CASE UNCHANGED txVars
    BY <1>6 DEF txVars
  <1>7. CASE TxNext
    BY <1>1, <1>2, <1>3, <1>4, <1>5, <1>7 DEF TxNext, PoolEnded, RollBack
  <1>8. ASSUME NEW q \in Apis, RunNext(q) PROVE UNCHANGED txVars
    BY <1>8 DEF RunNext, StartSweep, EndSweep, StartRelay, OpenSession, Publish,
         PublishPoisoned, PublishFails, MarkPublished, MarkFails
  <1>9. ASSUME NEW q \in Apis, ProcessNext(q)
        PROVE  UNCHANGED txVars \/ (RollBackAll(Transacting(q)) /\ UNCHANGED client)
    BY <1>9 DEF ProcessNext, StartUp, Events, Sigterm, Stop, Close, Exit, Crash, Ends
  <1>10. NetworkNext => UNCHANGED txVars
    BY DEF NetworkNext, DropConnection, Receive, Consume, ConsumeUnanswered,
         BrokerStops, BrokerStarts, NotifierStops, NotifierStarts
  <1> QED
    BY <1>2, <1>6, <1>7, <1>8, <1>9, <1>10 DEF Next, vars

\* A run that starts, ends, or does neither.
Runs(p, j) ==
  \/ job'[p][j] = job[p][j]
  \/ job[p][j] = "waiting" /\ job'[p][j] = "running"
  \/ job[p][j] = "running" /\ job'[p][j] = IF Stopped(p) THEN "off" ELSE "waiting"

\* How a process comes closer to its end, one phase at a time.
Lives(p) ==
  \/ phase'[p] = phase[p] /\ \A j \in Jobs : Runs(p, j)
  \/ phase'[p] \in {"off", "starting", "serving", "closing"}
  \/ /\ phase[p] = "closing" /\ phase'[p] = "stopping" /\ Connected(p) = {}
     /\ \A j \in Jobs : job'[p][j] # "waiting"
  \/ /\ phase[p] = "stopping" /\ phase'[p] = "destroying" /\ job'[p] = job[p]
     /\ \A j \in Jobs : job[p][j] # "running"

LEMMA StepLives ==
  ASSUME ConnectionInv, [Next]_vars, NEW p \in Apis
  PROVE  Lives(p)
  <1> USE DEF Lives
  <1>1. CASE UNCHANGED <<phase, job>>
    BY <1>1 DEF Runs
  <1>2. ASSUME NEW q \in Apis, NEW j \in Jobs, TimerFires(q, j) PROVE Lives(p)
    BY <1>2 DEF TimerFires, Runs, ConnectionInv, SessionInv
  <1>3. ASSUME NEW q \in Apis, NEW j \in Jobs, job[q][j] = "running", job' = EndedRun(q, j), UNCHANGED phase
        PROVE  Lives(p)
    BY <1>3 DEF EndedRun, Runs, ConnectionInv, SessionInv
  <1>4. ASSUME NEW q \in Apis, Gone(q) PROVE Lives(p)
    <2>1. CASE q = p
      BY <1>4, <2>1 DEF Gone, ConnectionInv, SessionInv
    <2>2. CASE q # p
      BY <1>4, <2>2 DEF Gone, Runs, ConnectionInv, SessionInv
    <2> QED
      BY <2>1, <2>2
  <1>5. ASSUME NEW q \in Apis, RunNext(q) PROVE Lives(p)
    <2>1. "relay" \in Jobs /\ "sweep" \in Jobs
      BY EventDeliveryAssumption
    <2>2. CASE StartSweep(q) \/ StartRelay(q)
      BY <1>2, <2>1, <2>2 DEF StartSweep, StartRelay
    <2>3. CASE EndSweep(q)
      BY <1>3, <2>1, <2>3 DEF EndSweep
    <2>4. CASE EndRelay(q) /\ UNCHANGED phase /\ Relaying(q)
      BY <1>3, <2>1, <2>4 DEF EndRelay, ConnectionInv
    <2>5. CASE OpenSession(q) \/ Publish(q)
      BY <1>1, <2>5 DEF OpenSession, Reopen, Publish, apiVars
    <2>6. CASE PublishPoisoned(q) \/ PublishFails(q) \/ MarkFails(q)
      BY <2>4, <2>6 DEF PublishPoisoned, PublishFails, MarkFails, Publishing, LoseChannel, Relaying
    <2>7. CASE MarkPublished(q)
      BY <1>1, <2>4, <2>7 DEF MarkPublished, Relaying
    <2> QED
      BY <1>5, <2>2, <2>3, <2>5, <2>6, <2>7 DEF RunNext
  <1>6. ASSUME NEW q \in Apis, ProcessNext(q) PROVE Lives(p)
    <2> USE DEF ConnectionInv, SessionInv
    <2>1. CASE Start(q) \/ Connect(q) \/ Shutdown(q)
      <3>1. CASE q = p
        BY <2>1, <3>1 DEF Start, Connect, Shutdown
      <3>2. CASE q # p
        BY <2>1, <3>2 DEF Start, Connect, Shutdown, Runs
      <3> QED
        BY <3>1, <3>2
    <2>2. CASE ConnectFails(q) \/ CloseEvent(q) \/ LateCloseEvent(q)
      BY <1>1, <2>2 DEF ConnectFails, CloseEvent, LateCloseEvent
    <2>3. CASE Stop(q)
      <3>1. CASE q = p
        BY <2>3, <3>1 DEF Stop, StopJobs
      <3>2. CASE q # p
        BY <2>3, <3>2 DEF Stop, StopJobs, Runs
      <3> QED
        BY <3>1, <3>2
    <2>4. CASE Close(q)
      <3>1. CASE q = p
        BY <2>4, <3>1 DEF Close, ClosePublisher
      <3>2. CASE q # p
        BY <2>4, <3>2 DEF Close, ClosePublisher, Runs
      <3> QED
        BY <3>1, <3>2
    <2>5. CASE StartFails(q) \/ Exit(q) \/ Crash(q)
      BY <1>4, <2>5 DEF StartFails, Exit, Crash, ClosePublisherFails, DestroyAndExit
    <2> QED
      BY <1>6, <2>1, <2>2, <2>3, <2>4, <2>5 DEF ProcessNext, StartUp, Events, Sigterm
  <1>7. TxNext \/ NetworkNext => UNCHANGED <<phase, job>>
    BY DEF TxNext, Arrive, Enqueue, PoolEnded, Disconnect, Commit, RollBack,
           NetworkNext, DropConnection, Receive, Consume, ConsumeUnanswered,
           BrokerStops, BrokerStarts, NotifierStops, NotifierStarts, apiVars
  <1> QED
    BY <1>1, <1>5, <1>6, <1>7 DEF Next, vars, apiVars

\* From stop() on no client is connected and no run begins; from close() on none is left.
ClosingInv ==
  \A p \in Apis :
    /\ Stopped(p) => Connected(p) = {} /\ \A j \in Jobs : job[p][j] # "waiting"
    /\ phase[p] = "destroying" => \A j \in Jobs : job[p][j] # "running"

LEMMA NextClosing ==
  ASSUME TypeInv, OwnerTypes, ConnectionInv, ClosingInv, [Next]_vars PROVE ClosingInv'
  <1>1. ASSUME NEW p \in Apis, phase'[p] \in {"stopping", "destroying"}
        PROVE  /\ Connected(p)' = {} /\ \A j \in Jobs : job'[p][j] # "waiting"
               /\ phase'[p] = "destroying" => \A j \in Jobs : job'[p][j] # "running"
    <2>1. Lives(p) /\ Connected(p)' \subseteq Connected(p)
      BY <1>1, StepLives, ConnectedShrinks
    <2>2. CASE phase'[p] = phase[p] /\ \A j \in Jobs : Runs(p, j)
      BY <1>1, <2>1, <2>2 DEF ClosingInv, Stopped, Runs
    <2>3. CASE phase[p] = "closing" /\ phase'[p] = "stopping" /\ Connected(p) = {}
               /\ \A j \in Jobs : job'[p][j] # "waiting"
      BY <2>1, <2>3
    <2>4. CASE phase[p] = "stopping" /\ phase'[p] = "destroying" /\ job'[p] = job[p]
               /\ \A j \in Jobs : job[p][j] # "running"
      BY <2>1, <2>4 DEF ClosingInv, Stopped
    <2> QED
      BY <1>1, <2>1, <2>2, <2>3, <2>4 DEF Lives
  <1> QED
    BY <1>1 DEF ClosingInv, Stopped

LEMMA AlwaysClosing == Spec => [](TypeInv /\ OwnerTypes /\ ConnectionInv /\ ClosingInv)
  <1>1. Init => OwnerTypes /\ ClosingInv
    BY DEF Init, ApiInit, OwnerTypes, ClosingInv, Stopped
  <1> QED
    BY <1>1, InitTypeInv, InitConnection, NextTypeInv, NextOwnerTypes, NextConnection, NextClosing,
       PTL DEF Spec

\* stop() and close() one after the other: whatever runs and clients there are when SIGTERM
\* arrives, none is left when the publisher and the pool are closed.
THEOREM NoneIsCutOff == Spec => []NothingClosedInUse
  <1>1. ConnectionInv /\ ClosingInv => NothingClosedInUse
    BY DEF ConnectionInv, SessionInv, ClosingInv, Stopped, NothingClosedInUse
  <1> QED
    BY <1>1, AlwaysClosing, PTL

-------------------------------------------------------------------------------
(* What the notifier refuses *)

LEMMA ContractTypes ==
  /\ ContractOf["booking-held"] = BookingHeld
  /\ ContractOf["booking-confirmed"] = BookingConfirmed
  /\ ContractOf["booking-cancelled"] = BookingCancelled
  /\ ContractOf["booking-expired"] = BookingExpired
  /\ ContractOf["booking-created"] = BookingCreated
  /\ ContractOf["flight-created"] = FlightCreated
BY DEF ContractOf, EventTypes

LEMMA FullPayload ==
  ASSUME NEW t, NEW payload, NEW c, ContractOf[t] = c,
         payload = [f \in FieldsOf(c) |-> "present"]
  PROVE  Parses(t, payload)
BY DEF Parses, FieldsOf

LEMMA OlderPayload ==
  ASSUME NEW t, NEW payload, NEW c, NEW absent, ContractOf[t] = c, absent \subseteq c.optional,
         c.required \cap c.optional = {}, c.nullable = {},
         payload = [f \in FieldsOf(c) |-> IF f \in absent THEN "absent" ELSE "present"]
  PROVE  Parses(t, payload)
BY DEF Parses, FieldsOf

LEMMA UnpaidCancellation == Parses("booking-cancelled", CancelledPayload(FALSE))
<1>1. ContractOf["booking-cancelled"] = BookingCancelled
  BY ContractTypes
<1>2. "refund" \notin BookingCancelled.required /\ BookingCancelled.optional = {} /\ BookingCancelled.nullable = {"refund"}
  BY DEF BookingCancelled, Contract, Envelope
<1> QED
  BY <1>1, <1>2 DEF Parses, CancelledPayload, FieldsOf

\* Of all that was ever written, the parsers refuse only the oldest cancellations.
LEMMA WrittenEventsParse ==
  ASSUME NEW t, NEW payload, <<t, payload>> \in WrittenEvents, ~Parses(t, payload)
  PROVE  payload = CancelledBeforeContract
<1>1. CASE t = "booking-held" /\ payload = HeldPayload
  BY <1>1, ContractTypes, FullPayload DEF HeldPayload
<1>2. CASE t = "booking-held" /\ payload = HeldBeforePrices
  <2>1. BookingHeld.optional = Priced /\ BookingHeld.nullable = {} /\ BookingHeld.required \cap Priced = {}
    BY DEF BookingHeld, Contract, Priced, Passenger, Envelope
  <2> QED
    BY <1>2, <2>1, ContractTypes, OlderPayload DEF HeldBeforePrices
<1>3. CASE t = "booking-confirmed" /\ payload = ConfirmedPayload
  BY <1>3, ContractTypes, FullPayload DEF ConfirmedPayload
<1>4. CASE t = "booking-expired" /\ payload = ExpiredPayload
  BY <1>4, ContractTypes, FullPayload DEF ExpiredPayload
<1>5. CASE t = "booking-cancelled" /\ payload = CancelledPayload(TRUE)
  BY <1>5, ContractTypes, FullPayload DEF CancelledPayload
<1>6. CASE t = "booking-cancelled" /\ payload = CancelledPayload(FALSE)
  BY <1>6, UnpaidCancellation
<1>7. CASE t = "booking-created" /\ payload = CreatedPayload
  BY <1>7, ContractTypes, FullPayload DEF CreatedPayload
<1>8. CASE t = "flight-created" /\ payload = FlightCreatedPayload
  BY <1>8, ContractTypes, FullPayload DEF FlightCreatedPayload
<1>9. CASE t = "flight-created" /\ payload = FlightCreatedBeforeReferences
  <2>1. FlightCreated.nullable = {} /\ FlightCreated.required \cap FlightCreated.optional = {}
    BY DEF FlightCreated, Contract, Envelope
  <2> QED
    BY <1>9, <2>1, ContractTypes, OlderPayload DEF FlightCreatedBeforeReferences
<1>10. CASE t = "flight-created" /\ payload = FlightCreatedBeforeFares
  <2>1. /\ FlightCreated.nullable = {} /\ FlightCreated.required \cap FlightCreated.optional = {}
        /\ {"fares"} \subseteq FlightCreated.optional
    BY DEF FlightCreated, Contract, Envelope
  <2>2. payload = [f \in FieldsOf(FlightCreated) |-> IF f \in {"fares"} THEN "absent" ELSE "present"]
    BY <1>10 DEF FlightCreatedBeforeFares
  <2> QED
    BY <1>10, <2>1, <2>2, ContractTypes, OlderPayload
<1>11. CASE payload = CancelledBeforeContract
  BY <1>11
<1> QED
  BY <1>1, <1>2, <1>3, <1>4, <1>5, <1>6, <1>7, <1>8, <1>9, <1>10, <1>11 DEF WrittenEvents

LEMMA SameDeployment == [Next]_vars => deployment' = deployment
  BY DEF Next, vars, TxNext, Arrive, Enqueue, PoolEnded, Disconnect, Commit, RollBack,
         RunNext, StartSweep, EndSweep, StartRelay, OpenSession, Publish, PublishPoisoned,
         PublishFails, MarkPublished, MarkFails,
         ProcessNext, StartUp, Events, Sigterm, Stop, Close, Exit, Crash, Ends,
         NetworkNext, DropConnection, Receive, Consume, ConsumeUnanswered,
         BrokerStops, BrokerStarts, NotifierStops, NotifierStarts

DeadInv ==
  /\ deployment \in Deployments
  /\ dead \subseteq Msgs /\ \A m \in dead : ~Readable(m)

LEMMA NextDead ==
  ASSUME DeadInv, [Next]_vars PROVE DeadInv'
  <1>1. deployment' = deployment
    BY SameDeployment
  <1>2. dead' = dead \/ \E m \in Msgs : ~Readable(m) /\ dead' = dead \cup {m}
    BY DEF Next, vars, brokerVars, TxNext, Arrive, Enqueue, PoolEnded, Disconnect, Commit, RollBack,
           RunNext, StartSweep, EndSweep, StartRelay, OpenSession, Publish, PublishPoisoned,
           PublishFails, MarkPublished, MarkFails,
           ProcessNext, StartUp, Events, Sigterm, Stop, Close, Exit, Crash, Ends,
           NetworkNext, DropConnection, Receive, Consume, ConsumeUnanswered, Outcome,
           BrokerStops, BrokerStarts, NotifierStops, NotifierStarts
  <1> QED
    BY <1>1, <1>2 DEF DeadInv, Readable

\* The parsers of packages/contracts against all the API has ever written: nothing but
\* cancellations older than their contract ends in a dead-letter queue.
THEOREM OnlyOldOnesAreRefused == Spec => []OnlyOldCancellationsDead
  <1>1. Init => DeadInv
    BY DEF Init, DeadInv
  <1>2. DeadInv => OnlyOldCancellationsDead
    <2> SUFFICES ASSUME DeadInv, NEW m \in dead
                 PROVE  PayloadOf[deployment.kindOf[m]] = CancelledBeforeContract
      BY DEF OnlyOldCancellationsDead
    <2> DEFINE k == deployment.kindOf[m]
    <2>1. k \in Kinds
      BY DeploymentsAssumption DEF DeadInv
    <2>2. ~Parses(TypeOf[k], PayloadOf[k])
      BY <2>1 DEF DeadInv, Readable, Rejected
    <2>3. <<TypeOf[k], PayloadOf[k]>> \in WrittenEvents
      BY <2>1, DeploymentsAssumption
    <2> HIDE DEF k
    <2>4. PayloadOf[k] = CancelledBeforeContract
      BY <2>2, <2>3, WrittenEventsParse
    <2> QED
      BY <2>4 DEF k
  <1> QED
    BY <1>1, <1>2, NextDead, PTL DEF Spec

-------------------------------------------------------------------------------
(* Duplicates *)

\* The processes that may still send m without a fault: any, while it is not marked;
\* then those that had read it before.
Able(m) == {p \in deployment.apis : sent[p] # m /\ (m \in published => m \in batch[p])}

SendsInv ==
  /\ deployment \in Deployments /\ budget \in Nat
  /\ \A p \in Apis : phase[p] # "off" => p \in deployment.apis
  /\ \A m \in Msgs :
       sends[m] + Cardinality(Able(m)) <= Cardinality(deployment.apis) + (deployment.budget - budget)

\* A step that sends nothing, lets nobody send again, or costs a fault; or a send.
Sends(m) ==
  \/ /\ sends'[m] = sends[m] /\ Able(m)' \subseteq Able(m)
     /\ budget' = budget \/ (budget > 0 /\ budget' = budget - 1)
  \/ /\ sends'[m] = sends[m] /\ \E p \in Apis : Able(m)' \subseteq Able(m) \cup {p}
     /\ budget > 0 /\ budget' = budget - 1
  \/ /\ sends'[m] = sends[m] + 1 /\ \E p \in Able(m) : Able(m)' \subseteq Able(m) \ {p}
     /\ budget' = budget

LEMMA RunSends ==
  ASSUME TypeInv, ConnectionInv, SendsInv, NEW p \in Apis, RunNext(p), deployment' = deployment,
         NEW m \in Msgs
  PROVE  Sends(m)
  <1> USE DEF TypeInv, Sends, Able
  <1>0. deployment.apis \subseteq Apis
    BY DeploymentsAssumption DEF SendsInv
  <1>1. CASE StartSweep(p) \/ EndSweep(p) \/ OpenSession(p)
    BY <1>1 DEF StartSweep, EndSweep, OpenSession, relayVars
  <1>2. CASE StartRelay(p)
    <2>1. \A q \in Apis : batch'[q] = IF q = p THEN FindUnpublished ELSE batch[q]
      BY <1>2 DEF StartRelay
    <2>2. FindUnpublished \cap published = {}
      BY DEF FindUnpublished, Unpublished
    <2>3. UNCHANGED <<budget, published, sent, sends>>
      BY <1>2 DEF StartRelay
    <2>4. Able(m)' \subseteq Able(m)
      BY <1>0, <2>1, <2>2, <2>3
    <2> QED
      BY <2>3, <2>4
  <1>3. CASE Publish(p)
    <2>1. PICK k \in Foremost(p) :
            /\ sent' = [sent EXCEPT ![p] = k]
            /\ sends' = [sends EXCEPT ![k] = @ + 1]
      BY <1>3 DEF Publish
    <2>2. k \in batch[p] /\ k \in Msgs /\ sent[p] = None /\ k # None
      BY <1>3, EventDeliveryAssumption DEF Publish, Publishing, Foremost
    <2>3. UNCHANGED <<budget, published, batch>>
      BY <1>3 DEF Publish
    <2>4. \A q \in Apis : sent'[q] = IF q = p THEN k ELSE sent[q]
      BY <2>1
    <2>5. p \in deployment.apis
      <3>1. job[p]["relay"] = "running"
        BY <2>2 DEF ConnectionInv, Relaying
      <3> QED
        BY <3>1, EventDeliveryAssumption DEF ConnectionInv, SendsInv
    <2>6. CASE m = k
      <3>1. p \in Able(m) /\ Able(m)' \subseteq Able(m) \ {p}
        BY <1>0, <2>2, <2>3, <2>4, <2>5, <2>6
      <3>2. sends'[m] = sends[m] + 1
        BY <2>1, <2>6
      <3> QED
        BY <2>3, <3>1, <3>2
    <2>7. CASE m # k
      <3>1. Able(m)' \subseteq Able(m)
        BY <1>0, <2>2, <2>3, <2>4, <2>7, EventDeliveryAssumption
      <3>2. sends'[m] = sends[m]
        BY <2>1, <2>7
      <3> QED
        BY <2>3, <3>1, <3>2
    <2> QED
      BY <2>6, <2>7
  <1>4. CASE PublishPoisoned(p) \/ PublishFails(p)
    <2>1. /\ UNCHANGED <<budget, published, sends>>
          /\ sent[p] = None /\ EndRelay(p)
      BY <1>4 DEF PublishPoisoned, PublishFails, Publishing
    <2>2. Able(m)' \subseteq Able(m)
      BY <1>0, <2>1, EventDeliveryAssumption DEF EndRelay
    <2> QED
      BY <2>1, <2>2
  <1>5. CASE MarkFails(p)
    <2>1. /\ UNCHANGED <<published, sends>> /\ budget > 0 /\ budget' = budget - 1
          /\ EndRelay(p)
      BY <1>5 DEF MarkFails, Fault
    <2>2. Able(m)' \subseteq Able(m) \cup {p}
      BY <1>0, <2>1 DEF EndRelay
    <2> QED
      BY <2>1, <2>2
  <1>6. CASE MarkPublished(p)
    <2>1. sent[p] # None /\ published' = published \cup {sent[p]} /\ UNCHANGED <<budget, sends>>
      BY <1>6 DEF MarkPublished
    <2>2. /\ \A q \in Apis \ {p} : batch'[q] = batch[q] /\ sent'[q] = sent[q]
          /\ batch'[p] \subseteq batch[p] \ {sent[p]} /\ sent'[p] = None
      <3>1. CASE batch[p] # {sent[p]}
        <4>1. /\ batch' = [batch EXCEPT ![p] = batch[p] \ {sent[p]}]
              /\ sent' = [sent EXCEPT ![p] = None]
          BY <1>6, <3>1 DEF MarkPublished
        <4> QED
          BY <4>1
      <3>2. CASE batch[p] = {sent[p]}
        BY <1>6, <3>2 DEF MarkPublished, EndRelay
      <3> QED
        BY <3>1, <3>2
    <2>3. ASSUME NEW q \in Able(m)' PROVE q \in Able(m)
      <3>1. q \in Apis /\ q \in deployment.apis /\ sent'[q] # m
        BY <1>0, <2>3
      <3>2. m \in published' => m \in batch'[q]
        BY <2>3
      <3>3. CASE q # p
        BY <2>1, <2>2, <3>1, <3>2, <3>3
      <3>4. CASE q = p
        BY <2>1, <2>2, <3>1, <3>2, <3>4
      <3> QED
        BY <3>3, <3>4
    <2>4. Able(m)' \subseteq Able(m)
      BY <2>3
    <2> QED
      BY <2>1, <2>4
  <1> QED
    BY <1>1, <1>2, <1>3, <1>4, <1>5, <1>6 DEF RunNext

LEMMA StepSends ==
  ASSUME TypeInv, ConnectionInv, ClosingInv, SendsInv, [Next]_vars, NEW m \in Msgs
  PROVE  Sends(m)
  <1>0. deployment' = deployment /\ deployment.apis \subseteq Apis
    BY SameDeployment, DeploymentsAssumption DEF SendsInv
  <1>1. CASE UNCHANGED relayVars /\ (budget' = budget \/ Fault)
    BY <1>0, <1>1 DEF relayVars, Sends, Able, Fault
  <1>2. TxNext => UNCHANGED relayVars /\ (budget' = budget \/ Fault)
    BY DEF TxNext, Arrive, Enqueue, PoolEnded, Disconnect, Commit, RollBack
  <1>3. NetworkNext => UNCHANGED relayVars /\ (budget' = budget \/ Fault)
    BY DEF NetworkNext, DropConnection, Receive, Consume, ConsumeUnanswered,
         BrokerStops, BrokerStarts, NotifierStops, NotifierStarts
  <1>4. ASSUME NEW p \in Apis, ProcessNext(p) PROVE Sends(m)
    <2>1. CASE StartUp(p) \/ Events(p) \/ Sigterm(p) \/ Stop(p) \/ Close(p)
      BY <1>1, <2>1 DEF StartUp, Events, Sigterm, Stop, Close
    <2>2. Ends(p) => /\ UNCHANGED <<published, sends>>
                     /\ \A q \in Apis : /\ batch'[q] = IF q = p THEN {} ELSE batch[q]
                                        /\ sent'[q] = IF q = p THEN None ELSE sent[q]
      BY DEF Ends, TypeInv
    <2>3. CASE Crash(p)
      <3>1. Able(m)' \subseteq Able(m) \cup {p}
        BY <1>0, <2>2, <2>3 DEF Crash, Able
      <3> QED
        BY <2>2, <2>3, <3>1 DEF Crash, Fault, Sends
    <2>4. CASE Exit(p)
      <3>1. \A j \in Jobs : job[p][j] # "running"
        BY <2>4 DEF Exit, ClosePublisherFails, DestroyAndExit, ClosingInv
      <3>2. sent[p] = None
        BY <3>1, EventDeliveryAssumption DEF ConnectionInv, Relaying
      <3>3. Able(m)' \subseteq Able(m)
        BY <1>0, <2>2, <2>4, <3>2, EventDeliveryAssumption DEF Exit, Able
      <3> QED
        BY <2>2, <2>4, <3>3 DEF Exit, Sends
    <2> QED
      BY <1>4, <2>1, <2>3, <2>4 DEF ProcessNext
  <1>5. CASE UNCHANGED vars
    BY <1>1, <1>5 DEF vars
  <1> QED
    BY <1>0, <1>1, <1>2, <1>3, <1>4, <1>5, RunSends DEF Next

\* Only the processes of the deployment start.
LEMMA StepPhases ==
  ASSUME ConnectionInv, SendsInv, [Next]_vars, NEW p \in Apis, phase'[p] # "off"
  PROVE  p \in deployment.apis
  <1>1. CASE phase[p] # "off"
    BY <1>1 DEF SendsInv
  <1>2. CASE phase[p] = "off"
    <2>1. UNCHANGED phase => FALSE
      BY <1>2
    <2>2. ASSUME NEW q \in Apis, RunNext(q) PROVE FALSE
      BY <2>1, <2>2 DEF RunNext, StartSweep, EndSweep, StartRelay, OpenSession, Publish, PublishPoisoned,
           PublishFails, MarkPublished, MarkFails, TimerFires, Reopen, LoseChannel, apiVars
    <2>3. ASSUME NEW q \in Apis, ProcessNext(q), p # q PROVE FALSE
      BY <1>2, <2>3 DEF ProcessNext, StartUp, Events, Sigterm, Stop, Close, Exit, Crash,
           Start, Connect, ConnectFails, StartFails, CloseEvent, LateCloseEvent, Shutdown, StopJobs,
           ClosePublisher, ClosePublisherFails, DestroyAndExit, Gone, ConnectionInv, SessionInv
    <2>4. ASSUME ProcessNext(p), p \notin deployment.apis PROVE FALSE
      BY <1>2, <2>1, <2>4 DEF ProcessNext, StartUp, Events, Sigterm, Stop, Close, Exit, Crash,
           CloseEvent, LateCloseEvent, Shutdown, StopJobs,
           ClosePublisher, ClosePublisherFails, DestroyAndExit, Gone, ConnectionInv, SessionInv
    <2>5. ~TxNext /\ ~NetworkNext /\ ~UNCHANGED vars
      BY <2>1 DEF TxNext, Arrive, Enqueue, PoolEnded, Disconnect, Commit, RollBack,
           NetworkNext, DropConnection, Receive, Consume, ConsumeUnanswered,
           BrokerStops, BrokerStarts, NotifierStops, NotifierStarts, vars, apiVars
    <2> QED
      BY <2>2, <2>3, <2>4, <2>5 DEF Next
  <1> QED
    BY <1>1, <1>2

LEMMA NextSends ==
  ASSUME TypeInv, ConnectionInv, ClosingInv, SendsInv, [Next]_vars PROVE SendsInv'
  <1>0. deployment' = deployment
    BY SameDeployment
  <1>1. ASSUME NEW m \in Msgs
        PROVE  /\ budget' \in Nat
               /\ sends'[m] + Cardinality(Able(m)')
                    <= Cardinality(deployment.apis) + (deployment.budget - budget')
    <2>1. IsFiniteSet(deployment.apis) /\ deployment.budget \in Nat
      BY DeploymentsAssumption DEF SendsInv
    <2>2. Able(m) \subseteq deployment.apis /\ Able(m)' \subseteq deployment.apis
      BY <1>0 DEF Able
    <2>3. IsFiniteSet(Able(m)) /\ IsFiniteSet(Able(m)')
      BY <2>1, <2>2, FS_Subset
    <2>4. /\ Cardinality(Able(m)) \in Nat /\ Cardinality(Able(m)') \in Nat
          /\ Cardinality(deployment.apis) \in Nat
      BY <2>1, <2>3, FS_CardinalityType
    <2>5. sends[m] \in Nat /\ budget \in Nat
      BY DEF TypeInv, SendsInv
    <2>6. sends[m] + Cardinality(Able(m)) <= Cardinality(deployment.apis) + (deployment.budget - budget)
      BY DEF SendsInv
    <2>7. CASE /\ sends'[m] = sends[m] /\ Able(m)' \subseteq Able(m)
               /\ budget' = budget \/ (budget > 0 /\ budget' = budget - 1)
      <3>1. Cardinality(Able(m)') <= Cardinality(Able(m))
        BY <2>3, <2>7, FS_Subset
      <3> HIDE DEF Able
      <3> QED
        BY <2>1, <2>4, <2>5, <2>6, <2>7, <3>1
    <2>8. CASE /\ sends'[m] = sends[m] /\ \E p \in Apis : Able(m)' \subseteq Able(m) \cup {p}
               /\ budget > 0 /\ budget' = budget - 1
      <3>1. PICK p \in Apis : Able(m)' \subseteq Able(m) \cup {p}
        BY <2>8
      <3>2. /\ IsFiniteSet(Able(m) \cup {p})
            /\ Cardinality(Able(m) \cup {p}) <= Cardinality(Able(m)) + 1
            /\ Cardinality(Able(m) \cup {p}) \in Nat
        <4>1. /\ IsFiniteSet(Able(m) \cup {p})
              /\ \/ Cardinality(Able(m) \cup {p}) = Cardinality(Able(m))
                 \/ Cardinality(Able(m) \cup {p}) = Cardinality(Able(m)) + 1
          BY <2>3, FS_AddElement
        <4> QED
          BY <2>4, <4>1
      <3>3. Cardinality(Able(m)') <= Cardinality(Able(m) \cup {p})
        BY <3>1, <3>2, FS_Subset
      <3> QED
        BY <2>1, <2>4, <2>5, <2>6, <2>8, <3>2, <3>3
    <2>9. CASE /\ sends'[m] = sends[m] + 1 /\ \E p \in Able(m) : Able(m)' \subseteq Able(m) \ {p}
               /\ budget' = budget
      <3>1. PICK p \in Able(m) : Able(m)' \subseteq Able(m) \ {p}
        BY <2>9
      <3>2. /\ IsFiniteSet(Able(m) \ {p})
            /\ Cardinality(Able(m) \ {p}) = Cardinality(Able(m)) - 1
        BY <2>3, FS_RemoveElement
      <3>3. Cardinality(Able(m)') <= Cardinality(Able(m) \ {p})
        BY <3>1, <3>2, FS_Subset
      <3> QED
        BY <2>1, <2>4, <2>5, <2>6, <2>9, <3>2, <3>3
    <2> QED
      BY <2>7, <2>8, <2>9, StepSends DEF Sends
  <1>2. budget' \in Nat
    <2>1. budget' = budget \/ Fault
      <3>1. ASSUME NEW p \in Apis, RunNext(p) PROVE budget' = budget \/ Fault
        BY <3>1 DEF RunNext, StartSweep, EndSweep, StartRelay, OpenSession, Publish, PublishPoisoned,
             PublishFails, MarkPublished, MarkFails
      <3>2. ASSUME NEW p \in Apis, ProcessNext(p) PROVE budget' = budget \/ Fault
        BY <3>2 DEF ProcessNext, StartUp, Events, Sigterm, Stop, Close, Exit, Crash
      <3>3. TxNext \/ NetworkNext => budget' = budget \/ Fault
        BY DEF TxNext, Arrive, Enqueue, PoolEnded, Disconnect, Commit, RollBack,
             NetworkNext, DropConnection, Receive, Consume, ConsumeUnanswered,
             BrokerStops, BrokerStarts, NotifierStops, NotifierStarts
      <3> QED
        BY <3>1, <3>2, <3>3 DEF Next, vars
    <2>2. budget \in Nat
      BY DEF SendsInv
    <2> QED
      BY <2>1, <2>2 DEF Fault
  <1> QED
    BY <1>0, <1>1, <1>2, StepPhases DEF SendsInv

\* At-least-once, but no more than this: a row is sent once by each process that had read it,
\* and once more for each fault, for any number of processes, rows and faults.
THEOREM DuplicatesStayBounded == Spec => []DuplicatesBounded
  <1>1. Init => SendsInv
    <2> SUFFICES ASSUME Init PROVE SendsInv
      OBVIOUS
    <2>1. deployment \in Deployments /\ budget = deployment.budget
      BY DEF Init
    <2>2. /\ IsFiniteSet(deployment.apis) /\ deployment.budget \in Nat
          /\ \A p \in deployment.apis : p \in Apis
      BY <2>1, DeploymentsAssumption
    <2>3. ASSUME NEW m \in Msgs
          PROVE  sends[m] + Cardinality(Able(m)) <= Cardinality(deployment.apis)
      <3>1. Able(m) \subseteq deployment.apis /\ sends[m] = 0
        BY DEF Able, Init
      <3> QED
        BY <2>2, <3>1, FS_Subset, FS_CardinalityType
    <2>4. \A p \in Apis : phase[p] = "off"
      BY DEF Init, ApiInit
    <2>5. deployment.budget - budget = 0 /\ budget \in Nat
      BY <2>1, <2>2
    <2>6. \A n \in Int : n + (deployment.budget - budget) = n
      BY <2>5
    <2>7. Cardinality(deployment.apis) \in Int
      BY <2>2, FS_CardinalityType
    <2> QED
      BY <2>1, <2>3, <2>4, <2>5, <2>6, <2>7 DEF SendsInv
  <1>2. TypeInv /\ SendsInv => DuplicatesBounded
    <2> SUFFICES ASSUME TypeInv, SendsInv, NEW m \in Msgs
                 PROVE  sends[m] <= Cardinality(deployment.apis) + (deployment.budget - budget)
      BY DEF DuplicatesBounded
    <2>1. IsFiniteSet(deployment.apis) /\ deployment.budget \in Nat /\ budget \in Nat
      BY DeploymentsAssumption DEF SendsInv
    <2>2. IsFiniteSet(Able(m))
      BY <2>1, FS_Subset DEF Able
    <2>3. Cardinality(Able(m)) \in Nat /\ Cardinality(deployment.apis) \in Nat /\ sends[m] \in Nat
      BY <2>1, <2>2, FS_CardinalityType DEF TypeInv
    <2>4. sends[m] + Cardinality(Able(m)) <= Cardinality(deployment.apis) + (deployment.budget - budget)
      BY DEF SendsInv
    <2> QED
      BY <2>1, <2>3, <2>4
  <1>3. Spec => []SendsInv
    BY <1>1, AlwaysClosing, NextSends, PTL DEF Spec
  <1> QED
    BY <1>2, <1>3, AlwaysClosing, PTL
===============================================================================
