------------------------------- MODULE Delivery -------------------------------
(***************************************************************************)
(* What the outbox promises its consumers: an event is settled (consumed,  *)
(* or dead-lettered) only if the transaction that wrote it has committed,  *)
(* and neither is ever taken back.                                         *)
(***************************************************************************)
CONSTANT Msgs

VARIABLES committed, settled

Init == committed = {} /\ settled = {}

Commit(m) == committed' = committed \cup {m} /\ UNCHANGED settled

Settle(m) ==
  /\ m \in committed
  /\ settled' = settled \cup {m}
  /\ UNCHANGED committed

Next == \E m \in Msgs : Commit(m) \/ Settle(m)

Spec == Init /\ [][Next]_<<committed, settled>>
===============================================================================
