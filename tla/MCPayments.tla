------------------------------ MODULE MCPayments ------------------------------
(* MCPayments.cfg: two requests, with one key or two, and the job; or one    *)
(* request and two workers, which may hold the same payment once its lease   *)
(* is over.  MCPaymentsFinish.cfg: liveness.  MCTwoKeys.cfg: the two tabs of *)
(* the finding.                                                              *)
EXTENDS Payments, TLC

\* Actors and keys differ only in name; used by the runs without liveness.
SymmetricNames == Permutations(Requests) \cup Permutations(Workers) \cup Permutations(Keys)

\* Init, but for one actor that never comes.
OneOutInit ==
  /\ Ledger!Init
  /\ closing = {}
  /\ due = {}
  /\ attempts = [p \in Requests |-> 0]
  /\ tried = [p \in Requests |-> 0]
  /\ keyRow = [k \in Keys |-> Free]
  /\ keyClaim = [k \in Keys |-> None]
  /\ \E out \in Actors : pc = [x \in Actors |-> IF x = out THEN "done" ELSE "idle"]
  /\ req = [r \in Requests |-> None]
  /\ job = [x \in Actors |-> NoJob]
  /\ told = [r \in Requests |-> "nothing"]
  /\ crashes = 0

OneOutSpec == OneOutInit /\ [][Next]_vars
===============================================================================
