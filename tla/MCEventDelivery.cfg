SPECIFICATION FairSpec
CONSTANTS
  a1 = a1
  a2 = a2
  m1 = m1
  m2 = m2
  m3 = m3
  Apis = {a1, a2}
  Jobs = {"relay", "sweep"}
  Msgs = {m1, m2, m3}
  Kinds = {"held", "confirmed", "cancelled", "refunded", "expired", "flight", "old held", "old cancelled", "old flight", "unpriced flight", "old created"}
  ByJob = {m3}
  TypeOf <- MCTypeOf
  PayloadOf <- MCPayloadOf
  BatchSize = 2
  MaxAttempts = 2
  Deployments <- MCDeployments
  LoseBuffered = FALSE
  None = None
INVARIANTS
  CausesSentFirst
  DuplicatesBounded
  OneConnection
  NothingClosedInUse
  OnlyOldCancellationsDead
PROPERTIES
  SettlesOnlyCommitted
  EveryEventSettles
  ShutdownCompletes
CHECK_DEADLOCK FALSE
