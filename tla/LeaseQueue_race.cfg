SPECIFICATION FairSpec
CONSTANTS
  w1 = w1
  w2 = w2
  t1 = t1
  Workers <- TwoWorkers
  Tasks <- OneTask
  MaxAttempts = 3
  Ttl = 2
  NoWorker = NoWorker
  NoTask = NoTask
INVARIANTS
  SingleExecutor
  ClaimableNeverExecuted
  ClosedRowMatchesState
  OwnerSeesDurable
  CompletedByLastClaim
PROPERTIES
  LateWritesRefused
  VerdictIsFinal
  ImplementsContract
  LeaseEventuallyClosed
  ClaimableEventuallyClaimed
CHECK_DEADLOCK FALSE
