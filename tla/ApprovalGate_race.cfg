SPECIFICATION Spec
CONSTANTS
  a1 = a1
  q1 = q1
  q2 = q2
  d1 = d1
  d2 = d2
  r1 = r1
  r2 = r2
  Actions <- OneAction
  Revisions <- TwoRevisions
  Requests <- TwoRequests
  Deciders <- TwoDeciders
  MaxVersion = 2
  Ttl = 1
  NoRequest = NoRequest
  NoAction = NoAction
  NoRevision = NoRevision
SYMMETRY PeerSymmetry
INVARIANTS
  StartsOnCurrentRules
  StartsAsApproved
  RecordedUnderOnePolicy
  AnswersAreKept
  WaitsForOwnRequest
CHECK_DEADLOCK FALSE
