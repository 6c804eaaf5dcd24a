SPECIFICATION ViewedSpec
CONSTANTS
  a1 = a1
  q1 = q1
  q2 = q2
  d1 = d1
  d2 = d2
  r1 = r1
  r2 = r2
  Actions <- OneAction
  Revisions <- OneRevision
  Requests <- TwoRequests
  Deciders <- OneDecider
  MaxVersion = 2
  Ttl = 1
  NoRequest = NoRequest
  NoAction = NoAction
  NoRevision = NoRevision
PROPERTIES
  LapsedApprovalExpires
CHECK_DEADLOCK FALSE
