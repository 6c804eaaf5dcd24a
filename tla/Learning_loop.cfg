SPECIFICATION KnowledgeSpec
CONSTANTS
  r1 = r1
  r2 = r2
  i1 = i1
  i2 = i2
  i3 = i3
  s1 = s1
  s2 = s2
  k1 = k1
  k2 = k2
  k3 = k3
  f3 = f3
  e1 = e1
  x1 = x1
  p1 = p1
  p2 = p2
  f1 = f1
  f2 = f2
  Runners <- TwoRunners
  Ids <- ThreeIds
  Available <- TwoTools
  SourceIds <- TwoSources
  ClaimIds <- ThreeClaims
  EvidenceIds <- OneItem
  ConflictIds <- OneConflict
  Places <- TwoPlaces
  Statements <- ThreeStatements
  MaxVersion = 2
  Failures = {"VERIFICATION_FAILED"}
  Decisions = {"CONFIRM"}
  MaxResults = 5
  MinSupport = 2
  MinConfidence = 65
SYMMETRY PeerSymmetry
CONSTRAINT OneLoopAtATime
INVARIANTS
  DetoursAreEarned
  ActiveIsBacked
  ConflictsAreGrounded
PROPERTIES
  EvidenceIsKept
  ClaimsOnlyAdvance
CHECK_DEADLOCK FALSE
