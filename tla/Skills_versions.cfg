SPECIFICATION Spec
CONSTANTS
  r2 = r2
  i1 = i1
  i2 = i2
  s1 = s1
  s2 = s2
  s3 = s3
  Runners = {r2}
  Ids = {i1, i2}
  Available <- TwoTools
  Failures = {}
  Decisions = {}
  MaxResults = 5
  MinSupport = 2
  MinConfidence = 65
  Manager = r2
  SkillIds <- ThreeSkillIds
  Capabilities = {"filesystem", "subprocess"}
  MaxVersion = 3
  Inherited <- VersionOf
  Successes = 1
  MinExecutions = 2
  MaxExecutions = 3
SYMMETRY IdSymmetry
INVARIANTS
  TypeOK
  
PROPERTIES
  OutOfServiceForGood
CHECK_DEADLOCK FALSE
