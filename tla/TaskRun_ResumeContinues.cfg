SPECIFICATION Spec
CONSTANTS
  a = a
  b = b
  web = web
  ast = ast
  scan = scan
  Steps <- TwoSteps
  Registry <- ThreeTools
  Granted <- TwoGranted
  Proposed <- Plans
  NoPlan = NoPlan
  MaxSteps = 2
  MaxLimit = 10
  FallbackLimit = 6
  MaxRecovery = 2
  MaxPerStep = 2
  MaxResumes = 2
INVARIANTS
  ResumeContinues
CHECK_DEADLOCK FALSE
