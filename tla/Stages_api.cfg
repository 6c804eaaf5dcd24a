SPECIFICATION Spec
CONSTANTS
  c1 = c1
  c2 = c2
  s1 = s1
  s2 = s2
  t1 = t1
  t2 = t2
  w1 = w1
  w2 = w2
  Owner = owner
  Users = {owner, user}
  NoUser = NoUser
  NoSession = NoSession
  NoKey = NoKey
  NoTask = NoTask
  Clients <- TwoClients
  SessionIds <- TwoSessions
  Tasks <- TwoTasks
  Keys = {key}
  Goals = {"goal"}
  RequireOwnerAuth = FALSE
  Workers <- TwoWorkers
  StageLimit = 1
  MaxStages = 2
  MaxAttempts = 1
SYMMETRY PeerSymmetry
CONSTRAINT OneRaceAtATime
INVARIANTS
  TypeOK
  DisabledHoldsNothing
  AnswersAreOwn
PROPERTIES
  VerdictsStand
CHECK_DEADLOCK FALSE
