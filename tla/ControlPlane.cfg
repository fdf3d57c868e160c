\* Every operation on each class of kinds, with tenants that share an API server or not.
SPECIFICATION Spec
CONSTANTS
  PollAttempts = 2
INVARIANTS
  TypeOK
  BreachIsReal
  BreachIsSeen
  DeleteAnswersForItself
  RealObjectsAreExplained
  LitterIsExplained
