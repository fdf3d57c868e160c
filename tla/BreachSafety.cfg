\* Every experiment the subsystems declare, and the two that share a target.
SPECIFICATION Spec
CONSTANTS
  Pods <- MCPods
  Services <- MCServices
  Experiments <- TheExperiments
  Plans <- MCPlans
  AddressAttempts = 1
  SecretAttempts = 1
INVARIANTS
  TypeOK
  BreachIsReal
  HardIsTrue
  SilenceDecidesNothing
  NothingLeftBehind

