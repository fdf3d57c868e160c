SPECIFICATION Spec
CONSTANTS
  Campaigns <- Campaign
  Options <- Option
  Pods = 1
  Malicious = 2
  Mishaps = 2
INVARIANTS
  TypeOK
  SamplesAreFresh
  EverySubsystemIsReported
  ObstaclesAreExplained
  NoiseIsExplained
PROPERTIES
  LevelIsMeasured
  Termination
