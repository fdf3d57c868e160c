SPECIFICATION Spec
CONSTANTS
  Duration = 6
  Interval = 2
  MaxService = 3
  Mishaps = 2
INVARIANTS
  TypeOK
  LoadIsOffered
  LitterIsExplained
