\* Both tests, two addresses and two rounds, with every failing request.
SPECIFICATION Spec
CONSTANTS
  node = node
  hop = hop
  Addresses <- MCAddresses
  Rounds = 2
  ServingAttempts = 1
SYMMETRY Swapped
INVARIANTS
  TypeOK
  NothingLeftBehind
PROPERTIES
  SharingIsReal
  HardIsMeasured
  ImplementsMethod
