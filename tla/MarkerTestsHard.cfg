\* Hard of the node network test where no marker was ever served.
SPECIFICATION Spec
CONSTANTS
  node = node
  hop = hop
  Addresses <- MCAddresses
  Rounds = 1
  ServingAttempts = 1
PROPERTY HardNeedsAMarker
