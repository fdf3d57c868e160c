\* What the method promises, and that it ends: every experiment the subsystems declare but the first, one at a time.
SPECIFICATION Spec
CONSTANTS
  Pods <- MCPods
  Services <- MCServices
  Experiments <- TheExperiments
  Plans <- MCSingle
  AddressAttempts = 0
  SecretAttempts = 1
PROPERTIES
  ImplementsMethod
  Termination
