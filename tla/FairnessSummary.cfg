SPECIFICATION Spec
CONSTANTS
  Campaigns <- Campaign
  Options <- Option
  Pods = 1
  Malicious = 2
  Mishaps = 2
INVARIANT UnmeasuredIsNotCompared
