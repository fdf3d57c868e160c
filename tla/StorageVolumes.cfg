\* Two operations in a row at most, two nodes, one failing request.
SPECIFICATION Spec
CONSTANTS
  n1 = n1
  n2 = n2
  Plans <- MCPlans
  Nodes <- MCNodes
  MaxMishaps = 1
SYMMETRY Swapped
INVARIANTS
  TypeOK
  CleanUpOnEveryPath
PROPERTIES
  FindingsAreReal
  RefusalsAreExplained
