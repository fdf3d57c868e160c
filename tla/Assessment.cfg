\* A subsystem of two resources, and every way to ask for the subsystems.
SPECIFICATION Spec
CONSTANT
  Catalogue <- MCCatalogue
INVARIANT TypeOK
INVARIANT WorstCase
INVARIANT BoundIsMeasured
INVARIANT ReportIsComplete
