SPECIFICATION Spec
CONSTANTS
  Campaigns <- Campaign
  Mishaps = 2
INVARIANTS
  TypeOK
  TenantsAreGuarded
PROPERTIES
  SetupIsWhole
  FreshSetupsSucceed
