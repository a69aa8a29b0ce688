SPECIFICATION Spec
CONSTANTS
  tent = tent  mortar = mortar  stray = stray  camp = camp  truck = truck  heli = heli
  Deployable <- TheDeployables
  House = {camp}
  Vehicle = {truck, heli}
  Unregistered = {mortar}
  Nameless = {stray}
  Casts <- TheCasts
  MaxVersion = 2
  MaxIds = 3
  MaxCalls = 2
  MaxFailures = 1
  MaxCrashes = 1
INVARIANTS TableFollowsScript IdsAreTheirs
PROPERTY NeighboursUntouched
