SPECIFICATION FairSpec
CONSTANTS
  Server = {altis, stratis}
  Player = {p}
  NoServer = NoServer
  MaxRows = 2
  MaxJoins = 3
  MaxSaves = 1
  MaxCrashes = 1
  MaxFailures = 1
  world_id <- SameWorld
INVARIANTS ClaimHonest ClaimHeld OneAlive StatsOnce
PROPERTIES FreshLoad ClaimsReleased
