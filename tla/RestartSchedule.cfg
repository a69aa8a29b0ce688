SPECIFICATION FairSpec
CONSTANTS
  BootMinutes = 1
INVARIANTS WarningsKeepTheirWord RestartsOnce
 
