SPECIFICATION Spec
CONSTANTS
  MaxCalls = 1
  MaxLost = 1
  MaxStall = 3
  FirstMinute = 6
  MayRefuse = TRUE
INVARIANTS ExecutedOnceInOrder CommandsHeard 
