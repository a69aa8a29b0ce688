SPECIFICATION Spec
CONSTANTS
  MaxCalls = 1
  MaxLost = 0
  MaxStall = 2
  FirstMinute = 61
  MayRefuse = FALSE
INVARIANT LockAgrees
