CONSTANTS
  Calls = {c1}
  NoCall = NoCall
  MaxTicket = 2
  MaxQueue = 1
SPECIFICATION FairSpec
PROPERTIES
  BacklogServed
  CallReturns
  StopHeard
  KeepsServing
