CONSTANTS
  Calls = {c1, c2}
  NoCall = NoCall
  MaxTicket = 2
  MaxQueue = 2
SPECIFICATION Spec
SYMMETRY Symmetry
INVARIANTS
  TicketPresent
  AnswerMatches
  RunOnceInOrder
  LowOvertakesAtMostOnce
  
PROPERTY
  ImplementsCallService
