SPECIFICATION FairSpec
CONSTANTS
  Queues <- TheQueues
  MaxElements = 8
  MaxRefused = 1
  Nothing = Nothing
INVARIANTS SlotsApart RoomAsPromised
PROPERTIES ImplementsQueue DequeueComes
