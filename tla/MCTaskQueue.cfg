SPECIFICATION Spec
CONSTANTS
  Program <- MCProgram
  QueueDepth = 2
  None = None
  ClockStep = 100
  MaxElapsed = 200
INVARIANTS NoDoubleBooking
PROPERTIES ImplementsActionQueue EveryRequestLeavesTheRing EveryActionEnds
