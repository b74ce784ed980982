SPECIFICATION HistorySpec
CONSTANTS
  Program <- MCProgram
  QueueDepth = 1
  None = None
  ClockStep = 400
  MaxElapsed = 1200
PROPERTIES HoldRespected
VIEW View
