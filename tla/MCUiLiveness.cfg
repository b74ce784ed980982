SPECIFICATION UiSpec
CONSTANTS
  Program <- MCProgram
  QueueDepth = 1
  None = None
  ClockStep = 1200
  MaxElapsed = 1200
  Opened <- MCOpened
  Q1Page <- MCQ1Page
  ArcPage <- MCArcPage
PROPERTIES EndIsShown
