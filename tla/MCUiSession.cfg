SPECIFICATION UiSpec
CONSTANTS
  Program <- MCProgram
  QueueDepth = 2
  None = None
  ClockStep = 400
  MaxElapsed = 1200
  Opened <- MCOpened
  Q1Page <- MCQ1Page
  ArcPage <- MCArcPage
INVARIANTS TaskBelongsToPage NeverTurnedDown ScreenIsCoherent ArcStaysAnArc
PROPERTIES SettingsFrozenWhileBusy
VIEW View
