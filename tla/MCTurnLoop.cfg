SPECIFICATION TurnSpec
CONSTANTS
  FilterDiv = 2
  Deadband = 1
  IntegrateFrom = 2
  ActiveCount = 2
  MaxSamples = 2
  Half = 36
  Scale = 4
  Turns <- MCTurns
  ProgramTurns = 2
  MaxTurns = 2
  Swing = 5
  MinError = 2
  SoftError = 6
  SoftDuty = 100
  MinDuty = 160
  MaxDuty = 240
  DutyKp = 1050
  YawDamp = 500
  SteerDuty = 100
  DoneError <- MCDoneError
  DoneYaw <- MCDoneYaw
  DoneHold <- MCDoneHold
  StallError = 3
  StallYaw = 0
  StallDelta = 0
  StallHold = 3
  Rates <- MCRates
  Moves <- MCMoves
  StickDuty = 146
INVARIANTS TurnsAsTold SwingIsSmall HeadingTrails
PROPERTIES EveryTurnEnds
