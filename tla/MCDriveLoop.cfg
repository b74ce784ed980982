SPECIFICATION Spec
CONSTANTS
  Program <- MCProgram
  BoostTicks = 2
  ReleaseTicks = 3
  SteadyTicks = 2
  FreezeError = 1
  DoneError = 3
  DoneHold = 2
  Lead = 3
  MaxStep = 1
  MaxAway = 9
  KeyGap = 6
VIEW FromOrigin
INVARIANTS TargetIsThisPhases ExitWindowsBelong
PROPERTIES NeverFrozenShortOfExit BoostEndsFirst StartsAtRest
