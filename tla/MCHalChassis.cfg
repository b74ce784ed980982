SPECIFICATION Spec
CONSTANTS
  WheelCount = 2
  DutyLimit = 3
  SlewStep = 2
  ReverseStep = 3
  MaxTurn = 3
CONSTRAINT OneHalfMoves
INVARIANTS PinsAgree StopsInTime TicksFollowTheWheel
