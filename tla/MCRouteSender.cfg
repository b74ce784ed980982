SPECIFICATION SenderSpec
CONSTANTS
  Enabled <- MCEnabled
  MinKnown = 4
  MinGap = 8
  BlackMax = 42
  WhiteMin = 48
  Fields <- MCFields
  Usual <- MCUsual
  Noise <- MCNoise
  VoteFrames = 3
  Timeout = 4
  SendPeriod = 3
  MaxFrame = 2
  MaxLoop = 2
INVARIANTS RouteIsSafe NoiseIsVotedDown
PROPERTIES RouteIsSent
