SPECIFICATION Spec
CONSTANTS
  ChunkCount = 2
  SampleCount = 2
  RetryTicks = 3
  ApplyTicks = 2
  MaxHeading = 2
  AutoZeroTicks = 8
  MaxDistance = 3
INVARIANTS HeadingNeedsLock ServedNotStale
PROPERTIES LockedAfterCalibration FrameHolds GyroComesBack
