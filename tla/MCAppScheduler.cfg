SPECIFICATION LinkSpec
CONSTANTS
  Table <- MCTable
  Modulus = 16
  MaxLag = 3
  BufferSize = 3
  UartSlots = 1
  Hal = 1
  Debug = 3
  Byte <- MCByte
  MuteMs = 4
  SyncLine <- MCSyncLine
  Reports <- MCReports
INVARIANTS KeepsItsGrid
PROPERTIES CalledWhenOwed EveryNodeIsServed ImplementsLineFifo EveryByteLeaves
