SPECIFICATION FairSpec
CONSTANTS
  NClients = 2
  s1 = s1
  s2 = s2
  Sector <- TwoSectors
  Beats = 2
  NoBeat = NoBeat
  NoLba = NoLba
  MinGap = 3
  Mixes <- ManyMixes
INVARIANTS
  ServedDone
  OwnBytesOnly
  RightBytesWritten
  ServesTheRequest
  McuReadsItsSector
  NoRequestForgotten
PROPERTIES
  LeaseEnds
  OsdIsServed
