CONSTANTS
  SectorBytes = 2
  DataBits = 1
  Magic <- TwoMagic
  HeaderBits = 1
  Blank <- NoPlace
  MaxSize = 6
  ByteAt <- AByte
  File <- TwoFiles
  DiskBytes = 4
  CountMax = 2
  MaxSects = 2
  Values = {0, 1}
  Nothing <- Unread
  DiskSize <- Sizes
  Outside <- NoPlace
  Images = {"a", "b"}
  NoImage = "none"
  LostImage = "lost"
SPECIFICATION DrivesSpec
INVARIANTS
  TapeSaysFile
  PlayedHalfKept
  ReadsImage
  WritesLand
PROPERTIES
  TapeRunsOut
  SectorEnds
