SPECIFICATION FairSpec
CONSTANTS
  Bank <- OneBank
  Row <- Rows
  Col <- Places
  Byte <- AllBytes
  NoByte <- Nothing
  Stored <- Unwritten
  Cells <- RamCells
  BistAdr <- TestAdr
  BistPat <- TestPat
  Settle = 2
  RefPeriod = 90
  HTotal = 240
  VTotal = 3
  VFirst = 0
  VLast = 1
  X0Wide = 72
  X0Narrow = 60
  Tiles = 3
  TileLines = 2
  CpuByte <- OwnByte
  CpuCells <- CellsOfCpu
  Modes <- AllModes
  ModeGap = 120
  ModeTimes <- TwoTimes
INVARIANTS
  RowRule
  RefreshKept
  CpuReadsBack
  BistVerdict
  PixelsInOrder
PROPERTIES
  PowersUp
