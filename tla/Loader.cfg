CONSTANTS
  Forms <- TwoForms
  Drives <- TwoDrives
  DirSizes = {6}
  TextSizes = {3, 6}
  Depth = 2
  Entry <- AllEntries
  Blank = 0
  Beats = 2
  MaxSects = 2
  Sectors <- AllSectors
  Garbage <- NoBytes
  Images = {"a", "b"}
  NoImage = "none"
  Size <- Sizes
  RomDrive = 4
  BasDrive = 5
  LineBytes = 2
  Bytes = 4
  ByteTime = 2
  CpuCycle = 3
SPECIFICATION FairSpec
INVARIANTS
  SelectedShown
  RomCopyWhole
  ProgramWhole
PROPERTIES
  ReturnsToOpener
  PokeIsQueue
  LoadEnds
  JobEnds
