SPECIFICATION Spec
CONSTANTS
  NClients = 2
  s1 = s1
  s2 = s2
  Sector <- TwoSectors
  Beats = 2
  NoBeat = NoBeat
  NoLba = NoLba
  MinGap = 3
  Mixes <- OnlyWriting
INVARIANTS
  LockCoversTransfer
