SPECIFICATION FairSpec
CONSTANTS
  Beats = 2
  l1 = l1
  l2 = l2
  Lba <- MCLba
  NoLba = NoLba
  MaxBad = 7
  BadCmds <- MCBadCmds
  MaxSilent = 2
INVARIANTS
  DoneMeansMoved
  AddressUnitFits
PROPERTIES
  BecomesReady
  RequestsAreAnswered
