SPECIFICATION FairSpec
CONSTANTS
  Beats = 2
  l1 = l1
  l2 = l2
  Lba <- MCLba
  NoLba = NoLba
  MaxBad = 0
  BadCmds <- MCBadCmds
  MaxSilent = 1
INVARIANTS
  NoRetryOnWrite
