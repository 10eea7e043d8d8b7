SPECIFICATION Spec
CONSTANTS
  NClients = 4
  s1 = s1
  s2 = s2
  s3 = s3
  Sector <- MCSector
INVARIANTS
  TypeOK
  OneRequester
  DoneAfterLease
PROPERTIES
  LeaseIsFrozen
  ImplementsLease
