SPECIFICATION Spec
CONSTANTS
  Key = {k1}
  Worker = {w1, w2, w3}
  Offset <- MCOffset
  MaxTime = 3
  None = None
SYMMETRY Symmetry
INVARIANTS
  TypeOK
  UsedBeforeExpiry
PROPERTIES
  RevokedIsShutOut
  RevocationIsFinal
CHECK_DEADLOCK FALSE
