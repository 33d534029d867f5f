SPECIFICATION Spec
CONSTANTS
  User = {u1}
  Session = {s1, s2, s3}
  Worker = {w1, w2}
  AccessLife = 1
  RefreshLife = 2
  MaxTime = 2
  None = None
SYMMETRY Symmetry
VIEW WithoutEnded
INVARIANTS
  TypeOK
  ForkBounded
  SuccessorLink
PROPERTIES
  ExpiryHolds
  RevocationIsFinal
  DeactivationHolds
  LogoutHolds
  OverlapContractHolds
