SPECIFICATION Spec
CONSTANTS
  User = {u1, u2}
  Session = {s1, s2, s3, s4}
  Worker = {w1}
  AccessLife = 1
  RefreshLife = 2
  MaxTime = 2
  None = None
SYMMETRY Symmetry
INVARIANTS
  SingleUse
  LogoutIsFinal
PROPERTIES
  RotationContractHolds
