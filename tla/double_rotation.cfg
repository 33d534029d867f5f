SPECIFICATION Spec
CONSTANTS
  User = {u1}
  Session = {s1, s2, s3}
  Worker = {w1, w2}
  AccessLife = 1
  RefreshLife = 2
  MaxTime = 1
  None = None
SYMMETRY Symmetry
INVARIANT SingleUse
