SPECIFICATION FairLockSpec
CONSTANTS
  User = {u1}
  Session = {1, 2, 3}
  Worker = {w1, w2}
  AccessLife = 1
  RefreshLife = 1
  MaxTime = 0
  MaxKey = 3
  None = None
CONSTRAINT AccountsActive
INVARIANTS
  LockTypeOK
  NoCircularWait
PROPERTIES
  CommitsAreAtomic
  LogoutsEnd
