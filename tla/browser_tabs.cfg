SPECIFICATION Spec
CONSTANTS
  User = {u1, u2}
  Session = {s1, s2, s3}
  Tab = {b1, b2}
  None = None
SYMMETRY Symmetry
INVARIANTS
  TypeOK
  AnswersAreFresh
PROPERTIES
  KeepsGoodRefreshToken
  KeepsGoodAccessToken
