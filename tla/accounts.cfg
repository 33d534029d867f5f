SPECIFICATION Spec
CONSTANTS
  mail = mail
  Mail = Mail
  User = {u1, u2}
  Name = {ann, bob}
  Address = {mail, Mail, post}
  Lower <- MCLower
  NumCodes = 2
  NumRoles = 2
  Default <- MCDefault
  Worker = {w1, w2, w3}
  None = None
SYMMETRY Symmetry
INVARIANTS
  TypeOK
  LoginFindsOne
PROPERTIES
  AccountsContractHolds
  LosesToSeeded
