SPECIFICATION FairSpec
CONSTANTS
  mail = mail
  Mail = Mail
  User = {u1}
  Name = {ann}
  Address = {mail}
  Lower <- MCLower
  NumCodes = 2
  NumRoles = 2
  Default <- MCDefault
  Worker = {w1, w2}
  None = None
PROPERTIES
  RequestsEnd
