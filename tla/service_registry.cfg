SPECIFICATION Spec
CONSTANTS
  api = api
  bot = bot
  other = other
  discord = discord
  Service = {s1, s2, s3}
  Slug = {api, bot, other}
  Required <- MCRequired
  Defaults <- MCDefaults
  Worker = {w1, w2}
  None = None
SYMMETRY Symmetry
INVARIANTS
  TypeOK
  SlugsUnique
PROPERTIES
  OnlyAskedChanges
  DeletedStaysDeleted
  RegistryContractHolds
