SPECIFICATION FairSeeding
CONSTANTS
  u1 = u1
  u2 = u2
  u3 = u3
  a1 = a1
  a2 = a2
  seed = seed
  form = form
  Client = {c1, c2, c3}
  UserClient = {c1}
  User = {u1, u2, u3}
  Server = {here}
  Row = {r1}
  Handler = {}
  None = None
  MaxSerial = 0
  Account = {a1, a2}
  AccountOf <- MCAccountOf
  Here = here
  Home = Home
  Elsewhere = Elsewhere
  Foreign = Foreign
  Seed <- MCSeed
  Updater = {seed, form}
  Registrar = seed
  MaxForms = 1
  MaxLost = 1
  MaxRestarts = 1
INVARIANTS
  SeedingTypeOK
  SettingsMatch
PROPERTIES
  SeedingCompletes
CHECK_DEADLOCK FALSE
