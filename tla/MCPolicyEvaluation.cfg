SPECIFICATION Spec
CONSTANTS
  doc = doc
  card = card
  folder = folder
  alice = alice
  friends = friends
  read = read
  write = write
  modify = modify
  purpose = purpose
  fruit = fruit
  research = research
  app = app
  apple = apple
  garden = garden
  Resource = {doc, card}
  AssetCollection = {folder}
  User = {alice}
  PartyCollection = {friends}
  Scope = {read, write}
  Modify = modify
  Modifying = {write}
  Anonymous = Anonymous
  Key = {purpose, fruit}
  Value = {research, app, apple, garden}
  NoType = NoType
  Listed = {alice}
  Named = {card}
  Rules <- MCRules
  Memberships <- MCMemberships
  Claims <- MCClaims
  Queries <- MCQueries
  MaxClock = 1
  MaxChanges = 1
INVARIANTS
  TypeOK
  FastPathExact
  AnswersFollowPolicies
