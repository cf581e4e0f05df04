SPECIFICATION PodSpec
CONSTANTS
  root = root
  pod = pod
  doc = doc
  alice1 = alice1
  alice2 = alice2
  as1 = as1
  as2 = as2
  Resource <- Tree
  Root <- root
  Parent <- TreeParent
  Account = {alice1, alice2}
  OwnerOf <- TreeOwner
  Issuer = {as1, as2}
  IssuerOf <- IssuerOfSettings
  BadAccount = {}
  BrokenIssuer = {}
  FlakyIssuer = {}
  SilentIssuer = {}
  Call = {c1, c2, c3, c4, c5, c6, c7, c8}
  NoCall = NoCall
  Nobody = Nobody
  PatEvent = PatEvent
  InitExists = {root, pod, doc}
  Events = {"create", "delete", "update"}
  TicketTargets = {}
  Creations = {}
  MaxEvents = 20
  MaxPat = 1
  MaxLost = 0
  Posts <- TwoIssuers
  MaxActs = 3
INVARIANTS
  PodTypeOK
  ExclusiveRegistration
  ExclusivePat
  NoDuplicateRegistration
  NothingMissed
  RemovedAreUnregistered
PROPERTIES
  FollowsRegistry
CHECK_DEADLOCK FALSE
