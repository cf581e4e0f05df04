SPECIFICATION FairSpec
CONSTANTS
  root = root
  pod = pod
  doc = doc
  other = other
  aside = aside
  alice = alice
  bob = bob
  as1 = as1
  as2 = as2
  Resource <- Pods
  Root <- root
  Parent <- PodsParent
  Account = {alice, bob}
  OwnerOf <- PodsOwner
  Issuer = {as1, as2}
  IssuerOf <- TwoIssuers
  BadAccount = {bob}
  BrokenIssuer = {}
  FlakyIssuer = {as1}
  SilentIssuer = {as2}
  Call = {c1, c2, c3, c4, c5, c6, c7}
  NoCall = NoCall
  Nobody = Nobody
  PatEvent = PatEvent
  InitExists = {root, pod}
  Events = {"create", "access", "delete", "update"}
  TicketTargets = {{pod}, {other}}
  Creations = {}
  MaxEvents = 2
  MaxPat = 2
  MaxLost = 1
INVARIANTS
  AwaitedIdKnown
  NoLostWakeup
PROPERTIES
  CallsSettle
  IdsHonoured
  FollowsPatIssuing
  PatNotOverwritten
CHECK_DEADLOCK FALSE
