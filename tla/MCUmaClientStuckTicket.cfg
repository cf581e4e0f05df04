SPECIFICATION FairSpec
CONSTANTS
  root = root
  pod = pod
  doc = doc
  other = other
  aside = aside
  alice = alice
  bob = bob
  as1 = as1
  as2 = as2
  Resource <- Pods
  Root <- root
  Parent <- PodsParent
  Account = {alice, bob}
  OwnerOf <- PodsOwner
  Issuer = {as1}
  IssuerOf <- OneIssuer
  BadAccount = {bob}
  BrokenIssuer = {}
  FlakyIssuer = {}
  SilentIssuer = {}
  Call = {c1, c2, c3, c4, c5, c6, c7, c8}
  NoCall = NoCall
  Nobody = Nobody
  PatEvent = PatEvent
  InitExists = {root, pod, other}
  Events = {"access"}
  TicketTargets = {{pod}, {other}}
  Creations = {}
  MaxEvents = 2
  MaxPat = 1
  MaxLost = 0
PROPERTIES
  TicketsSettle
CHECK_DEADLOCK FALSE
