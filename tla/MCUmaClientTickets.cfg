SPECIFICATION FairSpec
CONSTANTS
  root = root
  pod = pod
  doc = doc
  other = other
  aside = aside
  alice = alice
  bob = bob
  as1 = as1
  as2 = as2
  Resource <- Docs
  Root <- root
  Parent <- DocsParent
  Account = {alice, bob}
  OwnerOf <- DocsOwner
  Issuer = {as1, as2}
  IssuerOf <- TwoIssuers
  BadAccount = {}
  BrokenIssuer = {as2}
  FlakyIssuer = {}
  SilentIssuer = {}
  Call = {c1, c2, c3, c4, c5, c6, c7, c8, c9}
  NoCall = NoCall
  Nobody = Nobody
  PatEvent = PatEvent
  InitExists = {root, pod}
  Events = {"create", "access"}
  TicketTargets = {{pod, doc}}
  Creations = {doc, aside}
  MaxEvents = 2
  MaxPat = 1
  MaxLost = 0
INVARIANTS
  TypeOK
  RequestsAccepted
  AllLinked
PROPERTIES
  KeepsPromise
CHECK_DEADLOCK FALSE
