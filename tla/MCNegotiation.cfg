SPECIFICATION Spec
CHECK_DEADLOCK FALSE
SYMMETRY Symmetry
CONSTANTS
  read = read
  write = write
  derivation = derivation
  alice = alice
  create = create
  sources = sources
  notes = notes
  remote = remote
  Permission = {read, write, create}
  Derived = {derivation}
  DerivedFrom <- MCDerivedFrom
  Requests = {{write}, {read}}
  Resource = {sources, notes, remote}
  ResourceOf <- MCResourceOf
  Creation <- MCCreation
  Convertible = {write}
  Negotiators = {"base", "contract"}
  Claim = {alice}
  Pushes <- MCPushes
  Policies <- MCPolicies
  AllowPartial = TRUE
  Dialog = {d1, d2, d3}
  TicketId = {i1, i2}
  RefreshId = {r1, r2}
  Handler = {h1, h2}
  None = None
  MaxChanges = 1
INVARIANTS
  TicketSingleUse
  TokensReflectPolicy
  DerivationsProven
PROPERTIES
  RotationKeepsAccess
