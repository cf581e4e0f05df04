SPECIFICATION Spec
CONSTANTS
  dir = dir
  doc = doc
  alice = alice
  bob = bob
  Resource = {dir, doc}
  Owner = {alice, bob}
  Link = {contains}
  Custom = {shared}
  Derivation = {derived}
  Issuer = {as1}
  Nobody = Nobody
  NoIssuer = NoIssuer
SYMMETRY Symmetry
INVARIANTS
  TypeOK
  OwnershipAgrees
  PartsMatchDescriptions
  MembersHaveCollection
  DefaultsHaveCollection
  AssetPartsOwned
