------------------------ MODULE ResourceRegistryProofs ------------------------
(****************************************************************************)
(* Proofs about ResourceRegistry, for every set of resources, owners,       *)
(* relations and collections.  The six invariants are inductive together:   *)
(* a request relies on what the others say of the stores it reads.          *)
(****************************************************************************)
EXTENDS ResourceRegistry, TLAPS

RegistryInv ==
  /\ TypeOK
  /\ OwnershipAgrees
  /\ PartsMatchDescriptions
  /\ MembersHaveCollection
  /\ DefaultsHaveCollection
  /\ AssetPartsOwned

-----------------------------------------------------------------------------
(* The initial state.                                                       *)

\* Where there is no registration, there is still something to read.
LEMMA BlankTyped == Blank \in Description /\ Absent \in Registration
BY DEF Blank, Description, Absent, Registration

\* A server that starts with empty stores.
LEMMA RegistryInit == Init => RegistryInv
<1> SUFFICES ASSUME Init PROVE RegistryInv
  OBVIOUS
<1>1. TypeOK
  BY BlankTyped DEF Init, TypeOK, Kind
<1>2. OwnershipAgrees
  BY NameAssumption DEF Init, OwnershipAgrees, Absent
<1>3. PartsMatchDescriptions
  BY DEF Init, PartsMatchDescriptions, Absent, Blank
<1>4. MembersHaveCollection /\ AssetPartsOwned
  BY DEF Init, MembersHaveCollection, AssetPartsOwned
<1>5. DefaultsHaveCollection
  BY DEF Init, DefaultsHaveCollection, OwnCollections, Absent, Blank
<1> QED
  BY <1>1, <1>2, <1>3, <1>4, <1>5 DEF RegistryInv

-----------------------------------------------------------------------------
(* A description is replaced (Post and Put).                                *)

\* What SetResourceMetadata does to the stores it writes, given the invariant:
\* every part of it but the owner lists.
LEMMA MetadataStep ==
  ASSUME RegistryInv, NEW o \in Owner, NEW r \in Resource, NEW new \in Description,
         registrations[r].owner \in {Nobody, o},
         SetResourceMetadata(o, r, new), UNCHANGED custom
  PROVE  /\ registrations' \in [Resource -> Registration]
         /\ registrations'[r] = [owner |-> o, description |-> new]
         /\ \A q \in Resource \ {r} : registrations'[q] = registrations[q]
         /\ collections' \subseteq RelationCollection
         /\ partOf' \subseteq (Resource \cup Owner) \X (RelationCollection \cup Custom)
         /\ derivationStore' \in [Derivation -> Issuer \cup {NoIssuer}]
         /\ PartsMatchDescriptions'
         /\ MembersHaveCollection'
         /\ DefaultsHaveCollection'
         /\ AssetPartsOwned'
<1> DEFINE old == registrations[r].description
<1>1. registrations' = [registrations EXCEPT ![r] = [owner |-> o, description |-> new]]
  BY DEF SetResourceMetadata
<1>2. registrations \in [Resource -> Registration] /\ old \in Description
  BY DEF RegistryInv, TypeOK, Registration
<1>3. /\ registrations' \in [Resource -> Registration]
      /\ registrations'[r] = [owner |-> o, description |-> new]
      /\ \A q \in Resource \ {r} : registrations'[q] = registrations[q]
  BY <1>1, <1>2 DEF Registration
<1>4. /\ new.defaults \subseteq Link /\ new.relations \subseteq RelationCollection
      /\ old.defaults \subseteq Link /\ old.relations \subseteq RelationCollection
      /\ new.derived \in [Derivation -> Issuer \cup {NoIssuer}]
      /\ old.derived \in [Derivation -> Issuer \cup {NoIssuer}]
  BY <1>2 DEF Description
<1>5. /\ collections' = CollectionsUpdated(r, new.defaults, old.defaults)
      /\ partOf' = PartsUpdated(r, new.relations, old.relations)
      /\ derivationStore' = DerivationsUpdated(new.derived, old.derived)
      /\ Removable(r, old.defaults \ new.defaults)
      /\ Matched(Changed(new.relations, old.relations))
  BY DEF SetResourceMetadata
<1> HIDE DEF old
<1>6. collections' \subseteq RelationCollection
  BY <1>4, <1>5 DEF CollectionsUpdated, OwnCollections, RegistryInv, TypeOK, RelationCollection
<1>7. partOf' \subseteq (Resource \cup Owner) \X (RelationCollection \cup Custom)
  BY <1>4, <1>5 DEF PartsUpdated, RegistryInv, TypeOK
<1>8. derivationStore' \in [Derivation -> Issuer \cup {NoIssuer}]
  BY <1>4, <1>5 DEF DerivationsUpdated, RegistryInv, TypeOK
<1>9. PartsMatchDescriptions'
  <2> SUFFICES ASSUME NEW q \in Resource, NEW c \in RelationCollection
               PROVE  <<q, c>> \in partOf' <=> c \in registrations'[q].description.relations
    BY DEF PartsMatchDescriptions
  <2>1. <<q, c>> \in partOf <=> c \in registrations[q].description.relations
    BY DEF RegistryInv, PartsMatchDescriptions
  <2>2. CASE q = r
    BY <2>1, <2>2, <1>3, <1>5 DEF PartsUpdated, old
  <2>3. CASE q # r
    BY <2>1, <2>3, <1>3, <1>5 DEF PartsUpdated
  <2> QED
    BY <2>2, <2>3
<1>10. MembersHaveCollection'
  <2> SUFFICES ASSUME NEW q \in Resource, NEW c \in RelationCollection,
                      <<q, c>> \in partOf', c[1] # q
               PROVE  c \in collections'
    BY DEF MembersHaveCollection
  <2>1. c \in collections
    <3>1. CASE <<q, c>> \in partOf
      BY <3>1 DEF RegistryInv, MembersHaveCollection
    <3>2. CASE <<q, c>> \notin partOf
      BY <3>2, <1>5 DEF PartsUpdated, Matched, Changed
    <3> QED
      BY <3>1, <3>2
  <2>2. CASE c \in OwnCollections(r, old.defaults \ new.defaults)
    <3>1. c[1] = r
      BY <2>2 DEF OwnCollections
    <3>2. <<q, c>> \in partOf
      BY <3>1, <1>5 DEF PartsUpdated
    <3> QED
      BY <2>1, <2>2, <3>2, <1>5 DEF Removable
  <2>3. CASE c \notin OwnCollections(r, old.defaults \ new.defaults)
    BY <2>1, <2>3, <1>5 DEF CollectionsUpdated
  <2> QED
    BY <2>2, <2>3
<1>11. DefaultsHaveCollection'
  <2> SUFFICES ASSUME NEW q \in Resource
               PROVE  OwnCollections(q, registrations'[q].description.defaults)
                        \subseteq collections'
    BY DEF DefaultsHaveCollection, OwnCollections
  <2>1. CASE q = r
    BY <2>1, <1>3, <1>5 DEF CollectionsUpdated, OwnCollections
  <2>2. CASE q # r
    <3>1. OwnCollections(q, registrations[q].description.defaults) \subseteq collections
      BY DEF RegistryInv, DefaultsHaveCollection
    <3> QED
      BY <3>1, <2>2, <1>3, <1>5 DEF CollectionsUpdated, OwnCollections
  <2> QED
    BY <2>1, <2>2
<1>12. AssetPartsOwned'
  <2> SUFFICES ASSUME NEW c \in Custom, NEW p \in Resource \cup Owner,
                      custom[c].kind = "asset", <<p, c>> \in partOf'
               PROVE  p \in Resource /\ registrations'[p].owner \in custom[c].creators
    BY DEF AssetPartsOwned
  <2>1. <<p, c>> \in partOf
    BY <1>4, <1>5, NameAssumption DEF PartsUpdated
  <2>2. p \in Resource /\ registrations[p].owner \in custom[c].creators
    BY <2>1 DEF RegistryInv, AssetPartsOwned
  <2>3. CASE p = r
    <3>1. custom[c].creators \subseteq Owner
      BY DEF RegistryInv, TypeOK
    <3>2. registrations[r].owner = o
      BY <2>2, <2>3, <3>1, NameAssumption
    <3> QED
      BY <2>2, <2>3, <3>2, <1>3
  <2>4. CASE p # r
    BY <2>2, <2>4, <1>3
  <2> QED
    BY <2>3, <2>4
<1> QED
  BY <1>3, <1>6, <1>7, <1>8, <1>9, <1>10, <1>11, <1>12

\* A new registration.
LEMMA PostStep ==
  ASSUME RegistryInv, NEW o \in Owner, NEW r \in Resource, NEW new \in Description,
         Post(o, r, new)
  PROVE  RegistryInv'
<1>1. /\ registrations[r].owner = Nobody
      /\ SetResourceMetadata(o, r, new)
      /\ ownership' = [ownership EXCEPT ![o][r] = @ + 1]
      /\ UNCHANGED custom
  BY DEF Post
<1>2. /\ registrations' \in [Resource -> Registration]
      /\ registrations'[r] = [owner |-> o, description |-> new]
      /\ \A q \in Resource \ {r} : registrations'[q] = registrations[q]
      /\ collections' \subseteq RelationCollection
      /\ partOf' \subseteq (Resource \cup Owner) \X (RelationCollection \cup Custom)
      /\ derivationStore' \in [Derivation -> Issuer \cup {NoIssuer}]
      /\ PartsMatchDescriptions' /\ MembersHaveCollection'
      /\ DefaultsHaveCollection' /\ AssetPartsOwned'
  BY <1>1, MetadataStep
<1>3. ownership \in [Owner -> [Resource -> Nat]]
  BY DEF RegistryInv, TypeOK
<1>4. ownership' \in [Owner -> [Resource -> Nat]]
  BY <1>1, <1>3
<1>5. TypeOK'
  BY <1>1, <1>2, <1>4 DEF TypeOK, RegistryInv
<1>6. OwnershipAgrees'
  <2> SUFFICES ASSUME NEW p \in Owner, NEW q \in Resource
               PROVE  ownership'[p][q] = IF registrations'[q].owner = p THEN 1 ELSE 0
    BY DEF OwnershipAgrees
  <2>1. ownership[p][q] = IF registrations[q].owner = p THEN 1 ELSE 0
    BY DEF RegistryInv, OwnershipAgrees
  <2>2. CASE q = r
    BY <1>1, <1>2, <1>3, <2>1, <2>2, NameAssumption
  <2>3. CASE q # r
    BY <1>1, <1>2, <1>3, <2>1, <2>3
  <2> QED
    BY <2>2, <2>3
<1> QED
  BY <1>2, <1>5, <1>6 DEF RegistryInv

\* An update: the owner lists stay, and the owner is the one there was.
LEMMA PutStep ==
  ASSUME RegistryInv, NEW o \in Owner, NEW r \in Resource, NEW new \in Description,
         Put(o, r, new)
  PROVE  RegistryInv'
<1>1. /\ registrations[r].owner = o
      /\ SetResourceMetadata(o, r, new)
      /\ UNCHANGED <<ownership, custom>>
  BY DEF Put
<1>2. /\ registrations' \in [Resource -> Registration]
      /\ registrations'[r] = [owner |-> o, description |-> new]
      /\ \A q \in Resource \ {r} : registrations'[q] = registrations[q]
      /\ collections' \subseteq RelationCollection
      /\ partOf' \subseteq (Resource \cup Owner) \X (RelationCollection \cup Custom)
      /\ derivationStore' \in [Derivation -> Issuer \cup {NoIssuer}]
      /\ PartsMatchDescriptions' /\ MembersHaveCollection'
      /\ DefaultsHaveCollection' /\ AssetPartsOwned'
  BY <1>1, MetadataStep
<1>3. TypeOK'
  BY <1>1, <1>2 DEF TypeOK, RegistryInv
<1>4. \A q \in Resource : registrations'[q].owner = registrations[q].owner
  BY <1>1, <1>2
<1>5. OwnershipAgrees'
  BY <1>1, <1>4 DEF RegistryInv, OwnershipAgrees
<1> QED
  BY <1>2, <1>3, <1>5 DEF RegistryInv

-----------------------------------------------------------------------------
(* A registration is removed.                                               *)

\* Every triple that makes the resource a part of something goes with it.
LEMMA DeleteStep ==
  ASSUME RegistryInv, NEW o \in Owner, NEW r \in Resource, Delete(o, r)
  PROVE  RegistryInv'
<1>1. /\ registrations[r].owner = o
      /\ registrations' = [registrations EXCEPT ![r] = Absent]
      /\ ownership' = [ownership EXCEPT ![o][r] = IF @ > 0 THEN @ - 1 ELSE @]
      /\ partOf' = PartsWithout(r)
      /\ UNCHANGED <<collections, custom, derivationStore>>
  BY DEF Delete
<1>2. /\ registrations \in [Resource -> Registration]
      /\ ownership \in [Owner -> [Resource -> Nat]]
  BY DEF RegistryInv, TypeOK
<1>3. /\ registrations' \in [Resource -> Registration]
      /\ registrations'[r] = Absent
      /\ \A q \in Resource \ {r} : registrations'[q] = registrations[q]
  BY <1>1, <1>2, BlankTyped
<1>4. partOf' \subseteq partOf
  BY <1>1 DEF PartsWithout
<1>5. \A q \in Resource \cup Owner, c \in RelationCollection \cup Custom :
        <<q, c>> \in partOf' <=> <<q, c>> \in partOf /\ q # r
  BY <1>1 DEF PartsWithout
<1>6. TypeOK'
  <2>1. ownership' \in [Owner -> [Resource -> Nat]]
    BY <1>1, <1>2
  <2> QED
    BY <1>1, <1>3, <1>4, <2>1 DEF RegistryInv, TypeOK
<1>7. OwnershipAgrees'
  <2> SUFFICES ASSUME NEW p \in Owner, NEW q \in Resource
               PROVE  ownership'[p][q] = IF registrations'[q].owner = p THEN 1 ELSE 0
    BY DEF OwnershipAgrees
  <2>1. ownership[p][q] = IF registrations[q].owner = p THEN 1 ELSE 0
    BY DEF RegistryInv, OwnershipAgrees
  <2>2. CASE q = r
    BY <1>1, <1>2, <1>3, <2>1, <2>2, NameAssumption DEF Absent
  <2>3. CASE q # r
    BY <1>1, <1>2, <1>3, <2>1, <2>3
  <2> QED
    BY <2>2, <2>3
<1>8. PartsMatchDescriptions'
  <2> SUFFICES ASSUME NEW q \in Resource, NEW c \in RelationCollection
               PROVE  <<q, c>> \in partOf' <=> c \in registrations'[q].description.relations
    BY DEF PartsMatchDescriptions
  <2>1. <<q, c>> \in partOf <=> c \in registrations[q].description.relations
    BY DEF RegistryInv, PartsMatchDescriptions
  <2>2. CASE q = r
    BY <1>3, <1>5, <2>2 DEF Absent, Blank
  <2>3. CASE q # r
    BY <1>3, <1>5, <2>1, <2>3
  <2> QED
    BY <2>2, <2>3
<1>9. MembersHaveCollection'
  BY <1>1, <1>4 DEF RegistryInv, MembersHaveCollection
<1>10. DefaultsHaveCollection'
  <2> SUFFICES ASSUME NEW q \in Resource
               PROVE  OwnCollections(q, registrations'[q].description.defaults)
                        \subseteq collections'
    BY DEF DefaultsHaveCollection, OwnCollections
  <2>1. CASE q = r
    BY <1>3, <2>1 DEF Absent, Blank, OwnCollections
  <2>2. CASE q # r
    BY <1>1, <1>3, <2>2 DEF RegistryInv, DefaultsHaveCollection
  <2> QED
    BY <2>1, <2>2
<1>11. AssetPartsOwned'
  BY <1>1, <1>3, <1>5 DEF RegistryInv, AssetPartsOwned
<1> QED
  BY <1>6, <1>7, <1>8, <1>9, <1>10, <1>11 DEF RegistryInv

-----------------------------------------------------------------------------
(* The collection endpoint.                                                 *)

\* The triples of a collection are replaced.  If it becomes an asset
\* collection, its one creator owns the parts.
LEMMA DescribeStep ==
  ASSUME RegistryInv, NEW c \in Custom, NEW kind \in Kind,
         NEW owners \in SUBSET Owner, NEW parts \in SUBSET (Resource \cup Owner),
         kind = "asset" => \A p \in parts : p \in Resource /\ registrations[p].owner \in owners,
         Describe(c, kind, owners, parts)
  PROVE  RegistryInv'
<1>1. /\ custom' = [custom EXCEPT ![c] = [kind |-> kind, creators |-> owners]]
      /\ partOf' = {t \in partOf : t[2] # c} \cup (parts \X {c})
      /\ UNCHANGED <<registrations, ownership, collections, derivationStore>>
  BY DEF Describe
<1>2. \A p \in Resource \cup Owner, d \in RelationCollection \cup Custom :
        d # c => (<<p, d>> \in partOf' <=> <<p, d>> \in partOf)
  BY <1>1
<1>3. \A d \in RelationCollection : d # c
  BY NameAssumption
<1>4. TypeOK'
  BY <1>1 DEF RegistryInv, TypeOK
<1>5. OwnershipAgrees' /\ DefaultsHaveCollection'
  BY <1>1 DEF RegistryInv, OwnershipAgrees, DefaultsHaveCollection
<1>6. PartsMatchDescriptions' /\ MembersHaveCollection'
  BY <1>1, <1>2, <1>3 DEF RegistryInv, PartsMatchDescriptions, MembersHaveCollection
<1>7. AssetPartsOwned'
  <2> SUFFICES ASSUME NEW d \in Custom, NEW p \in Resource \cup Owner,
                      custom'[d].kind = "asset", <<p, d>> \in partOf'
               PROVE  p \in Resource /\ registrations[p].owner \in custom'[d].creators
    BY <1>1 DEF AssetPartsOwned
  <2>1. custom \in [Custom -> [kind : Kind, creators : SUBSET Owner]]
    BY DEF RegistryInv, TypeOK
  <2>2. CASE d = c
    <3>1. custom'[c] = [kind |-> kind, creators |-> owners]
      BY <1>1, <2>1
    <3>2. p \in parts
      BY <1>1, <2>2
    <3> QED
      BY <2>2, <3>1, <3>2
  <2>3. CASE d # c
    <3>1. custom'[d] = custom[d]
      BY <1>1, <2>1, <2>3
    <3> QED
      BY <1>2, <2>3, <3>1 DEF RegistryInv, AssetPartsOwned
  <2> QED
    BY <2>2, <2>3
<1> QED
  BY <1>4, <1>5, <1>6, <1>7 DEF RegistryInv

\* The check of descriptionToQuads, read with what the owner lists mean.
LEMMA DescribedOwned ==
  ASSUME RegistryInv, NEW o \in Owner, NEW kind \in Kind, NEW owners \in SUBSET Owner,
         NEW parts \in SUBSET (Resource \cup Owner), Described(o, kind, owners, parts)
  PROVE  kind = "asset" => \A p \in parts : p \in Resource /\ registrations[p].owner \in owners
<1> SUFFICES ASSUME kind = "asset", NEW p \in parts
             PROVE  p \in Resource /\ registrations[p].owner \in owners
  OBVIOUS
<1>1. owners = {o} /\ p \in Resource /\ ownership[o][p] > 0
  BY DEF Described
<1>2. ownership[o][p] = IF registrations[p].owner = o THEN 1 ELSE 0
  BY <1>1 DEF RegistryInv, OwnershipAgrees
<1> QED
  BY <1>1, <1>2

-----------------------------------------------------------------------------
\* Every request of either endpoint preserves the invariant.
LEMMA RegistryStep == RegistryInv /\ [Next]_vars => RegistryInv'
<1> SUFFICES ASSUME RegistryInv, [Next]_vars PROVE RegistryInv'
  OBVIOUS
<1>1. CASE RegistrationRequest
  <2>1. PICK o \in Owner, r \in Resource :
          (\E new \in Description : Post(o, r, new) \/ Put(o, r, new)) \/ Delete(o, r)
    BY <1>1 DEF RegistrationRequest
  <2>2. CASE \E new \in Description : Post(o, r, new)
    BY <2>2, PostStep
  <2>3. CASE \E new \in Description : Put(o, r, new)
    BY <2>3, PutStep
  <2>4. CASE Delete(o, r)
    BY <2>4, DeleteStep
  <2> QED
    BY <2>1, <2>2, <2>3, <2>4
<1>2. CASE CollectionRequest
  <2>1. PICK o \in Owner, c \in Custom :
          \/ \E kind \in Kind, owners \in SUBSET Owner,
                parts \in SUBSET (Resource \cup Owner) :
               \/ PostCollection(o, c, kind, owners, parts)
               \/ PutCollection(o, c, kind, owners, parts)
          \/ DeleteCollection(o, c)
    BY <1>2 DEF CollectionRequest
  <2>2. ASSUME NEW kind \in Kind, NEW owners \in SUBSET Owner,
               NEW parts \in SUBSET (Resource \cup Owner),
               \/ PostCollection(o, c, kind, owners, parts)
               \/ PutCollection(o, c, kind, owners, parts)
        PROVE  RegistryInv'
    <3>1. Described(o, kind, owners, parts) /\ Describe(c, kind, owners, parts)
      BY <2>2 DEF PostCollection, PutCollection
    <3> QED
      BY <3>1, DescribedOwned, DescribeStep
  <2>3. CASE DeleteCollection(o, c)
    <3>1. Describe(c, "none", {}, {}) /\ "none" \in Kind
      BY <2>3 DEF DeleteCollection, Kind
    <3> QED
      BY <3>1, DescribeStep
  <2> QED
    BY <2>1, <2>2, <2>3
<1>3. CASE UNCHANGED vars
  BY <1>3 DEF vars, RegistryInv, TypeOK, OwnershipAgrees, PartsMatchDescriptions,
              MembersHaveCollection, DefaultsHaveCollection, AssetPartsOwned
<1> QED
  BY <1>1, <1>2, <1>3 DEF Next

\* The invariant of the stores holds in every reachable state.
THEOREM RegistryCorrect == Spec => []RegistryInv
BY RegistryInit, RegistryStep, PTL DEF Spec

\* The stores are well typed whatever is requested of the two endpoints.
THEOREM RegistryTyped == Spec => []TypeOK
BY RegistryCorrect, PTL DEF RegistryInv

\* Registrations and owner lists agree: no legal sequence of registrations,
\* updates and deletions lists a resource twice or leaves it behind.
THEOREM OwnershipStaysConsistent == Spec => []OwnershipAgrees
BY RegistryCorrect, PTL DEF RegistryInv

\* The odrl:partOf triples of a resource are those of its description, so
\* policies on relation collections apply to what the owner described.
THEOREM PartsStayConsistent == Spec => []PartsMatchDescriptions
BY RegistryCorrect, PTL DEF RegistryInv

\* Collections with members are not removed, unless their source is their
\* only member.
THEOREM MembersKeepCollection == Spec => []MembersHaveCollection
BY RegistryCorrect, PTL DEF RegistryInv

\* The defaults of a registered resource keep their collections.
THEOREM DefaultsKeepCollection == Spec => []DefaultsHaveCollection
BY RegistryCorrect, PTL DEF RegistryInv

\* Asset collections never come to hold somebody else's resource.
THEOREM AssetPartsStayOwned == Spec => []AssetPartsOwned
BY RegistryCorrect, PTL DEF RegistryInv

=============================================================================
