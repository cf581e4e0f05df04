--------------------------- MODULE ResourceRegistry ---------------------------
(****************************************************************************)
(* What an authorization server knows of the resources: the registration    *)
(* endpoint (packages/uma/src/routes/ResourceRegistration.ts) and the       *)
(* collection endpoint (packages/uma/src/routes/Collection.ts) over the     *)
(* stores they share.                                                       *)
(*                                                                          *)
(* The stores are in memory, so a handler has finished before the next      *)
(* request is read: a request that is accepted is one action.  A request    *)
(* that is refused changes nothing (every check precedes the first write)   *)
(* and is not a step.                                                       *)
(*                                                                          *)
(* A relation collection is identified by its source and its relation; the  *)
(* direction of a relation is part of the member of Link.                   *)
(****************************************************************************)
EXTENDS Integers

CONSTANTS
  Resource,   \* UMA identifiers
  Owner,      \* WebIDs: owners of resources and users of the collection API
  Link,       \* the relations a description can name, with their direction
  Custom,     \* identifiers of collections made with the collection API
  Derivation, \* derivation_resource_ids
  Issuer,     \* authorization servers derivations come from
  Nobody,     \* no owner: there is no registration
  NoIssuer    \* no issuer: the derivation is not known

RelationCollection == Resource \X Link

ASSUME NameAssumption ==
  /\ Nobody \notin Owner
  /\ NoIssuer \notin Issuer
  /\ Custom \cap RelationCollection = {}
  /\ Resource \cap Owner = {}

VARIABLES
  registrations,  \* registrationStore: owner and description of each resource
  ownership,      \* ownershipStore: how often each list has each resource
  collections,    \* policy store: the relation collections
  custom,         \* policy store: type and creators of the other collections
  partOf,         \* policy store: the odrl:partOf triples
  derivationStore \* the issuer of each derivation_resource_id

vars == <<registrations, ownership, collections, custom, partOf, derivationStore>>

-----------------------------------------------------------------------------
(* Descriptions.                                                            *)

Description == [defaults  : SUBSET Link,                \* resource_defaults
                relations : SUBSET RelationCollection,  \* resource_relations
                derived   : [Derivation -> Issuer \cup {NoIssuer}]]

Blank == [defaults |-> {}, relations |-> {},
          derived |-> [d \in Derivation |-> NoIssuer]]

Registration == [owner : Owner \cup {Nobody}, description : Description]
Absent == [owner |-> Nobody, description |-> Blank]

OwnCollections(r, links) == {r} \X links

\* The links or collections in one description and not in the other.
Changed(A, B) == (A \ B) \cup (B \ A)

-----------------------------------------------------------------------------
(* The registration endpoint.                                               *)

\* Mutant: a collection is removed without looking for members.
AlwaysRemovable(r, links) == TRUE

\* updateCollections: collections that are removed must be empty.
Removable(r, links) ==
  \A c \in OwnCollections(r, links) \cap collections, p \in Resource :
    <<p, c>> \notin partOf

\* Mutant: entries both descriptions have are removed with the old ones.
CollectionsUnfiltered(r, new, old) ==
  (collections \cup OwnCollections(r, new)) \ OwnCollections(r, old)

\* The collections once r has the defaults new instead of old.
CollectionsUpdated(r, new, old) ==
  (collections \cup OwnCollections(r, new)) \ OwnCollections(r, old \ new)

\* updateRelations: a relation that is added or removed must have a
\* collection.  The store is read before any triple of this request is added.
Matched(changed) == changed \subseteq collections

\* Mutant: the triples of relations that are gone are kept.
PartsAddedOnly(r, new, old) == partOf \cup ({r} \X (new \ old))

\* The odrl:partOf triples of r once its relations are new instead of old.
PartsUpdated(r, new, old) ==
  (partOf \cup ({r} \X (new \ old))) \ ({r} \X (old \ new))

\* Derivations of the new description are set, those only in the old deleted.
DerivationsUpdated(new, old) ==
  [d \in Derivation |-> IF new[d] # NoIssuer THEN new[d]
                        ELSE IF old[d] # NoIssuer THEN NoIssuer
                        ELSE derivationStore[d]]

\* setResourceMetadata: the registration is stored last, after every check.
SetResourceMetadata(o, r, new) ==
  LET old == registrations[r].description IN
  /\ Removable(r, old.defaults \ new.defaults)
  /\ Matched(Changed(new.relations, old.relations))
  /\ collections' = CollectionsUpdated(r, new.defaults, old.defaults)
  /\ partOf' = PartsUpdated(r, new.relations, old.relations)
  /\ derivationStore' = DerivationsUpdated(new.derived, old.derived)
  /\ registrations' = [registrations EXCEPT ![r] = [owner |-> o, description |-> new]]

\* handlePost: 409 if the name is registered.
Post(o, r, new) ==
  /\ registrations[r].owner = Nobody
  /\ SetResourceMetadata(o, r, new)
  /\ ownership' = [ownership EXCEPT ![o][r] = @ + 1]
  /\ UNCHANGED custom

\* Mutant: an update also adds the resource to the owner's list.
PutListed(o, r, new) ==
  /\ registrations[r].owner = o
  /\ SetResourceMetadata(o, r, new)
  /\ ownership' = [ownership EXCEPT ![o][r] = @ + 1]
  /\ UNCHANGED custom

\* handlePut: 404 if it is not, 403 if it is somebody else's.
Put(o, r, new) ==
  /\ registrations[r].owner = o
  /\ SetResourceMetadata(o, r, new)
  /\ UNCHANGED <<ownership, custom>>

\* Mutant: the resource is only taken out of the collections it names.
PartsOfDescription(r) ==
  partOf \ ({r} \X registrations[r].description.relations)

\* All triples that make r a part of something.
PartsWithout(r) == {t \in partOf : t[1] # r}

\* Mutant: neither the owner nor the place in the owner's list is looked at.
DeleteUnchecked(o, r) ==
  /\ registrations' = [registrations EXCEPT ![r] = Absent]
  /\ ownership' = [ownership EXCEPT ![o][r] = @ - 1]
  /\ partOf' = PartsWithout(r)
  /\ UNCHANGED <<collections, custom, derivationStore>>

\* handleDelete: the collections r is the source of and its derivations stay.
Delete(o, r) ==
  /\ registrations[r].owner = o
  /\ registrations' = [registrations EXCEPT ![r] = Absent]
  /\ ownership' = [ownership EXCEPT ![o][r] = IF @ > 0 THEN @ - 1 ELSE @]
  /\ partOf' = PartsWithout(r)
  /\ UNCHANGED <<collections, custom, derivationStore>>

-----------------------------------------------------------------------------
(* The collection endpoint.                                                 *)

Kind == {"none", "asset", "party"}

\* descriptionToQuads: 403 for parts the user does not own, 400 for a party
\* collection that would lock the user out.
Described(o, kind, owners, parts) ==
  \/ /\ kind = "asset"
     /\ owners = {o}
     /\ \A p \in parts : p \in Resource /\ ownership[o][p] > 0
  \/ /\ kind = "party"
     /\ o \in owners

\* The triples of c are replaced by those of the description.
Describe(c, kind, owners, parts) ==
  /\ custom' = [custom EXCEPT ![c] = [kind |-> kind, creators |-> owners]]
  /\ partOf' = {t \in partOf : t[2] # c} \cup (parts \X {c})
  /\ UNCHANGED <<registrations, ownership, collections, derivationStore>>

PostCollection(o, c, kind, owners, parts) ==
  /\ custom[c].kind = "none"
  /\ Described(o, kind, owners, parts)
  /\ Describe(c, kind, owners, parts)

\* 404 without creators, 403 if the user is none of them.
PutCollection(o, c, kind, owners, parts) ==
  /\ o \in custom[c].creators
  /\ Described(o, kind, owners, parts)
  /\ Describe(c, kind, owners, parts)

DeleteCollection(o, c) ==
  /\ o \in custom[c].creators
  /\ Describe(c, "none", {}, {})

-----------------------------------------------------------------------------
Init ==
  /\ registrations = [r \in Resource |-> Absent]
  /\ ownership = [o \in Owner |-> [r \in Resource |-> 0]]
  /\ collections = {}
  /\ custom = [c \in Custom |-> [kind |-> "none", creators |-> {}]]
  /\ partOf = {}
  /\ derivationStore = [d \in Derivation |-> NoIssuer]

RegistrationRequest ==
  \E o \in Owner, r \in Resource :
    \/ \E new \in Description : Post(o, r, new) \/ Put(o, r, new)
    \/ Delete(o, r)

CollectionRequest ==
  \E o \in Owner, c \in Custom :
    \/ \E kind \in Kind, owners \in SUBSET Owner, parts \in SUBSET (Resource \cup Owner) :
         \/ PostCollection(o, c, kind, owners, parts)
         \/ PutCollection(o, c, kind, owners, parts)
    \/ DeleteCollection(o, c)

Next == RegistrationRequest \/ CollectionRequest

Spec == Init /\ [][Next]_vars

-----------------------------------------------------------------------------
(* Properties.                                                              *)

\* The type invariant of the stores.
TypeOK ==
  /\ registrations \in [Resource -> Registration]
  /\ ownership \in [Owner -> [Resource -> Nat]]
  /\ collections \subseteq RelationCollection
  /\ custom \in [Custom -> [kind : Kind, creators : SUBSET Owner]]
  /\ partOf \subseteq (Resource \cup Owner) \X (RelationCollection \cup Custom)
  /\ derivationStore \in [Derivation -> Issuer \cup {NoIssuer}]

\* The two stores that record who owns a resource agree: the list of an owner
\* has each resource registered by that owner once, and no other
\* (registrationStore is read by one endpoint, ownershipStore by the other).
OwnershipAgrees ==
  \A o \in Owner, r \in Resource :
    ownership[o][r] = IF registrations[r].owner = o THEN 1 ELSE 0

\* A resource is in a relation collection exactly when its stored description
\* has the relation, so an update finds what an earlier one has added.
PartsMatchDescriptions ==
  \A r \in Resource, c \in RelationCollection :
    <<r, c>> \in partOf <=> c \in registrations[r].description.relations

\* 'The latter can only happen if the asset collection is empty'
\* (documentation/collections.md 188): what has members exists, so that they
\* can leave it again.  A resource with a relation to itself can break this.
MembersHaveCollection ==
  \A r \in Resource, c \in RelationCollection :
    <<r, c>> \in partOf /\ c[1] # r => c \in collections

\* The resource_defaults of a registered resource have their collections.
DefaultsHaveCollection ==
  \A r \in Resource :
    OwnCollections(r, registrations[r].description.defaults) \subseteq collections

\* An asset collection has only resources its creator owns, now and not just
\* when it was made: resources are deleted and registered by others.
AssetPartsOwned ==
  \A c \in Custom, p \in Resource \cup Owner :
    custom[c].kind = "asset" /\ <<p, c>> \in partOf =>
      p \in Resource /\ registrations[p].owner \in custom[c].creators

=============================================================================
