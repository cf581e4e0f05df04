------------------------- MODULE UmaClientRefinements -------------------------
(****************************************************************************)
(* UmaClient seen as three simpler systems: what its issuers store is a     *)
(* ResourceRegistry, the PATs they hand out are those of PatIssuing, and    *)
(* client and issuers together keep the promise of RegistrationPromise.     *)
(****************************************************************************)
EXTENDS UmaClient

\* What the client tells of r: a container has the collection its members are
\* in, a resource that is linked is in the one of its parent.
Told(r, known, linked) ==
  [defaults  |-> IF known /\ r \in Container THEN {"contains"} ELSE {},
   relations |-> IF linked THEN {<<Parent[r], "contains">>} ELSE {},
   derived   |-> [d \in {} |-> Nobody]]

\* The stores of issuer i.
StoredAt(i) ==
  [r \in Resource |->
    [owner |-> registrations[i][r],
     description |-> Told(r, registrations[i][r] # Nobody, r \in relations[i])]]

ListsAt(i) ==
  [a \in Account |-> [r \in Resource |-> IF registrations[i][r] = a THEN 1 ELSE 0]]

PartsAt(i) == {<<r, <<Parent[r], "contains">>>> : r \in relations[i]}

\* What issuer i does on the client's requests, seen as a ResourceRegistry.
Registry(i) == INSTANCE ResourceRegistry WITH
  Owner <- Account, Link <- {"contains"}, Custom <- {}, Derivation <- {},
  NoIssuer <- Nobody,
  registrations <- StoredAt(i),
  ownership <- ListsAt(i),
  collections <- collections[i] \X {"contains"},
  custom <- [c \in {} |-> Nobody],
  partOf <- PartsAt(i),
  derivationStore <- [d \in {} |-> Nobody]

\* The answers the client gets are those of the registration endpoint, whoever
\* calls it and in whatever order: what each issuer stores behaves as a
\* ResourceRegistry.
FollowsRegistry ==
  /\ \A i \in Issuer : Registry(i)!Init
  /\ [][\A i \in Issuer : UNCHANGED Registry(i)!vars \/ Registry(i)!Next]_vars

-----------------------------------------------------------------------------
\* What the server has created for accounts whose issuer can be reached.
Registrable == {r \in exists \ InitExists : IssuerOf[OwnerOf[r]] \notin BrokenIssuer}

\* The client with its issuers keeps the promise of registration.
Promise == INSTANCE RegistrationPromise WITH
  wanted     <- UNION {Lineage[r] : r \in Registrable},
  registered <- {r \in Resource : \E i \in Issuer : registrations[i][r] # Nobody},
  linked     <- UNION {relations[i] : i \in Issuer}

\* Under fair scheduling every created resource gets registered and linked to
\* its parent, however the calls interleave (registerResource).
KeepsPromise == Promise!Spec

-----------------------------------------------------------------------------
\* A token request is being handled from when it is sent to when it is answered.
Signs(t) == pc[t] = "patSent" /\ frame[t].acct \notin BadAccount

\* What the issuers keep of the PATs, and whose PAT a call is given next: the
\* credentials of an account are a client, and its PAT has an entry of its own.
Entries ==
  [a \in Account |-> IF issuedPat[a] = 0 THEN Nobody ELSE
     [client |-> a, serial |-> issuedPat[a], expired |-> a \notin livePat]]

Requests ==
  [t \in Call |->
     [client |-> IF Signs(t) THEN frame[t].acct ELSE Nobody,
      row    |-> IF Signs(t) /\ issuedPat[frame[t].acct] # 0 THEN frame[t].acct
                 ELSE Nobody]]

ASSUME NobodyAssumption ==
  Nobody \notin [client : Account, serial : Nat, expired : BOOLEAN]

\* The PATs the client asks for, seen as what PatIssuing hands out.
Pats == INSTANCE PatIssuing WITH
  Client <- Account, User <- Account, Server <- {Root}, Row <- Account,
  Handler <- Call, None <- Nobody, MaxSerial <- MaxPat,
  registered <- Account \ BadAccount,
  removed <- {},
  client <- [a \in Account |-> [user |-> a, server |-> Root]],
  pats <- Entries,
  signed <- issuedPat,
  frame <- Requests,
  overlapped <- {}

\* What the issuer hands out on the client's requests, PAT_EVENT keeping them
\* apart, are steps of PatIssuing in which no two requests overlap.
FollowsPatIssuing == [][UNCHANGED Pats!vars \/ Pats!Next]_vars
=============================================================================
