# A specification of user-managed access

These modules specify the two servers of this repository: the **resource
server** (RS, `packages/css/src`, an extension of the Community Solid Server)
and the **authorization server** (AS, `packages/uma/src`), which together
implement User-Managed Access (UMA 2.0) for Solid. TLC checks them on small
instances; TLAPS proves the main safety properties for every instance.

Paths below are relative to `packages/` unless they start at the root of the
repository.

## 1. The system

### 1.1 Components

| Component | State it keeps | Operations | Modelled in |
| --- | --- | --- | --- |
| RS: UMA client (`css/src/uma/UmaClient.ts`) | `inProgress` (paths being registered and `PAT_EVENT`), `umaIdStore`, `patStorage`, `configCache`, listeners of `emitter` | `registerResource`, `deleteResource`, `fetchTicket`, `getPat`, `fetchUmaConfig`, token verification | `UmaClient` |
| RS: callers of the client (`ResourceRegistrar.ts`, `PatUpdater.ts`, `UmaAuthorizer.ts`) | none | on creation, deletion, new settings, a request without token | `PodRegistration`; environment of `UmaClient` |
| RS: fetchers (`css/src/util/fetch`) | the queue of `PausableFetcher` | retry a request that failed, hold requests back until the server listens | steps of `UmaClient` and `AccountSeeding` |
| RS: accounts (`css/src/identity`, `css/src/init`) | issuer and credentials per account | `UmaSeededAccountInitializer`, `PatSeedRegistrar`, `PatUpdateHandler`, `PatUpdater` | `AccountSeeding`, `PodRegistration` |
| RS: extraction of tokens and permissions, headers, JWKS | none | per request | `ParentCreateExtractor` in `UmaClient` |
| AS: registration endpoint (`uma/src/routes/ResourceRegistration.ts`) | `registrationStore`, `ownershipStore`, `derivationStore`, collections and `odrl:partOf` triples in the policy store | POST, PUT, DELETE, GET | `ResourceRegistry` |
| AS: collection endpoint (`routes/Collection.ts`) | collections in the policy store | POST, PUT, DELETE, GET | `ResourceRegistry` |
| AS: permission endpoint (`routes/Ticket.ts`) | `ticketStore` | POST | `Negotiation` |
| AS: UMA grant (`routes/Token.ts`, `dialog/`, `ticketing/`, `tokens/`) | `ticketStore`, ticket objects, token store | redeem a ticket or ask directly, push claims | `Negotiation` |
| AS: refresh grant (`routes/token/RefreshTokenHandler.ts`) | `refreshStore` | refresh, expire | `Negotiation` |
| AS: PATs (`routes/token/UmaProtection.ts`, `PatRequestValidator.ts`, `ClientRegistration.ts`) | registered clients, one PAT per client | register and remove clients, hand out, refresh, validate | `PatIssuing`; two steps of `UmaClient` |
| AS: credential verification (`credentials/`) | none | verify | a step of `Negotiation` |
| AS: policy evaluation (`policies/authorizers/`) | reads the policy store | `permissions`: choose an authorizer by namespace, decide on a query | `PolicyEvaluation`, a step of `Negotiation` |
| AS: policies and access requests (`controller/`, `routes/BaseHandler.ts`, `util/routeSpecific/`) | triples of the policy store | POST, PATCH, PUT, DELETE, GET | `PolicyStore` |
| AS: policy storage (`ucp/storage/FileBackupUCRulesStorage.ts`) | the triples, `dataChanged`, `doingBackup`, two files | add, remove, backup, initialize | `PolicyStore` |
| AS: derivation-creation (`dialog/AggregatorNegotiator.ts`), contracts (`dialog/ContractNegotiator.ts`, `policies/contracts/`) | a contract store nothing writes to | the grant with one more scope; the grant that makes a contract | `Negotiation` |
| AS: introspection, logs, keys, metadata, other storages of policies | log | read endpoints | no |

`PROJECT.json` lists every component with its sources and says of each one
that is not modelled why.

### 1.2 How they interact

The RS registers each resource with the AS of its owner (`registerResource`),
authenticating with a PAT it gets from the token endpoint (`getPat`). A
container registers an `ldp:contains` default, which makes the AS create a
collection; what is in the container registers the reverse relation to it. A
client that asks the RS for a resource without a token gets a ticket the RS has
fetched (`fetchTicket`), which may have to register the resource first. The
client takes the ticket to the token endpoint, pushes claims over one or more
exchanges, and gets an access token and a refresh token, or is told what is
missing. The AS decides by the ODRL policies owners write, or that come from
accepted access requests. Policies, access requests, and collections are triples
of one shared store.

### 1.3 What makes it hard

Both servers are single Node.js processes: code between two awaits runs
undisturbed, and other work runs at the awaits that really leave the process or
give way to the event loop. Those are HTTP round trips, the 2 s timer and the
events of the emitter in the RS; the verification of credentials, the
evaluation of policies, the signature of tokens, the query engine behind edits
of policies, and file operations in the AS. An await on one of the in-memory
stores only queues a microtask, so a handler that uses nothing else has ended
before the next request is read. The models have an action per stretch of code
between two real awaits.

The hard behaviours are:

* registrations of a resource, its siblings and its parent that overlap, each
  waiting for events the others emit, all sharing one mark for the PAT;
* failures between marking something as in progress and clearing the mark;
* PATs that expire or are renewed while requests that carry them are on the way;
* answers the network loses, so that a request is made twice;
* walks over the pods of an account, started by new settings and not awaited,
  next to resources that users create and delete;
* the settings of an account, two halves that several parties write;
* a PAT that is looked up before a signature and replaced after it;
* five stores of the AS that must agree although each operation updates them
  one after the other by the difference of two descriptions;
* tickets, claims and refresh tokens used by several requests at a time, with
  policies that change in between;
* edits of policies that work on copies of a store others go on writing to;
* a backup that is written without being awaited, and crashes during it;
* a first authorizer that must know when a rule is too difficult for it, and a
  second one that reads the policies again for each scope.

Section 5 lists the properties per component; `PROJECT.json` lists each hazard
at its line with the properties that cover it.

## 2. The modules

| Module | What it is |
| --- | --- |
| `UmaClient` | the calls of the RS's UMA client, with the endpoints of the AS they talk to |
| `RegistrationPromise` | abstract specification: what is created gets registered once and linked to its parent |
| `UmaClientRefinements` | the client seen as the registries of its issuers, as `PatIssuing` and as `RegistrationPromise` |
| `PodRegistration` | the callers of that client for one account: walks over its pods, resources that come and go |
| `PatIssuing` | registration of clients and the PATs they get |
| `AccountSeeding` | the settings of accounts: seed file, registrar and users, with the clients of `PatIssuing` |
| `ResourceRegistry` | the registration and collection endpoints over the stores they share |
| `Negotiation` | tickets, claims, access tokens and refresh tokens of concurrent requests, with the three negotiators |
| `PolicyStore` | policies, access requests, and the backup of both |
| `PolicyEvaluation` | the decision on a query: the authorizer of a namespace, or the simple one and the one it falls back to |
| `MC...` | the instances TLC checks, with one `.cfg` per run |
| `...Proofs` | the theorems about a module and their proofs |

Three modules extend another one, and so compose with it: `PodRegistration`
(with `UmaClient`), `AccountSeeding` (with `PatIssuing`), and every proof
module. Three refinements connect modules that do not:

* `KeepsPromise`: client and AS together implement `RegistrationPromise`, which
  is what the documentation promises (`documentation/collections.md`, "Parent
  containers not yet registered").
* `FollowsRegistry`: the short version of the registration endpoint inside
  `UmaClient` does nothing the full `ResourceRegistry` could not do, at any
  issuer, so that what is shown of the client holds for the real endpoint.
* `FollowsPatIssuing`: the same for PATs and `PatIssuing`; the mapping has nobody
  in `overlapped`, so that it also says that `PAT_EVENT` keeps the token requests
  of one account apart, as `SinglePat` needs.

The mappings are in `UmaClientRefinements`, and both the runs and the proofs use
them.

### 2.1 UmaClient

A *call* is one activation of `registerResource`, `fetchTicket` or
`deleteResource`. `pc[t]` is the await at which call `t` is, `frame[t]` its
local variables, with the call that awaits its result in `for`. Some points:

* `registerResource`: `start` → (`waitRes` while another call registers the
  path) → `config` → `pat` → (`waitPat`, or `patConfig`, `patSent`,
  `patAnswered`) → `send` → `sent` → `answered` → `join`, the `Promise.all` over
  its own request and the calls made for the parent. `SendRegistration` starts
  those: one that waits for the parent's event (`deferred`), and one for the
  parent if nobody registers it.
* `fetchTicket`: `config` → `lookup` per resource → `waitEvent` (the race of
  event and timer: `Timeout`, or `Emit` and `Woken`) → `probe` → `await` → then
  as above with the ticket request.
* A call that throws is `Leave(t, TRUE)`: marks it has made stay in
  `inProgress`, exactly as in the code, and the call awaiting it is told.
* The discovery document is read twice, before anything else (`config`) and by
  `getPat` when it has marked `PAT_EVENT` (`patConfig`). An issuer that answers
  with an error or an invalid document makes the call throw there
  (`ConfigFails`, `PatConfigFails`); the second time the mark stays.
* An issuer that does not answer makes nothing throw. `RetryingFetcher` repeats
  the request after ever longer pauses, and `PausableFetcher` hands on answers
  but not errors, so that the promise never settles: the call stays where it is,
  and `Unanswered` says that it may.

AS side: `PatIssued` and `PatRefused` (token endpoint), `HandleRegistration`,
`HandleTicket`, `HandleDelete`. `PatExpires` and `CacheExpires` are the two
clocks; `Retry` is `RetryingFetcher` after an answer was lost. `Create`,
`Delete`, `Reregister`, `Unregister` and `Access` are the calls the rest of the
RS makes, `Environment` all of them at any time; a request to create something
asks for access to where it is created (`FirstExisting`). `Spec` makes each call
in the name of the owner of the resource. `OpenSpec` allows any account, and
resources that come and go unseen; the theorems are about it, so that they hold
under any caller.

Abstractions. The five minutes a discovery document is cached are not counted:
an issuer may fail at every read (`FlakyIssuer`), at each one it does
(`BrokenIssuer`), or at none. The UMA identifier of a resource is its name, as
the AS uses the name (`handlePost`), so `umaIdStore` is a set. Statuses are `ok`
or not. Identities of calls are interchangeable, so `Pick` takes any that is
free. Verification of access tokens has no effect on any of the state and is not
an action.

### 2.2 PodRegistration

`UpdateSettings` is `PatUpdater.updateSettings`; a *walk* is an activation of
`updateRecursive` that is under way, in the set `walks`: it unregisters its
resource with the previous settings, registers it with the new ones, and lists
its members, each of which gets a walk. `CallClient` makes the call,
`ClientStep` lets the walk go on when that call ends, or ends it with an error.
`UserCreates` and `UserDeletes` are the events `ResourceRegistrar` gets. `gone`
and `raced` are history: what was deleted, and what was deleted while it was
being registered (`Underway`), by a call or walk of its own or by that of
something that was below it and registers it as its unknown parent.

Abstractions. One account; its settings over time are the accounts of
`UmaClient`, each at an issuer of its own. Two of them with the same issuer are
no case here (`PodAssumption`). Both halves of the settings change at once:
`AccountSeeding` is about the two. Every resource is in the root container and
in containers that exist (`TreeAssumption`), as in a Solid server. Which call
has which identity does not matter, so a walk finds its call by `Pick`.

### 2.3 PatIssuing

A PAT and its refresh token are `<<client, serial>>`, as they are made and stored
together. `RequestPat` and `RefreshPat` run up to the signature, `StorePat` and
`StoreFails` after it; the row to replace is the one found before. `RemoveClient`
takes the PATs of the client with it, as the indexed storage does.
`overlapped` is history.

Abstractions. Secrets are as good as identifiers. An identifier is not given out
twice. The validator's answer is `Accepted`.

### 2.4 AccountSeeding

`SeedAccount` is what the initializer does for an account before the server
listens: its settings, and the WebIDs of the pods it manages to create. `Listen`
activates the fetcher and starts the loop of `PatSeedRegistrar`: `Visit`,
`ReadServer`, the answer of the AS (`Registered`, `Conflict`, `AskedElsewhere`),
then an update like that of a user's `Form`: `WriteToken`, `WriteServer`. `Stop` is
a restart. `mixed` and `disturbed` are history: two updates of one account
overlapped, and something came between the registrar and its clients.

Abstractions. One AS is modelled with its clients, all others are `Elsewhere`. A
user enters credentials of their own client with the server that gave them.

### 2.5 ResourceRegistry

`registrations`, `ownership` and `derivationStore` are the key-value stores;
`collections`, `custom` and `partOf` the triples in the policy store. One
action is one accepted request; each check comes before the first write, so a
refused request changes nothing and is no step. `ownership` counts how often a
list has a resource, as lists can have duplicates. A relation collection is the
pair of its source and relation: the identifier the code makes up is a function
of the two. Left out: descriptions and names, creators of relation
collections, and the blank nodes of reverse relations that removal leaves
behind, which nothing reads.

### 2.6 Negotiation

A *dialog* is a ticket object. `ticketStore` maps identifiers to dialogs.
`validateClaims` adds claims to the object itself, also to the one `denyRequest`
stores again, while the reduced set of permissions (`frame.needed`) is a copy
that is lost with the exchange; the model has both. A handler goes `verify` →
`evaluate` → `mint`, a step per credential and per scope, with `since` recording
whether policies have changed since it started. `Refuse` covers what throws: a
credential that does not verify, or a derivation whose issuer is unknown. The
decision is `Resolved`, from `ImmediateAuthorizerStrategy` with or without
partial success, and `Missing`, from `AggregatorStrategy`. `Mint` signs the
token, stores the refresh token, and removes the one that was used.

The server has one of two configurations (`negotiator`). With the default one,
`RedeemForDerivation` is a request that also asks for the right to derive: one
more scope goes into the ticket object before it is redeemed. With
`ContractNegotiator` a grant makes a contract first, which fails for a scope
that contracts have no action for (`Unwritable`), and the token has what the
contract says and no refresh token (`MintContract`). The branch for a contract
that was made before is left out: `ContractStorage.storeContract` is called
nowhere, so that `findContract` finds nothing.

Abstractions. What the policies allow is a function from claims to permissions
(`policy`), which the environment changes. The signature is one await. Refresh
tokens expire at any time.

### 2.7 PolicyStore

A triple is a *fact* about its subject: a request has a status, a policy has a
permission, or a policy is linked to something its rules share (`Link`). What
belongs to a policy is what `getPolicy` finds (`FactsOf`): its own triples, those
of every policy that has one of its rules, and those of whatever its rules have
as a constraint, be it a request. Clients post, put and patch any graphs
(`Posted`, `Update`). A POST is refused if one of its subjects is there already
(`NewSubjects`); a PUT is only asked to have some policy, and everything in it is
added, whatever it is about, as `documentation/policy-management.md` (231-235)
allows. So a PUT can change other policies and give a request a second status.
`named` is history: the requests that were ever written of in a policy.

`AddRequest`, `Decide` and `AddPolicy` are single steps. The edits are not: a
PATCH makes a copy (`BeginPatch`), isolates the policy and copies the rest
(`Isolate`), runs its update on what was isolated, isolates the result again
(`Updated`), and writes what differs from the store of the moment (`Patch`); a
DELETE or PUT makes a copy, removes the policy from it and removes from the
store what is not in the copy (`BeginDelete`, `BeginPut`, `Remove`). `stale`
records, for a property only, that the store has changed since the copy.

The backup is `StartBackup` (the timer), `Rename`, `Snapshot`, `Unlink`, and
`Flush` when the stream reaches the disk. `FileFault` is a rename or unlink that
fails. After a `Crash`, `Restart` opens the backup file and `Load` adds what is
in it; requests are handled in between.

Abstractions. There is one owner. A policy is one entity with its rules, and its
`odrl:uid` is its identifier. Constraint nodes of requests, which an accepted
request shares with its policy, are left out. Somebody who writes a policy can
name the requests made so far, as the identifiers of later ones are random
(`Writes`). A backup that is interrupted leaves an empty file. A backup starts
when the previous one is on disk and the file has been read (five minutes lie
between two backups). An accepted request makes one policy (`PolicyOf`). An
edit never overlaps with itself: the handler identities are the edits in
progress, and any free one is taken.

### 2.8 PolicyEvaluation

`Decide` is `SimpleOdrlAuthorizer.permissions`, which has no real await: it
decides on a whole query in one step. `FallBack` hands the query to
`OdrlAuthorizer.permissions`, which takes the time once and then runs an ODRL
reasoner per scope (`Evaluate`, in any order, a superset of the code's), reading
the triples again each time; `WriteRule`, `RemoveRule`, `Enter`, `Leave`,
`Rename` and `Tick` happen in between.

Before that, `Decide` splits the query by namespace (`NamespacedAuthorizer`): what
is in one of the two special namespaces is decided by `WebIdAuthorizer` or
`AllAuthorizer` (`ByNamespace`), the rest (`Elsewhere`) as above. A resource that is
not registered is in no namespace. `Rename` covers registrations, updates with
another name, and deletions.

The simple authorizer goes through triples in no fixed order and returns at the
first rule or constraint that settles the matter, so what it returns can depend
on the order. `Walk` gives the outcomes of a loop over constraints, `Verdicts`
those of a decision on a scope, as sets.

`Allowed` is the reference: there is a permission that applies and no
prohibition that does. The reasoner is not code of this repository. It is
assumed to find the rules that apply as ODRL defines it (`Suits`), except for
rules that want a verifiable credential: `OdrlAuthorizer` does not tell it of
credentials, so that what it finds for those is left open (`Findings`).

Abstractions. A request has claims of string type; policies, collections and
groups change one at a time. Left operands other than time and client are keys,
values and types of credentials are values. The translation of scopes to ODRL
actions is a renaming both authorizers share.

Three peculiarities of the code are in the model, and the properties say where
they matter. Constraints on the time with `odrl:eq`, and on time or client with
an operator the code does not know, are taken to be violated rather than too
difficult (`Understood`). A rule for the anonymous party is about everybody for
the simple authorizer and about clients without WebID for the full one
(`Everybody`, `Subjects`). Requests that no rule matches are refused, as the
tests expect, although the comment on the class (lines 37-40) says they fall back.

## 3. The runs

| Run | Instance | Shows |
| --- | --- | --- |
| `tickets` | a pod with two documents, and the pod of another account whose issuer answers with errors; two events (a creation, or a request for access to what exists or is to be created) | `TypeOK`, `RequestsAccepted`, `AllLinked`, `KeepsPromise` |
| `lifecycle` | the pod of one account with a document; settings for one issuer, then for another; documents created and deleted; three acts in all | all of section 5.2 but `SettingsApplied`, and `ExclusiveRegistration`, `ExclusivePat`, `NoDuplicateRegistration` of 5.1 |
| `faults` | two pods of two accounts at two issuers, one that answers with errors at times and one that refuses the credentials and may stop answering; two calls of any kind (create, delete, register or unregister again, access); PATs expire; one answer is lost | `AwaitedIdKnown`, `IdsHonoured`, `NoLostWakeup`, `CallsSettle`, `PatNotOverwritten`, `FollowsPatIssuing` |
| `pats` | three clients of two users, three rows, two token requests at a time, two PATs per client | all of section 5.3 |
| `seeding` | two accounts with three WebIDs; one form, one lost answer, one restart, a client registered by hand | all of section 5.4 |
| `registry` | two resources, two owners, one relation, one collection, one derivation | all of section 5.5 |
| `negotiation` | two requests at a time, three dialogs, permissions on two resources, one of them derived and one that may be derived from, one change of policy, either negotiator, partial success as in `uma/config/enable-partial.json` | all of section 5.6 |
| `policies` | a request, its policy and another one, two graphs to post and put (the other policy alone, or with the request as a constraint and a status of it), a patch that links the two policies, two edits that may overlap, one crash, one file fault | all of section 5.7 |
| `evaluation` | nine rules of different kinds, any set of them in force; two resources of which one changes its namespace, a document in and out of a collection, a user in and out of a group; five claim sets | all of section 5.8 |
| `stuck_ticket` | two pods of two accounts at one issuer that refuses one of them; two requests for access | violation of `TicketsSettle` |
| `new_issuer` | as `lifecycle`, two acts | violation of `SettingsApplied` |
| `requests_final` | as `policies` | violation of `RequestsFinal` |

### 3.1 Bounds

* `Call` (7 to 9): an event leads to at most a call per ancestor and a second one
  per orphan. A step that would make a call when all are in use waits until one
  ends, as a bound on concurrency, not something the code does; it delays
  steps in states where nearly all calls are in use, and `CallsSettle` shows
  that no behaviour of `faults` gets stuck that way.
* `MaxEvents` 2 in `tickets`, `faults` and `stuck_ticket`: every hazard of
  section 1.3 in the client is between two calls made from outside and those
  they make themselves. In `lifecycle` walks make the calls: `MaxEvents` 20
  is never reached there, and `MaxActs` counts what starts them. Three acts are an
  update and two changes, or two updates and a change; two suffice for
  `new_issuer`.
* `MaxPat` 2 gives an account one renewal (`faults`); elsewhere it is 1, so that
  PATs do not expire (`PatExpires` leaves one to ask for). `MaxLost` 1 is one
  repeated request.
* `pats`: `MaxSerial` 2 has a PAT replaced, and three clients of two users have
  every answer of the registration. `Row` is as many as there can be entries with
  one overlap.
* `seeding`: three WebIDs of two accounts have an account with several, and
  `MaxForms`, `MaxLost`, `MaxRestarts` 1 each disturbance once. Token requests are
  left out, as they change nothing the settings depend on: hence no `Handler`.
* `Dialog` 3, `Handler` 2, `RefreshId` 2, `TicketId` 2: two requests for one
  ticket at the same time, then a refresh of the token; two refreshes of the
  same token; a dialog of two exchanges next to another one. `Mint` waits for a
  free `RefreshId`, as a bound.
* `MaxChanges` 1: the policy changes once, at any moment.
* `FlakyIssuer`, `BrokenIssuer`, `SilentIssuer`: issuers that answer with errors
  at times, always, or may stop answering. `faults` has the first and the last
  next to each other, so that a mark left behind by either pod meets calls of the
  other; `tickets` has the second, with an account nothing can be done for.
* `Posted`, `Update` (`policies`): a graph about a new policy only, one that is
  also about the request and links the policy to it, and an update that exchanges
  the rule of a policy for that of the other, so that what was isolated grows. All
  of them can be posted, put and patched over either policy.
* `MaxEdits` 2, `MaxCrashes` 1, `MaxFaults` 1: two edits that overlap, a crash at
  any step, a failure of any file operation with a successful backup after it.
* `evaluation`: nine rules, one of each kind the code tells apart (matched by
  target or collection, by assignee, group or nobody, with each kind of
  constraint, fulfilled, violated, incomplete and too difficult), in all 512
  combinations; two moments (`MaxClock` 1) and one change during a request
  (`MaxChanges` 1). The theorems hold for all others.

Deadlock is not checked where the bounds, not the system, end a behaviour: in
all instances but `registry` and `evaluation`.

### 3.2 Fairness

`UmaClient!FairSpec` has weak fairness for "some call makes progress": the Node
event loop does not rest while a continuation is ready, a request that was sent
is answered, and the timer of `fetchTicket` is one of the steps. It asks for
nothing from the environment, and not for any particular call. What waits for an
answer of a `SilentIssuer` is not asked to go on (`Progress`, `Unanswered`): its
150 attempts, 3^n s apart, take longer than any server runs, and should they end
the rejection goes nowhere (`PausableFetcher.ts`, 24-28). A `Promise.all` still
passes a rejection on while such a request is open (`RejectEarly`).
`PolicyStore!FairSpec` has weak fairness for each step of a backup and for
reading the file: the interval timer goes on (`setSafeInterval`) and the file
system answers. `AccountSeeding!FairSeeding` has weak fairness for the loop of
the registrar and for updates that have begun, for the same reason as the
client. No user or client is obliged to do anything, and a server that is down
need not come back. All other modules have safety properties only.

## 4. Findings

| Run | Where | What |
| --- | --- | --- |
| `stuck_ticket` | `css/src/uma/UmaClient.ts:130` | A refused token request leaves `PAT_EVENT` marked, and every later request of every account waits; `documentation/collections.md:236` promises a timeout. |
| `new_issuer` | `css/src/uma/UmaClient.ts:477` | `deleteResource` keeps the identifier, so that an account that moves to another issuer has its resources updated where they do not exist, and the error ends the walk over its pod; the comment on `PatUpdateHandler` says all of them will be registered there. |
| `requests_final` | `uma/src/controller/BaseController.ts:97` | An edit of a policy with an old copy of the store removes a decision made meanwhile; `documentation/access-request-management.md:79` says decisions are final. |

Four more things came up that no document contradicts, and that the models
keep: a registration that is under way when its resource is deleted stays at
the issuer (`raced`), be it one of its own or one of its parent's that a child
makes; two updates of one account at a time can leave credentials of
one server with the address of another (`mixed`); after a restart of the RS the
registrar is refused the client it had before, and its loop ends there with the
accounts after it left without credentials (`disturbed`); a policy that is put
can give a request for access a second status, which can then not be decided
(`named`).

## 5. The properties

### 5.1 UmaClient

* `ExclusiveRegistration`, `ExclusivePat`: what `inProgress` is for. One call at
  a time registers a resource, or asks for a PAT, and its mark is there.
* `NoLostWakeup`: what a call waits for is marked, so its event is still to come.
* `NoDuplicateRegistration`, `PatNotOverwritten`: the client never creates what
  the issuer has, and never makes a PAT void that another call still uses.
* `AwaitedIdKnown`, `IdsHonoured`: identifiers are there when a registration
  resolves, and one is kept only when the issuer has the resource with the
  collection its children refer to.
* `RequestsAccepted`, `AllLinked`: without faults every request is accepted and
  every resource gets linked to its parent, in every order of calls.
* `CallsSettle` (liveness): every call ends, unless it waits, directly or through
  others, for an issuer that is silent or for a mark a failed call left behind
  (`Stuck`). No two calls wait for each other, no event is missed, and issuers that
  fail, refuse or lose answers stop nothing else. `Stuck` is the least set of such
  calls: a circle of calls that wait for each other is not in it.
* `KeepsPromise`, `FollowsRegistry`, `FollowsPatIssuing` (refinement).

### 5.2 PodRegistration

* `NothingMissed`: once the first settings of an account are applied and all is
  quiet, everything in its pods is registered with them and linked, whatever
  was created meanwhile. Resources that were deleted before, or are in a container
  that was, are left out (`Touched`): their identifiers are stale.
* `RemovedAreUnregistered`: what is deleted does not stay registered, unless it was
  being registered at that moment.
* `SettingsApplied`: the same as `NothingMissed` for later settings; violated.
* `PodTypeOK` also says that a walk waits for a call on its own resource.

### 5.3 PatIssuing

* `RemovedStaysOut`: a client that is removed while a PAT is signed for it does
  not come back with that PAT.
* `SinglePat`: without overlap a client has one PAT, so that replacing it leaves
  none behind.
* `OthersKeepPats`: only expiry, the removal of its client, or the client itself
  ends the life of a PAT.

### 5.4 AccountSeeding

* `SettingsMatch`: credentials and server of an account belong together and to a
  WebID of the account, once both are written and unless two of its updates
  overlapped.
* `SeedingCompletes` (liveness): an account with a WebID and a server gets
  credentials, unless something came in between.

### 5.5 ResourceRegistry

`OwnershipAgrees` (registrations and lists of owners), `PartsMatchDescriptions`
(descriptions and `odrl:partOf`), `MembersHaveCollection` and
`DefaultsHaveCollection` (collections and who is in or behind them),
`AssetPartsOwned` (collections of users and owners of their parts). Each relates
two stores over all sequences of requests. Edits of policies, which share the
triples, are not in this module. An update makes the collections of all relations
of the new description where the code makes those the old one did not have:
`DefaultsHaveCollection` says that the others are there.

A resource that names itself as its parent is an exception to
`MembersHaveCollection`: it can remove the collection it is about to enter, as
the check for members comes before any triple is added.

### 5.6 Negotiation

`TicketSingleUse`, `TokensReflectPolicy`, `DerivationsProven`, and the action
property `RotationKeepsAccess`, for all ways to a token and both negotiators.

### 5.7 PolicyStore

* `OneStatus`: a request nobody wrote of in a policy never has two statuses,
  whatever copies of it edits put back around its decision.
* `EditsKeepToTheirPolicy` (action property): an edit whose copy is not stale
  takes out what belongs to its policy only, and puts in what the client wrote
  only. What the client wrote is not restricted. Edits with a stale copy undo what
  others did; `RequestsFinal`, which is violated, is about those.
* `CleanIsSaved`: what counts as saved is in the backup file.
* `ChangesGetSaved` (liveness): a failed backup does not prevent the next one.

### 5.8 PolicyEvaluation

* `FastPathExact`: what the simple authorizer decides itself, in any order of
  triples, is what the rules say; it gives up before it is wrong.
* `AnswersFollowPolicies`: whole answers, on either path and whatever namespaces
  the resources are in, have exactly what the authorizers responsible stand for
  (`Entitled`), unless something changed meanwhile.

The type invariants of `PatIssuing`, `Negotiation` and `PolicyStore` are proved and
in no run; the one of `PatIssuing` is also part of `SeedingTypeOK`.

## 6. The proofs

Assumptions are the named ASSUMEs on the constants of each module; they say
what kind of values constants are and nothing about how many there are. Two say
more: `TreeAssumption` (resources are in containers, up to the root) and
`NobodyAssumption` (the value for "nobody" is no PAT). Where a theorem needs the
absence of a fault it is a hypothesis of that theorem, named in its statement.

### 6.1 UmaClient

All theorems of `UmaClientProofs` are about `OpenSpec`, the client under any
calls for any account while resources come and go, and so hold of `Spec`
(`SpecIsOpen`) and for `PodRegistration`; those with the hypothesis `Calm` are
about `Spec`.

**Locks.** `TypeCorrect`, then `RegistrationIsExclusive`, `PatRequestIsExclusive`
and `NoWakeupIsLost` from `LockInv`, which adds that only requests for access are
at the awaits of `fetchTicket` (`OnlyTickets`). None of the three is inductive
alone: a call that waits stays marked only because the call that holds the mark
is the only one to clear it, and that call is the only one because all others
see the mark.

**Steps.** The next-state relation has some thirty disjuncts, and the proofs
below need only a few facts of each. They are collected once. `CallStep`: each call
stays where it is, ends, moves on along its own path (`Moves`), or is started, by
the environment, a child or a request for access (`Starts`). `StoreStep`: which
call may change identifiers, the cache of PATs, the PATs of an issuer and its
registry, and at which await. `TieStep`: how the calls a call awaits, and the
rejections it gets, change. The invariants are then proved from these three.

**Invariants**, each inductive with those named in it:

| Theorem | Invariant | What it adds |
| --- | --- | --- |
| `IdentifiersAreHonoured` (`IdsHonoured`) | `IdsInv` | calls that delete, and those in the `Promise.all`, work on known resources; an accepted answer on its way is honoured until someone else makes the resource known |
| `CarriedPatIsKept` (`PatNotOverwritten`) | `PatInv` | who asks for a PAT finds none in the cache; a valid PAT that is carried is the cached one |
| `NothingIsRegisteredTwice` (`NoDuplicateRegistration`) | `KnownInv` | what an issuer has, the client knows or is being answered |
| `IssuersAreRegistries` (`FollowsRegistry`) | `RegistryInv` | a call that links a resource is a registration of it |
| `PatsAreIssued` (`FollowsPatIssuing`) | `PatInv` | as above |
| `AwaitedIdIsKnown` (`AwaitedIdKnown`) | `AwaitInv` | a call at its last await has a registration of its resource to wait for, or the identifier |
| `RequestsAreAccepted` (`RequestsAccepted`) | `CalmInv` | what the client knows is kept by the issuer; one valid PAT per account; a relation is only sent when the parent is known; a registration that links nothing is followed by one that does |
| `CreatedAreLinked` (`AllLinked`) | `LinkInv` | what was created is linked, or some call has yet to do so |
| `PromiseIsFollowed` (safety of `KeepsPromise`) | `CalmInv` | as above |

Three hypotheses are needed, and the code is why. An answer that is lost makes
the RS repeat a registration the issuer has (`RetryingFetcher`), so
`NothingIsRegisteredTwice` is about behaviours with `lost = 0`: up to the first
loss. The last three theorems assume `Calm`: no deletions or updates
(identifiers in `umaIdStore` outlive the registration), no lost answers, PATs
that do not expire (a request with an old PAT is refused and not repeated), one
issuer in use and one owner per pod (`umaIdStore` has one identifier for a path,
whoever asks). `CreatedAreLinked` also assumes `Granted`: an issuer that fails
to be read, or refuses a PAT, ends the registration. The run `tickets` is an
instance of `Calm` and `Granted`.

### 6.2 PodRegistration

`PodsUseOpenClient` shows that each step of the callers is one of `OpenSpec` or
leaves the client alone, so that the theorems above carry over
(`PodRegistrationIsExclusive`, `PodPatRequestIsExclusive`, `PodsRegisterOnce`,
`PodsFollowRegistry`). `PodsTyped` needs that a call in use keeps its kind and
resource until it ends. `PodEffects` gives the step summaries above for steps of
the callers.

* `RemovedStaysUnregistered` (`RemovedAreUnregistered`), for first settings
  whose issuer does not fail at times (`Steady`; without it an issuer that could
  be read when a resource was registered may fail when it is to be unregistered,
  and `deleteResource` is not repeated): `PodInv` says that, after one update,
  whatever was deleted and not `raced` is on its way out or out (`Detached`): no
  issuer knows it, or a call has yet to unregister it (`Removing`); and nothing
  under way will register it again. The last part is the delicate one, as
  registering a child registers its parent: it needs that what exists is in
  containers that exist (`Rooted`), and that containers are deleted when they
  are empty.
* `FirstUpdateMissesNothing` (`NothingMissed`), for any settings whose issuer
  can be read at any time and accepts the credentials (`Usable`; without it
  there is nothing that could be registered): `FirstInv` says that whatever
  exists is registered and linked, or a call has yet to link it (`Pending`), or
  a walk is still to come by it (`Ahead`), or it was touched by a deletion
  (`Covered`). A walk can end early only by a rejection, and those come from
  below something that was deleted (`BadTouched`), as what was not is kept by
  the issuer (`StillKept`).

Both are for any tree, any number of calls, walks and acts. They stop at the
first update because the code does not keep them after it (`new_issuer`).

### 6.3 The other modules

* `PatIssuingProofs`: a theorem for each property of section 5.3. In
  `PatInv`, a PAT being signed replaces an entry of its own client (`RowKept`), and
  a request nothing overlaps with has seen all entries of its client
  (`Undisturbed`): neither is said by the code that stores the PAT.
* `AccountSeedingProofs`: `AccountsTyped` and `SettingsAlwaysMatch`. In `SeedInv`
  the settings an update carries belong together (`JobsGiven`), an account without
  overlapping updates has at most one (`Alone`), and between its two halves what is
  stored has the token of that update (`Settled`), so that its second half completes
  a match instead of mixing two. Of the clients only this is used: who registered
  one never changes (`Steady`), with the lemmas of `PatIssuingProofs`.
* `ResourceRegistryProofs`: a theorem for each property of section 5.5. Their
  conjunction, `RegistryInv`, is inductive; no property is by itself, as an
  update goes by the difference of two descriptions and is right only if the
  stores agreed before.
* `NegotiationProofs`: a theorem for each property of section 5.6.
  `TicketUsedOnce` comes from `NegotiationInv`, which adds that dialogs not yet
  opened are nowhere stored or worked on (`Unopened`). `DerivationsAlwaysProven`
  comes from `DerivationInv`: whatever is asked for comes with its derivations,
  and what has left the needed permissions of a handler was provided in the
  dialog (`Settled`); the scope a request to derive adds is on a resource whose
  derivations are asked for already. `TokensAlwaysReflectPolicy` comes from
  `PolicyInv`, the same for what was granted so far: provided claims do not change
  during evaluation, as no other handler has the dialog. `RefreshKeepsAccess` needs
  that the identifier of a new refresh token is not one in use.
* `PolicyStoreProofs`: a theorem for each safety property of section 5.7.
  `OneStatusPerRequest` needs `StatusInv`, for the requests not in `named`: the
  store, the file, the stream to it, what is still to be read and what each edit
  will put back have one status per request each, only of requests made, nothing
  links a policy to them, no edit is about to write of them, and what is still
  to be read shares no request with the store or with an edit. That nothing
  links to them is what keeps the isolated part of an edit free of them.
  `CleanIsAlwaysSaved` follows the backup through its steps (`SavedInv`): with a
  clean store, the file or the stream has the store with what is still to be
  read. `EditsChangeTheirPolicyOnly` has the copy and the rest of an edit add up
  to the store as long as it is not stale (`CopyInv`): for any graphs, an edit
  takes out no more than `FactsOf` found and puts in no more than was written.
* `PolicyEvaluationProofs`: a theorem for each property of section 5.8. The core
  is about one rule: one found valid applies (`ValidRuleApplies`), and one that
  applies is found valid unless the authorizer may give up on it
  (`ApplyingRuleIsValid`). `VerdictsExact` lifts this to the decision on a scope,
  `NamesDecide` to the special namespaces, and `EvaluationInv` to answers: what
  has been evaluated so far is what the rules allow of it (`EvaluatesExactly`).

Every safety property a passing run checks is proved. Only model-checked:
liveness (`CallsSettle`, `SeedingCompletes`, `ChangesGetSaved`, and that of
`RegistrationPromise` in `KeepsPromise`), which rests on fairness and ENABLED and is
out of the prover's reach. The three violated properties are shown by their
counterexamples.

## 7. Plan

Written, in this order: `UmaClient` with `RegistrationPromise`, `ResourceRegistry`
and the composition of the two, `Negotiation`, `PolicyStore`, `PolicyEvaluation`;
then `PatIssuing`, `AccountSeeding`, `PodRegistration`, the other negotiators and
the choice by namespace; and the proofs about each of them.

Next, by importance:

1. `PolicyEvaluation` as the policy of `Negotiation`, and an abstract
   specification of a grant (a token for a resource exists only if its owner
   allowed it) that `Negotiation` with `PolicyStore` implements, with its proof.
2. `AccountSeeding` as a behaviour of `PatIssuing`: the clients the registrar makes
   are registered as others are, for any number of restarts.
3. What `PodRegistration` keeps after later updates, for settings at the issuer
   resources were registered at first.
4. Restarts of one server while the other goes on, for registrations: identifiers
   and registrations are in memory, and the code does not reconcile them.

## 8. Not modelled

* Introspection, log, keys and metadata endpoints, and GET on all others: they
  read a store or a constant and change nothing another operation depends on.
* Data formats and their checks (`ReType`, form and JSON handlers), routing, HTTP
  errors beyond accepted or refused, signatures and key handling: functions of
  one request without state.
* On the RS, the extraction of tokens and permissions, headers and keys, for the
  same reason; accounts, pods and resources as such belong to the Community
  Solid Server.
* The delays and the number of attempts of `RetryingFetcher`, and the order of the
  backlog of `PausableFetcher`: the models have no clock, and a repeated request
  may come at any later moment.
* The storages of policies that the default configuration does not use, and the
  two stubs `NoneAuthorizer` and `ContractStorage.storeContract`.
* Demo, scripts, tests, and the wiring of components, which were read as evidence
  of how the code is used.
