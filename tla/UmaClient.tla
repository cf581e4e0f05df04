------------------------------ MODULE UmaClient ------------------------------
(****************************************************************************)
(* The UMA client of the resource server (packages/css/src/uma/UmaClient.ts)*)
(* as a set of concurrent calls, together with the authorization-server     *)
(* endpoints those calls talk to.                                           *)
(*                                                                          *)
(* A call is one activation of registerResource, fetchTicket or             *)
(* deleteResource.  The resource server is one Node.js process: code        *)
(* between two awaits runs without interruption and is one action here;     *)
(* every await (an HTTP round trip, an event of the emitter, the 2 s timer) *)
(* is a control point at which other calls run.                             *)
(*                                                                          *)
(* The UMA identifier of a resource is its name                             *)
(* (ResourceRegistration.handlePost), so umaIdStore is the set of           *)
(* resources that have an entry.                                            *)
(****************************************************************************)
EXTENDS Naturals, FiniteSets

CONSTANTS
  Resource,      \* the resources of the server, containers included
  Root,          \* the server's root container
  Parent,        \* [Resource \ {Root} -> Resource], getParentContainer
  Account,       \* the accounts: one pair (issuer, credentials) each
  OwnerOf,       \* [Resource \ {Root} -> Account], ResourceRegistrar.findOwner
  Issuer,        \* the authorization servers
  IssuerOf,      \* [Account -> Issuer], the account's authorization server
  BadAccount,    \* accounts whose credentials their issuer refuses
  BrokenIssuer,  \* issuers that answer with no valid discovery document
  FlakyIssuer,   \* issuers that do so at times
  SilentIssuer,  \* issuers that may stop answering
  Call,          \* identities for the calls that run at the same time
  NoCall,        \* not a call: nobody awaits the result
  Nobody,        \* not an account: the resource has no registration
  PatEvent,      \* the key 'PAT_EVENT' of inProgress
  InitExists,    \* resources that exist before the client registers any
  Events,        \* the kinds of calls the server makes in this instance
  TicketTargets, \* the sets of resources requests ask access to
  Creations,     \* the resources requests are to create
  MaxEvents,     \* bound: calls made by the rest of the server
  MaxPat,        \* bound: PATs an issuer hands to one account
  MaxLost        \* bound: responses the network loses

EventKind == {"create", "delete", "update", "access"}

ASSUME ResourceAssumption ==
  /\ Root \in Resource
  /\ PatEvent \notin Resource
  /\ Parent \in [Resource \ {Root} -> Resource]

ASSUME AccountAssumption ==
  /\ OwnerOf \in [Resource \ {Root} -> Account]
  /\ IssuerOf \in [Account -> Issuer]
  /\ BadAccount \subseteq Account
  /\ BrokenIssuer \subseteq Issuer /\ FlakyIssuer \subseteq Issuer
  /\ SilentIssuer \subseteq Issuer
  /\ Nobody \notin Account

ASSUME CallAssumption == NoCall \notin Call

ASSUME EventAssumption ==
  /\ InitExists \subseteq Resource
  /\ Root \in InitExists
  /\ Events \subseteq EventKind
  /\ TicketTargets \subseteq SUBSET (Resource \ {Root})
  /\ Creations \subseteq Resource \ {Root}

ASSUME BoundAssumption ==
  /\ MaxEvents \in Nat
  /\ MaxPat \in Nat \ {0}
  /\ MaxLost \in Nat

VARIABLES
  inProgress,    \* UmaClient.inProgress: paths being registered, PatEvent
  umaIdStore,    \* resources the client holds a UMA identifier of
  patStorage,    \* UmaClient.patStorage: number of the unexpired PAT, or 0
  pc,            \* where each call is
  frame,         \* the local variables of each call
  exists,        \* CachedResourceSet.hasResource: resources of the server
  events,        \* how many calls the server has made (bounds the model)
  lost,          \* how many responses were lost (bounds the model)
  registrations, \* AS registrationStore: the owner of each known resource
  relations,     \* AS policy store: resources with an odrl:partOf triple
                 \*   to the collection of their parent
  collections,   \* AS policy store: containers with an ldp:contains collection
  issuedPat,     \* AS: number of the latest PAT of the account, 0 for none
  livePat        \* AS: accounts whose latest PAT has not expired

clientVars == <<inProgress, umaIdStore, patStorage>>
callVars   == <<pc, frame>>
serverVars == <<exists, events, lost>>
asVars     == <<registrations, relations, collections, issuedPat, livePat>>
vars       == <<clientVars, callVars, serverVars, asVars>>

-----------------------------------------------------------------------------
(* Control points and local variables.                                      *)

\* free      not in use                 waitRes    once(emitter, res.path)
\* start     enters registerResource    deferred   once(emitter, parent.path)
\* config    fetchUmaConfig             waitEvent  the race of fetchTicket
\* pat       enters getPat              woken      that race won by the event
\* waitPat   once(emitter, PAT_EVENT)   lookup     top of the loop of fetchTicket
\* patConfig fetchUmaConfig in getPat   probe      resourceSet.hasResource
\* patSent, patAnswered  token request  await      registerResource in fetchTicket
\* send      has its PAT                join       the final Promise.all
\* sent, answered        main request
Point == {"free", "start", "waitRes", "deferred", "config", "pat", "waitPat",
          "patConfig", "patSent", "patAnswered", "send", "sent", "answered",
          "join", "lookup", "waitEvent", "woken", "probe", "await"}

Kind == {"none", "register", "ticket", "delete"}

Frame == [kind : Kind,
          res  : Resource,                \* the resource being worked on
          acct : Account \cup {Nobody},   \* issuer and credentials
          todo : SUBSET Resource,         \* ticket: targets left to look up
          body : SUBSET Resource,         \* ticket: targets whose id is known
          known : BOOLEAN,                \* register: knownUmaId was found
          linked : BOOLEAN,               \* register: parent relation included
          pat  : Nat,                     \* the PAT the requests carry
          ok   : BOOLEAN,                 \* the AS accepted the main request
          for  : Call \cup {NoCall},      \* the call that awaits this one
          bad  : BOOLEAN]                 \* a call it awaits was rejected

Idle == [kind |-> "none", res |-> Root, acct |-> Nobody, todo |-> {}, body |-> {},
         known |-> FALSE, linked |-> FALSE, pat |-> 0, ok |-> FALSE,
         for |-> NoCall, bad |-> FALSE]

\* Mutant: registerResource is called with its arguments in the wrong order.
RegisteringSwapped(r, a, caller) ==
  [Idle EXCEPT !.kind = "register", !.res = r, !.acct = caller, !.for = a]

Registering(r, a, caller) ==
  [Idle EXCEPT !.kind = "register", !.res = r, !.acct = a, !.for = caller]

Free == {t \in Call : pc[t] = "free"}
Pick(S) == CHOOSE x \in S : TRUE

\* The calls whose result t awaits.
Awaited(t) == {u \in Call : frame[u].for = t}

\* The points at which a registerResource call owns its path in inProgress.
Working == {"config", "pat", "waitPat", "patConfig", "patSent", "patAnswered",
            "send", "sent", "answered"}

\* The points at which a call owns PatEvent in inProgress.
AskingPat == {"patConfig", "patSent", "patAnswered"}

Holds(t, r) == frame[t].kind = "register" /\ frame[t].res = r /\ pc[t] \in Working

\* The containers, which register an ldp:contains default.
Container == {Root} \cup {Parent[r] : r \in Resource \ {Root}}

-----------------------------------------------------------------------------
(* Building blocks of the actions.                                          *)

\* Mutant: a rejection is caught and logged where the call was made.
LeaveUnnoticed(t, rejected) ==
  /\ pc' = [pc EXCEPT ![t] = "free"]
  /\ frame' = [u \in Call |->
       IF u = t THEN Idle
       ELSE IF frame[u].for = t THEN [frame[u] EXCEPT !.for = NoCall]
       ELSE frame[u]]

\* t ends.  A rejection reaches the call that awaits t (Promise.all and await
\* reject with the first rejection); calls t awaited go on unobserved.
Leave(t, rejected) ==
  /\ pc' = [pc EXCEPT ![t] = "free"]
  /\ frame' = [u \in Call |->
       IF u = t THEN Idle
       ELSE IF rejected /\ u = frame[t].for THEN [frame[u] EXCEPT !.bad = TRUE]
       ELSE IF frame[u].for = t THEN [frame[u] EXCEPT !.for = NoCall]
       ELSE frame[u]]

\* Mutant: the children that wait for r as their parent are not told.
EmitToCallers(r) ==
  [u \in Call |->
     IF pc[u] = "waitRes" /\ frame[u].res = r THEN "start"
     ELSE IF pc[u] = "waitEvent" /\ frame[u].res = r THEN "woken"
     ELSE pc[u]]

\* Mutant: the requests for access that wait for r are not told.
EmitToRegistrations(r) ==
  [u \in Call |->
     IF pc[u] = "waitRes" /\ frame[u].res = r THEN "start"
     ELSE IF pc[u] = "deferred" /\ Parent[frame[u].res] = r THEN "start"
     ELSE pc[u]]

\* emitter.emit(r): every listener of the event runs once.
Emit(r) ==
  [u \in Call |->
     IF pc[u] = "waitRes" /\ frame[u].res = r THEN "start"
     ELSE IF pc[u] = "deferred" /\ Parent[frame[u].res] = r THEN "start"
     ELSE IF pc[u] = "waitEvent" /\ frame[u].res = r THEN "woken"
     ELSE pc[u]]

\* Mutant: the mark is removed, the event is not emitted.
EmitNoPat == pc

\* Those that wait for a PAT look into the cache again.
EmitPat == [u \in Call |-> IF pc[u] = "waitPat" THEN "pat" ELSE pc[u]]

Goto(t, point) == pc' = [pc EXCEPT ![t] = point]

\* Mutant: registerResource does not look at inProgress.
EnterUnchecked(r) == "config"

\* registerResource up to its first await: the call queues behind a
\* registration in progress or takes the path.
Enter(r) == IF r \in inProgress THEN "waitRes" ELSE "config"

Claim(r) == inProgress' = inProgress \cup {r}

\* Mutant: two token requests may be under way.
PatNeverUnderway == FALSE

PatUnderway == PatEvent \in inProgress

\* Mutant: the identifier in the response is not kept.
ForgottenId(r) == umaIdStore

StoredId(r) == umaIdStore \cup {r}

\* Mutant: the relation is sent along although the parent is not known.
NeverOrphan(r) == FALSE

\* There is a parent but no identifier to refer to it with.
Orphan(r) == r # Root /\ Parent[r] \notin umaIdStore

\* Mutant: the status of the response is not looked at.
AnyStatus(t) == TRUE

\* 200 for an update, 201 for a new registration.
Succeeded(t) == frame[t].ok

-----------------------------------------------------------------------------
(* Steps every kind of call takes.                                          *)

\* fetchUmaConfig gets a bad status or an invalid document, unless it has a
\* document of the last five minutes: it throws.
MayFail(t) == IssuerOf[frame[t].acct] \in BrokenIssuer \cup FlakyIssuer
MayBeRead(t) == IssuerOf[frame[t].acct] \notin BrokenIssuer

\* The call throws, its path stays in inProgress.
ConfigFails(t) ==
  /\ pc[t] = "config"
  /\ MayFail(t)
  /\ Leave(t, TRUE)
  /\ UNCHANGED <<clientVars, serverVars, asVars>>

ConfigRead(t) ==
  /\ pc[t] = "config"
  /\ MayBeRead(t)
  /\ \/ /\ frame[t].kind = "register"
        /\ frame' = [frame EXCEPT ![t].known = frame[t].res \in umaIdStore]
        /\ Goto(t, "pat")
     \/ /\ frame[t].kind = "ticket"
        /\ Goto(t, "lookup")
        /\ UNCHANGED frame
     \/ /\ frame[t].kind = "delete"
        /\ frame[t].res \in umaIdStore
        /\ Goto(t, "pat")
        /\ UNCHANGED frame
     \/ /\ frame[t].kind = "delete"
        /\ frame[t].res \notin umaIdStore
        /\ Leave(t, TRUE)
  /\ UNCHANGED <<clientVars, serverVars, asVars>>

\* getPat up to its first await: the cached PAT, or wait for the request in
\* progress (of any account), or mark that there is one.
GetPat(t) ==
  /\ pc[t] = "pat"
  /\ \/ /\ patStorage[frame[t].acct] # 0
        /\ frame' = [frame EXCEPT ![t].pat = patStorage[frame[t].acct]]
        /\ Goto(t, "send")
        /\ UNCHANGED inProgress
     \/ /\ patStorage[frame[t].acct] = 0
        /\ PatUnderway
        /\ Goto(t, "waitPat")
        /\ UNCHANGED <<frame, inProgress>>
     \/ /\ patStorage[frame[t].acct] = 0
        /\ ~PatUnderway
        /\ Claim(PatEvent)
        /\ Goto(t, "patConfig")
        /\ UNCHANGED frame
  /\ UNCHANGED <<umaIdStore, patStorage, serverVars, asVars>>

\* getPat reads the discovery document once more: its token endpoint.
PatConfigRead(t) ==
  /\ pc[t] = "patConfig"
  /\ MayBeRead(t)
  /\ Goto(t, "patSent")
  /\ UNCHANGED <<frame, clientVars, serverVars, asVars>>

\* It fails: getPat throws, PatEvent stays.
PatConfigFails(t) ==
  /\ pc[t] = "patConfig"
  /\ MayFail(t)
  /\ Leave(t, TRUE)
  /\ UNCHANGED <<clientVars, serverVars, asVars>>

\* The token endpoint refuses the credentials: getPat throws, PatEvent stays.
PatRefused(t) ==
  /\ pc[t] = "patSent"
  /\ frame[t].acct \in BadAccount
  /\ Leave(t, TRUE)
  /\ UNCHANGED <<clientVars, serverVars, asVars>>

\* The token endpoint hands out a PAT; the account's previous PAT is void.
PatIssued(t) ==
  /\ pc[t] = "patSent"
  /\ frame[t].acct \notin BadAccount
  /\ LET a == frame[t].acct IN
       /\ issuedPat[a] < MaxPat
       /\ issuedPat' = [issuedPat EXCEPT ![a] = @ + 1]
       /\ livePat' = livePat \cup {a}
       /\ frame' = [frame EXCEPT ![t].pat = issuedPat[a] + 1]
  /\ Goto(t, "patAnswered")
  /\ UNCHANGED <<clientVars, serverVars, registrations, relations, collections>>

\* Mutant: the PAT is used once and not kept.
PatReceivedOnce(t) ==
  /\ pc[t] = "patAnswered"
  /\ inProgress' = inProgress \ {PatEvent}
  /\ pc' = [EmitPat EXCEPT ![t] = "send"]
  /\ UNCHANGED <<umaIdStore, patStorage, frame, serverVars, asVars>>

PatReceived(t) ==
  /\ pc[t] = "patAnswered"
  /\ patStorage' = [patStorage EXCEPT ![frame[t].acct] = frame[t].pat]
  /\ inProgress' = inProgress \ {PatEvent}
  /\ pc' = [EmitPat EXCEPT ![t] = "send"]
  /\ UNCHANGED <<umaIdStore, frame, serverVars, asVars>>

\* The network loses the response; RetryingFetcher repeats the request.
Retry(t) ==
  /\ lost < MaxLost
  /\ lost' = lost + 1
  /\ \/ pc[t] = "answered" /\ Goto(t, "sent")
     \/ /\ pc[t] = "patAnswered"
        /\ issuedPat[frame[t].acct] < MaxPat
        /\ Goto(t, "patSent")
  /\ UNCHANGED <<clientVars, frame, exists, events, asVars>>

-----------------------------------------------------------------------------
(* registerResource.                                                        *)

\* Mutant: a call for a resource in progress returns, as there is one already.
BeginOnce(t) ==
  /\ pc[t] = "start"
  /\ IF frame[t].res \in inProgress
     THEN Leave(t, FALSE)
     ELSE Goto(t, "config") /\ UNCHANGED frame
  /\ Claim(frame[t].res)
  /\ UNCHANGED <<umaIdStore, patStorage, serverVars, asVars>>

\* Its first statements: wait for the registration in progress, or claim.
Begin(t) ==
  /\ pc[t] = "start"
  /\ Goto(t, Enter(frame[t].res))
  /\ Claim(frame[t].res)
  /\ UNCHANGED <<umaIdStore, patStorage, frame, serverVars, asVars>>

\* The description is built and sent.  With an unknown parent the request goes
\* out without the relation: a second call waits for the parent's event, and
\* the parent is registered if nobody is doing so.
SendRegistration(t) ==
  LET r == frame[t].res
      a == frame[t].acct
      again  == Pick(Free)
      above  == Pick(Free \ {again})
      sent   == [frame EXCEPT ![t].linked = r # Root /\ ~Orphan(r)]
  IN
  /\ pc[t] = "send"
  /\ frame[t].kind = "register"
  /\ \/ /\ ~Orphan(r)
        /\ Goto(t, "sent")
        /\ frame' = sent
        /\ UNCHANGED inProgress
     \/ /\ Orphan(r)
        /\ Parent[r] \in inProgress
        /\ Free # {}
        /\ pc' = [pc EXCEPT ![t] = "sent", ![again] = "deferred"]
        /\ frame' = [sent EXCEPT ![again] = Registering(r, a, t)]
        /\ UNCHANGED inProgress
     \/ /\ Orphan(r)
        /\ Parent[r] \notin inProgress
        /\ Free # {} /\ Free \ {again} # {}
        /\ pc' = [pc EXCEPT ![t] = "sent", ![again] = "deferred",
                            ![above] = "config"]
        /\ frame' = [sent EXCEPT ![again] = Registering(r, a, t),
                                 ![above] = Registering(Parent[r], a, t)]
        /\ Claim(Parent[r])
  /\ UNCHANGED <<umaIdStore, patStorage, serverVars, asVars>>

\* The response.  Only an accepted request clears inProgress and emits.
RegistrationAnswered(t) ==
  LET r == frame[t].res IN
  /\ pc[t] = "answered"
  /\ frame[t].kind = "register"
  /\ IF Succeeded(t)
     THEN /\ umaIdStore' = StoredId(r)
          /\ inProgress' = inProgress \ {r}
          /\ pc' = [Emit(r) EXCEPT ![t] = "join"]
          /\ UNCHANGED frame
     ELSE /\ Leave(t, TRUE)
          /\ UNCHANGED <<umaIdStore, inProgress>>
  /\ UNCHANGED <<patStorage, serverVars, asVars>>

\* Promise.all of the request and the calls made for the parent.
Join(t) ==
  /\ pc[t] = "join"
  /\ \/ frame[t].bad /\ Leave(t, TRUE)
     \/ ~frame[t].bad /\ Awaited(t) = {} /\ Leave(t, FALSE)
  /\ UNCHANGED <<clientVars, serverVars, asVars>>

\* Promise.all rejects at once while the call's own request is still going on.
RejectEarly(t) ==
  /\ frame[t].kind = "register"
  /\ frame[t].bad
  /\ frame[t].for # NoCall
  /\ pc[t] \in {"sent", "answered"}
  /\ frame' = [frame EXCEPT ![t].for = NoCall, ![frame[t].for].bad = TRUE]
  /\ UNCHANGED <<pc, clientVars, serverVars, asVars>>

-----------------------------------------------------------------------------
(* fetchTicket.                                                             *)

Found(t, r) ==
  frame' = [frame EXCEPT ![t].todo = @ \ {r}, ![t].body = @ \cup {r},
                         ![t].res = r]

\* Top of the loop; an identifier that is missing while its resource is being
\* registered is waited for.
Lookup(t) ==
  /\ pc[t] = "lookup"
  /\ \/ /\ frame[t].todo = {}
        /\ Goto(t, "pat")
        /\ UNCHANGED frame
     \/ \E r \in frame[t].todo :
          IF r \in umaIdStore
          THEN Found(t, r) /\ UNCHANGED pc
          ELSE /\ frame' = [frame EXCEPT ![t].res = r]
               /\ Goto(t, IF r \in inProgress THEN "waitEvent" ELSE "probe")
  /\ UNCHANGED <<clientVars, serverVars, asVars>>

\* The 2 s timer wins the race.
Timeout(t) ==
  /\ pc[t] = "waitEvent"
  /\ Leave(t, TRUE)
  /\ UNCHANGED <<clientVars, serverVars, asVars>>

Woken(t) ==
  /\ pc[t] = "woken"
  /\ IF frame[t].res \in umaIdStore
     THEN Found(t, frame[t].res) /\ Goto(t, "lookup")
     ELSE Goto(t, "probe") /\ UNCHANGED frame
  /\ UNCHANGED <<clientVars, serverVars, asVars>>

\* hasResource: register what exists, refuse what does not.
Probe(t) ==
  LET r == frame[t].res
      u == Pick(Free) IN
  /\ pc[t] = "probe"
  /\ IF r \in exists
     THEN /\ Free # {}
          /\ pc' = [pc EXCEPT ![t] = "await", ![u] = Enter(r)]
          /\ frame' = [frame EXCEPT ![u] = Registering(r, frame[t].acct, t)]
          /\ Claim(r)
     ELSE Leave(t, TRUE) /\ UNCHANGED inProgress
  /\ UNCHANGED <<umaIdStore, patStorage, serverVars, asVars>>

\* The registration made by Probe is over.
Registered(t) ==
  /\ pc[t] = "await"
  /\ \/ frame[t].bad /\ Leave(t, TRUE)
     \/ /\ ~frame[t].bad
        /\ Awaited(t) = {}
        /\ IF frame[t].res \in umaIdStore
           THEN Found(t, frame[t].res) /\ Goto(t, "lookup")
           ELSE Leave(t, TRUE)
  /\ UNCHANGED <<clientVars, serverVars, asVars>>

-----------------------------------------------------------------------------
(* The main request of fetchTicket and deleteResource.                      *)

Send(t) ==
  /\ pc[t] = "send"
  /\ frame[t].kind \in {"ticket", "delete"}
  /\ Goto(t, "sent")
  /\ UNCHANGED <<frame, clientVars, serverVars, asVars>>

\* Any response ends the call; deleteResource does not look at the status.
Answered(t) ==
  /\ pc[t] = "answered"
  /\ frame[t].kind \in {"ticket", "delete"}
  /\ Leave(t, frame[t].kind = "ticket" /\ ~frame[t].ok)
  /\ UNCHANGED <<clientVars, serverVars, asVars>>

-----------------------------------------------------------------------------
(* The authorization server: each request is handled in one step.           *)

\* PatRequestValidator: the account's latest PAT, not expired.
PatValid(t) ==
  /\ frame[t].pat = issuedPat[frame[t].acct]
  /\ frame[t].acct \in livePat

\* ResourceRegistration.handlePost and handlePut: 403, 409, 404 or 400 unless
Acceptable(t) ==
  LET i == IssuerOf[frame[t].acct]
      r == frame[t].res IN
  /\ PatValid(t)
  /\ registrations[i][r] = IF frame[t].known THEN frame[t].acct ELSE Nobody
  /\ frame[t].linked # (r \in relations[i]) => Parent[r] \in collections[i]

HandleRegistration(t) ==
  LET i == IssuerOf[frame[t].acct]
      r == frame[t].res IN
  /\ pc[t] = "sent"
  /\ frame[t].kind = "register"
  /\ Goto(t, "answered")
  /\ frame' = [frame EXCEPT ![t].ok = Acceptable(t)]
  /\ IF Acceptable(t)
     THEN /\ registrations' = [registrations EXCEPT ![i][r] = frame[t].acct]
          /\ relations' = [relations EXCEPT
               ![i] = IF frame[t].linked THEN @ \cup {r} ELSE @ \ {r}]
          /\ collections' = [collections EXCEPT ![i] = @ \cup ({r} \cap Container)]
     ELSE UNCHANGED <<registrations, relations, collections>>
  /\ UNCHANGED <<clientVars, serverVars, issuedPat, livePat>>

\* TicketRequestHandler: 400 if a resource_id is unknown.
HandleTicket(t) ==
  /\ pc[t] = "sent"
  /\ frame[t].kind = "ticket"
  /\ Goto(t, "answered")
  /\ frame' = [frame EXCEPT ![t].ok =
       /\ PatValid(t)
       /\ \A r \in frame[t].body :
            registrations[IssuerOf[frame[t].acct]][r] # Nobody]
  /\ UNCHANGED <<clientVars, serverVars, asVars>>

\* Mutant: a deleted resource stays in the collections of its parents.
RelationsKept(i, r) == relations

RelationsWithout(i, r) == [relations EXCEPT ![i] = @ \ {r}]

\* ResourceRegistration.handleDelete: collections of the resource stay.
HandleDelete(t) ==
  LET i  == IssuerOf[frame[t].acct]
      r  == frame[t].res
      ok == PatValid(t) /\ registrations[i][r] = frame[t].acct IN
  /\ pc[t] = "sent"
  /\ frame[t].kind = "delete"
  /\ Goto(t, "answered")
  /\ frame' = [frame EXCEPT ![t].ok = ok]
  /\ registrations' = IF ok THEN [registrations EXCEPT ![i][r] = Nobody]
                            ELSE registrations
  /\ relations' = IF ok THEN RelationsWithout(i, r) ELSE relations
  /\ UNCHANGED <<clientVars, serverVars, collections, issuedPat, livePat>>

\* A PAT expires at the issuer, and later in the cache: the client starts
\* counting expires_in when the response arrives.
PatExpires(a) ==
  /\ a \in livePat
  /\ issuedPat[a] < MaxPat
  /\ livePat' = livePat \ {a}
  /\ UNCHANGED <<clientVars, callVars, serverVars,
                 registrations, relations, collections, issuedPat>>

CacheExpires(a) ==
  /\ patStorage[a] # 0
  /\ patStorage[a] = issuedPat[a]
  /\ a \notin livePat
  /\ patStorage' = [patStorage EXCEPT ![a] = 0]
  /\ UNCHANGED <<inProgress, umaIdStore, callVars, serverVars, asVars>>

-----------------------------------------------------------------------------
(* The rest of the resource server, which makes the calls.                  *)

NewCall(point, f) ==
  LET t == Pick(Free) IN
  /\ Free # {}
  /\ events < MaxEvents
  /\ events' = events + 1
  /\ pc' = [pc EXCEPT ![t] = point]
  /\ frame' = [frame EXCEPT ![t] = f]
  /\ UNCHANGED <<clientVars, lost, asVars>>

\* Mutant: the container that changed is unregistered.
DeletingParent(r, a) == [Idle EXCEPT !.kind = "delete", !.res = Parent[r], !.acct = a]

Deleting(r, a) == [Idle EXCEPT !.kind = "delete", !.res = r, !.acct = a]

\* ResourceRegistrar on AS.Create: the owner's settings are looked up first,
\* so that the call enters registerResource later.
Create(r, a) ==
  /\ "create" \in Events
  /\ r \notin exists
  /\ Parent[r] \in exists
  /\ exists' = exists \cup {r}
  /\ NewCall("start", Registering(r, a, NoCall))

\* ResourceRegistrar on AS.Delete; a container is deleted when it is empty.
Delete(r, a) ==
  /\ "delete" \in Events
  /\ r \in exists
  /\ \A c \in Resource \ {Root} : Parent[c] = r => c \notin exists
  /\ exists' = exists \ {r}
  /\ NewCall("config", Deleting(r, a))

\* A resource of an owner without settings comes or goes: ResourceRegistrar
\* throws, and logs that it did.
Unseen(r) ==
  /\ exists' = IF r \in exists THEN exists \ {r} ELSE exists \cup {r}
  /\ UNCHANGED <<clientVars, callVars, events, lost, asVars>>

\* PatUpdater registers the resources of an account that got new credentials,
\* and unregisters them with the previous ones; resources may be gone by then.
Reregister(r, a) ==
  /\ "update" \in Events
  /\ NewCall("start", Registering(r, a, NoCall))
  /\ UNCHANGED exists

Unregister(r, a) ==
  /\ "update" \in Events
  /\ NewCall("config", Deleting(r, a))
  /\ UNCHANGED exists

\* A set that has the parent of everything in it.
Upward(S) == \A x \in S \ {Root} : Parent[x] \in S

\* A resource and the containers it is in: what every such set with it has.
Lineage == [r \in Resource |->
  {x \in Resource : \A S \in SUBSET Resource : r \in S /\ Upward(S) => x \in S}]

\* ParentCreateExtractor.findFirstExistingParent; none if that is the root
\* container, which has no owner.
FirstExisting(r) ==
  {p \in (Lineage[r] \cap exists) \ {Root} : Lineage[r] \cap exists \subseteq Lineage[p]}

\* Requests ask for access to resources that exist, or to where they create one.
Targets == TicketTargets \cup {FirstExisting(r) : r \in Creations}

\* OwnerUtil.findCommonOwner: the one owner of all of them.
CommonOwner(T, a) == T # {} /\ \A r \in T : OwnerOf[r] = a

\* UmaAuthorizer: a request without a valid token, on resources of one owner.
Access(T, a) ==
  /\ "access" \in Events
  /\ CommonOwner(T, a)
  /\ NewCall("config", [Idle EXCEPT !.kind = "ticket", !.todo = T, !.acct = a])
  /\ UNCHANGED exists

-----------------------------------------------------------------------------
(* The specification.                                                       *)

Init ==
  /\ inProgress = {}
  /\ umaIdStore = {}
  /\ patStorage = [a \in Account |-> 0]
  /\ pc = [t \in Call |-> "free"]
  /\ frame = [t \in Call |-> Idle]
  /\ exists = InitExists
  /\ events = 0
  /\ lost = 0
  /\ registrations = [i \in Issuer |-> [r \in Resource |-> Nobody]]
  /\ relations = [i \in Issuer |-> {}]
  /\ collections = [i \in Issuer |-> {}]
  /\ issuedPat = [a \in Account |-> 0]
  /\ livePat = {}

PatStep(t) ==
  \/ GetPat(t) \/ PatConfigRead(t) \/ PatConfigFails(t)
  \/ PatRefused(t) \/ PatIssued(t) \/ PatReceived(t)

RegisterStep(t) ==
  \/ Begin(t) \/ SendRegistration(t) \/ HandleRegistration(t)
  \/ RegistrationAnswered(t) \/ Join(t) \/ RejectEarly(t)

TicketStep(t) ==
  Lookup(t) \/ Timeout(t) \/ Woken(t) \/ Probe(t) \/ Registered(t)

RequestStep(t) == Send(t) \/ HandleTicket(t) \/ HandleDelete(t) \/ Answered(t)

Step(t) ==
  \/ ConfigFails(t) \/ ConfigRead(t)
  \/ PatStep(t) \/ RegisterStep(t) \/ TicketStep(t) \/ RequestStep(t)

\* owners has the accounts calls may be made for, per resource.
Environment(owners) ==
  \/ \E t \in Call : Retry(t)
  \/ \E a \in Account : PatExpires(a) \/ CacheExpires(a)
  \/ \E r \in Resource \ {Root} : \E a \in owners[r] :
       Create(r, a) \/ Delete(r, a) \/ Reregister(r, a) \/ Unregister(r, a)
  \/ \E T \in Targets, a \in Account : Access(T, a)

Next ==
  \/ \E t \in Call : Step(t)
  \/ Environment([r \in Resource \ {Root} |-> {OwnerOf[r]}])

Spec == Init /\ [][Next]_vars

\* The client has no say in whose credentials it is called with, nor in
\* whether it is called at all.
OpenNext ==
  \/ \E t \in Call : Step(t)
  \/ Environment([r \in Resource \ {Root} |-> Account])
  \/ \E r \in Resource \ {Root} : Unseen(r)

OpenSpec == Init /\ [][OpenNext]_vars

\* A request that is with an issuer that may not answer.  RetryingFetcher repeats
\* it, and PausableFetcher hands on answers only: in the end nothing is left that
\* could settle the promise.
Unanswered(t) ==
  /\ pc[t] \in {"config", "patConfig", "patSent", "patAnswered", "sent", "answered"}
  /\ IssuerOf[frame[t].acct] \in SilentIssuer

\* What does not depend on such an issuer.
Progress(t) == RejectEarly(t) \/ (~Unanswered(t) /\ Step(t))

\* The event loop does not rest while a continuation is ready, and a request
\* that was sent is answered, unless its issuer may be silent.  Nothing obliges
\* the environment.
FairSpec == Spec /\ WF_vars(\E t \in Call : Progress(t))

-----------------------------------------------------------------------------
(* Properties.                                                              *)

\* A call that runs works for an account.
CallsTyped ==
  /\ pc \in [Call -> Point]
  /\ frame \in [Call -> Frame]
  /\ \A t \in Call : pc[t] # "free" => frame[t].acct \in Account

\* The type invariant of the client, its calls and the registries they use.
TypeOK ==
  /\ inProgress \subseteq Resource \cup {PatEvent}
  /\ umaIdStore \subseteq Resource
  /\ patStorage \in [Account -> Nat]
  /\ CallsTyped
  /\ exists \subseteq Resource
  /\ events \in Nat /\ lost \in Nat
  /\ registrations \in [Issuer -> [Resource -> Account \cup {Nobody}]]
  /\ relations \in [Issuer -> SUBSET Resource]
  /\ collections \in [Issuer -> SUBSET Resource]
  /\ issuedPat \in [Account -> Nat]
  /\ livePat \subseteq Account

\* UmaClient.inProgress prevents duplicate registration calls: one resource is
\* never registered by two calls at a time, and its path is marked meanwhile.
ExclusiveRegistration ==
  \A t \in Call, r \in Resource : Holds(t, r) =>
    /\ r \in inProgress
    /\ \A u \in Call : Holds(u, r) => u = t

\* At most one token request is under way, over all accounts (getPat).
ExclusivePat ==
  \A t \in Call : pc[t] \in AskingPat =>
    /\ PatEvent \in inProgress
    /\ \A u \in Call : pc[u] \in AskingPat => u = t

\* Nobody listens for an event that has already been emitted: what a call
\* waits for is still marked as in progress (the four uses of once()).
NoLostWakeup ==
  \A t \in Call :
    /\ pc[t] \in {"waitRes", "waitEvent"} => frame[t].res \in inProgress
    /\ pc[t] = "deferred" => /\ frame[t].res # Root
                             /\ Parent[frame[t].res] \in inProgress
    /\ pc[t] = "waitPat" => PatEvent \in inProgress

\* A PAT a request carries, or is about to carry, is not made void by a newer
\* one while it is still valid: the issuer keeps one PAT per account only.
PatNotOverwritten ==
  [][\A t \in Call :
       /\ pc[t] \in {"send", "sent"}
       /\ PatValid(t)
       /\ frame[t].acct \in livePat'
       => issuedPat'[frame[t].acct] = issuedPat[frame[t].acct]]_vars

\* fetchTicket never reports 'no UMA ID found' (UmaClient.ts 204-207): once
\* the registration it awaited resolves, the identifier is there.
AwaitedIdKnown ==
  \A t \in Call : pc[t] = "await" /\ ~frame[t].bad /\ Awaited(t) = {}
    => frame[t].res \in umaIdStore

\* A resource is only created at an issuer that does not know it: inProgress
\* prevents the duplicate registrations handlePost answers with 409.
NoDuplicateRegistration ==
  \A t \in Call :
    pc[t] = "sent" /\ frame[t].kind = "register" /\ ~frame[t].known
      => registrations[IssuerOf[frame[t].acct]][frame[t].res] = Nobody

\* The client takes note of an identifier only if the issuer has registered the
\* resource, with the collection its children refer to if it is a container,
\* whatever answers were lost and whatever else was asked for since.
IdsHonoured ==
  [][\A r \in umaIdStore' \ umaIdStore : \E i \in Issuer :
       /\ registrations[i][r] # Nobody
       /\ r \in Container => r \in collections[i]]_vars

\* The issuer accepts every request of the client.
RequestsAccepted == \A t \in Call : pc[t] = "answered" => frame[t].ok

\* 'For all resources, the resource_relations with the parent container will
\* be registered' (registerResource): when no call is left, each resource the
\* server created is linked to its parent at its owner's issuer.
AllLinked ==
  (\A t \in Call : pc[t] = "free") =>
    \A r \in exists \ InitExists :
      IssuerOf[OwnerOf[r]] \in BrokenIssuer \/ r \in relations[IssuerOf[OwnerOf[r]]]

\* The calls t waits for: those that own the mark it listens for, or whose results
\* it awaits.
Blockers(t) ==
  IF pc[t] = "waitRes" THEN {u \in Call : Holds(u, frame[t].res)}
  ELSE IF pc[t] = "deferred" THEN {u \in Call : Holds(u, Parent[frame[t].res])}
  ELSE IF pc[t] = "waitPat" THEN {u \in Call : pc[u] \in AskingPat}
  ELSE Awaited(t)

\* The mark t listens for is there, or t awaits results none of which is an error.
Listens(t) ==
  \/ pc[t] = "waitRes" /\ frame[t].res \in inProgress
  \/ pc[t] = "deferred" /\ Parent[frame[t].res] \in inProgress
  \/ pc[t] = "waitPat" /\ PatUnderway
  \/ pc[t] \in {"join", "await"} /\ ~frame[t].bad /\ Awaited(t) # {}

\* What errors and silent issuers keep from ending: requests without an answer,
\* calls that listen for a mark a failed call left behind, and calls that wait for
\* nothing but such calls.
Stuck ==
  LET after[n \in 0 .. Cardinality(Call)] ==
        IF n = 0 THEN {t \in Call : Unanswered(t)}
        ELSE LET before == after[n - 1] IN
             before \cup {t \in Call : Listens(t) /\ Blockers(t) \subseteq before}
  IN after[Cardinality(Call)]

\* Every call ends, whatever it has to wait for, unless what it waits for in the
\* end is an issuer that is silent or a mark that a failed call left behind: no
\* two calls wait for each other, and no event is missed.
CallsSettle ==
  (Free # Call) ~> (Call \ Free \subseteq Stuck)

\* Every request for access is answered, if only by an error.
TicketsSettle ==
  \A t \in Call : frame[t].kind = "ticket" ~> frame[t].kind # "ticket"

=============================================================================
