---------------------------- MODULE AccountSeeding ----------------------------
(****************************************************************************)
(* How the accounts of the resource server get their settings, the token    *)
(* (credentials of a client) and the authorization server to use it at:     *)
(*   - UmaSeededAccountInitializer creates accounts before the server       *)
(*     listens;                                                             *)
(*   - StatusDependantServerConfigurator then activates PausableFetcher and *)
(*     PatSeedRegistrar, which registers a client for every account;        *)
(*   - PatUpdateHandler takes the settings a user enters.                   *)
(* All are under packages/css/src.  One authorization server, Home, is the  *)
(* one of PatIssuing; the client_uri of the resource server is Here.        *)
(*                                                                          *)
(* Accounts are resources of the server: every read and write is awaited,   *)
(* and one update makes two.  What PatUpdater does to the registrations of  *)
(* resources after that is in PodRegistration.                              *)
(****************************************************************************)
EXTENDS PatIssuing

CONSTANTS
  Account,     \* the accounts of the seed file
  AccountOf,   \* [User -> Account], the account a WebID belongs to
  Here,        \* the client_uri of this resource server
  Home,        \* the authorization server of PatIssuing
  Elsewhere,   \* another one
  Foreign,     \* credentials of a client that is registered elsewhere
  Seed,        \* [Account -> Settings], the 'authz' of the seed file
  Updater,     \* identities for updates of settings at the same time
  Registrar,   \* the one of PatSeedRegistrar
  UserClient,  \* bound: identifiers for clients users register themselves
  MaxForms,    \* bound: updates made by users
  MaxLost,     \* bound: answers the network loses
  MaxRestarts  \* bound: stops of the resource server

Settings == [token : Client \cup {Foreign, None}, server : {Home, Elsewhere, None}]

ASSUME SeedingAssumption ==
  /\ AccountOf \in [User -> Account]
  /\ Here \in Server
  /\ Registrar \in Updater
  /\ UserClient \subseteq Client
  /\ Foreign \notin Client \cup {None}
  /\ None \notin Account \cup User
  /\ Cardinality({Home, Elsewhere, None}) = 3
  /\ Seed \in [Account -> Settings]
  /\ \A a \in Account : Seed[a].token \in {Foreign, None}
  /\ \A a \in Account : Seed[a].token = Foreign => Seed[a].server = Elsewhere
  /\ {MaxForms, MaxLost, MaxRestarts} \subseteq Nat

VARIABLES
  settings,   \* the settings of each account
  created,    \* accounts the initializer is done with
  linked,     \* the WebIDs that are linked to an account
  active,     \* PausableFetcher.active: the server listens
  loop,       \* PatSeedRegistrar.initialize
  update,     \* PatUpdater.updateSettings: the job of each updater
  forms, lost, restarts,  \* how many there were (bounds the model)
  mixed,      \* history: accounts with two updates at the same time
  disturbed   \* history: something came in between the seeding

accounts == <<settings, created, linked, active>>
counters == <<forms, lost, restarts>>
seeding  == <<accounts, loop, update, counters, mixed, disturbed>>

NoSettings == [token |-> None, server |-> None]

\* at: off, next (WebID), server (reads the setting), asked (for a client),
\* updating, done, failed.  named is accountMap.
Off == [at |-> "off", visited |-> {}, named |-> {}, user |-> None,
        server |-> None]

NoJob == [account |-> None, token |-> None, server |-> None, half |-> FALSE]

WebIdsOf(a) == {u \in User : AccountOf[u] = a}

Owner == AccountOf[loop.user]

UpdatersOf(a) == {k \in Updater : update[k].account = a}

-----------------------------------------------------------------------------
(* PatUpdater.updateSettings: the token is written first, then the server.  *)

\* Mutant: issuer and credentials are swapped.
JobSwapped(a, tok, srv) == [account |-> a, token |-> srv, server |-> tok, half |-> FALSE]

JobOf(a, tok, srv) == [account |-> a, token |-> tok, server |-> srv, half |-> FALSE]

StartUpdate(k, a, tok, srv) ==
  /\ update[k] = NoJob
  /\ update' = [update EXCEPT ![k] = JobOf(a, tok, srv)]
  /\ mixed' = IF UpdatersOf(a) = {} THEN mixed ELSE mixed \cup {a}

WriteToken(k) ==
  /\ update[k] # NoJob /\ ~update[k].half
  /\ settings' = [settings EXCEPT ![update[k].account].token = update[k].token]
  /\ update' = [update EXCEPT ![k].half = TRUE]
  /\ UNCHANGED <<created, linked, active, loop, counters, mixed, disturbed, vars>>

\* Mutant: an authorization server that is set already is kept.
ServerKept(k) ==
  LET old == settings[update[k].account].server IN
  IF old = None THEN update[k].server ELSE old

\* The argument of the update, whatever was set before.
ServerWritten(k) == update[k].server

\* The loop of PatSeedRegistrar goes on when its update ends.
WriteServer(k) ==
  /\ update[k].half
  /\ settings' = [settings EXCEPT ![update[k].account].server = ServerWritten(k)]
  /\ update' = [update EXCEPT ![k] = NoJob]
  /\ loop' = IF k = Registrar THEN [loop EXCEPT !.at = "next"] ELSE loop
  /\ UNCHANGED <<created, linked, active, counters, mixed, disturbed, vars>>

-----------------------------------------------------------------------------
(* UmaSeededAccountInitializer and StatusDependantServerConfigurator.       *)

\* The settings of the account, then its pods, each of which links a WebID; an
\* error ends the account, not the loop over them.
SeedAccount(a, U) ==
  /\ ~active
  /\ a \notin created
  /\ U \subseteq WebIdsOf(a)
  /\ created' = created \cup {a}
  /\ settings' = [settings EXCEPT ![a] = Seed[a]]
  /\ linked' = linked \cup U
  /\ UNCHANGED <<active, loop, update, counters, mixed, disturbed, vars>>

\* The event 'listening': requests are let through, and the loop starts.
Listen ==
  /\ ~active
  /\ created = Account
  /\ active' = TRUE
  /\ loop' = [Off EXCEPT !.at = "next"]
  /\ UNCHANGED <<settings, created, linked, update, counters, mixed, disturbed,
                 vars>>

\* The process ends: accounts are kept in memory.
Stop ==
  /\ active
  /\ restarts < MaxRestarts
  /\ restarts' = restarts + 1
  /\ active' = FALSE
  /\ settings' = [a \in Account |-> NoSettings]
  /\ created' = {} /\ linked' = {}
  /\ loop' = Off
  /\ update' = [k \in Updater |-> NoJob]
  /\ disturbed' = TRUE
  /\ UNCHANGED <<forms, lost, mixed, vars>>

-----------------------------------------------------------------------------
(* PatSeedRegistrar.initialize.                                             *)

\* Mutant: 'return' instead of 'continue' at an account that is skipped.
ReturnPast(u) == [loop EXCEPT !.at = "done"]

\* Two of the conditions under which the loop continues with the next WebID.
Skipped(a) == a \in loop.named \/ settings[a].token # None

GoPast(u) == [loop EXCEPT !.visited = @ \cup {u}]

Visit(u) ==
  /\ loop.at = "next"
  /\ u \in linked \ loop.visited
  /\ loop' = IF Skipped(AccountOf[u]) THEN GoPast(u)
             ELSE [GoPast(u) EXCEPT !.at = "server", !.user = u]
  /\ UNCHANGED <<accounts, update, counters, mixed, disturbed, vars>>

ReadServer ==
  LET srv == settings[Owner].server IN
  /\ loop.at = "server"
  /\ loop' = IF srv = None THEN [loop EXCEPT !.at = "next"]
             ELSE [loop EXCEPT !.at = "asked", !.server = srv,
                               !.named = @ \cup {Owner}]
  /\ UNCHANGED <<accounts, update, counters, mixed, disturbed, vars>>

\* generateClientCredentials got its answer.
Continue(tok) ==
  /\ StartUpdate(Registrar, Owner, tok, loop.server)
  /\ loop' = [loop EXCEPT !.at = "updating"]

\* ClientRegistration handles the request.  If the answer is lost, the request
\* is repeated (RetryingFetcher).
Registered(c) ==
  /\ loop.at = "asked"
  /\ loop.server = Home
  /\ RegisterClient(c, loop.user, Here)
  /\ \/ /\ Continue(c)
        /\ UNCHANGED <<lost, disturbed>>
     \/ /\ lost < MaxLost
        /\ lost' = lost + 1
        /\ disturbed' = TRUE
        /\ UNCHANGED <<loop, update, mixed>>
  /\ UNCHANGED <<accounts, forms, restarts>>

\* Any other answer is an error, which nobody handles: the loop is over.
Aborted ==
  loop' = [loop EXCEPT !.at = "failed"] /\ UNCHANGED <<update, mixed>>

\* 409: the WebID has a client for this resource server already.
Conflict ==
  /\ loop.at = "asked"
  /\ loop.server = Home
  /\ [user |-> loop.user, server |-> Here] \in {client[d] : d \in registered}
  /\ Aborted
  /\ UNCHANGED <<accounts, counters, disturbed, vars>>

AskedElsewhere ==
  /\ loop.at = "asked"
  /\ loop.server = Elsewhere
  /\ \/ Continue(Foreign) /\ UNCHANGED disturbed
     \/ Aborted /\ disturbed' = TRUE
  /\ UNCHANGED <<accounts, counters, vars>>

Finished ==
  /\ loop.at = "next"
  /\ linked \subseteq loop.visited
  /\ loop' = [loop EXCEPT !.at = "done"]
  /\ UNCHANGED <<accounts, update, counters, mixed, disturbed, vars>>

-----------------------------------------------------------------------------
(* Users.                                                                   *)

\* PatUpdateHandler: credentials the user has, with their issuer.
Form(k, u, tok, srv) ==
  /\ active /\ AccountOf[u] \in created
  /\ k # Registrar
  /\ forms < MaxForms
  /\ forms' = forms + 1
  /\ \/ tok \in registered /\ client[tok] = [user |-> u, server |-> Here] /\ srv = Home
     \/ tok = Foreign /\ srv = Elsewhere
  /\ StartUpdate(k, AccountOf[u], tok, srv)
  /\ UNCHANGED <<accounts, loop, lost, restarts, disturbed, vars>>

\* Requests users send to the authorization server themselves.
UserRegisters(c, u, s) ==
  /\ RegisterClient(c, u, s)
  /\ disturbed' = (disturbed \/ s = Here)
  /\ UNCHANGED <<accounts, loop, update, counters, mixed>>

UserRemoves(c, u) == RemoveClient(c, u) /\ UNCHANGED seeding

-----------------------------------------------------------------------------
SeedingInit ==
  /\ Init
  /\ settings = [a \in Account |-> NoSettings]
  /\ created = {} /\ linked = {}
  /\ active = FALSE
  /\ loop = Off
  /\ update = [k \in Updater |-> NoJob]
  /\ forms = 0 /\ lost = 0 /\ restarts = 0
  /\ mixed = {}
  /\ disturbed = FALSE

LoopStep ==
  \/ \E u \in User : Visit(u)
  \/ ReadServer
  \/ \E c \in Client \ UserClient : Registered(c)
  \/ Conflict \/ AskedElsewhere \/ Finished

UpdateStep == \E k \in Updater : WriteToken(k) \/ WriteServer(k)

UserStep ==
  \/ \E k \in Updater, u \in User, srv \in {Home, Elsewhere} :
       \E tok \in Client \cup {Foreign} : Form(k, u, tok, srv)
  \/ \E c \in UserClient, u \in User, s \in Server : UserRegisters(c, u, s)
  \/ \E c \in Client, u \in User : UserRemoves(c, u)

\* Token requests are left out: they change nothing that is read here.
SeedingNext ==
  \/ \E a \in Account, U \in SUBSET User : SeedAccount(a, U)
  \/ Listen \/ Stop
  \/ LoopStep \/ UpdateStep \/ UserStep

SeedingSpec == SeedingInit /\ [][SeedingNext]_<<vars, seeding>>

\* The event loop continues what was awaited, and requests are answered;
\* nothing obliges users, or the server to start.
FairSeeding ==
  SeedingSpec /\ WF_<<vars, seeding>>(LoopStep) /\ WF_<<vars, seeding>>(UpdateStep)

-----------------------------------------------------------------------------
(* Properties.                                                              *)

\* The type invariant of the accounts and what works on them.
SeedingTypeOK ==
  /\ TypeOK
  /\ settings \in [Account -> Settings]
  /\ created \subseteq Account /\ linked \subseteq User
  /\ active \in BOOLEAN
  /\ loop \in [at : {"off", "next", "server", "asked", "updating", "done", "failed"},
               visited : SUBSET User, named : SUBSET Account,
               user : User \cup {None}, server : {Home, Elsewhere, None}]
  /\ update \in [Updater ->
       [account : Account \cup {None}, token : Client \cup {Foreign, None},
        server : {Home, Elsewhere, None}, half : BOOLEAN]]
  /\ mixed \subseteq Account
  /\ disturbed \in BOOLEAN

\* 'Updates the user's PAT credentials and corresponding issuer settings'
\* (PatUpdateHandler): as long as no two updates of an account overlap, its
\* credentials are ones its server gave, for a WebID of the account.
SettingsMatch ==
  \A a \in Account \ mixed :
    (\A k \in UpdatersOf(a) : ~update[k].half) =>
      CASE settings[a].token \in Client ->
             /\ settings[a].server = Home
             /\ AccountOf[client[settings[a].token].user] = a
             /\ client[settings[a].token].server = Here
        [] settings[a].token = Foreign -> settings[a].server = Elsewhere
        [] OTHER -> TRUE

\* PatSeedRegistrar 'registers a PAT client credentials for every account that
\* has a WebID': unless something comes in between, every account that has an
\* authorization server gets them.
SeedingCompletes ==
  \A a \in Account :
    active /\ WebIdsOf(a) \cap linked # {} /\ settings[a].server # None
      ~> settings[a].token # None \/ disturbed

=============================================================================
