------------------------- MODULE AccountSeedingProofs -------------------------
(****************************************************************************)
(* Theorems about AccountSeeding: the two halves of the settings of an      *)
(* account belong together, for any accounts, WebIDs, clients and number of *)
(* updates at the same time.  What is said of the clients themselves comes  *)
(* from PatIssuingProofs.                                                   *)
(****************************************************************************)
EXTENDS AccountSeeding, PatIssuingProofs

-----------------------------------------------------------------------------
(* The inductive invariant.                                                 *)

\* Credentials of a client there is or was, of a WebID of the account, with the
\* server that gave them.
Given(a, tok, srv) ==
  /\ tok \in Client =>
       /\ tok \in registered \cup removed
       /\ srv = Home
       /\ AccountOf[client[tok].user] = a
       /\ client[tok].server = Here
  /\ tok = Foreign => srv = Elsewhere

JobGiven(k) ==
  /\ update[k].account = None => update[k] = NoJob
  /\ update[k].account # None =>
       Given(update[k].account, update[k].token, update[k].server)

JobsGiven == \A k \in Updater : JobGiven(k)

\* Updates of an account in which none have overlapped come one by one.
Alone == \A a \in Account \ mixed : \A j, k \in UpdatersOf(a) : j = k

\* Between its two halves an update has written the first.
Settled(a) ==
  /\ (\A k \in UpdatersOf(a) : ~update[k].half) =>
       Given(a, settings[a].token, settings[a].server)
  /\ \A k \in UpdatersOf(a) :
       update[k].half => settings[a].token = update[k].token

SettingsGiven == \A a \in Account \ mixed : Settled(a)

Typed ==
  /\ settings \in [Account -> Settings]
  /\ update \in [Updater ->
       [account : Account \cup {None}, token : Client \cup {Foreign, None},
        server : {Home, Elsewhere, None}, half : BOOLEAN]]
  /\ mixed \subseteq Account

Matching == Typed /\ JobsGiven /\ Alone /\ SettingsGiven

\* Nothing is going on before the server listens.
Quiet == ~active => loop = Off /\ update = [k \in Updater |-> NoJob]

LoopTyped ==
  /\ created \subseteq Account /\ linked \subseteq User
  /\ active \in BOOLEAN /\ disturbed \in BOOLEAN
  /\ loop \in [at : {"off", "next", "server", "asked", "updating", "done", "failed"},
               visited : SUBSET User, named : SUBSET Account,
               user : User \cup {None}, server : {Home, Elsewhere, None}]
  /\ loop.at \in {"server", "asked"} => loop.user \in User

Looping == LoopTyped /\ Quiet

SeedInv == PatInv /\ Matching /\ Looping

-----------------------------------------------------------------------------
(* Steps of the clients.                                                    *)

\* Who registered a client is never changed.
Steady ==
  /\ registered \cup removed \subseteq registered' \cup removed'
  /\ \A c \in registered \cup removed : client'[c] = client[c]

LEMMA RegisterSteady ==
  ASSUME PatInv, NEW c \in Client, NEW u \in User, NEW s \in Server,
         RegisterClient(c, u, s)
  PROVE  /\ PatInv' /\ Steady
         /\ c \in registered' /\ client'[c] = [user |-> u, server |-> s]
<1>1. PatInv'
  BY RegisterClientStep
<1>2. QED
  BY <1>1 DEF RegisterClient, PatInv, TypeOK, Steady

LEMMA RemoveSteady ==
  ASSUME PatInv, NEW c \in Client, NEW u \in User, RemoveClient(c, u)
  PROVE  PatInv' /\ Steady
<1>1. PatInv'
  BY RemoveClientStep
<1>2. QED
  BY <1>1 DEF RemoveClient, Steady

LEMMA SameSteady ==
  ASSUME PatInv, UNCHANGED vars
  PROVE  PatInv' /\ Steady
<1>1. PatInv'
  BY StutterStep
<1>2. QED
  BY <1>1 DEF vars, storage, Steady

-----------------------------------------------------------------------------
(* Steps of updates.                                                        *)

LEMMA NothingWritten ==
  ASSUME Matching, Steady, UNCHANGED <<settings, update, mixed>>
  PROVE  Matching'
<1> USE DEF Matching
<1>1. Typed'
  BY DEF Typed
<1>2. \A a \in Account : UpdatersOf(a)' = UpdatersOf(a)
  BY DEF UpdatersOf
<1>3. JobsGiven'
  BY DEF JobsGiven, JobGiven, Given, Steady
<1>4. Alone'
  BY <1>2 DEF Alone
<1>5. SettingsGiven'
  BY <1>2 DEF SettingsGiven, Settled, Given, Steady
<1> QED
  BY <1>1, <1>3, <1>4, <1>5

\* An update that starts while another one of the account is under way makes the
\* account one of which nothing more is said.
LEMMA UpdateStarts ==
  ASSUME Matching, Steady, NEW k \in Updater, NEW a \in Account,
         NEW tok \in Client \cup {Foreign}, NEW srv \in {Home, Elsewhere},
         StartUpdate(k, a, tok, srv), Given(a, tok, srv)', UNCHANGED settings
  PROVE  Matching'
<1> USE DEF Matching
<1> DEFINE job == [account |-> a, token |-> tok, server |-> srv, half |-> FALSE]
<1>1. /\ update[k] = NoJob
      /\ update' = [update EXCEPT ![k] = job]
      /\ mixed' = IF UpdatersOf(a) = {} THEN mixed ELSE mixed \cup {a}
  BY DEF StartUpdate, JobOf
<1>2. Typed'
  BY <1>1 DEF Typed
<1>a. a # None
  BY SeedingAssumption
<1>3. /\ update'[k] = job
      /\ \A j \in Updater \ {k} : update'[j] = update[j]
  BY <1>1 DEF Typed
<1>4. JobsGiven'
  <2>1. ASSUME NEW j \in Updater
        PROVE  JobGiven(j)'
    <3>1. CASE j = k
      BY <3>1, <1>3, <1>a DEF JobGiven, Given
    <3>2. CASE j # k
      BY <3>2, <1>3 DEF JobsGiven, JobGiven, Given, Steady
    <3> QED BY <3>1, <3>2
  <2> QED BY <2>1 DEF JobsGiven
<1>5. \A b \in Account : b # a => UpdatersOf(b)' = UpdatersOf(b)
  BY <1>1, <1>3, SeedingAssumption DEF UpdatersOf, NoJob
<1>6. a \notin mixed' => UpdatersOf(a) = {} /\ a \notin mixed /\ UpdatersOf(a)' = {k}
  BY <1>1, <1>3 DEF UpdatersOf
<1>7. \A b \in Account \ mixed' : b \notin mixed
  BY <1>1
<1>8. Alone'
  BY <1>5, <1>6, <1>7 DEF Alone
<1>9. ASSUME NEW b \in Account \ mixed'
      PROVE  Settled(b)'
  <2>1. CASE b = a
    BY <2>1, <1>3, <1>6, <1>7 DEF SettingsGiven, Settled, Given, Steady
  <2>2. CASE b # a
    <3>1. \A j \in UpdatersOf(b) : update'[j] = update[j]
      BY <2>2, <1>1, <1>3, SeedingAssumption DEF UpdatersOf, NoJob
    <3> QED BY <2>2, <3>1, <1>5, <1>7 DEF SettingsGiven, Settled, Given, Steady
  <2> QED BY <2>1, <2>2
<1>10. SettingsGiven'
  BY <1>9 DEF SettingsGiven
<1> QED
  BY <1>2, <1>4, <1>8, <1>10

LEMMA TokenWritten ==
  ASSUME Matching, Steady, NEW k \in Updater, WriteToken(k)
  PROVE  Matching'
<1> USE DEF Matching
<1> DEFINE a == update[k].account
<1>1. /\ update[k] # NoJob /\ ~update[k].half
      /\ settings' = [settings EXCEPT ![a].token = update[k].token]
      /\ update' = [update EXCEPT ![k].half = TRUE]
      /\ UNCHANGED mixed
  BY DEF WriteToken
<1>2. a \in Account
  BY <1>1 DEF Typed, JobsGiven, JobGiven
<1>3. Typed'
  BY <1>1, <1>2 DEF Typed, Settings
<1>4. /\ \A j \in Updater : /\ update'[j].account = update[j].account
                            /\ update'[j].token = update[j].token
                            /\ update'[j].server = update[j].server
      /\ \A j \in Updater \ {k} : update'[j] = update[j]
      /\ settings'[a].token = update[k].token
      /\ \A b \in Account \ {a} : settings'[b] = settings[b]
  BY <1>1, <1>2 DEF Typed, Settings
<1>h. update'[k].half
  BY <1>1 DEF Typed
<1>5. JobsGiven'
  <2>1. ASSUME NEW j \in Updater PROVE JobGiven(j)'
    <3>1. update[j].account # None => Given(update[j].account, update[j].token, update[j].server)
      BY DEF JobsGiven, JobGiven
    <3>2. update'[j].account = None => j # k
      BY <1>2, <1>4, SeedingAssumption
    <3>3. update'[j].account = None => update'[j] = NoJob
      BY <3>2, <1>4 DEF JobsGiven, JobGiven
    <3> QED BY <3>1, <3>3, <1>4 DEF JobGiven, Given, Steady
  <2> QED BY <2>1 DEF JobsGiven
<1>6. \A b \in Account : UpdatersOf(b)' = UpdatersOf(b)
  BY <1>4 DEF UpdatersOf
<1>7. Alone'
  BY <1>1, <1>6 DEF Alone
<1>8. ASSUME NEW b \in Account \ mixed' PROVE Settled(b)'
  <2>1. CASE b = a
    <3>1. UpdatersOf(b) = {k}
      BY <2>1, <1>1 DEF Alone, UpdatersOf
    <3>2. UpdatersOf(b)' = {k}
      BY <2>1, <3>1, <1>2, <1>6
    <3>3. \A j \in UpdatersOf(b)' : settings'[b].token = update'[j].token
      BY <2>1, <3>2, <1>4
    <3>4. \E j \in UpdatersOf(b)' : update'[j].half
      BY <3>2, <1>h
    <3> HIDE DEF a
    <3> QED BY <3>3, <3>4 DEF Settled
  <2>2. CASE b # a
    <3>1. \A j \in UpdatersOf(b) : update'[j] = update[j]
      BY <2>2, <1>4 DEF UpdatersOf
    <3>2. Settled(b) /\ settings'[b] = settings[b] /\ UpdatersOf(b)' = UpdatersOf(b)
      BY <2>2, <1>1, <1>4, <1>6 DEF SettingsGiven
    <3> QED BY <3>1, <3>2 DEF Settled, Given, Steady
  <2> QED BY <2>1, <2>2
<1>9. SettingsGiven'
  BY <1>8 DEF SettingsGiven
<1> QED
  BY <1>3, <1>5, <1>7, <1>9

LEMMA ServerIsWritten ==
  ASSUME Matching, Steady, NEW k \in Updater, WriteServer(k)
  PROVE  Matching'
<1> USE DEF Matching
<1> DEFINE a == update[k].account
<1>1. /\ update[k].half
      /\ settings' = [settings EXCEPT ![a].server = update[k].server]
      /\ update' = [update EXCEPT ![k] = NoJob]
      /\ UNCHANGED mixed
  BY DEF WriteServer, ServerWritten
<1>n. NoJob.account = None /\ ~NoJob.half
  BY DEF NoJob
<1>2. a \in Account
  BY <1>1, <1>n DEF Typed, JobsGiven, JobGiven
<1>3. Typed'
  BY <1>1, <1>2 DEF Typed, Settings, NoJob
<1>4. /\ update'[k] = NoJob
      /\ \A j \in Updater \ {k} : update'[j] = update[j]
      /\ settings'[a].server = update[k].server
      /\ settings'[a].token = settings[a].token
      /\ \A b \in Account \ {a} : settings'[b] = settings[b]
  BY <1>1, <1>2 DEF Typed, Settings
<1>5. JobsGiven'
  <2>1. ASSUME NEW j \in Updater PROVE JobGiven(j)'
    <3>1. CASE j = k
      BY <3>1, <1>4, <1>n DEF JobGiven
    <3>2. CASE j # k
      BY <3>2, <1>4 DEF JobsGiven, JobGiven, Given, Steady
    <3> QED BY <3>1, <3>2
  <2> QED BY <2>1 DEF JobsGiven
<1>6. \A b \in Account : UpdatersOf(b)' = UpdatersOf(b) \ {k}
  BY <1>4, <1>n, SeedingAssumption DEF UpdatersOf
<1>7. Alone'
  BY <1>1, <1>6 DEF Alone
<1>8. ASSUME NEW b \in Account \ mixed' PROVE Settled(b)'
  <2>1. CASE b = a
    <3>1. UpdatersOf(b) = {k}
      BY <2>1, <1>1 DEF Alone, UpdatersOf
    <3>2. settings[b].token = update[k].token
      BY <3>1, <1>1 DEF SettingsGiven, Settled
    <3>3. Given(b, update[k].token, update[k].server)
      BY <2>1, <1>2, SeedingAssumption DEF JobsGiven, JobGiven
    <3> QED BY <2>1, <3>1, <3>2, <3>3, <1>4, <1>6 DEF Settled, Given, Steady
  <2>2. CASE b # a
    <3>1. k \notin UpdatersOf(b) /\ \A j \in UpdatersOf(b) : update'[j] = update[j]
      BY <2>2, <1>4 DEF UpdatersOf
    <3> QED BY <2>2, <3>1, <1>1, <1>4, <1>6 DEF SettingsGiven, Settled, Given, Steady
  <2> QED BY <2>1, <2>2
<1>9. SettingsGiven'
  BY <1>8 DEF SettingsGiven
<1> QED
  BY <1>3, <1>5, <1>7, <1>9

\* Settings from the seed file, while there are no updates.
LEMMA SettingsSeeded ==
  ASSUME Matching, Steady, NEW a \in Account,
         \A j \in Updater : update[j] = NoJob,
         settings' = [settings EXCEPT ![a] = Seed[a]], UNCHANGED <<update, mixed>>
  PROVE  Matching'
<1> USE DEF Matching
<1>1. Typed'
  BY SeedingAssumption DEF Typed
<1>2. \A b \in Account : UpdatersOf(b) = {} /\ UpdatersOf(b)' = {}
  BY SeedingAssumption DEF UpdatersOf, NoJob
<1>3. JobsGiven'
  <2>1. ASSUME NEW j \in Updater PROVE JobGiven(j)'
    <3>1. update'[j] = NoJob
      OBVIOUS
    <3>2. NoJob.account = None
      BY DEF NoJob
    <3> QED BY <3>1, <3>2 DEF JobGiven
  <2> QED BY <2>1 DEF JobsGiven
<1>4. Alone'
  BY <1>2 DEF Alone
<1>5. ASSUME NEW b \in Account \ mixed' PROVE Settled(b)'
  <2>1. CASE b = a
    <3>1. settings'[b] = Seed[a]
      BY <2>1 DEF Typed
    <3>2. /\ Seed[a].token \notin Client
          /\ Seed[a].token = Foreign => Seed[a].server = Elsewhere
      BY SeedingAssumption, PatAssumption
    <3> QED BY <3>1, <3>2, <1>2 DEF Settled, Given
  <2>2. CASE b # a
    <3>1. settings'[b] = settings[b]
      BY <2>2 DEF Typed
    <3> QED BY <3>1, <1>2 DEF SettingsGiven, Settled, Given, Steady
  <2> QED BY <2>1, <2>2
<1>6. SettingsGiven'
  BY <1>5 DEF SettingsGiven
<1> QED
  BY <1>1, <1>3, <1>4, <1>6

\* Nothing is left of the accounts.
LEMMA SettingsCleared ==
  ASSUME mixed \subseteq Account,
         settings = [a \in Account |-> NoSettings],
         update = [k \in Updater |-> NoJob]
  PROVE  Matching
<1>1. Typed
  BY DEF Typed, Settings, NoSettings, NoJob
<1>2. \A a \in Account : UpdatersOf(a) = {}
  BY SeedingAssumption DEF UpdatersOf, NoJob
<1>3. JobsGiven
  BY DEF JobsGiven, JobGiven, NoJob
<1>4. SettingsGiven
  BY <1>2, PatAssumption, SeedingAssumption DEF SettingsGiven, Settled, Given, NoSettings
<1> QED
  BY <1>1, <1>2, <1>3, <1>4 DEF Matching, Alone

-----------------------------------------------------------------------------
(* The actions.                                                             *)

LEMMA SeedAccountStep ==
  ASSUME SeedInv, NEW a \in Account, NEW U \in SUBSET User, SeedAccount(a, U)
  PROVE  SeedInv'
<1> USE DEF SeedInv
<1>1. PatInv' /\ Steady
  BY SameSteady DEF SeedAccount
<1>2. \A j \in Updater : update[j] = NoJob
  BY DEF SeedAccount, Looping, Quiet
<1>3. Matching'
  BY <1>1, <1>2, SettingsSeeded DEF SeedAccount, counters
<1>4. Looping'
  BY DEF SeedAccount, Looping, LoopTyped, Quiet
<1> QED BY <1>1, <1>3, <1>4

LEMMA ListenStep ==
  ASSUME SeedInv, Listen
  PROVE  SeedInv'
<1> USE DEF SeedInv
<1>1. PatInv' /\ Steady
  BY SameSteady DEF Listen
<1>2. Matching'
  BY <1>1, NothingWritten DEF Listen
<1>3. Looping'
  BY DEF Listen, Looping, LoopTyped, Quiet, Off
<1> QED BY <1>1, <1>2, <1>3

LEMMA StopStep ==
  ASSUME SeedInv, Stop
  PROVE  SeedInv'
<1> USE DEF SeedInv
<1>1. PatInv' /\ Steady
  BY SameSteady DEF Stop
<1>2. /\ settings' = [a \in Account |-> NoSettings]
      /\ update' = [k \in Updater |-> NoJob]
      /\ mixed' = mixed
  BY DEF Stop
<1>3. Typed'
  BY <1>2 DEF Matching, Typed, Settings, NoSettings, NoJob
<1>4. NoJob.account = None
  BY DEF NoJob
<1>5. \A a \in Account : UpdatersOf(a)' = {}
  BY <1>2, <1>4, SeedingAssumption DEF UpdatersOf
<1>6. JobsGiven'
  BY <1>2, <1>4 DEF JobsGiven, JobGiven
<1>7. SettingsGiven'
  BY <1>2, <1>5, PatAssumption, SeedingAssumption
  DEF SettingsGiven, Settled, Given, NoSettings
<1>8. Matching'
  BY <1>3, <1>5, <1>6, <1>7 DEF Matching, Alone
<1>9. Looping'
  BY <1>2 DEF Stop, Looping, LoopTyped, Quiet, Off
<1> QED BY <1>1, <1>8, <1>9

LEMMA UpdateStepHolds ==
  ASSUME SeedInv, UpdateStep
  PROVE  SeedInv'
<1> USE DEF SeedInv
<1>1. PICK k \in Updater : WriteToken(k) \/ WriteServer(k)
  BY DEF UpdateStep
<1>2. PatInv' /\ Steady
  BY <1>1, SameSteady DEF WriteToken, WriteServer
<1>3. Matching'
  BY <1>1, <1>2, TokenWritten, ServerIsWritten
<1>4. active
  <2>1. update[k] # NoJob
    <3>1. ~NoJob.half
      BY DEF NoJob
    <3> QED BY <1>1, <3>1 DEF WriteToken, WriteServer
  <2> QED BY <2>1 DEF Looping, Quiet
<1>5. Looping'
  BY <1>1, <1>4 DEF WriteToken, WriteServer, Looping, LoopTyped, Quiet
<1> QED BY <1>2, <1>3, <1>5

\* Only updates are a matter of the settings while the loop runs.
LEMMA LoopGoesOn ==
  ASSUME SeedInv, LoopTyped', active', PatInv', Steady,
         UNCHANGED <<settings, update, mixed>>
  PROVE  SeedInv'
BY NothingWritten DEF SeedInv, Looping, Quiet

LEMMA VisitStep ==
  ASSUME SeedInv, NEW u \in User, Visit(u)
  PROVE  SeedInv'
<1>1. PatInv' /\ Steady
  BY SameSteady DEF SeedInv, Visit
<1>2. LoopTyped /\ active
  BY DEF SeedInv, Looping, Quiet, Visit, Off
<1>3. LoopTyped'
  BY <1>2 DEF LoopTyped, Visit, GoPast, accounts
<1> QED BY <1>1, <1>2, <1>3, LoopGoesOn DEF Visit, accounts

LEMMA ReadServerStep ==
  ASSUME SeedInv, ReadServer
  PROVE  SeedInv'
<1>1. PatInv' /\ Steady
  BY SameSteady DEF SeedInv, ReadServer
<1>2. LoopTyped /\ active
  BY DEF SeedInv, Looping, Quiet, ReadServer, Off
<1>3. Owner \in Account
  BY <1>2, SeedingAssumption DEF LoopTyped, ReadServer, Owner
<1>4. settings[Owner].server \in {Home, Elsewhere, None}
  BY <1>3 DEF SeedInv, Matching, Typed, Settings
<1>5. LoopTyped'
  BY <1>2, <1>3, <1>4 DEF LoopTyped, ReadServer, accounts
<1> QED BY <1>1, <1>2, <1>5, LoopGoesOn DEF ReadServer, accounts

LEMMA FinishedStep ==
  ASSUME SeedInv, Finished
  PROVE  SeedInv'
<1>1. PatInv' /\ Steady
  BY SameSteady DEF SeedInv, Finished
<1>2. LoopTyped /\ active
  BY DEF SeedInv, Looping, Quiet, Finished, Off
<1>3. LoopTyped'
  BY <1>2 DEF LoopTyped, Finished, accounts
<1> QED BY <1>1, <1>2, <1>3, LoopGoesOn DEF Finished, accounts

\* The answers to a registration: credentials that were given for the account,
\* or an error.
LEMMA ContinueStep ==
  ASSUME SeedInv, PatInv', Steady, loop.at = "asked",
         NEW a \in Account, a = Owner, NEW srv \in {Home, Elsewhere}, srv = loop.server,
         NEW tok \in Client \cup {Foreign}, Given(a, tok, srv)',
         Continue(tok), UNCHANGED <<accounts, counters>>, disturbed' \in BOOLEAN
  PROVE  SeedInv'
<1>1. LoopTyped /\ active /\ Matching
  BY DEF SeedInv, Looping, Quiet, Off
<1>2. /\ StartUpdate(Registrar, a, tok, srv)
      /\ loop' = [loop EXCEPT !.at = "updating"]
      /\ UNCHANGED <<settings, created, linked, active>>
  BY DEF Continue, accounts
<1>3. Matching'
  BY <1>1, <1>2, SeedingAssumption, UpdateStarts
<1>4. LoopTyped'
  BY <1>1, <1>2 DEF LoopTyped
<1> QED BY <1>1, <1>2, <1>3, <1>4 DEF SeedInv, Looping, Quiet

LEMMA AbortedStep ==
  ASSUME SeedInv, PatInv', Steady, loop.at = "asked",
         Aborted, UNCHANGED <<accounts, counters>>, disturbed' \in BOOLEAN
  PROVE  SeedInv'
<1>1. LoopTyped /\ active
  BY DEF SeedInv, Looping, Quiet, Off
<1>2. LoopTyped'
  BY <1>1 DEF LoopTyped, Aborted, accounts
<1> QED BY <1>1, <1>2, LoopGoesOn DEF Aborted, accounts

\* Who is asked for.
LEMMA AskedFor ==
  ASSUME SeedInv, loop.at = "asked"
  PROVE  loop.user \in User /\ Owner \in Account /\ disturbed \in BOOLEAN
BY SeedingAssumption DEF SeedInv, Looping, LoopTyped, Owner

LEMMA RegisteredStep ==
  ASSUME SeedInv, NEW c \in Client, Registered(c)
  PROVE  SeedInv'
<1>1. /\ loop.at = "asked" /\ loop.server = Home
      /\ RegisterClient(c, loop.user, Here)
      /\ UNCHANGED <<accounts, forms, restarts>>
  BY DEF Registered
<1>2. loop.user \in User /\ Owner \in Account /\ disturbed \in BOOLEAN
  BY <1>1, AskedFor
<1>3. /\ PatInv' /\ Steady
      /\ c \in registered' /\ client'[c] = [user |-> loop.user, server |-> Here]
  BY <1>1, <1>2, RegisterSteady, SeedingAssumption DEF SeedInv
<1>4. CASE Continue(c) /\ UNCHANGED <<lost, disturbed>>
  <2>1. PICK a \in Account : a = Owner
    BY <1>2
  <2>2. Given(a, c, Home)'
    BY <1>3, <2>1, SeedingAssumption DEF Given, Owner
  <2> QED BY <1>1, <1>2, <1>3, <1>4, <2>1, <2>2, ContinueStep DEF counters
<1>5. CASE disturbed' = TRUE /\ UNCHANGED <<loop, update, mixed>>
  <2>1. LoopTyped /\ active
    BY <1>1 DEF SeedInv, Looping, Quiet, Off
  <2>2. LoopTyped' /\ active' /\ UNCHANGED <<settings, update, mixed>>
    BY <1>1, <1>5, <2>1 DEF LoopTyped, accounts
  <2> QED BY <1>3, <2>2, LoopGoesOn
<1> QED BY <1>4, <1>5 DEF Registered

LEMMA ConflictStep ==
  ASSUME SeedInv, Conflict
  PROVE  SeedInv'
<1>1. PatInv' /\ Steady
  BY SameSteady DEF SeedInv, Conflict
<1>2. disturbed' \in BOOLEAN
  BY AskedFor DEF Conflict
<1> QED BY <1>1, <1>2, AbortedStep DEF Conflict

LEMMA AskedElsewhereStep ==
  ASSUME SeedInv, AskedElsewhere
  PROVE  SeedInv'
<1>1. PatInv' /\ Steady
  BY SameSteady DEF SeedInv, AskedElsewhere
<1>2. /\ loop.at = "asked" /\ loop.server = Elsewhere
      /\ UNCHANGED <<accounts, counters>>
      /\ Owner \in Account /\ disturbed \in BOOLEAN
  BY AskedFor DEF AskedElsewhere
<1>3. CASE Continue(Foreign) /\ UNCHANGED disturbed
  <2>1. PICK a \in Account : a = Owner
    BY <1>2
  <2>2. Given(a, Foreign, Elsewhere)'
    BY SeedingAssumption DEF Given
  <2> QED BY <1>1, <1>2, <1>3, <2>1, <2>2, ContinueStep
<1>4. CASE Aborted /\ disturbed' = TRUE
  BY <1>1, <1>2, <1>4, AbortedStep
<1> QED BY <1>3, <1>4 DEF AskedElsewhere

LEMMA LoopStepHolds ==
  ASSUME SeedInv, LoopStep
  PROVE  SeedInv'
BY VisitStep, ReadServerStep, RegisteredStep, ConflictStep, AskedElsewhereStep,
   FinishedStep DEF LoopStep

LEMMA FormStep ==
  ASSUME SeedInv, NEW k \in Updater, NEW u \in User, NEW srv \in {Home, Elsewhere},
         NEW tok \in Client \cup {Foreign}, Form(k, u, tok, srv)
  PROVE  SeedInv'
<1>1. PatInv' /\ Steady /\ UNCHANGED <<registered, removed, client>>
  BY SameSteady DEF SeedInv, Form, vars, storage
<1>2. /\ active /\ Matching /\ LoopTyped
      /\ StartUpdate(k, AccountOf[u], tok, srv)
      /\ UNCHANGED <<settings, created, linked, active, loop, disturbed>>
  BY DEF SeedInv, Looping, Form, accounts
<1>3. AccountOf[u] \in Account
  BY SeedingAssumption
<1>4. \/ tok \in registered /\ client[tok] = [user |-> u, server |-> Here] /\ srv = Home
      \/ tok = Foreign /\ srv = Elsewhere
  BY DEF Form
<1>5. Given(AccountOf[u], tok, srv)'
  <2>1. CASE tok = Foreign /\ srv = Elsewhere
    BY <2>1, SeedingAssumption DEF Given
  <2>2. CASE tok \in registered /\ client[tok] = [user |-> u, server |-> Here] /\ srv = Home
    <3>1. tok \in Client /\ tok # Foreign
      BY <2>2, SeedingAssumption DEF SeedInv, PatInv, TypeOK
    <3>2. /\ tok \in registered' \cup removed'
          /\ client'[tok].user = u /\ client'[tok].server = Here
      BY <2>2, <1>1
    <3> QED BY <2>2, <3>1, <3>2 DEF Given
  <2> QED BY <1>4, <2>1, <2>2
<1>6. Matching'
  BY <1>1, <1>2, <1>3, <1>5, UpdateStarts
<1>7. Looping'
  BY <1>2 DEF Looping, LoopTyped, Quiet
<1> QED BY <1>1, <1>6, <1>7 DEF SeedInv

\* What users do to their clients leaves the accounts alone.
LEMMA ClientStep ==
  ASSUME SeedInv, PatInv', Steady, UNCHANGED <<accounts, loop, update, mixed>>,
         disturbed' \in BOOLEAN
  PROVE  SeedInv'
<1>1. Matching'
  BY NothingWritten DEF SeedInv, accounts
<1>2. Looping'
  BY DEF SeedInv, Looping, LoopTyped, Quiet, accounts
<1> QED BY <1>1, <1>2 DEF SeedInv

LEMMA UserStepHolds ==
  ASSUME SeedInv, UserStep
  PROVE  SeedInv'
<1>d. PatInv /\ disturbed \in BOOLEAN
  BY DEF SeedInv, Looping, LoopTyped
<1>1. ASSUME NEW c \in UserClient, NEW u \in User, NEW s \in Server,
             UserRegisters(c, u, s)
      PROVE  SeedInv'
  <2>1. c \in Client
    BY SeedingAssumption
  <2>2. PatInv' /\ Steady
    BY <1>1, <1>d, <2>1, RegisterSteady DEF UserRegisters
  <2> QED BY <1>1, <1>d, <2>2, ClientStep DEF UserRegisters
<1>2. ASSUME NEW c \in Client, NEW u \in User, UserRemoves(c, u)
      PROVE  SeedInv'
  <2>1. PatInv' /\ Steady
    BY <1>2, <1>d, RemoveSteady DEF UserRemoves
  <2> QED BY <1>2, <1>d, <2>1, ClientStep DEF UserRemoves, seeding
<1> QED BY <1>1, <1>2, FormStep DEF UserStep

-----------------------------------------------------------------------------
LEMMA SeedInitHolds == SeedingInit => SeedInv
<1> SUFFICES ASSUME SeedingInit PROVE SeedInv
  OBVIOUS
<1>1. PatInv
  BY InitHolds DEF SeedingInit
<1>2. Matching
  BY SettingsCleared DEF SeedingInit
<1>3. Looping
  BY DEF SeedingInit, Looping, LoopTyped, Quiet, Off
<1> QED BY <1>1, <1>2, <1>3 DEF SeedInv

LEMMA SeedNextHolds == SeedInv /\ [SeedingNext]_<<vars, seeding>> => SeedInv'
<1> SUFFICES ASSUME SeedInv, [SeedingNext]_<<vars, seeding>> PROVE SeedInv'
  OBVIOUS
<1>1. CASE \E a \in Account, U \in SUBSET User : SeedAccount(a, U)
  BY <1>1, SeedAccountStep
<1>2. CASE UNCHANGED <<vars, seeding>>
  <2>1. PatInv' /\ Steady
    BY <1>2, SameSteady DEF SeedInv
  <2>2. disturbed' \in BOOLEAN
    BY <1>2 DEF SeedInv, Looping, LoopTyped, seeding
  <2> QED BY <1>2, <2>1, <2>2, ClientStep DEF seeding
<1> QED
  BY <1>1, <1>2, ListenStep, StopStep, LoopStepHolds, UpdateStepHolds, UserStepHolds
  DEF SeedingNext

LEMMA SeedInvHolds == SeedingSpec => []SeedInv
  BY SeedInitHolds, SeedNextHolds, PTL DEF SeedingSpec

\* Accounts, the loop over them and the updates stay well typed, whatever users
\* and the process do meanwhile.
THEOREM AccountsTyped == SeedingSpec => []SeedingTypeOK
<1>1. SeedInv => SeedingTypeOK
  BY DEF SeedInv, PatInv, Matching, Typed, Looping, LoopTyped, SeedingTypeOK
<1> QED BY <1>1, SeedInvHolds, PTL

\* The two settings an account has are of one authorization server and, there, of
\* a client of the account itself, unless two updates of it overlapped
\* (PatUpdater.updateSettings writes one after the other).
THEOREM SettingsAlwaysMatch == SeedingSpec => []SettingsMatch
<1>1. SeedInv => SettingsMatch
  BY SeedingAssumption
  DEF SeedInv, Matching, SettingsGiven, Settled, Given, SettingsMatch
<1> QED BY <1>1, SeedInvHolds, PTL

=============================================================================
